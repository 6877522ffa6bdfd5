------------------------------ MODULE Objects ------------------------------
(***************************************************************************)
(* The vocabulary of the backend: byte strings and their ETags, the        *)
(* metadata an entry carries, the calls a client makes and the results it  *)
(* gets back.  Both the promise (ObjectStore) and the implementation       *)
(* (Core, TxnStore) are written in it.                                     *)
(***************************************************************************)
EXTENDS Integers, Sequences

CONSTANTS
  Paths,      \* the keys of the object store (absolute paths)
  Subtree,    \* Subtree[p]: the keys a recursive delete of p removes, p too
  Byte,       \* the bytes payloads are made of
  Field,      \* content metadata fields: Content-Type, user metadata
  Attr,       \* the values such a field can have
  Times,      \* the milliseconds Date.now() can return
  None,       \* Rust's None, and an absent record
  Star,       \* the "*" wildcard of if_match and if_none_match
  NotBytes    \* a stored `v` that is not a Uint8Array (foreign data)

ASSUME PathsAssumption ==
  /\ Subtree \in [Paths -> SUBSET Paths]
  /\ \A p \in Paths : p \in Subtree[p]
ASSUME TimesAssumption == Times \subseteq Nat /\ Times # {}

Bytes == Seq(Byte)
Values == Bytes \cup {NotBytes}
ASSUME ValuesAssumption == NotBytes \notin Bytes /\ None \notin Values

\* BLAKE3 of the content: an injective function of it, told apart from it.
ETags == [hash: Bytes]
etag_from_bytes(v) == [hash |-> v]
ASSUME ETagsAssumption ==
  /\ None \notin ETags \cup {Star} /\ Star \notin ETags
  /\ None \notin Nat \cup Times \cup Attr
value_etag(v) == IF v = NotBytes THEN None ELSE etag_from_bytes(v)
value_byte_length(v) == IF v = NotBytes THEN None ELSE Len(v)

Contents == [Field -> Attr \cup {None}]
NoContent == [f \in Field |-> None]
merge(content, request) ==
  [f \in Field |-> IF request[f] # None THEN request[f] ELSE content[f]]

\* An entry as its clients see it, in however many records it is stored.
Entry == [value: Values, modified: Times \cup {None}, content: Contents]
ASSUME EntryAssumption == None \notin Entry

\* What stat, read, write and copy report about an entry.
EntryInfo == [size: Nat \cup {None}, modified: Times \cup {None},
              etag: ETags \cup {None}, content: Contents]
---------------------------------------------------------------------------
(* Calls.                                                                  *)
Wanted == ETags \cup {Star, None}
Conditions == [path: Paths, if_match: Wanted, if_none_match: Wanted,
               if_modified_since: Times \cup {None},
               if_unmodified_since: Times \cup {None}]
ReadRange == [offset: Nat, size: Nat \cup {None}]

SetCall == [op: {"set"}, path: Paths, bytes: Bytes, append: BOOLEAN,
            if_not_exists: BOOLEAN, if_match: Wanted, if_none_match: Wanted,
            content: Contents]
DeleteCall == [op: {"delete"}, batch: SUBSET [path: Paths, recursive: BOOLEAN]]
StatCall == [op: {"stat"}, conditions: Conditions]
ReadCall == [op: {"read"}, conditions: Conditions, range: ReadRange]
CopyCall == [op: {"copy"}, from: Paths, to: Paths, if_not_exists: BOOLEAN,
             if_match: Wanted]
RenameCall == [op: {"rename"}, from: Paths, to: Paths]
Call == SetCall \cup DeleteCall \cup StatCall \cup ReadCall \cup CopyCall
          \cup RenameCall

\* The calls that return before any transaction is opened.
early_return(c) ==
  IF c.op \in {"copy", "rename"} /\ c.from = c.to THEN "IsSameFile"
  ELSE IF c.op = "delete" /\ c.batch = {} THEN "Ok"
  ELSE None

ASSUME EarlyAssumption == None \notin {"IsSameFile", "Ok"}

\* The calls that run in a readwrite transaction.
readwrite(c) == c.op \in {"set", "delete", "copy", "rename"}
---------------------------------------------------------------------------
(* Results.                                                                *)
Result == [kind: {"Ok", "NotFound", "ConditionNotMatch", "IsSameFile",
                  "Unexpected"},
           info: EntryInfo \cup {None}, bytes: Bytes \cup {None}]
Outcome(kind) == [kind |-> kind, info |-> None, bytes |-> None]
Found(info, bytes) == [kind |-> "Ok", info |-> info, bytes |-> bytes]

\* Mutant: `want == "*" || ...`, as check_etag has it, where the entry may be absent.
matched_if_absent(want, exists, etag) ==
  \/ want = Star
  \/ etag # None /\ etag = want

\* if_match and if_none_match of a write or copy, against the entry in place.
matched(want, exists, etag) ==
  \/ want = Star /\ exists
  \/ etag # None /\ etag = want

\* if_match and if_none_match of a stat or read: the entry exists.
check_etag(info, c) ==
  /\ c.if_match # None => matched(c.if_match, TRUE, info.etag)
  /\ c.if_none_match # None => ~matched(c.if_none_match, TRUE, info.etag)

\* An unknown modification time disproves neither condition.
check_modified(info, c) ==
  info.modified # None =>
    /\ c.if_modified_since # None => info.modified > c.if_modified_since
    /\ c.if_unmodified_since # None => info.modified <= c.if_unmodified_since

AtMost(a, b) == IF a < b THEN a ELSE b
\* The slice of v that a range selects when the entry is taken to have
\* `total` bytes; subarray clamps both ends to the real length again.
record_bytes_range(v, range, total) ==
  LET start == AtMost(range.offset, total)
      end   == IF range.size = None THEN total
               ELSE AtMost(range.offset + range.size, total)
  IN  SubSeq(v, AtMost(start, Len(v)) + 1, AtMost(end, Len(v)))
=============================================================================
