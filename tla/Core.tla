-------------------------------- MODULE Core --------------------------------
(***************************************************************************)
(* The bodies of the transactions of core.rs: what each call reads from    *)
(* the data store D and the sidecar store M, and what it leaves in them.   *)
(* A body either succeeds, and its writes are installed when the           *)
(* transaction commits, or fails, and the transaction is rolled back.      *)
(***************************************************************************)
EXTENDS Objects

CONSTANT BadMeta   \* a sidecar record that does not deserialize

\* A sidecar record: length, mtime, etag, content metadata.
MetaRecord == [l: Nat, m: Times \cup {None}, e: ETags \cup {None}, c: Contents]
ASSUME MetaAssumption ==
  None \notin MetaRecord /\ BadMeta \notin MetaRecord /\ None # BadMeta
Metas == MetaRecord \cup {None, BadMeta}

read_meta(M, k) == IF M[k] = BadMeta THEN None ELSE M[k]

entry_meta_with_etag_fallback(m, etag) ==
  [size |-> m.l, modified |-> m.m, etag |-> IF m.e # None THEN m.e ELSE etag,
   content |-> m.c]

\* An entry without a usable sidecar is measured and hashed on the spot.
entry_info(D, M, k) ==
  LET m == read_meta(M, k)
  IN  IF m = None
      THEN [size |-> value_byte_length(D[k]), modified |-> None,
            etag |-> value_etag(D[k]), content |-> NoContent]
      ELSE entry_meta_with_etag_fallback(m, value_etag(D[k]))

\* Existence is decided by the data store: a sidecar may be an orphan.
existing_etag(D, M, k) == IF D[k] = None THEN None ELSE entry_info(D, M, k).etag

put_meta(info) == [l |-> info.size, m |-> info.modified, e |-> info.etag, c |-> info.content]

Views == [data: [Paths -> Values \cup {None}], meta: [Paths -> Metas], out: Result]
View(D, M, out) == [data |-> D, meta |-> M, out |-> out]
---------------------------------------------------------------------------
stat(D, M, c) ==
  LET k    == c.conditions.path
      info == entry_info(D, M, k)
  IN  View(D, M,
        IF D[k] = None THEN Outcome("NotFound")
        ELSE IF check_modified(info, c.conditions) /\ check_etag(info, c.conditions)
             THEN Found(info, None)
             ELSE Outcome("ConditionNotMatch"))

read(D, M, c) ==
  LET k     == c.conditions.path
      info  == entry_info(D, M, k)
      total == IF info.size # None THEN info.size ELSE 0
  IN  View(D, M,
        IF D[k] = None THEN Outcome("NotFound")
        ELSE IF ~(check_modified(info, c.conditions) /\ check_etag(info, c.conditions))
             THEN Outcome("ConditionNotMatch")
        ELSE IF D[k] = NotBytes THEN Outcome("Unexpected")
        ELSE Found(info, record_bytes_range(D[k], c.range, total)))

set(D, M, c, now) ==
  LET k == c.path
      unconditional_overwrite ==
        /\ ~c.append /\ ~c.if_not_exists
        /\ c.if_match = None /\ c.if_none_match = None
      existing_data == IF unconditional_overwrite THEN None ELSE D[k]
      exists == existing_data # None
      existing_meta == IF exists THEN read_meta(M, k) ELSE None
      etag == IF exists THEN existing_etag(D, M, k) ELSE None
      keeps == c.append /\ exists
      bytes == (IF keeps THEN existing_data ELSE <<>>) \o c.bytes
      kept  == IF c.append /\ existing_meta # None THEN existing_meta.c ELSE NoContent
      info  == [size |-> Len(bytes), modified |-> now, etag |-> etag_from_bytes(bytes),
                content |-> merge(kept, c.content)]
  IN  IF \/ c.if_not_exists /\ exists
         \/ c.if_match # None /\ ~matched(c.if_match, exists, etag)
         \/ c.if_none_match # None /\ matched(c.if_none_match, exists, etag)
      THEN View(D, M, Outcome("ConditionNotMatch"))
      ELSE IF keeps /\ existing_data = NotBytes
      THEN View(D, M, Outcome("Unexpected"))
      ELSE View([D EXCEPT ![k] = bytes], [M EXCEPT ![k] = put_meta(info)],
                Found(info, None))

\* The keys one member of a batch removes: an exact key, or a key range.
targets(d) == IF d.recursive THEN Subtree[d.path] ELSE {d.path}
without(S, gone) == [k \in Paths |-> IF k \in gone THEN None ELSE S[k]]

\* Mutant: the sidecar store is not cleaned.
delete_many_data_only(D, M, c) ==
  View(without(D, UNION {targets(d) : d \in c.batch}), M, Outcome("Ok"))

\* Recursive members delete their key range from both stores.
delete_many(D, M, c) ==
  LET gone == UNION {targets(d) : d \in c.batch}
  IN  View(without(D, gone), without(M, gone), Outcome("Ok"))

\* Mutants: the ETag of a legacy source is not derived; the mtime is dropped.
source_info_without_fallback(D, M, k) ==
  LET m == read_meta(M, k)
  IN  [entry_info(D, M, k) EXCEPT !.etag = IF m # None THEN m.e ELSE None]
source_info_without_mtime(D, M, k) == [entry_info(D, M, k) EXCEPT !.modified = None]

\* source_size and the source's etag, mtime and content, whichever store has them.
source_info(D, M, k) ==
  LET m == read_meta(M, k)
  IN  [entry_info(D, M, k) EXCEPT
         !.size = IF m # None THEN m.l ELSE value_byte_length(D[k])]

copy(D, M, c, now) ==
  LET exists == D[c.to] # None
      info   == [source_info(D, M, c.from) EXCEPT !.modified = now]
  IN  IF D[c.from] = None THEN View(D, M, Outcome("NotFound"))
      ELSE IF \/ c.if_not_exists /\ exists
              \/ /\ c.if_match # None
                 /\ ~matched(c.if_match, exists, existing_etag(D, M, c.to))
      THEN View(D, M, Outcome("ConditionNotMatch"))
      ELSE IF D[c.from] = NotBytes THEN View(D, M, Outcome("Unexpected"))
      ELSE View([D EXCEPT ![c.to] = D[c.from]], [M EXCEPT ![c.to] = put_meta(info)],
                Found(info, None))

rename(D, M, c) ==
  LET info == source_info(D, M, c.from)
  IN  IF D[c.from] = None THEN View(D, M, Outcome("NotFound"))
      ELSE IF D[c.from] = NotBytes THEN View(D, M, Outcome("Unexpected"))
      ELSE View([D EXCEPT ![c.to] = D[c.from], ![c.from] = None],
                [M EXCEPT ![c.to] = put_meta(info), ![c.from] = None],
                Outcome("Ok"))

Body(D, M, c, now) ==
  CASE c.op = "stat"   -> stat(D, M, c)
    [] c.op = "read"   -> read(D, M, c)
    [] c.op = "set"    -> set(D, M, c, now)
    [] c.op = "delete" -> delete_many(D, M, c)
    [] c.op = "copy"   -> copy(D, M, c, now)
    [] c.op = "rename" -> rename(D, M, c)
=============================================================================
