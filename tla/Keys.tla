--------------------------------- MODULE Keys ---------------------------------
(***************************************************************************)
(* The keys of the object stores.  A path is a string, here the sequence   *)
(* of its code points.  The backend compares paths as Rust strings, by     *)
(* UTF-8 bytes; IndexedDB orders its keys by UTF-16 code units.  The two   *)
(* orders differ, and every range the backend asks IndexedDB for is        *)
(* computed with the first and evaluated with the second.                  *)
(***************************************************************************)
EXTENDS Integers, Sequences, FiniteSets

CONSTANT None    \* Rust's None, for a path and for the bound of a range

\* A Rust string has no surrogates (0xD800..0xDFFF); that is not needed below.
LastCodePoint == 1114111
CodePoint == 0..LastCodePoint
Key == Seq(CodePoint)
ASSUME NoneAssumption == None \notin Key

Slash == 47
---------------------------------------------------------------------------
(* Order.                                                                  *)

\* UTF-8 bytes compare like code points.
utf8_rank(c) == c
\* UTF-16 writes a code point above U+FFFF with surrogates, which sort
\* between U+D7FF and U+E000.
utf16_rank(c) == IF c < 55296 THEN c
                 ELSE IF c >= 65536 THEN c - 10240
                 ELSE c + 1048576

\* The lexicographic order of strings that a rank of code points gives.
Precedes(rank(_), s, t) ==
  \E i \in 1..Len(t) :
    /\ i <= Len(s) + 1
    /\ \A j \in 1..(i - 1) : s[j] = t[j]
    /\ i = Len(s) + 1 \/ rank(s[i]) < rank(t[i])

str_less(s, t) == Precedes(utf8_rank, s, t)    \* `<` on &str
idb_less(s, t) == Precedes(utf16_rank, s, t)   \* IndexedDB's key order
str_leq(s, t) == s = t \/ str_less(s, t)
idb_leq(s, t) == s = t \/ idb_less(s, t)

starts_with(s, p) == Len(p) <= Len(s) /\ \A i \in 1..Len(p) : s[i] = p[i]
ends_with_slash(s) == s # <<>> /\ s[Len(s)] = Slash
---------------------------------------------------------------------------
(* Ranges.                                                                 *)

\* The code points whose last UTF-8 byte is 0x7F or 0xBF: incrementing that
\* byte gives no valid UTF-8.
no_successor(c) == c = 127 \/ (c >= 128 /\ c % 64 = 63)

\* Mutant: the byte is pushed incremented, but the old one is not popped.
prefix_upper_bound_unpopped(p) ==
  IF p = <<>> \/ no_successor(p[Len(p)]) THEN None
  ELSE Append(p, p[Len(p)] + 1)

prefix_upper_bound(p) ==
  IF p = <<>> \/ no_successor(p[Len(p)]) THEN None
  ELSE [p EXCEPT ![Len(p)] = @ + 1]

\* The keys of an IndexedDB range whose upper end, if any, is open.
InRange(k, lower, lower_open, upper) ==
  /\ idb_leq(lower, k)
  /\ lower_open => k # lower
  /\ upper # None => idb_less(k, upper)

\* Mutant: the prefix of a path that is not a directory keeps its last segment open.
recursive_delete_target_unclosed(p) ==
  IF p = <<>> \/ ends_with_slash(p) THEN [exact_key |-> None, prefix |-> p]
  ELSE [exact_key |-> p, prefix |-> p]

\* The exact key (or None) and the prefix that a recursive delete removes.
recursive_delete_target(p) ==
  IF p = <<>> \/ ends_with_slash(p) THEN [exact_key |-> None, prefix |-> p]
  ELSE [exact_key |-> p, prefix |-> Append(p, Slash)]

\* The keys a cursor meets from p on, up to the first that lies outside.
delete_prefix_by_cursor(data, p) ==
  {k \in data : idb_leq(p, k) /\ \A o \in data : idb_leq(p, o) /\ idb_leq(o, k) => starts_with(o, p)}

\* What is left of the keys of a store: all are cleared for the empty prefix,
\* a range is deleted, or, without a bound, what a cursor meets in the data
\* store, whichever of the two stores the keys are of.
delete_prefix(data, keys, p) ==
  IF p = <<>> THEN {}
  ELSE IF prefix_upper_bound(p) # None
  THEN {k \in keys : ~InRange(k, p, FALSE, prefix_upper_bound(p))}
  ELSE keys \ delete_prefix_by_cursor(data, p)

\* A recursive delete of p in one store.
delete_recursive(data, keys, p) ==
  delete_prefix(data, keys, recursive_delete_target(p).prefix)
    \ {recursive_delete_target(p).exact_key}
=============================================================================
