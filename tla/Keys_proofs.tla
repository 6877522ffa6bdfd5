----------------------------- MODULE Keys_proofs -----------------------------
(***************************************************************************)
(* The range that the backend deletes or lists is the subtree it means,    *)
(* for all paths: the bound is computed on UTF-8 bytes, the range is       *)
(* evaluated in UTF-16 order, and the two fit together.                    *)
(***************************************************************************)
EXTENDS Keys, TLAPS, WellFoundedInduction

\* A set of positions has a first and a last one.
LEMMA Extremes ==
  ASSUME NEW n \in Nat, NEW S \in SUBSET (1..n), S # {}
  PROVE  /\ \E i \in S : \A j \in S : i <= j
         /\ \E i \in S : \A j \in S : j <= i
<1> DEFINE R == {ss \in Nat \X Nat : ss[1] < ss[2]}
<1>1. IsWellFoundedOn(R, Nat)
  BY NatLessThanWellFounded, Zenon DEF OpToRel
<1>2. ASSUME NEW T \in SUBSET Nat, T # {}
      PROVE  \E i \in T : \A j \in T : i <= j
  <2>1. PICK i \in T : \A j \in T : <<j, i>> \notin R
    <3> HIDE DEF R
    <3> QED BY <1>1, <1>2, WFMin
  <2>2. \A j \in T : ~(j < i)
    BY <2>1
  <2> QED BY <2>2
<1> HIDE DEF R
<1>3. \E i \in S : \A j \in S : i <= j
  BY <1>2
<1>4. \E i \in S : \A j \in S : j <= i
  <2> DEFINE T == {n - i : i \in S}
  <2>1. T \in SUBSET Nat /\ T # {}
    <3>1. \A i \in S : n - i \in Nat
      OBVIOUS
    <3>2. T \subseteq Nat
      BY <3>1
    <3>3. T # {}
      OBVIOUS
    <3> QED BY <3>2, <3>3
  <2>2. PICK m \in T : \A k \in T : m <= k
    BY <1>2, <2>1
  <2>3. PICK i \in S : m = n - i
    BY <2>2
  <2>4. \A j \in S : j <= i
    <3> TAKE j \in S
    <3>1. n - j \in T
      OBVIOUS
    <3> HIDE DEF T
    <3>2. n - i <= n - j
      BY <2>2, <2>3, <3>1
    <3> QED BY <3>2
  <2> QED BY <2>4
<1> QED BY <1>3, <1>4

LEMMA LastIsInt == LastCodePoint \in Int
BY SMT DEF LastCodePoint

LEMMA CodePoints ==
  ASSUME NEW x
  PROVE  x \in CodePoint <=> x \in Int /\ 0 <= x /\ x <= LastCodePoint
BY LastIsInt, SMT DEF CodePoint

LEMMA Rank ==
  ASSUME NEW x \in CodePoint
  PROVE  utf16_rank(x) \in Int
BY CodePoints, SMT DEF utf16_rank

LEMMA SuccessorOfInt ==
  ASSUME NEW x \in Int, 0 <= x, x <= 1114111, ~no_successor(x),
         NEW y \in Int, 0 <= y, y <= 1114111
  PROVE  /\ x + 1 <= 1114111
         /\ utf16_rank(x) < utf16_rank(x + 1)
         /\ utf16_rank(y) < utf16_rank(x + 1) /\ ~(utf16_rank(y) < utf16_rank(x)) => y = x
BY SMT DEF no_successor, utf16_rank

\* Nothing sorts between a code point and its successor, in UTF-16 order,
\* although the order jumps at the surrogates.
LEMMA Successor ==
  ASSUME NEW x \in CodePoint, ~no_successor(x), NEW y \in CodePoint
  PROVE  /\ x + 1 \in CodePoint
         /\ utf16_rank(x) < utf16_rank(x + 1)
         /\ utf16_rank(y) < utf16_rank(x + 1) /\ ~(utf16_rank(y) < utf16_rank(x)) => y = x
<1>1. LastCodePoint = 1114111
  BY SMT DEF LastCodePoint
<1>2. /\ x \in Int /\ 0 <= x /\ x <= LastCodePoint
      /\ y \in Int /\ 0 <= y /\ y <= LastCodePoint
  BY CodePoints
<1>3. /\ x + 1 <= LastCodePoint
      /\ utf16_rank(x) < utf16_rank(x + 1)
      /\ utf16_rank(y) < utf16_rank(x + 1) /\ ~(utf16_rank(y) < utf16_rank(x)) => y = x
  BY <1>1, <1>2, SuccessorOfInt, SMT
<1>4. x + 1 \in Int /\ 0 <= x + 1
  BY <1>2
<1> QED
  BY <1>3, <1>4, CodePoints, SMT

LEMMA Bound ==
  ASSUME NEW p \in Key, prefix_upper_bound(p) # None
  PROVE  /\ p # <<>> /\ Len(p) \in Nat \ {0} /\ ~no_successor(p[Len(p)])
         /\ prefix_upper_bound(p) \in Key
         /\ Len(prefix_upper_bound(p)) = Len(p)
         /\ \A i \in 1..(Len(p) - 1) : prefix_upper_bound(p)[i] = p[i]
         /\ prefix_upper_bound(p)[Len(p)] = p[Len(p)] + 1
<1>1. p # <<>> /\ ~no_successor(p[Len(p)])
  BY DEF prefix_upper_bound
<1>2. Len(p) \in Nat \ {0} /\ p[Len(p)] \in CodePoint
  BY <1>1 DEF Key
<1>3. p[Len(p)] + 1 \in CodePoint
  BY <1>1, <1>2, Successor
<1>4. prefix_upper_bound(p) = [p EXCEPT ![Len(p)] = p[Len(p)] + 1]
  BY <1>1 DEF prefix_upper_bound
<1> QED
  BY <1>1, <1>2, <1>3, <1>4 DEF Key

\* Everything in the range starts with the prefix.
LEMMA RangeInPrefix ==
  ASSUME NEW p \in Key, NEW k \in Key, prefix_upper_bound(p) # None,
         idb_less(p, k), idb_less(k, prefix_upper_bound(p))
  PROVE  starts_with(k, p)
<1> DEFINE n == Len(p)
           u == prefix_upper_bound(p)
<1>1. PICK i \in 1..Len(k) :
        /\ i <= n + 1
        /\ \A l \in 1..(i - 1) : p[l] = k[l]
        /\ i = n + 1 \/ utf16_rank(p[i]) < utf16_rank(k[i])
  BY DEF idb_less, Precedes
<1>2. PICK j \in 1..Len(u) :
        /\ j <= Len(k) + 1
        /\ \A l \in 1..(j - 1) : k[l] = u[l]
        /\ j = Len(k) + 1 \/ utf16_rank(k[j]) < utf16_rank(u[j])
  BY DEF idb_less, Precedes
<1>3. /\ n \in Nat \ {0} /\ Len(k) \in Nat /\ Len(u) = n /\ ~no_successor(p[n])
      /\ \A l \in 1..(n - 1) : u[l] = p[l]
      /\ u[n] = p[n] + 1
  BY Bound DEF Key
<1>4. \A l \in 1..n : p[l] \in CodePoint /\ utf16_rank(p[l]) \in Int
  BY <1>3, Rank DEF Key
<1>5. \A l \in 1..Len(k) : k[l] \in CodePoint /\ utf16_rank(k[l]) \in Int
  BY <1>3, Rank DEF Key
<1>6. CASE i = n + 1
  BY <1>1, <1>3, <1>6 DEF starts_with
<1>7. CASE i # n + 1
  <2>1. i \in 1..n /\ i \in 1..Len(k) /\ utf16_rank(p[i]) < utf16_rank(k[i])
    <3>1. i \in 1..n /\ i \in 1..Len(k)
      BY <1>1, <1>3, <1>7
    <3> QED BY <1>1, <1>7, <3>1
  <2>2. CASE j < i
    <3>1. k[j] = p[j] /\ u[j] = p[j] /\ j \in 1..Len(k) /\ j # Len(k) + 1
      BY <1>1, <1>2, <1>3, <2>1, <2>2
    <3> QED BY <1>2, <1>5, <3>1
  <2>3. CASE j > i
    <3>1. k[i] = u[i] /\ u[i] = p[i]
      BY <1>2, <1>3, <2>1, <2>3
    <3> QED BY <1>4, <2>1, <3>1
  <2>4. CASE j = i
    <3>1. utf16_rank(k[i]) < utf16_rank(u[i])
      BY <1>2, <1>3, <2>1, <2>4
    <3>2. CASE i < n
      <4>1. u[i] = p[i]
        BY <1>3, <2>1, <3>2
      <4> QED BY <1>4, <1>5, <2>1, <3>1, <4>1
    <3>3. CASE i = n
      <4>1. k[n] = p[n]
        <5>1. ~(utf16_rank(k[n]) < utf16_rank(p[n]))
          BY <1>4, <1>5, <2>1, <3>3
        <5> QED BY <1>3, <1>4, <1>5, <2>1, <3>1, <3>3, <5>1, Successor
      <4> QED BY <1>4, <2>1, <3>3, <4>1
    <3> QED BY <1>3, <2>1, <3>2, <3>3
  <2> QED BY <1>1, <1>2, <1>3, <2>2, <2>3, <2>4
<1> QED BY <1>6, <1>7

\* Everything that starts with the prefix is in the range.
LEMMA PrefixInRange ==
  ASSUME NEW p \in Key, NEW k \in Key, prefix_upper_bound(p) # None,
         starts_with(k, p)
  PROVE  idb_leq(p, k) /\ idb_less(k, prefix_upper_bound(p))
<1> DEFINE n == Len(p)
           u == prefix_upper_bound(p)
<1>1. /\ n \in Nat \ {0} /\ Len(k) \in Nat /\ Len(u) = n /\ ~no_successor(p[n])
      /\ \A l \in 1..(n - 1) : u[l] = p[l]
      /\ u[n] = p[n] + 1
  BY Bound DEF Key
<1>2. n <= Len(k) /\ \A l \in 1..n : k[l] = p[l]
  BY DEF starts_with
<1>3. p[n] \in CodePoint
  BY <1>1 DEF Key
<1>4. idb_less(k, u)
  <2>1. utf16_rank(k[n]) < utf16_rank(u[n])
    BY <1>1, <1>2, <1>3, Successor
  <2>2. \A l \in 1..(n - 1) : k[l] = u[l]
    BY <1>1, <1>2
  <2> QED BY <1>1, <1>2, <2>1, <2>2 DEF idb_less, Precedes
<1>5. CASE n = Len(k)
  <2>1. p = k
    BY <1>1, <1>2, <1>5 DEF Key
  <2> QED BY <1>4, <2>1 DEF idb_leq
<1>6. CASE n < Len(k)
  <2>1. idb_less(p, k)
    <3>1. n + 1 \in 1..Len(k) /\ \A l \in 1..((n + 1) - 1) : p[l] = k[l]
      BY <1>1, <1>2, <1>6
    <3> QED BY <1>1, <3>1 DEF idb_less, Precedes
  <2> QED BY <1>4, <2>1 DEF idb_leq
<1> QED BY <1>1, <1>2, <1>5, <1>6

\* The bound that prefix_upper_bound computes, whenever it computes one, makes
\* the range of exactly the keys that start with the prefix.
THEOREM PrefixRange ==
  ASSUME NEW p \in Key, NEW k \in Key, prefix_upper_bound(p) # None
  PROVE  InRange(k, p, FALSE, prefix_upper_bound(p)) <=> starts_with(k, p)
<1>1. ASSUME InRange(k, p, FALSE, prefix_upper_bound(p)) PROVE starts_with(k, p)
  <2>1. CASE p = k
    BY <2>1 DEF starts_with, Key
  <2>2. CASE p # k
    BY <1>1, <2>2, RangeInPrefix DEF InRange, idb_leq
  <2> QED BY <2>1, <2>2
<1>2. ASSUME starts_with(k, p) PROVE InRange(k, p, FALSE, prefix_upper_bound(p))
  BY <1>2, PrefixInRange DEF InRange
<1> QED BY <1>1, <1>2

---------------------------------------------------------------------------
\* The directory whose entries a recursive delete of p removes with p itself.
Subtree(p) == IF ends_with_slash(p) THEN p ELSE Append(p, Slash)

LEMMA SlashHasSuccessor == ~no_successor(Slash) /\ Slash \in CodePoint
<1>1. Slash \in Int /\ 0 <= Slash /\ Slash <= LastCodePoint
  BY SMT DEF Slash, LastCodePoint
<1>2. ~no_successor(Slash)
  BY SMT DEF Slash, no_successor
<1> QED BY <1>1, <1>2, CodePoints

LEMMA SubtreeBound ==
  ASSUME NEW p \in Key, p # <<>>
  PROVE  /\ Subtree(p) \in Key /\ Subtree(p) # <<>>
         /\ prefix_upper_bound(Subtree(p)) # None
<1>1. /\ Subtree(p) \in Key /\ Subtree(p) # <<>>
      /\ Len(Subtree(p)) \in 1..Len(Subtree(p))
      /\ Subtree(p)[Len(Subtree(p))] = Slash
  <2>1. CASE ends_with_slash(p)
    BY <2>1 DEF Subtree, ends_with_slash, Key
  <2>2. CASE ~ends_with_slash(p)
    BY <2>2, SlashHasSuccessor DEF Subtree, Key
  <2> QED BY <2>1, <2>2
<1> DEFINE q == Subtree(p)
<1>2. Slash + 1 \in CodePoint
  BY SlashHasSuccessor, Successor
<1>3. prefix_upper_bound(q) = [q EXCEPT ![Len(q)] = Slash + 1]
  BY <1>1, SlashHasSuccessor DEF prefix_upper_bound
<1>4. prefix_upper_bound(q) \in Key
  BY <1>1, <1>2, <1>3 DEF Key
<1> QED BY <1>1, <1>4, NoneAssumption

\* A recursive delete removes the path and everything below it, and nothing
\* else: not "ab" with "a", not the neighbours of the directory.
THEOREM RecursiveDelete ==
  ASSUME NEW p \in Key, p # <<>>, NEW data, NEW keys \in SUBSET Key
  PROVE  delete_recursive(data, keys, p) = {k \in keys : k # p /\ ~starts_with(k, Subtree(p))}
<1> DEFINE q == Subtree(p)
<1>1. recursive_delete_target(p).prefix = q
  BY DEF recursive_delete_target, Subtree
<1>2. \A k \in keys : k = recursive_delete_target(p).exact_key <=> k = p /\ ~ends_with_slash(p)
  BY NoneAssumption DEF recursive_delete_target
<1>3. delete_prefix(data, keys, q) = {k \in keys : ~starts_with(k, q)}
  <2>1. \A k \in keys : InRange(k, q, FALSE, prefix_upper_bound(q)) <=> starts_with(k, q)
    BY SubtreeBound, PrefixRange
  <2> QED BY <2>1, SubtreeBound DEF delete_prefix
<1>4. ends_with_slash(p) => starts_with(p, q)
  BY DEF starts_with, Subtree, Key
<1> HIDE DEF q
<1>5. delete_recursive(data, keys, p) = {k \in keys : ~starts_with(k, q)} \ {recursive_delete_target(p).exact_key}
  BY <1>1, <1>3 DEF delete_recursive
<1>6. ASSUME NEW k \in keys
      PROVE  k \in delete_recursive(data, keys, p) <=> k # p /\ ~starts_with(k, q)
  BY <1>2, <1>4, <1>5
<1>7. delete_recursive(data, keys, p) \subseteq keys
  BY <1>5
<1> QED BY <1>6, <1>7 DEF q
---------------------------------------------------------------------------
(***************************************************************************)
(* IndexedDB's order of keys is a strict total order in which the strings  *)
(* with one prefix are neighbours.                                         *)
(***************************************************************************)
LEMMA RankOfInt ==
  ASSUME NEW x \in Int, 0 <= x, x <= 1114111,
         NEW y \in Int, 0 <= y, y <= 1114111,
         utf16_rank(x) = utf16_rank(y)
  PROVE  x = y
BY SMT DEF utf16_rank

LEMMA RankInjective ==
  ASSUME NEW x \in CodePoint, NEW y \in CodePoint, utf16_rank(x) = utf16_rank(y)
  PROVE  x = y
<1>1. LastCodePoint = 1114111
  BY SMT DEF LastCodePoint
<1>2. /\ x \in Int /\ 0 <= x /\ x <= LastCodePoint
      /\ y \in Int /\ 0 <= y /\ y <= LastCodePoint
  BY CodePoints
<1> QED BY <1>1, <1>2, RankOfInt

\* The ranks of the letters of a key are numbers.
LEMMA Letters ==
  ASSUME NEW s \in Key
  PROVE  /\ Len(s) \in Nat
         /\ \A i \in 1..Len(s) : s[i] \in CodePoint /\ utf16_rank(s[i]) \in Int
BY Rank DEF Key

LEMMA IdbIrreflexive ==
  ASSUME NEW s \in Key
  PROVE  ~idb_less(s, s)
BY Letters DEF idb_less, Precedes

LEMMA IdbTransitive ==
  ASSUME NEW s \in Key, NEW t \in Key, NEW u \in Key, idb_less(s, t), idb_less(t, u)
  PROVE  idb_less(s, u)
<1>1. PICK i \in 1..Len(t) :
        /\ i <= Len(s) + 1
        /\ \A l \in 1..(i - 1) : s[l] = t[l]
        /\ i = Len(s) + 1 \/ utf16_rank(s[i]) < utf16_rank(t[i])
  BY DEF idb_less, Precedes
<1>2. PICK j \in 1..Len(u) :
        /\ j <= Len(t) + 1
        /\ \A l \in 1..(j - 1) : t[l] = u[l]
        /\ j = Len(t) + 1 \/ utf16_rank(t[j]) < utf16_rank(u[j])
  BY DEF idb_less, Precedes
<1>3. Len(s) \in Nat /\ Len(t) \in Nat /\ Len(u) \in Nat
  BY Letters
<1>4. CASE i < j
  <2>1. i \in 1..Len(u) /\ u[i] = t[i] /\ \A l \in 1..(i - 1) : s[l] = u[l]
    BY <1>1, <1>2, <1>3, <1>4
  <2> QED BY <1>1, <2>1 DEF idb_less, Precedes
<1>5. CASE j <= i
  <2>1. j # Len(t) + 1 /\ j <= Len(s) + 1 /\ \A l \in 1..(j - 1) : s[l] = u[l]
    BY <1>1, <1>2, <1>3, <1>5
  <2>2. utf16_rank(t[j]) < utf16_rank(u[j])
    BY <1>2, <2>1
  <2>3. CASE j < i
    <3>1. s[j] = t[j]
      BY <1>1, <1>2, <2>3
    <3> QED BY <2>1, <2>2, <3>1 DEF idb_less, Precedes
  <2>4. CASE j = i /\ i = Len(s) + 1
    BY <2>1, <2>4 DEF idb_less, Precedes
  <2>5. CASE j = i /\ i # Len(s) + 1
    <3>1. utf16_rank(s[j]) < utf16_rank(t[j]) /\ j \in 1..Len(s) /\ j \in 1..Len(t)
      BY <1>1, <1>3, <2>1, <2>5
    <3>2. utf16_rank(s[j]) < utf16_rank(u[j])
      BY <2>2, <3>1, Letters
    <3> QED BY <2>1, <3>2 DEF idb_less, Precedes
  <2> QED BY <1>1, <1>2, <1>5, <2>3, <2>4, <2>5
<1> QED BY <1>1, <1>2, <1>4, <1>5

LEMMA IdbTotal ==
  ASSUME NEW s \in Key, NEW t \in Key, s # t
  PROVE  idb_less(s, t) \/ idb_less(t, s)
<1> DEFINE differ == {i \in 1..Len(s) : i <= Len(t) /\ s[i] # t[i]}
<1>1. Len(s) \in Nat /\ Len(t) \in Nat
  BY Letters
<1>2. CASE differ = {}
  <2>1. \A i \in 1..Len(s) : i <= Len(t) => s[i] = t[i]
    BY <1>2
  <2>2. CASE Len(s) = Len(t)
    BY <1>1, <2>1, <2>2 DEF Key
  <2>3. CASE Len(s) < Len(t)
    <3>1. Len(s) + 1 \in 1..Len(t) /\ \A l \in 1..((Len(s) + 1) - 1) : s[l] = t[l]
      BY <1>1, <2>1, <2>3
    <3> QED BY <1>1, <3>1 DEF idb_less, Precedes
  <2>4. CASE Len(t) < Len(s)
    <3>1. Len(t) + 1 \in 1..Len(s) /\ \A l \in 1..((Len(t) + 1) - 1) : t[l] = s[l]
      BY <1>1, <2>1, <2>4
    <3> QED BY <1>1, <3>1 DEF idb_less, Precedes
  <2> QED BY <1>1, <2>2, <2>3, <2>4
<1>3. CASE differ # {}
  <2>1. differ \in SUBSET (1..Len(s))
    OBVIOUS
  <2>2. PICK i \in differ : \A j \in differ : i <= j
    <3> HIDE DEF differ
    <3> QED BY <1>1, <1>3, <2>1, Extremes
  <2>3. /\ i \in 1..Len(s) /\ i \in 1..Len(t) /\ s[i] # t[i]
        /\ \A l \in 1..(i - 1) : s[l] = t[l]
    BY <1>1, <2>2
  <2>4. utf16_rank(s[i]) < utf16_rank(t[i]) \/ utf16_rank(t[i]) < utf16_rank(s[i])
    <3>1. utf16_rank(s[i]) # utf16_rank(t[i])
      BY <2>3, Letters, RankInjective
    <3>2. utf16_rank(s[i]) \in Int /\ utf16_rank(t[i]) \in Int
      BY <2>3, Letters
    <3> QED BY <3>1, <3>2
  <2>5. i <= Len(s) + 1 /\ i <= Len(t) + 1
    BY <1>1, <2>3
  <2> QED BY <2>3, <2>4, <2>5 DEF idb_less, Precedes
<1> QED BY <1>2, <1>3

\* The order in one line, for the proofs that only need that much of it.
LEMMA IdbOrder ==
  \A s, t, u \in Key :
    /\ ~idb_less(s, s)
    /\ idb_less(s, t) /\ idb_less(t, u) => idb_less(s, u)
    /\ s = t \/ idb_less(s, t) \/ idb_less(t, s)
    /\ idb_leq(s, t) <=> s = t \/ idb_less(s, t)
BY IdbIrreflexive, IdbTransitive, IdbTotal DEF idb_leq

\* A string comes after its prefixes, in both orders.
LEMMA PrefixFirst ==
  ASSUME NEW k \in Key, NEW p \in Key, starts_with(k, p)
  PROVE  idb_leq(p, k) /\ str_leq(p, k)
<1>1. Len(p) \in Nat /\ Len(k) \in Nat /\ Len(p) <= Len(k) /\ \A i \in 1..Len(p) : k[i] = p[i]
  BY Letters DEF starts_with
<1>2. CASE Len(p) = Len(k)
  <2>1. p = k
    BY <1>1, <1>2 DEF Key
  <2> QED BY <2>1 DEF idb_leq, str_leq
<1>3. CASE Len(p) < Len(k)
  <2>1. Len(p) + 1 \in 1..Len(k) /\ \A l \in 1..((Len(p) + 1) - 1) : p[l] = k[l]
    BY <1>1, <1>3
  <2>2. idb_less(p, k)
    BY <1>1, <2>1 DEF idb_less, Precedes
  <2>3. str_less(p, k)
    BY <1>1, <2>1 DEF str_less, Precedes
  <2> QED BY <2>2, <2>3 DEF idb_leq, str_leq
<1> QED BY <1>1, <1>2, <1>3

\* What lies between a prefix and a string that has it has it, too.
LEMMA PrefixConvex ==
  ASSUME NEW p \in Key, NEW m \in Key, NEW k \in Key,
         starts_with(k, p), idb_leq(p, m), idb_less(m, k)
  PROVE  starts_with(m, p)
<1>1. /\ Len(p) \in Nat /\ Len(k) \in Nat /\ Len(m) \in Nat
      /\ Len(p) <= Len(k) /\ \A i \in 1..Len(p) : k[i] = p[i]
  BY Letters DEF starts_with
<1>2. CASE p = m
  BY <1>1, <1>2 DEF starts_with
<1>3. CASE p # m
  <2>1. PICK i \in 1..Len(m) :
          /\ i <= Len(p) + 1
          /\ \A l \in 1..(i - 1) : p[l] = m[l]
          /\ i = Len(p) + 1 \/ utf16_rank(p[i]) < utf16_rank(m[i])
    BY <1>3 DEF idb_leq, idb_less, Precedes
  <2>2. PICK j \in 1..Len(k) :
          /\ j <= Len(m) + 1
          /\ \A l \in 1..(j - 1) : m[l] = k[l]
          /\ j = Len(m) + 1 \/ utf16_rank(m[j]) < utf16_rank(k[j])
    BY DEF idb_less, Precedes
  <2>3. CASE i = Len(p) + 1
    BY <1>1, <2>1, <2>3 DEF starts_with
  <2>4. CASE i # Len(p) + 1
    <3>1. i \in 1..Len(p) /\ i \in 1..Len(k) /\ utf16_rank(p[i]) < utf16_rank(m[i]) /\ k[i] = p[i]
      BY <1>1, <2>1, <2>4
    <3>2. utf16_rank(p[i]) \in Int /\ utf16_rank(m[i]) \in Int
      BY <2>1, <3>1, Letters
    <3>3. CASE i < j
      <4>1. m[i] = k[i]
        BY <2>2, <3>1, <3>3
      <4> QED BY <3>1, <3>2, <4>1
    <3>4. CASE j < i
      <4>1. k[j] = p[j] /\ p[j] = m[j] /\ j # Len(m) + 1
        BY <1>1, <2>1, <2>2, <3>1, <3>4
      <4>2. utf16_rank(m[j]) \in Int
        BY <2>1, <2>2, <3>4, Letters
      <4> QED BY <2>2, <4>1, <4>2
    <3>5. CASE i = j
      <4>1. utf16_rank(m[i]) < utf16_rank(k[i])
        BY <2>1, <2>2, <1>1, <3>5
      <4> QED BY <3>1, <3>2, <4>1
    <3> QED BY <2>1, <2>2, <3>3, <3>4, <3>5
  <2> QED BY <2>3, <2>4
<1> QED BY <1>2, <1>3
=============================================================================
