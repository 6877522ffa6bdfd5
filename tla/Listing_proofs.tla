--------------------------- MODULE Listing_proofs ---------------------------
(***************************************************************************)
(* Proofs about Listing, for every set of keys, every size of a page and   *)
(* whatever the others write.                                              *)
(***************************************************************************)
EXTENDS Listing, Keys_proofs, SequenceTheorems, FiniteSetTheorems

(***************************************************************************)
(* A batch of get_all_string_keys_in is the beginning of its range.        *)
(***************************************************************************)
Below(S, k) == {o \in S : idb_less(o, k)}

LEMMA Ranked ==
  ASSUME NEW S \in SUBSET Key, IsFiniteSet(S), NEW k \in S
  PROVE  /\ Cardinality(Below(S, k)) \in Nat
         /\ Cardinality(Below(S, k)) < Cardinality(S)
         /\ \A j \in S : idb_less(j, k) => Cardinality(Below(S, j)) < Cardinality(Below(S, k))
<1>1. ASSUME NEW T \in SUBSET S, NEW U \in SUBSET T, U # T
      PROVE  Cardinality(U) \in Nat /\ Cardinality(U) < Cardinality(T)
  <2>1. IsFiniteSet(T)
    BY FS_Subset
  <2>2. /\ IsFiniteSet(U) /\ Cardinality(U) <= Cardinality(T)
        /\ Cardinality(U) # Cardinality(T)
    BY <1>1, <2>1, FS_Subset
  <2> QED BY <2>1, <2>2, FS_CardinalityType
<1>2. Below(S, k) \in SUBSET S /\ k \notin Below(S, k)
  BY IdbIrreflexive DEF Below
<1>3. ASSUME NEW j \in S, idb_less(j, k)
      PROVE  Cardinality(Below(S, j)) < Cardinality(Below(S, k))
  <2>1. Below(S, j) \in SUBSET Below(S, k) /\ j \in Below(S, k) /\ j \notin Below(S, j)
    BY <1>3, IdbOrder DEF Below
  <2> QED BY <1>1, <1>2, <2>1
<1>4. S \in SUBSET S /\ Below(S, k) # S
  BY <1>2
<1> QED BY <1>1, <1>2, <1>3, <1>4

\* In a finite set of keys, a key is determined by how many are below it, and
\* all numbers occur.
LEMMA Nth ==
  ASSUME NEW S \in SUBSET Key, IsFiniteSet(S), NEW i \in 1..Cardinality(S)
  PROVE  \E k \in S : Cardinality(Below(S, k)) = i - 1
<1> DEFINE n == Cardinality(S)
           f == [k \in S |-> Cardinality(Below(S, k)) + 1]
<1>1. n \in Nat
  BY FS_CardinalityType
<1>2. f \in [S -> 1..n]
  BY <1>1, Ranked
<1>3. f \in Injection(S, 1..n)
  <2>1. ASSUME NEW j \in S, NEW k \in S, f[j] = f[k]
        PROVE  j = k
    <3>1. Cardinality(Below(S, j)) = Cardinality(Below(S, k))
      BY <2>1, Ranked
    <3> QED BY <3>1, Ranked, IdbTotal
  <2> HIDE DEF f
  <2> QED BY <1>2, <2>1 DEF Injection, IsInjective
<1>4. IsFiniteSet(1..n) /\ Cardinality(1..n) = n
  BY <1>1, FS_Interval
<1>5. f \in Surjection(S, 1..n)
  <2> HIDE DEF f
  <2> QED BY <1>3, <1>4, FS_Injection
<1>6. PICK k \in S : f[k] = i
  <2> HIDE DEF f
  <2> QED BY <1>5 DEF Surjection
<1> QED BY <1>6, Ranked

LEMMA MinOfTwo ==
  ASSUME NEW a \in Nat, NEW b \in Nat
  PROVE  Min({a, b}) = IF a <= b THEN a ELSE b
BY DEF Min

LEMMA MaxOfTwo ==
  ASSUME NEW a \in Nat, NEW b \in Nat
  PROVE  Max({a, b}) = IF a <= b THEN b ELSE a
BY DEF Max

Ascending(s) == \A i, j \in 1..Len(s) : i < j => idb_less(s[i], s[j])

InRangeNow(lower, open, upper) == {k \in data : InRange(k, lower, open, upper)}

\* What is fetched is sorted, and what is left out of the range comes after
\* it.  A batch that is shorter than its limit leaves nothing out.
LEMMA Batch ==
  ASSUME data \in SUBSET Key, IsFiniteSet(data), Foreign \in Nat, NEW limit \in Nat,
         NEW lower \in Key, NEW open \in BOOLEAN, NEW upper \in Key \cup {None}
  PROVE  LET batch   == get_all_string_keys_in(lower, open, upper, limit)
             strings == InRangeNow(lower, open, upper)
         IN  /\ batch.keys \in Seq(strings)
             /\ Len(batch.keys) <= limit
             /\ batch.fetched_len \in Nat
             /\ Ascending(batch.keys)
             /\ \A k \in strings \ ToSet(batch.keys) :
                  /\ batch.fetched_len >= limit
                  /\ \A e \in ToSet(batch.keys) : idb_less(e, k)
             /\ limit # 0 /\ strings # {} => batch.keys # <<>>
<1> DEFINE S      == {k \in data : InRange(k, lower, open, upper)}
           n      == Cardinality(S)
           others == IF upper = None THEN Foreign ELSE 0
           nth(i) == CHOOSE k \in S : Cardinality(Below(S, k)) = i - 1
           len    == Min({limit, n})
           keys   == [i \in 1..len |-> nth(i)]
           batch  == get_all_string_keys_in(lower, open, upper, limit)
<1>1. S \in SUBSET Key /\ IsFiniteSet(S)
  BY FS_Subset
<1>2. batch = [keys |-> keys, fetched_len |-> Min({limit, n + others})]
  BY Zenon DEF get_all_string_keys_in, Below
<1> HIDE DEF S, batch
<1>3. n \in Nat /\ others \in Nat
  BY <1>1, FS_CardinalityType
<1>4. /\ len \in Nat /\ len <= limit /\ len <= n /\ (len = limit \/ len = n)
      /\ batch.fetched_len \in Nat /\ (batch.fetched_len < limit => len = n)
  <2>1. len = IF limit <= n THEN limit ELSE n
    BY <1>3, MinOfTwo
  <2>2. batch.fetched_len = IF limit <= n + others THEN limit ELSE n + others
    <3>1. n + others \in Nat
      BY <1>3
    <3>2. batch.fetched_len = Min({limit, n + others})
      BY <1>2
    <3> HIDE DEF others
    <3> QED BY <3>1, <3>2, MinOfTwo
  <2> HIDE DEF len, n, others
  <2> QED BY <1>3, <2>1, <2>2
<1>5. \A i \in 1..len : nth(i) \in S /\ Cardinality(Below(S, nth(i))) = i - 1
  <2> TAKE i \in 1..len
  <2>1. i \in 1..n
    BY <1>3, <1>4
  <2>2. \E k \in S : Cardinality(Below(S, k)) = i - 1
    BY <1>1, <2>1, Nth
  <2> QED BY <2>2
<1> HIDE DEF nth
<1>6. batch.keys = keys /\ keys \in Seq(S) /\ Len(keys) = len
  <2>1. keys \in [1..len -> S]
    BY <1>5
  <2> HIDE DEF keys, len
  <2> QED BY <1>2, <1>4, <2>1
<1>7. \A i \in 1..len : keys[i] \in S /\ Cardinality(Below(S, keys[i])) = i - 1
  BY <1>5
<1> HIDE DEF keys, len
<1>8. ASSUME NEW j \in S, NEW k \in S, Cardinality(Below(S, j)) < Cardinality(Below(S, k))
      PROVE  idb_less(j, k)
  <2>1. /\ Cardinality(Below(S, j)) \in Nat /\ Cardinality(Below(S, k)) \in Nat
        /\ idb_less(k, j) => Cardinality(Below(S, k)) < Cardinality(Below(S, j))
    BY <1>1, Ranked
  <2>2. j # k /\ ~idb_less(k, j)
    BY <1>8, <2>1
  <2> QED BY <1>1, <2>2, IdbTotal
<1>9. Ascending(keys)
  BY <1>4, <1>6, <1>7, <1>8 DEF Ascending
<1>10. ASSUME NEW k \in S, k \notin ToSet(keys)
       PROVE  /\ batch.fetched_len >= limit
              /\ \A e \in ToSet(keys) : idb_less(e, k)
  <2> DEFINE r == Cardinality(Below(S, k))
  <2>1. r \in Nat /\ r < n
    BY <1>1, Ranked
  <2>2. ~(r < len)
    <3> SUFFICES ASSUME r < len PROVE FALSE
      OBVIOUS
    <3>1. r + 1 \in 1..len
      BY <1>4, <2>1
    <3>2. keys[r + 1] \in S /\ Cardinality(Below(S, keys[r + 1])) = r
      BY <1>7, <2>1, <3>1
    <3>3. keys[r + 1] # k
      BY <1>6, <1>10, <3>1 DEF ToSet
    <3>4. ~idb_less(k, keys[r + 1]) /\ ~idb_less(keys[r + 1], k)
      BY <1>1, <2>1, <3>2, Ranked
    <3> QED BY <1>1, <3>2, <3>3, <3>4, IdbTotal
  <2>3. batch.fetched_len >= limit
    BY <1>3, <1>4, <2>1, <2>2
  <2>4. ASSUME NEW i \in 1..len
        PROVE  idb_less(keys[i], k)
    <3>1. i - 1 < r
      BY <1>4, <2>1, <2>2
    <3> QED BY <1>7, <1>8, <3>1
  <2> QED BY <1>6, <2>3, <2>4 DEF ToSet
<1>11. ASSUME limit # 0, S # {}
       PROVE  keys # <<>>
  <2>1. n # 0
    BY <1>1, <1>11, FS_EmptySet
  <2> QED BY <1>3, <1>4, <1>6, <1>11, <2>1
<1> QED BY <1>4, <1>6, <1>9, <1>10, <1>11 DEF S, batch, InRangeNow
---------------------------------------------------------------------------
(***************************************************************************)
(* Folding: what a listing shows of a key.                                 *)
(***************************************************************************)
\* A directory under the prefix, as HierarchyLister returns it.
IsDirectory(d, prefix) ==
  /\ Len(prefix) < Len(d)
  /\ d[Len(d)] = Slash
  /\ \A i \in (Len(prefix) + 1)..(Len(d) - 1) : d[i] # Slash

LEMMA FoldCases ==
  ASSUME NEW path \in Key, NEW prefix \in Key
  PROVE  /\ Folded(path, prefix) \in Key
         /\ starts_with(path, Folded(path, prefix))
         /\ \/ /\ Folded(path, prefix) = path
               /\ \A i \in (Len(prefix) + 1)..Len(path) : path[i] # Slash
            \/ IsDirectory(Folded(path, prefix), prefix)
<1> DEFINE slashes == {i \in DOMAIN path : i > Len(prefix) /\ path[i] = Slash}
<1>1. Len(path) \in Nat /\ Len(prefix) \in Nat /\ DOMAIN path = 1..Len(path)
  BY Letters DEF Key
<1>2. CASE slashes = {}
  <2>1. Folded(path, prefix) = path
    BY <1>2 DEF Folded
  <2>2. \A i \in (Len(prefix) + 1)..Len(path) : path[i] # Slash
    BY <1>1, <1>2
  <2>3. starts_with(path, path)
    BY <1>1 DEF starts_with
  <2> QED BY <2>1, <2>2, <2>3
<1>3. CASE slashes # {}
  <2> DEFINE n == Min(slashes)
             f == SubSeq(path, 1, n)
  <2>1. n \in slashes /\ \A i \in slashes : n <= i
    <3>1. slashes \in SUBSET (1..Len(path))
      BY <1>1
    <3> HIDE DEF slashes
    <3>2. \E i \in slashes : \A j \in slashes : i <= j
      BY <1>1, <1>3, <3>1, Extremes
    <3> QED BY <3>2, Zenon DEF Min
  <2> HIDE DEF n
  <2>2. /\ n \in 1..Len(path) /\ n > Len(prefix) /\ path[n] = Slash
        /\ \A i \in (Len(prefix) + 1)..(n - 1) : path[i] # Slash
    BY <1>1, <2>1
  <2>3. f \in Key /\ Len(f) = n /\ \A i \in 1..n : f[i] = path[i]
    BY <1>1, <2>2 DEF Key
  <2>4. Folded(path, prefix) = f
    BY <1>3 DEF Folded, n
  <2> HIDE DEF f
  <2>5. starts_with(path, f)
    BY <1>1, <2>2, <2>3 DEF starts_with
  <2>6. IsDirectory(f, prefix)
    BY <1>1, <2>2, <2>3 DEF IsDirectory
  <2> QED BY <2>3, <2>4, <2>5, <2>6
<1> QED BY <1>2, <1>3

\* A path is folded to the directory that it is in.
LEMMA FoldsTo ==
  ASSUME NEW path \in Key, NEW prefix \in Key, NEW d \in Key,
         starts_with(path, d), IsDirectory(d, prefix)
  PROVE  Folded(path, prefix) = d
<1> DEFINE f == Folded(path, prefix)
<1>1. /\ Len(path) \in Nat /\ Len(prefix) \in Nat /\ Len(d) \in Nat
      /\ Len(d) <= Len(path) /\ \A i \in 1..Len(d) : path[i] = d[i]
  BY Letters DEF starts_with
<1>2. /\ f \in Key /\ Len(f) \in Nat /\ Len(f) <= Len(path)
      /\ \A i \in 1..Len(f) : path[i] = f[i]
  BY FoldCases, Letters DEF starts_with
<1>3. Len(d) \in (Len(prefix) + 1)..Len(path) /\ path[Len(d)] = Slash
  BY <1>1 DEF IsDirectory
<1>4. IsDirectory(f, prefix)
  BY <1>3, FoldCases
<1> HIDE DEF f
<1>5. ~(Len(f) < Len(d))
  BY <1>1, <1>2, <1>4 DEF IsDirectory
<1>6. ~(Len(d) < Len(f))
  BY <1>1, <1>2, <1>3, <1>4 DEF IsDirectory
<1>7. Len(f) = Len(d) /\ \A i \in 1..Len(d) : f[i] = d[i]
  BY <1>1, <1>2, <1>5, <1>6
<1> QED BY <1>2, <1>7 DEF Key, f

LEMMA ShownIs ==
  ASSUME NEW r \in Request, NEW k \in Key
  PROVE  /\ Shown(r, k) \in Key
         /\ starts_with(k, Shown(r, k))
         /\ Shown(r, k) = k \/ (~r.recursive /\ IsDirectory(Shown(r, k), r.prefix))
         /\ starts_with(k, r.prefix) => starts_with(Shown(r, k), r.prefix)
<1>1. r.prefix \in Key
  BY DEF Request
<1>2. CASE r.recursive
  <2>1. starts_with(k, k)
    BY Letters DEF starts_with
  <2> QED BY <1>2, <2>1 DEF Shown
<1>3. CASE ~r.recursive
  <2> DEFINE f == Folded(k, r.prefix)
  <2>1. Shown(r, k) = f
    BY <1>3 DEF Shown
  <2>2. /\ f \in Key /\ starts_with(k, f)
        /\ f = k \/ IsDirectory(f, r.prefix)
    BY <1>1, FoldCases
  <2> HIDE DEF f
  <2>3. ASSUME starts_with(k, r.prefix), IsDirectory(f, r.prefix)
        PROVE  starts_with(f, r.prefix)
    BY <1>1, <2>2, <2>3, Letters DEF starts_with, IsDirectory
  <2> QED BY <1>3, <2>1, <2>2, <2>3
<1> QED BY <1>2, <1>3

\* All keys in a directory are shown as the directory.
LEMMA ShownInDirectory ==
  ASSUME NEW r \in Request, NEW k \in Key, NEW m \in Key, Shown(r, k) # k,
         starts_with(m, Shown(r, k))
  PROVE  Shown(r, m) = Shown(r, k) /\ ~r.recursive /\ ends_with_slash(Shown(r, k))
<1> DEFINE d == Shown(r, k)
<1>1. d \in Key /\ ~r.recursive /\ IsDirectory(d, r.prefix) /\ r.prefix \in Key
  BY ShownIs DEF Request
<1>2. Folded(m, r.prefix) = d
  <2> HIDE DEF d
  <2> QED BY <1>1, FoldsTo DEF d
<1>3. d # <<>>
  BY <1>1, Letters DEF IsDirectory
<1> QED BY <1>1, <1>2, <1>3 DEF Shown, IsDirectory, ends_with_slash

LEMMA ShownTwice ==
  ASSUME NEW r \in Request, NEW k \in Key
  PROVE  Shown(r, Shown(r, k)) = Shown(r, k)
<1> DEFINE d == Shown(r, k)
<1>1. d \in Key
  BY ShownIs
<1>2. starts_with(d, d)
  BY <1>1, Letters DEF starts_with
<1>3. CASE d = k
  BY <1>3
<1>4. CASE d # k
  <2> HIDE DEF d
  <2> QED BY <1>1, <1>2, <1>4, ShownInDirectory DEF d
<1> QED BY <1>3, <1>4

\* Keys are shown in their order; only keys of one directory are shown alike.
LEMMA ShownInOrder ==
  ASSUME NEW r \in Request, NEW k \in Key, NEW m \in Key, idb_less(k, m)
  PROVE  /\ idb_leq(Shown(r, k), Shown(r, m))
         /\ Shown(r, k) = Shown(r, m) => ~r.recursive /\ ends_with_slash(Shown(r, m))
<1> DEFINE a == Shown(r, k)
           b == Shown(r, m)
<1>1. /\ a \in Key /\ b \in Key /\ starts_with(m, b)
      /\ idb_leq(a, k) /\ idb_leq(b, m)
  BY ShownIs, PrefixFirst
<1>2. CASE b = m
  <2>1. idb_less(a, b)
    <3> HIDE DEF a, b
    <3> QED BY <1>1, <1>2, IdbOrder
  <2>2. a # b
    <3> HIDE DEF a, b
    <3> QED BY <1>1, <2>1, IdbOrder
  <2> QED BY <2>1, <2>2 DEF idb_leq
<1>3. CASE b # m /\ idb_less(k, b)
  <2>1. idb_less(a, b)
    <3> HIDE DEF a, b
    <3> QED BY <1>1, <1>3, IdbOrder
  <2>2. a # b
    <3> HIDE DEF a, b
    <3> QED BY <1>1, <2>1, IdbOrder
  <2> QED BY <2>1, <2>2 DEF idb_leq
<1>4. CASE b # m /\ ~idb_less(k, b)
  <2>1. starts_with(k, b)
    <3>1. idb_leq(b, k)
      <4> HIDE DEF a, b
      <4> QED BY <1>1, <1>4, IdbOrder
    <3> HIDE DEF b
    <3> QED BY <1>1, <3>1, PrefixConvex
  <2>2. a = b /\ ~r.recursive /\ ends_with_slash(b)
    BY <1>4, <2>1, ShownInDirectory
  <2> QED BY <2>2 DEF idb_leq
<1> QED BY <1>2, <1>3, <1>4

\* A key behind an entry is shown behind it, unless it is in that directory.
LEMMA ShownBehind ==
  ASSUME NEW r \in Request, NEW e \in Key, NEW k \in Key, idb_less(e, k),
         Shown(r, e) = e, ~idb_less(e, Shown(r, k))
  PROVE  /\ Shown(r, k) = e /\ starts_with(k, e)
         /\ ~r.recursive /\ ends_with_slash(e)
<1> DEFINE b == Shown(r, k)
<1>1. b \in Key /\ starts_with(k, b)
  BY ShownIs
<1>2. idb_leq(e, b) /\ (e = b => ~r.recursive /\ ends_with_slash(b))
  BY ShownInOrder
<1>3. e = b
  BY <1>2 DEF idb_leq
<1> QED BY <1>1, <1>2, <1>3
---------------------------------------------------------------------------
(***************************************************************************)
(* The elements of sequences.                                              *)
(***************************************************************************)
LEMMA EmptyHas == ToSet(<<>>) = {} /\ Ascending(<<>>)
BY DEF ToSet, Ascending

LEMMA HeadTailHave ==
  ASSUME NEW T, NEW s \in Seq(T), s # <<>>
  PROVE  /\ Head(s) \in ToSet(s) /\ Head(s) \in T
         /\ Tail(s) \in Seq(T) /\ Len(Tail(s)) < Len(s)
         /\ ToSet(s) = {Head(s)} \cup ToSet(Tail(s))
<1>1. /\ Len(s) \in Nat \ {0} /\ DOMAIN s = 1..Len(s) /\ Head(s) = s[1] /\ Head(s) \in T
      /\ Tail(s) \in Seq(T) /\ Len(Tail(s)) = Len(s) - 1 /\ DOMAIN Tail(s) = 1..(Len(s) - 1)
      /\ \A i \in 1..(Len(s) - 1) : Tail(s)[i] = s[i + 1]
  BY HeadTailProperties
<1>2. ToSet(Tail(s)) \subseteq ToSet(s) /\ Head(s) \in ToSet(s)
  BY <1>1 DEF ToSet
<1>3. ASSUME NEW i \in 1..Len(s)
      PROVE  s[i] = Head(s) \/ s[i] \in ToSet(Tail(s))
  <2>1. CASE i = 1
    BY <1>1, <2>1
  <2>2. CASE i # 1
    <3>1. i - 1 \in 1..(Len(s) - 1) /\ Tail(s)[i - 1] = s[i]
      BY <1>1, <2>2
    <3> QED BY <1>1, <3>1 DEF ToSet
  <2> QED BY <2>1, <2>2
<1>4. ToSet(s) \subseteq {Head(s)} \cup ToSet(Tail(s))
  BY <1>1, <1>3 DEF ToSet
<1> QED BY <1>1, <1>2, <1>4

LEMMA AscendingTail ==
  ASSUME NEW s \in Seq(Key), s # <<>>, Ascending(s)
  PROVE  Ascending(Tail(s)) /\ \A e \in ToSet(Tail(s)) : idb_less(Head(s), e)
<1>1. /\ Len(s) \in Nat \ {0} /\ Head(s) = s[1]
      /\ Len(Tail(s)) = Len(s) - 1 /\ DOMAIN Tail(s) = 1..(Len(s) - 1)
      /\ \A i \in 1..(Len(s) - 1) : Tail(s)[i] = s[i + 1]
  BY HeadTailProperties
<1>2. \A i \in 1..(Len(s) - 1) : idb_less(Head(s), Tail(s)[i])
  BY <1>1 DEF Ascending
<1>3. ASSUME NEW i \in 1..(Len(s) - 1), NEW j \in 1..(Len(s) - 1), i < j
      PROVE  idb_less(Tail(s)[i], Tail(s)[j])
  <2>1. i + 1 \in 1..Len(s) /\ j + 1 \in 1..Len(s) /\ i + 1 < j + 1
    BY <1>1, <1>3
  <2> QED BY <1>1, <2>1 DEF Ascending
<1> QED BY <1>1, <1>2, <1>3 DEF Ascending, ToSet

LEMMA AppendHas ==
  ASSUME NEW T, NEW s \in Seq(T), NEW e \in T
  PROVE  /\ Append(s, e) \in Seq(T) /\ Len(Append(s, e)) = Len(s) + 1
         /\ ToSet(Append(s, e)) = ToSet(s) \cup {e}
         /\ Append(s, e) # <<>> /\ Last(Append(s, e)) = e
<1>1. /\ Len(s) \in Nat /\ DOMAIN s = 1..Len(s)
      /\ Append(s, e) \in Seq(T) /\ Len(Append(s, e)) = Len(s) + 1 /\ Append(s, e) # <<>>
      /\ DOMAIN Append(s, e) = 1..(Len(s) + 1)
      /\ \A i \in 1..Len(s) : Append(s, e)[i] = s[i]
      /\ Append(s, e)[Len(s) + 1] = e
  BY AppendProperties
<1>2. ASSUME NEW i \in 1..(Len(s) + 1)
      PROVE  Append(s, e)[i] \in ToSet(s) \cup {e}
  <2>1. i \in 1..Len(s) \/ i = Len(s) + 1
    BY <1>1
  <2> QED BY <1>1, <2>1 DEF ToSet
<1>3. ToSet(s) \subseteq ToSet(Append(s, e)) /\ e \in ToSet(Append(s, e))
  <2>1. \A i \in 1..Len(s) : i \in 1..(Len(s) + 1)
    BY <1>1
  <2>2. Len(s) + 1 \in 1..(Len(s) + 1)
    BY <1>1
  <2> QED BY <1>1, <2>1, <2>2 DEF ToSet
<1> QED BY <1>1, <1>2, <1>3 DEF ToSet, Last

LEMMA AscendingAppend ==
  ASSUME NEW s \in Seq(Key), NEW e \in Key, Ascending(s), \A x \in ToSet(s) : idb_less(x, e)
  PROVE  Ascending(Append(s, e))
<1>1. /\ Len(s) \in Nat /\ DOMAIN s = 1..Len(s) /\ Len(Append(s, e)) = Len(s) + 1
      /\ \A i \in 1..Len(s) : Append(s, e)[i] = s[i]
      /\ Append(s, e)[Len(s) + 1] = e
  BY AppendProperties
<1>2. ASSUME NEW i \in 1..(Len(s) + 1), NEW j \in 1..(Len(s) + 1), i < j
      PROVE  idb_less(Append(s, e)[i], Append(s, e)[j])
  <2>1. i \in 1..Len(s) /\ (j \in 1..Len(s) \/ j = Len(s) + 1)
    BY <1>1, <1>2
  <2> QED BY <1>1, <1>2, <2>1 DEF Ascending, ToSet
<1> QED BY <1>1, <1>2 DEF Ascending

LEMMA LastIs ==
  ASSUME NEW T, NEW s \in Seq(T), s # <<>>
  PROVE  Last(s) \in ToSet(s) /\ Last(s) \in T
<1>1. Len(s) \in Nat \ {0} /\ DOMAIN s = 1..Len(s)
  BY EmptySeq, LenProperties
<1> QED BY <1>1 DEF Last, ToSet

LEMMA AscendingLast ==
  ASSUME NEW s \in Seq(Key), s # <<>>, Ascending(s), NEW e \in ToSet(s)
  PROVE  idb_leq(e, Last(s))
<1>1. Len(s) \in Nat \ {0} /\ DOMAIN s = 1..Len(s)
  BY EmptySeq, LenProperties
<1>2. PICK i \in 1..Len(s) : e = s[i]
  BY <1>1 DEF ToSet
<1>3. i = Len(s) \/ (i < Len(s) /\ Len(s) \in 1..Len(s))
  <2>1. \A n \in Nat \ {0} : \A l \in 1..n : l = n \/ (l < n /\ n \in 1..n)
    OBVIOUS
  <2> QED BY <1>1, <1>2, <2>1, Zenon
<1> QED BY <1>1, <1>2, <1>3 DEF Ascending, Last, idb_leq

\* The elements of a sequence are those of the set it is over.
LEMMA ElementsOf ==
  ASSUME NEW T, NEW s \in Seq(T)
  PROVE  ToSet(s) \subseteq T
<1>1. DOMAIN s = 1..Len(s) /\ s \in [1..Len(s) -> T]
  BY LenProperties
<1> QED BY <1>1 DEF ToSet

LEMMA PathsOf ==
  ASSUME NEW s \in Seq(Entry)
  PROVE  /\ Paths(s) \in Seq(Key) /\ Len(Paths(s)) = Len(s)
         /\ \A i \in 1..Len(s) : Paths(s)[i] = s[i].path
         /\ ToSet(Paths(s)) = {e.path : e \in ToSet(s)}
<1>1. Len(s) \in Nat /\ DOMAIN s = 1..Len(s) /\ \A i \in 1..Len(s) : s[i] \in Entry
  BY LenProperties, ElementOfSeq
<1>2. Paths(s) = [i \in 1..Len(s) |-> s[i].path]
  BY <1>1 DEF Paths
<1>3. \A i \in 1..Len(s) : s[i].path \in Key
  BY <1>1 DEF Entry
<1>4. Paths(s) \in [1..Len(s) -> Key]
  BY <1>2, <1>3
<1>5. Paths(s) \in Seq(Key) /\ Len(Paths(s)) = Len(s) /\ DOMAIN Paths(s) = 1..Len(s)
  BY <1>1, <1>4
<1>6. \A i \in 1..Len(s) : Paths(s)[i] = s[i].path
  BY <1>2
<1> HIDE DEF Paths
<1> QED BY <1>1, <1>5, <1>6 DEF ToSet

LEMMA PathsAppended ==
  ASSUME NEW s \in Seq(Entry), NEW e \in Entry
  PROVE  Paths(Append(s, e)) = Append(Paths(s), e.path)
<1>1. /\ Append(s, e) \in Seq(Entry) /\ Len(s) \in Nat /\ e.path \in Key
      /\ Len(Append(s, e)) = Len(s) + 1
      /\ \A i \in 1..Len(s) : Append(s, e)[i] = s[i]
      /\ Append(s, e)[Len(s) + 1] = e
  BY AppendProperties DEF Entry
<1>2. /\ Paths(Append(s, e)) \in Seq(Key) /\ Len(Paths(Append(s, e))) = Len(s) + 1
      /\ \A i \in 1..(Len(s) + 1) : Paths(Append(s, e))[i] = Append(s, e)[i].path
  BY <1>1, PathsOf
<1>3. /\ Append(Paths(s), e.path) \in Seq(Key) /\ Len(Append(Paths(s), e.path)) = Len(s) + 1
      /\ \A i \in 1..Len(s) : Append(Paths(s), e.path)[i] = s[i].path
      /\ Append(Paths(s), e.path)[Len(s) + 1] = e.path
  <2>1. Paths(s) \in Seq(Key) /\ Len(Paths(s)) = Len(s) /\ \A i \in 1..Len(s) : Paths(s)[i] = s[i].path
    BY PathsOf
  <2> QED BY <1>1, <2>1, AppendProperties
<1>4. ASSUME NEW i \in 1..(Len(s) + 1)
      PROVE  Paths(Append(s, e))[i] = Append(Paths(s), e.path)[i]
  <2>1. i \in 1..Len(s) \/ i = Len(s) + 1
    BY <1>1
  <2> QED BY <1>1, <1>2, <1>3, <2>1
<1>5. \A x, y \in Seq(Key) : Len(x) = Len(y) /\ (\A i \in 1..Len(x) : x[i] = y[i]) => x = y
  BY SeqEqual
<1> QED BY <1>2, <1>3, <1>4, <1>5
---------------------------------------------------------------------------
(***************************************************************************)
(* What the functions of the scan return.                                  *)
(***************************************************************************)
LEMMA UpperBound ==
  ASSUME NEW p \in Key
  PROVE  prefix_upper_bound(p) \in Key \cup {None}
BY Bound

LEMMA NamesAreKeys == Names \subseteq Key /\ IsFiniteSet(Names) /\ Foreign \in Nat /\ None \notin Nat \cup Loop
BY ListingAssumption

LEMMA PageSize ==
  ASSUME NEW limit \in Nat \cup {None}
  PROVE  list_page_size(limit) \in Nat
<1>1. DefaultPage \in Nat /\ PageFactor \in Nat /\ UsizeMod \in Nat \ {0}
  BY ListingAssumption
<1>2. CASE limit = None
  BY <1>1, <1>2 DEF list_page_size
<1>3. CASE limit # None
  <2> DEFINE raw == Max({limit, 1}) * PageFactor
  <2>1. limit \in Nat
    BY <1>3
  <2>2. Max({limit, 1}) \in Nat
    BY <2>1, MaxOfTwo
  <2>3. raw \in Nat
    BY <1>1, <2>2
  <2> HIDE DEF raw
  <2>4. raw % UsizeMod \in Nat
    BY <1>1, <2>3
  <2>5. Min({raw % UsizeMod, DefaultPage}) \in Nat
    BY <1>1, <2>4, MinOfTwo
  <2>6. list_page_size(limit) = Min({raw % UsizeMod, DefaultPage})
    BY <1>3 DEF list_page_size, raw
  <2> QED BY <2>5, <2>6
<1> QED BY <1>2, <1>3

LEMMA NewListerIs ==
  ASSUME NEW r \in Request
  PROVE  /\ NewLister(r) \in Lister
         /\ NewLister(r).prefix = r.prefix /\ NewLister(r).start_after = r.start_after
         /\ NewLister(r).limit = list_page_size(r.limit)
         /\ NewLister(r).buffer = <<>> /\ ~NewLister(r).done
         /\ NewLister(r).skip_prefix \in Key \cup {None}
<1>1. r.prefix \in Key /\ r.start_after \in Key \cup {None} /\ list_page_size(r.limit) \in Nat
  BY PageSize DEF Request
<1>2. <<>> \in Seq(Entry)
  OBVIOUS
<1>3. (IF ~r.recursive /\ r.start_after # None /\ ends_with_slash(r.start_after)
       THEN r.start_after ELSE None) \in Key \cup {None}
  BY <1>1
<1> QED BY <1>1, <1>2, <1>3 DEF NewLister, Lister

LEMMA ScanOfIs ==
  ASSUME NEW L \in Lister
  PROVE  LET s == ScanOf(L)
             resumes == L.start_after # None /\ str_leq(L.prefix, L.start_after)
         IN  /\ s \in Loop
             /\ s.keys = <<>> /\ s.fetched = <<>>
             /\ s.next_start_after = L.start_after
             /\ s.over <=> L.limit = 0
             /\ s.lower = (IF resumes THEN L.start_after ELSE L.prefix)
             /\ s.lower_open <=> resumes
<1>1. L.prefix \in Key /\ L.start_after \in Key \cup {None} /\ <<>> \in Seq(Names)
  BY DEF Lister
<1>2. (L.start_after # None /\ str_leq(L.prefix, L.start_after)) \in BOOLEAN
  OBVIOUS
<1> QED BY <1>1, <1>2 DEF ScanOf, Loop

LEMMA BreakIs ==
  ASSUME NEW s \in Loop
  PROVE  /\ Break(s) \in Loop
         /\ Break(s).keys = s.keys /\ Break(s).next_start_after = s.next_start_after
         /\ Break(s).lower = s.lower /\ Break(s).lower_open = s.lower_open
         /\ Break(s).fetched = <<>> /\ Break(s).over
<1>1. <<>> \in Seq(Names) /\ TRUE \in BOOLEAN
  OBVIOUS
<1> QED BY <1>1 DEF Break, Loop

LEMMA BehindIs ==
  ASSUME NEW s \in Loop, s.fetched # <<>>
  PROVE  LET t == Behind(s) IN
         /\ t \in Loop
         /\ t.keys = s.keys /\ t.short = s.short
         /\ t.next_start_after = Head(s.fetched)
         /\ t.lower = Head(s.fetched) /\ t.lower_open
         /\ t.fetched = Tail(s.fetched)
         /\ t.over <=> s.short /\ Tail(s.fetched) = <<>>
<1>1. Head(s.fetched) \in Names /\ Tail(s.fetched) \in Seq(Names)
  BY HeadTailHave DEF Loop
<1>2. (s.short /\ Tail(s.fetched) = <<>>) \in BOOLEAN /\ Head(s.fetched) \in Key
  BY <1>1, NamesAreKeys
<1> QED BY <1>1, <1>2 DEF Behind, Loop

LEMMA KeepIs ==
  ASSUME NEW L \in Lister, NEW s \in Loop, s.fetched # <<>>
  PROVE  LET t == Keep(L, s)
             full == Len(s.keys) + 1 >= L.limit
         IN
         /\ t \in Loop
         /\ t.keys = Append(s.keys, Head(s.fetched)) /\ t.short = s.short
         /\ t.next_start_after = Head(s.fetched)
         /\ t.lower = Head(s.fetched) /\ t.lower_open
         /\ full => t.fetched = <<>> /\ t.over
         /\ ~full => /\ t.fetched = Tail(s.fetched)
                     /\ t.over <=> s.short /\ Tail(s.fetched) = <<>>
<1> DEFINE h == Head(s.fetched)
           b == Behind(s)
           t == [b EXCEPT !.keys = Append(@, h)]
<1>1. h \in Names /\ s.keys \in Seq(Names)
  BY HeadTailHave DEF Loop
<1>2. /\ b \in Loop /\ b.keys = s.keys /\ b.short = s.short
      /\ b.next_start_after = h /\ b.lower = h /\ b.lower_open
      /\ b.fetched = Tail(s.fetched)
      /\ b.over <=> s.short /\ Tail(s.fetched) = <<>>
  BY BehindIs
<1>3. Keep(L, s) = IF Len(t.keys) >= L.limit THEN Break(t) ELSE t
  BY Zenon DEF Keep
<1> HIDE DEF b, h
<1>4. Append(s.keys, h) \in Seq(Names) /\ Len(Append(s.keys, h)) = Len(s.keys) + 1
  BY <1>1, AppendHas
<1>5. /\ t \in Loop /\ t.keys = Append(s.keys, h)
      /\ t.short = b.short /\ t.next_start_after = b.next_start_after
      /\ t.lower = b.lower /\ t.lower_open = b.lower_open
      /\ t.fetched = b.fetched /\ t.over = b.over
  BY <1>2, <1>4 DEF Loop
<1> HIDE DEF t
<1>6. /\ Break(t) \in Loop
      /\ Break(t).keys = t.keys /\ Break(t).next_start_after = t.next_start_after
      /\ Break(t).lower = t.lower /\ Break(t).lower_open = t.lower_open
      /\ Break(t).fetched = <<>> /\ Break(t).over /\ Break(t).short = t.short
  BY <1>5, BreakIs DEF Break, Loop
<1> QED BY <1>2, <1>3, <1>4, <1>5, <1>6 DEF h

LEMMA SkipIs ==
  ASSUME NEW L \in Lister, NEW s \in Loop, s.fetched # <<>>, L.skip_prefix # None
  PROVE  LET t == Skip(L, s)
             next == prefix_upper_bound(L.skip_prefix)
             stop == next = None \/ str_leq(next, s.lower)
         IN
         /\ t \in Loop
         /\ t.keys = s.keys /\ t.fetched = <<>>
         /\ t.next_start_after = Head(s.fetched)
         /\ stop => t.over /\ t.lower = s.lower /\ t.lower_open = s.lower_open
         /\ ~stop => t.over = s.over /\ t.lower = next /\ t.lower_open = FALSE
<1> DEFINE h == Head(s.fetched)
           next == prefix_upper_bound(L.skip_prefix)
           t == [s EXCEPT !.next_start_after = h]
           u == [t EXCEPT !.fetched = <<>>, !.lower = next, !.lower_open = FALSE]
<1>1. h \in Key
  BY HeadTailHave, NamesAreKeys DEF Loop
<1>2. next \in Key \cup {None}
  BY UpperBound DEF Lister
<1>3. Skip(L, s) = IF next = None \/ str_leq(next, s.lower) THEN Break(t) ELSE u
  BY Zenon DEF Skip
<1> HIDE DEF h, next
<1>4. /\ t \in Loop /\ t.keys = s.keys /\ t.next_start_after = h
      /\ t.lower = s.lower /\ t.lower_open = s.lower_open /\ t.over = s.over
  BY <1>1 DEF Loop
<1>5. next # None => /\ u \in Loop /\ u.keys = s.keys /\ u.next_start_after = h
                     /\ u.fetched = <<>> /\ u.lower = next /\ u.lower_open = FALSE /\ u.over = s.over
  <2>1. <<>> \in Seq(Names) /\ FALSE \in BOOLEAN
    OBVIOUS
  <2> HIDE DEF t
  <2> QED BY <1>2, <1>4, <2>1 DEF Loop
<1> HIDE DEF t, u
<1> QED BY <1>3, <1>4, <1>5, BreakIs DEF h, next

\* A round of the loop breaks when nothing is left of the range, or it fetches
\* the beginning of what is left.
LEMMA FetchIs ==
  ASSUME NEW L \in Lister, NEW s \in Loop, Len(s.keys) < L.limit, data \subseteq Names
  PROVE  LET t == Fetch(L, s)
             upper == prefix_upper_bound(L.prefix)
             strings == InRangeNow(s.lower, s.lower_open, upper)
         IN
         \/ /\ t = Break(s)
            /\ (upper # None /\ str_leq(upper, s.lower)) \/ strings = {}
         \/ /\ t \in Loop /\ t.keys = s.keys /\ t.next_start_after = s.next_start_after
            /\ t.lower = s.lower /\ t.lower_open = s.lower_open /\ t.over = s.over
            /\ t.fetched \in Seq(strings) /\ t.fetched # <<>>
            /\ Ascending(t.fetched)
            /\ \A k \in strings \ ToSet(t.fetched) :
                 ~t.short /\ \A e \in ToSet(t.fetched) : idb_less(e, k)
<1> DEFINE upper == prefix_upper_bound(L.prefix)
           remaining == L.limit - Len(s.keys)
           strings == InRangeNow(s.lower, s.lower_open, upper)
           batch == get_all_string_keys_in(s.lower, s.lower_open, upper, remaining)
           t == [s EXCEPT !.fetched = batch.keys, !.short = batch.fetched_len < remaining]
<1>1. data \in SUBSET Key /\ IsFiniteSet(data)
  BY NamesAreKeys, FS_Subset
<1>2. /\ s.lower \in Key /\ s.lower_open \in BOOLEAN /\ upper \in Key \cup {None}
      /\ remaining \in Nat /\ remaining # 0
  <2>1. Len(s.keys) \in Nat /\ L.limit \in Nat /\ L.prefix \in Key
    BY DEF Loop, Lister
  <2> QED BY <2>1, UpperBound DEF Loop
<1>3. Fetch(L, s) = IF (upper # None /\ str_leq(upper, s.lower)) \/ batch.keys = <<>>
                    THEN Break(s) ELSE t
  BY Zenon DEF Fetch
<1> HIDE DEF upper, remaining, strings
<1>4. /\ batch.keys \in Seq(strings)
      /\ batch.fetched_len \in Nat
      /\ Ascending(batch.keys)
      /\ \A k \in strings \ ToSet(batch.keys) :
           /\ batch.fetched_len >= remaining
           /\ \A e \in ToSet(batch.keys) : idb_less(e, k)
      /\ strings # {} => batch.keys # <<>>
  BY <1>1, <1>2, NamesAreKeys, Batch DEF strings
<1> HIDE DEF batch
<1>5. batch.keys \in Seq(Names)
  <2>1. strings \subseteq Names
    BY DEF strings, InRangeNow
  <2> QED BY <1>4, <2>1, SeqMonotonic
<1>6. /\ t \in Loop /\ t.keys = s.keys /\ t.next_start_after = s.next_start_after
      /\ t.lower = s.lower /\ t.lower_open = s.lower_open /\ t.over = s.over
      /\ t.fetched = batch.keys /\ (t.short <=> batch.fetched_len < remaining)
  <2>1. (batch.fetched_len < remaining) \in BOOLEAN
    OBVIOUS
  <2> QED BY <1>5, <2>1 DEF Loop
<1>7. \A k \in strings \ ToSet(t.fetched) :
        ~t.short /\ \A e \in ToSet(t.fetched) : idb_less(e, k)
  BY <1>2, <1>4, <1>6
<1> HIDE DEF t
<1>8. CASE (upper # None /\ str_leq(upper, s.lower)) \/ batch.keys = <<>>
  BY <1>3, <1>4, <1>8 DEF strings, upper
<1>9. CASE ~((upper # None /\ str_leq(upper, s.lower)) \/ batch.keys = <<>>)
  <2>1. Fetch(L, s) = t /\ t.fetched # <<>>
    BY <1>3, <1>6, <1>9
  <2>2. t.fetched \in Seq(strings) /\ Ascending(t.fetched)
    BY <1>4, <1>6
  <2> QED BY <1>6, <1>7, <2>1, <2>2 DEF strings, upper
<1> QED BY <1>8, <1>9
---------------------------------------------------------------------------
(***************************************************************************)
(* What is returned was so.                                                *)
(***************************************************************************)
\* A key that the listing may return.
Within(k) ==
  k \in Names /\ starts_with(k, args.prefix) /\ ~(k = args.prefix /\ ends_with_slash(k))

\* The lister works on its request.
ListerServes ==
  /\ lister.prefix = args.prefix
  /\ lister.skip_prefix = NewLister(args).skip_prefix
  /\ lister.limit = list_page_size(args.limit)

\* A scan runs on the stores as they are.
ScanCurrent ==
  scan # None =>
    /\ phase = "listing" /\ BelowLimit
    /\ lister.buffer = <<>> /\ ~lister.done
    /\ ToSet(scan.keys) \cup ToSet(scan.fetched) \subseteq data
    /\ \A k \in ToSet(scan.keys) : Within(k)
    /\ Len(scan.keys) <= lister.limit
    /\ ~scan.over => Len(scan.keys) < lister.limit
    /\ scan.fetched # <<>> => ~scan.over

Measured == [path : Names, info : {"sidecar", "marker", "measured"}]
SeenRecorded ==
  /\ phase # "idle" => Infos(data, meta) \subseteq seen
  /\ seen \subseteq Measured
  /\ \A b \in ToSet(lister.buffer) : b \in seen /\ Within(b.path)

Fresh ==
  phase = "idle" => emitted = <<>> /\ walked = <<>> /\ lister.buffer = <<>> /\ scan = None

Sound ==
  TypeOK /\ ListerServes /\ ScanCurrent /\ SeenRecorded /\ Fresh /\ ListSound

LEMMA InfosAre ==
  ASSUME NEW D \in SUBSET Names, NEW M
  PROVE  /\ Infos(D, M) \subseteq Measured /\ Measured \subseteq Entry
         /\ \A k \in D : [path |-> k, info |-> entry_info_for_key(k, M)] \in Infos(D, M)
         /\ \A e \in Measured : e.path \in Names /\ e.info # "folded"
<1>1. \A k : entry_info_for_key(k, M) \in {"sidecar", "marker", "measured"}
  BY DEF entry_info_for_key
<1> QED BY <1>1, NamesAreKeys DEF Infos, Measured, Entry

LEMMA SoundInit == Init => Sound
<1> SUFFICES ASSUME Init PROVE Sound
  OBVIOUS
<1>1. NoRequest \in Request
  <2>1. <<>> \in Key
    BY DEF Key
  <2> QED BY <2>1 DEF NoRequest, Request
<1>2. /\ lister \in Lister /\ args \in Request /\ lister.buffer = <<>>
      /\ ListerServes
  BY <1>1, NewListerIs DEF Init, ListerServes
<1>3. data \subseteq Names /\ meta \subseteq Names
  BY ListingAssumption DEF Init
<1>4. lister.limit \in Nat
  BY <1>2 DEF Lister
<1>5. /\ ToSet(emitted) = {} /\ ToSet(lister.buffer) = {} /\ ToSet(Paths(emitted)) = {}
      /\ emitted \in Seq(Entry) /\ walked \in Seq(Key) /\ Len(emitted) = 0 /\ Len(lister.buffer) = 0
  BY <1>2 DEF Init, ToSet, Paths
<1>6. TypeOK
  <2>1. args.limit = None
    BY DEF Init, NoRequest
  <2> QED BY <1>2, <1>3, <1>4, <1>5, <2>1 DEF Init, TypeOK
<1>7. ScanCurrent /\ Fresh
  BY <1>2 DEF Init, ScanCurrent, Fresh
<1>8. SeenRecorded /\ ListSound
  BY <1>5 DEF Init, SeenRecorded, ListSound
<1> QED BY <1>2, <1>6, <1>7, <1>8 DEF Sound

LEMMA SoundBegin ==
  ASSUME Sound, NEW r \in Request, Begin(r), walked' \in Seq(Key), kept' \subseteq Names
  PROVE  Sound'
<1>1. /\ phase' = "listing" /\ args' = r /\ lister' = NewLister(r) /\ scan' = None
      /\ visited' = {} /\ emitted' = <<>>
      /\ held' = Owed(r, data) /\ seen' = Infos(data, meta)
      /\ data' = data /\ meta' = meta
  BY DEF Begin, stores
<1>2. data \subseteq Names /\ meta \subseteq Names
  BY DEF Sound, TypeOK
<1>3. /\ lister' \in Lister /\ lister'.buffer = <<>> /\ lister'.limit \in Nat
      /\ ListerServes'
  <2>1. lister' \in Lister /\ lister'.buffer = <<>> /\ ListerServes'
    BY <1>1, NewListerIs DEF ListerServes
  <2> QED BY <2>1 DEF Lister
<1>4. /\ ToSet(emitted)' = {} /\ ToSet(lister'.buffer) = {} /\ ToSet(Paths(emitted))' = {}
      /\ emitted' \in Seq(Entry) /\ Len(emitted') = 0 /\ Len(lister'.buffer) = 0
  BY <1>1, <1>3 DEF ToSet, Paths
<1>5. /\ held' \subseteq Names
      /\ seen' \subseteq Measured /\ seen' \subseteq Entry
  BY <1>1, <1>2, InfosAre DEF Owed
<1>6. TypeOK'
  <2>1. args'.limit # None => args'.limit \in Nat
    BY <1>1 DEF Request
  <2>2. args' \in Request
    BY <1>1
  <2> QED BY <1>1, <1>2, <1>3, <1>4, <1>5, <2>1, <2>2 DEF TypeOK
<1>7. ScanCurrent' /\ Fresh'
  BY <1>1 DEF ScanCurrent, Fresh
<1>8. SeenRecorded' /\ ListSound'
  BY <1>1, <1>4, <1>5 DEF SeenRecorded, ListSound
<1> QED BY <1>3, <1>6, <1>7, <1>8 DEF Sound

LEMMA SoundList ==
  ASSUME Sound, NEW r \in Requests, List(r)
  PROVE  Sound'
<1>1. r \in Request
  BY ListingAssumption
<1>2. walked' \in Seq(Key) /\ kept' \subseteq Names
  BY DEF List, Sound, TypeOK, Owed
<1> QED BY <1>1, <1>2, SoundBegin DEF List

\* What the last entry of a listing is, from which the walk goes on.
LEMMA LastEntry ==
  ASSUME Sound, emitted # <<>>
  PROVE  /\ Last(emitted) \in ToSet(emitted) /\ Last(emitted).path \in Key
         /\ starts_with(Last(emitted).path, args.prefix)
         /\ Last(emitted).path = args.prefix => ~ends_with_slash(Last(emitted).path)
         /\ [args EXCEPT !.start_after = Last(emitted).path] \in Request
<1>1. Last(emitted) \in ToSet(emitted) /\ Last(emitted) \in Entry
  BY LastIs DEF Sound, TypeOK
<1>2. Last(emitted).path \in Key
  BY <1>1 DEF Entry
<1> QED BY <1>1, <1>2 DEF Sound, ListSound, TypeOK, Request

LEMMA SoundListMore ==
  ASSUME Sound, ListMore
  PROVE  Sound'
<1> DEFINE r == [args EXCEPT !.start_after = Last(emitted).path]
<1>1. r \in Request /\ emitted \in Seq(Entry)
  BY LastEntry DEF ListMore, Sound, TypeOK
<1>2. walked' \in Seq(Key) /\ kept' \subseteq Names
  <2>1. walked' = walked \o Paths(emitted) /\ kept' = kept
    BY DEF ListMore, Paths
  <2>2. walked \in Seq(Key) /\ kept \subseteq Names
    BY DEF Sound, TypeOK
  <2>3. Paths(emitted) \in Seq(Key)
    BY <1>1, PathsOf
  <2> QED BY <2>1, <2>2, <2>3, ConcatProperties
<1>3. Begin(r)
  BY DEF ListMore
<1> HIDE DEF r
<1> QED BY <1>1, <1>2, <1>3, SoundBegin

\* The steps of a scan change nothing else.
LEMMA SoundScan ==
  ASSUME Sound, scan' \in Loop \cup {None}, ScanCurrent',
         UNCHANGED <<stores, args, lister, visited, emitted, phase, walked, history>>,
         scan # None \/ phase = "listing"
  PROVE  Sound'
<1>1. /\ data' = data /\ meta' = meta /\ args' = args /\ lister' = lister /\ visited' = visited
      /\ emitted' = emitted /\ phase' = phase /\ walked' = walked
      /\ held' = held /\ kept' = kept /\ seen' = seen
  BY DEF stores, history
<1>2. TypeOK'
  BY <1>1 DEF Sound, TypeOK, Paths
<1>3. ListerServes'
  BY <1>1 DEF Sound, ListerServes
<1>4. SeenRecorded'
  BY <1>1 DEF Sound, SeenRecorded, Within
<1>5. Fresh' /\ ListSound'
  BY <1>1 DEF Sound, Fresh, ListSound, ScanCurrent
<1> QED BY <1>2, <1>3, <1>4, <1>5 DEF Sound

LEMMA SoundOpenScan == Sound /\ OpenScan => Sound'
<1> SUFFICES ASSUME Sound, OpenScan PROVE Sound'
  OBVIOUS
<1>1. /\ lister \in Lister /\ scan' = ScanOf(lister) /\ lister' = lister /\ phase' = phase
      /\ phase = "listing" /\ lister.buffer = <<>> /\ ~lister.done
      /\ BelowLimit'
  BY DEF OpenScan, Sound, TypeOK, BelowLimit
<1>2. /\ scan' \in Loop /\ scan'.keys = <<>> /\ scan'.fetched = <<>>
      /\ scan'.over <=> lister.limit = 0
      /\ lister.limit \in Nat
  BY <1>1, ScanOfIs DEF Lister
<1>3. ScanCurrent'
  <2>1. ToSet(scan'.keys) = {} /\ ToSet(scan'.fetched) = {} /\ Len(scan'.keys) = 0
    BY <1>2, EmptyHas
  <2>2. Len(scan'.keys) <= lister'.limit /\ (~scan'.over => Len(scan'.keys) < lister'.limit)
    BY <1>1, <1>2, <2>1
  <2> QED BY <1>1, <1>2, <2>1, <2>2 DEF ScanCurrent
<1> QED BY <1>1, <1>2, <1>3, SoundScan DEF OpenScan

LEMMA SoundFetchKeys == Sound /\ FetchKeys => Sound'
<1> SUFFICES ASSUME Sound, FetchKeys PROVE Sound'
  OBVIOUS
<1>1. /\ scan # None /\ scan \in Loop /\ lister \in Lister /\ data \subseteq Names
      /\ ~scan.over /\ scan' = Fetch(lister, scan)
      /\ UNCHANGED <<stores, args, lister, visited, emitted, phase, walked, history>>
  BY DEF FetchKeys, Sound, TypeOK
<1>2. /\ phase = "listing" /\ lister.buffer = <<>> /\ ~lister.done
      /\ ToSet(scan.keys) \subseteq data /\ \A k \in ToSet(scan.keys) : Within(k)
      /\ Len(scan.keys) < lister.limit
  BY <1>1 DEF Sound, ScanCurrent
<1>3. /\ scan' \in Loop /\ scan'.keys = scan.keys
      /\ ToSet(scan'.fetched) \subseteq data
      /\ scan'.fetched # <<>> => ~scan'.over
  <2> DEFINE s == InRangeNow(scan.lower, scan.lower_open, prefix_upper_bound(lister.prefix))
             t == Fetch(lister, scan)
  <2>1. \/ t = Break(scan)
        \/ /\ t \in Loop /\ t.keys = scan.keys /\ t.over = scan.over
           /\ t.fetched \in Seq(s)
    BY <1>1, <1>2, FetchIs
  <2>2. s \subseteq data
    BY DEF InRangeNow
  <2> HIDE DEF s, t
  <2>3. CASE t = Break(scan)
    BY <1>1, <2>3, BreakIs, EmptyHas DEF t
  <2>4. CASE t \in Loop /\ t.keys = scan.keys /\ t.over = scan.over /\ t.fetched \in Seq(s)
    <3>1. ToSet(t.fetched) \subseteq s
      BY <2>4, ElementsOf
    <3> QED BY <1>1, <2>2, <2>4, <3>1 DEF t
  <2> QED BY <2>1, <2>3, <2>4
<1>4. ScanCurrent'
  <2>1. /\ data' = data /\ args' = args /\ lister' = lister /\ phase' = phase
    BY <1>1 DEF stores
  <2>2. lister.limit \in Nat /\ Len(scan.keys) \in Nat
    BY <1>1 DEF Lister, Loop
  <2>3. \A k \in ToSet(scan'.keys) : Within(k)'
    BY <1>2, <1>3, <2>1 DEF Within
  <2>4. Len(scan'.keys) <= lister'.limit /\ Len(scan'.keys) < lister'.limit
    BY <1>2, <1>3, <2>1, <2>2
  <2>5. ToSet(scan'.keys) \cup ToSet(scan'.fetched) \subseteq data'
    BY <1>2, <1>3, <2>1
  <2>6. BelowLimit'
    BY <1>1 DEF Sound, ScanCurrent, BelowLimit
  <2> QED BY <1>2, <1>3, <2>1, <2>3, <2>4, <2>5, <2>6 DEF ScanCurrent
<1> QED BY <1>1, <1>3, <1>4, SoundScan

\* The key at hand is in the store.
LEMMA AtHand ==
  ASSUME Sound, ScanKey
  PROVE  /\ scan \in Loop /\ lister \in Lister /\ scan.fetched # <<>> /\ ~scan.over
         /\ scan.keys \in Seq(Names) /\ scan.fetched \in Seq(Names)
         /\ Head(scan.fetched) \in ToSet(scan.fetched) /\ Head(scan.fetched) \in data
         /\ Head(scan.fetched) \in Names /\ Head(scan.fetched) \in Key
         /\ Tail(scan.fetched) \in Seq(Names)
         /\ ToSet(scan.fetched) = {Head(scan.fetched)} \cup ToSet(Tail(scan.fetched))
         /\ phase = "listing" /\ lister.buffer = <<>> /\ ~lister.done
         /\ Len(scan.keys) < lister.limit
         /\ ToSet(scan.keys) \cup ToSet(scan.fetched) \subseteq data
         /\ \A k \in ToSet(scan.keys) : Within(k)
         /\ UNCHANGED <<stores, args, lister, visited, emitted, phase, walked, history>>
<1>1. /\ scan # None /\ scan.fetched # <<>> /\ scan \in Loop /\ lister \in Lister
      /\ UNCHANGED <<stores, args, lister, visited, emitted, phase, walked, history>>
  BY DEF ScanKey, Sound, TypeOK
<1>2. scan.fetched \in Seq(Names) /\ scan.keys \in Seq(Names)
  BY <1>1 DEF Loop
<1>3. /\ ToSet(scan.keys) \cup ToSet(scan.fetched) \subseteq data
      /\ phase = "listing" /\ lister.buffer = <<>> /\ ~lister.done
      /\ ~scan.over /\ Len(scan.keys) < lister.limit
      /\ \A k \in ToSet(scan.keys) : Within(k)
  BY <1>1 DEF Sound, ScanCurrent
<1>4. /\ Head(scan.fetched) \in ToSet(scan.fetched) /\ Head(scan.fetched) \in Names
      /\ Tail(scan.fetched) \in Seq(Names)
      /\ ToSet(scan.fetched) = {Head(scan.fetched)} \cup ToSet(Tail(scan.fetched))
  BY <1>1, <1>2, HeadTailHave
<1> QED BY <1>1, <1>2, <1>3, <1>4, NamesAreKeys

\* The four things that can happen to it.
LEMMA ScanKeyCases ==
  ASSUME Sound, ScanKey
  PROVE  LET key == Head(scan.fetched) IN
         \/ ~starts_with(key, lister.prefix) /\ scan' = Break(scan)
         \/ /\ starts_with(key, lister.prefix) /\ PassedOver(lister, key)
            /\ scan' = Behind(scan)
         \/ /\ starts_with(key, lister.prefix) /\ ~PassedOver(lister, key) /\ Skipped(lister, key)
            /\ scan' = Skip(lister, scan)
         \/ /\ starts_with(key, lister.prefix) /\ ~PassedOver(lister, key) /\ ~Skipped(lister, key)
            /\ scan' = Keep(lister, scan)
BY Zenon DEF ScanKey

LEMMA SoundScanKey == Sound /\ ScanKey => Sound'
<1> SUFFICES ASSUME Sound, ScanKey PROVE Sound'
  OBVIOUS
<1> DEFINE key == Head(scan.fetched)
<1>1. /\ scan \in Loop /\ lister \in Lister /\ scan.fetched # <<>> /\ ~scan.over
      /\ scan.keys \in Seq(Names) /\ key \in data /\ key \in Names
      /\ ToSet(Tail(scan.fetched)) \subseteq data
      /\ ToSet(scan.keys) \subseteq data
      /\ phase = "listing" /\ lister.buffer = <<>> /\ ~lister.done
      /\ Len(scan.keys) < lister.limit
      /\ \A k \in ToSet(scan.keys) : Within(k)
      /\ UNCHANGED <<stores, args, lister, visited, emitted, phase, walked, history>>
  BY AtHand
<1>2. Len(scan.keys) \in Nat /\ lister.limit \in Nat
  BY <1>1 DEF Lister
<1>3. data' = data /\ args' = args /\ lister' = lister /\ phase' = phase /\ BelowLimit'
  <2>1. BelowLimit /\ args' = args /\ emitted' = emitted
    BY <1>1 DEF Sound, ScanCurrent, ScanKey
  <2> QED BY <1>1, <2>1 DEF stores, BelowLimit
\* A scan that only moves keeps what it has kept.
<1>4. ASSUME scan' \in Loop, scan'.keys = scan.keys,
             ToSet(scan'.fetched) \subseteq data, scan'.fetched # <<>> => ~scan'.over
      PROVE  Sound'
  <2>1. ScanCurrent'
    BY <1>1, <1>2, <1>3, <1>4 DEF ScanCurrent, Within
  <2> QED BY <1>1, <1>4, <2>1, SoundScan
<1>5. CASE scan' = Break(scan)
  BY <1>1, <1>4, <1>5, BreakIs, EmptyHas
<1>6. CASE scan' = Behind(scan)
  BY <1>1, <1>4, <1>6, BehindIs
<1>7. CASE Skipped(lister, key) /\ scan' = Skip(lister, scan)
  <2>1. lister.skip_prefix # None
    BY <1>7 DEF Skipped
  <2> QED BY <1>1, <1>4, <1>7, <2>1, SkipIs, EmptyHas
<1>8. CASE /\ starts_with(key, lister.prefix) /\ ~PassedOver(lister, key)
           /\ scan' = Keep(lister, scan)
  <2>1. /\ scan' \in Loop /\ scan'.keys = Append(scan.keys, key)
        /\ \/ Len(scan.keys) + 1 >= lister.limit /\ scan'.fetched = <<>> /\ scan'.over
           \/ /\ Len(scan.keys) + 1 < lister.limit /\ scan'.fetched = Tail(scan.fetched)
              /\ scan'.over <=> scan.short /\ Tail(scan.fetched) = <<>>
    BY <1>1, <1>2, <1>8, KeepIs
  <2>2. Len(scan'.keys) = Len(scan.keys) + 1 /\ ToSet(scan'.keys) = ToSet(scan.keys) \cup {key}
    BY <1>1, <2>1, AppendHas
  <2>3. Within(key)
    BY <1>1, <1>8 DEF Within, PassedOver, Sound, ListerServes
  <2>4. \A k \in ToSet(scan'.keys) : Within(k)'
    BY <1>1, <1>3, <2>2, <2>3 DEF Within
  <2>5. Len(scan'.keys) <= lister'.limit /\ (~scan'.over => Len(scan'.keys) < lister'.limit)
    BY <1>1, <1>2, <1>3, <2>1, <2>2
  <2>6. ToSet(scan'.keys) \cup ToSet(scan'.fetched) \subseteq data'
    BY <1>1, <1>3, <2>1, <2>2, EmptyHas
  <2>7. scan'.fetched # <<>> => ~scan'.over
    BY <2>1
  <2>8. ScanCurrent'
    BY <1>1, <1>3, <2>4, <2>5, <2>6, <2>7 DEF ScanCurrent
  <2> QED BY <1>1, <2>1, <2>8, SoundScan
<1> QED BY <1>5, <1>6, <1>7, <1>8, ScanKeyCases

\* What the page of a scan has in it.
LEMMA PageOfIs ==
  ASSUME Sound, FetchPage
  PROVE  LET entries == lister'.buffer IN
         /\ scan \in Loop /\ lister \in Lister /\ scan # None
         /\ lister' \in Lister /\ scan' = None
         /\ lister'.prefix = lister.prefix /\ lister'.limit = lister.limit
         /\ lister'.skip_prefix = lister.skip_prefix
         /\ lister'.start_after = scan.next_start_after
         /\ lister'.done <=> lister.limit = 0 \/ Len(scan.keys) < lister.limit
         /\ Len(entries) = Len(scan.keys)
         /\ \A i \in 1..Len(scan.keys) : entries[i].path = scan.keys[i]
         /\ Paths(entries) = scan.keys
         /\ \A b \in ToSet(entries) : b \in Infos(data, meta) /\ b.path \in ToSet(scan.keys)
<1> DEFINE page    == PageOf(lister, scan)
           entries == [i \in DOMAIN scan.keys |->
                        [path |-> scan.keys[i], info |-> entry_info_for_key(scan.keys[i], meta)]]
           done    == lister.limit = 0 \/ Len(scan.keys) < lister.limit
<1>1. /\ scan \in Loop /\ scan # None /\ lister \in Lister /\ scan' = None
      /\ lister' = [lister EXCEPT !.buffer = page.entries, !.done = page.done,
                                  !.start_after = page.next_start_after]
  BY DEF FetchPage, Sound, TypeOK
<1>2. page = [entries |-> entries, next_start_after |-> scan.next_start_after, done |-> done]
  BY DEF PageOf
<1>3. page.entries = entries /\ page.next_start_after = scan.next_start_after /\ page.done = done
  <2> HIDE DEF page, entries, done
  <2> QED BY <1>2
<1>4. /\ scan.keys \in Seq(Names) /\ DOMAIN scan.keys = 1..Len(scan.keys) /\ Len(scan.keys) \in Nat
      /\ ToSet(scan.keys) \subseteq data /\ data \subseteq Names
      /\ \A i \in 1..Len(scan.keys) : scan.keys[i] \in ToSet(scan.keys)
  BY <1>1 DEF Loop, Sound, ScanCurrent, TypeOK, ToSet
<1>5. \A i \in 1..Len(scan.keys) : entries[i] \in Infos(data, meta) /\ entries[i].path = scan.keys[i]
  BY <1>4, InfosAre
<1>6. entries \in Seq(Entry) /\ Len(entries) = Len(scan.keys) /\ DOMAIN entries = 1..Len(scan.keys)
  <2>1. Infos(data, meta) \subseteq Entry
    BY <1>4, InfosAre
  <2>2. entries \in [1..Len(scan.keys) -> Entry]
    BY <1>4, <1>5, <2>1
  <2> HIDE DEF entries
  <2> QED BY <1>4, <2>2
<1>7. Paths(entries) = scan.keys
  <2> HIDE DEF entries
  <2>1. /\ Paths(entries) \in Seq(Key) /\ Len(Paths(entries)) = Len(scan.keys)
        /\ \A i \in 1..Len(scan.keys) : Paths(entries)[i] = scan.keys[i]
    BY <1>5, <1>6, PathsOf
  <2>2. scan.keys \in Seq(Key)
    BY <1>4, NamesAreKeys, SeqMonotonic
  <2> QED BY <2>1, <2>2, SeqEqual
<1>8. \A b \in ToSet(entries) : b \in Infos(data, meta) /\ b.path \in ToSet(scan.keys)
  <2> HIDE DEF entries
  <2> QED BY <1>4, <1>5, <1>6 DEF ToSet
<1>9. done \in BOOLEAN /\ scan.next_start_after \in Key \cup {None}
  BY <1>1 DEF Loop
<1> HIDE DEF page, entries, done
<1>10. page.done \in BOOLEAN
  BY <1>2, <1>9
<1>11. /\ lister' \in Lister /\ lister'.buffer = entries /\ (lister'.done <=> done)
       /\ lister'.prefix = lister.prefix /\ lister'.limit = lister.limit
       /\ lister'.skip_prefix = lister.skip_prefix /\ lister'.start_after = scan.next_start_after
  BY <1>1, <1>3, <1>6, <1>9, <1>10 DEF Lister
<1> QED BY <1>1, <1>5, <1>6, <1>7, <1>8, <1>11 DEF done

LEMMA SoundFetchPage == Sound /\ FetchPage => Sound'
<1> SUFFICES ASSUME Sound, FetchPage PROVE Sound'
  OBVIOUS
<1>1. /\ data' = data /\ meta' = meta /\ args' = args /\ visited' = visited
      /\ emitted' = emitted /\ phase' = phase /\ walked' = walked
      /\ held' = held /\ kept' = kept /\ seen' = seen
  BY DEF FetchPage, stores, history
<1>2. /\ lister' \in Lister /\ scan' = None /\ scan # None
      /\ lister'.prefix = lister.prefix /\ lister'.limit = lister.limit
      /\ lister'.skip_prefix = lister.skip_prefix
      /\ Len(lister'.buffer) = Len(scan.keys)
      /\ \A b \in ToSet(lister'.buffer) : b \in Infos(data, meta) /\ b.path \in ToSet(scan.keys)
  BY PageOfIs
<1>3. /\ phase = "listing" /\ Len(scan.keys) <= lister.limit
      /\ \A k \in ToSet(scan.keys) : Within(k)
  BY <1>2 DEF Sound, ScanCurrent
<1>4. ListerServes'
  BY <1>1, <1>2 DEF Sound, ListerServes
<1>5. \A b \in ToSet(lister'.buffer) : b \in seen /\ Within(b.path)
  BY <1>2, <1>3 DEF Sound, SeenRecorded
<1>6. SeenRecorded'
  BY <1>1, <1>5 DEF Sound, SeenRecorded, Within
<1>7. TypeOK'
  <2>1. \A b \in ToSet(lister'.buffer) : b.path \in Names /\ starts_with(b.path, lister'.prefix)
    BY <1>2, <1>5 DEF Within, Sound, ListerServes
  <2>2. Len(lister'.buffer) <= lister'.limit
    BY <1>2, <1>3
  <2> QED BY <1>1, <1>2, <2>1, <2>2 DEF Sound, TypeOK, Paths
<1>8. ScanCurrent' /\ Fresh' /\ ListSound'
  BY <1>1, <1>2, <1>3 DEF Sound, ScanCurrent, Fresh, ListSound
<1> QED BY <1>4, <1>6, <1>7, <1>8 DEF Sound

\* What Emit pops, and what it makes of it.
LEMMA EmitIs ==
  ASSUME Sound, Emit
  PROVE  LET entry == Head(lister.buffer)
             path  == Shown(args, entry.path)
             new   == IF path # entry.path THEN [path |-> path, info |-> "folded"] ELSE entry
         IN
         /\ phase = "listing" /\ BelowLimit /\ lister \in Lister /\ lister.buffer # <<>> /\ scan = None
         /\ entry \in ToSet(lister.buffer) /\ entry \in seen /\ Within(entry.path)
         /\ entry.path \in Key /\ path \in Key /\ new \in Entry /\ new.path = path
         /\ lister' = [lister EXCEPT !.buffer = Tail(lister.buffer)] /\ lister' \in Lister
         /\ lister'.buffer = Tail(lister.buffer)
         /\ Len(Tail(lister.buffer)) < Len(lister.buffer)
         /\ ToSet(lister.buffer) = {entry} \cup ToSet(Tail(lister.buffer))
         /\ \/ path \in visited /\ UNCHANGED <<emitted, visited>>
            \/ /\ path \notin visited /\ emitted' = Append(emitted, new)
               /\ visited' = IF ~args.recursive /\ ends_with_slash(path)
                             THEN visited \cup {path} ELSE visited
<1> DEFINE entry == Head(lister.buffer)
           path  == Shown(args, entry.path)
           new   == IF path # entry.path THEN [path |-> path, info |-> "folded"] ELSE entry
<1>1. /\ phase = "listing" /\ BelowLimit /\ lister.buffer # <<>>
      /\ lister' = [lister EXCEPT !.buffer = Tail(lister.buffer)]
      /\ lister \in Lister /\ args \in Request
  BY DEF Emit, Sound, TypeOK
<1>2. scan = None
  BY <1>1 DEF Sound, ScanCurrent
<1>3. lister.buffer \in Seq(Entry)
  BY <1>1 DEF Lister
<1>4. /\ entry \in ToSet(lister.buffer) /\ entry \in Entry
      /\ Tail(lister.buffer) \in Seq(Entry) /\ Len(Tail(lister.buffer)) < Len(lister.buffer)
      /\ ToSet(lister.buffer) = {entry} \cup ToSet(Tail(lister.buffer))
  BY <1>1, <1>3, HeadTailHave
<1>5. entry \in seen /\ Within(entry.path) /\ entry.path \in Key
  BY <1>4 DEF Sound, SeenRecorded, Entry
<1>6. path \in Key
  BY <1>1, <1>5, ShownIs
<1>7. lister' \in Lister /\ lister'.buffer = Tail(lister.buffer)
  BY <1>1, <1>4 DEF Lister
<1>8. \/ path \in visited /\ UNCHANGED <<emitted, visited>>
      \/ /\ path \notin visited /\ emitted' = Append(emitted, new)
         /\ visited' = IF ~args.recursive /\ ends_with_slash(path)
                       THEN visited \cup {path} ELSE visited
  BY Zenon DEF Emit
<1>9. new \in Entry /\ new.path = path
  BY <1>4, <1>6 DEF Entry
<1> HIDE DEF entry, path, new
<1> QED BY <1>1, <1>2, <1>4, <1>5, <1>6, <1>7, <1>8, <1>9 DEF entry, path, new

LEMMA SoundEmit == Sound /\ Emit => Sound'
<1> SUFFICES ASSUME Sound, Emit PROVE Sound'
  OBVIOUS
<1> DEFINE entry == Head(lister.buffer)
           path  == Shown(args, entry.path)
           new   == IF path # entry.path THEN [path |-> path, info |-> "folded"] ELSE entry
<1>1. /\ data' = data /\ meta' = meta /\ args' = args /\ scan' = scan /\ phase' = phase
      /\ walked' = walked /\ held' = held /\ kept' = kept /\ seen' = seen
  BY DEF Emit, stores, history
<1>2. /\ phase = "listing" /\ BelowLimit /\ lister \in Lister /\ scan = None
      /\ entry \in seen /\ Within(entry.path) /\ entry.path \in Key /\ path \in Key
      /\ new \in Entry /\ new.path = path
      /\ lister' = [lister EXCEPT !.buffer = Tail(lister.buffer)] /\ lister' \in Lister
      /\ lister'.buffer = Tail(lister.buffer)
      /\ Len(Tail(lister.buffer)) < Len(lister.buffer)
      /\ ToSet(lister.buffer) = {entry} \cup ToSet(Tail(lister.buffer))
      /\ \/ path \in visited /\ UNCHANGED <<emitted, visited>>
         \/ /\ path \notin visited /\ emitted' = Append(emitted, new)
            /\ visited' = IF ~args.recursive /\ ends_with_slash(path)
                          THEN visited \cup {path} ELSE visited
  BY EmitIs
<1>3. /\ args \in Request /\ emitted \in Seq(Entry) /\ visited \subseteq ToSet(Paths(emitted))
      /\ args.limit # None => Len(emitted) <= args.limit
      /\ Len(lister.buffer) <= lister.limit /\ lister.limit \in Nat
      /\ args.limit # None => args.limit \in Nat
  BY <1>2 DEF Sound, TypeOK, Lister, Request
<1>4. /\ lister'.prefix = lister.prefix /\ lister'.limit = lister.limit
      /\ lister'.skip_prefix = lister.skip_prefix
  BY <1>2 DEF Lister
<1>5. ListerServes'
  BY <1>1, <1>4 DEF Sound, ListerServes
<1>6. ScanCurrent' /\ Fresh'
  BY <1>1, <1>2 DEF ScanCurrent, Fresh
<1>7. ToSet(lister'.buffer) \subseteq ToSet(lister.buffer)
  BY <1>2
<1>8. SeenRecorded'
  <2>1. \A b \in ToSet(lister'.buffer) : b \in seen' /\ Within(b.path)'
    BY <1>1, <1>7 DEF Sound, SeenRecorded, Within
  <2> QED BY <1>1, <2>1 DEF Sound, SeenRecorded
\* The new entry is as ListSound says.
<1>9. /\ starts_with(new.path, args.prefix)
      /\ new.path = args.prefix => ~ends_with_slash(new.path)
      /\ IF new.info = "folded"
         THEN \E s \in seen : starts_with(s.path, new.path) /\ s.path # new.path
         ELSE new \in seen /\ new.path = Shown(args, new.path)
  <2>1. /\ starts_with(entry.path, path)
        /\ starts_with(path, args.prefix)
        /\ path = entry.path \/ IsDirectory(path, args.prefix)
    BY <1>2, <1>3, ShownIs DEF Within
  <2>2. CASE path = entry.path
    <3>1. new = entry
      BY <2>2
    <3>2. entry.info # "folded"
      BY <1>2 DEF Sound, SeenRecorded, Measured
    <3> QED BY <1>2, <2>1, <2>2, <3>1, <3>2 DEF Within
  <2>3. CASE path # entry.path
    <3>1. new.info = "folded"
      BY <2>3
    <3>2. path # args.prefix
      BY <1>2, <1>3, <2>1, <2>3, Letters DEF IsDirectory, Request
    <3> HIDE DEF new, path, entry
    <3> QED BY <1>2, <2>1, <2>3, <3>1, <3>2
  <2> QED BY <2>2, <2>3
<1> HIDE DEF new, path, entry
<1>10. CASE UNCHANGED <<emitted, visited>>
  <2>1. ListSound'
    BY <1>1, <1>10 DEF Sound, ListSound
  <2>2. TypeOK'
    <3>1. Len(lister'.buffer) <= lister'.limit
      <4>1. Len(lister'.buffer) \in Nat /\ Len(lister.buffer) \in Nat
        BY <1>2 DEF Lister
      <4> QED BY <1>2, <1>3, <1>4, <4>1
    <3>2. \A e \in ToSet(lister'.buffer) : e.path \in Names /\ starts_with(e.path, lister'.prefix)
      BY <1>4, <1>7 DEF Sound, TypeOK
    <3> QED BY <1>1, <1>2, <1>10, <3>1, <3>2 DEF Sound, TypeOK, Paths
  <2> QED BY <1>5, <1>6, <1>8, <2>1, <2>2 DEF Sound
<1>11. CASE /\ emitted' = Append(emitted, new)
            /\ visited' \subseteq visited \cup {path}
  <2>1. /\ emitted' \in Seq(Entry) /\ Len(emitted') = Len(emitted) + 1
        /\ ToSet(emitted') = ToSet(emitted) \cup {new}
    BY <1>2, <1>3, <1>11, AppendHas
  <2>2. ListSound'
    BY <1>1, <1>9, <2>1 DEF Sound, ListSound
  <2>3. visited' \subseteq ToSet(Paths(emitted'))
    <3>1. /\ ToSet(Paths(emitted)) = {e.path : e \in ToSet(emitted)}
          /\ ToSet(Paths(emitted')) = {e.path : e \in ToSet(emitted')}
      BY <1>3, <2>1, PathsOf
    <3> QED BY <1>2, <1>3, <1>11, <2>1, <3>1
  <2>4. args'.limit # None => Len(emitted') <= args'.limit
    <3>1. Len(emitted) \in Nat
      BY <1>3
    <3> QED BY <1>1, <1>2, <1>3, <2>1, <3>1 DEF BelowLimit
  <2>5. Len(lister'.buffer) <= lister'.limit
    <3>1. Len(lister'.buffer) \in Nat /\ Len(lister.buffer) \in Nat
      BY <1>2 DEF Lister
    <3> QED BY <1>2, <1>3, <1>4, <3>1
  <2>6. \A e \in ToSet(lister'.buffer) : e.path \in Names /\ starts_with(e.path, lister'.prefix)
    BY <1>4, <1>7 DEF Sound, TypeOK
  <2>7. TypeOK'
    BY <1>1, <1>2, <2>1, <2>3, <2>4, <2>5, <2>6 DEF Sound, TypeOK, Paths
  <2> QED BY <1>5, <1>6, <1>8, <2>2, <2>7 DEF Sound
<1> QED BY <1>2, <1>10, <1>11

LEMMA SoundEnd == Sound /\ End => Sound'
<1> SUFFICES ASSUME Sound, End PROVE Sound'
  OBVIOUS
<1>1. /\ data' = data /\ meta' = meta /\ args' = args /\ lister' = lister /\ visited' = visited
      /\ emitted' = emitted /\ scan' = scan /\ walked' = walked /\ phase' = "ended"
      /\ held' = held /\ kept' = kept /\ seen' = seen
  BY DEF End, stores, history
<1>2. scan = None
  BY DEF End, Sound, ScanCurrent
<1>3. TypeOK' /\ ListerServes' /\ ScanCurrent'
  BY <1>1, <1>2 DEF Sound, TypeOK, Paths, ListerServes, ScanCurrent
<1>4. Infos(data, meta) \subseteq seen
  BY DEF End, Sound, SeenRecorded
<1>5. SeenRecorded' /\ Fresh' /\ ListSound'
  BY <1>1, <1>4 DEF Sound, SeenRecorded, Within, Fresh, ListSound
<1> QED BY <1>3, <1>5 DEF Sound

LEMMA DeletesLeave ==
  ASSUME NEW D, NEW K \in SUBSET Names, NEW p
  PROVE  delete_recursive(D, K, p) \in SUBSET Names
<1>1. \A q : delete_prefix(D, K, q) \subseteq K
  BY DEF delete_prefix
<1> QED BY <1>1 DEF delete_recursive

\* What the others do is a change of both stores.
LEMMA OthersBecome ==
  ASSUME Sound, Others
  PROVE  \E K, M \in SUBSET Names : Becomes(K, M)
<1>1. data \in SUBSET Names /\ meta \in SUBSET Names /\ Busy \subseteq Names
  BY ListingAssumption DEF Sound, TypeOK
<1>2. PICK k \in Busy :
        \/ Write(k) \/ Delete(k) \/ DeleteRecursive(k)
        \/ LegacyWrite(k) \/ LegacyDelete(k)
        \/ \E to \in Busy \ {k} : Rename(k, to)
  BY DEF Others
<1>3. CASE Write(k)
  <2>1. data \cup {k} \in SUBSET Names /\ meta \cup {k} \in SUBSET Names
    BY <1>1
  <2> QED BY <1>3, <2>1 DEF Write
<1>4. CASE Delete(k)
  <2>1. data \ {k} \in SUBSET Names /\ meta \ {k} \in SUBSET Names
    BY <1>1
  <2> QED BY <1>4, <2>1 DEF Delete
<1>5. CASE DeleteRecursive(k)
  <2>1. delete_recursive(data, data, k) \in SUBSET Names /\ delete_recursive(data, meta, k) \in SUBSET Names
    BY <1>1, DeletesLeave
  <2> QED BY <1>5, <2>1 DEF DeleteRecursive
<1>6. CASE LegacyWrite(k)
  <2>1. data \cup {k} \in SUBSET Names
    BY <1>1
  <2> QED BY <1>1, <1>6, <2>1 DEF LegacyWrite
<1>7. CASE LegacyDelete(k)
  <2>1. data \ {k} \in SUBSET Names
    BY <1>1
  <2> QED BY <1>1, <1>7, <2>1 DEF LegacyDelete
<1>8. CASE \E to \in Busy \ {k} : Rename(k, to)
  <2>1. PICK to \in Busy \ {k} : Rename(k, to)
    BY <1>8
  <2>2. /\ (data \ {k}) \cup {to} \in SUBSET Names
        /\ (meta \ {k}) \cup {to} \in SUBSET Names
    BY <1>1
  <2> QED BY <2>1, <2>2 DEF Rename
<1> QED BY <1>2, <1>3, <1>4, <1>5, <1>6, <1>7, <1>8

LEMMA SoundOthers == Sound /\ Others => Sound'
<1> SUFFICES ASSUME Sound, Others PROVE Sound'
  OBVIOUS
<1>1. PICK K, M \in SUBSET Names : Becomes(K, M)
  BY OthersBecome
<1>2. /\ data' = K /\ meta' = M /\ scan = None
      /\ held' = held \cap K /\ kept' = kept \cap K /\ seen' = seen \cup Infos(K, M)
      /\ args' = args /\ lister' = lister /\ scan' = scan /\ visited' = visited
      /\ emitted' = emitted /\ phase' = phase /\ walked' = walked
  BY <1>1 DEF Becomes, client
<1>3. Infos(K, M) \subseteq Measured /\ Measured \subseteq Entry
  BY InfosAre
<1>4. TypeOK' /\ ListerServes' /\ ScanCurrent'
  BY <1>2, <1>3 DEF Sound, TypeOK, Paths, ListerServes, ScanCurrent
<1>5. SeenRecorded'
  BY <1>2, <1>3 DEF Sound, SeenRecorded, Within
<1>6. Fresh'
  BY <1>2 DEF Sound, Fresh
<1>7. ListSound'
  BY <1>2 DEF Sound, ListSound
<1> QED BY <1>4, <1>5, <1>6, <1>7 DEF Sound

LEMMA SoundNext == Sound /\ [Next]_vars => Sound'
<1> SUFFICES ASSUME Sound, [Next]_vars PROVE Sound'
  OBVIOUS
<1>1. CASE \E r \in Requests : List(r)
  BY <1>1, SoundList
<1>2. CASE ListMore
  BY <1>2, SoundListMore
<1>3. CASE OpenScan \/ FetchKeys \/ ScanKey \/ FetchPage
  BY <1>3, SoundOpenScan, SoundFetchKeys, SoundScanKey, SoundFetchPage
<1>4. CASE Emit \/ End
  BY <1>4, SoundEmit, SoundEnd
<1>5. CASE Others
  BY <1>5, SoundOthers
<1>6. CASE UNCHANGED vars
  BY <1>6 DEF vars, stores, client, history, Sound, TypeOK, Paths, ListerServes, ScanCurrent,
              SeenRecorded, Within, Fresh, ListSound, BelowLimit
<1> QED BY <1>1, <1>2, <1>3, <1>4, <1>5, <1>6 DEF Next, Walker

LEMMA SoundAlways == Spec => []Sound
BY SoundInit, SoundNext, PTL DEF Spec

\* Every variable has its type; no page and no listing is longer than its
\* limit (IndexeddbLimitLister).
THEOREM TypeCorrect == Spec => []TypeOK
<1>1. Sound => TypeOK
  BY DEF Sound
<1> QED BY <1>1, SoundAlways, PTL

\* Whatever is written between the pages of a listing, and whatever orders the
\* keys, what it returns was so at some time while it ran.
THEOREM ListingsSound == Spec => []ListSound
<1>1. Sound => ListSound
  BY DEF Sound
<1> QED BY <1>1, SoundAlways, PTL
---------------------------------------------------------------------------
(***************************************************************************)
(* A walk returns its entries in order.  What is still to come, in the     *)
(* buffer or in the range that is left to scan, is shown behind all that   *)
(* has been returned, or in a directory that has been.                     *)
(***************************************************************************)
Returned == walked \o Paths(emitted)

\* k comes after all that was returned, or it is dropped.
After(k) ==
  \A p \in ToSet(Returned) :
    idb_leq(p, Shown(args, k)) /\ (p = Shown(args, k) => p \in visited)

\* The keys that a scan may still keep.
Reach(s, k) == Within(k) /\ InRange(k, s.lower, s.lower_open, None) /\ ~Skipped(lister, k)

Passed(s, k) == idb_leq(k, s.lower) /\ (k = s.lower => s.lower_open)

ShownAsIs == \A e \in ToSet(emitted) : Shown(args, e.path) = e.path

BufferAhead ==
  phase = "listing" =>
    /\ Ascending(Paths(lister.buffer))
    /\ \A b \in ToSet(lister.buffer) : After(b.path)
    /\ scan = None /\ ~lister.done =>
         \A k \in Names :
           Reach(ScanOf(lister), k) =>
             After(k) /\ \A b \in ToSet(lister.buffer) : idb_less(b.path, k)

ScanAhead ==
  scan # None =>
    /\ Ascending(scan.keys) /\ Ascending(scan.fetched)
    /\ \A k \in ToSet(scan.keys) : After(k) /\ Passed(scan, k)
    /\ \A k \in ToSet(scan.fetched) : InRange(k, scan.lower, scan.lower_open, None)
    /\ \A k \in Names : Reach(scan, k) => After(k)
    /\ scan.keys # <<>> /\ Len(scan.keys) = lister.limit =>
         scan.next_start_after = Last(scan.keys)

InOrder == Sound /\ Ascending(Returned) /\ ShownAsIs /\ BufferAhead /\ ScanAhead

LEMMA ReturnedAre ==
  ASSUME Sound
  PROVE  /\ Returned \in Seq(Key) /\ ToSet(Returned) \subseteq Key
         /\ walked \in Seq(Key) /\ Paths(emitted) \in Seq(Key) /\ emitted \in Seq(Entry)
         /\ args \in Request
<1>1. walked \in Seq(Key) /\ emitted \in Seq(Entry) /\ args \in Request
  BY DEF Sound, TypeOK
<1>2. Paths(emitted) \in Seq(Key)
  BY <1>1, PathsOf
<1>3. Returned \in Seq(Key)
  BY <1>1, <1>2, ConcatProperties DEF Returned
<1> QED BY <1>1, <1>2, <1>3, ElementsOf

\* What comes behind a key that is to come is to come.
LEMMA AfterBehind ==
  ASSUME Sound, NEW k \in Key, NEW m \in Key, After(k), idb_less(k, m)
  PROVE  After(m)
<1> SUFFICES ASSUME NEW p \in ToSet(Returned)
             PROVE  idb_leq(p, Shown(args, m)) /\ (p = Shown(args, m) => p \in visited)
  BY DEF After
<1> DEFINE a == Shown(args, k)
           b == Shown(args, m)
<1>1. a \in Key /\ b \in Key /\ p \in Key /\ args \in Request
  BY ReturnedAre, ShownIs
<1>2. idb_leq(p, a) /\ (p = a => p \in visited)
  BY DEF After
<1>3. idb_leq(a, b)
  BY <1>1, ShownInOrder
<1> HIDE DEF a, b
<1>4. idb_leq(p, b) /\ (p = b => p = a)
  BY <1>1, <1>2, <1>3, IdbOrder
<1> QED BY <1>2, <1>4 DEF b

LEMMA AppendToBoth ==
  ASSUME NEW s \in Seq(Key), NEW t \in Seq(Key), NEW e \in Key
  PROVE  s \o Append(t, e) = Append(s \o t, e)
<1> DEFINE u == <<e>>
<1>1. u \in Seq(Key) /\ s \o t \in Seq(Key)
  OBVIOUS
<1>2. Append(t, e) = t \o u /\ Append(s \o t, e) = (s \o t) \o u
  BY <1>1, AppendIsConcat
<1> HIDE DEF u
<1>3. (s \o t) \o u = s \o (t \o u)
  BY <1>1, ConcatAssociative
<1> QED BY <1>2, <1>3

LEMMA LastOfBoth ==
  ASSUME NEW s \in Seq(Key), NEW t \in Seq(Key), t # <<>>
  PROVE  s \o t # <<>> /\ Last(s \o t) = Last(t)
<1>1. Len(t) \in Nat \ {0} /\ Len(s) \in Nat
  BY EmptySeq, LenProperties
<1>2. /\ s \o t \in Seq(Key) /\ Len(s \o t) = Len(s) + Len(t)
      /\ (s \o t)[Len(s) + Len(t)] = t[Len(t)]
  BY <1>1
<1>3. s \o t # <<>>
  BY <1>1, <1>2
<1> QED BY <1>2, <1>3 DEF Last

\* The last entry is behind all others.
LEMMA LastReturned ==
  ASSUME Sound, Ascending(Returned), emitted # <<>>, NEW p \in ToSet(Returned)
  PROVE  idb_leq(p, Last(emitted).path)
<1>1. /\ Returned \in Seq(Key) /\ walked \in Seq(Key) /\ emitted \in Seq(Entry)
      /\ Paths(emitted) \in Seq(Key) /\ Len(Paths(emitted)) = Len(emitted)
      /\ \A i \in 1..Len(emitted) : Paths(emitted)[i] = emitted[i].path
  BY ReturnedAre, PathsOf
<1>2. Len(emitted) \in Nat \ {0}
  BY <1>1, EmptySeq, LenProperties
<1>3. Paths(emitted) # <<>> /\ Last(Paths(emitted)) = Last(emitted).path
  BY <1>1, <1>2 DEF Last
<1>4. Returned # <<>> /\ Last(Returned) = Last(emitted).path
  BY <1>1, <1>3, LastOfBoth DEF Returned
<1> QED BY <1>1, <1>4, AscendingLast

LEMMA OrderInit == Init => InOrder
<1> SUFFICES ASSUME Init PROVE InOrder
  OBVIOUS
<1>1. walked = <<>> /\ emitted = <<>> /\ phase = "idle" /\ scan = None
  BY DEF Init
<1>2. Paths(emitted) = <<>>
  BY <1>1 DEF Paths
<1>3. Returned = <<>>
  BY <1>1, <1>2 DEF Returned
<1>4. Ascending(Returned) /\ ShownAsIs
  BY <1>1, <1>3, EmptyHas DEF ShownAsIs
<1> QED BY <1>1, <1>4, SoundInit DEF InOrder, BufferAhead, ScanAhead

\* When a listing begins, nothing of it has been returned.
LEMMA OrderBegin ==
  ASSUME InOrder, Sound', NEW r \in Request, Begin(r), walked' = Returned,
         \A k \in Names : Reach(ScanOf(lister), k)' =>
            \A p \in ToSet(Returned) : idb_less(p, Shown(r, k))
  PROVE  InOrder'
<1>1. /\ phase' = "listing" /\ args' = r /\ lister' = NewLister(r) /\ scan' = None
      /\ visited' = {} /\ emitted' = <<>>
  BY DEF Begin
<1>2. lister'.buffer = <<>>
  BY <1>1, NewListerIs
<1>3. Returned' = Returned
  <2>1. Paths(emitted)' = <<>>
    BY <1>1 DEF Paths
  <2>2. Returned \in Seq(Key)
    BY ReturnedAre DEF InOrder
  <2> QED BY <2>1, <2>2, ConcatEmptySeq DEF Returned
<1>4. Ascending(Returned)' /\ ShownAsIs' /\ ScanAhead'
  BY <1>1, <1>3, EmptyHas DEF InOrder, ShownAsIs, ScanAhead
<1>5. ASSUME NEW k \in Names, Reach(ScanOf(lister), k)'
      PROVE  After(k)'
  <2>1. \A p \in ToSet(Returned) : idb_less(p, Shown(r, k)) /\ p \in Key
    BY <1>5, ReturnedAre DEF InOrder
  <2>2. Shown(r, k) \in Key
    BY NamesAreKeys, ShownIs
  <2>3. \A p \in ToSet(Returned) : idb_leq(p, Shown(r, k)) /\ p # Shown(r, k)
    BY <2>1, <2>2, IdbIrreflexive DEF idb_leq
  <2> QED BY <1>1, <1>3, <2>3 DEF After
<1>6. BufferAhead'
  <2>1. ToSet(lister.buffer)' = {} /\ Ascending(Paths(lister.buffer))'
    <3>1. Paths(lister.buffer)' = <<>>
      BY <1>2 DEF Paths
    <3> QED BY <1>2, <3>1, EmptyHas
  <2> QED BY <1>5, <2>1 DEF BufferAhead
<1> QED BY <1>4, <1>6 DEF InOrder

LEMMA OrderList ==
  ASSUME InOrder, NEW r \in Requests, List(r)
  PROVE  InOrder'
<1>1. r \in Request /\ Sound /\ Sound'
  BY ListingAssumption, SoundList DEF InOrder
<1>2. walked = <<>> /\ emitted = <<>> /\ walked' = walked /\ Begin(r)
  BY <1>1 DEF List, Sound, Fresh
<1>3. Returned = <<>>
  <2>1. Paths(emitted) = <<>>
    BY <1>2 DEF Paths
  <2> QED BY <1>2, <2>1 DEF Returned
<1> QED BY <1>1, <1>2, <1>3, EmptyHas, OrderBegin

\* The walk goes on behind its last entry: what is in that directory is skipped.
LEMMA OrderListMore ==
  ASSUME InOrder, ListMore
  PROVE  InOrder'
<1> DEFINE e == Last(emitted).path
           r == [args EXCEPT !.start_after = e]
           s == ScanOf(lister)'
<1>1. /\ Sound /\ Sound' /\ emitted # <<>> /\ Begin(r) /\ args \in Request
      /\ walked' = Returned
  BY SoundListMore DEF InOrder, ListMore, Returned, Paths, Sound, TypeOK
<1>2. /\ e \in Key /\ r \in Request /\ starts_with(e, args.prefix)
      /\ Last(emitted) \in ToSet(emitted)
  BY <1>1, LastEntry
<1>3. /\ r.start_after = e /\ r.prefix = args.prefix /\ r.recursive = args.recursive
      /\ args.prefix \in Key
  BY <1>1 DEF Request
<1>4. Shown(args, e) = e
  BY <1>2 DEF InOrder, ShownAsIs
<1>5. \A k : Shown(r, k) = Shown(args, k)
  BY <1>3 DEF Shown
<1>6. /\ args' = r /\ lister' = NewLister(r) /\ NewLister(r) \in Lister
      /\ lister'.prefix = r.prefix /\ lister'.start_after = r.start_after
      /\ lister'.skip_prefix = IF ~r.recursive /\ r.start_after # None /\ ends_with_slash(r.start_after)
                               THEN r.start_after ELSE None
  <2>1. args' = r /\ lister' = NewLister(r)
    BY <1>1 DEF Begin
  <2> HIDE DEF r
  <2> QED BY <1>2, <2>1, NewListerIs DEF NewLister
<1> HIDE DEF r
<1>7. s.lower = e /\ s.lower_open
  <2>1. e # None
    BY <1>2, NoneAssumption
  <2>2. str_leq(args.prefix, e)
    BY <1>2, <1>3, PrefixFirst
  <2> QED BY <1>3, <1>6, <2>1, <2>2, ScanOfIs
<1> HIDE DEF e, s
<1>8. ASSUME NEW k \in Names, Reach(ScanOf(lister), k)', NEW p \in ToSet(Returned)
      PROVE  idb_less(p, Shown(r, k))
  <2>1. InRange(k, e, TRUE, None) /\ ~Skipped(lister', k)
    BY <1>7, <1>8 DEF Reach, InRange, s
  <2>2. idb_less(e, k) /\ k \in Key
    BY <2>1, NamesAreKeys DEF InRange, idb_leq
  <2>3. idb_less(e, Shown(args, k))
    <3> SUFFICES ASSUME ~idb_less(e, Shown(args, k)) PROVE FALSE
      OBVIOUS
    <3>1. starts_with(k, e) /\ ~args.recursive /\ ends_with_slash(e)
      BY <1>1, <1>2, <1>4, <2>2, ShownBehind
    <3>2. lister'.skip_prefix = e /\ e # None
      BY <1>2, <1>3, <1>6, <3>1, NoneAssumption
    <3> QED BY <2>1, <3>1, <3>2 DEF Skipped
  <2>4. idb_leq(p, e) /\ p \in Key /\ Shown(args, k) \in Key
    BY <1>1, <2>2, LastReturned, ReturnedAre, ShownIs DEF InOrder, e
  <2> QED BY <1>2, <1>5, <2>3, <2>4, IdbOrder
<1> QED BY <1>1, <1>2, <1>8, OrderBegin

\* A step of a scan changes nothing but the scan.
LEMMA OrderScan ==
  ASSUME InOrder, Sound', ScanAhead', scan' # None,
         UNCHANGED <<stores, args, lister, visited, emitted, phase, walked, history>>
  PROVE  InOrder'
<1>1. /\ args' = args /\ lister' = lister /\ visited' = visited /\ emitted' = emitted
      /\ phase' = phase /\ walked' = walked
  OBVIOUS
<1>2. Ascending(Returned)' /\ ShownAsIs'
  BY <1>1 DEF InOrder, Returned, Paths, ShownAsIs
<1>3. BufferAhead'
  BY <1>1 DEF InOrder, BufferAhead, After, Returned, Paths
<1> QED BY <1>2, <1>3 DEF InOrder

LEMMA OrderOpenScan == InOrder /\ OpenScan => InOrder'
<1> SUFFICES ASSUME InOrder, OpenScan PROVE InOrder'
  OBVIOUS
<1>1. /\ Sound /\ Sound' /\ phase = "listing" /\ scan = None /\ ~lister.done
      /\ scan' = ScanOf(lister) /\ lister \in Lister
      /\ args' = args /\ lister' = lister /\ visited' = visited /\ emitted' = emitted
      /\ walked' = walked
  BY SoundOpenScan DEF InOrder, OpenScan, Sound, TypeOK
<1>2. scan' \in Loop /\ scan'.keys = <<>> /\ scan'.fetched = <<>>
  BY <1>1, ScanOfIs
<1>3. \A k \in Names : Reach(ScanOf(lister), k) => After(k)
  BY <1>1 DEF InOrder, BufferAhead
<1>4. \A k \in Names : Reach(scan, k)' => After(k)'
  BY <1>1, <1>3 DEF Reach, Within, After, Returned, Paths
<1>5. ScanAhead'
  BY <1>2, <1>4, EmptyHas DEF ScanAhead
<1>6. scan' # None
  BY <1>2, NamesAreKeys
<1> QED BY <1>1, <1>5, <1>6, OrderScan DEF OpenScan

\* What is fetched lies in the range.
LEMMA OrderFetchKeys == InOrder /\ FetchKeys => InOrder'
<1> SUFFICES ASSUME InOrder, FetchKeys PROVE InOrder'
  OBVIOUS
<1>1. /\ Sound /\ Sound' /\ scan # None /\ scan \in Loop /\ lister \in Lister /\ data \subseteq Names
      /\ ~scan.over /\ scan' = Fetch(lister, scan)
      /\ UNCHANGED <<stores, args, lister, visited, emitted, phase, walked, history>>
  BY SoundFetchKeys DEF FetchKeys, InOrder, Sound, TypeOK
<1>2. Len(scan.keys) < lister.limit
  BY <1>1 DEF Sound, ScanCurrent
<1>3. /\ scan' \in Loop /\ scan'.keys = scan.keys
      /\ scan'.next_start_after = scan.next_start_after
      /\ scan'.lower = scan.lower /\ scan'.lower_open = scan.lower_open
      /\ Ascending(scan'.fetched)
      /\ \A k \in ToSet(scan'.fetched) : InRange(k, scan.lower, scan.lower_open, None)
  <2> DEFINE upper == prefix_upper_bound(lister.prefix)
             s == InRangeNow(scan.lower, scan.lower_open, upper)
             t == Fetch(lister, scan)
  <2>1. \/ t = Break(scan)
        \/ /\ t \in Loop /\ t.keys = scan.keys /\ t.next_start_after = scan.next_start_after
           /\ t.lower = scan.lower /\ t.lower_open = scan.lower_open
           /\ t.fetched \in Seq(s) /\ Ascending(t.fetched)
    BY <1>1, <1>2, FetchIs
  <2>2. \A k \in s : InRange(k, scan.lower, scan.lower_open, None)
    BY DEF InRangeNow, InRange
  <2> HIDE DEF s, t
  <2>3. CASE t = Break(scan)
    BY <1>1, <2>3, BreakIs, EmptyHas DEF t
  <2>4. CASE /\ t \in Loop /\ t.keys = scan.keys /\ t.next_start_after = scan.next_start_after
             /\ t.lower = scan.lower /\ t.lower_open = scan.lower_open
             /\ t.fetched \in Seq(s) /\ Ascending(t.fetched)
    <3>1. ToSet(t.fetched) \subseteq s
      BY <2>4, ElementsOf
    <3> QED BY <1>1, <2>2, <2>4, <3>1 DEF t
  <2> QED BY <2>1, <2>3, <2>4
<1>4. /\ args' = args /\ lister' = lister /\ visited' = visited /\ emitted' = emitted
      /\ walked' = walked
  BY <1>1
<1>5. \A k : (After(k)' <=> After(k)) /\ (Passed(scan, k)' <=> Passed(scan, k))
              /\ (Reach(scan, k)' <=> Reach(scan, k))
  BY <1>3, <1>4 DEF After, Returned, Paths, Passed, Reach, Within
<1>6. ScanAhead'
  BY <1>1, <1>3, <1>4, <1>5 DEF InOrder, ScanAhead
<1>7. scan' # None
  BY <1>3, NamesAreKeys
<1> QED BY <1>1, <1>6, <1>7, OrderScan

\* Behind the key at hand, and behind a directory that is skipped, comes what
\* has not been passed.
LEMMA OrderScanKey == InOrder /\ ScanKey => InOrder'
<1> SUFFICES ASSUME InOrder, ScanKey PROVE InOrder'
  OBVIOUS
<1> DEFINE key == Head(scan.fetched)
<1>1. /\ scan \in Loop /\ lister \in Lister /\ scan.fetched # <<>> /\ ~scan.over
      /\ scan.keys \in Seq(Names) /\ scan.fetched \in Seq(Names)
      /\ key \in ToSet(scan.fetched) /\ key \in Names /\ key \in Key
      /\ Len(scan.keys) < lister.limit
      /\ UNCHANGED <<stores, args, lister, visited, emitted, phase, walked, history>>
  BY AtHand DEF InOrder
<1>2. /\ scan.lower \in Key /\ scan.keys \in Seq(Key) /\ scan.fetched \in Seq(Key)
      /\ ToSet(scan.keys) \subseteq Key /\ Names \subseteq Key
  <2>1. scan.lower \in Key /\ Names \subseteq Key
    BY <1>1, NamesAreKeys DEF Loop
  <2>2. scan.keys \in Seq(Key) /\ scan.fetched \in Seq(Key)
    BY <1>1, <2>1, SeqMonotonic
  <2> QED BY <2>1, <2>2, ElementsOf
<1>3. /\ args' = args /\ lister' = lister /\ visited' = visited /\ emitted' = emitted
      /\ walked' = walked /\ scan # None
  BY <1>1, NamesAreKeys
<1>4. /\ Sound /\ Sound' /\ Ascending(scan.keys) /\ Ascending(scan.fetched)
      /\ \A k \in ToSet(scan.keys) : After(k) /\ Passed(scan, k)
      /\ InRange(key, scan.lower, scan.lower_open, None)
      /\ \A k \in Names : Reach(scan, k) => After(k)
  BY <1>1, <1>3, SoundScanKey DEF InOrder, ScanAhead
<1>5. \A k : After(k)' <=> After(k)
  BY <1>3 DEF After, Returned, Paths
<1>6. \A k : (Within(k)' <=> Within(k)) /\ (Skipped(lister', k) <=> Skipped(lister, k))
  BY <1>3 DEF Within
\* A key that is passed is before the key at hand.
<1>7. \A k \in ToSet(scan.keys) : idb_less(k, key)
  <2> TAKE k \in ToSet(scan.keys)
  <2>1. Passed(scan, k) /\ k \in Key
    BY <1>2, <1>4
  <2>2. /\ idb_leq(scan.lower, key) /\ (scan.lower_open => key # scan.lower)
        /\ idb_leq(k, scan.lower) /\ (k = scan.lower => scan.lower_open)
    BY <1>4, <2>1 DEF Passed, InRange
  <2> HIDE DEF key
  <2> QED BY <1>1, <1>2, <2>1, <2>2, IdbOrder
\* A range behind a key of the range is a part of it.
<1>8. ASSUME NEW k \in Names, idb_less(key, k)
      PROVE  InRange(k, scan.lower, scan.lower_open, None)
  <2>1. idb_leq(scan.lower, key) /\ k \in Key
    BY <1>2, <1>4 DEF InRange
  <2>2. idb_less(scan.lower, k)
    <3> HIDE DEF key
    <3> QED BY <1>1, <1>2, <1>8, <2>1, IdbOrder
  <2>3. k # scan.lower
    BY <1>2, <2>2, IdbIrreflexive
  <2> QED BY <2>2, <2>3 DEF InRange, idb_leq
<1>9. ASSUME scan' \in Loop, scan'.keys = scan.keys,
             Ascending(scan'.fetched),
             \A k \in ToSet(scan'.keys) : Passed(scan', k),
             \A k \in ToSet(scan'.fetched) : InRange(k, scan'.lower, scan'.lower_open, None),
             \A k \in Names : InRange(k, scan'.lower, scan'.lower_open, None) =>
                                InRange(k, scan.lower, scan.lower_open, None)
      PROVE  InOrder'
  <2>1. \A k \in Names : Reach(scan, k)' => After(k)'
    BY <1>4, <1>5, <1>6, <1>9 DEF Reach
  <2>2. Len(scan'.keys) # lister'.limit
    <3>1. Len(scan.keys) \in Nat /\ lister.limit \in Nat
      BY <1>1 DEF Lister
    <3> QED BY <1>1, <1>3, <1>9, <3>1
  <2>3. \A k \in ToSet(scan'.keys) : After(k)' /\ Passed(scan, k)'
    BY <1>4, <1>5, <1>9 DEF Passed
  <2>4. ScanAhead'
    BY <1>4, <1>9, <2>1, <2>2, <2>3 DEF ScanAhead
  <2>5. scan' # None
    BY <1>9, NamesAreKeys
  <2> QED BY <1>1, <1>4, <2>4, <2>5, OrderScan
<1>10. CASE scan' = Break(scan)
  <2>1. /\ scan' \in Loop /\ scan'.keys = scan.keys /\ scan'.fetched = <<>>
        /\ scan'.lower = scan.lower /\ scan'.lower_open = scan.lower_open
    BY <1>1, <1>10, BreakIs
  <2>2. \A k \in ToSet(scan'.keys) : Passed(scan', k)
    BY <1>4, <2>1 DEF Passed
  <2> QED BY <1>9, <2>1, <2>2, EmptyHas
\* The rest of the batch is behind the key at hand.
<1>11. ASSUME scan'.lower = key, scan'.lower_open,
              scan'.fetched = Tail(scan.fetched) \/ scan'.fetched = <<>>
       PROVE  /\ Ascending(scan'.fetched)
              /\ \A k \in ToSet(scan.keys) : Passed(scan', k)
              /\ Passed(scan', key)
              /\ \A k \in ToSet(scan'.fetched) : InRange(k, scan'.lower, scan'.lower_open, None)
              /\ \A k \in Names : InRange(k, scan'.lower, scan'.lower_open, None) =>
                                    InRange(k, scan.lower, scan.lower_open, None)
  <2>1. /\ Ascending(Tail(scan.fetched))
        /\ \A k \in ToSet(Tail(scan.fetched)) : idb_less(key, k)
        /\ ToSet(Tail(scan.fetched)) \subseteq Key
    <3>1. ToSet(Tail(scan.fetched)) \subseteq ToSet(scan.fetched)
      BY <1>1, HeadTailHave
    <3>2. ToSet(scan.fetched) \subseteq Key
      BY <1>2, ElementsOf
    <3> QED BY <1>1, <1>2, <1>4, <3>1, <3>2, AscendingTail
  <2>2. Ascending(scan'.fetched) /\ \A k \in ToSet(scan'.fetched) : idb_less(key, k) /\ k \in Key
    BY <1>11, <2>1, EmptyHas
  <2>3. \A k \in ToSet(scan'.fetched) : k # key
    BY <1>1, <2>2, IdbIrreflexive
  <2>4. \A k \in ToSet(scan'.fetched) : InRange(k, scan'.lower, scan'.lower_open, None)
    BY <1>11, <2>2, <2>3 DEF InRange, idb_leq
  <2>5. \A k \in ToSet(scan.keys) : Passed(scan', k)
    BY <1>7, <1>11 DEF Passed, idb_leq
  <2>6. Passed(scan', key)
    BY <1>11 DEF Passed, idb_leq
  <2>7. \A k \in Names : InRange(k, scan'.lower, scan'.lower_open, None) => idb_less(key, k)
    BY <1>11 DEF InRange, idb_leq
  <2> QED BY <1>8, <2>2, <2>4, <2>5, <2>6, <2>7
<1>12. CASE scan' = Behind(scan)
  <2>1. /\ scan' \in Loop /\ scan'.keys = scan.keys /\ scan'.fetched = Tail(scan.fetched)
        /\ scan'.lower = key /\ scan'.lower_open
    BY <1>1, <1>12, BehindIs
  <2> HIDE DEF key
  <2> QED BY <1>9, <1>11, <2>1
<1>13. CASE Skipped(lister, key) /\ scan' = Skip(lister, scan)
  <2> DEFINE next == prefix_upper_bound(lister.skip_prefix)
             stop == next = None \/ str_leq(next, scan.lower)
  <2>1. lister.skip_prefix # None /\ lister.skip_prefix \in Key /\ starts_with(key, lister.skip_prefix)
    BY <1>1, <1>13 DEF Skipped, Lister
  <2>2. /\ scan' \in Loop /\ scan'.keys = scan.keys /\ scan'.fetched = <<>>
        /\ stop => scan'.lower = scan.lower /\ scan'.lower_open = scan.lower_open
        /\ ~stop => next # None /\ scan'.lower = next /\ scan'.lower_open = FALSE
    BY <1>1, <1>13, <2>1, SkipIs
  <2>3. CASE stop
    <3>1. \A k \in ToSet(scan'.keys) : Passed(scan', k)
      BY <1>4, <2>2, <2>3 DEF Passed
    <3> HIDE DEF stop
    <3> QED BY <1>9, <2>2, <2>3, <3>1, EmptyHas
  <2>4. CASE ~stop
    <3>1. idb_less(key, next) /\ next \in Key
      <4>1. InRange(key, lister.skip_prefix, FALSE, next)
        BY <1>1, <2>1, <2>2, <2>4, PrefixRange
      <4>2. next \in Key
        BY <2>1, <2>2, <2>4, UpperBound
      <4> QED BY <2>2, <2>4, <4>1, <4>2 DEF InRange
    <3> HIDE DEF next, stop, key
    <3>2. \A k \in ToSet(scan.keys) : idb_less(k, next) /\ k # next
      BY <1>1, <1>2, <1>7, <3>1, IdbOrder
    <3>3. \A k \in ToSet(scan'.keys) : Passed(scan', k)
      BY <2>2, <2>4, <3>2 DEF Passed, idb_leq
    <3>4. ASSUME NEW k \in Names, InRange(k, scan'.lower, scan'.lower_open, None)
          PROVE  InRange(k, scan.lower, scan.lower_open, None)
      <4>1. idb_leq(next, k) /\ k \in Key
        BY <1>2, <2>2, <2>4, <3>4 DEF InRange
      <4>2. idb_less(key, k)
        BY <1>1, <3>1, <4>1, IdbOrder
      <4> QED BY <1>8, <4>2
    <3> QED BY <1>9, <2>2, <3>3, <3>4, EmptyHas
  <2> QED BY <2>3, <2>4
<1>14. CASE /\ starts_with(key, lister.prefix) /\ ~PassedOver(lister, key) /\ ~Skipped(lister, key)
            /\ scan' = Keep(lister, scan)
  <2>1. /\ scan' \in Loop /\ scan'.keys = Append(scan.keys, key)
        /\ scan'.next_start_after = key
        /\ scan'.lower = key /\ scan'.lower_open
        /\ scan'.fetched = Tail(scan.fetched) \/ scan'.fetched = <<>>
    BY <1>1, <1>14, KeepIs
  <2>2. ToSet(scan'.keys) = ToSet(scan.keys) \cup {key} /\ Last(scan'.keys) = key
    BY <1>1, <2>1, AppendHas
  <2>3. Ascending(scan'.keys)
    BY <1>1, <1>2, <1>4, <1>7, <2>1, AscendingAppend
  <2>4. After(key)
    <3>1. Within(key)
      BY <1>1, <1>14 DEF Within, PassedOver, InOrder, Sound, ListerServes
    <3> QED BY <1>1, <1>4, <1>14, <3>1 DEF Reach
  <2> HIDE DEF key
  <2>5. \A k \in ToSet(scan'.keys) : After(k)' /\ Passed(scan, k)'
    BY <1>4, <1>5, <1>11, <2>1, <2>2, <2>4 DEF Passed
  <2>6. \A k \in Names : Reach(scan, k)' => After(k)'
    BY <1>4, <1>5, <1>6, <1>11, <2>1 DEF Reach
  <2>7. ScanAhead'
    BY <1>11, <2>1, <2>2, <2>3, <2>5, <2>6 DEF ScanAhead
  <2>8. scan' # None
    BY <2>1, NamesAreKeys
  <2> QED BY <1>1, <1>4, <2>7, <2>8, OrderScan
<1> QED BY <1>4, <1>10, <1>12, <1>13, <1>14, ScanKeyCases

\* Behind a page comes what is behind its last key.
LEMMA OrderFetchPage == InOrder /\ FetchPage => InOrder'
<1> SUFFICES ASSUME InOrder, FetchPage PROVE InOrder'
  OBVIOUS
<1>1. /\ scan \in Loop /\ lister \in Lister /\ scan # None /\ scan' = None
      /\ lister' \in Lister /\ lister'.prefix = lister.prefix
      /\ lister'.skip_prefix = lister.skip_prefix
      /\ lister'.start_after = scan.next_start_after
      /\ lister'.done <=> lister.limit = 0 \/ Len(scan.keys) < lister.limit
      /\ Paths(lister'.buffer) = scan.keys
      /\ \A b \in ToSet(lister'.buffer) : b.path \in ToSet(scan.keys)
  BY PageOfIs DEF InOrder
<1>2. /\ args' = args /\ visited' = visited /\ emitted' = emitted
      /\ walked' = walked /\ data' = data
  BY DEF FetchPage, stores
<1>3. Sound /\ Sound'
  BY SoundFetchPage DEF InOrder
<1>4. /\ Ascending(scan.keys) /\ \A k \in ToSet(scan.keys) : After(k)
      /\ scan.keys # <<>> /\ Len(scan.keys) = lister.limit =>
           scan.next_start_after = Last(scan.keys)
  BY <1>1 DEF InOrder, ScanAhead
<1>5. /\ \A k \in ToSet(scan.keys) : Within(k)
      /\ Len(scan.keys) <= lister.limit /\ lister.prefix = args.prefix
  BY <1>1, <1>3 DEF Sound, ScanCurrent, ListerServes
<1>6. \A k : After(k)' <=> After(k)
  BY <1>2 DEF After, Returned, Paths
<1>7. \A b \in ToSet(lister'.buffer) : After(b.path)'
  BY <1>1, <1>4, <1>6
<1>8. ASSUME ~lister'.done, NEW k \in Names, Reach(ScanOf(lister), k)'
      PROVE  After(k)' /\ \A b \in ToSet(lister'.buffer) : idb_less(b.path, k)
  <2> DEFINE l == Last(scan.keys)
             s == ScanOf(lister')
  <2>1. scan.keys # <<>> /\ Len(scan.keys) = lister.limit
    <3>1. Len(scan.keys) \in Nat /\ lister.limit \in Nat
      BY <1>1 DEF Loop, Lister
    <3>2. lister.limit # 0 /\ ~(Len(scan.keys) < lister.limit)
      BY <1>1, <1>8
    <3>3. Len(scan.keys) = lister.limit /\ Len(scan.keys) # 0
      BY <1>5, <3>1, <3>2
    <3> QED BY <3>3
  <2>2. scan.keys \in Seq(Key) /\ ToSet(scan.keys) \subseteq Key
    <3>1. scan.keys \in Seq(Key)
      BY <1>1, NamesAreKeys, SeqMonotonic DEF Loop
    <3> QED BY <3>1, ElementsOf
  <2>3. l \in ToSet(scan.keys) /\ l \in Key
    BY <2>1, <2>2, LastIs
  <2>4. lister'.start_after = l /\ l # None /\ str_leq(lister'.prefix, l)
    <3>1. starts_with(l, lister.prefix) /\ lister.prefix \in Key
      BY <1>1, <1>5, <2>3 DEF Within, Lister
    <3> QED BY <1>1, <1>4, <2>1, <2>3, <3>1, NoneAssumption, PrefixFirst
  <2>5. s.lower = l /\ s.lower_open
    BY <1>1, <2>4, ScanOfIs
  <2>6. InRange(k, s.lower, s.lower_open, None) /\ k \in Key
    BY <1>8, NamesAreKeys DEF Reach
  <2> HIDE DEF l, s
  <2>7. idb_less(l, k)
    BY <2>5, <2>6 DEF InRange, idb_leq
  <2>8. After(k)
    BY <1>3, <1>4, <2>3, <2>6, <2>7, AfterBehind
  <2>9. \A m \in ToSet(scan.keys) : idb_less(m, k)
    <3>1. \A m \in ToSet(scan.keys) : idb_leq(m, l) /\ m \in Key
      BY <1>4, <2>1, <2>2, AscendingLast DEF l
    <3> QED BY <2>3, <2>6, <2>7, <3>1, IdbOrder
  <2> QED BY <1>1, <1>6, <2>8, <2>9
<1>9. BufferAhead'
  BY <1>1, <1>4, <1>7, <1>8 DEF BufferAhead
<1>10. Ascending(Returned)' /\ ShownAsIs' /\ ScanAhead'
  BY <1>1, <1>2 DEF InOrder, Returned, Paths, ShownAsIs, ScanAhead
<1> QED BY <1>3, <1>9, <1>10 DEF InOrder

\* A directory is returned once: the keys in it are dropped from then on.
LEMMA OrderEmit == InOrder /\ Emit => InOrder'
<1> SUFFICES ASSUME InOrder, Emit PROVE InOrder'
  OBVIOUS
<1> DEFINE entry == Head(lister.buffer)
           path  == Shown(args, entry.path)
           new   == IF path # entry.path THEN [path |-> path, info |-> "folded"] ELSE entry
<1>1. /\ phase = "listing" /\ lister \in Lister /\ lister.buffer # <<>> /\ scan = None
      /\ entry \in ToSet(lister.buffer)
      /\ entry.path \in Key /\ path \in Key /\ new \in Entry /\ new.path = path
      /\ lister' = [lister EXCEPT !.buffer = Tail(lister.buffer)] /\ lister' \in Lister
      /\ lister'.buffer = Tail(lister.buffer)
      /\ ToSet(lister.buffer) = {entry} \cup ToSet(Tail(lister.buffer))
      /\ \/ path \in visited /\ UNCHANGED <<emitted, visited>>
         \/ /\ path \notin visited /\ emitted' = Append(emitted, new)
            /\ visited' = IF ~args.recursive /\ ends_with_slash(path)
                          THEN visited \cup {path} ELSE visited
  BY EmitIs DEF InOrder
<1>2. /\ args' = args /\ scan' = scan /\ phase' = phase /\ walked' = walked
      /\ Sound /\ Sound' /\ args \in Request
  BY SoundEmit DEF Emit, InOrder, Sound, TypeOK
<1>3. /\ lister'.prefix = lister.prefix /\ lister'.skip_prefix = lister.skip_prefix
      /\ lister'.start_after = lister.start_after /\ lister'.limit = lister.limit
      /\ lister'.done = lister.done
  BY <1>1 DEF Lister
<1>4. /\ Ascending(Returned) /\ ShownAsIs /\ Ascending(Paths(lister.buffer))
      /\ \A b \in ToSet(lister.buffer) : After(b.path)
      /\ ~lister.done =>
           \A k \in Names : Reach(ScanOf(lister), k) =>
             After(k) /\ \A b \in ToSet(lister.buffer) : idb_less(b.path, k)
  BY <1>1 DEF InOrder, BufferAhead
<1>5. Returned \in Seq(Key) /\ walked \in Seq(Key) /\ Paths(emitted) \in Seq(Key) /\ emitted \in Seq(Entry)
  BY <1>2, ReturnedAre
<1>6. \A k : Reach(ScanOf(lister), k)' <=> Reach(ScanOf(lister), k)
  BY <1>2, <1>3 DEF Reach, ScanOf, Within, Skipped
\* The rest of the buffer comes behind the entry.
<1>7. /\ Ascending(Paths(lister'.buffer))
      /\ \A b \in ToSet(lister'.buffer) : idb_less(entry.path, b.path) /\ b.path \in Key
  <2> DEFINE s == lister.buffer
  <2>1. s \in Seq(Entry) /\ s # <<>> /\ Tail(s) \in Seq(Entry)
    BY <1>1 DEF Lister
  <2>2. /\ Len(s) \in Nat \ {0} /\ Head(s) = s[1]
        /\ Len(Tail(s)) = Len(s) - 1 /\ DOMAIN Tail(s) = 1..(Len(s) - 1)
        /\ \A i \in 1..(Len(s) - 1) : Tail(s)[i] = s[i + 1]
    BY <2>1, HeadTailProperties
  <2>3. /\ Len(Paths(s)) = Len(s) /\ \A i \in 1..Len(s) : Paths(s)[i] = s[i].path
        /\ Len(Paths(Tail(s))) = Len(s) - 1
        /\ \A i \in 1..(Len(s) - 1) : Paths(Tail(s))[i] = Tail(s)[i].path
    BY <2>1, <2>2, PathsOf
  <2>4. \A i, j \in 1..Len(s) : i < j => idb_less(s[i].path, s[j].path)
    BY <1>4, <2>3 DEF Ascending
  <2>5. \A i \in 1..(Len(s) - 1) : idb_less(s[1].path, Tail(s)[i].path)
    <3> TAKE i \in 1..(Len(s) - 1)
    <3>1. 1 \in 1..Len(s) /\ i + 1 \in 1..Len(s) /\ 1 < i + 1
      BY <2>2
    <3> QED BY <2>2, <2>4, <3>1
  <2>6. \A i, j \in 1..(Len(s) - 1) : i < j => idb_less(Paths(Tail(s))[i], Paths(Tail(s))[j])
    <3> SUFFICES ASSUME NEW i \in 1..(Len(s) - 1), NEW j \in 1..(Len(s) - 1), i < j
                 PROVE  idb_less(Paths(Tail(s))[i], Paths(Tail(s))[j])
      OBVIOUS
    <3>1. i + 1 \in 1..Len(s) /\ j + 1 \in 1..Len(s) /\ i + 1 < j + 1
      BY <2>2
    <3> QED BY <2>2, <2>3, <2>4, <3>1
  <2>7. \A b \in ToSet(Tail(s)) : b.path \in Key
    <3>1. ToSet(Tail(s)) \subseteq Entry
      BY <2>1, ElementsOf
    <3> QED BY <3>1 DEF Entry
  <2>8. \A b \in ToSet(Tail(s)) : idb_less(Head(s).path, b.path)
    BY <2>2, <2>5 DEF ToSet
  <2> QED BY <1>1, <2>3, <2>6, <2>7, <2>8 DEF Ascending
<1>8. ToSet(lister'.buffer) \subseteq ToSet(lister.buffer) /\ After(entry.path)
  BY <1>1, <1>4
<1> HIDE DEF entry, path, new
\* What was to come behind the entry is still to come.
<1>9. ASSUME \A k \in Key : After(k) /\ idb_less(entry.path, k) => After(k)',
             Ascending(Returned)', ShownAsIs'
      PROVE  InOrder'
  <2>1. \A b \in ToSet(lister'.buffer) : After(b.path)'
    BY <1>4, <1>7, <1>8, <1>9
  <2>2. ASSUME ~lister'.done, NEW k \in Names, Reach(ScanOf(lister), k)'
        PROVE  After(k)' /\ \A b \in ToSet(lister'.buffer) : idb_less(b.path, k)
    <3>1. Reach(ScanOf(lister), k) /\ ~lister.done /\ k \in Key
      BY <1>3, <1>6, <2>2, NamesAreKeys
    <3>2. After(k) /\ \A b \in ToSet(lister.buffer) : idb_less(b.path, k)
      BY <1>4, <3>1
    <3> QED BY <1>1, <1>8, <1>9, <3>1, <3>2
  <2>3. BufferAhead'
    BY <1>7, <2>1, <2>2 DEF BufferAhead
  <2>4. ScanAhead'
    BY <1>1, <1>2 DEF ScanAhead
  <2> QED BY <1>2, <1>9, <2>3, <2>4 DEF InOrder
<1>10. CASE UNCHANGED <<emitted, visited>>
  <2>1. \A k : After(k)' <=> After(k)
    BY <1>2, <1>10 DEF After, Returned, Paths
  <2>2. Ascending(Returned)' /\ ShownAsIs'
    BY <1>2, <1>4, <1>10 DEF Returned, Paths, ShownAsIs
  <2> QED BY <1>9, <2>1, <2>2
<1>11. CASE /\ path \notin visited /\ emitted' = Append(emitted, new)
            /\ visited' = IF ~args.recursive /\ ends_with_slash(path)
                          THEN visited \cup {path} ELSE visited
  <2>1. Returned' = Append(Returned, path)
    <3>1. Paths(emitted)' = Append(Paths(emitted), path)
      BY <1>1, <1>5, <1>11, PathsAppended DEF Paths
    <3>2. walked \o Append(Paths(emitted), path) = Append(walked \o Paths(emitted), path)
      <4> DEFINE v == Paths(emitted)
      <4>1. v \in Seq(Key)
        BY <1>5
      <4> HIDE DEF v
      <4>2. walked \o Append(v, path) = Append(walked \o v, path)
        BY <1>1, <1>5, <4>1, AppendToBoth
      <4> QED BY <4>2 DEF v
    <3> QED BY <1>2, <3>1, <3>2 DEF Returned
  <2>2. ToSet(Returned)' = ToSet(Returned) \cup {path}
    BY <1>1, <1>5, <2>1, AppendHas
  <2>3. \A p \in ToSet(Returned) : idb_less(p, path)
    <3> TAKE p \in ToSet(Returned)
    <3>1. idb_leq(p, path) /\ (p = path => p \in visited)
      BY <1>8 DEF After, path
    <3> QED BY <1>11, <3>1 DEF idb_leq
  <2>4. Ascending(Returned)'
    BY <1>1, <1>4, <1>5, <2>1, <2>3, AscendingAppend
  <2>5. ShownAsIs'
    <3>1. ToSet(emitted') = ToSet(emitted) \cup {new}
      BY <1>1, <1>5, <1>11, AppendHas
    <3>2. Shown(args, new.path) = new.path
      BY <1>1, <1>2, ShownTwice DEF path
    <3> QED BY <1>2, <1>4, <3>1, <3>2 DEF ShownAsIs
  <2>6. ASSUME NEW k \in Key, After(k), idb_less(entry.path, k)
        PROVE  After(k)'
    <3>1. /\ idb_leq(path, Shown(args, k))
          /\ path = Shown(args, k) => ~args.recursive /\ ends_with_slash(path)
      BY <1>1, <1>2, <2>6, ShownInOrder DEF path
    <3>2. visited \subseteq visited' /\ (path = Shown(args, k) => path \in visited')
      BY <1>11, <3>1
    <3>3. \A p \in ToSet(Returned) :
            idb_leq(p, Shown(args, k)) /\ (p = Shown(args, k) => p \in visited)
      BY <2>6 DEF After
    <3>4. \A p \in ToSet(Returned)' :
            idb_leq(p, Shown(args, k)) /\ (p = Shown(args, k) => p \in visited')
      BY <2>2, <3>1, <3>2, <3>3
    <3> QED BY <1>2, <3>4 DEF After
  <2> QED BY <1>9, <2>4, <2>5, <2>6
<1> QED BY <1>1, <1>10, <1>11

LEMMA OrderEnd == InOrder /\ End => InOrder'
<1> SUFFICES ASSUME InOrder, End PROVE InOrder'
  OBVIOUS
<1>1. /\ args' = args /\ emitted' = emitted /\ scan' = scan /\ walked' = walked
      /\ phase' = "ended" /\ Sound'
  BY SoundEnd DEF End, InOrder
<1>2. scan = None
  BY DEF End, InOrder, Sound, ScanCurrent
<1> QED BY <1>1, <1>2 DEF InOrder, Returned, Paths, ShownAsIs, BufferAhead, ScanAhead

\* None of this is about the stores.
LEMMA OrderOthers == InOrder /\ Others => InOrder'
<1> SUFFICES ASSUME InOrder, Others PROVE InOrder'
  OBVIOUS
<1>1. PICK K, M \in SUBSET Names : Becomes(K, M)
  BY OthersBecome DEF InOrder
<1>2. /\ args' = args /\ lister' = lister /\ scan' = scan /\ visited' = visited
      /\ emitted' = emitted /\ phase' = phase /\ walked' = walked /\ scan = None
  BY <1>1 DEF Becomes, client
<1>3. \A k : (After(k)' <=> After(k)) /\ (Reach(ScanOf(lister), k)' <=> Reach(ScanOf(lister), k))
  BY <1>2 DEF After, Returned, Paths, Reach, Within, ScanOf
<1>4. BufferAhead' /\ ScanAhead'
  BY <1>2, <1>3 DEF InOrder, BufferAhead, Paths, ScanAhead
<1>5. Ascending(Returned)' /\ ShownAsIs'
  BY <1>2 DEF InOrder, Returned, Paths, ShownAsIs
<1> QED BY <1>4, <1>5, SoundOthers DEF InOrder

LEMMA OrderNext == InOrder /\ [Next]_vars => InOrder'
<1> SUFFICES ASSUME InOrder, [Next]_vars PROVE InOrder'
  OBVIOUS
<1>1. CASE \E r \in Requests : List(r)
  BY <1>1, OrderList
<1>2. CASE ListMore
  BY <1>2, OrderListMore
<1>3. CASE OpenScan \/ FetchKeys \/ ScanKey \/ FetchPage
  BY <1>3, OrderOpenScan, OrderFetchKeys, OrderScanKey, OrderFetchPage
<1>4. CASE Emit \/ End
  BY <1>4, OrderEmit, OrderEnd
<1>5. CASE Others
  BY <1>5, OrderOthers
<1>6. CASE UNCHANGED vars
  <2>1. /\ args' = args /\ lister' = lister /\ scan' = scan /\ visited' = visited
        /\ emitted' = emitted /\ phase' = phase /\ walked' = walked
    BY <1>6 DEF vars, client
  <2>2. \A k : (After(k)' <=> After(k)) /\ (Reach(ScanOf(lister), k)' <=> Reach(ScanOf(lister), k))
               /\ (Reach(scan, k)' <=> Reach(scan, k))
    BY <2>1 DEF After, Returned, Paths, Reach, Within, ScanOf
  <2>3. BufferAhead' /\ ScanAhead'
    BY <2>1, <2>2 DEF InOrder, BufferAhead, Paths, ScanAhead, Passed
  <2>4. Ascending(Returned)' /\ ShownAsIs'
    BY <2>1 DEF InOrder, Returned, Paths, ShownAsIs
  <2>5. Sound'
    BY SoundNext DEF InOrder
  <2> QED BY <2>3, <2>4, <2>5 DEF InOrder
<1> QED BY <1>1, <1>2, <1>3, <1>4, <1>5, <1>6 DEF Next, Walker

\* However the two orders of strings disagree, and whatever others write, a
\* walk returns its entries in IndexedDB's order, none of them twice: not at
\* the end of a page, not within a folded directory, not when a listing
\* resumes (HierarchyLister's `visited`, skip_prefix, next_start_after).
THEOREM WalksInOrder == Spec => []WalkInOrder
<1>1. InOrder => WalkInOrder
  <2> SUFFICES ASSUME InOrder PROVE WalkInOrder
    OBVIOUS
  <2>1. Returned \in Seq(Key) /\ Ascending(Returned)
    BY ReturnedAre DEF InOrder
  <2>2. DOMAIN Returned = 1..Len(Returned)
    BY <2>1
  <2> QED BY <2>1, <2>2 DEF WalkInOrder, Ascending, Returned
<1> QED BY <1>1, OrderInit, OrderNext, PTL DEF Spec
---------------------------------------------------------------------------
(***************************************************************************)
(* Nothing is left out.  That holds of keys on whose order the backend and *)
(* IndexedDB agree, for requests whose pages are not empty and that do not *)
(* resume at the listed directory or above it.                             *)
(***************************************************************************)
\* The orders disagree on the code points that UTF-16 writes with surrogates
\* and those above the surrogates, so on no string that has only one kind.
FirstSurrogate == 55296
FirstPaired == 65536
Unpaired == {x \in CodePoint : x < FirstPaired}
Paired == {x \in CodePoint : x < FirstSurrogate \/ x >= FirstPaired}

Over(letters) ==
  /\ Names \subseteq Seq(letters)
  /\ \A r \in Requests : r.prefix \in Seq(letters) /\ r.start_after \in Seq(letters) \cup {None}

\* The hypotheses of the theorems.
OrdersAgree == Over(Unpaired) \/ Over(Paired)
Advances(r) == list_page_size(r.limit) # 0 /\ ~ResumesAtItself(r)
AllAdvance == \A r \in Requests : Advances(r)

Basic == IF Over(Unpaired) THEN Unpaired ELSE Paired
BasicKey == Seq(Basic)

Regular(r) ==
  /\ r.prefix \in BasicKey /\ r.start_after \in BasicKey \cup {None}
  /\ Advances(r)

\* What they come to.
AllRegular == Names \subseteq BasicKey /\ \A r \in Requests : Regular(r)

LEMMA AreRegular == OrdersAgree /\ AllAdvance => AllRegular
<1> SUFFICES ASSUME OrdersAgree, AllAdvance PROVE AllRegular
  OBVIOUS
<1>1. Over(Basic)
  <2>1. CASE Over(Unpaired)
    BY <2>1 DEF Basic
  <2>2. CASE ~Over(Unpaired)
    <3>1. Over(Paired) /\ Basic = Paired
      BY <2>2 DEF Basic, OrdersAgree
    <3> QED BY <3>1
  <2> QED BY <2>1, <2>2
<1> QED BY <1>1 DEF Over, AllRegular, Regular, AllAdvance, BasicKey

LEMMA RankOfUnpaired ==
  ASSUME NEW x \in Int, NEW y \in Int, 0 <= x, x < y, y < FirstPaired
  PROVE  utf16_rank(x) < utf16_rank(y)
BY SMT DEF utf16_rank, FirstPaired

LEMMA RankOfPaired ==
  ASSUME NEW x \in Int, NEW y \in Int, 0 <= x, x < y,
         x < FirstSurrogate \/ x >= FirstPaired, y < FirstSurrogate \/ y >= FirstPaired
  PROVE  utf16_rank(x) < utf16_rank(y)
BY SMT DEF utf16_rank, FirstSurrogate, FirstPaired

LEMMA BasicAgree ==
  ASSUME NEW x \in Basic, NEW y \in Basic, x < y
  PROVE  utf16_rank(x) < utf16_rank(y)
<1>1. CASE Basic = Unpaired
  <2>1. x \in CodePoint /\ y \in CodePoint /\ y < FirstPaired
    BY <1>1 DEF Unpaired
  <2> QED BY <2>1, CodePoints, RankOfUnpaired
<1>2. CASE Basic = Paired
  <2>1. /\ x \in CodePoint /\ (x < FirstSurrogate \/ x >= FirstPaired)
        /\ y \in CodePoint /\ (y < FirstSurrogate \/ y >= FirstPaired)
    BY <1>2 DEF Paired
  <2> QED BY <2>1, CodePoints, RankOfPaired
<1> QED BY <1>1, <1>2 DEF Basic

\* The bound of a string has its letters: the last ones of either kind are
\* among those that have no successor.
LEMMA BasicSuccessor ==
  ASSUME NEW x \in Basic, ~no_successor(x)
  PROVE  x + 1 \in Basic
<1>1. x \in CodePoint
  BY DEF Basic, Unpaired, Paired
<1>2. x \in Int /\ 0 <= x
  BY <1>1, CodePoints
<1>3. x + 1 \in CodePoint
  BY <1>1, Successor
<1>4. x < FirstPaired => x + 1 < FirstPaired
  BY <1>2, SMT DEF no_successor, FirstPaired
<1>5. x < FirstSurrogate => x + 1 < FirstSurrogate
  BY <1>2, SMT DEF no_successor, FirstSurrogate
<1>6. x >= FirstPaired => x + 1 >= FirstPaired
  BY <1>2, SMT DEF FirstPaired
<1>7. Basic = Unpaired \/ Basic = Paired
  BY DEF Basic
<1> QED BY <1>3, <1>4, <1>5, <1>6, <1>7 DEF Unpaired, Paired

LEMMA SequenceOf ==
  ASSUME NEW T, NEW n \in Nat, NEW s \in [1..n -> T]
  PROVE  s \in Seq(T)
OBVIOUS

LEMMA BasicLetters ==
  ASSUME NEW k \in BasicKey
  PROVE  /\ k \in Key /\ Len(k) \in Nat
         /\ \A i \in 1..Len(k) : k[i] \in Basic
<1>1. Basic \subseteq CodePoint
  BY DEF Basic, Unpaired, Paired
<1>2. k \in Key
  BY <1>1, SeqMonotonic DEF BasicKey, Key
<1> QED BY <1>2 DEF BasicKey

\* The two orders agree on them.
LEMMA BasicOrder ==
  ASSUME NEW s \in BasicKey, NEW t \in BasicKey, str_leq(s, t)
  PROVE  idb_leq(s, t)
<1>1. CASE s = t
  BY <1>1 DEF idb_leq
<1>2. CASE s # t
  <2>1. PICK i \in 1..Len(t) :
          /\ i <= Len(s) + 1
          /\ \A j \in 1..(i - 1) : s[j] = t[j]
          /\ i = Len(s) + 1 \/ s[i] < t[i]
    BY <1>2 DEF str_leq, str_less, Precedes, utf8_rank
  <2>2. i # Len(s) + 1 => i \in 1..Len(s)
    BY <2>1, BasicLetters
  <2>3. i = Len(s) + 1 \/ utf16_rank(s[i]) < utf16_rank(t[i])
    BY <2>1, <2>2, BasicLetters, BasicAgree
  <2> QED BY <2>1, <2>3 DEF idb_leq, idb_less, Precedes
<1> QED BY <1>1, <1>2

LEMMA BasicParts ==
  ASSUME NEW k \in BasicKey, NEW p \in Key, starts_with(k, p)
  PROVE  p \in BasicKey
<1>1. Len(p) \in Nat /\ p \in [1..Len(p) -> CodePoint]
  BY Letters DEF Key
<1>2. Len(p) <= Len(k) /\ \A i \in 1..Len(p) : p[i] = k[i]
  BY DEF starts_with
<1>3. \A i \in 1..Len(p) : p[i] \in Basic
  BY <1>1, <1>2, BasicLetters
<1>4. p \in [1..Len(p) -> Basic]
  BY <1>1, <1>3
<1> QED BY <1>1, <1>4, SequenceOf DEF BasicKey

LEMMA BasicBound ==
  ASSUME NEW p \in BasicKey
  PROVE  prefix_upper_bound(p) \in BasicKey \cup {None}
<1> DEFINE u == prefix_upper_bound(p)
<1>1. CASE u = None
  BY <1>1
<1>2. CASE u # None
  <2>1. p \in Key
    BY BasicLetters
  <2>2. /\ Len(p) \in Nat \ {0} /\ ~no_successor(p[Len(p)]) /\ u \in Key /\ Len(u) = Len(p)
        /\ \A i \in 1..(Len(p) - 1) : u[i] = p[i]
        /\ u[Len(p)] = p[Len(p)] + 1
    BY <1>2, <2>1, Bound
  <2>3. p[Len(p)] \in Basic
    BY <2>2, BasicLetters
  <2>4. p[Len(p)] + 1 \in Basic
    BY <2>2, <2>3, BasicSuccessor
  <2> HIDE DEF u
  <2>5. ASSUME NEW i \in 1..Len(u)
        PROVE  u[i] \in Basic
    <3>1. CASE i = Len(p)
      BY <2>2, <2>4, <3>1
    <3>2. CASE i # Len(p)
      <4>1. i \in 1..(Len(p) - 1) /\ i \in 1..Len(p)
        BY <2>2, <3>2
      <4> QED BY <2>2, <4>1, BasicLetters
    <3> QED BY <3>1, <3>2
  <2>6. u \in [1..Len(u) -> Basic] /\ Len(u) \in Nat
    <3>1. u \in [1..Len(u) -> CodePoint]
      BY <2>2 DEF Key
    <3> QED BY <2>2, <2>5, <3>1
  <2>7. u \in BasicKey
    BY <2>6, SequenceOf DEF BasicKey
  <2> QED BY <2>7 DEF u
<1> QED BY <1>1, <1>2

\* The rest of a batch.
LEMMA RestOfBatch ==
  ASSUME NEW s \in Seq(Key), s # <<>>, Ascending(s), NEW k \in Key,
         k \in ToSet(s) \/ idb_less(Last(s), k)
  PROVE  /\ idb_leq(Head(s), k)
         /\ k = Head(s) \/ k \in ToSet(Tail(s)) \/ idb_less(Last(s), k)
         /\ Tail(s) # <<>> => Last(Tail(s)) = Last(s)
<1>1. /\ Head(s) \in ToSet(s) /\ Head(s) \in Key
      /\ Tail(s) \in Seq(Key) /\ ToSet(s) = {Head(s)} \cup ToSet(Tail(s))
      /\ \A e \in ToSet(Tail(s)) : idb_less(Head(s), e)
  BY HeadTailHave, AscendingTail
<1>2. idb_leq(Head(s), Last(s)) /\ Last(s) \in Key
  BY <1>1, AscendingLast, LastIs
<1>3. idb_leq(Head(s), k)
  BY <1>1, <1>2, IdbOrder
<1>4. Tail(s) # <<>> => Last(Tail(s)) = Last(s)
  <2>1. /\ Len(s) \in Nat \ {0} /\ Len(Tail(s)) = Len(s) - 1
        /\ \A i \in 1..(Len(s) - 1) : Tail(s)[i] = s[i + 1]
    BY HeadTailProperties
  <2>2. Tail(s) # <<>> => Len(Tail(s)) # 0
    BY <1>1, EmptySeq
  <2> QED BY <2>1, <2>2 DEF Last
<1> QED BY <1>1, <1>3, <1>4

LEMMA DirectoryHasBound ==
  ASSUME NEW p \in Key, ends_with_slash(p)
  PROVE  prefix_upper_bound(p) # None
<1>1. p # <<>> /\ p[Len(p)] = Slash
  BY DEF ends_with_slash
<1>2. prefix_upper_bound(p) = [p EXCEPT ![Len(p)] = @ + 1]
  BY <1>1, SlashHasSuccessor DEF prefix_upper_bound
<1>3. Subtree(p) = p /\ p # <<>>
  BY <1>1 DEF Subtree
<1> QED BY <1>3, SubtreeBound

\* What a listing owes is not in the directory that it skips.
LEMMA OwedNotSkipped ==
  ASSUME NEW r \in Request, NEW k \in Key, starts_with(k, r.prefix), ~ResumesAtItself(r),
         r.start_after # None, idb_less(r.start_after, Shown(r, k)),
         ~r.recursive, ends_with_slash(r.start_after)
  PROVE  ~starts_with(k, r.start_after)
<1> DEFINE d == r.start_after
           f == Folded(k, r.prefix)
<1> SUFFICES ASSUME starts_with(k, d) PROVE FALSE
  OBVIOUS
<1>1. d \in Key /\ r.prefix \in Key /\ ends_with_slash(d) /\ ~starts_with(r.prefix, d)
  BY DEF Request, ResumesAtItself
<1>2. /\ Len(d) \in Nat /\ Len(k) \in Nat /\ Len(r.prefix) \in Nat
      /\ Len(d) <= Len(k) /\ \A i \in 1..Len(d) : k[i] = d[i]
      /\ Len(r.prefix) <= Len(k) /\ \A i \in 1..Len(r.prefix) : k[i] = r.prefix[i]
  BY <1>1, Letters DEF starts_with
<1>3. Len(r.prefix) < Len(d)
  BY <1>1, <1>2 DEF starts_with
<1>4. Shown(r, k) = f
  BY DEF Shown
<1>5. /\ f \in Key /\ starts_with(k, f)
      /\ f = k \/ IsDirectory(f, r.prefix)
      /\ f = k /\ ~IsDirectory(f, r.prefix) =>
           \A i \in (Len(r.prefix) + 1)..Len(k) : k[i] # Slash
  BY <1>1, FoldCases
<1>6. Len(d) \in (Len(r.prefix) + 1)..Len(k) /\ k[Len(d)] = Slash
  BY <1>1, <1>2, <1>3 DEF ends_with_slash
<1>7. IsDirectory(f, r.prefix)
  BY <1>5, <1>6
<1> HIDE DEF d, f
<1>8. /\ Len(f) \in Nat /\ Len(f) <= Len(k) /\ \A i \in 1..Len(f) : k[i] = f[i]
  BY <1>5, Letters DEF starts_with
<1>9. Len(f) <= Len(d)
  BY <1>2, <1>6, <1>7, <1>8 DEF IsDirectory
<1>10. starts_with(d, f)
  BY <1>2, <1>8, <1>9 DEF starts_with
<1>11. idb_leq(f, d) /\ idb_less(d, f)
  BY <1>1, <1>4, <1>5, <1>10, PrefixFirst DEF d
<1> QED BY <1>1, <1>5, <1>11, IdbOrder

LEMMA InBoth ==
  ASSUME NEW s \in Seq(Key), NEW t \in Seq(Key)
  PROVE  ToSet(s \o t) = ToSet(s) \cup ToSet(t)
<1>1. /\ Len(t) \in Nat /\ Len(s) \in Nat /\ DOMAIN s = 1..Len(s) /\ DOMAIN t = 1..Len(t)
      /\ s \o t \in Seq(Key) /\ DOMAIN (s \o t) = 1..(Len(s) + Len(t))
  BY LenProperties
<1>2. \A i \in 1..Len(s) : i \in 1..(Len(s) + Len(t)) /\ (s \o t)[i] = s[i]
  BY <1>1
<1>3. \A i \in 1..Len(t) : Len(s) + i \in 1..(Len(s) + Len(t)) /\ (s \o t)[Len(s) + i] = t[i]
  BY <1>1
<1>4. ASSUME NEW i \in 1..(Len(s) + Len(t))
      PROVE  i \in 1..Len(s) \/ \E j \in 1..Len(t) : i = Len(s) + j
  <2>1. CASE i <= Len(s)
    BY <1>1, <2>1
  <2>2. CASE ~(i <= Len(s))
    <3>1. i - Len(s) \in 1..Len(t) /\ i = Len(s) + (i - Len(s))
      BY <1>1, <2>2
    <3> QED BY <3>1
  <2> QED BY <2>1, <2>2
<1>5. ToSet(s) \subseteq ToSet(s \o t)
  BY <1>1, <1>2 DEF ToSet
<1>6. ToSet(t) \subseteq ToSet(s \o t)
  BY <1>1, <1>3 DEF ToSet
<1>7. ASSUME NEW x \in ToSet(s \o t)
      PROVE  x \in ToSet(s) \cup ToSet(t)
  <2>1. PICK i \in 1..(Len(s) + Len(t)) : x = (s \o t)[i]
    BY <1>1 DEF ToSet
  <2>2. CASE i \in 1..Len(s)
    <3>1. x = s[i] /\ i \in DOMAIN s
      BY <1>1, <1>2, <2>1, <2>2
    <3> QED BY <3>1 DEF ToSet
  <2>3. CASE \E j \in 1..Len(t) : i = Len(s) + j
    <3>1. PICK j \in 1..Len(t) : i = Len(s) + j
      BY <2>3
    <3>2. x = t[j] /\ j \in DOMAIN t
      BY <1>1, <1>3, <2>1, <3>1
    <3> QED BY <3>2 DEF ToSet
  <2> QED BY <1>4, <2>2, <2>3
<1> QED BY <1>5, <1>6, <1>7

\* What the listing owes, and what will come of a key that was there from its
\* beginning: it is returned, in the buffer, or ahead of the scan.
Owing(k) ==
  Within(k) /\ (args.start_after # None => idb_less(args.start_after, Shown(args, k)))

Ahead(k) == lister.start_after # None => idb_less(lister.start_after, k)

Pending(s, k) ==
  /\ Ahead(k) /\ InRange(k, s.lower, s.lower_open, None)
  /\ \/ s.over /\ Len(s.keys) = lister.limit
     \/ /\ ~s.over
        /\ \/ s.fetched = <<>> \/ k \in ToSet(s.fetched)
           \/ ~s.short /\ idb_less(Last(s.fetched), k)

Coming(k) ==
  \/ k \in ToSet(Paths(lister.buffer))
  \/ scan = None /\ ~lister.done /\ Ahead(k)
  \/ scan # None /\ (k \in ToSet(scan.keys) \/ Pending(scan, k))

Given(k) == Shown(args, k) \in ToSet(Paths(emitted))

Served ==
  phase # "idle" =>
    /\ Regular(args) /\ \E r \in Requests : args.limit = r.limit
    /\ lister.start_after \in BasicKey \cup {None}
    /\ scan # None => /\ scan.lower \in BasicKey /\ idb_leq(args.prefix, scan.lower)
                      /\ scan.next_start_after \in BasicKey \cup {None}

HeldOwed == phase # "idle" => held \subseteq data /\ \A k \in held : Owing(k)
HeldComing == phase = "listing" => \A k \in held : Given(k) \/ Coming(k)
HeldEnded ==
  phase = "ended" =>
    \A k \in held :
      Given(k) \/ (~BelowLimit /\ \A p \in ToSet(Returned) : idb_less(p, Shown(args, k)))
KeptWalked ==
  phase # "idle" =>
    kept \subseteq data
      /\ \A k \in kept : Within(k) /\ (Shown(args, k) \in ToSet(Returned) \/ k \in held)

Complete == InOrder /\ Served /\ HeldOwed /\ HeldComing /\ HeldEnded /\ KeptWalked

\* A key behind start_after is in the range of a scan.
LEMMA AheadInRange ==
  ASSUME NEW L \in Lister, NEW k \in Key, starts_with(k, L.prefix),
         L.start_after # None => idb_less(L.start_after, k)
  PROVE  InRange(k, ScanOf(L).lower, ScanOf(L).lower_open, None)
<1> DEFINE resumes == L.start_after # None /\ str_leq(L.prefix, L.start_after)
           s == ScanOf(L)
<1>1. L.prefix \in Key /\ L.start_after \in Key \cup {None}
  BY DEF Lister
<1>2. s.lower = (IF resumes THEN L.start_after ELSE L.prefix) /\ (s.lower_open <=> resumes)
  BY ScanOfIs
<1>3. idb_leq(L.prefix, k)
  BY <1>1, PrefixFirst
<1>4. CASE resumes
  <2>1. s.lower = L.start_after /\ L.start_after \in Key /\ idb_less(L.start_after, k)
    BY <1>1, <1>2, <1>4
  <2>2. k # s.lower
    BY <2>1, IdbIrreflexive
  <2> QED BY <2>1, <2>2 DEF InRange, idb_leq
<1>5. CASE ~resumes
  BY <1>2, <1>3, <1>5 DEF InRange
<1> QED BY <1>4, <1>5

LEMMA NoneIsNoKey == None \notin BasicKey /\ None \notin Key
BY NoneAssumption, BasicLetters

\* What is owed is not skipped.
LEMMA OwingNotSkipped ==
  ASSUME Complete, phase # "idle", NEW k \in Names, Owing(k)
  PROVE  ~Skipped(lister, k)
<1>1. /\ args \in Request /\ ~ResumesAtItself(args) /\ k \in Key
      /\ lister.skip_prefix = NewLister(args).skip_prefix
  BY NamesAreKeys DEF Complete, InOrder, Sound, TypeOK, ListerServes, Served, Regular, Advances
<1>2. lister.skip_prefix = IF ~args.recursive /\ args.start_after # None /\ ends_with_slash(args.start_after)
                           THEN args.start_after ELSE None
  BY <1>1 DEF NewLister
<1> QED BY <1>1, <1>2, OwedNotSkipped DEF Owing, Within, Skipped

LEMMA CompleteBegin ==
  ASSUME AllRegular, InOrder', Sound, NEW r \in Request, Regular(r),
         \E q \in Requests : r.limit = q.limit, Begin(r), kept' \subseteq data,
         \A k \in kept' : Within(k)' /\ (Shown(r, k) \in ToSet(Returned)' \/ k \in held')
  PROVE  Complete'
<1>1. /\ phase' = "listing" /\ args' = r /\ lister' = NewLister(r) /\ scan' = None
      /\ held' = Owed(r, data) /\ data' = data /\ data \subseteq Names
  BY DEF Begin, stores, Sound, TypeOK
<1>2. /\ lister'.start_after = r.start_after /\ ~lister'.done
  BY <1>1, NewListerIs
<1>3. Served'
  BY <1>1, <1>2 DEF Served, Regular
<1>4. HeldOwed'
  BY <1>1 DEF HeldOwed, Owed, Owing, Within
<1>5. ASSUME NEW k \in held'
      PROVE  Coming(k)'
  <2>1. r.start_after # None => idb_less(r.start_after, Shown(r, k))
    BY <1>1, <1>5 DEF Owed
  <2>2. k \in Key /\ Shown(r, k) \in Key /\ idb_leq(Shown(r, k), k)
    <3>1. k \in Key
      BY <1>1, <1>5, NamesAreKeys DEF Owed
    <3> QED BY <3>1, ShownIs, PrefixFirst
  <2>3. r.start_after # None => idb_less(r.start_after, k)
    <3>1. r.start_after # None => r.start_after \in Key
      BY DEF Request
    <3> QED BY <2>1, <2>2, <3>1, IdbOrder
  <2> QED BY <1>1, <1>2, <2>3 DEF Coming, Ahead
<1>6. HeldComing' /\ HeldEnded'
  BY <1>1, <1>5 DEF HeldComing, HeldEnded
<1>7. KeptWalked'
  BY <1>1 DEF KeptWalked
<1> QED BY <1>3, <1>4, <1>6, <1>7 DEF Complete

LEMMA CompleteInit == Init => Complete
<1> SUFFICES ASSUME Init PROVE Complete
  OBVIOUS
<1>1. phase = "idle"
  BY DEF Init
<1> QED BY <1>1, OrderInit DEF Complete, Served, HeldOwed, HeldComing, HeldEnded, KeptWalked

LEMMA CompleteList ==
  ASSUME AllRegular, Complete, NEW r \in Requests, List(r)
  PROVE  Complete'
<1>1. r \in Request /\ Regular(r) /\ InOrder' /\ Sound
  BY ListingAssumption, OrderList DEF Complete, InOrder, AllRegular
<1>2. /\ Begin(r) /\ kept' = Owed(r, data) /\ data \subseteq Names /\ held' = Owed(r, data)
      /\ args' = r
  BY <1>1 DEF List, Begin, Sound, TypeOK
<1>3. \A k \in kept' : Within(k)' /\ k \in held'
  BY <1>2 DEF Owed, Within
<1>4. kept' \subseteq data
  BY <1>2 DEF Owed
<1> QED BY <1>1, <1>2, <1>3, <1>4, CompleteBegin

\* What a listing has left at its limit, the next one owes.
LEMMA CompleteListMore ==
  ASSUME AllRegular, Complete, ListMore
  PROVE  Complete'
<1> DEFINE e == Last(emitted).path
           r == [args EXCEPT !.start_after = e]
<1>1. /\ InOrder /\ InOrder' /\ Sound /\ Sound' /\ phase = "ended" /\ emitted # <<>> /\ Begin(r)
      /\ kept' = kept /\ walked' = Returned /\ args \in Request
  BY OrderListMore DEF Complete, InOrder, ListMore, Returned, Paths, Sound, TypeOK
<1>2. /\ e \in Key /\ r \in Request /\ starts_with(e, args.prefix)
      /\ e = args.prefix => ~ends_with_slash(e)
      /\ Last(emitted) \in ToSet(emitted)
  BY <1>1, LastEntry
<1>3. /\ r.start_after = e /\ r.prefix = args.prefix /\ r.recursive = args.recursive
      /\ r.limit = args.limit /\ args.prefix \in Key
  BY <1>1 DEF Request
<1>4. /\ args' = r /\ held' = Owed(r, data) /\ data' = data /\ emitted' = <<>>
      /\ \A k : (Within(k)' <=> Within(k)) /\ Shown(r, k) = Shown(args, k)
  <2>1. args' = r /\ held' = Owed(r, data) /\ data' = data /\ emitted' = <<>>
    BY <1>1 DEF Begin, stores
  <2> HIDE DEF r
  <2> QED BY <1>3, <2>1 DEF Within, Shown
<1>5. e \in BasicKey
  <2>1. PICK s \in seen : starts_with(s.path, e)
    <3>1. \A k \in Key : starts_with(k, k)
      BY Letters DEF starts_with
    <3> QED BY <1>1, <1>2, <3>1 DEF Sound, ListSound
  <2>2. s.path \in Names
    BY <1>1, <2>1 DEF Sound, SeenRecorded, Measured
  <2> QED BY <1>2, <2>1, <2>2, BasicParts DEF AllRegular
<1>6. Regular(r) /\ \E q \in Requests : r.limit = q.limit
  <2>1. Regular(args) /\ \E q \in Requests : args.limit = q.limit
    BY <1>1 DEF Complete, Served
  <2>2. ~ResumesAtItself(r)
    <3> SUFFICES ASSUME ResumesAtItself(r) PROVE FALSE
      OBVIOUS
    <3> HIDE DEF r, e
    <3>1. starts_with(args.prefix, e) /\ ends_with_slash(e)
      BY <1>3 DEF ResumesAtItself
    <3>2. idb_leq(args.prefix, e) /\ idb_leq(e, args.prefix)
      BY <1>2, <1>3, <3>1, PrefixFirst
    <3> QED BY <1>2, <1>3, <3>1, <3>2, IdbOrder
  <2> HIDE DEF r, e
  <2> QED BY <1>3, <1>5, <2>1, <2>2 DEF Regular, Advances
<1>7. ToSet(Returned)' = ToSet(Returned)
  <2>1. Paths(emitted)' = <<>>
    BY <1>4 DEF Paths
  <2>2. Returned \in Seq(Key)
    BY <1>1, ReturnedAre
  <2>3. Returned' = Returned
    BY <1>1, <2>1, <2>2, ConcatEmptySeq DEF Returned
  <2> QED BY <2>3
<1>8. Returned = walked \o Paths(emitted) /\ e \in ToSet(Returned) /\ ToSet(Paths(emitted)) \subseteq ToSet(Returned)
  <2> DEFINE v == Paths(emitted)
  <2>1. walked \in Seq(Key) /\ v \in Seq(Key) /\ emitted \in Seq(Entry)
    BY <1>1, ReturnedAre
  <2>2. e \in ToSet(v)
    BY <1>2, <2>1, PathsOf
  <2> HIDE DEF v
  <2>3. ToSet(v) \subseteq ToSet(walked \o v)
    BY <2>1, InBoth
  <2> QED BY <2>2, <2>3 DEF v, Returned
<1> HIDE DEF r, e
<1>9. ASSUME NEW k \in kept
      PROVE  Within(k)' /\ (Shown(r, k) \in ToSet(Returned)' \/ k \in held')
  <2>1. /\ k \in data /\ Within(k) /\ (Shown(args, k) \in ToSet(Returned) \/ k \in held)
    BY <1>1, <1>9 DEF Complete, KeptWalked
  <2>2. CASE Shown(args, k) \in ToSet(Returned)
    BY <1>4, <1>7, <2>1, <2>2
  <2>3. CASE k \in held /\ Shown(args, k) \notin ToSet(Returned)
    <3>1. idb_less(e, Shown(args, k))
      BY <1>1, <1>8, <2>3 DEF Complete, HeldEnded, Given
    <3>2. k \in Owed(r, data)
      BY <1>3, <1>4, <2>1, <3>1 DEF Owed, Within
    <3> QED BY <1>4, <2>1, <3>2
  <2> QED BY <2>1, <2>2, <2>3
<1>10. kept \subseteq data
  BY <1>1 DEF Complete, KeptWalked
<1> QED BY <1>1, <1>2, <1>6, <1>9, <1>10, CompleteBegin

\* A step of a scan loses no key that is to come.
LEMMA CompleteScan ==
  ASSUME Complete, InOrder', scan' \in Loop, phase = "listing",
         UNCHANGED <<stores, args, lister, visited, emitted, phase, walked, history>>,
         scan'.lower \in BasicKey, idb_leq(args.prefix, scan'.lower),
         scan'.next_start_after \in BasicKey \cup {None},
         \A k \in held : Coming(k) => Coming(k)'
  PROVE  Complete'
<1>1. /\ data' = data /\ meta' = meta /\ args' = args /\ lister' = lister /\ visited' = visited
      /\ emitted' = emitted /\ phase' = phase /\ walked' = walked
      /\ held' = held /\ kept' = kept /\ seen' = seen
  BY DEF stores, history
<1>2. Served' /\ HeldOwed' /\ HeldEnded' /\ KeptWalked'
  BY <1>1 DEF Complete, Served, HeldOwed, Owing, Within, HeldEnded, KeptWalked, Returned, Paths
<1>3. HeldComing'
  BY <1>1 DEF Complete, HeldComing, Given, Paths
<1> QED BY <1>2, <1>3 DEF Complete

LEMMA CompleteOpenScan == AllRegular /\ Complete /\ OpenScan => Complete'
<1> SUFFICES ASSUME AllRegular, Complete, OpenScan PROVE Complete'
  OBVIOUS
<1>1. /\ InOrder' /\ phase = "listing" /\ scan = None /\ lister.buffer = <<>>
      /\ scan' = ScanOf(lister) /\ lister \in Lister /\ args' = args /\ lister' = lister
      /\ UNCHANGED <<stores, args, lister, visited, emitted, phase, walked, history>>
  BY OrderOpenScan DEF Complete, OpenScan, InOrder, Sound, TypeOK
<1>2. /\ lister.prefix = args.prefix /\ lister.limit # 0 /\ args.prefix \in BasicKey
      /\ lister.start_after \in BasicKey \cup {None}
  BY <1>1 DEF Complete, Served, Regular, Advances, InOrder, Sound, ListerServes
<1>3. /\ scan' \in Loop /\ scan'.keys = <<>> /\ scan'.fetched = <<>> /\ ~scan'.over
      /\ scan'.next_start_after = lister.start_after
  BY <1>1, <1>2, ScanOfIs
<1>4. scan'.lower \in BasicKey /\ idb_leq(args.prefix, scan'.lower)
  <2> DEFINE resumes == lister.start_after # None /\ str_leq(lister.prefix, lister.start_after)
  <2>1. scan'.lower = (IF resumes THEN lister.start_after ELSE lister.prefix)
    BY <1>1, ScanOfIs
  <2>2. CASE resumes
    <3>1. lister.start_after \in BasicKey /\ str_leq(args.prefix, lister.start_after)
      BY <1>2, <2>2
    <3> QED BY <1>2, <2>1, <2>2, <3>1, BasicOrder
  <2>3. CASE ~resumes
    BY <1>2, <2>1, <2>3 DEF idb_leq
  <2> QED BY <2>2, <2>3
<1>5. ASSUME NEW k \in held, Coming(k)
      PROVE  Coming(k)'
  <2>1. k \in Key /\ starts_with(k, lister.prefix)
    BY <1>1, <1>2, <1>5, NamesAreKeys DEF Complete, HeldOwed, Owing, Within
  <2>2. Ahead(k)
    <3>1. ToSet(Paths(lister.buffer)) = {}
      BY <1>1, EmptyHas DEF Paths
    <3> QED BY <1>1, <1>5, <3>1 DEF Coming
  <2>3. InRange(k, ScanOf(lister).lower, ScanOf(lister).lower_open, None)
    BY <1>1, <2>1, <2>2, AheadInRange DEF Ahead
  <2>4. Pending(scan, k)'
    BY <1>1, <1>3, <2>2, <2>3 DEF Pending, Ahead
  <2>5. scan' # None
    BY <1>3, NamesAreKeys
  <2> QED BY <2>4, <2>5 DEF Coming
<1> QED BY <1>1, <1>2, <1>3, <1>4, <1>5, CompleteScan

LEMMA CompleteFetchKeys == AllRegular /\ Complete /\ FetchKeys => Complete'
<1> SUFFICES ASSUME AllRegular, Complete, FetchKeys PROVE Complete'
  OBVIOUS
<1> DEFINE upper == prefix_upper_bound(lister.prefix)
           strings == InRangeNow(scan.lower, scan.lower_open, upper)
<1>1. /\ InOrder' /\ Sound /\ scan # None /\ scan \in Loop /\ lister \in Lister /\ data \subseteq Names
      /\ scan.fetched = <<>> /\ ~scan.over /\ scan' = Fetch(lister, scan)
      /\ UNCHANGED <<stores, args, lister, visited, emitted, phase, walked, history>>
  BY OrderFetchKeys DEF FetchKeys, Complete, InOrder, Sound, TypeOK
<1>2. /\ Len(scan.keys) < lister.limit /\ phase = "listing" /\ lister.buffer = <<>>
      /\ lister.prefix = args.prefix
  BY <1>1 DEF Sound, ScanCurrent, ListerServes
<1>3. /\ scan.lower \in BasicKey /\ idb_leq(args.prefix, scan.lower) /\ args.prefix \in BasicKey
      /\ scan.next_start_after \in BasicKey \cup {None}
  BY <1>1, <1>2 DEF Complete, Served, Regular
<1>4. \/ /\ scan' = Break(scan)
         /\ (upper # None /\ str_leq(upper, scan.lower)) \/ strings = {}
      \/ /\ scan' \in Loop /\ scan'.keys = scan.keys /\ scan'.next_start_after = scan.next_start_after
         /\ scan'.lower = scan.lower /\ scan'.lower_open = scan.lower_open /\ scan'.over = scan.over
         /\ scan'.fetched \in Seq(strings) /\ scan'.fetched # <<>>
         /\ \A k \in strings \ ToSet(scan'.fetched) :
              ~scan'.short /\ \A e \in ToSet(scan'.fetched) : idb_less(e, k)
  BY <1>1, <1>2, FetchIs
<1>5. scan' \in Loop /\ scan' # None /\ scan'.keys = scan.keys
      /\ scan'.lower = scan.lower /\ scan'.lower_open = scan.lower_open
      /\ scan'.next_start_after = scan.next_start_after
  <2> HIDE DEF upper, strings
  <2>1. Break(scan) \in Loop /\ Break(scan).keys = scan.keys /\ Break(scan).lower = scan.lower
        /\ Break(scan).lower_open = scan.lower_open
        /\ Break(scan).next_start_after = scan.next_start_after
    BY <1>1, BreakIs
  <2> QED BY <1>4, <2>1, NamesAreKeys
\* A key that is to come is in the range of the batch.
<1>6. ASSUME NEW k \in held, Pending(scan, k)
      PROVE  k \in strings /\ ~(upper # None /\ str_leq(upper, scan.lower))
  <2>1. /\ k \in data /\ k \in Key /\ starts_with(k, args.prefix)
        /\ InRange(k, scan.lower, scan.lower_open, None)
    BY <1>1, <1>2, <1>6, NamesAreKeys DEF Pending, Complete, HeldOwed, Owing, Within
  <2>2. upper # None => idb_less(k, upper)
    <3> SUFFICES ASSUME upper # None PROVE idb_less(k, upper)
      OBVIOUS
    <3>1. args.prefix \in Key
      BY <1>3, BasicLetters
    <3>2. InRange(k, args.prefix, FALSE, upper)
      BY <1>2, <2>1, <3>1, PrefixRange
    <3> QED BY <3>2 DEF InRange
  <2>3. k \in strings
    BY <2>1, <2>2 DEF InRangeNow, InRange
  <2>4. ASSUME upper # None, str_leq(upper, scan.lower) PROVE FALSE
    <3>1. upper \in BasicKey
      BY <1>2, <1>3, <2>4, BasicBound
    <3>2. idb_leq(upper, scan.lower) /\ idb_leq(scan.lower, k) /\ idb_less(k, upper)
      BY <1>3, <2>1, <2>2, <2>4, <3>1, BasicOrder DEF InRange
    <3>3. upper \in Key /\ scan.lower \in Key
      BY <1>3, <3>1, BasicLetters
    <3> HIDE DEF upper
    <3> QED BY <2>1, <3>2, <3>3, IdbOrder
  <2> QED BY <2>3, <2>4
<1> HIDE DEF strings
<1>7. ASSUME NEW k \in held, Coming(k)
      PROVE  Coming(k)'
  <2>1. k \in ToSet(scan.keys) \/ Pending(scan, k)
    <3>1. ToSet(Paths(lister.buffer)) = {}
      BY <1>2, EmptyHas DEF Paths
    <3> QED BY <1>1, <1>7, <3>1 DEF Coming
  <2>2. CASE k \in ToSet(scan.keys)
    BY <1>5, <2>2 DEF Coming
  <2>3. CASE Pending(scan, k)
    <3>1. k \in strings /\ ~(upper # None /\ str_leq(upper, scan.lower)) /\ strings # {}
      BY <1>6, <2>3
    <3>2. /\ scan'.over = scan.over /\ scan'.fetched \in Seq(strings) /\ scan'.fetched # <<>>
          /\ \A j \in strings \ ToSet(scan'.fetched) :
               ~scan'.short /\ \A e \in ToSet(scan'.fetched) : idb_less(e, j)
      BY <1>4, <3>1
    <3>3. Last(scan'.fetched) \in ToSet(scan'.fetched)
      BY <3>2, LastIs
    <3>4. k \in ToSet(scan'.fetched) \/ (~scan'.short /\ idb_less(Last(scan'.fetched), k))
      BY <3>1, <3>2, <3>3
    <3>5. Ahead(k)' /\ InRange(k, scan'.lower, scan'.lower_open, None)
      BY <1>1, <1>5, <2>3 DEF Pending, Ahead
    <3> QED BY <1>1, <1>5, <3>2, <3>4, <3>5 DEF Coming, Pending
  <2> QED BY <2>1, <2>2, <2>3
<1> QED BY <1>1, <1>2, <1>3, <1>5, <1>7, CompleteScan

\* The scan goes on behind the key at hand, without losing another.
LEMMA Onward ==
  ASSUME Complete, ScanKey, NEW k \in held, Pending(scan, k), k # Head(scan.fetched),
         scan' \in Loop, scan'.fetched = Tail(scan.fetched), scan'.short = scan.short,
         scan'.over <=> scan.short /\ Tail(scan.fetched) = <<>>,
         scan'.lower = Head(scan.fetched)
  PROVE  Pending(scan, k)'
<1> DEFINE s == scan.fetched
<1>1. /\ s \in Seq(Key) /\ s # <<>> /\ ~scan.over /\ Ascending(s) /\ Head(s) \in Key
      /\ lister' = lister
  <2>1. /\ s \in Seq(Names) /\ s # <<>> /\ ~scan.over /\ Head(s) \in Key /\ lister' = lister
        /\ scan \in Loop
    BY AtHand DEF Complete, InOrder
  <2>2. Ascending(s)
    BY <2>1, NamesAreKeys DEF Complete, InOrder, ScanAhead
  <2>3. s \in Seq(Key)
    BY <2>1, NamesAreKeys, SeqMonotonic
  <2> QED BY <2>1, <2>2, <2>3
<1>2. k \in Key
  BY NamesAreKeys DEF Complete, HeldOwed, Owing, Within, InOrder, Sound, ScanCurrent, ScanKey
<1>3. Ahead(k)' /\ (k \in ToSet(s) \/ (~scan.short /\ idb_less(Last(s), k)))
  BY <1>1 DEF Pending, Ahead
<1> HIDE DEF s
<1>4. /\ idb_leq(Head(s), k)
      /\ k = Head(s) \/ k \in ToSet(Tail(s)) \/ idb_less(Last(s), k)
      /\ Tail(s) # <<>> => Last(Tail(s)) = Last(s)
  BY <1>1, <1>2, <1>3, RestOfBatch
<1>5. InRange(k, scan'.lower, scan'.lower_open, None)
  BY <1>4 DEF InRange, s
<1>6. /\ ~scan'.over
      /\ \/ scan'.fetched = <<>> \/ k \in ToSet(scan'.fetched)
         \/ ~scan'.short /\ idb_less(Last(scan'.fetched), k)
  <2>1. k \in ToSet(Tail(s)) => Tail(s) # <<>>
    BY EmptyHas
  <2>2. CASE k \in ToSet(Tail(s))
    BY <2>1, <2>2 DEF s
  <2>3. CASE k \notin ToSet(Tail(s))
    <3>1. ~scan.short /\ idb_less(Last(s), k)
      <4>1. ToSet(s) = {Head(s)} \cup ToSet(Tail(s))
        BY <1>1, HeadTailHave
      <4>2. k # Head(s)
        BY DEF s
      <4> QED BY <1>3, <2>3, <4>1, <4>2
    <3> QED BY <1>4, <3>1 DEF s
  <2> QED BY <2>2, <2>3
<1> QED BY <1>3, <1>5, <1>6 DEF Pending

LEMMA CompleteScanKey == AllRegular /\ Complete /\ ScanKey => Complete'
<1> SUFFICES ASSUME AllRegular, Complete, ScanKey PROVE Complete'
  OBVIOUS
<1> DEFINE key == Head(scan.fetched)
<1>1. /\ scan \in Loop /\ lister \in Lister /\ scan.fetched # <<>> /\ ~scan.over
      /\ scan.keys \in Seq(Names) /\ key \in ToSet(scan.fetched) /\ key \in Names /\ key \in Key
      /\ phase = "listing" /\ lister.buffer = <<>> /\ Len(scan.keys) < lister.limit
      /\ UNCHANGED <<stores, args, lister, visited, emitted, phase, walked, history>>
  BY AtHand DEF Complete, InOrder
<1>2. /\ InOrder' /\ Sound /\ scan # None /\ lister.prefix = args.prefix /\ lister' = lister
      /\ scan.fetched \in Seq(Key) /\ Ascending(scan.fetched)
      /\ InRange(key, scan.lower, scan.lower_open, None)
  <2>1. /\ InOrder' /\ Sound /\ scan # None /\ lister.prefix = args.prefix /\ lister' = lister
    BY <1>1, OrderScanKey, NamesAreKeys DEF Complete, InOrder, Sound, ListerServes
  <2>2. scan.fetched \in Seq(Names)
    BY <1>1 DEF Loop
  <2>3. scan.fetched \in Seq(Key)
    BY <2>2, NamesAreKeys, SeqMonotonic
  <2> QED BY <1>1, <2>1, <2>3 DEF Complete, InOrder, ScanAhead
<1>3. /\ Regular(args) /\ args.prefix \in BasicKey /\ lister.start_after \in BasicKey \cup {None}
      /\ scan.lower \in BasicKey /\ idb_leq(args.prefix, scan.lower)
      /\ key \in BasicKey /\ scan.next_start_after \in BasicKey \cup {None}
  BY <1>1, <1>2 DEF Complete, Served, Regular, AllRegular
<1>4. /\ args.prefix \in Key /\ scan.lower \in Key
      /\ idb_leq(scan.lower, key) /\ idb_leq(args.prefix, key)
  <2>1. args.prefix \in Key /\ scan.lower \in Key
    BY <1>3, BasicLetters
  <2>2. idb_leq(scan.lower, key)
    BY <1>2 DEF InRange
  <2> HIDE DEF key
  <2> QED BY <1>1, <1>3, <2>1, <2>2, IdbOrder
\* A key that is to come is not before the key at hand.
<1>5. ASSUME NEW k \in held, Pending(scan, k)
      PROVE  /\ k \in Names /\ k \in Key /\ Within(k) /\ Owing(k) /\ Ahead(k)
             /\ idb_leq(key, k)
  <2>1. k \in Names /\ k \in Key /\ Within(k) /\ Owing(k)
    BY <1>1, NamesAreKeys DEF Complete, HeldOwed, Owing, Within
  <2>2. Ahead(k) /\ (k \in ToSet(scan.fetched) \/ idb_less(Last(scan.fetched), k))
    BY <1>1, <1>5 DEF Pending
  <2> QED BY <1>1, <1>2, <2>1, <2>2, RestOfBatch
<1>6. ASSUME NEW k \in held, Coming(k)
      PROVE  k \in ToSet(scan.keys) \/ Pending(scan, k)
  <2>1. ToSet(Paths(lister.buffer)) = {}
    BY <1>1, EmptyHas DEF Paths
  <2> QED BY <1>2, <1>6, <2>1 DEF Coming
\* What is left to show of each of the four things that can happen.
<1>7. ASSUME scan' \in Loop, scan'.lower \in BasicKey, idb_leq(scan.lower, scan'.lower),
             scan'.next_start_after \in BasicKey \cup {None},
             ToSet(scan.keys) \subseteq ToSet(scan'.keys),
             \A k \in held : Pending(scan, k) => k \in ToSet(scan'.keys) \/ Pending(scan, k)'
      PROVE  Complete'
  <2>1. scan' # None
    BY <1>7, NamesAreKeys
  <2>2. \A k \in held : Coming(k) => Coming(k)'
    BY <1>6, <1>7, <2>1 DEF Coming
  <2>3. idb_leq(args.prefix, scan'.lower)
    <3>1. scan'.lower \in Key
      BY <1>7, BasicLetters
    <3> QED BY <1>3, <1>4, <1>7, <3>1, IdbOrder
  <2> QED BY <1>1, <1>2, <1>7, <2>2, <2>3, CompleteScan
<1>8. CASE ~starts_with(key, lister.prefix) /\ scan' = Break(scan)
  <2>1. \A k \in held : ~Pending(scan, k)
    <3> SUFFICES ASSUME NEW k \in held, Pending(scan, k) PROVE FALSE
      OBVIOUS
    <3>1. k \in Key /\ starts_with(k, args.prefix) /\ idb_leq(key, k)
      BY <1>5 DEF Within
    <3>2. starts_with(key, args.prefix)
      <4>1. CASE k = key
        BY <3>1, <4>1
      <4>2. CASE k # key
        BY <1>1, <1>4, <3>1, <4>2, PrefixConvex DEF idb_leq
      <4> QED BY <4>1, <4>2
    <3> QED BY <1>2, <1>8, <3>2
  <2>2. /\ scan' \in Loop /\ scan'.keys = scan.keys /\ scan'.lower = scan.lower
        /\ scan'.next_start_after = scan.next_start_after
    BY <1>1, <1>8, BreakIs
  <2>3. idb_leq(scan.lower, scan'.lower)
    BY <2>2 DEF idb_leq
  <2> QED BY <1>3, <1>7, <2>1, <2>2, <2>3
<1>9. CASE /\ starts_with(key, lister.prefix) /\ PassedOver(lister, key)
           /\ scan' = Behind(scan)
  <2>1. /\ scan' \in Loop /\ scan'.keys = scan.keys /\ scan'.short = scan.short
        /\ scan'.next_start_after = key /\ scan'.lower = key
        /\ scan'.fetched = Tail(scan.fetched)
        /\ scan'.over <=> scan.short /\ Tail(scan.fetched) = <<>>
    BY <1>1, <1>9, BehindIs
  <2>2. ASSUME NEW k \in held, Pending(scan, k)
        PROVE  k # key
    <3>1. k \in Key /\ Within(k) /\ Ahead(k)
      BY <1>5, <2>2
    <3>2. CASE lister.start_after # None /\ str_leq(key, lister.start_after)
      <4>1. lister.start_after \in BasicKey
        BY <1>3, <3>2
      <4>2. idb_leq(key, lister.start_after)
        BY <1>3, <3>2, <4>1, BasicOrder
      <4>3. idb_less(lister.start_after, k) /\ lister.start_after \in Key
        BY <3>1, <3>2, <4>1, BasicLetters DEF Ahead
      <4> HIDE DEF key
      <4> QED BY <1>1, <3>1, <4>2, <4>3, IdbOrder
    <3>3. CASE key = lister.prefix /\ ends_with_slash(key)
      BY <1>2, <3>1, <3>3 DEF Within
    <3> QED BY <1>9, <3>2, <3>3 DEF PassedOver
  <2>3. \A k \in held : Pending(scan, k) => Pending(scan, k)'
    BY <2>1, <2>2, Onward
  <2> HIDE DEF key
  <2> QED BY <1>3, <1>4, <1>7, <2>1, <2>3
<1>10. CASE Skipped(lister, key) /\ scan' = Skip(lister, scan)
  <2> DEFINE p == lister.skip_prefix
             next == prefix_upper_bound(p)
             stop == next = None \/ str_leq(next, scan.lower)
  <2>1. p # None /\ p \in Key /\ starts_with(key, p)
    BY <1>1, <1>10 DEF Skipped, Lister
  <2>2. next # None
    <3>1. p = args.start_after /\ ends_with_slash(p)
      BY <1>2, <2>1 DEF Sound, ListerServes, NewLister
    <3> QED BY <2>1, <3>1, DirectoryHasBound
  <2>3. p \in BasicKey /\ next \in BasicKey /\ next \in Key
    <3>1. p \in BasicKey
      BY <1>3, <2>1, BasicParts
    <3>2. next \in BasicKey
      BY <2>2, <3>1, BasicBound
    <3> QED BY <3>1, <3>2, BasicLetters
  <2>4. idb_less(key, next)
    <3>1. InRange(key, p, FALSE, next)
      BY <1>1, <2>1, <2>2, PrefixRange
    <3> QED BY <2>2, <3>1 DEF InRange
  <2>5. ~str_leq(next, scan.lower)
    <3> SUFFICES ASSUME str_leq(next, scan.lower) PROVE FALSE
      OBVIOUS
    <3>1. idb_leq(next, scan.lower)
      BY <1>3, <2>3, BasicOrder
    <3> HIDE DEF next, key
    <3> QED BY <1>1, <1>4, <2>3, <2>4, <3>1, IdbOrder
  <2>6. ~stop
    BY <2>2, <2>5
  <2>7. /\ scan' \in Loop /\ scan'.keys = scan.keys /\ scan'.fetched = <<>>
        /\ scan'.next_start_after = key
        /\ scan'.over = scan.over /\ scan'.lower = next /\ scan'.lower_open = FALSE
    <3>1. /\ scan' \in Loop /\ scan'.keys = scan.keys /\ scan'.fetched = <<>>
          /\ scan'.next_start_after = key
          /\ ~stop => scan'.over = scan.over /\ scan'.lower = next /\ scan'.lower_open = FALSE
      BY <1>1, <1>10, <2>1, SkipIs
    <3> HIDE DEF stop
    <3> QED BY <2>6, <3>1
  <2> HIDE DEF next, stop
  <2>8. ASSUME NEW k \in held, Pending(scan, k)
        PROVE  Pending(scan, k)'
    <3>1. k \in Names /\ k \in Key /\ Owing(k) /\ Ahead(k) /\ idb_leq(key, k)
      BY <1>5, <2>8
    <3>2. ~starts_with(k, p)
      BY <1>1, <2>1, <3>1, OwingNotSkipped DEF Skipped
    <3>3. ~InRange(k, p, FALSE, next)
      BY <2>1, <2>2, <3>1, <3>2, PrefixRange DEF next
    <3>4. idb_leq(p, key)
      BY <1>1, <2>1, PrefixFirst
    <3>5. idb_leq(p, k)
      <4> HIDE DEF p, key
      <4> QED BY <1>1, <2>1, <3>1, <3>4, IdbOrder
    <3>6. ~idb_less(k, next)
      BY <3>3, <3>5 DEF InRange
    <3>7. idb_leq(next, k)
      BY <2>3, <3>1, <3>6, IdbOrder
    <3>8. InRange(k, scan'.lower, scan'.lower_open, None)
      BY <2>7, <3>7 DEF InRange
    <3> QED BY <1>1, <1>2, <2>7, <3>1, <3>8 DEF Pending, Ahead
  <2>9. idb_leq(scan.lower, scan'.lower)
    <3> HIDE DEF key
    <3> QED BY <1>1, <1>4, <2>3, <2>4, <2>7, IdbOrder
  <2> HIDE DEF key
  <2> QED BY <1>3, <1>7, <2>3, <2>7, <2>8, <2>9
<1>11. CASE scan' = Keep(lister, scan)
  <2> DEFINE full == Len(scan.keys) + 1 >= lister.limit
  <2>1. /\ scan' \in Loop /\ scan'.keys = Append(scan.keys, key) /\ scan'.short = scan.short
        /\ scan'.next_start_after = key /\ scan'.lower = key /\ scan'.lower_open
        /\ full => scan'.fetched = <<>> /\ scan'.over
        /\ ~full => /\ scan'.fetched = Tail(scan.fetched)
                    /\ scan'.over <=> scan.short /\ Tail(scan.fetched) = <<>>
    BY <1>1, <1>11, KeepIs
  <2>2. ToSet(scan'.keys) = ToSet(scan.keys) \cup {key} /\ Len(scan'.keys) = Len(scan.keys) + 1
    BY <1>1, <2>1, AppendHas
  <2>3. full => Len(scan'.keys) = lister.limit
    <3>1. Len(scan.keys) \in Nat /\ lister.limit \in Nat
      BY <1>1 DEF Lister
    <3> QED BY <1>1, <2>2, <3>1
  <2> HIDE DEF full
  <2>4. ASSUME NEW k \in held, Pending(scan, k)
        PROVE  k \in ToSet(scan'.keys) \/ Pending(scan, k)'
    <3>1. CASE k = key
      BY <2>2, <3>1
    <3>2. CASE k # key /\ ~full
      BY <2>1, <2>4, <3>2, Onward
    <3>3. CASE k # key /\ full
      <4>1. Ahead(k)' /\ idb_leq(key, k)
        BY <1>2, <1>5, <2>4 DEF Ahead
      <4>2. InRange(k, scan'.lower, scan'.lower_open, None)
        BY <2>1, <3>3, <4>1 DEF InRange
      <4> QED BY <1>2, <2>1, <2>3, <3>3, <4>1, <4>2 DEF Pending
    <3> QED BY <3>1, <3>2, <3>3
  <2> HIDE DEF key
  <2> QED BY <1>3, <1>4, <1>7, <2>1, <2>2, <2>4
<1> QED BY <1>2, <1>8, <1>9, <1>10, <1>11, ScanKeyCases

\* The next scan begins behind the last key of the page.
LEMMA CompleteFetchPage == AllRegular /\ Complete /\ FetchPage => Complete'
<1> SUFFICES ASSUME AllRegular, Complete, FetchPage PROVE Complete'
  OBVIOUS
<1>1. /\ scan \in Loop /\ lister \in Lister /\ scan # None /\ scan' = None /\ scan.over
      /\ lister'.limit = lister.limit
      /\ lister'.start_after = scan.next_start_after
      /\ lister'.done <=> lister.limit = 0 \/ Len(scan.keys) < lister.limit
      /\ Paths(lister'.buffer) = scan.keys
  BY PageOfIs DEF Complete, InOrder, FetchPage
<1>2. /\ data' = data /\ args' = args /\ visited' = visited /\ emitted' = emitted
      /\ phase' = phase /\ walked' = walked /\ held' = held /\ kept' = kept
  BY DEF FetchPage, stores, history
<1>3. /\ InOrder' /\ Sound /\ phase = "listing" /\ lister.buffer = <<>>
      /\ lister.limit = list_page_size(args.limit) /\ lister.limit \in Nat
  BY <1>1, OrderFetchPage DEF Complete, InOrder, Sound, ScanCurrent, ListerServes, Lister
<1>4. lister.limit # 0 /\ scan.next_start_after \in BasicKey \cup {None}
  BY <1>1, <1>3 DEF Complete, Served, Regular, Advances
<1>5. Served'
  BY <1>1, <1>2, <1>4 DEF Complete, Served
<1>6. HeldOwed' /\ HeldEnded' /\ KeptWalked'
  BY <1>2 DEF Complete, HeldOwed, Owing, Within, HeldEnded, Given, Returned, Paths, KeptWalked, BelowLimit
<1>7. ASSUME NEW k \in held, Coming(k)
      PROVE  Coming(k)'
  <2>1. k \in ToSet(scan.keys) \/ Pending(scan, k)
    <3>1. ToSet(Paths(lister.buffer)) = {}
      BY <1>3, EmptyHas DEF Paths
    <3> QED BY <1>1, <1>7, <3>1 DEF Coming
  <2>2. CASE k \in ToSet(scan.keys)
    <3>1. Paths(lister.buffer)' = scan.keys
      BY <1>1 DEF Paths
    <3> QED BY <2>2, <3>1 DEF Coming
  <2>3. CASE Pending(scan, k)
    <3> DEFINE l == Last(scan.keys)
    <3>1. Len(scan.keys) = lister.limit /\ scan.keys # <<>> /\ InRange(k, scan.lower, scan.lower_open, None)
      BY <1>1, <1>3, <1>4, <2>3 DEF Pending
    <3>2. l \in ToSet(scan.keys) /\ l \in Names /\ l \in Key
      BY <1>1, <3>1, LastIs, NamesAreKeys DEF Loop
    <3>3. scan.next_start_after = l /\ Passed(scan, l) /\ scan.lower \in Key
      BY <1>1, <3>1, <3>2 DEF Complete, InOrder, ScanAhead, Loop
    <3>4. k \in Key
      BY <1>3, NamesAreKeys DEF Complete, HeldOwed, Owing, Within
    <3> HIDE DEF l
    <3>5. idb_less(l, k)
      BY <3>1, <3>2, <3>3, <3>4, IdbOrder DEF Passed, InRange
    <3>6. ~lister'.done /\ Ahead(k)'
      BY <1>1, <1>3, <1>4, <3>1, <3>3, <3>5 DEF Ahead
    <3> QED BY <1>1, <3>6 DEF Coming
  <2> QED BY <2>1, <2>2, <2>3
<1>8. HeldComing'
  BY <1>2, <1>3, <1>7 DEF Complete, HeldComing, Given, Paths
<1> QED BY <1>3, <1>5, <1>6, <1>8 DEF Complete

\* What is popped is returned, or was under the directory it is in.
LEMMA CompleteEmit == AllRegular /\ Complete /\ Emit => Complete'
<1> SUFFICES ASSUME AllRegular, Complete, Emit PROVE Complete'
  OBVIOUS
<1> DEFINE entry == Head(lister.buffer)
           path  == Shown(args, entry.path)
           new   == IF path # entry.path THEN [path |-> path, info |-> "folded"] ELSE entry
<1>1. /\ phase = "listing" /\ lister \in Lister /\ lister.buffer # <<>> /\ scan = None
      /\ new \in Entry /\ new.path = path /\ path \in Key
      /\ lister' = [lister EXCEPT !.buffer = Tail(lister.buffer)]
      /\ lister'.buffer = Tail(lister.buffer) /\ lister' \in Lister
      /\ ToSet(lister.buffer) = {entry} \cup ToSet(Tail(lister.buffer))
      /\ \/ path \in visited /\ UNCHANGED <<emitted, visited>>
         \/ path \notin visited /\ emitted' = Append(emitted, new)
  BY EmitIs DEF Complete, InOrder
<1>2. /\ data' = data /\ args' = args /\ scan' = scan /\ phase' = phase /\ walked' = walked
      /\ held' = held /\ kept' = kept
  BY DEF Emit, stores, history
<1>3. InOrder' /\ Sound /\ Sound'
  BY OrderEmit DEF Complete, InOrder
<1>4. lister'.start_after = lister.start_after /\ lister'.done = lister.done
  BY <1>1 DEF Lister
<1>5. /\ emitted \in Seq(Entry) /\ visited \subseteq ToSet(Paths(emitted))
      /\ walked \in Seq(Key) /\ Paths(emitted) \in Seq(Key)
      /\ Paths(emitted)' \in Seq(Key)
  BY <1>3, ReturnedAre, PathsOf DEF Sound, TypeOK, Paths
<1> HIDE DEF entry, path, new
<1>6. /\ ToSet(Paths(emitted)) \subseteq ToSet(Paths(emitted))'
      /\ path \in ToSet(Paths(emitted))'
  <2>1. CASE path \in visited /\ UNCHANGED <<emitted, visited>>
    BY <1>5, <2>1 DEF Paths
  <2>2. CASE emitted' = Append(emitted, new)
    <3>1. Paths(emitted)' = Append(Paths(emitted), path)
      BY <1>1, <1>5, <2>2, PathsAppended DEF Paths
    <3> QED BY <1>1, <1>5, <3>1, AppendHas
  <2> QED BY <1>1, <2>1, <2>2
<1>7. ToSet(Returned) \subseteq ToSet(Returned)'
  <2> DEFINE v == Paths(emitted)
             w == Paths(emitted')
  <2>1. ToSet(walked \o v) = ToSet(walked) \cup ToSet(v) /\ ToSet(walked \o w) = ToSet(walked) \cup ToSet(w)
    <3>1. v \in Seq(Key) /\ w \in Seq(Key)
      BY <1>5 DEF Paths
    <3> HIDE DEF v, w
    <3> QED BY <1>5, <3>1, InBoth
  <2>2. ToSet(v) \subseteq ToSet(w)
    BY <1>6 DEF Paths
  <2>3. Returned = walked \o v /\ Returned' = walked \o w
    BY <1>2 DEF Returned, Paths
  <2> HIDE DEF v, w
  <2> QED BY <2>1, <2>2, <2>3
<1>8. Served' /\ HeldOwed' /\ HeldEnded'
  BY <1>1, <1>2, <1>4 DEF Complete, Served, HeldOwed, Owing, Within, HeldEnded
<1>9. KeptWalked'
  BY <1>2, <1>7 DEF Complete, KeptWalked, Within
<1>10. ASSUME NEW k \in held
       PROVE  Given(k)' \/ Coming(k)'
  <2>1. CASE Given(k)
    BY <1>2, <1>6, <2>1 DEF Given
  <2>2. CASE k \in ToSet(Paths(lister.buffer))
    <3>1. lister.buffer \in Seq(Entry) /\ Tail(lister.buffer) \in Seq(Entry)
      BY <1>1 DEF Lister
    <3>2. PICK b \in ToSet(lister.buffer) : b.path = k
      BY <2>2, <3>1, PathsOf
    <3>3. CASE b = entry
      BY <1>2, <1>6, <3>2, <3>3 DEF Given, path
    <3>4. CASE b \in ToSet(Tail(lister.buffer))
      <4>1. k \in ToSet(Paths(Tail(lister.buffer)))
        BY <3>1, <3>2, <3>4, PathsOf
      <4>2. Paths(lister.buffer)' = Paths(Tail(lister.buffer))
        BY <1>1 DEF Paths
      <4> QED BY <4>1, <4>2 DEF Coming
    <3> QED BY <1>1, <3>2, <3>3, <3>4
  <2>3. CASE ~lister.done /\ Ahead(k)
    BY <1>1, <1>2, <1>4, <2>3 DEF Coming, Ahead
  <2> QED BY <1>1, <2>1, <2>2, <2>3 DEF Complete, HeldComing, Coming
<1>11. HeldComing'
  BY <1>2, <1>10 DEF HeldComing
<1> QED BY <1>3, <1>8, <1>9, <1>11 DEF Complete

\* A listing ends when all is returned, or at its limit: then what it has left
\* is shown behind all that it returned.
LEMMA CompleteEnd == AllRegular /\ Complete /\ End => Complete'
<1> SUFFICES ASSUME AllRegular, Complete, End PROVE Complete'
  OBVIOUS
<1>1. /\ phase = "listing" /\ phase' = "ended" /\ (BelowLimit => lister.buffer = <<>> /\ lister.done)
      /\ data' = data /\ args' = args /\ lister' = lister /\ scan' = scan /\ visited' = visited
      /\ emitted' = emitted /\ walked' = walked /\ held' = held /\ kept' = kept
  BY DEF End, stores, history
<1>2. InOrder' /\ Sound /\ scan = None /\ lister \in Lister /\ lister.prefix = args.prefix
  BY OrderEnd DEF End, Complete, InOrder, Sound, ScanCurrent, TypeOK, ListerServes
<1>3. Served' /\ HeldOwed' /\ HeldComing' /\ KeptWalked'
  BY <1>1 DEF Complete, Served, HeldOwed, Owing, Within, HeldComing, KeptWalked, Returned, Paths
<1>4. ASSUME NEW k \in held, ~Given(k)
      PROVE  ~BelowLimit /\ \A p \in ToSet(Returned) : idb_less(p, Shown(args, k))
  <2>1. Coming(k) /\ Owing(k) /\ k \in Names /\ k \in Key
    BY <1>1, <1>4, NamesAreKeys DEF Complete, HeldComing, HeldOwed, Owing, Within
  <2>2. k \in ToSet(Paths(lister.buffer)) \/ (~lister.done /\ Ahead(k))
    BY <1>2, <2>1 DEF Coming
  <2>3. ~BelowLimit
    <3>1. lister.buffer = <<>> => ToSet(Paths(lister.buffer)) = {}
      BY EmptyHas DEF Paths
    <3> QED BY <1>1, <2>2, <3>1
  <2>4. After(k)
    <3>1. CASE k \in ToSet(Paths(lister.buffer))
      <4>1. lister.buffer \in Seq(Entry)
        BY <1>2 DEF Lister
      <4>2. PICK b \in ToSet(lister.buffer) : b.path = k
        BY <3>1, <4>1, PathsOf
      <4> QED BY <1>1, <4>2 DEF Complete, InOrder, BufferAhead
    <3>2. CASE ~lister.done /\ Ahead(k)
      <4>1. InRange(k, ScanOf(lister).lower, ScanOf(lister).lower_open, None)
        BY <1>2, <2>1, <3>2, AheadInRange DEF Owing, Within, Ahead
      <4>2. ~Skipped(lister, k)
        BY <1>1, <2>1, OwingNotSkipped
      <4>3. Reach(ScanOf(lister), k)
        BY <2>1, <4>1, <4>2 DEF Reach, Owing
      <4> QED BY <1>1, <1>2, <2>1, <3>2, <4>3 DEF Complete, InOrder, BufferAhead
    <3> QED BY <2>2, <3>1, <3>2
  <2>5. visited \subseteq ToSet(Paths(emitted))
    BY <1>2 DEF Sound, TypeOK
  <2>6. \A p \in ToSet(Returned) : idb_less(p, Shown(args, k))
    BY <1>4, <2>4, <2>5 DEF After, Given, idb_leq
  <2> QED BY <2>3, <2>6
<1>5. HeldEnded'
  BY <1>1, <1>4 DEF HeldEnded, Given, Returned, Paths, BelowLimit
<1> QED BY <1>2, <1>3, <1>5 DEF Complete

\* What is deleted meanwhile is not owed any more.
LEMMA CompleteOthers == AllRegular /\ Complete /\ Others => Complete'
<1> SUFFICES ASSUME AllRegular, Complete, Others PROVE Complete'
  OBVIOUS
<1>1. PICK K, M \in SUBSET Names : Becomes(K, M)
  BY OthersBecome DEF Complete, InOrder
<1>2. /\ data' = K /\ held' = held \cap K /\ kept' = kept \cap K
      /\ args' = args /\ lister' = lister /\ scan' = scan /\ visited' = visited
      /\ emitted' = emitted /\ phase' = phase /\ walked' = walked
  BY <1>1 DEF Becomes, client
<1>3. InOrder'
  BY OrderOthers DEF Complete
<1>4. Served' /\ HeldOwed'
  BY <1>2 DEF Complete, Served, HeldOwed, Owing, Within
<1>5. \A k : (Coming(k)' <=> Coming(k)) /\ (Given(k)' <=> Given(k))
  BY <1>2 DEF Coming, Paths, Ahead, Pending, Given
<1>6. HeldComing' /\ HeldEnded'
  BY <1>2, <1>5 DEF Complete, HeldComing, HeldEnded, Returned, Paths, BelowLimit
<1>7. KeptWalked'
  BY <1>2 DEF Complete, KeptWalked, Within, Returned, Paths
<1> QED BY <1>3, <1>4, <1>6, <1>7 DEF Complete

LEMMA CompleteNext == AllRegular /\ Complete /\ [Next]_vars => Complete'
<1> SUFFICES ASSUME AllRegular, Complete, [Next]_vars PROVE Complete'
  OBVIOUS
<1>1. CASE \E r \in Requests : List(r)
  BY <1>1, CompleteList
<1>2. CASE ListMore
  BY <1>2, CompleteListMore
<1>3. CASE OpenScan \/ FetchKeys \/ ScanKey \/ FetchPage
  BY <1>3, CompleteOpenScan, CompleteFetchKeys, CompleteScanKey, CompleteFetchPage
<1>4. CASE Emit \/ End
  BY <1>4, CompleteEmit, CompleteEnd
<1>5. CASE Others
  BY <1>5, CompleteOthers
<1>6. CASE UNCHANGED vars
  <2>1. /\ args' = args /\ lister' = lister /\ scan' = scan /\ visited' = visited
        /\ emitted' = emitted /\ phase' = phase /\ walked' = walked /\ data' = data
        /\ held' = held /\ kept' = kept
    BY <1>6 DEF vars, stores, client, history
  <2>2. \A k : (Coming(k)' <=> Coming(k)) /\ (Given(k)' <=> Given(k))
    BY <2>1 DEF Coming, Paths, Ahead, Pending, Given
  <2>3. Served' /\ HeldOwed'
    BY <2>1 DEF Complete, Served, HeldOwed, Owing, Within
  <2>4. HeldComing' /\ HeldEnded'
    BY <2>1, <2>2 DEF Complete, HeldComing, HeldEnded, Returned, Paths, BelowLimit
  <2>5. KeptWalked' /\ InOrder'
    BY <2>1, OrderNext DEF Complete, KeptWalked, Within, Returned, Paths
  <2> QED BY <2>3, <2>4, <2>5 DEF Complete
<1> QED BY <1>1, <1>2, <1>3, <1>4, <1>5, <1>6 DEF Next, Walker

\* A listing that stops short of its limit has returned every entry that was
\* there all the time, for every page size, set of keys and interference, if
\* the two orders of strings agree on the keys (run list_utf16 shows what
\* happens if not), a page has room for a key, and it does not resume at the
\* listed directory itself (run list_resume).
THEOREM ListingsComplete == OrdersAgree /\ AllAdvance => (Spec => []ListComplete)
<1> SUFFICES ASSUME AllRegular PROVE Spec => []ListComplete
  BY AreRegular
<1>1. Complete => ListComplete
  BY DEF Complete, HeldEnded, ListComplete, Given, BelowLimit
<1>2. Complete /\ [Next]_vars => Complete'
  BY CompleteNext
<1> QED BY <1>1, <1>2, CompleteInit, PTL DEF Spec

\* So a walk that goes on to an empty listing has seen every such entry: none
\* falls between two listings, unless a listing of no entries was asked for.
THEOREM WalksComplete ==
  OrdersAgree /\ AllAdvance /\ (\A r \in Requests : r.limit # 0) => (Spec => []WalkComplete)
<1> SUFFICES ASSUME AllRegular, \A r \in Requests : r.limit # 0 PROVE Spec => []WalkComplete
  BY AreRegular
<1>1. Complete => WalkComplete
  <2> SUFFICES ASSUME Complete, Ended, NEW k \in kept
               PROVE  Shown(args, k) \in ToSet(walked)
    BY DEF WalkComplete
  <2>1. /\ Shown(args, k) \in ToSet(Returned) \/ k \in held
        /\ phase = "ended" /\ emitted = <<>> /\ Sound
    BY DEF Complete, KeptWalked, Ended, InOrder
  <2>2. Returned = walked /\ Paths(emitted) = <<>>
    <3>1. Paths(emitted) = <<>> /\ walked \in Seq(Key)
      BY <2>1, ReturnedAre DEF Paths
    <3> QED BY <3>1, ConcatEmptySeq DEF Returned
  <2>3. BelowLimit
    <3>1. args.limit # 0 /\ (args.limit # None => args.limit \in Nat)
      BY <2>1 DEF Complete, Served, Sound, TypeOK, Request
    <3>2. Len(emitted) = 0
      BY <2>1
    <3> QED BY <3>1, <3>2 DEF BelowLimit
  <2>4. CASE k \in held
    <3>1. Given(k)
      BY <2>1, <2>3, <2>4 DEF Complete, HeldEnded
    <3> QED BY <2>2, <3>1, EmptyHas DEF Given
  <2> QED BY <2>1, <2>2, <2>4
<1>2. Complete /\ [Next]_vars => Complete'
  BY CompleteNext
<1> QED BY <1>1, <1>2, CompleteInit, PTL DEF Spec
=============================================================================
