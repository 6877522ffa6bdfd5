---------------------------- MODULE Backend_proofs ----------------------------
(***************************************************************************)
(* Operators that share a database do not meet: for every set of           *)
(* operators, configurations, paths and batches.                           *)
(***************************************************************************)
EXTENDS Backend, Keys_proofs, SequenceTheorems, FiniteSetTheorems, WellFoundedInduction

\* The elements of a set of indices can be counted: there is an n-th one.
LEMMA Counted ==
  ASSUME NEW N \in Nat, NEW S \in SUBSET (1..N), NEW n \in 1..Cardinality(S)
  PROVE  \E i \in S : Cardinality({h \in S : h <= i}) = n
<1> DEFINE upto(i) == {h \in S : h <= i}
<1>0. IsFiniteSet(S) /\ \A h \in S : h \in Nat
  <2>1. IsFiniteSet(1..N)
    BY FS_Interval
  <2>2. IsFiniteSet(S)
    BY <2>1, FS_Subset
  <2> QED BY <2>2
<1>1. \A T \in SUBSET S : IsFiniteSet(T) /\ Cardinality(T) \in Nat
  BY <1>0, FS_Subset, FS_CardinalityType
<1>2. S # {}
  BY <1>1, FS_EmptySet
<1> DEFINE E == {i \in S : Cardinality(upto(i)) >= n}
<1>3. E # {}
  <2>1. PICK i \in S : \A j \in S : j <= i
    BY <1>2, Extremes
  <2>2. upto(i) = S
    BY <2>1
  <2>3. Cardinality(upto(i)) >= n
    BY <1>1, <2>2
  <2> QED BY <2>1, <2>3
<1>4. PICK i \in E : \A j \in E : i <= j
  <2>1. E \in SUBSET (1..N)
    OBVIOUS
  <2> HIDE DEF E
  <2> QED BY <1>3, <2>1, Extremes
<1> DEFINE low == {h \in S : h < i}
<1>5. Cardinality(upto(i)) = Cardinality(low) + 1
  <2>1. upto(i) = low \cup {i} /\ i \notin low
    <3>1. i \in S
      OBVIOUS
    <3>2. \A h \in S : h <= i <=> h < i \/ h = i
      BY <1>0, <3>1
    <3>3. i \notin low
      BY <1>0, <3>1
    <3>4. upto(i) = low \cup {i}
      BY <3>1, <3>2, Zenon
    <3> QED BY <3>3, <3>4, Zenon
  <2>2. IsFiniteSet(low)
    BY <1>1
  <2> HIDE DEF low, upto
  <2> QED BY <2>1, <2>2, FS_AddElement
<1>6. Cardinality(low) < n
  <2>1. CASE low = {}
    BY <2>1, FS_EmptySet
  <2>2. CASE low # {}
    <3>1. PICK m \in low : \A j \in low : j <= m
      <4>1. low \in SUBSET (1..N)
        OBVIOUS
      <4> HIDE DEF low
      <4> QED BY <2>2, <4>1, Extremes
    <3>2. upto(m) = low
      <4>1. m \in S /\ m < i /\ i \in S
        OBVIOUS
      <4>2. \A h \in S : h <= m <=> h < i
        BY <1>0, <3>1, <4>1
      <4> QED BY <4>2
    <3>3. m \in S /\ m \notin E
      BY <1>4, <3>1
    <3>4. ~(Cardinality(upto(m)) >= n) /\ Cardinality(low) \in Nat
      BY <1>1, <3>3
    <3> HIDE DEF low, upto
    <3> QED BY <3>2, <3>4
  <2> QED BY <2>1, <2>2
<1>7. Cardinality(upto(i)) >= n /\ Cardinality(low) \in Nat /\ i \in S
  BY <1>1, <1>4
<1>8. Cardinality(upto(i)) = n
  <2> HIDE DEF low, upto
  <2> QED BY <1>5, <1>6, <1>7
<1> QED BY <1>7, <1>8

\* However a root is spelt, it becomes a directory: nothing, or a key that ends
\* with a slash.
LEMMA Normalized ==
  ASSUME NEW root \in Key
  PROVE  normalize_root(root) \in {r \in Key : r = <<>> \/ ends_with_slash(r)}
<1> DEFINE spelt == Append(root, Slash)
           N     == Len(root) + 1
           kept  == {i \in DOMAIN spelt : spelt[i] # Slash \/ (i > 1 /\ spelt[i - 1] # Slash)}
           upto(i) == {h \in kept : h <= i}
           at(n) == CHOOSE i \in kept : Cardinality(upto(i)) = n
           C     == Cardinality(kept)
           clean == [n \in 1..C |-> spelt[at(n)]]
<1>1. normalize_root(root) = clean
  BY DEF normalize_root
<1>2. N \in Nat /\ DOMAIN spelt = 1..N /\ spelt[N] = Slash /\ \A i \in 1..N : spelt[i] \in CodePoint
  BY SlashHasSuccessor DEF Key
<1> HIDE DEF spelt, N
<1>3. kept \in SUBSET (1..N)
  BY <1>2
<1>4. \A i \in 1..N : i \in kept <=> spelt[i] # Slash \/ (i > 1 /\ spelt[i - 1] # Slash)
  BY <1>2
<1> HIDE DEF kept
<1>5. IsFiniteSet(kept) /\ C \in Nat
  <2>1. IsFiniteSet(1..N)
    BY <1>2, FS_Interval
  <2>2. IsFiniteSet(kept)
    BY <1>3, <2>1, FS_Subset
  <2> QED BY <2>2, FS_CardinalityType
<1> HIDE DEF C
<1>6. \A n \in 1..C : at(n) \in kept /\ Cardinality(upto(at(n))) = n
  <2> TAKE n \in 1..C
  <2>1. \E i \in kept : Cardinality(upto(i)) = n
    BY <1>2, <1>3, Counted DEF C
  <2> HIDE DEF upto
  <2> QED BY <2>1
<1> HIDE DEF at
<1>7. clean \in Key /\ Len(clean) = C
  <2>1. \A n \in 1..C : spelt[at(n)] \in CodePoint
    BY <1>2, <1>3, <1>6
  <2> QED BY <1>5, <2>1 DEF Key
<1>8. CASE C = 0
  <2>1. clean = <<>>
    BY <1>7, <1>8, EmptySeq DEF Key
  <2> QED BY <1>1, <1>7, <2>1
<1>9. CASE C # 0
  <2> DEFINE last == at(C)
  <2>1. last \in kept /\ Cardinality(upto(last)) = C
    BY <1>5, <1>6, <1>9
  <2> HIDE DEF last
  <2>2. upto(last) = kept
    <3>1. upto(last) \in SUBSET kept
      OBVIOUS
    <3> HIDE DEF upto
    <3> QED BY <1>5, <2>1, <3>1, FS_Subset DEF C
  <2>3. \A h \in kept : h <= last
    BY <2>2
  <2>4. spelt[last] = Slash
    <3> SUFFICES ASSUME spelt[last] # Slash PROVE FALSE
      OBVIOUS
    <3>1. last \in 1..N /\ last # N
      BY <1>2, <1>3, <2>1
    <3>2. last + 1 \in 1..N /\ last + 1 > 1 /\ (last + 1) - 1 = last
      BY <1>2, <3>1
    <3>3. last + 1 \in kept
      BY <1>4, <3>2
    <3> QED BY <2>3, <3>1, <3>3
  <2>5. clean[Len(clean)] = Slash /\ Len(clean) # 0
    BY <1>5, <1>7, <1>9, <2>4 DEF last
  <2>6. clean # <<>>
    <3> HIDE DEF clean
    <3> QED BY <1>7, <2>5
  <2> HIDE DEF clean
  <2> QED BY <1>1, <1>7, <2>5, <2>6 DEF ends_with_slash
<1> QED BY <1>8, <1>9
---------------------------------------------------------------------------
(***************************************************************************)
(* What an operator is built to.                                           *)
(***************************************************************************)
Roots == {r \in Key : r = <<>> \/ ends_with_slash(r)}
Backends == [db : Databases, data : StoreNames,
             meta : {meta_store_name_for(n) : n \in StoreNames}, root : Roots]

LEMMA NamesAre ==
  /\ StoreNames \subseteq Name
  /\ <<"main">> \in StoreNames /\ <<"opendal">> \in Databases
  /\ \A o \in Operators : \A config \in Configs[o] :
       /\ config.db_name # None => config.db_name \in Databases
       /\ config.object_store_name # None => config.object_store_name \in StoreNames
       /\ config.root # None => config.root \in Key
<1>1. \A o \in Operators : \A config \in Configs[o] : config \in Config /\ config \in Configured
  BY ConfigAssumption DEF Configured
<1>2. <<"main">> \in Name /\ <<"opendal">> \in Name
  BY ConfigAssumption
<1>3. \A config \in Configured : config \in Config
  BY <1>1 DEF Configured
<1>4. None \notin Name
  BY ConfigAssumption
<1>5. <<"main">> \in StoreNames /\ <<"opendal">> \in Databases
  BY <1>2, <1>4 DEF StoreNames, Databases
<1>6. StoreNames \subseteq Name
  BY <1>2, <1>3 DEF StoreNames, Config
<1>7. ASSUME NEW o \in Operators, NEW config \in Configs[o]
      PROVE  /\ config.db_name # None => config.db_name \in Databases
             /\ config.object_store_name # None => config.object_store_name \in StoreNames
             /\ config.root # None => config.root \in Key
  BY <1>1 DEF Databases, StoreNames, Config
<1> QED BY <1>5, <1>6, <1>7

\* The data store of an operator is never named like a sidecar store.
Roles(b) == ~starts_with(b.data, META_STORE_PREFIX) /\ b.meta = meta_store_name_for(b.data)

LEMMA BuildType ==
  ASSUME NEW o \in Operators, NEW config \in Configs[o], build(config) # ConfigInvalid
  PROVE  build(config) \in Backends /\ Roles(build(config))
<1> DEFINE db   == IF config.db_name = None THEN <<"opendal">> ELSE config.db_name
           name == IF config.object_store_name = None THEN <<"main">> ELSE config.object_store_name
           root == IF config.root = None THEN <<>> ELSE config.root
<1>1. db \in Databases /\ name \in StoreNames
  BY NamesAre
<1>2. normalize_root(root) \in Roots
  <2>1. root \in Key
    BY NamesAre DEF Key
  <2> HIDE DEF root
  <2> QED BY <2>1, Normalized DEF Roots
<1> HIDE DEF db, name, root
<1>3. /\ ~starts_with(name, META_STORE_PREFIX)
      /\ build(config) = [db |-> db, data |-> name, meta |-> meta_store_name_for(name),
                          root |-> normalize_root(root)]
  BY DEF build, db, name, root
<1> QED BY <1>1, <1>2, <1>3 DEF Backends, Roles
---------------------------------------------------------------------------
(***************************************************************************)
(* The invariant.  Beside the types: no data store is a sidecar store.     *)
(***************************************************************************)
StoreOK(store) == /\ DOMAIN store \subseteq Key
                  /\ \A k \in DOMAIN store : store[k] \in Operators
BInv == TypeOK /\ \A o \in Operators : Built(o) => Roles(backend[o])

LEMMA Typed ==
  TypeOK <=> /\ backend \in [Operators -> {Unbuilt, ConfigInvalid} \cup Backends]
             /\ DOMAIN records = Places
             /\ \A place \in Places : StoreOK(records[place])
BY Zenon DEF TypeOK, Backends, Roots, StoreOK

\* A built operator has two stores in its database, and its keys are keys.
LEMMA OperatorStores ==
  ASSUME TypeOK, NEW o \in Operators, Built(o)
  PROVE  /\ backend[o] \in Backends
         /\ Data(o) \in Places /\ Meta(o) \in Places
         /\ StoreOK(records[Data(o)]) /\ StoreOK(records[Meta(o)])
         /\ \A path \in FilePaths \cup DirPaths : Abs(o, path) \in Key
         /\ Abs(o, <<>>) \in Key
<1>1. backend[o] \in Backends
  BY Typed DEF Built
<1>2. Data(o) \in Places /\ Meta(o) \in Places
  BY <1>1 DEF Backends, Data, Meta, Places
<1>3. \A r, p \in Key : build_abs_path(r, p) \in Key
  BY DEF build_abs_path, Key
<1>4. backend[o].root \in Key /\ <<>> \in Key
  BY <1>1 DEF Backends, Roots, Key
<1> QED BY <1>1, <1>2, <1>3, <1>4, Typed, ConfigAssumption DEF Abs

LEMMA WithOK ==
  ASSUME NEW store, StoreOK(store), NEW k \in Key, NEW o \in Operators
  PROVE  StoreOK(With(store, k, o))
BY DEF StoreOK, With

LEMMA OnlyOK ==
  ASSUME NEW store, StoreOK(store), NEW keys \in SUBSET DOMAIN store
  PROVE  StoreOK(Only(store, keys))
BY DEF StoreOK, Only

LEMMA TransactionOK ==
  ASSUME BInv, NEW o \in Operators, NEW D, NEW M, StoreOK(D), StoreOK(M), Transaction(o, D, M)
  PROVE  BInv'
<1>1. /\ records' = [records EXCEPT ![Data(o)] = D, ![Meta(o)] = M]
      /\ backend' = backend
  BY DEF Transaction
<1>2. DOMAIN records' = Places
  BY <1>1, Typed DEF BInv
<1>3. \A place \in Places : StoreOK(records'[place])
  <2> TAKE place \in Places
  <2>1. records'[place] \in {D, M, records[place]}
    BY <1>1, Typed DEF BInv
  <2> QED BY <2>1, Typed DEF BInv
<1>4. TypeOK'
  BY <1>1, <1>2, <1>3, Typed DEF BInv, TypeOK, StoreOK
<1> QED BY <1>1, <1>4 DEF BInv, Built
---------------------------------------------------------------------------
(***************************************************************************)
(* What the calls touch.  All that a call writes or removes is below the   *)
(* root of its operator.                                                   *)
(***************************************************************************)
LEMMA StartsTransitive ==
  ASSUME NEW k \in Key, NEW p \in Key, NEW r \in Key, starts_with(k, p), starts_with(p, r)
  PROVE  starts_with(k, r)
<1>1. Len(k) \in Nat /\ Len(p) \in Nat /\ Len(r) \in Nat
  BY DEF Key
<1> QED BY <1>1 DEF starts_with

LEMMA AbsBelow ==
  ASSUME TypeOK, NEW o \in Operators, Built(o), NEW path \in Key
  PROVE  Abs(o, path) \in Key /\ starts_with(Abs(o, path), backend[o].root)
<1> DEFINE r == backend[o].root
<1>1. r \in Key
  BY OperatorStores DEF Backends, Roots
<1> HIDE DEF r
<1>2. r \o path \in Key /\ starts_with(r \o path, r) /\ starts_with(r, r)
  BY <1>1, ConcatProperties DEF Key, starts_with
<1>3. Abs(o, path) \in {r, r \o path}
  BY DEF Abs, build_abs_path, r
<1> QED BY <1>1, <1>2, <1>3 DEF r

LEMMA SubtreeBelow ==
  ASSUME NEW p \in Key
  PROVE  Subtree(p) \in Key /\ starts_with(Subtree(p), p)
<1>1. CASE ends_with_slash(p)
  BY <1>1 DEF Subtree, starts_with, Key
<1>2. CASE ~ends_with_slash(p)
  BY <1>2, SlashHasSuccessor DEF Subtree, starts_with, Key
<1> QED BY <1>1, <1>2

LEMMA MeantBelow ==
  ASSUME TypeOK, NEW o \in Operators, Built(o), NEW d \in [path : Key, recursive : BOOLEAN],
         NEW k \in Key, Meant(o, d, k)
  PROVE  starts_with(k, backend[o].root)
<1> DEFINE p == Abs(o, d.path)
           r == backend[o].root
<1>1. p \in Key /\ starts_with(p, r)
  BY AbsBelow
<1>2. r \in Key
  BY OperatorStores DEF Backends, Roots
<1> HIDE DEF p, r
<1>3. k = p \/ p = <<>> \/ starts_with(k, Subtree(p))
  BY DEF Meant, p, Subtree
<1>4. CASE k = p
  BY <1>1, <1>4 DEF r
<1>5. CASE p = <<>>
  <2>1. Len(r) = 0 /\ Len(k) \in Nat
    BY <1>1, <1>2, <1>5 DEF starts_with, Key
  <2>2. starts_with(k, r)
    BY <2>1 DEF starts_with
  <2> QED BY <2>2 DEF r
<1>6. CASE starts_with(k, Subtree(p))
  BY <1>1, <1>2, <1>6, SubtreeBelow, StartsTransitive DEF r
<1> QED BY <1>3, <1>4, <1>5, <1>6

\* A delete leaves the keys that it does not mean, in either store.
LEMMA RemainingKeys ==
  ASSUME TypeOK, NEW o \in Operators, Built(o),
         NEW batch \in SUBSET [path : Key, recursive : BOOLEAN],
         NEW keys \in SUBSET Key, NEW k \in keys
  PROVE  k \in Remaining(o, batch, keys) <=> \A d \in batch : ~Meant(o, d, k)
<1>1. ASSUME NEW d \in batch
      PROVE  (IF d.recursive THEN k \in delete_recursive(DOMAIN records[Data(o)], keys, Abs(o, d.path))
              ELSE k # Abs(o, d.path)) <=> ~Meant(o, d, k)
  <2> DEFINE p == Abs(o, d.path)
             data == DOMAIN records[Data(o)]
  <2>1. p \in Key /\ d.recursive \in BOOLEAN
    BY AbsBelow
  <2>2. Meant(o, d, k) <=> \/ k = p
                           \/ d.recursive /\ (p = <<>> \/ starts_with(k, Subtree(p)))
    BY DEF Meant, Subtree
  <2> HIDE DEF p, data
  <2>3. CASE p = <<>>
    <3>1. delete_recursive(data, keys, p) = {}
      BY <2>3 DEF delete_recursive, delete_prefix, recursive_delete_target
    <3>2. (IF d.recursive THEN k \in delete_recursive(data, keys, p) ELSE k # p) <=> ~Meant(o, d, k)
      BY <2>1, <2>2, <2>3, <3>1
    <3> QED BY <3>2 DEF p, data
  <2>4. CASE p # <<>>
    <3>1. k \in delete_recursive(data, keys, p) <=> k # p /\ ~starts_with(k, Subtree(p))
      BY <2>1, <2>4, RecursiveDelete
    <3>2. (IF d.recursive THEN k \in delete_recursive(data, keys, p) ELSE k # p) <=> ~Meant(o, d, k)
      BY <2>1, <2>2, <2>4, <3>1
    <3> QED BY <3>2 DEF p, data
  <2> QED BY <2>3, <2>4
<1> QED BY <1>1 DEF Remaining
---------------------------------------------------------------------------
SameOutside(s, t, root) ==
  \A k \in Key : ~starts_with(k, root) => /\ k \in DOMAIN s <=> k \in DOMAIN t
                                          /\ k \in DOMAIN s => s[k] = t[k]

LEMMA WithSame ==
  ASSUME NEW s, NEW root, NEW k, starts_with(k, root), NEW o
  PROVE  SameOutside(s, With(s, k, o), root)
BY DEF SameOutside, With

LEMMA OnlySame ==
  ASSUME NEW s, NEW root, NEW keys \in SUBSET DOMAIN s,
         \A k \in DOMAIN s \ keys : starts_with(k, root)
  PROVE  SameOutside(s, Only(s, keys), root)
BY DEF SameOutside, Only

\* A store that a call leaves behind is a store, and is as it was outside the
\* root.
Leaves(o, s, t) == StoreOK(t) /\ SameOutside(s, t, backend[o].root)

LEMMA PutLeaves ==
  ASSUME TypeOK, NEW o \in Operators, Built(o), NEW path \in Key,
         NEW s, StoreOK(s)
  PROVE  Leaves(o, s, With(s, Abs(o, path), o))
BY AbsBelow, WithOK, WithSame DEF Leaves

LEMMA MoveLeaves ==
  ASSUME TypeOK, NEW o \in Operators, Built(o), NEW from \in Key, NEW to \in Key,
         NEW w \in Operators, NEW s, StoreOK(s)
  PROVE  Leaves(o, s, With(Only(s, DOMAIN s \ {Abs(o, from)}), Abs(o, to), w))
<1> DEFINE t == Only(s, DOMAIN s \ {Abs(o, from)})
           r == backend[o].root
<1>1. StoreOK(t) /\ SameOutside(s, t, r)
  BY AbsBelow, OnlyOK, OnlySame
<1> HIDE DEF t
<1>2. StoreOK(With(t, Abs(o, to), w)) /\ SameOutside(t, With(t, Abs(o, to), w), r)
  BY <1>1, AbsBelow, WithOK, WithSame
<1>3. SameOutside(s, With(t, Abs(o, to), w), r)
  BY <1>1, <1>2 DEF SameOutside
<1> QED BY <1>2, <1>3 DEF Leaves, t

LEMMA DeleteLeaves ==
  ASSUME TypeOK, NEW o \in Operators, Built(o),
         NEW batch \in SUBSET [path : Key, recursive : BOOLEAN], NEW s, StoreOK(s)
  PROVE  Leaves(o, s, Only(s, Remaining(o, batch, DOMAIN s)))
<1>1. DOMAIN s \in SUBSET Key
  BY DEF StoreOK
<1> DEFINE left == Remaining(o, batch, DOMAIN s)
<1>2. left \in SUBSET DOMAIN s
  BY DEF Remaining
<1>3. \A k \in DOMAIN s \ left : starts_with(k, backend[o].root)
  BY <1>1, RemainingKeys, MeantBelow
<1> HIDE DEF left
<1>4. Leaves(o, s, Only(s, left))
  BY <1>2, <1>3, OnlyOK, OnlySame DEF Leaves
<1> QED BY <1>4 DEF left

\* A call of a built operator is a transaction over its two stores that keeps
\* below its root.
LEMMA CallIsTransaction ==
  ASSUME BInv, NEW o \in Operators, Act(o), Built(o)
  PROVE  \E D, M : /\ Transaction(o, D, M)
                   /\ Leaves(o, records[Data(o)], D) /\ Leaves(o, records[Meta(o)], M)
<1>1. TypeOK /\ StoreOK(records[Data(o)]) /\ StoreOK(records[Meta(o)])
  BY OperatorStores DEF BInv
<1>2. /\ \A path \in FilePaths \cup DirPaths : path \in Key
      /\ \A batch \in Batches : batch \in SUBSET [path : Key, recursive : BOOLEAN]
  BY ConfigAssumption
<1>3. ASSUME NEW path \in Key, Put(o, Abs(o, path))
      PROVE  \E D, M : /\ Transaction(o, D, M)
                       /\ Leaves(o, records[Data(o)], D) /\ Leaves(o, records[Meta(o)], M)
  BY <1>1, <1>3, PutLeaves DEF Put
<1>4. ASSUME NEW config \in Configs[o], Build(o, config) PROVE FALSE
  BY <1>4 DEF Build, Built
<1>5. ASSUME NEW path \in FilePaths, Set(o, path) PROVE Put(o, Abs(o, path))
  BY <1>5 DEF Set
<1>6. ASSUME NEW path \in DirPaths, CreateDir(o, path) PROVE Put(o, Abs(o, path))
  BY <1>6 DEF CreateDir
<1>7. ASSUME NEW from \in FilePaths, NEW to \in FilePaths, Copy(o, from, to)
      PROVE  Put(o, Abs(o, to))
  BY <1>7 DEF Copy
<1>8. ASSUME NEW from \in FilePaths, NEW to \in FilePaths, Rename(o, from, to)
      PROVE  \E D, M : /\ Transaction(o, D, M)
                       /\ Leaves(o, records[Data(o)], D) /\ Leaves(o, records[Meta(o)], M)
  <2> DEFINE w == records[Data(o)][Abs(o, from)]
             Moved(store) == With(Only(store, DOMAIN store \ {Abs(o, from)}), Abs(o, to), w)
  <2>1. Transaction(o, Moved(records[Data(o)]), Moved(records[Meta(o)]))
    BY <1>8, Zenon DEF Rename
  <2>2. w \in Operators
    BY <1>1, <1>8 DEF Rename, StoreOK
  <2>3. /\ Leaves(o, records[Data(o)], Moved(records[Data(o)]))
        /\ Leaves(o, records[Meta(o)], Moved(records[Meta(o)]))
    <3> HIDE DEF w
    <3> QED BY <1>1, <1>2, <2>2, MoveLeaves
  <2> HIDE DEF Moved
  <2> QED BY <2>1, <2>3
<1>9. ASSUME NEW batch \in Batches, Delete(o, batch)
      PROVE  \E D, M : /\ Transaction(o, D, M)
                       /\ Leaves(o, records[Data(o)], D) /\ Leaves(o, records[Meta(o)], M)
  <2> DEFINE Rest(store) == Only(store, Remaining(o, batch, DOMAIN store))
  <2>1. Transaction(o, Rest(records[Data(o)]), Rest(records[Meta(o)]))
    BY <1>9, Zenon DEF Delete
  <2>2. /\ Leaves(o, records[Data(o)], Rest(records[Data(o)]))
        /\ Leaves(o, records[Meta(o)], Rest(records[Meta(o)]))
    BY <1>1, <1>2, DeleteLeaves
  <2> HIDE DEF Rest
  <2> QED BY <2>1, <2>2
<1> QED BY <1>2, <1>3, <1>4, <1>5, <1>6, <1>7, <1>8, <1>9 DEF Act
---------------------------------------------------------------------------
LEMMA BInvInit == Init => BInv
<1> SUFFICES ASSUME Init PROVE BInv
  OBVIOUS
<1>1. \A o \in Operators : backend[o] = Unbuilt
  BY DEF Init
<1>2. \A place \in Places : records[place] = [k \in {} |-> None]
  BY DEF Init
<1>3. TypeOK
  BY <1>2, Typed DEF Init, StoreOK
<1> QED BY <1>1, <1>3 DEF BInv, Built

LEMMA BInvNext == BInv /\ [Next]_vars => BInv'
<1> SUFFICES ASSUME BInv, [Next]_vars PROVE BInv'
  OBVIOUS
<1>1. ASSUME NEW o \in Operators, Act(o), Built(o) PROVE BInv'
  BY <1>1, CallIsTransaction, TransactionOK DEF Leaves
<1>2. ASSUME NEW o \in Operators, Act(o), ~Built(o) PROVE BInv'
  <2>1. PICK config \in Configs[o] : Build(o, config)
    BY <1>2 DEF Act, Set, CreateDir, Copy, Rename, Delete
  <2>2. /\ backend' = [backend EXCEPT ![o] = build(config)]
        /\ records' = records
    BY <2>1 DEF Build
  <2>3. build(config) # ConfigInvalid => build(config) \in Backends /\ Roles(build(config))
    BY BuildType
  <2>4. backend' \in [Operators -> {Unbuilt, ConfigInvalid} \cup Backends]
    BY <2>2, <2>3, Typed DEF BInv
  <2>5. \A q \in Operators : Built(q)' => Roles(backend'[q])
    BY <2>2, <2>3, Typed DEF BInv, Built
  <2>6. TypeOK'
    BY <2>2, <2>4, Typed DEF BInv, TypeOK, Backends, Roots
  <2> QED BY <2>5, <2>6 DEF BInv
<1>3. CASE UNCHANGED vars
  BY <1>3 DEF vars, BInv, TypeOK, Built, Roles
<1> QED BY <1>1, <1>2, <1>3 DEF Next

LEMMA BackendInvariant == Spec => []BInv
BY BInvInit, BInvNext, PTL DEF Spec

\* Every operator is built to a root that is a directory and to stores of its
\* database, however its configuration is spelt, and the stores hold what
\* operators wrote.
THEOREM TypeCorrect == Spec => []TypeOK
<1>1. BInv => TypeOK
  BY DEF BInv
<1> QED BY <1>1, BackendInvariant, PTL
---------------------------------------------------------------------------
(***************************************************************************)
(* Deletes.                                                                *)
(***************************************************************************)
\* A delete removes exactly the keys that its batch means, whatever keys are
\* there: the ranges that it gives IndexedDB hold no other.
THEOREM DeletesAreExact == Spec => DeletesSubtrees
<1>1. ASSUME TypeOK, NEW o \in Operators, NEW batch \in Batches, Delete(o, batch),
             NEW k \in DOMAIN records[Data(o)]
      PROVE  k \in DOMAIN records'[Data(o)] <=> \A d \in batch : ~Meant(o, d, k)
  <2>1. Built(o)
    BY <1>1 DEF Delete
  <2>2. Data(o) \in Places /\ Meta(o) \in Places /\ DOMAIN records[Data(o)] \in SUBSET Key
    BY <1>1, <2>1, OperatorStores DEF StoreOK
  <2> DEFINE Rest(store) == Only(store, Remaining(o, batch, DOMAIN store))
  <2>3. records' = [records EXCEPT ![Data(o)] = Rest(records[Data(o)]),
                                   ![Meta(o)] = Rest(records[Meta(o)])]
    BY <1>1, Zenon DEF Delete, Transaction
  <2> HIDE DEF Rest
  <2>4. records'[Data(o)] = Rest(records[Data(o)])
    BY <1>1, <2>2, <2>3, Typed
  <2>5. DOMAIN records'[Data(o)] = Remaining(o, batch, DOMAIN records[Data(o)])
    BY <2>4 DEF Rest, Only
  <2>6. batch \in SUBSET [path : Key, recursive : BOOLEAN]
    BY ConfigAssumption
  <2> QED BY <1>1, <2>1, <2>2, <2>5, <2>6, RemainingKeys
<1>2. TypeOK /\ [Next]_vars =>
        [\A o \in Operators, batch \in Batches :
           Delete(o, batch) =>
             \A k \in DOMAIN records[Data(o)] :
               k \in DOMAIN records'[Data(o)] <=> \A d \in batch : ~Meant(o, d, k)]_vars
  BY <1>1
<1> QED BY <1>2, TypeCorrect, PTL DEF Spec, DeletesSubtrees
---------------------------------------------------------------------------
(***************************************************************************)
(* Isolation.                                                              *)
(***************************************************************************)
LEMMA MetaNames ==
  ASSUME NEW m \in StoreNames, NEW n \in StoreNames
  PROVE  /\ meta_store_name_for(m) = meta_store_name_for(n) => m = n
         /\ starts_with(meta_store_name_for(m), META_STORE_PREFIX)
<1> DEFINE S == STRING \cup {"__opendal_indexeddb_meta__"}
<1>1. m \in Seq(S) /\ n \in Seq(S)
  <2>1. m \in Seq(STRING) /\ n \in Seq(STRING)
    BY NamesAre DEF Name
  <2> QED BY <2>1, SeqMonotonic
<1>2. META_STORE_PREFIX \in Seq(S) /\ Len(META_STORE_PREFIX) = 1
  BY DEF META_STORE_PREFIX
<1> HIDE DEF S
<1>3. ASSUME NEW s \in Seq(S)
      PROVE  /\ Len(META_STORE_PREFIX \o s) = 1 + Len(s)
             /\ (META_STORE_PREFIX \o s)[1] = META_STORE_PREFIX[1]
             /\ \A i \in 1..Len(s) : (META_STORE_PREFIX \o s)[i + 1] = s[i]
  <2>1. Len(s) \in Nat /\ Len(META_STORE_PREFIX \o s) = 1 + Len(s)
    <3>1. Len(META_STORE_PREFIX \o s) = Len(META_STORE_PREFIX) + Len(s)
      BY <1>2, <1>3, ConcatProperties, Zenon
    <3>2. Len(s) \in Nat
      BY <1>3, LenProperties
    <3> QED BY <1>2, <3>1, <3>2
  <2>2. \A i \in 1..(1 + Len(s)) :
          (META_STORE_PREFIX \o s)[i] = IF i <= 1 THEN META_STORE_PREFIX[i] ELSE s[i - 1]
    <3>1. \A i \in 1..(Len(META_STORE_PREFIX) + Len(s)) :
            (META_STORE_PREFIX \o s)[i] = IF i <= Len(META_STORE_PREFIX) THEN META_STORE_PREFIX[i]
                                          ELSE s[i - Len(META_STORE_PREFIX)]
      BY <1>2, <1>3, ConcatProperties, Zenon
    <3> QED BY <1>2, <3>1, Zenon
  <2> QED BY <2>1, <2>2
<1>4. ASSUME META_STORE_PREFIX \o m = META_STORE_PREFIX \o n PROVE m = n
  <2> DEFINE pm == META_STORE_PREFIX \o m
             pn == META_STORE_PREFIX \o n
  <2>0. /\ Len(pm) = 1 + Len(m) /\ \A i \in 1..Len(m) : pm[i + 1] = m[i]
        /\ Len(pn) = 1 + Len(n) /\ \A i \in 1..Len(n) : pn[i + 1] = n[i]
    BY <1>1, <1>3, Zenon
  <2>1. Len(m) \in Nat /\ Len(n) \in Nat
    BY <1>1, LenProperties
  <2> HIDE DEF pm, pn
  <2>3. pm = pn
    BY <1>4 DEF pm, pn
  <2>4. Len(m) = Len(n)
    BY <2>0, <2>1, <2>3
  <2>2. \A i \in 1..Len(m) : m[i] = n[i]
    BY <2>0, <2>3, <2>4
  <2> QED BY <1>1, <2>2, <2>4, SeqEqual
<1> QED BY <1>1, <1>2, <1>3, <1>4 DEF meta_store_name_for, starts_with

\* Operators with different data stores share no store at all.
LEMMA StoresApart ==
  ASSUME BInv, NEW o \in Operators, NEW q \in Operators, Built(o), Built(q), Data(o) # Data(q)
  PROVE  {Data(o), Meta(o)} \cap {Data(q), Meta(q)} = {}
<1> DEFINE b == backend[o]
           c == backend[q]
<1>1. b \in Backends /\ c \in Backends /\ Roles(b) /\ Roles(c)
  BY OperatorStores DEF BInv
<1> HIDE DEF b, c
<1>2. b.data \in StoreNames /\ c.data \in StoreNames
  BY <1>1 DEF Backends
<1>3. b.data # c.meta /\ c.data # b.meta /\ (b.meta = c.meta => b.data = c.data)
  BY <1>1, <1>2, MetaNames DEF Roles
<1> QED BY <1>3 DEF Data, Meta, b, c

LEMMA CallKeepsOthers ==
  ASSUME BInv, NEW o \in Operators, NEW q \in Operators, Built(o), Built(q), Unrelated(o, q),
         Act(q), NEW place \in {Data(o), Meta(o)},
         NEW k \in Key, starts_with(k, backend[o].root)
  PROVE  /\ k \in DOMAIN records'[place] <=> k \in DOMAIN records[place]
         /\ k \in DOMAIN records[place] => records'[place][k] = records[place][k]
<1>1. PICK D, M : /\ Transaction(q, D, M)
                  /\ Leaves(q, records[Data(q)], D) /\ Leaves(q, records[Meta(q)], M)
  BY CallIsTransaction
<1>2. records' = [records EXCEPT ![Data(q)] = D, ![Meta(q)] = M] /\ DOMAIN records = Places
  BY <1>1, Typed DEF Transaction, BInv
<1>3. place \in Places /\ Data(q) \in Places /\ Meta(q) \in Places
  BY OperatorStores DEF BInv
<1>4. CASE place \notin {Data(q), Meta(q)}
  <2>1. records'[place] = records[place]
    BY <1>2, <1>3, <1>4
  <2> QED BY <2>1
<1>5. CASE place \in {Data(q), Meta(q)}
  <2>1. Data(o) = Data(q)
    BY <1>5, StoresApart
  <2>2. /\ ~starts_with(backend[o].root, backend[q].root)
        /\ ~starts_with(backend[q].root, backend[o].root)
    BY <2>1 DEF Unrelated
  <2>3. ~starts_with(k, backend[q].root)
    <3>1. backend[o].root \in Key /\ backend[q].root \in Key
      BY OperatorStores DEF BInv, Backends, Roots
    <3> DEFINE r == backend[o].root
               s == backend[q].root
    <3>2. Len(r) \in Nat /\ Len(s) \in Nat
      BY <3>1 DEF Key
    <3> HIDE DEF r, s
    <3>3. starts_with(k, r) /\ starts_with(k, s) => starts_with(r, s) \/ starts_with(s, r)
      BY <3>2 DEF starts_with
    <3> QED BY <2>2, <3>3 DEF r, s
  <2>4. \/ records'[place] = D /\ place = Data(q)
        \/ records'[place] = M /\ place = Meta(q)
    BY <1>2, <1>3, <1>5
  <2> QED BY <1>1, <2>3, <2>4 DEF Leaves, SameOutside
<1> QED BY <1>4, <1>5

\* What an operator sees is not changed by a call of an unrelated one.
THEOREM OperatorsIsolated == Spec => Isolation
<1>1. ASSUME BInv, NEW o \in Operators, NEW q \in Operators, Built(o), Built(q),
             Unrelated(o, q), Act(q)
      PROVE  View(records', o) = View(records, o)
  <2>1. StoreOK(records[Data(o)]) /\ StoreOK(records[Meta(o)])
    BY <1>1, OperatorStores DEF BInv
  <2>2. StoreOK(records'[Data(o)]) /\ StoreOK(records'[Meta(o)])
    <3>1. BInv'
      BY <1>1, CallIsTransaction, TransactionOK DEF Leaves
    <3>2. \A place \in Places : StoreOK(records'[place])
      BY <3>1 DEF BInv, TypeOK, StoreOK
    <3> QED BY <1>1, <3>2, OperatorStores DEF BInv
  <2>3. ASSUME NEW place \in {Data(o), Meta(o)}
        PROVE  {<<k, records'[place][k]>> :
                  k \in {p \in DOMAIN records'[place] : starts_with(p, backend[o].root)}} =
               {<<k, records[place][k]>> :
                  k \in {p \in DOMAIN records[place] : starts_with(p, backend[o].root)}}
    <3>1. DOMAIN records[place] \subseteq Key /\ DOMAIN records'[place] \subseteq Key
      BY <2>1, <2>2, <2>3 DEF StoreOK
    <3>2. \A k \in Key : starts_with(k, backend[o].root) =>
            /\ k \in DOMAIN records'[place] <=> k \in DOMAIN records[place]
            /\ k \in DOMAIN records[place] => records'[place][k] = records[place][k]
      BY <1>1, <2>3, CallKeepsOthers
    <3> QED BY <3>1, <3>2
  <2> QED BY <2>3 DEF View
<1>2. BInv /\ [Next]_vars =>
        [\A o, q \in Operators :
           /\ Built(o) /\ Built(q) /\ Unrelated(o, q)
           /\ View(records', o) # View(records, o)
           => ~Act(q)]_vars
  BY <1>1
<1> QED BY <1>2, BackendInvariant, PTL DEF Spec, Isolation
=============================================================================
