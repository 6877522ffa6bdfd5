-------------------------------- MODULE Backend --------------------------------
(***************************************************************************)
(* Operators side by side.  IndexeddbBuilder turns a configuration into an *)
(* operator with a data store, a sidecar store and a root, in a database   *)
(* that other operators may share; its calls become transactions over keys *)
(* below the root.  What a transaction does to values is in TxnStore: here *)
(* a record is the operator that wrote it last, and each call is atomic.   *)
(***************************************************************************)
EXTENDS Keys

CONSTANTS
  Unbuilt,        \* an operator that does not exist yet
  ConfigInvalid,  \* the error of a configuration that is refused
  Operators,  \* the operators an application builds
  Configs,    \* of each operator: the configurations it may have
  FilePaths,  \* paths of files, relative to a root
  DirPaths,   \* paths of directories, relative to a root; "/" is the root
  Batches     \* the batches that are deleted: sets of [path, recursive]

VARIABLES
  backend,  \* what each operator was built to, Unbuilt or ConfigInvalid
  records   \* of each database and store: the record at each key in it

vars == <<backend, records>>

\* A name is a sequence of parts, the empty one the string "", so that a
\* reserved prefix is a first part.
Name == Seq(STRING)
Config == [db_name : Name \cup {None}, object_store_name : Name \cup {None}, root : Key \cup {None}]

ASSUME ConfigAssumption ==
  /\ Configs \in [Operators -> SUBSET Config]
  /\ None \notin Name
  /\ {<<"opendal">>, <<"main">>} \subseteq Name   \* true, but no prover knows a literal to be in STRING
  /\ FilePaths \cup DirPaths \subseteq Key
  /\ Batches \subseteq SUBSET [path : FilePaths \cup DirPaths, recursive : BOOLEAN]
---------------------------------------------------------------------------
(* The builder.                                                            *)

META_STORE_PREFIX == <<"__opendal_indexeddb_meta__">>
meta_store_name_for(name) == META_STORE_PREFIX \o name

\* opendal: the segments of a root that are not empty, each with one slash
\* behind it.  Of the slashes only those that end a segment are kept.
normalize_root(root) ==
  LET spelt == Append(root, Slash)
      kept  == {i \in DOMAIN spelt : spelt[i] # Slash \/ (i > 1 /\ spelt[i - 1] # Slash)}
      at(n) == CHOOSE i \in kept : Cardinality({h \in kept : h <= i}) = n
  IN  [n \in 1..Cardinality(kept) |-> spelt[at(n)]]

\* Mutant: the reserved prefix is not refused.
build_unreserved(config) ==
  LET db   == IF config.db_name = None THEN <<"opendal">> ELSE config.db_name
      name == IF config.object_store_name = None THEN <<"main">> ELSE config.object_store_name
  IN  IF db = <<>> \/ name = <<>> THEN ConfigInvalid
      ELSE [db |-> db, data |-> name, meta |-> meta_store_name_for(name),
            root |-> normalize_root(IF config.root = None THEN <<>> ELSE config.root)]

\* Mutant: the root is taken as it is spelt.
build_raw_root(config) ==
  IF build_unreserved(config) = ConfigInvalid THEN ConfigInvalid
  ELSE [build_unreserved(config) EXCEPT !.root = IF config.root = None THEN <<>> ELSE config.root]

build(config) ==
  LET db   == IF config.db_name = None THEN <<"opendal">> ELSE config.db_name
      name == IF config.object_store_name = None THEN <<"main">> ELSE config.object_store_name
  IN  IF db = <<>> \/ name = <<>> \/ starts_with(name, META_STORE_PREFIX)
      THEN ConfigInvalid
      ELSE [db |-> db, data |-> name, meta |-> meta_store_name_for(name),
            root |-> normalize_root(IF config.root = None THEN <<>> ELSE config.root)]

Built(o) == backend[o] \notin {Unbuilt, ConfigInvalid}
---------------------------------------------------------------------------
(* The calls.                                                              *)

\* opendal: the key of a path relative to a root.
build_abs_path(root, path) == IF path = <<Slash>> THEN root ELSE root \o path
Abs(o, path) == build_abs_path(backend[o].root, path)

Data(o) == <<backend[o].db, backend[o].data>>
Meta(o) == <<backend[o].db, backend[o].meta>>

With(store, k, o) == [q \in DOMAIN store \cup {k} |-> IF q = k THEN o ELSE store[q]]
Only(store, keys) == [q \in keys |-> store[q]]

\* A transaction changes the data store and the sidecar store.
Transaction(o, data, meta) ==
  /\ records' = [records EXCEPT ![Data(o)] = data, ![Meta(o)] = meta]
  /\ UNCHANGED backend

Put(o, k) == Transaction(o, With(records[Data(o)], k, o), With(records[Meta(o)], k, o))

Build(o, config) ==
  /\ backend[o] = Unbuilt
  /\ backend' = [backend EXCEPT ![o] = build(config)]
  /\ UNCHANGED records

Set(o, path) == Built(o) /\ Put(o, Abs(o, path))

\* The root is there already; any other marker is written anew.
CreateDir(o, path) ==
  /\ Built(o)
  /\ Abs(o, path) # Abs(o, <<>>)
  /\ Put(o, Abs(o, path))

Copy(o, from, to) ==
  /\ Built(o) /\ from # to
  /\ Abs(o, from) \in DOMAIN records[Data(o)]
  /\ Put(o, Abs(o, to))

Rename(o, from, to) ==
  LET Moved(store) == With(Only(store, DOMAIN store \ {Abs(o, from)}), Abs(o, to),
                           records[Data(o)][Abs(o, from)])
  IN  /\ Built(o) /\ from # to
      /\ Abs(o, from) \in DOMAIN records[Data(o)]
      /\ Transaction(o, Moved(records[Data(o)]), Moved(records[Meta(o)]))

\* delete_many: key ranges for recursive entries, then the exact keys.
Remaining(o, batch, keys) ==
  {k \in keys : \A d \in batch :
     IF d.recursive THEN k \in delete_recursive(DOMAIN records[Data(o)], keys, Abs(o, d.path))
     ELSE k # Abs(o, d.path)}

Delete(o, batch) ==
  LET Rest(store) == Only(store, Remaining(o, batch, DOMAIN store))
  IN  /\ Built(o)
      /\ Transaction(o, Rest(records[Data(o)]), Rest(records[Meta(o)]))

Act(o) ==
  \/ \E config \in Configs[o] : Build(o, config)
  \/ \E path \in FilePaths : Set(o, path)
  \/ \E path \in DirPaths : CreateDir(o, path)
  \/ \E from, to \in FilePaths : Copy(o, from, to) \/ Rename(o, from, to)
  \/ \E batch \in Batches : Delete(o, batch)
---------------------------------------------------------------------------
Configured == UNION {Configs[o] : o \in Operators}
Databases == ({<<"opendal">>} \cup {config.db_name : config \in Configured}) \ {None}
StoreNames == ({<<"main">>} \cup {config.object_store_name : config \in Configured}) \ {None}
Places == Databases \X (StoreNames \cup {meta_store_name_for(n) : n \in StoreNames})

Init ==
  /\ backend = [o \in Operators |-> Unbuilt]
  /\ records = [place \in Places |-> [k \in {} |-> None]]

Next == \E o \in Operators : Act(o)

Spec == Init /\ [][Next]_vars
---------------------------------------------------------------------------
(* Properties.                                                             *)

\* Operators are built to a root that is a directory and to stores of the
\* database, and what the stores hold was written by operators.
TypeOK ==
  /\ backend \in [Operators -> {Unbuilt, ConfigInvalid}
                    \cup [db : Databases, data : StoreNames,
                          meta : {meta_store_name_for(n) : n \in StoreNames},
                          root : {r \in Key : r = <<>> \/ ends_with_slash(r)}]]
  /\ DOMAIN records = Places
  /\ \A place \in Places : /\ DOMAIN records[place] \subseteq Key
                           /\ \A k \in DOMAIN records[place] : records[place][k] \in Operators

\* Two operators whose data stores differ, or whose roots are not one below
\* the other.
Unrelated(o, q) ==
  \/ Data(o) # Data(q)
  \/ ~starts_with(backend[o].root, backend[q].root) /\ ~starts_with(backend[q].root, backend[o].root)

\* What an operator can see: the records and the sidecars below its root.
View(stores, o) ==
  [place \in {Data(o), Meta(o)} |->
     {<<k, stores[place][k]>> : k \in {q \in DOMAIN stores[place] : starts_with(q, backend[o].root)}}]

\* What an operator can see, records or sidecars, is not changed by a call of
\* an unrelated one: the roles of the stores do not overlap, and roots are
\* directories, not mere prefixes.
Isolation ==
  [][\A o, q \in Operators :
       /\ Built(o) /\ Built(q) /\ Unrelated(o, q)
       /\ View(records', o) # View(records, o)
       => ~Act(q)]_vars

\* The keys a delete of p is meant to remove: p, and with `recursive` all
\* below it as a directory.
Meant(o, d, k) ==
  LET p == Abs(o, d.path)
  IN  \/ k = p
      \/ d.recursive /\ (p = <<>> \/ starts_with(k, IF ends_with_slash(p) THEN p ELSE Append(p, Slash)))

\* A delete removes from the data store exactly the keys its batch means,
\* although it gives IndexedDB ranges: no sibling with a common prefix, and
\* nothing outside the root.
DeletesSubtrees ==
  [][\A o \in Operators, batch \in Batches :
       Delete(o, batch) =>
         \A k \in DOMAIN records[Data(o)] :
           k \in DOMAIN records'[Data(o)] <=> \A d \in batch : ~Meant(o, d, k)]_vars
=============================================================================
