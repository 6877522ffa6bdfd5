------------------------------ MODULE MCBackend ------------------------------
(***************************************************************************)
(* Instances of Backend for TLC: one operator in a given place, and        *)
(* another beside it, in one store or in stores that are, or pretend to    *)
(* be, shared.                                                             *)
(***************************************************************************)
EXTENDS Backend, TLC

CONSTANTS o1, o2

a == <<97>>
ab == <<97, 98>>
a_ == Append(a, Slash)
a_b == a_ \o <<98>>
a_dash == <<97, 45>>   \* "a-", which sorts in front of "a/"
root == <<Slash>>

InDatabase(name, r) == [db_name |-> name, object_store_name |-> None, root |-> r]
InStore(name) == [db_name |-> None, object_store_name |-> name, root |-> None]

\* Roots spelt in several ways; names that are empty, reserved, the default.
MCConfigs ==
  (o1 :> {InDatabase(None, a), InStore(<<"main">>)}) @@
  (o2 :> ({InDatabase(None, r) : r \in {None, root \o ab \o root, root \o a, root \o a \o root \o root \o ab}}
           \cup {InDatabase(<<>>, None), InDatabase(<<"other">>, None), InStore(<<>>), InStore(<<"files">>),
                 InStore(META_STORE_PREFIX \o <<"main">>)}))

\* Paths around a subtree in the order of keys.
Batch(paths, recursive) == {[path |-> p, recursive |-> recursive] : p \in paths}
MCFiles == {a, a_b, a_dash}
MCDirs == {a_, root}
MCBatches == {Batch({a}, TRUE), Batch({root}, TRUE),
              Batch({a_}, TRUE) \cup Batch({a_dash}, FALSE), Batch({a, a_}, FALSE)}
=============================================================================
