------------------------------ MODULE MCAdapters ------------------------------
(* An instance of Adapters for TLC: "fx" is "f/x".                         *)
EXTENDS Adapters

CONSTANTS f, fx, b, c, text

MCSubtree == [p \in Paths |-> IF p = f THEN {f, fx} ELSE {p}]
MCTargets == [path : {f}, append : {TRUE}, if_not_exists : {FALSE}]
               \cup [path : {f}, append : {FALSE}, if_not_exists : {TRUE}]
MCDeletions == {[path |-> f, recursive |-> FALSE], [path |-> fx, recursive |-> FALSE],
                [path |-> f, recursive |-> TRUE]}
Old == [value |-> <<b>>, modified |-> None, content |-> NoContent]
MCBefore == [p \in Paths |-> Old]
=============================================================================
