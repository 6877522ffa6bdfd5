---------------------------- MODULE MCConnection ----------------------------
(***************************************************************************)
(* Connection with two tabs, A and B.  Tab A runs the tasks of two         *)
(* operators that use different object stores of one database, tab B a     *)
(* third one; which of them take part is chosen by the configuration.      *)
(***************************************************************************)
EXTENDS Connection

CONSTANTS A, B, a1, a2, b1, x, y

MCRealmOf == [t \in Tasks |-> IF t = b1 THEN B ELSE A]
MCNeeds == [t \in Tasks |-> IF t = a1 THEN {x} ELSE {y}]
=============================================================================
