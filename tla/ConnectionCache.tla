--------------------------- MODULE ConnectionCache ---------------------------
(***************************************************************************)
(* What a realm's connection cache promises the rest of the backend, for   *)
(* one database: a slot that is filled, dropped, or found expired, and for *)
(* each connection that was put there a cleanup task.  Connection, which   *)
(* has no clock, and CacheTimer, which has nothing else, implement it.     *)
(***************************************************************************)
EXTENDS Naturals

CONSTANT None

VARIABLES
  slot,        \* the cached connection, or None: [gen, fresh]
  generation,  \* that of the last connection
  cleaners     \* the generations that have a cleanup task

vars == <<slot, generation, cleaners>>

Init == slot = None /\ generation = 0 /\ cleaners = {}

\* A connection is cached, and perhaps evicted again in the same poll.
Fill ==
  /\ generation' = generation + 1
  /\ cleaners' = cleaners \cup {generation'}
  /\ slot' \in {None, [gen |-> generation', fresh |-> TRUE]}

\* It is evicted: by a call that cannot use it, or that finds it stale.
Drop ==
  /\ slot' = None
  /\ UNCHANGED <<generation, cleaners>>

\* It has not been used for the TTL.
Expire ==
  /\ slot # None /\ slot.fresh
  /\ slot' = [gen |-> slot.gen, fresh |-> FALSE]
  /\ UNCHANGED <<generation, cleaners>>

\* The clock was set back: it counts as used lately again.
Renew ==
  /\ slot # None /\ ~slot.fresh
  /\ slot' = [gen |-> slot.gen, fresh |-> TRUE]
  /\ UNCHANGED <<generation, cleaners>>

\* A cleanup task ends: it closes its own connection once that has expired,
\* never a later one, and does not end before its own is gone.
Cleanup(g) ==
  LET current == slot # None /\ slot.gen = g
  IN  /\ g \in cleaners
      /\ current => ~slot.fresh
      /\ cleaners' = cleaners \ {g}
      /\ slot' = IF current THEN None ELSE slot
      /\ UNCHANGED generation

\* The realm is reloaded.
Restart == slot' = None /\ generation' = 0 /\ cleaners' = {}

Next == Fill \/ Drop \/ Expire \/ Renew \/ (\E g \in cleaners : Cleanup(g)) \/ Restart

Spec == Init /\ [][Next]_vars
=============================================================================
