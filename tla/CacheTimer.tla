------------------------------ MODULE CacheTimer ------------------------------
(***************************************************************************)
(* The clock of the connection cache.  Expiry compares readings of the     *)
(* wall clock (Date.now()); cleanup tasks sleep on timers, which do not    *)
(* follow the wall clock.  The two drift apart when the clock is set.      *)
(* Times are in milliseconds.                                              *)
(***************************************************************************)
EXTENDS Integers

CONSTANTS
  TTL,         \* CONNECTION_CACHE_TTL_MS
  Late,        \* how much too late the browser may fire a timer
  MaxTime,     \* bound on the time
  MaxConns,    \* bound on the connections that are cached
  MaxBack,     \* how far the wall clock may be set back under one connection
  MaxForward,  \* how far it may be ahead of the time
  None

ASSUME TimesAssumption ==
  /\ {TTL, Late, MaxTime, MaxConns, MaxBack, MaxForward} \subseteq Nat
  /\ None \notin Int \cup [gen : Nat, fresh : BOOLEAN]

VARIABLES
  now,         \* the time, which no one can set
  ahead,       \* the wall clock minus the time
  last_used,   \* last_used_ms of the cached connection, None if there is none
  gen,         \* its generation
  generation,  \* CONNECTION_CACHE_GENERATION
  wake,        \* when the cleanup task of a generation wakes, None without one
  used,        \* history: the time at which it was last used
  back         \* history: how far the clock was set back since it was cached

vars == <<now, ahead, last_used, gen, generation, wake, used, back>>

Date == now + ahead
cached == last_used # None
cached_connection_expired == Date - last_used > TTL

Init ==
  /\ now = 0 /\ ahead = 0
  /\ last_used = None /\ gen = 0 /\ generation = 0
  /\ wake = [g \in 1..MaxConns |-> None]
  /\ used = 0 /\ back = 0
---------------------------------------------------------------------------
\* Mutant: the counter is not advanced.
cache_connection_uncounted ==
  LET g == generation + 1
  IN  /\ generation < MaxConns
      /\ gen' = g
      /\ last_used' = Date
      /\ wake' = [wake EXCEPT ![g] = now]
      /\ used' = now /\ back' = 0
      /\ UNCHANGED <<now, ahead, generation>>

\* Its cleanup task is spawned and due at once.
cache_connection ==
  LET g == generation + 1
  IN  /\ generation < MaxConns
      /\ generation' = g /\ gen' = g
      /\ last_used' = Date
      /\ wake' = [wake EXCEPT ![g] = now]
      /\ used' = now /\ back' = 0
      /\ UNCHANGED <<now, ahead>>

evict_cached_connection ==
  /\ cached
  /\ last_used' = None
  /\ UNCHANGED <<now, ahead, gen, generation, wake, used, back>>

\* cached_client_has_stores and cached_transaction.
Use ==
  /\ cached /\ ~cached_connection_expired
  /\ last_used' = Date
  /\ used' = now
  /\ UNCHANGED <<now, ahead, gen, generation, wake, back>>

\* Mutants: a cleanup task sleeps for the TTL whenever it goes on; one that
\* wakes at the very deadline does not sleep.
cached_connection_cleanup_delay_ttl == TTL
cached_connection_cleanup_delay_unclamped == last_used + TTL - Date

cached_connection_cleanup_delay ==
  IF last_used + TTL - Date > 1 THEN last_used + TTL - Date ELSE 1

\* Mutant: it takes whatever connection is cached for its own.
CleanupAny(g) ==
  /\ wake[g] # None /\ wake[g] <= now
  /\ IF ~cached THEN wake' = [wake EXCEPT ![g] = None] /\ UNCHANGED last_used
     ELSE IF cached_connection_expired
     THEN wake' = [wake EXCEPT ![g] = None] /\ last_used' = None
     ELSE wake' = [wake EXCEPT ![g] = now + cached_connection_cleanup_delay] /\ UNCHANGED last_used
  /\ UNCHANGED <<now, ahead, gen, generation, used, back>>

\* A round of spawn_cache_cleanup, from waking to sleeping: it ends with its
\* connection, closes it when it has expired, or sleeps until it may have.
Cleanup(g) ==
  /\ wake[g] # None /\ wake[g] <= now
  /\ IF ~cached \/ gen # g
     THEN wake' = [wake EXCEPT ![g] = None] /\ UNCHANGED last_used
     ELSE IF cached_connection_expired
     THEN wake' = [wake EXCEPT ![g] = None] /\ last_used' = None
     ELSE wake' = [wake EXCEPT ![g] = now + cached_connection_cleanup_delay] /\ UNCHANGED last_used
  /\ UNCHANGED <<now, ahead, gen, generation, used, back>>
---------------------------------------------------------------------------
(* The browser: time passes, but not past a timer that is overdue.         *)
Tick ==
  /\ now < MaxTime
  /\ \A g \in 1..MaxConns : wake[g] # None => now < wake[g] + Late
  /\ now' = now + 1
  /\ UNCHANGED <<ahead, last_used, gen, generation, wake, used, back>>

SetForward ==
  /\ ahead < MaxForward
  /\ ahead' = ahead + 1
  /\ UNCHANGED <<now, last_used, gen, generation, wake, used, back>>

SetBack ==
  /\ back < MaxBack
  /\ ahead' = ahead - 1
  /\ back' = back + 1
  /\ UNCHANGED <<now, last_used, gen, generation, wake, used>>
---------------------------------------------------------------------------
Next ==
  \/ cache_connection \/ evict_cached_connection \/ Use
  \/ \E g \in 1..MaxConns : Cleanup(g)
  \/ Tick \/ SetForward \/ SetBack

Spec == Init /\ [][Next]_vars
---------------------------------------------------------------------------
(* Properties.                                                             *)

\* Readings and wake-up times are times, and a cached connection has one of
\* the generations that were given out.
TypeOK ==
  /\ now \in Nat /\ ahead \in Int
  /\ last_used \in Int \cup {None}
  /\ generation \in 0..MaxConns /\ gen \in 0..generation
  /\ wake \in [1..MaxConns -> Nat \cup {None}]
  /\ used \in 0..now /\ back \in Nat

\* A connection that is not used is closed a millisecond after the TTL, up to
\* the lateness of a timer, plus what the clock was set back meanwhile: also
\* when it was used while its cleanup task slept, when the task wakes at the
\* very deadline, and when tasks of earlier connections are still asleep.
IdleBounded == cached => now - used <= TTL + 1 + Late + back

\* A cleanup task that goes on sleeps: it does not occupy the realm's only
\* thread in a loop that waits for the clock.
NoSpin ==
  [][\A g \in 1..MaxConns : Cleanup(g) => wake'[g] = None \/ wake'[g] > now]_vars

\* The timers are as good as the flag `fresh` and the single round of a cleanup
\* task that Connection has in their place.
Abstract == INSTANCE ConnectionCache WITH
  slot <- IF cached THEN [gen |-> gen, fresh |-> ~cached_connection_expired] ELSE None,
  cleaners <- {g \in 1..MaxConns : wake[g] # None}
Implements == Abstract!Spec
=============================================================================
