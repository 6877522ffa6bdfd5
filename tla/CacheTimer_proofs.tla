-------------------------- MODULE CacheTimer_proofs --------------------------
(***************************************************************************)
(* Proofs about CacheTimer, for any TTL, any lateness of timers and any    *)
(* setting of the clock.                                                   *)
(***************************************************************************)
EXTENDS CacheTimer, TLAPS

\* A cached connection has a cleanup task, which wakes no later than the
\* connection may stay, and no timer is overdue by more than Late.
Watched ==
  cached =>
    /\ gen \in 1..MaxConns
    /\ wake[gen] # None
    /\ wake[gen] <= used + TTL + 1 + back
    /\ last_used <= used + ahead + back

OnTime == \A g \in 1..MaxConns : wake[g] # None => now <= wake[g] + Late

IInv == TypeOK /\ Watched /\ OnTime

\* A sleeping task wakes at some time, and a cached connection was used at one.
LEMMA Typed ==
  ASSUME IInv
  PROVE  /\ TTL \in Nat /\ Late \in Nat /\ MaxConns \in Nat
         /\ now \in Nat /\ ahead \in Int /\ back \in Nat /\ used \in Nat /\ used <= now
         /\ cached => last_used \in Int
         /\ \A g \in 1..MaxConns : wake[g] # None => wake[g] \in Nat
  BY TimesAssumption DEF IInv, TypeOK, cached

LEMMA IInvInit == Init => IInv
  <1> SUFFICES ASSUME Init PROVE IInv
    OBVIOUS
  <1> USE TimesAssumption DEF Init
  <1>1. TypeOK
    BY DEF TypeOK
  <1>2. Watched
    BY DEF Watched, cached
  <1>3. OnTime
    BY DEF OnTime
  <1> QED
    BY <1>1, <1>2, <1>3 DEF IInv

LEMMA IInvNext == IInv /\ [Next]_vars => IInv'
  <1> SUFFICES ASSUME IInv, [Next]_vars PROVE IInv'
    OBVIOUS
  <1>0. /\ TTL \in Nat /\ Late \in Nat /\ MaxConns \in Nat
        /\ now \in Nat /\ ahead \in Int /\ back \in Nat /\ used \in Nat /\ used <= now
        /\ cached => last_used \in Int
        /\ \A g \in 1..MaxConns : wake[g] # None => wake[g] \in Nat
    BY Typed
  <1> USE TimesAssumption DEF IInv
  <1>1. CASE cache_connection
    <2> DEFINE g == generation + 1
    <2>1. g \in 1..MaxConns /\ now \in Nat /\ now \in Int /\ Date \in Int
      BY <1>1 DEF cache_connection, TypeOK, Date
    <2>2. /\ generation' = g /\ gen' = g /\ last_used' = Date
          /\ wake' = [wake EXCEPT ![g] = now]
          /\ used' = now /\ back' = 0 /\ now' = now /\ ahead' = ahead
      BY <1>1 DEF cache_connection
    <2>3. TypeOK'
      BY <2>1, <2>2 DEF TypeOK
    <2>4. wake'[g] = now
      BY <2>1, <2>2 DEF TypeOK
    <2>5. Watched'
      BY <2>1, <2>2, <2>4 DEF Watched, Date, TypeOK
    <2>6. OnTime'
      BY <2>1, <2>2 DEF OnTime, TypeOK
    <2> QED
      BY <2>3, <2>5, <2>6
  <1>2. CASE evict_cached_connection
    BY <1>2 DEF evict_cached_connection, TypeOK, Watched, OnTime, cached
  <1>3. CASE Use
    <2>1. /\ last_used' = now + ahead /\ used' = now
          /\ UNCHANGED <<now, ahead, gen, generation, wake, back>> /\ cached
      BY <1>3 DEF Use, Date
    <2>2. TypeOK'
      BY <2>1 DEF TypeOK
    <2>3. wake[gen] <= now + TTL + 1 + back
      BY <1>0, <2>1 DEF Watched
    <2>4. Watched'
      BY <2>1, <2>3 DEF Watched, TypeOK
    <2> QED
      BY <2>1, <2>2, <2>4 DEF OnTime
  <1>4. ASSUME NEW g \in 1..MaxConns, Cleanup(g)
        PROVE  IInv'
    <2>1. /\ wake[g] # None /\ wake[g] <= now
          /\ UNCHANGED <<now, ahead, gen, generation, used, back>>
      BY <1>4 DEF Cleanup
    <2>2. CASE ~cached \/ gen # g
      <3>1. wake' = [wake EXCEPT ![g] = None] /\ last_used' = last_used
        BY <1>4, <2>2 DEF Cleanup
      <3> QED
        BY <2>1, <2>2, <3>1 DEF TypeOK, Watched, OnTime, cached
    <2>3. CASE cached /\ gen = g /\ cached_connection_expired
      <3>1. wake' = [wake EXCEPT ![g] = None] /\ last_used' = None
        BY <1>4, <2>3 DEF Cleanup
      <3> QED
        BY <2>1, <3>1 DEF TypeOK, Watched, OnTime, cached
    <2>4. CASE cached /\ gen = g /\ ~cached_connection_expired
      <3> DEFINE d == cached_connection_cleanup_delay
      <3>1. wake' = [wake EXCEPT ![g] = now + d] /\ last_used' = last_used
        BY <1>4, <2>4 DEF Cleanup
      <3>2. d \in Nat /\ d >= 1 /\ now + d <= used + TTL + 1 + back
        BY <1>0, <2>4 DEF cached_connection_cleanup_delay, cached_connection_expired, Date,
                          Watched
      <3>3. TypeOK'
        BY <2>1, <3>1, <3>2 DEF TypeOK
      <3>4. wake'[g] = now + d /\ \A h \in 1..MaxConns : h # g => wake'[h] = wake[h]
        BY <3>1 DEF TypeOK
      <3>5. Watched'
        BY <2>1, <2>4, <3>1, <3>2, <3>4 DEF Watched, TypeOK, cached
      <3>6. OnTime'
        BY <1>0, <2>1, <3>2, <3>4 DEF OnTime
      <3> QED
        BY <3>3, <3>5, <3>6
    <2> QED
      BY <2>2, <2>3, <2>4
  <1>5. CASE Tick
    <2>1. TypeOK'
      BY <1>5 DEF Tick, TypeOK
    <2>2. Watched'
      BY <1>5 DEF Tick, Watched, cached
    <2>3. OnTime'
      BY <1>0, <1>5 DEF Tick, OnTime
    <2> QED
      BY <2>1, <2>2, <2>3
  <1>6. CASE SetForward
    <2>1. TypeOK'
      BY <1>6 DEF SetForward, TypeOK
    <2>2. Watched'
      BY <1>0, <1>6 DEF SetForward, Watched, cached
    <2>3. OnTime'
      BY <1>6 DEF SetForward, OnTime
    <2> QED
      BY <2>1, <2>2, <2>3
  <1>7. CASE SetBack
    <2>1. TypeOK'
      BY <1>7 DEF SetBack, TypeOK
    <2>2. Watched'
      BY <1>0, <1>7 DEF SetBack, Watched, cached
    <2>3. OnTime'
      BY <1>7 DEF SetBack, OnTime
    <2> QED
      BY <2>1, <2>2, <2>3
  <1>8. CASE UNCHANGED vars
    BY <1>8 DEF vars, TypeOK, Watched, OnTime, cached
  <1> QED
    BY <1>1, <1>2, <1>3, <1>4, <1>5, <1>6, <1>7, <1>8 DEF Next

LEMMA Inductive == Spec => []IInv
  BY IInvInit, IInvNext, PTL DEF Spec

\* Every variable keeps its type.
THEOREM TypeCorrect == Spec => []TypeOK
  <1>1. IInv => TypeOK
    BY DEF IInv
  <1> QED
    BY <1>1, Inductive, PTL

\* An idle connection is closed a millisecond after the TTL, up to the lateness
\* of a timer and what the clock was set back: so an idle page blocks the
\* upgrade of another tab for no longer (README, "Multi-tab behavior").
THEOREM IdleConnectionsBounded == Spec => []IdleBounded
  <1>1. IInv => IdleBounded
    BY Typed DEF IInv, Watched, OnTime, IdleBounded
  <1> QED
    BY <1>1, Inductive, PTL

\* A cleanup task that goes on sleeps for a while.
THEOREM CleanupSleeps == Spec => NoSpin
  <1>1. IInv => \A g \in 1..MaxConns : Cleanup(g) => wake'[g] = None \/ wake'[g] > now
    <2> SUFFICES ASSUME IInv, NEW g \in 1..MaxConns, Cleanup(g)
                 PROVE  wake'[g] = None \/ wake'[g] > now
      OBVIOUS
    <2>1. wake'[g] = None \/ (cached /\ wake'[g] = now + cached_connection_cleanup_delay)
      BY DEF Cleanup, IInv, TypeOK
    <2>2. cached => cached_connection_cleanup_delay \in Int /\ cached_connection_cleanup_delay >= 1
      BY TimesAssumption DEF IInv, TypeOK, cached, cached_connection_cleanup_delay, Date
    <2> QED
      BY <2>1, <2>2 DEF IInv, TypeOK
  <1> QED
    BY <1>1, Inductive, PTL DEF NoSpin
---------------------------------------------------------------------------
(* The refinement.                                                         *)

Slot == IF cached THEN [gen |-> gen, fresh |-> ~cached_connection_expired] ELSE None
Cleaners == {g \in 1..MaxConns : wake[g] # None}

LEMMA SlotTaken ==
  ASSUME IInv, cached
  PROVE  /\ Slot # None
         /\ Slot.gen = gen
         /\ Slot.fresh = ~cached_connection_expired
  <1>1. Slot = [gen |-> gen, fresh |-> ~cached_connection_expired]
    BY DEF Slot
  <1>2. gen \in Nat
    BY TimesAssumption DEF IInv, TypeOK
  <1>3. (~cached_connection_expired) \in BOOLEAN
    BY DEF cached_connection_expired
  <1>4. Slot \in [gen : Nat, fresh : BOOLEAN]
    BY <1>1, <1>2, <1>3
  <1> QED
    BY <1>1, <1>4, TimesAssumption

\* When time passes or the clock is set, the connection may expire, or count as
\* used lately again.
LEMMA ClockMoves ==
  ASSUME IInv, IInv', cached, UNCHANGED <<last_used, gen, generation, wake>>,
         now' \in Int, ahead' \in Int
  PROVE  [Abstract!Next]_(Abstract!vars)
  <1>1. cached' /\ Cleaners' = Cleaners
    BY DEF cached, Cleaners
  <1>2. Slot' = [gen |-> gen, fresh |-> ~(cached_connection_expired')]
    BY <1>1 DEF Slot
  <1>4. CASE cached_connection_expired <=> cached_connection_expired'
    BY <1>1, <1>2, <1>4 DEF Abstract!vars, Slot, Cleaners
  <1>5. CASE ~cached_connection_expired /\ cached_connection_expired'
    <2>1. Slot' = [gen |-> gen, fresh |-> FALSE]
      <3>1. (~(cached_connection_expired')) = FALSE
        BY <1>5
      <3> QED
        BY <1>2, <3>1, Zenon
    <2>2. Abstract!Expire
      BY <2>1, <1>1, <1>5, SlotTaken DEF Abstract!Expire, Slot, Cleaners
    <2> QED
      BY <2>2 DEF Abstract!Next
  <1>6. CASE cached_connection_expired /\ ~(cached_connection_expired')
    <2>1. Slot' = [gen |-> gen, fresh |-> TRUE]
      <3>1. (~(cached_connection_expired')) = TRUE
        BY <1>6
      <3> QED
        BY <1>2, <3>1, Zenon
    <2>2. Abstract!Renew
      BY <2>1, <1>1, <1>6, SlotTaken DEF Abstract!Renew, Slot, Cleaners
    <2> QED
      BY <2>2 DEF Abstract!Next
  <1> QED
    BY <1>4, <1>5, <1>6

LEMMA StepImplements ==
  ASSUME IInv, IInv', [Next]_vars
  PROVE  [Abstract!Next]_(Abstract!vars)
  <1>0. now \in Nat /\ ahead \in Int /\ now' \in Nat /\ ahead' \in Int
    BY DEF IInv, TypeOK
  <1>1. CASE cache_connection
    <2> DEFINE g == generation + 1
    <2>1. /\ generation' = g /\ gen' = g /\ last_used' = Date /\ g \in 1..MaxConns
          /\ wake' = [wake EXCEPT ![g] = now] /\ now' = now /\ ahead' = ahead
      BY <1>1, TimesAssumption DEF cache_connection, IInv, TypeOK
    <2>2. Cleaners' = Cleaners \cup {g}
      BY <1>0, <2>1, TimesAssumption DEF Cleaners, IInv, TypeOK
    <2>3. cached' /\ ~(cached_connection_expired')
      BY <1>0, <2>1, TimesAssumption DEF cached, cached_connection_expired, Date
    <2>4. Slot' = [gen |-> generation', fresh |-> TRUE]
      BY <2>1, <2>3 DEF Slot
    <2>5. Abstract!Fill
      BY <2>1, <2>2, <2>4 DEF Abstract!Fill, Slot, Cleaners
    <2> QED
      BY <2>5 DEF Abstract!Next
  <1>2. CASE evict_cached_connection
    <2>1. Slot' = None /\ generation' = generation /\ Cleaners' = Cleaners
      BY <1>2 DEF evict_cached_connection, Slot, Cleaners, cached
    <2> QED
      BY <2>1 DEF Abstract!Next, Abstract!Drop, Slot, Cleaners
  <1>3. CASE Use
    <2>1. /\ UNCHANGED <<now, ahead, gen, generation, wake>> /\ last_used' = Date
          /\ cached /\ ~cached_connection_expired
      BY <1>3 DEF Use
    <2>2. cached' /\ ~(cached_connection_expired') /\ Cleaners' = Cleaners
      BY <1>0, <2>1, TimesAssumption DEF cached, cached_connection_expired, Date, Cleaners
    <2>3. Slot' = Slot
      BY <2>1, <2>2 DEF Slot
    <2> QED
      BY <2>1, <2>2, <2>3 DEF Abstract!vars, Slot, Cleaners
  <1>4. ASSUME NEW g \in 1..MaxConns, Cleanup(g)
        PROVE  [Abstract!Next]_(Abstract!vars)
    <2>1. /\ wake[g] # None /\ wake[g] <= now
          /\ UNCHANGED <<now, ahead, gen, generation, used, back>>
      BY <1>4 DEF Cleanup
    <2>2. g \in Cleaners
      BY <2>1 DEF Cleaners
    <2>3. ASSUME wake' = [wake EXCEPT ![g] = None]
          PROVE  Cleaners' = Cleaners \ {g}
      BY <2>3 DEF Cleaners, IInv, TypeOK
    <2>4. CASE ~cached \/ gen # g
      <3>1. wake' = [wake EXCEPT ![g] = None] /\ last_used' = last_used
        BY <1>4, <2>4 DEF Cleanup
      <3>2. Slot' = Slot
        BY <2>1, <3>1 DEF Slot, cached, cached_connection_expired, Date
      <3>3. ~(Slot # None /\ Slot.gen = g)
        BY <2>4, SlotTaken DEF Slot
      <3>4. Abstract!Cleanup(g)
        BY <2>1, <2>2, <2>3, <3>1, <3>2, <3>3 DEF Abstract!Cleanup, Slot, Cleaners
      <3> QED
        BY <2>2, <3>4 DEF Abstract!Next, Cleaners
    <2>5. CASE cached /\ gen = g /\ cached_connection_expired
      <3>1. wake' = [wake EXCEPT ![g] = None] /\ last_used' = None
        BY <1>4, <2>5 DEF Cleanup
      <3>2. Slot' = None
        BY <3>1 DEF Slot, cached
      <3>3. Slot # None /\ Slot.gen = g /\ ~Slot.fresh
        BY <2>5, SlotTaken
      <3>4. Abstract!Cleanup(g)
        BY <2>1, <2>2, <2>3, <3>1, <3>2, <3>3 DEF Abstract!Cleanup, Slot, Cleaners
      <3> QED
        BY <2>2, <3>4 DEF Abstract!Next, Cleaners
    <2>6. CASE cached /\ gen = g /\ ~cached_connection_expired
      <3>1. /\ wake' = [wake EXCEPT ![g] = now + cached_connection_cleanup_delay]
            /\ last_used' = last_used
        BY <1>4, <2>6 DEF Cleanup
      <3>2. now + cached_connection_cleanup_delay # None
        BY <1>0, <2>6, Typed, TimesAssumption DEF cached_connection_cleanup_delay, Date
      <3>3. Cleaners' = Cleaners
        BY <2>1, <3>1, <3>2 DEF Cleaners, IInv, TypeOK
      <3>4. Slot' = Slot
        BY <2>1, <3>1 DEF Slot, cached, cached_connection_expired, Date
      <3> QED
        BY <2>1, <3>3, <3>4 DEF Abstract!vars, Slot, Cleaners
    <2> QED
      BY <2>4, <2>5, <2>6
  <1>5. CASE Tick \/ SetForward \/ SetBack
    <2>1. UNCHANGED <<last_used, gen, generation, wake>>
      BY <1>5 DEF Tick, SetForward, SetBack
    <2>2. CASE cached
      BY <1>0, <2>1, <2>2, ClockMoves
    <2>3. CASE ~cached
      <3>1. Slot' = Slot /\ Cleaners' = Cleaners
        BY <2>1, <2>3 DEF Slot, Cleaners, cached
      <3> QED
        BY <2>1, <3>1 DEF Abstract!vars, Slot, Cleaners
    <2> QED
      BY <2>2, <2>3
  <1>6. CASE UNCHANGED vars
    <2>1. Slot' = Slot /\ Cleaners' = Cleaners /\ generation' = generation
      BY <1>6 DEF vars, Slot, Cleaners, cached, cached_connection_expired, Date
    <2> QED
      BY <2>1 DEF Abstract!vars, Slot, Cleaners
  <1> QED
    BY <1>1, <1>2, <1>3, <1>4, <1>5, <1>6 DEF Next

\* Timers and clock readings implement the cache: a cleanup task ends only when
\* its own connection is gone or has expired, and closes no other, however the
\* clock is set.
THEOREM TimersImplementCache == Spec => Implements
  <1>1. Init => Abstract!Init
    <2> SUFFICES ASSUME Init PROVE Abstract!Init
      OBVIOUS
    <2>1. Slot = None /\ Cleaners = {} /\ generation = 0
      BY DEF Init, Slot, Cleaners, cached
    <2> QED
      BY <2>1 DEF Abstract!Init, Slot, Cleaners
  <1>2. IInv /\ IInv' /\ [Next]_vars => [Abstract!Next]_(Abstract!vars)
    BY StepImplements
  <1> QED
    BY <1>1, <1>2, Inductive, PTL DEF Spec, Implements, Abstract!Spec
=============================================================================
