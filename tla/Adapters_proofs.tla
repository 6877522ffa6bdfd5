--------------------------- MODULE Adapters_proofs ---------------------------
(***************************************************************************)
(* Proofs about Adapters for every set of writers and deleters, any bytes, *)
(* batches and objects, and any number of failed closes: what a writer     *)
(* stores, how often, and what a deleter has done when its close succeeds. *)
(***************************************************************************)
EXTENDS Adapters, TLAPS, SequenceTheorems

Maps == [Paths -> Entry \cup {None}]

Covers(d, p) == p = d.path \/ (d.recursive /\ p \in Subtree[d.path])

Writer == [stage: {"open", "closing", "closed", "aborted", "gone"}, target: Targets, buffer: Bytes]
Deleter == [stage: {"open", "flushing", "closing", "closed", "gone"}, buffer: SUBSET Deletions]

Types ==
  /\ objects \in Maps
  /\ status \in [Clients -> {"idle", "pending", "done"}]
  /\ DOMAIN request = Clients /\ DOMAIN response = Clients
  /\ writer \in [Writers -> Writer] /\ written \in [Writers -> Bytes]
  /\ stored \in [Clients -> Nat]
  /\ deleter \in [Deleters -> Deleter] /\ owed \in [Deleters -> SUBSET Paths]

\* A writer has what its user wrote until it is closed or aborted.  Its call is
\* under way while it is closing, and it has stored something once that is done
\* and reports success, never before.
WriterInv(t) ==
  /\ writer[t].stage \in {"open", "closing"} => writer[t].buffer = written[t]
  /\ writer[t].stage # "closing" => status[t] = "idle"
  /\ writer[t].stage = "closing" => status[t] # "idle" /\ request[t] = SetOf(writer[t])
  /\ stored[t] <= 1
  /\ writer[t].stage \in {"open", "aborted"} => stored[t] = 0
  /\ writer[t].stage = "closing" /\ status[t] = "pending" => stored[t] = 0
  /\ writer[t].stage = "closing" /\ status[t] = "done" =>
       stored[t] = IF response[t].kind = "Ok" THEN 1 ELSE 0
  /\ writer[t].stage = "closed" => stored[t] = 1

Busy(t) == deleter[t].stage \in {"flushing", "closing"}

\* What a deleter owes is in its buffer, and so in the batch it has sent; it
\* owes nothing once that is done and reports success.
DeleterInv(t) ==
  /\ ~Busy(t) => status[t] = "idle"
  /\ Busy(t) => status[t] # "idle" /\ request[t] = [op |-> "delete", batch |-> deleter[t].buffer]
  /\ deleter[t].stage # "gone" => \A p \in owed[t] : \E d \in deleter[t].buffer : Covers(d, p)
  /\ Busy(t) /\ status[t] = "done" /\ response[t].kind = "Ok" => owed[t] = {}
  /\ deleter[t].stage = "closed" => owed[t] = {}

AInv ==
  /\ Types
  /\ \A t \in Writers : WriterInv(t)
  /\ \A t \in Deleters : DeleterInv(t)
---------------------------------------------------------------------------
(* Calls on the store.                                                     *)

\* The call of a writer stores all of its buffer behind what it keeps, or
\* reports an error and changes nothing.
LEMMA SetEffect ==
  ASSUME Types, NEW w \in Writer, NEW now \in Times
  PROVE  LET e   == Apply(SetOf(w), now)
             p   == w.target.path
             old == IF w.target.append /\ objects[p] # None THEN objects[p].value ELSE <<>>
         IN  /\ e.objects \in Maps
             /\ e.out.kind = "Ok" => e.objects[p].value = old \o w.buffer
             /\ e.out.kind # "Ok" => e.objects = objects
  <1> DEFINE c     == SetOf(w)
             p     == w.target.path
             o     == objects[p]
             keeps == w.target.append /\ o # None
             old   == IF keeps THEN o.value ELSE <<>>
             new   == [value    |-> old \o w.buffer,
                       modified |-> now,
                       content  |-> merge(IF keeps THEN o.content ELSE NoContent, NoContent)]
  <1>1. /\ p \in Paths /\ w.buffer \in Bytes /\ (o \in Entry \/ o = None) /\ objects \in Maps
        /\ DOMAIN objects = Paths
    BY AdaptersAssumption DEF Writer, Types, Maps
  <1>2. /\ c.op = "set" /\ c.path = p /\ c.bytes = w.buffer /\ c.append = w.target.append
        /\ c.if_match = None /\ c.if_none_match = None /\ c.content = NoContent
    BY DEF SetOf
  <1>3. Apply(c, now) = Store(c, now)
    BY <1>2 DEF Apply, early_return
  <1>4. \/ \E kind \in {"ConditionNotMatch", "Unexpected"} : Store(c, now) = NoEffect(kind)
        \/ /\ ~(keeps /\ o.value = NotBytes)
           /\ Store(c, now) = Effect([objects EXCEPT ![p] = new], Found(Describe(new), None))
    BY <1>2 DEF Store
  <1>5. ASSUME NEW kind \in {"ConditionNotMatch", "Unexpected"}, Store(c, now) = NoEffect(kind)
        PROVE  Apply(c, now).objects = objects /\ Apply(c, now).out.kind # "Ok"
    BY <1>3, <1>5 DEF NoEffect, Effect, Outcome
  <1>6. ASSUME ~(keeps /\ o.value = NotBytes),
               Store(c, now) = Effect([objects EXCEPT ![p] = new], Found(Describe(new), None))
        PROVE  /\ Apply(c, now).objects \in Maps /\ Apply(c, now).out.kind = "Ok"
               /\ Apply(c, now).objects[p].value = old \o w.buffer
    <2>1. Apply(c, now).objects = [objects EXCEPT ![p] = new] /\ Apply(c, now).out.kind = "Ok"
      <3> DEFINE map == [objects EXCEPT ![p] = new]
                 info == Describe(new)
      <3>1. Apply(c, now) = Effect(map, Found(info, None))
        BY <1>3, <1>6
      <3> HIDE DEF map, info
      <3>2. Apply(c, now).objects = map /\ Apply(c, now).out.kind = "Ok"
        BY <3>1 DEF Effect, Found
      <3> QED
        BY <3>2 DEF map
    <2>2. old \in Bytes
      <3>1. keeps => o \in Entry /\ o.value # NotBytes
        BY <1>1, <1>6
      <3> HIDE DEF o, keeps
      <3>2. keeps => o.value \in Bytes
        BY <3>1 DEF Entry, Values
      <3>3. <<>> \in Bytes
        BY DEF Bytes
      <3> QED
        BY <3>2, <3>3
    <2> HIDE DEF old
    <2>3. old \o w.buffer \in Bytes
      BY <1>1, <2>2, ConcatProperties DEF Bytes
    <2>4. new.content \in Contents
      BY <1>1 DEF merge, NoContent, Contents, Entry
    <2>5. new \in Entry /\ new.value = old \o w.buffer
      BY <2>3, <2>4 DEF Entry, Values
    <2> HIDE DEF new, old
    <2> QED
      BY <1>1, <2>1, <2>5 DEF Maps
  <1> HIDE DEF new
  <1> QED
    BY <1>1, <1>4, <1>5, <1>6

\* The call of a deleter removes all that its batch covers.
LEMMA DeleteEffect ==
  ASSUME Types, NEW batch \in SUBSET Deletions, NEW now \in Times
  PROVE  LET e == Apply([op |-> "delete", batch |-> batch], now)
         IN  /\ e.objects \in Maps
             /\ \A p \in Paths : (\E d \in batch : Covers(d, p)) => e.objects[p] = None
  <1> DEFINE c == [op |-> "delete", batch |-> batch]
  <1>1. c.op = "delete" /\ c.batch = batch
    OBVIOUS
  <1> HIDE DEF c
  <1>2. \/ batch = {} /\ Apply(c, now) = NoEffect("Ok")
        \/ Apply(c, now) = Remove(c)
    BY <1>1 DEF Apply, early_return
  <1>3. CASE batch = {} /\ Apply(c, now) = NoEffect("Ok")
    BY <1>3 DEF NoEffect, Effect, Types, c
  <1>4. CASE Apply(c, now) = Remove(c)
    <2>1. Remove(c).objects = [p \in Paths |-> IF \E d \in batch : Covers(d, p) THEN None ELSE objects[p]]
      BY <1>1 DEF Remove, Effect, Covers
    <2> QED
      BY <1>4, <2>1 DEF Types, Maps, c
  <1> QED
    BY <1>2, <1>3, <1>4
---------------------------------------------------------------------------
(* Steps.                                                                  *)

\* A writer that a step leaves alone.
LEMMA WriterKept ==
  ASSUME NEW u \in Writers, WriterInv(u),
         writer'[u] = writer[u], written'[u] = written[u], stored'[u] = stored[u],
         status'[u] = status[u], request'[u] = request[u], response'[u] = response[u]
  PROVE  WriterInv(u)'
  BY DEF WriterInv, SetOf

\* A deleter that a step leaves alone, or relieves of paths.
LEMMA DeleterKept ==
  ASSUME NEW u \in Deleters, DeleterInv(u), deleter'[u] = deleter[u], owed'[u] \subseteq owed[u],
         status'[u] = status[u], request'[u] = request[u], response'[u] = response[u]
  PROVE  DeleterInv(u)'
  <1>1. Busy(u)' <=> Busy(u)
    BY DEF Busy
  <1> QED
    BY <1>1 DEF DeleterInv

\* A call on the store begins, for the client that makes it.
LEMMA InvokeStep ==
  ASSUME Types, NEW t \in Clients, NEW c, Invoke(t, c)
  PROVE  /\ status' \in [Clients -> {"idle", "pending", "done"}]
         /\ DOMAIN request' = Clients /\ DOMAIN response' = Clients /\ objects' = objects
         /\ status[t] = "idle" /\ status'[t] = "pending" /\ request'[t] = c
         /\ \A u \in Clients \ {t} : status'[u] = status[u] /\ request'[u] = request[u]
         /\ \A u \in Clients : response'[u] = response[u]
  BY DEF Types, Invoke

\* It is answered.
LEMMA RespondStep ==
  ASSUME Types, NEW t \in Clients, NEW out, Respond(t, out)
  PROVE  /\ status' \in [Clients -> {"idle", "pending", "done"}]
         /\ DOMAIN request' = Clients /\ DOMAIN response' = Clients
         /\ status[t] = "pending" /\ status'[t] = "done" /\ response'[t] = out
         /\ \A u \in Clients \ {t} : status'[u] = status[u] /\ response'[u] = response[u]
         /\ \A u \in Clients : request'[u] = request[u]
  BY DEF Types, Respond

\* It is over.
LEMMA ForgetStep ==
  ASSUME Types, NEW t \in Clients, Forget(t)
  PROVE  /\ status' \in [Clients -> {"idle", "pending", "done"}]
         /\ DOMAIN request' = Clients /\ DOMAIN response' = Clients /\ objects' = objects
         /\ status[t] # "idle" /\ status'[t] = "idle"
         /\ \A u \in Clients \ {t} : /\ status'[u] = status[u] /\ request'[u] = request[u]
                                     /\ response'[u] = response[u]
  BY DEF Types, Forget

\* The user of a writer writes, closes it, is told the result, or aborts it.
LEMMA WriterStep ==
  ASSUME AInv, NEW t \in Writers,
         \/ \E byte \in Byte : Write(t, byte)
         \/ Close(t) \/ CloseReturns(t) \/ Abort(t)
  PROVE  AInv'
  <1> USE RolesAssumption DEF AInv
  <1>1. /\ t \in Clients /\ \A u \in Deleters : u # t /\ u \in Clients
        /\ \A u \in Writers : u \in Clients
    OBVIOUS
  <1>2. /\ UNCHANGED <<stored, deleter, owed>>
        /\ \A u \in Writers \ {t} : writer'[u] = writer[u] /\ written'[u] = written[u]
    BY DEF Write, Close, CloseReturns, Abort, Types
  <1>3. \A u \in Clients \ {t} : status'[u] = status[u] /\ request'[u] = request[u] /\ response'[u] = response[u]
    <2>1. CASE Close(t)
      BY <1>1, <2>1, InvokeStep DEF Close
    <2>2. CASE CloseReturns(t)
      BY <1>1, <2>2, ForgetStep DEF CloseReturns
    <2> QED
      BY <2>1, <2>2 DEF Write, Abort, store
  <1>4. \A u \in Writers \ {t} : WriterInv(u)'
    BY <1>1, <1>2, <1>3, WriterKept
  <1>5. \A u \in Deleters : DeleterInv(u)'
    BY <1>1, <1>2, <1>3, DeleterKept
  <1>6. writer[t] \in Writer /\ written[t] \in Bytes /\ WriterInv(t)
    BY DEF Types
  <1>8. Types' /\ WriterInv(t)'
    <2>1. ASSUME NEW byte \in Byte, Write(t, byte) PROVE Types' /\ WriterInv(t)'
      <3> DEFINE e == [writer[t] EXCEPT !.buffer = Append(@, byte)]
      <3>1. Append(writer[t].buffer, byte) \in Bytes /\ Append(written[t], byte) \in Bytes
        BY <1>6, AppendProperties DEF Writer, Bytes
      <3>2. e \in Writer /\ e.stage = writer[t].stage /\ e.buffer = Append(writer[t].buffer, byte)
        BY <1>6, <3>1 DEF Writer
      <3>3. writer' = [writer EXCEPT ![t] = e] /\ written' = [written EXCEPT ![t] = Append(written[t], byte)]
            /\ UNCHANGED store
        BY <2>1 DEF Write
      <3> HIDE DEF e
      <3>4. writer'[t] = e /\ written'[t] = Append(written[t], byte)
        BY <3>3 DEF Types
      <3>5. Types'
        BY <1>2, <3>1, <3>2, <3>3 DEF Types, store
      <3>6. WriterInv(t)'
        BY <1>2, <1>6, <2>1, <3>2, <3>3, <3>4 DEF WriterInv, store, Write
      <3> QED
        BY <3>5, <3>6
    <2>2. CASE Close(t)
      <3> DEFINE e == [writer[t] EXCEPT !.stage = "closing"]
      <3>1. e \in Writer /\ e.stage = "closing" /\ e.buffer = writer[t].buffer /\ e.target = writer[t].target
        BY <1>6 DEF Writer
      <3>2. writer' = [writer EXCEPT ![t] = e] /\ UNCHANGED written
        BY <2>2 DEF Close
      <3>3. SetOf(e) = SetOf(writer[t])
        BY <3>1 DEF SetOf
      <3> HIDE DEF e
      <3>4. writer'[t] = e
        BY <3>2 DEF Types
      <3>5. /\ status'[t] = "pending" /\ request'[t] = SetOf(writer[t])
            /\ status' \in [Clients -> {"idle", "pending", "done"}]
            /\ DOMAIN request' = Clients /\ DOMAIN response' = Clients /\ objects' = objects
        BY <1>1, <2>2, InvokeStep DEF Close
      <3>6. Types'
        BY <1>2, <3>1, <3>2, <3>5 DEF Types
      <3>7. WriterInv(t)'
        BY <1>2, <1>6, <2>2, <3>1, <3>2, <3>3, <3>4, <3>5 DEF WriterInv, Close
      <3> QED
        BY <3>6, <3>7
    <2>3. CASE CloseReturns(t)
      <3> DEFINE stage == IF response[t].kind = "Ok" THEN "closed" ELSE "open"
                 e == [writer[t] EXCEPT !.stage = stage]
      <3>1. e \in Writer /\ e.stage = stage /\ e.buffer = writer[t].buffer /\ e.target = writer[t].target
        BY <1>6 DEF Writer
      <3>2. writer' = [writer EXCEPT ![t] = e] /\ UNCHANGED written
        BY <2>3 DEF CloseReturns
      <3> HIDE DEF e
      <3>4. writer'[t] = e
        BY <3>2 DEF Types
      <3>5. /\ status'[t] = "idle"
            /\ status' \in [Clients -> {"idle", "pending", "done"}]
            /\ DOMAIN request' = Clients /\ DOMAIN response' = Clients /\ objects' = objects
        BY <1>1, <2>3, ForgetStep DEF CloseReturns
      <3>6. Types'
        BY <1>2, <3>1, <3>2, <3>5 DEF Types
      <3>7. WriterInv(t)'
        BY <1>2, <1>6, <2>3, <3>1, <3>2, <3>4, <3>5 DEF WriterInv, CloseReturns
      <3> QED
        BY <3>6, <3>7
    <2>4. CASE Abort(t)
      <3> DEFINE e == [writer[t] EXCEPT !.stage = "aborted", !.buffer = <<>>]
      <3>1. e \in Writer /\ e.stage = "aborted"
        <4>1. <<>> \in Bytes
          BY DEF Bytes
        <4> QED
          BY <1>6, <4>1 DEF Writer
      <3>2. writer' = [writer EXCEPT ![t] = e] /\ UNCHANGED <<written, store>>
        BY <2>4 DEF Abort
      <3> HIDE DEF e
      <3>4. writer'[t] = e
        BY <3>2 DEF Types
      <3>6. Types'
        BY <1>2, <3>1, <3>2 DEF Types, store
      <3>7. WriterInv(t)'
        BY <1>2, <1>6, <2>4, <3>1, <3>2, <3>4 DEF WriterInv, Abort, store
      <3> QED
        BY <3>6, <3>7
    <2> QED
      BY <2>1, <2>2, <2>3, <2>4
  <1> QED
    BY <1>4, <1>5, <1>8

\* The user of a deleter gives it a path, closes it, or is told the result of a batch.
LEMMA DeleterStep ==
  ASSUME AInv, NEW t \in Deleters,
         \/ \E d \in Deletions : Queue(t, d)
         \/ CloseDeleter(t) \/ FlushReturns(t)
  PROVE  AInv'
  <1> USE RolesAssumption DEF AInv
  <1>1. /\ t \in Clients /\ \A u \in Writers : u # t /\ u \in Clients
        /\ \A u \in Deleters : u \in Clients
    OBVIOUS
  <1>2. /\ UNCHANGED <<writer, written, stored>>
        /\ \A u \in Deleters \ {t} : deleter'[u] = deleter[u] /\ owed'[u] = owed[u]
    BY DEF Queue, CloseDeleter, FlushReturns, Flush, Types
  <1>3. \A u \in Clients \ {t} : status'[u] = status[u] /\ request'[u] = request[u] /\ response'[u] = response[u]
    <2>1. CASE \E batch, stage : Flush(t, batch, stage)
      BY <1>1, <2>1, InvokeStep DEF Flush
    <2>2. CASE FlushReturns(t)
      BY <1>1, <2>2, ForgetStep DEF FlushReturns
    <2>3. CASE UNCHANGED store
      BY <2>3 DEF store
    <2> QED
      BY <2>1, <2>2, <2>3 DEF Queue, CloseDeleter
  <1>4. \A u \in Writers : WriterInv(u)'
    BY <1>1, <1>2, <1>3, WriterKept
  <1>5. \A u \in Deleters \ {t} : DeleterInv(u)'
    BY <1>1, <1>2, <1>3, DeleterKept
  <1>6. deleter[t] \in Deleter /\ owed[t] \in SUBSET Paths /\ DeleterInv(t)
    BY DEF Types
  <1>7. ASSUME NEW batch \in SUBSET Deletions, NEW stage \in {"flushing", "closing"},
               Flush(t, batch, stage), owed' \in [Deleters -> SUBSET Paths],
               \A p \in owed'[t] : \E d \in batch : Covers(d, p)
        PROVE  Types' /\ DeleterInv(t)'
    <2>1. /\ deleter' = [deleter EXCEPT ![t] = [stage |-> stage, buffer |-> batch]]
          /\ [stage |-> stage, buffer |-> batch] \in Deleter
      BY <1>7 DEF Flush, Deleter
    <2>2. deleter'[t].stage = stage /\ deleter'[t].buffer = batch
      BY <2>1 DEF Types
    <2>3. /\ status'[t] = "pending" /\ request'[t] = [op |-> "delete", batch |-> batch]
          /\ status' \in [Clients -> {"idle", "pending", "done"}]
          /\ DOMAIN request' = Clients /\ DOMAIN response' = Clients /\ objects' = objects
      BY <1>1, <1>7, InvokeStep DEF Flush
    <2>4. Types'
      BY <1>2, <1>7, <2>1, <2>3 DEF Types
    <2>5. DeleterInv(t)'
      BY <1>7, <2>2, <2>3 DEF DeleterInv, Busy
    <2> QED
      BY <2>4, <2>5
  <1>8. Types' /\ DeleterInv(t)'
    <2>1. ASSUME NEW d \in Deletions, Queue(t, d) PROVE Types' /\ DeleterInv(t)'
      <3> DEFINE buffer == deleter[t].buffer \cup {d}
      <3>1. deleter[t].stage = "open" /\ buffer \in SUBSET Deletions
        BY <1>6, <2>1 DEF Queue, Deleter
      <3>2. Present(d) \in SUBSET Paths /\ \A p \in Present(d) : Covers(d, p)
        <4>1. d.path \in Paths /\ Subtree[d.path] \in SUBSET Paths
          BY AdaptersAssumption, PathsAssumption
        <4> QED
          BY <4>1 DEF Present, Covers
      <3>3. owed' = [owed EXCEPT ![t] = owed[t] \cup Present(d)]
        BY <2>1 DEF Queue
      <3>4. owed' \in [Deleters -> SUBSET Paths] /\ owed'[t] = owed[t] \cup Present(d)
        BY <1>6, <3>2, <3>3 DEF Types
      <3>5. \A p \in owed'[t] : \E e \in buffer : Covers(e, p)
        BY <1>6, <3>1, <3>2, <3>4 DEF DeleterInv
      <3>6. CASE Flush(t, buffer, "flushing")
        BY <1>7, <3>1, <3>4, <3>5, <3>6
      <3>7. CASE deleter' = [deleter EXCEPT ![t].buffer = buffer] /\ UNCHANGED store
        <4> DEFINE e == [deleter[t] EXCEPT !.buffer = buffer]
        <4>1. e \in Deleter /\ e.stage = "open" /\ e.buffer = buffer
          BY <1>6, <3>1 DEF Deleter
        <4>2. deleter' = [deleter EXCEPT ![t] = e]
          BY <3>7
        <4> HIDE DEF e, buffer
        <4>3. deleter'[t] = e
          BY <4>2 DEF Types
        <4>4. Types'
          BY <1>2, <3>4, <3>7, <4>1, <4>2 DEF Types, store
        <4>5. DeleterInv(t)'
          BY <1>6, <3>1, <3>5, <3>7, <4>1, <4>3 DEF DeleterInv, Busy, store
        <4> QED
          BY <4>4, <4>5
      <3> QED
        BY <2>1, <3>6, <3>7 DEF Queue
    <2>2. CASE CloseDeleter(t)
      <3>1. deleter[t].stage = "open" /\ UNCHANGED owed
        BY <2>2 DEF CloseDeleter
      <3>2. CASE Flush(t, deleter[t].buffer, "closing")
        <4>1. deleter[t].buffer \in SUBSET Deletions
          BY <1>6 DEF Deleter
        <4> QED
          BY <1>6, <1>7, <3>1, <3>2, <4>1 DEF DeleterInv, Types
      <3>3. CASE deleter[t].buffer = {} /\ deleter' = [deleter EXCEPT ![t].stage = "closed"] /\ UNCHANGED store
        <4> DEFINE e == [deleter[t] EXCEPT !.stage = "closed"]
        <4>1. e \in Deleter /\ e.stage = "closed" /\ e.buffer = {}
          BY <1>6, <3>3 DEF Deleter
        <4>2. deleter' = [deleter EXCEPT ![t] = e]
          BY <3>3
        <4> HIDE DEF e
        <4>3. deleter'[t] = e
          BY <4>2 DEF Types
        <4>4. Types'
          BY <1>2, <3>1, <3>3, <4>1, <4>2 DEF Types, store
        <4>5. DeleterInv(t)'
          BY <1>6, <3>1, <3>3, <4>1, <4>3 DEF DeleterInv, Busy, store
        <4> QED
          BY <4>4, <4>5
      <3> QED
        BY <2>2, <3>2, <3>3 DEF CloseDeleter
    <2>3. CASE FlushReturns(t)
      <3> DEFINE ok == response[t].kind = "Ok"
                 e == [stage |-> IF ok /\ deleter[t].stage = "closing" THEN "closed" ELSE "open",
                       buffer |-> IF ok THEN {} ELSE deleter[t].buffer]
      <3>1. /\ e \in Deleter /\ e.stage = (IF ok /\ deleter[t].stage = "closing" THEN "closed" ELSE "open")
            /\ e.buffer = IF ok THEN {} ELSE deleter[t].buffer
        BY <1>6 DEF Deleter
      <3>2. deleter' = [deleter EXCEPT ![t] = e] /\ UNCHANGED owed /\ Busy(t) /\ status[t] = "done"
        BY <2>3 DEF FlushReturns, Busy
      <3> HIDE DEF e
      <3>3. deleter'[t] = e
        BY <3>2 DEF Types
      <3>4. /\ status'[t] = "idle"
            /\ status' \in [Clients -> {"idle", "pending", "done"}]
            /\ DOMAIN request' = Clients /\ DOMAIN response' = Clients /\ objects' = objects
        BY <1>1, <2>3, ForgetStep DEF FlushReturns
      <3>5. Types'
        BY <1>2, <3>1, <3>2, <3>4 DEF Types
      <3>6. DeleterInv(t)'
        BY <1>6, <3>1, <3>2, <3>3, <3>4 DEF DeleterInv, Busy
      <3> QED
        BY <3>5, <3>6
    <2> QED
      BY <2>1, <2>2, <2>3
  <1> QED
    BY <1>4, <1>5, <1>8

\* The store takes up the call of a writer or a deleter.
LEMMA ServeStep ==
  ASSUME AInv, NEW t \in Clients, Serve(t)
  PROVE  AInv' /\ (stored'[t] # stored[t] =>
                     /\ t \in Writers
                     /\ LET p   == writer[t].target.path
                            old == IF writer[t].target.append /\ objects[p] # None
                                   THEN objects[p].value ELSE <<>>
                        IN  objects'[p].value = old \o written[t])
                  /\ \A u \in Clients \ {t} : stored'[u] = stored[u]
  <1> USE RolesAssumption DEF AInv
  <1>1. UNCHANGED <<writer, written, deleter>>
    BY DEF Serve
  <1>2. PICK now \in Times : Respond(t, Apply(request[t], now).out) /\ objects' = Apply(request[t], now).objects
    BY DEF Serve, Perform
  <1> DEFINE e == Apply(request[t], now)
  <1>3. /\ status' \in [Clients -> {"idle", "pending", "done"}]
        /\ DOMAIN request' = Clients /\ DOMAIN response' = Clients
        /\ status[t] = "pending" /\ status'[t] = "done" /\ response'[t] = e.out
        /\ \A u \in Clients \ {t} : status'[u] = status[u] /\ response'[u] = response[u]
        /\ \A u \in Clients : request'[u] = request[u]
    BY <1>2, RespondStep
  <1>4. owed' = [u \in Deleters |-> {p \in owed[u] : objects'[p] # None}]
    BY DEF Serve
  <1>5. /\ owed' \in [Deleters -> SUBSET Paths]
        /\ \A u \in Deleters : owed'[u] = {p \in owed[u] : objects'[p] # None}
    BY <1>4 DEF Types
  <1>6. stored' = [stored EXCEPT ![t] = IF request[t].op = "set" /\ e.out.kind = "Ok" THEN stored[t] + 1 ELSE stored[t]]
    BY <1>3 DEF Serve
  <1>7. /\ stored' \in [Clients -> Nat] /\ \A u \in Clients \ {t} : stored'[u] = stored[u]
        /\ stored'[t] = IF request[t].op = "set" /\ e.out.kind = "Ok" THEN stored[t] + 1 ELSE stored[t]
    BY <1>6 DEF Types
  <1>8. \A u \in Writers \ {t} : WriterInv(u)'
    BY <1>1, <1>3, <1>7, WriterKept
  <1>9. \A u \in Deleters \ {t} : DeleterInv(u)'
    BY <1>1, <1>3, <1>5, DeleterKept
  <1>10. CASE t \in Writers
    <2> DEFINE p   == writer[t].target.path
               old == IF writer[t].target.append /\ objects[p] # None THEN objects[p].value ELSE <<>>
    <2>1. /\ writer[t] \in Writer /\ writer[t].stage = "closing" /\ request[t] = SetOf(writer[t])
          /\ stored[t] = 0 /\ writer[t].buffer = written[t]
      BY <1>3, <1>10 DEF WriterInv, Types
    <2>2. /\ e.objects \in Maps
          /\ e.out.kind = "Ok" => e.objects[p].value = old \o writer[t].buffer
      <3>1. now \in Times /\ Types
        BY <1>1, <1>2
      <3> DEFINE w == writer[t]
      <3>2. w \in Writer /\ e = Apply(SetOf(w), now)
        BY <2>1
      <3> HIDE DEF w, e
      <3>3. /\ e.objects \in Maps
            /\ e.out.kind = "Ok" => e.objects[w.target.path].value =
                 (IF w.target.append /\ objects[w.target.path] # None
                  THEN objects[w.target.path].value ELSE <<>>) \o w.buffer
        BY <3>1, <3>2, SetEffect
      <3> QED
        BY <3>3 DEF w
    <2>3. request[t].op = "set"
      BY <2>1 DEF SetOf
    <2> HIDE DEF e, old, p
    <2>4. Types'
      BY <1>1, <1>2, <1>3, <1>5, <1>7, <2>2 DEF Types, e
    <2>5. stored'[t] = IF response'[t].kind = "Ok" THEN 1 ELSE 0
      BY <1>3, <1>7, <2>1, <2>3
    <2>6. SetOf(writer'[t]) = SetOf(writer[t])
      BY <1>1
    <2>7. WriterInv(t)'
      BY <1>1, <1>3, <1>10, <2>1, <2>5, <2>6 DEF WriterInv
    <2>8. stored'[t] # stored[t] => objects'[p].value = old \o written[t]
      BY <1>2, <1>7, <2>1, <2>2, <2>3 DEF e
    <2> QED
      BY <1>7, <1>8, <1>9, <1>10, <2>4, <2>7, <2>8 DEF old, p
  <1>11. CASE t \in Deleters
    <2>1. /\ deleter[t] \in Deleter /\ Busy(t) /\ request[t] = [op |-> "delete", batch |-> deleter[t].buffer]
          /\ \A p \in owed[t] : p \in Paths /\ \E d \in deleter[t].buffer : Covers(d, p)
          /\ deleter[t].stage \notin {"gone", "closed"}
      BY <1>3, <1>11 DEF DeleterInv, Types, Busy
    <2>2. deleter[t].buffer \in SUBSET Deletions
      BY <2>1 DEF Deleter
    <2>3. /\ e.objects \in Maps
          /\ \A p \in Paths : (\E d \in deleter[t].buffer : Covers(d, p)) => e.objects[p] = None
      BY <2>1, <2>2, DeleteEffect
    <2>4. request[t].op # "set"
      BY <2>1
    <2> HIDE DEF e
    <2>5. owed'[t] = {}
      BY <1>2, <1>5, <1>11, <2>1, <2>3 DEF e
    <2>6. Types'
      BY <1>1, <1>2, <1>3, <1>5, <1>7, <2>3 DEF Types, e
    <2>7. DeleterInv(t)'
      BY <1>1, <1>3, <2>1, <2>5 DEF DeleterInv, Busy
    <2> QED
      BY <1>7, <1>8, <1>9, <1>11, <2>4, <2>6, <2>7
  <1> QED
    BY <1>10, <1>11

\* The store fails, or the client goes away.
LEMMA OtherStep ==
  ASSUME AInv, NEW t \in Clients, Refuse(t) \/ Abandon(t)
  PROVE  AInv' /\ UNCHANGED stored
  <1> USE RolesAssumption DEF AInv
  <1>1. CASE Refuse(t)
    <2>1. UNCHANGED <<objects, writer, written, stored, deleter, owed>> /\ Respond(t, Outcome("Unexpected"))
      BY <1>1 DEF Refuse, Fail
    <2>2. /\ status' \in [Clients -> {"idle", "pending", "done"}]
          /\ DOMAIN request' = Clients /\ DOMAIN response' = Clients
          /\ status[t] = "pending" /\ status'[t] = "done" /\ response'[t].kind = "Unexpected"
          /\ \A u \in Clients \ {t} : status'[u] = status[u] /\ response'[u] = response[u]
          /\ \A u \in Clients : request'[u] = request[u]
      BY <2>1, RespondStep DEF Outcome
    <2>3. Types'
      BY <2>1, <2>2 DEF Types
    <2>4. ASSUME NEW u \in Writers PROVE WriterInv(u)'
      <3>1. CASE u # t
        BY <2>1, <2>2, <3>1, WriterKept
      <3>2. CASE u = t
        BY <2>1, <2>2, <3>2 DEF WriterInv, SetOf
      <3> QED
        BY <3>1, <3>2
    <2>5. ASSUME NEW u \in Deleters PROVE DeleterInv(u)'
      <3>1. CASE u # t
        BY <2>1, <2>2, <3>1, DeleterKept
      <3>2. CASE u = t
        BY <2>1, <2>2, <3>2 DEF DeleterInv, Busy
      <3> QED
        BY <3>1, <3>2
    <2> QED
      BY <2>1, <2>3, <2>4, <2>5
  <1>2. CASE Abandon(t)
    <2>1. UNCHANGED <<written, stored, owed>> /\ Forget(t)
      BY <1>2 DEF Abandon
    <2>2. /\ status' \in [Clients -> {"idle", "pending", "done"}]
          /\ DOMAIN request' = Clients /\ DOMAIN response' = Clients /\ objects' = objects
          /\ status'[t] = "idle"
          /\ \A u \in Clients \ {t} : /\ status'[u] = status[u] /\ request'[u] = request[u]
                                      /\ response'[u] = response[u]
      BY <2>1, ForgetStep
    <2>3. CASE t \in Writers
      <3> DEFINE e == [writer[t] EXCEPT !.stage = "gone"]
      <3>1. writer[t] \in Writer
        BY <2>3 DEF Types
      <3>2. e \in Writer /\ e.stage = "gone"
        BY <3>1 DEF Writer
      <3>3. writer' = [writer EXCEPT ![t] = e] /\ UNCHANGED deleter
        BY <1>2, <2>3 DEF Abandon
      <3> HIDE DEF e
      <3>4. Types'
        BY <2>1, <2>2, <3>2, <3>3 DEF Types
      <3>5. writer'[t] = e /\ \A u \in Writers \ {t} : writer'[u] = writer[u]
        BY <2>3, <3>3 DEF Types
      <3>6. \A u \in Writers \ {t} : WriterInv(u)'
        BY <2>1, <2>2, <3>5, WriterKept
      <3>7. WriterInv(t)'
        BY <2>1, <2>2, <2>3, <3>2, <3>5 DEF WriterInv
      <3>8. \A u \in Deleters : DeleterInv(u)'
        BY <2>1, <2>2, <2>3, <3>3, DeleterKept
      <3> QED
        BY <2>1, <3>4, <3>6, <3>7, <3>8
    <2>4. CASE t \notin Writers
      <3> DEFINE e == [deleter[t] EXCEPT !.stage = "gone"]
      <3>1. t \in Deleters /\ deleter[t] \in Deleter
        BY <2>4 DEF Types
      <3>2. e \in Deleter /\ e.stage = "gone"
        BY <3>1 DEF Deleter
      <3>3. deleter' = [deleter EXCEPT ![t] = e] /\ UNCHANGED writer
        BY <1>2, <2>4 DEF Abandon
      <3> HIDE DEF e
      <3>4. Types'
        BY <2>1, <2>2, <3>2, <3>3 DEF Types
      <3>5. deleter'[t] = e /\ \A u \in Deleters \ {t} : deleter'[u] = deleter[u]
        BY <3>1, <3>3 DEF Types
      <3>6. \A u \in Deleters \ {t} : DeleterInv(u)'
        BY <2>1, <2>2, <3>5, DeleterKept
      <3>7. DeleterInv(t)'
        BY <2>1, <2>2, <3>2, <3>5 DEF DeleterInv, Busy
      <3>8. \A u \in Writers : WriterInv(u)'
        BY <2>1, <2>2, <2>4, <3>3, WriterKept
      <3> QED
        BY <2>1, <3>4, <3>6, <3>7, <3>8
    <2> QED
      BY <2>3, <2>4
  <1> QED
    BY <1>1, <1>2
---------------------------------------------------------------------------
(* The theorems.                                                           *)

\* Writers, deleters and the calls they have under way.
LEMMA AdaptersInvariant == AdaptersSpec => []AInv
  <1> USE RolesAssumption, AdaptersAssumption
  <1>1. AdaptersInit => AInv
    <2> SUFFICES ASSUME AdaptersInit PROVE AInv
      OBVIOUS
    <2>1. PICK target \in [Writers -> Targets] :
            writer = [t \in Writers |-> [stage |-> "open", target |-> target[t], buffer |-> <<>>]]
      BY DEF AdaptersInit
    <2>2. <<>> \in Bytes
      BY DEF Bytes
    <2>3. Types
      BY <2>1, <2>2 DEF AdaptersInit, Types, Maps, Writer, Deleter
    <2>4. ASSUME NEW t \in Writers PROVE WriterInv(t)
      BY <2>1 DEF AdaptersInit, WriterInv
    <2>5. ASSUME NEW t \in Deleters PROVE DeleterInv(t)
      BY DEF AdaptersInit, DeleterInv, Busy
    <2> QED
      BY <2>3, <2>4, <2>5 DEF AInv
  <1>2. AInv /\ [AdaptersNext]_vars => AInv'
    <2>1. ASSUME AInv, AdaptersNext PROVE AInv'
      BY <2>1, WriterStep, DeleterStep, ServeStep, OtherStep DEF AdaptersNext
    <2>2. ASSUME AInv, UNCHANGED vars PROVE AInv'
      <3>1. Types'
        BY <2>2 DEF AInv, Types, vars, store
      <3>2. \A t \in Writers : WriterInv(t)'
        BY <2>2, WriterKept DEF AInv, vars, store
      <3>3. \A t \in Deleters : DeleterInv(t)'
        BY <2>2, DeleterKept DEF AInv, vars, store
      <3> QED
        BY <3>1, <3>2, <3>3 DEF AInv
    <2> QED
      BY <2>1, <2>2
  <1> QED
    BY <1>1, <1>2, PTL DEF AdaptersSpec

\* However often the close of a writer fails and is tried again, its bytes come
\* into the store exactly once when it succeeds, and not at all before.
THEOREM WritersStoreOnce == AdaptersSpec => []StoredOnce
  <1>1. AInv => StoredOnce
    BY RolesAssumption DEF AInv, WriterInv, StoredOnce, Types, Writer
  <1> QED
    BY <1>1, AdaptersInvariant, PTL

\* What comes into the store is all that the writer was given, behind what was
\* there at that moment if it appends.
THEOREM WritersStoreAll == AdaptersSpec => StoredWhole
  <1> DEFINE Whole == \A t \in Writers :
               stored'[t] # stored[t] =>
                 LET p   == writer[t].target.path
                     old == IF writer[t].target.append /\ objects[p] # None
                            THEN objects[p].value ELSE <<>>
                 IN  objects'[p].value = old \o written[t]
  <1>1. AInv /\ [AdaptersNext]_vars => [Whole]_vars
    <2> SUFFICES ASSUME AInv, AdaptersNext, NEW t \in Writers, stored'[t] # stored[t]
                 PROVE  LET p   == writer[t].target.path
                            old == IF writer[t].target.append /\ objects[p] # None
                                   THEN objects[p].value ELSE <<>>
                        IN  objects'[p].value = old \o written[t]
      OBVIOUS
    <2>1. \E u \in Clients : Serve(u)
      BY OtherStep DEF AdaptersNext, Write, Close, CloseReturns, Abort, Queue, CloseDeleter, FlushReturns
    <2>2. Serve(t)
      BY <2>1, ServeStep, RolesAssumption
    <2> QED
      BY <2>2, ServeStep, RolesAssumption
  <1> QED
    BY <1>1, AdaptersInvariant, PTL DEF AdaptersSpec, StoredWhole

\* When the close of a deleter succeeds each path it was given has been absent
\* since, however its batches were cut, failed and were sent again.
THEOREM DeletersDelete == AdaptersSpec => []DeletesDone
  <1>1. AInv => DeletesDone
    BY DEF AInv, DeleterInv, DeletesDone
  <1> QED
    BY <1>1, AdaptersInvariant, PTL
=============================================================================
