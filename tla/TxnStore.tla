------------------------------ MODULE TxnStore ------------------------------
(***************************************************************************)
(* IndexeddbCore::run_transaction over the two object stores.  Every call  *)
(* runs its body in one IndexedDB transaction over the data store and its  *)
(* sidecar; the transaction may be lost with its connection, in which case *)
(* the call is run once more, and tabs come and go while transactions are  *)
(* in flight.  How a connection is obtained is the subject of Connection.  *)
(***************************************************************************)
EXTENDS Core

CONSTANTS
  Clients,  \* the tasks that use the store, in one tab or in several
  Calls,    \* the calls they make
  Quota,    \* the length of the longest record the browser will store
  Old       \* the payloads that versions older than the sidecar write

ASSUME CallsAssumption == Calls \subseteq Call
ASSUME QuotaAssumption == Quota \in Nat
ASSUME OldAssumption == Old \subseteq Bytes

VARIABLES
  data, meta,  \* the committed object stores
  phase,       \* where a task is in run_transaction
  call,        \* the call it is running
  attempt,     \* its attempts so far: `for attempt in 0..2`
  view,        \* what its transaction has read and written, not yet committed
  result,      \* what its call returns
  ahead        \* the live transactions that were created before a task's own

stores == <<data, meta>>
vars == <<data, meta, phase, call, attempt, view, result, ahead>>

\* The sidecar describes the entry it stands beside.  A sidecar without its
\* entry is an orphan; an entry without a usable sidecar is a legacy record.
Describes(v, m) ==
  v # None /\ m \notin {None, BadMeta} =>
    v # NotBytes /\ m.l = Len(v) /\ m.e \in {None, etag_from_bytes(v)}

SidecarMatches == \A k \in Paths : Describes(data[k], meta[k])

StoresInit ==
  /\ data \in [Paths -> Values \cup {None}]
  /\ meta \in [Paths -> Metas]
  /\ SidecarMatches

ClientsInit ==
  /\ phase = [t \in Clients |-> "idle"]
  /\ call = [t \in Clients |-> None]
  /\ attempt = [t \in Clients |-> 0]
  /\ view = [t \in Clients |-> None]
  /\ result = [t \in Clients |-> None]
  /\ ahead = [t \in Clients |-> {}]

Init == StoresInit /\ ClientsInit
---------------------------------------------------------------------------
Invoke(t, c) ==
  /\ phase[t] = "idle"
  /\ phase' = [phase EXCEPT ![t] = "calling"]
  /\ call' = [call EXCEPT ![t] = c]
  /\ UNCHANGED <<stores, attempt, view, result, ahead>>

\* The transaction of t is over, if it has one: t goes to phase p with result r.
Leave(t, p, r) ==
  /\ phase' = [phase EXCEPT ![t] = p]
  /\ result' = [result EXCEPT ![t] = r]
  /\ view' = [view EXCEPT ![t] = None]
  /\ ahead' = [u \in Clients |-> IF u = t THEN {} ELSE ahead[u] \ {t}]

\* copy and rename of a path to itself, and the empty batch.
Shortcut(t) ==
  /\ phase[t] = "calling" /\ early_return(call[t]) # None
  /\ Leave(t, "done", Outcome(early_return(call[t])))
  /\ UNCHANGED <<stores, call, attempt>>

\* ensure_cached_client and cached_transaction succeed.
CreateTransaction(t) ==
  /\ phase[t] = "calling" /\ early_return(call[t]) = None
  /\ phase' = [phase EXCEPT ![t] = "queued"]
  /\ ahead' = [ahead EXCEPT ![t] = {u \in Clients : phase[u] \in {"queued", "active"}}]
  /\ UNCHANGED <<stores, call, attempt, view, result>>

\* IndexedDB starts a transaction once no live transaction created before it
\* conflicts with it: they have the same scope, so a readwrite one waits for
\* all of them and a readonly one for the readwrite ones.
Startable(t) == \A u \in ahead[t] : ~readwrite(call[t]) /\ ~readwrite(call[u])

\* Mutant: the body reads before its transaction starts.
RunEarly(t) ==
  /\ phase[t] = "queued"
  /\ phase' = [phase EXCEPT ![t] = "active"]
  /\ \E now \in Times : view' = [view EXCEPT ![t] = Body(data, meta, call[t], now)]
  /\ UNCHANGED <<stores, call, attempt, result, ahead>>

Run(t) ==
  /\ phase[t] = "queued" /\ Startable(t)
  /\ phase' = [phase EXCEPT ![t] = "active"]
  /\ \E now \in Times : view' = [view EXCEPT ![t] = Body(data, meta, call[t], now)]
  /\ UNCHANGED <<stores, call, attempt, result, ahead>>

\* The browser refuses a record that exceeds its quota.
WithinQuota(v) ==
  \A k \in Paths : v.data[k] # data[k] /\ v.data[k] \in Bytes => Len(v.data[k]) <= Quota

\* Mutant: the two stores are written in transactions of their own.
CommitDataFirst(t) ==
  /\ phase[t] = "active" /\ WithinQuota(view[t])
  /\ data' = view[t].data
  /\ Leave(t, "done", view[t].out)
  /\ UNCHANGED <<meta, call, attempt>>

\* A failed body leaves its view as it found the stores: committing it and
\* rolling it back are the same.
Commit(t) ==
  /\ phase[t] = "active" /\ WithinQuota(view[t])
  /\ data' = view[t].data
  /\ meta' = view[t].meta
  /\ Leave(t, "done", view[t].out)
  /\ UNCHANGED <<call, attempt>>

\* QuotaExceededError panics in indexed-db before it reaches this crate: the
\* transaction is rolled back and the call never returns.
Panic(t) ==
  /\ phase[t] = "active" /\ ~WithinQuota(view[t])
  /\ Leave(t, "panicked", None)
  /\ UNCHANGED <<stores, call, attempt>>
---------------------------------------------------------------------------
(* Failures.                                                               *)
running == {"calling", "queued", "active"}

\* Mutants: one attempt too many, no count of them, a retry of what committed.
LoseConnectionTwice(t) ==
  /\ phase[t] \in running /\ attempt[t] <= 1 /\ early_return(call[t]) = None
  /\ attempt' = [attempt EXCEPT ![t] = @ + 1]
  /\ Leave(t, "calling", None)
  /\ UNCHANGED <<stores, call>>
LoseConnectionUncounted(t) ==
  /\ phase[t] \in running /\ early_return(call[t]) = None
  /\ Leave(t, "calling", None)
  /\ UNCHANGED <<stores, call, attempt>>
LoseConnectionAfterCommit(t) ==
  /\ phase[t] = "active" /\ attempt[t] = 0 /\ WithinQuota(view[t])
  /\ data' = view[t].data /\ meta' = view[t].meta
  /\ attempt' = [attempt EXCEPT ![t] = 1]
  /\ Leave(t, "calling", None)
  /\ UNCHANGED call

\* No usable connection (cached_transaction gives None), or a stale connection
\* error: the cached connection is evicted and the call is run once more.
LoseConnection(t) ==
  /\ phase[t] \in running /\ attempt[t] = 0 /\ early_return(call[t]) = None
  /\ attempt' = [attempt EXCEPT ![t] = 1]
  /\ Leave(t, "calling", None)
  /\ UNCHANGED <<stores, call>>

\* Any other infrastructure error, or a stale connection at the last attempt.
Fail(t) ==
  /\ phase[t] \in running /\ early_return(call[t]) = None
  /\ Leave(t, "done", Outcome("Unexpected"))
  /\ UNCHANGED <<stores, call, attempt>>

Return(t) ==
  /\ phase[t] = "done"
  /\ Leave(t, "idle", None)
  /\ call' = [call EXCEPT ![t] = None]
  /\ attempt' = [attempt EXCEPT ![t] = 0]
  /\ UNCHANGED stores

\* The tab of t is reloaded, or the future of its call is dropped, and the
\* transaction is aborted.  (When it commits all the same, that is Commit and
\* then this action: a tab that calls again meanwhile is another client.)
Reload(t) ==
  /\ phase[t] # "idle"
  /\ Leave(t, "idle", None)
  /\ call' = [call EXCEPT ![t] = None]
  /\ attempt' = [attempt EXCEPT ![t] = 0]
  /\ UNCHANGED stores

\* A tab that runs a version of the crate older than the sidecar deletes an
\* entry, leaving its sidecar behind, or writes one where no sidecar is.
Legacy(k) ==
  /\ \A t \in Clients : phase[t] # "active"
  /\ \/ data' = [data EXCEPT ![k] = None]
     \/ /\ meta[k] = None
        /\ \E v \in Old : data' = [data EXCEPT ![k] = v]
  /\ UNCHANGED <<meta, phase, call, attempt, view, result, ahead>>
---------------------------------------------------------------------------
Step(t) == Shortcut(t) \/ CreateTransaction(t) \/ Run(t) \/ Commit(t) \/ Panic(t) \/ Return(t)

Next ==
  \/ \E t \in Clients : \/ \E c \in Calls : Invoke(t, c)
                        \/ Shortcut(t) \/ CreateTransaction(t) \/ Run(t)
                        \/ Commit(t) \/ Panic(t) \/ Return(t)
                        \/ LoseConnection(t) \/ Fail(t) \/ Reload(t)
  \/ \E k \in Paths : Legacy(k)

Spec == Init /\ [][Next]_vars

\* The browser runs every transaction it can run and reports how it ended, and
\* the executor polls every task it wakes.
FairSpec == Spec /\ \A t \in Clients : WF_vars(Step(t))
---------------------------------------------------------------------------
(* Properties.                                                             *)

TypeOK ==
  /\ data \in [Paths -> Values \cup {None}]
  /\ meta \in [Paths -> Metas]
  /\ phase \in [Clients -> running \cup {"idle", "done", "panicked"}]
  /\ call \in [Clients -> Calls \cup {None}]
  /\ attempt \in [Clients -> {0, 1}]
  /\ view \in [Clients -> Views \cup {None}]
  /\ result \in [Clients -> Result \cup {None}]
  /\ ahead \in [Clients -> SUBSET Clients]

\* Transactions are isolated: until it commits, an active transaction's view
\* is what its body computes from the stores as they are now, so what it
\* checked (existence, etags) still holds when its writes are installed.  It
\* rests on every writing call asking for a readwrite transaction.
SnapshotCurrent ==
  \A t \in Clients :
    phase[t] = "active" => \E now \in Times : view[t] = Body(data, meta, call[t], now)

\* The step in which a call of t succeeds.
Succeeds(t) == phase[t] = "active" /\ phase'[t] = "done" /\ result'[t].kind = "Ok"

\* A conditional write is a compare-and-swap against the bytes in place, even
\* beside an orphan or damaged sidecar: of two writers that hold the same ETag
\* one loses, and of two that create one entry one loses.
ConditionalWrites ==
  [][\A t \in Clients : Succeeds(t) /\ call[t].op = "set" =>
       LET c == call[t]
           v == data[c.path]
       IN  /\ c.if_not_exists \/ c.if_none_match = Star => v = None
           /\ c.if_match = Star => v # None
           /\ c.if_match \in ETags => v = c.if_match.hash
           /\ c.if_none_match \in ETags => v # c.if_none_match.hash]_vars

\* Whatever sidecar the source had (none, a damaged one, one without an ETag),
\* a successful write, copy or rename leaves a sidecar with the ETag and length
\* of the bytes now stored, so no later stat or list needs the payload.
WritesLeaveSidecar ==
  [][\A t \in Clients : Succeeds(t) /\ call[t].op \in {"set", "copy", "rename"} =>
       LET k == IF call[t].op = "set" THEN call[t].path ELSE call[t].to
       IN  /\ data'[k] \in Bytes
           /\ meta'[k] \notin {None, BadMeta}
           /\ meta'[k].e = etag_from_bytes(data'[k])
           /\ meta'[k].l = Len(data'[k])]_vars

\* A call never orphans a sidecar: deletes, recursive ones included, and
\* renames drop the entry from both stores.  Only older tabs leave orphans.
NoNewOrphans ==
  [][\A k \in Paths :
       data[k] # None /\ data'[k] = None /\ phase' # phase => meta'[k] = None]_vars

Object(k) ==
  IF data[k] = None THEN None
  ELSE LET info == entry_info(data, meta, k)
       IN  [value |-> data[k], modified |-> info.modified, content |-> info.content]

Abstract == INSTANCE ObjectStore WITH
  objects <- [k \in Paths |-> Object(k)],
  status <- [t \in Clients |-> CASE phase[t] \in {"idle", "done"} -> phase[t]
                                 [] OTHER -> "pending"],
  request <- call,
  response <- result

\* The two stores behave as one map of objects on which every call takes effect
\* at once and at most once, retries, reloads and old tabs included.
Implements == Abstract!Spec

\* Every call returns, unless the browser refuses the record (it panics then).
CallsReturn == \A t \in Clients : phase[t] \in running ~> phase[t] \notin running
=============================================================================
