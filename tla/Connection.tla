----------------------------- MODULE Connection -----------------------------
(***************************************************************************)
(* How a call gets a connection: the per-realm connection cache and its    *)
(* cleanup, the upgrade lock, the version upgrade with its retry loop and  *)
(* time-out, and IndexedDB's queue of open requests for one database.  A   *)
(* realm is one tab or worker; its tasks run one poll at a time, so what   *)
(* happens between two awaits is one step.                                 *)
(***************************************************************************)
EXTENDS Integers, Sequences, FiniteSets

CONSTANTS
  Realms, Tasks,
  RealmOf,      \* the realm a task runs in
  Needs,        \* the object stores of a task's operator (data and sidecar)
  Conns,        \* identities of connections
  UpgradeTries, \* `for _ in 0..8`
  MaxCalls,     \* bound: calls a task makes
  MaxForeign,   \* bound: connections and upgrades of third-party code
  Foreign,      \* the owner of third-party connections
  None

ASSUME TasksAssumption == /\ RealmOf \in [Tasks -> Realms]
                          /\ Foreign \notin Realms
                          /\ None \notin Realms \cup Tasks \cup Conns
ASSUME BoundsAssumption == UpgradeTries \in Nat /\ MaxCalls \in Nat /\ MaxForeign \in Nat

VARIABLES
  version, stores, \* the database: 0 is "does not exist"
  conns,           \* the connections that somebody refers to
  requests,        \* IndexedDB's connection queue
  foreign,         \* what third-party code has done so far
  cache,           \* CONNECTION_CACHE of each realm; fresh: not cached_connection_expired
  generation,      \* CONNECTION_CACHE_GENERATION
  cleaners,        \* the generations that have a cleanup task
  lock,            \* the holder of the upgrade lock
  pc, calls,       \* where a task is, the calls it has made
  attempt, tries,  \* of run_transaction, of open_client
  reply,           \* what IndexedDB answered its open request
  excuses          \* history: rival upgrades and failed opens in this loop

database == <<version, stores, foreign>>
realm == <<cache, generation, cleaners, lock>>
task == <<pc, calls, attempt, tries, reply, excuses>>
vars == <<database, conns, requests, realm, task>>

Stores == UNION {Needs[t] : t \in Tasks}
Connections == [owner: Realms \cup {Foreign}, version: Nat, stores: SUBSET Stores,
                state: {"open", "closing", "dropped", "dead"}, users: SUBSET Tasks]
Slots == [conn: Conns, gen: Nat, fresh: BOOLEAN]
Replies == [kind: {"ok"}, conn: Conns] \cup [kind: {"err", "too_old"}]
ASSUME NoneAssumption ==
  None \notin Connections \cup Slots \cup Replies \cup [gen: Nat, fresh: BOOLEAN]

waiting == {"probe", "latest", "upgrade"}

Init ==
  /\ version \in {0, 1} /\ stores = {} /\ foreign = 0
  /\ conns = [c \in Conns |-> None] /\ requests = <<>>
  /\ cache = [r \in Realms |-> None]
  /\ generation = [r \in Realms |-> 0] /\ cleaners = [r \in Realms |-> {}]
  /\ lock = [r \in Realms |-> None]
  /\ pc = [t \in Tasks |-> "idle"] /\ calls = [t \in Tasks |-> 0]
  /\ attempt = [t \in Tasks |-> 0] /\ tries = [t \in Tasks |-> 0]
  /\ reply = [t \in Tasks |-> None] /\ excuses = [t \in Tasks |-> 0]
---------------------------------------------------------------------------
(* Connections.  close() lets running transactions finish; until they have *)
(* the connection blocks upgrades.  So does one that nobody closes because *)
(* its call was dropped, until the browser collects it.  A connection the  *)
(* browser has closed ("dead") blocks nothing but may be referred to.      *)
Live(c) == conns[c] # None /\ conns[c].state # "dead"
Blocked == \E c \in Conns : Live(c)
Unused == CHOOSE c \in Conns : conns[c] = None

close(cs, c) ==
  [cs EXCEPT ![c] = IF @.state = "open" /\ @.users # {} THEN [@ EXCEPT !.state = "closing"]
                    ELSE None]

\* Mutant: the evicted connection is not closed.
evicted_unclosed(r) == conns

\* The connections after evict_cached_connection, which also sets cache[r] to None.
evicted(r) == IF cache[r] = None THEN conns ELSE close(conns, cache[r].conn)

\* The connections after the only reference to c is gone.
dropped(c) ==
  [conns EXCEPT ![c] = IF @.state = "dead" THEN None ELSE [@ EXCEPT !.state = "dropped"]]

stores_exist_in(t, c) == Needs[t] \subseteq conns[c].stores

\* Mutant: whatever connection is cached will do.
cached_client_exists(t) == cache[RealmOf[t]] # None /\ cache[RealmOf[t]].fresh

cached_client_has_stores(t) ==
  LET r == RealmOf[t]
  IN  cache[r] # None /\ cache[r].fresh /\ stores_exist_in(t, cache[r].conn)

Submit(t, ver) ==
  /\ requests' = Append(requests, [task |-> t, ver |-> ver, wanted |-> TRUE])
  /\ reply' = [reply EXCEPT ![t] = None]

Goto(t, p) == pc' = [pc EXCEPT ![t] = p]

\* Mutant: the guard is not dropped.
UnlockForgotten(t) ==
  tries' = [tries EXCEPT ![t] = 0] /\ excuses' = [excuses EXCEPT ![t] = 0] /\ UNCHANGED lock

\* ensure_cached_client is left: the lock is released and the loop's locals are gone.
Unlock(t) ==
  /\ lock' = [lock EXCEPT ![RealmOf[t]] = None]
  /\ tries' = [tries EXCEPT ![t] = 0] /\ excuses' = [excuses EXCEPT ![t] = 0]

\* Mutant: one attempt too many.
NextAttemptTwice(t) ==
  IF attempt[t] <= 1
  THEN attempt' = [attempt EXCEPT ![t] = @ + 1] /\ Goto(t, "start")
  ELSE UNCHANGED attempt /\ Goto(t, "idle")

\* The next round of `for attempt in 0..2`, or the error after the last.
NextAttempt(t) ==
  IF attempt[t] = 0
  THEN attempt' = [attempt EXCEPT ![t] = 1] /\ Goto(t, "start")
  ELSE UNCHANGED attempt /\ Goto(t, "idle")
---------------------------------------------------------------------------
(* run_transaction and ensure_cached_client.                               *)
Call(t) ==
  /\ pc[t] = "idle" /\ calls[t] < MaxCalls
  /\ Goto(t, "start")
  /\ calls' = [calls EXCEPT ![t] = @ + 1]
  /\ attempt' = [attempt EXCEPT ![t] = 0]
  /\ UNCHANGED <<database, conns, requests, realm, tries, reply, excuses>>

\* A task at its first check of the cache, or past the lock at its second.
Checks(t) ==
  \/ pc[t] = "start"
  \/ pc[t] = "lock" /\ lock[RealmOf[t]] = None

UseCached(t) ==
  LET r == RealmOf[t]
  IN  /\ Checks(t) /\ cached_client_has_stores(t)
      /\ conns[cache[r].conn].state = "open"
      /\ conns' = [conns EXCEPT ![cache[r].conn].users = @ \cup {t}]
      /\ Goto(t, "txn")
      /\ UNCHANGED <<database, requests, realm, calls, attempt, tries, reply, excuses>>

\* The clock jumped past the TTL before cached_transaction looked again, or the
\* browser had closed the connection (a stale connection error): evict, retry.
\* Another error, or a stale one at the last attempt, leaves the cache as it is.
LoseCached(t) ==
  LET r == RealmOf[t]
  IN  /\ Checks(t) /\ cached_client_has_stores(t)
      /\ \/ conns' = evicted(r) /\ cache' = [cache EXCEPT ![r] = None] /\ NextAttempt(t)
         \/ Goto(t, "idle") /\ UNCHANGED <<conns, cache, attempt>>
      /\ UNCHANGED <<database, requests, generation, cleaners, lock, calls, tries, reply,
                     excuses>>

\* Another task holds the upgrade lock; an expired connection is closed first.
WaitForLock(t) ==
  LET r == RealmOf[t]
  IN  /\ pc[t] = "start" /\ ~cached_client_has_stores(t) /\ lock[r] # None
      /\ IF cache[r] # None /\ ~cache[r].fresh
         THEN conns' = evicted(r) /\ cache' = [cache EXCEPT ![r] = None]
         ELSE UNCHANGED <<conns, cache>>
      /\ Goto(t, "lock")
      /\ UNCHANGED <<database, requests, generation, cleaners, lock, calls, attempt, tries,
                     reply, excuses>>

\* Mutant: the upgrade lock is not awaited.
OpenClientUnlocked(t) ==
  LET r == RealmOf[t]
  IN  /\ pc[t] \in {"start", "lock"} /\ ~cached_client_has_stores(t)
      /\ lock' = [lock EXCEPT ![r] = t]
      /\ conns' = evicted(r)
      /\ cache' = [cache EXCEPT ![r] = None]
      /\ Goto(t, "probe") /\ Submit(t, 0)
      /\ UNCHANGED <<database, generation, cleaners, calls, attempt, tries, excuses>>

\* The lock is taken and the cache does not help: evict it, and open_client
\* starts with open_if_stores_exist.
OpenClient(t) ==
  LET r == RealmOf[t]
  IN  /\ pc[t] \in {"start", "lock"} /\ lock[r] = None /\ ~cached_client_has_stores(t)
      /\ lock' = [lock EXCEPT ![r] = t]
      /\ conns' = evicted(r)
      /\ cache' = [cache EXCEPT ![r] = None]
      /\ Goto(t, "probe") /\ Submit(t, 0)
      /\ UNCHANGED <<database, generation, cleaners, calls, attempt, tries, excuses>>
---------------------------------------------------------------------------
(* open_client.                                                            *)
Opened(t) == reply[t] # None /\ reply[t].kind = "ok"
Suitable(t) == Opened(t) /\ stores_exist_in(t, reply[t].conn)

\* cache_connection, the lock released, and cached_transaction in one poll.
\* The transaction may fail to start for the reasons LoseCached names.
Deliver(t) ==
  LET r == RealmOf[t]
      c == reply[t].conn
      g == generation[r] + 1
      cached == [cache EXCEPT ![r] = [conn |-> c, gen |-> g, fresh |-> TRUE]]
  IN  /\ pc[t] \in waiting /\ Suitable(t)
      /\ reply' = [reply EXCEPT ![t] = None]
      /\ generation' = [generation EXCEPT ![r] = g]
      /\ cleaners' = [cleaners EXCEPT ![r] = @ \cup {g}]
      /\ Unlock(t)
      /\ \/ /\ conns[c].state = "open"
            /\ conns' = [evicted(r) EXCEPT ![c].users = {t}] /\ cache' = cached
            /\ Goto(t, "txn") /\ UNCHANGED attempt
         \/ /\ conns' = [evicted(r) EXCEPT ![c] = None]
            /\ cache' = [cache EXCEPT ![r] = None]
            /\ NextAttempt(t)
         \/ conns' = evicted(r) /\ cache' = cached /\ Goto(t, "idle") /\ UNCHANGED attempt
      /\ UNCHANGED <<database, requests, calls>>

\* Mutant: it is not closed.
DiscardedUnclosed(t) == conns

\* The connection just opened lacks the stores: close it.
Discarded(t) == IF Opened(t) THEN close(conns, reply[t].conn) ELSE conns

\* A round of the upgrade loop begins with open_latest_version.
Probed(t) ==
  LET r == RealmOf[t]
  IN  /\ pc[t] = "probe" /\ reply[t] # None /\ ~Suitable(t)
      /\ conns' = (IF cache[r] = None THEN Discarded(t) ELSE close(Discarded(t), cache[r].conn))
      /\ cache' = [cache EXCEPT ![r] = None]
      /\ Goto(t, "latest") /\ Submit(t, 0)
      /\ UNCHANGED <<database, generation, cleaners, lock, calls, attempt, tries, excuses>>

\* Mutant: the version in place is asked for.
RequestSameVersion(t) ==
  /\ pc[t] = "latest" /\ reply[t] # None /\ ~Suitable(t)
  /\ conns' = Discarded(t)
  /\ Submit(t, IF Opened(t) THEN conns[reply[t].conn].version ELSE 1)
  /\ excuses' = [excuses EXCEPT ![t] = @ + (IF Opened(t) THEN 0 ELSE 1)]
  /\ Goto(t, "upgrade")
  /\ UNCHANGED <<database, realm, calls, attempt, tries>>

RequestUpgrade(t) ==
  /\ pc[t] = "latest" /\ reply[t] # None /\ ~Suitable(t)
  /\ conns' = Discarded(t)
  /\ Submit(t, IF Opened(t) THEN conns[reply[t].conn].version + 1 ELSE 1)
  /\ excuses' = [excuses EXCEPT ![t] = @ + (IF Opened(t) THEN 0 ELSE 1)]
  /\ Goto(t, "upgrade")
  /\ UNCHANGED <<database, realm, calls, attempt, tries>>

Lost(t) == pc[t] = "upgrade" /\ reply[t] # None /\ ~Suitable(t) /\ reply[t].kind # "err"

\* The version was taken by someone else: try again, at most UpgradeTries times.
UpgradeLost(t) ==
  /\ Lost(t)
  /\ conns' = Discarded(t)
  /\ IF tries[t] + 1 < UpgradeTries
     THEN /\ tries' = [tries EXCEPT ![t] = @ + 1]
          /\ Goto(t, "latest") /\ Submit(t, 0) /\ UNCHANGED <<lock, excuses>>
     ELSE Goto(t, "idle") /\ Unlock(t) /\ reply' = [reply EXCEPT ![t] = None]
          /\ UNCHANGED requests
  /\ UNCHANGED <<database, cache, generation, cleaners, calls, attempt>>

UpgradeFailed(t) ==
  /\ pc[t] = "upgrade" /\ reply[t] # None /\ reply[t].kind = "err"
  /\ reply' = [reply EXCEPT ![t] = None]
  /\ Goto(t, "idle") /\ Unlock(t)
  /\ UNCHANGED <<database, conns, requests, cache, generation, cleaners, calls, attempt>>

\* Nobody waits for a request of t any more.  It cannot be withdrawn: it stays
\* in IndexedDB's queue.
Unwanted(t) == [i \in DOMAIN requests |-> IF requests[i].task = t
                                          THEN [requests[i] EXCEPT !.wanted = FALSE]
                                          ELSE requests[i]]

\* Mutant: no time-out.
TimeoutMissing(t) == FALSE /\ pc[t] = "upgrade" /\ UNCHANGED vars

\* 10 s have passed; `select` prefers an answer.
Timeout(t) ==
  /\ pc[t] = "upgrade" /\ reply[t] = None
  /\ requests' = Unwanted(t)
  /\ Goto(t, "idle") /\ Unlock(t)
  /\ UNCHANGED <<database, conns, cache, generation, cleaners, calls, attempt, reply>>

\* The caller drops the future of its call: the guard of the lock goes with it,
\* and a connection that had just been opened is left, open, to the collector.
Cancel(t) ==
  /\ pc[t] \in waiting \cup {"lock"}
  /\ requests' = Unwanted(t)
  /\ conns' = IF Opened(t) THEN dropped(reply[t].conn) ELSE conns
  /\ reply' = [reply EXCEPT ![t] = None]
  /\ Goto(t, "idle")
  /\ IF pc[t] \in waiting THEN Unlock(t) ELSE UNCHANGED <<lock, tries, excuses>>
  /\ UNCHANGED <<database, cache, generation, cleaners, calls, attempt>>
---------------------------------------------------------------------------
(* Transactions.                                                           *)
EndTransaction(t) ==
  /\ pc[t] = "txn"
  /\ conns' = [c \in Conns |->
       IF conns[c] = None \/ t \notin conns[c].users THEN conns[c]
       ELSE IF conns[c].state = "closing" /\ conns[c].users = {t} THEN None
       ELSE [conns[c] EXCEPT !.users = @ \ {t}]]
  /\ Goto(t, "idle")
  /\ UNCHANGED <<database, requests, realm, calls, attempt, tries, reply, excuses>>

\* A transaction the browser aborted reports a stale connection (evict what is
\* cached by now, and retry) or another error.
TransactionAborted(t) ==
  LET r == RealmOf[t]
  IN  /\ pc[t] = "aborted"
      /\ \/ /\ attempt[t] = 0
            /\ conns' = evicted(r) /\ cache' = [cache EXCEPT ![r] = None] /\ NextAttempt(t)
         \/ Goto(t, "idle") /\ UNCHANGED <<conns, cache, attempt>>
      /\ UNCHANGED <<database, requests, generation, cleaners, lock, calls, tries, reply,
                     excuses>>
---------------------------------------------------------------------------
(* The cleanup task of a connection.                                       *)
Expire(r) ==
  /\ cache[r] # None /\ cache[r].fresh
  /\ cache' = [cache EXCEPT ![r].fresh = FALSE]
  /\ UNCHANGED <<database, conns, requests, generation, cleaners, lock, task>>

\* Mutant: it ends the first time it wakes and its connection is in use.
CleanupOnce(r, g) ==
  /\ g \in cleaners[r]
  /\ cleaners' = [cleaners EXCEPT ![r] = @ \ {g}]
  /\ UNCHANGED <<database, conns, cache, requests, generation, lock, task>>

\* Mutant: it closes whatever connection is cached.
CleanupAny(r, g) ==
  /\ g \in cleaners[r] /\ (cache[r] # None => ~cache[r].fresh)
  /\ cleaners' = [cleaners EXCEPT ![r] = @ \ {g}]
  /\ conns' = evicted(r)
  /\ cache' = [cache EXCEPT ![r] = None]
  /\ UNCHANGED <<database, requests, generation, lock, task>>

\* It ends when its connection is gone, and closes it when it has expired.
Cleanup(r, g) ==
  LET current == cache[r] # None /\ cache[r].gen = g
  IN  /\ g \in cleaners[r] /\ (current => ~cache[r].fresh)
      /\ cleaners' = [cleaners EXCEPT ![r] = @ \ {g}]
      /\ conns' = IF current THEN evicted(r) ELSE conns
      /\ cache' = IF current THEN [cache EXCEPT ![r] = None] ELSE cache
      /\ UNCHANGED <<database, requests, generation, lock, task>>
---------------------------------------------------------------------------
(* IndexedDB serves the open requests of a database one after the other.   *)
Respond(head, answer) ==
  /\ requests' = Tail(requests)
  /\ reply' = IF head.wanted THEN [reply EXCEPT ![head.task] = answer] ELSE reply

\* bound: connections at a time
Room == {c \in Conns : conns[c] = None} # {}

Connect(owner, ver, names, state) ==
  /\ Room
  /\ conns' = [conns EXCEPT ![Unused] = [owner |-> owner, version |-> ver, stores |-> names,
                                         state |-> state, users |-> {}]]

\* The answer to a request that nobody waits for any more is dropped.
NewConnection(head, ver, names) ==
  Connect(RealmOf[head.task], ver, names, IF head.wanted THEN "open" ELSE "dropped")
Ok == [kind |-> "ok", conn |-> Unused]

\* An upgrade counts as a rival's for every task but the one that asked.
Excuse(t) == excuses' = [u \in Tasks |-> IF u # t /\ pc[u] \in {"latest", "upgrade"} THEN excuses[u] + 1
                                         ELSE excuses[u]]

ServeOpen ==
  /\ requests # <<>>
  /\ LET head == Head(requests)
     IN  /\ version > 0 /\ head.ver \in {0, version}
         /\ NewConnection(head, version, stores) /\ Respond(head, Ok)
  /\ UNCHANGED <<database, realm, pc, calls, attempt, tries, excuses>>

\* open_latest_version of a database that does not exist creates it, empty.
ServeCreate ==
  /\ requests # <<>> /\ version = 0 /\ Head(requests).ver = 0
  /\ version' = 1
  /\ NewConnection(Head(requests), 1, {}) /\ Respond(Head(requests), Ok)
  /\ UNCHANGED <<stores, foreign, realm, pc, calls, attempt, tries, excuses>>

ServeTooOld ==
  /\ requests # <<>>
  /\ Head(requests).ver # 0 /\ Head(requests).ver < version
  /\ Respond(Head(requests), [kind |-> "too_old"])
  /\ UNCHANGED <<database, conns, realm, pc, calls, attempt, tries, excuses>>

ServeError ==
  /\ requests # <<>> /\ Head(requests).wanted
  /\ Respond(Head(requests), [kind |-> "err"])
  /\ UNCHANGED <<database, conns, realm, pc, calls, attempt, tries, excuses>>

\* An upgrade waits until every connection is closed.  One that nobody waits
\* for any more finds its handler gone and is rolled back.
ServeUpgrade ==
  /\ requests # <<>> /\ ~Blocked
  /\ LET head == Head(requests)
     IN  /\ head.ver > version
         /\ IF head.wanted
            THEN /\ version' = head.ver
                 /\ stores' = stores \cup Needs[head.task]
                 /\ Excuse(head.task)
                 /\ NewConnection(head, head.ver, stores')
            ELSE UNCHANGED <<version, stores, excuses, conns>>
         /\ Respond(head, Ok)
  /\ UNCHANGED <<foreign, realm, pc, calls, attempt, tries>>
---------------------------------------------------------------------------
(* The rest of the browser.                                                *)
ForeignOpen ==
  /\ foreign < MaxForeign /\ version > 0
  /\ foreign' = foreign + 1
  /\ Connect(Foreign, version, stores, "open")
  /\ UNCHANGED <<version, stores, requests, realm, task>>

ForeignClose ==
  /\ \E c \in Conns : /\ conns[c] # None /\ conns[c].owner = Foreign
                      /\ conns' = [conns EXCEPT ![c] = None]
  /\ UNCHANGED <<database, requests, realm, task>>

ForeignUpgrade ==
  /\ foreign < MaxForeign /\ ~Blocked
  /\ foreign' = foreign + 1
  /\ version' = version + 1
  /\ Excuse(None)
  /\ UNCHANGED <<stores, conns, requests, realm, pc, calls, attempt, tries, reply>>

\* The browser closes a connection (storage pressure, "clear site data").
ForcedClose(c) ==
  /\ Live(c) /\ conns[c].owner # Foreign
  /\ conns' = [conns EXCEPT ![c] = IF @.state \in {"closing", "dropped"} THEN None
                                   ELSE [@ EXCEPT !.state = "dead", !.users = {}]]
  /\ pc' = [t \in Tasks |-> IF t \in conns[c].users THEN "aborted" ELSE pc[t]]
  /\ UNCHANGED <<database, requests, realm, calls, attempt, tries, reply, excuses>>

\* The browser collects a connection that nobody refers to, and so closes it.
Collect(c) ==
  /\ conns[c] # None /\ conns[c].state = "dropped"
  /\ conns' = [conns EXCEPT ![c] = None]
  /\ UNCHANGED <<database, requests, realm, task>>

\* The requests of other realms keep their order.
Withdraw(r) ==
  LET kept == {i \in DOMAIN requests : RealmOf[requests[i].task] # r}
  IN  \E n \in 0..Len(requests) : \E at \in [1..n -> kept] :
        /\ \A i, j \in 1..n : i < j => at[i] < at[j]
        /\ \A k \in kept : \E i \in 1..n : at[i] = k
        /\ requests' = [i \in 1..n |-> requests[at[i]]]

\* A realm is reloaded: its connections, requests and thread-locals are gone.
Reload(r) ==
  /\ \E t \in Tasks : RealmOf[t] = r /\ pc[t] # "idle"
  /\ conns' = [c \in Conns |-> IF conns[c] # None /\ conns[c].owner = r THEN None ELSE conns[c]]
  /\ Withdraw(r)
  /\ cache' = [cache EXCEPT ![r] = None]
  /\ generation' = [generation EXCEPT ![r] = 0] /\ cleaners' = [cleaners EXCEPT ![r] = {}]
  /\ lock' = [lock EXCEPT ![r] = None]
  /\ pc' = [t \in Tasks |-> IF RealmOf[t] = r THEN "idle" ELSE pc[t]]
  /\ reply' = [t \in Tasks |-> IF RealmOf[t] = r THEN None ELSE reply[t]]
  /\ tries' = [t \in Tasks |-> IF RealmOf[t] = r THEN 0 ELSE tries[t]]
  /\ excuses' = [t \in Tasks |-> IF RealmOf[t] = r THEN 0 ELSE excuses[t]]
  /\ UNCHANGED <<database, calls, attempt>>
---------------------------------------------------------------------------
Poll(t) ==
  \/ UseCached(t) \/ LoseCached(t) \/ WaitForLock(t) \/ OpenClient(t)
  \/ Deliver(t) \/ Probed(t) \/ RequestUpgrade(t) \/ UpgradeLost(t) \/ UpgradeFailed(t)
  \/ EndTransaction(t) \/ TransactionAborted(t)

Serve == ServeOpen \/ ServeCreate \/ ServeTooOld \/ ServeUpgrade

Next ==
  \/ \E t \in Tasks : Call(t) \/ Poll(t) \/ Timeout(t) \/ Cancel(t)
  \/ \E r \in Realms : Expire(r) \/ Reload(r) \/ \E g \in cleaners[r] : Cleanup(r, g)
  \/ Serve \/ ServeError \/ ForeignOpen \/ ForeignClose \/ ForeignUpgrade
  \/ \E c \in Conns : ForcedClose(c) \/ Collect(c)

Spec == Init /\ [][Next]_vars

\* The executor polls woken tasks and timers fire, the browser answers the
\* requests it can answer and collects garbage, and the wall clock advances.
Fairness ==
  /\ \A t \in Tasks : WF_vars(Poll(t)) /\ WF_vars(Timeout(t))
  /\ \A r \in Realms : WF_vars(Expire(r)) /\ WF_vars(\E g \in cleaners[r] : Cleanup(r, g))
  /\ WF_vars(Serve) /\ WF_vars(\E c \in Conns : Collect(c))

\* Third-party code may keep a connection for ever, or not.
StubbornSpec == Spec /\ Fairness
FairSpec == StubbornSpec /\ WF_vars(ForeignClose)
---------------------------------------------------------------------------
(* Properties.                                                             *)

TypeOK ==
  /\ version \in Nat /\ stores \subseteq Stores
  /\ foreign \in 0..MaxForeign
  /\ conns \in [Conns -> Connections \cup {None}]
  /\ requests \in Seq([task: Tasks, ver: Nat, wanted: BOOLEAN])
  /\ cache \in [Realms -> Slots \cup {None}]
  /\ generation \in [Realms -> Nat] /\ cleaners \in [Realms -> SUBSET Nat]
  /\ lock \in [Realms -> Tasks \cup {None}]
  /\ pc \in [Tasks -> waiting \cup {"idle", "start", "lock", "txn", "aborted"}]
  /\ calls \in [Tasks -> 0..MaxCalls] /\ attempt \in [Tasks -> {0, 1}]
  /\ tries \in [Tasks -> 0..UpgradeTries] /\ excuses \in [Tasks -> Nat]
  /\ reply \in [Tasks -> Replies \cup {None}]

\* No connection is lost, and none is used after it was closed: a connection of
\* the backend that is neither closing nor left behind by a dropped call is
\* cached or on its way to the task that asked for it, whatever path that task
\* takes next, and only such a one is.  A lost connection would block every later
\* upgrade until the tab is closed; one left behind blocks until the browser,
\* which finds no reference to it, collects it.
NoLeak ==
  \A c \in Conns :
    conns[c] # None /\ conns[c].owner # Foreign =>
      (conns[c].state \notin {"closing", "dropped"} <=>
         \/ \E r \in Realms : cache[r] # None /\ cache[r].conn = c
         \/ \E t \in Tasks : pc[t] \in waiting /\ Opened(t) /\ reply[t].conn = c)

\* While a task prepares an upgrade nobody in its realm opens or caches a
\* connection (the comment on open_client), so the realm does not block itself.
NoSelfBlock ==
  \A t \in Tasks :
    pc[t] \in waiting =>
      /\ lock[RealmOf[t]] = t
      /\ cache[RealmOf[t]] = None
      /\ \A c \in Conns : conns[c] # None /\ conns[c].owner = RealmOf[t] =>
           \/ conns[c].state \in {"closing", "dropped"}
           \/ Opened(t) /\ reply[t].conn = c

\* A transaction runs on a connection that has its stores and is not closed
\* under it: eviction and expiry by other tasks let it finish.
TransactionsHaveStores ==
  \A t \in Tasks : pc[t] = "txn" =>
    \E c \in Conns : Live(c) /\ t \in conns[c].users /\ stores_exist_in(t, c)

\* Each failed round of the upgrade loop is explained by an upgrade of somebody
\* else or a failed open: alone, a task upgrades at its first try.
RetriesHaveRivals ==
  \A t \in Tasks :
    /\ tries[t] <= excuses[t]
    /\ Lost(t) => tries[t] < excuses[t]

\* A cached connection has a cleanup task that will find it.
CacheIsWatched ==
  \A r \in Realms : cache[r] # None =>
    cache[r].gen \in cleaners[r] /\ cache[r].gen = generation[r]

\* The cache of each realm implements its specification (\A r : Cache(r)!Spec): a cleanup task closes no
\* connection but its own, and not before that has expired.
Cache(r) == INSTANCE ConnectionCache WITH
  slot <- IF cache[r] = None THEN None ELSE [gen |-> cache[r].gen, fresh |-> cache[r].fresh],
  generation <- generation[r],
  cleaners <- cleaners[r]
ImplementsCache ==
  /\ \A r \in Realms : Cache(r)!Init
  /\ [][\A r \in Realms : [Cache(r)!Next]_(Cache(r)!vars)]_vars

\* Idle connections do not outlive the TTL, so they do not keep another tab from
\* upgrading (README, "Multi-tab behavior").
IdleConnectionsClose ==
  \A c \in Conns :
    Live(c) /\ conns[c].owner # Foreign ~> ~Live(c) \/ conns[c].users # {}

\* Every call ends: with a result, or with an error when an upgrade is blocked.
CallsEnd == \A t \in Tasks : pc[t] # "idle" ~> pc[t] = "idle"

\* An upgrade that timed out or was dropped is at the head of the queue, and
\* third-party code keeps it there.
Stuck ==
  /\ requests # <<>> /\ ~Head(requests).wanted
  /\ \E c \in Conns : Live(c) /\ conns[c].owner = Foreign

\* What holds when third-party code may keep its connection for ever: a call
\* ends, by the time-out of its upgrade at the latest, unless it came behind
\* the request that an earlier one has left in the queue.
CallsEndOrStuck == \A t \in Tasks : []<>(pc[t] = "idle") \/ <>[]Stuck
=============================================================================
