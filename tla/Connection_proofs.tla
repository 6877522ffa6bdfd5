------------------------- MODULE Connection_proofs -------------------------
(***************************************************************************)
(* Proofs about Connection for every set of realms, tasks and connections, *)
(* any number of upgrade rounds, calls and acts of third-party code.       *)
(***************************************************************************)
EXTENDS Connection, TLAPS, SequenceTheorems

(***************************************************************************)
(* The inductive invariant: who may refer to a connection, and who waits   *)
(* for what.                                                               *)
(***************************************************************************)

\* A connection that is not closed, and not left behind, is cached or on its way.
Owned ==
  \A c \in Conns :
    conns[c] # None /\ conns[c].owner # Foreign /\ conns[c].state \notin {"closing", "dropped"} =>
      \/ \E r \in Realms : cache[r] # None /\ cache[r].conn = c
      \/ \E t \in Tasks : pc[t] \in waiting /\ Opened(t) /\ reply[t].conn = c

\* A cached connection belongs to the realm and has not been closed by it.
Cached ==
  \A r \in Realms : cache[r] # None =>
    /\ conns[cache[r].conn] # None
    /\ conns[cache[r].conn].owner = r
    /\ conns[cache[r].conn].state \notin {"closing", "dropped"}

\* So has one that was just opened; nobody uses it, and its task waits for it.
Replied ==
  \A t \in Tasks :
    /\ reply[t] # None => pc[t] \in waiting
    /\ Opened(t) => /\ conns[reply[t].conn] # None
                    /\ conns[reply[t].conn].owner = RealmOf[t]
                    /\ conns[reply[t].conn].state \notin {"closing", "dropped"}
                    /\ conns[reply[t].conn].users = {}

\* A request that somebody wants is the only one of a task that waits for it.
Queued ==
  /\ \A i \in DOMAIN requests : requests[i].wanted =>
       pc[requests[i].task] \in waiting /\ reply[requests[i].task] = None
  /\ \A i, j \in DOMAIN requests :
       requests[i].wanted /\ requests[j].wanted /\ requests[i].task = requests[j].task => i = j

\* A connection is used by tasks of its realm that run a transaction on it,
\* and on no other.
Used ==
  /\ \A c \in Conns, t \in Tasks : conns[c] # None /\ t \in conns[c].users =>
       /\ pc[t] = "txn" /\ conns[c].owner = RealmOf[t]
       /\ conns[c].state \notin {"dropped", "dead"} /\ Needs[t] \subseteq conns[c].stores
  /\ \A c, d \in Conns, t \in Tasks :
       /\ conns[c] # None /\ t \in conns[c].users
       /\ conns[d] # None /\ t \in conns[d].users
       => c = d

\* A task has a transaction only on such a connection.
Runs == \A t \in Tasks : pc[t] = "txn" => \E c \in Conns : conns[c] # None /\ t \in conns[c].users

\* Connections and transactions.
CInv == TypeOK /\ Owned /\ NoSelfBlock /\ Cached /\ Replied /\ Queued /\ Used /\ Runs
---------------------------------------------------------------------------
(* Types.                                                                  *)

\* Changing the state or the users of a connection leaves the rest of it.
LEMMA ClosingType ==
  ASSUME NEW k \in Connections, NEW users \in SUBSET Tasks, NEW state \in {"open", "closing", "dropped", "dead"}
  PROVE  /\ LET e == [k EXCEPT !.state = state]
            IN  /\ e \in Connections /\ e # None /\ e.state = state
                /\ e.owner = k.owner /\ e.version = k.version /\ e.stores = k.stores
                /\ e.users = k.users
         /\ LET e == [k EXCEPT !.users = users]
            IN  /\ e \in Connections /\ e # None /\ e.state = k.state
                /\ e.owner = k.owner /\ e.version = k.version /\ e.stores = k.stores
                /\ e.users = users
         /\ LET e == [k EXCEPT !.state = state, !.users = users]
            IN  /\ e \in Connections /\ e # None /\ e.state = state
                /\ e.owner = k.owner /\ e.version = k.version /\ e.stores = k.stores
                /\ e.users = users
  BY NoneAssumption DEF Connections

\* The same for the users alone, in the form that steps need it.
LEMMA UsersSet ==
  ASSUME NEW k \in Connections, NEW users \in SUBSET Tasks
  PROVE  /\ [k EXCEPT !.users = users] # None
         /\ [k EXCEPT !.users = users].owner = k.owner
         /\ [k EXCEPT !.users = users].version = k.version
         /\ [k EXCEPT !.users = users].state = k.state
         /\ [k EXCEPT !.users = users].stores = k.stores
         /\ [k EXCEPT !.users = users].users = users
  BY NoneAssumption DEF Connections

\* A connection that the browser closes.
LEMMA DeadSet ==
  ASSUME NEW k \in Connections
  PROVE  /\ [k EXCEPT !.state = "dead", !.users = {}] # None
         /\ [k EXCEPT !.state = "dead", !.users = {}].owner = k.owner
         /\ [k EXCEPT !.state = "dead", !.users = {}].version = k.version
         /\ [k EXCEPT !.state = "dead", !.users = {}].stores = k.stores
         /\ [k EXCEPT !.state = "dead", !.users = {}].state = "dead"
         /\ [k EXCEPT !.state = "dead", !.users = {}].users = {}
  BY NoneAssumption DEF Connections

\* Connections that differ in their state at most.
Same(k, l) == /\ k # None /\ l # None /\ k.owner = l.owner /\ k.version = l.version
              /\ k.stores = l.stores /\ k.users = l.users

\* What close leaves: the connection is gone, or closing with its users.
Closed(cs, ds, c) ==
  /\ ds \in [Conns -> Connections \cup {None}]
  /\ \A d \in Conns \ {c} : ds[d] = cs[d]
  /\ ds[c] = None => cs[c].users = {} \/ cs[c].state # "open"
  /\ ds[c] # None =>
       /\ cs[c].state = "open" /\ cs[c].users # {} /\ ds[c].state = "closing"
       /\ ds[c].owner = cs[c].owner /\ ds[c].version = cs[c].version
       /\ ds[c].stores = cs[c].stores /\ ds[c].users = cs[c].users

\* What close does to one connection.
LEMMA CloseType ==
  ASSUME NEW cs \in [Conns -> Connections \cup {None}], NEW c \in Conns, cs[c] # None
  PROVE  Closed(cs, close(cs, c), c)
  <1> DEFINE ds == close(cs, c)
  <1>1. cs[c] \in Connections /\ cs[c].users \in SUBSET Tasks
    BY DEF Connections
  <1>2. ds = [cs EXCEPT ![c] = IF cs[c].state = "open" /\ cs[c].users # {}
                               THEN [cs[c] EXCEPT !.state = "closing"] ELSE None]
    BY DEF close
  <1>3. CASE cs[c].state = "open" /\ cs[c].users # {}
    <2> DEFINE e == [cs[c] EXCEPT !.state = "closing"]
    <2>1. /\ e \in Connections /\ e # None /\ e.state = "closing"
          /\ e.owner = cs[c].owner /\ e.version = cs[c].version /\ e.stores = cs[c].stores
          /\ e.users = cs[c].users
      <3> DEFINE k == cs[c]
      <3>1. k \in Connections
        BY <1>1
      <3> HIDE DEF k
      <3>2. LET f == [k EXCEPT !.state = "closing"]
            IN  /\ f \in Connections /\ f # None /\ f.state = "closing"
                /\ f.owner = k.owner /\ f.version = k.version /\ f.stores = k.stores
                /\ f.users = k.users
        BY <3>1, NoneAssumption DEF Connections
      <3> QED
        BY <3>2, Zenon DEF k, e
    <2> HIDE DEF e
    <2>2. ds = [cs EXCEPT ![c] = e]
      BY <1>2, <1>3 DEF e
    <2> HIDE DEF ds
    <2> QED
      BY <1>1, <1>3, <2>1, <2>2 DEF Closed, ds
  <1>4. CASE ~(cs[c].state = "open" /\ cs[c].users # {})
    <2>1. ds = [cs EXCEPT ![c] = None]
      BY <1>2, <1>4
    <2> QED
      BY <1>4, <2>1 DEF Closed
  <1> QED
    BY <1>3, <1>4

\* What an eviction leaves of the connections.
LEMMA EvictedType ==
  ASSUME TypeOK, Cached, NEW r \in Realms
  PROVE  /\ evicted(r) \in [Conns -> Connections \cup {None}]
         /\ cache[r] = None => evicted(r) = conns
         /\ cache[r] # None => cache[r].conn \in Conns /\ Closed(conns, evicted(r), cache[r].conn)
  <1>1. conns \in [Conns -> Connections \cup {None}] /\ cache[r] \in Slots \cup {None}
    BY DEF TypeOK
  <1>2. cache[r] # None => cache[r].conn \in Conns /\ conns[cache[r].conn] # None
    BY <1>1 DEF Cached, Slots
  <1> QED
    BY <1>1, <1>2, CloseType DEF evicted, Closed

\* What is left of a connection that a dropped call leaves behind.
LEMMA DroppedType ==
  ASSUME TypeOK, NEW c \in Conns, conns[c] # None
  PROVE  /\ dropped(c) \in [Conns -> Connections \cup {None}]
         /\ \A d \in Conns \ {c} : dropped(c)[d] = conns[d]
         /\ \/ dropped(c)[c] = None
            \/ Same(dropped(c)[c], conns[c]) /\ dropped(c)[c].state = "dropped"
  <1> DEFINE k == conns[c]
             e == [k EXCEPT !.state = "dropped"]
  <1>1. conns \in [Conns -> Connections \cup {None}] /\ k \in Connections
    BY DEF TypeOK
  <1>2. dropped(c) = [conns EXCEPT ![c] = IF k.state = "dead" THEN None ELSE e]
    BY DEF dropped
  <1>3. e \in Connections /\ Same(e, k) /\ e.state = "dropped"
    <2> HIDE DEF k
    <2> QED
      BY <1>1, NoneAssumption DEF Connections, Same
  <1> HIDE DEF e
  <1> QED
    BY <1>1, <1>2, <1>3

\* An answer with a connection names one.
LEMMA ReplyType ==
  ASSUME TypeOK, NEW t \in Tasks, Opened(t)
  PROVE  reply[t].conn \in Conns
  BY NoneAssumption DEF TypeOK, Opened, Replies

\* What is left when a task closes the connection it has just opened.
LEMMA DiscardedType ==
  ASSUME TypeOK, Replied, NEW t \in Tasks
  PROVE  /\ Discarded(t) \in [Conns -> Connections \cup {None}]
         /\ ~Opened(t) => Discarded(t) = conns
         /\ Opened(t) => /\ reply[t].conn \in Conns /\ Discarded(t)[reply[t].conn] = None
                         /\ \A d \in Conns \ {reply[t].conn} : Discarded(t)[d] = conns[d]
  <1>1. conns \in [Conns -> Connections \cup {None}]
    BY DEF TypeOK
  <1>2. Opened(t) => /\ reply[t].conn \in Conns /\ conns[reply[t].conn] # None
                     /\ conns[reply[t].conn].users = {}
    BY ReplyType DEF Replied
  <1> QED
    BY <1>1, <1>2, CloseType DEF Discarded, Closed

\* A new connection takes an identity that nobody refers to.
LEMMA UnusedType ==
  ASSUME Room
  PROVE  Unused \in Conns /\ conns[Unused] = None
  BY DEF Room, Unused

Asked == [task: Tasks, ver: Nat, wanted: BOOLEAN]

\* The requests in the queue are requests.
LEMMA RequestType ==
  ASSUME TypeOK, NEW i \in DOMAIN requests
  PROVE  requests[i] \in Asked
  <1>1. requests \in Seq(Asked)
    BY DEF TypeOK, Asked
  <1> QED
    BY <1>1, LenProperties, ElementOfSeq

\* A request is added, the answer forgotten.
LEMMA SubmitType ==
  ASSUME TypeOK, NEW t \in Tasks, NEW ver \in Nat, Submit(t, ver)
  PROVE  /\ requests' \in Seq(Asked)
         /\ reply' \in [Tasks -> Replies \cup {None}]
  BY DEF TypeOK, Submit, Asked

\* Requests that are no longer wanted stay where they are.
LEMMA UnwantedType ==
  ASSUME TypeOK, NEW t \in Tasks
  PROVE  /\ Unwanted(t) \in Seq(Asked) /\ DOMAIN Unwanted(t) = DOMAIN requests
         /\ \A i \in DOMAIN requests :
              /\ Unwanted(t)[i].task = requests[i].task /\ Unwanted(t)[i].ver = requests[i].ver
              /\ Unwanted(t)[i].wanted <=> requests[i].wanted /\ requests[i].task # t
  <1>1. requests \in Seq(Asked) /\ DOMAIN requests = 1..Len(requests) /\ Len(requests) \in Nat
    BY LenProperties DEF TypeOK, Asked
  <1>2. ASSUME NEW i \in DOMAIN requests
        PROVE  LET e == [requests[i] EXCEPT !.wanted = FALSE]
               IN  e \in Asked /\ e.task = requests[i].task /\ e.ver = requests[i].ver /\ e.wanted = FALSE
    BY <1>2, RequestType DEF Asked
  <1>3. ASSUME NEW i \in DOMAIN requests
        PROVE  /\ Unwanted(t)[i] \in Asked
               /\ Unwanted(t)[i].task = requests[i].task /\ Unwanted(t)[i].ver = requests[i].ver
               /\ Unwanted(t)[i].wanted <=> requests[i].wanted /\ requests[i].task # t
    <2>1. CASE requests[i].task = t
      <3>1. Unwanted(t)[i] = [requests[i] EXCEPT !.wanted = FALSE]
        BY <2>1 DEF Unwanted
      <3> QED
        BY <1>2, <2>1, <3>1
    <2>2. CASE requests[i].task # t
      BY <1>3, <2>2, RequestType DEF Unwanted
    <2> QED
      BY <2>1, <2>2
  <1>4. Unwanted(t) = [i \in 1..Len(requests) |-> Unwanted(t)[i]]
    BY <1>1 DEF Unwanted
  <1>5. Unwanted(t) \in Seq(Asked)
    BY <1>1, <1>3, <1>4, IsASeq
  <1> QED
    BY <1>1, <1>3, <1>5 DEF Unwanted

\* The requests that a reload leaves are requests that were there.
LEMMA WithdrawType ==
  ASSUME TypeOK, NEW r \in Realms, Withdraw(r)
  PROVE  /\ requests' \in Seq(Asked)
         /\ \E at \in [DOMAIN requests' -> DOMAIN requests] :
              /\ \A i, j \in DOMAIN requests' : at[i] = at[j] => i = j
              /\ \A i \in DOMAIN requests' : /\ requests'[i] = requests[at[i]]
                                              /\ RealmOf[requests[at[i]].task] # r
  <1> DEFINE kept == {i \in DOMAIN requests : RealmOf[requests[i].task] # r}
  <1>1. requests \in Seq(Asked) /\ Len(requests) \in Nat
    BY LenProperties DEF TypeOK, Asked
  <1>2. PICK n \in 0..Len(requests) : \E at \in [1..n -> kept] :
          /\ \A i, j \in 1..n : i < j => at[i] < at[j]
          /\ requests' = [i \in 1..n |-> requests[at[i]]]
    BY DEF Withdraw
  <1>7. PICK at \in [1..n -> kept] :
          /\ \A i, j \in 1..n : i < j => at[i] < at[j]
          /\ requests' = [i \in 1..n |-> requests[at[i]]]
    BY <1>2
  <1>3. n \in Nat
    BY <1>1
  <1>4. \A i \in 1..n : at[i] \in DOMAIN requests /\ requests[at[i]] \in Asked
    BY <1>7, RequestType
  <1>5. requests' \in Seq(Asked) /\ DOMAIN requests' = 1..n
    BY <1>7, <1>3, <1>4, IsASeq
  <1>6. \A i, j \in 1..n : at[i] = at[j] => i = j
    <2>1. \A i \in 1..n : i \in Int /\ at[i] \in Int
      BY <1>1, <1>7, LenProperties
    <2> QED
      BY <1>7, <2>1
  <1>8. \A i \in 1..n : requests'[i] = requests[at[i]] /\ RealmOf[requests[at[i]].task] # r
    BY <1>7
  <1>9. at \in [DOMAIN requests' -> DOMAIN requests]
    BY <1>7, <1>4, <1>5
  <1>10. /\ \A i, j \in DOMAIN requests' : at[i] = at[j] => i = j
         /\ \A i \in DOMAIN requests' :
              requests'[i] = requests[at[i]] /\ RealmOf[requests[at[i]].task] # r
    BY <1>5, <1>6, <1>8
  <1> QED
    BY <1>5, <1>9, <1>10, Zenon

\* The head of the queue, and what is behind it.
LEMMA HeadType ==
  ASSUME TypeOK, requests # <<>>
  PROVE  /\ Head(requests) \in Asked /\ Head(requests) = requests[1] /\ 1 \in DOMAIN requests
         /\ Tail(requests) \in Seq(Asked)
         /\ \A i \in DOMAIN Tail(requests) : /\ i \in Nat \ {0} /\ i + 1 \in DOMAIN requests
                                             /\ Tail(requests)[i] = requests[i + 1]
  <1>1. requests \in Seq(Asked)
    BY DEF TypeOK, Asked
  <1> QED
    BY <1>1, HeadTailProperties, LenProperties

PCs == waiting \cup {"idle", "start", "lock", "txn", "aborted"}

\* Another attempt, or the end of the call.
LEMMA NextAttemptType ==
  ASSUME TypeOK, NEW t \in Tasks, NextAttempt(t)
  PROVE  /\ pc' \in [Tasks -> PCs] /\ attempt' \in [Tasks -> {0, 1}]
         /\ pc'[t] \in {"start", "idle"}
         /\ \A u \in Tasks \ {t} : pc'[u] = pc[u]
  BY DEF TypeOK, NextAttempt, Goto, PCs

\* The lock of the realm and the loop's locals are given up.
LEMMA UnlockType ==
  ASSUME TypeOK, NEW t \in Tasks, Unlock(t)
  PROVE  /\ lock' \in [Realms -> Tasks \cup {None}]
         /\ tries' \in [Tasks -> 0..UpgradeTries] /\ excuses' \in [Tasks -> Nat]
         /\ tries'[t] = 0 /\ excuses'[t] = 0
         /\ \A u \in Tasks \ {t} : tries'[u] = tries[u] /\ excuses'[u] = excuses[u]
         /\ \A r \in Realms \ {RealmOf[t]} : lock'[r] = lock[r]
  <1>1. RealmOf[t] \in Realms /\ 0 \in 0..UpgradeTries
    BY TasksAssumption, BoundsAssumption
  <1>2. /\ lock \in [Realms -> Tasks \cup {None}] /\ tries \in [Tasks -> 0..UpgradeTries]
        /\ excuses \in [Tasks -> Nat]
    BY DEF TypeOK
  <1> QED
    BY <1>1, <1>2 DEF Unlock

\* The connection that IndexedDB opens.
LEMMA ConnectType ==
  ASSUME TypeOK, NEW owner \in Realms \cup {Foreign}, NEW ver \in Nat, NEW names \in SUBSET Stores,
         NEW state \in {"open", "dropped"}, Connect(owner, ver, names, state)
  PROVE  /\ conns' \in [Conns -> Connections \cup {None}]
         /\ Unused \in Conns /\ conns[Unused] = None /\ conns'[Unused] # None
         /\ conns'[Unused] = [owner |-> owner, version |-> ver, stores |-> names,
                              state |-> state, users |-> {}]
         /\ \A c \in Conns \ {Unused} : conns'[c] = conns[c]
  <1> DEFINE e == [owner |-> owner, version |-> ver, stores |-> names, state |-> state, users |-> {}]
  <1>1. e \in Connections
    BY DEF Connections
  <1>2. e # None
    BY <1>1, NoneAssumption
  <1>3. Unused \in Conns /\ conns[Unused] = None
    BY UnusedType DEF Connect
  <1>4. conns' = [conns EXCEPT ![Unused] = e]
    BY DEF Connect
  <1>5. conns \in [Conns -> Connections \cup {None}]
    BY DEF TypeOK
  <1>6. conns'[Unused] = e /\ \A c \in Conns \ {Unused} : conns'[c] = conns[c]
    BY <1>3, <1>4, <1>5
  <1>7. conns' \in [Conns -> Connections \cup {None}]
    BY <1>1, <1>4, <1>5
  <1> QED
    BY <1>2, <1>3, <1>6, <1>7

\* An answer leaves the queue and the replies what they are.
LEMMA RespondType ==
  ASSUME TypeOK, requests # <<>>, NEW answer \in Replies, Respond(Head(requests), answer)
  PROVE  requests' \in Seq(Asked) /\ reply' \in [Tasks -> Replies \cup {None}]
  BY HeadType DEF TypeOK, Respond, Asked

\* So does an answer with a new connection.
LEMMA ServeType ==
  ASSUME TypeOK, requests # <<>>, NEW ver \in Nat, NEW names \in SUBSET Stores,
         NewConnection(Head(requests), ver, names), Respond(Head(requests), Ok)
  PROVE  /\ conns' \in [Conns -> Connections \cup {None}]
         /\ requests' \in Seq(Asked) /\ reply' \in [Tasks -> Replies \cup {None}]
  <1> DEFINE head == Head(requests)
  <1>1. head \in Asked /\ RealmOf[head.task] \in Realms
    BY HeadType, TasksAssumption DEF Asked
  <1>2. \E state \in {"open", "dropped"} : Connect(RealmOf[head.task], ver, names, state)
    BY DEF NewConnection
  <1>3. conns' \in [Conns -> Connections \cup {None}] /\ Unused \in Conns
    BY <1>1, <1>2, ConnectType
  <1>4. Ok \in Replies
    BY <1>3 DEF Ok, Replies
  <1> QED
    BY <1>3, <1>4, RespondType

\* Nothing is answered to a request that nobody wants.
LEMMA UnansweredType ==
  ASSUME TypeOK, requests # <<>>, ~Head(requests).wanted, NEW answer, Respond(Head(requests), answer)
  PROVE  requests' \in Seq(Asked) /\ reply' \in [Tasks -> Replies \cup {None}]
  BY HeadType DEF TypeOK, Respond, Asked

\* Types are kept; closing a cached or opened connection needs that it is there.
LEMMA TypeNext ==
  ASSUME TypeOK, NoSelfBlock, Cached, Replied, Next
  PROVE  TypeOK'
  <1> USE DEF Goto, Unlock, NextAttempt, database, realm, task
  <1>0. RealmOf \in [Tasks -> Realms] /\ MaxCalls \in Nat /\ UpgradeTries \in Nat /\ MaxForeign \in Nat
    BY TasksAssumption, BoundsAssumption
  <1>1. ASSUME NEW t \in Tasks, Call(t) PROVE TypeOK'
    BY <1>0, <1>1 DEF TypeOK, Call
  <1>2. ASSUME NEW t \in Tasks, UseCached(t) PROVE TypeOK'
    <2> DEFINE r == RealmOf[t]
               c == cache[r].conn
               e == [conns[c] EXCEPT !.users = conns[c].users \cup {t}]
    <2>1. r \in Realms /\ c \in Conns /\ conns[c] \in Connections
      BY <1>0, <1>2 DEF TypeOK, UseCached, cached_client_has_stores, Cached, Slots
    <2>2. conns[c].users \cup {t} \in SUBSET Tasks
      BY <2>1 DEF Connections
    <2>3. e \in Connections
      BY <2>1, <2>2, ClosingType
    <2>4. conns' = [conns EXCEPT ![c] = e]
      BY <1>2 DEF UseCached
    <2> HIDE DEF e
    <2>5. conns' \in [Conns -> Connections \cup {None}]
      BY <2>1, <2>3, <2>4 DEF TypeOK
    <2> QED
      BY <1>2, <2>5 DEF TypeOK, UseCached
  <1>3. ASSUME NEW t \in Tasks, LoseCached(t) PROVE TypeOK'
    <2>1. /\ conns' \in {conns, evicted(RealmOf[t])}
          /\ cache' \in {cache, [cache EXCEPT ![RealmOf[t]] = None]}
          /\ pc' \in [Tasks -> PCs] /\ attempt' \in [Tasks -> {0, 1}]
      BY <1>3, NextAttemptType DEF LoseCached, TypeOK, PCs
    <2>2. evicted(RealmOf[t]) \in [Conns -> Connections \cup {None}]
      BY <1>0, EvictedType
    <2>3. conns' \in [Conns -> Connections \cup {None}] /\ cache' \in [Realms -> Slots \cup {None}]
      BY <2>1, <2>2 DEF TypeOK
    <2> QED
      BY <1>3, <2>1, <2>3 DEF TypeOK, LoseCached, PCs
  <1>4. ASSUME NEW t \in Tasks, WaitForLock(t) PROVE TypeOK'
    <2>1. /\ conns' \in {conns, evicted(RealmOf[t])}
          /\ cache' \in {cache, [cache EXCEPT ![RealmOf[t]] = None]}
      BY <1>4 DEF WaitForLock
    <2>2. evicted(RealmOf[t]) \in [Conns -> Connections \cup {None}]
      BY <1>0, EvictedType
    <2>3. conns' \in [Conns -> Connections \cup {None}] /\ cache' \in [Realms -> Slots \cup {None}]
      BY <2>1, <2>2 DEF TypeOK
    <2> QED
      BY <1>4, <2>3 DEF TypeOK, WaitForLock
  <1>5. ASSUME NEW t \in Tasks, OpenClient(t) PROVE TypeOK'
    BY <1>0, <1>5, EvictedType, SubmitType DEF TypeOK, OpenClient, waiting, Asked
  <1>6. ASSUME NEW t \in Tasks, Deliver(t) PROVE TypeOK'
    <2> DEFINE r == RealmOf[t]
               c == reply[t].conn
               g == generation[r] + 1
               slot == [conn |-> c, gen |-> g, fresh |-> TRUE]
               e == [evicted(r)[c] EXCEPT !.users = {t}]
    <2>0. Opened(t)
      BY <1>6 DEF Deliver, Suitable
    <2>1. r \in Realms /\ c \in Conns /\ g \in Nat /\ slot \in Slots
      <3>1. c \in Conns
        BY <2>0, ReplyType
      <3> QED
        BY <1>0, <3>1 DEF TypeOK, Slots
    <2>2. evicted(r) \in [Conns -> Connections \cup {None}]
      BY <2>1, EvictedType
    <2>3. /\ generation' = [generation EXCEPT ![r] = g]
          /\ cleaners' = [cleaners EXCEPT ![r] = @ \cup {g}]
          /\ cache' \in {[cache EXCEPT ![r] = slot], [cache EXCEPT ![r] = None]}
          /\ conns' \in {[evicted(r) EXCEPT ![c].users = {t}], [evicted(r) EXCEPT ![c] = None], evicted(r)}
      BY <1>6 DEF Deliver
    <2>4. ASSUME evicted(r)[c] # None
          PROVE  [evicted(r) EXCEPT ![c].users = {t}] \in [Conns -> Connections \cup {None}]
      <3>1. evicted(r)[c] \in Connections
        BY <2>1, <2>2, <2>4
      <3>2. e \in Connections
        <4> DEFINE k == evicted(r)[c]
        <4>1. k \in Connections /\ {t} \in SUBSET Tasks
          BY <3>1
        <4> HIDE DEF k
        <4>2. [k EXCEPT !.users = {t}] \in Connections
          BY <4>1 DEF Connections
        <4> QED
          BY <4>2 DEF k
      <3>3. [evicted(r) EXCEPT ![c].users = {t}] = [evicted(r) EXCEPT ![c] = e]
        OBVIOUS
      <3> HIDE DEF e
      <3> QED
        BY <2>1, <2>2, <3>2, <3>3
    <2>8. evicted(r)[c] # None
      <3>1. cache[r] = None
        BY <1>6 DEF NoSelfBlock, Deliver
      <3> QED
        BY <2>0, <2>1, <3>1, EvictedType DEF Replied
    <2>5. conns' \in [Conns -> Connections \cup {None}]
      <3>1. [evicted(r) EXCEPT ![c] = None] \in [Conns -> Connections \cup {None}]
        BY <2>1, <2>2
      <3> DEFINE used == [evicted(r) EXCEPT ![c].users = {t}]
                 gone == [evicted(r) EXCEPT ![c] = None]
      <3>2. conns' \in {used, gone, evicted(r)}
        BY <2>3
      <3> HIDE DEF used, gone
      <3> QED
        BY <2>2, <2>4, <2>8, <3>1, <3>2 DEF used, gone
    <2>6. cache' \in [Realms -> Slots \cup {None}]
      BY <2>1, <2>3 DEF TypeOK
    <2>7. UNCHANGED <<database, requests, calls>> /\ Unlock(t) /\ reply' = [reply EXCEPT ![t] = None]
          /\ pc' \in {[pc EXCEPT ![t] = p] : p \in {"txn", "start", "idle"}}
          /\ attempt' \in {attempt, [attempt EXCEPT ![t] = 1]}
      BY <1>6 DEF Deliver
    <2>9. /\ generation' \in [Realms -> Nat] /\ cleaners' \in [Realms -> SUBSET Nat]
          /\ pc' \in [Tasks -> PCs] /\ attempt' \in [Tasks -> {0, 1}]
          /\ reply' \in [Tasks -> Replies \cup {None}]
      <3>1. generation' \in [Realms -> Nat] /\ cleaners' \in [Realms -> SUBSET Nat]
        BY <2>1, <2>3 DEF TypeOK
      <3>2. pc' \in [Tasks -> PCs]
        BY <2>7 DEF TypeOK, PCs
      <3>3. attempt' \in [Tasks -> {0, 1}] /\ reply' \in [Tasks -> Replies \cup {None}]
        BY <2>7 DEF TypeOK
      <3> QED
        BY <3>1, <3>2, <3>3
    <2> HIDE DEF r, c, g, slot, e
    <2> QED
      BY <2>5, <2>6, <2>7, <2>9, UnlockType DEF TypeOK, PCs
  <1>7. ASSUME NEW t \in Tasks, Probed(t) PROVE TypeOK'
    <2>1. cache[RealmOf[t]] = None
      BY <1>7 DEF NoSelfBlock, Probed, waiting
    <2>2. conns' = Discarded(t) /\ Submit(t, 0)
      BY <1>7, <2>1 DEF Probed
    <2> QED
      BY <1>0, <1>7, <2>2, DiscardedType, SubmitType DEF TypeOK, Probed, waiting, Asked
  <1>8. ASSUME NEW t \in Tasks, RequestUpgrade(t) PROVE TypeOK'
    <2> DEFINE ver == IF Opened(t) THEN conns[reply[t].conn].version + 1 ELSE 1
    <2>1. ver \in Nat
      BY ReplyType DEF TypeOK, Connections, Replied
    <2>2. requests' \in Seq(Asked) /\ reply' \in [Tasks -> Replies \cup {None}]
      BY <1>8, <2>1, SubmitType DEF RequestUpgrade
    <2>3. excuses' \in [Tasks -> Nat]
      BY <1>8 DEF TypeOK, RequestUpgrade
    <2> QED
      BY <1>8, <2>2, <2>3, DiscardedType DEF TypeOK, RequestUpgrade, waiting, Asked
  <1>9. ASSUME NEW t \in Tasks, UpgradeLost(t) PROVE TypeOK'
    <2>1. requests' \in Seq(Asked) /\ reply' \in [Tasks -> Replies \cup {None}]
      BY <1>9, SubmitType DEF TypeOK, UpgradeLost, Asked
    <2>2. tries' \in [Tasks -> 0..UpgradeTries]
      <3>1. tries[t] \in Nat
        BY <1>0 DEF TypeOK
      <3>2. tries[t] + 1 < UpgradeTries => tries[t] + 1 \in 0..UpgradeTries
        BY <1>0, <3>1
      <3>3. \/ tries[t] + 1 < UpgradeTries /\ tries' = [tries EXCEPT ![t] = tries[t] + 1]
            \/ Unlock(t)
        BY <1>9 DEF UpgradeLost
      <3> QED
        BY <3>2, <3>3, UnlockType DEF TypeOK
    <2>3. lock' \in [Realms -> Tasks \cup {None}] /\ excuses' \in [Tasks -> Nat]
      BY <1>9, UnlockType DEF TypeOK, UpgradeLost
    <2>4. /\ pc' \in [Tasks -> PCs] /\ conns' = Discarded(t)
          /\ UNCHANGED <<database, cache, generation, cleaners, calls, attempt>>
      BY <1>9 DEF TypeOK, UpgradeLost, waiting, PCs
    <2> QED
      BY <2>1, <2>2, <2>3, <2>4, DiscardedType DEF TypeOK, PCs, Asked
  <1>10. ASSUME NEW t \in Tasks, UpgradeFailed(t) PROVE TypeOK'
    BY <1>0, <1>10 DEF TypeOK, UpgradeFailed
  <1>11. ASSUME NEW t \in Tasks, EndTransaction(t) PROVE TypeOK'
    <2>1. ASSUME NEW c \in Conns
          PROVE  conns'[c] \in Connections \cup {None}
      <3>1. CASE conns[c] = None \/ t \notin conns[c].users
        BY <1>11, <3>1 DEF TypeOK, EndTransaction
      <3>2. CASE conns[c] # None
        <4> DEFINE e == [conns[c] EXCEPT !.users = conns[c].users \ {t}]
        <4>1. conns[c] \in Connections /\ conns[c].users \ {t} \in SUBSET Tasks
          BY <3>2 DEF TypeOK, Connections
        <4>2. e \in Connections
          BY <4>1, ClosingType
        <4>3. conns'[c] \in {conns[c], None, e}
          BY <1>11 DEF EndTransaction
        <4> HIDE DEF e
        <4> QED
          BY <4>1, <4>2, <4>3
      <3> QED
        BY <3>1, <3>2
    <2>2. conns' = [c \in Conns |-> conns'[c]]
      BY <1>11 DEF EndTransaction
    <2>3. conns' \in [Conns -> Connections \cup {None}]
      BY <2>1, <2>2
    <2> QED
      BY <1>11, <2>3 DEF TypeOK, EndTransaction
  <1>12. ASSUME NEW t \in Tasks, TransactionAborted(t) PROVE TypeOK'
    <2>1. /\ conns' \in {conns, evicted(RealmOf[t])}
          /\ cache' \in {cache, [cache EXCEPT ![RealmOf[t]] = None]}
          /\ pc' \in [Tasks -> PCs] /\ attempt' \in [Tasks -> {0, 1}]
      BY <1>12, NextAttemptType DEF TransactionAborted, TypeOK, PCs
    <2>2. evicted(RealmOf[t]) \in [Conns -> Connections \cup {None}]
      BY <1>0, EvictedType
    <2>3. conns' \in [Conns -> Connections \cup {None}] /\ cache' \in [Realms -> Slots \cup {None}]
      BY <2>1, <2>2 DEF TypeOK
    <2> QED
      BY <1>12, <2>1, <2>3 DEF TypeOK, TransactionAborted, PCs
  <1>13. ASSUME NEW t \in Tasks, Timeout(t) PROVE TypeOK'
    <2>1. requests' \in Seq(Asked)
      BY <1>13, UnwantedType DEF Timeout
    <2>2. /\ lock' \in [Realms -> Tasks \cup {None}]
          /\ tries' \in [Tasks -> 0..UpgradeTries] /\ excuses' \in [Tasks -> Nat]
      BY <1>13, UnlockType DEF Timeout
    <2>3. /\ pc' = [pc EXCEPT ![t] = "idle"]
          /\ UNCHANGED <<database, conns, cache, generation, cleaners, calls, attempt, reply>>
      BY <1>13 DEF Timeout, Goto
    <2> QED
      BY <2>1, <2>2, <2>3 DEF TypeOK, Asked, database
  <1>14. ASSUME NEW t \in Tasks, Cancel(t) PROVE TypeOK'
    <2>1. requests' \in Seq(Asked)
      BY <1>14, UnwantedType DEF Cancel
    <2>2. conns' \in [Conns -> Connections \cup {None}]
      <3>1. CASE Opened(t)
        BY <1>14, <3>1, ReplyType, DroppedType DEF Cancel, Replied
      <3>2. CASE ~Opened(t)
        BY <1>14, <3>2 DEF TypeOK, Cancel
      <3> QED
        BY <3>1, <3>2
    <2>3. /\ lock' \in [Realms -> Tasks \cup {None}]
          /\ tries' \in [Tasks -> 0..UpgradeTries] /\ excuses' \in [Tasks -> Nat]
      BY <1>14, UnlockType DEF TypeOK, Cancel
    <2>4. /\ pc' = [pc EXCEPT ![t] = "idle"] /\ reply' = [reply EXCEPT ![t] = None]
          /\ UNCHANGED <<database, cache, generation, cleaners, calls, attempt>>
      BY <1>14 DEF Cancel
    <2> QED
      BY <2>1, <2>2, <2>3, <2>4 DEF TypeOK, Asked
  <1>15. ASSUME NEW r \in Realms, Expire(r) PROVE TypeOK'
    <2> DEFINE e == [cache[r] EXCEPT !.fresh = FALSE]
    <2>1. cache[r] # None /\ cache' = [cache EXCEPT ![r] = e]
      BY <1>15 DEF Expire
    <2>2. cache[r] \in Slots
      BY <2>1 DEF TypeOK
    <2>3. e \in Slots
      BY <2>2 DEF Slots
    <2> HIDE DEF e
    <2>4. cache' \in [Realms -> Slots \cup {None}]
      BY <2>1, <2>3 DEF TypeOK
    <2>5. UNCHANGED <<database, conns, requests, generation, cleaners, lock, task>>
      BY <1>15 DEF Expire
    <2> QED
      BY <2>4, <2>5 DEF TypeOK, database, task
  <1>16. ASSUME NEW r \in Realms, Reload(r) PROVE TypeOK'
    <2>1. requests' \in Seq(Asked)
      BY <1>16, WithdrawType DEF Reload
    <2>2. /\ conns' \in [Conns -> Connections \cup {None}]
          /\ cache' \in [Realms -> Slots \cup {None}]
          /\ generation' \in [Realms -> Nat] /\ cleaners' \in [Realms -> SUBSET Nat]
          /\ lock' \in [Realms -> Tasks \cup {None}]
      BY <1>16 DEF TypeOK, Reload
    <2>3. /\ pc' \in [Tasks -> PCs] /\ reply' \in [Tasks -> Replies \cup {None}]
          /\ tries' \in [Tasks -> 0..UpgradeTries] /\ excuses' \in [Tasks -> Nat]
      BY <1>0, <1>16 DEF TypeOK, Reload, PCs
    <2> QED
      BY <1>16, <2>1, <2>2, <2>3 DEF TypeOK, Reload, PCs, Asked
  <1>17. ASSUME NEW r \in Realms, NEW g \in cleaners[r], Cleanup(r, g) PROVE TypeOK'
    BY <1>17, EvictedType DEF TypeOK, Cleanup
  <1>18. CASE ServeOpen
    <2>1. /\ conns' \in [Conns -> Connections \cup {None}]
          /\ requests' \in Seq(Asked) /\ reply' \in [Tasks -> Replies \cup {None}]
      BY <1>18, ServeType DEF ServeOpen, TypeOK
    <2> QED
      BY <1>18, <2>1 DEF TypeOK, ServeOpen, Asked
  <1>19. CASE ServeCreate
    <2>1. /\ conns' \in [Conns -> Connections \cup {None}]
          /\ requests' \in Seq(Asked) /\ reply' \in [Tasks -> Replies \cup {None}]
      <3>1. requests # <<>> /\ NewConnection(Head(requests), 1, {}) /\ Respond(Head(requests), Ok)
        BY <1>19 DEF ServeCreate
      <3> QED
        BY <3>1, ServeType, 1 \in Nat, {} \in SUBSET Stores
    <2> QED
      BY <1>19, <2>1 DEF TypeOK, ServeCreate, Asked
  <1>20. CASE ServeTooOld
    <2>1. requests' \in Seq(Asked) /\ reply' \in [Tasks -> Replies \cup {None}]
      BY <1>20, RespondType DEF ServeTooOld, Replies
    <2> QED
      BY <1>20, <2>1 DEF TypeOK, ServeTooOld, Asked
  <1>21. CASE ServeUpgrade
    <2> DEFINE head == Head(requests)
    <2>0. head \in Asked /\ head.ver \in Nat /\ head.task \in Tasks
      BY <1>21, HeadType DEF ServeUpgrade, Asked
    <2>1. version' \in Nat /\ stores' \in SUBSET Stores /\ excuses' \in [Tasks -> Nat]
      <3>1. Needs[head.task] \in SUBSET Stores
        BY <2>0 DEF Stores
      <3>2. /\ version' \in {version, head.ver} /\ stores' \in {stores, stores \cup Needs[head.task]}
            /\ excuses' = excuses \/ Excuse(head.task)
        BY <1>21 DEF ServeUpgrade
      <3> QED
        <4>1. version \in Nat /\ stores \in SUBSET Stores /\ excuses \in [Tasks -> Nat]
          BY DEF TypeOK
        <4>2. excuses' \in [Tasks -> Nat]
          BY <3>2, <4>1 DEF Excuse
        <4> QED
          BY <2>0, <3>1, <3>2, <4>1, <4>2
    <2>2. /\ conns' \in [Conns -> Connections \cup {None}]
          /\ requests' \in Seq(Asked) /\ reply' \in [Tasks -> Replies \cup {None}]
      <3>1. CASE head.wanted
        BY <1>21, <2>0, <2>1, <3>1, ServeType DEF ServeUpgrade
      <3>2. CASE ~head.wanted
        <4>1. requests # <<>> /\ Respond(head, Ok) /\ conns' = conns
          BY <1>21, <3>2 DEF ServeUpgrade
        <4> QED
          BY <3>2, <4>1, UnansweredType DEF TypeOK
      <3> QED
        BY <3>1, <3>2
    <2> QED
      BY <1>21, <2>1, <2>2 DEF TypeOK, ServeUpgrade, Asked
  <1>22. CASE ServeError
    <2>1. requests' \in Seq(Asked) /\ reply' \in [Tasks -> Replies \cup {None}]
      BY <1>22, RespondType DEF ServeError, Replies
    <2> QED
      BY <1>22, <2>1 DEF TypeOK, ServeError, Asked
  <1>23. CASE ForeignOpen
    <2>1. conns' \in [Conns -> Connections \cup {None}]
      BY <1>23, ConnectType DEF ForeignOpen, TypeOK
    <2> QED
      BY <1>0, <1>23, <2>1 DEF TypeOK, ForeignOpen
  <1>24. CASE ForeignClose
    BY <1>24 DEF TypeOK, ForeignClose
  <1>25. CASE ForeignUpgrade
    BY <1>0, <1>25 DEF TypeOK, ForeignUpgrade, Excuse
  <1>26. ASSUME NEW c \in Conns, ForcedClose(c) PROVE TypeOK'
    <2> DEFINE e == [conns[c] EXCEPT !.state = "dead", !.users = {}]
    <2>1. conns[c] \in Connections
      BY <1>26 DEF ForcedClose, Live, TypeOK
    <2>2. e \in Connections
      BY <2>1, ClosingType
    <2>3. conns' = [conns EXCEPT ![c] = IF conns[c].state \in {"closing", "dropped"} THEN None ELSE e]
      BY <1>26 DEF ForcedClose
    <2> HIDE DEF e
    <2>4. conns' \in [Conns -> Connections \cup {None}]
      BY <2>2, <2>3 DEF TypeOK
    <2> QED
      BY <1>26, <2>4 DEF TypeOK, ForcedClose
  <1>29. ASSUME NEW c \in Conns, Collect(c) PROVE TypeOK'
    BY <1>29 DEF TypeOK, Collect
  <1>27. ASSUME NEW t \in Tasks, Poll(t) PROVE TypeOK'
    BY <1>2, <1>3, <1>4, <1>5, <1>6, <1>7, <1>8, <1>9, <1>10, <1>11, <1>12, <1>27 DEF Poll
  <1>28. CASE Serve
    BY <1>18, <1>19, <1>20, <1>21, <1>28 DEF Serve
  <1> QED
    BY <1>1, <1>27, <1>13, <1>14, <1>15, <1>16, <1>17, <1>28, <1>22, <1>23, <1>24, <1>25, <1>26,
       <1>29
       DEF Next

---------------------------------------------------------------------------
(* Connections: who refers to them, step by step.                          *)

CRest == Owned /\ NoSelfBlock /\ Cached /\ Replied /\ Queued /\ Used /\ Runs

\* What the types say of who refers to what.
LEMMA Refs ==
  ASSUME TypeOK
  PROVE  /\ \A r \in Realms : r # Foreign /\ r # None
         /\ \A t \in Tasks : RealmOf[t] \in Realms /\ t # None
         /\ \A r \in Realms : cache[r] # None => cache[r].conn \in Conns
         /\ \A t \in Tasks : Opened(t) => reply[t].conn \in Conns
         /\ \A c \in Conns : conns[c] # None => /\ conns[c].users \subseteq Tasks
                                                /\ conns[c].state \in {"open", "closing", "dropped", "dead"}
         /\ \A i \in DOMAIN requests : requests[i].task \in Tasks
  <1>1. \A t \in Tasks : Opened(t) => reply[t].conn \in Conns
    BY ReplyType
  <1>2. \A i \in DOMAIN requests : requests[i].task \in Tasks
    BY RequestType DEF Asked
  <1>3. \A r \in Realms : cache[r] # None => cache[r].conn \in Conns
    BY DEF TypeOK, Slots
  <1>4. \A c \in Conns : conns[c] # None => /\ conns[c].users \subseteq Tasks
                                            /\ conns[c].state \in {"open", "closing", "dropped", "dead"}
    BY DEF TypeOK, Connections
  <1> QED
    BY <1>1, <1>2, <1>3, <1>4, TasksAssumption

\* The evicted connection is gone, or closing with its users.
LEMMA Evicts ==
  ASSUME CInv, NEW r \in Realms, cache[r] # None
  PROVE  \A c \in Conns : IF c # cache[r].conn THEN evicted(r)[c] = conns[c]
                          ELSE \/ evicted(r)[c] = None /\ conns[c].users = {}
                               \/ Same(evicted(r)[c], conns[c]) /\ evicted(r)[c].state = "closing"
  <1> DEFINE c == cache[r].conn
  <1>1. TypeOK /\ Cached /\ Used
    BY DEF CInv
  <1>2. c \in Conns /\ Closed(conns, evicted(r), c)
    BY <1>1, EvictedType
  <1>3. conns[c] # None /\ conns[c].state \in {"open", "dead"} /\ conns[c].users \subseteq Tasks
    BY <1>1, <1>2, Refs DEF Cached
  <1>4. conns[c].state = "dead" => conns[c].users = {}
    BY <1>1, <1>2, <1>3 DEF Used
  <1> QED
    BY <1>2, <1>3, <1>4 DEF Closed, Same

\* Steps of tasks that neither wait for a connection nor have one.
Quiet(p, q) == p = q \/ (p \notin waiting \cup {"txn"} /\ q \notin waiting \cup {"txn"})

\* They keep the invariant, whatever they evict, expire or leave in the queue.
LEMMA QuietStep ==
  ASSUME CInv, NEW r \in Realms, UNCHANGED <<reply, lock>>,
         \A u \in Tasks : Quiet(pc[u], pc'[u]),
         \/ requests' = requests
         \/ \E t \in Tasks : pc[t] \notin waiting /\ requests' = Unwanted(t),
         \/ conns' = conns /\ \A q \in Realms : /\ cache'[q] = None <=> cache[q] = None
                                                /\ cache[q] # None => cache'[q].conn = cache[q].conn
         \/ conns' = evicted(r) /\ cache' = [cache EXCEPT ![r] = None]
  PROVE  CRest'
  <1> USE Refs DEF CInv, Quiet
  <1>1. \A c \in Conns :
          \/ conns'[c] = conns[c]
          \/ /\ cache[r] # None /\ cache'[r] = None /\ c = cache[r].conn
             /\ \/ conns'[c] = None /\ conns[c].users = {}
                \/ Same(conns'[c], conns[c]) /\ conns'[c].state = "closing"
    <2>1. CASE conns' = conns
      BY <2>1
    <2>2. CASE conns' = evicted(r) /\ cache' = [cache EXCEPT ![r] = None]
      <3>1. cache'[r] = None
        BY <2>2 DEF TypeOK
      <3>2. CASE cache[r] = None
        BY <2>2, <3>2, EvictedType
      <3>3. CASE cache[r] # None
        BY <2>2, <3>1, <3>3, Evicts
      <3> QED
        BY <3>2, <3>3
    <2> QED
      BY <2>1, <2>2
  <1>2. /\ \A q \in Realms : cache'[q] # None => cache[q] # None /\ cache'[q].conn = cache[q].conn
        /\ \A q \in Realms : cache[q] # None /\ cache'[q] = None => q = r /\ conns' = evicted(r)
    <2>1. cache \in [Realms -> Slots \cup {None}]
      BY DEF TypeOK
    <2>2. CASE cache' = cache
      BY <2>2
    <2>3. CASE conns' = evicted(r) /\ cache' = [cache EXCEPT ![r] = None]
      BY <2>1, <2>3
    <2> QED
      BY <2>2, <2>3
  <1>5. Cached'
    <2>1. \A p, q \in Realms : cache[p] # None /\ cache[q] # None /\ cache[p].conn = cache[q].conn => p = q
      BY DEF Cached
    <2> QED
      BY <1>1, <1>2, <2>1 DEF Cached
  <1>6. Replied'
    BY <1>1 DEF Replied, Cached, NoSelfBlock, Opened
  <1>7. Owned'
    <2> SUFFICES ASSUME NEW c \in Conns, conns'[c] # None, conns'[c].owner # Foreign,
                        conns'[c].state \notin {"closing", "dropped"}
                 PROVE  \/ \E q \in Realms : cache'[q] # None /\ cache'[q].conn = c
                        \/ \E t \in Tasks : pc'[t] \in waiting /\ Opened(t)' /\ reply'[t].conn = c
      BY DEF Owned
    <2>1. conns'[c] = conns[c]
      BY <1>1
    <2>2. CASE \E q \in Realms : cache[q] # None /\ cache[q].conn = c
      <3>1. PICK q \in Realms : cache[q] # None /\ cache[q].conn = c
        BY <2>2
      <3>2. cache'[q] = None => conns' = evicted(r) /\ q = r
        BY <1>2, <3>1
      <3>3. conns' = evicted(r) /\ q = r => FALSE
        BY <2>1, <3>1, Evicts DEF Cached
      <3> QED
        BY <1>2, <3>1, <3>2, <3>3
    <2>3. CASE \E t \in Tasks : pc[t] \in waiting /\ Opened(t) /\ reply[t].conn = c
      BY <2>3 DEF Opened
    <2> QED
      BY <2>1, <2>2, <2>3 DEF Owned
  <1>8. NoSelfBlock'
    BY <1>1, <1>2 DEF NoSelfBlock, Opened, Same
  <1>9. Queued'
    BY UnwantedType DEF Queued
  <1>10. Used'
    BY <1>1 DEF Used, Same
  <1>11. Runs'
    BY <1>1 DEF Runs, Same
  <1> QED
    BY <1>5, <1>6, <1>7, <1>8, <1>9, <1>10, <1>11 DEF CRest

\* A task that submits a request for itself has no other that it wants.
LEMMA SubmitStep ==
  ASSUME CInv, NEW t \in Tasks, NEW ver \in Nat, Submit(t, ver),
         pc[t] \notin waiting \/ reply[t] # None,
         pc'[t] \in waiting, \A u \in Tasks \ {t} : pc'[u] = pc[u]
  PROVE  /\ Queued' /\ reply'[t] = None
         /\ \A u \in Tasks \ {t} : reply'[u] = reply[u]
  <1> DEFINE q == [task |-> t, ver |-> ver, wanted |-> TRUE]
  <1>1. requests \in Seq(Asked) /\ q \in Asked /\ reply \in [Tasks -> Replies \cup {None}]
    BY DEF CInv, TypeOK, Asked
  <1>2. requests' = Append(requests, q) /\ reply' = [reply EXCEPT ![t] = None]
    BY DEF Submit
  <1>3. Len(requests) \in Nat /\ DOMAIN requests = 1..Len(requests) /\ DOMAIN requests' = 1..(Len(requests) + 1)
        /\ requests'[Len(requests) + 1] = q /\ \A i \in DOMAIN requests : requests'[i] = requests[i]
    BY <1>1, <1>2, AppendProperties, LenProperties
  <1>4. \A i \in DOMAIN requests : requests[i].wanted => requests[i].task # t
    BY DEF CInv, Queued
  <1>5. \A i \in DOMAIN requests : requests[i].task \in Tasks
    BY Refs DEF CInv
  <1>6. reply'[t] = None /\ \A u \in Tasks \ {t} : reply'[u] = reply[u]
    BY <1>1, <1>2
  <1>7. \A i \in DOMAIN requests' : \/ i \in DOMAIN requests /\ requests'[i] = requests[i]
                                    \/ i \notin DOMAIN requests /\ requests'[i] = q /\ i = Len(requests) + 1
    BY <1>3
  <1> HIDE DEF q
  <1>8. q.task = t
    BY DEF q
  <1>9. Queued'
    BY <1>4, <1>5, <1>6, <1>7, <1>8 DEF CInv, Queued
  <1> QED
    BY <1>6, <1>9

\* The lock is taken, the cached connection evicted and an open requested.
LEMMA OpenClientStep ==
  ASSUME CInv, NEW t \in Tasks, OpenClient(t)
  PROVE  CRest'
  <1> DEFINE r == RealmOf[t]
  <1> USE Refs DEF CInv
  <1>1. /\ pc[t] \in {"start", "lock"} /\ lock[r] = None /\ pc'[t] = "probe" /\ "probe" \in waiting
        /\ \A u \in Tasks \ {t} : pc'[u] = pc[u]
        /\ r \in Realms /\ lock'[r] = t /\ \A q \in Realms \ {r} : lock'[q] = lock[q]
        /\ cache'[r] = None /\ \A q \in Realms \ {r} : cache'[q] = cache[q]
        /\ conns' = evicted(r) /\ pc[t] \notin waiting \cup {"txn"}
    BY DEF OpenClient, Goto, TypeOK, waiting
  <1>2. Queued' /\ reply'[t] = None /\ \A u \in Tasks \ {t} : reply'[u] = reply[u]
    BY <1>1, SubmitStep DEF OpenClient
  <1>3. \A c \in Conns :
          \/ conns'[c] = conns[c] /\ (cache[r] # None => c # cache[r].conn)
          \/ /\ cache[r] # None /\ c = cache[r].conn
             /\ \/ conns'[c] = None /\ conns[c].users = {}
                \/ Same(conns'[c], conns[c]) /\ conns'[c].state = "closing"
    BY <1>1, Evicts, EvictedType
  <1>4. \A u \in Tasks : pc[u] \in waiting => RealmOf[u] # r
    BY <1>1 DEF NoSelfBlock
  <1>5. Cached'
    BY <1>1, <1>3 DEF Cached
  <1>6. Replied'
    <2> SUFFICES ASSUME NEW u \in Tasks, reply'[u] # None
                 PROVE  /\ pc'[u] \in waiting
                        /\ Opened(u)' => /\ conns'[reply'[u].conn] # None
                                         /\ conns'[reply'[u].conn].owner = RealmOf[u]
                                         /\ conns'[reply'[u].conn].state \notin {"closing", "dropped"}
                                         /\ conns'[reply'[u].conn].users = {}
      BY DEF Replied, Opened
    <2>1. u # t /\ reply'[u] = reply[u] /\ pc'[u] = pc[u] /\ pc[u] \in waiting
      BY <1>1, <1>2 DEF Replied
    <2>2. ASSUME Opened(u)' PROVE conns'[reply[u].conn] = conns[reply[u].conn]
      <3>1. Opened(u) /\ reply[u].conn \in Conns
        BY <2>1, <2>2 DEF Opened
      <3>2. conns[reply[u].conn].owner # r
        BY <1>4, <2>1, <3>1 DEF Replied
      <3>3. cache[r] # None => reply[u].conn # cache[r].conn
        BY <1>1, <3>2 DEF Cached
      <3> QED
        BY <1>3, <3>1, <3>3
    <2> QED
      BY <2>1, <2>2 DEF Replied, Opened
  <1>7. Owned'
    BY <1>1, <1>2, <1>3 DEF Owned, Opened
  <1>8. NoSelfBlock'
    <2>1. \A c \in Conns : conns'[c] # None /\ conns'[c].owner = r => conns'[c].state \in {"closing", "dropped"}
      <3> SUFFICES ASSUME NEW c \in Conns, conns'[c] # None, conns'[c].owner = r,
                          conns'[c].state \notin {"closing", "dropped"}
                   PROVE  FALSE
        OBVIOUS
      <3>1. conns'[c] = conns[c] /\ (cache[r] # None => c # cache[r].conn)
        BY <1>3
      <3>2. \A q \in Realms : cache[q] # None /\ cache[q].conn = c => q = r
        BY <3>1 DEF Cached
      <3>3. \A u \in Tasks : ~(Opened(u) /\ reply[u].conn = c)
        BY <1>1, <1>4, <3>1 DEF Replied, Opened
      <3> QED
        BY <1>1, <3>1, <3>2, <3>3 DEF Owned
    <2> QED
      BY <1>1, <1>2, <1>3, <1>4, <2>1 DEF NoSelfBlock, Opened
  <1>9. Used'
    BY <1>1, <1>3 DEF Used, Same
  <1>10. Runs'
    BY <1>1, <1>3 DEF Runs, Same
  <1> QED
    BY <1>2, <1>5, <1>6, <1>7, <1>8, <1>9, <1>10 DEF CRest

\* Another round with IndexedDB: what was opened is closed, the task waits on.
LEMMA DiscardStep ==
  ASSUME CInv, NEW t \in Tasks, NEW ver \in Nat, pc[t] \in waiting, reply[t] # None,
         conns' = Discarded(t), Submit(t, ver),
         NEW p \in waiting, Goto(t, p), UNCHANGED <<cache, lock>>
  PROVE  CRest'
  <1> USE Refs DEF CInv
  <1>1. pc'[t] = p /\ \A u \in Tasks \ {t} : pc'[u] = pc[u]
    BY DEF Goto, TypeOK
  <1>2. Queued' /\ reply'[t] = None /\ \A u \in Tasks \ {t} : reply'[u] = reply[u]
    BY <1>1, SubmitStep
  <1>3. \A c \in Conns : \/ conns'[c] = conns[c] /\ ~(Opened(t) /\ reply[t].conn = c)
                         \/ /\ Opened(t) /\ reply[t].conn = c /\ conns'[c] = None
                            /\ conns[c] # None /\ conns[c].users = {} /\ conns[c].owner = RealmOf[t]
    BY DiscardedType DEF Replied
  <1>5. Cached'
    BY <1>3 DEF Cached, NoSelfBlock
  <1>6. Replied'
    BY <1>1, <1>2, <1>3 DEF Replied, Opened, NoSelfBlock
  <1>7. Owned'
    BY <1>1, <1>2, <1>3 DEF Owned, Opened
  <1>8. NoSelfBlock'
    BY <1>1, <1>2, <1>3 DEF NoSelfBlock, Opened
  <1>9. Used'
    BY <1>1, <1>3 DEF Used, waiting
  <1>10. Runs'
    BY <1>1, <1>3 DEF Runs, waiting
  <1> QED
    BY <1>2, <1>5, <1>6, <1>7, <1>8, <1>9, <1>10 DEF CRest

\* The task gives up: it leaves the lock, and what was opened is gone or left behind.
LEMMA LeaveStep ==
  ASSUME CInv, NEW t \in Tasks, pc[t] \in waiting,
         \A c \in Conns : IF Opened(t) /\ reply[t].conn = c
                         THEN \/ conns'[c] = None
                              \/ Same(conns'[c], conns[c]) /\ conns'[c].state = "dropped"
                         ELSE conns'[c] = conns[c],
         reply' = [reply EXCEPT ![t] = None], Goto(t, "idle"),
         requests' = Unwanted(t) \/ (requests' = requests /\ reply[t] # None),
         lock' = [lock EXCEPT ![RealmOf[t]] = None], UNCHANGED cache
  PROVE  CRest'
  <1> USE Refs DEF CInv
  <1>1. /\ pc'[t] = "idle" /\ "idle" \notin waiting \cup {"txn"} /\ \A u \in Tasks \ {t} : pc'[u] = pc[u]
        /\ reply'[t] = None /\ \A u \in Tasks \ {t} : reply'[u] = reply[u]
        /\ \A q \in Realms \ {RealmOf[t]} : lock'[q] = lock[q]
    BY DEF Goto, TypeOK, waiting
  <1>2. Queued'
    <2>1. /\ DOMAIN requests' = DOMAIN requests
          /\ \A i \in DOMAIN requests : /\ requests'[i].task = requests[i].task
                                        /\ requests'[i].wanted => requests[i].wanted /\ requests[i].task # t
      BY UnwantedType DEF Queued
    <2> QED
      BY <1>1, <2>1 DEF Queued
  <1>3. \A c \in Conns : \/ conns'[c] = conns[c] /\ ~(Opened(t) /\ reply[t].conn = c)
                         \/ /\ Opened(t) /\ reply[t].conn = c
                            /\ conns[c] # None /\ conns[c].users = {} /\ conns[c].owner = RealmOf[t]
                            /\ conns'[c] # None => /\ conns'[c].state = "dropped" /\ conns'[c].users = {}
                                                   /\ conns'[c].owner = RealmOf[t]
    BY DEF Replied, Same
  <1>4. \A u \in Tasks \ {t} : pc[u] \in waiting => RealmOf[u] # RealmOf[t]
    BY DEF NoSelfBlock
  <1>5. Cached'
    BY <1>3 DEF Cached, NoSelfBlock
  <1>6. Replied'
    BY <1>1, <1>3, <1>4 DEF Replied, Opened
  <1>7. Owned'
    BY <1>1, <1>3 DEF Owned, Opened
  <1>8. NoSelfBlock'
    BY <1>1, <1>3, <1>4 DEF NoSelfBlock, Opened
  <1>9. Used'
    BY <1>1, <1>3 DEF Used, waiting
  <1>10. Runs'
    BY <1>1, <1>3 DEF Runs, waiting
  <1> QED
    BY <1>2, <1>5, <1>6, <1>7, <1>8, <1>9, <1>10 DEF CRest

\* The connection that t waited for is cached, perhaps used, or found stale.
LEMMA DeliverStep ==
  ASSUME CInv, NEW t \in Tasks, Deliver(t)
  PROVE  CRest'
  <1> DEFINE r == RealmOf[t]
             c == reply[t].conn
  <1> USE Refs DEF CInv
  <1>1. /\ pc[t] \in waiting /\ Opened(t) /\ c \in Conns /\ r \in Realms /\ lock[r] = t
        /\ conns[c] # None /\ conns[c].owner = r /\ conns[c].state \notin {"closing", "dropped"} /\ conns[c].users = {}
        /\ cache[r] = None /\ evicted(r) = conns /\ reply[t] # None /\ Needs[t] \subseteq conns[c].stores
    <2>1. pc[t] \in waiting /\ Opened(t) /\ Needs[t] \subseteq conns[c].stores
      BY DEF Deliver, Suitable, stores_exist_in
    <2>2. c \in Conns /\ r \in Realms /\ reply[t] # None
      BY <2>1 DEF Opened
    <2> QED
      BY <2>1, <2>2 DEF NoSelfBlock, Replied, evicted
  <1>2. /\ reply'[t] = None /\ \A u \in Tasks \ {t} : reply'[u] = reply[u]
        /\ \A q \in Realms \ {r} : lock'[q] = lock[q]
        /\ UNCHANGED requests
    BY <1>1 DEF Deliver, Unlock, TypeOK
  <1>3. /\ pc'[t] \in {"txn", "start", "idle"} /\ pc'[t] \notin waiting
        /\ \A u \in Tasks \ {t} : pc'[u] = pc[u]
    <2>1. Goto(t, "txn") \/ Goto(t, "idle") \/ NextAttempt(t)
      BY DEF Deliver
    <2>2. pc \in [Tasks -> PCs]
      BY DEF TypeOK, PCs
    <2>3. CASE Goto(t, "txn") \/ Goto(t, "idle")
      BY <2>2, <2>3 DEF Goto, waiting
    <2>4. CASE NextAttempt(t)
      BY <2>4, NextAttemptType DEF waiting
    <2> QED
      BY <2>1, <2>3, <2>4
  <1>4. \A q \in Realms \ {r} : cache'[q] = cache[q]
    BY DEF Deliver, TypeOK
  <1> DEFINE e == [conns[c] EXCEPT !.users = {t}]
               slot == [conn |-> c, gen |-> generation[r] + 1, fresh |-> TRUE]
  <1>6. /\ e # None /\ e.owner = r /\ e.state = conns[c].state /\ e.stores = conns[c].stores
        /\ e.users = {t}
    <2>1. conns[c] \in Connections /\ {t} \in SUBSET Tasks
      BY <1>1 DEF TypeOK
    <2>2. /\ e # None /\ e.owner = conns[c].owner /\ e.state = conns[c].state
          /\ e.stores = conns[c].stores /\ e.users = {t}
      BY <2>1, UsersSet, Zenon
    <2> HIDE DEF e
    <2> QED
      BY <1>1, <2>2
  <1>7. slot # None /\ slot.conn = c
    <2>1. slot \in Slots
      BY <1>1 DEF TypeOK, Slots
    <2> QED
      BY <2>1, NoneAssumption
  <1>16. \/ /\ pc'[t] = "txn" /\ conns[c].state = "open"
            /\ conns' = [conns EXCEPT ![c] = e] /\ cache' = [cache EXCEPT ![r] = slot]
         \/ pc'[t] # "txn" /\ conns' = [conns EXCEPT ![c] = None] /\ cache' = [cache EXCEPT ![r] = None]
         \/ pc'[t] # "txn" /\ conns' = conns /\ cache' = [cache EXCEPT ![r] = slot]
    <2>1. CASE conns[c].state = "open" /\ conns' = [evicted(r) EXCEPT ![c].users = {t}] /\ Goto(t, "txn")
               /\ cache' = [cache EXCEPT ![r] = slot]
      BY <1>1, <2>1 DEF Goto, TypeOK
    <2>2. CASE conns' = [evicted(r) EXCEPT ![c] = None] /\ cache' = [cache EXCEPT ![r] = None] /\ NextAttempt(t)
      <3>1. pc'[t] # "txn"
        BY <2>2, NextAttemptType
      <3> QED
        BY <1>1, <2>2, <3>1
    <2>3. CASE conns' = evicted(r) /\ cache' = [cache EXCEPT ![r] = slot] /\ Goto(t, "idle")
      BY <1>1, <2>3 DEF Goto, TypeOK
    <2> HIDE DEF e
    <2> QED
      BY <2>1, <2>2, <2>3 DEF Deliver
  <1> HIDE DEF e, slot
  <1>17. \A d \in Conns \ {c} : conns'[d] = conns[d]
    BY <1>1, <1>16 DEF TypeOK
  <1>18. \/ /\ pc'[t] = "txn" /\ conns[c].state = "open"
            /\ conns'[c] # None /\ conns'[c].owner = r /\ conns'[c].state = "open"
            /\ conns'[c].stores = conns[c].stores /\ conns'[c].users = {t}
            /\ cache'[r] # None /\ cache'[r].conn = c
         \/ pc'[t] # "txn" /\ conns'[c] = None /\ cache'[r] = None
         \/ pc'[t] # "txn" /\ conns'[c] = conns[c] /\ cache'[r] # None /\ cache'[r].conn = c
    BY <1>1, <1>6, <1>7, <1>16 DEF TypeOK
  <1>8. \A u \in Tasks \ {t} : pc[u] \in waiting => RealmOf[u] # r
    BY <1>1 DEF NoSelfBlock
  <1>9. Cached'
    BY <1>1, <1>4, <1>18, <1>17 DEF Cached
  <1>10. Replied'
    <2>1. \A u \in Tasks \ {t} : Opened(u) => reply[u].conn # c
      BY <1>1, <1>8 DEF Replied, Opened
    <2> SUFFICES ASSUME NEW u \in Tasks
                 PROVE  /\ reply'[u] # None => pc'[u] \in waiting
                        /\ Opened(u)' => /\ conns'[reply'[u].conn] # None
                                         /\ conns'[reply'[u].conn].owner = RealmOf[u]
                                         /\ conns'[reply'[u].conn].state \notin {"closing", "dropped"}
                                         /\ conns'[reply'[u].conn].users = {}
      BY DEF Replied
    <2>2. CASE u = t
      BY <1>2, <2>2 DEF Opened
    <2>3. CASE u # t
      <3>1. reply'[u] = reply[u] /\ pc'[u] = pc[u]
        BY <1>2, <1>3, <2>3
      <3>2. Opened(u)' => Opened(u)
        BY <3>1 DEF Opened
      <3>3. Opened(u) => reply[u].conn \in Conns /\ reply[u].conn # c
        BY <2>1, <2>3
      <3> QED
        BY <1>17, <3>1, <3>2, <3>3 DEF Replied
    <2> QED
      BY <2>2, <2>3
  <1>11. Owned'
    BY <1>1, <1>2, <1>3, <1>4, <1>18, <1>17 DEF Owned, Opened
  <1>12. NoSelfBlock'
    BY <1>1, <1>2, <1>3, <1>4, <1>18, <1>17, <1>8 DEF NoSelfBlock, Opened
  <1>13. Used'
    BY <1>1, <1>3, <1>18, <1>17 DEF Used, waiting
  <1>14. Runs'
    BY <1>1, <1>3, <1>18, <1>17 DEF Runs
  <1>15. Queued'
    BY <1>1, <1>2, <1>3 DEF Queued
  <1> QED
    BY <1>9, <1>10, <1>11, <1>12, <1>13, <1>14, <1>15 DEF CRest

\* A transaction begins on the cached connection.
LEMMA UseCachedStep ==
  ASSUME CInv, NEW t \in Tasks, UseCached(t)
  PROVE  CRest'
  <1> DEFINE r == RealmOf[t]
             c == cache[r].conn
             e == [conns[c] EXCEPT !.users = conns[c].users \cup {t}]
  <1> USE Refs DEF CInv
  <1>1. /\ pc[t] \in {"start", "lock"} /\ pc[t] \notin waiting \cup {"txn"}
        /\ r \in Realms /\ cache[r] # None /\ c \in Conns /\ conns[c] # None /\ conns[c].owner = r
        /\ conns[c].state = "open" /\ Needs[t] \subseteq conns[c].stores
    BY DEF UseCached, Checks, cached_client_has_stores, stores_exist_in, Cached, waiting
  <1>2. conns[c] \in Connections /\ conns[c].users \cup {t} \in SUBSET Tasks
    <2>1. conns[c] \in Connections
      BY <1>1 DEF TypeOK
    <2> QED
      BY <1>1, <2>1
  <1>4. e # None /\ e.owner = r /\ e.state = "open" /\ e.stores = conns[c].stores
        /\ e.users = conns[c].users \cup {t}
    <2>1. /\ e # None /\ e.owner = conns[c].owner /\ e.state = conns[c].state
          /\ e.stores = conns[c].stores /\ e.users = conns[c].users \cup {t}
      BY <1>2, UsersSet, Zenon
    <2> HIDE DEF e
    <2> QED
      BY <1>1, <2>1
  <1>5. /\ pc' = [pc EXCEPT ![t] = "txn"] /\ conns' = [conns EXCEPT ![c] = e]
        /\ UNCHANGED <<requests, cache, lock, reply>>
    BY DEF UseCached, Goto, realm
  <1> HIDE DEF e
  <1>6. conns'[c] = e /\ \A d \in Conns \ {c} : conns'[d] = conns[d]
    BY <1>1, <1>5 DEF TypeOK
  <1>7. pc'[t] = "txn" /\ \A u \in Tasks \ {t} : pc'[u] = pc[u]
    BY <1>5 DEF TypeOK
  <1>9. Cached'
    BY <1>1, <1>4, <1>5, <1>6 DEF Cached
  <1>10. Replied'
    BY <1>1, <1>4, <1>5, <1>6, <1>7 DEF Replied, Opened, NoSelfBlock
  <1>11. Owned'
    BY <1>1, <1>4, <1>5, <1>6, <1>7 DEF Owned, Opened
  <1>12. NoSelfBlock'
    BY <1>1, <1>4, <1>5, <1>6, <1>7 DEF NoSelfBlock, Opened, waiting
  <1>13. Used'
    BY <1>1, <1>4, <1>6, <1>7 DEF Used
  <1>14. Runs'
    BY <1>1, <1>4, <1>6, <1>7 DEF Runs
  <1>15. Queued'
    BY <1>1, <1>5, <1>7 DEF Queued
  <1> QED
    BY <1>9, <1>10, <1>11, <1>12, <1>13, <1>14, <1>15 DEF CRest

\* A transaction ends; a closing connection without users is gone.
LEMMA EndTransactionStep ==
  ASSUME CInv, NEW t \in Tasks, EndTransaction(t)
  PROVE  CRest'
  <1> USE Refs DEF CInv
  <1>1. pc[t] = "txn" /\ "txn" \notin waiting /\ "idle" \notin waiting
    BY DEF EndTransaction, waiting
  <1>2. /\ pc'[t] = "idle" /\ \A u \in Tasks \ {t} : pc'[u] = pc[u]
        /\ UNCHANGED <<requests, cache, lock, reply>>
    BY DEF EndTransaction, Goto, TypeOK, realm
  <1>3. \A c \in Conns :
          \/ conns'[c] = conns[c] /\ (conns[c] # None => t \notin conns[c].users)
          \/ /\ conns[c] # None /\ t \in conns[c].users /\ conns[c].state = "closing"
             /\ conns[c].users = {t} /\ conns'[c] = None
          \/ /\ conns[c] # None /\ t \in conns[c].users /\ conns'[c] # None
             /\ conns'[c].owner = conns[c].owner /\ conns'[c].state = conns[c].state
             /\ conns'[c].stores = conns[c].stores /\ conns'[c].users = conns[c].users \ {t}
    <2> SUFFICES ASSUME NEW c \in Conns, conns[c] # None, t \in conns[c].users,
                        ~(conns[c].state = "closing" /\ conns[c].users = {t})
                 PROVE  /\ conns'[c] # None
                        /\ conns'[c].owner = conns[c].owner /\ conns'[c].state = conns[c].state
                        /\ conns'[c].stores = conns[c].stores /\ conns'[c].users = conns[c].users \ {t}
      BY DEF EndTransaction
    <2>1. conns[c] \in Connections /\ conns[c].users \ {t} \in SUBSET Tasks
      BY DEF TypeOK
    <2>2. conns'[c] = [conns[c] EXCEPT !.users = conns[c].users \ {t}]
      BY DEF EndTransaction
    <2> DEFINE e == [conns[c] EXCEPT !.users = conns[c].users \ {t}]
    <2>3. /\ e # None /\ e.owner = conns[c].owner /\ e.state = conns[c].state
          /\ e.stores = conns[c].stores /\ e.users = conns[c].users \ {t}
      BY <2>1, UsersSet, Zenon
    <2> HIDE DEF e
    <2> QED
      BY <2>2, <2>3 DEF e
  <1>9. Cached'
    BY <1>2, <1>3 DEF Cached
  <1>10. Replied'
    BY <1>1, <1>2, <1>3 DEF Replied, Opened
  <1>11. Owned'
    BY <1>1, <1>2, <1>3 DEF Owned, Opened
  <1>12. NoSelfBlock'
    BY <1>1, <1>2, <1>3 DEF NoSelfBlock, Opened
  <1>13. Used'
    BY <1>1, <1>2, <1>3 DEF Used
  <1>14. Runs'
    BY <1>1, <1>2, <1>3 DEF Runs, Used
  <1>15. Queued'
    BY <1>1, <1>2 DEF Queued
  <1> QED
    BY <1>9, <1>10, <1>11, <1>12, <1>13, <1>14, <1>15 DEF CRest

\* The browser closes a connection under its transactions.
LEMMA ForcedCloseStep ==
  ASSUME CInv, NEW c \in Conns, ForcedClose(c)
  PROVE  CRest'
  <1> DEFINE e == [conns[c] EXCEPT !.state = "dead", !.users = {}]
  <1> USE Refs DEF CInv
  <1>1. /\ conns[c] # None /\ conns[c].state \in {"open", "closing", "dropped"} /\ conns[c].owner # Foreign
        /\ UNCHANGED <<requests, cache, lock, reply>>
    BY DEF ForcedClose, Live, realm
  <1>2. conns[c] \in Connections
    BY <1>1 DEF TypeOK
  <1>3. e # None /\ e.owner = conns[c].owner /\ e.state = "dead" /\ e.users = {}
    BY <1>2, DeadSet, Zenon
  <1>4. conns' = [conns EXCEPT ![c] = IF conns[c].state \in {"closing", "dropped"} THEN None ELSE e]
    BY DEF ForcedClose
  <1> HIDE DEF e
  <1>5. /\ \A d \in Conns \ {c} : conns'[d] = conns[d]
        /\ IF conns[c].state \in {"closing", "dropped"} THEN conns'[c] = None
           ELSE /\ conns'[c] # None /\ conns'[c].owner = conns[c].owner
                /\ conns'[c].state = "dead" /\ conns'[c].users = {}
    BY <1>3, <1>4 DEF TypeOK
  <1>6. \A u \in Tasks : pc'[u] = IF u \in conns[c].users THEN "aborted" ELSE pc[u]
    BY DEF ForcedClose
  <1>7. \A u \in Tasks : u \in conns[c].users => pc[u] = "txn"
    BY <1>1 DEF Used
  <1>8. "aborted" \notin waiting \cup {"txn"} /\ "txn" \notin waiting
    BY DEF waiting
  <1>9. Cached'
    BY <1>1, <1>5 DEF Cached
  <1>10. Replied'
    BY <1>1, <1>5, <1>6, <1>7, <1>8 DEF Replied, Opened
  <1>11. Owned'
    BY <1>1, <1>5, <1>6, <1>7, <1>8 DEF Owned, Opened
  <1>12. NoSelfBlock'
    BY <1>1, <1>5, <1>6, <1>7, <1>8 DEF NoSelfBlock, Opened
  <1>13. Used'
    BY <1>1, <1>5, <1>6, <1>7, <1>8 DEF Used
  <1>14. Runs'
    BY <1>1, <1>5, <1>6, <1>7, <1>8 DEF Runs
  <1>15. Queued'
    BY <1>1, <1>6, <1>7, <1>8 DEF Queued
  <1> QED
    BY <1>9, <1>10, <1>11, <1>12, <1>13, <1>14, <1>15 DEF CRest

\* The head of the queue is answered.  A task that wants the answer waits for it.
LEMMA RespondStep ==
  ASSUME CInv, requests # <<>>, NEW answer, Respond(Head(requests), answer), UNCHANGED pc
  PROVE  LET head == Head(requests)
         IN  /\ head.task \in Tasks /\ Queued'
             /\ head.wanted => /\ pc[head.task] \in waiting /\ reply[head.task] = None
                               /\ reply'[head.task] = answer
                               /\ \A u \in Tasks \ {head.task} : reply'[u] = reply[u]
             /\ ~head.wanted => reply' = reply
  <1> DEFINE head == Head(requests)
  <1>1. /\ head \in Asked /\ head = requests[1] /\ 1 \in DOMAIN requests
        /\ \A i \in DOMAIN Tail(requests) : /\ i \in Nat \ {0} /\ i + 1 \in DOMAIN requests
                                            /\ Tail(requests)[i] = requests[i + 1]
    BY HeadType DEF CInv
  <1>2. head.task \in Tasks
    BY <1>1 DEF Asked
  <1>3. head.wanted => pc[head.task] \in waiting /\ reply[head.task] = None
    BY <1>1 DEF CInv, Queued
  <1>4. /\ requests' = Tail(requests)
        /\ head.wanted => /\ reply'[head.task] = answer
                          /\ \A u \in Tasks \ {head.task} : reply'[u] = reply[u]
        /\ ~head.wanted => reply' = reply
    BY <1>2 DEF Respond, CInv, TypeOK
  <1>5. \A i \in DOMAIN requests' : /\ i \in Nat \ {0} /\ i + 1 \in DOMAIN requests
                                    /\ requests'[i] = requests[i + 1]
    BY <1>1, <1>4
  <1>6. \A i \in DOMAIN requests : requests[i].task \in Tasks
    BY Refs DEF CInv
  <1>7. Queued'
    <2> SUFFICES /\ \A i \in DOMAIN requests' : requests'[i].wanted =>
                      pc[requests'[i].task] \in waiting /\ reply'[requests'[i].task] = None
                 /\ \A i, j \in DOMAIN requests' :
                      /\ requests'[i].wanted /\ requests'[j].wanted
                      /\ requests'[i].task = requests'[j].task
                      => i = j
      BY DEF Queued
    <2>1. ASSUME NEW i \in DOMAIN requests', requests'[i].wanted
          PROVE  pc[requests'[i].task] \in waiting /\ reply'[requests'[i].task] = None
      <3>1. i + 1 \in DOMAIN requests /\ i + 1 # 1 /\ requests[i + 1].wanted
        BY <1>5, <2>1
      <3>2. head.wanted => requests[i + 1].task # head.task
        BY <1>1, <3>1 DEF CInv, Queued
      <3>3. pc[requests[i + 1].task] \in waiting /\ reply[requests[i + 1].task] = None
        BY <3>1 DEF CInv, Queued
      <3> QED
        BY <1>4, <1>5, <1>6, <3>1, <3>2, <3>3
    <2>2. ASSUME NEW i \in DOMAIN requests', NEW j \in DOMAIN requests',
                 requests'[i].wanted /\ requests'[j].wanted, requests'[i].task = requests'[j].task
          PROVE  i = j
      <3>1. i + 1 = j + 1
        BY <1>5, <2>2 DEF CInv, Queued
      <3> QED
        BY <1>5, <3>1
    <2> QED
      BY <2>1, <2>2
  <1> QED
    BY <1>2, <1>3, <1>4, <1>7

\* It is answered with an error, or nobody hears the answer.
LEMMA RefuseStep ==
  ASSUME CInv, requests # <<>>, NEW answer, Respond(Head(requests), answer),
         answer.kind # "ok" \/ ~Head(requests).wanted,
         UNCHANGED <<conns, pc, cache, lock>>
  PROVE  CRest'
  <1> DEFINE head == Head(requests)
  <1> USE Refs DEF CInv
  <1>1. /\ head.task \in Tasks /\ Queued'
        /\ head.wanted => /\ pc[head.task] \in waiting /\ reply[head.task] = None
                          /\ reply'[head.task] = answer
                          /\ \A u \in Tasks \ {head.task} : reply'[u] = reply[u]
        /\ ~head.wanted => reply' = reply
        /\ head.wanted => answer.kind # "ok"
    BY RespondStep
  <1> HIDE DEF head
  <1>2. \A u \in Tasks : Opened(u)' => Opened(u) /\ reply'[u] = reply[u]
    BY <1>1 DEF Opened
  <1>3. \A u \in Tasks : Opened(u) => Opened(u)' /\ reply'[u] = reply[u]
    BY <1>1 DEF Opened
  <1>4. \A u \in Tasks : reply'[u] # None => reply[u] # None \/ pc[u] \in waiting
    BY <1>1
  <1>5. Owned' /\ NoSelfBlock'
    BY <1>2, <1>3 DEF Owned, NoSelfBlock
  <1>6. Cached' /\ Used' /\ Runs'
    BY DEF Cached, Used, Runs
  <1>7. Replied'
    BY <1>2, <1>4 DEF Replied
  <1> QED
    BY <1>1, <1>5, <1>6, <1>7 DEF CRest

\* It is answered with a new connection.
LEMMA AnswerStep ==
  ASSUME CInv, requests # <<>>, NEW ver \in Nat, NEW names \in SUBSET Stores,
         NewConnection(Head(requests), ver, names), Respond(Head(requests), Ok),
         UNCHANGED <<pc, cache, lock>>
  PROVE  CRest'
  <1> DEFINE head == Head(requests)
  <1> USE Refs DEF CInv
  <1>0. PICK t \in Tasks : t = head.task
    BY RespondStep
  <1>1. /\ Queued'
        /\ head.wanted => /\ pc[t] \in waiting /\ reply[t] = None /\ reply'[t] = Ok
                          /\ \A u \in Tasks \ {t} : reply'[u] = reply[u]
        /\ ~head.wanted => reply' = reply
    BY <1>0, RespondStep
  <1>2. CASE head.wanted
    <2>1. Connect(RealmOf[t], ver, names, "open") /\ RealmOf[t] \in Realms \cup {Foreign}
      BY <1>0, <1>1, <1>2 DEF NewConnection
    <2>2. /\ Unused \in Conns /\ conns[Unused] = None /\ conns'[Unused] # None
          /\ conns'[Unused] = [owner |-> RealmOf[t], version |-> ver, stores |-> names,
                               state |-> "open", users |-> {}]
          /\ \A c \in Conns \ {Unused} : conns'[c] = conns[c]
      BY <2>1, ConnectType
    <2>3. /\ conns'[Unused].owner = RealmOf[t] /\ conns'[Unused].state = "open"
          /\ conns'[Unused].users = {} /\ Ok.conn = Unused /\ Ok.kind = "ok"
      BY <2>2 DEF Ok
    <2>4. Ok # None
      BY <2>2, NoneAssumption DEF Ok, Replies
    <2>5. Opened(t)' /\ reply'[t].conn = Unused
      BY <1>1, <1>2, <2>3, <2>4 DEF Opened
    <2>6. \A u \in Tasks \ {t} : /\ (Opened(u)' <=> Opened(u)) /\ reply'[u] = reply[u]
                                 /\ Opened(u) => conns'[reply[u].conn] = conns[reply[u].conn]
                                                 /\ reply[u].conn # Unused
      <3> SUFFICES ASSUME NEW u \in Tasks \ {t}
                   PROVE  /\ (Opened(u)' <=> Opened(u)) /\ reply'[u] = reply[u]
                          /\ Opened(u) => conns'[reply[u].conn] = conns[reply[u].conn]
                                          /\ reply[u].conn # Unused
        OBVIOUS
      <3>1. reply'[u] = reply[u]
        BY <1>1, <1>2
      <3>2. Opened(u)' <=> Opened(u)
        BY <3>1 DEF Opened
      <3>3. Opened(u) => reply[u].conn # Unused /\ reply[u].conn \in Conns
        BY <2>2 DEF Replied
      <3> QED
        BY <2>2, <3>1, <3>2, <3>3
    <2>7. Cached'
      BY <2>2 DEF Cached
    <2>8. Replied'
      BY <1>1, <1>2, <2>2, <2>3, <2>5, <2>6 DEF Replied
    <2>9. Owned'
      <3> SUFFICES ASSUME NEW c \in Conns, conns'[c] # None, conns'[c].owner # Foreign,
                          conns'[c].state \notin {"closing", "dropped"}, \A r \in Realms : cache[r] # None => cache[r].conn # c
                   PROVE  \E u \in Tasks : pc[u] \in waiting /\ Opened(u)' /\ reply'[u].conn = c
        BY DEF Owned
      <3>1. CASE c = Unused
        BY <1>1, <1>2, <2>5, <3>1
      <3>2. CASE c # Unused
        <4>1. PICK u \in Tasks : pc[u] \in waiting /\ Opened(u) /\ reply[u].conn = c
          BY <2>2, <3>2 DEF Owned
        <4>2. u # t
          BY <1>1, <1>2, <4>1 DEF Opened
        <4> QED
          BY <2>6, <4>1, <4>2
      <3> QED
        BY <3>1, <3>2
    <2>10. NoSelfBlock'
      BY <1>1, <1>2, <2>2, <2>3, <2>5, <2>6 DEF NoSelfBlock, Opened
    <2>11. Used' /\ Runs'
      BY <2>2, <2>3 DEF Used, Runs
    <2> QED
      BY <1>1, <2>7, <2>8, <2>9, <2>10, <2>11 DEF CRest
  <1>3. CASE ~head.wanted
    <2>1. Connect(RealmOf[t], ver, names, "dropped") /\ RealmOf[t] \in Realms \cup {Foreign}
          /\ reply' = reply
      BY <1>0, <1>1, <1>3 DEF NewConnection
    <2>7. /\ Unused \in Conns /\ conns[Unused] = None /\ conns'[Unused] # None
          /\ conns'[Unused] = [owner |-> RealmOf[t], version |-> ver, stores |-> names,
                               state |-> "dropped", users |-> {}]
          /\ \A c \in Conns \ {Unused} : conns'[c] = conns[c]
      BY <2>1, ConnectType
    <2>8. conns'[Unused].owner = RealmOf[t] /\ conns'[Unused].state = "dropped" /\ conns'[Unused].users = {}
      BY <2>7
    <2>4. \A u \in Tasks : Opened(u)' <=> Opened(u)
      BY <2>1 DEF Opened
    <2>2. Owned'
      BY <2>1, <2>4, <2>7, <2>8 DEF Owned
    <2>5. NoSelfBlock'
      BY <2>1, <2>4, <2>7, <2>8 DEF NoSelfBlock
    <2>6. Replied'
      BY <2>1, <2>4, <2>7, <2>8 DEF Replied
    <2>3. Cached' /\ Used' /\ Runs'
      BY <2>7, <2>8 DEF Cached, Used, Runs
    <2> QED
      BY <1>1, <2>2, <2>3, <2>5, <2>6 DEF CRest
  <1> QED
    BY <1>2, <1>3

\* Third-party connections come and go, and what was left behind is collected.
LEMMA ForeignStep ==
  ASSUME CInv, UNCHANGED <<requests, pc, cache, lock, reply>>, NEW c \in Conns,
         conns[c] # None => conns[c].owner = Foreign \/ conns[c].state = "dropped",
         \A d \in Conns \ {c} : conns'[d] = conns[d],
         conns'[c] # None => conns'[c].owner = Foreign /\ conns'[c].users = {}
  PROVE  CRest'
  <1> USE Refs DEF CInv
  <1>1. conns[c] # None => conns[c].users = {}
    BY DEF Used
  <1>2. \A u \in Tasks : Opened(u)' <=> Opened(u)
    BY DEF Opened
  <1>3. Cached' /\ Used'
    BY <1>1 DEF Cached, Used
  <1>4. Runs'
    BY <1>1 DEF Runs
  <1>5. Replied'
    BY <1>2 DEF Replied
  <1>6. Owned'
    BY <1>2 DEF Owned
  <1>7. NoSelfBlock'
    BY <1>2 DEF NoSelfBlock
  <1>8. Queued'
    BY DEF Queued
  <1> QED
    BY <1>3, <1>4, <1>5, <1>6, <1>7, <1>8 DEF CRest

\* A realm is reloaded: everything it owned goes at once.
LEMMA ReloadStep ==
  ASSUME CInv, NEW r \in Realms, Reload(r)
  PROVE  CRest'
  <1> USE Refs DEF CInv
  <1>1. /\ \A c \in Conns : conns'[c] = IF conns[c] # None /\ conns[c].owner = r THEN None ELSE conns[c]
        /\ \A t \in Tasks : pc'[t] = IF RealmOf[t] = r THEN "idle" ELSE pc[t]
        /\ \A t \in Tasks : reply'[t] = IF RealmOf[t] = r THEN None ELSE reply[t]
        /\ cache'[r] = None /\ \A q \in Realms \ {r} : cache'[q] = cache[q]
        /\ \A q \in Realms \ {r} : lock'[q] = lock[q]
        /\ "idle" \notin waiting \cup {"txn"}
    BY DEF Reload, TypeOK, waiting
  <1>2. \A t \in Tasks : Opened(t)' <=> RealmOf[t] # r /\ Opened(t)
    BY <1>1 DEF Opened
  <1>3. Cached'
    BY <1>1 DEF Cached
  <1>4. Replied'
    BY <1>1, <1>2 DEF Replied
  <1>5. Owned'
    BY <1>1, <1>2 DEF Owned, Cached, Replied
  <1>6. NoSelfBlock'
    BY <1>1, <1>2 DEF NoSelfBlock
  <1>7. Used'
    BY <1>1 DEF Used
  <1>8. Runs'
    BY <1>1 DEF Runs, Used
  <1>9. Queued'
    <2>1. PICK at \in [DOMAIN requests' -> DOMAIN requests] :
            /\ \A i, j \in DOMAIN requests' : at[i] = at[j] => i = j
            /\ \A i \in DOMAIN requests' : /\ requests'[i] = requests[at[i]]
                                           /\ RealmOf[requests[at[i]].task] # r
      BY WithdrawType DEF Reload
    <2> QED
      BY <1>1, <2>1 DEF Queued
  <1> QED
    BY <1>3, <1>4, <1>5, <1>6, <1>7, <1>8, <1>9 DEF CRest

\* Every step keeps the invariant.
LEMMA CRestNext ==
  ASSUME CInv, Next
  PROVE  CRest'
  <1> USE Refs DEF CInv
  <1>0. "idle" \notin waiting \cup {"txn"} /\ "start" \notin waiting \cup {"txn"}
        /\ "lock" \notin waiting \cup {"txn"} /\ "aborted" \notin waiting \cup {"txn"}
    BY DEF waiting
  <1>a. ASSUME NEW t \in Tasks, Call(t) PROVE CRest'
    <2>1. \A u \in Tasks : Quiet(pc[u], pc'[u])
      BY <1>0, <1>a DEF Call, Goto, Quiet, TypeOK
    <2> QED
      BY <1>a, <2>1, QuietStep DEF Call, realm
  <1>b. ASSUME NEW t \in Tasks, LoseCached(t) PROVE CRest'
    <2>1. pc[t] \in {"start", "lock"}
      BY <1>b DEF LoseCached, Checks
    <2>2. \A u \in Tasks : Quiet(pc[u], pc'[u])
      <3>1. CASE NextAttempt(t)
        BY <1>0, <2>1, <3>1, NextAttemptType DEF Quiet
      <3>2. CASE Goto(t, "idle")
        BY <1>0, <2>1, <3>2 DEF Goto, Quiet, TypeOK
      <3> QED
        BY <1>b, <3>1, <3>2 DEF LoseCached
    <2> QED
      BY <1>b, <2>2, QuietStep DEF LoseCached
  <1>c. ASSUME NEW t \in Tasks, WaitForLock(t) PROVE CRest'
    <2>1. \A u \in Tasks : Quiet(pc[u], pc'[u])
      BY <1>0, <1>c DEF WaitForLock, Goto, Quiet, TypeOK
    <2> QED
      BY <1>c, <2>1, QuietStep DEF WaitForLock
  <1>d. ASSUME NEW t \in Tasks, TransactionAborted(t) PROVE CRest'
    <2>2. \A u \in Tasks : Quiet(pc[u], pc'[u])
      <3>1. CASE NextAttempt(t)
        BY <1>0, <1>d, <3>1, NextAttemptType DEF Quiet, TransactionAborted
      <3>2. CASE Goto(t, "idle")
        BY <1>0, <1>d, <3>2 DEF Goto, Quiet, TypeOK, TransactionAborted
      <3> QED
        BY <1>d, <3>1, <3>2 DEF TransactionAborted
    <2> QED
      BY <1>d, <2>2, QuietStep DEF TransactionAborted
  <1>e. ASSUME NEW t \in Tasks, Probed(t) PROVE CRest'
    <2>1. pc[t] \in waiting /\ "latest" \in waiting
      BY <1>e DEF Probed, waiting
    <2>2. cache[RealmOf[t]] = None
      BY <2>1 DEF NoSelfBlock
    <2>3. conns' = Discarded(t) /\ cache' = cache
      BY <1>e, <2>2 DEF Probed, TypeOK
    <2> QED
      BY <1>e, <2>1, <2>3, DiscardStep DEF Probed
  <1>f. ASSUME NEW t \in Tasks, RequestUpgrade(t) PROVE CRest'
    <2>1. pc[t] \in waiting /\ "upgrade" \in waiting
      BY <1>f DEF RequestUpgrade, waiting
    <2> DEFINE ver == IF Opened(t) THEN conns[reply[t].conn].version + 1 ELSE 1
    <2>2. ver \in Nat
      <3>1. Opened(t) => conns[reply[t].conn] \in Connections
        BY DEF TypeOK, Replied
      <3> QED
        BY <3>1 DEF Connections
    <2>3. Submit(t, ver)
      BY <1>f DEF RequestUpgrade
    <2> HIDE DEF ver
    <2> QED
      BY <1>f, <2>1, <2>2, <2>3, DiscardStep DEF RequestUpgrade, realm
  <1>g. ASSUME NEW t \in Tasks, UpgradeLost(t) PROVE CRest'
    <2>1. pc[t] \in waiting /\ "latest" \in waiting /\ reply[t] # None
      BY <1>g DEF UpgradeLost, Lost, waiting
    <2>2. CASE Goto(t, "latest") /\ Submit(t, 0) /\ UNCHANGED lock
      BY <1>g, <2>1, <2>2, DiscardStep DEF UpgradeLost
    <2>3. CASE Goto(t, "idle") /\ Unlock(t) /\ reply' = [reply EXCEPT ![t] = None] /\ UNCHANGED requests
      <3>1. \A c \in Conns : conns'[c] = (IF Opened(t) /\ reply[t].conn = c THEN None ELSE conns[c])
        BY <1>g, DiscardedType DEF UpgradeLost
      <3> QED
        BY <1>g, <2>1, <2>3, <3>1, LeaveStep DEF UpgradeLost, Unlock
    <2> QED
      BY <1>g, <2>2, <2>3 DEF UpgradeLost
  <1>h. ASSUME NEW t \in Tasks, UpgradeFailed(t) PROVE CRest'
    <2>1. pc[t] \in waiting /\ reply[t] # None /\ ~Opened(t)
      BY <1>h DEF UpgradeFailed, waiting, Opened
    <2> QED
      BY <1>h, <2>1, LeaveStep DEF UpgradeFailed, Unlock
  <1>i. ASSUME NEW t \in Tasks, Timeout(t) PROVE CRest'
    <2>1. pc[t] \in waiting /\ ~Opened(t) /\ reply' = [reply EXCEPT ![t] = None]
      BY <1>i DEF Timeout, waiting, Opened, TypeOK
    <2> QED
      BY <1>i, <2>1, LeaveStep DEF Timeout, Unlock
  <1>j. ASSUME NEW t \in Tasks, Cancel(t) PROVE CRest'
    <2>1. CASE pc[t] \in waiting
      <3>1. \A c \in Conns : IF Opened(t) /\ reply[t].conn = c
                             THEN \/ conns'[c] = None
                                  \/ Same(conns'[c], conns[c]) /\ conns'[c].state = "dropped"
                             ELSE conns'[c] = conns[c]
        BY <1>j, DroppedType DEF Cancel, Replied
      <3> QED
        BY <1>j, <2>1, <3>1, LeaveStep DEF Cancel, Unlock
    <2>2. CASE pc[t] \notin waiting
      <3>1. reply[t] = None /\ pc[t] = "lock" /\ ~Opened(t)
        BY <1>j, <2>2 DEF Cancel, Replied, Opened
      <3>2. UNCHANGED <<conns, cache, lock, reply>> /\ requests' = Unwanted(t)
        BY <1>j, <2>2, <3>1 DEF Cancel, TypeOK
      <3>3. \A u \in Tasks : Quiet(pc[u], pc'[u])
        BY <1>0, <1>j, <3>1 DEF Cancel, Goto, Quiet, TypeOK
      <3> QED
        BY <2>2, <3>2, <3>3, QuietStep
    <2> QED
      BY <2>1, <2>2
  <1>k. ASSUME NEW r \in Realms, Expire(r) PROVE CRest'
    <2>1. \A u \in Tasks : Quiet(pc[u], pc'[u])
      BY <1>k DEF Expire, task, Quiet
    <2>2. \A q \in Realms : /\ cache'[q] = None <=> cache[q] = None
                            /\ cache[q] # None => cache'[q].conn = cache[q].conn
      <3>1. \A q \in Realms \ {r} : cache'[q] = cache[q]
        BY <1>k DEF Expire, TypeOK
      <3>2. cache[r] \in Slots /\ cache'[r] = [cache[r] EXCEPT !.fresh = FALSE]
        BY <1>k DEF Expire, TypeOK
      <3>3. cache'[r] \in Slots /\ cache'[r].conn = cache[r].conn
        BY <3>2 DEF Slots
      <3> QED
        BY <1>k, <3>1, <3>3, NoneAssumption DEF Expire
    <2> QED
      BY <1>k, <2>1, <2>2, QuietStep DEF Expire, task
  <1>l. ASSUME NEW r \in Realms, NEW g \in cleaners[r], Cleanup(r, g) PROVE CRest'
    <2>1. \A u \in Tasks : Quiet(pc[u], pc'[u])
      BY <1>l DEF Cleanup, task, Quiet
    <2> QED
      BY <1>l, <2>1, QuietStep DEF Cleanup, task
  <1>m. ASSUME \/ ServeOpen \/ ServeCreate
               \/ ServeUpgrade /\ Head(requests).wanted
        PROVE  CRest'
    <2> DEFINE head == Head(requests)
    <2>1. requests # <<>> /\ head \in Asked
      BY <1>m, HeadType DEF ServeOpen, ServeCreate, ServeUpgrade
    <2>2. UNCHANGED <<pc, cache, lock>> /\ Respond(head, Ok)
      BY <1>m DEF ServeOpen, ServeCreate, ServeUpgrade, realm
    <2>3. \E ver \in Nat : \E names \in SUBSET Stores : NewConnection(head, ver, names)
      <3>1. CASE ServeOpen
        BY <3>1 DEF ServeOpen, TypeOK
      <3>2. CASE ServeCreate
        BY <3>2 DEF ServeCreate
      <3>3. CASE ServeUpgrade /\ head.wanted
        <4>1. stores' \in SUBSET Stores
          <5>1. head.task \in Tasks /\ Needs[head.task] \subseteq Stores
            BY <2>1 DEF Asked, Stores
          <5>2. stores' = stores \/ stores' = stores \cup Needs[head.task]
            BY <3>3 DEF ServeUpgrade
          <5> QED
            BY <5>1, <5>2 DEF TypeOK
        <4> QED
          BY <2>1, <3>3, <4>1 DEF ServeUpgrade, Asked
      <3> QED
        BY <1>m, <3>1, <3>2, <3>3
    <2> QED
      BY <2>1, <2>2, <2>3, AnswerStep
  <1>r. ASSUME ServeUpgrade, ~Head(requests).wanted PROVE CRest'
    <2>1. requests # <<>> /\ Respond(Head(requests), Ok) /\ UNCHANGED <<conns, pc, cache, lock>>
      BY <1>r DEF ServeUpgrade, realm
    <2> QED
      BY <1>r, <2>1, RefuseStep
  <1>n. ASSUME ServeTooOld \/ ServeError PROVE CRest'
    <2>1. \E answer \in {[kind |-> "too_old"], [kind |-> "err"]} : Respond(Head(requests), answer)
      BY <1>n DEF ServeTooOld, ServeError
    <2> QED
      BY <1>n, <2>1, RefuseStep DEF ServeTooOld, ServeError, realm
  <1>o. ASSUME ForeignOpen PROVE CRest'
    <2>1. Connect(Foreign, version, stores, "open") /\ version \in Nat /\ stores \in SUBSET Stores
      BY <1>o DEF ForeignOpen, TypeOK
    <2>2. /\ Unused \in Conns /\ conns[Unused] = None
          /\ conns'[Unused] = [owner |-> Foreign, version |-> version, stores |-> stores,
                               state |-> "open", users |-> {}]
          /\ \A c \in Conns \ {Unused} : conns'[c] = conns[c]
      BY <2>1, ConnectType
    <2>3. conns'[Unused].owner = Foreign /\ conns'[Unused].users = {}
      BY <2>2
    <2> QED
      BY <1>o, <2>2, <2>3, ForeignStep DEF ForeignOpen, realm, task
  <1>p. ASSUME ForeignClose PROVE CRest'
    <2>1. PICK c \in Conns : conns[c] # None /\ conns[c].owner = Foreign /\ conns' = [conns EXCEPT ![c] = None]
      BY <1>p DEF ForeignClose
    <2>2. conns'[c] = None /\ \A d \in Conns \ {c} : conns'[d] = conns[d]
      BY <2>1 DEF TypeOK
    <2> QED
      BY <1>p, <2>1, <2>2, ForeignStep DEF ForeignClose, realm, task
  <1>s. ASSUME NEW c \in Conns, Collect(c) PROVE CRest'
    <2>1. conns[c].state = "dropped" /\ conns'[c] = None /\ \A d \in Conns \ {c} : conns'[d] = conns[d]
      BY <1>s DEF Collect, TypeOK
    <2> QED
      BY <1>s, <2>1, ForeignStep DEF Collect, realm, task
  <1>q. ASSUME ForeignUpgrade PROVE CRest'
    <2>1. \A u \in Tasks : Quiet(pc[u], pc'[u])
      BY <1>q DEF ForeignUpgrade, Quiet
    <2>2. CASE Realms # {}
      BY <1>q, <2>1, <2>2, QuietStep DEF ForeignUpgrade, realm
    <2>3. CASE Realms = {}
      BY <1>q, <2>3 DEF ForeignUpgrade, realm, CRest, Owned, NoSelfBlock, Cached, Replied, Queued, Used, Runs
    <2> QED
      BY <2>2, <2>3
  <1> QED
    BY <1>a, <1>b, <1>c, <1>d, <1>e, <1>f, <1>g, <1>h, <1>i, <1>j, <1>k, <1>l, <1>m, <1>n, <1>o,
       <1>p, <1>q, <1>r, <1>s, UseCachedStep, OpenClientStep, DeliverStep, EndTransactionStep, ReloadStep,
       ForcedCloseStep DEF Next, Poll, Serve

\* It holds at first.
LEMMA CInvInit == Init => CInv
  <1> SUFFICES ASSUME Init PROVE CInv
    OBVIOUS
  <1> USE TasksAssumption, BoundsAssumption
  <1>1. \A c \in Conns : conns[c] = None
    BY DEF Init
  <1>2. \A t \in Tasks : reply[t] = None /\ pc[t] = "idle"
    BY DEF Init
  <1>3. TypeOK
    BY DEF Init, TypeOK
  <1>4. Owned /\ Cached /\ Used
    BY <1>1 DEF Init, Owned, Cached, Used
  <1>5. NoSelfBlock /\ Replied /\ Runs
    BY <1>2 DEF NoSelfBlock, Replied, Runs, Opened, waiting
  <1>6. Queued
    BY DEF Init, Queued
  <1> QED
    BY <1>3, <1>4, <1>5, <1>6 DEF CInv

\* It is inductive.
LEMMA CInvNext == CInv /\ [Next]_vars => CInv'
  <1> SUFFICES ASSUME CInv, [Next]_vars PROVE CInv'
    OBVIOUS
  <1>1. CASE Next
    <2>1. TypeOK'
      BY <1>1, TypeNext DEF CInv
    <2> QED
      BY <1>1, <2>1, CRestNext DEF CInv, CRest
  <1>2. CASE UNCHANGED vars
    <2> USE <1>2 DEF vars, database, realm, task, CInv
    <2>1. \A t \in Tasks : Opened(t)' <=> Opened(t)
      BY DEF Opened
    <2>2. TypeOK'
      BY DEF TypeOK
    <2>3. Owned'
      BY <2>1 DEF Owned
    <2>4. NoSelfBlock'
      BY <2>1 DEF NoSelfBlock
    <2>5. Cached' /\ Used' /\ Runs'
      BY DEF Cached, Used, Runs
    <2>6. Replied'
      BY <2>1 DEF Replied
    <2>7. Queued'
      BY DEF Queued
    <2> QED
      BY <2>2, <2>3, <2>4, <2>5, <2>6, <2>7
  <1> QED
    BY <1>1, <1>2

\* The invariant of who refers to which connection.
LEMMA ConnectionInvariant == Spec => []CInv
  BY CInvInit, CInvNext, PTL DEF Spec

\* Every variable of the connection cache, the upgrade and IndexedDB's queue keeps its type.
THEOREM TypeCorrect == Spec => []TypeOK
  <1>1. CInv => TypeOK
    BY DEF CInv
  <1> QED
    BY <1>1, ConnectionInvariant, PTL

\* No path of run_transaction, open_client or the cleanup loses a connection
\* that is open, whatever IndexedDB answers and whenever a task is dropped.
THEOREM NothingLeaks == Spec => []NoLeak
  <1>1. CInv => NoLeak
    BY DEF CInv, NoLeak, Owned, Cached, Replied
  <1> QED
    BY <1>1, ConnectionInvariant, PTL

\* While a task is in open_client its realm has no open connection of its own
\* but the one just opened for it.
THEOREM RealmDoesNotBlockItself == Spec => []NoSelfBlock
  <1>1. CInv => NoSelfBlock
    BY DEF CInv
  <1> QED
    BY <1>1, ConnectionInvariant, PTL

\* Every running transaction has a live connection with its stores.
THEOREM StoresWhileRunning == Spec => []TransactionsHaveStores
  <1>1. CInv => TransactionsHaveStores
    <2> SUFFICES ASSUME CInv, NEW t \in Tasks, pc[t] = "txn"
                 PROVE  \E c \in Conns : Live(c) /\ t \in conns[c].users /\ stores_exist_in(t, c)
      BY DEF TransactionsHaveStores
    <2>1. PICK c \in Conns : conns[c] # None /\ t \in conns[c].users
      BY DEF CInv, Runs
    <2>2. conns[c].state # "dead" /\ Needs[t] \subseteq conns[c].stores
      BY <2>1 DEF CInv, Used
    <2> QED
      BY <2>1, <2>2 DEF Live, stores_exist_in
  <1> QED
    BY <1>1, ConnectionInvariant, PTL
---------------------------------------------------------------------------
(* The cache of each realm.                                                *)

\* What a step does to the cache of realm q.
Moves(q) ==
  \/ cache'[q] = cache[q] /\ generation'[q] = generation[q] /\ cleaners'[q] = cleaners[q]
  \/ cache'[q] = None /\ generation'[q] = generation[q] /\ cleaners'[q] = cleaners[q]
  \/ /\ generation'[q] = generation[q] + 1 /\ cleaners'[q] = cleaners[q] \cup {generation[q] + 1}
     /\ cache'[q] # None => cache'[q].gen = generation[q] + 1 /\ cache'[q].fresh = TRUE
  \/ /\ cache[q] # None /\ cache[q].fresh /\ cache'[q] # None
     /\ cache'[q].gen = cache[q].gen /\ cache'[q].fresh = FALSE
     /\ generation'[q] = generation[q] /\ cleaners'[q] = cleaners[q]
  \/ \E g \in cleaners[q] :
       LET current == cache[q] # None /\ cache[q].gen = g
       IN  /\ current => ~cache[q].fresh
           /\ cleaners'[q] = cleaners[q] \ {g} /\ generation'[q] = generation[q]
           /\ cache'[q] = IF current THEN None ELSE cache[q]
  \/ cache'[q] = None /\ generation'[q] = 0 /\ cleaners'[q] = {}

\* Each step is one of these for each realm.
LEMMA CacheMoves ==
  ASSUME CInv, Next, NEW q \in Realms
  PROVE  Moves(q)
  <1> USE Refs DEF CInv
  <1>1. CASE UNCHANGED <<cache, generation, cleaners>>
    BY <1>1 DEF Moves
  <1>2. ASSUME NEW r \in Realms, cache' = [cache EXCEPT ![r] = None], UNCHANGED <<generation, cleaners>>
        PROVE  Moves(q)
    BY <1>2 DEF Moves, TypeOK
  <1>3. ASSUME NEW t \in Tasks, Deliver(t) PROVE Moves(q)
    <2> DEFINE r == RealmOf[t]
               g == generation[r] + 1
               slot == [conn |-> reply[t].conn, gen |-> g, fresh |-> TRUE]
    <2>1. /\ generation' = [generation EXCEPT ![r] = g]
          /\ cleaners' = [cleaners EXCEPT ![r] = @ \cup {g}]
          /\ cache' = [cache EXCEPT ![r] = slot] \/ cache' = [cache EXCEPT ![r] = None]
      BY <1>3 DEF Deliver
    <2>2. slot.gen = g /\ slot.fresh = TRUE
      OBVIOUS
    <2> HIDE DEF slot
    <2>3. CASE q = r
      <3>1. generation'[q] = generation[q] + 1 /\ cleaners'[q] = cleaners[q] \cup {generation[q] + 1}
        BY <2>1, <2>3 DEF TypeOK
      <3>2. cache'[q] = slot \/ cache'[q] = None
        BY <2>1, <2>3 DEF TypeOK
      <3> QED
        BY <2>2, <2>3, <3>1, <3>2 DEF Moves
    <2>4. CASE q # r
      BY <2>1, <2>4 DEF Moves, TypeOK
    <2> QED
      BY <2>3, <2>4
  <1>4. ASSUME NEW r \in Realms, Expire(r) PROVE Moves(q)
    <2>1. CASE q = r
      <3>1. cache[r] \in Slots /\ cache'[r] = [cache[r] EXCEPT !.fresh = FALSE]
        BY <1>4 DEF Expire, TypeOK
      <3>2. cache'[r] \in Slots /\ cache'[r].gen = cache[r].gen /\ cache'[r].fresh = FALSE
        BY <3>1 DEF Slots
      <3> QED
        BY <1>4, <2>1, <3>2, NoneAssumption DEF Expire, Moves
    <2>2. CASE q # r
      BY <1>4, <2>2 DEF Expire, Moves, TypeOK
    <2> QED
      BY <2>1, <2>2
  <1>5. ASSUME NEW r \in Realms, NEW g \in cleaners[r], Cleanup(r, g) PROVE Moves(q)
    <2>1. CASE q = r
      <3>1. /\ (cache[r] # None /\ cache[r].gen = g) => ~cache[r].fresh
            /\ cleaners'[r] = cleaners[r] \ {g} /\ generation'[r] = generation[r]
            /\ cache'[r] = IF cache[r] # None /\ cache[r].gen = g THEN None ELSE cache[r]
        BY <1>5 DEF Cleanup, TypeOK
      <3> QED
        BY <2>1, <3>1 DEF Moves
    <2>2. CASE q # r
      BY <1>5, <2>2 DEF Cleanup, Moves, TypeOK
    <2> QED
      BY <2>1, <2>2
  <1>6. ASSUME NEW r \in Realms, Reload(r) PROVE Moves(q)
    BY <1>6 DEF Reload, Moves, TypeOK
  <1>7. ASSUME NEW t \in Tasks, LoseCached(t) \/ WaitForLock(t) \/ TransactionAborted(t)
        PROVE  Moves(q)
    BY <1>1, <1>2, <1>7 DEF LoseCached, WaitForLock, TransactionAborted
  <1>8. ASSUME NEW t \in Tasks, OpenClient(t) \/ Probed(t) PROVE Moves(q)
    BY <1>2, <1>8 DEF OpenClient, Probed
  <1>9. ASSUME NEW t \in Tasks, Call(t) \/ UseCached(t) \/ RequestUpgrade(t) \/ UpgradeLost(t)
                                \/ UpgradeFailed(t) \/ EndTransaction(t) \/ Timeout(t) \/ Cancel(t)
        PROVE  Moves(q)
    BY <1>1, <1>9 DEF Call, UseCached, RequestUpgrade, UpgradeLost, UpgradeFailed,
                      EndTransaction, Timeout, Cancel, realm
  <1>10. ASSUME Serve \/ ServeError \/ ForeignOpen \/ ForeignClose \/ ForeignUpgrade PROVE Moves(q)
    BY <1>1, <1>10 DEF Serve, ServeOpen, ServeCreate, ServeTooOld, ServeUpgrade, ServeError, ForeignOpen,
                       ForeignClose, ForeignUpgrade, realm
  <1>11. ASSUME NEW c \in Conns, ForcedClose(c) \/ Collect(c) PROVE Moves(q)
    BY <1>1, <1>11 DEF ForcedClose, Collect, realm
  <1> QED
    BY <1>3, <1>4, <1>5, <1>6, <1>7, <1>8, <1>9, <1>10, <1>11 DEF Next, Poll

\* A cached connection keeps a cleanup task that will find it: no later
\* generation, eviction or cleanup of another connection takes it away.
THEOREM CacheWatched == Spec => []CacheIsWatched
  <1>1. Init => CacheIsWatched
    BY DEF Init, CacheIsWatched
  <1>2. CInv /\ CacheIsWatched /\ [Next]_vars => CacheIsWatched'
    <2>1. ASSUME CInv, CacheIsWatched, Next, NEW q \in Realms, cache'[q] # None
          PROVE  cache'[q].gen \in cleaners'[q] /\ cache'[q].gen = generation'[q]
      <3>1. Moves(q)
        BY <2>1, CacheMoves
      <3> QED
        BY <2>1, <3>1 DEF Moves, CacheIsWatched
    <2>2. ASSUME CacheIsWatched, UNCHANGED vars PROVE CacheIsWatched'
      BY <2>2 DEF vars, realm, CacheIsWatched
    <2> QED
      BY <2>1, <2>2 DEF CacheIsWatched
  <1> QED
    BY <1>1, <1>2, ConnectionInvariant, PTL DEF Spec

\* Connection implements ConnectionCache for each realm.
THEOREM CachesImplement == Spec => ImplementsCache
  <1>1. Init => \A r \in Realms : Cache(r)!Init
    BY DEF Init, Cache!Init
  <1>2. CInv /\ CInv' /\ [Next]_vars => [\A r \in Realms : [Cache(r)!Next]_(Cache(r)!vars)]_vars
    <2> SUFFICES ASSUME CInv, CInv', Next, NEW q \in Realms
                 PROVE  [Cache(q)!Next]_(Cache(q)!vars)
      OBVIOUS
    <2> DEFINE slot == IF cache[q] = None THEN None ELSE [gen |-> cache[q].gen, fresh |-> cache[q].fresh]
    <2>1. Moves(q)
      BY CacheMoves
    <2>2. cache[q] # None => slot # None /\ slot.gen = cache[q].gen /\ slot.fresh = cache[q].fresh
      <3>1. cache[q] # None => slot \in [gen: Nat, fresh: BOOLEAN]
        BY DEF CInv, TypeOK, Slots
      <3> QED
        BY <3>1, NoneAssumption
    <2>3. cache'[q] # None => slot' # None /\ slot' = [gen |-> cache'[q].gen, fresh |-> cache'[q].fresh]
      <3>1. cache'[q] # None => slot' \in [gen: Nat, fresh: BOOLEAN]
        BY DEF CInv, TypeOK, Slots
      <3> QED
        BY <3>1, NoneAssumption
    <2>4. (cache[q] = None => slot = None) /\ (cache'[q] = None => slot' = None)
      OBVIOUS
    <2>5. \/ slot' = slot /\ generation'[q] = generation[q] /\ cleaners'[q] = cleaners[q]
          \/ slot' = None /\ generation'[q] = generation[q] /\ cleaners'[q] = cleaners[q]
          \/ /\ generation'[q] = generation[q] + 1 /\ cleaners'[q] = cleaners[q] \cup {generation'[q]}
             /\ slot' \in {None, [gen |-> generation'[q], fresh |-> TRUE]}
          \/ /\ slot # None /\ slot.fresh /\ slot' = [gen |-> slot.gen, fresh |-> FALSE]
             /\ generation'[q] = generation[q] /\ cleaners'[q] = cleaners[q]
          \/ \E g \in cleaners[q] :
               /\ (slot # None /\ slot.gen = g) => ~slot.fresh
               /\ cleaners'[q] = cleaners[q] \ {g} /\ generation'[q] = generation[q]
               /\ slot' = IF slot # None /\ slot.gen = g THEN None ELSE slot
          \/ slot' = None /\ generation'[q] = 0 /\ cleaners'[q] = {}
      <3>1. cache'[q] = cache[q] => slot' = slot
        OBVIOUS
      <3> HIDE DEF slot
      <3> QED
        BY <2>1, <2>2, <2>3, <2>4, <3>1 DEF Moves
    <2> QED
      BY <2>5 DEF Cache!Next, Cache!vars, Cache!Fill, Cache!Drop, Cache!Expire, Cache!Cleanup, Cache!Restart
  <1> QED
    BY <1>1, <1>2, ConnectionInvariant, PTL DEF Spec, ImplementsCache
=============================================================================
