--------------------------- MODULE Upgrade_proofs ---------------------------
(***************************************************************************)
(* The upgrade loop of open_client, in Connection: a task that has to try  *)
(* again has lost against somebody.  That is no invariant on its own: what *)
(* a task has asked for, and what it has been answered, must be compared   *)
(* with the version of the database all the way round the loop.            *)
(***************************************************************************)
EXTENDS Connection_proofs

\* What an upgrade asks for is ahead of the database, and so is what a task
\* will ask for, unless a rival or a failed open explains why not.
Explained(t) == tries[t] < excuses[t]
OnPar(t) ==
  /\ tries[t] <= excuses[t]
  /\ Lost(t) => Explained(t)
  /\ pc[t] = "latest" /\ Opened(t) => conns[reply[t].conn].version >= version \/ Explained(t)
Asks(q) ==
  q.wanted =>
    /\ pc[q.task] = "upgrade" => (q.ver > version /\ version > 0) \/ Explained(q.task)
    /\ pc[q.task] # "upgrade" => q.ver = 0
Ahead ==
  /\ \A c \in Conns : conns[c] # None => version > 0
  /\ \A t \in Tasks : OnPar(t)
  /\ \A i \in DOMAIN requests : Asks(requests[i])
---------------------------------------------------------------------------
\* The step leaves t alone.
Kept(t) == pc'[t] = pc[t] /\ reply'[t] = reply[t] /\ tries'[t] = tries[t] /\ excuses'[t] = excuses[t]

\* A task that the step leaves alone stays on par.
LEMMA OnParKept ==
  ASSUME NEW t \in Tasks, OnPar(t), Kept(t), version' = version,
         Opened(t) => /\ conns'[reply[t].conn].version = conns[reply[t].conn].version
                      /\ conns'[reply[t].conn].stores = conns[reply[t].conn].stores
  PROVE  OnPar(t)'
  <1>1. Opened(t)' <=> Opened(t)
    BY DEF Kept, Opened
  <1>2. Suitable(t)' <=> Suitable(t)
    BY <1>1 DEF Kept, Suitable, stores_exist_in
  <1>3. Lost(t)' <=> Lost(t)
    BY <1>2 DEF Kept, Lost
  <1>4. Explained(t)' <=> Explained(t)
    BY DEF Kept, Explained
  <1>5. Opened(t) => (conns'[reply'[t].conn].version >= version' <=> conns[reply[t].conn].version >= version)
    BY DEF Kept
  <1> QED
    BY <1>1, <1>3, <1>4, <1>5 DEF OnPar, Kept

\* A task without an answer, or with one it need not explain.
LEMMA OnParFresh ==
  ASSUME NEW t \in Tasks, tries'[t] <= excuses'[t], reply'[t] = None
  PROVE  OnPar(t)'
  BY DEF OnPar, Lost, Opened, Explained

\* So does what it asked for.
LEMMA AsksKept ==
  ASSUME TypeOK, NEW q \in Asked, Asks(q), Kept(q.task), version' = version
  PROVE  Asks(q)'
  <1>1. Explained(q.task)' <=> Explained(q.task)
    BY DEF Kept, Explained
  <1> QED
    BY <1>1 DEF Asks, Kept

\* No connection changes its version or its stores.
Steady ==
  \A c \in Conns : conns'[c] # None =>
    /\ version > 0
    /\ conns[c] # None => conns'[c].version = conns[c].version /\ conns'[c].stores = conns[c].stores

\* The version stays: what is asked for was asked for already, or is right.
LEMMA AheadStep ==
  ASSUME CInv, CInv', Ahead, version' = version, Steady,
         \A u \in Tasks : Kept(u) \/ OnPar(u)',
         \A q \in Asked : q.wanted /\ (\E i \in DOMAIN requests' : requests'[i] = q) =>
           \/ Kept(q.task) /\ \E j \in DOMAIN requests : requests[j] = q
           \/ Asks(q)'
  PROVE  Ahead'
  <1> USE Refs DEF CInv
  <1>1. \A c \in Conns : conns'[c] # None => version' > 0
    BY DEF Steady
  <1>2. ASSUME NEW u \in Tasks PROVE OnPar(u)'
    <2>1. CASE Kept(u)
      <3>1. Opened(u) => /\ conns'[reply[u].conn].version = conns[reply[u].conn].version
                         /\ conns'[reply[u].conn].stores = conns[reply[u].conn].stores
        <4>1. Opened(u)' <=> Opened(u)
          BY <2>1 DEF Kept, Opened
        <4>2. Opened(u) => /\ reply[u].conn \in Conns /\ conns'[reply[u].conn] # None
                           /\ conns[reply[u].conn] # None
          BY <2>1, <4>1 DEF Kept, Replied
        <4> QED
          BY <4>2 DEF Steady
      <3> QED
        BY <2>1, <3>1, OnParKept DEF Ahead
    <2>2. CASE ~Kept(u)
      BY <2>2
    <2> QED
      BY <2>1, <2>2
  <1>3. ASSUME NEW q \in Asked, \E i \in DOMAIN requests' : requests'[i] = q PROVE Asks(q)'
    <2>1. CASE ~q.wanted
      BY <2>1 DEF Asks
    <2>2. CASE Kept(q.task) /\ \E j \in DOMAIN requests : requests[j] = q
      <3>1. Asks(q)
        BY <2>2 DEF Ahead
      <3> QED
        BY <2>2, <3>1, AsksKept
    <2> QED
      BY <1>3, <2>1, <2>2
  <1>4. ASSUME NEW i \in DOMAIN requests' PROVE requests'[i] \in Asked
    <2>1. requests' \in Seq(Asked)
      BY DEF TypeOK, Asked
    <2> QED
      BY <1>4, <2>1
  <1>5. (\A i \in DOMAIN requests : Asks(requests[i]))'
    BY <1>3, <1>4 DEF Asks
  <1> QED
    BY <1>1, <1>2, <1>5 DEF Ahead

\* Nobody asks for more, and who is not as before waits for nothing.
LEMMA AheadQuiet ==
  ASSUME CInv, CInv', Ahead, version' = version, Steady,
         \A u \in Tasks : Kept(u) \/ (pc'[u] \notin waiting /\ tries'[u] <= excuses'[u]),
         \A q \in Asked : q.wanted /\ (\E i \in DOMAIN requests' : requests'[i] = q) =>
           \E j \in DOMAIN requests : requests[j] = q
  PROVE  Ahead'
  <1> USE Refs DEF CInv
  <1>1. \A u \in Tasks : Kept(u) \/ OnPar(u)'
    <2>1. \A u \in Tasks : pc'[u] \notin waiting => reply'[u] = None
      BY DEF Replied
    <2> QED
      BY <2>1, OnParFresh
  <1>2. ASSUME NEW q \in Asked, q.wanted, \E i \in DOMAIN requests' : requests'[i] = q
        PROVE  Kept(q.task) /\ \E j \in DOMAIN requests : requests[j] = q
    <2>1. pc'[q.task] \in waiting /\ q.task \in Tasks
      BY <1>2 DEF Queued, Asked
    <2> QED
      BY <1>2, <2>1
  <1> QED
    BY <1>1, <1>2, AheadStep

\* A step that adds no request.
LEMMA SameRequests ==
  ASSUME TypeOK, requests' = requests \/ \E t \in Tasks : requests' = Unwanted(t)
  PROVE  \A q \in Asked : q.wanted /\ (\E i \in DOMAIN requests' : requests'[i] = q) =>
           \E j \in DOMAIN requests : requests[j] = q
  <1>1. CASE requests' = requests
    BY <1>1
  <1>2. ASSUME NEW t \in Tasks, requests' = Unwanted(t), NEW q \in Asked, q.wanted,
               NEW i \in DOMAIN requests', requests'[i] = q
        PROVE  requests[i] = q /\ i \in DOMAIN requests
    <2>1. i \in DOMAIN requests /\ requests[i].task # t
      BY <1>2, UnwantedType
    <2> QED
      BY <1>2, <2>1 DEF Unwanted
  <1> QED
    BY <1>1, <1>2

\* t asks IndexedDB again.
LEMMA AheadSubmit ==
  ASSUME CInv, CInv', Ahead, version' = version, Steady, NEW t \in Tasks, NEW ver \in Nat,
         Submit(t, ver), pc[t] \notin waiting \/ reply[t] # None,
         \A u \in Tasks \ {t} : pc'[u] = pc[u] /\ tries'[u] = tries[u] /\ excuses'[u] = excuses[u],
         tries'[t] <= excuses'[t],
         IF pc'[t] = "upgrade" THEN (ver > version /\ version > 0) \/ tries'[t] < excuses'[t] ELSE ver = 0
  PROVE  Ahead'
  <1> USE Refs DEF CInv
  <1>1. reply'[t] = None /\ \A u \in Tasks \ {t} : reply'[u] = reply[u]
    BY DEF Submit, TypeOK
  <1>2. \A u \in Tasks \ {t} : Kept(u)
    BY <1>1 DEF Kept
  <1>3. OnPar(t)'
    BY <1>1, OnParFresh
  <1>4. ASSUME NEW q \in Asked, q.wanted, NEW i \in DOMAIN requests', requests'[i] = q
        PROVE  \/ Kept(q.task) /\ \E j \in DOMAIN requests : requests[j] = q
               \/ Asks(q)'
    <2>1. requests' = Append(requests, [task |-> t, ver |-> ver, wanted |-> TRUE])
          /\ requests \in Seq(Asked)
      BY DEF Submit, TypeOK, Asked
    <2>2. CASE i = Len(requests) + 1
      <3>1. q = [task |-> t, ver |-> ver, wanted |-> TRUE]
        BY <1>4, <2>1, <2>2
      <3>2. q.task = t /\ q.ver = ver
        BY <3>1
      <3> QED
        BY <3>2 DEF Asks, Explained
    <2>3. CASE i # Len(requests) + 1
      <3>1. i \in DOMAIN requests /\ requests[i] = q
        BY <1>4, <2>1, <2>3
      <3>2. q.task \in Tasks /\ q.task # t
        BY <1>4, <3>1 DEF Queued, Asked
      <3> QED
        BY <1>2, <3>1, <3>2
    <2> QED
      BY <2>2, <2>3
  <1> QED
    BY <1>2, <1>3, <1>4, AheadStep

\* The version is raised: everybody who may lose is excused, and t, if it is
\* the one that asked, has an answer.
LEMMA AheadRival ==
  ASSUME CInv, CInv', Ahead, version' > 0, NEW t, pc' = pc, tries' = tries,
         \A u \in Tasks \ {t} :
           /\ tries'[u] <= excuses'[u]
           /\ pc[u] \in {"latest", "upgrade"} => tries'[u] < excuses'[u],
         t \in Tasks => OnPar(t)',
         \A q \in Asked : q.wanted /\ (\E i \in DOMAIN requests' : requests'[i] = q) =>
           q.task # t /\ \E j \in DOMAIN requests : requests[j] = q
  PROVE  Ahead'
  <1> USE Refs DEF CInv
  <1>1. \A u \in Tasks : OnPar(u)'
    BY DEF OnPar, Lost, Explained
  <1>2. ASSUME NEW q \in Asked, \E i \in DOMAIN requests' : requests'[i] = q PROVE Asks(q)'
    <2>1. CASE ~q.wanted
      BY <2>1 DEF Asks
    <2>2. CASE q.wanted
      <3>1. q.task \in Tasks \ {t} /\ Asks(q)
        BY <1>2, <2>2 DEF Ahead, Asked
      <3> QED
        BY <2>2, <3>1 DEF Asks, Explained
    <2> QED
      BY <2>1, <2>2
  <1>3. ASSUME NEW i \in DOMAIN requests' PROVE requests'[i] \in Asked
    <2>1. requests' \in Seq(Asked)
      BY DEF TypeOK, Asked
    <2> QED
      BY <1>3, <2>1
  <1>4. (\A i \in DOMAIN requests : Asks(requests[i]))'
    BY <1>2, <1>3 DEF Asks
  <1> QED
    BY <1>1, <1>4 DEF Ahead

\* A connection that is closed, or whose users change, is the same connection.
LEMMA EvictedSteady ==
  ASSUME CInv, Ahead, NEW r \in Realms
  PROVE  \A c \in Conns : evicted(r)[c] # None =>
           /\ conns[c] # None /\ version > 0
           /\ evicted(r)[c].version = conns[c].version /\ evicted(r)[c].stores = conns[c].stores
  <1> USE DEF CInv
  <1>1. CASE cache[r] = None
    BY <1>1, EvictedType DEF Ahead
  <1>2. CASE cache[r] # None
    BY <1>2, Evicts DEF Ahead, Same, Cached
  <1> QED
    BY <1>1, <1>2

\* Closing and evicting connections is steady.
LEMMA SteadyType ==
  ASSUME CInv, Ahead
  PROVE  /\ conns' = conns => Steady
         /\ \A r \in Realms : conns' = evicted(r) => Steady
         /\ \A t \in Tasks : conns' = Discarded(t) => Steady
         /\ (\A c \in Conns : conns'[c] # None => conns'[c] = conns[c]) => Steady
  BY EvictedSteady, DiscardedType DEF Steady, Ahead, CInv

\* An open, or a request that is too old or fails, is answered.
LEMMA AheadServe ==
  ASSUME CInv, CInv', Ahead, ServeOpen \/ ServeTooOld \/ ServeError
  PROVE  Ahead'
  <1> USE Refs DEF CInv
  <1> DEFINE head == Head(requests)
  <1>1. requests # <<>> /\ head \in Asked /\ head = requests[1] /\ 1 \in DOMAIN requests
    BY HeadType DEF ServeOpen, ServeTooOld, ServeError
  <1>2. PICK answer : /\ Respond(head, answer)
                      /\ \/ ServeOpen /\ answer = Ok
                         \/ ServeTooOld /\ answer.kind = "too_old"
                         \/ ServeError /\ answer.kind = "err"
    BY DEF ServeOpen, ServeTooOld, ServeError
  <1>3. UNCHANGED <<version, pc, tries, excuses>>
    BY DEF ServeOpen, ServeTooOld, ServeError, database, realm
  <1>4. PICK t \in Tasks : t = head.task
    BY <1>1 DEF Asked
  <1>5. /\ head.wanted => /\ pc[t] \in waiting /\ reply[t] = None /\ reply'[t] = answer
                          /\ \A u \in Tasks \ {t} : reply'[u] = reply[u]
        /\ ~head.wanted => reply' = reply
    BY <1>1, <1>2, <1>3, <1>4, RespondStep
  <1>6. \A u \in Tasks : u # t \/ ~head.wanted => Kept(u)
    BY <1>3, <1>5 DEF Kept
  <1>7. Steady
    <2>1. CASE ServeTooOld \/ ServeError
      BY <2>1, SteadyType DEF ServeTooOld, ServeError
    <2>2. CASE ServeOpen
      <3>1. version > 0 /\ NewConnection(head, version, stores) /\ version \in Nat /\ stores \in SUBSET Stores
        BY <2>2 DEF ServeOpen, TypeOK
      <3>2. /\ \E state \in {"open", "dropped"} : Connect(RealmOf[t], version, stores, state)
            /\ RealmOf[t] \in Realms \cup {Foreign}
        BY <1>4, <3>1 DEF NewConnection
      <3>3. Unused \in Conns /\ conns[Unused] = None /\ \A c \in Conns \ {Unused} : conns'[c] = conns[c]
        BY <3>1, <3>2, ConnectType
      <3> QED
        BY <3>1, <3>3 DEF Steady
    <2> QED
      BY <2>1, <2>2
  <1>8. head.wanted => OnPar(t)'
    <2> SUFFICES ASSUME head.wanted PROVE OnPar(t)'
      OBVIOUS
    <2>1. tries'[t] <= excuses'[t] /\ Asks(head) /\ OnPar(t)
      BY <1>1, <1>3 DEF Ahead, OnPar
    <2>2. CASE ServeOpen /\ answer = Ok
      <3>1. version \in Nat /\ head.ver \in {0, version} /\ NewConnection(head, version, stores)
            /\ stores \in SUBSET Stores
        BY <2>2 DEF ServeOpen, TypeOK
      <3>2. Connect(RealmOf[t], version, stores, "open") /\ RealmOf[t] \in Realms \cup {Foreign}
        BY <1>4, <3>1 DEF NewConnection
      <3>3. conns'[Unused] = [owner |-> RealmOf[t], version |-> version, stores |-> stores,
                              state |-> "open", users |-> {}]
        BY <3>1, <3>2, ConnectType
      <3>4. reply'[t] = Ok /\ Ok.conn = Unused /\ conns'[Unused].version = version
        BY <1>2, <1>5, <2>2, <3>3 DEF Ok
      <3>5. pc[t] = "upgrade" => Explained(t)
        BY <1>4, <2>1, <3>1 DEF Asks
      <3>6. Explained(t)' <=> Explained(t)
        BY <1>3 DEF Explained
      <3>7. conns'[reply'[t].conn].version >= version'
        BY <1>3, <3>1, <3>4
      <3> QED
        BY <1>3, <2>1, <3>5, <3>6, <3>7 DEF OnPar, Lost
    <2>3. CASE ServeTooOld /\ answer.kind = "too_old"
      <3>1. head.ver # 0 /\ head.ver < version /\ version \in Nat /\ head.ver \in Nat
        BY <1>1, <2>3 DEF ServeTooOld, TypeOK, Asked
      <3>2. Explained(t)
        BY <1>4, <2>1, <3>1 DEF Asks
      <3>3. Explained(t)'
        BY <1>3, <3>2 DEF Explained
      <3> QED
        BY <2>1, <3>3 DEF OnPar
    <2>4. CASE ServeError /\ answer.kind = "err"
      <3>1. reply'[t].kind = "err"
        BY <1>2, <1>5, <2>4
      <3>2. ~Lost(t)' /\ ~Opened(t)'
        BY <3>1 DEF Lost, Opened
      <3> QED
        BY <2>1, <3>2 DEF OnPar
    <2> QED
      BY <1>2, <2>2, <2>3, <2>4
  <1>9. ASSUME NEW q \in Asked, q.wanted, NEW i \in DOMAIN requests', requests'[i] = q
        PROVE  Kept(q.task) /\ \E j \in DOMAIN requests : requests[j] = q
    <2>1. requests' = Tail(requests)
      BY <1>2 DEF Respond
    <2>2. i \in Nat \ {0} /\ i + 1 \in DOMAIN requests /\ q = requests[i + 1]
      BY <1>1, <1>9, <2>1, HeadType
    <2>3. q.task \in Tasks
      BY DEF Asked
    <2>4. head.wanted => q.task # t
      BY <1>1, <1>4, <1>9, <2>2 DEF Queued
    <2> QED
      BY <1>6, <2>2, <2>3, <2>4
  <1> QED
    BY <1>3, <1>6, <1>7, <1>8, <1>9, AheadStep

\* The database is created by an open: nobody had a connection.
LEMMA AheadCreate ==
  ASSUME CInv, CInv', Ahead, ServeCreate
  PROVE  Ahead'
  <1> USE Refs DEF CInv
  <1> DEFINE head == Head(requests)
  <1>1. head \in Asked /\ head = requests[1] /\ 1 \in DOMAIN requests /\ requests # <<>>
    BY HeadType DEF ServeCreate
  <1>2. /\ version = 0 /\ version' = 1 /\ head.ver = 0 /\ Respond(head, Ok)
        /\ NewConnection(head, 1, {}) /\ UNCHANGED <<pc, tries, excuses>>
    BY DEF ServeCreate
  <1>3. \A u \in Tasks : ~Opened(u)
    BY <1>2 DEF Ahead, Replied
  <1>4. PICK t \in Tasks : t = head.task
    BY <1>1 DEF Asked
  <1>5. /\ head.wanted => /\ reply'[t] = Ok /\ \A u \in Tasks \ {t} : reply'[u] = reply[u]
        /\ ~head.wanted => reply' = reply
    BY <1>1, <1>2, <1>4, RespondStep
  <1>6. \A u \in Tasks : Explained(u)' <=> Explained(u)
    BY <1>2 DEF Explained
  <1>7. ASSUME NEW u \in Tasks, u # t \/ ~head.wanted PROVE OnPar(u)'
    <2>1. reply'[u] = reply[u] /\ ~Opened(u)'
      BY <1>3, <1>5, <1>7 DEF Opened
    <2>2. Lost(u)' => Lost(u)
      BY <1>2, <1>3, <2>1 DEF Lost, Suitable
    <2>3. OnPar(u)
      BY DEF Ahead
    <2> QED
      BY <1>2, <1>6, <2>1, <2>2, <2>3 DEF OnPar
  <1>8. ASSUME head.wanted PROVE OnPar(t)'
    <2>1. Connect(RealmOf[t], 1, {}, "open") /\ RealmOf[t] \in Realms \cup {Foreign}
      BY <1>2, <1>4, <1>8 DEF NewConnection
    <2>2. conns'[Unused] = [owner |-> RealmOf[t], version |-> 1, stores |-> {},
                            state |-> "open", users |-> {}]
      BY <2>1, ConnectType
    <2>3. conns'[reply'[t].conn].version >= version'
      BY <1>2, <1>5, <1>8, <2>2 DEF Ok
    <2>4. Asks(head) /\ OnPar(t)
      BY <1>1 DEF Ahead
    <2>5. pc[t] = "upgrade" => Explained(t)
      BY <1>2, <1>4, <1>8, <2>4 DEF Asks
    <2> QED
      BY <1>2, <1>6, <2>3, <2>4, <2>5 DEF OnPar, Lost
  <1>9. ASSUME NEW q \in Asked, \E i \in DOMAIN requests' : requests'[i] = q PROVE Asks(q)'
    <2>1. requests' = Tail(requests)
      BY <1>2 DEF Respond
    <2>2. \E j \in DOMAIN requests : requests[j] = q
      BY <1>1, <1>9, <2>1, HeadType
    <2>3. Asks(q) /\ q.task \in Tasks
      BY <2>2 DEF Ahead, Asked
    <2>4. pc'[q.task] = pc[q.task] /\ (Explained(q.task)' <=> Explained(q.task))
      BY <1>2, <1>6, <2>3
    <2> QED
      BY <1>2, <2>3, <2>4 DEF Asks
  <1>10. ASSUME NEW i \in DOMAIN requests' PROVE requests'[i] \in Asked
    <2>1. requests' \in Seq(Asked)
      BY DEF TypeOK, Asked
    <2> QED
      BY <1>10, <2>1
  <1>11. (\A i \in DOMAIN requests : Asks(requests[i]))'
    BY <1>9, <1>10 DEF Asks
  <1> QED
    BY <1>2, <1>7, <1>8, <1>11 DEF Ahead

\* An upgrade is made for the task that asked, or rolled back if it is not wanted.
LEMMA AheadUpgrade ==
  ASSUME CInv, CInv', Ahead, ServeUpgrade
  PROVE  Ahead'
  <1> USE Refs DEF CInv
  <1> DEFINE head == Head(requests)
  <1>1. head \in Asked /\ head = requests[1] /\ 1 \in DOMAIN requests /\ requests # <<>>
    BY HeadType DEF ServeUpgrade
  <1>2. /\ head.ver > version /\ Respond(head, Ok)
        /\ head.wanted => NewConnection(head, head.ver, stores')
        /\ UNCHANGED <<pc, tries>> /\ version \in Nat /\ head.ver \in Nat
    BY <1>1 DEF ServeUpgrade, TypeOK, Asked
  <1>3. PICK t \in Tasks : t = head.task
    BY <1>1 DEF Asked
  <1>4. /\ head.wanted => /\ pc[t] \in waiting /\ reply'[t] = Ok /\ \A u \in Tasks \ {t} : reply'[u] = reply[u]
        /\ ~head.wanted => reply' = reply
    BY <1>1, <1>2, <1>3, RespondStep
  <1>5. ASSUME NEW q \in Asked, q.wanted, NEW i \in DOMAIN requests', requests'[i] = q
        PROVE  /\ \E j \in DOMAIN requests : requests[j] = q
               /\ head.wanted => q.task # t
    <2>1. requests' = Tail(requests)
      BY <1>2 DEF Respond
    <2>2. i \in Nat \ {0} /\ i + 1 \in DOMAIN requests /\ q = requests[i + 1]
      BY <1>1, <1>5, <2>1, HeadType
    <2> QED
      BY <1>1, <1>3, <1>5, <2>2 DEF Queued
  <1>6. CASE head.wanted
    <2>1. version' = head.ver /\ stores' = stores \cup Needs[t] /\ Excuse(t)
      BY <1>3, <1>6 DEF ServeUpgrade
    <2>2. \A u \in Tasks : tries[u] \in Nat /\ excuses[u] \in Nat /\ tries[u] <= excuses[u]
      BY DEF Ahead, OnPar, TypeOK
    <2>3. \A u \in Tasks \ {t} : /\ tries'[u] <= excuses'[u]
                                 /\ pc[u] \in {"latest", "upgrade"} => tries'[u] < excuses'[u]
      BY <1>2, <2>1, <2>2 DEF Excuse
    <2>4. OnPar(t)'
      <3>1. Connect(RealmOf[t], head.ver, stores', "open") /\ RealmOf[t] \in Realms \cup {Foreign}
        BY <1>2, <1>3, <1>6 DEF NewConnection
      <3>2. stores' \in SUBSET Stores
        BY DEF TypeOK
      <3>3. conns'[Unused] = [owner |-> RealmOf[t], version |-> head.ver, stores |-> stores',
                              state |-> "open", users |-> {}]
        BY <1>2, <3>1, <3>2, ConnectType
      <3>4. /\ conns'[reply'[t].conn].version = head.ver
            /\ Needs[t] \subseteq conns'[reply'[t].conn].stores
        BY <1>4, <1>6, <2>1, <3>3 DEF Ok
      <3>5. Ok # None /\ Ok.kind = "ok"
        BY <3>1, UnusedType, NoneAssumption DEF Ok, Replies, Connect
      <3>6. Suitable(t)'
        BY <1>4, <1>6, <3>4, <3>5 DEF Suitable, Opened, stores_exist_in
      <3>7. tries'[t] <= excuses'[t]
        BY <1>2, <2>1, <2>2 DEF Excuse
      <3> QED
        BY <1>2, <2>1, <3>4, <3>6, <3>7 DEF OnPar, Lost
    <2> QED
      BY <1>2, <1>5, <1>6, <2>1, <2>3, <2>4, AheadRival
  <1>7. CASE ~head.wanted
    <2>1. UNCHANGED <<version, excuses, conns>>
      BY <1>7 DEF ServeUpgrade
    <2>2. \A u \in Tasks : Kept(u)
      BY <1>2, <1>4, <1>7, <2>1 DEF Kept
    <2>3. Steady
      BY <2>1, SteadyType
    <2> QED
      BY <1>5, <2>1, <2>2, <2>3, AheadQuiet
  <1> QED
    BY <1>6, <1>7

\* Third-party code upgrades the database.
LEMMA AheadForeign ==
  ASSUME CInv, CInv', Ahead, ForeignUpgrade
  PROVE  Ahead'
  <1> USE Refs DEF CInv
  <1>1. /\ version' = version + 1 /\ version \in Nat /\ Excuse(None) /\ None \notin Tasks
        /\ UNCHANGED <<pc, tries, requests>>
    BY DEF ForeignUpgrade, TypeOK
  <1>2. \A u \in Tasks : tries[u] \in Nat /\ excuses[u] \in Nat /\ tries[u] <= excuses[u]
    BY DEF Ahead, OnPar, TypeOK
  <1>3. \A u \in Tasks : /\ tries'[u] <= excuses'[u]
                         /\ pc[u] \in {"latest", "upgrade"} => tries'[u] < excuses'[u]
    BY <1>1, <1>2 DEF Excuse
  <1>4. \A q \in Asked : q.task # None
    BY <1>1 DEF Asked
  <1> QED
    BY <1>1, <1>3, <1>4, AheadRival

\* Steps of tasks that go on, or give up, without asking.
LEMMA AheadTask ==
  ASSUME CInv, CInv', Ahead, NEW t \in Tasks,
         \/ Call(t) \/ UseCached(t) \/ LoseCached(t) \/ WaitForLock(t) \/ TransactionAborted(t)
         \/ EndTransaction(t) \/ Deliver(t) \/ UpgradeFailed(t) \/ Timeout(t) \/ Cancel(t)
  PROVE  Ahead'
  <1> USE Refs DEF CInv
  <1>1. version' = version
    BY DEF Call, UseCached, LoseCached, WaitForLock, TransactionAborted, EndTransaction, Deliver,
           UpgradeFailed, Timeout, Cancel, database
  <1>2. requests' = requests \/ requests' = Unwanted(t)
    BY DEF Call, UseCached, LoseCached, WaitForLock, TransactionAborted, EndTransaction, Deliver,
           UpgradeFailed, Timeout, Cancel
  <1>11. NextAttempt(t) \/ \E p \in {"idle", "start", "lock", "txn"} : Goto(t, p)
    BY DEF Call, UseCached, LoseCached, WaitForLock, TransactionAborted, EndTransaction, Deliver,
           UpgradeFailed, Timeout, Cancel
  <1>12. reply' = reply \/ reply' = [reply EXCEPT ![t] = None]
    BY DEF Call, UseCached, LoseCached, WaitForLock, TransactionAborted, EndTransaction, Deliver,
           UpgradeFailed, Timeout, Cancel
  <1>3. \A u \in Tasks \ {t} : pc'[u] = pc[u] /\ reply'[u] = reply[u]
    BY <1>11, <1>12, NextAttemptType DEF Goto, TypeOK
  <1>4. pc'[t] \notin waiting
    BY <1>11, NextAttemptType DEF Goto, TypeOK, waiting
  <1>5. UNCHANGED <<tries, excuses>> \/ Unlock(t)
    BY DEF Call, UseCached, LoseCached, WaitForLock, TransactionAborted, EndTransaction, Deliver,
           UpgradeFailed, Timeout, Cancel
  <1>6. /\ \A u \in Tasks \ {t} : tries'[u] = tries[u] /\ excuses'[u] = excuses[u]
        /\ tries'[t] <= excuses'[t]
    <2>1. tries[t] <= excuses[t]
      BY DEF Ahead, OnPar
    <2> QED
      BY <1>5, <2>1, UnlockType
  <1>7. Steady
    <2>1. CASE Call(t) \/ LoseCached(t) \/ WaitForLock(t) \/ TransactionAborted(t) \/ UpgradeFailed(t)
               \/ Timeout(t)
      BY <2>1, SteadyType DEF Call, LoseCached, WaitForLock, TransactionAborted, UpgradeFailed, Timeout
    <2>2. CASE Cancel(t)
      <3>1. CASE Opened(t)
        <4>1. \A c \in Conns : conns'[c] # None => conns'[c] = conns[c] \/ Same(conns'[c], conns[c])
          BY <2>2, <3>1, DroppedType DEF Cancel, Replied
        <4> QED
          BY <4>1 DEF Steady, Ahead, Same
      <3>2. CASE ~Opened(t)
        BY <2>2, <3>2, SteadyType DEF Cancel
      <3> QED
        BY <3>1, <3>2
    <2>3. ASSUME NEW c \in Conns, conns[c] # None, NEW users \in SUBSET Tasks
          PROVE  /\ [conns[c] EXCEPT !.users = users].version = conns[c].version
                 /\ [conns[c] EXCEPT !.users = users].stores = conns[c].stores
      <3>1. conns[c] \in Connections
        BY <2>3 DEF TypeOK
      <3> QED
        BY <3>1, UsersSet, Zenon
    <2>4. CASE UseCached(t)
      <3> DEFINE c == cache[RealmOf[t]].conn
                 e == [conns[c] EXCEPT !.users = conns[c].users \cup {t}]
      <3>1. c \in Conns /\ conns[c] # None /\ conns[c].users \cup {t} \in SUBSET Tasks
        BY <2>4 DEF UseCached, cached_client_has_stores, Cached
      <3>2. e.version = conns[c].version /\ e.stores = conns[c].stores
        BY <2>3, <3>1, Zenon
      <3>3. conns' = [conns EXCEPT ![c] = e]
        BY <2>4 DEF UseCached
      <3> HIDE DEF e, c
      <3> QED
        BY <3>1, <3>2, <3>3 DEF Steady, Ahead, TypeOK
    <2>5. CASE EndTransaction(t)
      <3> SUFFICES ASSUME NEW c \in Conns, conns'[c] # None
                   PROVE  /\ version > 0
                          /\ conns'[c].version = conns[c].version /\ conns'[c].stores = conns[c].stores
        BY DEF Steady
      <3> DEFINE e == [conns[c] EXCEPT !.users = conns[c].users \ {t}]
      <3>1. conns[c] # None /\ (conns'[c] = conns[c] \/ conns'[c] = e)
        BY <2>5 DEF EndTransaction
      <3>2. conns[c].users \ {t} \in SUBSET Tasks
        BY <3>1
      <3>3. e.version = conns[c].version /\ e.stores = conns[c].stores
        BY <2>3, <3>1, <3>2, Zenon
      <3> HIDE DEF e
      <3> QED
        BY <3>1, <3>3 DEF Ahead
    <2>6. CASE Deliver(t)
      <3> DEFINE c == reply[t].conn
                 e == [conns[c] EXCEPT !.users = {t}]
      <3>1. c \in Conns /\ conns[c] # None /\ cache[RealmOf[t]] = None /\ evicted(RealmOf[t]) = conns
        BY <2>6 DEF Deliver, Suitable, Replied, NoSelfBlock, evicted
      <3>2. e.version = conns[c].version /\ e.stores = conns[c].stores
        BY <2>3, <3>1, Zenon
      <3>3. \/ conns' = [conns EXCEPT ![c] = e] \/ conns' = [conns EXCEPT ![c] = None] \/ conns' = conns
        <4>1. \/ conns' = [evicted(RealmOf[t]) EXCEPT ![c].users = {t}]
              \/ conns' = [evicted(RealmOf[t]) EXCEPT ![c] = None]
              \/ conns' = evicted(RealmOf[t])
          BY <2>6, Zenon DEF Deliver
        <4> QED
          BY <3>1, <4>1
      <3> HIDE DEF e, c
      <3> QED
        BY <3>1, <3>2, <3>3 DEF Steady, Ahead, TypeOK
    <2> QED
      BY <2>1, <2>2, <2>4, <2>5, <2>6
  <1>8. \A u \in Tasks : Kept(u) \/ (pc'[u] \notin waiting /\ tries'[u] <= excuses'[u])
    BY <1>3, <1>4, <1>6 DEF Kept
  <1> QED
    BY <1>1, <1>2, <1>7, <1>8, SameRequests, AheadQuiet

\* Steps in which a task asks IndexedDB, and that of giving up the loop.
LEMMA AheadLoop ==
  ASSUME CInv, CInv', Ahead, NEW t \in Tasks,
         OpenClient(t) \/ Probed(t) \/ RequestUpgrade(t) \/ UpgradeLost(t)
  PROVE  Ahead'
  <1> USE Refs DEF CInv
  <1>1. tries[t] \in Nat /\ excuses[t] \in Nat /\ OnPar(t) /\ tries[t] <= excuses[t]
    BY DEF TypeOK, Ahead, OnPar
  <1>2. CASE OpenClient(t)
    <2>1. /\ version' = version /\ Submit(t, 0) /\ pc[t] \notin waiting /\ pc'[t] = "probe"
          /\ \A u \in Tasks \ {t} : pc'[u] = pc[u]
          /\ UNCHANGED <<tries, excuses>>
      BY <1>2 DEF OpenClient, database, waiting, Goto, TypeOK
    <2>2. Steady
      BY <1>2, SteadyType DEF OpenClient
    <2> QED
      BY <1>1, <2>1, <2>2, AheadSubmit
  <1>3. CASE Probed(t)
    <2>1. /\ version' = version /\ Submit(t, 0) /\ reply[t] # None /\ pc'[t] = "latest"
          /\ \A u \in Tasks \ {t} : pc'[u] = pc[u]
          /\ UNCHANGED <<tries, excuses>>
      BY <1>3 DEF Probed, database, Goto, TypeOK
    <2>2. pc[t] \in waiting
      BY <1>3 DEF Probed, waiting
    <2>3. conns' = Discarded(t)
      BY <1>3, <2>2 DEF Probed, NoSelfBlock
    <2>4. Steady
      BY <2>3, SteadyType
    <2> QED
      BY <1>1, <2>1, <2>4, AheadSubmit
  <1>4. CASE RequestUpgrade(t)
    <2> DEFINE ver == IF Opened(t) THEN conns[reply[t].conn].version + 1 ELSE 1
    <2>1. /\ version' = version /\ Submit(t, ver) /\ reply[t] # None /\ pc[t] = "latest" /\ pc'[t] = "upgrade"
          /\ \A u \in Tasks \ {t} : pc'[u] = pc[u]
          /\ tries' = tries
          /\ excuses' = [excuses EXCEPT ![t] = @ + (IF Opened(t) THEN 0 ELSE 1)]
      BY <1>4 DEF RequestUpgrade, database, Goto, TypeOK
    <2>2. Steady
      BY <1>4, SteadyType DEF RequestUpgrade
    <2>3. /\ \A u \in Tasks \ {t} : excuses'[u] = excuses[u]
          /\ excuses'[t] = excuses[t] + (IF Opened(t) THEN 0 ELSE 1)
      <3> DEFINE n == excuses[t] + (IF Opened(t) THEN 0 ELSE 1)
      <3>1. excuses' = [excuses EXCEPT ![t] = n] /\ excuses \in [Tasks -> Nat]
        BY <2>1 DEF TypeOK
      <3> HIDE DEF n
      <3>2. excuses'[t] = n /\ \A u \in Tasks \ {t} : excuses'[u] = excuses[u]
        BY <3>1
      <3> QED
        BY <3>2 DEF n
    <2>4. CASE Opened(t)
      <3>1. reply[t].conn \in Conns /\ conns[reply[t].conn] \in Connections /\ version \in Nat
        <4>1. reply[t].conn \in Conns /\ conns[reply[t].conn] # None
          BY <2>4 DEF Replied, Opened
        <4>2. conns \in [Conns -> Connections \cup {None}] /\ version \in Nat
          BY DEF TypeOK
        <4> QED
          BY <4>1, <4>2
      <3>2. conns[reply[t].conn].version \in Nat /\ conns[reply[t].conn] # None
        BY <2>4, <3>1 DEF Connections, Replied
      <3>3. version > 0
        BY <3>1, <3>2 DEF Ahead
      <3>4. ver \in Nat /\ (ver > version \/ tries[t] < excuses[t])
        BY <1>1, <2>1, <2>4, <3>1, <3>2 DEF OnPar, Explained
      <3>5. tries'[t] = tries[t] /\ excuses'[t] = excuses[t]
        BY <1>1, <2>1, <2>3, <2>4
      <3> HIDE DEF ver
      <3> QED
        BY <1>1, <2>1, <2>2, <2>3, <3>3, <3>4, <3>5, AheadSubmit
    <2>5. CASE ~Opened(t)
      <3>1. tries'[t] < excuses'[t]
        BY <1>1, <2>1, <2>3, <2>5
      <3>2. ver \in Nat
        BY <2>5
      <3>3. tries'[t] <= excuses'[t]
        BY <1>1, <2>1, <2>3, <2>5
      <3> HIDE DEF ver
      <3> QED
        BY <2>1, <2>2, <2>3, <3>1, <3>2, <3>3, AheadSubmit
    <2> QED
      BY <2>4, <2>5
  <1>5. CASE UpgradeLost(t)
    <2>1. /\ version' = version /\ reply[t] # None /\ Explained(t) /\ pc[t] \in waiting
      BY <1>1, <1>5 DEF UpgradeLost, Lost, database, OnPar, waiting
    <2>2. Steady
      BY <1>5, SteadyType DEF UpgradeLost
    <2>3. CASE tries' = [tries EXCEPT ![t] = @ + 1] /\ Goto(t, "latest") /\ Submit(t, 0) /\ UNCHANGED excuses
      <3>1. /\ \A u \in Tasks \ {t} : pc'[u] = pc[u] /\ tries'[u] = tries[u] /\ excuses'[u] = excuses[u]
            /\ pc'[t] = "latest" /\ tries'[t] <= excuses'[t]
        BY <1>1, <2>1, <2>3 DEF Goto, TypeOK, Explained
      <3> QED
        BY <2>1, <2>2, <2>3, <3>1, AheadSubmit
    <2>4. CASE Goto(t, "idle") /\ Unlock(t) /\ reply' = [reply EXCEPT ![t] = None] /\ UNCHANGED requests
      <3>1. /\ \A u \in Tasks \ {t} : Kept(u)
            /\ pc'[t] = "idle" /\ tries'[t] = 0 /\ excuses'[t] = 0
        BY <2>4, UnlockType DEF Goto, TypeOK, Kept
      <3>2. \A u \in Tasks : Kept(u) \/ (pc'[u] \notin waiting /\ tries'[u] <= excuses'[u])
        BY <3>1 DEF waiting
      <3> QED
        BY <2>1, <2>2, <2>4, <3>2, SameRequests, AheadQuiet
    <2> QED
      BY <1>5, <2>3, <2>4 DEF UpgradeLost
  <1> QED
    BY <1>2, <1>3, <1>4, <1>5

\* Everybody else: timers, the browser, third-party code.
LEMMA AheadOthers ==
  ASSUME CInv, CInv', Ahead,
         \/ \E r \in Realms : Expire(r) \/ Reload(r) \/ \E g \in cleaners[r] : Cleanup(r, g)
         \/ ForeignOpen \/ ForeignClose
         \/ \E c \in Conns : ForcedClose(c) \/ Collect(c)
  PROVE  Ahead'
  <1> USE Refs DEF CInv
  <1>0. \A u \in Tasks : tries[u] <= excuses[u]
    BY DEF Ahead, OnPar
  <1>1. CASE \E r \in Realms : Expire(r) \/ \E g \in cleaners[r] : Cleanup(r, g)
    <2>1. version' = version /\ requests' = requests /\ \A u \in Tasks : Kept(u)
      BY <1>1 DEF Expire, Cleanup, database, task, Kept
    <2>2. Steady
      BY <1>1, SteadyType DEF Expire, Cleanup
    <2> QED
      BY <2>1, <2>2, SameRequests, AheadQuiet
  <1>2. ASSUME NEW r \in Realms, Reload(r) PROVE Ahead'
    <2>1. \A u \in Tasks : Kept(u) \/ (pc'[u] \notin waiting /\ tries'[u] <= excuses'[u])
      BY <1>2 DEF Reload, Kept, TypeOK, waiting
    <2>2. \A c \in Conns : conns'[c] # None => conns'[c] = conns[c]
      BY <1>2 DEF Reload
    <2>3. \A i \in DOMAIN requests' : \E j \in DOMAIN requests : requests[j] = requests'[i]
      <3>1. PICK at \in [DOMAIN requests' -> DOMAIN requests] :
              \A i \in DOMAIN requests' : requests'[i] = requests[at[i]]
        BY <1>2, WithdrawType DEF Reload
      <3> QED
        BY <3>1
    <2>4. version' = version
      BY <1>2 DEF Reload, database
    <2> QED
      BY <2>1, <2>2, <2>3, <2>4, SteadyType, AheadQuiet
  <1>3. CASE ForeignOpen
    <2>1. Connect(Foreign, version, stores, "open") /\ version > 0 /\ version \in Nat /\ stores \in SUBSET Stores
      BY <1>3 DEF ForeignOpen, TypeOK
    <2>2. Unused \in Conns /\ conns[Unused] = None /\ \A c \in Conns \ {Unused} : conns'[c] = conns[c]
      BY <2>1, ConnectType
    <2>3. Steady
      BY <2>1, <2>2 DEF Steady
    <2>4. version' = version /\ requests' = requests /\ \A u \in Tasks : Kept(u)
      BY <1>3 DEF ForeignOpen, task, Kept
    <2> QED
      BY <2>3, <2>4, SameRequests, AheadQuiet
  <1>4. CASE ForeignClose
    <2>1. \A c \in Conns : conns'[c] # None => conns'[c] = conns[c]
      BY <1>4 DEF ForeignClose, TypeOK
    <2>2. version' = version /\ requests' = requests /\ \A u \in Tasks : Kept(u)
      BY <1>4 DEF ForeignClose, database, task, Kept
    <2> QED
      BY <2>1, <2>2, SteadyType, SameRequests, AheadQuiet
  <1>5. ASSUME NEW c \in Conns, ForcedClose(c) PROVE Ahead'
    <2>1. version' = version /\ requests' = requests
      BY <1>5 DEF ForcedClose, database
    <2>2. \A u \in Tasks : Kept(u) \/ (pc'[u] \notin waiting /\ tries'[u] <= excuses'[u])
      BY <1>0, <1>5 DEF ForcedClose, Kept, waiting
    <2>3. Steady
      <3> DEFINE e == [conns[c] EXCEPT !.state = "dead", !.users = {}]
      <3>1. conns[c] # None /\ conns[c] \in Connections
        BY <1>5 DEF ForcedClose, Live, TypeOK
      <3>2. e.version = conns[c].version /\ e.stores = conns[c].stores
        BY <3>1, DeadSet, Zenon
      <3>3. conns' = [conns EXCEPT ![c] = IF conns[c].state \in {"closing", "dropped"} THEN None ELSE e]
        BY <1>5 DEF ForcedClose
      <3> HIDE DEF e
      <3> QED
        BY <3>1, <3>2, <3>3 DEF Steady, Ahead, TypeOK
    <2> QED
      BY <2>1, <2>2, <2>3, SameRequests, AheadQuiet
  <1>6. ASSUME NEW c \in Conns, Collect(c) PROVE Ahead'
    <2>1. \A d \in Conns : conns'[d] # None => conns'[d] = conns[d]
      BY <1>6 DEF Collect, TypeOK
    <2>2. version' = version /\ requests' = requests /\ \A u \in Tasks : Kept(u)
      BY <1>6 DEF Collect, database, task, Kept
    <2> QED
      BY <2>1, <2>2, SteadyType, SameRequests, AheadQuiet
  <1> QED
    BY <1>1, <1>2, <1>3, <1>4, <1>5, <1>6

\* A task that loses the version it asked for has a rival to blame, or an open
\* that failed: alone, it upgrades at its first try, however often others
\* reload, close, time out or are refused.
THEOREM LosersHaveRivals == Spec => []RetriesHaveRivals
  <1>1. Init => Ahead
    <2> SUFFICES ASSUME Init PROVE Ahead
      OBVIOUS
    <2>1. \A t \in Tasks : OnPar(t)
      BY DEF Init, OnPar, Lost, Opened
    <2> QED
      BY <2>1 DEF Init, Ahead
  <1>2. CInv /\ CInv' /\ Ahead /\ [Next]_vars => Ahead'
    <2>1. ASSUME CInv, CInv', Ahead, Next PROVE Ahead'
      BY <2>1, AheadTask, AheadLoop, AheadOthers, AheadServe, AheadCreate, AheadUpgrade, AheadForeign
         DEF Next, Poll, Serve
    <2>2. ASSUME CInv, CInv', Ahead, UNCHANGED vars PROVE Ahead'
      <3>1. version' = version /\ requests' = requests /\ \A u \in Tasks : Kept(u)
        BY <2>2 DEF vars, database, task, Kept
      <3>2. Steady
        BY <2>2, SteadyType DEF vars
      <3> QED
        BY <2>2, <3>1, <3>2, SameRequests, AheadQuiet DEF CInv
    <2> QED
      BY <2>1, <2>2
  <1>3. Ahead => RetriesHaveRivals
    BY DEF Ahead, OnPar, Explained, RetriesHaveRivals
  <1> QED
    BY <1>1, <1>2, <1>3, ConnectionInvariant, PTL DEF Spec
=============================================================================
