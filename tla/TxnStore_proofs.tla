-------------------------- MODULE TxnStore_proofs --------------------------
(***************************************************************************)
(* Proofs about TxnStore for every set of clients, paths, bytes and calls. *)
(***************************************************************************)
EXTENDS TxnStore, TLAPS, SequenceTheorems

(***************************************************************************)
(* The bodies of the transactions.                                         *)
(***************************************************************************)
StoresOK(D, M) == /\ D \in [Paths -> Values \cup {None}]
                  /\ M \in [Paths -> Metas]

LEMMA EntryInfoType ==
  ASSUME NEW D, NEW M, StoresOK(D, M), NEW k \in Paths, D[k] # None
  PROVE  entry_info(D, M, k) \in EntryInfo
<1>1. D[k] \in Values /\ M[k] \in Metas
  BY DEF StoresOK
<1>2. CASE read_meta(M, k) = None
  <2>1. value_byte_length(D[k]) \in Nat \cup {None}
    BY <1>1 DEF value_byte_length, Values, Bytes
  <2>2. value_etag(D[k]) \in ETags \cup {None}
    BY <1>1 DEF value_etag, etag_from_bytes, ETags, Values
  <2>3. NoContent \in Contents
    BY DEF NoContent, Contents
  <2> QED
    BY <1>2, <2>1, <2>2, <2>3 DEF entry_info, EntryInfo
<1>3. CASE read_meta(M, k) # None
  <2>1. read_meta(M, k) \in MetaRecord
    BY <1>1, <1>3 DEF read_meta, Metas
  <2>2. value_etag(D[k]) \in ETags \cup {None}
    BY <1>1 DEF value_etag, etag_from_bytes, ETags, Values
  <2> QED
    BY <1>3, <2>1, <2>2 DEF entry_info, entry_meta_with_etag_fallback, EntryInfo, MetaRecord
<1> QED
  BY <1>2, <1>3

\* A range read returns bytes, whatever size the sidecar claims.
LEMMA RangeType ==
  ASSUME NEW v \in Bytes, NEW range \in ReadRange, NEW total \in Nat
  PROVE  record_bytes_range(v, range, total) \in Bytes
<1> DEFINE start == AtMost(range.offset, total)
           end == IF range.size = None THEN total ELSE AtMost(range.offset + range.size, total)
           m == AtMost(start, Len(v)) + 1
           n == AtMost(end, Len(v))
<1>1. v \in Seq(Byte) /\ Len(v) \in Nat
  BY DEF Bytes
<1>2. start \in Nat /\ end \in Nat
  BY DEF ReadRange, AtMost
<1>3. m \in Nat /\ m >= 1 /\ n \in Nat /\ n <= Len(v)
  BY <1>1, <1>2 DEF AtMost
<1>4. SubSeq(v, m, n) \in Seq(Byte)
  BY <1>1, <1>3, SubSeqProperties
<1> QED
  BY <1>4 DEF record_bytes_range, Bytes

Matches(D, M) == \A k \in Paths : Describes(D[k], M[k])
ViewOK(v) == v \in Views /\ Matches(v.data, v.meta)

LEMMA SameStores ==
  ASSUME NEW D, NEW M, StoresOK(D, M), Matches(D, M), NEW out \in Result
  PROVE  ViewOK(View(D, M, out))
BY DEF StoresOK, ViewOK, View, Views

LEMMA OutcomeType ==
  ASSUME NEW kind \in {"Ok", "NotFound", "ConditionNotMatch", "IsSameFile", "Unexpected"}
  PROVE  Outcome(kind) \in Result
BY DEF Outcome, Result

LEMMA FoundType ==
  ASSUME NEW info \in EntryInfo, NEW bytes \in Bytes \cup {None}
  PROVE  Found(info, bytes) \in Result
BY DEF Found, Result

\* Installing a record and a sidecar that describes it keeps the stores matched.
LEMMA PutOK ==
  ASSUME NEW D, NEW M, StoresOK(D, M), Matches(D, M), NEW k \in Paths,
         NEW v \in Bytes, NEW info \in EntryInfo, info.size = Len(v),
         info.etag \in {None, etag_from_bytes(v)}, NEW out \in Result
  PROVE  ViewOK(View([D EXCEPT ![k] = v], [M EXCEPT ![k] = put_meta(info)], out))
<1> DEFINE D1 == [D EXCEPT ![k] = v]
           M1 == [M EXCEPT ![k] = put_meta(info)]
<1>1. Len(v) \in Nat /\ v # NotBytes
  BY ValuesAssumption DEF Bytes
<1>2. put_meta(info) \in MetaRecord
  BY <1>1 DEF put_meta, MetaRecord, EntryInfo
<1>3. StoresOK(D1, M1)
  BY <1>2 DEF StoresOK, Values, Metas
<1>4. Describes(v, put_meta(info))
  BY <1>1 DEF Describes, put_meta
<1>5. Matches(D1, M1)
  BY <1>4 DEF Matches, StoresOK
<1> QED
  BY <1>3, <1>5 DEF ViewOK, View, Views, StoresOK

\* So does removing entries, with or without their sidecars.
LEMMA DropOK ==
  ASSUME NEW D, NEW M, StoresOK(D, M), Matches(D, M), NEW gone, NEW out \in Result
  PROVE  ViewOK(View([k \in Paths |-> IF k \in gone THEN None ELSE D[k]],
                     [k \in Paths |-> IF k \in gone THEN None ELSE M[k]], out))
BY DEF StoresOK, Matches, Describes, ViewOK, View, Views, Metas
---------------------------------------------------------------------------
LEMMA StatOK ==
  ASSUME NEW D, NEW M, StoresOK(D, M), Matches(D, M), NEW c \in StatCall
  PROVE  ViewOK(stat(D, M, c))
<1>1. c.conditions.path \in Paths
  BY DEF StatCall, Conditions
<1> QED
  BY <1>1, EntryInfoType, SameStores, OutcomeType, FoundType DEF stat

LEMMA ReadOK ==
  ASSUME NEW D, NEW M, StoresOK(D, M), Matches(D, M), NEW c \in ReadCall
  PROVE  ViewOK(read(D, M, c))
<1> DEFINE k == c.conditions.path
           info == entry_info(D, M, k)
           total == IF info.size # None THEN info.size ELSE 0
           bytes == record_bytes_range(D[k], c.range, total)
<1>1. k \in Paths /\ c.range \in ReadRange
  BY DEF ReadCall, Conditions
<1>2. ASSUME D[k] # None, D[k] # NotBytes
      PROVE  Found(info, bytes) \in Result
  <2>1. info \in EntryInfo
    BY <1>1, <1>2, EntryInfoType
  <2>2. total \in Nat
    BY <2>1 DEF EntryInfo
  <2>3. D[k] \in Bytes
    BY <1>1, <1>2 DEF StoresOK, Values
  <2>4. bytes \in Bytes
    BY <1>1, <2>2, <2>3, RangeType
  <2> QED
    BY <2>1, <2>4, FoundType
<1> QED
  BY <1>2, SameStores, OutcomeType DEF read

\* A body refuses and changes nothing, or it puts bytes in place together with
\* a sidecar that holds their length and ETag.
Refuses(D, M, v) ==
  \E kind \in {"NotFound", "ConditionNotMatch", "Unexpected"} : v = View(D, M, Outcome(kind))
Puts(D, M, k, v) ==
  \E bytes \in Bytes, info \in EntryInfo :
    /\ info.size = Len(bytes) /\ info.etag = etag_from_bytes(bytes)
    /\ v = View([D EXCEPT ![k] = bytes], [M EXCEPT ![k] = put_meta(info)], Found(info, None))

LEMMA WritesOK ==
  ASSUME NEW D, NEW M, StoresOK(D, M), Matches(D, M), NEW k \in Paths, NEW v,
         Refuses(D, M, v) \/ Puts(D, M, k, v)
  PROVE  ViewOK(v)
<1>1. CASE Refuses(D, M, v)
  BY <1>1, SameStores, OutcomeType DEF Refuses
<1>2. CASE Puts(D, M, k, v)
  <2>1. PICK bytes \in Bytes, info \in EntryInfo :
          /\ info.size = Len(bytes) /\ info.etag = etag_from_bytes(bytes)
          /\ v = View([D EXCEPT ![k] = bytes], [M EXCEPT ![k] = put_meta(info)], Found(info, None))
    BY <1>2 DEF Puts
  <2>2. Found(info, None) \in Result
    BY FoundType
  <2> QED BY <2>1, <2>2, PutOK
<1> QED BY <1>1, <1>2

LEMMA SetWrites ==
  ASSUME NEW D, NEW M, StoresOK(D, M), NEW c \in SetCall, NEW now \in Times
  PROVE  Refuses(D, M, set(D, M, c, now)) \/ Puts(D, M, c.path, set(D, M, c, now))
<1> DEFINE k == c.path
           unconditional_overwrite == /\ ~c.append /\ ~c.if_not_exists
                                      /\ c.if_match = None /\ c.if_none_match = None
           existing_data == IF unconditional_overwrite THEN None ELSE D[k]
           exists == existing_data # None
           existing_meta == IF exists THEN read_meta(M, k) ELSE None
           keeps == c.append /\ exists
           bytes == (IF keeps THEN existing_data ELSE <<>>) \o c.bytes
           kept == IF c.append /\ existing_meta # None THEN existing_meta.c ELSE NoContent
           info == [size |-> Len(bytes), modified |-> now, etag |-> etag_from_bytes(bytes),
                    content |-> merge(kept, c.content)]
<1>1. k \in Paths /\ c.bytes \in Seq(Byte) /\ c.content \in Contents
  BY DEF SetCall, Bytes
<1>2. \/ Refuses(D, M, set(D, M, c, now))
      \/ /\ ~(keeps /\ existing_data = NotBytes)
         /\ set(D, M, c, now) = View([D EXCEPT ![k] = bytes], [M EXCEPT ![k] = put_meta(info)],
                                     Found(info, None))
  BY DEF set, Refuses
<1>3. ASSUME ~(keeps /\ existing_data = NotBytes)
      PROVE  bytes \in Bytes /\ info \in EntryInfo
             /\ info.size = Len(bytes) /\ info.etag = etag_from_bytes(bytes)
  <2>1. (IF keeps THEN existing_data ELSE <<>>) \in Seq(Byte)
    BY <1>1, <1>3 DEF StoresOK, Values, Bytes
  <2>2. bytes \in Bytes /\ Len(bytes) \in Nat
    <3>1. \A s, u \in Seq(Byte) : s \o u \in Seq(Byte)
      OBVIOUS
    <3>2. \A s \in Seq(Byte) : Len(s) \in Nat
      OBVIOUS
    <3>3. bytes \in Seq(Byte)
      BY ONLY <1>1, <2>1, <3>1, Zenon
    <3> QED BY <3>2, <3>3, Zenon DEF Bytes
  <2>3. kept \in Contents
    BY <1>1 DEF StoresOK, Metas, MetaRecord, read_meta, NoContent, Contents
  <2> HIDE DEF kept, bytes
  <2>4. merge(kept, c.content) \in Contents
    BY <1>1, <2>3 DEF merge, Contents
  <2>5. etag_from_bytes(bytes) \in ETags
    BY <2>2 DEF etag_from_bytes, ETags
  <2> QED BY <2>2, <2>4, <2>5 DEF EntryInfo
<1> HIDE DEF bytes, info, keeps, existing_data
<1> QED BY <1>2, <1>3 DEF Puts

LEMMA SetOK ==
  ASSUME NEW D, NEW M, StoresOK(D, M), Matches(D, M), NEW c \in SetCall, NEW now \in Times
  PROVE  ViewOK(set(D, M, c, now))
<1>1. c.path \in Paths
  BY DEF SetCall
<1> QED BY <1>1, SetWrites, WritesOK

LEMMA DeleteOK ==
  ASSUME NEW D, NEW M, StoresOK(D, M), Matches(D, M), NEW c \in DeleteCall
  PROVE  ViewOK(delete_many(D, M, c))
BY DropOK, OutcomeType DEF delete_many, without

\* A copied or moved entry takes along a sidecar that describes its bytes.
LEMMA SourceInfo ==
  ASSUME NEW D, NEW M, StoresOK(D, M), Matches(D, M), NEW k \in Paths, D[k] \in Bytes
  PROVE  /\ source_info(D, M, k) \in EntryInfo
         /\ source_info(D, M, k).size = Len(D[k])
         /\ source_info(D, M, k).etag = etag_from_bytes(D[k])
<1>1. D[k] # None /\ D[k] # NotBytes /\ Len(D[k]) \in Nat /\ M[k] \in Metas
  BY ValuesAssumption DEF StoresOK, Values, Bytes
<1>2. entry_info(D, M, k) \in EntryInfo
  BY <1>1, EntryInfoType
<1>3. CASE read_meta(M, k) = None
  BY <1>1, <1>2, <1>3 DEF source_info, entry_info, EntryInfo, value_byte_length, value_etag
<1>4. CASE read_meta(M, k) # None
  <2>1. /\ M[k] \in MetaRecord /\ read_meta(M, k) = M[k]
        /\ M[k].l = Len(D[k]) /\ M[k].e \in {None, etag_from_bytes(D[k])}
    BY <1>1, <1>4 DEF read_meta, Metas, Matches, Describes
  <2> QED
    BY <1>1, <1>2, <1>4, <2>1
    DEF source_info, entry_info, entry_meta_with_etag_fallback, EntryInfo, value_etag
<1> QED
  BY <1>3, <1>4

\* So does a copy, with the bytes of its source.
LEMMA CopyWrites ==
  ASSUME NEW D, NEW M, StoresOK(D, M), Matches(D, M), NEW c \in CopyCall, NEW now \in Times
  PROVE  Refuses(D, M, copy(D, M, c, now)) \/ Puts(D, M, c.to, copy(D, M, c, now))
<1> DEFINE info == [source_info(D, M, c.from) EXCEPT !.modified = now]
<1>1. c.from \in Paths /\ c.to \in Paths
  BY DEF CopyCall
<1>2. \/ Refuses(D, M, copy(D, M, c, now))
      \/ /\ D[c.from] # None /\ D[c.from] # NotBytes
         /\ copy(D, M, c, now) = View([D EXCEPT ![c.to] = D[c.from]],
                                      [M EXCEPT ![c.to] = put_meta(info)], Found(info, None))
  BY DEF copy, Refuses
<1>3. ASSUME D[c.from] # None, D[c.from] # NotBytes
      PROVE  /\ D[c.from] \in Bytes /\ info \in EntryInfo
             /\ info.size = Len(D[c.from]) /\ info.etag = etag_from_bytes(D[c.from])
  <2>1. D[c.from] \in Bytes
    BY <1>1, <1>3 DEF StoresOK, Values
  <2> QED BY <1>1, <2>1, SourceInfo DEF EntryInfo
<1> HIDE DEF info
<1> QED BY <1>2, <1>3 DEF Puts

LEMMA CopyOK ==
  ASSUME NEW D, NEW M, StoresOK(D, M), Matches(D, M), NEW c \in CopyCall, NEW now \in Times
  PROVE  ViewOK(copy(D, M, c, now))
<1>1. c.to \in Paths
  BY DEF CopyCall
<1> QED BY <1>1, CopyWrites, WritesOK

LEMMA RenameOK ==
  ASSUME NEW D, NEW M, StoresOK(D, M), Matches(D, M), NEW c \in RenameCall
  PROVE  ViewOK(rename(D, M, c))
<1> DEFINE info == source_info(D, M, c.from)
           D1 == [D EXCEPT ![c.to] = D[c.from]]
           M1 == [M EXCEPT ![c.to] = put_meta(info)]
           D2 == [D EXCEPT ![c.to] = D[c.from], ![c.from] = None]
           M2 == [M EXCEPT ![c.to] = put_meta(info), ![c.from] = None]
<1>1. c.from \in Paths /\ c.to \in Paths
  BY DEF RenameCall
<1>2. ASSUME D[c.from] # None, D[c.from] # NotBytes
      PROVE  ViewOK(View(D2, M2, Outcome("Ok")))
  <2>1. D[c.from] \in Bytes
    BY <1>1, <1>2 DEF StoresOK, Values
  <2>2. ViewOK(View(D1, M1, Outcome("Ok")))
    BY <1>1, <2>1, SourceInfo, PutOK, OutcomeType
  <2>3. StoresOK(D1, M1) /\ Matches(D1, M1)
    BY <2>2 DEF ViewOK, View, Views, StoresOK
  <2>4. /\ D2 = [k \in Paths |-> IF k \in {c.from} THEN None ELSE D1[k]]
        /\ M2 = [k \in Paths |-> IF k \in {c.from} THEN None ELSE M1[k]]
    BY DEF StoresOK
  <2> HIDE DEF D1, M1, D2, M2
  <2> QED
    BY <2>3, <2>4, DropOK, OutcomeType
<1> QED
  BY <1>2, SameStores, OutcomeType DEF rename

\* Every body keeps the sidecar truthful, whatever it finds.
LEMMA BodyOK ==
  ASSUME NEW D, NEW M, StoresOK(D, M), Matches(D, M), NEW c \in Call, NEW now \in Times
  PROVE  ViewOK(Body(D, M, c, now))
<1>1. /\ c.op = "set" => c \in SetCall
      /\ c.op = "delete" => c \in DeleteCall
      /\ c.op = "stat" => c \in StatCall
      /\ c.op = "read" => c \in ReadCall
      /\ c.op = "copy" => c \in CopyCall
      /\ c.op = "rename" => c \in RenameCall
      /\ c.op \in {"set", "delete", "stat", "read", "copy", "rename"}
  BY DEF Call, SetCall, DeleteCall, StatCall, ReadCall, CopyCall, RenameCall
<1> QED
  BY <1>1, StatOK, ReadOK, SetOK, DeleteOK, CopyOK, RenameOK DEF Body

\* A body that runs in a readonly transaction writes nothing.
LEMMA BodyReadonly ==
  ASSUME NEW D, NEW M, NEW c \in Call, NEW now, ~readwrite(c)
  PROVE  Body(D, M, c, now).data = D /\ Body(D, M, c, now).meta = M
<1>1. c.op \in {"stat", "read"}
  BY DEF readwrite, Call, SetCall, DeleteCall, StatCall, ReadCall, CopyCall, RenameCall
<1> QED
  BY <1>1 DEF Body, stat, read, View
---------------------------------------------------------------------------
(***************************************************************************)
(* The type invariant and the truthfulness of the sidecar.  The stores     *)
(* stay matched only because every view that may be committed is matched.  *)
(***************************************************************************)
ViewsMatch ==
  \A t \in Clients :
    /\ phase[t] # "idle" => call[t] \in Calls
    /\ phase[t] = "active" => ViewOK(view[t])
IInv == TypeOK /\ SidecarMatches /\ ViewsMatch

LEMMA IInvInit == Init => IInv
BY DEF Init, StoresInit, ClientsInit, IInv, TypeOK, ViewsMatch, running

\* What Leave does to the variables it assigns.
TasksOK == /\ phase \in [Clients -> running \cup {"idle", "done", "panicked"}]
           /\ view \in [Clients -> Views \cup {None}]
           /\ result \in [Clients -> Result \cup {None}]
           /\ ahead \in [Clients -> SUBSET Clients]
           /\ ViewsMatch

LEMMA LeaveOK ==
  ASSUME IInv, NEW t \in Clients, NEW p \in {"calling", "idle", "done", "panicked"},
         NEW r \in Result \cup {None}, Leave(t, p, r), phase[t] # "idle",
         UNCHANGED call \/ p = "idle", \A u \in Clients \ {t} : call'[u] = call[u]
  PROVE  TasksOK'
<1> USE DEF IInv, TypeOK, Leave
<1>1. phase' \in [Clients -> running \cup {"idle", "done", "panicked"}]
  BY DEF running
<1>2. view' \in [Clients -> Views \cup {None}]
  OBVIOUS
<1>3. result' \in [Clients -> Result \cup {None}]
  OBVIOUS
<1>4. ahead' \in [Clients -> SUBSET Clients]
  OBVIOUS
<1>5. ASSUME NEW u \in Clients
      PROVE  /\ phase'[u] # "idle" => call'[u] \in Calls
             /\ phase'[u] = "active" => ViewOK(view'[u])
  <2>1. CASE u = t
    BY <1>5, <2>1 DEF ViewsMatch
  <2>2. CASE u # t
    BY <1>5, <2>2 DEF ViewsMatch
  <2> QED
    BY <2>1, <2>2
<1> QED
  BY <1>1, <1>2, <1>3, <1>4, <1>5 DEF TasksOK, ViewsMatch, ViewOK

LEMMA IInvStep == IInv /\ [Next]_vars => IInv'
<1> SUFFICES ASSUME IInv, [Next]_vars PROVE IInv'
  OBVIOUS
<1>1. StoresOK(data, meta) /\ Matches(data, meta)
  BY DEF IInv, TypeOK, SidecarMatches, StoresOK, Matches
<1>2. ASSUME NEW t \in Clients, NEW c \in Calls, Invoke(t, c) PROVE IInv'
  BY <1>2 DEF IInv, TypeOK, SidecarMatches, ViewsMatch, Invoke, stores, running, ViewOK
<1>3. ASSUME NEW t \in Clients, Shortcut(t) PROVE IInv'
  <2>1. early_return(call[t]) \in {"IsSameFile", "Ok"}
    BY <1>3 DEF Shortcut, early_return
  <2>2. Outcome(early_return(call[t])) \in Result
    BY <2>1, OutcomeType
  <2>3. TasksOK'
    BY <1>3, <2>2, LeaveOK DEF Shortcut
  <2> QED
    BY <1>3, <2>3 DEF IInv, TypeOK, TasksOK, SidecarMatches, Shortcut, stores
<1>4. ASSUME NEW t \in Clients, CreateTransaction(t) PROVE IInv'
  BY <1>4
  DEF IInv, TypeOK, SidecarMatches, ViewsMatch, CreateTransaction, stores, running, ViewOK
<1>5. ASSUME NEW t \in Clients, Run(t) PROVE IInv'
  <2>1. PICK now \in Times : view' = [view EXCEPT ![t] = Body(data, meta, call[t], now)]
    BY <1>5 DEF Run
  <2>2. call[t] \in Call
    BY <1>5, CallsAssumption DEF IInv, ViewsMatch, Run
  <2>3. ViewOK(Body(data, meta, call[t], now))
    BY <1>1, <2>2, BodyOK
  <2>4. view' \in [Clients -> Views \cup {None}]
    BY <2>1, <2>3 DEF IInv, TypeOK, ViewOK
  <2>5. \A u \in Clients : phase'[u] = "active" => ViewOK(view'[u])
    BY <1>5, <2>1, <2>3 DEF IInv, TypeOK, ViewsMatch, Run
  <2>6. \A u \in Clients : phase'[u] # "idle" => call'[u] \in Calls
    BY <1>5 DEF IInv, TypeOK, ViewsMatch, Run
  <2>7. phase' \in [Clients -> running \cup {"idle", "done", "panicked"}]
    BY <1>5 DEF IInv, TypeOK, Run, running
  <2> QED
    BY <1>5, <2>4, <2>5, <2>6, <2>7
    DEF IInv, TypeOK, SidecarMatches, ViewsMatch, Run, stores, ViewOK
<1>6. ASSUME NEW t \in Clients, Commit(t) PROVE IInv'
  <2>1. ViewOK(view[t])
    BY <1>6 DEF IInv, ViewsMatch, Commit
  <2>2. StoresOK(data', meta') /\ Matches(data', meta') /\ view[t].out \in Result
    BY <1>6, <2>1 DEF ViewOK, Views, Commit, StoresOK
  <2>3. SidecarMatches'
    BY <2>2 DEF Matches, SidecarMatches
  <2>4. TasksOK'
    BY <1>6, <2>2, LeaveOK DEF Commit
  <2> QED
    BY <1>6, <2>2, <2>3, <2>4 DEF IInv, TypeOK, TasksOK, Commit, StoresOK
<1>7. ASSUME NEW t \in Clients, Panic(t) PROVE IInv'
  <2>1. TasksOK'
    BY <1>7, LeaveOK DEF Panic
  <2> QED
    BY <1>7, <2>1 DEF IInv, TypeOK, TasksOK, SidecarMatches, Panic, stores
<1>8. ASSUME NEW t \in Clients, LoseConnection(t) PROVE IInv'
  <2>1. TasksOK'
    BY <1>8, LeaveOK DEF LoseConnection, running
  <2> QED
    BY <1>8, <2>1 DEF IInv, TypeOK, TasksOK, SidecarMatches, LoseConnection, stores
<1>9. ASSUME NEW t \in Clients, Fail(t) PROVE IInv'
  <2>1. Outcome("Unexpected") \in Result
    BY OutcomeType
  <2>2. TasksOK'
    BY <1>9, <2>1, LeaveOK DEF Fail, running
  <2> QED
    BY <1>9, <2>2 DEF IInv, TypeOK, TasksOK, SidecarMatches, Fail, stores
<1>10. ASSUME NEW t \in Clients, Return(t) \/ Reload(t) PROVE IInv'
  <2>1. phase[t] # "idle" /\ Leave(t, "idle", None) /\ UNCHANGED stores
    BY <1>10 DEF Return, Reload
  <2>2. call' \in [Clients -> Calls \cup {None}] /\ attempt' \in [Clients -> {0, 1}]
    BY <1>10 DEF Return, Reload, IInv, TypeOK
  <2>3. \A u \in Clients \ {t} : call'[u] = call[u]
    BY <1>10 DEF Return, Reload, IInv, TypeOK
  <2>4. TasksOK'
    BY <2>1, <2>3, LeaveOK
  <2> QED
    BY <2>1, <2>2, <2>4 DEF IInv, TypeOK, TasksOK, SidecarMatches, stores
<1>11. ASSUME NEW k \in Paths, Legacy(k) PROVE IInv'
  <2>1. PICK v \in Old \cup {None} :
          data' = [data EXCEPT ![k] = v] /\ (v = None \/ meta[k] = None)
    BY <1>11 DEF Legacy
  <2>2. data' \in [Paths -> Values \cup {None}]
    BY <2>1, OldAssumption DEF IInv, TypeOK, Values
  <2>3. SidecarMatches'
    BY <1>11, <2>1 DEF IInv, TypeOK, SidecarMatches, Describes, Legacy
  <2> QED
    BY <1>11, <2>2, <2>3 DEF IInv, TypeOK, ViewsMatch, Legacy, ViewOK
<1>12. CASE UNCHANGED vars
  BY <1>12 DEF IInv, TypeOK, SidecarMatches, ViewsMatch, vars, stores, ViewOK
<1> QED
  BY <1>2, <1>3, <1>4, <1>5, <1>6, <1>7, <1>8, <1>9, <1>10, <1>11, <1>12 DEF Next

LEMMA InductiveInvariant == Spec => []IInv
BY IInvInit, IInvStep, PTL DEF Spec

\* Every variable keeps its type: what a body reads and returns included.
THEOREM TypeCorrect == Spec => []TypeOK
<1>1. IInv => TypeOK
  BY DEF IInv
<1> QED
  BY <1>1, InductiveInvariant, PTL

\* The sidecar never misdescribes an entry, whatever calls run, fail, retry or
\* are cut off, and whatever older tabs do.
THEOREM SidecarCorrect == Spec => []SidecarMatches
<1>1. IInv => SidecarMatches
  BY DEF IInv
<1> QED
  BY <1>1, InductiveInvariant, PTL
---------------------------------------------------------------------------
(***************************************************************************)
(* Isolation.  Of two live transactions one was created after the other,   *)
(* and it became active only if both are readonly: so a transaction that   *)
(* writes is the only active one, and nobody's view goes stale.            *)
(***************************************************************************)
live == {"queued", "active"}
Isolation ==
  \A t, u \in Clients :
    /\ u \in ahead[t] => phase[t] \in live /\ phase[u] \in live /\ t # u
    /\ phase[t] \in live /\ phase[u] \in live /\ t # u => t \in ahead[u] \/ u \in ahead[t]
    /\ phase[t] = "active" /\ u \in ahead[t] => ~readwrite(call[t]) /\ ~readwrite(call[u])
SInv == IInv /\ Isolation /\ SnapshotCurrent

LEMMA SInvInit == Init => SInv
BY IInvInit DEF Init, ClientsInit, SInv, Isolation, SnapshotCurrent, live

\* A step in which t's transaction ends or is not there.
LEMMA LeaveIsolation ==
  ASSUME SInv, NEW t \in Clients, NEW p \in {"calling", "idle", "done", "panicked"},
         NEW r, Leave(t, p, r), \A u \in Clients \ {t} : call'[u] = call[u]
  PROVE  /\ Isolation'
         /\ \A u \in Clients : phase'[u] = "active" =>
              /\ phase[u] = "active" /\ u # t
              /\ view'[u] = view[u] /\ call'[u] = call[u]
<1>1. ASSUME NEW u \in Clients
      PROVE  /\ u # t => /\ phase'[u] = phase[u] /\ view'[u] = view[u]
                         /\ call'[u] = call[u] /\ ahead'[u] = ahead[u] \ {t}
             /\ u = t => phase'[u] = p /\ ahead'[u] = {}
  BY DEF Leave, SInv, IInv, TypeOK
<1>2. Isolation'
  BY <1>1 DEF Isolation, SInv, live
<1> QED
  BY <1>1, <1>2

\* A step that changes neither the stores nor any active transaction's view.
LEMMA StillCurrent ==
  ASSUME SInv, UNCHANGED stores,
         \A u \in Clients : phase'[u] = "active" =>
           /\ phase[u] = "active"
           /\ view'[u] = view[u] /\ call'[u] = call[u]
  PROVE  SnapshotCurrent'
BY DEF SInv, SnapshotCurrent, stores

LEMMA SInvStep == SInv /\ [Next]_vars => SInv'
<1> SUFFICES ASSUME SInv, [Next]_vars PROVE SInv'
  OBVIOUS
<1>1. IInv /\ IInv'
  BY IInvStep DEF SInv
<1>2. ASSUME NEW t \in Clients, NEW c \in Calls, Invoke(t, c) PROVE Isolation' /\ SnapshotCurrent'
  <2>1. /\ \A u \in Clients : phase'[u] \in live <=> phase[u] \in live
        /\ \A u \in Clients : phase'[u] = "active" <=> phase[u] = "active"
        /\ \A u \in Clients : phase[u] \in live => call'[u] = call[u]
        /\ UNCHANGED <<ahead, view, stores>>
    BY <1>1, <1>2 DEF Invoke, IInv, TypeOK, live
  <2>2. Isolation'
    BY <2>1 DEF SInv, Isolation
  <2>3. SnapshotCurrent'
    BY <2>1, StillCurrent DEF live
  <2> QED
    BY <2>2, <2>3
<1>3. ASSUME NEW t \in Clients, CreateTransaction(t) PROVE Isolation' /\ SnapshotCurrent'
  <2>1. Isolation'
    BY <1>1, <1>3 DEF CreateTransaction, IInv, TypeOK, SInv, Isolation, live
  <2>2. SnapshotCurrent'
    BY <1>1, <1>3, StillCurrent DEF CreateTransaction, IInv, TypeOK
  <2> QED
    BY <2>1, <2>2
<1>4. ASSUME NEW t \in Clients, Run(t) PROVE Isolation' /\ SnapshotCurrent'
  <2>1. PICK now \in Times : view' = [view EXCEPT ![t] = Body(data, meta, call[t], now)]
    BY <1>4 DEF Run
  <2>2. Isolation'
    BY <1>1, <1>4 DEF Run, Startable, IInv, TypeOK, SInv, Isolation, live
  <2>3. SnapshotCurrent'
    BY <1>1, <1>4, <2>1 DEF Run, IInv, TypeOK, SInv, SnapshotCurrent, stores
  <2> QED
    BY <2>2, <2>3
<1>5. ASSUME NEW t \in Clients, Commit(t) PROVE Isolation' /\ SnapshotCurrent'
  <2>1. /\ Isolation'
        /\ \A u \in Clients : phase'[u] = "active" =>
             /\ phase[u] = "active" /\ u # t
             /\ view'[u] = view[u] /\ call'[u] = call[u]
    BY <1>5, LeaveIsolation DEF Commit
  <2>2. ASSUME NEW u \in Clients, phase'[u] = "active" PROVE UNCHANGED stores
    <3>1. ~readwrite(call[t])
      BY <1>5, <2>1, <2>2 DEF Commit, SInv, Isolation, live
    <3>2. PICK now \in Times : view[t] = Body(data, meta, call[t], now)
      BY <1>5 DEF Commit, SInv, SnapshotCurrent
    <3>3. call[t] \in Call
      BY <1>1, <1>5, CallsAssumption DEF IInv, ViewsMatch, Commit
    <3>4. view[t].data = data /\ view[t].meta = meta
      BY <3>1, <3>2, <3>3, BodyReadonly
    <3> QED
      BY <1>5, <3>4 DEF Commit, stores
  <2>3. SnapshotCurrent'
    <3>1. CASE \E u \in Clients : phase'[u] = "active"
      BY <2>1, <2>2, <3>1, StillCurrent
    <3>2. CASE ~\E u \in Clients : phase'[u] = "active"
      BY <3>2 DEF SnapshotCurrent
    <3> QED
      BY <3>1, <3>2
  <2> QED
    BY <2>1, <2>3
<1>6. ASSUME NEW t \in Clients,
             Shortcut(t) \/ Panic(t) \/ LoseConnection(t) \/ Fail(t) \/ Return(t) \/ Reload(t)
      PROVE  Isolation' /\ SnapshotCurrent'
  <2>1. PICK p \in {"calling", "idle", "done", "panicked"} : \E r : Leave(t, p, r)
    BY <1>6 DEF Shortcut, Panic, LoseConnection, Fail, Return, Reload
  <2>2. UNCHANGED stores /\ \A u \in Clients \ {t} : call'[u] = call[u]
    BY <1>1, <1>6 DEF Shortcut, Panic, LoseConnection, Fail, Return, Reload, IInv, TypeOK
  <2>3. /\ Isolation'
        /\ \A u \in Clients : phase'[u] = "active" =>
             /\ phase[u] = "active" /\ view'[u] = view[u] /\ call'[u] = call[u]
    BY <2>1, <2>2, LeaveIsolation
  <2> QED
    BY <2>2, <2>3, StillCurrent
<1>7. ASSUME NEW k \in Paths, Legacy(k) PROVE Isolation' /\ SnapshotCurrent'
  BY <1>7 DEF Legacy, SInv, Isolation, SnapshotCurrent
<1>8. CASE UNCHANGED vars
  <2>1. Isolation'
    BY <1>8 DEF vars, SInv, Isolation
  <2>2. SnapshotCurrent'
    BY <1>8 DEF vars, stores, SInv, SnapshotCurrent
  <2> QED
    BY <1>1, <2>1, <2>2 DEF SInv
<1> QED
  BY <1>1, <1>2, <1>3, <1>4, <1>5, <1>6, <1>7, <1>8 DEF Next, SInv

\* Transactions are isolated: what an active transaction read is still so when
\* it commits.
THEOREM TransactionsIsolated == Spec => []SnapshotCurrent
<1>1. SInv => SnapshotCurrent
  BY DEF SInv
<1> QED
  BY <1>1, SInvInit, SInvStep, PTL DEF Spec
---------------------------------------------------------------------------
(***************************************************************************)
(* TxnStore implements ObjectStore: the data store and its sidecar behave  *)
(* as one map of entries on which every call takes effect at once and at   *)
(* most once.  And what the step in which a call succeeds does to the      *)
(* stores.                                                                 *)
(***************************************************************************)
\* The entry that the records D[k] and M[k] make up.
EntryAt(D, M, k) ==
  IF D[k] = None THEN None
  ELSE [value |-> D[k], modified |-> entry_info(D, M, k).modified,
        content |-> entry_info(D, M, k).content]
EntryMap(D, M) == [k \in Paths |-> EntryAt(D, M, k)]

\* The two modules speak of the same values: each has its copy of Objects.
LEMMA Words ==
  /\ Abstract!Bytes = Bytes /\ Abstract!Entry = Entry /\ Abstract!NoContent = NoContent
  /\ \A v : /\ Abstract!value_byte_length(v) = value_byte_length(v)
            /\ Abstract!value_etag(v) = value_etag(v)
  /\ \A v, w : Abstract!merge(v, w) = merge(v, w)
  /\ \A want, exists, etag : Abstract!matched(want, exists, etag) <=> matched(want, exists, etag)
  /\ \A kind : Abstract!Outcome(kind) = Outcome(kind)
  /\ \A info, bytes : Abstract!Found(info, bytes) = Found(info, bytes)
  /\ \A info, c : /\ Abstract!check_modified(info, c) <=> check_modified(info, c)
                  /\ Abstract!check_etag(info, c) <=> check_etag(info, c)
  /\ \A v, range, total :
       Abstract!record_bytes_range(v, range, total) = record_bytes_range(v, range, total)
  /\ \A c : Abstract!early_return(c) = early_return(c)
<1>1. Abstract!Bytes = Bytes
  BY DEF Bytes, Abstract!Bytes
<1>2. Abstract!Contents = Contents /\ Abstract!NoContent = NoContent
  BY DEF Contents, Abstract!Contents, NoContent, Abstract!NoContent
<1>3. Abstract!Entry = Entry
  BY <1>1, <1>2 DEF Entry, Abstract!Entry, Values, Abstract!Values
<1>4. \A v : Abstract!etag_from_bytes(v) = etag_from_bytes(v)
  BY DEF etag_from_bytes, Abstract!etag_from_bytes
<1>5. \A v : /\ Abstract!value_byte_length(v) = value_byte_length(v)
             /\ Abstract!value_etag(v) = value_etag(v)
  BY <1>4 DEF value_byte_length, Abstract!value_byte_length, value_etag, Abstract!value_etag
<1>6. \A v, w : Abstract!merge(v, w) = merge(v, w)
  BY DEF merge, Abstract!merge
<1>7. \A want, exists, etag : Abstract!matched(want, exists, etag) <=> matched(want, exists, etag)
  BY Zenon DEF matched, Abstract!matched
<1>8. \A kind : Abstract!Outcome(kind) = Outcome(kind)
  BY Zenon DEF Outcome, Abstract!Outcome
<1>9. \A info, bytes : Abstract!Found(info, bytes) = Found(info, bytes)
  BY Zenon DEF Found, Abstract!Found
<1>10. \A info, c : /\ Abstract!check_modified(info, c) <=> check_modified(info, c)
                    /\ Abstract!check_etag(info, c) <=> check_etag(info, c)
  BY <1>7, Zenon DEF check_modified, Abstract!check_modified, check_etag, Abstract!check_etag
<1>11. \A m, n : Abstract!AtMost(m, n) = AtMost(m, n)
  BY Zenon DEF AtMost, Abstract!AtMost
<1>12. \A v, range, total :
         Abstract!record_bytes_range(v, range, total) = record_bytes_range(v, range, total)
  BY <1>11, Zenon DEF record_bytes_range, Abstract!record_bytes_range
<1>13. \A c : Abstract!early_return(c) = early_return(c)
  BY Zenon DEF early_return, Abstract!early_return
<1> QED
  BY <1>1, <1>2, <1>3, <1>5, <1>6, <1>7, <1>8, <1>9, <1>10, <1>12, <1>13, Zenon

\* A sidecar that matches its entry tells nothing of it that the bytes do not,
\* the modification time and the content metadata aside.
LEMMA Seen ==
  ASSUME NEW D, NEW M, StoresOK(D, M), Matches(D, M), NEW k \in Paths, D[k] # None
  PROVE  /\ EntryAt(D, M, k) \in Entry /\ EntryAt(D, M, k) # None
         /\ EntryAt(D, M, k).value = D[k]
         /\ EntryAt(D, M, k).modified = entry_info(D, M, k).modified
         /\ EntryAt(D, M, k).content = entry_info(D, M, k).content
         /\ Abstract!Describe(EntryAt(D, M, k)) = entry_info(D, M, k)
         /\ entry_info(D, M, k).size = value_byte_length(D[k])
         /\ entry_info(D, M, k).etag = value_etag(D[k])
<1> DEFINE i == entry_info(D, M, k)
<1>1. D[k] \in Values /\ M[k] \in Metas /\ Describes(D[k], M[k])
  BY DEF StoresOK, Matches
<1>2. i \in EntryInfo
  BY EntryInfoType
<1>3. i.size = value_byte_length(D[k]) /\ i.etag = value_etag(D[k])
  <2>1. CASE read_meta(M, k) = None
    BY <2>1 DEF entry_info
  <2>2. CASE read_meta(M, k) # None
    <3>1. read_meta(M, k) = M[k] /\ M[k] \notin {None, BadMeta}
      BY <2>2 DEF read_meta
    <3>2. D[k] # NotBytes /\ M[k].l = Len(D[k]) /\ M[k].e \in {None, etag_from_bytes(D[k])}
      BY <1>1, <3>1 DEF Describes
    <3> QED
      BY <2>2, <3>1, <3>2
      DEF entry_info, entry_meta_with_etag_fallback, value_byte_length, value_etag
  <2> QED BY <2>1, <2>2
<1> HIDE DEF i
<1>4. [value |-> D[k], modified |-> i.modified, content |-> i.content] \in Entry
  BY <1>1, <1>2 DEF EntryInfo, Entry
<1>5. EntryAt(D, M, k) = [value |-> D[k], modified |-> i.modified, content |-> i.content]
  BY DEF EntryAt, i
<1>6. i = [size |-> i.size, modified |-> i.modified, etag |-> i.etag, content |-> i.content]
  BY <1>2 DEF EntryInfo
<1>7. Abstract!Describe(EntryAt(D, M, k)) = i
  BY <1>3, <1>5, <1>6, Words DEF Abstract!Describe
<1> QED
  BY <1>3, <1>4, <1>5, <1>7, EntryAssumption DEF i

\* Matching a condition with the sidecar is matching it with the bytes.
LEMMA SameMatch ==
  ASSUME NEW D, NEW M, StoresOK(D, M), Matches(D, M), NEW k \in Paths
  PROVE  existing_etag(D, M, k) = IF EntryAt(D, M, k) = None THEN None
                                  ELSE value_etag(EntryAt(D, M, k).value)
<1>1. CASE D[k] = None
  BY <1>1 DEF EntryAt, existing_etag
<1>2. CASE D[k] # None
  BY <1>2, Seen DEF existing_etag
<1> QED BY <1>1, <1>2
---------------------------------------------------------------------------
(***************************************************************************)
(* The bodies.  Each computes what the abstract call does to the map.      *)
(***************************************************************************)
Objs == [k \in Paths |-> Object(k)]
Sound == StoresOK(data, meta) /\ Matches(data, meta)

LEMMA ObjsAre ==
  /\ Objs = EntryMap(data, meta)
  /\ \A k \in Paths : Objs[k] = EntryAt(data, meta, k)
BY DEF Objs, EntryMap, EntryAt, Object

Same(v, effect) == EntryMap(v.data, v.meta) = effect.objects /\ v.out = effect.out

\* A call that leaves the stores alone has no effect on the map.
LEMMA SameEffect ==
  ASSUME NEW out
  PROVE  Same(View(data, meta, out), Abstract!Effect(Objs, out))
BY ObjsAre DEF Same, View, Abstract!Effect

LEMMA SameRetrieve ==
  ASSUME Sound, NEW c \in StatCall \cup ReadCall
  PROVE  Same(IF c.op = "stat" THEN stat(data, meta, c) ELSE read(data, meta, c),
              Abstract!Retrieve(c))
<1> DEFINE k == c.conditions.path
           o == Objs[k]
           info == entry_info(data, meta, k)
<1>1. k \in Paths /\ (c \in StatCall => c.op = "stat") /\ (c \in ReadCall => c.op = "read")
  BY DEF StatCall, ReadCall, Conditions
<1>2. o = EntryAt(data, meta, k)
  BY <1>1, ObjsAre
<1>3. CASE data[k] = None
  <2>1. o = None
    BY <1>2, <1>3 DEF EntryAt
  <2>2. Abstract!Retrieve(c) = Abstract!Effect(Objs, Outcome("NotFound"))
    BY <2>1, Words DEF Abstract!Retrieve, Abstract!NoEffect, Objs
  <2> QED BY <1>3, <2>2, SameEffect DEF stat, read
<1>4. CASE data[k] # None
  <2>1. /\ o # None /\ o.value = data[k] /\ Abstract!Describe(o) = info
        /\ info.size = value_byte_length(data[k])
    BY <1>1, <1>2, <1>4, Seen DEF Sound
  <2> DEFINE total == IF info.size # None THEN info.size ELSE 0
             met == check_modified(info, c.conditions) /\ check_etag(info, c.conditions)
             bytes == record_bytes_range(data[k], c.range, total)
             rbytes == record_bytes_range(data[k], c.range, Len(data[k]))
  <2>2. data[k] # NotBytes => bytes = rbytes
    <3>1. ASSUME data[k] # NotBytes PROVE total = Len(data[k])
      <4>1. data[k] \in Bytes
        BY <1>1, <1>4, <3>1 DEF Sound, StoresOK, Values
      <4>2. Len(data[k]) \in Nat /\ Len(data[k]) # None
        BY <4>1, ETagsAssumption DEF Bytes
      <4> QED BY <2>1, <3>1, <4>2 DEF value_byte_length
    <3> QED BY <3>1
  <2>3. Abstract!Retrieve(c) =
          Abstract!Effect(Objs,
            IF ~met THEN Outcome("ConditionNotMatch")
            ELSE IF c.op = "stat" THEN Found(info, None)
            ELSE IF data[k] = NotBytes THEN Outcome("Unexpected")
            ELSE Found(info, rbytes))
    BY <2>1, Words DEF Abstract!Retrieve, Abstract!NoEffect, Objs
  <2> HIDE DEF total, met, bytes, rbytes, info
  <2>4. stat(data, meta, c) = View(data, meta, IF ~met THEN Outcome("ConditionNotMatch")
                                               ELSE Found(info, None))
    BY <1>4, Zenon DEF stat, met, info
  <2>5. read(data, meta, c) = View(data, meta,
            IF ~met THEN Outcome("ConditionNotMatch")
            ELSE IF data[k] = NotBytes THEN Outcome("Unexpected")
            ELSE Found(info, bytes))
    BY <1>4, Zenon DEF read, met, info, bytes, total
  <2> QED BY <1>1, <2>2, <2>3, <2>4, <2>5, SameEffect
<1> QED BY <1>3, <1>4

\* Writing a record with the sidecar that describes it changes one entry.
LEMMA Installed ==
  ASSUME NEW D, NEW M, StoresOK(D, M), NEW k \in Paths,
         NEW v \in Bytes, NEW info \in EntryInfo, info.size = Len(v)
  PROVE  EntryMap([D EXCEPT ![k] = v], [M EXCEPT ![k] = put_meta(info)]) =
           [EntryMap(D, M) EXCEPT
              ![k] = [value |-> v, modified |-> info.modified, content |-> info.content]]
<1> DEFINE D1 == [D EXCEPT ![k] = v]
           M1 == [M EXCEPT ![k] = put_meta(info)]
           new == [value |-> v, modified |-> info.modified, content |-> info.content]
<1>1. v # None /\ Len(v) \in Nat
  BY ValuesAssumption DEF Bytes, Values
<1>2. put_meta(info) \in MetaRecord /\ put_meta(info).m = info.modified /\ put_meta(info).c = info.content
  BY <1>1 DEF put_meta, MetaRecord, EntryInfo
<1>3. put_meta(info) # None /\ put_meta(info) # BadMeta
  BY <1>2, MetaAssumption
<1>4. D1[k] = v /\ M1[k] = put_meta(info)
  BY DEF StoresOK
<1>5. \A q \in Paths : q # k => D1[q] = D[q] /\ M1[q] = M[q]
  BY DEF StoresOK
<1> HIDE DEF D1, M1
<1>6. EntryAt(D1, M1, k) = new
  <2>1. read_meta(M1, k) = put_meta(info)
    BY <1>3, <1>4 DEF read_meta
  <2>2. /\ entry_info(D1, M1, k).modified = info.modified
        /\ entry_info(D1, M1, k).content = info.content
    BY <1>2, <1>3, <2>1 DEF entry_info, entry_meta_with_etag_fallback
  <2> QED BY <1>1, <1>4, <2>2 DEF EntryAt
<1>7. \A q \in Paths : q # k => EntryAt(D1, M1, q) = EntryAt(D, M, q)
  BY <1>5 DEF EntryAt, entry_info, read_meta
<1>8. EntryMap(D1, M1) = [EntryMap(D, M) EXCEPT ![k] = new]
  BY <1>6, <1>7 DEF EntryMap
<1> QED BY <1>8 DEF D1, M1

\* Removing records with their sidecars removes the entries, and no other.
LEMMA Removed ==
  ASSUME NEW D, NEW M, NEW gone
  PROVE  EntryMap(without(D, gone), without(M, gone)) =
           [k \in Paths |-> IF k \in gone THEN None ELSE EntryMap(D, M)[k]]
<1> SUFFICES ASSUME NEW k \in Paths
             PROVE  EntryAt(without(D, gone), without(M, gone), k) =
                      IF k \in gone THEN None ELSE EntryMap(D, M)[k]
  BY DEF EntryMap
<1>1. CASE k \in gone
  BY <1>1 DEF EntryAt, without
<1>2. CASE k \notin gone
  <2>1. without(D, gone)[k] = D[k] /\ without(M, gone)[k] = M[k]
    BY <1>2 DEF without
  <2> QED BY <1>2, <2>1 DEF EntryAt, EntryMap, entry_info, read_meta
<1> QED BY <1>1, <1>2

LEMMA SameStore ==
  ASSUME Sound, NEW c \in SetCall, NEW now \in Times
  PROVE  Same(set(data, meta, c, now), Abstract!Store(c, now))
<1> DEFINE k == c.path
           o == Objs[k]
           unconditional_overwrite == /\ ~c.append /\ ~c.if_not_exists
                                      /\ c.if_match = None /\ c.if_none_match = None
           existing_data == IF unconditional_overwrite THEN None ELSE data[k]
           exists == existing_data # None
           existing_meta == IF exists THEN read_meta(meta, k) ELSE None
           etag == IF exists THEN existing_etag(data, meta, k) ELSE None
           keeps == c.append /\ exists
           bytes == (IF keeps THEN existing_data ELSE <<>>) \o c.bytes
           kept == IF c.append /\ existing_meta # None THEN existing_meta.c ELSE NoContent
           info == [size |-> Len(bytes), modified |-> now, etag |-> etag_from_bytes(bytes),
                    content |-> merge(kept, c.content)]
           refused == \/ c.if_not_exists /\ exists
                      \/ c.if_match # None /\ ~matched(c.if_match, exists, etag)
                      \/ c.if_none_match # None /\ matched(c.if_none_match, exists, etag)
           akeeps == c.append /\ o # None
           new == [value    |-> (IF akeeps THEN o.value ELSE <<>>) \o c.bytes,
                   modified |-> now,
                   content  |-> merge(IF akeeps THEN o.content ELSE NoContent, c.content)]
           aetag == IF o = None THEN None ELSE value_etag(o.value)
           arefused == \/ c.if_not_exists /\ o # None
                       \/ c.if_match # None /\ ~matched(c.if_match, o # None, aetag)
                       \/ c.if_none_match # None /\ matched(c.if_none_match, o # None, aetag)
<1>1. /\ k \in Paths /\ c.bytes \in Seq(Byte) /\ c.content \in Contents
      /\ c.append \in BOOLEAN /\ c.if_not_exists \in BOOLEAN
  BY DEF SetCall, Bytes
<1>2. o = EntryAt(data, meta, k) /\ (o = None <=> data[k] = None)
  BY <1>1, ObjsAre, Seen DEF Sound, EntryAt
<1>3. data[k] # None => o.value = data[k] /\ o.content = entry_info(data, meta, k).content
  BY <1>1, <1>2, Seen DEF Sound
<1>4. aetag = existing_etag(data, meta, k)
  BY <1>1, <1>2, SameMatch DEF Sound
<1>5. keeps <=> akeeps
  BY <1>2
<1>6. refused <=> arefused
  <2>1. CASE unconditional_overwrite
    BY <2>1
  <2>2. CASE ~unconditional_overwrite
    <3>1. (exists <=> o # None) /\ etag = aetag
      <4>1. existing_data = data[k]
        BY <2>2
      <4>2. exists <=> o # None
        BY <1>2, <4>1
      <4>3. o = None => aetag = None
        OBVIOUS
      <4> QED BY <1>4, <4>2, <4>3
    <3> HIDE DEF exists, o, etag, aetag
    <3> QED BY <3>1 DEF matched
  <2> QED BY <2>1, <2>2
<1>7. keeps => existing_data = data[k] /\ o.value = data[k]
  BY <1>3
<1>8. bytes = new.value
  BY <1>5, <1>7
<1>9. info.content = new.content
  <2>1. CASE keeps
    <3>1. existing_meta = read_meta(meta, k) /\ o.content = entry_info(data, meta, k).content
      BY <1>3, <2>1
    <3>2. kept = entry_info(data, meta, k).content
      BY <2>1, <3>1 DEF entry_info, entry_meta_with_etag_fallback
    <3> QED BY <1>5, <2>1, <3>1, <3>2
  <2>2. CASE ~keeps
    <3>1. kept = NoContent
      BY <2>2
    <3> QED BY <1>5, <2>2, <3>1
  <2> QED BY <2>1, <2>2
<1>10. (keeps /\ existing_data = NotBytes) <=> (akeeps /\ o.value = NotBytes)
  BY <1>5, <1>7
<1>11. set(data, meta, c, now) =
         IF refused THEN View(data, meta, Outcome("ConditionNotMatch"))
         ELSE IF keeps /\ existing_data = NotBytes THEN View(data, meta, Outcome("Unexpected"))
         ELSE View([data EXCEPT ![k] = bytes], [meta EXCEPT ![k] = put_meta(info)],
                   Found(info, None))
  BY DEF set
<1>12. Abstract!Store(c, now) =
         IF arefused THEN Abstract!Effect(Objs, Outcome("ConditionNotMatch"))
         ELSE IF akeeps /\ o.value = NotBytes THEN Abstract!Effect(Objs, Outcome("Unexpected"))
         ELSE Abstract!Effect([Objs EXCEPT ![k] = new], Found(Abstract!Describe(new), None))
  <2>1. arefused <=> \/ c.if_not_exists /\ o # None
                     \/ c.if_match # None /\ ~Abstract!Matched(c.if_match, k)
                     \/ c.if_none_match # None /\ Abstract!Matched(c.if_none_match, k)
    BY Words DEF Abstract!Matched, Abstract!EtagAt, Objs
  <2>2. new = [value    |-> (IF akeeps THEN o.value ELSE <<>>) \o c.bytes,
               modified |-> now,
               content  |-> Abstract!merge(IF akeeps THEN o.content ELSE Abstract!NoContent, c.content)]
    BY Words
  <2> DEFINE anew == [value    |-> (IF akeeps THEN o.value ELSE <<>>) \o c.bytes,
                      modified |-> now,
                      content  |-> Abstract!merge(IF akeeps THEN o.content ELSE Abstract!NoContent,
                                                  c.content)]
  <2>3. Abstract!Store(c, now) =
          IF \/ c.if_not_exists /\ o # None
             \/ c.if_match # None /\ ~Abstract!Matched(c.if_match, k)
             \/ c.if_none_match # None /\ Abstract!Matched(c.if_none_match, k)
          THEN Abstract!NoEffect("ConditionNotMatch")
          ELSE IF akeeps /\ o.value = NotBytes THEN Abstract!NoEffect("Unexpected")
          ELSE Abstract!Effect([Objs EXCEPT ![k] = anew],
                               Abstract!Found(Abstract!Describe(anew), None))
    BY Zenon DEF Abstract!Store, Objs
  <2>4. \A kind : Abstract!NoEffect(kind) = Abstract!Effect(Objs, Outcome(kind))
    BY Words DEF Abstract!NoEffect, Objs
  <2> HIDE DEF arefused, new, anew, o, akeeps
  <2> QED BY <2>1, <2>2, <2>3, <2>4, Words DEF anew
<1>13. ASSUME ~(keeps /\ existing_data = NotBytes)
       PROVE  Same(View([data EXCEPT ![k] = bytes], [meta EXCEPT ![k] = put_meta(info)],
                        Found(info, None)),
                   Abstract!Effect([Objs EXCEPT ![k] = new], Found(Abstract!Describe(new), None)))
  <2>1. (IF keeps THEN existing_data ELSE <<>>) \in Seq(Byte)
    BY <1>1, <1>13 DEF Sound, StoresOK, Values, Bytes
  <2>2. bytes \in Bytes /\ Len(bytes) \in Nat
    <3>1. \A s, u \in Seq(Byte) : s \o u \in Seq(Byte)
      OBVIOUS
    <3>2. \A s \in Seq(Byte) : Len(s) \in Nat
      OBVIOUS
    <3>3. bytes \in Seq(Byte)
      BY ONLY <1>1, <2>1, <3>1, Zenon
    <3> QED
      BY <3>2, <3>3, Zenon DEF Bytes
  <2>3. info.content \in Contents
    <3>1. kept \in Contents
      BY <1>1 DEF Sound, StoresOK, Metas, MetaRecord, read_meta, NoContent, Contents
    <3>2. merge(kept, c.content) \in Contents
      <4> HIDE DEF kept
      <4> QED BY <1>1, <3>1 DEF merge, Contents
    <3> QED BY <3>2
  <2>4. etag_from_bytes(bytes) \in ETags /\ bytes # NotBytes
    BY <2>2, ValuesAssumption DEF etag_from_bytes, ETags
  <2> HIDE DEF bytes, kept
  <2>5. info \in EntryInfo /\ info.size = Len(bytes) /\ info.modified = now
    BY <2>2, <2>3, <2>4 DEF EntryInfo
  <2>6. new = [value |-> bytes, modified |-> info.modified, content |-> info.content]
    BY <1>8, <1>9
  <2>7. Abstract!Describe(new) = info
    BY <2>4, <2>6, Words DEF Abstract!Describe, value_byte_length, value_etag
  <2> HIDE DEF info, new
  <2>8. EntryMap([data EXCEPT ![k] = bytes], [meta EXCEPT ![k] = put_meta(info)]) =
          [Objs EXCEPT ![k] = new]
    BY <1>1, <2>2, <2>5, <2>6, Installed, ObjsAre DEF Sound
  <2> QED BY <2>7, <2>8 DEF Same, View, Abstract!Effect
<1> HIDE DEF refused, arefused, keeps, akeeps, existing_data, bytes, info, new, o
<1> QED BY <1>6, <1>10, <1>11, <1>12, <1>13, SameEffect

LEMMA SameRemove ==
  ASSUME NEW c \in DeleteCall
  PROVE  Same(delete_many(data, meta, c), Abstract!Remove(c))
<1> DEFINE gone == UNION {targets(d) : d \in c.batch}
<1>1. ASSUME NEW p \in Paths
      PROVE  p \in gone <=>
               \E d \in c.batch : p = d.path \/ (d.recursive /\ p \in Subtree[d.path])
  <2>1. ASSUME NEW d \in c.batch
        PROVE  p \in targets(d) <=> p = d.path \/ (d.recursive /\ p \in Subtree[d.path])
    <3>1. d.path \in Paths /\ d.recursive \in BOOLEAN
      BY DEF DeleteCall
    <3> QED BY <3>1, PathsAssumption DEF targets
  <2> QED BY <2>1
<1>2. Abstract!Remove(c) =
        Abstract!Effect([p \in Paths |-> IF p \in gone THEN None ELSE Objs[p]], Outcome("Ok"))
  BY <1>1, Words DEF Abstract!Remove, Objs
<1>3. delete_many(data, meta, c) = View(without(data, gone), without(meta, gone), Outcome("Ok"))
  BY Zenon DEF delete_many
<1> HIDE DEF gone
<1> QED BY <1>2, <1>3, Removed, ObjsAre DEF Same, View, Abstract!Effect

LEMMA SameDuplicate ==
  ASSUME Sound, NEW c \in CopyCall, NEW now \in Times
  PROVE  Same(copy(data, meta, c, now), Abstract!Duplicate(c, now))
<1> DEFINE o == Objs[c.from]
           there == Objs[c.to]
           info == [source_info(data, meta, c.from) EXCEPT !.modified = now]
           new == [o EXCEPT !.modified = now]
           etag == existing_etag(data, meta, c.to)
           refused == \/ c.if_not_exists /\ data[c.to] # None
                      \/ c.if_match # None /\ ~matched(c.if_match, data[c.to] # None, etag)
<1>1. c.from \in Paths /\ c.to \in Paths
  BY DEF CopyCall
<1>2. /\ o = EntryAt(data, meta, c.from) /\ (o = None <=> data[c.from] = None)
      /\ there = EntryAt(data, meta, c.to) /\ (there = None <=> data[c.to] = None)
  BY <1>1, ObjsAre, Seen DEF Sound, EntryAt
<1>3. data[c.from] # None =>
        /\ o \in Entry /\ o.value = data[c.from]
        /\ o.content = entry_info(data, meta, c.from).content
  BY <1>1, <1>2, Seen DEF Sound
<1>4. etag = IF there = None THEN None ELSE value_etag(there.value)
  BY <1>1, <1>2, SameMatch DEF Sound
<1>5. Abstract!EtagAt(c.to) = etag
  BY <1>4, Words DEF Abstract!EtagAt, Objs
<1>6. refused <=> \/ c.if_not_exists /\ there # None
                  \/ c.if_match # None /\ ~Abstract!Matched(c.if_match, c.to)
  BY <1>2, <1>5, Words DEF Abstract!Matched, Objs
<1>7. copy(data, meta, c, now) =
        IF data[c.from] = None THEN View(data, meta, Outcome("NotFound"))
        ELSE IF refused THEN View(data, meta, Outcome("ConditionNotMatch"))
        ELSE IF data[c.from] = NotBytes THEN View(data, meta, Outcome("Unexpected"))
        ELSE View([data EXCEPT ![c.to] = data[c.from]], [meta EXCEPT ![c.to] = put_meta(info)],
                  Found(info, None))
  BY DEF copy
<1>8. Abstract!Duplicate(c, now) =
        IF o = None THEN Abstract!NoEffect("NotFound")
        ELSE IF \/ c.if_not_exists /\ there # None
                \/ c.if_match # None /\ ~Abstract!Matched(c.if_match, c.to)
        THEN Abstract!NoEffect("ConditionNotMatch")
        ELSE IF o.value = NotBytes THEN Abstract!NoEffect("Unexpected")
        ELSE Abstract!Effect([Objs EXCEPT ![c.to] = new],
                             Abstract!Found(Abstract!Describe(new), None))
  BY Zenon DEF Abstract!Duplicate, Objs
<1>9. \A kind : Abstract!NoEffect(kind) = Abstract!Effect(Objs, Outcome(kind))
  BY Words DEF Abstract!NoEffect, Objs
<1>10. ASSUME data[c.from] # None, data[c.from] # NotBytes
       PROVE  Same(View([data EXCEPT ![c.to] = data[c.from]],
                        [meta EXCEPT ![c.to] = put_meta(info)], Found(info, None)),
                   Abstract!Effect([Objs EXCEPT ![c.to] = new], Found(Abstract!Describe(new), None)))
  <2>1. data[c.from] \in Bytes
    BY <1>1, <1>10 DEF Sound, StoresOK, Values
  <2> DEFINE from == source_info(data, meta, c.from)
  <2>2. /\ from \in EntryInfo /\ from.size = Len(data[c.from])
        /\ from.etag = etag_from_bytes(data[c.from])
    BY <1>1, <2>1, SourceInfo DEF Sound
  <2>3. from.content = entry_info(data, meta, c.from).content
    BY DEF source_info, entry_info, entry_meta_with_etag_fallback
  <2> HIDE DEF from
  <2>4. info = [from EXCEPT !.modified = now]
    BY DEF from
  <2>5. /\ info \in EntryInfo /\ info.size = Len(data[c.from]) /\ info.modified = now
        /\ info.etag = etag_from_bytes(data[c.from]) /\ info.content = from.content
    BY <2>2, <2>4 DEF EntryInfo
  <2> HIDE DEF info
  <2>6. new = [value |-> data[c.from], modified |-> now, content |-> info.content]
    BY <1>3, <1>10, <2>3, <2>5 DEF Entry
  <2> HIDE DEF new
  <2>7. info = [size |-> Len(data[c.from]), modified |-> now,
                etag |-> etag_from_bytes(data[c.from]), content |-> info.content]
    BY <2>5 DEF EntryInfo
  <2>8. Abstract!Describe(new) = info
    BY <1>10, <2>6, <2>7, Words DEF Abstract!Describe, value_byte_length, value_etag
  <2>9. EntryMap([data EXCEPT ![c.to] = data[c.from]], [meta EXCEPT ![c.to] = put_meta(info)]) =
          [Objs EXCEPT ![c.to] = new]
    <3>1. EntryMap([data EXCEPT ![c.to] = data[c.from]], [meta EXCEPT ![c.to] = put_meta(info)]) =
            [EntryMap(data, meta) EXCEPT
               ![c.to] = [value |-> data[c.from], modified |-> info.modified,
                          content |-> info.content]]
      <4> DEFINE k == c.to
                 v == data[c.from]
      <4>1. StoresOK(data, meta) /\ k \in Paths /\ v \in Bytes /\ info.size = Len(v)
        BY <1>1, <2>1, <2>5 DEF Sound
      <4> HIDE DEF k, v
      <4>2. EntryMap([data EXCEPT ![k] = v], [meta EXCEPT ![k] = put_meta(info)]) =
              [EntryMap(data, meta) EXCEPT
                 ![k] = [value |-> v, modified |-> info.modified, content |-> info.content]]
        BY <2>5, <4>1, Installed
      <4> QED BY <4>2 DEF k, v
    <3>2. new = [value |-> data[c.from], modified |-> info.modified, content |-> info.content]
      BY <2>5, <2>6
    <3> QED BY <3>1, <3>2, ObjsAre, Zenon
  <2> QED BY <2>8, <2>9 DEF Same, View, Abstract!Effect
<1> HIDE DEF o, there, info, new, etag, refused
<1> QED BY <1>2, <1>3, <1>6, <1>7, <1>8, <1>9, <1>10, SameEffect, Words

LEMMA SameMove ==
  ASSUME Sound, NEW c \in RenameCall
  PROVE  Same(rename(data, meta, c), Abstract!Move(c))
<1> DEFINE o == Objs[c.from]
           info == source_info(data, meta, c.from)
           D1 == [data EXCEPT ![c.to] = data[c.from]]
           M1 == [meta EXCEPT ![c.to] = put_meta(info)]
           D2 == [data EXCEPT ![c.to] = data[c.from], ![c.from] = None]
           M2 == [meta EXCEPT ![c.to] = put_meta(info), ![c.from] = None]
<1>1. c.from \in Paths /\ c.to \in Paths
  BY DEF RenameCall
<1>2. o = EntryAt(data, meta, c.from) /\ (o = None <=> data[c.from] = None)
  BY <1>1, ObjsAre, Seen DEF Sound, EntryAt
<1>3. data[c.from] # None =>
        /\ o \in Entry /\ o.value = data[c.from]
        /\ o.modified = entry_info(data, meta, c.from).modified
        /\ o.content = entry_info(data, meta, c.from).content
  BY <1>1, <1>2, Seen DEF Sound
<1>4. rename(data, meta, c) =
        IF data[c.from] = None THEN View(data, meta, Outcome("NotFound"))
        ELSE IF data[c.from] = NotBytes THEN View(data, meta, Outcome("Unexpected"))
        ELSE View(D2, M2, Outcome("Ok"))
  BY Zenon DEF rename
<1>5. Abstract!Move(c) =
        IF o = None THEN Abstract!NoEffect("NotFound")
        ELSE IF o.value = NotBytes THEN Abstract!NoEffect("Unexpected")
        ELSE Abstract!Effect([Objs EXCEPT ![c.to] = o, ![c.from] = None], Abstract!Outcome("Ok"))
  BY Zenon DEF Abstract!Move, Objs
<1>6. \A kind : Abstract!NoEffect(kind) = Abstract!Effect(Objs, Outcome(kind))
  BY Words DEF Abstract!NoEffect, Objs
<1>7. ASSUME data[c.from] # None, data[c.from] # NotBytes
      PROVE  EntryMap(D2, M2) = [Objs EXCEPT ![c.to] = o, ![c.from] = None]
  <2>1. data[c.from] \in Bytes
    BY <1>1, <1>7 DEF Sound, StoresOK, Values
  <2>2. info \in EntryInfo /\ info.size = Len(data[c.from])
    BY <1>1, <2>1, SourceInfo DEF Sound
  <2>3. /\ info.content = entry_info(data, meta, c.from).content
        /\ info.modified = entry_info(data, meta, c.from).modified
    BY DEF source_info, entry_info, entry_meta_with_etag_fallback
  <2>4. o = [value |-> data[c.from], modified |-> info.modified, content |-> info.content]
    BY <1>3, <1>7, <2>3 DEF Entry
  <2>5. /\ D2 = without(D1, {c.from})
        /\ M2 = without(M1, {c.from})
    BY <1>1 DEF without, Sound, StoresOK
  <2> HIDE DEF info, o
  <2>6. EntryMap(D1, M1) = [Objs EXCEPT ![c.to] = o]
    <3>1. EntryMap(D1, M1) =
            [EntryMap(data, meta) EXCEPT
               ![c.to] = [value |-> data[c.from], modified |-> info.modified,
                          content |-> info.content]]
      <4> DEFINE k == c.to
                 v == data[c.from]
      <4>1. StoresOK(data, meta) /\ k \in Paths /\ v \in Bytes /\ info.size = Len(v)
        BY <1>1, <2>1, <2>2 DEF Sound
      <4> HIDE DEF k, v
      <4>2. EntryMap([data EXCEPT ![k] = v], [meta EXCEPT ![k] = put_meta(info)]) =
              [EntryMap(data, meta) EXCEPT
                 ![k] = [value |-> v, modified |-> info.modified, content |-> info.content]]
        BY <2>2, <4>1, Installed
      <4> QED BY <4>2 DEF k, v
    <3> QED BY <2>4, <3>1, ObjsAre, Zenon
  <2> HIDE DEF D1, M1, D2, M2
  <2>7. EntryMap(D2, M2) = [k \in Paths |-> IF k \in {c.from} THEN None ELSE EntryMap(D1, M1)[k]]
    BY <2>5, Removed
  <2> QED BY <1>1, <2>6, <2>7 DEF Objs
<1> HIDE DEF o, info, D1, M1, D2, M2
<1>8. data[c.from] # None /\ data[c.from] # NotBytes =>
        Same(View(D2, M2, Outcome("Ok")),
             Abstract!Effect([Objs EXCEPT ![c.to] = o, ![c.from] = None], Outcome("Ok")))
  BY <1>7 DEF Same, View, Abstract!Effect
<1> QED BY <1>2, <1>3, <1>4, <1>5, <1>6, <1>8, SameEffect, Words

\* Whatever the call, its body computes the abstract effect.
LEMMA SameBody ==
  ASSUME Sound, NEW c \in Call, NEW now \in Times, early_return(c) = None
  PROVE  Same(Body(data, meta, c, now), Abstract!Apply(c, now))
<1>1. /\ c.op = "set" => c \in SetCall
      /\ c.op = "delete" => c \in DeleteCall
      /\ c.op = "stat" => c \in StatCall
      /\ c.op = "read" => c \in ReadCall
      /\ c.op = "copy" => c \in CopyCall
      /\ c.op = "rename" => c \in RenameCall
      /\ c.op \in {"set", "delete", "stat", "read", "copy", "rename"}
  BY DEF Call, SetCall, DeleteCall, StatCall, ReadCall, CopyCall, RenameCall
<1>2. Abstract!Apply(c, now) =
        CASE c.op \in {"stat", "read"} -> Abstract!Retrieve(c)
          [] c.op = "set"    -> Abstract!Store(c, now)
          [] c.op = "delete" -> Abstract!Remove(c)
          [] c.op = "copy"   -> Abstract!Duplicate(c, now)
          [] c.op = "rename" -> Abstract!Move(c)
  BY Words DEF Abstract!Apply
<1>3. CASE c.op = "stat"
  BY <1>1, <1>2, <1>3, SameRetrieve DEF Body
<1>4. CASE c.op = "read"
  BY <1>1, <1>2, <1>4, SameRetrieve DEF Body
<1>5. CASE c.op = "set"
  BY <1>1, <1>2, <1>5, SameStore DEF Body
<1>6. CASE c.op = "delete"
  BY <1>1, <1>2, <1>6, SameRemove DEF Body
<1>7. CASE c.op = "copy"
  BY <1>1, <1>2, <1>7, SameDuplicate DEF Body
<1>8. CASE c.op = "rename"
  BY <1>1, <1>2, <1>8, SameMove DEF Body
<1> QED BY <1>1, <1>3, <1>4, <1>5, <1>6, <1>7, <1>8
---------------------------------------------------------------------------
(***************************************************************************)
(* The steps.  Beside the isolation of transactions, which makes a commit  *)
(* the moment at which a call takes effect, the mapping needs that a call  *)
(* has no result before it is done, and that the calls that return early   *)
(* never get a transaction.                                                *)
(***************************************************************************)
NoResultYet == \A t \in Clients : phase[t] # "done" => result[t] = None
NoEarlyCall == \A t \in Clients : phase[t] \in live => early_return(call[t]) = None
RInv == SInv /\ NoResultYet /\ NoEarlyCall

LEMMA RInvInit == Init => RInv
BY SInvInit DEF Init, ClientsInit, RInv, NoResultYet, NoEarlyCall, live

LEMMA RInvStep == RInv /\ [Next]_vars => RInv'
<1> SUFFICES ASSUME RInv, [Next]_vars PROVE NoResultYet' /\ NoEarlyCall'
  BY SInvStep DEF RInv
<1> USE DEF RInv, SInv, IInv, TypeOK, NoResultYet, NoEarlyCall, live
<1>1. ASSUME NEW t \in Clients, NEW p, NEW r, Leave(t, p, r), p = "done" \/ r = None,
             p \notin live, \A u \in Clients \ {t} : call'[u] = call[u]
      PROVE  NoResultYet' /\ NoEarlyCall'
  BY <1>1 DEF Leave
<1>2. ASSUME NEW t \in Clients, NEW c \in Calls, Invoke(t, c) PROVE NoResultYet' /\ NoEarlyCall'
  BY <1>2 DEF Invoke
<1>3. ASSUME NEW t \in Clients, CreateTransaction(t) PROVE NoResultYet' /\ NoEarlyCall'
  BY <1>3 DEF CreateTransaction
<1>4. ASSUME NEW t \in Clients, Run(t) PROVE NoResultYet' /\ NoEarlyCall'
  BY <1>4 DEF Run
<1>5. ASSUME NEW t \in Clients, Shortcut(t) \/ Commit(t) \/ Fail(t)
      PROVE  NoResultYet' /\ NoEarlyCall'
  BY <1>1, <1>5 DEF Shortcut, Commit, Fail
<1>6. ASSUME NEW t \in Clients, Panic(t) \/ LoseConnection(t) \/ Return(t) \/ Reload(t)
      PROVE  NoResultYet' /\ NoEarlyCall'
  BY <1>1, <1>6 DEF Panic, LoseConnection, Return, Reload
<1>7. ASSUME NEW k \in Paths, Legacy(k) PROVE NoResultYet' /\ NoEarlyCall'
  BY <1>7 DEF Legacy
<1>8. CASE UNCHANGED vars
  BY <1>8 DEF vars
<1> QED
  BY <1>2, <1>3, <1>4, <1>5, <1>6, <1>7, <1>8 DEF Next

LEMMA RInvSound == RInv => Sound
BY DEF Sound, RInv, SInv, IInv, TypeOK, SidecarMatches, StoresOK, Matches

Status == [t \in Clients |-> CASE phase[t] \in {"idle", "done"} -> phase[t]
                               [] OTHER -> "pending"]

LEMMA ObjsNext == Objs' = EntryMap(data', meta')
BY DEF Objs, EntryMap, EntryAt, Object, entry_info, read_meta, entry_meta_with_etag_fallback,
       value_etag, value_byte_length, etag_from_bytes, NoContent

LEMMA StatusIs ==
  /\ \A t \in Clients : Status[t] = IF phase[t] \in {"idle", "done"} THEN phase[t] ELSE "pending"
  /\ \A t \in Clients : Status'[t] = IF phase'[t] \in {"idle", "done"} THEN phase'[t] ELSE "pending"
  /\ Status = [t \in Clients |-> Status[t]] /\ Status' = [t \in Clients |-> Status'[t]]
BY DEF Status

\* A step that leaves all that clients see as it is.
Stutter == Objs' = Objs /\ Status' = Status /\ call' = call /\ result' = result
\* The call of t ends with `out`.
Answered(t, out) ==
  /\ Status[t] = "pending" /\ Status' = [Status EXCEPT ![t] = "done"]
  /\ result' = [result EXCEPT ![t] = out]
  /\ call' = call

LEMMA LeaveSeen ==
  ASSUME RInv, NEW t \in Clients, NEW p, NEW r, Leave(t, p, r)
  PROVE  /\ phase[t] \in running /\ p = "done" =>
              /\ Status[t] = "pending" /\ Status' = [Status EXCEPT ![t] = "done"]
              /\ result' = [result EXCEPT ![t] = r]
         /\ phase[t] \in running /\ p \in {"calling", "panicked"} /\ r = None =>
              Status' = Status /\ result' = result
         /\ phase[t] # "idle" /\ p = "idle" =>
              Status[t] \in {"pending", "done"} /\ Status' = [Status EXCEPT ![t] = "idle"]
         /\ result' = [result EXCEPT ![t] = r]
<1>1. /\ phase \in [Clients -> running \cup {"idle", "done", "panicked"}]
      /\ result = [u \in Clients |-> result[u]]
      /\ phase[t] # "done" => result[t] = None
  BY DEF RInv, SInv, IInv, TypeOK, NoResultYet
<1>2. phase' = [phase EXCEPT ![t] = p] /\ result' = [result EXCEPT ![t] = r]
  BY DEF Leave
<1>3. \A u \in Clients \ {t} : Status'[u] = Status[u]
  BY <1>1, <1>2, StatusIs
<1>4. phase'[t] = p
  BY <1>1, <1>2
<1>5. \A s : Status'[t] = s => Status' = [Status EXCEPT ![t] = s]
  BY <1>3, StatusIs
<1>6. ASSUME phase[t] \in running, p = "done"
      PROVE  Status[t] = "pending" /\ Status'[t] = "done"
  BY <1>4, <1>6, StatusIs DEF running
<1>7. ASSUME phase[t] \in running, p \in {"calling", "panicked"}, r = None
      PROVE  Status' = Status /\ result' = result
  <2>1. Status'[t] = "pending" /\ Status[t] = "pending"
    BY <1>4, <1>7, StatusIs DEF running
  <2>2. result' = result
    BY <1>1, <1>2, <1>7 DEF running
  <2> QED BY <1>3, <2>1, <2>2, StatusIs
<1>8. ASSUME phase[t] # "idle", p = "idle"
      PROVE  Status[t] \in {"pending", "done"} /\ Status'[t] = "idle"
  BY <1>1, <1>4, <1>8, StatusIs DEF running
<1> QED BY <1>2, <1>5, <1>6, <1>7, <1>8

\* A step to another phase that clients do not tell from this one.
LEMMA PhaseUnseen ==
  ASSUME RInv, NEW t \in Clients, NEW p \in {"queued", "active"}, phase[t] \in running,
         phase' = [phase EXCEPT ![t] = p]
  PROVE  Status' = Status
<1>1. \A u \in Clients : phase'[u] = phase[u] \/ {phase[u], phase'[u]} \subseteq running
  BY DEF RInv, SInv, IInv, TypeOK, running
<1> QED BY <1>1, StatusIs DEF running

LEMMA ServedStep ==
  ASSUME RInv, NEW t \in Clients, NEW now \in Times,
         Answered(t, Abstract!Apply(call[t], now).out),
         Objs' = Abstract!Apply(call[t], now).objects
  PROVE  Abstract!Next
<1>1. Abstract!Perform(t)
  BY DEF Abstract!Perform, Abstract!Respond, Answered, Objs, Status
<1> QED BY <1>1 DEF Abstract!Next

\* Every step of the transactions is a step of the map of entries, or changes
\* nothing that clients see.
LEMMA StepImplements ==
  ASSUME RInv, [Next]_vars
  PROVE  Abstract!Next \/ Stutter
<1>1. Sound
  BY RInvSound
<1>2. UNCHANGED stores => Objs' = Objs
  BY ObjsNext, ObjsAre DEF stores
<1>3. ASSUME NEW t \in Clients, NEW c \in Calls, Invoke(t, c) PROVE Abstract!Next
  <2>1. /\ Status[t] = "idle" /\ Status' = [Status EXCEPT ![t] = "pending"]
        /\ call' = [call EXCEPT ![t] = c] /\ Objs' = Objs /\ result' = result
    <3>1. phase[t] = "idle" /\ phase' = [phase EXCEPT ![t] = "calling"]
      BY <1>3 DEF Invoke
    <3>2. \A u \in Clients : Status'[u] = IF u = t THEN "pending" ELSE Status[u]
      BY <3>1, StatusIs DEF RInv, SInv, IInv, TypeOK
    <3>3. Status[t] = "idle" /\ Status' = [Status EXCEPT ![t] = "pending"]
      BY <3>1, <3>2, StatusIs
    <3> QED BY <1>2, <1>3, <3>3 DEF Invoke
  <2>2. Abstract!Invoke(t, c)
    BY <2>1 DEF Abstract!Invoke, Objs, Status
  <2> QED BY <2>2 DEF Abstract!Next
<1>4. ASSUME NEW t \in Clients, Shortcut(t) PROVE Abstract!Next
  <2>1. PICK now \in Times : TRUE
    BY TimesAssumption
  <2>2. Abstract!Apply(call[t], now) = Abstract!Effect(Objs, Outcome(early_return(call[t])))
    BY <1>4, Words DEF Shortcut, Abstract!Apply, Abstract!NoEffect, Objs
  <2>3. Answered(t, Outcome(early_return(call[t])))
    BY <1>4, LeaveSeen DEF Shortcut, Answered, running
  <2>4. Objs' = Objs
    BY <1>2, <1>4 DEF Shortcut
  <2> QED BY <2>2, <2>3, <2>4, ServedStep DEF Abstract!Effect
<1>5. ASSUME NEW t \in Clients, CreateTransaction(t) PROVE Stutter
  <2>1. Status' = Status
    BY <1>5, PhaseUnseen DEF CreateTransaction, running
  <2> QED BY <1>2, <1>5, <2>1 DEF CreateTransaction, Stutter
<1>6. ASSUME NEW t \in Clients, Run(t) PROVE Stutter
  <2>1. Status' = Status
    BY <1>6, PhaseUnseen DEF Run, running
  <2> QED BY <1>2, <1>6, <2>1 DEF Run, Stutter
<1>7. ASSUME NEW t \in Clients, Commit(t) PROVE Abstract!Next
  <2>1. phase[t] = "active" /\ Leave(t, "done", view[t].out) /\ call' = call
        /\ data' = view[t].data /\ meta' = view[t].meta
    BY <1>7 DEF Commit
  <2>2. PICK now \in Times : view[t] = Body(data, meta, call[t], now)
    BY <2>1 DEF RInv, SInv, SnapshotCurrent
  <2>3. call[t] \in Call /\ early_return(call[t]) = None
    BY <2>1, CallsAssumption DEF RInv, SInv, IInv, ViewsMatch, NoEarlyCall, live
  <2>4. Same(view[t], Abstract!Apply(call[t], now))
    BY <1>1, <2>2, <2>3, SameBody
  <2>5. Answered(t, view[t].out)
    BY <2>1, LeaveSeen DEF Answered, running
  <2>6. Objs' = EntryMap(view[t].data, view[t].meta)
    BY <2>1, ObjsNext
  <2> QED BY <2>4, <2>5, <2>6, ServedStep DEF Same
<1>8. ASSUME NEW t \in Clients, Panic(t) \/ LoseConnection(t) PROVE Stutter
  <2>1. \E p \in {"calling", "panicked"} : Leave(t, p, None)
    BY <1>8 DEF Panic, LoseConnection
  <2>2. Status' = Status /\ result' = result
    BY <1>8, <2>1, LeaveSeen DEF Panic, LoseConnection, running
  <2> QED BY <1>2, <1>8, <2>2 DEF Panic, LoseConnection, Stutter
<1>9. ASSUME NEW t \in Clients, Fail(t) PROVE Abstract!Next
  <2>1. Answered(t, Outcome("Unexpected"))
    BY <1>9, LeaveSeen DEF Fail, Answered
  <2>2. Objs' = Objs
    BY <1>2, <1>9 DEF Fail
  <2>3. Abstract!Fail(t)
    BY <2>1, <2>2, Words DEF Abstract!Fail, Abstract!Respond, Answered, Objs, Status
  <2> QED BY <2>3 DEF Abstract!Next
<1>10. ASSUME NEW t \in Clients, Return(t) \/ Reload(t) PROVE Abstract!Next
  <2>1. phase[t] # "idle" /\ Leave(t, "idle", None) /\ UNCHANGED stores
        /\ call' = [call EXCEPT ![t] = None]
    BY <1>10 DEF Return, Reload
  <2>2. /\ Status[t] \in {"pending", "done"} /\ Status' = [Status EXCEPT ![t] = "idle"]
        /\ result' = [result EXCEPT ![t] = None] /\ Objs' = Objs
    BY <1>2, <2>1, LeaveSeen
  <2>3. Abstract!Forget(t)
    BY <2>1, <2>2 DEF Abstract!Forget, Objs, Status
  <2> QED BY <2>3 DEF Abstract!Next
<1>11. ASSUME NEW k \in Paths, Legacy(k) PROVE Abstract!Next
  <2>1. PICK v \in Old \cup {None} :
          data' = [data EXCEPT ![k] = v] /\ (v = None \/ meta[k] = None)
    BY <1>11 DEF Legacy
  <2>2. UNCHANGED <<meta, phase, call, result>>
    BY <1>11 DEF Legacy
  <2>3. \A q \in Paths : Objs'[q] = EntryAt(data', meta, q) /\ Objs[q] = EntryAt(data, meta, q)
    BY <2>2, ObjsNext, ObjsAre DEF EntryMap
  <2>4. data'[k] = v /\ \A q \in Paths : q # k => data'[q] = data[q]
    BY <2>1 DEF RInv, SInv, IInv, TypeOK
  <2>5. \A q \in Paths : q # k => EntryAt(data', meta, q) = EntryAt(data, meta, q)
    BY <2>4 DEF EntryAt, entry_info, read_meta
  <2>6. EntryAt(data', meta, k) \in [value: Bytes, modified: {None}, content: {NoContent}] \cup {None}
    <3>1. CASE v = None
      BY <2>4, <3>1 DEF EntryAt
    <3>2. CASE v # None
      <4>1. v \in Bytes /\ meta[k] = None
        BY <2>1, <3>2, OldAssumption
      <4>2. read_meta(meta, k) = None
        BY <4>1 DEF read_meta
      <4>3. EntryAt(data', meta, k) = [value |-> v, modified |-> None, content |-> NoContent]
        BY <2>4, <3>2, <4>2 DEF EntryAt, entry_info
      <4> QED BY <4>1, <4>3
    <3> QED BY <3>1, <3>2
  <2>7. Objs' = [Objs EXCEPT ![k] = Objs'[k]]
    BY <2>3, <2>5 DEF Objs
  <2>8. Status' = Status
    BY <2>2 DEF Status
  <2>9. Abstract!Legacy(k)
    BY <2>2, <2>3, <2>6, <2>7, <2>8, Words DEF Abstract!Legacy, Objs, Status
  <2> QED BY <2>9 DEF Abstract!Next
<1>12. CASE UNCHANGED vars
  <2>1. Objs' = Objs
    BY <1>2, <1>12 DEF vars, stores
  <2>2. Status' = Status
    BY <1>12 DEF vars, Status
  <2> QED BY <1>12, <2>1, <2>2 DEF vars, Stutter
<1> QED
  BY <1>3, <1>4, <1>5, <1>6, <1>7, <1>8, <1>9, <1>10, <1>11, <1>12 DEF Next

LEMMA InitImplements == Init => Abstract!Init
<1> SUFFICES ASSUME Init PROVE Abstract!Init
  OBVIOUS
<1>1. StoresOK(data, meta) /\ Matches(data, meta)
  BY DEF Init, StoresInit, SidecarMatches, StoresOK, Matches
<1>2. \A k \in Paths : EntryAt(data, meta, k) \in Entry \cup {None}
  BY <1>1, Seen DEF EntryAt
<1>3. Objs \in [Paths -> Entry \cup {None}]
  BY <1>2, ObjsAre DEF EntryMap
<1>4. Status = [t \in Clients |-> "idle"]
  BY DEF Init, ClientsInit, Status
<1> QED
  BY <1>3, <1>4, Words DEF Abstract!Init, Objs, Status, Init, ClientsInit

\* The two stores behave as one map of entries on which every call takes effect
\* at once and at most once: through every retry, lost connection, reload and
\* write of an older tab.
THEOREM CallsAreAtomic == Spec => Implements
<1>1. RInv /\ [Next]_vars =>
        [Abstract!Next]_<<[k \in Paths |-> Object(k)],
                          [t \in Clients |-> CASE phase[t] \in {"idle", "done"} -> phase[t]
                                               [] OTHER -> "pending"],
                          call, result>>
  BY StepImplements DEF Stutter, Objs, Status
<1> QED
  BY <1>1, RInvInit, RInvStep, InitImplements, PTL DEF Spec, Implements, Abstract!Spec
---------------------------------------------------------------------------
(***************************************************************************)
(* The step in which a call succeeds.  It is the commit of a transaction   *)
(* whose body read the stores as they still are, so what the body checked  *)
(* and wrote can be said of the step.                                      *)
(***************************************************************************)
LEMMA SuccessCommits ==
  ASSUME RInv, [Next]_vars, NEW t \in Clients, Succeeds(t)
  PROVE  /\ call[t] \in Call /\ early_return(call[t]) = None
         /\ \E now \in Times :
              LET v == Body(data, meta, call[t], now)
              IN  data' = v.data /\ meta' = v.meta /\ v.out.kind = "Ok"
<1>1. phase[t] = "active" /\ phase'[t] = "done" /\ result'[t].kind = "Ok"
  BY DEF Succeeds
<1>2. Commit(t)
  <2> USE DEF RInv, SInv, IInv, TypeOK
  <2>1. ASSUME NEW u \in Clients, NEW p, NEW r, Leave(u, p, r), u # t PROVE FALSE
    BY <1>1, <2>1 DEF Leave
  <2>2. ASSUME NEW u \in Clients, NEW c \in Calls, Invoke(u, c) PROVE FALSE
    BY <1>1, <2>2 DEF Invoke
  <2>3. ASSUME NEW u \in Clients, CreateTransaction(u) \/ Run(u) PROVE FALSE
    BY <1>1, <2>3 DEF CreateTransaction, Run
  <2>4. ASSUME NEW u \in Clients,
               Shortcut(u) \/ Panic(u) \/ Return(u) \/ LoseConnection(u) \/ Reload(u)
        PROVE  FALSE
    BY <1>1, <2>1, <2>4 DEF Shortcut, Panic, Return, LoseConnection, Reload, Leave
  <2>5. ASSUME NEW u \in Clients, Fail(u) PROVE FALSE
    <3>1. u = t
      BY <2>1, <2>5 DEF Fail
    <3>2. result'[t] = Outcome("Unexpected")
      BY <2>5, <3>1 DEF Fail, Leave
    <3> QED BY <1>1, <3>2 DEF Outcome
  <2>6. ASSUME NEW u \in Clients, Commit(u) PROVE u = t
    BY <2>1, <2>6 DEF Commit
  <2>7. ASSUME NEW k \in Paths, Legacy(k) PROVE FALSE
    BY <1>1, <2>7 DEF Legacy
  <2>8. ASSUME UNCHANGED vars PROVE FALSE
    BY <1>1, <2>8 DEF vars
  <2> QED BY <2>2, <2>3, <2>4, <2>5, <2>6, <2>7, <2>8 DEF Next
<1>3. PICK now \in Times : view[t] = Body(data, meta, call[t], now)
  BY <1>1 DEF RInv, SInv, SnapshotCurrent
<1>4. call[t] \in Call /\ early_return(call[t]) = None
  BY <1>1, CallsAssumption DEF RInv, SInv, IInv, ViewsMatch, NoEarlyCall, live
<1>5. result'[t] = view[t].out
  BY <1>2 DEF Commit, Leave, RInv, SInv, IInv, TypeOK
<1> QED BY <1>1, <1>2, <1>3, <1>4, <1>5 DEF Commit

\* A write that succeeds met its conditions, which the bytes decide.
LEMMA SetConditions ==
  ASSUME Sound, NEW c \in SetCall, NEW now, set(data, meta, c, now).out.kind = "Ok"
  PROVE  LET v == data[c.path]
         IN  /\ c.if_not_exists \/ c.if_none_match = Star => v = None
             /\ c.if_match = Star => v # None
             /\ c.if_match \in ETags => v = c.if_match.hash
             /\ c.if_none_match \in ETags => v # c.if_none_match.hash
<1> DEFINE k == c.path
           v == data[k]
           unconditional_overwrite == /\ ~c.append /\ ~c.if_not_exists
                                      /\ c.if_match = None /\ c.if_none_match = None
           existing_data == IF unconditional_overwrite THEN None ELSE v
           exists == existing_data # None
           etag == IF exists THEN existing_etag(data, meta, k) ELSE None
           refused == \/ c.if_not_exists /\ exists
                      \/ c.if_match # None /\ ~matched(c.if_match, exists, etag)
                      \/ c.if_none_match # None /\ matched(c.if_none_match, exists, etag)
<1>1. ~refused
  <2>1. refused => set(data, meta, c, now) = View(data, meta, Outcome("ConditionNotMatch"))
    BY Zenon DEF set
  <2> HIDE DEF refused
  <2> QED BY <2>1 DEF View, Outcome
<1>2. k \in Paths /\ v \in Values \cup {None}
  BY DEF SetCall, Sound, StoresOK
<1>3. existing_etag(data, meta, k) = IF v = None THEN None ELSE value_etag(v)
  BY <1>2, SameMatch, Seen DEF Sound, EntryAt
<1>4. Star # None /\ None \notin ETags /\ Star \notin ETags
  BY ETagsAssumption
<1> HIDE DEF v
<1>5. ASSUME ~unconditional_overwrite
      PROVE  existing_data = v /\ etag = IF v = None THEN None ELSE value_etag(v)
  BY <1>3, <1>5
<1> HIDE DEF unconditional_overwrite, existing_data
<1>6. ASSUME c.if_not_exists \/ c.if_none_match = Star PROVE v = None
  <2>1. ~unconditional_overwrite
    BY <1>4, <1>6 DEF unconditional_overwrite
  <2> QED BY <1>1, <1>4, <1>5, <1>6, <2>1 DEF matched
<1>7. ASSUME c.if_match = Star PROVE v # None
  <2>1. ~unconditional_overwrite
    BY <1>4, <1>7 DEF unconditional_overwrite
  <2> QED BY <1>1, <1>4, <1>5, <1>7, <2>1 DEF matched
<1>8. ASSUME c.if_match \in ETags PROVE v = c.if_match.hash
  <2>1. ~unconditional_overwrite
    BY <1>4, <1>8 DEF unconditional_overwrite
  <2>2. etag # None /\ etag = c.if_match
    BY <1>1, <1>4, <1>8 DEF matched
  <2>3. v # None /\ c.if_match = value_etag(v) /\ value_etag(v) # None
    BY <1>5, <2>1, <2>2
  <2>4. c.if_match = [hash |-> v]
    BY <2>3 DEF value_etag, etag_from_bytes
  <2> QED BY <2>4
<1>9. ASSUME c.if_none_match \in ETags PROVE v # c.if_none_match.hash
  <2>1. SUFFICES ASSUME v = c.if_none_match.hash PROVE FALSE
    OBVIOUS
  <2>2. ~unconditional_overwrite
    BY <1>4, <1>9 DEF unconditional_overwrite
  <2>3. v \in Bytes /\ c.if_none_match = [hash |-> v]
    BY <1>9, <2>1 DEF ETags
  <2>4. v # None /\ v # NotBytes
    BY <2>3, ValuesAssumption DEF Values
  <2>5. exists /\ etag = c.if_none_match
    BY <1>5, <2>2, <2>3, <2>4 DEF value_etag, etag_from_bytes
  <2> QED BY <1>1, <1>4, <1>9, <2>5 DEF matched
<1> QED BY <1>6, <1>7, <1>8, <1>9 DEF v

\* What a body that succeeds leaves at the key it writes, if it writes one.
Stored(v, k) == /\ v.data[k] \in Bytes
                /\ v.meta[k] \notin {None, BadMeta}
                /\ v.meta[k].e = etag_from_bytes(v.data[k])
                /\ v.meta[k].l = Len(v.data[k])

LEMMA PutStored ==
  ASSUME NEW D, NEW M, StoresOK(D, M), NEW k \in Paths, NEW v \in Bytes,
         NEW info \in EntryInfo, info.size = Len(v), info.etag = etag_from_bytes(v), NEW out
  PROVE  Stored(View([D EXCEPT ![k] = v], [M EXCEPT ![k] = put_meta(info)], out), k)
<1>1. Len(v) \in Nat
  BY DEF Bytes
<1>2. /\ put_meta(info) \in MetaRecord /\ put_meta(info).l = Len(v)
      /\ put_meta(info).e = etag_from_bytes(v)
  BY <1>1 DEF put_meta, MetaRecord, EntryInfo
<1>3. put_meta(info) # None /\ put_meta(info) # BadMeta
  BY <1>2, MetaAssumption
<1> QED BY <1>2, <1>3 DEF Stored, View, StoresOK

LEMMA WritesStored ==
  ASSUME NEW D, NEW M, StoresOK(D, M), NEW k \in Paths, NEW v,
         Refuses(D, M, v) \/ Puts(D, M, k, v)
  PROVE  \/ v.data = D /\ v.meta = M /\ v.out.kind # "Ok"
         \/ Stored(v, k) /\ \A q \in Paths : q # k => v.data[q] = D[q]
<1>1. CASE Refuses(D, M, v)
  BY <1>1 DEF Refuses, View, Outcome
<1>2. CASE Puts(D, M, k, v)
  <2>1. PICK bytes \in Bytes, info \in EntryInfo :
          /\ info.size = Len(bytes) /\ info.etag = etag_from_bytes(bytes)
          /\ v = View([D EXCEPT ![k] = bytes], [M EXCEPT ![k] = put_meta(info)], Found(info, None))
    BY <1>2 DEF Puts
  <2>2. Stored(v, k)
    BY <2>1, PutStored
  <2>3. \A q \in Paths : q # k => v.data[q] = D[q]
    BY <2>1 DEF View, StoresOK
  <2> QED BY <2>2, <2>3
<1> QED BY <1>1, <1>2

LEMMA SetStores ==
  ASSUME Sound, NEW c \in SetCall, NEW now \in Times
  PROVE  LET v == set(data, meta, c, now)
         IN  \/ v.data = data /\ v.meta = meta /\ v.out.kind # "Ok"
             \/ Stored(v, c.path) /\ \A q \in Paths : q # c.path => v.data[q] = data[q]
<1>1. c.path \in Paths
  BY DEF SetCall
<1> QED BY <1>1, SetWrites, WritesStored DEF Sound

LEMMA CopyStores ==
  ASSUME Sound, NEW c \in CopyCall, NEW now \in Times
  PROVE  LET v == copy(data, meta, c, now)
         IN  \/ v.data = data /\ v.meta = meta /\ v.out.kind # "Ok"
             \/ Stored(v, c.to) /\ \A q \in Paths : q # c.to => v.data[q] = data[q]
<1>1. c.to \in Paths
  BY DEF CopyCall
<1> QED BY <1>1, CopyWrites, WritesStored DEF Sound

LEMMA RenameStores ==
  ASSUME Sound, NEW c \in RenameCall
  PROVE  LET v == rename(data, meta, c)
         IN  \/ v.data = data /\ v.meta = meta /\ v.out.kind # "Ok"
             \/ /\ c.from # c.to => Stored(v, c.to)
                /\ v.data[c.from] = None /\ v.meta[c.from] = None
                /\ \A q \in Paths : q \notin {c.from, c.to} => v.data[q] = data[q]
<1> DEFINE info == source_info(data, meta, c.from)
           D1 == [data EXCEPT ![c.to] = data[c.from]]
           M1 == [meta EXCEPT ![c.to] = put_meta(info)]
           D2 == [data EXCEPT ![c.to] = data[c.from], ![c.from] = None]
           M2 == [meta EXCEPT ![c.to] = put_meta(info), ![c.from] = None]
           ok == Outcome("Ok")
<1>1. c.from \in Paths /\ c.to \in Paths
  BY DEF RenameCall
<1>2. \/ \E kind \in {"NotFound", "Unexpected"} :
           rename(data, meta, c) = View(data, meta, Outcome(kind))
      \/ /\ data[c.from] # None /\ data[c.from] # NotBytes
         /\ rename(data, meta, c) = View(D2, M2, ok)
  BY DEF rename
<1>3. ASSUME data[c.from] # None, data[c.from] # NotBytes, c.from # c.to
      PROVE  Stored(View(D2, M2, ok), c.to)
  <2>1. data[c.from] \in Bytes
    BY <1>1, <1>3 DEF Sound, StoresOK, Values
  <2>2. /\ info \in EntryInfo /\ info.size = Len(data[c.from])
        /\ info.etag = etag_from_bytes(data[c.from])
    BY <1>1, <2>1, SourceInfo DEF Sound
  <2> HIDE DEF info
  <2>3. Stored(View(D1, M1, ok), c.to)
    BY <1>1, <2>1, <2>2, PutStored DEF Sound
  <2>4. D2[c.to] = D1[c.to] /\ M2[c.to] = M1[c.to]
    BY <1>1, <1>3 DEF Sound, StoresOK
  <2> QED BY <2>3, <2>4 DEF Stored, View
<1>4. /\ View(D2, M2, ok).data[c.from] = None /\ View(D2, M2, ok).meta[c.from] = None
      /\ \A q \in Paths : q \notin {c.from, c.to} => View(D2, M2, ok).data[q] = data[q]
  BY <1>1 DEF View, Sound, StoresOK
<1> HIDE DEF D2, M2, ok
<1>5. ASSUME NEW kind \in {"NotFound", "Unexpected"}
      PROVE  LET v == View(data, meta, Outcome(kind))
             IN  v.data = data /\ v.meta = meta /\ v.out.kind # "Ok"
  BY DEF View, Outcome
<1> QED BY <1>2, <1>3, <1>4, <1>5

\* A conditional write is a compare-and-swap against the bytes in place: what
\* its body checked is still so in the step in which the write succeeds, and no
\* sidecar, orphan or damaged one, can answer in place of the bytes.
THEOREM WritesAreConditional == Spec => ConditionalWrites
<1>1. ASSUME RInv, [Next]_vars, NEW t \in Clients, Succeeds(t), call[t].op = "set"
      PROVE  LET c == call[t]
                 v == data[c.path]
             IN  /\ c.if_not_exists \/ c.if_none_match = Star => v = None
                 /\ c.if_match = Star => v # None
                 /\ c.if_match \in ETags => v = c.if_match.hash
                 /\ c.if_none_match \in ETags => v # c.if_none_match.hash
  <2>1. Sound
    BY <1>1, RInvSound
  <2>2. call[t] \in SetCall
    BY <1>1, SuccessCommits
    DEF Call, SetCall, DeleteCall, StatCall, ReadCall, CopyCall, RenameCall
  <2>3. PICK now \in Times : set(data, meta, call[t], now).out.kind = "Ok"
    BY <1>1, SuccessCommits DEF Body
  <2> QED BY <2>1, <2>2, <2>3, SetConditions
<1>2. RInv /\ [Next]_vars =>
        [\A t \in Clients : Succeeds(t) /\ call[t].op = "set" =>
           LET c == call[t]
               v == data[c.path]
           IN  /\ c.if_not_exists \/ c.if_none_match = Star => v = None
               /\ c.if_match = Star => v # None
               /\ c.if_match \in ETags => v = c.if_match.hash
               /\ c.if_none_match \in ETags => v # c.if_none_match.hash]_vars
  BY <1>1
<1> QED
  BY <1>2, RInvInit, RInvStep, PTL DEF Spec, ConditionalWrites

\* A write, copy or rename that succeeds leaves the ETag and the length of the
\* bytes in the sidecar, whatever sidecar the source had.
THEOREM SidecarsAreWritten == Spec => WritesLeaveSidecar
<1>1. ASSUME RInv, [Next]_vars, NEW t \in Clients, Succeeds(t),
             call[t].op \in {"set", "copy", "rename"}
      PROVE  LET k == IF call[t].op = "set" THEN call[t].path ELSE call[t].to
             IN  /\ data'[k] \in Bytes
                 /\ meta'[k] \notin {None, BadMeta}
                 /\ meta'[k].e = etag_from_bytes(data'[k])
                 /\ meta'[k].l = Len(data'[k])
  <2>1. Sound
    BY <1>1, RInvSound
  <2>2. /\ call[t].op = "set" => call[t] \in SetCall
        /\ call[t].op = "copy" => call[t] \in CopyCall
        /\ call[t].op = "rename" => call[t] \in RenameCall
        /\ early_return(call[t]) = None
    BY <1>1, SuccessCommits
    DEF Call, SetCall, DeleteCall, StatCall, ReadCall, CopyCall, RenameCall
  <2>3. PICK now \in Times :
          LET v == Body(data, meta, call[t], now)
          IN  data' = v.data /\ meta' = v.meta /\ v.out.kind = "Ok"
    BY <1>1, SuccessCommits
  <2> DEFINE k == IF call[t].op = "set" THEN call[t].path ELSE call[t].to
             v == Body(data, meta, call[t], now)
  <2>4. Stored(v, k)
    <3>1. CASE call[t].op = "set"
      BY <2>1, <2>2, <2>3, <3>1, SetStores DEF Body
    <3>2. CASE call[t].op = "copy"
      BY <2>1, <2>2, <2>3, <3>2, CopyStores DEF Body
    <3>3. CASE call[t].op = "rename"
      <4>1. call[t].from # call[t].to
        BY <2>2, <3>3, EarlyAssumption DEF early_return
      <4> QED BY <2>1, <2>2, <2>3, <3>3, <4>1, RenameStores DEF Body
    <3> QED BY <1>1, <3>1, <3>2, <3>3
  <2> HIDE DEF k, v
  <2>5. data' = v.data /\ meta' = v.meta
    BY <2>3 DEF v
  <2>6. /\ data'[k] \in Bytes /\ meta'[k] \notin {None, BadMeta}
        /\ meta'[k].e = etag_from_bytes(data'[k]) /\ meta'[k].l = Len(data'[k])
    BY <2>4, <2>5 DEF Stored
  <2> QED BY <2>6 DEF k
<1>2. RInv /\ [Next]_vars =>
        [\A t \in Clients : Succeeds(t) /\ call[t].op \in {"set", "copy", "rename"} =>
           LET k == IF call[t].op = "set" THEN call[t].path ELSE call[t].to
           IN  /\ data'[k] \in Bytes
               /\ meta'[k] \notin {None, BadMeta}
               /\ meta'[k].e = etag_from_bytes(data'[k])
               /\ meta'[k].l = Len(data'[k])]_vars
  BY <1>1
<1> QED
  BY <1>2, RInvInit, RInvStep, PTL DEF Spec, WritesLeaveSidecar

\* A call that removes an entry removes its sidecar: a body either writes bytes
\* at a key, or clears it in both stores, or leaves its record alone.
LEMMA BodyOrphansNothing ==
  ASSUME Sound, NEW c \in Call, NEW now \in Times, NEW k \in Paths, data[k] # None,
         Body(data, meta, c, now).data[k] = None
  PROVE  Body(data, meta, c, now).meta[k] = None
<1>1. /\ c.op = "set" => c \in SetCall
      /\ c.op = "delete" => c \in DeleteCall
      /\ c.op = "copy" => c \in CopyCall
      /\ c.op = "rename" => c \in RenameCall
      /\ c.op \in {"set", "delete", "stat", "read", "copy", "rename"}
  BY DEF Call, SetCall, DeleteCall, StatCall, ReadCall, CopyCall, RenameCall
<1>2. None \notin Bytes
  BY ValuesAssumption DEF Values
<1>3. CASE ~readwrite(c)
  BY <1>3, BodyReadonly
<1>4. CASE c.op = "set"
  BY <1>1, <1>2, <1>4, SetStores DEF Body, Stored
<1>5. CASE c.op = "copy"
  BY <1>1, <1>2, <1>5, CopyStores DEF Body, Stored
<1>6. CASE c.op = "rename"
  BY <1>1, <1>2, <1>6, RenameStores DEF Body, Stored
<1>7. CASE c.op = "delete"
  <2>1. Body(data, meta, c, now) = delete_many(data, meta, c)
    BY <1>7 DEF Body
  <2> QED BY <2>1 DEF delete_many, without, View
<1> QED BY <1>1, <1>3, <1>4, <1>5, <1>6, <1>7 DEF readwrite

\* No call leaves a sidecar without its entry, a recursive delete included: only
\* older tabs do.
THEOREM OnlyOldTabsOrphan == Spec => NoNewOrphans
<1>1. ASSUME RInv, [Next]_vars, NEW k \in Paths, data[k] # None, data'[k] = None, phase' # phase
      PROVE  meta'[k] = None
  <2>1. PICK t \in Clients : Commit(t)
    <3>1. ~UNCHANGED stores /\ ~UNCHANGED vars
      BY <1>1 DEF stores, vars
    <3>2. \A q \in Paths : ~Legacy(q)
      BY <1>1 DEF Legacy
    <3> QED
      BY <1>1, <3>1, <3>2
      DEF Next, Invoke, Shortcut, CreateTransaction, Run, Panic, Return, LoseConnection, Fail, Reload
  <2>2. PICK now \in Times : view[t] = Body(data, meta, call[t], now)
    BY <1>1, <2>1 DEF RInv, SInv, SnapshotCurrent, Commit
  <2>3. call[t] \in Call /\ data' = view[t].data /\ meta' = view[t].meta
    BY <1>1, <2>1, CallsAssumption DEF RInv, SInv, IInv, ViewsMatch, Commit
  <2>4. Sound
    BY <1>1, RInvSound
  <2> QED BY <1>1, <2>2, <2>3, <2>4, BodyOrphansNothing
<1>2. RInv /\ [Next]_vars =>
        [\A k \in Paths :
           data[k] # None /\ data'[k] = None /\ phase' # phase => meta'[k] = None]_vars
  BY <1>1
<1> QED
  BY <1>2, RInvInit, RInvStep, PTL DEF Spec, NoNewOrphans
=============================================================================
