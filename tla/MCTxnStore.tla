---------------------------- MODULE MCTxnStore ----------------------------
(***************************************************************************)
(* TxnStore on one byte, two paths of which one lies under the other, and  *)
(* entries of every kind a database can hold when the backend opens it.    *)
(***************************************************************************)
EXTENDS TxnStore, TLC

CONSTANTS f, fx, b, ct, text, t1, t2

MCSubtree == [p \in Paths |-> IF p = f THEN Paths ELSE {p}]
MCOld == {<<b>>}

Text == [g \in {ct} |-> text]
E0 == etag_from_bytes(<<>>)
E1 == etag_from_bytes(<<b>>)

Put(p, bytes) ==
  [op |-> "set", path |-> p, bytes |-> bytes, append |-> FALSE, if_not_exists |-> FALSE,
   if_match |-> None, if_none_match |-> None, content |-> NoContent]
When(p, if_match, since) ==
  [path |-> p, if_match |-> if_match, if_none_match |-> None,
   if_modified_since |-> since, if_unmodified_since |-> None]
Get(conditions) == [op |-> "read", conditions |-> conditions, range |-> [offset |-> 0, size |-> 1]]
Stat(conditions) == [op |-> "stat", conditions |-> conditions]
Delete(batch) == [op |-> "delete", batch |-> batch]
Exact(p) == [path |-> p, recursive |-> FALSE]
AllUnder(p) == [path |-> p, recursive |-> TRUE]
Cp(p, q, excl, want) ==
  [op |-> "copy", from |-> p, to |-> q, if_not_exists |-> excl, if_match |-> want]
Mv(p, q) == [op |-> "rename", from |-> p, to |-> q]

\* Writers that contend for one path.
WriteCalls == {
  [Put(f, <<b>>) EXCEPT !.append = TRUE],
  [Put(f, <<>>) EXCEPT !.if_match = E1, !.content = Text],
  [Put(f, <<b, b, b>>) EXCEPT !.if_none_match = E1],
  [Put(f, <<b>>) EXCEPT !.if_not_exists = TRUE],
  [Put(f, <<b>>) EXCEPT !.if_match = Star, !.append = TRUE],
  Put(f, <<b>>),
  Get([When(f, None, None) EXCEPT !.if_none_match = E0, !.if_unmodified_since = 1]),
  Delete({Exact(f)}) }

\* Calls over both paths.
MoveCalls == {
  Put(fx, <<>>),
  Stat(When(fx, None, 1)),
  Delete({AllUnder(f)}), Delete({Exact(f), AllUnder(fx)}), Delete({}),
  Cp(f, fx, TRUE, None), Cp(fx, f, FALSE, E0), Cp(f, f, FALSE, None),
  Mv(f, fx) }
---------------------------------------------------------------------------
Record(e) == [l |-> 1, m |-> 1, e |-> e, c |-> Text]
Entries == { <<None, None>>, <<None, Record(E1)>>, <<<<b>>, None>>, <<<<b>>, BadMeta>>,
             <<<<b>>, Record(E1)>>, <<<<b>>, Record(None)>>, <<NotBytes, None>> }

MCInit ==
  /\ \E s \in [Paths -> Entries] :
       data = [k \in Paths |-> s[k][1]] /\ meta = [k \in Paths |-> s[k][2]]
  /\ ClientsInit

MCSpec == MCInit /\ [][Next]_vars
MCFairSpec == MCSpec /\ \A t \in Clients : WF_vars(Step(t))
Symmetry == Permutations(Clients)
=============================================================================
