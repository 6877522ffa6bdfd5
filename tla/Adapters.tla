------------------------------- MODULE Adapters -------------------------------
(***************************************************************************)
(* Writers and deleters.  A writer collects chunks and stores them when it *)
(* is closed; a deleter collects paths and deletes them in batches.  Both  *)
(* keep what they have collected until a call on the store succeeds, so    *)
(* that their user can close them again after an error.  The store is      *)
(* ObjectStore, which TxnStore implements: a call that fails has no        *)
(* effect.                                                                 *)
(***************************************************************************)
EXTENDS ObjectStore, FiniteSets

CONSTANTS
  Writers, Deleters,  \* clients that use one writer, or one deleter
  Targets,     \* what is written: [path, append, if_not_exists]
  MaxBytes,    \* bound on the bytes a writer is given
  Deletions,   \* what is deleted: a set of [path, recursive]
  MaxBatch,    \* DELETE_MAX_SIZE
  Before       \* the objects there at first

VARIABLES
  writer,   \* of each writer: its stage, target and buffer
  written,  \* history: the bytes its user gave it
  stored,   \* history: how often they came into the store
  deleter,  \* of each deleter: its stage and buffer
  owed      \* history: paths given to it that were there ever since

store == <<objects, status, request, response>>
vars == <<store, writer, written, stored, deleter, owed>>

ASSUME RolesAssumption == Writers \cup Deleters = Clients /\ Writers \cap Deleters = {}
ASSUME AdaptersAssumption ==
  /\ Targets \subseteq [path: Paths, append: BOOLEAN, if_not_exists: BOOLEAN]
  /\ Deletions \subseteq [path: Paths, recursive: BOOLEAN]
  /\ Before \in [Paths -> Entry \cup {None}]
---------------------------------------------------------------------------
(* IndexeddbWriter.  opendal drops it once close or abort has succeeded.   *)

Write(t, byte) ==
  /\ writer[t].stage = "open"
  /\ Len(written[t]) < MaxBytes
  /\ writer' = [writer EXCEPT ![t].buffer = Append(@, byte)]
  /\ written' = [written EXCEPT ![t] = Append(@, byte)]
  /\ UNCHANGED <<store, stored, deleter, owed>>

SetOf(w) ==
  [op |-> "set", path |-> w.target.path, bytes |-> w.buffer, append |-> w.target.append,
   if_not_exists |-> w.target.if_not_exists, if_match |-> None, if_none_match |-> None,
   content |-> NoContent]

\* Mutant: the buffer is taken, not cloned.
CloseTaking(t) ==
  /\ writer[t].stage = "open"
  /\ Invoke(t, SetOf(writer[t]))
  /\ writer' = [writer EXCEPT ![t].stage = "closing", ![t].buffer = <<>>]
  /\ UNCHANGED <<written, stored, deleter, owed>>

Close(t) ==
  /\ writer[t].stage = "open"
  /\ Invoke(t, SetOf(writer[t]))
  /\ writer' = [writer EXCEPT ![t].stage = "closing"]
  /\ UNCHANGED <<written, stored, deleter, owed>>

\* Mutant: an error of the store is not passed on.
CloseReturnsOk(t) ==
  /\ writer[t].stage = "closing" /\ status[t] = "done"
  /\ Forget(t)
  /\ writer' = [writer EXCEPT ![t].stage = "closed"]
  /\ UNCHANGED <<written, stored, deleter, owed>>

\* After an error the user may write more, close again, abort or give up.
CloseReturns(t) ==
  /\ writer[t].stage = "closing" /\ status[t] = "done"
  /\ Forget(t)
  /\ writer' = [writer EXCEPT ![t].stage = IF response[t].kind = "Ok" THEN "closed" ELSE "open"]
  /\ UNCHANGED <<written, stored, deleter, owed>>

Abort(t) ==
  /\ writer[t].stage = "open"
  /\ writer' = [writer EXCEPT ![t].stage = "aborted", ![t].buffer = <<>>]
  /\ UNCHANGED <<store, written, stored, deleter, owed>>
---------------------------------------------------------------------------
(* BatchDeleter over IndexeddbDeleter.                                     *)

Flush(t, batch, stage) ==
  /\ Invoke(t, [op |-> "delete", batch |-> batch])
  /\ deleter' = [deleter EXCEPT ![t] = [stage |-> stage, buffer |-> batch]]

\* The paths a deletion is about, as far as they are there.
Present(d) ==
  {p \in {d.path} \cup (IF d.recursive THEN Subtree[d.path] ELSE {}) : objects[p] # None}

Queue(t, d) ==
  LET buffer == deleter[t].buffer \cup {d}
  IN  /\ deleter[t].stage = "open"
      /\ IF Cardinality(buffer) >= MaxBatch THEN Flush(t, buffer, "flushing")
         ELSE /\ deleter' = [deleter EXCEPT ![t].buffer = buffer]
              /\ UNCHANGED store
      /\ owed' = [owed EXCEPT ![t] = @ \cup Present(d)]
      /\ UNCHANGED <<writer, written, stored>>

CloseDeleter(t) ==
  /\ deleter[t].stage = "open"
  /\ IF deleter[t].buffer # {} THEN Flush(t, deleter[t].buffer, "closing")
     ELSE /\ deleter' = [deleter EXCEPT ![t].stage = "closed"]
          /\ UNCHANGED store
  /\ UNCHANGED <<writer, written, stored, owed>>

\* Mutant: the batch is dropped from the buffer although it failed.
FlushReturnsDropped(t) ==
  /\ deleter[t].stage \in {"flushing", "closing"} /\ status[t] = "done"
  /\ Forget(t)
  /\ deleter' = [deleter EXCEPT ![t] =
       [stage |-> IF response[t].kind = "Ok" /\ @.stage = "closing" THEN "closed" ELSE "open",
        buffer |-> {}]]
  /\ UNCHANGED <<writer, written, stored, owed>>

FlushReturns(t) ==
  LET ok == response[t].kind = "Ok"
  IN  /\ deleter[t].stage \in {"flushing", "closing"} /\ status[t] = "done"
      /\ Forget(t)
      /\ deleter' = [deleter EXCEPT ![t] =
           [stage  |-> IF ok /\ @.stage = "closing" THEN "closed" ELSE "open",
            buffer |-> IF ok THEN {} ELSE @.buffer]]
      /\ UNCHANGED <<writer, written, stored, owed>>
---------------------------------------------------------------------------
(* The store, for all of them.                                             *)

Serve(t) ==
  /\ Perform(t)
  /\ stored' = [stored EXCEPT ![t] =
       IF request[t].op = "set" /\ response'[t].kind = "Ok" THEN @ + 1 ELSE @]
  /\ owed' = [u \in Deleters |-> {p \in owed[u] : objects'[p] # None}]
  /\ UNCHANGED <<writer, written, deleter>>

Refuse(t) ==
  /\ Fail(t)
  /\ UNCHANGED <<writer, written, stored, deleter, owed>>

\* The user, or its tab, goes away in the middle of a call.
Abandon(t) ==
  /\ Forget(t)
  /\ IF t \in Writers THEN writer' = [writer EXCEPT ![t].stage = "gone"] /\ UNCHANGED deleter
     ELSE deleter' = [deleter EXCEPT ![t].stage = "gone"] /\ UNCHANGED writer
  /\ UNCHANGED <<written, stored, owed>>
---------------------------------------------------------------------------
AdaptersInit ==
  /\ objects = Before
  /\ status = [t \in Clients |-> "idle"]
  /\ request = [t \in Clients |-> None]
  /\ response = [t \in Clients |-> None]
  /\ \E target \in [Writers -> Targets] :
       writer = [t \in Writers |-> [stage |-> "open", target |-> target[t], buffer |-> <<>>]]
  /\ written = [t \in Writers |-> <<>>]
  /\ stored = [t \in Clients |-> 0]
  /\ deleter = [t \in Deleters |-> [stage |-> "open", buffer |-> {}]]
  /\ owed = [t \in Deleters |-> {}]

AdaptersNext ==
  \/ \E t \in Writers : \/ \E byte \in Byte : Write(t, byte)
                        \/ Close(t) \/ CloseReturns(t) \/ Abort(t)
  \/ \E t \in Deleters : \/ \E d \in Deletions : Queue(t, d)
                         \/ CloseDeleter(t) \/ FlushReturns(t)
  \/ \E t \in Clients : Serve(t) \/ Refuse(t) \/ Abandon(t)

AdaptersSpec == AdaptersInit /\ [][AdaptersNext]_vars
---------------------------------------------------------------------------
(* Properties.                                                             *)

\* A writer whose close succeeded has stored its bytes once, however often it
\* was closed before in vain; one that was aborted, or whose close failed, has
\* stored nothing.
StoredOnce ==
  \A t \in Writers :
    /\ writer[t].stage = "closed" => stored[t] = 1
    /\ writer[t].stage \in {"open", "aborted"} => stored[t] = 0
    /\ stored[t] <= 1

\* What a writer stores is all that its user gave it, behind the old bytes if
\* it appends: also when an earlier close failed, and whatever other writers
\* and deleters did since it was opened.
StoredWhole ==
  [][\A t \in Writers :
       stored'[t] # stored[t] =>
         LET p   == writer[t].target.path
             old == IF writer[t].target.append /\ objects[p] # None
                    THEN objects[p].value ELSE <<>>
         IN  objects'[p].value = old \o written[t]]_vars

\* When the close of a deleter succeeds, each path it was given, and all
\* below it for a recursive one, has been absent at some time since.
DeletesDone ==
  \A t \in Deleters : deleter[t].stage = "closed" => owed[t] = {}
=============================================================================
