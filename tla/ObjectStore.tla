---------------------------- MODULE ObjectStore ----------------------------
(***************************************************************************)
(* What the backend promises its clients: one map from paths to objects,   *)
(* and calls that take effect at once, at some point between the call and  *)
(* its return, or have no effect and report an error.  There is no sidecar *)
(* here: sizes and ETags are functions of the bytes.                       *)
(***************************************************************************)
EXTENDS Objects

CONSTANTS
  Clients,  \* the tasks that use the store
  Calls     \* the calls they make

VARIABLES
  objects,   \* the object at each path, or None
  status,    \* of each client: "idle", "pending" or "done"
  request,   \* the call a client has made
  response   \* the result a client is given

---------------------------------------------------------------------------
Describe(o) == [size |-> value_byte_length(o.value), modified |-> o.modified,
                etag |-> value_etag(o.value), content |-> o.content]

EtagAt(p) == IF objects[p] = None THEN None ELSE value_etag(objects[p].value)
Matched(want, p) == matched(want, objects[p] # None, EtagAt(p))

Effect(map, out) == [objects |-> map, out |-> out]
NoEffect(kind) == Effect(objects, Outcome(kind))

Retrieve(c) ==
  LET o == objects[c.conditions.path]
  IN  IF o = None THEN NoEffect("NotFound")
      ELSE IF ~(/\ check_modified(Describe(o), c.conditions)
                /\ check_etag(Describe(o), c.conditions))
           THEN NoEffect("ConditionNotMatch")
      ELSE IF c.op = "stat" THEN Effect(objects, Found(Describe(o), None))
      ELSE IF o.value = NotBytes THEN NoEffect("Unexpected")
      ELSE Effect(objects,
                  Found(Describe(o), record_bytes_range(o.value, c.range, Len(o.value))))

Store(c, now) ==
  LET o     == objects[c.path]
      keeps == c.append /\ o # None
      new   == [value    |-> (IF keeps THEN o.value ELSE <<>>) \o c.bytes,
                modified |-> now,
                content  |-> merge(IF keeps THEN o.content ELSE NoContent, c.content)]
  IN  IF \/ c.if_not_exists /\ o # None
         \/ c.if_match # None /\ ~Matched(c.if_match, c.path)
         \/ c.if_none_match # None /\ Matched(c.if_none_match, c.path)
      THEN NoEffect("ConditionNotMatch")
      ELSE IF keeps /\ o.value = NotBytes THEN NoEffect("Unexpected")
      ELSE Effect([objects EXCEPT ![c.path] = new], Found(Describe(new), None))

Remove(c) ==
  Effect([p \in Paths |->
            IF \E d \in c.batch : p = d.path \/ (d.recursive /\ p \in Subtree[d.path])
            THEN None ELSE objects[p]],
         Outcome("Ok"))

Duplicate(c, now) ==
  LET o   == objects[c.from]
      new == [o EXCEPT !.modified = now]
  IN  IF o = None THEN NoEffect("NotFound")
      ELSE IF \/ c.if_not_exists /\ objects[c.to] # None
              \/ c.if_match # None /\ ~Matched(c.if_match, c.to)
           THEN NoEffect("ConditionNotMatch")
      ELSE IF o.value = NotBytes THEN NoEffect("Unexpected")
      ELSE Effect([objects EXCEPT ![c.to] = new], Found(Describe(new), None))

Move(c) ==
  LET o == objects[c.from]
  IN  IF o = None THEN NoEffect("NotFound")
      ELSE IF o.value = NotBytes THEN NoEffect("Unexpected")
      ELSE Effect([objects EXCEPT ![c.to] = o, ![c.from] = None], Outcome("Ok"))

Apply(c, now) ==
  IF early_return(c) # None THEN NoEffect(early_return(c))
  ELSE CASE c.op \in {"stat", "read"} -> Retrieve(c)
         [] c.op = "set"    -> Store(c, now)
         [] c.op = "delete" -> Remove(c)
         [] c.op = "copy"   -> Duplicate(c, now)
         [] c.op = "rename" -> Move(c)
---------------------------------------------------------------------------
Init ==
  /\ objects \in [Paths -> Entry \cup {None}]
  /\ status = [t \in Clients |-> "idle"]
  /\ request = [t \in Clients |-> None]
  /\ response = [t \in Clients |-> None]

Invoke(t, c) ==
  /\ status[t] = "idle"
  /\ status' = [status EXCEPT ![t] = "pending"]
  /\ request' = [request EXCEPT ![t] = c]
  /\ UNCHANGED <<objects, response>>

Respond(t, out) ==
  /\ status[t] = "pending"
  /\ status' = [status EXCEPT ![t] = "done"]
  /\ response' = [response EXCEPT ![t] = out]
  /\ UNCHANGED request

\* The call takes effect, once.
Perform(t) ==
  \E now \in Times :
    /\ Respond(t, Apply(request[t], now).out)
    /\ objects' = Apply(request[t], now).objects

\* The call fails for a reason outside the store and has no effect.
Fail(t) == Respond(t, Outcome("Unexpected")) /\ UNCHANGED objects

\* The client takes its result, or its tab is reloaded before it does.
Forget(t) ==
  /\ status[t] \in {"pending", "done"}
  /\ status' = [status EXCEPT ![t] = "idle"]
  /\ request' = [request EXCEPT ![t] = None]
  /\ response' = [response EXCEPT ![t] = None]
  /\ UNCHANGED objects

\* A tab that runs an older version of the crate writes or deletes.
Legacy(p) ==
  /\ objects'[p] \in [value: Bytes, modified: {None}, content: {NoContent}] \cup {None}
  /\ objects' = [objects EXCEPT ![p] = objects'[p]]
  /\ UNCHANGED <<status, request, response>>

Next ==
  \/ \E t \in Clients : \/ \E c \in Calls : Invoke(t, c)
                        \/ Perform(t) \/ Fail(t) \/ Forget(t)
  \/ \E p \in Paths : Legacy(p)

Spec == Init /\ [][Next]_<<objects, status, request, response>>
=============================================================================
