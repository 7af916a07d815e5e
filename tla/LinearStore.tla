---------------------------- MODULE LinearStore -----------------------------
(***************************************************************************)
(* What a database promises: contents that every call reads or changes in  *)
(* one step, once, at some moment between the call and its answer.  No     *)
(* threads, no queue, no connection.                                       *)
(*                                                                         *)
(* The one exception is a clear, which looks which keys there are, and     *)
(* removes these keys in a later step.                                     *)
(*                                                                         *)
(* A Batch belongs to its caller, who may still change it after write():   *)
(* what is written is what it holds at that moment.                        *)
(***************************************************************************)
CONSTANTS
    Kinds,              \* the kinds of database
    Store,              \* what the contents can be
    Batch,              \* what a Batch can hold
    BatchIds,
    Requests,
    Fixed(_, _),        \* contents, request: the request once it has looked
    Effect(_, _, _),    \* contents, batches, request: the contents afterwards
    Answer(_, _, _),    \* kind, contents, request: what is answered
    Promises,
    None

VARIABLES
    kind,           \* Normal or State
    contents,
    batches,        \* the caller's Batch objects
    calls           \* per promise: "open" before its effect, "done" until it is answered

linearVars == <<kind, contents, batches, calls>>

NoCall == [phase |-> "idle", req |-> None, res |-> None]

OpenCall(req) == [phase |-> "open", req |-> req, res |-> None]

DoneCall(req) == [phase |-> "done", req |-> req, res |-> Answer(kind, contents, req)]

LinearInit ==
    /\ kind \in Kinds
    /\ contents \in Store
    /\ batches \in [BatchIds -> Batch]
    /\ calls = [p \in Promises |-> NoCall]

Invoke(p, req) ==
    /\ calls[p].phase = "idle"
    /\ calls' = [calls EXCEPT ![p] = OpenCall(req)]
    /\ UNCHANGED <<kind, contents, batches>>

\* A call that depends on nothing but the contents when it takes effect.
Ready(req) == Fixed(contents, req) = req

InvokeAndAct(p, req) ==
    /\ calls[p].phase = "idle"
    /\ Ready(req)
    /\ contents' = Effect(contents, batches, req)
    /\ calls' = [calls EXCEPT ![p] = DoneCall(req)]
    /\ UNCHANGED <<kind, batches>>

Look(p) ==
    /\ calls[p].phase = "open"
    /\ calls' = [calls EXCEPT ![p] = OpenCall(Fixed(contents, calls[p].req))]
    /\ UNCHANGED <<kind, contents, batches>>

Act(p) ==
    /\ calls[p].phase = "open"
    /\ Ready(calls[p].req)
    /\ contents' = Effect(contents, batches, calls[p].req)
    /\ calls' = [calls EXCEPT ![p] = DoneCall(calls[p].req)]
    /\ UNCHANGED <<kind, batches>>

\* The caller is given the answer of the call.
Return(p) ==
    /\ calls[p].phase = "done"
    /\ calls' = [calls EXCEPT ![p] = NoCall]
    /\ UNCHANGED <<kind, contents, batches>>

ChangeBatch(b, change) ==
    /\ batches' = [batches EXCEPT ![b] = change]
    /\ UNCHANGED <<kind, contents, calls>>

LinearNext ==
    \/ \E p \in Promises : \E req \in Requests : Invoke(p, req) \/ InvokeAndAct(p, req)
    \/ \E p \in Promises : Look(p) \/ Act(p) \/ Return(p)
    \/ \E b \in BatchIds : \E change \in Batch : ChangeBatch(b, change)

LinearSpec == LinearInit /\ [][LinearNext]_linearVars

============================================================================
