----------------------------- MODULE ScratchMap -----------------------------
(***************************************************************************)
(* What a read-writer promises its caller: a private map that starts as    *)
(* the snapshot, with checkpoints.  Each operation is one step on the map; *)
(* there is no cache, no thread and no message here.                       *)
(***************************************************************************)
EXTENDS Naturals

CONSTANTS Keys, Values, None, MaxSnapshots

VARIABLES
    origin,         \* the contents the map started with
    view,           \* the map
    saved,          \* checkpoint id -> map or None
    nextId,         \* id of the next checkpoint
    answer          \* what the last lookup said: <<key, value>>, or <<>>

scratchVars == <<origin, view, saved, nextId, answer>>

Maps == [Keys -> Values \union {None}]

Nothing == [i \in 0 .. MaxSnapshots |-> None]

ScratchInit ==
    /\ origin \in Maps
    /\ view = origin
    /\ saved = Nothing
    /\ nextId = 0
    /\ answer = <<>>

Put(k, v) ==
    /\ view' = [view EXCEPT ![k] = v]
    /\ answer' = <<>>
    /\ UNCHANGED <<origin, saved, nextId>>

Remove(k) == Put(k, None)

Find(k) ==
    /\ answer' = <<k, view[k]>>
    /\ UNCHANGED <<origin, view, saved, nextId>>

Checkpoint ==
    /\ nextId < MaxSnapshots
    /\ saved' = [saved EXCEPT ![nextId] = view]
    /\ nextId' = nextId + 1
    /\ answer' = <<>>
    /\ UNCHANGED <<origin, view>>

\* Going back to a checkpoint uses up all of them.
Rollback(i) ==
    /\ saved[i] # None
    /\ view' = saved[i]
    /\ saved' = Nothing
    /\ answer' = <<>>
    /\ UNCHANGED <<origin, nextId>>

Reset ==
    /\ view' = origin
    /\ saved' = Nothing
    /\ answer' = <<>>
    /\ UNCHANGED <<origin, nextId>>

\* Errors, scans and refused calls change nothing but the last answer.
Quiet ==
    /\ answer' = <<>>
    /\ UNCHANGED <<origin, view, saved, nextId>>

ScratchNext ==
    \/ \E k \in Keys, v \in Values : Put(k, v)
    \/ \E k \in Keys : Remove(k) \/ Find(k)
    \/ Checkpoint
    \/ \E i \in 0 .. MaxSnapshots : Rollback(i)
    \/ Reset
    \/ Quiet

ScratchSpec == ScratchInit /\ [][ScratchNext]_scratchVars

============================================================================
