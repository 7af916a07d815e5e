--------------------------- MODULE VersionedStore ---------------------------
(***************************************************************************)
(* What the state database promises a caller that keeps its rules: the     *)
(* current contents and, for every version that has not been finalized,    *)
(* the contents to go back to.                                             *)
(***************************************************************************)
EXTENDS Integers

CONSTANTS Contents, Versions, Absent

VARIABLES
    now,            \* the current contents
    past            \* version -> contents before it was committed, or Absent

versionedVars == <<now, past>>

Live == {v \in Versions : past[v] # Absent}

VersionedInit ==
    /\ now \in Contents
    /\ past = [v \in Versions |-> Absent]

\* A commit is newer than everything that can still be undone.
Push(v) ==
    /\ \A w \in Live : w < v
    /\ past' = [past EXCEPT ![v] = now]
    /\ now' \in Contents

\* Only the newest version is undone, and exactly.
Pop(v) ==
    /\ v \in Live
    /\ \A w \in Live : w <= v
    /\ now' = past[v]
    /\ past' = [past EXCEPT ![v] = Absent]

\* Finalizing gives up undoing the oldest versions.
Trim(S) ==
    /\ \A v \in S, w \in Live : w < v => w \in S
    /\ past' = [v \in Versions |-> IF v \in S THEN Absent ELSE past[v]]
    /\ UNCHANGED now

VersionedNext ==
    \/ \E v \in Versions : Push(v) \/ Pop(v)
    \/ \E S \in SUBSET Live : Trim(S)

VersionedSpec == VersionedInit /\ [][VersionedNext]_versionedVars

============================================================================
