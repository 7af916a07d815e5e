----------------------------- MODULE InMemorySMT -----------------------------
(***************************************************************************)
(* The in-memory tree (in_memory_smt.rs, sparse_merkle_tree.js): a map of  *)
(* stored subtrees behind a mutex.  Every update runs on a thread of its   *)
(* own, holds the mutex from beginning to end and names the root it starts *)
(* from.  Calls that race are therefore updates in any order, each from    *)
(* any root the caller has been given: one with an old root is a call made *)
(* long ago, or one that overlapped another.                               *)
(*                                                                         *)
(* An update is the recursion of commit, one step per call of update_node, *)
(* with the calls of update_subtree in progress on a stack.  It deletes    *)
(* and stores subtrees on its way and may fail in the middle.  The tree of *)
(* StateDB runs the same code over a RocksDB batch, which is thrown away   *)
(* when the update fails; here what was done is kept.                      *)
(***************************************************************************)
EXTENDS SparseMerkleTree

CONSTANTS
    Batches,        \* the update data: functions from keys to values or EmptyBytes
    MaxUpdates,     \* bound on updates
    None            \* no root

ASSUME InMemorySMTAssumption ==
    \A data \in Batches :
        /\ DOMAIN data \subseteq Seq({0, 1})
        /\ data = [k \in DOMAIN data |-> data[k]]

VARIABLES
    nodes,          \* InMemorySmtDB.cache: hash -> stored subtree
    call,           \* the update that holds the mutex: its root and data
    stack,          \* its calls of update_subtree, the innermost first
    claims,         \* history: root the caller was given -> contents it stands for
    tip,            \* history: the root that updates were chained to, or None
    updates         \* updates so far

vars == <<nodes, call, stack, claims, tip, updates>>

NoCall == [root |-> EmptyHash, data |-> <<>>]

\* update_subtree on entry: all items are to be updated, from bin 0 on.
Frame(subtree, data, height) ==
    [subtree |-> subtree, data |-> data, height |-> height,
     todo |-> subtree.items, done |-> <<>>, low |-> 0]

Init ==
    /\ nodes = <<>>
    /\ call = NoCall
    /\ stack = <<>>
    /\ claims = [r \in {EmptyHash} |-> <<>>]
    /\ tip = EmptyHash
    /\ updates = 0

----------------------------------------------------------------------------
(* The beginning of an update.                                             *)

\* Whether commit gets as far as update_subtree.
Accepted(root, data) ==
    /\ \A k \in DOMAIN data : Len(k) = KeyBits
    /\ GetSubtree(nodes, root) # Missing

\* Without data the answer is the root itself; data that is not accepted is
\* an error.  Neither touches a subtree.
AnswerAtOnce(root, data) ==
    /\ stack = <<>>
    /\ updates < MaxUpdates
    /\ DOMAIN data = {} \/ ~Accepted(root, data)
    /\ updates' = updates + 1
    /\ UNCHANGED <<nodes, call, stack, claims, tip>>

\* commit.
Begin(root, data) ==
    /\ stack = <<>>
    /\ updates < MaxUpdates
    /\ DOMAIN data # {}
    /\ Accepted(root, data)
    /\ updates' = updates + 1
    /\ call' = [root |-> root, data |-> data]
    /\ stack' = <<Frame(GetSubtree(nodes, root), data, 0)>>
    /\ UNCHANGED <<nodes, claims, tip>>

----------------------------------------------------------------------------
(* update_node on the next item of the innermost subtree.                  *)

Top == Head(stack)

Busy == stack # <<>> /\ Top.todo # <<>>

Node == Head(Top.todo).node

Pos == Head(Top.todo).pos

\* The data of the node's bins.
Data == Slice(Top.data, Top.height, Top.low, Size(Pos))

\* The frame after its next item has become the node.
Advance(frame, node) ==
    LET pos == Head(frame.todo).pos
    IN  [frame EXCEPT !.todo = Tail(frame.todo),
                      !.done = Append(frame.done, At(node, pos)),
                      !.low = frame.low + Size(pos)]

\* Neither nothing to do nor work for update_single_node.
GoesOn == DOMAIN Data # {} /\ ~IsSingle(Node, Data)

KeepNode ==
    /\ Busy
    /\ DOMAIN Data = {}
    /\ stack' = <<Advance(Top, Node)>> \o Tail(stack)
    /\ UNCHANGED <<nodes, call, claims, tip, updates>>

SetSingleNode ==
    /\ Busy
    /\ IsSingle(Node, Data)
    /\ stack' = <<Advance(Top, UpdateSingleNode(Data))>> \o Tail(stack)
    /\ UNCHANGED <<nodes, call, claims, tip, updates>>

SplitNode ==
    /\ Busy
    /\ GoesOn
    /\ Pos # SubtreeHeight
    /\ Node.kind # "stub"
    /\ stack' = <<[Top EXCEPT !.todo = LeftRight(Node, Top.height, Pos) \o Tail(Top.todo)]>>
                    \o Tail(stack)
    /\ UNCHANGED <<nodes, call, claims, tip, updates>>

\* update_same_height: the update goes on in the subtree below; the stub
\* that led there is deleted first.
EnterSubtree ==
    /\ Busy
    /\ GoesOn
    /\ Pos = SubtreeHeight
    /\ SubtreeBelow(nodes, Node) # Missing
    /\ stack' = <<Frame(SubtreeBelow(nodes, Node), Data, Top.height + Pos)>> \o stack
    /\ nodes' = IF Node.kind = "stub" THEN DelNode(nodes, Node.hash) ELSE nodes
    /\ UNCHANGED <<call, claims, tip, updates>>

----------------------------------------------------------------------------
(* The end of an update_subtree.                                           *)

\* Every bin must belong to a node.
Finished == stack # <<>> /\ Top.todo = <<>> /\ Top.low = Bins[SubtreeHeight]

\* Mutant: the stub is deleted after the subtree below it is stored.
StoreThenDelete(frame) ==
    DelNode(SetNode(nodes, CalculateSubtree(frame.done)), frame.subtree.root)

\* The updated nodes are normalised and stored.
Stored(frame) == SetNode(nodes, CalculateSubtree(frame.done))

\* Back to update_same_height of the subtree above.
LeaveSubtree ==
    /\ Finished
    /\ Len(stack) > 1
    /\ nodes' = Stored(Top)
    /\ stack' = <<Advance(stack[2], Collapsed(CalculateSubtree(Top.done)))>> \o Tail(Tail(stack))
    /\ UNCHANGED <<call, claims, tip, updates>>

\* Whether the caller goes on from the root of this call.
Chained == call.root = EmptyHash \/ (tip # None /\ call.root = tip)

\* The end of commit: the caller gets the new root.
Answer ==
    /\ Finished
    /\ Len(stack) = 1
    /\ nodes' = Stored(Top)
    /\ LET root == CalculateSubtree(Top.done).root
       IN  /\ claims' = [r \in DOMAIN claims \union {root} |->
                            IF r = root THEN Updated(claims[call.root], call.data) ELSE claims[r]]
           /\ tip' = IF Chained THEN root ELSE None
    /\ stack' = <<>>
    /\ call' = NoCall
    /\ UNCHANGED updates

\* The update cannot go on: a missing subtree, a stub above the lowest level,
\* or bins without a node.
Stuck ==
    /\ stack # <<>>
    /\ IF Top.todo = <<>> THEN Top.low # Bins[SubtreeHeight]
       ELSE /\ GoesOn
            /\ IF Pos = SubtreeHeight THEN SubtreeBelow(nodes, Node) = Missing
               ELSE Node.kind = "stub"

\* The caller gets an error; what was deleted and stored stays so.
FailUpdate ==
    /\ Stuck
    /\ stack' = <<>>
    /\ call' = NoCall
    /\ tip' = IF Chained THEN tip ELSE None
    /\ UNCHANGED <<nodes, claims, updates>>

Next ==
    \/ \E root \in DOMAIN claims, data \in Batches : AnswerAtOnce(root, data) \/ Begin(root, data)
    \/ KeepNode \/ SetSingleNode \/ SplitNode \/ EnterSubtree
    \/ LeaveSubtree \/ Answer \/ FailUpdate

Spec == Init /\ [][Next]_vars

----------------------------------------------------------------------------
(* Properties.                                                             *)

\* Whatever updates raced or failed before, an update that succeeds answers
\* the Merkle root of its base contents with the data applied: subtrees,
\* bins, stubs and collapsed leaves never show in the root.
RootsAreReference == \A r \in DOMAIN claims : r = MerkleRoot(claims[r])

\* The places of the subtrees of a tree: the root, and every boundary of
\* subtrees below which there are keys that part.
SubtreePaths(contents) ==
    {<<>>} \union {p \in {SubSeq(k, 1, n * SubtreeHeight) : k \in DOMAIN contents,
                                                   n \in 1 .. KeyBits \div SubtreeHeight} :
                      \E k, l \in Below(DOMAIN contents, p) : k # l}

\* A caller that chains its updates, each on the root of the last, never
\* meets a missing subtree: what an update deletes its result does not need.
\* Between updates every subtree of the contents is stored, and an update of
\* the tip, or of the empty tree, is never stuck.
TipIsComplete ==
    /\ stack = <<>> /\ tip # None /\ tip # EmptyHash =>
           \A p \in SubtreePaths(claims[tip]) : RootBelow(claims[tip], p) \in DOMAIN nodes
    /\ Chained => ~Stuck

============================================================================
