-------------------------- MODULE SparseMerkleTree --------------------------
(***************************************************************************)
(* The sparse Merkle tree (sparse_merkle_tree/smt.rs): nodes, subtrees and *)
(* the pieces of an update, and the Merkle root they must lead to.         *)
(* Operators only; InMemorySMT makes the recursion of commit a state       *)
(* machine and SmtProof adds the proofs.                                   *)
(*                                                                         *)
(* The tree is cut into subtrees of height SubtreeHeight.  A subtree is    *)
(* the sequence of its bottom nodes from left to right, each with its      *)
(* depth in the subtree ("structure"), and is stored under its root hash.  *)
(* A stub is a node whose contents are a stored subtree of their own.      *)
(* The codec of a subtree reads back what it wrote as long as the value of *)
(* every leaf has HASH_SIZE bytes (smt.rs:670): leaves are of that size.   *)
(*                                                                         *)
(* A hash is the term that was hashed: collision free, and as in the code  *)
(* a leaf hash covers the whole key.  Keys are sequences of bits.          *)
(***************************************************************************)
EXTENDS Integers, SequencesExt

CONSTANTS
    KeyBits,        \* key_length in bits, a multiple of SubtreeHeight
    SubtreeHeight,  \* 4 or 8 in the code
    EmptyBytes      \* vec![]: the value that removes a key

ASSUME SparseMerkleTreeAssumption ==
    /\ SubtreeHeight \in Nat \ {0}
    /\ KeyBits \in Nat \ {0}
    /\ KeyBits % SubtreeHeight = 0

----------------------------------------------------------------------------
(* Hashes and nodes.                                                       *)

EmptyHash == <<"empty">>

LeafHash(k, v) == <<"leaf", k, v>>

BranchHash(l, r) == <<"branch", l, r>>

EmptyNode == [kind |-> "empty", hash |-> EmptyHash, key |-> <<>>]

LeafNode(k, v) == [kind |-> "leaf", hash |-> LeafHash(k, v), key |-> k]

StubNode(h) == [kind |-> "stub", hash |-> h, key |-> <<>>]

\* Stands for a part of a subtree while calculate_subtree runs.
TempNode == [kind |-> "temp", hash |-> <<>>, key |-> <<>>]

\* A node and its entry of "structure".
At(node, pos) == [node |-> node, pos |-> pos]

----------------------------------------------------------------------------
(* Layers: both loops below go from the deepest layer up and join the two  *)
(* neighbours of every pair at that depth.                                 *)

\* One item of a layer: the right one of a pair, the left one, or one of a
\* higher layer.
Take(acc, item, h) ==
    IF acc.left # <<>>
    THEN [groups |-> Append(acc.groups, Append(acc.left, item)), left |-> <<>>]
    ELSE IF item.pos = h
    THEN [groups |-> acc.groups, left |-> <<item>>]
    ELSE [groups |-> Append(acc.groups, <<item>>), left |-> <<>>]

Taken(acc, items, h) ==
    LET taken[i \in 0 .. Len(items)] == IF i = 0 THEN acc ELSE Take(taken[i - 1], items[i], h)
    IN  taken[Len(items)]

\* The items of a layer, those at depth h in pairs, the others alone.
Groups(items, h) == Taken([groups |-> <<>>, left |-> <<>>], items, h).groups

Deepest(items) == Max({items[i].pos : i \in DOMAIN items})

JoinHashes(layer, h) ==
    LET groups == Groups(layer, h)
        Join(g) == IF Len(g) = 1 THEN g[1]
                   ELSE [hash |-> BranchHash(g[1].hash, g[2].hash), pos |-> h - 1]
    IN  [i \in DOMAIN groups |-> Join(groups[i])]

\* Hasher::execute: one pass for every depth.
HasherExecute(items) ==
    LET deepest == Deepest(items)
        layer[n \in 0 .. deepest] ==
            IF n = 0 THEN [i \in DOMAIN items |-> [hash |-> items[i].node.hash, pos |-> items[i].pos]]
            ELSE JoinHashes(layer[n - 1], deepest + 1 - n)
    IN  layer[deepest][1].hash

\* SubTree::from_data, and SubTree::new of an encoded subtree: the encoding
\* keeps structure, leaves and stub hashes, the root is computed again.
FromData(items) == [items |-> items, root |-> HasherExecute(items)]

EmptySubtree == FromData(<<At(EmptyNode, 0)>>)

\* Mutant: two temporary parts are taken from the wrong end of the queue.
ParentFromFront(map, l, r) ==
    LET kinds == <<l.node.kind, r.node.kind>>
        leftTemp == l.node.kind = "temp"
        rightTemp == r.node.kind = "temp"
        rest == IF leftTemp THEN Tail(map) ELSE map
    IN  IF kinds \in {<<"empty", "empty">>, <<"leaf", "empty">>}
        THEN [node |-> l.node, map |-> map]
        ELSE IF kinds = <<"empty", "leaf">>
        THEN [node |-> r.node, map |-> map]
        ELSE [node |-> TempNode,
              map |-> <<(IF leftTemp THEN Head(map) ELSE <<l>>)
                            \o (IF rightTemp THEN Head(rest) ELSE <<r>>)>>
                        \o (IF rightTemp THEN Tail(rest) ELSE rest)]

\* get_parent_node: an empty node or a lone leaf moves up, anything else
\* stays below a temporary node, whose items wait in the queue tree_map.
GetParentNode(map, l, r) ==
    LET kinds == <<l.node.kind, r.node.kind>>
        leftTemp == l.node.kind = "temp"
        rightTemp == r.node.kind = "temp"
        rest == IF leftTemp THEN Front(map) ELSE map
    IN  IF kinds \in {<<"empty", "empty">>, <<"leaf", "empty">>}
        THEN [node |-> l.node, map |-> map]
        ELSE IF kinds = <<"empty", "leaf">>
        THEN [node |-> r.node, map |-> map]
        ELSE [node |-> TempNode,
              map |-> <<(IF leftTemp THEN Last(map) ELSE <<l>>)
                            \o (IF rightTemp THEN Last(rest) ELSE <<r>>)>>
                        \o (IF rightTemp THEN Front(rest) ELSE rest)]

Push(acc, g) ==
    LET parent == GetParentNode(acc.map, g[1], g[2])
    IN  IF Len(g) = 1
        THEN [layer |-> Append(acc.layer, g[1]), map |-> acc.map]
        ELSE [layer |-> Append(acc.layer, At(parent.node, g[1].pos - 1)), map |-> parent.map]

Pushed(acc, groups) ==
    LET pushed[i \in 0 .. Len(groups)] == IF i = 0 THEN acc ELSE Push(pushed[i - 1], groups[i])
    IN  pushed[Len(groups)]

\* calculate_subtree: the updated items with empty nodes and lone leaves
\* pushed up as far as they go.
CalculateSubtree(items) ==
    LET deepest == Deepest(items)
        risen[n \in 0 .. deepest] ==
            IF n = 0 THEN [layer |-> items, map |-> <<>>]
            ELSE Pushed([layer |-> <<>>, map |-> risen[n - 1].map],
                        Groups(risen[n - 1].layer, deepest + 1 - n))
        top == risen[deepest]
    IN  IF top.layer[1].node.kind = "temp"
        THEN FromData(Head(top.map))
        ELSE FromData(<<At(top.layer[1].node, 0)>>)

----------------------------------------------------------------------------
(* The pieces of an update.                                                *)

Missing == [items |-> <<>>, root |-> <<>>]

\* get_subtree.
GetSubtree(nodes, h) ==
    IF h = EmptyHash THEN EmptySubtree
    ELSE IF h \in DOMAIN nodes THEN FromData(nodes[h])
    ELSE Missing

SetNode(nodes, tree) ==
    [h \in DOMAIN nodes \union {tree.root} |-> IF h = tree.root THEN tree.items ELSE nodes[h]]

DelNode(nodes, h) == [x \in DOMAIN nodes \ {h} |-> nodes[x]]

\* The bins under a node that is n levels above the lowest of its subtree.
Bins[n \in 0 .. SubtreeHeight] == IF n = 0 THEN 1 ELSE 2 * Bins[n - 1]

Size(pos) == Bins[SubtreeHeight - pos]

\* The bin of a key in the subtree that starts at bit "height".
BinIdx(k, height) ==
    LET idx[i \in 0 .. SubtreeHeight] == IF i = 0 THEN 0 ELSE 2 * idx[i - 1] + k[height + i]
    IN  idx[SubtreeHeight]

\* The update data of "size" bins from "low" on.
Slice(data, height, low, size) ==
    LET keys == {k \in DOMAIN data : BinIdx(k, height) \in low .. low + size - 1}
    IN  [k \in keys |-> data[k]]

\* update_single_node does the update when the node is empty or the key's leaf.
IsSingle(node, data) ==
    \E k \in DOMAIN data :
        /\ DOMAIN data = {k}
        /\ node.kind = "empty" \/ (node.kind = "leaf" /\ node.key = k)

UpdateSingleNode(data) ==
    LET k == CHOOSE x \in DOMAIN data : TRUE
    IN  IF data[k] = EmptyBytes THEN EmptyNode ELSE LeafNode(k, data[k])

\* get_left_and_right_nodes, one level down; a leaf goes to the side of its
\* next bit.
LeftRight(node, height, pos) ==
    LET Pair(l, r) == <<At(l, pos + 1), At(r, pos + 1)>>
    IN  IF node.kind = "empty" THEN Pair(EmptyNode, EmptyNode)
        ELSE IF node.key[height + pos + 1] = 1 THEN Pair(EmptyNode, node)
        ELSE Pair(node, EmptyNode)

\* The subtree that an update goes on in below a node of the lowest level.
SubtreeBelow(nodes, node) ==
    IF node.kind = "leaf" THEN FromData(<<At(node, 0)>>) ELSE GetSubtree(nodes, node.hash)

\* The node that stands for an updated subtree in the one above: a subtree
\* of one node is that node, any other becomes a stub.
Collapsed(tree) == IF Len(tree.items) = 1 THEN tree.items[1].node ELSE StubNode(tree.root)

----------------------------------------------------------------------------
(* The reference: the Merkle root of a map, by LIP-0039.                   *)

\* The first bits of keys: where a node is in the tree.
Paths == {p \in Seq({0, 1}) : Len(p) <= KeyBits}

Below(keys, path) == {k \in keys : SubSeq(k, 1, Len(path)) = path}

\* The hash of the node at the path.
RootBelow(contents, path) ==
    LET root[p \in Paths] ==
            LET keys == Below(DOMAIN contents, p)
            IN  IF keys = {} THEN EmptyHash
                ELSE IF \E k \in keys : keys = {k}
                THEN LET k == CHOOSE x \in keys : TRUE IN LeafHash(k, contents[k])
                ELSE BranchHash(root[Append(p, 0)], root[Append(p, 1)])
    IN  root[path]

MerkleRoot(contents) == RootBelow(contents, <<>>)

\* A map after an update.
Updated(contents, data) ==
    LET removed == {k \in DOMAIN data : data[k] = EmptyBytes}
    IN  [k \in (DOMAIN contents \union DOMAIN data) \ removed |->
            IF k \in DOMAIN data THEN data[k] ELSE contents[k]]

============================================================================
