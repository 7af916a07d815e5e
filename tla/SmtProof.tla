------------------------------ MODULE SmtProof ------------------------------
(***************************************************************************)
(* Multi-proofs of the sparse Merkle tree (the second half of              *)
(* sparse_merkle_tree/smt.rs): prove, verify, calculate_root and           *)
(* remove_keys_from_proof, with the inclusion test of utils.js.            *)
(*                                                                         *)
(* A proof is a list of queries [key, value, bitmap], one for every key    *)
(* asked for, and a list of sibling hashes that all queries draw on.       *)
(* While they are worked on, queries wait in a list, longest bitmap first  *)
(* and then by key; a query moves up one level at a time.                  *)
(***************************************************************************)
EXTENDS SparseMerkleTree

CONSTANT ByteBits   \* bits in a byte of an encoded bitmap: 8

ASSUME ByteBitsAssumption == ByteBits \in Nat \ {0}

----------------------------------------------------------------------------
(* Queries.                                                                *)

\* bools_to_bytes: padded on the left to whole bytes.
BoolsToBytes(bits) ==
    LET pad == (ByteBits - (Len(bits) % ByteBits)) % ByteBits
    IN  [i \in 1 .. pad |-> FALSE] \o bits

\* strip_left_false.
StripLeftFalse(bits) ==
    LET first == SelectInSeq(bits, LAMBDA b : b)
    IN  IF first = 0 THEN <<>> ELSE SubSeq(bits, first, Len(bits))

\* QueryProofWithProof::new_with_pair.  The bitmap has the deepest level
\* first; it loses its head on the way up.
WithPair(k, v, bits, ancestors, siblings) ==
    [key |-> k, value |-> v, bits |-> bits, ancestors |-> ancestors, siblings |-> siblings,
     hash |-> IF v = EmptyBytes THEN EmptyHash ELSE LeafHash(k, v), removed |-> FALSE]

Height(q) == Len(q.bits)

BinaryPath(q) == SubSeq(q.key, 1, Height(q))

KeyLess(a, b) ==
    \E i \in DOMAIN a : a[i] < b[i] /\ SubSeq(a, 1, i - 1) = SubSeq(b, 1, i - 1)

\* The order of the list: sort_descending, and the search that inserts.
Before(a, b) ==
    \/ Height(a) > Height(b)
    \/ Height(a) = Height(b) /\ KeyLess(a.key, b.key)

\* insert_and_filter_queries: dropped when the next one has the same path.
InsertAndFilter(q, queue) ==
    LET i == SelectInSeq(queue, LAMBDA other : Before(q, other))
    IN  IF i = 0 THEN Append(queue, q)
        ELSE IF BinaryPath(q) = BinaryPath(queue[i]) THEN queue
        ELSE InsertAt(queue, i, q)

----------------------------------------------------------------------------
(* prove                                                                   *)

\* calculate_query_hashes: the way from the node at index "target" to the
\* root of its subtree.  Ancestors and siblings are collected root first.
QueryHashes(items, target) ==
    LET Join(acc, g) ==
            LET parent == [hash |-> BranchHash(g[1].hash, g[2].hash), pos |-> g[1].pos - 1,
                           target |-> g[1].target \/ g[2].target]
                sibling == IF g[1].target THEN g[2].hash ELSE g[1].hash
                up == [acc EXCEPT !.layer = Append(@, parent)]
            IN  IF Len(g) = 1 THEN [acc EXCEPT !.layer = Append(@, g[1])]
                ELSE IF ~parent.target THEN up
                ELSE [up EXCEPT !.ancestors = <<parent.hash>> \o @,
                                !.bits = Append(@, sibling # EmptyHash),
                                !.siblings = IF sibling = EmptyHash THEN @ ELSE <<sibling>> \o @]
        Rise(acc, h) == FoldLeft(Join, [acc EXCEPT !.layer = <<>>], Groups(acc.layer, h))
        depths == [n \in 1 .. Deepest(items) |-> Deepest(items) + 1 - n]
        layer == [i \in DOMAIN items |->
                     [hash |-> items[i].node.hash, pos |-> items[i].pos, target |-> i = target]]
    IN  FoldLeft(Rise, [layer |-> layer, ancestors |-> <<>>, siblings |-> <<>>, bits |-> <<>>],
                 depths)

\* find_current_node: the node over the key's bin.
FindCurrentNode(items, key, height) ==
    LET low[i \in 1 .. Len(items) + 1] ==
            IF i = 1 THEN 0 ELSE low[i - 1] + Size(items[i - 1].pos)
    IN  CHOOSE i \in DOMAIN items : BinIdx(key, height) \in low[i] .. low[i + 1] - 1

NotFound == WithPair(<<>>, EmptyBytes, <<>>, <<>>, <<>>)

RECURSIVE GenerateQueryProof(_, _, _, _)

\* Mutant: the levels of the lower subtree are put above this one's.
GenerateUpsideDown(nodes, subtree, key, height) ==
    LET at == FindCurrentNode(subtree.items, key, height)
        node == subtree.items[at].node
        here == QueryHashes(subtree.items, at)
        lower == GenerateQueryProof(nodes, GetSubtree(nodes, node.hash), key,
                                    height + subtree.items[at].pos)
    IN  IF subtree = Missing THEN NotFound
        ELSE IF node.kind = "empty"
        THEN WithPair(key, EmptyBytes, here.bits, here.ancestors, here.siblings)
        ELSE IF node.kind = "leaf"
        THEN WithPair(node.key, node.hash[3], here.bits, Append(here.ancestors, node.hash),
                      here.siblings)
        ELSE IF lower = NotFound THEN NotFound
        ELSE WithPair(lower.key, lower.value, lower.bits \o here.bits,
                      here.ancestors \o lower.ancestors, lower.siblings \o here.siblings)

\* generate_query_proof, with calculate_query_proof_from_result.  An empty
\* node answers the key itself without a value, a leaf answers its own key.
GenerateQueryProof(nodes, subtree, key, height) ==
    LET at == FindCurrentNode(subtree.items, key, height)
        node == subtree.items[at].node
        here == QueryHashes(subtree.items, at)
        lower == GenerateQueryProof(nodes, GetSubtree(nodes, node.hash), key,
                                    height + subtree.items[at].pos)
    IN  IF subtree = Missing THEN NotFound
        ELSE IF node.kind = "empty"
        THEN WithPair(key, EmptyBytes, here.bits, here.ancestors, here.siblings)
        ELSE IF node.kind = "leaf"
        THEN WithPair(node.key, node.hash[3], here.bits, Append(here.ancestors, node.hash),
                      here.siblings)
        ELSE IF lower = NotFound THEN NotFound
        ELSE WithPair(lower.key, lower.value, lower.bits \o here.bits,
                      here.ancestors \o lower.ancestors, here.siblings \o lower.siblings)

RECURSIVE SiblingHashes(_, _, _)

\* calculate_sibling_hashes: every sibling on the way up that no query leads
\* to and that is not listed yet, in the order verify will ask for them.
SiblingHashes(queue, ancestors, siblings) ==
    LET q == Head(queue)
        sibling == Last(q.siblings)
        up == [q EXCEPT !.bits = Tail(@),
                        !.siblings = IF Head(q.bits) THEN Front(@) ELSE @]
        listed == IF Head(q.bits) /\ sibling \notin Range(ancestors) \union Range(siblings)
                  THEN Append(siblings, sibling) ELSE siblings
    IN  IF queue = <<>> THEN siblings
        ELSE IF Height(q) = 0 THEN SiblingHashes(Tail(queue), ancestors, siblings)
        ELSE SiblingHashes(InsertAndFilter(up, Tail(queue)), ancestors, listed)

\* The part of a query that goes into a proof.
QueryProof(q) == [key |-> q.key, value |-> q.value, bitmap |-> BoolsToBytes(q.bits)]

NoProof == [ok |-> FALSE, queries |-> <<>>, siblings |-> <<>>]

\* prove.
Prove(nodes, root, keys) ==
    LET subtree == GetSubtree(nodes, root)
        found == [i \in DOMAIN keys |->
                     IF Len(keys[i]) # KeyBits THEN NotFound
                     ELSE GenerateQueryProof(nodes, subtree, keys[i], 0)]
        ancestors == FlattenSeq([i \in DOMAIN keys |-> found[i].ancestors])
    IN  IF keys = <<>> THEN [NoProof EXCEPT !.ok = TRUE]
        ELSE IF NotFound \in Range(found) THEN NoProof
        ELSE [ok |-> TRUE,
              queries |-> [i \in DOMAIN keys |-> QueryProof(found[i])],
              siblings |-> SiblingHashes(SortSeq(found, Before), ancestors, <<>>)]

----------------------------------------------------------------------------
(* verify                                                                  *)

\* A query of a proof, ready to be worked on.
Prepared(query) == WithPair(query.key, query.value, StripLeftFalse(query.bitmap), <<>>, <<>>)

\* The checks of one query against the key asked for.
WellFormed(key, query) ==
    LET q == Prepared(query)
    IN  /\ Len(key) = KeyBits
        /\ Len(query.key) = KeyBits
        /\ query.bitmap # <<>> => \E i \in 1 .. ByteBits : query.bitmap[i]
        /\ Height(q) <= Len(q.key)
        /\ key # query.key => query.value # EmptyBytes /\ IsPrefix(BinaryPath(q), key)

\* Mutant: the values of two queries with one path are not compared.
SameBitmap(a, b) == a.bitmap = b.bitmap

\* Two queries with one path tell the same.
SameNode(a, b) ==
    /\ a.bitmap = b.bitmap
    /\ a.value = b.value
    /\ a.value # EmptyBytes => a.key = b.key

\* The first query of every path.
FirstOfPath(queries) ==
    LET Path(i) == BinaryPath(Prepared(queries[i]))
        first == {i \in DOMAIN queries : \A j \in 1 .. i - 1 : Path(i) # Path(j)}
    IN  [at \in 1 .. Cardinality(first) |->
            Prepared(queries[CHOOSE i \in first : Cardinality({j \in first : j <= i}) = at])]

\* verify_and_prepare_proof_map: whether it returns a list.
ProofAccepted(keys, proof) ==
    LET Path(i) == BinaryPath(Prepared(proof.queries[i]))
    IN  /\ Len(keys) = Len(proof.queries)
        /\ \A i \in DOMAIN keys : WellFormed(keys[i], proof.queries[i])
        /\ \A i \in DOMAIN keys : \A j \in 1 .. i - 1 :
               Path(i) = Path(j) => SameNode(proof.queries[i], proof.queries[j])

\* is_sibling_of: the paths differ in their last bit only.
IsSiblingOf(a, b) ==
    /\ Height(a) = Height(b)
    /\ SubSeq(a.key, 1, Height(a) - 1) = SubSeq(b.key, 1, Height(b) - 1)
    /\ a.key[Height(a)] # b.key[Height(b)]

\* is_bitmap_valid.
IsBitmapValid(a, b) ==
    /\ Head(a.bits) = (b.hash # EmptyHash)
    /\ Head(b.bits) = (a.hash # EmptyHash)
    /\ Tail(a.bits) = Tail(b.bits)

\* next_query.
NextQuery(q, sibling) ==
    [q EXCEPT !.bits = Tail(@),
              !.hash = IF q.key[Height(q)] = 0 THEN BranchHash(q.hash, sibling)
                       ELSE BranchHash(sibling, q.hash)]

NoRoot == [ok |-> FALSE, root |-> <<>>]

RECURSIVE RootOf(_, _)

\* The loop of calculate_root.  A query meets its sibling in the list, or
\* the bitmap says empty, or the next sibling hash is used.
RootOf(queue, siblings) ==
    LET q == Head(queue)
        rest == Tail(queue)
        meets == rest # <<>> /\ IsSiblingOf(q, rest[1])
    IN  IF queue = <<>> THEN [ok |-> TRUE, root |-> <<>>]
        ELSE IF Height(q) = 0 THEN [ok |-> siblings = <<>>, root |-> q.hash]
        ELSE IF meets
        THEN IF IsBitmapValid(q, rest[1])
             THEN RootOf(InsertAndFilter(NextQuery(q, rest[1].hash), Tail(rest)), siblings)
             ELSE NoRoot
        ELSE IF ~Head(q.bits) THEN RootOf(InsertAndFilter(NextQuery(q, EmptyHash), rest), siblings)
        ELSE IF siblings = <<>> THEN NoRoot
        ELSE RootOf(InsertAndFilter(NextQuery(q, Head(siblings)), rest), Tail(siblings))

\* calculate_root.
CalculateRoot(siblings, queries) == RootOf(SortSeq(queries, Before), siblings)

\* verify.
Verify(keys, proof, root) ==
    /\ ProofAccepted(keys, proof)
    /\ CalculateRoot(proof.siblings, FirstOfPath(proof.queries)) = [ok |-> TRUE, root |-> root]

\* isInclusionProofForQueryKey of utils.js.
IsInclusion(key, query) == key = query.key /\ query.value # EmptyBytes

\* verifyInclusionProof and verifyNonInclusionProof of sparse_merkle_tree.js.
VerifyInclusionProof(root, keys, proof) ==
    /\ Len(keys) = Len(proof.queries)
    /\ \A i \in DOMAIN keys : IsInclusion(keys[i], proof.queries[i])
    /\ Verify(keys, proof, root)

VerifyNonInclusionProof(root, keys, proof) ==
    /\ Len(keys) = Len(proof.queries)
    /\ \A i \in DOMAIN keys : ~IsInclusion(keys[i], proof.queries[i])
    /\ Verify(keys, proof, root)

----------------------------------------------------------------------------
(* calculateRoot and remove_keys_from_proof                                *)

\* prepare_queries_with_proof_map: of the queries with one path, the last.
LastOfPath(queries) == Reverse(FirstOfPath(Reverse(queries)))

\* ... and whether it returns a map at all.
PathsInKeys(queries) ==
    \A i \in DOMAIN queries : Height(Prepared(queries[i])) <= Len(queries[i].key)

\* js_calculate_root: the root a proof stands for, whatever was asked.
RootOfProof(proof) ==
    IF PathsInKeys(proof.queries) THEN CalculateRoot(proof.siblings, LastOfPath(proof.queries))
    ELSE NoRoot

\* Mutant: the additions go to the end of the list.
AddSiblingsLast(siblings, added) == siblings \o [i \in DOMAIN added |-> added[i].hash]

\* The additions are [at, hash] with at counted from 0 in the final list.
AddSiblings(siblings, added) ==
    FoldLeft(LAMBDA s, a : InsertAt(s, Min({a.at, Len(s)}) + 1, a.hash), siblings, added)

\* prepare_result_proof, given that every sibling hash was used.
ResultProof(proof, added, removed, keys) ==
    LET siblings == AddSiblings(proof.siblings, added)
        kept == SelectSeq(siblings, LAMBDA h : h \notin Range(removed))
        queries == SelectSeq(proof.queries, LAMBDA q : q.key \notin Range(keys))
    IN  IF /\ \A i \in DOMAIN added :
                  added[i].hash \notin Range(AddSiblings(proof.siblings, SubSeq(added, 1, i - 1)))
           /\ Len(siblings) - Len(kept) = Len(removed)
           /\ Len(proof.queries) - Len(queries) = Len(keys)
        THEN [ok |-> TRUE, queries |-> queries, siblings |-> kept]
        ELSE NoProof

RECURSIVE RemoveLoop(_, _, _, _)

\* The loop: acc.next sibling hashes are used, acc.at is the place of the
\* next one in the new list.
RemoveLoop(queue, proof, keys, acc) ==
    LET q == Head(queue)
        rest == Tail(queue)
        meets == rest # <<>> /\ IsSiblingOf(q, rest[1])
        Add(h) == [acc EXCEPT !.added = Append(@, [at |-> acc.at, hash |-> h]), !.at = @ + 1]
        joined == IF q.removed /\ ~rest[1].removed THEN Add(q.hash)
                  ELSE IF ~q.removed /\ rest[1].removed THEN Add(rest[1].hash)
                  ELSE acc
        stays == [q EXCEPT !.removed = @ /\ rest[1].removed]
        used == proof.siblings[acc.next + 1]
        after == [acc EXCEPT !.next = @ + 1, !.at = @ + 1,
                             !.removed = IF q.removed THEN Append(@, used) ELSE @]
    IN  IF queue = <<>> THEN NoProof
        ELSE IF Height(q) = 0
        THEN IF acc.next = Len(proof.siblings)
             THEN ResultProof(proof, acc.added, acc.removed, keys) ELSE NoProof
        ELSE IF meets
        THEN IF IsBitmapValid(q, rest[1])
             THEN RemoveLoop(InsertAndFilter(NextQuery(stays, rest[1].hash), Tail(rest)),
                             proof, keys, joined)
             ELSE NoProof
        ELSE IF ~Head(q.bits)
        THEN RemoveLoop(InsertAndFilter(NextQuery(q, EmptyHash), rest), proof, keys, acc)
        ELSE IF acc.next = Len(proof.siblings) THEN NoProof
        ELSE RemoveLoop(InsertAndFilter(NextQuery(q, used), rest), proof, keys, after)

\* remove_keys_from_proof.
RemoveKeysFromProof(proof, keys) ==
    LET prepared == LastOfPath(proof.queries)
        marked == [i \in DOMAIN prepared |->
                      [prepared[i] EXCEPT !.removed = prepared[i].key \in Range(keys)]]
    IN  IF ~PathsInKeys(proof.queries) THEN NoProof
        ELSE RemoveLoop(SortSeq(marked, Before), proof, keys,
                        [next |-> 0, at |-> 0, added |-> <<>>, removed |-> <<>>])

============================================================================
