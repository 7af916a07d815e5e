----------------------------- MODULE SmtQueries ------------------------------
(***************************************************************************)
(* The in-memory tree between updates, asked for proofs: prove, verify,    *)
(* calculateRoot and removeKeysFromProof (in_memory_smt.rs,                *)
(* sparse_merkle_tree.js) take the same mutex, change nothing, and are     *)
(* evaluated in every state in which no update holds it.                   *)
(***************************************************************************)
EXTENDS InMemorySMT, SmtProof

CONSTANTS
    Values,         \* the values of keys, EmptyBytes among them
    QueryLists      \* the lists of keys that are proved

\* The roots that can be asked about now.
Askable == IF stack = <<>> THEN DOMAIN claims ELSE {}

\* A key is in the contents of the root exactly when its query says so, with
\* the value.
Tells(query, key, contents) ==
    IF key \in DOMAIN contents THEN query.key = key /\ query.value = contents[key]
    ELSE ~IsInclusion(key, query)

\* A proof of the keys against the root is accepted by verify, gives the
\* root back to calculateRoot and tells the contents; the inclusion check
\* passes if all keys are in the contents, the non-inclusion check if none is.
GoodProof(root, keys, proof, contents) ==
    /\ Verify(keys, proof, root)
    /\ RootOfProof(proof) = [ok |-> TRUE, root |-> root]
    /\ \A i \in DOMAIN keys : Tells(proof.queries[i], keys[i], contents)
    /\ VerifyInclusionProof(root, keys, proof) <=> Range(keys) \subseteq DOMAIN contents
    /\ VerifyNonInclusionProof(root, keys, proof) <=> Range(keys) \intersect DOMAIN contents = {}

\* The proof of any root and of any list of at least one key, twice the same
\* key or keys with a common neighbour among them, is good; and the tree that
\* updates are chained to can always be proved.
ProofVerifies ==
    \A root \in Askable, keys \in QueryLists :
        \A proof \in {Prove(nodes, root, keys)} :
            /\ root = tip => proof.ok
            /\ proof.ok => GoodProof(root, keys, proof, claims[root])

\* A proof with another value or one other bit of the bitmap in a query.
Altered(proof) ==
    UNION {
        {[proof EXCEPT !.queries[i].value = v] : v \in Values}
            \union {[proof EXCEPT !.queries[i].bitmap[b] = ~@] : b \in DOMAIN proof.queries[i].bitmap}
        : i \in DOMAIN proof.queries}

\* What verify accepts is true of the root: a query with a changed value or
\* a changed bitmap is accepted only if it still tells the contents.
VerifiedIsTrue ==
    \A root \in Askable, keys \in QueryLists :
        \A honest \in {Prove(nodes, root, keys)} : \A proof \in Altered(honest) :
            Verify(keys, proof, root) =>
                \A i \in DOMAIN keys : Tells(proof.queries[i], keys[i], claims[root])

\* Some of the keys of an inclusion proof can be removed, and the rest still
\* is an inclusion proof of the other keys.
RemovalVerifies ==
    \A root \in Askable, keys \in {l \in QueryLists : IsInjective(l)} :
        \A proof \in {Prove(nodes, root, keys)} :
            proof.ok /\ VerifyInclusionProof(root, keys, proof) =>
                \A n \in 1 .. Len(keys) - 1 :
                    \A new \in {RemoveKeysFromProof(proof, SubSeq(keys, 1, n))} :
                        new.ok /\ VerifyInclusionProof(root, SubSeq(keys, n + 1, Len(keys)), new)

============================================================================
