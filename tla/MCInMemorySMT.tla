---------------------------- MODULE MCInMemorySMT ----------------------------
(* Instances of InMemorySMT and SmtQueries for TLC.                        *)
EXTENDS SmtQueries

\* Keys of six bits in three layers of subtrees: two that part in the last
\* bit, one that parts from them in the middle layer, two elsewhere.
K1 == <<0, 0, 0, 0, 0, 0>>
K2 == <<0, 0, 0, 0, 0, 1>>
K3 == <<0, 0, 0, 1, 0, 0>>
K4 == <<1, 1, 0, 0, 0, 0>>
K5 == <<1, 1, 0, 0, 1, 0>>

TreeKeys == {K1, K2, K3, K4, K5}

TreeValues == {"a", "b", EmptyBytes}

\* Everything at once, one key set or removed, several keys changed at once,
\* nothing, and a key that is too short.
TreeBatches ==
    {[k \in TreeKeys |-> "a"], K1 :> "b", <<>>, <<1, 1>> :> "a",
     (K1 :> EmptyBytes) @@ (K2 :> EmptyBytes), (K2 :> EmptyBytes) @@ (K3 :> "b"),
     (K4 :> EmptyBytes) @@ (K5 :> "b")}
        \union {k :> v : k \in TreeKeys, v \in {"a", EmptyBytes}}

\* One key, asked for once or twice, two keys, the larger one first, and
\* three in other orders.
Lists == {<<K3>>, <<K1, K3, K4>>, <<K2, K1, K5>>, <<K5, K3, K2>>}
             \union {<<p[1], p[2]>> : p \in {q \in TreeKeys \X TreeKeys : ~KeyLess(q[1], q[2])}}

============================================================================
