----------------------------- MODULE MCDatabase -----------------------------
EXTENDS Database

\* A key of STATE and one of SMT; a plain database has both for its user.
MCKeys == {<<0, 1>>, <<1, 1>>}

Opt(gte, lte, limit, reverse) == [gte |-> gte, lte |-> lte, limit |-> limit, reverse |-> reverse]

\* The last row between two bounds: <<1, 1>> or <<0, 1>> in a plain database,
\* the one user key in a state database.
MCIterateOptions == {Opt(<<0, 1>>, <<1, 1>>, 1, TRUE)}

\* Clears with both bounds, with one and with none.
MCOneBound == {Opt(<<1, 1>>, Undefined, -1, FALSE)}

MCClearOptions ==
    {Opt(<<0, 1>>, <<0, 1>>, -1, FALSE), Opt(Undefined, Undefined, -1, FALSE)} \union MCOneBound

MCUnbounded == {Opt(Undefined, Undefined, -1, FALSE)}

\* A commit writes to both buckets at once.
MCCommitBatches == {[k \in Keys |-> v] : v \in Values}

============================================================================
