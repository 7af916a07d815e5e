------------------------- MODULE MCInMemoryDatabase -------------------------
EXTENDS InMemoryDatabase, TLC

\* Keys of three lengths: the empty one, all zero bytes, all MaxByte.
MCKeys == {<<>>, <<0>>, <<0, 0>>, <<1>>, <<1, 1>>, <<2, 2>>}

MCBounds == {<<0>>, <<1>>, <<0, 1>>, <<2, 2>>, Undefined}

MCOptions == [gte : MCBounds, lte : MCBounds, limit : {-2, -1, 0, 2}, reverse : BOOLEAN]

MCOtherBuckets == {<<1, 0>>, <<2, 1, 1>>, <<2, 2>>}

HandleSymmetry == Permutations(Handles)

============================================================================
