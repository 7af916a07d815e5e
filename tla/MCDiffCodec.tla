---------------------------- MODULE MCDiffCodec -----------------------------
(* An instance of DiffCodec for TLC.                                       *)
EXTENDS MCReadWriter, DiffCodec

\* Empty, the largest length with one digit, the smallest with two.
MCPayloads == {<<>>, <<7, 0, 7>>, <<4, 0, 5, 1>>}

============================================================================
