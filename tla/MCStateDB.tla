------------------------------ MODULE MCStateDB ------------------------------
(* Instances of StateDB for TLC.                                           *)
EXTENDS StateDB, TLC

\* Values are compared with nothing but each other.
ValueSymmetry == Permutations(Values)

============================================================================
