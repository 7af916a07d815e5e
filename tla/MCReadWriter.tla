---------------------------- MODULE MCReadWriter ----------------------------
(* Instances of ReadWriter for TLC.                                        *)
EXTENDS ReadWriter, TLC

\* Values are compared with nothing but each other.
ValueSymmetry == Permutations(Values)

\* The whole range with every kind of limit, and a part of it.
RangeChoices ==
    [gte : {1}, lte : {2}, limit : {Undefined, 1, 2}, reverse : BOOLEAN]
        \union [gte : {1}, lte : {2}, limit : {-1, 0}, reverse : {FALSE}]
        \union [gte : {1}, lte : {1}, limit : {1}, reverse : {TRUE}]
        \union [gte : {2}, lte : {2}, limit : {1}, reverse : {FALSE}]

\* The whole range, and a call whose lower bound was left out.
BoundsLeftOut ==
    {[gte |-> g, lte |-> 1, limit |-> Undefined, reverse |-> FALSE] : g \in {1, Undefined}}

NoOptions == {}

============================================================================
