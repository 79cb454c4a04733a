------------------------------ MODULE MCWatch ------------------------------
(* Model checking of Watch: one node and one key, watched itself or by a prefix. *)
EXTENDS Watch, TLC

CONSTANTS a, b, c, k1, p   \* model values: nodes, a client, keys, a prefix

MCCovers == k1 :> {k1} @@ p :> {k1}

MCEntries ==
    {[type |-> "Put", key |-> k1], [type |-> "Delete", key |-> k1],
     [type |-> "Compact", revision |-> 1]}

\* From the first revision on: the smallest start that has a history.
MCWatches == [target : {k1, p}, start : {1}]
=============================================================================
