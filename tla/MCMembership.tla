---------------------------- MODULE MCMembership ----------------------------
(* Model checking of Membership, with a leader elected. *)
EXTENDS Membership, TLC

CONSTANTS n1, n2, n3   \* model values: addresses

Three == <<n1, n2, n3>>

Remove(n) == [type |-> "delete", node |-> n]
Add(n)    == [type |-> "add", node |-> n]

\* Next the leader leaves, or n2 comes back.
MCChanges == {Remove(n1), Add(n2)}

\* n1 has won term 1 with the vote of n3 and was asked to remove n2; nobody has heard of
\* it yet.
LedInit ==
    /\ peers = [i \in Node |-> FirstPeers]
    /\ me = [i \in Node |-> PositionIn(FirstPeers, i)]
    /\ peerGen = [i \in Node |-> 0]
    /\ term = [i \in Node |-> IF i = n2 THEN 0 ELSE 1]
    /\ vote = [i \in Node |-> IF i = n2 THEN 0 ELSE 1]
    /\ states = [i \in Node |-> IF i = n1 THEN "Leader" ELSE "Follower"]
    /\ votes = [i \in Node |-> IF i = n1 THEN 2 ELSE 0]
    /\ log = [i \in Node |-> IF i = n1 THEN <<[term |-> 1, change |-> Remove(n2)]>>
                             ELSE <<>>]
    /\ commitIndex = [i \in Node |-> 0] /\ lastApply = [i \in Node |-> 0]
    /\ nextIndex = [i \in Node |-> [p \in 1 .. 3 |-> IF i = n1 THEN 1 ELSE 0]]
    /\ matchIndex = [i \in Node |-> [p \in 1 .. 3 |-> 0]]
    /\ messages = {} /\ down = {}
    /\ campaign = [i \in Node |-> IF i = n1 THEN [peers |-> FirstPeers, gen |-> 0, me |-> 1]
                                  ELSE [peers |-> <<>>, gen |-> 0, me |-> 0]]
    /\ elected = {[node |-> n1, term |-> 1, peers |-> FirstPeers, sound |-> TRUE]}
    /\ cast = {[voter |-> i, term |-> 1, candidate |-> n1] : i \in {n1, n3}}
    /\ overtaken = {} /\ late = {}

SpecLed == LedInit /\ [][Next]_vars

\* The history of votes is not looked at by what is checked under the view.  What a node
\* that does not lead remembers of its leadership, and one that is no candidate of its
\* election, is written before it is read again.
View ==
    <<peers, me, peerGen, term, vote, states, log, commitIndex, lastApply, messages, down,
      elected, orderVars,
      [i \in Node |-> IF states[i] = "Leader" THEN <<nextIndex[i], matchIndex[i]>> ELSE <<>>],
      [i \in Node |-> IF states[i] = "Candidate" THEN <<votes[i], campaign[i]>> ELSE <<>>]>>
=============================================================================
