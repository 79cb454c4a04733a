------------------------------- MODULE MCReads -------------------------------
(* Model checking of Reads, from a cluster at work on. *)
EXTENDS Reads, TLC

CONSTANTS n1, n2, n3, v1, r1   \* model values: the peers, a command, a call of Get

\* n1 won term 1 with the vote of n3 and took one command; every node has it, knows that
\* it is committed, and handed it to its store.
SettledInit ==
    LET e == [term |-> 1, command |-> v1]
    IN  /\ term = [i \in Server |-> 1]
        /\ vote = [i \in Server |-> IF i = n2 THEN None ELSE n1]
        /\ states = [i \in Server |-> IF i = n1 THEN "Leader" ELSE "Follower"]
        /\ votes = [i \in Server |-> IF i = n1 THEN {n1, n3} ELSE {}]
        /\ pc = [i \in Server |-> "idle"]
        /\ log = [i \in Server |-> <<Dummy(0), e>>]
        /\ lastSnapIndex = [i \in Server |-> 0]
        /\ lastSnapTerm = [i \in Server |-> 0]
        /\ snap = [i \in Server |-> <<>>]
        /\ commitIndex = [i \in Server |-> 1]
        /\ lastApply = [i \in Server |-> 1]
        /\ applied = [i \in Server |-> <<[index |-> 1, command |-> v1]>>]
        /\ nextIndex = [i \in Server |-> [j \in Server |-> IF i = n1 THEN 2 ELSE 0]]
        /\ matchIndex = [i \in Server |-> [j \in Server |->
                             IF i = n1 /\ j # n1 THEN 1 ELSE 0]]
        /\ pending = [i \in Server |-> {}]
        /\ messages = {}
        /\ down = {} /\ restarts = 0 /\ snaps = 0
        /\ cast = {[voter |-> i, term |-> 1, candidate |-> n1] : i \in {n1, n3}}
        /\ elected = {[node |-> n1, term |-> 1]}
        /\ committed = {[index |-> 1, entry |-> e, term |-> 1]}
        /\ overtaken = {} /\ late = {}
        /\ reads = [r \in Reader |-> NoRead]
        /\ lastApplied = [i \in Server |-> 1]
        /\ handled = [i \in Server |-> 1]

SpecSettled == SettledInit /\ [][ReadsNext]_allVars

\* The histories of Raft are not looked at but for calls out of order, nor is what a node that
\* does not lead remembers of its leadership.
ReadsView ==
    <<term, vote, states, logVars, applyVars, messages, orderVars, readVars,
      [i \in Server |-> IF states[i] = "Candidate" THEN votes[i] ELSE {}],
      [i \in Server |-> IF states[i] = "Leader" THEN <<nextIndex[i], matchIndex[i]>> ELSE <<>>]>>
=============================================================================
