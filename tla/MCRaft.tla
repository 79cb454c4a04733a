------------------------------- MODULE MCRaft -------------------------------
(* Model checking of Raft: the symmetries, a view of the state, and *)
(* specifications that start in reachable states later than Init.              *)
EXTENDS Raft, TLC

CONSTANTS n1, n2, n3, v1, v2   \* model values: the peers, and commands

Symmetry == Permutations(Server) \cup Permutations(Value)

\* What a node that does not lead remembers of its leadership, and a finished
\* election of its votes, is written before it is read again (unless the ticker or
\* a sender is slow), so states that differ only there behave alike.
View ==
    <<term, vote, states, pc, logVars, applyVars, messages, envVars, pending,
      cast, elected, committed, orderVars,
      [i \in Server |-> IF states[i] = "Candidate" \/ SlowTicker THEN votes[i] ELSE {}],
      [i \in Server |-> IF states[i] = "Leader" \/ SlowSender
                        THEN <<nextIndex[i], matchIndex[i]>> ELSE <<>>]>>

\* n1 won term t with the vote of n3, and n2 learned of t from a heartbeat.  The logs
\* are l (without the dummy), the terms before t were won by `past' in the same way,
\* and nothing is committed or under way.
Led(t, l, past) ==
    LET wins == past \cup {[node |-> n1, term |-> t]}
        Won(i) == \E w \in wins : w.node = i
    IN  /\ term = [i \in Server |-> t]
        /\ vote = [i \in Server |-> IF i = n2 THEN None ELSE n1]
        /\ states = [i \in Server |-> IF i = n1 THEN "Leader" ELSE "Follower"]
        /\ votes = [i \in Server |-> IF Won(i) THEN {i, n3} ELSE {}]
        /\ pc = [i \in Server |-> "idle"]
        /\ log = [i \in Server |-> <<Dummy(0)>> \o l[i]]
        /\ lastSnapIndex = [i \in Server |-> 0]
        /\ lastSnapTerm = [i \in Server |-> 0]
        /\ snap = [i \in Server |-> <<>>]
        /\ commitIndex = [i \in Server |-> 0]
        /\ lastApply = [i \in Server |-> 0]
        /\ applied = [i \in Server |-> <<>>]
        /\ nextIndex = [i \in Server |-> [j \in Server |->
                           IF i = n1 THEN Len(l[i]) + 1 ELSE IF Won(i) THEN 1 ELSE 0]]
        /\ matchIndex = [i \in Server |-> [j \in Server |-> 0]]
        /\ pending = [i \in Server |-> {}]
        /\ messages = {}
        /\ down = {} /\ restarts = 0 /\ snaps = 0
        /\ cast = {[voter |-> i, term |-> w.term, candidate |-> w.node] :
                      <<i, w>> \in {<<x, y>> \in Server \X wins : x \in {y.node, n3}}}
        /\ elected = wins
        /\ committed = {}
        /\ overtaken = {} /\ late = {}

\* n1 led term 1 and n2 led term 2, each took commands nobody else heard of, and
\* n1 is back in term 3.
Entries(n, t, v) == [k \in 1 .. n |-> [term |-> t, command |-> v]]
Diverged(a, b) ==
    Led(3, (n1 :> Entries(a, 1, v1)) @@ (n3 :> <<>>) @@
           (n2 :> Entries(b, 2, IF v2 \in Value THEN v2 ELSE v1)),
        {[node |-> n1, term |-> 1], [node |-> n2, term |-> 2]})
InitDiverged == \E a, b \in 0 .. 2 : Diverged(a, b)
SpecBackAgain == InitDiverged /\ [][Next]_vars
SpecOneAhead == (Diverged(1, 2) \/ Diverged(2, 1)) /\ [][Next]_vars

\* The network lets a call through that is repeated for ever, and what it let
\* through is handled; the heartbeat timer keeps the leader calling.
Delivered(i, j) ==
    SendAppend(i, j) /\ \E m \in messages' :
        m.type \in {"AppendEntries", "InstallSnapshot"} /\ m.from = i /\ m.to = j
Handled(i, j) ==
    \E m \in messages :
        /\ m.from = i /\ m.to = j
        /\ \/ AppendEntries(m) \/ AppendReply(m)
           \/ InstallSnapshot(m) \/ InstallReply(m)
SpecDiverged ==
    /\ \E a, b \in 1 .. 2 : Diverged(a, b)
    /\ [][Next]_vars
    /\ \A j \in Server \ {n1} : /\ SF_vars(Delivered(n1, j))
                              /\ SF_vars(Handled(n1, j)) /\ SF_vars(Handled(j, n1))

\* broadcastAppendEntries and AppendEntries: however the logs differ, backing up by
\* ConflictIndex ends, and every peer gets the whole log of the leader.  (Behind it
\* a peer may keep a tail, which an empty heartbeat does not cut.)
LogsRepaired ==
    \A j \in Server : <>[](/\ Len(log[n1]) <= Len(log[j])
                          /\ log[n1] = SubSeq(log[j], 1, Len(log[n1])))

\* Every entry a leader took in its term is committed on all nodes.
TakenAreCommitted ==
    \A k \in 1 .. MaxLog :
        (k <= LastIndex(n1) /\ At(n1, k).term = term[n1]) ~>
            (\A j \in Server : commitIndex[j] >= k)

\* A node alone in its cluster: the ticker and ApplyLoop run for ever, and an
\* election that began ends.
SpecAlone ==
    /\ Spec
    /\ \A i \in Server : /\ WF_vars(StartElection(i)) /\ WF_vars(Tally(i))
                        /\ WF_vars(Broadcast(i)) /\ WF_vars(Apply(i))

\* startElection, broadcastAppendEntries and ApplyLoop of a node alone: it elects
\* itself and applies every command it takes, unless a restart makes it forget the
\* command or a new election leaves it in an old term.
EveryCommandApplied ==
    \A i \in Server, k \in 1 .. MaxLog :
        LET Taken == k <= LastIndex(i) /\ At(i, k).term = term[i]
        IN  Taken ~> Len(applied[i]) >= k \/ ~Taken
=============================================================================
