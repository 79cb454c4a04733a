----------------------------- MODULE Membership -----------------------------
(***************************************************************************)
(* Changes of the members of HM-KV (src/internal/raft/raft_memberchange.go)*)
(* while Raft elects and replicates: every node has its own rf.peers,      *)
(* changes it when it applies the entry, and names the others, and itself  *)
(* in votes, by their positions in it.                                     *)
(*                                                                         *)
(* Election and replication are those of module Raft without snapshots,    *)
(* restarts and slow goroutines.  Positions start with 1; 0 stands for -1, *)
(* of rf.vote that is free and of rf.me on a node that was removed.        *)
(***************************************************************************)
EXTENDS Integers, Sequences, FiniteSets

CONSTANTS
    Node,           \* addresses
    FirstPeers,     \* rf.peers of every node as configured
    Changes,        \* what Start is asked for: [type, node]
    MaxTerm,        \* bound: no election beyond this term
    MaxLog,         \* bound: entries of a log
    MaxMessages     \* bound: messages under way that will still be handled

ASSUME MembershipAssumption ==
    /\ IsFiniteSet(Node) /\ FirstPeers \in Seq(Node)
    /\ \A change \in Changes : change.node \in Node
    /\ {MaxTerm, MaxLog, MaxMessages} \subseteq Nat

VARIABLES
    peers, me, peerGen,
    term, vote, states, votes,
    log,            \* behind the dummy entry: index k is log[i][k]
    commitIndex, lastApply, nextIndex, matchIndex,
    messages,
    down,           \* nodes whose process panicked
    \* History: rf.peers, peerGen and rf.me when an election began; the elections won;
    \* the votes given
    campaign, elected, cast,
    \* History of calls of AppendEntries: those under way when a longer one of the same
    \* leader, term and receiver was accepted; and the first of them that brought entries
    \* and was accepted all the same
    overtaken, late

memberVars  == <<peers, me, peerGen>>
voteVars    == <<term, vote, states, votes>>
leaderVars  == <<nextIndex, matchIndex>>
historyVars == <<campaign, elected, cast>>
orderVars   == <<overtaken, late>>
vars == <<memberVars, voteVars, log, commitIndex, lastApply, leaderVars, messages, down,
          historyVars, orderVars>>
-----------------------------------------------------------------------------
LastIndex(i) == Len(log[i])
TermAt(i, k) == IF k = 0 THEN 0 ELSE log[i][k].term
Up(i) == i \notin down

Lesser(a, b) == IF a < b THEN a ELSE b
Greater(a, b) == IF a > b THEN a ELSE b

\* `n > len(rf.peers)/2' with the peers node i has now.
Enough(i, n) == n > Len(peers[i]) \div 2

\* Where a node is in a list of peers; 0 where it is not.
PositionIn(list, node) ==
    IF \E p \in DOMAIN list : list[p] = node
    THEN CHOOSE p \in DOMAIN list : list[p] = node ELSE 0
Without(list, p) == SubSeq(list, 1, p - 1) \o SubSeq(list, p + 1, Len(list))

\* New requests; others are lost where the network is full.
Send(new) ==
    \E kept \in SUBSET (messages \cup new) :
        /\ Cardinality(kept) = Lesser(MaxMessages, Cardinality(messages \cup new))
        /\ messages' = kept
Reply(m, reply) == messages' = (messages \ {m}) \cup {reply}
Discard(m) == messages' = messages \ {m}

Init ==
    /\ peers = [i \in Node |-> FirstPeers]
    /\ me = [i \in Node |-> PositionIn(FirstPeers, i)]
    /\ peerGen = [i \in Node |-> 0]
    /\ term = [i \in Node |-> 0] /\ vote = [i \in Node |-> 0]
    /\ states = [i \in Node |-> "Follower"] /\ votes = [i \in Node |-> 0]
    /\ log = [i \in Node |-> <<>>]
    /\ commitIndex = [i \in Node |-> 0] /\ lastApply = [i \in Node |-> 0]
    /\ nextIndex = [i \in Node |-> [p \in DOMAIN FirstPeers |-> 0]]
    /\ matchIndex = [i \in Node |-> [p \in DOMAIN FirstPeers |-> 0]]
    /\ messages = {} /\ down = {}
    /\ campaign = [i \in Node |-> [peers |-> <<>>, gen |-> 0, me |-> 0]]
    /\ elected = {} /\ cast = {}
    /\ overtaken = {} /\ late = {}
-----------------------------------------------------------------------------
(* Election: raft_vote.go *)

\* The node takes the leadership of t, in an election that began with c.
BecomeLeader(i, t, c) ==
    /\ states' = [states EXCEPT ![i] = "Leader"]
    /\ nextIndex' = [nextIndex EXCEPT ![i] = [p \in DOMAIN peers[i] |-> LastIndex(i) + 1]]
    /\ matchIndex' = [matchIndex EXCEPT ![i] = [p \in DOMAIN peers[i] |-> 0]]
    /\ elected' = elected \cup
          {[node |-> i, term |-> t, peers |-> c.peers,
            sound |-> c.gen = peerGen[i] /\ c.me # 0]}

\* A node that was removed asks for votes like any other, under the number -1; once it was
\* added again it asks itself, too.
StartElection(i) ==
    LET c == [peers |-> peers[i], gen |-> peerGen[i], me |-> me[i]]
    IN  /\ Up(i) /\ states[i] # "Leader" /\ term[i] < MaxTerm
        /\ term' = [term EXCEPT ![i] = @ + 1]
        /\ vote' = [vote EXCEPT ![i] = me[i]]
        /\ votes' = [votes EXCEPT ![i] = 1]
        /\ campaign' = [campaign EXCEPT ![i] = c]
        /\ cast' = cast \cup {[voter |-> i, term |-> term[i] + 1, candidate |-> i]}
        /\ Send({[type |-> "RequestVote", from |-> i, to |-> peers[i][p], candidate |-> me[i],
                  term |-> term[i] + 1, lastIndex |-> LastIndex(i),
                  lastTerm |-> TermAt(i, LastIndex(i))] : p \in DOMAIN peers[i] \ {me[i]}})
        /\ IF Enough(i, 1)
           THEN BecomeLeader(i, term[i] + 1, c)
           ELSE /\ states' = [states EXCEPT ![i] = "Candidate"]
                /\ UNCHANGED <<leaderVars, elected>>
        /\ UNCHANGED <<memberVars, log, commitIndex, lastApply, down, orderVars>>

UpToDate(i, m) ==
    \/ m.lastTerm > TermAt(i, LastIndex(i))
    \/ m.lastTerm = TermAt(i, LastIndex(i)) /\ m.lastIndex >= LastIndex(i)

\* A vote is given to a position, in the list of whoever asks.
FreeToVoteAgain(i, m) == TRUE   \* mutant
FreeToVote(i, m) == m.term > term[i] \/ vote[i] \in {0, m.candidate}

RequestVote(m) ==
    LET i == m.to
        higher == m.term > term[i]
        granted == m.term >= term[i] /\ FreeToVote(i, m) /\ UpToDate(i, m)
    IN  /\ m.type = "RequestVote" /\ Up(i)
        /\ term' = [term EXCEPT ![i] = Greater(@, m.term)]
        /\ states' = IF higher THEN [states EXCEPT ![i] = "Follower"] ELSE states
        /\ vote' = [vote EXCEPT ![i] = IF granted THEN m.candidate
                                       ELSE IF higher THEN 0 ELSE @]
        /\ cast' = IF granted
                   THEN cast \cup {[voter |-> i, term |-> m.term, candidate |-> m.from]}
                   ELSE cast
        /\ Reply(m, [type |-> "VoteReply", from |-> i, to |-> m.from, granted |-> granted,
                     term |-> Greater(term[i], m.term), election |-> m.term])
        /\ UNCHANGED <<memberVars, votes, log, commitIndex, lastApply, leaderVars, down,
                       campaign, elected, orderVars>>

\* Votes are counted against the peers of the moment, whatever they were at the start.
VoteReply(m) ==
    LET i == m.to
    IN  /\ m.type = "VoteReply" /\ Up(i)
        /\ Discard(m)
        /\ \/ /\ states[i] # "Candidate" \/ term[i] # m.election
              /\ UNCHANGED <<voteVars, leaderVars, elected>>
           \/ /\ states[i] = "Candidate" /\ term[i] = m.election /\ m.term > term[i]
              /\ term' = [term EXCEPT ![i] = m.term]
              /\ states' = [states EXCEPT ![i] = "Follower"]
              /\ vote' = [vote EXCEPT ![i] = 0]
              /\ UNCHANGED <<votes, leaderVars, elected>>
           \/ /\ states[i] = "Candidate" /\ term[i] = m.election /\ m.term = term[i]
              /\ votes' = [votes EXCEPT ![i] = IF m.granted THEN @ + 1 ELSE @]
              /\ IF m.granted /\ Enough(i, votes[i] + 1)
                 THEN BecomeLeader(i, term[i], campaign[i])
                 ELSE UNCHANGED <<states, leaderVars, elected>>
              /\ UNCHANGED <<term, vote>>
        /\ UNCHANGED <<memberVars, log, commitIndex, lastApply, down, campaign, cast,
                       orderVars>>
-----------------------------------------------------------------------------
(* Replication: raft.go, raft_heartbeat.go *)

\* AddMember or DeleteMember on a leader.
Start(i, change) ==
    /\ Up(i) /\ states[i] = "Leader" /\ LastIndex(i) < MaxLog
    /\ log' = [log EXCEPT ![i] = Append(@, [term |-> term[i], change |-> change])]
    /\ UNCHANGED <<memberVars, voteVars, commitIndex, lastApply, leaderVars, messages, down,
                   historyVars, orderVars>>

\* commitIndex moves to the last of these indices that has an entry of the leader's term.
AdvanceCommit(i, replicated) ==
    LET Ns == {N \in replicated : N > commitIndex[i] /\ TermAt(i, N) = term[i]}
    IN  commitIndex' = [commitIndex EXCEPT ![i] =
                           IF Ns = {} THEN @ ELSE CHOOSE N \in Ns : \A M \in Ns : M <= N]

\* broadcastAppendEntries of a node whose only peer is itself, or somebody else: then it
\* indexes rf.matchIndex with -1.
BroadcastAlone(i) ==
    /\ Up(i) /\ states[i] = "Leader" /\ Len(peers[i]) = 1
    /\ \/ /\ me[i] # 0
          /\ matchIndex' = [matchIndex EXCEPT ![i][me[i]] = LastIndex(i)]
          /\ AdvanceCommit(i, 1 .. LastIndex(i))
          /\ UNCHANGED down
       \/ /\ me[i] = 0
          /\ down' = down \cup {i}
          /\ UNCHANGED <<matchIndex, commitIndex>>
    /\ UNCHANGED <<memberVars, voteVars, log, lastApply, nextIndex, messages, historyVars,
                   orderVars>>

\* The goroutine of broadcastAppendEntries for the peer at position p.  Without snapshots
\* nextIndex = 0 makes it send the empty one.
SendAppend(i, p) ==
    LET prev == nextIndex[i][p] - 1
        call == [from |-> i, to |-> peers[i][p], peer |-> p, gen |-> peerGen[i],
                 term |-> term[i]]
    IN  /\ Up(i) /\ states[i] = "Leader" /\ p # me[i]
        /\ Send({IF prev < 0
                 THEN [type |-> "InstallSnapshot", call |-> call]
                 ELSE [type |-> "AppendEntries", call |-> call,
                       prevIndex |-> prev, prevTerm |-> TermAt(i, prev),
                       entries |-> SubSeq(log[i], prev + 1, LastIndex(i)),
                       commit |-> commitIndex[i]]})
        /\ UNCHANGED <<memberVars, voteVars, log, commitIndex, lastApply, leaderVars, down,
                       historyVars, orderVars>>

\* The last index an AppendEntries speaks of.
End(m) == m.prevIndex + Len(m.entries)

\* History: m is accepted.
Overtakes(m) ==
    /\ overtaken' =
          {n \in messages : \/ n \in overtaken
                            \/ /\ n.type = "AppendEntries" /\ n.call.from = m.call.from
                               /\ n.call.to = m.call.to /\ n.call.term = m.call.term
                               /\ End(n) < End(m)}
    /\ late' = IF late = {} /\ m \in overtaken /\ m.entries # <<>> THEN {m} ELSE late

AnswerAppend(m, t, success, conflict) ==
    Reply(m, [type |-> "AppendReply", call |-> m.call, term |-> t, success |-> success,
              conflict |-> conflict, prevIndex |-> m.prevIndex, len |-> Len(m.entries)])

\* The log after the entries of m were matched against it, by their terms, and cut behind
\* them.
Merged(i, m) ==
    LET have(k) == /\ m.prevIndex + k <= LastIndex(i)
                   /\ log[i][m.prevIndex + k].term = m.entries[k].term
        same == {n \in 0 .. Len(m.entries) : \A k \in 1 .. n : have(k)}
        kept == CHOOSE n \in same : \A k \in same : k <= n
    IN  IF m.entries = <<>> THEN log[i]
        ELSE SubSeq(log[i], 1, m.prevIndex + kept)
             \o SubSeq(m.entries, kept + 1, Len(m.entries))

\* The handler accepts the term of the caller.
Accept(i, m) ==
    /\ term' = [term EXCEPT ![i] = m.call.term]
    /\ states' = [states EXCEPT ![i] = "Follower"]

AppendEntries(m) ==
    LET i == m.call.to
        prev == m.prevIndex
        agrees == prev <= LastIndex(i) /\ TermAt(i, prev) = m.prevTerm
        sameTerm == {n \in 0 .. prev : \A k \in n .. prev : TermAt(i, k) = TermAt(i, prev)}
    IN  /\ m.type = "AppendEntries" /\ Up(i)
        /\ \/ /\ m.call.term < term[i]
              /\ AnswerAppend(m, term[i], FALSE, LastIndex(i) + 1)
              /\ UNCHANGED <<term, vote, states, log, commitIndex, orderVars>>
           \/ /\ m.call.term >= term[i]
              /\ Accept(i, m)
              /\ vote' = IF m.call.term > term[i] THEN [vote EXCEPT ![i] = 0] ELSE vote
              /\ \/ /\ agrees
                    /\ log' = [log EXCEPT ![i] = Merged(i, m)]
                    /\ commitIndex' = [commitIndex EXCEPT ![i] =
                          IF m.commit > @ THEN Lesser(m.commit, LastIndex(i)) ELSE @]
                    /\ AnswerAppend(m, m.call.term, TRUE, 0)
                    /\ Overtakes(m)
                 \/ /\ ~agrees
                    /\ AnswerAppend(m, m.call.term, FALSE,
                          IF prev > LastIndex(i) THEN LastIndex(i)
                          ELSE CHOOSE n \in sameTerm : n - 1 \notin sameTerm)
                    /\ UNCHANGED <<log, commitIndex, orderVars>>
        /\ UNCHANGED <<memberVars, votes, lastApply, leaderVars, down, historyVars>>

\* The empty snapshot: only its term counts, and an answer of 0 accepts it.
InstallSnapshot(m) ==
    LET i == m.call.to
        answer(t) == Reply(m, [type |-> "InstallReply", call |-> m.call, term |-> t])
    IN  /\ m.type = "InstallSnapshot" /\ Up(i)
        /\ \/ m.call.term < term[i] /\ answer(term[i]) /\ UNCHANGED <<term, states>>
           \/ m.call.term >= term[i] /\ answer(0) /\ Accept(i, m)
        /\ UNCHANGED <<memberVars, vote, votes, log, commitIndex, lastApply, leaderVars, down,
                       historyVars, orderVars>>

\* The position still belongs to the peer that was called.
SamePeerInRange(i, call) == call.peer \in DOMAIN peers[i]   \* mutant
SamePeer(i, call) ==
    peerGen[i] = call.gen /\ call.peer \in DOMAIN peers[i] /\ peers[i][call.peer] = call.to

\* A node that was removed still counts itself.
Replicated(i, matched) ==
    {N \in 1 .. LastIndex(i) :
        Enough(i, 1 + Cardinality({p \in DOMAIN peers[i] \ {me[i]} : matched[p] >= N}))}

\* The goroutines of broadcastAppendEntries and sendInstallSnapshotTo go on.
StepDown(i, m) ==
    /\ m.term > term[i]
    /\ term' = [term EXCEPT ![i] = m.term]
    /\ states' = [states EXCEPT ![i] = "Follower"]
    /\ vote' = IF m.type = "AppendReply" THEN [vote EXCEPT ![i] = 0] ELSE vote
    /\ UNCHANGED <<leaderVars, commitIndex>>

Record(i, m) ==
    LET p == m.call.peer
        last == m.prevIndex + m.len
        matched == IF m.len > 0 THEN [matchIndex[i] EXCEPT ![p] = last] ELSE matchIndex[i]
    IN  \/ /\ m.success
           /\ nextIndex' = [nextIndex EXCEPT ![i][p] = last + 1]
           /\ matchIndex' = [matchIndex EXCEPT ![i] = matched]
           /\ AdvanceCommit(i, Replicated(i, matched))
        \/ /\ ~m.success
           /\ nextIndex' = [nextIndex EXCEPT ![i][p] = Lesser(m.conflict, LastIndex(i) + 1)]
           /\ UNCHANGED <<matchIndex, commitIndex>>

AppendReply(m) ==
    LET i == m.call.from
        leads == states[i] = "Leader" /\ m.call.term = term[i]
    IN  /\ m.type = "AppendReply" /\ Up(i)
        /\ Discard(m)
        /\ \/ /\ SamePeer(i, m.call)
              /\ \/ StepDown(i, m)
                 \/ /\ m.term <= term[i] /\ leads
                    /\ Record(i, m)
                    /\ UNCHANGED <<term, states, vote>>
           \/ /\ ~SamePeer(i, m.call) \/ (m.term <= term[i] /\ ~leads)
              /\ UNCHANGED <<term, states, vote, leaderVars, commitIndex>>
        /\ UNCHANGED <<memberVars, votes, log, lastApply, down, historyVars, orderVars>>

InstallReply(m) ==
    LET i == m.call.from
    IN  /\ m.type = "InstallReply" /\ Up(i)
        /\ Discard(m)
        /\ \/ /\ SamePeer(i, m.call)
              /\ \/ StepDown(i, m)
                 \/ /\ m.term <= term[i]
                    /\ nextIndex' = [nextIndex EXCEPT ![i][m.call.peer] = 1]
                    /\ matchIndex' = [matchIndex EXCEPT ![i][m.call.peer] = 0]
                    /\ UNCHANGED <<term, states, vote, commitIndex>>
           \/ /\ ~SamePeer(i, m.call)
              /\ UNCHANGED <<term, states, vote, leaderVars, commitIndex>>
        /\ UNCHANGED <<memberVars, votes, log, lastApply, down, historyVars, orderVars>>
-----------------------------------------------------------------------------
(* HandleConfigChange, when the entry is applied: raft_memberchange.go *)

handleAdd(i, node) ==
    \/ /\ PositionIn(peers[i], node) # 0
       /\ UNCHANGED <<memberVars, leaderVars, down>>
    \/ /\ PositionIn(peers[i], node) = 0
       /\ peers' = [peers EXCEPT ![i] = Append(@, node)]
       /\ nextIndex' = [nextIndex EXCEPT ![i] = Append(@, LastIndex(i) + 1)]
       /\ matchIndex' = [matchIndex EXCEPT ![i] = Append(@, 0)]
       /\ peerGen' = [peerGen EXCEPT ![i] = @ + 1]
       /\ UNCHANGED <<me, down>>

\* A node that was removed already indexes rf.peers with -1.
handleDelete(i, node) ==
    LET p == PositionIn(peers[i], node)
        rest == Without(peers[i], p)
    IN  \/ /\ me[i] = 0
           /\ down' = down \cup {i}
           /\ UNCHANGED <<memberVars, leaderVars>>
        \/ /\ me[i] # 0 /\ p = 0
           /\ UNCHANGED <<memberVars, leaderVars, down>>
        \/ /\ me[i] # 0 /\ p # 0
           /\ peers' = [peers EXCEPT ![i] = rest]
           /\ nextIndex' = [nextIndex EXCEPT ![i] = Without(@, p)]
           /\ matchIndex' = [matchIndex EXCEPT ![i] = Without(@, p)]
           /\ me' = [me EXCEPT ![i] = PositionIn(rest, peers[i][@])]
           /\ peerGen' = [peerGen EXCEPT ![i] = @ + 1]
           /\ UNCHANGED down

HandleConfigChange(i, change) ==
    \/ change.type = "add" /\ handleAdd(i, change.node)
    \/ change.type = "delete" /\ handleDelete(i, change.node)

\* ApplyLoop, which skips what the log has no more, and applyBatch in one.
Apply(i) ==
    LET k == lastApply[i] + 1
    IN  /\ Up(i) /\ k <= commitIndex[i]
        /\ lastApply' = [lastApply EXCEPT ![i] = k]
        /\ IF k > LastIndex(i)
           THEN UNCHANGED <<memberVars, leaderVars, down>>
           ELSE HandleConfigChange(i, log[i][k].change)
        /\ UNCHANGED <<voteVars, log, commitIndex, messages, historyVars, orderVars>>

Next ==
    \/ \E i \in Node : \/ StartElection(i) \/ BroadcastAlone(i) \/ Apply(i)
                      \/ \E change \in Changes : Start(i, change)
                      \/ \E p \in DOMAIN peers[i] : SendAppend(i, p)
    \/ \E m \in messages : \/ RequestVote(m) \/ VoteReply(m) \/ AppendEntries(m)
                          \/ AppendReply(m) \/ InstallSnapshot(m) \/ InstallReply(m)

Spec == Init /\ [][Next]_vars
-----------------------------------------------------------------------------
(* Properties *)

\* RequestVote and VoteReply: a term has one leader among the elections that began and
\* ended under the same list of peers, of candidates that know their position in it.
\* (Positions in different lists are mistaken for one another; votes asked of a larger
\* cluster are counted against a smaller one; and handleAdd leaves rf.me at -1 on a node
\* that comes back, which then is elected by two votes of its own.)
OneLeaderPerPeers ==
    \A a, b \in {e \in elected : e.sound} :
        a.term = b.term /\ a.peers = b.peers => a.node = b.node

\* raft_vote.go: a node votes in a term if it has not voted in it yet.
VotesOnce ==
    \A v, w \in cast : v.voter = w.voter /\ v.term = w.term => v.candidate = w.candidate

\* AppendReply, handleAdd and handleDelete: what a leader counts at a position of
\* rf.matchIndex is held by the peer that is there now, whoever was there when it was
\* called (as long as every term so far had one leader, and no call that brings entries
\* came after a longer one of its leader and cut the log behind it).
MatchedIsHeld ==
    late = {} => \A i \in Node : \A p \in DOMAIN peers[i] \ {me[i]} :
        LET j == peers[i][p]
        IN  /\ states[i] = "Leader" /\ term[j] = term[i]
            /\ \A a, b \in elected : a.term = b.term /\ a.term <= term[i] => a.node = b.node
            => \A k \in 1 .. matchIndex[i][p] : k <= LastIndex(j) /\ log[j][k] = log[i][k]
=============================================================================
