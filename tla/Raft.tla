-------------------------------- MODULE Raft --------------------------------
(***************************************************************************)
(* The Raft layer of HM-KV (src/internal/raft): election, log replication, *)
(* snapshots, the apply loop and restart, for a fixed set of peers.        *)
(*                                                                         *)
(* An RPC is a request record in `messages' that the handler replaces by   *)
(* its reply record in one step (the handlers hold rf.mu from the first    *)
(* line to the last); a reply carries the arguments its caller still reads *)
(* when the call returns.  A message that is never handled is lost.        *)
(*                                                                         *)
(* log[i] starts with the dummy entry of rf.log[0], so that position p of  *)
(* log[i] is rf.log[p-1] and holds the index lastSnapIndex[i] + p - 1.     *)
(*                                                                         *)
(* The timers, nowLeader and lastHeartbeat only steer when things happen   *)
(* and whom a client asks next; every timeout may happen at any time here. *)
(***************************************************************************)
EXTENDS Integers, Sequences, FiniteSets

CONSTANTS
    Server,       \* rf.peers
    Value,        \* commands clients pass to Start
    None,         \* rf.vote = -1, and the Command of a dummy entry
    MaxTerm,      \* bound: no election beyond this term
    MaxLog,       \* bound: no command beyond this index
    MaxMessages,  \* bound: messages under way that will still be handled
    MaxApply,     \* bound: no entry beyond this index is applied
    MaxRestarts,  \* bound: process restarts
    MaxSnaps,     \* bound: snapshots taken by snapshotWorker
    SlowTicker,   \* may vote replies be handled before the ticker goroutine
                  \* reaches the final tally of startElection?
    SlowSender    \* may a node change state between broadcastAppendEntries
                  \* and its per-peer goroutines?

ASSUME RaftAssumption ==
    /\ IsFiniteSet(Server) /\ Server # {}
    /\ None \notin Server
    /\ {MaxTerm, MaxLog, MaxMessages, MaxApply, MaxRestarts, MaxSnaps} \subseteq Nat
    /\ {SlowTicker, SlowSender} \subseteq BOOLEAN

VARIABLES
    term, vote, states,      \* rf.term, rf.vote, rf.states
    votes,                   \* who granted the current election (`votes')
    pc,                      \* "tally": startElection has not returned yet
    log, lastSnapIndex, lastSnapTerm, snap,
    commitIndex, lastApply,
    applied,                 \* what went into applyCh since the process started
    nextIndex, matchIndex,
    pending,                 \* peers whose send goroutine has not run yet
    messages,
    down,                    \* nodes whose process panicked
    restarts, snaps,         \* counters for MaxRestarts and MaxSnaps
    \* History: votes given, elections won, entries ever covered by a commitIndex
    cast, elected, committed,
    \* History of calls of AppendEntries: those under way when a longer one of the same
    \* leader, term and receiver was accepted; and those of them that brought entries
    \* and were accepted all the same
    overtaken, late

electionVars == <<term, vote, states, votes, pc>>
logVars      == <<log, lastSnapIndex, lastSnapTerm, snap>>
applyVars    == <<commitIndex, lastApply, applied>>
leaderVars   == <<nextIndex, matchIndex, pending>>
envVars      == <<down, restarts, snaps>>
orderVars    == <<overtaken, late>>
vars == <<electionVars, logVars, applyVars, leaderVars, messages, envVars,
          cast, elected, committed, orderVars>>
-----------------------------------------------------------------------------
(* Helpers *)

Entry == [term : Nat, command : Value \cup {None}]
Dummy(t) == [term |-> t, command |-> None]

LastIndex(i) == lastSnapIndex[i] + Len(log[i]) - 1

\* The entry of node i at index k, for k in lastSnapIndex[i] .. LastIndex(i).
At(i, k) == log[i][k - lastSnapIndex[i] + 1]
LastTerm(i) == At(i, LastIndex(i)).term

\* `n > len(rf.peers)/2' for the size n of a set of peers.
IsMajorityOffByOne(S) == Cardinality(S) >= Cardinality(Server) \div 2   \* mutant
IsMajority(S) == Cardinality(S) > Cardinality(Server) \div 2

Minimum(a, b) == IF a < b THEN a ELSE b
Maximum(a, b) == IF a > b THEN a ELSE b

Up(i) == i \notin down

\* Sends new requests.  Messages nobody will handle make room for others, so that
\* the network never holds more than MaxMessages.
Send(new) ==
    \E kept \in SUBSET (messages \cup new) :
        /\ Cardinality(kept) = Minimum(MaxMessages, Cardinality(messages \cup new))
        /\ messages' = kept

\* The reply to a caller that still waits for it.
Reply(request, reply) ==
    messages' = (messages \ {request}) \cup IF request.awaited THEN {reply} ELSE {}
Discard(m) == messages' = messages \ {m}

\* History: node i, with log l and in term t, moved its commitIndex to c.
Commits(i, l, c, t) ==
    committed \cup
        {[index |-> k, entry |-> l[k - lastSnapIndex[i] + 1], term |-> t] :
            k \in {n \in Maximum(commitIndex[i], lastSnapIndex[i]) + 1 .. c :
                      \A r \in committed : r.index = n =>
                          r.entry # l[n - lastSnapIndex[i] + 1]}}

Panic(i) ==
    /\ down' = down \cup {i}
    /\ UNCHANGED <<restarts, snaps>>
-----------------------------------------------------------------------------
Init ==
    /\ term = [i \in Server |-> 0]
    /\ vote = [i \in Server |-> None]
    /\ states = [i \in Server |-> "Follower"]
    /\ votes = [i \in Server |-> {}]
    /\ pc = [i \in Server |-> "idle"]
    /\ log = [i \in Server |-> <<Dummy(0)>>]
    /\ lastSnapIndex = [i \in Server |-> 0]
    /\ lastSnapTerm = [i \in Server |-> 0]
    /\ snap = [i \in Server |-> <<>>]
    /\ commitIndex = [i \in Server |-> 0]
    /\ lastApply = [i \in Server |-> 0]
    /\ applied = [i \in Server |-> <<>>]
    /\ nextIndex = [i \in Server |-> [j \in Server |-> 0]]
    /\ matchIndex = [i \in Server |-> [j \in Server |-> 0]]
    /\ pending = [i \in Server |-> {}]
    /\ messages = {}
    /\ down = {} /\ restarts = 0 /\ snaps = 0
    /\ cast = {} /\ elected = {} /\ committed = {}
    /\ overtaken = {} /\ late = {}
-----------------------------------------------------------------------------
(* Election: raft_vote.go *)

\* nextIndex of a new leader.
FirstNextOffByOne(i) == LastIndex(i) + 2   \* mutant
FirstNext(i) == LastIndex(i) + 1

\* The node takes the leadership of t, the term it is in now.
BecomeLeader(i, t) ==
    /\ states' = [states EXCEPT ![i] = "Leader"]
    /\ nextIndex' = [nextIndex EXCEPT ![i] = [j \in Server |-> FirstNext(i)]]
    /\ matchIndex' = [matchIndex EXCEPT ![i] = [j \in Server |-> 0]]
    /\ elected' = elected \cup {[node |-> i, term |-> t]}
    /\ UNCHANGED pending

\* The election timer fires.  The ticker read the state before and outside the
\* lock, so a slow one may start an election in a node that just won another.
\* The tally that ends startElection follows at once, or later (SlowTicker).
StartElection(i) ==
    /\ Up(i) /\ pc[i] = "idle"
    /\ states[i] # "Leader" \/ SlowTicker
    /\ term[i] < MaxTerm
    /\ term' = [term EXCEPT ![i] = @ + 1]
    /\ vote' = [vote EXCEPT ![i] = i]
    /\ votes' = [votes EXCEPT ![i] = {i}]
    /\ cast' = cast \cup {[voter |-> i, term |-> term[i] + 1, candidate |-> i]}
    /\ Send({[type |-> "RequestVote", from |-> i, to |-> j, awaited |-> TRUE,
               term |-> term[i] + 1, lastIndex |-> LastIndex(i),
               lastTerm |-> LastTerm(i)] : j \in Server \ {i}})
    /\ \/ /\ IsMajority({i})
          /\ BecomeLeader(i, term[i] + 1)
          /\ UNCHANGED pc
       \/ /\ SlowTicker \/ ~IsMajority({i})
          /\ states' = [states EXCEPT ![i] = "Candidate"]
          /\ pc' = IF SlowTicker THEN [pc EXCEPT ![i] = "tally"] ELSE pc
          /\ UNCHANGED <<leaderVars, elected>>
    /\ UNCHANGED <<logVars, applyVars, envVars, committed, orderVars>>

\* The last lines of startElection: `votes' is read without the lock, so any
\* count it has had is possible, and neither state nor term is looked at again.
Tally(i) ==
    /\ Up(i) /\ pc[i] = "tally"
    /\ pc' = [pc EXCEPT ![i] = "idle"]
    /\ \E seen \in SUBSET votes[i] :
          /\ i \in seen
          /\ IF IsMajority(seen)
             THEN BecomeLeader(i, term[i])
             ELSE UNCHANGED <<states, leaderVars, elected>>
    /\ UNCHANGED <<term, vote, votes, logVars, applyVars, messages, envVars,
                   cast, committed, orderVars>>

\* The candidate's log is at least as new as that of node i.
UpToDateByLength(i, m) == m.lastIndex >= LastIndex(i)   \* mutant
UpToDate(i, m) ==
    \/ m.lastTerm > LastTerm(i)
    \/ m.lastTerm = LastTerm(i) /\ m.lastIndex >= LastIndex(i)

\* Node i has not voted for another candidate in the term of m.
FreeToVoteAgain(i, m) == TRUE   \* mutant
FreeToVote(i, m) == m.term > term[i] \/ vote[i] \in {None, m.from}

\* The handler of a vote request.
RequestVote(m) ==
    LET i == m.to
        higher == m.term > term[i]
        granted == m.term >= term[i] /\ FreeToVote(i, m) /\ UpToDate(i, m)
    IN  /\ m.type = "RequestVote" /\ Up(i)
        /\ term' = [term EXCEPT ![i] = Maximum(@, m.term)]
        /\ states' = IF higher THEN [states EXCEPT ![i] = "Follower"] ELSE states
        /\ vote' = [vote EXCEPT ![i] = IF granted THEN m.from ELSE IF higher THEN None ELSE @]
        /\ cast' = IF granted
                   THEN cast \cup {[voter |-> i, term |-> m.term, candidate |-> m.from]}
                   ELSE cast
        /\ Reply(m, [type |-> "VoteReply", from |-> i, to |-> m.from,
                     term |-> Maximum(term[i], m.term), granted |-> granted,
                     election |-> m.term])
        /\ UNCHANGED <<votes, pc, logVars, applyVars, leaderVars, envVars,
                       elected, committed, orderVars>>

\* The goroutine of startElection that waited for this reply.
VoteReply(m) ==
    LET i == m.to
        current == states[i] = "Candidate" /\ term[i] = m.election
        wins == IsMajority(votes[i] \cup {m.from})
    IN  /\ m.type = "VoteReply" /\ Up(i)
        /\ Discard(m)
        /\ \/ /\ ~current
              /\ UNCHANGED <<term, vote, states, votes, leaderVars, elected>>
           \/ /\ current /\ m.term > term[i]
              /\ term' = [term EXCEPT ![i] = m.term]
              /\ states' = [states EXCEPT ![i] = "Follower"]
              /\ vote' = [vote EXCEPT ![i] = None]
              /\ UNCHANGED <<votes, leaderVars, elected>>
           \/ /\ current /\ m.term <= term[i] /\ m.granted
              /\ votes' = [votes EXCEPT ![i] = @ \cup {m.from}]
              /\ UNCHANGED <<term, vote>>
              /\ IF wins
                 THEN BecomeLeader(i, term[i])
                 ELSE UNCHANGED <<states, leaderVars, elected>>
           \/ /\ current /\ m.term <= term[i] /\ ~m.granted
              /\ UNCHANGED <<term, vote, states, votes, leaderVars, elected>>
        /\ UNCHANGED <<pc, logVars, applyVars, envVars, cast, committed, orderVars>>
-----------------------------------------------------------------------------
(* Replication: raft.go, raft_heartbeat.go *)

\* A client command on a leader.
Start(i, v) ==
    /\ Up(i) /\ states[i] = "Leader" /\ LastIndex(i) < MaxLog
    /\ log' = [log EXCEPT ![i] = Append(@, [term |-> term[i], command |-> v])]
    /\ UNCHANGED <<electionVars, lastSnapIndex, lastSnapTerm, snap, applyVars,
                   leaderVars, messages, envVars, cast, elected, committed, orderVars>>

\* The commit loops look at entries of the current term only.
CommittableOfAnyTerm(i, N) == TRUE   \* mutant
Committable(i, N) == At(i, N).term = term[i]

\* commitIndex moves to the last committable entry among `replicated'.
AdvanceCommit(i, replicated) ==
    LET Ns == {N \in replicated : N > commitIndex[i] /\ Committable(i, N)}
    IN  \/ \E N \in Ns :
              /\ \A M \in Ns : M <= N
              /\ commitIndex' = [commitIndex EXCEPT ![i] = N]
              /\ committed' = Commits(i, log[i], N, term[i])
        \/ Ns = {} /\ UNCHANGED <<commitIndex, committed>>

\* broadcastAppendEntries in the caller's goroutine, from the ticker, from Start
\* and after an election: the leader check and, alone in the cluster, the commit.
Broadcast(i) ==
    /\ Up(i) /\ states[i] = "Leader"
    /\ \/ /\ Server = {i}
          /\ matchIndex' = [matchIndex EXCEPT ![i][i] = LastIndex(i)]
          /\ AdvanceCommit(i, lastSnapIndex[i] + 1 .. LastIndex(i))
          /\ UNCHANGED <<nextIndex, pending>>
       \/ /\ SlowSender /\ Server # {i}
          /\ pending' = [pending EXCEPT ![i] = Server \ {i}]
          /\ UNCHANGED <<nextIndex, matchIndex, commitIndex, committed>>
    /\ UNCHANGED <<electionVars, logVars, lastApply, applied, messages, envVars,
                   cast, elected, orderVars>>

\* Node i may run its send goroutine for j: it leads, or it was leading when
\* broadcastAppendEntries looked.
MaySend(i, j) == IF SlowSender THEN j \in pending[i] ELSE states[i] = "Leader"

\* The per-peer goroutine of broadcastAppendEntries: it takes the lock again and
\* sends what nextIndex asks for under the term it finds.  (sendInstallSnapshotTo
\* takes the lock once more; both reads are one step here.)
SendAppend(i, j) ==
    LET next == nextIndex[i][j]
        prev == next - 1
    IN  /\ Up(i) /\ i # j /\ MaySend(i, j)
        /\ pending' = [pending EXCEPT ![i] = @ \ {j}]
        /\ \/ /\ next <= lastSnapIndex[i]
              /\ Send({[type |-> "InstallSnapshot", from |-> i, to |-> j, awaited |-> TRUE,
                       term |-> term[i], lastSnapIndex |-> lastSnapIndex[i],
                       lastSnapTerm |-> lastSnapTerm[i], data |-> snap[i]]})
              /\ UNCHANGED envVars
           \/ /\ next > lastSnapIndex[i] /\ prev <= LastIndex(i)
              /\ Send({[type |-> "AppendEntries", from |-> i, to |-> j, awaited |-> TRUE,
                       term |-> term[i], prevIndex |-> prev,
                       prevTerm |-> At(i, prev).term,
                       entries |-> SubSeq(log[i], next - lastSnapIndex[i] + 1,
                                          Len(log[i])),
                       commit |-> commitIndex[i]]})
              /\ UNCHANGED envVars
           \/ /\ prev > LastIndex(i)   \* the index is beyond rf.log
              /\ Panic(i)
              /\ UNCHANGED messages
        /\ UNCHANGED <<electionVars, logVars, applyVars, nextIndex, matchIndex,
                       cast, elected, committed, orderVars>>

\* The last index an AppendEntries speaks of.
End(m) == m.prevIndex + Len(m.entries)

AnswerAppend(m, t, success, conflict) ==
    Reply(m, [type |-> "AppendReply", from |-> m.to, to |-> m.from, term |-> t,
              success |-> success, conflict |-> conflict,
              callTerm |-> m.term, prevIndex |-> m.prevIndex, len |-> Len(m.entries)])

\* Entry k of the message is at its place in the log of node i already.
AgreesByLength(i, m, k) ==   \* mutant
    m.prevIndex - lastSnapIndex[i] + 1 + k <= Len(log[i])
Agrees(i, m, k) ==
    LET place == m.prevIndex - lastSnapIndex[i] + 1 + k
    IN  place <= Len(log[i]) /\ log[i][place].term = m.entries[k].term

\* A heartbeat without entries cuts nothing off a log.
CutsAlways(m) == TRUE   \* mutant
Cuts(m) == m.entries # <<>>

\* The log after the entries of m were matched against it, and cut behind them.
\* The comparison is of terms only, and newLen is an index, not a position.
Merged(i, m) ==
    LET start == m.prevIndex - lastSnapIndex[i] + 1
        new == m.entries
        overwritten ==
            {SubSeq(log[i], 1, start + k - 1) \o SubSeq(new, k, Len(new)) :
                k \in {n \in 1 .. Len(new) : /\ ~Agrees(i, m, n)
                                            /\ \A h \in 1 .. n - 1 : Agrees(i, m, h)}}
        merged == IF overwritten = {} THEN log[i] ELSE CHOOSE l \in overwritten : TRUE
        newLen == End(m) + 1
    IN  IF Cuts(m) /\ newLen < Len(merged) THEN SubSeq(merged, 1, newLen) ELSE merged

\* The indices from which node i holds one term up to prev: ConflictIndex is the first.
SameTermBehind(i, prev) == {prev + 1}   \* mutant
SameTerm(i, prev) ==
    {n \in lastSnapIndex[i] .. prev :
        \A k \in n .. prev : At(i, k).term = At(i, prev).term}

\* ConflictIndex of a log that ends before prev.
ShortConflictOffByOne(i) == LastIndex(i) - 1   \* mutant
ShortConflict(i) == LastIndex(i)

\* History: m is accepted.
Overtakes(m) ==
    /\ overtaken' =
          {n \in messages : \/ n \in overtaken
                            \/ /\ n.type = "AppendEntries" /\ n.from = m.from
                               /\ n.to = m.to /\ n.term = m.term /\ End(n) < End(m)}
    /\ late' = IF late = {} /\ m \in overtaken /\ m.entries # <<>> THEN {m} ELSE late

\* The follower's answer once the term is accepted; t is that term.
Follow(i, m, t) ==
    LET prev == m.prevIndex
        sameTerm == SameTerm(i, prev)
        new == Merged(i, m)
        commit == IF m.commit > commitIndex[i]
                  THEN Minimum(m.commit, LastIndex(i))
                  ELSE commitIndex[i]
    IN  \/ /\ prev > LastIndex(i)
          /\ AnswerAppend(m, t, FALSE, ShortConflict(i))
          /\ UNCHANGED <<log, commitIndex, committed, orderVars, envVars>>
       \/ /\ prev < lastSnapIndex[i]
          /\ AnswerAppend(m, t, FALSE, lastSnapIndex[i] + 1)
          /\ UNCHANGED <<log, commitIndex, committed, orderVars, envVars>>
       \/ /\ prev \in lastSnapIndex[i] .. LastIndex(i) /\ At(i, prev).term # m.prevTerm
          /\ \/ /\ lastSnapIndex[i] \notin sameTerm
                /\ \E n \in sameTerm :
                      /\ n - 1 \notin sameTerm
                      /\ AnswerAppend(m, t, FALSE, n)
                /\ UNCHANGED envVars
             \/ /\ lastSnapIndex[i] \in sameTerm   \* the scan leaves rf.log
                /\ IF lastSnapIndex[i] = 0
                   THEN AnswerAppend(m, t, FALSE, 0) /\ UNCHANGED envVars
                   ELSE Discard(m) /\ Panic(i)
          /\ UNCHANGED <<log, commitIndex, committed, orderVars>>
       \/ /\ prev \in lastSnapIndex[i] .. LastIndex(i) /\ At(i, prev).term = m.prevTerm
          /\ log' = [log EXCEPT ![i] = new]
          /\ commitIndex' = [commitIndex EXCEPT ![i] = commit]
          /\ committed' = Commits(i, new, Minimum(commit,
                                    lastSnapIndex[i] + Len(new) - 1), t)
          /\ AnswerAppend(m, t, TRUE, 0)
          /\ Overtakes(m)
          /\ UNCHANGED envVars

\* The handler of a heartbeat.
AppendEntries(m) ==
    LET i == m.to
    IN  /\ m.type = "AppendEntries" /\ Up(i)
        /\ \/ /\ m.term < term[i]
              /\ AnswerAppend(m, term[i], FALSE, Len(log[i]))
              /\ UNCHANGED <<term, vote, states, log, commitIndex, committed, orderVars,
                             envVars>>
           \/ /\ m.term >= term[i]
              /\ term' = [term EXCEPT ![i] = m.term]
              /\ vote' = IF m.term > term[i] THEN [vote EXCEPT ![i] = None] ELSE vote
              /\ states' = [states EXCEPT ![i] = "Follower"]
              /\ Follow(i, m, m.term)
        /\ UNCHANGED <<votes, pc, lastSnapIndex, lastSnapTerm, snap, lastApply,
                       applied, leaderVars, cast, elected>>

\* Node i still leads the term in which it made the call that m answers.
StillLeads(i, m) == states[i] = "Leader" /\ m.callTerm = term[i]

\* The last index of the call that m answers.
AcknowledgedPast(m) == m.prevIndex + m.len + 1   \* mutant
Acknowledged(m) == m.prevIndex + m.len

\* The per-peer goroutine goes on with the answer to its call.
AppendReply(m) ==
    LET i == m.to
        j == m.from
        last == Acknowledged(m)
        matched == IF m.len > 0 THEN [matchIndex[i] EXCEPT ![j] = last] ELSE matchIndex[i]
        replicated == {N \in lastSnapIndex[i] + 1 .. LastIndex(i) :
                          IsMajority({i} \cup {k \in Server : matched[k] >= N})}
    IN  /\ m.type = "AppendReply" /\ Up(i)
        /\ Discard(m)
        /\ \/ /\ m.term > term[i]
              /\ term' = [term EXCEPT ![i] = m.term]
              /\ vote' = [vote EXCEPT ![i] = None]
              /\ states' = [states EXCEPT ![i] = "Follower"]
              /\ UNCHANGED <<nextIndex, matchIndex, commitIndex, committed>>
           \/ /\ m.term <= term[i] /\ ~StillLeads(i, m)
              /\ UNCHANGED <<term, vote, states, nextIndex, matchIndex,
                             commitIndex, committed>>
           \/ /\ m.term <= term[i] /\ StillLeads(i, m) /\ m.success
              /\ nextIndex' = [nextIndex EXCEPT ![i][j] = last + 1]
              /\ matchIndex' = [matchIndex EXCEPT ![i] = matched]
              /\ AdvanceCommit(i, replicated)
              /\ UNCHANGED <<term, vote, states>>
           \/ /\ m.term <= term[i] /\ StillLeads(i, m) /\ ~m.success
              /\ nextIndex' = [nextIndex EXCEPT ![i][j] =
                                   Minimum(m.conflict, LastIndex(i) + 1)]
              /\ UNCHANGED <<term, vote, states, matchIndex, commitIndex, committed>>
        /\ UNCHANGED <<votes, pc, logVars, lastApply, applied, pending, envVars,
                       cast, elected, orderVars>>
-----------------------------------------------------------------------------
(* Snapshots: raft_snapshot.go, kv/snapshot.go *)

\* snapshotWorker on a leader with something in its log: `applied' stands for
\* what Serialize read.  The snapshot is cut at the end of the log.
Snapshot(i) ==
    /\ Up(i) /\ states[i] = "Leader" /\ Len(log[i]) > 1
    /\ snaps < MaxSnaps
    /\ snaps' = snaps + 1
    /\ log' = [log EXCEPT ![i] = <<Dummy(LastTerm(i))>>]
    /\ lastSnapIndex' = [lastSnapIndex EXCEPT ![i] = LastIndex(i)]
    /\ lastSnapTerm' = [lastSnapTerm EXCEPT ![i] = LastTerm(i)]
    /\ snap' = [snap EXCEPT ![i] = applied[i]]
    /\ UNCHANGED <<electionVars, applyVars, leaderVars, messages, down, restarts,
                   cast, elected, committed, orderVars>>

\* What is left of the log of node i: the entries from the snapshot's index on, the
\* first of which becomes the dummy, whatever its term; or the dummy alone.
Kept(i, m) ==
    IF m.lastSnapIndex < LastIndex(i)
    THEN SubSeq(log[i], m.lastSnapIndex - lastSnapIndex[i] + 1, Len(log[i]))
    ELSE <<Dummy(m.lastSnapTerm)>>

\* The handler of a snapshot: a new term leaves rf.vote alone, the answer names a
\* term only to refuse, and the store above never sees the data.
InstallSnapshot(m) ==
    LET i == m.to
        answer(t) == Reply(m, [type |-> "InstallReply", from |-> i, to |-> m.from,
                               term |-> t])
    IN  /\ m.type = "InstallSnapshot" /\ Up(i)
        /\ \/ /\ m.term < term[i]
              /\ answer(term[i])
              /\ UNCHANGED <<term, states, logVars, commitIndex, lastApply>>
           \/ /\ m.term >= term[i]
              /\ term' = [term EXCEPT ![i] = m.term]
              /\ states' = [states EXCEPT ![i] = "Follower"]
              /\ answer(0)
              /\ IF m.lastSnapIndex <= lastSnapIndex[i]
                 THEN UNCHANGED <<logVars, commitIndex, lastApply>>
                 ELSE /\ log' = [log EXCEPT ![i] = Kept(i, m)]
                      /\ lastSnapIndex' = [lastSnapIndex EXCEPT ![i] = m.lastSnapIndex]
                      /\ lastSnapTerm' = [lastSnapTerm EXCEPT ![i] = m.lastSnapTerm]
                      /\ snap' = [snap EXCEPT ![i] = m.data]
                      /\ commitIndex' = [commitIndex EXCEPT ![i] = Maximum(@, m.lastSnapIndex)]
                      /\ lastApply' = [lastApply EXCEPT ![i] = Maximum(@, m.lastSnapIndex)]
        /\ UNCHANGED <<vote, votes, pc, applied, leaderVars, envVars, cast, elected,
                       committed, orderVars>>

\* sendInstallSnapshotTo goes on with the answer: no check that the node still
\* leads, and the snapshot it has now counts as the one the peer installed.
InstallReply(m) ==
    LET i == m.to
    IN  /\ m.type = "InstallReply" /\ Up(i)
        /\ Discard(m)
        /\ \/ /\ m.term > term[i]
              /\ term' = [term EXCEPT ![i] = m.term]
              /\ states' = [states EXCEPT ![i] = "Follower"]
              /\ UNCHANGED <<nextIndex, matchIndex>>
           \/ /\ m.term <= term[i]
              /\ nextIndex' = [nextIndex EXCEPT ![i][m.from] = lastSnapIndex[i] + 1]
              /\ matchIndex' = [matchIndex EXCEPT ![i][m.from] = lastSnapIndex[i]]
              /\ UNCHANGED <<term, states>>
        /\ UNCHANGED <<vote, votes, pc, logVars, applyVars, pending, envVars, cast,
                       elected, committed, orderVars>>
-----------------------------------------------------------------------------
(* Apply loop and restart: raft_apply.go, raft.go *)

\* Index k is inside rf.log of node i.
InLogOffByOne(i, k) == k \in lastSnapIndex[i] .. LastIndex(i) - 1   \* mutant
InLog(i, k) == k \in lastSnapIndex[i] .. LastIndex(i)

\* One round of ApplyLoop.  An index outside rf.log is passed over in silence.
Apply(i) ==
    LET k == lastApply[i] + 1
    IN  /\ Up(i) /\ lastApply[i] < commitIndex[i] /\ k <= MaxApply
        /\ lastApply' = [lastApply EXCEPT ![i] = k]
        /\ applied' = IF InLog(i, k)
                      THEN [applied EXCEPT ![i] =
                               Append(@, [index |-> k, command |-> At(i, k).command])]
                      ELSE applied
        /\ UNCHANGED <<electionVars, logVars, commitIndex, leaderVars, messages,
                       envVars, cast, elected, committed, orderVars>>

\* The network after the process of node i ended: answers on their way to it are
\* lost, and nobody waits for the answers to what it sent.
WithoutCaller(i) ==
    LET answers == {m \in messages : m.type \in {"VoteReply", "AppendReply", "InstallReply"}}
        calls == messages \ answers
    IN  {m \in answers : m.to # i}
        \cup {m \in calls : m.from # i}
        \cup {[m EXCEPT !.awaited = FALSE] : m \in {n \in calls : n.from = i}}

\* The process ends at any point and MakeRaft runs: what LoadFromWAL reads is
\* overwritten by the assignments behind it.
Restart(i) ==
    /\ restarts < MaxRestarts
    /\ restarts' = restarts + 1
    /\ down' = down \ {i}
    /\ term' = [term EXCEPT ![i] = 0]
    /\ vote' = [vote EXCEPT ![i] = None]
    /\ states' = [states EXCEPT ![i] = "Follower"]
    /\ votes' = [votes EXCEPT ![i] = {}]
    /\ pc' = [pc EXCEPT ![i] = "idle"]
    /\ log' = [log EXCEPT ![i] = <<Dummy(0)>>]
    /\ lastSnapIndex' = [lastSnapIndex EXCEPT ![i] = 0]
    /\ lastSnapTerm' = [lastSnapTerm EXCEPT ![i] = 0]
    /\ snap' = [snap EXCEPT ![i] = <<>>]
    /\ commitIndex' = [commitIndex EXCEPT ![i] = 0]
    /\ lastApply' = [lastApply EXCEPT ![i] = 0]
    /\ applied' = [applied EXCEPT ![i] = <<>>]
    /\ nextIndex' = [nextIndex EXCEPT ![i] = [j \in Server |-> 0]]
    /\ matchIndex' = [matchIndex EXCEPT ![i] = [j \in Server |-> 0]]
    /\ pending' = [pending EXCEPT ![i] = {}]
    /\ messages' = WithoutCaller(i)
    /\ UNCHANGED <<snaps, cast, elected, committed, orderVars>>
-----------------------------------------------------------------------------
Next ==
    \/ \E i \in Server : \/ StartElection(i) \/ Tally(i) \/ Broadcast(i)
                        \/ Snapshot(i) \/ Apply(i) \/ Restart(i)
    \/ \E i \in Server, v \in Value : Start(i, v)
    \/ \E i, j \in Server : SendAppend(i, j)
    \/ \E m \in messages : \/ RequestVote(m) \/ VoteReply(m)
                          \/ AppendEntries(m) \/ AppendReply(m)
                          \/ InstallSnapshot(m) \/ InstallReply(m)

Spec == Init /\ [][Next]_vars
-----------------------------------------------------------------------------
(* Properties *)

State == {"Follower", "Candidate", "Leader"}

Message ==
    [type : {"RequestVote"}, from : Server, to : Server, awaited : BOOLEAN,
     term : Nat, lastIndex : Nat, lastTerm : Nat]
    \cup [type : {"VoteReply"}, from : Server, to : Server, term : Nat,
          granted : BOOLEAN, election : Nat]
    \cup [type : {"AppendEntries"}, from : Server, to : Server, awaited : BOOLEAN,
          term : Nat, prevIndex : Nat, prevTerm : Nat, entries : Seq(Entry), commit : Nat]
    \cup [type : {"AppendReply"}, from : Server, to : Server, term : Nat,
          success : BOOLEAN, conflict : Nat, callTerm : Nat, prevIndex : Nat, len : Nat]
    \cup [type : {"InstallSnapshot"}, from : Server, to : Server, awaited : BOOLEAN,
          term : Nat, lastSnapIndex : Nat, lastSnapTerm : Nat,
          data : Seq([index : Nat, command : Value \cup {None}])]
    \cup [type : {"InstallReply"}, from : Server, to : Server, term : Nat]

\* The variables and the messages have their types; a log always keeps its
\* dummy entry (rf.log[0]).
TypeOK ==
    /\ term \in [Server -> Nat]
    /\ vote \in [Server -> Server \cup {None}]
    /\ states \in [Server -> State]
    /\ votes \in [Server -> SUBSET Server]
    /\ pc \in [Server -> {"idle", "tally"}]
    /\ log \in [Server -> Seq(Entry)] /\ \A i \in Server : log[i] # <<>>
    /\ lastSnapIndex \in [Server -> Nat]
    /\ lastSnapTerm \in [Server -> Nat]
    /\ snap \in [Server -> Seq([index : Nat, command : Value \cup {None}])]
    /\ commitIndex \in [Server -> Nat]
    /\ lastApply \in [Server -> Nat]
    /\ applied \in [Server -> Seq([index : Nat, command : Value \cup {None}])]
    /\ nextIndex \in [Server -> [Server -> Nat]]
    /\ matchIndex \in [Server -> [Server -> Nat]]
    /\ pending \in [Server -> SUBSET Server]
    /\ messages \subseteq Message
    /\ down \subseteq Server /\ restarts \in Nat /\ snaps \in Nat
    /\ cast \subseteq [voter : Server, term : Nat, candidate : Server]
    /\ elected \subseteq [node : Server, term : Nat]
    /\ committed \subseteq [index : Nat, entry : Entry, term : Nat]
    /\ overtaken \subseteq Message /\ late \subseteq Message

\* RequestVote and startElection: a node votes for one candidate in a term, over
\* all its changes of state in between.
OneVotePerTerm ==
    \A a, b \in cast :
        a.voter = b.voter /\ a.term = b.term => a.candidate = b.candidate

\* startElection: a term is never won by two nodes, not even at different times.
ElectionSafety ==
    \A a, b \in elected : a.term = b.term => a.node = b.node

\* AppendEntries: where two logs hold an entry of the same term at an index, they
\* hold the same entries up to there.
LogMatching ==
    \A i, j \in Server :
        LET first == Maximum(lastSnapIndex[i], lastSnapIndex[j])
            last  == Minimum(LastIndex(i), LastIndex(j))
        IN  \A k \in first + 1 .. last :
                At(i, k).term = At(j, k).term =>
                    \A h \in first + 1 .. k : At(i, h) = At(j, h)

\* AppendEntries cuts the log behind every call that brings entries, so one that arrives
\* after a longer call of the same leader takes back what that leader counts as
\* replicated.  The properties below hold until it does (late = {}).

\* The commit rule: no two nodes ever commit different entries at an index.
CommittedAgree ==
    late = {} => \A a, b \in committed : a.index = b.index => a.entry = b.entry

\* The vote rule (upToDate) and the commit rule together: a leader holds every
\* entry that was committed in its own or an earlier term.
LeaderCompleteness ==
    late = {} => \A i \in Server, c \in committed :
        states[i] = "Leader" /\ c.term <= term[i] =>
            \/ c.index <= lastSnapIndex[i]
            \/ c.index <= LastIndex(i) /\ At(i, c.index) = c.entry

\* AppendReply: what a leader counts as replicated on a peer of its term is there.
MatchedIsHeld ==
    late = {} => \A i, j \in Server :
        states[i] = "Leader" /\ term[j] = term[i] /\ i # j =>
            \A k \in lastSnapIndex[i] + 1 .. matchIndex[i][j] :
                k > lastSnapIndex[j] => k <= LastIndex(j) /\ At(j, k) = At(i, k)

\* ApplyLoop: since the process started, the store was given every index up to
\* lastApply, once and in order.
AppliedWithoutGaps ==
    \A i \in Server :
        /\ Len(applied[i]) = lastApply[i]
        /\ \A n \in 1 .. Len(applied[i]) : applied[i][n].index = n

\* Index arithmetic of broadcastAppendEntries and AppendEntries: no step reaches
\* outside rf.log, which would end the process.
NoPanic == down = {}

\* AppendEntries: while a process lives, an entry its commitIndex covers is never
\* taken back or replaced.
CommittedStay ==
    [][\A i \in Server :
          restarts' = restarts /\ late' = {} =>
              /\ commitIndex'[i] >= commitIndex[i]
              /\ \A k \in lastSnapIndex'[i] + 1 .. Minimum(commitIndex[i], LastIndex(i)) :
                     k <= LastIndex(i)' /\ At(i, k)' = At(i, k)]_vars

\* ApplyLoop on top of the commit rule is a replicated log: what any node ever
\* covered by its commitIndex is the one log, and every store is handed a prefix.
AgreedLog ==
    [k \in 1 .. Cardinality({r.index : r \in committed}) |->
        (CHOOSE r \in committed : r.index = k).entry.command]

Replicated == INSTANCE ReplicatedLog WITH
    Command   <- Value,
    chosen    <- AgreedLog,
    delivered <- [i \in Server |-> [n \in 1 .. Len(applied[i]) |-> applied[i][n].command]]

ImplementsReplicatedLog ==
    Replicated!Init /\ [][late' = {} => Replicated!Next]_(Replicated!logVars)

\* README: after a restart the WAL brings back what the node had, so at least the
\* entries it had committed.
CommittedSurviveRestart ==
    [][\A i \in Server :
          \A k \in lastSnapIndex'[i] + 1 .. Minimum(commitIndex[i], LastIndex(i)) :
              k <= LastIndex(i)' /\ At(i, k)' = At(i, k)]_vars
=============================================================================
