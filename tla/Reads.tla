-------------------------------- MODULE Reads --------------------------------
(***************************************************************************)
(* Reads of HM-KV that do not go through the log: ReadIndex of a leader    *)
(* (src/internal/raft/raft.go) and Get, which waits for the store of the   *)
(* node (src/internal/kv/kv_get.go), on top of the whole Raft layer and of *)
(* an apply loop that hands entries to the store in two steps.             *)
(***************************************************************************)
EXTENDS Raft

CONSTANT
    Reader          \* calls of Get, one each

VARIABLES
    reads,          \* the calls of Get, with their entry in rf.readIndexReqs
    lastApplied,    \* kv.lastApplied
    handled         \* the entries whose handler has run on a node

readVars == <<reads, lastApplied, handled>>
allVars == <<vars, readVars>>
-----------------------------------------------------------------------------
\* History in a read: .before, what clients had been told of when it began, .own, whether
\* its leader had committed an entry of its term, .old, the answers on their way then (an
\* equal one given later passes for one of them), .fresh, the peers whose answer counted
\* and is none of these, .seen, the entries in the store it read, and .busy, whether the
\* handler of a further one was at work.
NoRead == [at |-> "idle", node |-> None, term |-> 0, index |-> 0, counter |-> 0,
           before |-> 0, own |-> FALSE, old |-> {}, fresh |-> {}, seen |-> 0, busy |-> FALSE]

ReadsInit ==
    /\ reads = [r \in Reader |-> NoRead]
    /\ lastApplied = [i \in Server |-> 0]
    /\ handled = [i \in Server |-> 0]

\* `counter > len(rf.peers)/2'
Enough(n) == n > Cardinality(Server) \div 2

\* What somebody was told of: the node that took a request answers when its handler has
\* run, and finished reads told of what they saw.
Told == LET all == {handled[i] : i \in Server} \cup {reads[r].seen : r \in Reader}
        IN  CHOOSE n \in all : \A k \in all : k <= n

OwnTerm(i) == \E k \in lastSnapIndex[i] + 1 .. commitIndex[i] :
                  k <= LastIndex(i) /\ At(i, k).term = term[i]

\* Get on a node that leads: ReadIndex takes the commitIndex, of whatever term its last
\* entry is, and waits for answers to heartbeats unless the node is alone.  Elsewhere,
\* and after the timeout, Get goes through the log (see Requests).
ReadIndex(r, i) ==
    /\ reads[r].at = "idle" /\ Up(i) /\ states[i] = "Leader"
    /\ reads' = [reads EXCEPT ![r] =
          [NoRead EXCEPT !.at = IF Enough(1) THEN "confirmed" ELSE "waiting",
                         !.node = i, !.term = term[i], !.index = commitIndex[i],
                         !.counter = 1, !.before = Told, !.own = OwnTerm(i),
                         !.old = {m \in messages : m.type = "AppendReply"}]]
    /\ UNCHANGED <<vars, lastApplied, handled>>

\* A request counts answers in the term it was made in.
InTerm(r, i) == reads[r].term = term[i]

\* An answer to a heartbeat that agrees counts for every request that waits, whenever the
\* heartbeat was sent and as often as its peer answers.
Acked(m) ==
    LET i == m.to
        counts(r) == /\ reads[r].at = "waiting" /\ reads[r].node = i /\ InTerm(r, i)
                     /\ m.success /\ m.term <= term[i] /\ StillLeads(i, m)
    IN  reads' = [r \in Reader |->
            IF ~counts(r) THEN reads[r]
            ELSE [reads[r] EXCEPT
                    !.counter = @ + 1,
                    !.fresh = IF m \in reads[r].old THEN @ ELSE @ \cup {m.from},
                    !.at = IF Enough(reads[r].counter + 1) THEN "confirmed" ELSE @]]

GiveUp(r) ==
    /\ reads[r].at = "waiting"
    /\ reads' = [reads EXCEPT ![r].at = "through the log"]
    /\ UNCHANGED <<vars, lastApplied, handled>>

\* Get has waited until lastApplied reached the index, and reads the store.
Get(r) ==
    LET i == reads[r].node
    IN  /\ reads[r].at = "confirmed" /\ lastApplied[i] >= reads[r].index
        /\ reads' = [reads EXCEPT ![r].at = "done", ![r].seen = handled[i],
                                  ![r].busy = lastApplied[i] # handled[i]]
        /\ UNCHANGED <<vars, lastApplied, handled>>

\* applyBatch moves lastApplied, outside kv.mu, and then handles the entry.
TakeEntry(i) ==
    /\ lastApplied[i] = handled[i] /\ lastApplied[i] < Len(applied[i])
    /\ lastApplied' = [lastApplied EXCEPT ![i] = @ + 1]
    /\ UNCHANGED <<vars, reads, handled>>

HandleEntry(i) ==
    /\ handled[i] < lastApplied[i]
    /\ handled' = [handled EXCEPT ![i] = lastApplied[i]]
    /\ UNCHANGED <<vars, reads, lastApplied>>

\* A step of Raft that does not count for reads (a process that ends takes its reads along;
\* not modelled).
RaftStep ==
    \/ \E i \in Server : \/ StartElection(i) \/ Tally(i) \/ Broadcast(i)
                        \/ Snapshot(i) \/ Apply(i)
    \/ \E i \in Server, v \in Value : Start(i, v)
    \/ \E i, j \in Server : SendAppend(i, j)
    \/ \E m \in messages : \/ RequestVote(m) \/ VoteReply(m) \/ AppendEntries(m)
                          \/ InstallSnapshot(m) \/ InstallReply(m)

ReadsNext ==
    \/ RaftStep /\ UNCHANGED readVars
    \/ \E m \in messages : AppendReply(m) /\ Acked(m) /\ UNCHANGED <<lastApplied, handled>>
    \/ \E r \in Reader : GiveUp(r) \/ Get(r) \/ \E i \in Server : ReadIndex(r, i)
    \/ \E i \in Server : TakeEntry(i) \/ HandleEntry(i)

ReadsSpec == Init /\ ReadsInit /\ [][ReadsNext]_allVars
-----------------------------------------------------------------------------
\* ReadIndex confirms that the node still leads, as its comment says, and Get answers from
\* the store: a leader that has committed an entry of its term reads everything any client
\* was told of before the read began, whoever else leads meanwhile; the one entry may be
\* missing whose handler is at work on that very node.
Sees(c) == c.before <= c.seen + IF c.busy THEN 1 ELSE 0
ReadsSeeWhatWasTold ==
    late = {} => \A r \in Reader : reads[r].at = "done" /\ reads[r].own => Sees(reads[r])

\* What the code does keep: the same, of a read that a majority answered after it began.
ConfirmedReadsAreFresh ==
    late = {} => \A r \in Reader :
        LET c == reads[r]
        IN  c.at = "done" /\ c.own /\ IsMajority(c.fresh \cup {c.node}) => Sees(c)
=============================================================================
