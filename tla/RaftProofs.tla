----------------------------- MODULE RaftProofs -----------------------------
(***************************************************************************)
(* Proofs about Raft for every cluster and every value of the bounds:      *)
(* types; and, as long as no process restarts (a restart forgets rf.term   *)
(* and rf.vote, see Restart), a node votes once in a term, and a term has  *)
(* one leader if the tally at the end of startElection follows its call at *)
(* once (see SlowTicker), in which case logs match.                        *)
(***************************************************************************)
EXTENDS Raft, FiniteSetTheorems, SequenceTheorems, TLAPS

-----------------------------------------------------------------------------
(* Types: what a typed state says of a log and of a message *)

\* getLastIndex: rf.log is never empty, so every index from the snapshot's to the
\* last one names an entry.
LEMMA LogFacts ==
    ASSUME TypeOK, NEW i \in Server
    PROVE  /\ log[i] \in Seq(Entry) /\ Len(log[i]) \in Nat /\ Len(log[i]) >= 1
           /\ lastSnapIndex[i] \in Nat
           /\ LastIndex(i) \in Nat /\ LastIndex(i) >= lastSnapIndex[i]
           /\ \A k \in lastSnapIndex[i] .. LastIndex(i) :
                 At(i, k) \in Entry /\ At(i, k).term \in Nat
           /\ LastTerm(i) \in Nat
<1>1. log[i] \in Seq(Entry) /\ log[i] # <<>> /\ lastSnapIndex[i] \in Nat
  BY DEF TypeOK
<1>2. Len(log[i]) \in Nat /\ Len(log[i]) >= 1
  BY <1>1, EmptySeq, LenProperties
<1>3. LastIndex(i) \in Nat /\ LastIndex(i) >= lastSnapIndex[i]
  BY <1>1, <1>2 DEF LastIndex
<1>4. \A k \in lastSnapIndex[i] .. LastIndex(i) : At(i, k) \in Entry
  <2> TAKE k \in lastSnapIndex[i] .. LastIndex(i)
  <2>1. k - lastSnapIndex[i] + 1 \in 1 .. Len(log[i])
    BY <1>1, <1>2, <1>3 DEF LastIndex
  <2> QED BY <1>1, <2>1, ElementOfSeq DEF At
<1>5. \A e \in Entry : e.term \in Nat
  BY DEF Entry
<1>6. LastIndex(i) \in lastSnapIndex[i] .. LastIndex(i)
  BY <1>1, <1>3
<1> QED BY <1>1, <1>2, <1>3, <1>4, <1>5, <1>6 DEF LastTerm

\* Every message names two peers and a term, and has the fields of its type.
LEMMA MessageFacts ==
    ASSUME TypeOK, NEW m \in messages
    PROVE  /\ m \in Message
           /\ m.from \in Server /\ m.to \in Server /\ m.term \in Nat
           /\ m.type = "RequestVote" => m.lastIndex \in Nat /\ m.lastTerm \in Nat
           /\ m.type = "VoteReply" => m.granted \in BOOLEAN /\ m.election \in Nat
           /\ m.type = "AppendEntries" =>
                 m.prevIndex \in Nat /\ m.entries \in Seq(Entry) /\ m.commit \in Nat
           /\ m.type = "AppendReply" =>
                 /\ m.success \in BOOLEAN /\ m.conflict \in Nat
                 /\ m.callTerm \in Nat /\ m.prevIndex \in Nat /\ m.len \in Nat
           /\ m.type = "InstallSnapshot" =>
                 /\ m.lastSnapIndex \in Nat /\ m.lastSnapTerm \in Nat
                 /\ m.data \in Seq([index : Nat, command : Value \cup {None}])
<1>1. m \in Message
  BY DEF TypeOK
<1> QED BY <1>1 DEF Message

LEMMA SendTyped ==
    ASSUME TypeOK, NEW new \in SUBSET Message, Send(new)
    PROVE  messages' \subseteq Message
BY DEF TypeOK, Send

LEMMA ReplyTyped ==
    ASSUME TypeOK, NEW m \in messages, NEW r \in Message, Reply(m, r)
    PROVE  messages' \subseteq Message
BY DEF TypeOK, Reply

LEMMA DiscardTyped ==
    ASSUME TypeOK, NEW m \in messages, Discard(m)
    PROVE  messages' \subseteq Message
BY DEF TypeOK, Discard

-----------------------------------------------------------------------------
(* Types: elections *)

LEMMA BecomeLeaderTyped ==
    ASSUME TypeOK, NEW i \in Server, NEW t \in Nat, BecomeLeader(i, t)
    PROVE  /\ states' \in [Server -> State]
           /\ nextIndex' \in [Server -> [Server -> Nat]]
           /\ matchIndex' \in [Server -> [Server -> Nat]]
           /\ pending' \in [Server -> SUBSET Server]
           /\ elected' \subseteq [node : Server, term : Nat]
<1>1. LastIndex(i) + 1 \in Nat
  BY LogFacts
<1> QED BY <1>1 DEF TypeOK, BecomeLeader, FirstNext, State

LEMMA StartElectionTyped ==
    ASSUME TypeOK, NEW i \in Server, StartElection(i)
    PROVE  TypeOK'
<1>1. term[i] + 1 \in Nat /\ LastIndex(i) \in Nat /\ LastTerm(i) \in Nat
  <2>1. term[i] \in Nat
    BY DEF TypeOK
  <2> QED BY <2>1, LogFacts
<1>2. messages' \subseteq Message
  <2> DEFINE new == {[type |-> "RequestVote", from |-> i, to |-> j, awaited |-> TRUE,
                      term |-> term[i] + 1, lastIndex |-> LastIndex(i),
                      lastTerm |-> LastTerm(i)] : j \in Server \ {i}}
  <2>1. ASSUME NEW j \in Server
        PROVE  [type |-> "RequestVote", from |-> i, to |-> j, awaited |-> TRUE,
                term |-> term[i] + 1, lastIndex |-> LastIndex(i),
                lastTerm |-> LastTerm(i)] \in Message
    BY <1>1 DEF Message
  <2>2. Send(new)
    BY DEF StartElection
  <2>3. new \subseteq Message
    BY <2>1
  <2> HIDE DEF new
  <2> QED BY <2>2, <2>3, SendTyped
<1>3. /\ states' \in [Server -> State]
      /\ nextIndex' \in [Server -> [Server -> Nat]]
      /\ matchIndex' \in [Server -> [Server -> Nat]]
      /\ pending' \in [Server -> SUBSET Server]
      /\ elected' \subseteq [node : Server, term : Nat]
      /\ pc' \in [Server -> {"idle", "tally"}]
  <2>1. CASE BecomeLeader(i, term[i] + 1) /\ UNCHANGED pc
    BY <1>1, <2>1, BecomeLeaderTyped DEF TypeOK
  <2>2. CASE /\ states' = [states EXCEPT ![i] = "Candidate"]
             /\ pc' = IF SlowTicker THEN [pc EXCEPT ![i] = "tally"] ELSE pc
             /\ UNCHANGED <<leaderVars, elected>>
    BY <2>2 DEF TypeOK, State, leaderVars
  <2> QED BY <2>1, <2>2 DEF StartElection
<1>4. /\ term' \in [Server -> Nat]
      /\ vote' \in [Server -> Server \cup {None}]
      /\ votes' \in [Server -> SUBSET Server]
      /\ cast' \subseteq [voter : Server, term : Nat, candidate : Server]
  <2>1. /\ term' = [term EXCEPT ![i] = @ + 1]
        /\ vote' = [vote EXCEPT ![i] = i]
        /\ votes' = [votes EXCEPT ![i] = {i}]
        /\ cast' = cast \cup {[voter |-> i, term |-> term[i] + 1, candidate |-> i]}
    BY DEF StartElection
  <2>2. term' \in [Server -> Nat] /\ vote' \in [Server -> Server \cup {None}]
    BY <1>1, <2>1 DEF TypeOK
  <2>3. votes' \in [Server -> SUBSET Server]
    BY <2>1 DEF TypeOK
  <2>4. cast' \subseteq [voter : Server, term : Nat, candidate : Server]
    BY <1>1, <2>1 DEF TypeOK
  <2> QED BY <2>2, <2>3, <2>4
<1>5. UNCHANGED <<logVars, applyVars, envVars, committed, orderVars>>
  BY DEF StartElection
<1> QED BY <1>2, <1>3, <1>4, <1>5 DEF TypeOK, logVars, applyVars, envVars, orderVars

LEMMA TallyTyped ==
    ASSUME TypeOK, NEW i \in Server, Tally(i)
    PROVE  TypeOK'
<1>1. /\ states' \in [Server -> State]
      /\ nextIndex' \in [Server -> [Server -> Nat]]
      /\ matchIndex' \in [Server -> [Server -> Nat]]
      /\ pending' \in [Server -> SUBSET Server]
      /\ elected' \subseteq [node : Server, term : Nat]
  <2>1. CASE BecomeLeader(i, term[i])
    BY <2>1, BecomeLeaderTyped DEF TypeOK
  <2>2. CASE UNCHANGED <<states, leaderVars, elected>>
    BY <2>2 DEF TypeOK, leaderVars
  <2> QED BY <2>1, <2>2 DEF Tally
<1>2. pc' \in [Server -> {"idle", "tally"}]
  BY DEF Tally, TypeOK
<1>3. UNCHANGED <<term, vote, votes, logVars, applyVars, messages, envVars, cast, committed,
                  orderVars>>
  BY DEF Tally
<1> QED BY <1>1, <1>2, <1>3 DEF TypeOK, logVars, applyVars, envVars, orderVars

LEMMA RequestVoteTyped ==
    ASSUME TypeOK, NEW m \in messages, RequestVote(m)
    PROVE  TypeOK'
<1>1. m.from \in Server /\ m.to \in Server /\ m.term \in Nat /\ term[m.to] \in Nat
  BY MessageFacts DEF TypeOK
<1>2. Maximum(term[m.to], m.term) \in Nat
  BY <1>1 DEF Maximum
<1> DEFINE granted == m.term >= term[m.to] /\ FreeToVote(m.to, m) /\ UpToDate(m.to, m)
           r == [type |-> "VoteReply", from |-> m.to, to |-> m.from,
                 term |-> Maximum(term[m.to], m.term), granted |-> granted,
                 election |-> m.term]
<1>3. messages' \subseteq Message
  <2>1. granted \in BOOLEAN
    OBVIOUS
  <2>2. r \in Message
    <3> HIDE DEF granted
    <3> QED BY <1>1, <1>2, <2>1 DEF Message
  <2>3. Reply(m, r)
    BY DEF RequestVote
  <2> QED BY <2>2, <2>3, ReplyTyped
<1>4. /\ term' \in [Server -> Nat]
      /\ vote' \in [Server -> Server \cup {None}]
      /\ states' \in [Server -> State]
      /\ cast' \subseteq [voter : Server, term : Nat, candidate : Server]
  <2>1. /\ term' = [term EXCEPT ![m.to] = Maximum(@, m.term)]
        /\ \/ states' = [states EXCEPT ![m.to] = "Follower"]
           \/ states' = states
        /\ \/ vote' = [vote EXCEPT ![m.to] = m.from]
           \/ vote' = [vote EXCEPT ![m.to] = None]
           \/ vote' = [vote EXCEPT ![m.to] = @]
        /\ \/ cast' = cast \cup {[voter |-> m.to, term |-> m.term, candidate |-> m.from]}
           \/ cast' = cast
    BY DEF RequestVote
  <2>2. term' \in [Server -> Nat]
    BY <1>2, <2>1 DEF TypeOK
  <2>3. vote' \in [Server -> Server \cup {None}]
    BY <1>1, <2>1 DEF TypeOK
  <2>4. states' \in [Server -> State]
    BY <2>1 DEF TypeOK, State
  <2>5. cast' \subseteq [voter : Server, term : Nat, candidate : Server]
    <3>1. [voter |-> m.to, term |-> m.term, candidate |-> m.from]
             \in [voter : Server, term : Nat, candidate : Server]
      BY <1>1
    <3> QED BY <2>1, <3>1 DEF TypeOK
  <2> QED BY <2>2, <2>3, <2>4, <2>5
<1>5. UNCHANGED <<votes, pc, logVars, applyVars, leaderVars, envVars, elected, committed,
                  orderVars>>
  BY DEF RequestVote
<1> QED BY <1>3, <1>4, <1>5 DEF TypeOK, logVars, applyVars, leaderVars, envVars, orderVars

LEMMA VoteReplyTyped ==
    ASSUME TypeOK, NEW m \in messages, VoteReply(m)
    PROVE  TypeOK'
<1>1. m.from \in Server /\ m.to \in Server /\ m.term \in Nat /\ term[m.to] \in Nat
  BY MessageFacts DEF TypeOK
<1>2. messages' \subseteq Message
  BY DiscardTyped DEF VoteReply
<1>3. /\ term' \in [Server -> Nat]
      /\ vote' \in [Server -> Server \cup {None}]
      /\ votes' \in [Server -> SUBSET Server]
  <2>1. CASE /\ term' = [term EXCEPT ![m.to] = m.term]
             /\ vote' = [vote EXCEPT ![m.to] = None]
             /\ UNCHANGED votes
    BY <1>1, <2>1 DEF TypeOK
  <2>2. CASE /\ votes' = [votes EXCEPT ![m.to] = @ \cup {m.from}]
             /\ UNCHANGED <<term, vote>>
    BY <1>1, <2>2 DEF TypeOK
  <2>3. CASE UNCHANGED <<term, vote, votes>>
    BY <2>3 DEF TypeOK
  <2> QED BY <2>1, <2>2, <2>3 DEF VoteReply
<1>4. /\ states' \in [Server -> State]
      /\ nextIndex' \in [Server -> [Server -> Nat]]
      /\ matchIndex' \in [Server -> [Server -> Nat]]
      /\ pending' \in [Server -> SUBSET Server]
      /\ elected' \subseteq [node : Server, term : Nat]
  <2>1. CASE BecomeLeader(m.to, term[m.to])
    BY <1>1, <2>1, BecomeLeaderTyped
  <2>2. CASE /\ states' = [states EXCEPT ![m.to] = "Follower"]
             /\ UNCHANGED <<leaderVars, elected>>
    BY <2>2 DEF TypeOK, leaderVars, State
  <2>3. CASE UNCHANGED <<states, leaderVars, elected>>
    BY <2>3 DEF TypeOK, leaderVars
  <2> QED BY <2>1, <2>2, <2>3 DEF VoteReply
<1>5. UNCHANGED <<pc, logVars, applyVars, envVars, cast, committed, orderVars>>
  BY DEF VoteReply
<1> QED BY <1>2, <1>3, <1>4, <1>5 DEF TypeOK, logVars, applyVars, envVars, orderVars

-----------------------------------------------------------------------------
(* Types: replication *)

\* A slice of a sequence within its bounds.
LEMMA SliceFacts ==
    ASSUME NEW S, NEW s \in Seq(S), NEW a \in Nat, NEW b \in Int, a >= 1, b <= Len(s)
    PROVE  /\ SubSeq(s, a, b) \in Seq(S)
           /\ Len(SubSeq(s, a, b)) = IF a <= b THEN b - a + 1 ELSE 0
<1>1. \A k \in a .. b : s[k] \in S
  <2> TAKE k \in a .. b
  <2>1. Len(s) \in Nat
    BY LenProperties
  <2>2. k \in 1 .. Len(s)
    BY <2>1
  <2> QED BY <2>2, ElementOfSeq
<1> QED BY <1>1, SubSeqProperties

LEMMA StartTyped ==
    ASSUME TypeOK, NEW i \in Server, NEW v \in Value, Start(i, v)
    PROVE  TypeOK'
<1>1. [term |-> term[i], command |-> v] \in Entry
  BY DEF TypeOK, Entry
<1>2. /\ Append(log[i], [term |-> term[i], command |-> v]) \in Seq(Entry)
      /\ Append(log[i], [term |-> term[i], command |-> v]) # <<>>
  BY <1>1, LogFacts, AppendProperties
<1>3. log' = [log EXCEPT ![i] = Append(log[i], [term |-> term[i], command |-> v])]
  BY DEF Start
<1>4. log' \in [Server -> Seq(Entry)] /\ \A j \in Server : log'[j] # <<>>
  BY <1>2, <1>3 DEF TypeOK
<1>5. UNCHANGED <<electionVars, lastSnapIndex, lastSnapTerm, snap, applyVars,
                  leaderVars, messages, envVars, cast, elected, committed, orderVars>>
  BY DEF Start
<1> QED BY <1>4, <1>5 DEF TypeOK, electionVars, applyVars, leaderVars, envVars, orderVars

\* History of commits over a typed log l that reaches index c.
LEMMA CommitsTyped ==
    ASSUME TypeOK, NEW i \in Server, NEW l \in Seq(Entry), NEW t \in Nat, NEW c \in Int,
           c <= lastSnapIndex[i] + Len(l) - 1
    PROVE  Commits(i, l, c, t) \subseteq [index : Nat, entry : Entry, term : Nat]
<1>1. commitIndex[i] \in Nat /\ lastSnapIndex[i] \in Nat /\ Len(l) \in Nat
  BY LenProperties DEF TypeOK
<1> DEFINE Ks == Maximum(commitIndex[i], lastSnapIndex[i]) + 1 .. c
<1>2. ASSUME NEW k \in Ks
      PROVE  [index |-> k, entry |-> l[k - lastSnapIndex[i] + 1], term |-> t]
                 \in [index : Nat, entry : Entry, term : Nat]
  <2>1. k \in Nat /\ k - lastSnapIndex[i] + 1 \in 1 .. Len(l)
    BY SMTT(30), <1>1 DEF Maximum
  <2>2. l[k - lastSnapIndex[i] + 1] \in Entry
    BY <2>1, ElementOfSeq
  <2> QED BY <2>1, <2>2
<1>3. committed \subseteq [index : Nat, entry : Entry, term : Nat]
  BY DEF TypeOK
<1>4. \A r \in Commits(i, l, c, t) :
         \/ r \in committed
         \/ \E k \in Ks : r = [index |-> k, entry |-> l[k - lastSnapIndex[i] + 1],
                              term |-> t]
  BY DEF Commits
<1> HIDE DEF Ks
<1> QED BY <1>2, <1>3, <1>4

LEMMA AdvanceCommitTyped ==
    ASSUME TypeOK, NEW i \in Server, NEW S, S \subseteq lastSnapIndex[i] + 1 .. LastIndex(i),
           AdvanceCommit(i, S)
    PROVE  /\ commitIndex' \in [Server -> Nat]
           /\ committed' \subseteq [index : Nat, entry : Entry, term : Nat]
<1>1. CASE UNCHANGED <<commitIndex, committed>>
  BY <1>1 DEF TypeOK
<1>2. ASSUME NEW N \in S,
             commitIndex' = [commitIndex EXCEPT ![i] = N],
             committed' = Commits(i, log[i], N, term[i])
      PROVE  /\ commitIndex' \in [Server -> Nat]
             /\ committed' \subseteq [index : Nat, entry : Entry, term : Nat]
  <2>1. N \in Nat /\ N <= lastSnapIndex[i] + Len(log[i]) - 1
    BY LogFacts DEF LastIndex
  <2>2. term[i] \in Nat /\ log[i] \in Seq(Entry)
    BY DEF TypeOK
  <2>3. committed' \subseteq [index : Nat, entry : Entry, term : Nat]
    BY <1>2, <2>1, <2>2, CommitsTyped
  <2> QED BY <1>2, <2>1, <2>3 DEF TypeOK
<1> QED BY <1>1, <1>2 DEF AdvanceCommit

LEMMA BroadcastTyped ==
    ASSUME TypeOK, NEW i \in Server, Broadcast(i)
    PROVE  TypeOK'
<1>1. LastIndex(i) \in Nat
  BY LogFacts
<1>2. /\ nextIndex' \in [Server -> [Server -> Nat]]
      /\ matchIndex' \in [Server -> [Server -> Nat]]
      /\ pending' \in [Server -> SUBSET Server]
      /\ commitIndex' \in [Server -> Nat]
      /\ committed' \subseteq [index : Nat, entry : Entry, term : Nat]
  <2>1. CASE /\ matchIndex' = [matchIndex EXCEPT ![i][i] = LastIndex(i)]
             /\ AdvanceCommit(i, lastSnapIndex[i] + 1 .. LastIndex(i))
             /\ UNCHANGED <<nextIndex, pending>>
    <3>1. /\ commitIndex' \in [Server -> Nat]
          /\ committed' \subseteq [index : Nat, entry : Entry, term : Nat]
      BY <2>1, AdvanceCommitTyped
    <3>2. matchIndex' \in [Server -> [Server -> Nat]]
      BY <1>1, <2>1 DEF TypeOK
    <3> QED BY <2>1, <3>1, <3>2 DEF TypeOK
  <2>2. CASE /\ pending' = [pending EXCEPT ![i] = Server \ {i}]
             /\ UNCHANGED <<nextIndex, matchIndex, commitIndex, committed>>
    BY <2>2 DEF TypeOK
  <2> QED BY <2>1, <2>2 DEF Broadcast
<1>3. UNCHANGED <<electionVars, logVars, lastApply, applied, messages, envVars, cast, elected,
                  orderVars>>
  BY DEF Broadcast
<1> QED BY <1>2, <1>3 DEF TypeOK, electionVars, logVars, envVars, orderVars

LEMMA PanicTyped ==
    ASSUME TypeOK, NEW i \in Server, Panic(i)
    PROVE  down' \subseteq Server /\ restarts' \in Nat /\ snaps' \in Nat
BY DEF TypeOK, Panic

LEMMA SendAppendTyped ==
    ASSUME TypeOK, NEW i \in Server, NEW j \in Server, SendAppend(i, j)
    PROVE  TypeOK'
<1> DEFINE next == nextIndex[i][j]
           prev == next - 1
           install == [type |-> "InstallSnapshot", from |-> i, to |-> j, awaited |-> TRUE,
                       term |-> term[i], lastSnapIndex |-> lastSnapIndex[i],
                       lastSnapTerm |-> lastSnapTerm[i], data |-> snap[i]]
           append == [type |-> "AppendEntries", from |-> i, to |-> j, awaited |-> TRUE,
                      term |-> term[i], prevIndex |-> prev,
                      prevTerm |-> At(i, prev).term,
                      entries |-> SubSeq(log[i], next - lastSnapIndex[i] + 1, Len(log[i])),
                      commit |-> commitIndex[i]]
<1>1. next \in Nat /\ lastSnapIndex[i] \in Nat /\ lastSnapTerm[i] \in Nat
      /\ term[i] \in Nat /\ commitIndex[i] \in Nat
      /\ snap[i] \in Seq([index : Nat, command : Value \cup {None}])
  BY DEF TypeOK
<1>2. /\ messages' \subseteq Message
      /\ down' \subseteq Server /\ restarts' \in Nat /\ snaps' \in Nat
  <2>1. CASE next <= lastSnapIndex[i] /\ Send({install}) /\ UNCHANGED envVars
    <3>1. install \in Message
      BY <1>1 DEF Message
    <3> HIDE DEF install
    <3>2. messages' \subseteq Message
      BY <2>1, <3>1, SendTyped
    <3> QED BY <2>1, <3>2 DEF TypeOK, envVars
  <2>2. CASE /\ next > lastSnapIndex[i] /\ prev <= LastIndex(i)
             /\ Send({append}) /\ UNCHANGED envVars
    <3>1. prev \in Nat /\ At(i, prev).term \in Nat
      BY SMTT(30), <1>1, <2>2, LogFacts
    <3>2. SubSeq(log[i], next - lastSnapIndex[i] + 1, Len(log[i])) \in Seq(Entry)
      <4>1. next - lastSnapIndex[i] + 1 \in Nat /\ next - lastSnapIndex[i] + 1 >= 1
        BY SMTT(30), <1>1, <2>2
      <4> QED BY <4>1, LogFacts, SliceFacts
    <3>3. append \in Message
      BY <1>1, <3>1, <3>2 DEF Message
    <3> HIDE DEF append
    <3>4. messages' \subseteq Message
      BY <2>2, <3>3, SendTyped
    <3> QED BY <2>2, <3>4 DEF TypeOK, envVars
  <2>3. CASE Panic(i) /\ UNCHANGED messages
    BY <2>3, PanicTyped DEF TypeOK
  <2> QED BY <2>1, <2>2, <2>3 DEF SendAppend
<1>3. pending' \in [Server -> SUBSET Server]
  BY DEF TypeOK, SendAppend
<1>4. UNCHANGED <<electionVars, logVars, applyVars, nextIndex, matchIndex,
                  cast, elected, committed, orderVars>>
  BY DEF SendAppend
<1> QED BY <1>2, <1>3, <1>4 DEF TypeOK, electionVars, logVars, applyVars, orderVars

\* The log after AppendEntries is a log again, with its dummy entry.
LEMMA MergedTyped ==
    ASSUME TypeOK, NEW i \in Server, NEW m \in messages, m.type = "AppendEntries",
           m.prevIndex \in lastSnapIndex[i] .. LastIndex(i)
    PROVE  Merged(i, m) \in Seq(Entry) /\ Merged(i, m) # <<>>
<1> DEFINE start == m.prevIndex - lastSnapIndex[i] + 1
           new == m.entries
           firsts == {n \in 1 .. Len(new) : /\ ~Agrees(i, m, n)
                                           /\ \A h \in 1 .. n - 1 : Agrees(i, m, h)}
           joined(k) == SubSeq(log[i], 1, start + k - 1) \o SubSeq(new, k, Len(new))
           overwritten == {joined(k) : k \in firsts}
           merged == IF overwritten = {} THEN log[i] ELSE CHOOSE l \in overwritten : TRUE
           newLen == End(m) + 1
<1>1. /\ log[i] \in Seq(Entry) /\ Len(log[i]) \in Nat /\ Len(log[i]) >= 1
      /\ new \in Seq(Entry) /\ Len(new) \in Nat /\ m.prevIndex \in Nat
      /\ lastSnapIndex[i] \in Nat
  BY LogFacts, MessageFacts, LenProperties
<1>2. start \in Nat /\ start >= 1 /\ start <= Len(log[i])
  BY <1>1 DEF LastIndex
<1>3. ASSUME NEW k \in firsts
      PROVE  joined(k) \in Seq(Entry) /\ Len(joined(k)) \in Nat /\ Len(joined(k)) >= 1
  <2>1. k \in Nat /\ k >= 1 /\ k <= Len(new)
    BY <1>1
  <2>2. start + k - 1 <= Len(log[i])
    <3>1. CASE k = 1
      BY <1>1, <1>2, <3>1
    <3>2. CASE k > 1
      <4>1. Agrees(i, m, k - 1)
        BY <2>1, <3>2
      <4> QED BY <4>1, <1>1, <1>2, <2>1 DEF Agrees
    <3> QED BY <2>1, <3>1, <3>2
  <2>3. /\ SubSeq(log[i], 1, start + k - 1) \in Seq(Entry)
        /\ Len(SubSeq(log[i], 1, start + k - 1)) = start + k - 1
    BY SMTT(30), <1>1, <1>2, <2>1, <2>2, SliceFacts
  <2>4. /\ SubSeq(new, k, Len(new)) \in Seq(Entry)
        /\ Len(SubSeq(new, k, Len(new))) = Len(new) - k + 1
    BY <1>1, <2>1, SliceFacts
  <2> HIDE DEF start, new
  <2> QED BY SMTT(30), <1>1, <1>2, <2>1, <2>3, <2>4, ConcatProperties
<1>4. merged \in Seq(Entry) /\ Len(merged) \in Nat /\ Len(merged) >= 1
  <2>1. CASE overwritten = {}
    BY <1>1, <2>1
  <2>2. CASE overwritten # {}
    <3>1. (CHOOSE l \in overwritten : TRUE) \in overwritten
      BY <2>2
    <3>2. PICK k \in firsts : (CHOOSE l \in overwritten : TRUE) = joined(k)
      BY <3>1
    <3> HIDE DEF overwritten, joined, firsts
    <3> QED BY <1>3, <2>2, <3>2
  <2> QED BY <2>1, <2>2
<1>5. newLen \in Nat /\ newLen >= 1
  BY <1>1 DEF End
<1>6. newLen < Len(merged) =>
         SubSeq(merged, 1, newLen) \in Seq(Entry) /\ Len(SubSeq(merged, 1, newLen)) >= 1
  <2> HIDE DEF merged, newLen
  <2> QED BY <1>4, <1>5, SliceFacts
<1>7. Merged(i, m) = IF new # <<>> /\ newLen < Len(merged)
                     THEN SubSeq(merged, 1, newLen) ELSE merged
  BY DEF Merged, Cuts
<1>8. Len(<<>>) = 0
  BY EmptySeq
<1> HIDE DEF merged, newLen, new
<1> QED BY <1>4, <1>6, <1>7, <1>8

LEMMA AnswerTyped ==
    ASSUME TypeOK, NEW m \in messages, m.type = "AppendEntries",
           NEW t \in Nat, NEW success \in BOOLEAN, NEW conflict \in Nat,
           AnswerAppend(m, t, success, conflict)
    PROVE  messages' \subseteq Message
<1> DEFINE r == [type |-> "AppendReply", from |-> m.to, to |-> m.from, term |-> t,
                 success |-> success, conflict |-> conflict,
                 callTerm |-> m.term, prevIndex |-> m.prevIndex, len |-> Len(m.entries)]
<1>1. r \in Message
  <2>1. /\ m.from \in Server /\ m.to \in Server /\ m.term \in Nat /\ m.prevIndex \in Nat
        /\ Len(m.entries) \in Nat
    BY MessageFacts, LenProperties
  <2> QED BY <2>1 DEF Message
<1>2. Reply(m, r)
  BY DEF AnswerAppend
<1> HIDE DEF r
<1> QED BY <1>1, <1>2, ReplyTyped

LEMMA RefusalTyped ==
    ASSUME TypeOK, NEW m \in messages, m.type = "AppendEntries",
           NEW t \in Nat, NEW c \in Nat, AnswerAppend(m, t, FALSE, c),
           UNCHANGED <<log, commitIndex, committed, envVars>>
    PROVE  /\ messages' \subseteq Message
           /\ log' \in [Server -> Seq(Entry)] /\ \A j \in Server : log'[j] # <<>>
           /\ commitIndex' \in [Server -> Nat]
           /\ committed' \subseteq [index : Nat, entry : Entry, term : Nat]
           /\ down' \subseteq Server /\ restarts' \in Nat /\ snaps' \in Nat
<1>1. messages' \subseteq Message
  BY AnswerTyped
<1> QED BY <1>1 DEF TypeOK, envVars

LEMMA FollowTyped ==
    ASSUME TypeOK, NEW m \in messages, m.type = "AppendEntries", NEW i \in Server,
           i = m.to, Follow(i, m, m.term)
    PROVE  /\ messages' \subseteq Message
           /\ log' \in [Server -> Seq(Entry)] /\ \A j \in Server : log'[j] # <<>>
           /\ commitIndex' \in [Server -> Nat]
           /\ committed' \subseteq [index : Nat, entry : Entry, term : Nat]
           /\ down' \subseteq Server /\ restarts' \in Nat /\ snaps' \in Nat
<1> DEFINE prev == m.prevIndex
           commit == IF m.commit > commitIndex[i]
                     THEN Minimum(m.commit, LastIndex(i))
                     ELSE commitIndex[i]
           new == Merged(i, m)
<1>1. /\ prev \in Nat /\ m.term \in Nat /\ m.commit \in Nat
      /\ lastSnapIndex[i] \in Nat /\ LastIndex(i) \in Nat
  BY LogFacts, MessageFacts
<1>2. commitIndex[i] \in Nat
  BY DEF TypeOK
<1>3. lastSnapIndex[i] + 1 \in Nat
  BY <1>1
<1>4. CASE /\ AnswerAppend(m, m.term, FALSE, ShortConflict(i))
           /\ UNCHANGED <<log, commitIndex, committed, envVars>>
  <2>1. ShortConflict(i) \in Nat
    BY <1>1 DEF ShortConflict
  <2> QED BY <1>1, <1>4, <2>1, RefusalTyped
<1>5. CASE /\ AnswerAppend(m, m.term, FALSE, lastSnapIndex[i] + 1)
           /\ UNCHANGED <<log, commitIndex, committed, envVars>>
  BY <1>1, <1>3, <1>5, RefusalTyped
<1>6. ASSUME NEW n \in SameTerm(i, prev), AnswerAppend(m, m.term, FALSE, n),
             UNCHANGED <<log, commitIndex, committed, envVars>>
      PROVE  /\ messages' \subseteq Message
             /\ log' \in [Server -> Seq(Entry)] /\ \A j \in Server : log'[j] # <<>>
             /\ commitIndex' \in [Server -> Nat]
             /\ committed' \subseteq [index : Nat, entry : Entry, term : Nat]
             /\ down' \subseteq Server /\ restarts' \in Nat /\ snaps' \in Nat
  <2>1. n \in Nat
    BY <1>1 DEF SameTerm
  <2> QED BY <1>1, <1>6, <2>1, RefusalTyped
<1>7. CASE /\ AnswerAppend(m, m.term, FALSE, 0)
           /\ UNCHANGED <<log, commitIndex, committed, envVars>>
  BY <1>1, <1>7, RefusalTyped
<1>8. CASE Discard(m) /\ Panic(i) /\ UNCHANGED <<log, commitIndex, committed>>
  BY <1>8, DiscardTyped, PanicTyped DEF TypeOK
<1>9. CASE /\ prev \in lastSnapIndex[i] .. LastIndex(i)
           /\ log' = [log EXCEPT ![i] = new]
           /\ commitIndex' = [commitIndex EXCEPT ![i] = commit]
           /\ committed' = Commits(i, new, Minimum(commit,
                                     lastSnapIndex[i] + Len(new) - 1), m.term)
           /\ AnswerAppend(m, m.term, TRUE, 0)
           /\ UNCHANGED envVars
  <2>1. new \in Seq(Entry) /\ new # <<>>
    BY <1>9, MergedTyped
  <2>2. log' \in [Server -> Seq(Entry)] /\ \A j \in Server : log'[j] # <<>>
    <3> HIDE DEF new
    <3> QED BY <1>9, <2>1 DEF TypeOK
  <2>3. commit \in Nat
    BY <1>1, <1>2 DEF Maximum, Minimum
  <2>4. commitIndex' \in [Server -> Nat]
    BY <1>9, <2>3 DEF TypeOK
  <2>5. committed' \subseteq [index : Nat, entry : Entry, term : Nat]
    <3> DEFINE c == Minimum(commit, lastSnapIndex[i] + Len(new) - 1)
    <3>1. Len(new) \in Nat
      BY <2>1, LenProperties
    <3>2. c \in Int /\ c <= lastSnapIndex[i] + Len(new) - 1
      BY <1>1, <2>3, <3>1 DEF Minimum
    <3> HIDE DEF new, commit, c
    <3> QED BY <1>1, <1>9, <2>1, <3>2, CommitsTyped DEF c
  <2>6. messages' \subseteq Message
    BY <1>1, <1>9, AnswerTyped
  <2> QED BY <1>9, <2>2, <2>4, <2>5, <2>6 DEF TypeOK, envVars
<1>10. \/ /\ AnswerAppend(m, m.term, FALSE, ShortConflict(i))
          /\ UNCHANGED <<log, commitIndex, committed, envVars>>
       \/ /\ AnswerAppend(m, m.term, FALSE, lastSnapIndex[i] + 1)
          /\ UNCHANGED <<log, commitIndex, committed, envVars>>
       \/ /\ \E n \in SameTerm(i, prev) : AnswerAppend(m, m.term, FALSE, n)
          /\ UNCHANGED <<log, commitIndex, committed, envVars>>
       \/ /\ AnswerAppend(m, m.term, FALSE, 0)
          /\ UNCHANGED <<log, commitIndex, committed, envVars>>
       \/ Discard(m) /\ Panic(i) /\ UNCHANGED <<log, commitIndex, committed>>
       \/ /\ prev \in lastSnapIndex[i] .. LastIndex(i)
          /\ log' = [log EXCEPT ![i] = new]
          /\ commitIndex' = [commitIndex EXCEPT ![i] = commit]
          /\ committed' = Commits(i, new, Minimum(commit,
                                    lastSnapIndex[i] + Len(new) - 1), m.term)
          /\ AnswerAppend(m, m.term, TRUE, 0)
          /\ UNCHANGED envVars
  <2> HIDE <1>1, <1>2, <1>3
  <2> QED BY Zenon DEF Follow
<1> HIDE DEF prev, new, commit
<1> QED BY <1>4, <1>5, <1>6, <1>7, <1>8, <1>9, <1>10

\* A call that is not accepted overtakes none.
LEMMA CallsInOrder ==
    ASSUME NEW m, AppendEntries(m)
    PROVE  Overtakes(m) \/ UNCHANGED orderVars
<1>1. CASE Follow(m.to, m, m.term)
  BY <1>1, Zenon DEF Follow
<1>2. CASE UNCHANGED orderVars
  BY <1>2
<1> QED BY <1>1, <1>2 DEF AppendEntries

LEMMA AppendEntriesTyped ==
    ASSUME TypeOK, NEW m \in messages, AppendEntries(m)
    PROVE  TypeOK'
<1> DEFINE i == m.to
<1>1. m.to \in Server /\ m.term \in Nat /\ m.type = "AppendEntries" /\ term[i] \in Nat
  BY MessageFacts DEF AppendEntries, TypeOK
<1>2. /\ messages' \subseteq Message
      /\ log' \in [Server -> Seq(Entry)] /\ \A j \in Server : log'[j] # <<>>
      /\ commitIndex' \in [Server -> Nat]
      /\ committed' \subseteq [index : Nat, entry : Entry, term : Nat]
      /\ down' \subseteq Server /\ restarts' \in Nat /\ snaps' \in Nat
  <2>1. CASE /\ AnswerAppend(m, term[i], FALSE, Len(log[i]))
             /\ UNCHANGED <<term, vote, states, log, commitIndex, committed, envVars>>
    <3>1. messages' \subseteq Message
      BY <1>1, <2>1, LogFacts, AnswerTyped
    <3> QED BY <2>1, <3>1 DEF TypeOK, envVars
  <2>2. CASE Follow(i, m, m.term)
    BY <1>1, <2>2, FollowTyped
  <2> QED BY <2>1, <2>2 DEF AppendEntries
<1>3. /\ term' \in [Server -> Nat]
      /\ vote' \in [Server -> Server \cup {None}]
      /\ states' \in [Server -> State]
  <2>1. CASE UNCHANGED <<term, vote, states>>
    BY <2>1 DEF TypeOK
  <2>2. CASE /\ term' = [term EXCEPT ![i] = m.term]
             /\ vote' = IF m.term > term[i] THEN [vote EXCEPT ![i] = None] ELSE vote
             /\ states' = [states EXCEPT ![i] = "Follower"]
    BY <1>1, <2>2 DEF TypeOK, State
  <2> QED BY <2>1, <2>2 DEF AppendEntries
<1>4. UNCHANGED <<votes, pc, lastSnapIndex, lastSnapTerm, snap, lastApply,
                  applied, leaderVars, cast, elected>>
  BY DEF AppendEntries
<1>5. overtaken' \subseteq Message /\ late' \subseteq Message
  <2>1. CASE Overtakes(m)
    BY <2>1 DEF TypeOK, Overtakes
  <2>2. CASE UNCHANGED orderVars
    BY <2>2 DEF TypeOK, orderVars
  <2> QED BY <2>1, <2>2, CallsInOrder
<1> QED BY <1>2, <1>3, <1>4, <1>5 DEF TypeOK, leaderVars

\* The goroutine that goes on with the answer to its AppendEntries.
LEMMA AppendReplyTyped ==
    ASSUME TypeOK, NEW m \in messages, AppendReply(m)
    PROVE  TypeOK'
<1> DEFINE i == m.to
           j == m.from
           last == Acknowledged(m)
           matched == IF m.len > 0 THEN [matchIndex[i] EXCEPT ![j] = last] ELSE matchIndex[i]
           replicated == {N \in lastSnapIndex[i] + 1 .. LastIndex(i) :
                             IsMajority({i} \cup {k \in Server : matched[k] >= N})}
<1>1. /\ i \in Server /\ j \in Server /\ m.term \in Nat
      /\ m.conflict \in Nat /\ m.prevIndex \in Nat /\ m.len \in Nat
  BY MessageFacts DEF AppendReply
<1>2. LastIndex(i) \in Nat
  BY <1>1, LogFacts
<1>3. messages' \subseteq Message
  BY DiscardTyped DEF AppendReply
<1>4. /\ term' \in [Server -> Nat]
      /\ vote' \in [Server -> Server \cup {None}]
      /\ states' \in [Server -> State]
  <2>1. CASE UNCHANGED <<term, vote, states>>
    BY <2>1 DEF TypeOK
  <2>2. CASE /\ term' = [term EXCEPT ![i] = m.term]
             /\ vote' = [vote EXCEPT ![i] = None]
             /\ states' = [states EXCEPT ![i] = "Follower"]
    BY <1>1, <2>2 DEF TypeOK, State
  <2> QED BY <2>1, <2>2 DEF AppendReply
<1>5. /\ nextIndex' \in [Server -> [Server -> Nat]]
      /\ matchIndex' \in [Server -> [Server -> Nat]]
      /\ commitIndex' \in [Server -> Nat]
      /\ committed' \subseteq [index : Nat, entry : Entry, term : Nat]
  <2>1. CASE UNCHANGED <<nextIndex, matchIndex, commitIndex, committed>>
    BY <2>1 DEF TypeOK
  <2>2. CASE /\ nextIndex' = [nextIndex EXCEPT ![i][j] = last + 1]
             /\ matchIndex' = [matchIndex EXCEPT ![i] = matched]
             /\ AdvanceCommit(i, replicated)
    <3>1. /\ commitIndex' \in [Server -> Nat]
          /\ committed' \subseteq [index : Nat, entry : Entry, term : Nat]
      <4>1. replicated \subseteq lastSnapIndex[i] + 1 .. LastIndex(i)
        OBVIOUS
      <4> HIDE DEF replicated
      <4> QED BY <1>1, <2>2, <4>1, AdvanceCommitTyped
    <3>2. last \in Nat /\ last + 1 \in Nat
      BY <1>1 DEF Acknowledged
    <3>3. matched \in [Server -> Nat]
      BY <1>1, <3>2 DEF TypeOK
    <3> HIDE DEF last, matched, replicated
    <3>4. nextIndex' \in [Server -> [Server -> Nat]]
      BY <1>1, <2>2, <3>2 DEF TypeOK
    <3>5. matchIndex' \in [Server -> [Server -> Nat]]
      BY <1>1, <2>2, <3>3 DEF TypeOK
    <3> QED BY <3>1, <3>4, <3>5
  <2>3. CASE /\ nextIndex' = [nextIndex EXCEPT ![i][j] =
                                 Minimum(m.conflict, LastIndex(i) + 1)]
             /\ UNCHANGED <<matchIndex, commitIndex, committed>>
    <3>1. Minimum(m.conflict, LastIndex(i) + 1) \in Nat
      BY <1>1, <1>2 DEF Minimum
    <3> QED BY <1>1, <2>3, <3>1 DEF TypeOK
  <2> QED BY <2>1, <2>2, <2>3 DEF AppendReply
<1>6. UNCHANGED <<votes, pc, logVars, lastApply, applied, pending, envVars,
                  cast, elected, orderVars>>
  BY DEF AppendReply
<1> QED BY <1>3, <1>4, <1>5, <1>6 DEF TypeOK, logVars, envVars, orderVars

-----------------------------------------------------------------------------
(* Types: snapshots, the apply loop, restart *)

LEMMA DummyTyped ==
    ASSUME NEW t \in Nat
    PROVE  <<Dummy(t)>> \in Seq(Entry) /\ <<Dummy(t)>> # <<>>
<1>1. Dummy(t) \in Entry
  BY DEF Dummy, Entry
<1> QED BY <1>1

LEMMA SnapshotTyped ==
    ASSUME TypeOK, NEW i \in Server, Snapshot(i)
    PROVE  TypeOK'
<1>1. LastIndex(i) \in Nat /\ LastTerm(i) \in Nat
  BY LogFacts
<1>2. /\ snaps' = snaps + 1
      /\ log' = [log EXCEPT ![i] = <<Dummy(LastTerm(i))>>]
      /\ lastSnapIndex' = [lastSnapIndex EXCEPT ![i] = LastIndex(i)]
      /\ lastSnapTerm' = [lastSnapTerm EXCEPT ![i] = LastTerm(i)]
      /\ snap' = [snap EXCEPT ![i] = applied[i]]
  BY DEF Snapshot
<1>3. log' \in [Server -> Seq(Entry)] /\ \A j \in Server : log'[j] # <<>>
  <2>1. <<Dummy(LastTerm(i))>> \in Seq(Entry) /\ <<Dummy(LastTerm(i))>> # <<>>
    BY <1>1, DummyTyped
  <2> QED BY <1>2, <2>1 DEF TypeOK
<1>4. lastSnapIndex' \in [Server -> Nat] /\ lastSnapTerm' \in [Server -> Nat]
  BY <1>1, <1>2 DEF TypeOK
<1>5. snap' \in [Server -> Seq([index : Nat, command : Value \cup {None}])]
  BY <1>2 DEF TypeOK
<1>6. snaps' \in Nat
  BY <1>2 DEF TypeOK
<1>7. UNCHANGED <<electionVars, applyVars, leaderVars, messages, down, restarts,
                  cast, elected, committed, orderVars>>
  BY DEF Snapshot
<1> QED BY <1>3, <1>4, <1>5, <1>6, <1>7
    DEF TypeOK, electionVars, applyVars, leaderVars, orderVars

\* InstallSnapshot keeps a log with its dummy entry.
LEMMA KeptTyped ==
    ASSUME TypeOK, NEW m \in messages, m.type = "InstallSnapshot", NEW i \in Server,
           m.lastSnapIndex > lastSnapIndex[i]
    PROVE  Kept(i, m) \in Seq(Entry) /\ Kept(i, m) # <<>>
<1>1. m.lastSnapIndex \in Nat /\ m.lastSnapTerm \in Nat
  BY MessageFacts
<1>2. log[i] \in Seq(Entry) /\ Len(log[i]) \in Nat /\ lastSnapIndex[i] \in Nat
  BY LogFacts
<1>3. CASE m.lastSnapIndex < LastIndex(i)
  <2> DEFINE a == m.lastSnapIndex - lastSnapIndex[i] + 1
             kept == SubSeq(log[i], a, Len(log[i]))
  <2>1. a \in Nat /\ a >= 1 /\ a <= Len(log[i])
    BY <1>1, <1>2, <1>3 DEF LastIndex
  <2>2. Kept(i, m) = kept
    BY <1>3 DEF Kept
  <2> HIDE DEF a
  <2>3. kept \in Seq(Entry) /\ Len(kept) = Len(log[i]) - a + 1
    BY <1>2, <2>1, SliceFacts
  <2>4. Len(kept) # 0
    BY <1>2, <2>1, <2>3
  <2> HIDE DEF kept
  <2>5. kept # <<>>
    BY <2>4
  <2> QED BY <2>2, <2>3, <2>5
<1>4. CASE ~(m.lastSnapIndex < LastIndex(i))
  BY <1>1, <1>4, DummyTyped DEF Kept
<1> QED BY <1>3, <1>4

LEMMA InstallSnapshotTyped ==
    ASSUME TypeOK, NEW m \in messages, InstallSnapshot(m)
    PROVE  TypeOK'
<1> DEFINE i == m.to
           answer(t) == [type |-> "InstallReply", from |-> m.to, to |-> m.from, term |-> t]
<1>1. /\ m.type = "InstallSnapshot"
      /\ i \in Server /\ m.from \in Server /\ m.term \in Nat
      /\ m.lastSnapIndex \in Nat /\ m.lastSnapTerm \in Nat
      /\ m.data \in Seq([index : Nat, command : Value \cup {None}])
  BY MessageFacts DEF InstallSnapshot
<1>2. term[i] \in Nat /\ commitIndex[i] \in Nat /\ lastApply[i] \in Nat
      /\ lastSnapIndex[i] \in Nat
  BY <1>1 DEF TypeOK
<1>3. messages' \subseteq Message
  <2>1. \A t \in Nat : answer(t) \in Message
    BY <1>1 DEF Message
  <2>2. \E t \in Nat : Reply(m, answer(t))
    BY <1>2 DEF InstallSnapshot
  <2> HIDE DEF answer
  <2> QED BY <2>1, <2>2, ReplyTyped
<1>4. /\ term' \in [Server -> Nat]
      /\ states' \in [Server -> State]
  <2>1. CASE UNCHANGED <<term, states>>
    BY <2>1 DEF TypeOK
  <2>2. CASE /\ term' = [term EXCEPT ![i] = m.term]
             /\ states' = [states EXCEPT ![i] = "Follower"]
    BY <1>1, <2>2 DEF TypeOK, State
  <2> QED BY <2>1, <2>2 DEF InstallSnapshot
<1>5. /\ log' \in [Server -> Seq(Entry)] /\ \A k \in Server : log'[k] # <<>>
      /\ lastSnapIndex' \in [Server -> Nat]
      /\ lastSnapTerm' \in [Server -> Nat]
      /\ snap' \in [Server -> Seq([index : Nat, command : Value \cup {None}])]
      /\ commitIndex' \in [Server -> Nat]
      /\ lastApply' \in [Server -> Nat]
  <2>1. CASE UNCHANGED <<logVars, commitIndex, lastApply>>
    BY <2>1 DEF TypeOK, logVars
  <2>2. CASE /\ ~(m.lastSnapIndex <= lastSnapIndex[i])
             /\ log' = [log EXCEPT ![i] = Kept(i, m)]
             /\ lastSnapIndex' = [lastSnapIndex EXCEPT ![i] = m.lastSnapIndex]
             /\ lastSnapTerm' = [lastSnapTerm EXCEPT ![i] = m.lastSnapTerm]
             /\ snap' = [snap EXCEPT ![i] = m.data]
             /\ commitIndex' = [commitIndex EXCEPT ![i] = Maximum(@, m.lastSnapIndex)]
             /\ lastApply' = [lastApply EXCEPT ![i] = Maximum(@, m.lastSnapIndex)]
    <3>1. Kept(i, m) \in Seq(Entry) /\ Kept(i, m) # <<>>
      <4>1. m.lastSnapIndex > lastSnapIndex[i]
        BY <1>1, <1>2, <2>2
      <4> QED BY <1>1, <4>1, KeptTyped
    <3>2. log' \in [Server -> Seq(Entry)] /\ \A k \in Server : log'[k] # <<>>
      BY <2>2, <3>1 DEF TypeOK
    <3>3. lastSnapIndex' \in [Server -> Nat] /\ lastSnapTerm' \in [Server -> Nat]
      BY <1>1, <2>2 DEF TypeOK
    <3>4. snap' \in [Server -> Seq([index : Nat, command : Value \cup {None}])]
      BY <1>1, <2>2 DEF TypeOK
    <3>5. /\ Maximum(commitIndex[i], m.lastSnapIndex) \in Nat
          /\ Maximum(lastApply[i], m.lastSnapIndex) \in Nat
      BY <1>1, <1>2 DEF Maximum
    <3>6. commitIndex' \in [Server -> Nat] /\ lastApply' \in [Server -> Nat]
      BY <2>2, <3>5 DEF TypeOK
    <3> QED BY <3>2, <3>3, <3>4, <3>6
  <2> QED BY <2>1, <2>2 DEF InstallSnapshot
<1>6. UNCHANGED <<vote, votes, pc, applied, leaderVars, envVars, cast, elected, committed,
                  orderVars>>
  BY DEF InstallSnapshot
<1> QED BY <1>3, <1>4, <1>5, <1>6 DEF TypeOK, leaderVars, envVars, orderVars

LEMMA InstallReplyTyped ==
    ASSUME TypeOK, NEW m \in messages, InstallReply(m)
    PROVE  TypeOK'
<1> DEFINE i == m.to
<1>1. i \in Server /\ m.from \in Server /\ m.term \in Nat
  BY MessageFacts
<1>2. lastSnapIndex[i] \in Nat /\ lastSnapIndex[i] + 1 \in Nat
  BY <1>1, LogFacts
<1>3. messages' \subseteq Message
  BY DiscardTyped DEF InstallReply
<1>4. /\ term' \in [Server -> Nat]
      /\ states' \in [Server -> State]
  <2>1. CASE UNCHANGED <<term, states>>
    BY <2>1 DEF TypeOK
  <2>2. CASE /\ term' = [term EXCEPT ![i] = m.term]
             /\ states' = [states EXCEPT ![i] = "Follower"]
    BY <1>1, <2>2 DEF TypeOK, State
  <2> QED BY <2>1, <2>2 DEF InstallReply
<1>5. /\ nextIndex' \in [Server -> [Server -> Nat]]
      /\ matchIndex' \in [Server -> [Server -> Nat]]
  <2>1. CASE UNCHANGED <<nextIndex, matchIndex>>
    BY <2>1 DEF TypeOK
  <2>2. CASE /\ nextIndex' = [nextIndex EXCEPT ![i][m.from] = lastSnapIndex[i] + 1]
             /\ matchIndex' = [matchIndex EXCEPT ![i][m.from] = lastSnapIndex[i]]
    BY <1>1, <1>2, <2>2 DEF TypeOK
  <2> QED BY <2>1, <2>2 DEF InstallReply
<1>6. UNCHANGED <<vote, votes, pc, logVars, applyVars, pending, envVars, cast,
                  elected, committed, orderVars>>
  BY DEF InstallReply
<1> QED BY <1>3, <1>4, <1>5, <1>6 DEF TypeOK, logVars, applyVars, envVars, orderVars

LEMMA ApplyTyped ==
    ASSUME TypeOK, NEW i \in Server, Apply(i)
    PROVE  TypeOK'
<1> DEFINE k == lastApply[i] + 1
           record == [index |-> k, command |-> At(i, k).command]
<1>1. k \in Nat
  BY DEF TypeOK
<1>2. lastApply' \in [Server -> Nat]
  <2>1. lastApply' = [lastApply EXCEPT ![i] = k]
    BY DEF Apply
  <2> QED BY <1>1, <2>1 DEF TypeOK
<1>3. applied' \in [Server -> Seq([index : Nat, command : Value \cup {None}])]
  <2>1. CASE InLog(i, k) /\ applied' = [applied EXCEPT ![i] = Append(@, record)]
    <3>1. At(i, k) \in Entry
      BY <2>1, LogFacts DEF InLog
    <3>2. At(i, k).command \in Value \cup {None}
      BY <3>1 DEF Entry
    <3>3. record \in [index : Nat, command : Value \cup {None}]
      BY <1>1, <3>2
    <3> HIDE DEF record
    <3> QED BY <2>1, <3>3, AppendProperties DEF TypeOK
  <2>2. CASE applied' = applied
    BY <2>2 DEF TypeOK
  <2> QED BY <2>1, <2>2 DEF Apply
<1>4. UNCHANGED <<electionVars, logVars, commitIndex, leaderVars, messages,
                  envVars, cast, elected, committed, orderVars>>
  BY DEF Apply
<1> QED BY <1>2, <1>3, <1>4 DEF TypeOK, electionVars, logVars, leaderVars, envVars, orderVars

\* A restart leaves typed messages, whether or not someone waits for their answers.
LEMMA WithoutCallerTyped ==
    ASSUME TypeOK, NEW i \in Server
    PROVE  WithoutCaller(i) \subseteq Message
<1>1. ASSUME NEW m \in messages, m.type \notin {"VoteReply", "AppendReply", "InstallReply"}
      PROVE  [m EXCEPT !.awaited = FALSE] \in Message
  <2>1. m \in Message
    BY DEF TypeOK
  <2> QED BY <1>1, <2>1 DEF Message
<1>2. messages \subseteq Message
  BY DEF TypeOK
<1> QED BY <1>1, <1>2 DEF WithoutCaller

LEMMA RestartTyped ==
    ASSUME TypeOK, NEW i \in Server, Restart(i)
    PROVE  TypeOK'
<1>1. /\ term' \in [Server -> Nat]
      /\ vote' \in [Server -> Server \cup {None}]
      /\ states' \in [Server -> State]
      /\ votes' \in [Server -> SUBSET Server]
      /\ pc' \in [Server -> {"idle", "tally"}]
  BY DEF TypeOK, Restart, State
<1>2. log' \in [Server -> Seq(Entry)] /\ \A j \in Server : log'[j] # <<>>
  <2>1. log' = [log EXCEPT ![i] = <<Dummy(0)>>]
    BY DEF Restart
  <2>2. <<Dummy(0)>> \in Seq(Entry) /\ <<Dummy(0)>> # <<>>
    BY DummyTyped
  <2> QED BY <2>1, <2>2 DEF TypeOK
<1>3. /\ lastSnapIndex' \in [Server -> Nat]
      /\ lastSnapTerm' \in [Server -> Nat]
      /\ commitIndex' \in [Server -> Nat]
      /\ lastApply' \in [Server -> Nat]
  BY DEF TypeOK, Restart
<1>4. /\ snap' \in [Server -> Seq([index : Nat, command : Value \cup {None}])]
      /\ applied' \in [Server -> Seq([index : Nat, command : Value \cup {None}])]
  <2>1. <<>> \in Seq([index : Nat, command : Value \cup {None}])
    OBVIOUS
  <2>2. snap' = [snap EXCEPT ![i] = <<>>] /\ applied' = [applied EXCEPT ![i] = <<>>]
    BY DEF Restart
  <2> QED BY <2>1, <2>2 DEF TypeOK
<1>5. /\ nextIndex' \in [Server -> [Server -> Nat]]
      /\ matchIndex' \in [Server -> [Server -> Nat]]
      /\ pending' \in [Server -> SUBSET Server]
  BY DEF TypeOK, Restart
<1>6. messages' \subseteq Message
  BY WithoutCallerTyped DEF Restart
<1>7. down' \subseteq Server /\ restarts' \in Nat
  BY DEF TypeOK, Restart
<1>8. UNCHANGED <<snaps, cast, elected, committed, orderVars>>
  BY DEF Restart
<1> QED BY <1>1, <1>2, <1>3, <1>4, <1>5, <1>6, <1>7, <1>8 DEF TypeOK, orderVars

-----------------------------------------------------------------------------
(* Types: the theorem *)

LEMMA InitTyped == Init => TypeOK
<1> SUFFICES ASSUME Init PROVE TypeOK
  OBVIOUS
<1>1. log \in [Server -> Seq(Entry)] /\ \A i \in Server : log[i] # <<>>
  <2>1. log = [i \in Server |-> <<Dummy(0)>>]
    BY DEF Init
  <2>2. <<Dummy(0)>> \in Seq(Entry) /\ <<Dummy(0)>> # <<>>
    BY DummyTyped
  <2> QED BY <2>1, <2>2
<1>2. /\ snap \in [Server -> Seq([index : Nat, command : Value \cup {None}])]
      /\ applied \in [Server -> Seq([index : Nat, command : Value \cup {None}])]
  BY DEF Init
<1>3. /\ term \in [Server -> Nat]
      /\ vote \in [Server -> Server \cup {None}]
      /\ states \in [Server -> State]
      /\ votes \in [Server -> SUBSET Server]
      /\ pc \in [Server -> {"idle", "tally"}]
      /\ lastSnapIndex \in [Server -> Nat]
      /\ lastSnapTerm \in [Server -> Nat]
      /\ commitIndex \in [Server -> Nat]
      /\ lastApply \in [Server -> Nat]
      /\ nextIndex \in [Server -> [Server -> Nat]]
      /\ matchIndex \in [Server -> [Server -> Nat]]
      /\ pending \in [Server -> SUBSET Server]
  BY DEF Init, State
<1>4. /\ messages \subseteq Message
      /\ down \subseteq Server /\ restarts \in Nat /\ snaps \in Nat
      /\ cast \subseteq [voter : Server, term : Nat, candidate : Server]
      /\ elected \subseteq [node : Server, term : Nat]
      /\ committed \subseteq [index : Nat, entry : Entry, term : Nat]
      /\ overtaken \subseteq Message /\ late \subseteq Message
  BY DEF Init
<1> QED BY <1>1, <1>2, <1>3, <1>4 DEF TypeOK

LEMMA NextTyped == TypeOK /\ [Next]_vars => TypeOK'
<1> SUFFICES ASSUME TypeOK, [Next]_vars PROVE TypeOK'
  OBVIOUS
<1>1. ASSUME NEW i \in Server, StartElection(i) PROVE TypeOK'
  BY <1>1, StartElectionTyped
<1>2. ASSUME NEW i \in Server, Tally(i) PROVE TypeOK'
  BY <1>2, TallyTyped
<1>3. ASSUME NEW i \in Server, Broadcast(i) PROVE TypeOK'
  BY <1>3, BroadcastTyped
<1>4. ASSUME NEW i \in Server, Snapshot(i) PROVE TypeOK'
  BY <1>4, SnapshotTyped
<1>5. ASSUME NEW i \in Server, Apply(i) PROVE TypeOK'
  BY <1>5, ApplyTyped
<1>6. ASSUME NEW i \in Server, Restart(i) PROVE TypeOK'
  BY <1>6, RestartTyped
<1>7. ASSUME NEW i \in Server, NEW v \in Value, Start(i, v) PROVE TypeOK'
  BY <1>7, StartTyped
<1>8. ASSUME NEW i \in Server, NEW j \in Server, SendAppend(i, j) PROVE TypeOK'
  BY <1>8, SendAppendTyped
<1>9. ASSUME NEW m \in messages, RequestVote(m) PROVE TypeOK'
  BY <1>9, RequestVoteTyped
<1>10. ASSUME NEW m \in messages, VoteReply(m) PROVE TypeOK'
  BY <1>10, VoteReplyTyped
<1>11. ASSUME NEW m \in messages, AppendEntries(m) PROVE TypeOK'
  BY <1>11, AppendEntriesTyped
<1>12. ASSUME NEW m \in messages, AppendReply(m) PROVE TypeOK'
  BY <1>12, AppendReplyTyped
<1>13. ASSUME NEW m \in messages, InstallSnapshot(m) PROVE TypeOK'
  BY <1>13, InstallSnapshotTyped
<1>14. ASSUME NEW m \in messages, InstallReply(m) PROVE TypeOK'
  BY <1>14, InstallReplyTyped
<1>15. CASE UNCHANGED vars
  BY <1>15 DEF TypeOK, vars, electionVars, logVars, applyVars, leaderVars, envVars, orderVars
<1> QED BY <1>1, <1>2, <1>3, <1>4, <1>5, <1>6, <1>7, <1>8, <1>9, <1>10, <1>11,
           <1>12, <1>13, <1>14, <1>15 DEF Next

\* Every handler and goroutine of the Raft layer keeps its state in its types, for
\* any cluster and any bounds; in particular rf.log never loses its dummy entry,
\* on which getLastIndex and every index computation rely.
THEOREM TypeCorrect == Spec => []TypeOK
BY InitTyped, NextTyped, PTL DEF Spec

-----------------------------------------------------------------------------
(* Elections: the inductive invariants *)

\* rf.term and rf.vote remember the last vote a node gave.
VotesRemembered ==
    \A c \in cast :
        /\ c.term <= term[c.voter]
        /\ c.term = term[c.voter] => vote[c.voter] = c.candidate

\* A granted reply stands for a vote given to the node it goes to.
GrantsAreVotes ==
    \A m \in messages :
        m.type = "VoteReply" /\ m.granted =>
            [voter |-> m.from, term |-> m.election, candidate |-> m.to] \in cast

\* A candidate counts votes given to it in its present term.
CountedAreVotes ==
    \A i \in Server :
        states[i] = "Candidate" =>
            \A j \in votes[i] : [voter |-> j, term |-> term[i], candidate |-> i] \in cast

\* Whoever won an election had the votes of a majority in its term.
WinnersHadVotes ==
    \A e \in elected :
        \E Q \in SUBSET Server :
            /\ IsMajority(Q)
            /\ \A j \in Q : [voter |-> j, term |-> e.term, candidate |-> e.node] \in cast

VoteInv == TypeOK /\ VotesRemembered /\ OneVotePerTerm

ElectionInv ==
    /\ VoteInv
    /\ GrantsAreVotes
    /\ CountedAreVotes
    /\ WinnersHadVotes
    /\ pc = [i \in Server |-> "idle"]

-----------------------------------------------------------------------------
(* One vote per term *)

\* A step that gives no vote: terms only grow, and a vote changes with its term.
KeepsVotes ==
    /\ cast' = cast
    /\ \A j \in Server : /\ term'[j] >= term[j]
                         /\ term'[j] = term[j] => vote'[j] = vote[j]

LEMMA VotesKept ==
    ASSUME VoteInv, TypeOK', KeepsVotes
    PROVE  VoteInv'
<1>1. OneVotePerTerm'
  BY DEF VoteInv, OneVotePerTerm, KeepsVotes
<1>2. VotesRemembered'
  <2> SUFFICES ASSUME NEW c \in cast
               PROVE  /\ c.term <= term'[c.voter]
                      /\ c.term = term'[c.voter] => vote'[c.voter] = c.candidate
    BY DEF VotesRemembered, KeepsVotes
  <2>1. c.voter \in Server /\ c.term \in Nat
    BY DEF VoteInv, TypeOK
  <2>2. term[c.voter] \in Nat /\ term'[c.voter] \in Nat
    BY <2>1 DEF VoteInv, TypeOK
  <2>3. /\ c.term <= term[c.voter]
        /\ c.term = term[c.voter] => vote[c.voter] = c.candidate
    BY DEF VoteInv, VotesRemembered
  <2>4. /\ term'[c.voter] >= term[c.voter]
        /\ term'[c.voter] = term[c.voter] => vote'[c.voter] = vote[c.voter]
    BY <2>1 DEF KeepsVotes
  <2> QED BY <2>1, <2>2, <2>3, <2>4
<1> QED BY <1>1, <1>2 DEF VoteInv

\* A step in which node i gives candidate d its vote of term t, a term it was not
\* past and in which it had voted for nobody else.
LEMMA VoteGiven ==
    ASSUME VoteInv, TypeOK', NEW i \in Server, NEW t \in Nat, NEW d \in Server,
           t >= term[i], t = term[i] => vote[i] \in {None, d},
           term' = [term EXCEPT ![i] = t],
           vote' = [vote EXCEPT ![i] = d],
           cast' = cast \cup {[voter |-> i, term |-> t, candidate |-> d]}
    PROVE  VoteInv'
<1> DEFINE new == [voter |-> i, term |-> t, candidate |-> d]
<1>1. \A c \in cast : /\ c.voter \in Server /\ c.term \in Nat /\ c.candidate \in Server
                      /\ c.term <= term[c.voter]
                      /\ c.term = term[c.voter] => vote[c.voter] = c.candidate
  BY DEF VoteInv, TypeOK, VotesRemembered
<1>2. \A j \in Server : /\ term[j] \in Nat
                        /\ term'[j] = IF j = i THEN t ELSE term[j]
                        /\ vote'[j] = IF j = i THEN d ELSE vote[j]
  BY DEF VoteInv, TypeOK
<1>3. None \notin Server
  BY RaftAssumption
<1>4. ASSUME NEW c \in cast, c.voter = i, c.term = t
      PROVE  c.candidate = d
  <2>1. t = term[i]
    BY <1>1, <1>2, <1>4
  <2> QED BY <1>1, <1>3, <1>4, <2>1
<1>5. \A c \in cast' : c \in cast \/ c = new
  OBVIOUS
<1>6. new.voter = i /\ new.term = t /\ new.candidate = d
  OBVIOUS
<1> HIDE DEF new
<1>7. OneVotePerTerm'
  <2> SUFFICES ASSUME NEW a \in cast', NEW b \in cast', a.voter = b.voter, a.term = b.term
               PROVE  a.candidate = b.candidate
    BY DEF OneVotePerTerm
  <2>1. CASE a \in cast /\ b \in cast
    BY <2>1 DEF VoteInv, OneVotePerTerm
  <2>2. CASE a = new \/ b = new
    BY <1>4, <1>5, <1>6, <2>2
  <2> QED BY <1>5, <2>1, <2>2
<1>8. VotesRemembered'
  <2> SUFFICES ASSUME NEW c \in cast'
               PROVE  /\ c.term <= term'[c.voter]
                      /\ c.term = term'[c.voter] => vote'[c.voter] = c.candidate
    BY DEF VotesRemembered
  <2>1. CASE c = new
    BY <1>2, <1>6, <2>1
  <2>2. CASE c \in cast
    <3>1. CASE c.voter = i
      <4>1. c.term <= t
        BY <1>1, <1>2, <2>2, <3>1
      <4> QED BY <1>2, <1>4, <2>2, <3>1, <4>1
    <3>2. CASE c.voter # i
      BY <1>1, <1>2, <2>2, <3>2
    <3> QED BY <3>1, <3>2
  <2> QED BY <1>5, <2>1, <2>2
<1> QED BY <1>7, <1>8 DEF VoteInv

LEMMA StartElectionVotes ==
    ASSUME VoteInv, TypeOK', NEW i \in Server, StartElection(i)
    PROVE  VoteInv'
<1>1. term[i] \in Nat
  BY DEF VoteInv, TypeOK
<1> DEFINE t == term[i] + 1
<1>2. /\ term' = [term EXCEPT ![i] = t]
      /\ vote' = [vote EXCEPT ![i] = i]
      /\ cast' = cast \cup {[voter |-> i, term |-> t, candidate |-> i]}
  BY DEF StartElection
<1>3. t \in Nat /\ t > term[i]
  BY <1>1
<1> HIDE DEF t
<1>4. t >= term[i] /\ t # term[i]
  BY <1>1, <1>3
<1> QED BY <1>2, <1>3, <1>4, VoteGiven

LEMMA RequestVoteVotes ==
    ASSUME VoteInv, TypeOK', NEW m \in messages, RequestVote(m)
    PROVE  VoteInv'
<1> DEFINE i == m.to
           granted == m.term >= term[i] /\ FreeToVote(i, m) /\ UpToDate(i, m)
<1>1. /\ m.from \in Server /\ i \in Server /\ m.term \in Nat /\ term[i] \in Nat
      /\ TypeOK
  BY MessageFacts DEF VoteInv, TypeOK
<1>2. /\ term' = [term EXCEPT ![i] = Maximum(@, m.term)]
      /\ vote' = [vote EXCEPT ![i] = IF granted THEN m.from
                                     ELSE IF m.term > term[i] THEN None ELSE @]
      /\ cast' = IF granted
                 THEN cast \cup {[voter |-> i, term |-> m.term, candidate |-> m.from]}
                 ELSE cast
  BY DEF RequestVote
<1>3. CASE granted
  <2>1. m.term >= term[i] /\ (m.term = term[i] => vote[i] \in {None, m.from})
    BY <1>1, <1>3 DEF FreeToVote
  <2>2. Maximum(term[i], m.term) = m.term
    BY <1>1, <2>1 DEF Maximum
  <2>3. /\ term' = [term EXCEPT ![i] = m.term]
        /\ vote' = [vote EXCEPT ![i] = m.from]
        /\ cast' = cast \cup {[voter |-> i, term |-> m.term, candidate |-> m.from]}
    BY <1>2, <1>3, <2>2
  <2> QED BY <1>1, <2>1, <2>3, VoteGiven
<1>4. CASE ~granted
  <2>1. cast' = cast
    BY <1>2, <1>4
  <2>2. \A j \in Server : /\ term'[j] >= term[j]
                          /\ term'[j] = term[j] => vote'[j] = vote[j]
    <3> TAKE j \in Server
    <3>1. term[j] \in Nat
      BY <1>1 DEF TypeOK
    <3>2. CASE j # i
      BY <1>1, <1>2, <3>1, <3>2 DEF TypeOK
    <3>3. CASE j = i
      <4>1. term'[i] = Maximum(term[i], m.term)
        BY <1>1, <1>2 DEF TypeOK
      <4>2. vote'[i] = IF m.term > term[i] THEN None ELSE vote[i]
        BY <1>1, <1>2, <1>4 DEF TypeOK
      <4> QED BY <1>1, <3>3, <4>1, <4>2 DEF Maximum
    <3> QED BY <3>2, <3>3
  <2> QED BY <2>1, <2>2, VotesKept DEF KeepsVotes
<1> QED BY <1>3, <1>4

\* The handlers and goroutines that adopt a term give no vote.
LEMMA TermAdopted ==
    ASSUME TypeOK, NEW i \in Server, NEW t \in Nat, t >= term[i], cast' = cast,
           term' = [term EXCEPT ![i] = t],
           \/ vote' = vote
           \/ t > term[i] /\ vote' = [vote EXCEPT ![i] = None]
    PROVE  KeepsVotes
<1> SUFFICES ASSUME NEW j \in Server
             PROVE  /\ term'[j] >= term[j]
                    /\ term'[j] = term[j] => vote'[j] = vote[j]
  BY DEF KeepsVotes
<1>1. term[i] \in Nat /\ term[j] \in Nat
  BY DEF TypeOK
<1>2. term'[j] = IF j = i THEN t ELSE term[j]
  BY DEF TypeOK
<1>3. vote'[j] = vote[j] \/ (j = i /\ t > term[i])
  BY DEF TypeOK
<1> QED BY <1>1, <1>2, <1>3

LEMMA SameVotes ==
    ASSUME TypeOK, UNCHANGED <<cast, term, vote>>
    PROVE  KeepsVotes
<1>1. \A j \in Server : term[j] \in Nat
  BY DEF TypeOK
<1> QED BY <1>1 DEF KeepsVotes

LEMMA VoteReplyKeeps ==
    ASSUME TypeOK, NEW m \in messages, VoteReply(m)
    PROVE  KeepsVotes
<1>1. m.to \in Server /\ m.term \in Nat /\ term[m.to] \in Nat /\ cast' = cast
  BY MessageFacts DEF TypeOK, VoteReply
<1>2. CASE UNCHANGED <<term, vote>>
  BY <1>1, <1>2, SameVotes
<1>3. CASE /\ m.term > term[m.to]
           /\ term' = [term EXCEPT ![m.to] = m.term]
           /\ vote' = [vote EXCEPT ![m.to] = None]
  <2>1. m.term >= term[m.to]
    BY <1>1, <1>3
  <2> QED BY <1>1, <1>3, <2>1, TermAdopted
<1> QED BY <1>2, <1>3 DEF VoteReply

LEMMA AppendEntriesKeeps ==
    ASSUME TypeOK, NEW m \in messages, AppendEntries(m)
    PROVE  KeepsVotes
<1>1. m.to \in Server /\ m.term \in Nat /\ term[m.to] \in Nat /\ cast' = cast
  BY MessageFacts DEF TypeOK, AppendEntries
<1>2. CASE UNCHANGED <<term, vote>>
  BY <1>1, <1>2, SameVotes
<1>3. CASE /\ m.term >= term[m.to]
           /\ term' = [term EXCEPT ![m.to] = m.term]
           /\ vote' = IF m.term > term[m.to] THEN [vote EXCEPT ![m.to] = None] ELSE vote
  BY <1>1, <1>3, TermAdopted
<1> QED BY <1>2, <1>3 DEF AppendEntries

LEMMA AppendReplyKeeps ==
    ASSUME TypeOK, NEW m \in messages, AppendReply(m)
    PROVE  KeepsVotes
<1>1. m.to \in Server /\ m.term \in Nat /\ term[m.to] \in Nat /\ cast' = cast
  BY MessageFacts DEF TypeOK, AppendReply
<1>2. CASE UNCHANGED <<term, vote>>
  BY <1>1, <1>2, SameVotes
<1>3. CASE /\ m.term > term[m.to]
           /\ term' = [term EXCEPT ![m.to] = m.term]
           /\ vote' = [vote EXCEPT ![m.to] = None]
  <2>1. m.term >= term[m.to]
    BY <1>1, <1>3
  <2> QED BY <1>1, <1>3, <2>1, TermAdopted
<1> QED BY <1>2, <1>3 DEF AppendReply

LEMMA InstallSnapshotKeeps ==
    ASSUME TypeOK, NEW m \in messages, InstallSnapshot(m)
    PROVE  KeepsVotes
<1>1. m.to \in Server /\ m.term \in Nat /\ term[m.to] \in Nat /\ UNCHANGED <<cast, vote>>
  BY MessageFacts DEF TypeOK, InstallSnapshot
<1>2. CASE UNCHANGED term
  BY <1>1, <1>2, SameVotes
<1>3. CASE m.term >= term[m.to] /\ term' = [term EXCEPT ![m.to] = m.term]
  BY <1>1, <1>3, TermAdopted
<1> QED BY <1>2, <1>3 DEF InstallSnapshot

LEMMA InstallReplyKeeps ==
    ASSUME TypeOK, NEW m \in messages, InstallReply(m)
    PROVE  KeepsVotes
<1>1. m.to \in Server /\ m.term \in Nat /\ term[m.to] \in Nat /\ UNCHANGED <<cast, vote>>
  BY MessageFacts DEF TypeOK, InstallReply
<1>2. CASE UNCHANGED term
  BY <1>1, <1>2, SameVotes
<1>3. CASE m.term > term[m.to] /\ term' = [term EXCEPT ![m.to] = m.term]
  <2>1. m.term >= term[m.to]
    BY <1>1, <1>3
  <2> QED BY <1>1, <1>3, <2>1, TermAdopted
<1> QED BY <1>2, <1>3 DEF InstallReply

LEMMA LocalStepsKeep ==
    ASSUME TypeOK, NEW i \in Server,
           \/ Tally(i) \/ Broadcast(i) \/ Snapshot(i) \/ Apply(i)
           \/ \E v \in Value : Start(i, v)
           \/ \E j \in Server : SendAppend(i, j)
    PROVE  KeepsVotes
<1>1. UNCHANGED <<cast, term, vote>>
  BY DEF Tally, Broadcast, Snapshot, Apply, Start, SendAppend, electionVars
<1> QED BY <1>1, SameVotes

\* With no restart allowed, Restart is no step.
LEMMA NoRestart ==
    ASSUME MaxRestarts = 0, TypeOK, NEW i \in Server
    PROVE  ~Restart(i)
BY DEF TypeOK, Restart

LEMMA NextVotes ==
    ASSUME MaxRestarts = 0, VoteInv, [Next]_vars
    PROVE  VoteInv'
<1>1. TypeOK /\ TypeOK'
  BY NextTyped DEF VoteInv
<1>2. ASSUME NEW i \in Server, StartElection(i) PROVE VoteInv'
  BY <1>1, <1>2, StartElectionVotes
<1>3. ASSUME NEW m \in messages, RequestVote(m) PROVE VoteInv'
  BY <1>1, <1>3, RequestVoteVotes
<1>4. CASE KeepsVotes
  BY <1>1, <1>4, VotesKept
<1>5. ASSUME NEW i \in Server,
             \/ Tally(i) \/ Broadcast(i) \/ Snapshot(i) \/ Apply(i)
             \/ \E v \in Value : Start(i, v)
             \/ \E j \in Server : SendAppend(i, j)
      PROVE  KeepsVotes
  BY <1>1, <1>5, LocalStepsKeep
<1>6. ASSUME NEW m \in messages,
             \/ VoteReply(m) \/ AppendEntries(m) \/ AppendReply(m)
             \/ InstallSnapshot(m) \/ InstallReply(m)
      PROVE  KeepsVotes
  BY <1>1, <1>6, VoteReplyKeeps, AppendEntriesKeeps, AppendReplyKeeps,
     InstallSnapshotKeeps, InstallReplyKeeps
<1>7. CASE UNCHANGED vars
  <2>1. UNCHANGED <<cast, term, vote>>
    BY <1>7 DEF vars, electionVars
  <2> QED BY <1>1, <2>1, SameVotes, VotesKept
<1> QED BY <1>1, <1>2, <1>3, <1>4, <1>5, <1>6, <1>7, NoRestart DEF Next

\* As long as no process restarts, no node ever votes for two candidates in a term,
\* whatever its state and whatever rf.vote was reset to in between.
THEOREM VotesOnce == ASSUME MaxRestarts = 0 PROVE Spec => []OneVotePerTerm
<1>1. Init => VoteInv
  BY InitTyped DEF Init, VoteInv, VotesRemembered, OneVotePerTerm
<1>2. VoteInv /\ [Next]_vars => VoteInv'
  BY NextVotes
<1>3. VoteInv => OneVotePerTerm
  BY DEF VoteInv
<1> QED BY <1>1, <1>2, <1>3, PTL DEF Spec

-----------------------------------------------------------------------------
(* One leader per term *)

\* A step that wins no election: it grants nothing, counts nothing, and leaves no
\* candidate in another term.
KeepsElections ==
    /\ cast \subseteq cast'
    /\ UNCHANGED <<votes, pc, elected>>
    /\ \A m \in messages' : m \in messages \/ m.type # "VoteReply"
    /\ \A j \in Server :
          states'[j] = "Candidate" => states[j] = "Candidate" /\ term'[j] = term[j]

\* What a majority gave is not taken back.
LEMMA WinsKept ==
    ASSUME WinnersHadVotes, cast \subseteq cast'
    PROVE  \A e \in elected :
              \E Q \in SUBSET Server :
                 /\ IsMajority(Q)
                 /\ \A j \in Q : [voter |-> j, term |-> e.term, candidate |-> e.node]
                                    \in cast'
BY DEF WinnersHadVotes

LEMMA ElectionsKept ==
    ASSUME ElectionInv, VoteInv', KeepsElections
    PROVE  ElectionInv'
<1>1. GrantsAreVotes'
  BY DEF ElectionInv, GrantsAreVotes, KeepsElections
<1>2. CountedAreVotes'
  BY DEF ElectionInv, CountedAreVotes, KeepsElections
<1>3. WinnersHadVotes'
  BY WinsKept DEF ElectionInv, WinnersHadVotes, KeepsElections, IsMajority
<1>4. (pc = [i \in Server |-> "idle"])'
  BY DEF ElectionInv, KeepsElections
<1> QED BY <1>1, <1>2, <1>3, <1>4 DEF ElectionInv

\* Node i becomes the leader of t with the votes of Q.
LEMMA Won ==
    ASSUME WinnersHadVotes, cast \subseteq cast', NEW i \in Server, NEW t \in Nat,
           NEW Q \in SUBSET Server, IsMajority(Q),
           \A j \in Q : [voter |-> j, term |-> t, candidate |-> i] \in cast',
           elected' = elected \cup {[node |-> i, term |-> t]}
    PROVE  WinnersHadVotes'
<1> DEFINE new == [node |-> i, term |-> t]
<1>1. \A e \in elected' : e \in elected \/ e = new
  OBVIOUS
<1>2. new.node = i /\ new.term = t
  OBVIOUS
<1> HIDE DEF new
<1> QED BY <1>1, <1>2, WinsKept DEF WinnersHadVotes, IsMajority

\* What startElection and the other senders put into the network are not answers.
LEMMA SentAreNoGrants ==
    ASSUME NEW new, Send(new), \A m \in new : m.type # "VoteReply"
    PROVE  \A m \in messages' : m \in messages \/ m.type # "VoteReply"
BY DEF Send

LEMMA StartElectionWins ==
    ASSUME ElectionInv, VoteInv', ~SlowTicker, NEW i \in Server, StartElection(i)
    PROVE  ElectionInv'
<1> DEFINE t == term[i] + 1
           new == {[type |-> "RequestVote", from |-> i, to |-> j, awaited |-> TRUE, term |-> t,
                    lastIndex |-> LastIndex(i), lastTerm |-> LastTerm(i)] :
                      j \in Server \ {i}}
<1>1. TypeOK /\ t \in Nat
  <2>1. TypeOK
    BY DEF ElectionInv, VoteInv
  <2>2. term[i] \in Nat
    BY <2>1 DEF TypeOK
  <2> QED BY <2>1, <2>2
<1>2. /\ term' = [term EXCEPT ![i] = t]
      /\ votes' = [votes EXCEPT ![i] = {i}]
      /\ cast' = cast \cup {[voter |-> i, term |-> t, candidate |-> i]}
      /\ Send(new)
  BY DEF StartElection
<1>3. GrantsAreVotes'
  <2>1. \A m \in new : m.type # "VoteReply"
    OBVIOUS
  <2> HIDE DEF new
  <2>2. \A m \in messages' : m \in messages \/ m.type # "VoteReply"
    BY <1>2, <2>1, SentAreNoGrants
  <2> QED BY <1>2, <2>2 DEF ElectionInv, GrantsAreVotes
<1> HIDE DEF new, t
<1>4. /\ [voter |-> i, term |-> t, candidate |-> i] \in cast'
      /\ cast \subseteq cast'
  BY <1>2
<1>5. /\ \/ /\ states' = [states EXCEPT ![i] = "Leader"]
            /\ IsMajority({i})
            /\ elected' = elected \cup {[node |-> i, term |-> t]}
         \/ /\ states' = [states EXCEPT ![i] = "Candidate"]
            /\ elected' = elected
      /\ pc' = pc
  BY DEF StartElection, BecomeLeader, leaderVars, t
<1>6. CountedAreVotes'
  <2> SUFFICES ASSUME NEW k \in Server, states'[k] = "Candidate", NEW j \in votes'[k]
               PROVE  [voter |-> j, term |-> term'[k], candidate |-> k] \in cast'
    BY DEF CountedAreVotes
  <2>1. CASE k = i
    <3>1. votes'[i] = {i} /\ term'[i] = t
      BY <1>1, <1>2 DEF TypeOK
    <3> QED BY <1>4, <2>1, <3>1
  <2>2. CASE k # i
    <3>1. votes'[k] = votes[k] /\ term'[k] = term[k]
      BY <1>1, <1>2, <2>2 DEF TypeOK
    <3>2. states'[k] = states[k]
      BY <1>1, <1>5, <2>2 DEF TypeOK
    <3> QED BY <1>4, <3>1, <3>2 DEF ElectionInv, CountedAreVotes
  <2> QED BY <2>1, <2>2
<1>7. WinnersHadVotes'
  <2>1. CASE /\ IsMajority({i})
             /\ elected' = elected \cup {[node |-> i, term |-> t]}
    <3>1. {i} \in SUBSET Server
      OBVIOUS
    <3>2. \A j \in {i} : [voter |-> j, term |-> t, candidate |-> i] \in cast'
      BY <1>4
    <3> QED BY <1>1, <1>4, <2>1, <3>1, <3>2, Won DEF ElectionInv
  <2>2. CASE elected' = elected
    BY <1>4, <2>2, WinsKept DEF ElectionInv, WinnersHadVotes, IsMajority
  <2> QED BY <1>5, <2>1, <2>2
<1>8. (pc = [k \in Server |-> "idle"])'
  BY <1>5 DEF ElectionInv
<1> QED BY <1>3, <1>6, <1>7, <1>8 DEF ElectionInv

LEMMA RequestVoteWins ==
    ASSUME ElectionInv, VoteInv', NEW m \in messages, RequestVote(m)
    PROVE  ElectionInv'
<1> DEFINE i == m.to
           granted == m.term >= term[i] /\ FreeToVote(i, m) /\ UpToDate(i, m)
           new == [type |-> "VoteReply", from |-> i, to |-> m.from,
                   term |-> Maximum(term[i], m.term), granted |-> granted,
                   election |-> m.term]
<1>1. /\ i \in Server /\ m.term \in Nat /\ term[i] \in Nat /\ TypeOK
  BY MessageFacts DEF ElectionInv, VoteInv, TypeOK
<1>2. /\ term' = [term EXCEPT ![i] = Maximum(@, m.term)]
      /\ states' = IF m.term > term[i] THEN [states EXCEPT ![i] = "Follower"] ELSE states
      /\ cast' = IF granted
                 THEN cast \cup {[voter |-> i, term |-> m.term, candidate |-> m.from]}
                 ELSE cast
      /\ Reply(m, new)
      /\ UNCHANGED <<votes, pc, elected>>
  BY DEF RequestVote
<1>3. cast \subseteq cast'
  BY <1>2
<1>4. GrantsAreVotes'
  <2> SUFFICES ASSUME NEW n \in messages', n.type = "VoteReply", n.granted
               PROVE  [voter |-> n.from, term |-> n.election, candidate |-> n.to] \in cast'
    BY DEF GrantsAreVotes
  <2>1. CASE n \in messages
    BY <1>3, <2>1 DEF ElectionInv, GrantsAreVotes
  <2>2. CASE n = new
    <3>1. /\ n.from = i /\ n.election = m.term /\ n.to = m.from /\ n.granted = granted
      BY <2>2
    <3> HIDE DEF new, granted
    <3>2. cast' = cast \cup {[voter |-> i, term |-> m.term, candidate |-> m.from]}
      BY <1>2, <3>1
    <3> QED BY <3>1, <3>2
  <2> HIDE DEF new
  <2> QED BY <1>2, <2>1, <2>2 DEF Reply
<1>5. CountedAreVotes'
  <2> SUFFICES ASSUME NEW k \in Server, states'[k] = "Candidate", NEW j \in votes'[k]
               PROVE  [voter |-> j, term |-> term'[k], candidate |-> k] \in cast'
    BY DEF CountedAreVotes
  <2>1. states[k] = "Candidate" /\ term'[k] = term[k]
    <3>1. CASE k # i
      BY <1>1, <1>2, <3>1 DEF TypeOK
    <3>2. CASE k = i
      <4>1. ~(m.term > term[i]) /\ states' = states
        BY <1>1, <1>2, <3>2 DEF TypeOK
      <4>2. term'[i] = Maximum(term[i], m.term)
        BY <1>1, <1>2 DEF TypeOK
      <4> QED BY <1>1, <3>2, <4>1, <4>2 DEF Maximum
    <3> QED BY <3>1, <3>2
  <2> QED BY <1>2, <1>3, <2>1 DEF ElectionInv, CountedAreVotes
<1>6. WinnersHadVotes'
  BY <1>2, <1>3, WinsKept DEF ElectionInv, WinnersHadVotes, IsMajority
<1>7. (pc = [k \in Server |-> "idle"])'
  BY <1>2 DEF ElectionInv
<1> QED BY <1>4, <1>5, <1>6, <1>7 DEF ElectionInv

LEMMA VoteReplyWins ==
    ASSUME ElectionInv, VoteInv', NEW m \in messages, VoteReply(m)
    PROVE  ElectionInv'
<1> DEFINE i == m.to
           j == m.from
<1>1. /\ i \in Server /\ j \in Server /\ m.term \in Nat /\ term[i] \in Nat /\ TypeOK
      /\ m.type = "VoteReply"
  BY MessageFacts DEF ElectionInv, VoteInv, TypeOK, VoteReply
<1>2. messages' \subseteq messages /\ UNCHANGED <<cast, pc>>
  BY DEF VoteReply, Discard
<1>3. CASE /\ UNCHANGED <<votes, elected>>
           /\ \/ UNCHANGED <<term, states>>
              \/ /\ term' = [term EXCEPT ![i] = m.term]
                 /\ states' = [states EXCEPT ![i] = "Follower"]
  <2>1. \A k \in Server :
           states'[k] = "Candidate" => states[k] = "Candidate" /\ term'[k] = term[k]
    BY <1>1, <1>3 DEF TypeOK
  <2> QED BY <1>2, <1>3, <2>1, ElectionsKept DEF KeepsElections
<1>4. CASE /\ states[i] = "Candidate" /\ term[i] = m.election /\ m.granted
           /\ votes' = [votes EXCEPT ![i] = @ \cup {j}]
           /\ term' = term
           /\ \/ /\ IsMajority(votes[i] \cup {j})
                 /\ states' = [states EXCEPT ![i] = "Leader"]
                 /\ elected' = elected \cup {[node |-> i, term |-> term[i]]}
              \/ UNCHANGED <<states, elected>>
  <2>1. \A k \in votes[i] \cup {j} :
           [voter |-> k, term |-> term[i], candidate |-> i] \in cast
    <3>1. [voter |-> j, term |-> term[i], candidate |-> i] \in cast
      BY <1>1, <1>4 DEF ElectionInv, GrantsAreVotes
    <3>2. \A k \in votes[i] : [voter |-> k, term |-> term[i], candidate |-> i] \in cast
      BY <1>1, <1>4 DEF ElectionInv, CountedAreVotes
    <3> QED BY <3>1, <3>2
  <2>2. votes[i] \cup {j} \in SUBSET Server
    BY <1>1 DEF TypeOK
  <2>3. GrantsAreVotes'
    BY <1>2 DEF ElectionInv, GrantsAreVotes
  <2>4. CountedAreVotes'
    <3> SUFFICES ASSUME NEW k \in Server, states'[k] = "Candidate", NEW l \in votes'[k]
                 PROVE  [voter |-> l, term |-> term'[k], candidate |-> k] \in cast'
      BY DEF CountedAreVotes
    <3>1. CASE k = i
      <4>1. votes'[i] = votes[i] \cup {j}
        BY <1>1, <1>4 DEF TypeOK
      <4> QED BY <1>2, <1>4, <2>1, <3>1, <4>1
    <3>2. CASE k # i
      <4>1. votes'[k] = votes[k] /\ states'[k] = states[k]
        BY <1>1, <1>4, <3>2 DEF TypeOK
      <4> QED BY <1>2, <1>4, <4>1 DEF ElectionInv, CountedAreVotes
    <3> QED BY <3>1, <3>2
  <2>5. WinnersHadVotes'
    <3>1. CASE elected' = elected
      BY <1>2, <3>1, WinsKept DEF ElectionInv, WinnersHadVotes, IsMajority
    <3>2. CASE /\ IsMajority(votes[i] \cup {j})
               /\ elected' = elected \cup {[node |-> i, term |-> term[i]]}
      BY <1>1, <1>2, <2>1, <2>2, <3>2, Won DEF ElectionInv
    <3> QED BY <1>4, <3>1, <3>2
  <2>6. (pc = [k \in Server |-> "idle"])'
    BY <1>2 DEF ElectionInv
  <2> QED BY <2>3, <2>4, <2>5, <2>6 DEF ElectionInv
<1>5. \/ /\ UNCHANGED <<votes, elected>>
         /\ \/ UNCHANGED <<term, states>>
            \/ /\ term' = [term EXCEPT ![i] = m.term]
               /\ states' = [states EXCEPT ![i] = "Follower"]
      \/ /\ states[i] = "Candidate" /\ term[i] = m.election /\ m.granted
         /\ votes' = [votes EXCEPT ![i] = @ \cup {j}]
         /\ term' = term
         /\ \/ /\ IsMajority(votes[i] \cup {j})
               /\ states' = [states EXCEPT ![i] = "Leader"]
               /\ elected' = elected \cup {[node |-> i, term |-> term[i]]}
            \/ UNCHANGED <<states, elected>>
  BY DEF VoteReply, BecomeLeader
<1> QED BY <1>3, <1>4, <1>5

\* The other handlers leave a node a candidate only if they leave its term alone.
LEMMA StepsDown ==
    ASSUME TypeOK, NEW i \in Server, NEW t,
           \/ UNCHANGED <<term, states>>
           \/ /\ term' = [term EXCEPT ![i] = t]
              /\ states' = [states EXCEPT ![i] = "Follower"],
           UNCHANGED <<cast, votes, pc, elected>>,
           \A m \in messages' : m \in messages \/ m.type # "VoteReply"
    PROVE  KeepsElections
BY DEF KeepsElections, TypeOK

LEMMA AppendEntriesWinsNothing ==
    ASSUME TypeOK, NEW m \in messages, AppendEntries(m)
    PROVE  KeepsElections
<1>1. m.to \in Server
  BY MessageFacts
<1>2. \/ UNCHANGED <<term, states>>
      \/ /\ term' = [term EXCEPT ![m.to] = m.term]
         /\ states' = [states EXCEPT ![m.to] = "Follower"]
  BY DEF AppendEntries
<1>3. UNCHANGED <<cast, votes, pc, elected>>
  BY DEF AppendEntries
<1>4. \A n \in messages' : n \in messages \/ n.type # "VoteReply"
  BY DEF AppendEntries, Follow, AnswerAppend, Reply, Discard
<1> QED BY <1>1, <1>2, <1>3, <1>4, StepsDown

LEMMA AppendReplyWinsNothing ==
    ASSUME TypeOK, NEW m \in messages, AppendReply(m)
    PROVE  KeepsElections
<1>1. m.to \in Server
  BY MessageFacts
<1>2. \/ UNCHANGED <<term, states>>
      \/ /\ term' = [term EXCEPT ![m.to] = m.term]
         /\ states' = [states EXCEPT ![m.to] = "Follower"]
  BY DEF AppendReply
<1>3. UNCHANGED <<cast, votes, pc, elected>>
  BY DEF AppendReply
<1>4. messages' \subseteq messages
  BY DEF AppendReply, Discard
<1> QED BY <1>1, <1>2, <1>3, <1>4, StepsDown

LEMMA InstallSnapshotWinsNothing ==
    ASSUME TypeOK, NEW m \in messages, InstallSnapshot(m)
    PROVE  KeepsElections
<1>1. m.to \in Server
  BY MessageFacts
<1>2. \/ UNCHANGED <<term, states>>
      \/ /\ term' = [term EXCEPT ![m.to] = m.term]
         /\ states' = [states EXCEPT ![m.to] = "Follower"]
  BY DEF InstallSnapshot
<1>3. UNCHANGED <<cast, votes, pc, elected>>
  BY DEF InstallSnapshot
<1>4. \A n \in messages' : n \in messages \/ n.type # "VoteReply"
  BY DEF InstallSnapshot, Reply
<1> QED BY <1>1, <1>2, <1>3, <1>4, StepsDown

LEMMA InstallReplyWinsNothing ==
    ASSUME TypeOK, NEW m \in messages, InstallReply(m)
    PROVE  KeepsElections
<1>1. m.to \in Server
  BY MessageFacts
<1>2. \/ UNCHANGED <<term, states>>
      \/ /\ term' = [term EXCEPT ![m.to] = m.term]
         /\ states' = [states EXCEPT ![m.to] = "Follower"]
  BY DEF InstallReply
<1>3. UNCHANGED <<cast, votes, pc, elected>>
  BY DEF InstallReply
<1>4. messages' \subseteq messages
  BY DEF InstallReply, Discard
<1> QED BY <1>1, <1>2, <1>3, <1>4, StepsDown

LEMMA LocalStepsWinNothing ==
    ASSUME TypeOK, NEW i \in Server,
           \/ Broadcast(i) \/ Snapshot(i) \/ Apply(i)
           \/ \E v \in Value : Start(i, v)
           \/ \E j \in Server : SendAppend(i, j)
    PROVE  KeepsElections
<1>1. UNCHANGED <<cast, votes, pc, elected, term, states>>
  BY DEF Broadcast, Snapshot, Apply, Start, SendAppend, electionVars
<1>2. ASSUME NEW j \in Server, SendAppend(i, j)
      PROVE  \A m \in messages' : m \in messages \/ m.type # "VoteReply"
  <2>1. CASE UNCHANGED messages
    BY <2>1
  <2>2. ASSUME NEW r, Send({r}), r.type # "VoteReply"
        PROVE  \A m \in messages' : m \in messages \/ m.type # "VoteReply"
    BY <2>2, SentAreNoGrants
  <2> QED BY <1>2, <2>1, <2>2 DEF SendAppend
<1>3. \A m \in messages' : m \in messages \/ m.type # "VoteReply"
  BY <1>2 DEF Broadcast, Snapshot, Apply, Start
<1> QED BY <1>1, <1>3, StepsDown

LEMMA NextElections ==
    ASSUME MaxRestarts = 0, ~SlowTicker, ElectionInv, [Next]_vars
    PROVE  ElectionInv'
<1>1. TypeOK /\ VoteInv'
  BY NextVotes DEF ElectionInv, VoteInv
<1>2. ASSUME NEW i \in Server, StartElection(i) PROVE ElectionInv'
  BY <1>1, <1>2, StartElectionWins
<1>3. ASSUME NEW m \in messages, RequestVote(m) PROVE ElectionInv'
  BY <1>1, <1>3, RequestVoteWins
<1>4. ASSUME NEW m \in messages, VoteReply(m) PROVE ElectionInv'
  BY <1>1, <1>4, VoteReplyWins
<1>5. CASE KeepsElections
  BY <1>1, <1>5, ElectionsKept
<1>6. ASSUME NEW i \in Server,
             \/ Broadcast(i) \/ Snapshot(i) \/ Apply(i)
             \/ \E v \in Value : Start(i, v)
             \/ \E j \in Server : SendAppend(i, j)
      PROVE  KeepsElections
  BY <1>1, <1>6, LocalStepsWinNothing
<1>7. ASSUME NEW m \in messages,
             \/ AppendEntries(m) \/ AppendReply(m)
             \/ InstallSnapshot(m) \/ InstallReply(m)
      PROVE  KeepsElections
  BY <1>1, <1>7, AppendEntriesWinsNothing, AppendReplyWinsNothing,
     InstallSnapshotWinsNothing, InstallReplyWinsNothing
<1>8. ASSUME NEW i \in Server PROVE ~Tally(i) /\ ~Restart(i)
  BY <1>1, NoRestart DEF ElectionInv, Tally
<1>9. CASE UNCHANGED vars
  <2>1. KeepsElections
    BY <1>9 DEF KeepsElections, vars, electionVars
  <2> QED BY <1>5, <2>1
<1> QED BY <1>2, <1>3, <1>4, <1>5, <1>6, <1>7, <1>8, <1>9 DEF Next

\* Two majorities of rf.peers have a peer in common.
LEMMA MajoritiesIntersect ==
    ASSUME NEW P \in SUBSET Server, NEW Q \in SUBSET Server, IsMajority(P), IsMajority(Q)
    PROVE  P \cap Q # {}
<1>1. IsFiniteSet(Server)
  BY RaftAssumption
<1>2. Cardinality(Server) \in Nat
  BY <1>1, FS_CardinalityType
<1>3. Cardinality(P) \in Nat /\ Cardinality(Q) \in Nat
  BY <1>1, FS_CardinalityType, FS_Subset
<1>4. Cardinality(P) + Cardinality(Q) > Cardinality(Server)
  BY <1>2, <1>3 DEF IsMajority
<1> QED BY <1>1, <1>4, FS_MajoritiesIntersect

LEMMA OneWinner == ASSUME ElectionInv PROVE ElectionSafety
<1> SUFFICES ASSUME NEW a \in elected, NEW b \in elected, a.term = b.term
             PROVE  a.node = b.node
  BY DEF ElectionSafety
<1>1. PICK P \in SUBSET Server :
         /\ IsMajority(P)
         /\ \A j \in P : [voter |-> j, term |-> a.term, candidate |-> a.node] \in cast
  BY DEF ElectionInv, WinnersHadVotes
<1>2. PICK Q \in SUBSET Server :
         /\ IsMajority(Q)
         /\ \A j \in Q : [voter |-> j, term |-> b.term, candidate |-> b.node] \in cast
  BY DEF ElectionInv, WinnersHadVotes
<1>3. PICK j \in P \cap Q : TRUE
  BY <1>1, <1>2, MajoritiesIntersect
<1> DEFINE p == [voter |-> j, term |-> a.term, candidate |-> a.node]
           q == [voter |-> j, term |-> b.term, candidate |-> b.node]
<1>4. p \in cast /\ q \in cast
  BY <1>1, <1>2, <1>3
<1>5. p.voter = q.voter /\ p.term = q.term /\ p.candidate = a.node /\ q.candidate = b.node
  OBVIOUS
<1> HIDE DEF p, q
<1> QED BY <1>4, <1>5 DEF ElectionInv, VoteInv, OneVotePerTerm

LEMMA InitElections == ASSUME Init PROVE ElectionInv
<1>1. VoteInv
  BY InitTyped DEF Init, VoteInv, VotesRemembered, OneVotePerTerm
<1>2. \A i \in Server : states[i] = "Follower"
  BY DEF Init
<1> QED BY <1>1, <1>2 DEF Init, ElectionInv, GrantsAreVotes, CountedAreVotes,
                          WinnersHadVotes

\* As long as no process restarts and no vote reply overtakes startElection, a term
\* has one leader at most, over any delay, loss and reordering of the RPCs.
THEOREM LeadersUnique ==
    ASSUME MaxRestarts = 0, ~SlowTicker
    PROVE  Spec => []ElectionSafety
<1>1. Init => ElectionInv
  BY InitElections
<1>2. ElectionInv /\ [Next]_vars => ElectionInv'
  BY NextElections
<1>3. ElectionInv => ElectionSafety
  BY OneWinner
<1> QED BY <1>1, <1>2, <1>3, PTL DEF Spec

-----------------------------------------------------------------------------
(* Logs match: an entry's index and term say what every log holds up to    *)
(* there, over any loss and reordering of AppendEntries, any snapshots and *)
(* slow senders, as long as no process restarts and the tally at the end   *)
(* of startElection follows its call at once.                              *)

(* Pieces of logs *)

\* A piece of a log: entries at the indices first .. last.  Of the one at `first'
\* only the term counts, as it may be a dummy or a prevLogTerm.
LogPiece(i) ==
    [first |-> lastSnapIndex[i], last |-> LastIndex(i),
     at |-> [k \in lastSnapIndex[i] .. LastIndex(i) |-> At(i, k)]]

\* What an AppendEntries carries.
CallPiece(m) ==
    [first |-> m.prevIndex, last |-> End(m),
     at |-> [k \in m.prevIndex .. End(m) |->
                IF k = m.prevIndex THEN Dummy(m.prevTerm)
                ELSE m.entries[k - m.prevIndex]]]

\* What a snapshot that ends at index k says of the log behind it.
SnapPiece(k, t) == [first |-> k, last |-> k, at |-> [n \in k .. k |-> Dummy(t)]]

\* All that is left anywhere of the logs of this run.
Pieces ==
    {LogPiece(i) : i \in Server}
    \cup {SnapPiece(lastSnapIndex[i], lastSnapTerm[i]) : i \in Server}
    \cup {CallPiece(m) : m \in {n \in messages : n.type = "AppendEntries"}}
    \cup {SnapPiece(m.lastSnapIndex, m.lastSnapTerm) :
             m \in {n \in messages : n.type = "InstallSnapshot"}}

Has(p, k) == k \in p.first .. p.last

Same(p, q, k) ==
    /\ p.at[k].term = q.at[k].term
    /\ k > p.first /\ k > q.first => p.at[k] = q.at[k]

\* Where p and q hold one term at an index, they are the same up to there.
Matches(p, q) ==
    \A k \in p.first .. p.last :
        Has(q, k) /\ p.at[k].term = q.at[k].term =>
            \A h \in p.first .. k : h >= q.first => Same(p, q, h)

-----------------------------------------------------------------------------
(* How pieces come from pieces *)

PieceOk(p) == p.first \in Nat /\ p.last \in Nat

\* p is cut out of q.
PartOf(p, q) ==
    /\ q.first <= p.first /\ p.last <= q.last
    /\ \A k \in p.first .. p.last :
          /\ p.at[k].term = q.at[k].term
          /\ k > p.first => p.at[k] = q.at[k]

\* p is a up to index j, where a and b have one term, and goes on with b.
Joins(p, a, b, j) ==
    /\ Has(a, j) /\ Has(b, j) /\ a.at[j].term = b.at[j].term
    /\ p.first = a.first /\ p.last <= b.last
    /\ \A k \in p.first .. p.last : p.at[k] = IF k <= j THEN a.at[k] ELSE b.at[k]

Derived(p, P) ==
    /\ PieceOk(p)
    /\ \/ \E q \in P : PartOf(p, q)
       \/ \E a \in P : \E b \in P : \E j \in Nat : Joins(p, a, b, j)

LEMMA MatchesBack ==
    ASSUME NEW p, NEW q, PieceOk(p), PieceOk(q), Matches(p, q)
    PROVE  Matches(q, p)
BY DEF PieceOk, Matches, Has, Same

LEMMA PartMatches ==
    ASSUME NEW p, NEW q, NEW c, PieceOk(p), PieceOk(q), PieceOk(c), PartOf(p, q),
           Matches(q, c)
    PROVE  Matches(p, c)
<1> SUFFICES ASSUME NEW k \in p.first .. p.last, Has(c, k),
                    p.at[k].term = c.at[k].term,
                    NEW h \in p.first .. k, h >= c.first
             PROVE  Same(p, c, h)
  BY DEF Matches
<1>1. k \in q.first .. q.last /\ h \in q.first .. k /\ h \in p.first .. p.last
  BY DEF PieceOk, PartOf
<1>2. q.at[k].term = c.at[k].term
  BY DEF PartOf
<1>3. Same(q, c, h)
  BY <1>1, <1>2 DEF Matches
<1>4. p.at[h].term = q.at[h].term /\ (h > p.first => p.at[h] = q.at[h])
  BY <1>1 DEF PartOf
<1>5. h > p.first => h > q.first
  BY <1>1 DEF PieceOk, PartOf
<1> QED BY <1>3, <1>4, <1>5 DEF Same

LEMMA JoinMatches ==
    ASSUME NEW p, NEW a, NEW b, NEW c, NEW j \in Nat,
           PieceOk(p), PieceOk(a), PieceOk(b), PieceOk(c),
           Joins(p, a, b, j), Matches(a, c), Matches(b, c)
    PROVE  Matches(p, c)
<1> SUFFICES ASSUME NEW k \in p.first .. p.last, Has(c, k),
                    p.at[k].term = c.at[k].term,
                    NEW h \in p.first .. k, h >= c.first
             PROVE  Same(p, c, h)
  BY DEF Matches
<1>1. /\ p.first = a.first /\ p.last <= b.last
      /\ a.first <= j /\ j <= a.last /\ b.first <= j /\ j <= b.last
      /\ a.at[j].term = b.at[j].term
      /\ h \in p.first .. p.last
      /\ p.at[k] = IF k <= j THEN a.at[k] ELSE b.at[k]
      /\ p.at[h] = IF h <= j THEN a.at[h] ELSE b.at[h]
  BY DEF Joins, Has, PieceOk
<1>2. k \in Nat /\ h \in Nat /\ c.first <= k /\ k <= c.last
  BY DEF PieceOk, Has
<1>3. ASSUME NEW n \in a.first .. a.last, Has(c, n), a.at[n].term = c.at[n].term,
             h <= n, h <= j
      PROVE  Same(p, c, h)
  <2>1. Same(a, c, h)
    BY <1>1, <1>2, <1>3 DEF Matches, PieceOk
  <2> QED BY <1>1, <1>3, <2>1 DEF Same
<1>4. CASE k <= j
  <2>1. k \in a.first .. a.last /\ h <= k /\ h <= j
    BY <1>1, <1>2, <1>4 DEF PieceOk
  <2> QED BY <1>1, <1>3, <1>4, <2>1
<1>5. CASE k > j
  <2>1. k \in b.first .. b.last /\ b.at[k].term = c.at[k].term
    BY <1>1, <1>2, <1>5 DEF PieceOk
  <2>2. CASE h > j
    <3>1. h \in b.first .. k /\ h > b.first
      BY <1>1, <1>2, <2>2 DEF PieceOk
    <3>2. Same(b, c, h)
      BY <2>1, <3>1 DEF Matches
    <3>3. p.at[h] = b.at[h]
      BY <1>1, <1>2, <2>2
    <3> QED BY <3>1, <3>2, <3>3 DEF Same
  <2>3. CASE h <= j
    <3>1. j \in b.first .. k /\ j >= c.first /\ Has(c, j) /\ j \in a.first .. a.last
      BY <1>1, <1>2, <1>5, <2>3 DEF PieceOk, Has
    <3>2. Same(b, c, j)
      BY <2>1, <3>1 DEF Matches
    <3>3. a.at[j].term = c.at[j].term
      BY <1>1, <3>2 DEF Same
    <3> QED BY <1>3, <2>3, <3>1, <3>3
  <2> QED BY <1>2, <2>2, <2>3
<1> QED BY <1>2, <1>4, <1>5

LEMMA DerivedMatches ==
    ASSUME NEW P, \A q \in P : PieceOk(q), NEW p, Derived(p, P),
           NEW c, PieceOk(c), \A q \in P : Matches(q, c)
    PROVE  Matches(p, c)
BY PartMatches, JoinMatches DEF Derived

\* Whatever is cut and joined from pieces that match, matches again.
LEMMA DerivedAllMatch ==
    ASSUME NEW P, \A q \in P : PieceOk(q), \A a \in P : \A b \in P : Matches(a, b),
           NEW p, Derived(p, P), NEW q, Derived(q, P)
    PROVE  Matches(p, q)
<1>1. PieceOk(p) /\ PieceOk(q)
  BY DEF Derived
<1>2. \A c \in P : Matches(q, c)
  BY DerivedMatches
<1>3. \A c \in P : Matches(c, q)
  BY <1>1, <1>2, MatchesBack
<1> QED BY <1>1, <1>3, DerivedMatches

\* What stands at an index of a derived piece stood there in an earlier one.
LEMMA DerivedMarks ==
    ASSUME NEW P, \A q \in P : PieceOk(q), NEW p, Derived(p, P), NEW k \in p.first .. p.last
    PROVE  \E q \in P : Has(q, k) /\ q.at[k].term = p.at[k].term
<1>1. CASE \E q \in P : PartOf(p, q)
  <2>1. PICK q \in P : PartOf(p, q)
    BY <1>1
  <2> QED BY <2>1 DEF Derived, PieceOk, PartOf, Has
<1>2. CASE \E a \in P : \E b \in P : \E j \in Nat : Joins(p, a, b, j)
  <2>1. PICK a \in P, b \in P, j \in Nat : Joins(p, a, b, j)
    BY <1>2
  <2>2. PieceOk(a) /\ PieceOk(b) /\ PieceOk(p)
    BY DEF Derived
  <2>3. CASE k <= j
    BY <2>1, <2>2, <2>3 DEF PieceOk, Joins, Has
  <2>4. CASE k > j
    BY <2>1, <2>2, <2>4 DEF PieceOk, Joins, Has
  <2>5. k \in Nat
    BY <2>2 DEF PieceOk
  <2> QED BY <2>3, <2>4, <2>5
<1> QED BY <1>1, <1>2 DEF Derived

LEMMA PieceDerived ==
    ASSUME NEW P, NEW p \in P, PieceOk(p)
    PROVE  Derived(p, P)
BY DEF Derived, PieceOk, PartOf

LEMMA PartDerived ==
    ASSUME NEW P, NEW q \in P, NEW p, PieceOk(p), PartOf(p, q)
    PROVE  Derived(p, P)
BY DEF Derived

-----------------------------------------------------------------------------
(* The inductive invariant *)

\* A term is won by the node that stood for it, which then stands for no such
\* election again; a leader leads a term it won.
WinnersStay ==
    /\ \A e \in elected :
          /\ 0 < e.term /\ e.term <= term[e.node]
          /\ e.term = term[e.node] => states[e.node] # "Candidate"
    /\ \A i \in Server :
          /\ states[i] = "Candidate" => term[i] > 0
          /\ states[i] = "Leader" => [node |-> i, term |-> term[i]] \in elected

PiecesTyped == \A p \in Pieces : PieceOk(p)

PiecesMatch == \A p \in Pieces : \A q \in Pieces : Matches(p, q)

\* Every term in a log but that of rf.log[0] was led by somebody.
TermsWereLed ==
    \A p \in Pieces : \A k \in p.first .. p.last :
        p.at[k].term = 0 \/ \E e \in elected : e.term = p.at[k].term

\* Nothing of a leader's term is beyond the end of its own log.
LeadersHoldTheirs ==
    \A p \in Pieces : \A i \in Server : \A k \in p.first .. p.last :
        states[i] = "Leader" /\ p.at[k].term = term[i] => k <= LastIndex(i)

LogInv ==
    /\ ElectionInv
    /\ WinnersStay
    /\ PiecesTyped
    /\ PiecesMatch
    /\ TermsWereLed
    /\ LeadersHoldTheirs

-----------------------------------------------------------------------------
(* Steps that cut and join *)

\* Every piece after the step comes from those before it.
OnlyDerived == \A p \in Pieces' : Derived(p, Pieces)

LEMMA MatchKept ==
    ASSUME PiecesTyped, PiecesMatch, OnlyDerived
    PROVE  PiecesTyped' /\ PiecesMatch'
<1>1. PiecesTyped'
  BY DEF PiecesTyped, OnlyDerived, Derived
<1>2. PiecesMatch'
  <2> SUFFICES ASSUME NEW p \in Pieces', NEW q \in Pieces'
               PROVE  Matches(p, q)
    BY DEF PiecesMatch
  <2>1. Derived(p, Pieces) /\ Derived(q, Pieces)
    BY DEF OnlyDerived
  <2> QED BY <2>1, DerivedAllMatch DEF PiecesTyped, PiecesMatch
<1> QED BY <1>1, <1>2

LEMMA MarksAreOld ==
    ASSUME PiecesTyped, OnlyDerived
    PROVE  \A p \in Pieces' : \A k \in p.first .. p.last :
              /\ k \in Int
              /\ \E q \in Pieces : k \in q.first .. q.last /\ q.at[k].term = p.at[k].term
<1> TAKE p \in Pieces'
<1> TAKE k \in p.first .. p.last
<1>1. Derived(p, Pieces)
  BY DEF OnlyDerived
<1>2. k \in Int
  BY <1>1 DEF Derived, PieceOk
<1> QED BY <1>1, <1>2, DerivedMarks DEF PiecesTyped, Has

LEMMA TermsKept ==
    ASSUME PiecesTyped, TermsWereLed, OnlyDerived, elected \subseteq elected'
    PROVE  TermsWereLed'
<1> SUFFICES ASSUME NEW p \in Pieces', NEW k \in p.first .. p.last
             PROVE  p.at[k].term = 0 \/ \E e \in elected' : e.term = p.at[k].term
  BY DEF TermsWereLed
<1>1. PICK q \in Pieces : k \in q.first .. q.last /\ q.at[k].term = p.at[k].term
  BY MarksAreOld
<1> QED BY <1>1 DEF TermsWereLed

\* Node i is the leader it was, and its log did not shrink.
LeadsOn(i) ==
    /\ states[i] = "Leader" /\ term'[i] = term[i]
    /\ LastIndex(i)' >= LastIndex(i)

LEMMA HoldersKept ==
    ASSUME TypeOK, PiecesTyped, LeadersHoldTheirs, OnlyDerived,
           \A i \in Server : LastIndex(i)' \in Nat,
           \A i \in Server : states'[i] = "Leader" => LeadsOn(i)
    PROVE  LeadersHoldTheirs'
<1> SUFFICES ASSUME NEW p \in Pieces', NEW i \in Server, NEW k \in p.first .. p.last,
                    states'[i] = "Leader", p.at[k].term = term'[i]
             PROVE  k <= LastIndex(i)'
  BY DEF LeadersHoldTheirs
<1>1. PICK q \in Pieces : k \in q.first .. q.last /\ q.at[k].term = p.at[k].term
  BY MarksAreOld
<1>2. LeadsOn(i) /\ LastIndex(i) \in Nat /\ LastIndex(i)' \in Nat
  BY LogFacts
<1>3. k <= LastIndex(i)
  BY <1>1, <1>2 DEF LeadersHoldTheirs, LeadsOn
<1>4. k \in Int
  BY MarksAreOld
<1> QED BY <1>2, <1>3, <1>4 DEF LeadsOn

\* A step after which every leader and candidate is what it was.
Steady ==
    /\ elected' = elected
    /\ \A j \in Server :
          /\ term'[j] >= term[j]
          /\ states'[j] # "Follower" => states'[j] = states[j] /\ term'[j] = term[j]

LEMMA WinnersKept ==
    ASSUME TypeOK, TypeOK', WinnersStay, Steady
    PROVE  WinnersStay'
<1>1. ASSUME NEW e \in elected'
      PROVE  /\ 0 < e.term /\ e.term <= term'[e.node]
             /\ e.term = term'[e.node] => states'[e.node] # "Candidate"
  <2>1. /\ e \in elected /\ e.node \in Server /\ e.term \in Nat
        /\ term[e.node] \in Nat /\ term'[e.node] \in Nat
    BY DEF Steady, TypeOK
  <2> QED BY <2>1 DEF Steady, WinnersStay
<1>2. ASSUME NEW i \in Server
      PROVE  /\ states'[i] = "Candidate" => term'[i] > 0
             /\ states'[i] = "Leader" => [node |-> i, term |-> term'[i]] \in elected'
  BY DEF Steady, WinnersStay
<1> QED BY <1>1, <1>2 DEF WinnersStay

LEMMA FallsBack ==
    ASSUME TypeOK, NEW i \in Server, NEW t \in Nat, elected' = elected,
           \/ UNCHANGED <<term, states>>
           \/ /\ t >= term[i]
              /\ term' = [term EXCEPT ![i] = t]
              /\ states' = [states EXCEPT ![i] = "Follower"]
    PROVE  Steady
<1> SUFFICES ASSUME NEW j \in Server
             PROVE  /\ term'[j] >= term[j]
                    /\ states'[j] # "Follower" =>
                          states'[j] = states[j] /\ term'[j] = term[j]
  BY DEF Steady
<1>1. term[j] \in Nat
  BY DEF TypeOK
<1>2. CASE UNCHANGED <<term, states>>
  BY <1>1, <1>2
<1>3. CASE /\ t >= term[i]
           /\ term' = [term EXCEPT ![i] = t]
           /\ states' = [states EXCEPT ![i] = "Follower"]
  <2>1. /\ term'[j] = IF j = i THEN t ELSE term[j]
        /\ states'[j] = IF j = i THEN "Follower" ELSE states[j]
    BY <1>3 DEF TypeOK
  <2> QED BY <1>1, <1>3, <2>1
<1> QED BY <1>2, <1>3

\* The steps that win nothing: the leaders' logs must not shrink.
LEMMA SteadySteps ==
    ASSUME LogInv, ElectionInv', Steady, OnlyDerived,
           \A i \in Server : states'[i] = "Leader" => LastIndex(i)' >= LastIndex(i),
           \A i \in Server : LastIndex(i)' \in Nat
    PROVE  LogInv'
<1>1. TypeOK /\ TypeOK' /\ elected \subseteq elected'
  BY DEF LogInv, ElectionInv, VoteInv, Steady
<1>2. WinnersStay'
  BY <1>1, WinnersKept DEF LogInv
<1>3. PiecesTyped' /\ PiecesMatch'
  BY MatchKept DEF LogInv
<1>4. TermsWereLed'
  BY <1>1, TermsKept DEF LogInv
<1>5. \A i \in Server : states'[i] = "Leader" => LeadsOn(i)
  BY DEF Steady, LeadsOn
<1>6. LeadersHoldTheirs'
  BY <1>1, <1>5, HoldersKept DEF LogInv
<1> QED BY <1>2, <1>3, <1>4, <1>6 DEF LogInv

-----------------------------------------------------------------------------
(* Elections *)

\* Node i, not yet or only a candidate in term t, is its candidate or leader now.
LEMMA StandsOrWins ==
    ASSUME LogInv, ElectionInv', ElectionSafety', OnlyDerived,
           NEW i \in Server, NEW t \in Nat, t > 0,
           \/ t > term[i]
           \/ t = term[i] /\ states[i] = "Candidate",
           term' = [term EXCEPT ![i] = t],
           \/ /\ states' = [states EXCEPT ![i] = "Candidate"]
              /\ elected' = elected
           \/ /\ states' = [states EXCEPT ![i] = "Leader"]
              /\ elected' = elected \cup {[node |-> i, term |-> t]},
           \A j \in Server : LastIndex(j)' = LastIndex(j)
    PROVE  LogInv'
<1> DEFINE won == [node |-> i, term |-> t]
<1>1. TypeOK /\ TypeOK' /\ elected \subseteq elected'
  BY DEF LogInv, ElectionInv, VoteInv
<1>2. won.node = i /\ won.term = t
  OBVIOUS
<1>3. /\ \A e \in elected' : e \in elected \/ (e = won /\ states'[i] = "Leader")
      /\ states'[i] = "Leader" => won \in elected'
      /\ states'[i] \in {"Candidate", "Leader"}
  BY <1>1 DEF TypeOK
<1> HIDE DEF won
<1>4. /\ term'[i] = t
      /\ \A j \in Server : j # i => term'[j] = term[j] /\ states'[j] = states[j]
  BY <1>1 DEF TypeOK
<1>5. \A j \in Server : term[j] \in Nat /\ LastIndex(j) \in Nat
  BY <1>1, LogFacts DEF TypeOK
\* i never won t before
<1>6. \A e \in elected : e.node = i => e.term < t
  <2> SUFFICES ASSUME NEW e \in elected, e.node = i PROVE e.term < t
    OBVIOUS
  <2>1. e.term \in Nat /\ e.term <= term[i] /\ (e.term = term[i] => states[i] # "Candidate")
    BY <1>1 DEF LogInv, WinnersStay, TypeOK
  <2> QED BY <1>5, <2>1
<1>7. WinnersStay'
  <2>1. ASSUME NEW e \in elected'
        PROVE  /\ 0 < e.term /\ e.term <= term'[e.node]
               /\ e.term = term'[e.node] => states'[e.node] # "Candidate"
    <3>1. CASE e \in elected /\ e.node # i
      <4>1. e.node \in Server
        BY <1>1, <3>1 DEF TypeOK
      <4> QED BY <1>4, <3>1, <4>1 DEF LogInv, WinnersStay
    <3>2. CASE e \in elected /\ e.node = i
      <4>1. 0 < e.term /\ e.term \in Nat
        BY <1>1, <3>2 DEF LogInv, WinnersStay, TypeOK
      <4> QED BY <1>4, <1>6, <3>2, <4>1
    <3>3. CASE e = won /\ states'[i] = "Leader"
      BY <1>2, <1>4, <3>3
    <3> QED BY <1>3, <3>1, <3>2, <3>3
  <2>2. ASSUME NEW j \in Server
        PROVE  /\ states'[j] = "Candidate" => term'[j] > 0
               /\ states'[j] = "Leader" => [node |-> j, term |-> term'[j]] \in elected'
    <3>1. CASE j = i
      BY <1>3, <1>4, <3>1 DEF won
    <3>2. CASE j # i
      BY <1>1, <1>4, <3>2 DEF LogInv, WinnersStay
    <3> QED BY <3>1, <3>2
  <2> QED BY <2>1, <2>2 DEF WinnersStay
<1>8. PiecesTyped' /\ PiecesMatch'
  BY MatchKept DEF LogInv
<1>9. TermsWereLed'
  BY <1>1, TermsKept DEF LogInv
<1>10. LeadersHoldTheirs'
  <2> SUFFICES ASSUME NEW p \in Pieces', NEW j \in Server, NEW k \in p.first .. p.last,
                      states'[j] = "Leader", p.at[k].term = term'[j]
               PROVE  k <= LastIndex(j)'
    BY DEF LeadersHoldTheirs
  <2>1. PICK q \in Pieces : k \in q.first .. q.last /\ q.at[k].term = p.at[k].term
    BY MarksAreOld DEF LogInv
  <2>2. CASE j # i
    BY <1>4, <2>1, <2>2 DEF LogInv, LeadersHoldTheirs
  <2>3. CASE j = i
    <3>1. PICK e \in elected : e.term = t
      BY <1>4, <2>1, <2>3 DEF LogInv, TermsWereLed
    <3>2. won \in elected' /\ e \in elected'
      BY <1>1, <1>3, <2>3, <3>1
    <3>3. e.node = i
      BY <1>2, <3>1, <3>2 DEF ElectionSafety
    <3> QED BY <1>6, <3>1, <3>3
  <2> QED BY <2>2, <2>3
<1> QED BY <1>7, <1>8, <1>9, <1>10 DEF LogInv

-----------------------------------------------------------------------------
(* The pieces after each step *)

LEMMA LengthsTyped ==
    ASSUME TypeOK'
    PROVE  \A i \in Server : LastIndex(i)' \in Nat /\ lastSnapIndex'[i] \in Nat
                             /\ LastIndex(i)' >= lastSnapIndex'[i]
<1> TAKE i \in Server
<1>1. log'[i] \in Seq(Entry) /\ log'[i] # <<>> /\ lastSnapIndex'[i] \in Nat
  BY DEF TypeOK
<1>2. Len(log'[i]) \in Nat /\ Len(log'[i]) >= 1
  BY <1>1, EmptySeq, LenProperties
<1> QED BY <1>1, <1>2 DEF LastIndex

LEMMA PieceTypes == ASSUME TypeOK PROVE PiecesTyped
<1>1. \A i \in Server : PieceOk(LogPiece(i))
  BY LogFacts DEF PieceOk, LogPiece
<1>2. \A i \in Server : PieceOk(SnapPiece(lastSnapIndex[i], lastSnapTerm[i]))
  BY LogFacts DEF PieceOk, SnapPiece
<1>3. ASSUME NEW m \in messages, m.type = "AppendEntries" PROVE PieceOk(CallPiece(m))
  <2>1. m.prevIndex \in Nat /\ Len(m.entries) \in Nat
    BY <1>3, MessageFacts, LenProperties
  <2> QED BY <2>1 DEF PieceOk, CallPiece, End
<1>4. ASSUME NEW m \in messages, m.type = "InstallSnapshot"
      PROVE  PieceOk(SnapPiece(m.lastSnapIndex, m.lastSnapTerm))
  BY <1>4, MessageFacts DEF PieceOk, SnapPiece
<1> QED BY <1>1, <1>2, <1>3, <1>4 DEF PiecesTyped, Pieces

LEMMA SameLogPiece ==
    ASSUME NEW i \in Server, log'[i] = log[i], lastSnapIndex'[i] = lastSnapIndex[i]
    PROVE  LogPiece(i)' = LogPiece(i) /\ LastIndex(i)' = LastIndex(i)
<1>1. LastIndex(i)' = LastIndex(i)
  BY DEF LastIndex
<1>2. \A k \in lastSnapIndex[i] .. LastIndex(i) : At(i, k)' = At(i, k)
  BY DEF At
<1>3. [k \in lastSnapIndex'[i] .. LastIndex(i)' |-> At(i, k)']
        = [k \in lastSnapIndex[i] .. LastIndex(i) |-> At(i, k)]
  BY <1>1, <1>2
<1> QED BY <1>1, <1>3 DEF LogPiece

\* The pieces after a step in which only node i may change its log, and only `new'
\* may be sent.
LEMMA PiecesAfter ==
    ASSUME NEW i, NEW new,
           \A j \in Server : j # i =>
               /\ log'[j] = log[j]
               /\ lastSnapIndex'[j] = lastSnapIndex[j]
               /\ lastSnapTerm'[j] = lastSnapTerm[j],
           \A m \in messages' :
               m \in messages \/ m.type \notin {"AppendEntries", "InstallSnapshot"} \/ m = new
    PROVE  \A p \in Pieces' :
              \/ p \in Pieces
              \/ i \in Server /\ p = LogPiece(i)'
              \/ i \in Server /\ p = SnapPiece(lastSnapIndex'[i], lastSnapTerm'[i])
              \/ new \in messages' /\ new.type = "AppendEntries" /\ p = CallPiece(new)
              \/ /\ new \in messages' /\ new.type = "InstallSnapshot"
                 /\ p = SnapPiece(new.lastSnapIndex, new.lastSnapTerm)
<1>1. \A m : CallPiece(m)' = CallPiece(m)
  BY DEF CallPiece, End, Dummy
<1>2. \A k : \A t : SnapPiece(k, t)' = SnapPiece(k, t)
  BY DEF SnapPiece, Dummy
<1>3. \A j \in Server : j # i => LogPiece(j)' = LogPiece(j)
  BY SameLogPiece
<1>4. \A p \in Pieces' :
        \/ \E j \in Server : p = LogPiece(j)'
        \/ \E j \in Server : p = SnapPiece(lastSnapIndex'[j], lastSnapTerm'[j])
        \/ \E m \in messages' : m.type = "AppendEntries" /\ p = CallPiece(m)
        \/ \E m \in messages' : m.type = "InstallSnapshot"
                                /\ p = SnapPiece(m.lastSnapIndex, m.lastSnapTerm)
  BY DEF Pieces
<1>5. /\ \A j \in Server : LogPiece(j) \in Pieces
      /\ \A j \in Server : SnapPiece(lastSnapIndex[j], lastSnapTerm[j]) \in Pieces
      /\ \A m \in messages : m.type = "AppendEntries" => CallPiece(m) \in Pieces
      /\ \A m \in messages : m.type = "InstallSnapshot" =>
            SnapPiece(m.lastSnapIndex, m.lastSnapTerm) \in Pieces
  BY DEF Pieces
<1> QED BY <1>3, <1>4, <1>5

\* A step that moves no entry.
QuietLogs ==
    /\ UNCHANGED <<log, lastSnapIndex, lastSnapTerm>>
    /\ \A m \in messages' :
          m \in messages \/ m.type \notin {"AppendEntries", "InstallSnapshot"}

LEMMA QuietSteps ==
    ASSUME TypeOK, QuietLogs
    PROVE  OnlyDerived /\ \A j \in Server : LastIndex(j)' = LastIndex(j)
<1>1. \A j \in Server : LogPiece(j)' = LogPiece(j) /\ LastIndex(j)' = LastIndex(j)
  BY SameLogPiece DEF QuietLogs
<1>2. ASSUME NEW p \in Pieces' PROVE p \in Pieces
  <2>1. CASE \E j \in Server : p = LogPiece(j)'
    BY <1>1, <2>1 DEF Pieces
  <2>2. CASE \E j \in Server : p = SnapPiece(lastSnapIndex'[j], lastSnapTerm'[j])
    BY <2>2 DEF Pieces, QuietLogs
  <2>3. CASE \E m \in messages' : m.type = "AppendEntries" /\ p = CallPiece(m)
    BY <2>3 DEF Pieces, QuietLogs
  <2>4. CASE \E m \in messages' : m.type = "InstallSnapshot"
                                  /\ p = SnapPiece(m.lastSnapIndex, m.lastSnapTerm)
    BY <2>4 DEF Pieces, QuietLogs
  <2> QED BY <2>1, <2>2, <2>3, <2>4 DEF Pieces
<1>3. OnlyDerived
  BY <1>2, PieceTypes, PieceDerived DEF OnlyDerived, PiecesTyped
<1> QED BY <1>1, <1>3

\* The end of a sequence, from position a on.
LEMMA TailFacts ==
    ASSUME NEW S, NEW s \in Seq(S), NEW a \in Nat, a >= 1, a <= Len(s) + 1
    PROVE  /\ SubSeq(s, a, Len(s)) \in Seq(S)
           /\ Len(SubSeq(s, a, Len(s))) = Len(s) - a + 1
           /\ \A n \in 1 .. Len(s) - a + 1 : SubSeq(s, a, Len(s))[n] = s[a + n - 1]
<1>1. Len(s) \in Nat
  BY LenProperties
<1>2. \A k \in a .. Len(s) : s[k] \in S
  BY <1>1, ElementOfSeq
<1> QED BY <1>1, <1>2, SubSeqProperties

\* An AppendEntries that carries the log of node i behind an index is a piece of it.
LEMMA CallIsPart ==
    ASSUME TypeOK, NEW i \in Server, NEW m,
           m.prevIndex \in lastSnapIndex[i] .. LastIndex(i),
           m.prevTerm = At(i, m.prevIndex).term,
           m.entries = SubSeq(log[i], m.prevIndex - lastSnapIndex[i] + 2, Len(log[i]))
    PROVE  PieceOk(CallPiece(m)) /\ PartOf(CallPiece(m), LogPiece(i))
<1> DEFINE prev == m.prevIndex
           first == lastSnapIndex[i]
           last == LastIndex(i)
           s == m.entries
<1>1. /\ first \in Nat /\ last \in Nat /\ Len(log[i]) \in Nat /\ log[i] \in Seq(Entry)
      /\ last = first + Len(log[i]) - 1 /\ prev \in first .. last
  BY LogFacts DEF LastIndex
<1>2. prev - first + 2 \in Nat /\ prev - first + 2 >= 1 /\ prev - first + 2 <= Len(log[i]) + 1
  BY SMTT(30), <1>1
<1>3. /\ Len(s) = Len(log[i]) - (prev - first + 2) + 1
      /\ \A n \in 1 .. Len(log[i]) - (prev - first + 2) + 1 :
            s[n] = log[i][(prev - first + 2) + n - 1]
  <2> DEFINE a == prev - first + 2
  <2>1. a \in Nat /\ a >= 1 /\ a <= Len(log[i]) + 1 /\ s = SubSeq(log[i], a, Len(log[i]))
    BY <1>2
  <2> HIDE DEF a, s
  <2>2. /\ Len(s) = Len(log[i]) - a + 1
        /\ \A n \in 1 .. Len(log[i]) - a + 1 : s[n] = log[i][a + n - 1]
    BY <1>1, <2>1, TailFacts
  <2> QED BY <2>2 DEF a
<1>4. CallPiece(m).first = prev /\ CallPiece(m).last = End(m)
      /\ LogPiece(i).first = first /\ LogPiece(i).last = last
  BY DEF CallPiece, LogPiece
<1> HIDE DEF prev, first, last, s
<1>5. End(m) = last
  <2>1. End(m) = prev + Len(s)
    BY DEF End, prev, s
  <2>2. prev \in Nat /\ Len(s) = Len(log[i]) - (prev - first + 2) + 1
    BY <1>1, <1>3
  <2> QED BY SMTT(30), <1>1, <2>1, <2>2
<1>6. ASSUME NEW k \in prev .. last
      PROVE  /\ CallPiece(m).at[k].term = LogPiece(i).at[k].term
             /\ k > prev => CallPiece(m).at[k] = LogPiece(i).at[k]
  <2>1. CallPiece(m).at[k] = IF k = prev THEN Dummy(m.prevTerm) ELSE s[k - prev]
    BY <1>5 DEF CallPiece, prev, s
  <2>2. LogPiece(i).at[k] = At(i, k)
    <3>1. k \in first .. last
      BY <1>1
    <3> QED BY <3>1 DEF LogPiece, first, last
  <2>3. CASE k = prev
    <3>1. Dummy(m.prevTerm).term = At(i, k).term
      BY <2>3 DEF Dummy, prev
    <3> QED BY <1>1, <2>1, <2>2, <2>3, <3>1
  <2>4. CASE k # prev
    <3>1. /\ k - prev \in 1 .. Len(log[i]) - (prev - first + 2) + 1
          /\ (prev - first + 2) + (k - prev) - 1 = k - first + 1
      BY <1>1, <2>4
    <3>2. s[k - prev] = log[i][k - first + 1]
      BY <1>3, <3>1
    <3> QED BY <2>1, <2>2, <2>4, <3>2 DEF At, first
  <2> QED BY <2>3, <2>4
<1>7. PieceOk(CallPiece(m))
  BY <1>1, <1>4, <1>5 DEF PieceOk
<1>8. PartOf(CallPiece(m), LogPiece(i))
  BY <1>1, <1>4, <1>5, <1>6 DEF PartOf
<1> QED BY <1>7, <1>8

\* A step that sends one message at most, which is a piece of what there was.
LEMMA SentPieces ==
    ASSUME TypeOK, UNCHANGED <<log, lastSnapIndex, lastSnapTerm>>,
           NEW new, messages' \subseteq messages \cup {new},
           new.type = "AppendEntries" => Derived(CallPiece(new), Pieces),
           new.type = "InstallSnapshot" =>
               SnapPiece(new.lastSnapIndex, new.lastSnapTerm) \in Pieces
    PROVE  OnlyDerived
<1> SUFFICES ASSUME NEW q \in Pieces' PROVE Derived(q, Pieces)
  BY DEF OnlyDerived
<1>1. PICK i \in Server : TRUE
  BY RaftAssumption
<1>2. LogPiece(i)' = LogPiece(i) /\ LogPiece(i) \in Pieces
  BY SameLogPiece DEF Pieces
<1>3. SnapPiece(lastSnapIndex'[i], lastSnapTerm'[i]) \in Pieces
  BY DEF Pieces
<1>4. q \in Pieces \/ (new.type = "AppendEntries" /\ q = CallPiece(new))
  BY <1>2, <1>3, PiecesAfter
<1> QED BY <1>4, PieceTypes, PieceDerived DEF PiecesTyped

\* What is sent is a piece of the sender's log.
LEMMA SendAppendPieces ==
    ASSUME TypeOK, NEW i \in Server, NEW j \in Server, SendAppend(i, j)
    PROVE  OnlyDerived /\ \A k \in Server : LastIndex(k)' = LastIndex(k)
<1> DEFINE next == nextIndex[i][j]
           prev == next - 1
           install == [type |-> "InstallSnapshot", from |-> i, to |-> j, awaited |-> TRUE,
                       term |-> term[i], lastSnapIndex |-> lastSnapIndex[i],
                       lastSnapTerm |-> lastSnapTerm[i], data |-> snap[i]]
           append == [type |-> "AppendEntries", from |-> i, to |-> j, awaited |-> TRUE,
                      term |-> term[i], prevIndex |-> prev,
                      prevTerm |-> At(i, prev).term,
                      entries |-> SubSeq(log[i], next - lastSnapIndex[i] + 1, Len(log[i])),
                      commit |-> commitIndex[i]]
<1>1. UNCHANGED <<log, lastSnapIndex, lastSnapTerm>>
  BY DEF SendAppend, logVars
<1>2. \A k \in Server : LastIndex(k)' = LastIndex(k)
  BY <1>1, SameLogPiece
<1>3. /\ next \in Nat /\ lastSnapIndex[i] \in Nat /\ LastIndex(i) \in Nat
  BY LogFacts DEF TypeOK
<1>4. CASE Send({install})
  <2>1. messages' \subseteq messages \cup {install}
    BY <1>4 DEF Send
  <2>2. /\ install.type = "InstallSnapshot" /\ install.lastSnapIndex = lastSnapIndex[i]
        /\ install.lastSnapTerm = lastSnapTerm[i]
    OBVIOUS
  <2> HIDE DEF install
  <2>3. SnapPiece(install.lastSnapIndex, install.lastSnapTerm) \in Pieces
    BY <2>2 DEF Pieces
  <2> QED BY <1>1, <1>2, <2>1, <2>2, <2>3, SentPieces
<1>5. CASE next > lastSnapIndex[i] /\ prev <= LastIndex(i) /\ Send({append})
  <2>1. messages' \subseteq messages \cup {append}
    BY <1>5 DEF Send
  <2>2. /\ append.type = "AppendEntries" /\ append.prevIndex = prev
        /\ append.prevTerm = At(i, prev).term
        /\ append.entries = SubSeq(log[i], next - lastSnapIndex[i] + 1, Len(log[i]))
    OBVIOUS
  <2>3. /\ prev \in lastSnapIndex[i] .. LastIndex(i)
        /\ next - lastSnapIndex[i] + 1 = prev - lastSnapIndex[i] + 2
    <3> HIDE DEF next
    <3> QED BY <1>3, <1>5
  <2> HIDE DEF append, prev, next
  <2>4. PieceOk(CallPiece(append)) /\ PartOf(CallPiece(append), LogPiece(i))
    BY <2>2, <2>3, CallIsPart
  <2>5. Derived(CallPiece(append), Pieces)
    BY <2>4, PartDerived DEF Pieces
  <2> QED BY <1>1, <1>2, <2>1, <2>2, <2>5, SentPieces
<1>6. CASE UNCHANGED messages
  BY <1>1, <1>6, QuietSteps DEF QuietLogs
<1> QED BY <1>4, <1>5, <1>6 DEF SendAppend

\* A piece of one index, with a term that q holds there.
LEMMA PointDerived ==
    ASSUME NEW P, NEW q \in P, NEW p, NEW k \in Nat, PieceOk(q), Has(q, k),
           p.first = k, p.last = k, p.at[k].term = q.at[k].term
    PROVE  Derived(p, P)
<1>1. PieceOk(p)
  BY DEF PieceOk
<1>2. PartOf(p, q)
  <2>1. q.first <= k /\ k <= q.last /\ q.first \in Nat /\ q.last \in Nat
    BY DEF Has, PieceOk
  <2>2. \A n \in k .. k : n = k
    OBVIOUS
  <2> QED BY <2>1, <2>2 DEF PartOf
<1> QED BY <1>1, <1>2, PartDerived

LEMMA SnapPieceFacts ==
    ASSUME NEW k \in Nat, NEW t
    PROVE  /\ SnapPiece(k, t).first = k /\ SnapPiece(k, t).last = k
           /\ SnapPiece(k, t).at[k].term = t
BY DEF SnapPiece, Dummy

\* The piece that a log is after a step.
LEMMA LogAfter ==
    ASSUME NEW i \in Server
    PROVE  /\ LogPiece(i)'.first = lastSnapIndex'[i] /\ LogPiece(i)'.last = LastIndex(i)'
           /\ \A k \in lastSnapIndex'[i] .. LastIndex(i)' :
                 LogPiece(i)'.at[k] = log'[i][k - lastSnapIndex'[i] + 1]
BY DEF LogPiece, At

LEMMA DummyLeft ==
    ASSUME NEW i \in Server, NEW n \in Nat, NEW t,
           log'[i] = <<Dummy(t)>>, lastSnapIndex'[i] = n
    PROVE  /\ LastIndex(i)' = n
           /\ LogPiece(i)'.first = n /\ LogPiece(i)'.last = n /\ LogPiece(i)'.at[n].term = t
<1>1. Len(log'[i]) = 1 /\ log'[i][1] = Dummy(t)
  OBVIOUS
<1>2. LastIndex(i)' = n
  BY <1>1 DEF LastIndex
<1>3. LogPiece(i)'.at[n] = log'[i][n - n + 1]
  <2>1. n \in n .. n
    OBVIOUS
  <2> QED BY <1>2, <2>1, LogAfter
<1>4. n - n + 1 = 1 /\ Dummy(t).term = t
  BY DEF Dummy
<1> QED BY <1>1, <1>2, <1>3, <1>4, LogAfter

\* A step that changes the log of node i alone and sends no part of it.
LEMMA OwnPieces ==
    ASSUME TypeOK, NEW i \in Server,
           \A j \in Server : j # i =>
               /\ log'[j] = log[j]
               /\ lastSnapIndex'[j] = lastSnapIndex[j]
               /\ lastSnapTerm'[j] = lastSnapTerm[j],
           \A m \in messages' :
               m \in messages \/ m.type \notin {"AppendEntries", "InstallSnapshot"},
           Derived(LogPiece(i)', Pieces),
           Derived(SnapPiece(lastSnapIndex'[i], lastSnapTerm'[i]), Pieces)
    PROVE  OnlyDerived
<1> SUFFICES ASSUME NEW p \in Pieces' PROVE Derived(p, Pieces)
  BY DEF OnlyDerived
<1> DEFINE none == [type |-> "none"]
<1>1. none.type = "none"
  OBVIOUS
<1> HIDE DEF none
<1>2. \/ p \in Pieces
      \/ p = LogPiece(i)'
      \/ p = SnapPiece(lastSnapIndex'[i], lastSnapTerm'[i])
  BY <1>1, PiecesAfter
<1> QED BY <1>2, PieceTypes, PieceDerived DEF PiecesTyped

\* The log that is left holds its last index with its last term.
LEMMA SnapshotPieces ==
    ASSUME TypeOK, NEW i \in Server, Snapshot(i)
    PROVE  OnlyDerived /\ \A j \in Server : LastIndex(j)' = LastIndex(j)
<1> DEFINE n == LastIndex(i)
           t == LastTerm(i)
<1>1. /\ log' = [log EXCEPT ![i] = <<Dummy(t)>>]
      /\ lastSnapIndex' = [lastSnapIndex EXCEPT ![i] = n]
      /\ lastSnapTerm' = [lastSnapTerm EXCEPT ![i] = t]
      /\ UNCHANGED messages
  BY DEF Snapshot
<1>2. n \in Nat /\ n \in lastSnapIndex[i] .. LastIndex(i) /\ t = At(i, n).term
  BY LogFacts DEF LastTerm
<1>3. LogPiece(i) \in Pieces /\ PieceOk(LogPiece(i)) /\ Has(LogPiece(i), n)
      /\ LogPiece(i).at[n].term = t
  BY <1>2, PieceTypes DEF Pieces, PiecesTyped, LogPiece, Has
<1> HIDE DEF n, t
<1>4. /\ log'[i] = <<Dummy(t)>> /\ lastSnapIndex'[i] = n /\ lastSnapTerm'[i] = t
      /\ \A j \in Server : j # i =>
            /\ log'[j] = log[j]
            /\ lastSnapIndex'[j] = lastSnapIndex[j]
            /\ lastSnapTerm'[j] = lastSnapTerm[j]
  BY <1>1 DEF TypeOK
<1>5. LastIndex(i)' = n
  BY <1>2, <1>4, DummyLeft
<1>6. LogPiece(i)'.first = n /\ LogPiece(i)'.last = n /\ LogPiece(i)'.at[n].term = t
  BY <1>2, <1>4, DummyLeft
<1>7. Derived(LogPiece(i)', Pieces)
  BY <1>2, <1>3, <1>6, PointDerived
<1>8. Derived(SnapPiece(lastSnapIndex'[i], lastSnapTerm'[i]), Pieces)
  <2>1. Derived(SnapPiece(n, t), Pieces)
    BY <1>2, <1>3, SnapPieceFacts, PointDerived
  <2> QED BY <1>4, <2>1
<1>9. OnlyDerived
  BY <1>1, <1>4, <1>7, <1>8, OwnPieces
<1>10. \A j \in Server : LastIndex(j)' = LastIndex(j)
  <2> TAKE j \in Server
  <2>1. CASE j = i
    BY <1>5, <2>1 DEF n
  <2>2. CASE j # i
    BY <1>4, <2>2, SameLogPiece
  <2> QED BY <2>1, <2>2
<1> QED BY <1>9, <1>10

\* The leaders' logs keep their length.
LeadersKeepLength == \A j \in Server : states'[j] = "Leader" => LastIndex(j)' >= LastIndex(j)

LEMMA SameLengths ==
    ASSUME TypeOK, \A j \in Server : states'[j] = "Leader" => LastIndex(j)' = LastIndex(j)
    PROVE  LeadersKeepLength
BY LogFacts DEF LeadersKeepLength

\* Index k is at position k - n + 1 of what is left from index n on.
LEMMA Shifted ==
    ASSUME NEW first \in Nat, NEW len \in Nat, NEW n \in Nat,
           NEW k \in n .. first + len - 1
    PROVE  /\ k - n + 1 \in 1 .. len - (n - first + 1) + 1
           /\ (n - first + 1) + (k - n + 1) - 1 = k - first + 1
OBVIOUS

\* Kept: the end of the log from the index of the snapshot on, or that index alone.
LEMMA InstallSnapshotPieces ==
    ASSUME TypeOK, NEW m \in messages, InstallSnapshot(m)
    PROVE  OnlyDerived /\ LeadersKeepLength
<1> DEFINE i == m.to
           n == m.lastSnapIndex
           t == m.lastSnapTerm
<1>1. /\ m.type = "InstallSnapshot" /\ i \in Server /\ n \in Nat
      /\ \A r \in messages' : r \in messages
                              \/ r.type \notin {"AppendEntries", "InstallSnapshot"}
  BY MessageFacts DEF InstallSnapshot, Reply
<1>2. /\ LogPiece(i) \in Pieces /\ PieceOk(LogPiece(i))
      /\ SnapPiece(n, t) \in Pieces /\ PieceOk(SnapPiece(n, t))
  <2>1. LogPiece(i) \in Pieces /\ SnapPiece(n, t) \in Pieces
    BY <1>1 DEF Pieces
  <2> QED BY <2>1, PieceTypes DEF PiecesTyped
<1>3. CASE UNCHANGED logVars
  <2>1. QuietLogs
    BY <1>1, <1>3 DEF QuietLogs, logVars
  <2> QED BY <2>1, QuietSteps, SameLengths
<1>4. CASE /\ n > lastSnapIndex[i]
           /\ states' = [states EXCEPT ![i] = "Follower"]
           /\ log' = [log EXCEPT ![i] = Kept(i, m)]
           /\ lastSnapIndex' = [lastSnapIndex EXCEPT ![i] = n]
           /\ lastSnapTerm' = [lastSnapTerm EXCEPT ![i] = t]
  <2>1. /\ log'[i] = Kept(i, m) /\ lastSnapIndex'[i] = n /\ lastSnapTerm'[i] = t
        /\ states'[i] = "Follower"
        /\ \A j \in Server : j # i =>
              /\ log'[j] = log[j]
              /\ lastSnapIndex'[j] = lastSnapIndex[j]
              /\ lastSnapTerm'[j] = lastSnapTerm[j]
    BY <1>1, <1>4 DEF TypeOK
  <2>2. LeadersKeepLength
    <3>1. \A j \in Server : j # i => LastIndex(j)' = LastIndex(j)
      BY <2>1, SameLogPiece
    <3> QED BY <2>1, <3>1, SameLengths
  <2>3. Derived(SnapPiece(lastSnapIndex'[i], lastSnapTerm'[i]), Pieces)
    <3>1. Derived(SnapPiece(n, t), Pieces)
      BY <1>2, PieceDerived
    <3> QED BY <2>1, <3>1
  <2>4. Derived(LogPiece(i)', Pieces)
    <3>1. CASE n < LastIndex(i)
      <4> DEFINE a == n - lastSnapIndex[i] + 1
                 s == SubSeq(log[i], a, Len(log[i]))
      <4>1. /\ log[i] \in Seq(Entry) /\ Len(log[i]) \in Nat /\ lastSnapIndex[i] \in Nat
            /\ LastIndex(i) = lastSnapIndex[i] + Len(log[i]) - 1 /\ LastIndex(i) \in Nat
        BY <1>1, LogFacts DEF LastIndex
      <4>2. a \in Nat /\ a >= 1 /\ a <= Len(log[i]) + 1 /\ a <= Len(log[i])
        BY SMTT(30), <1>1, <1>4, <3>1, <4>1
      <4>3. log'[i] = s
        BY <2>1, <3>1 DEF Kept
      <4> HIDE DEF a
      <4>4. /\ Len(s) = Len(log[i]) - a + 1
            /\ \A k \in 1 .. Len(log[i]) - a + 1 : s[k] = log[i][a + k - 1]
        BY <4>1, <4>2, TailFacts
      <4> HIDE DEF s
      <4>5. LastIndex(i)' = LastIndex(i)
        <5>1. LastIndex(i)' = n + Len(s) - 1
          BY <2>1, <4>3 DEF LastIndex
        <5>2. Len(s) = Len(log[i]) - (n - lastSnapIndex[i] + 1) + 1
          BY <4>4 DEF a
        <5> QED BY SMTT(30), <1>1, <4>1, <5>1, <5>2
      <4>6. ASSUME NEW k \in n .. LastIndex(i)
            PROVE  LogPiece(i)'.at[k] = LogPiece(i).at[k]
        <5>1. LogPiece(i)'.at[k] = s[k - n + 1]
          BY <1>1, <2>1, <4>3, <4>5, LogAfter
        <5>2. k - n + 1 \in 1 .. Len(log[i]) - a + 1
              /\ a + (k - n + 1) - 1 = k - lastSnapIndex[i] + 1
          <6>1. k \in n .. lastSnapIndex[i] + Len(log[i]) - 1
            BY <4>1
          <6>2. /\ k - n + 1 \in 1 .. Len(log[i]) - (n - lastSnapIndex[i] + 1) + 1
                /\ (n - lastSnapIndex[i] + 1) + (k - n + 1) - 1 = k - lastSnapIndex[i] + 1
            BY <1>1, <4>1, <6>1, Shifted
          <6> QED BY <6>2 DEF a
        <5>3. s[k - n + 1] = log[i][a + (k - n + 1) - 1]
          BY <4>4, <5>2
        <5>4. LogPiece(i).at[k] = At(i, k)
          <6>1. k \in lastSnapIndex[i] .. LastIndex(i)
            BY <1>1, <1>4, <4>1
          <6> QED BY <6>1 DEF LogPiece
        <5> QED BY <5>1, <5>2, <5>3, <5>4 DEF At
      <4>7. LogPiece(i)'.first = n /\ LogPiece(i)'.last = LastIndex(i)
        BY <1>1, <2>1, <4>5, LogAfter
      <4>8. LogPiece(i).first = lastSnapIndex[i] /\ LogPiece(i).last = LastIndex(i)
        BY DEF LogPiece
      <4>9. PieceOk(LogPiece(i)') /\ PartOf(LogPiece(i)', LogPiece(i))
        BY <1>1, <1>4, <4>1, <4>6, <4>7, <4>8 DEF PieceOk, PartOf
      <4> QED BY <1>2, <4>9, PartDerived
    <3>2. CASE ~(n < LastIndex(i))
      <4>1. log'[i] = <<Dummy(t)>>
        BY <2>1, <3>2 DEF Kept
      <4>2. LogPiece(i)'.first = n /\ LogPiece(i)'.last = n /\ LogPiece(i)'.at[n].term = t
        BY <1>1, <2>1, <4>1, DummyLeft
      <4>3. Has(SnapPiece(n, t), n) /\ SnapPiece(n, t).at[n].term = t
        BY <1>1, SnapPieceFacts DEF Has
      <4> QED BY <1>1, <1>2, <4>2, <4>3, PointDerived
    <3> QED BY <3>1, <3>2
  <2> QED BY <1>1, <2>1, <2>2, <2>3, <2>4, OwnPieces
<1>5. \/ UNCHANGED logVars
      \/ /\ ~(n <= lastSnapIndex[i])
         /\ states' = [states EXCEPT ![i] = "Follower"]
         /\ log' = [log EXCEPT ![i] = Kept(i, m)]
         /\ lastSnapIndex' = [lastSnapIndex EXCEPT ![i] = n]
         /\ lastSnapTerm' = [lastSnapTerm EXCEPT ![i] = t]
  BY DEF InstallSnapshot
<1>6. ~(n <= lastSnapIndex[i]) => n > lastSnapIndex[i]
  BY <1>1 DEF TypeOK
<1> QED BY <1>3, <1>4, <1>5, <1>6

LEMMA PrefixFacts ==
    ASSUME NEW S, NEW s \in Seq(S), NEW n \in Nat, n <= Len(s)
    PROVE  /\ Len(SubSeq(s, 1, n)) = n
           /\ \A k \in 1 .. n : SubSeq(s, 1, n)[k] = s[k]
<1>1. Len(s) \in Nat
  BY LenProperties
<1>2. \A k \in 1 .. n : s[k] \in S
  BY <1>1, ElementOfSeq
<1>3. n = 0 => SubSeq(s, 1, n) = <<>>
  OBVIOUS
<1> QED BY <1>1, <1>2, <1>3, SubSeqProperties

\* s up to position p, with the entries of new from the k-th on behind it.
Spliced(s, p, new, k) == SubSeq(s, 1, p) \o SubSeq(new, k, Len(new))

IsSpliced(l, s, p, new, k) ==
    /\ Len(l) = p + (Len(new) - k + 1)
    /\ \A x \in 1 .. p : l[x] = s[x]
    /\ \A x \in p + 1 .. p + (Len(new) - k + 1) : l[x] = new[k + (x - p) - 1]

LEMMA SplicedFacts ==
    ASSUME NEW S, NEW s \in Seq(S), NEW new \in Seq(S), NEW p \in Nat, p <= Len(s),
           NEW k \in 1 .. Len(new), NEW l, l = Spliced(s, p, new, k)
    PROVE  l \in Seq(S) /\ IsSpliced(l, s, p, new, k)
<1> DEFINE a == SubSeq(s, 1, p)
           b == SubSeq(new, k, Len(new))
           n == Len(new) - k + 1
<1>1. Len(new) \in Nat /\ Len(s) \in Nat /\ k \in Nat /\ k >= 1 /\ k <= Len(new) + 1 /\ n \in Nat
  BY LenProperties
<1>2. a \in Seq(S) /\ Len(a) = p /\ \A x \in 1 .. p : a[x] = s[x]
  BY <1>1, PrefixFacts, SliceFacts
<1>3. b \in Seq(S) /\ Len(b) = n /\ \A x \in 1 .. n : b[x] = new[k + x - 1]
  BY <1>1, TailFacts
<1> HIDE DEF a, b, n
<1>4. /\ a \o b \in Seq(S) /\ Len(a \o b) = p + n
      /\ \A x \in 1 .. p + n : (a \o b)[x] = IF x <= p THEN a[x] ELSE b[x - p]
  BY <1>2, <1>3, ConcatProperties
<1>5. \A x \in 1 .. p : (a \o b)[x] = s[x]
  BY <1>1, <1>2, <1>4
<1>6. \A x \in p + 1 .. p + n : (a \o b)[x] = new[k + (x - p) - 1]
  <2> TAKE x \in p + 1 .. p + n
  <2>1. x - p \in 1 .. n /\ x \in 1 .. p + n /\ ~(x <= p)
    BY <1>1
  <2> QED BY <1>3, <1>4, <2>1
<1>7. l = a \o b
  BY DEF a, b, Spliced
<1> HIDE DEF Spliced
<1> QED BY <1>4, <1>5, <1>6, <1>7 DEF n, IsSpliced

\* The same by index: s starts at index `first', new comes behind index prev.
LEMMA SplicedAt ==
    ASSUME NEW s, NEW new, NEW l, NEW first \in Nat, NEW prev \in Nat, prev >= first,
           NEW len \in Nat, NEW k \in 1 .. len,
           NEW p \in Nat, p = (prev - first + 1) + k - 1,
           \A x \in 1 .. p : l[x] = s[x],
           \A x \in p + 1 .. p + (len - k + 1) : l[x] = new[k + (x - p) - 1]
    PROVE  /\ first + (p + (len - k + 1)) - 1 = prev + len
           /\ \A idx \in first .. prev + len :
                 l[idx - first + 1] = IF idx <= prev + k - 1 THEN s[idx - first + 1]
                                      ELSE new[idx - prev]
<1>1. first + (p + (len - k + 1)) - 1 = prev + len
  OBVIOUS
<1>2. ASSUME NEW idx \in first .. prev + len
      PROVE  l[idx - first + 1] = IF idx <= prev + k - 1 THEN s[idx - first + 1]
                                  ELSE new[idx - prev]
  <2>1. CASE idx <= prev + k - 1
    <3>1. idx - first + 1 \in 1 .. p
      BY <2>1
    <3> QED BY <2>1, <3>1
  <2>2. CASE ~(idx <= prev + k - 1)
    <3>1. /\ idx - first + 1 \in p + 1 .. p + (len - k + 1)
          /\ k + ((idx - first + 1) - p) - 1 = idx - prev
      BY <2>2
    <3> QED BY <2>2, <3>1
  <2> QED BY <2>1, <2>2
<1> QED BY <1>1, <1>2

\* Merged: the log itself, or the log up to an index where it agrees with the message
\* and the message from there on; then, maybe, cut short.
LEMMA MergedShape ==
    ASSUME TypeOK, NEW i \in Server, NEW m \in messages, m.type = "AppendEntries",
           m.prevIndex \in lastSnapIndex[i] .. LastIndex(i)
    PROVE  LET start == m.prevIndex - lastSnapIndex[i] + 1
               new == m.entries
           IN  \E l \in Seq(Entry) :
                 /\ \/ l = log[i]
                    \/ \E k \in 1 .. Len(new) :
                          /\ k = 1 \/ Agrees(i, m, k - 1)
                          /\ l = Spliced(log[i], start + k - 1, new, k)
                 /\ \E n \in Nat :
                       /\ n <= Len(l) /\ Len(Merged(i, m)) = n
                       /\ \A x \in 1 .. n : Merged(i, m)[x] = l[x]
<1> DEFINE start == m.prevIndex - lastSnapIndex[i] + 1
           new == m.entries
           firsts == {n \in 1 .. Len(new) : /\ ~Agrees(i, m, n)
                                           /\ \A h \in 1 .. n - 1 : Agrees(i, m, h)}
           joined(k) == Spliced(log[i], start + k - 1, new, k)
           overwritten == {joined(k) : k \in firsts}
           merged == IF overwritten = {} THEN log[i] ELSE CHOOSE l \in overwritten : TRUE
           newLen == End(m) + 1
<1>1. /\ log[i] \in Seq(Entry) /\ Len(log[i]) \in Nat /\ lastSnapIndex[i] \in Nat
      /\ new \in Seq(Entry) /\ Len(new) \in Nat /\ m.prevIndex \in Nat
      /\ start \in Nat /\ start <= Len(log[i])
  <2>1. /\ log[i] \in Seq(Entry) /\ Len(log[i]) \in Nat /\ lastSnapIndex[i] \in Nat
        /\ new \in Seq(Entry) /\ Len(new) \in Nat /\ m.prevIndex \in Nat
    BY LogFacts, MessageFacts, LenProperties
  <2> QED BY SMTT(30), <2>1 DEF LastIndex
<1>2. ASSUME NEW k \in firsts
      PROVE  k \in 1 .. Len(new) /\ (k = 1 \/ Agrees(i, m, k - 1)) /\ joined(k) \in Seq(Entry)
  <2>1. k \in 1 .. Len(new)
    OBVIOUS
  <2>2. k = 1 \/ Agrees(i, m, k - 1)
    <3>1. k # 1 => k - 1 \in 1 .. k - 1
      BY <1>1, <2>1
    <3> QED BY <3>1
  <2>3. start + k - 1 \in Nat /\ start + k - 1 <= Len(log[i])
    <3>1. k \in Nat /\ k >= 1
      BY <1>1, <2>1
    <3>2. CASE k = 1
      BY <1>1, <3>2
    <3>3. CASE k # 1
      <4>1. m.prevIndex - lastSnapIndex[i] + 1 + (k - 1) <= Len(log[i])
        BY <2>2, <3>3 DEF Agrees
      <4> QED BY <1>1, <3>1, <4>1
    <3> QED BY <3>2, <3>3
  <2> HIDE DEF start, new, firsts
  <2>4. joined(k) \in Seq(Entry)
    BY <1>1, <2>1, <2>3, SplicedFacts
  <2> QED BY <2>1, <2>2, <2>4
<1>3. /\ merged \in Seq(Entry)
      /\ \/ merged = log[i]
         \/ \E k \in 1 .. Len(new) : (k = 1 \/ Agrees(i, m, k - 1)) /\ merged = joined(k)
  <2>1. CASE overwritten = {}
    BY <1>1, <2>1
  <2>2. CASE overwritten # {}
    <3>1. (CHOOSE l \in overwritten : TRUE) \in overwritten
      BY <2>2
    <3>2. PICK k \in firsts : (CHOOSE l \in overwritten : TRUE) = joined(k)
      BY <3>1
    <3> HIDE DEF overwritten, joined, firsts, start, new
    <3> QED BY <1>2, <2>2, <3>2
  <2> QED BY <2>1, <2>2
<1>4. newLen \in Nat
  BY <1>1 DEF End
<1>5. Merged(i, m) = IF new # <<>> /\ newLen < Len(merged)
                     THEN SubSeq(merged, 1, newLen) ELSE merged
  BY DEF Merged, Cuts, Spliced
<1>6. \E n \in Nat : /\ n <= Len(merged) /\ Len(Merged(i, m)) = n
                     /\ \A x \in 1 .. n : Merged(i, m)[x] = merged[x]
  <2> HIDE DEF merged, newLen, new
  <2>1. Len(merged) \in Nat
    BY <1>3, LenProperties
  <2>2. CASE Merged(i, m) = merged
    BY <2>1, <2>2
  <2>3. CASE newLen < Len(merged) /\ Merged(i, m) = SubSeq(merged, 1, newLen)
    <3>1. newLen <= Len(merged)
      BY <1>4, <2>1, <2>3
    <3> QED BY <1>3, <1>4, <2>3, <3>1, PrefixFacts
  <2> QED BY <1>5, <2>2, <2>3
<1> HIDE DEF merged, newLen, firsts, overwritten
<1> QED BY <1>3, <1>6

\* AppendEntries: the log of node i after the entries of m, which continues what it
\* holds at m.prevIndex, were matched, joined and cut.
LEMMA MergedDerived ==
    ASSUME TypeOK, NEW i \in Server, NEW m \in messages, m.type = "AppendEntries",
           m.prevIndex \in lastSnapIndex[i] .. LastIndex(i),
           At(i, m.prevIndex).term = m.prevTerm,
           log'[i] = Merged(i, m), lastSnapIndex'[i] = lastSnapIndex[i]
    PROVE  Derived(LogPiece(i)', Pieces)
<1> DEFINE first == lastSnapIndex[i]
           prev == m.prevIndex
           start == prev - first + 1
           new == m.entries
           len == Len(new)
           q == LogPiece(i)
           c == CallPiece(m)
           p == LogPiece(i)'
<1>1. /\ log[i] \in Seq(Entry) /\ Len(log[i]) \in Nat /\ first \in Nat /\ LastIndex(i) \in Nat
      /\ LastIndex(i) = first + Len(log[i]) - 1
      /\ new \in Seq(Entry) /\ len \in Nat /\ prev \in Nat
      /\ prev >= first /\ prev <= LastIndex(i)
  <2>1. /\ log[i] \in Seq(Entry) /\ Len(log[i]) \in Nat /\ first \in Nat
        /\ LastIndex(i) \in Nat /\ LastIndex(i) = first + Len(log[i]) - 1
    BY LogFacts DEF LastIndex
  <2>2. new \in Seq(Entry) /\ len \in Nat /\ prev \in Nat
    BY MessageFacts, LenProperties
  <2> QED BY <2>1, <2>2
<1>2. PICK l \in Seq(Entry) :
        /\ \/ l = log[i]
           \/ \E k \in 1 .. len : /\ k = 1 \/ Agrees(i, m, k - 1)
                                  /\ l = Spliced(log[i], start + k - 1, new, k)
        /\ \E n \in Nat : /\ n <= Len(l) /\ Len(Merged(i, m)) = n
                          /\ \A x \in 1 .. n : Merged(i, m)[x] = l[x]
  BY MergedShape
<1>3. PICK n \in Nat :
        n <= Len(l) /\ Len(log'[i]) = n /\ \A x \in 1 .. n : log'[i][x] = l[x]
  BY <1>2
<1>4. /\ q \in Pieces /\ q.first = first /\ q.last = LastIndex(i)
      /\ \A k \in first .. LastIndex(i) : q.at[k] = log[i][k - first + 1]
  BY DEF Pieces, LogPiece, At
<1>5. /\ c \in Pieces /\ c.first = prev /\ c.last = prev + len
      /\ \A k \in prev .. prev + len :
            c.at[k] = IF k = prev THEN Dummy(m.prevTerm) ELSE new[k - prev]
  BY DEF Pieces, CallPiece, End
<1>6. /\ p.first = first /\ p.last = first + n - 1
      /\ \A k \in first .. first + n - 1 : p.at[k] = log'[i][k - first + 1]
  <2>1. LastIndex(i)' = first + n - 1
    BY <1>3 DEF LastIndex
  <2> QED BY <2>1, LogAfter
<1>7. log[i][prev - first + 1].term = m.prevTerm /\ Dummy(m.prevTerm).term = m.prevTerm
  BY DEF At, Dummy
<1>8. n >= 1 /\ Len(l) \in Nat
  <2>1. Merged(i, m) # <<>> /\ Merged(i, m) \in Seq(Entry)
    BY MergedTyped
  <2> QED BY <1>3, <2>1, EmptySeq, LenProperties
<1>9. \A k \in 1 .. len : Agrees(i, m, k) =>
         start + k <= Len(log[i]) /\ log[i][start + k].term = new[k].term
  BY DEF Agrees
<1> HIDE DEF first, prev, start, new, len, q, c, p
<1>10. start = prev - first + 1
  BY DEF start
<1>11. PieceOk(p)
  BY <1>1, <1>6, <1>8 DEF PieceOk
<1>12. ASSUME NEW k \in first .. first + n - 1
       PROVE  k - first + 1 \in 1 .. n /\ k \in Nat
  BY <1>1
<1>13. ASSUME l = log[i] PROVE Derived(p, Pieces)
  <2>1. PartOf(p, q)
    <3>1. q.first <= p.first /\ p.last <= q.last
      BY <1>1, <1>3, <1>4, <1>6, <1>13
    <3>2. \A k \in first .. first + n - 1 : p.at[k] = q.at[k]
      <4> TAKE k \in first .. first + n - 1
      <4>1. k \in first .. LastIndex(i)
        BY <1>1, <1>3, <1>13
      <4> QED BY <1>3, <1>4, <1>6, <1>12, <1>13, <4>1
    <3> QED BY <1>6, <3>1, <3>2 DEF PartOf
  <2> QED BY <1>4, <1>11, <2>1 DEF Derived
<1>14. ASSUME NEW k \in 1 .. len, k = 1 \/ Agrees(i, m, k - 1),
              l = Spliced(log[i], start + k - 1, new, k)
       PROVE  Derived(p, Pieces)
  <2> DEFINE j == prev + k - 1
             pos == start + k - 1
  <2>1. k \in Nat /\ k >= 1 /\ k <= len /\ j \in Nat /\ pos \in Nat
    BY SMTT(30), <1>1, <1>10
  <2>2. pos <= Len(log[i]) /\ log[i][pos].term = c.at[j].term
    <3>1. CASE k = 1
      <4>1. pos = start /\ j = prev
        BY <1>1, <1>10, <3>1
      <4>2. start <= Len(log[i]) /\ prev \in prev .. prev + len
        BY <1>1, <1>10
      <4>3. c.at[prev].term = m.prevTerm
        BY <1>5, <1>7, <4>2
      <4>4. log[i][start].term = m.prevTerm
        BY <1>7, <1>10
      <4> QED BY <4>1, <4>2, <4>3, <4>4
    <3>2. CASE k # 1
      <4>1. k - 1 \in 1 .. len /\ start + (k - 1) = pos
        BY SMTT(30), <1>1, <1>10, <2>1, <3>2
      <4>2. pos <= Len(log[i]) /\ log[i][pos].term = new[k - 1].term
        BY <1>9, <1>14, <3>2, <4>1
      <4>3. j \in prev .. prev + len /\ j # prev /\ j - prev = k - 1
        BY <1>1, <2>1, <3>2
      <4> QED BY <1>5, <4>2, <4>3
    <3> QED BY <3>1, <3>2
  <2>3. /\ first + Len(l) - 1 = prev + len
        /\ \A idx \in first .. prev + len :
              l[idx - first + 1] = IF idx <= j THEN log[i][idx - first + 1] ELSE new[idx - prev]
    <3>1. l = Spliced(log[i], pos, new, k)
      BY <1>14
    <3>2. len = Len(new) /\ k \in 1 .. Len(new) /\ k \in 1 .. len
      BY DEF len
    <3>3. pos = (prev - first + 1) + k - 1
      BY <1>10
    <3>4. pos \in Nat /\ pos <= Len(log[i])
      BY <2>1, <2>2
    <3>5. j = prev + k - 1
      OBVIOUS
    <3> HIDE DEF pos, j
    <3>6. IsSpliced(l, log[i], pos, new, k)
      BY <1>1, <3>1, <3>2, <3>4, SplicedFacts
    <3>7. /\ Len(l) = pos + (len - k + 1)
          /\ \A x \in 1 .. pos : l[x] = log[i][x]
          /\ \A x \in pos + 1 .. pos + (len - k + 1) : l[x] = new[k + (x - pos) - 1]
      BY <3>2, <3>6 DEF IsSpliced
    <3>8. /\ first + (pos + (len - k + 1)) - 1 = prev + len
          /\ \A idx \in first .. prev + len :
                l[idx - first + 1] = IF idx <= prev + k - 1 THEN log[i][idx - first + 1]
                                     ELSE new[idx - prev]
      BY SMTT(30), <1>1, <3>2, <3>3, <3>4, <3>7, SplicedAt
    <3> QED BY <3>5, <3>7, <3>8
  <2>4. p.last <= c.last
    BY <1>1, <1>3, <1>5, <1>6, <1>8, <2>3
  <2>5. Has(q, j) /\ Has(c, j) /\ q.at[j].term = c.at[j].term
    <3>1. j \in first .. LastIndex(i) /\ j - first + 1 = pos
      <4>1. j = prev + k - 1 /\ pos = prev - first + 1 + k - 1
        BY <1>10
      <4>2. pos <= Len(log[i]) /\ k \in Nat /\ k >= 1
        BY <2>1, <2>2
      <4> HIDE DEF j, pos
      <4> QED BY <1>1, <4>1, <4>2
    <3>2. j \in prev .. prev + len
      BY <1>1, <2>1
    <3> QED BY <1>4, <1>5, <2>2, <3>1, <3>2 DEF Has
  <2> HIDE DEF j, pos
  <2>6. ASSUME NEW idx \in first .. first + n - 1
        PROVE  p.at[idx] = IF idx <= j THEN q.at[idx] ELSE c.at[idx]
    <3>1. idx \in Nat /\ idx >= first /\ idx <= prev + len
      BY <1>1, <1>5, <1>6, <2>4
    <3>2. l[idx - first + 1] = IF idx <= j THEN log[i][idx - first + 1] ELSE new[idx - prev]
      BY <1>1, <2>3, <3>1
    <3>3. p.at[idx] = l[idx - first + 1]
      BY <1>3, <1>6, <1>12
    <3>4. CASE idx <= j
      <4>1. idx \in first .. LastIndex(i)
        BY <1>1, <1>4, <2>1, <2>5, <3>1, <3>4 DEF Has
      <4> QED BY <1>4, <3>2, <3>3, <3>4, <4>1
    <3>5. CASE ~(idx <= j)
      <4>1. idx \in prev .. prev + len /\ idx # prev
        <5>1. prev <= j
          BY <1>5, <2>1, <2>5 DEF Has
        <5> QED BY SMTT(30), <1>1, <2>1, <3>1, <3>5, <5>1
      <4> QED BY <1>5, <3>2, <3>3, <3>5, <4>1
    <3> QED BY <3>4, <3>5
  <2>7. Joins(p, q, c, j)
    BY <1>4, <1>6, <2>4, <2>5, <2>6 DEF Joins
  <2> QED BY <1>4, <1>5, <1>11, <2>1, <2>7 DEF Derived
<1>15. Derived(p, Pieces)
  <2>1. ASSUME NEW k \in 1 .. len,
               /\ k = 1 \/ Agrees(i, m, k - 1)
               /\ l = Spliced(log[i], start + k - 1, new, k)
        PROVE  Derived(p, Pieces)
    BY <1>14, <2>1
  <2> QED BY <1>2, <1>13, <2>1
<1> QED BY <1>15 DEF p

\* The handler of a heartbeat leaves its log alone, or joins it with what it was sent;
\* either way it does not lead any more.
LEMMA AppendEntriesPieces ==
    ASSUME TypeOK, NEW m \in messages, AppendEntries(m)
    PROVE  OnlyDerived /\ LeadersKeepLength
<1> DEFINE i == m.to
<1>1. /\ m.type = "AppendEntries" /\ i \in Server
      /\ UNCHANGED <<lastSnapIndex, lastSnapTerm>>
  BY MessageFacts DEF AppendEntries
<1>2. \A r \in messages' : r \in messages \/ r.type \notin {"AppendEntries", "InstallSnapshot"}
  BY DEF AppendEntries, Follow, AnswerAppend, Reply, Discard
<1>3. CASE UNCHANGED log
  <2>1. QuietLogs
    BY <1>1, <1>2, <1>3 DEF QuietLogs
  <2> QED BY <2>1, QuietSteps, SameLengths
<1>4. CASE /\ m.prevIndex \in lastSnapIndex[i] .. LastIndex(i)
           /\ At(i, m.prevIndex).term = m.prevTerm
           /\ log' = [log EXCEPT ![i] = Merged(i, m)]
           /\ states' = [states EXCEPT ![i] = "Follower"]
  <2>1. /\ log'[i] = Merged(i, m) /\ states'[i] = "Follower"
        /\ \A j \in Server : j # i => log'[j] = log[j]
    BY <1>1, <1>4 DEF TypeOK
  <2>2. LeadersKeepLength
    <3>1. \A j \in Server : j # i => LastIndex(j)' = LastIndex(j)
      BY <1>1, <2>1, SameLogPiece
    <3> QED BY <2>1, <3>1, SameLengths
  <2>3. Derived(LogPiece(i)', Pieces)
    BY <1>1, <1>4, <2>1, MergedDerived
  <2>4. Derived(SnapPiece(lastSnapIndex'[i], lastSnapTerm'[i]), Pieces)
    <3>1. SnapPiece(lastSnapIndex[i], lastSnapTerm[i]) \in Pieces
      BY <1>1 DEF Pieces
    <3> QED BY <1>1, <3>1, PieceTypes, PieceDerived DEF PiecesTyped
  <2> QED BY <1>1, <1>2, <2>1, <2>2, <2>3, <2>4, OwnPieces
<1> QED BY <1>3, <1>4 DEF AppendEntries, Follow

\* p is q with one entry more, whose term c holds nowhere behind q.
LEMMA ExtendedMatches ==
    ASSUME NEW p, NEW q, NEW c, PieceOk(p), PieceOk(q), PieceOk(c),
           p.first = q.first, p.last = q.last + 1,
           \A k \in q.first .. q.last : p.at[k] = q.at[k],
           \A k \in c.first .. c.last : c.at[k].term = p.at[p.last].term => k <= q.last,
           Matches(q, c)
    PROVE  Matches(p, c)
<1> SUFFICES ASSUME NEW k \in p.first .. p.last, Has(c, k),
                    p.at[k].term = c.at[k].term,
                    NEW h \in p.first .. k, h >= c.first
             PROVE  Same(p, c, h)
  BY DEF Matches
<1>1. k # p.last
  <2> SUFFICES ASSUME k = p.last PROVE FALSE
    OBVIOUS
  <2>1. k <= q.last
    BY DEF Has
  <2> QED BY <2>1 DEF PieceOk
<1>2. k \in q.first .. q.last /\ h \in q.first .. k /\ h \in q.first .. q.last
  BY <1>1 DEF PieceOk
<1>3. p.at[k] = q.at[k] /\ p.at[h] = q.at[h]
  BY <1>2
<1>4. Same(q, c, h)
  BY <1>2, <1>3 DEF Matches
<1> QED BY <1>3, <1>4 DEF Same

LEMMA MatchesItself == ASSUME NEW p PROVE Matches(p, p)
BY DEF Matches, Same

\* A command on a leader: no log holds anything of its term behind its own.
LEMMA StartLogs ==
    ASSUME LogInv, ElectionInv', NEW i \in Server, NEW v \in Value, Start(i, v)
    PROVE  LogInv'
<1> DEFINE q == LogPiece(i)
           p == LogPiece(i)'
           n == LastIndex(i) + 1
           e == [term |-> term[i], command |-> v]
<1>1. /\ TypeOK /\ TypeOK' /\ ElectionSafety /\ states[i] = "Leader"
      /\ log' = [log EXCEPT ![i] = Append(log[i], e)]
      /\ UNCHANGED <<term, states, elected, messages, lastSnapIndex, lastSnapTerm>>
  BY OneWinner DEF LogInv, ElectionInv, VoteInv, Start, electionVars
<1>2. /\ log[i] \in Seq(Entry) /\ Len(log[i]) \in Nat /\ lastSnapIndex[i] \in Nat
      /\ LastIndex(i) \in Nat /\ LastIndex(i) = lastSnapIndex[i] + Len(log[i]) - 1
      /\ LastIndex(i) >= lastSnapIndex[i]
  BY <1>1, LogFacts DEF LastIndex
<1>3. /\ log'[i] = Append(log[i], e)
      /\ \A j \in Server : j # i => log'[j] = log[j]
  BY <1>1 DEF TypeOK
<1>4. e \in Entry /\ e.term = term[i]
  BY <1>1 DEF TypeOK, Entry
<1> HIDE DEF e
<1>5. /\ Len(log'[i]) = Len(log[i]) + 1
      /\ \A x \in 1 .. Len(log[i]) : log'[i][x] = log[i][x]
      /\ log'[i][Len(log[i]) + 1] = e
  BY <1>2, <1>3, <1>4, AppendProperties
<1>6. LastIndex(i)' = n
  <2>1. LastIndex(i)' = lastSnapIndex[i] + Len(log'[i]) - 1
    BY <1>1 DEF LastIndex
  <2> QED BY <1>2, <1>5, <2>1
<1>7. /\ q.first = lastSnapIndex[i] /\ q.last = LastIndex(i)
      /\ \A k \in lastSnapIndex[i] .. LastIndex(i) : q.at[k] = log[i][k - lastSnapIndex[i] + 1]
      /\ q \in Pieces
  BY DEF LogPiece, At, Pieces
<1>8. /\ p.first = lastSnapIndex[i] /\ p.last = n
      /\ \A k \in lastSnapIndex[i] .. n : p.at[k] = log'[i][k - lastSnapIndex[i] + 1]
  <2>1. lastSnapIndex'[i] = lastSnapIndex[i]
    BY <1>1
  <2> HIDE DEF n
  <2> QED BY <1>6, <2>1, LogAfter
<1> HIDE DEF p, q
<1>9. \A k \in q.first .. q.last : p.at[k] = q.at[k]
  <2> TAKE k \in q.first .. q.last
  <2>1. k \in lastSnapIndex[i] .. LastIndex(i) /\ k \in lastSnapIndex[i] .. n
        /\ k - lastSnapIndex[i] + 1 \in 1 .. Len(log[i])
    BY <1>2, <1>7
  <2> QED BY <1>5, <1>7, <1>8, <2>1
<1>10. p.at[n].term = term[i]
  <2>1. n \in lastSnapIndex[i] .. n /\ n - lastSnapIndex[i] + 1 = Len(log[i]) + 1
    BY <1>2
  <2> QED BY <1>4, <1>5, <1>8, <2>1
<1>11. PieceOk(p) /\ p.last = q.last + 1 /\ p.first = q.first
  BY <1>2, <1>7, <1>8 DEF PieceOk
<1>12. \A x \in Pieces' : x \in Pieces \/ x = p
  <2>1. \A x \in Pieces' : \/ x \in Pieces \/ x = p
                           \/ x = SnapPiece(lastSnapIndex'[i], lastSnapTerm'[i])
    <3> DEFINE none == [type |-> "none"]
    <3>1. none.type = "none"
      OBVIOUS
    <3> HIDE DEF none
    <3> QED BY <1>1, <1>3, <3>1, PiecesAfter DEF p
  <2>2. SnapPiece(lastSnapIndex'[i], lastSnapTerm'[i]) \in Pieces
    BY <1>1 DEF Pieces
  <2> QED BY <2>1, <2>2
<1>13. \A x \in Pieces : PieceOk(x)
  BY DEF LogInv, PiecesTyped
<1>14. PiecesTyped'
  BY <1>11, <1>12, <1>13 DEF PiecesTyped
<1>15. PiecesMatch'
  <2>1. ASSUME NEW x \in Pieces PROVE Matches(p, x) /\ Matches(x, p)
    <3>1. \A k \in x.first .. x.last : x.at[k].term = p.at[p.last].term => k <= q.last
      BY <1>1, <1>7, <1>8, <1>10 DEF LogInv, LeadersHoldTheirs
    <3>2. Matches(q, x)
      BY <1>7 DEF LogInv, PiecesMatch
    <3>3. Matches(p, x)
      BY <1>7, <1>9, <1>11, <1>13, <3>1, <3>2, ExtendedMatches
    <3> QED BY <1>11, <1>13, <3>3, MatchesBack
  <2>2. \A x \in Pieces : \A y \in Pieces : Matches(x, y)
    BY DEF LogInv, PiecesMatch
  <2> QED BY <1>12, <2>1, <2>2, MatchesItself DEF PiecesMatch
<1>16. TermsWereLed'
  <2> SUFFICES ASSUME NEW x \in Pieces', NEW k \in x.first .. x.last
               PROVE  x.at[k].term = 0 \/ \E w \in elected' : w.term = x.at[k].term
    BY DEF TermsWereLed
  <2>1. CASE x \in Pieces
    BY <1>1, <2>1 DEF LogInv, TermsWereLed
  <2>2. CASE x = p /\ k = n
    <3>1. [node |-> i, term |-> term[i]] \in elected'
      BY <1>1 DEF LogInv, WinnersStay
    <3> QED BY <1>10, <2>2, <3>1
  <2>3. CASE x = p /\ k # n
    <3>1. k \in q.first .. q.last
      BY <1>2, <1>7, <1>8, <2>3
    <3> QED BY <1>1, <1>7, <1>9, <2>3, <3>1 DEF LogInv, TermsWereLed
  <2> QED BY <1>12, <2>1, <2>2, <2>3
<1>17. LeadersHoldTheirs'
  <2> SUFFICES ASSUME NEW x \in Pieces', NEW j \in Server, NEW k \in x.first .. x.last,
                      states'[j] = "Leader", x.at[k].term = term'[j]
               PROVE  k <= LastIndex(j)'
    BY DEF LeadersHoldTheirs
  <2>1. /\ j # i => LastIndex(j)' = LastIndex(j)
        /\ LastIndex(j) \in Nat
        /\ states[j] = "Leader" /\ term'[j] = term[j]
    BY <1>1, <1>3, SameLogPiece, LogFacts
  <2>2. ASSUME NEW y \in Pieces, k \in y.first .. y.last, y.at[k].term = x.at[k].term
        PROVE  k <= LastIndex(j)'
    <3>1. k <= LastIndex(j) /\ k \in Int
      BY <1>13, <2>1, <2>2 DEF LogInv, LeadersHoldTheirs, PieceOk
    <3> QED BY <1>6, <2>1, <3>1
  <2>3. CASE x \in Pieces
    BY <2>2, <2>3
  <2>4. CASE x = p /\ k # n
    <3>1. k \in q.first .. q.last
      BY <1>2, <1>7, <1>8, <2>4
    <3> QED BY <1>7, <1>9, <2>2, <2>4, <3>1
  <2>5. CASE x = p /\ k = n
    <3>1. term[j] = term[i]
      BY <1>10, <2>1, <2>5
    <3> DEFINE a == [node |-> i, term |-> term[i]]
               b == [node |-> j, term |-> term[j]]
    <3>2. a \in elected /\ b \in elected /\ a.term = b.term /\ a.node = i /\ b.node = j
      BY <1>1, <2>1, <3>1 DEF LogInv, WinnersStay
    <3> HIDE DEF a, b
    <3>3. i = j
      BY <1>1, <3>2 DEF ElectionSafety
    <3> QED BY <1>2, <1>6, <2>5, <3>3
  <2> QED BY <1>12, <2>3, <2>4, <2>5
<1>18. WinnersStay'
  BY <1>1 DEF LogInv, WinnersStay
<1> QED BY <1>14, <1>15, <1>16, <1>17, <1>18 DEF LogInv

-----------------------------------------------------------------------------
(* Every step *)

LEMMA SteadyAndKept ==
    ASSUME LogInv, ElectionInv', Steady, OnlyDerived, LeadersKeepLength
    PROVE  LogInv'
<1>1. TypeOK'
  BY DEF ElectionInv, VoteInv
<1>2. \A i \in Server : LastIndex(i)' \in Nat
  BY <1>1, LengthsTyped
<1> QED BY <1>2, SteadySteps DEF LeadersKeepLength

LEMMA SteadyAndQuiet ==
    ASSUME LogInv, ElectionInv', Steady, QuietLogs
    PROVE  LogInv'
<1>1. TypeOK
  BY DEF LogInv, ElectionInv, VoteInv
<1>2. OnlyDerived /\ LeadersKeepLength
  BY <1>1, QuietSteps, SameLengths
<1> QED BY <1>2, SteadyAndKept

LEMMA StartElectionLogs ==
    ASSUME LogInv, ElectionInv', ElectionSafety', NEW i \in Server, StartElection(i)
    PROVE  LogInv'
<1> DEFINE t == term[i] + 1
           new == {[type |-> "RequestVote", from |-> i, to |-> j, awaited |-> TRUE, term |-> t,
                    lastIndex |-> LastIndex(i), lastTerm |-> LastTerm(i)] :
                      j \in Server \ {i}}
<1>1. TypeOK /\ term[i] \in Nat
  BY DEF LogInv, ElectionInv, VoteInv, TypeOK
<1>2. t \in Nat /\ t > 0 /\ t > term[i]
  BY <1>1
<1>3. Send(new) /\ term' = [term EXCEPT ![i] = t] /\ UNCHANGED <<log, lastSnapIndex, lastSnapTerm>>
  BY DEF StartElection, logVars
<1>4. \A m \in new : m.type = "RequestVote"
  OBVIOUS
<1> HIDE DEF new, t
<1>5. \/ /\ states' = [states EXCEPT ![i] = "Candidate"]
         /\ elected' = elected
      \/ /\ states' = [states EXCEPT ![i] = "Leader"]
         /\ elected' = elected \cup {[node |-> i, term |-> t]}
  BY DEF StartElection, BecomeLeader, t
<1>6. QuietLogs
  BY <1>3, <1>4 DEF QuietLogs, Send
<1>7. OnlyDerived /\ \A j \in Server : LastIndex(j)' = LastIndex(j)
  BY <1>1, <1>6, QuietSteps
<1> QED BY <1>2, <1>3, <1>5, <1>7, StandsOrWins

LEMMA VoteReplyLogs ==
    ASSUME LogInv, ElectionInv', ElectionSafety', NEW m \in messages, VoteReply(m)
    PROVE  LogInv'
<1> DEFINE i == m.to
           t == term[i]
<1>1. TypeOK
  BY DEF LogInv, ElectionInv, VoteInv
<1>2. i \in Server /\ m.term \in Nat /\ t \in Nat
  BY <1>1, MessageFacts DEF TypeOK
<1>3. QuietLogs
  BY DEF VoteReply, Discard, QuietLogs, logVars
<1>4. \/ /\ elected' = elected
         /\ \/ UNCHANGED <<term, states>>
            \/ /\ m.term > t
               /\ term' = [term EXCEPT ![i] = m.term]
               /\ states' = [states EXCEPT ![i] = "Follower"]
      \/ /\ states[i] = "Candidate" /\ term' = term
         /\ states' = [states EXCEPT ![i] = "Leader"]
         /\ elected' = elected \cup {[node |-> i, term |-> t]}
  BY DEF VoteReply, BecomeLeader
<1> HIDE DEF i, t
<1>5. CASE /\ elected' = elected
           /\ \/ UNCHANGED <<term, states>>
              \/ /\ m.term > t
                 /\ term' = [term EXCEPT ![i] = m.term]
                 /\ states' = [states EXCEPT ![i] = "Follower"]
  <2>1. Steady
    <3>1. m.term > t => m.term >= term[i]
      BY <1>2 DEF t
    <3> QED BY <1>1, <1>2, <1>5, <3>1, FallsBack
  <2> QED BY <1>3, <2>1, SteadyAndQuiet
<1>6. CASE /\ states[i] = "Candidate" /\ term' = term
           /\ states' = [states EXCEPT ![i] = "Leader"]
           /\ elected' = elected \cup {[node |-> i, term |-> t]}
  <2>1. t = term[i] /\ t > 0
    BY <1>2, <1>6 DEF LogInv, WinnersStay, t
  <2>2. term' = [term EXCEPT ![i] = t]
    BY <1>1, <1>2, <1>6, <2>1 DEF TypeOK
  <2>3. OnlyDerived /\ \A j \in Server : LastIndex(j)' = LastIndex(j)
    BY <1>1, <1>3, QuietSteps
  <2> QED BY <1>2, <1>6, <2>1, <2>2, <2>3, StandsOrWins
<1> QED BY <1>4, <1>5, <1>6

LEMMA RequestVoteLogs ==
    ASSUME LogInv, ElectionInv', NEW m \in messages, RequestVote(m)
    PROVE  LogInv'
<1> DEFINE i == m.to
<1>1. TypeOK
  BY DEF LogInv, ElectionInv, VoteInv
<1>2. i \in Server /\ m.term \in Nat /\ term[i] \in Nat
  BY <1>1, MessageFacts DEF TypeOK
<1>3. QuietLogs
  BY DEF RequestVote, Reply, QuietLogs, logVars
<1>4. /\ elected' = elected
      /\ term' = [term EXCEPT ![i] = Maximum(@, m.term)]
      /\ states' = IF m.term > term[i] THEN [states EXCEPT ![i] = "Follower"] ELSE states
  BY DEF RequestVote
<1>5. \/ UNCHANGED <<term, states>>
      \/ /\ m.term >= term[i]
         /\ term' = [term EXCEPT ![i] = m.term]
         /\ states' = [states EXCEPT ![i] = "Follower"]
  <2>1. CASE m.term > term[i]
    <3>1. m.term >= term[i] /\ Maximum(term[i], m.term) = m.term
      BY <1>2, <2>1 DEF Maximum
    <3> QED BY <1>4, <2>1, <3>1
  <2>2. CASE ~(m.term > term[i])
    <3>1. Maximum(term[i], m.term) = term[i]
      BY <1>2, <2>2 DEF Maximum
    <3> QED BY <1>1, <1>4, <2>2, <3>1 DEF TypeOK
  <2> QED BY <2>1, <2>2
<1>6. Steady
  BY <1>1, <1>2, <1>4, <1>5, FallsBack
<1> QED BY <1>3, <1>6, SteadyAndQuiet

\* The answers to AppendEntries and InstallSnapshot.
LEMMA RepliesLogs ==
    ASSUME LogInv, ElectionInv', NEW m \in messages, AppendReply(m) \/ InstallReply(m)
    PROVE  LogInv'
<1>1. TypeOK
  BY DEF LogInv, ElectionInv, VoteInv
<1>2. m.to \in Server /\ m.term \in Nat /\ term[m.to] \in Nat
  BY <1>1, MessageFacts DEF TypeOK
<1>3. QuietLogs
  BY DEF AppendReply, InstallReply, Discard, QuietLogs, logVars
<1>4. /\ elected' = elected
      /\ \/ UNCHANGED <<term, states>>
         \/ /\ m.term > term[m.to]
            /\ term' = [term EXCEPT ![m.to] = m.term]
            /\ states' = [states EXCEPT ![m.to] = "Follower"]
  BY DEF AppendReply, InstallReply
<1>5. m.term > term[m.to] => m.term >= term[m.to]
  BY <1>2
<1>6. Steady
  BY <1>1, <1>2, <1>4, <1>5, FallsBack
<1> QED BY <1>3, <1>6, SteadyAndQuiet

\* The handlers of AppendEntries and InstallSnapshot.
LEMMA CallsLogs ==
    ASSUME LogInv, ElectionInv', NEW m \in messages, AppendEntries(m) \/ InstallSnapshot(m)
    PROVE  LogInv'
<1>1. TypeOK
  BY DEF LogInv, ElectionInv, VoteInv
<1>2. m.to \in Server /\ m.term \in Nat
  BY <1>1, MessageFacts
<1>3. OnlyDerived /\ LeadersKeepLength
  BY <1>1, AppendEntriesPieces, InstallSnapshotPieces
<1>4. /\ elected' = elected
      /\ \/ UNCHANGED <<term, states>>
         \/ /\ m.term >= term[m.to]
            /\ term' = [term EXCEPT ![m.to] = m.term]
            /\ states' = [states EXCEPT ![m.to] = "Follower"]
  BY DEF AppendEntries, InstallSnapshot
<1>5. Steady
  BY <1>1, <1>2, <1>4, FallsBack
<1> QED BY <1>3, <1>5, SteadyAndKept

LEMMA LocalStepsLogs ==
    ASSUME LogInv, ElectionInv', NEW i \in Server,
           \/ Broadcast(i) \/ Snapshot(i) \/ Apply(i) \/ UNCHANGED vars
           \/ \E j \in Server : SendAppend(i, j)
    PROVE  LogInv'
<1>1. TypeOK
  BY DEF LogInv, ElectionInv, VoteInv
<1>2. UNCHANGED <<term, states, elected>>
  BY DEF Broadcast, Snapshot, Apply, SendAppend, vars, electionVars
<1>3. Steady
  <2>1. 0 \in Nat
    OBVIOUS
  <2> QED BY <1>1, <1>2, <2>1, FallsBack
<1>4. CASE Broadcast(i) \/ Apply(i) \/ UNCHANGED vars
  <2>1. QuietLogs
    BY <1>4 DEF QuietLogs, Broadcast, Apply, vars, logVars
  <2> QED BY <1>3, <2>1, SteadyAndQuiet
<1>5. CASE Snapshot(i) \/ \E j \in Server : SendAppend(i, j)
  <2>1. OnlyDerived /\ \A j \in Server : LastIndex(j)' = LastIndex(j)
    BY <1>1, <1>5, SnapshotPieces, SendAppendPieces
  <2>2. LeadersKeepLength
    BY <1>1, <2>1, SameLengths
  <2> QED BY <1>3, <2>1, <2>2, SteadyAndKept
<1> QED BY <1>4, <1>5

LEMMA NextLogs ==
    ASSUME MaxRestarts = 0, ~SlowTicker, LogInv, [Next]_vars, ElectionInv', ElectionSafety'
    PROVE  LogInv'
<1>1. TypeOK /\ pc = [i \in Server |-> "idle"]
  BY DEF LogInv, ElectionInv, VoteInv
<1>2. ASSUME NEW i \in Server PROVE ~Tally(i) /\ ~Restart(i)
  BY <1>1, NoRestart DEF Tally
<1>3. ASSUME NEW i \in Server, StartElection(i) PROVE LogInv'
  BY <1>3, StartElectionLogs
<1>4. ASSUME NEW i \in Server, NEW v \in Value, Start(i, v) PROVE LogInv'
  BY <1>4, StartLogs
<1>5. ASSUME NEW i \in Server,
             \/ Broadcast(i) \/ Snapshot(i) \/ Apply(i)
             \/ \E j \in Server : SendAppend(i, j)
      PROVE  LogInv'
  BY <1>5, LocalStepsLogs
<1>6. ASSUME NEW m \in messages,
             \/ RequestVote(m) \/ VoteReply(m) \/ AppendEntries(m) \/ AppendReply(m)
             \/ InstallSnapshot(m) \/ InstallReply(m)
      PROVE  LogInv'
  BY <1>6, RequestVoteLogs, VoteReplyLogs, CallsLogs, RepliesLogs
<1>7. CASE UNCHANGED vars
  <2>1. PICK i \in Server : TRUE
    BY RaftAssumption
  <2> QED BY <1>7, LocalStepsLogs
<1> QED BY <1>2, <1>3, <1>4, <1>5, <1>6, <1>7 DEF Next

\* The run starts with nothing but rf.log[0] anywhere.
LEMMA InitLogs == ASSUME Init, ElectionInv PROVE LogInv
<1>1. TypeOK
  BY DEF ElectionInv, VoteInv
<1>2. PiecesTyped
  BY <1>1, PieceTypes
<1>3. \A i \in Server : /\ log[i] = <<Dummy(0)>> /\ lastSnapIndex[i] = 0
                        /\ lastSnapTerm[i] = 0 /\ states[i] = "Follower"
  BY DEF Init
<1>4. \A i \in Server : LastIndex(i) = 0
  <2> TAKE i \in Server
  <2>1. Len(log[i]) = 1
    BY <1>3
  <2> QED BY <1>3, <2>1 DEF LastIndex
<1>5. \A p \in Pieces : p.first = 0 /\ p.last = 0 /\ p.at[0].term = 0
  <2>1. ASSUME NEW i \in Server
        PROVE  LogPiece(i).first = 0 /\ LogPiece(i).last = 0 /\ LogPiece(i).at[0].term = 0
    <3>1. LogPiece(i).at[0] = log[i][1]
      BY <1>3, <1>4 DEF LogPiece, At
    <3>2. log[i][1] = Dummy(0) /\ Dummy(0).term = 0
      BY <1>3 DEF Dummy
    <3> QED BY <1>3, <1>4, <3>1, <3>2 DEF LogPiece
  <2>2. SnapPiece(0, 0).first = 0 /\ SnapPiece(0, 0).last = 0 /\ SnapPiece(0, 0).at[0].term = 0
    BY SnapPieceFacts
  <2>3. messages = {}
    BY DEF Init
  <2> QED BY <1>3, <2>1, <2>2, <2>3 DEF Pieces
<1>6. PiecesMatch
  <2> SUFFICES ASSUME NEW p \in Pieces, NEW q \in Pieces,
                      NEW k \in p.first .. p.last, NEW h \in p.first .. k
               PROVE  Same(p, q, h)
    BY DEF PiecesMatch, Matches
  <2>1. h = 0
    BY <1>5
  <2> QED BY <1>5, <2>1 DEF Same
<1>7. TermsWereLed
  <2> SUFFICES ASSUME NEW p \in Pieces, NEW k \in p.first .. p.last PROVE p.at[k].term = 0
    BY DEF TermsWereLed
  <2>1. k = 0
    BY <1>5
  <2> QED BY <1>5, <2>1
<1>8. LeadersHoldTheirs /\ WinnersStay
  BY <1>3 DEF LeadersHoldTheirs, WinnersStay, Init
<1> QED BY <1>2, <1>6, <1>7, <1>8 DEF LogInv

\* Two logs are two pieces.
LEMMA LogsAreMatched == ASSUME LogInv PROVE LogMatching
<1> SUFFICES ASSUME NEW i \in Server, NEW j \in Server,
                    NEW k \in Maximum(lastSnapIndex[i], lastSnapIndex[j]) + 1
                                .. Minimum(LastIndex(i), LastIndex(j)),
                    At(i, k).term = At(j, k).term,
                    NEW h \in Maximum(lastSnapIndex[i], lastSnapIndex[j]) + 1 .. k
             PROVE  At(i, h) = At(j, h)
  BY DEF LogMatching
<1> DEFINE p == LogPiece(i)
           q == LogPiece(j)
<1>1. /\ lastSnapIndex[i] \in Nat /\ lastSnapIndex[j] \in Nat
      /\ LastIndex(i) \in Nat /\ LastIndex(j) \in Nat
  BY LogFacts DEF LogInv, ElectionInv, VoteInv
<1>2. /\ k \in lastSnapIndex[i] .. LastIndex(i) /\ k \in lastSnapIndex[j] .. LastIndex(j)
      /\ h \in lastSnapIndex[i] .. k /\ h >= lastSnapIndex[j]
      /\ h > lastSnapIndex[i] /\ h > lastSnapIndex[j]
      /\ h \in lastSnapIndex[i] .. LastIndex(i) /\ h \in lastSnapIndex[j] .. LastIndex(j)
  BY <1>1 DEF Maximum, Minimum
<1>3. /\ p.first = lastSnapIndex[i] /\ p.last = LastIndex(i)
      /\ q.first = lastSnapIndex[j] /\ q.last = LastIndex(j)
      /\ p.at[k] = At(i, k) /\ p.at[h] = At(i, h)
      /\ q.at[k] = At(j, k) /\ q.at[h] = At(j, h)
      /\ p \in Pieces /\ q \in Pieces
  BY <1>2 DEF LogPiece, Pieces
<1> HIDE DEF p, q
<1>4. Matches(p, q)
  BY <1>3 DEF LogInv, PiecesMatch
<1>5. Same(p, q, h)
  BY <1>2, <1>3, <1>4 DEF Matches, Has
<1> QED BY <1>2, <1>3, <1>5 DEF Same

\* AppendEntries: as long as no process restarts and no vote reply overtakes
\* startElection, an entry's index and term say what both logs hold up to it, over any
\* loss, delay and reordering of the RPCs and any snapshots.
THEOREM LogsMatch ==
    ASSUME MaxRestarts = 0, ~SlowTicker
    PROVE  Spec => []LogMatching
<1>1. Init => LogInv
  BY InitElections, InitLogs
<1>2. ElectionInv => ElectionSafety
  BY OneWinner
<1>3. LogInv /\ [Next]_vars => ElectionInv'
  BY NextElections DEF LogInv
<1>4. LogInv /\ [Next]_vars /\ ElectionInv' /\ ElectionSafety' => LogInv'
  BY NextLogs
<1>5. LogInv => LogMatching
  BY LogsAreMatched
<1> QED BY <1>1, <1>2, <1>3, <1>4, <1>5, PTL DEF Spec
=============================================================================
