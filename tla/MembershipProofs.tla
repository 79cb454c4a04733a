-------------------------- MODULE MembershipProofs --------------------------
(***************************************************************************)
(* Proofs about elections and replication while members change, for any    *)
(* nodes, changes and bounds: MemberInv is about who is elected, HeldInv   *)
(* about what the others hold of the leader's log.                         *)
(***************************************************************************)
EXTENDS Membership, FiniteSetTheorems, SequenceTheorems, TLAPS

-----------------------------------------------------------------------------
(* Types *)

Entry == [term : Nat, change : Changes]

MessageOk(m) ==
    /\ m.type = "RequestVote" =>
          m.from \in Node /\ m.to \in Node /\ m.candidate \in Nat /\ m.term \in Nat
    /\ m.type = "VoteReply" =>
          /\ m.from \in Node /\ m.to \in Node /\ m.granted \in BOOLEAN
          /\ m.term \in Nat /\ m.election \in Nat
    /\ m.type \in {"AppendEntries", "InstallSnapshot"} =>
          m.call.from \in Node /\ m.call.to \in Node /\ m.call.term \in Nat
    /\ m.type = "AppendEntries" => m.prevIndex \in Nat /\ m.entries \in Seq(Entry)
    /\ m.type \in {"AppendReply", "InstallReply"} => m.call.from \in Node /\ m.term \in Nat
    /\ m.type = "AppendReply" =>
          m.conflict \in Nat /\ m.prevIndex \in Nat /\ m.len \in Nat

Types ==
    /\ peers \in [Node -> Seq(Node)] /\ me \in [Node -> Nat] /\ peerGen \in [Node -> Nat]
    /\ term \in [Node -> Nat] /\ vote \in [Node -> Nat] /\ votes \in [Node -> Nat]
    /\ states \in [Node -> {"Follower", "Candidate", "Leader"}]
    /\ log \in [Node -> Seq(Entry)] /\ lastApply \in [Node -> Nat]
    /\ nextIndex \in [Node -> Seq(Nat)]
    /\ \A i \in Node : Len(nextIndex[i]) = Len(peers[i])
    /\ campaign \in [Node -> [peers : Seq(Node), gen : Nat, me : Nat]]
    /\ elected \subseteq [node : Node, term : Nat, peers : Seq(Node), sound : BOOLEAN]
    /\ cast \subseteq [voter : Node, term : Nat, candidate : Node]
    /\ \A m \in messages : MessageOk(m)

LEMMA PositionFacts ==
    ASSUME NEW list \in Seq(Node), NEW node
    PROVE  /\ PositionIn(list, node) \in Nat
           /\ PositionIn(list, node) # 0 =>
                 /\ PositionIn(list, node) \in 1 .. Len(list)
                 /\ list[PositionIn(list, node)] = node
           /\ PositionIn(list, node) = 0 => \A p \in 1 .. Len(list) : list[p] # node
<1>1. DOMAIN list = 1 .. Len(list) /\ Len(list) \in Nat
  BY LenProperties
<1>2. CASE \E p \in DOMAIN list : list[p] = node
  <2>1. PositionIn(list, node) \in DOMAIN list /\ list[PositionIn(list, node)] = node
    BY <1>2 DEF PositionIn
  <2> QED BY <1>1, <2>1
<1>3. CASE ~\E p \in DOMAIN list : list[p] = node
  BY <1>1, <1>3 DEF PositionIn
<1> QED BY <1>2, <1>3

LEMMA WithoutFacts ==
    ASSUME NEW S, NEW list \in Seq(S), NEW p \in 1 .. Len(list)
    PROVE  /\ Without(list, p) \in Seq(S) /\ Len(Without(list, p)) = Len(list) - 1
           /\ \A k \in 1 .. Len(list) - 1 :
                 Without(list, p)[k] = list[IF k < p THEN k ELSE k + 1]
<1> DEFINE a == SubSeq(list, 1, p - 1)
           b == SubSeq(list, p + 1, Len(list))
<1>1. Len(list) \in Nat /\ p \in Nat
  BY LenProperties
<1>2. /\ a \in Seq(S) /\ Len(a) = p - 1
      /\ \A k \in 1 .. p - 1 : a[k] = list[k]
  BY <1>1, SubSeqProperties
<1>3. /\ b \in Seq(S) /\ Len(b) = Len(list) - p
      /\ \A k \in 1 .. Len(list) - p : b[k] = list[p + k]
  BY <1>1, SubSeqProperties
<1> HIDE DEF a, b
<1>4. /\ a \o b \in Seq(S) /\ Len(a \o b) = Len(list) - 1
      /\ \A k \in 1 .. Len(list) - 1 :
            (a \o b)[k] = IF k <= p - 1 THEN a[k] ELSE b[k - (p - 1)]
  <2>1. /\ a \o b \in Seq(S) /\ Len(a \o b) = Len(a) + Len(b)
        /\ \A k \in 1 .. Len(a) + Len(b) :
              (a \o b)[k] = IF k <= Len(a) THEN a[k] ELSE b[k - Len(a)]
    BY <1>2, <1>3, ConcatProperties
  <2>2. Len(a) + Len(b) = Len(list) - 1
    BY <1>1, <1>2, <1>3
  <2> QED BY <1>2, <2>1, <2>2
<1>5. \A k \in 1 .. Len(list) - 1 : (a \o b)[k] = list[IF k < p THEN k ELSE k + 1]
  BY <1>1, <1>2, <1>3, <1>4
<1>6. Without(list, p) = a \o b
  BY DEF Without, a, b
<1> QED BY <1>4, <1>5, <1>6

LEMMA SendTyped ==
    ASSUME Types, NEW new, Send(new), \A m \in new : MessageOk(m)
    PROVE  \A m \in messages' : MessageOk(m)
BY DEF Types, Send

LEMMA ReplyTyped ==
    ASSUME Types, NEW m, NEW r, Reply(m, r), MessageOk(r)
    PROVE  \A n \in messages' : MessageOk(n)
BY DEF Types, Reply

LEMMA DiscardTyped ==
    ASSUME Types, NEW m, Discard(m)
    PROVE  \A n \in messages' : MessageOk(n)
BY DEF Types, Discard

LEMMA BecomeLeaderTyped ==
    ASSUME Types, NEW i \in Node, NEW t \in Nat,
           NEW c \in [peers : Seq(Node), gen : Nat, me : Nat], BecomeLeader(i, t, c)
    PROVE  /\ states' \in [Node -> {"Follower", "Candidate", "Leader"}]
           /\ nextIndex' \in [Node -> Seq(Nat)]
           /\ \A j \in Node : Len(nextIndex'[j]) = Len(peers[j])
           /\ elected' \subseteq [node : Node, term : Nat, peers : Seq(Node), sound : BOOLEAN]
<1>1. Len(log[i]) \in Nat /\ DOMAIN peers[i] = 1 .. Len(peers[i]) /\ Len(peers[i]) \in Nat
  BY LenProperties DEF Types
<1> DEFINE first == [p \in DOMAIN peers[i] |-> LastIndex(i) + 1]
<1>2. first \in Seq(Nat) /\ Len(first) = Len(peers[i])
  BY <1>1 DEF LastIndex
<1>3. nextIndex' = [nextIndex EXCEPT ![i] = first]
  BY DEF BecomeLeader
<1> HIDE DEF first
<1>4. /\ nextIndex' \in [Node -> Seq(Nat)]
      /\ \A j \in Node : Len(nextIndex'[j]) = Len(peers[j])
  BY <1>2, <1>3 DEF Types
<1>5. states' \in [Node -> {"Follower", "Candidate", "Leader"}]
  BY DEF BecomeLeader, Types
<1>6. elected' \subseteq [node : Node, term : Nat, peers : Seq(Node), sound : BOOLEAN]
  <2>1. [node |-> i, term |-> t, peers |-> c.peers, sound |-> c.gen = peerGen[i] /\ c.me # 0]
           \in [node : Node, term : Nat, peers : Seq(Node), sound : BOOLEAN]
    BY ZenonT(20)
  <2> QED BY <2>1 DEF BecomeLeader, Types
<1> QED BY <1>4, <1>5, <1>6

LEMMA StartElectionTyped ==
    ASSUME Types, NEW i \in Node, StartElection(i)
    PROVE  Types'
<1> DEFINE c == [peers |-> peers[i], gen |-> peerGen[i], me |-> me[i]]
           new == {[type |-> "RequestVote", from |-> i, to |-> peers[i][p],
                    candidate |-> me[i], term |-> term[i] + 1, lastIndex |-> LastIndex(i),
                    lastTerm |-> TermAt(i, LastIndex(i))] : p \in DOMAIN peers[i] \ {me[i]}}
<1>1. c \in [peers : Seq(Node), gen : Nat, me : Nat] /\ term[i] + 1 \in Nat /\ me[i] \in Nat
  BY DEF Types
<1>2. \A m \in messages' : MessageOk(m)
  <2>1. Send(new)
    BY DEF StartElection
  <2>2. \A p \in DOMAIN peers[i] : peers[i][p] \in Node
    BY LenProperties DEF Types
  <2>3. \A m \in new : MessageOk(m)
    BY <1>1, <2>2 DEF MessageOk
  <2> HIDE DEF new
  <2> QED BY <2>1, <2>3, SendTyped
<1>3. /\ states' \in [Node -> {"Follower", "Candidate", "Leader"}]
      /\ nextIndex' \in [Node -> Seq(Nat)]
      /\ \A j \in Node : Len(nextIndex'[j]) = Len(peers[j])
      /\ elected' \subseteq [node : Node, term : Nat, peers : Seq(Node), sound : BOOLEAN]
  <2>1. CASE BecomeLeader(i, term[i] + 1, c)
    <3> HIDE DEF c
    <3> QED BY <1>1, <2>1, BecomeLeaderTyped
  <2>2. CASE /\ states' = [states EXCEPT ![i] = "Candidate"]
             /\ UNCHANGED <<leaderVars, elected>>
    BY <2>2 DEF Types, leaderVars
  <2> QED BY <2>1, <2>2 DEF StartElection
<1>4. cast' \subseteq [voter : Node, term : Nat, candidate : Node]
  BY <1>1 DEF Types, StartElection
<1>5. campaign' \in [Node -> [peers : Seq(Node), gen : Nat, me : Nat]]
  <2>1. campaign' = [campaign EXCEPT ![i] = c]
    BY DEF StartElection
  <2> HIDE DEF c
  <2> QED BY <1>1, <2>1 DEF Types
<1> QED BY <1>1, <1>2, <1>3, <1>4, <1>5 DEF Types, StartElection, memberVars

LEMMA RequestVoteTyped ==
    ASSUME Types, NEW m \in messages, RequestVote(m)
    PROVE  Types'
<1> DEFINE i == m.to
           granted == m.term >= term[i] /\ FreeToVote(i, m) /\ UpToDate(i, m)
<1>1. i \in Node /\ m.from \in Node /\ m.candidate \in Nat /\ m.term \in Nat
  BY DEF Types, RequestVote, MessageOk
<1>2. granted \in BOOLEAN
  OBVIOUS
<1>3. Greater(term[i], m.term) \in Nat
  BY <1>1 DEF Types, Greater
<1>4. \A n \in messages' : MessageOk(n)
  <2> DEFINE r == [type |-> "VoteReply", from |-> i, to |-> m.from, granted |-> granted,
                   term |-> Greater(term[i], m.term), election |-> m.term]
  <2>1. Reply(m, r)
    BY DEF RequestVote
  <2>2. MessageOk(r)
    <3> HIDE DEF granted, i
    <3> QED BY <1>1, <1>2, <1>3 DEF MessageOk
  <2> HIDE DEF r
  <2> QED BY <2>1, <2>2, ReplyTyped
<1>5. cast' \subseteq [voter : Node, term : Nat, candidate : Node]
  <2> DEFINE v == [voter |-> i, term |-> m.term, candidate |-> m.from]
  <2>1. v \in [voter : Node, term : Nat, candidate : Node]
    BY <1>1
  <2>2. cast' = cast \cup {v} \/ cast' = cast
    BY DEF RequestVote
  <2>3. cast \subseteq [voter : Node, term : Nat, candidate : Node]
    BY DEF Types
  <2> HIDE DEF v
  <2> QED BY <2>1, <2>2, <2>3
<1>6. term' \in [Node -> Nat] /\ vote' \in [Node -> Nat]
  <2>1. term' = [term EXCEPT ![i] = Greater(@, m.term)]
    BY DEF RequestVote
  <2>2. vote' = [vote EXCEPT ![i] = IF granted THEN m.candidate
                                    ELSE IF m.term > term[i] THEN 0 ELSE @]
    BY DEF RequestVote
  <2> HIDE DEF granted, i
  <2> QED BY <1>1, <1>3, <2>1, <2>2 DEF Types
<1>7. states' \in [Node -> {"Follower", "Candidate", "Leader"}]
  BY <1>1 DEF Types, RequestVote
<1>8. UNCHANGED <<memberVars, votes, log, lastApply, leaderVars, campaign, elected>>
  BY DEF RequestVote
<1> QED BY <1>4, <1>5, <1>6, <1>7, <1>8 DEF Types, memberVars, leaderVars

LEMMA VoteReplyTyped ==
    ASSUME Types, NEW m \in messages, VoteReply(m)
    PROVE  Types'
<1> DEFINE i == m.to
<1>1. i \in Node /\ m.term \in Nat /\ m.election \in Nat
  BY DEF Types, VoteReply, MessageOk
<1>2. \A n \in messages' : MessageOk(n)
  BY DiscardTyped DEF VoteReply
<1>3. /\ term' \in [Node -> Nat] /\ vote' \in [Node -> Nat] /\ votes' \in [Node -> Nat]
      /\ states' \in [Node -> {"Follower", "Candidate", "Leader"}]
      /\ nextIndex' \in [Node -> Seq(Nat)]
      /\ \A j \in Node : Len(nextIndex'[j]) = Len(peers[j])
      /\ elected' \subseteq [node : Node, term : Nat, peers : Seq(Node), sound : BOOLEAN]
  <2>1. CASE UNCHANGED <<voteVars, leaderVars, elected>>
    BY <2>1 DEF Types, voteVars, leaderVars
  <2>2. CASE /\ term' = [term EXCEPT ![i] = m.term]
             /\ states' = [states EXCEPT ![i] = "Follower"]
             /\ vote' = [vote EXCEPT ![i] = 0]
             /\ UNCHANGED <<votes, leaderVars, elected>>
    BY <1>1, <2>2 DEF Types, leaderVars
  <2>3. CASE /\ votes' = [votes EXCEPT ![i] = IF m.granted THEN @ + 1 ELSE @]
             /\ \/ BecomeLeader(i, term[i], campaign[i])
                \/ UNCHANGED <<states, leaderVars, elected>>
             /\ UNCHANGED <<term, vote>>
    <3>1. votes' \in [Node -> Nat]
      BY <1>1, <2>3 DEF Types
    <3>2. term[i] \in Nat /\ campaign[i] \in [peers : Seq(Node), gen : Nat, me : Nat]
      BY <1>1 DEF Types
    <3>3. CASE BecomeLeader(i, term[i], campaign[i])
      <4> HIDE DEF i
      <4>1. /\ states' \in [Node -> {"Follower", "Candidate", "Leader"}]
            /\ nextIndex' \in [Node -> Seq(Nat)]
            /\ \A j \in Node : Len(nextIndex'[j]) = Len(peers[j])
            /\ elected' \subseteq [node : Node, term : Nat, peers : Seq(Node), sound : BOOLEAN]
        BY <1>1, <3>2, <3>3, BecomeLeaderTyped
      <4> QED BY <2>3, <3>1, <4>1 DEF Types
    <3>4. CASE UNCHANGED <<states, leaderVars, elected>>
      BY <2>3, <3>1, <3>4 DEF Types, leaderVars
    <3> QED BY <2>3, <3>3, <3>4
  <2> QED BY <2>1, <2>2, <2>3 DEF VoteReply
<1>4. UNCHANGED <<memberVars, log, lastApply, campaign, cast>>
  BY DEF VoteReply
<1> QED BY <1>2, <1>3, <1>4 DEF Types, memberVars

LEMMA StartTyped ==
    ASSUME Types, NEW i \in Node, NEW change \in Changes, Start(i, change)
    PROVE  Types'
<1> DEFINE e == [term |-> term[i], change |-> change]
<1>1. e \in Entry /\ log[i] \in Seq(Entry)
  BY DEF Types, Entry
<1>2. log' = [log EXCEPT ![i] = Append(log[i], e)]
  BY DEF Start
<1> HIDE DEF e
<1>3. Append(log[i], e) \in Seq(Entry)
  BY <1>1, AppendProperties
<1>4. log' \in [Node -> Seq(Entry)]
  BY <1>2, <1>3 DEF Types
<1> QED BY <1>4 DEF Types, Start, memberVars, voteVars, leaderVars, historyVars

LEMMA BroadcastAloneTyped ==
    ASSUME Types, NEW i \in Node, BroadcastAlone(i)
    PROVE  Types'
BY DEF Types, BroadcastAlone, memberVars, voteVars, historyVars

LEMMA SendAppendTyped ==
    ASSUME Types, NEW i \in Node, NEW p \in DOMAIN peers[i], SendAppend(i, p)
    PROVE  Types'
<1> DEFINE prev == nextIndex[i][p] - 1
           call == [from |-> i, to |-> peers[i][p], peer |-> p, gen |-> peerGen[i],
                    term |-> term[i]]
           install == [type |-> "InstallSnapshot", call |-> call]
           append == [type |-> "AppendEntries", call |-> call,
                      prevIndex |-> prev, prevTerm |-> TermAt(i, prev),
                      entries |-> SubSeq(log[i], prev + 1, LastIndex(i)),
                      commit |-> commitIndex[i]]
<1>1. Send({IF prev < 0 THEN install ELSE append})
  BY DEF SendAppend
<1>2. p \in 1 .. Len(peers[i]) /\ peers[i][p] \in Node
  <2>1. peers[i] \in Seq(Node)
    BY DEF Types
  <2> QED BY <2>1, LenProperties
<1>3. nextIndex[i] \in Seq(Nat) /\ p \in 1 .. Len(nextIndex[i]) /\ nextIndex[i][p] \in Nat
  <2>1. nextIndex[i] \in Seq(Nat) /\ Len(nextIndex[i]) = Len(peers[i])
    BY DEF Types
  <2> QED BY <1>2, <2>1, LenProperties
<1>4. call.from \in Node /\ call.to \in Node /\ call.term \in Nat
  BY <1>2 DEF Types
<1>5. prev \in Int
  BY <1>3
<1> HIDE DEF call, prev
<1>6. MessageOk(install)
  BY <1>4 DEF MessageOk
<1>7. CASE prev < 0
  BY <1>1, <1>6, <1>7, SendTyped DEF Types, SendAppend, memberVars, voteVars, leaderVars,
                                     historyVars
<1>8. CASE ~(prev < 0)
  <2>1. prev \in Nat /\ log[i] \in Seq(Entry) /\ LastIndex(i) = Len(log[i])
        /\ LastIndex(i) \in Nat
    BY <1>5, <1>8, LenProperties DEF Types, LastIndex
  <2>2. SubSeq(log[i], prev + 1, LastIndex(i)) \in Seq(Entry)
    BY <2>1, SubSeqProperties, LenProperties
  <2>3. MessageOk(append)
    BY <1>4, <2>1, <2>2 DEF MessageOk
  <2> HIDE DEF install, append
  <2>4. \A m \in messages' : MessageOk(m)
    BY <1>1, <1>8, <2>3, SendTyped
  <2> QED BY <2>4 DEF Types, SendAppend, memberVars, voteVars, leaderVars, historyVars
<1> QED BY <1>7, <1>8

\* The least-number principle.
LEMMA LeastOf ==
    ASSUME NEW T \in SUBSET Nat, T # {}
    PROVE  \E x \in T : \A y \in T : x <= y
<1> DEFINE R == {ss \in Nat \X Nat : ss[1] < ss[2]}
<1>1. IsWellFoundedOn(R, Nat)
  BY NatLessThanWellFounded DEF OpToRel
<1> HIDE DEF R
<1>2. PICK x \in T : \A y \in T : ~ (<<y, x>> \in R)
  BY <1>1, WFMin
<1>3. ASSUME NEW y \in T PROVE x <= y
  <2>1. <<y, x>> \in Nat \X Nat /\ <<y, x>> \notin R
    BY <1>2
  <2>2. <<y, x>>[1] = y /\ <<y, x>>[2] = x
    OBVIOUS
  <2> QED BY <2>1, <2>2, x \in Nat, y \in Nat DEF R
<1> QED BY <1>3

LEMMA MergedTyped ==
    ASSUME Types, NEW i \in Node, NEW m, m.prevIndex \in Nat, m.entries \in Seq(Entry),
           m.prevIndex <= LastIndex(i)
    PROVE  Merged(i, m) \in Seq(Entry)
<1> DEFINE have(k) == /\ m.prevIndex + k <= LastIndex(i)
                      /\ log[i][m.prevIndex + k].term = m.entries[k].term
           same == {n \in 0 .. Len(m.entries) : \A k \in 1 .. n : have(k)}
           kept == CHOOSE n \in same : \A k \in same : k <= n
           L == Len(m.entries)
<1>1. log[i] \in Seq(Entry) /\ LastIndex(i) = Len(log[i]) /\ LastIndex(i) \in Nat /\ L \in Nat
  BY LenProperties DEF Types, LastIndex
<1>2. 0 \in same /\ same \subseteq 0 .. L
  BY <1>1
<1>3. \A n \in same : m.prevIndex + n <= LastIndex(i)
  BY <1>1
<1>4. kept \in same
  <2> DEFINE T == {L - n : n \in same}
  <2>1. T \in SUBSET Nat /\ T # {}
    <3> HIDE DEF same
    <3> QED BY <1>1, <1>2
  <2>2. PICK x \in T : \A y \in T : x <= y
    BY <2>1, LeastOf
  <2>3. PICK n \in same : x = L - n
    OBVIOUS
  <2>4. \A k \in same : L - n <= L - k
    BY <2>2, <2>3
  <2> HIDE DEF same
  <2>5. \A k \in same : k <= n
    BY <1>1, <1>2, <2>4
  <2> QED BY <2>5
<1>5. kept \in Nat /\ kept <= L /\ m.prevIndex + kept <= LastIndex(i)
  BY <1>1, <1>2, <1>3, <1>4
<1>6. Merged(i, m) = IF m.entries = <<>> THEN log[i]
                     ELSE SubSeq(log[i], 1, m.prevIndex + kept)
                          \o SubSeq(m.entries, kept + 1, L)
  BY DEF Merged
<1> HIDE DEF kept, L
<1>7. SubSeq(log[i], 1, m.prevIndex + kept) \in Seq(Entry)
  BY <1>1, <1>5, SubSeqProperties, LenProperties
<1>8. SubSeq(m.entries, kept + 1, L) \in Seq(Entry)
  BY <1>1, <1>5, SubSeqProperties, LenProperties DEF L
<1> QED BY <1>1, <1>6, <1>7, <1>8, ConcatProperties

LEMMA AppendEntriesTyped ==
    ASSUME Types, NEW m \in messages, AppendEntries(m)
    PROVE  Types'
<1> DEFINE i == m.call.to
           prev == m.prevIndex
           agrees == prev <= LastIndex(i) /\ TermAt(i, prev) = m.prevTerm
           sameTerm == {n \in 0 .. prev : \A k \in n .. prev : TermAt(i, k) = TermAt(i, prev)}
           conflict == IF prev > LastIndex(i) THEN LastIndex(i)
                       ELSE CHOOSE n \in sameTerm : n - 1 \notin sameTerm
<1>1. /\ i \in Node /\ m.call.from \in Node /\ m.call.term \in Nat
      /\ prev \in Nat /\ m.entries \in Seq(Entry) /\ Len(m.entries) \in Nat
  BY LenProperties DEF Types, AppendEntries, MessageOk
<1>2. log[i] \in Seq(Entry) /\ LastIndex(i) \in Nat /\ term[i] \in Nat
  BY <1>1, LenProperties DEF Types, LastIndex
<1>3. conflict \in Nat
  <2>1. prev \in sameTerm /\ sameTerm \in SUBSET Nat
    BY <1>1
  <2> HIDE DEF sameTerm
  <2>2. PICK n \in sameTerm : \A k \in sameTerm : n <= k
    BY <2>1, LeastOf
  <2>3. n - 1 \notin sameTerm
    BY <2>1, <2>2
  <2>4. (CHOOSE k \in sameTerm : k - 1 \notin sameTerm) \in sameTerm
    BY <2>2, <2>3
  <2> QED BY <1>2, <2>1, <2>4
<1>4. ASSUME NEW t \in Nat, NEW success, NEW c \in Nat, AnswerAppend(m, t, success, c)
      PROVE  \A n \in messages' : MessageOk(n)
  <2> DEFINE r == [type |-> "AppendReply", call |-> m.call, term |-> t, success |-> success,
                   conflict |-> c, prevIndex |-> m.prevIndex, len |-> Len(m.entries)]
  <2>1. Reply(m, r)
    BY <1>4 DEF AnswerAppend
  <2>2. MessageOk(r)
    BY <1>1, <1>4 DEF MessageOk
  <2> HIDE DEF r
  <2> QED BY <2>1, <2>2, ReplyTyped
<1>5. UNCHANGED <<memberVars, votes, lastApply, leaderVars, historyVars>>
  BY DEF AppendEntries
<1>6. CASE /\ AnswerAppend(m, term[i], FALSE, LastIndex(i) + 1)
           /\ UNCHANGED <<term, vote, states, log, commitIndex>>
  <2>1. \A n \in messages' : MessageOk(n)
    <3>1. LastIndex(i) + 1 \in Nat
      BY <1>2
    <3>2. AnswerAppend(m, term[i], FALSE, LastIndex(i) + 1)
      BY <1>6
    <3> HIDE DEF i
    <3> QED BY <1>2, <1>4, <3>1, <3>2
  <2> QED BY <1>5, <1>6, <2>1 DEF Types, memberVars, leaderVars, historyVars
<1>7. CASE /\ Accept(i, m)
           /\ vote' = IF m.call.term > term[i] THEN [vote EXCEPT ![i] = 0] ELSE vote
           /\ \/ /\ agrees
                 /\ log' = [log EXCEPT ![i] = Merged(i, m)]
                 /\ AnswerAppend(m, m.call.term, TRUE, 0)
              \/ /\ AnswerAppend(m, m.call.term, FALSE, conflict)
                 /\ UNCHANGED <<log, commitIndex>>
  <2> HIDE DEF conflict
  <2>1. \A n \in messages' : MessageOk(n)
    <3>1. CASE AnswerAppend(m, m.call.term, TRUE, 0)
      BY <1>1, <1>4, <3>1
    <3>2. CASE AnswerAppend(m, m.call.term, FALSE, conflict)
      BY <1>1, <1>3, <1>4, <3>2
    <3> QED BY <1>7, <3>1, <3>2
  <2>2. log' \in [Node -> Seq(Entry)]
    <3>1. CASE agrees /\ log' = [log EXCEPT ![i] = Merged(i, m)]
      <4> HIDE DEF i
      <4>1. Merged(i, m) \in Seq(Entry)
        BY <1>1, <3>1, MergedTyped
      <4> QED BY <3>1, <4>1 DEF Types
    <3> QED BY <1>7, <3>1 DEF Types
  <2>3. /\ term' \in [Node -> Nat] /\ vote' \in [Node -> Nat]
        /\ states' \in [Node -> {"Follower", "Candidate", "Leader"}]
    BY <1>1, <1>7 DEF Types, Accept
  <2> QED BY <1>5, <2>1, <2>2, <2>3 DEF Types, memberVars, leaderVars, historyVars
<1>8. \/ /\ AnswerAppend(m, term[i], FALSE, LastIndex(i) + 1)
         /\ UNCHANGED <<term, vote, states, log, commitIndex>>
      \/ /\ Accept(i, m)
         /\ vote' = IF m.call.term > term[i] THEN [vote EXCEPT ![i] = 0] ELSE vote
         /\ \/ /\ agrees
               /\ log' = [log EXCEPT ![i] = Merged(i, m)]
               /\ AnswerAppend(m, m.call.term, TRUE, 0)
            \/ /\ AnswerAppend(m, m.call.term, FALSE, conflict)
               /\ UNCHANGED <<log, commitIndex>>
  BY DEF AppendEntries
<1> QED BY <1>6, <1>7, <1>8

LEMMA InstallSnapshotTyped ==
    ASSUME Types, NEW m \in messages, InstallSnapshot(m)
    PROVE  Types'
<1> DEFINE i == m.call.to
<1>1. i \in Node /\ m.call.from \in Node /\ m.call.term \in Nat
  BY DEF Types, InstallSnapshot, MessageOk
<1>2. term[i] \in Nat
  BY <1>1 DEF Types
<1>3. ASSUME NEW t \in Nat, Reply(m, [type |-> "InstallReply", call |-> m.call, term |-> t])
      PROVE  \A n \in messages' : MessageOk(n)
  <2> DEFINE r == [type |-> "InstallReply", call |-> m.call, term |-> t]
  <2>1. MessageOk(r)
    BY <1>1 DEF MessageOk
  <2>2. Reply(m, r)
    BY <1>3
  <2> HIDE DEF r
  <2> QED BY <2>1, <2>2, ReplyTyped
<1>4. \A n \in messages' : MessageOk(n)
  BY <1>2, <1>3 DEF InstallSnapshot
<1>5. term' \in [Node -> Nat] /\ states' \in [Node -> {"Follower", "Candidate", "Leader"}]
  BY <1>1 DEF Types, InstallSnapshot, Accept
<1> QED BY <1>4, <1>5 DEF Types, InstallSnapshot, memberVars, leaderVars, historyVars

LEMMA BookedTyped ==
    ASSUME Types, NEW i \in Node, NEW p, NEW n \in Nat,
           nextIndex' = [nextIndex EXCEPT ![i][p] = n]
    PROVE  /\ nextIndex' \in [Node -> Seq(Nat)]
           /\ \A j \in Node : Len(nextIndex'[j]) = Len(peers[j])
<1> DEFINE s == [nextIndex[i] EXCEPT ![p] = n]
<1>1. nextIndex[i] \in Seq(Nat)
  BY DEF Types
<1>2. s \in Seq(Nat) /\ Len(s) = Len(nextIndex[i])
  <2>1. CASE p \in 1 .. Len(nextIndex[i])
    BY <1>1, <2>1, ExceptSeq
  <2>2. CASE p \notin 1 .. Len(nextIndex[i])
    <3>1. DOMAIN nextIndex[i] = 1 .. Len(nextIndex[i])
      BY <1>1, LenProperties
    <3>2. s = nextIndex[i]
      BY <1>1, <2>2, <3>1
    <3> QED BY <1>1, <3>2
  <2> QED BY <2>1, <2>2
<1>3. nextIndex' = [nextIndex EXCEPT ![i] = s]
  BY DEF Types
<1> HIDE DEF s
<1> QED BY <1>2, <1>3 DEF Types

LEMMA AppendReplyTyped ==
    ASSUME Types, NEW m \in messages, AppendReply(m)
    PROVE  Types'
<1> DEFINE i == m.call.from
           p == m.call.peer
<1>1. /\ i \in Node /\ m.term \in Nat /\ m.conflict \in Nat
      /\ m.prevIndex \in Nat /\ m.len \in Nat
  BY DEF Types, AppendReply, MessageOk
<1>2. \A n \in messages' : MessageOk(n)
  BY DiscardTyped DEF AppendReply
<1>3. LastIndex(i) \in Nat
  BY <1>1, LenProperties DEF Types, LastIndex
<1>4. /\ term' \in [Node -> Nat] /\ vote' \in [Node -> Nat]
      /\ states' \in [Node -> {"Follower", "Candidate", "Leader"}]
      /\ nextIndex' \in [Node -> Seq(Nat)]
      /\ \A j \in Node : Len(nextIndex'[j]) = Len(peers[j])
  <2>1. CASE StepDown(i, m)
    BY <1>1, <2>1 DEF Types, StepDown, leaderVars
  <2>2. CASE Record(i, m) /\ UNCHANGED <<term, states, vote>>
    <3>1. PICK n \in Nat : nextIndex' = [nextIndex EXCEPT ![i][p] = n]
      <4>1. m.prevIndex + m.len + 1 \in Nat /\ Lesser(m.conflict, LastIndex(i) + 1) \in Nat
        BY <1>1, <1>3 DEF Lesser
      <4> QED BY <2>2, <4>1 DEF Record
    <3>2. /\ nextIndex' \in [Node -> Seq(Nat)]
          /\ \A j \in Node : Len(nextIndex'[j]) = Len(peers[j])
      <4> HIDE DEF i, p
      <4> QED BY <1>1, <3>1, BookedTyped
    <3> QED BY <2>2, <3>2 DEF Types
  <2>3. CASE UNCHANGED <<term, states, vote, leaderVars, commitIndex>>
    BY <2>3 DEF Types, leaderVars
  <2> QED BY <2>1, <2>2, <2>3 DEF AppendReply
<1> QED BY <1>2, <1>4 DEF Types, AppendReply, memberVars, historyVars

LEMMA InstallReplyTyped ==
    ASSUME Types, NEW m \in messages, InstallReply(m)
    PROVE  Types'
<1> DEFINE i == m.call.from
<1>1. i \in Node /\ m.term \in Nat
  BY DEF Types, InstallReply, MessageOk
<1>2. \A n \in messages' : MessageOk(n)
  BY DiscardTyped DEF InstallReply
<1>3. /\ term' \in [Node -> Nat] /\ vote' \in [Node -> Nat]
      /\ states' \in [Node -> {"Follower", "Candidate", "Leader"}]
      /\ nextIndex' \in [Node -> Seq(Nat)]
      /\ \A j \in Node : Len(nextIndex'[j]) = Len(peers[j])
  <2>1. CASE StepDown(i, m)
    BY <1>1, <2>1 DEF Types, StepDown, leaderVars
  <2>2. CASE /\ nextIndex' = [nextIndex EXCEPT ![i][m.call.peer] = 1]
             /\ UNCHANGED <<term, states, vote, commitIndex>>
    <3>1. /\ nextIndex' \in [Node -> Seq(Nat)]
          /\ \A j \in Node : Len(nextIndex'[j]) = Len(peers[j])
      <4> HIDE DEF i
      <4> QED BY <1>1, <2>2, BookedTyped
    <3> QED BY <2>2, <3>1 DEF Types
  <2>3. CASE UNCHANGED <<term, states, vote, leaderVars, commitIndex>>
    BY <2>3 DEF Types, leaderVars
  <2> QED BY <2>1, <2>2, <2>3 DEF InstallReply
<1> QED BY <1>2, <1>3 DEF Types, InstallReply, memberVars, historyVars

\* HandleConfigChange adds a node or takes one away.
Changed(i) ==
    \/ UNCHANGED <<peers, nextIndex>> /\ UNCHANGED <<me, peerGen, matchIndex>>
    \/ \E node \in Node :
          /\ PositionIn(peers[i], node) = 0
          /\ peers' = [peers EXCEPT ![i] = Append(@, node)]
          /\ nextIndex' = [nextIndex EXCEPT ![i] = Append(@, LastIndex(i) + 1)]
          /\ matchIndex' = [matchIndex EXCEPT ![i] = Append(@, 0)]
          /\ peerGen' = [peerGen EXCEPT ![i] = @ + 1]
          /\ me' = me
    \/ \E p \in 1 .. Len(peers[i]) :
          /\ peers' = [peers EXCEPT ![i] = Without(peers[i], p)]
          /\ nextIndex' = [nextIndex EXCEPT ![i] = Without(@, p)]
          /\ matchIndex' = [matchIndex EXCEPT ![i] = Without(@, p)]
          /\ me[i] # 0
          /\ me' = [me EXCEPT ![i] = PositionIn(Without(peers[i], p), peers[i][me[i]])]
          /\ peerGen' = [peerGen EXCEPT ![i] = @ + 1]

LEMMA ApplyChanges ==
    ASSUME Types, NEW i \in Node, Apply(i)
    PROVE  Changed(i) /\ lastApply' \in [Node -> Nat]
<1> DEFINE k == lastApply[i] + 1
           node == log[i][k].change.node
<1>1. k \in Nat /\ k >= 1 /\ lastApply' \in [Node -> Nat]
  BY DEF Types, Apply
<1>2. CASE UNCHANGED <<memberVars, leaderVars>>
  BY <1>1, <1>2 DEF Changed, memberVars, leaderVars
<1>3. ASSUME k <= LastIndex(i), HandleConfigChange(i, log[i][k].change) PROVE Changed(i)
  <2>1. log[i][k] \in Entry
    BY <1>1, <1>3, LenProperties DEF Types, LastIndex
  <2>2. node \in Node
    BY <2>1, MembershipAssumption DEF Entry
  <2>3. peers[i] \in Seq(Node)
    BY DEF Types
  <2>4. CASE handleAdd(i, node)
    BY <2>2, <2>4 DEF handleAdd, Changed, memberVars, leaderVars
  <2>5. CASE handleDelete(i, node)
    <3>1. PositionIn(peers[i], node) # 0 => PositionIn(peers[i], node) \in 1 .. Len(peers[i])
      BY <2>3, PositionFacts
    <3> QED BY <2>5, <3>1 DEF handleDelete, Changed, memberVars, leaderVars
  <2> QED BY <1>3, <2>4, <2>5 DEF HandleConfigChange
<1>4. LastIndex(i) \in Nat
  BY LenProperties DEF Types, LastIndex
<1> QED BY <1>1, <1>2, <1>3, <1>4 DEF Apply

LEMMA ApplyTyped ==
    ASSUME Types, NEW i \in Node, Apply(i)
    PROVE  Types'
<1>1. Changed(i) /\ lastApply' \in [Node -> Nat]
  BY ApplyChanges
<1>2. /\ peers[i] \in Seq(Node) /\ nextIndex[i] \in Seq(Nat)
      /\ Len(nextIndex[i]) = Len(peers[i]) /\ me[i] \in Nat
      /\ LastIndex(i) \in Nat
  BY LenProperties DEF Types, LastIndex
<1>5. me \in [Node -> Nat] /\ peerGen \in [Node -> Nat] /\ peerGen[i] + 1 \in Nat
  <2>1. me \in [Node -> Nat] /\ peerGen \in [Node -> Nat]
    BY DEF Types
  <2> QED BY <2>1
<1>3. /\ peers' \in [Node -> Seq(Node)] /\ me' \in [Node -> Nat] /\ peerGen' \in [Node -> Nat]
      /\ nextIndex' \in [Node -> Seq(Nat)]
      /\ \A j \in Node : Len(nextIndex'[j]) = Len(peers'[j])
  <2>1. CASE UNCHANGED <<peers, nextIndex>> /\ UNCHANGED <<me, peerGen>>
    BY <2>1 DEF Types
  <2>2. ASSUME NEW node \in Node,
               peers' = [peers EXCEPT ![i] = Append(@, node)],
               nextIndex' = [nextIndex EXCEPT ![i] = Append(@, LastIndex(i) + 1)],
               peerGen' = [peerGen EXCEPT ![i] = @ + 1], me' = me
        PROVE  /\ peers' \in [Node -> Seq(Node)] /\ me' \in [Node -> Nat]
               /\ peerGen' \in [Node -> Nat] /\ nextIndex' \in [Node -> Seq(Nat)]
               /\ \A j \in Node : Len(nextIndex'[j]) = Len(peers'[j])
    <3> DEFINE a == Append(peers[i], node)
               b == Append(nextIndex[i], LastIndex(i) + 1)
    <3>1. a \in Seq(Node) /\ Len(a) = Len(peers[i]) + 1
      BY <1>2, AppendProperties
    <3>2. b \in Seq(Nat) /\ Len(b) = Len(nextIndex[i]) + 1
      BY <1>2, AppendProperties
    <3>3. peers' = [peers EXCEPT ![i] = a] /\ nextIndex' = [nextIndex EXCEPT ![i] = b]
      BY <2>2
    <3>4. me' \in [Node -> Nat] /\ peerGen' \in [Node -> Nat]
      <4>1. me \in [Node -> Nat] /\ peerGen \in [Node -> Nat] /\ peerGen[i] + 1 \in Nat
        BY <1>5
      <4> HIDE DEF a, b
      <4> QED BY <2>2, <4>1
    <3> HIDE DEF a, b
    <3>5. /\ peers \in [Node -> Seq(Node)] /\ nextIndex \in [Node -> Seq(Nat)]
          /\ \A j \in Node : Len(nextIndex[j]) = Len(peers[j])
      BY DEF Types
    <3> QED BY <1>2, <3>1, <3>2, <3>3, <3>4, <3>5
  <2>3. ASSUME NEW p \in 1 .. Len(peers[i]),
               peers' = [peers EXCEPT ![i] = Without(peers[i], p)],
               nextIndex' = [nextIndex EXCEPT ![i] = Without(@, p)],
               me' = [me EXCEPT ![i] = PositionIn(Without(peers[i], p), peers[i][me[i]])],
               peerGen' = [peerGen EXCEPT ![i] = @ + 1]
        PROVE  /\ peers' \in [Node -> Seq(Node)] /\ me' \in [Node -> Nat]
               /\ peerGen' \in [Node -> Nat] /\ nextIndex' \in [Node -> Seq(Nat)]
               /\ \A j \in Node : Len(nextIndex'[j]) = Len(peers'[j])
    <3> DEFINE a == Without(peers[i], p)
               b == Without(nextIndex[i], p)
    <3>1. a \in Seq(Node) /\ Len(a) = Len(peers[i]) - 1
      BY <1>2, WithoutFacts
    <3>2. b \in Seq(Nat) /\ Len(b) = Len(nextIndex[i]) - 1
      BY <1>2, WithoutFacts
    <3>3. PositionIn(a, peers[i][me[i]]) \in Nat
      <4> HIDE DEF a
      <4> QED BY <3>1, PositionFacts
    <3>4. peers' = [peers EXCEPT ![i] = a] /\ nextIndex' = [nextIndex EXCEPT ![i] = b]
      BY <2>3
    <3>5. me' \in [Node -> Nat] /\ peerGen' \in [Node -> Nat]
      <4>1. me \in [Node -> Nat] /\ peerGen \in [Node -> Nat] /\ peerGen[i] + 1 \in Nat
        BY <1>5
      <4> DEFINE q == PositionIn(a, peers[i][me[i]])
      <4>2. me' = [me EXCEPT ![i] = q] /\ q \in Nat
        BY <2>3, <3>3
      <4> HIDE DEF a, b, q
      <4> QED BY <2>3, <4>1, <4>2
    <3> HIDE DEF a, b
    <3>6. /\ peers \in [Node -> Seq(Node)] /\ nextIndex \in [Node -> Seq(Nat)]
          /\ \A j \in Node : Len(nextIndex[j]) = Len(peers[j])
      BY DEF Types
    <3> QED BY <1>2, <3>1, <3>2, <3>4, <3>5, <3>6
  <2> QED BY <1>1, <2>1, <2>2, <2>3 DEF Changed
<1>4. UNCHANGED <<voteVars, log, commitIndex, messages, historyVars>>
  BY DEF Apply
<1> QED BY <1>1, <1>3, <1>4 DEF Types, voteVars, historyVars

LEMMA InitTyped == Init => Types
<1> SUFFICES ASSUME Init PROVE Types
  OBVIOUS
<1>1. FirstPeers \in Seq(Node)
  BY MembershipAssumption
<1> DEFINE zero == [p \in DOMAIN FirstPeers |-> 0]
<1>2. zero \in Seq(Nat) /\ Len(zero) = Len(FirstPeers)
  <2>1. DOMAIN FirstPeers = 1 .. Len(FirstPeers) /\ Len(FirstPeers) \in Nat
    BY <1>1, LenProperties
  <2> QED BY <2>1
<1>3. nextIndex = [i \in Node |-> zero]
  BY DEF Init
<1> HIDE DEF zero
<1>4. \A i \in Node : PositionIn(FirstPeers, i) \in Nat
  BY <1>1, PositionFacts
<1>5. <<>> \in Seq(Entry) /\ <<>> \in Seq(Node)
  OBVIOUS
<1>6. campaign \in [Node -> [peers : Seq(Node), gen : Nat, me : Nat]]
  BY <1>5 DEF Init
<1> QED BY <1>1, <1>2, <1>3, <1>4, <1>5, <1>6 DEF Init, Types

LEMMA NextTyped == Types /\ [Next]_vars => Types'
<1> SUFFICES ASSUME Types, [Next]_vars PROVE Types'
  OBVIOUS
<1>1. CASE UNCHANGED vars
  BY <1>1 DEF Types, vars, memberVars, voteVars, leaderVars, historyVars
<1> QED
  BY <1>1, StartElectionTyped, BroadcastAloneTyped, ApplyTyped, StartTyped, SendAppendTyped,
     RequestVoteTyped, VoteReplyTyped, AppendEntriesTyped, AppendReplyTyped,
     InstallSnapshotTyped, InstallReplyTyped
  DEF Next

-----------------------------------------------------------------------------
(* The invariant *)

\* Message m is about the vote of j in the election of i in term t.
Concerns(m, i, j, t) ==
    \/ m.type = "RequestVote" /\ m.from = i /\ m.to = j /\ m.term = t
    \/ m.type = "VoteReply" /\ m.to = i /\ m.from = j /\ m.election = t

\* A list names nobody twice, and a node that knows its position in it is there.
OwnPlaces ==
    \A i \in Node :
        /\ IsInjective(peers[i])
        /\ me[i] # 0 => me[i] \in 1 .. Len(peers[i]) /\ peers[i][me[i]] = i

\* An election goes by the list it began with, as long as peerGen says so.
Campaigns ==
    \A i \in Node :
        states[i] = "Candidate" =>
            /\ campaign[i].me # 0 => /\ campaign[i].me \in 1 .. Len(campaign[i].peers)
                                     /\ campaign[i].peers[campaign[i].me] = i
            /\ campaign[i].gen <= peerGen[i]
            /\ campaign[i].gen = peerGen[i] => campaign[i].peers = peers[i]

\* Nobody is asked twice in an election, and a candidate that knows its position asks the
\* others in its list.
AskedOnce ==
    \A i \in Node : \A j \in Node : \A t \in Nat : \A m \in messages :
        Concerns(m, i, j, t) =>
            /\ t <= term[i]
            /\ states[i] = "Candidate" /\ term[i] = t /\ campaign[i].me # 0 =>
                  j # i /\ j \in Range(campaign[i].peers)
            /\ \A n \in messages : Concerns(n, i, j, t) => n = m

GrantsAreCast ==
    \A m \in messages : m.type = "VoteReply" /\ m.granted =>
        [voter |-> m.from, term |-> m.election, candidate |-> m.to] \in cast

\* What a candidate counted are the votes of different peers in its list.
VotesAreCast ==
    \A i \in Node :
        states[i] = "Candidate" /\ campaign[i].me # 0 =>
            \E C \in SUBSET Range(campaign[i].peers) :
                /\ i \in C /\ Cardinality(C) = votes[i]
                /\ \A j \in C : /\ [voter |-> j, term |-> term[i], candidate |-> i] \in cast
                                /\ \A m \in messages : ~Concerns(m, i, j, term[i])

WinnersHadVotes ==
    \A e \in elected :
        e.sound => \E C \in SUBSET Range(e.peers) :
                       /\ Cardinality(C) > Len(e.peers) \div 2
                       /\ \A j \in C : [voter |-> j, term |-> e.term, candidate |-> e.node] \in cast

CastBefore == \A v \in cast : v.term <= term[v.voter] /\ v.term <= term[v.candidate]

\* The positions under which nodes stood in each term: a node remembers the one it voted
\* for, and votes for no other.
Places(place) ==
    /\ \A m \in messages : m.type = "RequestVote" => m.candidate = place[m.from][m.term]
    /\ \A i \in Node : states[i] = "Candidate" => campaign[i].me = place[i][term[i]]
    /\ \A e \in elected :
          e.sound => /\ place[e.node][e.term] \in 1 .. Len(e.peers)
                     /\ e.peers[place[e.node][e.term]] = e.node
    /\ \A v \in cast :
          place[v.candidate][v.term] # 0 =>
              /\ v.term = term[v.voter] => vote[v.voter] = place[v.candidate][v.term]
              /\ \A w \in cast :
                    /\ w.voter = v.voter /\ w.term = v.term /\ place[w.candidate][w.term] # 0
                    => place[w.candidate][w.term] = place[v.candidate][v.term]

PositionsHold == \E place \in [Node -> [Nat -> Nat]] : Places(place)

MemberInv ==
    /\ Types /\ OwnPlaces /\ Campaigns /\ AskedOnce /\ GrantsAreCast /\ VotesAreCast
    /\ WinnersHadVotes /\ CastBefore /\ PositionsHold

-----------------------------------------------------------------------------
(* Lists of peers *)

LEMMA RangeFinite ==
    ASSUME NEW S, NEW list \in Seq(S)
    PROVE  /\ IsFiniteSet(Range(list)) /\ Cardinality(Range(list)) \in Nat
           /\ Cardinality(Range(list)) <= Len(list)
<1>1. DOMAIN list = 1 .. Len(list) /\ Len(list) \in Nat
  BY LenProperties
<1>2. list \in Surjection(1 .. Len(list), Range(list))
  BY <1>1 DEF Surjection, Range
<1>3. IsFiniteSet(1 .. Len(list)) /\ Cardinality(1 .. Len(list)) = Len(list)
  BY <1>1, FS_Interval
<1>4. IsFiniteSet(Range(list)) /\ Cardinality(Range(list)) <= Cardinality(1 .. Len(list))
  BY <1>2, <1>3, FS_Surjection
<1> QED BY <1>3, <1>4, FS_CardinalityType

LEMMA AppendedInjective ==
    ASSUME NEW list \in Seq(Node), IsInjective(list), NEW node \in Node,
           PositionIn(list, node) = 0
    PROVE  IsInjective(Append(list, node))
<1>1. /\ Append(list, node) \in Seq(Node) /\ Len(Append(list, node)) = Len(list) + 1
      /\ \A k \in 1 .. Len(list) : Append(list, node)[k] = list[k]
      /\ Append(list, node)[Len(list) + 1] = node
  BY AppendProperties
<1>2. \A p \in 1 .. Len(list) : list[p] # node
  BY PositionFacts
<1>3. /\ DOMAIN list = 1 .. Len(list) /\ Len(list) \in Nat
      /\ DOMAIN Append(list, node) = 1 .. Len(list) + 1
  BY <1>1, LenProperties
<1> DEFINE a == Append(list, node)
<1> SUFFICES ASSUME NEW p \in 1 .. Len(list) + 1, NEW q \in 1 .. Len(list) + 1, a[p] = a[q]
             PROVE  p = q
  BY <1>3 DEF IsInjective
<1> HIDE DEF a
<1>4. \A k \in 1 .. Len(list) : a[k] = list[k]
  BY <1>1 DEF a
<1>5. a[Len(list) + 1] = node
  BY <1>1 DEF a
<1>6. CASE p \in 1 .. Len(list) /\ q \in 1 .. Len(list)
  BY <1>3, <1>4, <1>6 DEF IsInjective
<1>7. CASE p = Len(list) + 1
  BY <1>2, <1>3, <1>4, <1>5, <1>7
<1>8. CASE q = Len(list) + 1
  BY <1>2, <1>3, <1>4, <1>5, <1>8
<1> QED BY <1>3, <1>6, <1>7, <1>8

LEMMA WithoutInjective ==
    ASSUME NEW list \in Seq(Node), IsInjective(list), NEW p \in 1 .. Len(list)
    PROVE  IsInjective(Without(list, p))
<1> DEFINE w == Without(list, p)
<1>1. /\ w \in Seq(Node) /\ Len(w) = Len(list) - 1
      /\ \A k \in 1 .. Len(list) - 1 : w[k] = list[IF k < p THEN k ELSE k + 1]
  BY WithoutFacts
<1> HIDE DEF w
<1>2. DOMAIN list = 1 .. Len(list) /\ Len(list) \in Nat /\ DOMAIN w = 1 .. Len(list) - 1
  BY <1>1, LenProperties
<1>3. \A a \in 1 .. Len(list) : \A b \in 1 .. Len(list) : list[a] = list[b] => a = b
  BY <1>2 DEF IsInjective
<1>4. \A a \in 1 .. Len(list) - 1 : \A b \in 1 .. Len(list) - 1 : w[a] = w[b] => a = b
  <2> SUFFICES ASSUME NEW a \in 1 .. Len(list) - 1, NEW b \in 1 .. Len(list) - 1, w[a] = w[b]
               PROVE  a = b
    OBVIOUS
  <2> DEFINE x == IF a < p THEN a ELSE a + 1
             y == IF b < p THEN b ELSE b + 1
  <2>1. w[a] = list[x] /\ w[b] = list[y]
    BY <1>1
  <2>2. x \in 1 .. Len(list) /\ y \in 1 .. Len(list)
    BY <1>2
  <2>3. x = y
    <3> HIDE DEF x, y
    <3> QED BY <1>3, <2>1, <2>2
  <2> QED BY <1>2, <2>3
<1> QED BY <1>2, <1>4 DEF IsInjective, w

LEMMA ChangedKeepsPlaces ==
    ASSUME Types, OwnPlaces, NEW i \in Node, Changed(i)
    PROVE  /\ OwnPlaces'
           /\ \A j \in Node : /\ peerGen'[j] >= peerGen[j]
                              /\ peerGen'[j] = peerGen[j] => peers'[j] = peers[j]
<1>1. /\ peers \in [Node -> Seq(Node)] /\ me \in [Node -> Nat] /\ peerGen \in [Node -> Nat]
      /\ peers[i] \in Seq(Node) /\ Len(peers[i]) \in Nat
  <2>1. /\ peers \in [Node -> Seq(Node)] /\ me \in [Node -> Nat] /\ peerGen \in [Node -> Nat]
    BY DEF Types
  <2> QED BY <2>1, LenProperties
<1>2. CASE UNCHANGED <<peers, nextIndex>> /\ UNCHANGED <<me, peerGen>>
  BY <1>1, <1>2 DEF OwnPlaces
<1>3. ASSUME NEW node \in Node, PositionIn(peers[i], node) = 0,
             peers' = [peers EXCEPT ![i] = Append(@, node)],
             peerGen' = [peerGen EXCEPT ![i] = @ + 1], me' = me
      PROVE  /\ OwnPlaces'
             /\ \A j \in Node : /\ peerGen'[j] >= peerGen[j]
                                /\ peerGen'[j] = peerGen[j] => peers'[j] = peers[j]
  <2> DEFINE a == Append(peers[i], node)
  <2>1. IsInjective(a)
    BY <1>1, <1>3, AppendedInjective DEF OwnPlaces
  <2>2. Len(a) = Len(peers[i]) + 1 /\ \A k \in 1 .. Len(peers[i]) : a[k] = peers[i][k]
    BY <1>1, AppendProperties
  <2>3. peers' = [peers EXCEPT ![i] = a]
    BY <1>3
  <2> HIDE DEF a
  <2>4. /\ \A j \in Node : j # i => peers'[j] = peers[j]
        /\ peers'[i] = a /\ me'[i] = me[i] /\ me[i] \in Nat /\ Len(peers[i]) \in Nat
    BY <1>1, <1>3, <2>3
  <2>5. me[i] # 0 => me'[i] \in 1 .. Len(peers'[i]) /\ peers'[i][me'[i]] = i
    BY <2>2, <2>4 DEF OwnPlaces
  <2>6. OwnPlaces'
    BY <1>3, <2>1, <2>4, <2>5 DEF OwnPlaces
  <2>7. \A j \in Node : /\ peerGen'[j] >= peerGen[j]
                        /\ peerGen'[j] = peerGen[j] => peers'[j] = peers[j]
    BY <1>1, <1>3, <2>4
  <2> QED BY <2>6, <2>7
<1>4. ASSUME NEW p \in 1 .. Len(peers[i]), me[i] # 0,
             peers' = [peers EXCEPT ![i] = Without(peers[i], p)],
             me' = [me EXCEPT ![i] = PositionIn(Without(peers[i], p), peers[i][me[i]])],
             peerGen' = [peerGen EXCEPT ![i] = @ + 1]
      PROVE  /\ OwnPlaces'
             /\ \A j \in Node : /\ peerGen'[j] >= peerGen[j]
                                /\ peerGen'[j] = peerGen[j] => peers'[j] = peers[j]
  <2> DEFINE w == Without(peers[i], p)
  <2>1. w \in Seq(Node) /\ IsInjective(w)
    BY <1>1, WithoutFacts, WithoutInjective DEF OwnPlaces
  <2>2. peers[i][me[i]] = i
    BY <1>4 DEF OwnPlaces
  <2>3. peers' = [peers EXCEPT ![i] = w] /\ me' = [me EXCEPT ![i] = PositionIn(w, i)]
    BY <1>4, <2>2
  <2> HIDE DEF w
  <2>4. PositionIn(w, i) # 0 => PositionIn(w, i) \in 1 .. Len(w) /\ w[PositionIn(w, i)] = i
    BY <2>1, PositionFacts
  <2>5. OwnPlaces'
    BY <1>1, <2>1, <2>3, <2>4 DEF OwnPlaces
  <2>6. \A j \in Node : j # i => peers'[j] = peers[j]
    BY <1>1, <2>3
  <2>7. \A j \in Node : /\ peerGen'[j] >= peerGen[j]
                        /\ peerGen'[j] = peerGen[j] => peers'[j] = peers[j]
    <3>1. /\ peerGen[i] \in Nat /\ peerGen'[i] = peerGen[i] + 1
          /\ \A j \in Node \ {i} : peerGen[j] \in Nat /\ peerGen'[j] = peerGen[j]
      BY <1>1, <1>4
    <3> QED BY ONLY <2>6, <3>1
  <2> QED BY <2>5, <2>7
<1> QED BY <1>2, <1>3, <1>4 DEF Changed

-----------------------------------------------------------------------------
(* Steps that hold no election *)

\* Terms grow, a vote is forgotten only with its term, and nobody starts to stand.
Quiet ==
    /\ UNCHANGED <<campaign, elected, cast, votes>>
    /\ \A i \in Node :
          /\ term'[i] >= term[i]
          /\ term'[i] = term[i] => vote'[i] = vote[i]
          /\ states'[i] = "Candidate" => states[i] = "Candidate" /\ term'[i] = term[i]
          /\ peerGen'[i] >= peerGen[i]
          /\ peerGen'[i] = peerGen[i] => peers'[i] = peers[i]
    /\ \A m \in messages' : m.type \in {"RequestVote", "VoteReply"} => m \in messages
    /\ OwnPlaces'

LEMMA QuietKeeps ==
    ASSUME MemberInv, Types', Quiet
    PROVE  MemberInv'
<1>0. Types
  BY DEF MemberInv
<1>1. Campaigns'
  <2>1. \A i \in Node : peerGen[i] \in Nat /\ peerGen'[i] \in Nat /\ campaign[i].gen \in Nat
    BY <1>0 DEF Types
  <2> QED BY <2>1 DEF MemberInv, Campaigns, Quiet
<1>2. \A i, j, t : \A m \in messages' : Concerns(m, i, j, t) => m \in messages
  BY DEF Quiet, Concerns
<1>3. AskedOnce'
  <2> SUFFICES ASSUME NEW i \in Node, NEW j \in Node, NEW t \in Nat, NEW m \in messages',
                      Concerns(m, i, j, t)
               PROVE  /\ t <= term'[i]
                      /\ states'[i] = "Candidate" /\ term'[i] = t /\ campaign'[i].me # 0 =>
                            j # i /\ j \in Range(campaign'[i].peers)
                      /\ \A n \in messages' : Concerns(n, i, j, t) => n = m
    BY DEF AskedOnce
  <2>1. /\ m \in messages /\ t <= term[i]
        /\ states[i] = "Candidate" /\ term[i] = t /\ campaign[i].me # 0 =>
              j # i /\ j \in Range(campaign[i].peers)
        /\ \A n \in messages : Concerns(n, i, j, t) => n = m
    BY <1>2 DEF MemberInv, AskedOnce
  <2>2. term[i] \in Nat /\ term'[i] \in Nat
    BY <1>0 DEF Types
  <2> QED BY <1>2, <2>1, <2>2 DEF Quiet
<1>4. GrantsAreCast'
  BY DEF MemberInv, GrantsAreCast, Quiet
<1>5. VotesAreCast'
  <2> SUFFICES ASSUME NEW i \in Node, states'[i] = "Candidate", campaign'[i].me # 0
               PROVE  \E C \in SUBSET Range(campaign'[i].peers) :
                         /\ i \in C /\ Cardinality(C) = votes'[i]
                         /\ \A j \in C :
                               /\ [voter |-> j, term |-> term'[i], candidate |-> i] \in cast'
                               /\ \A m \in messages' : ~Concerns(m, i, j, term'[i])
    BY DEF VotesAreCast
  <2>1. /\ states[i] = "Candidate" /\ term'[i] = term[i]
        /\ campaign' = campaign /\ votes' = votes /\ cast' = cast
    BY DEF Quiet
  <2>2. PICK C \in SUBSET Range(campaign[i].peers) :
           /\ i \in C /\ Cardinality(C) = votes[i]
           /\ \A j \in C : /\ [voter |-> j, term |-> term[i], candidate |-> i] \in cast
                           /\ \A m \in messages : ~Concerns(m, i, j, term[i])
    BY <2>1 DEF MemberInv, VotesAreCast
  <2> QED BY <1>2, <2>1, <2>2
<1>6. WinnersHadVotes'
  BY DEF MemberInv, WinnersHadVotes, Quiet
<1>7. CastBefore'
  <2>1. \A v \in cast : /\ v.voter \in Node /\ v.candidate \in Node /\ v.term \in Nat
                        /\ term[v.voter] \in Nat /\ term'[v.voter] \in Nat
                        /\ term[v.candidate] \in Nat /\ term'[v.candidate] \in Nat
    BY <1>0 DEF Types
  <2> QED BY <2>1 DEF MemberInv, CastBefore, Quiet
<1>8. PositionsHold'
  <2>1. PICK place \in [Node -> [Nat -> Nat]] : Places(place)
    BY DEF MemberInv, PositionsHold
  <2>2. \A m \in messages' : m.type = "RequestVote" => m.candidate = place[m.from][m.term]
    BY <2>1 DEF Places, Quiet
  <2>3. \A i \in Node : states'[i] = "Candidate" => campaign'[i].me = place[i][term'[i]]
    BY <2>1 DEF Places, Quiet
  <2>4. \A v \in cast : v.term = term'[v.voter] =>
                           v.term = term[v.voter] /\ vote'[v.voter] = vote[v.voter]
    <3>1. \A v \in cast : /\ v.voter \in Node /\ v.term \in Nat /\ v.term <= term[v.voter]
                          /\ term[v.voter] \in Nat /\ term'[v.voter] \in Nat
      BY <1>0 DEF Types, MemberInv, CastBefore
    <3>2. \A i \in Node : term'[i] >= term[i] /\ (term'[i] = term[i] => vote'[i] = vote[i])
      BY DEF Quiet
    <3> SUFFICES ASSUME NEW v \in cast, v.term = term'[v.voter]
                 PROVE  v.term = term[v.voter] /\ vote'[v.voter] = vote[v.voter]
      OBVIOUS
    <3>3. v.term = term[v.voter] /\ term'[v.voter] = term[v.voter]
      <4>1. /\ v.voter \in Node /\ v.term \in Nat /\ v.term <= term[v.voter]
            /\ term[v.voter] \in Nat /\ term'[v.voter] \in Nat
        BY <3>1
      <4>2. term'[v.voter] >= term[v.voter]
        BY <3>2, <4>1
      <4>3. \A a \in Nat : \A b \in Nat : a <= b /\ a >= b => a = b
        OBVIOUS
      <4>4. term'[v.voter] <= term[v.voter]
        BY <4>1
      <4>5. term'[v.voter] = term[v.voter]
        BY <4>1, <4>2, <4>3, <4>4
      <4> QED BY <4>5
    <3> QED BY <3>1, <3>2, <3>3
  <2>5. cast' = cast /\ elected' = elected
    BY DEF Quiet
  <2>6. Places(place)'
    BY <2>1, <2>2, <2>3, <2>4, <2>5 DEF Places
  <2> QED BY <2>6 DEF PositionsHold
<1> QED BY <1>1, <1>3, <1>4, <1>5, <1>6, <1>7, <1>8 DEF MemberInv, Quiet

\* Where the members stay, what is left of Quiet is about terms and votes.
LEMMA SteadyIsQuiet ==
    ASSUME MemberInv, UNCHANGED <<memberVars, votes, historyVars>>,
           \A i \in Node :
               /\ term'[i] >= term[i]
               /\ term'[i] = term[i] => vote'[i] = vote[i]
               /\ states'[i] = "Candidate" => states[i] = "Candidate" /\ term'[i] = term[i],
           \A m \in messages' : m.type \in {"RequestVote", "VoteReply"} => m \in messages
    PROVE  Quiet
<1>1. \A i \in Node : peerGen[i] \in Nat
  BY DEF MemberInv, Types
<1> QED BY <1>1 DEF MemberInv, Quiet, OwnPlaces, memberVars, historyVars

LEMMA ReplicationIsQuiet ==
    ASSUME MemberInv, NEW i \in Node,
           \/ BroadcastAlone(i) \/ Apply(i)
           \/ \E change \in Changes : Start(i, change)
           \/ \E p \in DOMAIN peers[i] : SendAppend(i, p)
    PROVE  Quiet
<1>1. \A j \in Node : term[j] \in Nat /\ peerGen[j] \in Nat
  BY DEF MemberInv, Types
<1>2. CASE BroadcastAlone(i) \/ \E change \in Changes : Start(i, change)
  <2>1. UNCHANGED <<memberVars, voteVars, messages, historyVars>>
    BY <1>2 DEF BroadcastAlone, Start
  <2> QED BY <1>1, <2>1, SteadyIsQuiet DEF voteVars
<1>3. CASE \E p \in DOMAIN peers[i] : SendAppend(i, p)
  <2>1. UNCHANGED <<memberVars, voteVars, historyVars>>
    BY <1>3 DEF SendAppend
  <2>2. \A m \in messages' : m.type \in {"RequestVote", "VoteReply"} => m \in messages
    BY <1>3 DEF SendAppend, Send
  <2> QED BY <1>1, <2>1, <2>2, SteadyIsQuiet DEF voteVars
<1>4. CASE Apply(i)
  <2>1. UNCHANGED <<voteVars, messages, historyVars>>
    BY <1>4 DEF Apply
  <2>2. Changed(i)
    BY <1>4, ApplyChanges DEF MemberInv
  <2>3. /\ OwnPlaces'
        /\ \A j \in Node : /\ peerGen'[j] >= peerGen[j]
                           /\ peerGen'[j] = peerGen[j] => peers'[j] = peers[j]
    BY <2>2, ChangedKeepsPlaces DEF MemberInv
  <2> QED BY <1>1, <2>1, <2>3 DEF Quiet, voteVars, historyVars
<1> QED BY <1>2, <1>3, <1>4

LEMMA HeartbeatIsQuiet ==
    ASSUME MemberInv, NEW m \in messages,
           AppendEntries(m) \/ AppendReply(m) \/ InstallSnapshot(m) \/ InstallReply(m)
    PROVE  Quiet
<1>1. /\ term \in [Node -> Nat] /\ states \in [Node -> {"Follower", "Candidate", "Leader"}]
      /\ vote \in [Node -> Nat] /\ \A j \in Node : term[j] \in Nat
  BY DEF MemberInv, Types
<1>2. UNCHANGED <<memberVars, votes, historyVars>>
  BY DEF AppendEntries, AppendReply, InstallSnapshot, InstallReply
<1>3. \A n \in messages' : n.type \in {"RequestVote", "VoteReply"} => n \in messages
  BY DEF AppendEntries, AppendReply, InstallSnapshot, InstallReply, Reply, Discard, AnswerAppend
<1> DEFINE Calm == \A i \in Node :
               /\ term'[i] >= term[i]
               /\ term'[i] = term[i] => vote'[i] = vote[i]
               /\ states'[i] = "Candidate" => states[i] = "Candidate" /\ term'[i] = term[i]
<1> SUFFICES Calm
  BY <1>2, <1>3, SteadyIsQuiet
<1>4. CASE AppendEntries(m) \/ InstallSnapshot(m)
  <2>1. m.call.to \in Node /\ m.call.term \in Nat
    BY <1>4 DEF AppendEntries, InstallSnapshot, MemberInv, Types, MessageOk
  <2>2. CASE UNCHANGED <<term, vote, states>>
    BY <1>1, <2>2
  <2>3. CASE /\ m.call.term >= term[m.call.to] /\ Accept(m.call.to, m)
             /\ vote' = IF m.call.term > term[m.call.to] THEN [vote EXCEPT ![m.call.to] = 0]
                        ELSE vote
    BY <1>1, <2>1, <2>3 DEF Accept
  <2>4. CASE m.call.term >= term[m.call.to] /\ Accept(m.call.to, m) /\ vote' = vote
    BY <1>1, <2>1, <2>4 DEF Accept
  <2> QED BY <1>4, <2>2, <2>3, <2>4 DEF AppendEntries, InstallSnapshot
<1>5. CASE AppendReply(m) \/ InstallReply(m)
  <2>1. m.call.from \in Node /\ m.term \in Nat
    BY <1>5 DEF AppendReply, InstallReply, MemberInv, Types, MessageOk
  <2>2. CASE UNCHANGED <<term, vote, states>>
    BY <1>1, <2>2
  <2>3. CASE StepDown(m.call.from, m)
    BY <1>1, <2>1, <2>3 DEF StepDown
  <2> QED BY <1>5, <2>2, <2>3 DEF AppendReply, InstallReply
<1> QED BY <1>4, <1>5

-----------------------------------------------------------------------------
(* An election begins *)

VoteRequest(i, p) ==
    [type |-> "RequestVote", from |-> i, to |-> peers[i][p], candidate |-> me[i],
     term |-> term[i] + 1, lastIndex |-> LastIndex(i), lastTerm |-> TermAt(i, LastIndex(i))]

OwnVote(i) == [voter |-> i, term |-> term[i] + 1, candidate |-> i]

Victory(i, t, c) ==
    [node |-> i, term |-> t, peers |-> c.peers, sound |-> c.gen = peerGen[i] /\ c.me # 0]

Begins(i) ==
    /\ UNCHANGED memberVars
    /\ term'[i] = term[i] + 1 /\ vote'[i] = me[i] /\ votes'[i] = 1
    /\ campaign'[i] = [peers |-> peers[i], gen |-> peerGen[i], me |-> me[i]]
    /\ \A j \in Node \ {i} : /\ term'[j] = term[j] /\ vote'[j] = vote[j] /\ votes'[j] = votes[j]
                             /\ campaign'[j] = campaign[j] /\ states'[j] = states[j]
    /\ cast' = cast \cup {OwnVote(i)}
    /\ \A m \in messages' : m \in messages \/ \E p \in DOMAIN peers[i] \ {me[i]} : m = VoteRequest(i, p)
    /\ \/ elected' = elected
       \/ /\ 1 > Len(peers[i]) \div 2
          /\ elected' = elected \cup
                {Victory(i, term[i] + 1, [peers |-> peers[i], gen |-> peerGen[i], me |-> me[i]])}

LEMMA StartElectionBegins ==
    ASSUME Types, NEW i \in Node, StartElection(i)
    PROVE  Begins(i)
<1> DEFINE c == [peers |-> peers[i], gen |-> peerGen[i], me |-> me[i]]
<1>1. UNCHANGED memberVars /\ cast' = cast \cup {OwnVote(i)}
  BY DEF StartElection, OwnVote
<1>2. /\ term \in [Node -> Nat] /\ vote \in [Node -> Nat] /\ votes \in [Node -> Nat]
      /\ states \in [Node -> {"Follower", "Candidate", "Leader"}]
      /\ campaign \in [Node -> [peers : Seq(Node), gen : Nat, me : Nat]]
  BY DEF Types
<1>3. /\ term' = [term EXCEPT ![i] = @ + 1] /\ vote' = [vote EXCEPT ![i] = me[i]]
      /\ votes' = [votes EXCEPT ![i] = 1] /\ campaign' = [campaign EXCEPT ![i] = c]
  BY DEF StartElection
<1>4. \A m \in messages' : m \in messages \/ \E p \in DOMAIN peers[i] \ {me[i]} : m = VoteRequest(i, p)
  <2> DEFINE new == {VoteRequest(i, p) : p \in DOMAIN peers[i] \ {me[i]}}
  <2>1. Send(new)
    BY DEF StartElection, VoteRequest
  <2>2. messages' \subseteq messages \cup new
    <3> HIDE DEF new
    <3> QED BY <2>1 DEF Send
  <2> QED BY <2>2
<1>5. \A j \in Node \ {i} : states'[j] = states[j]
  BY <1>2 DEF StartElection, BecomeLeader
<1>6. \/ elected' = elected
      \/ 1 > Len(peers[i]) \div 2 /\ elected' = elected \cup {Victory(i, term[i] + 1, c)}
  <2>1. CASE Enough(i, 1)
    <3>1. BecomeLeader(i, term[i] + 1, c)
      BY <2>1 DEF StartElection
    <3> HIDE DEF c
    <3> QED BY <2>1, <3>1 DEF Enough, BecomeLeader, Victory
  <2>2. CASE ~Enough(i, 1)
    BY <2>2 DEF StartElection
  <2> QED BY <2>1, <2>2
<1> HIDE DEF c
<1>7. /\ term'[i] = term[i] + 1 /\ vote'[i] = me[i] /\ votes'[i] = 1 /\ campaign'[i] = c
      /\ \A j \in Node \ {i} : /\ term'[j] = term[j] /\ vote'[j] = vote[j]
                               /\ votes'[j] = votes[j] /\ campaign'[j] = campaign[j]
  BY <1>2, <1>3
<1> QED BY <1>1, <1>4, <1>5, <1>6, <1>7 DEF Begins, c

\* Whoever won a term by a sound election has it behind itself.
LEMMA WinnersStood ==
    ASSUME MemberInv, NEW e \in elected, e.sound
    PROVE  e.node \in Node /\ e.term \in Nat /\ e.term <= term[e.node]
<1>1. PICK C \in SUBSET Range(e.peers) :
         /\ Cardinality(C) > Len(e.peers) \div 2
         /\ \A j \in C : [voter |-> j, term |-> e.term, candidate |-> e.node] \in cast
  BY DEF MemberInv, WinnersHadVotes
<1>2. e.node \in Node /\ e.term \in Nat /\ e.peers \in Seq(Node)
  BY DEF MemberInv, Types
<1>3. Len(e.peers) \in Nat
  BY <1>2, LenProperties
<1>4. C # {}
  <2>1. \A n \in Nat : ~(0 > n \div 2)
    OBVIOUS
  <2>2. Cardinality({}) = 0
    BY FS_EmptySet
  <2>3. C = {} => 0 > Len(e.peers) \div 2
    BY <1>1, <2>2
  <2> QED BY <1>3, <2>1, <2>3
<1>5. PICK j \in C : TRUE
  BY <1>4
<1> DEFINE v == [voter |-> j, term |-> e.term, candidate |-> e.node]
<1>6. v \in cast /\ v.term = e.term /\ v.candidate = e.node
  BY <1>1
<1> HIDE DEF v
<1> QED BY <1>2, <1>6 DEF MemberInv, CastBefore

LEMMA BeginsKeeps ==
    ASSUME MemberInv, Types', NEW i \in Node, Begins(i)
    PROVE  MemberInv'
<1> DEFINE t == term[i] + 1
           c == [peers |-> peers[i], gen |-> peerGen[i], me |-> me[i]]
<1>0. /\ term[i] \in Nat /\ t \in Nat /\ t > term[i] /\ me[i] \in Nat /\ peerGen[i] \in Nat
      /\ peers[i] \in Seq(Node) /\ DOMAIN peers[i] = 1 .. Len(peers[i]) /\ Len(peers[i]) \in Nat
      /\ \A j \in Node : term[j] \in Nat
  <2>1. /\ term[i] \in Nat /\ me[i] \in Nat /\ peerGen[i] \in Nat /\ peers[i] \in Seq(Node)
        /\ \A j \in Node : term[j] \in Nat
    BY DEF MemberInv, Types
  <2> QED BY <2>1, LenProperties
<1>1. /\ UNCHANGED memberVars
      /\ term'[i] = t /\ vote'[i] = me[i] /\ votes'[i] = 1 /\ campaign'[i] = c
      /\ \A j \in Node \ {i} : /\ term'[j] = term[j] /\ vote'[j] = vote[j] /\ votes'[j] = votes[j]
                               /\ campaign'[j] = campaign[j] /\ states'[j] = states[j]
      /\ cast' = cast \cup {OwnVote(i)}
      /\ \A m \in messages' :
            m \in messages \/ \E p \in DOMAIN peers[i] \ {me[i]} : m = VoteRequest(i, p)
      /\ \/ elected' = elected
         \/ 1 > Len(peers[i]) \div 2 /\ elected' = elected \cup {Victory(i, t, c)}
  BY DEF Begins
<1>2. c.peers = peers[i] /\ c.gen = peerGen[i] /\ c.me = me[i]
  OBVIOUS
<1>3. OwnPlaces'
  BY <1>1 DEF MemberInv, OwnPlaces, memberVars
<1>4. me[i] # 0 => /\ me[i] \in 1 .. Len(peers[i]) /\ peers[i][me[i]] = i
                   /\ i \in Range(peers[i])
  BY <1>0 DEF MemberInv, OwnPlaces, Range
<1>5. ASSUME NEW p \in DOMAIN peers[i] \ {me[i]}
      PROVE  /\ VoteRequest(i, p).type = "RequestVote" /\ VoteRequest(i, p).from = i
             /\ VoteRequest(i, p).to = peers[i][p] /\ VoteRequest(i, p).term = t
             /\ VoteRequest(i, p).candidate = me[i]
             /\ peers[i][p] \in Range(peers[i])
             /\ me[i] # 0 => peers[i][p] # i
  BY <1>0, <1>4 DEF VoteRequest, Range, MemberInv, OwnPlaces, IsInjective
<1>6. \A m \in messages : \A a \in Node : \A b \in Node : \A n \in Nat :
         Concerns(m, a, b, n) => n <= term[a]
  BY DEF MemberInv, AskedOnce
<1>16. \A a \in Node : \A n \in Nat : n <= term[a] => ~(a = i /\ n = t)
  BY <1>0
<1>7. \A p \in DOMAIN peers[i] \ {me[i]} : \A a, b, n :
         Concerns(VoteRequest(i, p), a, b, n) => a = i /\ n = t /\ b = peers[i][p]
  BY <1>5 DEF Concerns
<1> HIDE DEF c, t
<1>8. Campaigns'
  <2> SUFFICES ASSUME NEW a \in Node, states'[a] = "Candidate"
               PROVE  /\ campaign'[a].me # 0 => /\ campaign'[a].me \in 1 .. Len(campaign'[a].peers)
                                                /\ campaign'[a].peers[campaign'[a].me] = a
                      /\ campaign'[a].gen <= peerGen'[a]
                      /\ campaign'[a].gen = peerGen'[a] => campaign'[a].peers = peers'[a]
    BY DEF Campaigns
  <2>1. peerGen' = peerGen /\ peers' = peers
    BY <1>1 DEF memberVars
  <2>2. CASE a = i
    BY <1>0, <1>1, <1>2, <1>4, <2>1, <2>2
  <2>3. CASE a # i
    BY <1>1, <2>1, <2>3 DEF MemberInv, Campaigns
  <2> QED BY <2>2, <2>3
<1>9. AskedOnce'
  <2> SUFFICES ASSUME NEW a \in Node, NEW b \in Node, NEW n \in Nat, NEW m \in messages',
                      Concerns(m, a, b, n)
               PROVE  /\ n <= term'[a]
                      /\ states'[a] = "Candidate" /\ term'[a] = n /\ campaign'[a].me # 0 =>
                            b # a /\ b \in Range(campaign'[a].peers)
                      /\ \A k \in messages' : Concerns(k, a, b, n) => k = m
    BY DEF AskedOnce
  <2>1. CASE m \in messages
    <3>1. n <= term[a]
      BY <1>6, <2>1
    <3>2. \A k \in messages' : Concerns(k, a, b, n) => k \in messages
      BY <1>0, <1>1, <1>7, <3>1
    <3>3. \A k \in messages' : Concerns(k, a, b, n) => k = m
      BY <2>1, <3>2 DEF MemberInv, AskedOnce
    <3>4. CASE a = i
      BY <1>0, <1>1, <3>1, <3>3, <3>4
    <3>5. CASE a # i
      BY <1>1, <2>1, <3>1, <3>3, <3>5 DEF MemberInv, AskedOnce
    <3> QED BY <3>4, <3>5
  <2>2. CASE m \notin messages
    <3>1. PICK p \in DOMAIN peers[i] \ {me[i]} : m = VoteRequest(i, p)
      BY <1>1, <2>2
    <3>2. a = i /\ n = t /\ b = peers[i][p]
      BY <1>7, <3>1
    <3>3. ASSUME NEW k \in messages', Concerns(k, a, b, n) PROVE k = m
      <4>1. k \notin messages
        BY <1>0, <1>6, <3>2, <3>3
      <4>2. PICK q \in DOMAIN peers[i] \ {me[i]} : k = VoteRequest(i, q)
        BY <1>1, <3>3, <4>1
      <4>3. peers[i][q] = peers[i][p]
        BY <1>7, <3>2, <3>3, <4>2
      <4> QED BY <3>1, <4>2, <4>3 DEF VoteRequest
    <3>4. campaign'[a].me # 0 => b # a /\ b \in Range(campaign'[a].peers)
      BY <1>1, <1>2, <1>5, <3>2
    <3>5. n <= term'[a]
      BY <1>0, <1>1, <3>2
    <3> QED BY <3>3, <3>4, <3>5
  <2> QED BY <2>1, <2>2
<1>10. GrantsAreCast'
  BY <1>1, <1>5 DEF MemberInv, GrantsAreCast
<1>11. OwnVote(i) \in cast' /\ OwnVote(i).voter = i /\ OwnVote(i).candidate = i
       /\ OwnVote(i).term = t
  BY <1>1 DEF OwnVote, t
<1>12. VotesAreCast'
  <2> SUFFICES ASSUME NEW a \in Node, states'[a] = "Candidate", campaign'[a].me # 0
               PROVE  \E C \in SUBSET Range(campaign'[a].peers) :
                         /\ a \in C /\ Cardinality(C) = votes'[a]
                         /\ \A j \in C :
                               /\ [voter |-> j, term |-> term'[a], candidate |-> a] \in cast'
                               /\ \A m \in messages' : ~Concerns(m, a, j, term'[a])
    BY DEF VotesAreCast
  <2>1. CASE a = i
    <3>1. me[i] # 0 /\ campaign'[a].peers = peers[i]
      BY <1>1, <1>2, <2>1
    <3>2. {i} \in SUBSET Range(campaign'[a].peers)
      BY <1>4, <3>1
    <3>3. Cardinality({i}) = votes'[a]
      BY <1>1, <2>1, FS_Singleton
    <3>4. [voter |-> i, term |-> term'[a], candidate |-> a] \in cast'
      BY <1>1, <2>1 DEF OwnVote, t
    <3>5. ASSUME NEW m \in messages', Concerns(m, a, i, term'[a]) PROVE FALSE
      <4>1. CASE m \in messages
        BY <1>0, <1>1, <1>6, <2>1, <3>5, <4>1
      <4>2. CASE m \notin messages
        BY <1>1, <1>5, <1>7, <2>1, <3>1, <3>5, <4>2
      <4> QED BY <4>1, <4>2
    <3> QED BY <2>1, <3>2, <3>3, <3>4, <3>5
  <2>2. CASE a # i
    <3>1. /\ states[a] = "Candidate" /\ term'[a] = term[a] /\ votes'[a] = votes[a]
          /\ campaign'[a] = campaign[a]
      BY <1>1, <2>2
    <3>2. PICK C \in SUBSET Range(campaign[a].peers) :
             /\ a \in C /\ Cardinality(C) = votes[a]
             /\ \A j \in C : /\ [voter |-> j, term |-> term[a], candidate |-> a] \in cast
                             /\ \A m \in messages : ~Concerns(m, a, j, term[a])
      BY <3>1 DEF MemberInv, VotesAreCast
    <3>3. \A j : \A m \in messages' : Concerns(m, a, j, term[a]) => m \in messages
      BY <1>1, <1>7, <2>2
    <3> QED BY <1>1, <3>1, <3>2, <3>3
  <2> QED BY <2>1, <2>2
<1>13. WinnersHadVotes'
  <2> SUFFICES ASSUME NEW e \in elected', e.sound
               PROVE  \E C \in SUBSET Range(e.peers) :
                         /\ Cardinality(C) > Len(e.peers) \div 2
                         /\ \A j \in C :
                               [voter |-> j, term |-> e.term, candidate |-> e.node] \in cast'
    BY DEF WinnersHadVotes
  <2>1. CASE e \in elected
    BY <1>1, <2>1 DEF MemberInv, WinnersHadVotes
  <2>2. CASE e \notin elected
    <3>1. e = Victory(i, t, c) /\ 1 > Len(peers[i]) \div 2
      BY <1>1, <2>2
    <3>2. e.peers = peers[i] /\ e.term = t /\ e.node = i /\ me[i] # 0
      BY <1>2, <3>1 DEF Victory
    <3>3. {i} \in SUBSET Range(e.peers)
      BY <1>4, <3>2
    <3>4. Cardinality({i}) > Len(e.peers) \div 2
      BY <3>1, <3>2, FS_Singleton
    <3>5. [voter |-> i, term |-> e.term, candidate |-> e.node] \in cast'
      BY <1>11, <3>2 DEF OwnVote, t
    <3> QED BY <3>3, <3>4, <3>5
  <2> QED BY <2>1, <2>2
<1>14. CastBefore'
  <2>1. \A v \in cast : v.voter \in Node /\ v.candidate \in Node /\ v.term \in Nat
    BY DEF MemberInv, Types
  <2>2. \A j \in Node : term'[j] >= term[j] /\ term'[j] \in Nat
    BY <1>0, <1>1
  <2>3. \A v \in cast : v.term <= term'[v.voter] /\ v.term <= term'[v.candidate]
    <3> SUFFICES ASSUME NEW v \in cast
                 PROVE  v.term <= term'[v.voter] /\ v.term <= term'[v.candidate]
      OBVIOUS
    <3>1. v.term <= term[v.voter] /\ v.term <= term[v.candidate]
      BY DEF MemberInv, CastBefore
    <3>2. /\ term[v.voter] \in Nat /\ term'[v.voter] \in Nat /\ term'[v.voter] >= term[v.voter]
          /\ term[v.candidate] \in Nat /\ term'[v.candidate] \in Nat
          /\ term'[v.candidate] >= term[v.candidate]
      BY <1>0, <2>1, <2>2
    <3> QED BY <2>1, <3>1, <3>2
  <2> QED BY <1>0, <1>1, <1>11, <2>3 DEF CastBefore
<1>15. PositionsHold'
  <2>1. PICK place \in [Node -> [Nat -> Nat]] : Places(place)
    BY DEF MemberInv, PositionsHold
  <2>2. PICK q \in [Node -> [Nat -> Nat]] :
           /\ q[i][t] = me[i]
           /\ \A a \in Node : \A n \in Nat : ~(a = i /\ n = t) => q[a][n] = place[a][n]
    <3> DEFINE r == [place EXCEPT ![i] = [place[i] EXCEPT ![t] = me[i]]]
    <3>1. /\ r \in [Node -> [Nat -> Nat]] /\ r[i][t] = me[i]
          /\ \A a \in Node : \A n \in Nat : ~(a = i /\ n = t) => r[a][n] = place[a][n]
      BY <1>0
    <3> QED BY <3>1
  <2>3. \A m \in messages' : m.type = "RequestVote" => m.candidate = q[m.from][m.term]
    <3> SUFFICES ASSUME NEW m \in messages', m.type = "RequestVote"
                 PROVE  m.candidate = q[m.from][m.term]
      OBVIOUS
    <3>1. CASE m \in messages
      <4>1. m.from \in Node /\ m.to \in Node /\ m.term \in Nat
        BY <3>1 DEF MemberInv, Types, MessageOk
      <4>2. m.term <= term[m.from]
        BY <1>6, <3>1, <4>1 DEF Concerns
      <4>3. ~(m.from = i /\ m.term = t)
        BY <1>16, <4>1, <4>2
      <4> QED BY <2>1, <2>2, <3>1, <4>1, <4>3 DEF Places
    <3>2. CASE m \notin messages
      <4>1. PICK p \in DOMAIN peers[i] \ {me[i]} : m = VoteRequest(i, p)
        BY <1>1, <3>2
      <4>2. m.from = i /\ m.term = t /\ m.candidate = me[i]
        BY <1>5, <4>1
      <4> QED BY <2>2, <4>2
    <3> QED BY <3>1, <3>2
  <2>4. \A a \in Node : states'[a] = "Candidate" => campaign'[a].me = q[a][term'[a]]
    <3> SUFFICES ASSUME NEW a \in Node, states'[a] = "Candidate"
                 PROVE  campaign'[a].me = q[a][term'[a]]
      OBVIOUS
    <3>1. CASE a = i
      BY <1>1, <1>2, <2>2, <3>1
    <3>2. CASE a # i
      <4>1. /\ states[a] = "Candidate" /\ term'[a] = term[a] /\ campaign'[a] = campaign[a]
            /\ term[a] \in Nat
        BY <1>0, <1>1, <3>2
      <4>2. campaign[a].me = place[a][term[a]]
        BY <2>1, <4>1 DEF Places
      <4>3. q[a][term[a]] = place[a][term[a]]
        BY <2>2, <3>2, <4>1
      <4> QED BY <4>1, <4>2, <4>3
    <3> QED BY <3>1, <3>2
  <2>5. \A e \in elected' :
           e.sound => q[e.node][e.term] \in 1 .. Len(e.peers) /\ e.peers[q[e.node][e.term]] = e.node
    <3> SUFFICES ASSUME NEW e \in elected', e.sound
                 PROVE  q[e.node][e.term] \in 1 .. Len(e.peers) /\ e.peers[q[e.node][e.term]] = e.node
      OBVIOUS
    <3>1. CASE e \in elected
      <4>1. e.node \in Node /\ e.term \in Nat /\ e.term <= term[e.node]
        BY <3>1, WinnersStood
      <4>2. ~(e.node = i /\ e.term = t)
        BY <1>16, <4>1
      <4> QED BY <2>1, <2>2, <3>1, <4>1, <4>2 DEF Places
    <3>2. CASE e \notin elected
      <4>1. e = Victory(i, t, c)
        BY <1>1, <3>2
      <4>2. e.peers = peers[i] /\ e.term = t /\ e.node = i /\ me[i] # 0
        BY <1>2, <4>1 DEF Victory
      <4> QED BY <1>4, <2>2, <4>2
    <3> QED BY <3>1, <3>2
  <2>6. ASSUME NEW v \in cast
        PROVE  /\ v.voter \in Node /\ v.candidate \in Node /\ v.term \in Nat
               /\ q[v.candidate][v.term] = place[v.candidate][v.term]
               /\ ~(v.voter = i /\ v.term = t)
    <3>1. /\ v.voter \in Node /\ v.candidate \in Node /\ v.term \in Nat
          /\ v.term <= term[v.voter] /\ v.term <= term[v.candidate]
      BY DEF MemberInv, Types, CastBefore
    <3>2. ~(v.candidate = i /\ v.term = t) /\ ~(v.voter = i /\ v.term = t)
      BY <1>16, <3>1
    <3> QED BY <2>2, <3>1, <3>2
  <2>7. \A v \in cast' :
           q[v.candidate][v.term] # 0 =>
               /\ v.term = term'[v.voter] => vote'[v.voter] = q[v.candidate][v.term]
               /\ \A w \in cast' :
                     w.voter = v.voter /\ w.term = v.term /\ q[w.candidate][w.term] # 0
                     => q[w.candidate][w.term] = q[v.candidate][v.term]
    <3> SUFFICES ASSUME NEW v \in cast', q[v.candidate][v.term] # 0
                 PROVE  /\ v.term = term'[v.voter] => vote'[v.voter] = q[v.candidate][v.term]
                        /\ \A w \in cast' :
                              w.voter = v.voter /\ w.term = v.term /\ q[w.candidate][w.term] # 0
                              => q[w.candidate][w.term] = q[v.candidate][v.term]
      OBVIOUS
    <3>1. CASE v \in cast
      <4>1. v.term = term'[v.voter] => vote'[v.voter] = q[v.candidate][v.term]
        <5>1. CASE v.voter = i
          BY <1>1, <2>6, <3>1, <5>1
        <5>2. CASE v.voter # i
          BY <1>1, <2>1, <2>6, <3>1, <5>2 DEF Places
        <5> QED BY <5>1, <5>2
      <4>2. ASSUME NEW w \in cast', w.voter = v.voter, w.term = v.term,
                   q[w.candidate][w.term] # 0
            PROVE  q[w.candidate][w.term] = q[v.candidate][v.term]
        <5>1. w \in cast
          <6>1. CASE w = OwnVote(i)
            <7>1. v.voter = i /\ v.term = t
              BY <1>11, <4>2, <6>1
            <7> QED BY <2>6, <3>1, <7>1
          <6>2. CASE w # OwnVote(i)
            BY <1>1, <4>2, <6>2
          <6> QED BY <6>1, <6>2
        <5> QED BY <2>1, <2>6, <3>1, <4>2, <5>1 DEF Places
      <4> QED BY <4>1, <4>2
    <3>2. CASE v \notin cast
      <4>1. v = OwnVote(i)
        BY <1>1, <3>2
      <4>2. v.voter = i /\ v.candidate = i /\ v.term = t
        BY <1>11, <4>1
      <4>3. \A w \in cast' : w.voter = i /\ w.term = t => w = v
        BY <1>1, <2>6, <4>1
      <4> QED BY <1>1, <2>2, <4>2, <4>3
    <3> QED BY <3>1, <3>2
  <2>8. Places(q)'
    BY <2>3, <2>4, <2>5, <2>7 DEF Places
  <2> QED BY <2>2, <2>8 DEF PositionsHold
<1> QED BY <1>3, <1>8, <1>9, <1>10, <1>12, <1>13, <1>14, <1>15 DEF MemberInv

-----------------------------------------------------------------------------
(* A vote is asked for *)

GrantedVote(m) == [voter |-> m.to, term |-> m.term, candidate |-> m.from]

\* r answers m; granted says whether the vote was given.
Answers(m, r, granted) ==
    /\ UNCHANGED <<memberVars, votes, campaign, elected>>
    /\ messages' = (messages \ {m}) \cup {r}
    /\ r.type = "VoteReply" /\ r.from = m.to /\ r.to = m.from /\ r.election = m.term
    /\ r.granted = granted
    /\ \A a \in Node :
          /\ term'[a] >= term[a] /\ (a = m.to => term'[a] >= m.term)
          /\ states'[a] = "Candidate" => states[a] = "Candidate" /\ term'[a] = term[a]
          /\ a # m.to => term'[a] = term[a] /\ vote'[a] = vote[a]
    /\ granted =>
          /\ cast' = cast \cup {GrantedVote(m)} /\ vote'[m.to] = m.candidate
          /\ term'[m.to] = m.term
          /\ m.term = term[m.to] => vote[m.to] \in {0, m.candidate}
    /\ ~granted =>
          /\ cast' = cast
          /\ term'[m.to] = term[m.to] => vote'[m.to] = vote[m.to]

LEMMA RequestVoteAnswers ==
    ASSUME Types, NEW m \in messages, RequestVote(m)
    PROVE  /\ m.type = "RequestVote" /\ m.to \in Node /\ m.from \in Node
           /\ m.term \in Nat /\ m.candidate \in Nat
           /\ \E r : \E granted \in BOOLEAN : Answers(m, r, granted)
<1> DEFINE i == m.to
           higher == m.term > term[i]
           granted == m.term >= term[i] /\ FreeToVote(i, m) /\ UpToDate(i, m)
           r == [type |-> "VoteReply", from |-> i, to |-> m.from, granted |-> granted,
                 term |-> Greater(term[i], m.term), election |-> m.term]
<1>1. /\ m.type = "RequestVote" /\ m.to \in Node /\ m.from \in Node
      /\ m.term \in Nat /\ m.candidate \in Nat
  BY DEF RequestVote, Types, MessageOk
<1>2. /\ term \in [Node -> Nat] /\ vote \in [Node -> Nat]
      /\ states \in [Node -> {"Follower", "Candidate", "Leader"}] /\ term[i] \in Nat
  BY <1>1 DEF Types
<1>3. /\ term' = [term EXCEPT ![i] = Greater(@, m.term)]
      /\ states' = IF higher THEN [states EXCEPT ![i] = "Follower"] ELSE states
      /\ vote' = [vote EXCEPT ![i] = IF granted THEN m.candidate
                                     ELSE IF higher THEN 0 ELSE @]
      /\ cast' = IF granted THEN cast \cup {GrantedVote(m)} ELSE cast
      /\ messages' = (messages \ {m}) \cup {r}
  BY DEF RequestVote, Reply, GrantedVote
<1>4. UNCHANGED <<memberVars, votes, campaign, elected>>
  BY DEF RequestVote
<1>5. granted => m.term >= term[i] /\ (m.term = term[i] => vote[i] \in {0, m.candidate})
  BY <1>1, <1>2 DEF FreeToVote
<1>6. granted \in BOOLEAN
  OBVIOUS
<1>7. r.type = "VoteReply" /\ r.from = i /\ r.to = m.from /\ r.election = m.term /\ r.granted = granted
  OBVIOUS
<1> HIDE DEF granted, r
<1>8. term'[i] = Greater(term[i], m.term) /\ \A a \in Node : a # i => term'[a] = term[a]
  BY <1>1, <1>2, <1>3
<1>9. \A a \in Node : term'[a] >= term[a] /\ (a = i => term'[a] >= m.term)
  BY <1>1, <1>2, <1>8 DEF Greater
<1>10. \A a \in Node : states'[a] = "Candidate" => states[a] = "Candidate" /\ term'[a] = term[a]
  BY <1>1, <1>2, <1>3, <1>8 DEF Greater
<1>11. /\ \A a \in Node : a # i => vote'[a] = vote[a]
       /\ granted => vote'[i] = m.candidate
       /\ ~granted => (term'[i] = term[i] => vote'[i] = vote[i])
  BY <1>1, <1>2, <1>3, <1>8 DEF Greater
<1>12. granted => term'[i] = m.term
  BY <1>1, <1>2, <1>5, <1>8 DEF Greater
<1>13. Answers(m, r, granted)
  BY <1>3, <1>4, <1>5, <1>7, <1>8, <1>9, <1>10, <1>11, <1>12 DEF Answers
<1> QED BY <1>1, <1>6, <1>13

LEMMA AnswersKeeps ==
    ASSUME MemberInv, Types', NEW m \in messages, m.type = "RequestVote",
           m.to \in Node, m.from \in Node, m.term \in Nat,
           NEW r, NEW granted \in BOOLEAN, Answers(m, r, granted)
    PROVE  MemberInv'
<1> DEFINE i == m.to
<1>0. \A a \in Node : term[a] \in Nat /\ term'[a] \in Nat
  BY DEF MemberInv, Types
<1>1. /\ UNCHANGED <<memberVars, votes, campaign, elected>>
      /\ messages' = (messages \ {m}) \cup {r}
      /\ r.type = "VoteReply" /\ r.from = i /\ r.to = m.from /\ r.election = m.term
      /\ r.granted = granted
  BY DEF Answers
<1>2. \A a \in Node :
          /\ term'[a] >= term[a] /\ (a = i => term'[a] >= m.term)
          /\ states'[a] = "Candidate" => states[a] = "Candidate" /\ term'[a] = term[a]
          /\ a # i => term'[a] = term[a] /\ vote'[a] = vote[a]
  BY DEF Answers
<1>3. /\ granted => /\ cast' = cast \cup {GrantedVote(m)} /\ vote'[i] = m.candidate
                    /\ term'[i] = m.term
                    /\ m.term = term[i] => vote[i] \in {0, m.candidate}
      /\ ~granted => /\ cast' = cast
                     /\ term'[i] = term[i] => vote'[i] = vote[i]
  BY DEF Answers
<1>4. GrantedVote(m).voter = i /\ GrantedVote(m).term = m.term /\ GrantedVote(m).candidate = m.from
  BY DEF GrantedVote
<1>5. \A a, b, t : Concerns(r, a, b, t) <=> Concerns(m, a, b, t)
  BY <1>1 DEF Concerns
<1>6. Concerns(m, m.from, i, m.term) /\ m.term <= term[m.from]
  BY DEF Concerns, MemberInv, AskedOnce
<1>7. cast \subseteq cast'
  BY <1>3
<1>8. OwnPlaces'
  BY <1>1 DEF MemberInv, OwnPlaces, memberVars
<1>9. Campaigns'
  BY <1>1, <1>2 DEF MemberInv, Campaigns, memberVars
<1>10. AskedOnce'
  <2> SUFFICES ASSUME NEW a \in Node, NEW b \in Node, NEW t \in Nat, NEW n \in messages',
                      Concerns(n, a, b, t)
               PROVE  /\ t <= term'[a]
                      /\ states'[a] = "Candidate" /\ term'[a] = t /\ campaign'[a].me # 0 =>
                            b # a /\ b \in Range(campaign'[a].peers)
                      /\ \A k \in messages' : Concerns(k, a, b, t) => k = n
    BY DEF AskedOnce
  <2>1. PICK o \in messages : Concerns(o, a, b, t)
    BY <1>1, <1>5
  <2>2. /\ t <= term[a]
        /\ states[a] = "Candidate" /\ term[a] = t /\ campaign[a].me # 0 =>
              b # a /\ b \in Range(campaign[a].peers)
        /\ \A k \in messages : Concerns(k, a, b, t) => k = o
    BY <2>1 DEF MemberInv, AskedOnce
  <2>3. t <= term'[a]
    BY <1>0, <1>2, <2>2
  <2>4. \A k \in messages' : Concerns(k, a, b, t) => k = n
    BY <1>1, <1>5, <2>2
  <2> QED BY <1>1, <1>2, <2>2, <2>3, <2>4
<1>11. GrantsAreCast'
  BY <1>1, <1>3, <1>7 DEF MemberInv, GrantsAreCast, GrantedVote
<1>12. VotesAreCast'
  <2> SUFFICES ASSUME NEW a \in Node, states'[a] = "Candidate", campaign'[a].me # 0
               PROVE  \E C \in SUBSET Range(campaign'[a].peers) :
                         /\ a \in C /\ Cardinality(C) = votes'[a]
                         /\ \A j \in C :
                               /\ [voter |-> j, term |-> term'[a], candidate |-> a] \in cast'
                               /\ \A n \in messages' : ~Concerns(n, a, j, term'[a])
    BY DEF VotesAreCast
  <2>1. /\ states[a] = "Candidate" /\ term'[a] = term[a]
        /\ campaign' = campaign /\ votes' = votes
    BY <1>1, <1>2
  <2>2. PICK C \in SUBSET Range(campaign[a].peers) :
           /\ a \in C /\ Cardinality(C) = votes[a]
           /\ \A j \in C : /\ [voter |-> j, term |-> term[a], candidate |-> a] \in cast
                           /\ \A n \in messages : ~Concerns(n, a, j, term[a])
    BY <2>1 DEF MemberInv, VotesAreCast
  <2>3. \A j \in C : \A n \in messages' : ~Concerns(n, a, j, term[a])
    BY <1>1, <1>5, <2>2
  <2> QED BY <1>7, <2>1, <2>2, <2>3
<1>13. WinnersHadVotes'
  BY <1>1, <1>7 DEF MemberInv, WinnersHadVotes
<1>14. CastBefore'
  <2>1. ASSUME NEW v \in cast PROVE v.term <= term'[v.voter] /\ v.term <= term'[v.candidate]
    <3>1. v.voter \in Node /\ v.candidate \in Node /\ v.term \in Nat
      BY DEF MemberInv, Types
    <3>2. v.term <= term[v.voter] /\ v.term <= term[v.candidate]
      BY DEF MemberInv, CastBefore
    <3>3. /\ term[v.voter] \in Nat /\ term'[v.voter] \in Nat /\ term'[v.voter] >= term[v.voter]
          /\ term[v.candidate] \in Nat /\ term'[v.candidate] \in Nat
          /\ term'[v.candidate] >= term[v.candidate]
      BY <1>0, <1>2, <3>1
    <3> QED BY <3>1, <3>2, <3>3
  <2>2. m.term <= term'[i] /\ m.term <= term'[m.from]
    BY <1>0, <1>2, <1>6
  <2>3. \A v \in cast' : v \in cast \/ v = GrantedVote(m)
    BY <1>3
  <2> QED BY <1>4, <2>1, <2>2, <2>3 DEF CastBefore
<1>15. PositionsHold'
  <2>1. PICK place \in [Node -> [Nat -> Nat]] : Places(place)
    BY DEF MemberInv, PositionsHold
  <2>2. \A n \in messages' : n.type = "RequestVote" => n.candidate = place[n.from][n.term]
    BY <1>1, <2>1 DEF Places
  <2>3. \A a \in Node : states'[a] = "Candidate" => campaign'[a].me = place[a][term'[a]]
    BY <1>1, <1>2, <2>1 DEF Places
  <2>4. ASSUME NEW v \in cast', place[v.candidate][v.term] # 0, v.term = term'[v.voter]
        PROVE  vote'[v.voter] = place[v.candidate][v.term]
    <3>1. CASE v \in cast
      <4>1. v.voter \in Node /\ v.term \in Nat /\ v.term <= term[v.voter]
        BY <3>1 DEF MemberInv, Types, CastBefore
      <4>2. term[v.voter] \in Nat /\ term'[v.voter] \in Nat /\ term'[v.voter] >= term[v.voter]
        BY <1>0, <1>2, <4>1
      <4>3. term'[v.voter] = term[v.voter]
        BY <2>4, <4>1, <4>2
      <4>4. vote[v.voter] = place[v.candidate][v.term]
        BY <2>1, <2>4, <3>1, <4>3 DEF Places
      <4>5. CASE v.voter # i
        BY <1>2, <4>1, <4>4, <4>5
      <4>6. CASE v.voter = i /\ granted
        BY <1>3, <2>4, <4>3, <4>4, <4>6
      <4>7. CASE v.voter = i /\ ~granted
        BY <1>3, <4>3, <4>4, <4>7
      <4> QED BY <4>5, <4>6, <4>7
    <3>2. CASE v \notin cast
      <4>1. granted /\ v = GrantedVote(m)
        BY <1>3, <3>2
      <4>2. vote'[i] = m.candidate /\ m.candidate = place[m.from][m.term]
        BY <1>3, <2>1, <4>1 DEF Places
      <4> QED BY <1>4, <4>1, <4>2
    <3> QED BY <3>1, <3>2
  <2>5. ASSUME NEW v \in cast', NEW w \in cast', place[v.candidate][v.term] # 0,
               w.voter = v.voter, w.term = v.term, place[w.candidate][w.term] # 0
        PROVE  place[w.candidate][w.term] = place[v.candidate][v.term]
    <3>1. CASE v \in cast /\ w \in cast
      BY <2>1, <2>5, <3>1 DEF Places
    <3>2. CASE v \notin cast \/ w \notin cast
      <4>1. granted /\ (v = GrantedVote(m) \/ w = GrantedVote(m))
        BY <1>3, <3>2
      <4>2. v.voter = i /\ v.term = m.term /\ w.voter = i /\ w.term = m.term
        BY <1>4, <2>5, <4>1
      <4>3. v.term = term'[v.voter] /\ w.term = term'[w.voter]
        BY <1>3, <4>1, <4>2
      <4>4. vote'[v.voter] = place[v.candidate][v.term] /\ vote'[w.voter] = place[w.candidate][w.term]
        BY <2>4, <2>5, <4>3
      <4> QED BY <4>2, <4>4
    <3> QED BY <3>1, <3>2
  <2>6. elected' = elected
    BY <1>1
  <2>7. Places(place)'
    BY <2>1, <2>2, <2>3, <2>4, <2>5, <2>6 DEF Places
  <2> QED BY <2>7 DEF PositionsHold
<1> QED BY <1>8, <1>9, <1>10, <1>11, <1>12, <1>13, <1>14, <1>15 DEF MemberInv

-----------------------------------------------------------------------------
(* A vote is counted *)

Counts(m) ==
    /\ m.type = "VoteReply" /\ m.granted
    /\ states[m.to] = "Candidate" /\ term[m.to] = m.election
    /\ UNCHANGED <<memberVars, term, vote, campaign, cast>>
    /\ votes'[m.to] = votes[m.to] + 1
    /\ \A a \in Node \ {m.to} : votes'[a] = votes[a] /\ states'[a] = states[a]
    /\ messages' = messages \ {m}
    /\ \/ states' = states /\ elected' = elected
       \/ /\ votes[m.to] + 1 > Len(peers[m.to]) \div 2
          /\ states'[m.to] = "Leader"
          /\ elected' = elected \cup {Victory(m.to, term[m.to], campaign[m.to])}

LEMMA VoteReplyCounts ==
    ASSUME MemberInv, NEW m \in messages, VoteReply(m)
    PROVE  Quiet \/ Counts(m)
<1> DEFINE i == m.to
<1>1. m.type = "VoteReply" /\ i \in Node /\ m.granted \in BOOLEAN /\ m.term \in Nat
  BY DEF VoteReply, MemberInv, Types, MessageOk
<1>2. /\ term \in [Node -> Nat] /\ vote \in [Node -> Nat] /\ votes \in [Node -> Nat]
      /\ states \in [Node -> {"Follower", "Candidate", "Leader"}]
      /\ \A j \in Node : term[j] \in Nat
  BY DEF MemberInv, Types
<1>3. UNCHANGED <<memberVars, campaign, cast>> /\ messages' = messages \ {m}
  BY DEF VoteReply, Discard
<1> DEFINE Calm == \A a \in Node :
               /\ term'[a] >= term[a]
               /\ term'[a] = term[a] => vote'[a] = vote[a]
               /\ states'[a] = "Candidate" => states[a] = "Candidate" /\ term'[a] = term[a]
<1>4. ASSUME UNCHANGED <<votes, elected>>, Calm PROVE Quiet
  BY <1>3, <1>4, SteadyIsQuiet DEF historyVars
<1>5. CASE UNCHANGED <<voteVars, leaderVars, elected>>
  BY <1>2, <1>4, <1>5 DEF voteVars
<1>6. CASE /\ states[i] = "Candidate" /\ term[i] = m.election /\ m.term > term[i]
           /\ term' = [term EXCEPT ![i] = m.term]
           /\ states' = [states EXCEPT ![i] = "Follower"]
           /\ vote' = [vote EXCEPT ![i] = 0]
           /\ UNCHANGED <<votes, leaderVars, elected>>
  <2>1. Calm
    BY <1>1, <1>2, <1>6
  <2> QED BY <1>4, <1>6, <2>1
<1>7. CASE /\ states[i] = "Candidate" /\ term[i] = m.election /\ m.term = term[i]
           /\ votes' = [votes EXCEPT ![i] = IF m.granted THEN @ + 1 ELSE @]
           /\ IF m.granted /\ Enough(i, votes[i] + 1)
              THEN BecomeLeader(i, term[i], campaign[i])
              ELSE UNCHANGED <<states, leaderVars, elected>>
           /\ UNCHANGED <<term, vote>>
  <2>1. CASE ~m.granted
    <3>1. votes' = votes /\ UNCHANGED <<states, elected>>
      BY <1>1, <1>2, <1>7, <2>1
    <3> QED BY <1>2, <1>4, <1>7, <3>1
  <2>2. CASE m.granted
    <3>1. /\ votes'[i] = votes[i] + 1
          /\ \A a \in Node \ {i} : votes'[a] = votes[a]
      BY <1>1, <1>2, <1>7, <2>2
    <3>2. CASE Enough(i, votes[i] + 1)
      <4>1. BecomeLeader(i, term[i], campaign[i])
        BY <1>7, <2>2, <3>2
      <4>2. states' = [states EXCEPT ![i] = "Leader"]
        BY <4>1 DEF BecomeLeader
      <4>3. states'[i] = "Leader" /\ \A a \in Node \ {i} : states'[a] = states[a]
        BY <1>1, <1>2, <4>2
      <4>4. elected' = elected \cup {Victory(i, term[i], campaign[i])}
        BY <4>1 DEF BecomeLeader, Victory
      <4> QED BY <1>1, <1>3, <1>7, <2>2, <3>1, <3>2, <4>3, <4>4 DEF Counts, Enough
    <3>3. CASE ~Enough(i, votes[i] + 1)
      <4>1. states' = states /\ elected' = elected
        BY <1>7, <3>3
      <4> QED BY <1>1, <1>3, <1>7, <2>2, <3>1, <4>1 DEF Counts
    <3> QED BY <3>2, <3>3
  <2> QED BY <2>1, <2>2
<1>8. \/ UNCHANGED <<voteVars, leaderVars, elected>>
      \/ /\ states[i] = "Candidate" /\ term[i] = m.election /\ m.term > term[i]
         /\ term' = [term EXCEPT ![i] = m.term]
         /\ states' = [states EXCEPT ![i] = "Follower"]
         /\ vote' = [vote EXCEPT ![i] = 0]
         /\ UNCHANGED <<votes, leaderVars, elected>>
      \/ /\ states[i] = "Candidate" /\ term[i] = m.election /\ m.term = term[i]
         /\ votes' = [votes EXCEPT ![i] = IF m.granted THEN @ + 1 ELSE @]
         /\ IF m.granted /\ Enough(i, votes[i] + 1)
            THEN BecomeLeader(i, term[i], campaign[i])
            ELSE UNCHANGED <<states, leaderVars, elected>>
         /\ UNCHANGED <<term, vote>>
  BY DEF VoteReply
<1> QED BY <1>5, <1>6, <1>7, <1>8

\* The vote is that of another peer: nobody was asked twice.
LEMMA OneMoreVote ==
    ASSUME MemberInv, NEW m \in messages, m.to \in Node, m.from \in Node, Counts(m),
           campaign[m.to].me # 0
    PROVE  \E C \in SUBSET Range(campaign[m.to].peers) :
              /\ m.to \in C /\ Cardinality(C) = votes[m.to] + 1
              /\ \A j \in C : /\ [voter |-> j, term |-> term[m.to], candidate |-> m.to] \in cast
                              /\ \A n \in messages' : ~Concerns(n, m.to, j, term[m.to])
<1> DEFINE i == m.to
<1>1. /\ m.type = "VoteReply" /\ m.granted /\ states[i] = "Candidate" /\ term[i] = m.election
      /\ messages' = messages \ {m}
  BY DEF Counts
<1>2. PICK C \in SUBSET Range(campaign[i].peers) :
         /\ i \in C /\ Cardinality(C) = votes[i]
         /\ \A j \in C : /\ [voter |-> j, term |-> term[i], candidate |-> i] \in cast
                         /\ \A n \in messages : ~Concerns(n, i, j, term[i])
  BY <1>1 DEF MemberInv, VotesAreCast
<1>3. Concerns(m, i, m.from, term[i]) /\ term[i] \in Nat
  BY <1>1 DEF Concerns, MemberInv, Types
<1>4. /\ m.from \in Range(campaign[i].peers)
      /\ \A n \in messages : Concerns(n, i, m.from, term[i]) => n = m
  BY <1>1, <1>3 DEF MemberInv, AskedOnce
<1>5. m.from \notin C
  BY <1>2, <1>3
<1>6. campaign[i].peers \in Seq(Node)
  BY DEF MemberInv, Types
<1>7. IsFiniteSet(C)
  BY <1>2, <1>6, RangeFinite, FS_Subset
<1>8. Cardinality(C \cup {m.from}) = votes[i] + 1
  BY <1>2, <1>5, <1>7, FS_AddElement
<1>9. [voter |-> m.from, term |-> term[i], candidate |-> i] \in cast
  BY <1>1 DEF MemberInv, GrantsAreCast
<1>10. ASSUME NEW j \in C \cup {m.from}
       PROVE  /\ [voter |-> j, term |-> term[i], candidate |-> i] \in cast
              /\ \A n \in messages' : ~Concerns(n, i, j, term[i])
  BY <1>1, <1>2, <1>4, <1>9
<1> QED BY <1>2, <1>4, <1>8, <1>10

LEMMA CountsKeeps ==
    ASSUME MemberInv, Types', NEW m \in messages, m.to \in Node, m.from \in Node, Counts(m)
    PROVE  MemberInv'
<1> DEFINE i == m.to
<1>1. /\ states[i] = "Candidate"
      /\ UNCHANGED <<memberVars, term, vote, campaign, cast>>
      /\ votes'[i] = votes[i] + 1
      /\ \A a \in Node \ {i} : votes'[a] = votes[a] /\ states'[a] = states[a]
      /\ messages' = messages \ {m}
      /\ \/ states' = states /\ elected' = elected
         \/ /\ votes[i] + 1 > Len(peers[i]) \div 2
            /\ states'[i] = "Leader"
            /\ elected' = elected \cup {Victory(i, term[i], campaign[i])}
  BY DEF Counts
<1>2. \A a \in Node : states'[a] = "Candidate" => states[a] = "Candidate"
  BY <1>1
<1>3. OwnPlaces'
  BY <1>1 DEF MemberInv, OwnPlaces, memberVars
<1>4. Campaigns'
  BY <1>1, <1>2 DEF MemberInv, Campaigns, memberVars
<1>5. AskedOnce'
  BY <1>1, <1>2 DEF MemberInv, AskedOnce
<1>6. GrantsAreCast'
  BY <1>1 DEF MemberInv, GrantsAreCast
<1>7. VotesAreCast'
  <2> SUFFICES ASSUME NEW a \in Node, states'[a] = "Candidate", campaign'[a].me # 0
               PROVE  \E C \in SUBSET Range(campaign'[a].peers) :
                         /\ a \in C /\ Cardinality(C) = votes'[a]
                         /\ \A j \in C :
                               /\ [voter |-> j, term |-> term'[a], candidate |-> a] \in cast'
                               /\ \A n \in messages' : ~Concerns(n, a, j, term'[a])
    BY DEF VotesAreCast
  <2>1. CASE a = i
    BY <1>1, <2>1, OneMoreVote
  <2>2. CASE a # i
    <3>1. states[a] = "Candidate" /\ votes'[a] = votes[a]
      BY <1>1, <2>2
    <3>2. PICK C \in SUBSET Range(campaign[a].peers) :
             /\ a \in C /\ Cardinality(C) = votes[a]
             /\ \A j \in C : /\ [voter |-> j, term |-> term[a], candidate |-> a] \in cast
                             /\ \A n \in messages : ~Concerns(n, a, j, term[a])
      BY <1>1, <3>1 DEF MemberInv, VotesAreCast
    <3> QED BY <1>1, <3>1, <3>2
  <2> QED BY <2>1, <2>2
<1>8. ASSUME NEW e \in elected', e \notin elected, e.sound
      PROVE  /\ e.node = i /\ e.term = term[i] /\ e.peers = campaign[i].peers
             /\ campaign[i].me # 0 /\ campaign[i].peers = peers[i]
             /\ votes[i] + 1 > Len(peers[i]) \div 2
  <2>1. e = Victory(i, term[i], campaign[i]) /\ votes[i] + 1 > Len(peers[i]) \div 2
    BY <1>1, <1>8
  <2>2. /\ e.node = i /\ e.term = term[i] /\ e.peers = campaign[i].peers
        /\ campaign[i].gen = peerGen[i] /\ campaign[i].me # 0
    BY <1>8, <2>1 DEF Victory
  <2>3. campaign[i].peers = peers[i]
    BY <1>1, <2>2 DEF MemberInv, Campaigns
  <2> QED BY <2>1, <2>2, <2>3
<1>9. WinnersHadVotes'
  <2> SUFFICES ASSUME NEW e \in elected', e.sound
               PROVE  \E C \in SUBSET Range(e.peers) :
                         /\ Cardinality(C) > Len(e.peers) \div 2
                         /\ \A j \in C :
                               [voter |-> j, term |-> e.term, candidate |-> e.node] \in cast'
    BY DEF WinnersHadVotes
  <2>1. CASE e \in elected
    BY <1>1, <2>1 DEF MemberInv, WinnersHadVotes
  <2>2. CASE e \notin elected
    <3>1. /\ e.node = i /\ e.term = term[i] /\ e.peers = campaign[i].peers
          /\ campaign[i].me # 0 /\ campaign[i].peers = peers[i]
          /\ votes[i] + 1 > Len(peers[i]) \div 2
      BY <1>8, <2>2
    <3>2. PICK C \in SUBSET Range(campaign[i].peers) :
             /\ Cardinality(C) = votes[i] + 1
             /\ \A j \in C : [voter |-> j, term |-> term[i], candidate |-> i] \in cast
      BY <3>1, OneMoreVote
    <3>3. Cardinality(C) > Len(e.peers) \div 2
      BY <3>1, <3>2
    <3>4. cast' = cast /\ C \in SUBSET Range(e.peers)
      BY <1>1, <3>1, <3>2
    <3>5. \A j \in C : [voter |-> j, term |-> e.term, candidate |-> e.node] \in cast'
      BY <3>1, <3>2, <3>4
    <3> QED BY <3>3, <3>4, <3>5
  <2> QED BY <2>1, <2>2
<1>10. CastBefore'
  BY <1>1 DEF MemberInv, CastBefore
<1>11. PositionsHold'
  <2>1. PICK place \in [Node -> [Nat -> Nat]] : Places(place)
    BY DEF MemberInv, PositionsHold
  <2>2. \A e \in elected' :
           e.sound => /\ place[e.node][e.term] \in 1 .. Len(e.peers)
                      /\ e.peers[place[e.node][e.term]] = e.node
    <3> SUFFICES ASSUME NEW e \in elected', e.sound
                 PROVE  /\ place[e.node][e.term] \in 1 .. Len(e.peers)
                        /\ e.peers[place[e.node][e.term]] = e.node
      OBVIOUS
    <3>1. CASE e \in elected
      BY <2>1, <3>1 DEF Places
    <3>2. CASE e \notin elected
      <4>1. e.node = i /\ e.term = term[i] /\ e.peers = campaign[i].peers /\ campaign[i].me # 0
        BY <1>8, <3>2
      <4>2. /\ campaign[i].me \in 1 .. Len(campaign[i].peers)
            /\ campaign[i].peers[campaign[i].me] = i
        BY <1>1, <4>1 DEF MemberInv, Campaigns
      <4>3. campaign[i].me = place[i][term[i]]
        BY <1>1, <2>1 DEF Places
      <4> QED BY <4>1, <4>2, <4>3
    <3> QED BY <3>1, <3>2
  <2>3. Places(place)'
    BY <1>1, <1>2, <2>1, <2>2 DEF Places
  <2> QED BY <2>3 DEF PositionsHold
<1> QED BY <1>3, <1>4, <1>5, <1>6, <1>7, <1>9, <1>10, <1>11 DEF MemberInv

-----------------------------------------------------------------------------
(* The theorem *)

LEMMA InitHolds ==
    ASSUME IsInjective(FirstPeers), Init
    PROVE  MemberInv
<1>1. FirstPeers \in Seq(Node)
  BY MembershipAssumption
<1>2. /\ \A i \in Node : peers[i] = FirstPeers /\ me[i] = PositionIn(FirstPeers, i)
      /\ \A i \in Node : states[i] = "Follower"
      /\ messages = {} /\ elected = {} /\ cast = {}
  BY DEF Init
<1>3. OwnPlaces
  BY <1>1, <1>2, PositionFacts DEF OwnPlaces
<1>4. Campaigns /\ AskedOnce /\ GrantsAreCast /\ VotesAreCast /\ WinnersHadVotes /\ CastBefore
  BY <1>2 DEF Campaigns, AskedOnce, GrantsAreCast, VotesAreCast, WinnersHadVotes, CastBefore
<1>5. PositionsHold
  <2> DEFINE none == [i \in Node |-> [n \in Nat |-> 0]]
  <2>1. none \in [Node -> [Nat -> Nat]]
    OBVIOUS
  <2>2. Places(none)
    BY <1>2 DEF Places
  <2> QED BY <2>1, <2>2 DEF PositionsHold
<1> QED BY <1>3, <1>4, <1>5, InitTyped DEF MemberInv

LEMMA NextKeeps ==
    ASSUME MemberInv, [Next]_vars
    PROVE  MemberInv'
<1>0. Types /\ Types'
  BY NextTyped DEF MemberInv
<1>1. CASE UNCHANGED vars
  <2>1. \A i \in Node : term[i] \in Nat
    BY <1>0 DEF Types
  <2>2. Quiet
    BY <1>1, <2>1, SteadyIsQuiet DEF vars, voteVars
  <2> QED BY <1>0, <2>2, QuietKeeps
<1>2. ASSUME NEW i \in Node, StartElection(i) PROVE MemberInv'
  BY <1>0, <1>2, StartElectionBegins, BeginsKeeps
<1>3. ASSUME NEW i \in Node,
             \/ BroadcastAlone(i) \/ Apply(i)
             \/ \E change \in Changes : Start(i, change)
             \/ \E p \in DOMAIN peers[i] : SendAppend(i, p)
      PROVE  MemberInv'
  BY <1>0, <1>3, ReplicationIsQuiet, QuietKeeps
<1>4. ASSUME NEW m \in messages, RequestVote(m) PROVE MemberInv'
  <2>1. /\ m.type = "RequestVote" /\ m.to \in Node /\ m.from \in Node /\ m.term \in Nat
        /\ \E r : \E granted \in BOOLEAN : Answers(m, r, granted)
    BY <1>0, <1>4, RequestVoteAnswers
  <2>2. PICK r : \E granted \in BOOLEAN : Answers(m, r, granted)
    BY <2>1
  <2>3. PICK granted \in BOOLEAN : Answers(m, r, granted)
    BY <2>2
  <2> QED BY <1>0, <2>1, <2>3, AnswersKeeps
<1>5. ASSUME NEW m \in messages, VoteReply(m) PROVE MemberInv'
  <2>1. CASE Quiet
    BY <1>0, <2>1, QuietKeeps
  <2>2. CASE Counts(m)
    <3>1. m.to \in Node /\ m.from \in Node
      BY <1>0, <2>2 DEF Types, MessageOk, Counts
    <3> QED BY <1>0, <2>2, <3>1, CountsKeeps
  <2> QED BY <1>5, <2>1, <2>2, VoteReplyCounts
<1>6. ASSUME NEW m \in messages,
             AppendEntries(m) \/ AppendReply(m) \/ InstallSnapshot(m) \/ InstallReply(m)
      PROVE  MemberInv'
  BY <1>0, <1>6, HeartbeatIsQuiet, QuietKeeps
<1> QED BY <1>1, <1>2, <1>3, <1>4, <1>5, <1>6 DEF Next

LEMMA MajoritiesMeet ==
    ASSUME NEW list \in Seq(Node), NEW C \in SUBSET Range(list), NEW D \in SUBSET Range(list),
           Cardinality(C) > Len(list) \div 2, Cardinality(D) > Len(list) \div 2
    PROVE  C \cap D # {}
<1>1. /\ IsFiniteSet(Range(list)) /\ Cardinality(Range(list)) \in Nat
      /\ Cardinality(Range(list)) <= Len(list) /\ Len(list) \in Nat
  BY RangeFinite, LenProperties
<1>2. /\ IsFiniteSet(C) /\ IsFiniteSet(D)
      /\ Cardinality(C) \in Nat /\ Cardinality(D) \in Nat
  BY <1>1, FS_Subset, FS_CardinalityType
<1>3. \A n \in Nat : \A r \in Nat : \A a \in Nat : \A b \in Nat :
         r <= n /\ a > n \div 2 /\ b > n \div 2 => a + b > r
  OBVIOUS
<1>4. Cardinality(C) + Cardinality(D) > Cardinality(Range(list))
  BY <1>1, <1>2, <1>3
<1> QED BY <1>1, <1>4, FS_MajoritiesIntersect

LEMMA OneLeaderHolds ==
    ASSUME MemberInv
    PROVE  OneLeaderPerPeers
<1> SUFFICES ASSUME NEW a \in elected, a.sound, NEW b \in elected, b.sound,
                    a.term = b.term, a.peers = b.peers
             PROVE  a.node = b.node
  BY DEF OneLeaderPerPeers
<1>1. PICK C \in SUBSET Range(a.peers) :
         /\ Cardinality(C) > Len(a.peers) \div 2
         /\ \A j \in C : [voter |-> j, term |-> a.term, candidate |-> a.node] \in cast
  BY DEF MemberInv, WinnersHadVotes
<1>2. PICK D \in SUBSET Range(b.peers) :
         /\ Cardinality(D) > Len(b.peers) \div 2
         /\ \A j \in D : [voter |-> j, term |-> b.term, candidate |-> b.node] \in cast
  BY DEF MemberInv, WinnersHadVotes
<1>3. a.peers \in Seq(Node)
  BY DEF MemberInv, Types
<1>4. PICK j \in C : j \in D
  <2>1. C \cap D # {}
    BY <1>1, <1>2, <1>3, MajoritiesMeet
  <2> QED BY <2>1
<1>5. PICK place \in [Node -> [Nat -> Nat]] : Places(place)
  BY DEF MemberInv, PositionsHold
<1> DEFINE v == [voter |-> j, term |-> a.term, candidate |-> a.node]
           w == [voter |-> j, term |-> a.term, candidate |-> b.node]
<1>6. v \in cast /\ w \in cast
  BY <1>1, <1>2, <1>4
<1>7. v.voter = w.voter /\ v.term = w.term /\ v.term = a.term
      /\ v.candidate = a.node /\ w.candidate = b.node
  OBVIOUS
<1> HIDE DEF v, w
<1>8. /\ place[a.node][a.term] \in 1 .. Len(a.peers) /\ a.peers[place[a.node][a.term]] = a.node
      /\ place[b.node][a.term] \in 1 .. Len(a.peers) /\ a.peers[place[b.node][a.term]] = b.node
  BY <1>5 DEF Places
<1>9. place[a.node][a.term] # 0 /\ place[b.node][a.term] # 0
  <2>1. \A n : 0 \notin 1 .. n
    OBVIOUS
  <2> QED BY <1>8, <2>1
<1>10. place[w.candidate][w.term] = place[v.candidate][v.term]
  <2>1. \A x \in cast : place[x.candidate][x.term] # 0 =>
           \A y \in cast :
              y.voter = x.voter /\ y.term = x.term /\ place[y.candidate][y.term] # 0
              => place[y.candidate][y.term] = place[x.candidate][x.term]
    BY <1>5 DEF Places
  <2>2. place[v.candidate][v.term] # 0 /\ place[w.candidate][w.term] # 0
    BY <1>7, <1>9
  <2> QED BY <1>6, <1>7, <2>1, <2>2
<1> QED BY <1>7, <1>8, <1>10

\* RequestVote and VoteReply: however members come and go, of those who were elected in a
\* term under one list of peers that did not change meanwhile there is one, over any
\* delay and loss of messages.
THEOREM OneLeader ==
    ASSUME IsInjective(FirstPeers)
    PROVE  Spec => []OneLeaderPerPeers
<1>1. Init => MemberInv
  BY InitHolds
<1>2. MemberInv /\ [Next]_vars => MemberInv'
  BY NextKeeps
<1>3. MemberInv => OneLeaderPerPeers
  BY OneLeaderHolds
<1> QED BY <1>1, <1>2, <1>3, PTL DEF Spec

-----------------------------------------------------------------------------
(* The logs of leaders.  Two leaders of one term may exist here, and what   *)
(* is said of logs is said under the premise that so far there were none.  *)
(* Nothing needs majorities: it rests on what a leader does with its own   *)
(* log, and on the terms in AppendEntries.                                 *)

\* Terms up to t have one leader each, of whatever list of peers.
OneIn(E, t) == \A a, b \in E : a.term = b.term /\ a.term <= t => a.node = b.node
One(t) == OneIn(elected, t)

\* A log that a node had while it led a term.
LedLog == [node : Node, led : Nat, log : Seq(Entry)]

Match(a, b) ==
    \A k \in 1 .. Len(a) :
        k <= Len(b) /\ a[k].term = b[k].term => \A h \in 1 .. k : a[h] = b[h]

PrefixOf(a, b) == Len(a) <= Len(b) /\ \A k \in 1 .. Len(a) : a[k] = b[k]

\* H is the set of all logs that leaders ever had: it holds what they have now,
LeadersIn(H) ==
    \A i \in Node : states[i] = "Leader" =>
        \E x \in H : x.node = i /\ x.led = term[i] /\ x.log = log[i]

\* nothing but logs of those who were elected,
Led(H) == \A x \in H : \E e \in elected : e.node = x.node /\ e.term = x.led

\* which only grow.
Growing(H) ==
    /\ \A x, y \in H : x.node = y.node /\ x.led = y.led =>
          PrefixOf(x.log, y.log) \/ PrefixOf(y.log, x.log)
    /\ \A i \in Node : states[i] = "Leader" =>
          \A x \in H : x.node = i /\ x.led = term[i] => PrefixOf(x.log, log[i])

\* Every log is one a leader had.
LogsIn(H) ==
    \A i \in Node : One(term[i]) =>
        log[i] = <<>> \/ \E x \in H : x.led <= term[i] /\ x.log = log[i]

\* An entry is in a log of the leader of its term, too.
EntriesIn(H) ==
    \A x \in H : One(x.led) => \A k \in 1 .. Len(x.log) :
        \E y \in H : y.led = x.log[k].term /\ k <= Len(y.log)

AllMatch(H) ==
    \A x, y \in H : \A t \in Nat : One(t) /\ x.led <= t /\ y.led <= t => Match(x.log, y.log)

\* A call brings the end of the log its sender had.
Carries(m, x) ==
    /\ x.node = m.call.from /\ x.led = m.call.term /\ End(m) = Len(x.log)
    /\ m.prevTerm = IF m.prevIndex = 0 THEN 0 ELSE x.log[m.prevIndex].term
    /\ \A k \in 1 .. Len(m.entries) : m.entries[k] = x.log[m.prevIndex + k]

CallsIn(H) == \A m \in messages : m.type = "AppendEntries" => \E x \in H : Carries(m, x)

\* As long as a term lasts that node i led, j has what i had up to index n, and no call still
\* on its way that was not overtaken takes it away.
Holds(H, i, j, t, n) ==
    /\ j \in Node /\ n \in Nat /\ term[j] >= t
    /\ \E x \in H : /\ x.node = i /\ x.led = t /\ n <= Len(x.log)
                    /\ One(t) /\ term[j] = t =>
                          n <= Len(log[j]) /\ \A k \in 1 .. n : log[j][k] = x.log[k]
    /\ \A m \in messages \ overtaken :
          m.type = "AppendEntries" /\ m.call.from = i /\ m.call.to = j /\ m.call.term = t
          => n <= End(m)

RepliesTrue(H) ==
    \A m \in messages : m.type = "AppendReply" /\ m.success =>
        Holds(H, m.call.from, m.call.to, m.call.term, m.prevIndex + m.len)

\* What a leader has booked for its peers.
Booked(i, j, t, n) ==
    /\ states[i] = "Leader" /\ t = term[i] /\ n > 0
    /\ \E p \in 1 .. Len(peers[i]) : p # me[i] /\ j = peers[i][p] /\ n = matchIndex[i][p]

BooksTrue(H) ==
    \A i, j \in Node : \A t, n \in Nat : Booked(i, j, t, n) => Holds(H, i, j, t, n)

\* It sends no more than it has.
NextInside ==
    \A i \in Node : states[i] = "Leader" =>
        \A p \in 1 .. Len(peers[i]) : nextIndex[i][p] <= Len(log[i]) + 1

\* Who won a term does not stand in it any more.
WinnersStay ==
    \A e \in elected :
        e.term <= term[e.node] /\ (e.term = term[e.node] => states[e.node] # "Candidate")

Logs(H) ==
    /\ LeadersIn(H) /\ Led(H) /\ Growing(H) /\ LogsIn(H) /\ EntriesIn(H) /\ AllMatch(H)
    /\ CallsIn(H) /\ RepliesTrue(H)

MatchTyped ==
    /\ matchIndex \in [Node -> Seq(Nat)]
    /\ \A i \in Node : Len(matchIndex[i]) = Len(peers[i])

\* The invariant behind MatchedIsHeld.
HeldInv ==
    /\ MemberInv /\ MatchTyped /\ WinnersStay /\ NextInside
    /\ \E H \in SUBSET LedLog : Logs(H) /\ BooksTrue(H)

-----------------------------------------------------------------------------
(* The statement *)

LEMMA HeldIsMatched ==
    ASSUME HeldInv
    PROVE  MatchedIsHeld
<1>1. PICK H \in SUBSET LedLog : Logs(H) /\ BooksTrue(H)
  BY DEF HeldInv
<1>0. Types /\ MatchTyped
  BY DEF HeldInv, MemberInv
<1> SUFFICES ASSUME NEW i \in Node, NEW p \in DOMAIN peers[i] \ {me[i]},
                    states[i] = "Leader", term[peers[i][p]] = term[i], One(term[i]),
                    NEW k \in 1 .. matchIndex[i][p]
             PROVE  /\ k <= LastIndex(peers[i][p])
                    /\ log[peers[i][p]][k] = log[i][k]
  BY DEF MatchedIsHeld, One, OneIn
<1> DEFINE j == peers[i][p]
           n == matchIndex[i][p]
<1>2. /\ p \in 1 .. Len(peers[i]) /\ p # me[i] /\ n \in Nat /\ j \in Node
      /\ term[i] \in Nat /\ term[j] \in Nat
  <2>1. /\ peers[i] \in Seq(Node) /\ matchIndex[i] \in Seq(Nat)
        /\ Len(matchIndex[i]) = Len(peers[i])
    BY <1>0 DEF Types, MatchTyped
  <2>2. p \in 1 .. Len(peers[i]) /\ j \in Node /\ n \in Nat
    BY <2>1, LenProperties
  <2> QED BY <1>0, <2>2 DEF Types
<1>3. n > 0
  BY <1>2
<1>4. Holds(H, i, j, term[i], n)
  <2>1. Booked(i, j, term[i], n)
    BY <1>2, <1>3 DEF Booked
  <2> QED BY <1>1, <1>2, <2>1 DEF BooksTrue
<1>5. PICK x \in H : /\ x.node = i /\ x.led = term[i] /\ n <= Len(x.log)
                     /\ n <= Len(log[j]) /\ \A h \in 1 .. n : log[j][h] = x.log[h]
  BY <1>4 DEF Holds
<1>6. PrefixOf(x.log, log[i])
  BY <1>1, <1>5 DEF Logs, Growing
<1>7. x.log \in Seq(Entry) /\ log[j] \in Seq(Entry)
  BY <1>0, <1>2 DEF LedLog, Types
<1>8. Len(x.log) \in Nat /\ Len(log[j]) \in Nat
  BY <1>7, LenProperties
<1>9. k \in 1 .. n /\ k \in 1 .. Len(x.log) /\ k <= Len(log[j])
  BY <1>2, <1>5, <1>8
<1> HIDE DEF n, j
<1>10. log[j][k] = x.log[k] /\ x.log[k] = log[i][k]
  BY <1>5, <1>6, <1>9 DEF PrefixOf
<1> QED BY <1>9, <1>10 DEF LastIndex, j

-----------------------------------------------------------------------------
(* What a step leaves *)

Election == [node : Node, term : Nat, peers : Seq(Node), sound : BOOLEAN]

LEMMA OneDown ==
    ASSUME NEW E, NEW F \in SUBSET Election, E \subseteq F, NEW s \in Nat, NEW t \in Nat, s <= t,
           OneIn(F, t)
    PROVE  OneIn(E, s)
<1> SUFFICES ASSUME NEW a \in E, NEW b \in E, a.term = b.term, a.term <= s
             PROVE  a.node = b.node
  BY DEF OneIn
<1>1. a.term \in Nat
  BY DEF Election
<1>2. a.term <= t
  BY <1>1
<1> QED BY <1>2 DEF OneIn

\* A call that was overtaken stays so while it is under way.
Remembered == messages \cap overtaken \subseteq overtaken'

LEMMA NextRemembers ==
    ASSUME [Next]_vars
    PROVE  Remembered /\ (late' = {} => late = {})
<1>1. ASSUME UNCHANGED orderVars PROVE Remembered /\ (late' = {} => late = {})
  BY <1>1 DEF orderVars, Remembered
<1>2. ASSUME NEW m \in messages, AppendEntries(m) PROVE Remembered /\ (late' = {} => late = {})
  <2>1. Overtakes(m) \/ UNCHANGED orderVars
    BY <1>2 DEF AppendEntries
  <2>2. Overtakes(m) => Remembered /\ (late' = {} => late = {})
    BY DEF Overtakes, Remembered
  <2> QED BY <1>1, <2>1, <2>2
<1>3. ASSUME NEW i \in Node,
             \/ StartElection(i) \/ BroadcastAlone(i) \/ Apply(i)
             \/ \E change \in Changes : Start(i, change)
             \/ \E p \in DOMAIN peers[i] : SendAppend(i, p)
      PROVE  UNCHANGED orderVars
  BY <1>3 DEF StartElection, BroadcastAlone, Apply, Start, SendAppend
<1>4. ASSUME NEW m \in messages,
             \/ RequestVote(m) \/ VoteReply(m)
             \/ AppendReply(m) \/ InstallSnapshot(m) \/ InstallReply(m)
      PROVE  UNCHANGED orderVars
  BY <1>4 DEF RequestVote, VoteReply, AppendReply, InstallSnapshot, InstallReply
<1>5. UNCHANGED vars => UNCHANGED orderVars
  BY DEF vars, orderVars
<1> QED BY <1>1, <1>2, <1>3, <1>4, <1>5 DEF Next

LEMMA HoldsKept ==
    ASSUME Types, Types', Remembered, elected \subseteq elected',
           NEW H \in SUBSET LedLog, NEW G, H \subseteq G,
           NEW i, NEW j, NEW t, NEW n, Holds(H, i, j, t, n),
           term'[j] >= term[j],
           One(t)' /\ term[j] = t /\ term'[j] = t =>
               \A x \in H : /\ x.node = i /\ x.led = t /\ n <= Len(x.log)
                            /\ n <= Len(log[j]) /\ \A k \in 1 .. n : log[j][k] = x.log[k]
                            => n <= Len(log'[j]) /\ \A k \in 1 .. n : log'[j][k] = x.log[k],
           \A m \in messages' :
               m.type = "AppendEntries" /\ m.call.from = i /\ m.call.to = j /\ m.call.term = t
               => m \in messages \/ n <= End(m)
    PROVE  Holds(G, i, j, t, n)'
<1>1. PICK x \in H : /\ x.node = i /\ x.led = t /\ n <= Len(x.log)
                     /\ One(t) /\ term[j] = t =>
                           n <= Len(log[j]) /\ \A k \in 1 .. n : log[j][k] = x.log[k]
  BY DEF Holds
<1>2. /\ j \in Node /\ n \in Nat /\ t \in Nat /\ term[j] \in Nat /\ term'[j] \in Nat
      /\ term[j] >= t
  BY <1>1 DEF Holds, LedLog, Types
<1>3. One(t)' => One(t)
  <2>1. elected' \subseteq Election
    BY DEF Types, Election
  <2> QED BY <1>2, <2>1, OneDown DEF One
<1>4. One(t)' /\ term'[j] = t => n <= Len(log'[j]) /\ \A k \in 1 .. n : log'[j][k] = x.log[k]
  <2>1. term'[j] = t => term[j] = t
    BY <1>2
  <2> QED BY <1>1, <1>3, <2>1
<1>5. \A m \in messages' \ overtaken' :
         m.type = "AppendEntries" /\ m.call.from = i /\ m.call.to = j /\ m.call.term = t
         => n <= End(m)
  BY DEF Holds, Remembered
<1>6. term'[j] >= t
  BY <1>2
<1> QED BY <1>1, <1>2, <1>4, <1>5, <1>6 DEF Holds, End

\* Nobody comes to lead, no log changes, and nothing is sent but requests and refusals.
Calm ==
    /\ Remembered
    /\ UNCHANGED <<log, elected>>
    /\ \A j \in Node :
          /\ term'[j] >= term[j]
          /\ states'[j] = "Leader" => states[j] = "Leader" /\ term'[j] = term[j]
          /\ states'[j] = "Candidate" =>
                (states[j] = "Candidate" /\ term'[j] = term[j]) \/ term'[j] > term[j]
    /\ \A m \in messages' :
          m.type = "AppendEntries" \/ (m.type = "AppendReply" /\ m.success) => m \in messages

LEMMA CalmHolds ==
    ASSUME Types, Types', Calm, NEW H \in SUBSET LedLog, NEW i, NEW j, NEW t, NEW n,
           Holds(H, i, j, t, n)
    PROVE  Holds(H, i, j, t, n)'
<1>1. /\ elected \subseteq elected' /\ log' = log /\ Remembered
      /\ \A m \in messages' : m.type = "AppendEntries" => m \in messages
  BY DEF Calm
<1>2. j \in Node
  BY DEF Holds
<1>3. term'[j] >= term[j]
  BY <1>2 DEF Calm
<1> QED BY <1>1, <1>3, HoldsKept

LEMMA CalmLogs ==
    ASSUME Types, Types', Calm, NEW H \in SUBSET LedLog, Logs(H)
    PROVE  Logs(H)'
<1>0. /\ UNCHANGED <<log, elected>> /\ \A t : One(t)' <=> One(t)
      /\ elected' \subseteq Election
  BY DEF Calm, One, Types, Election
<1>1. LeadersIn(H)' /\ Led(H)' /\ Growing(H)' /\ EntriesIn(H)' /\ AllMatch(H)'
  BY <1>0 DEF Logs, LeadersIn, Led, Growing, EntriesIn, AllMatch, Calm
<1>2. LogsIn(H)'
  <2> SUFFICES ASSUME NEW i \in Node, One(term[i])', log[i] # <<>>
               PROVE  \E x \in H : x.led <= term'[i] /\ x.log = log[i]
    BY <1>0 DEF LogsIn
  <2>1. term[i] \in Nat /\ term'[i] \in Nat /\ term[i] <= term'[i]
    BY DEF Types, Calm
  <2>2. One(term[i])
    BY <1>0, <2>1, OneDown DEF One
  <2>3. PICK x \in H : x.led <= term[i] /\ x.log = log[i]
    BY <2>2 DEF Logs, LogsIn
  <2>4. x.led \in Nat
    BY DEF LedLog
  <2> QED BY <2>1, <2>3, <2>4
<1>3. CallsIn(H)'
  <2>1. \A m \in messages' : m.type = "AppendEntries" => m \in messages
    BY DEF Calm
  <2>2. \A m : \A x : Carries(m, x)' = Carries(m, x)
    BY DEF Carries, End
  <2> QED BY <2>1, <2>2 DEF Logs, CallsIn
<1>4. RepliesTrue(H)'
  <2> SUFFICES ASSUME NEW m \in messages', m.type = "AppendReply", m.success
               PROVE  Holds(H, m.call.from, m.call.to, m.call.term, m.prevIndex + m.len)'
    BY DEF RepliesTrue
  <2>1. m \in messages
    BY DEF Calm
  <2>2. Holds(H, m.call.from, m.call.to, m.call.term, m.prevIndex + m.len)
    BY <2>1 DEF Logs, RepliesTrue
  <2> QED BY <2>2, CalmHolds
<1> QED BY <1>1, <1>2, <1>3, <1>4 DEF Logs

LEMMA CalmWinners ==
    ASSUME Types, Types', Calm, WinnersStay
    PROVE  WinnersStay'
<1> SUFFICES ASSUME NEW e \in elected
             PROVE  e.term <= term'[e.node] /\ (e.term = term'[e.node] => states'[e.node] # "Candidate")
  BY DEF WinnersStay, Calm
<1>1. e.node \in Node /\ e.term \in Nat
  BY DEF Types
<1>2. PICK j \in Node : j = e.node
  BY <1>1
<1>3. e.term <= term[j] /\ (e.term = term[j] => states[j] # "Candidate")
  BY <1>2 DEF WinnersStay
<1>4. term[j] \in Nat /\ term'[j] \in Nat
  BY DEF Types
<1>5. /\ term'[j] >= term[j]
      /\ states'[j] = "Candidate" =>
            (states[j] = "Candidate" /\ term'[j] = term[j]) \/ term'[j] > term[j]
  BY DEF Calm
<1> QED BY <1>1, <1>2, <1>3, <1>4, <1>5

\* A calm step books nothing but what is held.
LEMMA CalmBooks ==
    ASSUME HeldInv, MemberInv', Remembered, Calm, MatchTyped', NextInside',
           NEW H \in SUBSET LedLog, Logs(H), BooksTrue(H),
           \A i, j \in Node : \A t, n \in Nat :
               Booked(i, j, t, n)' => Booked(i, j, t, n) \/ Holds(H, i, j, t, n)
    PROVE  HeldInv'
<1>1. Types /\ Types'
  BY DEF HeldInv, MemberInv
<1>2. ASSUME NEW i \in Node, NEW j \in Node, NEW t \in Nat, NEW n \in Nat, Booked(i, j, t, n)'
      PROVE  Holds(H, i, j, t, n)'
  <2>1. Holds(H, i, j, t, n)
    BY <1>2 DEF BooksTrue
  <2> QED BY <1>1, <2>1, CalmHolds
<1>3. BooksTrue(H)'
  BY <1>2 DEF BooksTrue
<1>4. Logs(H)' /\ WinnersStay'
  BY <1>1, CalmLogs, CalmWinners DEF HeldInv
<1> QED BY <1>3, <1>4 DEF HeldInv

LEMMA CalmKeeps ==
    ASSUME HeldInv, MemberInv', Remembered, Calm, UNCHANGED <<memberVars, leaderVars>>
    PROVE  HeldInv'
<1>1. PICK H \in SUBSET LedLog : Logs(H) /\ BooksTrue(H)
  BY DEF HeldInv
<1>2. MatchTyped' /\ NextInside'
  BY DEF HeldInv, MatchTyped, NextInside, memberVars, leaderVars, Calm
<1>3. \A i, j \in Node : \A t, n \in Nat : Booked(i, j, t, n)' => Booked(i, j, t, n)
  BY DEF Booked, Calm, memberVars, leaderVars
<1> QED BY <1>1, <1>2, <1>3, CalmBooks

-----------------------------------------------------------------------------
(* Steps that are calm *)

\* Node i falls back, or nothing of it changes.
LEMMA FallsBack ==
    ASSUME Types, Remembered, NEW i \in Node, NEW t \in Nat, UNCHANGED <<log, elected>>,
           \/ UNCHANGED <<term, states>>
           \/ /\ t >= term[i]
              /\ term' = [term EXCEPT ![i] = t]
              /\ states' = [states EXCEPT ![i] = "Follower"],
           \A m \in messages' :
              m.type = "AppendEntries" \/ (m.type = "AppendReply" /\ m.success) => m \in messages
    PROVE  Calm
<1> SUFFICES ASSUME NEW j \in Node
             PROVE  /\ term'[j] >= term[j]
                    /\ states'[j] = "Leader" => states[j] = "Leader" /\ term'[j] = term[j]
                    /\ states'[j] = "Candidate" =>
                          (states[j] = "Candidate" /\ term'[j] = term[j]) \/ term'[j] > term[j]
  BY DEF Calm
<1>1. term[j] \in Nat
  BY DEF Types
<1>2. CASE UNCHANGED <<term, states>>
  BY <1>1, <1>2
<1>3. CASE /\ t >= term[i]
           /\ term' = [term EXCEPT ![i] = t]
           /\ states' = [states EXCEPT ![i] = "Follower"]
  <2>1. /\ term'[j] = IF j = i THEN t ELSE term[j]
        /\ states'[j] = IF j = i THEN "Follower" ELSE states[j]
    BY <1>3 DEF Types
  <2> QED BY <1>1, <1>3, <2>1
<1> QED BY <1>2, <1>3

LEMMA RequestVoteHolds ==
    ASSUME HeldInv, MemberInv', Remembered, NEW m \in messages, RequestVote(m)
    PROVE  HeldInv'
<1> DEFINE i == m.to
           t == Greater(term[i], m.term)
<1>0. Types
  BY DEF HeldInv, MemberInv
<1>1. i \in Node /\ m.term \in Nat /\ term[i] \in Nat
  BY <1>0 DEF Types, RequestVote, MessageOk
<1>2. t \in Nat /\ t >= term[i] /\ (~(m.term > term[i]) => t = term[i])
  BY <1>1 DEF Greater
<1>3. /\ UNCHANGED <<log, elected, memberVars, leaderVars>>
      /\ term' = [term EXCEPT ![i] = t]
      /\ states' = IF m.term > term[i] THEN [states EXCEPT ![i] = "Follower"] ELSE states
  BY DEF RequestVote
<1>4. \A n \in messages' :
         n.type = "AppendEntries" \/ (n.type = "AppendReply" /\ n.success) => n \in messages
  BY DEF RequestVote, Reply
<1> HIDE DEF i, t
<1>5. \/ UNCHANGED <<term, states>>
      \/ /\ term' = [term EXCEPT ![i] = t]
         /\ states' = [states EXCEPT ![i] = "Follower"]
  <2>1. CASE m.term > term[i]
    BY <1>3, <2>1
  <2>2. CASE ~(m.term > term[i])
    <3>1. term' = term
      BY <1>0, <1>1, <1>2, <1>3, <2>2 DEF Types
    <3> QED BY <1>3, <2>2, <3>1
  <2> QED BY <2>1, <2>2
<1>6. Calm
  BY <1>0, <1>1, <1>2, <1>3, <1>4, <1>5, FallsBack
<1> QED BY <1>3, <1>6, CalmKeeps

LEMMA InstallSnapshotHolds ==
    ASSUME HeldInv, MemberInv', Remembered, NEW m \in messages, InstallSnapshot(m)
    PROVE  HeldInv'
<1> DEFINE i == m.call.to
           t == m.call.term
<1>0. Types
  BY DEF HeldInv, MemberInv
<1>1. i \in Node /\ t \in Nat
  BY <1>0 DEF Types, InstallSnapshot, MessageOk
<1>2. /\ UNCHANGED <<log, elected, memberVars, leaderVars>>
      /\ \/ UNCHANGED <<term, states>>
         \/ /\ t >= term[i]
            /\ term' = [term EXCEPT ![i] = t]
            /\ states' = [states EXCEPT ![i] = "Follower"]
  BY DEF InstallSnapshot, Accept, historyVars
<1>3. \A n \in messages' :
         n.type = "AppendEntries" \/ (n.type = "AppendReply" /\ n.success) => n \in messages
  BY DEF InstallSnapshot, Reply
<1> HIDE DEF i, t
<1>4. Calm
  BY <1>0, <1>1, <1>2, <1>3, FallsBack
<1> QED BY <1>2, <1>4, CalmKeeps

-----------------------------------------------------------------------------
(* Books *)

\* One number of one node is set.
LEMMA CellTyped ==
    ASSUME NEW f \in [Node -> Seq(Nat)], NEW i \in Node, NEW p, NEW n \in Nat, NEW g,
           g = [f EXCEPT ![i][p] = n]
    PROVE  g \in [Node -> Seq(Nat)]
<1> DEFINE s == [f[i] EXCEPT ![p] = n]
<1>1. f[i] \in Seq(Nat) /\ DOMAIN f[i] = 1 .. Len(f[i])
  BY LenProperties
<1>2. s \in Seq(Nat)
  <2>1. CASE p \in 1 .. Len(f[i])
    BY <1>1, <2>1, ExceptSeq
  <2>2. CASE p \notin 1 .. Len(f[i])
    <3>1. s = f[i]
      BY <1>1, <2>2
    <3> QED BY <1>1, <3>1
  <2> QED BY <2>1, <2>2
<1>3. g = [f EXCEPT ![i] = s]
  OBVIOUS
<1> HIDE DEF s
<1> QED BY <1>2, <1>3

LEMMA CellSet ==
    ASSUME NEW f \in [Node -> Seq(Nat)], NEW i \in Node, NEW p, NEW n \in Nat, NEW g,
           g = [f EXCEPT ![i][p] = n]
    PROVE  /\ \A k \in Node : Len(g[k]) = Len(f[k])
           /\ \A k \in Node : \A q \in 1 .. Len(f[k]) :
                 g[k][q] = IF k = i /\ q = p THEN n ELSE f[k][q]
<1> DEFINE s == [f[i] EXCEPT ![p] = n]
<1>1. f[i] \in Seq(Nat) /\ DOMAIN f[i] = 1 .. Len(f[i]) /\ Len(f[i]) \in Nat
  BY LenProperties
<1>2. /\ Len(s) = Len(f[i])
      /\ \A q \in 1 .. Len(f[i]) : s[q] = IF q = p THEN n ELSE f[i][q]
  <2>1. CASE p \in 1 .. Len(f[i])
    BY <1>1, <2>1, ExceptSeq
  <2>2. CASE p \notin 1 .. Len(f[i])
    <3>1. s = f[i]
      BY <1>1, <2>2
    <3> QED BY <1>1, <2>2, <3>1
  <2> QED BY <2>1, <2>2
<1>3. g = [f EXCEPT ![i] = s]
  OBVIOUS
<1> HIDE DEF s
<1>4. g[i] = s /\ \A k \in Node : k # i => g[k] = f[k]
  BY <1>3
<1> QED BY <1>2, <1>4

\* A leader books what it was told.
LEMMA RecordHolds ==
    ASSUME HeldInv, MemberInv', Remembered, NEW m \in messages, m.type = "AppendReply",
           NEW i \in Node, i = m.call.from, SamePeer(i, m.call),
           states[i] = "Leader", m.call.term = term[i], Record(i, m), Discard(m),
           UNCHANGED <<term, states, log, memberVars, historyVars>>
    PROVE  HeldInv'
<1> DEFINE p == m.call.peer
           last == m.prevIndex + m.len
<1>0. Types /\ MatchTyped /\ NextInside
  BY DEF HeldInv, MemberInv
<1>1. PICK H \in SUBSET LedLog : Logs(H) /\ BooksTrue(H)
  BY DEF HeldInv
<1>2. /\ m.conflict \in Nat /\ m.prevIndex \in Nat /\ m.len \in Nat /\ last \in Nat
  <2>1. m.conflict \in Nat /\ m.prevIndex \in Nat /\ m.len \in Nat
    BY <1>0 DEF Types, MessageOk
  <2> QED BY <2>1
<1>3. peers[i][p] = m.call.to /\ p \in 1 .. Len(peers[i])
  <2>1. peers[i] \in Seq(Node)
    BY <1>0 DEF Types
  <2> QED BY <2>1, LenProperties DEF SamePeer
<1>4. log[i] \in Seq(Entry) /\ Len(log[i]) \in Nat /\ LastIndex(i) = Len(log[i])
  BY <1>0, LenProperties DEF Types, LastIndex
<1>5. Calm
  <2>1. \A n \in messages' : n \in messages
    BY DEF Discard
  <2>2. UNCHANGED <<term, states, log, elected>>
    BY DEF historyVars
  <2>3. 0 \in Nat
    OBVIOUS
  <2> QED BY <1>0, <2>1, <2>2, <2>3, FallsBack
<1>6. \/ /\ m.success
         /\ nextIndex' = [nextIndex EXCEPT ![i][p] = last + 1]
         /\ \/ m.len > 0 /\ matchIndex' = [matchIndex EXCEPT ![i][p] = last]
            \/ m.len = 0 /\ matchIndex' = matchIndex
      \/ /\ ~m.success
         /\ nextIndex' = [nextIndex EXCEPT ![i][p] = Lesser(m.conflict, LastIndex(i) + 1)]
         /\ matchIndex' = matchIndex
  <2>1. [matchIndex EXCEPT ![i] = matchIndex[i]] = matchIndex
    BY <1>0 DEF MatchTyped
  <2>2. m.len > 0 => [matchIndex EXCEPT ![i] = [matchIndex[i] EXCEPT ![p] = last]]
                       = [matchIndex EXCEPT ![i][p] = last]
    OBVIOUS
  <2> QED BY <1>2, <2>1, <2>2 DEF Record
<1>7. m.success => /\ Holds(H, i, peers[i][p], term[i], last)
                   /\ last <= Len(log[i])
  <2> SUFFICES ASSUME m.success
               PROVE  Holds(H, i, peers[i][p], term[i], last) /\ last <= Len(log[i])
    OBVIOUS
  <2>1. Holds(H, i, peers[i][p], term[i], last)
    BY <1>1, <1>3 DEF Logs, RepliesTrue
  <2>2. PICK x \in H : x.node = i /\ x.led = term[i] /\ last <= Len(x.log)
    BY <2>1 DEF Holds
  <2>3. Len(x.log) <= Len(log[i])
    BY <1>1, <2>2 DEF Logs, Growing, PrefixOf
  <2>4. Len(x.log) \in Nat
    <3>1. x.log \in Seq(Entry)
      BY DEF LedLog
    <3> QED BY <3>1, LenProperties
  <2> QED BY <1>2, <1>4, <2>1, <2>2, <2>3, <2>4
<1> HIDE DEF p, last
<1>8. PICK n \in Nat : /\ nextIndex' = [nextIndex EXCEPT ![i][p] = n]
                      /\ n <= Len(log[i]) + 1
  <2>1. last + 1 \in Nat /\ (m.success => last + 1 <= Len(log[i]) + 1)
    BY <1>2, <1>4, <1>7
  <2>2. /\ Lesser(m.conflict, LastIndex(i) + 1) \in Nat
        /\ Lesser(m.conflict, LastIndex(i) + 1) <= Len(log[i]) + 1
    BY <1>2, <1>4 DEF Lesser
  <2> QED BY <1>6, <2>1, <2>2
<1>9. NextInside'
  <2>1. /\ nextIndex \in [Node -> Seq(Nat)]
        /\ \A k \in Node : Len(nextIndex[k]) = Len(peers[k])
    BY <1>0 DEF Types
  <2>2. \A k \in Node : \A q \in 1 .. Len(peers[k]) :
           nextIndex'[k][q] = IF k = i /\ q = p THEN n ELSE nextIndex[k][q]
    BY <1>8, <2>1, CellSet
  <2> QED BY <1>0, <1>8, <2>2 DEF NextInside, memberVars
<1>10. /\ MatchTyped'
       /\ \A k \in Node : \A q \in 1 .. Len(peers[k]) :
             \/ matchIndex'[k][q] = matchIndex[k][q]
             \/ m.success /\ k = i /\ q = p /\ matchIndex'[k][q] = last
  <2>1. /\ matchIndex \in [Node -> Seq(Nat)]
        /\ \A k \in Node : Len(matchIndex[k]) = Len(peers[k])
    BY <1>0 DEF MatchTyped
  <2>2. CASE matchIndex' = matchIndex
    BY <2>1, <2>2 DEF MatchTyped, memberVars
  <2>3. CASE m.success /\ matchIndex' = [matchIndex EXCEPT ![i][p] = last]
    <3>1. /\ matchIndex' \in [Node -> Seq(Nat)]
          /\ \A k \in Node : Len(matchIndex'[k]) = Len(matchIndex[k])
          /\ \A k \in Node : \A q \in 1 .. Len(peers[k]) :
                matchIndex'[k][q] = IF k = i /\ q = p THEN last ELSE matchIndex[k][q]
      <4>1. /\ matchIndex' \in [Node -> Seq(Nat)]
            /\ \A k \in Node : Len(matchIndex'[k]) = Len(matchIndex[k])
            /\ \A k \in Node : \A q \in 1 .. Len(matchIndex[k]) :
                  matchIndex'[k][q] = IF k = i /\ q = p THEN last ELSE matchIndex[k][q]
        <5>1. /\ matchIndex \in [Node -> Seq(Nat)] /\ last \in Nat
              /\ matchIndex' = [matchIndex EXCEPT ![i][p] = last]
          BY <1>2, <2>1, <2>3
        <5>2. matchIndex' \in [Node -> Seq(Nat)]
          BY <5>1, CellTyped
        <5>3. \A k \in Node : Len(matchIndex'[k]) = Len(matchIndex[k])
          BY <5>1, CellSet
        <5>4. \A k \in Node : \A q \in 1 .. Len(matchIndex[k]) :
                 matchIndex'[k][q] = IF k = i /\ q = p THEN last ELSE matchIndex[k][q]
          BY <5>1, CellSet
        <5> QED BY <5>2, <5>3, <5>4
      <4> QED BY <2>1, <4>1
    <3> QED BY <2>1, <2>3, <3>1 DEF MatchTyped, memberVars
  <2> QED BY <1>6, <2>2, <2>3
<1>11. ASSUME NEW k \in Node, NEW j \in Node, NEW t \in Nat, NEW h \in Nat, Booked(k, j, t, h)'
       PROVE  Booked(k, j, t, h) \/ Holds(H, k, j, t, h)
  <2>1. PICK q \in 1 .. Len(peers[k]) :
           q # me[k] /\ j = peers[k][q] /\ h = matchIndex'[k][q]
    BY <1>11 DEF Booked, memberVars
  <2>2. states[k] = "Leader" /\ t = term[k] /\ h > 0
    BY <1>11 DEF Booked
  <2>3. CASE h = matchIndex[k][q]
    BY <2>1, <2>2, <2>3 DEF Booked
  <2>4. CASE m.success /\ k = i /\ q = p /\ h = last
    BY <1>7, <2>1, <2>2, <2>4
  <2> QED BY <1>10, <2>1, <2>3, <2>4
<1> QED BY <1>1, <1>5, <1>9, <1>10, <1>11, CalmBooks

LEMMA AppendReplyHolds ==
    ASSUME HeldInv, MemberInv', Remembered, NEW m \in messages, AppendReply(m)
    PROVE  HeldInv'
<1>0. Types
  BY DEF HeldInv, MemberInv
<1>1. PICK i \in Node : i = m.call.from
  BY <1>0 DEF Types, AppendReply, MessageOk
<1>2. m.type = "AppendReply" /\ m.term \in Nat /\ term[i] \in Nat
  BY <1>0 DEF Types, AppendReply, MessageOk
<1>3. Discard(m) /\ UNCHANGED <<log, memberVars, historyVars>>
  BY DEF AppendReply
<1>4. CASE /\ UNCHANGED leaderVars
           /\ \/ UNCHANGED <<term, states>>
              \/ /\ m.term > term[i]
                 /\ term' = [term EXCEPT ![i] = m.term]
                 /\ states' = [states EXCEPT ![i] = "Follower"]
  <2>1. \A n \in messages' : n \in messages
    BY <1>3 DEF Discard
  <2>2. m.term > term[i] => m.term >= term[i]
    BY <1>2
  <2>3. UNCHANGED <<log, elected>>
    BY <1>3 DEF historyVars
  <2>4. Calm
    BY <1>0, <1>2, <1>4, <2>1, <2>2, <2>3, FallsBack
  <2> QED BY <1>3, <1>4, <2>4, CalmKeeps
<1>5. CASE /\ SamePeer(i, m.call) /\ states[i] = "Leader" /\ m.call.term = term[i]
           /\ Record(i, m)
           /\ UNCHANGED <<term, states>>
  BY <1>1, <1>2, <1>3, <1>5, RecordHolds
<1> QED BY <1>1, <1>4, <1>5 DEF AppendReply, StepDown

LEMMA InstallReplyHolds ==
    ASSUME HeldInv, MemberInv', Remembered, NEW m \in messages, InstallReply(m)
    PROVE  HeldInv'
<1>0. Types /\ MatchTyped /\ NextInside
  BY DEF HeldInv, MemberInv
<1>1. PICK i \in Node : i = m.call.from
  BY <1>0 DEF Types, InstallReply, MessageOk
<1>2. m.type = "InstallReply" /\ m.term \in Nat /\ term[i] \in Nat
  BY <1>0 DEF Types, InstallReply, MessageOk
<1>3. Discard(m) /\ UNCHANGED <<log, memberVars, historyVars>>
  BY DEF InstallReply
<1>4. Calm
  <2>1. \A n \in messages' : n \in messages
    BY <1>3 DEF Discard
  <2>2. m.term > term[i] => m.term >= term[i]
    BY <1>2
  <2>3. UNCHANGED <<log, elected>>
    BY <1>3 DEF historyVars
  <2>4. \/ UNCHANGED <<term, states>>
        \/ /\ m.term > term[i]
           /\ term' = [term EXCEPT ![i] = m.term]
           /\ states' = [states EXCEPT ![i] = "Follower"]
    BY <1>1 DEF InstallReply, StepDown
  <2> QED BY <1>0, <1>2, <2>1, <2>2, <2>3, <2>4, FallsBack
<1>5. CASE UNCHANGED leaderVars
  BY <1>3, <1>4, <1>5, CalmKeeps
<1> PICK p : p = m.call.peer
  OBVIOUS
<1>6. CASE /\ nextIndex' = [nextIndex EXCEPT ![i][p] = 1]
           /\ matchIndex' = [matchIndex EXCEPT ![i][p] = 0]
           /\ UNCHANGED <<term, states>>
  <2>1. /\ nextIndex \in [Node -> Seq(Nat)] /\ matchIndex \in [Node -> Seq(Nat)]
        /\ \A k \in Node : Len(nextIndex[k]) = Len(peers[k]) /\ Len(matchIndex[k]) = Len(peers[k])
    BY <1>0 DEF Types, MatchTyped
  <2>2. /\ matchIndex' \in [Node -> Seq(Nat)]
        /\ \A k \in Node : Len(matchIndex'[k]) = Len(matchIndex[k])
        /\ \A k \in Node : \A q \in 1 .. Len(matchIndex[k]) :
              matchIndex'[k][q] = IF k = i /\ q = p THEN 0 ELSE matchIndex[k][q]
    <3>1. /\ matchIndex \in [Node -> Seq(Nat)] /\ 0 \in Nat /\ i \in Node
          /\ matchIndex' = [matchIndex EXCEPT ![i][p] = 0]
      BY <1>6, <2>1
    <3>2. matchIndex' \in [Node -> Seq(Nat)]
      BY ONLY <3>1, CellTyped
    <3>3. \A k \in Node : Len(matchIndex'[k]) = Len(matchIndex[k])
      BY ONLY <3>1, CellSet
    <3>4. \A k \in Node : \A q \in 1 .. Len(matchIndex[k]) :
             matchIndex'[k][q] = IF k = i /\ q = p THEN 0 ELSE matchIndex[k][q]
      BY ONLY <3>1, CellSet
    <3> QED BY <3>2, <3>3, <3>4
  <2>3. \A k \in Node : \A q \in 1 .. Len(nextIndex[k]) :
           nextIndex'[k][q] = IF k = i /\ q = p THEN 1 ELSE nextIndex[k][q]
    BY <1>6, <2>1, CellSet
  <2>4. MatchTyped'
    BY <1>3, <2>1, <2>2 DEF MatchTyped, memberVars
  <2>5. \A k \in Node : Len(log[k]) \in Nat
    <3>1. \A k \in Node : log[k] \in Seq(Entry)
      BY <1>0 DEF Types
    <3> QED BY <3>1, LenProperties
  <2>6. NextInside'
    <3>1. \A k \in Node : 1 <= Len(log[k]) + 1
      BY <2>5
    <3> QED BY <1>0, <1>3, <1>6, <2>1, <2>3, <3>1 DEF NextInside, memberVars
  <2>7. PICK H \in SUBSET LedLog : Logs(H) /\ BooksTrue(H)
    BY DEF HeldInv
  <2>8. ASSUME NEW k \in Node, NEW j \in Node, NEW t \in Nat, NEW h \in Nat, Booked(k, j, t, h)'
        PROVE  Booked(k, j, t, h)
    <3>1. PICK q \in 1 .. Len(peers[k]) :
             q # me[k] /\ j = peers[k][q] /\ h = matchIndex'[k][q]
      BY <1>3, <2>8 DEF Booked, memberVars
    <3>2. states[k] = "Leader" /\ t = term[k] /\ h > 0
      BY <1>6, <2>8 DEF Booked
    <3>3. h = matchIndex[k][q]
      BY <2>1, <2>2, <3>1, <3>2
    <3> QED BY <3>1, <3>2, <3>3 DEF Booked
  <2> QED BY <1>4, <2>4, <2>6, <2>7, <2>8, CalmBooks
<1> QED BY <1>1, <1>5, <1>6 DEF InstallReply, StepDown

\* The leader whose only peer is itself books its own log, at its own position.
LEMMA BroadcastAloneHolds ==
    ASSUME HeldInv, MemberInv', Remembered, NEW i \in Node, BroadcastAlone(i)
    PROVE  HeldInv'
<1>0. Types /\ MatchTyped
  BY DEF HeldInv, MemberInv
<1>1. UNCHANGED <<memberVars, term, states, log, nextIndex, messages, elected>>
  BY DEF BroadcastAlone, voteVars, historyVars
<1>2. Calm
  <2>1. UNCHANGED <<term, states, log, elected, messages>> /\ 0 \in Nat
    BY <1>1
  <2> QED BY <1>0, <2>1, FallsBack
<1>3. PICK n \in Nat : \/ matchIndex' = [matchIndex EXCEPT ![i][me[i]] = n]
                      \/ matchIndex' = matchIndex
  <2>1. LastIndex(i) \in Nat /\ 0 \in Nat
    BY <1>0, LenProperties DEF Types, LastIndex
  <2> QED BY <2>1 DEF BroadcastAlone
<1>4. /\ MatchTyped'
      /\ \A k \in Node : \A q \in 1 .. Len(peers[k]) :
            q = me[k] \/ matchIndex'[k][q] = matchIndex[k][q]
  <2>1. CASE matchIndex' = matchIndex
    BY <1>0, <1>1, <2>1 DEF MatchTyped, memberVars
  <2>2. CASE matchIndex' = [matchIndex EXCEPT ![i][me[i]] = n]
    <3>1. /\ matchIndex \in [Node -> Seq(Nat)] /\ n \in Nat
          /\ matchIndex' = [matchIndex EXCEPT ![i][me[i]] = n]
          /\ \A k \in Node : Len(matchIndex[k]) = Len(peers[k])
      BY <1>0, <2>2 DEF MatchTyped
    <3>2. matchIndex' \in [Node -> Seq(Nat)]
      BY <3>1, CellTyped
    <3>3. \A k \in Node : Len(matchIndex'[k]) = Len(matchIndex[k])
      BY <3>1, CellSet
    <3>4. \A k \in Node : \A q \in 1 .. Len(matchIndex[k]) :
             matchIndex'[k][q] = IF k = i /\ q = me[i] THEN n ELSE matchIndex[k][q]
      BY <3>1, CellSet
    <3>5. MatchTyped'
      BY <1>1, <3>1, <3>2, <3>3 DEF MatchTyped, memberVars
    <3>6. \A k \in Node : \A q \in 1 .. Len(peers[k]) :
             q = me[k] \/ matchIndex'[k][q] = matchIndex[k][q]
      BY <3>1, <3>4
    <3> QED BY <3>5, <3>6
  <2> QED BY <1>3, <2>1, <2>2
<1>5. NextInside'
  BY <1>1 DEF HeldInv, NextInside, memberVars
<1>6. PICK H \in SUBSET LedLog : Logs(H) /\ BooksTrue(H)
  BY DEF HeldInv
<1>7. ASSUME NEW k \in Node, NEW j \in Node, NEW t \in Nat, NEW h \in Nat, Booked(k, j, t, h)'
      PROVE  Booked(k, j, t, h)
  <2>1. PICK q \in 1 .. Len(peers[k]) :
           q # me[k] /\ j = peers[k][q] /\ h = matchIndex'[k][q]
    BY <1>1, <1>7 DEF Booked, memberVars
  <2>2. states[k] = "Leader" /\ t = term[k] /\ h > 0
    BY <1>1, <1>7 DEF Booked
  <2> QED BY <1>4, <2>1, <2>2 DEF Booked
<1> QED BY <1>2, <1>4, <1>5, <1>6, <1>7, CalmBooks

-----------------------------------------------------------------------------
(* Changes of the members *)

\* What stands at position q now stood at p.
Moved(k, p, q) ==
    /\ peers'[k][q] = peers[k][p] /\ nextIndex'[k][q] = nextIndex[k][p]
    /\ matchIndex'[k][q] = matchIndex[k][p] /\ (p = me[k] => q = me'[k])

\* The rows of a leader move with the peers, and those of a new peer are fresh.
Rows(k) ==
    /\ matchIndex'[k] \in Seq(Nat) /\ Len(matchIndex'[k]) = Len(peers'[k])
    /\ \A q \in 1 .. Len(peers'[k]) :
          \/ nextIndex'[k][q] = LastIndex(k) + 1 /\ matchIndex'[k][q] = 0
          \/ \E p \in 1 .. Len(peers[k]) : Moved(k, p, q)

LEMMA SameRows ==
    ASSUME MatchTyped, NEW k \in Node, peers'[k] = peers[k], nextIndex'[k] = nextIndex[k],
           matchIndex'[k] = matchIndex[k], me'[k] = me[k]
    PROVE  Rows(k)
<1>1. matchIndex[k] \in Seq(Nat) /\ Len(matchIndex[k]) = Len(peers[k])
  BY DEF MatchTyped
<1>2. \A q \in 1 .. Len(peers[k]) : Moved(k, q, q)
  BY DEF Moved
<1> QED BY <1>1, <1>2 DEF Rows

LEMMA AddedRows ==
    ASSUME Types, MatchTyped, OwnPlaces, NEW i \in Node, NEW node \in Node,
           peers'[i] = Append(peers[i], node),
           nextIndex'[i] = Append(nextIndex[i], LastIndex(i) + 1),
           matchIndex'[i] = Append(matchIndex[i], 0), me'[i] = me[i]
    PROVE  Rows(i)
<1>1. /\ peers[i] \in Seq(Node) /\ nextIndex[i] \in Seq(Nat) /\ matchIndex[i] \in Seq(Nat)
      /\ Len(nextIndex[i]) = Len(peers[i]) /\ Len(matchIndex[i]) = Len(peers[i])
      /\ Len(peers[i]) \in Nat /\ LastIndex(i) + 1 \in Nat
  BY LenProperties DEF Types, MatchTyped, LastIndex
<1>2. /\ Len(peers'[i]) = Len(peers[i]) + 1
      /\ \A k \in 1 .. Len(peers[i]) : peers'[i][k] = peers[i][k]
  BY <1>1, AppendProperties
<1>3. /\ nextIndex'[i][Len(peers[i]) + 1] = LastIndex(i) + 1
      /\ \A k \in 1 .. Len(peers[i]) : nextIndex'[i][k] = nextIndex[i][k]
  BY <1>1, AppendProperties
<1>4. /\ matchIndex'[i] \in Seq(Nat) /\ Len(matchIndex'[i]) = Len(peers[i]) + 1
      /\ matchIndex'[i][Len(peers[i]) + 1] = 0
      /\ \A k \in 1 .. Len(peers[i]) : matchIndex'[i][k] = matchIndex[i][k]
  <2>1. 0 \in Nat
    OBVIOUS
  <2>2. /\ Append(matchIndex[i], 0) \in Seq(Nat)
        /\ Len(Append(matchIndex[i], 0)) = Len(matchIndex[i]) + 1
    BY <1>1, <2>1, AppendProperties
  <2>3. /\ \A k \in 1 .. Len(matchIndex[i]) : Append(matchIndex[i], 0)[k] = matchIndex[i][k]
        /\ Append(matchIndex[i], 0)[Len(matchIndex[i]) + 1] = 0
    BY <1>1, <2>1, AppendProperties
  <2> QED BY <1>1, <2>2, <2>3
<1>5. ASSUME NEW q \in 1 .. Len(peers'[i])
      PROVE  \/ nextIndex'[i][q] = LastIndex(i) + 1 /\ matchIndex'[i][q] = 0
             \/ \E p \in 1 .. Len(peers[i]) : Moved(i, p, q)
  <2>1. q \in 1 .. Len(peers[i]) \/ q = Len(peers[i]) + 1
    BY <1>1, <1>2
  <2>2. CASE q \in 1 .. Len(peers[i])
    <3>1. Moved(i, q, q)
      BY <1>2, <1>3, <1>4, <2>2 DEF Moved
    <3> QED BY <2>2, <3>1
  <2> QED BY <1>3, <1>4, <2>1, <2>2
<1> QED BY <1>2, <1>4, <1>5 DEF Rows

LEMMA RemovedRows ==
    ASSUME Types, MatchTyped, OwnPlaces, NEW i \in Node, NEW r \in 1 .. Len(peers[i]),
           peers'[i] = Without(peers[i], r), nextIndex'[i] = Without(nextIndex[i], r),
           matchIndex'[i] = Without(matchIndex[i], r), me[i] # 0,
           me'[i] = PositionIn(peers'[i], peers[i][me[i]])
    PROVE  Rows(i)
<1>1. /\ peers[i] \in Seq(Node) /\ nextIndex[i] \in Seq(Nat) /\ matchIndex[i] \in Seq(Nat)
      /\ Len(nextIndex[i]) = Len(peers[i]) /\ Len(matchIndex[i]) = Len(peers[i])
      /\ Len(peers[i]) \in Nat
  BY LenProperties DEF Types, MatchTyped
<1>2. /\ peers'[i] \in Seq(Node) /\ Len(peers'[i]) = Len(peers[i]) - 1
      /\ \A q \in 1 .. Len(peers[i]) - 1 : peers'[i][q] = peers[i][IF q < r THEN q ELSE q + 1]
  BY <1>1, WithoutFacts
<1>3. \A q \in 1 .. Len(peers[i]) - 1 :
         nextIndex'[i][q] = nextIndex[i][IF q < r THEN q ELSE q + 1]
  <2>1. r \in 1 .. Len(nextIndex[i])
    BY <1>1
  <2>2. \A q \in 1 .. Len(nextIndex[i]) - 1 :
           Without(nextIndex[i], r)[q] = nextIndex[i][IF q < r THEN q ELSE q + 1]
    BY <1>1, <2>1, WithoutFacts
  <2> QED BY <1>1, <2>2
<1>4. /\ matchIndex'[i] \in Seq(Nat) /\ Len(matchIndex'[i]) = Len(peers[i]) - 1
      /\ \A q \in 1 .. Len(peers[i]) - 1 :
            matchIndex'[i][q] = matchIndex[i][IF q < r THEN q ELSE q + 1]
  <2>1. r \in 1 .. Len(matchIndex[i])
    BY <1>1
  <2>2. /\ Without(matchIndex[i], r) \in Seq(Nat)
        /\ Len(Without(matchIndex[i], r)) = Len(matchIndex[i]) - 1
    BY <1>1, <2>1, WithoutFacts
  <2>3. \A q \in 1 .. Len(matchIndex[i]) - 1 :
           Without(matchIndex[i], r)[q] = matchIndex[i][IF q < r THEN q ELSE q + 1]
    BY <1>1, <2>1, WithoutFacts
  <2> QED BY <1>1, <2>2, <2>3
<1>5. IsInjective(peers'[i])
  BY <1>1, WithoutInjective DEF OwnPlaces
<1>6. ASSUME NEW q \in 1 .. Len(peers'[i])
      PROVE  \E p \in 1 .. Len(peers[i]) : Moved(i, p, q)
  <2> DEFINE p == IF q < r THEN q ELSE q + 1
  <2>1. p \in 1 .. Len(peers[i]) /\ q \in 1 .. Len(peers[i]) - 1
    <3>1. /\ Len(peers[i]) \in Nat /\ r \in 1 .. Len(peers[i])
          /\ q \in 1 .. Len(peers[i]) - 1
      BY <1>1, <1>2
    <3> QED BY ONLY <3>1
  <2>2. /\ peers'[i][q] = peers[i][p] /\ nextIndex'[i][q] = nextIndex[i][p]
        /\ matchIndex'[i][q] = matchIndex[i][p]
    BY <1>2, <1>3, <1>4, <2>1
  <2> HIDE DEF p
  <2>3. p = me[i] => q = me'[i]
    <3> SUFFICES ASSUME p = me[i] PROVE q = me'[i]
      OBVIOUS
    <3> DEFINE w == peers'[i]
               x == peers[i][me[i]]
    <3>1. w \in Seq(Node) /\ w[q] = x /\ q \in 1 .. Len(w) /\ IsInjective(w)
      BY <1>2, <1>5, <2>2
    <3>2. me'[i] = PositionIn(w, x)
      OBVIOUS
    <3> HIDE DEF w, x
    <3>3. PositionIn(w, x) \in 1 .. Len(w) /\ w[PositionIn(w, x)] = x
      BY <3>1, PositionFacts
    <3>4. DOMAIN w = 1 .. Len(w)
      BY <3>1, LenProperties
    <3> QED BY <3>1, <3>2, <3>3, <3>4 DEF IsInjective
  <2> QED BY <2>1, <2>2, <2>3 DEF Moved
<1> QED BY <1>2, <1>4, <1>6 DEF Rows

LEMMA ChangedRows ==
    ASSUME Types, MatchTyped, OwnPlaces, NEW i \in Node, Changed(i)
    PROVE  \A k \in Node : Rows(k)
<1>0. /\ peers \in [Node -> Seq(Node)] /\ me \in [Node -> Nat]
      /\ nextIndex \in [Node -> Seq(Nat)] /\ matchIndex \in [Node -> Seq(Nat)]
  BY DEF Types, MatchTyped
<1>1. CASE UNCHANGED <<peers, nextIndex>> /\ UNCHANGED <<me, peerGen, matchIndex>>
  BY <1>1, SameRows
<1>2. ASSUME NEW a, NEW b, NEW c, NEW d, peers' = [peers EXCEPT ![i] = a],
             nextIndex' = [nextIndex EXCEPT ![i] = b],
             matchIndex' = [matchIndex EXCEPT ![i] = c], me' = [me EXCEPT ![i] = d]
      PROVE  /\ peers'[i] = a /\ nextIndex'[i] = b /\ matchIndex'[i] = c /\ me'[i] = d
             /\ \A k \in Node \ {i} : Rows(k)
  <2>1. peers'[i] = a /\ nextIndex'[i] = b /\ matchIndex'[i] = c /\ me'[i] = d
    BY <1>0, <1>2
  <2>2. ASSUME NEW k \in Node \ {i}
        PROVE  Rows(k)
    <3>1. /\ peers'[k] = peers[k] /\ nextIndex'[k] = nextIndex[k]
          /\ matchIndex'[k] = matchIndex[k] /\ me'[k] = me[k]
      BY <1>0, <1>2
    <3> QED BY <3>1, SameRows
  <2> QED BY <2>1, <2>2
<1>3. ASSUME NEW node \in Node,
             peers' = [peers EXCEPT ![i] = Append(@, node)],
             nextIndex' = [nextIndex EXCEPT ![i] = Append(@, LastIndex(i) + 1)],
             matchIndex' = [matchIndex EXCEPT ![i] = Append(@, 0)], me' = me
      PROVE  \A k \in Node : Rows(k)
  <2>1. me' = [me EXCEPT ![i] = me[i]]
    BY <1>0, <1>3
  <2>2. /\ peers'[i] = Append(peers[i], node)
        /\ nextIndex'[i] = Append(nextIndex[i], LastIndex(i) + 1)
        /\ matchIndex'[i] = Append(matchIndex[i], 0) /\ me'[i] = me[i]
    BY <1>0, <1>3
  <2>4. \A k \in Node \ {i} : Rows(k)
    <3> DEFINE a == Append(peers[i], node)
               b == Append(nextIndex[i], LastIndex(i) + 1)
               c == Append(matchIndex[i], 0)
    <3>1. /\ peers' = [peers EXCEPT ![i] = a] /\ nextIndex' = [nextIndex EXCEPT ![i] = b]
          /\ matchIndex' = [matchIndex EXCEPT ![i] = c]
      BY <1>3
    <3> HIDE DEF a, b, c
    <3> QED BY <1>2, <2>1, <3>1
  <2>3. Rows(i)
    BY <1>0, <2>2, AddedRows
  <2> QED BY <2>3, <2>4
<1>4. ASSUME NEW p \in 1 .. Len(peers[i]), me[i] # 0,
             peers' = [peers EXCEPT ![i] = Without(peers[i], p)],
             nextIndex' = [nextIndex EXCEPT ![i] = Without(@, p)],
             matchIndex' = [matchIndex EXCEPT ![i] = Without(@, p)],
             me' = [me EXCEPT ![i] = PositionIn(Without(peers[i], p), peers[i][me[i]])]
      PROVE  \A k \in Node : Rows(k)
  <2>1. /\ peers'[i] = Without(peers[i], p) /\ nextIndex'[i] = Without(nextIndex[i], p)
        /\ matchIndex'[i] = Without(matchIndex[i], p)
        /\ me'[i] = PositionIn(Without(peers[i], p), peers[i][me[i]])
        /\ \A k \in Node \ {i} : Rows(k)
    BY <1>2, <1>4
  <2>2. Rows(i)
    BY <1>4, <2>1, RemovedRows
  <2> QED BY <2>1, <2>2
<1> QED BY <1>1, <1>3, <1>4 DEF Changed

LEMMA ApplyHolds ==
    ASSUME HeldInv, MemberInv', Remembered, NEW i \in Node, Apply(i)
    PROVE  HeldInv'
<1>0. Types /\ MatchTyped /\ NextInside /\ OwnPlaces /\ Types'
  BY DEF HeldInv, MemberInv
<1>1. Changed(i)
  BY <1>0, ApplyChanges
<1>2. \A k \in Node : Rows(k)
  BY <1>0, <1>1, ChangedRows
<1>3. UNCHANGED <<term, states, log, messages, elected>>
  BY DEF Apply, voteVars, historyVars
<1>4. Calm
  <2>1. 0 \in Nat
    OBVIOUS
  <2> QED BY <1>0, <1>3, <2>1, FallsBack
<1>5. MatchTyped'
  <2>1. matchIndex' \in [Node -> Seq(Nat)]
    <3>1. matchIndex' = [k \in Node |-> matchIndex'[k]]
      BY <1>0, <1>1 DEF Changed, MatchTyped
    <3>2. \A k \in Node : matchIndex'[k] \in Seq(Nat)
      BY <1>2 DEF Rows
    <3> QED BY <3>1, <3>2
  <2> QED BY <1>2, <2>1 DEF Rows, MatchTyped
<1>6. NextInside'
  <2> SUFFICES ASSUME NEW k \in Node, states[k] = "Leader", NEW q \in 1 .. Len(peers'[k])
               PROVE  nextIndex'[k][q] <= Len(log[k]) + 1
    BY <1>3 DEF NextInside
  <2>1. Len(log[k]) \in Nat
    BY <1>0, LenProperties DEF Types
  <2>2. CASE nextIndex'[k][q] = LastIndex(k) + 1
    BY <2>1, <2>2 DEF LastIndex
  <2>3. ASSUME NEW p \in 1 .. Len(peers[k]), Moved(k, p, q)
        PROVE  nextIndex'[k][q] <= Len(log[k]) + 1
    <3>1. nextIndex'[k][q] = nextIndex[k][p]
      BY <2>3 DEF Moved
    <3>2. nextIndex[k][p] <= Len(log[k]) + 1
      BY <1>0 DEF NextInside
    <3> QED BY <3>1, <3>2
  <2>4. Rows(k)
    BY <1>2
  <2> QED BY <2>2, <2>3, <2>4 DEF Rows
<1>7. PICK H \in SUBSET LedLog : Logs(H) /\ BooksTrue(H)
  BY DEF HeldInv
<1>8. ASSUME NEW k \in Node, NEW j \in Node, NEW t \in Nat, NEW n \in Nat, Booked(k, j, t, n)'
      PROVE  Booked(k, j, t, n)
  <2>1. PICK q \in 1 .. Len(peers'[k]) :
           q # me'[k] /\ j = peers'[k][q] /\ n = matchIndex'[k][q]
    BY <1>8 DEF Booked
  <2>2. states[k] = "Leader" /\ t = term[k] /\ n > 0
    BY <1>3, <1>8 DEF Booked
  <2>3. PICK p \in 1 .. Len(peers[k]) : Moved(k, p, q)
    <3>1. Rows(k)
      BY <1>2
    <3>2. matchIndex'[k][q] # 0
      BY <2>1, <2>2
    <3> QED BY <3>1, <3>2 DEF Rows
  <2>4. p # me[k] /\ j = peers[k][p] /\ n = matchIndex[k][p]
    BY <2>1, <2>3 DEF Moved
  <2> QED BY <2>2, <2>4 DEF Booked
<1> QED BY <1>4, <1>5, <1>6, <1>7, <1>8, CalmBooks

-----------------------------------------------------------------------------
(* Elections *)

\* Who becomes the leader brings a log that all others match.
LEMMA WinnerHolds ==
    ASSUME HeldInv, MemberInv', Remembered, NEW i \in Node, NEW t \in Nat, NEW c,
           BecomeLeader(i, t, c),
           t >= term[i], term' = [term EXCEPT ![i] = t], states[i] # "Leader",
           t > term[i] \/ states[i] = "Candidate", UNCHANGED <<memberVars, log>>,
           \A m \in messages' :
              m.type = "AppendEntries" \/ (m.type = "AppendReply" /\ m.success) => m \in messages
    PROVE  HeldInv'
<1>0. Types /\ Types' /\ MatchTyped /\ NextInside /\ WinnersStay
  BY DEF HeldInv, MemberInv
<1>1. PICK H \in SUBSET LedLog : Logs(H) /\ BooksTrue(H)
  BY DEF HeldInv
<1>2. PICK z : z = [node |-> i, led |-> t, log |-> log[i]]
  OBVIOUS
<1>3. z \in LedLog /\ z.node = i /\ z.led = t /\ z.log = log[i] /\ log[i] \in Seq(Entry)
  BY <1>0, <1>2 DEF LedLog, Types
<1>4. PICK v : elected' = elected \cup {v} /\ v.node = i /\ v.term = t
  <2> DEFINE w == [node |-> i, term |-> t, peers |-> c.peers,
                   sound |-> c.gen = peerGen[i] /\ c.me # 0]
  <2>1. w.node = i /\ w.term = t
    OBVIOUS
  <2>2. elected' = elected \cup {w}
    BY DEF BecomeLeader
  <2> HIDE DEF w
  <2> QED BY <2>1, <2>2
<1>5. /\ term'[i] = t /\ states'[i] = "Leader" /\ term[i] \in Nat
      /\ \A k \in Node : term[k] \in Nat /\ term'[k] \in Nat /\ term'[k] >= term[k]
      /\ \A k \in Node \ {i} : term'[k] = term[k] /\ states'[k] = states[k]
  <2>1. /\ term \in [Node -> Nat] /\ states' = [states EXCEPT ![i] = "Leader"]
        /\ states \in [Node -> {"Follower", "Candidate", "Leader"}]
    BY <1>0 DEF Types, BecomeLeader
  <2> QED BY <2>1
<1>6. \A x \in H : x.node = i => x.led # t
  <2> SUFFICES ASSUME NEW x \in H, x.node = i, x.led = t
               PROVE  FALSE
    OBVIOUS
  <2>1. PICK e \in elected : e.node = i /\ e.term = t
    BY <1>1 DEF Logs, Led
  <2>2. e.term <= term[i] /\ (e.term = term[i] => states[i] # "Candidate")
    BY <1>0, <2>1 DEF WinnersStay
  <2> QED BY <1>5, <2>1, <2>2
<1>7. \A s \in Nat : One(s)' => One(s)
  <2>1. elected \subseteq elected' /\ elected' \subseteq Election
    BY <1>0, <1>4 DEF Types, Election
  <2> QED BY <2>1, OneDown DEF One
<1>8. \A s \in Nat : \A r \in Nat : One(s) /\ r <= s => One(r)
  <2>1. elected \subseteq Election
    BY <1>0 DEF Types, Election
  <2> QED BY <2>1, OneDown DEF One
<1>9. ASSUME NEW s \in Nat, One(s)', t <= s
      PROVE  log[i] = <<>> \/ \E x \in H : x.led <= term[i] /\ x.led <= s /\ x.log = log[i]
  <2>1. term[i] <= s
    BY <1>5, <1>9
  <2>2. One(term[i])
    BY <1>5, <1>7, <1>8, <1>9, <2>1
  <2>3. \A x \in H : x.led \in Nat
    BY DEF LedLog
  <2> QED BY <1>1, <1>5, <2>1, <2>2, <2>3 DEF Logs, LogsIn
<1> DEFINE G == H \cup {z}
<1>10. G \in SUBSET LedLog /\ H \subseteq G /\ z \in G
  BY <1>3
<1>11. ASSUME NEW x \in G, NEW s \in Nat, One(s)', x.led <= s
       PROVE  x.log = <<>> \/ \E y \in H : y.led <= s /\ y.log = x.log
  <2>1. CASE x \in H
    BY <1>11, <2>1
  <2>2. CASE x = z
    BY <1>3, <1>9, <1>11, <2>2
  <2> QED BY <2>1, <2>2
<1>12. LeadersIn(G)'
  <2> SUFFICES ASSUME NEW k \in Node, states'[k] = "Leader"
               PROVE  \E x \in G : x.node = k /\ x.led = term'[k] /\ x.log = log[k]
    BY DEF LeadersIn
  <2>1. CASE k = i
    BY <1>3, <1>5, <2>1
  <2>2. CASE k # i
    BY <1>1, <1>5, <2>2 DEF Logs, LeadersIn
  <2> QED BY <2>1, <2>2
<1>13. Led(G)'
  BY <1>1, <1>3, <1>4 DEF Logs, Led
<1>14. Growing(G)'
  <2>1. ASSUME NEW x \in G, NEW y \in G, x.node = y.node, x.led = y.led
        PROVE  PrefixOf(x.log, y.log) \/ PrefixOf(y.log, x.log)
    <3>1. CASE x \in H /\ y \in H
      BY <1>1, <2>1, <3>1 DEF Logs, Growing
    <3>2. CASE x = z \/ y = z
      <4>1. x = y
        BY <1>3, <1>6, <2>1, <3>2
      <4>2. x.log \in Seq(Entry)
        BY <1>10 DEF LedLog
      <4>3. Len(x.log) \in Nat
        BY <4>2, LenProperties
      <4> QED BY <4>1, <4>3 DEF PrefixOf
    <3> QED BY <3>1, <3>2
  <2>2. ASSUME NEW k \in Node, states'[k] = "Leader", NEW x \in G, x.node = k, x.led = term'[k]
        PROVE  PrefixOf(x.log, log[k])
    <3>1. CASE k = i
      <4>1. x = z
        BY <1>5, <1>6, <2>2, <3>1
      <4>2. Len(log[i]) \in Nat
        BY <1>3, LenProperties
      <4> QED BY <1>3, <3>1, <4>1, <4>2 DEF PrefixOf
    <3>2. CASE k # i
      BY <1>1, <1>3, <1>5, <2>2, <3>2 DEF Logs, Growing
    <3> QED BY <3>1, <3>2
  <2> QED BY <2>1, <2>2 DEF Growing
<1>15. LogsIn(G)'
  <2> SUFFICES ASSUME NEW k \in Node, One(term[k])', log[k] # <<>>
               PROVE  \E x \in G : x.led <= term'[k] /\ x.log = log[k]
    BY DEF LogsIn
  <2>1. CASE k = i
    BY <1>3, <1>5, <2>1
  <2>2. CASE k # i
    <3>1. One(term[k]) /\ term'[k] = term[k]
      BY <1>5, <1>7, <2>2
    <3> QED BY <1>1, <3>1 DEF Logs, LogsIn
  <2> QED BY <2>1, <2>2
<1>16. EntriesIn(G)'
  <2> SUFFICES ASSUME NEW x \in G, One(x.led)', NEW k \in 1 .. Len(x.log)
               PROVE  \E y \in H : y.led = x.log[k].term /\ k <= Len(y.log)
    BY DEF EntriesIn
  <2>1. x.led \in Nat /\ x.log \in Seq(Entry)
    BY <1>10 DEF LedLog
  <2>2. PICK w \in H : w.led <= x.led /\ w.log = x.log
    <3>1. x.log # <<>>
      OBVIOUS
    <3> QED BY <1>11, <2>1, <3>1
  <2>3. w.led \in Nat
    BY DEF LedLog
  <2>4. One(w.led)
    BY <1>7, <1>8, <2>1, <2>2, <2>3
  <2> QED BY <1>1, <2>2, <2>4 DEF Logs, EntriesIn
<1>17. AllMatch(G)'
  <2> SUFFICES ASSUME NEW x \in G, NEW y \in G, NEW s \in Nat, One(s)', x.led <= s, y.led <= s
               PROVE  Match(x.log, y.log)
    BY DEF AllMatch
  <2>1. CASE x.log = <<>> \/ y.log = <<>>
    BY <2>1 DEF Match
  <2>2. CASE x.log # <<>> /\ y.log # <<>>
    <3>1. PICK a \in H : a.led <= s /\ a.log = x.log
      BY <1>11, <2>2
    <3>2. PICK b \in H : b.led <= s /\ b.log = y.log
      BY <1>11, <2>2
    <3>3. Match(a.log, b.log)
      BY <1>1, <1>7, <3>1, <3>2 DEF Logs, AllMatch
    <3> QED BY <3>1, <3>2, <3>3
  <2> QED BY <2>1, <2>2
<1> HIDE DEF G
<1>18. \A k, j, s, n : Holds(H, k, j, s, n) => Holds(G, k, j, s, n)'
  <2> SUFFICES ASSUME NEW k, NEW j, NEW s, NEW n, Holds(H, k, j, s, n)
               PROVE  Holds(G, k, j, s, n)'
    OBVIOUS
  <2>1. term'[j] >= term[j] /\ elected \subseteq elected'
    BY <1>4, <1>5 DEF Holds
  <2>2. log' = log
    OBVIOUS
  <2>3. \A m \in messages' : m.type = "AppendEntries" => m \in messages
    OBVIOUS
  <2> QED BY <1>0, <1>10, <2>1, <2>2, <2>3, HoldsKept
<1>19. CallsIn(G)'
  <2>1. \A m : \A x : Carries(m, x)' = Carries(m, x)
    BY DEF Carries, End
  <2> QED BY <1>1, <1>10, <2>1 DEF Logs, CallsIn
<1>20. RepliesTrue(G)'
  <2> SUFFICES ASSUME NEW m \in messages', m.type = "AppendReply", m.success
               PROVE  Holds(G, m.call.from, m.call.to, m.call.term, m.prevIndex + m.len)'
    BY DEF RepliesTrue
  <2>1. Holds(H, m.call.from, m.call.to, m.call.term, m.prevIndex + m.len)
    BY <1>1 DEF Logs, RepliesTrue
  <2> QED BY <1>18, <2>1
<1>21. Logs(G)'
  BY <1>12, <1>13, <1>14, <1>15, <1>16, <1>17, <1>19, <1>20 DEF Logs
<1> DEFINE first == [p \in DOMAIN peers[i] |-> LastIndex(i) + 1]
           none == [p \in DOMAIN peers[i] |-> 0]
<1>22. /\ DOMAIN peers[i] = 1 .. Len(peers[i]) /\ Len(peers[i]) \in Nat
       /\ Len(log[i]) \in Nat /\ LastIndex(i) = Len(log[i])
  BY <1>0, LenProperties DEF Types, LastIndex
<1>23. /\ none \in Seq(Nat) /\ Len(none) = Len(peers[i])
       /\ \A p \in 1 .. Len(peers[i]) : none[p] = 0 /\ first[p] = Len(log[i]) + 1
  BY <1>22
<1>24. /\ nextIndex' = [nextIndex EXCEPT ![i] = first]
       /\ matchIndex' = [matchIndex EXCEPT ![i] = none]
  BY DEF BecomeLeader
<1> HIDE DEF first, none
<1>25. /\ nextIndex'[i] = first /\ matchIndex'[i] = none
       /\ \A k \in Node \ {i} : nextIndex'[k] = nextIndex[k] /\ matchIndex'[k] = matchIndex[k]
  BY <1>0, <1>24 DEF Types, MatchTyped
<1>26. MatchTyped'
  BY <1>0, <1>23, <1>24 DEF MatchTyped, memberVars
<1>27. NextInside'
  <2> SUFFICES ASSUME NEW k \in Node, states'[k] = "Leader", NEW p \in 1 .. Len(peers[k])
               PROVE  nextIndex'[k][p] <= Len(log[k]) + 1
    BY DEF NextInside, memberVars
  <2>1. CASE k = i
    BY <1>22, <1>23, <1>25, <2>1
  <2>2. CASE k # i
    BY <1>0, <1>5, <1>25, <2>2 DEF NextInside
  <2> QED BY <2>1, <2>2
<1>28. BooksTrue(G)'
  <2> SUFFICES ASSUME NEW k \in Node, NEW j \in Node, NEW s \in Nat, NEW n \in Nat,
                      Booked(k, j, s, n)'
               PROVE  Holds(G, k, j, s, n)'
    BY DEF BooksTrue
  <2>1. PICK p \in 1 .. Len(peers[k]) :
           p # me[k] /\ j = peers[k][p] /\ n = matchIndex'[k][p]
    BY DEF Booked, memberVars
  <2>2. states'[k] = "Leader" /\ s = term'[k] /\ n > 0
    BY DEF Booked
  <2>3. k # i
    BY <1>23, <1>25, <2>1, <2>2
  <2>4. Booked(k, j, s, n)
    BY <1>5, <1>25, <2>1, <2>2, <2>3 DEF Booked
  <2>5. Holds(H, k, j, s, n)
    BY <1>1, <2>4 DEF BooksTrue
  <2> QED BY <1>18, <2>5
<1>29. WinnersStay'
  <2> SUFFICES ASSUME NEW e \in elected'
               PROVE  /\ e.term <= term'[e.node]
                      /\ e.term = term'[e.node] => states'[e.node] # "Candidate"
    BY DEF WinnersStay
  <2>1. CASE e.node = i
    <3>1. e.term <= t
      <4>1. CASE e = v
        BY <1>4, <4>1
      <4>2. CASE e \in elected
        <5>1. e.term <= term[i] /\ e.term \in Nat
          BY <1>0, <2>1, <4>2 DEF WinnersStay, Types
        <5> QED BY <1>5, <5>1
      <4> QED BY <1>4, <4>1, <4>2
    <3> QED BY <1>5, <2>1, <3>1
  <2>2. CASE e.node # i
    <3>1. e \in elected
      BY <1>4, <2>2
    <3>2. e.node \in Node
      BY <1>0, <3>1 DEF Types
    <3> QED BY <1>0, <1>5, <2>2, <3>1, <3>2 DEF WinnersStay
  <2> QED BY <2>1, <2>2
<1> QED BY <1>10, <1>21, <1>26, <1>27, <1>28, <1>29 DEF HeldInv

LEMMA StartElectionHolds ==
    ASSUME HeldInv, MemberInv', Remembered, NEW i \in Node, StartElection(i)
    PROVE  HeldInv'
<1> DEFINE t == term[i] + 1
           c == [peers |-> peers[i], gen |-> peerGen[i], me |-> me[i]]
<1>0. Types
  BY DEF HeldInv, MemberInv
<1>1. t \in Nat /\ t > term[i] /\ t >= term[i] /\ term[i] \in Nat
  BY <1>0 DEF Types
<1>2. /\ term' = [term EXCEPT ![i] = t] /\ UNCHANGED <<memberVars, log>>
      /\ states[i] # "Leader"
      /\ \/ BecomeLeader(i, t, c)
         \/ /\ states' = [states EXCEPT ![i] = "Candidate"]
            /\ UNCHANGED <<leaderVars, elected>>
  BY DEF StartElection
<1>3. \A m \in messages' :
         m.type = "AppendEntries" \/ (m.type = "AppendReply" /\ m.success) => m \in messages
  <2>1. Begins(i)
    BY <1>0, StartElectionBegins
  <2>2. \A p : VoteRequest(i, p).type = "RequestVote"
    BY DEF VoteRequest
  <2> QED BY <2>1, <2>2 DEF Begins
<1> HIDE DEF t, c
<1>4. CASE BecomeLeader(i, t, c)
  BY <1>1, <1>2, <1>3, <1>4, WinnerHolds
<1>5. CASE /\ states' = [states EXCEPT ![i] = "Candidate"]
           /\ UNCHANGED <<leaderVars, elected>>
  <2>1. ASSUME NEW j \in Node
        PROVE  /\ term'[j] >= term[j]
               /\ states'[j] = "Leader" => states[j] = "Leader" /\ term'[j] = term[j]
               /\ states'[j] = "Candidate" =>
                     (states[j] = "Candidate" /\ term'[j] = term[j]) \/ term'[j] > term[j]
    <3>1. /\ term[j] \in Nat /\ term'[j] = IF j = i THEN t ELSE term[j]
          /\ states'[j] = IF j = i THEN "Candidate" ELSE states[j]
      BY <1>0, <1>2, <1>5 DEF Types
    <3> QED BY <1>1, <3>1
  <2>2. Calm
    BY <1>2, <1>3, <1>5, <2>1 DEF Calm
  <2> QED BY <1>2, <1>5, <2>2, CalmKeeps
<1> QED BY <1>2, <1>4, <1>5

LEMMA VoteReplyHolds ==
    ASSUME HeldInv, MemberInv', Remembered, NEW m \in messages, VoteReply(m)
    PROVE  HeldInv'
<1>0. Types
  BY DEF HeldInv, MemberInv
<1>1. PICK i \in Node : i = m.to
  BY <1>0 DEF Types, VoteReply, MessageOk
<1>2. m.term \in Nat /\ term[i] \in Nat
  BY <1>0 DEF Types, VoteReply, MessageOk
<1>3. UNCHANGED <<memberVars, log>> /\ \A n \in messages' : n \in messages
  BY DEF VoteReply, Discard
<1>4. CASE UNCHANGED <<term, states, leaderVars, elected>>
  <2>1. 0 \in Nat /\ UNCHANGED <<log, elected>> /\ UNCHANGED <<term, states>>
    BY <1>3, <1>4
  <2>2. Calm
    BY <1>0, <1>3, <2>1, FallsBack
  <2> QED BY <1>3, <1>4, <2>2, CalmKeeps
<1>5. CASE /\ m.term > term[i]
           /\ term' = [term EXCEPT ![i] = m.term]
           /\ states' = [states EXCEPT ![i] = "Follower"]
           /\ UNCHANGED <<leaderVars, elected>>
  <2>1. m.term >= term[i] /\ UNCHANGED <<log, elected>>
    BY <1>2, <1>3, <1>5
  <2>2. Calm
    BY <1>0, <1>2, <1>3, <1>5, <2>1, FallsBack
  <2> QED BY <1>3, <1>5, <2>2, CalmKeeps
<1>6. CASE /\ states[i] = "Candidate" /\ BecomeLeader(i, term[i], campaign[i])
           /\ UNCHANGED term
  <2>1. term' = [term EXCEPT ![i] = term[i]]
    BY <1>0, <1>6 DEF Types
  <2>2. states[i] # "Leader" /\ term[i] >= term[i]
    BY <1>2, <1>6
  <2> QED BY <1>2, <1>3, <1>6, <2>1, <2>2, WinnerHolds
<1>7. \/ UNCHANGED <<term, states, leaderVars, elected>>
      \/ /\ m.term > term[i]
         /\ term' = [term EXCEPT ![i] = m.term]
         /\ states' = [states EXCEPT ![i] = "Follower"]
         /\ UNCHANGED <<leaderVars, elected>>
      \/ /\ states[i] = "Candidate" /\ BecomeLeader(i, term[i], campaign[i])
         /\ UNCHANGED term
  BY <1>1 DEF VoteReply, voteVars
<1> QED BY <1>4, <1>5, <1>6, <1>7

-----------------------------------------------------------------------------
(* Entries of a leader *)

\* A new entry is where no other log has one of this term.
LEMMA StartHolds ==
    ASSUME HeldInv, MemberInv', Remembered, NEW i \in Node, NEW change \in Changes, Start(i, change)
    PROVE  HeldInv'
<1>0. Types /\ Types' /\ MatchTyped /\ NextInside /\ WinnersStay
  BY DEF HeldInv, MemberInv
<1>1. PICK H \in SUBSET LedLog : Logs(H) /\ BooksTrue(H)
  BY DEF HeldInv
<1>2. PICK e : e = [term |-> term[i], change |-> change]
  OBVIOUS
<1>3. PICK new : new = Append(log[i], e)
  OBVIOUS
<1>4. /\ states[i] = "Leader" /\ log' = [log EXCEPT ![i] = new]
      /\ UNCHANGED <<memberVars, leaderVars, term, states, elected, messages>>
  BY <1>2, <1>3 DEF Start, voteVars, historyVars
<1>5. /\ term[i] \in Nat /\ log[i] \in Seq(Entry) /\ e \in Entry /\ e.term = term[i]
      /\ Len(log[i]) \in Nat
  BY <1>0, <1>2, LenProperties DEF Types, Entry
<1>6. /\ new \in Seq(Entry) /\ Len(new) = Len(log[i]) + 1 /\ new[Len(log[i]) + 1] = e
      /\ \A k \in 1 .. Len(log[i]) : new[k] = log[i][k]
  BY <1>3, <1>5, AppendProperties
<1>7. log'[i] = new /\ \A k \in Node \ {i} : log'[k] = log[k]
  BY <1>0, <1>4 DEF Types
<1>8. PICK z : z = [node |-> i, led |-> term[i], log |-> new]
  OBVIOUS
<1>9. z \in LedLog /\ z.node = i /\ z.led = term[i] /\ z.log = new
  BY <1>5, <1>6, <1>8 DEF LedLog
<1>10. \A s : One(s)' <=> One(s)
  BY <1>4 DEF One
<1>11. \A s \in Nat : \A r \in Nat : One(s) /\ r <= s => One(r)
  <2>1. elected \subseteq Election
    BY <1>0 DEF Types, Election
  <2> QED BY <2>1, OneDown DEF One
<1>12. \A x \in H : /\ x.led \in Nat /\ x.log \in Seq(Entry) /\ Len(x.log) \in Nat
                    /\ DOMAIN x.log = 1 .. Len(x.log)
  BY LenProperties DEF LedLog
<1>13. PICK x0 \in H : x0.node = i /\ x0.led = term[i] /\ x0.log = log[i]
  BY <1>1, <1>4 DEF Logs, LeadersIn
<1> DEFINE G == H \cup {z}
<1>14. G \in SUBSET LedLog /\ H \subseteq G /\ z \in G
  BY <1>9
<1>15. LeadersIn(G)'
  <2> SUFFICES ASSUME NEW k \in Node, states[k] = "Leader"
               PROVE  \E x \in G : x.node = k /\ x.led = term[k] /\ x.log = log'[k]
    BY <1>4 DEF LeadersIn
  <2>1. CASE k = i
    BY <1>7, <1>9, <2>1
  <2>2. CASE k # i
    BY <1>1, <1>7, <2>2 DEF Logs, LeadersIn
  <2> QED BY <2>1, <2>2
<1>16. Led(G)'
  BY <1>1, <1>4, <1>9, <1>13 DEF Logs, Led
<1>17. \A x \in H : x.node = i /\ x.led = term[i] => PrefixOf(x.log, new)
  <2> SUFFICES ASSUME NEW x \in H, x.node = i, x.led = term[i]
               PROVE  PrefixOf(x.log, new)
    OBVIOUS
  <2>1. Len(x.log) <= Len(log[i]) /\ \A k \in 1 .. Len(x.log) : x.log[k] = log[i][k]
    BY <1>1, <1>4 DEF Logs, Growing, PrefixOf
  <2>2. Len(x.log) \in Nat
    BY <1>12
  <2> QED BY <1>5, <1>6, <2>1, <2>2 DEF PrefixOf
<1>18. PrefixOf(new, new)
  BY <1>5, <1>6 DEF PrefixOf
<1>19. Growing(G)'
  <2>1. ASSUME NEW x \in G, NEW y \in G, x.node = y.node, x.led = y.led
        PROVE  PrefixOf(x.log, y.log) \/ PrefixOf(y.log, x.log)
    <3>1. CASE x \in H /\ y \in H
      BY <1>1, <2>1, <3>1 DEF Logs, Growing
    <3>2. CASE x = z
      BY <1>9, <1>17, <1>18, <2>1, <3>2
    <3>3. CASE y = z
      BY <1>9, <1>17, <1>18, <2>1, <3>3
    <3> QED BY <3>1, <3>2, <3>3
  <2>2. ASSUME NEW k \in Node, states[k] = "Leader", NEW x \in G, x.node = k, x.led = term[k]
        PROVE  PrefixOf(x.log, log'[k])
    <3>1. CASE k = i
      BY <1>7, <1>9, <1>17, <1>18, <2>2, <3>1
    <3>2. CASE k # i
      BY <1>1, <1>7, <1>9, <2>2, <3>2 DEF Logs, Growing
    <3> QED BY <3>1, <3>2
  <2> QED BY <1>4, <2>1, <2>2 DEF Growing
<1>20. LogsIn(G)'
  <2> SUFFICES ASSUME NEW k \in Node, One(term[k]), log'[k] # <<>>
               PROVE  \E x \in G : x.led <= term[k] /\ x.log = log'[k]
    BY <1>4, <1>10 DEF LogsIn
  <2>1. CASE k = i
    BY <1>5, <1>7, <1>9, <2>1
  <2>2. CASE k # i
    BY <1>1, <1>7, <2>2 DEF Logs, LogsIn
  <2> QED BY <2>1, <2>2
<1>21. EntriesIn(G)'
  <2> SUFFICES ASSUME NEW x \in G, One(x.led), NEW k \in 1 .. Len(x.log)
               PROVE  \E y \in G : y.led = x.log[k].term /\ k <= Len(y.log)
    BY <1>10 DEF EntriesIn
  <2>1. CASE x \in H
    BY <1>1, <2>1 DEF Logs, EntriesIn
  <2>2. CASE x = z /\ k \in 1 .. Len(log[i])
    <3>1. One(x0.led) /\ k \in 1 .. Len(x0.log) /\ x.log[k] = x0.log[k]
      BY <1>6, <1>9, <1>13, <2>2
    <3> QED BY <1>1, <3>1 DEF Logs, EntriesIn
  <2>3. CASE x = z /\ k = Len(log[i]) + 1
    <3>1. z.led = x.log[k].term /\ k <= Len(z.log)
      BY <1>5, <1>6, <1>9, <2>3
    <3> QED BY <3>1
  <2>4. x = z => k \in 1 .. Len(log[i]) \/ k = Len(log[i]) + 1
    BY <1>5, <1>6, <1>9
  <2> QED BY <2>1, <2>2, <2>3, <2>4
<1>22. ASSUME NEW y \in H, NEW s \in Nat, One(s), y.led <= s, term[i] <= s,
              NEW k \in 1 .. Len(y.log), k <= Len(new), y.log[k].term = new[k].term
       PROVE  \A h \in 1 .. k : y.log[h] = new[h]
  <2>1. k # Len(log[i]) + 1
    <3> SUFFICES ASSUME k = Len(log[i]) + 1
                 PROVE  FALSE
      OBVIOUS
    <3>1. y.log[k].term = term[i]
      BY <1>5, <1>6, <1>22
    <3>2. One(y.led)
      BY <1>11, <1>12, <1>22
    <3>3. PICK w \in H : w.led = term[i] /\ k <= Len(w.log)
      BY <1>1, <3>1, <3>2 DEF Logs, EntriesIn
    <3>4. w.node = i
      <4>1. \E a \in elected : a.node = w.node /\ a.term = term[i]
        BY <1>1, <3>3 DEF Logs, Led
      <4>2. \E b \in elected : b.node = i /\ b.term = term[i]
        BY <1>1, <1>13 DEF Logs, Led
      <4> QED BY <1>22, <4>1, <4>2 DEF One, OneIn
    <3>5. Len(w.log) <= Len(log[i])
      BY <1>1, <1>4, <3>3, <3>4 DEF Logs, Growing, PrefixOf
    <3> QED BY <1>5, <1>12, <3>3, <3>5
  <2>2. k \in 1 .. Len(y.log) /\ k \in 1 .. Len(log[i])
    BY <1>5, <1>6, <1>12, <1>22, <2>1
  <2>3. Match(y.log, log[i])
    BY <1>1, <1>13, <1>22 DEF Logs, AllMatch
  <2>4. y.log[k].term = log[i][k].term
    BY <1>6, <1>22, <2>2
  <2>5. \A h \in 1 .. k : y.log[h] = log[i][h]
    BY <2>2, <2>3, <2>4 DEF Match
  <2> QED BY <1>5, <1>6, <2>2, <2>5
<1>23. AllMatch(G)'
  <2> SUFFICES ASSUME NEW x \in G, NEW y \in G, NEW s \in Nat, One(s), x.led <= s, y.led <= s
               PROVE  Match(x.log, y.log)
    BY <1>10 DEF AllMatch
  <2>1. CASE x \in H /\ y \in H
    BY <1>1, <2>1 DEF Logs, AllMatch
  <2>2. CASE x = y
    BY <2>2 DEF Match
  <2>3. CASE x \in H /\ y = z
    BY <1>9, <1>22, <2>3 DEF Match
  <2>4. CASE x = z /\ y \in H
    <3> SUFFICES ASSUME NEW k \in 1 .. Len(new), k <= Len(y.log), new[k].term = y.log[k].term
                 PROVE  \A h \in 1 .. k : new[h] = y.log[h]
      BY <1>9, <2>4 DEF Match
    <3>1. k \in 1 .. Len(y.log) /\ k <= Len(new)
      BY <1>5, <1>6, <1>12, <2>4
    <3> QED BY <1>9, <1>22, <2>4, <3>1
  <2> QED BY <2>1, <2>2, <2>3, <2>4
<1> HIDE DEF G
<1>24. \A k, j, s, n : Holds(H, k, j, s, n) => Holds(G, k, j, s, n)'
  <2> SUFFICES ASSUME NEW k, NEW j, NEW s, NEW n, Holds(H, k, j, s, n)
               PROVE  Holds(G, k, j, s, n)'
    OBVIOUS
  <2>1. j \in Node /\ n \in Nat /\ elected \subseteq elected'
    BY <1>4 DEF Holds
  <2>2. term'[j] >= term[j] /\ Len(log[j]) \in Nat
    <3>1. term[j] \in Nat /\ log[j] \in Seq(Entry)
      BY <1>0, <2>1 DEF Types
    <3> QED BY <1>4, <3>1, LenProperties
  <2>3. /\ Len(log'[j]) >= Len(log[j])
        /\ \A h \in 1 .. Len(log[j]) : log'[j][h] = log[j][h]
    BY <1>5, <1>6, <1>7, <2>1, <2>2
  <2>4. ASSUME NEW x \in H, n <= Len(log[j]), \A h \in 1 .. n : log[j][h] = x.log[h]
        PROVE  n <= Len(log'[j]) /\ \A h \in 1 .. n : log'[j][h] = x.log[h]
    <3>1. Len(log'[j]) \in Nat
      <4>1. log'[j] \in Seq(Entry)
        BY <1>0, <2>1 DEF Types
      <4> QED BY <4>1, LenProperties
    <3> QED BY <2>1, <2>2, <2>3, <2>4, <3>1
  <2>5. messages' = messages
    BY <1>4
  <2> QED BY <1>0, <1>14, <2>1, <2>2, <2>4, <2>5, HoldsKept
<1>25. CallsIn(G)'
  <2>1. \A m : \A x : Carries(m, x)' = Carries(m, x)
    BY DEF Carries, End
  <2> QED BY <1>1, <1>4, <1>14, <2>1 DEF Logs, CallsIn
<1>26. RepliesTrue(G)'
  <2> SUFFICES ASSUME NEW m \in messages', m.type = "AppendReply", m.success
               PROVE  Holds(G, m.call.from, m.call.to, m.call.term, m.prevIndex + m.len)'
    BY DEF RepliesTrue
  <2>1. Holds(H, m.call.from, m.call.to, m.call.term, m.prevIndex + m.len)
    BY <1>1, <1>4 DEF Logs, RepliesTrue
  <2> QED BY <1>24, <2>1
<1>27. Logs(G)'
  BY <1>15, <1>16, <1>19, <1>20, <1>21, <1>23, <1>25, <1>26 DEF Logs
<1>28. BooksTrue(G)'
  <2> SUFFICES ASSUME NEW k \in Node, NEW j \in Node, NEW s \in Nat, NEW n \in Nat,
                      Booked(k, j, s, n)'
               PROVE  Holds(G, k, j, s, n)'
    BY DEF BooksTrue
  <2>1. Booked(k, j, s, n)
    BY <1>4 DEF Booked, memberVars, leaderVars
  <2>2. Holds(H, k, j, s, n)
    BY <1>1, <2>1 DEF BooksTrue
  <2> QED BY <1>24, <2>2
<1>29. MatchTyped' /\ WinnersStay'
  BY <1>0, <1>4 DEF MatchTyped, WinnersStay, memberVars, leaderVars
<1>30. NextInside'
  <2> SUFFICES ASSUME NEW k \in Node, states[k] = "Leader", NEW p \in 1 .. Len(peers[k])
               PROVE  nextIndex[k][p] <= Len(log'[k]) + 1
    BY <1>4 DEF NextInside, memberVars, leaderVars
  <2>1. nextIndex[k][p] <= Len(log[k]) + 1
    BY <1>0 DEF NextInside
  <2>2. CASE k # i
    BY <1>7, <2>1, <2>2
  <2>3. CASE k = i
    <3>1. nextIndex[k] \in Seq(Nat) /\ Len(nextIndex[k]) = Len(peers[k])
      BY <1>0 DEF Types
    <3>2. nextIndex[k][p] \in Nat
      BY <3>1, LenProperties
    <3> QED BY <1>5, <1>6, <1>7, <2>1, <2>3, <3>2
  <2> QED BY <2>2, <2>3
<1> QED BY <1>14, <1>27, <1>28, <1>29, <1>30 DEF HeldInv

-----------------------------------------------------------------------------
(* Calls *)

LEMMA TailFacts ==
    ASSUME NEW S, NEW list \in Seq(S), NEW p \in Nat, p <= Len(list)
    PROVE  /\ SubSeq(list, p + 1, Len(list)) \in Seq(S)
           /\ Len(SubSeq(list, p + 1, Len(list))) = Len(list) - p
           /\ \A k \in 1 .. Len(list) - p : SubSeq(list, p + 1, Len(list))[k] = list[p + k]
<1>1. Len(list) \in Nat
  BY LenProperties
<1>2. \A k \in p + 1 .. Len(list) : list[k] \in S
  BY <1>1, LenProperties
<1> PICK tail : tail = SubSeq(list, p + 1, Len(list))
  OBVIOUS
<1>3. /\ tail \in Seq(S)
      /\ Len(tail) = IF p + 1 <= Len(list) THEN Len(list) - (p + 1) + 1 ELSE 0
      /\ \A k \in 1 .. Len(list) - (p + 1) + 1 : tail[k] = list[p + 1 + k - 1]
  BY <1>1, <1>2, SubSeqProperties
<1>4. Len(tail) = Len(list) - p /\ \A k \in 1 .. Len(list) - p : tail[k] = list[p + k]
  BY <1>1, <1>3
<1> QED BY <1>3, <1>4

LEMMA HeadFacts ==
    ASSUME NEW S, NEW list \in Seq(S), NEW n \in Nat, n <= Len(list)
    PROVE  /\ SubSeq(list, 1, n) \in Seq(S) /\ Len(SubSeq(list, 1, n)) = n
           /\ \A k \in 1 .. n : SubSeq(list, 1, n)[k] = list[k]
<1>1. Len(list) \in Nat
  BY LenProperties
<1>2. \A k \in 1 .. n : list[k] \in S
  BY <1>1, LenProperties
<1> PICK head : head = SubSeq(list, 1, n)
  OBVIOUS
<1>3. /\ head \in Seq(S) /\ Len(head) = IF 1 <= n THEN n - 1 + 1 ELSE 0
      /\ \A k \in 1 .. n - 1 + 1 : head[k] = list[1 + k - 1]
  BY <1>1, <1>2, SubSeqProperties
<1>4. Len(head) = n /\ \A k \in 1 .. n : head[k] = list[k]
  BY <1>3
<1> QED BY <1>3, <1>4

\* The call is cut from the log the leader has, which is the longest it had in this term.
LEMMA SendAppendHolds ==
    ASSUME HeldInv, MemberInv', Remembered, NEW i \in Node, NEW p \in DOMAIN peers[i],
           SendAppend(i, p)
    PROVE  HeldInv'
<1>0. Types /\ Types' /\ MatchTyped /\ NextInside /\ WinnersStay
  BY DEF HeldInv, MemberInv
<1>1. PICK H \in SUBSET LedLog : Logs(H) /\ BooksTrue(H)
  BY DEF HeldInv
<1>2. PICK prev : prev = nextIndex[i][p] - 1
  OBVIOUS
<1>3. prev \in Int /\ prev <= Len(log[i]) /\ log[i] \in Seq(Entry)
      /\ Len(log[i]) \in Nat /\ LastIndex(i) = Len(log[i])
  <2>1. p \in 1 .. Len(peers[i])
    <3>1. peers[i] \in Seq(Node)
      BY <1>0 DEF Types
    <3> QED BY <3>1, LenProperties
  <2>2. nextIndex[i] \in Seq(Nat) /\ Len(nextIndex[i]) = Len(peers[i])
    BY <1>0 DEF Types
  <2>3. nextIndex[i][p] \in Nat
    BY <2>1, <2>2, LenProperties
  <2>4. nextIndex[i][p] <= Len(log[i]) + 1
    BY <1>0, <2>1 DEF NextInside, SendAppend
  <2>5. log[i] \in Seq(Entry) /\ Len(log[i]) \in Nat
    BY <1>0, LenProperties DEF Types
  <2> QED BY <1>2, <2>3, <2>4, <2>5 DEF LastIndex
<1>4. PICK call : call = [from |-> i, to |-> peers[i][p], peer |-> p, gen |-> peerGen[i],
                          term |-> term[i]]
  OBVIOUS
<1>5. PICK a : a = [type |-> "AppendEntries", call |-> call,
                    prevIndex |-> prev, prevTerm |-> TermAt(i, prev),
                    entries |-> SubSeq(log[i], prev + 1, LastIndex(i)),
                    commit |-> commitIndex[i]]
  OBVIOUS
<1>6. /\ states[i] = "Leader" /\ UNCHANGED <<memberVars, leaderVars, term, states, log, elected>>
      /\ Send({IF prev < 0 THEN [type |-> "InstallSnapshot", call |-> call] ELSE a})
  BY <1>2, <1>4, <1>5 DEF SendAppend, voteVars, historyVars
<1>7. CASE prev < 0
  <2>1. \A m \in messages' : m \in messages \/ m.type = "InstallSnapshot"
    BY <1>6, <1>7 DEF Send
  <2>2. Calm
    <3>1. 0 \in Nat /\ UNCHANGED <<log, elected>> /\ UNCHANGED <<term, states>>
      BY <1>6
    <3>2. \A m \in messages' :
             m.type = "AppendEntries" \/ (m.type = "AppendReply" /\ m.success) => m \in messages
      BY <2>1
    <3> QED BY <1>0, <3>1, <3>2, FallsBack
  <2> QED BY <1>6, <2>2, CalmKeeps
<1>8. CASE ~(prev < 0)
  <2>1. prev \in Nat
    BY <1>3, <1>8
  <2>2. \A m \in messages' : m \in messages \/ m = a
    BY <1>6, <1>8 DEF Send
  <2>3. /\ a.type = "AppendEntries" /\ a.call.from = i /\ a.call.term = term[i]
        /\ a.prevIndex = prev /\ a.prevTerm = TermAt(i, prev)
        /\ a.entries = SubSeq(log[i], prev + 1, LastIndex(i))
    BY <1>4, <1>5
  <2>4. /\ Len(a.entries) = Len(log[i]) - prev
        /\ \A k \in 1 .. Len(log[i]) - prev : a.entries[k] = log[i][prev + k]
    <3> DEFINE tail == SubSeq(log[i], prev + 1, Len(log[i]))
    <3>1. log[i] \in Seq(Entry) /\ prev \in Nat /\ prev <= Len(log[i])
      BY <1>3, <2>1
    <3>2. Len(tail) = Len(log[i]) - prev
      BY ONLY <3>1, TailFacts
    <3>3. \A k \in 1 .. Len(log[i]) - prev : tail[k] = log[i][prev + k]
      BY ONLY <3>1, TailFacts
    <3>4. a.entries = tail
      BY <1>3, <2>3
    <3> HIDE DEF tail
    <3> QED BY <3>2, <3>3, <3>4
  <2>5. End(a) = Len(log[i])
    <3>1. prev + (Len(log[i]) - prev) = Len(log[i])
      BY <1>3, <2>1
    <3>2. End(a) = a.prevIndex + Len(a.entries)
      BY DEF End
    <3> QED BY <2>3, <2>4, <3>1, <3>2
  <2>6. PICK x0 \in H : x0.node = i /\ x0.led = term[i] /\ x0.log = log[i]
    BY <1>1, <1>6 DEF Logs, LeadersIn
  <2>7. Carries(a, x0)
    BY <2>3, <2>4, <2>5, <2>6 DEF Carries, TermAt
  <2>8. \A s : One(s)' <=> One(s)
    BY <1>6 DEF One
  <2>9. \A k, j, s, n : Holds(H, k, j, s, n) => Holds(H, k, j, s, n)'
    <3> SUFFICES ASSUME NEW k, NEW j, NEW s, NEW n, Holds(H, k, j, s, n)
                 PROVE  Holds(H, k, j, s, n)'
      OBVIOUS
    <3>1. elected \subseteq elected' /\ log' = log /\ j \in Node /\ n \in Nat
      BY <1>6 DEF Holds
    <3>2. term'[j] >= term[j]
      <4>1. term[j] \in Nat
        BY <1>0, <3>1 DEF Types
      <4> QED BY <1>6, <4>1
    <3>3. ASSUME k = i, s = term[i]
          PROVE  n <= End(a)
      <4>1. PICK x \in H : x.node = k /\ x.led = s /\ n <= Len(x.log)
        BY DEF Holds
      <4>2. Len(x.log) <= Len(log[i])
        BY <1>1, <1>6, <3>3, <4>1 DEF Logs, Growing, PrefixOf
      <4>3. Len(x.log) \in Nat
        <5>1. x.log \in Seq(Entry)
          BY DEF LedLog
        <5> QED BY <5>1, LenProperties
      <4> QED BY <1>3, <2>5, <3>1, <4>1, <4>2, <4>3
    <3>4. \A m \in messages' :
             m.type = "AppendEntries" /\ m.call.from = k /\ m.call.to = j /\ m.call.term = s
             => m \in messages \/ n <= End(m)
      BY <2>2, <2>3, <3>3
    <3> QED BY <1>0, <3>1, <3>2, <3>4, HoldsKept
  <2>10. LeadersIn(H)' /\ Led(H)' /\ Growing(H)'
    BY <1>1, <1>6 DEF Logs, LeadersIn, Led, Growing
  <2>11. LogsIn(H)' /\ EntriesIn(H)' /\ AllMatch(H)'
    BY <1>1, <1>6, <2>8 DEF Logs, LogsIn, EntriesIn, AllMatch
  <2>12. CallsIn(H)'
    <3>1. \A m : \A x : Carries(m, x)' = Carries(m, x)
      BY DEF Carries, End
    <3> QED BY <1>1, <2>2, <2>7, <3>1 DEF Logs, CallsIn
  <2>13. RepliesTrue(H)'
    <3> SUFFICES ASSUME NEW m \in messages', m.type = "AppendReply", m.success
                 PROVE  Holds(H, m.call.from, m.call.to, m.call.term, m.prevIndex + m.len)'
      BY DEF RepliesTrue
    <3>1. m \in messages
      BY <2>2, <2>3
    <3>2. Holds(H, m.call.from, m.call.to, m.call.term, m.prevIndex + m.len)
      BY <1>1, <3>1 DEF Logs, RepliesTrue
    <3> QED BY <2>9, <3>2
  <2>14. BooksTrue(H)'
    <3> SUFFICES ASSUME NEW k \in Node, NEW j \in Node, NEW s \in Nat, NEW n \in Nat,
                        Booked(k, j, s, n)'
                 PROVE  Holds(H, k, j, s, n)'
      BY DEF BooksTrue
    <3>1. Booked(k, j, s, n)
      BY <1>6 DEF Booked, memberVars, leaderVars
    <3>2. Holds(H, k, j, s, n)
      BY <1>1, <3>1 DEF BooksTrue
    <3> QED BY <2>9, <3>2
  <2>15. MatchTyped' /\ WinnersStay' /\ NextInside'
    BY <1>0, <1>6 DEF MatchTyped, WinnersStay, NextInside, memberVars, leaderVars
  <2> QED BY <2>10, <2>11, <2>12, <2>13, <2>14, <2>15 DEF HeldInv, Logs
<1> QED BY <1>7, <1>8

-----------------------------------------------------------------------------
(* Calls that are accepted *)

\* A log that matches the one the entries are from becomes that one.
LEMMA MergedIs ==
    ASSUME Types, NEW i \in Node, NEW m, m.prevIndex \in Nat, m.entries \in Seq(Entry),
           m.prevIndex <= LastIndex(i), m.entries # <<>>, NEW y \in Seq(Entry),
           End(m) = Len(y), \A k \in 1 .. Len(m.entries) : m.entries[k] = y[m.prevIndex + k],
           m.prevIndex # 0 => log[i][m.prevIndex].term = y[m.prevIndex].term,
           Match(log[i], y)
    PROVE  Merged(i, m) = y
<1> DEFINE have(k) == /\ m.prevIndex + k <= LastIndex(i)
                      /\ log[i][m.prevIndex + k].term = m.entries[k].term
           same == {n \in 0 .. Len(m.entries) : \A k \in 1 .. n : have(k)}
           kept == CHOOSE n \in same : \A k \in same : k <= n
           L == Len(m.entries)
           c == m.prevIndex + kept
<1>1. log[i] \in Seq(Entry) /\ LastIndex(i) = Len(log[i]) /\ LastIndex(i) \in Nat /\ L \in Nat
      /\ Len(y) \in Nat
  BY LenProperties DEF Types, LastIndex
<1>2. 0 \in same /\ same \subseteq 0 .. L
  BY <1>1
<1>4. kept \in same
  <2> DEFINE T == {L - n : n \in same}
  <2>1. T \in SUBSET Nat /\ T # {}
    <3> HIDE DEF same
    <3> QED BY <1>1, <1>2
  <2>2. PICK x \in T : \A z \in T : x <= z
    BY <2>1, LeastOf
  <2>3. PICK n \in same : x = L - n
    OBVIOUS
  <2>4. \A k \in same : L - n <= L - k
    BY <2>2, <2>3
  <2> HIDE DEF same
  <2>5. \A k \in same : k <= n
    BY <1>1, <1>2, <2>4
  <2> QED BY <2>5
<1>5. kept \in Nat /\ kept <= L /\ \A k \in 1 .. kept : have(k)
  <2> HIDE DEF kept
  <2>1. \A k \in 1 .. kept : have(k)
    BY <1>4
  <2> HIDE DEF same
  <2>2. kept \in Nat /\ kept <= L
    BY <1>1, <1>2, <1>4
  <2> QED BY <2>1, <2>2
<1>6. Merged(i, m) = SubSeq(log[i], 1, c) \o SubSeq(m.entries, kept + 1, L)
  BY DEF Merged
<1> HIDE DEF kept, same
<1>7. c \in Nat /\ c <= LastIndex(i) /\ c <= Len(y) /\ Len(y) = m.prevIndex + L
  <2>1. c \in Nat
    BY <1>5
  <2>2. c <= LastIndex(i)
    <3>1. CASE kept = 0
      BY <3>1
    <3>2. CASE kept # 0
      <4>1. kept \in 1 .. kept
        BY <1>5, <3>2
      <4> QED BY <1>5, <4>1
    <3> QED BY <3>1, <3>2
  <2> QED BY <1>1, <1>5, <2>1, <2>2 DEF End
<1>8. \A k \in 1 .. c : log[i][k] = y[k]
  <2>1. CASE c = 0
    BY <2>1
  <2>2. CASE c # 0
    <3>1. c \in 1 .. Len(log[i]) /\ c <= Len(y)
      BY <1>1, <1>7, <2>2
    <3>2. log[i][c].term = y[c].term
      <4>1. CASE kept = 0
        BY <2>2, <4>1
      <4>2. CASE kept # 0
        <5>1. kept \in 1 .. kept /\ kept \in 1 .. L
          BY <1>1, <1>5, <4>2
        <5> QED BY <1>5, <5>1
      <4> QED BY <4>1, <4>2
    <3> HIDE DEF c
    <3> QED BY <3>1, <3>2 DEF Match
  <2> QED BY <2>1, <2>2
<1>9. PICK a : a = SubSeq(log[i], 1, c)
  OBVIOUS
<1>10. PICK b : b = SubSeq(m.entries, kept + 1, L)
  OBVIOUS
<1>11. a \in Seq(Entry) /\ Len(a) = c /\ \A k \in 1 .. c : a[k] = log[i][k]
  BY <1>1, <1>7, <1>9, HeadFacts
<1>12. /\ b \in Seq(Entry) /\ Len(b) = L - kept
       /\ \A k \in 1 .. L - kept : b[k] = m.entries[kept + k]
  BY <1>5, <1>10, TailFacts
<1>13. /\ a \o b \in Seq(Entry) /\ Len(a \o b) = Len(a) + Len(b)
       /\ \A k \in 1 .. Len(a) + Len(b) :
             (a \o b)[k] = IF k <= Len(a) THEN a[k] ELSE b[k - Len(a)]
  <2>1. a \in Seq(Entry) /\ b \in Seq(Entry)
    BY <1>11, <1>12
  <2> QED BY ONLY <2>1, ConcatProperties
<1>14. Len(a) + Len(b) = Len(y)
  BY <1>1, <1>5, <1>7, <1>11, <1>12
<1>15. ASSUME NEW k \in 1 .. Len(y)
       PROVE  (a \o b)[k] = y[k]
  <2>1. CASE k <= c
    <3>1. k \in 1 .. c
      BY <1>7, <2>1
    <3>2. (a \o b)[k] = a[k]
      BY <1>11, <1>13, <1>14, <2>1
    <3> HIDE DEF c
    <3> QED BY <1>8, <1>11, <3>1, <3>2
  <2>2. CASE ~(k <= c)
    <3>1. (a \o b)[k] = b[k - c]
      BY <1>11, <1>13, <1>14, <2>2
    <3>2. k - c \in 1 .. L - kept /\ kept + (k - c) \in 1 .. L
          /\ m.prevIndex + (kept + (k - c)) = k
      <4>1. /\ m.prevIndex \in Nat /\ L \in Nat /\ kept \in Nat /\ kept <= L
            /\ k \in 1 .. m.prevIndex + L /\ ~(k <= m.prevIndex + kept)
        BY <1>1, <1>5, <1>7, <2>2
      <4> HIDE DEF L
      <4> QED BY ONLY <4>1
    <3>3. b[k - c] = m.entries[kept + (k - c)]
      BY <1>12, <3>2
    <3>4. m.entries[kept + (k - c)] = y[k]
      BY <3>2
    <3> QED BY <3>1, <3>3, <3>4
  <2> QED BY <2>1, <2>2
<1>16. a \o b = y
  BY <1>13, <1>14, <1>15, SeqEqual
<1> QED BY <1>6, <1>9, <1>10, <1>16

\* Node j takes the entries of m.
Takes(m, j, new) ==
    /\ m.type = "AppendEntries" /\ j = m.call.to /\ Overtakes(m)
    /\ m.call.term >= term[j]
    /\ m.prevIndex <= LastIndex(j) /\ TermAt(j, m.prevIndex) = m.prevTerm
    /\ new = Merged(j, m)
    /\ log' = [log EXCEPT ![j] = new]
    /\ Accept(j, m)
    /\ AnswerAppend(m, m.call.term, TRUE, 0)
    /\ UNCHANGED <<memberVars, leaderVars, elected>>

\* It then has the log of the leader that sent them, or what it had, and in any case what m
\* speaks of.
LEMMA TakenAreHeld ==
    ASSUME Types, NEW H \in SUBSET LedLog, Logs(H), NEW m \in messages, NEW j \in Node, NEW new,
           Takes(m, j, new), NEW y \in H, Carries(m, y), One(m.call.term)
    PROVE  /\ new = y.log \/ new = log[j]
           /\ new = <<>> \/ \E x \in H : x.led <= m.call.term /\ x.log = new
           /\ End(m) <= Len(new) /\ \A k \in 1 .. End(m) : new[k] = y.log[k]
<1> DEFINE t == m.call.term
           prev == m.prevIndex
<1>1. /\ t \in Nat /\ term[j] \in Nat /\ term[j] <= t /\ prev \in Nat
      /\ m.entries \in Seq(Entry) /\ log[j] \in Seq(Entry) /\ LastIndex(j) = Len(log[j])
      /\ Len(log[j]) \in Nat /\ Len(m.entries) \in Nat
  <2>1. /\ t \in Nat /\ term[j] \in Nat /\ prev \in Nat
        /\ m.entries \in Seq(Entry) /\ log[j] \in Seq(Entry)
    BY DEF Types, MessageOk, Takes
  <2> QED BY <2>1, LenProperties DEF Takes, LastIndex
<1>2. /\ y.led = t /\ y.log \in Seq(Entry) /\ Len(y.log) \in Nat /\ End(m) = Len(y.log)
      /\ End(m) = prev + Len(m.entries)
  <2>1. y.log \in Seq(Entry)
    BY DEF LedLog
  <2> QED BY <2>1, LenProperties DEF Carries, End
<1>3. log[j] = <<>> \/ \E x \in H : x.led <= t /\ x.log = log[j]
  <2>1. One(term[j])
    <3>1. elected \subseteq Election
      BY DEF Types, Election
    <3> QED BY <1>1, <3>1, OneDown DEF One
  <2>2. \A x \in H : x.led \in Nat
    BY DEF LedLog
  <2> QED BY <1>1, <2>1, <2>2 DEF Logs, LogsIn
<1>4. Match(log[j], y.log)
  <2>1. CASE log[j] = <<>>
    BY <2>1 DEF Match
  <2>2. CASE \E x \in H : x.led <= t /\ x.log = log[j]
    BY <1>1, <1>2, <2>2 DEF Logs, AllMatch
  <2> QED BY <1>3, <2>1, <2>2
<1>5. prev # 0 => log[j][prev].term = y.log[prev].term
  BY DEF Takes, Carries, TermAt
<1>6. CASE m.entries # <<>>
  <2>1. new = y.log
    <3>1. Merged(j, m) = y.log
      <4>1. \A k \in 1 .. Len(m.entries) : m.entries[k] = y.log[m.prevIndex + k]
        BY DEF Carries
      <4>2. m.prevIndex <= LastIndex(j)
        BY DEF Takes
      <4> QED BY <1>1, <1>2, <1>4, <1>5, <1>6, <4>1, <4>2, MergedIs
    <3> QED BY <3>1 DEF Takes
  <2>2. new = <<>> \/ \E x \in H : x.led <= m.call.term /\ x.log = new
    <3>1. y.led <= m.call.term
      BY <1>1, <1>2
    <3> QED BY <2>1, <3>1
  <2>3. End(m) <= Len(new) /\ \A k \in 1 .. End(m) : new[k] = y.log[k]
    <3>1. Len(new) = End(m) /\ Len(new) \in Nat
      BY <1>2, <2>1
    <3>2. \A k : new[k] = y.log[k]
      BY <2>1
    <3> QED BY <3>1, <3>2
  <2> QED BY <2>1, <2>2, <2>3
<1>7. CASE m.entries = <<>>
  <2>1. new = log[j]
    BY <1>7 DEF Takes, Merged
  <2>2. End(m) = prev /\ prev <= Len(log[j]) /\ prev <= Len(y.log)
    <3>1. Len(m.entries) = 0
      BY <1>7
    <3> QED BY <1>1, <1>2, <3>1 DEF Takes
  <2>3. \A k \in 1 .. prev : log[j][k] = y.log[k]
    <3>1. CASE prev = 0
      BY <3>1
    <3>2. CASE prev # 0
      <4>1. prev \in 1 .. Len(log[j])
        BY <1>1, <2>2, <3>2
      <4> HIDE DEF prev
      <4> QED BY <1>4, <1>5, <2>2, <3>2, <4>1 DEF Match
    <3> QED BY <3>1, <3>2
  <2> QED BY <1>3, <2>1, <2>2, <2>3
<1> QED BY <1>6, <1>7

LEMMA TakesHolds ==
    ASSUME HeldInv, MemberInv', Remembered, late' = {}, NEW m \in messages, NEW j \in Node,
           NEW new, Takes(m, j, new)
    PROVE  HeldInv'
<1>0. Types /\ Types' /\ MatchTyped /\ NextInside /\ WinnersStay
  BY DEF HeldInv, MemberInv
<1>1. PICK H \in SUBSET LedLog : Logs(H) /\ BooksTrue(H)
  BY DEF HeldInv
<1>2. PICK y \in H : Carries(m, y)
  BY <1>1 DEF Logs, CallsIn, Takes
<1>3. PICK t \in Nat : t = m.call.term
  BY <1>0 DEF Types, MessageOk, Takes
<1>4. PICK i : i = m.call.from
  OBVIOUS
<1>5. /\ UNCHANGED <<memberVars, leaderVars, elected>>
      /\ term'[j] = t /\ states'[j] = "Follower" /\ log'[j] = new
      /\ \A k \in Node \ {j} : /\ term'[k] = term[k] /\ states'[k] = states[k]
                               /\ log'[k] = log[k]
  <2>1. /\ term' = [term EXCEPT ![j] = t] /\ states' = [states EXCEPT ![j] = "Follower"]
        /\ log' = [log EXCEPT ![j] = new]
    BY <1>3 DEF Takes, Accept
  <2>2. UNCHANGED <<memberVars, leaderVars, elected>>
    BY DEF Takes
  <2>3. /\ term \in [Node -> Nat] /\ log \in [Node -> Seq(Entry)]
        /\ states \in [Node -> {"Follower", "Candidate", "Leader"}]
    BY <1>0 DEF Types
  <2> QED BY <2>1, <2>2, <2>3
<1>6. \A k \in Node : term[k] \in Nat /\ term'[k] \in Nat /\ term'[k] >= term[k]
  <2>1. \A k \in Node : term[k] \in Nat /\ term'[k] \in Nat
    BY <1>0 DEF Types
  <2> QED BY <1>3, <1>5, <2>1 DEF Takes
<1>7. PICK r : /\ messages' = (messages \ {m}) \cup {r}
               /\ r.type = "AppendReply" /\ r.call = m.call
               /\ r.prevIndex = m.prevIndex /\ r.len = Len(m.entries)
  <2> DEFINE q == [type |-> "AppendReply", call |-> m.call, term |-> m.call.term,
                   success |-> TRUE, conflict |-> 0, prevIndex |-> m.prevIndex,
                   len |-> Len(m.entries)]
  <2>1. /\ q.type = "AppendReply" /\ q.call = m.call
        /\ q.prevIndex = m.prevIndex /\ q.len = Len(m.entries)
    OBVIOUS
  <2>2. messages' = (messages \ {m}) \cup {q}
    BY DEF Takes, AnswerAppend, Reply
  <2> HIDE DEF q
  <2> QED BY <2>1, <2>2
<1>8. \A s : One(s)' <=> One(s)
  BY <1>5 DEF One
<1>9. One(t) => /\ new = y.log \/ new = log[j]
                /\ new = <<>> \/ \E x \in H : x.led <= t /\ x.log = new
                /\ End(m) <= Len(new) /\ \A k \in 1 .. End(m) : new[k] = y.log[k]
  BY <1>0, <1>1, <1>2, <1>3, TakenAreHeld
<1>10. y.node = i /\ y.led = t /\ End(m) = Len(y.log) /\ Len(y.log) \in Nat
  <2>1. y.log \in Seq(Entry)
    BY DEF LedLog
  <2> QED BY <1>2, <1>3, <1>4, <2>1, LenProperties DEF Carries
<1>11. LeadersIn(H)' /\ Led(H)' /\ Growing(H)'
  <2>1. LeadersIn(H)'
    <3> SUFFICES ASSUME NEW k \in Node, states'[k] = "Leader"
                 PROVE  \E x \in H : x.node = k /\ x.led = term'[k] /\ x.log = log'[k]
      BY DEF LeadersIn
    <3>1. k # j
      BY <1>5
    <3> QED BY <1>1, <1>5, <3>1 DEF Logs, LeadersIn
  <2>2. Led(H)'
    BY <1>1, <1>5 DEF Logs, Led
  <2>3. ASSUME NEW k \in Node, states'[k] = "Leader", NEW x \in H, x.node = k, x.led = term'[k]
        PROVE  PrefixOf(x.log, log'[k])
    <3>1. k # j
      BY <1>5, <2>3
    <3> QED BY <1>1, <1>5, <2>3, <3>1 DEF Logs, Growing
  <2>4. Growing(H)'
    BY <1>1, <2>3 DEF Logs, Growing
  <2> QED BY <2>1, <2>2, <2>4
<1>12. LogsIn(H)'
  <2> SUFFICES ASSUME NEW k \in Node, One(term'[k]), log'[k] # <<>>
               PROVE  \E x \in H : x.led <= term'[k] /\ x.log = log'[k]
    BY <1>8 DEF LogsIn
  <2>1. CASE k = j
    BY <1>5, <1>9, <2>1
  <2>2. CASE k # j
    BY <1>1, <1>5, <2>2 DEF Logs, LogsIn
  <2> QED BY <2>1, <2>2
<1>13. EntriesIn(H)' /\ AllMatch(H)'
  BY <1>1, <1>8 DEF Logs, EntriesIn, AllMatch
<1>14. CallsIn(H)'
  <2>1. \A n : \A x : Carries(n, x)' = Carries(n, x)
    BY DEF Carries, End
  <2> QED BY <1>1, <1>7, <2>1 DEF Logs, CallsIn
<1>15. \A k, h, s, n : Holds(H, k, h, s, n) => Holds(H, k, h, s, n)'
  <2> SUFFICES ASSUME NEW k, NEW h, NEW s, NEW n, Holds(H, k, h, s, n)
               PROVE  Holds(H, k, h, s, n)'
    OBVIOUS
  <2>1. h \in Node /\ n \in Nat /\ elected \subseteq elected' /\ term'[h] >= term[h]
    BY <1>5, <1>6 DEF Holds
  <2>2. ASSUME One(s)', term[h] = s, term'[h] = s,
               NEW x \in H, x.node = k, x.led = s, n <= Len(x.log),
               n <= Len(log[h]), \A a \in 1 .. n : log[h][a] = x.log[a]
        PROVE  n <= Len(log'[h]) /\ \A a \in 1 .. n : log'[h][a] = x.log[a]
    <3>1. CASE log'[h] = log[h]
      BY <2>2, <3>1
    <3>2. CASE log'[h] # log[h]
      <4>1. h = j /\ s = t /\ One(t)
        BY <1>5, <1>8, <2>1, <2>2, <3>2
      <4>2. new = y.log /\ log'[h] = y.log
        BY <1>5, <1>9, <3>2, <4>1
      <4>3. k = i
        <5>1. \E a \in elected : a.node = k /\ a.term = t
          BY <1>1, <2>2, <4>1 DEF Logs, Led
        <5>2. \E b \in elected : b.node = i /\ b.term = t
          BY <1>1, <1>10 DEF Logs, Led
        <5> QED BY <4>1, <5>1, <5>2 DEF One, OneIn
      <4>4. n <= End(m)
        <5>1. m.entries # <<>>
          <6> SUFFICES ASSUME m.entries = <<>> PROVE FALSE
            OBVIOUS
          <6>1. Merged(j, m) = log[j]
            BY DEF Merged
          <6> QED BY <1>5, <3>2, <4>1, <6>1 DEF Takes
        <5>2. m \notin overtaken
          BY <5>1 DEF Takes, Overtakes
        <5> QED BY <1>3, <1>4, <4>1, <4>3, <5>2 DEF Holds, Takes
      <4>5. PrefixOf(x.log, y.log) \/ PrefixOf(y.log, x.log)
        BY <1>1, <1>10, <2>2, <4>1, <4>3 DEF Logs, Growing
      <4>6. Len(x.log) \in Nat
        <5>1. x.log \in Seq(Entry)
          BY DEF LedLog
        <5> QED BY <5>1, LenProperties
      <4>7. \A a \in 1 .. n : a \in 1 .. Len(x.log) /\ a \in 1 .. Len(y.log)
        BY <1>10, <2>1, <2>2, <4>4, <4>6
      <4> QED BY <1>10, <4>2, <4>4, <4>5, <4>7 DEF PrefixOf
    <3> QED BY <3>1, <3>2
  <2>3. \A b \in messages' : b.type = "AppendEntries" => b \in messages
    BY <1>7
  <2> QED BY <1>0, <2>1, <2>2, <2>3, HoldsKept
<1>16. RepliesTrue(H)'
  <2> SUFFICES ASSUME NEW b \in messages', b.type = "AppendReply", b.success
               PROVE  Holds(H, b.call.from, b.call.to, b.call.term, b.prevIndex + b.len)'
    BY DEF RepliesTrue
  <2>1. CASE b \in messages
    <3>1. Holds(H, b.call.from, b.call.to, b.call.term, b.prevIndex + b.len)
      BY <1>1, <2>1 DEF Logs, RepliesTrue
    <3> QED BY <1>15, <3>1
  <2>2. CASE b = r
    <3>1. /\ b.call.from = i /\ b.call.to = j /\ b.call.term = t
          /\ b.prevIndex + b.len = Len(y.log)
      BY <1>3, <1>4, <1>7, <1>10, <2>2 DEF Takes, End
    <3>2. term'[j] >= t
      BY <1>3, <1>5
    <3>3. One(t)' => Len(y.log) <= Len(log'[j]) /\ \A k \in 1 .. Len(y.log) : log'[j][k] = y.log[k]
      BY <1>5, <1>8, <1>9, <1>10
    <3>4. \A n \in messages' \ overtaken' :
             n.type = "AppendEntries" /\ n.call.from = i /\ n.call.to = j /\ n.call.term = t
             => Len(y.log) <= End(n)
      <4> SUFFICES ASSUME NEW n \in messages', n \notin overtaken', n.type = "AppendEntries",
                          n.call.from = i, n.call.to = j, n.call.term = t
                   PROVE  Len(y.log) <= End(n)
        OBVIOUS
      <4>1. n \in messages
        BY <1>7
      <4>2. ~(End(n) < End(m))
        BY <1>3, <1>4, <4>1 DEF Takes, Overtakes
      <4>3. End(n) \in Nat
        <5>1. n.prevIndex \in Nat /\ n.entries \in Seq(Entry)
          BY <1>0, <4>1 DEF Types, MessageOk
        <5> QED BY <5>1, LenProperties DEF End
      <4> QED BY <1>10, <4>2, <4>3
    <3>5. Len(y.log) <= Len(y.log)
      BY <1>10
    <3>6. Holds(H, i, j, t, Len(y.log))'
      BY <1>10, <3>2, <3>3, <3>4, <3>5 DEF Holds, End
    <3> QED BY <3>1, <3>6
  <2> QED BY <1>7, <2>1, <2>2
<1>17. BooksTrue(H)'
  <2> SUFFICES ASSUME NEW k \in Node, NEW h \in Node, NEW s \in Nat, NEW n \in Nat,
                      Booked(k, h, s, n)'
               PROVE  Holds(H, k, h, s, n)'
    BY DEF BooksTrue
  <2>1. k # j
    BY <1>5 DEF Booked
  <2>2. Booked(k, h, s, n)
    BY <1>5, <2>1 DEF Booked, memberVars, leaderVars
  <2>3. Holds(H, k, h, s, n)
    BY <1>1, <2>2 DEF BooksTrue
  <2> QED BY <1>15, <2>3
<1>18. MatchTyped'
  BY <1>0, <1>5 DEF MatchTyped, memberVars, leaderVars
<1>19. NextInside'
  <2> SUFFICES ASSUME NEW k \in Node, states'[k] = "Leader", NEW p \in 1 .. Len(peers[k])
               PROVE  nextIndex[k][p] <= Len(log'[k]) + 1
    BY <1>5 DEF NextInside, memberVars, leaderVars
  <2>1. k # j
    BY <1>5
  <2> QED BY <1>0, <1>5, <2>1 DEF NextInside
<1>20. WinnersStay'
  <2> SUFFICES ASSUME NEW e \in elected
               PROVE  /\ e.term <= term'[e.node]
                      /\ e.term = term'[e.node] => states'[e.node] # "Candidate"
    BY <1>5 DEF WinnersStay
  <2>1. PICK k \in Node : k = e.node
    BY <1>0 DEF Types
  <2>2. e.term \in Nat /\ e.term <= term[k] /\ (e.term = term[k] => states[k] # "Candidate")
    BY <1>0, <2>1 DEF Types, WinnersStay
  <2>3. CASE k = j
    BY <1>5, <1>6, <2>1, <2>2, <2>3
  <2>4. CASE k # j
    BY <1>5, <2>1, <2>2, <2>4
  <2> QED BY <2>3, <2>4
<1> QED BY <1>11, <1>12, <1>13, <1>14, <1>16, <1>17, <1>18, <1>19, <1>20 DEF HeldInv, Logs

LEMMA AppendEntriesHolds ==
    ASSUME HeldInv, MemberInv', Remembered, late' = {}, NEW m \in messages, AppendEntries(m)
    PROVE  HeldInv'
<1>0. Types
  BY DEF HeldInv, MemberInv
<1>1. PICK j \in Node : j = m.call.to
  BY <1>0 DEF Types, AppendEntries, MessageOk
<1>2. PICK t \in Nat : t = m.call.term
  BY <1>0 DEF Types, AppendEntries, MessageOk
<1>3. UNCHANGED <<memberVars, leaderVars, elected>>
  BY DEF AppendEntries, historyVars
<1>4. CASE /\ \/ UNCHANGED <<term, states>>
              \/ t >= term[j] /\ Accept(j, m)
           /\ log' = log
           /\ \E a, b : AnswerAppend(m, a, FALSE, b)
  <2>1. \/ UNCHANGED <<term, states>>
        \/ /\ t >= term[j]
           /\ term' = [term EXCEPT ![j] = t]
           /\ states' = [states EXCEPT ![j] = "Follower"]
    BY <1>2, <1>4 DEF Accept
  <2>2. \A n \in messages' :
           n.type = "AppendEntries" \/ (n.type = "AppendReply" /\ n.success) => n \in messages
    BY <1>4 DEF AnswerAppend, Reply
  <2>3. Calm
    BY <1>0, <1>3, <1>4, <2>1, <2>2, FallsBack
  <2> QED BY <1>3, <2>3, CalmKeeps
<1>5. CASE Takes(m, j, Merged(j, m))
  BY <1>5, TakesHolds
<1>6. \/ /\ \/ UNCHANGED <<term, states>>
            \/ t >= term[j] /\ Accept(j, m)
         /\ log' = log
         /\ \E a, b : AnswerAppend(m, a, FALSE, b)
      \/ Takes(m, j, Merged(j, m))
  BY <1>1, <1>2, <1>3 DEF AppendEntries, Takes
<1> QED BY <1>4, <1>5, <1>6

-----------------------------------------------------------------------------
(* Every step *)

LEMMA InitHeld ==
    ASSUME Init, IsInjective(FirstPeers)
    PROVE  HeldInv
<1>1. MemberInv
  BY InitHolds
<1>2. MatchTyped
  <2> DEFINE zero == [p \in DOMAIN FirstPeers |-> 0]
  <2>1. DOMAIN FirstPeers = 1 .. Len(FirstPeers) /\ Len(FirstPeers) \in Nat
    BY MembershipAssumption, LenProperties
  <2>2. zero \in Seq(Nat) /\ Len(zero) = Len(FirstPeers)
    BY <2>1
  <2>3. matchIndex = [i \in Node |-> zero] /\ peers = [i \in Node |-> FirstPeers]
    BY DEF Init
  <2> HIDE DEF zero
  <2> QED BY <2>2, <2>3 DEF MatchTyped
<1>3. WinnersStay /\ NextInside
  BY DEF Init, WinnersStay, NextInside
<1>4. Logs({})
  <2>1. LeadersIn({}) /\ Led({}) /\ Growing({}) /\ LogsIn({})
    BY DEF Init, LeadersIn, Led, Growing, LogsIn
  <2>2. EntriesIn({}) /\ AllMatch({}) /\ CallsIn({}) /\ RepliesTrue({})
    BY DEF Init, EntriesIn, AllMatch, CallsIn, RepliesTrue
  <2> QED BY <2>1, <2>2 DEF Logs
<1>5. BooksTrue({})
  BY DEF Init, BooksTrue, Booked
<1> QED BY <1>1, <1>2, <1>3, <1>4, <1>5 DEF HeldInv

LEMMA NextHolds ==
    ASSUME HeldInv, [Next]_vars, late' = {}
    PROVE  HeldInv'
<1>0. MemberInv' /\ Types /\ Remembered
  BY NextKeeps, NextRemembers DEF HeldInv, MemberInv
<1>1. CASE UNCHANGED vars
  <2>1. /\ UNCHANGED <<memberVars, leaderVars>> /\ UNCHANGED <<log, elected>>
        /\ UNCHANGED <<term, states>> /\ messages' = messages
    BY <1>1 DEF vars, voteVars, historyVars
  <2>2. \A j \in Node : term[j] \in Nat
    BY <1>0 DEF Types
  <2>3. Calm
    BY <1>0, <2>1, <2>2 DEF Calm
  <2> QED BY <1>0, <2>1, <2>3, CalmKeeps
<1>2. ASSUME NEW i \in Node,
             \/ StartElection(i) \/ BroadcastAlone(i) \/ Apply(i)
             \/ \E change \in Changes : Start(i, change)
             \/ \E p \in DOMAIN peers[i] : SendAppend(i, p)
      PROVE  HeldInv'
  BY <1>0, <1>2, StartElectionHolds, BroadcastAloneHolds, ApplyHolds, StartHolds,
     SendAppendHolds
<1>3. ASSUME NEW m \in messages,
             \/ RequestVote(m) \/ VoteReply(m) \/ AppendEntries(m)
             \/ AppendReply(m) \/ InstallSnapshot(m) \/ InstallReply(m)
      PROVE  HeldInv'
  BY <1>0, <1>3, RequestVoteHolds, VoteReplyHolds, AppendEntriesHolds, AppendReplyHolds,
     InstallSnapshotHolds, InstallReplyHolds
<1> QED BY <1>1, <1>2, <1>3 DEF Next

\* AppendReply, handleAdd and handleDelete: while members come and go, what a leader counts
\* at a position is held by the peer that is there now, although answers to calls of any
\* age still arrive, calls are lost, delayed and handled in any order, and rows move with
\* the positions (as long as every term so far had one leader, and until a call that brings
\* entries is accepted after a longer one of its leader).
THEOREM BookedIsHeld ==
    ASSUME IsInjective(FirstPeers)
    PROVE  Spec => []MatchedIsHeld
<1> DEFINE K == late = {} => HeldInv
<1>1. Init => K
  BY InitHeld
<1>2. K /\ [Next]_vars => K'
  BY NextHolds, NextRemembers
<1>3. K => MatchedIsHeld
  BY HeldIsMatched DEF MatchedIsHeld
<1> QED BY <1>1, <1>2, <1>3, PTL DEF Spec
=============================================================================
