----------------------------- MODULE ReadsProofs -----------------------------
(***************************************************************************)
(* Proofs about Reads, for a plain cluster (see CommitProofs) of any size. *)
(*                                                                         *)
(* The argument: the index of a read covers all that was told when it      *)
(* began, or else a majority has gone on to later terms, gives no further  *)
(* answer in the term of the read, and leaves too few others to make a     *)
(* majority of fresh answers.                                              *)
(***************************************************************************)
EXTENDS CommitProofs, Reads

-----------------------------------------------------------------------------
\* No commitIndex is beyond some bound.
Bounded == \E b \in Nat : \A j \in Server : commitIndex[j] <= b

\* A leader's commitIndex covers what was committed in its term.
OwnCovered ==
    \A i \in Server : \A c \in committed :
        states[i] = "Leader" /\ c.term = term[i] => c.index <= commitIndex[i]

\* A store is at most one entry behind what its node took, and no node took more than
\* ApplyLoop gave it.
StoresFollow ==
    /\ lastApplied \in [Server -> Nat] /\ handled \in [Server -> Nat]
    /\ \A i \in Server : /\ handled[i] <= lastApplied[i] /\ lastApplied[i] <= handled[i] + 1
                         /\ lastApplied[i] <= Len(applied[i])

\* Somebody's commitIndex covers index n.
Known(n) == \E j \in Server : n <= commitIndex[j]

ReadRecord ==
    [at : {"idle", "waiting", "confirmed", "through the log", "done"},
     node : Server \cup {None}, term : Nat, index : Nat, counter : Nat,
     before : Nat, own : BOOLEAN, old : SUBSET Message, fresh : SUBSET Server,
     seen : Nat, busy : BOOLEAN]

ReadsTyped == reads \in [Reader -> ReadRecord]

\* A majority has left the term of read c, and has given no answer in it since it began.
Refused(c) ==
    \E Q \in SUBSET Server :
        /\ IsMajority(Q) /\ c.node \notin Q /\ c.fresh \cap Q = {}
        /\ \A j \in Q :
              /\ term[j] > c.term
              /\ \A m \in messages :
                    /\ m.type = "AppendReply" /\ m.from = j /\ m.to = c.node
                    /\ m.callTerm = c.term /\ m.success
                    => m \in c.old

\* Either the index of a read covers what was told before, or a majority does not confirm it.
Covers(c) == c.before <= c.index \/ Refused(c)

ReadIsSafe(c) ==
    /\ c.at # "idle" => c.node \in Server
    /\ Known(c.seen)
    /\ c.at = "done" => c.index <= c.seen + IF c.busy THEN 1 ELSE 0
    /\ c.at \in {"waiting", "confirmed", "done"} /\ c.own => Covers(c)

ReadInv ==
    /\ Bounded /\ OwnCovered /\ StoresFollow /\ ReadsTyped
    /\ \A r \in Reader : ReadIsSafe(reads[r])

\* What CommitsAlways proves while no call is late.
CommitAll == CommitInv /\ NoPanic /\ AppliedBelow /\ AppliedWithoutGaps

-----------------------------------------------------------------------------
LEMMA ReadsStepsAreRafts ==
    ASSUME [ReadsNext]_allVars
    PROVE  [Next]_vars
<1>1. ASSUME RaftStep PROVE Next
  BY <1>1 DEF RaftStep, Next
<1>2. ASSUME NEW m \in messages, AppendReply(m) PROVE Next
  BY <1>2 DEF Next
<1>3. ASSUME NEW r \in Reader, GiveUp(r) \/ Get(r) \/ \E i \in Server : ReadIndex(r, i)
      PROVE  UNCHANGED vars
  BY <1>3 DEF GiveUp, Get, ReadIndex
<1>4. ASSUME NEW i \in Server, TakeEntry(i) \/ HandleEntry(i) PROVE UNCHANGED vars
  BY <1>4 DEF TakeEntry, HandleEntry
<1>5. UNCHANGED allVars => UNCHANGED vars
  BY DEF allVars
<1> QED BY <1>1, <1>2, <1>3, <1>4, <1>5 DEF ReadsNext

-----------------------------------------------------------------------------
(* What commitIndex covers *)

LEMMA BoundedStays ==
    ASSUME Step, CommitsMove, Bounded
    PROVE  Bounded'
<1>1. PICK b \in Nat : \A j \in Server : commitIndex[j] <= b
  BY DEF Bounded
<1>2. \A j \in Server : commitIndex[j] \in Nat /\ commitIndex'[j] \in Nat
  BY BaseFacts DEF TypeOK
<1>3. ASSUME NEW i \in Server, \A j \in Server : j # i => commitIndex'[j] = commitIndex[j]
      PROVE  Bounded'
  <2> DEFINE x == commitIndex'[i]
             top == b + x
  <2>1. x \in Nat /\ top \in Nat /\ b <= top /\ x <= top
    BY <1>2
  <2>2. ASSUME NEW j \in Server PROVE commitIndex'[j] <= top
    <3>1. CASE j = i
      BY <2>1, <3>1
    <3>2. CASE j # i
      <4>1. commitIndex'[j] = commitIndex[j] /\ commitIndex[j] <= b /\ commitIndex[j] \in Nat
        BY <1>1, <1>2, <1>3, <3>2
      <4> HIDE DEF top, x
      <4> QED BY <2>1, <4>1
    <3> QED BY <3>1, <3>2
  <2> HIDE DEF top
  <2> QED BY <2>1, <2>2 DEF Bounded
<1>4. PICK any \in Server : TRUE
  BY RaftAssumption
<1> QED BY <1>3, <1>4 DEF CommitsMove, LeaderCommits, Received

LEMMA OwnStaysCovered ==
    ASSUME Step, CommitInv, CommitsMove, OwnCovered
    PROVE  OwnCovered'
<1> SUFFICES ASSUME NEW i \in Server, NEW c \in committed', states'[i] = "Leader",
                    c.term = term'[i]
             PROVE  c.index <= commitIndex'[i]
  BY DEF OwnCovered
<1>1. /\ TypeOK /\ TypeOK' /\ commitIndex[i] \in Nat /\ commitIndex'[i] \in Nat
      /\ c.index \in Nat /\ c.term \in Nat /\ Roles
  BY BaseFacts DEF TypeOK, Step
<1>2. commitIndex'[i] >= commitIndex[i]
  BY CommitIndexGrows
<1>3. CASE c \in committed
  <2>1. CASE states[i] = "Leader" /\ term'[i] = term[i]
    <3>1. c.index <= commitIndex[i]
      BY <1>3, <2>1 DEF OwnCovered
    <3> QED BY <1>1, <1>2, <3>1
  <2>2. CASE Fresh(i)
    <3>1. PICK k \in Nat, Q \in SUBSET Server : Secured(c.index, c.entry, c.term, k, Q)
      BY <1>3 DEF CommitInv, CommittedAreSafe
    <3>2. PICK e \in elected : e.term = c.term
      BY <3>1 DEF Secured, Spread
    <3> QED BY <2>2, <3>2 DEF Fresh
  <2> QED BY <1>1, <2>1, <2>2 DEF Roles
<1>4. ASSUME NEW j \in Server, NEW N \in Nat, LeaderCommits(j, N), c \notin committed
      PROVE  c.index <= commitIndex'[i]
  <2>1. c.index \in 1 .. N /\ c.term = term[j] /\ states[j] = "Leader" /\ commitIndex'[j] = N
    BY <1>4 DEF LeaderCommits
  <2>2. j = i
    <3> DEFINE a == [node |-> j, term |-> term[j]]
               b == [node |-> i, term |-> term'[i]]
    <3>1. a \in elected
      BY <2>1 DEF CommitInv, CommitBase, LogInv, WinnersStay
    <3>2. b \in elected'
      BY DEF Step, LogInv, WinnersStay
    <3>3. a \in elected' /\ a.node = j /\ b.node = i /\ a.term = b.term
      BY <1>1, <2>1, <3>1 DEF Roles
    <3> HIDE DEF a, b
    <3> QED BY <3>2, <3>3 DEF Step, ElectionSafety
  <2> QED BY <1>1, <2>1, <2>2
<1>5. ASSUME NEW m \in messages, Received(m), Accepted(m), Learns(m) PROVE c \in committed
  BY <1>5, LearnerAddsNothing DEF CommitInv
<1> QED BY <1>3, <1>4, <1>5 DEF CommitsMove

\* Entries are not of a later term than the leader that committed them.
LEMMA CommittedTerm ==
    ASSUME CommitInv, NEW c \in committed
    PROVE  c.entry.term \in Nat /\ c.entry.term <= c.term
<1>1. TypeOK /\ LogShape
  BY LogsHaveShape DEF CommitInv, CommitBase, LogInv, ElectionInv, VoteInv
<1>2. PICK k \in Nat, Q \in SUBSET Server : Secured(c.index, c.entry, c.term, k, Q)
  BY DEF CommitInv, CommittedAreSafe
<1>3. PICK j \in Q : TRUE
  BY <1>2, MajoritiesIntersect DEF Secured
<1>4. /\ j \in Server /\ Reaches(j, c.term, k) /\ At(j, c.index) = c.entry
      /\ c.index \in 1 .. k /\ Through(LogPiece(j), c.term, k)
  BY <1>2, <1>3 DEF Secured, Keeps, Spread, Pieces
<1>5. c.term \in Nat /\ c.index \in Nat /\ c.index <= k
  BY <1>1, <1>4 DEF TypeOK
<1>6. k <= LastIndex(j) /\ At(j, k).term = c.term
  BY <1>1, <1>4, <1>5 DEF LogShape
<1> QED BY <1>1, <1>4, <1>5, <1>6 DEF LogShape

\* A leader that committed an entry of its term knows of everything that is committed,
\* or a majority has gone on to later terms.
LEMMA LeaderKnows ==
    ASSUME CommitInv, OwnCovered, NEW i \in Server, states[i] = "Leader", OwnTerm(i),
           NEW n \in Nat, Known(n)
    PROVE  \/ n <= commitIndex[i]
           \/ \E Q \in SUBSET Server : IsMajority(Q) /\ \A j \in Q : term[j] > term[i]
<1>1. TypeOK /\ NoSnapshots /\ LogShape
  BY LogsHaveShape DEF CommitInv, CommitBase, LogInv, ElectionInv, VoteInv
<1>2. /\ commitIndex[i] \in Nat /\ term[i] \in Nat /\ LastIndex(i) \in Nat
      /\ lastSnapIndex[i] = 0
  BY <1>1, LogFacts DEF TypeOK, NoSnapshots
<1>3. CASE n = 0
  BY <1>2, <1>3
<1>4. CASE n > 0
  <2>1. PICK c \in committed : c.index = n
    BY <1>4, CoveredIsHeld DEF Known
  <2>2. c.term \in Nat /\ c.entry.term \in Nat /\ c.entry.term <= c.term
    BY <1>1, CommittedTerm DEF TypeOK
  <2>3. CASE c.term = term[i]
    BY <2>1, <2>3 DEF OwnCovered
  <2>4. CASE c.term > term[i]
    <3>1. PICK k \in Nat, Q \in SUBSET Server : Secured(c.index, c.entry, c.term, k, Q)
      BY DEF CommitInv, CommittedAreSafe
    <3>2. ASSUME NEW j \in Q PROVE term[j] > term[i]
      <4>1. term[j] >= c.term /\ term[j] \in Nat
        BY <1>1, <3>1 DEF Secured, Keeps, TypeOK
      <4> QED BY <1>2, <2>2, <2>4, <4>1
    <3> QED BY <3>1, <3>2 DEF Secured
  <2>5. CASE c.term < term[i]
    <3>1. c.term <= term[i] /\ ~(c.index <= lastSnapIndex[i])
      BY <1>2, <1>4, <2>1, <2>2, <2>5
    <3>2. n <= LastIndex(i) /\ At(i, n) = c.entry
      BY <2>1, <3>1, LeadersAreComplete
    <3>3. PICK k \in lastSnapIndex[i] + 1 .. commitIndex[i] :
             k <= LastIndex(i) /\ At(i, k).term = term[i]
      BY DEF OwnTerm
    <3>4. k \in Nat /\ k <= commitIndex[i]
      BY <1>2, <3>3
    <3>5. ~(k <= n)
      <4>1. k <= n => At(i, k).term <= At(i, n).term
        BY <1>1, <3>2, <3>4 DEF LogShape
      <4>2. At(i, n).term < term[i]
        BY <1>2, <2>2, <2>5, <3>2
      <4>3. At(i, n).term \in Nat
        BY <2>2, <3>2
      <4> QED BY <1>2, <3>3, <4>1, <4>2, <4>3
    <3> QED BY <1>2, <3>4, <3>5
  <2> QED BY <1>2, <2>2, <2>3, <2>4, <2>5
<1> QED BY <1>3, <1>4

\* Commit indexes never fall.
LEMMA KnownStays ==
    ASSUME Step, CommitInv, CommitsMove, NEW n \in Nat, Known(n)
    PROVE  Known(n)'
<1>1. PICK j \in Server : n <= commitIndex[j]
  BY DEF Known
<1>2. commitIndex'[j] >= commitIndex[j]
  BY CommitIndexGrows
<1>3. commitIndex[j] \in Nat /\ commitIndex'[j] \in Nat
  BY BaseFacts DEF TypeOK
<1>4. n <= commitIndex'[j]
  BY <1>1, <1>2, <1>3
<1> QED BY <1>4 DEF Known

-----------------------------------------------------------------------------
(* What clients were told of *)

LEMMA StoresAreKnown ==
    ASSUME CommitAll, StoresFollow, NEW i \in Server
    PROVE  /\ handled[i] \in Nat /\ lastApplied[i] \in Nat
           /\ handled[i] <= commitIndex[i] /\ lastApplied[i] <= commitIndex[i]
<1>1. /\ handled[i] \in Nat /\ lastApplied[i] \in Nat /\ commitIndex[i] \in Nat
      /\ lastApply[i] \in Nat
  BY DEF StoresFollow, CommitAll, CommitInv, CommitBase, LogInv, ElectionInv, VoteInv, TypeOK
<1>2. /\ handled[i] <= lastApplied[i] /\ lastApplied[i] <= Len(applied[i])
      /\ Len(applied[i]) = lastApply[i] /\ lastApply[i] <= commitIndex[i]
  BY DEF StoresFollow, CommitAll, AppliedBelow, AppliedWithoutGaps
<1> QED BY <1>1, <1>2

\* Told is the greatest of its numbers, and some node has committed that far.
LEMMA ToldIsKnown ==
    ASSUME CommitAll, Bounded, StoresFollow, ReadsTyped, \A r \in Reader : Known(reads[r].seen)
    PROVE  Told \in Nat /\ Known(Told)
<1> DEFINE all == {handled[i] : i \in Server} \cup {reads[r].seen : r \in Reader}
           T == {x \in Nat : \A k \in all : k <= x}
<1>1. ASSUME NEW n \in all PROVE n \in Nat /\ Known(n)
  <2>1. ASSUME NEW i \in Server PROVE handled[i] \in Nat /\ Known(handled[i])
    BY StoresAreKnown DEF Known
  <2>2. ASSUME NEW r \in Reader PROVE reads[r].seen \in Nat /\ Known(reads[r].seen)
    BY DEF ReadsTyped, ReadRecord
  <2> QED BY <2>1, <2>2
<1>2. PICK any \in all : TRUE
  BY RaftAssumption
<1>3. PICK b \in Nat : \A j \in Server : commitIndex[j] <= b
  BY DEF Bounded
<1>4. \A j \in Server : commitIndex[j] \in Nat
  BY DEF CommitAll, CommitInv, CommitBase, LogInv, ElectionInv, VoteInv, TypeOK
<1>5. Told = CHOOSE n \in all : \A k \in all : k <= n
  BY DEF Told
<1> HIDE DEF all
<1>6. b \in T
  <2>1. ASSUME NEW k \in all PROVE k <= b
    <3>1. PICK j \in Server : k <= commitIndex[j]
      BY <1>1 DEF Known
    <3> QED BY <1>1, <1>3, <1>4, <3>1
  <2> QED BY <2>1
<1>7. PICK x \in T : \A y \in T : x <= y
  <2>1. T \in SUBSET Nat /\ T # {}
    BY <1>6
  <2> HIDE DEF T
  <2> QED BY <2>1, LeastIndex
<1>8. x \in all
  <2> SUFFICES ASSUME x \notin all PROVE FALSE
    OBVIOUS
  <2>1. \A k \in all : k \in Nat /\ k <= x /\ k # x
    BY <1>1, <1>7
  <2>2. x \in Nat /\ x # 0
    BY <1>2, <1>7, <2>1
  <2>3. x - 1 \in T
    BY <2>1, <2>2
  <2> QED BY <1>7, <2>2, <2>3
<1>9. Told \in all
  BY <1>5, <1>7, <1>8
<1> QED BY <1>1, <1>9

LEMMA AppliedGrows ==
    ASSUME Step, CommitAll, CommitAll', NEW i \in Server
    PROVE  /\ Len(applied[i]) \in Nat /\ Len(applied'[i]) \in Nat
           /\ Len(applied'[i]) >= Len(applied[i])
<1>1. /\ lastApply[i] \in Nat /\ lastApply'[i] \in Nat /\ TypeOK
  BY BaseFacts DEF TypeOK
<1>2. Len(applied[i]) = lastApply[i]
  BY DEF CommitAll, AppliedWithoutGaps
<1>3. Len(applied'[i]) = lastApply'[i]
  BY DEF CommitAll, AppliedWithoutGaps
<1>4. lastApply'[i] >= lastApply[i]
  <2>1. CASE UNCHANGED <<lastApply, applied>>
    BY <1>1, <2>1
  <2>2. ASSUME NEW j \in Server, Apply(j) PROVE lastApply'[i] >= lastApply[i]
    <3>1. lastApply' = [lastApply EXCEPT ![j] = lastApply[j] + 1]
      BY <2>2 DEF Apply
    <3>2. lastApply'[i] = lastApply[i] \/ lastApply'[i] = lastApply[i] + 1
      BY <1>1, <3>1 DEF TypeOK
    <3> QED BY <1>1, <3>2
  <2> QED BY <2>1, <2>2, AppliedStill DEF Step
<1> QED BY <1>1, <1>2, <1>3, <1>4

LEMMA StoresStillFollow ==
    ASSUME Step, CommitAll, CommitAll', StoresFollow, [ReadsNext]_allVars
    PROVE  StoresFollow'
<1>1. \A i \in Server :
         /\ handled[i] \in Nat /\ lastApplied[i] \in Nat
         /\ handled[i] <= lastApplied[i] /\ lastApplied[i] <= handled[i] + 1
         /\ lastApplied[i] <= Len(applied[i])
         /\ Len(applied[i]) \in Nat /\ Len(applied'[i]) \in Nat
         /\ Len(applied'[i]) >= Len(applied[i])
  BY AppliedGrows DEF StoresFollow
<1>2. lastApplied \in [Server -> Nat] /\ handled \in [Server -> Nat]
  BY DEF StoresFollow
<1>3. CASE UNCHANGED <<lastApplied, handled>>
  <2>1. \A i \in Server : lastApplied[i] <= Len(applied'[i])
    BY <1>1
  <2> QED BY <1>1, <1>2, <1>3, <2>1 DEF StoresFollow
<1>4. ASSUME NEW j \in Server, TakeEntry(j) PROVE StoresFollow'
  <2>1. /\ lastApplied[j] = handled[j] /\ lastApplied[j] < Len(applied[j])
        /\ lastApplied' = [lastApplied EXCEPT ![j] = lastApplied[j] + 1]
        /\ handled' = handled
    BY <1>4 DEF TakeEntry
  <2>2. ASSUME NEW i \in Server
        PROVE  /\ handled'[i] <= lastApplied'[i] /\ lastApplied'[i] <= handled'[i] + 1
               /\ lastApplied'[i] <= Len(applied'[i])
    <3>1. CASE i = j
      <4>1. lastApplied'[i] = lastApplied[i] + 1 /\ handled'[i] = handled[i]
            /\ lastApplied[i] = handled[i] /\ lastApplied[i] < Len(applied[i])
        BY <1>2, <2>1, <3>1
      <4>2. PICK n \in Nat, x \in Nat, y \in Nat :
               n = lastApplied[i] /\ x = Len(applied[i]) /\ y = Len(applied'[i]) /\ y >= x
        BY <1>1
      <4>3. n + 1 <= y
        BY <4>1, <4>2
      <4> QED BY <4>1, <4>2, <4>3
    <3>2. CASE i # j
      <4>1. lastApplied'[i] = lastApplied[i] /\ handled'[i] = handled[i]
        BY <1>2, <2>1, <3>2
      <4>2. PICK n \in Nat, x \in Nat, y \in Nat :
               n = lastApplied[i] /\ x = Len(applied[i]) /\ y = Len(applied'[i])
               /\ n <= x /\ y >= x
        BY <1>1
      <4>3. n <= y
        BY <4>2
      <4> QED BY <1>1, <4>1, <4>2, <4>3
    <3> QED BY <3>1, <3>2
  <2>3. lastApplied' \in [Server -> Nat]
    BY <1>1, <1>2, <2>1
  <2> QED BY <1>2, <2>1, <2>2, <2>3 DEF StoresFollow
<1>5. ASSUME NEW j \in Server, HandleEntry(j) PROVE StoresFollow'
  <2>1. handled' = [handled EXCEPT ![j] = lastApplied[j]] /\ lastApplied' = lastApplied
    BY <1>5 DEF HandleEntry
  <2>2. ASSUME NEW i \in Server
        PROVE  /\ handled'[i] <= lastApplied'[i] /\ lastApplied'[i] <= handled'[i] + 1
               /\ lastApplied'[i] <= Len(applied'[i])
    <3>1. CASE i = j
      BY <1>1, <1>2, <2>1, <3>1
    <3>2. CASE i # j
      BY <1>1, <1>2, <2>1, <3>2
    <3> QED BY <3>1, <3>2
  <2>3. handled' \in [Server -> Nat]
    BY <1>1, <1>2, <2>1
  <2> QED BY <1>2, <2>1, <2>2, <2>3 DEF StoresFollow
<1>6. ASSUME NEW r \in Reader, GiveUp(r) \/ Get(r) \/ \E i \in Server : ReadIndex(r, i)
      PROVE  UNCHANGED <<lastApplied, handled>>
  BY <1>6 DEF GiveUp, Get, ReadIndex
<1>7. UNCHANGED readVars \/ UNCHANGED allVars => UNCHANGED <<lastApplied, handled>>
  BY DEF readVars, allVars
<1> QED BY <1>3, <1>4, <1>5, <1>6, <1>7 DEF ReadsNext

-----------------------------------------------------------------------------
(* Reads that stay, reads that are answered *)

\* Who has left a term answers no call of it.
LEMMA RefusedStays ==
    ASSUME Step, NEW c, c.term \in Nat, Refused(c)
    PROVE  Refused(c)'
<1>1. PICK Q \in SUBSET Server :
         /\ IsMajority(Q) /\ c.node \notin Q /\ c.fresh \cap Q = {}
         /\ \A j \in Q :
               /\ term[j] > c.term
               /\ \A m \in messages :
                     /\ m.type = "AppendReply" /\ m.from = j /\ m.to = c.node
                     /\ m.callTerm = c.term /\ m.success
                     => m \in c.old
  BY DEF Refused
<1>2. ASSUME NEW j \in Q PROVE term'[j] > c.term
  <2>1. term[j] > c.term /\ term[j] \in Nat /\ term'[j] \in Nat /\ term'[j] >= term[j]
    BY <1>1, BaseFacts
  <2> QED BY <2>1
<1>3. ASSUME NEW j \in Q, NEW m \in messages', m.type = "AppendReply", m.from = j,
             m.to = c.node, m.callTerm = c.term, m.success, m \notin messages
      PROVE  FALSE
  <2>1. PICK n \in messages : Answers(n, m) /\ Received(n)
    BY <1>3 DEF Step, MessagesMove, Asks
  <2>2. Accepted(n) /\ n.to = j /\ n.term = c.term
    BY <1>3, <2>1 DEF Answers
  <2>3. c.term >= term[j] /\ term[j] \in Nat /\ term[j] > c.term
    BY <1>1, <2>2, BaseFacts DEF Accepted
  <2> QED BY <2>3
<1>4. IsMajority(Q)'
  BY <1>1 DEF IsMajority
<1>5. ASSUME NEW j \in Q, NEW m \in messages', m.type = "AppendReply", m.from = j,
             m.to = c.node, m.callTerm = c.term, m.success
      PROVE  m \in c.old
  BY <1>1, <1>3, <1>5
<1> QED BY <1>1, <1>2, <1>4, <1>5 DEF Refused

\* A read nothing happens to stays safe.
LEMMA ReadStays ==
    ASSUME Step, CommitInv, CommitsMove, NEW c, ReadIsSafe(c), c.seen \in Nat, c.term \in Nat
    PROVE  ReadIsSafe(c)'
<1>1. Known(c.seen)'
  BY KnownStays DEF ReadIsSafe
<1>2. Refused(c) => Refused(c)'
  BY RefusedStays
<1>3. Covers(c) => Covers(c)'
  BY <1>2 DEF Covers
<1> QED BY <1>1, <1>3 DEF ReadIsSafe

\* A read begins with an index that covers what was told, or where a majority has moved on.
LEMMA ReadBegins ==
    ASSUME CommitAll, ReadInv, NEW r \in Reader, NEW i \in Server, ReadIndex(r, i)
    PROVE  \/ reads' = reads
           \/ /\ \A x \in Reader : x # r => reads'[x] = reads[x]
              /\ reads' \in [Reader -> ReadRecord]
              /\ ReadIsSafe(reads'[r])
<1> DEFINE c == [NoRead EXCEPT !.at = IF Enough(1) THEN "confirmed" ELSE "waiting",
                               !.node = i, !.term = term[i], !.index = commitIndex[i],
                               !.counter = 1, !.before = Told, !.own = OwnTerm(i),
                               !.old = {m \in messages : m.type = "AppendReply"}]
<1>1. reads \in [Reader -> ReadRecord] /\ Bounded /\ OwnCovered /\ StoresFollow
      /\ \A x \in Reader : Known(reads[x].seen)
  BY DEF ReadInv, ReadsTyped, ReadIsSafe
<1>2. term[i] \in Nat /\ commitIndex[i] \in Nat /\ CommitInv
  BY DEF CommitAll, CommitInv, CommitBase, LogInv, ElectionInv, VoteInv, TypeOK
<1>3. Told \in Nat /\ Known(Told)
  BY <1>1, ToldIsKnown DEF ReadsTyped
<1>4. reads' = [reads EXCEPT ![r] = c] /\ states[i] = "Leader"
  BY DEF ReadIndex
<1>5. /\ c.at = IF Enough(1) THEN "confirmed" ELSE "waiting"
      /\ c.node = i /\ c.term = term[i] /\ c.index = commitIndex[i] /\ c.counter = 1
      /\ c.before = Told /\ c.own = OwnTerm(i) /\ c.seen = 0 /\ c.busy = FALSE
      /\ c.fresh = {} /\ c.old = {m \in messages : m.type = "AppendReply"}
  BY DEF NoRead
<1>6. c \in ReadRecord
  <2>1. messages \subseteq Message
    BY DEF CommitAll, CommitInv, CommitBase, LogInv, ElectionInv, VoteInv, TypeOK
  <2> QED BY <1>2, <1>3, <2>1 DEF NoRead, ReadRecord, OwnTerm
<1> HIDE DEF c
<1>7. Known(0)
  BY <1>2 DEF Known
<1>8. ASSUME OwnTerm(i) PROVE Covers(c)
  <2>1. CASE Told <= commitIndex[i]
    BY <1>5, <2>1 DEF Covers
  <2>2. ASSUME NEW Q \in SUBSET Server, IsMajority(Q), \A j \in Q : term[j] > term[i]
        PROVE  Covers(c)
    <3>1. i \notin Q
      BY <1>2, <2>2
    <3>2. Refused(c)
      BY <1>5, <2>2, <3>1 DEF Refused
    <3> QED BY <3>2 DEF Covers
  <2> QED BY <1>1, <1>2, <1>3, <1>4, <1>8, <2>1, <2>2, LeaderKnows
<1>9. ReadIsSafe(c)
  BY <1>5, <1>7, <1>8 DEF ReadIsSafe
<1>10. reads'[r] = c /\ \A x \in Reader : x # r => reads'[x] = reads[x]
  BY <1>1, <1>4
<1>11. reads' \in [Reader -> ReadRecord]
  BY <1>1, <1>4, <1>6
<1> QED BY <1>9, <1>10, <1>11

\* A read ends in a store that has handled what its index asks for, but for one entry.
LEMMA ReadEnds ==
    ASSUME CommitAll, ReadInv, NEW r \in Reader, Get(r) \/ GiveUp(r)
    PROVE  /\ \A x \in Reader : x # r => reads'[x] = reads[x]
           /\ reads' \in [Reader -> ReadRecord]
           /\ ReadIsSafe(reads'[r])
<1> DEFINE c == reads[r]
<1>1. /\ reads \in [Reader -> ReadRecord] /\ c \in ReadRecord /\ StoresFollow
      /\ ReadIsSafe(c)
  BY DEF ReadInv, ReadsTyped
<1>2. CASE GiveUp(r)
  <2> DEFINE d == [c EXCEPT !.at = "through the log"]
  <2>1. reads' = [reads EXCEPT ![r] = d] /\ c.at = "waiting"
    BY <1>2 DEF GiveUp
  <2>2. /\ d \in ReadRecord /\ d.at = "through the log" /\ d.node = c.node
        /\ d.seen = c.seen
    BY <1>1 DEF ReadRecord
  <2> HIDE DEF d, c
  <2>3. ReadIsSafe(d)
    BY <1>1, <2>1, <2>2 DEF ReadIsSafe
  <2>4. reads'[r] = d /\ \A x \in Reader : x # r => reads'[x] = reads[x]
    BY <1>1, <2>1
  <2>5. reads' \in [Reader -> ReadRecord]
    BY <1>1, <2>1, <2>2
  <2> QED BY <2>3, <2>4, <2>5
<1>3. CASE Get(r)
  <2> DEFINE i == c.node
             d == [c EXCEPT !.at = "done", !.seen = handled[i],
                            !.busy = lastApplied[i] # handled[i]]
  <2>1. reads' = [reads EXCEPT ![r] = d] /\ c.at = "confirmed" /\ lastApplied[i] >= c.index
    BY <1>1, <1>3 DEF Get
  <2>2. i \in Server
    BY <1>1, <2>1 DEF ReadIsSafe
  <2>3. /\ handled[i] \in Nat /\ lastApplied[i] \in Nat /\ handled[i] <= commitIndex[i]
        /\ handled[i] <= lastApplied[i] /\ lastApplied[i] <= handled[i] + 1
    BY <1>1, <2>2, StoresAreKnown DEF StoresFollow
  <2>4. /\ d \in ReadRecord /\ d.at = "done" /\ d.node = i /\ d.seen = handled[i]
        /\ (d.busy <=> lastApplied[i] # handled[i]) /\ d.index = c.index /\ d.own = c.own
        /\ d.before = c.before /\ c.index \in Nat /\ d.term = c.term /\ d.old = c.old
        /\ d.fresh = c.fresh /\ d.node = c.node
    BY <1>1, <2>2, <2>3 DEF ReadRecord
  <2> HIDE DEF d, i, c
  <2>5. Known(d.seen)
    BY <2>2, <2>3, <2>4 DEF Known
  <2>6. d.index <= d.seen + IF d.busy THEN 1 ELSE 0
    <3>1. CASE lastApplied[i] = handled[i]
      <4>1. ~d.busy
        BY <2>4, <3>1
      <4>2. d.index <= d.seen + 0
        BY <2>1, <2>3, <2>4, <3>1
      <4> QED BY <4>1, <4>2
    <3>2. CASE lastApplied[i] # handled[i]
      <4>1. d.busy
        BY <2>4, <3>2
      <4>2. d.index <= d.seen + 1
        BY <2>1, <2>3, <2>4, <3>2
      <4> QED BY <4>1, <4>2
    <3> QED BY <3>1, <3>2
  <2>7. d.own => Covers(d)
    <3>1. Refused(c) => Refused(d)
      BY <2>4 DEF Refused
    <3> QED BY <1>1, <2>1, <2>4, <3>1 DEF ReadIsSafe, Covers
  <2>8. ReadIsSafe(d)
    BY <2>2, <2>4, <2>5, <2>6, <2>7 DEF ReadIsSafe
  <2>9. reads'[r] = d /\ \A x \in Reader : x # r => reads'[x] = reads[x]
    BY <1>1, <2>1
  <2>10. reads' \in [Reader -> ReadRecord]
    BY <1>1, <2>1, <2>4
  <2> QED BY <2>8, <2>9, <2>10
<1> QED BY <1>2, <1>3

\* An answer leaves every read safe.
LEMMA ReadsCounted ==
    ASSUME CommitAll, ReadInv, NEW m \in messages, m.type = "AppendReply", Acked(m)
    PROVE  reads' \in [Reader -> ReadRecord] /\ \A r \in Reader : ReadIsSafe(reads'[r])
<1>1. reads \in [Reader -> ReadRecord] /\ CommitInv /\ m.from \in Server
  BY MessageFacts DEF ReadInv, ReadsTyped, CommitAll, CommitInv, CommitBase, LogInv,
                      ElectionInv, VoteInv, TypeOK
<1> DEFINE i == m.to
           counts(r) == /\ reads[r].at = "waiting" /\ reads[r].node = i /\ InTerm(r, i)
                        /\ m.success /\ m.term <= term[i] /\ StillLeads(i, m)
           next(r) == [reads[r] EXCEPT
                         !.counter = reads[r].counter + 1,
                         !.fresh = IF m \in reads[r].old THEN reads[r].fresh
                                   ELSE reads[r].fresh \cup {m.from},
                         !.at = IF Enough(reads[r].counter + 1) THEN "confirmed"
                                ELSE reads[r].at]
<1>2. reads' = [r \in Reader |-> IF ~counts(r) THEN reads[r] ELSE next(r)]
  BY DEF Acked
<1>3. ASSUME NEW r \in Reader, ~counts(r)
      PROVE  reads'[r] = reads[r] /\ reads'[r] \in ReadRecord /\ ReadIsSafe(reads'[r])
  <2>1. reads'[r] = reads[r]
    BY <1>2, <1>3
  <2> QED BY <1>1, <2>1 DEF ReadInv
<1>4. ASSUME NEW r \in Reader, counts(r)
      PROVE  reads'[r] \in ReadRecord /\ ReadIsSafe(reads'[r])
  <2> DEFINE c == reads[r]
             d == next(r)
  <2>1. reads'[r] = d
    BY <1>2, <1>4
  <2>2. /\ c.at = "waiting" /\ c.node = m.to /\ c.term = term[m.to] /\ m.success
        /\ m.callTerm = term[m.to]
    BY <1>4 DEF InTerm, StillLeads
  <2>3. c \in ReadRecord /\ ReadIsSafe(c)
    BY <1>1 DEF ReadInv
  <2>4. /\ d \in ReadRecord /\ d.at \in {"waiting", "confirmed"} /\ d.node = c.node
        /\ d.seen = c.seen /\ d.own = c.own /\ d.before = c.before /\ d.index = c.index
        /\ d.term = c.term /\ d.old = c.old
        /\ d.fresh = IF m \in c.old THEN c.fresh ELSE c.fresh \cup {m.from}
    <3> DEFINE n == c.counter + 1
               at == IF Enough(n) THEN "confirmed" ELSE c.at
               fresh == IF m \in c.old THEN c.fresh ELSE c.fresh \cup {m.from}
    <3>1. d = [c EXCEPT !.counter = n, !.fresh = fresh, !.at = at]
      OBVIOUS
    <3>2. n \in Nat /\ at \in {"waiting", "confirmed"}
      <4>1. c.counter \in Nat
        BY <2>3 DEF ReadRecord
      <4>2. n \in Nat
        BY <4>1
      <4>3. at = "confirmed" \/ at = c.at
        OBVIOUS
      <4> HIDE DEF at, c, n
      <4> QED BY <2>2, <4>2, <4>3
    <3>3. fresh \in SUBSET Server
      BY <1>1, <2>3 DEF ReadRecord
    <3> HIDE DEF c, d, n, at
    <3> QED BY <2>3, <3>1, <3>2, <3>3 DEF ReadRecord
  <2> HIDE DEF c, d
  <2>5. ASSUME Refused(c) PROVE Refused(d)
    <3>1. PICK Q \in SUBSET Server :
             /\ IsMajority(Q) /\ c.node \notin Q /\ c.fresh \cap Q = {}
             /\ \A j \in Q :
                   /\ term[j] > c.term
                   /\ \A n \in messages :
                         /\ n.type = "AppendReply" /\ n.from = j /\ n.to = c.node
                         /\ n.callTerm = c.term /\ n.success
                         => n \in c.old
      BY <2>5 DEF Refused
    <3>2. m.from \in Q => m \in c.old
      BY <2>2, <3>1
    <3>3. d.fresh \cap Q = {}
      BY <2>4, <3>1, <3>2
    <3> QED BY <2>4, <3>1, <3>3 DEF Refused
  <2>6. c.own => Covers(d)
    BY <2>2, <2>3, <2>4, <2>5 DEF ReadIsSafe, Covers
  <2>7. ReadIsSafe(d)
    BY <2>2, <2>3, <2>4, <2>6 DEF ReadIsSafe
  <2> QED BY <2>1, <2>4, <2>7
<1> HIDE DEF counts, next
<1>5. \A r \in Reader : reads'[r] \in ReadRecord /\ ReadIsSafe(reads'[r])
  BY <1>3, <1>4
<1>6. reads' \in [Reader -> ReadRecord]
  BY <1>2, <1>5
<1> QED BY <1>5, <1>6

-----------------------------------------------------------------------------
\* The reads after a step, in the state before it.
LEMMA ReadsStep ==
    ASSUME CommitAll, ReadInv, [ReadsNext]_allVars
    PROVE  reads' \in [Reader -> ReadRecord] /\ \A r \in Reader : ReadIsSafe(reads'[r])
<1>1. reads \in [Reader -> ReadRecord] /\ \A r \in Reader : ReadIsSafe(reads[r])
  BY DEF ReadInv, ReadsTyped
<1>2. CASE reads' = reads
  BY <1>1, <1>2
<1>3. ASSUME NEW r \in Reader, \/ Get(r) \/ GiveUp(r)
                               \/ \E i \in Server : ReadIndex(r, i)
      PROVE  reads' \in [Reader -> ReadRecord] /\ \A x \in Reader : ReadIsSafe(reads'[x])
  <2>1. \/ reads' = reads
        \/ /\ \A x \in Reader : x # r => reads'[x] = reads[x]
           /\ reads' \in [Reader -> ReadRecord]
           /\ ReadIsSafe(reads'[r])
    BY <1>3, ReadBegins, ReadEnds
  <2> QED BY <1>1, <2>1
<1>4. ASSUME NEW m \in messages, AppendReply(m), Acked(m)
      PROVE  reads' \in [Reader -> ReadRecord] /\ \A x \in Reader : ReadIsSafe(reads'[x])
  <2>1. m.type = "AppendReply"
    BY <1>4 DEF AppendReply
  <2> QED BY <1>4, <2>1, ReadsCounted
<1>5. ASSUME NEW i \in Server, TakeEntry(i) \/ HandleEntry(i) PROVE reads' = reads
  BY <1>5 DEF TakeEntry, HandleEntry
<1>6. UNCHANGED readVars \/ UNCHANGED allVars => reads' = reads
  BY DEF readVars, allVars
<1> QED BY <1>2, <1>3, <1>4, <1>5, <1>6 DEF ReadsNext

LEMMA ReadInvKept ==
    ASSUME Step, CommitsMove, CommitAll, CommitAll', ReadInv, [ReadsNext]_allVars
    PROVE  ReadInv'
<1>1. CommitInv /\ Bounded /\ OwnCovered /\ StoresFollow
  BY DEF CommitAll, ReadInv
<1>2. Bounded' /\ OwnCovered' /\ StoresFollow'
  BY <1>1, BoundedStays, OwnStaysCovered, StoresStillFollow
<1>3. reads' \in [Reader -> ReadRecord] /\ \A r \in Reader : ReadIsSafe(reads'[r])
  BY ReadsStep
<1>4. ASSUME NEW r \in Reader PROVE ReadIsSafe(reads[r])'
  <2>1. PICK c \in ReadRecord : c = reads'[r]
    BY <1>3
  <2>2. c.seen \in Nat /\ c.term \in Nat /\ ReadIsSafe(c)
    BY <1>3, <2>1 DEF ReadRecord
  <2>3. ReadIsSafe(c)'
    BY <1>1, <2>2, ReadStays
  <2> QED BY <2>1, <2>3 DEF ReadIsSafe, Covers, Known, Refused
<1> QED BY <1>2, <1>3, <1>4 DEF ReadInv, ReadsTyped

LEMMA InitReads ==
    ASSUME Init, ReadsInit
    PROVE  ReadInv
<1>1. /\ \A i \in Server : commitIndex[i] = 0 /\ applied[i] = <<>>
      /\ committed = {}
  BY DEF Init
<1>2. /\ reads = [r \in Reader |-> NoRead] /\ lastApplied = [i \in Server |-> 0]
      /\ handled = [i \in Server |-> 0]
  BY DEF ReadsInit
<1>3. Bounded /\ Known(0)
  <2>1. 0 \in Nat /\ 0 <= 0
    OBVIOUS
  <2> QED BY <1>1, <2>1, RaftAssumption DEF Bounded, Known
<1>4. OwnCovered
  BY <1>1 DEF OwnCovered
<1>5. StoresFollow
  BY <1>1, <1>2 DEF StoresFollow
<1>6. NoRead \in ReadRecord /\ NoRead.at = "idle" /\ NoRead.seen = 0
  BY DEF NoRead, ReadRecord
<1>7. ReadsTyped
  BY <1>2, <1>6 DEF ReadsTyped
<1>8. \A r \in Reader : ReadIsSafe(reads[r])
  BY <1>2, <1>3, <1>6 DEF ReadIsSafe
<1> QED BY <1>3, <1>4, <1>5, <1>7, <1>8 DEF ReadInv

\* ReadIndex and Get in a plain cluster of any size: a read on a leader that has committed an
\* entry of its term, and that a majority of the nodes, itself among them, answered after the
\* read began, sees everything any client was told of before, but for the one entry whose
\* handler is at work on that node, until a call that brings entries is late (see Raft).
\* ReadIndex itself counts answers given before as well,
\* and one peer's as often as it answers; then a read may be stale (ReadsSeeWhatWasTold).
THEOREM ReadsAreFresh ==
    ASSUME PlainCluster
    PROVE  ReadsSpec => []ConfirmedReadsAreFresh
<1> DEFINE K == late = {} => ReadInv
<1>1. ReadsSpec => Spec
  <2>1. [ReadsNext]_allVars => [Next]_vars
    BY ReadsStepsAreRafts
  <2> QED BY <2>1, PTL DEF ReadsSpec, Spec
<1>2. Spec => [](LogInv /\ (late = {} => CommitAll))
  BY CommitsAlways DEF CommitAll
<1>3. Init /\ ReadsInit => K
  BY InitReads
<1>4. /\ late = {} => CommitAll
      /\ LogInv' /\ (late' = {} => CommitAll')
      /\ K /\ [ReadsNext]_allVars
      => K'
  <2> SUFFICES ASSUME late = {} => CommitAll, LogInv', late' = {}, CommitAll', K,
                      [ReadsNext]_allVars
               PROVE  ReadInv'
    OBVIOUS
  <2>1. [Next]_vars
    BY ReadsStepsAreRafts
  <2>2. CommitAll /\ CommitInv /\ ReadInv /\ PlainStep
    BY <2>1, LateStayLate DEF PlainStep, CommitAll
  <2>3. ElectionSafety'
    <3>1. (LogInv => ElectionInv)'
      BY DEF LogInv
    <3>2. (ElectionInv => ElectionSafety)'
      BY OneWinner, PTL
    <3> QED BY <3>1, <3>2
  <2>4. Step /\ CommitsMove
    BY <2>1, <2>2, <2>3, CommitsKept
  <2> QED BY <2>2, <2>4, ReadInvKept
<1>5. K => ConfirmedReadsAreFresh
  <2> SUFFICES ASSUME ReadInv, NEW r \in Reader, reads[r].at = "done", reads[r].own,
                      IsMajority(reads[r].fresh \cup {reads[r].node})
               PROVE  Sees(reads[r])
    BY DEF ConfirmedReadsAreFresh
  <2> DEFINE c == reads[r]
  <2>1. c \in ReadRecord /\ ReadIsSafe(c)
    BY DEF ReadInv, ReadsTyped
  <2>2. c.before \in Nat /\ c.index \in Nat /\ c.seen \in Nat /\ c.fresh \in SUBSET Server
    BY <2>1 DEF ReadRecord
  <2>3. ~Refused(c)
    <3> SUFFICES ASSUME NEW Q \in SUBSET Server, IsMajority(Q), c.node \notin Q,
                        c.fresh \cap Q = {}
                 PROVE  FALSE
      BY DEF Refused
    <3>1. c.fresh \cup {c.node} \in SUBSET Server
      BY <2>1, <2>2 DEF ReadIsSafe
    <3>2. Q \cap (c.fresh \cup {c.node}) # {}
      BY <3>1, MajoritiesIntersect
    <3> QED BY <3>2
  <2>4. c.before <= c.index /\ c.index <= c.seen + IF c.busy THEN 1 ELSE 0
    BY <2>1, <2>3 DEF ReadIsSafe, Covers
  <2> HIDE DEF c
  <2>5. PICK x \in Nat : x = IF c.busy THEN 1 ELSE 0
    OBVIOUS
  <2>6. c.before <= c.seen + x
    BY <2>2, <2>4, <2>5
  <2> QED BY <2>5, <2>6 DEF c, Sees
<1> QED BY <1>1, <1>2, <1>3, <1>4, <1>5, PTL DEF ReadsSpec
=============================================================================
