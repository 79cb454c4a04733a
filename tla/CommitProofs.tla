---------------------------- MODULE CommitProofs ----------------------------
(***************************************************************************)
(* Proofs about the commit rule of Raft, for every set of nodes and every  *)
(* bound on terms, entries, RPCs in flight and applied entries, in a plain *)
(* cluster: no process restarts, none takes a snapshot, and the goroutines *)
(* of a node follow its RPCs at once and in order.                         *)
(*                                                                         *)
(* The argument.  A log that reaches at least as far as a leader of term t *)
(* had it at index k, in the order the vote rule compares logs, holds what *)
(* that leader had there (Spread): the piece of log an AppendEntries       *)
(* brings is joined to one it agrees with.  Who acknowledged index k has a *)
(* log that reaches there (Keeps), and votes for nobody whose log does not *)
(* (Demands).  A majority of such nodes binds all later leaders, so that   *)
(* none of them sends anything else (Secured).  A leader may commit what   *)
(* it took in its own term because it is safe with all who acknowledge it, *)
(* or else a majority has gone on to later terms without doing so and the  *)
(* leader never counts one (Safe, Blocked).                                *)
(***************************************************************************)
EXTENDS RaftProofs, WellFoundedInduction

-----------------------------------------------------------------------------
(* How far a log reaches *)

\* The order of the vote rule: an entry of term a at index n is not older than one of
\* term t at index k.
NotOlder(a, n, t, k) == a > t \/ (a = t /\ n >= k)

Reaches(i, t, k) == NotOlder(LastTerm(i), LastIndex(i), t, k)

Calls == {m \in messages : m.type = "AppendEntries"}

\* The term of the last entry an AppendEntries speaks of.
EndTerm(m) == CallPiece(m).at[End(m)].term
CallReaches(m, t, k) == NotOlder(EndTerm(m), End(m), t, k)

\* What reaches index k in term t holds the entry of term t that was at k.
Through(p, t, k) ==
    \A g \in p.first .. p.last :
        NotOlder(p.at[g].term, g, t, k) =>
            /\ k <= g
            /\ p.first <= k => p.at[k].term = t
            /\ p.first > k => p.at[p.first].term >= t

\* Terms only grow along a log.
Ascending(p) ==
    \A k \in p.first .. p.last : \A h \in k .. p.last : p.at[k].term <= p.at[h].term

\* Terms are numbers.
TermsTyped(p) == \A k \in p.first .. p.last : p.at[k].term \in Nat

LEMMA NotOlderTrans ==
    ASSUME NEW a \in Nat, NEW n \in Nat, NEW b \in Nat, NEW x \in Nat,
           NEW t \in Nat, NEW k \in Nat,
           NotOlder(a, n, b, x), NotOlder(b, x, t, k)
    PROVE  NotOlder(a, n, t, k)
BY DEF NotOlder

LEMMA NotOlderUp ==
    ASSUME NEW a \in Nat, NEW n \in Nat, NEW b \in Nat, NEW x \in Nat,
           NEW t \in Nat, NEW k \in Nat,
           a <= b, n <= x, NotOlder(a, n, t, k)
    PROVE  NotOlder(b, x, t, k)
BY DEF NotOlder

\* The least-number principle.
LEMMA LeastIndex ==
    ASSUME NEW T \in SUBSET Nat, T # {}
    PROVE  \E x \in T : \A y \in T : x <= y
<1> DEFINE R == {ss \in Nat \X Nat : ss[1] < ss[2]}
<1>1. IsWellFoundedOn(R, Nat)
  BY NatLessThanWellFounded DEF OpToRel
<1> HIDE DEF R
<1>2. PICK x \in T : \A y \in T : ~ (<<y, x>> \in R)
  BY <1>1, WFMin
<1>3. ASSUME NEW y \in T PROVE x <= y
  <2>1. <<y, x>> \in Nat \X Nat /\ <<y, x>> \notin R
    BY <1>2
  <2>2. <<y, x>>[1] = y /\ <<y, x>>[2] = x
    OBVIOUS
  <2> QED BY <2>1, <2>2, x \in Nat, y \in Nat DEF R
<1> QED BY <1>3

-----------------------------------------------------------------------------
(* What is cut and joined from ascending pieces *)

LEMMA DerivedAscends ==
    ASSUME NEW P, \A q \in P : PieceOk(q) /\ TermsTyped(q) /\ Ascending(q),
           NEW p, Derived(p, P)
    PROVE  TermsTyped(p) /\ Ascending(p)
<1>1. PieceOk(p)
  BY DEF Derived
<1>2. TermsTyped(p)
  <2> SUFFICES ASSUME NEW k \in p.first .. p.last PROVE p.at[k].term \in Nat
    BY DEF TermsTyped
  <2>1. PICK q \in P : Has(q, k) /\ q.at[k].term = p.at[k].term
    BY DerivedMarks
  <2> QED BY <2>1 DEF TermsTyped, Has
<1>3. Ascending(p)
  <2> SUFFICES ASSUME NEW k \in p.first .. p.last, NEW h \in k .. p.last
               PROVE  p.at[k].term <= p.at[h].term
    BY DEF Ascending
  <2>1. k \in Nat /\ h \in Nat /\ p.first \in Nat /\ p.last \in Nat /\ p.first <= k /\ k <= h
        /\ h <= p.last
    BY <1>1 DEF PieceOk
  <2>2. CASE \E q \in P : PartOf(p, q)
    <3>1. PICK q \in P : PartOf(p, q)
      BY <2>2
    <3>2. k \in q.first .. q.last /\ h \in k .. q.last /\ h \in p.first .. p.last
      BY <2>1, <3>1 DEF PieceOk, PartOf
    <3> QED BY <3>1, <3>2 DEF PartOf, Ascending
  <2>3. CASE \E a \in P : \E b \in P : \E j \in Nat : Joins(p, a, b, j)
    <3>1. PICK a \in P, b \in P, j \in Nat : Joins(p, a, b, j)
      BY <2>3
    <3>2. /\ a.first \in Nat /\ a.last \in Nat /\ b.first \in Nat /\ b.last \in Nat
          /\ p.first = a.first /\ p.last <= b.last
          /\ a.first <= j /\ j <= a.last /\ b.first <= j /\ j <= b.last
          /\ a.at[j].term = b.at[j].term
          /\ h \in p.first .. p.last
          /\ p.at[k] = IF k <= j THEN a.at[k] ELSE b.at[k]
          /\ p.at[h] = IF h <= j THEN a.at[h] ELSE b.at[h]
      BY <2>1, <3>1 DEF Joins, Has, PieceOk
    <3>3. CASE h <= j
      <4>1. k \in a.first .. a.last /\ h \in k .. a.last
        BY <2>1, <3>2, <3>3
      <4> QED BY <2>1, <3>2, <3>3, <4>1 DEF Ascending
    <3>4. CASE k > j
      <4>1. k \in b.first .. b.last /\ h \in k .. b.last
        BY <2>1, <3>2, <3>4
      <4> QED BY <2>1, <3>2, <3>4, <4>1 DEF Ascending
    <3>5. CASE k <= j /\ h > j
      <4>1. /\ k \in a.first .. a.last /\ j \in k .. a.last
            /\ j \in b.first .. b.last /\ h \in j .. b.last
            /\ j \in a.first .. a.last /\ h \in b.first .. b.last
        BY <2>1, <3>2, <3>5
      <4>2. a.at[k].term <= a.at[j].term /\ b.at[j].term <= b.at[h].term
        BY <4>1 DEF Ascending
      <4>3. a.at[k].term \in Nat /\ a.at[j].term \in Nat /\ b.at[h].term \in Nat
        BY <4>1 DEF TermsTyped
      <4>4. p.at[k] = a.at[k] /\ p.at[h] = b.at[h]
        BY <2>1, <3>2, <3>5
      <4> QED BY <3>2, <4>2, <4>3, <4>4
    <3> QED BY <2>1, <3>3, <3>4, <3>5
  <2> QED BY <2>2, <2>3 DEF Derived
<1> QED BY <1>2, <1>3

LEMMA DerivedThrough ==
    ASSUME NEW P, \A q \in P : PieceOk(q) /\ TermsTyped(q) /\ Ascending(q),
           NEW t \in Nat, NEW k \in Nat, \A q \in P : Through(q, t, k),
           NEW p, Derived(p, P)
    PROVE  Through(p, t, k)
<1>1. PieceOk(p) /\ TermsTyped(p) /\ Ascending(p)
  BY DerivedAscends DEF Derived
<1> SUFFICES ASSUME NEW g \in p.first .. p.last, NotOlder(p.at[g].term, g, t, k)
             PROVE  /\ k <= g
                    /\ p.first <= k => p.at[k].term = t
                    /\ p.first > k => p.at[p.first].term >= t
  BY DEF Through
<1>2. /\ g \in Nat /\ p.first \in Nat /\ p.last \in Nat /\ p.first <= g /\ g <= p.last
      /\ p.first \in p.first .. p.last
  BY <1>1 DEF PieceOk
<1>3. CASE \E q \in P : PartOf(p, q)
  <2>1. PICK q \in P : PartOf(p, q)
    BY <1>3
  <2>2. /\ g \in q.first .. q.last /\ q.first <= p.first /\ p.last <= q.last
        /\ q.first \in Nat /\ q.last \in Nat /\ q.at[g].term = p.at[g].term
        /\ p.at[p.first].term = q.at[p.first].term
    BY <1>2, <2>1 DEF PieceOk, PartOf
  <2>3. /\ k <= g
        /\ q.first <= k => q.at[k].term = t
        /\ q.first > k => q.at[q.first].term >= t
    BY <2>2 DEF Through
  <2>4. p.first <= k => p.at[k].term = t
    <3> SUFFICES ASSUME p.first <= k PROVE p.at[k].term = t
      OBVIOUS
    <3>1. k \in p.first .. p.last /\ q.first <= k
      BY <1>2, <2>2, <2>3
    <3> QED BY <2>1, <2>3, <3>1 DEF PartOf
  <2>5. p.first > k => p.at[p.first].term >= t
    <3> SUFFICES ASSUME p.first > k PROVE q.at[p.first].term >= t
      BY <2>2
    <3>1. p.first \in q.first .. q.last
      BY <1>2, <2>2
    <3>2. q.at[p.first].term \in Nat
      BY <3>1 DEF TermsTyped
    <3>3. CASE q.first <= k
      <4>1. k \in q.first .. q.last /\ p.first \in k .. q.last
        BY <1>2, <2>2, <3>3
      <4> QED BY <2>3, <3>2, <3>3, <4>1 DEF Ascending
    <3>4. CASE q.first > k
      <4>1. q.first \in q.first .. q.last /\ p.first \in q.first .. q.last
        BY <1>2, <2>2
      <4>2. q.at[q.first].term <= q.at[p.first].term /\ q.at[q.first].term \in Nat
        BY <4>1 DEF Ascending, TermsTyped
      <4> QED BY <2>3, <3>2, <3>4, <4>2
    <3> QED BY <2>2, <3>3, <3>4
  <2> QED BY <2>3, <2>4, <2>5
<1>4. CASE \E a \in P : \E b \in P : \E j \in Nat : Joins(p, a, b, j)
  <2>1. PICK a \in P, b \in P, j \in Nat : Joins(p, a, b, j)
    BY <1>4
  <2>2. /\ a.first \in Nat /\ a.last \in Nat /\ b.first \in Nat /\ b.last \in Nat
        /\ p.first = a.first /\ p.last <= b.last
        /\ a.first <= j /\ j <= a.last /\ b.first <= j /\ j <= b.last
        /\ a.at[j].term = b.at[j].term
        /\ \A x \in p.first .. p.last : p.at[x] = IF x <= j THEN a.at[x] ELSE b.at[x]
    BY <1>2, <2>1 DEF Joins, Has, PieceOk
  <2>3. CASE g <= j
    <3>1. g \in a.first .. a.last /\ p.at[g] = a.at[g]
      BY <1>2, <2>2, <2>3
    <3>2. /\ k <= g
          /\ a.first <= k => a.at[k].term = t
          /\ a.first > k => a.at[a.first].term >= t
      BY <3>1 DEF Through
    <3>3. p.first <= k => k \in p.first .. p.last /\ k <= j
      BY <1>2, <2>2, <2>3, <3>2
    <3>4. p.first <= j
      BY <2>2
    <3> QED BY <1>2, <2>2, <3>2, <3>3, <3>4
  <2>4. CASE g > j
    <3>1. g \in b.first .. b.last /\ p.at[g] = b.at[g]
      BY <1>2, <2>2, <2>4
    <3>2. /\ k <= g
          /\ b.first <= k => b.at[k].term = t
          /\ b.first > k => b.at[b.first].term >= t
      BY <3>1 DEF Through
    <3>3. CASE k > j
      <4>1. k \in p.first .. p.last /\ b.first <= k
        BY <1>2, <2>2, <3>2, <3>3
      <4> QED BY <1>2, <2>2, <3>2, <3>3, <4>1
    <3>4. CASE k <= j
      <4>1. j \in a.first .. a.last /\ j \in b.first .. b.last
        BY <2>2
      <4>2. b.at[j].term \in Nat /\ b.at[j].term >= t
        <5>1. b.at[j].term \in Nat
          BY <4>1 DEF TermsTyped
        <5>2. CASE b.first <= k
          <6>1. k \in b.first .. b.last /\ j \in k .. b.last
            BY <2>2, <3>4, <5>2
          <6> QED BY <3>2, <5>1, <5>2, <6>1 DEF Ascending
        <5>3. CASE b.first > k
          <6>1. b.first \in b.first .. b.last
            BY <2>2
          <6>2. b.at[b.first].term <= b.at[j].term /\ b.at[b.first].term \in Nat
            BY <4>1, <6>1 DEF Ascending, TermsTyped
          <6> QED BY <3>2, <5>1, <5>3, <6>2
        <5> QED BY <2>2, <5>2, <5>3
      <4>3. NotOlder(a.at[j].term, j, t, k)
        BY <2>2, <3>4, <4>2 DEF NotOlder
      <4>4. /\ a.first <= k => a.at[k].term = t
            /\ a.first > k => a.at[a.first].term >= t
        BY <4>1, <4>3 DEF Through
      <4>5. p.first <= k => k \in p.first .. p.last
        BY <1>2, <3>2
      <4> QED BY <1>2, <2>2, <3>2, <3>4, <4>4, <4>5
    <3> QED BY <2>2, <3>3, <3>4
  <2> QED BY <1>2, <2>3, <2>4
<1> QED BY <1>3, <1>4 DEF Derived

-----------------------------------------------------------------------------
(* The end of the log after an AppendEntries *)

\* Merged, before any snapshot: without entries the log stays, and with entries it
\* ends where they end, in the term of the last.
LEMMA MergedEnd ==
    ASSUME TypeOK, NEW i \in Server, NEW m \in messages, m.type = "AppendEntries",
           lastSnapIndex[i] = 0, m.prevIndex \in 0 .. LastIndex(i)
    PROVE  /\ Len(m.entries) = 0 => Merged(i, m) = log[i]
           /\ Len(m.entries) > 0 =>
                 /\ Len(Merged(i, m)) = End(m) + 1
                 /\ Merged(i, m)[End(m) + 1].term = m.entries[Len(m.entries)].term
<1> DEFINE start == m.prevIndex - lastSnapIndex[i] + 1
           new == m.entries
           len == Len(new)
           firsts == {n \in 1 .. Len(new) : /\ ~Agrees(i, m, n)
                                           /\ \A h \in 1 .. n - 1 : Agrees(i, m, h)}
           joined(k) == Spliced(log[i], start + k - 1, new, k)
           overwritten == {joined(k) : k \in firsts}
           merged == IF overwritten = {} THEN log[i] ELSE CHOOSE l \in overwritten : TRUE
           newLen == End(m) + 1
<1>1. /\ log[i] \in Seq(Entry) /\ Len(log[i]) \in Nat
      /\ new \in Seq(Entry) /\ len \in Nat /\ m.prevIndex \in Nat
      /\ start = m.prevIndex + 1 /\ start \in Nat /\ start <= Len(log[i])
      /\ newLen = start + len /\ End(m) + 1 = newLen
  <2>1. /\ log[i] \in Seq(Entry) /\ Len(log[i]) \in Nat
        /\ new \in Seq(Entry) /\ len \in Nat /\ m.prevIndex \in Nat
    BY LogFacts, MessageFacts, LenProperties
  <2>2. LastIndex(i) = Len(log[i]) - 1 /\ End(m) = m.prevIndex + len
    BY <2>1 DEF LastIndex, End
  <2> QED BY <2>1, <2>2
<1>2. Merged(i, m) = IF new # <<>> /\ newLen < Len(merged)
                     THEN SubSeq(merged, 1, newLen) ELSE merged
  BY DEF Merged, Cuts, Spliced
<1>3. new # <<>> <=> len > 0
  BY <1>1, EmptySeq
<1>4. \A n \in 1 .. len : Agrees(i, m, n) <=>
         start + n <= Len(log[i]) /\ log[i][start + n].term = new[n].term
  BY DEF Agrees
<1>5. ASSUME \A n \in 1 .. len : Agrees(i, m, n) PROVE merged = log[i]
  <2>1. firsts = {}
    BY <1>5
  <2> QED BY <2>1
<1>6. ASSUME NEW n \in 1 .. len, ~Agrees(i, m, n)
      PROVE  \E k \in 1 .. len : /\ merged = joined(k)
                                 /\ start + k - 1 \in Nat /\ start + k - 1 <= Len(log[i])
  <2> DEFINE T == {x \in 1 .. len : ~Agrees(i, m, x)}
  <2>1. T \in SUBSET Nat /\ T # {}
    BY <1>1, <1>6
  <2>2. PICK x \in T : \A y \in T : x <= y
    <3> HIDE DEF T
    <3> QED BY <2>1, LeastIndex
  <2>3. x \in firsts
    <3>1. \A h \in 1 .. x - 1 : h \in 1 .. len /\ ~(x <= h)
      BY <1>1
    <3> QED BY <2>2, <3>1
  <2>4. (CHOOSE l \in overwritten : TRUE) \in overwritten
    BY <2>3
  <2>5. PICK k \in firsts : merged = joined(k)
    BY <2>4
  <2>6. k \in 1 .. len
    OBVIOUS
  <2>7. start + k - 1 \in Nat /\ start + k - 1 <= Len(log[i])
    <3>1. CASE k = 1
      <4> HIDE DEF start, len
      <4> QED BY <1>1, <3>1
    <3>2. CASE k # 1
      <4>1. k - 1 \in 1 .. k - 1 /\ k - 1 \in 1 .. len /\ k \in Nat
        <5> HIDE DEF len
        <5> QED BY <1>1, <2>6, <3>2
      <4>2. start + (k - 1) <= Len(log[i])
        BY <1>4, <4>1
      <4> HIDE DEF start, len
      <4> QED BY <1>1, <4>1, <4>2, SMTT(30)
    <3> QED BY <3>1, <3>2
  <2> QED BY <2>5, <2>6, <2>7
<1> HIDE DEF start, new, len, firsts, overwritten, merged, newLen
<1>7. ASSUME len = 0 PROVE Merged(i, m) = log[i]
  <2>1. \A n \in 1 .. len : FALSE
    BY <1>7
  <2> QED BY <1>2, <1>3, <1>5, <1>7, <2>1
<1>8. ASSUME len > 0
      PROVE  /\ Len(Merged(i, m)) = newLen
             /\ Merged(i, m)[newLen].term = new[len].term
  <2>1. len \in 1 .. len /\ newLen \in Nat /\ newLen >= 1
    BY <1>1, <1>8
  <2>2. ASSUME \A n \in 1 .. len : Agrees(i, m, n)
        PROVE  /\ Len(Merged(i, m)) = newLen
               /\ Merged(i, m)[newLen].term = new[len].term
    <3>1. merged = log[i] /\ newLen <= Len(log[i]) /\ log[i][newLen].term = new[len].term
      BY <1>1, <1>4, <1>5, <2>1, <2>2
    <3>2. CASE newLen < Len(log[i])
      <4>1. Merged(i, m) = SubSeq(log[i], 1, newLen)
        BY <1>2, <1>3, <1>8, <3>1, <3>2
      <4>2. /\ Len(SubSeq(log[i], 1, newLen)) = newLen
            /\ \A x \in 1 .. newLen : SubSeq(log[i], 1, newLen)[x] = log[i][x]
        BY <1>1, <2>1, <3>1, PrefixFacts
      <4>3. newLen \in 1 .. newLen
        BY <2>1
      <4> QED BY <3>1, <4>1, <4>2, <4>3
    <3>3. CASE ~(newLen < Len(log[i]))
      <4>1. Merged(i, m) = log[i] /\ Len(log[i]) = newLen
        BY <1>1, <1>2, <2>1, <3>1, <3>3
      <4> QED BY <3>1, <4>1
    <3> QED BY <3>2, <3>3
  <2>3. ASSUME NEW n \in 1 .. len, ~Agrees(i, m, n)
        PROVE  /\ Len(Merged(i, m)) = newLen
               /\ Merged(i, m)[newLen].term = new[len].term
    <3>1. PICK k \in 1 .. len : /\ merged = joined(k)
                                /\ start + k - 1 \in Nat /\ start + k - 1 <= Len(log[i])
      BY <1>6, <2>3
    <3> DEFINE p == start + k - 1
    <3>2. p \in Nat /\ p <= Len(log[i]) /\ merged = Spliced(log[i], p, new, k) /\ len = Len(new)
      BY <3>1 DEF len
    <3>3. k \in Nat /\ 1 <= k /\ k <= len /\ p = start + k - 1
      BY <1>1
    <3> HIDE DEF p, joined
    <3>4. IsSpliced(merged, log[i], p, new, k)
      BY <1>1, <3>2, <3>3, SplicedFacts
    <3>5. /\ Len(merged) = p + (len - k + 1)
          /\ \A x \in p + 1 .. p + (len - k + 1) : merged[x] = new[k + (x - p) - 1]
      BY <3>2, <3>4 DEF IsSpliced
    <3>6. /\ p + (len - k + 1) = newLen
          /\ newLen \in p + 1 .. p + (len - k + 1)
          /\ k + (newLen - p) - 1 = len
      <4>1. newLen = start + len /\ start \in Nat /\ len \in Nat
        BY <1>1
      <4> QED BY <3>3, <4>1
    <3>7. Len(merged) = newLen /\ merged[newLen] = new[len]
      BY <3>5, <3>6
    <3>8. Merged(i, m) = merged
      BY <1>2, <2>1, <3>7
    <3> QED BY <3>7, <3>8
  <2> QED BY <2>2, <2>3
<1>9. newLen = End(m) + 1 /\ len = Len(m.entries) /\ new = m.entries
  BY DEF newLen, len, new
<1> QED BY <1>7, <1>8, <1>9

-----------------------------------------------------------------------------
(* The invariant: what calls, votes, answers and terms say about logs *)

\* No process restarts and none takes a snapshot, and the goroutines of a node follow
\* its RPCs at once.
PlainCluster == MaxRestarts = 0 /\ MaxSnaps = 0 /\ ~SlowTicker /\ ~SlowSender

\* A step of such a cluster in which no call that brings entries is late.
PlainStep == PlainCluster /\ late' = {}

NoSnapshots ==
    /\ \A i \in Server : lastSnapIndex[i] = 0 /\ lastSnapTerm[i] = 0
    /\ \A m \in messages : m.type = "InstallSnapshot" =>
                              m.lastSnapIndex = 0 /\ m.lastSnapTerm = 0

PiecesAscend == \A p \in Pieces : TermsTyped(p) /\ Ascending(p)

\* No log is ahead of its node, and that of a candidate is behind it.
LogsBehindTerms ==
    \A i \in Server : /\ LastTerm(i) <= term[i]
                      /\ states[i] = "Candidate" => LastTerm(i) < term[i]

\* A call comes from the leader of its term to somebody else, and is a part of its log
\* for as long as it leads.
CallsFromLeaders ==
    \A m \in Calls :
        /\ m.from # m.to
        /\ [node |-> m.from, term |-> m.term] \in elected
        /\ EndTerm(m) <= m.term
        /\ states[m.from] = "Leader" /\ term[m.from] = m.term =>
              PartOf(CallPiece(m), LogPiece(m.from))

\* Of two calls of a leader the longer one ends in no older term.
CallsGrow ==
    \A m \in Calls : \A n \in Calls :
        m.term = n.term /\ End(m) <= End(n) => EndTerm(m) <= EndTerm(n)

\* A vote request describes the log of the candidate, which only grows while it stands
\* or leads.
RequestsDescribe ==
    \A m \in messages :
        m.type = "RequestVote" =>
            /\ m.from # m.to /\ m.term <= term[m.from]
            /\ states[m.from] # "Follower" /\ term[m.from] = m.term =>
                  Reaches(m.from, m.lastTerm, m.lastIndex)

CandidatesKnow == \A c \in cast : c.term <= term[c.candidate]

\* m is an answer that leader i has not read yet.
AnswersTo(i, m) == m.type = "AppendReply" /\ m.to = i /\ m.callTerm = term[i] /\ m.success

\* Node j told leader i that it holds the log of i up to index k.
Vouched(i, j, k) ==
    \/ j = i
    \/ k <= matchIndex[i][j]
    \/ \E m \in messages : AnswersTo(i, m) /\ m.from = j /\ m.len > 0 /\ k <= Acknowledged(m)

\* j acknowledged no more than i has, and still has it for as long as it follows i.
Holds(i, j, k) ==
    /\ term[j] >= term[i] /\ k <= LastIndex(i)
    /\ term[j] = term[i] =>
          /\ k <= LastIndex(j) /\ At(j, k).term = At(i, k).term
          /\ \A m \in Calls \ overtaken : m.to = j /\ m.term = term[i] => End(m) >= k

AcksAreTrue ==
    \A i \in Server : states[i] = "Leader" =>
        /\ \A j \in Server : \A k \in Nat : j # i /\ k > 0 /\ Vouched(i, j, k) => Holds(i, j, k)
        /\ \A m \in messages : AnswersTo(i, m) => Acknowledged(m) <= LastIndex(i)
        /\ \A j \in Server : nextIndex[i][j] <= LastIndex(i) + 1

\* An answer goes to the leader of the term it answers.
AnswersKnown ==
    \A m \in messages :
        m.type = "AppendReply" =>
            m.from # m.to /\ [node |-> m.to, term |-> m.callTerm] \in elected

CommitBase ==
    /\ LogInv
    /\ NoSnapshots /\ PiecesAscend /\ LogsBehindTerms
    /\ CallsFromLeaders /\ CallsGrow /\ RequestsDescribe /\ CandidatesKnow
    /\ AcksAreTrue /\ AnswersKnown

-----------------------------------------------------------------------------
(* What a step does *)

\* What stood in the log of node j still stands there.
Grows(j) ==
    /\ LastIndex(j)' >= LastIndex(j) /\ LastTerm(j)' >= LastTerm(j)
    /\ \A k \in 0 .. LastIndex(j) : At(j, k)' = At(j, k)

\* The handler takes the term of call m and finds its log in agreement with it.
Accepted(m) ==
    /\ m \in Calls /\ m.to \in Server
    /\ m.term >= term[m.to] /\ term'[m.to] = m.term /\ states'[m.to] = "Follower"
    /\ End(m) \in 0 .. LastIndex(m.to)' /\ At(m.to, End(m))'.term = EndTerm(m)
    /\ Len(m.entries) = 0 => log'[m.to] = log[m.to]
    /\ Len(m.entries) > 0 => LastIndex(m.to)' = End(m) /\ m \notin overtaken
    /\ \A n \in Calls \ overtaken' :
          n.from = m.from /\ n.to = m.to /\ n.term = m.term => End(m) <= End(n)

LogsMove ==
    \A j \in Server : Grows(j) \/ \E m \in Calls : m.to = j /\ Len(m.entries) > 0 /\ Accepted(m)

\* m is what leader m.from just sent.
Sent(m) ==
    /\ m.from # m.to /\ m.from \in Server /\ m.to \in Server
    /\ states[m.from] = "Leader" /\ m.term = term[m.from] /\ m.commit = commitIndex[m.from]
    /\ End(m) = LastIndex(m.from) /\ EndTerm(m) = LastTerm(m.from)
    /\ PartOf(CallPiece(m), LogPiece(m.from))
    /\ UNCHANGED <<log, lastSnapIndex>>

CallsMove ==
    /\ messages \cap overtaken \subseteq overtaken'
    /\ \A m \in Calls' : m \in Calls \/ Sent(m)

\* A step that moves no entry and sends none.
StillCalls ==
    UNCHANGED <<log, lastSnapIndex, lastSnapTerm>> /\ Calls' \subseteq Calls

\* Every action but the three that write a log or send a part of it.
QuietAction ==
    \/ \E i \in Server : StartElection(i) \/ Broadcast(i) \/ Apply(i)
    \/ \E m \in messages : \/ RequestVote(m) \/ VoteReply(m) \/ AppendReply(m)
                           \/ InstallSnapshot(m) \/ InstallReply(m)
    \/ UNCHANGED vars

LEMMA PlainSteps ==
    ASSUME PlainStep, CommitBase, [Next]_vars
    PROVE  \/ QuietAction
           \/ \E i \in Server : \E v \in Value : Start(i, v)
           \/ \E i \in Server : \E j \in Server : SendAppend(i, j)
           \/ \E m \in messages : AppendEntries(m)
<1>1. TypeOK /\ pc = [i \in Server |-> "idle"]
  BY DEF CommitBase, LogInv, ElectionInv, VoteInv
<1>2. ASSUME NEW i \in Server PROVE ~Tally(i) /\ ~Restart(i) /\ ~Snapshot(i)
  <2>1. ~Restart(i)
    BY <1>1, NoRestart DEF PlainStep, PlainCluster
  <2>2. ~Tally(i)
    BY <1>1 DEF Tally
  <2>3. ~Snapshot(i)
    BY <1>1 DEF Snapshot, PlainStep, PlainCluster, TypeOK
  <2> QED BY <2>1, <2>2, <2>3
<1> QED BY <1>2 DEF Next, QuietAction

LEMMA QuietAreStill ==
    ASSUME CommitBase, QuietAction
    PROVE  StillCalls /\ QuietLogs
<1>1. TypeOK /\ NoSnapshots
  BY DEF CommitBase, LogInv, ElectionInv, VoteInv
<1>2. ASSUME NEW i \in Server, StartElection(i) \/ Broadcast(i) \/ Apply(i)
      PROVE  /\ UNCHANGED <<log, lastSnapIndex, lastSnapTerm>>
             /\ \A r \in messages' :
                   r \in messages \/ r.type \notin {"AppendEntries", "InstallSnapshot"}
  <2>1. CASE StartElection(i)
    <3> DEFINE new == {[type |-> "RequestVote", from |-> i, to |-> j, awaited |-> TRUE,
                        term |-> term[i] + 1, lastIndex |-> LastIndex(i),
                        lastTerm |-> LastTerm(i)] : j \in Server \ {i}}
    <3>1. Send(new) /\ UNCHANGED <<log, lastSnapIndex, lastSnapTerm>>
      BY <2>1 DEF StartElection, logVars
    <3>2. \A r \in new : r.type = "RequestVote"
      OBVIOUS
    <3> HIDE DEF new
    <3> QED BY <3>1, <3>2 DEF Send
  <2>2. CASE Broadcast(i) \/ Apply(i)
    BY <2>2 DEF Broadcast, Apply, logVars
  <2> QED BY <1>2, <2>1, <2>2
<1>3. ASSUME NEW m \in messages,
             \/ RequestVote(m) \/ VoteReply(m) \/ AppendReply(m)
             \/ InstallSnapshot(m) \/ InstallReply(m)
      PROVE  /\ UNCHANGED <<log, lastSnapIndex, lastSnapTerm>>
             /\ \A r \in messages' :
                   r \in messages \/ r.type \notin {"AppendEntries", "InstallSnapshot"}
  <2>1. CASE RequestVote(m)
    BY <2>1 DEF RequestVote, Reply, logVars
  <2>2. CASE VoteReply(m) \/ AppendReply(m) \/ InstallReply(m)
    BY <2>2 DEF VoteReply, AppendReply, InstallReply, Discard, logVars
  <2>3. CASE InstallSnapshot(m)
    <3>1. m.to \in Server /\ m.type = "InstallSnapshot"
      BY <1>1, <2>3, MessageFacts DEF InstallSnapshot
    <3>2. m.lastSnapIndex <= lastSnapIndex[m.to]
      BY <1>1, <3>1 DEF NoSnapshots
    <3> QED BY <2>3, <3>2 DEF InstallSnapshot, Reply, logVars
  <2> QED BY <1>3, <2>1, <2>2, <2>3
<1>4. ASSUME UNCHANGED vars
      PROVE  UNCHANGED <<log, lastSnapIndex, lastSnapTerm, messages>>
  BY <1>4 DEF vars, logVars
<1>5. /\ UNCHANGED <<log, lastSnapIndex, lastSnapTerm>>
      /\ \A r \in messages' :
            r \in messages \/ r.type \notin {"AppendEntries", "InstallSnapshot"}
  BY <1>2, <1>3, <1>4 DEF QuietAction
<1> QED BY <1>5 DEF StillCalls, QuietLogs, Calls

\* The same log, with NoSnapshots.
LEMMA SameGrows ==
    ASSUME TypeOK, NoSnapshots, NEW j \in Server,
           log'[j] = log[j], lastSnapIndex'[j] = lastSnapIndex[j]
    PROVE  /\ Grows(j) /\ LastIndex(j)' = LastIndex(j) /\ LastTerm(j)' = LastTerm(j)
           /\ LogPiece(j)' = LogPiece(j)
<1>1. LastIndex(j)' = LastIndex(j) /\ LogPiece(j)' = LogPiece(j)
  BY SameLogPiece
<1>2. \A k : At(j, k)' = At(j, k)
  BY DEF At
<1>3. LastTerm(j)' = LastTerm(j)
  BY <1>1 DEF LastTerm, At
<1>4. LastIndex(j) \in Nat /\ LastTerm(j) \in Nat
  BY LogFacts
<1> QED BY <1>1, <1>2, <1>3, <1>4 DEF Grows

\* Index k of an unsnapshotted log is at position k + 1.
LEMMA AtPlain ==
    ASSUME TypeOK, NoSnapshots, NEW j \in Server
    PROVE  /\ LastIndex(j) = Len(log[j]) - 1 /\ LastIndex(j) \in Nat
           /\ log[j] \in Seq(Entry) /\ Len(log[j]) \in Nat
           /\ \A k \in Nat : At(j, k) = log[j][k + 1]
           /\ \A k \in 0 .. LastIndex(j) : At(j, k) \in Entry /\ At(j, k).term \in Nat
           /\ LastTerm(j) = At(j, LastIndex(j)).term /\ LastTerm(j) \in Nat
           /\ LogPiece(j).first = 0 /\ LogPiece(j).last = LastIndex(j)
           /\ \A k \in 0 .. LastIndex(j) : LogPiece(j).at[k] = At(j, k)
           /\ LogPiece(j) \in Pieces
<1>1. lastSnapIndex[j] = 0
  BY DEF NoSnapshots
<1>2. \A k \in Nat : k - 0 + 1 = k + 1
  OBVIOUS
<1>3. /\ log[j] \in Seq(Entry) /\ Len(log[j]) \in Nat /\ LastIndex(j) \in Nat
      /\ \A k \in 0 .. LastIndex(j) : At(j, k) \in Entry /\ At(j, k).term \in Nat
      /\ LastTerm(j) \in Nat
  BY <1>1, LogFacts
<1>4. LastIndex(j) = Len(log[j]) - 1
  BY <1>1, <1>3 DEF LastIndex
<1>5. \A k \in Nat : At(j, k) = log[j][k + 1]
  BY <1>1, <1>2 DEF At
<1>6. /\ LogPiece(j).first = 0 /\ LogPiece(j).last = LastIndex(j)
      /\ \A k \in 0 .. LastIndex(j) : LogPiece(j).at[k] = At(j, k)
      /\ LogPiece(j) \in Pieces
  BY <1>1 DEF LogPiece, Pieces
<1> QED BY <1>3, <1>4, <1>5, <1>6 DEF LastTerm

\* A command on a leader is the last entry of its log.
Took(i) ==
    /\ states[i] = "Leader" /\ LastIndex(i)' = LastIndex(i) + 1 /\ LastTerm(i)' = term[i]
    /\ \A n \in Nat :
          n = LastIndex(i) + 1 => At(i, n)'.term = term[i] /\ At(i, n)'.command \in Value
    /\ \A k \in 0 .. LastIndex(i) : At(i, k)' = At(i, k)
    /\ \A j \in Server : j # i => log'[j] = log[j]
    /\ UNCHANGED <<term, states, lastSnapIndex, lastSnapTerm, messages, elected, cast,
                   commitIndex, committed, nextIndex, matchIndex, lastApply, applied, down>>

LEMMA StartMoves ==
    ASSUME CommitBase, TypeOK', NEW i \in Server, NEW v \in Value, Start(i, v)
    PROVE  Took(i)
<1> DEFINE e == [term |-> term[i], command |-> v]
<1>1. TypeOK /\ NoSnapshots
  BY DEF CommitBase, LogInv, ElectionInv, VoteInv
<1>2. /\ states[i] = "Leader" /\ log' = [log EXCEPT ![i] = Append(log[i], e)]
      /\ UNCHANGED <<term, states, lastSnapIndex, lastSnapTerm, messages, elected, cast,
                     commitIndex, committed, nextIndex, matchIndex, lastApply, applied, down>>
  BY DEF Start, electionVars, applyVars, leaderVars, envVars
<1>3. NoSnapshots'
  BY <1>1, <1>2 DEF NoSnapshots
<1>4. /\ log'[i] = Append(log[i], e)
      /\ \A j \in Server : j # i => log'[j] = log[j]
  BY <1>1, <1>2 DEF TypeOK
<1>5. e \in Entry /\ e.term = term[i] /\ e.command \in Value
  BY <1>1 DEF TypeOK, Entry
<1> HIDE DEF e
<1>6. /\ log[i] \in Seq(Entry) /\ Len(log[i]) \in Nat /\ LastIndex(i) = Len(log[i]) - 1
      /\ LastIndex(i) \in Nat /\ \A k \in Nat : At(i, k) = log[i][k + 1]
  BY <1>1, AtPlain
<1>7. /\ LastIndex(i)' = Len(log'[i]) - 1 /\ \A k \in Nat : At(i, k)' = log'[i][k + 1]
      /\ \A k \in Nat : k = LastIndex(i)' => LastTerm(i)' = At(i, k)'.term
  <2>1. lastSnapIndex'[i] = 0
    BY <1>3 DEF NoSnapshots
  <2>2. \A k \in Nat : k - 0 + 1 = k + 1
    OBVIOUS
  <2>3. Len(log'[i]) \in Nat
    BY LenProperties DEF TypeOK
  <2>4. LastIndex(i)' = Len(log'[i]) - 1
    BY <2>1, <2>3 DEF LastIndex
  <2>5. \A k \in Nat : At(i, k)' = log'[i][k + 1]
    BY <2>1, <2>2 DEF At
  <2>6. \A k \in Nat : k = LastIndex(i)' => LastTerm(i)' = At(i, k)'.term
    BY DEF LastTerm, At
  <2> QED BY <2>4, <2>5, <2>6
<1>8. /\ Len(log'[i]) = Len(log[i]) + 1
      /\ \A x \in 1 .. Len(log[i]) : log'[i][x] = log[i][x]
      /\ log'[i][Len(log[i]) + 1] = e
  <2>1. e \in Entry
    BY <1>5
  <2>2. log[i] \in Seq(Entry)
    BY <1>6
  <2>3. /\ Len(Append(log[i], e)) = Len(log[i]) + 1
        /\ \A x \in 1 .. Len(log[i]) : Append(log[i], e)[x] = log[i][x]
        /\ Append(log[i], e)[Len(log[i]) + 1] = e
    BY <2>1, <2>2, AppendProperties
  <2>4. log'[i] = Append(log[i], e)
    BY <1>4
  <2> QED BY <2>3, <2>4
<1>9. LastIndex(i)' = LastIndex(i) + 1
  <2>1. LastIndex(i)' = Len(log'[i]) - 1
    BY <1>7
  <2>2. Len(log'[i]) = Len(log[i]) + 1
    BY <1>8
  <2>3. LastIndex(i) = Len(log[i]) - 1 /\ Len(log[i]) \in Nat
    BY <1>6
  <2> QED BY <2>1, <2>2, <2>3
<1>10. \A n \in Nat :
          n = LastIndex(i) + 1 => At(i, n)'.term = term[i] /\ At(i, n)'.command \in Value
  <2> TAKE n \in Nat
  <2>1. n = LastIndex(i) + 1 => n + 1 = Len(log[i]) + 1
    BY <1>6
  <2> QED BY <1>5, <1>7, <1>8, <2>1
<1>11. LastTerm(i)' = term[i]
  <2>1. LastIndex(i) + 1 \in Nat
    BY <1>6
  <2> QED BY <1>7, <1>9, <1>10, <2>1
<1>12. \A k \in 0 .. LastIndex(i) : At(i, k)' = At(i, k)
  <2> TAKE k \in 0 .. LastIndex(i)
  <2>1. k \in Nat /\ k + 1 \in 1 .. Len(log[i])
    BY <1>6
  <2> QED BY <1>6, <1>7, <1>8, <2>1
<1> QED BY <1>2, <1>4, <1>9, <1>10, <1>11, <1>12 DEF Took

\* A command on a leader changes its log and no other piece.
LEMMA TookPieces ==
    ASSUME TypeOK, NEW i \in Server, Took(i), NEW p \in Pieces'
    PROVE  p \in Pieces \/ p = LogPiece(i)'
<1>1. \A j \in Server : j # i => LogPiece(j)' = LogPiece(j)
  BY SameLogPiece DEF Took
<1>2. CASE \E j \in Server : p = LogPiece(j)'
  BY <1>1, <1>2 DEF Pieces
<1>3. CASE \E j \in Server : p = SnapPiece(lastSnapIndex'[j], lastSnapTerm'[j])
  BY <1>3 DEF Pieces, Took
<1>4. CASE \E m \in messages' : m.type = "AppendEntries" /\ p = CallPiece(m)
  BY <1>4 DEF Pieces, Took
<1>5. CASE \E m \in messages' : m.type = "InstallSnapshot"
                                /\ p = SnapPiece(m.lastSnapIndex, m.lastSnapTerm)
  BY <1>5 DEF Pieces, Took
<1> QED BY <1>2, <1>3, <1>4, <1>5 DEF Pieces

\* r answers call m, and claims no more than what happened.
Answers(m, r) ==
    /\ r.type = "AppendReply" /\ r.from = m.to /\ r.to = m.from /\ r.callTerm = m.term
    /\ r.prevIndex = m.prevIndex /\ r.len = Len(m.entries)
    /\ r.success => Accepted(m)

\* The follower learns from call m how far the log is committed.
Learns(m) ==
    /\ \/ commitIndex'[m.to] = commitIndex[m.to]
       \/ /\ commitIndex[m.to] < m.commit
          /\ commitIndex'[m.to] = Minimum(m.commit, LastIndex(m.to))
    /\ committed \subseteq committed'
    /\ \A r \in committed' :
          \/ r \in committed
          \/ /\ commitIndex[m.to] < r.index /\ r.index <= commitIndex'[m.to]
             /\ r.index <= LastIndex(m.to)' /\ r.entry = At(m.to, r.index)'
             /\ \A x \in committed : x.index = r.index => x.entry # r.entry

\* The handler of call m.
Received(m) ==
    /\ m \in Calls /\ m.to \in Server
    /\ \A j \in Server : j # m.to =>
          /\ log'[j] = log[j] /\ term'[j] = term[j] /\ states'[j] = states[j]
          /\ commitIndex'[j] = commitIndex[j]
    /\ UNCHANGED <<lastSnapIndex, lastSnapTerm, elected, cast, nextIndex, matchIndex,
                   lastApply, applied, down>>
    /\ \A r \in messages' : r \in messages \/ Answers(m, r)
    /\ \/ /\ m.term < term[m.to]
          /\ UNCHANGED <<term, states, log, commitIndex, committed>>
       \/ /\ m.term >= term[m.to]
          /\ term'[m.to] = m.term /\ states'[m.to] = "Follower"
          /\ UNCHANGED <<log, commitIndex, committed>>
       \/ Accepted(m) /\ Learns(m)

LEMMA AnswerShape ==
    ASSUME NEW m, NEW t, NEW success \in BOOLEAN, NEW c, AnswerAppend(m, t, success, c),
           success => Accepted(m)
    PROVE  \A r \in messages' : r \in messages \/ Answers(m, r)
<1> DEFINE r0 == [type |-> "AppendReply", from |-> m.to, to |-> m.from, term |-> t,
                  success |-> success, conflict |-> c,
                  callTerm |-> m.term, prevIndex |-> m.prevIndex, len |-> Len(m.entries)]
<1>1. \A r \in messages' : r \in messages \/ r = r0
  BY DEF AnswerAppend, Reply
<1>2. Answers(m, r0)
  BY DEF Answers
<1> HIDE DEF r0
<1> QED BY <1>1, <1>2

LEMMA EndTermFacts ==
    ASSUME TypeOK, NEW m \in messages, m.type = "AppendEntries"
    PROVE  /\ m.prevIndex \in Nat /\ Len(m.entries) \in Nat
           /\ End(m) = m.prevIndex + Len(m.entries) /\ End(m) \in Nat
           /\ Len(m.entries) = 0 => EndTerm(m) = m.prevTerm
           /\ Len(m.entries) > 0 => EndTerm(m) = m.entries[Len(m.entries)].term
           /\ CallPiece(m).first = m.prevIndex /\ CallPiece(m).last = End(m)
           /\ CallPiece(m) \in Pieces /\ PieceOk(CallPiece(m))
<1>1. m.prevIndex \in Nat /\ Len(m.entries) \in Nat
  BY MessageFacts, LenProperties
<1>2. End(m) = m.prevIndex + Len(m.entries) /\ End(m) \in Nat
  BY <1>1 DEF End
<1>3. CallPiece(m).at[End(m)] = IF End(m) = m.prevIndex THEN Dummy(m.prevTerm)
                                ELSE m.entries[End(m) - m.prevIndex]
  <2>1. End(m) \in m.prevIndex .. End(m)
    BY <1>1, <1>2
  <2> QED BY <2>1 DEF CallPiece
<1>4. Len(m.entries) = 0 => EndTerm(m) = m.prevTerm
  <2>1. Len(m.entries) = 0 => End(m) = m.prevIndex
    BY <1>1, <1>2
  <2> QED BY <1>3, <2>1 DEF EndTerm, Dummy
<1>5. Len(m.entries) > 0 => EndTerm(m) = m.entries[Len(m.entries)].term
  <2>1. Len(m.entries) > 0 => End(m) # m.prevIndex /\ End(m) - m.prevIndex = Len(m.entries)
    BY <1>1, <1>2
  <2> QED BY <1>3, <2>1 DEF EndTerm
<1>6. /\ CallPiece(m).first = m.prevIndex /\ CallPiece(m).last = End(m)
      /\ CallPiece(m) \in Pieces
  BY DEF CallPiece, Pieces
<1> QED BY <1>1, <1>2, <1>4, <1>5, <1>6, PieceTypes DEF PiecesTyped

LEMMA AcceptedNow ==
    ASSUME PlainStep, CommitBase, TypeOK', NEW m \in messages, AppendEntries(m),
           m.term >= term[m.to],
           m.prevIndex \in lastSnapIndex[m.to] .. LastIndex(m.to),
           At(m.to, m.prevIndex).term = m.prevTerm, Overtakes(m),
           log' = [log EXCEPT ![m.to] = Merged(m.to, m)],
           term'[m.to] = m.term, states'[m.to] = "Follower"
    PROVE  Accepted(m)
<1> DEFINE i == m.to
<1>1. /\ TypeOK /\ NoSnapshots /\ m.type = "AppendEntries" /\ i \in Server
      /\ UNCHANGED <<lastSnapIndex, lastSnapTerm>> /\ m \in Calls
  BY MessageFacts DEF CommitBase, LogInv, ElectionInv, VoteInv, AppendEntries, Calls
<1>2. /\ Len(m.entries) > 0 => m \notin overtaken
      /\ \A n \in Calls \ overtaken' :
            n.from = m.from /\ n.to = m.to /\ n.term = m.term => End(m) <= End(n)
  <2>1. m.entries # <<>> => m \notin overtaken
    BY DEF Overtakes, PlainStep
  <2>2. Len(m.entries) > 0 => m.entries # <<>>
    OBVIOUS
  <2>3. ASSUME NEW n \in Calls, n \notin overtaken',
               n.from = m.from, n.to = m.to, n.term = m.term
        PROVE  End(m) <= End(n)
    <3>1. n \in messages /\ n.type = "AppendEntries" /\ End(m) \in Nat /\ End(n) \in Nat
      BY <1>1, <2>3, EndTermFacts DEF Calls
    <3>2. ~(End(n) < End(m))
      BY <2>3, <3>1 DEF Overtakes
    <3> QED BY <3>1, <3>2
  <2> QED BY <2>1, <2>2, <2>3
<1>3. log'[i] = Merged(i, m) /\ lastSnapIndex[i] = 0 /\ lastSnapIndex'[i] = 0
  BY <1>1 DEF TypeOK, NoSnapshots
<1>4. m.prevIndex \in 0 .. LastIndex(i)
  BY <1>3
<1>5. /\ Len(m.entries) = 0 => log'[i] = log[i]
      /\ Len(m.entries) > 0 =>
            /\ Len(log'[i]) = End(m) + 1
            /\ log'[i][End(m) + 1].term = m.entries[Len(m.entries)].term
  BY <1>1, <1>3, <1>4, MergedEnd
<1>6. /\ m.prevIndex \in Nat /\ Len(m.entries) \in Nat
      /\ End(m) = m.prevIndex + Len(m.entries) /\ End(m) \in Nat
      /\ Len(m.entries) = 0 => EndTerm(m) = m.prevTerm
      /\ Len(m.entries) > 0 => EndTerm(m) = m.entries[Len(m.entries)].term
  BY <1>1, EndTermFacts
<1>7. LastIndex(i)' = Len(log'[i]) - 1 /\ \A k \in Nat : At(i, k)' = log'[i][k + 1]
  <2>1. \A k \in Nat : k - 0 + 1 = k + 1
    OBVIOUS
  <2>2. Len(log'[i]) \in Nat
    BY <1>1, LenProperties DEF TypeOK
  <2>3. LastIndex(i)' = Len(log'[i]) - 1
    BY <1>3, <2>2 DEF LastIndex
  <2> QED BY <1>3, <2>1, <2>3 DEF At
<1>8. LastIndex(i) = Len(log[i]) - 1 /\ \A k \in Nat : At(i, k) = log[i][k + 1]
  BY <1>1, AtPlain
<1>9. CASE Len(m.entries) = 0
  <2>1. End(m) = m.prevIndex /\ LastIndex(i)' = LastIndex(i)
    BY <1>5, <1>6, <1>7, <1>8, <1>9
  <2>2. At(i, End(m))'.term = EndTerm(m)
    BY <1>5, <1>6, <1>7, <1>8, <1>9, <2>1
  <2> QED BY <1>1, <1>2, <1>4, <1>5, <1>9, <2>1, <2>2 DEF Accepted
<1>10. CASE Len(m.entries) > 0
  <2>1. LastIndex(i)' = End(m)
    <3> DEFINE n == Len(log'[i])
               e == End(m)
    <3>1. n = e + 1 /\ e \in Nat
      BY <1>5, <1>6, <1>10
    <3>2. LastIndex(i)' = n - 1
      BY <1>7
    <3>3. n - 1 = e
      <4> HIDE DEF n, e
      <4> QED BY <3>1
    <3> HIDE DEF n, e
    <3>4. e = End(m)
      BY DEF e
    <3> QED BY <3>2, <3>3, <3>4
  <2>2. At(i, End(m))'.term = EndTerm(m)
    BY <1>5, <1>6, <1>7, <1>10
  <2>3. End(m) \in 0 .. LastIndex(i)'
    BY <1>6, <2>1
  <2> QED BY <1>1, <1>2, <1>10, <2>1, <2>2, <2>3 DEF Accepted
<1> QED BY <1>6, <1>9, <1>10

LEMMA AppendEntriesMoves ==
    ASSUME PlainStep, CommitBase, TypeOK', NEW m \in messages, AppendEntries(m)
    PROVE  Received(m)
<1> DEFINE i == m.to
<1>1. /\ TypeOK /\ NoSnapshots /\ m.type = "AppendEntries" /\ i \in Server
      /\ UNCHANGED <<lastSnapIndex, lastSnapTerm, elected, cast, nextIndex, matchIndex,
                     lastApply, applied>>
      /\ m \in Calls
  BY MessageFacts DEF CommitBase, LogInv, ElectionInv, VoteInv, AppendEntries, Calls, leaderVars
<1>2. lastSnapIndex[i] = 0
  BY <1>1 DEF NoSnapshots
<1>3. CASE /\ m.term < term[i]
           /\ AnswerAppend(m, term[i], FALSE, Len(log[i]))
           /\ UNCHANGED <<term, vote, states, log, commitIndex, committed, envVars>>
  <2>1. \A r \in messages' : r \in messages \/ Answers(m, r)
    BY <1>3, AnswerShape
  <2> QED BY <1>1, <1>3, <2>1 DEF Received, envVars
<1>4. CASE /\ m.term >= term[i]
           /\ term' = [term EXCEPT ![i] = m.term]
           /\ states' = [states EXCEPT ![i] = "Follower"]
           /\ Follow(i, m, m.term)
  <2>1. /\ term'[i] = m.term /\ states'[i] = "Follower"
        /\ \A j \in Server : j # i => term'[j] = term[j] /\ states'[j] = states[j]
    BY <1>1, <1>4 DEF TypeOK
  <2>2. CASE /\ \E c : AnswerAppend(m, m.term, FALSE, c)
             /\ UNCHANGED <<log, commitIndex, committed, envVars>>
    <3>1. \A r \in messages' : r \in messages \/ Answers(m, r)
      BY <2>2, AnswerShape
    <3> QED BY <1>1, <1>4, <2>1, <2>2, <3>1 DEF Received, envVars
  <2>3. CASE /\ m.prevIndex \in lastSnapIndex[i] .. LastIndex(i)
             /\ At(i, m.prevIndex).term = m.prevTerm
             /\ log' = [log EXCEPT ![i] = Merged(i, m)]
             /\ commitIndex' = [commitIndex EXCEPT ![i] =
                                  IF m.commit > commitIndex[i]
                                  THEN Minimum(m.commit, LastIndex(i)) ELSE commitIndex[i]]
             /\ committed' = Commits(i, Merged(i, m),
                                Minimum(IF m.commit > commitIndex[i]
                                        THEN Minimum(m.commit, LastIndex(i)) ELSE commitIndex[i],
                                        lastSnapIndex[i] + Len(Merged(i, m)) - 1), m.term)
             /\ AnswerAppend(m, m.term, TRUE, 0)
             /\ Overtakes(m)
             /\ UNCHANGED envVars
    <3> DEFINE c == IF m.commit > commitIndex[i]
                    THEN Minimum(m.commit, LastIndex(i)) ELSE commitIndex[i]
    <3>1. Accepted(m)
      BY <1>4, <2>1, <2>3, AcceptedNow
    <3>2. \A r \in messages' : r \in messages \/ Answers(m, r)
      BY <2>3, <3>1, AnswerShape
    <3>3. /\ commitIndex'[i] = c /\ log'[i] = Merged(i, m)
          /\ \A j \in Server : j # i => commitIndex'[j] = commitIndex[j] /\ log'[j] = log[j]
      BY <1>1, <2>3 DEF TypeOK
    <3>4. /\ m.commit \in Nat /\ LastIndex(i) \in Nat /\ commitIndex[i] \in Nat /\ c \in Nat
          /\ LastIndex(i)' = 0 + Len(log'[i]) - 1 /\ LastIndex(i)' \in Nat
      <4>1. m.commit \in Nat /\ LastIndex(i) \in Nat /\ commitIndex[i] \in Nat
        BY <1>1, MessageFacts, LogFacts DEF TypeOK
      <4>2. LastIndex(i)' = 0 + Len(log'[i]) - 1 /\ LastIndex(i)' \in Nat
        BY <1>1, <1>2, LengthsTyped DEF LastIndex
      <4> QED BY <4>1, <4>2 DEF Minimum
    <3>5. committed' = Commits(i, Merged(i, m), Minimum(c, LastIndex(i)'), m.term)
      BY <1>2, <2>3, <3>3, <3>4
    <3>6. c = commitIndex[i] \/ (commitIndex[i] < m.commit /\ c = Minimum(m.commit, LastIndex(i)))
      BY <3>4
    <3> HIDE DEF c
    <3>7. Learns(m)
      <4>1. committed \subseteq committed'
        BY <3>5 DEF Commits
      <4>2. ASSUME NEW r \in committed', r \notin committed
            PROVE  /\ commitIndex[i] < r.index /\ r.index <= commitIndex'[i]
                   /\ r.index <= LastIndex(i)' /\ r.entry = At(i, r.index)'
                   /\ \A x \in committed : x.index = r.index => x.entry # r.entry
        <5>1. PICK k \in {n \in Maximum(commitIndex[i], lastSnapIndex[i]) + 1
                                   .. Minimum(c, LastIndex(i)') :
                            \A x \in committed : x.index = n =>
                                x.entry # Merged(i, m)[n - lastSnapIndex[i] + 1]} :
                   r = [index |-> k, entry |-> Merged(i, m)[k - lastSnapIndex[i] + 1],
                        term |-> m.term]
          BY <3>5, <4>2 DEF Commits
        <5>2. /\ r.index = k /\ r.entry = Merged(i, m)[k - lastSnapIndex[i] + 1]
              /\ k \in Maximum(commitIndex[i], 0) + 1 .. Minimum(c, LastIndex(i)')
              /\ \A x \in committed : x.index = k => x.entry # r.entry
          BY <1>2, <5>1
        <5>3. Maximum(commitIndex[i], 0) = commitIndex[i]
          BY <3>4 DEF Maximum
        <5>4. commitIndex[i] < k /\ k <= c /\ k <= LastIndex(i)'
          BY <3>4, <5>2, <5>3 DEF Minimum
        <5>5. At(i, k)' = Merged(i, m)[k - lastSnapIndex[i] + 1]
          BY <1>1, <1>2, <3>3 DEF At
        <5> QED BY <3>3, <5>2, <5>4, <5>5
      <4>3. \/ commitIndex'[i] = commitIndex[i]
            \/ commitIndex[i] < m.commit /\ commitIndex'[i] = Minimum(m.commit, LastIndex(i))
        BY <3>3, <3>6
      <4> QED BY <4>1, <4>2, <4>3 DEF Learns
    <3> QED BY <1>1, <2>1, <2>3, <3>1, <3>2, <3>3, <3>7 DEF Received, envVars
  <2> QED BY <1>2, <1>4, <2>2, <2>3 DEF Follow
<1> QED BY <1>3, <1>4 DEF AppendEntries

\* A step that only sends.
Sends ==
    /\ UNCHANGED <<term, states, log, lastSnapIndex, lastSnapTerm, elected, cast, commitIndex,
                   committed, nextIndex, matchIndex, lastApply, applied, down>>
    /\ \A m \in messages' :
          \/ m \in messages
          \/ m.type = "InstallSnapshot" /\ m.lastSnapIndex = 0 /\ m.lastSnapTerm = 0
          \/ m.type = "AppendEntries" /\ Sent(m)

LEMMA SendAppendMoves ==
    ASSUME PlainStep, CommitBase, TypeOK', NEW i \in Server, NEW j \in Server, SendAppend(i, j)
    PROVE  Sends
<1> DEFINE next == nextIndex[i][j]
           prev == next - 1
           install == [type |-> "InstallSnapshot", from |-> i, to |-> j, awaited |-> TRUE,
                       term |-> term[i], lastSnapIndex |-> lastSnapIndex[i],
                       lastSnapTerm |-> lastSnapTerm[i], data |-> snap[i]]
           append == [type |-> "AppendEntries", from |-> i, to |-> j, awaited |-> TRUE,
                      term |-> term[i], prevIndex |-> prev,
                      prevTerm |-> At(i, prev).term,
                      entries |-> SubSeq(log[i], next - lastSnapIndex[i] + 1, Len(log[i])),
                      commit |-> commitIndex[i]]
<1>1. /\ TypeOK /\ NoSnapshots /\ AcksAreTrue /\ i # j
      /\ UNCHANGED <<term, states, log, lastSnapIndex, lastSnapTerm, elected, cast, commitIndex,
                     committed, nextIndex, matchIndex, lastApply, applied>>
  BY DEF CommitBase, LogInv, ElectionInv, VoteInv, SendAppend, electionVars, logVars, applyVars
<1>2. states[i] = "Leader"
  BY DEF SendAppend, MaySend, PlainStep, PlainCluster
<1>3. /\ next \in Nat /\ lastSnapIndex[i] = 0 /\ LastIndex(i) \in Nat
      /\ next <= LastIndex(i) + 1
  <2>1. next \in Nat
    BY <1>1 DEF TypeOK
  <2>2. lastSnapIndex[i] = 0 /\ LastIndex(i) \in Nat
    BY <1>1, LogFacts DEF NoSnapshots
  <2>3. next <= LastIndex(i) + 1
    BY <1>1, <1>2 DEF AcksAreTrue
  <2> QED BY <2>1, <2>2, <2>3
<1>4. \/ Send({install}) /\ UNCHANGED envVars
      \/ /\ next > lastSnapIndex[i] /\ prev <= LastIndex(i)
         /\ Send({append}) /\ UNCHANGED envVars
  <2>1. ~(prev > LastIndex(i))
    <3> HIDE DEF next
    <3> QED BY <1>3
  <2> QED BY <2>1 DEF SendAppend
<1>5. CASE Send({install}) /\ UNCHANGED envVars
  <2>1. /\ install.type = "InstallSnapshot" /\ install.lastSnapIndex = 0
        /\ install.lastSnapTerm = 0
    BY <1>1 DEF NoSnapshots
  <2> HIDE DEF install
  <2> QED BY <1>1, <1>5, <2>1 DEF Sends, Send, envVars
<1>6. CASE /\ next > lastSnapIndex[i] /\ prev <= LastIndex(i)
           /\ Send({append}) /\ UNCHANGED envVars
  <2>1. /\ append.type = "AppendEntries" /\ append.prevIndex = prev
        /\ append.from = i /\ append.to = j /\ append.term = term[i]
        /\ append.commit = commitIndex[i]
        /\ append.prevTerm = At(i, prev).term
        /\ append.entries = SubSeq(log[i], next - lastSnapIndex[i] + 1, Len(log[i]))
    OBVIOUS
  <2>2. /\ prev \in lastSnapIndex[i] .. LastIndex(i) /\ prev \in Nat
        /\ next - lastSnapIndex[i] + 1 = prev - lastSnapIndex[i] + 2
        /\ next - lastSnapIndex[i] + 1 = prev + 2
    <3> HIDE DEF next
    <3> QED BY <1>3, <1>6
  <2> HIDE DEF append, prev, next
  <2>3. PieceOk(CallPiece(append)) /\ PartOf(CallPiece(append), LogPiece(i))
    BY <1>1, <2>1, <2>2, CallIsPart
  <2>4. LastIndex(i) = Len(log[i]) - 1 /\ log[i] \in Seq(Entry) /\ Len(log[i]) \in Nat
        /\ LogPiece(i).last = LastIndex(i)
        /\ \A k \in 0 .. LastIndex(i) : LogPiece(i).at[k] = At(i, k)
        /\ LastTerm(i) = At(i, LastIndex(i)).term
    BY <1>1, AtPlain
  <2>5. Len(append.entries) = Len(log[i]) - (prev + 2) + 1
    <3>1. prev + 2 \in Nat /\ prev + 2 >= 1 /\ prev + 2 <= Len(log[i]) + 1
      BY <1>3, <2>2, <2>4
    <3>2. Len(SubSeq(log[i], prev + 2, Len(log[i]))) = Len(log[i]) - (prev + 2) + 1
      BY <2>4, <3>1, TailFacts
    <3> QED BY <2>1, <2>2, <3>2
  <2>6. End(append) = LastIndex(i)
    BY <2>1, <2>2, <2>4, <2>5 DEF End
  <2>7. EndTerm(append) = LastTerm(i)
    <3>1. CallPiece(append).first = prev /\ CallPiece(append).last = LastIndex(i)
      BY <2>1, <2>6 DEF CallPiece
    <3>2. LastIndex(i) \in CallPiece(append).first .. CallPiece(append).last
          /\ LastIndex(i) \in 0 .. LastIndex(i)
      BY <1>3, <2>2, <3>1
    <3>3. CallPiece(append).at[LastIndex(i)].term = LogPiece(i).at[LastIndex(i)].term
      BY <2>3, <3>2 DEF PartOf
    <3> QED BY <2>4, <2>6, <3>2, <3>3 DEF EndTerm
  <2>8. Sent(append)
    BY <1>1, <1>2, <2>1, <2>3, <2>6, <2>7 DEF Sent
  <2> QED BY <1>1, <1>6, <2>1, <2>8 DEF Sends, Send, envVars
<1> QED BY <1>4, <1>5, <1>6

-----------------------------------------------------------------------------
(* Every step, as far as logs and calls go *)

Moves ==
    \/ QuietAction /\ StillCalls
    \/ \E i \in Server : Took(i)
    \/ Sends
    \/ \E m \in messages : Received(m)

LEMMA NextMoves ==
    ASSUME PlainStep, CommitBase, TypeOK', [Next]_vars
    PROVE  Moves
BY PlainSteps, QuietAreStill, StartMoves, SendAppendMoves, AppendEntriesMoves DEF Moves

LEMMA NextNoSnapshots ==
    ASSUME CommitBase, Moves
    PROVE  NoSnapshots'
<1>1. NoSnapshots /\ TypeOK
  BY DEF CommitBase, LogInv, ElectionInv, VoteInv
<1>2. ASSUME QuietAction PROVE NoSnapshots'
  <2>1. QuietLogs
    BY <1>2, QuietAreStill
  <2> QED BY <1>1, <2>1 DEF QuietLogs, NoSnapshots
<1>3. ASSUME NEW m \in messages, Received(m) PROVE NoSnapshots'
  <2>1. \A r \in messages' : r \in messages \/ r.type = "AppendReply"
    BY <1>3 DEF Received, Answers
  <2> QED BY <1>1, <1>3, <2>1 DEF Received, NoSnapshots
<1>4. ASSUME NEW i \in Server, Took(i) PROVE NoSnapshots'
  BY <1>1, <1>4 DEF Took, NoSnapshots
<1>5. ASSUME Sends PROVE NoSnapshots'
  <2>1. \A r \in messages' : r \in messages \/ r.type # "InstallSnapshot"
                             \/ (r.lastSnapIndex = 0 /\ r.lastSnapTerm = 0)
    BY <1>5 DEF Sends
  <2> QED BY <1>1, <1>5, <2>1 DEF Sends, NoSnapshots
<1> QED BY <1>2, <1>3, <1>4, <1>5 DEF Moves

LEMMA LogsMoved ==
    ASSUME CommitBase, TypeOK', NoSnapshots', Moves
    PROVE  LogsMove
<1>1. NoSnapshots /\ TypeOK
  BY DEF CommitBase, LogInv, ElectionInv, VoteInv
<1> SUFFICES ASSUME NEW j \in Server
             PROVE  Grows(j) \/ \E m \in Calls : m.to = j /\ Len(m.entries) > 0 /\ Accepted(m)
  BY DEF LogsMove
<1>2. lastSnapIndex'[j] = lastSnapIndex[j]
  BY <1>1 DEF NoSnapshots
<1>3. log'[j] = log[j] => Grows(j)
  BY <1>1, <1>2, SameGrows
<1>4. ASSUME NEW i \in Server, Took(i) PROVE Grows(j)
  <2>1. CASE j = i
    <3>1. LastIndex(i) \in Nat /\ LastTerm(i) \in Nat /\ LastTerm(i) <= term[i]
      BY <1>1, LogFacts DEF CommitBase, LogsBehindTerms
    <3> QED BY <1>4, <2>1, <3>1 DEF Took, Grows
  <2>2. CASE j # i
    BY <1>3, <1>4, <2>2 DEF Took
  <2> QED BY <2>1, <2>2
<1>5. ASSUME NEW m \in messages, Received(m), log'[j] # log[j]
      PROVE  m \in Calls /\ m.to = j /\ Len(m.entries) > 0 /\ Accepted(m)
  <2>1. m.to = j /\ Accepted(m) /\ m \in Calls
    BY <1>5 DEF Received
  <2>2. Len(m.entries) \in Nat
    BY <1>1, <2>1, EndTermFacts DEF Calls
  <2>3. Len(m.entries) # 0
    BY <1>5, <2>1 DEF Accepted
  <2> QED BY <2>1, <2>2, <2>3
<1> QED BY <1>3, <1>4, <1>5 DEF Moves, StillCalls, Sends

LEMMA LateStayLate ==
    ASSUME [Next]_vars
    PROVE  messages \cap overtaken \subseteq overtaken' /\ (late' = {} => late = {})
<1>1. ASSUME NEW m \in messages, AppendEntries(m)
      PROVE  messages \cap overtaken \subseteq overtaken' /\ (late' = {} => late = {})
  BY <1>1, CallsInOrder DEF Overtakes, orderVars
<1>2. ASSUME NEW i, \/ StartElection(i) \/ Tally(i) \/ Broadcast(i)
                    \/ Snapshot(i) \/ Apply(i) \/ Restart(i)
      PROVE  UNCHANGED orderVars
  BY <1>2 DEF StartElection, Tally, Broadcast, Snapshot, Apply, Restart
<1>3. ASSUME NEW i, NEW v, Start(i, v) \/ SendAppend(i, v) PROVE UNCHANGED orderVars
  BY <1>3 DEF Start, SendAppend
<1>4. ASSUME NEW m, \/ RequestVote(m) \/ VoteReply(m) \/ AppendReply(m)
                    \/ InstallSnapshot(m) \/ InstallReply(m)
      PROVE  UNCHANGED orderVars
  BY <1>4 DEF RequestVote, VoteReply, AppendReply, InstallSnapshot, InstallReply
<1>5. CASE UNCHANGED vars
  BY <1>5 DEF vars, orderVars
<1>6. UNCHANGED orderVars =>
         messages \cap overtaken \subseteq overtaken' /\ (late' = {} => late = {})
  BY DEF orderVars
<1> QED BY <1>1, <1>2, <1>3, <1>4, <1>5, <1>6 DEF Next

LEMMA CallsMoved ==
    ASSUME CommitBase, Moves, [Next]_vars
    PROVE  CallsMove
<1>1. ASSUME NEW m \in messages, Received(m), NEW r \in Calls' PROVE r \in Calls
  BY <1>1 DEF Received, Answers, Calls
<1>2. ASSUME NEW i \in Server, Took(i), NEW r \in Calls' PROVE r \in Calls
  BY <1>2 DEF Took, Calls
<1>3. ASSUME Sends, NEW r \in Calls' PROVE r \in Calls \/ Sent(r)
  BY <1>3 DEF Sends, Calls
<1> QED BY <1>1, <1>2, <1>3, LateStayLate DEF Moves, StillCalls, CallsMove

\* Node j just won the first election of its term.
Fresh(j) ==
    /\ \A e \in elected : e.term # term'[j]
    /\ \A x \in Server : matchIndex'[j][x] = 0 /\ nextIndex'[j][x] = LastIndex(j) + 1
    /\ LastTerm(j)' < term'[j] /\ LastIndex(j)' = LastIndex(j)
    /\ \A m \in messages' : m \in messages \/ m.type = "RequestVote"

\* Terms grow; who stands or leads did so before in that term, or begins to.
Roles ==
    /\ elected \subseteq elected' /\ cast \subseteq cast'
    /\ \A j \in Server :
          /\ term'[j] >= term[j]
          /\ states'[j] # "Follower" /\ term'[j] = term[j] => states[j] # "Follower"
          /\ states'[j] = "Leader" => (states[j] = "Leader" /\ term'[j] = term[j]) \/ Fresh(j)
          /\ states'[j] = "Candidate" => LastTerm(j)' < term'[j]

LEMMA SteadyRoles ==
    ASSUME CommitBase, Steady, cast \subseteq cast',
           \A j \in Server : states'[j] = "Candidate" => LastTerm(j)' = LastTerm(j)
    PROVE  Roles
<1>1. TypeOK /\ LogsBehindTerms
  BY DEF CommitBase, LogInv, ElectionInv, VoteInv
<1> QED BY <1>1 DEF Steady, Roles, LogsBehindTerms

LEMMA FreshIsFirst ==
    ASSUME CommitBase, LogInv', ElectionSafety', NEW i \in Server, elected \subseteq elected',
           states'[i] = "Leader",
           \/ term'[i] > term[i]
           \/ term'[i] = term[i] /\ states[i] = "Candidate"
    PROVE  \A e \in elected : e.term # term'[i]
<1> SUFFICES ASSUME NEW e \in elected, e.term = term'[i] PROVE FALSE
  OBVIOUS
<1> DEFINE w == [node |-> i, term |-> term'[i]]
<1>1. w \in elected' /\ e \in elected' /\ w.node = i /\ w.term = term'[i]
  BY DEF LogInv, WinnersStay
<1> HIDE DEF w
<1>2. e.node = i
  BY <1>1 DEF ElectionSafety
<1>3. e.term <= term[i] /\ (e.term = term[i] => states[i] # "Candidate")
  BY <1>2 DEF CommitBase, LogInv, WinnersStay
<1>4. term[i] \in Nat /\ e.term \in Nat
  BY DEF CommitBase, LogInv, ElectionInv, VoteInv, TypeOK
<1> QED BY <1>3, <1>4

LEMMA BecomesFresh ==
    ASSUME CommitBase, LogInv', ElectionSafety', NEW i \in Server, NEW t \in Nat,
           elected \subseteq elected', StillCalls,
           BecomeLeader(i, t), term'[i] = t,
           t > term[i] \/ (t = term[i] /\ states[i] = "Candidate"),
           \A m \in messages' : m \in messages \/ m.type = "RequestVote"
    PROVE  Fresh(i)
<1>1. TypeOK /\ NoSnapshots /\ LogsBehindTerms
  BY DEF CommitBase, LogInv, ElectionInv, VoteInv
<1>2. states'[i] = "Leader"
  BY <1>1 DEF BecomeLeader, TypeOK
<1>3. \A e \in elected : e.term # term'[i]
  BY <1>2, FreshIsFirst
<1>4. \A x \in Server : matchIndex'[i][x] = 0 /\ nextIndex'[i][x] = LastIndex(i) + 1
  BY <1>1 DEF BecomeLeader, FirstNext, TypeOK
<1>5. LastTerm(i)' = LastTerm(i) /\ LastIndex(i)' = LastIndex(i)
  BY <1>1, SameGrows DEF StillCalls
<1>6. LastTerm(i) < t
  <2>1. LastTerm(i) \in Nat /\ term[i] \in Nat
    BY <1>1, LogFacts DEF TypeOK
  <2> QED BY <1>1, <2>1 DEF LogsBehindTerms
<1> QED BY <1>3, <1>4, <1>5, <1>6 DEF Fresh

LEMMA ElectionRoles ==
    ASSUME PlainStep, CommitBase, LogInv', ElectionSafety', StillCalls,
           \/ \E i \in Server : StartElection(i)
           \/ \E m \in messages : VoteReply(m)
    PROVE  Roles
<1>1. TypeOK /\ NoSnapshots /\ LogsBehindTerms
  BY DEF CommitBase, LogInv, ElectionInv, VoteInv
<1>2. \A j \in Server : /\ LastTerm(j)' = LastTerm(j) /\ LastTerm(j) \in Nat
                        /\ term[j] \in Nat /\ LastTerm(j) <= term[j]
  BY <1>1, SameGrows, LogFacts DEF StillCalls, TypeOK, LogsBehindTerms
<1>3. ASSUME NEW i \in Server, StartElection(i) PROVE Roles
  <2>1. /\ term'[i] = term[i] + 1
        /\ \A j \in Server : j # i => term'[j] = term[j] /\ states'[j] = states[j]
        /\ states'[i] # "Candidate" => BecomeLeader(i, term[i] + 1)
        /\ elected \subseteq elected' /\ cast \subseteq cast'
    BY <1>1, <1>3 DEF StartElection, BecomeLeader, TypeOK, State
  <2>2. \A m \in messages' : m \in messages \/ m.type = "RequestVote"
    <3> DEFINE new == {[type |-> "RequestVote", from |-> i, to |-> j, awaited |-> TRUE,
                        term |-> term[i] + 1, lastIndex |-> LastIndex(i),
                        lastTerm |-> LastTerm(i)] : j \in Server \ {i}}
    <3>1. Send(new)
      BY <1>3 DEF StartElection
    <3>2. \A r \in new : r.type = "RequestVote"
      OBVIOUS
    <3> HIDE DEF new
    <3> QED BY <3>1, <3>2 DEF Send
  <2>3. states'[i] = "Leader" => Fresh(i)
    <3>1. term[i] + 1 \in Nat /\ term[i] + 1 > term[i]
      BY <1>2
    <3> QED BY <2>1, <2>2, <3>1, BecomesFresh
  <2>4. ASSUME NEW j \in Server
        PROVE  /\ term'[j] >= term[j]
               /\ states'[j] # "Follower" /\ term'[j] = term[j] => states[j] # "Follower"
               /\ states'[j] = "Leader" => (states[j] = "Leader" /\ term'[j] = term[j]) \/ Fresh(j)
               /\ states'[j] = "Candidate" => LastTerm(j)' < term'[j]
    <3>1. CASE j = i
      BY <1>2, <2>1, <2>3, <3>1
    <3>2. CASE j # i
      BY <1>1, <1>2, <2>1, <3>2 DEF LogsBehindTerms
    <3> QED BY <3>1, <3>2
  <2> QED BY <2>1, <2>4 DEF Roles
<1>4. ASSUME NEW m \in messages, VoteReply(m) PROVE Roles
  <2> DEFINE i == m.to
  <2>1. i \in Server /\ m.term \in Nat /\ cast' = cast
    BY <1>1, <1>4, MessageFacts DEF VoteReply
  <2>2. CASE /\ elected' = elected
             /\ \/ UNCHANGED <<term, states>>
                \/ /\ m.term > term[i]
                   /\ term' = [term EXCEPT ![i] = m.term]
                   /\ states' = [states EXCEPT ![i] = "Follower"]
    <3>1. m.term > term[i] => m.term >= term[i]
      BY <1>2, <2>1
    <3>2. Steady
      BY <1>1, <2>1, <2>2, <3>1, FallsBack
    <3> QED BY <1>2, <2>1, <3>2, SteadyRoles
  <2>3. CASE states[i] = "Candidate" /\ term' = term /\ BecomeLeader(i, term[i])
    <3>1. /\ elected \subseteq elected'
          /\ states'[i] = "Leader"
          /\ \A j \in Server : j # i => states'[j] = states[j]
      BY <1>1, <2>1, <2>3 DEF BecomeLeader, TypeOK
    <3>2. \A r \in messages' : r \in messages \/ r.type = "RequestVote"
      BY <1>4 DEF VoteReply, Discard
    <3>3. Fresh(i)
      BY <1>2, <2>1, <2>3, <3>1, <3>2, BecomesFresh
    <3>4. ASSUME NEW j \in Server
          PROVE  /\ term'[j] >= term[j]
                 /\ states'[j] # "Follower" /\ term'[j] = term[j] => states[j] # "Follower"
                 /\ states'[j] = "Leader" =>
                       (states[j] = "Leader" /\ term'[j] = term[j]) \/ Fresh(j)
                 /\ states'[j] = "Candidate" => LastTerm(j)' < term'[j]
      <4>1. CASE j = i
        BY <1>2, <2>3, <3>1, <3>3, <4>1
      <4>2. CASE j # i
        BY <1>1, <1>2, <2>3, <3>1, <4>2 DEF LogsBehindTerms
      <4> QED BY <4>1, <4>2
    <3> QED BY <2>1, <3>1, <3>4 DEF Roles
  <2> QED BY <1>4, <2>2, <2>3 DEF VoteReply
<1> QED BY <1>3, <1>4

\* A step in which node i keeps its term and state, or follows in a term not below.
LEMMA OtherRoles ==
    ASSUME CommitBase, NEW i \in Server, NEW t \in Nat, elected' = elected, cast \subseteq cast',
           \/ UNCHANGED <<term, states>>
           \/ /\ t >= term[i]
              /\ term' = [term EXCEPT ![i] = t]
              /\ states' = [states EXCEPT ![i] = "Follower"],
           \A j \in Server : states'[j] = "Candidate" => LastTerm(j)' = LastTerm(j)
    PROVE  Roles
<1>1. TypeOK
  BY DEF CommitBase, LogInv, ElectionInv, VoteInv
<1>2. Steady
  BY <1>1, FallsBack
<1> QED BY <1>2, SteadyRoles

LEMMA NextRoles ==
    ASSUME PlainStep, CommitBase, LogInv', ElectionSafety', Moves
    PROVE  Roles
<1>1. TypeOK /\ NoSnapshots /\ LogsBehindTerms
  BY DEF CommitBase, LogInv, ElectionInv, VoteInv
<1>2. \A j \in Server : term[j] \in Nat
  BY <1>1 DEF TypeOK
<1>3. PICK any \in Server : TRUE
  BY RaftAssumption
<1>4. ASSUME UNCHANGED <<term, states, elected, cast>>,
             \A j \in Server : states'[j] = "Candidate" => LastTerm(j)' = LastTerm(j)
      PROVE  Roles
  <2>1. 0 \in Nat
    OBVIOUS
  <2> QED BY <1>3, <1>4, <2>1, OtherRoles
<1>5. ASSUME StillCalls PROVE \A j \in Server : LastTerm(j)' = LastTerm(j)
  BY <1>1, <1>5, SameGrows DEF StillCalls
<1>6. ASSUME StillCalls, NEW i \in Server, Broadcast(i) \/ Apply(i) \/ UNCHANGED vars PROVE Roles
  <2>1. UNCHANGED <<term, states, elected, cast>>
    BY <1>6 DEF Broadcast, Apply, vars, electionVars
  <2> QED BY <1>4, <1>5, <1>6, <2>1
<1>7. ASSUME StillCalls, NEW m \in messages,
             RequestVote(m) \/ AppendReply(m) \/ InstallSnapshot(m) \/ InstallReply(m)
      PROVE  Roles
  <2> DEFINE i == m.to
  <2>1. i \in Server /\ m.term \in Nat
    BY <1>1, MessageFacts
  <2>2. /\ elected' = elected /\ cast \subseteq cast'
    BY <1>7 DEF RequestVote, AppendReply, InstallSnapshot, InstallReply
  <2>3. \/ UNCHANGED <<term, states>>
        \/ /\ m.term >= term[i]
           /\ term' = [term EXCEPT ![i] = m.term]
           /\ states' = [states EXCEPT ![i] = "Follower"]
    <3>1. CASE AppendReply(m) \/ InstallSnapshot(m) \/ InstallReply(m)
      <4>1. m.term > term[i] => m.term >= term[i]
        BY <1>2, <2>1
      <4> HIDE DEF i
      <4>2. \/ UNCHANGED <<term, states>>
            \/ /\ m.term >= term[i] \/ m.term > term[i]
               /\ term' = [term EXCEPT ![i] = m.term]
               /\ states' = [states EXCEPT ![i] = "Follower"]
        BY <3>1 DEF AppendReply, InstallSnapshot, InstallReply, i
      <4> QED BY <4>1, <4>2
    <3>2. CASE RequestVote(m)
      <4>1. /\ term' = [term EXCEPT ![i] = Maximum(@, m.term)]
            /\ states' = IF m.term > term[i] THEN [states EXCEPT ![i] = "Follower"] ELSE states
        BY <3>2 DEF RequestVote
      <4>2. CASE m.term > term[i]
        <5>1. m.term >= term[i] /\ Maximum(term[i], m.term) = m.term
          BY <1>2, <2>1, <4>2 DEF Maximum
        <5> QED BY <4>1, <4>2, <5>1
      <4>3. CASE ~(m.term > term[i])
        <5>1. Maximum(term[i], m.term) = term[i]
          BY <1>2, <2>1, <4>3 DEF Maximum
        <5> QED BY <1>1, <4>1, <4>3, <5>1 DEF TypeOK
      <4> QED BY <4>2, <4>3
    <3> QED BY <1>7, <3>1, <3>2
  <2> HIDE DEF i
  <2>4. \A j \in Server : states'[j] = "Candidate" => LastTerm(j)' = LastTerm(j)
    BY <1>5, <1>7
  <2> QED BY <2>1, <2>2, <2>3, <2>4, OtherRoles
<1>8. ASSUME NEW i \in Server, Took(i) PROVE Roles
  <2>1. \A j \in Server : j # i => LastTerm(j)' = LastTerm(j)
    BY <1>1, <1>8, SameGrows DEF Took
  <2>2. states'[i] = "Leader" /\ UNCHANGED <<term, states, elected, cast>>
    BY <1>8 DEF Took
  <2> QED BY <1>4, <2>1, <2>2
<1>9. ASSUME Sends PROVE Roles
  <2>1. \A j \in Server : LastTerm(j)' = LastTerm(j)
    BY <1>1, <1>9, SameGrows DEF Sends
  <2> QED BY <1>4, <1>9, <2>1 DEF Sends
<1>10. ASSUME NEW m \in messages, Received(m) PROVE Roles
  <2>1. \A j \in Server : j # m.to => LastTerm(j)' = LastTerm(j)
    BY <1>1, <1>10, SameGrows DEF Received
  <2>2. /\ m.to \in Server /\ elected' = elected /\ cast' = cast /\ m.term \in Nat
        /\ \A j \in Server : j # m.to => term'[j] = term[j] /\ states'[j] = states[j]
    BY <1>1, <1>10, MessageFacts DEF Received
  <2>3. CASE m.term < term[m.to] /\ UNCHANGED <<term, states, log>>
    <3>1. \A j \in Server : LastTerm(j)' = LastTerm(j)
      BY <1>1, <1>10, <2>3, SameGrows DEF Received
    <3> QED BY <1>4, <2>2, <2>3, <3>1
  <2>4. CASE m.term >= term[m.to] /\ term'[m.to] = m.term /\ states'[m.to] = "Follower"
    <3>1. Steady
      BY <1>2, <2>2, <2>4 DEF Steady
    <3> QED BY <2>1, <2>2, <2>4, <3>1, SteadyRoles
  <2> QED BY <1>10, <2>3, <2>4 DEF Received, Accepted
<1> QED BY <1>3, <1>6, <1>7, <1>8, <1>9, <1>10, ElectionRoles DEF Moves, QuietAction

\* m is the vote request of a node that just became a candidate.
Asks(m) ==
    /\ m.type = "RequestVote" /\ m.from # m.to /\ m.from \in Server
    /\ m.term = term'[m.from] /\ m.lastIndex = LastIndex(m.from) /\ m.lastTerm = LastTerm(m.from)
    /\ StillCalls

\* Where the messages come from that others act on.
MessagesMove ==
    \A m \in messages' :
        \/ m \in messages
        \/ m.type \in {"AppendEntries", "InstallSnapshot", "VoteReply", "InstallReply"}
        \/ Asks(m)
        \/ m.type = "AppendReply" /\ \E n \in messages : Answers(n, m) /\ Received(n)

\* i votes for the sender of m.
Grants(m, c) ==
    /\ m \in messages /\ m.type = "RequestVote" /\ m.to \in Server /\ m.from \in Server
    /\ c.voter = m.to /\ c.term = m.term /\ c.candidate = m.from
    /\ m.term >= term[m.to] /\ UpToDate(m.to, m)
    /\ StillCalls

\* A vote is a candidacy of the voter's own or granted on request.
VotesMove ==
    \A c \in cast' :
        \/ c \in cast
        \/ /\ c.candidate = c.voter /\ c.voter \in Server /\ c.term = term'[c.voter]
           /\ c.term > term[c.voter] /\ StillCalls
        \/ \E m \in messages : Grants(m, c)

LEMMA StartElectionSends ==
    ASSUME CommitBase, StillCalls, NEW i \in Server, StartElection(i)
    PROVE  MessagesMove /\ VotesMove
<1>1. TypeOK
  BY DEF CommitBase, LogInv, ElectionInv, VoteInv
<1> DEFINE new == {[type |-> "RequestVote", from |-> i, to |-> j, awaited |-> TRUE,
                    term |-> term[i] + 1, lastIndex |-> LastIndex(i),
                    lastTerm |-> LastTerm(i)] : j \in Server \ {i}}
           c0 == [voter |-> i, term |-> term[i] + 1, candidate |-> i]
<1>2. Send(new) /\ term'[i] = term[i] + 1 /\ cast' = cast \cup {c0}
  BY <1>1 DEF StartElection, TypeOK
<1>3. \A r \in new : /\ r.type = "RequestVote" /\ r.from = i /\ r.from # r.to
                     /\ r.term = term[i] + 1 /\ r.lastIndex = LastIndex(i)
                     /\ r.lastTerm = LastTerm(i)
  OBVIOUS
<1>4. c0.voter = i /\ c0.candidate = i /\ c0.term = term[i] + 1
  OBVIOUS
<1>5. term[i] + 1 > term[i]
  BY <1>1 DEF TypeOK
<1> HIDE DEF new, c0
<1>6. \A r \in new : Asks(r)
  BY <1>2, <1>3 DEF Asks
<1>7. \A m \in messages' : m \in messages \/ m \in new
  BY <1>2 DEF Send
<1>8. \A c \in cast' : c \in cast \/ c = c0
  BY <1>2
<1> QED BY <1>2, <1>4, <1>5, <1>6, <1>7, <1>8 DEF MessagesMove, VotesMove

LEMMA RequestVoteAnswers ==
    ASSUME CommitBase, StillCalls, NEW m \in messages, RequestVote(m)
    PROVE  MessagesMove /\ VotesMove
<1>1. TypeOK
  BY DEF CommitBase, LogInv, ElectionInv, VoteInv
<1> DEFINE granted == m.term >= term[m.to] /\ FreeToVote(m.to, m) /\ UpToDate(m.to, m)
           c0 == [voter |-> m.to, term |-> m.term, candidate |-> m.from]
           r0 == [type |-> "VoteReply", from |-> m.to, to |-> m.from,
                  term |-> Maximum(term[m.to], m.term), granted |-> granted,
                  election |-> m.term]
<1>2. /\ m.type = "RequestVote" /\ Reply(m, r0)
      /\ cast' = IF granted THEN cast \cup {c0} ELSE cast
  BY DEF RequestVote
<1>3. m.to \in Server /\ m.from \in Server
  BY <1>1, MessageFacts
<1>4. \A r \in messages' : r \in messages \/ r = r0
  BY <1>2 DEF Reply
<1>5. r0.type = "VoteReply" /\ c0.voter = m.to /\ c0.term = m.term /\ c0.candidate = m.from
  OBVIOUS
<1>6. granted => m.term >= term[m.to] /\ UpToDate(m.to, m)
  OBVIOUS
<1>7. \A c \in cast' : c \in cast \/ (granted /\ c = c0)
  BY <1>2
<1> HIDE DEF granted, c0, r0
<1>8. granted => Grants(m, c0)
  BY <1>2, <1>3, <1>5, <1>6 DEF Grants
<1>9. VotesMove
  BY <1>7, <1>8 DEF VotesMove
<1>10. MessagesMove
  BY <1>4, <1>5 DEF MessagesMove
<1> QED BY <1>9, <1>10

LEMMA MessagesMoved ==
    ASSUME CommitBase, Moves
    PROVE  MessagesMove /\ VotesMove
<1>1. TypeOK
  BY DEF CommitBase, LogInv, ElectionInv, VoteInv
<1>2. ASSUME NEW i \in Server, Broadcast(i) \/ Apply(i) \/ UNCHANGED vars
      PROVE  messages' = messages /\ cast' = cast
  BY <1>2 DEF Broadcast, Apply, vars
<1>3. ASSUME NEW m \in messages, VoteReply(m) \/ AppendReply(m) \/ InstallReply(m)
      PROVE  messages' \subseteq messages /\ cast' = cast
  BY <1>3 DEF VoteReply, AppendReply, InstallReply, Discard
<1>4. ASSUME NEW m \in messages, InstallSnapshot(m)
      PROVE  cast' = cast /\ \A r \in messages' : r \in messages \/ r.type = "InstallReply"
  BY <1>4 DEF InstallSnapshot, Reply
<1>5. ASSUME NEW i \in Server, Took(i) PROVE messages' = messages /\ cast' = cast
  BY <1>5 DEF Took
<1>6. CASE Sends
  BY <1>6 DEF Sends, MessagesMove, VotesMove
<1>7. ASSUME NEW m \in messages, Received(m) PROVE MessagesMove /\ VotesMove
  <2>1. cast' = cast /\ \A r \in messages' : r \in messages \/ Answers(m, r)
    BY <1>7 DEF Received
  <2> QED BY <1>7, <2>1 DEF MessagesMove, VotesMove, Answers
<1>8. ASSUME cast' = cast,
             \A r \in messages' : r \in messages \/ r.type = "InstallReply"
      PROVE  MessagesMove /\ VotesMove
  BY <1>8 DEF MessagesMove, VotesMove
<1>9. PICK any \in Server : TRUE
  BY RaftAssumption
<1>10. CASE QuietAction /\ StillCalls
  BY <1>2, <1>3, <1>4, <1>8, <1>9, <1>10, StartElectionSends, RequestVoteAnswers DEF QuietAction
<1> QED BY <1>5, <1>6, <1>7, <1>8, <1>10 DEF Moves

-----------------------------------------------------------------------------
(* What a leader notes of its peers *)

\* Leader i notes what an answer told it, and asks for nothing beyond its log.
Notes(i) ==
    \A j \in Server :
        /\ \/ matchIndex'[i][j] = matchIndex[i][j]
           \/ matchIndex'[i][j] = 0
           \/ j = i
           \/ \E m \in messages : /\ AnswersTo(i, m) /\ m.from = j /\ m.len > 0
                                  /\ matchIndex'[i][j] = Acknowledged(m)
        /\ nextIndex'[i][j] <= LastIndex(i) + 1

IndexesMove == \A i \in Server : states[i] = "Leader" /\ states'[i] = "Leader" => Notes(i)

LEMMA AppendReplyNotes ==
    ASSUME CommitBase, NEW m \in messages, AppendReply(m)
    PROVE  IndexesMove
<1>1. TypeOK /\ AcksAreTrue
  BY DEF CommitBase, LogInv, ElectionInv, VoteInv
<1> SUFFICES ASSUME NEW i \in Server, states[i] = "Leader", states'[i] = "Leader",
                    NEW j \in Server
             PROVE  /\ \/ matchIndex'[i][j] = matchIndex[i][j]
                       \/ matchIndex'[i][j] = 0
                       \/ j = i
                       \/ \E n \in messages : /\ AnswersTo(i, n) /\ n.from = j /\ n.len > 0
                                              /\ matchIndex'[i][j] = Acknowledged(n)
                    /\ nextIndex'[i][j] <= LastIndex(i) + 1
  BY DEF IndexesMove, Notes
<1>2. /\ m.to \in Server /\ m.from \in Server /\ m.type = "AppendReply"
      /\ m.prevIndex \in Nat /\ m.len \in Nat /\ m.conflict \in Nat
  BY <1>1, MessageFacts DEF AppendReply
<1>3. LastIndex(i) \in Nat /\ nextIndex[i][j] <= LastIndex(i) + 1
  BY <1>1, LogFacts DEF AcksAreTrue
<1>4. CASE UNCHANGED <<nextIndex, matchIndex>>
  BY <1>3, <1>4
<1>5. CASE /\ StillLeads(m.to, m) /\ m.success
           /\ nextIndex' = [nextIndex EXCEPT ![m.to][m.from] = Acknowledged(m) + 1]
           /\ matchIndex' = [matchIndex EXCEPT ![m.to] =
                                IF m.len > 0
                                THEN [matchIndex[m.to] EXCEPT ![m.from] = Acknowledged(m)]
                                ELSE matchIndex[m.to]]
  <2>1. CASE i = m.to
    <3>1. AnswersTo(i, m)
      BY <1>2, <1>5, <2>1 DEF AnswersTo, StillLeads
    <3>2. Acknowledged(m) <= LastIndex(i) /\ Acknowledged(m) \in Nat
      BY <1>1, <1>2, <3>1 DEF AcksAreTrue, Acknowledged
    <3>3. nextIndex'[i][j] = IF j = m.from THEN Acknowledged(m) + 1 ELSE nextIndex[i][j]
      BY <1>1, <1>2, <1>5, <2>1 DEF TypeOK
    <3>4. matchIndex'[i] = IF m.len > 0
                           THEN [matchIndex[i] EXCEPT ![m.from] = Acknowledged(m)]
                           ELSE matchIndex[i]
      BY <1>1, <1>2, <1>5, <2>1 DEF TypeOK
    <3>5. matchIndex'[i][j] = matchIndex[i][j]
          \/ (j = m.from /\ m.len > 0 /\ matchIndex'[i][j] = Acknowledged(m))
      BY <1>1, <1>2, <3>4 DEF TypeOK
    <3>6. nextIndex'[i][j] <= LastIndex(i) + 1
      <4> HIDE DEF LastIndex
      <4> QED BY <1>3, <3>2, <3>3
    <3> QED BY <3>1, <3>5, <3>6
  <2>2. CASE i # m.to
    <3>1. nextIndex'[i] = nextIndex[i] /\ matchIndex'[i] = matchIndex[i]
      BY <1>1, <1>5, <2>2 DEF TypeOK
    <3> QED BY <1>3, <3>1
  <2> QED BY <2>1, <2>2
<1>6. CASE /\ UNCHANGED matchIndex
           /\ nextIndex' = [nextIndex EXCEPT ![m.to][m.from] =
                               Minimum(m.conflict, LastIndex(m.to) + 1)]
  <2>1. nextIndex'[i][j] = nextIndex[i][j]
        \/ nextIndex'[i][j] = Minimum(m.conflict, LastIndex(i) + 1)
    BY <1>1, <1>2, <1>6 DEF TypeOK
  <2>2. Minimum(m.conflict, LastIndex(i) + 1) <= LastIndex(i) + 1
    BY <1>2, <1>3 DEF Minimum
  <2> QED BY <1>3, <1>6, <2>1, <2>2
<1>7. \/ UNCHANGED <<nextIndex, matchIndex>>
      \/ /\ StillLeads(m.to, m) /\ m.success
         /\ nextIndex' = [nextIndex EXCEPT ![m.to][m.from] = Acknowledged(m) + 1]
         /\ matchIndex' = [matchIndex EXCEPT ![m.to] =
                              IF m.len > 0
                              THEN [matchIndex[m.to] EXCEPT ![m.from] = Acknowledged(m)]
                              ELSE matchIndex[m.to]]
      \/ /\ UNCHANGED matchIndex
         /\ nextIndex' = [nextIndex EXCEPT ![m.to][m.from] =
                             Minimum(m.conflict, LastIndex(m.to) + 1)]
  BY DEF AppendReply
<1> QED BY <1>4, <1>5, <1>6, <1>7

LEMMA IndexesMoved ==
    ASSUME PlainStep, CommitBase, Moves
    PROVE  IndexesMove
<1>1. TypeOK /\ AcksAreTrue /\ NoSnapshots
  BY DEF CommitBase, LogInv, ElectionInv, VoteInv
<1>2. \A i \in Server : LastIndex(i) \in Nat
  BY <1>1, LogFacts
<1>3. ASSUME NEW i \in Server, states[i] = "Leader",
             matchIndex'[i] = matchIndex[i], nextIndex'[i] = nextIndex[i]
      PROVE  Notes(i)
  BY <1>1, <1>3 DEF Notes, AcksAreTrue
<1>4. ASSUME UNCHANGED <<matchIndex, nextIndex>> PROVE IndexesMove
  BY <1>3, <1>4 DEF IndexesMove
<1>5. ASSUME NEW x \in Server, states[x] # "Leader", NEW t,
             UNCHANGED leaderVars \/ BecomeLeader(x, t)
      PROVE  IndexesMove
  <2>1. \A i \in Server : i # x => matchIndex'[i] = matchIndex[i] /\ nextIndex'[i] = nextIndex[i]
    BY <1>1, <1>5 DEF BecomeLeader, TypeOK, leaderVars
  <2> QED BY <1>3, <1>5, <2>1 DEF IndexesMove
<1>6. ASSUME NEW i \in Server, StartElection(i) PROVE IndexesMove
  <2>1. states[i] # "Leader"
    BY <1>6 DEF StartElection, PlainStep, PlainCluster
  <2> QED BY <1>5, <1>6, <2>1 DEF StartElection
<1>7. ASSUME NEW m \in messages, VoteReply(m) PROVE IndexesMove
  <2>1. m.to \in Server
    BY <1>1, MessageFacts
  <2>2. CASE UNCHANGED leaderVars
    BY <1>4, <2>2 DEF leaderVars
  <2>3. CASE states[m.to] = "Candidate" /\ BecomeLeader(m.to, term[m.to])
    BY <1>5, <2>1, <2>3
  <2> QED BY <1>7, <2>2, <2>3 DEF VoteReply
<1>8. ASSUME NEW x \in Server, Broadcast(x) PROVE IndexesMove
  <2>1. /\ nextIndex' = nextIndex
        /\ \/ matchIndex' = matchIndex
           \/ matchIndex' = [matchIndex EXCEPT ![x][x] = LastIndex(x)]
    BY <1>8 DEF Broadcast
  <2>2. \A i, j \in Server : matchIndex'[i][j] = matchIndex[i][j] \/ j = i
    <3> TAKE i, j \in Server
    <3>1. matchIndex \in [Server -> [Server -> Nat]]
      BY <1>1 DEF TypeOK
    <3> HIDE DEF LastIndex
    <3>2. j # i => ([matchIndex EXCEPT ![x][x] = LastIndex(x)])[i][j] = matchIndex[i][j]
      BY <3>1
    <3> QED BY <2>1, <3>2
  <2>3. \A i, j \in Server : states[i] = "Leader" => nextIndex'[i][j] <= LastIndex(i) + 1
    BY <1>1, <2>1 DEF AcksAreTrue
  <2> QED BY <2>2, <2>3 DEF IndexesMove, Notes
<1>9. ASSUME NEW m \in messages, InstallReply(m) PROVE IndexesMove
  <2>1. m.to \in Server /\ m.from \in Server /\ lastSnapIndex[m.to] = 0
    BY <1>1, MessageFacts DEF NoSnapshots
  <2>2. \/ UNCHANGED <<nextIndex, matchIndex>>
        \/ /\ nextIndex' = [nextIndex EXCEPT ![m.to][m.from] = 1]
           /\ matchIndex' = [matchIndex EXCEPT ![m.to][m.from] = 0]
    <3>1. 0 + 1 = 1
      OBVIOUS
    <3> QED BY <1>9, <2>1, <3>1 DEF InstallReply
  <2>3. ASSUME nextIndex' = [nextIndex EXCEPT ![m.to][m.from] = 1],
               matchIndex' = [matchIndex EXCEPT ![m.to][m.from] = 0]
        PROVE  IndexesMove
    <3>1. \A i, j \in Server : /\ matchIndex'[i][j] = matchIndex[i][j] \/ matchIndex'[i][j] = 0
                               /\ nextIndex'[i][j] = nextIndex[i][j] \/ nextIndex'[i][j] = 1
      BY <1>1, <2>1, <2>3 DEF TypeOK
    <3>2. \A i \in Server : 1 <= LastIndex(i) + 1
      <4> HIDE DEF LastIndex
      <4> QED BY <1>2
    <3>3. \A i, j \in Server : states[i] = "Leader" => nextIndex'[i][j] <= LastIndex(i) + 1
      BY <1>1, <3>1, <3>2 DEF AcksAreTrue
    <3> QED BY <3>1, <3>3 DEF IndexesMove, Notes
  <2> QED BY <1>4, <2>2, <2>3
<1>10. ASSUME NEW m \in messages, RequestVote(m) \/ InstallSnapshot(m) PROVE IndexesMove
  BY <1>4, <1>10 DEF RequestVote, InstallSnapshot, leaderVars
<1>11. ASSUME NEW i \in Server, Apply(i) \/ UNCHANGED vars PROVE IndexesMove
  BY <1>4, <1>11 DEF Apply, vars, leaderVars
<1>12. PICK any \in Server : TRUE
  BY RaftAssumption
<1>13. CASE QuietAction
  BY <1>6, <1>7, <1>8, <1>9, <1>10, <1>11, <1>12, <1>13, AppendReplyNotes DEF QuietAction
<1>14. ASSUME NEW i \in Server, Took(i) PROVE IndexesMove
  BY <1>4, <1>14 DEF Took
<1>15. CASE Sends
  BY <1>4, <1>15 DEF Sends
<1>16. ASSUME NEW m \in messages, Received(m) PROVE IndexesMove
  BY <1>4, <1>16 DEF Received
<1> QED BY <1>13, <1>14, <1>15, <1>16 DEF Moves

-----------------------------------------------------------------------------
(* Every step keeps the first part of the invariant *)

LogsChange ==
    \A j \in Server :
        \/ log'[j] = log[j]
        \/ Took(j)
        \/ \E m \in Calls : m.to = j /\ Len(m.entries) > 0 /\ Accepted(m)

\* A step, with all that is known of it.
Step ==
    /\ PlainStep /\ CommitBase /\ [Next]_vars
    /\ LogInv' /\ ElectionSafety /\ ElectionSafety' /\ NoSnapshots'
    /\ Moves /\ LogsMove /\ LogsChange /\ CallsMove /\ Roles
    /\ MessagesMove /\ VotesMove /\ IndexesMove

LEMMA LogsChanged ==
    ASSUME CommitBase, Moves
    PROVE  LogsChange
<1>1. TypeOK
  BY DEF CommitBase, LogInv, ElectionInv, VoteInv
<1> SUFFICES ASSUME NEW j \in Server, log'[j] # log[j]
             PROVE  \/ Took(j)
                    \/ \E m \in Calls : m.to = j /\ Len(m.entries) > 0 /\ Accepted(m)
  BY DEF LogsChange
<1>2. ASSUME NEW i \in Server, Took(i) PROVE Took(j)
  BY <1>2 DEF Took
<1>3. ASSUME NEW m \in messages, Received(m)
      PROVE  m \in Calls /\ m.to = j /\ Len(m.entries) > 0 /\ Accepted(m)
  <2>1. m.to = j /\ Accepted(m) /\ m \in Calls
    BY <1>3 DEF Received
  <2>2. Len(m.entries) \in Nat /\ Len(m.entries) # 0
    BY <1>1, <2>1, EndTermFacts DEF Calls, Accepted
  <2> QED BY <2>1, <2>2
<1> QED BY <1>2, <1>3 DEF Moves, StillCalls, Sends

LEMMA StepFacts ==
    ASSUME PlainStep, CommitBase, [Next]_vars, LogInv', ElectionSafety'
    PROVE  Step
<1>1. TypeOK'
  BY DEF LogInv, ElectionInv, VoteInv
<1>2. Moves
  BY <1>1, NextMoves
<1>3. NoSnapshots' /\ CallsMove /\ Roles /\ MessagesMove /\ VotesMove /\ IndexesMove /\ LogsChange
  BY <1>2, NextNoSnapshots, CallsMoved, NextRoles, MessagesMoved, IndexesMoved, LogsChanged
<1>4. LogsMove
  BY <1>1, <1>2, <1>3, LogsMoved
<1>5. ElectionSafety
  BY OneWinner DEF CommitBase, LogInv
<1> QED BY <1>2, <1>3, <1>4, <1>5 DEF Step

LEMMA BaseFacts ==
    ASSUME Step
    PROVE  /\ TypeOK /\ TypeOK' /\ NoSnapshots /\ NoSnapshots' /\ LogInv /\ LogInv'
           /\ \A j \in Server : /\ term[j] \in Nat /\ term'[j] \in Nat /\ term'[j] >= term[j]
                                /\ LastIndex(j) \in Nat /\ LastTerm(j) \in Nat
                                /\ LastIndex(j)' \in Nat /\ LastTerm(j)' \in Nat
           /\ \A m \in Calls' : CallPiece(m)' = CallPiece(m) /\ End(m)' = End(m)
                                /\ EndTerm(m)' = EndTerm(m)
           /\ \A m \in Calls : /\ m \in messages /\ m.type = "AppendEntries"
                               /\ m.term \in Nat /\ m.from \in Server /\ m.to \in Server
                               /\ End(m) \in Nat /\ EndTerm(m) \in Nat
           /\ \A m \in Calls' : /\ m \in messages' /\ m.type = "AppendEntries"
                                /\ m.term \in Nat /\ m.from \in Server /\ m.to \in Server
                                /\ End(m) \in Nat
<1>1. /\ TypeOK /\ TypeOK' /\ NoSnapshots /\ NoSnapshots' /\ LogInv /\ LogInv' /\ Roles
      /\ PiecesAscend /\ CallsMove
  BY DEF Step, CommitBase, LogInv, ElectionInv, VoteInv
<1>2. ASSUME NEW j \in Server
      PROVE  /\ term[j] \in Nat /\ term'[j] \in Nat /\ term'[j] >= term[j]
             /\ LastIndex(j) \in Nat /\ LastTerm(j) \in Nat
             /\ LastIndex(j)' \in Nat /\ LastTerm(j)' \in Nat
  <2>1. term[j] \in Nat /\ term'[j] \in Nat /\ term'[j] >= term[j]
    BY <1>1 DEF TypeOK, Roles
  <2>2. LastIndex(j) \in Nat /\ LastTerm(j) \in Nat
    BY <1>1, LogFacts
  <2>3. (LastIndex(j) \in Nat /\ LastTerm(j) \in Nat)'
    <3>1. log'[j] \in Seq(Entry) /\ log'[j] # <<>> /\ lastSnapIndex'[j] = 0
      BY <1>1 DEF TypeOK, NoSnapshots
    <3> DEFINE n == Len(log'[j])
    <3>2. n \in Nat /\ n > 0 /\ \A x \in 1 .. n : log'[j][x] \in Entry
      BY <3>1, EmptySeq, LenProperties, ElementOfSeq
    <3>3. LastIndex(j)' = 0 + n - 1
      BY <3>1 DEF LastIndex
    <3>4. LastIndex(j)' \in Nat /\ LastIndex(j)' - 0 + 1 = n
      <4> HIDE DEF n
      <4> QED BY <3>2, <3>3
    <3>5. LastTerm(j)' = log'[j][n].term
      BY <3>1, <3>4 DEF LastTerm, At
    <3>6. log'[j][n] \in Entry
      <4> HIDE DEF n
      <4> QED BY <3>2
    <3> QED BY <3>4, <3>5, <3>6 DEF Entry
  <2> QED BY <2>1, <2>2, <2>3
<1>3. \A m \in Calls' : CallPiece(m)' = CallPiece(m) /\ End(m)' = End(m)
                        /\ EndTerm(m)' = EndTerm(m)
  BY DEF CallPiece, End, Dummy, EndTerm
<1>4. ASSUME NEW m \in Calls
      PROVE  /\ m \in messages /\ m.type = "AppendEntries"
             /\ m.term \in Nat /\ m.from \in Server /\ m.to \in Server
             /\ End(m) \in Nat /\ EndTerm(m) \in Nat
  <2>1. m \in messages /\ m.type = "AppendEntries"
    BY DEF Calls
  <2>2. m.term \in Nat /\ m.from \in Server /\ m.to \in Server
    BY <1>1, <2>1, MessageFacts
  <2>3. /\ End(m) \in Nat /\ m.prevIndex \in Nat /\ Len(m.entries) \in Nat
        /\ End(m) = m.prevIndex + Len(m.entries)
        /\ CallPiece(m).first = m.prevIndex /\ CallPiece(m).last = End(m)
        /\ CallPiece(m) \in Pieces
    BY <1>1, <2>1, EndTermFacts
  <2>4. End(m) \in CallPiece(m).first .. CallPiece(m).last
    BY <2>3
  <2>5. EndTerm(m) \in Nat
    BY <1>1, <2>3, <2>4 DEF PiecesAscend, TermsTyped, EndTerm
  <2> QED BY <2>1, <2>2, <2>3, <2>5
<1>5. ASSUME NEW m \in Calls'
      PROVE  /\ m \in messages' /\ m.type = "AppendEntries"
             /\ m.term \in Nat /\ m.from \in Server /\ m.to \in Server
             /\ End(m) \in Nat
  <2>1. m \in messages' /\ m.type = "AppendEntries"
    BY DEF Calls
  <2>2. \/ m \in Calls
        \/ Sent(m)
    BY <1>1 DEF CallsMove
  <2>3. m.term \in Nat /\ m.from \in Server /\ m.to \in Server /\ End(m) \in Nat
    BY <1>2, <1>4, <2>2 DEF Sent
  <2> QED BY <2>1, <2>3
<1> QED BY <1>1, <1>2, <1>3, <1>4, <1>5

\* What the leader of its term sent is a part of its log.
LEMMA CallsOfLeader ==
    ASSUME CommitBase, ElectionSafety, NEW i \in Server, states[i] = "Leader",
           NEW m \in Calls, m.term = term[i]
    PROVE  /\ m.from = i /\ PartOf(CallPiece(m), LogPiece(i))
           /\ End(m) \in Nat /\ End(m) <= LastIndex(i) /\ EndTerm(m) = At(i, End(m)).term
<1>1. TypeOK /\ NoSnapshots /\ WinnersStay /\ CallsFromLeaders
  BY DEF CommitBase, LogInv, ElectionInv, VoteInv
<1> DEFINE a == [node |-> m.from, term |-> m.term]
           b == [node |-> i, term |-> term[i]]
<1>2. a \in elected /\ b \in elected /\ a.node = m.from /\ b.node = i /\ a.term = b.term
  BY <1>1 DEF CallsFromLeaders, WinnersStay
<1> HIDE DEF a, b
<1>3. m.from = i
  BY <1>2 DEF ElectionSafety
<1>4. PartOf(CallPiece(m), LogPiece(i))
  BY <1>1, <1>3 DEF CallsFromLeaders
<1>5. /\ m.prevIndex \in Nat /\ Len(m.entries) \in Nat /\ End(m) = m.prevIndex + Len(m.entries)
      /\ End(m) \in Nat
      /\ CallPiece(m).first = m.prevIndex /\ CallPiece(m).last = End(m)
  BY <1>1, EndTermFacts DEF Calls
<1>6. /\ LogPiece(i).first = 0 /\ LogPiece(i).last = LastIndex(i)
      /\ \A k \in 0 .. LastIndex(i) : LogPiece(i).at[k] = At(i, k)
  BY <1>1, AtPlain
<1>7. End(m) <= LastIndex(i)
  BY <1>4, <1>5, <1>6 DEF PartOf
<1>8. End(m) \in CallPiece(m).first .. CallPiece(m).last
  BY <1>5
<1>9. CallPiece(m).at[End(m)].term = LogPiece(i).at[End(m)].term
  BY <1>4, <1>8 DEF PartOf
<1>10. End(m) \in 0 .. LastIndex(i)
  BY <1>5, <1>7
<1> QED BY <1>3, <1>4, <1>5, <1>6, <1>7, <1>9, <1>10 DEF EndTerm

LEMMA SentFacts ==
    ASSUME CommitBase, ElectionSafety, NEW i \in Server, states[i] = "Leader",
           NEW m, Sent(m), m.term = term[i]
    PROVE  m.from = i
<1> DEFINE a == [node |-> m.from, term |-> m.term]
           b == [node |-> i, term |-> term[i]]
<1>1. a \in elected /\ b \in elected /\ a.node = m.from /\ b.node = i /\ a.term = b.term
  BY DEF CommitBase, LogInv, WinnersStay, Sent
<1> HIDE DEF a, b
<1> QED BY <1>1 DEF ElectionSafety

\* Who does not follow loses nothing.
LEMMA StandingGrow ==
    ASSUME Step, NEW j \in Server, states'[j] # "Follower"
    PROVE  Grows(j)
BY DEF Step, LogsMove, Accepted

LEMMA LogsStayBehind ==
    ASSUME Step
    PROVE  LogsBehindTerms'
<1>1. LogsBehindTerms /\ CallsFromLeaders /\ Roles /\ LogsChange
  BY DEF Step, CommitBase
<1> SUFFICES ASSUME NEW j \in Server PROVE LastTerm(j)' <= term'[j]
  BY <1>1 DEF LogsBehindTerms, Roles
<1>2. /\ TypeOK /\ NoSnapshots /\ NoSnapshots' /\ term[j] \in Nat /\ term'[j] \in Nat
      /\ term'[j] >= term[j] /\ LastTerm(j) \in Nat
  BY BaseFacts
<1>3. CASE log'[j] = log[j]
  <2>1. LastTerm(j)' = LastTerm(j)
    BY <1>2, <1>3, SameGrows DEF NoSnapshots
  <2>2. LastTerm(j) <= term[j]
    BY <1>1 DEF LogsBehindTerms
  <2> QED BY <1>2, <2>1, <2>2
<1>4. CASE Took(j)
  BY <1>2, <1>4 DEF Took
<1>5. ASSUME NEW m \in Calls, m.to = j, Len(m.entries) > 0, Accepted(m)
      PROVE  LastTerm(j)' <= term'[j]
  <2>1. /\ LastIndex(j)' = End(m) /\ term'[j] = m.term /\ At(j, End(m))'.term = EndTerm(m)
    BY <1>5 DEF Accepted
  <2>2. EndTerm(m) <= m.term
    BY <1>1 DEF CallsFromLeaders
  <2>3. \A n \in Nat : n = LastIndex(j)' => LastTerm(j)' = At(j, n)'.term
    BY DEF LastTerm, At
  <2>4. End(m) \in Nat /\ End(m)' = End(m)
    BY BaseFacts DEF End
  <2>5. \A n \in Nat : n = End(m) => At(j, n)' = At(j, End(m))'
    BY <2>4 DEF At
  <2> QED BY <2>1, <2>2, <2>3, <2>4, <2>5
<1> QED BY <1>1, <1>3, <1>4, <1>5 DEF LogsChange

LEMMA LogsStayAscending ==
    ASSUME Step
    PROVE  PiecesAscend'
<1>1. TypeOK /\ TypeOK' /\ NoSnapshots /\ NoSnapshots' /\ PiecesTyped /\ PiecesAscend
      /\ LogsBehindTerms
  BY BaseFacts DEF Step, CommitBase, LogInv
<1>2. ASSUME OnlyDerived PROVE PiecesAscend'
  BY <1>1, <1>2, DerivedAscends DEF OnlyDerived, PiecesTyped, PiecesAscend
<1>3. CASE QuietAction
  BY <1>1, <1>2, <1>3, QuietAreStill, QuietSteps DEF Step
<1>4. ASSUME NEW i \in Server, NEW j \in Server, SendAppend(i, j) PROVE PiecesAscend'
  BY <1>1, <1>2, <1>4, SendAppendPieces
<1>5. ASSUME NEW m \in messages, AppendEntries(m) PROVE PiecesAscend'
  BY <1>1, <1>2, <1>5, AppendEntriesPieces
<1>6. ASSUME NEW i \in Server, NEW v \in Value, Start(i, v) PROVE PiecesAscend'
  <2>1. Took(i)
    BY <1>1, <1>6, StartMoves DEF Step
  <2> DEFINE p == LogPiece(i)'
             q == LogPiece(i)
  <2>2. ASSUME NEW x \in Pieces' PROVE x \in Pieces \/ x = p
    <3>1. \A j \in Server : j # i => LogPiece(j)' = LogPiece(j)
      BY <2>1, SameLogPiece DEF Took
    <3>2. CASE \E j \in Server : x = LogPiece(j)'
      BY <3>1, <3>2 DEF Pieces
    <3>3. CASE \E j \in Server : x = SnapPiece(lastSnapIndex'[j], lastSnapTerm'[j])
      BY <2>1, <3>3 DEF Pieces, Took
    <3>4. CASE \E m \in messages' : m.type = "AppendEntries" /\ x = CallPiece(m)
      BY <2>1, <3>4 DEF Pieces, Took
    <3>5. CASE \E m \in messages' : m.type = "InstallSnapshot"
                                    /\ x = SnapPiece(m.lastSnapIndex, m.lastSnapTerm)
      BY <2>1, <3>5 DEF Pieces, Took
    <3> QED BY <3>2, <3>3, <3>4, <3>5 DEF Pieces
  <2>3. /\ LastIndex(i) \in Nat /\ LastTerm(i) = At(i, LastIndex(i)).term
        /\ q.first = 0 /\ q.last = LastIndex(i) /\ q \in Pieces
        /\ \A k \in 0 .. LastIndex(i) : q.at[k] = At(i, k)
    BY <1>1, AtPlain
  <2>4. TermsTyped(q) /\ Ascending(q) /\ LastTerm(i) <= term[i] /\ term[i] \in Nat
    BY <1>1, <2>3 DEF PiecesAscend, LogsBehindTerms, TypeOK
  <2>5. /\ p.first = 0 /\ p.last = LastIndex(i) + 1
        /\ \A k \in 0 .. LastIndex(i) : p.at[k] = q.at[k]
        /\ \A k \in Nat : k = LastIndex(i) + 1 => p.at[k].term = term[i]
    <3>1. lastSnapIndex'[i] = 0 /\ LastIndex(i)' = LastIndex(i) + 1
      BY <1>1, <2>1 DEF Took, NoSnapshots
    <3>2. p.first = 0 /\ p.last = LastIndex(i) + 1
          /\ \A k \in 0 .. LastIndex(i) + 1 : p.at[k] = At(i, k)'
      BY <3>1 DEF LogPiece
    <3>3. \A k \in 0 .. LastIndex(i) : k \in 0 .. LastIndex(i) + 1
      BY <2>3
    <3>4. \A k \in Nat : k = LastIndex(i) + 1 => k \in 0 .. LastIndex(i) + 1
      BY <2>3
    <3> QED BY <2>1, <2>3, <3>2, <3>3, <3>4 DEF Took
  <2>6. LastIndex(i) \in q.first .. q.last
    BY <2>3
  <2> HIDE DEF p, q
  <2>7. \A k \in 0 .. LastIndex(i) + 1 : k \in 0 .. LastIndex(i) \/ (k \in Nat /\ k = LastIndex(i) + 1)
    BY <2>3
  <2>8. TermsTyped(p)
    BY <2>3, <2>4, <2>5, <2>7 DEF TermsTyped
  <2>9. \A k \in 0 .. LastIndex(i) : q.at[k].term <= term[i] /\ q.at[k].term \in Nat
    <3> TAKE k \in 0 .. LastIndex(i)
    <3>1. k \in q.first .. q.last /\ LastIndex(i) \in k .. q.last
      BY <2>3
    <3>2. q.at[k].term <= q.at[LastIndex(i)].term /\ q.at[k].term \in Nat
      BY <2>4, <3>1 DEF Ascending, TermsTyped
    <3>3. q.at[LastIndex(i)].term = LastTerm(i) /\ LastTerm(i) \in Nat
      <4>1. LastIndex(i) \in 0 .. LastIndex(i)
        BY <2>3
      <4>2. q.at[LastIndex(i)].term = LastTerm(i)
        BY <2>3, <4>1
      <4> QED BY <2>4, <2>6, <4>2 DEF TermsTyped
    <3> QED BY <2>4, <3>2, <3>3
  <2>10. Ascending(p)
    <3> SUFFICES ASSUME NEW k \in p.first .. p.last, NEW h \in k .. p.last
                 PROVE  p.at[k].term <= p.at[h].term
      BY DEF Ascending
    <3>1. k \in 0 .. LastIndex(i) + 1 /\ h \in 0 .. LastIndex(i) + 1 /\ k <= h
      BY <2>3, <2>5
    <3>2. CASE h \in 0 .. LastIndex(i)
      <4>1. k \in 0 .. LastIndex(i) /\ k \in q.first .. q.last /\ h \in k .. q.last
        BY <2>3, <3>1, <3>2
      <4> QED BY <2>4, <2>5, <3>2, <4>1 DEF Ascending
    <3>3. CASE h = LastIndex(i) + 1
      <4>1. p.at[h].term = term[i]
        BY <2>3, <2>5, <3>3
      <4> QED BY <2>4, <2>5, <2>7, <2>9, <3>1, <4>1
    <3> QED BY <2>7, <3>1, <3>2, <3>3
  <2> QED BY <1>1, <2>2, <2>8, <2>10 DEF PiecesAscend
<1> QED BY <1>3, <1>4, <1>5, <1>6, PlainSteps DEF Step

\* Who leads a term that was won before the step led it then.
LEMMA LeadsSince ==
    ASSUME Step, NEW j \in Server, states'[j] = "Leader",
           NEW e \in elected, e.term = term'[j]
    PROVE  states[j] = "Leader" /\ term'[j] = term[j] /\ Grows(j)
BY StandingGrow DEF Step, Roles, Fresh

\* The log of a node that loses nothing keeps its parts.
LEMMA PartOfGrown ==
    ASSUME Step, NEW j \in Server, Grows(j), NEW p, PieceOk(p), PartOf(p, LogPiece(j))
    PROVE  PartOf(p, LogPiece(j)')
<1>1. /\ LogPiece(j).first = 0 /\ LogPiece(j).last = LastIndex(j)
      /\ \A k \in 0 .. LastIndex(j) : LogPiece(j).at[k] = At(j, k)
  BY BaseFacts, AtPlain
<1>2. lastSnapIndex'[j] = 0 /\ LastIndex(j) \in Nat /\ LastIndex(j)' \in Nat
  BY BaseFacts DEF NoSnapshots
<1>3. /\ LogPiece(j)'.first = 0 /\ LogPiece(j)'.last = LastIndex(j)'
      /\ \A k \in 0 .. LastIndex(j)' : LogPiece(j)'.at[k] = At(j, k)'
  BY <1>2 DEF LogPiece
<1>4. \A k \in 0 .. LastIndex(j) : k \in 0 .. LastIndex(j)'
  BY <1>2 DEF Grows
<1>5. \A k \in 0 .. LastIndex(j) : LogPiece(j)'.at[k] = LogPiece(j).at[k]
  BY <1>1, <1>3, <1>4 DEF Grows
<1>6. \A k \in p.first .. p.last : k \in 0 .. LastIndex(j)
  BY <1>1, <1>2 DEF PartOf, PieceOk
<1>7. LastIndex(j) <= LastIndex(j)'
  BY <1>2 DEF Grows
<1> QED BY <1>1, <1>2, <1>3, <1>5, <1>6, <1>7 DEF PartOf, PieceOk

LEMMA CallsStayTrue ==
    ASSUME Step
    PROVE  CallsFromLeaders'
<1>1. /\ CallsFromLeaders /\ CallsMove /\ Roles /\ LogsBehindTerms /\ WinnersStay /\ NoSnapshots
      /\ NoSnapshots' /\ TypeOK
  BY BaseFacts DEF Step, CommitBase, LogInv
<1> SUFFICES ASSUME NEW m \in Calls'
             PROVE  /\ m.from # m.to
                    /\ [node |-> m.from, term |-> m.term] \in elected'
                    /\ EndTerm(m)' <= m.term
                    /\ states'[m.from] = "Leader" /\ term'[m.from] = m.term =>
                          PartOf(CallPiece(m)', LogPiece(m.from)')
  BY DEF CallsFromLeaders
<1> DEFINE e == [node |-> m.from, term |-> m.term]
<1>2. CallPiece(m)' = CallPiece(m) /\ EndTerm(m)' = EndTerm(m) /\ m.from \in Server
  BY BaseFacts
<1>3. e.term = m.term
  OBVIOUS
<1>4. CASE m \in Calls
  <2>1. m.from # m.to /\ e \in elected /\ EndTerm(m) <= m.term
    BY <1>1, <1>4 DEF CallsFromLeaders
  <2>2. ASSUME states'[m.from] = "Leader", term'[m.from] = m.term
        PROVE  PartOf(CallPiece(m), LogPiece(m.from)')
    <3>1. states[m.from] = "Leader" /\ term'[m.from] = term[m.from] /\ Grows(m.from)
      <4> HIDE DEF e
      <4> QED BY <1>2, <1>3, <2>1, <2>2, LeadsSince
    <3>2. PartOf(CallPiece(m), LogPiece(m.from)) /\ PieceOk(CallPiece(m))
      BY <1>1, <1>4, <2>2, <3>1, EndTermFacts DEF CallsFromLeaders, Calls
    <3> QED BY <1>2, <3>1, <3>2, PartOfGrown
  <2> QED BY <1>1, <1>2, <2>1, <2>2 DEF Roles
<1>5. CASE Sent(m)
  <2>1. /\ m.from # m.to /\ states[m.from] = "Leader" /\ m.term = term[m.from]
        /\ EndTerm(m) = LastTerm(m.from) /\ PartOf(CallPiece(m), LogPiece(m.from))
        /\ UNCHANGED <<log, lastSnapIndex>>
    BY <1>5 DEF Sent
  <2>2. LogPiece(m.from)' = LogPiece(m.from)
    BY <1>2, <2>1, SameLogPiece
  <2>3. e \in elected /\ EndTerm(m) <= m.term
    BY <1>1, <1>2, <2>1 DEF WinnersStay, LogsBehindTerms
  <2> QED BY <1>1, <1>2, <2>1, <2>2, <2>3 DEF Roles
<1> QED BY <1>1, <1>4, <1>5 DEF CallsMove

LEMMA CallsKeepGrowing ==
    ASSUME Step
    PROVE  CallsGrow'
<1>1. /\ CommitBase /\ ElectionSafety /\ CallsMove /\ CallsGrow /\ PiecesAscend /\ NoSnapshots /\ TypeOK
  BY BaseFacts DEF Step, CommitBase
<1> SUFFICES ASSUME NEW m \in Calls', NEW n \in Calls', m.term = n.term, End(m) <= End(n)
             PROVE  EndTerm(m) <= EndTerm(n)
  <2>1. \A m \in Calls' : End(m)' = End(m) /\ EndTerm(m)' = EndTerm(m)
    BY BaseFacts
  <2> QED BY <2>1 DEF CallsGrow
<1>2. ASSUME NEW i \in Server, states[i] = "Leader", m.term = term[i]
      PROVE  EndTerm(m) <= EndTerm(n)
  <2>1. /\ LastIndex(i) \in Nat /\ LastTerm(i) = At(i, LastIndex(i)).term
        /\ LogPiece(i).first = 0 /\ LogPiece(i).last = LastIndex(i) /\ LogPiece(i) \in Pieces
        /\ \A k \in 0 .. LastIndex(i) : LogPiece(i).at[k] = At(i, k)
    BY <1>1, AtPlain
  <2>2. ASSUME NEW x \in Calls', x.term = term[i]
        PROVE  End(x) \in Nat /\ End(x) <= LastIndex(i) /\ EndTerm(x) = At(i, End(x)).term
    <3>1. CASE x \in Calls
      BY <1>1, <1>2, <2>2, <3>1, CallsOfLeader
    <3>2. CASE Sent(x)
      <4>1. x.from = i
        BY <1>1, <1>2, <2>2, <3>2, SentFacts
      <4>2. End(x) = LastIndex(i) /\ EndTerm(x) = LastTerm(i)
        BY <3>2, <4>1 DEF Sent
      <4> QED BY <2>1, <4>2
    <3> QED BY <1>1, <3>1, <3>2 DEF CallsMove
  <2>3. /\ End(m) \in Nat /\ End(m) <= LastIndex(i) /\ EndTerm(m) = At(i, End(m)).term
        /\ End(n) \in Nat /\ End(n) <= LastIndex(i) /\ EndTerm(n) = At(i, End(n)).term
    BY <1>2, <2>2
  <2>4. End(m) \in LogPiece(i).first .. LogPiece(i).last
        /\ End(n) \in End(m) .. LogPiece(i).last
        /\ End(m) \in 0 .. LastIndex(i) /\ End(n) \in 0 .. LastIndex(i)
    BY <2>1, <2>3
  <2>5. LogPiece(i).at[End(m)].term <= LogPiece(i).at[End(n)].term
    BY <1>1, <2>1, <2>4 DEF PiecesAscend, Ascending
  <2> QED BY <2>1, <2>3, <2>4, <2>5
<1>3. CASE Sent(m)
  BY <1>2, <1>3 DEF Sent
<1>4. CASE Sent(n)
  BY <1>2, <1>4 DEF Sent
<1>5. CASE m \in Calls /\ n \in Calls
  BY <1>1, <1>5 DEF CallsGrow
<1> QED BY <1>1, <1>3, <1>4, <1>5 DEF CallsMove

LEMMA RequestsStayTrue ==
    ASSUME Step
    PROVE  RequestsDescribe' /\ CandidatesKnow'
<1>1. /\ RequestsDescribe /\ CandidatesKnow /\ Roles /\ MessagesMove /\ VotesMove /\ TypeOK
      /\ TypeOK' /\ NoSnapshots
  BY BaseFacts DEF Step, CommitBase
<1>2. ASSUME NEW m \in messages', m.type = "RequestVote"
      PROVE  /\ m.from # m.to /\ m.term <= term'[m.from]
             /\ states'[m.from] # "Follower" /\ term'[m.from] = m.term =>
                   Reaches(m.from, m.lastTerm, m.lastIndex)'
  <2>1. CASE m \in messages
    <3>1. /\ m.from \in Server /\ m.term \in Nat /\ m.lastIndex \in Nat /\ m.lastTerm \in Nat
      BY <1>1, <1>2, <2>1, MessageFacts
    <3>2. /\ m.from # m.to /\ m.term <= term[m.from]
          /\ states[m.from] # "Follower" /\ term[m.from] = m.term =>
                Reaches(m.from, m.lastTerm, m.lastIndex)
      BY <1>1, <1>2, <2>1 DEF RequestsDescribe
    <3>3. /\ term[m.from] \in Nat /\ term'[m.from] \in Nat /\ term'[m.from] >= term[m.from]
          /\ LastIndex(m.from) \in Nat /\ LastTerm(m.from) \in Nat
          /\ LastIndex(m.from)' \in Nat /\ LastTerm(m.from)' \in Nat
      BY <3>1, BaseFacts
    <3>4. ASSUME states'[m.from] # "Follower", term'[m.from] = m.term
          PROVE  Reaches(m.from, m.lastTerm, m.lastIndex)'
      <4>1. term[m.from] = m.term /\ term'[m.from] = term[m.from]
        BY <3>1, <3>2, <3>3, <3>4
      <4>2. states[m.from] # "Follower"
        BY <1>1, <3>1, <3>4, <4>1 DEF Roles
      <4>3. NotOlder(LastTerm(m.from), LastIndex(m.from), m.lastTerm, m.lastIndex)
        BY <3>2, <4>1, <4>2 DEF Reaches
      <4>4. LastIndex(m.from)' >= LastIndex(m.from) /\ LastTerm(m.from)' >= LastTerm(m.from)
        BY <3>1, <3>4, StandingGrow DEF Grows
      <4>5. NotOlder(LastTerm(m.from)', LastIndex(m.from)', m.lastTerm, m.lastIndex)
        <5> DEFINE a == LastTerm(m.from)
                   n == LastIndex(m.from)
                   b == LastTerm(m.from)'
                   x == LastIndex(m.from)'
        <5>1. a \in Nat /\ n \in Nat /\ b \in Nat /\ x \in Nat /\ a <= b /\ n <= x
              /\ NotOlder(a, n, m.lastTerm, m.lastIndex)
          BY <3>3, <4>3, <4>4
        <5> HIDE DEF a, n, b, x
        <5>2. NotOlder(b, x, m.lastTerm, m.lastIndex)
          BY <3>1, <5>1, NotOlderUp
        <5> QED BY <5>2 DEF b, x
      <4> QED BY <4>5 DEF Reaches, NotOlder
    <3> QED BY <3>1, <3>2, <3>3, <3>4
  <2>2. CASE Asks(m)
    <3>1. m.from # m.to /\ m.from \in Server /\ m.term = term'[m.from]
      BY <2>2 DEF Asks
    <3>2. LastIndex(m.from)' = LastIndex(m.from) /\ LastTerm(m.from)' = LastTerm(m.from)
      BY <1>1, <2>2, <3>1, SameGrows DEF Asks, StillCalls
    <3>3. LastIndex(m.from)' = m.lastIndex /\ LastTerm(m.from)' = m.lastTerm
          /\ LastIndex(m.from)' \in Nat /\ term'[m.from] \in Nat
      BY <2>2, <3>1, <3>2, BaseFacts DEF Asks
    <3> QED BY <3>1, <3>3 DEF Reaches, NotOlder
  <2> QED BY <1>1, <1>2, <2>1, <2>2 DEF MessagesMove
<1>3. ASSUME NEW c \in cast' PROVE c.term <= term'[c.candidate]
  <2>1. c.term \in Nat /\ c.candidate \in Server
    BY <1>1 DEF TypeOK
  <2>2. term[c.candidate] \in Nat /\ term'[c.candidate] \in Nat
        /\ term'[c.candidate] >= term[c.candidate]
    BY <2>1, BaseFacts
  <2>3. CASE c \in cast
    BY <1>1, <2>1, <2>2, <2>3 DEF CandidatesKnow
  <2>4. CASE c.candidate = c.voter /\ c.term = term'[c.voter]
    BY <2>1, <2>2, <2>4
  <2>5. ASSUME NEW m \in messages, Grants(m, c) PROVE c.term <= term'[c.candidate]
    <3>1. m.term <= term[m.from] /\ c.term = m.term /\ c.candidate = m.from
      BY <1>1, <2>5 DEF Grants, RequestsDescribe
    <3> QED BY <2>1, <2>2, <3>1
  <2> QED BY <1>1, <2>3, <2>4, <2>5 DEF VotesMove
<1> QED BY <1>2, <1>3 DEF RequestsDescribe, CandidatesKnow

LEMMA AnswersStayKnown ==
    ASSUME Step
    PROVE  AnswersKnown'
<1>1. AnswersKnown /\ CallsFromLeaders /\ Roles /\ MessagesMove
  BY DEF Step, CommitBase
<1> SUFFICES ASSUME NEW m \in messages', m.type = "AppendReply"
             PROVE  m.from # m.to /\ [node |-> m.to, term |-> m.callTerm] \in elected'
  BY DEF AnswersKnown
<1>2. CASE m \in messages
  BY <1>1, <1>2 DEF AnswersKnown, Roles
<1>3. ASSUME NEW n \in messages, Answers(n, m), Received(n)
      PROVE  m.from # m.to /\ [node |-> m.to, term |-> m.callTerm] \in elected
  <2>1. n \in Calls /\ m.from = n.to /\ m.to = n.from /\ m.callTerm = n.term
    BY <1>3 DEF Received, Answers
  <2> QED BY <1>1, <2>1 DEF CallsFromLeaders
<1> QED BY <1>1, <1>2, <1>3 DEF MessagesMove, Roles, Asks

\* Node j accepts a call of leader i up to index k at least.
Vouches(i, j, k) ==
    \E n \in messages :
        /\ Received(n) /\ Accepted(n) /\ n.from = i /\ n.to = j /\ n.term = term[i]
        /\ Len(n.entries) > 0 /\ k <= End(n)

\* An answer of the new state is an old one or that of a call handled now.
LEMMA AnswersSince ==
    ASSUME Step, NEW i \in Server, term'[i] = term[i], NEW m \in messages', AnswersTo(i, m)'
    PROVE  \/ m \in messages /\ AnswersTo(i, m)
           \/ \E n \in messages :
                 /\ Received(n) /\ Accepted(n) /\ n.from = i /\ n.to = m.from /\ n.term = term[i]
                 /\ m.len = Len(n.entries) /\ Acknowledged(m) = End(n)
<1>1. m.type = "AppendReply" /\ m.to = i /\ m.callTerm = term[i] /\ m.success
  BY DEF AnswersTo
<1>2. CASE m \in messages
  BY <1>1, <1>2 DEF AnswersTo
<1>3. ASSUME NEW n \in messages, Answers(n, m), Received(n)
      PROVE  /\ Accepted(n) /\ n.from = i /\ n.to = m.from /\ n.term = term[i]
             /\ m.len = Len(n.entries) /\ Acknowledged(m) = End(n)
  BY <1>1, <1>3 DEF Answers, Acknowledged, End
<1> QED BY <1>1, <1>2, <1>3 DEF Step, MessagesMove, Asks

LEMMA VouchedBefore ==
    ASSUME Step, NEW i \in Server, states[i] = "Leader", states'[i] = "Leader",
           term'[i] = term[i], NEW j \in Server, j # i, NEW k \in Nat, k > 0,
           Vouched(i, j, k)'
    PROVE  Vouched(i, j, k) \/ Vouches(i, j, k)
<1>1. Notes(i)
  BY DEF Step, IndexesMove
<1>2. CASE k <= matchIndex'[i][j]
  BY <1>1, <1>2 DEF Notes, Vouched
<1>3. ASSUME NEW m \in messages', AnswersTo(i, m)', m.from = j, m.len > 0, k <= Acknowledged(m)
      PROVE  Vouched(i, j, k) \/ Vouches(i, j, k)
  <2>1. CASE m \in messages /\ AnswersTo(i, m)
    BY <1>3, <2>1 DEF Vouched
  <2>2. ASSUME NEW n \in messages,
               Received(n), Accepted(n), n.from = i, n.to = m.from, n.term = term[i],
               m.len = Len(n.entries), Acknowledged(m) = End(n)
        PROVE  Vouches(i, j, k)
    BY <1>3, <2>2 DEF Vouches
  <2> QED BY <1>3, <2>1, <2>2, AnswersSince
<1>4. k <= matchIndex'[i][j]
      \/ \E m \in messages' : AnswersTo(i, m)' /\ m.from = j /\ m.len > 0 /\ k <= Acknowledged(m)
  BY DEF Vouched, Acknowledged
<1> QED BY <1>2, <1>3, <1>4

\* Two logs with one term at index n, in the new state, have one term at every index
\* up to n.
LEMMA SameTermBelow ==
    ASSUME Step, NEW i \in Server, NEW j \in Server, NEW n \in Nat,
           n <= LastIndex(i)', n <= LastIndex(j)', At(j, n)'.term = At(i, n)'.term,
           NEW k \in Nat, k <= n
    PROVE  /\ At(j, k)'.term = At(i, k)'.term
           /\ k > 0 => At(j, k)' = At(i, k)'
<1>1. /\ lastSnapIndex'[i] = 0 /\ lastSnapIndex'[j] = 0
      /\ LastIndex(i)' \in Nat /\ LastIndex(j)' \in Nat /\ PiecesMatch'
  BY BaseFacts DEF NoSnapshots, LogInv
<1> DEFINE p == LogPiece(j)'
           q == LogPiece(i)'
<1>2. /\ p.first = 0 /\ p.last = LastIndex(j)' /\ q.first = 0 /\ q.last = LastIndex(i)'
      /\ \A x \in 0 .. LastIndex(j)' : p.at[x] = At(j, x)'
      /\ \A x \in 0 .. LastIndex(i)' : q.at[x] = At(i, x)'
  BY <1>1 DEF LogPiece
<1>3. p \in Pieces' /\ q \in Pieces'
  BY DEF Pieces
<1> HIDE DEF p, q
<1>4. Matches(p, q)
  BY <1>1, <1>3 DEF PiecesMatch
<1>5. /\ n \in 0 .. LastIndex(j)' /\ n \in 0 .. LastIndex(i)' /\ k \in 0 .. n
      /\ k \in 0 .. LastIndex(j)' /\ k \in 0 .. LastIndex(i)' /\ k >= 0
  BY <1>1
<1>6. Same(p, q, k)
  BY <1>2, <1>4, <1>5 DEF Matches, Has
<1> QED BY <1>2, <1>5, <1>6 DEF Same

\* What a node accepted of the leader's log is its own up to the end of the call.
LEMMA AcceptedHolds ==
    ASSUME Step, NEW i \in Server, states[i] = "Leader", states'[i] = "Leader",
           term'[i] = term[i], NEW j \in Server, NEW m \in Calls, m.to = j, m.term = term[i],
           Accepted(m), Len(m.entries) > 0
    PROVE  /\ LastIndex(j)' = End(m) /\ End(m) \in Nat /\ End(m) <= LastIndex(i)
           /\ term'[j] = term[i]
           /\ \A k \in Nat : k <= End(m) => /\ At(j, k)'.term = At(i, k)'.term
                                            /\ k > 0 => At(j, k)' = At(i, k)'
<1>1. /\ m.from = i /\ End(m) \in Nat /\ End(m) <= LastIndex(i)
      /\ EndTerm(m) = At(i, End(m)).term
  BY CallsOfLeader DEF Step
<1>2. /\ LastIndex(j)' = End(m) /\ At(j, End(m))'.term = EndTerm(m) /\ term'[j] = m.term
  BY DEF Accepted
<1>3. Grows(i) /\ LastIndex(i) \in Nat /\ LastIndex(i)' \in Nat /\ LastIndex(j)' \in Nat
  BY StandingGrow, BaseFacts
<1>4. \A n \in Nat : n = End(m) => /\ n <= LastIndex(i)' /\ n <= LastIndex(j)'
                                   /\ At(j, n)'.term = At(i, n)'.term
  <2> TAKE n \in Nat
  <2> HAVE n = End(m)
  <2>1. n \in 0 .. LastIndex(i) /\ n <= LastIndex(i)' /\ n <= LastIndex(j)'
    BY <1>1, <1>2, <1>3 DEF Grows
  <2>2. At(i, n)' = At(i, n)
    BY <1>3, <2>1 DEF Grows
  <2>3. At(j, n)' = At(j, End(m))'
    BY DEF At, End
  <2> QED BY <1>1, <1>2, <2>1, <2>2, <2>3
<1>5. ASSUME NEW k \in Nat, k <= End(m)
      PROVE  At(j, k)'.term = At(i, k)'.term /\ (k > 0 => At(j, k)' = At(i, k)')
  <2>1. PICK n \in Nat : n = End(m)
    BY <1>1
  <2> QED BY <1>4, <1>5, <2>1, SameTermBelow
<1> QED BY <1>1, <1>2, <1>5

LEMMA AcksStayTrue ==
    ASSUME Step
    PROVE  AcksAreTrue'
<1>1. /\ AcksAreTrue /\ AnswersKnown /\ Roles /\ MessagesMove /\ IndexesMove /\ CallsMove
      /\ ElectionSafety /\ CommitBase /\ TypeOK /\ LogsMove /\ LogsChange
  BY BaseFacts DEF Step, CommitBase
<1> SUFFICES ASSUME NEW i \in Server, states'[i] = "Leader"
             PROVE  /\ \A j \in Server : \A k \in Nat :
                          j # i /\ k > 0 /\ Vouched(i, j, k)' => Holds(i, j, k)'
                    /\ \A m \in messages' : AnswersTo(i, m)' => Acknowledged(m)' <= LastIndex(i)'
                    /\ \A j \in Server : nextIndex'[i][j] <= LastIndex(i)' + 1
  BY DEF AcksAreTrue
<1>2. /\ Grows(i) /\ LastIndex(i) \in Nat /\ LastIndex(i)' \in Nat
      /\ LastIndex(i)' >= LastIndex(i)
  BY StandingGrow, BaseFacts DEF Grows
<1>3. \A m \in messages' : Acknowledged(m)' = Acknowledged(m)
  BY DEF Acknowledged
<1>4. CASE Fresh(i)
  <2>1. ASSUME NEW m \in messages', AnswersTo(i, m)' PROVE FALSE
    <3>1. m \in messages /\ m.type = "AppendReply" /\ m.to = i /\ m.callTerm = term'[i]
      BY <1>4, <2>1 DEF Fresh, AnswersTo
    <3> DEFINE e == [node |-> m.to, term |-> m.callTerm]
    <3>2. e \in elected /\ e.term = term'[i]
      BY <1>1, <3>1 DEF AnswersKnown
    <3> HIDE DEF e
    <3> QED BY <1>4, <3>2 DEF Fresh
  <2>2. ASSUME NEW j \in Server, NEW k \in Nat, j # i, k > 0, Vouched(i, j, k)' PROVE FALSE
    <3>1. k <= matchIndex'[i][j]
          \/ \E m \in messages' : AnswersTo(i, m)'
      BY <2>2 DEF Vouched
    <3> QED BY <1>4, <2>1, <2>2, <3>1 DEF Fresh
  <2>3. \A j \in Server : nextIndex'[i][j] <= LastIndex(i)' + 1
    BY <1>2, <1>4 DEF Fresh
  <2> QED BY <2>1, <2>2, <2>3
<1>5. CASE states[i] = "Leader" /\ term'[i] = term[i]
  <2>1. ASSUME NEW m \in messages', AnswersTo(i, m)' PROVE Acknowledged(m) <= LastIndex(i)'
    <3>1. CASE m \in messages /\ AnswersTo(i, m)
      <4>1. Acknowledged(m) <= LastIndex(i) /\ Acknowledged(m) \in Nat
        BY <1>1, <1>5, <3>1, MessageFacts DEF AcksAreTrue, Acknowledged, AnswersTo
      <4> QED BY <1>2, <4>1
    <3>2. ASSUME NEW n \in messages, Accepted(n), n.term = term[i], Acknowledged(m) = End(n)
          PROVE  Acknowledged(m) <= LastIndex(i)'
      <4>1. End(n) \in Nat /\ End(n) <= LastIndex(i)
        BY <1>1, <1>5, <3>2, CallsOfLeader DEF Accepted
      <4> QED BY <1>2, <3>2, <4>1
    <3> QED BY <1>5, <2>1, <3>1, <3>2, AnswersSince
  <2>2. \A j \in Server : nextIndex'[i][j] <= LastIndex(i)' + 1
    <3> TAKE j \in Server
    <3>1. nextIndex'[i][j] <= LastIndex(i) + 1 /\ nextIndex'[i][j] \in Nat
      BY <1>1, <1>5, BaseFacts DEF IndexesMove, Notes, TypeOK
    <3> HIDE DEF LastIndex
    <3> QED BY <1>2, <3>1
  <2>3. ASSUME NEW j \in Server, NEW k \in Nat, j # i, k > 0, Vouched(i, j, k)'
        PROVE  Holds(i, j, k)'
    <3>1. Vouched(i, j, k) \/ Vouches(i, j, k)
      BY <1>5, <2>3, VouchedBefore
    <3>2. term[j] \in Nat /\ term'[j] \in Nat /\ term'[j] >= term[j] /\ term[i] \in Nat
          /\ LastIndex(j) \in Nat /\ LastIndex(j)' \in Nat
      BY BaseFacts
    <3>3. ASSUME k <= LastIndex(i) PROVE k <= LastIndex(i)' /\ At(i, k)' = At(i, k)
      BY <1>2, <3>3 DEF Grows
    <3>4. ASSUME NEW m \in Calls', Sent(m), m.term = term[i] PROVE End(m) = LastIndex(i)
      BY <1>1, <1>5, <3>4, SentFacts DEF Sent
    <3>5. \A m \in Calls' : End(m)' = End(m)
      BY BaseFacts
    <3>6. CASE Vouched(i, j, k)
      <4>1. Holds(i, j, k)
        BY <1>1, <1>5, <2>3, <3>6 DEF AcksAreTrue
      <4>2. k <= LastIndex(i)' /\ At(i, k)' = At(i, k) /\ term'[j] >= term'[i]
        BY <1>5, <3>2, <3>3, <4>1 DEF Holds
      <4>3. ASSUME term'[j] = term'[i]
            PROVE  /\ k <= LastIndex(j)' /\ At(j, k)'.term = At(i, k)'.term
                   /\ \A m \in Calls' \ overtaken' :
                         m.to = j /\ m.term = term'[i] => End(m) >= k
        <5>1. /\ k <= LastIndex(j) /\ At(j, k).term = At(i, k).term
              /\ \A m \in Calls \ overtaken : m.to = j /\ m.term = term[i] => End(m) >= k
          BY <1>5, <3>2, <4>1, <4>3 DEF Holds
        <5>2. \A m \in Calls' \ overtaken' : m.to = j /\ m.term = term'[i] => End(m) >= k
          <6> SUFFICES ASSUME NEW m \in Calls' \ overtaken', m.to = j, m.term = term'[i]
                       PROVE  End(m) >= k
            OBVIOUS
          <6>1. CASE m \in Calls
            <7>1. m \notin overtaken
              BY <1>1, <6>1 DEF CallsMove, Calls
            <7> QED BY <1>5, <5>1, <6>1, <7>1
          <6>2. CASE Sent(m)
            BY <1>1, <1>2, <1>5, <3>4, <4>1, <6>2 DEF Holds
          <6> QED BY <1>1, <6>1, <6>2 DEF CallsMove
        <5>3. CASE Grows(j)
          <6>1. k \in 0 .. LastIndex(j) /\ LastIndex(j)' >= LastIndex(j)
            BY <3>2, <5>1, <5>3 DEF Grows
          <6>2. At(j, k)' = At(j, k) /\ k <= LastIndex(j)'
            BY <3>2, <5>3, <6>1 DEF Grows
          <6> QED BY <4>2, <5>1, <5>2, <6>2
        <5>4. ASSUME NEW m \in Calls, m.to = j, Len(m.entries) > 0, Accepted(m)
              PROVE  k <= LastIndex(j)' /\ At(j, k)'.term = At(i, k)'.term
          <6>1. m.term = term[i]
            BY <1>5, <4>3, <5>4 DEF Accepted
          <6>2. /\ LastIndex(j)' = End(m) /\ End(m) \in Nat
                /\ \A x \in Nat : x <= End(m) => At(j, x)'.term = At(i, x)'.term
            BY <1>5, <5>4, <6>1, AcceptedHolds
          <6>3. m \notin overtaken /\ k <= End(m)
            BY <5>1, <5>4, <6>1, <6>2 DEF Accepted
          <6> QED BY <6>2, <6>3
        <5> QED BY <1>1, <5>2, <5>3, <5>4 DEF LogsMove
      <4> QED BY <3>5, <4>2, <4>3 DEF Holds
    <3>7. CASE Vouches(i, j, k)
      <4>1. PICK n \in messages :
               /\ Received(n) /\ Accepted(n) /\ n.from = i /\ n.to = j /\ n.term = term[i]
               /\ Len(n.entries) > 0 /\ k <= End(n)
        BY <3>7 DEF Vouches
      <4>2. /\ n \in Calls
            /\ LastIndex(j)' = End(n) /\ End(n) \in Nat /\ End(n) <= LastIndex(i)
            /\ term'[j] = term[i] /\ At(j, k)'.term = At(i, k)'.term
        BY <1>5, <4>1, AcceptedHolds DEF Accepted
      <4>3. k <= LastIndex(i) /\ k <= LastIndex(j)'
        BY <1>2, <4>1, <4>2
      <4>4. ASSUME NEW m \in Calls' \ overtaken', m.to = j, m.term = term'[i]
            PROVE  End(m) >= k
        <5>1. CASE m \in Calls
          <6>1. m.from = i /\ End(m) \in Nat
            BY <1>1, <1>5, <4>4, <5>1, CallsOfLeader
          <6>2. End(n) <= End(m)
            BY <1>5, <4>1, <4>4, <5>1, <6>1 DEF Accepted
          <6> QED BY <4>1, <4>2, <6>1, <6>2
        <5>2. CASE Sent(m)
          BY <1>2, <1>5, <3>4, <4>3, <4>4, <5>2
        <5> QED BY <1>1, <5>1, <5>2 DEF CallsMove
      <4> QED BY <1>5, <3>2, <3>3, <3>5, <4>2, <4>3, <4>4 DEF Holds
    <3> QED BY <3>1, <3>6, <3>7
  <2> QED BY <1>3, <2>1, <2>2, <2>3
<1> QED BY <1>1, <1>4, <1>5 DEF Roles

-----------------------------------------------------------------------------
LEMMA BaseKept ==
    ASSUME PlainStep, CommitBase, [Next]_vars, LogInv', ElectionSafety'
    PROVE  CommitBase'
<1>1. Step
  BY StepFacts
<1> QED BY <1>1, LogsStayBehind, LogsStayAscending, CallsStayTrue, CallsKeepGrowing,
           RequestsStayTrue, AnswersStayKnown, AcksStayTrue DEF CommitBase, Step

LEMMA InitBase == ASSUME Init, LogInv PROVE CommitBase
<1>1. TypeOK /\ NoSnapshots
  BY DEF LogInv, ElectionInv, VoteInv, Init, NoSnapshots
<1>2. /\ messages = {} /\ cast = {} /\ \A i \in Server : states[i] = "Follower"
      /\ \A i \in Server : log[i] = <<Dummy(0)>> /\ lastSnapIndex[i] = 0 /\ lastSnapTerm[i] = 0
                           /\ term[i] = 0
  BY DEF Init
<1>3. ASSUME NEW i \in Server
      PROVE  /\ LastTerm(i) = 0
             /\ TermsTyped(LogPiece(i)) /\ Ascending(LogPiece(i))
             /\ TermsTyped(SnapPiece(0, 0)) /\ Ascending(SnapPiece(0, 0))
  <2>1. LastIndex(i) = 0
    <3>1. Len(<<Dummy(0)>>) = 1
      OBVIOUS
    <3>2. Len(log[i]) = 1 /\ lastSnapIndex[i] = 0
      BY <1>2, <3>1
    <3> QED BY <3>2 DEF LastIndex
  <2>2. At(i, 0) = Dummy(0)
    BY <1>1, <1>2, AtPlain
  <2>3. LastTerm(i) = 0
    BY <2>1, <2>2 DEF LastTerm, Dummy
  <2>4. /\ LogPiece(i).first = 0 /\ LogPiece(i).last = 0 /\ LogPiece(i).at[0].term = 0
    BY <1>2, <2>1, <2>2 DEF LogPiece, Dummy
  <2>5. /\ SnapPiece(0, 0).first = 0 /\ SnapPiece(0, 0).last = 0 /\ SnapPiece(0, 0).at[0].term = 0
    BY DEF SnapPiece, Dummy
  <2>6. ASSUME NEW p, p.first = 0, p.last = 0, p.at[0].term = 0
        PROVE  TermsTyped(p) /\ Ascending(p)
    <3>1. \A k \in p.first .. p.last : k = 0
      BY <2>6
    <3>2. \A k \in p.first .. p.last : \A h \in k .. p.last : k = 0 /\ h = 0
      BY <2>6, <3>1
    <3>3. TermsTyped(p)
      BY <2>6, <3>1 DEF TermsTyped
    <3>4. Ascending(p)
      BY <2>6, <3>2 DEF Ascending
    <3> QED BY <3>3, <3>4
  <2> QED BY <2>3, <2>4, <2>5, <2>6
<1>4. PiecesAscend
  BY <1>2, <1>3 DEF PiecesAscend, Pieces
<1>5. LogsBehindTerms
  BY <1>2, <1>3 DEF LogsBehindTerms
<1>6. /\ CallsFromLeaders /\ CallsGrow /\ RequestsDescribe /\ CandidatesKnow /\ AcksAreTrue
      /\ AnswersKnown
  BY <1>2 DEF Calls, CallsFromLeaders, CallsGrow, RequestsDescribe, CandidatesKnow, AcksAreTrue,
              AnswersKnown
<1> QED BY <1>1, <1>4, <1>5, <1>6 DEF CommitBase

-----------------------------------------------------------------------------
(* What the first part of the invariant says of two logs and of one *)

\* Two logs with one term at an index are the same up to there; terms only grow along
\* a log; what reaches index k has an entry there.
LogShape ==
    /\ \A i \in Server : \A j \in Server : \A n \in Nat :
          n <= LastIndex(i) /\ n <= LastIndex(j) /\ At(j, n).term = At(i, n).term =>
              \A k \in 1 .. n : At(j, k) = At(i, k)
    /\ \A i \in Server : \A h \in Nat : \A k \in Nat :
          k <= h /\ h <= LastIndex(i) =>
              /\ At(i, k).term \in Nat /\ At(i, h).term \in Nat
              /\ At(i, k).term <= At(i, h).term /\ At(i, h).term <= LastTerm(i)
    /\ \A i \in Server : \A t \in Nat : \A k \in Nat :
          Reaches(i, t, k) /\ Through(LogPiece(i), t, k) =>
              k <= LastIndex(i) /\ At(i, k).term = t

LEMMA LogsHaveShape == CommitBase => LogShape
<1> SUFFICES ASSUME CommitBase PROVE LogShape
  OBVIOUS
<1>1. TypeOK /\ NoSnapshots /\ PiecesMatch /\ PiecesAscend
  BY DEF CommitBase, LogInv, ElectionInv, VoteInv
<1>2. \A i \in Server :
         /\ LastIndex(i) \in Nat /\ LastTerm(i) = At(i, LastIndex(i)).term
         /\ LogPiece(i).first = 0 /\ LogPiece(i).last = LastIndex(i) /\ LogPiece(i) \in Pieces
         /\ \A k \in 0 .. LastIndex(i) : LogPiece(i).at[k] = At(i, k)
  BY <1>1, AtPlain
<1>3. ASSUME NEW i \in Server, NEW j \in Server, NEW n \in Nat,
             n <= LastIndex(i), n <= LastIndex(j), At(j, n).term = At(i, n).term,
             NEW k \in 1 .. n
      PROVE  At(j, k) = At(i, k)
  <2>1. Matches(LogPiece(j), LogPiece(i))
    BY <1>1, <1>2 DEF PiecesMatch
  <2>2. /\ n \in 0 .. LastIndex(j) /\ n \in 0 .. LastIndex(i) /\ k \in 0 .. n /\ k > 0
        /\ k \in 0 .. LastIndex(j) /\ k \in 0 .. LastIndex(i)
    BY <1>2, <1>3
  <2>3. Same(LogPiece(j), LogPiece(i), k)
    BY <1>2, <1>3, <2>1, <2>2 DEF Matches, Has
  <2> QED BY <1>2, <2>2, <2>3 DEF Same
<1>4. ASSUME NEW i \in Server, NEW h \in Nat, NEW k \in Nat, k <= h, h <= LastIndex(i)
      PROVE  /\ At(i, k).term \in Nat /\ At(i, h).term \in Nat
             /\ At(i, k).term <= At(i, h).term /\ At(i, h).term <= LastTerm(i)
  <2>1. TermsTyped(LogPiece(i)) /\ Ascending(LogPiece(i))
    BY <1>1, <1>2 DEF PiecesAscend
  <2>2. /\ k \in 0 .. LastIndex(i) /\ h \in 0 .. LastIndex(i) /\ h \in k .. LastIndex(i)
        /\ LastIndex(i) \in h .. LastIndex(i) /\ LastIndex(i) \in 0 .. LastIndex(i)
    BY <1>2, <1>4
  <2> QED BY <1>2, <2>1, <2>2 DEF TermsTyped, Ascending
<1>5. ASSUME NEW i \in Server, NEW t \in Nat, NEW k \in Nat,
             Reaches(i, t, k), Through(LogPiece(i), t, k)
      PROVE  k <= LastIndex(i) /\ At(i, k).term = t
  <2>1. LastIndex(i) \in 0 .. LastIndex(i)
    BY <1>2
  <2>2. NotOlder(LogPiece(i).at[LastIndex(i)].term, LastIndex(i), t, k)
    BY <1>2, <1>5, <2>1 DEF Reaches
  <2>3. k <= LastIndex(i) /\ (0 <= k => LogPiece(i).at[k].term = t)
    BY <1>2, <1>5, <2>1, <2>2 DEF Through
  <2>4. k \in 0 .. LastIndex(i) /\ 0 <= k
    BY <1>2, <2>3
  <2> QED BY <1>2, <2>3, <2>4
<1> QED BY <1>3, <1>4, <1>5 DEF LogShape

LEMMA ShapeKept ==
    ASSUME CommitBase'
    PROVE  LogShape'
BY LogsHaveShape, PTL

-----------------------------------------------------------------------------
(* What cannot be lost *)

\* Node j has what a leader of term t had up to index k, or newer entries, and no call
\* of that leader takes it away.
Keeps(t, k, j) ==
    /\ term[j] >= t
    /\ Reaches(j, t, k)
    /\ term[j] = t =>
          \A m \in Calls \ overtaken : m.to = j /\ m.term = t => CallReaches(m, t, k)

\* j votes only for those that have it too.
Demands(t, k, j) ==
    \A c \in cast :
        /\ c.voter = j /\ c.term > t
        /\ states[c.candidate] # "Follower" /\ term[c.candidate] = c.term
        => Reaches(c.candidate, t, k)

\* Whoever has entries of term t from index k on, or of a later term, has the entry of
\* term t at index k; later leaders send nothing else.
Spread(t, k) ==
    /\ \A p \in Pieces : Through(p, t, k)
    /\ \A m \in Calls : m.term > t => CallReaches(m, t, k)
    /\ \A y \in Server : states[y] = "Leader" /\ term[y] = t => Reaches(y, t, k)
    /\ \E e \in elected : e.term = t

LeadersReach(t, k) ==
    \A y \in Server : states[y] = "Leader" /\ term[y] > t => Reaches(y, t, k)

-----------------------------------------------------------------------------
LEMMA StepShape ==
    ASSUME Step
    PROVE  CommitBase' /\ LogShape /\ LogShape'
<1>1. CommitBase'
  BY BaseKept DEF Step
<1>2. LogShape
  BY LogsHaveShape DEF Step
<1> QED BY <1>1, <1>2, ShapeKept

\* A log that got no shorter and no older reaches as far.
LEMMA ReachesUp ==
    ASSUME Step, NEW j \in Server, NEW t \in Nat, NEW k \in Nat, NEW a \in Nat, NEW n \in Nat,
           a <= LastTerm(j)', n <= LastIndex(j)', NotOlder(a, n, t, k)
    PROVE  Reaches(j, t, k)'
<1> DEFINE b == LastTerm(j)'
           x == LastIndex(j)'
<1>1. b \in Nat /\ x \in Nat /\ a <= b /\ n <= x
  BY BaseFacts
<1>2. Reaches(j, t, k)' <=> NotOlder(b, x, t, k)
  BY DEF Reaches, NotOlder
<1> HIDE DEF b, x
<1> QED BY <1>1, <1>2, NotOlderUp

LEMMA GrownReaches ==
    ASSUME Step, NEW j \in Server, Grows(j), NEW t \in Nat, NEW k \in Nat, Reaches(j, t, k)
    PROVE  Reaches(j, t, k)'
<1>1. /\ LastTerm(j) \in Nat /\ LastIndex(j) \in Nat
      /\ LastTerm(j) <= LastTerm(j)' /\ LastIndex(j) <= LastIndex(j)'
      /\ LastTerm(j)' \in Nat /\ LastIndex(j)' \in Nat
  BY BaseFacts DEF Grows
<1>2. PICK a \in Nat, n \in Nat : a = LastTerm(j) /\ n = LastIndex(j)
  BY <1>1
<1>3. NotOlder(a, n, t, k)
  BY <1>2 DEF Reaches
<1> QED BY <1>1, <1>2, <1>3, ReachesUp

\* The log of a node that accepted a call reaches as far as the call.
LEMMA AcceptedReaches ==
    ASSUME Step, NEW m \in Calls, Accepted(m), NEW t \in Nat, NEW k \in Nat, CallReaches(m, t, k)
    PROVE  Reaches(m.to, t, k)'
<1>1. /\ m.to \in Server /\ End(m) \in Nat /\ EndTerm(m) \in Nat
      /\ LastIndex(m.to)' \in Nat /\ LastTerm(m.to)' \in Nat
  BY BaseFacts
<1>2. End(m) <= LastIndex(m.to)' /\ At(m.to, End(m))'.term = EndTerm(m)
  BY <1>1 DEF Accepted
<1>3. PICK n \in Nat : n = End(m)
  BY <1>1
<1>4. At(m.to, n)' = At(m.to, End(m))'
  BY <1>3 DEF At, End
<1>5. At(m.to, n)'.term <= LastTerm(m.to)'
  <2>1. n <= LastIndex(m.to)'
    BY <1>2, <1>3
  <2>2. LogShape'
    BY StepShape
  <2>3. \A h \in Nat : h <= LastIndex(m.to)' => At(m.to, h)'.term <= LastTerm(m.to)'
    BY <1>1, <2>2 DEF LogShape
  <2> QED BY <2>1, <2>3
<1>6. EndTerm(m) <= LastTerm(m.to)' /\ NotOlder(EndTerm(m), End(m), t, k)
  BY <1>2, <1>4, <1>5 DEF CallReaches
<1>7. PICK a \in Nat : a = EndTerm(m)
  BY <1>1
<1> QED BY <1>1, <1>2, <1>3, <1>6, <1>7, ReachesUp

\* What was sent reaches as far as the log of the sender.
LEMMA SentReaches ==
    ASSUME NEW m, Sent(m), NEW t, NEW k, Reaches(m.from, t, k)
    PROVE  CallReaches(m, t, k)
BY DEF Sent, Reaches, CallReaches

LEMMA CallReachesStays ==
    ASSUME Step, NEW m \in Calls', NEW t, NEW k
    PROVE  CallReaches(m, t, k)' <=> CallReaches(m, t, k)
<1>1. EndTerm(m)' = EndTerm(m) /\ End(m)' = End(m)
  BY BaseFacts
<1> QED BY <1>1 DEF CallReaches, NotOlder

-----------------------------------------------------------------------------
(* Steps keep it *)

LEMMA KeepsKept ==
    ASSUME Step, NEW t \in Nat, NEW k \in Nat, NEW j \in Server, Spread(t, k), Keeps(t, k, j)
    PROVE  Keeps(t, k, j)'
<1>1. /\ term[j] \in Nat /\ term'[j] \in Nat /\ term'[j] >= term[j] /\ term[j] >= t
      /\ Reaches(j, t, k) /\ LogsMove /\ CallsMove
  BY BaseFacts DEF Step, Keeps
<1>2. Reaches(j, t, k)'
  <2>1. CASE Grows(j)
    BY <1>1, <2>1, GrownReaches
  <2>2. ASSUME NEW m \in Calls, m.to = j, Len(m.entries) > 0, Accepted(m)
        PROVE  Reaches(j, t, k)'
    <3>1. m.term >= term[j] /\ m.term \in Nat /\ m \notin overtaken
      BY <2>2, BaseFacts DEF Accepted
    <3>2. m.term > t \/ (m.term = t /\ term[j] = t)
      BY <1>1, <3>1
    <3>3. CASE m.term > t
      <4>1. CallReaches(m, t, k)
        BY <2>2, <3>3 DEF Spread
      <4> QED BY <2>2, <4>1, AcceptedReaches
    <3>4. CASE m.term = t /\ term[j] = t
      <4>1. m \in Calls \ overtaken
        BY <2>2, <3>1
      <4>2. CallReaches(m, t, k)
        BY <2>2, <3>4, <4>1 DEF Keeps
      <4> QED BY <2>2, <4>2, AcceptedReaches
    <3> QED BY <3>2, <3>3, <3>4
  <2> QED BY <1>1, <2>1, <2>2 DEF LogsMove
<1>3. ASSUME term'[j] = t, NEW m \in Calls' \ overtaken', m.to = j, m.term = t
      PROVE  CallReaches(m, t, k)'
  <2>1. term[j] = t /\ (m \in Calls => m \notin overtaken)
    BY <1>1, <1>3 DEF CallsMove, Calls
  <2>2. CASE m \in Calls
    BY <1>3, <2>1, <2>2, CallReachesStays DEF Keeps
  <2>3. CASE Sent(m)
    <3>1. Reaches(m.from, t, k)
      BY <1>3, <2>3 DEF Sent, Spread
    <3> QED BY <1>3, <2>3, <3>1, SentReaches, CallReachesStays
  <2> QED BY <1>1, <1>3, <2>2, <2>3 DEF CallsMove
<1> QED BY <1>1, <1>2, <1>3 DEF Keeps

LEMMA DemandsKept ==
    ASSUME Step, NEW t \in Nat, NEW k \in Nat, NEW j \in Server,
           Keeps(t, k, j), Demands(t, k, j)
    PROVE  Demands(t, k, j)'
<1>1. /\ CandidatesKnow /\ RequestsDescribe /\ Roles /\ VotesMove /\ TypeOK' /\ TypeOK
      /\ NoSnapshots
  BY BaseFacts DEF Step, CommitBase
<1> SUFFICES ASSUME NEW c \in cast', c.voter = j, c.term > t,
                    states'[c.candidate] # "Follower", term'[c.candidate] = c.term
             PROVE  Reaches(c.candidate, t, k)'
  BY DEF Demands
<1>2. c.candidate \in Server /\ c.term \in Nat
  BY <1>1 DEF TypeOK
<1>3. /\ term[c.candidate] \in Nat /\ term'[c.candidate] \in Nat
      /\ term'[c.candidate] >= term[c.candidate]
  BY <1>2, BaseFacts
<1>4. Grows(c.candidate)
  BY <1>2, StandingGrow
<1>5. ASSUME c.term <= term[c.candidate]
      PROVE  states[c.candidate] # "Follower" /\ term[c.candidate] = c.term
  <2>1. term[c.candidate] = c.term
    BY <1>2, <1>3, <1>5
  <2> QED BY <1>1, <1>2, <2>1 DEF Roles
<1>6. CASE c \in cast
  <2>1. c.term <= term[c.candidate]
    BY <1>1, <1>6 DEF CandidatesKnow
  <2>2. Reaches(c.candidate, t, k)
    BY <1>5, <1>6, <2>1 DEF Demands
  <2> QED BY <1>2, <1>4, <2>2, GrownReaches
<1>7. CASE c.candidate = c.voter
  BY <1>2, <1>4, <1>7, GrownReaches DEF Keeps
<1>8. ASSUME NEW m \in messages, Grants(m, c) PROVE Reaches(c.candidate, t, k)'
  <2>1. /\ m.type = "RequestVote" /\ m.to = j /\ m.term = c.term /\ m.from = c.candidate
        /\ UpToDate(j, m)
    BY <1>8 DEF Grants
  <2>2. m.lastTerm \in Nat /\ m.lastIndex \in Nat
    BY <1>1, <2>1, MessageFacts
  <2>3. Reaches(c.candidate, m.lastTerm, m.lastIndex)
    BY <1>1, <1>5, <2>1 DEF RequestsDescribe
  <2>4. /\ LastTerm(j) \in Nat /\ LastIndex(j) \in Nat
        /\ LastTerm(c.candidate) \in Nat /\ LastIndex(c.candidate) \in Nat
    BY <1>2, BaseFacts
  <2>5. NotOlder(m.lastTerm, m.lastIndex, LastTerm(j), LastIndex(j))
    BY <2>1 DEF UpToDate, NotOlder
  <2>6. NotOlder(LastTerm(j), LastIndex(j), t, k)
    BY DEF Keeps, Reaches
  <2>7. NotOlder(m.lastTerm, m.lastIndex, t, k)
    BY <2>2, <2>4, <2>5, <2>6, NotOlderTrans
  <2>8. NotOlder(LastTerm(c.candidate), LastIndex(c.candidate), t, k)
    BY <2>2, <2>3, <2>4, <2>7, NotOlderTrans DEF Reaches
  <2> QED BY <1>2, <1>4, <2>8, GrownReaches DEF Reaches
<1> QED BY <1>1, <1>6, <1>7, <1>8 DEF VotesMove

\* Leaders of later terms have it when a majority demands it.
LEMMA MajorityBinds ==
    ASSUME LogInv, NEW t \in Nat, NEW k \in Nat, NEW Q \in SUBSET Server, IsMajority(Q),
           \A j \in Q : Demands(t, k, j)
    PROVE  LeadersReach(t, k)
<1> SUFFICES ASSUME NEW y \in Server, states[y] = "Leader", term[y] > t
             PROVE  Reaches(y, t, k)
  BY DEF LeadersReach
<1> DEFINE e == [node |-> y, term |-> term[y]]
<1>1. e \in elected /\ e.node = y /\ e.term = term[y]
  BY DEF LogInv, WinnersStay
<1> HIDE DEF e
<1>2. PICK P \in SUBSET Server :
         /\ IsMajority(P)
         /\ \A j \in P : [voter |-> j, term |-> e.term, candidate |-> e.node] \in cast
  BY <1>1 DEF LogInv, ElectionInv, WinnersHadVotes
<1>3. PICK j \in P \cap Q : TRUE
  BY <1>2, MajoritiesIntersect
<1> DEFINE c == [voter |-> j, term |-> e.term, candidate |-> e.node]
<1>4. c \in cast /\ c.voter = j /\ c.term = term[y] /\ c.candidate = y
  BY <1>1, <1>2, <1>3
<1> HIDE DEF c
<1> QED BY <1>3, <1>4 DEF Demands

LEMMA SpreadKept ==
    ASSUME Step, NEW t \in Nat, NEW k \in Nat, Spread(t, k), LeadersReach(t, k)
    PROVE  Spread(t, k)'
<1>1. /\ TypeOK /\ TypeOK' /\ NoSnapshots /\ NoSnapshots' /\ PiecesTyped /\ PiecesAscend
      /\ CallsMove /\ Roles
  BY BaseFacts DEF Step, CommitBase, LogInv
<1>2. ASSUME NEW y \in Server, states[y] = "Leader", term[y] >= t PROVE Reaches(y, t, k)
  <2>1. term[y] > t \/ term[y] = t
    <3>1. term[y] \in Nat
      BY <1>1 DEF TypeOK
    <3> QED BY <1>2, <3>1
  <2> QED BY <1>2, <2>1 DEF Spread, LeadersReach
<1>3. \A p \in Pieces' : Through(p, t, k)
  <2>1. ASSUME OnlyDerived, NEW p \in Pieces' PROVE Through(p, t, k)
    BY <1>1, <2>1, DerivedThrough DEF OnlyDerived, PiecesTyped, PiecesAscend, Spread
  <2>2. CASE QuietAction
    BY <1>1, <2>1, <2>2, QuietAreStill, QuietSteps DEF Step
  <2>3. ASSUME NEW i \in Server, NEW j \in Server, SendAppend(i, j)
        PROVE  \A p \in Pieces' : Through(p, t, k)
    BY <1>1, <2>1, <2>3, SendAppendPieces
  <2>4. ASSUME NEW m \in messages, AppendEntries(m)
        PROVE  \A p \in Pieces' : Through(p, t, k)
    BY <1>1, <2>1, <2>4, AppendEntriesPieces
  <2>5. ASSUME NEW i \in Server, NEW v \in Value, Start(i, v), NEW p \in Pieces'
        PROVE  Through(p, t, k)
    <3>1. Took(i)
      BY <1>1, <2>5, StartMoves DEF Step
    <3>2. p \in Pieces \/ p = LogPiece(i)'
      BY <1>1, <2>5, <3>1, TookPieces
    <3>3. ASSUME p = LogPiece(i)', NEW g \in p.first .. p.last, NotOlder(p.at[g].term, g, t, k)
          PROVE  /\ k <= g
                 /\ p.first <= k => p.at[k].term = t
                 /\ p.first > k => p.at[p.first].term >= t
      <4>1. /\ LastIndex(i) \in Nat /\ LogPiece(i) \in Pieces
            /\ LogPiece(i).first = 0 /\ LogPiece(i).last = LastIndex(i)
            /\ \A x \in 0 .. LastIndex(i) : LogPiece(i).at[x] = At(i, x)
        BY <1>1, AtPlain
      <4>2. p.first = 0 /\ p.last = LastIndex(i) + 1
            /\ \A x \in 0 .. LastIndex(i) + 1 : p.at[x] = At(i, x)'
        <5>1. lastSnapIndex'[i] = 0 /\ LastIndex(i)' = LastIndex(i) + 1
          BY <1>1, <3>1 DEF Took, NoSnapshots
        <5> QED BY <3>3, <5>1 DEF LogPiece
      <4>3. \A x \in 0 .. LastIndex(i) : p.at[x] = At(i, x)
        <5>1. \A x \in 0 .. LastIndex(i) : x \in 0 .. LastIndex(i) + 1
          BY <4>1
        <5> QED BY <3>1, <4>2, <5>1 DEF Took
      <4>4. g \in 0 .. LastIndex(i) \/ (g \in Nat /\ g = LastIndex(i) + 1)
        BY <3>3, <4>1, <4>2
      <4>5. k \in 0 .. LastIndex(i) /\ k <= g /\ At(i, k).term = t
        <5>1. CASE g \in 0 .. LastIndex(i)
          <6>1. Through(LogPiece(i), t, k)
            BY <4>1 DEF Spread
          <6>2. NotOlder(LogPiece(i).at[g].term, g, t, k)
            BY <3>3, <4>1, <4>3, <5>1
          <6>3. k <= g /\ (0 <= k => LogPiece(i).at[k].term = t)
            BY <4>1, <5>1, <6>1, <6>2 DEF Through
          <6>4. k \in 0 .. LastIndex(i)
            BY <4>1, <5>1, <6>3
          <6> QED BY <4>1, <6>3, <6>4
        <5>2. CASE g \in Nat /\ g = LastIndex(i) + 1
          <6>1. p.at[g].term = term[i]
            <7>1. g \in 0 .. LastIndex(i) + 1
              BY <5>2
            <7> QED BY <3>1, <4>2, <5>2, <7>1 DEF Took
          <6>2. term[i] >= t
            <7>1. term[i] \in Nat
              BY <1>1 DEF TypeOK
            <7> QED BY <3>3, <6>1, <7>1 DEF NotOlder
          <6>3. Reaches(i, t, k) /\ Through(LogPiece(i), t, k)
            BY <1>2, <3>1, <4>1, <6>2 DEF Took, Spread
          <6>4. k <= LastIndex(i) /\ At(i, k).term = t
            BY <6>3, StepShape DEF LogShape
          <6> QED BY <4>1, <5>2, <6>4
        <5> QED BY <4>4, <5>1, <5>2
      <4> QED BY <4>1, <4>2, <4>3, <4>5
    <3> QED BY <3>2, <3>3 DEF Spread, Through
  <2> QED BY <2>2, <2>3, <2>4, <2>5, PlainSteps DEF Step
<1>4. ASSUME NEW m \in Calls', m.term > t PROVE CallReaches(m, t, k)'
  <2>1. CASE m \in Calls
    BY <1>4, <2>1, CallReachesStays DEF Spread
  <2>2. CASE Sent(m)
    <3>1. Reaches(m.from, t, k)
      BY <1>4, <2>2 DEF Sent, LeadersReach
    <3> QED BY <2>2, <3>1, SentReaches, CallReachesStays
  <2> QED BY <1>1, <2>1, <2>2 DEF CallsMove
<1>5. PICK e \in elected : e.term = t
  BY DEF Spread
<1>6. ASSUME NEW y \in Server, states'[y] = "Leader", term'[y] = t PROVE Reaches(y, t, k)'
  <2>1. states[y] = "Leader" /\ term[y] = t /\ Grows(y)
    BY <1>5, <1>6, LeadsSince
  <2> QED BY <2>1, GrownReaches DEF Spread
<1>7. \A p \in Pieces' : Through(p, t, k)'
  BY <1>3 DEF Through, NotOlder
<1> QED BY <1>1, <1>4, <1>5, <1>6, <1>7 DEF Spread, Roles

\* A majority has e at index n, below an entry of term t at index k that it neither
\* loses nor votes away.
Secured(n, e, t, k, Q) ==
    /\ IsMajority(Q) /\ n \in 1 .. k /\ Spread(t, k)
    /\ \A j \in Q : Keeps(t, k, j) /\ Demands(t, k, j) /\ At(j, n) = e

\* Every log that reaches as far has e there too.
SecuredShape ==
    \A n \in Nat : \A e \in Entry : \A t \in Nat : \A k \in Nat : \A Q \in SUBSET Server :
        Secured(n, e, t, k, Q) =>
            \A i \in Server :
                Reaches(i, t, k) => n <= k /\ k <= LastIndex(i) /\ At(i, n) = e

LEMMA SecuredHaveShape == CommitBase => SecuredShape
<1> SUFFICES ASSUME CommitBase, NEW n \in Nat, NEW e \in Entry, NEW t \in Nat, NEW k \in Nat,
                    NEW Q \in SUBSET Server, Secured(n, e, t, k, Q),
                    NEW i \in Server, Reaches(i, t, k)
             PROVE  n <= k /\ k <= LastIndex(i) /\ At(i, n) = e
  BY DEF SecuredShape
<1>1. LogShape
  BY LogsHaveShape
<1>2. IsMajority(Q) /\ n \in 1 .. k /\ n <= k /\ \A p \in Pieces : Through(p, t, k)
  BY DEF Secured, Spread
<1>3. PICK j \in Q : TRUE
  BY <1>2, MajoritiesIntersect
<1>4. j \in Server /\ Reaches(j, t, k) /\ At(j, n) = e
  BY <1>3 DEF Secured, Keeps
<1>5. LogPiece(i) \in Pieces /\ LogPiece(j) \in Pieces
  BY <1>4 DEF Pieces
<1>6. /\ k <= LastIndex(i) /\ At(i, k).term = t
      /\ k <= LastIndex(j) /\ At(j, k).term = t
  BY <1>1, <1>2, <1>4, <1>5 DEF LogShape
<1>7. At(i, n) = At(j, n)
  BY <1>1, <1>2, <1>4, <1>6 DEF LogShape
<1> QED BY <1>2, <1>4, <1>6, <1>7

LEMMA SecuredShapeKept ==
    ASSUME CommitBase'
    PROVE  SecuredShape'
BY SecuredHaveShape, PTL

\* A log that does not grow is cut and joined from those before.
LEMMA GrowsOrDerived ==
    ASSUME Step
    PROVE  OnlyDerived \/ \A j \in Server : Grows(j)
<1>1. TypeOK /\ TypeOK' /\ NoSnapshots /\ NoSnapshots'
  BY BaseFacts
<1>2. CASE QuietAction
  BY <1>1, <1>2, QuietAreStill, QuietSteps DEF Step
<1>3. ASSUME NEW i \in Server, NEW j \in Server, SendAppend(i, j) PROVE OnlyDerived
  BY <1>1, <1>3, SendAppendPieces
<1>4. ASSUME NEW m \in messages, AppendEntries(m) PROVE OnlyDerived
  BY <1>1, <1>4, AppendEntriesPieces
<1>5. ASSUME NEW i \in Server, NEW v \in Value, Start(i, v) PROVE \A j \in Server : Grows(j)
  <2>1. Took(i)
    BY <1>1, <1>5, StartMoves DEF Step
  <2>2. states'[i] # "Follower"
    BY <2>1 DEF Took
  <2>3. Grows(i)
    BY <2>2, StandingGrow
  <2>4. \A j \in Server : j # i => Grows(j)
    BY <1>1, <2>1, SameGrows DEF Took
  <2> QED BY <2>3, <2>4
<1> QED BY <1>2, <1>3, <1>4, <1>5, PlainSteps DEF Step

\* A log that reaches index k before and after a step is the same up to there.
LEMMA ReachersKeep ==
    ASSUME Step, NEW t \in Nat, NEW k \in Nat, Spread(t, k), Spread(t, k)',
           NEW j \in Server, Reaches(j, t, k), Reaches(j, t, k)', NEW n \in 1 .. k
    PROVE  At(j, n)' = At(j, n)
<1>1. LogPiece(j) \in Pieces /\ LogPiece(j)' \in Pieces'
  BY DEF Pieces
<1>2. k <= LastIndex(j) /\ At(j, k).term = t
  BY <1>1, StepShape DEF LogShape, Spread
<1>3. k <= LastIndex(j)' /\ At(j, k)'.term = t
  <2>1. LogShape' /\ Through(LogPiece(j), t, k)'
    BY <1>1, StepShape DEF Spread
  <2> QED BY <2>1 DEF LogShape
<1>4. /\ LastIndex(j) \in Nat /\ LastIndex(j)' \in Nat /\ lastSnapIndex'[j] = 0
      /\ TypeOK /\ NoSnapshots /\ PiecesTyped /\ PiecesMatch
  BY BaseFacts DEF NoSnapshots, LogInv
<1>5. CASE Grows(j)
  <2>1. n \in 0 .. LastIndex(j)
    BY <1>2, <1>4
  <2> QED BY <1>5, <2>1 DEF Grows
<1>6. CASE OnlyDerived
  <2> DEFINE p == LogPiece(j)'
             q == LogPiece(j)
  <2>1. p \in Pieces' /\ q \in Pieces
    BY <1>1
  <2>2. /\ p.first = 0 /\ p.last = LastIndex(j)'
        /\ \A x \in 0 .. LastIndex(j)' : p.at[x] = At(j, x)'
    BY <1>4 DEF LogPiece
  <2>3. /\ q.first = 0 /\ q.last = LastIndex(j)
        /\ \A x \in 0 .. LastIndex(j) : q.at[x] = At(j, x)
    BY <1>4, AtPlain
  <2> HIDE DEF p, q
  <2>4. Derived(p, Pieces) /\ PieceOk(q) /\ \A x \in Pieces : PieceOk(x) /\ Matches(x, q)
    BY <1>4, <1>6, <2>1 DEF OnlyDerived, PiecesTyped, PiecesMatch
  <2>5. Matches(p, q)
    BY <2>4, DerivedMatches
  <2>6. /\ k \in 0 .. LastIndex(j) /\ k \in 0 .. LastIndex(j)' /\ n \in 0 .. k /\ n > 0
        /\ n \in 0 .. LastIndex(j) /\ n \in 0 .. LastIndex(j)'
    BY <1>2, <1>3, <1>4
  <2>7. Same(p, q, n)
    BY <1>2, <1>3, <2>2, <2>3, <2>5, <2>6 DEF Matches, Has
  <2> QED BY <2>2, <2>3, <2>6, <2>7 DEF Same
<1> QED BY <1>5, <1>6, GrowsOrDerived

LEMMA SecuredKept ==
    ASSUME Step, NEW n, NEW e, NEW t \in Nat, NEW k \in Nat, NEW Q \in SUBSET Server,
           Secured(n, e, t, k, Q)
    PROVE  Secured(n, e, t, k, Q)' /\ LeadersReach(t, k) /\ Spread(t, k) /\ Spread(t, k)'
<1>1. /\ IsMajority(Q) /\ n \in 1 .. k /\ Spread(t, k)
      /\ \A j \in Q : Keeps(t, k, j) /\ Demands(t, k, j) /\ At(j, n) = e
  BY DEF Secured
<1>2. LeadersReach(t, k)
  BY <1>1, MajorityBinds DEF Step, CommitBase
<1>3. Spread(t, k)'
  BY <1>1, <1>2, SpreadKept
<1>4. ASSUME NEW j \in Q
      PROVE  Keeps(t, k, j)' /\ Demands(t, k, j)' /\ At(j, n)' = e
  <2>1. Keeps(t, k, j)' /\ Demands(t, k, j)'
    BY <1>1, KeepsKept, DemandsKept
  <2>2. At(j, n)' = At(j, n)
    BY <1>1, <1>3, <2>1, ReachersKeep DEF Keeps
  <2> QED BY <1>1, <2>1, <2>2
<1>5. IsMajority(Q)'
  BY <1>1 DEF IsMajority
<1> QED BY <1>1, <1>2, <1>3, <1>4, <1>5 DEF Secured

\* What the leader i of term t has at index k stays with all who vouched for it.
Safe(i, t, k) ==
    Spread(t, k) /\ \A j \in Server : Vouched(i, j, k) => Keeps(t, k, j) /\ Demands(t, k, j)

\* A majority has left the term of leader i without acknowledging index k.
Blocked(i, k) ==
    \E Q \in SUBSET Server :
        IsMajority(Q) /\ \A j \in Q : term[j] > term[i] /\ ~Vouched(i, j, k)

\* What a leader took in its own term is safe with those that acknowledged it, or will
\* never be committed by it.
TakenAreSafe ==
    \A i \in Server : \A t \in Nat : \A k \in Nat :
        states[i] = "Leader" /\ term[i] = t /\ k > 0 /\ k <= LastIndex(i) /\ At(i, k).term = t
            => Safe(i, t, k) \/ Blocked(i, k)

\* Later leaders got the vote of somebody who vouched.
LEMMA UnblockedBind ==
    ASSUME LogInv, NEW i \in Server, NEW t \in Nat, term[i] = t, NEW k \in Nat, Safe(i, t, k),
           ~Blocked(i, k)
    PROVE  LeadersReach(t, k)
<1> SUFFICES ASSUME NEW y \in Server, states[y] = "Leader", term[y] > t
             PROVE  Reaches(y, t, k)
  BY DEF LeadersReach
<1> DEFINE e == [node |-> y, term |-> term[y]]
<1>1. e \in elected /\ e.node = y /\ e.term = term[y]
  BY DEF LogInv, WinnersStay
<1> HIDE DEF e
<1>2. PICK P \in SUBSET Server :
         /\ IsMajority(P)
         /\ \A j \in P : [voter |-> j, term |-> e.term, candidate |-> e.node] \in cast
  BY <1>1 DEF LogInv, ElectionInv, WinnersHadVotes
<1>3. ASSUME NEW j \in P
      PROVE  \E c \in cast : c.voter = j /\ c.term = term[y] /\ c.candidate = y
  <2> DEFINE c == [voter |-> j, term |-> e.term, candidate |-> e.node]
  <2>1. c \in cast /\ c.voter = j /\ c.term = term[y] /\ c.candidate = y
    BY <1>1, <1>2, <1>3
  <2> HIDE DEF c
  <2> QED BY <2>1
<1>4. ASSUME NEW j \in P PROVE term[j] > term[i]
  <2>1. PICK c \in cast : c.voter = j /\ c.term = term[y]
    BY <1>3
  <2>2. term[y] <= term[j]
    BY <2>1 DEF LogInv, ElectionInv, VoteInv, VotesRemembered
  <2>3. term[j] \in Nat /\ term[y] \in Nat
    BY <1>2, <1>4 DEF LogInv, ElectionInv, VoteInv, TypeOK
  <2> QED BY <2>2, <2>3
<1>5. PICK j \in P : Vouched(i, j, k)
  BY <1>2, <1>4 DEF Blocked
<1>6. j \in Server /\ Demands(t, k, j)
  BY <1>2, <1>5 DEF Safe
<1>7. PICK c \in cast : c.voter = j /\ c.term = term[y] /\ c.candidate = y
  BY <1>3
<1> QED BY <1>6, <1>7 DEF Demands

\* Who accepts a call of the leader past index k keeps what the leader has there.
LEMMA VoucherKeeps ==
    ASSUME Step, NEW i \in Server, states[i] = "Leader", states'[i] = "Leader",
           term'[i] = term[i], NEW t \in Nat, term[i] = t, NEW k \in Nat, k <= LastIndex(i),
           At(i, k).term = t, NEW j \in Server, Vouches(i, j, k)
    PROVE  Keeps(t, k, j)' /\ Demands(t, k, j)'
<1>1. PICK m \in messages :
         /\ Received(m) /\ Accepted(m) /\ m.from = i /\ m.to = j /\ m.term = term[i]
         /\ Len(m.entries) > 0 /\ k <= End(m)
  BY DEF Vouches
<1>2. /\ m \in Calls /\ End(m) \in Nat /\ End(m) <= LastIndex(i)
      /\ EndTerm(m) = At(i, End(m)).term /\ term'[j] = t
  BY <1>1, CallsOfLeader DEF Accepted, Step
<1>3. /\ CommitBase /\ CommitBase' /\ LogShape /\ ElectionSafety
  BY StepShape DEF Step
<1>4. EndTerm(m) \in Nat /\ t <= EndTerm(m)
  <2>1. PICK h \in Nat : h = End(m)
    BY <1>2
  <2>2. k <= h /\ h <= LastIndex(i)
    BY <1>1, <1>2, <2>1
  <2>3. At(i, k).term <= At(i, h).term /\ At(i, h).term \in Nat
    BY <1>3, <2>2 DEF LogShape
  <2> QED BY <1>2, <2>1, <2>3
<1>5. CallReaches(m, t, k)
  BY <1>1, <1>2, <1>4 DEF CallReaches, NotOlder
<1>6. Reaches(j, t, k)'
  BY <1>1, <1>2, <1>5, AcceptedReaches
<1>7. ASSUME NEW n \in Calls' \ overtaken', n.to = j, n.term = t
      PROVE  CallReaches(n, t, k)'
  <2>1. n \in Calls
    BY <1>1 DEF Received, Answers, Calls
  <2>2. n.from = i /\ End(n) \in Nat /\ EndTerm(n) \in Nat
    BY <1>3, <1>7, <2>1, CallsOfLeader, BaseFacts
  <2>3. End(m) <= End(n)
    BY <1>1, <1>7, <2>1, <2>2 DEF Accepted
  <2>4. EndTerm(m) <= EndTerm(n)
    BY <1>1, <1>2, <1>3, <1>7, <2>1, <2>3 DEF CommitBase, CallsGrow
  <2>5. NotOlder(EndTerm(n), End(n), t, k)
    BY <1>2, <1>4, <1>5, <2>2, <2>3, <2>4, NotOlderUp DEF CallReaches
  <2> QED BY <1>7, <2>5, CallReachesStays DEF CallReaches
<1>8. Keeps(t, k, j)'
  BY <1>2, <1>6, <1>7 DEF Keeps
<1>9. Demands(t, k, j)'
  <2>1. ASSUME NEW c \in cast', c.voter = j, c.term > t PROVE FALSE
    <3>1. c.term <= term'[j] /\ c.term \in Nat
      BY <1>3, <2>1 DEF CommitBase, LogInv, ElectionInv, VoteInv, VotesRemembered, TypeOK
    <3> QED BY <1>2, <2>1, <3>1
  <2> QED BY <2>1 DEF Demands
<1> QED BY <1>8, <1>9

LEMMA BlockedKept ==
    ASSUME Step, NEW i \in Server, states[i] = "Leader", states'[i] = "Leader",
           term'[i] = term[i], NEW k \in Nat, k > 0, Blocked(i, k)
    PROVE  Blocked(i, k)'
<1>1. PICK Q \in SUBSET Server :
         IsMajority(Q) /\ \A j \in Q : term[j] > term[i] /\ ~Vouched(i, j, k)
  BY DEF Blocked
<1>2. ASSUME NEW j \in Q PROVE term'[j] > term'[i] /\ ~Vouched(i, j, k)'
  <2>1. term[j] \in Nat /\ term'[j] \in Nat /\ term'[j] >= term[j] /\ term[i] \in Nat
    BY BaseFacts
  <2>2. term[j] > term[i] /\ ~Vouched(i, j, k) /\ j # i
    BY <1>1, <2>1
  <2>3. ~Vouches(i, j, k)
    <3> SUFFICES ASSUME NEW m \in messages, Accepted(m), m.to = j, m.term = term[i] PROVE FALSE
      BY DEF Vouches
    <3> QED BY <2>1, <2>2 DEF Accepted
  <2>4. ~Vouched(i, j, k)'
    BY <2>2, <2>3, VouchedBefore
  <2> QED BY <2>1, <2>2, <2>4
<1>3. IsMajority(Q)'
  BY <1>1 DEF IsMajority
<1> QED BY <1>2, <1>3 DEF Blocked

LEMMA SafeKept ==
    ASSUME Step, NEW i \in Server, states[i] = "Leader", states'[i] = "Leader",
           term'[i] = term[i], NEW t \in Nat, term[i] = t, NEW k \in Nat, k > 0,
           k <= LastIndex(i), At(i, k).term = t, Safe(i, t, k), ~Blocked(i, k)
    PROVE  Safe(i, t, k)'
<1>1. Spread(t, k) /\ LeadersReach(t, k)
  BY UnblockedBind DEF Safe, Step, CommitBase
<1>2. Spread(t, k)'
  BY <1>1, SpreadKept
<1>3. ASSUME NEW j \in Server, Vouched(i, j, k)'
      PROVE  Keeps(t, k, j)' /\ Demands(t, k, j)'
  <2>1. CASE Vouched(i, j, k)
    BY <1>1, <2>1, KeepsKept, DemandsKept DEF Safe
  <2>2. CASE Vouches(i, j, k)
    BY <2>2, VoucherKeeps
  <2>3. CASE j = i
    BY <2>1, <2>3 DEF Vouched
  <2> QED BY <1>3, <2>1, <2>2, <2>3, VouchedBefore
<1> QED BY <1>2, <1>3 DEF Safe

\* What a leader just took nobody else vouches for, and nobody else has.
LEMMA NewEntrySafe ==
    ASSUME Step, NEW i \in Server, Took(i), NEW t \in Nat, term[i] = t,
           NEW k \in Nat, k = LastIndex(i) + 1
    PROVE  Safe(i, t, k)' \/ Blocked(i, k)'
<1>1. /\ states[i] = "Leader" /\ states'[i] = "Leader" /\ term'[i] = t
      /\ UNCHANGED <<term, states, messages, elected, cast, matchIndex>>
      /\ LastIndex(i)' = k /\ At(i, k)'.term = t /\ LastTerm(i)' = t
  BY DEF Took
<1>2. /\ TypeOK /\ LastIndex(i) \in Nat /\ AcksAreTrue /\ VotesRemembered /\ WinnersHadVotes
      /\ WinnersStay
  BY BaseFacts DEF Step, CommitBase, LogInv, ElectionInv, VoteInv
<1>3. /\ ElectionSafety /\ CommitBase /\ CallsFromLeaders' /\ TermsWereLed' /\ LeadersHoldTheirs'
      /\ VotesRemembered' /\ PiecesTyped' /\ TypeOK'
  BY StepShape, BaseFacts DEF Step, CommitBase, LogInv, ElectionInv, VoteInv
<1> DEFINE own == [node |-> i, term |-> term[i]]
<1>4. own \in elected /\ own.node = i /\ own.term = t
  BY <1>1, <1>2 DEF WinnersStay
<1> HIDE DEF own
<1>5. ASSUME NEW j \in Server, j # i PROVE ~Vouched(i, j, k)'
  <2>1. Vouched(i, j, k)' <=> Vouched(i, j, k)
    BY <1>1 DEF Vouched, AnswersTo, Acknowledged
  <2>2. ~Vouched(i, j, k)
    <3> SUFFICES ASSUME Vouched(i, j, k) PROVE FALSE
      OBVIOUS
    <3>1. k > 0
      BY <1>2
    <3>2. k <= LastIndex(i)
      BY <1>1, <1>2, <1>5, <3>1 DEF AcksAreTrue, Holds
    <3> QED BY <1>2, <3>2
  <2> QED BY <2>1, <2>2
<1>6. ASSUME NEW e \in elected, e.term > t PROVE Blocked(i, k)'
  <2>1. PICK P \in SUBSET Server :
           /\ IsMajority(P)
           /\ \A j \in P : [voter |-> j, term |-> e.term, candidate |-> e.node] \in cast
    BY <1>2 DEF WinnersHadVotes
  <2>2. ASSUME NEW j \in P PROVE term'[j] > term'[i] /\ ~Vouched(i, j, k)'
    <3> DEFINE c == [voter |-> j, term |-> e.term, candidate |-> e.node]
    <3>1. c \in cast /\ c.voter = j /\ c.term = e.term
      BY <2>1
    <3> HIDE DEF c
    <3>2. e.term <= term[j]
      BY <1>2, <3>1 DEF VotesRemembered
    <3>3. term[j] \in Nat /\ e.term \in Nat
      BY <1>2 DEF TypeOK
    <3>4. term[j] > t
      BY <1>6, <3>2, <3>3
    <3>5. j # i
      BY <3>3, <3>4
    <3> QED BY <1>1, <1>5, <3>4, <3>5
  <2>3. IsMajority(P)'
    BY <2>1 DEF IsMajority
  <2> QED BY <2>2, <2>3 DEF Blocked
<1>7. ASSUME \A e \in elected : ~(e.term > t) PROVE Safe(i, t, k)'
  <2>1. ASSUME NEW p \in Pieces', NEW g \in p.first .. p.last,
               NotOlder(p.at[g].term, g, t, k)
        PROVE  /\ k <= g
               /\ p.first <= k => p.at[k].term = t
               /\ p.first > k => p.at[p.first].term >= t
    <3>1. p.at[g].term = 0 \/ \E e \in elected : e.term = p.at[g].term
      BY <1>1, <1>3 DEF TermsWereLed
    <3>2. ~(p.at[g].term > t)
      BY <1>7, <3>1
    <3>3. p.at[g].term = t /\ g >= k
      BY <2>1, <3>2 DEF NotOlder
    <3>4. g <= LastIndex(i)'
      BY <1>1, <1>3, <3>3 DEF LeadersHoldTheirs
    <3>5. p.first \in Nat /\ p.last \in Nat
      BY <1>3 DEF PiecesTyped, PieceOk
    <3>6. g = k /\ p.first <= k
      BY <1>1, <3>3, <3>4, <3>5
    <3> QED BY <3>3, <3>5, <3>6
  <2>2. \A p \in Pieces' : Through(p, t, k)'
    BY <2>1 DEF Through, NotOlder
  <2>3. ASSUME NEW m \in Calls', m.term > t PROVE FALSE
    <3> DEFINE e == [node |-> m.from, term |-> m.term]
    <3>1. e \in elected /\ e.term = m.term
      BY <1>1, <1>3 DEF CallsFromLeaders
    <3> HIDE DEF e
    <3> QED BY <1>7, <2>3, <3>1
  <2>4. Reaches(i, t, k)'
    BY <1>1 DEF Reaches, NotOlder
  <2>5. ASSUME NEW y \in Server, states'[y] = "Leader", term'[y] = t PROVE y = i
    <3> DEFINE e == [node |-> y, term |-> term[y]]
    <3>1. e \in elected /\ e.node = y /\ e.term = t
      BY <1>1, <1>2, <2>5 DEF WinnersStay
    <3> HIDE DEF e
    <3> QED BY <1>3, <1>4, <3>1 DEF ElectionSafety
  <2>6. Spread(t, k)'
    BY <1>1, <1>4, <2>2, <2>3, <2>4, <2>5 DEF Spread
  <2>7. ASSUME NEW m \in Calls', m.to = i, m.term = t PROVE FALSE
    <3>1. m \in Calls
      BY <1>1 DEF Calls
    <3>2. m.from = i
      BY <1>1, <1>3, <2>7, <3>1, CallsOfLeader
    <3> QED BY <1>3, <2>7, <3>2 DEF CallsFromLeaders
  <2>8. Keeps(t, k, i)'
    BY <1>1, <2>4, <2>7 DEF Keeps
  <2>9. Demands(t, k, i)'
    <3>1. ASSUME NEW c \in cast', c.voter = i, c.term > t PROVE FALSE
      <4>1. c.term <= t /\ c.term \in Nat
        BY <1>1, <1>3, <3>1 DEF VotesRemembered, TypeOK
      <4> QED BY <3>1, <4>1
    <3> QED BY <3>1 DEF Demands
  <2> QED BY <1>5, <2>6, <2>8, <2>9 DEF Safe
<1> QED BY <1>6, <1>7

LEMMA TakenStaySafe ==
    ASSUME Step, TakenAreSafe
    PROVE  TakenAreSafe'
<1> SUFFICES ASSUME NEW i \in Server, NEW t \in Nat, NEW k \in Nat,
                    states'[i] = "Leader", term'[i] = t, k > 0, k <= LastIndex(i)',
                    At(i, k)'.term = t
             PROVE  Safe(i, t, k)' \/ Blocked(i, k)'
  BY DEF TakenAreSafe
<1>1. Roles /\ LogsChange /\ LogShape' /\ LastIndex(i) \in Nat /\ LastIndex(i)' \in Nat
      /\ TypeOK /\ NoSnapshots /\ NoSnapshots' /\ LastTerm(i)' \in Nat
  BY StepShape, BaseFacts DEF Step
<1>2. Grows(i)
  BY StandingGrow
<1>3. CASE Fresh(i)
  <2>1. LastTerm(i)' < t
    BY <1>3 DEF Fresh
  <2>2. t <= LastTerm(i)'
    BY <1>1 DEF LogShape
  <2> QED BY <1>1, <2>1, <2>2
<1>4. CASE states[i] = "Leader" /\ term'[i] = term[i]
  <2>1. CASE k <= LastIndex(i)
    <3>1. At(i, k)' = At(i, k)
      <4>1. k \in 0 .. LastIndex(i)
        BY <1>1, <2>1
      <4> QED BY <1>2, <4>1 DEF Grows
    <3>2. Safe(i, t, k) \/ Blocked(i, k)
      BY <1>4, <2>1, <3>1 DEF TakenAreSafe
    <3> QED BY <1>4, <2>1, <3>1, <3>2, SafeKept, BlockedKept
  <2>2. CASE k > LastIndex(i)
    <3>1. log'[i] # log[i]
      <4>1. log'[i] = log[i] => LastIndex(i)' = LastIndex(i)
        BY <1>1, SameGrows DEF NoSnapshots
      <4> QED BY <1>1, <2>2, <4>1
    <3>2. ~ \E m \in Calls : m.to = i /\ Accepted(m)
      BY DEF Accepted
    <3>3. Took(i)
      BY <1>1, <3>1, <3>2 DEF LogsChange
    <3>4. k = LastIndex(i) + 1
      <4>1. LastIndex(i)' = LastIndex(i) + 1
        BY <3>3 DEF Took
      <4> HIDE DEF LastIndex
      <4> QED BY <1>1, <2>2, <4>1
    <3> QED BY <1>4, <3>3, <3>4, NewEntrySafe
  <2> QED BY <1>1, <2>1, <2>2
<1> QED BY <1>1, <1>3, <1>4 DEF Roles

-----------------------------------------------------------------------------
(* How commitIndex moves *)

\* Leader i counts a majority up to index N, where it has an entry of its own term.
LeaderCommits(i, N) ==
    /\ states[i] = "Leader" /\ N \in Nat /\ N > 0 /\ N > commitIndex[i]
    /\ N <= LastIndex(i) /\ At(i, N).term = term[i]
    /\ \E Q \in SUBSET Server : IsMajority(Q) /\ \A j \in Q : Vouched(i, j, N)
    /\ commitIndex'[i] = N /\ \A j \in Server : j # i => commitIndex'[j] = commitIndex[j]
    /\ committed \subseteq committed'
    /\ \A r \in committed' :
          r \in committed \/ (r.index \in 1 .. N /\ r.entry = At(i, r.index) /\ r.term = term[i])
    /\ \A n \in commitIndex[i] + 1 .. N :
          \E r \in committed' : r.index = n /\ r.entry = At(i, n)

CommitsMove ==
    \/ UNCHANGED <<commitIndex, committed>>
    \/ \E i \in Server : \E N \in Nat : LeaderCommits(i, N)
    \/ \E m \in messages : Received(m) /\ Accepted(m) /\ Learns(m)

LEMMA AdvanceMoves ==
    ASSUME TypeOK, NoSnapshots, NEW i \in Server, states[i] = "Leader", NEW R,
           AdvanceCommit(i, R),
           \A N \in R : /\ N \in Nat /\ N > 0 /\ N <= LastIndex(i)
                        /\ \E Q \in SUBSET Server : IsMajority(Q) /\ \A j \in Q : Vouched(i, j, N)
    PROVE  UNCHANGED <<commitIndex, committed>> \/ \E N \in Nat : LeaderCommits(i, N)
<1> SUFFICES ASSUME NEW N \in R, N > commitIndex[i], Committable(i, N),
                    commitIndex' = [commitIndex EXCEPT ![i] = N],
                    committed' = Commits(i, log[i], N, term[i])
             PROVE  LeaderCommits(i, N) /\ N \in Nat
  BY DEF AdvanceCommit
<1>1. /\ commitIndex[i] \in Nat /\ lastSnapIndex[i] = 0
      /\ commitIndex \in [Server -> Nat]
  BY DEF TypeOK, NoSnapshots
<1>2. commitIndex'[i] = N /\ \A j \in Server : j # i => commitIndex'[j] = commitIndex[j]
  BY <1>1
<1>3. Maximum(commitIndex[i], 0) = commitIndex[i]
  BY <1>1 DEF Maximum
<1> DEFINE new == {n \in commitIndex[i] + 1 .. N :
                      \A r \in committed : r.index = n => r.entry # At(i, n)}
<1>4. committed' = committed \cup
                      {[index |-> n, entry |-> At(i, n), term |-> term[i]] : n \in new}
  BY <1>1, <1>3 DEF Commits, At
<1>5. \A n \in new : n \in commitIndex[i] + 1 .. N
  OBVIOUS
<1>6. \A n \in commitIndex[i] + 1 .. N :
         n \in new \/ \E r \in committed : r.index = n /\ r.entry = At(i, n)
  OBVIOUS
<1> HIDE DEF new
<1>7. \A r \in committed' : r \in committed
         \/ \E n \in new : r.index = n /\ r.entry = At(i, n) /\ r.term = term[i]
  BY <1>4
<1>8. ASSUME NEW n \in new PROVE \E r \in committed' : r.index = n /\ r.entry = At(i, n)
  <2> DEFINE r == [index |-> n, entry |-> At(i, n), term |-> term[i]]
  <2>1. r.index = n /\ r.entry = At(i, n) /\ r \in committed'
    BY <1>4
  <2> HIDE DEF r
  <2> QED BY <2>1
<1>9. \A n \in commitIndex[i] + 1 .. N : n \in 1 .. N
  BY <1>1
<1>10. \A r \in committed' :
          r \in committed \/ (r.index \in 1 .. N /\ r.entry = At(i, r.index) /\ r.term = term[i])
  BY <1>5, <1>7, <1>9
<1>11. \A n \in commitIndex[i] + 1 .. N :
          \E r \in committed' : r.index = n /\ r.entry = At(i, n)
  BY <1>4, <1>6, <1>8
<1>12. committed \subseteq committed'
  BY <1>4
<1> QED BY <1>2, <1>10, <1>11, <1>12 DEF LeaderCommits, Committable

\* Answers raise matchIndex and a leader counts it.
LEMMA AppendReplyCommits ==
    ASSUME CommitBase, NEW m \in messages, AppendReply(m)
    PROVE  UNCHANGED <<commitIndex, committed>> \/ \E N \in Nat : LeaderCommits(m.to, N)
<1> DEFINE i == m.to
           matched == IF m.len > 0 THEN [matchIndex[i] EXCEPT ![m.from] = Acknowledged(m)]
                      ELSE matchIndex[i]
           replicated == {N \in lastSnapIndex[i] + 1 .. LastIndex(i) :
                             IsMajority({i} \cup {k \in Server : matched[k] >= N})}
<1>1. TypeOK /\ NoSnapshots /\ m.type = "AppendReply"
  BY DEF CommitBase, LogInv, ElectionInv, VoteInv, AppendReply
<1>2. m.to \in Server /\ m.from \in Server /\ m.prevIndex \in Nat /\ m.len \in Nat
  BY <1>1, MessageFacts
<1>3. \/ UNCHANGED <<commitIndex, committed>>
      \/ StillLeads(i, m) /\ m.success /\ AdvanceCommit(i, replicated)
  BY DEF AppendReply
<1>4. ASSUME StillLeads(i, m), m.success, NEW N \in replicated
      PROVE  /\ N \in Nat /\ N > 0 /\ N <= LastIndex(i)
             /\ \E Q \in SUBSET Server : IsMajority(Q) /\ \A j \in Q : Vouched(i, j, N)
  <2>1. lastSnapIndex[i] = 0 /\ LastIndex(i) \in Nat /\ matchIndex[i] \in [Server -> Nat]
    BY <1>1, <1>2, LogFacts DEF NoSnapshots, TypeOK
  <2>2. N \in lastSnapIndex[i] + 1 .. LastIndex(i)
    OBVIOUS
  <2>3. N \in Nat /\ N > 0 /\ N <= LastIndex(i)
    BY <2>1, <2>2
  <2>4. ASSUME NEW k \in Server, matched[k] >= N PROVE Vouched(i, k, N)
    <3>1. CASE m.len > 0 /\ k = m.from
      <4>1. matched[k] = Acknowledged(m)
        BY <1>2, <2>1, <3>1
      <4>2. Acknowledged(m) \in Nat
        BY <1>2 DEF Acknowledged
      <4>3. N <= Acknowledged(m)
        BY <2>3, <2>4, <4>1, <4>2
      <4>4. AnswersTo(i, m)
        BY <1>1, <1>4 DEF AnswersTo, StillLeads
      <4> QED BY <3>1, <4>3, <4>4 DEF Vouched
    <3>2. CASE ~(m.len > 0 /\ k = m.from)
      <4>1. matched[k] = matchIndex[i][k] /\ matchIndex[i][k] \in Nat
        BY <1>2, <2>1, <3>2
      <4>2. N <= matchIndex[i][k]
        BY <2>3, <2>4, <4>1
      <4> QED BY <4>2 DEF Vouched
    <3> QED BY <3>1, <3>2
  <2>5. IsMajority({i} \cup {k \in Server : matched[k] >= N})
    OBVIOUS
  <2>6. \A k \in {i} \cup {y \in Server : matched[y] >= N} : Vouched(i, k, N)
    BY <2>4 DEF Vouched
  <2>7. {i} \cup {k \in Server : matched[k] >= N} \in SUBSET Server
    BY <1>2
  <2> HIDE DEF matched
  <2> QED BY <2>3, <2>5, <2>6, <2>7
<1> HIDE DEF matched, replicated
<1> QED BY <1>1, <1>2, <1>3, <1>4, AdvanceMoves DEF StillLeads

LEMMA BroadcastCommits ==
    ASSUME CommitBase, NEW i \in Server, Broadcast(i)
    PROVE  UNCHANGED <<commitIndex, committed>> \/ \E N \in Nat : LeaderCommits(i, N)
<1>1. TypeOK /\ NoSnapshots
  BY DEF CommitBase, LogInv, ElectionInv, VoteInv
<1>2. /\ states[i] = "Leader"
      /\ \/ UNCHANGED <<commitIndex, committed>>
         \/ Server = {i} /\ AdvanceCommit(i, lastSnapIndex[i] + 1 .. LastIndex(i))
  BY DEF Broadcast
<1>3. ASSUME Server = {i}, NEW N \in lastSnapIndex[i] + 1 .. LastIndex(i)
      PROVE  /\ N \in Nat /\ N > 0 /\ N <= LastIndex(i)
             /\ \E Q \in SUBSET Server : IsMajority(Q) /\ \A j \in Q : Vouched(i, j, N)
  <2>1. lastSnapIndex[i] = 0 /\ LastIndex(i) \in Nat
    BY <1>1, LogFacts DEF NoSnapshots
  <2>2. N \in Nat /\ N > 0 /\ N <= LastIndex(i)
    BY <2>1
  <2>3. IsMajority({i})
    <3>1. Cardinality({i}) = 1
      BY FS_Singleton
    <3>2. Cardinality(Server) = 1
      BY <1>3, <3>1
    <3>3. 1 > 1 \div 2
      OBVIOUS
    <3> QED BY <3>1, <3>2, <3>3 DEF IsMajority
  <2>4. {i} \in SUBSET Server /\ \A j \in {i} : Vouched(i, j, N)
    BY DEF Vouched
  <2> QED BY <2>2, <2>3, <2>4
<1> QED BY <1>1, <1>2, <1>3, AdvanceMoves

LEMMA CommitsMoved ==
    ASSUME CommitBase, Moves
    PROVE  CommitsMove
<1>1. TypeOK /\ NoSnapshots
  BY DEF CommitBase, LogInv, ElectionInv, VoteInv
<1>2. ASSUME NEW i \in Server, StartElection(i) \/ Apply(i) \/ UNCHANGED vars
      PROVE  UNCHANGED <<commitIndex, committed>>
  BY <1>2 DEF StartElection, Apply, vars, applyVars
<1>3. ASSUME NEW m \in messages, RequestVote(m) \/ VoteReply(m) \/ InstallReply(m)
      PROVE  UNCHANGED <<commitIndex, committed>>
  BY <1>3 DEF RequestVote, VoteReply, InstallReply, applyVars
<1>4. ASSUME NEW m \in messages, InstallSnapshot(m)
      PROVE  UNCHANGED <<commitIndex, committed>>
  <2>1. m.to \in Server /\ m.type = "InstallSnapshot"
    BY <1>1, <1>4, MessageFacts DEF InstallSnapshot
  <2>2. m.lastSnapIndex <= lastSnapIndex[m.to]
    BY <1>1, <2>1 DEF NoSnapshots
  <2> QED BY <1>4, <2>2 DEF InstallSnapshot
<1>5. ASSUME NEW m \in messages, AppendReply(m) PROVE CommitsMove
  <2>1. m.to \in Server
    BY <1>1, <1>5, MessageFacts DEF AppendReply
  <2> QED BY <1>5, <2>1, AppendReplyCommits DEF CommitsMove
<1>6. ASSUME NEW i \in Server, Broadcast(i) PROVE CommitsMove
  BY <1>6, BroadcastCommits DEF CommitsMove
<1>7. PICK any \in Server : TRUE
  BY RaftAssumption
<1>8. CASE QuietAction
  BY <1>2, <1>3, <1>4, <1>5, <1>6, <1>7, <1>8 DEF QuietAction, CommitsMove
<1>9. ASSUME NEW i \in Server, Took(i) PROVE CommitsMove
  BY <1>9 DEF Took, CommitsMove
<1>10. CASE Sends
  BY <1>10 DEF Sends, CommitsMove
<1>11. ASSUME NEW m \in messages, Received(m) PROVE CommitsMove
  <2>1. UNCHANGED <<commitIndex, committed>> \/ (Accepted(m) /\ Learns(m))
    BY <1>11 DEF Received
  <2> QED BY <1>11, <2>1 DEF CommitsMove
<1> QED BY <1>8, <1>9, <1>10, <1>11 DEF Moves

-----------------------------------------------------------------------------
(* What was committed is where it cannot be lost *)

CommittedAreSafe ==
    \A c \in committed : \E k \in Nat : \E Q \in SUBSET Server :
        Secured(c.index, c.entry, c.term, k, Q)

\* What commitIndex covers was committed, and the node keeps it.
NodesKnow ==
    \A j \in Server : \A n \in Nat : 0 < n /\ n <= commitIndex[j] =>
        \E c \in committed : \E t \in Nat : \E k \in Nat : \E Q \in SUBSET Server :
            c.index = n /\ Secured(n, c.entry, t, k, Q) /\ Keeps(t, k, j)

\* A call tells of no more than its sender keeps and it brings.
CallsKnow ==
    \A m \in Calls : \A n \in Nat : 0 < n /\ n <= m.commit =>
        \E c \in committed : \E t \in Nat : \E k \in Nat : \E Q \in SUBSET Server :
            /\ c.index = n /\ t <= m.term
            /\ Secured(n, c.entry, t, k, Q) /\ CallReaches(m, t, k)

CommitInv ==
    CommitBase /\ TakenAreSafe /\ CommittedAreSafe /\ NodesKnow /\ CallsKnow

-----------------------------------------------------------------------------
LEMMA CommitIsSecured ==
    ASSUME CommitBase, TakenAreSafe, NEW i \in Server, NEW N \in Nat, LeaderCommits(i, N),
           NEW t \in Nat, term[i] = t
    PROVE  /\ Keeps(t, N, i)
           /\ \E Q \in SUBSET Server : \A n \in 1 .. N : Secured(n, At(i, n), t, N, Q)
<1>1. /\ states[i] = "Leader" /\ N > 0 /\ N <= LastIndex(i) /\ At(i, N).term = t
      /\ \E Q \in SUBSET Server : IsMajority(Q) /\ \A j \in Q : Vouched(i, j, N)
  BY DEF LeaderCommits
<1>2. PICK Q \in SUBSET Server : IsMajority(Q) /\ \A j \in Q : Vouched(i, j, N)
  BY <1>1
<1>3. ~Blocked(i, N)
  <2> SUFFICES ASSUME NEW P \in SUBSET Server, IsMajority(P), \A j \in P : ~Vouched(i, j, N)
               PROVE  FALSE
    BY DEF Blocked
  <2>1. PICK j \in P \cap Q : TRUE
    BY <1>2, MajoritiesIntersect
  <2> QED BY <1>2, <2>1
<1>4. Safe(i, t, N)
  BY <1>1, <1>3 DEF TakenAreSafe
<1>5. Keeps(t, N, i)
  BY <1>4 DEF Safe, Vouched
<1>6. ASSUME NEW n \in 1 .. N PROVE Secured(n, At(i, n), t, N, Q)
  <2>1. ASSUME NEW j \in Q
        PROVE  Keeps(t, N, j) /\ Demands(t, N, j) /\ At(j, n) = At(i, n)
    <3>1. Keeps(t, N, j) /\ Demands(t, N, j) /\ Reaches(j, t, N)
      BY <1>2, <1>4 DEF Safe, Keeps
    <3>2. LogPiece(j) \in Pieces /\ LogShape
      BY LogsHaveShape DEF Pieces
    <3>3. N <= LastIndex(j) /\ At(j, N).term = At(i, N).term
      BY <1>1, <1>4, <3>1, <3>2 DEF LogShape, Safe, Spread
    <3>4. At(j, n) = At(i, n)
      BY <1>1, <3>2, <3>3 DEF LogShape
    <3> QED BY <3>1, <3>4
  <2> QED BY <1>2, <1>4, <2>1 DEF Secured, Safe
<1> QED BY <1>5, <1>6

\* What a follower learns has been committed.
LEMMA LearnerFinds ==
    ASSUME Step, CallsKnow, NEW m \in messages, Received(m), Accepted(m),
           NEW n \in Nat, 0 < n, n <= m.commit
    PROVE  \E c \in committed : \E t \in Nat : \E k \in Nat : \E Q \in SUBSET Server :
              /\ c.index = n /\ Secured(n, c.entry, t, k, Q) /\ Secured(n, c.entry, t, k, Q)'
              /\ Keeps(t, k, m.to)'
<1>1. m \in Calls /\ m.to \in Server /\ m.term \in Nat /\ End(m) \in Nat /\ EndTerm(m) \in Nat
  BY BaseFacts DEF Accepted
<1>2. PICK c \in committed, t \in Nat, k \in Nat, Q \in SUBSET Server :
         c.index = n /\ t <= m.term /\ Secured(n, c.entry, t, k, Q) /\ CallReaches(m, t, k)
  BY <1>1 DEF CallsKnow
<1>3. Secured(n, c.entry, t, k, Q)'
  BY <1>2, SecuredKept
<1>4. Reaches(m.to, t, k)'
  BY <1>1, <1>2, AcceptedReaches
<1>5. term'[m.to] = m.term
  BY DEF Accepted
<1>6. ASSUME m.term = t, NEW x \in Calls' \ overtaken', x.to = m.to, x.term = t
      PROVE  CallReaches(x, t, k)'
  <2>1. x \in Calls
    BY DEF Received, Answers, Calls
  <2>2. End(x) \in Nat /\ EndTerm(x) \in Nat
    BY <2>1, BaseFacts
  <2>3. CallsFromLeaders /\ CallsGrow /\ ElectionSafety
    BY DEF Step, CommitBase
  <2>4. x.from = m.from
    <3> DEFINE a == [node |-> x.from, term |-> x.term]
               b == [node |-> m.from, term |-> m.term]
    <3>1. a \in elected /\ b \in elected
      BY <1>1, <2>1, <2>3 DEF CallsFromLeaders
    <3>2. a.term = b.term /\ a.node = x.from /\ b.node = m.from
      BY <1>6
    <3> HIDE DEF a, b
    <3> QED BY <2>3, <3>1, <3>2 DEF ElectionSafety
  <2>5. End(m) <= End(x)
    BY <1>6, <2>1, <2>4 DEF Accepted
  <2>6. EndTerm(m) <= EndTerm(x)
    BY <1>1, <1>6, <2>1, <2>3, <2>5 DEF CallsGrow
  <2>7. NotOlder(EndTerm(m), End(m), t, k)
    BY <1>2 DEF CallReaches
  <2>8. NotOlder(EndTerm(x), End(x), t, k)
    BY <1>1, <2>2, <2>5, <2>6, <2>7, NotOlderUp
  <2> QED BY <1>6, <2>8, CallReachesStays DEF CallReaches
<1>7. term'[m.to] >= t
  BY <1>1, <1>2, <1>5
<1>8. Keeps(t, k, m.to)'
  BY <1>4, <1>5, <1>6, <1>7 DEF Keeps
<1> QED BY <1>2, <1>3, <1>8

\* So it adds nothing.
LEMMA LearnerAddsNothing ==
    ASSUME Step, CallsKnow, NEW m \in messages, Received(m), Accepted(m), Learns(m)
    PROVE  /\ committed' = committed
           /\ commitIndex'[m.to] = commitIndex[m.to] \/ commitIndex'[m.to] <= m.commit
           /\ commitIndex'[m.to] >= commitIndex[m.to] \/ commitIndex'[m.to] = LastIndex(m.to)
<1>1. /\ m \in Calls /\ m.to \in Server /\ TypeOK /\ TypeOK' /\ m.type = "AppendEntries"
      /\ LastIndex(m.to) \in Nat
  BY BaseFacts DEF Accepted
<1>2. commitIndex[m.to] \in Nat /\ commitIndex'[m.to] \in Nat /\ m.commit \in Nat
  BY <1>1, MessageFacts DEF TypeOK
<1>3. \/ commitIndex'[m.to] = commitIndex[m.to]
      \/ /\ commitIndex[m.to] < m.commit
         /\ commitIndex'[m.to] = Minimum(m.commit, LastIndex(m.to))
  BY DEF Learns
<1>4. /\ commitIndex'[m.to] = commitIndex[m.to] \/ commitIndex'[m.to] <= m.commit
      /\ commitIndex'[m.to] >= commitIndex[m.to] \/ commitIndex'[m.to] = LastIndex(m.to)
  <2> HIDE DEF LastIndex
  <2> QED BY <1>1, <1>2, <1>3 DEF Minimum
<1>5. ASSUME NEW r \in committed', r \notin committed PROVE FALSE
  <2>1. /\ commitIndex[m.to] < r.index /\ r.index <= commitIndex'[m.to]
        /\ r.entry = At(m.to, r.index)'
        /\ \A x \in committed : x.index = r.index => x.entry # r.entry
    BY <1>5 DEF Learns
  <2>2. r.index \in Nat /\ r.entry \in Entry
    BY <1>1 DEF TypeOK
  <2>3. PICK n \in Nat : n = r.index
    BY <2>2
  <2>4. 0 < n /\ n <= m.commit
    BY <1>2, <1>4, <2>1, <2>3
  <2>5. PICK c \in committed, t \in Nat, k \in Nat, Q \in SUBSET Server :
           c.index = n /\ Secured(n, c.entry, t, k, Q)' /\ Keeps(t, k, m.to)'
    BY <2>4, LearnerFinds
  <2>6. c.entry \in Entry
    BY <1>1 DEF TypeOK
  <2>7. SecuredShape'
    BY StepShape, SecuredShapeKept
  <2>8. At(m.to, n)' = c.entry
    BY <1>1, <2>5, <2>6, <2>7 DEF SecuredShape, Keeps
  <2>9. At(m.to, r.index)' = c.entry
    BY <2>3, <2>8 DEF At
  <2> QED BY <2>1, <2>3, <2>5, <2>9
<1>6. committed \subseteq committed'
  BY DEF Learns
<1> QED BY <1>4, <1>5, <1>6

-----------------------------------------------------------------------------
(* Every step keeps the whole invariant *)

LEMMA CommittedGrow ==
    ASSUME CommitsMove
    PROVE  committed \subseteq committed'
BY DEF CommitsMove, LeaderCommits, Learns

\* The new records of a leader are secured.
LEMMA NewAreSafe ==
    ASSUME Step, TakenAreSafe, NEW i \in Server, NEW N \in Nat, LeaderCommits(i, N),
           NEW c \in committed', c \notin committed
    PROVE  \E k \in Nat : \E Q \in SUBSET Server : Secured(c.index, c.entry, c.term, k, Q)
<1>1. c.index \in 1 .. N /\ c.entry = At(i, c.index) /\ c.term = term[i]
  BY DEF LeaderCommits
<1>2. c.term \in Nat
  BY <1>1, BaseFacts
<1>3. PICK Q \in SUBSET Server : \A n \in 1 .. N : Secured(n, At(i, n), c.term, N, Q)
  BY <1>1, <1>2, CommitIsSecured DEF Step
<1>4. Secured(c.index, c.entry, c.term, N, Q)
  BY <1>1, <1>3
<1> QED BY <1>4

LEMMA CommittedStaySafe ==
    ASSUME Step, TakenAreSafe, CallsKnow, CommittedAreSafe, CommitsMove
    PROVE  CommittedAreSafe'
<1> SUFFICES ASSUME NEW c \in committed'
             PROVE  \E k \in Nat : \E Q \in SUBSET Server :
                       Secured(c.index, c.entry, c.term, k, Q)'
  BY DEF CommittedAreSafe
<1>1. \E k \in Nat : \E Q \in SUBSET Server : Secured(c.index, c.entry, c.term, k, Q)
  <2>1. CASE c \in committed
    BY <2>1 DEF CommittedAreSafe
  <2>2. ASSUME NEW m \in messages, Received(m), Accepted(m), Learns(m) PROVE c \in committed
    BY <2>2, LearnerAddsNothing
  <2> QED BY <2>1, <2>2, NewAreSafe DEF CommitsMove
<1>2. c.term \in Nat
  BY BaseFacts DEF TypeOK
<1>3. PICK k \in Nat, Q \in SUBSET Server : Secured(c.index, c.entry, c.term, k, Q)
  BY <1>1
<1>4. Secured(c.index, c.entry, c.term, k, Q)'
  BY <1>2, <1>3, SecuredKept
<1> QED BY <1>4

LEMMA NodesStillKnow ==
    ASSUME Step, TakenAreSafe, CallsKnow, NodesKnow, CommitsMove
    PROVE  NodesKnow'
<1> SUFFICES ASSUME NEW j \in Server, NEW n \in Nat, 0 < n, n <= commitIndex'[j]
             PROVE  \E c \in committed' : \E t \in Nat : \E k \in Nat : \E Q \in SUBSET Server :
                       c.index = n /\ Secured(n, c.entry, t, k, Q)' /\ Keeps(t, k, j)'
  BY DEF NodesKnow
<1>1. committed \subseteq committed'
  BY CommittedGrow
<1>2. ASSUME NEW c \in committed', c.index = n, NEW t \in Nat, NEW k \in Nat,
             NEW Q \in SUBSET Server, Secured(n, c.entry, t, k, Q), Keeps(t, k, j)
      PROVE  c.index = n /\ Secured(n, c.entry, t, k, Q)' /\ Keeps(t, k, j)'
  BY <1>2, SecuredKept, KeepsKept
<1>3. CASE n <= commitIndex[j]
  <2>1. PICK c \in committed, t \in Nat, k \in Nat, Q \in SUBSET Server :
           c.index = n /\ Secured(n, c.entry, t, k, Q) /\ Keeps(t, k, j)
    BY <1>3 DEF NodesKnow
  <2> QED BY <1>1, <1>2, <2>1
<1>4. ASSUME NEW i \in Server, NEW N \in Nat, LeaderCommits(i, N), ~(n <= commitIndex[j])
      PROVE  \E c \in committed' : \E t \in Nat : \E k \in Nat : \E Q \in SUBSET Server :
                c.index = n /\ Secured(n, c.entry, t, k, Q)' /\ Keeps(t, k, j)'
  <2>1. j = i /\ commitIndex'[i] = N
    BY <1>4 DEF LeaderCommits
  <2>2. commitIndex[i] \in Nat
    BY BaseFacts DEF TypeOK
  <2>3. n \in commitIndex[i] + 1 .. N /\ n \in 1 .. N
    BY <1>4, <2>1, <2>2
  <2>4. PICK c \in committed' : c.index = n /\ c.entry = At(i, n)
    BY <1>4, <2>3 DEF LeaderCommits
  <2>5. PICK t \in Nat : t = term[i]
    BY BaseFacts
  <2>6. Keeps(t, N, i) /\ \E Q \in SUBSET Server : \A x \in 1 .. N : Secured(x, At(i, x), t, N, Q)
    BY <1>4, <2>5, CommitIsSecured DEF Step
  <2>7. PICK Q \in SUBSET Server : Secured(n, c.entry, t, N, Q)
    BY <2>3, <2>4, <2>6
  <2> QED BY <1>2, <2>1, <2>4, <2>6, <2>7
<1>5. ASSUME NEW m \in messages, Received(m), Accepted(m), Learns(m), ~(n <= commitIndex[j])
      PROVE  \E c \in committed' : \E t \in Nat : \E k \in Nat : \E Q \in SUBSET Server :
                c.index = n /\ Secured(n, c.entry, t, k, Q)' /\ Keeps(t, k, j)'
  <2>1. j = m.to
    BY <1>5 DEF Received
  <2>2. commitIndex'[j] <= m.commit
    BY <1>5, <2>1, LearnerAddsNothing
  <2>3. commitIndex'[j] \in Nat /\ m.commit \in Nat
    BY <1>5, BaseFacts, MessageFacts DEF TypeOK, Accepted
  <2>4. n <= m.commit
    BY <2>2, <2>3
  <2>5. PICK c \in committed, t \in Nat, k \in Nat, Q \in SUBSET Server :
           c.index = n /\ Secured(n, c.entry, t, k, Q)' /\ Keeps(t, k, m.to)'
    BY <1>5, <2>4, LearnerFinds
  <2> QED BY <1>1, <2>1, <2>5
<1> QED BY <1>3, <1>4, <1>5 DEF CommitsMove

LEMMA CallsStillKnow ==
    ASSUME Step, CallsKnow, NodesKnow, CommitsMove
    PROVE  CallsKnow'
<1> SUFFICES ASSUME NEW m \in Calls', NEW n \in Nat, 0 < n, n <= m.commit
             PROVE  \E c \in committed' : \E t \in Nat : \E k \in Nat : \E Q \in SUBSET Server :
                       /\ c.index = n /\ t <= m.term
                       /\ Secured(n, c.entry, t, k, Q)' /\ CallReaches(m, t, k)'
  BY DEF CallsKnow
<1>1. \E c \in committed : \E t \in Nat : \E k \in Nat : \E Q \in SUBSET Server :
         /\ c.index = n /\ t <= m.term
         /\ Secured(n, c.entry, t, k, Q) /\ CallReaches(m, t, k)
  <2>1. CASE m \in Calls
    BY <2>1 DEF CallsKnow
  <2>2. CASE Sent(m)
    <3>1. m.from \in Server /\ m.commit = commitIndex[m.from] /\ m.term = term[m.from]
      BY <2>2 DEF Sent
    <3>2. PICK c \in committed, t \in Nat, k \in Nat, Q \in SUBSET Server :
             c.index = n /\ Secured(n, c.entry, t, k, Q) /\ Keeps(t, k, m.from)
      BY <3>1 DEF NodesKnow
    <3>3. t <= m.term /\ Reaches(m.from, t, k)
      <4>1. term[m.from] \in Nat
        BY <3>1, BaseFacts
      <4> QED BY <3>1, <3>2, <4>1 DEF Keeps
    <3>4. CallReaches(m, t, k)
      BY <2>2, <3>3, SentReaches
    <3> QED BY <3>2, <3>3, <3>4
  <2> QED BY <2>1, <2>2 DEF Step, CallsMove
<1>2. PICK c \in committed, t \in Nat, k \in Nat, Q \in SUBSET Server :
         /\ c.index = n /\ t <= m.term
         /\ Secured(n, c.entry, t, k, Q) /\ CallReaches(m, t, k)
  BY <1>1
<1>3. Secured(n, c.entry, t, k, Q)' /\ CallReaches(m, t, k)'
  BY <1>2, SecuredKept, CallReachesStays
<1>4. c \in committed'
  BY CommittedGrow
<1> QED BY <1>2, <1>3, <1>4

LEMMA CommitsKept ==
    ASSUME PlainStep, CommitInv, [Next]_vars, LogInv', ElectionSafety'
    PROVE  Step /\ CommitsMove /\ CommitInv'
<1>1. Step
  BY StepFacts DEF CommitInv
<1>2. CommitsMove
  BY <1>1, CommitsMoved DEF Step
<1>3. CommitBase'
  BY <1>1, StepShape
<1> QED BY <1>1, <1>2, <1>3, TakenStaySafe, CommittedStaySafe, NodesStillKnow, CallsStillKnow
     DEF CommitInv

LEMMA InitCommits ==
    ASSUME Init, LogInv
    PROVE  CommitInv
<1>1. CommitBase
  BY InitBase
<1>2. /\ \A i \in Server : states[i] = "Follower" /\ commitIndex[i] = 0
      /\ messages = {} /\ committed = {}
  BY DEF Init
<1>3. Calls = {}
  BY <1>2 DEF Calls
<1>4. TakenAreSafe /\ CommittedAreSafe /\ NodesKnow /\ CallsKnow
  BY <1>2, <1>3 DEF TakenAreSafe, CommittedAreSafe, NodesKnow, CallsKnow
<1> QED BY <1>1, <1>4 DEF CommitInv

-----------------------------------------------------------------------------
(* What follows *)

LEMMA MatchesAreHeld == ASSUME CommitBase PROVE MatchedIsHeld
<1>1. TypeOK /\ NoSnapshots /\ AcksAreTrue /\ LogShape
  BY LogsHaveShape DEF CommitBase, LogInv, ElectionInv, VoteInv
<1> SUFFICES ASSUME NEW i \in Server, NEW j \in Server, states[i] = "Leader",
                    term[j] = term[i], i # j,
                    NEW k \in lastSnapIndex[i] + 1 .. matchIndex[i][j]
             PROVE  k <= LastIndex(j) /\ At(j, k) = At(i, k)
  BY DEF MatchedIsHeld
<1>2. k \in Nat /\ k > 0 /\ k <= matchIndex[i][j] /\ k \in 1 .. k
  <2>1. lastSnapIndex[i] = 0 /\ matchIndex[i][j] \in Nat
    BY <1>1 DEF NoSnapshots, TypeOK
  <2> QED BY <2>1
<1>3. Holds(i, j, k)
  BY <1>1, <1>2 DEF AcksAreTrue, Vouched
<1>4. k <= LastIndex(i) /\ k <= LastIndex(j) /\ At(j, k).term = At(i, k).term
  BY <1>3 DEF Holds
<1> QED BY <1>1, <1>2, <1>4 DEF LogShape

LEMMA CommitsAgree ==
    ASSUME CommitInv, NEW a \in committed, NEW b \in committed, a.index = b.index
    PROVE  a.entry = b.entry
<1>1. PICK k \in Nat, P \in SUBSET Server : Secured(a.index, a.entry, a.term, k, P)
  BY DEF CommitInv, CommittedAreSafe
<1>2. PICK h \in Nat, Q \in SUBSET Server : Secured(b.index, b.entry, b.term, h, Q)
  BY DEF CommitInv, CommittedAreSafe
<1>3. PICK j \in P \cap Q : TRUE
  BY <1>1, <1>2, MajoritiesIntersect DEF Secured
<1> QED BY <1>1, <1>2, <1>3 DEF Secured, At

LEMMA LeadersAreComplete ==
    ASSUME CommitInv, NEW i \in Server, NEW c \in committed, states[i] = "Leader",
           c.term <= term[i]
    PROVE  c.index <= LastIndex(i) /\ At(i, c.index) = c.entry
<1>1. TypeOK /\ LogInv /\ SecuredShape
  BY SecuredHaveShape DEF CommitInv, CommitBase, LogInv, ElectionInv, VoteInv
<1>2. c.term \in Nat /\ c.index \in Nat /\ c.entry \in Entry /\ term[i] \in Nat
      /\ LastIndex(i) \in Nat
  BY <1>1, LogFacts DEF TypeOK
<1>3. PICK k \in Nat, Q \in SUBSET Server : Secured(c.index, c.entry, c.term, k, Q)
  BY DEF CommitInv, CommittedAreSafe
<1>4. LeadersReach(c.term, k)
  BY <1>1, <1>2, <1>3, MajorityBinds DEF Secured
<1>5. c.term < term[i] \/ term[i] = c.term
  BY <1>2
<1>6. Reaches(i, c.term, k)
  BY <1>3, <1>4, <1>5 DEF LeadersReach, Secured, Spread
<1>7. c.index <= k /\ k <= LastIndex(i) /\ At(i, c.index) = c.entry
  BY <1>1, <1>2, <1>3, <1>6 DEF SecuredShape
<1>8. c.index <= LastIndex(i)
  <2> HIDE DEF LastIndex
  <2> QED BY <1>2, <1>7
<1> QED BY <1>7, <1>8

\* What commitIndex covers is in the log, and was committed.
LEMMA CoveredIsHeld ==
    ASSUME CommitInv, NEW j \in Server, NEW n \in Nat, 0 < n, n <= commitIndex[j]
    PROVE  n <= LastIndex(j) /\ \E c \in committed : c.index = n /\ At(j, n) = c.entry
<1>1. TypeOK /\ SecuredShape
  BY SecuredHaveShape DEF CommitInv, CommitBase, LogInv, ElectionInv, VoteInv
<1>2. PICK c \in committed, t \in Nat, k \in Nat, Q \in SUBSET Server :
         c.index = n /\ Secured(n, c.entry, t, k, Q) /\ Keeps(t, k, j)
  BY DEF CommitInv, NodesKnow
<1>3. c.entry \in Entry
  BY <1>1 DEF TypeOK
<1>4. n <= k /\ k <= LastIndex(j) /\ At(j, n) = c.entry
  BY <1>1, <1>2, <1>3 DEF SecuredShape, Keeps
<1>5. LastIndex(j) \in Nat
  BY <1>1, LogFacts
<1>6. n <= LastIndex(j)
  <2> HIDE DEF LastIndex
  <2> QED BY <1>4, <1>5
<1> QED BY <1>2, <1>4, <1>6

LEMMA CoveredBelowLog ==
    ASSUME CommitInv, NEW j \in Server
    PROVE  commitIndex[j] \in Nat /\ LastIndex(j) \in Nat /\ commitIndex[j] <= LastIndex(j)
<1>1. TypeOK
  BY DEF CommitInv, CommitBase, LogInv, ElectionInv, VoteInv
<1>2. commitIndex[j] \in Nat /\ LastIndex(j) \in Nat
  BY <1>1, LogFacts DEF TypeOK
<1>3. PICK n \in Nat : n = commitIndex[j]
  BY <1>2
<1>4. 0 < n => n <= LastIndex(j)
  BY <1>3, CoveredIsHeld
<1> HIDE DEF LastIndex
<1> QED BY <1>2, <1>3, <1>4

\* A node never forgets how far it has committed.
LEMMA CommitIndexGrows ==
    ASSUME Step, CommitInv, CommitsMove, NEW j \in Server
    PROVE  commitIndex'[j] >= commitIndex[j]
<1>1. /\ commitIndex[j] \in Nat /\ LastIndex(j) \in Nat /\ commitIndex[j] <= LastIndex(j)
      /\ CallsKnow
  BY CoveredBelowLog DEF CommitInv
<1>2. ASSUME NEW i \in Server, NEW N \in Nat, LeaderCommits(i, N)
      PROVE  commitIndex'[j] = commitIndex[j] \/ commitIndex'[j] > commitIndex[j]
  BY <1>2 DEF LeaderCommits
<1>3. ASSUME NEW m \in messages, Received(m), Accepted(m), Learns(m)
      PROVE  \/ commitIndex'[j] = commitIndex[j] \/ commitIndex'[j] >= commitIndex[j]
             \/ commitIndex'[j] = LastIndex(j)
  <2>1. j # m.to => commitIndex'[j] = commitIndex[j]
    BY <1>3 DEF Received
  <2>2. \/ commitIndex'[m.to] >= commitIndex[m.to] \/ commitIndex'[m.to] = LastIndex(m.to)
    BY <1>1, <1>3, LearnerAddsNothing
  <2> QED BY <2>1, <2>2
<1>4. \/ commitIndex'[j] = commitIndex[j] \/ commitIndex'[j] > commitIndex[j]
      \/ commitIndex'[j] >= commitIndex[j] \/ commitIndex'[j] = LastIndex(j)
  BY <1>2, <1>3 DEF CommitsMove
<1>5. commitIndex'[j] \in Nat
  BY BaseFacts DEF TypeOK
<1> HIDE DEF LastIndex
<1> QED BY <1>1, <1>4, <1>5

LEMMA CoveredStays ==
    ASSUME Step, CommitInv, NEW j \in Server, NEW n \in Nat, 0 < n, n <= commitIndex[j]
    PROVE  n <= LastIndex(j)' /\ At(j, n)' = At(j, n)
<1>1. PICK c \in committed, t \in Nat, k \in Nat, Q \in SUBSET Server :
         c.index = n /\ Secured(n, c.entry, t, k, Q) /\ Keeps(t, k, j)
  BY DEF CommitInv, NodesKnow
<1>2. Secured(n, c.entry, t, k, Q)' /\ Spread(t, k) /\ Spread(t, k)'
  BY <1>1, SecuredKept
<1>3. Keeps(t, k, j)' /\ n \in 1 .. k
  BY <1>1, <1>2, KeepsKept DEF Secured
<1>4. At(j, n)' = At(j, n)
  BY <1>1, <1>2, <1>3, ReachersKeep DEF Keeps
<1>5. SecuredShape' /\ c.entry \in Entry
  BY StepShape, SecuredShapeKept, BaseFacts DEF TypeOK
<1>6. n <= k /\ k <= LastIndex(j)'
  BY <1>2, <1>3, <1>5 DEF SecuredShape, Keeps
<1>7. LastIndex(j)' \in Nat
  BY BaseFacts
<1>8. n <= LastIndex(j)'
  <2> DEFINE x == LastIndex(j)'
  <2>1. x \in Nat /\ k <= x
    BY <1>6, <1>7
  <2> HIDE DEF x
  <2>2. n <= x
    BY <1>6, <2>1
  <2> QED BY <2>2 DEF x
<1> QED BY <1>4, <1>8

LEMMA CommittedStays ==
    ASSUME Step, CommitInv, CommitsMove, NEW i \in Server
    PROVE  /\ commitIndex'[i] >= commitIndex[i]
           /\ \A k \in lastSnapIndex'[i] + 1 .. Minimum(commitIndex[i], LastIndex(i)) :
                 k <= LastIndex(i)' /\ At(i, k)' = At(i, k)
<1>1. lastSnapIndex'[i] = 0 /\ commitIndex[i] \in Nat /\ LastIndex(i) \in Nat
  BY BaseFacts DEF NoSnapshots, TypeOK
<1>2. ASSUME NEW k \in lastSnapIndex'[i] + 1 .. Minimum(commitIndex[i], LastIndex(i))
      PROVE  k \in Nat /\ 0 < k /\ k <= commitIndex[i]
  <2> HIDE DEF LastIndex
  <2> QED BY <1>1 DEF Minimum
<1> QED BY <1>2, CommitIndexGrows, CoveredStays

-----------------------------------------------------------------------------
(* No step reaches outside a log; stores are handed every index in order *)

LEMMA NobodyPanics ==
    ASSUME PlainStep, CommitBase, Moves, NoPanic
    PROVE  NoPanic'
<1>1. ASSUME QuietAction PROVE down' = down
  BY <1>1 DEF QuietAction, StartElection, Broadcast, Apply, RequestVote, VoteReply, AppendReply,
              InstallSnapshot, InstallReply, vars, envVars
<1>2. ASSUME NEW i \in Server, Took(i) PROVE down' = down
  BY <1>2 DEF Took
<1>3. ASSUME Sends PROVE down' = down
  BY <1>3 DEF Sends
<1>4. ASSUME NEW m \in messages, Received(m) PROVE down' = down
  BY <1>4 DEF Received
<1>5. down' = down
  BY <1>1, <1>2, <1>3, <1>4 DEF Moves
<1> QED BY <1>5 DEF NoPanic

\* No store is ahead of commitIndex.
AppliedBelow == \A i \in Server : lastApply[i] <= commitIndex[i]

LEMMA AppliedStill ==
    ASSUME CommitBase, Moves
    PROVE  UNCHANGED <<lastApply, applied>> \/ \E i \in Server : Apply(i)
<1>1. TypeOK /\ NoSnapshots
  BY DEF CommitBase, LogInv, ElectionInv, VoteInv
<1>2. ASSUME NEW m \in messages, InstallSnapshot(m) PROVE UNCHANGED <<lastApply, applied>>
  <2>1. m.to \in Server /\ m.type = "InstallSnapshot"
    BY <1>1, <1>2, MessageFacts DEF InstallSnapshot
  <2>2. m.lastSnapIndex <= lastSnapIndex[m.to]
    BY <1>1, <2>1 DEF NoSnapshots
  <2> QED BY <1>2, <2>2 DEF InstallSnapshot
<1>3. ASSUME NEW m \in messages, \/ RequestVote(m) \/ VoteReply(m) \/ AppendReply(m)
                                 \/ InstallReply(m)
      PROVE  UNCHANGED <<lastApply, applied>>
  BY <1>3 DEF RequestVote, VoteReply, AppendReply, InstallReply, applyVars
<1>4. ASSUME NEW i \in Server, StartElection(i) \/ Broadcast(i) \/ UNCHANGED vars
      PROVE  UNCHANGED <<lastApply, applied>>
  BY <1>4 DEF StartElection, Broadcast, vars, applyVars
<1>5. PICK any \in Server : TRUE
  BY RaftAssumption
<1>6. CASE QuietAction
  BY <1>2, <1>3, <1>4, <1>5, <1>6 DEF QuietAction
<1> QED BY <1>6 DEF Moves, Took, Sends, Received

LEMMA AppliesInOrder ==
    ASSUME Step, CommitInv, CommitsMove, AppliedBelow, AppliedWithoutGaps
    PROVE  AppliedBelow' /\ AppliedWithoutGaps'
<1>1. TypeOK /\ TypeOK' /\ NoSnapshots
  BY BaseFacts
<1>2. \A i \in Server : commitIndex'[i] >= commitIndex[i] /\ commitIndex[i] \in Nat
                        /\ commitIndex'[i] \in Nat /\ lastApply[i] \in Nat
  BY <1>1, CommitIndexGrows DEF TypeOK
<1>3. CASE UNCHANGED <<lastApply, applied>>
  <2>1. AppliedWithoutGaps'
    BY <1>3 DEF AppliedWithoutGaps
  <2>2. AppliedBelow'
    BY <1>2, <1>3 DEF AppliedBelow
  <2> QED BY <2>1, <2>2
<1>4. ASSUME NEW i \in Server, Apply(i) PROVE AppliedBelow' /\ AppliedWithoutGaps'
  <2> DEFINE k == lastApply[i] + 1
             a == [index |-> k, command |-> At(i, k).command]
  <2>1. /\ lastApply[i] < commitIndex[i] /\ lastApply' = [lastApply EXCEPT ![i] = k]
        /\ InLog(i, k) => applied' = [applied EXCEPT ![i] = Append(@, a)]
        /\ commitIndex' = commitIndex
    BY <1>4 DEF Apply
  <2>2. k \in Nat /\ 0 < k /\ k <= commitIndex[i] /\ lastSnapIndex[i] = 0 /\ LastIndex(i) \in Nat
    BY <1>1, <1>2, <2>1, LogFacts DEF NoSnapshots
  <2>3. k <= LastIndex(i)
    BY <2>2, CoveredIsHeld
  <2>4. InLog(i, k)
    <3> HIDE DEF LastIndex
    <3> QED BY <2>2, <2>3 DEF InLog
  <2>5. /\ applied'[i] = Append(applied[i], a) /\ lastApply'[i] = k /\ a.index = k
        /\ \A j \in Server : j # i => applied'[j] = applied[j] /\ lastApply'[j] = lastApply[j]
    BY <1>1, <2>1, <2>4 DEF TypeOK
  <2>6. Len(applied[i]) = lastApply[i] /\ \A n \in 1 .. Len(applied[i]) : applied[i][n].index = n
    BY DEF AppliedWithoutGaps
  <2>7. a \in [index : Nat, command : Value \cup {None}]
    <3>1. PICK c \in committed : At(i, k) = c.entry
      <4> HIDE DEF k
      <4> QED BY <2>2, CoveredIsHeld
    <3>2. At(i, k) \in Entry
      BY <1>1, <3>1 DEF TypeOK
    <3> QED BY <2>2, <3>2 DEF Entry
  <2>8. applied[i] \in Seq([index : Nat, command : Value \cup {None}])
    BY <1>1 DEF TypeOK
  <2> HIDE DEF a
  <2>9. /\ Len(applied'[i]) = Len(applied[i]) + 1
        /\ \A n \in 1 .. Len(applied[i]) : applied'[i][n] = applied[i][n]
        /\ applied'[i][Len(applied[i]) + 1] = a
    BY <2>5, <2>7, <2>8, AppendProperties
  <2>10. Len(applied'[i]) = lastApply'[i]
    BY <2>5, <2>6, <2>9
  <2>11. \A n \in 1 .. Len(applied'[i]) : applied'[i][n].index = n
    <3> SUFFICES ASSUME NEW n \in 1 .. Len(applied'[i]) PROVE applied'[i][n].index = n
      OBVIOUS
    <3>1. n \in 1 .. Len(applied[i]) \/ n = Len(applied[i]) + 1
      BY <1>2, <2>6, <2>9
    <3> QED BY <2>5, <2>6, <2>9, <3>1
  <2>12. AppliedWithoutGaps'
    BY <2>5, <2>10, <2>11 DEF AppliedWithoutGaps
  <2>13. AppliedBelow'
    BY <1>2, <2>1, <2>2, <2>5 DEF AppliedBelow
  <2> QED BY <2>12, <2>13
<1> QED BY <1>3, <1>4, AppliedStill DEF Step, CommitInv

-----------------------------------------------------------------------------
(* The theorems *)

LEMMA CommitsAlways ==
    ASSUME PlainCluster
    PROVE  Spec => [](LogInv /\ (late = {} => CommitInv /\ NoPanic
                                              /\ AppliedBelow /\ AppliedWithoutGaps))
<1> DEFINE I == CommitInv /\ NoPanic /\ AppliedBelow /\ AppliedWithoutGaps
           K == late = {} => I
<1>1. Init => LogInv
  BY InitElections, InitLogs
<1>2. Init /\ LogInv => K
  <2>1. ASSUME Init PROVE NoPanic /\ AppliedBelow /\ AppliedWithoutGaps
    <3>1. /\ down = {}
          /\ \A i \in Server : lastApply[i] = 0 /\ commitIndex[i] = 0 /\ applied[i] = <<>>
      BY <2>1 DEF Init
    <3>2. Len(<<>>) = 0 /\ 1 .. 0 = {}
      OBVIOUS
    <3> QED BY <3>1, <3>2 DEF NoPanic, AppliedBelow, AppliedWithoutGaps
  <2> QED BY <2>1, InitCommits
<1>3. LogInv => ElectionInv
  BY DEF LogInv
<1>4. ElectionInv => ElectionSafety
  BY OneWinner
<1>5. ElectionInv /\ [Next]_vars => ElectionInv'
  BY NextElections DEF PlainCluster
<1>6. LogInv /\ [Next]_vars /\ ElectionInv' /\ ElectionSafety' => LogInv'
  BY NextLogs DEF PlainCluster
<1>7. K /\ [Next]_vars /\ LogInv' /\ ElectionSafety' => K'
  <2> SUFFICES ASSUME late = {} => I, [Next]_vars, LogInv', ElectionSafety', late' = {}
               PROVE  I'
    OBVIOUS
  <2>1. I /\ PlainStep
    BY LateStayLate DEF PlainStep
  <2>2. Step /\ CommitsMove /\ CommitInv'
    BY <2>1, CommitsKept
  <2>3. NoPanic'
    BY <2>1, <2>2, NobodyPanics DEF Step, CommitInv
  <2>4. AppliedBelow' /\ AppliedWithoutGaps'
    BY <2>1, <2>2, AppliesInOrder
  <2> QED BY <2>2, <2>3, <2>4
<1> QED BY <1>1, <1>2, <1>3, <1>4, <1>5, <1>6, <1>7, PTL DEF Spec

\* AppendReply, in a plain cluster (no restart, no snapshot, the goroutines of a node
\* prompt): calls may be lost, delayed and handled in any order, and what a leader counts
\* as replicated on a peer of its term is there until a call that brings entries is
\* accepted after a longer one of the same leader.
THEOREM MatchedAreHeld ==
    ASSUME PlainCluster
    PROVE  Spec => []MatchedIsHeld
<1>1. (late = {} => CommitInv) => MatchedIsHeld
  BY MatchesAreHeld DEF CommitInv, MatchedIsHeld
<1> QED BY <1>1, CommitsAlways, PTL

\* The vote rule and the commit rule of a plain cluster: no two nodes ever commit
\* different entries at an index, until a call that brings entries is late.
THEOREM CommittedAreOne ==
    ASSUME PlainCluster
    PROVE  Spec => []CommittedAgree
<1>1. (late = {} => CommitInv) => CommittedAgree
  BY CommitsAgree DEF CommittedAgree
<1> QED BY <1>1, CommitsAlways, PTL

\* RequestVote's upToDate and the commit rule of a plain cluster: a leader holds what was
\* committed in its own or an earlier term, until a call that brings entries is late.
THEOREM LeadersHaveAll ==
    ASSUME PlainCluster
    PROVE  Spec => []LeaderCompleteness
<1>1. (late = {} => CommitInv) => LeaderCompleteness
  BY LeadersAreComplete DEF LeaderCompleteness
<1> QED BY <1>1, CommitsAlways, PTL

\* The index arithmetic of broadcastAppendEntries and AppendEntries in a plain cluster
\* stays inside rf.log, until a call that brings entries is late.
THEOREM IndexesStayInside ==
    ASSUME PlainCluster
    PROVE  Spec => [](late = {} => NoPanic)
BY CommitsAlways, PTL

\* ApplyLoop in a plain cluster: the store was given every index up to lastApply, once and
\* in order, until a call that brings entries is late.
THEOREM AppliedInOrder ==
    ASSUME PlainCluster
    PROVE  Spec => [](late = {} => AppliedWithoutGaps)
BY CommitsAlways, PTL

\* AppendEntries in a plain cluster, whatever is lost, delayed and handled in any order:
\* the first call that takes back or replaces an entry commitIndex covers, or lets
\* commitIndex fall, is one that brings entries after a longer one of its leader was
\* accepted, or comes after such a call.  Heartbeats without entries are harmless.
THEOREM CommittedAreKept ==
    ASSUME PlainCluster
    PROVE  Spec => CommittedStay
<1> DEFINE K == late = {} => CommitInv
           A == \A i \in Server :
                   restarts' = restarts /\ late' = {} =>
                      /\ commitIndex'[i] >= commitIndex[i]
                      /\ \A k \in lastSnapIndex'[i] + 1 .. Minimum(commitIndex[i], LastIndex(i)) :
                             k <= LastIndex(i)' /\ At(i, k)' = At(i, k)
<1>1. LogInv => ElectionInv
  BY DEF LogInv
<1>2. ElectionInv => ElectionSafety
  BY OneWinner
<1>3. K /\ [Next]_vars /\ LogInv' /\ ElectionSafety' => [A]_vars
  <2> SUFFICES ASSUME K, [Next]_vars, LogInv', ElectionSafety', late' = {} PROVE A
    OBVIOUS
  <2>1. CommitInv /\ PlainStep
    BY LateStayLate DEF PlainStep
  <2>2. Step /\ CommitsMove
    BY <2>1, CommitsKept
  <2> QED BY <2>1, <2>2, CommittedStays
<1> QED BY <1>1, <1>2, <1>3, CommitsAlways, PTL DEF Spec, CommittedStay

-----------------------------------------------------------------------------
(* Logs hold commands: the dummy entry is only ever the first of a piece *)

Real(p) == \A k \in p.first .. p.last : k > p.first => p.at[k].command \in Value

PiecesReal == \A p \in Pieces : Real(p)

LEMMA DerivedReal ==
    ASSUME NEW P, \A q \in P : PieceOk(q) /\ Real(q), NEW p, Derived(p, P)
    PROVE  Real(p)
<1>1. PieceOk(p)
  BY DEF Derived
<1> SUFFICES ASSUME NEW k \in p.first .. p.last, k > p.first
             PROVE  p.at[k].command \in Value
  BY DEF Real
<1>2. k \in Nat /\ p.first \in Nat /\ p.last \in Nat /\ k <= p.last
  BY <1>1 DEF PieceOk
<1>3. ASSUME NEW q \in P, PartOf(p, q) PROVE p.at[k].command \in Value
  <2>1. q.first <= p.first /\ p.last <= q.last /\ p.at[k] = q.at[k]
        /\ q.first \in Nat /\ q.last \in Nat
    BY <1>3 DEF PartOf, PieceOk
  <2>2. k \in q.first .. q.last /\ k > q.first
    BY <1>2, <2>1
  <2> QED BY <2>1, <2>2 DEF Real
<1>4. ASSUME NEW a \in P, NEW b \in P, NEW j \in Nat, Joins(p, a, b, j)
      PROVE  p.at[k].command \in Value
  <2>1. /\ a.first \in Nat /\ a.last \in Nat /\ b.first \in Nat /\ b.last \in Nat
        /\ j \in a.first .. a.last /\ j \in b.first .. b.last
        /\ p.first = a.first /\ p.last <= b.last
        /\ p.at[k] = IF k <= j THEN a.at[k] ELSE b.at[k]
    BY <1>4 DEF Joins, Has, PieceOk
  <2>2. CASE k <= j
    <3>1. k \in a.first .. a.last /\ k > a.first
      BY <1>2, <2>1, <2>2
    <3> QED BY <2>1, <2>2, <3>1 DEF Real
  <2>3. CASE ~(k <= j)
    <3>1. k \in b.first .. b.last /\ k > b.first
      BY <1>2, <2>1, <2>3
    <3> QED BY <2>1, <2>3, <3>1 DEF Real
  <2> QED BY <2>2, <2>3
<1> QED BY <1>3, <1>4 DEF Derived

LEMMA RealKept ==
    ASSUME Step, PiecesReal
    PROVE  PiecesReal'
<1>1. TypeOK /\ TypeOK' /\ NoSnapshots /\ NoSnapshots' /\ PiecesTyped
  BY BaseFacts DEF LogInv
<1>2. ASSUME OnlyDerived PROVE PiecesReal'
  <2>1. \A p \in Pieces' : Real(p)
    BY <1>1, <1>2, DerivedReal DEF OnlyDerived, PiecesTyped, PiecesReal
  <2> QED BY <2>1 DEF PiecesReal, Real
<1>3. CASE QuietAction
  BY <1>1, <1>2, <1>3, QuietAreStill, QuietSteps DEF Step
<1>4. ASSUME NEW i \in Server, NEW j \in Server, SendAppend(i, j) PROVE PiecesReal'
  BY <1>1, <1>2, <1>4, SendAppendPieces
<1>5. ASSUME NEW m \in messages, AppendEntries(m) PROVE PiecesReal'
  BY <1>1, <1>2, <1>5, AppendEntriesPieces
<1>6. ASSUME NEW i \in Server, NEW v \in Value, Start(i, v) PROVE PiecesReal'
  <2>1. Took(i)
    BY <1>1, <1>6, StartMoves DEF Step
  <2>2. /\ LastIndex(i) \in Nat /\ LogPiece(i) \in Pieces
        /\ LogPiece(i).first = 0 /\ LogPiece(i).last = LastIndex(i)
        /\ \A x \in 0 .. LastIndex(i) : LogPiece(i).at[x] = At(i, x)
    BY <1>1, AtPlain
  <2> DEFINE p == LogPiece(i)'
  <2>3. p.first = 0 /\ p.last = LastIndex(i) + 1
        /\ \A x \in 0 .. LastIndex(i) + 1 : p.at[x] = At(i, x)'
    <3>1. lastSnapIndex'[i] = 0 /\ LastIndex(i)' = LastIndex(i) + 1
      BY <1>1, <2>1 DEF Took, NoSnapshots
    <3> QED BY <3>1 DEF LogPiece
  <2> HIDE DEF p
  <2>4. ASSUME NEW k \in p.first .. p.last, k > p.first PROVE p.at[k].command \in Value
    <3>1. k \in 0 .. LastIndex(i) + 1 /\ k \in Nat
          /\ (k \in 0 .. LastIndex(i) \/ k = LastIndex(i) + 1)
      BY <2>2, <2>3, <2>4
    <3>2. p.at[k] = At(i, k)'
      BY <2>3, <3>1
    <3>3. CASE k \in 0 .. LastIndex(i)
      <4>1. p.at[k] = LogPiece(i).at[k]
        BY <2>1, <2>2, <3>2, <3>3 DEF Took
      <4>2. k \in LogPiece(i).first .. LogPiece(i).last /\ k > LogPiece(i).first
        BY <2>2, <2>3, <2>4, <3>3
      <4> QED BY <2>2, <4>1, <4>2 DEF PiecesReal, Real
    <3>4. CASE k = LastIndex(i) + 1
      BY <2>1, <3>1, <3>2, <3>4 DEF Took
    <3> QED BY <3>1, <3>3, <3>4
  <2>5. \A q \in Pieces' : q \in Pieces \/ q = p
    BY <1>1, <2>1, TookPieces DEF p
  <2>6. Real(p)
    BY <2>4 DEF Real
  <2>7. \A q \in Pieces' : Real(q)
    BY <2>5, <2>6 DEF PiecesReal
  <2> QED BY <2>7 DEF PiecesReal, Real
<1> QED BY <1>3, <1>4, <1>5, <1>6, PlainSteps DEF Step

LEMMA InitReal == ASSUME Init PROVE PiecesReal
<1>1. /\ \A i \in Server : log[i] = <<Dummy(0)>> /\ lastSnapIndex[i] = 0
      /\ messages = {}
  BY DEF Init
<1>2. \A i \in Server : LastIndex(i) = 0
  <2>1. Len(<<Dummy(0)>>) = 1 /\ 0 + 1 - 1 = 0
    OBVIOUS
  <2>2. \A i \in Server : LastIndex(i) = 0 + 1 - 1
    BY <1>1, <2>1 DEF LastIndex
  <2> QED BY <2>1, <2>2
<1> SUFFICES ASSUME NEW p \in Pieces PROVE Real(p)
  BY DEF PiecesReal
<1>3. \/ \E i \in Server : p = LogPiece(i)
      \/ \E i \in Server : p = SnapPiece(lastSnapIndex[i], lastSnapTerm[i])
  BY <1>1 DEF Pieces
<1>4. p.first = 0 /\ p.last = 0
  <2>1. ASSUME NEW i \in Server, p = LogPiece(i) PROVE p.first = 0 /\ p.last = 0
    <3> HIDE DEF LastIndex
    <3> QED BY <1>1, <1>2, <2>1 DEF LogPiece
  <2>2. ASSUME NEW i \in Server, p = SnapPiece(lastSnapIndex[i], lastSnapTerm[i])
        PROVE  p.first = 0 /\ p.last = 0
    BY <1>1, <2>2 DEF SnapPiece
  <2> QED BY <1>3, <2>1, <2>2
<1> QED BY <1>4 DEF Real

-----------------------------------------------------------------------------
(* The cluster is a replicated log *)

\* The indices up to N were committed, and no others.
AgreedTo(N) == {r.index : r \in committed} = 1 .. N

AgreedShape ==
    \A N \in Nat : AgreedTo(N) =>
        /\ AgreedLog \in Seq(Value) /\ Len(AgreedLog) = N
        /\ \A c \in committed : c.index \in 1 .. N /\ AgreedLog[c.index] = c.entry.command

LEMMA AgreedHasShape == CommitInv /\ PiecesReal => AgreedShape
<1> SUFFICES ASSUME CommitInv, PiecesReal, NEW N \in Nat, AgreedTo(N)
             PROVE  /\ AgreedLog \in Seq(Value) /\ Len(AgreedLog) = N
                    /\ \A c \in committed :
                          c.index \in 1 .. N /\ AgreedLog[c.index] = c.entry.command
  BY DEF AgreedShape
<1>1. TypeOK /\ NoSnapshots /\ SecuredShape
  BY CommitsAgree, SecuredHaveShape DEF CommitInv, CommitBase, LogInv, ElectionInv, VoteInv
<1>2. Cardinality({r.index : r \in committed}) = N
  <2>1. Cardinality(1 .. N) = N
    BY FS_Interval
  <2> QED BY <2>1 DEF AgreedTo
<1>3. \A c \in committed : c.index \in 1 .. N
  BY DEF AgreedTo
<1>4. ASSUME NEW k \in 1 .. N
      PROVE  \E c \in committed : c.index = k
  BY DEF AgreedTo
<1>5. ASSUME NEW c \in committed PROVE c.entry.command \in Value
  <2>1. PICK k \in Nat, Q \in SUBSET Server : Secured(c.index, c.entry, c.term, k, Q)
    BY DEF CommitInv, CommittedAreSafe
  <2>2. PICK j \in Q : TRUE
    BY <2>1, MajoritiesIntersect DEF Secured
  <2>3. c.index \in Nat /\ c.entry \in Entry /\ c.term \in Nat
    BY <1>1 DEF TypeOK
  <2>4. c.index \in 1 .. k /\ At(j, c.index) = c.entry /\ Reaches(j, c.term, k)
    BY <2>1, <2>2 DEF Secured, Keeps
  <2>5. k <= LastIndex(j)
    BY <1>1, <2>1, <2>2, <2>3, <2>4 DEF SecuredShape
  <2>6. /\ LastIndex(j) \in Nat /\ LogPiece(j) \in Pieces
        /\ LogPiece(j).first = 0 /\ LogPiece(j).last = LastIndex(j)
        /\ \A x \in 0 .. LastIndex(j) : LogPiece(j).at[x] = At(j, x)
    BY <1>1, AtPlain
  <2>7. c.index \in 0 .. LastIndex(j) /\ c.index > 0
    <3> HIDE DEF LastIndex
    <3> QED BY <2>3, <2>4, <2>5, <2>6
  <2>8. LogPiece(j).at[c.index].command \in Value
    BY <2>6, <2>7 DEF PiecesReal, Real
  <2> QED BY <2>4, <2>6, <2>7, <2>8
<1>6. AgreedLog = [k \in 1 .. N |-> (CHOOSE r \in committed : r.index = k).entry.command]
  BY <1>2 DEF AgreedLog
<1>7. ASSUME NEW c \in committed PROVE AgreedLog[c.index] = c.entry.command
  <2> DEFINE r == CHOOSE x \in committed : x.index = c.index
  <2>1. r \in committed /\ r.index = c.index
    OBVIOUS
  <2>2. AgreedLog[c.index] = r.entry.command
    BY <1>3, <1>6
  <2> HIDE DEF r
  <2>3. r.entry = c.entry
    BY <2>1, CommitsAgree
  <2> QED BY <2>2, <2>3
<1>8. \A k \in 1 .. N : AgreedLog[k] \in Value
  BY <1>4, <1>5, <1>7
<1>9. AgreedLog \in [1 .. N -> Value]
  <2>1. DOMAIN AgreedLog = 1 .. N /\ AgreedLog = [k \in 1 .. N |-> AgreedLog[k]]
    BY <1>6
  <2> QED BY <1>8, <2>1
<1>10. AgreedLog \in Seq(Value) /\ Len(AgreedLog) = N
  BY <1>9, SeqDef
<1> QED BY <1>3, <1>7, <1>10

LEMMA AgreedShapeKept ==
    ASSUME CommitInv', PiecesReal'
    PROVE  AgreedShape'
BY AgreedHasShape, PTL

\* What is committed grows by the next indices.
LEMMA AgreedGrows ==
    ASSUME Step, CommitInv, CommitsMove, NEW N \in Nat, AgreedTo(N)
    PROVE  \E M \in Nat : N <= M /\ AgreedTo(M)'
<1>1. CASE committed' = committed
  BY <1>1 DEF AgreedTo
<1>2. ASSUME NEW i \in Server, NEW C \in Nat, LeaderCommits(i, C)
      PROVE  \E M \in Nat : N <= M /\ AgreedTo(M)'
  <2> DEFINE M == IF C > N THEN C ELSE N
             new == {r.index : r \in committed'}
  <2>1. M \in Nat /\ N <= M /\ \A k \in 1 .. M : k \in 1 .. C \/ k \in 1 .. N
    OBVIOUS
  <2>2. 1 .. C \subseteq 1 .. M /\ 1 .. N \subseteq 1 .. M
    OBVIOUS
  <2> HIDE DEF M
  <2>3. \A k \in 1 .. N : k \in new
    BY <1>2 DEF AgreedTo, LeaderCommits
  <2>4. ASSUME NEW k \in 1 .. C PROVE k \in new
    <3>1. commitIndex[i] \in Nat
      BY BaseFacts DEF TypeOK
    <3>2. CASE k <= commitIndex[i]
      <4>1. \E c \in committed : c.index = k
        BY <3>2, CoveredIsHeld
      <4> QED BY <1>2, <4>1 DEF LeaderCommits
    <3>3. CASE ~(k <= commitIndex[i])
      <4>1. k \in commitIndex[i] + 1 .. C
        BY <3>1, <3>3
      <4> QED BY <1>2, <4>1 DEF LeaderCommits
    <3> QED BY <3>2, <3>3
  <2>5. \A r \in committed' : r.index \in 1 .. M
    BY <1>2, <2>2 DEF LeaderCommits, AgreedTo
  <2>6. new = 1 .. M
    <3>1. new \subseteq 1 .. M
      BY <2>5
    <3>2. 1 .. M \subseteq new
      BY <2>1, <2>3, <2>4
    <3> QED BY <3>1, <3>2
  <2> QED BY <2>1, <2>6 DEF AgreedTo
<1>3. ASSUME NEW m \in messages, Received(m), Accepted(m), Learns(m)
      PROVE  committed' = committed
  BY <1>3, LearnerAddsNothing DEF CommitInv
<1> QED BY <1>1, <1>2, <1>3 DEF CommitsMove

Delivered == [i \in Server |-> [n \in 1 .. Len(applied[i]) |-> applied[i][n].command]]

LEMMA LongerLog ==
    ASSUME NEW S, NEW a \in Seq(S), NEW b \in Seq(S), Len(a) <= Len(b),
           \A k \in 1 .. Len(a) : b[k] = a[k]
    PROVE  b = a \/ (Len(a) < Len(b) /\ SubSeq(b, 1, Len(a)) = a)
<1>1. Len(a) \in Nat /\ Len(b) \in Nat
  BY LenProperties
<1>2. CASE Len(a) = Len(b)
  BY <1>2, SeqEqual
<1>3. CASE Len(a) < Len(b)
  <2> DEFINE s == SubSeq(b, 1, Len(a))
  <2>1. s \in Seq(S) /\ Len(s) = Len(a) /\ \A k \in 1 .. Len(s) : s[k] = b[k]
    <3>1. s = [k \in 1 .. Len(a) |-> b[k]]
      BY <1>1
    <3>2. \A k \in 1 .. Len(a) : b[k] \in S
      BY <1>1, <1>3, ElementOfSeq
    <3>3. s \in [1 .. Len(a) -> S]
      BY <3>1, <3>2
    <3> QED BY <1>1, <3>1, <3>3, SeqDef
  <2> HIDE DEF s
  <2>2. s = a
    BY <2>1, SeqEqual
  <2> QED BY <1>3, <2>2 DEF s
<1> QED BY <1>1, <1>2, <1>3

LEMMA ChosenGrows ==
    ASSUME Step, CommitInv, CommitInv', CommitsMove, PiecesReal, PiecesReal',
           NEW N \in Nat, AgreedTo(N)
    PROVE  /\ \E M \in Nat : AgreedTo(M)'
           /\ AgreedLog \in Seq(Value) /\ Len(AgreedLog) = N /\ AgreedLog' \in Seq(Value)
           /\ \/ AgreedLog' = AgreedLog
              \/ /\ Len(AgreedLog) < Len(AgreedLog')
                 /\ SubSeq(AgreedLog', 1, Len(AgreedLog)) = AgreedLog
<1>1. PICK M \in Nat : N <= M /\ AgreedTo(M)'
  BY AgreedGrows
<1>2. /\ AgreedLog \in Seq(Value) /\ Len(AgreedLog) = N
      /\ \A c \in committed : c.index \in 1 .. N /\ AgreedLog[c.index] = c.entry.command
  BY AgreedHasShape DEF AgreedShape
<1>3. AgreedShape'
  BY AgreedShapeKept
<1>4. /\ AgreedLog' \in Seq(Value) /\ Len(AgreedLog') = M
      /\ \A c \in committed' : c.index \in 1 .. M /\ AgreedLog'[c.index] = c.entry.command
  BY <1>1, <1>3 DEF AgreedShape
<1>5. ASSUME NEW k \in 1 .. N PROVE AgreedLog'[k] = AgreedLog[k]
  <2>1. PICK c \in committed : c.index = k
    BY DEF AgreedTo
  <2>2. c \in committed'
    BY <2>1, CommittedGrow
  <2> QED BY <1>2, <1>4, <2>1, <2>2
<1> DEFINE a == AgreedLog
           b == AgreedLog'
<1>6. a \in Seq(Value) /\ b \in Seq(Value) /\ Len(a) = N /\ Len(b) = M
      /\ \A k \in 1 .. N : b[k] = a[k]
  BY <1>2, <1>4, <1>5
<1> HIDE DEF a, b
<1>7. b = a \/ (Len(a) < Len(b) /\ SubSeq(b, 1, Len(a)) = a)
  BY <1>1, <1>6, LongerLog
<1> QED BY <1>1, <1>6, <1>7 DEF a, b

LEMMA DeliversNext ==
    ASSUME Step, CommitInv, CommitInv', CommitsMove, PiecesReal, PiecesReal', AppliedWithoutGaps,
           NEW N \in Nat, AgreedTo(N), NEW i \in Server, Apply(i)
    PROVE  /\ Len(Delivered[i]) < Len(AgreedLog)
           /\ Delivered' = [Delivered EXCEPT ![i] = Append(@, AgreedLog[Len(@) + 1])]
           /\ AgreedLog' = AgreedLog
<1> DEFINE C == [index : Nat, command : Value \cup {None}]
           k == lastApply[i] + 1
           a == [index |-> k, command |-> At(i, k).command]
<1>1. TypeOK /\ TypeOK' /\ NoSnapshots
  BY BaseFacts
<1>2. /\ AgreedLog \in Seq(Value) /\ Len(AgreedLog) = N
      /\ \A c \in committed : c.index \in 1 .. N /\ AgreedLog[c.index] = c.entry.command
  BY AgreedHasShape DEF AgreedShape
<1>3. /\ lastApply[i] < commitIndex[i] /\ committed' = committed
      /\ InLog(i, k) => applied' = [applied EXCEPT ![i] = Append(@, a)]
  BY DEF Apply
<1>4. /\ commitIndex[i] \in Nat /\ lastApply[i] \in Nat /\ lastSnapIndex[i] = 0
      /\ LastIndex(i) \in Nat /\ applied[i] \in Seq(C) /\ Len(applied[i]) = lastApply[i]
  BY <1>1, LogFacts DEF TypeOK, NoSnapshots, AppliedWithoutGaps
<1>5. k \in Nat /\ 0 < k /\ k <= commitIndex[i]
  BY <1>3, <1>4
<1>6. k <= LastIndex(i) /\ \E c \in committed : c.index = k /\ At(i, k) = c.entry
  <2> HIDE DEF k
  <2> QED BY <1>5, CoveredIsHeld
<1>7. PICK c \in committed : c.index = k /\ At(i, k) = c.entry
  BY <1>6
<1>8. InLog(i, k)
  <2> HIDE DEF LastIndex, k
  <2> QED BY <1>4, <1>5, <1>6 DEF InLog
<1>9. a \in C /\ a.command = AgreedLog[k] /\ k \in 1 .. N
  BY <1>1, <1>2, <1>5, <1>7 DEF TypeOK, Entry
<1>10. /\ applied'[i] = Append(applied[i], a)
       /\ \A j \in Server : j # i => applied'[j] = applied[j]
  BY <1>1, <1>3, <1>8 DEF TypeOK
<1> HIDE DEF a, C
<1>11. /\ Len(applied'[i]) = Len(applied[i]) + 1
       /\ \A n \in 1 .. Len(applied[i]) : applied'[i][n] = applied[i][n]
       /\ applied'[i][Len(applied[i]) + 1] = a
  BY <1>4, <1>9, <1>10, AppendProperties
<1> DEFINE d == [n \in 1 .. Len(applied[i]) |-> applied[i][n].command]
           e == [n \in 1 .. Len(applied'[i]) |-> applied'[i][n].command]
<1>12. /\ Delivered[i] = d /\ Delivered'[i] = e
       /\ Delivered = [j \in Server |-> Delivered[j]]
       /\ Delivered' = [j \in Server |-> Delivered'[j]]
       /\ \A j \in Server : j # i => Delivered'[j] = Delivered[j]
  BY <1>10 DEF Delivered
<1>13. d \in Seq(Value \cup {None}) /\ Len(d) = lastApply[i]
  <2>1. ASSUME NEW n \in 1 .. Len(applied[i])
        PROVE  applied[i][n].command \in Value \cup {None}
    <3>1. applied[i][n] \in C
      BY <1>4, ElementOfSeq
    <3> QED BY <3>1 DEF C
  <2>2. d \in [1 .. lastApply[i] -> Value \cup {None}]
    BY <1>4, <2>1
  <2> HIDE DEF d
  <2> QED BY <1>4, <2>2, SeqDef
<1>14. e = Append(d, AgreedLog[k])
  <2>1. Append(d, AgreedLog[k]) =
           [n \in 1 .. lastApply[i] + 1 |-> IF n = lastApply[i] + 1 THEN AgreedLog[k] ELSE d[n]]
    <3> HIDE DEF d
    <3> QED BY <1>13
  <2>2. \A n \in 1 .. lastApply[i] + 1 :
           applied'[i][n].command = IF n = lastApply[i] + 1 THEN AgreedLog[k] ELSE d[n]
    <3> TAKE n \in 1 .. lastApply[i] + 1
    <3>1. CASE n = lastApply[i] + 1
      BY <1>4, <1>9, <1>11, <3>1
    <3>2. CASE n # lastApply[i] + 1
      <4>1. n \in 1 .. Len(applied[i])
        BY <1>4, <3>2
      <4> QED BY <1>11, <3>2, <4>1
    <3> QED BY <3>1, <3>2
  <2>3. Len(applied'[i]) = lastApply[i] + 1
    BY <1>4, <1>11
  <2> QED BY <2>1, <2>2, <2>3
<1> HIDE DEF d, e
<1>15. Delivered' = [Delivered EXCEPT ![i] = Append(@, AgreedLog[Len(@) + 1])]
  <2>1. Delivered'[i] = Append(Delivered[i], AgreedLog[Len(Delivered[i]) + 1])
    BY <1>12, <1>13, <1>14
  <2> QED BY <1>12, <2>1
<1>16. Len(Delivered[i]) < Len(AgreedLog)
  BY <1>2, <1>4, <1>9, <1>12, <1>13
<1>17. AgreedLog' = AgreedLog
  BY <1>3 DEF AgreedLog
<1> QED BY <1>15, <1>16, <1>17

LEMMA StepReplicates ==
    ASSUME Step, CommitInv, CommitInv', CommitsMove, PiecesReal, PiecesReal', AppliedWithoutGaps,
           NEW N \in Nat, AgreedTo(N)
    PROVE  (\E M \in Nat : AgreedTo(M)') /\ [Replicated!Next]_(Replicated!logVars)
<1>1. /\ \E M \in Nat : AgreedTo(M)'
      /\ AgreedLog' \in Seq(Value)
      /\ \/ AgreedLog' = AgreedLog
         \/ /\ Len(AgreedLog) < Len(AgreedLog')
            /\ SubSeq(AgreedLog', 1, Len(AgreedLog)) = AgreedLog
  BY ChosenGrows
<1>2. CASE UNCHANGED applied
  <2>1. Delivered' = Delivered
    BY <1>2 DEF Delivered
  <2> QED BY <1>1, <2>1 DEF Replicated!Next, Replicated!Choose, Replicated!logVars, Delivered
<1>3. ASSUME NEW i \in Server, Apply(i) PROVE [Replicated!Next]_(Replicated!logVars)
  <2>1. Replicated!Deliver(i)
    BY <1>3, DeliversNext DEF Replicated!Deliver, Delivered
  <2> QED BY <2>1 DEF Replicated!Next
<1> QED BY <1>1, <1>2, <1>3, AppliedStill DEF Step, CommitInv

LEMMA InitReplicates ==
    ASSUME Init
    PROVE  AgreedTo(0) /\ Replicated!Init
<1>1. committed = {} /\ \A i \in Server : applied[i] = <<>>
  BY DEF Init
<1>2. {r.index : r \in committed} = {} /\ 1 .. 0 = {} /\ Cardinality({}) = 0 /\ Len(<<>>) = 0
  BY <1>1, FS_EmptySet
<1>3. AgreedLog = <<>>
  <2> DEFINE N == Cardinality({r.index : r \in committed})
             f(k) == (CHOOSE r \in committed : r.index = k).entry.command
  <2>1. N = 0
    BY <1>2
  <2>2. AgreedLog = [k \in 1 .. N |-> f(k)]
    BY DEF AgreedLog
  <2> HIDE DEF N, f
  <2> QED BY <1>2, <2>1, <2>2
<1>4. Delivered = [i \in Server |-> <<>>]
  BY <1>1, <1>2 DEF Delivered
<1> QED BY <1>2, <1>3, <1>4 DEF AgreedTo, Replicated!Init, Delivered

\* The commit rule and ApplyLoop of a plain cluster implement one replicated log, which
\* every store is handed from its first command on, in order and without gaps, until a
\* call that brings entries is late.
THEOREM ClusterIsReplicatedLog ==
    ASSUME PlainCluster
    PROVE  Spec => ImplementsReplicatedLog
<1> DEFINE I == CommitInv /\ NoPanic /\ AppliedBelow /\ AppliedWithoutGaps
           K == late = {} => I
           J == late = {} => PiecesReal /\ \E N \in Nat : AgreedTo(N)
<1>1. Init => J /\ Replicated!Init
  <2>1. 0 \in Nat
    OBVIOUS
  <2> QED BY <2>1, InitReal, InitReplicates
<1>2. LogInv => ElectionInv
  BY DEF LogInv
<1>3. ElectionInv => ElectionSafety
  BY OneWinner
<1>4. K /\ J /\ [Next]_vars /\ K' /\ LogInv' /\ ElectionSafety' =>
         J' /\ [late' = {} => Replicated!Next]_(Replicated!logVars)
  <2> SUFFICES ASSUME K, J, [Next]_vars, K', LogInv', ElectionSafety', late' = {}
               PROVE  /\ PiecesReal' /\ \E N \in Nat : AgreedTo(N)'
                      /\ [Replicated!Next]_(Replicated!logVars)
    OBVIOUS
  <2>1. I /\ J /\ PlainStep /\ CommitInv' /\ late = {}
    BY LateStayLate DEF PlainStep
  <2>2. Step /\ CommitsMove
    BY <2>1, CommitsKept
  <2>3. PiecesReal'
    BY <2>1, <2>2, RealKept
  <2>4. PICK N \in Nat : AgreedTo(N)
    BY <2>1
  <2> QED BY <2>1, <2>2, <2>3, <2>4, StepReplicates
<1> QED BY <1>1, <1>2, <1>3, <1>4, CommitsAlways, PTL DEF Spec, ImplementsReplicatedLog
=============================================================================
