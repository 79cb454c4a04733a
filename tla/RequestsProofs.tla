--------------------------- MODULE RequestsProofs ---------------------------
(***************************************************************************)
(* Proofs about Requests: a retried request takes effect once, and who waits *)
(* on a leader is told the result of the request it sent.                    *)
(***************************************************************************)
EXTENDS Requests, SequenceTheorems, TLAPS

Entry(S) == [request : S, term : Nat]

\* Different requests have different numbers of calls, none beyond those begun.
Fresh(S) ==
    /\ \A r \in S : r.id \in Nat /\ r.id <= begun /\ r.rid \in Nat
    /\ \A r, s \in S : r.id = s.id => r = s

IsCall(c) ==
    c \in [at : {c.at}, method : {c.method}, id : Nat, rid : Nat, node : {c.node},
           term : {c.term}, index : {c.index}, ch : {c.ch}, leader : {c.leader},
           late : BOOLEAN]

\* Wherever a request is, it is one of S.
InLogs(S) == log \in [Node -> Seq(Entry(S))] /\ chosen \in Seq(Entry(S))
InCalls(S) ==
    /\ calls = [t \in Caller |-> calls[t]]
    /\ \A t \in Caller : /\ IsCall(calls[t])
                         /\ calls[t].at # "idle" => Request(calls[t]) \in S
InNetwork(S) == \A r \in late : r.request \in S

\* Some node leads the newest term.
SomebodyLeads ==
    /\ elections \in Nat /\ leading \in [Node -> Nat]
    /\ \E i \in Node : leading[i] = elections

Counted == begun \in Nat /\ requestID \in Nat

\* The inductive invariant: the requests ever sent are one set of this kind.
Holds(S) == Fresh(S) /\ InLogs(S) /\ InCalls(S) /\ InNetwork(S)
RequestInv == SomebodyLeads /\ Counted /\ \E S : Holds(S)
-----------------------------------------------------------------------------
LEMMA NewestLeads ==
    ASSUME SomebodyLeads PROVE Newest \in Node /\ leading[Newest] = elections
BY DEF SomebodyLeads, Newest

\* Take: the entry goes to the end of a log.
LEMMA TakeInLogs ==
    ASSUME NEW S, NEW i, NEW r \in S, SomebodyLeads, InLogs(S), Take(i, r)
    PROVE  InLogs(S)'
<1> DEFINE e(j) == [request |-> r, term |-> leading[j]]
<1>1. ASSUME NEW j \in Node PROVE log'[j] \in Seq(Entry(S))
  <2>1. e(j) \in Entry(S)
    BY DEF Entry, SomebodyLeads
  <2>2. log[j] \in Seq(Entry(S)) /\ Append(log[j], e(j)) \in Seq(Entry(S))
    BY <2>1 DEF InLogs
  <2>3. log'[j] = IF j = i THEN Append(log[j], e(j)) ELSE log[j]
    BY DEF Take, InLogs
  <2> QED BY <2>2, <2>3
<1>2. log' = [j \in Node |-> log'[j]] /\ chosen' = chosen
  BY DEF Take, InLogs
<1> QED BY <1>1, <1>2 DEF InLogs

\* One call goes on, with its request or without one.
LEMMA OneCall ==
    ASSUME NEW S, NEW t \in Caller, InCalls(S), NEW d, IsCall(d),
           d.at # "idle" => Request(d) \in S,
           calls' = [calls EXCEPT ![t] = d]
    PROVE  InCalls(S)'
<1>1. calls' = [u \in Caller |-> calls'[u]]
  BY DEF InCalls
<1>2. ASSUME NEW u \in Caller PROVE calls'[u] = IF u = t THEN d ELSE calls[u]
  BY DEF InCalls
<1> QED BY <1>1, <1>2 DEF InCalls

\* A round of the clerk's loop ends or begins: the call keeps its request.
LEMMA RoundCall ==
    ASSUME NEW c, IsCall(c), NEW at, NEW node
    PROVE  /\ IsCall(Round(c, at, node))
           /\ Round(c, at, node).at = at /\ Round(c, at, node).node = node
           /\ Round(c, at, node).ch = 0
           /\ Request(Round(c, at, node)) = Request(c)
BY DEF IsCall, Request, Round, NoCall

\* A call that is about to get somewhere keeps its request.
LEMMA NextRound ==
    ASSUME NEW S, NEW t \in Caller, InCalls(S), calls[t].at # "idle", NEW at, NEW node,
           calls' = [calls EXCEPT ![t] = Round(@, at, node)]
    PROVE  InCalls(S)'
<1> DEFINE d == Round(calls[t], at, node)
<1>1. IsCall(calls[t]) /\ Request(calls[t]) \in S
  BY DEF InCalls
<1>2. IsCall(d) /\ Request(d) \in S
  BY <1>1, RoundCall
<1>3. calls' = [calls EXCEPT ![t] = d]
  OBVIOUS
<1> HIDE DEF d
<1> QED BY <1>2, <1>3, OneCall

\* A call returns.
LEMMA Returned ==
    ASSUME NEW S, NEW t \in Caller, InCalls(S), Return(t)
    PROVE  InCalls(S)'
<1>1. IsCall(NoCall) /\ NoCall.at = "idle"
  BY DEF NoCall, IsCall
<1> QED BY <1>1, OneCall DEF Return
-----------------------------------------------------------------------------
(* The cluster *)

LEMMA ElectKeeps ==
    ASSUME NEW S, NEW i \in Node, SomebodyLeads, Counted, Holds(S), Elect(i)
    PROVE  SomebodyLeads' /\ Counted' /\ Holds(S)'
<1>1. SomebodyLeads'
  BY DEF Elect, SomebodyLeads
<1> QED BY <1>1 DEF Elect, clerkVars, Counted, Holds, Fresh, InLogs, InCalls, InNetwork

LEMMA HearKeeps ==
    ASSUME NEW S, NEW i \in Node, SomebodyLeads, Counted, Holds(S), Hear(i)
    PROVE  SomebodyLeads' /\ Counted' /\ Holds(S)'
<1>1. Newest \in Node /\ leading[Newest] = elections /\ i # Newest
  BY NewestLeads DEF Hear
<1>2. SomebodyLeads'
  BY <1>1 DEF Hear, SomebodyLeads
<1>3. InLogs(S)'
  BY <1>1 DEF Hear, Holds, InLogs
<1> QED BY <1>2, <1>3 DEF Hear, clerkVars, Counted, Holds, Fresh, InCalls, InNetwork

LEMMA ChooseKeeps ==
    ASSUME NEW S, NEW i \in Node, SomebodyLeads, Counted, Holds(S), Choose(i)
    PROVE  SomebodyLeads' /\ Counted' /\ Holds(S)'
<1>1. PICK n \in Len(chosen) + 1 .. Len(log[i]) : chosen' = SubSeq(log[i], 1, n)
  BY DEF Choose
<1>2. log[i] \in Seq(Entry(S)) /\ chosen \in Seq(Entry(S))
  BY DEF Holds, InLogs
<1>3. n \in 0 .. Len(log[i])
  BY <1>2
<1>4. \A k \in 1 .. n : log[i][k] \in Entry(S)
  BY <1>2, <1>3
<1>5. SubSeq(log[i], 1, n) \in Seq(Entry(S))
  BY <1>2, <1>3, <1>4, SubSeqProperties
<1>6. InLogs(S)'
  BY <1>1, <1>5 DEF Choose, Holds, InLogs
<1> QED BY <1>6 DEF Choose, clerkVars, SomebodyLeads, Counted, Holds, Fresh, InCalls, InNetwork

LEMMA ProcessEndsKeeps ==
    ASSUME NEW S, NEW i, SomebodyLeads, Counted, Holds(S), ProcessEnds(i),
           UNCHANGED <<clerkVars, begun>>
    PROVE  SomebodyLeads' /\ Counted' /\ Holds(S)'
<1>1. ASSUME NEW t \in Caller
      PROVE  /\ IsCall(calls'[t])
             /\ calls'[t].at # "idle" => Request(calls'[t]) \in S
  <2>1. /\ IsCall(calls[t])
        /\ calls[t].at # "idle" => Request(calls[t]) \in S
    BY DEF Holds, InCalls
  <2>2. \/ calls'[t] = calls[t]
        \/ calls[t].at # "idle" /\ calls'[t] = Failed(calls[t])
    BY DEF ProcessEnds
  <2>3. /\ IsCall(Failed(calls[t]))
        /\ Request(Failed(calls[t])) = Request(calls[t])
    BY <2>1, RoundCall DEF Failed
  <2> QED BY <2>1, <2>2, <2>3
<1>2. calls' = [t \in Caller |-> calls'[t]]
  BY DEF ProcessEnds
<1>3. InCalls(S)'
  BY <1>1, <1>2 DEF InCalls
<1>4. late' \subseteq late
  BY DEF ProcessEnds
<1> QED
  BY <1>3, <1>4
     DEF ProcessEnds, clerkVars, SomebodyLeads, Counted, Holds, Fresh, InLogs, InNetwork

LEMMA ApplyKeeps ==
    ASSUME NEW S, NEW i \in Node, SomebodyLeads, Counted, Holds(S), Apply(i)
    PROVE  SomebodyLeads' /\ Counted' /\ Holds(S)'
<1> DEFINE r == chosen[applied[i] + 1].request
<1>1. ASSUME NEW t \in Caller
      PROVE  /\ IsCall(calls'[t])
             /\ calls'[t].at # "idle" => Request(calls'[t]) \in S
  <2>1. /\ IsCall(calls[t])
        /\ calls[t].at # "idle" => Request(calls[t]) \in S
    BY DEF Holds, InCalls
  <2>2. calls'[t] = calls[t] \/ calls'[t] = [calls[t] EXCEPT !.ch = r.id]
    BY DEF Apply
  <2>3. ASSUME NEW v
        PROVE  /\ IsCall([calls[t] EXCEPT !.ch = v])
               /\ [calls[t] EXCEPT !.ch = v].at = calls[t].at
               /\ Request([calls[t] EXCEPT !.ch = v]) = Request(calls[t])
    BY <2>1 DEF IsCall, Request
  <2> HIDE DEF r
  <2> QED BY <2>1, <2>2, <2>3
<1>2. calls' = [t \in Caller |-> calls'[t]]
  BY DEF Apply
<1>3. InCalls(S)'
  BY <1>1, <1>2 DEF InCalls
<1> QED
  BY <1>3
     DEF Apply, clusterVars, clerkVars, SomebodyLeads, Counted, Holds, Fresh, InLogs, InNetwork
-----------------------------------------------------------------------------
(* The clerk and the handlers *)

\* What is left to show where the cluster and the counters stay.
LEMMA CallsOnly ==
    ASSUME NEW S, SomebodyLeads, Counted, Holds(S), InCalls(S)', late' \subseteq late,
           UNCHANGED <<log, leading, elections, chosen, requestID, begun>>
    PROVE  SomebodyLeads' /\ Counted' /\ Holds(S)'
BY DEF SomebodyLeads, Counted, Holds, Fresh, InLogs, InNetwork

\* nextID: the number of the new call is above all others.
LEMMA BeginKeeps ==
    ASSUME NEW S, NEW t \in Caller, NEW m, SomebodyLeads, Counted, Holds(S), Begin(t, m)
    PROVE  SomebodyLeads' /\ Counted' /\ \E T : Holds(T)'
<1>1. PICK n, rid : n = begun /\ rid = IF m.numbered THEN requestID + 1 ELSE 0
  OBVIOUS
<1> DEFINE c == [NoCall EXCEPT !.at = "loop", !.method = m.rpc, !.id = n + 1, !.rid = rid]
           T == S \cup {Request(c)}
<1>2. /\ n \in Nat /\ begun = n /\ begun' = n + 1
      /\ rid \in Nat /\ requestID \in Nat /\ requestID' \in Nat
  BY <1>1 DEF Begin, Counted
<1>3. calls' = [calls EXCEPT ![t] = c]
  BY <1>1 DEF Begin
<1>4. IsCall(c) /\ Request(c) = [id |-> n + 1, rid |-> rid, method |-> m.rpc]
  <2>1. NoCall \in [at : {NoCall.at}, method : {NoCall.method}, id : Nat, rid : Nat,
                    node : {NoCall.node}, term : {NoCall.term}, index : {NoCall.index},
                    ch : {NoCall.ch}, leader : {NoCall.leader}, late : BOOLEAN]
    BY DEF NoCall
  <2>2. n + 1 \in Nat
    BY <1>2
  <2> QED BY <1>2, <2>1, <2>2 DEF IsCall, Request
<1> HIDE DEF c
<1>5. Fresh(T)'
  BY <1>2, <1>4 DEF Holds, Fresh
<1>6. InCalls(T) /\ Request(c) \in T /\ InNetwork(T)
  BY DEF Holds, InCalls, InNetwork
<1>7. Entry(S) \subseteq Entry(T)
  BY DEF Entry
<1> HIDE DEF T
<1>8. InLogs(T)
  <2>1. \A s \in Seq(Entry(S)) : s \in Seq(Entry(T))
    BY <1>7
  <2> QED BY <2>1 DEF Holds, InLogs
<1>9. InCalls(T)'
  BY <1>3, <1>4, <1>6, OneCall
<1>10. UNCHANGED <<log, leading, elections, chosen, late>>
  BY DEF Begin, clusterVars
<1>11. InLogs(T)' /\ InNetwork(T)' /\ SomebodyLeads'
  BY <1>6, <1>8, <1>10 DEF InLogs, InNetwork, SomebodyLeads
<1> QED BY <1>2, <1>5, <1>9, <1>11 DEF Counted, Holds

LEMMA CallKeeps ==
    ASSUME NEW S, NEW t \in Caller, SomebodyLeads, Counted, Holds(S), Call(t)
    PROVE  SomebodyLeads' /\ Counted' /\ Holds(S)'
<1> DEFINE at == IF leaderIdx \in down THEN "error" ELSE "sent"
           r == Round(calls[t], at, leaderIdx)
           d == [r EXCEPT !.rid = Numbered(calls[t])]
<1>1. /\ InCalls(S) /\ IsCall(calls[t])
      /\ Request(calls[t]) \in S
  BY DEF Holds, InCalls, Call
<1>2. calls' = [calls EXCEPT ![t] = d]
  BY DEF Call
<1>3. IsCall(r) /\ Request(r) = Request(calls[t])
  BY <1>1, RoundCall
<1> HIDE DEF at, r
<1>4. Numbered(calls[t]) = r.rid
  BY <1>3 DEF Numbered, Request
<1>5. IsCall(d) /\ Request(d) = Request(calls[t])
  BY <1>3, <1>4 DEF IsCall, Request
<1> HIDE DEF d
<1>6. InCalls(S)'
  BY <1>1, <1>2, <1>5, OneCall
<1> QED BY <1>6, CallsOnly DEF Call, clusterVars, clerkVars

\* An error or a refusal: the loop goes on.
LEMMA LoopKeeps ==
    ASSUME NEW S, NEW t \in Caller, SomebodyLeads, Counted, Holds(S),
           OnError(t) \/ OnWrongLeader(t)
    PROVE  SomebodyLeads' /\ Counted' /\ Holds(S)'
<1>1. InCalls(S)'
  <2>1. /\ calls[t].at # "idle"
        /\ calls' = [calls EXCEPT ![t] = Round(@, "loop", Unknown)]
    BY DEF OnError, OnWrongLeader, Again
  <2> QED BY <2>1, NextRound DEF Holds
<1> QED BY <1>1, CallsOnly DEF OnError, OnWrongLeader, clusterVars

LEMMA StartKeeps ==
    ASSUME NEW S, NEW t \in Caller, SomebodyLeads, Counted, Holds(S), Start(t)
    PROVE  SomebodyLeads' /\ Counted' /\ Holds(S)'
<1> DEFINE c == calls[t]
           i == c.node
<1>1. InCalls(S) /\ IsCall(c) /\ Request(c) \in S
  BY DEF Holds, InCalls, Start
<1>2. CASE leading[i] = 0
  <2> DEFINE leader == IF c.method.hints THEN nowLeader[i] ELSE 0
             d == [c EXCEPT !.at = "wrongLeader", !.leader = leader]
  <2>1. calls' = [calls EXCEPT ![t] = d] /\ UNCHANGED clusterVars
    BY <1>1, <1>2 DEF Start, InCalls
  <2> HIDE DEF leader
  <2>2. IsCall(d) /\ Request(d) = Request(c)
    BY <1>1 DEF IsCall, Request
  <2> HIDE DEF d
  <2>3. InCalls(S)'
    BY <1>1, <2>1, <2>2, OneCall
  <2> QED BY <2>1, <2>3, CallsOnly DEF Start, clusterVars, clerkVars
<1>3. CASE leading[i] > 0
  <2> DEFINE index == Len(log[i]) + 1
             d == [c EXCEPT !.at = "started", !.term = leading[i], !.index = index]
  <2>1. calls' = [calls EXCEPT ![t] = d] /\ Take(i, Request(c))
    BY <1>1, <1>3 DEF Start, InCalls
  <2> HIDE DEF index
  <2>2. IsCall(d) /\ Request(d) = Request(c)
    BY <1>1 DEF IsCall, Request
  <2> HIDE DEF d
  <2>3. InCalls(S)'
    BY <1>1, <2>1, <2>2, OneCall
  <2>4. InLogs(S)'
    BY <1>1, <2>1, TakeInLogs DEF Holds
  <2> QED
    BY <2>1, <2>3, <2>4
       DEF Start, Take, clerkVars, SomebodyLeads, Counted, Holds, Fresh, InNetwork
<1> QED BY <1>2, <1>3 DEF Start

LEMMA RegisterKeeps ==
    ASSUME NEW S, NEW t \in Caller, SomebodyLeads, Counted, Holds(S), Register(t)
    PROVE  SomebodyLeads' /\ Counted' /\ Holds(S)'
<1> DEFINE past == applied[calls[t].node] >= calls[t].index
           d == [calls[t] EXCEPT !.at = "waiting", !.late = past]
<1>1. InCalls(S) /\ IsCall(calls[t]) /\ Request(calls[t]) \in S
  BY DEF Holds, InCalls, Register
<1>2. CASE calls' = [calls EXCEPT ![t] = d] /\ UNCHANGED <<clusterVars, applied, late>>
  <2>1. past \in BOOLEAN
    OBVIOUS
  <2> HIDE DEF past
  <2>2. IsCall(d) /\ Request(d) = Request(calls[t])
    BY <1>1, <2>1 DEF IsCall, Request
  <2> HIDE DEF d
  <2>3. InCalls(S)'
    BY <1>1, <1>2, <2>2, OneCall
  <2> QED BY <1>2, <2>3, CallsOnly DEF Register, clusterVars, clerkVars
<1>3. CASE ProcessEnds(calls[t].node)
  BY <1>3, ProcessEndsKeeps DEF Register
<1> QED BY <1>2, <1>3 DEF Register

LEMMA RegisterUnheardKeeps ==
    ASSUME NEW S, SomebodyLeads, Counted, Holds(S), RegisterUnheard
    PROVE  SomebodyLeads' /\ Counted' /\ Holds(S)'
<1>1. UNCHANGED <<clerkVars, begun>>
  BY DEF RegisterUnheard
<1>2. CASE late' \subseteq late /\ UNCHANGED <<clusterVars, calls>>
  <2>1. InCalls(S)'
    BY <1>2 DEF Holds, InCalls
  <2> QED BY <1>1, <1>2, <2>1, CallsOnly DEF clusterVars, clerkVars
<1>3. CASE \E r \in late : ProcessEnds(r.node)
  BY <1>1, <1>3, ProcessEndsKeeps
<1> QED BY <1>2, <1>3 DEF RegisterUnheard

LEMMA ReturnKeeps ==
    ASSUME NEW S, NEW t \in Caller, SomebodyLeads, Counted, Holds(S),
           Answer(t) \/ Timeout(t)
    PROVE  SomebodyLeads' /\ Counted' /\ Holds(S)'
<1>1. InCalls(S)'
  BY Returned DEF Holds, Answer, Timeout
<1> QED BY <1>1, CallsOnly DEF Answer, Timeout, clusterVars, clerkVars

LEMMA BreakKeeps ==
    ASSUME NEW S, NEW t \in Caller, SomebodyLeads, Counted, Holds(S), Break(t)
    PROVE  SomebodyLeads' /\ Counted' /\ Holds(S)'
<1>1. /\ calls[t].at # "idle"
      /\ calls' = [calls EXCEPT ![t] = Round(@, "error", @.node)]
  BY DEF Break, Failed
<1>2. InCalls(S) /\ Request(calls[t]) \in S
  BY <1>1 DEF Holds, InCalls
<1>3. InCalls(S)'
  <2>1. PICK node : node = calls[t].node
    OBVIOUS
  <2>2. calls' = [calls EXCEPT ![t] = Round(@, "error", node)]
    BY <1>1, <2>1
  <2> QED BY <1>1, <1>2, <2>2, NextRound
<1>4. \A r \in late' : r \in late \/ r.request = Request(calls[t])
  BY DEF Break
<1>5. InNetwork(S)'
  BY <1>2, <1>4 DEF Holds, InNetwork
<1> QED
  BY <1>3, <1>5
     DEF Break, clusterVars, clerkVars, SomebodyLeads, Counted, Holds, Fresh, InLogs

LEMMA ArriveKeeps ==
    ASSUME NEW S, SomebodyLeads, Counted, Holds(S), Arrive
    PROVE  SomebodyLeads' /\ Counted' /\ Holds(S)'
<1>1. PICK r \in late :
         /\ Take(r.node, r.request)
         /\ late' = (late \ {r}) \cup {[r EXCEPT !.index = Len(log[r.node]) + 1]}
  BY DEF Arrive
<1>2. \A n \in late : n.request \in S
  BY DEF Holds, InNetwork
<1>3. InLogs(S)'
  BY <1>1, <1>2, TakeInLogs DEF Holds
<1>4. \A n : [r EXCEPT !.index = n].request = r.request
  BY DEF Holds, InNetwork
<1>5. InNetwork(S)'
  BY <1>1, <1>2, <1>4 DEF InNetwork
<1> QED
  BY <1>1, <1>3, <1>5
     DEF Arrive, Take, clerkVars, SomebodyLeads, Counted, Holds, Fresh, InCalls
-----------------------------------------------------------------------------
LEMMA InitHolds == Init => RequestInv
<1> SUFFICES ASSUME Init PROVE RequestInv
  OBVIOUS
<1>1. SomebodyLeads /\ Counted
  BY DEF Init, SomebodyLeads, Counted
<1>2. IsCall(NoCall) /\ NoCall.at = "idle"
  BY DEF NoCall, IsCall
<1>3. InCalls({})
  BY <1>2 DEF Init, InCalls
<1>4. Fresh({}) /\ InLogs({}) /\ InNetwork({})
  BY DEF Init, Fresh, InLogs, InNetwork
<1> QED BY <1>1, <1>3, <1>4 DEF RequestInv, Holds

LEMMA StepHolds == RequestInv /\ [Next]_vars => RequestInv'
<1> SUFFICES ASSUME RequestInv, [Next]_vars PROVE RequestInv'
  OBVIOUS
<1>1. SomebodyLeads /\ Counted
  BY DEF RequestInv
<1>2. PICK S : Holds(S)
  BY DEF RequestInv
<1>3. CASE \E i \in Node : Elect(i) \/ Hear(i) \/ Choose(i) \/ GoDown(i) \/ Apply(i)
  BY <1>1, <1>2, <1>3, ElectKeeps, HearKeeps, ChooseKeeps, ProcessEndsKeeps, ApplyKeeps
     DEF RequestInv, GoDown
<1>4. CASE \E t \in Caller : \E m \in Calls[t] : Begin(t, m)
  BY <1>1, <1>2, <1>4, BeginKeeps DEF RequestInv
<1>5. CASE \E t \in Caller : Call(t) \/ OnError(t) \/ OnWrongLeader(t)
  BY <1>1, <1>2, <1>5, CallKeeps, LoopKeeps DEF RequestInv
<1>6. CASE \E t \in Caller : \/ Start(t) \/ Register(t)
                            \/ Answer(t) \/ Timeout(t) \/ Break(t)
  BY <1>1, <1>2, <1>6, StartKeeps, RegisterKeeps, ReturnKeeps, BreakKeeps DEF RequestInv
<1>7. CASE Arrive \/ RegisterUnheard
  BY <1>1, <1>2, <1>7, ArriveKeeps, RegisterUnheardKeeps DEF RequestInv
<1>8. CASE UNCHANGED vars
  BY <1>1, <1>2, <1>8
     DEF RequestInv, vars, clusterVars, clerkVars, SomebodyLeads, Counted, Holds, Fresh, InLogs,
         InCalls, InNetwork
<1> QED BY <1>3, <1>4, <1>5, <1>6, <1>7, <1>8 DEF Next

\* The number a request was given is its own for all its retries, so of its entries in
\* the log only the first can take effect (the clerk's loop, IsDuplicate).
THEOREM RetriesTakeEffectOnce == Spec => []TakesEffectOnce
<1>1. RequestInv => TakesEffectOnce
  <2> SUFFICES ASSUME RequestInv,
                      NEW j \in 1 .. Len(chosen), NEW k \in 1 .. Len(chosen), j # k,
                      chosen[j].request.method.dedup,
                      chosen[j].request.id = chosen[k].request.id,
                      TakesEffect(j), TakesEffect(k)
               PROVE  FALSE
    BY DEF TakesEffectOnce
  <2>1. PICK S : Holds(S)
    BY DEF RequestInv
  <2>2. chosen \in Seq(Entry(S))
    BY <2>1 DEF Holds, InLogs
  <2>3. chosen[j].request \in S /\ chosen[k].request \in S
    <3>1. chosen[j] \in Entry(S) /\ chosen[k] \in Entry(S)
      BY <2>2
    <3> QED BY <3>1 DEF Entry
  <2>4. chosen[k].request = chosen[j].request /\ chosen[j].request.rid \in Nat
    BY <2>1, <2>3 DEF Holds, Fresh
  <2>5. CASE j < k
    <3>1. j \in 1 .. k - 1
      BY <2>2, <2>5
    <3>2. chosen[j].request.rid < chosen[k].request.rid
      BY <2>4, <3>1 DEF TakesEffect
    <3> QED BY <2>4, <3>2
  <2>6. CASE k < j
    <3>1. k \in 1 .. j - 1
      BY <2>2, <2>6
    <3>2. chosen[k].request.rid < chosen[j].request.rid
      BY <2>4, <3>1 DEF TakesEffect
    <3> QED BY <2>4, <3>2
  <2>7. j \in Int /\ k \in Int
    BY <2>2
  <2> QED BY <2>5, <2>6, <2>7
<1> QED BY <1>1, InitHolds, StepHolds, PTL DEF Spec
-----------------------------------------------------------------------------
(* Answers.  Top is the newest term, lg and ld the logs and who leads.      *)

\* The request of c is where the handler of c waits for it, unless a newer leader came.
AtItsIndex(c, lg, ld) ==
    ld[c.node] = c.term => /\ c.index <= Len(lg[c.node])
                           /\ lg[c.node][c.index].request.id = c.id

\* What is known of a call by how far it has got.
Placed(c, lg, ld, top) ==
    /\ c.at \in {"sent", "started", "waiting", "error"} => c.node \in Node
    /\ c.at \in {"sent", "started"} => c.ch = 0
    /\ c.at \in {"started", "waiting"} =>
          c.term \in 1 .. top /\ c.index \in Nat \ {0} /\ AtItsIndex(c, lg, ld)
    /\ c.at = "waiting" /\ c.ch # 0 /\ ld[c.node] = c.term => c.ch = c.id

\* What happens to logs while a node leads: they grow.
Goes(lg, ld, top, lg2, ld2, top2) ==
    /\ top \in Nat /\ top2 \in Nat /\ top <= top2
    /\ \A i \in Node :
          \/ ld2[i] \notin 1 .. top
          \/ /\ ld2[i] = ld[i]
             /\ Len(lg[i]) \in Nat /\ Len(lg2[i]) \in Nat /\ Len(lg[i]) <= Len(lg2[i])
             /\ \A k \in 1 .. Len(lg[i]) : lg2[i][k] = lg[i][k]

Located ==
    /\ leaderIdx \in Node
    /\ \A r \in late : r.node \in Node
    /\ applied \in [Node -> Nat]
    /\ \A i \in Node : leading[i] <= elections
    /\ channels = [i \in Node |-> channels[i]]

Channel(t) == [table |-> calls[t].method.table, index |-> calls[t].index, caller |-> t]

\* Behind every channel in a table is a handler that waits, at its own index.
Connected ==
    \A i \in Node : \A w \in channels[i] :
        /\ w.caller \in Caller /\ w = Channel(w.caller)
        /\ calls[w.caller].at = "waiting" /\ calls[w.caller].node = i
        /\ calls[w.caller].ch = 0

AllPlaced == \A t \in Caller : Placed(calls[t], log, leading, elections)
AnswerInv == Located /\ AllPlaced /\ Connected

LEMMA StaysPlaced ==
    ASSUME NEW c, NEW lg, NEW ld, NEW top, NEW lg2, NEW ld2, NEW top2,
           Goes(lg, ld, top, lg2, ld2, top2), Placed(c, lg, ld, top)
    PROVE  Placed(c, lg2, ld2, top2)
<1>1. CASE c.at \in {"started", "waiting"}
  <2>1. c.node \in Node /\ c.term \in 1 .. top /\ c.index \in Nat \ {0}
    BY <1>1 DEF Placed
  <2>2. c.term \in 1 .. top2
    BY <2>1 DEF Goes
  <2>3. CASE ld2[c.node] \notin 1 .. top
    BY <1>1, <2>1, <2>2, <2>3 DEF Placed, AtItsIndex
  <2>4. CASE ld2[c.node] = ld[c.node]
             /\ Len(lg[c.node]) \in Nat /\ Len(lg2[c.node]) \in Nat
             /\ Len(lg[c.node]) <= Len(lg2[c.node])
             /\ \A k \in 1 .. Len(lg[c.node]) : lg2[c.node][k] = lg[c.node][k]
    <3>1. AtItsIndex(c, lg2, ld2)
      BY <1>1, <2>1, <2>4 DEF Placed, AtItsIndex
    <3> QED BY <1>1, <2>2, <2>4, <3>1 DEF Placed
  <2> QED BY <2>1, <2>3, <2>4 DEF Goes
<1>2. CASE c.at \notin {"started", "waiting"}
  BY <1>2 DEF Placed
<1> QED BY <1>1, <1>2

LEMMA SameGoes ==
    ASSUME RequestInv PROVE Goes(log, leading, elections, log, leading, elections)
<1>1. PICK S : InLogs(S)
  BY DEF RequestInv, Holds
<1>2. \A i \in Node : Len(log[i]) \in Nat
  BY <1>1 DEF InLogs
<1> QED BY <1>2 DEF Goes, RequestInv, SomebodyLeads

\* A leader's log grows.
LEMMA TakeGoes ==
    ASSUME RequestInv, NEW i \in Node, NEW r, Take(i, r)
    PROVE  /\ Goes(log, leading, elections, log', leading', elections')
           /\ Len(log'[i]) = Len(log[i]) + 1 /\ Len(log[i]) \in Nat
           /\ log'[i][Len(log[i]) + 1].request = r
<1>1. PICK S : InLogs(S)
  BY DEF RequestInv, Holds
<1> DEFINE e == [request |-> r, term |-> leading[i]]
<1>2. log' = [log EXCEPT ![i] = Append(log[i], e)] /\ UNCHANGED <<leading, elections>>
  BY DEF Take
<1>3. log[i] \in Seq(Entry(S))
  BY <1>1 DEF InLogs
<1>4. e.request = r
  OBVIOUS
<1> HIDE DEF e
<1>5. /\ Len(Append(log[i], e)) = Len(log[i]) + 1 /\ Len(log[i]) \in Nat
      /\ Append(log[i], e)[Len(log[i]) + 1] = e
      /\ \A k \in 1 .. Len(log[i]) : Append(log[i], e)[k] = log[i][k]
  BY <1>3
<1>6. \A j \in Node : log'[j] = IF j = i THEN Append(log[i], e) ELSE log[j]
  BY <1>1, <1>2 DEF InLogs
<1>7. \A j \in Node : Len(log[j]) \in Nat
  BY <1>1 DEF InLogs
<1>8. Goes(log, leading, elections, log', leading', elections')
  BY <1>2, <1>5, <1>6, <1>7 DEF Goes, RequestInv, SomebodyLeads
<1> QED BY <1>4, <1>5, <1>6, <1>8

\* The call of one goroutine goes on, and nobody waits in its name.
LEMMA OneStaysConnected ==
    ASSUME Connected, NEW t \in Caller, NEW d, calls' = [calls EXCEPT ![t] = d],
           \A i \in Node : \A w \in channels'[i] : w \in channels[i] /\ w.caller # t
    PROVE  Connected'
<1> SUFFICES ASSUME NEW i \in Node, NEW w \in channels'[i]
             PROVE  /\ w.caller \in Caller /\ w = Channel(w.caller)'
                    /\ calls'[w.caller].at = "waiting" /\ calls'[w.caller].node = i
                    /\ calls'[w.caller].ch = 0
  BY DEF Connected
<1>1. w \in channels[i] /\ w.caller # t
  OBVIOUS
<1>2. calls'[w.caller] = calls[w.caller]
  BY <1>1
<1> QED BY <1>1, <1>2 DEF Connected, Channel

LEMMA OneGoesOn ==
    ASSUME RequestInv, AnswerInv, NEW t \in Caller, NEW d,
           calls' = [calls EXCEPT ![t] = d],
           Placed(d, log', leading', elections'),
           Goes(log, leading, elections, log', leading', elections')
    PROVE  AllPlaced'
<1> SUFFICES ASSUME NEW u \in Caller PROVE Placed(calls'[u], log', leading', elections')
  BY DEF AllPlaced
<1>1. u # t => calls'[u] = calls[u]
  OBVIOUS
<1>2. u = t => calls'[u] = d
  BY DEF RequestInv, Holds, InCalls
<1>3. Placed(calls[u], log, leading, elections)
  BY DEF AnswerInv, AllPlaced
<1> QED BY <1>1, <1>2, <1>3, StaysPlaced

\* Whoever does not wait has no channel in a table.
LEMMA NoChannel ==
    ASSUME Connected, NEW t \in Caller, calls[t].at # "waiting" \/ calls[t].ch # 0
    PROVE  \A i \in Node : \A w \in channels[i] : w.caller # t
BY DEF Connected

LEMMA DeafToOne ==
    ASSUME Located, Connected, NEW t \in Caller, NEW j, j = calls[t].node,
           channels' = Deaf(t, j)
    PROVE  \A i \in Node : \A w \in channels'[i] : w \in channels[i] /\ w.caller # t
<1> SUFFICES ASSUME NEW i \in Node, NEW w \in channels'[i]
             PROVE  w \in channels[i] /\ w.caller # t
  OBVIOUS
<1>1. channels'[i] = IF i = j THEN {v \in channels[i] : v.caller # t} ELSE channels[i]
  BY DEF Deaf, Located
<1>2. CASE i = j
  BY <1>1, <1>2
<1>3. CASE i # j
  BY <1>1, <1>3 DEF Connected
<1> QED BY <1>2, <1>3

\* The cluster moves and the calls stay.
LEMMA ClusterMoves ==
    ASSUME RequestInv, AnswerInv,
           Goes(log, leading, elections, log', leading', elections'),
           UNCHANGED <<applied, channels, late, leaderIdx, calls>>,
           \A i \in Node : leading'[i] <= elections'
    PROVE  AnswerInv'
<1>1. AllPlaced'
  BY StaysPlaced DEF AnswerInv, AllPlaced
<1> QED BY <1>1 DEF AnswerInv, Located, Connected, Channel

LEMMA ElectPlaces ==
    ASSUME RequestInv, AnswerInv, NEW i \in Node, Elect(i)
    PROVE  AnswerInv'
<1>1. /\ elections \in Nat /\ elections' = elections + 1
      /\ leading \in [Node -> Nat] /\ leading' = [leading EXCEPT ![i] = elections + 1]
      /\ UNCHANGED <<log, applied, channels, late, leaderIdx, calls>>
  BY DEF Elect, RequestInv, SomebodyLeads, clerkVars
<1>2. \A j \in Node : leading[j] <= elections
  BY DEF AnswerInv, Located
<1>3. Goes(log, leading, elections, log, leading, elections)
  BY SameGoes
<1>4. Goes(log, leading, elections, log', leading', elections')
  BY <1>1, <1>3 DEF Goes
<1>5. \A j \in Node : leading'[j] <= elections'
  BY <1>1, <1>2
<1> QED BY <1>1, <1>4, <1>5, ClusterMoves

LEMMA HearPlaces ==
    ASSUME RequestInv, AnswerInv, NEW i \in Node, Hear(i)
    PROVE  AnswerInv'
<1>1. /\ leading \in [Node -> Nat] /\ leading' = [leading EXCEPT ![i] = 0]
      /\ log' = [log EXCEPT ![i] = log[Newest]]
      /\ UNCHANGED <<elections, applied, channels, late, leaderIdx, calls>>
      /\ elections \in Nat
  BY DEF Hear, RequestInv, SomebodyLeads, clerkVars
<1>2. \A j \in Node : leading[j] <= elections
  BY DEF AnswerInv, Located
<1>3. Goes(log, leading, elections, log, leading, elections)
  BY SameGoes
<1>4. \A j \in Node : j # i => log'[j] = log[j] /\ leading'[j] = leading[j]
  BY <1>1
<1>5. leading'[i] = 0
  BY <1>1
<1>6. Goes(log, leading, elections, log', leading', elections')
  BY <1>1, <1>3, <1>4, <1>5 DEF Goes
<1>7. \A j \in Node : leading'[j] <= elections'
  BY <1>1, <1>2, <1>4, <1>5
<1> QED BY <1>1, <1>6, <1>7, ClusterMoves

LEMMA ChoosePlaces ==
    ASSUME RequestInv, AnswerInv, NEW i \in Node, Choose(i)
    PROVE  AnswerInv'
<1>1. UNCHANGED <<log, leading, elections, applied, channels, late, leaderIdx, calls>>
  BY DEF Choose, clerkVars
<1>2. Goes(log, leading, elections, log', leading', elections')
  BY <1>1, SameGoes
<1>3. \A j \in Node : leading'[j] <= elections'
  BY <1>1 DEF AnswerInv, Located
<1> QED BY <1>1, <1>2, <1>3, ClusterMoves

\* A call whose handler ended with an error.
LEMMA FailedPlaced ==
    ASSUME NEW c, IsCall(c), NEW lg, NEW ld, NEW top, Placed(c, lg, ld, top),
           c.at \in {"sent", "started", "waiting"}
    PROVE  Placed(Failed(c), lg, ld, top)
<1>1. c.node \in Node /\ Failed(c).at = "error" /\ Failed(c).node = c.node
  BY RoundCall DEF Placed, Failed
<1> QED BY <1>1 DEF Placed

LEMMA ProcessEndsPlaces ==
    ASSUME RequestInv, AnswerInv, NEW i, ProcessEnds(i), UNCHANGED leaderIdx
    PROVE  AnswerInv'
<1>1. /\ UNCHANGED <<log, leading, elections, leaderIdx>>
      /\ late' \subseteq late /\ channels' = [channels EXCEPT ![i] = {}]
      /\ applied' = [applied EXCEPT ![i] = 0]
  BY DEF ProcessEnds
<1>2. ASSUME NEW t \in Caller
      PROVE  /\ calls'[t] = calls[t] \/ calls'[t] = Failed(calls[t])
             /\ calls'[t] # calls[t] => calls[t].at \in {"sent", "started", "waiting"}
             /\ calls[t].node # i => calls'[t] = calls[t]
  BY DEF ProcessEnds
<1>3. AllPlaced'
  <2> SUFFICES ASSUME NEW t \in Caller PROVE Placed(calls'[t], log, leading, elections)
    BY <1>1 DEF AllPlaced
  <2> DEFINE d == Failed(calls[t])
  <2>1. Placed(calls[t], log, leading, elections) /\ IsCall(calls[t])
    BY DEF AnswerInv, AllPlaced, RequestInv, Holds, InCalls
  <2>2. \/ calls'[t] = calls[t]
        \/ calls'[t] = d /\ calls[t].at \in {"sent", "started", "waiting"}
    BY <1>2
  <2>3. calls[t].at \in {"sent", "started", "waiting"} => Placed(d, log, leading, elections)
    BY <2>1, FailedPlaced
  <2> HIDE DEF d
  <2> QED BY <2>1, <2>2, <2>3
<1>4. Connected'
  <2> SUFFICES ASSUME NEW j \in Node, NEW w \in channels'[j]
               PROVE  /\ w.caller \in Caller /\ w = Channel(w.caller)'
                      /\ calls'[w.caller].at = "waiting" /\ calls'[w.caller].node = j
                      /\ calls'[w.caller].ch = 0
    BY DEF Connected
  <2>1. w \in channels[j] /\ j # i
    BY <1>1 DEF AnswerInv, Located
  <2>2. w.caller \in Caller /\ calls[w.caller].node = j
    BY <2>1 DEF AnswerInv, Connected
  <2>3. calls'[w.caller] = calls[w.caller]
    BY <1>2, <2>1, <2>2
  <2> QED BY <2>1, <2>3 DEF AnswerInv, Connected, Channel
<1>5. Located'
  BY <1>1 DEF AnswerInv, Located
<1> QED BY <1>3, <1>4, <1>5 DEF AnswerInv

\* applyBatch: the result of an entry goes to who waits at its index, and if the node
\* still leads the term that it took the request in, this is the entry it took.
LEMMA ApplyPlaces ==
    ASSUME RequestInv, AnswerInv, NEW i \in Node, Apply(i)
    PROVE  AnswerInv'
<1> DEFINE k == applied[i] + 1
           r == chosen[k].request
           waiters == {w \in channels[i] : w.table = r.method.table /\ w.index = k}
<1>1. /\ UNCHANGED <<log, leading, elections, late, leaderIdx>>
      /\ applied' = [applied EXCEPT ![i] = k] /\ k \in Nat \ {0}
      /\ channels' = [channels EXCEPT ![i] = @ \ waiters]
      /\ k <= Len(chosen) /\ IsPrefixOf(SubSeq(chosen, 1, k), log[i])
  BY DEF Apply, clusterVars, clerkVars, AnswerInv, Located
<1>2. ASSUME NEW t \in Caller
      PROVE  calls'[t] = IF \E w \in waiters : w.caller = t
                         THEN [calls[t] EXCEPT !.ch = r.id] ELSE calls[t]
  BY DEF Apply
<1>3. k <= Len(log[i]) /\ log[i][k] = chosen[k]
  <2>1. PICK S : InLogs(S)
    BY DEF RequestInv, Holds
  <2>2. chosen \in Seq(Entry(S)) /\ log[i] \in Seq(Entry(S))
    BY <2>1 DEF InLogs
  <2> DEFINE s == SubSeq(chosen, 1, k)
  <2>3. Len(s) = k /\ s[k] = chosen[k]
    BY <1>1, <2>2
  <2>4. Len(s) <= Len(log[i]) /\ s = SubSeq(log[i], 1, Len(s))
    BY <1>1 DEF IsPrefixOf
  <2>5. SubSeq(log[i], 1, k)[k] = log[i][k]
    BY <1>1, <2>2, <2>3, <2>4
  <2> QED BY <2>3, <2>4, <2>5
<1>4. ASSUME NEW t \in Caller, NEW w \in waiters, w.caller = t
      PROVE  /\ calls[t].at = "waiting" /\ calls[t].node = i /\ calls[t].index = k
  <2>1. w \in channels[i] /\ w.index = k
    OBVIOUS
  <2>2. w = Channel(t) /\ calls[t].at = "waiting" /\ calls[t].node = i
    BY <1>4, <2>1 DEF AnswerInv, Connected
  <2>3. Channel(t).index = calls[t].index
    BY DEF Channel
  <2> QED BY <2>1, <2>2, <2>3
<1>5. AllPlaced'
  <2> SUFFICES ASSUME NEW t \in Caller PROVE Placed(calls'[t], log, leading, elections)
    BY <1>1 DEF AllPlaced
  <2>1. Placed(calls[t], log, leading, elections) /\ IsCall(calls[t])
    BY DEF AnswerInv, AllPlaced, RequestInv, Holds, InCalls
  <2>2. CASE \E w \in waiters : w.caller = t
    <3>1. calls[t].at = "waiting" /\ calls[t].node = i /\ calls[t].index = k
      BY <1>4, <2>2
    <3>2. leading[i] = calls[t].term => r.id = calls[t].id
      BY <1>3, <2>1, <3>1 DEF Placed, AtItsIndex
    <3> DEFINE v == r.id
               d == [calls[t] EXCEPT !.ch = v]
    <3>3. calls'[t] = d
      BY <1>2, <2>2
    <3>4. leading[i] = calls[t].term => v = calls[t].id
      BY <3>2
    <3> HIDE DEF v
    <3>5. /\ d.at = "waiting" /\ d.node = i /\ d.index = k /\ d.term = calls[t].term
          /\ d.ch = v /\ d.id = calls[t].id
      BY <2>1, <3>1 DEF IsCall
    <3> HIDE DEF d
    <3>6. Placed(d, log, leading, elections)
      BY <2>1, <3>1, <3>4, <3>5 DEF Placed, AtItsIndex
    <3> QED BY <3>3, <3>6
  <2> QED BY <1>2, <2>1, <2>2
<1>6. Connected'
  <2> SUFFICES ASSUME NEW j \in Node, NEW w \in channels'[j]
               PROVE  /\ w.caller \in Caller /\ w = Channel(w.caller)'
                      /\ calls'[w.caller].at = "waiting" /\ calls'[w.caller].node = j
                      /\ calls'[w.caller].ch = 0
    BY DEF Connected
  <2>1. w \in channels[j] /\ (j = i => w \notin waiters)
    BY <1>1 DEF AnswerInv, Located
  <2>2. w.caller \in Caller /\ calls[w.caller].node = j /\ w = Channel(w.caller)
    BY <2>1 DEF AnswerInv, Connected
  <2>3. ~ \E v \in waiters : v.caller = w.caller
    <3> SUFFICES ASSUME NEW v \in waiters, v.caller = w.caller PROVE FALSE
      OBVIOUS
    <3>1. v \in channels[i] /\ calls[w.caller].node = i
      BY <1>4, <2>2
    <3>2. v = Channel(w.caller)
      BY <3>1 DEF AnswerInv, Connected
    <3> QED BY <2>1, <2>2, <3>1, <3>2
  <2>4. calls'[w.caller] = calls[w.caller]
    BY <1>2, <2>2, <2>3
  <2> QED BY <2>1, <2>4 DEF AnswerInv, Connected, Channel
<1>7. Located'
  BY <1>1 DEF AnswerInv, Located
<1> QED BY <1>5, <1>6, <1>7 DEF AnswerInv

\* A call in front of the loop or between two rounds.
LEMMA Aside ==
    ASSUME NEW c, c.at \in {"idle", "loop", "wrongLeader"}, NEW lg, NEW ld, NEW top
    PROVE  Placed(c, lg, ld, top)
BY DEF Placed

\* A call whose handler does not wait goes on, or the last of one whose answer has come.
LEMMA QuietCall ==
    ASSUME RequestInv, AnswerInv, NEW t \in Caller, NEW d,
           calls[t].at # "waiting" \/ calls[t].ch # 0, calls' = [calls EXCEPT ![t] = d],
           Placed(d, log, leading, elections), leaderIdx' \in Node,
           UNCHANGED <<log, leading, elections, applied, channels, late>>
    PROVE  AnswerInv'
<1>1. AllPlaced'
  BY SameGoes, OneGoesOn
<1>2. \A i \in Node : \A w \in channels'[i] : w \in channels[i] /\ w.caller # t
  BY NoChannel DEF AnswerInv
<1>3. Connected'
  BY <1>2, OneStaysConnected DEF AnswerInv
<1> QED BY <1>1, <1>3 DEF AnswerInv, Located

LEMMA BeginPlaces ==
    ASSUME RequestInv, AnswerInv, NEW t \in Caller, NEW m, Begin(t, m)
    PROVE  AnswerInv'
<1> DEFINE rid == IF m.numbered THEN requestID + 1 ELSE 0
           d == [NoCall EXCEPT !.at = "loop", !.method = m.rpc, !.id = begun + 1,
                               !.rid = rid]
<1>1. calls[t].at = "idle" /\ calls' = [calls EXCEPT ![t] = d] /\ leaderIdx' \in Node
      /\ UNCHANGED <<log, leading, elections, applied, channels, late>>
  BY DEF Begin, clusterVars, AnswerInv, Located
<1> HIDE DEF rid
<1>2. d.at = "loop"
  BY DEF NoCall
<1> HIDE DEF d
<1>3. Placed(d, log, leading, elections)
  BY <1>2, Aside
<1> QED BY <1>1, <1>3, QuietCall

LEMMA CallPlaces ==
    ASSUME RequestInv, AnswerInv, NEW t \in Caller, Call(t)
    PROVE  AnswerInv'
<1> DEFINE at == IF leaderIdx \in down THEN "error" ELSE "sent"
           r == Round(calls[t], at, leaderIdx)
           d == [r EXCEPT !.rid = Numbered(calls[t])]
<1>1. /\ calls[t].at = "loop" /\ calls' = [calls EXCEPT ![t] = d]
      /\ leaderIdx \in Node /\ UNCHANGED leaderIdx
      /\ UNCHANGED <<log, leading, elections, applied, channels, late>>
  BY DEF Call, clusterVars, clerkVars, AnswerInv, Located
<1>2. at \in {"error", "sent"}
  OBVIOUS
<1>3. IsCall(r) /\ r.at = at /\ r.node = leaderIdx /\ r.ch = 0
  BY RoundCall DEF RequestInv, Holds, InCalls
<1> HIDE DEF at, r
<1>4. d.at = at /\ d.node = leaderIdx /\ d.ch = 0
  BY <1>3 DEF IsCall
<1> HIDE DEF d
<1>5. Placed(d, log, leading, elections)
  BY <1>1, <1>2, <1>4 DEF Placed
<1> QED BY <1>1, <1>5, QuietCall

\* tryNextLeader, setLeader: the clerk turns to a node of its list.
LEMMA NextIsNode ==
    ASSUME leaderIdx \in Node, NEW n \in Node, tryNextLeader(n)
    PROVE  leaderIdx' \in Node
<1>1. Size \in Nat \ {0}
  BY RequestsAssumption
<1>2. (n + 1) % Size \in Node
  BY <1>1 DEF Node
<1> QED BY <1>2 DEF tryNextLeader, NextAfter

LEMMA LoopPlaces ==
    ASSUME RequestInv, AnswerInv, NEW t \in Caller, OnError(t) \/ OnWrongLeader(t)
    PROVE  AnswerInv'
<1> DEFINE d == Again(calls[t])
<1>1. /\ calls[t].at \in {"error", "wrongLeader"} /\ calls' = [calls EXCEPT ![t] = d]
      /\ UNCHANGED <<log, leading, elections, applied, channels, late>>
  BY DEF OnError, OnWrongLeader, clusterVars
<1>2. leaderIdx \in Node /\ Placed(calls[t], log, leading, elections)
  BY DEF AnswerInv, Located, AllPlaced
<1>3. leaderIdx' \in Node
  <2>1. CASE OnError(t)
    <3>1. calls[t].node \in Node
      BY <1>2, <2>1 DEF OnError, Placed
    <3> QED BY <1>2, <2>1, <3>1, NextIsNode DEF OnError
  <2>2. CASE OnWrongLeader(t)
    BY <1>2, <2>2, NextIsNode DEF OnWrongLeader, setLeader
  <2> QED BY <2>1, <2>2
<1>4. IsCall(calls[t])
  BY DEF RequestInv, Holds, InCalls
<1>5. d.at = "loop"
  BY <1>4, RoundCall DEF Again
<1> HIDE DEF d
<1>6. Placed(d, log, leading, elections)
  BY <1>5, Aside
<1> QED BY <1>1, <1>3, <1>6, QuietCall

\* Start: the entry is at the index the handler is told, in the log of its node.
LEMMA StartPlaces ==
    ASSUME RequestInv, AnswerInv, NEW t \in Caller, Start(t)
    PROVE  AnswerInv'
<1> DEFINE c == calls[t]
           i == c.node
<1>1. /\ c.at = "sent" /\ i \in Node /\ c.ch = 0 /\ IsCall(c)
      /\ UNCHANGED <<applied, channels, late, leaderIdx>>
  BY DEF Start, clerkVars, AnswerInv, AllPlaced, Placed, RequestInv, Holds, InCalls
<1>2. CASE leading[i] = 0
  <2> DEFINE leader == IF c.method.hints THEN nowLeader[i] ELSE 0
             d == [c EXCEPT !.at = "wrongLeader", !.leader = leader]
  <2>1. /\ calls' = [calls EXCEPT ![t] = d]
        /\ UNCHANGED <<log, leading, elections>>
    BY <1>1, <1>2 DEF Start, RequestInv, Holds, InCalls, clusterVars
  <2> HIDE DEF leader
  <2>2. d.at = "wrongLeader"
    BY <1>1 DEF IsCall
  <2> HIDE DEF d
  <2>3. Placed(d, log, leading, elections)
    BY <2>2, Aside
  <2> QED BY <1>1, <2>1, <2>3, QuietCall DEF AnswerInv, Located
<1>3. CASE leading[i] > 0
  <2> DEFINE term == leading[i]
             index == Len(log[i]) + 1
             d == [c EXCEPT !.at = "started", !.term = term, !.index = index]
  <2>1. calls' = [calls EXCEPT ![t] = d] /\ Take(i, Request(c))
    BY <1>1, <1>3 DEF Start, RequestInv, Holds, InCalls
  <2>2. /\ Goes(log, leading, elections, log', leading', elections')
        /\ Len(log'[i]) = index /\ index \in Nat \ {0}
        /\ log'[i][index].request = Request(c)
    BY <1>1, <2>1, TakeGoes
  <2>3. /\ term \in 1 .. elections /\ UNCHANGED <<leading, elections>>
        /\ \A j \in Node : leading[j] <= elections
    BY <1>1, <1>3, <2>1 DEF Take, AnswerInv, Located, RequestInv, SomebodyLeads
  <2>4. Request(c).id = c.id
    BY DEF Request
  <2> HIDE DEF term, index
  <2>5. /\ d.at = "started" /\ d.node = i /\ d.term = term /\ d.index = index
        /\ d.ch = 0 /\ d.id = c.id
    BY <1>1 DEF IsCall
  <2> HIDE DEF d
  <2>6. Placed(d, log', leading', elections')
    BY <1>1, <2>2, <2>3, <2>4, <2>5 DEF Placed, AtItsIndex
  <2>7. AllPlaced'
    BY <2>1, <2>2, <2>6, OneGoesOn
  <2>8. \A j \in Node : \A w \in channels'[j] : w \in channels[j] /\ w.caller # t
    BY <1>1, NoChannel DEF AnswerInv
  <2>9. Connected'
    BY <2>1, <2>8, OneStaysConnected DEF AnswerInv
  <2> QED BY <1>1, <2>3, <2>7, <2>9 DEF AnswerInv, Located
<1>4. leading[i] = 0 \/ leading[i] > 0
  BY <1>1 DEF RequestInv, SomebodyLeads
<1> QED BY <1>2, <1>3, <1>4

\* The channel goes into the table under the index of the call.
LEMMA EntersPlaced ==
    ASSUME RequestInv, AnswerInv, NEW t \in Caller, Register(t),
           calls[t].method.table \in Made
    PROVE  AnswerInv'
<1> DEFINE c == calls[t]
           i == c.node
           past == applied[i] >= c.index
           d == [c EXCEPT !.at = "waiting", !.late = past]
           w0 == [table |-> c.method.table, index |-> c.index, caller |-> t]
<1>1. /\ c.at = "started" /\ i \in Node /\ c.ch = 0 /\ IsCall(c)
      /\ UNCHANGED <<log, leading, elections, applied, late, leaderIdx>>
      /\ Placed(c, log, leading, elections)
  BY DEF Register, clusterVars, clerkVars, AnswerInv, AllPlaced, Placed, RequestInv, Holds,
         InCalls
<1>2. calls' = [calls EXCEPT ![t] = d]
  BY <1>1 DEF Register, RequestInv, Holds, InCalls
<1>3. channels' = [channels EXCEPT ![i] = Others(i, c.method.table, c.index) \cup {w0}]
  BY DEF Register, Slot
<1>4. \A j \in Node : \A w \in channels'[j] : w \in channels[j] \/ (w = w0 /\ j = i)
  BY <1>1, <1>3 DEF Others, AnswerInv, Located
<1>5. channels' = [j \in Node |-> channels'[j]]
  BY <1>3 DEF AnswerInv, Located
<1> HIDE DEF past
<1>6. /\ d.at = "waiting" /\ d.node = i /\ d.term = c.term /\ d.index = c.index
      /\ d.ch = 0 /\ d.id = c.id /\ d.method = c.method
  BY <1>1 DEF IsCall
<1> HIDE DEF d
<1>7. Placed(d, log, leading, elections)
  BY <1>1, <1>6 DEF Placed, AtItsIndex
<1>8. AllPlaced'
  BY <1>1, <1>2, <1>7, SameGoes, OneGoesOn
<1>9. calls'[t] = d
  BY <1>2 DEF RequestInv, Holds, InCalls
<1>10. Connected'
  <2> SUFFICES ASSUME NEW j \in Node, NEW w \in channels'[j]
               PROVE  /\ w.caller \in Caller /\ w = Channel(w.caller)'
                      /\ calls'[w.caller].at = "waiting" /\ calls'[w.caller].node = j
                      /\ calls'[w.caller].ch = 0
    BY DEF Connected
  <2>1. CASE w \in channels[j]
    <3>1. w.caller # t
      BY <1>1, <2>1, NoChannel DEF AnswerInv
    <3>2. calls'[w.caller] = calls[w.caller]
      BY <1>2, <3>1
    <3> QED BY <2>1, <3>2 DEF AnswerInv, Connected, Channel
  <2>2. CASE w = w0 /\ j = i
    <3>1. w.caller = t /\ w = [table |-> d.method.table, index |-> d.index, caller |-> t]
      BY <1>6, <2>2
    <3> QED BY <1>6, <1>9, <2>2, <3>1 DEF Channel
  <2> QED BY <1>4, <2>1, <2>2
<1> QED BY <1>1, <1>5, <1>8, <1>10 DEF AnswerInv, Located

LEMMA RegisterPlaces ==
    ASSUME RequestInv, AnswerInv, NEW t \in Caller, Register(t)
    PROVE  AnswerInv'
<1>1. CASE calls[t].method.table \in Made
  BY <1>1, EntersPlaced
<1>2. CASE calls[t].method.table \notin Made
  BY <1>2, ProcessEndsPlaces DEF Register, clerkVars
<1> QED BY <1>1, <1>2

\* A handler nobody listens to may take another's place in the table, no more.
LEMMA RegisterUnheardPlaces ==
    ASSUME RequestInv, AnswerInv, RegisterUnheard
    PROVE  AnswerInv'
<1>1. PICK r \in late :
         /\ UNCHANGED leaderIdx
         /\ \/ /\ channels' = [channels EXCEPT ![r.node] =
                                  Others(r.node, r.request.method.table, r.index)]
               /\ late' = late \ {r}
               /\ UNCHANGED <<clusterVars, applied, calls>>
            \/ ProcessEnds(r.node)
  BY DEF RegisterUnheard, clerkVars
<1>2. CASE UNCHANGED <<clusterVars, applied, calls>>
           /\ channels' = [channels EXCEPT ![r.node] =
                              Others(r.node, r.request.method.table, r.index)]
           /\ late' = late \ {r}
  <2>1. /\ channels' = [i \in Node |-> channels'[i]]
        /\ \A i \in Node : channels'[i] \subseteq channels[i]
    BY <1>2 DEF Others, AnswerInv, Located
  <2>2. UNCHANGED <<log, leading, elections>>
    BY <1>2 DEF clusterVars
  <2> QED BY <1>1, <1>2, <2>1, <2>2 DEF AnswerInv, Located, AllPlaced, Connected, Channel
<1>3. CASE ProcessEnds(r.node)
  BY <1>1, <1>3, ProcessEndsPlaces
<1> QED BY <1>1, <1>2, <1>3

\* The call is over, or is told that its connection broke; nobody listens any more.
LEMMA DeafCall ==
    ASSUME RequestInv, AnswerInv, NEW t \in Caller, NEW d,
           calls' = [calls EXCEPT ![t] = d], Placed(d, log, leading, elections),
           channels' = Deaf(t, calls[t].node),
           \A r \in late' : r.node \in Node,
           UNCHANGED <<log, leading, elections, applied, leaderIdx>>
    PROVE  AnswerInv'
<1>1. AllPlaced'
  BY SameGoes, OneGoesOn
<1>2. \A i \in Node : \A w \in channels'[i] : w \in channels[i] /\ w.caller # t
  <2>1. PICK j : j = calls[t].node
    OBVIOUS
  <2> QED BY <2>1, DeafToOne DEF AnswerInv
<1>3. Connected'
  BY <1>2, OneStaysConnected DEF AnswerInv
<1>4. channels' = [i \in Node |-> channels'[i]]
  BY DEF Deaf, AnswerInv, Located
<1> QED BY <1>1, <1>3, <1>4 DEF AnswerInv, Located

LEMMA ReturnPlaces ==
    ASSUME RequestInv, AnswerInv, NEW t \in Caller,
           Answer(t) \/ Timeout(t)
    PROVE  AnswerInv'
<1>1. Placed(NoCall, log, leading, elections)
  <2>1. NoCall.at = "idle"
    BY DEF NoCall
  <2> QED BY <2>1, Aside
<1>2. /\ calls' = [calls EXCEPT ![t] = NoCall]
      /\ UNCHANGED <<log, leading, elections, applied, late, leaderIdx>>
  BY DEF Answer, Timeout, Return, clusterVars, clerkVars
<1>3. CASE Answer(t)
  <2>1. /\ leaderIdx' \in Node /\ UNCHANGED channels
        /\ calls[t].at # "waiting" \/ calls[t].ch # 0
    BY <1>2, <1>3 DEF Answer, AnswerInv, Located
  <2> QED BY <1>1, <1>2, <2>1, QuietCall
<1>4. CASE Timeout(t)
  <2>1. channels' = Deaf(t, calls[t].node) /\ \A r \in late' : r.node \in Node
    BY <1>2, <1>4 DEF Timeout, AnswerInv, Located
  <2> QED BY <1>1, <1>2, <2>1, DeafCall
<1> QED BY <1>3, <1>4

LEMMA BreakPlaces ==
    ASSUME RequestInv, AnswerInv, NEW t \in Caller, Break(t)
    PROVE  AnswerInv'
<1> DEFINE d == Failed(calls[t])
<1>1. /\ calls[t].at \in {"sent", "started", "waiting"}
      /\ calls' = [calls EXCEPT ![t] = d]
      /\ channels' = Deaf(t, calls[t].node)
      /\ UNCHANGED <<log, leading, elections, applied, leaderIdx>>
  BY DEF Break, clusterVars, clerkVars
<1>2. Placed(calls[t], log, leading, elections) /\ IsCall(calls[t])
  BY DEF AnswerInv, AllPlaced, RequestInv, Holds, InCalls
<1>3. Placed(d, log, leading, elections)
  BY <1>1, <1>2, FailedPlaced
<1>4. calls[t].node \in Node
  BY <1>1, <1>2 DEF Placed
<1>5. \A r \in late' : r.node \in Node
  <2>1. \A r \in late' : r \in late \/ r.node = calls[t].node
    BY DEF Break
  <2> QED BY <1>4, <2>1 DEF AnswerInv, Located
<1> HIDE DEF d
<1> QED BY <1>1, <1>3, <1>5, DeafCall

\* A request that was given up is taken by a leader, as any other.
LEMMA ArrivePlaces ==
    ASSUME RequestInv, AnswerInv, Arrive
    PROVE  AnswerInv'
<1>1. PICK r \in late :
         /\ Take(r.node, r.request)
         /\ late' = (late \ {r}) \cup {[r EXCEPT !.index = Len(log[r.node]) + 1]}
  BY DEF Arrive
<1>2. r.node \in Node /\ \A n : [r EXCEPT !.index = n].node = r.node
  BY DEF AnswerInv, Located
<1>3. Goes(log, leading, elections, log', leading', elections')
  BY <1>1, <1>2, TakeGoes
<1>4. UNCHANGED <<leading, elections, applied, channels, calls, leaderIdx>>
  BY <1>1 DEF Arrive, Take, clerkVars
<1>5. AllPlaced'
  BY <1>3, <1>4, StaysPlaced DEF AnswerInv, AllPlaced
<1>6. \A n \in late' : n.node \in Node
  BY <1>1, <1>2 DEF AnswerInv, Located
<1> QED BY <1>4, <1>5, <1>6 DEF AnswerInv, Located, Connected, Channel
-----------------------------------------------------------------------------
LEMMA InitPlaced == Init => AnswerInv
<1> SUFFICES ASSUME Init PROVE AnswerInv
  OBVIOUS
<1>1. Size \in Nat \ {0} /\ 0 \in Node
  BY RequestsAssumption DEF Node
<1>2. Located
  BY <1>1 DEF Init, Located
<1>3. NoCall.at = "idle"
  BY DEF NoCall
<1>4. AllPlaced
  BY <1>3, Aside DEF Init, AllPlaced
<1>5. Connected
  BY DEF Init, Connected
<1> QED BY <1>2, <1>4, <1>5 DEF AnswerInv

LEMMA StepPlaced == RequestInv /\ AnswerInv /\ [Next]_vars => AnswerInv'
<1> SUFFICES ASSUME RequestInv, AnswerInv, [Next]_vars PROVE AnswerInv'
  OBVIOUS
<1>1. CASE \E i \in Node : Elect(i) \/ Hear(i) \/ Choose(i) \/ GoDown(i) \/ Apply(i)
  BY <1>1, ElectPlaces, HearPlaces, ChoosePlaces, ProcessEndsPlaces, ApplyPlaces
     DEF GoDown, clerkVars
<1>2. CASE \E t \in Caller : \E m \in Calls[t] : Begin(t, m)
  BY <1>2, BeginPlaces
<1>3. CASE \E t \in Caller : Call(t) \/ OnError(t) \/ OnWrongLeader(t)
  BY <1>3, CallPlaces, LoopPlaces
<1>4. CASE \E t \in Caller : \/ Start(t) \/ Register(t)
                            \/ Answer(t) \/ Timeout(t) \/ Break(t)
  BY <1>4, StartPlaces, RegisterPlaces, ReturnPlaces, BreakPlaces
<1>5. CASE Arrive \/ RegisterUnheard
  BY <1>5, ArrivePlaces, RegisterUnheardPlaces
<1>6. CASE UNCHANGED vars
  BY <1>6 DEF vars, clusterVars, clerkVars, AnswerInv, Located, AllPlaced, Connected, Channel
<1> QED BY <1>1, <1>2, <1>3, <1>4, <1>5, <1>6 DEF Next

\* Start, Register and applyBatch, interleaved with elections, heartbeats and the calls of
\* others: who waits on a node that still leads the term of its request gets the result of
\* that request.
THEOREM AnswersAreOwn == Spec => []AnswerIsOwn
<1>1. AnswerInv => AnswerIsOwn
  BY DEF AnswerInv, AllPlaced, Placed, AnswerIsOwn
<1> QED BY <1>1, InitHolds, StepHolds, InitPlaced, StepPlaced, PTL DEF Spec
=============================================================================
