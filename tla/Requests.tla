------------------------------ MODULE Requests ------------------------------
(***************************************************************************)
(* A request of HM-KV from the clerk's loop to its answer and back: the    *)
(* search for the leader (src/clerk), the RPC methods with their tables of *)
(* waiting callers (src/internal/kv) and the apply loop that answers them  *)
(* by log index.                                                           *)
(*                                                                         *)
(* Below is a cluster that elects, replicates and commits as Raft promises *)
(* (ElectionSafety, LeaderCompleteness, CommittedAgree): a node that leads *)
(* does not know that a newer leader was elected until it hears of it, and *)
(* what it took may be replaced by then.  Who votes is left open: a node    *)
(* that is up and holds what was committed can be elected.                 *)
(***************************************************************************)
EXTENDS Integers, Sequences, FiniteSets

CONSTANTS
    Size,           \* nodes; node i has the id i and is addrs[i] of the clerk
    Caller,         \* goroutines that share one Client
    Calls,          \* the methods of the clerk that each of them calls
    MaxCalls,       \* bound: calls
    MaxFaults       \* bound: elections while a leader is up, RPC errors while the node
                    \* is up, and nodes that go down for good from outside

ASSUME RequestsAssumption ==
    /\ Size \in Nat \ {0}
    /\ IsFiniteSet(Caller)
    /\ {MaxCalls, MaxFaults} \subseteq Nat

VARIABLES
    log,            \* the log of a node, behind rf.log[0]
    leading,        \* the term a node leads as far as it knows, 0 on a follower
    elections,      \* the newest term that has a leader
    nowLeader,      \* rf.nowLeader
    chosen,         \* the entries that are committed
    applied,        \* how many of them a node has applied
    down,
    channels,       \* kv.waitCh and kv.getCh: whose channel is at an index
    late,           \* requests the clerk gave up on before their handler got to its channel
    leaderIdx, knownLeader, requestID,     \* the Client
    calls,          \* a call of each goroutine: the clerk's loop and the RPC it waits for
    begun, faults   \* counters: calls begun, which also number them, and faults

clusterVars == <<log, leading, elections, nowLeader, chosen, down>>
clerkVars   == <<leaderIdx, knownLeader, requestID>>
vars == <<clusterVars, applied, channels, late, clerkVars, calls, begun, faults>>

Node == 0 .. Size - 1
Unknown == -1
-----------------------------------------------------------------------------
(* The RPC methods: where the handler waits, whether WRONG_LEADER names the *)
(* leader, whether a handler that waits ends by itself (time.After), and    *)
(* whether a repeated request is recognised when it is applied.  A Lock is  *)
(* one whose lease the node knows (any other returns, having done nothing). *)

Method(table, hints, ends, dedup) ==
    [table |-> table, hints |-> hints, ends |-> ends, dedup |-> dedup]

Put          == Method("waitCh", TRUE, TRUE, TRUE)
Delete       == Method("waitCh", TRUE, TRUE, TRUE)
Batch        == Method("waitCh", TRUE, TRUE, TRUE)
Compact      == Method("waitCh", TRUE, TRUE, FALSE)
Grant        == Method("waitCh", TRUE, TRUE, FALSE)
KeepAlive    == Method("waitCh", TRUE, TRUE, FALSE)
AddMember    == Method("waitCh", TRUE, TRUE, FALSE)
DeleteMember == Method("waitCh", TRUE, FALSE, FALSE)
Txn          == Method("txnWaitCh", FALSE, TRUE, TRUE)
Unlock       == Method("txnWaitCh", TRUE, TRUE, TRUE)
Lock         == Method("txnWaitCh", TRUE, TRUE, TRUE)
GetByLog     == Method("getCh", TRUE, TRUE, FALSE)

\* The tables of the server that are made; kv.txnWaitCh is declared only, and to write
\* into it ends the process.
Made == {"waitCh", "getCh"}

(* The methods of the clerk: the RPC each calls, and whether it takes a     *)
(* number for the request.                                                  *)

ClerkPut          == [rpc |-> Put, numbered |-> TRUE]
ClerkDelete       == [rpc |-> Delete, numbered |-> TRUE]
ClerkBatch        == [rpc |-> Batch, numbered |-> TRUE]
ClerkCompact      == [rpc |-> Compact, numbered |-> TRUE]
ClerkGrant        == [rpc |-> Grant, numbered |-> FALSE]
ClerkKeepAlive    == [rpc |-> KeepAlive, numbered |-> FALSE]
ClerkAddMember    == [rpc |-> AddMember, numbered |-> FALSE]
ClerkDeleteMember == [rpc |-> DeleteMember, numbered |-> FALSE]
ClerkTxn          == [rpc |-> Txn, numbered |-> TRUE]
ClerkLock         == [rpc |-> Lock, numbered |-> TRUE]
ClerkUnlock       == [rpc |-> Unlock, numbered |-> TRUE]
ClerkGet          == [rpc |-> GetByLog, numbered |-> TRUE]
-----------------------------------------------------------------------------
\* A call of the clerk, and the handler that works for it: .ch holds the result of
\* entry .ch (the number of its call), .late records for the properties that the
\* handler registered after its index had been applied.
NoCall == [at |-> "idle", method |-> Put, id |-> 0, rid |-> 0, node |-> Unknown,
           term |-> 0, index |-> 0, ch |-> 0, leader |-> Unknown, late |-> FALSE]

Init ==
    /\ log = [i \in Node |-> <<>>]
    /\ \E first \in Node : leading = [i \in Node |-> IF i = first THEN 1 ELSE 0]
    /\ elections = 1
    /\ nowLeader = [i \in Node |-> 0]
    /\ chosen = <<>> /\ down = {}
    /\ applied = [i \in Node |-> 0]
    /\ channels = [i \in Node |-> {}]
    /\ late = {}
    /\ leaderIdx = 0 /\ knownLeader = Unknown /\ requestID = 1
    /\ calls = [t \in Caller |-> NoCall]
    /\ begun = 0 /\ faults = 0

\* The round of the loop in which c reached a node is over: it failed, or the next begins.
Round(c, at, node) == [NoCall EXCEPT !.at = at, !.method = c.method, !.id = c.id,
                                     !.rid = c.rid, !.node = node]
Failed(c) == Round(c, "error", c.node)
Again(c) == Round(c, "loop", Unknown)

IsPrefixOf(s, l) == Len(s) <= Len(l) /\ s = SubSeq(l, 1, Len(s))
-----------------------------------------------------------------------------
(* The cluster *)

Fault == faults < MaxFaults /\ faults' = faults + 1

Newest == CHOOSE i \in Node : leading[i] = elections

\* Whoever becomes leader holds what was committed.
Electable(i) == i \notin down /\ IsPrefixOf(chosen, log[i])

Elect(i) ==
    /\ Electable(i)
    /\ \/ Newest \in down /\ UNCHANGED faults
       \/ Newest \notin down /\ Fault
    /\ elections' = elections + 1
    /\ leading' = [leading EXCEPT ![i] = elections + 1]
    /\ UNCHANGED <<log, nowLeader, chosen, down, applied, channels, late, clerkVars,
                   calls, begun>>

\* Heartbeats of the newest leader: node i has its log and knows it.
Hear(i) ==
    /\ i \notin down /\ Newest \notin down /\ i # Newest
    /\ <<log[i], leading[i], nowLeader[i]>> # <<log[Newest], 0, Newest>>
    /\ log' = [log EXCEPT ![i] = log[Newest]]
    /\ leading' = [leading EXCEPT ![i] = 0]
    /\ nowLeader' = [nowLeader EXCEPT ![i] = Newest]
    /\ UNCHANGED <<elections, chosen, down, applied, channels, late, clerkVars,
                   calls, begun, faults>>

\* A leader counts an entry of its own term on a majority.
Choose(i) ==
    /\ i \notin down /\ leading[i] > 0
    /\ \E n \in Len(chosen) + 1 .. Len(log[i]) :
          /\ log[i][n].term = leading[i]
          /\ IsPrefixOf(SubSeq(log[i], 1, n), log[Newest])
          /\ chosen' = SubSeq(log[i], 1, n)
    /\ UNCHANGED <<log, leading, elections, nowLeader, down, applied, channels, late,
                   clerkVars, calls, begun, faults>>

\* The process of node i ends: its memory and its handlers are gone, and their connections
\* broken.
ProcessEnds(i) ==
    /\ down' = down \cup {i}
    /\ nowLeader' = [nowLeader EXCEPT ![i] = 0]
    /\ applied' = [applied EXCEPT ![i] = 0]
    /\ channels' = [channels EXCEPT ![i] = {}]
    /\ late' = {r \in late : r.node # i}
    /\ calls' = [t \in Caller |->
                    IF calls[t].node = i /\ calls[t].at \in {"sent", "started", "waiting"}
                    THEN Failed(calls[t]) ELSE calls[t]]
    /\ UNCHANGED <<log, leading, elections, chosen>>

\* A node stops for good, from outside, while another could be elected.
GoDown(i) ==
    /\ i \notin down /\ Fault
    /\ \E j \in Node \ {i} : Electable(j)
    /\ ProcessEnds(i)
    /\ UNCHANGED <<clerkVars, begun>>
-----------------------------------------------------------------------------
(* The clerk *)

\* nextID is called once, in front of the loop.
Begin(t, m) ==
    /\ calls[t].at = "idle" /\ begun < MaxCalls
    /\ begun' = begun + 1
    /\ requestID' = IF m.numbered THEN requestID + 1 ELSE requestID
    /\ calls' = [calls EXCEPT ![t] =
                    [NoCall EXCEPT !.at = "loop", !.method = m.rpc, !.id = begun + 1,
                                   !.rid = IF m.numbered THEN requestID + 1 ELSE 0]]
    /\ UNCHANGED <<clusterVars, applied, channels, late, leaderIdx, knownLeader, faults>>

\* The number under which a request is sent: the one it was given.
NumberedAgain(c) == IF c.rid = 0 THEN 0 ELSE c.rid + 1 \* mutant
Numbered(c) == c.rid

\* One round of the loop: the RPC goes to the node the Client takes for the leader.
Call(t) ==
    /\ calls[t].at = "loop"
    /\ calls' = [calls EXCEPT ![t] =
                    [Round(@, IF leaderIdx \in down THEN "error" ELSE "sent", leaderIdx)
                     EXCEPT !.rid = Numbered(calls[t])]]
    /\ UNCHANGED <<clusterVars, applied, channels, late, clerkVars, begun, faults>>

\* The node a Client turns to when `current' did not answer it.
NextAfterKnown(current) ==   \* mutant
    IF knownLeader \in Node THEN knownLeader ELSE (current + 1) % Size
NextAfter(current) ==
    IF knownLeader \in Node \ {current} THEN knownLeader ELSE (current + 1) % Size

tryNextLeader(current) ==
    /\ leaderIdx' = IF leaderIdx = current THEN NextAfter(current) ELSE leaderIdx
    /\ UNCHANGED knownLeader

\* Ids beyond the addresses of the Client are not indices.
setLeader(id) ==
    \/ /\ id \in Node
       /\ leaderIdx' = id /\ knownLeader' = id
    \/ /\ id \notin Node
       /\ tryNextLeader(leaderIdx)

\* An RPC error; the loop goes on.
OnError(t) ==
    /\ calls[t].at = "error"
    /\ tryNextLeader(calls[t].node)
    /\ calls' = [calls EXCEPT ![t] = Again(@)]
    /\ UNCHANGED <<clusterVars, applied, channels, late, requestID, begun, faults>>

OnWrongLeader(t) ==
    /\ calls[t].at = "wrongLeader"
    /\ setLeader(calls[t].leader)
    /\ calls' = [calls EXCEPT ![t] = Again(@)]
    /\ UNCHANGED <<clusterVars, applied, channels, late, requestID, begun, faults>>
-----------------------------------------------------------------------------
(* The handlers *)

Request(c) == [id |-> c.id, rid |-> c.rid, method |-> c.method]

\* kv.rf.Start on a leader.
Take(i, r) ==
    /\ log' = [log EXCEPT ![i] = Append(@, [request |-> r, term |-> leading[i]])]
    /\ nowLeader' = [nowLeader EXCEPT ![i] = i]
    /\ UNCHANGED <<leading, elections, chosen, down>>

Start(t) ==
    LET c == calls[t]
        i == c.node
    IN  /\ c.at = "sent"
        /\ \/ /\ leading[i] = 0
              /\ calls' = [calls EXCEPT
                    ![t].at = "wrongLeader",
                    ![t].leader = IF c.method.hints THEN nowLeader[i] ELSE 0]
              /\ UNCHANGED clusterVars
           \/ /\ leading[i] > 0
              /\ Take(i, Request(c))
              /\ calls' = [calls EXCEPT ![t].at = "started", ![t].term = leading[i],
                                        ![t].index = Len(log[i]) + 1]
    /\ UNCHANGED <<applied, channels, late, clerkVars, begun, faults>>

\* Where the handler puts its channel: at the index that Start returned.
SlotAgain(c) == Len(log[c.node])   \* mutant
Slot(c) == c.index

\* The channels of node i but the one in this table at this index.
Others(i, table, index) == {w \in channels[i] : w.table # table \/ w.index # index}

\* The handler enters its channel, after Start has returned, in place of another's, if
\* there is a table to enter it in.
Register(t) ==
    LET c == calls[t]
        i == c.node
        table == c.method.table
    IN  /\ c.at = "started"
        /\ \/ /\ table \in Made
              /\ channels' = [channels EXCEPT ![i] =
                    Others(i, table, Slot(c))
                    \cup {[table |-> table, index |-> Slot(c), caller |-> t]}]
              /\ calls' = [calls EXCEPT ![t].at = "waiting",
                                        ![t].late = applied[i] >= c.index]
              /\ UNCHANGED <<clusterVars, applied, late>>
           \/ table \notin Made /\ ProcessEnds(i)
        /\ UNCHANGED <<clerkVars, begun, faults>>

\* Any answer but WRONG_LEADER ends the call, TIMEOUT too.
Return(t) == calls' = [calls EXCEPT ![t] = NoCall]

\* The channel stays in its table; nobody listens to it any more.
Deaf(t, i) == [channels EXCEPT ![i] = {w \in @ : w.caller # t}]

Answer(t) ==
    /\ calls[t].at = "waiting" /\ calls[t].ch # 0
    /\ Return(t)
    /\ UNCHANGED <<clusterVars, applied, channels, late, clerkVars, begun, faults>>

Timeout(t) ==
    /\ calls[t].at = "waiting" /\ calls[t].method.ends
    /\ Return(t)
    /\ channels' = Deaf(t, calls[t].node)
    /\ UNCHANGED <<clusterVars, applied, late, clerkVars, begun, faults>>

\* The connection breaks: the clerk goes on, and so does the handler, if the request
\* arrives; where it has not got to its channel yet it is one of `late', with index 0 in
\* front of Start.
Break(t) ==
    LET c == calls[t]
        r == [node |-> c.node, request |-> Request(c),
              index |-> IF c.at = "started" THEN c.index ELSE 0]
    IN  /\ Fault /\ c.at \in {"sent", "started", "waiting"}
        /\ calls' = [calls EXCEPT ![t] = Failed(@)]
        /\ channels' = Deaf(t, c.node)
        /\ late' = IF c.at = "waiting" THEN late ELSE late \cup {r}
        /\ UNCHANGED <<clusterVars, applied, clerkVars, begun>>

Arrive ==
    \E r \in late :
        /\ r.index = 0 /\ leading[r.node] > 0
        /\ Take(r.node, r.request)
        /\ late' = (late \ {r}) \cup {[r EXCEPT !.index = Len(log[r.node]) + 1]}
        /\ UNCHANGED <<applied, channels, clerkVars, calls, begun, faults>>

\* A handler nobody listens to enters its channel.
RegisterUnheard ==
    \E r \in late :
        LET table == r.request.method.table
        IN  /\ r.index # 0
            /\ \/ /\ table \in Made
                  /\ channels' = [channels EXCEPT ![r.node] = Others(r.node, table, r.index)]
                  /\ late' = late \ {r}
                  /\ UNCHANGED <<clusterVars, applied, calls>>
               \/ table \notin Made /\ ProcessEnds(r.node)
            /\ UNCHANGED <<clerkVars, begun, faults>>

\* applyBatch: the entry is executed, and whoever waits at its index in the table of
\* its type gets the result.
Apply(i) ==
    LET k == applied[i] + 1
        r == chosen[k].request
        waiters == {w \in channels[i] : w.table = r.method.table /\ w.index = k}
    IN  /\ i \notin down /\ k <= Len(chosen)
        /\ IsPrefixOf(SubSeq(chosen, 1, k), log[i])
        /\ applied' = [applied EXCEPT ![i] = k]
        /\ channels' = [channels EXCEPT ![i] = @ \ waiters]
        /\ calls' = [t \in Caller |->
                        IF \E w \in waiters : w.caller = t
                        THEN [calls[t] EXCEPT !.ch = r.id] ELSE calls[t]]
        /\ UNCHANGED <<clusterVars, late, clerkVars, begun, faults>>
-----------------------------------------------------------------------------
Next ==
    \/ \E i \in Node : Elect(i) \/ Hear(i) \/ Choose(i) \/ GoDown(i) \/ Apply(i)
    \/ \E t \in Caller : \E m \in Calls[t] : Begin(t, m)
    \/ \E t \in Caller : \/ Call(t) \/ OnError(t) \/ OnWrongLeader(t)
                         \/ Start(t) \/ Register(t) \/ Answer(t) \/ Timeout(t)
                         \/ Break(t)
    \/ Arrive \/ RegisterUnheard

Spec == Init /\ [][Next]_vars

\* The goroutine of the clerk, or the handler that works for it, carries on.
CarryOn(t) == \/ Call(t) \/ OnError(t) \/ OnWrongLeader(t)
              \/ Start(t) \/ Register(t) \/ Answer(t) \/ Timeout(t)

\* Heartbeats and apply loops run for ever, a cluster whose leader is down elects
\* another, and goroutines carry on.
FairSpec ==
    /\ Spec
    /\ \A i \in Node : WF_vars(Hear(i)) /\ WF_vars(Choose(i)) /\ WF_vars(Apply(i))
    /\ WF_vars(Newest \in down /\ \E i \in Node : Elect(i))
    /\ \A t \in Caller : WF_vars(CarryOn(t))
-----------------------------------------------------------------------------
(* Properties *)

\* Start, Register and applyBatch: as long as the node leads the term in which it took
\* the request, what comes through the channel is the result of that request, whoever
\* else calls the node meanwhile.  (After another leader's term it may be the result of
\* any entry that took its index.)
AnswerIsOwn ==
    \A t \in Caller :
        LET c == calls[t]
        IN  c.at = "waiting" /\ c.ch # 0 /\ leading[c.node] = c.term
                => c.ch = c.id

\* The entry takes effect: no request of this client with its number or a higher one
\* was executed before it.
TakesEffect(k) ==
    LET r == chosen[k].request
    IN  ~r.method.dedup \/ \A j \in 1 .. k - 1 :
            chosen[j].request.method.dedup => chosen[j].request.rid < r.rid

\* nextID, the clerk's loop and the dedup table together: however often a request is
\* retried after errors and on however many leaders, it takes effect once.
TakesEffectOnce ==
    \A j, k \in 1 .. Len(chosen) :
        LET r == chosen[j].request
        IN  /\ j # k /\ r.method.dedup /\ r.id = chosen[k].request.id
            => ~(TakesEffect(j) /\ TakesEffect(k))

\* A caller of DeleteMember waits for an answer that cannot come: its index was applied
\* before it registered, or was or may be taken by another leader's entry.
WaitsInVain(c) ==
    /\ c.at = "waiting" /\ ~c.method.ends
    /\ c.late \/ leading[c.node] # c.term \/ elections # c.term

\* A transaction keeps asking the node that its last refusal named, node 0, and sends
\* whoever shares the Client there.
AsksZero(c) == c.at # "idle" /\ ~c.method.hints /\ Newest # 0

\* The clerk's loop: as long as some node is up that can be elected, every call finds who
\* leads in the end and returns, after wrong hints, errors and nodes that stay down; only
\* transactions may ask the wrong node for ever, and a removal of a member may wait for
\* ever.  (A transaction ends every leader that takes it, and the clerk takes it to the
\* next, until no node is left.)
CallsReturn ==
    \A t \in Caller :
        []<>(\/ calls[t].at = "idle" \/ WaitsInVain(calls[t])
             \/ \E u \in Caller : AsksZero(calls[u])
             \/ \A i \in Node : ~Electable(i))

\* executeTxn: `submits the Txn to Raft and waits for its result', and so do the other
\* handlers: unless a fault stops it, a handler whose request was taken gets to wait.
HandlersWait ==
    [][\A t \in Caller :
          calls[t].at = "started" /\ calls'[t].at # "started" /\ faults' = faults
              => calls'[t].at = "waiting"]_vars
=============================================================================
