------------------------------ MODULE KvServer ------------------------------
(***************************************************************************)
(* The KV layer of HM-KV (src/internal/kv): nodes that apply one log of    *)
(* commands to their store, lease manager and dedup table.                 *)
(*                                                                         *)
(* Raft appears by what it promises (ReplicatedLog): `log' is the agreed   *)
(* log, which every process is handed from its first entry on, again after *)
(* a restart.  An entry is applied in steps, one per transaction on Badger;*)
(* the process may end between any two, and the compaction in the          *)
(* background may run between any two, as it does not take kv.mu.          *)
(***************************************************************************)
EXTENDS Integers, Sequences, FiniteSets

CONSTANTS
    Node, Client, Key,
    Commands,       \* what clients ask for (see Offered in the MC module)
    Threads,        \* requests a client has open at a time
    MaxRequests,    \* bound: requests of a client
    MaxLog,         \* bound: entries of the log
    MaxRestarts     \* bound: restarts of processes

\* Op and Entry of the wire format, as far as the KV layer looks at them.
WriteCommand ==
    [type : {"Put"}, key : Key, expected : Int, lease : Int, ttl : BOOLEAN]
    \cup [type : {"Delete"}, key : Key]
Condition == [key : Key, type : {"EQUAL", "GREATER", "LESS", "NOT_EQUAL"}, version : Int]
Command ==
    WriteCommand
    \cup [type : {"Batch"}, entries : Seq(WriteCommand)]
    \cup [type : {"Txn"}, compares : SUBSET Condition,
          success : Seq(WriteCommand), failed : Seq(WriteCommand)]
    \cup [type : {"Grant"}] \cup [type : {"KeepAlive"}, key : Key]
    \cup [type : {"Compact"}, revision : Int]

ASSUME KvAssumption ==
    /\ IsFiniteSet(Node) /\ IsFiniteSet(Client) /\ IsFiniteSet(Key)
    /\ Commands \subseteq Command
    /\ {MaxRequests, MaxLog, MaxRestarts} \subseteq Nat
    /\ Threads \in Nat \ {0}

VARIABLES
    log,            \* what Raft commits, in order
    sent,           \* commands handed to Raft, committed any number of times or never
    requestID,      \* c.requestID: the last request of each client
    open,           \* requests whose caller still waits
    store,          \* kv.mvcc with Badger below it
    lm,             \* kv.leaseMgr
    dedup,          \* kv.lastRequest, kv.lastResult, kv.lastTxnResult, and their copy in Badger
    lastApplied,    \* kv.lastApplied
    doing,          \* the steps left of the entry being applied
    res,            \* the local result of the handler
    restarts,       \* counter for MaxRestarts
    \* History: writes ever made to a store, answers given, processes that once ended
    \* inside an entry, processes that ended at all
    written, acked, torn, restarted

clientVars == <<sent, requestID, open>>
nodeVars   == <<store, lm, dedup, lastApplied, doing, res>>
history    == <<written, acked, torn, restarted>>
vars == <<log, clientVars, nodeVars, restarts, history>>

M == INSTANCE Mvcc
L == INSTANCE Lease
-----------------------------------------------------------------------------
NoResult == [ok |-> FALSE, version |-> 0]
NoRequest == [request |-> 0, result |-> NoResult, txnResult |-> NoResult]

Init ==
    /\ log = <<>> /\ sent = {}
    /\ requestID = [c \in Client |-> 0]
    /\ open = [c \in Client |-> {}]
    /\ store = [i \in Node |-> M!NewStore]
    /\ lm = [i \in Node |-> L!NewLeaseManager]
    /\ dedup = [i \in Node |-> [c \in Client |-> NoRequest]]
    /\ lastApplied = [i \in Node |-> 0]
    /\ doing = [i \in Node |-> <<>>]
    /\ res = [i \in Node |-> NoResult]
    /\ restarts = 0
    /\ written = [i \in Node |-> {}]
    /\ acked = {} /\ torn = {} /\ restarted = {}
-----------------------------------------------------------------------------
(* Clients and Raft *)

\* A method of the clerk: a fresh request number; callers beyond Threads gave up.
Request(c, command) ==
    /\ requestID[c] < MaxRequests
    /\ requestID' = [requestID EXCEPT ![c] = @ + 1]
    /\ sent' = sent \cup {[client |-> c, request |-> requestID[c] + 1, command |-> command]}
    /\ \E waiting \in SUBSET open[c] :
          /\ Cardinality(waiting) < Threads
          /\ open' = [open EXCEPT ![c] = waiting \cup {requestID[c] + 1}]
    /\ UNCHANGED <<log, nodeVars, restarts, history>>

\* leaseExpireWorker of a leader; every node may be the leader at some time.  These
\* commands carry neither a client nor a request.
ProposeExpire(i) ==
    /\ \E k \in L!ExpiredKeys(lm[i]) :
          sent' = sent \cup {[command |-> [type |-> "Expire", key |-> k]]}
    /\ UNCHANGED <<log, requestID, open, nodeVars, restarts, history>>

\* Raft commits a command: the first time, after a retry of the clerk, or late.
Commit(op) ==
    /\ Len(log) < MaxLog
    /\ log' = Append(log, op)
    /\ UNCHANGED <<clientVars, nodeVars, restarts, history>>
-----------------------------------------------------------------------------
(* Applying an entry: kv_apply.go, kv_handle.go *)

\* Compare: a condition of a transaction.
Compare(s, c) ==
    LET revision == s.latest[c.key]
    IN  \/ c.type = "EQUAL" /\ revision = c.version
        \/ c.type = "GREATER" /\ revision > c.version
        \/ c.type = "LESS" /\ revision < c.version
        \/ c.type = "NOT_EQUAL" /\ revision # c.version

CompareAll(s, compares) == \A c \in compares : Compare(s, c)

\* A write of putInternal or deleteInternal, the n-th of its request.
WriteStep(op, n, e) == [type |-> "write", writer |-> <<op.client, op.request, n>>, put |-> e]

\* What a handler does after its write: it notes the request and its result.
NoteStep(op, request, how) ==
    [type |-> "note", client |-> op.client, request |-> request, how |-> how]

\* HandlePut, HandleDelete.
PutSteps(op) == <<WriteStep(op, 1, op.command), NoteStep(op, op.request, "write")>>

\* HandleBatch runs them under request numbers of their own and goes back to its own in
\* the end.
BatchSteps(op) ==
    LET entries == op.command.entries
    IN  [n \in 1 .. 2 * Len(entries) |->
            IF n % 2 = 1
            THEN WriteStep(op, (n + 1) \div 2, entries[(n + 1) \div 2])
            ELSE NoteStep(op, op.request + (n \div 2), "write")]
        \o <<NoteStep(op, op.request, "batch")>>

executeEntries(op, entries) == [n \in 1 .. Len(entries) |-> WriteStep(op, n, entries[n])]

\* HandleTxn
TxnSteps(s, op) ==
    LET success == CompareAll(s, op.command.compares)
    IN  executeEntries(op, IF success THEN op.command.success ELSE op.command.failed)
        \o <<NoteStep(op, op.request, IF success THEN "succeeded" ELSE "failed")>>

Steps(s, op) ==
    CASE op.command.type \in {"Put", "Delete"} -> PutSteps(op)
      [] op.command.type = "Batch"             -> BatchSteps(op)
      [] op.command.type = "Txn"               -> TxnSteps(s, op)

\* The dedup check of the handlers.
IsDuplicateNever(last, op) == FALSE   \* mutant
IsDuplicateTooFar(last, op) == op.request <= last.request + 1   \* mutant
IsDuplicate(last, op) == op.request <= last.request

Answer(i, c, request) ==
    IF request \in open[c]
    THEN acked \cup {[node |-> i, client |-> c, request |-> request]}
    ELSE acked

\* A write to the store of a node, remembered in the history.
MakeWrite(i, key, writer, deleted) ==
    /\ store' = [store EXCEPT ![i] = M!Written(@, key, writer, deleted)]
    /\ written' = [written EXCEPT ![i] = @ \cup (store'[i].disk \ store[i].disk)]

\* The commands that no handler checks for duplicates.
HandleGrant(i) ==
    /\ lm' = [lm EXCEPT ![i] = L!Granted(@)]
    /\ UNCHANGED <<store, written>>

HandleKeepAlive(i, key) ==
    /\ lm' = [lm EXCEPT ![i] = L!KeptAlive(@, key)]
    /\ UNCHANGED <<store, written>>

expireByKey(i, key) ==
    /\ MakeWrite(i, key, <<>>, TRUE)
    /\ lm' = [lm EXCEPT ![i] = L!Removed(@, @.keyToLease[key])]

HandleCompact(i, revision) ==
    /\ store' = [store EXCEPT ![i] = M!Compacted(@, revision)]
    /\ UNCHANGED <<lm, written>>

ApplyUnchecked(i, cmd) ==
    \/ cmd.type = "Grant"     /\ HandleGrant(i)
    \/ cmd.type = "KeepAlive" /\ HandleKeepAlive(i, cmd.key)
    \/ cmd.type = "Expire"    /\ expireByKey(i, cmd.key)
    \/ cmd.type = "Compact"   /\ HandleCompact(i, cmd.revision)

\* applyBatch takes the next message: lastApplied moves before anything is done.
Begin(i) ==
    LET op == log[lastApplied[i] + 1]
        checked == op.command.type \in {"Put", "Delete", "Batch", "Txn"}
        last == dedup[i][op.client]
    IN  /\ doing[i] = <<>> /\ lastApplied[i] < Len(log)
        /\ lastApplied' = [lastApplied EXCEPT ![i] = @ + 1]
        /\ \/ /\ checked /\ IsDuplicate(last, op)
              /\ acked' = Answer(i, op.client, op.request)
              /\ UNCHANGED <<store, lm, doing, written>>
           \/ /\ checked /\ ~IsDuplicate(last, op)
              /\ doing' = [doing EXCEPT ![i] = Steps(store[i], op)]
              /\ UNCHANGED <<store, lm, acked, written>>
           \/ /\ ~checked
              /\ ApplyUnchecked(i, op.command)
              /\ UNCHANGED <<doing, acked>>
        /\ UNCHANGED <<log, clientVars, dedup, res, restarts, torn, restarted>>

\* A conflict of versions, or the write and the lease of a put.
putInternal(i, e, writer) ==
    \/ /\ M!CasConflict(store[i], e.key, e.expected)
       /\ res' = [res EXCEPT ![i] = [ok |-> FALSE, version |-> store[i].latest[e.key]]]
       /\ UNCHANGED <<store, lm, written>>
    \/ /\ ~M!CasConflict(store[i], e.key, e.expected)
       /\ MakeWrite(i, e.key, writer, FALSE)
       /\ res' = [res EXCEPT ![i] = [ok |-> TRUE, version |-> store'[i].currentRev]]
       /\ lm' = [lm EXCEPT ![i] =
             CASE e.lease # 0 -> L!Attached(@, e.key, e.lease)
               [] e.lease = 0 /\ e.ttl -> L!Attached(L!Granted(@), e.key, lm[i].nextLeaseID)
               [] OTHER -> @]

deleteInternal(i, e, writer) ==
    /\ MakeWrite(i, e.key, writer, TRUE)
    /\ res' = [res EXCEPT ![i] = [ok |-> TRUE, version |-> store'[i].currentRev]]
    /\ UNCHANGED lm

Write(i) ==
    LET step == Head(doing[i])
    IN  /\ doing[i] # <<>> /\ step.type = "write"
        /\ doing' = [doing EXCEPT ![i] = Tail(@)]
        /\ \/ step.put.type = "Put" /\ putInternal(i, step.put, step.writer)
           \/ step.put.type = "Delete" /\ deleteInternal(i, step.put, step.writer)
        /\ UNCHANGED <<log, clientVars, dedup, lastApplied, restarts, acked, torn, restarted>>

\* The request and its result go into the dedup table and, with it, to Badger.  The
\* caller is answered with the last of an entry.
Note(i) ==
    LET step == Head(doing[i])
        rev == store[i].currentRev
        ofTxn == step.how \in {"succeeded", "failed"}
        result == CASE step.how = "write" -> res[i]
                    [] step.how \in {"batch", "succeeded"} -> [ok |-> TRUE, version |-> rev]
                    [] step.how = "failed" -> [ok |-> FALSE, version |-> rev]
    IN  /\ doing[i] # <<>> /\ step.type = "note"
        /\ doing' = [doing EXCEPT ![i] = Tail(@)]
        /\ dedup' = [dedup EXCEPT ![i][step.client] =
              [request   |-> step.request,
               result    |-> IF ofTxn THEN @.result ELSE result,
               txnResult |-> IF ofTxn THEN result ELSE @.txnResult]]
        /\ res' = [res EXCEPT ![i] = NoResult]
        /\ acked' = IF Len(doing[i]) = 1 THEN Answer(i, step.client, step.request) ELSE acked
        /\ UNCHANGED <<log, clientVars, store, lm, lastApplied, restarts, written, torn,
                       restarted>>
-----------------------------------------------------------------------------
(* Beside the apply loop *)

\* StartCompact: the store compacts itself up to its current revision.
BackgroundCompact(i) ==
    /\ store' = [store EXCEPT ![i] = M!Compacted(@, @.currentRev)]
    /\ UNCHANGED <<log, clientVars, lm, dedup, lastApplied, doing, res, restarts, history>>

\* Time passes on node i.
Elapse(i) ==
    /\ \E l \in lm[i].leases : lm' = [lm EXCEPT ![i] = L!Elapsed(@, l.id)]
    /\ UNCHANGED <<log, clientVars, store, dedup, lastApplied, doing, res, restarts, history>>

\* The process ends and MakeKVServer runs: Badger keeps the store and the dedup
\* table, leases are forgotten, and Raft hands the log out from its first entry.
Restart(i) ==
    /\ restarts < MaxRestarts
    /\ restarts' = restarts + 1
    /\ store' = [store EXCEPT ![i] = M!Recovered(@.disk)]
    /\ lm' = [lm EXCEPT ![i] = L!NewLeaseManager]
    /\ lastApplied' = [lastApplied EXCEPT ![i] = 0]
    /\ doing' = [doing EXCEPT ![i] = <<>>]
    /\ res' = [res EXCEPT ![i] = NoResult]
    /\ torn' = IF doing[i] = <<>> THEN torn ELSE torn \cup {i}
    /\ restarted' = restarted \cup {i}
    /\ UNCHANGED <<log, clientVars, dedup, written, acked>>

Next ==
    \/ \E c \in Client, command \in Commands : Request(c, command)
    \/ \E op \in sent : Commit(op)
    \/ \E i \in Node : \/ ProposeExpire(i) \/ Begin(i) \/ Write(i) \/ Note(i)
                      \/ BackgroundCompact(i) \/ Elapse(i) \/ Restart(i)

Spec == Init /\ [][Next]_vars
-----------------------------------------------------------------------------
(* Properties *)

Result == [ok : BOOLEAN, version : Nat]
Version ==
    [key : Key, version : Nat \ {0}, writer : {<<>>} \cup (Client \X Nat \X Nat),
     deleted : BOOLEAN]
Store ==
    [currentRev : Nat, latest : [Key -> Nat], history : [Key -> Seq(Nat)],
     revisions : Seq([key : Key, revision : Nat]), compactrev : Int, disk : SUBSET Version]
LeaseManager ==
    [leases : SUBSET [id : Nat \ {0}, keys : SUBSET Key, due : BOOLEAN],
     keyToLease : [Key -> Nat], nextLeaseID : Nat \ {0}]
Dedup == [request : Nat, result : Result, txnResult : Result]

\* The variables have their types; a node is inside the log, and ends an entry of
\* several steps with a note in the dedup table.
TypeOK ==
    /\ requestID \in [Client -> Nat] /\ open \in [Client -> SUBSET Nat]
    /\ store \in [Node -> Store]
    /\ lm \in [Node -> LeaseManager]
    /\ dedup \in [Node -> [Client -> Dedup]]
    /\ res \in [Node -> Result]
    /\ \A i \in Node :
          /\ lastApplied[i] \in 0 .. Len(log)
          /\ doing[i] # <<>> => doing[i][Len(doing[i])].type = "note"
    /\ restarts \in Nat
    /\ written \in [Node -> SUBSET Version]
    /\ acked \subseteq [node : Node, client : Client, request : Nat]
    /\ torn \subseteq restarted /\ restarted \subseteq Node

\* Recover and PutWithCAS: a revision is never given to two writes, not even over
\* restarts and compactions, so a CAS on a version cannot hit another value.
RevisionsUnique ==
    \A i \in Node : \A a, b \in written[i] : a.version = b.version => a = b

\* Put, Compact and Recover: what the indexes name is on the disk and nothing else
\* is, in ascending order, which findLE takes for granted.
IndexMatchesDisk ==
    \A i \in Node, k \in Key :
        LET h == store[i].history[k]
        IN  /\ M!Elements(h) = {d.version : d \in {e \in store[i].disk : e.key = k}}
            /\ \A m, n \in 1 .. Len(h) : m < n => h[m] < h[n]

\* applyBatch: processes that never ended hold the same latest versions, leases and
\* results after the same entries, whenever each of them compacted its store.
ReplicasAgree ==
    \A i, j \in Node \ restarted :
        lastApplied[i] = lastApplied[j] /\ doing[i] = <<>> /\ doing[j] = <<>> =>
            /\ \A k \in Key : /\ store[i].latest[k] = store[j].latest[k]
                              /\ M!Get(store[i], k, 0) = M!Get(store[j], k, 0)
            /\ store[i].currentRev = store[j].currentRev
            /\ dedup[i] = dedup[j]
            /\ lm[i].keyToLease = lm[j].keyToLease

\* The dedup table: however often a request is committed and the log is handed out
\* again, each of its writes is made once (by a process that never ended inside an entry).
AppliedOnce ==
    \A i \in Node \ torn : \A a, b \in written[i] :
        a.writer = b.writer /\ a.writer # <<>> => a.version = b.version

\* The dedup table: a put or delete is answered by a node that made the write (or
\* refused it), not by the result of another request of the client.
AnsweredWasHandled ==
    \A a \in acked : a.node \notin torn =>
        \A op \in sent :
            /\ "client" \in DOMAIN op /\ op.client = a.client /\ op.request = a.request
            /\ op.command.type \in {"Put", "Delete"}
            /\ op.command.type = "Put" => op.command.expected = 0
            => \E w \in written[a.node] : w.writer = <<a.client, a.request, 1>>

\* KeepAliveByKey follows keyToLease without a check: the lease is always there.
NoDanglingLease ==
    \A i \in Node, k \in Key :
        lm[i].keyToLease[k] # 0 =>
            \E l \in lm[i].leases : l.id = lm[i].keyToLease[k] /\ k \in l.keys

\* Compact: a read at a version not before the compaction, or of the latest version
\* (unless Recover has set latest to a superseded one), finds what it found before.
CompactKeepsReads ==
    [][\A i \in Node, k \in Key :
          restarts' = restarts /\ store'[i].currentRev = store[i].currentRev =>
              \A v \in 0 .. store[i].currentRev :
                  (IF v = 0 THEN i \notin restarted ELSE v >= store'[i].compactrev) =>
                      M!Get(store'[i], k, v) = M!Get(store[i], k, v)]_vars

\* Recover, Compact and PrefixScan: the index and the scan of the disk find the same
\* value of a key, unless Recover met a tombstone as its newest version: then it takes
\* the version before, and a deleted key is back for Get.
ScanFindsLatest ==
    \A i \in Node, k \in Key :
        LET s == store[i]
            versions == {d \in s.disk : d.key = k}
            tombstone == \E d \in versions : /\ d.deleted
                                             /\ \A e \in versions : e.version <= d.version
        IN  (i \in restarted /\ tombstone) \/ M!PrefixScan(s, {k}) = M!Get(s, k, 0)
=============================================================================
