# A verification of HM-KV

HM-KV is a replicated key-value store in the manner of etcd: a Raft implementation, a versioned
store on Badger, leases, watches, locks, and a client library. This directory holds TLA+
specifications of it, the configurations with which TLC checks them, and proofs that TLAPS checks.
Paths are relative to `src/`; `raft/` stands for `internal/raft/`, and so on.

| Module | What it is |
|---|---|
| `Raft` | election, replication, snapshots, apply loop and restart of `raft/` |
| `ReplicatedLog` | what the KV layer relies on when it reads `applyCh` (abstract) |
| `Reads` | `ReadIndex` and `Get`, on top of all of `Raft` |
| `Membership` | election and replication while members change, each node with its own `rf.peers` |
| `Mvcc`, `Lease`, `WatchManager` | the methods of `mvcc/`, `lease/`, `watch/` as functions from state to state |
| `KvServer` | nodes that apply one log: `kv/kv_apply.go`, `kv_handle.go`, `kv_dedup.go` |
| `Requests` | the clerk's loop, the RPC methods and their tables of waiting callers |
| `Watch` | the streams of `kv_watch.go`, notification, and the clerk that resumes |
| `MCRaft`, `MCReads`, ... | instances for TLC: inputs, later starts, fairness, views, symmetry |
| `RaftProofs` | type correctness of `Raft`, one vote per term, one leader per term; an entry's index and term say what every log holds up to there |
| `CommitProofs` | the commit rule: what is committed stays, `Raft` implements `ReplicatedLog` |
| `ReadsProofs` | what a read by `ReadIndex` sees |
| `MembershipProofs` | one leader for a term and a list of peers; what a leader has booked is held |
| `MvccProofs` | what the methods of the store do, among them the binary search of `findLE` |
| `KvProofs` | the store, the leases, the dedup table and the answers of `KvServer` |
| `RequestsProofs` | a retried request takes effect once, an answer is the caller's own |
| `WatchProofs` | order and completeness of the streams |

## The system

| Part | State | Operations | Talks to |
|---|---|---|---|
| Election (`raft/raft_vote.go`) | `term vote states`, `votes` of a running election | `startElection` and one goroutine per peer, `RequestVote`, `ticker` | peers by gRPC |
| Replication (`raft/raft_heartbeat.go`, `raft.go`) | `log nextIndex matchIndex commitIndex` | `Start`, `broadcastAppendEntries` and one goroutine per peer, `AppendEntries` | peers by gRPC |
| Snapshots (`raft/raft_snapshot.go`, `kv/snapshot.go`) | `lastSnapIndex lastSnapTerm snap`, a file | `Snapshot`, `sendInstallSnapshotTo`, `InstallSnapshot`, `snapshotWorker` | store, peers, WAL |
| Apply loop (`raft/raft_apply.go`) | `lastApply` | `ApplyLoop` | `applyCh` of the KV layer |
| WAL (`wal/`, `raft/raft_wal.go`) | a file of records | `Write LoadAll Truncate`, `LoadFromWAL` | Raft |
| ReadIndex (`raft/raft.go`, `raft_heartbeat.go`) | `readIndexReqs` | `ReadIndex`, counting of heartbeat answers | `kv_get.go` |
| Membership (`raft/raft_memberchange.go`) | `peers clients me peerGen` | `HandleConfigChange` | apply loop of the KV layer |
| Store (`mvcc/`) | `currentRev latest history revisions compactrev`, Badger | `Put PutWithCAS Delete Get Compact StartCompact Recover PrefixScan Serialize` | Badger |
| Leases (`lease/`) | `leases keyToLease nextLeaseID` | `Grant Attach RemoveLease KeepAliveByKey ExpiredLeases` | apply loop, `leaseExpireWorker` |
| KV layer (`kv/`) | `lastApplied`, dedup table (also in Badger), tables of waiting callers | `applyBatch` and the handlers, RPC methods | all of the above |
| Watch (`watch/`, `kv/kv_watch.go`) | watchers, exact and by prefix, with bounded channels | `Register Notify RemoveWatch MoveToSynced` | apply loop, streams |
| Locks, transactions (`lock/`, `txn/`, `kv/kv_lock.go`, `kv_txn.go`) | none of their own | lock = transaction with a lease, then wait for the predecessor's delete; the handlers end the process (see *Requests*) | store, watch |
| Clerk (`clerk/`) | `leaderIdx knownLeader requestID` | retries, search for the leader, reconnecting watch | RPC methods |

What is hard here: votes, appends, snapshots, timeouts and the goroutines that carry on with replies
interleave under one mutex that every goroutine drops during its call; messages are lost, late and
overtake each other; processes restart; the members change while elections run; the apply loop, the
compaction ticker, the lease ticker and the watchers run beside each other; a client repeats requests
that may have been committed already, and a handler meets its answer under an index that another
leader may have given away. `PROJECT.json` lists each hazard at its line, with the properties aimed
at it.

What makes each part correct: a term has one leader and one vote per node; logs match; what is
committed stays and is the same everywhere; followers catch up; the store is handed the log without
gaps (Raft). A read sees what anybody was told before it (ReadIndex). Revisions are unique, the
indexes describe the disk, compaction does not change what reads find (store). Nodes that applied the
same entries agree, a request takes effect once and its caller gets its own answer and returns (KV
layer, clerk). The two maps of the leases fit. A watcher gets each event once and in order, or learns
that it lost one (watch).

The layers are put together by what they promise each other. `Raft` is checked against
`ReplicatedLog`, and `KvServer` and `Watch` start from its promise, a log that grows and of
which each node applies a prefix. `Requests` starts from what the runs of `Raft` show: one leader per
term, leaders hold what is committed. `Reads` needs more of Raft than that and extends all of it.
`KvServer` and `Watch` share `Mvcc`.

## Raft

Variables carry the names of the fields of `Raft`. `log[i]` starts with the dummy entry of
`rf.log[0]`, so position `p` holds index `lastSnapIndex[i] + p - 1` and every index expression of the
code is written out. Each handler holds `rf.mu` from its first line to its last and is one action.
What runs in several critical sections is several actions:

| Code | Action |
|---|---|
| `startElection` up to the requests; its late tally; a reply goroutine | `StartElection`, `Tally`, `VoteReply` |
| `RequestVote` | `RequestVote` |
| `broadcastAppendEntries`: the check; a peer's goroutine before and after its call | `Broadcast`, `SendAppend`, `AppendReply` |
| `AppendEntries` with the conflict scan, the merge, the cut and the commit | `AppendEntries` (`Follow`, `Merged`, `SameTerm`) |
| `Snapshot`; `sendInstallSnapshotTo` before and after its call; `InstallSnapshot` | `Snapshot`, `SendAppend` and `InstallReply`, `InstallSnapshot` |
| one round of `ApplyLoop`; `MakeRaft` after the process ended | `Apply`, `Restart` |

*Network.* A request is a record in `messages`; its handler replaces it by the reply, which carries
the arguments the caller still reads. A lost message is one that is never handled, and a full network
(`MaxMessages`) may drop any. Nothing is duplicated: gRPC calls are unary and not repeated, a repeated
heartbeat is a new call. Replies to a process that ended are dropped (`WithoutCaller`).

*Crashes.* An index outside `rf.log` panics in Go and ends the process (`down`). `Restart` may happen
at any time and leaves what `MakeRaft` leaves: nothing, because the assignments after `LoadFromWAL`
overwrite what it read. So no behaviour of the running system depends on what is in the WAL, and the
WAL has no variable.

*Abstractions.* Timers may fire at any time; `nowLeader` (see `Requests`), `lastHeartbeat` and
`peerGen` (see `Membership`) are left out. `snapshotWorker` looks at `GetState`, serializes and calls
`Snapshot`; one action, since no step in between changes what is cut except by appending more of the
same. The size threshold is "at any time". The data of a snapshot is the sequence of entries its store
was given. `GetState` and `LogSize` only read.

Two flags choose among interleavings the code permits, as each of the rarer ones breaks a property
that is worth checking for the rest:

- `SlowTicker`: vote replies may be handled before the ticker goroutine reaches the unlocked tally at
  `raft_vote.go:99`, and a ticker may start an election in a node that won in between.
- `SlowSender`: a node may change its state between the leader check of `broadcastAppendEntries` and
  the per-peer goroutines, which then send under another term.

With `SlowTicker` a node can take the leadership of a term it never stood for; with `SlowSender` a
deposed node can speak as the leader of its successor's term. What is said below holds where the flags
of its run allow; `raft_single` has slow tickers, `raft_snapshot` slow senders.

Calls of one leader overtake each other at will: `Start` and the ticker run `broadcastAppendEntries` in
goroutines of their own, and HTTP/2 keeps the order of bytes on a connection but each gRPC handler is a
goroutine as well. Because `AppendEntries` cuts the log behind the last entry of every call with
entries, a shorter call that is handled after a longer one takes back what the follower acknowledged,
and committed entries with it. What comes after such a step is open, so the properties of commits say
where it happens: `overtaken` holds the calls under way when a longer one of the same leader, term and
receiver was accepted, and `late` the first of these that brings entries and is accepted all the same.
`CommittedAgree`, `LeaderCompleteness` and `MatchedIsHeld` are claimed while `late` is empty, and
`CommittedStay` and `ImplementsReplicatedLog` of the steps up to it. Heartbeats without entries may be
as late as they like. So may calls of leaders that were replaced. Nothing in the model keeps a late
call back; without `late' = {}`, `CommittedStay` fails in `raft_repair`.

*Histories.* `cast`, `elected`, `committed` and `applied` record votes, elections, entries ever
covered by a `commitIndex`, and what went into `applyCh`, `overtaken` and `late` calls out of order; no
guard reads them (a snapshot copies `applied`).

`ReplicatedLog` is what the KV layer takes for granted: one growing sequence of commands, each store
handed a prefix. `Raft!ImplementsReplicatedLog` maps `chosen` to the commands ever committed and
`delivered` to what was applied.

## Reads

`Reads` extends `Raft` by `reads`, the calls of `Get` with their entry in `rf.readIndexReqs`, and
splits the apply loop of the KV layer in two: `TakeEntry` moves `lastApplied` (`kv_apply.go:59`,
outside `kv.mu`), `HandleEntry` runs the handler. `ReadIndex` takes the `commitIndex` and a counter of
1; every `AppendReply` that agrees counts for every waiting read (`Acked`); `GiveUp` is the timeout,
after which `Get` goes through the log; `Get` reads the store once `lastApplied` has reached the index.
`Told` is what anybody was told of: a request is answered when its handler has run, and a finished
read told what it saw.

`ReadIndex`'s comment promises that the node still leads. What that is good for is
`ReadsSeeWhatWasTold`: the read sees whatever anybody was told of before it began. Beside calls
that are `late`, the statement leaves out two things the code gets wrong elsewhere, and is violated
without either: `own`, since
`ReadIndex` does not ask for a committed entry of the leader's own term, so that a new leader may
answer from before what its predecessor told; and `busy`, since `lastApplied` moves before the handler
runs, so that the one entry that is being handled may be missing.

Even so the code violates it (`reads`): every successful answer of the term counts, also one a
follower gave before the read began and before it voted for somebody else. In a cluster of five the
answers need not even be old: `req.counter` counts answers and not peers, and two answers of the one
follower that a majority left behind with the old leader make three. `ConfirmedReadsAreFresh` is what
remains, and it is proved: if a majority, the leader included, answered after the read began (`fresh`),
the read is fresh. `fresh` is a history: the peers whose answer counted and was not under way when the
read began (`old`).

`handled` moves one entry at a time; reads of a process that ends are left out. A prefix read
(`kv_get.go:17`, `kv_prefix.go`) asks neither for leadership nor for an index and promises nothing.

## Membership

Every node has `peers`, `me` and `peerGen`, and changes them in `Apply` (`HandleConfigChange`,
`handleAdd`, `handleDelete`). `vote`, `nextIndex`, `matchIndex` and the candidate of a vote request
are positions in a list of peers, each node's own; positions start with 1, and 0 stands for the -1 of
`rf.vote` and of `rf.me` on a node that was removed. Elections and heartbeats are those of `Raft`
with these positions: heartbeats carry position and `gen` of their call (`call`), and replies
are booked only while `SamePeer` holds. `VoteReply` does not look at it, as in the code.
`BroadcastAlone` is the leader whose only peer is itself, or somebody else.

Left out: snapshots except the empty one (`InstallSnapshot` as it is sent by a leader whose `nextIndex`
of a peer is 0), restarts, slow goroutines, and the connections (`clients`), which change together
with `peers`. `HandleConfigChange` returns errors that the KV layer discards; they are no-ops here.

`OneLeaderPerPeers` compares elections that began and ended under one list, of candidates that know
their position in it. Both parts are needed: with different lists a term can have two leaders after a
single removal, and a node that was removed and added again keeps `rf.me = -1`, asks itself for a
vote, and wins with two votes of its own. `MatchedIsHeld` in turn asks for one leader in every term so
far: two leaders of an earlier term leave different entries under one index and term, which a later
leader takes for the same; and, as in `Raft`, that no call with entries was `late`.

## The KV layer

`Mvcc` and `Lease` have no variables: a store and a lease manager are records and each method is an
operator from one to the next, since each holds its mutex throughout. Badger is the set `disk` of
versions; it alone survives a restart. A value is named after the request that wrote it, so that the
same write made twice can be told from two writes. `findLE` is the binary search of the code, and
`PrefixScan` reads the disk and not the index. Lease time is one bit, `due`: `ExpiresAt` has passed on
this node.

`KvServer` has one agreed `log` (the promise of `ReplicatedLog`); what clients and lease workers send
is committed any number of times or never (`Commit`): lost requests, retries and late duplicates.
`Begin` takes the next entry, moves `lastApplied` and runs the dedup check; what the entry then does
is a list of steps, one per Badger transaction: `PutSteps`, `BatchSteps` and `TxnSteps` lay out a
`Write` for each `putInternal` or `deleteInternal` and a `Note` for each `persistDedup`. Between any
two steps the process may end (`Restart`: `MakeKVServer` with `Recover` and `loadDedup`; leases are in
memory only; the log comes again from its first entry), the store may compact itself
(`BackgroundCompact`) and time may pass (`Elapse`). `ProposeExpire` is `leaseExpireWorker` on any
node, since every node may lead at some time. Grant, KeepAlive, Expire and Compact write at most one
Badger transaction and are done in `Begin` (`HandleGrant`, `HandleKeepAlive`, `expireByKey`,
`HandleCompact`).

A caller is answered (`acked`) by any node that applies the entry while the client still waits;
`Threads` is the number of requests a client has open. Where each answer goes is the business of
`Requests`, the notification of watchers that of `Watch`, CONFIG_CHANGE that of `Membership`. Left out: `Deserialize` (the apply loop of Raft never sends a message with
`SnapshotValid`), the batching of the applier (it only delays), disk errors. The model starts the
clerk's counter at 0 and the code at 1; only the order of the numbers is used.

The properties: `RevisionsUnique`: no revision goes to two writes, over compactions and restarts.
`IndexMatchesDisk`: `history` is the ascending list of versions on the disk. `ReplicasAgree`: nodes
that never restarted agree after the same entries, whenever each compacted. `AppliedOnce`: a write of
a request is made once per node. `AnsweredWasHandled`: an answered put or delete was made (with two
open requests of a client it is violated). `NoDanglingLease`: `keyToLease` names leases that are there
and list the key. `CompactKeepsReads`: compaction does not change reads at or after its revision.
`ScanFindsLatest`: index and scan of the disk agree. The exceptions in them are the code's: a node that ended inside an entry
(`torn`) may make a write again, since the store and the dedup table are two transactions; a restarted
node may disagree, since `Recover` passes over tombstones. None of them speaks of when a key ends with its
lease, because the code keeps no such promise (see *Disagreements*).

## Requests

`Requests` follows a request from the clerk's loop to its answer. The cluster below is what Raft
promises: `Elect` (a node that holds what is committed), `Hear` (a heartbeat brings a node the log and
the name of the newest leader), `Choose` (a leader counts an entry of its term on a majority), and a
leader that was replaced goes on taking requests until it hears of it. An RPC method is described by
its table (`waitCh`, `getCh`, `txnWaitCh`), whether WRONG_LEADER names the leader, whether it times
out, and whether the handler checks for duplicates (a Lock is one whose lease the node knows, since any
other returns at once); a method of the clerk by its RPC and whether it
takes a request number.

| Code | Action |
|---|---|
| `nextID` and the entry of a method of the clerk; a round of its loop | `Begin`; `Call` |
| `tryNextLeader` after an error, `setLeader` after WRONG_LEADER | `OnError`, `OnWrongLeader` |
| `kv.rf.Start`; the entry in the table of channels, after it | `Start`; `Register`, `RegisterUnheard` |
| the assignment into `kv.txnWaitCh` | `ProcessEnds` |
| the `select` of the handler | `Answer`, `Timeout` |
| `applyBatch` and the channel at its index | `Apply` |
| a connection that breaks; a request that arrives after its clerk gave up | `Break`; `Arrive` |

A handler whose connection broke or that timed out leaves its channel in the table; here it goes, as
nobody listens to it. `GoDown` is for good. Of the three tables, `InitKvserver` makes two (`Made`).
`kv.txnWaitCh` stays nil, and the assignment into it, after `Start` took the request, panics: gRPC
recovers nothing, so Txn, Lock and Unlock end the process of the leader that takes them, with all its
handlers (`ProcessEnds`). Their clerk sees an error, asks the next node, and ends the next leader. What a command does is in `KvServer`; here an entry takes
effect if no request of the client with its number or a higher one was executed before
(`TakesEffect`).

`AnswerIsOwn` holds while the node leads the term in which it took the request; afterwards its index
may be another leader's entry, and the caller gets OK for a request that never was committed.
`CallsReturn` says of every call that it returns as long as some node is left that can be elected, but
for two that the code lets wait for ever: `DeleteMember`, which has no timeout, and a transaction that
a follower sends to node 0 while another node leads. Both properties fail without their exceptions.
`HandlersWait` is what the comment of `executeTxn` says, and is violated (`requests_txn`).

## Watch

`WatchManager` is the manager of `watch/`: two maps and two prefix trees are two sets of watchers, and
channels outlive registrations, because `Notify` sends on channels it collected before it dropped the
lock. In `Watch` the apply loop of a node writes (`Apply`), collects (`Collect`, under the read lock)
and sends, one watcher at a time (`Notify`; a send on a closed channel panics and ends the process);
the ticker compacts the store without the manager (`Ticker`); and a stream is the handler of
`kv_watch.go`: `Refuse` or `ReadRevision`, `Register`, `History`, `Replay` (one turn of `Synced`),
`MoveToSynced`, `Serve`, `Return`. The clerk opens a stream to whatever node it takes for the leader
(`Connect`) and resumes from the last revision it saw; `Break` is a connection that is lost, of which
the handler learns when it sends.

The node furthest ahead also commits (`Apply` picks the entry), so that a log is not guessed in
advance. A stream keeps its own history (`sent`, `upTo`, `joined`) until it ends.

`StreamInOrder` allows one repetition: the event that was written but not yet notified when the
history was read. `RegisteredMissesNothing`: a watcher that is registered has everything since it
joined; what a slow one loses costs it the registration. `ReplayIsComplete`: the replay has every put
of the key from the client's revision to the reading of the history. `NothingBeforeStart`,
`PanicNeedsBreak`: a closed channel kills the apply loop only where a client went away.
`DroppedStreamsEnd`, `ShortReplaysEnd`: a stream of a key that lost its registration ends (one of a
prefix does not, as its channel is not closed), a replay that fits the channel ends (a longer one
waits for itself).

## Runs

| Run | Instance | Shows |
|---|---|---|
| `raft_snapshot` | 3 nodes, terms to 4, 1 command, 1 message, a snapshot, slow senders; from `SpecOneAhead` | types; one vote and one leader per term; logs match behind snapshots |
| `raft_overwrite` | 3 nodes, terms to 4, 2 entries, 2 commands, 1 message, apply loops; from `SpecBackAgain` | entries of old terms are not committed by counting; leaders hold what is committed; `matchIndex` is true; no index outside `rf.log`; what is committed stays; Raft implements `ReplicatedLog` |
| `raft_repair` | 3 nodes with diverged logs, 2 entries, 2 messages, fair network | followers are repaired; what the leader takes is committed everywhere; with calls that overtake each other, what is committed and booked stays until one with entries is late |
| `raft_single` | 1 node, 2 terms, 3 entries, slow ticker, a restart | it elects itself and applies what it takes, without gaps |
| `membership` | 3 nodes, terms to 2, 2 changes, 1 message; n1 leads and was asked to remove n2, then n1 leaves or n2 comes back | one leader for a term and a list of peers; `matchIndex` follows the positions |
| `kv_store` | 2 nodes, 1 client, 2 keys, 2 requests, 2 entries of all commands, a restart | the nine properties of `KvServer` |
| `requests` | 2 nodes, 2 goroutines of one Client, 2 calls, 1 fault, and nodes that a transaction ends | own answers, one effect, calls return |
| `watch` | 1 node, 1 client, 2 streams of a key or its prefix, 3 entries, channels of 2, a compaction, a break | order, completeness, and what slow or lost streams cost |
| `raft_restart_wal` | violation | a restart forgets committed entries |
| `membership_votes` | violation | after one removal a node votes twice in a term |
| `requests_txn` | violation | the handler of a transaction ends its process |
| `reads` | violation; 3 nodes that agree, terms to 2, a second entry, 2 messages, 1 read | a deposed leader confirms a stale read with an old answer |

*Later starts.* `SpecBackAgain`, `SpecOneAhead` and `SpecDiverged` start in states `Led` describes:
two leaders each took up to two commands nobody else heard of (one or two in `SpecDiverged`), and the
first is back in term 3. Each
is reachable from `Init` by elections, heartbeats and Start. Conflicts over old terms take three
elections; from `Init` the state space would end before them. `SpecSettled` (`reads`) and `SpecLed`
(`membership`) are reached by one election, and one entry that everybody committed or nobody heard of.

*Bounds.* Three nodes are the fewest with a majority that is not everyone. A log conflict needs one
entry; the commit rule for old terms needs an entry on a majority that a newer term replaces, two
entries and a term after the divergence, which `raft_overwrite` has. With one message at a time
nothing overtakes, but a message may be as late as one likes, and any is lost for another; two
messages (`raft_repair`) also give overtaking, and theorems have no bound. `reads` needs an old answer beside the election of a second leader that commits and answers
while the first still leads, and one read. `membership` needs an election between two nodes that have
applied a removal and one that has not, and a heartbeat whose answer comes after the change.
`kv_store`'s two entries contain a retry, a batch or a transaction cut by a crash, a CAS against a
recovered version, a grant with a put on its lease, and a put with an expiry. `requests` has a call
that is answered by a leader while another retries; one fault is an election, a broken connection or a
node that goes down; of methods that differ only in the number or the table they use one stands for
all in the calls of the second goroutine (Grant for KeepAlive, AddMember, Compact and Get). `watch`'s channels are shorter than its log, so that streams are slow and replays
too long. Each bound is large enough that a
plausible mutation of the code breaks each property of the run; `PROJECT.json` lists them
(`\* mutant` in the modules).

*Views and symmetry.* `MCRaft!View` and `ReadsView` drop `nextIndex`, `matchIndex` of nodes that do
not lead and `votes` of nodes that are no candidates. All are written before they are read again
(`BecomeLeader`, `StartElection`), so states that agree on the rest have the same futures; with a slow
ticker or sender the view keeps them (`raft_snapshot`, the run with `InstallReply`, has slow senders).
`ReadsView` also drops histories that the reads do not speak of. The view of
`membership` drops the same and `cast`, which only `VotesOnce` looks at; `membership_votes` has no
view. Nodes are interchangeable in `kv_store`, nodes and commands in `raft_restart_wal`; the runs with
later starts or liveness use no symmetry.

*Deadlock* is not checked: terms, entries, calls and restarts are bounded, so the models do stop.

*Fairness.* Safety needs none. What is assumed is what goroutines that are not blocked do:

- `raft_repair`: the leader's heartbeat timer never stops, so a call that gets through again and again
  is made again and again (strong fairness of `Delivered`), and a message that was let through is
  handled (`Handled`, strong because a full network may drop it first). No elections are left in the
  bounds, as in a network that is timely for long enough.
- `raft_single`: the ticker and `ApplyLoop` run for ever and a started election ends (weak fairness of
  `StartElection`, `Tally`, `Broadcast`, `Apply`).
- `requests`: heartbeats (`Hear`, `Choose`), apply loops and the goroutines of clerks and handlers go
  on, timeouts fire, and a cluster whose leader is down elects another. Elections while the leader is
  up, errors and calls are up to the world.
- `watch`: apply loops and handlers go on. Nothing is assumed of clients, of commits or of ticks:
  whether anybody reads on is not the code's to say.

## Disagreements with the documents

With a run:

- `README.md:67` says the WAL brings a node back to a consistent state; `MakeRaft` overwrites what it
  loaded (`raft_restart_wal`).
- The comment at `raft_vote.go:164` lets a node vote if it has not voted in the term; it compares
  positions in lists that differ between nodes while a change is applied, and votes twice
  (`membership_votes`). Two nodes then lead one term.
- The comment at `kv_lock.go:112` says that `executeTxn` waits for the result of its transaction; it
  writes into `kv.txnWaitCh`, which is never made (`kvserver.go:143-150`), and the process ends, as it
  does at `kv_txn.go:54` (`requests_txn`).
- The comment at `raft.go:71` says that ReadIndex confirms the node is still the leader, for a
  linearizable read; `raft_heartbeat.go:110` counts every successful answer of the term, however old,
  and two of one peer for two peers (`reads`).

Met while modelling; the properties above except them, and fail without the exception:

- The comment at `raft_heartbeat.go:181` says the log is deleted on conflict; line 268 cuts it behind
  every message with entries, so a call that comes after a longer one of its leader takes back
  committed entries: the case `late` records, without which `CommittedStay` fails.
- `README.md:75` says a key is deleted at the end of its TTL. It may go earlier: a key stays in the
  lease it was bound to before (`lease.go:53`) and dies with that, and an Expire that was proposed is
  applied although the lease was renewed meanwhile (`kv_handle.go:172`). Or never: the first Expire of
  a lease removes the whole lease (`lease.go:74`), so its other keys stay if theirs are lost.
- `README.md:71` says `Recover` rebuilds all indexes; `latest` names the version before a deletion
  (`recover.go:55`), and `Get` finds the deleted value.
- `clerk_model.go:26` says the client is safe for concurrent use; the dedup table keeps one number per
  client (`kv_handle.go:14`), so a request of a second goroutine may be dropped and answered.
- `clerk/client.go:17` says that the clerk turns to the next node after WRONG_LEADER; the reply of a
  transaction names no leader, which the clerk reads as node 0 (`kv_txn.go`, `clerk_txn.go`).
- `raft_model.go:62` and `README.md:77` say heartbeats and elections check `peerGen`; the replies to
  vote requests do not. `raft_model.go:58` says `me` is the node's index in `peers`; `handleAdd` leaves
  it at -1 on a node that comes back.

And, of what no document speaks of: a caller whose index another leader gave away is answered OK for
what that leader's entry did; `DeleteMember` waits for ever where its entry is lost
(`kv_raftmember.go:83`); a second removal applied by a node that was removed indexes `rf.peers[-1]`, a
removed leader with one peer left indexes `rf.matchIndex[-1]`, and one with more counts itself;
`HandleConfigChange`'s errors are answered OK; and the other ways to a stale read under *Reads*.

## Proofs

Each theorem holds for every value of the constants that satisfies the named assumption of its module
and the hypotheses of its statement. The assumptions say that sets of nodes, clients and keys are
finite, bounds are natural numbers, and commands have the shape of the wire format (`Command` in
`KvServer`, `Entries` in `Watch`).

*Raft.* `RaftProofs!TypeCorrect` (`Spec => []TypeOK`). `TypeOK` is inductive: one lemma per action. The
part that is not bookkeeping is that no log loses its dummy entry, through the cut of `Merged`, `Kept`
and `Snapshot`, and that ConflictIndex and `nextIndex` stay natural numbers.

`RaftProofs!VotesOnce` (`MaxRestarts = 0`, any flags). The history `cast` is tied to the state by
`VotesRemembered`: a node's votes are of terms up to its own, and the one of its current term is in
`vote`. `InstallSnapshot` moves the term and keeps `vote`, which may then name the candidate of an
older term; the invariant allows that, as it asks nothing of `vote` where no vote was cast.

`RaftProofs!LeadersUnique` (`MaxRestarts = 0`, no `SlowTicker`). `ElectionSafety` follows from:
grants under way were cast (`GrantsAreVotes`), what a candidate counted was cast for it
(`CountedAreVotes`), whoever was elected had a majority of votes cast for it in its term
(`WinnersHadVotes`). Two majorities of a finite set meet (`FS_MajoritiesIntersect`), and the node in
both voted once. Restarts must be excluded as a restarted node has forgotten its vote, and the slow
ticker as its tally may count an election of an older term.

`RaftProofs!LogsMatch` (`Spec => []LogMatching`, under the same two hypotheses, on which it rests
through `ElectionSafety`; snapshots, slow senders and any loss and reordering are allowed). A log is
seen as a *piece*: entries at indices `first .. last`, of the first of which only the term counts, as
it is a dummy or a prevLogTerm. What an AppendEntries carries is a piece as well, and so is the last
index and term a node or an InstallSnapshot keeps of what was cut off (`Pieces`). `LogInv` says that
any two of these match (`PiecesMatch`), that every term in one but 0 was led by somebody
(`TermsWereLed`), that nothing of a leader's term is anywhere behind the end of its own log
(`LeadersHoldTheirs`), and that winners of a term do not stand for it again (`WinnersStay`). It
contains the messages because they outlive the log they were cut from, and the snapshot points because
`Kept` trusts the entry it finds at one. All steps but `Start` only cut a piece, or join two at an index
where they hold one term: `Merged` joins the log and the message at the last entry that agrees, and
the cut by `newLen` shortens what came out. What is so derived from pieces that match, matches
(`DerivedAllMatch`), so the proof of these steps never looks at who leads. `Start` alone makes an
entry, at an index where by `LeadersHoldTheirs` nobody has one of its term; that a new leader finds none
of its term at all is `TermsWereLed` with `ElectionSafety`.

`CommitProofs` proves all that the runs check of commits: `MatchedAreHeld`, `CommittedAreOne`,
`LeadersHaveAll`, `CommittedAreKept`, `IndexesStayInside`, `AppliedInOrder`, and with
`ClusterIsReplicatedLog` the refinement `ImplementsReplicatedLog`. Their hypothesis is `PlainCluster`:
`MaxRestarts = MaxSnaps = 0` and both flags `FALSE`, as in `raft_overwrite` and `raft_repair`. Numbers of
nodes, terms, entries, calls under way and applied entries are arbitrary; messages are lost, delayed
and handled in any order. What is proved holds until a call is `late` (see *Raft*): `CommittedAreKept`
says that the first step that takes back or replaces a committed entry is such a call. No part of
`PlainCluster` can be dropped for the code as it is: a restarted node has lost its log and its vote; a
snapshot is cut at the end of the log, past `commitIndex`, and so installs what nobody committed; and
what the flags allow is described with them under *Raft*.

The usual argument, that a new leader has what a majority acknowledged since some voter was in that
majority, needs more here than in textbook Raft, since `AppendEntries` cuts a log behind *every*
message with entries, also one that agrees. What a follower acknowledged stays only if no call of its
leader that is still under way, and that was not overtaken, is shorter; an overtaken one takes effect
as `late` or has no entries and cuts nothing. `LogInv` holds in any case, `CommitInv` while `late` is
empty (`CommitsAlways`). `CommitBase` has what of this is about messages: terms
ascend along a piece (`PiecesAscend`), no log is ahead of its node (`LogsBehindTerms`), a call is a
part of its sender's log while it leads (`CallsFromLeaders`), longer calls of a leader do not end in
older terms (`CallsGrow`), vote requests describe the candidate's log (`RequestsDescribe`), and what a
peer told its leader to hold, in `matchIndex` or in a reply under way, it holds and all calls still on
their way to it that were not overtaken reach (`AcksAreTrue`).

On top of it comes what cannot be lost. *Reaching* index k in term t is to be at least as new in the
order of the vote rule. `Spread(t, k)`: every piece that reaches there holds the entry of term t at k,
and later leaders send nothing that does not reach. `Keeps`: a node reaches there, and no call of that
leader takes it away. `Demands`: whom it voted for reaches there too. An entry is `Secured` if it is
below such a (t, k) with a majority of nodes that keep and demand it; `SecuredKept` shows that no step
undoes this, whoever leads. `CommitInv` says that what was committed is secured (`CommittedAreSafe`),
that a node keeps what its `commitIndex` covers (`NodesKnow`), and that a call brings what its `commit`
speaks of (`CallsKnow`): the follower takes the minimum with its own new log, which is right only for
this reason. How an entry comes to be secured is `TakenAreSafe`: for each index a leader filled in its
own term, everybody who acknowledged it keeps and demands it (`Safe`), unless a majority has moved to
later terms without acknowledging it (`Blocked`), and then the leader will never count one. The
disjunct is needed because a candidate of a later term can win while the entry is on its way.

For the refinement, `PiecesReal` says that only the first entry of a piece is a dummy, so that what is
committed is a command, and `AgreedTo(N)` that the committed indices are `1 .. N`: a leader's commit
appends to `AgreedLog`, a follower's adds nothing, `ApplyLoop` hands a store a longer prefix, and all
other steps stutter.

*Reads.* `ReadsProofs!ReadsAreFresh` (`ReadsSpec => []ConfirmedReadsAreFresh`, from `Init`) assumes
`PlainCluster`; the numbers of nodes and of reads are arbitrary. Every step of `Reads` is a step of
`Raft` or leaves its variables alone (`ReadsStepsAreRafts`), so `CommitInv` holds in it. `ReadInv` adds
that a leader's `commitIndex` covers what was committed in its term (`OwnCovered`) and that stores
follow `applyCh` (`StoresFollow`), so that whatever anybody was told of is covered by somebody's
`commitIndex` (`ToldIsKnown`). Then, when a read begins, the leader's `commitIndex` covers it as well,
or a majority is in later terms (`LeaderKnows`: an entry committed in an earlier term is in the
leader's log, below the one of its own term that `own` asks for; one committed in a later term is
`Secured` by a majority in such terms). In the second case that majority gives no further answer in the
term of the read: whatever of theirs is still under way was so when the read began (`Refused`, which
lasts). So none of them is among `fresh`, and two majorities would have to miss each other.

*Membership.* `MembershipProofs!OneLeader` (`Spec => []OneLeaderPerPeers`, if `FirstPeers` names nobody
twice, and any bounds and changes). The first half of `MemberInv` is the tally. An election goes by the
list it began with as long as `peerGen` says so (`Campaigns`), a candidate that knows its position asks
each of the others in that list once (`AskedOnce`), grants under way were cast (`GrantsAreCast`), and so
it counts votes of different peers (`VotesAreCast`), and a sound election rests on a majority of its
list (`WinnersHadVotes`). Two majorities of one list meet in a voter. The second half is what that voter
did. It gave its vote to a position, which two candidates may share if their lists differ, so one vote
per term is false here (`membership_votes`); what holds is one *position* per voter and term.
`PositionsHold` says that there is an assignment of a position to each node and term under which it
stood (`Places`), that a voter's `vote` is the position of whom it voted for while its term lasts, and
that all its votes of a term went to one. In one list a position is one node: no step makes a list name
a node twice, and a node that knows its position is there (`OwnPlaces`). Candidates at position 0, which
`rf.vote` takes for no vote at all, are the ones `sound` leaves out. `Quiet` gathers the steps that hold
no election; what is left are the three election steps.

`BookedIsHeld` (`Spec => []MatchedIsHeld`, under the same assumption) is about replication and needs no
majorities, only that the terms so far had one leader each, which is the premise of `MatchedIsHeld`
(`One(t)`, the terms up to t), and `late = {}`. `HeldInv` speaks of `H`, the set of all logs that leaders ever had while
they led: it exists in every state, grows by one log when somebody is elected or starts an entry, and is
not part of the model. While `One(t)` holds, the logs of one leader are prefixes of each other
(`Growing`), every node has a log of `H` or none (`LogsIn`), an entry is in a log of its own term's
leader, too (`EntriesIn`), and two logs with an entry of one term at an index agree up to there
(`AllMatch`); a call brings the end of a log of `H` (`CallsIn`), so that `Merged` is that log
(`MergedIs`). `Holds` is what an answer means: as long as the term lasts, the peer has what its leader
had up to an index, and no call still under way, but for
overtaken ones, cuts below it. That is so for every answer under way
(`RepliesTrue`) and for what the leader has booked (`BooksTrue`). Handling an answer leads from one to
the other, since `SamePeer` says that the position still belongs to the node that was called, and
`ChangedRows` shows that the numbers move with their nodes when a member is added or removed. `Calm`
gathers the steps after which nobody new leads and no log has changed.

*The store.* `MvccProofs` is about operators only. `FindLECorrect`: the binary search of `findLE`
returns, in any ascending list, the last revision not beyond the one asked for. The search is a
recursive function; that it has the values its equation gives is proved by the least-number principle
(`Least`, `UpTo`: a counterexample of least size has none below it). The same way `Kept`, the filter
of `compactKey`, and `Ascending`, the sorted list `Recover` rebuilds, are shown to be what they are
meant to be (`KeptFacts`, `AscendingFacts`). `Whole` says what a store in order is: each history is
the ascending list of the versions of its key on the disk, none is beyond `currentRev` (`Indexed`), no
two versions on the disk have one revision, and the newest of all is there.
`WrittenWhole`, `CompactedWhole` and `RecoveredWhole` show that every method keeps it; `Current` says
that `latest` names the newest version, `Buried` that it names the one before a tombstone, which only
`Recover` brings about.

*The KV layer.* `KvProofs!LeasesResolved` (`Spec => []NoDanglingLease`). The invariant `Sound` adds that
ids are unique and below `nextLeaseID`: without it the removal of one lease could leave another of the
same id behind. One lemma for each method of the lease manager, then one step for each action.

`RevisionsNeverReused`, `IndexIsTheDisk`, `ScansFindLatest`, `CompactionKeepsReads` and `KvTypes` rest
on `StoreInv`: `Control` (the log is what was sent, nodes are inside it, what is left of an entry is a
list of steps that ends with a note), `Leases`, and `Stores`: each store is `Whole`, its disk is among
the writes ever made, these have different revisions up to `currentRev`, and each key is `Current`, or
`Buried` on a node that restarted. `RevisionsUnique` alone is not inductive: a restart takes
`currentRev` from the disk, so one must know that the newest version is never compacted away.
`EveryStoreStep` says that whatever a step does, a store is left alone, written to, compacted or
recovered; the rest is one lemma for each of these.

`WritesHappenOnce` (`Spec => []AppliedOnce`). `OnceInv` holds for a node that never ended inside an
entry. Between two entries its dedup table covers the writes it made (`Covered`); inside one it does
but for those of the request it is at, which come before the ones still to be made (`CoveredBut`,
`Plan`: the writes of an entry are numbered in their order, and its notes are of its client). The notes
of a batch under numbers of their own run ahead of the request and go back to it with the last, which
is why nothing is asked of the client's entry in between.

`AnswersFollowWrites` (`Threads = 1`, `Spec => []AnsweredWasHandled`). `AnswerInv`: a request number is
used once, only the last of a client is waited for (`Numbered`), and the request that the dedup table
names was handled (`Noted`). A duplicate that somebody waits for is then the very request the table
names. With two open requests of a client it is not, and the property is violated.

*Requests.* `RetriesTakeEffectOnce` (`Spec => []TakesEffectOnce`, no hypotheses). A request is in many
places: with the goroutine that retries it, in the logs of old and new leaders, among the committed
entries, and in the network after its clerk gave up. `RequestInv` says that the requests in all of
them are one set, in which the number of a call tells one request from another and none is beyond
`begun` (`Fresh`); so what is committed twice under one call has one request number, and the second
time the dedup check finds it. `SomebodyLeads` is needed because a heartbeat copies the log of the
newest leader. One lemma for each action, most of them through `OneCall`, which moves one call on.

`AnswersAreOwn` (`Spec => []AnswerIsOwn`). `AnswerInv`: a call that was started has its request at its
index in the log of its node as long as that node leads the term of the call (`Placed`), since a
leader's log only grows; and behind every channel in a table is a handler that waits, at its own index
(`Connected`). So what is applied at the index of a channel is the request of its caller.

*Watch.* `WatchProofs` proves the five safety properties of `Watch` from one invariant, `WatchInv`. Of
a node (`NodeOk`): closed channels have no watcher, the revision counts the writes applied, and the
apply loop is at the notification of the last of them. Of a stream (`StreamOk`): its watcher is its own
and `Notify` finds it, and the line of what it sent and what waits in its channel is `Ordered`, is
`FromStart`, and with what is left of the replay holds all that the history had (`Complete`) and all
that was collected since the watcher joined (`AllHeard`). `Ordered` is what needs most: a revision the
history brought may come a second time only if its notification was under way when the history was
read. What a step changes of a node's store, notification and channels is put in a record (`View`), so
that one lemma serves every stream the step does not move.

Only model-checked: `ReplicasAgree`. It compares two nodes that are at the same entry: the proof needs the state of a store as
a function of the prefix it applied, that is, induction over the log with compactions in between.
Out of the prover's reach: liveness (`LogsRepaired`, `TakenAreCommitted`,
`EveryCommandApplied`, `CallsReturn`, `DroppedStreamsEnd`, `ShortReplaysEnd`).

## Not modelled

- The WAL file (`wal/wal.go`): records, `Truncate`, a torn last record. What is read from it is
  overwritten by `MakeRaft`, so nothing the system does depends on it; a model of it would say what
  the code would do if it were used.
- `Deserialize` and the restore of a snapshot into the store: `ApplyLoop` sends no message with
  `SnapshotValid`, so the branch of `applyBatch` is never taken.
- Waiting for a lock (`lock/lock.go`: `FindPredecessor`, `WaitLock`): the handler's process ends before
  a caller gets there, so every statement about holders would be about a program that does not run.
- GetPrefix only reads the store of the node it reaches; what a scan finds is in `Mvcc`.
- Snapshots, restarts and slow goroutines while members change; reads on a process that ends; the
  exchange of snapshots with applied data at the KV layer.
- Errors and timing of the disk, the race on `lease.Keys` (`lease.go:67`), which ends the process, and
  the sizes that start snapshots and compactions.
- `config`, `tls`, `tool`, `cmd` (flags, certificates, a shell and a load generator: input and output
  without protocol state) and `proto` (generated).

## What is next

1. The commit rule with snapshots and restarts: which of them it survives, and what of the code would
   have to change for the rest.
2. `ReplicasAgree`: a history variable with the store after each prefix would make it an invariant of
   one node.
3. Snapshots in `Membership`, where `sendInstallSnapshotTo` books under a position as well.
