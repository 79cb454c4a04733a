------------------------------- MODULE Watch -------------------------------
(***************************************************************************)
(* Watches of HM-KV: the streams of kv_watch.go, the notifications of the  *)
(* apply loop, and the clerk that resumes where its last stream broke off. *)
(*                                                                         *)
(* Every node applies the same log at its own pace.  Its apply loop, its   *)
(* compaction ticker and one handler per stream run beside each other;     *)
(* what they share are the store and the watch manager, each under a mutex *)
(* of its own that nobody holds between two steps.                         *)
(***************************************************************************)
EXTENDS Integers, Sequences, FiniteSets

CONSTANTS
    Node, Client, Key, Prefix, Covers, Capacity,
    Watches,        \* what a client may watch: [target, start]
    Entries,        \* entries of the log: [type, key] or [type, revision]
    MaxLog,         \* bound: entries of the log
    MaxStreams,     \* bound: streams ever opened
    MaxTickers,     \* bound: compactions by the ticker
    MaxBreaks       \* bound: clients gone from a stream

ASSUME WatchAssumption ==
    /\ IsFiniteSet(Node) /\ IsFiniteSet(Client) /\ IsFiniteSet(Key)
    /\ Key \cap Prefix = {}
    /\ Covers \in [Key \cup Prefix -> SUBSET Key]
    /\ \A k \in Key : Covers[k] = {k}
    /\ Capacity \in Nat \ {0}
    /\ Watches \subseteq [target : Key \cup Prefix, start : Nat]
    /\ Entries \subseteq [type : {"Put", "Delete"}, key : Key]
                        \cup [type : {"Compact"}, revision : Int]
    /\ {MaxLog, MaxStreams, MaxTickers, MaxBreaks} \subseteq Nat

VARIABLES
    log,            \* the entries committed so far
    applied,        \* how many of them a node has applied
    store,          \* kv.mvcc
    watchers,       \* kv.watcherManager
    telling,        \* the notification the apply loop is at
    down,           \* processes ended by a panic
    streams,        \* the handlers of Watch, in the order of their calls
    watching,       \* per client: its call of Watch (clerk), lastReversion in .start
    tickers,        \* counter for MaxTickers
    \* History: the last revision whose watchers were collected; deliveries
    collected

nodeVars == <<applied, store, watchers, telling, down>>
vars == <<log, nodeVars, streams, watching, tickers, collected>>

M == INSTANCE Mvcc
W == INSTANCE WatchManager

-----------------------------------------------------------------------------
Idle == [stage |-> "idle"]
NoWatch == [target |-> "none"]

Init ==
    /\ log = <<>>
    /\ applied = [i \in Node |-> 0]
    /\ store = [i \in Node |-> M!NewStore]
    /\ watchers = [i \in Node |-> W!NewManager]
    /\ telling = [i \in Node |-> Idle]
    /\ down = {}
    /\ streams = <<>>
    /\ watching = [c \in Client |-> NoWatch]
    /\ tickers = 0
    /\ collected = [i \in Node |-> 0]
-----------------------------------------------------------------------------
(* The apply loop *)

\* The write of putInternal, deleteInternal or expireByKey.
ApplyWrite(i, entry) ==
    /\ entry.type \in {"Put", "Delete"}
    /\ store' = [store EXCEPT ![i] = M!Written(@, entry.key, <<>>, entry.type = "Delete")]
    /\ telling' = [telling EXCEPT ![i] =
                     [stage |-> "written",
                      event |-> [key |-> entry.key, type |-> entry.type,
                                 revision |-> store'[i].currentRev]]]
    /\ UNCHANGED watchers

\* HandleCompact
ApplyCompact(i, entry) ==
    /\ entry.type = "Compact"
    /\ store' = [store EXCEPT ![i] = M!Compacted(@, entry.revision)]
    /\ watchers' = [watchers EXCEPT ![i] = W!CompactedTo(@, entry.revision)]
    /\ UNCHANGED telling

\* The next entry of the log; the node that is furthest ahead also commits it.
Apply(i) ==
    /\ i \notin down
    /\ telling[i] = Idle
    /\ \E entry \in Entries :
          /\ \/ applied[i] = Len(log) /\ Len(log) < MaxLog /\ log' = Append(log, entry)
             \/ applied[i] < Len(log) /\ entry = log[applied[i] + 1] /\ UNCHANGED log
          /\ ApplyWrite(i, entry) \/ ApplyCompact(i, entry)
    /\ applied' = [applied EXCEPT ![i] = @ + 1]
    /\ UNCHANGED <<down, streams, watching, tickers, collected>>

\* After a turn of Notify's loop, with what is left to send.
TellRest(i, list) ==
    telling' = [telling EXCEPT ![i] = IF list = {} THEN Idle
                                      ELSE [stage |-> "sending", event |-> @.event, to |-> list]]

\* Notify, under the read lock.
Collect(i) ==
    /\ i \notin down
    /\ telling[i].stage = "written"
    /\ TellRest(i, W!Recipients(watchers[i], telling[i].event.key))
    /\ collected' = [collected EXCEPT ![i] = telling[i].event.revision]
    /\ UNCHANGED <<log, applied, store, watchers, down, streams, watching, tickers>>

\* A stream that ended: its local variables and its history are of no use any more.
Over(st) ==
    [st EXCEPT !.at = "ended", !.curRev = 0, !.todo = <<>>, !.sent = <<>>,
               !.upTo = 0, !.joined = 0]

\* The streams of a process end with it.
StreamsLost(i) ==
    [s \in DOMAIN streams |-> IF streams[s].node = i THEN Over(streams[s]) ELSE streams[s]]

\* Notify, one turn of its loop.  A send on a closed channel panics.
Notify(i) ==
    /\ i \notin down
    /\ telling[i].stage = "sending"
    /\ \E id \in telling[i].to :
          \/ /\ watchers[i].ch[id].closed
             /\ down' = down \cup {i}
             /\ streams' = StreamsLost(i)
             /\ UNCHANGED <<watchers, telling>>
          \/ /\ ~watchers[i].ch[id].closed
             /\ watchers' = [watchers EXCEPT ![i] = W!Notified(@, id, telling[i].event)]
             /\ TellRest(i, telling[i].to \ {id})
             /\ UNCHANGED <<down, streams>>
    /\ UNCHANGED <<log, applied, store, watching, tickers, collected>>

\* StartCompact: the watch manager does not hear of it.
Ticker(i) ==
    /\ i \notin down
    /\ tickers < MaxTickers
    /\ tickers' = tickers + 1
    /\ store' = [store EXCEPT ![i] = M!Compacted(@, @.currentRev)]
    /\ UNCHANGED <<log, applied, watchers, telling, down, streams, watching, collected>>
-----------------------------------------------------------------------------
(* A stream: the handler Watch *)

Set(s, changed) == streams' = [streams EXCEPT ![s] = changed]
ToManager(s, m) == watchers' = [watchers EXCEPT ![streams[s].node] = m]

\* The manager and the store of the handler's node.
Mine(s) == watchers[streams[s].node]
MyStore(s) == store[streams[s].node]

\* The check of the start against the compaction: COMPACT_ERROR ends the stream.
Refuse(s) ==
    /\ streams[s].at = "called"
    /\ streams[s].start > 0
    /\ streams[s].start <= Mine(s).compactversion
    /\ Set(s, Over(streams[s]))
    /\ UNCHANGED <<log, nodeVars, watching, tickers, collected>>

ReadRevision(s) ==
    /\ streams[s].at = "called"
    /\ ~(streams[s].start > 0 /\ streams[s].start <= Mine(s).compactversion)
    /\ Set(s, [streams[s] EXCEPT !.at = "register", !.curRev = MyStore(s).currentRev])
    /\ UNCHANGED <<log, nodeVars, watching, tickers, collected>>

\* Register; only a watcher of one key reads history.
Register(s) ==
    LET st == streams[s]
        replays == st.start > 0 /\ st.start < st.curRev /\ st.target \in Key
    IN  /\ st.at = "register"
        /\ ToManager(s, W!Registered(Mine(s), st.target, st.start, st.curRev))
        /\ Set(s, [st EXCEPT !.at = IF replays THEN "history" ELSE "serve",
                             !.id = Mine(s).nextWatcherId,
                             !.joined = collected[st.node]])
        /\ UNCHANGED <<log, applied, store, telling, down, watching, tickers, collected>>

\* Synced: the revisions to replay.
IsNewerOffByOne(rev, start) == rev > start + 1   \* mutant
IsNewerNever(rev, start) == rev > 0   \* mutant
IsNewer(rev, start) == rev > start

History(s) ==
    LET st == streams[s]
        revs == MyStore(s).history[st.target]
    IN  /\ st.at = "history"
        /\ Set(s, [st EXCEPT !.at = "replay",
                             !.todo = M!Kept(revs, {rev \in M!Elements(revs) : IsNewer(rev, st.start)}),
                             !.upTo = MyStore(s).currentRev])
        /\ UNCHANGED <<log, nodeVars, watching, tickers, collected>>

\* Synced, one turn of its loop: what is not found is passed over; the send waits for
\* room in a channel that nobody reads from yet.
Replay(s) ==
    LET st == streams[s]
        rev == Head(st.todo)
        found == M!Get(MyStore(s), st.target, rev) # {}
        event == [key |-> st.target, type |-> "Put", revision |-> rev]
    IN  /\ st.at = "replay" /\ st.todo # <<>>
        /\ \/ ~found /\ UNCHANGED watchers
           \/ found /\ W!HasRoom(Mine(s), st.id) /\ ToManager(s, W!Queued(Mine(s), st.id, event))
        /\ Set(s, [st EXCEPT !.todo = Tail(@)])
        /\ UNCHANGED <<log, applied, store, telling, down, watching, tickers, collected>>

MoveToSynced(s) ==
    LET st == streams[s]
    IN  /\ st.at = "replay" /\ st.todo = <<>>
        /\ ToManager(s, W!MovedToSynced(Mine(s), st.id))
        /\ Set(s, [st EXCEPT !.at = "serve", !.joined = collected[st.node]])
        /\ UNCHANGED <<log, applied, store, telling, down, watching, tickers, collected>>

\* An event goes to the client, who notes its revision.
Serve(s) ==
    LET st == streams[s]
        event == Head(Mine(s).ch[st.id].queue)
    IN  /\ st.at = "serve" /\ ~st.gone
        /\ Mine(s).ch[st.id].queue # <<>>
        /\ ToManager(s, W!Taken(Mine(s), st.id))
        /\ Set(s, [st EXCEPT !.sent = Append(@, event)])
        /\ watching' = [watching EXCEPT ![st.client].start = event.revision]
        /\ UNCHANGED <<log, applied, store, telling, down, tickers, collected>>

\* stream.Send fails as the client is gone, or the channel was closed and read empty.
\* The deferred RemoveWatch runs.
Return(s) ==
    LET st == streams[s]
        ch == Mine(s).ch[st.id]
    IN  /\ st.at = "serve"
        /\ \/ st.gone /\ ch.queue # <<>>
           \/ ch.closed /\ ch.queue = <<>>
        /\ ToManager(s, W!Abandoned(W!Removed(Mine(s), st.id), st.id))
        /\ Set(s, Over(st))
        /\ UNCHANGED <<log, applied, store, telling, down, watching, tickers, collected>>
-----------------------------------------------------------------------------
(* The clerk *)

Open(c) ==
    {s \in DOMAIN streams :
        streams[s].client = c /\ streams[s].at # "ended" /\ ~streams[s].gone}

\* Watch, WatchPrefix
Begin(c) ==
    /\ watching[c] = NoWatch
    /\ \E w \in Watches : watching' = [watching EXCEPT ![c] = w]
    /\ UNCHANGED <<log, nodeVars, streams, tickers, collected>>

\* watch: a stream to the node the client takes for the leader at the moment.
Connect(c, i) ==
    /\ watching[c] # NoWatch
    /\ Open(c) = {}
    /\ i \notin down
    /\ Len(streams) < MaxStreams
    /\ streams' = Append(streams,
          [client |-> c, node |-> i, target |-> watching[c].target, start |-> watching[c].start,
           at |-> "called", gone |-> FALSE, curRev |-> 0, id |-> 0, todo |-> <<>>, sent |-> <<>>,
           upTo |-> 0, joined |-> 0])
    /\ UNCHANGED <<log, nodeVars, watching, tickers, collected>>

\* The connection breaks, or the client cancels; the handler does not hear of it.
Break(s) ==
    /\ streams[s].at # "ended" /\ ~streams[s].gone
    /\ Cardinality({t \in DOMAIN streams : streams[t].gone}) < MaxBreaks
    /\ Set(s, [streams[s] EXCEPT !.gone = TRUE])
    /\ UNCHANGED <<log, nodeVars, watching, tickers, collected>>
-----------------------------------------------------------------------------
Handle(s) ==
    \/ Refuse(s) \/ ReadRevision(s) \/ Register(s)
    \/ History(s) \/ Replay(s) \/ MoveToSynced(s)
    \/ Serve(s) \/ Return(s)

Next ==
    \/ \E i \in Node : Apply(i) \/ Collect(i) \/ Notify(i) \/ Ticker(i)
    \/ \E s \in DOMAIN streams : Handle(s) \/ Break(s)
    \/ \E c \in Client : Begin(c) \/ \E i \in Node : Connect(c, i)

\* Handlers and apply loops are goroutines that go on; clients, tickers and what is
\* committed are up to the world.
Fairness ==
    /\ \A i \in Node : WF_vars(Collect(i)) /\ WF_vars(Notify(i))
    /\ \A s \in 1 .. MaxStreams : WF_vars(s \in DOMAIN streams /\ Handle(s))

Spec == Init /\ [][Next]_vars
FairSpec == Spec /\ Fairness
-----------------------------------------------------------------------------
(* Properties *)

\* What the client of a stream has received or will receive.
Delivered(s) ==
    IF streams[s].at \in {"history", "replay", "serve"}
    THEN streams[s].sent \o Mine(s).ch[streams[s].id].queue
    ELSE <<>>
Holds(s, rev) == \E n \in DOMAIN Delivered(s) : Delivered(s)[n].revision = rev

\* The writes among the first n entries of the log: the revision of the n-th, if it is one.
IsWrite(n) == log[n].type # "Compact"
Revision(n) == Cardinality({m \in 1 .. n : IsWrite(m)})

\* On one stream no event overtakes another and none comes twice (Notify, Synced), except
\* the one that was written but not yet notified when the history was read.
StreamInOrder ==
    \A s \in DOMAIN streams :
        \A n \in 1 .. Len(Delivered(s)) - 1 :
            LET this == Delivered(s)[n].revision
                next == Delivered(s)[n + 1].revision
            IN  this < next \/ (this = next /\ this = streams[s].upTo)

\* A watcher that is still registered has everything its target saw since it joined
\* (Notify, RemoveWatch): losing an event costs it the registration.
RegisteredMissesNothing ==
    \A s \in DOMAIN streams :
        LET st == streams[s]
            underWay(r) == /\ telling[st.node].stage = "sending"
                           /\ st.id \in telling[st.node].to
                           /\ telling[st.node].event.revision = r
        IN  st.at = "serve" /\ W!IsRegistered(Mine(s), st.id) =>
                \A n \in 1 .. Len(log) :
                    /\ IsWrite(n) /\ log[n].key \in Covers[st.target]
                    /\ Revision(n) \in st.joined + 1 .. collected[st.node]
                    => underWay(Revision(n)) \/ Holds(s, Revision(n))

\* A replay (Synced) brings every put of the key between the client's revision and the
\* reading of the history, unless a compaction dropped it.
ReplayIsComplete ==
    \A s \in DOMAIN streams :
        LET st == streams[s]
        IN  st.upTo > 0 /\ st.at = "serve" =>
                \A d \in MyStore(s).disk :
                    /\ d.key = st.target /\ ~d.deleted
                    /\ d.version \in st.start + 1 .. st.upTo
                    => Holds(s, d.version)

\* A client that resumes (watch of the clerk) is sent nothing from before its revision,
\* unless the node it came to has not applied that much.
NothingBeforeStart ==
    \A s \in DOMAIN streams :
        \A n \in DOMAIN Delivered(s) :
            \/ Delivered(s)[n].revision >= streams[s].start
            \/ streams[s].curRev < streams[s].start

\* The apply loop dies of a closed channel (Notify) only where a client went away: no
\* order of slow clients, replays and writes alone leads there.
PanicNeedsBreak ==
    \A i \in down : \E s \in DOMAIN streams : streams[s].node = i /\ streams[s].gone

\* A stream of one key that lost its registration for being slow ends, so that its client
\* learns of it (RemoveWatch closes the channel).  One of a prefix does not.
DroppedStreamsEnd ==
    []<>(\A s \in DOMAIN streams :
            streams[s].at = "serve" /\ streams[s].target \in Key
                => W!IsRegistered(Mine(s), streams[s].id))

\* A replay that fits the channel ends; a longer one waits for itself (Synced).
ShortReplaysEnd ==
    []<>(\A s \in DOMAIN streams :
            streams[s].at = "replay" => Len(Delivered(s)) + Len(streams[s].todo) > Capacity)
=============================================================================
