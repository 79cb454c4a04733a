---------------------------- MODULE WatchProofs -----------------------------
(***************************************************************************)
(* Proofs about Watch for every set of nodes, clients, keys and prefixes,  *)
(* every capacity of a channel and every bound.                            *)
(*                                                                         *)
(* The invariant says of a node that a closed channel has no watcher, that *)
(* its revision counts the writes it has applied, and how far the          *)
(* notification of the last of them is; of a stream, that its watcher is   *)
(* its own and one Notify finds, and of the line of what it has sent and   *)
(* what waits in its channel, that it is in order, holds what the watcher  *)
(* was told of and, with what is left of a replay, what the history had.   *)
(***************************************************************************)
EXTENDS Watch, FiniteSetTheorems, SequenceTheorems, TLAPS

\* The lemmas about the store.
MP == INSTANCE MvccProofs

-----------------------------------------------------------------------------
(* The invariant: the manager *)

Watcher == [target : Key \cup Prefix, id : Nat]
Event == [key : Key, type : {"Put", "Delete"}, revision : Nat]
Channel == [queue : Seq(Event), closed : BOOLEAN]

\* A record with the fields of a manager.
IsManager(m) ==
    m \in [nextWatcherId : {m.nextWatcherId}, compactversion : {m.compactversion},
           synced : {m.synced}, unsynced : {m.unsynced}, ch : {m.ch}]

\* A manager whose watchers have a channel each.
Sane(m) ==
    /\ IsManager(m) /\ m.ch \in Seq(Channel) /\ m.nextWatcherId = Len(m.ch) + 1
    /\ m.synced \subseteq Watcher /\ m.unsynced \subseteq Watcher
    /\ \A w \in m.synced \cup m.unsynced : w.id \in DOMAIN m.ch

\* RemoveWatch closes a channel as it takes the watcher out.
Clean(m) == \A id \in DOMAIN m.ch : m.ch[id].closed => ~W!IsRegistered(m, id)

-----------------------------------------------------------------------------
(* The invariant: a stream *)

Stages == {"called", "register", "history", "replay", "serve", "ended"}
JoinedStages == {"history", "replay", "serve"}

IsStream(st) ==
    st \in [client : {st.client}, node : {st.node}, target : {st.target}, start : {st.start},
            at : {st.at}, gone : {st.gone}, curRev : {st.curRev}, id : {st.id},
            todo : {st.todo}, sent : {st.sent}, upTo : {st.upTo}, joined : {st.joined}]

Typed(st) ==
    /\ IsStream(st) /\ st.node \in Node /\ st.target \in Key \cup Prefix /\ st.start \in Nat
    /\ st.at \in Stages /\ st.gone \in BOOLEAN /\ st.curRev \in Nat /\ st.upTo \in Nat
    /\ st.todo \in Seq(Nat) /\ st.sent \in Seq(Event) /\ st.joined \in Int

\* A stream that has its watcher's channel.
Joined(s) == streams[s].at \in JoinedStages

\* The watcher of a stream with the manager m: one of the target it was called for, that
\* waits unsynced for the history of a key, and for nothing else.
OwnWatcher(st, m) ==
    /\ st.id \in DOMAIN m.ch
    /\ st.at # "serve" => st.target \in Key
    /\ \A w \in m.synced \cup m.unsynced : w.id = st.id => w.target = st.target
    /\ \A w \in m.synced : w.id = st.id => st.at = "serve"
    /\ \A w \in m.unsynced : w.id = st.id /\ st.at = "serve" => st.target \in Prefix

\* No two streams of a node have the same channel.
Alone(s) ==
    \A t \in DOMAIN streams :
        Joined(t) /\ streams[t].node = streams[s].node /\ streams[t].id = streams[s].id => t = s

\* What a stream has sent and what waits in its channel.
Line(st, m) == st.sent \o m.ch[st.id].queue

\* What the line of a stream depends on of its node.
View(i) == [log |-> log, store |-> store[i], telling |-> telling[i], collected |-> collected[i]]

Rev(v) == v.store.currentRev
Telling(st, v) == v.telling.stage = "sending" /\ st.id \in v.telling.to
UnderWay(st, v, rev) == Telling(st, v) /\ v.telling.event.revision = rev

\* The line is in order, and what comes next will be: a revision that is still to be told
\* is the last one, which the history may have brought already.
Ordered(st, d, v) ==
    /\ \A n \in 1 .. Len(d) - 1 :
          \/ d[n].revision < d[n + 1].revision
          \/ d[n].revision = d[n + 1].revision /\ d[n].revision = st.upTo
    /\ \A n \in 1 .. Len(d) : d[n].revision <= Rev(v)
    /\ st.at = "serve" /\ (v.telling.stage = "written" \/ Telling(st, v)) =>
          \A n \in 1 .. Len(d) : d[n].revision < Rev(v) \/ d[n].revision = st.upTo
    /\ st.upTo <= Rev(v)

\* A stream that replays has its history in order, and is told nothing else meanwhile.
Replaying(st, d, v) ==
    /\ st.at # "replay" => st.todo = <<>>
    /\ st.at # "serve" => ~Telling(st, v)
    /\ st.at = "history" => d = <<>> /\ st.upTo = 0
    /\ st.at = "replay" =>
          /\ MP!Ascends(st.todo)
          /\ \A k \in 1 .. Len(st.todo) : st.start < st.todo[k] /\ st.todo[k] <= st.upTo
          /\ \A n \in 1 .. Len(d) :
                /\ d[n].revision <= st.upTo
                /\ \A k \in 1 .. Len(st.todo) : d[n].revision < st.todo[k]

Heard(d, rev) == \E n \in 1 .. Len(d) : d[n].revision = rev

\* What a replay leaves out of the versions on the disk, it still has to do.
Complete(st, d, v) ==
    st.at \in {"replay", "serve"} =>
        \A x \in v.store.disk :
            x.key = st.target /\ ~x.deleted /\ x.version \in st.start + 1 .. st.upTo
                => (\E k \in 1 .. Len(st.todo) : st.todo[k] = x.version) \/ Heard(d, x.version)

\* Nothing is from before the start, if the node had come that far.
FromStart(st, d, v) ==
    /\ st.curRev <= Rev(v)
    /\ st.curRev < st.start \/ \A n \in 1 .. Len(d) : d[n].revision >= st.start

\* The writes among the entries of a log, and how many there are up to the n-th.
Writes(l, n) == l[n].type # "Compact"
Rank(l, n) == Cardinality({m \in 1 .. n : Writes(l, m)})

\* The n-th entry is a write that a stream is to have.
Concerns(st, v, n) ==
    /\ Writes(v.log, n) /\ v.log[n].key \in Covers[st.target]
    /\ Rank(v.log, n) \in st.joined + 1 .. v.collected

AllHeard(st, d, v, registered) ==
    st.at = "serve" /\ registered =>
        \A n \in 1 .. Len(v.log) :
            Concerns(st, v, n) => UnderWay(st, v, Rank(v.log, n)) \/ Heard(d, Rank(v.log, n))

Data(st, d, v, registered) ==
    /\ Ordered(st, d, v) /\ Replaying(st, d, v) /\ Complete(st, d, v) /\ FromStart(st, d, v)
    /\ AllHeard(st, d, v, registered)

\* A stream that has not registered yet.
Fresh(st, v) ==
    st.at \in {"called", "register"} =>
        st.curRev <= Rev(v) /\ st.sent = <<>> /\ st.todo = <<>> /\ st.upTo = 0

OwnData(st, m, v) ==
    OwnWatcher(st, m) /\ Data(st, Line(st, m), v, W!IsRegistered(m, st.id))

StreamOk(s) ==
    /\ Typed(streams[s]) /\ Fresh(streams[s], View(streams[s].node))
    /\ Joined(s) => OwnData(streams[s], Mine(s), View(streams[s].node)) /\ Alone(s)

-----------------------------------------------------------------------------
(* The invariant: a node *)

Broken(i) == \E s \in DOMAIN streams : streams[s].node = i /\ streams[s].gone

\* The notification the apply loop is at: that of the last write, which counts as
\* collected from then on.
Told(i) ==
    LET of == /\ applied[i] > 0 /\ Writes(log, applied[i])
              /\ telling[i].event \in Event
              /\ telling[i].event.key = log[applied[i]].key
              /\ telling[i].event.revision = store[i].currentRev
    IN  \/ telling[i] = Idle /\ collected[i] = store[i].currentRev
        \/ telling[i].stage = "written" /\ of /\ collected[i] = store[i].currentRev - 1
        \/ /\ telling[i].stage = "sending" /\ of /\ collected[i] = store[i].currentRev
           /\ telling[i].to \subseteq DOMAIN watchers[i].ch

\* The revision of a node counts the writes it has applied.
Counts(i) ==
    /\ applied[i] \in 0 .. Len(log)
    /\ MP!Indexed(store[i])
    /\ store[i].currentRev = Rank(log, applied[i])

\* A closed channel that is about to be told of a write is one a client left.
LeftOnly(i) ==
    telling[i].stage = "sending" =>
        \A id \in telling[i].to : watchers[i].ch[id].closed => Broken(i)

NodeOk(i) ==
    /\ Sane(watchers[i]) /\ Clean(watchers[i]) /\ Counts(i) /\ Told(i)
    /\ LeftOnly(i) /\ (i \in down => Broken(i))

-----------------------------------------------------------------------------
(* The invariant *)

\* What clients watch.
Watching ==
    /\ DOMAIN watching = Client
    /\ \A c \in Client : watching[c] # NoWatch => watching[c] \in [target : Key \cup Prefix, start : Nat]

\* A sequence, of whatever it holds.
Sequence(q) == q \in Seq({q[n] : n \in 1 .. Len(q)})

Shapes ==
    /\ log \in Seq(Entries) /\ Sequence(streams) /\ Watching
    /\ DOMAIN applied = Node /\ DOMAIN store = Node /\ DOMAIN watchers = Node
    /\ DOMAIN telling = Node /\ DOMAIN collected = Node /\ down \subseteq Node

WatchInv ==
    /\ Shapes
    /\ \A i \in Node : NodeOk(i)
    /\ \A s \in DOMAIN streams : StreamOk(s)

-----------------------------------------------------------------------------
(* Sequences of anything *)

LEMMA OfAnything ==
    ASSUME NEW S, NEW q \in Seq(S)
    PROVE  Sequence(q)
<1> DEFINE T == {q[n] : n \in 1 .. Len(q)}
<1>1. Len(q) \in Nat /\ q \in [1 .. Len(q) -> T]
  BY LenProperties
<1> HIDE DEF T
<1>2. q \in Seq(T)
  BY <1>1, SeqDef
<1> QED BY <1>2 DEF Sequence, T

LEMMA SequenceFacts ==
    ASSUME NEW q, Sequence(q)
    PROVE  Len(q) \in Nat /\ DOMAIN q = 1 .. Len(q)
BY LenProperties DEF Sequence

LEMMA EmptySequence == Sequence(<<>>) /\ Len(<<>>) = 0
<1>1. <<>> \in Seq({})
  BY EmptySeq
<1> QED BY <1>1, OfAnything, EmptySeq

LEMMA Appended ==
    ASSUME NEW q, Sequence(q), NEW e
    PROVE  /\ Sequence(Append(q, e)) /\ Len(Append(q, e)) = Len(q) + 1
           /\ DOMAIN Append(q, e) = 1 .. Len(q) + 1
           /\ \A n \in 1 .. Len(q) : Append(q, e)[n] = q[n]
           /\ Append(q, e)[Len(q) + 1] = e
<1> DEFINE T == {q[n] : n \in 1 .. Len(q)}
<1>1. q \in Seq(T)
  BY DEF Sequence
<1> HIDE DEF T
<1>2. q \in Seq(T \cup {e})
  BY <1>1, SeqMonotonic, T \subseteq T \cup {e}
<1>3. /\ Append(q, e) \in Seq(T \cup {e}) /\ Len(Append(q, e)) = Len(q) + 1
      /\ \A n \in 1 .. Len(q) : Append(q, e)[n] = q[n]
      /\ Append(q, e)[Len(q) + 1] = e
  BY <1>2, AppendProperties
<1> QED BY <1>3, OfAnything, SequenceFacts

LEMMA Rewritten ==
    ASSUME NEW q, Sequence(q), NEW k \in DOMAIN q, NEW e
    PROVE  Sequence([q EXCEPT ![k] = e])
<1> DEFINE f == [q EXCEPT ![k] = e]
           T == {f[n] : n \in 1 .. Len(q)}
           z == Len(q)
<1>1. z \in Nat /\ DOMAIN q = 1 .. z
  BY SequenceFacts
<1>2. f \in [1 .. z -> T]
  BY <1>1
<1> HIDE DEF f, T, z
<1>3. f \in Seq(T)
  BY <1>1, <1>2, SeqDef
<1> QED BY <1>3, OfAnything DEF f

-----------------------------------------------------------------------------
(* The methods of the manager *)

\* What a method that is about one watcher leaves alone.
Apart(m, n, id) ==
    /\ Sane(n) /\ Clean(n)
    /\ DOMAIN m.ch \subseteq DOMAIN n.ch
    /\ \A k \in DOMAIN m.ch \ {id} :
          /\ n.ch[k] = m.ch[k]
          /\ W!WithId(n.synced, k) = W!WithId(m.synced, k)
          /\ W!WithId(n.unsynced, k) = W!WithId(m.unsynced, k)

LEMMA SaneFacts ==
    ASSUME NEW m, Sane(m)
    PROVE  /\ Len(m.ch) \in Nat /\ DOMAIN m.ch = 1 .. Len(m.ch)
           /\ m.nextWatcherId = Len(m.ch) + 1
           /\ \A w \in m.synced \cup m.unsynced : w \in Watcher /\ w.id \in DOMAIN m.ch
BY LenProperties DEF Sane

LEMMA NewManagerSane == Sane(W!NewManager) /\ Clean(W!NewManager)
<1> DEFINE m == W!NewManager
<1>1. /\ m.nextWatcherId = 1 /\ m.synced = {} /\ m.unsynced = {} /\ m.ch = <<>>
      /\ IsManager(m)
  BY DEF W!NewManager, IsManager
<1> HIDE DEF m
<1>2. m.ch \in Seq(Channel) /\ Len(m.ch) = 0 /\ DOMAIN m.ch = {}
  BY <1>1, EmptySeq
<1>3. Sane(m) /\ Clean(m)
  BY <1>1, <1>2 DEF Sane, Clean
<1> QED BY <1>3 DEF m

LEMMA RegisteredApart ==
    ASSUME NEW m, Sane(m), Clean(m), NEW target \in Key \cup Prefix, NEW start, NEW rev
    PROVE  LET n  == W!Registered(m, target, start, rev)
               w  == [target |-> target, id |-> m.nextWatcherId]
               in == W!IsSync(start, rev)
           IN  /\ Apart(m, n, m.nextWatcherId)
               /\ m.nextWatcherId \in DOMAIN n.ch /\ m.nextWatcherId \notin DOMAIN m.ch
               /\ n.ch[m.nextWatcherId] = W!EmptyChannel
               /\ W!WithId(n.synced, m.nextWatcherId) = IF in THEN {w} ELSE {}
               /\ W!WithId(n.unsynced, m.nextWatcherId) = IF in THEN {} ELSE {w}
<1> DEFINE id == m.nextWatcherId
           w  == [target |-> target, id |-> id]
           n  == W!Registered(m, target, start, rev)
           in == W!IsSync(start, rev)
<1>1. /\ Len(m.ch) \in Nat /\ DOMAIN m.ch = 1 .. Len(m.ch) /\ id = Len(m.ch) + 1
      /\ \A v \in m.synced \cup m.unsynced : v \in Watcher /\ v.id \in DOMAIN m.ch
  BY SaneFacts
<1>2. w \in Watcher /\ w.id = id
  BY <1>1 DEF Watcher
<1>3. IsManager(m)
  BY DEF Sane
<1>4. /\ n.nextWatcherId = id + 1 /\ n.compactversion = m.compactversion
      /\ n.synced = IF in THEN m.synced \cup {w} ELSE m.synced
      /\ n.unsynced = IF in THEN m.unsynced ELSE m.unsynced \cup {w}
      /\ n.ch = Append(m.ch, W!EmptyChannel)
      /\ IsManager(n)
  <2>1. n = [m EXCEPT !.nextWatcherId = id + 1,
                      !.synced = IF in THEN @ \cup {w} ELSE @,
                      !.unsynced = IF in THEN @ ELSE @ \cup {w},
                      !.ch = Append(@, W!EmptyChannel)]
    BY DEF W!Registered
  <2> HIDE DEF n, w, in
  <2> QED BY <1>3, <2>1 DEF IsManager
<1> HIDE DEF n, w, in
<1>5. /\ n.ch \in Seq(Channel) /\ Len(n.ch) = Len(m.ch) + 1 /\ DOMAIN n.ch = 1 .. Len(m.ch) + 1
      /\ \A k \in 1 .. Len(m.ch) : n.ch[k] = m.ch[k]
      /\ n.ch[id] = W!EmptyChannel
  <2>1. W!EmptyChannel \in Channel /\ m.ch \in Seq(Channel)
    BY EmptySeq DEF Channel, W!EmptyChannel, Sane
  <2> QED BY <1>1, <1>4, <2>1, AppendProperties, LenProperties
<1>7. Sane(n)
  <2>1. n.synced \subseteq Watcher /\ n.unsynced \subseteq Watcher
    BY <1>1, <1>2, <1>4
  <2>2. \A v \in n.synced \cup n.unsynced : v.id \in DOMAIN n.ch
    BY <1>1, <1>2, <1>4, <1>5
  <2>3. n.nextWatcherId = Len(n.ch) + 1 /\ n.nextWatcherId \in Nat
    BY <1>1, <1>4, <1>5
  <2> QED BY <1>4, <1>5, <2>1, <2>2, <2>3 DEF Sane
<1>8. \A k \in DOMAIN m.ch : /\ W!WithId(n.synced, k) = W!WithId(m.synced, k)
                             /\ W!WithId(n.unsynced, k) = W!WithId(m.unsynced, k)
  BY <1>1, <1>2, <1>4 DEF W!WithId
<1>9. /\ W!WithId(n.synced, id) = IF in THEN {w} ELSE {}
      /\ W!WithId(n.unsynced, id) = IF in THEN {} ELSE {w}
  BY <1>1, <1>2, <1>4 DEF W!WithId
<1>10. Clean(n)
  <2> SUFFICES ASSUME NEW k \in DOMAIN n.ch, n.ch[k].closed
               PROVE  ~W!IsRegistered(n, k)
    BY DEF Clean
  <2>1. k \in DOMAIN m.ch /\ m.ch[k].closed
    BY <1>1, <1>5 DEF W!EmptyChannel
  <2> QED BY <1>8, <2>1 DEF Clean, W!IsRegistered, W!WithId
<1>11. Apart(m, n, id)
  BY <1>1, <1>5, <1>7, <1>8, <1>10 DEF Apart
<1>12. id \in DOMAIN n.ch /\ id \notin DOMAIN m.ch
  BY <1>1, <1>5
<1> QED BY <1>5, <1>9, <1>11, <1>12 DEF n, w, in

\* A method that changes one channel and the watchers of its number.
LEMMA OneChannel ==
    ASSUME NEW m, Sane(m), Clean(m), NEW id \in DOMAIN m.ch,
           NEW c \in Channel,
           NEW n, IsManager(n), n.nextWatcherId = m.nextWatcherId,
           n.ch = [m.ch EXCEPT ![id] = c],
           n.synced \cup n.unsynced \subseteq m.synced \cup m.unsynced,
           \A k \in DOMAIN m.ch \ {id} : /\ W!WithId(n.synced, k) = W!WithId(m.synced, k)
                                         /\ W!WithId(n.unsynced, k) = W!WithId(m.unsynced, k),
           c.closed => ~W!IsRegistered(n, id)
    PROVE  Apart(m, n, id) /\ DOMAIN n.ch = DOMAIN m.ch /\ n.ch[id] = c
<1>1. /\ Len(m.ch) \in Nat /\ DOMAIN m.ch = 1 .. Len(m.ch)
      /\ \A v \in m.synced \cup m.unsynced : v \in Watcher /\ v.id \in DOMAIN m.ch
  BY SaneFacts
<1>2. /\ DOMAIN n.ch = DOMAIN m.ch /\ n.ch[id] = c
      /\ \A k \in DOMAIN m.ch \ {id} : n.ch[k] = m.ch[k]
  OBVIOUS
<1>3. n.ch \in Seq(Channel) /\ Len(n.ch) = Len(m.ch)
  <2> DEFINE q == m.ch
  <2>1. q \in Seq(Channel) /\ id \in 1 .. Len(q)
    BY <1>1 DEF Sane
  <2> HIDE DEF q
  <2>2. [q EXCEPT ![id] = c] \in Seq(Channel) /\ Len([q EXCEPT ![id] = c]) = Len(q)
    BY <2>1, ExceptSeq
  <2> QED BY <2>2 DEF q
<1>5. Sane(n)
  BY <1>1, <1>2, <1>3 DEF Sane
<1>6. Clean(n)
  <2> SUFFICES ASSUME NEW k \in DOMAIN n.ch, n.ch[k].closed
               PROVE  ~W!IsRegistered(n, k)
    BY DEF Clean
  <2>1. CASE k = id
    BY <1>2, <2>1
  <2>2. CASE k # id
    <3>1. ~W!IsRegistered(m, k)
      BY <1>2, <2>2 DEF Clean
    <3> QED BY <1>2, <2>2, <3>1 DEF W!IsRegistered, W!WithId
  <2> QED BY <2>1, <2>2
<1> QED BY <1>2, <1>5, <1>6 DEF Apart

LEMMA ChannelFacts ==
    ASSUME NEW m, Sane(m), NEW id \in DOMAIN m.ch
    PROVE  m.ch[id] \in Channel /\ m.ch[id].queue \in Seq(Event)
<1>1. m.ch \in Seq(Channel) /\ id \in 1 .. Len(m.ch)
  BY SaneFacts DEF Sane
<1>2. m.ch[id] \in Channel
  BY <1>1, ElementOfSeq
<1> QED BY <1>2 DEF Channel

\* Nothing but the queue of one channel changes.
LEMMA QueueApart ==
    ASSUME NEW m, Sane(m), Clean(m), NEW id \in DOMAIN m.ch, NEW q \in Seq(Event)
    PROVE  LET n == [m EXCEPT !.ch[id].queue = q]
           IN  /\ Apart(m, n, id) /\ DOMAIN n.ch = DOMAIN m.ch
               /\ n.ch[id].queue = q /\ n.ch[id].closed = m.ch[id].closed
               /\ n.synced = m.synced /\ n.unsynced = m.unsynced
<1> DEFINE n == [m EXCEPT !.ch[id].queue = q]
           c == [m.ch[id] EXCEPT !.queue = q]
<1>1. IsManager(m) /\ m.ch[id] \in Channel
  BY ChannelFacts DEF Sane
<1>2. c \in Channel /\ c.queue = q /\ c.closed = m.ch[id].closed
  BY <1>1 DEF Channel
<1>3. n = [m EXCEPT !.ch = [m.ch EXCEPT ![id] = c]]
  BY <1>1 DEF IsManager, Channel
<1> HIDE DEF n, c
<1>4. /\ n.ch = [m.ch EXCEPT ![id] = c] /\ n.nextWatcherId = m.nextWatcherId
      /\ n.synced = m.synced /\ n.unsynced = m.unsynced /\ IsManager(n)
  BY <1>1, <1>3 DEF IsManager
<1>5. c.closed => ~W!IsRegistered(n, id)
  BY <1>2, <1>4 DEF Clean, W!IsRegistered
<1>6. Apart(m, n, id) /\ DOMAIN n.ch = DOMAIN m.ch /\ n.ch[id] = c
  BY <1>2, <1>4, <1>5, OneChannel
<1> QED BY <1>2, <1>4, <1>6 DEF n

LEMMA RemovedApart ==
    ASSUME NEW m, Sane(m), Clean(m), NEW id \in DOMAIN m.ch
    PROVE  LET n == W!Removed(m, id)
           IN  /\ Apart(m, n, id) /\ DOMAIN n.ch = DOMAIN m.ch
               /\ ~W!IsRegistered(n, id)
               /\ n.ch[id].queue = m.ch[id].queue
               /\ m.ch[id].closed => n.ch[id].closed
               /\ ~W!IsRegistered(m, id) => n.ch[id].closed = m.ch[id].closed
<1> DEFINE found == W!WithId(m.synced \cup m.unsynced, id)
           b == m.ch[id].closed \/ \E w \in found : w.target \in Key
           c == [m.ch[id] EXCEPT !.closed = b]
           n == W!Removed(m, id)
<1>1. IsManager(m) /\ m.ch[id] \in Channel
  BY ChannelFacts DEF Sane
<1>2. c \in Channel /\ c.queue = m.ch[id].queue /\ c.closed = b
  <2>1. b \in BOOLEAN
    OBVIOUS
  <2> HIDE DEF b
  <2> QED BY <1>1, <2>1 DEF Channel
<1>3. n = [m EXCEPT !.synced = @ \ found, !.unsynced = @ \ found,
                    !.ch = [m.ch EXCEPT ![id] = c]]
  BY <1>1 DEF IsManager, W!Removed, Channel
<1> HIDE DEF n, c
<1>4. /\ n.ch = [m.ch EXCEPT ![id] = c] /\ n.nextWatcherId = m.nextWatcherId
      /\ n.synced = m.synced \ found /\ n.unsynced = m.unsynced \ found /\ IsManager(n)
  <2> HIDE DEF found
  <2> QED BY <1>1, <1>3 DEF IsManager
<1>5. ~W!IsRegistered(n, id)
  BY <1>4 DEF W!IsRegistered, W!WithId
<1>6. \A k \in DOMAIN m.ch \ {id} : /\ W!WithId(n.synced, k) = W!WithId(m.synced, k)
                                    /\ W!WithId(n.unsynced, k) = W!WithId(m.unsynced, k)
  BY <1>4 DEF W!WithId
<1>7. Apart(m, n, id) /\ DOMAIN n.ch = DOMAIN m.ch /\ n.ch[id] = c
  BY <1>2, <1>4, <1>5, <1>6, OneChannel
<1>8. n.ch[id].closed = b /\ n.ch[id].queue = m.ch[id].queue
  BY <1>2, <1>7
<1>9. (m.ch[id].closed => b) /\ (~W!IsRegistered(m, id) => b = m.ch[id].closed)
  BY <1>1 DEF W!IsRegistered, Channel
<1> HIDE DEF b
<1> QED BY <1>5, <1>7, <1>8, <1>9 DEF n

LEMMA MovedApart ==
    ASSUME NEW m, Sane(m), Clean(m), NEW id \in DOMAIN m.ch
    PROVE  LET n == W!MovedToSynced(m, id)
           IN  /\ Apart(m, n, id) /\ n.ch = m.ch
               /\ n.synced \cup n.unsynced = m.synced \cup m.unsynced
               /\ \A w \in n.unsynced : w.id = id => w \in m.unsynced /\ w.target \notin Key
<1> DEFINE found == {w \in W!WithId(m.unsynced, id) : w.target \in Key}
           n == W!MovedToSynced(m, id)
<1>1. IsManager(m) /\ n = [m EXCEPT !.unsynced = @ \ found, !.synced = @ \cup found]
  BY DEF Sane, W!MovedToSynced
<1> HIDE DEF n
<1>2. /\ n.ch = m.ch /\ n.nextWatcherId = m.nextWatcherId
      /\ n.synced = m.synced \cup found /\ n.unsynced = m.unsynced \ found /\ IsManager(n)
  <2> HIDE DEF found
  <2> QED BY <1>1 DEF IsManager
<1>3. \A w \in found : w \in m.unsynced /\ w.id = id
  BY DEF W!WithId
<1>4. \A k \in DOMAIN m.ch \ {id} : /\ W!WithId(n.synced, k) = W!WithId(m.synced, k)
                                    /\ W!WithId(n.unsynced, k) = W!WithId(m.unsynced, k)
  <2> HIDE DEF found
  <2> QED BY <1>2, <1>3 DEF W!WithId
<1>5. n.synced \cup n.unsynced = m.synced \cup m.unsynced
  <2> HIDE DEF found
  <2> QED BY <1>2, <1>3
<1>6. m.ch[id].closed => ~W!IsRegistered(n, id)
  BY <1>5 DEF Clean, W!IsRegistered
<1>7. \A w \in n.unsynced : w.id = id => w \in m.unsynced /\ w.target \notin Key
  BY <1>2 DEF W!WithId
<1>8. m.ch = [m.ch EXCEPT ![id] = m.ch[id]]
  <2>1. m.ch \in [1 .. Len(m.ch) -> Channel]
    BY LenProperties DEF Sane
  <2> QED BY <2>1
<1>9. Apart(m, n, id)
  <2> DEFINE c == m.ch[id]
  <2>1. c \in Channel
    BY ChannelFacts
  <2>2. n.ch = [m.ch EXCEPT ![id] = c] /\ (c.closed => ~W!IsRegistered(n, id))
    BY <1>2, <1>6, <1>8
  <2>3. n.synced \cup n.unsynced \subseteq m.synced \cup m.unsynced
    BY <1>5
  <2> HIDE DEF c
  <2> QED BY <1>2, <1>4, <2>1, <2>2, <2>3, OneChannel
<1> QED BY <1>2, <1>5, <1>7, <1>9 DEF n

-----------------------------------------------------------------------------
(* The writes of a log *)

LEMMA RankFacts ==
    ASSUME NEW l, NEW n \in Nat
    PROVE  /\ Rank(l, n) \in Nat /\ Rank(l, 0) = 0
           /\ Rank(l, n + 1) = IF Writes(l, n + 1) THEN Rank(l, n) + 1 ELSE Rank(l, n)
<1> DEFINE To(z) == {m \in 1 .. z : Writes(l, m)}
<1>1. ASSUME NEW z \in Nat PROVE IsFiniteSet(To(z)) /\ Cardinality(To(z)) \in Nat
  <2>1. IsFiniteSet(1 .. z) /\ To(z) \in SUBSET (1 .. z)
    BY FS_Interval
  <2>2. IsFiniteSet(To(z))
    BY <2>1, FS_Subset
  <2> QED BY <2>2, FS_CardinalityType
<1>2. To(0) = {} /\ Cardinality({}) = 0
  BY FS_EmptySet
<1>3. To(n + 1) = IF Writes(l, n + 1) THEN To(n) \cup {n + 1} ELSE To(n)
  <2>1. 1 .. n + 1 = 1 .. n \cup {n + 1}
    OBVIOUS
  <2> QED BY <2>1
<1>4. n + 1 \notin To(n)
  OBVIOUS
<1>5. \A z : Rank(l, z) = Cardinality(To(z))
  BY DEF Rank
<1> HIDE DEF To
<1>6. Cardinality(To(n) \cup {n + 1}) = Cardinality(To(n)) + 1
  BY <1>1, <1>4, FS_AddElement
<1> QED BY <1>1, <1>2, <1>3, <1>5, <1>6

LEMMA RankGrows ==
    ASSUME NEW l, NEW m \in Nat, NEW n \in Nat, m <= n
    PROVE  Rank(l, m) <= Rank(l, n) /\ (m < n /\ Writes(l, n) => Rank(l, m) < Rank(l, n))
<1> DEFINE To(z) == {k \in 1 .. z : Writes(l, k)}
<1>1. ASSUME NEW z \in Nat, NEW y \in Nat, y <= z PROVE Cardinality(To(y)) <= Cardinality(To(z))
  <2>1. IsFiniteSet(1 .. z) /\ To(z) \in SUBSET (1 .. z) /\ To(y) \in SUBSET To(z)
    BY <1>1, FS_Interval
  <2>2. IsFiniteSet(To(z))
    BY <2>1, FS_Subset
  <2> HIDE DEF To
  <2> QED BY <2>1, <2>2, FS_Subset
<1>2. \A z : Rank(l, z) = Cardinality(To(z))
  BY DEF Rank
<1> HIDE DEF To
<1>3. ASSUME m < n, Writes(l, n) PROVE Rank(l, m) < Rank(l, n)
  <2>1. n - 1 \in Nat /\ m <= n - 1 /\ n - 1 + 1 = n
    BY <1>3
  <2>2. Rank(l, m) <= Rank(l, n - 1) /\ Rank(l, m) \in Nat
    BY <1>1, <1>2, <2>1, RankFacts
  <2>3. Rank(l, n) = Rank(l, n - 1) + 1 /\ Rank(l, n - 1) \in Nat
    BY <1>3, <2>1, RankFacts
  <2> QED BY <2>2, <2>3
<1> QED BY <1>1, <1>2, <1>3

\* A log, and the same with an entry more at most.
Grown(l, k) ==
    /\ l \in Seq(Entries) /\ k \in Seq(Entries) /\ Len(l) <= Len(k) /\ Len(k) <= Len(l) + 1
    /\ \A n \in 1 .. Len(l) : k[n] = l[n]

LEMMA GrownRank ==
    ASSUME NEW l, NEW k, Grown(l, k), NEW n \in 0 .. Len(l)
    PROVE  Rank(k, n) = Rank(l, n) /\ (n > 0 => (Writes(k, n) <=> Writes(l, n)))
<1>1. Len(l) \in Nat
  BY LenProperties DEF Grown
<1>2. \A m \in 1 .. n : k[m] = l[m]
  BY <1>1 DEF Grown
<1>3. {m \in 1 .. n : Writes(k, m)} = {m \in 1 .. n : Writes(l, m)}
  BY <1>2 DEF Writes
<1>4. n > 0 => n \in 1 .. n
  BY <1>1
<1> QED BY <1>2, <1>3, <1>4 DEF Rank, Writes

-----------------------------------------------------------------------------
(* The line of a stream, as its node goes on *)

LEMMA EventFacts ==
    ASSUME NEW d \in Seq(Event)
    PROVE  /\ Len(d) \in Nat
           /\ \A n \in 1 .. Len(d) : d[n] \in Event /\ d[n].revision \in Nat
<1>1. Len(d) \in Nat /\ \A n \in 1 .. Len(d) : d[n] \in Event
  BY LenProperties, ElementOfSeq
<1> QED BY <1>1 DEF Event

\* An entry is committed: nobody has collected its revision.
LEMMA DataGrown ==
    ASSUME NEW st, NEW d, NEW on, NEW v, NEW w, Data(st, d, v, on), Grown(v.log, w.log),
           w.store = v.store, w.telling = v.telling, w.collected = v.collected,
           v.collected \in Int, v.collected <= Rank(v.log, Len(v.log))
    PROVE  Data(st, d, w, on)
<1> DEFINE l == v.log
           k == w.log
<1>1. /\ Len(l) \in Nat /\ Len(k) \in Nat /\ Len(l) <= Len(k) /\ Len(k) <= Len(l) + 1
      /\ \A n \in 1 .. Len(l) : k[n] = l[n] /\ Rank(k, n) = Rank(l, n)
                                /\ (Writes(k, n) <=> Writes(l, n))
      /\ Rank(k, Len(l)) = Rank(l, Len(l))
  <2>1. Len(l) \in Nat /\ Len(k) \in Nat
    BY LenProperties DEF Grown
  <2> HIDE DEF l, k
  <2>2. Grown(l, k)
    BY DEF l, k
  <2>3. \A n \in 0 .. Len(l) :
           Rank(k, n) = Rank(l, n) /\ (n > 0 => (Writes(k, n) <=> Writes(l, n)))
    BY <2>2, GrownRank
  <2> QED BY <2>1, <2>2, <2>3 DEF Grown
<1>2. ASSUME NEW n \in 1 .. Len(k), Concerns(st, w, n)
      PROVE  n \in 1 .. Len(l) /\ Concerns(st, v, n)
  <2>1. CASE n \in 1 .. Len(l)
    BY <1>1, <1>2, <2>1 DEF Concerns
  <2>2. CASE n \notin 1 .. Len(l)
    <3>1. n \in Nat /\ Len(l) < n
      BY <1>1, <2>2
    <3>2. Rank(k, Len(l)) < Rank(k, n) /\ Rank(k, n) \in Nat /\ Rank(k, Len(l)) \in Nat
      <4>1. Writes(k, n) /\ Len(l) \in Nat /\ Len(l) <= n
        BY <1>1, <1>2, <3>1 DEF Concerns
      <4> HIDE DEF k, l
      <4> QED BY <3>1, <4>1, RankGrows, RankFacts
    <3>3. Rank(k, n) <= v.collected
      BY <1>2, <3>2 DEF Concerns
    <3> QED BY <1>1, <3>2, <3>3
  <2> QED BY <2>1, <2>2
<1>3. AllHeard(st, d, w, on)
  <2> SUFFICES ASSUME st.at = "serve", on, NEW n \in 1 .. Len(k), Concerns(st, w, n)
               PROVE  UnderWay(st, w, Rank(k, n)) \/ Heard(d, Rank(k, n))
    BY DEF AllHeard
  <2>1. UnderWay(st, v, Rank(l, n)) \/ Heard(d, Rank(l, n))
    BY <1>2 DEF AllHeard, Data
  <2>2. Rank(k, n) = Rank(l, n)
    BY <1>1, <1>2
  <2> QED BY <2>1, <2>2 DEF UnderWay, Telling
<1>4. Ordered(st, d, w) /\ Replaying(st, d, w) /\ Complete(st, d, w) /\ FromStart(st, d, w)
  BY DEF Data, Ordered, Replaying, Complete, FromStart, Rev, Telling
<1> QED BY <1>3, <1>4 DEF Data

\* A compaction takes versions away from the disk.
LEMMA DataCompacted ==
    ASSUME NEW st, NEW d, NEW on, NEW v, NEW w, Data(st, d, v, on), w.log = v.log,
           Rev(w) = Rev(v), w.store.disk \subseteq v.store.disk,
           w.telling = v.telling, w.collected = v.collected
    PROVE  Data(st, d, w, on)
<1>1. Ordered(st, d, w) /\ Replaying(st, d, w) /\ FromStart(st, d, w)
  BY DEF Data, Ordered, Replaying, FromStart, Telling
<1>2. Complete(st, d, w)
  BY DEF Data, Complete
<1>3. AllHeard(st, d, w, on)
  BY DEF Data, AllHeard, Concerns, UnderWay, Telling
<1> QED BY <1>1, <1>2, <1>3 DEF Data

\* A write takes the next revision.
LEMMA DataWritten ==
    ASSUME NEW st, Typed(st), NEW d \in Seq(Event), NEW on, NEW v, NEW w, Data(st, d, v, on),
           w.log = v.log, Rev(v) \in Nat, Rev(w) = Rev(v) + 1,
           \A x \in w.store.disk : x \in v.store.disk \/ x.version = Rev(w),
           v.telling = Idle, w.telling.stage = "written", w.collected = v.collected
    PROVE  Data(st, d, w, on)
<1>1. /\ Len(d) \in Nat /\ \A n \in 1 .. Len(d) : d[n].revision \in Nat
      /\ st.upTo \in Nat /\ st.curRev \in Nat
  BY EventFacts DEF Typed
<1>2. /\ \A n \in 1 .. Len(d) : d[n].revision <= Rev(v)
      /\ st.upTo <= Rev(v) /\ st.curRev <= Rev(v)
  BY DEF Data, Ordered, FromStart
<1>3. ~Telling(st, v) /\ ~Telling(st, w)
  BY DEF Telling, Idle
<1>4. Ordered(st, d, w)
  BY <1>1, <1>2 DEF Data, Ordered
<1>5. Replaying(st, d, w) /\ FromStart(st, d, w)
  BY <1>1, <1>2, <1>3 DEF Data, Replaying, FromStart
<1>6. Complete(st, d, w)
  <2>1. ASSUME NEW x \in w.store.disk, x.version \in st.start + 1 .. st.upTo
        PROVE  x \in v.store.disk
    <3>1. x.version <= st.upTo
      BY <1>1, <2>1 DEF Typed
    <3> QED BY <1>1, <1>2, <2>1, <3>1
  <2> QED BY <2>1 DEF Data, Complete
<1>7. AllHeard(st, d, w, on)
  BY <1>3 DEF Data, AllHeard, Concerns, UnderWay
<1> QED BY <1>4, <1>5, <1>6, <1>7 DEF Data

\* The watchers of the write are collected, all that are registered for its key.
LEMMA DataCollected ==
    ASSUME NEW st, Typed(st), NEW d \in Seq(Event), NEW on, NEW v, NEW w, Data(st, d, v, on),
           w.log = v.log, w.store = v.store, v.telling.stage = "written",
           w.collected = Rev(v), Rev(v) \in Nat, v.collected = Rev(v) - 1,
           w.telling.stage # "written", v.telling.event.revision = Rev(v),
           w.telling.stage = "sending" => w.telling.event = v.telling.event,
           NEW a \in 1 .. Len(v.log), Writes(v.log, a), Rank(v.log, a) = Rev(v),
           v.telling.event.key = v.log[a].key, Len(v.log) \in Nat,
           st.at # "serve" => ~Telling(st, w),
           st.at = "serve" /\ on /\ v.log[a].key \in Covers[st.target] => Telling(st, w)
    PROVE  Data(st, d, w, on)
<1>1. Ordered(st, d, w) /\ Replaying(st, d, w) /\ Complete(st, d, w) /\ FromStart(st, d, w)
  <2>1. Ordered(st, d, w)
    BY DEF Data, Ordered, Rev
  <2>2. Replaying(st, d, w)
    BY DEF Data, Replaying
  <2> QED BY <2>1, <2>2 DEF Data, Complete, FromStart, Rev
<1>2. AllHeard(st, d, w, on)
  <2> SUFFICES ASSUME st.at = "serve", on, NEW n \in 1 .. Len(v.log), Concerns(st, w, n)
               PROVE  UnderWay(st, w, Rank(v.log, n)) \/ Heard(d, Rank(v.log, n))
    BY DEF AllHeard
  <2> DEFINE r == Rank(v.log, n)
  <2>1. r \in Nat /\ r \in st.joined + 1 .. Rev(v) /\ Writes(v.log, n) /\ n \in Nat /\ a \in Nat
    BY RankFacts DEF Concerns
  <2>2. CASE r = Rev(v)
    <3>1. n = a
      <4>1. a < n => Rank(v.log, a) < r
        BY <2>1, RankGrows
      <4>2. n < a => r < Rank(v.log, a)
        BY <2>1, RankGrows
      <4> HIDE DEF r
      <4> QED BY <2>1, <2>2, <4>1, <4>2
    <3>2. Telling(st, w)
      BY <3>1 DEF Concerns
    <3> QED BY <2>2, <3>2 DEF UnderWay, Telling
  <2>3. CASE r # Rev(v)
    <3>1. Concerns(st, v, n)
      <4>1. v.log[n].key \in Covers[st.target]
        BY DEF Concerns
      <4>2. r \in st.joined + 1 .. v.collected
        <5> HIDE DEF r
        <5> QED BY <2>1, <2>3 DEF Typed
      <4> QED BY <2>1, <4>1, <4>2 DEF Concerns
    <3>2. ~UnderWay(st, v, r)
      BY DEF UnderWay, Telling
    <3> QED BY <3>1, <3>2 DEF Data, AllHeard
  <2> QED BY <2>2, <2>3
<1> QED BY <1>1, <1>2 DEF Data

\* The turn of Notify for this stream's channel has room: the event goes into the line.
LEMMA DataSent ==
    ASSUME NEW st, Typed(st), NEW d \in Seq(Event), NEW on, NEW v, NEW w, Data(st, d, v, on),
           w.log = v.log, w.store = v.store, w.collected = v.collected, Rev(v) \in Nat,
           Telling(st, v), v.telling.event \in Event, v.telling.event.revision = Rev(v),
           ~Telling(st, w), w.telling.stage # "written"
    PROVE  Data(st, Append(d, v.telling.event), w, on)
<1> DEFINE e == v.telling.event
           h == Append(d, e)
           z == Len(d)
<1>1. /\ z \in Nat /\ Len(h) = z + 1 /\ h[z + 1] = e
      /\ \A n \in 1 .. z : h[n] = d[n] /\ d[n].revision \in Nat
      /\ e.revision = Rev(v) /\ st.upTo \in Nat /\ st.curRev \in Nat
      /\ st.at = "serve" /\ st.todo = <<>> /\ st.start \in Nat
  <2>1. z \in Nat /\ \A n \in 1 .. z : d[n].revision \in Nat
    BY EventFacts
  <2>2. Len(h) = z + 1 /\ h[z + 1] = e /\ \A n \in 1 .. z : h[n] = d[n]
    BY AppendProperties
  <2>3. st.at = "serve" /\ st.todo = <<>>
    BY DEF Data, Replaying
  <2> QED BY <2>1, <2>2, <2>3 DEF Typed
<1> HIDE DEF h, e, z
<1>2. /\ \A n \in 1 .. z - 1 : \/ d[n].revision < d[n + 1].revision
                               \/ d[n].revision = d[n + 1].revision /\ d[n].revision = st.upTo
      /\ \A n \in 1 .. z : d[n].revision < Rev(v) \/ d[n].revision = st.upTo
      /\ st.upTo <= Rev(v)
  BY <1>1 DEF Data, Ordered, z
<1>3. Ordered(st, h, w)
  <2>1. \A n \in 1 .. Len(h) : h[n].revision <= Rev(w)
    <3>1. \A n \in 1 .. z : d[n].revision <= Rev(v)
      BY <1>1, <1>2
    <3> QED BY <1>1, <3>1 DEF Rev
  <2>2. \A n \in 1 .. Len(h) - 1 :
           \/ h[n].revision < h[n + 1].revision
           \/ h[n].revision = h[n + 1].revision /\ h[n].revision = st.upTo
    <3> TAKE n \in 1 .. Len(h) - 1
    <3>1. CASE n = z
      <4>1. h[n] = d[n] /\ h[n + 1] = e /\ n \in 1 .. z
        BY <1>1, <3>1
      <4>2. d[n].revision < Rev(v) \/ (d[n].revision = st.upTo /\ st.upTo <= Rev(v))
        BY <1>2, <4>1
      <4> QED BY <1>1, <4>1, <4>2
    <3>2. CASE n # z
      <4>1. n \in 1 .. z - 1 /\ n \in 1 .. z /\ n + 1 \in 1 .. z
        BY <1>1, <3>2
      <4> QED BY <1>1, <1>2, <4>1
    <3> QED BY <3>1, <3>2
  <2> QED BY <1>2, <2>1, <2>2 DEF Ordered, Rev
<1>4. Replaying(st, h, w)
  BY <1>1 DEF Replaying
<1>5. \A r : Heard(d, r) => Heard(h, r)
  BY <1>1 DEF Heard, z
<1>6. Complete(st, h, w)
  BY <1>5 DEF Data, Complete
<1>7. FromStart(st, h, w)
  <2>1. /\ st.curRev <= Rev(v)
        /\ st.curRev < st.start \/ \A n \in 1 .. z : d[n].revision >= st.start
    BY DEF Data, FromStart, z
  <2>2. st.curRev < st.start \/ \A n \in 1 .. Len(h) : h[n].revision >= st.start
    BY <1>1, <2>1
  <2> QED BY <2>1, <2>2 DEF FromStart, Rev
<1>8. Heard(h, Rev(v))
  BY <1>1 DEF Heard
<1>9. AllHeard(st, h, w, on)
  <2> SUFFICES ASSUME on, NEW n \in 1 .. Len(v.log), Concerns(st, v, n)
               PROVE  Heard(h, Rank(v.log, n))
    BY DEF AllHeard, Concerns
  <2>1. UnderWay(st, v, Rank(v.log, n)) \/ Heard(d, Rank(v.log, n))
    BY <1>1 DEF Data, AllHeard
  <2> QED BY <1>1, <1>5, <1>8, <2>1 DEF UnderWay, e
<1> QED BY <1>3, <1>4, <1>6, <1>7, <1>9 DEF Data, h, e

\* The turn is another channel's.
LEMMA DataPassed ==
    ASSUME NEW st, NEW d, NEW on, NEW v, NEW w, Data(st, d, v, on),
           w.log = v.log, w.store = v.store, w.collected = v.collected,
           Telling(st, w) <=> Telling(st, v), w.telling.stage # "written",
           w.telling.stage = "sending" => w.telling.event = v.telling.event
    PROVE  Data(st, d, w, on)
<1>1. \A r : UnderWay(st, w, r) <=> UnderWay(st, v, r)
  BY DEF UnderWay, Telling
<1>2. Ordered(st, d, w) /\ Replaying(st, d, w) /\ Complete(st, d, w) /\ FromStart(st, d, w)
  BY DEF Data, Ordered, Replaying, Complete, FromStart, Rev
<1>3. AllHeard(st, d, w, on)
  BY <1>1 DEF Data, AllHeard, Concerns
<1> QED BY <1>2, <1>3 DEF Data

\* The channel was full: the watcher is removed.
LEMMA DataDropped ==
    ASSUME NEW st, NEW d, NEW on, NEW v, NEW w, Data(st, d, v, on),
           w.log = v.log, w.store = v.store, w.collected = v.collected,
           ~Telling(st, w), w.telling.stage # "written"
    PROVE  Data(st, d, w, FALSE)
<1>1. Ordered(st, d, w) /\ Replaying(st, d, w) /\ Complete(st, d, w) /\ FromStart(st, d, w)
  BY DEF Data, Ordered, Replaying, Complete, FromStart, Rev
<1> QED BY <1>1 DEF Data, AllHeard
-----------------------------------------------------------------------------
(* A step of a stream *)

LEMMA LineFacts ==
    ASSUME NEW st, Typed(st), NEW m, Sane(m), st.id \in DOMAIN m.ch
    PROVE  /\ st.sent \in Seq(Event) /\ m.ch[st.id].queue \in Seq(Event)
           /\ Line(st, m) \in Seq(Event)
BY ChannelFacts, ConcatProperties DEF Typed, Line

LEMMA OwnApart ==
    ASSUME NEW m, NEW n, NEW id, Apart(m, n, id), NEW st, st.id # id, NEW v, OwnData(st, m, v)
    PROVE  OwnData(st, n, v)
<1>1. st.id \in DOMAIN m.ch /\ st.id \in DOMAIN n.ch
  BY DEF OwnData, OwnWatcher, Apart
<1>2. \A w : w.id = st.id => /\ w \in n.synced <=> w \in m.synced
                             /\ w \in n.unsynced <=> w \in m.unsynced
  BY <1>1 DEF Apart, W!WithId
<1>3. OwnWatcher(st, n)
  BY <1>1, <1>2 DEF OwnData, OwnWatcher
<1>4. W!IsRegistered(n, st.id) = W!IsRegistered(m, st.id)
  BY <1>2 DEF W!IsRegistered, W!WithId
<1>5. Line(st, n) = Line(st, m)
  BY <1>1 DEF Apart, Line
<1> QED BY <1>3, <1>4, <1>5 DEF OwnData

\* Stream s becomes st and its node's manager m, by a method about the channel id.
StreamMoves(s, st, m, id) ==
    /\ Typed(st) /\ st.node = streams[s].node /\ (streams[s].gone => st.gone)
    /\ streams' = [streams EXCEPT ![s] = st]
    /\ DOMAIN watchers' = Node
    /\ \A i \in Node : watchers'[i] = IF i = st.node THEN m ELSE watchers[i]
    /\ UNCHANGED <<log, applied, store, telling, down, collected>>
    /\ Watching'
    /\ Apart(Mine(s), m, id)
    /\ IF Joined(s) THEN id = streams[s].id ELSE id \notin DOMAIN Mine(s).ch
    /\ id \in DOMAIN Mine(s).ch /\ m.ch[id].closed => Mine(s).ch[id].closed \/ st.gone
    /\ Fresh(st, View(st.node))
    /\ st.at \in JoinedStages => st.id = id /\ OwnData(st, m, View(st.node))

LEMMA StreamMovesKeeps ==
    ASSUME WatchInv, NEW s \in DOMAIN streams, NEW st, NEW m, NEW id, StreamMoves(s, st, m, id)
    PROVE  WatchInv'
<1> DEFINE h == st.node
<1>1. /\ Typed(st) /\ h = streams[s].node /\ h \in Node /\ (streams[s].gone => st.gone)
      /\ Shapes
      /\ \A i \in Node : NodeOk(i)
      /\ \A t \in DOMAIN streams : StreamOk(t)
  BY DEF StreamMoves, WatchInv, Typed
<1>2. /\ DOMAIN streams' = DOMAIN streams /\ streams'[s] = st
      /\ \A t \in DOMAIN streams : t # s => streams'[t] = streams[t]
      /\ DOMAIN watchers' = Node
      /\ \A i \in Node : watchers'[i] = IF i = h THEN m ELSE watchers[i]
  BY DEF StreamMoves
<1>3. /\ log' = log /\ applied' = applied /\ store' = store /\ telling' = telling
      /\ down' = down /\ collected' = collected /\ Watching'
      /\ \A i : View(i)' = View(i)
  BY DEF StreamMoves, View
<1>4. Apart(watchers[h], m, id) /\ Sane(watchers[h]) /\ Mine(s) = watchers[h]
  BY <1>1 DEF StreamMoves, Mine, NodeOk
<1>5. Sequence(streams')
  BY <1>1, Rewritten DEF StreamMoves, Shapes
<1>6. Shapes'
  BY <1>1, <1>2, <1>3, <1>5 DEF Shapes
<1>7. \A i \in Node : Broken(i) => Broken(i)'
  BY <1>1, <1>2 DEF Broken
<1>8. ASSUME NEW i \in Node PROVE NodeOk(i)'
  <2>1. NodeOk(i) /\ (Broken(i) => Broken(i)')
    BY <1>1, <1>7
  <2>2. Sane(watchers'[i]) /\ Clean(watchers'[i]) /\ DOMAIN watchers[i].ch \subseteq DOMAIN watchers'[i].ch
    BY <1>2, <1>4, <2>1 DEF Apart, NodeOk
  <2>3. Counts(i)'
    BY <1>3, <2>1 DEF NodeOk, Counts
  <2>4. Told(i)'
    BY <1>3, <2>1, <2>2 DEF NodeOk, Told, Idle
  <2>5. LeftOnly(i)'
    <3> SUFFICES ASSUME telling[i].stage = "sending", NEW k \in telling[i].to,
                        watchers'[i].ch[k].closed
                 PROVE  Broken(i)'
      BY <1>3 DEF LeftOnly
    <3>1. k \in DOMAIN watchers[i].ch
      BY <2>1 DEF NodeOk, Told, Idle
    <3>2. CASE i = h /\ k = id
      <4>1. watchers[i].ch[k].closed \/ st.gone
        BY <1>2, <1>4, <3>1, <3>2 DEF StreamMoves
      <4>2. st.gone => Broken(i)'
        BY <1>2, <3>2 DEF Broken
      <4> QED BY <2>1, <4>1, <4>2 DEF NodeOk, LeftOnly
    <3>3. CASE ~(i = h /\ k = id)
      <4>1. watchers[i].ch[k].closed
        BY <1>2, <1>4, <3>1, <3>3 DEF Apart
      <4> QED BY <2>1, <4>1 DEF NodeOk, LeftOnly
    <3> QED BY <3>2, <3>3
  <2> QED BY <1>3, <2>1, <2>2, <2>3, <2>4, <2>5 DEF NodeOk
<1>9. Joined(s) => id = streams[s].id
  BY DEF StreamMoves
<1>10. ~Joined(s) => id \notin DOMAIN watchers[h].ch
  BY <1>4 DEF StreamMoves
<1>11. \A t \in DOMAIN streams : t # s /\ Joined(t) /\ streams[t].node = h => streams[t].id # id
  BY <1>1, <1>9, <1>10 DEF StreamOk, Alone, OwnData, OwnWatcher, Mine
<1>12. ASSUME NEW t \in DOMAIN streams', t # s PROVE StreamOk(t)'
  <2>1. /\ StreamOk(t) /\ streams'[t] = streams[t] /\ Joined(t)' = Joined(t)
        /\ streams[t].node \in Node
    BY <1>1, <1>2, <1>12 DEF Joined, StreamOk, Typed
  <2>2. Joined(t) => OwnData(streams[t], Mine(t)', View(streams[t].node))
    BY <1>2, <1>4, <1>11, <1>12, <2>1, OwnApart DEF Mine, StreamOk
  <2>3. Joined(t) => Alone(t)'
    <3> SUFFICES ASSUME Joined(t), NEW u \in DOMAIN streams, u # t, Joined(u)',
                        streams'[u].node = streams[t].node, streams'[u].id = streams[t].id
                 PROVE  FALSE
      BY <1>2, <2>1 DEF Alone
    <3>1. CASE u = s
      <4>1. st.id = id /\ streams[t].node = h
        BY <1>2, <3>1 DEF StreamMoves, Joined
      <4> QED BY <1>2, <1>11, <1>12, <3>1, <4>1
    <3>2. CASE u # s
      BY <1>2, <2>1, <3>2 DEF StreamOk, Alone, Joined
    <3> QED BY <3>1, <3>2
  <2>4. View(streams[t].node)' = View(streams[t].node)
    BY <1>3, <2>1 DEF View
  <2> QED BY <2>1, <2>2, <2>3, <2>4 DEF StreamOk
<1>13. StreamOk(s)'
  <2>1. streams'[s] = st /\ Mine(s)' = m /\ View(streams[s].node)' = View(h)
    BY <1>1, <1>2, <1>3 DEF Mine, View
  <2>2. Joined(s)' => OwnData(st, m, View(h)) /\ st.id = id
    BY <2>1 DEF StreamMoves, Joined
  <2>3. Joined(s)' => Alone(s)'
    BY <1>2, <1>11, <2>1, <2>2 DEF Alone, Joined
  <2>4. Fresh(st, View(h))
    BY DEF StreamMoves
  <2> QED BY <1>1, <2>1, <2>2, <2>3, <2>4 DEF StreamOk
<1> QED BY <1>2, <1>6, <1>8, <1>12, <1>13 DEF WatchInv

LEMMA StreamFacts ==
    ASSUME WatchInv, NEW s \in DOMAIN streams
    PROVE  /\ Typed(streams[s]) /\ streams[s].node \in Node
           /\ Mine(s) = watchers[streams[s].node] /\ Sane(Mine(s)) /\ Clean(Mine(s))
           /\ NodeOk(streams[s].node) /\ Fresh(streams[s], View(streams[s].node))
           /\ Joined(s) => /\ OwnData(streams[s], Mine(s), View(streams[s].node))
                           /\ OwnWatcher(streams[s], Mine(s)) /\ streams[s].id \in DOMAIN Mine(s).ch
<1>1. Typed(streams[s]) /\ streams[s].node \in Node
  BY DEF WatchInv, StreamOk, Typed
<1>2. NodeOk(streams[s].node)
  BY <1>1 DEF WatchInv
<1> QED BY <1>1, <1>2 DEF WatchInv, StreamOk, OwnData, OwnWatcher, NodeOk, Mine

\* The manager is left alone.
LEMMA LocalKeeps ==
    ASSUME WatchInv, NEW s \in DOMAIN streams, NEW st, Typed(st), Set(s, st),
           st.node = streams[s].node, streams[s].gone => st.gone,
           UNCHANGED <<log, nodeVars, collected>>, Watching', Fresh(st, View(st.node)),
           st.at \in JoinedStages =>
               Joined(s) /\ st.id = streams[s].id /\ OwnData(st, Mine(s), View(st.node))
    PROVE  WatchInv'
<1> DEFINE m == Mine(s)
           id == IF Joined(s) THEN streams[s].id ELSE m.nextWatcherId
<1>1. Sane(m) /\ Clean(m) /\ m = watchers[st.node]
  BY StreamFacts
<1>2. Joined(s) \/ id \notin DOMAIN m.ch
  BY <1>1, SaneFacts
<1>3. Apart(m, m, id)
  BY <1>1 DEF Apart
<1>4. DOMAIN watchers' = Node /\ \A i \in Node : watchers'[i] = IF i = st.node THEN m ELSE watchers[i]
  BY <1>1 DEF WatchInv, Shapes, nodeVars
<1>5. StreamMoves(s, st, m, id)
  BY <1>1, <1>2, <1>3, <1>4 DEF StreamMoves, Set, nodeVars
<1> QED BY <1>5, StreamMovesKeeps

\* One channel of the manager changes.
LEMMA MethodKeeps ==
    ASSUME WatchInv, NEW s \in DOMAIN streams, NEW st, Typed(st), Set(s, st),
           st.node = streams[s].node, streams[s].gone => st.gone,
           NEW m, ToManager(s, m), UNCHANGED <<log, applied, store, telling, down, collected>>,
           Watching', Joined(s), Apart(Mine(s), m, streams[s].id),
           m.ch[streams[s].id].closed => Mine(s).ch[streams[s].id].closed \/ st.gone,
           Fresh(st, View(st.node)),
           st.at \in JoinedStages => st.id = streams[s].id /\ OwnData(st, m, View(st.node))
    PROVE  WatchInv'
<1>1. DOMAIN watchers' = Node /\ \A i \in Node : watchers'[i] = IF i = st.node THEN m ELSE watchers[i]
  BY StreamFacts DEF WatchInv, Shapes, ToManager
<1>2. StreamMoves(s, st, m, streams[s].id)
  BY <1>1 DEF StreamMoves, Set
<1> QED BY <1>2, StreamMovesKeeps

LEMMA WatchingKept == WatchInv /\ UNCHANGED watching => Watching'
BY DEF WatchInv, Shapes, Watching

LEMMA OverFacts ==
    ASSUME NEW st, Typed(st)
    PROVE  /\ Typed(Over(st)) /\ Over(st).node = st.node /\ Over(st).gone = st.gone
           /\ Over(st).at = "ended" /\ ~(Over(st).at \in JoinedStages)
           /\ \A v : Fresh(Over(st), v)
<1> DEFINE o == Over(st)
<1>1. IsStream(st) /\ o = [st EXCEPT !.at = "ended", !.curRev = 0, !.todo = <<>>, !.sent = <<>>,
                                     !.upTo = 0, !.joined = 0]
  BY DEF Over, Typed
<1> HIDE DEF o
<1>2. o = [client |-> st.client, node |-> st.node, target |-> st.target, start |-> st.start,
           at |-> "ended", gone |-> st.gone, curRev |-> 0, id |-> st.id, todo |-> <<>>,
           sent |-> <<>>, upTo |-> 0, joined |-> 0]
  BY <1>1 DEF IsStream
<1>3. /\ IsStream(o) /\ o.node = st.node /\ o.gone = st.gone /\ o.at = "ended"
      /\ o.target = st.target /\ o.start = st.start /\ o.curRev = 0 /\ o.upTo = 0
      /\ o.todo = <<>> /\ o.sent = <<>> /\ o.joined = 0
  BY <1>2 DEF IsStream
<1>4. <<>> \in Seq(Nat) /\ <<>> \in Seq(Event)
  BY EmptySeq
<1>5. Typed(o)
  BY <1>3, <1>4 DEF Typed, Stages
<1> QED BY <1>3, <1>5 DEF Fresh, JoinedStages, o

\* What a stream knows of its node.
LEMMA ViewFacts ==
    ASSUME WatchInv, NEW s \in DOMAIN streams
    PROVE  LET v == View(streams[s].node)
           IN  /\ v.log = log /\ v.store = MyStore(s)
               /\ v.telling = telling[streams[s].node] /\ v.collected = collected[streams[s].node]
               /\ MP!Indexed(MyStore(s)) /\ Rev(v) = MyStore(s).currentRev /\ Rev(v) \in Nat
               /\ v.collected \in Int
               /\ \A id : v.telling.stage = "sending" /\ id \in v.telling.to =>
                             id \in DOMAIN Mine(s).ch
<1> DEFINE i == streams[s].node
<1>1. NodeOk(i) /\ Mine(s) = watchers[i] /\ MyStore(s) = store[i]
  BY StreamFacts DEF MyStore
<1>2. MP!Indexed(store[i]) /\ store[i].currentRev \in Nat
  BY <1>1 DEF NodeOk, Counts, MP!Indexed
<1>3. collected[i] \in Int
  BY <1>1, <1>2 DEF NodeOk, Told
<1>4. telling[i].stage = "sending" => telling[i].to \subseteq DOMAIN watchers[i].ch
  BY <1>1 DEF NodeOk, Told, Idle
<1> QED BY <1>1, <1>2, <1>3, <1>4 DEF View, Rev

LEMMA RefuseKeeps == ASSUME WatchInv, NEW s \in DOMAIN streams, Refuse(s) PROVE WatchInv'
<1>1. Typed(streams[s]) /\ UNCHANGED <<log, nodeVars, watching, collected>> /\ Set(s, Over(streams[s]))
  BY StreamFacts DEF Refuse
<1> QED BY <1>1, OverFacts, WatchingKept, LocalKeeps

LEMMA ReadRevisionKeeps == ASSUME WatchInv, NEW s \in DOMAIN streams, ReadRevision(s) PROVE WatchInv'
<1> DEFINE o == streams[s]
           st == [o EXCEPT !.at = "register", !.curRev = MyStore(s).currentRev]
<1>1. /\ Typed(o) /\ UNCHANGED <<log, nodeVars, watching, collected>> /\ Set(s, st)
      /\ o.at = "called" /\ Fresh(o, View(o.node))
      /\ MyStore(s).currentRev \in Nat /\ Rev(View(o.node)) = MyStore(s).currentRev
  BY StreamFacts, ViewFacts DEF ReadRevision
<1> DEFINE r == MyStore(s).currentRev
<1>2. /\ Typed(st) /\ st.node = o.node /\ st.gone = o.gone /\ st.at = "register"
      /\ st.curRev = r /\ st.sent = o.sent /\ st.todo = o.todo /\ st.upTo = o.upTo
  <2> HIDE DEF o, r
  <2>1. IsStream(o) /\ st = [o EXCEPT !.at = "register", !.curRev = r]
    BY <1>1 DEF Typed, r
  <2> HIDE DEF st
  <2>2. st = [client |-> o.client, node |-> o.node, target |-> o.target, start |-> o.start,
              at |-> "register", gone |-> o.gone, curRev |-> r, id |-> o.id, todo |-> o.todo,
              sent |-> o.sent, upTo |-> o.upTo, joined |-> o.joined]
    BY <2>1 DEF IsStream
  <2> QED BY <1>1, <2>2 DEF Typed, IsStream, Stages, r
<1>3. Fresh(st, View(st.node))
  BY <1>1, <1>2 DEF Fresh
<1> HIDE DEF st
<1>4. ~(st.at \in JoinedStages)
  BY <1>2 DEF JoinedStages
<1> QED BY <1>1, <1>2, <1>3, <1>4, WatchingKept, LocalKeeps

LEMMA BreakKeeps == ASSUME WatchInv, NEW s \in DOMAIN streams, Break(s) PROVE WatchInv'
<1> DEFINE o == streams[s]
           st == [o EXCEPT !.gone = TRUE]
<1>1. Typed(o) /\ UNCHANGED <<log, nodeVars, watching, collected>> /\ Set(s, st)
  BY StreamFacts DEF Break
<1>2. st = [client |-> o.client, node |-> o.node, target |-> o.target, start |-> o.start,
            at |-> o.at, gone |-> TRUE, curRev |-> o.curRev, id |-> o.id, todo |-> o.todo,
            sent |-> o.sent, upTo |-> o.upTo, joined |-> o.joined]
  <2>1. IsStream(o) /\ st = [o EXCEPT !.gone = TRUE]
    BY <1>1 DEF Typed
  <2> HIDE DEF o, st
  <2> QED BY <2>1 DEF IsStream
<1> HIDE DEF st
<1>3. /\ Typed(st) /\ st.node = o.node /\ st.gone /\ st.at = o.at
      /\ st.id = o.id /\ st.target = o.target /\ st.sent = o.sent /\ st.start = o.start
      /\ st.joined = o.joined /\ st.curRev = o.curRev /\ st.todo = o.todo /\ st.upTo = o.upTo
  BY <1>1, <1>2 DEF Typed, IsStream
<1>4. st.at \in JoinedStages => Joined(s) /\ OwnData(st, Mine(s), View(o.node))
  <2> SUFFICES ASSUME st.at \in JoinedStages PROVE Joined(s) /\ OwnData(st, Mine(s), View(o.node))
    OBVIOUS
  <2>1. Joined(s) /\ OwnData(o, Mine(s), View(o.node))
    BY <1>3, StreamFacts DEF Joined
  <2> DEFINE m == Mine(s)
             v == View(o.node)
  <2> HIDE DEF o, m, v
  <2>2. OwnWatcher(st, m) /\ Line(st, m) = Line(o, m)
    BY <1>3, <2>1 DEF OwnData, OwnWatcher, Line, m, v
  <2>3. Data(st, Line(o, m), v, W!IsRegistered(m, o.id))
    <3> DEFINE d == Line(o, m)
               on == W!IsRegistered(m, o.id)
    <3>1. Data(o, d, v, on)
      BY <2>1 DEF OwnData, m, v
    <3> HIDE DEF d, on
    <3>2. Ordered(st, d, v) /\ Replaying(st, d, v) /\ Complete(st, d, v) /\ FromStart(st, d, v)
      BY <1>3, <3>1 DEF Data, Ordered, Replaying, Complete, FromStart, Telling
    <3>3. AllHeard(st, d, v, on)
      BY <1>3, <3>1 DEF Data, AllHeard, Concerns, UnderWay, Telling
    <3> QED BY <3>2, <3>3 DEF Data, d, on
  <2> QED BY <1>3, <2>1, <2>2, <2>3 DEF OwnData, m, v
<1>5. Fresh(st, View(st.node))
  <2>1. Fresh(o, View(o.node))
    BY StreamFacts
  <2> QED BY <1>3, <2>1 DEF Fresh
<1> QED BY <1>1, <1>3, <1>4, <1>5, WatchingKept, LocalKeeps

LEMMA RegisterKeeps == ASSUME WatchInv, NEW s \in DOMAIN streams, Register(s) PROVE WatchInv'
<1> DEFINE o == streams[s]
           m == Mine(s)
           n == W!Registered(m, o.target, o.start, o.curRev)
           replays == o.start > 0 /\ o.start < o.curRev /\ o.target \in Key
           id == m.nextWatcherId
           v == View(o.node)
           st == [o EXCEPT !.at = IF replays THEN "history" ELSE "serve", !.id = id,
                           !.joined = collected[o.node]]
<1>1. /\ Typed(o) /\ o.at = "register" /\ ToManager(s, n) /\ Set(s, st)
      /\ UNCHANGED <<log, applied, store, telling, down, watching, collected>>
      /\ Sane(m) /\ Clean(m) /\ Fresh(o, v) /\ o.node \in Node /\ m = watchers[o.node]
      /\ collected[o.node] \in Int /\ v.collected = collected[o.node] /\ Rev(v) \in Nat
  BY StreamFacts, ViewFacts DEF Register
<1>2. /\ o.target \in Key \cup Prefix /\ o.start \in Nat /\ o.curRev \in Nat
      /\ o.sent = <<>> /\ o.todo = <<>> /\ o.upTo = 0 /\ o.curRev <= Rev(v)
  BY <1>1 DEF Typed, Fresh
<1>3. st = [client |-> o.client, node |-> o.node, target |-> o.target, start |-> o.start,
            at |-> IF replays THEN "history" ELSE "serve", gone |-> o.gone,
            curRev |-> o.curRev, id |-> id, todo |-> o.todo,
            sent |-> o.sent, upTo |-> o.upTo, joined |-> collected[o.node]]
  <2> DEFINE x == IF replays THEN "history" ELSE "serve"
  <2>1. IsStream(o) /\ st = [o EXCEPT !.at = x, !.id = id, !.joined = collected[o.node]]
    BY <1>1 DEF Typed
  <2> HIDE DEF o, st, id, x
  <2>2. st = [client |-> o.client, node |-> o.node, target |-> o.target, start |-> o.start,
              at |-> x, gone |-> o.gone, curRev |-> o.curRev, id |-> id, todo |-> o.todo,
              sent |-> o.sent, upTo |-> o.upTo, joined |-> collected[o.node]]
    BY <2>1 DEF IsStream
  <2> QED BY <2>2 DEF x
<1> DEFINE w == [target |-> o.target, id |-> id]
           in == W!IsSync(o.start, o.curRev)
<1>4. /\ Apart(m, n, id) /\ id \in DOMAIN n.ch /\ id \notin DOMAIN m.ch
      /\ n.ch[id] = W!EmptyChannel
      /\ W!WithId(n.synced, id) = IF in THEN {w} ELSE {}
      /\ W!WithId(n.unsynced, id) = IF in THEN {} ELSE {w}
  <2> DEFINE target == o.target
             start == o.start
             rev == o.curRev
             g == W!Registered(m, target, start, rev)
             x == [target |-> target, id |-> m.nextWatcherId]
  <2>1. Sane(m) /\ Clean(m) /\ target \in Key \cup Prefix
    BY <1>1, <1>2
  <2> HIDE DEF m, n, in, w, target, start, rev
  <2>2. /\ Apart(m, g, m.nextWatcherId)
        /\ m.nextWatcherId \in DOMAIN g.ch /\ m.nextWatcherId \notin DOMAIN m.ch
        /\ g.ch[m.nextWatcherId] = W!EmptyChannel
        /\ W!WithId(g.synced, m.nextWatcherId) = IF W!IsSync(start, rev) THEN {x} ELSE {}
        /\ W!WithId(g.unsynced, m.nextWatcherId) = IF W!IsSync(start, rev) THEN {} ELSE {x}
    BY <2>1, RegisteredApart
  <2> QED BY <2>2 DEF n, in, w, target, start, rev
<1>5. id \in Nat
  BY <1>1, SaneFacts
<1>6. in <=> ~(o.start > 0 /\ o.start < o.curRev)
  BY <1>2 DEF W!IsSync
<1> HIDE DEF st, n, w, in
<1>7. /\ Typed(st) /\ st.node = o.node /\ st.gone = o.gone /\ st.id = id
      /\ st.at = IF replays THEN "history" ELSE "serve"
      /\ st.target = o.target /\ st.sent = <<>> /\ st.start = o.start
      /\ st.joined = v.collected /\ st.curRev = o.curRev /\ st.todo = <<>> /\ st.upTo = 0
  <2> HIDE DEF o, v, id
  <2>1. /\ IsStream(st) /\ st.node = o.node /\ st.gone = o.gone /\ st.id = id
        /\ st.at = IF replays THEN "history" ELSE "serve"
        /\ st.target = o.target /\ st.sent = o.sent /\ st.start = o.start
        /\ st.joined = v.collected /\ st.curRev = o.curRev /\ st.todo = o.todo /\ st.upTo = o.upTo
    BY <1>1, <1>3 DEF IsStream
  <2> QED BY <1>1, <1>2, <2>1 DEF Typed, Stages
<1>8. OwnWatcher(st, n)
  <2>1. ASSUME NEW x \in n.synced, x.id = id PROVE x = w /\ in
    BY <1>4, <2>1 DEF W!WithId
  <2>2. ASSUME NEW x \in n.unsynced, x.id = id PROVE x = w /\ ~in
    BY <1>4, <2>2 DEF W!WithId
  <2>3. w.target = o.target
    BY DEF w
  <2> HIDE DEF o, id
  <2> QED BY <1>2, <1>4, <1>6, <1>7, <2>1, <2>2, <2>3 DEF OwnWatcher
<1>9. Line(st, n) = <<>>
  <2>1. n.ch[id].queue = <<>>
    BY <1>4 DEF W!EmptyChannel
  <2>2. <<>> \o <<>> = <<>>
    BY EmptySeq, ConcatEmptySeq
  <2> QED BY <1>7, <2>1, <2>2 DEF Line
<1>10. ~Telling(st, v)
  <2>1. v.telling.stage = "sending" /\ st.id \in v.telling.to => st.id \in DOMAIN m.ch
    BY ViewFacts
  <2> QED BY <1>4, <1>7, <2>1 DEF Telling
<1>11. \A on : Data(st, <<>>, v, on)
  <2>1. Len(<<>>) = 0 /\ 1 .. 0 = {} /\ 1 .. 0 - 1 = {}
    BY EmptySeq
  <2> HIDE DEF o, v, id
  <2>2. Ordered(st, <<>>, v)
    BY <1>1, <1>7, <2>1 DEF Ordered
  <2>3. Replaying(st, <<>>, v)
    BY <1>7, <1>10 DEF Replaying
  <2>4. Complete(st, <<>>, v)
    <3>1. st.start + 1 .. st.upTo = {}
      BY <1>2, <1>7
    <3> QED BY <3>1 DEF Complete
  <2>5. FromStart(st, <<>>, v)
    BY <1>2, <1>7, <2>1 DEF FromStart
  <2>6. \A x : ~Concerns(st, v, x)
    BY <1>1, <1>7 DEF Concerns
  <2> QED BY <2>2, <2>3, <2>4, <2>5, <2>6 DEF Data, AllHeard
<1>12. OwnData(st, n, v)
  BY <1>8, <1>9, <1>11 DEF OwnData
<1>13. Fresh(st, v)
  BY <1>7 DEF Fresh
<1>14. ~Joined(s)
  BY <1>1 DEF Joined, JoinedStages
<1>15. DOMAIN watchers' = Node /\ \A i \in Node : watchers'[i] = IF i = st.node THEN n ELSE watchers[i]
  BY <1>1, <1>7 DEF WatchInv, Shapes, ToManager
<1>16. StreamMoves(s, st, n, id)
  BY <1>1, <1>4, <1>7, <1>12, <1>13, <1>14, <1>15, WatchingKept DEF StreamMoves, Set
<1> QED BY <1>16, StreamMovesKeeps

\* The operators of the store are those that the lemmas about it speak of.
LEMMA SameStore ==
    /\ \A q : M!Elements(q) = MP!Elements(q)
    /\ \A q, T : M!Kept(q, T) = MP!Kept(q, T)
    /\ \A x, key, version : M!Get(x, key, version) = MP!Get(x, key, version)
    /\ M!NewStore = MP!NewStore
<1>1. \A q : M!Elements(q) = MP!Elements(q)
  BY DEF M!Elements, MP!Elements
<1>2. \A q, T : M!Kept(q, T) = MP!Kept(q, T)
  BY DEF M!Kept, MP!Kept
<1>3. \A q, v : M!FindLE(q, v) = MP!FindLE(q, v)
  BY DEF M!FindLE, MP!FindLE
<1>4. \A x, key, version : M!Get(x, key, version) = MP!Get(x, key, version)
  BY <1>3 DEF M!Get, MP!Get
<1>5. M!NewStore = MP!NewStore
  BY DEF M!NewStore, MP!NewStore
<1> QED BY <1>1, <1>2, <1>4, <1>5

\* The methods of the store keep its indexes.
LEMMA WrittenKept ==
    ASSUME NEW x, MP!Indexed(x), NEW key \in Key, NEW writer, NEW deleted
    PROVE  LET t == M!Written(x, key, writer, deleted)
           IN  /\ MP!Indexed(t) /\ t.currentRev = x.currentRev + 1
               /\ \A d \in t.disk : d \in x.disk \/ d.version = t.currentRev
<1>1. M!Written(x, key, writer, deleted) = MP!Written(x, key, writer, deleted)
  BY DEF M!Written, MP!Written, M!Stored, MP!Stored
<1> QED BY <1>1, MP!WrittenIndexed

LEMMA CompactedKept ==
    ASSUME NEW x, MP!Indexed(x), NEW c
    PROVE  LET t == M!Compacted(x, c)
           IN  MP!Indexed(t) /\ t.currentRev = x.currentRev /\ t.disk \subseteq x.disk
<1>2. \A k, v : M!Superseded(x, k, v, c) = MP!Superseded(x, k, v, c)
  BY SameStore DEF M!Superseded, MP!Superseded
<1> DEFINE t == M!Compacted(x, c)
<1>3. \E keys, index : MP!Compacts(x, t, c, keys, index)
  <2>1. PICK keys, index :
           t = [x EXCEPT
                  !.history    = [k \in Key |-> M!Kept(@[k],
                      {v \in M!Elements(@[k]) : ~(k \in keys /\ M!Superseded(x, k, v, c))})],
                  !.disk       = {d \in @ : ~(d.key \in keys /\ M!Superseded(x, d.key, d.version, c))},
                  !.revisions  = SubSeq(@, index + 1, Len(@)),
                  !.compactrev = c]
    BY DEF M!Compacted
  <2> HIDE DEF t
  <2>2. \A k : {v \in M!Elements(x.history[k]) : ~(k \in keys /\ M!Superseded(x, k, v, c))}
             = {v \in MP!Elements(x.history[k]) : ~(k \in keys /\ MP!Superseded(x, k, v, c))}
    BY <1>2, SameStore
  <2>3. [k \in Key |-> M!Kept(x.history[k],
            {v \in M!Elements(x.history[k]) : ~(k \in keys /\ M!Superseded(x, k, v, c))})]
      = [k \in Key |-> MP!Kept(x.history[k],
            {v \in MP!Elements(x.history[k]) : ~(k \in keys /\ MP!Superseded(x, k, v, c))})]
    BY <2>2, SameStore
  <2>4. {d \in x.disk : ~(d.key \in keys /\ M!Superseded(x, d.key, d.version, c))}
      = {d \in x.disk : ~(d.key \in keys /\ MP!Superseded(x, d.key, d.version, c))}
    BY <1>2
  <2>5. MP!Compacts(x, t, c, keys, index)
    BY <2>1, <2>3, <2>4, Zenon DEF MP!Compacts
  <2> QED BY <2>5
<1>4. MP!Indexed(t) /\ t.currentRev = x.currentRev /\ t.disk \subseteq x.disk
  <2> HIDE DEF t
  <2>1. PICK keys, index : MP!Compacts(x, t, c, keys, index)
    BY <1>3 DEF t
  <2> QED BY <2>1, MP!CompactsIndexed
<1> QED BY <1>4

\* A step that changes what a stream has still to do, and no more than that.
SameStream(o, st) ==
    /\ st.node = o.node /\ st.gone = o.gone /\ st.id = o.id /\ st.target = o.target
    /\ st.start = o.start /\ st.curRev = o.curRev

LEMMA HistoryKeeps == ASSUME WatchInv, NEW s \in DOMAIN streams, History(s) PROVE WatchInv'
<1> DEFINE o == streams[s]
           m == Mine(s)
           v == View(o.node)
           x == MyStore(s)
           revs == x.history[o.target]
           newer == {rev \in MP!Elements(revs) : rev > o.start}
           todo == MP!Kept(revs, newer)
           st == [o EXCEPT !.at = "replay", !.todo = todo, !.upTo = x.currentRev]
<1>1. /\ Typed(o) /\ UNCHANGED <<log, nodeVars, watching, collected>> /\ o.at = "history"
      /\ MP!Indexed(x) /\ Rev(v) = x.currentRev /\ v.store = x /\ Rev(v) \in Nat
  BY StreamFacts, ViewFacts DEF History
<1>2. Set(s, st)
  <2>1. /\ M!Kept(revs, {rev \in M!Elements(revs) : IsNewer(rev, o.start)}) = todo
    <3>1. {rev \in M!Elements(revs) : IsNewer(rev, o.start)} = newer
      BY SameStore DEF IsNewer
    <3> QED BY <3>1, SameStore
  <2> QED BY <2>1 DEF History
<1>3. Joined(s) /\ OwnData(o, m, v)
  BY <1>1, StreamFacts DEF Joined, JoinedStages
<1>4. OwnWatcher(o, m) /\ Data(o, Line(o, m), v, W!IsRegistered(m, o.id)) /\ o.target \in Key
  BY <1>1, <1>3 DEF OwnData, OwnWatcher
<1>5. Line(o, m) = <<>> /\ o.curRev <= Rev(v) /\ ~Telling(o, v)
  BY <1>1, <1>4 DEF Data, Replaying, FromStart
<1>6. /\ revs \in Seq(Nat \ {0}) /\ MP!Ascends(revs)
      /\ \A r \in MP!Elements(revs) : r <= x.currentRev
  BY <1>1, <1>4 DEF MP!Indexed
<1>7. /\ todo \in Seq(Nat \ {0}) /\ MP!Ascends(todo) /\ MP!Elements(todo) = newer
  <2> DEFINE S == Nat \ {0}
  <2>1. S \in SUBSET Nat /\ revs \in Seq(S)
    BY <1>6
  <2> HIDE DEF S, revs, newer
  <2>2. /\ todo \in Seq(S) /\ MP!Elements(todo) = MP!Elements(revs) \cap newer
        /\ (MP!Ascends(revs) => MP!Ascends(todo))
    BY <2>1, MP!KeptFacts
  <2> QED BY <1>6, <2>2 DEF S, newer
<1> HIDE DEF revs, newer, todo
<1>8. /\ Typed(st) /\ SameStream(o, st) /\ st.at = "replay" /\ st.todo = todo
      /\ st.upTo = x.currentRev /\ st.sent = o.sent
  <2> DEFINE r == x.currentRev
  <2>1. IsStream(o) /\ st = [o EXCEPT !.at = "replay", !.todo = todo, !.upTo = r]
    BY <1>1 DEF Typed
  <2>2. todo \in Seq(Nat) /\ r \in Nat
    BY <1>1, <1>7, SeqMonotonic, Nat \ {0} \subseteq Nat
  <2> HIDE DEF o, st, r
  <2>3. st = [client |-> o.client, node |-> o.node, target |-> o.target, start |-> o.start,
              at |-> "replay", gone |-> o.gone, curRev |-> o.curRev, id |-> o.id, todo |-> todo,
              sent |-> o.sent, upTo |-> r, joined |-> o.joined]
    BY <2>1 DEF IsStream
  <2> QED BY <1>1, <2>2, <2>3 DEF Typed, IsStream, Stages, SameStream, r
<1> HIDE DEF st, x
<1>9. Fresh(st, v)
  BY <1>8 DEF Fresh
<1>10. OwnWatcher(st, m) /\ Line(st, m) = <<>>
  BY <1>1, <1>4, <1>5, <1>8 DEF OwnWatcher, Line, SameStream
<1>11. \A k \in 1 .. Len(todo) : todo[k] \in newer
  BY <1>7 DEF MP!Elements
<1>12. Len(<<>>) = 0 /\ 1 .. 0 = {} /\ 1 .. 0 - 1 = {}
  BY EmptySeq
<1>13. Complete(st, <<>>, v)
  <2> SUFFICES ASSUME NEW d \in x.disk, d.key = o.target, d.version \in o.start + 1 .. x.currentRev
               PROVE  \E k \in 1 .. Len(todo) : todo[k] = d.version
    BY <1>1, <1>8 DEF Complete, SameStream
  <2>1. d.version \in MP!Elements(revs)
    BY <1>1 DEF MP!Indexed, revs
  <2>2. d.version > o.start
    BY <1>1 DEF Typed
  <2>3. d.version \in MP!Elements(todo)
    BY <1>7, <2>1, <2>2 DEF newer
  <2> QED BY <2>3 DEF MP!Elements
<1>14. \A on : Data(st, <<>>, v, on)
  <2>1. Ordered(st, <<>>, v)
    BY <1>1, <1>8, <1>12 DEF Ordered
  <2>2. Replaying(st, <<>>, v)
    <3>1. ~Telling(st, v)
      BY <1>5, <1>8 DEF Telling, SameStream
    <3>2. \A k \in 1 .. Len(todo) : o.start < todo[k] /\ todo[k] <= x.currentRev
      BY <1>1, <1>6, <1>11 DEF newer
    <3> QED BY <1>7, <1>8, <1>12, <3>1, <3>2 DEF Replaying, SameStream
  <2>3. FromStart(st, <<>>, v)
    BY <1>5, <1>8, <1>12 DEF FromStart, SameStream
  <2>4. \A on : AllHeard(st, <<>>, v, on)
    BY <1>8 DEF AllHeard
  <2> QED BY <1>13, <2>1, <2>2, <2>3, <2>4 DEF Data
<1>15. OwnData(st, m, v)
  BY <1>10, <1>14 DEF OwnData
<1>16. st.node = o.node /\ st.gone = o.gone /\ st.id = o.id
  BY <1>8 DEF SameStream
<1> QED BY <1>1, <1>2, <1>3, <1>8, <1>9, <1>15, <1>16, WatchingKept, LocalKeeps

\* The next of the history is left out, as it is not on the disk, or goes into the line,
\* which was d and is h then.
Replayed(o, st, d, h, v) ==
    /\ Typed(o) /\ SameStream(o, st) /\ o.at = "replay" /\ st.at = "replay"
    /\ o.todo # <<>> /\ st.todo = Tail(o.todo) /\ st.upTo = o.upTo
    /\ d \in Seq(Event) /\ h \in Seq(Event) /\ Rev(v) \in Nat
    /\ \/ /\ h = d
          /\ \A x \in v.store.disk : x.key = o.target /\ ~x.deleted => x.version # Head(o.todo)
       \/ \E e \in Event : e.revision = Head(o.todo) /\ h = Append(d, e)

LEMMA ReplayData ==
    ASSUME NEW o, NEW st, NEW d, NEW h, NEW v, Replayed(o, st, d, h, v),
           NEW on, NEW of, Data(o, d, v, on)
    PROVE  Data(st, h, v, of)
<1>0. /\ Typed(o) /\ SameStream(o, st) /\ o.at = "replay" /\ st.at = "replay"
      /\ o.todo # <<>> /\ st.todo = Tail(o.todo) /\ st.upTo = o.upTo
      /\ d \in Seq(Event) /\ h \in Seq(Event) /\ Rev(v) \in Nat
      /\ \/ /\ h = d
            /\ \A x \in v.store.disk : x.key = o.target /\ ~x.deleted => x.version # Head(o.todo)
         \/ \E e \in Event : e.revision = Head(o.todo) /\ h = Append(d, e)
  BY DEF Replayed
<1> USE <1>0
<1> DEFINE todo == o.todo
           rest == st.todo
           rev == Head(todo)
           z == Len(d)
<1>1. /\ Len(todo) \in Nat /\ Len(rest) = Len(todo) - 1 /\ Len(todo) > 0 /\ rev = todo[1]
      /\ \A k \in 1 .. Len(rest) : rest[k] = todo[k + 1]
      /\ \A k \in 1 .. Len(todo) : todo[k] \in Nat
  <2>1. todo \in Seq(Nat) /\ todo # <<>> /\ rest = Tail(todo)
    BY DEF Typed
  <2> HIDE DEF todo, rest
  <2> QED BY <2>1, HeadTailProperties, LenProperties, ElementOfSeq, EmptySeq
<1>2. /\ z \in Nat /\ \A n \in 1 .. z : d[n].revision \in Nat
      /\ o.upTo \in Nat /\ o.start \in Nat /\ o.curRev \in Nat
  BY EventFacts DEF Typed
<1> HIDE DEF todo, rest, rev, z
<1>3. /\ MP!Ascends(todo)
      /\ \A k \in 1 .. Len(todo) : o.start < todo[k] /\ todo[k] <= o.upTo
      /\ \A n \in 1 .. z : /\ d[n].revision <= o.upTo
                           /\ \A k \in 1 .. Len(todo) : d[n].revision < todo[k]
      /\ ~Telling(o, v)
  BY DEF Data, Replaying, todo, z
<1>4. rev \in Nat /\ o.start < rev /\ rev <= o.upTo
  <2>1. 1 \in 1 .. Len(todo)
    BY <1>1
  <2> QED BY <1>1, <1>3, <2>1
<1>5. \A k \in 1 .. Len(rest) : rest[k] \in Nat /\ rev < rest[k] /\ o.start < rest[k] /\ rest[k] <= o.upTo
  <2> TAKE k \in 1 .. Len(rest)
  <2>1. k + 1 \in 1 .. Len(todo) /\ 1 \in 1 .. Len(todo) /\ 1 < k + 1
    BY <1>1
  <2> QED BY <1>1, <1>3, <2>1 DEF MP!Ascends
<1>6. MP!Ascends(rest)
  <2> SUFFICES ASSUME NEW j \in 1 .. Len(rest), NEW k \in 1 .. Len(rest), j < k
               PROVE  rest[j] < rest[k]
    BY DEF MP!Ascends
  <2>1. j + 1 \in 1 .. Len(todo) /\ k + 1 \in 1 .. Len(todo) /\ j + 1 < k + 1
    BY <1>1
  <2> QED BY <1>1, <1>3, <2>1 DEF MP!Ascends
<1>7. /\ \A n \in 1 .. z - 1 :
            \/ d[n].revision < d[n + 1].revision
            \/ d[n].revision = d[n + 1].revision /\ d[n].revision = o.upTo
      /\ \A n \in 1 .. z : d[n].revision <= Rev(v) /\ d[n].revision < rev
      /\ o.upTo <= Rev(v) /\ o.curRev <= Rev(v)
      /\ o.curRev < o.start \/ \A n \in 1 .. z : d[n].revision >= o.start
  <2>1. 1 \in 1 .. Len(todo)
    BY <1>1
  <2> QED BY <1>1, <1>3, <2>1 DEF Data, Ordered, FromStart, z
\* The line, one longer or the same.
<1>8. /\ Len(h) \in z .. z + 1 /\ \A n \in 1 .. z : h[n] = d[n]
      /\ Len(h) = z + 1 => h[z + 1].revision = rev
  <2>1. CASE h = d
    BY <1>2, <2>1 DEF z
  <2>2. ASSUME NEW e \in Event, e.revision = rev, h = Append(d, e)
        PROVE  /\ Len(h) = z + 1 /\ \A n \in 1 .. z : h[n] = d[n]
               /\ h[z + 1].revision = rev
    BY <2>2, AppendProperties DEF z
  <2> QED BY <1>2, <2>1, <2>2 DEF rev, todo
<1>9. \A n \in 1 .. Len(h) : \/ n \in 1 .. z /\ h[n] = d[n] /\ d[n].revision < rev
                             \/ n = z + 1 /\ h[n].revision = rev
  <2> TAKE n \in 1 .. Len(h)
  <2>1. CASE n \in 1 .. z
    BY <1>7, <1>8, <2>1
  <2>2. CASE n \notin 1 .. z
    <3>1. n = z + 1 /\ Len(h) = z + 1
      BY <1>2, <1>8, <2>2
    <3> QED BY <1>8, <3>1
  <2> QED BY <2>1, <2>2
<1>10. Ordered(st, h, v)
  <2>1. ASSUME NEW n \in 1 .. Len(h) - 1
        PROVE  \/ h[n].revision < h[n + 1].revision
               \/ h[n].revision = h[n + 1].revision /\ h[n].revision = st.upTo
    <3>1. n \in 1 .. z /\ h[n] = d[n] /\ n + 1 \in 1 .. Len(h)
      BY <1>2, <1>8
    <3>2. CASE n + 1 \in 1 .. z
      <4>1. n \in 1 .. z - 1 /\ h[n + 1] = d[n + 1]
        BY <1>2, <1>8, <3>1, <3>2
      <4> QED BY <1>7, <3>1, <4>1
    <3>3. CASE n + 1 \notin 1 .. z
      <4>1. h[n + 1].revision = rev
        BY <1>9, <3>1, <3>3
      <4> QED BY <1>7, <3>1, <4>1
    <3> QED BY <3>2, <3>3
  <2>2. \A n \in 1 .. Len(h) : h[n].revision <= Rev(v)
    BY <1>2, <1>4, <1>7, <1>9
  <2> QED BY <1>7, <2>1, <2>2 DEF Ordered
<1>11. Replaying(st, h, v)
  <2>1. \A n \in 1 .. Len(h) : /\ h[n].revision <= o.upTo
                               /\ \A k \in 1 .. Len(rest) : h[n].revision < rest[k]
    <3> TAKE n \in 1 .. Len(h)
    <3>1. CASE n \in 1 .. z /\ h[n] = d[n] /\ d[n].revision < rev
      BY <1>2, <1>3, <1>4, <1>5, <3>1
    <3>2. CASE n = z + 1 /\ h[n].revision = rev
      BY <1>4, <1>5, <3>2
    <3> QED BY <1>9, <3>1, <3>2
  <2>2. ~Telling(st, v)
    BY <1>3 DEF Telling, SameStream
  <2> QED BY <1>5, <1>6, <2>1, <2>2 DEF Replaying, rest, SameStream
<1>12. Complete(st, h, v)
  <2> SUFFICES ASSUME NEW x \in v.store.disk, x.key = o.target, ~x.deleted,
                      x.version \in o.start + 1 .. o.upTo
               PROVE  (\E k \in 1 .. Len(rest) : rest[k] = x.version) \/ Heard(h, x.version)
    BY DEF Complete, SameStream, rest
  <2>1. (\E k \in 1 .. Len(todo) : todo[k] = x.version) \/ Heard(d, x.version)
    BY DEF Data, Complete, todo
  <2>2. Heard(d, x.version) => Heard(h, x.version)
    BY <1>2, <1>8 DEF Heard, z
  <2>3. ASSUME NEW k \in 1 .. Len(todo), todo[k] = x.version, k # 1
        PROVE  \E j \in 1 .. Len(rest) : rest[j] = x.version
    <3>1. k - 1 \in 1 .. Len(rest) /\ k - 1 + 1 = k
      BY <1>1, <2>3
    <3> QED BY <1>1, <2>3, <3>1
  <2>4. ASSUME rev = x.version
        PROVE  Heard(h, x.version)
    <3>1. h # d
      BY <2>4 DEF rev, todo
    <3>2. PICK e \in Event : e.revision = rev /\ h = Append(d, e)
      BY <3>1 DEF rev, todo
    <3>3. Len(h) = z + 1
      BY <3>2, AppendProperties DEF z
    <3> QED BY <1>2, <1>8, <2>4, <3>3, z + 1 \in 1 .. z + 1 DEF Heard
  <2> QED BY <1>1, <2>1, <2>2, <2>3, <2>4
<1>13. FromStart(st, h, v)
  <2>1. o.curRev < o.start \/ \A n \in 1 .. Len(h) : h[n].revision >= o.start
    BY SMTT(30), <1>2, <1>4, <1>7, <1>9
  <2> QED BY <1>7, <2>1 DEF FromStart, SameStream
<1>14. AllHeard(st, h, v, of)
  BY DEF AllHeard
<1> QED BY <1>10, <1>11, <1>12, <1>13, <1>14 DEF Data

\* An event that joins a queue comes at the end of the line; one that is taken stays in it.
LEMMA LineMoves ==
    ASSUME NEW p \in Seq(Event), NEW q \in Seq(Event), NEW e \in Event
    PROVE  /\ p \o Append(q, e) = Append(p \o q, e)
           /\ q # <<>> => Append(p, Head(q)) \o Tail(q) = p \o q
<1>1. p \o Append(q, e) = Append(p \o q, e)
  <2>1. Append(q, e) = q \o <<e>> /\ Append(p \o q, e) = (p \o q) \o <<e>> /\ <<e>> \in Seq(Event)
    BY AppendIsConcat, ConcatProperties
  <2> QED BY <2>1, ConcatAssociative
<1>2. ASSUME q # <<>> PROVE Append(p, Head(q)) \o Tail(q) = p \o q
  <2>1. Head(q) \in Event /\ Tail(q) \in Seq(Event) /\ q = <<Head(q)>> \o Tail(q)
    BY <1>2, HeadTailProperties
  <2>2. Append(p, Head(q)) = p \o <<Head(q)>> /\ <<Head(q)>> \in Seq(Event)
    BY <2>1, AppendIsConcat
  <2> DEFINE a == <<Head(q)>>
             b == Tail(q)
  <2>3. (p \o a) \o b = p \o (a \o b)
    BY <2>1, <2>2, ConcatAssociative
  <2> QED BY <2>1, <2>2, <2>3
<1> QED BY <1>1, <1>2

LEMMA ReplayKeeps == ASSUME WatchInv, NEW s \in DOMAIN streams, Replay(s) PROVE WatchInv'
<1> DEFINE o == streams[s]
           m == Mine(s)
           v == View(o.node)
           x == MyStore(s)
           rev == Head(o.todo)
           found == M!Get(x, o.target, rev) # {}
           e == [key |-> o.target, type |-> "Put", revision |-> rev]
           n == W!Queued(m, o.id, e)
           st == [o EXCEPT !.todo = Tail(@)]
<1>1. /\ Typed(o) /\ o.at = "replay" /\ o.todo # <<>> /\ Set(s, st)
      /\ UNCHANGED <<log, applied, store, telling, down, watching, collected>>
      /\ Sane(m) /\ Clean(m) /\ MP!Indexed(x) /\ v.store = x /\ Rev(v) \in Nat
      /\ (~found /\ UNCHANGED watchers) \/ (found /\ ToManager(s, n))
  BY StreamFacts, ViewFacts DEF Replay
<1>2. Joined(s) /\ OwnData(o, m, v)
  BY <1>1, StreamFacts DEF Joined, JoinedStages
<1>3. /\ OwnWatcher(o, m) /\ Data(o, Line(o, m), v, W!IsRegistered(m, o.id))
      /\ o.target \in Key /\ o.id \in DOMAIN m.ch
  BY <1>1, <1>2 DEF OwnData, OwnWatcher
<1>4. rev \in Nat /\ Tail(o.todo) \in Seq(Nat)
  BY <1>1, HeadTailProperties DEF Typed
<1> DEFINE rest == Tail(o.todo)
<1>5. /\ Typed(st) /\ SameStream(o, st) /\ st.at = "replay" /\ st.todo = Tail(o.todo)
      /\ st.upTo = o.upTo /\ st.sent = o.sent
  <2>1. IsStream(o) /\ st = [o EXCEPT !.todo = rest]
    BY <1>1 DEF Typed
  <2> HIDE DEF o, st, rest
  <2>2. st = [client |-> o.client, node |-> o.node, target |-> o.target, start |-> o.start,
              at |-> o.at, gone |-> o.gone, curRev |-> o.curRev, id |-> o.id, todo |-> rest,
              sent |-> o.sent, upTo |-> o.upTo, joined |-> o.joined]
    BY <2>1 DEF IsStream
  <2> QED BY <1>1, <1>4, <2>2 DEF Typed, IsStream, SameStream, rest
<1> HIDE DEF st
<1>6. Fresh(st, v) /\ st.node = o.node /\ st.gone = o.gone /\ st.id = o.id
  BY <1>5 DEF Fresh, SameStream
<1>7. /\ o.sent \in Seq(Event) /\ m.ch[o.id].queue \in Seq(Event) /\ Line(o, m) \in Seq(Event)
  BY <1>1, <1>3, LineFacts
<1> DEFINE d == Line(o, m)
           q == m.ch[o.id].queue
<1>8. ASSUME ~found, UNCHANGED watchers PROVE WatchInv'
  <2>1. \A y \in x.disk : y.key = o.target /\ ~y.deleted => y.version # rev
    <3> SUFFICES ASSUME NEW y \in x.disk, y.key = o.target, ~y.deleted, y.version = rev PROVE FALSE
      OBVIOUS
    <3>1. y \in MP!Get(x, y.key, y.version)
      BY <1>1, MP!GetFinds
    <3>2. y \in M!Get(x, o.target, rev)
      <4> HIDE DEF x, rev, o
      <4> QED BY <3>1, SameStore
    <3> QED BY <1>8, <3>2
  <2>2. Data(st, d, v, W!IsRegistered(m, st.id))
    <3>1. Replayed(o, st, d, d, v)
      <4> HIDE DEF o, d, v, x, m, found
      <4> QED BY <1>1, <1>5, <1>7, <2>1 DEF d, rev, Replayed
    <3> HIDE DEF o, d, v, x, m, found
    <3> QED BY <1>3, <3>1, ReplayData DEF d
  <2>3. OwnWatcher(st, m) /\ Line(st, m) = d
    BY <1>1, <1>3, <1>5 DEF OwnWatcher, SameStream, Line
  <2>4. OwnData(st, m, v)
    BY <1>6, <2>2, <2>3 DEF OwnData
  <2>5. UNCHANGED <<log, nodeVars, collected>>
    BY <1>1, <1>8 DEF nodeVars
  <2> QED BY <1>1, <1>2, <1>5, <1>6, <2>4, <2>5, WatchingKept, LocalKeeps
<1>9. ASSUME found, ToManager(s, n) PROVE WatchInv'
  <2>1. e \in Event /\ e.revision = rev
    BY <1>3, <1>4 DEF Event
  <2> HIDE DEF e
  <2>2. /\ Append(q, e) \in Seq(Event) /\ Append(d, e) \in Seq(Event)
    BY <1>7, <2>1, AppendProperties
  <2>3. n = [m EXCEPT !.ch[o.id].queue = Append(q, e)]
    BY DEF W!Queued
  <2> DEFINE k == o.id
             h == Append(q, e)
  <2>4. /\ Apart(m, n, k) /\ DOMAIN n.ch = DOMAIN m.ch
        /\ n.ch[k].queue = h /\ n.ch[k].closed = m.ch[k].closed
        /\ n.synced = m.synced /\ n.unsynced = m.unsynced
    <3>1. h \in Seq(Event) /\ k \in DOMAIN m.ch /\ Sane(m) /\ Clean(m)
          /\ n = [m EXCEPT !.ch[k].queue = h]
      BY <1>1, <1>3, <2>2, <2>3
    <3> HIDE DEF k, h, m, n
    <3> QED BY <3>1, QueueApart
  <2>5. Line(st, n) = Append(d, e)
    <3>1. Line(st, n) = o.sent \o Append(q, e)
      BY <1>5, <1>6, <2>4 DEF Line
    <3>2. d = o.sent \o q
      BY DEF Line
    <3> DEFINE p == o.sent
    <3>3. p \in Seq(Event) /\ q \in Seq(Event) /\ Line(st, n) = p \o Append(q, e) /\ d = p \o q
      BY <1>7, <3>1, <3>2
    <3> HIDE DEF p, q, d, n
    <3> QED BY <2>1, <3>3, LineMoves
  <2> HIDE DEF n
  <2>6. Data(st, Append(d, e), v, W!IsRegistered(n, st.id))
    <3> DEFINE l == Append(d, e)
               on == W!IsRegistered(m, o.id)
    <3>1. l \in Seq(Event) /\ d \in Seq(Event) /\ Data(o, d, v, on)
      BY <1>3, <1>7, <2>2
    <3>2. \E a \in Event : a.revision = Head(o.todo) /\ l = Append(d, a)
      BY <2>1
    <3> HIDE DEF o, d, v, l, on, q, h
    <3>3. Replayed(o, st, d, l, v)
      BY <1>1, <1>5, <3>1, <3>2 DEF Replayed
    <3>4. Data(st, l, v, W!IsRegistered(n, st.id))
      BY <3>1, <3>3, ReplayData
    <3> QED BY <3>4 DEF l
  <2>7. OwnWatcher(st, n)
    BY <1>1, <1>3, <1>5, <2>4 DEF OwnWatcher, SameStream
  <2>8. OwnData(st, n, v)
    BY <2>5, <2>6, <2>7 DEF OwnData
  <2> QED BY <1>1, <1>2, <1>5, <1>6, <1>9, <2>4, <2>8, WatchingKept, MethodKeeps
<1> QED BY <1>1, <1>8, <1>9

LEMMA MoveToSyncedKeeps ==
    ASSUME WatchInv, NEW s \in DOMAIN streams, MoveToSynced(s) PROVE WatchInv'
<1> DEFINE o == streams[s]
           m == Mine(s)
           v == View(o.node)
           n == W!MovedToSynced(m, o.id)
           st == [o EXCEPT !.at = "serve", !.joined = collected[o.node]]
<1>1. /\ Typed(o) /\ o.at = "replay" /\ o.todo = <<>> /\ Set(s, st) /\ ToManager(s, n)
      /\ UNCHANGED <<log, applied, store, telling, down, watching, collected>>
      /\ Sane(m) /\ Clean(m) /\ Rev(v) \in Nat
      /\ v.collected = collected[o.node] /\ collected[o.node] \in Int
  BY StreamFacts, ViewFacts DEF MoveToSynced
<1>2. Joined(s) /\ OwnData(o, m, v)
  BY <1>1, StreamFacts DEF Joined, JoinedStages
<1> DEFINE d == Line(o, m)
<1>3. OwnWatcher(o, m) /\ Data(o, d, v, W!IsRegistered(m, o.id)) /\ o.id \in DOMAIN m.ch
  BY <1>2 DEF OwnData, OwnWatcher
<1>4. d \in Seq(Event)
  BY <1>1, <1>3, LineFacts
<1> DEFINE c == collected[o.node]
<1>5. /\ Typed(st) /\ SameStream(o, st) /\ st.at = "serve" /\ st.todo = <<>>
      /\ st.upTo = o.upTo /\ st.sent = o.sent /\ st.joined = v.collected
  <2>1. IsStream(o) /\ st = [o EXCEPT !.at = "serve", !.joined = c]
    BY <1>1 DEF Typed
  <2> HIDE DEF o, st, c
  <2>2. st = [client |-> o.client, node |-> o.node, target |-> o.target, start |-> o.start,
              at |-> "serve", gone |-> o.gone, curRev |-> o.curRev, id |-> o.id, todo |-> o.todo,
              sent |-> o.sent, upTo |-> o.upTo, joined |-> c]
    BY <2>1 DEF IsStream
  <2> QED BY <1>1, <2>2 DEF Typed, IsStream, SameStream, Stages, c
<1> HIDE DEF st
<1>6. Fresh(st, v) /\ st.node = o.node /\ st.gone = o.gone /\ st.id = o.id
  BY <1>5 DEF Fresh, SameStream
<1>7. /\ Apart(m, n, o.id) /\ n.ch = m.ch
      /\ n.synced \cup n.unsynced = m.synced \cup m.unsynced
      /\ \A w \in n.unsynced : w.id = o.id => w \in m.unsynced /\ w.target \notin Key
  <2> DEFINE k == o.id
  <2>1. k \in DOMAIN m.ch
    BY <1>3
  <2> HIDE DEF k, m
  <2> QED BY <1>1, <2>1, MovedApart DEF k
<1> HIDE DEF n
<1>8. Line(st, n) = d
  BY <1>5, <1>6, <1>7 DEF Line
<1>9. OwnWatcher(st, n)
  <2>1. \A w \in n.unsynced : w.id # o.id
    BY <1>1, <1>3, <1>7 DEF OwnWatcher
  <2> QED BY <1>3, <1>5, <1>7, <2>1 DEF OwnWatcher, SameStream
<1>10. Data(st, d, v, W!IsRegistered(n, st.id))
  <2> HIDE DEF o, m, v, d
  <2>1. \A k \in 1 .. Len(d) : d[k].revision <= o.upTo /\ d[k].revision \in Nat
    BY <1>1, <1>3, <1>4, EventFacts DEF Data, Replaying
  <2>2. o.upTo <= Rev(v) /\ o.upTo \in Nat
    BY <1>1, <1>3 DEF Data, Ordered, Typed
  <2>3. Ordered(st, d, v)
    <3>1. \A k \in 1 .. Len(d) : d[k].revision < Rev(v) \/ d[k].revision = st.upTo
      BY <1>1, <1>5, <2>1, <2>2
    <3> QED BY <1>3, <1>5, <3>1 DEF Data, Ordered
  <2>4. Replaying(st, d, v)
    BY <1>5 DEF Replaying
  <2>5. Complete(st, d, v)
    BY <1>1, <1>3, <1>5 DEF Data, Complete, SameStream
  <2>6. FromStart(st, d, v)
    BY <1>3, <1>5 DEF Data, FromStart, SameStream
  <2>7. \A k : ~Concerns(st, v, k)
    <3>1. v.collected + 1 .. v.collected = {}
      BY <1>1
    <3> QED BY <1>5, <3>1 DEF Concerns
  <2> QED BY <2>3, <2>4, <2>5, <2>6, <2>7 DEF Data, AllHeard
<1>11. OwnData(st, n, v)
  BY <1>8, <1>9, <1>10 DEF OwnData
<1> QED BY <1>1, <1>2, <1>5, <1>6, <1>7, <1>11, WatchingKept, MethodKeeps

LEMMA ServeKeeps == ASSUME WatchInv, NEW s \in DOMAIN streams, Serve(s) PROVE WatchInv'
<1> DEFINE o == streams[s]
           m == Mine(s)
           v == View(o.node)
           q == m.ch[o.id].queue
           e == Head(q)
           n == W!Taken(m, o.id)
           sent == Append(o.sent, e)
           st == [o EXCEPT !.sent = Append(@, e)]
<1>1. /\ Typed(o) /\ o.at = "serve" /\ q # <<>> /\ Set(s, st) /\ ToManager(s, n)
      /\ UNCHANGED <<log, applied, store, telling, down, collected>>
      /\ watching' = [watching EXCEPT ![o.client].start = e.revision]
      /\ Sane(m) /\ Clean(m)
  BY StreamFacts DEF Serve
<1>2. Joined(s) /\ OwnData(o, m, v)
  BY <1>1, StreamFacts DEF Joined, JoinedStages
<1> DEFINE d == Line(o, m)
<1>3. OwnWatcher(o, m) /\ Data(o, d, v, W!IsRegistered(m, o.id)) /\ o.id \in DOMAIN m.ch
  BY <1>2 DEF OwnData, OwnWatcher
<1>4. o.sent \in Seq(Event) /\ q \in Seq(Event)
  BY <1>1, <1>3, LineFacts
<1>5. e \in Event /\ Tail(q) \in Seq(Event) /\ sent \in Seq(Event) /\ sent \o Tail(q) = o.sent \o q
  <2> DEFINE p == o.sent
  <2>1. p \in Seq(Event) /\ q \in Seq(Event) /\ q # <<>>
    BY <1>1, <1>4
  <2> HIDE DEF p, q
  <2>2. e \in Event /\ Tail(q) \in Seq(Event)
    BY <2>1, HeadTailProperties
  <2>3. Append(p, e) \in Seq(Event) /\ Append(p, e) \o Tail(q) = p \o q
    BY <2>1, <2>2, LineMoves, AppendProperties
  <2> QED BY <2>2, <2>3 DEF p
<1>6. Watching'
  <2>1. e.revision \in Nat
    BY <1>5 DEF Event
  <2> HIDE DEF o, e
  <2>2. Watching
    BY DEF WatchInv, Shapes
  <2>3. ASSUME NEW c \in Client, watching[c] \in [target : Key \cup Prefix, start : Nat]
        PROVE  watching'[c] \in [target : Key \cup Prefix, start : Nat]
    BY <1>1, <2>1, <2>2, <2>3 DEF Watching
  <2>4. ASSUME NEW c \in Client, watching[c] = NoWatch, watching'[c] # NoWatch
        PROVE  watching'[c] \in [target : Key \cup Prefix, start : Nat]
    <3>1. c = o.client /\ watching'[c] = [NoWatch EXCEPT !.start = e.revision]
      BY <1>1, <2>2, <2>4 DEF Watching
    <3>2. [NoWatch EXCEPT !.start = e.revision] = NoWatch
      BY DEF NoWatch
    <3> QED BY <2>4, <3>1, <3>2
  <2>5. DOMAIN watching' = Client
    BY <1>1, <2>2 DEF Watching
  <2> QED BY <2>2, <2>3, <2>4, <2>5 DEF Watching
<1> HIDE DEF sent
<1>7. /\ Typed(st) /\ SameStream(o, st) /\ st.at = "serve" /\ st.todo = o.todo
      /\ st.upTo = o.upTo /\ st.sent = sent /\ st.joined = o.joined
  <2>1. IsStream(o) /\ st = [o EXCEPT !.sent = sent]
    BY <1>1 DEF Typed, sent
  <2> HIDE DEF o, st
  <2>2. st = [client |-> o.client, node |-> o.node, target |-> o.target, start |-> o.start,
              at |-> o.at, gone |-> o.gone, curRev |-> o.curRev, id |-> o.id, todo |-> o.todo,
              sent |-> sent, upTo |-> o.upTo, joined |-> o.joined]
    BY <2>1 DEF IsStream
  <2> QED BY <1>1, <1>5, <2>2 DEF Typed, IsStream, SameStream
<1> HIDE DEF st
<1>8. Fresh(st, v) /\ st.node = o.node /\ st.gone = o.gone /\ st.id = o.id
  BY <1>7 DEF Fresh, SameStream
<1>9. /\ Apart(m, n, o.id) /\ n.ch[o.id].queue = Tail(q)
      /\ n.ch[o.id].closed = m.ch[o.id].closed /\ DOMAIN n.ch = DOMAIN m.ch
      /\ n.synced = m.synced /\ n.unsynced = m.unsynced
  <2> DEFINE k == o.id
             h == Tail(q)
  <2>1. h \in Seq(Event) /\ k \in DOMAIN m.ch /\ Sane(m) /\ Clean(m)
        /\ n = [m EXCEPT !.ch[k].queue = h]
    <3>1. n = [m EXCEPT !.ch[o.id].queue = Tail(q)]
      BY DEF W!Taken
    <3> QED BY <1>1, <1>3, <1>5, <3>1
  <2> HIDE DEF k, h, m, n
  <2>2. /\ Apart(m, n, k) /\ n.ch[k].queue = h
        /\ n.ch[k].closed = m.ch[k].closed /\ DOMAIN n.ch = DOMAIN m.ch
        /\ n.synced = m.synced /\ n.unsynced = m.unsynced
    BY <2>1, QueueApart
  <2> QED BY <2>2 DEF k, h
<1> HIDE DEF n
<1>10. Line(st, n) = d
  BY <1>5, <1>7, <1>8, <1>9 DEF Line
<1>11. OwnWatcher(st, n)
  BY <1>1, <1>3, <1>7, <1>9 DEF OwnWatcher, SameStream
<1>12. Data(st, d, v, W!IsRegistered(n, st.id))
  <2>1. W!IsRegistered(n, st.id) = W!IsRegistered(m, o.id)
    BY <1>8, <1>9 DEF W!IsRegistered
  <2> DEFINE on == W!IsRegistered(m, o.id)
  <2>2. Data(o, d, v, on)
    BY <1>3
  <2> HIDE DEF d, on, v, m, o
  <2>3. Ordered(st, d, v) /\ Replaying(st, d, v) /\ Complete(st, d, v) /\ FromStart(st, d, v)
    BY <1>1, <1>7, <2>2 DEF Data, Ordered, Replaying, Complete, FromStart, Telling, SameStream
  <2>4. AllHeard(st, d, v, on)
    BY <1>1, <1>7, <2>2 DEF Data, AllHeard, Concerns, UnderWay, Telling, SameStream
  <2>5. Data(st, d, v, on)
    BY <2>3, <2>4 DEF Data
  <2> QED BY <2>1, <2>5 DEF on
<1>13. OwnData(st, n, v)
  BY <1>10, <1>11, <1>12 DEF OwnData
<1> QED BY <1>1, <1>2, <1>6, <1>7, <1>8, <1>9, <1>13, MethodKeeps

LEMMA ReturnKeeps == ASSUME WatchInv, NEW s \in DOMAIN streams, Return(s) PROVE WatchInv'
<1> DEFINE o == streams[s]
           m == Mine(s)
           k == W!Removed(m, o.id)
           n == W!Abandoned(k, o.id)
<1>1. /\ Typed(o) /\ o.at = "serve" /\ Set(s, Over(o)) /\ ToManager(s, n)
      /\ UNCHANGED <<log, applied, store, telling, down, watching, collected>>
      /\ o.gone \/ m.ch[o.id].closed
      /\ Sane(m) /\ Clean(m)
  BY StreamFacts DEF Return
<1>2. Joined(s) /\ o.id \in DOMAIN m.ch
  BY <1>1, StreamFacts DEF Joined, JoinedStages
<1>3. /\ Apart(m, n, o.id)
      /\ n.ch[o.id].closed => m.ch[o.id].closed \/ o.gone
  <2> DEFINE id == o.id
  <2>1. id \in DOMAIN m.ch /\ k = W!Removed(m, id) /\ n = [k EXCEPT !.ch[id].queue = <<>>]
    BY <1>2 DEF W!Abandoned
  <2> HIDE DEF id, k, n, m
  <2>2. Apart(m, k, id) /\ DOMAIN k.ch = DOMAIN m.ch
    BY <1>1, <2>1, RemovedApart
  <2> DEFINE q == <<>>
  <2>3. /\ Sane(k) /\ Clean(k) /\ q \in Seq(Event) /\ id \in DOMAIN k.ch
        /\ n = [k EXCEPT !.ch[id].queue = q]
    BY <2>1, <2>2, EmptySeq DEF Apart
  <2> HIDE DEF q, o
  <2>4. Apart(k, n, id) /\ DOMAIN n.ch = DOMAIN k.ch /\ n.ch[id].closed = k.ch[id].closed
    BY <2>3, QueueApart
  <2>5. Apart(m, n, id)
    BY <2>2, <2>4 DEF Apart
  <2> QED BY <1>1, <2>5 DEF id
<1> HIDE DEF n
<1> QED BY <1>1, <1>2, <1>3, OverFacts, WatchingKept, MethodKeeps
-----------------------------------------------------------------------------
(* A step of a node *)

\* What every node knows of its revision.
LEMMA NodeFacts ==
    ASSUME WatchInv, NEW i \in Node
    PROVE  /\ NodeOk(i) /\ Sane(watchers[i]) /\ Clean(watchers[i])
           /\ MP!Indexed(store[i]) /\ store[i].currentRev \in Nat
           /\ log \in Seq(Entries) /\ Len(log) \in Nat /\ applied[i] \in 0 .. Len(log)
           /\ store[i].currentRev = Rank(log, applied[i])
           /\ collected[i] \in Int /\ collected[i] <= Rank(log, Len(log))
           /\ Rev(View(i)) = store[i].currentRev
<1>1. NodeOk(i) /\ log \in Seq(Entries) /\ Len(log) \in Nat
  BY LenProperties DEF WatchInv, Shapes
<1>2. /\ MP!Indexed(store[i]) /\ applied[i] \in 0 .. Len(log)
      /\ store[i].currentRev = Rank(log, applied[i]) /\ store[i].currentRev \in Nat
  BY <1>1 DEF NodeOk, Counts, MP!Indexed
<1>3. collected[i] \in Int /\ collected[i] <= store[i].currentRev
  BY <1>1, <1>2 DEF NodeOk, Told
<1>4. Rank(log, applied[i]) <= Rank(log, Len(log)) /\ Rank(log, Len(log)) \in Nat
  BY <1>1, <1>2, RankGrows, RankFacts
<1>5. collected[i] <= Rank(log, Len(log))
  <2> DEFINE a == Rank(log, applied[i])
             b == Rank(log, Len(log))
             c == collected[i]
  <2>1. a <= b /\ b \in Nat /\ a \in Nat /\ c <= a /\ c \in Int
    BY <1>2, <1>3, <1>4
  <2> HIDE DEF a, b, c
  <2>2. c <= b
    BY <2>1
  <2> QED BY <2>2 DEF b, c
<1> QED BY <1>1, <1>2, <1>3, <1>5 DEF NodeOk, View, Rev

\* A node that does not take part sees the log grow at most.
LEMMA OthersKept ==
    ASSUME WatchInv, NEW j \in Node, Grown(log, log'), UNCHANGED streams, down' = down,
           applied'[j] = applied[j], store'[j] = store[j], watchers'[j] = watchers[j],
           telling'[j] = telling[j], collected'[j] = collected[j]
    PROVE  /\ NodeOk(j)'
           /\ \A st, m : /\ Fresh(st, View(j)) => Fresh(st, View(j)')
                         /\ OwnData(st, m, View(j)) => OwnData(st, m, View(j)')
<1>1. /\ NodeOk(j) /\ Len(log) \in Nat /\ applied[j] \in 0 .. Len(log)
      /\ collected[j] \in Int /\ collected[j] <= Rank(log, Len(log))
  BY NodeFacts
<1>2. /\ Len(log') \in Nat /\ Len(log) <= Len(log')
      /\ Rank(log', applied[j]) = Rank(log, applied[j])
      /\ applied[j] > 0 => /\ Writes(log', applied[j]) <=> Writes(log, applied[j])
                           /\ log'[applied[j]] = log[applied[j]]
  <2> DEFINE a == applied[j]
             k == log'
  <2>1. Grown(log, k) /\ a \in 0 .. Len(log) /\ Len(k) \in Nat
    BY <1>1, LenProperties DEF Grown
  <2> HIDE DEF a, k
  <2>2. Rank(k, a) = Rank(log, a) /\ (a > 0 => (Writes(k, a) <=> Writes(log, a)))
    BY <2>1, GrownRank
  <2>3. Len(log) <= Len(k) /\ (a > 0 => k[a] = log[a])
    BY <1>1, <2>1 DEF Grown
  <2> QED BY <2>1, <2>2, <2>3 DEF a, k
<1>3. NodeOk(j)'
  <2>1. Counts(j)'
    BY <1>1, <1>2 DEF NodeOk, Counts
  <2>2. Told(j)'
    BY <1>1, <1>2 DEF NodeOk, Told, Idle
  <2>3. LeftOnly(j)' /\ (j \in down' => Broken(j)')
    BY <1>1 DEF NodeOk, LeftOnly, Broken
  <2> QED BY <1>1, <2>1, <2>2, <2>3 DEF NodeOk
<1> DEFINE v == View(j)
           w == View(j)'
<1>4. /\ v.log = log /\ w.log = log' /\ w.store = v.store /\ w.telling = v.telling
      /\ w.collected = v.collected /\ v.collected = collected[j]
  BY DEF View
<1> HIDE DEF v, w
<1>5. ASSUME NEW st, NEW m, OwnData(st, m, v) PROVE OwnData(st, m, w)
  BY <1>1, <1>4, <1>5, DataGrown DEF OwnData
<1>6. ASSUME NEW st, Fresh(st, v) PROVE Fresh(st, w)
  BY <1>4, <1>6 DEF Fresh, Rev
<1> QED BY <1>3, <1>5, <1>6 DEF v, w

LEMMA NodeMovesKeeps ==
    ASSUME WatchInv, NEW i \in Node, Grown(log, log'), UNCHANGED <<streams, watching, down>>,
           DOMAIN applied' = Node, DOMAIN store' = Node, DOMAIN watchers' = Node,
           DOMAIN telling' = Node, DOMAIN collected' = Node,
           \A j \in Node \ {i} :
              /\ applied'[j] = applied[j] /\ store'[j] = store[j] /\ watchers'[j] = watchers[j]
              /\ telling'[j] = telling[j] /\ collected'[j] = collected[j],
           NodeOk(i)',
           \A t \in DOMAIN streams : streams[t].node = i =>
              /\ Fresh(streams[t], View(i)')
              /\ Joined(t) => OwnData(streams[t], watchers'[i], View(i)')
    PROVE  WatchInv'
<1>1. Shapes'
  BY DEF WatchInv, Shapes, Watching, Grown
<1>2. ASSUME NEW j \in Node PROVE NodeOk(j)'
  <2>1. CASE j = i
    BY <2>1
  <2>2. CASE j # i
    BY <2>2, OthersKept
  <2> QED BY <2>1, <2>2
<1>3. ASSUME NEW t \in DOMAIN streams' PROVE StreamOk(t)'
  <2> DEFINE o == streams[t]
             j == o.node
  <2>1. t \in DOMAIN streams /\ streams'[t] = o /\ StreamOk(t) /\ Typed(o) /\ j \in Node
    BY DEF WatchInv, StreamOk, Typed
  <2>2. Joined(t)' = Joined(t) /\ (Joined(t) => Alone(t)')
    BY <2>1 DEF StreamOk, Alone, Joined
  <2>3. /\ Fresh(o, View(j)')
        /\ Joined(t) => OwnData(o, watchers'[j], View(j)')
    <3>1. CASE j = i
      BY <2>1, <3>1
    <3>2. CASE j # i
      <4>1. /\ \A st, m : /\ Fresh(st, View(j)) => Fresh(st, View(j)')
                          /\ OwnData(st, m, View(j)) => OwnData(st, m, View(j)')
        BY <2>1, <3>2, OthersKept
      <4>2. Fresh(o, View(j)) /\ (Joined(t) => OwnData(o, watchers'[j], View(j)))
        BY <2>1, <3>2 DEF StreamOk, Mine
      <4> HIDE DEF o
      <4> QED BY <4>1, <4>2
    <3> QED BY <3>1, <3>2
  <2>4. View(streams[t].node)' = View(j)' /\ Mine(t)' = watchers'[j]
    BY <2>1 DEF View, Mine
  <2> QED BY <2>1, <2>2, <2>3, <2>4 DEF StreamOk
<1> QED BY <1>1, <1>2, <1>3 DEF WatchInv

\* The entry that is applied is the next one of the log, which may have got it just now.
LEMMA ApplyFacts ==
    ASSUME WatchInv, NEW i \in Node, Apply(i)
    PROVE  /\ Grown(log, log') /\ telling[i] = Idle
           /\ UNCHANGED <<down, streams, watching, collected>>
           /\ applied' = [applied EXCEPT ![i] = @ + 1]
           /\ Rank(log', applied[i]) = store[i].currentRev
           /\ \E entry \in Entries :
                 /\ applied[i] + 1 \in 1 .. Len(log') /\ log'[applied[i] + 1] = entry
                 /\ ApplyWrite(i, entry) \/ ApplyCompact(i, entry)
<1>1. /\ log \in Seq(Entries) /\ Len(log) \in Nat /\ applied[i] \in 0 .. Len(log)
      /\ store[i].currentRev = Rank(log, applied[i])
  BY NodeFacts
<1>2. PICK entry \in Entries :
         /\ \/ applied[i] = Len(log) /\ Len(log) < MaxLog /\ log' = Append(log, entry)
            \/ applied[i] < Len(log) /\ entry = log[applied[i] + 1] /\ UNCHANGED log
         /\ ApplyWrite(i, entry) \/ ApplyCompact(i, entry)
  BY DEF Apply
<1>3. /\ Grown(log, log') /\ applied[i] + 1 \in 1 .. Len(log') /\ log'[applied[i] + 1] = entry
  <2>1. CASE applied[i] = Len(log) /\ log' = Append(log, entry)
    <3>1. /\ log' \in Seq(Entries) /\ Len(log') = Len(log) + 1
          /\ \A n \in 1 .. Len(log) : log'[n] = log[n]
          /\ log'[Len(log) + 1] = entry
      <4> DEFINE k == Append(log, entry)
      <4>1. /\ k \in Seq(Entries) /\ Len(k) = Len(log) + 1
            /\ \A n \in 1 .. Len(log) : k[n] = log[n]
            /\ k[Len(log) + 1] = entry
        BY <1>1, AppendProperties
      <4> QED BY <2>1, <4>1
    <3> QED BY <1>1, <2>1, <3>1 DEF Grown
  <2>2. CASE applied[i] < Len(log) /\ entry = log[applied[i] + 1] /\ UNCHANGED log
    BY <1>1, <2>2 DEF Grown
  <2> QED BY <1>2, <2>1, <2>2
<1>4. Rank(log', applied[i]) = Rank(log, applied[i])
  <2> DEFINE a == applied[i]
             k == log'
  <2>1. Grown(log, k) /\ a \in 0 .. Len(log)
    BY <1>1, <1>3
  <2> HIDE DEF a, k
  <2>2. Rank(k, a) = Rank(log, a)
    BY <2>1, GrownRank
  <2> QED BY <2>2 DEF a, k
<1> QED BY <1>1, <1>2, <1>3, <1>4 DEF Apply

\* The lines of the node's streams, with the entry in the log.
LEMMA ApplyLines ==
    ASSUME WatchInv, NEW i \in Node, Grown(log, log'), NEW u,
           u = [log |-> log', store |-> store[i], telling |-> telling[i], collected |-> collected[i]]
    PROVE  \A t \in DOMAIN streams : streams[t].node = i =>
              /\ Fresh(streams[t], u) /\ Typed(streams[t])
              /\ Joined(t) => /\ OwnWatcher(streams[t], watchers[i])
                              /\ Line(streams[t], watchers[i]) \in Seq(Event)
                              /\ Data(streams[t], Line(streams[t], watchers[i]), u,
                                      W!IsRegistered(watchers[i], streams[t].id))
<1>1. /\ collected[i] \in Int /\ collected[i] <= Rank(log, Len(log)) /\ Sane(watchers[i])
  BY NodeFacts
<1> DEFINE v == View(i)
<1>2. /\ v.log = log /\ u.log = log' /\ u.store = v.store /\ u.telling = v.telling
      /\ u.collected = v.collected /\ v.collected = collected[i]
  BY DEF View
<1> SUFFICES ASSUME NEW t \in DOMAIN streams, streams[t].node = i
             PROVE  /\ Fresh(streams[t], u) /\ Typed(streams[t])
                    /\ Joined(t) => /\ OwnWatcher(streams[t], watchers[i])
                                    /\ Line(streams[t], watchers[i]) \in Seq(Event)
                                    /\ Data(streams[t], Line(streams[t], watchers[i]), u,
                                            W!IsRegistered(watchers[i], streams[t].id))
  OBVIOUS
<1> DEFINE o == streams[t]
           m == watchers[i]
<1>3. /\ Fresh(o, v) /\ Typed(o) /\ Sane(m)
      /\ Joined(t) => OwnData(o, m, v) /\ OwnWatcher(o, m) /\ o.id \in DOMAIN m.ch
  BY <1>1, StreamFacts DEF Mine
<1> HIDE DEF o, m, v
<1>4. Fresh(o, u)
  BY <1>2, <1>3 DEF Fresh, Rev
<1>5. ASSUME Joined(t)
      PROVE  Line(o, m) \in Seq(Event) /\ Data(o, Line(o, m), u, W!IsRegistered(m, o.id))
  <2>1. Line(o, m) \in Seq(Event) /\ Data(o, Line(o, m), v, W!IsRegistered(m, o.id))
    BY <1>3, <1>5, LineFacts DEF OwnData
  <2> QED BY <1>1, <1>2, <2>1, DataGrown
<1> QED BY <1>3, <1>4, <1>5 DEF o, m

LEMMA ApplyWriteKeeps ==
    ASSUME WatchInv, NEW i \in Node, Apply(i), NEW entry \in Entries,
           applied[i] + 1 \in 1 .. Len(log'), log'[applied[i] + 1] = entry, ApplyWrite(i, entry)
    PROVE  WatchInv'
<1> DEFINE x == store[i]
           y == store'[i]
           m == watchers[i]
           event == [key |-> entry.key, type |-> entry.type, revision |-> y.currentRev]
           v == View(i)
           w == View(i)'
           u == [log |-> log', store |-> store[i], telling |-> telling[i], collected |-> collected[i]]
<1>1. /\ Grown(log, log') /\ telling[i] = Idle
      /\ UNCHANGED <<down, streams, watching, collected, watchers>>
      /\ applied' = [applied EXCEPT ![i] = @ + 1]
      /\ Rank(log', applied[i]) = x.currentRev
  BY ApplyFacts DEF ApplyWrite
<1>2. /\ NodeOk(i) /\ MP!Indexed(x) /\ x.currentRev \in Nat /\ applied[i] \in Nat
      /\ Rev(v) = x.currentRev
  BY NodeFacts
<1>3. entry.type \in {"Put", "Delete"} /\ entry.key \in Key /\ entry.type # "Compact"
  BY WatchAssumption DEF ApplyWrite
<1>4. /\ MP!Indexed(y) /\ y.currentRev = x.currentRev + 1
      /\ \A d \in y.disk : d \in x.disk \/ d.version = y.currentRev
  <2> DEFINE key == entry.key
             del == (entry.type = "Delete")
  <2>1. y = M!Written(x, key, <<>>, del)
    BY DEF ApplyWrite, WatchInv, Shapes
  <2>2. key \in Key
    BY <1>3
  <2> HIDE DEF x, y, key, del
  <2> QED BY <1>2, <2>1, <2>2, WrittenKept
<1>5. /\ telling'[i] = [stage |-> "written", event |-> event]
      /\ \A j \in Node \ {i} : /\ telling'[j] = telling[j] /\ store'[j] = store[j]
                               /\ applied'[j] = applied[j]
      /\ DOMAIN telling' = Node /\ DOMAIN store' = Node /\ DOMAIN applied' = Node
      /\ applied'[i] = applied[i] + 1
  BY <1>1 DEF ApplyWrite, WatchInv, Shapes
<1>6. event \in Event /\ event.revision = y.currentRev /\ event.key = entry.key
  BY <1>2, <1>3, <1>4 DEF Event
<1>7. Writes(log', applied[i] + 1) /\ Rank(log', applied[i] + 1) = y.currentRev
  <2> DEFINE k == log'
             a == applied[i]
  <2>1. Writes(k, a + 1)
    BY <1>3 DEF Writes
  <2>2. Rank(k, a) = x.currentRev /\ a \in Nat
    BY <1>1, <1>2
  <2> HIDE DEF k, a, x, y
  <2>3. Rank(k, a + 1) = x.currentRev + 1
    BY <2>1, <2>2, RankFacts
  <2> QED BY <1>4, <2>1, <2>3 DEF k, a
<1>8. NodeOk(i)'
  <2>1. Counts(i)'
    BY <1>4, <1>5, <1>7 DEF Counts
  <2>2. Told(i)'
    <3>1. collected'[i] = x.currentRev
      BY <1>1, <1>2 DEF NodeOk, Told, Idle
    <3>2. telling'[i].stage = "written" /\ telling'[i].event = event
      BY <1>5
    <3>3. y.currentRev - 1 = x.currentRev
      BY <1>2, <1>4
    <3>4. applied'[i] > 0 /\ Writes(log', applied'[i]) /\ log'[applied'[i]] = entry
      BY <1>2, <1>5, <1>7
    <3> HIDE DEF event, x
    <3> QED BY <1>6, <3>1, <3>2, <3>3, <3>4 DEF Told
  <2>3. LeftOnly(i)'
    BY <1>5 DEF LeftOnly
  <2>4. Sane(watchers[i])' /\ Clean(watchers[i])' /\ (i \in down' => Broken(i)')
    BY <1>1, <1>2 DEF NodeOk, Broken
  <2> QED BY <2>1, <2>2, <2>3, <2>4 DEF NodeOk
<1>9. /\ w.log = u.log /\ Rev(u) = x.currentRev /\ Rev(w) = y.currentRev
      /\ w.store = y /\ u.store = x /\ u.telling = Idle /\ w.telling.stage = "written"
      /\ w.collected = u.collected
  BY <1>1, <1>5 DEF View, Rev
<1>10. ASSUME NEW t \in DOMAIN streams, streams[t].node = i
       PROVE  /\ Fresh(streams[t], w)
              /\ Joined(t) => OwnData(streams[t], watchers'[i], w)
  <2> DEFINE o == streams[t]
             d == Line(o, m)
             on == W!IsRegistered(m, o.id)
  <2>1. /\ Fresh(o, u) /\ Typed(o)
        /\ Joined(t) => OwnWatcher(o, m) /\ d \in Seq(Event) /\ Data(o, d, u, on)
    BY <1>1, <1>10, ApplyLines
  <2>2. watchers'[i] = m
    BY <1>1
  <2> HIDE DEF o, d, m, on, u, w, x, y
  <2>3. Fresh(o, w)
    BY <1>2, <1>4, <1>9, <2>1 DEF Fresh, Typed
  <2>4. ASSUME Joined(t) PROVE Data(o, d, w, on)
    BY <1>2, <1>4, <1>9, <2>1, <2>4, DataWritten
  <2>5. Joined(t) => OwnData(o, m, w)
    BY <2>1, <2>4 DEF OwnData, d, on
  <2> QED BY <2>2, <2>3, <2>5 DEF o
<1>11. \A j \in Node \ {i} :
          /\ applied'[j] = applied[j] /\ store'[j] = store[j] /\ watchers'[j] = watchers[j]
          /\ telling'[j] = telling[j] /\ collected'[j] = collected[j]
  BY <1>1, <1>5
<1>12. DOMAIN watchers' = Node /\ DOMAIN collected' = Node
  BY <1>1 DEF WatchInv, Shapes
<1> HIDE DEF w
<1> QED BY <1>1, <1>5, <1>8, <1>10, <1>11, <1>12, NodeMovesKeeps DEF w

\* The store is compacted; of the manager nothing that streams depend on changes.
LEMMA CompactionKeeps ==
    ASSUME WatchInv, NEW i \in Node, Grown(log, log'),
           UNCHANGED <<down, streams, watching, collected, telling>>,
           NEW c, store' = [store EXCEPT ![i] = M!Compacted(@, c)],
           DOMAIN applied' = Node, \A j \in Node \ {i} : applied'[j] = applied[j],
           applied'[i] \in 0 .. Len(log'), Rank(log', applied'[i]) = store[i].currentRev,
           (applied'[i] = applied[i] /\ log' = log) \/ telling[i] = Idle,
           DOMAIN watchers' = Node, \A j \in Node \ {i} : watchers'[j] = watchers[j],
           IsManager(watchers'[i]), watchers'[i].ch = watchers[i].ch,
           watchers'[i].synced = watchers[i].synced, watchers'[i].unsynced = watchers[i].unsynced,
           watchers'[i].nextWatcherId = watchers[i].nextWatcherId
    PROVE  WatchInv'
<1> DEFINE x == store[i]
           y == store'[i]
           m == watchers[i]
           n == watchers'[i]
           w == View(i)'
           u == [log |-> log', store |-> store[i], telling |-> telling[i], collected |-> collected[i]]
<1>1. /\ NodeOk(i) /\ MP!Indexed(x) /\ x.currentRev \in Nat
  BY NodeFacts
<1>2. /\ y = M!Compacted(x, c) /\ DOMAIN store' = Node
      /\ \A j \in Node \ {i} : store'[j] = store[j]
  BY DEF WatchInv, Shapes
<1>3. MP!Indexed(y) /\ y.currentRev = x.currentRev /\ y.disk \subseteq x.disk
  <2> HIDE DEF x, y
  <2> QED BY <1>1, <1>2, CompactedKept
<1>4. Sane(n) /\ Clean(n) /\ \A k : W!IsRegistered(n, k) = W!IsRegistered(m, k)
  <2>1. Sane(m) /\ Clean(m) /\ IsManager(n) /\ n.ch = m.ch /\ n.synced = m.synced
        /\ n.unsynced = m.unsynced /\ n.nextWatcherId = m.nextWatcherId
    BY <1>1 DEF NodeOk
  <2> HIDE DEF n, m
  <2> QED BY <2>1 DEF Sane, Clean, W!IsRegistered
<1>5. NodeOk(i)'
  <2>1. Counts(i)'
    BY <1>3 DEF Counts
  <2>2. Told(i)'
    BY <1>1, <1>3 DEF NodeOk, Told, Idle
  <2>3. LeftOnly(i)' /\ (i \in down' => Broken(i)')
    BY <1>1 DEF NodeOk, LeftOnly, Broken
  <2> QED BY <1>4, <2>1, <2>2, <2>3 DEF NodeOk
<1>6. /\ w.log = u.log /\ Rev(w) = Rev(u) /\ w.store = y /\ u.store = x
      /\ w.telling = u.telling /\ w.collected = u.collected
  BY <1>3 DEF View, Rev
<1>7. ASSUME NEW t \in DOMAIN streams, streams[t].node = i
      PROVE  /\ Fresh(streams[t], w)
             /\ Joined(t) => OwnData(streams[t], n, w)
  <2> DEFINE o == streams[t]
             d == Line(o, m)
             on == W!IsRegistered(m, o.id)
  <2>1. /\ Fresh(o, u) /\ Typed(o)
        /\ Joined(t) => OwnWatcher(o, m) /\ d \in Seq(Event) /\ Data(o, d, u, on)
    BY <1>7, ApplyLines
  <2>2. Line(o, n) = d /\ W!IsRegistered(n, o.id) = on /\ (OwnWatcher(o, m) => OwnWatcher(o, n))
    BY <1>4 DEF Line, OwnWatcher
  <2> HIDE DEF o, d, m, n, on, u, w, x, y
  <2>3. Fresh(o, w)
    BY <1>6, <2>1 DEF Fresh
  <2>4. ASSUME Joined(t) PROVE Data(o, d, w, on)
    BY <1>3, <1>6, <2>1, <2>4, DataCompacted
  <2>5. Joined(t) => OwnData(o, n, w)
    BY <2>1, <2>2, <2>4 DEF OwnData
  <2> QED BY <2>3, <2>5 DEF o
<1>8. DOMAIN telling' = Node /\ DOMAIN collected' = Node
  BY DEF WatchInv, Shapes
<1> HIDE DEF w
<1> QED BY <1>2, <1>5, <1>7, <1>8, NodeMovesKeeps DEF w, n

LEMMA ApplyCompactKeeps ==
    ASSUME WatchInv, NEW i \in Node, Apply(i), NEW entry \in Entries,
           applied[i] + 1 \in 1 .. Len(log'), log'[applied[i] + 1] = entry, ApplyCompact(i, entry)
    PROVE  WatchInv'
<1> DEFINE c == entry.revision
           m == watchers[i]
           n == watchers'[i]
           x == store[i]
<1>1. /\ Grown(log, log') /\ telling[i] = Idle
      /\ UNCHANGED <<down, streams, watching, collected, telling>>
      /\ applied' = [applied EXCEPT ![i] = @ + 1]
      /\ Rank(log', applied[i]) = x.currentRev
      /\ store' = [store EXCEPT ![i] = M!Compacted(@, c)]
  BY ApplyFacts DEF ApplyCompact
<1>2. applied[i] \in Nat /\ Sane(m) /\ x.currentRev \in Nat
  BY NodeFacts
<1>3. /\ applied'[i] = applied[i] + 1 /\ DOMAIN applied' = Node
      /\ \A j \in Node \ {i} : applied'[j] = applied[j]
  BY <1>1 DEF WatchInv, Shapes
<1>4. Rank(log', applied'[i]) = x.currentRev
  <2> DEFINE k == log'
             a == applied[i]
  <2>1. ~Writes(k, a + 1)
    BY DEF Writes, ApplyCompact
  <2>2. Rank(k, a) = x.currentRev /\ a \in Nat
    BY <1>1, <1>2
  <2> HIDE DEF k, a, x
  <2>3. Rank(k, a + 1) = x.currentRev
    BY <2>1, <2>2, RankFacts
  <2> QED BY <1>3, <2>3 DEF k, a
<1>5. /\ DOMAIN watchers' = Node /\ \A j \in Node \ {i} : watchers'[j] = watchers[j]
      /\ n = [m EXCEPT !.compactversion = c]
  BY DEF ApplyCompact, WatchInv, Shapes, W!CompactedTo
<1>6. /\ IsManager(n) /\ n.ch = m.ch /\ n.synced = m.synced /\ n.unsynced = m.unsynced
      /\ n.nextWatcherId = m.nextWatcherId
  <2> HIDE DEF n, m, c
  <2> QED BY <1>2, <1>5 DEF Sane, IsManager
<1>7. applied'[i] \in 0 .. Len(log')
  BY <1>2, <1>3
<1> HIDE DEF c
<1> QED BY <1>1, <1>3, <1>4, <1>5, <1>6, <1>7, CompactionKeeps

LEMMA ApplyKeeps == ASSUME WatchInv, NEW i \in Node, Apply(i) PROVE WatchInv'
BY ApplyFacts, ApplyWriteKeeps, ApplyCompactKeeps

LEMMA TickerKeeps == ASSUME WatchInv, NEW i \in Node, Ticker(i) PROVE WatchInv'
<1> DEFINE c == store[i].currentRev
<1>1. /\ UNCHANGED <<log, applied, watchers, telling, down, streams, watching, collected>>
      /\ store' = [store EXCEPT ![i] = M!Compacted(@, c)]
  BY DEF Ticker, WatchInv, Shapes
<1>2. /\ applied[i] \in 0 .. Len(log) /\ c = Rank(log, applied[i]) /\ Sane(watchers[i])
      /\ log \in Seq(Entries) /\ Len(log) \in Nat
  BY NodeFacts
<1>3. Grown(log, log')
  BY <1>1, <1>2 DEF Grown
<1>4. IsManager(watchers[i]) /\ DOMAIN applied = Node /\ DOMAIN watchers = Node
  BY <1>2 DEF Sane, WatchInv, Shapes
<1>5. Rank(log', applied'[i]) = store[i].currentRev
  BY <1>1, <1>2
<1> HIDE DEF c
<1> QED BY <1>1, <1>2, <1>3, <1>4, <1>5, CompactionKeeps

\* After a turn of the apply loop's notification.
LEMMA TellRestFacts ==
    ASSUME WatchInv, NEW i \in Node, NEW list, TellRest(i, list)
    PROVE  /\ DOMAIN telling' = Node /\ \A j \in Node \ {i} : telling'[j] = telling[j]
           /\ list = {} => telling'[i] = Idle
           /\ list # {} => telling'[i] = [stage |-> "sending", event |-> telling[i].event, to |-> list]
BY DEF TellRest, WatchInv, Shapes

LEMMA CollectKeeps == ASSUME WatchInv, NEW i \in Node, Collect(i) PROVE WatchInv'
<1> DEFINE x == store[i]
           m == watchers[i]
           event == telling[i].event
           list == W!Recipients(m, event.key)
           v == View(i)
           w == View(i)'
           a == applied[i]
<1>1. /\ telling[i].stage = "written" /\ TellRest(i, list)
      /\ collected' = [collected EXCEPT ![i] = event.revision]
      /\ UNCHANGED <<log, applied, store, watchers, down, streams, watching>>
  BY DEF Collect
<1>2. /\ NodeOk(i) /\ Sane(m) /\ Clean(m) /\ log \in Seq(Entries) /\ Len(log) \in Nat
      /\ x.currentRev = Rank(log, a) /\ x.currentRev \in Nat /\ a \in 0 .. Len(log)
  BY NodeFacts
<1>3. /\ a > 0 /\ Writes(log, a) /\ event \in Event /\ event.key = log[a].key
      /\ event.revision = x.currentRev /\ collected[i] = x.currentRev - 1
  BY <1>1, <1>2 DEF NodeOk, Told, Idle
<1>4. /\ DOMAIN telling' = Node /\ \A j \in Node \ {i} : telling'[j] = telling[j]
      /\ list = {} => telling'[i] = Idle
      /\ list # {} => telling'[i] = [stage |-> "sending", event |-> event, to |-> list]
  <2> HIDE DEF list
  <2> QED BY <1>1, TellRestFacts
<1>5. \A id \in list : id \in DOMAIN m.ch /\ W!IsRegistered(m, id)
  <2> TAKE id \in list
  <2>1. PICK y \in m.synced \cup m.unsynced : y.id = id
    BY DEF W!Recipients
  <2>2. y \in W!WithId(m.synced \cup m.unsynced, id)
    BY <2>1 DEF W!WithId
  <2> HIDE DEF list
  <2> QED BY <1>2, <2>1, <2>2 DEF Sane, W!IsRegistered
<1>6. /\ DOMAIN collected' = Node /\ \A j \in Node \ {i} : collected'[j] = collected[j]
      /\ collected'[i] = x.currentRev
  BY <1>1, <1>3 DEF WatchInv, Shapes
<1> HIDE DEF list
<1>7. NodeOk(i)'
  <2>1. Counts(i)'
    BY <1>1, <1>2 DEF NodeOk, Counts
  <2>2. Told(i)'
    <3>1. CASE list = {}
      BY <1>1, <1>4, <1>6, <3>1 DEF Told
    <3>2. CASE list # {}
      <4>1. telling'[i].stage = "sending" /\ telling'[i].event = event /\ telling'[i].to = list
        BY <1>4, <3>2
      <4>2. list \subseteq DOMAIN watchers'[i].ch
        BY <1>1, <1>5
      <4> HIDE DEF event, a
      <4> QED BY <1>1, <1>3, <1>6, <4>1, <4>2 DEF Told, a
    <3> QED BY <3>1, <3>2
  <2>3. LeftOnly(i)'
    <3>1. \A id \in list : ~m.ch[id].closed
      BY <1>2, <1>5 DEF Clean
    <3> QED BY <1>1, <1>4, <3>1 DEF LeftOnly, Idle
  <2>4. Sane(watchers[i])' /\ Clean(watchers[i])' /\ (i \in down' => Broken(i)')
    BY <1>1, <1>2 DEF NodeOk, Broken
  <2> QED BY <2>1, <2>2, <2>3, <2>4 DEF NodeOk
<1>8. /\ w.log = v.log /\ v.log = log /\ w.store = v.store /\ Rev(v) = x.currentRev
      /\ v.telling = telling[i] /\ w.telling = telling'[i]
      /\ v.collected = collected[i] /\ w.collected = collected'[i]
  BY <1>1 DEF View, Rev
<1>9. ASSUME NEW t \in DOMAIN streams, streams[t].node = i
      PROVE  /\ Fresh(streams[t], w)
             /\ Joined(t) => OwnData(streams[t], watchers'[i], w)
  <2> DEFINE o == streams[t]
             d == Line(o, m)
             on == W!IsRegistered(m, o.id)
  <2>1. /\ Fresh(o, v) /\ Typed(o) /\ (Joined(t) => OwnData(o, m, v))
    BY <1>9, StreamFacts DEF Mine
  <2>2. ASSUME Joined(t) PROVE OwnData(o, m, w)
    <3>1. /\ OwnWatcher(o, m) /\ Data(o, d, v, on) /\ d \in Seq(Event)
      BY <1>2, <2>1, <2>2, LineFacts DEF OwnData, OwnWatcher
    <3>2. Telling(o, w) <=> o.id \in list
      BY <1>4, <1>8 DEF Telling, Idle
    <3>3. o.at # "serve" => ~Telling(o, w)
      <4> SUFFICES ASSUME o.at # "serve", o.id \in list PROVE FALSE
        BY <3>2
      <4>1. PICK y \in m.synced \cup m.unsynced :
               /\ y.id = o.id
               /\ y \in m.synced \/ y.target \in Prefix
        BY DEF list, W!Recipients
      <4>2. y \notin m.synced /\ y.target = o.target /\ o.target \in Key
        BY <3>1, <4>1 DEF OwnWatcher
      <4> QED BY <4>1, <4>2, WatchAssumption
    <3>4. o.at = "serve" /\ on /\ log[a].key \in Covers[o.target] => Telling(o, w)
      <4> SUFFICES ASSUME o.at = "serve", on, event.key \in Covers[o.target] PROVE o.id \in list
        BY <1>3, <3>2
      <4>1. PICK y \in m.synced \cup m.unsynced : y.id = o.id
        BY DEF W!IsRegistered, W!WithId
      <4>2. y.target = o.target /\ (y \in m.unsynced => y.target \in Prefix)
        BY <3>1, <4>1 DEF OwnWatcher
      <4>3. y.id \in list
        <5>1. CASE y \in m.synced
          BY <4>2, <5>1 DEF list, W!Recipients
        <5>2. CASE y \in m.unsynced
          BY <4>2, <5>2 DEF list, W!Recipients
        <5> QED BY <5>1, <5>2
      <4> QED BY <4>1, <4>3
    <3>5. w.telling.stage # "written" /\ (w.telling.stage = "sending" => w.telling.event = event)
      BY <1>4, <1>8 DEF Idle
    <3>6. a \in 1 .. Len(log) /\ v.telling.event = event
      BY <1>2, <1>3, <1>8
    <3> HIDE DEF o, d, on, v, w, x, m, event, a
    <3>7. Data(o, d, w, on)
      BY <1>1, <1>2, <1>3, <1>6, <1>8, <2>1, <3>1, <3>3, <3>4, <3>5, <3>6, DataCollected
    <3> QED BY <3>1, <3>7 DEF OwnData, d, on
  <2>3. Fresh(o, w)
    BY <1>8, <2>1 DEF Fresh, Rev
  <2>4. watchers'[i] = m
    BY <1>1
  <2> HIDE DEF o, m, w
  <2> QED BY <2>2, <2>3, <2>4 DEF o
<1>10. \A j \in Node \ {i} :
          /\ applied'[j] = applied[j] /\ store'[j] = store[j] /\ watchers'[j] = watchers[j]
          /\ telling'[j] = telling[j] /\ collected'[j] = collected[j]
  BY <1>1, <1>4, <1>6
<1>11. DOMAIN watchers' = Node /\ DOMAIN applied' = Node /\ DOMAIN store' = Node
  BY <1>1 DEF WatchInv, Shapes
<1>12. Grown(log, log')
  BY <1>1, <1>2 DEF Grown
<1> HIDE DEF w
<1> QED BY <1>1, <1>4, <1>6, <1>7, <1>9, <1>10, <1>11, <1>12, NodeMovesKeeps DEF w

\* A turn of Notify's loop with an open channel: either the event goes to the end of the
\* line, or the watcher is removed.
LEMMA NotifiedFacts ==
    ASSUME NEW m, Sane(m), Clean(m), NEW id \in DOMAIN m.ch, NEW event \in Event
    PROVE  LET n == W!Notified(m, id, event)
           IN  /\ Apart(m, n, id) /\ DOMAIN n.ch = DOMAIN m.ch
               /\ \A st : Typed(st) /\ st.id = id /\ OwnWatcher(st, m) =>
                     /\ OwnWatcher(st, n)
                     /\ \/ /\ Line(st, n) = Append(Line(st, m), event)
                           /\ W!IsRegistered(n, id) = W!IsRegistered(m, id)
                        \/ Line(st, n) = Line(st, m) /\ W!IsRegistered(n, id) = FALSE
<1> DEFINE n == W!Notified(m, id, event)
           q == m.ch[id].queue
<1>1. q \in Seq(Event) /\ Append(q, event) \in Seq(Event)
  BY ChannelFacts, AppendProperties
<1>2. CASE W!HasRoom(m, id)
  <2>1. n = [m EXCEPT !.ch[id].queue = Append(q, event)]
    <3>1. W!Notified(m, id, event) = W!Queued(m, id, event)
      BY <1>2 DEF W!Notified
    <3> QED BY <3>1 DEF W!Queued
  <2> DEFINE a == Append(q, event)
  <2>2. n = [m EXCEPT !.ch[id].queue = a] /\ a \in Seq(Event)
    BY <1>1, <2>1
  <2> HIDE DEF n, a
  <2>3. /\ Apart(m, n, id) /\ DOMAIN n.ch = DOMAIN m.ch /\ n.ch[id].queue = a
        /\ n.synced = m.synced /\ n.unsynced = m.unsynced
    BY <2>2, QueueApart
  <2>4. ASSUME NEW st, Typed(st), st.id = id, OwnWatcher(st, m)
        PROVE  /\ OwnWatcher(st, n) /\ Line(st, n) = Append(Line(st, m), event)
               /\ W!IsRegistered(n, id) = W!IsRegistered(m, id)
    <3>1. OwnWatcher(st, n) /\ W!IsRegistered(n, id) = W!IsRegistered(m, id)
      BY <2>3, <2>4 DEF OwnWatcher, W!IsRegistered
    <3>2. st.sent \in Seq(Event)
      BY <2>4 DEF Typed
    <3>3. st.sent \o Append(q, event) = Append(st.sent \o q, event)
      BY <1>1, <3>2, LineMoves
    <3> QED BY <2>3, <2>4, <3>1, <3>3 DEF Line, a
  <2> QED BY <2>3, <2>4 DEF n
<1>3. CASE ~W!HasRoom(m, id)
  <2>1. n = W!Removed(m, id)
    BY <1>3 DEF W!Notified
  <2> HIDE DEF n
  <2>2. /\ Apart(m, n, id) /\ DOMAIN n.ch = DOMAIN m.ch /\ ~W!IsRegistered(n, id)
        /\ n.ch[id].queue = q
    BY <2>1, RemovedApart
  <2>3. ASSUME NEW st, st.id = id, OwnWatcher(st, m)
        PROVE  OwnWatcher(st, n) /\ Line(st, n) = Line(st, m)
    <3>1. \A w \in n.synced \cup n.unsynced : w.id # id
      BY <2>2 DEF W!IsRegistered, W!WithId
    <3> QED BY <2>2, <2>3, <3>1 DEF OwnWatcher, Line
  <2>4. W!IsRegistered(n, id) = FALSE
    BY <2>2
  <2> QED BY <2>2, <2>3, <2>4 DEF n
<1> QED BY <1>2, <1>3

LEMMA SendKeeps ==
    ASSUME WatchInv, NEW i \in Node, telling[i].stage = "sending", NEW id \in telling[i].to,
           ~watchers[i].ch[id].closed,
           watchers' = [watchers EXCEPT ![i] = W!Notified(@, id, telling[i].event)],
           TellRest(i, telling[i].to \ {id}),
           UNCHANGED <<log, applied, store, down, streams, watching, collected>>
    PROVE  WatchInv'
<1> DEFINE m == watchers[i]
           n == watchers'[i]
           event == telling[i].event
           list == telling[i].to \ {id}
           v == View(i)
           w == View(i)'
<1>1. /\ NodeOk(i) /\ Sane(m) /\ Clean(m) /\ log \in Seq(Entries) /\ Len(log) \in Nat
      /\ store[i].currentRev \in Nat
  BY NodeFacts
<1>2. /\ applied[i] > 0 /\ Writes(log, applied[i]) /\ event \in Event
      /\ event.key = log[applied[i]].key /\ event.revision = store[i].currentRev
      /\ collected[i] = store[i].currentRev /\ telling[i].to \subseteq DOMAIN m.ch
  BY <1>1 DEF NodeOk, Told, Idle
<1>3. /\ DOMAIN telling' = Node /\ \A j \in Node \ {i} : telling'[j] = telling[j]
      /\ list = {} => telling'[i] = Idle
      /\ list # {} => telling'[i] = [stage |-> "sending", event |-> event, to |-> list]
  <2> HIDE DEF list
  <2> QED BY TellRestFacts DEF list
<1>4. /\ DOMAIN watchers' = Node /\ \A j \in Node \ {i} : watchers'[j] = watchers[j]
      /\ n = W!Notified(m, id, event)
  BY DEF WatchInv, Shapes
<1>5. id \in DOMAIN m.ch
  BY <1>2
<1>6. /\ Apart(m, n, id) /\ DOMAIN n.ch = DOMAIN m.ch
      /\ \A st : Typed(st) /\ st.id = id /\ OwnWatcher(st, m) =>
            /\ OwnWatcher(st, n)
            /\ \/ /\ Line(st, n) = Append(Line(st, m), event)
                  /\ W!IsRegistered(n, id) = W!IsRegistered(m, id)
               \/ Line(st, n) = Line(st, m) /\ W!IsRegistered(n, id) = FALSE
  <2>1. Sane(m) /\ Clean(m) /\ id \in DOMAIN m.ch /\ event \in Event /\ n = W!Notified(m, id, event)
    BY <1>1, <1>2, <1>4, <1>5
  <2> HIDE DEF n, m, event
  <2> QED BY ONLY <2>1, NotifiedFacts
<1>7. NodeOk(i)'
  <2>1. Counts(i)'
    BY <1>1 DEF NodeOk, Counts
  <2>2. Told(i)'
    <3>1. CASE list = {}
      BY <1>2, <1>3, <3>1 DEF Told
    <3>2. CASE list # {}
      <4>1. telling'[i].stage = "sending" /\ telling'[i].event = event /\ telling'[i].to = list
        BY <1>3, <3>2
      <4>2. list \subseteq DOMAIN n.ch
        BY <1>2, <1>6
      <4> HIDE DEF event, list
      <4> QED BY <1>2, <4>1, <4>2 DEF Told
    <3> QED BY <3>1, <3>2
  <2>3. LeftOnly(i)'
    <3>1. \A k \in list : n.ch[k].closed => Broken(i)
      <4> SUFFICES ASSUME NEW k \in list, n.ch[k].closed PROVE Broken(i)
        OBVIOUS
      <4>1. k \in DOMAIN m.ch \ {id} /\ k \in telling[i].to
        BY <1>2
      <4>2. m.ch[k].closed
        BY <1>6, <4>1 DEF Apart
      <4> QED BY <1>1, <4>1, <4>2 DEF NodeOk, LeftOnly
    <3>2. Broken(i) => Broken(i)'
      BY DEF Broken
    <3> QED BY <1>3, <3>1, <3>2 DEF LeftOnly, Idle
  <2>4. Sane(n) /\ Clean(n) /\ (i \in down' => Broken(i)')
    BY <1>1, <1>6 DEF NodeOk, Broken, Apart
  <2> QED BY <2>1, <2>2, <2>3, <2>4 DEF NodeOk
<1>8. /\ w.log = v.log /\ w.store = v.store /\ w.collected = v.collected
      /\ Rev(v) = store[i].currentRev /\ v.telling = telling[i] /\ w.telling = telling'[i]
  BY DEF View, Rev
<1>9. /\ w.telling.stage # "written" /\ v.telling.event = event
      /\ w.telling.stage = "sending" => w.telling.event = v.telling.event
  BY <1>3, <1>8 DEF Idle
<1>10. ASSUME NEW t \in DOMAIN streams, streams[t].node = i
       PROVE  /\ Fresh(streams[t], w)
              /\ Joined(t) => OwnData(streams[t], n, w)
  <2> DEFINE o == streams[t]
             d == Line(o, m)
             on == W!IsRegistered(m, o.id)
  <2>1. /\ Fresh(o, v) /\ Typed(o) /\ (Joined(t) => OwnData(o, m, v))
    BY <1>10, StreamFacts DEF Mine
  <2>2. Fresh(o, w)
    BY <1>8, <2>1 DEF Fresh, Rev
  <2>3. (Telling(o, v) <=> o.id \in telling[i].to) /\ (Telling(o, w) <=> o.id \in list)
    BY <1>3, <1>8 DEF Telling, Idle
  <2>4. ASSUME Joined(t), o.id # id PROVE OwnData(o, n, w)
    <3>1. Telling(o, w) <=> Telling(o, v)
      BY <2>3, <2>4
    <3> HIDE DEF o, d, on, v, w, m, n, event, list
    <3>2. OwnData(o, n, v)
      BY <1>6, <2>1, <2>4, OwnApart
    <3>3. Data(o, Line(o, n), v, W!IsRegistered(n, o.id)) /\ OwnWatcher(o, n)
      BY <3>2 DEF OwnData
    <3>4. Data(o, Line(o, n), w, W!IsRegistered(n, o.id))
      BY <1>8, <1>9, <3>1, <3>3, DataPassed
    <3> QED BY <3>3, <3>4 DEF OwnData
  <2>5. ASSUME Joined(t), o.id = id PROVE OwnData(o, n, w)
    <3>1. Telling(o, v) /\ ~Telling(o, w)
      BY <2>3, <2>5
    <3>2. OwnWatcher(o, m) /\ Data(o, d, v, on) /\ d \in Seq(Event) /\ on = W!IsRegistered(m, id)
      BY <1>1, <2>1, <2>5, LineFacts DEF OwnData, OwnWatcher
    <3> HIDE DEF o, d, on, v, w, m, n, event, list
    <3>3. /\ OwnWatcher(o, n)
          /\ \/ Line(o, n) = Append(d, event) /\ W!IsRegistered(n, o.id) = on
             \/ Line(o, n) = d /\ W!IsRegistered(n, o.id) = FALSE
      BY <1>6, <2>1, <2>5, <3>2 DEF d
    <3>4. Data(o, Append(d, event), w, on)
      BY <1>1, <1>2, <1>8, <1>9, <2>1, <3>1, <3>2, DataSent
    <3>5. Data(o, d, w, FALSE)
      BY <1>8, <1>9, <3>1, <3>2, DataDropped
    <3>6. Data(o, Line(o, n), w, W!IsRegistered(n, o.id))
      BY <3>3, <3>4, <3>5
    <3> QED BY <3>3, <3>6 DEF OwnData
  <2> QED BY <2>2, <2>4, <2>5
<1>11. \A j \in Node \ {i} :
          /\ applied'[j] = applied[j] /\ store'[j] = store[j] /\ watchers'[j] = watchers[j]
          /\ telling'[j] = telling[j] /\ collected'[j] = collected[j]
  BY <1>3, <1>4
<1>12. DOMAIN applied' = Node /\ DOMAIN store' = Node /\ DOMAIN collected' = Node
  BY DEF WatchInv, Shapes
<1>13. Grown(log, log')
  BY <1>1 DEF Grown
<1> HIDE DEF w, n
<1> QED BY <1>3, <1>4, <1>7, <1>10, <1>11, <1>12, <1>13, NodeMovesKeeps DEF w, n

\* A send on a closed channel: the process ends, and its streams with it.
LEMMA PanicKeeps ==
    ASSUME WatchInv, NEW i \in Node, telling[i].stage = "sending", NEW id \in telling[i].to,
           watchers[i].ch[id].closed, down' = down \cup {i}, streams' = StreamsLost(i),
           UNCHANGED <<log, applied, store, watchers, telling, watching, collected>>
    PROVE  WatchInv'
<1>1. Broken(i)
  BY DEF WatchInv, NodeOk, LeftOnly
<1>2. /\ DOMAIN streams' = DOMAIN streams
      /\ \A t \in DOMAIN streams :
            streams'[t] = IF streams[t].node = i THEN Over(streams[t]) ELSE streams[t]
  BY DEF StreamsLost
<1>3. \A t \in DOMAIN streams : /\ StreamOk(t) /\ Typed(streams[t]) /\ streams[t].node \in Node
                                /\ Typed(Over(streams[t]))
                                /\ Over(streams[t]).node = streams[t].node
                                /\ Over(streams[t]).gone = streams[t].gone
                                /\ Over(streams[t]).at \notin JoinedStages
                                /\ \A v : Fresh(Over(streams[t]), v)
  BY StreamFacts, OverFacts DEF WatchInv
<1>4. /\ Broken(i)'
      /\ \A j \in Node : Broken(j) => Broken(j)'
  BY <1>1, <1>2, <1>3 DEF Broken
<1>5. ASSUME NEW j \in Node PROVE NodeOk(j)'
  <2>1. NodeOk(j)
    BY DEF WatchInv
  <2>2. Counts(j)' /\ Told(j)'
    BY <2>1 DEF NodeOk, Counts, Told, Idle
  <2>3. LeftOnly(j)'
    BY <1>4, <2>1 DEF NodeOk, LeftOnly
  <2>4. Sane(watchers[j])' /\ Clean(watchers[j])' /\ (j \in down' => Broken(j)')
    BY <1>4, <2>1 DEF NodeOk
  <2> QED BY <2>2, <2>3, <2>4 DEF NodeOk
<1>6. Sequence(streams')
  <2>1. Len(streams) \in Nat /\ DOMAIN streams = 1 .. Len(streams)
    BY SequenceFacts DEF WatchInv, Shapes
  <2> DEFINE z == Len(streams)
             q == streams'
             T == {q[k] : k \in 1 .. z}
  <2>2. z \in Nat /\ q = [t \in 1 .. z |-> q[t]]
    BY <2>1 DEF StreamsLost
  <2> HIDE DEF z, q
  <2>3. q \in [1 .. z -> T]
    BY <2>2
  <2> HIDE DEF T
  <2>4. q \in Seq(T)
    BY <2>2, <2>3, SeqDef
  <2> QED BY <2>4, OfAnything DEF q
<1>7. Shapes'
  BY <1>6 DEF WatchInv, Shapes, Watching
<1>8. ASSUME NEW t \in DOMAIN streams' PROVE StreamOk(t)'
  <2>1. t \in DOMAIN streams
    BY <1>2
  <2>2. CASE streams[t].node = i
    <3>1. streams'[t] = Over(streams[t])
      BY <1>2, <2>1, <2>2
    <3> DEFINE o == streams'[t]
    <3>2. Typed(o) /\ o.at \notin JoinedStages /\ \A v : Fresh(o, v)
      BY <1>3, <2>1, <3>1
    <3> HIDE DEF o
    <3> QED BY <3>2 DEF StreamOk, Joined, o
  <2>3. CASE streams[t].node # i
    <3> DEFINE o == streams[t]
    <3>1. streams'[t] = o /\ Joined(t)' = Joined(t) /\ StreamOk(t)
      BY <1>2, <1>3, <2>1, <2>3 DEF Joined
    <3>2. View(o.node)' = View(o.node) /\ View(streams[t].node)' = View(o.node)
      BY <3>1 DEF View
    <3>3. Mine(t)' = Mine(t)
      BY <3>1 DEF Mine
    <3>4. Joined(t) => Alone(t)'
      <4> SUFFICES ASSUME Joined(t), NEW u \in DOMAIN streams, Joined(u)',
                          streams'[u].node = o.node, streams'[u].id = o.id
                   PROVE  u = t
        BY <1>2, <3>1 DEF Alone
      <4>1. streams'[u] = streams[u]
        BY <1>2, <1>3, <2>3
      <4> QED BY <2>1, <3>1, <4>1 DEF StreamOk, Alone, Joined
    <3> HIDE DEF o
    <3> QED BY <3>1, <3>2, <3>3, <3>4 DEF StreamOk, o
  <2> QED BY <2>2, <2>3
<1> QED BY <1>5, <1>7, <1>8 DEF WatchInv

LEMMA NotifyKeeps == ASSUME WatchInv, NEW i \in Node, Notify(i) PROVE WatchInv'
BY SendKeeps, PanicKeeps DEF Notify
-----------------------------------------------------------------------------
(* A step of a client *)

LEMMA BeginKeeps == ASSUME WatchInv, NEW c \in Client, Begin(c) PROVE WatchInv'
<1>1. /\ UNCHANGED <<log, applied, store, watchers, telling, down, streams, collected>>
      /\ Shapes
  BY DEF Begin, nodeVars, WatchInv
<1>2. Watching'
  <2>1. PICK x \in Watches : watching' = [watching EXCEPT ![c] = x]
    BY DEF Begin
  <2>2. x \in [target : Key \cup Prefix, start : Nat]
    BY WatchAssumption
  <2>3. DOMAIN watching = Client
        /\ \A b \in Client : watching[b] # NoWatch => watching[b] \in [target : Key \cup Prefix, start : Nat]
    BY <1>1 DEF Shapes, Watching
  <2>4. \A b \in Client : watching'[b] = IF b = c THEN x ELSE watching[b]
    BY <2>1, <2>3
  <2>5. DOMAIN watching' = Client
    BY <2>1, <2>3
  <2> QED BY <2>2, <2>3, <2>4, <2>5 DEF Watching
<1>3. Shapes'
  BY <1>1, <1>2 DEF Shapes
<1>4. ASSUME NEW j \in Node PROVE NodeOk(j)'
  BY <1>1 DEF WatchInv, NodeOk, Counts, Told, LeftOnly, Broken, Idle
<1>5. ASSUME NEW t \in DOMAIN streams' PROVE StreamOk(t)'
  <2>1. /\ StreamOk(t) /\ streams' = streams /\ Mine(t)' = Mine(t)
        /\ View(streams[t].node)' = View(streams[t].node)
    BY <1>1 DEF WatchInv, Mine, View
  <2> QED BY <2>1 DEF StreamOk, Joined, Alone
<1> QED BY <1>3, <1>4, <1>5 DEF WatchInv

LEMMA ConnectKeeps == ASSUME WatchInv, NEW c \in Client, NEW i \in Node, Connect(c, i) PROVE WatchInv'
<1> DEFINE z == Len(streams)
           st == [client |-> c, node |-> i, target |-> watching[c].target,
                  start |-> watching[c].start, at |-> "called", gone |-> FALSE, curRev |-> 0,
                  id |-> 0, todo |-> <<>>, sent |-> <<>>, upTo |-> 0, joined |-> 0]
<1>1. /\ UNCHANGED <<log, applied, store, watchers, telling, down, watching, collected>>
      /\ Shapes /\ streams' = Append(streams, st)
  BY DEF Connect, nodeVars, WatchInv
<1>2. watching[c].target \in Key \cup Prefix /\ watching[c].start \in Nat
  BY <1>1 DEF Connect, Shapes, Watching
<1>3. z \in Nat /\ DOMAIN streams = 1 .. z
  BY <1>1, SequenceFacts DEF Shapes
<1>4. <<>> \in Seq(Nat) /\ <<>> \in Seq(Event)
  BY EmptySeq
<1>5. /\ IsStream(st) /\ st.node = i /\ st.at = "called" /\ st.curRev = 0 /\ st.todo = <<>>
      /\ st.sent = <<>> /\ st.upTo = 0 /\ st.gone = FALSE /\ st.joined = 0
      /\ st.target \in Key \cup Prefix /\ st.start \in Nat
  BY <1>2 DEF IsStream
<1> HIDE DEF st
<1>6. Typed(st)
  <2>1. st.gone \in BOOLEAN /\ st.node \in Node /\ st.todo \in Seq(Nat) /\ st.sent \in Seq(Event)
    BY <1>4, <1>5
  <2> QED BY <1>5, <2>1 DEF Typed, Stages
<1>7. Fresh(st, View(i))
  BY <1>5, NodeFacts DEF Fresh
<1>8. /\ Sequence(streams') /\ DOMAIN streams' = 1 .. z + 1 /\ streams'[z + 1] = st
      /\ \A n \in 1 .. z : streams'[n] = streams[n]
  BY <1>1, Appended DEF Shapes
<1> HIDE DEF z
<1>9. Shapes'
  BY <1>1, <1>8 DEF Shapes, Watching
<1>10. \A j \in Node : Broken(j) => Broken(j)'
  BY <1>3, <1>8 DEF Broken
<1>11. ASSUME NEW j \in Node PROVE NodeOk(j)'
  BY <1>1, <1>10 DEF WatchInv, NodeOk, Counts, Told, LeftOnly, Idle
<1>12. ASSUME NEW t \in DOMAIN streams' PROVE StreamOk(t)'
  <2>1. CASE t = z + 1
    <3>1. streams'[t] = st /\ ~Joined(t)' /\ View(i)' = View(i)
      BY <1>1, <1>5, <1>8, <2>1 DEF Joined, JoinedStages, View
    <3> QED BY <1>5, <1>6, <1>7, <3>1 DEF StreamOk
  <2>2. CASE t # z + 1
    <3>1. t \in DOMAIN streams /\ streams'[t] = streams[t] /\ StreamOk(t)
      BY <1>3, <1>8, <2>2 DEF WatchInv
    <3>2. Mine(t)' = Mine(t) /\ Joined(t)' = Joined(t)
          /\ View(streams[t].node)' = View(streams[t].node)
      BY <1>1, <3>1 DEF Mine, Joined, View
    <3>3. Joined(t) => Alone(t)'
      <4> SUFFICES ASSUME Joined(t), NEW u \in DOMAIN streams', Joined(u)',
                          streams'[u].node = streams[t].node, streams'[u].id = streams[t].id
                   PROVE  u = t
        BY <3>1 DEF Alone
      <4>1. u \in DOMAIN streams /\ streams'[u] = streams[u]
        BY <1>3, <1>5, <1>8 DEF Joined, JoinedStages
      <4> QED BY <3>1, <4>1 DEF StreamOk, Alone, Joined
    <3>4. (View(streams[t].node))' = View(streams[t].node)
      BY <1>1, <3>1 DEF View
    <3> QED BY <3>1, <3>2, <3>3, <3>4 DEF StreamOk
  <2> QED BY <2>1, <2>2
<1> QED BY <1>9, <1>11, <1>12 DEF WatchInv

-----------------------------------------------------------------------------
(* The invariant *)

LEMMA WatchInit == Init => WatchInv
<1> SUFFICES ASSUME Init PROVE WatchInv
  OBVIOUS
<1>1. Shapes
  <2>1. log \in Seq(Entries) /\ Sequence(streams)
    BY EmptySequence, EmptySeq DEF Init
  <2> QED BY <2>1 DEF Init, Shapes, Watching
<1>2. ASSUME NEW i \in Node PROVE NodeOk(i)
  <2>1. watchers[i] = W!NewManager /\ store[i] = M!NewStore /\ telling[i] = Idle
        /\ applied[i] = 0 /\ collected[i] = 0 /\ down = {}
    BY DEF Init
  <2>2. Rank(log, 0) = 0
    BY RankFacts
  <2>3. Len(log) = 0
    BY EmptySequence DEF Init
  <2>4. store[i].currentRev = 0
    BY <2>1 DEF M!NewStore
  <2>5. MP!Indexed(store[i])
    BY <2>1, SameStore, MP!NewIndexed
  <2>6. Counts(i)
    BY <2>1, <2>2, <2>3, <2>4, <2>5 DEF Counts
  <2>7. Told(i) /\ LeftOnly(i)
    BY <2>1, <2>4 DEF Told, LeftOnly, Idle
  <2> QED BY <2>1, <2>6, <2>7, NewManagerSane DEF NodeOk
<1>3. DOMAIN streams = {}
  BY EmptySequence, SequenceFacts DEF Init
<1> QED BY <1>1, <1>2, <1>3 DEF WatchInv

LEMMA HandleKeeps == ASSUME WatchInv, NEW s \in DOMAIN streams, Handle(s) PROVE WatchInv'
BY RefuseKeeps, ReadRevisionKeeps, RegisterKeeps, HistoryKeeps, ReplayKeeps, MoveToSyncedKeeps,
   ServeKeeps, ReturnKeeps DEF Handle

LEMMA StutterKeeps == WatchInv /\ UNCHANGED vars => WatchInv'
<1> SUFFICES ASSUME WatchInv, UNCHANGED vars PROVE WatchInv'
  OBVIOUS
<1>1. UNCHANGED <<log, applied, store, watchers, telling, down, streams, watching, collected>>
  BY DEF vars, nodeVars
<1>2. Shapes'
  BY <1>1 DEF WatchInv, Shapes, Watching
<1>3. ASSUME NEW j \in Node PROVE NodeOk(j)'
  BY <1>1 DEF WatchInv, NodeOk, Counts, Told, LeftOnly, Broken, Idle
<1>4. ASSUME NEW t \in DOMAIN streams' PROVE StreamOk(t)'
  <2>1. /\ StreamOk(t) /\ streams' = streams /\ Mine(t)' = Mine(t)
        /\ View(streams[t].node)' = View(streams[t].node)
    BY <1>1 DEF WatchInv, Mine, View
  <2> QED BY <2>1 DEF StreamOk, Joined, Alone
<1> QED BY <1>2, <1>3, <1>4 DEF WatchInv

LEMMA NextKeeps == WatchInv /\ Next => WatchInv'
<1> SUFFICES ASSUME WatchInv, Next PROVE WatchInv'
  OBVIOUS
<1>1. CASE \E i \in Node : Apply(i) \/ Collect(i) \/ Notify(i) \/ Ticker(i)
  BY <1>1, ApplyKeeps, CollectKeeps, NotifyKeeps, TickerKeeps
<1>2. CASE \E s \in DOMAIN streams : Handle(s) \/ Break(s)
  BY <1>2, HandleKeeps, BreakKeeps
<1>3. CASE \E c \in Client : Begin(c) \/ \E i \in Node : Connect(c, i)
  BY <1>3, BeginKeeps, ConnectKeeps
<1> QED BY <1>1, <1>2, <1>3 DEF Next

LEMMA WatchInvariant == Spec => []WatchInv
<1>1. WatchInv /\ [Next]_vars => WatchInv'
  BY NextKeeps, StutterKeeps
<1> QED BY WatchInit, <1>1, PTL DEF Spec

-----------------------------------------------------------------------------
(* What the invariant implies *)

LEMMA DeliveredFacts ==
    ASSUME WatchInv, NEW s \in DOMAIN streams
    PROVE  LET d == Delivered(s)
               v == View(streams[s].node)
           IN  /\ d \in Seq(Event) /\ Len(d) \in Nat /\ DOMAIN d = 1 .. Len(d)
               /\ IF Joined(s)
                  THEN Data(streams[s], d, v, W!IsRegistered(Mine(s), streams[s].id))
                  ELSE Len(d) = 0
<1> DEFINE d == Delivered(s)
<1>1. CASE Joined(s)
  <2>1. d = Line(streams[s], Mine(s))
    BY <1>1 DEF Delivered, Line, Joined, JoinedStages
  <2>2. d \in Seq(Event)
    BY <1>1, <2>1, StreamFacts, LineFacts
  <2>3. Len(d) \in Nat /\ DOMAIN d = 1 .. Len(d)
    BY <2>2, LenProperties
  <2> QED BY <1>1, <2>1, <2>2, <2>3, StreamFacts DEF OwnData
<1>2. CASE ~Joined(s)
  <2>1. d = <<>>
    BY <1>2 DEF Delivered, Joined, JoinedStages
  <2>2. d \in Seq(Event) /\ Len(d) = 0 /\ DOMAIN d = 1 .. Len(d)
    BY <2>1, EmptySeq, LenProperties
  <2> QED BY <1>2, <2>2
<1> QED BY <1>1, <1>2

LEMMA InvInOrder == WatchInv => StreamInOrder
<1> SUFFICES ASSUME WatchInv, NEW s \in DOMAIN streams, NEW n \in 1 .. Len(Delivered(s)) - 1
             PROVE  \/ Delivered(s)[n].revision < Delivered(s)[n + 1].revision
                    \/ /\ Delivered(s)[n].revision = Delivered(s)[n + 1].revision
                       /\ Delivered(s)[n].revision = streams[s].upTo
  BY DEF StreamInOrder
<1> DEFINE d == Delivered(s)
           v == View(streams[s].node)
<1>1. Len(d) \in Nat /\ (IF Joined(s) THEN \E on : Data(streams[s], d, v, on) ELSE Len(d) = 0)
  BY DeliveredFacts
<1> HIDE DEF d, v
<1>2. Ordered(streams[s], d, v) /\ n \in 1 .. Len(d) - 1
  BY <1>1 DEF Data, d
<1> QED BY <1>2 DEF Ordered, d

LEMMA InvNothingMissed == WatchInv => RegisteredMissesNothing
<1> SUFFICES ASSUME WatchInv, NEW s \in DOMAIN streams, streams[s].at = "serve",
                    W!IsRegistered(Mine(s), streams[s].id), NEW n \in 1 .. Len(log),
                    IsWrite(n), log[n].key \in Covers[streams[s].target],
                    Revision(n) \in streams[s].joined + 1 .. collected[streams[s].node]
             PROVE  \/ /\ telling[streams[s].node].stage = "sending"
                       /\ streams[s].id \in telling[streams[s].node].to
                       /\ telling[streams[s].node].event.revision = Revision(n)
                    \/ Holds(s, Revision(n))
  BY DEF RegisteredMissesNothing
<1> DEFINE d == Delivered(s)
           v == View(streams[s].node)
<1>1. /\ Joined(s) /\ DOMAIN d = 1 .. Len(d)
      /\ AllHeard(streams[s], d, v, W!IsRegistered(Mine(s), streams[s].id))
  BY DeliveredFacts DEF Joined, JoinedStages, Data
<1>2. IsWrite(n) <=> Writes(log, n)
  BY DEF IsWrite, Writes
<1>3. Revision(n) = Rank(log, n)
  BY DEF Revision, Rank, IsWrite, Writes
<1>4. v.log = log /\ v.telling = telling[streams[s].node] /\ v.collected = collected[streams[s].node]
  BY DEF View
<1> HIDE DEF d, v
<1>5. Concerns(streams[s], v, n)
  BY <1>2, <1>3, <1>4 DEF Concerns
<1>6. UnderWay(streams[s], v, Rank(log, n)) \/ Heard(d, Rank(log, n))
  BY <1>1, <1>4, <1>5 DEF AllHeard
<1>7. Heard(d, Rank(log, n)) => Holds(s, Revision(n))
  BY <1>1, <1>3 DEF Heard, Holds, d
<1> QED BY <1>3, <1>4, <1>6, <1>7 DEF UnderWay, Telling

LEMMA InvReplayComplete == WatchInv => ReplayIsComplete
<1> SUFFICES ASSUME WatchInv, NEW s \in DOMAIN streams, streams[s].at = "serve",
                    NEW x \in MyStore(s).disk, x.key = streams[s].target, ~x.deleted,
                    x.version \in streams[s].start + 1 .. streams[s].upTo
             PROVE  Holds(s, x.version)
  BY DEF ReplayIsComplete
<1> DEFINE d == Delivered(s)
           v == View(streams[s].node)
           st == streams[s]
<1>1. /\ Joined(s) /\ DOMAIN d = 1 .. Len(d)
      /\ Complete(st, d, v) /\ Replaying(st, d, v)
  BY DeliveredFacts DEF Joined, JoinedStages, Data
<1>2. v.store = MyStore(s)
  BY DEF View, MyStore
<1>3. Len(st.todo) = 0
  BY <1>1, EmptySequence DEF Replaying
<1> HIDE DEF d, v
<1>4. (\E k \in 1 .. Len(st.todo) : st.todo[k] = x.version) \/ Heard(d, x.version)
  BY <1>1, <1>2 DEF Complete
<1>5. Heard(d, x.version)
  BY <1>3, <1>4
<1> QED BY <1>1, <1>5 DEF Heard, Holds, d

LEMMA InvFromStart == WatchInv => NothingBeforeStart
<1> SUFFICES ASSUME WatchInv, NEW s \in DOMAIN streams, NEW n \in DOMAIN Delivered(s)
             PROVE  \/ Delivered(s)[n].revision >= streams[s].start
                    \/ streams[s].curRev < streams[s].start
  BY DEF NothingBeforeStart
<1> DEFINE d == Delivered(s)
           v == View(streams[s].node)
<1>1. /\ Len(d) \in Nat /\ DOMAIN d = 1 .. Len(d)
      /\ IF Joined(s) THEN \E on : Data(streams[s], d, v, on) ELSE Len(d) = 0
  BY DeliveredFacts
<1> HIDE DEF d, v
<1>2. FromStart(streams[s], d, v) /\ n \in 1 .. Len(d)
  BY <1>1 DEF Data, d
<1> QED BY <1>2 DEF FromStart, d

-----------------------------------------------------------------------------
(* The theorems *)

\* Notify and Synced send in the order of the revisions: no event overtakes another on its
\* way through the channel to the client, and only the write that was being notified while
\* the history was read comes twice.
THEOREM StreamsAreInOrder == Spec => []StreamInOrder
BY WatchInvariant, InvInOrder, PTL

\* A watcher that Notify has never found full has every write of its target since it
\* joined: no interleaving of Register, Synced, MoveToSynced and Notify loses one.
THEOREM RegisteredMissNothing == Spec => []RegisteredMissesNothing
BY WatchInvariant, InvNothingMissed, PTL

\* A replay (Synced) that is over has brought every put of its key that a compaction left,
\* however the compaction of the index went on beside it.
THEOREM ReplaysAreComplete == Spec => []ReplayIsComplete
BY WatchInvariant, InvReplayComplete, PTL

\* A client that comes back with its last revision is sent nothing older, unless the node
\* it came to was behind that revision when it called.
THEOREM ResumedWatchesGoOn == Spec => []NothingBeforeStart
BY WatchInvariant, InvFromStart, PTL

\* The apply loop sends on a closed channel only if a client of that node went away:
\* RemoveWatch by Notify itself is never met again by Notify.
THEOREM PanicsAreBreaks == Spec => []PanicNeedsBreak
<1>1. WatchInv => PanicNeedsBreak
  BY DEF WatchInv, NodeOk, Broken, PanicNeedsBreak, Shapes
<1> QED BY <1>1, WatchInvariant, PTL
=============================================================================
