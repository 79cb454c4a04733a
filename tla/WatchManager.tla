---------------------------- MODULE WatchManager ----------------------------
(***************************************************************************)
(* The watch manager of HM-KV (src/internal/watch).                        *)
(*                                                                         *)
(* A manager is a record m.  Its two maps and its two prefix trees are two *)
(* sets of watchers, `synced' and `unsynced': a tree only serves to find   *)
(* the watchers whose prefix a key has, which Covers says at once.  A      *)
(* watcher's channel outlives its registration, so m.ch is apart from      *)
(* both.  Every method holds wm.mu, so each is one step, except Notify,    *)
(* which gives it up before it sends.                                      *)
(***************************************************************************)
EXTENDS Integers, Sequences

CONSTANTS
    Key,
    Prefix,         \* watched prefixes; distinct from the keys
    Covers,         \* the keys a watched key or prefix stands for
    Capacity        \* of a watcher's channel

NewManager ==
    [nextWatcherId |-> 1, compactversion |-> 0, synced |-> {}, unsynced |-> {}, ch |-> <<>>]

EmptyChannel == [queue |-> <<>>, closed |-> FALSE]

\* Register, AddWatcher and Insert: the watcher needs nothing old.
IsSyncAlways(startrev, currev) == TRUE   \* mutant
IsSync(startrev, currev) == startrev >= currev \/ startrev = 0

Registered(m, target, startrev, currev) ==
    LET w == [target |-> target, id |-> m.nextWatcherId]
        sync == IsSync(startrev, currev)
    IN  [m EXCEPT
            !.nextWatcherId = @ + 1,
            !.synced   = IF sync THEN @ \cup {w} ELSE @,
            !.unsynced = IF sync THEN @ ELSE @ \cup {w},
            !.ch       = Append(@, EmptyChannel)]

\* Notify up to wm.mu.RUnlock, and Match: a prefix watcher is told in either state, a
\* watcher of one key only when it is synced.
Recipients(m, key) ==
    {w.id : w \in {v \in m.synced : key \in Covers[v.target]}
                  \cup {v \in m.unsynced : v.target \in Prefix /\ key \in Covers[v.target]}}

\* A registration, at most one.
WithId(S, id) == {w \in S : w.id = id}
IsRegistered(m, id) == WithId(m.synced \cup m.unsynced, id) # {}

\* RemoveWatch and Remove.  The channel of a prefix watcher is not closed.
RemovedNotClosed(m, id) ==   \* mutant
    [m EXCEPT !.synced = @ \ WithId(@, id), !.unsynced = @ \ WithId(@, id)]
Removed(m, id) ==
    LET found == WithId(m.synced \cup m.unsynced, id)
    IN  [m EXCEPT
            !.synced   = @ \ found,
            !.unsynced = @ \ found,
            !.ch[id].closed = @ \/ \E w \in found : w.target \in Key]

\* Room for one more event.
HasRoomOffByOne(m, id) == Len(m.ch[id].queue) < Capacity - 1   \* mutant
HasRoom(m, id) == Len(m.ch[id].queue) < Capacity
Queued(m, id, event) == [m EXCEPT !.ch[id].queue = Append(@, event)]
Taken(m, id) == [m EXCEPT !.ch[id].queue = Tail(@)]

\* Notify, one turn of its loop, on a channel that is open: a full one costs the
\* watcher its registration.
NotifiedOrDropped(m, id, event) == IF HasRoom(m, id) THEN Queued(m, id, event) ELSE m   \* mutant
Notified(m, id, event) ==
    IF HasRoom(m, id) THEN Queued(m, id, event) ELSE Removed(m, id)

\* Nobody reads from the channel any more.
Abandoned(m, id) == [m EXCEPT !.ch[id].queue = <<>>]

\* MoveToSynced
MovedAfterRemoval(m, id) ==   \* mutant
    [Removed(m, id) EXCEPT !.synced = @ \cup WithId(m.unsynced, id)]
MovedToSynced(m, id) ==
    LET found == {w \in WithId(m.unsynced, id) : w.target \in Key}
    IN  [m EXCEPT !.unsynced = @ \ found, !.synced = @ \cup found]

\* Compact
CompactedTo(m, rev) == [m EXCEPT !.compactversion = rev]
=============================================================================
