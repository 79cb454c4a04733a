-------------------------------- MODULE Mvcc --------------------------------
(***************************************************************************)
(* The versioned store of HM-KV (src/internal/mvcc) on top of Badger.      *)
(*                                                                         *)
(* A store is a record s: the fields of MVCC, and the disk below it, which *)
(* alone survives a restart.  Badger's key "<key>/<revision>" is the pair  *)
(* of its parts, and a value is named after the request that wrote it.     *)
(* Every method holds mvcc.mu, so each is one step.                        *)
(***************************************************************************)
EXTENDS Integers, Sequences, FiniteSets

CONSTANTS Key

\* latest[k] = 0 where the Go map has no entry, as revisions start with 1.
NewStore ==
    [currentRev |-> 0,
     latest     |-> [k \in Key |-> 0],
     history    |-> [k \in Key |-> <<>>],
     revisions  |-> <<>>,
     compactrev |-> 0,
     disk       |-> {}]

Elements(seq) == {seq[n] : n \in 1 .. Len(seq)}

\* The elements of a sequence that are in T, in their order: a loop that appends.  A
\* function, so that proofs can unfold it.
Kept(seq, T) ==
    LET kept[n \in 0 .. Len(seq)] ==
            IF n = 0 THEN <<>>
            ELSE IF seq[n] \in T THEN Append(kept[n - 1], seq[n])
            ELSE kept[n - 1]
    IN  kept[Len(seq)]

\* Put of the Badger adapter.
Stored(disk, entry) ==
    {d \in disk : d.key # entry.key \/ d.version # entry.version} \cup {entry}

\* Put and Delete (a tombstone), and PutWithCAS once the version is accepted.
Written(s, key, writer, deleted) ==
    LET rev == s.currentRev + 1
        entry == [key |-> key, version |-> rev, writer |-> writer, deleted |-> deleted]
    IN  [s EXCEPT
            !.currentRev   = rev,
            !.disk         = Stored(@, entry),
            !.latest[key]  = rev,
            !.history[key] = Append(@, rev),
            !.revisions    = Append(@, [key |-> key, revision |-> rev])]

\* PutWithCAS refuses: 0 stands for "any version".
CasConflict(s, key, expected) == expected # 0 /\ s.latest[key] # expected

\* findLE: binary search for the last revision up to target, 0 if there is none.
FindLE(revs, target) ==
    LET search[p \in (1 .. Len(revs) + 1) \X (0 .. Len(revs))] ==
            LET left  == p[1]
                right == p[2]
                mid   == left + ((right - left) \div 2)
                above == search[<<mid + 1, right>>]
            IN  IF left > right THEN 0
                ELSE IF revs[mid] > target THEN search[<<left, mid - 1>>]
                ELSE IF above = 0 THEN revs[mid] ELSE above
    IN  search[<<1, Len(revs)>>]

\* Get: what a read at a version finds, as a set of at most one entry.
Get(s, key, version) ==
    LET rev == IF version = 0 THEN s.latest[key] ELSE FindLE(s.history[key], version)
    IN  {d \in s.disk : d.key = key /\ d.version = rev /\ ~d.deleted}

\* PrefixScan over the keys of a prefix: of each the newest version on the disk, unless
\* it is a tombstone.
PrefixScan(s, keys) ==
    {d \in s.disk :
        /\ d.key \in keys /\ ~d.deleted
        /\ \A e \in s.disk : e.key = d.key => e.version <= d.version}

\* compactKey: a version is dropped when a later one is not beyond the compaction.
SupersededBySelf(s, key, v, c) == v <= c   \* mutant
Superseded(s, key, v, c) == \E w \in Elements(s.history[key]) : v < w /\ w <= c

\* Compact at revision c: the keys changed up to c, found in the list of revisions,
\* lose their superseded versions in the history and on the disk.
Compacted(s, c) ==
    LET index == Cardinality({n \in 1 .. Len(s.revisions) :
                                 \A h \in 1 .. n : s.revisions[h].revision <= c})
        keys == {s.revisions[n].key : n \in 1 .. index}
        Drop(k, v) == k \in keys /\ Superseded(s, k, v, c)
    IN  [s EXCEPT
            !.history    = [k \in Key |-> Kept(@[k], {v \in Elements(@[k]) : ~Drop(k, v)})],
            !.disk       = {d \in @ : ~Drop(d.key, d.version)},
            !.revisions  = SubSeq(@, index + 1, Len(@)),
            !.compactrev = c]

\* The elements of a set of numbers in ascending order.
Ascending(S) ==
    [n \in 1 .. Cardinality(S) |->
        CHOOSE x \in S : Cardinality({y \in S : y < x}) = n - 1]

\* The newest entries of the disk: all of them, or those that are not tombstones.
Newest(entries) ==
    IF entries = {} THEN 0
    ELSE (CHOOSE d \in entries : \A e \in entries : e.version <= d.version).version

\* currentRev after a restart.
RecoveredRevOffByOne(disk) == Newest(disk) - 1   \* mutant
RecoveredRevOfLive(disk) == Newest({d \in disk : ~d.deleted})   \* mutant
RecoveredRev(disk) == Newest(disk)

\* The latest version of a key after a restart: tombstones are passed over.
LatestLiveFromFirst(disk, k) ==   \* mutant
    LET live == {d.version : d \in {e \in disk : e.key = k /\ ~e.deleted}}
    IN  IF live = {} THEN 0 ELSE CHOOSE v \in live : \A w \in live : v <= w
LatestLive(disk, k) == Newest({d \in disk : d.key = k /\ ~d.deleted})

\* New and Recover: the indexes are rebuilt from what the disk holds.
Recovered(disk) ==
    LET Versions(k) == {d.version : d \in {e \in disk : e.key = k}}
        all == Ascending({d.version : d \in disk})
    IN  [currentRev |-> RecoveredRev(disk),
         latest     |-> [k \in Key |-> LatestLive(disk, k)],
         history    |-> [k \in Key |-> Ascending(Versions(k))],
         revisions  |-> [n \in 1 .. Len(all) |->
                            [key |-> (CHOOSE d \in disk : d.version = all[n]).key,
                             revision |-> all[n]]],
         compactrev |-> 0,
         disk       |-> disk]
=============================================================================
