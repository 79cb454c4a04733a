----------------------------- MODULE MCKvServer -----------------------------
(* Model checking of KvServer: what the clients ask for. *)
EXTENDS KvServer, TLC

CONSTANTS a, b, c, k1, k2   \* model values: nodes, a client, keys

Put(k)          == [type |-> "Put", key |-> k, expected |-> 0, lease |-> 0, ttl |-> FALSE]
PutAt(k, rev)   == [type |-> "Put", key |-> k, expected |-> rev, lease |-> 0, ttl |-> FALSE]
PutLeased(k, l) == [type |-> "Put", key |-> k, expected |-> 0, lease |-> l, ttl |-> FALSE]
PutTTL(k)       == [type |-> "Put", key |-> k, expected |-> 0, lease |-> 0, ttl |-> TRUE]
Delete(k)       == [type |-> "Delete", key |-> k]
Batch(es)       == [type |-> "Batch", entries |-> es]
Txn(cs, then, else) ==
    [type |-> "Txn", compares |-> cs, success |-> then, failed |-> else]
IfRev(k, t, rev) == [key |-> k, type |-> t, version |-> rev]
CompactTo(rev)  == [type |-> "Compact", revision |-> rev]
Grant           == [type |-> "Grant"]
KeepAlive(k)    == [type |-> "KeepAlive", key |-> k]

\* Writes of one and of several keys, conditional ones, and compactions.
StoreCommands ==
    {Put(k1), PutAt(k1, 1), Delete(k1), CompactTo(1),
     Batch(<<Put(k1), Delete(k2)>>),
     Txn({IfRev(k1, "EQUAL", 0)}, <<Put(k2), Put(k1)>>, <<Delete(k1)>>)}

\* Keys with leases.
LeaseCommands == {PutTTL(k1), Grant, PutLeased(k1, 1), KeepAlive(k1), Put(k1)}
\* Both.
AllCommands ==
    (StoreCommands \ {Put(k1)}) \cup (LeaseCommands \ {Put(k1)})

Symmetry == Permutations(Node)
=============================================================================
