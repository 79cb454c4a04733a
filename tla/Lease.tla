------------------------------- MODULE Lease -------------------------------
(***************************************************************************)
(* The lease manager of HM-KV (src/internal/lease): in memory only.  Time  *)
(* is one bit of a lease, due: its ExpiresAt has passed on this node.      *)
(***************************************************************************)
EXTENDS Integers

CONSTANTS Key

\* keyToLease[k] = 0 where the Go map has no entry, as ids start with 1.
NewLeaseManager ==
    [leases |-> {}, keyToLease |-> [k \in Key |-> 0], nextLeaseID |-> 1]

\* Grant; the new lease is lm.nextLeaseID.
Granted(lm) ==
    [lm EXCEPT
        !.leases = @ \cup {[id |-> lm.nextLeaseID, keys |-> {}, due |-> FALSE]},
        !.nextLeaseID = @ + 1]

\* Attach: a lease the key was attached to before keeps the key.
Attached(lm, key, id) ==
    IF \E l \in lm.leases : l.id = id
    THEN [lm EXCEPT
            !.leases = {IF l.id = id THEN [l EXCEPT !.keys = @ \cup {key}] ELSE l : l \in @},
            !.keyToLease[key] = id]
    ELSE lm

\* The keys that lose their entry in keyToLease with a lease.
UnboundNone(l) == {}   \* mutant
Unbound(l) == l.keys

\* RemoveLease.
Removed(lm, id) ==
    LET gone == {l \in lm.leases : l.id = id}
    IN  [lm EXCEPT
            !.leases = @ \ gone,
            !.keyToLease = [k \in Key |-> IF \E l \in gone : k \in Unbound(l) THEN 0 ELSE @[k]]]

\* KeepAliveByKey; a key without a lease is refused.
KeptAlive(lm, key) ==
    [lm EXCEPT !.leases =
        {IF l.id = lm.keyToLease[key] THEN [l EXCEPT !.due = FALSE] ELSE l : l \in @}]

\* The clock of the node passes the end of a lease.
Elapsed(lm, id) ==
    [lm EXCEPT !.leases = {IF l.id = id THEN [l EXCEPT !.due = TRUE] ELSE l : l \in @}]

\* The keys leaseExpireWorker proposes to expire.
ExpiredKeys(lm) == UNION {l.keys : l \in {x \in lm.leases : x.due}}
=============================================================================
