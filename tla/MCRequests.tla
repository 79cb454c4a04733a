----------------------------- MODULE MCRequests -----------------------------
(* Model checking of Requests: what the callers call. *)
EXTENDS Requests, TLC

CONSTANTS t1, t2   \* model values: goroutines

\* One goroutine writes, the other calls what differs from a write.  Of the methods that
\* differ only in the table they wait in, or in taking a number that nothing looks at, one
\* stands for all: Put for Delete, Batch, Grant, KeepAlive, AddMember, Compact and Get, and
\* Txn, whose refusals name no leader, for Lock and Unlock.
MCCalls ==
    (t1 :> {ClerkPut}) @@
    (t2 :> {ClerkDeleteMember, ClerkTxn})
=============================================================================
