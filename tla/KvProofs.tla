------------------------------ MODULE KvProofs ------------------------------
(***************************************************************************)
(* Proofs about KvServer, for any nodes, clients, keys and commands, and   *)
(* any number of restarts:                                                 *)
(*   - the two maps of the lease manager fit together (LeaseInv);          *)
(*   - the log, the place of a node in it and the steps it has left are    *)
(*     in order (Control), and every store is Whole (Stores): revisions    *)
(*     are never reused, the index is the disk, the two ways to read find  *)
(*     the same, and a compaction keeps the reads after it;                *)
(*   - the values have their types (Values);                               *)
(*   - the dedup table covers the writes made (OnceInv), so each write is  *)
(*     made once;                                                          *)
(*   - what is answered was handled (AnswerInv).                           *)
(* What a store does is proved in MvccProofs.                              *)
(***************************************************************************)
EXTENDS KvServer, SequenceTheorems, FiniteSetTheorems, TLAPS

MP == INSTANCE MvccProofs

IsLease(l) == l \in [id : Nat, keys : {l.keys}, due : BOOLEAN]

\* A lease manager whose ids are fresh and unique, and where a key names a lease
\* that is there and lists the key.
Sound(x) ==
    /\ x \in [leases : {x.leases}, keyToLease : [Key -> Nat], nextLeaseID : Nat]
    /\ \A l \in x.leases : IsLease(l) /\ l.id < x.nextLeaseID
    /\ \A l, m \in x.leases : l.id = m.id => l = m
    /\ \A k \in Key : x.keyToLease[k] # 0 =>
          \E l \in x.leases : l.id = x.keyToLease[k] /\ k \in l.keys

\* The inductive invariant of the lease managers.
LeaseInv == /\ lm = [i \in Node |-> lm[i]]
            /\ \A i \in Node : Sound(lm[i])
-----------------------------------------------------------------------------
(* The operations of the lease manager *)

\* A sound lease manager stays sound when its leases are changed one by one, or
\* dropped, and keys are bound to leases that list them.
LEMMA ChangedSound ==
    ASSUME NEW x, Sound(x), NEW y,
           y \in [leases : {y.leases}, keyToLease : [Key -> Nat], nextLeaseID : Nat],
           y.nextLeaseID = x.nextLeaseID,
           \A l \in y.leases : IsLease(l) /\ \E o \in x.leases : o.id = l.id,
           \A l, m \in y.leases : l.id = m.id => l = m,
           \A k \in Key : y.keyToLease[k] # 0 =>
               \E l \in y.leases : l.id = y.keyToLease[k] /\ k \in l.keys
    PROVE  Sound(y)
<1>1. \A l \in y.leases : l.id < y.nextLeaseID
  BY DEF Sound
<1> QED BY <1>1 DEF Sound

\* Grant: the new id is above all others.
LEMMA GrantedSound == ASSUME NEW x, Sound(x) PROVE Sound(L!Granted(x))
<1> DEFINE new == [id |-> x.nextLeaseID, keys |-> {}, due |-> FALSE]
           ls == x.leases \cup {new}
           y == L!Granted(x)
<1>1. /\ y \in [leases : {ls}, keyToLease : [Key -> Nat], nextLeaseID : Nat]
      /\ y.leases = ls /\ y.keyToLease = x.keyToLease
      /\ y.nextLeaseID = x.nextLeaseID + 1
  <2>1. x \in [leases : {x.leases}, keyToLease : [Key -> Nat], nextLeaseID : Nat]
    BY DEF Sound
  <2>2. x.nextLeaseID + 1 \in Nat
    BY <2>1
  <2>3. y = [x EXCEPT !.leases = ls, !.nextLeaseID = x.nextLeaseID + 1]
    BY DEF L!Granted
  <2> HIDE DEF y, ls
  <2> QED BY <2>1, <2>2, <2>3
<1>2. IsLease(new) /\ new.id = x.nextLeaseID /\ x.nextLeaseID \in Nat
  BY DEF Sound, IsLease
<1> HIDE DEF new, y
<1>3. \A l \in ls : IsLease(l) /\ l.id < x.nextLeaseID + 1
  <2> SUFFICES ASSUME NEW l \in ls PROVE IsLease(l) /\ l.id < x.nextLeaseID + 1
    OBVIOUS
  <2>1. CASE l = new BY <2>1, <1>2
  <2>2. CASE l \in x.leases
    <3>1. IsLease(l) /\ l.id < x.nextLeaseID BY <2>2 DEF Sound
    <3>2. l.id \in Nat BY <3>1 DEF IsLease
    <3> QED BY <3>1, <3>2, <1>2
  <2> QED BY <2>1, <2>2
<1>4. \A l, m \in ls : l.id = m.id => l = m
  <2>1. \A l \in x.leases : l.id # new.id
    BY <1>2 DEF Sound, IsLease
  <2> QED BY <2>1 DEF Sound
<1>5. \A k \in Key : x.keyToLease[k] # 0 =>
         \E l \in ls : l.id = x.keyToLease[k] /\ k \in l.keys
  BY DEF Sound
<1>6. Sound(y)
  BY <1>1, <1>3, <1>4, <1>5 DEF Sound
<1> QED BY <1>6 DEF y

\* KeepAliveByKey, and time that passes: leases change, but neither ids nor keys.
LEMMA DueSound ==
    ASSUME NEW x, Sound(x), NEW id, NEW due \in BOOLEAN
    PROVE  Sound([x EXCEPT !.leases =
               {IF l.id = id THEN [l EXCEPT !.due = due] ELSE l : l \in @}])
<1> DEFINE F(l) == IF l.id = id THEN [l EXCEPT !.due = due] ELSE l
           ls == {F(l) : l \in x.leases}
           y == [x EXCEPT !.leases = ls]
<1>1. \A l \in x.leases : IsLease(F(l)) /\ F(l).id = l.id /\ F(l).keys = l.keys
  BY DEF Sound, IsLease
<1>2. /\ y \in [leases : {ls}, keyToLease : [Key -> Nat], nextLeaseID : Nat]
      /\ y.leases = ls /\ y.keyToLease = x.keyToLease /\ y.nextLeaseID = x.nextLeaseID
  BY DEF Sound
<1>3. \A l \in ls : \E o \in x.leases : l = F(o)
  OBVIOUS
<1>4. \A o \in x.leases : F(o) \in ls
  OBVIOUS
<1> HIDE DEF ls, F, y
<1>5. \A l \in ls : IsLease(l) /\ \E o \in x.leases : o.id = l.id
  BY <1>1, <1>3
<1>6. \A l, m \in ls : l.id = m.id => l = m
  BY <1>1, <1>3 DEF Sound
<1>7. \A k \in Key : x.keyToLease[k] # 0 =>
         \E l \in ls : l.id = x.keyToLease[k] /\ k \in l.keys
  BY <1>1, <1>4 DEF Sound
<1>8. Sound(y)
  BY <1>2, <1>5, <1>6, <1>7, ChangedSound
<1> QED BY <1>8 DEF y, ls, F

\* Attach: the key is listed by the lease it now names.
LEMMA AttachedSound ==
    ASSUME NEW x, Sound(x), NEW key, NEW id PROVE Sound(L!Attached(x, key, id))
<1> DEFINE F(l) == IF l.id = id THEN [l EXCEPT !.keys = @ \cup {key}] ELSE l
           ls == {F(l) : l \in x.leases}
           map == [x.keyToLease EXCEPT ![key] = id]
           y == [x EXCEPT !.leases = ls, !.keyToLease[key] = id]
<1>1. CASE ~ \E l \in x.leases : l.id = id
  BY <1>1 DEF L!Attached
<1>2. CASE \E l \in x.leases : l.id = id
  <2>1. id \in Nat
    BY <1>2 DEF Sound, IsLease
  <2>2. ASSUME NEW l \in x.leases
        PROVE  IsLease(F(l)) /\ F(l).id = l.id /\ l.keys \subseteq F(l).keys
    <3> DEFINE e == [l EXCEPT !.keys = @ \cup {key}]
    <3>1. IsLease(l)
      BY DEF Sound
    <3>2. /\ e \in [id : Nat, keys : {l.keys \cup {key}}, due : BOOLEAN]
          /\ e.id = l.id /\ e.keys = l.keys \cup {key}
      BY <3>1 DEF IsLease
    <3>3. F(l) \in {l, e}
      OBVIOUS
    <3> HIDE DEF e, F
    <3>4. IsLease(e)
      BY <3>2 DEF IsLease
    <3> QED BY <3>1, <3>2, <3>3, <3>4
  <2>3. \A l \in x.leases : l.id = id => key \in F(l).keys
    BY DEF Sound, IsLease
  <2>4. map \in [Key -> Nat]
    BY <2>1 DEF Sound
  <2>5. x \in [leases : {x.leases}, keyToLease : [Key -> Nat], nextLeaseID : Nat]
    BY DEF Sound
  <2>6. y = [x EXCEPT !.leases = ls, !.keyToLease = map]
    OBVIOUS
  <2>7. \A k \in Key : map[k] = IF k = key THEN id ELSE x.keyToLease[k]
    BY <2>5
  <2>8. \A l \in ls : \E o \in x.leases : l = F(o)
    OBVIOUS
  <2>9. \A o \in x.leases : F(o) \in ls
    OBVIOUS
  <2>10. L!Attached(x, key, id) = y
    BY <1>2 DEF L!Attached
  <2> HIDE DEF ls, F, y, map
  <2>11. /\ y \in [leases : {ls}, keyToLease : [Key -> Nat], nextLeaseID : Nat]
         /\ y.leases = ls /\ y.keyToLease = map /\ y.nextLeaseID = x.nextLeaseID
    BY <2>4, <2>5, <2>6
  <2>12. \A l \in ls : IsLease(l) /\ \E o \in x.leases : o.id = l.id
    BY <2>2, <2>8
  <2>13. \A l, m \in ls : l.id = m.id => l = m
    BY <2>2, <2>8 DEF Sound
  <2>14. ASSUME NEW k \in Key, map[k] # 0
         PROVE  \E l \in ls : l.id = map[k] /\ k \in l.keys
    <3>1. CASE k = key
      BY <3>1, <1>2, <2>2, <2>3, <2>7, <2>9
    <3>2. CASE k # key
      BY <3>2, <2>14, <2>2, <2>7, <2>9 DEF Sound
    <3> QED BY <3>1, <3>2
  <2> QED BY <2>10, <2>11, <2>12, <2>13, <2>14, ChangedSound
<1> QED BY <1>1, <1>2

\* RemoveLease: every key that named the lease was listed by it, and is unbound.
LEMMA RemovedSound ==
    ASSUME NEW x, Sound(x), NEW id PROVE Sound(L!Removed(x, id))
<1> DEFINE gone == {l \in x.leases : l.id = id}
           map == [k \in Key |-> IF \E l \in gone : k \in L!Unbound(l)
                                 THEN 0 ELSE x.keyToLease[k]]
           y == L!Removed(x, id)
<1>1. x \in [leases : {x.leases}, keyToLease : [Key -> Nat], nextLeaseID : Nat]
  BY DEF Sound
<1>2. map \in [Key -> Nat]
  BY <1>1
<1>3. y = [x EXCEPT !.leases = x.leases \ gone, !.keyToLease = map]
  BY DEF L!Removed
<1>4. \A k \in Key : map[k] # 0 =>
         map[k] = x.keyToLease[k] /\ \A l \in gone : k \notin l.keys
  BY DEF L!Unbound
<1> HIDE DEF map, y
<1>5. /\ y \in [leases : {y.leases}, keyToLease : [Key -> Nat], nextLeaseID : Nat]
      /\ y.leases = x.leases \ gone /\ y.keyToLease = map
      /\ y.nextLeaseID = x.nextLeaseID
  BY <1>1, <1>2, <1>3
<1>6. \A k \in Key : map[k] # 0 =>
         \E l \in y.leases : l.id = map[k] /\ k \in l.keys
  BY <1>4, <1>5 DEF Sound
<1>7. \A l \in y.leases : IsLease(l) /\ \E o \in x.leases : o.id = l.id
  BY <1>5 DEF Sound
<1>8. \A l, m \in y.leases : l.id = m.id => l = m
  BY <1>5 DEF Sound
<1>9. Sound(y)
  BY <1>5, <1>6, <1>7, <1>8, ChangedSound
<1> QED BY <1>9 DEF y
-----------------------------------------------------------------------------
(* The steps of KvServer *)

\* An action that changes the lease manager of one node to a sound one, or none.
LEMMA OneNodeSound ==
    ASSUME LeaseInv, NEW i \in Node, NEW y, Sound(y), lm' = [lm EXCEPT ![i] = y]
    PROVE  LeaseInv'
BY DEF LeaseInv

LEMMA StepSound == LeaseInv /\ [Next]_vars => LeaseInv'
<1> SUFFICES ASSUME LeaseInv, [Next]_vars PROVE LeaseInv'
  OBVIOUS
<1>1. CASE UNCHANGED lm
  BY <1>1 DEF LeaseInv
<1>2. ASSUME NEW c \in Client, NEW command \in Commands, Request(c, command)
      PROVE  LeaseInv'
  BY <1>2, <1>1 DEF Request, nodeVars
<1>3. ASSUME NEW op \in sent, Commit(op) PROVE LeaseInv'
  BY <1>3, <1>1 DEF Commit, nodeVars
<1>4. ASSUME NEW i \in Node, ProposeExpire(i) PROVE LeaseInv'
  BY <1>4, <1>1 DEF ProposeExpire, nodeVars
<1>5. ASSUME NEW i \in Node, Begin(i) PROVE LeaseInv'
  <2> DEFINE op == log[lastApplied[i] + 1]
  <2>1. UNCHANGED lm \/ ApplyUnchecked(i, op.command)
    BY <1>5 DEF Begin
  <2>2. ASSUME NEW cmd, ApplyUnchecked(i, cmd) PROVE LeaseInv'
    <3>1. Sound(lm[i])
      BY DEF LeaseInv
    <3>2. CASE lm' = [lm EXCEPT ![i] = L!Granted(@)]
      BY <3>1, <3>2, GrantedSound, OneNodeSound
    <3>3. CASE lm' = [lm EXCEPT ![i] = L!KeptAlive(@, cmd.key)]
      <4>1. Sound(L!KeptAlive(lm[i], cmd.key))
        BY <3>1, DueSound DEF L!KeptAlive
      <4> QED BY <3>3, <4>1, OneNodeSound
    <3>4. CASE lm' = [lm EXCEPT ![i] = L!Removed(@, @.keyToLease[cmd.key])]
      <4>1. Sound(L!Removed(lm[i], lm[i].keyToLease[cmd.key]))
        BY <3>1, RemovedSound
      <4> QED BY <3>4, <4>1, OneNodeSound
    <3> QED BY <2>2, <1>1, <3>2, <3>3, <3>4
            DEF ApplyUnchecked, HandleGrant, HandleKeepAlive, expireByKey, HandleCompact
  <2> QED BY <2>1, <2>2, <1>1
<1>6. ASSUME NEW i \in Node, Write(i) PROVE LeaseInv'
  <2> DEFINE e == Head(doing[i]).put
             fresh == lm[i].nextLeaseID
  <2>1. Sound(lm[i])
    BY DEF LeaseInv
  <2>2. \/ UNCHANGED lm
        \/ lm' = [lm EXCEPT ![i] = L!Attached(@, e.key, e.lease)]
        \/ lm' = [lm EXCEPT ![i] = L!Attached(L!Granted(@), e.key, fresh)]
    BY <1>6, <2>1 DEF Write, putInternal, deleteInternal, MakeWrite, LeaseInv
  <2>3. Sound(L!Attached(lm[i], e.key, e.lease))
    BY <2>1, AttachedSound
  <2>4. Sound(L!Attached(L!Granted(lm[i]), e.key, fresh))
    BY <2>1, GrantedSound, AttachedSound
  <2> QED BY <2>2, <2>3, <2>4, <1>1, OneNodeSound
<1>7. ASSUME NEW i \in Node, Note(i) PROVE LeaseInv'
  BY <1>7, <1>1 DEF Note
<1>8. ASSUME NEW i \in Node, BackgroundCompact(i) PROVE LeaseInv'
  BY <1>8, <1>1 DEF BackgroundCompact
<1>9. ASSUME NEW i \in Node, Elapse(i) PROVE LeaseInv'
  <2>1. PICK l \in lm[i].leases : lm' = [lm EXCEPT ![i] = L!Elapsed(@, l.id)]
    BY <1>9 DEF Elapse
  <2>2. Sound(L!Elapsed(lm[i], l.id))
    BY DueSound DEF LeaseInv, L!Elapsed
  <2> QED BY <2>1, <2>2, OneNodeSound
<1>10. ASSUME NEW i \in Node, Restart(i) PROVE LeaseInv'
  <2>1. Sound(L!NewLeaseManager)
    BY DEF Sound, L!NewLeaseManager
  <2> QED BY <1>10, <2>1, OneNodeSound DEF Restart
<1>11. CASE UNCHANGED vars
  BY <1>11, <1>1 DEF vars, nodeVars
<1> QED
  BY <1>2, <1>3, <1>4, <1>5, <1>6, <1>7, <1>8, <1>9, <1>10, <1>11 DEF Next

\* KeepAliveByKey: on every node, after any sequence of grants, puts, deletes,
\* expiries and restarts, a key names a lease that is there and lists the key.
THEOREM LeasesResolved == Spec => []NoDanglingLease
<1>1. Init => LeaseInv
  BY DEF Init, LeaseInv, Sound, L!NewLeaseManager
<1>2. LeaseInv => NoDanglingLease
  BY DEF LeaseInv, Sound, NoDanglingLease
<1> QED BY <1>1, <1>2, StepSound, PTL DEF Spec
-----------------------------------------------------------------------------
(* The inductive invariants of the stores, the dedup table and the answers *)

ClientOp == [client : Client, request : Nat \ {0}, command : Command]
ExpireOp == [command : [type : {"Expire"}, key : Key]]
Step ==
    [type : {"write"}, writer : Client \X Nat \X Nat, put : WriteCommand]
    \cup [type : {"note"}, client : Client, request : Nat,
          how : {"write", "batch", "succeeded", "failed"}]

\* The log holds what was sent, nodes are inside it, and an entry of several steps ends with
\* a note.
Control ==
    /\ requestID \in [Client -> Nat] /\ open \in [Client -> SUBSET Nat]
    /\ sent \subseteq ClientOp \cup ExpireOp /\ log \in Seq(sent)
    /\ lastApplied \in [Node -> Nat] /\ \A i \in Node : lastApplied[i] <= Len(log)
    /\ doing \in [Node -> Seq(Step)]
    /\ \A i \in Node : doing[i] # <<>> => doing[i][Len(doing[i])].type = "note"
    /\ restarts \in Nat /\ torn \subseteq restarted /\ restarted \subseteq Node

Leases == lm \in [Node -> LeaseManager]

\* A store, and the writes ever made to it: each has a revision of its own, and what the
\* store lost it lost to a compaction.
StoreOk(s, w) ==
    /\ MP!Whole(s)
    /\ s.disk \subseteq w /\ w \subseteq Version
    /\ \A a \in w : a.version <= s.currentRev
    /\ \A a, b \in w : a.version = b.version => a = b

\* The index of a node names the newest version of a key, unless Recover met a tombstone.
IndexOk(i) == \A k \in Key : MP!Current(store[i], k) \/ (i \in restarted /\ MP!Buried(store[i], k))

Stores ==
    /\ store = [i \in Node |-> store[i]] /\ written = [i \in Node |-> written[i]]
    /\ \A i \in Node : StoreOk(store[i], written[i]) /\ IndexOk(i)

\* The note that ends an entry tells whose it is.
Last(p) == p[Len(p)]

\* What a node still has to do for an entry: its writes in their order, and notes.
Plan(p) ==
    /\ \A j \in 1 .. Len(p) :
          /\ p[j].type = "write" => /\ p[j].writer[1] = Last(p).client
                                    /\ p[j].writer[2] = Last(p).request
          /\ p[j].type = "note" => p[j].client = Last(p).client
    /\ \A j, k \in 1 .. Len(p) :
          j < k /\ p[j].type = "write" /\ p[k].type = "write" => p[j].writer[3] < p[k].writer[3]

\* The dedup table of a node covers the writes it made, but for those of the request it is
\* at: they are before the ones still to be made.
Covered(w, d) ==
    \A a \in w : a.writer # <<>> => a.writer[2] <= d[a.writer[1]].request

CoveredBut(w, d, p) ==
    \A a \in w : a.writer # <<>> =>
        IF a.writer[1] = Last(p).client
        THEN /\ a.writer[2] <= Last(p).request
             /\ a.writer[2] = Last(p).request =>
                   \A j \in 1 .. Len(p) : p[j].type = "write" => a.writer[3] < p[j].writer[3]
        ELSE a.writer[2] <= d[a.writer[1]].request

Once(i) ==
    /\ doing[i] = <<>> => Covered(written[i], dedup[i])
    /\ doing[i] # <<>> => /\ Plan(doing[i])
                          /\ CoveredBut(written[i], dedup[i], doing[i])
    /\ \A a, b \in written[i] : a.writer = b.writer /\ a.writer # <<>> => a.version = b.version

OnceInv == \A i \in Node \ torn : Once(i)

\* A put or delete of a client that no condition can refuse.
Plain(op) ==
    /\ "client" \in DOMAIN op /\ op.command.type \in {"Put", "Delete"}
    /\ op.command.type = "Put" => op.command.expected = 0

Made(i, c, r) == \E w \in written[i] : w.writer = <<c, r, 1>>

\* The request of the client that the dedup table of a node names was handled by the node.
Handled(i, c, r) ==
    \A op \in sent : Plain(op) /\ op.client = c /\ op.request = r => Made(i, c, r)

\* The same of a request the node is at, unless its write comes next.
Handling(i, c, r) ==
    \A op \in sent :
        Plain(op) /\ op.client = c /\ op.request = r =>
            Made(i, c, r) \/ doing[i][1] = WriteStep(op, 1, op.command)

Noted(i, c) ==
    /\ dedup[i][c].request <= requestID[c]
    /\ Handled(i, c, dedup[i][c].request)

\* A request number is used once, and only the last request of a client is waited for.
Numbered ==
    /\ \A op \in sent : "client" \in DOMAIN op => op.request <= requestID[op.client]
    /\ \A a, b \in sent : /\ "client" \in DOMAIN a /\ "client" \in DOMAIN b
                          /\ a.client = b.client /\ a.request = b.request
                          => a = b
    /\ \A c \in Client : open[c] \subseteq {requestID[c]}

Answering(i) ==
    \/ doing[i] = <<>> /\ \A c \in Client : Noted(i, c)
    \/ LET c == Last(doing[i]).client
           r == Last(doing[i]).request
       IN  /\ doing[i] # <<>> /\ Plan(doing[i])
           /\ r <= requestID[c] /\ Handling(i, c, r)
           /\ \A d \in Client \ {c} : Noted(i, d)

AnswerInv ==
    /\ Numbered
    /\ \A i \in Node \ torn : Answering(i)
    /\ \A a \in acked : /\ a.request <= requestID[a.client]
                        /\ a.node \notin torn => Handled(a.node, a.client, a.request)
-----------------------------------------------------------------------------
(* The control of a node *)

\* The types of the steps.
OpsFacts == \A op \in ClientOp \cup ExpireOp :
    /\ op.command.type \in {"Put", "Delete", "Batch", "Txn"} =>
          /\ op \in ClientOp /\ op.client \in Client /\ op.request \in Nat \ {0}
          /\ op.command \in Command
    /\ op.command.type = "Expire" => op.command.key \in Key
    /\ op.command.type = "Compact" => op.command.revision \in Int
    /\ op.command.type = "KeepAlive" => op.command.key \in Key

LEMMA OpsTyped == OpsFacts
<1> SUFFICES ASSUME NEW op \in ClientOp \cup ExpireOp
             PROVE  /\ op.command.type \in {"Put", "Delete", "Batch", "Txn"} =>
                          /\ op \in ClientOp /\ op.client \in Client /\ op.request \in Nat \ {0}
                          /\ op.command \in Command
                    /\ op.command.type = "Expire" => op.command.key \in Key
                    /\ op.command.type = "Compact" => op.command.revision \in Int
                    /\ op.command.type = "KeepAlive" => op.command.key \in Key
  BY DEF OpsFacts
<1>1. CASE op \in ExpireOp
  BY <1>1 DEF ExpireOp
<1>2. CASE op \in ClientOp
  <2>1. op.client \in Client /\ op.request \in Nat \ {0} /\ op.command \in Command
    BY <1>2 DEF ClientOp
  <2>2. ASSUME NEW c \in Command
        PROVE  /\ c.type # "Expire"
               /\ c.type = "Compact" => c.revision \in Int
               /\ c.type = "KeepAlive" => c.key \in Key
    BY DEF Command, WriteCommand
  <2> QED BY <1>2, <2>1, <2>2
<1> QED BY <1>1, <1>2

\* The parts of the commands that write.
LEMMA CommandsTyped ==
    ASSUME NEW c \in Command
    PROVE  /\ c.type \in {"Put", "Delete"} => c \in WriteCommand
           /\ c.type = "Batch" => c.entries \in Seq(WriteCommand)
           /\ c.type = "Txn" => c.success \in Seq(WriteCommand) /\ c.failed \in Seq(WriteCommand)
BY DEF Command, WriteCommand

LEMMA WriteCommandsTyped ==
    ASSUME NEW e \in WriteCommand
    PROVE  /\ e.key \in Key /\ e.type \in {"Put", "Delete"}
           /\ e.type = "Put" => e.expected \in Int /\ e.lease \in Int /\ e.ttl \in BOOLEAN
BY DEF WriteCommand

\* Whose a list of steps is, and what it ends with.
Belongs(p, op) ==
    /\ p \in Seq(Step) /\ p # <<>> /\ Plan(p)
    /\ Last(p).type = "note" /\ Last(p).client = op.client /\ Last(p).request = op.request

\* A list of writes in their order, with a note of the request at the end.
LEMMA NotedPlan ==
    ASSUME NEW op \in ClientOp, NEW q \in Seq(Step), NEW how \in {"write", "batch", "succeeded", "failed"},
           \A j \in 1 .. Len(q) :
               /\ q[j].type = "write" => q[j].writer[1] = op.client /\ q[j].writer[2] = op.request
               /\ q[j].type = "note" => q[j].client = op.client,
           \A j, k \in 1 .. Len(q) :
               j < k /\ q[j].type = "write" /\ q[k].type = "write" => q[j].writer[3] < q[k].writer[3]
    PROVE  Belongs(q \o <<NoteStep(op, op.request, how)>>, op)
<1> DEFINE note == NoteStep(op, op.request, how)
           p == q \o <<note>>
<1>1. /\ note \in Step /\ note.type = "note" /\ note.client = op.client
      /\ note.request = op.request /\ note.type # "write"
  BY DEF NoteStep, Step, ClientOp
<1> HIDE DEF note
<1>2. /\ p \in Seq(Step) /\ Len(q) \in Nat /\ Len(p) = Len(q) + 1
      /\ \A j \in 1 .. Len(q) : p[j] = q[j]
      /\ p[Len(q) + 1] = note
  <2>1. <<note>> \in Seq(Step) /\ Len(<<note>>) = 1 /\ <<note>>[1] = note
    BY <1>1
  <2> DEFINE e == <<note>>
  <2>2. e \in Seq(Step) /\ Len(e) = 1 /\ e[1] = note
    BY <2>1
  <2> HIDE DEF e
  <2>3. Len(q) \in Nat
    BY LenProperties
  <2>4. q \o e \in Seq(Step) /\ Len(q \o e) = Len(q) + Len(e)
    BY <2>2, ConcatProperties
  <2>5. \A j \in 1 .. Len(q) + Len(e) :
           (q \o e)[j] = IF j <= Len(q) THEN q[j] ELSE e[j - Len(q)]
    BY <2>2, ConcatProperties
  <2>6. \A j \in 1 .. Len(q) : (q \o e)[j] = q[j]
    BY <2>2, <2>3, <2>5
  <2>7. (q \o e)[Len(q) + 1] = note
    <3> DEFINE n == Len(q) + 1
    <3>1. n \in 1 .. Len(q) + Len(e) /\ ~ (n <= Len(q)) /\ n - Len(q) = 1
      BY <2>2, <2>3
    <3> HIDE DEF n
    <3>2. (q \o e)[n] = IF n <= Len(q) THEN q[n] ELSE e[n - Len(q)]
      BY <2>5, <3>1
    <3>3. (q \o e)[n] = e[n - Len(q)]
      BY <3>1, <3>2
    <3> QED BY <2>2, <3>1, <3>3 DEF n
  <2> QED BY <2>2, <2>3, <2>4, <2>6, <2>7 DEF e
<1> HIDE DEF p
<1>3. Last(p) = note /\ p # <<>>
  BY <1>2, EmptySeq DEF Last
<1>4. \A j \in 1 .. Len(p) : j \in 1 .. Len(q) \/ j = Len(q) + 1
  BY <1>2
<1>5. ASSUME NEW j \in 1 .. Len(p)
      PROVE  /\ p[j].type = "write" => p[j].writer[1] = op.client /\ p[j].writer[2] = op.request
             /\ p[j].type = "note" => p[j].client = op.client
  <2>1. CASE j \in 1 .. Len(q)
    BY <1>2, <2>1
  <2>2. CASE j = Len(q) + 1
    BY <1>1, <1>2, <2>2
  <2> QED BY <1>4, <2>1, <2>2
<1>6. ASSUME NEW j \in 1 .. Len(p), NEW k \in 1 .. Len(p), j < k,
             p[j].type = "write", p[k].type = "write"
      PROVE  p[j].writer[3] < p[k].writer[3]
  <2>1. k \in 1 .. Len(q)
    BY <1>1, <1>2, <1>4, <1>6
  <2>2. j \in 1 .. Len(q)
    BY <1>2, <1>6, <2>1
  <2> QED BY <1>2, <1>6, <2>1, <2>2
<1>7. Plan(p)
  BY <1>1, <1>3, <1>5, <1>6 DEF Plan
<1> QED BY <1>1, <1>2, <1>3, <1>7 DEF Belongs, p, note

LEMMA WriteStepTyped ==
    ASSUME NEW op \in ClientOp, NEW n \in Nat, NEW e \in WriteCommand
    PROVE  /\ WriteStep(op, n, e) \in Step /\ WriteStep(op, n, e).type = "write"
           /\ WriteStep(op, n, e).writer[1] = op.client
           /\ WriteStep(op, n, e).writer[2] = op.request
           /\ WriteStep(op, n, e).writer[3] = n /\ WriteStep(op, n, e).put = e
<1> DEFINE w == <<op.client, op.request, n>>
<1>1. w \in Client \X Nat \X Nat /\ w[1] = op.client /\ w[2] = op.request /\ w[3] = n
  BY DEF ClientOp
<1> HIDE DEF w
<1>2. WriteStep(op, n, e) = [type |-> "write", writer |-> w, put |-> e]
  BY DEF WriteStep, w
<1> QED BY <1>1, <1>2 DEF Step

LEMMA NoteStepTyped ==
    ASSUME NEW op \in ClientOp, NEW r \in Nat, NEW how \in {"write", "batch", "succeeded", "failed"}
    PROVE  /\ NoteStep(op, r, how) \in Step /\ NoteStep(op, r, how).type = "note"
           /\ NoteStep(op, r, how).client = op.client
BY DEF NoteStep, Step, ClientOp

LEMMA TwoSteps == ASSUME NEW x \in Step, NEW y \in Step PROVE <<x>> \o <<y>> = <<x, y>>
<1> DEFINE a == <<x>>
           b == <<y>>
           ab == <<x, y>>
<1>1. /\ a \in Seq(Step) /\ Len(a) = 1 /\ a[1] = x
      /\ b \in Seq(Step) /\ Len(b) = 1 /\ b[1] = y
      /\ ab \in Seq(Step) /\ Len(ab) = 2 /\ ab[1] = x /\ ab[2] = y
  OBVIOUS
<1> HIDE DEF a, b, ab
<1>2. /\ a \o b \in Seq(Step) /\ Len(a \o b) = 2
      /\ \A i \in 1 .. Len(a) + Len(b) : (a \o b)[i] = IF i <= Len(a) THEN a[i] ELSE b[i - Len(a)]
  BY <1>1, ConcatProperties
<1>3. 1 \in 1 .. Len(a) + Len(b) /\ 2 \in 1 .. Len(a) + Len(b)
  BY <1>1
<1>4. (a \o b)[1] = a[1] /\ (a \o b)[2] = b[1]
  BY <1>1, <1>2, <1>3
<1>5. \A i \in 1 .. Len(a \o b) : (a \o b)[i] = ab[i]
  <2> TAKE i \in 1 .. Len(a \o b)
  <2>1. i = 1 \/ i = 2
    BY <1>2
  <2> QED BY <1>1, <1>4, <2>1
<1>6. a \o b = ab
  BY <1>1, <1>2, <1>5, SeqEqual
<1> QED BY <1>6 DEF a, b, ab

\* HandlePut, HandleDelete.
LEMMA PutBelongs ==
    ASSUME NEW op \in ClientOp, op.command \in WriteCommand
    PROVE  Belongs(PutSteps(op), op) /\ PutSteps(op)[1] = WriteStep(op, 1, op.command)
<1> DEFINE w == WriteStep(op, 1, op.command)
           n == NoteStep(op, op.request, "write")
           q == <<w>>
<1>1. /\ w \in Step /\ w.type = "write" /\ w.writer[1] = op.client /\ w.writer[2] = op.request
  BY WriteStepTyped
<1> HIDE DEF w
<1>2. q \in Seq(Step) /\ Len(q) = 1 /\ q[1] = w
  BY <1>1
<1>3. PutSteps(op) = q \o <<n>>
  <2>1. PutSteps(op) = <<w, n>>
    BY DEF PutSteps, w
  <2> HIDE DEF n
  <2>2. n \in Step
    BY NoteStepTyped DEF n, ClientOp
  <2>3. <<w>> \o <<n>> = <<w, n>>
    BY <1>1, <2>2, TwoSteps
  <2> QED BY <2>1, <2>3
<1>4. PutSteps(op)[1] = w
  BY DEF PutSteps, w
<1> HIDE DEF q
<1>5. /\ \A j \in 1 .. Len(q) :
            /\ q[j].type = "write" => q[j].writer[1] = op.client /\ q[j].writer[2] = op.request
            /\ q[j].type = "note" => q[j].client = op.client
      /\ \A j, k \in 1 .. Len(q) :
            j < k /\ q[j].type = "write" /\ q[k].type = "write" => q[j].writer[3] < q[k].writer[3]
  BY <1>1, <1>2
<1>6. Belongs(q \o <<n>>, op)
  BY <1>2, <1>5, NotedPlan
<1> QED BY <1>3, <1>4, <1>6 DEF w

\* executeEntries
LEMMA EntriesSteps ==
    ASSUME NEW op \in ClientOp, NEW es \in Seq(WriteCommand)
    PROVE  LET q == executeEntries(op, es)
           IN  /\ q \in Seq(Step) /\ Len(q) = Len(es)
               /\ \A j \in 1 .. Len(q) :
                     /\ q[j].type = "write" /\ q[j].writer[1] = op.client
                     /\ q[j].writer[2] = op.request /\ q[j].writer[3] = j
<1> DEFINE z == Len(es)
           q == executeEntries(op, es)
<1>1. z \in Nat /\ \A j \in 1 .. z : es[j] \in WriteCommand /\ j \in Nat
  BY LenProperties, ElementOfSeq
<1>2. q = [j \in 1 .. z |-> WriteStep(op, j, es[j])]
  BY DEF executeEntries
<1>3. \A j \in 1 .. z : /\ q[j] \in Step /\ q[j].type = "write" /\ q[j].writer[1] = op.client
                        /\ q[j].writer[2] = op.request /\ q[j].writer[3] = j
  BY <1>1, <1>2, WriteStepTyped
<1> HIDE DEF z, q
<1>4. q \in [1 .. z -> Step]
  BY <1>2, <1>3
<1>5. q \in Seq(Step) /\ Len(q) = z
  BY <1>1, <1>4, SeqDef, LenProperties
<1> QED BY <1>3, <1>5 DEF q, z

\* HandleTxn
LEMMA TxnBelongs ==
    ASSUME NEW s, NEW op \in ClientOp,
           op.command.success \in Seq(WriteCommand), op.command.failed \in Seq(WriteCommand)
    PROVE  Belongs(TxnSteps(s, op), op)
<1>1. ASSUME NEW es \in Seq(WriteCommand), NEW how \in {"succeeded", "failed"}
      PROVE  Belongs(executeEntries(op, es) \o <<NoteStep(op, op.request, how)>>, op)
  <2> DEFINE q == executeEntries(op, es)
  <2>1. /\ q \in Seq(Step) /\ Len(q) = Len(es)
        /\ \A j \in 1 .. Len(q) :
              /\ q[j].type = "write" /\ q[j].writer[1] = op.client
              /\ q[j].writer[2] = op.request /\ q[j].writer[3] = j
    BY EntriesSteps
  <2> HIDE DEF q
  <2>2. /\ \A j \in 1 .. Len(q) :
              /\ q[j].type = "write" => q[j].writer[1] = op.client /\ q[j].writer[2] = op.request
              /\ q[j].type = "note" => q[j].client = op.client
        /\ \A j, k \in 1 .. Len(q) :
              j < k /\ q[j].type = "write" /\ q[k].type = "write" => q[j].writer[3] < q[k].writer[3]
    BY <2>1
  <2>3. Belongs(q \o <<NoteStep(op, op.request, how)>>, op)
    BY <2>1, <2>2, NotedPlan
  <2> QED BY <2>3 DEF q
<1>2. CASE CompareAll(s, op.command.compares)
  <2>1. TxnSteps(s, op) = executeEntries(op, op.command.success) \o <<NoteStep(op, op.request, "succeeded")>>
    BY <1>2 DEF TxnSteps
  <2> QED BY <1>1, <2>1
<1>3. CASE ~CompareAll(s, op.command.compares)
  <2>1. TxnSteps(s, op) = executeEntries(op, op.command.failed) \o <<NoteStep(op, op.request, "failed")>>
    BY <1>3 DEF TxnSteps
  <2> QED BY <1>1, <2>1
<1> QED BY <1>2, <1>3

\* HandleBatch
LEMMA BatchBelongs ==
    ASSUME NEW op \in ClientOp, op.command.entries \in Seq(WriteCommand)
    PROVE  Belongs(BatchSteps(op), op)
<1> DEFINE es == op.command.entries
           z == Len(es)
           q == [n \in 1 .. 2 * z |->
                    IF n % 2 = 1
                    THEN WriteStep(op, (n + 1) \div 2, es[(n + 1) \div 2])
                    ELSE NoteStep(op, op.request + (n \div 2), "write")]
<1>1. z \in Nat /\ \A j \in 1 .. z : es[j] \in WriteCommand
  BY LenProperties, ElementOfSeq
<1>2. BatchSteps(op) = q \o <<NoteStep(op, op.request, "batch")>>
  BY DEF BatchSteps
<1>3. op.request \in Nat
  BY DEF ClientOp
<1> HIDE DEF es, z
<1>4. \A n \in 1 .. 2 * z : /\ n \in Nat /\ n % 2 = 1 => (n + 1) \div 2 \in 1 .. z
                            /\ n \div 2 \in Nat
  BY <1>1
<1>5. ASSUME NEW n \in 1 .. 2 * z, n % 2 = 1
      PROVE  /\ q[n] \in Step /\ q[n].type = "write" /\ q[n].writer[1] = op.client
             /\ q[n].writer[2] = op.request /\ q[n].writer[3] = (n + 1) \div 2
  <2> DEFINE k == (n + 1) \div 2
  <2>1. k \in 1 .. z /\ k \in Nat /\ es[k] \in WriteCommand
    BY <1>1, <1>4, <1>5
  <2>2. q[n] = WriteStep(op, k, es[k])
    BY <1>5
  <2> HIDE DEF k, q
  <2>3. /\ q[n] \in Step /\ q[n].type = "write" /\ q[n].writer[1] = op.client
        /\ q[n].writer[2] = op.request /\ q[n].writer[3] = k
    BY <2>1, <2>2, WriteStepTyped
  <2> QED BY <2>3 DEF k
<1>6. ASSUME NEW n \in 1 .. 2 * z, n % 2 # 1
      PROVE  q[n] \in Step /\ q[n].type = "note" /\ q[n].client = op.client
  <2> DEFINE r == op.request + (n \div 2)
  <2>1. r \in Nat
    BY <1>3, <1>4
  <2>2. q[n] = NoteStep(op, r, "write")
    BY <1>6
  <2> HIDE DEF r, q
  <2> QED BY <2>1, <2>2, NoteStepTyped
<1>7. q \in [1 .. 2 * z -> Step]
  <2>1. \A n \in 1 .. 2 * z : q[n] \in Step
    BY <1>5, <1>6
  <2>2. q = [n \in 1 .. 2 * z |-> q[n]]
    OBVIOUS
  <2> HIDE DEF q
  <2> QED BY <2>1, <2>2
<1> HIDE DEF q
<1>8. q \in Seq(Step) /\ Len(q) = 2 * z
  <2>1. 2 * z \in Nat
    BY <1>1
  <2> DEFINE m == 2 * z
  <2> HIDE DEF m
  <2>2. q \in [1 .. m -> Step] /\ m \in Nat
    BY <1>7, <2>1 DEF m
  <2>3. q \in Seq(Step) /\ Len(q) = m
    BY <2>2, SeqDef, LenProperties
  <2> QED BY <2>3 DEF m
<1>9. \A j \in 1 .. Len(q) :
         /\ q[j].type = "write" => q[j].writer[1] = op.client /\ q[j].writer[2] = op.request
         /\ q[j].type = "note" => q[j].client = op.client
  BY <1>5, <1>6, <1>8
<1>10. \A j, k \in 1 .. Len(q) :
          j < k /\ q[j].type = "write" /\ q[k].type = "write" => q[j].writer[3] < q[k].writer[3]
  <2> SUFFICES ASSUME NEW j \in 1 .. 2 * z, NEW k \in 1 .. 2 * z, j < k,
                      q[j].type = "write", q[k].type = "write"
               PROVE  q[j].writer[3] < q[k].writer[3]
    BY <1>8
  <2>1. j % 2 = 1 /\ k % 2 = 1
    BY <1>6
  <2>2. (j + 1) \div 2 < (k + 1) \div 2
    BY <1>1, <2>1
  <2> QED BY <1>5, <2>1, <2>2
<1>11. Belongs(q \o <<NoteStep(op, op.request, "batch")>>, op)
  BY <1>8, <1>9, <1>10, NotedPlan
<1> QED BY <1>2, <1>11 DEF q, es, z

\* What a node has to do for a command it has not seen.
LEMMA StepsBelong ==
    ASSUME NEW s, NEW op \in ClientOp \cup ExpireOp,
           op.command.type \in {"Put", "Delete", "Batch", "Txn"}
    PROVE  /\ Belongs(Steps(s, op), op)
           /\ op.command.type \in {"Put", "Delete"} => Steps(s, op)[1] = WriteStep(op, 1, op.command)
<1>1. op \in ClientOp /\ op.command \in Command
  BY OpsTyped DEF OpsFacts
<1>2. CASE op.command.type \in {"Put", "Delete"}
  <2>1. Steps(s, op) = PutSteps(op)
    BY <1>2 DEF Steps
  <2> QED BY <1>1, <1>2, <2>1, CommandsTyped, PutBelongs
<1>3. CASE op.command.type = "Batch"
  <2>1. Steps(s, op) = BatchSteps(op)
    BY <1>3 DEF Steps
  <2>2. op.command.entries \in Seq(WriteCommand)
    BY <1>1, <1>3, CommandsTyped
  <2> QED BY <1>1, <1>3, <2>1, <2>2, BatchBelongs
<1>4. CASE op.command.type = "Txn"
  <2>1. Steps(s, op) = TxnSteps(s, op)
    BY <1>4 DEF Steps
  <2>2. op.command.success \in Seq(WriteCommand) /\ op.command.failed \in Seq(WriteCommand)
    BY <1>1, <1>4, CommandsTyped
  <2> QED BY <1>1, <1>4, <2>1, <2>2, TxnBelongs
<1> QED BY <1>2, <1>3, <1>4

\* What is left of a list of steps after the first.
LEMMA TailFacts ==
    ASSUME NEW p \in Seq(Step), p # <<>>, Last(p).type = "note"
    PROVE  /\ Head(p) = p[1] /\ Head(p) \in Step /\ Tail(p) \in Seq(Step)
           /\ Len(p) \in Nat \ {0} /\ Len(Tail(p)) = Len(p) - 1
           /\ \A j \in 1 .. Len(Tail(p)) : j + 1 \in 1 .. Len(p) /\ Tail(p)[j] = p[j + 1]
           /\ Tail(p) = <<>> <=> Len(p) = 1
           /\ Tail(p) # <<>> => Last(Tail(p)) = Last(p)
           /\ Tail(p) = <<>> => Head(p) = Last(p)
           /\ Head(p).type = "write" => Tail(p) # <<>>
           /\ Plan(p) => Tail(p) = <<>> \/ Plan(Tail(p))
<1> DEFINE t == Tail(p)
<1>1. /\ Head(p) \in Step /\ t \in Seq(Step) /\ Len(t) = Len(p) - 1
      /\ \A j \in 1 .. Len(t) : t[j] = p[j + 1]
  BY HeadTailProperties
<1>2. Len(p) \in Nat \ {0} /\ Head(p) = p[1]
  BY EmptySeq
<1>3. t = <<>> <=> Len(p) = 1
  BY <1>1, <1>2, EmptySeq
<1> HIDE DEF t
<1>4. \A j \in 1 .. Len(t) : j + 1 \in 1 .. Len(p)
  BY <1>1, <1>2
<1>5. ASSUME t # <<>> PROVE Last(t) = Last(p)
  <2>1. Len(t) \in 1 .. Len(t) /\ Len(t) + 1 = Len(p)
    BY <1>1, <1>2, <1>3, <1>5
  <2>2. t[Len(t)] = p[Len(t) + 1]
    BY <1>1, <2>1
  <2> QED BY <2>1, <2>2 DEF Last
<1>6. ASSUME t = <<>> PROVE Head(p) = Last(p)
  BY <1>2, <1>3, <1>6 DEF Last
<1>7. ASSUME Plan(p), t # <<>> PROVE Plan(t)
  <2>1. ASSUME NEW j \in 1 .. Len(t), NEW k \in 1 .. Len(t), j < k,
               t[j].type = "write", t[k].type = "write"
        PROVE  t[j].writer[3] < t[k].writer[3]
    <3>1. j + 1 \in 1 .. Len(p) /\ k + 1 \in 1 .. Len(p) /\ j + 1 < k + 1
          /\ t[j] = p[j + 1] /\ t[k] = p[k + 1]
      BY <1>1, <1>4, <2>1
    <3> QED BY <1>7, <2>1, <3>1 DEF Plan
  <2>2. ASSUME NEW j \in 1 .. Len(t)
        PROVE  /\ t[j].type = "write" => /\ t[j].writer[1] = Last(t).client
                                         /\ t[j].writer[2] = Last(t).request
               /\ t[j].type = "note" => t[j].client = Last(t).client
    <3>1. j + 1 \in 1 .. Len(p) /\ t[j] = p[j + 1] /\ Last(t) = Last(p)
      BY <1>1, <1>4, <1>5, <1>7
    <3> QED BY <1>7, <3>1 DEF Plan
  <2> QED BY <2>1, <2>2 DEF Plan
<1>8. Head(p).type = "write" => t # <<>>
  BY <1>6
<1> QED BY <1>1, <1>2, <1>3, <1>4, <1>5, <1>6, <1>7, <1>8 DEF t

\* The entry a node takes next was sent.
LEMMA NextEntry ==
    ASSUME Control, NEW i \in Node, lastApplied[i] < Len(log)
    PROVE  /\ lastApplied[i] \in Nat /\ lastApplied[i] + 1 <= Len(log)
           /\ log[lastApplied[i] + 1] \in sent
           /\ log[lastApplied[i] + 1] \in ClientOp \cup ExpireOp
<1>1. log \in Seq(sent) /\ lastApplied[i] \in Nat /\ sent \subseteq ClientOp \cup ExpireOp
  BY DEF Control
<1>2. Len(log) \in Nat
  BY <1>1, LenProperties
<1>3. lastApplied[i] + 1 \in 1 .. Len(log)
  BY <1>1, <1>2
<1>4. log[lastApplied[i] + 1] \in sent
  BY <1>1, <1>3, ElementOfSeq
<1> QED BY <1>1, <1>2, <1>4

\* The list of steps of a node.
LEMMA DoingFacts ==
    ASSUME Control, NEW i \in Node
    PROVE  /\ doing[i] \in Seq(Step)
           /\ doing[i] # <<>> => Last(doing[i]).type = "note"
BY DEF Control, Last

LEMMA EmptySteps == <<>> \in Seq(Step)
BY EmptySeq

\* An action that changes the list of steps of one node, and how far the node is in the log.
LEMMA OneNodeControl ==
    ASSUME Control, NEW i \in Node, NEW p \in Seq(Step), p # <<>> => Last(p).type = "note",
           doing' = [doing EXCEPT ![i] = p],
           NEW n \in Nat, n <= Len(log), lastApplied' = [lastApplied EXCEPT ![i] = n],
           restarts' \in Nat, torn' \subseteq restarted', restarted' \subseteq Node,
           UNCHANGED <<log, sent, requestID, open>>
    PROVE  Control'
<1>1. doing' \in [Node -> Seq(Step)] /\ doing'[i] = p /\ \A j \in Node \ {i} : doing'[j] = doing[j]
  BY DEF Control
<1>2. lastApplied' \in [Node -> Nat] /\ \A j \in Node : lastApplied'[j] <= Len(log)
  BY DEF Control
<1>3. \A j \in Node : doing'[j] # <<>> => Last(doing'[j]).type = "note"
  BY <1>1 DEF Control, Last
<1> QED BY <1>1, <1>2, <1>3 DEF Control, Last

LEMMA ControlStep == Control /\ Leases /\ [Next]_vars => Control'
<1> SUFFICES ASSUME Control, Leases, [Next]_vars PROVE Control'
  OBVIOUS
<1>1. ASSUME UNCHANGED <<log, clientVars, lastApplied, doing, restarts, torn, restarted>>
      PROVE  Control'
  BY <1>1 DEF Control, clientVars
<1>2. ASSUME NEW c \in Client, NEW command \in Commands, Request(c, command)
      PROVE  Control'
  <2> DEFINE op == [client |-> c, request |-> requestID[c] + 1, command |-> command]
  <2>1. /\ requestID' = [requestID EXCEPT ![c] = @ + 1]
        /\ sent' = sent \cup {op}
        /\ UNCHANGED <<log, lastApplied, doing, restarts, torn, restarted>>
    BY <1>2 DEF Request, nodeVars, history
  <2>2. PICK waiting \in SUBSET open[c] : open' = [open EXCEPT ![c] = waiting \cup {requestID[c] + 1}]
    BY <1>2 DEF Request
  <2>3. requestID[c] \in Nat /\ requestID[c] + 1 \in Nat \ {0} /\ open[c] \in SUBSET Nat
    BY DEF Control
  <2>4. command \in Command
    BY KvAssumption
  <2>5. op \in ClientOp
    BY <2>3, <2>4 DEF ClientOp
  <2> HIDE DEF op
  <2>6. log \in Seq(sent')
    BY <2>1, SeqMonotonic DEF Control
  <2>7. requestID' \in [Client -> Nat] /\ open' \in [Client -> SUBSET Nat]
    BY <2>1, <2>2, <2>3 DEF Control
  <2> QED BY <2>1, <2>5, <2>6, <2>7 DEF Control
<1>3. ASSUME NEW op \in sent, Commit(op) PROVE Control'
  <2>1. log' = Append(log, op) /\ UNCHANGED <<sent, requestID, open, lastApplied, doing, restarts, torn, restarted>>
    BY <1>3 DEF Commit, clientVars, nodeVars, history
  <2>2. log' \in Seq(sent) /\ Len(log') = Len(log) + 1 /\ Len(log) \in Nat
    BY <2>1, AppendProperties, LenProperties DEF Control
  <2>3. \A i \in Node : lastApplied[i] <= Len(log')
    BY <2>2 DEF Control
  <2> QED BY <2>1, <2>2, <2>3 DEF Control
<1>4. ASSUME NEW i \in Node, ProposeExpire(i) PROVE Control'
  <2>1. PICK k \in L!ExpiredKeys(lm[i]) :
            sent' = sent \cup {[command |-> [type |-> "Expire", key |-> k]]}
    BY <1>4 DEF ProposeExpire
  <2>2. k \in Key
    <3>1. lm[i] \in LeaseManager
      BY DEF Leases
    <3>2. PICK l \in lm[i].leases : k \in l.keys
      BY DEF L!ExpiredKeys
    <3> QED BY <3>1, <3>2 DEF LeaseManager
  <2>3. [command |-> [type |-> "Expire", key |-> k]] \in ExpireOp
    BY <2>2 DEF ExpireOp
  <2>4. UNCHANGED <<log, requestID, open, lastApplied, doing, restarts, torn, restarted>>
    BY <1>4 DEF ProposeExpire, nodeVars, history
  <2>5. log \in Seq(sent')
    BY <2>1, SeqMonotonic DEF Control
  <2> QED BY <2>1, <2>3, <2>4, <2>5 DEF Control
<1>5. ASSUME NEW i \in Node, Begin(i) PROVE Control'
  <2> DEFINE op == log[lastApplied[i] + 1]
  <2>1. /\ doing[i] = <<>> /\ lastApplied[i] < Len(log)
        /\ lastApplied' = [lastApplied EXCEPT ![i] = @ + 1]
        /\ UNCHANGED <<log, sent, requestID, open, restarts, torn, restarted>>
    BY <1>5 DEF Begin, clientVars
  <2>2. op \in ClientOp \cup ExpireOp /\ lastApplied[i] + 1 <= Len(log) /\ lastApplied[i] \in Nat
    BY <2>1, NextEntry
  <2>3. CASE UNCHANGED doing
    <3>1. doing' = [doing EXCEPT ![i] = <<>>]
      BY <2>1, <2>3 DEF Control
    <3> QED BY <2>1, <2>2, <3>1, EmptySteps, OneNodeControl DEF Control
  <2>4. CASE /\ op.command.type \in {"Put", "Delete", "Batch", "Txn"}
             /\ doing' = [doing EXCEPT ![i] = Steps(store[i], op)]
    <3> DEFINE p == Steps(store[i], op)
    <3>1. Belongs(p, op)
      BY <2>2, <2>4, StepsBelong
    <3> HIDE DEF p
    <3>2. doing' = [doing EXCEPT ![i] = p]
      BY <2>4 DEF p
    <3>3. p \in Seq(Step) /\ Last(p).type = "note"
      BY <3>1 DEF Belongs
    <3>4. /\ lastApplied[i] + 1 \in Nat
          /\ lastApplied' = [lastApplied EXCEPT ![i] = lastApplied[i] + 1]
          /\ restarts' \in Nat /\ torn' \subseteq restarted' /\ restarted' \subseteq Node
      BY <2>1, <2>2 DEF Control
    <3> QED BY <2>1, <2>2, <3>2, <3>3, <3>4, OneNodeControl
  <2> QED BY <1>5, <2>3, <2>4 DEF Begin
<1>6. ASSUME NEW i \in Node, doing[i] # <<>>, doing' = [doing EXCEPT ![i] = Tail(@)],
             UNCHANGED <<log, sent, requestID, open, lastApplied, restarts, torn, restarted>>
      PROVE  Control'
  <2> DEFINE p == doing[i]
  <2>1. p \in Seq(Step) /\ p # <<>> /\ Last(p).type = "note"
    BY <1>6, DoingFacts
  <2>2. Tail(p) \in Seq(Step) /\ Tail(p) # <<>> => Last(Tail(p)).type = "note"
    <3> HIDE DEF p
    <3> QED BY <2>1, TailFacts
  <2>3. /\ doing' = [doing EXCEPT ![i] = Tail(p)]
        /\ lastApplied' = [lastApplied EXCEPT ![i] = lastApplied[i]]
        /\ lastApplied[i] \in Nat /\ lastApplied[i] <= Len(log)
    BY <1>6 DEF Control
  <2> HIDE DEF p
  <2> QED BY <1>6, <2>2, <2>3, OneNodeControl DEF Control
<1>7. ASSUME NEW i \in Node, Write(i) PROVE Control'
  BY <1>6, <1>7 DEF Write, clientVars
<1>8. ASSUME NEW i \in Node, Note(i) PROVE Control'
  BY <1>6, <1>8 DEF Note, clientVars
<1>9. ASSUME NEW i \in Node, BackgroundCompact(i) PROVE Control'
  BY <1>1, <1>9 DEF BackgroundCompact, history
<1>10. ASSUME NEW i \in Node, Elapse(i) PROVE Control'
  BY <1>1, <1>10 DEF Elapse, history
<1>11. ASSUME NEW i \in Node, Restart(i) PROVE Control'
  <2>1. /\ doing' = [doing EXCEPT ![i] = <<>>] /\ lastApplied' = [lastApplied EXCEPT ![i] = 0]
        /\ restarts' = restarts + 1 /\ restarted' = restarted \cup {i}
        /\ torn' \subseteq torn \cup {i}
        /\ UNCHANGED <<log, sent, requestID, open>>
    BY <1>11 DEF Restart, clientVars
  <2>2. restarts' \in Nat /\ torn' \subseteq restarted' /\ restarted' \subseteq Node
    BY <2>1 DEF Control
  <2>3. 0 <= Len(log) /\ 0 \in Nat
    BY LenProperties DEF Control
  <2> QED BY <2>1, <2>2, <2>3, EmptySteps, OneNodeControl
<1>12. CASE UNCHANGED vars
  BY <1>1, <1>12 DEF vars, nodeVars, history
<1> QED
  BY <1>2, <1>3, <1>4, <1>5, <1>7, <1>8, <1>9, <1>10, <1>11, <1>12 DEF Next

\* The operations of the lease manager keep its types.
LEMMA LeaseTypes ==
    ASSUME NEW x \in LeaseManager
    PROVE  /\ L!Granted(x) \in LeaseManager
           /\ \A id : L!Removed(x, id) \in LeaseManager /\ L!Elapsed(x, id) \in LeaseManager
           /\ \A key : L!KeptAlive(x, key) \in LeaseManager
           /\ \A key \in Key : \A id : L!Attached(x, key, id) \in LeaseManager
<1> DEFINE Lse == [id : Nat \ {0}, keys : SUBSET Key, due : BOOLEAN]
<1>1. /\ x.leases \in SUBSET Lse /\ x.keyToLease \in [Key -> Nat] /\ x.nextLeaseID \in Nat \ {0}
  BY DEF LeaseManager
<1>2. \A ls \in SUBSET Lse, f \in [Key -> Nat], n \in Nat \ {0} :
         [x EXCEPT !.leases = ls, !.keyToLease = f, !.nextLeaseID = n] \in LeaseManager
  BY DEF LeaseManager
<1>3. \A ls \in SUBSET Lse : [x EXCEPT !.leases = ls] \in LeaseManager
  BY DEF LeaseManager
<1>4. \A ls \in SUBSET Lse, f \in [Key -> Nat] :
         [x EXCEPT !.leases = ls, !.keyToLease = f] \in LeaseManager
  BY DEF LeaseManager
<1>5. L!Granted(x) \in LeaseManager
  <2> DEFINE new == [id |-> x.nextLeaseID, keys |-> {}, due |-> FALSE]
             ls == x.leases \cup {new}
  <2>1. new \in Lse
    BY <1>1
  <2> HIDE DEF new
  <2>2. ls \in SUBSET Lse
    BY <1>1, <2>1
  <2>3. L!Granted(x) = [x EXCEPT !.leases = ls, !.nextLeaseID = x.nextLeaseID + 1]
    BY DEF L!Granted, new
  <2>4. x.nextLeaseID + 1 \in Nat \ {0}
    BY <1>1
  <2> HIDE DEF ls
  <2> QED BY <2>2, <2>3, <2>4 DEF LeaseManager
<1>6. ASSUME NEW id PROVE L!Removed(x, id) \in LeaseManager
  <2> DEFINE gone == {l \in x.leases : l.id = id}
             f == [k \in Key |-> IF \E l \in gone : k \in L!Unbound(l) THEN 0 ELSE x.keyToLease[k]]
             ls == x.leases \ gone
  <2>1. f \in [Key -> Nat] /\ ls \in SUBSET Lse
    BY <1>1
  <2>2. L!Removed(x, id) = [x EXCEPT !.leases = ls, !.keyToLease = f]
    BY DEF L!Removed
  <2> HIDE DEF f, ls, Lse
  <2> QED BY <1>4, <2>1, <2>2
<1>7. ASSUME NEW id, NEW due \in BOOLEAN
      PROVE  [x EXCEPT !.leases = {IF l.id = id THEN [l EXCEPT !.due = due] ELSE l : l \in @}]
                \in LeaseManager
  <2> DEFINE ls == {IF l.id = id THEN [l EXCEPT !.due = due] ELSE l : l \in x.leases}
  <2>1. \A l \in Lse : [l EXCEPT !.due = due] \in Lse
    OBVIOUS
  <2> HIDE DEF Lse
  <2>2. ls \in SUBSET Lse
    BY <1>1, <2>1
  <2> HIDE DEF ls
  <2>3. [x EXCEPT !.leases = ls] \in LeaseManager
    BY <1>3, <2>2
  <2> QED BY <2>3 DEF ls
<1>8. ASSUME NEW id PROVE L!Elapsed(x, id) \in LeaseManager
  BY <1>7 DEF L!Elapsed
<1>9. ASSUME NEW key PROVE L!KeptAlive(x, key) \in LeaseManager
  BY <1>7 DEF L!KeptAlive
<1>10. ASSUME NEW key \in Key, NEW id PROVE L!Attached(x, key, id) \in LeaseManager
  <2>1. CASE ~ \E l \in x.leases : l.id = id
    BY <2>1 DEF L!Attached
  <2>2. CASE \E l \in x.leases : l.id = id
    <3> DEFINE ls == {IF l.id = id THEN [l EXCEPT !.keys = @ \cup {key}] ELSE l : l \in x.leases}
               f == [x.keyToLease EXCEPT ![key] = id]
    <3>1. id \in Nat
      BY <1>1, <2>2
    <3>2. f \in [Key -> Nat]
      BY <1>1, <3>1
    <3>3. \A l \in Lse : [l EXCEPT !.keys = @ \cup {key}] \in Lse
      <4> TAKE l \in Lse
      <4>1. l.keys \cup {key} \in SUBSET Key
        OBVIOUS
      <4> DEFINE ks == l.keys \cup {key}
      <4> HIDE DEF ks
      <4>2. [l EXCEPT !.keys = ks] \in Lse
        BY <4>1 DEF ks
      <4> QED BY <4>2 DEF ks
    <3> HIDE DEF Lse
    <3>4. ls \in SUBSET Lse
      BY <1>1, <3>3
    <3>5. L!Attached(x, key, id) = [x EXCEPT !.leases = ls, !.keyToLease = f]
      BY <2>2 DEF L!Attached
    <3> HIDE DEF ls, f
    <3> QED BY <1>4, <3>2, <3>4, <3>5
  <2> QED BY <2>1, <2>2
<1> QED BY <1>5, <1>6, <1>8, <1>9, <1>10

LEMMA NewLeasesTyped == L!NewLeaseManager \in LeaseManager
BY DEF L!NewLeaseManager, LeaseManager

LEMMA LeasesStep == Control /\ Leases /\ [Next]_vars => Leases'
<1> SUFFICES ASSUME Control, Leases, [Next]_vars PROVE Leases'
  OBVIOUS
<1>0. ASSUME NEW i \in Node, NEW x \in LeaseManager, lm' = [lm EXCEPT ![i] = x] PROVE Leases'
  BY <1>0 DEF Leases
<1>1. CASE UNCHANGED lm
  BY <1>1 DEF Leases
<1>2. \A i \in Node : lm[i] \in LeaseManager
  BY DEF Leases
<1>3. ASSUME NEW i \in Node, Begin(i) PROVE Leases'
  <2> DEFINE op == log[lastApplied[i] + 1]
  <2>1. UNCHANGED lm \/ ApplyUnchecked(i, op.command)
    BY <1>3 DEF Begin
  <2>2. ASSUME NEW cmd, ApplyUnchecked(i, cmd) PROVE Leases'
    <3> DEFINE x == lm[i]
    <3>1. \/ UNCHANGED lm
          \/ lm' = [lm EXCEPT ![i] = L!Granted(x)]
          \/ lm' = [lm EXCEPT ![i] = L!KeptAlive(x, cmd.key)]
          \/ lm' = [lm EXCEPT ![i] = L!Removed(x, x.keyToLease[cmd.key])]
      BY <2>2 DEF ApplyUnchecked, HandleGrant, HandleKeepAlive, expireByKey, HandleCompact
    <3>2. x \in LeaseManager
      BY <1>2
    <3> HIDE DEF x
    <3> QED BY <1>0, <1>1, <3>1, <3>2, LeaseTypes
  <2> QED BY <1>1, <2>1, <2>2
<1>4. ASSUME NEW i \in Node, Write(i) PROVE Leases'
  <2> DEFINE p == doing[i]
             e == Head(p).put
             x == lm[i]
             fresh == x.nextLeaseID
  <2>1. /\ p # <<>> /\ Head(p).type = "write"
        /\ \/ e.type = "Put" /\ putInternal(i, e, Head(p).writer)
           \/ UNCHANGED lm
    BY <1>4 DEF Write, deleteInternal
  <2>2. p \in Seq(Step) /\ Last(p).type = "note"
    BY <2>1, DoingFacts
  <2>3. ASSUME putInternal(i, e, Head(p).writer)
        PROVE  \/ UNCHANGED lm
               \/ lm' = [lm EXCEPT ![i] = L!Attached(x, e.key, e.lease)]
               \/ lm' = [lm EXCEPT ![i] = L!Attached(L!Granted(x), e.key, fresh)]
    BY <2>3 DEF putInternal, Leases
  <2>4. Head(p) \in Step
    <3> HIDE DEF p
    <3> QED BY <2>1, <2>2, TailFacts
  <2>5. e.key \in Key
    BY <2>1, <2>4, WriteCommandsTyped DEF Step
  <2>6. x \in LeaseManager
    BY <1>2
  <2> HIDE DEF x, e, fresh, p
  <2>7. L!Attached(x, e.key, e.lease) \in LeaseManager
    BY <2>5, <2>6, LeaseTypes
  <2>8. L!Granted(x) \in LeaseManager
    BY <2>6, LeaseTypes
  <2>9. L!Attached(L!Granted(x), e.key, fresh) \in LeaseManager
    <3> DEFINE y == L!Granted(x)
    <3>1. y \in LeaseManager
      BY <2>8
    <3> HIDE DEF y
    <3>2. L!Attached(y, e.key, fresh) \in LeaseManager
      BY <2>5, <3>1, LeaseTypes
    <3> QED BY <3>2 DEF y
  <2> QED BY <1>0, <1>1, <2>1, <2>3, <2>7, <2>9
<1>5. ASSUME NEW i \in Node, Elapse(i) PROVE Leases'
  <2>1. PICK l \in lm[i].leases : lm' = [lm EXCEPT ![i] = L!Elapsed(@, l.id)]
    BY <1>5 DEF Elapse
  <2>2. L!Elapsed(lm[i], l.id) \in LeaseManager
    BY <1>2, LeaseTypes
  <2> QED BY <1>0, <2>1, <2>2
<1>6. ASSUME NEW i \in Node, Restart(i) PROVE Leases'
  BY <1>0, <1>6, NewLeasesTyped DEF Restart
<1>7. UNCHANGED lm \/ \E i \in Node : Begin(i) \/ Write(i) \/ Elapse(i) \/ Restart(i)
  BY DEF Next, Request, Commit, ProposeExpire, Note, BackgroundCompact, vars, nodeVars
<1> QED BY <1>1, <1>3, <1>4, <1>5, <1>6, <1>7

-----------------------------------------------------------------------------
(* The stores *)

\* The operators of the store are those that the lemmas about it speak of.
LEMMA SameStore ==
    /\ \A S : M!Cardinality(S) = MP!Cardinality(S)
    /\ \A q : M!Elements(q) = MP!Elements(q)
    /\ \A q, T : M!Kept(q, T) = MP!Kept(q, T)
    /\ \A x, key, version : M!Get(x, key, version) = MP!Get(x, key, version)
    /\ \A x, keys : M!PrefixScan(x, keys) = MP!PrefixScan(x, keys)
    /\ \A x, key, writer, deleted :
          M!Written(x, key, writer, deleted) = MP!Written(x, key, writer, deleted)
    /\ M!NewStore = MP!NewStore
<1>1. \A S : M!Cardinality(S) = MP!Cardinality(S)
  BY DEF M!Cardinality, MP!Cardinality
<1>2. \A q : M!Elements(q) = MP!Elements(q)
  BY DEF M!Elements, MP!Elements
<1>3. \A q, T : M!Kept(q, T) = MP!Kept(q, T)
  BY DEF M!Kept, MP!Kept
<1>4. \A q, v : M!FindLE(q, v) = MP!FindLE(q, v)
  BY DEF M!FindLE, MP!FindLE
<1>5. \A x, key, version : M!Get(x, key, version) = MP!Get(x, key, version)
  BY <1>4 DEF M!Get, MP!Get
<1>6. \A x, keys : M!PrefixScan(x, keys) = MP!PrefixScan(x, keys)
  BY DEF M!PrefixScan, MP!PrefixScan
<1>7. \A x, key, writer, deleted :
         M!Written(x, key, writer, deleted) = MP!Written(x, key, writer, deleted)
  BY DEF M!Written, MP!Written, M!Stored, MP!Stored
<1>8. M!NewStore = MP!NewStore
  BY DEF M!NewStore, MP!NewStore
<1> QED BY <1>1, <1>2, <1>3, <1>5, <1>6, <1>7, <1>8

LEMMA SameRecovered == ASSUME NEW D PROVE M!Recovered(D) = MP!Recovered(D)
<1>1. \A S : M!Ascending(S) = MP!Ascending(S)
  BY DEF M!Ascending, MP!Ascending, M!Cardinality, MP!Cardinality
<1>2. M!Newest(D) = MP!Newest(D)
  BY DEF M!Newest, MP!Newest
<1>3. \A k : M!LatestLive(D, k) = MP!LatestLive(D, k)
  BY DEF M!LatestLive, MP!LatestLive, M!Newest, MP!Newest
<1> QED BY <1>1, <1>2, <1>3 DEF M!Recovered, MP!Recovered, M!RecoveredRev, MP!RecoveredRev

\* How many revisions of a list are below c from its start is at most its length.
LEMMA PrefixCounts ==
    ASSUME NEW q, Len(q) \in Nat, NEW P, P \in SUBSET (1 .. Len(q))
    PROVE  M!Cardinality(P) \in 0 .. Len(q)
<1> DEFINE z == Len(q)
           U == 1 .. z
<1>1. IsFiniteSet(U) /\ Cardinality(U) = z
  BY FS_Interval
<1> HIDE DEF U
<1>2. IsFiniteSet(P) /\ Cardinality(P) <= z
  <2>1. P \in SUBSET U
    BY DEF U
  <2> QED BY <1>1, <2>1, FS_Subset
<1>3. Cardinality(P) \in Nat
  BY <1>2, FS_CardinalityType
<1>4. M!Cardinality(P) = Cardinality(P)
  BY DEF M!Cardinality, Cardinality
<1> QED BY <1>2, <1>3, <1>4

\* Compact is a compaction of the keys that its list of revisions names.
LEMMA CompactedIs ==
    ASSUME NEW x, Len(x.revisions) \in Nat, NEW c
    PROVE  \E keys : \E index \in 0 .. Len(x.revisions) :
               MP!Compacts(x, M!Compacted(x, c), c, keys, index)
<1>1. \A k, v : M!Superseded(x, k, v, c) = MP!Superseded(x, k, v, c)
  BY SameStore DEF M!Superseded, MP!Superseded
<1> DEFINE t == M!Compacted(x, c)
           P == {n \in 1 .. Len(x.revisions) : \A h \in 1 .. n : x.revisions[h].revision <= c}
           index == M!Cardinality(P)
           keys == {x.revisions[n].key : n \in 1 .. index}
<1>2. index \in 0 .. Len(x.revisions)
  <2>1. P \in SUBSET (1 .. Len(x.revisions))
    OBVIOUS
  <2> HIDE DEF P
  <2> QED BY <2>1, PrefixCounts
<1>3. t = [x EXCEPT
              !.history    = [k \in Key |-> M!Kept(@[k],
                  {v \in M!Elements(@[k]) : ~(k \in keys /\ M!Superseded(x, k, v, c))})],
              !.disk       = {d \in @ : ~(d.key \in keys /\ M!Superseded(x, d.key, d.version, c))},
              !.revisions  = SubSeq(@, index + 1, Len(@)),
              !.compactrev = c]
  BY DEF M!Compacted
<1> HIDE DEF t, keys, index
<1>4. \A k : {v \in M!Elements(x.history[k]) : ~(k \in keys /\ M!Superseded(x, k, v, c))}
           = {v \in MP!Elements(x.history[k]) : ~(k \in keys /\ MP!Superseded(x, k, v, c))}
  BY <1>1, SameStore
<1>5. [k \in Key |-> M!Kept(x.history[k],
          {v \in M!Elements(x.history[k]) : ~(k \in keys /\ M!Superseded(x, k, v, c))})]
    = [k \in Key |-> MP!Kept(x.history[k],
          {v \in MP!Elements(x.history[k]) : ~(k \in keys /\ MP!Superseded(x, k, v, c))})]
  BY <1>4, SameStore
<1>6. {d \in x.disk : ~(d.key \in keys /\ M!Superseded(x, d.key, d.version, c))}
    = {d \in x.disk : ~(d.key \in keys /\ MP!Superseded(x, d.key, d.version, c))}
  BY <1>1
<1>7. MP!Compacts(x, t, c, keys, index)
  BY <1>3, <1>5, <1>6, Zenon DEF MP!Compacts
<1> QED BY <1>2, <1>7 DEF t

Writers == {<<>>} \cup (Client \X Nat \X Nat)

\* A write to the store of a node, a compaction, a restart.
Wrote(i, key, writer, deleted) ==
    /\ store'[i] = M!Written(store[i], key, writer, deleted)
    /\ written'[i] = written[i] \cup (store'[i].disk \ store[i].disk)
Compacts(i, c) == store'[i] = M!Compacted(store[i], c) /\ written'[i] = written[i]
Recovers(i) ==
    /\ store'[i] = M!Recovered(store[i].disk) /\ written'[i] = written[i]
    /\ i \in restarted' /\ restarts' = restarts + 1

\* What a step does to the store of a node.
StoreStep(i) ==
    \/ store'[i] = store[i] /\ written'[i] = written[i]
    \/ \E key \in Key, writer \in Writers, deleted \in BOOLEAN : Wrote(i, key, writer, deleted)
    \/ \E c \in Int : Compacts(i, c)
    \/ Recovers(i)

StoreSteps ==
    /\ store' = [j \in Node |-> store'[j]] /\ written' = [j \in Node |-> written'[j]]
    /\ \A j \in Node : StoreStep(j)
    /\ restarted \subseteq restarted'

\* An action that changes the store of one node.
LEMMA OneNodeStore ==
    ASSUME Stores, NEW i \in Node, NEW x, store' = [store EXCEPT ![i] = x],
           NEW w, written' = [written EXCEPT ![i] = w],
           restarted \subseteq restarted', StoreStep(i)
    PROVE  StoreSteps
<1>1. /\ store' = [j \in Node |-> store'[j]] /\ written' = [j \in Node |-> written'[j]]
      /\ \A j \in Node \ {i} : store'[j] = store[j] /\ written'[j] = written[j]
  BY DEF Stores
<1>2. \A j \in Node : StoreStep(j)
  BY <1>1 DEF StoreStep
<1> QED BY <1>1, <1>2 DEF StoreSteps

LEMMA MakeWriteIs ==
    ASSUME Stores, NEW i \in Node, NEW key \in Key, NEW writer \in Writers,
           NEW deleted \in BOOLEAN, MakeWrite(i, key, writer, deleted), UNCHANGED restarted
    PROVE  StoreSteps /\ Wrote(i, key, writer, deleted)
<1> DEFINE x == M!Written(store[i], key, writer, deleted)
<1>1. store' = [store EXCEPT ![i] = x] /\ store'[i] = x
  BY DEF MakeWrite, Stores
<1> DEFINE w == written[i] \cup (store'[i].disk \ store[i].disk)
<1>2. written' = [written EXCEPT ![i] = w] /\ written'[i] = w
  BY DEF MakeWrite, Stores
<1>3. Wrote(i, key, writer, deleted)
  BY <1>1, <1>2 DEF Wrote
<1>4. StoreStep(i)
  BY <1>3 DEF StoreStep
<1> HIDE DEF x, w
<1> QED BY <1>1, <1>2, <1>3, <1>4, OneNodeStore

LEMMA CompactIs ==
    ASSUME Stores, NEW i \in Node, NEW c \in Int,
           store' = [store EXCEPT ![i] = M!Compacted(@, c)], UNCHANGED <<written, restarted>>
    PROVE  StoreSteps /\ Compacts(i, c)
<1> DEFINE x == M!Compacted(store[i], c)
<1>1. store' = [store EXCEPT ![i] = x] /\ store'[i] = x
  BY DEF Stores
<1>2. written' = [written EXCEPT ![i] = written[i]] /\ written'[i] = written[i]
  BY DEF Stores
<1>3. Compacts(i, c)
  BY <1>1, <1>2 DEF Compacts
<1>4. StoreStep(i)
  BY <1>3 DEF StoreStep
<1> HIDE DEF x
<1> QED BY <1>1, <1>2, <1>3, <1>4, OneNodeStore

\* What a write of a step does: the writer is the one the step names.
LEMMA WriteIs ==
    ASSUME Control, Stores, NEW i \in Node, Write(i)
    PROVE  LET step == Head(doing[i])
           IN  /\ step \in Step /\ step.type = "write" /\ step.put \in WriteCommand
               /\ step.writer \in Client \X Nat \X Nat
               /\ StoreSteps
               /\ \/ \E deleted \in BOOLEAN : Wrote(i, step.put.key, step.writer, deleted)
                  \/ /\ step.put.type = "Put" /\ M!CasConflict(store[i], step.put.key, step.put.expected)
                     /\ UNCHANGED <<store, written>>
               /\ UNCHANGED <<restarts, torn, restarted>>
<1> DEFINE p == doing[i]
           step == Head(p)
<1>1. p # <<>> /\ step.type = "write" /\ UNCHANGED <<restarts, torn, restarted>>
  BY DEF Write
<1>2. p \in Seq(Step) /\ Last(p).type = "note"
  BY <1>1, DoingFacts
<1>3. step \in Step
  <2> HIDE DEF p
  <2> QED BY <1>1, <1>2, TailFacts
<1>4. step.put \in WriteCommand /\ step.writer \in Client \X Nat \X Nat
  BY <1>1, <1>3 DEF Step
<1>5. step.put.key \in Key /\ step.writer \in Writers
  BY <1>4, WriteCommandsTyped DEF Writers
<1>6. \/ step.put.type = "Put" /\ putInternal(i, step.put, step.writer)
      \/ step.put.type = "Delete" /\ deleteInternal(i, step.put, step.writer)
  BY DEF Write
<1> HIDE DEF step
<1>7. CASE step.put.type = "Put" /\ putInternal(i, step.put, step.writer)
  <2>1. CASE /\ M!CasConflict(store[i], step.put.key, step.put.expected)
             /\ UNCHANGED <<store, written>>
    <3>1. store' = [store EXCEPT ![i] = store[i]] /\ written' = [written EXCEPT ![i] = written[i]]
          /\ StoreStep(i)
      BY <2>1 DEF Stores, StoreStep
    <3>2. StoreSteps
      BY <1>1, <3>1, OneNodeStore
    <3> QED BY <1>1, <1>3, <1>4, <1>7, <2>1, <3>2 DEF step
  <2>2. CASE MakeWrite(i, step.put.key, step.writer, FALSE)
    <3>1. StoreSteps /\ Wrote(i, step.put.key, step.writer, FALSE)
      BY <1>1, <1>5, <2>2, MakeWriteIs
    <3> QED BY <1>1, <1>3, <1>4, <3>1 DEF step
  <2> QED BY <1>7, <2>1, <2>2 DEF putInternal
<1>8. CASE deleteInternal(i, step.put, step.writer)
  <2>1. StoreSteps /\ Wrote(i, step.put.key, step.writer, TRUE)
    BY <1>1, <1>5, <1>8, MakeWriteIs DEF deleteInternal
  <2> QED BY <1>1, <1>3, <1>4, <2>1 DEF step
<1> QED BY <1>6, <1>7, <1>8

LEMMA EveryStoreStep == Control /\ Stores /\ [Next]_vars => StoreSteps
<1> SUFFICES ASSUME Control, Stores, [Next]_vars PROVE StoreSteps
  OBVIOUS
<1>1. ASSUME UNCHANGED <<store, written>>, restarted \subseteq restarted' PROVE StoreSteps
  BY <1>1 DEF Stores, StoreSteps, StoreStep
<1>2. ASSUME NEW i \in Node, Begin(i) PROVE StoreSteps
  <2> DEFINE op == log[lastApplied[i] + 1]
             cmd == op.command
  <2>1. lastApplied[i] < Len(log) /\ UNCHANGED restarted
    BY <1>2 DEF Begin
  <2>2. op \in ClientOp \cup ExpireOp
    BY <2>1, NextEntry
  <2>3. /\ cmd.type = "Expire" => cmd.key \in Key
        /\ cmd.type = "Compact" => cmd.revision \in Int
    BY <2>2, OpsTyped DEF OpsFacts
  <2>4. UNCHANGED <<store, written>> \/ ApplyUnchecked(i, cmd)
    BY <1>2 DEF Begin
  <2> HIDE DEF cmd
  <2>5. CASE UNCHANGED <<store, written>>
    BY <1>1, <2>1, <2>5
  <2>6. CASE cmd.type = "Expire" /\ MakeWrite(i, cmd.key, <<>>, TRUE)
    BY <2>1, <2>3, <2>6, MakeWriteIs DEF Writers
  <2>7. CASE cmd.type = "Compact" /\ HandleCompact(i, cmd.revision)
    <3>1. store' = [store EXCEPT ![i] = M!Compacted(@, cmd.revision)] /\ UNCHANGED <<written, restarted>>
      BY <2>1, <2>7 DEF HandleCompact
    <3> QED BY <2>3, <2>7, <3>1, CompactIs
  <2> QED BY <2>4, <2>5, <2>6, <2>7 DEF ApplyUnchecked, HandleGrant, HandleKeepAlive, expireByKey
<1>3. ASSUME NEW i \in Node, Write(i) PROVE StoreSteps
  BY <1>3, WriteIs
<1>4. ASSUME NEW i \in Node, BackgroundCompact(i) PROVE StoreSteps
  <2> DEFINE c == store[i].currentRev
  <2>1. c \in Int
    BY DEF Stores, StoreOk, MP!Whole, MP!Indexed
  <2>2. store' = [store EXCEPT ![i] = M!Compacted(@, c)] /\ UNCHANGED <<written, restarted>>
    BY <1>4 DEF BackgroundCompact, history, Stores
  <2> HIDE DEF c
  <2> QED BY <2>1, <2>2, CompactIs
<1>5. ASSUME NEW i \in Node, Restart(i) PROVE StoreSteps
  <2> DEFINE x == M!Recovered(store[i].disk)
  <2>1. store' = [store EXCEPT ![i] = x] /\ store'[i] = x
    BY <1>5 DEF Restart, Stores
  <2>2. /\ written' = [written EXCEPT ![i] = written[i]] /\ written'[i] = written[i]
        /\ i \in restarted' /\ restarts' = restarts + 1 /\ restarted \subseteq restarted'
    BY <1>5 DEF Restart, Stores
  <2>3. StoreStep(i)
    BY <2>1, <2>2 DEF StoreStep, Recovers
  <2> HIDE DEF x
  <2> QED BY <2>1, <2>2, <2>3, OneNodeStore
<1>6. \/ UNCHANGED <<store, written>> /\ restarted \subseteq restarted'
      \/ \E i \in Node : Begin(i) \/ Write(i) \/ BackgroundCompact(i) \/ Restart(i)
  BY DEF Next, Request, Commit, ProposeExpire, Note, Elapse, vars, nodeVars, history
<1> QED BY <1>1, <1>2, <1>3, <1>4, <1>5, <1>6

\* A write to a store that is in order.
LEMMA WroteOk ==
    ASSUME NEW x, NEW w, StoreOk(x, w), NEW key \in Key, NEW writer \in Writers,
           NEW deleted \in BOOLEAN
    PROVE  LET y == M!Written(x, key, writer, deleted)
               u == w \cup (y.disk \ x.disk)
           IN  /\ StoreOk(y, u) /\ y.currentRev = x.currentRev + 1
               /\ \E entry \in Version : entry.writer = writer /\ u = w \cup {entry}
               /\ \A k \in Key : MP!Current(x, k) \/ k = key => MP!Current(y, k)
               /\ \A k \in Key \ {key} : MP!Buried(x, k) => MP!Buried(y, k)
<1> DEFINE y == M!Written(x, key, writer, deleted)
           entry == [key |-> key, version |-> x.currentRev + 1, writer |-> writer,
                     deleted |-> deleted]
           u == w \cup (y.disk \ x.disk)
<1>1. y = MP!Written(x, key, writer, deleted)
  BY SameStore
<1>2. MP!Whole(x) /\ x.currentRev \in Nat
  BY DEF StoreOk, MP!Whole, MP!Indexed
<1>3. /\ MP!Whole(y) /\ y.currentRev = x.currentRev + 1
      /\ y.disk = x.disk \cup {entry}
      /\ \A k \in Key : MP!Current(x, k) \/ k = key => MP!Current(y, k)
      /\ \A k \in Key \ {key} : MP!Buried(x, k) => MP!Buried(y, k)
  BY <1>1, <1>2, MP!WrittenWhole
<1>4. entry \in Version /\ entry.version = x.currentRev + 1 /\ entry.writer = writer
  BY <1>2 DEF Version, Writers
<1> HIDE DEF y, entry
<1>5. \A a \in w : a.version \in Nat /\ a.version <= x.currentRev
  BY DEF StoreOk, Version
<1>6. \A a \in w : a.version # entry.version
  BY <1>2, <1>4, <1>5
<1>7. entry \notin x.disk
  BY <1>6 DEF StoreOk
<1>8. u = w \cup {entry}
  BY <1>3, <1>7
<1> HIDE DEF u
<1>9. y.disk \subseteq u /\ u \subseteq Version
  BY <1>3, <1>4, <1>8 DEF StoreOk
<1>10. \A a \in u : a.version <= y.currentRev
  BY <1>2, <1>3, <1>4, <1>5, <1>8
<1>11. \A a, b \in u : a.version = b.version => a = b
  BY <1>6, <1>8 DEF StoreOk
<1>12. StoreOk(y, u)
  BY <1>3, <1>9, <1>10, <1>11 DEF StoreOk
<1>13. \E e \in Version : e.writer = writer /\ u = w \cup {e}
  BY <1>4, <1>8
<1> QED BY <1>3, <1>12, <1>13 DEF y, u

LEMMA CompactOk ==
    ASSUME NEW x, NEW w, StoreOk(x, w), NEW c \in Int
    PROVE  LET y == M!Compacted(x, c)
           IN  /\ StoreOk(y, w) /\ y.currentRev = x.currentRev /\ y.latest = x.latest
               /\ y.compactrev = c
               /\ \A k \in Key : /\ MP!Current(x, k) => MP!Current(y, k)
                                 /\ MP!Buried(x, k) => MP!Buried(y, k)
                                 /\ \A v \in Nat : (IF v = 0 THEN MP!Current(x, k) ELSE v >= c) =>
                                       M!Get(y, k, v) = M!Get(x, k, v)
<1> DEFINE y == M!Compacted(x, c)
<1>1. MP!Whole(x)
  BY DEF StoreOk
<1>2. Len(x.revisions) \in Nat
  BY <1>1, LenProperties DEF MP!Whole
<1>3. PICK keys : \E index \in 0 .. Len(x.revisions) : MP!Compacts(x, y, c, keys, index)
  BY <1>2, CompactedIs
<1>4. PICK index \in 0 .. Len(x.revisions) : MP!Compacts(x, y, c, keys, index)
  BY <1>3
<1> HIDE DEF y
<1>5. /\ MP!Whole(y) /\ y.currentRev = x.currentRev /\ y.disk \subseteq x.disk
      /\ y.latest = x.latest /\ y.compactrev = c
  BY <1>1, <1>4, MP!CompactedWhole
<1>6. \A k \in Key : /\ MP!Current(x, k) => MP!Current(y, k)
                     /\ MP!Buried(x, k) => MP!Buried(y, k)
  BY <1>1, <1>4, MP!CompactedNewest
<1>7. ASSUME NEW k \in Key, NEW v \in Nat, IF v = 0 THEN MP!Current(x, k) ELSE v >= c
      PROVE  M!Get(y, k, v) = M!Get(x, k, v)
  <2>1. MP!Get(y, k, v) = MP!Get(x, k, v)
    BY <1>1, <1>4, <1>7, MP!CompactedReads
  <2> QED BY <2>1, SameStore
<1>8. StoreOk(y, w)
  BY <1>5 DEF StoreOk
<1> QED BY <1>5, <1>6, <1>7, <1>8 DEF y

LEMMA RecoverOk ==
    ASSUME NEW x, NEW w, StoreOk(x, w)
    PROVE  LET y == M!Recovered(x.disk)
           IN  StoreOk(y, w) /\ \A k \in Key : MP!Current(y, k) \/ MP!Buried(y, k)
<1> DEFINE y == M!Recovered(x.disk)
<1>1. y = MP!Recovered(x.disk)
  BY SameRecovered
<1>2. /\ MP!Whole(y) /\ y.currentRev = x.currentRev /\ y.disk = x.disk
      /\ \A k \in Key : MP!Current(y, k) \/ MP!Buried(y, k)
  BY <1>1, MP!RecoveredWhole DEF StoreOk
<1> HIDE DEF y
<1>3. StoreOk(y, w)
  BY <1>2 DEF StoreOk
<1> QED BY <1>2, <1>3 DEF y

\* A step keeps the store of a node in order.
LEMMA NodeStoreOk ==
    ASSUME NEW i \in Node, StoreOk(store[i], written[i]), IndexOk(i), StoreStep(i),
           restarted \subseteq restarted'
    PROVE  StoreOk(store[i], written[i])' /\ IndexOk(i)'
<1>1. CASE store'[i] = store[i] /\ written'[i] = written[i]
  BY <1>1 DEF IndexOk
<1>2. ASSUME NEW key \in Key, NEW writer \in Writers, NEW deleted \in BOOLEAN,
             Wrote(i, key, writer, deleted)
      PROVE  StoreOk(store[i], written[i])' /\ IndexOk(i)'
  <2> DEFINE x == store[i]
             w == written[i]
             y == M!Written(x, key, writer, deleted)
             u == w \cup (y.disk \ x.disk)
  <2>1. /\ StoreOk(y, u)
        /\ \A k \in Key : MP!Current(x, k) \/ k = key => MP!Current(y, k)
        /\ \A k \in Key \ {key} : MP!Buried(x, k) => MP!Buried(y, k)
    BY WroteOk
  <2>2. store'[i] = y /\ written'[i] = u
    BY <1>2 DEF Wrote
  <2> HIDE DEF y, u
  <2> QED BY <2>1, <2>2 DEF IndexOk
<1>3. ASSUME NEW c \in Int, Compacts(i, c)
      PROVE  StoreOk(store[i], written[i])' /\ IndexOk(i)'
  <2> DEFINE x == store[i]
             y == M!Compacted(x, c)
  <2>1. /\ StoreOk(y, written[i])
        /\ \A k \in Key : /\ MP!Current(x, k) => MP!Current(y, k)
                          /\ MP!Buried(x, k) => MP!Buried(y, k)
    BY CompactOk
  <2>2. store'[i] = y /\ written'[i] = written[i]
    BY <1>3 DEF Compacts
  <2> HIDE DEF y
  <2> QED BY <2>1, <2>2 DEF IndexOk
<1>4. CASE Recovers(i)
  <2> DEFINE y == M!Recovered(store[i].disk)
  <2>1. StoreOk(y, written[i]) /\ \A k \in Key : MP!Current(y, k) \/ MP!Buried(y, k)
    BY RecoverOk
  <2>2. store'[i] = y /\ written'[i] = written[i] /\ i \in restarted'
    BY <1>4 DEF Recovers
  <2> HIDE DEF y
  <2> QED BY <2>1, <2>2 DEF IndexOk
<1> QED BY <1>1, <1>2, <1>3, <1>4 DEF StoreStep

LEMMA StoresStep == Control /\ Stores /\ [Next]_vars => Stores'
<1> SUFFICES ASSUME Control, Stores, [Next]_vars PROVE Stores'
  OBVIOUS
<1>1. StoreSteps
  BY EveryStoreStep
<1>2. \A i \in Node : StoreOk(store[i], written[i])' /\ IndexOk(i)'
  BY <1>1, NodeStoreOk DEF StoreSteps, Stores
<1> QED BY <1>1, <1>2 DEF StoreSteps, Stores

LEMMA InitStores ==
    ASSUME Init PROVE Stores
<1> DEFINE x == M!NewStore
<1>1. x = MP!NewStore
  BY SameStore
<1>2. /\ MP!Whole(x) /\ x.currentRev = 0 /\ x.disk = {}
      /\ x.latest = [k \in Key |-> 0]
  BY <1>1, MP!NewWhole DEF MP!NewStore
<1>3. \A i \in Node : store[i] = x /\ written[i] = {}
  BY DEF Init
<1> HIDE DEF x
<1>4. StoreOk(x, {})
  BY <1>2 DEF StoreOk
<1>5. \A k \in Key : MP!Current(x, k)
  BY <1>2 DEF MP!Current, MP!Of, MP!IsNewest
<1>6. \A i \in Node : StoreOk(store[i], written[i]) /\ IndexOk(i)
  BY <1>3, <1>4, <1>5 DEF IndexOk
<1> QED BY <1>6 DEF Stores, Init

LEMMA InitControl == Init => Control /\ Leases
<1> SUFFICES ASSUME Init PROVE Control /\ Leases
  OBVIOUS
<1>1. <<>> \in Seq(sent) /\ <<>> \in Seq(Step) /\ Len(<<>>) = 0
  BY EmptySeq
<1>2. Leases
  BY NewLeasesTyped DEF Init, Leases
<1> QED BY <1>1, <1>2 DEF Init, Control

\* What every reachable state of the stores satisfies.
StoreInv == Control /\ Leases /\ Stores

LEMMA StoreInvariant == Spec => []StoreInv
<1>1. Init => StoreInv
  BY InitStores, InitControl DEF StoreInv
<1>2. StoreInv /\ [Next]_vars => StoreInv'
  BY ControlStep, LeasesStep, StoresStep DEF StoreInv
<1> QED BY <1>1, <1>2, PTL DEF Spec

\* Recover and PutWithCAS: a revision is never given to two writes, over any number of
\* restarts and compactions, so a CAS on a version never hits another value.
THEOREM RevisionsNeverReused == Spec => []RevisionsUnique
<1>1. StoreInv => RevisionsUnique
  BY DEF StoreInv, Stores, StoreOk, RevisionsUnique
<1> QED BY <1>1, StoreInvariant, PTL

\* Put, Compact and Recover: the index of every key lists exactly the versions on the disk,
\* in ascending order.
THEOREM IndexIsTheDisk == Spec => []IndexMatchesDisk
<1>1. ASSUME StoreInv PROVE IndexMatchesDisk
  <2> SUFFICES ASSUME NEW i \in Node, NEW k \in Key
               PROVE  LET h == store[i].history[k]
                      IN  /\ M!Elements(h) = {d.version : d \in {e \in store[i].disk : e.key = k}}
                          /\ \A m, n \in 1 .. Len(h) : m < n => h[m] < h[n]
    BY DEF IndexMatchesDisk
  <2> DEFINE s == store[i]
             h == s.history[k]
             V == {d.version : d \in {e \in s.disk : e.key = k}}
  <2>1. MP!Whole(s) /\ MP!Indexed(s)
    BY <1>1 DEF StoreInv, Stores, StoreOk, MP!Whole
  <2> HIDE DEF s
  <2>2. \A m, n \in 1 .. Len(h) : m < n => h[m] < h[n]
    BY <2>1 DEF MP!Indexed, MP!Ascends
  <2>3. \A v \in MP!Elements(h) : v \in V
    <3> TAKE v \in MP!Elements(h)
    <3>1. PICK d \in s.disk : d.key = k /\ d.version = v
      BY <2>1 DEF MP!Whole
    <3> QED BY <3>1
  <2>4. \A v \in V : v \in MP!Elements(h)
    BY <2>1 DEF MP!Indexed
  <2>5. MP!Elements(h) = M!Elements(h)
    BY SameStore
  <2> QED BY <2>2, <2>3, <2>4, <2>5 DEF s
<1> QED BY <1>1, StoreInvariant, PTL

\* Recover, Compact and PrefixScan: the index and the scan of the disk find the same value
\* of a key, but for a key that Recover met a tombstone of.
THEOREM ScansFindLatest == Spec => []ScanFindsLatest
<1>1. ASSUME StoreInv PROVE ScanFindsLatest
  <2> SUFFICES ASSUME NEW i \in Node, NEW k \in Key
               PROVE  LET s == store[i]
                          versions == {d \in s.disk : d.key = k}
                          tombstone == \E d \in versions :
                              d.deleted /\ \A e \in versions : e.version <= d.version
                      IN  (i \in restarted /\ tombstone) \/ M!PrefixScan(s, {k}) = M!Get(s, k, 0)
    BY DEF ScanFindsLatest
  <2>1. MP!Whole(store[i])
    BY <1>1 DEF StoreInv, Stores, StoreOk
  <2>2. CASE MP!Current(store[i], k)
    <3>1. MP!PrefixScan(store[i], {k}) = MP!Get(store[i], k, 0)
      BY <2>1, <2>2, MP!ScanFinds
    <3> QED BY <3>1, SameStore
  <2>3. CASE i \in restarted /\ MP!Buried(store[i], k)
    BY <2>3 DEF MP!Buried, MP!Of
  <2> QED BY <1>1, <2>2, <2>3 DEF StoreInv, Stores, IndexOk
<1> QED BY <1>1, StoreInvariant, PTL

\* Compact: a read at a version not before the compaction, or of the latest version, finds
\* what it found before, whatever the compaction takes.
THEOREM CompactionKeepsReads == Spec => CompactKeepsReads
<1> DEFINE Kept(i, k) ==
             restarts' = restarts /\ store'[i].currentRev = store[i].currentRev =>
                 \A v \in 0 .. store[i].currentRev :
                     (IF v = 0 THEN i \notin restarted ELSE v >= store'[i].compactrev) =>
                         M!Get(store'[i], k, v) = M!Get(store[i], k, v)
<1>1. ASSUME StoreInv, [Next]_vars, NEW i \in Node, NEW k \in Key PROVE Kept(i, k)
  <2>1. StoreOk(store[i], written[i]) /\ StoreStep(i) /\ (i \notin restarted => MP!Current(store[i], k))
    BY <1>1, EveryStoreStep DEF StoreInv, Stores, StoreSteps, IndexOk
  <2>2. store[i].currentRev \in Nat
    BY <2>1 DEF StoreOk, MP!Whole, MP!Indexed
  <2>3. CASE store'[i] = store[i]
    BY <2>3
  <2>4. ASSUME NEW key \in Key, NEW writer \in Writers, NEW deleted \in BOOLEAN,
               Wrote(i, key, writer, deleted)
        PROVE  Kept(i, k)
    <3> DEFINE y == M!Written(store[i], key, writer, deleted)
    <3>1. y.currentRev = store[i].currentRev + 1
      BY <2>1, WroteOk
    <3>2. store'[i] = y
      BY <2>4 DEF Wrote
    <3> HIDE DEF y
    <3> QED BY <2>2, <3>1, <3>2
  <2>5. ASSUME NEW c \in Int, Compacts(i, c) PROVE Kept(i, k)
    <3> DEFINE y == M!Compacted(store[i], c)
    <3>1. /\ y.compactrev = c
          /\ \A v \in Nat : (IF v = 0 THEN MP!Current(store[i], k) ELSE v >= c) =>
                M!Get(y, k, v) = M!Get(store[i], k, v)
      BY <2>1, CompactOk
    <3>2. store'[i] = y
      BY <2>5 DEF Compacts
    <3> HIDE DEF y
    <3>3. \A v \in 0 .. store[i].currentRev : v \in Nat
      BY <2>2
    <3> QED BY <2>1, <3>1, <3>2, <3>3
  <2>6. CASE Recovers(i)
    <3>1. restarts' # restarts
      BY <1>1, <2>6 DEF Recovers, StoreInv, Control
    <3> QED BY <3>1
  <2> QED BY <2>1, <2>3, <2>4, <2>5, <2>6 DEF StoreStep
<1>2. StoreInv /\ [Next]_vars =>
         [\A i \in Node, k \in Key : Kept(i, k)]_vars
  BY <1>1
<1> QED BY <1>2, StoreInvariant, PTL DEF Spec, CompactKeepsReads

-----------------------------------------------------------------------------
(* The types *)

Values ==
    /\ dedup \in [Node -> [Client -> Dedup]] /\ res \in [Node -> Result]
    /\ acked \subseteq [node : Node, client : Client, request : Nat]

LEMMA StoreTyped == ASSUME NEW x, NEW w, StoreOk(x, w) PROVE x \in Store
<1>1. /\ MP!IsStore(x) /\ x.currentRev \in Nat /\ x.latest \in [Key -> Nat]
      /\ x.history \in [Key -> Seq(Nat)] /\ x.revisions \in Seq([key : Key, revision : Nat])
      /\ x.compactrev \in Int /\ x.disk \in SUBSET Version
  BY DEF StoreOk, MP!Whole, MP!Indexed
<1> QED BY <1>1 DEF MP!IsStore, Store

LEMMA ValuesStep == StoreInv /\ Values /\ [Next]_vars => Values'
<1> SUFFICES ASSUME StoreInv, Values, [Next]_vars PROVE Values'
  OBVIOUS
<1>0. Control /\ Stores /\ \A i \in Node : store[i] \in Store
  BY StoreTyped DEF StoreInv, Stores
<1>1. ASSUME NEW i \in Node, NEW c \in Client, NEW r \in Nat
      PROVE  Answer(i, c, r) \subseteq [node : Node, client : Client, request : Nat]
  BY DEF Answer, Values
<1>2. CASE UNCHANGED <<dedup, res, acked>>
  BY <1>2 DEF Values
<1>3. ASSUME NEW i \in Node, Begin(i) PROVE Values'
  <2> DEFINE op == log[lastApplied[i] + 1]
  <2>1. UNCHANGED <<dedup, res>> /\ lastApplied[i] < Len(log)
    BY <1>3 DEF Begin
  <2>2. op \in ClientOp \cup ExpireOp
    BY <1>0, <2>1, NextEntry
  <2>3. \/ UNCHANGED acked
        \/ /\ op.command.type \in {"Put", "Delete", "Batch", "Txn"}
           /\ acked' = Answer(i, op.client, op.request)
    BY <1>3 DEF Begin
  <2> HIDE DEF op
  <2>4. op.command.type \in {"Put", "Delete", "Batch", "Txn"} => op.client \in Client /\ op.request \in Nat
    BY <2>2, OpsTyped DEF OpsFacts
  <2>5. acked' \subseteq [node : Node, client : Client, request : Nat]
    BY <1>1, <2>3, <2>4 DEF Values
  <2> QED BY <2>1, <2>5 DEF Values
<1>4. ASSUME NEW i \in Node, Write(i) PROVE Values'
  <2> DEFINE e == Head(doing[i]).put
  <2>1. UNCHANGED <<dedup, acked>>
    BY <1>4 DEF Write
  <2>3. Stores' /\ Control'
    BY <1>0, StoresStep, ControlStep DEF StoreInv
  <2>4. store'[i] \in Store
    BY <2>3, StoreTyped DEF Stores
  <2>5. Head(doing[i]).type = "write" /\ e \in WriteCommand
    BY <1>0, <1>4, WriteIs
  <2>6. store[i].latest[e.key] \in Nat /\ store'[i].currentRev \in Nat
    BY <1>0, <2>4, <2>5, WriteCommandsTyped DEF Store
  <2>7. \E x : /\ res' = [res EXCEPT ![i] = x]
               /\ \/ x = [ok |-> FALSE, version |-> store[i].latest[e.key]]
                  \/ x = [ok |-> TRUE, version |-> store'[i].currentRev]
    BY <1>4 DEF Write, putInternal, deleteInternal
  <2> HIDE DEF e
  <2>8. PICK x : /\ res' = [res EXCEPT ![i] = x]
                 /\ \/ x = [ok |-> FALSE, version |-> store[i].latest[e.key]]
                    \/ x = [ok |-> TRUE, version |-> store'[i].currentRev]
    BY <2>7
  <2>9. x \in Result
    <3>1. \A v \in Nat : /\ [ok |-> FALSE, version |-> v] \in Result
                        /\ [ok |-> TRUE, version |-> v] \in Result
      BY DEF Result
    <3>2. CASE x = [ok |-> FALSE, version |-> store[i].latest[e.key]]
      BY <2>6, <3>1, <3>2
    <3>3. CASE x = [ok |-> TRUE, version |-> store'[i].currentRev]
      BY <2>6, <3>1, <3>3
    <3> QED BY <2>8, <3>2, <3>3
  <2> QED BY <2>1, <2>8, <2>9 DEF Values
<1>5. ASSUME NEW i \in Node, Note(i) PROVE Values'
  <2> DEFINE p == doing[i]
             step == Head(p)
             rev == store[i].currentRev
             ofTxn == step.how \in {"succeeded", "failed"}
             result == CASE step.how = "write" -> res[i]
                         [] step.how \in {"batch", "succeeded"} -> [ok |-> TRUE, version |-> rev]
                         [] step.how = "failed" -> [ok |-> FALSE, version |-> rev]
  <2>1. /\ p # <<>> /\ step.type = "note" /\ res' = [res EXCEPT ![i] = NoResult]
        /\ dedup' = [dedup EXCEPT ![i][step.client] =
              [request   |-> step.request,
               result    |-> IF ofTxn THEN @.result ELSE result,
               txnResult |-> IF ofTxn THEN result ELSE @.txnResult]]
        /\ \/ acked' = Answer(i, step.client, step.request)
           \/ acked' = acked
    BY <1>5 DEF Note
  <2>2. step \in Step
    <3>1. p \in Seq(Step) /\ Last(p).type = "note"
      BY <1>0, <2>1, DoingFacts
    <3> HIDE DEF p
    <3> QED BY <2>1, <3>1, TailFacts
  <2>3. step.client \in Client /\ step.request \in Nat
        /\ step.how \in {"write", "batch", "succeeded", "failed"}
    BY <2>1, <2>2 DEF Step
  <2>4. rev \in Nat /\ res[i] \in Result
    BY <1>0 DEF Store, Values
  <2> HIDE DEF step, rev
  <2>5. result \in Result
    BY <2>3, <2>4 DEF Result
  <2> HIDE DEF result
  <2> DEFINE old == dedup[i][step.client]
             new == [request   |-> step.request,
                     result    |-> IF ofTxn THEN old.result ELSE result,
                     txnResult |-> IF ofTxn THEN result ELSE old.txnResult]
  <2>6. old \in Dedup
    BY <2>3 DEF Values
  <2>7. new \in Dedup
    BY <2>3, <2>5, <2>6 DEF Dedup
  <2>8. dedup' = [dedup EXCEPT ![i][step.client] = new]
    BY <2>1, <2>3 DEF Values
  <2> HIDE DEF new
  <2>9. dedup' \in [Node -> [Client -> Dedup]]
    BY <2>3, <2>7, <2>8 DEF Values
  <2>10. res' \in [Node -> Result]
    BY <2>1 DEF Values, NoResult, Result
  <2>11. acked' \subseteq [node : Node, client : Client, request : Nat]
    BY <1>1, <2>1, <2>3 DEF Values
  <2> QED BY <2>9, <2>10, <2>11 DEF Values
<1>6. ASSUME NEW i \in Node, Restart(i) PROVE Values'
  BY <1>6 DEF Restart, Values, NoResult, Result
<1>7. \/ UNCHANGED <<dedup, res, acked>>
      \/ \E i \in Node : Begin(i) \/ Write(i) \/ Note(i) \/ Restart(i)
  BY DEF Next, Request, Commit, ProposeExpire, BackgroundCompact, Elapse, vars, nodeVars, history
<1> QED BY <1>2, <1>3, <1>4, <1>5, <1>6, <1>7

KvInv == StoreInv /\ Values

LEMMA KvInvariant == Spec => []KvInv
<1>1. Init => KvInv
  <2> SUFFICES ASSUME Init PROVE Values /\ StoreInv
    BY DEF KvInv
  <2>1. NoResult \in Result /\ NoRequest \in Dedup
    BY DEF NoResult, Result, NoRequest, Dedup
  <2> QED BY <2>1, InitStores, InitControl DEF Init, Values, StoreInv
<1>2. KvInv /\ [Next]_vars => KvInv'
  BY ControlStep, LeasesStep, StoresStep, ValuesStep DEF StoreInv, KvInv
<1> QED BY <1>1, <1>2, PTL DEF Spec

\* The state of the KV layer has its types: a node is inside the log, an entry of several
\* steps ends with a note in the dedup table, and a version on a disk has a key and a writer.
THEOREM KvTypes == Spec => []TypeOK
<1>1. ASSUME KvInv PROVE TypeOK
  <2>1. Control /\ Leases /\ Stores /\ Values
    BY <1>1 DEF KvInv, StoreInv
  <2>2. \A i \in Node : store[i] \in Store /\ written[i] \in SUBSET Version
    BY <2>1, StoreTyped DEF Stores, StoreOk
  <2>3. store \in [Node -> Store] /\ written \in [Node -> SUBSET Version]
    BY <2>1, <2>2 DEF Stores
  <2>4. \A i \in Node : lastApplied[i] \in 0 .. Len(log)
    BY <2>1, LenProperties DEF Control
  <2> QED BY <2>1, <2>3, <2>4 DEF TypeOK, Control, Leases, Values
<1> QED BY <1>1, KvInvariant, PTL

-----------------------------------------------------------------------------
(* Each write of a request is made once *)

\* The parts of a writer.
LEMMA WriterParts ==
    ASSUME NEW a \in Version, a.writer # <<>>
    PROVE  /\ a.writer \in Client \X Nat \X Nat
           /\ a.writer[1] \in Client /\ a.writer[2] \in Nat /\ a.writer[3] \in Nat
<1>1. a.writer \in Client \X Nat \X Nat
  BY DEF Version
<1> QED BY <1>1

LEMMA TripleNotEmpty == ASSUME NEW C, NEW x \in C \X Nat \X Nat PROVE x # <<>>
<1>1. PICK a \in C, b \in Nat, c \in Nat : x = <<a, b, c>>
  OBVIOUS
<1>2. Len(<<a, b, c>>) = 3 /\ Len(<< >>) = 0
  OBVIOUS
<1> QED BY <1>1, <1>2

\* The steps of a list.
LEMMA PlanTyped ==
    ASSUME NEW p \in Seq(Step), NEW j \in 1 .. Len(p)
    PROVE  /\ p[j] \in Step
           /\ p[j].type = "write" => p[j].writer[3] \in Nat /\ p[j].writer \in Client \X Nat \X Nat
<1>1. p[j] \in Step
  BY ElementOfSeq
<1>2. ASSUME p[j].type = "write" PROVE p[j].writer \in Client \X Nat \X Nat
  BY <1>1, <1>2 DEF Step
<1> QED BY <1>1, <1>2

\* The next write: it is none of those that were made, and those to come are others.
LEMMA WriteCovered ==
    ASSUME NEW p \in Seq(Step), p # <<>>, Last(p).type = "note", Plan(p),
           NEW w \in SUBSET Version, NEW d, CoveredBut(w, d, p), Head(p).type = "write",
           NEW entry \in Version, entry.writer = Head(p).writer
    PROVE  /\ Tail(p) # <<>> /\ Plan(Tail(p)) /\ CoveredBut(w \cup {entry}, d, Tail(p))
           /\ CoveredBut(w, d, Tail(p))
           /\ \A a \in w : a.writer # entry.writer
<1> DEFINE t == Tail(p)
<1>1. /\ Head(p) = p[1] /\ t # <<>> /\ Len(p) \in Nat \ {0} /\ Len(t) = Len(p) - 1 /\ Plan(t)
      /\ \A j \in 1 .. Len(t) : j + 1 \in 1 .. Len(p) /\ t[j] = p[j + 1]
      /\ Last(t) = Last(p)
  BY TailFacts
<1>2. 1 \in 1 .. Len(p) /\ p[1].type = "write" /\ entry.writer = p[1].writer
  BY <1>1
<1>3. p[1].writer[1] = Last(p).client /\ p[1].writer[2] = Last(p).request
  BY <1>2 DEF Plan
<1>4. p[1].writer[3] \in Nat
  BY <1>2, PlanTyped
<1> HIDE DEF t
<1>5. \A j \in 1 .. Len(t) : t[j].type = "write" => p[1].writer[3] < t[j].writer[3]
  <2> TAKE j \in 1 .. Len(t)
  <2>1. j + 1 \in 1 .. Len(p) /\ t[j] = p[j + 1] /\ 1 < j + 1
    BY <1>1
  <2> QED BY <1>2, <2>1 DEF Plan
<1>6. ASSUME NEW a \in w, a.writer # <<>>
      PROVE  IF a.writer[1] = Last(t).client
             THEN /\ a.writer[2] <= Last(t).request
                  /\ a.writer[2] = Last(t).request =>
                        \A j \in 1 .. Len(t) : t[j].type = "write" => a.writer[3] < t[j].writer[3]
             ELSE a.writer[2] <= d[a.writer[1]].request
  <2>1. IF a.writer[1] = Last(p).client
        THEN /\ a.writer[2] <= Last(p).request
             /\ a.writer[2] = Last(p).request =>
                   \A j \in 1 .. Len(p) : p[j].type = "write" => a.writer[3] < p[j].writer[3]
        ELSE a.writer[2] <= d[a.writer[1]].request
    BY <1>6 DEF CoveredBut
  <2> QED BY <1>1, <2>1
<1>7. CoveredBut(w, d, t)
  BY <1>6 DEF CoveredBut
<1>8. IF entry.writer[1] = Last(t).client
      THEN /\ entry.writer[2] <= Last(t).request
           /\ entry.writer[2] = Last(t).request =>
                 \A j \in 1 .. Len(t) : t[j].type = "write" => entry.writer[3] < t[j].writer[3]
      ELSE entry.writer[2] <= d[entry.writer[1]].request
  <2>1. entry.writer[1] = Last(t).client /\ entry.writer[2] = Last(t).request
    BY <1>1, <1>2, <1>3
  <2>2. entry.writer[2] \in Nat
    BY <1>2, PlanTyped
  <2> QED BY <1>2, <1>5, <2>1, <2>2
<1>9. CoveredBut(w \cup {entry}, d, t)
  BY <1>6, <1>8 DEF CoveredBut
<1>10. ASSUME NEW a \in w, a.writer = entry.writer PROVE FALSE
  <2>1. p[1].writer \in Client \X Nat \X Nat
    BY <1>2, PlanTyped
  <2>2. a.writer # <<>> /\ a.writer = p[1].writer
    <3>1. p[1].writer # <<>>
      BY <2>1, TripleNotEmpty
    <3> QED BY <1>2, <1>10, <3>1
  <2>3. a.writer[3] < p[1].writer[3]
    BY <1>2, <1>3, <2>2 DEF CoveredBut
  <2> QED BY <1>4, <2>2, <2>3
<1> QED BY <1>1, <1>7, <1>9, <1>10 DEF t

\* A note: the last one covers the request.
LEMMA NoteCovered ==
    ASSUME NEW p \in Seq(Step), p # <<>>, Last(p).type = "note", Plan(p),
           NEW w \in SUBSET Version, NEW d, CoveredBut(w, d, p), Head(p).type = "note",
           NEW e, \A c \in Client \ {Head(p).client} : e[c] = d[c],
           e[Head(p).client].request = Head(p).request
    PROVE  /\ Tail(p) = <<>> => Covered(w, e)
           /\ Tail(p) # <<>> => Plan(Tail(p)) /\ CoveredBut(w, e, Tail(p))
<1> DEFINE t == Tail(p)
<1>1. /\ Head(p) = p[1] /\ Len(p) \in Nat \ {0} /\ Len(t) = Len(p) - 1
      /\ \A j \in 1 .. Len(t) : j + 1 \in 1 .. Len(p) /\ t[j] = p[j + 1]
      /\ t # <<>> => Last(t) = Last(p) /\ Plan(t)
      /\ t = <<>> => Head(p) = Last(p)
  BY TailFacts
<1>2. Head(p).client = Last(p).client
  <2>1. 1 \in 1 .. Len(p)
    BY <1>1
  <2> QED BY <1>1, <2>1 DEF Plan
<1> HIDE DEF t
<1>3. ASSUME NEW a \in w, a.writer # <<>>
      PROVE  IF a.writer[1] = Last(p).client
             THEN /\ a.writer[2] <= Last(p).request
                  /\ a.writer[2] = Last(p).request =>
                        \A j \in 1 .. Len(p) : p[j].type = "write" => a.writer[3] < p[j].writer[3]
             ELSE a.writer[2] <= d[a.writer[1]].request
  BY <1>3 DEF CoveredBut
<1>4. ASSUME t = <<>> PROVE Covered(w, e)
  <2> SUFFICES ASSUME NEW a \in w, a.writer # <<>>
               PROVE  a.writer[2] <= e[a.writer[1]].request
    BY DEF Covered
  <2>1. a.writer[1] \in Client
    BY WriterParts
  <2>2. CASE a.writer[1] = Last(p).client
    BY <1>1, <1>2, <1>3, <1>4, <2>2
  <2>3. CASE a.writer[1] # Last(p).client
    BY <1>2, <1>3, <2>1, <2>3
  <2> QED BY <2>2, <2>3
<1>5. ASSUME t # <<>> PROVE CoveredBut(w, e, t)
  <2> SUFFICES ASSUME NEW a \in w, a.writer # <<>>
               PROVE  IF a.writer[1] = Last(t).client
                      THEN /\ a.writer[2] <= Last(t).request
                           /\ a.writer[2] = Last(t).request =>
                                 \A j \in 1 .. Len(t) : t[j].type = "write" => a.writer[3] < t[j].writer[3]
                      ELSE a.writer[2] <= e[a.writer[1]].request
    BY DEF CoveredBut
  <2>1. a.writer[1] \in Client /\ Last(t) = Last(p)
    BY <1>1, <1>5, WriterParts
  <2>2. CASE a.writer[1] = Last(p).client
    BY <1>1, <1>3, <2>1, <2>2
  <2>3. CASE a.writer[1] # Last(p).client
    BY <1>2, <1>3, <2>1, <2>3
  <2> QED BY <2>2, <2>3
<1> QED BY <1>1, <1>4, <1>5 DEF t

\* What a node has to do for a request that its dedup table does not cover.
LEMMA BeginCovered ==
    ASSUME NEW op \in ClientOp, NEW p, Belongs(p, op), NEW w \in SUBSET Version,
           NEW d \in [Client -> Dedup], Covered(w, d), ~(op.request <= d[op.client].request)
    PROVE  CoveredBut(w, d, p)
<1> SUFFICES ASSUME NEW a \in w, a.writer # <<>>
             PROVE  IF a.writer[1] = Last(p).client
                    THEN /\ a.writer[2] <= Last(p).request
                         /\ a.writer[2] = Last(p).request =>
                               \A j \in 1 .. Len(p) : p[j].type = "write" => a.writer[3] < p[j].writer[3]
                    ELSE a.writer[2] <= d[a.writer[1]].request
  BY DEF CoveredBut
<1>1. a.writer[2] <= d[a.writer[1]].request
  BY DEF Covered
<1>2. Last(p).client = op.client /\ Last(p).request = op.request
  BY DEF Belongs
<1>3. a.writer[2] \in Nat /\ a.writer[1] \in Client /\ op.client \in Client /\ op.request \in Nat
  BY WriterParts DEF ClientOp
<1>4. d[op.client].request \in Nat
  BY <1>3 DEF Dedup
<1> QED BY <1>1, <1>2, <1>3, <1>4

\* A write of a node is one more entry, of that writer.
WroteOne(i, key, writer) == \E deleted \in BOOLEAN : Wrote(i, key, writer, deleted)
AddsOne(i, writer) ==
    \E entry \in Version : entry.writer = writer /\ written'[i] = written[i] \cup {entry}

LEMMA WroteAdds ==
    ASSUME Stores, NEW i \in Node, NEW key \in Key, NEW writer \in Writers,
           WroteOne(i, key, writer)
    PROVE  AddsOne(i, writer)
<1>0. PICK deleted \in BOOLEAN : Wrote(i, key, writer, deleted)
  BY DEF WroteOne
<1> DEFINE x == store[i]
           w == written[i]
           y == M!Written(x, key, writer, deleted)
           u == w \cup (y.disk \ x.disk)
<1>1. StoreOk(x, w)
  BY DEF Stores
<1> HIDE DEF x, w
<1>2. /\ StoreOk(y, u) /\ y.currentRev = x.currentRev + 1
      /\ \E entry \in Version : entry.writer = writer /\ u = w \cup {entry}
  BY <1>1, WroteOk
<1>3. written'[i] = u
  BY <1>0 DEF Wrote, x, w
<1> HIDE DEF u
<1> QED BY <1>2, <1>3 DEF w, AddsOne

\* The dedup table and the writes of a node.
Twice(w) == \E a, b \in w : a.writer = b.writer /\ a.writer # <<>> /\ a.version # b.version

\* A node with nothing left to do may make a write that no request asked for.
LEMMA OnceUnchecked ==
    ASSUME NEW w, NEW d, Covered(w, d), ~Twice(w), NEW entry, entry.writer = <<>>
    PROVE  Covered(w \cup {entry}, d) /\ ~Twice(w \cup {entry})
BY DEF Covered, Twice

LEMMA OnceMore ==
    ASSUME NEW w, ~Twice(w), NEW entry, \A a \in w : a.writer # entry.writer
    PROVE  ~Twice(w \cup {entry})
BY DEF Twice

LEMMA OnceIs ==
    ASSUME NEW i
    PROVE  Once(i) <=> /\ doing[i] = <<>> => Covered(written[i], dedup[i])
                       /\ doing[i] # <<>> => /\ Plan(doing[i])
                                             /\ CoveredBut(written[i], dedup[i], doing[i])
                       /\ ~Twice(written[i])
BY DEF Once, Twice

\* What a write does to the list of steps and the writes of a node.
LEMMA OnceWrite ==
    ASSUME KvInv, NEW i \in Node, Write(i), Once(i)
    PROVE  Once(i)'
<1> DEFINE p == doing[i]
           w == written[i]
           d == dedup[i]
           t == Tail(p)
           step == Head(p)
<1>1. Control /\ Stores /\ doing[i] # <<>> /\ Head(doing[i]).type = "write"
  BY DEF KvInv, StoreInv, Write
<1>2. p \in Seq(Step) /\ p # <<>> /\ Last(p).type = "note" /\ step.type = "write"
  BY <1>1, DoingFacts
<1>3. Plan(p) /\ CoveredBut(w, d, p) /\ ~Twice(w)
  BY <1>1, OnceIs
<1>4. doing'[i] = t /\ dedup'[i] = d
  BY DEF Write, KvInv, StoreInv, Control
<1>5. \/ \E key \in Key, deleted \in BOOLEAN : Wrote(i, key, step.writer, deleted)
      \/ written'[i] = w
  <2>1. step.put \in WriteCommand
    BY <1>1, WriteIs
  <2>2. step.put.key \in Key
    BY <2>1, WriteCommandsTyped
  <2>3. \/ \E deleted \in BOOLEAN : Wrote(i, step.put.key, step.writer, deleted)
        \/ UNCHANGED written
    BY <1>1, WriteIs
  <2> HIDE DEF step
  <2> QED BY <2>2, <2>3
<1>6. step.writer \in Writers /\ w \in SUBSET Version
  BY <1>1, WriteIs DEF Writers, Stores, StoreOk
<1> HIDE DEF p, w, d, t, step
<1>7. CASE written'[i] = w
  <2>1. PICK entry \in Version : entry.writer = step.writer
    <3> DEFINE e == [key |-> CHOOSE k \in Key : TRUE, version |-> 1, writer |-> step.writer,
                     deleted |-> TRUE]
    <3>1. \E k \in Key : TRUE
      BY <1>1, WriteIs, WriteCommandsTyped
    <3>2. e \in Version
      BY <1>6, <3>1 DEF Version, Writers
    <3> QED BY <3>2
  <2>2. t # <<>> /\ Plan(t) /\ CoveredBut(w, d, t)
    BY <1>2, <1>3, <1>6, <2>1, WriteCovered DEF t, step
  <2> QED BY <1>3, <1>4, <1>7, <2>2 DEF Once, Twice
<1>8. ASSUME NEW key \in Key, NEW deleted \in BOOLEAN, Wrote(i, key, step.writer, deleted)
      PROVE  Once(i)'
  <2>1. WroteOne(i, key, step.writer)
    BY <1>8 DEF WroteOne
  <2>2. AddsOne(i, step.writer)
    BY <1>1, <1>6, <2>1, WroteAdds
  <2>3. PICK entry \in Version : entry.writer = step.writer /\ written'[i] = w \cup {entry}
    BY <2>2 DEF AddsOne, w
  <2>4. /\ t # <<>> /\ Plan(t) /\ CoveredBut(w \cup {entry}, d, t)
        /\ \A a \in w : a.writer # entry.writer
    BY <1>2, <1>3, <1>6, <2>3, WriteCovered DEF t, step
  <2>5. ~Twice(w \cup {entry})
    BY <1>3, <2>4, OnceMore
  <2> QED BY <1>4, <2>3, <2>4, <2>5 DEF Once, Twice
<1> QED BY <1>5, <1>7, <1>8

\* What a note does.
LEMMA OnceNote ==
    ASSUME KvInv, NEW i \in Node, Note(i), Once(i)
    PROVE  Once(i)'
<1> DEFINE p == doing[i]
           w == written[i]
           d == dedup[i]
           e == dedup'[i]
           t == Tail(p)
           step == Head(p)
<1>1. Control /\ Stores /\ Values /\ doing[i] # <<>> /\ step.type = "note"
  BY DEF KvInv, StoreInv, Note
<1>2. p \in Seq(Step) /\ p # <<>> /\ Last(p).type = "note"
  BY <1>1, DoingFacts
<1>3. Plan(p) /\ CoveredBut(w, d, p) /\ ~Twice(w)
  BY <1>1, OnceIs
<1>4. doing'[i] = t /\ written'[i] = w
  BY DEF Note, KvInv, StoreInv, Control
<1>5. w \in SUBSET Version
  BY <1>1 DEF Stores, StoreOk
<1>6. \E x : dedup' = [dedup EXCEPT ![i][step.client] = [request |-> step.request,
                                                        result |-> x.result,
                                                        txnResult |-> x.txnResult]]
  <2> DEFINE ofTxn == step.how \in {"succeeded", "failed"}
             rev == store[i].currentRev
             result == CASE step.how = "write" -> res[i]
                         [] step.how \in {"batch", "succeeded"} -> [ok |-> TRUE, version |-> rev]
                         [] step.how = "failed" -> [ok |-> FALSE, version |-> rev]
  <2>1. dedup' = [dedup EXCEPT ![i][step.client] =
              [request   |-> step.request,
               result    |-> IF ofTxn THEN @.result ELSE result,
               txnResult |-> IF ofTxn THEN result ELSE @.txnResult]]
    BY DEF Note
  <2> DEFINE old == dedup[i][step.client]
             x == [result |-> IF ofTxn THEN old.result ELSE result,
                   txnResult |-> IF ofTxn THEN result ELSE old.txnResult]
  <2> HIDE DEF result, ofTxn
  <2>2. dedup' = [dedup EXCEPT ![i][step.client] =
              [request |-> step.request, result |-> x.result, txnResult |-> x.txnResult]]
    BY <2>1
  <2> HIDE DEF x
  <2> QED BY <2>2
<1>7. PICK x : dedup' = [dedup EXCEPT ![i][step.client] = [request |-> step.request,
                                                          result |-> x.result,
                                                          txnResult |-> x.txnResult]]
  BY <1>6
<1>8. step.client \in Client
  <2>1. step \in Step
    <3> HIDE DEF p
    <3> QED BY <1>2, TailFacts
  <2> QED BY <1>1, <2>1 DEF Step
<1> HIDE DEF step
<1>9. (\A c \in Client \ {step.client} : e[c] = d[c]) /\ e[step.client].request = step.request
  BY <1>1, <1>7, <1>8 DEF Values
<1> HIDE DEF p, w, d, e, t
<1>10. /\ t = <<>> => Covered(w, e)
       /\ t # <<>> => Plan(t) /\ CoveredBut(w, e, t)
  BY <1>1, <1>2, <1>3, <1>5, <1>9, NoteCovered DEF t, step
<1> QED BY <1>3, <1>4, <1>10 DEF Once, Twice, e

\* The next entry: a duplicate, an entry no handler checks, or the steps of one that the
\* dedup table does not cover.
LEMMA OnceBegin ==
    ASSUME KvInv, NEW i \in Node, Begin(i), Once(i)
    PROVE  Once(i)'
<1> DEFINE op == log[lastApplied[i] + 1]
           w == written[i]
           d == dedup[i]
           p == Steps(store[i], op)
<1>1. /\ Control /\ Stores /\ Values /\ doing[i] = <<>> /\ lastApplied[i] < Len(log)
      /\ dedup'[i] = d
  BY DEF KvInv, StoreInv, Begin
<1>2. Covered(w, d) /\ ~Twice(w)
  BY <1>1, OnceIs
<1>3. w \in SUBSET Version /\ d \in [Client -> Dedup]
  BY <1>1 DEF Stores, StoreOk, Values
<1>4. op \in ClientOp \cup ExpireOp
  BY <1>1, NextEntry
<1>5. CASE UNCHANGED <<doing, written>>
  BY <1>1, <1>2, <1>5 DEF Once, Twice
<1>6. CASE /\ op.command.type \in {"Put", "Delete", "Batch", "Txn"}
           /\ ~IsDuplicate(d[op.client], op)
           /\ doing' = [doing EXCEPT ![i] = p] /\ UNCHANGED written
  <2>1. Belongs(p, op)
    BY <1>4, <1>6, StepsBelong
  <2>2. op \in ClientOp
    BY <1>4, <1>6, OpsTyped DEF OpsFacts
  <2>3. ~(op.request <= d[op.client].request)
    BY <1>6 DEF IsDuplicate
  <2>4. doing'[i] = p /\ written'[i] = w
    BY <1>1, <1>6 DEF Control
  <2> HIDE DEF op, w, d, p
  <2>5. CoveredBut(w, d, p)
    BY <1>2, <1>3, <2>1, <2>2, <2>3, BeginCovered
  <2> QED BY <1>1, <1>2, <2>1, <2>4, <2>5 DEF Once, Twice, Belongs
<1>7. CASE op.command.type = "Expire" /\ expireByKey(i, op.command.key) /\ UNCHANGED doing
  <2>1. op.command.key \in Key
    BY <1>4, <1>7, OpsTyped DEF OpsFacts
  <2>2. MakeWrite(i, op.command.key, <<>>, TRUE) /\ UNCHANGED restarted
    BY <1>7 DEF expireByKey, Begin
  <2>3. <<>> \in Writers
    BY DEF Writers
  <2> HIDE DEF op, w, d
  <2>4. Wrote(i, op.command.key, <<>>, TRUE)
    BY <1>1, <2>1, <2>2, <2>3, MakeWriteIs
  <2>5. WroteOne(i, op.command.key, <<>>)
    BY <2>4 DEF WroteOne
  <2>6. AddsOne(i, <<>>)
    BY <1>1, <2>1, <2>3, <2>5, WroteAdds
  <2>7. PICK entry \in Version : entry.writer = <<>> /\ written'[i] = w \cup {entry}
    BY <2>6 DEF AddsOne, w
  <2>8. Covered(w \cup {entry}, d) /\ ~Twice(w \cup {entry})
    BY <1>2, <2>7, OnceUnchecked
  <2>9. doing'[i] = <<>>
    BY <1>1, <1>7
  <2> QED BY <1>1, <2>7, <2>8, <2>9 DEF Once, Twice
<1>8. \/ UNCHANGED <<doing, written>>
      \/ /\ op.command.type \in {"Put", "Delete", "Batch", "Txn"}
         /\ ~IsDuplicate(d[op.client], op)
         /\ doing' = [doing EXCEPT ![i] = p] /\ UNCHANGED written
      \/ op.command.type = "Expire" /\ expireByKey(i, op.command.key) /\ UNCHANGED doing
  BY DEF Begin, ApplyUnchecked, HandleGrant, HandleKeepAlive, HandleCompact
<1> QED BY <1>5, <1>6, <1>7, <1>8

\* What a step leaves alone of a node that neither begins, writes nor notes.
Untouched(i) == doing'[i] = doing[i] /\ dedup'[i] = dedup[i] /\ written'[i] = written[i]

\* A step of a node that ends no process inside an entry.
LEMMA NodeSteps ==
    ASSUME KvInv, [Next]_vars, NEW i \in Node, i \notin torn'
    PROVE  Untouched(i) \/ Begin(i) \/ Write(i) \/ Note(i)
<1>1. Control /\ Stores /\ Values
  BY DEF KvInv, StoreInv
<1>2. CASE UNCHANGED <<doing, dedup, written>>
  BY <1>2 DEF Untouched
<1>3. ASSUME NEW j \in Node, j # i, Begin(j) \/ Write(j) \/ Note(j) \/ Restart(j)
      PROVE  Untouched(i)
  <2>1. doing'[i] = doing[i]
    BY <1>1, <1>3 DEF Begin, Write, Note, Restart, Control
  <2>2. dedup'[i] = dedup[i]
    BY <1>1, <1>3 DEF Begin, Write, Note, Restart, Values
  <2>3. written'[i] = written[i]
    <3>1. \/ UNCHANGED written
          \/ \E x : written' = [written EXCEPT ![j] = x]
      BY <1>3 DEF Begin, ApplyUnchecked, expireByKey, HandleGrant, HandleKeepAlive,
                  HandleCompact, Write, putInternal, deleteInternal, MakeWrite, Note, Restart
    <3> QED BY <1>1, <1>3, <3>1 DEF Stores
  <2> QED BY <2>1, <2>2, <2>3 DEF Untouched
<1>4. CASE Restart(i)
  <2>1. doing[i] = <<>>
    BY <1>4 DEF Restart
  <2>2. doing'[i] = <<>> /\ UNCHANGED <<dedup, written>>
    BY <1>1, <1>4 DEF Restart, Control
  <2> QED BY <2>1, <2>2 DEF Untouched
<1>5. \/ UNCHANGED <<doing, dedup, written>>
      \/ \E j \in Node : Begin(j) \/ Write(j) \/ Note(j) \/ Restart(j)
  BY DEF Next, Request, Commit, ProposeExpire, BackgroundCompact, Elapse, vars, nodeVars, history
<1> QED BY <1>2, <1>3, <1>4, <1>5

LEMMA TornGrows == [Next]_vars => torn \subseteq torn'
<1> SUFFICES ASSUME [Next]_vars PROVE torn \subseteq torn'
  OBVIOUS
<1>1. UNCHANGED torn \/ \E i \in Node : Restart(i)
  BY DEF Next, Request, Commit, ProposeExpire, Begin, Write, Note, BackgroundCompact, Elapse,
         vars, history
<1> QED BY <1>1 DEF Restart

LEMMA OnceStep == KvInv /\ OnceInv /\ [Next]_vars => OnceInv'
<1> SUFFICES ASSUME KvInv, OnceInv, [Next]_vars, NEW i \in Node, i \notin torn'
             PROVE  Once(i)'
  BY DEF OnceInv
<1>1. Once(i)
  BY TornGrows DEF OnceInv
<1>2. CASE Untouched(i)
  BY <1>1, <1>2 DEF Untouched, Once
<1> QED BY <1>1, <1>2, NodeSteps, OnceBegin, OnceWrite, OnceNote

LEMMA OnceInvariant == Spec => [](KvInv /\ OnceInv)
<1>1. Init => OnceInv
  BY DEF Init, OnceInv, Once, Covered
<1> QED BY <1>1, OnceStep, KvInvariant, PTL DEF Spec

\* The dedup table: however often a request is committed, and however often the log is
\* handed out again after a restart, each of its writes is made once, by a process that never
\* ended inside an entry.
THEOREM WritesHappenOnce == Spec => []AppliedOnce
<1>1. OnceInv => AppliedOnce
  BY DEF OnceInv, Once, AppliedOnce
<1> QED BY <1>1, OnceInvariant, PTL

-----------------------------------------------------------------------------
(* An answer is of a request that was handled *)

LEMMA LastTyped ==
    ASSUME NEW p \in Seq(Step), p # <<>>
    PROVE  Last(p) \in Step
<1>1. Len(p) \in 1 .. Len(p)
  BY EmptySeq, LenProperties
<1> QED BY <1>1, ElementOfSeq DEF Last

\* The operations that carry a client and a request.
LEMMA ClientsOps ==
    ASSUME NEW op \in ClientOp \cup ExpireOp
    PROVE  "client" \in DOMAIN op <=> op \in ClientOp
BY DEF ClientOp, ExpireOp

\* New operations carry a fresh number, and nothing that was made is forgotten.
Grows ==
    /\ sent \subseteq sent' /\ \A c \in Client : requestID[c] <= requestID'[c]
    /\ \A op \in sent' \ sent : op \in ClientOp => /\ requestID[op.client] < op.request
                                                  /\ op.request <= requestID'[op.client]
    /\ \A a, b \in sent' \ sent : a = b
    /\ \A i \in Node : written[i] \subseteq written'[i]

\* The requests of the clients.
Waits == \A c \in Client : open[c] \subseteq {requestID[c]}

LEMMA RequestGrows ==
    ASSUME Control, NEW c \in Client, NEW command \in Commands, Request(c, command)
    PROVE  Grows /\ (Waits /\ Threads = 1 => Waits')
<1> DEFINE op == [client |-> c, request |-> requestID[c] + 1, command |-> command]
<1>1. /\ requestID' = [requestID EXCEPT ![c] = @ + 1]
      /\ sent' = sent \cup {op} /\ UNCHANGED written
  BY DEF Request, nodeVars, history
<1>2. PICK waiting \in SUBSET open[c] :
         /\ Cardinality(waiting) < Threads
         /\ open' = [open EXCEPT ![c] = waiting \cup {requestID[c] + 1}]
  BY DEF Request
<1>3. requestID \in [Client -> Nat] /\ open \in [Client -> SUBSET Nat]
  BY DEF Control
<1>4. op.client = c /\ op.request = requestID[c] + 1
  OBVIOUS
<1> HIDE DEF op
<1>5. Grows
  BY <1>1, <1>3, <1>4 DEF Grows
<1>6. ASSUME Waits, Threads = 1 PROVE Waits'
  <2>1. waiting \subseteq {requestID[c]}
    BY <1>2, <1>6 DEF Waits
  <2>2. IsFiniteSet(waiting)
    BY <2>1, FS_Singleton, FS_Subset
  <2>3. Cardinality(waiting) \in Nat /\ Cardinality(waiting) < 1
    BY <1>2, <1>6, <2>2, FS_CardinalityType
  <2>4. waiting = {}
    <3>1. Cardinality(waiting) = 0
      BY <2>3
    <3> QED BY <2>2, <3>1, FS_EmptySet
  <2> QED BY <1>1, <1>2, <1>3, <1>6, <2>4 DEF Waits
<1> QED BY <1>5, <1>6

LEMMA EveryStepGrows ==
    ASSUME KvInv, [Next]_vars
    PROVE  Grows /\ (Waits /\ Threads = 1 => Waits')
<1>1. Control /\ Stores
  BY DEF KvInv, StoreInv
<1>2. requestID \in [Client -> Nat]
  BY <1>1 DEF Control
<1>3. ASSUME UNCHANGED <<sent, requestID, open>>, \A i \in Node : written[i] \subseteq written'[i]
      PROVE  Grows /\ (Waits => Waits')
  BY <1>2, <1>3 DEF Grows, Waits
<1>4. ASSUME NEW i \in Node, ProposeExpire(i) PROVE Grows /\ (Waits => Waits')
  <2>1. PICK k \in L!ExpiredKeys(lm[i]) :
            sent' = sent \cup {[command |-> [type |-> "Expire", key |-> k]]}
    BY <1>4 DEF ProposeExpire
  <2>2. UNCHANGED <<requestID, open, written>>
    BY <1>4 DEF ProposeExpire, history
  <2>3. [command |-> [type |-> "Expire", key |-> k]] \notin ClientOp
    BY DEF ClientOp
  <2> QED BY <1>2, <2>1, <2>2, <2>3 DEF Grows, Waits
<1>5. \A i \in Node : written[i] \subseteq written'[i]
  <2>1. StoreSteps
    BY <1>1, EveryStoreStep
  <2>2. \A i \in Node : StoreStep(i)
    BY <2>1 DEF StoreSteps
  <2> QED BY <2>2 DEF StoreStep, Wrote, Compacts, Recovers
<1>6. \/ UNCHANGED <<sent, requestID, open>>
      \/ \E c \in Client, command \in Commands : Request(c, command)
      \/ \E i \in Node : ProposeExpire(i)
  BY DEF Next, Commit, Begin, Write, Note, BackgroundCompact, Elapse, Restart, vars, clientVars
<1> QED BY <1>1, <1>3, <1>4, <1>5, <1>6, RequestGrows

\* What was handled stays so.
LEMMA HandledStays ==
    ASSUME Control, Control', Grows, NEW i \in Node, NEW c \in Client, NEW r \in Nat,
           r <= requestID[c]
    PROVE  /\ r <= requestID'[c]
           /\ \A op \in sent' :
                 Plain(op) /\ op.client = c /\ op.request = r => op \in sent
           /\ Made(i, c, r) => Made(i, c, r)'
           /\ Handled(i, c, r) => Handled(i, c, r)'
<1>1. /\ requestID[c] \in Nat /\ requestID'[c] \in Nat /\ requestID[c] <= requestID'[c]
      /\ sent' \subseteq ClientOp \cup ExpireOp /\ sent \subseteq sent'
  BY DEF Control, Grows
<1>2. ASSUME NEW op \in sent', Plain(op), op.client = c, op.request = r PROVE op \in sent
  <2>1. op \in ClientOp /\ op.request \in Nat
    BY <1>1, <1>2, ClientsOps DEF Plain, ClientOp
  <2>2. op \notin sent => requestID[c] < op.request
    BY <1>2, <2>1 DEF Grows
  <2> QED BY <1>1, <1>2, <2>1, <2>2
<1>3. Made(i, c, r) => Made(i, c, r)'
  BY DEF Made, Grows
<1>4. ASSUME Handled(i, c, r) PROVE Handled(i, c, r)'
  BY <1>2, <1>3, <1>4 DEF Handled
<1> QED BY <1>1, <1>2, <1>3, <1>4

LEMMA NotedStays ==
    ASSUME Control, Control', Values, Grows, NEW i \in Node, NEW c \in Client,
           dedup'[i][c] = dedup[i][c]
    PROVE  Noted(i, c) => Noted(i, c)'
<1> SUFFICES ASSUME Noted(i, c) PROVE Noted(i, c)'
  OBVIOUS
<1>1. dedup[i][c].request \in Nat
  BY DEF Values, Dedup
<1>2. PICK r \in Nat : r = dedup[i][c].request
  BY <1>1
<1>3. r <= requestID[c] /\ Handled(i, c, r)
  BY <1>2 DEF Noted
<1>4. r <= requestID'[c] /\ Handled(i, c, r)'
  BY <1>3, HandledStays
<1>5. dedup'[i][c].request = r
  BY <1>2
<1> QED BY <1>4, <1>5 DEF Noted

LEMMA NumberedStep ==
    ASSUME Control, Control', Grows, Numbered, Waits'
    PROVE  Numbered'
<1>1. /\ sent' \subseteq ClientOp \cup ExpireOp
      /\ \A op \in ClientOp : op.client \in Client /\ op.request \in Nat
      /\ requestID \in [Client -> Nat] /\ requestID' \in [Client -> Nat]
  BY DEF Control, ClientOp
<1>2. ASSUME NEW op \in sent', op \in ClientOp
      PROVE  /\ op.request <= requestID'[op.client]
             /\ IF op \in sent THEN op.request <= requestID[op.client]
                               ELSE requestID[op.client] < op.request
  <2>1. CASE op \in sent
    <3>1. op.request <= requestID[op.client]
      BY <1>1, <1>2, <2>1, ClientsOps DEF Numbered
    <3>2. requestID[op.client] <= requestID'[op.client]
      BY <1>1, <1>2 DEF Grows
    <3> QED BY <1>1, <1>2, <2>1, <3>1, <3>2
  <2>2. CASE op \notin sent
    BY <1>2, <2>2 DEF Grows
  <2> QED BY <2>1, <2>2
<1>3. ASSUME NEW a \in sent', NEW b \in sent', a \in ClientOp, b \in ClientOp,
             a.client = b.client, a.request = b.request
      PROVE  a = b
  <2>1. CASE a \in sent /\ b \in sent
    BY <1>1, <1>3, <2>1, ClientsOps DEF Numbered
  <2>2. CASE a \notin sent /\ b \notin sent
    BY <2>2 DEF Grows
  <2>3. CASE (a \in sent) # (b \in sent)
    BY <1>1, <1>2, <1>3, <2>3
  <2> QED BY <2>1, <2>2, <2>3
<1>4. \A op \in sent' : "client" \in DOMAIN op => op \in ClientOp
  BY <1>1, ClientsOps
<1> QED BY <1>2, <1>3, <1>4 DEF Numbered, Waits

\* What is known of a node inside an entry.
Inside(i, p, c, r) ==
    /\ p = doing[i] /\ p \in Seq(Step) /\ p # <<>> /\ Last(p).type = "note" /\ Plan(p)
    /\ c = Last(p).client /\ c \in Client /\ r = Last(p).request /\ r \in Nat
    /\ r <= requestID[c] /\ Handling(i, c, r) /\ \A d \in Client \ {c} : Noted(i, d)

LEMMA InsideIs ==
    ASSUME Control, NEW i \in Node, Answering(i), doing[i] # <<>>
    PROVE  Inside(i, doing[i], Last(doing[i]).client, Last(doing[i]).request)
<1> DEFINE p == doing[i]
<1>1. p \in Seq(Step) /\ Last(p).type = "note"
  BY DoingFacts
<1>2. p # <<>>
  OBVIOUS
<1> HIDE DEF p
<1>3. Last(p) \in Step
  BY <1>1, <1>2, LastTyped
<1>4. Last(p).client \in Client /\ Last(p).request \in Nat
  BY <1>1, <1>3 DEF Step
<1> QED BY <1>1, <1>2, <1>4 DEF p, Answering, Inside

\* A node that neither begins an entry, writes nor notes, and one that begins a duplicate.
LEMMA AnsweringStays ==
    ASSUME Control, Control', Values, Grows, NEW i \in Node, Answering(i),
           doing'[i] = doing[i], dedup'[i] = dedup[i]
    PROVE  Answering(i)'
<1>1. \A c \in Client : Noted(i, c) => Noted(i, c)'
  BY NotedStays
<1>2. CASE doing[i] = <<>>
  BY <1>1, <1>2 DEF Answering
<1>3. CASE doing[i] # <<>>
  <2>1. PICK p, c, r : Inside(i, p, c, r)
    BY <1>3, InsideIs
  <2>2. /\ p = doing[i] /\ p # <<>> /\ Plan(p)
        /\ c = Last(p).client /\ c \in Client /\ r = Last(p).request /\ r \in Nat
        /\ r <= requestID[c] /\ Handling(i, c, r) /\ \A d \in Client \ {c} : Noted(i, d)
    BY <2>1 DEF Inside
  <2>3. Handling(i, c, r)'
    <3> SUFFICES ASSUME NEW op \in sent', Plain(op), op.client = c, op.request = r
                 PROVE  Made(i, c, r)' \/ doing'[i][1] = WriteStep(op, 1, op.command)
      BY DEF Handling
    <3>1. op \in sent /\ (Made(i, c, r) => Made(i, c, r)')
      BY <2>2, HandledStays
    <3> QED BY <2>2, <3>1 DEF Handling
  <2>4. r <= requestID'[c] /\ \A d \in Client \ {c} : Noted(i, d)'
    BY <1>1, <2>2, HandledStays
  <2> QED BY <2>2, <2>3, <2>4 DEF Answering
<1> QED BY <1>2, <1>3

\* The next entry.
LEMMA AnsweringBegins ==
    ASSUME Control, Control', Values, Grows, Numbered, NEW i \in Node, Begin(i), Answering(i)
    PROVE  Answering(i)'
<1> DEFINE op == log[lastApplied[i] + 1]
           p == Steps(store[i], op)
<1>1. /\ doing[i] = <<>> /\ lastApplied[i] < Len(log) /\ UNCHANGED <<sent, dedup, requestID>>
  BY DEF Begin, clientVars
<1>2. op \in ClientOp \cup ExpireOp /\ op \in sent
  BY <1>1, NextEntry
<1>3. CASE UNCHANGED doing
  BY <1>1, <1>3, AnsweringStays
<1>4. CASE /\ op.command.type \in {"Put", "Delete", "Batch", "Txn"}
           /\ doing' = [doing EXCEPT ![i] = p]
  <2>1. /\ Belongs(p, op)
        /\ op.command.type \in {"Put", "Delete"} => p[1] = WriteStep(op, 1, op.command)
    BY <1>2, <1>4, StepsBelong
  <2>2. op \in ClientOp /\ op.client \in Client /\ op.request \in Nat /\ "client" \in DOMAIN op
    BY <1>2, <1>4, OpsTyped, ClientsOps DEF OpsFacts
  <2>3. doing'[i] = p
    BY <1>4 DEF Control
  <2>4. op.request <= requestID'[op.client]
    BY <1>1, <1>2, <2>2 DEF Numbered
  <2>5. \A d \in Client : Noted(i, d)'
    BY <1>1, NotedStays DEF Answering
  <2> HIDE DEF p
  <2>6. PICK c, r : c = op.client /\ r = op.request
    OBVIOUS
  <2>7. Handling(i, c, r)'
    <3> SUFFICES ASSUME NEW o \in sent', Plain(o), o.client = c, o.request = r
                 PROVE  doing'[i][1] = WriteStep(o, 1, o.command)
      BY DEF Handling
    <3>1. o = op
      BY <1>1, <1>2, <2>2, <2>6 DEF Plain, Numbered
    <3>2. op.command.type \in {"Put", "Delete"}
      BY <3>1 DEF Plain
    <3> QED BY <2>1, <2>3, <3>1, <3>2
  <2>8. /\ p = doing'[i] /\ Plan(p) /\ p # <<>> /\ Last(p).client = c /\ Last(p).request = r
        /\ r <= requestID'[c]
    BY <2>1, <2>3, <2>4, <2>6 DEF Belongs
  <2> QED BY <2>5, <2>7, <2>8 DEF Answering
<1>5. \/ UNCHANGED doing
      \/ /\ op.command.type \in {"Put", "Delete", "Batch", "Txn"}
         /\ doing' = [doing EXCEPT ![i] = p]
  BY DEF Begin
<1> QED BY <1>3, <1>4, <1>5

\* The write of a put or delete that no condition refuses is made.
LEMMA AnsweringWrites ==
    ASSUME KvInv, Control', Grows, NEW i \in Node, Write(i), Answering(i)
    PROVE  Answering(i)'
<1>1. Control /\ Stores /\ Values /\ doing[i] # <<>>
  BY DEF KvInv, StoreInv, Write
<1>2. PICK p, c, r : Inside(i, p, c, r)
  BY <1>1, InsideIs
<1>3. /\ p = doing[i] /\ p \in Seq(Step) /\ p # <<>> /\ Last(p).type = "note" /\ Plan(p)
      /\ c = Last(p).client /\ c \in Client /\ r = Last(p).request /\ r \in Nat
      /\ r <= requestID[c] /\ Handling(i, c, r) /\ \A d \in Client \ {c} : Noted(i, d)
  BY <1>2 DEF Inside
<1> DEFINE t == Tail(p)
           step == Head(p)
<1>4. /\ step = p[1] /\ t # <<>> /\ Plan(t) /\ Last(t) = Last(p)
  BY <1>3, TailFacts DEF Write
<1>5. doing'[i] = t /\ UNCHANGED <<dedup, sent, requestID>>
  BY <1>1, <1>3 DEF Write, clientVars, Control
<1>6. /\ step.type = "write" /\ step.put \in WriteCommand /\ step.writer \in Writers
      /\ \/ \E deleted \in BOOLEAN : Wrote(i, step.put.key, step.writer, deleted)
         \/ /\ step.put.type = "Put"
            /\ M!CasConflict(store[i], step.put.key, step.put.expected)
  BY <1>1, <1>3, WriteIs DEF Writers
<1> HIDE DEF t, step
<1>7. Handling(i, c, r)'
  <2> SUFFICES ASSUME NEW op \in sent', Plain(op), op.client = c, op.request = r
               PROVE  Made(i, c, r)'
    BY DEF Handling
  <2>1. CASE Made(i, c, r)
    BY <1>1, <1>3, <2>1, HandledStays
  <2>2. CASE step = WriteStep(op, 1, op.command)
    <3>1. step.put = op.command /\ step.writer = <<c, r, 1>>
      BY <2>2 DEF WriteStep
    <3>2. ~(/\ step.put.type = "Put"
            /\ M!CasConflict(store[i], step.put.key, step.put.expected))
      BY <3>1 DEF Plain, M!CasConflict
    <3>3. WroteOne(i, step.put.key, step.writer)
      BY <1>6, <3>2 DEF WroteOne
    <3>4. step.put.key \in Key
      BY <1>6, WriteCommandsTyped
    <3>5. AddsOne(i, step.writer)
      BY <1>1, <1>6, <3>3, <3>4, WroteAdds
    <3>6. \E entry \in Version :
              entry.writer = step.writer /\ written'[i] = written[i] \cup {entry}
      BY <3>5 DEF AddsOne
    <3> QED BY <3>1, <3>6 DEF Made
  <2> QED BY <1>3, <1>4, <1>5, <2>1, <2>2 DEF Handling
<1>8. \A d \in Client \ {c} : Noted(i, d)'
  <2> SUFFICES ASSUME NEW d \in Client, Noted(i, d) PROVE Noted(i, d)'
    BY <1>3
  <2> QED BY <1>1, <1>5, NotedStays
<1>9. r <= requestID'[c]
  BY <1>3, <1>5
<1> QED BY <1>3, <1>4, <1>5, <1>7, <1>8, <1>9 DEF Answering

\* A note comes after the write of the put or delete; the last one names the request.
LEMMA AnsweringNotes ==
    ASSUME KvInv, Control', Grows, NEW i \in Node, Note(i), Answering(i)
    PROVE  /\ Answering(i)'
           /\ Len(doing[i]) = 1 =>
                 \A c, r : c = Head(doing[i]).client /\ r = Head(doing[i]).request =>
                     Handled(i, c, r)'
<1>1. Control /\ Stores /\ Values /\ doing[i] # <<>>
  BY DEF KvInv, StoreInv, Note
<1>2. PICK p, c, r : Inside(i, p, c, r)
  BY <1>1, InsideIs
<1>3. /\ p = doing[i] /\ p \in Seq(Step) /\ p # <<>> /\ Last(p).type = "note" /\ Plan(p)
      /\ c = Last(p).client /\ c \in Client /\ r = Last(p).request /\ r \in Nat
      /\ r <= requestID[c] /\ Handling(i, c, r) /\ \A d \in Client \ {c} : Noted(i, d)
  BY <1>2 DEF Inside
<1> DEFINE t == Tail(p)
           step == Head(p)
<1>4. /\ step = p[1] /\ Len(p) \in Nat \ {0} /\ (t = <<>> <=> Len(p) = 1)
      /\ t # <<>> => Plan(t) /\ Last(t) = Last(p)
      /\ t = <<>> => step = Last(p)
  BY <1>3, TailFacts
<1>5. doing'[i] = t /\ UNCHANGED <<sent, requestID>> /\ step.type = "note"
  BY <1>1, <1>3 DEF Note, clientVars, Control
<1>6. step.client = c
  <2>1. 1 \in 1 .. Len(p)
    BY <1>4
  <2> QED BY <1>3, <1>4, <1>5, <2>1 DEF Plan
<1>7. dedup'[i][c].request = step.request /\ \A d \in Client \ {c} : dedup'[i][d] = dedup[i][d]
  <2>1. step = Head(doing[i])
    BY <1>3
  <2> HIDE DEF step
  <2>2. \E x, y : dedup' = [dedup EXCEPT ![i][step.client] =
                              [request |-> step.request, result |-> x, txnResult |-> y]]
    BY <2>1 DEF Note
  <2> QED BY <1>1, <1>3, <1>6, <2>2 DEF Values
<1> HIDE DEF t, step
<1>8. Handled(i, c, r)' /\ Handling(i, c, r)'
  <2> SUFFICES ASSUME NEW op \in sent', Plain(op), op.client = c, op.request = r
               PROVE  Made(i, c, r)'
    BY DEF Handling, Handled
  <2>1. p[1] # WriteStep(op, 1, op.command)
    BY <1>4, <1>5 DEF WriteStep
  <2>2. Made(i, c, r)
    BY <1>3, <1>5, <2>1 DEF Handling
  <2> QED BY <1>1, <1>3, <2>2, HandledStays
<1>9. \A d \in Client \ {c} : Noted(i, d)'
  <2> SUFFICES ASSUME NEW d \in Client, d # c, Noted(i, d) PROVE Noted(i, d)'
    BY <1>3
  <2> QED BY <1>1, <1>7, NotedStays
<1>10. r <= requestID'[c]
  BY <1>3, <1>5
<1>11. CASE t # <<>>
  <2>1. Answering(i)'
    BY <1>3, <1>4, <1>5, <1>8, <1>9, <1>10, <1>11 DEF Answering
  <2> QED BY <1>3, <1>4, <1>11, <2>1
<1>12. CASE t = <<>>
  <2>1. step.request = r /\ step = Head(doing[i])
    BY <1>3, <1>4, <1>12 DEF step
  <2>2. Noted(i, c)'
    BY <1>7, <1>8, <1>10, <2>1 DEF Noted
  <2>3. Answering(i)'
    BY <1>5, <1>9, <1>12, <2>2 DEF Answering
  <2> QED BY <1>3, <1>6, <1>8, <2>1, <2>3
<1> QED BY <1>11, <1>12

\* A duplicate that somebody waits for is the request the dedup table names.
LEMMA DuplicateHandled ==
    ASSUME KvInv, Numbered, NEW i \in Node, Answering(i), doing[i] = <<>>,
           NEW op \in sent, op \in ClientOp, IsDuplicate(dedup[i][op.client], op),
           op.request \in open[op.client]
    PROVE  Handled(i, op.client, op.request)
<1> DEFINE c == op.client
           r == dedup[i][c].request
<1>1. c \in Client /\ op.request \in Nat
  BY DEF ClientOp
<1>2. Noted(i, c)
  BY <1>1 DEF Answering
<1>3. r \in Nat /\ requestID[c] \in Nat
  BY <1>1 DEF KvInv, StoreInv, Values, Dedup, Control
<1>4. r <= requestID[c] /\ Handled(i, c, r)
  BY <1>2 DEF Noted
<1>5. op.request = requestID[c] /\ op.request <= r
  BY <1>1 DEF Numbered, IsDuplicate
<1>6. op.request = r
  BY <1>1, <1>3, <1>4, <1>5
<1> QED BY <1>4, <1>6

\* An answer that was given.
Answered(a) ==
    /\ a.request <= requestID[a.client]
    /\ a.node \notin torn => Handled(a.node, a.client, a.request)

LEMMA AnsweredStep ==
    ASSUME KvInv, AnswerInv, [Next]_vars, Control', Grows, NEW a \in acked'
    PROVE  Answered(a)'
<1>1. Control /\ Stores /\ Values /\ Numbered /\ torn \subseteq torn'
  BY TornGrows DEF KvInv, StoreInv, AnswerInv
<1>2. CASE a \in acked
  <2>1. a.node \in Node /\ a.client \in Client /\ a.request \in Nat
    BY <1>1, <1>2 DEF Values
  <2>2. a.request <= requestID[a.client] /\ (a.node \notin torn => Handled(a.node, a.client, a.request))
    BY <1>2 DEF AnswerInv
  <2>3. a.request <= requestID'[a.client] /\ (a.node \notin torn => Handled(a.node, a.client, a.request)')
    BY <1>1, <2>1, <2>2, HandledStays
  <2> QED BY <1>1, <2>3 DEF Answered
<1>3. ASSUME NEW i \in Node, Begin(i), a \notin acked PROVE Answered(a)'
  <2> DEFINE op == log[lastApplied[i] + 1]
  <2>1. /\ doing[i] = <<>> /\ lastApplied[i] < Len(log)
        /\ op.command.type \in {"Put", "Delete", "Batch", "Txn"}
        /\ IsDuplicate(dedup[i][op.client], op)
        /\ acked' = Answer(i, op.client, op.request)
        /\ UNCHANGED <<torn, requestID>>
    BY <1>3 DEF Begin, clientVars
  <2>2. op \in sent /\ op \in ClientOp \cup ExpireOp
    BY <1>1, <2>1, NextEntry
  <2>3. op \in ClientOp /\ op.client \in Client /\ op.request \in Nat
    BY <2>1, <2>2, OpsTyped DEF OpsFacts
  <2> HIDE DEF op
  <2>4. /\ op.request \in open[op.client]
        /\ a.node = i /\ a.client = op.client /\ a.request = op.request
    BY <1>3, <2>1 DEF Answer
  <2>5. op.request <= requestID[op.client]
    BY <1>1, <2>2, <2>3, ClientsOps DEF Numbered
  <2>6. ASSUME i \notin torn PROVE Handled(i, a.client, a.request)'
    <3>1. Answering(i)
      BY <2>6 DEF AnswerInv
    <3>2. Handled(i, op.client, op.request)
      BY <1>1, <2>1, <2>2, <2>3, <2>4, <3>1, DuplicateHandled
    <3>3. /\ Handled(i, a.client, a.request) /\ a.client \in Client /\ a.request \in Nat
          /\ a.request <= requestID[a.client]
      BY <2>3, <2>4, <2>5, <3>2
    <3> QED BY <1>1, <3>3, HandledStays
  <2> QED BY <2>1, <2>4, <2>5, <2>6 DEF Answered
<1>4. ASSUME NEW i \in Node, Note(i), a \notin acked PROVE Answered(a)'
  <2> DEFINE step == Head(doing[i])
  <2>1. /\ acked' = Answer(i, step.client, step.request) /\ Len(doing[i]) = 1
        /\ UNCHANGED <<torn, requestID>>
    BY <1>4 DEF Note, clientVars
  <2>2. a.node = i /\ a.client = step.client /\ a.request = step.request
    BY <1>4, <2>1 DEF Answer
  <2>3. ASSUME i \notin torn
        PROVE  Handled(i, a.client, a.request)'
    <3>1. Answering(i)
      BY <2>3 DEF AnswerInv
    <3> QED BY <1>4, <2>1, <2>2, <3>1, AnsweringNotes
  <2>4. step.request <= requestID[step.client]
    <3>1. step.request \in open[step.client]
      BY <1>4, <2>1 DEF Answer
    <3>2. step.client \in Client
      <4>1. doing[i] \in Seq(Step) /\ doing[i] # <<>> /\ Last(doing[i]).type = "note"
            /\ step.type = "note"
        BY <1>1, <1>4, DoingFacts DEF Note
      <4> DEFINE p == doing[i]
      <4>2. Head(p) \in Step
        <5> HIDE DEF p
        <5> QED BY <4>1, TailFacts DEF p
      <4> QED BY <4>1, <4>2 DEF Step
    <3>3. step.request = requestID[step.client] /\ requestID[step.client] \in Nat
      BY <1>1, <3>1, <3>2 DEF Numbered, Control
    <3> QED BY <3>3
  <2> QED BY <2>1, <2>2, <2>3, <2>4 DEF Answered
<1>5. UNCHANGED acked \/ \E i \in Node : Begin(i) \/ Note(i)
  BY DEF Next, Request, Commit, ProposeExpire, Write, BackgroundCompact, Elapse, Restart, vars,
         history
<1> QED BY <1>2, <1>3, <1>4, <1>5

LEMMA AnswerStep ==
    ASSUME Threads = 1
    PROVE  KvInv /\ AnswerInv /\ [Next]_vars => AnswerInv'
<1> SUFFICES ASSUME KvInv, AnswerInv, [Next]_vars PROVE AnswerInv'
  OBVIOUS
<1>1. Control /\ Stores /\ Values /\ Control' /\ torn \subseteq torn'
  BY ControlStep, TornGrows DEF KvInv, StoreInv
<1>2. Grows /\ Waits'
  BY EveryStepGrows DEF AnswerInv, Numbered, Waits
<1>3. Numbered'
  BY <1>1, <1>2, NumberedStep DEF AnswerInv
<1>4. ASSUME NEW i \in Node, i \notin torn' PROVE Answering(i)'
  <2>1. Answering(i) /\ Numbered
    BY <1>1, <1>4 DEF AnswerInv
  <2>2. CASE Untouched(i)
    BY <1>1, <1>2, <2>1, <2>2, AnsweringStays DEF Untouched
  <2>3. CASE Begin(i)
    BY <1>1, <1>2, <2>1, <2>3, AnsweringBegins
  <2>4. CASE Write(i)
    BY <1>1, <1>2, <2>1, <2>4, AnsweringWrites
  <2>5. CASE Note(i)
    BY <1>1, <1>2, <2>1, <2>5, AnsweringNotes
  <2> QED BY <1>4, <2>2, <2>3, <2>4, <2>5, NodeSteps
<1>5. \A a \in acked' : Answered(a)'
  BY <1>1, <1>2, AnsweredStep
<1> QED BY <1>3, <1>4, <1>5 DEF AnswerInv, Answered

\* The dedup table: a put or delete of a client with one call at a time is answered by a node
\* that made the write, however late the answer is and whatever was committed twice.
THEOREM AnswersFollowWrites ==
    ASSUME Threads = 1
    PROVE  Spec => []AnsweredWasHandled
<1>1. Init => AnswerInv
  BY DEF Init, AnswerInv, Numbered, Answering, Noted, Handled, NoRequest
<1>2. KvInv /\ AnswerInv /\ [Next]_vars => AnswerInv'
  BY AnswerStep
<1>3. AnswerInv => AnsweredWasHandled
  BY DEF AnswerInv, AnsweredWasHandled, Handled, Plain, Made
<1> QED BY <1>1, <1>2, <1>3, KvInvariant, PTL DEF Spec
=============================================================================
