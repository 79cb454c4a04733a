----------------------------- MODULE ReplicatedLog -----------------------------
(***************************************************************************)
(* What the KV layer of HM-KV relies on when it reads applyCh              *)
(* (src/internal/kv/kv_apply.go): there is one log of commands, every      *)
(* store is handed that log from its first command on, in order and        *)
(* without gaps.                                                           *)
(***************************************************************************)
EXTENDS Naturals, Sequences

CONSTANTS Server, Command

VARIABLES chosen,      \* the commands the cluster agreed on
          delivered    \* what each store was handed since it started

logVars == <<chosen, delivered>>

Init == chosen = <<>> /\ delivered = [i \in Server |-> <<>>]

\* The cluster agrees on some more commands.
Choose ==
    /\ chosen' \in Seq(Command)
    /\ Len(chosen) < Len(chosen')
    /\ SubSeq(chosen', 1, Len(chosen)) = chosen
    /\ UNCHANGED delivered

\* A store is handed the next command.
Deliver(i) ==
    /\ Len(delivered[i]) < Len(chosen)
    /\ delivered' = [delivered EXCEPT ![i] = Append(@, chosen[Len(@) + 1])]
    /\ UNCHANGED chosen

Next == Choose \/ \E i \in Server : Deliver(i)

Spec == Init /\ [][Next]_logVars
=============================================================================
