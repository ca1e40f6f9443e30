----------------------------- MODULE RunLedger -----------------------------
(***************************************************************************)
(* What the runs table promises its readers: a run may be absent, may be    *)
(* seen running, and once it is final it is what it will always be.  An     *)
(* entry is <<"absent">>, <<"running">> or <<"final", the whole record>>.   *)
(***************************************************************************)
CONSTANT Run
VARIABLE ledger

Init == ledger = [r \in Run |-> <<"absent">>]

Advances(from, to) ==
  \/ from[1] = "absent" /\ to[1] \in {"running", "final"}
  \/ from[1] = "running" /\ to[1] = "final"

\* One commit may move several runs on.
Next ==
  /\ ledger' = [r \in Run |-> ledger'[r]]
  /\ \A r \in Run : ledger'[r] = ledger[r] \/ Advances(ledger[r], ledger'[r])

Spec == Init /\ [][Next]_ledger
=============================================================================
