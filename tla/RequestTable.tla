----------------------------- MODULE RequestTable -----------------------------
(***************************************************************************)
(* What LspClient.request() promises its callers, without ids, messages or  *)
(* timers: a request is open until it is settled, it is settled once, and   *)
(* when the table is closed (the server died) everything open fails in the  *)
(* same step and nothing is ever open again.                               *)
(***************************************************************************)
CONSTANT Asker

VARIABLES outcome, closed

Outcome == {"none", "open", "resolved", "failed"}

Init ==
    /\ outcome = [k \in Asker |-> "none"]
    /\ closed = FALSE

Ask(k) ==
    /\ outcome[k] = "none"
    /\ outcome' = [outcome EXCEPT ![k] = IF closed THEN "failed" ELSE "open"]
    /\ UNCHANGED closed

Settle(k, result) ==
    /\ outcome[k] = "open"
    /\ outcome' = [outcome EXCEPT ![k] = result]
    /\ UNCHANGED closed

Close ==
    /\ ~closed
    /\ closed' = TRUE
    /\ outcome' = [k \in Asker |-> IF outcome[k] = "open" THEN "failed" ELSE outcome[k]]

Next ==
    \/ \E k \in Asker : Ask(k)
    \/ \E k \in Asker : \E result \in {"resolved", "failed"} : Settle(k, result)
    \/ Close

Spec == Init /\ [][Next]_<<outcome, closed>>
=============================================================================
