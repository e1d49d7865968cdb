----------------------------- MODULE ReportedQuery -----------------------------
(***************************************************************************)
(* What oracle_query promises about a statement, without connections, locks *)
(* or requests that come and go: it reads, or takes effect once and for     *)
(* good, before its result is reported; a success is only reported of one    *)
(* that did; and the report is final.  An error says nothing: the statement *)
(* may have taken effect.  A protocol error is only made of rows that were   *)
(* read.                                                                   *)
(***************************************************************************)
CONSTANT Query

VARIABLES
    effect,  \* "none", "read" (it changes nothing) or "lasting"
    report   \* "none", "success", "error" or "thrown"

Init ==
    /\ effect = [q \in Query |-> "none"]
    /\ report = [q \in Query |-> "none"]

TakeEffect(q) ==
    /\ effect[q] = "none" /\ report[q] = "none"
    /\ \E e \in {"read", "lasting"} : effect' = [effect EXCEPT ![q] = e]
    /\ UNCHANGED report

Report(q, what) ==
    /\ report[q] = "none"
    /\ report' = [report EXCEPT ![q] = what]
    /\ UNCHANGED effect

Succeed(q) == effect[q] # "none" /\ Report(q, "success")

Fail(q) == Report(q, "error")

Throw(q) == effect[q] = "read" /\ Report(q, "thrown")

Next == \E q \in Query : TakeEffect(q) \/ Succeed(q) \/ Fail(q) \/ Throw(q)

Spec == Init /\ [][Next]_<<effect, report>>
=============================================================================
