------------------------------- MODULE GatedCall -------------------------------
(***************************************************************************)
(* What the review gate promises about a tool call, without review sessions *)
(* to create or lose, prompts or timers: a call of the reviewer's own goes  *)
(* ahead, any other is ruled on once, and what becomes of it is what the    *)
(* ruling says.                                                            *)
(***************************************************************************)
CONSTANTS
    Call, FailOpen,
    Session,   \* the sessions a reviewer can have
    Elsewhere  \* those of others: 0, the user's, and those of the reviewers' subagents

VARIABLES
    hook,      \* each call: "idle", "reviewing", "logging", "ran", "blocked"
    ruling,    \* "none", or what was ruled on it
    origin,    \* the session it comes from, 0 at first
    reviewers  \* the sessions the reviewer has had

Init ==
    /\ hook = [c \in Call |-> "idle"]
    /\ ruling = [c \in Call |-> "none"]
    /\ origin = [c \in Call |-> 0]
    /\ reviewers = {}

Hire ==
    /\ \E s \in Session : reviewers' = reviewers \cup {s}
    /\ UNCHANGED <<hook, ruling, origin>>

\* A call that has ended makes place for the next.
Come(c, from, to) ==
    /\ hook[c] \in {"idle", "ran", "blocked"}
    /\ hook' = [hook EXCEPT ![c] = to]
    /\ ruling' = [ruling EXCEPT ![c] = "none"]
    /\ origin' = [origin EXCEPT ![c] = from]
    /\ UNCHANGED reviewers

Pass(c) == \E s \in reviewers : Come(c, s, "ran")

Submit(c) == \E o \in Elsewhere : Come(c, o, "reviewing")

Rule(c) ==
    /\ hook[c] = "reviewing"
    /\ hook' = [hook EXCEPT ![c] = "logging"]
    /\ \E v \in {"allow", "block", "unclear", "error"} : ruling' = [ruling EXCEPT ![c] = v]
    /\ UNCHANGED <<origin, reviewers>>

MayRun(v) == v = "allow" \/ (FailOpen /\ v \in {"unclear", "error"})

CarryOut(c) ==
    /\ hook[c] = "logging"
    /\ hook' = [hook EXCEPT ![c] = IF MayRun(ruling[c]) THEN "ran" ELSE "blocked"]
    /\ UNCHANGED <<ruling, origin, reviewers>>

Next == Hire \/ \E c \in Call : Pass(c) \/ Submit(c) \/ Rule(c) \/ CarryOut(c)

gateVars == <<hook, ruling, origin, reviewers>>

Spec == Init /\ [][Next]_gateVars
=============================================================================
