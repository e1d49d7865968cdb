------------------------------ MODULE ReviewGate ------------------------------
(***************************************************************************)
(* The plugin plugins/llm-review-gate/llm-review-gate.ts: before a gated     *)
(* tool call runs, its command is put to a model in a review session, and   *)
(* the first of its verdict and a 30 s timer decides.                      *)
(*                                                                         *)
(* Sessions live in the opencode server, which is outside the repository:   *)
(* it creates them, ends prompts with any text or an error, lets the model  *)
(* of a prompted session call tools itself, in a session of a subagent too,  *)
(* and lets the user delete them.                                          *)
(* A command is abstracted to the call it belongs to.                      *)
(***************************************************************************)
EXTENDS Naturals

CONSTANTS
    Call,         \* the gated tool calls in progress at one time
    FailOpen,     \* FAIL_OPEN_ON_ERROR, which is true in the code
    MaxSessions   \* bound on the review sessions made

ASSUME FailOpenAssumption == FailOpen \in BOOLEAN
ASSUME MaxSessionsAssumption == MaxSessions \in Nat

VARIABLES
    current,  \* reviewSessionID, 0 when undefined
    known,    \* reviewSessionIDs
    made,     \* how many review sessions the server was asked to create
    deleted,  \* those the user has deleted
    heard,    \* the calls whose commands each session was shown
    hook,     \* tool.execute.before: "idle", "reviewing", "logging", "ran", "blocked"
    review,   \* review(): "none", "creating", "prompting", "over"
    asked,    \* the session that review() asks
    verdict,  \* "none", "allow", "block", "unclear", "error"
    origin    \* the session the call comes from, 0 for one of the user's

sessionVars == <<current, known, made, deleted, heard>>
callVars == <<hook, review, asked, verdict, origin>>
vars == <<sessionVars, callVars>>

Session == 1..MaxSessions

\* The session of the subagents that the model of review session s starts.
Child(s) == MaxSessions + s

Elsewhere == {0} \cup {Child(s) : s \in Session}

Init ==
    /\ current = 0
    /\ known = {}
    /\ made = 0
    /\ deleted = {}
    /\ heard = [s \in Session |-> {}]
    /\ hook = [c \in Call |-> "idle"]
    /\ review = [c \in Call |-> "none"]
    /\ asked = [c \in Call |-> 0]
    /\ verdict = [c \in Call |-> "none"]
    /\ origin = [c \in Call |-> 0]

Settled(c) == hook[c] \in {"idle", "ran", "blocked"}

\* session.prompt() in session s, in the turn in which its id is known.
Prompt(c, s) ==
    /\ review' = [review EXCEPT ![c] = "prompting"]
    /\ asked' = [asked EXCEPT ![c] = s]
    /\ heard' = [heard EXCEPT ![s] = @ \cup {c}]

\* The review sessions whose model has work to do.
Shown == {s \in Session : heard[s] # {}}

\* Where calls come from: the user's sessions, a review session whose model uses a
\* tool although it was told not to, or a session that it started for a subagent.
Origin == {0} \cup Shown \cup {Child(s) : s \in Shown}

\* Mutant of IsReviewSession: one id is remembered instead of a set.
IsLatestReviewSession(s) == s = current /\ s # 0

IsReviewSession(s) == s \in known

\* The hook as far as its first wait.  What a call of before left behind in the
\* background is over.
Begin(c) ==
    /\ Settled(c) /\ review[c] \in {"none", "over"}
    /\ \E o \in Origin :
         /\ origin' = [origin EXCEPT ![c] = o]
         /\ verdict' = [verdict EXCEPT ![c] = "none"]
         /\ \/ /\ IsReviewSession(o)
               /\ hook' = [hook EXCEPT ![c] = "ran"]
               /\ UNCHANGED <<heard, review, asked>>
            \/ /\ ~IsReviewSession(o)
               /\ hook' = [hook EXCEPT ![c] = "reviewing"]
               /\ \/ current # 0 /\ Prompt(c, current)
                  \/ /\ current = 0
                     /\ review' = [review EXCEPT ![c] = "creating"]
                     /\ UNCHANGED <<heard, asked>>
    /\ UNCHANGED <<current, known, made, deleted>>

\* Mutant of ReviewOver: the race with the timer is not a race.
OverwriteVerdict(c, v) ==
    /\ review' = [review EXCEPT ![c] = "over"]
    /\ verdict' = [verdict EXCEPT ![c] = v]
    /\ hook' = [hook EXCEPT ![c] = IF @ = "reviewing" THEN "logging" ELSE @]

\* review() ends with v.  The hook takes it if it still waits; after the timer
\* nobody does.
ReviewOver(c, v) ==
    /\ review' = [review EXCEPT ![c] = "over"]
    /\ \/ /\ hook[c] = "reviewing"
          /\ verdict' = [verdict EXCEPT ![c] = v]
          /\ hook' = [hook EXCEPT ![c] = "logging"]
       \/ /\ hook[c] # "reviewing"
          /\ UNCHANGED <<verdict, hook>>

\* session.create() ends: every call that found no session makes one, and the
\* last answer stays in reviewSessionID.
Created(c) ==
    /\ review[c] = "creating"
    /\ \/ /\ made < MaxSessions
          /\ made' = made + 1
          /\ current' = made + 1
          /\ known' = known \cup {made + 1}
          /\ Prompt(c, made + 1)
          /\ UNCHANGED <<deleted, hook, verdict>>
       \/ /\ ReviewOver(c, "error")
          /\ UNCHANGED <<sessionVars, asked>>
    /\ UNCHANGED origin

\* session.prompt() ends; in a session that is gone it can only fail.
Answered(c) ==
    /\ review[c] = "prompting"
    /\ \E v \in {"allow", "block", "unclear", "error"} :
         /\ asked[c] \in deleted => v = "error"
         /\ ReviewOver(c, v)
    /\ UNCHANGED <<sessionVars, asked, origin>>

\* Mutant of TimedOut: no timer.
NeverTimesOut(c) == FALSE /\ UNCHANGED vars

\* Mutant of TimedOut: a verdict of its own, which nothing after it knows.
TimeoutVerdict(c) ==
    /\ hook[c] = "reviewing"
    /\ verdict' = [verdict EXCEPT ![c] = "timeout"]
    /\ hook' = [hook EXCEPT ![c] = "logging"]
    /\ UNCHANGED <<sessionVars, review, asked, origin>>

TimedOut(c) ==
    /\ hook[c] = "reviewing"
    /\ verdict' = [verdict EXCEPT ![c] = "error"]
    /\ hook' = [hook EXCEPT ![c] = "logging"]
    /\ UNCHANGED <<sessionVars, review, asked, origin>>

\* Mutant of Blocks: failing open covers every verdict.
BlocksUnlessOpen(v) == v \in {"block", "error", "unclear"} /\ ~FailOpen

Blocks(v) == v = "block" \/ (v \in {"error", "unclear"} /\ ~FailOpen)

\* logReview() never throws; then the hook throws or lets the call go on.
Log(c) ==
    /\ hook[c] = "logging"
    /\ hook' = [hook EXCEPT ![c] = IF Blocks(verdict[c]) THEN "blocked" ELSE "ran"]
    /\ UNCHANGED <<sessionVars, review, asked, verdict, origin>>

\* The user deletes a review session from the list: "(internal, safe to delete)".
DeleteSession(s) ==
    /\ s \in 1..made
    /\ s \notin deleted
    /\ deleted' = deleted \cup {s}
    /\ UNCHANGED <<current, known, made, heard, callVars>>

Next ==
    \/ \E c \in Call : Begin(c)
    \/ \E c \in Call : Created(c)
    \/ \E c \in Call : Answered(c)
    \/ \E c \in Call : TimedOut(c)
    \/ \E c \in Call : Log(c)
    \/ \E s \in Session : DeleteSession(s)

Spec == Init /\ [][Next]_vars

(***************************************************************************)
(* Fairness: timers fire and the log write ends.  Nothing is assumed of the *)
(* model or the opencode server.                                           *)
(***************************************************************************)
FairSpec == Spec /\ \A c \in Call : WF_vars(TimedOut(c)) /\ WF_vars(Log(c))

\* ... and the opencode server ends its requests, and the agent keeps working.
WorkingSpec ==
    /\ FairSpec
    /\ \A c \in Call : WF_vars(Begin(c)) /\ WF_vars(Created(c)) /\ WF_vars(Answered(c))

-----------------------------------------------------------------------------
(***************************************************************************)
(* Properties.                                                             *)
(***************************************************************************)
\* The values the variables range over.
TypeOK ==
    /\ made \in 0..MaxSessions
    /\ current \in 0..made
    /\ known \subseteq Session
    /\ deleted \subseteq Session
    /\ heard \in [Session -> SUBSET Call]
    /\ hook \in [Call -> {"idle", "reviewing", "logging", "ran", "blocked"}]
    /\ review \in [Call -> {"none", "creating", "prompting", "over"}]
    /\ asked \in [Call -> 0..made]
    /\ verdict \in [Call -> {"none", "allow", "block", "unclear", "error"}]
    /\ origin \in [Call -> Elsewhere \cup 1..made]

\* A review session's own tool calls are never put to review, however many
\* review sessions the race in ensureReviewSession() made: no review waits for
\* one of a call its own session made.  (What its subagents call is reviewed.)
NoReviewOfReview ==
    \A c \in Call : hook[c] \in {"reviewing", "logging"} => origin[c] \notin Session

\* A decision stands: only a hook that still waits takes a verdict, and an
\* answer that arrives after the timer changes nothing.
LateVerdictIsIgnored ==
    [][\A c \in Call : verdict'[c] \notin {verdict[c], "none"} => hook[c] = "reviewing"]_vars

\* A command the reviewer rejected in time does not run; one that runs was
\* allowed, or belongs to the reviewer, or met an error with the gate failing open.
RunsAreCleared ==
    \A c \in Call : hook[c] = "ran" =>
        \/ verdict[c] = "allow"
        \/ origin[c] \in known
        \/ FailOpen /\ verdict[c] \in {"error", "unclear"}

\* The hook never keeps a tool call waiting for ever, whatever the model does.
HookReturns == \A c \in Call : hook[c] = "reviewing" ~> hook[c] \in {"ran", "blocked"}

\* The title of the session: it is safe to delete, so a review session that is
\* gone is replaced by another.
DeletedSessionIsReplaced == current \in deleted ~> current \notin deleted

-----------------------------------------------------------------------------
(***************************************************************************)
(* The inductive invariant: the plugin knows every session it ever made.    *)
(***************************************************************************)
AllSessionsKnown ==
    /\ known = 1..made
    /\ \A s \in Session : heard[s] # {} => s \in known
    /\ \A c \in Call : review[c] = "prompting" => asked[c] # 0

\* A decision rests on a verdict.
DecidedHasVerdict == \A c \in Call : hook[c] = "logging" => verdict[c] # "none"

GateInv ==
    /\ TypeOK
    /\ AllSessionsKnown
    /\ NoReviewOfReview
    /\ RunsAreCleared
    /\ DecidedHasVerdict

-----------------------------------------------------------------------------
(***************************************************************************)
(* What the gate promises about a call is a specification of its own.       *)
(***************************************************************************)
Gated == INSTANCE GatedCall WITH ruling <- verdict, reviewers <- known

ImplementsGatedCall == Gated!Spec
=============================================================================
