-------------------------- MODULE ReviewGate_proofs --------------------------
(***************************************************************************)
(* Theorems about the review gate, for any number of overlapping tool calls *)
(* and whether it fails open or closed.                                    *)
(***************************************************************************)
EXTENDS ReviewGate, TLAPS

\* Before the first call the invariant holds.
LEMMA GateInit == Init => GateInv
  BY MaxSessionsAssumption
     DEF Init, GateInv, TypeOK, AllSessionsKnown, NoReviewOfReview, RunsAreCleared,
         DecidedHasVerdict, Session, Elsewhere

\* No subagent's session, nor the user's, is a review session.
LEMMA ElsewhereIsNoReview == Elsewhere \cap Session = {}
  BY MaxSessionsAssumption DEF Elsewhere, Child, Session

\* What the end of a review or the timer does to the call, and to no other.
LEMMA DecisionStep ==
    ASSUME GateInv, NEW c \in Call, NEW v \in {"allow", "block", "unclear", "error"},
           UNCHANGED <<current, known, made, deleted, heard, asked, origin>>,
           review' \in [Call -> {"none", "creating", "prompting", "over"}],
           \A d \in Call : review'[d] = "prompting" => review[d] = "prompting",
           \/ /\ hook[c] = "reviewing"
              /\ verdict' = [verdict EXCEPT ![c] = v]
              /\ hook' = [hook EXCEPT ![c] = "logging"]
           \/ UNCHANGED <<verdict, hook>>
    PROVE  GateInv'
<1>1. TypeOK'
  BY DEF GateInv, TypeOK
<1>2. AllSessionsKnown'
  BY DEF GateInv, TypeOK, AllSessionsKnown
<1>3. NoReviewOfReview'
  BY DEF GateInv, TypeOK, NoReviewOfReview
<1>4. RunsAreCleared'
  BY DEF GateInv, TypeOK, RunsAreCleared
<1>5. DecidedHasVerdict'
  BY DEF GateInv, TypeOK, DecidedHasVerdict
<1> QED BY <1>1, <1>2, <1>3, <1>4, <1>5 DEF GateInv

\* Every step of the hook, of review() and of the user keeps it.
LEMMA GateStep == GateInv /\ [Next]_vars => GateInv'
<1> SUFFICES ASSUME GateInv, [Next]_vars PROVE GateInv'
  OBVIOUS
<1> USE MaxSessionsAssumption
<1>1. CASE UNCHANGED vars
  BY <1>1 DEF vars, sessionVars, callVars, GateInv, TypeOK, AllSessionsKnown,
              NoReviewOfReview, RunsAreCleared, DecidedHasVerdict
<1>2. ASSUME NEW c \in Call, Begin(c) PROVE GateInv'
  <2>1. PICK o \in Origin :
          /\ origin' = [origin EXCEPT ![c] = o]
          /\ verdict' = [verdict EXCEPT ![c] = "none"]
          /\ \/ /\ o \in known
                /\ hook' = [hook EXCEPT ![c] = "ran"]
                /\ UNCHANGED <<heard, review, asked>>
             \/ /\ o \notin known
                /\ hook' = [hook EXCEPT ![c] = "reviewing"]
                /\ \/ current # 0 /\ Prompt(c, current)
                   \/ /\ current = 0
                      /\ review' = [review EXCEPT ![c] = "creating"]
                      /\ UNCHANGED <<heard, asked>>
    BY <1>2 DEF Begin, IsReviewSession
  <2>2. UNCHANGED <<current, known, made, deleted>>
    BY <1>2 DEF Begin
  <2>3. o \in Elsewhere \/ (o \in known /\ o \in 1..made)
    BY DEF Origin, Shown, Elsewhere, GateInv, AllSessionsKnown
  <2>4. current # 0 => current \in known /\ current \in Session
    BY DEF GateInv, TypeOK, AllSessionsKnown, Session
  <2>5. \/ hook' = [hook EXCEPT ![c] = "ran"] /\ o \in known
        \/ hook' = [hook EXCEPT ![c] = "reviewing"] /\ o \notin Session
    BY <2>1, <2>3, ElsewhereIsNoReview
  <2>6. TypeOK'
    <3>1. heard' \in [Session -> SUBSET Call] /\ asked' \in [Call -> 0..made]
          /\ review' \in [Call -> {"none", "creating", "prompting", "over"}]
      BY <2>1, <2>4 DEF Prompt, GateInv, TypeOK
    <3>2. origin' \in [Call -> Elsewhere \cup 1..made]
      BY <2>1, <2>3 DEF GateInv, TypeOK
    <3>3. /\ hook' \in [Call -> {"idle", "reviewing", "logging", "ran", "blocked"}]
          /\ verdict' \in [Call -> {"none", "allow", "block", "unclear", "error"}]
      BY <2>1, <2>5 DEF GateInv, TypeOK
    <3> QED BY <2>2, <3>1, <3>2, <3>3 DEF GateInv, TypeOK
  <2>7. AllSessionsKnown'
    BY <2>1, <2>2, <2>4 DEF Prompt, GateInv, TypeOK, AllSessionsKnown
  <2>8. NoReviewOfReview' /\ RunsAreCleared' /\ DecidedHasVerdict'
    BY <2>1, <2>2, <2>5
       DEF GateInv, TypeOK, NoReviewOfReview, RunsAreCleared, DecidedHasVerdict
  <2> QED BY <2>6, <2>7, <2>8 DEF GateInv
<1>3. ASSUME NEW c \in Call, Created(c) PROVE GateInv'
  <2>1. CASE /\ made < MaxSessions
             /\ made' = made + 1
             /\ current' = made + 1
             /\ known' = known \cup {made + 1}
             /\ Prompt(c, made + 1)
             /\ UNCHANGED <<deleted, hook, verdict>>
    BY <1>3, <2>1
       DEF Created, Prompt, GateInv, TypeOK, AllSessionsKnown, NoReviewOfReview,
           RunsAreCleared, DecidedHasVerdict, Session
  <2>2. CASE ReviewOver(c, "error") /\ UNCHANGED <<sessionVars, asked>>
    BY <1>3, <2>2, DecisionStep DEF Created, ReviewOver, sessionVars, GateInv, TypeOK
  <2> QED BY <1>3, <2>1, <2>2 DEF Created
<1>4. ASSUME NEW c \in Call, Answered(c) PROVE GateInv'
  BY <1>4, DecisionStep DEF Answered, ReviewOver, sessionVars, GateInv, TypeOK
<1>5. ASSUME NEW c \in Call, TimedOut(c) PROVE GateInv'
  BY <1>5, DecisionStep DEF TimedOut, sessionVars, GateInv, TypeOK
<1>6. ASSUME NEW c \in Call, Log(c) PROVE GateInv'
  <2>1. TypeOK' /\ AllSessionsKnown' /\ NoReviewOfReview'
    BY <1>6 DEF Log, sessionVars, GateInv, TypeOK, AllSessionsKnown, NoReviewOfReview
  <2>2. RunsAreCleared'
    <3> SUFFICES ASSUME NEW d \in Call, hook'[d] = "ran"
                 PROVE  \/ verdict[d] = "allow"
                        \/ origin[d] \in known
                        \/ FailOpen /\ verdict[d] \in {"error", "unclear"}
      BY <1>6 DEF Log, sessionVars, RunsAreCleared
    <3>1. CASE d # c
      BY <1>6, <3>1 DEF Log, GateInv, TypeOK, RunsAreCleared
    <3>2. CASE d = c
      <4>1. ~Blocks(verdict[c])
        BY <1>6, <3>2 DEF Log, GateInv, TypeOK
      <4>2. verdict[c] # "none"
        BY <1>6 DEF Log, GateInv, DecidedHasVerdict
      <4>3. verdict[c] \in {"none", "allow", "block", "unclear", "error"}
        BY DEF GateInv, TypeOK
      <4> QED BY <3>2, <4>1, <4>2, <4>3, FailOpenAssumption DEF Blocks
    <3> QED BY <3>1, <3>2
  <2>3. DecidedHasVerdict'
    BY <1>6 DEF Log, GateInv, TypeOK, DecidedHasVerdict
  <2> QED BY <2>1, <2>2, <2>3 DEF GateInv
<1>7. ASSUME NEW s \in Session, DeleteSession(s) PROVE GateInv'
  BY <1>7
     DEF DeleteSession, callVars, GateInv, TypeOK, AllSessionsKnown, NoReviewOfReview,
         RunsAreCleared, DecidedHasVerdict
<1> QED BY <1>1, <1>2, <1>3, <1>4, <1>5, <1>6, <1>7 DEF Next

\* So it always holds.
LEMMA GateAlways == Spec => []GateInv
  BY GateInit, GateStep, PTL DEF Spec

-----------------------------------------------------------------------------
\* Every variable of the gate keeps to its range.
THEOREM TypeCorrect == Spec => []TypeOK
<1>1. GateInv => TypeOK
  BY DEF GateInv
<1> QED BY <1>1, GateAlways, PTL

\* The tool calls of a review session are never reviewed.
THEOREM NoRecursionCorrect == Spec => []NoReviewOfReview
<1>1. GateInv => NoReviewOfReview
  BY DEF GateInv
<1> QED BY <1>1, GateAlways, PTL

\* Only cleared commands run, and failing open is the one exception.
THEOREM ClearedCorrect == Spec => []RunsAreCleared
<1>1. GateInv => RunsAreCleared
  BY DEF GateInv
<1> QED BY <1>1, GateAlways, PTL

\* A late answer never changes a decision.
THEOREM LateVerdictCorrect == Spec => LateVerdictIsIgnored
<1> DEFINE Ignored == \A c \in Call : verdict'[c] \notin {verdict[c], "none"} => hook[c] = "reviewing"
<1>1. ASSUME GateInv, [Next]_vars PROVE [Ignored]_vars
  <2> SUFFICES ASSUME Next, NEW d \in Call, verdict'[d] \notin {verdict[d], "none"}
               PROVE  hook[d] = "reviewing"
    BY <1>1
  <2>1. verdict \in [Call -> {"none", "allow", "block", "unclear", "error"}]
    BY <1>1 DEF GateInv, TypeOK
  <2>2. \A c \in Call : Begin(c) => hook[d] = "reviewing"
    BY <2>1 DEF Begin
  <2>3. \A c \in Call : Created(c) \/ Answered(c) => hook[d] = "reviewing"
    BY <2>1 DEF Created, Answered, ReviewOver
  <2>4. \A c \in Call : TimedOut(c) \/ Log(c) => hook[d] = "reviewing"
    BY <2>1 DEF TimedOut, Log
  <2>5. \A s \in Session : DeleteSession(s) => hook[d] = "reviewing"
    BY <2>1 DEF DeleteSession, callVars
  <2> QED BY <2>2, <2>3, <2>4, <2>5 DEF Next
<1> QED BY <1>1, GateAlways, PTL DEF Spec, LateVerdictIsIgnored

-----------------------------------------------------------------------------
(***************************************************************************)
(* The gate implements GatedCall: whatever becomes of sessions, prompts and  *)
(* timers, a call sees one ruling or is the reviewer's own.                 *)
(***************************************************************************)
\* How a call begins.
LEMMA BeginIsGated == ASSUME GateInv, NEW c \in Call, Begin(c) PROVE Gated!Next
<1>1. PICK o \in Origin :
        /\ origin' = [origin EXCEPT ![c] = o]
        /\ verdict' = [verdict EXCEPT ![c] = "none"]
        /\ \/ o \in known /\ hook' = [hook EXCEPT ![c] = "ran"]
           \/ o \notin known /\ hook' = [hook EXCEPT ![c] = "reviewing"]
  BY DEF Begin, IsReviewSession
<1>2. o \in Elsewhere \/ o \in known
  BY DEF Origin, Shown, Elsewhere, GateInv, AllSessionsKnown
<1>3. hook[c] \in {"idle", "ran", "blocked"} /\ known' = known
  BY DEF Begin, Settled
<1>4. Gated!Pass(c) \/ Gated!Submit(c)
  BY <1>1, <1>2, <1>3 DEF Gated!Pass, Gated!Submit, Gated!Come
<1> QED BY <1>4 DEF Gated!Next

\* How a review ends: as a ruling, or as nothing.
LEMMA ReviewOverIsGated ==
    ASSUME NEW c \in Call, NEW v \in {"allow", "block", "unclear", "error"},
           ReviewOver(c, v), UNCHANGED <<known, origin>>
    PROVE  [Gated!Next]_Gated!gateVars
<1>1. CASE hook[c] = "reviewing"
  <2>1. Gated!Rule(c)
    BY <1>1 DEF ReviewOver, Gated!Rule
  <2> QED BY <2>1 DEF Gated!Next
<1>2. CASE hook[c] # "reviewing"
  BY <1>2 DEF ReviewOver, Gated!gateVars
<1> QED BY <1>1, <1>2

\* For any overlapping calls and sessions, each command is ruled on once, before it
\* is carried out, and is carried out as it was ruled, failing open or closed;
\* only what a review session asks for itself goes ahead without a ruling.
THEOREM GatedCallCorrect == Spec => ImplementsGatedCall
<1>1. Init => Gated!Init
  BY DEF Init, Gated!Init
<1>2. ASSUME GateInv, [Next]_vars PROVE [Gated!Next]_Gated!gateVars
  <2>1. CASE UNCHANGED vars
    BY <2>1 DEF vars, sessionVars, callVars, Gated!gateVars
  <2>2. ASSUME NEW c \in Call, Begin(c) PROVE Gated!Next
    BY <1>2, <2>2, BeginIsGated
  <2>3. ASSUME NEW c \in Call, Created(c) PROVE [Gated!Next]_Gated!gateVars
    <3>1. CASE /\ made < MaxSessions
               /\ known' = known \cup {made + 1}
               /\ UNCHANGED <<hook, verdict>>
      <4>1. made + 1 \in Session /\ UNCHANGED origin
        BY <1>2, <2>3, <3>1, MaxSessionsAssumption DEF GateInv, TypeOK, Session, Created
      <4>2. Gated!Hire
        BY <3>1, <4>1 DEF Gated!Hire
      <4> QED BY <4>2 DEF Gated!Next
    <3>2. CASE ReviewOver(c, "error") /\ UNCHANGED sessionVars
      BY <2>3, <3>2, ReviewOverIsGated DEF Created, sessionVars
    <3> QED BY <2>3, <3>1, <3>2 DEF Created
  <2>4. ASSUME NEW c \in Call, Answered(c) PROVE [Gated!Next]_Gated!gateVars
    BY <2>4, ReviewOverIsGated DEF Answered, sessionVars
  <2>5. ASSUME NEW c \in Call, TimedOut(c) PROVE Gated!Next
    BY <2>5 DEF TimedOut, sessionVars, Gated!Next, Gated!Rule
  <2>6. ASSUME NEW c \in Call, Log(c) PROVE Gated!Next
    <3>1. verdict[c] \in {"allow", "block", "unclear", "error"}
      BY <1>2, <2>6 DEF Log, GateInv, TypeOK, DecidedHasVerdict
    <3>2. Blocks(verdict[c]) <=> ~Gated!MayRun(verdict[c])
      BY <3>1, FailOpenAssumption DEF Blocks, Gated!MayRun
    <3>3. Gated!CarryOut(c)
      BY <2>6, <3>2 DEF Log, sessionVars, Gated!CarryOut
    <3> QED BY <3>3 DEF Gated!Next
  <2>7. ASSUME NEW s \in Session, DeleteSession(s) PROVE UNCHANGED Gated!gateVars
    BY <2>7 DEF DeleteSession, callVars, Gated!gateVars
  <2> QED BY <1>2, <2>1, <2>2, <2>3, <2>4, <2>5, <2>6, <2>7 DEF Next
<1> QED BY <1>1, <1>2, GateAlways, PTL DEF Spec, ImplementsGatedCall, Gated!Spec
=============================================================================
