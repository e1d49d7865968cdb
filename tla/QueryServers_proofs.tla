------------------------- MODULE QueryServers_proofs -------------------------
(***************************************************************************)
(* The safety of QueryServers, for any requests: CallsInv is inductive, and *)
(* so is, with it, that handlers keep to their stages.                      *)
(***************************************************************************)
EXTENDS QueryServers, TLAPS

\* The invariant without the types: what the steps of calls and sessions touch.
Stages ==
    /\ SessionsEndWithTheirCalls
    /\ SuccessIsCommitted
    /\ OnlyRowsAreThrown
    /\ StatementsRunInCalls
    /\ HolderHasChanged

\* Nothing has begun at first.
LEMMA CallsInit == Init => CallsInv
  BY RequestAssumption
  DEF Init, CallsInv, TypeOK, SessionsEndWithTheirCalls, SuccessIsCommitted,
      OnlyRowsAreThrown, StatementsRunInCalls, HolderHasChanged, Request

\* The types, after any step.
LEMMA TypeStep == TypeOK /\ [Next]_vars => TypeOK'
<1> SUFFICES ASSUME TypeOK, [Next]_vars PROVE TypeOK'
  OBVIOUS
<1> USE DEF TypeOK, Request
<1>1. CASE UNCHANGED vars
  BY <1>1 DEF vars, toolVars, dbVars
<1>2. ASSUME NEW r \in Request,
             Receive(r) \/ HandleFails(r) \/ AnsweredWithoutTool(r) \/ Answer(r) \/ Disconnect(r)
      PROVE TypeOK'
  BY <1>2
  DEF Receive, HandleFails, StatusOnError, AnsweredWithoutTool, Answer, Disconnect, Status,
      Goto, toolVars, dbVars
<1>3. ASSUME NEW r \in Request, CallTool(r) PROVE TypeOK'
  BY <1>3, RequestAssumption DEF CallTool, Goto, Return, dbVars
<1>4. ASSUME NEW r \in LogRequest, Fetched(r) PROVE TypeOK'
  BY <1>4 DEF Fetched, Goto, Return, dbVars
<1>5. ASSUME NEW r \in SqlRequest, Connect(r) \/ Executed(r) PROVE TypeOK'
  BY <1>5 DEF Connect, Executed, AfterError, Refused, Goto, Return, dbVars
<1>6. ASSUME NEW r \in SqlRequest, Close(r) \/ Kill(r) PROVE TypeOK'
  BY <1>6 DEF Close, CanThrow, Kill, EndSession, Goto, Return, toolVars
<1>7. ASSUME NEW r \in SqlRequest, Select(r) \/ Change(r) \/ EndStatement(r) \/ Reject(r)
      PROVE  TypeOK'
  BY <1>7 DEF Select, Change, EndStatement, AutoCommit, Reject, toolVars
<1>8. ASSUME NEW r \in Request, EndServer(r) PROVE TypeOK'
  BY <1>8 DEF EndServer
<1> QED BY <1>1, <1>2, <1>3, <1>4, <1>5, <1>6, <1>7, <1>8 DEF Next

\* The stages of calls and statements, after any step.
LEMMA StageStep == CallsInv /\ [Next]_vars => Stages'
<1> SUFFICES ASSUME CallsInv, [Next]_vars PROVE Stages'
  OBVIOUS
<1> USE RequestAssumption
    DEF CallsInv, TypeOK, Request, Stages, SessionsEndWithTheirCalls, SuccessIsCommitted,
        OnlyRowsAreThrown, StatementsRunInCalls, HolderHasChanged, AtWork
<1>1. CASE UNCHANGED vars
  BY <1>1 DEF vars, toolVars, dbVars
<1>2. ASSUME NEW r \in Request, Receive(r) \/ Answer(r) \/ Disconnect(r) PROVE Stages'
  BY <1>2 DEF Receive, Answer, Disconnect, toolVars, dbVars
<1>3. ASSUME NEW r \in Request, HandleFails(r) \/ AnsweredWithoutTool(r) PROVE Stages'
  BY <1>3 DEF HandleFails, AnsweredWithoutTool, Goto, dbVars
<1>4. ASSUME NEW r \in Request, CallTool(r) PROVE Stages'
  BY <1>4 DEF CallTool, Goto, Return, dbVars
<1>5. ASSUME NEW r \in LogRequest, Fetched(r) PROVE Stages'
  BY <1>5 DEF Fetched, Goto, Return, dbVars
<1>6. ASSUME NEW r \in SqlRequest, Connect(r) PROVE Stages'
  BY <1>6 DEF Connect, Refused, Goto, Return
<1>7. ASSUME NEW r \in SqlRequest, Executed(r) PROVE Stages'
  BY <1>7 DEF Executed, AfterError, Goto, Return, dbVars
<1>8. ASSUME NEW r \in SqlRequest, Close(r) PROVE Stages'
  BY <1>8 DEF Close, CanThrow, EndSession, Goto, Return
<1>9. ASSUME NEW r \in SqlRequest, Kill(r) PROVE Stages'
  BY <1>9 DEF Kill, EndSession, toolVars
<1>10. ASSUME NEW r \in SqlRequest, Select(r) \/ Change(r) PROVE Stages'
  BY <1>10 DEF Select, Change, toolVars
<1>11. ASSUME NEW r \in SqlRequest, EndStatement(r) \/ Reject(r) PROVE Stages'
  BY <1>11 DEF EndStatement, AutoCommit, Reject, toolVars
<1>12. ASSUME NEW r \in Request, EndServer(r) PROVE Stages'
  BY <1>12 DEF EndServer, HandledWith
<1> QED BY <1>1, <1>2, <1>3, <1>4, <1>5, <1>6, <1>7, <1>8, <1>9, <1>10, <1>11, <1>12 DEF Next

\* So the invariant always holds.
LEMMA CallsAlways == Spec => []CallsInv
<1>1. CallsInv /\ [Next]_vars => CallsInv'
  BY TypeStep, StageStep DEF CallsInv, Stages
<1> QED BY CallsInit, <1>1, PTL DEF Spec

-----------------------------------------------------------------------------
\* For any requests, failures and ends of the process: a protocol error out of
\* oracle_query is only made of rows that were read, never of a change, whether it
\* was made, refused or undone, nor of a lost connection.
THEOREM ProtocolErrorsCorrect == Spec => []OnlyRowsAreThrown
<1>1. CallsInv => OnlyRowsAreThrown
  BY DEF CallsInv
<1> QED BY CallsAlways, <1>1, PTL

\* No connection outlives its call, unless its close failed or the process ended.
THEOREM SessionsCorrect == Spec => []SessionsEndWithTheirCalls
<1>1. CallsInv => SessionsEndWithTheirCalls
  BY DEF CallsInv
<1> QED BY CallsAlways, <1>1, PTL

\* What was reported as a success has been committed and stays so.
THEOREM CommitCorrect == Spec => []SuccessIsCommitted
<1>1. CallsInv => SuccessIsCommitted
  BY DEF CallsInv
<1> QED BY CallsAlways, <1>1, PTL

\* Nobody waits for the row of a call that is over.
THEOREM LocksCorrect == Spec => []LocksEndWithTheirStatements
<1>1. CallsInv => LocksEndWithTheirStatements
  BY DEF CallsInv, HolderHasChanged, StatementsRunInCalls, LocksEndWithTheirStatements
<1> QED BY CallsAlways, <1>1, PTL

-----------------------------------------------------------------------------
(***************************************************************************)
(* That no accepted request is left without a step that goes on with it.     *)
(***************************************************************************)
\* The stages of the handlers, after any step.
LEMMA HandlersStep == CallsInv /\ HandlersKeepStages /\ [Next]_vars => HandlersKeepStages'
<1> SUFFICES ASSUME CallsInv, HandlersKeepStages, [Next]_vars PROVE HandlersKeepStages'
  OBVIOUS
<1> USE RequestAssumption DEF HandlersKeepStages, Request, AtWork
<1> TypeOK /\ Stages
  BY DEF CallsInv, Stages
<1>1. CASE UNCHANGED vars
  BY <1>1 DEF vars, toolVars, dbVars
<1>2. ASSUME NEW r \in Request, Receive(r) \/ Disconnect(r) \/ Answer(r) PROVE HandlersKeepStages'
  BY <1>2 DEF TypeOK, Receive, Disconnect, Answer, Status, toolVars, dbVars
<1>3. ASSUME NEW r \in Request, HandleFails(r) \/ AnsweredWithoutTool(r)
      PROVE  HandlersKeepStages'
  BY <1>3 DEF TypeOK, HandleFails, StatusOnError, AnsweredWithoutTool, Status, Goto, dbVars
<1>4. ASSUME NEW r \in Request, CallTool(r) PROVE HandlersKeepStages'
  BY <1>4 DEF TypeOK, CallTool, Goto, Return, dbVars
<1>5. ASSUME NEW r \in LogRequest, Fetched(r) PROVE HandlersKeepStages'
  BY <1>5 DEF TypeOK, Fetched, Goto, Return, dbVars
<1>6. ASSUME NEW r \in SqlRequest, Connect(r) PROVE HandlersKeepStages'
  BY <1>6 DEF TypeOK, Stages, StatementsRunInCalls, Connect, Refused, Goto, Return
<1>7. ASSUME NEW r \in SqlRequest, Executed(r) PROVE HandlersKeepStages'
  BY <1>7 DEF TypeOK, Executed, AfterError, Goto, Return, dbVars
<1>8. ASSUME NEW r \in SqlRequest, Close(r) PROVE HandlersKeepStages'
  BY <1>8 DEF TypeOK, Close, CanThrow, EndSession, Goto, Return
<1>9. ASSUME NEW r \in SqlRequest, Kill(r) PROVE HandlersKeepStages'
  BY <1>9 DEF TypeOK, Kill, EndSession, toolVars
<1>10. ASSUME NEW r \in SqlRequest, Select(r) \/ Change(r) \/ EndStatement(r) \/ Reject(r)
       PROVE  HandlersKeepStages'
  BY <1>10 DEF TypeOK, Select, Change, EndStatement, AutoCommit, Reject, toolVars
<1>11. ASSUME NEW r \in Request, EndServer(r) PROVE HandlersKeepStages'
  BY <1>11 DEF TypeOK, EndServer, HandledWith, SameServer
<1> QED BY <1>1, <1>2, <1>3, <1>4, <1>5, <1>6, <1>7, <1>8, <1>9, <1>10, <1>11 DEF Next

\* For any requests and failures: an open response has a step ahead, or waits for
\* the row of a statement that has.
THEOREM NotStuckCorrect == Spec => []NoRequestIsStuck
<1>1. Init => HandlersKeepStages
  BY DEF Init, HandlersKeepStages
<1>2. CallsInv /\ HandlersKeepStages => NoRequestIsStuck
  <2> SUFFICES ASSUME CallsInv, HandlersKeepStages,
                      NEW r \in Request, http[r] = "handling", ~CanGoOn(r)
               PROVE  WaitsForRow(r)
    BY DEF NoRequestIsStuck
  <2>1. r \in SqlRequest /\ call[r] = "executing"
    BY DEF HandlersKeepStages, CallsInv, TypeOK, CanGoOn
  <2>2. session[r] = "open"
    BY <2>1 DEF HandlersKeepStages, CanGoOn
  <2>3. stmt[r] = "none" /\ holder # Nobody
    BY <2>1, <2>2 DEF HandlersKeepStages, CallsInv, TypeOK, StatementsRunInCalls, CanGoOn
  <2>4. /\ holder \in SqlRequest /\ stmt[holder] = "changed"
        /\ session[holder] \in {"open", "abandoned"}
    BY <2>3 DEF CallsInv, HolderHasChanged, StatementsRunInCalls, AtWork
  <2>5. holder # r
    BY <2>3, <2>4
  <2> QED BY <2>1, <2>2, <2>3, <2>4, <2>5 DEF WaitsForRow
<1> QED BY <1>1, <1>2, HandlersStep, CallsAlways, PTL DEF Spec

-----------------------------------------------------------------------------
(***************************************************************************)
(* oracle_query implements ReportedQuery.                                  *)
(***************************************************************************)
\* A call has no result before its work is over.
LEMMA NoResultStep == CallsInv /\ NoResultYet /\ [Next]_vars => NoResultYet'
<1> SUFFICES ASSUME CallsInv, NoResultYet, [Next]_vars PROVE NoResultYet'
  OBVIOUS
<1> USE RequestAssumption DEF NoResultYet, Request, TypeOK
<1> TypeOK
  BY DEF CallsInv
<1>1. CASE UNCHANGED vars
  BY <1>1 DEF vars, toolVars
<1>2. ASSUME NEW r \in Request,
             \/ Receive(r) \/ HandleFails(r) \/ AnsweredWithoutTool(r) \/ Answer(r)
             \/ Disconnect(r) \/ CallTool(r) \/ EndServer(r)
      PROVE  NoResultYet'
  BY <1>2 DEF EndServer, Receive, HandleFails, AnsweredWithoutTool, Answer, Disconnect, CallTool,
              Goto, Return, toolVars
<1>3. ASSUME NEW r \in LogRequest, Fetched(r) PROVE NoResultYet'
  BY <1>3 DEF Fetched, Goto, Return
<1>4. ASSUME NEW r \in SqlRequest, Connect(r) \/ Executed(r) \/ Close(r) PROVE NoResultYet'
  BY <1>4 DEF Connect, Executed, Close, CanThrow, AfterError, Goto, Return
<1>5. ASSUME NEW r \in SqlRequest, Select(r) \/ Change(r) \/ EndStatement(r) \/ Reject(r) \/ Kill(r)
      PROVE  NoResultYet'
  BY <1>5 DEF Select, Change, EndStatement, Reject, Kill, toolVars
<1> QED BY <1>1, <1>2, <1>3, <1>4, <1>5 DEF Next

\* What the step of a request does to the statements and outcomes of all of them.
Effects(r) ==
    /\ Effect(stmt[r]) = "none" /\ call[r] # "done"
    /\ \E s \in {"selected", "committed"} : stmt' = [stmt EXCEPT ![r] = s]
    /\ UNCHANGED toolVars

Ends(r) ==
    /\ call[r] # "done"
    /\ call' = [call EXCEPT ![r] = "done"]
    /\ \E what \in {"success", "error", "thrown"} :
         /\ what = "success" => Effect(stmt[r]) # "none"
         /\ what = "thrown" => Effect(stmt[r]) = "read"
         /\ result' = [result EXCEPT ![r] = what]
    /\ \A q \in SqlRequest : Effect(stmt'[q]) = Effect(stmt[q])

SaysNothing ==
    \A q \in SqlRequest : Effect(stmt'[q]) = Effect(stmt[q]) /\ Outcome(q)' = Outcome(q)

\* Closing the connection is the end of a call that executed.
LEMMA CloseEnds ==
    ASSUME CallsInv, HandlersKeepStages, NEW r \in SqlRequest, Close(r)
    PROVE  Ends(r)
<1> USE RequestAssumption DEF Request, CallsInv, TypeOK
<1>1. call[r] = "closing" /\ call' = [call EXCEPT ![r] = "done"]
  BY DEF Close, Goto
<1>2. \A q \in SqlRequest : Effect(stmt'[q]) = Effect(stmt[q])
  BY DEF Close, EndSession, Effect
<1>3. CASE result' = result
  <2>1. result' = [result EXCEPT ![r] = result[r]]
    BY <1>3
  <2>2. result[r] \in {"success", "error", "thrown"}
    BY <1>1 DEF HandlersKeepStages
  <2>3. /\ result[r] = "success" => Effect(stmt[r]) # "none"
        /\ result[r] = "thrown" => Effect(stmt[r]) = "read"
    BY DEF SuccessIsCommitted, OnlyRowsAreThrown, Effect
  <2> QED BY <1>1, <1>2, <2>1, <2>2, <2>3 DEF Ends
<1>4. CASE CanThrow(r) /\ Return(r, "thrown")
  BY <1>1, <1>2, <1>4 DEF CanThrow, Return, Effect, Ends
<1> QED BY <1>3, <1>4 DEF Close

\* There are no other steps.
LEMMA QuerySteps ==
    ASSUME CallsInv, HandlersKeepStages, NoResultYet, [Next]_vars
    PROVE  (\E r \in SqlRequest : Effects(r) \/ Ends(r)) \/ SaysNothing
<1> TypeOK
  BY DEF CallsInv
<1> USE RequestAssumption DEF Request, TypeOK, Outcome
<1>1. CASE UNCHANGED vars
  BY <1>1 DEF vars, toolVars, dbVars, SaysNothing
<1>2. ASSUME NEW r \in Request, Receive(r) \/ Answer(r) \/ Disconnect(r)
      PROVE  SaysNothing
  BY <1>2 DEF Receive, Answer, Disconnect, toolVars, dbVars, SaysNothing
<1>3. ASSUME NEW r \in Request, HandleFails(r) \/ AnsweredWithoutTool(r)
      PROVE  SaysNothing
  BY <1>3 DEF HandleFails, AnsweredWithoutTool, Goto, dbVars, NoResultYet, SaysNothing
<1>4. ASSUME NEW r \in Request, EndServer(r) PROVE SaysNothing
  BY <1>4 DEF EndServer, HandledWith, SaysNothing
<1>5. ASSUME NEW r \in Request, CallTool(r)
      PROVE  (r \in SqlRequest /\ Ends(r)) \/ SaysNothing
  <2>1. stmt' = stmt
    BY <1>5 DEF CallTool, dbVars
  <2>2. CASE r \in LogRequest
    BY <1>5, <2>1, <2>2 DEF CallTool, Goto, Return, SaysNothing
  <2>3. CASE r \in SqlRequest
    BY <1>5, <2>1, <2>3 DEF CallTool, Goto, Return, SaysNothing, Ends
  <2> QED BY <2>2, <2>3
<1>6. ASSUME NEW r \in LogRequest, Fetched(r) PROVE SaysNothing
  BY <1>6 DEF Fetched, Goto, Return, dbVars, SaysNothing
<1>7. ASSUME NEW r \in SqlRequest, Connect(r) PROVE Ends(r) \/ SaysNothing
  BY <1>7 DEF Connect, Refused, Goto, Return, Ends, SaysNothing
<1>8. ASSUME NEW r \in SqlRequest, Executed(r) PROVE SaysNothing
  BY <1>8 DEF Executed, AfterError, Goto, Return, dbVars, SaysNothing
<1>9. ASSUME NEW r \in SqlRequest, Select(r) \/ EndStatement(r) PROVE Effects(r)
  BY <1>9 DEF Select, EndStatement, AutoCommit, AtWork, Effect, toolVars, Effects, CallsInv,
              StatementsRunInCalls
<1>10. ASSUME NEW r \in SqlRequest, Change(r) \/ Reject(r) \/ Kill(r) PROVE SaysNothing
  BY <1>10 DEF Change, Reject, Kill, EndSession, Effect, toolVars, SaysNothing
<1> QED BY <1>1, <1>2, <1>3, <1>4, <1>5, <1>6, <1>7, <1>8, <1>9, <1>10, CloseEnds DEF Next

\* For any requests, row locks, lost connections, clients that go away and ends of
\* the process: a statement takes effect at most once, for good and before its call
\* reports anything; success is only reported of one that did, and a protocol error
\* only of one that read.
THEOREM ReportedQueryCorrect == Spec => ImplementsReportedQuery
<1> DEFINE done == [q \in SqlRequest |-> Effect(stmt[q])]
           told == [q \in SqlRequest |-> Outcome(q)]
<1>1. Init => Reported!Init /\ NoResultYet /\ HandlersKeepStages
  BY DEF Init, Reported!Init, NoResultYet, HandlersKeepStages, Request, Effect, Outcome
<1>2. ASSUME CallsInv, HandlersKeepStages, NoResultYet, [Next]_vars
      PROVE  [Reported!Next]_<<done, told>>
  <2> TypeOK
    BY <1>2 DEF CallsInv
  <2>1. ASSUME NEW r \in SqlRequest, Effects(r) PROVE Reported!TakeEffect(r)
    <3>1. done[r] = "none" /\ told[r] = "none"
      BY <2>1 DEF Effects, Outcome
    <3>2. PICK s \in {"selected", "committed"} : stmt' = [stmt EXCEPT ![r] = s]
      BY <2>1 DEF Effects
    <3>3. \A q \in SqlRequest : stmt'[q] = IF q = r THEN s ELSE stmt[q]
      BY <3>2 DEF TypeOK, Request
    <3>4. Effect(s) \in {"read", "lasting"} /\ done' = [done EXCEPT ![r] = Effect(s)]
      BY <3>3 DEF Effect
    <3>5. told' = told
      BY <2>1 DEF Effects, toolVars, Outcome
    <3> QED BY <3>1, <3>4, <3>5 DEF Reported!TakeEffect
  <2>2. ASSUME NEW r \in SqlRequest, Ends(r)
        PROVE  Reported!Succeed(r) \/ Reported!Fail(r) \/ Reported!Throw(r)
    <3>1. PICK what \in {"success", "error", "thrown"} :
            /\ what = "success" => Effect(stmt[r]) # "none"
            /\ what = "thrown" => Effect(stmt[r]) = "read"
            /\ result' = [result EXCEPT ![r] = what]
      BY <2>2 DEF Ends
    <3>2. told[r] = "none" /\ done' = done
      BY <2>2 DEF Ends, Outcome
    <3>3. told' = [told EXCEPT ![r] = what]
      BY <2>2, <3>1 DEF Ends, Outcome, TypeOK, Request
    <3>4. Reported!Report(r, what)
      BY <3>2, <3>3 DEF Reported!Report
    <3> QED BY <3>1, <3>4 DEF Reported!Succeed, Reported!Fail, Reported!Throw
  <2>3. CASE SaysNothing
    BY <2>3 DEF SaysNothing
  <2> QED BY <1>2, <2>1, <2>2, <2>3, QuerySteps DEF Reported!Next
<1> QED BY <1>1, <1>2, HandlersStep, NoResultStep, CallsAlways, PTL
        DEF Spec, ImplementsReportedQuery, Reported!Spec
=============================================================================
