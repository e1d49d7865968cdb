----------------------------- MODULE QueryServers -----------------------------
(***************************************************************************)
(* The two MCP servers that keep nothing between requests:                  *)
(* mcp-servers/oracle/server.js and mcp-servers/loki/server.js.  They share  *)
(* the HTTP shell; behind it oracle_query opens a connection of its own,    *)
(* executes, and closes it, and the Loki tools fetch.  What requests do     *)
(* share is the database: here, the lock of one row that all statements     *)
(* change, unless they only read; and the process, which one of them may     *)
(* end.  Rows, label values and log lines are abstracted to success.        *)
(***************************************************************************)
CONSTANTS
    SqlRequest,  \* requests that call oracle_query
    LogRequest,  \* requests that call a Loki tool
    Nobody       \* holds the row lock when no session does

Request == SqlRequest \cup LogRequest

ASSUME RequestAssumption ==
    /\ SqlRequest \cap LogRequest = {}
    /\ Nobody \notin Request

VARIABLES
    http,     \* "none", "handling", "answered", "refused", "failed", "dropped"
    call,     \* the tool handler: "none", "connecting", "executing", "closing",
              \* "fetching", "done", "lost"
    result,   \* what it ends with: "none", "success", "error" or "thrown"
    session,  \* the database session: "none", "open", "gone", "abandoned"
    stmt,     \* the statement in it: "none", "selected", "changed", "committed",
              \* "uncommitted", "rejected", "undone"
    holder    \* whose session holds the row lock

toolVars == <<call, result>>
dbVars == <<session, stmt, holder>>
vars == <<http, toolVars, dbVars>>

Init ==
    /\ http = [r \in Request |-> "none"]
    /\ call = [r \in Request |-> "none"]
    /\ result = [r \in Request |-> "none"]
    /\ session = [r \in Request |-> "none"]
    /\ stmt = [r \in Request |-> "none"]
    /\ holder = Nobody

Status(r, s) == http' = [http EXCEPT ![r] = s]
Goto(r, label) == call' = [call EXCEPT ![r] = label]
Return(r, res) == result' = [result EXCEPT ![r] = res]

(***************************************************************************)
(* The HTTP shell: a fresh MCP server and transport for each request, which *)
(* live exactly while its response is open.                                *)
(***************************************************************************)
\* 404 and 405 are answered at once.
Receive(r) ==
    /\ http[r] = "none"
    /\ \E s \in {"refused", "handling"} : Status(r, s)
    /\ UNCHANGED <<toolVars, dbVars>>

SameServer(q, r) == q \in SqlRequest <=> r \in SqlRequest

\* The handlers at work in the process that r's request reaches.
HandledWith(r) ==
    {q \in Request : /\ SameServer(q, r)
                     /\ q = r \/ http[q] \in {"handling", "dropped"}
                     /\ call[q] # "done"}

\* A URL or Host header that does not parse is thrown before the try block.  As
\* nothing awaits the handler, that ends the process with all it was working on;
\* the database is left with sessions nobody uses.  Nothing was kept between
\* requests, so those that come later find a server as good as the old, once it is
\* started again.
EndServer(r) ==
    /\ http[r] = "none"
    /\ LET lost == HandledWith(r) IN
         /\ http' = [q \in Request |->
              IF q = r \/ (http[q] = "handling" /\ SameServer(q, r)) THEN "dropped" ELSE http[q]]
         /\ call' = [q \in Request |-> IF q \in lost THEN "lost" ELSE call[q]]
         /\ session' = [q \in Request |->
              IF q \in lost /\ session[q] = "open" THEN "abandoned" ELSE session[q]]
    /\ UNCHANGED <<result, stmt, holder>>

\* Mutant of StatusOnError: the error is logged, and that is all.
LoggedOnly(r) == Status(r, "handling")

\* 500, as no headers have been sent.
StatusOnError(r) == Status(r, "failed")

\* connect() or handleRequest() rejects before a tool is called.
HandleFails(r) ==
    /\ http[r] = "handling"
    /\ call[r] = "none"
    /\ StatusOnError(r)
    /\ Goto(r, "done")
    /\ UNCHANGED <<result, dbVars>>

\* The transport turns a body down itself, and what calls no tool (initialize,
\* the list of tools) is answered at once.
AnsweredWithoutTool(r) ==
    /\ http[r] = "handling"
    /\ call[r] = "none"
    /\ \E s \in {"refused", "answered"} : Status(r, s)
    /\ Goto(r, "done")
    /\ UNCHANGED <<result, dbVars>>

\* The handler's result, or its exception as a protocol error, is sent, if somebody is still there.
Answer(r) ==
    /\ http[r] = "handling"
    /\ call[r] = "done" /\ result[r] # "none"
    /\ Status(r, "answered")
    /\ UNCHANGED <<toolVars, dbVars>>

\* The client goes away.  The response closes and takes the transport with it;
\* a handler that is running is not told.
Disconnect(r) ==
    /\ http[r] = "handling"
    /\ Status(r, "dropped")
    /\ UNCHANGED <<toolVars, dbVars>>

\* The tool handler starts: an unknown tool or a missing argument is an error
\* result; an address that the base URL or a label does not make is thrown, as
\* lokiFetch() only catches from its fetch on; otherwise the query begins.
CallTool(r) ==
    /\ http[r] = "handling"
    /\ call[r] = "none"
    /\ \/ Goto(r, "done") /\ Return(r, "error")
       \/ r \in LogRequest /\ Goto(r, "done") /\ Return(r, "thrown")
       \/ /\ Goto(r, IF r \in SqlRequest THEN "connecting" ELSE "fetching")
          /\ result' = result
    /\ UNCHANGED <<http, dbVars>>

(***************************************************************************)
(* lokiFetch(): a network error, a status that is not 2xx and a body that   *)
(* does not parse are error results.  A success is made into text outside    *)
(* any try block, which throws when the text would be too long.             *)
(***************************************************************************)
Fetched(r) ==
    /\ call[r] = "fetching"
    /\ Goto(r, "done")
    /\ \E res \in {"success", "error", "thrown"} : Return(r, res)
    /\ UNCHANGED <<http, dbVars>>

(***************************************************************************)
(* executeQuery().                                                         *)
(***************************************************************************)
\* Mutant of Refused: getConnection() outside the try block, as it once was.
Thrown == "thrown"

\* What a connection that can not be made comes to.
Refused == "error"

Connect(r) ==
    /\ call[r] = "connecting"
    /\ \/ /\ session' = [session EXCEPT ![r] = "open"]
          /\ Goto(r, "executing")
          /\ result' = result
       \/ Goto(r, "done") /\ Return(r, Refused) /\ session' = session
    /\ UNCHANGED <<http, stmt, holder>>

\* Mutant of AfterError: an error returns at once, without the finally block.
ReturnAtOnce == "done"

AfterError == "closing"

\* connection.execute() returns what the database made of the statement, or
\* fails with the session; either way the connection is closed next.
Executed(r) ==
    /\ call[r] = "executing"
    /\ \/ /\ session[r] = "open"
          /\ stmt[r] \in {"selected", "committed", "uncommitted"}
          /\ Return(r, "success")
          /\ Goto(r, "closing")
       \/ /\ session[r] = "gone" \/ stmt[r] = "rejected"
          /\ Return(r, "error")
          /\ Goto(r, AfterError)
    /\ UNCHANGED <<http, dbVars>>

\* The end of a session undoes what it has not committed, and frees the row.
EndSession(r, how) ==
    /\ session' = [session EXCEPT ![r] = how]
    /\ stmt' = [stmt EXCEPT ![r] = IF @ \in {"changed", "uncommitted"} THEN "undone" ELSE @]
    /\ holder' = IF holder = r THEN Nobody ELSE holder

\* JSON.stringify() of rows throws: a Lob or a cursor in them is circular, or the
\* text too long.  What a change or an error returns it always takes.
CanThrow(r) == result[r] = "success" /\ stmt[r] = "selected"

\* connection.close() ends the session, or fails, which is only logged: then
\* the database may still have the session.  The handler then makes the result
\* into text, outside executeQuery() and its try block.
Close(r) ==
    /\ call[r] = "closing"
    /\ Goto(r, "done")
    /\ \/ EndSession(r, "gone")
       \/ /\ session' = [session EXCEPT ![r] = IF @ = "gone" THEN "gone" ELSE "abandoned"]
          /\ UNCHANGED <<stmt, holder>>
    /\ result' = result \/ (CanThrow(r) /\ Return(r, "thrown"))
    /\ http' = http

(***************************************************************************)
(* The database.                                                           *)
(***************************************************************************)
\* The session works on its statement: for a call that waits for it, or that is
\* lost with its server.
AtWork(r) ==
    \/ call[r] = "executing" /\ session[r] = "open"
    \/ call[r] = "lost" /\ session[r] = "abandoned"

\* The statement reads rows; it waits for nobody.
Select(r) ==
    /\ AtWork(r)
    /\ stmt[r] = "none"
    /\ stmt' = [stmt EXCEPT ![r] = "selected"]
    /\ UNCHANGED <<http, toolVars, session, holder>>

\* It changes the row, once the row is free ...
Change(r) ==
    /\ AtWork(r)
    /\ stmt[r] = "none"
    /\ holder = Nobody
    /\ holder' = r
    /\ stmt' = [stmt EXCEPT ![r] = "changed"]
    /\ UNCHANGED <<http, toolVars, session>>

\* Mutant of AutoCommit: execute() without it.
NoAutoCommit(r) ==
    /\ stmt' = [stmt EXCEPT ![r] = "uncommitted"]
    /\ holder' = holder

\* autoCommit: true.
AutoCommit(r) ==
    /\ stmt' = [stmt EXCEPT ![r] = "committed"]
    /\ holder' = Nobody

\* ... and ends, with or without somebody to tell.
EndStatement(r) ==
    /\ session[r] \in {"open", "abandoned"}
    /\ stmt[r] = "changed"
    /\ AutoCommit(r)
    /\ UNCHANGED <<http, toolVars, session>>

\* The database refuses the statement.
Reject(r) ==
    /\ AtWork(r)
    /\ stmt[r] = "none"
    /\ stmt' = [stmt EXCEPT ![r] = "rejected"]
    /\ UNCHANGED <<http, toolVars, session, holder>>

\* A session is killed or its connection breaks.
Kill(r) ==
    /\ session[r] \in {"open", "abandoned"}
    /\ EndSession(r, "gone")
    /\ UNCHANGED <<http, toolVars>>

Next ==
    \/ \E r \in Request :
         \/ Receive(r) \/ EndServer(r) \/ HandleFails(r) \/ AnsweredWithoutTool(r) \/ Answer(r)
         \/ Disconnect(r) \/ CallTool(r)
    \/ \E r \in LogRequest : Fetched(r)
    \/ \E r \in SqlRequest :
         \/ Connect(r) \/ Executed(r) \/ Close(r)
         \/ Select(r) \/ Change(r) \/ EndStatement(r) \/ Reject(r) \/ Kill(r)

Spec == Init /\ [][Next]_vars

(***************************************************************************)
(* Fairness: the server's own steps, and a database and a Loki that end     *)
(* what they are asked, as the code sets no timeouts.                      *)
(***************************************************************************)
Fairness ==
    /\ \A r \in Request :
         /\ WF_vars(CallTool(r) \/ HandleFails(r) \/ AnsweredWithoutTool(r))
         /\ WF_vars(Answer(r))
    /\ \A r \in LogRequest : WF_vars(Fetched(r))
    /\ \A r \in SqlRequest :
         /\ WF_vars(Connect(r)) /\ WF_vars(Executed(r)) /\ WF_vars(Close(r))
         /\ WF_vars(Change(r)) /\ WF_vars(EndStatement(r))

FairSpec == Spec /\ Fairness

-----------------------------------------------------------------------------
(***************************************************************************)
(* Properties.                                                             *)
(***************************************************************************)
\* The values the variables range over.
TypeOK ==
    /\ http \in [Request -> {"none", "handling", "answered", "refused", "failed", "dropped"}]
    /\ call \in [Request -> {"none", "connecting", "executing", "closing", "fetching", "done", "lost"}]
    /\ result \in [Request -> {"none", "success", "error", "thrown"}]
    /\ session \in [Request -> {"none", "open", "gone", "abandoned"}]
    /\ stmt \in [Request ->
                   {"none", "selected", "changed", "committed", "uncommitted", "rejected", "undone"}]
    /\ holder \in Request \cup {Nobody}

\* A connection never outlives the call that made it, whatever fails in between
\* and whether or not the client is still there, except when close() fails or the
\* process ends.
SessionsEndWithTheirCalls ==
    \A r \in SqlRequest : session[r] = "open" => call[r] \in {"executing", "closing"}

\* A change reported as a success has taken effect for good: neither the close
\* of its connection nor a kill around it undoes it.
SuccessIsCommitted ==
    \A r \in SqlRequest : result[r] = "success" => stmt[r] \in {"selected", "committed"}

\* oracle_query answers what fails with an error result.  The one exception that
\* it lets out is about rows that were read: no change, made, refused or undone,
\* and no failure of a connection ends in a protocol error.
OnlyRowsAreThrown == \A r \in SqlRequest : result[r] = "thrown" => stmt[r] = "selected"

\* No call waits for a row of one that is over: the lock is only held while the
\* statement that took it runs, for a call in progress or a server that ended.
LocksEndWithTheirStatements ==
    holder # Nobody =>
        /\ stmt[holder] = "changed"
        /\ AtWork(holder)

\* Every request that was accepted is answered, unless its client goes or the
\* process ends under it.
AcceptedIsAnswered == \A r \in Request : http[r] = "handling" ~> http[r] # "handling"

-----------------------------------------------------------------------------
(***************************************************************************)
(* The inductive invariant: the stages of a call and of its statement.      *)
(***************************************************************************)
\* A statement runs in a session of a call that waits for it, or is lost with its
\* server; it holds the row while its change is not committed, and nothing leaves
\* it at that.
StatementsRunInCalls ==
    \A r \in SqlRequest :
        /\ stmt[r] \in {"changed", "uncommitted"} => holder = r
        /\ stmt[r] = "changed" => AtWork(r)
        /\ call[r] \in {"none", "connecting"} => session[r] = "none" /\ stmt[r] = "none"
        /\ stmt[r] # "uncommitted"

\* What holds the row has changed it.
HolderHasChanged == holder # Nobody => holder \in SqlRequest /\ stmt[holder] = "changed"

CallsInv ==
    /\ TypeOK
    /\ SessionsEndWithTheirCalls
    /\ SuccessIsCommitted
    /\ OnlyRowsAreThrown
    /\ StatementsRunInCalls
    /\ HolderHasChanged

-----------------------------------------------------------------------------
(***************************************************************************)
(* The safety in AcceptedIsAnswered: no path leaves a request that was        *)
(* accepted without a step ahead of it.                                     *)
(***************************************************************************)
\* A step of its own is possible: each disjunct is the guard of one.
CanGoOn(r) ==
    \/ call[r] = "none"                                                   \* CallTool
    \/ r \in SqlRequest /\ call[r] \in {"connecting", "closing"}            \* Connect, Close
    \/ r \in LogRequest /\ call[r] = "fetching"                            \* Fetched
    \/ call[r] = "done" /\ result[r] # "none"                             \* Answer
    \/ /\ r \in SqlRequest /\ call[r] = "executing"
       /\ \/ session[r] = "gone" \/ stmt[r] = "rejected"                   \* Executed
          \/ session[r] = "open" /\ stmt[r] \in {"selected", "committed"}  \* Executed
          \/ session[r] = "open" /\ stmt[r] = "changed"                    \* EndStatement
          \/ session[r] = "open" /\ stmt[r] = "none" /\ holder = Nobody    \* Change

\* It waits for the row, and the statement of its holder can end: no wait is for
\* a wait.
WaitsForRow(r) ==
    /\ r \in SqlRequest /\ call[r] = "executing" /\ session[r] = "open" /\ stmt[r] = "none"
    /\ holder \in SqlRequest \ {r}
    /\ stmt[holder] = "changed" /\ session[holder] \in {"open", "abandoned"}  \* EndStatement

\* Whatever failed on the way, and whoever holds the row, an open response has
\* somebody who will end it.
NoRequestIsStuck == \A r \in Request : http[r] = "handling" => CanGoOn(r) \/ WaitsForRow(r)

\* What it follows from beside CallsInv: the handlers keep to their stages.
HandlersKeepStages ==
    \A r \in Request :
        /\ call[r] \in {"connecting", "executing", "closing"} => r \in SqlRequest
        /\ call[r] = "fetching" => r \in LogRequest
        /\ call[r] = "closing" => result[r] # "none"
        /\ call[r] = "done" => result[r] # "none" \/ http[r] \in {"answered", "refused", "failed"}
        /\ call[r] # "none" => http[r] # "none"
        /\ call[r] = "lost" => http[r] # "handling"
        /\ call[r] = "executing" => session[r] \in {"open", "gone"}
        /\ stmt[r] = "undone" => session[r] = "gone"

\* A result is the end of the work on it.
NoResultYet ==
    \A r \in SqlRequest : call[r] \in {"none", "connecting", "executing"} => result[r] = "none"

-----------------------------------------------------------------------------
(***************************************************************************)
(* What oracle_query promises about its statement is a specification of its  *)
(* own.                                                                    *)
(***************************************************************************)
Effect(s) == IF s = "committed" THEN "lasting" ELSE IF s = "selected" THEN "read" ELSE "none"

\* What the call has come to, once it is over.
Outcome(q) == IF call[q] = "done" THEN result[q] ELSE "none"

Reported == INSTANCE ReportedQuery WITH
    Query <- SqlRequest,
    effect <- [q \in SqlRequest |-> Effect(stmt[q])],
    report <- [q \in SqlRequest |-> Outcome(q)]

ImplementsReportedQuery == Reported!Spec
=============================================================================
