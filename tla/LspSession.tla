------------------------------ MODULE LspSession ------------------------------
(***************************************************************************)
(* One language-server session: the LspClient object, the language server   *)
(* at the other end of the pipes, and the MCP tool calls of server.js that  *)
(* use the object concurrently.                                            *)
(*                                                                         *)
(* A step is a turn of the event loop: what runs between two real waits     *)
(* (readFile, a timer, an answer) is one action, as promise continuations   *)
(* run before the next callback.                                           *)
(***************************************************************************)
EXTENDS LanguageServer

VARIABLES
    disk,   \* the revision of each file on disk
    pc,     \* where each tool call is
    wants,  \* what it was called for: "query" or "diagnostics"
    uri,    \* the document it is about
    since,  \* the revision on disk when the call came in (history variable)
    text    \* the revision its readFile returned, 0 before

callVars == <<disk, pc, wants, uri, since, text>>
vars == <<clientVars, serverVars, callVars>>

Init ==
    /\ ClientInit
    /\ ServerInit
    /\ disk = [u \in Uri |-> 1]
    /\ pc = [c \in Call |-> "idle"]
    /\ wants = [c \in Call |-> "query"]
    /\ uri \in [Call -> Uri]
    /\ since = [c \in Call |-> 0]
    /\ text = [c \in Call |-> 0]

(***************************************************************************)
(* The tool calls.                                                         *)
(***************************************************************************)
Goto(c, label) == pc' = [pc EXCEPT ![c] = label]

\* A tool about a file: withOpenFile() as far as the readFile of syncFile(), or
\* the error of resolveFile() about a path outside the workspace.
BeginOnFile(c) ==
    /\ ClientReady
    /\ pc[c] = "idle"
    /\ Goto(c, "reading") \/ Goto(c, "returned")
    /\ since' = [since EXCEPT ![c] = disk[uri[c]]]
    /\ \E w \in {"query", "diagnostics"} : wants' = [wants EXCEPT ![c] = w]
    /\ UNCHANGED <<clientVars, serverVars, disk, uri, text>>

\* java_workspace_symbols, spring_workspace_symbols, spring_boot_structure: a
\* request, no file.
BeginSymbols(c) ==
    /\ ClientReady
    /\ pc[c] = "idle"
    /\ Goto(c, "asked")
    /\ wants' = [wants EXCEPT ![c] = "symbols"]
    /\ Request(c, <<>>)
    /\ UNCHANGED <<proc, dead, repliedTo, openDocs, diagnostics, stdout>>
    /\ UNCHANGED <<serverVars, disk, uri, since, text>>

\* readFile reads the disk in the thread pool, or fails.
Read(c) ==
    /\ Up /\ pc[c] = "reading"
    /\ \/ Goto(c, "read") /\ text' = [text EXCEPT ![c] = disk[uri[c]]]
       \/ Goto(c, "returned") /\ text' = text
    /\ UNCHANGED <<clientVars, serverVars, disk, wants, uri, since>>

\* The rest of syncFile() on a dead object: the version is already counted
\* when notify() throws, and the tool call returns the error.
SyncDead(c) ==
    /\ Up /\ pc[c] = "read"
    /\ dead
    /\ openDocs' = SyncedDocs(uri[c])
    /\ Goto(c, "returned")
    /\ UNCHANGED <<phase, host, proc, dead, nextId, pending, promise, repliedTo,
                   diagnostics, stdin, stdout>>
    /\ UNCHANGED <<serverVars, disk, wants, uri, since, text>>

\* The rest of syncFile(), and the request made with the uri it returns.
SyncAndAsk(c) ==
    /\ Up /\ pc[c] = "read"
    /\ wants[c] = "query"
    /\ ~dead
    /\ openDocs' = SyncedDocs(uri[c])
    /\ Request(c, <<SyncMessage(uri[c], text[c])>>)
    /\ Goto(c, "asked")
    /\ UNCHANGED <<proc, dead, repliedTo, diagnostics, stdout>>
    /\ UNCHANGED <<serverVars, disk, wants, uri, since, text>>

\* java_diagnostics / spring_diagnostics: sync, then wait for waitMs.
SyncAndPause(c) ==
    /\ Up /\ pc[c] = "read"
    /\ wants[c] = "diagnostics"
    /\ openDocs' = SyncedDocs(uri[c])
    /\ Send(<<SyncMessage(uri[c], text[c])>>)
    /\ Goto(c, "pausing")
    /\ UNCHANGED <<phase, proc, dead, nextId, pending, promise, repliedTo, diagnostics, stdout>>
    /\ UNCHANGED <<serverVars, disk, wants, uri, since, text>>

\* ... and return what was last published for the file: getDiagnostics().
Collect(c) ==
    /\ Up /\ pc[c] = "pausing"
    /\ Goto(c, "returned")
    /\ UNCHANGED <<clientVars, serverVars, disk, wants, uri, since, text>>

\* Somebody edits the file.
Edit(u) ==
    /\ Up
    /\ events < MaxEvents
    /\ events' = events + 1
    /\ disk' = [disk EXCEPT ![u] = @ + 1]
    /\ UNCHANGED <<clientVars, srvVersion, srvRev, asked, owed>>
    /\ UNCHANGED <<pc, wants, uri, since, text>>

ToolCall(c) ==
    \/ BeginOnFile(c)
    \/ BeginSymbols(c)
    \/ Read(c)
    \/ SyncDead(c)
    \/ SyncAndAsk(c)
    \/ SyncAndPause(c)
    \/ Collect(c)

ClientNext ==
    \/ Start
    \/ OnData
    \/ \E id \in DOMAIN pending : Timeout(id)
    \/ MarkDead
    \/ AskToShutDown

Next ==
    \/ ClientNext /\ UNCHANGED <<serverVars, callVars>>
    \/ ServerNext /\ UNCHANGED callVars
    \/ \E c \in Call : ToolCall(c)
    \/ \E u \in Uri : Edit(u)

Spec == Init /\ [][Next]_vars

(***************************************************************************)
(* Fairness: timers fire, file reads end, the events of the child and the   *)
(* data it wrote are delivered.  Nothing is assumed of the language server, *)
(* of when calls come in, of edits or of SIGTERM.                          *)
(***************************************************************************)
TimeoutOf(k) == \E id \in DOMAIN pending : pending[id] = k /\ Timeout(id)
GoOn(c) == Read(c) \/ SyncDead(c) \/ SyncAndAsk(c) \/ SyncAndPause(c) \/ Collect(c)

Fairness ==
    /\ \A k \in Asker :
         WF_vars(TimeoutOf(k) /\ UNCHANGED <<serverVars, callVars>>)
    /\ WF_vars(OnData /\ UNCHANGED <<serverVars, callVars>>)
    /\ WF_vars(MarkDead /\ UNCHANGED <<serverVars, callVars>>)
    /\ \A c \in Call : WF_vars(GoOn(c))

FairSpec == Spec /\ Fairness

-----------------------------------------------------------------------------
(***************************************************************************)
(* Properties.                                                             *)
(***************************************************************************)
ToServerMessage ==
    [type : {"request"}, id : Nat, for : Asker]
        \cup [type : {"initialized", "exit"}]
        \cup [type : {"didOpen", "didChange"}, uri : Uri, version : Nat, rev : Nat]
        \cup [type : {"result"}, id : Nat]

ToClientMessage ==
    [type : {"response"}, id : Nat, for : Asker, ok : BOOLEAN]
        \cup [type : {"publishDiagnostics"}, uri : Uri, rev : Nat]
        \cup [type : {"serverRequest"}, id : Nat]
        \cup [type : {"junk"}, trips : BOOLEAN]

\* The values the variables range over.
TypeOK ==
    /\ phase \in {"new", "starting", "ready", "failed"}
    /\ host \in {"up", "crashed", "exited"}
    /\ proc \in {"none", "running", "exited"}
    /\ dead \in BOOLEAN
    /\ nextId \in Nat \ {0}
    /\ DOMAIN pending \subseteq Nat
    /\ pending \in [DOMAIN pending -> Asker]
    /\ promise \in [Asker -> {"none", "waiting", "resolved", "failed"}]
    /\ repliedTo \in [Asker -> Asker \cup {NoAsker}]
    /\ openDocs \in [Uri -> Nat]
    /\ diagnostics \in [Uri -> Nat]
    /\ stdin \in Seq(ToServerMessage)
    /\ stdout \in Seq(ToClientMessage)
    /\ srvVersion \in [Uri -> Nat]
    /\ srvRev \in [Uri -> Nat]
    /\ asked \subseteq [id : Nat, for : Asker]
    /\ owed \subseteq Nat
    /\ events \in Nat
    /\ disk \in [Uri -> Nat]
    /\ pc \in [Call -> {"idle", "reading", "read", "asked", "pausing", "returned"}]
    /\ wants \in [Call -> {"query", "diagnostics", "symbols"}]
    /\ uri \in [Call -> Uri]
    /\ since \in [Call -> Nat]
    /\ text \in [Call -> Nat]

\* #markDead empties #pending for good: a request made or settled around the
\* death of the process can not leave an entry behind that nothing but its
\* 30 s timer would ever remove.
DeadMeansNothingPending == dead => pending = EmptyMap

\* A promise is unsettled exactly while its entry is in #pending.  An entry
\* dropped without settling its promise would hang a tool call for ever; one
\* kept after settling would let a late message settle it again.
UnsettledIsPending == \A k \in Asker : promise[k] = "waiting" <=> k \in Waiting(pending)

\* JSON-RPC correlation: a promise resolves to the answer to its own request,
\* however answers are reordered, late (after the timeout), or numbered like
\* a request of the server.
AnswersReachTheirAsker == \A k \in Asker : promise[k] = "resolved" => repliedTo[k] = k

\* Document sync, as the language server sees it: didOpen only for a document
\* it does not have, didChange only for one it has, and the versions of a
\* document count up by one, whatever tool calls overlap in readFile.
DocumentsInOrder ==
    stdin # <<>> =>
        LET m == Head(stdin) IN
          /\ m.type = "didOpen" => srvVersion[m.uri] = 0 /\ m.version = 1
          /\ m.type = "didChange" => srvVersion[m.uri] > 0 /\ m.version = srvVersion[m.uri] + 1

\* When a tool call's question is the next thing the server reads, the server
\* holds a text of the file no older than the file was when the call came in.
QueriesSeeFreshText ==
    stdin # <<>> =>
        LET m == Head(stdin) IN
          m.type = "request" /\ m.for \in Call /\ wants[m.for] = "query"
            => srvRev[uri[m.for]] >= since[m.for]

\* Nothing catches what is thrown in the "data" handler or by a write to the pipe,
\* and it ends the MCP server with all its calls.  While the language server
\* runs, only a message of a shape the handler does not expect does that: not an
\* answer that comes when nobody waits for it any more, nor a question of the
\* server's, nor any overlap of calls, timers and deaths.
CrashHasCause ==
    [][host = "up" /\ host' = "crashed" =>
         proc = "exited" \/ (stdout # <<>> /\ Head(stdout) = Junk(TRUE) /\ stdout' = Tail(stdout))]_vars

Returned(c) ==
    \/ pc[c] = "returned"
    \/ pc[c] = "asked" /\ promise[c] \in {"resolved", "failed"}

\* Every tool call returns: by an answer, an error, the timer or the death of
\* the process, unless the whole MCP server goes first.
CallsReturn == \A c \in Call : pc[c] # "idle" ~> (Returned(c) \/ host # "up")

Replied(n) == n \notin owed \/ \E i \in DOMAIN stdin : stdin[i] = ResultMessage(n)

\* A server that asks the client something is not left waiting for a reply.
ServerRequestsAreReplied ==
    \A n \in 1..MaxEvents : n \in owed ~> (Replied(n) \/ proc # "running" \/ host # "up")

-----------------------------------------------------------------------------
(***************************************************************************)
(* The inductive invariant behind the first three: ids are never used twice *)
(* and every message about a request, wherever it is, names the asker whose *)
(* entry has that id, if the entry is still there.                         *)
(***************************************************************************)
\* The object dies after its process, and has none before start().
DeathFollowsExit ==
    /\ phase = "new" => proc = "none"
    /\ dead => proc = "exited"

\* An asker that has not asked yet holds no promise.
NotYetAsked ==
    /\ phase = "new" => promise[Initialize] = "none"
    /\ \A c \in Call : pc[c] # "asked" => promise[c] = "none"

PendingIdsAreUsed == \A id \in DOMAIN pending : id < nextId

OneEntryEach == \A i, j \in DOMAIN pending : pending[i] = pending[j] => i = j

Belongs(id, k) == id < nextId /\ (id \in DOMAIN pending => pending[id] = k)

MessagesBelong ==
    /\ \A i \in DOMAIN stdin : stdin[i].type = "request" => Belongs(stdin[i].id, stdin[i].for)
    /\ \A q \in asked : Belongs(q.id, q.for)
    /\ \A i \in DOMAIN stdout : stdout[i].type = "response" => Belongs(stdout[i].id, stdout[i].for)

CorrelationInv ==
    /\ TypeOK
    /\ DeathFollowsExit
    /\ NotYetAsked
    /\ PendingIdsAreUsed
    /\ OneEntryEach
    /\ MessagesBelong
    /\ DeadMeansNothingPending
    /\ UnsettledIsPending
    /\ AnswersReachTheirAsker

-----------------------------------------------------------------------------
(***************************************************************************)
(* The inductive invariant behind DocumentsInOrder and QueriesSeeFreshText:  *)
(* what the pipe holds about a document counts up from what the server holds *)
(* to what the client has counted, and each question follows its text.       *)
(***************************************************************************)
\* Nobody uses the object before start(), and no call changes its mind.
CallsFollowStart ==
    /\ proc = "none" => phase = "new"
    /\ \A c \in Call : pc[c] # "idle" => phase # "new"
    /\ \A i \in DOMAIN stdin :
         stdin[i].type = "request" /\ stdin[i].for \in Call => pc[stdin[i].for] = "asked"

IsAbout(m, u) == m.type \in {"didOpen", "didChange"} /\ m.uri = u

\* The versions of u in the pipe q count up by one from v, and do not pass n.
CountsUp(q, u, v, n) ==
    \A i \in DOMAIN q : IsAbout(q[i], u) =>
        /\ q[i].version \in (v + 1)..n
        /\ q[i].type = "didOpen" <=> q[i].version = 1
        /\ \/ q[i].version = v + 1
           \/ \E j \in 1..(i - 1) : IsAbout(q[j], u) /\ q[j].version = q[i].version - 1
        /\ \A j \in 1..(i - 1) : IsAbout(q[j], u) => q[j].version < q[i].version

\* ... and come as far as n.
Reaches(q, u, v, n) == n = v \/ \E i \in DOMAIN q : IsAbout(q[i], u) /\ q[i].version = n

SyncsInOrder ==
    \A u \in Uri :
        /\ srvVersion[u] <= openDocs[u]
        /\ CountsUp(stdin, u, srvVersion[u], openDocs[u])
        /\ proc # "exited" => Reaches(stdin, u, srvVersion[u], openDocs[u])

\* A call reads a text of the file no older than it was when the call came in.
ReadsAreFresh ==
    \A c \in Call :
        /\ since[c] <= disk[uri[c]]
        /\ pc[c] = "read" => text[c] >= since[c]

IsQuery(m) == m.type = "request" /\ m.for \in Call /\ wants[m.for] = "query"

QuestionsFollowTheirText ==
    \A i \in DOMAIN stdin : IsQuery(stdin[i]) =>
        LET c == stdin[i].for IN
          IF i = 1 THEN srvRev[uri[c]] >= since[c]
                   ELSE IsAbout(stdin[i - 1], uri[c]) /\ stdin[i - 1].rev >= since[c]

SyncInv ==
    /\ TypeOK
    /\ DeathFollowsExit
    /\ CallsFollowStart
    /\ SyncsInOrder
    /\ ReadsAreFresh
    /\ QuestionsFollowTheirText

-----------------------------------------------------------------------------
(***************************************************************************)
(* What is proved besides: the safety part of the two liveness properties.   *)
(***************************************************************************)
\* A call in progress waits for its file read, its timer, its next turn, or the
\* entry in #pending that will settle its promise.
WaitsForSomething(c) ==
    \/ pc[c] \in {"reading", "pausing"}
    \/ pc[c] = "read" /\ wants[c] \in {"query", "diagnostics"}
    \/ pc[c] = "asked" /\ c \in Waiting(pending)

\* No tool call, and no start(), is left with nothing to wait for.
NoCallIsStuck ==
    /\ \A c \in Call : pc[c] # "idle" => Returned(c) \/ WaitsForSomething(c)
    /\ phase = "starting" => Initialize \in Waiting(pending)

\* A call that asked holds a promise, and one about a file keeps its purpose.
CallsKeepPurpose ==
    \A c \in Call :
        /\ pc[c] = "asked" => promise[c] # "none"
        /\ pc[c] \in {"reading", "read", "pausing"} => wants[c] \in {"query", "diagnostics"}

\* The safety part of ServerRequestsAreReplied: a question of the server's is
\* waiting to be read, or its reply is, as long as the server is there to read it.
Carries(pipe, m) == \E i \in DOMAIN pipe : pipe[i] = m

OwedIsOnItsWay ==
    /\ proc = "none" => owed = {}
    /\ proc = "running" =>
         \A n \in owed : Carries(stdout, ServerRequest(n)) \/ Carries(stdin, ResultMessage(n))

\* Before start() there is nothing to write and nothing to read.
QuietBeforeStart == proc = "none" => stdout = <<>> /\ pending = EmptyMap

-----------------------------------------------------------------------------
(***************************************************************************)
(* What request() promises, and the life of the object, are specifications  *)
(* of their own that the session implements.                               *)
(***************************************************************************)
Table == INSTANCE RequestTable WITH
    outcome <- [k \in Asker |-> IF k \in Waiting(pending) THEN "open" ELSE promise[k]],
    closed <- dead

ImplementsRequestTable == Table!Spec

Life == INSTANCE ClientLife WITH phase <- phase, proc <- proc, dead <- dead

ImplementsClientLife == Life!Spec
=============================================================================
