------------------------------ MODULE LspClient ------------------------------
(***************************************************************************)
(* The client side of one language-server session:                         *)
(* mcp-servers/java-lsp/lsp-client.js (spring-lsp holds the same file).     *)
(*                                                                         *)
(* This module has the object's fields, the child process it spawned and    *)
(* the two pipes between them, and one operator for each method and event   *)
(* handler.  LanguageServer is the other end of the pipes; LspSession adds  *)
(* the tool calls that use the object, and states the properties.           *)
(*                                                                         *)
(* Promises are identified by who asked: every asker issues one request,    *)
(* so promise[k] is the promise that request() returned to asker k.         *)
(* Document texts are abstracted to revision numbers, methods and results   *)
(* to the asker they belong to.                                            *)
(***************************************************************************)
EXTENDS Naturals, Sequences, FiniteSets

CONSTANTS
    Call,        \* the tool calls that use the session
    Initialize,  \* the asker of the "initialize" request: start()
    Shutdown,    \* the asker of the "shutdown" request: shutdown()
    NoAsker,     \* stands for "no answer yet"
    Uri          \* the documents

Asker == Call \cup {Initialize, Shutdown}

ASSUME AskerAssumption ==
    /\ Initialize \notin Call
    /\ Shutdown \notin Call
    /\ Initialize # Shutdown
    /\ NoAsker \notin Asker

VARIABLES
    phase,       \* start(): "new" -> "starting" -> "ready" or "failed"
    host,        \* the MCP server process: "up", "crashed" or "exited"
    proc,        \* #child: "none", "running" or "exited"
    dead,        \* #dead
    nextId,      \* #nextId
    pending,     \* #pending: a function from ids to the askers waiting
    promise,     \* what each asker holds: "none", "waiting", "resolved", "failed"
    repliedTo,   \* the asker whose question the value it resolved to answers
    openDocs,    \* #openDocs: the version of each document, 0 when not open
    diagnostics, \* #diagnostics: the text revision last published for, 0 if none
    stdin,       \* bytes on their way to the language server, as messages
    stdout       \* bytes on their way back

clientVars == <<phase, host, proc, dead, nextId, pending, promise, repliedTo,
                openDocs, diagnostics, stdin, stdout>>

(***************************************************************************)
(* The messages.                                                           *)
(***************************************************************************)
RequestMessage(id, k) == [type |-> "request", id |-> id, for |-> k]
Notification(method)  == [type |-> method]
OpenMessage(u, v, t)   == [type |-> "didOpen", uri |-> u, version |-> v, rev |-> t]
ChangeMessage(u, v, t) == [type |-> "didChange", uri |-> u, version |-> v, rev |-> t]
ResultMessage(id)      == [type |-> "result", id |-> id]

Response(id, k, ok)  == [type |-> "response", id |-> id, for |-> k, ok |-> ok]
Published(u, t)      == [type |-> "publishDiagnostics", uri |-> u, rev |-> t]
ServerRequest(id)    == [type |-> "serverRequest", id |-> id]
Junk(trips)          == [type |-> "junk", trips |-> trips]

(***************************************************************************)
(* The #pending map.                                                       *)
(***************************************************************************)
EmptyMap == [i \in {} |-> NoAsker]
Put(m, id, k) == [i \in DOMAIN m \cup {id} |-> IF i = id THEN k ELSE m[i]]

\* Mutant of Delete: #pending.set(id, undefined).
BlankEntry(m, id) == Put(m, id, NoAsker)

Delete(m, id) == [i \in DOMAIN m \ {id} |-> m[i]]
Waiting(m) == {m[i] : i \in DOMAIN m}

\* Every action needs the MCP server process; nothing happens after its end.
Up == host = "up"

\* getClient() hands out the object once start() has resolved.
ClientReady == Up /\ phase = "ready"

ClientInit ==
    /\ phase = "new" /\ host = "up" /\ proc = "none"
    /\ dead = FALSE
    /\ nextId = 1
    /\ pending = EmptyMap
    /\ promise = [k \in Asker |-> "none"]
    /\ repliedTo = [k \in Asker |-> NoAsker]
    /\ openDocs = [u \in Uri |-> 0]
    /\ diagnostics = [u \in Uri |-> 0]
    /\ stdin = <<>> /\ stdout = <<>>

(***************************************************************************)
(* #send.  It throws once the object is dead, so it has no step then.       *)
(* Until the exit event arrives a write can also meet a pipe that nobody    *)
(* reads any more: the bytes are lost, and as child.stdin has no "error"    *)
(* listener the EPIPE may be an uncaught exception.                         *)
(***************************************************************************)
Send(msgs) ==
    /\ ~dead
    /\ \/ /\ proc = "running"
          /\ stdin' = stdin \o msgs
          /\ host' = host
       \/ /\ proc # "running"
          /\ stdin' = stdin
          /\ host' \in {host, "crashed"}

(***************************************************************************)
(* What the code awaiting a rejected request does next: start() rejects,    *)
(* shutdown() goes on to kill the child and its caller ends the process,    *)
(* a tool call returns an error.                                           *)
(***************************************************************************)
Reject(K) ==
    /\ promise' = [k \in Asker |-> IF k \in K THEN "failed" ELSE promise[k]]
    /\ phase' = IF Initialize \in K THEN "failed" ELSE phase
    /\ host' = IF Shutdown \in K THEN "exited" ELSE host

(***************************************************************************)
(* ... and after an answer: start() sends "initialized", shutdown() sends   *)
(* "exit" and kills the child, a tool call returns the answer.              *)
(***************************************************************************)
Resolve(k, from) ==
    /\ promise' = [promise EXCEPT ![k] = "resolved"]
    /\ repliedTo' = [repliedTo EXCEPT ![k] = from]
    /\ \/ /\ k = Initialize
          /\ phase' = "ready"
          /\ Send(<<Notification("initialized")>>)
       \/ /\ k = Shutdown
          /\ phase' = phase
          /\ stdin' = Append(stdin, Notification("exit"))
          /\ host' = "exited"
       \/ /\ k \in Call
          /\ UNCHANGED <<phase, stdin, host>>

\* Mutant of NewId: the size of the map instead of a counter.
IdFromMapSize == Cardinality(DOMAIN pending) + 1

NewId == nextId

\* Mutant of PendingAfterFailedSend: no catch block.
PendingWithoutCleanup(id, k) == Put(pending, id, k)

\* What #pending holds after a request whose #send threw: the catch block
\* removes the entry it had just set.
PendingAfterFailedSend(id, k) == Delete(Put(pending, id, k), id)

\* Mutant of Request: the question is sent before the text it is about.
RequestBeforeSync(k, before) ==
    /\ nextId' = nextId + 1
    /\ \/ /\ Send(<<RequestMessage(NewId, k)>> \o before)
          /\ pending' = Put(pending, NewId, k)
          /\ promise' = [promise EXCEPT ![k] = "waiting"]
          /\ phase' = phase
       \/ /\ dead
          /\ pending' = PendingAfterFailedSend(NewId, k)
          /\ Reject({k})
          /\ stdin' = stdin

(***************************************************************************)
(* request(), preceded in the same turn of the event loop by the            *)
(* notifications in before.                                                *)
(***************************************************************************)
Request(k, before) ==
    /\ nextId' = nextId + 1
    /\ \/ /\ Send(before \o <<RequestMessage(NewId, k)>>)
          /\ pending' = Put(pending, NewId, k)
          /\ promise' = [promise EXCEPT ![k] = "waiting"]
          /\ phase' = phase
       \/ /\ dead
          /\ pending' = PendingAfterFailedSend(NewId, k)
          /\ Reject({k})
          /\ stdin' = stdin

\* The setTimeout callback of request(): it acts only on an id still pending.
Timeout(id) ==
    /\ Up
    /\ id \in DOMAIN pending
    /\ pending' = Delete(pending, id)
    /\ Reject({pending[id]})
    /\ UNCHANGED <<proc, dead, nextId, repliedTo, openDocs, diagnostics, stdin, stdout>>

\* Mutant of RejectedByDeath: #pending.clear() alone.
NobodyRejected == {}

\* Who is told when the process dies: everybody still in the map.
RejectedByDeath == Waiting(pending)

(***************************************************************************)
(* The "exit" and "error" events of the child: #markDead.                  *)
(***************************************************************************)
MarkDead ==
    /\ Up
    /\ proc = "exited"
    /\ ~dead
    /\ dead' = TRUE
    /\ Reject(RejectedByDeath)
    /\ pending' = EmptyMap
    /\ UNCHANGED <<proc, nextId, repliedTo, openDocs, diagnostics, stdin, stdout>>

(***************************************************************************)
(* start(): spawn, then the initialize request.  A spawn that fails leaves  *)
(* no process behind and raises the "error" event later.                    *)
(***************************************************************************)
Start ==
    /\ Up
    /\ phase = "new"
    /\ phase' = "starting"
    /\ nextId' = nextId + 1
    /\ pending' = Put(pending, NewId, Initialize)
    /\ promise' = [promise EXCEPT ![Initialize] = "waiting"]
    /\ \/ proc' = "running" /\ stdin' = Append(stdin, RequestMessage(NewId, Initialize))
       \/ proc' = "exited" /\ stdin' = stdin
    /\ UNCHANGED <<host, dead, repliedTo, openDocs, diagnostics, stdout>>

\* shutdown(), as the SIGTERM handler of server.js calls it: nothing to ask
\* of a dead server, otherwise a request.
AskToShutDown ==
    /\ ClientReady
    /\ promise[Shutdown] = "none"
    /\ \/ /\ dead
          /\ host' = "exited"
          /\ UNCHANGED <<nextId, pending, promise, stdin, phase>>
       \/ ~dead /\ Request(Shutdown, <<>>)
    /\ UNCHANGED <<proc, dead, repliedTo, openDocs, diagnostics, stdout>>

(***************************************************************************)
(* syncFile() after its readFile: didOpen the first time, a full-text       *)
(* didChange afterwards.                                                   *)
(***************************************************************************)
IsOpen(u) == openDocs[u] > 0

\* Mutant of SyncMessage: openFile() in the place of syncFile().
AlwaysDidOpen(u, t) == OpenMessage(u, openDocs[u] + 1, t)

SyncMessage(u, t) ==
    IF IsOpen(u) THEN ChangeMessage(u, openDocs[u] + 1, t)
                 ELSE OpenMessage(u, openDocs[u] + 1, t)

SyncedDocs(u) == [openDocs EXCEPT ![u] = @ + 1]

(***************************************************************************)
(* #handleMessage, one disjunct for each kind of message.                  *)
(***************************************************************************)
\* Mutant of OnResponse: no check that somebody still waits for the answer.
OnAnyResponse(m) ==
    /\ m.type = "response"
    /\ \/ /\ m.id \in DOMAIN pending
          /\ pending' = Delete(pending, m.id)
          /\ \/ m.ok /\ Resolve(pending[m.id], m.for)
             \/ ~m.ok /\ Reject({pending[m.id]}) /\ UNCHANGED <<repliedTo, stdin>>
       \/ /\ m.id \notin DOMAIN pending
          /\ host' = "crashed"
          /\ UNCHANGED <<phase, pending, promise, repliedTo, stdin>>
    /\ UNCHANGED <<proc, dead, nextId, openDocs, diagnostics>>

OnResponse(m) ==
    /\ m.type = "response"
    /\ \/ /\ m.id \in DOMAIN pending
          /\ pending' = Delete(pending, m.id)
          /\ \/ m.ok /\ Resolve(pending[m.id], m.for)
             \/ ~m.ok /\ Reject({pending[m.id]}) /\ UNCHANGED <<repliedTo, stdin>>
       \/ /\ m.id \notin DOMAIN pending
          /\ UNCHANGED <<phase, host, pending, promise, repliedTo, stdin>>
    /\ UNCHANGED <<proc, dead, nextId, openDocs, diagnostics>>

OnDiagnostics(m) ==
    /\ m.type = "publishDiagnostics"
    /\ diagnostics' = [diagnostics EXCEPT ![m.uri] = m.rev]
    /\ UNCHANGED <<phase, host, proc, dead, nextId, pending, promise, repliedTo, openDocs, stdin>>

\* Mutant of OnServerRequest: what the server asks is ignored.
IgnoreServerRequest(m) ==
    /\ m.type = "serverRequest"
    /\ UNCHANGED <<phase, host, proc, dead, nextId, pending, promise, repliedTo,
                   openDocs, diagnostics, stdin>>

\* The reply to a server's own request goes through #send, which throws in
\* the "data" handler when the message is read after the exit event.
OnServerRequest(m) ==
    /\ m.type = "serverRequest"
    /\ \/ Send(<<ResultMessage(m.id)>>)
       \/ dead /\ host' = "crashed" /\ stdin' = stdin
    /\ UNCHANGED <<phase, proc, dead, nextId, pending, promise, repliedTo, openDocs, diagnostics>>

\* What is dropped: malformed JSON, a response with neither result nor error, a
\* notification nobody asked for.  What the handler trips over: it reads a field
\* of null, in the body null or in diagnostics without params, and nothing
\* catches what a "data" listener throws.
OnJunk(m) ==
    /\ m.type = "junk"
    /\ host' = IF m.trips THEN "crashed" ELSE host
    /\ UNCHANGED <<phase, proc, dead, nextId, pending, promise, repliedTo,
                   openDocs, diagnostics, stdin>>

\* One message of a chunk (see StdioFraming for what a chunk holds).  The code
\* handles all whole messages of a chunk in one turn of the event loop; here
\* other steps may come between them, and need not.
OnData ==
    /\ Up
    /\ stdout # <<>>
    /\ stdout' = Tail(stdout)
    /\ LET m == Head(stdout) IN
         OnResponse(m) \/ OnDiagnostics(m) \/ OnServerRequest(m) \/ OnJunk(m)
=============================================================================
