---------------------------- MODULE LanguageServer ----------------------------
(***************************************************************************)
(* The other end of the pipes: jdtls or spring-boot-language-server, which  *)
(* are not part of the repository.  What is assumed of them is what         *)
(* lsp-client.js relies on: they read their input in order, answer a        *)
(* request at most once under the id it came with, in any order, late or    *)
(* never, publish diagnostics for a text they hold, send requests of their  *)
(* own (with ids of their own, which may equal the client's), write things  *)
(* nobody understands or survives, and die at any moment.                   *)
(***************************************************************************)
EXTENDS LspClient

CONSTANT MaxEvents  \* bound on what happens unasked: the server's unsolicited
                    \* messages here, edits of files in LspSession

ASSUME MaxEventsAssumption == MaxEvents \in Nat

VARIABLES
    srvVersion,  \* the version it holds of each document, 0 when closed
    srvRev,      \* the text revision it holds of each document, 0 when closed
    asked,       \* the requests it has read and not answered
    owed,        \* its own requests that have no reply yet
    events       \* how many of those there have been

serverVars == <<srvVersion, srvRev, asked, owed, events>>

Running == Up /\ proc = "running"

ServerInit ==
    /\ srvVersion = [u \in Uri |-> 0]
    /\ srvRev = [u \in Uri |-> 0]
    /\ asked = {}
    /\ owed = {}
    /\ events = 0

Receive ==
    /\ Running
    /\ stdin # <<>>
    /\ stdin' = Tail(stdin)
    /\ LET m == Head(stdin) IN
         \/ /\ m.type = "request"
            /\ asked' = asked \cup {[id |-> m.id, for |-> m.for]}
            /\ UNCHANGED <<srvVersion, srvRev, owed>>
         \/ /\ m.type \in {"didOpen", "didChange"}
            /\ srvVersion' = [srvVersion EXCEPT ![m.uri] = m.version]
            /\ srvRev' = [srvRev EXCEPT ![m.uri] = m.rev]
            /\ UNCHANGED <<asked, owed>>
         \/ /\ m.type = "result"
            /\ owed' = owed \ {m.id}
            /\ UNCHANGED <<srvVersion, srvRev, asked>>
         \/ /\ m.type = "initialized"
            /\ UNCHANGED <<srvVersion, srvRev, asked, owed>>
    /\ UNCHANGED <<phase, host, proc, dead, nextId, pending, promise, repliedTo,
                   openDocs, diagnostics, stdout, events>>

Say(m) ==
    /\ Running
    /\ stdout' = Append(stdout, m)
    /\ UNCHANGED <<phase, host, proc, dead, nextId, pending, promise, repliedTo,
                   openDocs, diagnostics, stdin>>

Answer(q) ==
    /\ \E ok \in BOOLEAN : Say(Response(q.id, q.for, ok))
    /\ asked' = asked \ {q}
    /\ UNCHANGED <<srvVersion, srvRev, owed, events>>

Push ==
    /\ events < MaxEvents
    /\ events' = events + 1
    /\ \/ /\ \E u \in Uri : srvVersion[u] > 0 /\ Say(Published(u, srvRev[u]))
          /\ owed' = owed
       \/ /\ Say(ServerRequest(events + 1))
          /\ owed' = owed \cup {events + 1}
       \/ /\ \E trips \in BOOLEAN : Say(Junk(trips))
          /\ owed' = owed
    /\ UNCHANGED <<srvVersion, srvRev, asked>>

Die ==
    /\ Running
    /\ proc' = "exited"
    /\ UNCHANGED <<phase, host, dead, nextId, pending, promise, repliedTo,
                   openDocs, diagnostics, stdin, stdout>>
    /\ UNCHANGED serverVars

ServerNext ==
    \/ Receive
    \/ \E q \in asked : Answer(q)
    \/ Push
    \/ Die
=============================================================================
