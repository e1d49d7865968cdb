------------------------------- MODULE LspServer -------------------------------
(***************************************************************************)
(* The module-level singleton of mcp-servers/java-lsp/server.js and         *)
(* mcp-servers/spring-lsp/server.js: clientPromise, getClient(), the tool    *)
(* calls that await it, and the SIGTERM handler.                           *)
(*                                                                         *)
(* Every LspClient object ever made is an index; its phase, process and     *)
(* death are those of ClientLife, which LspSession implements message by    *)
(* message.  A tool call may be made again after it returned.              *)
(***************************************************************************)
EXTENDS Naturals, FiniteSets

CONSTANTS
    Call,        \* the tool calls in progress at one time
    MaxClients   \* bound on the LspClient objects made

ASSUME MaxClientsAssumption == MaxClients \in Nat

VARIABLES
    current,  \* clientPromise: the object it belongs to, 0 when undefined
    made,     \* how many objects have been made
    phase,    \* start() of each object: "new", "starting", "ready", "failed"
    proc,     \* its process: "none", "running", "exited"
    dead,     \* its #dead
    pc,       \* each tool call: "idle", "awaiting", "using", "returned"
    client,   \* the object whose promise the call awaits, or which it uses
    term,     \* the SIGTERM handler: "none", "awaiting", "asking"
    leaving,  \* the object the handler awaits or asks to shut down
    host      \* the MCP server process: "up" or "exited" (crashed or not)

clientVars == <<made, phase, proc, dead>>
callVars == <<pc, client>>
termVars == <<term, leaving, host>>
vars == <<current, clientVars, callVars, termVars>>

Client == 1..MaxClients
Up == host = "up"

Init ==
    /\ current = 0
    /\ made = 0
    /\ phase = [i \in Client |-> "new"]
    /\ proc = [i \in Client |-> "none"]
    /\ dead = [i \in Client |-> FALSE]
    /\ pc = [c \in Call |-> "idle"]
    /\ client = [c \in Call |-> 0]
    /\ term = "none"
    /\ leaving = 0
    /\ host = "up"

(***************************************************************************)
(* getClient() and the tool calls.                                         *)
(***************************************************************************)

\* Mutant of MakeClient: the object is not counted.
MakeClientUncounted ==
    /\ made < MaxClients
    /\ made' = made
    /\ current' = made + 1
    /\ phase' = [phase EXCEPT ![made + 1] = "starting"]
    /\ proc' = [proc EXCEPT ![made + 1] = "running"]
    /\ dead' = dead

\* new LspClient(...).start(), as far as its first await: the process is
\* spawned and clientPromise is set in the same turn.  A spawn that fails is a
\* process that exits before it says anything.
MakeClient ==
    /\ made < MaxClients
    /\ made' = made + 1
    /\ current' = made + 1
    /\ phase' = [phase EXCEPT ![made + 1] = "starting"]
    /\ proc' = [proc EXCEPT ![made + 1] = "running"]
    /\ dead' = dead

\* Mutant of NoClientYet: clientPromise counts only once it has resolved.
NoReadyClientYet == current \notin {i \in Client : phase[i] = "ready"}

NoClientYet == current = 0

GetClient(c) ==
    /\ Up
    /\ pc[c] \in {"idle", "returned"}
    /\ pc' = [pc EXCEPT ![c] = "awaiting"]
    /\ \/ NoClientYet /\ MakeClient
       \/ ~NoClientYet /\ UNCHANGED <<current, clientVars>>
    /\ client' = [client EXCEPT ![c] = current']
    /\ UNCHANGED termVars

\* Mutant of PromiseResolved: the object is handed out before its handshake.
PromiseMade(i) == phase[i] \in {"starting", "ready"}

\* Mutant of PromiseRejected: a promise that start()'s rejection never settles.
NeverRejected(i) == FALSE

\* Where a call goes on, once it may: clientPromise must have settled.
PromiseResolved(i) == phase[i] = "ready"
PromiseRejected(i) == phase[i] = "failed"

Acquire(c) ==
    /\ Up
    /\ pc[c] = "awaiting"
    /\ \/ PromiseResolved(client[c]) /\ pc' = [pc EXCEPT ![c] = "using"]
       \/ PromiseRejected(client[c]) /\ pc' = [pc EXCEPT ![c] = "returned"]
    /\ UNCHANGED <<current, clientVars, client, termVars>>

\* Mutant of Use: an error clears clientPromise, as a failed start does.
UseOrForget(c) ==
    /\ Up
    /\ pc[c] = "using"
    /\ pc' = [pc EXCEPT ![c] = "returned"]
    /\ current' \in {0, current}
    /\ UNCHANGED <<clientVars, client, termVars>>

\* The call made its requests on the object, as LspSession describes, and
\* returns their answers or their errors; neither touches clientPromise.
Use(c) ==
    /\ Up
    /\ pc[c] = "using"
    /\ pc' = [pc EXCEPT ![c] = "returned"]
    /\ UNCHANGED <<current, clientVars, client, termVars>>

(***************************************************************************)
(* What happens to the objects.                                            *)
(***************************************************************************)

\* Mutant of CurrentAfterFailure: the rejected promise stays cached.
RejectionCached(i) == i

\* clientPromise after the start() of an object failed.
CurrentAfterFailure(i) == 0

\* Mutant of FailStart: the SIGTERM handler does not go on after a rejection.
FailStartUnnoticed(i) ==
    /\ phase' = [phase EXCEPT ![i] = "failed"]
    /\ current' = CurrentAfterFailure(i)
    /\ host' = host

\* The rejection handler clears clientPromise in the turn in which start()
\* rejects; a SIGTERM handler awaiting that promise ends the process next.
FailStart(i) ==
    /\ phase' = [phase EXCEPT ![i] = "failed"]
    /\ current' = CurrentAfterFailure(i)
    /\ host' = IF term = "awaiting" /\ leaving = i THEN "exited" ELSE host

\* start() ends: initialize is answered, or refused, or its 30 s are over.
\* None of the three touches the process; an answer may still be read after it
\* exited, until the exit is known.
StartEnds(i) ==
    /\ Up
    /\ phase[i] = "starting"
    /\ ~dead[i]
    /\ \/ /\ phase' = [phase EXCEPT ![i] = "ready"]
          /\ UNCHANGED <<current, host>>
       \/ FailStart(i)
    /\ UNCHANGED <<made, proc, dead, callVars, term, leaving>>

\* The process dies.
Exit(i) ==
    /\ Up
    /\ proc[i] = "running"
    /\ proc' = [proc EXCEPT ![i] = "exited"]
    /\ UNCHANGED <<current, made, phase, dead, callVars, termVars>>

\* Mutant of Learn: a death does not fail a start() that is waiting.
LearnQuietly(i) ==
    /\ Up
    /\ proc[i] = "exited"
    /\ ~dead[i]
    /\ dead' = [dead EXCEPT ![i] = TRUE]
    /\ host' = IF term = "asking" /\ leaving = i THEN "exited" ELSE host
    /\ UNCHANGED <<current, phase, made, proc, callVars, term, leaving>>

\* The object learns of it: #markDead.  Nothing in server.js does; only a
\* start() that was still waiting rejects.
Learn(i) ==
    /\ Up
    /\ proc[i] = "exited"
    /\ ~dead[i]
    /\ dead' = [dead EXCEPT ![i] = TRUE]
    /\ \/ /\ phase[i] = "starting"
          /\ FailStart(i)
       \/ /\ phase[i] # "starting"
          /\ UNCHANGED <<current, phase>>
          /\ host' = IF term = "asking" /\ leaving = i THEN "exited" ELSE host
    /\ UNCHANGED <<made, proc, callVars, term, leaving>>

\* A process takes the MCP server with it: when it is gone, by an EPIPE on its
\* stdin or by a request of its own read after its death, or by a message the
\* handler does not survive (CrashHasCause of LspSession).
Crash(i) ==
    /\ Up
    /\ proc[i] # "none"
    /\ host' = "exited"
    /\ UNCHANGED <<current, clientVars, callVars, term, leaving>>

(***************************************************************************)
(* SIGTERM: await clientPromise, shut the object down, exit.               *)
(***************************************************************************)
Sigterm ==
    /\ Up
    /\ term = "none"
    /\ \/ /\ current = 0
          /\ host' = "exited"
          /\ UNCHANGED <<term, leaving>>
       \/ /\ current # 0
          /\ term' = "awaiting"
          /\ leaving' = current
          /\ host' = host
    /\ UNCHANGED <<current, clientVars, callVars>>

\* shutdown(): returns at once on a dead object, otherwise asks it.
AskShutdown ==
    /\ Up
    /\ term = "awaiting"
    /\ PromiseResolved(leaving)
    /\ \/ dead[leaving] /\ host' = "exited" /\ term' = term
       \/ ~dead[leaving] /\ host' = host /\ term' = "asking"
    /\ UNCHANGED <<current, clientVars, callVars, leaving>>

\* ... it answers, refuses or lets its 5 s pass; then it is killed anyway.
ShutdownEnds ==
    /\ Up
    /\ term = "asking"
    /\ proc' = [proc EXCEPT ![leaving] = "exited"]
    /\ host' = "exited"
    /\ UNCHANGED <<current, made, phase, dead, callVars, term, leaving>>

Next ==
    \/ \E c \in Call : GetClient(c)
    \/ \E c \in Call : Acquire(c)
    \/ \E c \in Call : Use(c)
    \/ \E i \in Client : StartEnds(i)
    \/ \E i \in Client : Exit(i)
    \/ \E i \in Client : Learn(i)
    \/ \E i \in Client : Crash(i)
    \/ Sigterm
    \/ AskShutdown
    \/ ShutdownEnds

Spec == Init /\ [][Next]_vars

(***************************************************************************)
(* Fairness: the timers of initialize, shutdown and the tool requests fire, *)
(* events are delivered and settled promises are acted upon.  Processes     *)
(* need not die, nobody need call or send SIGTERM.                         *)
(***************************************************************************)
Fairness ==
    /\ \A c \in Call : WF_vars(Acquire(c)) /\ WF_vars(Use(c))
    /\ \A i \in Client : WF_vars(StartEnds(i)) /\ WF_vars(Learn(i))
    /\ WF_vars(AskShutdown)
    /\ WF_vars(ShutdownEnds)

FairSpec == Spec /\ Fairness

\* ... and the agent keeps calling the tools.
CallingSpec == FairSpec /\ \A c \in Call : WF_vars(GetClient(c))

-----------------------------------------------------------------------------
(***************************************************************************)
(* Properties.                                                             *)
(***************************************************************************)

\* The values the variables range over.
TypeOK ==
    /\ made \in 0..MaxClients
    /\ current \in 0..made
    /\ phase \in [Client -> {"new", "starting", "ready", "failed"}]
    /\ proc \in [Client -> {"none", "running", "exited"}]
    /\ dead \in [Client -> BOOLEAN]
    /\ pc \in [Call -> {"idle", "awaiting", "using", "returned"}]
    /\ client \in [Call -> 0..made]
    /\ term \in {"none", "awaiting", "asking"}
    /\ leaving \in 0..made
    /\ host \in {"up", "exited"}

\* However many calls come in before the first start() is over, one start()
\* is in flight at a time, and it is the one clientPromise stands for: the
\* rejection of one can not clear the promise of another.
OneStartAtATime == \A i \in Client : phase[i] = "starting" => current = i

\* A start that failed is not cached: the next call starts afresh.
FailedStartIsForgotten == current # 0 => phase[current] # "failed"

\* "One persistent process for the server's whole lifetime": once a client is
\* ready no other is ever made.
ReadyClientIsKept ==
    [][\A i \in Client : phase[i] = "ready" => made' = made /\ current' = i]_vars

\* The only processes running beside the current one are those of starts that
\* failed, by a timeout or a refusal, with their process alive.
StraysAreFailedStarts ==
    \A i \in Client : proc[i] = "running" /\ i # current => phase[i] = "failed"

\* No tool call gets an object before its handshake is over, and all those
\* that hold one hold the same.
CallsShareAReadyClient ==
    \A c \in Call : pc[c] = "using" => phase[client[c]] = "ready" /\ client[c] = current

\* Every tool call returns, whatever the servers do.
CallsReturn == \A c \in Call : pc[c] \in {"awaiting", "using"} ~> (pc[c] = "returned" \/ ~Up)

\* SIGTERM ends the process, even in the middle of a start.
SigtermIsObeyed == term # "none" ~> host = "exited"

\* server.js: jdtls does not support concurrent instances against the same
\* -data directory, so there would never be two.
OneServerPerDataDir == Cardinality({i \in Client : proc[i] = "running"}) <= 1

\* server.js: the next call retries instead of a permanent failure being cached.
DeadClientIsReplaced ==
    \A i \in Client : current = i /\ dead[i] ~> (current # i \/ ~Up)

\* Each object lives the life that LspSession implements message by message:
\* nothing the server does makes one ready after it failed, spawns a second
\* process in one, or leaves a start waiting on a death already known.
Life(i) == INSTANCE ClientLife WITH phase <- phase[i], proc <- proc[i], dead <- dead[i]

ImplementsClientLife ==
    /\ \A i \in Client : Life(i)!Init
    /\ [][\A i \in Client : [Life(i)!Next]_<<phase[i], proc[i], dead[i]>>]_vars
-----------------------------------------------------------------------------
(***************************************************************************)
(* The inductive invariant behind them.                                    *)
(***************************************************************************)
\* The objects not made yet are untouched, and have no process.
UnmadeAreNew ==
    \A i \in Client :
        /\ phase[i] = "new" <=> i > made
        /\ phase[i] = "new" <=> proc[i] = "none"
        /\ phase[i] = "new" => ~dead[i]

\* An object that starts or is ready is the one clientPromise stands for.
LiveIsCurrent == \A i \in Client : phase[i] \in {"starting", "ready"} => current = i

\* A call past "idle" has an object; a handler past "none" too.
HoldersHoldObjects ==
    /\ \A c \in Call : pc[c] \in {"awaiting", "using"} => client[c] # 0
    /\ \A c \in Call : pc[c] = "using" => phase[client[c]] = "ready"
    /\ term # "none" => leaving # 0
    /\ term = "asking" => phase[leaving] = "ready"

\* The inductive invariant.
ServerInv ==
    /\ TypeOK
    /\ UnmadeAreNew
    /\ LiveIsCurrent
    /\ FailedStartIsForgotten
    /\ HoldersHoldObjects

-----------------------------------------------------------------------------
(***************************************************************************)
(* The safety in CallsReturn and SigtermIsObeyed: whoever waits for the       *)
(* promise of an object waits for one that has settled or that the start()   *)
(* of the object, whose timer runs, still settles.                          *)
(***************************************************************************)
\* A start() that waits has not been told of a death: its timer or an answer can
\* still end it.
StartingIsAlive == \A i \in Client : phase[i] = "starting" => ~dead[i]

\* The guards of Acquire and of StartEnds.
WillSettle(i) ==
    /\ i \in Client
    /\ PromiseResolved(i) \/ PromiseRejected(i) \/ (phase[i] = "starting" /\ ~dead[i])

\* No call and no signal handler waits for a promise that nobody settles: not for
\* one that was forgotten (the rejection clears clientPromise under those that
\* hold it), nor for that of a dead object.  The handler never sits on a rejection
\* either, as nothing but the rejection itself would end the process.
NobodyWaitsInVain ==
    Up => /\ \A c \in Call : pc[c] = "awaiting" => WillSettle(client[c])
          /\ term = "awaiting" => WillSettle(leaving) /\ ~PromiseRejected(leaving)

\* What it follows from beside ServerInv.
HandlerHearsRejection == Up /\ term = "awaiting" => phase[leaving] # "failed"
=============================================================================
