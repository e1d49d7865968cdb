--------------------------- MODULE LspServer_proofs ---------------------------
(***************************************************************************)
(* Theorems about getClient() and SIGTERM, for any number of tool calls and *)
(* any bound on the objects made; then about the extracted directory of      *)
(* SpringServer, and that with it the singleton is still the one of           *)
(* LspServer, so that all that is proved there holds for it.                *)
(***************************************************************************)
EXTENDS SpringServer, TLAPS

-----------------------------------------------------------------------------
\* Before the first call the invariant holds.
LEMMA ServerInit == Init => ServerInv
  BY MaxClientsAssumption
     DEF Init, ServerInv, TypeOK, UnmadeAreNew, LiveIsCurrent, FailedStartIsForgotten,
         HoldersHoldObjects, Client

\* Every step of calls, objects and the SIGTERM handler keeps it.
LEMMA ServerStep == ServerInv /\ [Next]_vars => ServerInv'
<1> SUFFICES ASSUME ServerInv, [Next]_vars PROVE ServerInv'
  OBVIOUS
<1> USE MaxClientsAssumption
<1> USE DEF ServerInv, TypeOK, UnmadeAreNew, LiveIsCurrent, FailedStartIsForgotten,
            HoldersHoldObjects, Client, callVars, clientVars, termVars
<1>1. CASE UNCHANGED vars
  BY <1>1 DEF vars
<1>2. ASSUME NEW c \in Call, GetClient(c) PROVE ServerInv'
  <2>1. CASE NoClientYet /\ MakeClient
    BY <1>2, <2>1 DEF GetClient, NoClientYet, MakeClient
  <2>2. CASE UNCHANGED <<current, clientVars>> /\ ~NoClientYet
    BY <1>2, <2>2 DEF GetClient, NoClientYet
  <2> QED
    BY <1>2, <2>1, <2>2 DEF GetClient
<1>3. ASSUME NEW c \in Call, Acquire(c) PROVE ServerInv'
  BY <1>3 DEF Acquire, PromiseResolved, PromiseRejected
<1>4. ASSUME NEW c \in Call, Use(c) PROVE ServerInv'
  BY <1>4 DEF Use
<1>5. ASSUME NEW i \in Client, StartEnds(i) PROVE ServerInv'
  <2>1. CASE phase' = [phase EXCEPT ![i] = "ready"] /\ UNCHANGED <<current, host>>
    BY <1>5, <2>1 DEF StartEnds
  <2>2. CASE FailStart(i)
    BY <1>5, <2>2 DEF StartEnds, FailStart, CurrentAfterFailure
  <2> QED
    BY <1>5, <2>1, <2>2 DEF StartEnds
<1>6. ASSUME NEW i \in Client, Exit(i) PROVE ServerInv'
  BY <1>6 DEF Exit
<1>7. ASSUME NEW i \in Client, Learn(i) PROVE ServerInv'
  BY <1>7 DEF Learn, FailStart, CurrentAfterFailure
<1>8. ASSUME NEW i \in Client, Crash(i) PROVE ServerInv'
  BY <1>8 DEF Crash
<1>9. CASE Sigterm
  BY <1>9 DEF Sigterm
<1>10. CASE AskShutdown
  BY <1>10 DEF AskShutdown, PromiseResolved
<1>11. CASE ShutdownEnds
  BY <1>11 DEF ShutdownEnds
<1> QED
  BY <1>1, <1>2, <1>3, <1>4, <1>5, <1>6, <1>7, <1>8, <1>9, <1>10, <1>11 DEF Next


\* So it always holds.
LEMMA ServerAlways == Spec => []ServerInv
  BY ServerInit, ServerStep, PTL DEF Spec

-----------------------------------------------------------------------------
\* Every variable of the server keeps to its range, however many objects are
\* made and calls come in.
THEOREM TypeCorrect == Spec => []TypeOK
<1>1. ServerInv => TypeOK
  BY DEF ServerInv
<1> QED BY <1>1, ServerAlways, PTL

\* getClient() never has two start()s in flight.
THEOREM OneStartCorrect == Spec => []OneStartAtATime
<1>1. ServerInv => OneStartAtATime
  BY DEF ServerInv, LiveIsCurrent, OneStartAtATime
<1> QED BY <1>1, ServerAlways, PTL

\* getClient() never hands out the promise of a failed start() again.
THEOREM RetryCorrect == Spec => []FailedStartIsForgotten
<1>1. ServerInv => FailedStartIsForgotten
  BY DEF ServerInv
<1> QED BY <1>1, ServerAlways, PTL

\* A process that runs beside the current one belongs to a failed start().
THEOREM StraysCorrect == Spec => []StraysAreFailedStarts
<1>1. ServerInv => StraysAreFailedStarts
  BY DEF ServerInv, TypeOK, UnmadeAreNew, LiveIsCurrent, StraysAreFailedStarts
<1> QED BY <1>1, ServerAlways, PTL

\* All tool calls that hold an object hold the same one, which has started.
THEOREM SharedClientCorrect == Spec => []CallsShareAReadyClient
<1>1. ASSUME ServerInv PROVE CallsShareAReadyClient
  <2> SUFFICES ASSUME NEW c \in Call, pc[c] = "using"
               PROVE  phase[client[c]] = "ready" /\ client[c] = current
    BY DEF CallsShareAReadyClient
  <2>1. client[c] \in Client /\ phase[client[c]] = "ready"
    BY <1>1, MaxClientsAssumption DEF ServerInv, TypeOK, HoldersHoldObjects, Client
  <2> QED BY <1>1, <2>1 DEF ServerInv, LiveIsCurrent
<1> QED BY <1>1, ServerAlways, PTL

\* Once an object has started, no step of anybody replaces it.
THEOREM ReadyClientKept == Spec => ReadyClientIsKept
<1> DEFINE Kept == \A i \in Client : phase[i] = "ready" => made' = made /\ current' = i
<1>1. ASSUME ServerInv, [Next]_vars PROVE [Kept]_vars
  <2> SUFFICES ASSUME NEW i \in Client, phase[i] = "ready", Next
               PROVE  made' = made /\ current' = i
    BY <1>1
  <2>1. current = i /\ current # 0
    BY <1>1, MaxClientsAssumption DEF ServerInv, LiveIsCurrent, Client
  <2>2. \A c \in Call : GetClient(c) => made' = made /\ current' = i
    BY <2>1 DEF GetClient, NoClientYet, clientVars
  <2>3. \A c \in Call : Acquire(c) \/ Use(c) => made' = made /\ current' = i
    BY <2>1 DEF Acquire, Use, clientVars
  <2>4. ASSUME NEW j \in Client, StartEnds(j) \/ Learn(j)
        PROVE  made' = made /\ current' = i
    <3>1. phase[j] = "starting" => j = i
      BY <2>1, <1>1 DEF ServerInv, LiveIsCurrent
    <3>2. phase[j] # "starting"
      BY <3>1
    <3> QED BY <2>1, <2>4, <3>2 DEF StartEnds, Learn
  <2>5. \A j \in Client : Exit(j) \/ Crash(j) => made' = made /\ current' = i
    BY <2>1 DEF Exit, Crash, clientVars
  <2>6. Sigterm \/ AskShutdown \/ ShutdownEnds => made' = made /\ current' = i
    BY <2>1 DEF Sigterm, AskShutdown, ShutdownEnds, clientVars
  <2> QED BY <2>2, <2>3, <2>4, <2>5, <2>6 DEF Next
<1> QED BY <1>1, ServerAlways, PTL DEF Spec, ReadyClientIsKept

\* Whatever calls, failures and signals do, each object lives a ClientLife.
THEOREM LivesCorrect == Spec => ImplementsClientLife
<1>1. Init => \A i \in Client : Life(i)!Init
  BY DEF Init, Life!Init
<1>2. ASSUME ServerInv, [Next]_vars, NEW i \in Client
      PROVE  [Life(i)!Next]_<<phase[i], proc[i], dead[i]>>
  <2> SUFFICES ASSUME Next PROVE Life(i)!Next \/ UNCHANGED <<phase[i], proc[i], dead[i]>>
    BY <1>2 DEF vars, clientVars
  <2> USE DEF Life!Next, Life!Spawn, Life!Started, Life!Exit, Life!Learn
  <2>1. /\ phase \in [Client -> {"new", "starting", "ready", "failed"}]
        /\ proc \in [Client -> {"none", "running", "exited"}]
        /\ dead \in [Client -> BOOLEAN]
        /\ made \in Nat
    BY <1>2, MaxClientsAssumption DEF ServerInv, TypeOK
  <2>2. ASSUME NEW c \in Call, GetClient(c)
        PROVE  Life(i)!Next \/ UNCHANGED <<phase[i], proc[i], dead[i]>>
    <3>1. i = made + 1 => phase[i] = "new" /\ proc[i] = "none"
      BY <1>2, <2>1 DEF ServerInv, UnmadeAreNew, Client
    <3> QED BY <2>1, <2>2, <3>1 DEF GetClient, MakeClient, clientVars
  <2>3. ASSUME NEW c \in Call, Acquire(c) \/ Use(c)
        PROVE  UNCHANGED <<phase[i], proc[i], dead[i]>>
    BY <2>3 DEF Acquire, Use, clientVars
  <2>4. ASSUME NEW j \in Client, StartEnds(j)
        PROVE  Life(i)!Next \/ UNCHANGED <<phase[i], proc[i], dead[i]>>
    BY <2>1, <2>4 DEF StartEnds, FailStart
  <2>5. ASSUME NEW j \in Client, Exit(j)
        PROVE  Life(i)!Next \/ UNCHANGED <<phase[i], proc[i], dead[i]>>
    BY <2>1, <2>5 DEF Exit
  <2>6. ASSUME NEW j \in Client, Learn(j)
        PROVE  Life(i)!Next \/ UNCHANGED <<phase[i], proc[i], dead[i]>>
    BY <2>1, <2>6 DEF Learn, FailStart
  <2>7. ASSUME NEW j \in Client, Crash(j) PROVE UNCHANGED <<phase[i], proc[i], dead[i]>>
    BY <2>7 DEF Crash, clientVars
  <2>8. Sigterm \/ AskShutdown => UNCHANGED <<phase[i], proc[i], dead[i]>>
    BY DEF Sigterm, AskShutdown, clientVars
  <2>9. ASSUME ShutdownEnds
        PROVE  Life(i)!Next \/ UNCHANGED <<phase[i], proc[i], dead[i]>>
    <3>1. proc[leaving] # "none"
      BY <1>2, <2>9, MaxClientsAssumption
         DEF ShutdownEnds, ServerInv, TypeOK, UnmadeAreNew, HoldersHoldObjects, Client
    <3> QED BY <2>1, <2>9, <3>1 DEF ShutdownEnds
  <2> QED BY <2>2, <2>3, <2>4, <2>5, <2>6, <2>7, <2>8, <2>9 DEF Next
<1>3. ASSUME ServerInv, [Next]_vars
      PROVE  [\A i \in Client : [Life(i)!Next]_<<phase[i], proc[i], dead[i]>>]_vars
  BY <1>2, <1>3
<1> QED BY <1>1, <1>3, ServerAlways, PTL DEF Spec, ImplementsClientLife

-----------------------------------------------------------------------------
(***************************************************************************)
(* That nobody waits for a promise that nobody settles.                     *)
(***************************************************************************)
\* A death fails the start() that waits, and a rejection ends the process if the
\* signal handler waits for it.
LEMMA WaitingStep ==
  ASSUME ServerInv, StartingIsAlive, HandlerHearsRejection, [Next]_vars
  PROVE  StartingIsAlive' /\ HandlerHearsRejection'
<1> USE MaxClientsAssumption
<1> USE DEF ServerInv, TypeOK, UnmadeAreNew, LiveIsCurrent, FailedStartIsForgotten,
            StartingIsAlive, HandlerHearsRejection, Client, Up
<1>1. term = "awaiting" => leaving \in Client
  BY DEF HoldersHoldObjects
<1>2. CASE UNCHANGED vars
  BY <1>2 DEF vars, clientVars, termVars
<1>3. ASSUME NEW c \in Call, GetClient(c) PROVE StartingIsAlive' /\ HandlerHearsRejection'
  <2>1. CASE MakeClient
    <3>1. \A i \in Client : phase'[i] = IF i = made + 1 THEN "starting" ELSE phase[i]
      BY <2>1 DEF MakeClient
    <3>2. dead' = dead /\ ~dead[made + 1]
      BY <2>1 DEF MakeClient
    <3>3. leaving # made + 1 /\ UNCHANGED termVars
      BY <1>3 DEF GetClient
    <3>4. StartingIsAlive'
      BY <3>1, <3>2
    <3> QED BY <1>1, <3>1, <3>3, <3>4 DEF termVars
  <2>2. CASE UNCHANGED <<current, clientVars>>
    BY <1>3, <2>2 DEF GetClient, clientVars, termVars
  <2> QED BY <1>3, <2>1, <2>2 DEF GetClient
<1>4. ASSUME NEW c \in Call, Acquire(c) \/ Use(c)
      PROVE  StartingIsAlive' /\ HandlerHearsRejection'
  BY <1>4 DEF Acquire, Use, clientVars, termVars
<1>5. ASSUME NEW i \in Client, StartEnds(i) PROVE StartingIsAlive' /\ HandlerHearsRejection'
  BY <1>5, <1>1 DEF StartEnds, FailStart, callVars
<1>6. ASSUME NEW i \in Client, Exit(i) \/ Crash(i)
      PROVE  StartingIsAlive' /\ HandlerHearsRejection'
  BY <1>6 DEF Exit, Crash, clientVars, termVars
<1>7. ASSUME NEW i \in Client, Learn(i) PROVE StartingIsAlive' /\ HandlerHearsRejection'
  BY <1>7, <1>1 DEF Learn, FailStart, callVars
<1>8. CASE Sigterm
  BY <1>8 DEF Sigterm, clientVars
<1>9. CASE AskShutdown \/ ShutdownEnds
  BY <1>9 DEF AskShutdown, ShutdownEnds, clientVars
<1> QED BY <1>2, <1>3, <1>4, <1>5, <1>6, <1>7, <1>8, <1>9 DEF Next

\* No call and no signal handler waits for a promise that nobody settles, for any
\* number of calls, objects, deaths and timeouts.
THEOREM WaitersCorrect == Spec => []NobodyWaitsInVain
<1>1. Init => StartingIsAlive /\ HandlerHearsRejection
  BY DEF Init, StartingIsAlive, HandlerHearsRejection
<1>2. ServerInv /\ StartingIsAlive /\ HandlerHearsRejection => NobodyWaitsInVain
  <2> SUFFICES ASSUME ServerInv, StartingIsAlive, HandlerHearsRejection, Up
               PROVE  /\ \A c \in Call : pc[c] = "awaiting" => WillSettle(client[c])
                      /\ term = "awaiting" => WillSettle(leaving) /\ ~PromiseRejected(leaving)
    BY DEF NobodyWaitsInVain
  <2>1. ASSUME NEW i \in 1..made PROVE WillSettle(i)
    <3>1. i \in Client /\ phase[i] # "new"
      BY MaxClientsAssumption DEF ServerInv, TypeOK, UnmadeAreNew, Client
    <3> QED BY <3>1 DEF ServerInv, TypeOK, StartingIsAlive, WillSettle, PromiseResolved,
                        PromiseRejected
  <2>2. ASSUME NEW c \in Call, pc[c] = "awaiting" PROVE client[c] \in 1..made
    BY <2>2 DEF ServerInv, TypeOK, HoldersHoldObjects
  <2>3. term = "awaiting" => leaving \in 1..made
    BY DEF ServerInv, TypeOK, HoldersHoldObjects
  <2> QED BY <2>1, <2>2, <2>3 DEF HandlerHearsRejection, PromiseRejected
<1>3. ServerInv /\ StartingIsAlive /\ HandlerHearsRejection /\ [Next]_vars
        => (StartingIsAlive /\ HandlerHearsRejection)'
  BY WaitingStep
<1> QED BY <1>1, <1>2, <1>3, ServerAlways, PTL DEF Spec

-----------------------------------------------------------------------------
(***************************************************************************)
(* spring-lsp: the directory the language server is started from.           *)
(***************************************************************************)
\* resolveLanguageServerDir() only makes getClient() refuse some calls: every
\* behaviour with the directory is one of the singleton.
THEOREM SpringImplementsServer == SpringSpec => Spec
<1>1. SpringInit => Init
  BY DEF SpringInit
<1>2. ASSUME [SpringNext]_springVars PROVE [Next]_vars
  <2>1. CASE UNCHANGED springVars
    BY <2>1 DEF springVars
  <2>2. ASSUME NEW c \in Call, GetSpringClient(c) PROVE Next
    BY <2>2 DEF GetSpringClient, Next
  <2>3. ASSUME NEW c \in Call, RefuseCall(c) PROVE UNCHANGED vars
    BY <2>3 DEF RefuseCall
  <2>4. ASSUME NEW i \in Client, SpringStartEnds(i) PROVE Next
    BY <2>4 DEF SpringStartEnds, Next
  <2>5. CASE ElsewhereNext
    BY <2>5 DEF ElsewhereNext, Next
  <2> QED BY <1>2, <2>1, <2>2, <2>3, <2>4, <2>5 DEF SpringNext
<1> QED BY <1>1, <1>2, PTL DEF SpringSpec, Spec

-----------------------------------------------------------------------------
\* Where the jar was found it stays.
LEMMA SpringStep == ServerInv /\ SpringInv /\ [SpringNext]_springVars => SpringInv'
<1> SUFFICES ASSUME ServerInv, SpringInv, [SpringNext]_springVars PROVE SpringInv'
  OBVIOUS
<1> USE DEF SpringInv
<1>1. CASE UNCHANGED springVars
  BY <1>1 DEF springVars, dirVars, vars, clientVars, HasExecJar
<1>2. ASSUME NEW c \in Call, GetSpringClient(c) PROVE SpringInv'
  <2>1. CASE ~NoClientYet
    BY <1>2, <2>1 DEF GetSpringClient, GetClient, dirVars, clientVars, HasExecJar
  <2>2. CASE NoClientYet
    <3>1. HasExecJar(extracted)' /\ extracted' \in Dir
      BY <1>2, <2>2 DEF GetSpringClient, Resolve, NeedsUnpacking, Unpacked, HasExecJar, Dir
    <3>2. launched' \in [Client -> Dir]
      BY <1>2, <2>2, <3>1 DEF GetSpringClient
    <3> QED BY <3>1, <3>2
  <2> QED BY <2>1, <2>2
<1>3. ASSUME NEW c \in Call, RefuseCall(c) PROVE SpringInv'
  BY <1>3 DEF RefuseCall, NeedsUnpacking, LeftBehind, HasExecJar, Dir, vars, clientVars
<1>4. ASSUME NEW i \in Client, SpringStartEnds(i) PROVE SpringInv'
  BY <1>4 DEF SpringStartEnds, StartEnds, dirVars, HasExecJar
<1>5. CASE ElsewhereNext
  <2>1. UNCHANGED dirVars
    BY <1>5 DEF ElsewhereNext
  <2>2. \A j \in Client : proc'[j] # "none" => proc[j] # "none"
    <3>1. ASSUME NEW c \in Call, Acquire(c) \/ Use(c) PROVE UNCHANGED proc
      BY <3>1 DEF Acquire, Use, clientVars
    <3>2. ASSUME NEW i \in Client, Learn(i) \/ Crash(i) PROVE UNCHANGED proc
      BY <3>2 DEF Learn, Crash, clientVars
    <3>3. Sigterm \/ AskShutdown => UNCHANGED proc
      BY DEF Sigterm, AskShutdown, clientVars
    <3>4. proc \in [Client -> {"none", "running", "exited"}]
      BY DEF ServerInv, TypeOK
    <3>5. ASSUME NEW i \in Client, Exit(i)
          PROVE  \A j \in Client : proc'[j] # "none" => proc[j] # "none"
      BY <3>4, <3>5 DEF Exit
    <3>6. ASSUME ShutdownEnds
          PROVE  \A j \in Client : proc'[j] # "none" => proc[j] # "none"
      <4>1. leaving \in Client => proc[leaving] # "none"
        BY <3>6 DEF ShutdownEnds, ServerInv, HoldersHoldObjects, UnmadeAreNew
      <4> QED BY <3>4, <3>6, <4>1 DEF ShutdownEnds
    <3> QED BY <1>5, <3>1, <3>2, <3>3, <3>5, <3>6 DEF ElsewhereNext
  <2> QED BY <2>1, <2>2 DEF dirVars, HasExecJar
<1> QED BY <1>1, <1>2, <1>3, <1>4, <1>5 DEF SpringNext

\* So both invariants always hold together.
LEMMA SpringAlways == SpringSpec => [](ServerInv /\ SpringInv)
<1>1. SpringInit => SpringInv
  BY DEF SpringInit, Init, SpringInv, Dir, HasExecJar
<1>2. SpringSpec => []ServerInv
  BY SpringImplementsServer, ServerAlways, PTL
<1> QED BY <1>1, <1>2, SpringStep, PTL DEF SpringSpec

-----------------------------------------------------------------------------
\* A partial directory is only ever started from when it was there before the
\* call, for any number of calls, objects and extractions.
THEOREM CutCorrect == SpringSpec => CutIsOnlyInherited
<1> DEFINE Inherited == \A i \in Client : launched'[i] # launched[i] =>
                          launched'[i] = "whole" \/ extracted = "jar"
<1>1. ASSUME SpringInv, [SpringNext]_springVars PROVE [Inherited]_springVars
  <2> SUFFICES ASSUME SpringNext, NEW i \in Client, launched'[i] # launched[i]
               PROVE  launched'[i] = "whole" \/ extracted = "jar"
    BY <1>1
  <2>1. PICK c \in Call : GetSpringClient(c)
    BY DEF SpringNext, RefuseCall, SpringStartEnds, ElsewhereNext, dirVars
  <2>2. launched'[i] = extracted' /\ Resolve
    BY <1>1, <2>1 DEF GetSpringClient, dirVars, SpringInv
  <2> QED BY <1>1, <2>2 DEF Resolve, NeedsUnpacking, Unpacked, HasExecJar, SpringInv, Dir
<1> QED BY <1>1, SpringAlways, PTL DEF SpringSpec, CutIsOnlyInherited

\* No extraction writes into the directory of a running server.
THEOREM NeverUnderCorrect == SpringSpec => NeverUnderARunningServer
<1> DEFINE Untouched == (\E i \in Client : proc[i] = "running") => extracted' = extracted
<1>1. ASSUME SpringInv, [SpringNext]_springVars PROVE [Untouched]_springVars
  <2> SUFFICES ASSUME SpringNext, NEW i \in Client, proc[i] = "running"
               PROVE  extracted' = extracted
    BY <1>1
  <2>1. ~NeedsUnpacking
    BY <1>1 DEF SpringInv, NeedsUnpacking
  <2> QED BY <2>1 DEF SpringNext, GetSpringClient, Resolve, RefuseCall, SpringStartEnds,
                      ElsewhereNext, dirVars
<1> QED BY <1>1, SpringAlways, PTL DEF SpringSpec, NeverUnderARunningServer

=============================================================================
