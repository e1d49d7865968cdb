----------------------------- MODULE SpringServer -----------------------------
(***************************************************************************)
(* mcp-servers/spring-lsp/server.js: the singleton of LspServer, whose       *)
(* process runs out of a directory that getClient() extracts from the        *)
(* vendored tarball (resolveLanguageServerDir) when it finds no jar there.   *)
(*                                                                         *)
(* The directory outlives the MCP server.  A behaviour is one lifetime of it *)
(* and begins with whatever an earlier one, cut short anywhere, may have     *)
(* left.  The tarball holds the jar first and then lib/, and the server      *)
(* needs both (fetch-spring-boot-language-server.sh).                        *)
(***************************************************************************)
EXTENDS LspServer

VARIABLES
    extracted,  \* vendor/spring-boot-language-server-<version>/
    launched    \* what was in it when the process of each object was spawned

dirVars == <<extracted, launched>>
springVars == <<vars, dirVars>>

\* No such directory, nothing in it, a jar without (all of) lib/, everything.
Dir == {"absent", "empty", "jar", "whole"}

SpringInit ==
    /\ Init
    /\ extracted \in Dir
    /\ launched = [i \in Client |-> "absent"]

\* readdirSync(extractedDir).find((f) => f.endsWith("-exec.jar"))
HasExecJar(d) == d \in {"jar", "whole"}

\* Mutant of NeedsUnpacking: the tarball is unpacked for every new object.
AlwaysUnpacks == TRUE

NeedsUnpacking == ~HasExecJar(extracted)

\* Mutant of Unpacked: the exit status of tar is not looked at.
UnpackedUnchecked == {"jar", "whole"}

\* What the directory holds after mkdir and tar have succeeded.
Unpacked == {"whole"}

\* ... and after one of them has failed: no directory, a full disk, a kill.
LeftBehind(d) == {d, "empty", "jar"}

\* Where the process of a new object is spawned.
Resolve ==
    \/ ~NeedsUnpacking /\ extracted' = extracted
    \/ NeedsUnpacking /\ extracted' \in Unpacked

\* getClient(): the directory is resolved before anything else is done, and
\* only when there is no promise.  execFileSync holds up every other event.
GetSpringClient(c) ==
    /\ GetClient(c)
    /\ \/ ~NoClientYet /\ UNCHANGED dirVars
       \/ /\ NoClientYet
          /\ Resolve
          /\ launched' = [launched EXCEPT ![current'] = extracted']

\* The extraction fails: getClient() throws before clientPromise is set, and
\* toolResult() makes an error of it in the same turn.
RefuseCall(c) ==
    /\ Up
    /\ pc[c] \in {"idle", "returned"}
    /\ NoClientYet
    /\ NeedsUnpacking
    /\ extracted' \in LeftBehind(extracted)
    /\ UNCHANGED <<vars, launched>>

\* Without its libraries the process never answers initialize.
SpringStartEnds(i) ==
    /\ StartEnds(i)
    /\ phase'[i] = "ready" => launched[i] = "whole"
    /\ UNCHANGED dirVars

\* The rest of the singleton does not look at the directory.
ElsewhereNext ==
    /\ \/ \E c \in Call : Acquire(c) \/ Use(c)
       \/ \E i \in Client : Exit(i) \/ Learn(i) \/ Crash(i)
       \/ Sigterm \/ AskShutdown \/ ShutdownEnds
    /\ UNCHANGED dirVars

SpringNext ==
    \/ \E c \in Call : GetSpringClient(c)
    \/ \E c \in Call : RefuseCall(c)
    \/ \E i \in Client : SpringStartEnds(i)
    \/ ElsewhereNext

SpringSpec == SpringInit /\ [][SpringNext]_springVars

SpringFairSpec == SpringSpec /\ Fairness

-----------------------------------------------------------------------------
(***************************************************************************)
(* Properties.                                                             *)
(***************************************************************************)
\* A process is spawned in a directory that lacks a part of the tarball only
\* where a part of it lay before the call: what the call's own extraction left
\* unfinished is never started.
CutIsOnlyInherited ==
    [][\A i \in Client : launched'[i] # launched[i] =>
         launched'[i] = "whole" \/ extracted = "jar"]_springVars

\* Nothing is extracted into the directory of a server that runs, be it the
\* current one or the stray of a start that timed out.
NeverUnderARunningServer ==
    [][(\E i \in Client : proc[i] = "running") => extracted' = extracted]_springVars

-----------------------------------------------------------------------------
(***************************************************************************)
(* The inductive invariant: whatever was spawned found the jar, which stays. *)
(***************************************************************************)
SpringInv ==
    /\ extracted \in Dir
    /\ launched \in [Client -> Dir]
    /\ \A i \in Client : proc[i] # "none" => HasExecJar(extracted)
=============================================================================
