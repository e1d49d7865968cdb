---------------------------- MODULE ModuleAnalysis ----------------------------
(***************************************************************************)
(* The batch runner toolkits/module-analysis/analyze-modules.mjs: lanes     *)
(* that share one list of modules, an answer from the model per module, a   *)
(* log file and an output file per module, interruption at any moment, and  *)
(* re-runs that skip what already has a non-empty output file.             *)
(*                                                                         *)
(* Modules are numbered in the order of readdir; texts are abstracted to    *)
(* how much of them is in the file.                                        *)
(***************************************************************************)
EXTENDS Naturals

CONSTANTS
    Count,    \* the number of modules
    Limit,    \* CONCURRENCY, 0 for a value that is not a number of at least 1
    MaxRuns   \* bound on how often the script is started

ASSUME CountAssumption == Count \in Nat
ASSUME LimitAssumption == Limit \in Nat
ASSUME MaxRunsAssumption == MaxRuns \in Nat

Module == 0..(Count - 1)
Lane == 1..(IF Limit < Count THEN Limit ELSE Count)

VARIABLES
    run,     \* the script: "running", "finished" or "interrupted"
    runs,    \* how often it was started
    next,    \* the index of the next module to take
    at,      \* where each lane is
    item,    \* the module it took last
    answer,  \* what the model made of it: "text" or "failure"
    out,     \* each output file: "none", "empty", "partial" or "whole"
    log      \* each log file: "none", "answer" or "failure"

laneVars == <<next, at, item, answer>>
vars == <<run, runs, laneVars, out, log>>

FreshLanes ==
    /\ next' = 0
    /\ at' = [l \in Lane |-> "free"]
    /\ item' = [l \in Lane |-> 0]
    /\ answer' = [l \in Lane |-> "failure"]

Init ==
    /\ run = "running"
    /\ runs = 1
    /\ next = 0
    /\ at = [l \in Lane |-> "free"]
    /\ item = [l \in Lane |-> 0]
    /\ answer = [l \in Lane |-> "failure"]
    /\ out = [m \in Module |-> "none"]
    /\ log = [m \in Module |-> "none"]

Goto(l, label) == at' = [at EXCEPT ![l] = label]

\* Mutant of Taken: the counter moves on only when the module is done.
TakenLater == next

\* The counter after item = items[next++].
Taken == next + 1

\* Mutant of HasMore: one module too many.
HasMoreOrEqual == next <= Count

HasMore == next < Count

\* The loop of a lane: take a module, or end when none is left.
Take(l) ==
    /\ run = "running" /\ at[l] = "free"
    /\ \/ /\ HasMore
          /\ item' = [item EXCEPT ![l] = next]
          /\ next' = Taken
          /\ Goto(l, "checking")
       \/ /\ ~HasMore
          /\ Goto(l, "ended")
          /\ UNCHANGED <<next, item>>
    /\ UNCHANGED <<run, runs, answer, out, log>>

\* Mutant of IsNonEmptyFile: the file exists.
FileExists(m) == out[m] # "none"

\* Mutant of IsNonEmptyFile: the name of the output file is mistaken.
NeverFound(m) == FALSE

IsNonEmptyFile(m) == out[m] \in {"partial", "whole"}

\* The stat has come back: skip the module, or ask the model about it.
Check(l) ==
    /\ run = "running" /\ at[l] = "checking"
    /\ \/ IsNonEmptyFile(item[l]) /\ Goto(l, "free")
       \/ ~IsNonEmptyFile(item[l]) /\ Goto(l, "prompting")
    /\ UNCHANGED <<run, runs, next, item, answer, out, log>>

\* session.create() and session.prompt() are over: a text, or an exception, an
\* error or an answer without text.
Answered(l) ==
    /\ run = "running" /\ at[l] = "prompting"
    /\ \E r \in {"text", "failure"} : answer' = [answer EXCEPT ![l] = r]
    /\ Goto(l, "logging")
    /\ UNCHANGED <<run, runs, next, item, out, log>>

\* The log file is written before the output file.
WriteLog(l) ==
    /\ run = "running" /\ at[l] = "logging"
    /\ \/ /\ answer[l] = "text"
          /\ log' = [log EXCEPT ![item[l]] = "answer"]
          /\ Goto(l, "opening")
       \/ /\ answer[l] = "failure"
          /\ log' = [log EXCEPT ![item[l]] = "failure"]
          /\ Goto(l, "free")
    /\ UNCHANGED <<run, runs, next, item, answer, out>>

\* writeFile(outFile) creates or truncates the file ...
OpenOut(l) ==
    /\ run = "running" /\ at[l] = "opening"
    /\ out' = [out EXCEPT ![item[l]] = "empty"]
    /\ Goto(l, "filling")
    /\ UNCHANGED <<run, runs, next, item, answer, log>>

\* ... and then writes the text, in one piece or in several.
Fill(l) ==
    /\ run = "running" /\ at[l] = "filling"
    /\ \/ /\ out[item[l]] = "empty"
          /\ out' = [out EXCEPT ![item[l]] = "partial"]
          /\ at' = at
       \/ /\ out' = [out EXCEPT ![item[l]] = "whole"]
          /\ Goto(l, "free")
    /\ UNCHANGED <<run, runs, next, item, answer, log>>

\* Promise.all is fulfilled: every lane has ended.
Finish ==
    /\ run = "running"
    /\ \A l \in Lane : at[l] = "ended"
    /\ run' = "finished"
    /\ UNCHANGED <<runs, laneVars, out, log>>

\* The script is killed, or one lane's writeFile rejects: then Promise.all
\* rejects and the process ends under the other lanes.
Interrupt ==
    /\ run = "running"
    /\ run' = "interrupted"
    /\ UNCHANGED <<runs, laneVars, out, log>>

\* It is started again: the files are what it knows of earlier runs.
Restart ==
    /\ run # "running"
    /\ runs < MaxRuns
    /\ run' = "running"
    /\ runs' = runs + 1
    /\ FreshLanes
    /\ UNCHANGED <<out, log>>

Work(l) ==
    \/ Take(l)
    \/ Check(l)
    \/ Answered(l)
    \/ WriteLog(l)
    \/ OpenOut(l)
    \/ Fill(l)

Next ==
    \/ \E l \in Lane : Work(l)
    \/ Finish
    \/ Interrupt
    \/ Restart

Spec == Init /\ [][Next]_vars

(***************************************************************************)
(* Fairness: every lane goes on.  For the prompt this is an assumption on   *)
(* the opencode server, as the script sets no timeout.                     *)
(***************************************************************************)
FairSpec == Spec /\ (\A l \in Lane : WF_vars(Work(l))) /\ WF_vars(Finish)

-----------------------------------------------------------------------------
(***************************************************************************)
(* Properties.                                                             *)
(***************************************************************************)
\* The values the variables range over.
TypeOK ==
    /\ run \in {"running", "finished", "interrupted"}
    /\ runs \in Nat
    /\ next \in 0..Count
    /\ at \in [Lane -> {"free", "checking", "prompting", "logging", "opening", "filling", "ended"}]
    /\ item \in [Lane -> Nat]
    /\ answer \in [Lane -> {"text", "failure"}]
    /\ out \in [Module -> {"none", "empty", "partial", "whole"}]
    /\ log \in [Module -> {"none", "answer", "failure"}]

Busy(l) == at[l] \notin {"free", "ended"}

Written(m) == out[m] \in {"partial", "whole"}

\* However the lanes overlap, no module is worked on by two of them.
OneLanePerModule ==
    \A k, l \in Lane : k # l /\ Busy(k) /\ Busy(l) => item[k] # item[l]

\* What has been written is never asked for again nor overwritten, in this run
\* or in a later one: a non-empty file changes only in the hands of the lane
\* that is in the middle of writing it.
DocumentsStay ==
    [][\A m \in Module :
         Written(m) /\ (\A l \in Lane : ~(at[l] = "filling" /\ item[l] = m))
           => out'[m] = out[m]]_vars

\* When a run finishes every module has its document, or a log file that says
\* why not; none was lost between the lanes or by an earlier interruption.
FinishedIsSettled ==
    run = "finished" => \A m \in Module : Written(m) \/ log[m] = "failure"

\* What a limit of 0 comes to instead: no run writes anything.
NothingIsDone == \A m \in Module : out[m] = "none" /\ log[m] = "none"

\* "Safe to interrupt and re-run": a run that finishes leaves no document cut
\* short by an earlier one.
FinishedIsWhole == run = "finished" => \A m \in Module : out[m] # "partial"

\* A run ends, if the opencode server ends every prompt.
RunEnds == run = "running" ~> run # "running"

-----------------------------------------------------------------------------
(***************************************************************************)
(* The inductive invariant: the modules below the counter are settled or in *)
(* the hands of exactly one lane.                                          *)
(***************************************************************************)
Settled(m) == Written(m) \/ log[m] = "failure"

BusyBelowNext == \A l \in Lane : Busy(l) => item[l] < next

NothingLeftBehind ==
    run # "interrupted" =>
        \A m \in Module : m < next => Settled(m) \/ \E l \in Lane : Busy(l) /\ item[l] = m

\* What the stat found holds until the lane itself writes the file.
AskedIsUnwritten ==
    \A l \in Lane : at[l] \in {"prompting", "logging", "opening"} => ~Written(item[l])

EndedMeansAllTaken ==
    /\ \A l \in Lane : at[l] = "ended" => next = Count
    /\ run = "finished" => \A l \in Lane : at[l] = "ended"

BatchInv ==
    /\ TypeOK
    /\ BusyBelowNext
    /\ OneLanePerModule
    /\ NothingLeftBehind
    /\ AskedIsUnwritten
    /\ EndedMeansAllTaken

-----------------------------------------------------------------------------
(***************************************************************************)
(* The safety in RunEnds: no step of a run leaves as much to do as before.   *)
(***************************************************************************)
\* How far a lane is from the end of the module it has taken.
StepsLeft(l) ==
    CASE at[l] = "ended"     -> 0
      [] at[l] = "free"      -> 1
      [] at[l] = "filling"   -> IF out[item[l]] = "empty" THEN 3 ELSE 2
      [] at[l] = "opening"   -> 4
      [] at[l] = "logging"   -> 5
      [] at[l] = "prompting" -> 6
      [] at[l] = "checking"  -> 7

\* In a run each step takes a module, or brings one lane closer to the end of
\* its own and no lane farther from it.  Modules and lanes are finite, so no run
\* goes on for ever.
LanesComeToAnEnd ==
    [][run = "running" /\ run' = "running" =>
         \/ next' = next + 1 /\ next' <= Count
         \/ /\ next' = next
            /\ \E l \in Lane : StepsLeft(l)' < StepsLeft(l)
            /\ \A l \in Lane : StepsLeft(l)' <= StepsLeft(l)]_vars
=============================================================================
