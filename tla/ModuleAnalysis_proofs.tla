------------------------ MODULE ModuleAnalysis_proofs ------------------------
(***************************************************************************)
(* Theorems about the batch runner, for any number of modules, lanes and    *)
(* runs.                                                                   *)
(***************************************************************************)
EXTENDS ModuleAnalysis, TLAPS

\* The first run starts with the invariant.
LEMMA BatchInit == Init => BatchInv
  BY CountAssumption, LimitAssumption
     DEF Init, BatchInv, TypeOK, BusyBelowNext, OneLanePerModule, NothingLeftBehind,
         AskedIsUnwritten, EndedMeansAllTaken, Busy, Module, Lane

\* The module a lane is working on is one of the list.
LEMMA BusyHasModule ==
    ASSUME BatchInv, NEW l \in Lane, Busy(l)
    PROVE  item[l] \in Module
<1>1. item[l] \in Nat /\ next \in 0..Count /\ item[l] < next
  BY DEF BatchInv, TypeOK, BusyBelowNext
<1> QED BY <1>1, CountAssumption DEF Module

\* A lane that goes on leaves the modules of the others in their hands.
LEMMA OthersKeepTheirs ==
    ASSUME BatchInv, NEW l \in Lane, run' = run, next' = next, item' = item,
           \A m \in Module : Settled(m) => Settled(m)',
           \A k \in Lane : k # l => at'[k] = at[k],
           Busy(l) => Settled(item[l])' \/ Busy(l)'
    PROVE  NothingLeftBehind'
<1> SUFFICES ASSUME run # "interrupted", NEW m \in Module, m < next
             PROVE  Settled(m)' \/ \E k \in Lane : Busy(k)' /\ item[k] = m
  BY DEF NothingLeftBehind
<1>1. CASE Settled(m)
  BY <1>1
<1>2. CASE ~Settled(m)
  <2>1. PICK k \in Lane : Busy(k) /\ item[k] = m
    BY <1>2 DEF BatchInv, NothingLeftBehind
  <2>2. CASE k = l
    BY <2>1, <2>2
  <2>3. CASE k # l
    BY <2>1, <2>3 DEF Busy
  <2> QED BY <2>2, <2>3
<1> QED BY <1>1, <1>2

\* Every step of a lane, the end of a run and a new run keep it.
LEMMA BatchStep == BatchInv /\ [Next]_vars => BatchInv'
<1> SUFFICES ASSUME BatchInv, [Next]_vars PROVE BatchInv'
  OBVIOUS
<1> USE CountAssumption, LimitAssumption
<1> USE DEF Goto
<1> DEFINE Rest == /\ TypeOK /\ BusyBelowNext /\ OneLanePerModule
                   /\ AskedIsUnwritten /\ EndedMeansAllTaken
<1>1. SUFFICES Rest' /\ NothingLeftBehind'
  BY DEF BatchInv
<1>2. CASE UNCHANGED vars
  BY <1>2 DEF vars, laneVars, BatchInv, TypeOK, BusyBelowNext, OneLanePerModule,
              NothingLeftBehind, AskedIsUnwritten, EndedMeansAllTaken, Busy, Settled, Written
<1>3. ASSUME NEW l \in Lane, Take(l) PROVE Rest' /\ NothingLeftBehind'
  <2>1. Rest'
    BY <1>3 DEF Take, HasMore, Taken, BatchInv, TypeOK, BusyBelowNext, OneLanePerModule,
                AskedIsUnwritten, EndedMeansAllTaken, Busy, Written
  <2>2. ASSUME HasMore PROVE NothingLeftBehind'
    <3> SUFFICES ASSUME NEW m \in Module, m < next'
                 PROVE  Settled(m)' \/ \E k \in Lane : Busy(k)' /\ item'[k] = m
      BY DEF NothingLeftBehind
    <3>1. at[l] = "free" /\ at'[l] = "checking" /\ item'[l] = next /\ next' = next + 1
      BY <1>3, <2>2 DEF Take, Taken, BatchInv, TypeOK
    <3>2. CASE m = next
      BY <3>1, <3>2 DEF Busy
    <3>3. CASE m < next
      <4>1. CASE Settled(m)
        BY <1>3, <4>1 DEF Take, Settled, Written
      <4>2. CASE ~Settled(m)
        <5>1. PICK k \in Lane : Busy(k) /\ item[k] = m
          BY <1>3, <3>3, <4>2 DEF Take, BatchInv, NothingLeftBehind
        <5>2. k # l
          BY <3>1, <5>1 DEF Busy
        <5>3. at'[k] = at[k] /\ item'[k] = item[k]
          BY <1>3, <2>2, <5>2 DEF Take, BatchInv, TypeOK, HasMore
        <5> QED BY <5>1, <5>3 DEF Busy
      <4> QED BY <4>1, <4>2
    <3> QED BY <3>1, <3>2, <3>3 DEF BatchInv, TypeOK, Module
  <2>3. ASSUME ~HasMore PROVE NothingLeftBehind'
    <3>1. /\ run' = run /\ next' = next /\ item' = item
          /\ \A m \in Module : Settled(m) => Settled(m)'
          /\ \A k \in Lane : k # l => at'[k] = at[k]
          /\ ~Busy(l)
      BY <1>3, <2>3 DEF Take, Settled, Written, BatchInv, TypeOK, Busy
    <3> QED BY <3>1, OthersKeepTheirs
  <2> QED BY <2>1, <2>2, <2>3
<1>4. ASSUME NEW l \in Lane, Check(l) PROVE Rest' /\ NothingLeftBehind'
  <2>1. Rest'
    BY <1>4 DEF Check, IsNonEmptyFile, BatchInv, TypeOK, BusyBelowNext, OneLanePerModule,
                AskedIsUnwritten, EndedMeansAllTaken, Busy, Written
  <2>2. /\ run' = run /\ next' = next /\ item' = item
        /\ \A m \in Module : Settled(m) => Settled(m)'
        /\ \A k \in Lane : k # l => at'[k] = at[k]
        /\ Settled(item[l])' \/ Busy(l)'
    BY <1>4 DEF Check, IsNonEmptyFile, Settled, Written, BatchInv, TypeOK, Busy
  <2> QED BY <2>1, <2>2, OthersKeepTheirs
<1>5. ASSUME NEW l \in Lane, Answered(l) PROVE Rest' /\ NothingLeftBehind'
  <2>1. Rest'
    BY <1>5 DEF Answered, BatchInv, TypeOK, BusyBelowNext, OneLanePerModule,
                AskedIsUnwritten, EndedMeansAllTaken, Busy, Written
  <2>2. /\ run' = run /\ next' = next /\ item' = item
        /\ \A m \in Module : Settled(m) => Settled(m)'
        /\ \A k \in Lane : k # l => at'[k] = at[k]
        /\ Busy(l)'
    BY <1>5 DEF Answered, Settled, Written, BatchInv, TypeOK, Busy
  <2> QED BY <2>1, <2>2, OthersKeepTheirs
<1>6. ASSUME NEW l \in Lane, WriteLog(l) PROVE Rest' /\ NothingLeftBehind'
  <2>1. item[l] \in Module
    BY <1>6, BusyHasModule DEF WriteLog, Busy
  <2>2. Rest'
    BY <1>6 DEF WriteLog, BatchInv, TypeOK, BusyBelowNext, OneLanePerModule,
                AskedIsUnwritten, EndedMeansAllTaken, Busy, Written
  <2>3. ASSUME answer[l] = "text" PROVE NothingLeftBehind'
    <3>1. /\ run' = run /\ next' = next /\ item' = item
          /\ \A k \in Lane : k # l => at'[k] = at[k]
          /\ Busy(l)'
      BY <1>6, <2>3 DEF WriteLog, BatchInv, TypeOK, Busy
    <3> SUFFICES ASSUME run # "interrupted", NEW m \in Module, m < next
                 PROVE  Settled(m)' \/ \E k \in Lane : Busy(k)' /\ item[k] = m
      BY <3>1 DEF NothingLeftBehind
    <3>2. CASE m = item[l]
      BY <3>1, <3>2
    <3>3. CASE m # item[l] /\ Settled(m)
      BY <1>6, <3>3 DEF WriteLog, Settled, Written, BatchInv, TypeOK
    <3>4. CASE m # item[l] /\ ~Settled(m)
      <4>1. PICK k \in Lane : Busy(k) /\ item[k] = m
        BY <3>4 DEF BatchInv, NothingLeftBehind
      <4> QED BY <3>1, <3>4, <4>1 DEF Busy
    <3> QED BY <3>2, <3>3, <3>4
  <2>4. ASSUME answer[l] = "failure" PROVE NothingLeftBehind'
    <3>1. /\ run' = run /\ next' = next /\ item' = item
          /\ \A k \in Lane : k # l => at'[k] = at[k]
      BY <1>6, <2>4 DEF WriteLog, BatchInv, TypeOK
    <3>2. /\ \A m \in Module : Settled(m) => Settled(m)'
          /\ Settled(item[l])'
      BY <1>6, <2>1, <2>4 DEF WriteLog, Settled, Written, BatchInv, TypeOK
    <3> QED BY <3>1, <3>2, OthersKeepTheirs
  <2> QED BY <2>2, <2>3, <2>4, <1>6 DEF BatchInv, TypeOK
<1>7. ASSUME NEW l \in Lane, OpenOut(l) PROVE Rest' /\ NothingLeftBehind'
  <2>1. Rest'
    BY <1>7 DEF OpenOut, BatchInv, TypeOK, BusyBelowNext, OneLanePerModule,
                AskedIsUnwritten, EndedMeansAllTaken, Busy, Written, Module
  <2>2. /\ run' = run /\ next' = next /\ item' = item
        /\ \A m \in Module : Settled(m) => Settled(m)'
        /\ \A k \in Lane : k # l => at'[k] = at[k]
        /\ Busy(l)'
    BY <1>7 DEF OpenOut, Settled, Written, BatchInv, TypeOK, AskedIsUnwritten, Busy
  <2> QED BY <2>1, <2>2, OthersKeepTheirs
<1>8. ASSUME NEW l \in Lane, Fill(l) PROVE Rest' /\ NothingLeftBehind'
  <2>1. item[l] \in Module
    BY <1>8, BusyHasModule DEF Fill, Busy
  <2>2. Rest'
    <3>1. (TypeOK /\ BusyBelowNext /\ OneLanePerModule /\ EndedMeansAllTaken)'
      BY <1>8, <2>1 DEF Fill, BatchInv, TypeOK, BusyBelowNext, OneLanePerModule,
                        EndedMeansAllTaken, Busy
    <3>2. \A k \in Lane : at'[k] \in {"prompting", "logging", "opening"}
            => k # l /\ at[k] = at'[k] /\ item[k] # item[l]
      BY <1>8 DEF Fill, BatchInv, TypeOK, OneLanePerModule, Busy
    <3>3. AskedIsUnwritten'
      <4> SUFFICES ASSUME NEW k \in Lane, at'[k] \in {"prompting", "logging", "opening"}
                   PROVE  ~Written(item[k])'
        BY <1>8 DEF Fill, AskedIsUnwritten
      <4>1. item[k] \in Module /\ item[k] # item[l] /\ ~Written(item[k])
        BY <3>2, BusyHasModule DEF BatchInv, AskedIsUnwritten, Busy
      <4>2. out'[item[k]] = out[item[k]] /\ item' = item
        BY <1>8, <4>1 DEF Fill, BatchInv, TypeOK
      <4> QED BY <4>1, <4>2 DEF Written
    <3> QED BY <3>1, <3>3
  <2>3. /\ run' = run /\ next' = next /\ item' = item
        /\ \A k \in Lane : k # l => at'[k] = at[k]
    BY <1>8 DEF Fill, BatchInv, TypeOK
  <2>4. /\ \A m \in Module : Settled(m) => Settled(m)'
        /\ Settled(item[l])'
    BY <1>8, <2>1 DEF Fill, Settled, Written, BatchInv, TypeOK
  <2> QED BY <2>2, <2>3, <2>4, OthersKeepTheirs
<1>9. CASE Finish
  BY <1>9 DEF Finish, laneVars, BatchInv, TypeOK, BusyBelowNext, OneLanePerModule,
              NothingLeftBehind, AskedIsUnwritten, EndedMeansAllTaken, Busy, Settled, Written
<1>10. CASE Interrupt
  BY <1>10 DEF Interrupt, laneVars, BatchInv, TypeOK, BusyBelowNext, OneLanePerModule,
              NothingLeftBehind, AskedIsUnwritten, EndedMeansAllTaken, Busy, Settled, Written
<1>11. CASE Restart
  BY <1>11 DEF Restart, FreshLanes, BatchInv, TypeOK, BusyBelowNext, OneLanePerModule,
               NothingLeftBehind, AskedIsUnwritten, EndedMeansAllTaken, Busy, Module, Written
<1> QED
  BY <1>2, <1>3, <1>4, <1>5, <1>6, <1>7, <1>8, <1>9, <1>10, <1>11 DEF Next, Work

\* So it always holds.
LEMMA BatchAlways == Spec => []BatchInv
  BY BatchInit, BatchStep, PTL DEF Spec

-----------------------------------------------------------------------------
\* Every variable of the runner keeps to its range.
THEOREM TypeCorrect == Spec => []TypeOK
<1>1. BatchInv => TypeOK
  BY DEF BatchInv
<1> QED BY <1>1, BatchAlways, PTL

\* Two lanes never work on the same module.
THEOREM OneLaneCorrect == Spec => []OneLanePerModule
<1>1. BatchInv => OneLanePerModule
  BY DEF BatchInv
<1> QED BY <1>1, BatchAlways, PTL

\* No module is lost, whatever was interrupted before, if there is a lane at all.
THEOREM SettledCorrect ==
    ASSUME Limit # 0
    PROVE  Spec => []FinishedIsSettled
<1>1. ASSUME BatchInv PROVE FinishedIsSettled
  <2> SUFFICES ASSUME run = "finished", NEW m \in Module
               PROVE  Written(m) \/ log[m] = "failure"
    BY DEF FinishedIsSettled
  <2>1. 1 \in Lane
    BY CountAssumption, LimitAssumption DEF Module, Lane
  <2>2. \A l \in Lane : at[l] = "ended" /\ next = Count
    BY <1>1 DEF BatchInv, EndedMeansAllTaken
  <2>3. m < next
    BY <2>1, <2>2, CountAssumption DEF Module
  <2> QED BY <1>1, <2>2, <2>3 DEF BatchInv, NothingLeftBehind, Settled, Busy
<1> QED BY <1>1, BatchAlways, PTL

\* Without a lane every run finishes, or is interrupted, with nothing done, and
\* says nothing of it: CONCURRENCY is not checked.
THEOREM NoLanesCorrect ==
    ASSUME Limit = 0
    PROVE  Spec => []NothingIsDone
<1>1. Lane = {}
  BY CountAssumption DEF Lane
<1>2. Init => NothingIsDone
  BY DEF Init, NothingIsDone
<1>3. NothingIsDone /\ [Next]_vars => NothingIsDone'
  BY <1>1 DEF NothingIsDone, Next, Finish, Interrupt, Restart, vars
<1> QED BY <1>2, <1>3, PTL DEF Spec

\* A document is only touched by the lane that is writing it.
THEOREM DocumentsStayCorrect == Spec => DocumentsStay
<1> DEFINE Stay == \A m \in Module :
                     Written(m) /\ (\A l \in Lane : ~(at[l] = "filling" /\ item[l] = m))
                       => out'[m] = out[m]
<1>1. ASSUME BatchInv, [Next]_vars PROVE [Stay]_vars
  <2> SUFFICES ASSUME Next, NEW m \in Module, Written(m),
                      \A l \in Lane : ~(at[l] = "filling" /\ item[l] = m)
               PROVE  out'[m] = out[m]
    BY <1>1
  <2>1. ASSUME NEW l \in Lane, OpenOut(l) PROVE out'[m] = out[m]
    <3>1. item[l] # m
      BY <1>1, <2>1 DEF OpenOut, BatchInv, AskedIsUnwritten
    <3> QED BY <1>1, <2>1, <3>1 DEF OpenOut, BatchInv, TypeOK
  <2>2. ASSUME NEW l \in Lane, Fill(l) PROVE out'[m] = out[m]
    BY <1>1, <2>2 DEF Fill, BatchInv, TypeOK
  <2>3. ASSUME NEW l \in Lane, Take(l) \/ Check(l) \/ Answered(l) \/ WriteLog(l)
        PROVE  out' = out
    BY <2>3 DEF Take, Check, Answered, WriteLog
  <2>4. Finish \/ Interrupt \/ Restart => out' = out
    BY DEF Finish, Interrupt, Restart
  <2> QED BY <2>1, <2>2, <2>3, <2>4 DEF Next, Work
<1> QED BY <1>1, BatchAlways, PTL DEF Spec, DocumentsStay

-----------------------------------------------------------------------------
(***************************************************************************)
(* That no run goes on for ever.                                           *)
(***************************************************************************)
\* A step of lane l that brings it closer, and does not touch what others hold.
LEMMA OneComesCloser ==
    ASSUME BatchInv, NEW l \in Lane, next' = next,
           \A k \in Lane : k # l => at'[k] = at[k] /\ item'[k] = item[k],
           \A m \in Module : m # item[l] => out'[m] = out[m],
           \/ UNCHANGED out
           \/ Busy(l),
           StepsLeft(l)' \in Nat, StepsLeft(l)' < StepsLeft(l)
    PROVE  /\ \E k \in Lane : StepsLeft(k)' < StepsLeft(k)
           /\ \A k \in Lane : StepsLeft(k)' <= StepsLeft(k)
<1>1. ASSUME NEW k \in Lane, k # l PROVE StepsLeft(k)' = StepsLeft(k)
  <2>1. CASE at[k] = "filling"
    <3>1. item[k] \in Module
      BY <2>1, BusyHasModule DEF Busy
    <3>2. out'[item[k]] = out[item[k]]
      BY <1>1, <2>1, <3>1 DEF BatchInv, OneLanePerModule, Busy
    <3> QED BY <1>1, <2>1, <3>2 DEF StepsLeft
  <2>2. CASE at[k] # "filling"
    BY <1>1, <2>2 DEF StepsLeft, BatchInv, TypeOK
  <2> QED BY <2>1, <2>2
<1>2. \A k \in Lane : StepsLeft(k) \in Nat
  BY DEF BatchInv, TypeOK, StepsLeft
<1> QED BY <1>1, <1>2

\* Every step of a run uses up something there is only so much of, for any number
\* of modules and lanes: what is missing from RunEnds is only that steps come.
THEOREM NoEndlessRun == Spec => LanesComeToAnEnd
<1> DEFINE Closer ==
      /\ next' = next
      /\ \E l \in Lane : StepsLeft(l)' < StepsLeft(l)
      /\ \A l \in Lane : StepsLeft(l)' <= StepsLeft(l)
<1>1. ASSUME BatchInv, Next, run = "running", run' = "running"
      PROVE  (next' = next + 1 /\ next' <= Count) \/ Closer
  <2>1. PICK l \in Lane : Work(l)
    BY <1>1 DEF Next, Finish, Interrupt, Restart
  <2>2. at \in [Lane -> {"free", "checking", "prompting", "logging", "opening", "filling", "ended"}]
        /\ item \in [Lane -> Nat] /\ next \in 0..Count
        /\ out \in [Module -> {"none", "empty", "partial", "whole"}]
    BY <1>1 DEF BatchInv, TypeOK
  <2>3. CASE HasMore /\ next' = Taken
    BY <2>2, <2>3, CountAssumption DEF HasMore, Taken
  <2>4. CASE Take(l) /\ ~HasMore /\ Goto(l, "ended") /\ UNCHANGED <<next, item>>
    BY <1>1, <2>2, <2>4, OneComesCloser DEF Take, Goto, StepsLeft
  <2>5. CASE Check(l) \/ Answered(l) \/ WriteLog(l)
    BY <1>1, <2>2, <2>5, OneComesCloser DEF Check, Answered, WriteLog, Goto, StepsLeft
  <2>6. CASE OpenOut(l)
    <3>1. item[l] \in Module
      BY <1>1, <2>6, BusyHasModule DEF OpenOut, Busy
    <3> QED BY <1>1, <2>2, <2>6, <3>1, OneComesCloser DEF OpenOut, Goto, StepsLeft, Busy
  <2>7. CASE Fill(l)
    <3>1. item[l] \in Module
      BY <1>1, <2>7, BusyHasModule DEF Fill, Busy
    <3> QED BY <1>1, <2>2, <2>7, <3>1, OneComesCloser DEF Fill, Goto, StepsLeft, Busy
  <2> QED BY <2>1, <2>3, <2>4, <2>5, <2>6, <2>7 DEF Work, Take
<1> QED BY <1>1, BatchAlways, PTL DEF Spec, LanesComeToAnEnd
=============================================================================
