--------------------------- MODULE HcrBuildProofs ---------------------------
(***************************************************************************)
(* Builds implement the seam, and what they report about a build is true,  *)
(* for any build graph, any number of executions, attempts, requests and   *)
(* faults.                                                                 *)
(***************************************************************************)
EXTENDS HcrBuild, StateSeamProofs

-----------------------------------------------------------------------------
(* What runs and requests hold in hand *)

\* The trigger node of an execution is a node of the build graph.
OriginsBuild == origin \in [Executions -> BuildNodes \union {Absent}]

\* A run works for an execution that exists.
RunsHaveRows == \A c \in Executions : run[c] # "absent" => Exists(c)

\* A request that is past its read holds rows that exist.
RequestsHaveRows ==
    \A q \in Requests :
        /\ request[q].step \in {"starting", "startFailed", "cancelling", "cancelRows"}
              => request[q].e \in Executions /\ Exists(request[q].e)
        /\ request[q].step = "resuming"
              => request[q].e \in Executions /\ request[q].t \in BuildNodes

HandInv == TypeOK /\ RowsAreLinked /\ OriginsBuild /\ RunsHaveRows /\ RequestsHaveRows

LEMMA OriginKnown ==
  ASSUME HandInv, NEW c \in Executions, Exists(c)
  PROVE  origin[c] \in BuildNodes
BY SeamAssumption DEF HandInv, RowsAreLinked, OriginsBuild

\* Every step of a build is one transaction of the seam, or touches no row.
LEMMA StepRefines ==
  HandInv /\ [Next]_vars => [SeamNext]_seamVars
<1> SUFFICES ASSUME HandInv, [Next]_vars
             PROVE  [SeamNext]_seamVars
  OBVIOUS
<1> USE DEF HandInv
<1>1. ASSUME NEW e \in Executions, Validate(e)
      PROVE  [SeamNext]_seamVars
  BY <1>1 DEF Validate
<1>2. ASSUME NEW e \in Executions, Settle(e)
      PROVE  [SeamNext]_seamVars
  BY <1>2 DEF Settle, Joined, Failures
<1>3. ASSUME NEW e \in Executions, Rescue(e)
      PROVE  [SeamNext]_seamVars
  BY <1>3, OriginKnown DEF Rescue, FailTrigger, BuildNodes, SeamNext, RunsHaveRows
<1>4. ASSUME NEW e \in Executions, Finalize(e)
      PROVE  [SeamNext]_seamVars
  BY <1>4 DEF Finalize, FinalizeRows, SeamNext
<1>5. ASSUME NEW e \in Executions, Report(e)
      PROVE  [SeamNext]_seamVars
  BY <1>5 DEF Report
<1>6. ASSUME NEW e \in Executions, RunCancelled(e)
      PROVE  [SeamNext]_seamVars
  BY <1>6 DEF RunCancelled
<1>7. ASSUME NEW e \in Executions, ValidateFails(e)
      PROVE  [SeamNext]_seamVars
  BY <1>7 DEF ValidateFails
<1>8. ASSUME NEW e \in Executions, RescueFails(e)
      PROVE  [SeamNext]_seamVars
  BY <1>8 DEF RescueFails
<1>9. ASSUME NEW e \in Executions, FinalizeFails(e)
      PROVE  [SeamNext]_seamVars
  BY <1>9 DEF FinalizeFails, FinalizeRows, SeamNext
<1>10. ASSUME NEW e \in Executions, ReportFails(e)
       PROVE  [SeamNext]_seamVars
  BY <1>10 DEF ReportFails
<1>11. ASSUME NEW e \in Executions, RunTimedOut(e)
       PROVE  [SeamNext]_seamVars
  BY <1>11 DEF RunTimedOut
<1>12. ASSUME NEW e \in Executions, NEW t \in BuildNodes, Coordinate(e, t)
       PROVE  [SeamNext]_seamVars
  BY <1>12, BuildAssumption DEF Coordinate, Remaining, BuildNodes, SeamNext
<1>13. ASSUME NEW e \in Executions, NEW t \in BuildNodes, Compensate(e, t)
       PROVE  [SeamNext]_seamVars
  BY <1>13 DEF Compensate, Remaining, BuildNodes, SeamNext
<1>14. ASSUME NEW e \in Executions, NEW t \in BuildNodes, CoordinateFails(e, t)
       PROVE  [SeamNext]_seamVars
  BY <1>14, BuildAssumption DEF CoordinateFails, Missing, BuildNodes, SeamNext
<1>15. ASSUME NEW e \in Executions, NEW t \in BuildNodes, CompensateFails(e, t)
       PROVE  [SeamNext]_seamVars
  BY <1>15 DEF CompensateFails, BuildNodes, SeamNext
<1>16. ASSUME NEW e \in Executions, NEW t \in BuildNodes, NEW a \in Attempts, AttemptBegin(e, t, a)
       PROVE  [SeamNext]_seamVars
  BY <1>16 DEF AttemptBegin, BuildNodes, SeamNext
<1>17. ASSUME NEW e \in Executions, NEW t \in BuildNodes, NEW a \in Attempts, AttemptWrite(e, t, a)
       PROVE  [SeamNext]_seamVars
  BY <1>17 DEF AttemptWrite, BuildNodes, SeamNext
<1>18. ASSUME NEW e \in Executions, NEW t \in BuildNodes, NEW a \in Attempts, AttemptComplete(e, t, a)
       PROVE  [SeamNext]_seamVars
  BY <1>18 DEF AttemptComplete, BuildNodes, SeamNext
<1>19. ASSUME NEW e \in Executions, NEW t \in BuildNodes, NEW a \in Attempts, AttemptStop(e, t, a)
       PROVE  [SeamNext]_seamVars
  BY <1>19 DEF AttemptStop, BuildNodes, SeamNext
<1>20. ASSUME NEW e \in Executions, NEW t \in BuildNodes, NEW a \in Attempts, AttemptFail(e, t, a)
       PROVE  [SeamNext]_seamVars
  BY <1>20 DEF AttemptFail
<1>21. ASSUME NEW e \in Executions, NEW t \in BuildNodes, NEW a \in Attempts, LeaseLost(e, t, a)
       PROVE  [SeamNext]_seamVars
  BY <1>21 DEF LeaseLost
<1>22. ASSUME NEW r \in Requests, DiscoveryTurn(r)
       PROVE  [SeamNext]_seamVars
  BY <1>22 DEF DiscoveryTurn
<1>23. ASSUME NEW r \in Requests, DiscoveryCompletes(r)
       PROVE  [SeamNext]_seamVars
  BY <1>23 DEF DiscoveryCompletes, SeamNext
<1>24. ASSUME NEW r \in Requests, DiscoveryContinues(r)
       PROVE  [SeamNext]_seamVars
  BY <1>24 DEF DiscoveryContinues
<1>25. ASSUME NEW r \in Requests, StartBuild(r)
       PROVE  [SeamNext]_seamVars
  BY <1>25 DEF StartBuild, Admit, SeamNext
<1>26. ASSUME NEW r \in Requests, RetryBuild(r)
       PROVE  [SeamNext]_seamVars
  BY <1>26 DEF RetryBuild
<1>27. ASSUME NEW r \in Requests, RetryFresh(r)
       PROVE  [SeamNext]_seamVars
  BY <1>27 DEF RetryFresh, Admit, SeamNext
<1>28. ASSUME NEW r \in Requests, RetryResume(r)
       PROVE  [SeamNext]_seamVars
  BY <1>28 DEF RetryResume, RequestsHaveRows, BuildNodes, SeamNext
<1>29. ASSUME NEW r \in Requests, RetryRejected(r)
       PROVE  [SeamNext]_seamVars
  BY <1>29 DEF RetryRejected
<1>30. ASSUME NEW r \in Requests, TemporalStarts(r)
       PROVE  [SeamNext]_seamVars
  BY <1>30 DEF TemporalStarts
<1>31. ASSUME NEW r \in Requests, TemporalRefuses(r)
       PROVE  [SeamNext]_seamVars
  BY <1>31 DEF TemporalRefuses
<1>32. ASSUME NEW r \in Requests, StartAnswerLost(r)
       PROVE  [SeamNext]_seamVars
  BY <1>32 DEF StartAnswerLost
<1>33. ASSUME NEW r \in Requests, StartFails(r)
       PROVE  [SeamNext]_seamVars
  BY <1>33, OriginKnown DEF StartFails, FailTrigger, RequestsHaveRows, BuildNodes, SeamNext
<1>34. ASSUME NEW r \in Requests, CancelBuild(r)
       PROVE  [SeamNext]_seamVars
  BY <1>34 DEF CancelBuild
<1>35. ASSUME NEW r \in Requests, CancelTemporal(r)
       PROVE  [SeamNext]_seamVars
  BY <1>35 DEF CancelTemporal
<1>36. ASSUME NEW r \in Requests, CancelRows(r)
       PROVE  [SeamNext]_seamVars
  BY <1>36 DEF CancelRows, RequestsHaveRows, SeamNext
<1>37. ASSUME NEW r \in Requests, Crash(r)
       PROVE  [SeamNext]_seamVars
  BY <1>37 DEF Crash
<1>38. CASE UNCHANGED vars
  BY <1>38 DEF vars
<1>39. QED
  BY <1>1, <1>2, <1>3, <1>4, <1>5, <1>6, <1>7, <1>8, <1>9, <1>10, <1>11,
     <1>12, <1>13, <1>14, <1>15, <1>16, <1>17, <1>18, <1>19, <1>20, <1>21,
     <1>22, <1>23, <1>24, <1>25, <1>26, <1>27, <1>28, <1>29, <1>30, <1>31,
     <1>32, <1>33, <1>34, <1>35, <1>36, <1>37, <1>38
  DEF Next, RunStepOf, RunFault, AttemptStepOf, Arrival, RequestStepOf
-----------------------------------------------------------------------------
(* What a run and a request hold stays true *)

\* Only an admission sets an origin, and it sets it to a node of the graph.
LEMMA OriginsNext == HandInv /\ [Next]_vars => OriginsBuild'
<1> SUFFICES ASSUME HandInv, [Next]_vars
             PROVE  OriginsBuild'
  OBVIOUS
<1> USE DEF HandInv, OriginsBuild
<1>1. ASSUME NEW e \in Executions, NEW w, NEW t \in BuildNodes,
             CreateExecution(e, w, t)
      PROVE  OriginsBuild'
  BY <1>1 DEF CreateExecution
<1>2. ASSUME UNCHANGED origin
      PROVE  OriginsBuild'
  BY <1>2
<1>3. ASSUME NEW r \in Requests, StartBuild(r) \/ RetryFresh(r)
      PROVE  OriginsBuild'
  BY <1>1, <1>3, BuildAssumption DEF StartBuild, RetryFresh, Admit, StartHcrRun
<1>4. ASSUME NEW r \in Requests, RetryResume(r)
      PROVE  OriginsBuild'
  BY <1>1, <1>4 DEF RetryResume, ResumeHcrRun, RequestsHaveRows
<1>5. ASSUME NEW e \in Executions, RunStepOf(e) \/ RunFault(e)
      PROVE  UNCHANGED origin
  BY <1>5
  DEF RunStepOf, RunFault, Validate, Settle, Coordinate, Compensate, Rescue,
      Finalize, Report, RunCancelled, ValidateFails, CoordinateFails,
      CompensateFails, RescueFails, FinalizeFails, ReportFails, RunTimedOut,
      FinalizeRows, CreateNodes, FailExecution, FailTrigger, CompleteExecution, IsOver,
      CompleteExecutionPartially, Finish, seamVars
<1>6. ASSUME NEW e \in Executions, NEW t \in BuildNodes, NEW a \in Attempts,
             AttemptStepOf(e, t, a) \/ LeaseLost(e, t, a)
      PROVE  UNCHANGED origin
  BY <1>6
  DEF AttemptStepOf, AttemptBegin, AttemptWrite, AttemptComplete, AttemptStop,
      AttemptFail, LeaseLost, BeginNode, CompleteNode, StopNode, seamVars
<1>7. ASSUME NEW r \in Requests,
             \/ DiscoveryTurn(r) \/ DiscoveryCompletes(r) \/ DiscoveryContinues(r)
             \/ RetryBuild(r) \/ RetryRejected(r) \/ TemporalStarts(r)
             \/ TemporalRefuses(r) \/ StartAnswerLost(r) \/ StartFails(r)
             \/ CancelBuild(r) \/ CancelTemporal(r) \/ CancelRows(r) \/ Crash(r)
      PROVE  UNCHANGED origin
  BY <1>7
  DEF DiscoveryTurn, DiscoveryCompletes, DiscoveryContinues, RetryBuild,
      RetryRejected, TemporalStarts, TemporalRefuses, StartAnswerLost,
      StartFails, CancelBuild, CancelTemporal, CancelRows, Crash,
      CompleteDiscovery, FailExecution, FailTrigger, CancelExecution,
      seamVars
<1>8. CASE UNCHANGED vars
  BY <1>2, <1>8 DEF vars, seamVars
<1>9. QED
  BY <1>2, <1>3, <1>4, <1>5, <1>6, <1>7, <1>8 DEF Next, Arrival, RequestStepOf

\* A run or a request that starts on a row finds it there at each later step.
LEMMA HandsNext == HandInv /\ [Next]_vars => RunsHaveRows' /\ RequestsHaveRows'
<1> SUFFICES ASSUME HandInv, [Next]_vars
             PROVE  RunsHaveRows' /\ RequestsHaveRows'
  OBVIOUS
<1>0. \A c \in Executions : Exists(c) => Exists(c)'
  BY StepRefines, RowsStay DEF HandInv, TypeOK, RowsKept
<1> USE <1>0 DEF HandInv, TypeOK, RunsHaveRows, RequestsHaveRows, MoveRun,
        MoveRequest, EndRequest, IdleRequest, RequestStep, runVars, Open
<1>1. ASSUME NEW e \in Executions, Validate(e)
      PROVE  RunsHaveRows' /\ RequestsHaveRows'
  BY <1>1 DEF Validate, Schedule
<1>2. ASSUME NEW e \in Executions, Settle(e)
      PROVE  RunsHaveRows' /\ RequestsHaveRows'
  BY <1>2 DEF Settle, Joined, Failures
<1>3. ASSUME NEW e \in Executions, Rescue(e)
      PROVE  RunsHaveRows' /\ RequestsHaveRows'
  BY <1>3 DEF Rescue, FailTrigger
<1>4. ASSUME NEW e \in Executions, Finalize(e)
      PROVE  RunsHaveRows' /\ RequestsHaveRows'
  BY <1>4 DEF Finalize
<1>5. ASSUME NEW e \in Executions, Report(e)
      PROVE  RunsHaveRows' /\ RequestsHaveRows'
  BY <1>5 DEF Report
<1>6. ASSUME NEW e \in Executions, RunCancelled(e)
      PROVE  RunsHaveRows' /\ RequestsHaveRows'
  BY <1>6 DEF RunCancelled
<1>7. ASSUME NEW e \in Executions, ValidateFails(e)
      PROVE  RunsHaveRows' /\ RequestsHaveRows'
  BY <1>7 DEF ValidateFails
<1>8. ASSUME NEW e \in Executions, RescueFails(e)
      PROVE  RunsHaveRows' /\ RequestsHaveRows'
  BY <1>8 DEF RescueFails
<1>9. ASSUME NEW e \in Executions, FinalizeFails(e)
      PROVE  RunsHaveRows' /\ RequestsHaveRows'
  BY <1>9 DEF FinalizeFails
<1>10. ASSUME NEW e \in Executions, ReportFails(e)
       PROVE  RunsHaveRows' /\ RequestsHaveRows'
  BY <1>10 DEF ReportFails
<1>11. ASSUME NEW e \in Executions, RunTimedOut(e)
       PROVE  RunsHaveRows' /\ RequestsHaveRows'
  BY <1>11 DEF RunTimedOut
<1>12. ASSUME NEW e \in Executions, NEW t \in BuildNodes, Coordinate(e, t)
       PROVE  RunsHaveRows' /\ RequestsHaveRows'
  BY <1>12 DEF Coordinate, Remaining, Schedule
<1>13. ASSUME NEW e \in Executions, NEW t \in BuildNodes, Compensate(e, t)
       PROVE  RunsHaveRows' /\ RequestsHaveRows'
  BY <1>13 DEF Compensate, Remaining
<1>14. ASSUME NEW e \in Executions, NEW t \in BuildNodes, CoordinateFails(e, t)
       PROVE  RunsHaveRows' /\ RequestsHaveRows'
  BY <1>14 DEF CoordinateFails
<1>15. ASSUME NEW e \in Executions, NEW t \in BuildNodes, CompensateFails(e, t)
       PROVE  RunsHaveRows' /\ RequestsHaveRows'
  BY <1>15 DEF CompensateFails
<1>16. ASSUME NEW e \in Executions, NEW t \in BuildNodes, NEW a \in Attempts, AttemptBegin(e, t, a)
       PROVE  RunsHaveRows' /\ RequestsHaveRows'
  BY <1>16 DEF AttemptBegin
<1>17. ASSUME NEW e \in Executions, NEW t \in BuildNodes, NEW a \in Attempts, AttemptWrite(e, t, a)
       PROVE  RunsHaveRows' /\ RequestsHaveRows'
  BY <1>17 DEF AttemptWrite
<1>18. ASSUME NEW e \in Executions, NEW t \in BuildNodes, NEW a \in Attempts, AttemptComplete(e, t, a)
       PROVE  RunsHaveRows' /\ RequestsHaveRows'
  BY <1>18 DEF AttemptComplete
<1>19. ASSUME NEW e \in Executions, NEW t \in BuildNodes, NEW a \in Attempts, AttemptStop(e, t, a)
       PROVE  RunsHaveRows' /\ RequestsHaveRows'
  BY <1>19 DEF AttemptStop
<1>20. ASSUME NEW e \in Executions, NEW t \in BuildNodes, NEW a \in Attempts, AttemptFail(e, t, a)
       PROVE  RunsHaveRows' /\ RequestsHaveRows'
  BY <1>20 DEF AttemptFail
<1>21. ASSUME NEW e \in Executions, NEW t \in BuildNodes, NEW a \in Attempts, LeaseLost(e, t, a)
       PROVE  RunsHaveRows' /\ RequestsHaveRows'
  BY <1>21 DEF LeaseLost
<1>22. ASSUME NEW r \in Requests, DiscoveryTurn(r)
       PROVE  RunsHaveRows' /\ RequestsHaveRows'
  BY <1>22 DEF DiscoveryTurn
<1>23. ASSUME NEW r \in Requests, DiscoveryCompletes(r)
       PROVE  RunsHaveRows' /\ RequestsHaveRows'
  BY <1>23 DEF DiscoveryCompletes
<1>24. ASSUME NEW r \in Requests, DiscoveryContinues(r)
       PROVE  RunsHaveRows' /\ RequestsHaveRows'
  BY <1>24 DEF DiscoveryContinues
<1>25. ASSUME NEW r \in Requests, StartBuild(r)
       PROVE  RunsHaveRows' /\ RequestsHaveRows'
  <2>1. PICK e \in Executions : Admit(r, e)
    BY <1>25 DEF StartBuild
  <2>2. Exists(e)' /\ UNCHANGED run
    BY <2>1 DEF Admit, StartHcrRun, CreateExecution, Exists, SeamTypeOK, Absent
  <2>3. request' = [request EXCEPT ![r] = [step |-> "starting", e |-> e, t |-> Absent]]
    BY <2>1 DEF Admit
  <2>4. QED
    BY <2>2, <2>3
<1>26. ASSUME NEW r \in Requests, RetryBuild(r)
       PROVE  RunsHaveRows' /\ RequestsHaveRows'
  <2>1. UNCHANGED run
    BY <1>26 DEF RetryBuild
  <2>2. CASE HasTarget
    <3>1. PICK e \in Executions, t \in BuildNodes : MoveRequest(r, "resuming", e, t)
      BY <1>26, <2>2 DEF RetryBuild, Latest, Resumable, Stopped
    <3>2. request' = [request EXCEPT ![r] = [step |-> "resuming", e |-> e, t |-> t]]
      BY <3>1
    <3>3. QED
      BY <2>1, <3>2
  <2>3. CASE ~HasTarget
    <3>1. request' = [request EXCEPT ![r] = [step |-> "fresh", e |-> 0, t |-> Absent]]
      BY <1>26, <2>3 DEF RetryBuild
    <3>2. QED
      BY <2>1, <3>1
  <2>4. QED
    BY <2>2, <2>3
<1>27. ASSUME NEW r \in Requests, RetryFresh(r)
       PROVE  RunsHaveRows' /\ RequestsHaveRows'
  <2>1. PICK e \in Executions : Admit(r, e)
    BY <1>27 DEF RetryFresh
  <2>2. Exists(e)' /\ UNCHANGED run
    BY <2>1 DEF Admit, StartHcrRun, CreateExecution, Exists, SeamTypeOK, Absent
  <2>3. request' = [request EXCEPT ![r] = [step |-> "starting", e |-> e, t |-> Absent]]
    BY <2>1 DEF Admit
  <2>4. QED
    BY <2>2, <2>3
<1>28. ASSUME NEW r \in Requests, RetryResume(r)
       PROVE  RunsHaveRows' /\ RequestsHaveRows'
  <2>1. PICK e \in Executions :
          /\ ResumeHcrRun(e, request[r].e, request[r].t)
          /\ MoveRequest(r, "starting", e, Absent)
    BY <1>28 DEF RetryResume
  <2>2. Exists(e)' /\ UNCHANGED run
    BY <1>28, <2>1
    DEF RetryResume, ResumeHcrRun, CreateExecution, Exists, SeamTypeOK, Absent
  <2>3. request' = [request EXCEPT ![r] = [step |-> "starting", e |-> e, t |-> Absent]]
    BY <2>1
  <2>4. QED
    BY <2>2, <2>3
<1>29. ASSUME NEW r \in Requests, RetryRejected(r)
       PROVE  RunsHaveRows' /\ RequestsHaveRows'
  BY <1>29 DEF RetryRejected
<1>30. ASSUME NEW r \in Requests, TemporalStarts(r)
       PROVE  RunsHaveRows' /\ RequestsHaveRows'
  BY <1>30 DEF TemporalStarts
<1>31. ASSUME NEW r \in Requests, TemporalRefuses(r)
       PROVE  RunsHaveRows' /\ RequestsHaveRows'
  BY <1>31 DEF TemporalRefuses
<1>32. ASSUME NEW r \in Requests, StartAnswerLost(r)
       PROVE  RunsHaveRows' /\ RequestsHaveRows'
  BY <1>32 DEF StartAnswerLost
<1>33. ASSUME NEW r \in Requests, StartFails(r)
       PROVE  RunsHaveRows' /\ RequestsHaveRows'
  BY <1>33 DEF StartFails, FailTrigger
<1>34. ASSUME NEW r \in Requests, CancelBuild(r)
       PROVE  RunsHaveRows' /\ RequestsHaveRows'
  <2>1. PICK e \in Executions : Exists(e) /\ MoveRequest(r, "cancelling", e, Absent)
    BY <1>34 DEF CancelBuild, Latest, Active, Exists, Absent
  <2>2. request' = [request EXCEPT ![r] = [step |-> "cancelling", e |-> e, t |-> Absent]]
    BY <2>1
  <2>3. UNCHANGED run
    BY <1>34 DEF CancelBuild
  <2>4. QED
    BY <2>1, <2>2, <2>3
<1>35. ASSUME NEW r \in Requests, CancelTemporal(r)
       PROVE  RunsHaveRows' /\ RequestsHaveRows'
  BY <1>35 DEF CancelTemporal
<1>36. ASSUME NEW r \in Requests, CancelRows(r)
       PROVE  RunsHaveRows' /\ RequestsHaveRows'
  BY <1>36 DEF CancelRows
<1>37. ASSUME NEW r \in Requests, Crash(r)
       PROVE  RunsHaveRows' /\ RequestsHaveRows'
  BY <1>37 DEF Crash
<1>38. CASE UNCHANGED vars
  BY <1>38 DEF vars
<1>39. QED
  BY <1>1, <1>2, <1>3, <1>4, <1>5, <1>6, <1>7, <1>8, <1>9, <1>10, <1>11,
     <1>12, <1>13, <1>14, <1>15, <1>16, <1>17, <1>18, <1>19, <1>20, <1>21,
     <1>22, <1>23, <1>24, <1>25, <1>26, <1>27, <1>28, <1>29, <1>30, <1>31,
     <1>32, <1>33, <1>34, <1>35, <1>36, <1>37, <1>38
  DEF Next, RunStepOf, RunFault, AttemptStepOf, Arrival, RequestStepOf

-----------------------------------------------------------------------------
(* Types *)

\* The part of TypeOK that is not the seam's.
BuildTypeOK ==
    /\ artifact \subseteq Executions \X BuildNodes
    /\ created \in [Executions -> [BuildNodes -> EventCount]]
    /\ run \in [Executions -> RunStep]
    /\ batch \in [Executions -> SUBSET BuildNodes]
    /\ todo \in [Executions -> SUBSET BuildNodes]
    /\ anyIncomplete \in [Executions -> BOOLEAN]
    /\ cancelRequested \in [Executions -> BOOLEAN]
    /\ current \in [Executions -> [BuildNodes -> 0 .. MaxAttempts]]
    /\ outcome \in [Executions -> [BuildNodes -> Outcome]]
    /\ attempt \in [Executions -> [BuildNodes -> [Attempts -> AttemptStep]]]
    /\ request \in [Requests -> [step : RequestStep, e : Executions \union {0},
                                 t : BuildNodes \union {Absent}]]
    /\ faults \in 0 .. MaxFaults

LEMMA ScheduleType ==
  ASSUME BuildTypeOK, NEW e \in Executions, NEW T \in SUBSET BuildNodes,
         Schedule(e, T)
  PROVE  /\ run' \in [Executions -> RunStep]
         /\ batch' \in [Executions -> SUBSET BuildNodes]
         /\ todo' \in [Executions -> SUBSET BuildNodes]
         /\ current' \in [Executions -> [BuildNodes -> 0 .. MaxAttempts]]
         /\ outcome' \in [Executions -> [BuildNodes -> Outcome]]
         /\ attempt' \in [Executions -> [BuildNodes -> [Attempts -> AttemptStep]]]
<1>1. /\ run' \in [Executions -> RunStep]
      /\ batch' \in [Executions -> SUBSET BuildNodes]
      /\ todo' \in [Executions -> SUBSET BuildNodes]
  BY DEF Schedule, MoveRun, BuildTypeOK, RunStep
<1>2. current' \in [Executions -> [BuildNodes -> 0 .. MaxAttempts]]
  BY BuildAssumption DEF Schedule, BuildTypeOK
<1>3. outcome' \in [Executions -> [BuildNodes -> Outcome]]
  BY DEF Schedule, BuildTypeOK, Outcome
<1>4. attempt' \in [Executions -> [BuildNodes -> [Attempts -> AttemptStep]]]
  BY DEF Schedule, BuildTypeOK, AttemptStep
<1>5. QED
  BY <1>1, <1>2, <1>3, <1>4

LEMMA EmitCreatedType ==
  ASSUME BuildTypeOK, NEW e \in Executions, NEW T, EmitCreated(e, T)
  PROVE  created' \in [Executions -> [BuildNodes -> EventCount]]
<1>1. \A t \in BuildNodes :
        (IF t \in T /\ created[e][t] < 2 THEN created[e][t] + 1
         ELSE created[e][t]) \in EventCount
  BY DEF BuildTypeOK, EventCount
<1>2. QED
  BY <1>1 DEF EmitCreated, BuildTypeOK

LEMMA AnswerType ==
  ASSUME BuildTypeOK, NEW e \in Executions, NEW t \in BuildNodes,
         NEW a \in Attempts, NEW result \in Outcome, Answer(e, t, a, result)
  PROVE  /\ current' \in [Executions -> [BuildNodes -> 0 .. MaxAttempts]]
         /\ outcome' \in [Executions -> [BuildNodes -> Outcome]]
         /\ attempt' \in [Executions -> [BuildNodes -> [Attempts -> AttemptStep]]]
BY DEF Answer, MoveAttempt, BuildTypeOK, AttemptStep

LEMMA GiveUpType ==
  ASSUME BuildTypeOK, NEW e \in Executions, NEW t \in BuildNodes,
         NEW a \in Attempts, NEW step \in AttemptStep, GiveUp(e, t, a, step)
  PROVE  /\ current' \in [Executions -> [BuildNodes -> 0 .. MaxAttempts]]
         /\ outcome' \in [Executions -> [BuildNodes -> Outcome]]
         /\ attempt' \in [Executions -> [BuildNodes -> [Attempts -> AttemptStep]]]
<1>1. CASE /\ a < MaxAttempts
           /\ current' = [current EXCEPT ![e][t] = a + 1]
           /\ attempt' = [attempt EXCEPT ![e][t][a] = step,
                                         ![e][t][a + 1] = "queued"]
           /\ UNCHANGED outcome
  <2>1. a + 1 \in 0 .. MaxAttempts
    BY <1>1, BuildAssumption DEF Attempts
  <2>2. current' \in [Executions -> [BuildNodes -> 0 .. MaxAttempts]]
    BY <1>1, <2>1 DEF BuildTypeOK
  <2>3. attempt' \in [Executions -> [BuildNodes -> [Attempts -> AttemptStep]]]
    <3> DEFINE moved == [attempt EXCEPT ![e][t][a] = step]
    <3>1. moved \in [Executions -> [BuildNodes -> [Attempts -> AttemptStep]]]
      BY DEF BuildTypeOK
    <3>2. attempt' = [moved EXCEPT ![e][t][a + 1] = "queued"]
      BY <1>1
    <3>3. "queued" \in AttemptStep
      BY DEF AttemptStep
    <3> HIDE DEF moved
    <3>4. QED
      BY <3>1, <3>2, <3>3
  <2>4. QED
    BY <1>1, <2>2, <2>3 DEF BuildTypeOK
<1>2. CASE /\ outcome' = [outcome EXCEPT ![e][t] = "failed"]
           /\ MoveAttempt(e, t, a, step)
           /\ UNCHANGED current
  BY <1>2 DEF MoveAttempt, BuildTypeOK, Outcome
<1>3. QED
  BY <1>1, <1>2 DEF GiveUp, MayRetry

LEMMA BuildTypeNext ==
  HandInv /\ BuildTypeOK /\ [Next]_vars => BuildTypeOK'
<1> SUFFICES ASSUME HandInv, BuildTypeOK, [Next]_vars
             PROVE  BuildTypeOK'
  OBVIOUS
<1>0. Fault => faults' \in 0 .. MaxFaults
  BY BuildAssumption DEF Fault, BuildTypeOK
<1> USE <1>0, OriginKnown, BuildAssumption
    DEF HandInv, BuildTypeOK, RunStep, RequestStep, AttemptStep, Outcome,
        NoFault, MoveRun, MoveRequest, EndRequest, IdleRequest, runVars,
        activityVars
<1>1. ASSUME NEW e \in Executions, Validate(e)
      PROVE  BuildTypeOK'
  <2>1. {origin[e]} \in SUBSET BuildNodes
    BY <1>1 DEF Validate, RunsHaveRows
  <2>2. Schedule(e, {origin[e]})
    BY <1>1 DEF Validate
  <2>3. QED
    BY <1>1, <2>1, <2>2, ScheduleType DEF Validate
<1>2. ASSUME NEW e \in Executions, Settle(e)
      PROVE  BuildTypeOK'
  <2> DEFINE failures == {t \in batch[e] : outcome[e][t] = "failed"}
  <2>1. failures \in SUBSET BuildNodes /\ batch[e] \in SUBSET BuildNodes
    OBVIOUS
  <2>2. CASE failures # {}
    <3>1. /\ run' = [run EXCEPT ![e] = "compensating"]
          /\ todo' = [todo EXCEPT ![e] = failures]
          /\ UNCHANGED <<artifact, created, batch, anyIncomplete,
                         cancelRequested, current, outcome, attempt, request,
                         faults>>
      BY <1>2, <2>2 DEF Settle, Joined, Failures
    <3>2. todo' \in [Executions -> SUBSET BuildNodes]
      BY <2>1, <3>1
    <3>3. QED
      BY <3>1, <3>2
  <2>3. CASE failures = {}
    <3>1. (anyIncomplete[e] \/ \E t \in batch[e] : outcome[e][t] = "incomplete")
            \in BOOLEAN
      OBVIOUS
    <3>2. anyIncomplete' \in [Executions -> BOOLEAN]
      BY <1>2, <2>3, <3>1 DEF Settle, Joined, Failures
    <3>3. QED
      BY <1>2, <2>1, <2>3, <3>2 DEF Settle, Joined, Failures
  <2>4. QED
    BY <2>2, <2>3
<1>3. ASSUME NEW e \in Executions, Rescue(e)
      PROVE  BuildTypeOK'
  BY <1>3 DEF Rescue, FailTrigger
<1>4. ASSUME NEW e \in Executions, Finalize(e)
      PROVE  BuildTypeOK'
  BY <1>4 DEF Finalize
<1>5. ASSUME NEW e \in Executions, Report(e)
      PROVE  BuildTypeOK'
  BY <1>5 DEF Report
<1>6. ASSUME NEW e \in Executions, RunCancelled(e)
      PROVE  BuildTypeOK'
  BY <1>6 DEF RunCancelled
<1>7. ASSUME NEW e \in Executions, ValidateFails(e)
      PROVE  BuildTypeOK'
  BY <1>7 DEF ValidateFails
<1>8. ASSUME NEW e \in Executions, RescueFails(e)
      PROVE  BuildTypeOK'
  BY <1>8 DEF RescueFails
<1>9. ASSUME NEW e \in Executions, FinalizeFails(e)
      PROVE  BuildTypeOK'
  BY <1>9 DEF FinalizeFails
<1>10. ASSUME NEW e \in Executions, ReportFails(e)
       PROVE  BuildTypeOK'
  BY <1>10 DEF ReportFails
<1>11. ASSUME NEW e \in Executions, RunTimedOut(e)
       PROVE  BuildTypeOK'
  BY <1>11 DEF RunTimedOut
<1>12. ASSUME NEW e \in Executions, NEW t \in BuildNodes, Coordinate(e, t)
       PROVE  BuildTypeOK'
  <2>1. NextBatch(e) \in SUBSET BuildNodes
    BY DEF NextBatch
  <2>2. created' \in [Executions -> [BuildNodes -> EventCount]]
    BY <1>12, EmitCreatedType DEF Coordinate, Remaining
  <2>3. CASE todo[e] # {t}
    <3>1. /\ todo' = [todo EXCEPT ![e] = @ \ {t}]
          /\ UNCHANGED <<artifact, run, batch, anyIncomplete, cancelRequested,
                         current, outcome, attempt, request, faults>>
      BY <1>12, <2>3 DEF Coordinate, Remaining
    <3>2. todo' \in [Executions -> SUBSET BuildNodes]
      BY <3>1
    <3>3. QED
      BY <2>2, <3>1, <3>2
  <2>4. CASE todo[e] = {t} /\ NextBatch(e) # {}
    <3>1. Schedule(e, NextBatch(e))
      BY <1>12, <2>4 DEF Coordinate, Remaining
    <3>2. QED
      BY <1>12, <2>1, <2>2, <3>1, ScheduleType DEF Coordinate, Remaining
  <2>5. CASE todo[e] = {t} /\ NextBatch(e) = {}
    BY <1>12, <2>2, <2>5, ZenonT(40) DEF Coordinate, Remaining
  <2>6. QED
    BY <2>3, <2>4, <2>5
<1>13. ASSUME NEW e \in Executions, NEW t \in BuildNodes, Compensate(e, t)
       PROVE  BuildTypeOK'
  BY <1>13 DEF Compensate, Remaining
<1>14. ASSUME NEW e \in Executions, NEW t \in BuildNodes, CoordinateFails(e, t)
       PROVE  BuildTypeOK'
  BY <1>14, EmitCreatedType DEF CoordinateFails, Missing
<1>15. ASSUME NEW e \in Executions, NEW t \in BuildNodes, CompensateFails(e, t)
       PROVE  BuildTypeOK'
  BY <1>15 DEF CompensateFails
<1>16. ASSUME NEW e \in Executions, NEW t \in BuildNodes, NEW a \in Attempts, AttemptBegin(e, t, a)
       PROVE  BuildTypeOK'
  BY <1>16 DEF AttemptBegin, MoveAttempt
<1>17. ASSUME NEW e \in Executions, NEW t \in BuildNodes, NEW a \in Attempts, AttemptWrite(e, t, a)
       PROVE  BuildTypeOK'
  BY <1>17 DEF AttemptWrite, MoveAttempt
<1>18. ASSUME NEW e \in Executions, NEW t \in BuildNodes, NEW a \in Attempts, AttemptComplete(e, t, a)
       PROVE  BuildTypeOK'
  BY <1>18, AnswerType DEF AttemptComplete
<1>19. ASSUME NEW e \in Executions, NEW t \in BuildNodes, NEW a \in Attempts, AttemptStop(e, t, a)
       PROVE  BuildTypeOK'
  BY <1>19, AnswerType DEF AttemptStop
<1>20. ASSUME NEW e \in Executions, NEW t \in BuildNodes, NEW a \in Attempts, AttemptFail(e, t, a)
       PROVE  BuildTypeOK'
  <2>1. CASE Wanted(e, t, a)
    <3>1. GiveUp(e, t, a, "ended")
      BY <1>20, <2>1 DEF AttemptFail
    <3>2. QED
      BY <1>20, <3>1, GiveUpType DEF AttemptFail
  <2>2. CASE ~Wanted(e, t, a)
    <3>1. /\ attempt' = [attempt EXCEPT ![e][t][a] = "ended"]
          /\ UNCHANGED <<artifact, created, run, batch, todo, anyIncomplete,
                         cancelRequested, current, outcome, request, faults>>
      BY <1>20, <2>2 DEF AttemptFail, MoveAttempt
    <3>2. QED
      BY <3>1
  <2>3. QED
    BY <2>1, <2>2
<1>21. ASSUME NEW e \in Executions, NEW t \in BuildNodes, NEW a \in Attempts, LeaseLost(e, t, a)
       PROVE  BuildTypeOK'
  BY <1>21, GiveUpType DEF LeaseLost, Wanted
<1>22. ASSUME NEW r \in Requests, DiscoveryTurn(r)
       PROVE  BuildTypeOK'
  BY <1>22 DEF DiscoveryTurn
<1>23. ASSUME NEW r \in Requests, DiscoveryCompletes(r)
       PROVE  BuildTypeOK'
  BY <1>23 DEF DiscoveryCompletes
<1>24. ASSUME NEW r \in Requests, DiscoveryContinues(r)
       PROVE  BuildTypeOK'
  BY <1>24 DEF DiscoveryContinues
<1>25. ASSUME NEW r \in Requests, StartBuild(r)
       PROVE  BuildTypeOK'
  BY <1>25, EmitCreatedType DEF StartBuild, Admit
<1>26. ASSUME NEW r \in Requests, RetryBuild(r)
       PROVE  BuildTypeOK'
  <2>1. CASE HasTarget
    <3>1. PICK c \in Executions, u \in BuildNodes : MoveRequest(r, "resuming", c, u)
      BY <1>26, <2>1 DEF RetryBuild, Latest, Resumable, Stopped
    <3>2. [step |-> "resuming", e |-> c, t |-> u] \in
            [step : RequestStep, e : Executions \union {0},
             t : BuildNodes \union {Absent}]
      OBVIOUS
    <3>3. QED
      BY <1>26, <3>1, <3>2 DEF RetryBuild
  <2>2. CASE ~HasTarget
    <3>1. MoveRequest(r, "fresh", 0, Absent)
      BY <1>26, <2>2 DEF RetryBuild
    <3>2. [step |-> "fresh", e |-> 0, t |-> Absent] \in
            [step : RequestStep, e : Executions \union {0},
             t : BuildNodes \union {Absent}]
      OBVIOUS
    <3>3. QED
      BY <1>26, <3>1, <3>2 DEF RetryBuild
  <2>3. QED
    BY <2>1, <2>2
<1>27. ASSUME NEW r \in Requests, RetryFresh(r)
       PROVE  BuildTypeOK'
  BY <1>27, EmitCreatedType DEF RetryFresh, Admit
<1>28. ASSUME NEW r \in Requests, RetryResume(r)
       PROVE  BuildTypeOK'
  BY <1>28, EmitCreatedType DEF RetryResume, RequestsHaveRows
<1>29. ASSUME NEW r \in Requests, RetryRejected(r)
       PROVE  BuildTypeOK'
  BY <1>29 DEF RetryRejected
<1>30. ASSUME NEW r \in Requests, TemporalStarts(r)
       PROVE  BuildTypeOK'
  BY <1>30 DEF TemporalStarts
<1>31. ASSUME NEW r \in Requests, TemporalRefuses(r)
       PROVE  BuildTypeOK'
  BY <1>31 DEF TemporalRefuses
<1>32. ASSUME NEW r \in Requests, StartAnswerLost(r)
       PROVE  BuildTypeOK'
  BY <1>32 DEF StartAnswerLost
<1>33. ASSUME NEW r \in Requests, StartFails(r)
       PROVE  BuildTypeOK'
  BY <1>33 DEF StartFails, FailTrigger
<1>34. ASSUME NEW r \in Requests, CancelBuild(r)
       PROVE  BuildTypeOK'
  BY <1>34 DEF CancelBuild, Latest
<1>35. ASSUME NEW r \in Requests, CancelTemporal(r)
       PROVE  BuildTypeOK'
  BY <1>35 DEF CancelTemporal
<1>36. ASSUME NEW r \in Requests, CancelRows(r)
       PROVE  BuildTypeOK'
  BY <1>36 DEF CancelRows
<1>37. ASSUME NEW r \in Requests, Crash(r)
       PROVE  BuildTypeOK'
  BY <1>37 DEF Crash
<1>38. CASE UNCHANGED vars
  BY <1>38 DEF vars
<1>39. QED
  BY <1>1, <1>2, <1>3, <1>4, <1>5, <1>6, <1>7, <1>8, <1>9, <1>10, <1>11,
     <1>12, <1>13, <1>14, <1>15, <1>16, <1>17, <1>18, <1>19, <1>20, <1>21,
     <1>22, <1>23, <1>24, <1>25, <1>26, <1>27, <1>28, <1>29, <1>30, <1>31,
     <1>32, <1>33, <1>34, <1>35, <1>36, <1>37, <1>38
  DEF Next, RunStepOf, RunFault, AttemptStepOf, Arrival, RequestStepOf

-----------------------------------------------------------------------------
(* Refinement and types *)

LEMMA HandInit == Init => HandInv /\ BuildTypeOK
<1> SUFFICES ASSUME Init
             PROVE  HandInv /\ BuildTypeOK
  OBVIOUS
<1>1. BuildTypeOK
  BY BuildAssumption
  DEF Init, Quiet, BuildTypeOK, RunStep, RequestStep, AttemptStep, Outcome,
      EventCount, IdleRequest
<1>2. SeamTypeOK /\ RowsAreLinked
  BY SeamTypeInit, LinksInit DEF Init
<1>3. OriginsBuild /\ RunsHaveRows /\ RequestsHaveRows
  BY DEF Init, SeamInit, NoRuns, Quiet, OriginsBuild, RunsHaveRows,
         RequestsHaveRows, IdleRequest
<1>4. QED
  BY <1>1, <1>2, <1>3 DEF HandInv, TypeOK, BuildTypeOK

LEMMA HandNext == HandInv /\ [Next]_vars => HandInv'
<1> SUFFICES ASSUME HandInv, [Next]_vars
             PROVE  HandInv'
  OBVIOUS
<1>1. BuildTypeOK
  BY DEF HandInv, TypeOK, BuildTypeOK
<1>2. BuildTypeOK'
  BY <1>1, BuildTypeNext
<1>3. SeamTypeOK' /\ RowsAreLinked'
  BY StepRefines, SeamTypeNext, LinksNext DEF HandInv, TypeOK
<1>4. QED
  BY <1>2, <1>3, OriginsNext, HandsNext DEF HandInv, TypeOK, BuildTypeOK

THEOREM HandsHold == Spec => []HandInv
  BY HandInit, HandNext, PTL DEF Spec

\* Every reachable state of builds, requests and attempts is well typed.
THEOREM TypeCorrect == Spec => []TypeOK
<1>1. HandInv => TypeOK
  BY DEF HandInv
<1>2. QED
  BY HandsHold, <1>1, PTL

\* hcrWorkflow, its activities and the requests write the run rows only by the
\* transactions of the seam, one at a time and with rows that exist: whatever
\* is proved of the seam holds of the builds.
THEOREM BuildImplementsSeam == Spec => SeamSpec
<1>1. Init => SeamInit
  BY DEF Init
<1>2. QED
  BY HandsHold, StepRefines, <1>1, PTL DEF Spec, SeamSpec

\* The lock of a project always has a holder, in every interleaving of
\* requests, runs, attempts and faults.
THEOREM BuildLockHeld == Spec => []LockHasHolder
  BY BuildImplementsSeam, LockHeld, PTL

-----------------------------------------------------------------------------
(* What is true of a run on its way to a report *)

\* The execution a request is about to start has no run, and is in no other
\* request's hand.
Unstarted ==
    \A q \in Requests : request[q].step = "starting" =>
        /\ run[request[q].e] = "absent"
        /\ \A p \in Requests \ {q} :
            request[p].step = "starting" => request[p].e # request[q].e

\* Nothing but the finalization of its run ends an execution with success.
NotYetEnded ==
    \A c \in Executions :
        run[c] \in {"absent", "validating", "running", "coordinating"} =>
            execution[c] \notin {"COMPLETED", "PARTIAL"}

\* Before its first batch an execution has its trigger node only.
OnlyOrigin ==
    \A c \in Executions : run[c] \in {"absent", "validating"} =>
        \A t \in BuildNodes : node[c][t] # Absent => t = origin[c]

\* A node whose activity answered "ok" stays COMPLETED, unless the execution
\* failed.
OkIsCompleted ==
    \A c \in Executions, t \in BuildNodes :
        outcome[c][t] = "ok" =>
            node[c][t] = "COMPLETED" \/ execution[c] = "FAILED"

BatchScheduled ==
    \A c \in Executions :
        /\ run[c] = "running" => \A t \in batch[c] : outcome[c][t] # "none"
        /\ run[c] = "coordinating" => todo[c] \subseteq batch[c]

Done(c, t) ==
    /\ node[c][t] = "COMPLETED"
    /\ \A u \in NextNodes[t] : node[c][u] # Absent

Nodes(c) == {t \in BuildNodes : node[c][t] # Absent}

\* The graph is complete up to the batch at work.
WholeSoFar ==
    \A c \in Executions :
        ~anyIncomplete[c] /\ execution[c] \notin {"FAILED", "CANCELLED"} =>
            \A t \in Nodes(c) :
                /\ run[c] = "running" => t \in batch[c] \/ Done(c, t)
                /\ run[c] = "coordinating" =>
                    \/ t \in NextBatch(c)
                    \/ Done(c, t)
                    \/ t \in todo[c] /\ node[c][t] = "COMPLETED"
                /\ run[c] = "finalizing" => Done(c, t)

(* Most steps leave the shape of a run alone: they create no node, complete
   no execution and only ever move a run towards its end. *)
Calm ==
    /\ UNCHANGED <<origin, batch, anyIncomplete>>
    /\ \A c \in Executions :
        /\ run'[c] = run[c] \/ run'[c] \in {"rescue", "reporting", "closed"}
        /\ run'[c] = "coordinating" => todo'[c] = todo[c]
        /\ execution'[c] \in {"COMPLETED", "PARTIAL"} => execution'[c] = execution[c]
        /\ execution[c] \in {"FAILED", "CANCELLED"} =>
            execution'[c] \in {"FAILED", "CANCELLED"}
        /\ execution[c] = "FAILED" => execution'[c] = "FAILED"
        /\ \A t \in BuildNodes :
            /\ node'[c][t] = Absent <=> node[c][t] = Absent
            /\ node[c][t] = "COMPLETED" =>
                node'[c][t] = "COMPLETED" \/ execution'[c] = "FAILED"
            /\ outcome'[c][t] = "ok" =>
                outcome[c][t] = "ok" \/ node'[c][t] = "COMPLETED"
            /\ outcome[c][t] # "none" => outcome'[c][t] # "none"

\* The steps that are not calm.
Stirs ==
    \/ \E e \in Executions :
        \/ Validate(e)
        \/ Settle(e)
        \/ \E t \in BuildNodes : Coordinate(e, t) \/ CoordinateFails(e, t)
        \/ Finalize(e)
        \/ FinalizeFails(e)
    \/ \E r \in Requests :
        \/ StartBuild(r)
        \/ RetryFresh(r)
        \/ RetryResume(r)
        \/ TemporalStarts(r)
        \/ StartAnswerLost(r)

LEMMA CalmSteps == HandInv /\ [Next]_vars => Calm \/ Stirs
<1> SUFFICES ASSUME HandInv, [Next]_vars
             PROVE  Calm \/ Stirs
  OBVIOUS
<1>0. /\ execution \in [Executions -> ExecutionStatus \union {Absent}]
      /\ node \in [Executions -> [NodeTypes -> NodeStatus \union {Absent}]]
      /\ run \in [Executions -> RunStep]
      /\ outcome \in [Executions -> [BuildNodes -> Outcome]]
      /\ RequestsHaveRows
  BY DEF HandInv, TypeOK, SeamTypeOK
<1> USE <1>0 DEF Calm, MoveRun, runVars, activityVars, seamVars, Absent, BuildNodes
<1>1. ASSUME NEW e \in Executions, Rescue(e)
      PROVE  Calm
  BY <1>1 DEF Rescue, FailTrigger, FailExecution
<1>2. ASSUME NEW e \in Executions, Report(e)
      PROVE  Calm
  BY <1>2 DEF Report
<1>3. ASSUME NEW e \in Executions, RunCancelled(e)
      PROVE  Calm
  BY <1>3 DEF RunCancelled
<1>4. ASSUME NEW e \in Executions, ValidateFails(e)
      PROVE  Calm
  BY <1>4 DEF ValidateFails
<1>5. ASSUME NEW e \in Executions, RescueFails(e)
      PROVE  Calm
  BY <1>5 DEF RescueFails
<1>6. ASSUME NEW e \in Executions, ReportFails(e)
      PROVE  Calm
  BY <1>6 DEF ReportFails
<1>7. ASSUME NEW e \in Executions, RunTimedOut(e)
      PROVE  Calm
  BY <1>7 DEF RunTimedOut
<1>8. ASSUME NEW e \in Executions, NEW t \in BuildNodes, Compensate(e, t)
      PROVE  Calm
  BY <1>8 DEF Compensate, Remaining, FailExecution
<1>9. ASSUME NEW e \in Executions, NEW t \in BuildNodes, CompensateFails(e, t)
      PROVE  Calm
  BY <1>9 DEF CompensateFails, FailExecution
<1>10. ASSUME NEW e \in Executions, NEW t \in BuildNodes, NEW a \in Attempts, AttemptBegin(e, t, a)
       PROVE  Calm
  BY <1>10 DEF AttemptBegin, BeginNode, MarkExecutionRunning, MarkNodeRunning, MoveAttempt
<1>11. ASSUME NEW e \in Executions, NEW t \in BuildNodes, NEW a \in Attempts, AttemptWrite(e, t, a)
       PROVE  Calm
  <2>1. UNCHANGED <<run, batch, todo, anyIncomplete, outcome, execution, origin>>
    BY <1>11 DEF AttemptWrite, CompleteNode
  <2>2. \/ UNCHANGED node
        \/ node[e][t] # Absent /\ node' = [node EXCEPT ![e][t] = "COMPLETED"]
    BY <1>11 DEF AttemptWrite, CompleteNode
  <2>3. QED
    BY <2>1, <2>2
<1>12. ASSUME NEW e \in Executions, NEW t \in BuildNodes, NEW a \in Attempts, AttemptComplete(e, t, a)
       PROVE  Calm
  BY <1>12 DEF AttemptComplete, CompleteNode, Answer, MoveAttempt
<1>13. ASSUME NEW e \in Executions, NEW t \in BuildNodes, NEW a \in Attempts, AttemptStop(e, t, a)
       PROVE  Calm
  BY <1>13 DEF AttemptStop, StopNode, Answer, MoveAttempt
<1>14. ASSUME NEW e \in Executions, NEW t \in BuildNodes, NEW a \in Attempts, AttemptFail(e, t, a)
       PROVE  Calm
  BY <1>14 DEF AttemptFail, GiveUp, MayRetry, MoveAttempt, Wanted
<1>15. ASSUME NEW e \in Executions, NEW t \in BuildNodes, NEW a \in Attempts, LeaseLost(e, t, a)
       PROVE  Calm
  BY <1>15 DEF LeaseLost, GiveUp, MayRetry, MoveAttempt, Wanted
<1>16. ASSUME NEW r \in Requests, DiscoveryTurn(r)
       PROVE  Calm
  BY <1>16 DEF DiscoveryTurn
<1>17. ASSUME NEW r \in Requests, DiscoveryCompletes(r)
       PROVE  Calm
  BY <1>17 DEF DiscoveryCompletes, CompleteDiscovery
<1>18. ASSUME NEW r \in Requests, DiscoveryContinues(r)
       PROVE  Calm
  BY <1>18 DEF DiscoveryContinues
<1>19. ASSUME NEW r \in Requests, RetryBuild(r)
       PROVE  Calm
  BY <1>19 DEF RetryBuild
<1>20. ASSUME NEW r \in Requests, RetryRejected(r)
       PROVE  Calm
  BY <1>20 DEF RetryRejected
<1>21. ASSUME NEW r \in Requests, TemporalRefuses(r)
       PROVE  Calm
  BY <1>21 DEF TemporalRefuses
<1>22. ASSUME NEW r \in Requests, StartFails(r)
       PROVE  Calm
  BY <1>22 DEF StartFails, FailTrigger, FailExecution, RequestsHaveRows
<1>23. ASSUME NEW r \in Requests, CancelBuild(r)
       PROVE  Calm
  BY <1>23 DEF CancelBuild
<1>24. ASSUME NEW r \in Requests, CancelTemporal(r)
       PROVE  Calm
  BY <1>24 DEF CancelTemporal
<1>25. ASSUME NEW r \in Requests, CancelRows(r)
       PROVE  Calm
  BY <1>25 DEF CancelRows, CancelExecution, Active, RequestsHaveRows
<1>26. ASSUME NEW r \in Requests, Crash(r)
       PROVE  Calm
  BY <1>26 DEF Crash
<1>27. CASE UNCHANGED vars
  BY <1>27 DEF vars
<1>28. QED
  BY <1>1, <1>2, <1>3, <1>4, <1>5, <1>6, <1>7, <1>8, <1>9, <1>10, <1>11,
     <1>12, <1>13, <1>14, <1>15, <1>16, <1>17, <1>18, <1>19, <1>20, <1>21,
     <1>22, <1>23, <1>24, <1>25, <1>26, <1>27
  DEF Next, RunStepOf, RunFault, AttemptStepOf, Arrival, RequestStepOf, Stirs

\* What CompletedRunIsWhole rests on, apart from rows and hands.
Shape == NotYetEnded /\ OnlyOrigin /\ OkIsCompleted /\ BatchScheduled
            /\ WholeSoFar /\ CompletedRunIsWhole

LEMMA CalmKeepsShape ==
  ASSUME TypeOK, Shape, Calm
  PROVE  Shape'
<1> USE DEF Shape
<1>1. NotYetEnded'
  BY DEF NotYetEnded, Calm
<1>2. OnlyOrigin'
  BY DEF OnlyOrigin, Calm
<1>3. OkIsCompleted'
  BY DEF OkIsCompleted, Calm
<1>4. BatchScheduled'
  <2>1. \A c \in Executions : batch[c] \subseteq BuildNodes
    BY DEF TypeOK
  <2>2. QED
    BY <2>1 DEF BatchScheduled, Calm
<1>5. WholeSoFar'
  <2>1. \A t \in BuildNodes : NextNodes[t] \subseteq BuildNodes
    BY BuildAssumption
  <2>2. ASSUME NEW c \in Executions, NEW t \in BuildNodes, Done(c, t),
               execution'[c] # "FAILED"
        PROVE  Done(c, t)'
    BY <2>1, <2>2 DEF Done, Calm
  <2>3. SUFFICES ASSUME NEW c \in Executions, ~anyIncomplete'[c],
                        execution'[c] \notin {"FAILED", "CANCELLED"},
                        NEW t \in BuildNodes, node'[c][t] # Absent
                 PROVE  /\ run'[c] = "running" => t \in batch'[c] \/ Done(c, t)'
                        /\ run'[c] = "coordinating" =>
                            \/ t \in NextBatch(c)'
                            \/ Done(c, t)'
                            \/ t \in todo'[c] /\ node'[c][t] = "COMPLETED"
                        /\ run'[c] = "finalizing" => Done(c, t)'
    BY DEF WholeSoFar, Nodes
  <2>4. /\ ~anyIncomplete[c]
        /\ execution[c] \notin {"FAILED", "CANCELLED"}
        /\ t \in Nodes(c)
        /\ batch'[c] = batch[c]
        /\ NextBatch(c)' = NextBatch(c)
        /\ run'[c] \in {"running", "coordinating", "finalizing"} => run'[c] = run[c]
        /\ run'[c] = "coordinating" => todo'[c] = todo[c]
        /\ node[c][t] = "COMPLETED" => node'[c][t] = "COMPLETED"
    BY <2>3 DEF Calm, Nodes, NextBatch
  <2>5. QED
    BY <2>2, <2>3, <2>4 DEF WholeSoFar
<1>6. CompletedRunIsWhole'
  <2>1. \A t \in BuildNodes : NextNodes[t] \subseteq BuildNodes
    BY BuildAssumption
  <2>2. QED
    BY <2>1 DEF CompletedRunIsWhole, Calm
<1>7. QED
  BY <1>1, <1>2, <1>3, <1>4, <1>5, <1>6

\* The first batch is the trigger node, the only one there is.
LEMMA ValidateKeepsShape ==
  ASSUME HandInv, Shape, NEW e \in Executions, Validate(e)
  PROVE  Shape'
<1> USE DEF Shape, Validate, Schedule, MoveRun, HandInv
<1>1. /\ UNCHANGED <<project, execution, node, origin, anyIncomplete>>
      /\ run[e] = "validating"
      /\ run' = [run EXCEPT ![e] = "running"]
      /\ batch' = [batch EXCEPT ![e] = {origin[e]}]
      /\ todo' = [todo EXCEPT ![e] = {}]
      /\ outcome' = [outcome EXCEPT ![e] =
              [t \in BuildNodes |-> IF t \in {origin[e]} THEN "running" ELSE @[t]]]
      /\ run \in [Executions -> RunStep]
      /\ batch \in [Executions -> SUBSET BuildNodes]
      /\ todo \in [Executions -> SUBSET BuildNodes]
      /\ outcome \in [Executions -> [BuildNodes -> Outcome]]
      /\ Exists(e)
      /\ origin[e] \in BuildNodes
  BY OriginKnown DEF seamVars, TypeOK, RunsHaveRows
<1> HIDE DEF Validate, Schedule, MoveRun, HandInv
<1>2. NotYetEnded'
  BY <1>1 DEF NotYetEnded
<1>3. OnlyOrigin'
  BY <1>1 DEF OnlyOrigin
<1>4. OkIsCompleted'
  BY <1>1 DEF OkIsCompleted
<1>5. BatchScheduled'
  <2>1. SUFFICES ASSUME NEW c \in Executions
                 PROVE  /\ run'[c] = "running" =>
                            \A t \in batch'[c] : outcome'[c][t] # "none"
                        /\ run'[c] = "coordinating" => todo'[c] \subseteq batch'[c]
    BY DEF BatchScheduled
  <2>2. CASE c = e
    BY <1>1, <2>2
  <2>3. CASE c # e
    BY <1>1, <2>3 DEF BatchScheduled
  <2>4. QED
    BY <2>2, <2>3
<1>6. WholeSoFar'
  BY <1>1 DEF WholeSoFar, OnlyOrigin, Nodes, Done, NextBatch
<1>7. CompletedRunIsWhole'
  BY <1>1 DEF CompletedRunIsWhole
<1>8. QED
  BY <1>2, <1>3, <1>4, <1>5, <1>6, <1>7

\* A batch without failure and without incomplete node is one of COMPLETED
\* nodes.
LEMMA SettleKeepsShape ==
  ASSUME HandInv, Shape, NEW e \in Executions, Settle(e)
  PROVE  Shape'
<1>1. /\ UNCHANGED <<project, execution, node, origin, batch, outcome>>
      /\ run[e] = "running"
      /\ \A t \in batch[e] : outcome[e][t] # "running"
      /\ \/ /\ run' = [run EXCEPT ![e] = "compensating"]
            /\ UNCHANGED anyIncomplete
         \/ /\ \A t \in batch[e] : outcome[e][t] # "failed"
            /\ run' = [run EXCEPT ![e] = "coordinating"]
            /\ todo' = [todo EXCEPT ![e] = batch[e]]
            /\ anyIncomplete' = [anyIncomplete EXCEPT ![e] =
                    @ \/ \E t \in batch[e] : outcome[e][t] = "incomplete"]
      /\ \A c \in Executions : c # e => todo'[c] = todo[c]
      /\ run \in [Executions -> RunStep]
      /\ batch \in [Executions -> SUBSET BuildNodes]
      /\ todo \in [Executions -> SUBSET BuildNodes]
      /\ anyIncomplete \in [Executions -> BOOLEAN]
      /\ outcome \in [Executions -> [BuildNodes -> Outcome]]
  BY DEF Settle, Joined, Failures, MoveRun, HandInv, TypeOK, seamVars, activityVars
<1> USE DEF Shape
<1>2. NotYetEnded'
  BY <1>1 DEF NotYetEnded
<1>3. OnlyOrigin'
  BY <1>1 DEF OnlyOrigin
<1>4. OkIsCompleted'
  BY <1>1 DEF OkIsCompleted
<1>5. BatchScheduled'
  <2>1. SUFFICES ASSUME NEW c \in Executions
                 PROVE  /\ run'[c] = "running" =>
                            \A t \in batch'[c] : outcome'[c][t] # "none"
                        /\ run'[c] = "coordinating" => todo'[c] \subseteq batch'[c]
    BY DEF BatchScheduled
  <2>2. CASE c = e
    BY <1>1, <2>2
  <2>3. CASE c # e
    BY <1>1, <2>3 DEF BatchScheduled
  <2>4. QED
    BY <2>2, <2>3
<1>6. WholeSoFar'
  <2>1. SUFFICES ASSUME NEW c \in Executions, ~anyIncomplete'[c],
                        execution'[c] \notin {"FAILED", "CANCELLED"},
                        NEW t \in BuildNodes, node'[c][t] # Absent
                 PROVE  /\ run'[c] = "running" => t \in batch'[c] \/ Done(c, t)'
                        /\ run'[c] = "coordinating" =>
                            \/ t \in NextBatch(c)'
                            \/ Done(c, t)'
                            \/ t \in todo'[c] /\ node'[c][t] = "COMPLETED"
                        /\ run'[c] = "finalizing" => Done(c, t)'
    BY DEF WholeSoFar, Nodes
  <2>2. /\ NextBatch(c)' = NextBatch(c)
        /\ Done(c, t)' = Done(c, t)
        /\ t \in Nodes(c)
        /\ execution[c] \notin {"FAILED", "CANCELLED"}
    BY <1>1, <2>1 DEF NextBatch, Done, Nodes
  <2>3. CASE c # e
    BY <1>1, <2>1, <2>2, <2>3 DEF WholeSoFar
  <2>4. CASE c = e /\ run'[e] = "compensating"
    BY <2>4
  <2>5. CASE c = e /\ run'[e] # "compensating"
    <3>1. /\ run'[e] = "coordinating"
          /\ todo'[e] = batch[e]
          /\ ~anyIncomplete[e]
          /\ \A u \in batch[e] : outcome[e][u] \notin {"failed", "incomplete", "running"}
      BY <1>1, <2>1, <2>5
    <3>2. \A u \in batch[e] : outcome[e][u] = "ok"
      BY <1>1, <3>1 DEF BatchScheduled, Outcome
    <3>3. t \in batch[e] => node'[e][t] = "COMPLETED"
      BY <1>1, <2>2, <2>5, <3>2 DEF OkIsCompleted
    <3>4. t \in batch[e] \/ Done(e, t)
      BY <1>1, <2>2, <2>5, <3>1 DEF WholeSoFar
    <3>5. QED
      BY <2>2, <2>5, <3>1, <3>3, <3>4
  <2>6. QED
    BY <2>3, <2>4, <2>5
<1>7. CompletedRunIsWhole'
  BY <1>1 DEF CompletedRunIsWhole
<1>8. QED
  BY <1>2, <1>3, <1>4, <1>5, <1>6, <1>7

\* The coordinator creates what the artifact of one node of the batch leads
\* to, and that node is done.
LEMMA CoordinateKeepsShape ==
  ASSUME HandInv, Shape, NEW e \in Executions, NEW s \in BuildNodes,
         Coordinate(e, s)
  PROVE  Shape'
<1>0. \A t \in BuildNodes : NextNodes[t] \subseteq BuildNodes
  BY BuildAssumption
<1>1. /\ UNCHANGED <<project, execution, origin, anyIncomplete>>
      /\ run[e] = "coordinating"
      /\ s \in todo[e]
      /\ \A c \in Executions : c # e => /\ node'[c] = node[c]
                                        /\ run'[c] = run[c]
                                        /\ batch'[c] = batch[c]
                                        /\ todo'[c] = todo[c]
                                        /\ outcome'[c] = outcome[c]
      /\ \A t \in BuildNodes : /\ node[e][t] # Absent => node'[e][t] = node[e][t]
                               /\ node[e][t] = Absent => node'[e][t] \in {Absent, "CREATED"}
                               /\ node[e][t] = Absent /\ node'[e][t] # Absent
                                    => t \in NextNodes[s]
                               /\ t \in NextNodes[s] => node'[e][t] # Absent
  BY DEF Coordinate, Remaining, CreateNodes, Schedule, MoveRun, HandInv, TypeOK, SeamTypeOK,
         BuildNodes, Absent
<1>2. \/ /\ todo'[e] = todo[e] \ {s}
         /\ run'[e] = run[e]
         /\ batch'[e] = batch[e]
         /\ outcome'[e] = outcome[e]
      \/ /\ todo[e] = {s}
         /\ run'[e] = "running"
         /\ batch'[e] = NextBatch(e)
         /\ \A t \in BuildNodes :
                outcome'[e][t] = IF t \in NextBatch(e) THEN "running" ELSE outcome[e][t]
      \/ /\ todo[e] = {s}
         /\ run'[e] = "finalizing"
         /\ NextBatch(e) = {}
         /\ outcome'[e] = outcome[e]
  BY DEF Coordinate, Remaining, Schedule, MoveRun, HandInv, TypeOK
<1>3. /\ batch[e] \subseteq BuildNodes
      /\ todo[e] \subseteq batch[e]
      /\ NextNodes[s] \subseteq NextBatch(e)
      /\ NextBatch(e) \subseteq BuildNodes
  BY <1>0, <1>1 DEF HandInv, TypeOK, NextBatch, Shape, BatchScheduled
<1> USE DEF Shape
<1>4. NotYetEnded'
  BY <1>1, <1>2 DEF NotYetEnded
<1>5. OnlyOrigin'
  BY <1>1, <1>2 DEF OnlyOrigin
<1>6. OkIsCompleted'
  BY <1>1, <1>2, <1>3 DEF OkIsCompleted, Absent
<1>7. BatchScheduled'
  <2>1. SUFFICES ASSUME NEW c \in Executions
                 PROVE  /\ run'[c] = "running" =>
                            \A t \in batch'[c] : outcome'[c][t] # "none"
                        /\ run'[c] = "coordinating" => todo'[c] \subseteq batch'[c]
    BY DEF BatchScheduled
  <2>2. CASE c = e
    BY <1>1, <1>2, <1>3, <2>2
  <2>3. CASE c # e
    BY <1>1, <2>3 DEF BatchScheduled
  <2>4. QED
    BY <2>2, <2>3
<1>8. ASSUME NEW c \in Executions, NEW t \in BuildNodes, Done(c, t)
      PROVE  Done(c, t)'
  <2>1. CASE c = e
    BY <1>0, <1>1, <1>8, <2>1 DEF Done, Absent
  <2>2. CASE c # e
    BY <1>0, <1>1, <1>8, <2>2 DEF Done
  <2>3. QED
    BY <2>1, <2>2
<1>9. WholeSoFar'
  <2>1. SUFFICES ASSUME NEW c \in Executions, ~anyIncomplete'[c],
                        execution'[c] \notin {"FAILED", "CANCELLED"},
                        NEW t \in BuildNodes, node'[c][t] # Absent
                 PROVE  /\ run'[c] = "running" => t \in batch'[c] \/ Done(c, t)'
                        /\ run'[c] = "coordinating" =>
                            \/ t \in NextBatch(c)'
                            \/ Done(c, t)'
                            \/ t \in todo'[c] /\ node'[c][t] = "COMPLETED"
                        /\ run'[c] = "finalizing" => Done(c, t)'
    BY DEF WholeSoFar, Nodes
  <2>2. CASE c # e
    <3>1. /\ NextBatch(c)' = NextBatch(c)
          /\ t \in Nodes(c)
          /\ ~anyIncomplete[c]
          /\ execution[c] \notin {"FAILED", "CANCELLED"}
      BY <1>1, <2>1, <2>2 DEF NextBatch, Nodes
    <3>2. QED
      BY <1>1, <1>8, <2>1, <2>2, <3>1 DEF WholeSoFar
  <2>3. CASE c = e
    <3>1. \/ t \in NextBatch(e)
          \/ Done(e, t)'
          \/ t # s /\ t \in todo[e] /\ node'[e][t] = "COMPLETED"
      <4>1. CASE node[e][t] = Absent
        BY <1>1, <1>3, <2>1, <2>3, <4>1
      <4>2. CASE node[e][t] # Absent
        <5>1. \/ t \in NextBatch(e)
              \/ Done(e, t)
              \/ t \in todo[e] /\ node[e][t] = "COMPLETED"
          BY <1>1, <2>1, <2>3, <4>2 DEF WholeSoFar, Nodes
        <5>2. t = s /\ node[e][t] = "COMPLETED" => Done(e, t)'
          BY <1>0, <1>1, <4>2 DEF Done
        <5>3. QED
          BY <1>1, <1>8, <4>2, <5>1, <5>2
      <4>3. QED
        BY <4>1, <4>2
    <3>2. run'[e] = "coordinating" => NextBatch(e)' = NextBatch(e)
      BY <1>1, <1>2 DEF NextBatch
    <3>3. QED
      BY <1>1, <1>2, <2>1, <2>3, <3>1, <3>2
  <2>4. QED
    BY <2>2, <2>3
<1>10. CompletedRunIsWhole'
  <2>1. execution[e] # "COMPLETED"
    BY <1>1 DEF NotYetEnded
  <2>2. QED
    BY <1>0, <1>1, <2>1 DEF CompletedRunIsWhole
<1>11. QED
  BY <1>4, <1>5, <1>6, <1>7, <1>9, <1>10

\* A coordinator that stops half way leaves its nodes to the retry.
LEMMA CoordinateFailsKeepsShape ==
  ASSUME HandInv, Shape, NEW e \in Executions, NEW s \in BuildNodes,
         CoordinateFails(e, s)
  PROVE  Shape'
<1>0. \A t \in BuildNodes : NextNodes[t] \subseteq BuildNodes
  BY BuildAssumption
<1>1. /\ UNCHANGED <<project, execution, origin, anyIncomplete, batch, todo, outcome>>
      /\ run[e] = "coordinating"
      /\ s \in todo[e]
      /\ run' = run \/ run' = [run EXCEPT ![e] = "rescue"]
      /\ \A c \in Executions : c # e => node'[c] = node[c]
      /\ \A t \in BuildNodes : /\ node[e][t] # Absent => node'[e][t] = node[e][t]
                               /\ node[e][t] = Absent /\ node'[e][t] # Absent
                                    => t \in NextNodes[s]
  BY DEF CoordinateFails, CreateNodes, HandInv, TypeOK, SeamTypeOK, Missing,
         BuildNodes, Absent, activityVars
<1>2. /\ run \in [Executions -> RunStep]
      /\ \A c \in Executions : run'[c] = run[c] \/ run'[c] = "rescue"
  BY <1>1 DEF HandInv, TypeOK
<1>3. NextNodes[s] \subseteq NextBatch(e)
  BY <1>0, <1>1 DEF HandInv, TypeOK, NextBatch, Shape, BatchScheduled
<1> USE DEF Shape
<1>4. NotYetEnded'
  BY <1>1, <1>2 DEF NotYetEnded
<1>5. OnlyOrigin'
  BY <1>1, <1>2 DEF OnlyOrigin
<1>6. OkIsCompleted'
  BY <1>1 DEF OkIsCompleted, Absent
<1>7. BatchScheduled'
  BY <1>1, <1>2 DEF BatchScheduled
<1>8. ASSUME NEW c \in Executions, NEW t \in BuildNodes, Done(c, t)
      PROVE  Done(c, t)'
  <2>1. CASE c = e
    BY <1>0, <1>1, <1>8, <2>1 DEF Done, Absent
  <2>2. CASE c # e
    BY <1>0, <1>1, <1>8, <2>2 DEF Done
  <2>3. QED
    BY <2>1, <2>2
<1>9. WholeSoFar'
  <2>1. SUFFICES ASSUME NEW c \in Executions, ~anyIncomplete[c],
                        execution[c] \notin {"FAILED", "CANCELLED"},
                        run'[c] = run[c],
                        NEW t \in BuildNodes, node'[c][t] # Absent
                 PROVE  /\ run[c] = "running" => t \in batch[c] \/ Done(c, t)'
                        /\ run[c] = "coordinating" =>
                            \/ t \in NextBatch(c)
                            \/ Done(c, t)'
                            \/ t \in todo[c] /\ node'[c][t] = "COMPLETED"
                        /\ run[c] = "finalizing" => Done(c, t)'
    BY <1>1, <1>2 DEF WholeSoFar, Nodes, NextBatch
  <2>2. CASE node[c][t] = Absent
    BY <1>1, <1>3, <2>1, <2>2
  <2>3. CASE node[c][t] # Absent
    BY <1>1, <1>8, <2>1, <2>3 DEF WholeSoFar, Nodes
  <2>4. QED
    BY <2>2, <2>3
<1>10. CompletedRunIsWhole'
  <2>1. execution[e] # "COMPLETED"
    BY <1>1 DEF NotYetEnded
  <2>2. QED
    BY <1>0, <1>1, <2>1 DEF CompletedRunIsWhole
<1>11. QED
  BY <1>4, <1>5, <1>6, <1>7, <1>9, <1>10

\* Only a run without incomplete node whose graph is done is reported whole.
LEMMA FinalizeKeepsShape ==
  ASSUME HandInv, Shape, NEW e \in Executions, Finalize(e) \/ FinalizeFails(e)
  PROVE  Shape'
<1>0. \A t \in BuildNodes : NextNodes[t] \subseteq BuildNodes
  BY BuildAssumption
<1>1. /\ UNCHANGED <<origin, anyIncomplete, batch, todo, outcome, node>>
      /\ run[e] = "finalizing"
      /\ \A c \in Executions :
          run'[c] = run[c] \/ run'[c] \in {"rescue", "closed", "reporting"}
      /\ \A c \in Executions : c # e => execution'[c] = execution[c]
      /\ \/ execution'[e] = execution[e]
         \/ /\ execution[e] \notin {"COMPLETED", "FAILED", "CANCELLED"}
            /\ execution'[e] = IF anyIncomplete[e] THEN "PARTIAL" ELSE "COMPLETED"
  BY DEF Finalize, FinalizeFails, FinalizeRows, CompleteExecution, IsOver,
         CompleteExecutionPartially, Finish, MoveRun, HandInv, TypeOK, SeamTypeOK,
         seamVars, activityVars
<1> USE DEF Shape
<1>2. NotYetEnded'
  BY <1>1 DEF NotYetEnded
<1>3. OnlyOrigin'
  BY <1>1 DEF OnlyOrigin
<1>4. OkIsCompleted'
  BY <1>1 DEF OkIsCompleted
<1>5. BatchScheduled'
  BY <1>1 DEF BatchScheduled
<1>6. WholeSoFar'
  BY <1>1 DEF WholeSoFar, Nodes, NextBatch, Done
<1>7. CompletedRunIsWhole'
  <2>1. SUFFICES ASSUME NEW c \in Executions, execution'[c] = "COMPLETED",
                        NEW t \in BuildNodes, node[c][t] # Absent
                 PROVE  Done(c, t)
    BY <1>1 DEF CompletedRunIsWhole, Done
  <2>2. CASE execution[c] = "COMPLETED"
    BY <2>1, <2>2 DEF CompletedRunIsWhole, Done
  <2>3. CASE execution[c] # "COMPLETED"
    BY <1>1, <2>1, <2>3 DEF WholeSoFar, Nodes
  <2>4. QED
    BY <2>2, <2>3
<1>8. QED
  BY <1>2, <1>3, <1>4, <1>5, <1>6, <1>7

\* A new execution has a trigger node and nothing else.
LEMMA AdmissionKeepsShape ==
  ASSUME HandInv, Shape, NEW e \in Executions, NEW w, NEW t \in BuildNodes,
         CreateExecution(e, w, t), UNCHANGED <<runVars, activityVars>>
  PROVE  Shape'
<1>0. \A u \in BuildNodes : NextNodes[u] \subseteq BuildNodes
  BY BuildAssumption
<1>1. /\ UNCHANGED <<run, batch, todo, anyIncomplete, outcome>>
      /\ ~Exists(e)
      /\ run[e] = "absent"
      /\ \A u \in BuildNodes : node[e][u] = Absent
      /\ execution'[e] = "CREATED"
      /\ origin'[e] = t
      /\ \A u \in BuildNodes : node'[e][u] # Absent => u = t
      /\ \A c \in Executions : c # e => /\ execution'[c] = execution[c]
                                        /\ origin'[c] = origin[c]
                                        /\ node'[c] = node[c]
  BY DEF CreateExecution, IsNext, runVars, activityVars, HandInv, RunsHaveRows,
         RowsAreLinked, TypeOK, SeamTypeOK, BuildNodes, Absent
<1> USE DEF Shape
<1>2. NotYetEnded'
  BY <1>1 DEF NotYetEnded
<1>3. OnlyOrigin'
  BY <1>1 DEF OnlyOrigin
<1>4. OkIsCompleted'
  <2>1. \A u \in BuildNodes : outcome[e][u] # "ok"
    BY <1>1 DEF OkIsCompleted, Exists, Absent
  <2>2. QED
    BY <1>1, <2>1 DEF OkIsCompleted
<1>5. BatchScheduled'
  BY <1>1 DEF BatchScheduled
<1>6. WholeSoFar'
  BY <1>0, <1>1 DEF WholeSoFar, Nodes, NextBatch, Done
<1>7. CompletedRunIsWhole'
  BY <1>0, <1>1 DEF CompletedRunIsWhole
<1>8. QED
  BY <1>2, <1>3, <1>4, <1>5, <1>6, <1>7

\* The run that Temporal starts is the first of its execution.
LEMMA StartKeepsShape ==
  ASSUME HandInv, Shape, Unstarted, NEW r \in Requests,
         TemporalStarts(r) \/ StartAnswerLost(r)
  PROVE  Shape'
<1>1. /\ UNCHANGED <<execution, node, origin, batch, todo, anyIncomplete, outcome>>
      /\ request[r].e \in Executions
      /\ run[request[r].e] = "absent"
      /\ \A c \in Executions : run'[c] = IF c = request[r].e THEN "validating" ELSE run[c]
  BY DEF TemporalStarts, StartAnswerLost, MoveRun, HandInv, TypeOK,
         RequestsHaveRows, Unstarted, seamVars, activityVars
<1> USE DEF Shape
<1>2. NotYetEnded' /\ OnlyOrigin' /\ OkIsCompleted' /\ BatchScheduled'
  BY <1>1 DEF NotYetEnded, OnlyOrigin, OkIsCompleted, BatchScheduled
<1>3. WholeSoFar' /\ CompletedRunIsWhole'
  BY <1>1 DEF WholeSoFar, CompletedRunIsWhole, Nodes, NextBatch, Done
<1>4. QED
  BY <1>2, <1>3

\* Temporal starts an execution once: a request that is about to start one
\* created it.
LEMMA UnstartedNext == HandInv /\ Unstarted /\ [Next]_vars => Unstarted'
<1> SUFFICES ASSUME HandInv, Unstarted, [Next]_vars
             PROVE  Unstarted'
  OBVIOUS
<1>0. /\ run \in [Executions -> RunStep]
      /\ \A q \in Requests : request[q].step = "starting" =>
              request[q].e \in Executions /\ Exists(request[q].e)
      /\ request \in [Requests -> [step : RequestStep, e : Executions \union {0},
                                   t : BuildNodes \union {Absent}]]
      /\ \A c \in Executions : ~Exists(c) => run[c] = "absent"
  BY DEF HandInv, TypeOK, RequestsHaveRows, RunsHaveRows
<1>1. ASSUME NEW e \in Executions, RunStepOf(e) \/ RunFault(e)
      PROVE  Unstarted'
  <2>1. /\ UNCHANGED request
        /\ run[e] # "absent"
        /\ \A c \in Executions : c # e => run'[c] = run[c]
    BY <1>0, <1>1
    DEF RunStepOf, RunFault, Validate, Settle, Coordinate, Compensate, Rescue,
        Finalize, Report, RunCancelled, ValidateFails, CoordinateFails,
        CompensateFails, RescueFails, FinalizeFails, ReportFails, RunTimedOut,
        Schedule, MoveRun, Open
  <2>2. QED
    BY <1>0, <2>1 DEF Unstarted
<1>2. ASSUME NEW e \in Executions, NEW t \in BuildNodes, NEW a \in Attempts,
             AttemptStepOf(e, t, a) \/ LeaseLost(e, t, a)
      PROVE  Unstarted'
  <2>1. UNCHANGED <<request, run>>
    BY <1>2
    DEF AttemptStepOf, AttemptBegin, AttemptWrite, AttemptComplete, AttemptStop,
        AttemptFail, LeaseLost, runVars
  <2>2. QED
    BY <2>1 DEF Unstarted
<1>3. ASSUME NEW r \in Requests,
             StartBuild(r) \/ RetryFresh(r) \/ RetryResume(r)
      PROVE  Unstarted'
  <2>1. PICK e \in Executions : /\ ~Exists(e)
                                /\ MoveRequest(r, "starting", e, Absent)
    BY <1>3 DEF StartBuild, RetryFresh, RetryResume, Admit, StartHcrRun,
                ResumeHcrRun, CreateExecution, IsNext
  <2>2. UNCHANGED run
    BY <1>3 DEF StartBuild, RetryFresh, RetryResume, Admit, runVars
  <2>3. \A q \in Requests : request[q].step = "starting" => request[q].e # e
    BY <1>0, <2>1
  <2>4. QED
    BY <1>0, <2>1, <2>2, <2>3 DEF Unstarted, MoveRequest
<1>4. ASSUME NEW r \in Requests, TemporalStarts(r) \/ StartAnswerLost(r)
      PROVE  Unstarted'
  BY <1>0, <1>4 DEF TemporalStarts, StartAnswerLost, MoveRun, EndRequest,
                    IdleRequest, MoveRequest, Unstarted
<1>5. ASSUME NEW r \in Requests,
             \/ DiscoveryTurn(r) \/ DiscoveryCompletes(r) \/ DiscoveryContinues(r)
             \/ RetryBuild(r) \/ RetryRejected(r) \/ TemporalRefuses(r)
             \/ StartFails(r) \/ CancelBuild(r) \/ CancelTemporal(r)
             \/ CancelRows(r) \/ Crash(r)
      PROVE  Unstarted'
  <2>1. /\ UNCHANGED run
        /\ \E x : /\ x.step # "starting"
                 /\ request' = [request EXCEPT ![r] = x]
    BY <1>5
    DEF DiscoveryTurn, DiscoveryCompletes, DiscoveryContinues, RetryBuild,
        RetryRejected, TemporalRefuses, StartFails, CancelBuild, CancelTemporal,
        CancelRows, Crash, MoveRequest, EndRequest, IdleRequest, runVars
  <2>2. PICK x : x.step # "starting" /\ request' = [request EXCEPT ![r] = x]
    BY <2>1
  <2>3. QED
    BY <1>0, <2>1, <2>2 DEF Unstarted
<1>6. CASE UNCHANGED vars
  BY <1>6 DEF vars, runVars, Unstarted
<1>7. QED
  BY <1>1, <1>2, <1>3, <1>4, <1>5, <1>6 DEF Next, Arrival, RequestStepOf

WholeInv == HandInv /\ Unstarted /\ Shape

LEMMA WholeInit == Init => WholeInv
<1> SUFFICES ASSUME Init
             PROVE  WholeInv
  OBVIOUS
<1>1. HandInv
  BY HandInit
<1>2. Unstarted /\ Shape
  BY DEF Init, SeamInit, NoRuns, Quiet, IdleRequest, Unstarted, Shape, NotYetEnded,
         OnlyOrigin, OkIsCompleted, BatchScheduled, WholeSoFar, Nodes,
         CompletedRunIsWhole, BuildNodes, Absent
<1>3. QED
  BY <1>1, <1>2 DEF WholeInv

LEMMA WholeNext == WholeInv /\ [Next]_vars => WholeInv'
<1> SUFFICES ASSUME WholeInv, [Next]_vars
             PROVE  WholeInv'
  OBVIOUS
<1>1. HandInv /\ Unstarted /\ Shape
  BY DEF WholeInv
<1>2. HandInv' /\ Unstarted'
  BY <1>1, HandNext, UnstartedNext
<1>3. CASE Calm
  BY <1>1, <1>2, <1>3, CalmKeepsShape DEF WholeInv, HandInv
<1>4. CASE Stirs
  <2>1. ASSUME NEW r \in Requests, StartBuild(r) \/ RetryFresh(r)
        PROVE  Shape'
    BY <1>1, <2>1, AdmissionKeepsShape, BuildAssumption
    DEF StartBuild, RetryFresh, Admit, StartHcrRun
  <2>2. ASSUME NEW r \in Requests, RetryResume(r)
        PROVE  Shape'
    BY <1>1, <2>2, AdmissionKeepsShape
    DEF RetryResume, ResumeHcrRun, HandInv, RequestsHaveRows
  <2>3. QED
    BY <1>1, <1>2, <1>4, <2>1, <2>2, ValidateKeepsShape, SettleKeepsShape,
       CoordinateKeepsShape, CoordinateFailsKeepsShape, FinalizeKeepsShape,
       StartKeepsShape
    DEF Stirs, WholeInv
<1>5. QED
  BY <1>1, <1>3, <1>4, CalmSteps

\* A run that is reported COMPLETED is whole, and stays so: in every graph,
\* with any number of executions, attempts, requests and faults.
THEOREM WholeBuilds == Spec => []CompletedRunIsWhole
<1>1. WholeInv => CompletedRunIsWhole
  BY DEF WholeInv, Shape
<1>2. QED
  BY WholeInit, WholeNext, <1>1, PTL DEF Spec
-----------------------------------------------------------------------------
(* What the workflow knows of the nodes of a batch *)

\* What the workflow was told of its nodes: nothing before the first batch;
\* a node that is at work, or failed, is in the batch; the batch that is
\* coordinated has succeeded; what is compensated has failed.
AnswersKnown ==
    \A c \in Executions :
        /\ run[c] \in {"absent", "validating"} =>
            \A t \in BuildNodes : outcome[c][t] = "none"
        /\ run[c] = "running" =>
            \A t \in BuildNodes : outcome[c][t] \in {"running", "failed"} => t \in batch[c]
        /\ run[c] = "coordinating" =>
            /\ \A t \in BuildNodes : outcome[c][t] \notin {"running", "failed"}
            /\ \A t \in batch[c] : outcome[c][t] \in {"ok", "incomplete"}
        /\ run[c] = "compensating" =>
            \A t \in todo[c] : outcome[c][t] = "failed"

AtWork == {"CREATED", "RUNNING"}

\* A node that answered is not at work, and never is again.
AnsweredRests ==
    \A c \in Executions, t \in BuildNodes :
        outcome[c][t] \in {"ok", "incomplete"} => node[c][t] \notin AtWork \union {Absent}

\* The nodes at work are those of the batch, and, while the batch is
\* coordinated, those it leads to.
WorkInBatch ==
    \A c \in Executions, t \in BuildNodes : node[c][t] \in AtWork =>
        /\ run[c] = "running" => t \in batch[c]
        /\ run[c] = "coordinating" => t \in NextBatch(c)

\* A batch is taken from one level of the graph.
BatchIsLevel ==
    \A c \in Executions : run[c] \in {"running", "coordinating"} =>
        \A t, u \in batch[c] : Order[t] = Order[u]

\* A node that is not a tool node says it is done after its artifact was
\* written; only tool nodes stop incomplete.
AnswersProduced ==
    \A c \in Executions, t \in BuildNodes :
        /\ outcome[c][t] = "incomplete" => t \in ToolNodes
        /\ t \notin ToolNodes =>
            /\ outcome[c][t] = "ok" => <<c, t>> \in artifact
            /\ \A a \in Attempts : attempt[c][t][a] = "wrote" => <<c, t>> \in artifact

\* Executions are inserted in order.
RowsInOrder == \A c, d \in Executions : Exists(c) /\ d < c => Exists(d)

\* The artifact that leads to a node of an execution was written by that
\* execution or an earlier one of its build; for its first node, earlier.
NodesHaveInput ==
    \A c \in Executions, t \in BuildNodes : node[c][t] # Absent /\ t # FirstNode =>
        \E d \in Executions, u \in BuildNodes :
            /\ d <= c
            /\ t = origin[c] => d < c
            /\ build[d] = build[c]
            /\ t \in NextNodes[u]
            /\ <<d, u>> \in artifact

\* A run whose execution was reported incomplete does not report it complete.
PartialIsIncomplete ==
    \A c \in Executions : execution[c] = "PARTIAL" => anyIncomplete[c]

-----------------------------------------------------------------------------
(* Three sorts of steps *)

\* A step that schedules, creates and answers nothing: nodes only fail, the
\* trigger node or one that is compensated, or are skipped.
Ebbs ==
    /\ UNCHANGED <<batch, artifact, outcome, attempt, created, build, origin>>
    /\ faults' = faults \/ faults' = faults + 1
    /\ \A c \in Executions :
        /\ run'[c] = run[c] \/ run'[c] \in {"rescue", "reporting", "closed"}
        /\ todo'[c] \subseteq todo[c]
        /\ run'[c] = "coordinating" => todo'[c] = todo[c]
        /\ Exists(c)' = Exists(c)
        /\ \A t \in BuildNodes :
            \/ node'[c][t] = node[c][t]
            \/ node[c][t] \in AtWork /\ node'[c][t] = "SKIPPED"
            \/ /\ node[c][t] # Absent
               /\ node'[c][t] = "FAILED"
               /\ t = origin[c] \/ (run[c] = "compensating" /\ t \in todo[c])

\* A step of an attempt of node t of execution e.
Moves(e, t) ==
    /\ UNCHANGED <<run, batch, todo, created, build, origin>>
    /\ faults' = faults \/ faults' = faults + 1
    /\ artifact \subseteq artifact'
    /\ \A c \in Executions : Exists(c)' = Exists(c)
    /\ \A c \in Executions, u \in BuildNodes : c # e \/ u # t =>
        /\ node'[c][u] = node[c][u]
        /\ outcome'[c][u] = outcome[c][u]
        /\ attempt'[c][u] = attempt[c][u]
    /\ \/ node'[e][t] = node[e][t]
       \/ node[e][t] = "CREATED" /\ node'[e][t] = "RUNNING"
       \/ node[e][t] # Absent /\ node'[e][t] \in {"COMPLETED", "INCOMPLETE"}
    /\ \/ outcome'[e][t] = outcome[e][t]
       \/ /\ run[e] = "running"
          /\ outcome[e][t] = "running"
          /\ \/ outcome'[e][t] = "failed"
             \/ /\ outcome'[e][t] = "ok"
                /\ node'[e][t] = "COMPLETED"
                /\ \E a \in Attempts : attempt[e][t][a] = "wrote"
             \/ /\ outcome'[e][t] = "incomplete"
                /\ node'[e][t] \in {"COMPLETED", "INCOMPLETE"}
                /\ t \in ToolNodes
    /\ \A a \in Attempts : attempt'[e][t][a] = "wrote" =>
        attempt[e][t][a] = "wrote" \/ t \in ToolNodes \/ <<e, t>> \in artifact'

\* The others.
Turns ==
    \/ \E e \in Executions :
        \/ Validate(e)
        \/ Settle(e)
        \/ \E t \in BuildNodes : Coordinate(e, t) \/ CoordinateFails(e, t)
    \/ \E r \in Requests :
        \/ StartBuild(r)
        \/ RetryFresh(r)
        \/ RetryResume(r)
        \/ TemporalStarts(r)
        \/ StartAnswerLost(r)

LEMMA MoveSteps ==
  ASSUME HandInv, NEW e \in Executions, NEW t \in BuildNodes, NEW a \in Attempts,
         AttemptStepOf(e, t, a) \/ LeaseLost(e, t, a)
  PROVE  Moves(e, t)
<1>0. /\ execution \in [Executions -> ExecutionStatus \union {Absent}]
      /\ node \in [Executions -> [NodeTypes -> NodeStatus \union {Absent}]]
      /\ outcome \in [Executions -> [BuildNodes -> Outcome]]
      /\ attempt \in [Executions -> [BuildNodes -> [Attempts -> AttemptStep]]]
      /\ t \in NodeTypes
      /\ BuildNodes \subseteq NodeTypes
  BY DEF HandInv, TypeOK, SeamTypeOK, BuildNodes
<1> DEFINE NodeMoves ==
             /\ \A c \in Executions : Exists(c)' = Exists(c)
             /\ \A c \in Executions, u \in BuildNodes :
                    c # e \/ u # t => node'[c][u] = node[c][u]
             /\ \/ node'[e][t] = node[e][t]
                \/ node[e][t] = "CREATED" /\ node'[e][t] = "RUNNING"
                \/ node[e][t] # Absent /\ node'[e][t] \in {"COMPLETED", "INCOMPLETE"}
           Elsewhere ==
             \A c \in Executions, u \in BuildNodes : c # e \/ u # t =>
                outcome'[c][u] = outcome[c][u] /\ attempt'[c][u] = attempt[c][u]
           NothingWritten ==
             \A b \in Attempts :
                attempt'[e][t][b] = "wrote" => attempt[e][t][b] = "wrote"
           Told(result) ==
             run[e] = "running" /\ outcome[e][t] = "running" /\ outcome'[e][t] = result
<1>1. ASSUME CompleteNode(e, t)
      PROVE  /\ NodeMoves
             /\ node'[e][t] = "COMPLETED"
             /\ UNCHANGED <<build, origin>>
  BY <1>0, <1>1 DEF CompleteNode, Exists
<1>2. ASSUME UNCHANGED seamVars
      PROVE  NodeMoves /\ UNCHANGED <<build, origin>>
  BY <1>2 DEF seamVars, Exists
<1>3. ASSUME NEW step \in AttemptStep, MoveAttempt(e, t, a, step)
      PROVE  /\ \A c \in Executions, u \in BuildNodes :
                    c # e \/ u # t => attempt'[c][u] = attempt[c][u]
             /\ \A b \in Attempts \ {a} : attempt'[e][t][b] = attempt[e][t][b]
             /\ attempt'[e][t][a] = step
  BY <1>0, <1>3 DEF MoveAttempt
<1>4. {"live", "wrote", "ended"} \subseteq AttemptStep
  BY DEF AttemptStep
<1>5. ASSUME NEW result, Answer(e, t, a, result)
      PROVE  /\ Elsewhere
             /\ NothingWritten
             /\ outcome'[e][t] = outcome[e][t] \/ Told(result)
  <2>1. /\ \A c \in Executions, u \in BuildNodes :
              c # e \/ u # t => outcome'[c][u] = outcome[c][u]
        /\ outcome'[e][t] = outcome[e][t] \/ Told(result)
    BY <1>0, <1>5 DEF Answer, Wanted
  <2>2. MoveAttempt(e, t, a, "ended")
    BY <1>5 DEF Answer
  <2>3. QED
    BY <1>3, <1>4, <2>1, <2>2
<1>6. ASSUME NEW step \in AttemptStep, GiveUp(e, t, a, step), Wanted(e, t, a),
             step = "wrote" => attempt[e][t][a] = "wrote"
      PROVE  /\ Elsewhere
             /\ NothingWritten
             /\ outcome'[e][t] = outcome[e][t] \/ Told("failed")
  <2>1. CASE /\ attempt' = [attempt EXCEPT ![e][t][a] = step,
                                           ![e][t][a + 1] = "queued"]
             /\ UNCHANGED outcome
    <3> DEFINE moved == [attempt EXCEPT ![e][t][a] = step]
    <3>1. /\ moved \in [Executions -> [BuildNodes -> [Attempts -> AttemptStep]]]
          /\ \A c \in Executions, u \in BuildNodes :
                c # e \/ u # t => moved[c][u] = attempt[c][u]
          /\ \A b \in Attempts : moved[e][t][b] = IF b = a THEN step ELSE attempt[e][t][b]
      BY <1>0
    <3>2. attempt' = [moved EXCEPT ![e][t][a + 1] = "queued"]
      BY <2>1
    <3> HIDE DEF moved
    <3>3. /\ \A c \in Executions, u \in BuildNodes :
                c # e \/ u # t => attempt'[c][u] = moved[c][u]
          /\ \A b \in Attempts : attempt'[e][t][b] = "wrote" => moved[e][t][b] = "wrote"
      BY <3>1, <3>2
    <3>4. NothingWritten
      BY <1>6, <3>1, <3>3
    <3>5. \A c \in Executions, u \in BuildNodes : outcome'[c][u] = outcome[c][u]
      BY <2>1
    <3>6. \A c \in Executions, u \in BuildNodes :
            c # e \/ u # t => attempt'[c][u] = attempt[c][u]
      BY <3>1, <3>3
    <3>7. QED
      BY <3>4, <3>5, <3>6
  <2>2. CASE /\ outcome' = [outcome EXCEPT ![e][t] = "failed"]
             /\ MoveAttempt(e, t, a, step)
    BY <1>0, <1>3, <1>6, <2>2, ZenonT(40) DEF Wanted
  <2>3. QED
    BY <1>6, <2>1, <2>2 DEF GiveUp, MayRetry
<1>7. CASE AttemptBegin(e, t, a)
  <2>1. /\ \A c \in Executions : Exists(c)' = Exists(c)
        /\ UNCHANGED <<build, origin>>
        /\ node' = [node EXCEPT ![e][t] = IF @ = "CREATED" THEN "RUNNING" ELSE @]
    BY <1>0, <1>7 DEF AttemptBegin, BeginNode, MarkExecutionRunning,
                      MarkNodeRunning, Exists, Absent
  <2>2. NodeMoves
    BY <1>0, <2>1
  <2>3. Elsewhere /\ NothingWritten
    BY <1>0, <1>3, <1>4, <1>7 DEF AttemptBegin
  <2>4. /\ UNCHANGED <<run, batch, todo, created, artifact, outcome>>
        /\ faults' = faults
    BY <1>7 DEF AttemptBegin, NoFault, runVars
  <2>5. QED
    BY <2>1, <2>2, <2>3, <2>4 DEF Moves
<1>8. CASE AttemptWrite(e, t, a)
  <2>1. /\ NodeMoves
        /\ UNCHANGED <<build, origin>>
        /\ artifact \subseteq artifact'
        /\ t \in ToolNodes \/ <<e, t>> \in artifact'
    BY <1>1, <1>2, <1>8 DEF AttemptWrite
  <2>2. /\ Elsewhere
        /\ UNCHANGED <<run, batch, todo, created, outcome>>
        /\ faults' = faults
    BY <1>3, <1>4, <1>8 DEF AttemptWrite, NoFault, runVars
  <2>3. QED
    BY <2>1, <2>2 DEF Moves
<1>9. CASE AttemptComplete(e, t, a)
  <2>1. /\ NodeMoves
        /\ UNCHANGED <<build, origin>>
        /\ node'[e][t] = "COMPLETED"
    BY <1>1, <1>9 DEF AttemptComplete
  <2>2. /\ Elsewhere
        /\ NothingWritten
        /\ outcome'[e][t] = outcome[e][t] \/ Told("ok")
    BY <1>5, <1>9 DEF AttemptComplete
  <2>3. /\ UNCHANGED <<run, batch, todo, created, artifact>>
        /\ faults' = faults
        /\ attempt[e][t][a] = "wrote"
    BY <1>9 DEF AttemptComplete, NoFault, runVars
  <2>4. QED
    BY <2>1, <2>2, <2>3 DEF Moves
<1>10. CASE AttemptStop(e, t, a)
  <2>1. /\ NodeMoves
        /\ UNCHANGED <<build, origin>>
        /\ node'[e][t] \in {"COMPLETED", "INCOMPLETE"}
    BY <1>0, <1>10 DEF AttemptStop, StopNode, Exists
  <2>2. /\ Elsewhere
        /\ NothingWritten
        /\ outcome'[e][t] = outcome[e][t] \/ Told("incomplete")
    BY <1>5, <1>10 DEF AttemptStop
  <2>3. /\ UNCHANGED <<run, batch, todo, created, artifact>>
        /\ faults' = faults
        /\ t \in ToolNodes
    BY <1>10 DEF AttemptStop, NoFault, runVars
  <2>4. QED
    BY <2>1, <2>2, <2>3 DEF Moves
<1>11. CASE AttemptFail(e, t, a)
  <2>1. /\ UNCHANGED <<seamVars, run, batch, todo, created, artifact>>
        /\ faults' = faults
    BY <1>11 DEF AttemptFail, NoFault, runVars
  <2>2. Elsewhere /\ NothingWritten /\ (outcome'[e][t] = outcome[e][t] \/ Told("failed"))
    <3>1. CASE Wanted(e, t, a)
      BY <1>4, <1>6, <1>11, <3>1 DEF AttemptFail
    <3>2. CASE ~Wanted(e, t, a)
      BY <1>3, <1>4, <1>11, <3>2 DEF AttemptFail
    <3>3. QED
      BY <3>1, <3>2
  <2>3. QED
    BY <1>2, <2>1, <2>2 DEF Moves
<1>12. CASE LeaseLost(e, t, a)
  <2>1. /\ UNCHANGED <<seamVars, run, batch, todo, created, artifact>>
        /\ faults' = faults + 1
    BY <1>12 DEF LeaseLost, Fault, runVars
  <2>2. Elsewhere /\ NothingWritten /\ (outcome'[e][t] = outcome[e][t] \/ Told("failed"))
    BY <1>4, <1>6, <1>12 DEF LeaseLost
  <2>3. QED
    BY <1>2, <2>1, <2>2 DEF Moves
<1>13. QED
  BY <1>7, <1>8, <1>9, <1>10, <1>11, <1>12 DEF AttemptStepOf

LEMMA EbbSteps ==
  HandInv /\ [Next]_vars =>
    \/ Ebbs
    \/ Turns
    \/ \E e \in Executions, t \in BuildNodes : Moves(e, t)
<1> SUFFICES ASSUME HandInv, [Next]_vars
             PROVE  \/ Ebbs
                    \/ Turns
                    \/ \E e \in Executions, t \in BuildNodes : Moves(e, t)
  OBVIOUS
<1>0. /\ execution \in [Executions -> ExecutionStatus \union {Absent}]
      /\ node \in [Executions -> [NodeTypes -> NodeStatus \union {Absent}]]
      /\ run \in [Executions -> RunStep]
      /\ todo \in [Executions -> SUBSET BuildNodes]
      /\ Absent \notin ExecutionStatus
      /\ \A e \in Executions : Exists(e) => origin[e] \in BuildNodes
      /\ \A e \in Executions : run[e] # "absent" => Exists(e)
      /\ \A e \in Executions, t \in NodeTypes : node[e][t] # Absent => Exists(e)
      /\ RequestsHaveRows
  BY OriginKnown DEF HandInv, TypeOK, SeamTypeOK, RunsHaveRows, RowsAreLinked,
                     ExecutionStatus, Absent
<1>1. ASSUME NEW e \in Executions, NEW t \in BuildNodes, FailExecution(e, t),
             t = origin[e] \/ (run[e] = "compensating" /\ t \in todo[e])
      PROVE  /\ UNCHANGED <<build, origin>>
             /\ \A c \in Executions :
                /\ Exists(c)' = Exists(c)
                /\ \A u \in BuildNodes :
                    \/ node'[c][u] = node[c][u]
                    \/ /\ node[c][u] # Absent
                       /\ node'[c][u] = "FAILED"
                       /\ u = origin[c] \/ (run[c] = "compensating" /\ u \in todo[c])
  BY <1>0, <1>1 DEF FailExecution, Exists, BuildNodes, Absent
<1> USE <1>0 DEF Ebbs, MoveRun, NoFault, Fault, runVars, activityVars, seamVars
<1>2. ASSUME NEW e \in Executions, Rescue(e)
      PROVE  Ebbs
  BY <1>1, <1>2 DEF Rescue, FailTrigger
<1>3. ASSUME NEW e \in Executions, Report(e) \/ RunCancelled(e)
      PROVE  Ebbs
  BY <1>3 DEF Report, RunCancelled, Exists
<1>4. ASSUME NEW e \in Executions, ValidateFails(e) \/ RescueFails(e)
      PROVE  Ebbs
  BY <1>4 DEF ValidateFails, RescueFails, Exists
<1>5. ASSUME NEW e \in Executions, ReportFails(e) \/ RunTimedOut(e)
      PROVE  Ebbs
  BY <1>5 DEF ReportFails, RunTimedOut, Exists
<1>6. ASSUME NEW e \in Executions, Finalize(e) \/ FinalizeFails(e)
      PROVE  Ebbs
  <2>1. /\ UNCHANGED <<node, build, origin>>
        /\ \A c \in Executions : Exists(c)' = Exists(c)
    BY <1>6 DEF Finalize, FinalizeFails, FinalizeRows, CompleteExecution,
                CompleteExecutionPartially, Finish, Exists, Absent
  <2>2. QED
    BY <1>6, <2>1 DEF Finalize, FinalizeFails
<1>7. ASSUME NEW e \in Executions, NEW t \in BuildNodes, Compensate(e, t)
      PROVE  Ebbs
  BY <1>1, <1>7 DEF Compensate, Remaining
<1>8. ASSUME NEW e \in Executions, NEW t \in BuildNodes, CompensateFails(e, t)
      PROVE  Ebbs
  BY <1>1, <1>8 DEF CompensateFails, Exists
<1>9. ASSUME NEW r \in Requests,
             \/ DiscoveryTurn(r) \/ DiscoveryContinues(r) \/ RetryBuild(r)
             \/ RetryRejected(r) \/ TemporalRefuses(r) \/ CancelBuild(r)
             \/ CancelTemporal(r) \/ Crash(r)
      PROVE  Ebbs
  BY <1>9 DEF DiscoveryTurn, DiscoveryContinues, RetryBuild, RetryRejected,
              TemporalRefuses, CancelBuild, CancelTemporal, Crash, Exists
<1>10. ASSUME NEW r \in Requests, DiscoveryCompletes(r)
       PROVE  Ebbs
  BY <1>10 DEF DiscoveryCompletes, CompleteDiscovery, Exists
<1>11. ASSUME NEW r \in Requests, StartFails(r)
       PROVE  Ebbs
  BY <1>1, <1>11 DEF StartFails, FailTrigger, RequestsHaveRows
<1>12. ASSUME NEW r \in Requests, CancelRows(r)
       PROVE  Ebbs
  BY <1>12 DEF CancelRows, CancelExecution, Active, Exists, RequestsHaveRows,
               AtWork, BuildNodes, Absent
<1>13. CASE UNCHANGED vars
  BY <1>13 DEF vars, Exists
<1>14. QED
  BY <1>2, <1>3, <1>4, <1>5, <1>6, <1>7, <1>8, <1>9, <1>10, <1>11, <1>12,
     <1>13, MoveSteps
  DEF Next, RunStepOf, RunFault, Arrival, RequestStepOf, Turns

-----------------------------------------------------------------------------
(* Who is to blame for a failed node *)

\* What the turns of the workflow do to its locals and to the nodes.
LEMMA ScheduleEffect ==
  ASSUME TypeOK, NEW e \in Executions, NEW T \in SUBSET BuildNodes, Schedule(e, T)
  PROVE  /\ \A c \in Executions : c # e =>
                /\ run'[c] = run[c]
                /\ batch'[c] = batch[c]
                /\ todo'[c] = todo[c]
                /\ \A t \in BuildNodes : /\ outcome'[c][t] = outcome[c][t]
                                         /\ attempt'[c][t] = attempt[c][t]
         /\ run'[e] = "running"
         /\ batch'[e] = T
         /\ todo'[e] = {}
         /\ \A t \in BuildNodes :
                outcome'[e][t] = IF t \in T THEN "running" ELSE outcome[e][t]
         /\ \A t \in BuildNodes, a \in Attempts :
                attempt'[e][t][a] = "wrote" => attempt[e][t][a] = "wrote"
<1>1. /\ run \in [Executions -> RunStep]
      /\ batch \in [Executions -> SUBSET BuildNodes]
      /\ todo \in [Executions -> SUBSET BuildNodes]
      /\ outcome \in [Executions -> [BuildNodes -> Outcome]]
      /\ attempt \in [Executions -> [BuildNodes -> [Attempts -> AttemptStep]]]
  BY DEF TypeOK
<1>2. /\ run' = [run EXCEPT ![e] = "running"]
      /\ batch' = [batch EXCEPT ![e] = T]
      /\ todo' = [todo EXCEPT ![e] = {}]
  BY DEF Schedule, MoveRun
<1>3. outcome' = [outcome EXCEPT ![e] =
                    [t \in BuildNodes |-> IF t \in T THEN "running" ELSE @[t]]]
  BY DEF Schedule
<1>4. attempt' = [attempt EXCEPT ![e] =
                    [t \in BuildNodes |->
                        IF t \in T THEN [@[t] EXCEPT ![1] = "queued"] ELSE @[t]]]
  BY DEF Schedule
<1>5. \A t \in BuildNodes, a \in Attempts :
        attempt'[e][t][a] = "wrote" => attempt[e][t][a] = "wrote"
  <2>1. ASSUME NEW t \in BuildNodes, NEW a \in Attempts, attempt'[e][t][a] = "wrote"
        PROVE  attempt[e][t][a] = "wrote"
    <3>1. attempt'[e][t] = IF t \in T THEN [attempt[e][t] EXCEPT ![1] = "queued"]
                           ELSE attempt[e][t]
      BY <1>1, <1>4
    <3>2. attempt[e][t] \in [Attempts -> AttemptStep]
      BY <1>1
    <3>3. QED
      BY <2>1, <3>1, <3>2
  <2>2. QED
    BY <2>1
<1>6. QED
  BY <1>1, <1>2, <1>3, <1>4, <1>5

LEMMA TurnsOfRun ==
  ASSUME HandInv, NEW e \in Executions, NEW s \in BuildNodes,
         Coordinate(e, s) \/ CoordinateFails(e, s)
  PROVE  /\ run[e] = "coordinating"
         /\ s \in todo[e]
         /\ UNCHANGED <<artifact, build, origin, execution>>
         /\ \A c \in Executions : c # e =>
                /\ run'[c] = run[c]
                /\ batch'[c] = batch[c]
                /\ todo'[c] = todo[c]
                /\ \A t \in BuildNodes : /\ outcome'[c][t] = outcome[c][t]
                                         /\ attempt'[c][t] = attempt[c][t]
                                         /\ node'[c][t] = node[c][t]
         /\ \A t \in BuildNodes :
                \/ node'[e][t] = node[e][t]
                \/ /\ node[e][t] = Absent
                   /\ node'[e][t] = "CREATED"
                   /\ t \in NextNodes[s]
         /\ \/ /\ run'[e] \in {"coordinating", "rescue", "finalizing"}
               /\ todo'[e] \subseteq todo[e]
               /\ batch'[e] = batch[e]
               /\ \A t \in BuildNodes : /\ outcome'[e][t] = outcome[e][t]
                                        /\ attempt'[e][t] = attempt[e][t]
            \/ /\ run'[e] = "running"
               /\ batch'[e] = NextBatch(e)
               /\ todo'[e] = {}
               /\ \A t \in BuildNodes :
                    outcome'[e][t] = IF t \in NextBatch(e) THEN "running" ELSE outcome[e][t]
               /\ \A t \in BuildNodes, a \in Attempts :
                    attempt'[e][t][a] = "wrote" => attempt[e][t][a] = "wrote"
<1>0. /\ node \in [Executions -> [NodeTypes -> NodeStatus \union {Absent}]]
      /\ run \in [Executions -> RunStep]
      /\ batch \in [Executions -> SUBSET BuildNodes]
      /\ todo \in [Executions -> SUBSET BuildNodes]
      /\ TypeOK
      /\ BuildNodes \subseteq NodeTypes
      /\ NextNodes \in [BuildNodes -> SUBSET BuildNodes]
  BY BuildAssumption DEF HandInv, TypeOK, SeamTypeOK, BuildNodes
<1>1. NextBatch(e) \in SUBSET BuildNodes
  BY <1>0 DEF NextBatch
<1>2. /\ run[e] = "coordinating"
      /\ s \in todo[e]
      /\ UNCHANGED <<artifact, build, origin, execution>>
  BY DEF Coordinate, CoordinateFails, CreateNodes, activityVars
<1>3. ASSUME NEW T \in SUBSET NextNodes[s], CreateNodes(e, T)
      PROVE  /\ \A c \in Executions : c # e =>
                    \A t \in BuildNodes : node'[c][t] = node[c][t]
             /\ \A t \in BuildNodes :
                    \/ node'[e][t] = node[e][t]
                    \/ /\ node[e][t] = Absent
                       /\ node'[e][t] = "CREATED"
                       /\ t \in NextNodes[s]
  BY <1>0, <1>3 DEF CreateNodes
<1>4. CASE Coordinate(e, s)
  <2>1. CreateNodes(e, NextNodes[s]) /\ NextNodes[s] \in SUBSET NextNodes[s]
    BY <1>4 DEF Coordinate
  <2>2. CASE Schedule(e, NextBatch(e))
    BY <1>0, <1>1, <1>2, <1>3, <2>1, <2>2, ScheduleEffect
  <2>3. CASE /\ run' = run \/ run' = [run EXCEPT ![e] = "finalizing"]
             /\ todo' = [todo EXCEPT ![e] = Remaining(e, s)]
                \/ todo' = [todo EXCEPT ![e] = {}]
             /\ UNCHANGED <<batch, outcome, attempt>>
    BY <1>0, <1>2, <1>3, <2>1, <2>3 DEF Remaining
  <2>4. QED
    BY <1>4, <2>2, <2>3 DEF Coordinate, MoveRun
<1>5. CASE CoordinateFails(e, s)
  <2>1. PICK T \in SUBSET Missing(e, s) : CreateNodes(e, T)
    BY <1>5 DEF CoordinateFails
  <2>2. T \in SUBSET NextNodes[s]
    BY <2>1 DEF Missing
  <2>3. /\ run' = run \/ run' = [run EXCEPT ![e] = "rescue"]
        /\ UNCHANGED <<batch, todo, outcome, attempt>>
    BY <1>5 DEF CoordinateFails, activityVars
  <2>4. QED
    BY <1>0, <1>2, <1>3, <2>1, <2>2, <2>3
<1>6. QED
  BY <1>4, <1>5

\* An admission inserts execution e with node t, the first node of the graph
\* or a node that an earlier execution of the same build has.
Inserts(e, t) ==
    /\ IsNext(e)
    /\ Exists(e)'
    /\ EmitCreated(e, {t})
    /\ origin'[e] = t
    /\ \A u \in BuildNodes :
        node[e][u] = Absent /\ node'[e][u] = IF u = t THEN "CREATED" ELSE Absent
    /\ \A c \in Executions : c # e =>
        /\ Exists(c)' = Exists(c)
        /\ build'[c] = build[c]
        /\ origin'[c] = origin[c]
        /\ \A u \in BuildNodes : node'[c][u] = node[c][u]
    /\ \/ t = FirstNode
       \/ \E d \in Executions :
            Exists(d) /\ node[d][t] # Absent /\ build'[e] = build[d]

LEMMA AdmissionEffect ==
  ASSUME HandInv, NEW r \in Requests,
         StartBuild(r) \/ RetryFresh(r) \/ RetryResume(r)
  PROVE  /\ UNCHANGED <<run, batch, todo, artifact, outcome, attempt>>
         /\ \E e \in Executions, t \in BuildNodes : Inserts(e, t)
<1>0. /\ execution \in [Executions -> ExecutionStatus \union {Absent}]
      /\ node \in [Executions -> [NodeTypes -> NodeStatus \union {Absent}]]
      /\ build \in [Executions -> Executions]
      /\ origin \in [Executions -> NodeTypes \union {Absent}]
      /\ BuildNodes \subseteq NodeTypes
      /\ FirstNode \in BuildNodes
      /\ \A c \in Executions, t \in NodeTypes : node[c][t] # Absent => Exists(c)
      /\ request[r].step = "resuming"
            => request[r].e \in Executions /\ request[r].t \in BuildNodes
  BY BuildAssumption DEF HandInv, TypeOK, SeamTypeOK, RowsAreLinked, RequestsHaveRows, BuildNodes
<1>1. UNCHANGED <<run, batch, todo, artifact, outcome, attempt>>
  BY DEF StartBuild, RetryFresh, RetryResume, Admit, runVars, activityVars
<1>2. ASSUME NEW e \in Executions, NEW w \in Executions, NEW t \in BuildNodes,
             CreateExecution(e, w, t)
      PROVE  /\ IsNext(e)
             /\ Exists(e)'
             /\ build'[e] = w
             /\ origin'[e] = t
             /\ \A u \in BuildNodes :
                    node[e][u] = Absent /\ node'[e][u] = IF u = t THEN "CREATED" ELSE Absent
             /\ \A c \in Executions : c # e =>
                    /\ Exists(c)' = Exists(c)
                    /\ build'[c] = build[c]
                    /\ origin'[c] = origin[c]
                    /\ \A u \in BuildNodes : node'[c][u] = node[c][u]
  <2>1. /\ IsNext(e)
        /\ execution' = [execution EXCEPT ![e] = "CREATED"]
        /\ build' = [build EXCEPT ![e] = w]
        /\ origin' = [origin EXCEPT ![e] = t]
        /\ node' = [node EXCEPT ![e][t] = "CREATED"]
    BY <1>2 DEF CreateExecution
  <2>2. \A u \in BuildNodes : node[e][u] = Absent
    BY <1>0, <2>1 DEF IsNext
  <2>3. QED
    BY <1>0, <2>1, <2>2 DEF Exists, Absent
<1>3. CASE StartBuild(r) \/ RetryFresh(r)
  <2>1. PICK e \in Executions : CreateExecution(e, e, FirstNode) /\ EmitCreated(e, {FirstNode})
    BY <1>3 DEF StartBuild, RetryFresh, Admit, StartHcrRun
  <2>2. e \in Executions /\ FirstNode \in BuildNodes
    BY <1>0
  <2>3. Inserts(e, FirstNode)
    BY <1>2, <2>1, <2>2 DEF Inserts
  <2>4. QED
    BY <1>1, <2>2, <2>3
<1>4. CASE RetryResume(r)
  <2>1. PICK e \in Executions : /\ ResumeHcrRun(e, request[r].e, request[r].t)
                                /\ EmitCreated(e, {request[r].t})
    BY <1>4 DEF RetryResume
  <2>2. request[r].e \in Executions /\ request[r].t \in BuildNodes
    BY <1>0, <1>4 DEF RetryResume
  <2> DEFINE d == request[r].e
             t == request[r].t
  <2>3. /\ CreateExecution(e, build[d], t)
        /\ node[d][t] # Absent
    BY <2>1 DEF ResumeHcrRun
  <2>4. Exists(d) /\ build[d] \in Executions
    BY <1>0, <2>2, <2>3
  <2>5. EmitCreated(e, {t}) /\ t \in BuildNodes /\ d \in Executions
    BY <2>1, <2>2
  <2> HIDE DEF d, t
  <2>6. Inserts(e, t)
    BY <1>2, <2>3, <2>4, <2>5 DEF Inserts
  <2>7. QED
    BY <1>1, <2>5, <2>6
<1>5. QED
  BY <1>3, <1>4

LEMMA StartEffect ==
  ASSUME HandInv, Unstarted, NEW r \in Requests,
         TemporalStarts(r) \/ StartAnswerLost(r)
  PROVE  /\ UNCHANGED <<execution, build, origin, node, events, artifact, created,
                        batch, todo, anyIncomplete, outcome, attempt>>
         /\ \A c \in Executions :
                run'[c] = run[c] \/ (run[c] = "absent" /\ run'[c] = "validating")
<1>1. /\ run \in [Executions -> RunStep]
      /\ run[request[r].e] = "absent"
      /\ request[r].e \in Executions
  BY DEF TemporalStarts, StartAnswerLost, HandInv, TypeOK, RequestsHaveRows, Unstarted
<1>2. /\ UNCHANGED <<seamVars, activityVars, created, batch, todo, anyIncomplete>>
      /\ run' = [run EXCEPT ![request[r].e] = "validating"]
  BY DEF TemporalStarts, StartAnswerLost, MoveRun
<1>3. UNCHANGED <<execution, build, origin, node, events, artifact, created,
                  batch, todo, anyIncomplete, outcome, attempt>>
  BY <1>2 DEF seamVars, activityVars
<1>4. \A c \in Executions :
        run'[c] = run[c] \/ (run[c] = "absent" /\ run'[c] = "validating")
  BY <1>1, <1>2
<1>5. QED
  BY <1>3, <1>4

BlameInv == AnswersKnown /\ FailureAttribution

LEMMA BlameNext == WholeInv /\ BlameInv /\ [Next]_vars => BlameInv'
<1> SUFFICES ASSUME WholeInv, BlameInv, [Next]_vars
             PROVE  BlameInv'
  OBVIOUS
<1>0. /\ HandInv /\ TypeOK /\ Unstarted /\ BatchScheduled
      /\ AnswersKnown /\ FailureAttribution
      /\ run \in [Executions -> RunStep]
      /\ batch \in [Executions -> SUBSET BuildNodes]
      /\ todo \in [Executions -> SUBSET BuildNodes]
      /\ outcome \in [Executions -> [BuildNodes -> Outcome]]
  BY DEF WholeInv, HandInv, TypeOK, Shape, BlameInv
<1>1. CASE Ebbs
  <2>1. AnswersKnown'
    BY <1>0, <1>1 DEF AnswersKnown, Ebbs
  <2>2. FailureAttribution'
    BY <1>0, <1>1 DEF FailureAttribution, AnswersKnown, Ebbs
  <2>3. QED
    BY <2>1, <2>2 DEF BlameInv
<1>2. ASSUME NEW e \in Executions, NEW t \in BuildNodes, Moves(e, t)
      PROVE  BlameInv'
  <2>1. AnswersKnown'
    BY <1>0, <1>2, SMTT(30) DEF AnswersKnown, Moves
  <2>2. FailureAttribution'
    BY <1>0, <1>2, SMTT(30) DEF FailureAttribution, Moves
  <2>3. QED
    BY <2>1, <2>2 DEF BlameInv
<1>3. ASSUME NEW e \in Executions, Validate(e)
      PROVE  BlameInv'
  <2>1. /\ UNCHANGED <<node, origin>>
        /\ run[e] = "validating"
        /\ Schedule(e, {origin[e]})
        /\ {origin[e]} \in SUBSET BuildNodes
    BY <1>0, <1>3, OriginKnown DEF Validate, seamVars, HandInv, RunsHaveRows
  <2> DEFINE T == {origin[e]}
  <2>2. T \in SUBSET BuildNodes /\ Schedule(e, T)
    BY <2>1
  <2> HIDE DEF T
  <2>3. AnswersKnown'
    <3>1. SUFFICES ASSUME NEW c \in Executions
                   PROVE  AnswersKnown!(c)'
      BY DEF AnswersKnown
    <3>2. CASE c = e
      BY <1>0, <2>1, <2>2, <3>2, ScheduleEffect DEF AnswersKnown
    <3>3. CASE c # e
      BY <1>0, <2>2, <3>3, ScheduleEffect DEF AnswersKnown
    <3>4. QED
      BY <3>2, <3>3
  <2>4. FailureAttribution'
    <3>1. \A c \in Executions, t \in BuildNodes :
            outcome[c][t] = "failed" => outcome'[c][t] = "failed"
      <4>1. \A t \in BuildNodes : outcome[e][t] = "none"
        BY <1>0, <2>1 DEF AnswersKnown
      <4>2. \A c \in Executions, t \in BuildNodes :
                c # e => outcome'[c][t] = outcome[c][t]
        BY <1>0, <2>2, ScheduleEffect
      <4>3. QED
        BY <4>1, <4>2
    <3>2. QED
      BY <1>0, <2>1, <3>1 DEF FailureAttribution
  <2>5. QED
    BY <2>3, <2>4 DEF BlameInv
<1>4. ASSUME NEW e \in Executions, Settle(e)
      PROVE  BlameInv'
  <2>1. /\ UNCHANGED <<node, origin, batch, outcome>>
        /\ run[e] = "running"
        /\ \A t \in batch[e] : outcome[e][t] # "running"
        /\ \A c \in Executions : c # e => run'[c] = run[c] /\ todo'[c] = todo[c]
        /\ \/ /\ run'[e] = "compensating"
              /\ todo'[e] = {t \in batch[e] : outcome[e][t] = "failed"}
           \/ /\ run'[e] = "coordinating"
              /\ \A t \in batch[e] : outcome[e][t] # "failed"
    BY <1>0, <1>4 DEF Settle, Joined, Failures, MoveRun, seamVars, activityVars
  <2>2. \A t \in batch[e] : t \in BuildNodes /\ outcome[e][t] \in Outcome \ {"none"}
    BY <1>0, <2>1 DEF BatchScheduled
  <2>3. AnswersKnown'
    <3>1. SUFFICES ASSUME NEW c \in Executions
                   PROVE  AnswersKnown!(c)'
      BY DEF AnswersKnown
    <3>2. CASE c = e
      BY <1>0, <2>1, <2>2, <3>2 DEF AnswersKnown, Outcome
    <3>3. CASE c # e
      BY <1>0, <2>1, <3>3 DEF AnswersKnown
    <3>4. QED
      BY <3>2, <3>3
  <2>4. FailureAttribution'
    BY <1>0, <2>1 DEF FailureAttribution
  <2>5. QED
    BY <2>3, <2>4 DEF BlameInv
<1>5. ASSUME NEW e \in Executions, NEW s \in BuildNodes,
             Coordinate(e, s) \/ CoordinateFails(e, s)
      PROVE  BlameInv'
  <2>1. AnswersKnown'
    <3>1. SUFFICES ASSUME NEW c \in Executions
                   PROVE  AnswersKnown!(c)'
      BY DEF AnswersKnown
    <3>2. CASE c = e
      BY <1>0, <1>5, <3>2, TurnsOfRun DEF AnswersKnown
    <3>3. CASE c # e
      <4>1. /\ run'[c] = run[c]
            /\ batch'[c] = batch[c]
            /\ todo'[c] = todo[c]
            /\ \A t \in BuildNodes : outcome'[c][t] = outcome[c][t]
        BY <1>5, <3>3, TurnsOfRun, <1>0
      <4>2. QED
        BY <1>0, <4>1 DEF AnswersKnown
    <3>4. QED
      BY <3>2, <3>3
  <2>2. FailureAttribution'
    BY <1>0, <1>5, TurnsOfRun, SMTT(30) DEF AnswersKnown, FailureAttribution
  <2>3. QED
    BY <2>1, <2>2 DEF BlameInv
<1>6. ASSUME NEW r \in Requests, StartBuild(r) \/ RetryFresh(r) \/ RetryResume(r)
      PROVE  BlameInv'
  <2>1. PICK e \in Executions, t \in BuildNodes : Inserts(e, t)
    BY <1>0, <1>6, AdmissionEffect
  <2>2. UNCHANGED <<run, batch, todo, outcome>>
    BY <1>0, <1>6, AdmissionEffect
  <2>3. AnswersKnown'
    BY <1>0, <2>2 DEF AnswersKnown
  <2>4. FailureAttribution'
    BY <1>0, <2>1, <2>2 DEF FailureAttribution, Inserts, Absent
  <2>5. QED
    BY <2>3, <2>4 DEF BlameInv
<1>7. ASSUME NEW r \in Requests, TemporalStarts(r) \/ StartAnswerLost(r)
      PROVE  BlameInv'
  BY <1>0, <1>7, StartEffect DEF BlameInv, AnswersKnown, FailureAttribution
<1>8. QED
  BY <1>0, <1>1, <1>2, <1>3, <1>4, <1>5, <1>6, <1>7, EbbSteps DEF Turns

\* A node that did not trigger the run is marked FAILED only when its own
\* activity failed for good: whatever attempts, compensations, late answers
\* and requests do to it.
THEOREM FailuresAttributed == Spec => []FailureAttribution
<1>1. Init => WholeInv /\ BlameInv
  <2>1. Init => BlameInv
    BY DEF Init, SeamInit, NoRuns, Quiet, BlameInv, AnswersKnown,
           FailureAttribution, Absent, BuildNodes
  <2>2. QED
    BY <2>1, WholeInit
<1>2. BlameInv => FailureAttribution
  BY DEF BlameInv
<1>3. QED
  BY <1>1, <1>2, WholeNext, BlameNext, PTL DEF Spec

-----------------------------------------------------------------------------
(* The coordinator never waits *)

WaitInv == AnsweredRests /\ WorkInBatch /\ BatchIsLevel

LEMMA AnsweredNext ==
  WholeInv /\ BlameInv /\ AnsweredRests /\ [Next]_vars => AnsweredRests'
<1> SUFFICES ASSUME WholeInv, BlameInv, AnsweredRests, [Next]_vars
             PROVE  AnsweredRests'
  OBVIOUS
<1>0. HandInv /\ TypeOK /\ Unstarted
  BY DEF WholeInv, HandInv
<1> USE DEF AnsweredRests, AtWork, Absent
<1>1. CASE Ebbs
  BY <1>1 DEF Ebbs
<1>2. ASSUME NEW e \in Executions, NEW t \in BuildNodes, Moves(e, t)
      PROVE  AnsweredRests'
  BY <1>2 DEF Moves
<1>3. ASSUME NEW e \in Executions, Validate(e)
      PROVE  AnsweredRests'
  <2> DEFINE T == {origin[e]}
  <2>1. /\ UNCHANGED node
        /\ T \in SUBSET BuildNodes /\ Schedule(e, T)
    BY <1>0, <1>3, OriginKnown DEF Validate, seamVars, HandInv, RunsHaveRows
  <2> HIDE DEF T
  <2>2. \A c \in Executions, t \in BuildNodes :
            outcome'[c][t] = outcome[c][t] \/ outcome'[c][t] = "running"
    BY <1>0, <2>1, ScheduleEffect
  <2>3. QED
    BY <2>1, <2>2
<1>4. ASSUME NEW e \in Executions, Settle(e)
      PROVE  AnsweredRests'
  BY <1>4 DEF Settle, seamVars, activityVars
<1>5. ASSUME NEW e \in Executions, NEW s \in BuildNodes,
             Coordinate(e, s) \/ CoordinateFails(e, s)
      PROVE  AnsweredRests'
  <2>1. \A c \in Executions, t \in BuildNodes :
            /\ outcome'[c][t] = outcome[c][t] \/ outcome'[c][t] = "running"
            /\ node'[c][t] = node[c][t] \/ node[c][t] = Absent
    BY <1>0, <1>5, TurnsOfRun
  <2>2. QED
    BY <2>1
<1>6. ASSUME NEW r \in Requests, StartBuild(r) \/ RetryFresh(r) \/ RetryResume(r)
      PROVE  AnsweredRests'
  <2>1. PICK e \in Executions, t \in BuildNodes : Inserts(e, t)
    BY <1>0, <1>6, AdmissionEffect
  <2>2. UNCHANGED outcome
    BY <1>0, <1>6, AdmissionEffect
  <2>3. QED
    BY <2>1, <2>2 DEF Inserts
<1>7. ASSUME NEW r \in Requests, TemporalStarts(r) \/ StartAnswerLost(r)
      PROVE  AnsweredRests'
  BY <1>0, <1>7, StartEffect
<1>8. QED
  BY <1>0, <1>1, <1>2, <1>3, <1>4, <1>5, <1>6, <1>7, EbbSteps DEF Turns

LEMMA WorkNext ==
  WholeInv /\ BlameInv /\ WaitInv /\ [Next]_vars => WorkInBatch' /\ BatchIsLevel'
<1> SUFFICES ASSUME WholeInv, BlameInv, WaitInv, [Next]_vars
             PROVE  WorkInBatch' /\ BatchIsLevel'
  OBVIOUS
<1>0. /\ HandInv /\ TypeOK /\ Unstarted /\ BatchScheduled /\ OnlyOrigin
      /\ AnswersKnown /\ AnsweredRests /\ WorkInBatch /\ BatchIsLevel
      /\ run \in [Executions -> RunStep]
      /\ batch \in [Executions -> SUBSET BuildNodes]
      /\ todo \in [Executions -> SUBSET BuildNodes]
      /\ outcome \in [Executions -> [BuildNodes -> Outcome]]
      /\ NextNodes \in [BuildNodes -> SUBSET BuildNodes]
      /\ Order \in [BuildNodes -> Nat]
  BY BuildAssumption DEF WholeInv, HandInv, TypeOK, Shape, BlameInv, WaitInv
<1> USE DEF AtWork, Absent
<1>1. CASE Ebbs
  <2>1. \A c \in Executions, t \in BuildNodes :
            node'[c][t] \in AtWork => node[c][t] \in AtWork
    BY <1>1 DEF Ebbs
  <2>2. \A c \in Executions : /\ batch'[c] = batch[c]
                              /\ NextBatch(c)' = NextBatch(c)
                              /\ run'[c] \in {"running", "coordinating"} => run'[c] = run[c]
    BY <1>1 DEF Ebbs, NextBatch
  <2>3. QED
    BY <1>0, <2>1, <2>2 DEF WorkInBatch, BatchIsLevel
<1>2. ASSUME NEW e \in Executions, NEW t \in BuildNodes, Moves(e, t)
      PROVE  WorkInBatch' /\ BatchIsLevel'
  <2>1. \A c \in Executions, u \in BuildNodes :
            node'[c][u] \in AtWork => node[c][u] \in AtWork
    BY <1>2 DEF Moves
  <2>2. UNCHANGED <<run, batch>> /\ \A c \in Executions : NextBatch(c)' = NextBatch(c)
    BY <1>2 DEF Moves, NextBatch
  <2>3. QED
    BY <1>0, <2>1, <2>2 DEF WorkInBatch, BatchIsLevel
<1>3. ASSUME NEW e \in Executions, Validate(e)
      PROVE  WorkInBatch' /\ BatchIsLevel'
  <2> DEFINE T == {origin[e]}
  <2>1. /\ UNCHANGED node
        /\ run[e] = "validating"
        /\ T \in SUBSET BuildNodes /\ Schedule(e, T)
    BY <1>0, <1>3, OriginKnown DEF Validate, seamVars, HandInv, RunsHaveRows
  <2>2. \A t \in BuildNodes : node[e][t] \in AtWork => t \in T
    BY <1>0, <2>1 DEF OnlyOrigin
  <2>3. \A t, u \in T : t = u
    OBVIOUS
  <2> HIDE DEF T
  <2>4. /\ run'[e] = "running"
        /\ batch'[e] = T
        /\ \A c \in Executions : c # e => /\ run'[c] = run[c]
                                          /\ batch'[c] = batch[c]
                                          /\ NextBatch(c)' = NextBatch(c)
    BY <1>0, <2>1, ScheduleEffect DEF NextBatch
  <2>5. WorkInBatch'
    BY <1>0, <2>1, <2>2, <2>4 DEF WorkInBatch
  <2>6. \A c \in Executions : c # e => BatchIsLevel!(c)'
    BY <1>0, <2>4 DEF BatchIsLevel
  <2>7. BatchIsLevel!(e)'
    BY <2>3, <2>4
  <2>8. QED
    BY <2>5, <2>6, <2>7 DEF BatchIsLevel
<1>4. ASSUME NEW e \in Executions, Settle(e)
      PROVE  WorkInBatch' /\ BatchIsLevel'
  <2>1. /\ UNCHANGED <<node, batch, outcome>>
        /\ run[e] = "running"
        /\ \A t \in batch[e] : outcome[e][t] # "running"
        /\ \A c \in Executions : c # e => run'[c] = run[c]
        /\ \A c \in Executions : NextBatch(c)' = NextBatch(c)
        /\ \/ run'[e] = "compensating"
           \/ /\ run'[e] = "coordinating"
              /\ \A t \in batch[e] : outcome[e][t] # "failed"
    BY <1>0, <1>4 DEF Settle, Joined, Failures, MoveRun, seamVars, activityVars, NextBatch
  <2>2. run'[e] = "coordinating" => \A t \in BuildNodes : node[e][t] \notin AtWork
    <3>1. \A t \in batch[e] : outcome[e][t] \in Outcome \ {"none"}
      BY <1>0, <2>1 DEF BatchScheduled
    <3>2. run'[e] = "coordinating" =>
            \A t \in batch[e] : outcome[e][t] \in {"ok", "incomplete"}
      BY <2>1, <3>1 DEF Outcome
    <3>3. QED
      BY <1>0, <2>1, <3>2 DEF AnsweredRests, WorkInBatch
  <2>3. QED
    BY <1>0, <2>1, <2>2 DEF WorkInBatch, BatchIsLevel
<1>5. ASSUME NEW e \in Executions, NEW s \in BuildNodes,
             Coordinate(e, s) \/ CoordinateFails(e, s)
      PROVE  WorkInBatch' /\ BatchIsLevel'
  <2>1. /\ run[e] = "coordinating"
        /\ NextNodes[s] \subseteq NextBatch(e)
        /\ \A t, u \in NextBatch(e) : Order[t] = Order[u]
    <3>1. /\ run[e] = "coordinating"
          /\ s \in batch[e]
      BY <1>0, <1>5, TurnsOfRun DEF BatchScheduled
    <3>2. \A p, q \in batch[e] : \A t \in NextNodes[p], u \in NextNodes[q] :
                Order[t] = Order[u]
      BY <1>0, <3>1, LevelAssumption DEF BatchIsLevel
    <3>3. QED
      BY <3>1, <3>2 DEF NextBatch
  <2>2. \A t \in BuildNodes : node'[e][t] \in AtWork => t \in NextBatch(e)
    BY <1>0, <1>5, <2>1, TurnsOfRun DEF WorkInBatch
  <2>3. /\ run'[e] = "running" => batch'[e] = NextBatch(e)
        /\ run'[e] = "coordinating" => /\ batch'[e] = batch[e]
                                       /\ NextBatch(e)' = NextBatch(e)
    BY <1>0, <1>5, TurnsOfRun DEF NextBatch
  <2>4. \A c \in Executions : c # e => /\ run'[c] = run[c]
                                       /\ batch'[c] = batch[c]
                                       /\ NextBatch(c)' = NextBatch(c)
                                       /\ \A t \in BuildNodes : node'[c][t] = node[c][t]
    BY <1>0, <1>5, TurnsOfRun DEF NextBatch
  <2>5. WorkInBatch'
    BY <1>0, <2>2, <2>3, <2>4 DEF WorkInBatch
  <2>6. BatchIsLevel'
    BY <1>0, <2>1, <2>3, <2>4 DEF BatchIsLevel
  <2>7. QED
    BY <2>5, <2>6
<1>6. ASSUME NEW r \in Requests, StartBuild(r) \/ RetryFresh(r) \/ RetryResume(r)
      PROVE  WorkInBatch' /\ BatchIsLevel'
  <2>1. PICK e \in Executions, t \in BuildNodes : Inserts(e, t)
    BY <1>0, <1>6, AdmissionEffect
  <2>2. /\ UNCHANGED <<run, batch>>
        /\ \A c \in Executions : NextBatch(c)' = NextBatch(c)
    BY <1>0, <1>6, AdmissionEffect DEF NextBatch
  <2>3. run[e] = "absent"
    BY <1>0, <2>1 DEF Inserts, IsNext, HandInv, RunsHaveRows
  <2>4. QED
    BY <1>0, <2>1, <2>2, <2>3 DEF Inserts, WorkInBatch, BatchIsLevel
<1>7. ASSUME NEW r \in Requests, TemporalStarts(r) \/ StartAnswerLost(r)
      PROVE  WorkInBatch' /\ BatchIsLevel'
  <2>1. /\ UNCHANGED <<node, batch>>
        /\ \A c \in Executions :
                /\ NextBatch(c)' = NextBatch(c)
                /\ run'[c] \in {"running", "coordinating"} => run'[c] = run[c]
    BY <1>0, <1>7, StartEffect DEF NextBatch
  <2>2. QED
    BY <1>0, <2>1 DEF WorkInBatch, BatchIsLevel
<1>8. QED
  BY <1>0, <1>1, <1>2, <1>3, <1>4, <1>5, <1>6, <1>7, EbbSteps DEF Turns

\* The coordinator's "wait" never comes, in any graph of levels whose tool
\* nodes are the last: the nodes of a joined batch are not at work, whatever
\* attempts outlived their lease, and beside a tool node no node of the batch
\* leads anywhere.
THEOREM WaitNeverComes == Spec => []WaitUnreachable
<1>1. Init => WholeInv /\ BlameInv /\ WaitInv
  <2>1. Init => BlameInv /\ WaitInv
    BY DEF Init, SeamInit, NoRuns, Quiet, BlameInv, AnswersKnown, WaitInv,
           AnsweredRests, WorkInBatch, BatchIsLevel, AtWork,
           FailureAttribution, Absent, BuildNodes
  <2>2. QED
    BY <2>1, WholeInit
<1>2. WholeInv /\ BlameInv /\ WaitInv /\ [Next]_vars => WaitInv'
  BY AnsweredNext, WorkNext DEF WaitInv
<1>3. WholeInv /\ WaitInv => WaitUnreachable
  <2> SUFFICES ASSUME WholeInv, WaitInv, NEW c \in Executions, run[c] = "coordinating",
                      NEW t \in todo[c], t \in ToolNodes, NEW u \in BuildNodes
               PROVE  node[c][u] \notin {"CREATED", "RUNNING"}
    BY DEF WaitUnreachable, MustWait
  <2>1. /\ t \in batch[c]
        /\ batch[c] \subseteq BuildNodes
        /\ \A p \in batch[c] : Order[p] = Order[t]
    BY DEF WholeInv, Shape, BatchScheduled, HandInv, TypeOK, WaitInv, BatchIsLevel
  <2>2. \A p \in batch[c] : NextNodes[p] = {}
    <3> SUFFICES ASSUME NEW p \in batch[c], NEW q \in NextNodes[p]
                 PROVE  FALSE
      OBVIOUS
    <3>1. q \in BuildNodes /\ Order[p] \in Nat /\ Order[q] = Order[p] + 1
      BY <2>1, BuildAssumption, LevelAssumption
    <3>2. Order[q] <= Order[t] /\ Order[p] = Order[t]
      BY <2>1, <3>1, LevelAssumption
    <3>3. QED
      BY <3>1, <3>2
  <2>3. NextBatch(c) = {}
    BY <2>2 DEF NextBatch
  <2>4. QED
    BY <2>3 DEF WaitInv, WorkInBatch, AtWork
<1>4. QED
  BY <1>1, <1>2, <1>3, WholeNext, BlameNext, PTL DEF Spec

-----------------------------------------------------------------------------
(* Announcements *)

\* Runs are reported once.
ReportedOnce ==
    \A c \in Executions : events[c]["completed"] + events[c]["incomplete"] <= 1

\* Nodes are announced once, and when there is no fault each of them is.
NodesAnnounced ==
    \A c \in Executions, t \in BuildNodes :
        /\ created[c][t] <= 1
        /\ created[c][t] = 1 => node[c][t] # Absent
        /\ faults = 0 /\ node[c][t] # Absent => created[c][t] = 1

\* A step that reports no success.
NoReport ==
    \A c \in Executions :
        /\ events'[c]["completed"] = events[c]["completed"]
        /\ events'[c]["incomplete"] = events[c]["incomplete"]
        /\ execution'[c] = "PARTIAL" => execution[c] = "PARTIAL"
        /\ anyIncomplete[c] => anyIncomplete'[c]

LEMMA ReportSteps ==
  HandInv /\ [Next]_vars =>
    NoReport \/ \E e \in Executions : Finalize(e) \/ FinalizeFails(e)
<1> SUFFICES ASSUME HandInv, [Next]_vars
             PROVE  NoReport \/ \E e \in Executions : Finalize(e) \/ FinalizeFails(e)
  OBVIOUS
<1>0. /\ execution \in [Executions -> ExecutionStatus \union {Absent}]
      /\ events \in [Executions -> [TerminalEvent -> EventCount]]
      /\ anyIncomplete \in [Executions -> BOOLEAN]
      /\ {"completed", "incomplete", "cancelled", "failed"} \subseteq TerminalEvent
      /\ SeamTypeOK
      /\ RequestsHaveRows
  BY DEF HandInv, TypeOK, SeamTypeOK, TerminalEvent
<1>1. ASSUME UNCHANGED seamVars, UNCHANGED anyIncomplete
      PROVE  NoReport
  BY <1>1 DEF NoReport, seamVars
<1>2. ASSUME NEW e \in Executions, NEW t, FailExecution(e, t), UNCHANGED anyIncomplete
      PROVE  NoReport
  <2>1. /\ execution' = [execution EXCEPT ![e] = "FAILED"]
        /\ Emit(e, "failed") \/ UNCHANGED events
    BY <1>2 DEF FailExecution
  <2>2. QED
    BY <1>0, <1>2, <2>1, EmitEffect DEF NoReport
<1>3. ASSUME NEW e \in Executions, CancelExecution(e), UNCHANGED anyIncomplete
      PROVE  NoReport
  <2>1. /\ \A c \in Executions :
            execution'[c] = execution[c] \/ execution'[c] = "CANCELLED"
        /\ Emit(e, "cancelled") \/ UNCHANGED events
    BY <1>0, <1>3 DEF CancelExecution, Active
  <2>2. QED
    BY <1>0, <1>3, <2>1, EmitEffect DEF NoReport
<1>4. ASSUME NEW e \in Executions, Validate(e) \/ ValidateFails(e) \/ Report(e)
                                   \/ RunCancelled(e) \/ RescueFails(e)
                                   \/ ReportFails(e) \/ RunTimedOut(e)
      PROVE  NoReport
  BY <1>1, <1>4 DEF Validate, ValidateFails, Report, RunCancelled, RescueFails,
                    ReportFails, RunTimedOut
<1>5. ASSUME NEW e \in Executions, Settle(e)
      PROVE  NoReport
  <2>1. UNCHANGED seamVars /\ \A c \in Executions : anyIncomplete[c] => anyIncomplete'[c]
    BY <1>0, <1>5 DEF Settle
  <2>2. QED
    BY <2>1 DEF NoReport, seamVars
<1>6. ASSUME NEW e \in Executions, Rescue(e)
      PROVE  NoReport
  BY <1>2, <1>6 DEF Rescue, FailTrigger
<1>7. ASSUME NEW e \in Executions, NEW t \in BuildNodes, Coordinate(e, t) \/ CoordinateFails(e, t)
      PROVE  NoReport
  BY <1>7 DEF Coordinate, CoordinateFails, CreateNodes, NoReport
<1>8. ASSUME NEW e \in Executions, NEW t \in BuildNodes, Compensate(e, t) \/ CompensateFails(e, t)
      PROVE  NoReport
  BY <1>1, <1>2, <1>8 DEF Compensate, CompensateFails
<1>9. ASSUME NEW e \in Executions, NEW t \in BuildNodes, NEW a \in Attempts,
             AttemptStepOf(e, t, a) \/ LeaseLost(e, t, a)
      PROVE  NoReport
  <2>1. /\ UNCHANGED <<events, anyIncomplete>>
        /\ execution' = execution
           \/ execution' = [execution EXCEPT ![e] = IF @ = "CREATED" THEN "RUNNING" ELSE @]
    BY <1>9 DEF AttemptStepOf, AttemptBegin, AttemptWrite, AttemptComplete,
                AttemptStop, AttemptFail, LeaseLost, BeginNode, MarkExecutionRunning,
                CompleteNode, StopNode, seamVars, runVars
  <2>2. QED
    BY <1>0, <2>1 DEF NoReport
<1>10. ASSUME NEW r \in Requests,
              \/ DiscoveryTurn(r) \/ DiscoveryContinues(r) \/ RetryBuild(r)
              \/ RetryRejected(r) \/ TemporalRefuses(r) \/ CancelBuild(r)
              \/ CancelTemporal(r) \/ Crash(r) \/ TemporalStarts(r) \/ StartAnswerLost(r)
       PROVE  NoReport
  BY <1>1, <1>10
  DEF DiscoveryTurn, DiscoveryContinues, RetryBuild, RetryRejected, TemporalRefuses,
      CancelBuild, CancelTemporal, Crash, TemporalStarts, StartAnswerLost, runVars
<1>11. ASSUME NEW r \in Requests, DiscoveryCompletes(r)
       PROVE  NoReport
  BY <1>11 DEF DiscoveryCompletes, CompleteDiscovery, NoReport, runVars
<1>12. ASSUME NEW r \in Requests, StartBuild(r) \/ RetryFresh(r) \/ RetryResume(r)
       PROVE  NoReport
  <2>1. /\ UNCHANGED <<events, anyIncomplete>>
        /\ \E e \in Executions : execution' = [execution EXCEPT ![e] = "CREATED"]
    BY <1>12 DEF StartBuild, RetryFresh, RetryResume, Admit, StartHcrRun,
                 ResumeHcrRun, CreateExecution, runVars
  <2>2. QED
    BY <1>0, <2>1 DEF NoReport
<1>13. ASSUME NEW r \in Requests, StartFails(r)
       PROVE  NoReport
  BY <1>0, <1>2, <1>13 DEF StartFails, FailTrigger, RequestsHaveRows, runVars
<1>14. ASSUME NEW r \in Requests, CancelRows(r)
       PROVE  NoReport
  BY <1>0, <1>3, <1>14 DEF CancelRows, RequestsHaveRows, runVars
<1>15. CASE UNCHANGED vars
  BY <1>1, <1>15 DEF vars, runVars
<1>16. QED
  BY <1>4, <1>5, <1>6, <1>7, <1>8, <1>9, <1>10, <1>11, <1>12, <1>13, <1>14, <1>15
  DEF Next, RunStepOf, RunFault, Arrival, RequestStepOf

ReportInv == EventsFollowRows /\ PartialIsIncomplete /\ ReportedOnce

LEMMA ReportNext == HandInv /\ ReportInv /\ [Next]_vars => ReportInv'
<1> SUFFICES ASSUME HandInv, ReportInv, [Next]_vars
             PROVE  ReportInv'
  OBVIOUS
<1>0. /\ execution \in [Executions -> ExecutionStatus \union {Absent}]
      /\ events \in [Executions -> [TerminalEvent -> EventCount]]
      /\ {"completed", "incomplete"} \subseteq TerminalEvent
      /\ SeamTypeOK
      /\ EventsFollowRows /\ PartialIsIncomplete /\ ReportedOnce
  BY DEF HandInv, TypeOK, SeamTypeOK, TerminalEvent, ReportInv
<1>1. EventsFollowRows'
  BY <1>0, StepRefines, EventsNext
<1>2. CASE NoReport
  BY <1>0, <1>1, <1>2 DEF ReportInv, NoReport, PartialIsIncomplete, ReportedOnce
<1>3. ASSUME NEW e \in Executions, Finalize(e) \/ FinalizeFails(e)
      PROVE  ReportInv'
  <2>1. UNCHANGED anyIncomplete /\ (FinalizeRows(e) \/ UNCHANGED seamVars)
    BY <1>3 DEF Finalize, FinalizeFails
  <2>2. CASE UNCHANGED seamVars
    BY <1>0, <1>1, <2>1, <2>2 DEF ReportInv, PartialIsIncomplete, ReportedOnce, seamVars
  <2>3. CASE /\ ~anyIncomplete[e]
             /\ execution[e] \notin {"COMPLETED", "FAILED", "CANCELLED"}
             /\ Finish(e, "COMPLETED", "IDLE", "completed")
    <3>1. execution[e] # "PARTIAL"
      BY <1>0, <2>3 DEF PartialIsIncomplete
    <3>2. events[e]["completed"] = 0 /\ events[e]["incomplete"] = 0
      <4>1. events[e]["completed"] \in 0 .. 2 /\ events[e]["incomplete"] \in 0 .. 2
        BY <1>0 DEF EventCount
      <4>2. QED
        BY <1>0, <2>3, <3>1, <4>1 DEF EventsFollowRows
    <3>3. /\ execution' = [execution EXCEPT ![e] = "COMPLETED"]
          /\ Emit(e, "completed")
      BY <2>3 DEF Finish
    <3>4. PartialIsIncomplete'
      BY <1>0, <2>1, <3>3 DEF PartialIsIncomplete
    <3>5. ReportedOnce'
      BY <1>0, <3>2, <3>3, EmitEffect DEF ReportedOnce
    <3>6. QED
      BY <1>1, <3>4, <3>5 DEF ReportInv
  <2>4. CASE /\ anyIncomplete[e]
             /\ execution[e] \notin {"COMPLETED", "FAILED", "CANCELLED", "PARTIAL"}
             /\ Finish(e, "PARTIAL", "INCOMPLETE", "incomplete")
    <3>1. events[e]["completed"] = 0 /\ events[e]["incomplete"] = 0
      <4>1. events[e]["completed"] \in 0 .. 2 /\ events[e]["incomplete"] \in 0 .. 2
        BY <1>0 DEF EventCount
      <4>2. QED
        BY <1>0, <2>4, <4>1 DEF EventsFollowRows
    <3>2. /\ execution' = [execution EXCEPT ![e] = "PARTIAL"]
          /\ Emit(e, "incomplete")
      BY <2>4 DEF Finish
    <3>3. PartialIsIncomplete'
      BY <1>0, <2>1, <2>4, <3>2 DEF PartialIsIncomplete
    <3>4. ReportedOnce'
      BY <1>0, <3>1, <3>2, EmitEffect DEF ReportedOnce
    <3>5. QED
      BY <1>1, <3>3, <3>4 DEF ReportInv
  <2>5. QED
    BY <2>1, <2>2, <2>3, <2>4
    DEF FinalizeRows, CompleteExecution, CompleteExecutionPartially, IsOver
<1>4. QED
  BY <1>2, <1>3, ReportSteps

\* What an announcement does to the counters.
LEMMA AnnounceEffect ==
  ASSUME TypeOK, NodesAnnounced, NEW e \in Executions, NEW T \in SUBSET BuildNodes,
         EmitCreated(e, T), \A t \in T : node[e][t] = Absent
  PROVE  \A c \in Executions, t \in BuildNodes :
            created'[c][t] = IF c = e /\ t \in T THEN 1 ELSE created[c][t]
<1>1. created \in [Executions -> [BuildNodes -> EventCount]]
  BY DEF TypeOK
<1>2. \A t \in T : created[e][t] = 0
  BY <1>1 DEF NodesAnnounced, EventCount
<1>3. QED
  BY <1>1, <1>2 DEF EmitCreated

LEMMA AnnouncedNext == WholeInv /\ NodesAnnounced /\ [Next]_vars => NodesAnnounced'
<1> SUFFICES ASSUME WholeInv, NodesAnnounced, [Next]_vars
             PROVE  NodesAnnounced'
  OBVIOUS
<1>0. /\ HandInv /\ TypeOK /\ Unstarted
      /\ faults \in Nat
      /\ NextNodes \in [BuildNodes -> SUBSET BuildNodes]
  BY BuildAssumption DEF WholeInv, HandInv, TypeOK
<1>1. CASE Ebbs
  BY <1>0, <1>1 DEF Ebbs, NodesAnnounced, AtWork, Absent
<1>2. ASSUME NEW e \in Executions, NEW t \in BuildNodes, Moves(e, t)
      PROVE  NodesAnnounced'
  BY <1>0, <1>2 DEF Moves, NodesAnnounced, Absent
<1>3. ASSUME NEW e \in Executions, Validate(e) \/ Settle(e)
      PROVE  NodesAnnounced'
  BY <1>3 DEF Validate, Settle, NoFault, seamVars, NodesAnnounced
<1>4. ASSUME NEW e \in Executions, NEW s \in BuildNodes, Coordinate(e, s)
      PROVE  NodesAnnounced'
  <2>1. /\ EmitCreated(e, Missing(e, s))
        /\ CreateNodes(e, NextNodes[s])
        /\ faults' = faults
    BY <1>4 DEF Coordinate, NoFault
  <2>2. Missing(e, s) \in SUBSET BuildNodes /\ \A t \in Missing(e, s) : node[e][t] = Absent
    BY <1>0 DEF Missing
  <2>3. \A c \in Executions, t \in BuildNodes :
            created'[c][t] = IF c = e /\ t \in Missing(e, s) THEN 1 ELSE created[c][t]
    BY <1>0, <2>1, <2>2, AnnounceEffect
  <2>4. \A c \in Executions, t \in BuildNodes :
            /\ node[c][t] # Absent => node'[c][t] # Absent
            /\ c = e /\ t \in Missing(e, s) => node'[c][t] # Absent
            /\ node'[c][t] # Absent => node[c][t] # Absent \/ (c = e /\ t \in Missing(e, s))
    BY <1>0, <2>1 DEF CreateNodes, Missing, TypeOK, SeamTypeOK, BuildNodes, Absent
  <2>5. QED
    BY <1>0, <2>1, <2>3, <2>4 DEF NodesAnnounced
<1>5. ASSUME NEW e \in Executions, NEW s \in BuildNodes, CoordinateFails(e, s)
      PROVE  NodesAnnounced'
  <2>1. PICK T \in SUBSET Missing(e, s) : \E E \in SUBSET T :
            CreateNodes(e, T) /\ EmitCreated(e, E)
    BY <1>5 DEF CoordinateFails
  <2> PICK E \in SUBSET T : CreateNodes(e, T) /\ EmitCreated(e, E)
    BY <2>1
  <2>2. E \in SUBSET BuildNodes /\ \A t \in E : node[e][t] = Absent
    BY <1>0, <2>1 DEF Missing
  <2>3. \A c \in Executions, t \in BuildNodes :
            created'[c][t] = IF c = e /\ t \in E THEN 1 ELSE created[c][t]
    BY <1>0, <2>1, <2>2, AnnounceEffect
  <2>4. \A c \in Executions, t \in BuildNodes :
            /\ node[c][t] # Absent => node'[c][t] # Absent
            /\ c = e /\ t \in E => node'[c][t] # Absent
    BY <1>0, <2>1 DEF CreateNodes, TypeOK, SeamTypeOK, BuildNodes, Absent
  <2>5. faults' # 0
    BY <1>0, <1>5 DEF CoordinateFails, Fault
  <2>6. QED
    BY <2>3, <2>4, <2>5 DEF NodesAnnounced
<1>6. ASSUME NEW r \in Requests, StartBuild(r) \/ RetryFresh(r) \/ RetryResume(r)
      PROVE  NodesAnnounced'
  <2>1. PICK e \in Executions, t \in BuildNodes : Inserts(e, t)
    BY <1>0, <1>6, AdmissionEffect
  <2>2. faults' = faults
    BY <1>6 DEF StartBuild, RetryFresh, RetryResume, Admit, NoFault
  <2>3. EmitCreated(e, {t}) /\ {t} \in SUBSET BuildNodes /\ \A u \in {t} : node[e][u] = Absent
    BY <2>1 DEF Inserts
  <2>4. \A c \in Executions, u \in BuildNodes :
            created'[c][u] = IF c = e /\ u \in {t} THEN 1 ELSE created[c][u]
    BY <1>0, <2>3, AnnounceEffect
  <2>5. QED
    BY <2>1, <2>2, <2>4 DEF Inserts, NodesAnnounced, Absent
<1>7. ASSUME NEW r \in Requests, TemporalStarts(r) \/ StartAnswerLost(r)
      PROVE  NodesAnnounced'
  <2>1. faults' = faults \/ faults' = faults + 1
    BY <1>7 DEF TemporalStarts, StartAnswerLost, NoFault, Fault
  <2>2. QED
    BY <1>0, <1>7, <2>1, StartEffect DEF NodesAnnounced
<1>8. QED
  BY <1>0, <1>1, <1>2, <1>3, <1>4, <1>5, <1>6, <1>7, EbbSteps DEF Turns

\* However often finalization and coordination are repeated after they
\* committed, a run is reported once and a node announced once, and a node
\* goes unannounced only after a fault.
THEOREM NothingAnnouncedTwice == Spec => []AnnouncedOnce
<1>1. Init => WholeInv /\ ReportInv /\ NodesAnnounced
  <2>1. Init => ReportInv /\ NodesAnnounced
    BY DEF Init, SeamInit, NoRuns, Quiet, ReportInv, EventsFollowRows, TerminalEvent,
           PartialIsIncomplete, ReportedOnce, NodesAnnounced, Absent, BuildNodes
  <2>2. QED
    BY <2>1, WholeInit
<1>2. WholeInv /\ ReportInv /\ [Next]_vars => ReportInv'
  BY ReportNext DEF WholeInv
<1>3. ReportInv /\ NodesAnnounced => AnnouncedOnce
  BY DEF ReportInv, ReportedOnce, NodesAnnounced, AnnouncedOnce
<1>4. QED
  BY <1>1, <1>2, <1>3, WholeNext, AnnouncedNext, PTL DEF Spec

-----------------------------------------------------------------------------
(* What a resumed build starts from *)

InputInv == AnswersProduced /\ RowsInOrder /\ NodesHaveInput

LEMMA ProducedNext ==
  WholeInv /\ BlameInv /\ AnswersProduced /\ [Next]_vars => AnswersProduced'
<1> SUFFICES ASSUME WholeInv, BlameInv, AnswersProduced, [Next]_vars
             PROVE  AnswersProduced'
  OBVIOUS
<1>0. HandInv /\ TypeOK /\ Unstarted
  BY DEF WholeInv, HandInv
<1>1. CASE Ebbs
  BY <1>1 DEF Ebbs, AnswersProduced
<1>2. ASSUME NEW e \in Executions, NEW t \in BuildNodes, Moves(e, t)
      PROVE  AnswersProduced'
  <2>1. SUFFICES ASSUME NEW c \in Executions, NEW u \in BuildNodes
                 PROVE  AnswersProduced!(c, u)'
    BY DEF AnswersProduced
  <2>2. CASE c = e /\ u = t
    BY <1>2, <2>2 DEF Moves, AnswersProduced
  <2>3. CASE c # e \/ u # t
    BY <1>2, <2>3 DEF Moves, AnswersProduced
  <2>4. QED
    BY <2>2, <2>3
<1>3. ASSUME NEW e \in Executions, Validate(e)
      PROVE  AnswersProduced'
  <2> DEFINE T == {origin[e]}
  <2>1. /\ UNCHANGED artifact
        /\ T \in SUBSET BuildNodes /\ Schedule(e, T)
    BY <1>0, <1>3, OriginKnown DEF Validate, HandInv, RunsHaveRows
  <2> HIDE DEF T
  <2>2. \A c \in Executions, t \in BuildNodes :
            /\ outcome'[c][t] = outcome[c][t] \/ outcome'[c][t] = "running"
            /\ \A a \in Attempts : attempt'[c][t][a] = "wrote" => attempt[c][t][a] = "wrote"
    BY <1>0, <2>1, ScheduleEffect
  <2>3. QED
    BY <2>1, <2>2 DEF AnswersProduced
<1>4. ASSUME NEW e \in Executions, Settle(e)
      PROVE  AnswersProduced'
  BY <1>4 DEF Settle, activityVars, AnswersProduced
<1>5. ASSUME NEW e \in Executions, NEW s \in BuildNodes,
             Coordinate(e, s) \/ CoordinateFails(e, s)
      PROVE  AnswersProduced'
  <2>1. /\ UNCHANGED artifact
        /\ \A c \in Executions, t \in BuildNodes :
            /\ outcome'[c][t] = outcome[c][t] \/ outcome'[c][t] = "running"
            /\ \A a \in Attempts : attempt'[c][t][a] = "wrote" => attempt[c][t][a] = "wrote"
    BY <1>0, <1>5, TurnsOfRun
  <2>2. QED
    BY <2>1 DEF AnswersProduced
<1>6. ASSUME NEW r \in Requests, StartBuild(r) \/ RetryFresh(r) \/ RetryResume(r)
      PROVE  AnswersProduced'
  BY <1>0, <1>6, AdmissionEffect DEF AnswersProduced
<1>7. ASSUME NEW r \in Requests, TemporalStarts(r) \/ StartAnswerLost(r)
      PROVE  AnswersProduced'
  BY <1>0, <1>7, StartEffect DEF AnswersProduced
<1>8. QED
  BY <1>0, <1>1, <1>2, <1>3, <1>4, <1>5, <1>6, <1>7, EbbSteps DEF Turns

LEMMA InputNext ==
  WholeInv /\ BlameInv /\ InputInv /\ [Next]_vars => RowsInOrder' /\ NodesHaveInput'
<1> SUFFICES ASSUME WholeInv, BlameInv, InputInv, [Next]_vars
             PROVE  RowsInOrder' /\ NodesHaveInput'
  OBVIOUS
<1>0. /\ HandInv /\ TypeOK /\ Unstarted /\ BatchScheduled /\ AnswersKnown
      /\ AnswersProduced /\ RowsInOrder /\ NodesHaveInput
      /\ \A c \in Executions, t \in BuildNodes : node[c][t] # Absent => Exists(c)
      /\ \A c \in Executions : Exists(c) => node[c][origin[c]] # Absent
      /\ \A c \in Executions : run[c] # "absent" => Exists(c)
      /\ todo \in [Executions -> SUBSET BuildNodes]
      /\ NextNodes \in [BuildNodes -> SUBSET BuildNodes]
      /\ \A t \in ToolNodes : NextNodes[t] = {}
  BY BuildAssumption DEF WholeInv, HandInv, RowsAreLinked, RunsHaveRows, TypeOK, Shape, BlameInv,
                         InputInv, BuildNodes
\* Steps that insert no node.
<1>1. ASSUME UNCHANGED <<build, origin>>, artifact \subseteq artifact',
             \A c \in Executions : Exists(c)' = Exists(c),
             \A c \in Executions, t \in BuildNodes :
                node'[c][t] # Absent => node[c][t] # Absent
      PROVE  RowsInOrder' /\ NodesHaveInput'
  <2>1. RowsInOrder'
    BY <1>0, <1>1 DEF RowsInOrder
  <2>2. NodesHaveInput'
    <3>1. SUFFICES ASSUME NEW c \in Executions, NEW t \in BuildNodes,
                          node'[c][t] # Absent, t # FirstNode
                   PROVE  NodesHaveInput!(c, t)!2'
      BY DEF NodesHaveInput
    <3>2. PICK d \in Executions, u \in BuildNodes :
                /\ d <= c
                /\ t = origin[c] => d < c
                /\ build[d] = build[c]
                /\ t \in NextNodes[u]
                /\ <<d, u>> \in artifact
      BY <1>0, <1>1, <3>1, ZenonT(40) DEF NodesHaveInput
    <3>3. QED
      BY <1>1, <3>2
  <2>3. QED
    BY <2>1, <2>2
<1>2. CASE Ebbs
  BY <1>1, <1>2 DEF Ebbs, AtWork, Absent
<1>3. ASSUME NEW e \in Executions, NEW t \in BuildNodes, Moves(e, t)
      PROVE  RowsInOrder' /\ NodesHaveInput'
  BY <1>1, <1>3 DEF Moves, Absent
<1>4. ASSUME NEW e \in Executions, Validate(e) \/ Settle(e)
      PROVE  RowsInOrder' /\ NodesHaveInput'
  BY <1>1, <1>4 DEF Validate, Settle, seamVars, activityVars, Exists
<1>5. ASSUME NEW e \in Executions, NEW s \in BuildNodes,
             Coordinate(e, s) \/ CoordinateFails(e, s)
      PROVE  RowsInOrder' /\ NodesHaveInput'
  <2>1. /\ UNCHANGED <<artifact, build, origin, execution>>
        /\ run[e] = "coordinating"
        /\ s \in todo[e]
        /\ \A c \in Executions, t \in BuildNodes :
            \/ node'[c][t] = node[c][t]
            \/ c = e /\ t \in NextNodes[s] /\ node[e][t] = Absent
    BY <1>0, <1>5, TurnsOfRun
  <2>2. NextNodes[s] # {} => <<e, s>> \in artifact
    <3>1. outcome[e][s] \in {"ok", "incomplete"}
      BY <1>0, <2>1 DEF BatchScheduled, AnswersKnown
    <3>2. QED
      BY <1>0, <3>1 DEF AnswersProduced
  <2>3. RowsInOrder'
    BY <1>0, <2>1 DEF RowsInOrder, Exists
  <2>4. NodesHaveInput'
    <3>1. SUFFICES ASSUME NEW c \in Executions, NEW t \in BuildNodes,
                          node'[c][t] # Absent, t # FirstNode
                   PROVE  \E d \in Executions, u \in BuildNodes :
                            /\ d <= c
                            /\ t = origin[c] => d < c
                            /\ build[d] = build[c]
                            /\ t \in NextNodes[u]
                            /\ <<d, u>> \in artifact
      BY <2>1 DEF NodesHaveInput
    <3>2. CASE node'[c][t] = node[c][t]
      BY <1>0, <3>1, <3>2 DEF NodesHaveInput
    <3>3. CASE c = e /\ t \in NextNodes[s] /\ node[e][t] = Absent
      <4>1. c <= c /\ <<c, s>> \in artifact /\ t # origin[c]
        BY <1>0, <2>1, <2>2, <3>3 DEF Executions
      <4>2. QED
        BY <3>3, <4>1
    <3>4. QED
      BY <2>1, <3>2, <3>3
  <2>5. QED
    BY <2>3, <2>4
<1>6. ASSUME NEW r \in Requests, StartBuild(r) \/ RetryFresh(r) \/ RetryResume(r)
      PROVE  RowsInOrder' /\ NodesHaveInput'
  <2>1. PICK e \in Executions, s \in BuildNodes : Inserts(e, s)
    BY <1>0, <1>6, AdmissionEffect
  <2>2. UNCHANGED artifact
    BY <1>0, <1>6, AdmissionEffect
  <2>3. /\ ~Exists(e) /\ \A d \in Executions : d < e => Exists(d)
        /\ Exists(e)'
        /\ \A c \in Executions : c # e => /\ Exists(c)' = Exists(c)
                                          /\ build'[c] = build[c]
                                          /\ origin'[c] = origin[c]
        /\ \A c \in Executions, t \in BuildNodes :
                \/ c # e /\ node'[c][t] = node[c][t]
                \/ c = e /\ t = s
                \/ c = e /\ node'[c][t] = Absent
    BY <2>1 DEF Inserts, IsNext
  <2>4. RowsInOrder'
    BY <1>0, <2>3 DEF RowsInOrder
  <2>5. \A d \in Executions : Exists(d) => d < e
    BY <1>0, <2>3 DEF RowsInOrder, Executions
  <2>6. NodesHaveInput'
    <3>1. SUFFICES ASSUME NEW c \in Executions, NEW t \in BuildNodes,
                          node'[c][t] # Absent, t # FirstNode
                   PROVE  \E d \in Executions, u \in BuildNodes :
                            /\ d <= c
                            /\ t = origin'[c] => d < c
                            /\ build'[d] = build'[c]
                            /\ t \in NextNodes[u]
                            /\ <<d, u>> \in artifact
      BY <2>2 DEF NodesHaveInput
    <3>2. CASE c # e
      <4>1. node[c][t] # Absent /\ Exists(c) /\ c < e
        BY <1>0, <2>3, <2>5, <3>1, <3>2
      <4>2. PICK d \in Executions, u \in BuildNodes :
                /\ d <= c
                /\ t = origin[c] => d < c
                /\ build[d] = build[c]
                /\ t \in NextNodes[u]
                /\ <<d, u>> \in artifact
        BY <1>0, <3>1, <4>1 DEF NodesHaveInput
      <4>3. d # e
        BY <4>1, <4>2 DEF Executions
      <4>4. QED
        BY <2>3, <3>2, <4>2, <4>3
    <3>3. CASE c = e
      <4>1. t = s
        BY <2>3, <3>1, <3>3
      <4>2. PICK b \in Executions :
                Exists(b) /\ node[b][t] # Absent /\ build'[e] = build[b]
        BY <2>1, <3>1, <4>1 DEF Inserts
      <4>3. PICK d \in Executions, u \in BuildNodes :
                /\ d <= b
                /\ build[d] = build[b]
                /\ t \in NextNodes[u]
                /\ <<d, u>> \in artifact
        BY <1>0, <3>1, <4>2 DEF NodesHaveInput
      <4>4. b < e /\ d # e /\ d < c /\ d <= c
        BY <2>5, <3>3, <4>2, <4>3 DEF Executions
      <4>5. QED
        BY <2>3, <3>3, <4>2, <4>3, <4>4
    <3>4. QED
      BY <3>2, <3>3
  <2>7. QED
    BY <2>4, <2>6
<1>7. ASSUME NEW r \in Requests, TemporalStarts(r) \/ StartAnswerLost(r)
      PROVE  RowsInOrder' /\ NodesHaveInput'
  BY <1>0, <1>1, <1>7, StartEffect DEF Exists
<1>8. QED
  BY <1>0, <1>2, <1>3, <1>4, <1>5, <1>6, <1>7, EbbSteps DEF Turns

\* A project whose discovery is over starts like one that was just made.
LEMMA ReadyIsWhole == ReadyInit => WholeInv
<1> SUFFICES ASSUME ReadyInit
             PROVE  WholeInv
  OBVIOUS
<1>1. BuildTypeOK
  BY BuildAssumption
  DEF ReadyInit, Quiet, BuildTypeOK, RunStep, RequestStep, AttemptStep, Outcome,
      EventCount, IdleRequest
<1>2. SeamTypeOK
  BY DEF ReadyInit, NoRuns, SeamTypeOK, ProjectStatus, EventCount
<1>3. RowsAreLinked
  BY DEF ReadyInit, NoRuns, RowsAreLinked, Exists
<1>4. OriginsBuild /\ RunsHaveRows /\ RequestsHaveRows
  BY DEF ReadyInit, NoRuns, Quiet, OriginsBuild, RunsHaveRows, RequestsHaveRows,
         IdleRequest
<1>5. Unstarted /\ Shape
  BY DEF ReadyInit, NoRuns, Quiet, IdleRequest, Unstarted, Shape, NotYetEnded,
         OnlyOrigin, OkIsCompleted, BatchScheduled, WholeSoFar, Nodes,
         CompletedRunIsWhole, BuildNodes, Absent
<1>6. QED
  BY <1>1, <1>2, <1>3, <1>4, <1>5 DEF WholeInv, HandInv, TypeOK, BuildTypeOK

\* The node a retry resumes at finds its input, in every graph, however many
\* requests, retries and faults there were, and whether or not discovery is
\* part of the behaviour.
THEOREM ResumesFindInput == Spec \/ ReadySpec => []ResumeHasInput
<1>1. Init \/ ReadyInit => WholeInv /\ BlameInv /\ InputInv
  <2>1. NoRuns /\ Quiet => BlameInv /\ InputInv
    BY DEF NoRuns, Quiet, BlameInv, AnswersKnown, InputInv,
           FailureAttribution, AnswersProduced, RowsInOrder, NodesHaveInput, Exists,
           Absent, BuildNodes
  <2>2. QED
    BY <2>1, WholeInit, ReadyIsWhole DEF Init, SeamInit, ReadyInit
<1>2. WholeInv /\ BlameInv /\ InputInv /\ [Next]_vars => InputInv'
  BY ProducedNext, InputNext DEF InputInv
<1>3. WholeInv /\ InputInv => ResumeHasInput
  BY OriginKnown DEF WholeInv, HandInv, RowsAreLinked, InputInv, NodesHaveInput,
                     ResumeHasInput
<1>4. QED
  BY <1>1, <1>2, <1>3, WholeNext, BlameNext, PTL DEF Spec, ReadySpec

-----------------------------------------------------------------------------
(* The lock *)

\* Steps of a request that has rows in hand.
Bearing == {"starting", "startFailed"}

\* Steps of a run that has still to end its execution.
Driving == {"validating", "running", "coordinating", "finalizing"}

\* The end of an execution is still to come from its run, or from the one
\* request that is about to start the run.
DriverOf(c) ==
    /\ run[c] # "rescue"
    /\ run[c] \in Driving => Active(c)
    /\ run[c] = "compensating" => Active(c) \/ execution[c] = "FAILED"

Driven ==
    /\ \A c \in Executions : ~cancelRequested[c] /\ DriverOf(c)
    /\ \A q \in Requests :
        /\ request[q].step \in {"idle", "fresh", "resuming"} \union Bearing
        /\ request[q].step \in Bearing =>
            /\ run[request[q].e] = "absent"
            /\ Active(request[q].e)
            /\ \A p \in Requests \ {q} :
                request[p].step \in Bearing => request[p].e # request[q].e

\* A step that neither begins nor ends an execution.
LEMMA LockUntouched ==
  ASSUME project' = project, \A c \in Executions : Active(c)' = Active(c),
         LockOfOneBuild
  PROVE  LockOfOneBuild'
BY DEF LockOfOneBuild, OneActiveBuild

\* A step that ends an execution and releases the lock.
LEMMA LockReleased ==
  ASSUME NEW e \in Executions, Active(e), LockOfOneBuild,
         project' # "IN_PROGRESS",
         ~Active(e)', \A c \in Executions \ {e} : Active(c)' = Active(c)
  PROVE  LockOfOneBuild'
BY DEF LockOfOneBuild, OneActiveBuild

\* A step that takes the lock while nobody has it.
LEMMA LockTaken ==
  ASSUME NEW e \in Executions, LockOfOneBuild,
         project # "IN_PROGRESS", project' = "IN_PROGRESS",
         Active(e)', \A c \in Executions \ {e} : Active(c)' = Active(c)
  PROVE  LockOfOneBuild'
BY DEF LockOfOneBuild, OneActiveBuild

\* A failed execution is over, and its failure releases the lock.
LEMMA FailEffect ==
  ASSUME SeamTypeOK, NEW e \in Executions, NEW t, FailExecution(e, t)
  PROVE  /\ project' = "FAILED"
         /\ execution'[e] = "FAILED"
         /\ \A c \in Executions \ {e} : execution'[c] = execution[c]
BY DEF FailExecution, SeamTypeOK

\* The step of one run that leaves the others and the requests alone.
LEMMA RunKeepsDriven ==
  ASSUME HandInv, Driven, NEW e \in Executions, run[e] # "absent",
         UNCHANGED <<request, cancelRequested>>,
         \A c \in Executions \ {e} : run'[c] = run[c] /\ execution'[c] = execution[c],
         DriverOf(e)'
  PROVE  Driven'
<1>1. \A c \in Executions : ~cancelRequested'[c] /\ DriverOf(c)'
  BY DEF Driven, DriverOf, Active
<1>2. \A q \in Requests : request[q].step \in Bearing =>
        /\ request[q].e \in Executions \ {e}
        /\ run'[request[q].e] = "absent"
        /\ Active(request[q].e)'
  BY DEF Driven, Active, HandInv, RequestsHaveRows, Bearing
<1>3. QED
  BY <1>1, <1>2 DEF Driven

\* What an admission does to the lock.
LEMMA AdmissionLocks ==
  ASSUME HandInv, NEW r \in Requests,
         StartBuild(r) \/ RetryFresh(r) \/ RetryResume(r)
  PROVE  \E e \in Executions :
            /\ ~Exists(e) /\ run[e] = "absent"
            /\ execution' = [execution EXCEPT ![e] = "CREATED"]
            /\ request' = [request EXCEPT ![r] = [step |-> "starting", e |-> e, t |-> Absent]]
            /\ project # "IN_PROGRESS" /\ project' = "IN_PROGRESS"
            /\ UNCHANGED <<run, cancelRequested>>
<1>1. PICK e \in Executions :
        /\ IsNext(e)
        /\ execution' = [execution EXCEPT ![e] = "CREATED"]
        /\ project \in StartStatus \union ResumeStatus
        /\ project' = "IN_PROGRESS"
        /\ MoveRequest(r, "starting", e, Absent)
        /\ UNCHANGED runVars
  BY DEF StartBuild, RetryFresh, RetryResume, Admit, StartHcrRun, ResumeHcrRun, CreateExecution
<1>2. ~Exists(e) /\ run[e] = "absent"
  BY <1>1 DEF IsNext, HandInv, RunsHaveRows
<1>3. QED
  BY <1>1, <1>2 DEF MoveRequest, runVars, StartStatus, ResumeStatus

LEMMA DrivenByRun ==
  ASSUME HandInv, Driven, NEW e \in Executions, RunStepOf(e)
  PROVE  /\ Driven'
         /\ LockOfOneBuild => LockOfOneBuild' \/ CompensatesAgain(e)
<1>0. /\ SeamTypeOK
      /\ execution \in [Executions -> ExecutionStatus \union {Absent}]
      /\ run \in [Executions -> RunStep]
      /\ todo \in [Executions -> SUBSET BuildNodes]
      /\ run[e] # "rescue" /\ ~cancelRequested[e] /\ DriverOf(e)
  BY DEF HandInv, TypeOK, SeamTypeOK, Driven, DriverOf
\* Steps that change no status of an execution and no project status.
<1>1. ASSUME UNCHANGED <<request, cancelRequested, execution, project>>, run[e] # "absent",
             \E s \in RunStep : run' = [run EXCEPT ![e] = s] /\
                (s \in {"closed", "reporting"} \/ (Active(e) /\ s # "rescue"))
      PROVE  Driven' /\ (LockOfOneBuild => LockOfOneBuild')
  <2>1. DriverOf(e)'
    BY <1>0, <1>1 DEF DriverOf, Active, Driving
  <2>2. Driven'
    BY <1>0, <1>1, <2>1, RunKeepsDriven
  <2>3. QED
    BY <1>1, <2>2, LockUntouched DEF Active
<1>2. CASE Validate(e)
  <2>1. /\ UNCHANGED <<request, cancelRequested, execution, project>>
        /\ run[e] = "validating" /\ run' = [run EXCEPT ![e] = "running"]
    BY <1>2 DEF Validate, Schedule, MoveRun, seamVars
  <2>2. QED
    BY <1>0, <1>1, <2>1 DEF DriverOf, Driving, RunStep
<1>3. CASE Settle(e)
  <2>1. /\ UNCHANGED <<request, cancelRequested, execution, project>>
        /\ run[e] = "running"
        /\ \/ run' = [run EXCEPT ![e] = "compensating"]
           \/ run' = [run EXCEPT ![e] = "coordinating"]
    BY <1>3 DEF Settle, MoveRun, seamVars
  <2>2. QED
    BY <1>0, <1>1, <2>1 DEF DriverOf, Driving, RunStep
<1>4. ASSUME NEW t \in BuildNodes, Coordinate(e, t)
      PROVE  Driven' /\ (LockOfOneBuild => LockOfOneBuild')
  <2>1. /\ UNCHANGED <<request, cancelRequested, execution, project>>
        /\ run[e] = "coordinating"
        /\ \/ run' = run
           \/ run' = [run EXCEPT ![e] = "running"]
           \/ run' = [run EXCEPT ![e] = "finalizing"]
    BY <1>4 DEF Coordinate, CreateNodes, Schedule, MoveRun
  <2>2. \E s \in RunStep : run' = [run EXCEPT ![e] = s] /\ Active(e) /\ s # "rescue"
    BY <1>0, <2>1 DEF DriverOf, Driving, RunStep
  <2>3. QED
    BY <1>1, <2>1, <2>2
<1>5. ASSUME NEW t \in BuildNodes, Compensate(e, t)
      PROVE  Driven' /\ (LockOfOneBuild => LockOfOneBuild' \/ CompensatesAgain(e))
  <2>1. /\ UNCHANGED <<request, cancelRequested>>
        /\ run[e] = "compensating"
        /\ t \in todo[e]
        /\ FailExecution(e, t)
        /\ todo' = [todo EXCEPT ![e] = todo[e] \ {t}]
        /\ run' = run \/ run' = [run EXCEPT ![e] = "closed"]
    BY <1>5 DEF Compensate, Remaining
  <2>2. /\ project' = "FAILED"
        /\ execution'[e] = "FAILED"
        /\ \A c \in Executions \ {e} : execution'[c] = execution[c]
    BY <1>0, <2>1, FailEffect
  <2>3. DriverOf(e)'
    BY <1>0, <2>1, <2>2 DEF DriverOf, Driving
  <2>4. Driven'
    BY <1>0, <2>1, <2>2, <2>3, RunKeepsDriven
  <2>5. CASE Active(e)
    BY <2>2, <2>4, <2>5, LockReleased DEF Active
  <2>6. CASE execution[e] = "FAILED"
    <3>1. todo'[e] # todo[e]
      BY <1>0, <2>1
    <3>2. QED
      BY <2>1, <2>4, <2>6, <3>1 DEF CompensatesAgain
  <2>7. QED
    BY <1>0, <2>1, <2>5, <2>6 DEF DriverOf
<1>6. CASE Finalize(e)
  <2>1. /\ UNCHANGED <<request, cancelRequested>>
        /\ run[e] = "finalizing"
        /\ CompleteExecution(e) \/ CompleteExecutionPartially(e)
        /\ run' = [run EXCEPT ![e] = "closed"] \/ run' = [run EXCEPT ![e] = "reporting"]
    BY <1>6 DEF Finalize, FinalizeRows, MoveRun
  <2>2. Active(e)
    BY <1>0, <2>1 DEF DriverOf, Driving
  <2>3. Finish(e, "COMPLETED", "IDLE", "completed") \/ Finish(e, "PARTIAL", "INCOMPLETE", "incomplete")
    BY <2>1, <2>2 DEF CompleteExecution, CompleteExecutionPartially, IsOver, Active, Exists, Absent
  <2>4. /\ project' # "IN_PROGRESS"
        /\ ~Active(e)'
        /\ \A c \in Executions \ {e} : execution'[c] = execution[c]
    BY <1>0, <2>3 DEF Finish, Active
  <2>5. DriverOf(e)'
    BY <1>0, <2>1 DEF DriverOf, Driving
  <2>6. Driven'
    BY <1>0, <2>1, <2>4, <2>5, RunKeepsDriven
  <2>7. QED
    BY <2>2, <2>4, <2>6, LockReleased DEF Active
<1>7. CASE Report(e)
  <2>1. /\ UNCHANGED <<request, cancelRequested, execution, project>>
        /\ run[e] = "reporting" /\ run' = [run EXCEPT ![e] = "closed"]
    BY <1>7 DEF Report, MoveRun, seamVars
  <2>2. QED
    BY <1>0, <1>1, <2>1 DEF RunStep
<1>8. ~Rescue(e) /\ ~RunCancelled(e)
  BY <1>0 DEF Rescue, RunCancelled
<1>9. QED
  BY <1>2, <1>3, <1>4, <1>5, <1>6, <1>7, <1>8, <1>1 DEF RunStepOf

LEMMA DrivenByAttempt ==
  ASSUME HandInv, Driven, NEW e \in Executions, NEW t \in BuildNodes, NEW a \in Attempts,
         AttemptStepOf(e, t, a)
  PROVE  Driven' /\ (LockOfOneBuild => LockOfOneBuild')
<1>1. execution \in [Executions -> ExecutionStatus \union {Absent}]
  BY DEF HandInv, TypeOK, SeamTypeOK
<1>2. /\ UNCHANGED <<project, run, cancelRequested, request>>
      /\ \/ execution' = execution
         \/ execution' = [execution EXCEPT ![e] = IF @ = "CREATED" THEN "RUNNING" ELSE @]
  BY DEF AttemptStepOf, AttemptBegin, AttemptWrite, AttemptComplete, AttemptStop,
         AttemptFail, BeginNode, MarkExecutionRunning, CompleteNode, StopNode, seamVars, runVars
<1>3. \A c \in Executions : /\ Active(c)' = Active(c)
                            /\ execution[c] = "FAILED" => execution'[c] = "FAILED"
  BY <1>1, <1>2 DEF Active
<1>4. \A q \in Requests : request[q].step \in Bearing => request[q].e \in Executions
  BY DEF HandInv, RequestsHaveRows, Bearing
<1>5. Driven'
  BY <1>2, <1>3, <1>4 DEF Driven, DriverOf
<1>6. QED
  BY <1>2, <1>3, <1>5, LockUntouched

LEMMA DrivenByRequest ==
  ASSUME HandInv, Driven, Kinds \subseteq {"start", "retry"}, NEW r \in Requests,
         Arrival(r) \/ RequestStepOf(r)
  PROVE  Driven' /\ (LockOfOneBuild => LockOfOneBuild')
<1>0. /\ SeamTypeOK
      /\ execution \in [Executions -> ExecutionStatus \union {Absent}]
      /\ run \in [Executions -> RunStep]
      /\ DOMAIN request = Requests
      /\ \A q \in Requests : request[q].step \in Bearing =>
            request[q].e \in Executions /\ Exists(request[q].e)
      /\ request[r].step \in {"idle", "fresh", "resuming"} \union Bearing
  BY DEF HandInv, TypeOK, SeamTypeOK, RequestsHaveRows, Bearing, Driven
<1>1. ~DiscoveryTurn(r) /\ ~CancelBuild(r)
  BY DEF DiscoveryTurn, CancelBuild
<1>2. ~DiscoveryCompletes(r) /\ ~DiscoveryContinues(r) /\ ~CancelTemporal(r) /\ ~CancelRows(r)
  BY <1>0 DEF DiscoveryCompletes, DiscoveryContinues, CancelTemporal, CancelRows, Bearing
<1>3. CASE StartBuild(r) \/ RetryFresh(r) \/ RetryResume(r)
  <2>1. PICK e \in Executions :
            /\ ~Exists(e) /\ run[e] = "absent"
            /\ execution' = [execution EXCEPT ![e] = "CREATED"]
            /\ request' = [request EXCEPT ![r] = [step |-> "starting", e |-> e, t |-> Absent]]
            /\ project # "IN_PROGRESS" /\ project' = "IN_PROGRESS"
            /\ UNCHANGED <<run, cancelRequested>>
    BY <1>3, AdmissionLocks
  <2>2. /\ Active(e)'
        /\ \A c \in Executions \ {e} : execution'[c] = execution[c]
    BY <1>0, <2>1 DEF Active
  <2>3. \A c \in Executions : ~cancelRequested'[c] /\ DriverOf(c)'
    BY <2>1, <2>2 DEF Driven, DriverOf, Driving, Active
  <2>4. \A q \in Requests \ {r} : request'[q] = request[q]
    BY <1>0, <2>1
  <2>5. request'[r].step = "starting" /\ request'[r].e = e
    BY <1>0, <2>1
  <2>6. \A q \in Requests \ {r} : request[q].step \in Bearing => request[q].e # e
    BY <1>0, <2>1
  <2>7. Driven'
    BY <1>0, <2>1, <2>2, <2>3, <2>4, <2>5, <2>6 DEF Driven, Bearing, Active
  <2>8. QED
    BY <2>1, <2>2, <2>7, LockTaken DEF Active
<1>4. CASE RetryBuild(r) \/ RetryRejected(r)
  <2>1. /\ UNCHANGED <<project, execution, run, cancelRequested>>
        /\ \E s \in {"idle", "fresh", "resuming"} : \E d, u :
                request' = [request EXCEPT ![r] = [step |-> s, e |-> d, t |-> u]]
    BY <1>4 DEF RetryBuild, RetryRejected, MoveRequest, EndRequest, IdleRequest, seamVars, runVars
  <2>2. /\ request'[r].step \in {"idle", "fresh", "resuming"}
        /\ \A q \in Requests \ {r} : request'[q] = request[q]
    BY <1>0, <2>1
  <2>3. Driven'
    BY <2>1, <2>2 DEF Driven, DriverOf, Active, Bearing
  <2>4. QED
    BY <2>1, <2>3, LockUntouched DEF Active
<1>5. CASE TemporalStarts(r)
  <2> DEFINE e == request[r].e
  <2>1. /\ request[r].step \in Bearing
        /\ run' = [run EXCEPT ![e] = "validating"]
        /\ request' = [request EXCEPT ![r] = IdleRequest]
        /\ UNCHANGED <<project, execution, cancelRequested>>
    BY <1>5 DEF TemporalStarts, MoveRun, EndRequest, seamVars, Bearing
  <2>2. e \in Executions /\ Active(e)
    BY <1>0, <2>1 DEF Driven
  <2>3. /\ request'[r].step = "idle"
        /\ \A q \in Requests \ {r} : request'[q] = request[q]
    BY <1>0, <2>1 DEF IdleRequest
  <2>4. \A q \in Requests \ {r} : request[q].step \in Bearing => request[q].e # e
    BY <2>1 DEF Driven
  <2> HIDE DEF e
  <2>5. \A c \in Executions : ~cancelRequested'[c] /\ DriverOf(c)'
    BY <1>0, <2>1, <2>2 DEF Driven, DriverOf, Driving, Active
  <2>6. Driven'
    BY <1>0, <2>1, <2>2, <2>3, <2>4, <2>5 DEF Driven, Active, Bearing
  <2>7. QED
    BY <2>1, <2>6, LockUntouched DEF Active
<1>6. CASE TemporalRefuses(r)
  <2>1. /\ request[r].step \in Bearing
        /\ request' = [request EXCEPT ![r] = [step |-> "startFailed", e |-> request[r].e, t |-> Absent]]
        /\ UNCHANGED <<project, execution, run, cancelRequested>>
    BY <1>6 DEF TemporalRefuses, MoveRequest, seamVars, runVars, Bearing
  <2>2. /\ request'[r].step \in Bearing /\ request'[r].e = request[r].e
        /\ \A q \in Requests \ {r} : request'[q] = request[q]
    BY <1>0, <2>1 DEF Bearing
  <2>3. Driven'
    BY <2>1, <2>2 DEF Driven, DriverOf, Active
  <2>4. QED
    BY <2>1, <2>3, LockUntouched DEF Active
<1>7. CASE StartFails(r)
  <2> DEFINE e == request[r].e
  <2>1. /\ request[r].step \in Bearing
        /\ FailExecution(e, origin[e])
        /\ request' = [request EXCEPT ![r] = IdleRequest]
        /\ UNCHANGED <<run, cancelRequested>>
    BY <1>7 DEF StartFails, FailTrigger, EndRequest, runVars, Bearing
  <2>2. e \in Executions /\ Active(e) /\ run[e] = "absent"
    BY <1>0, <2>1 DEF Driven
  <2>3. /\ request'[r].step = "idle"
        /\ \A q \in Requests \ {r} : request'[q] = request[q]
    BY <1>0, <2>1 DEF IdleRequest
  <2>4. \A q \in Requests \ {r} : request[q].step \in Bearing => request[q].e # e
    BY <2>1 DEF Driven
  <2> HIDE DEF e
  <2>5. /\ project' = "FAILED"
        /\ execution'[e] = "FAILED"
        /\ \A c \in Executions \ {e} : execution'[c] = execution[c]
    BY <1>0, <2>1, <2>2, FailEffect
  <2>6. \A c \in Executions : ~cancelRequested'[c] /\ DriverOf(c)'
    BY <2>1, <2>2, <2>5 DEF Driven, DriverOf, Driving, Active
  <2>7. Driven'
    BY <1>0, <2>1, <2>3, <2>4, <2>5, <2>6 DEF Driven, Active, Bearing
  <2>8. QED
    BY <2>2, <2>5, <2>7, LockReleased DEF Active
<1>8. QED
  BY <1>1, <1>2, <1>3, <1>4, <1>5, <1>6, <1>7 DEF Arrival, RequestStepOf

LEMMA DrivenNext ==
  ASSUME Kinds \subseteq {"start", "retry"}, HandInv, faults = 0 => Driven,
         [Next]_vars, faults' = 0
  PROVE  /\ Driven'
         /\ LockOfOneBuild =>
                LockOfOneBuild' \/ \E e \in Executions : CompensatesAgain(e)
<1>1. faults \in Nat
  BY BuildAssumption DEF HandInv, TypeOK
<1>2. ~Fault
  BY <1>1 DEF Fault
<1>3. ASSUME NEW e \in Executions, RescueFails(e)
      PROVE  faults' = faults /\ run[e] = "rescue"
  BY <1>3 DEF RescueFails, NoFault
<1>4. ASSUME NEW e \in Executions, RunStepOf(e)
      PROVE  faults = 0
  BY <1>4 DEF RunStepOf, Validate, Settle, Coordinate, Compensate, Rescue, Finalize, Report,
              RunCancelled, NoFault
<1>5. ASSUME NEW e \in Executions, NEW t \in BuildNodes, NEW a \in Attempts, AttemptStepOf(e, t, a)
      PROVE  faults = 0
  BY <1>5 DEF AttemptStepOf, AttemptBegin, AttemptWrite, AttemptComplete, AttemptStop,
              AttemptFail, NoFault
<1>6. ASSUME NEW r \in Requests, Arrival(r) \/ RequestStepOf(r)
      PROVE  faults = 0
  BY <1>6 DEF Arrival, RequestStepOf, DiscoveryTurn, StartBuild, RetryBuild, CancelBuild,
              DiscoveryCompletes, DiscoveryContinues, RetryFresh, RetryResume, RetryRejected,
              TemporalStarts, TemporalRefuses, StartFails, CancelTemporal, CancelRows, Admit,
              NoFault
<1>7. ASSUME NEW e \in Executions, RunFault(e)
      PROVE  FALSE
  <2>1. RescueFails(e)
    BY <1>2, <1>7 DEF RunFault, ValidateFails, CoordinateFails, CompensateFails, FinalizeFails,
                      ReportFails, RunTimedOut
  <2>2. faults = 0 /\ run[e] = "rescue"
    BY <1>3, <2>1
  <2>3. QED
    BY <2>2 DEF Driven, DriverOf
<1>8. ASSUME NEW e \in Executions, NEW t \in BuildNodes, NEW a \in Attempts, LeaseLost(e, t, a)
      PROVE  FALSE
  BY <1>2, <1>8 DEF LeaseLost
<1>9. ASSUME NEW r \in Requests, StartAnswerLost(r) \/ Crash(r)
      PROVE  FALSE
  BY <1>2, <1>9 DEF StartAnswerLost, Crash
<1>10. CASE UNCHANGED vars
  <2>1. UNCHANGED <<project, execution, run, cancelRequested, request, faults>>
    BY <1>10 DEF vars, seamVars, runVars
  <2>2. Driven'
    BY <2>1 DEF Driven, DriverOf, Active
  <2>3. QED
    BY <2>1, <2>2, LockUntouched DEF Active
<1>11. CASE \E e \in Executions : RunStepOf(e)
  BY <1>4, <1>11, DrivenByRun
<1>12. CASE \E e \in Executions, t \in BuildNodes, a \in Attempts : AttemptStepOf(e, t, a)
  BY <1>5, <1>12, DrivenByAttempt
<1>13. CASE \E r \in Requests : Arrival(r) \/ RequestStepOf(r)
  BY <1>6, <1>13, DrivenByRequest
<1>14. QED
  BY <1>7, <1>8, <1>9, <1>10, <1>11, <1>12, <1>13 DEF Next

\* With clients that only start and retry, in every graph and with any number of
\* them: as long as there is no fault, a build that is under way loses its lock
\* to nothing but the later compensations of an earlier run.
THEOREM LockHolds ==
  ASSUME Kinds \subseteq {"start", "retry"}
  PROVE  Spec \/ ReadySpec => LockIsKept
<1>1. Init \/ ReadyInit => HandInv /\ Driven
  <2>1. NoRuns /\ Quiet => Driven
    BY DEF NoRuns, Quiet, IdleRequest, Driven, DriverOf, Driving, Bearing
  <2>2. QED
    BY <2>1, WholeInit, ReadyIsWhole DEF Init, SeamInit, ReadyInit, WholeInv
<1>2. HandInv /\ (faults = 0 => Driven) /\ [Next]_vars => HandInv' /\ (faults = 0 => Driven)'
  BY HandNext, DrivenNext
<1>3. HandInv /\ (faults = 0 => Driven) /\ [Next]_vars =>
        [faults' = 0 /\ LockOfOneBuild =>
            LockOfOneBuild' \/ \E e \in Executions : CompensatesAgain(e)]_vars
  BY DrivenNext
<1>4. QED
  BY <1>1, <1>2, <1>3, PTL DEF Spec, ReadySpec, LockIsKept
=============================================================================
