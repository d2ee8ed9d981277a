------------------------ MODULE VerificationLoopProofs ------------------------
(***************************************************************************)
(* Verification and repair, for any number of reports, repairs, requests   *)
(* and attempts.                                                           *)
(***************************************************************************)
EXTENDS VerificationLoop, StateSeamProofs

Started(l) == loop[l] # "absent"

\* A report of a loop, the first of it or a later one.
InLoop(r) == Started(r) \/ parent[r] # 0

\* Nothing refers to a row that was not created.
Fresh ==
    /\ \A r \in Reports : status[r] = Absent => ~InLoop(r) /\ answered[r] = Absent /\ r \notin checking
    /\ \A r \in Reports : parent[r] # 0 => status[parent[r]] # Absent
    /\ \A l \in Reports : Started(l) => at[l] \in Reports /\ status[at[l]] # Absent
    /\ \A c \in Clients : client[c].step \in {"created", "unanswered"} =>
        client[c].r \in Reports /\ status[client[c].r] # Absent
    /\ \A e \in Executions : ~Exists(e) => repairOf[e] = 0 /\ fix[e] = "none"

\* A loop is at the last report of its own chain, and works on nobody else's.
Current ==
    /\ \A l \in Reports :
        Started(l) => /\ at[l] = l \/ parent[at[l]] # 0
                      /\ \A q \in Reports : parent[q] # at[l]
    /\ \A l, m \in Reports : Started(l) /\ Started(m) /\ at[l] = at[m] => l = m
    /\ \A r \in Reports : answered[r] # Absent \/ r \in checking => InLoop(r)
    /\ \A r \in Reports : parent[r] # 0 => InLoop(parent[r])
    /\ \A c \in Clients : client[c].step = "created" => ~InLoop(client[c].r)
    /\ \A c, d \in Clients :
        client[c].step = "created" /\ client[d].step = "created" /\ client[c].r = client[d].r
        => c = d

\* A repair of report p that ended and changed the workspace.
Effective(e, p) == repairOf[e] = p /\ fix[e] = "ended" /\ after[e] # before[e]

\* What is known of its report at each step of a loop.
Steps ==
    \A l \in Reports :
        /\ loop[l] = "verify" => at[l] \notin checking
        /\ loop[l] = "verifying" => answered[at[l]] = Absent
        /\ loop[l] \in {"repair", "repairing"} =>
            answered[at[l]] = "FAILED" /\ number[at[l]] < MaxAttempts
        /\ loop[l] = "repair" => \A e \in Executions : repairOf[e] # at[l]
        /\ loop[l] = "verify" /\ answered[at[l]] # Absent =>
            /\ answered[at[l]] = "FAILED" /\ number[at[l]] < MaxAttempts
            /\ \E e \in Executions : Effective(e, at[l])

\* An answer is given once, and the report has a verdict by then.
Answers ==
    \A r \in Reports :
        /\ r \in checking => answered[r] = Absent
        /\ answered[r] # Absent => status[r] # "RUNNING"

\* What a report names is what its checks ran on.
Named ==
    \A r \in Reports :
        /\ r \in checking \/ status[r] = "PASSED" => revision[r] = staged[r]
        /\ revision[r] <= workspace

Repairs ==
    \A e \in Executions :
        /\ before[e] <= workspace /\ after[e] <= workspace
        /\ fix[e] = "ended" => before[e] <= after[e]
        /\ repairOf[e] # 0 =>
            /\ answered[repairOf[e]] = "FAILED"
            /\ number[repairOf[e]] < MaxAttempts
            /\ revision[repairOf[e]] <= before[e]
            /\ \A d \in Executions : repairOf[d] = repairOf[e] => d = e

Children ==
    \A r \in Reports : parent[r] # 0 =>
        /\ number[r] = number[parent[r]] + 1
        /\ \A q \in Reports : parent[q] = parent[r] => q = r
        /\ \E e \in Executions : Effective(e, parent[r]) /\ after[e] <= revision[r]

LoopRecords ==
    /\ Fresh /\ Current /\ Steps /\ Answers /\ Named /\ Repairs /\ Children
    /\ NothingStranded

LoopInv == VerifyTypeOK /\ LoopRecords

-----------------------------------------------------------------------------
(* The rows of the runs *)

\* Every action is a transaction of the seam, or leaves the run rows alone.
LEMMA StepIsSeam == [Next]_vars => [SeamNext]_seamVars
<1> SUFFICES ASSUME Next
             PROVE  [SeamNext]_seamVars
  BY DEF vars
<1> USE DEF verifyVars
<1>1. CASE FilesChange
  BY <1>1 DEF FilesChange
<1>2. ASSUME NEW e \in Executions, BuildStarts(e)
      PROVE  SeamNext
  BY <1>2 DEF BuildStarts, SeamNext
<1>3. ASSUME NEW e \in Executions, BuildEnds(e)
      PROVE  SeamNext
  <2>1. FirstNode \in NodeTypes
    BY SeamAssumption
  <2>2. QED
    BY <1>3, <2>1 DEF BuildEnds, SeamNext
<1>4. ASSUME NEW e \in Executions,
             \/ BuildFindsActive(e)
             \/ RepairWrites(e)
             \/ RepairDies(e)
             \/ \E r \in Reports : BuildAsks(e, r) \/ BuildAnswerLost(e, r)
      PROVE  UNCHANGED seamVars
  BY <1>4 DEF BuildFindsActive, RepairWrites, RepairDies, BuildAsks, BuildAnswerLost
<1>5. ASSUME NEW e \in Executions, RepairStepOf(e)
      PROVE  [SeamNext]_seamVars
  <2>1. RepairNode \in NodeTypes
    BY SeamAssumption
  <2>2. CASE RepairWorks(e)
    BY <2>1, <2>2 DEF RepairWorks, SeamNext
  <2>3. CASE RepairTurnEnds(e)
    BY <2>1, <2>3 DEF RepairTurnEnds, SeamNext
  <2>4. CASE RepairEnds(e)
    BY <2>4 DEF RepairEnds, FinishRepair, SeamNext
  <2>5. CASE RepairFails(e)
    BY <2>1, <2>5 DEF RepairFails, SeamNext
  <2>6. QED
    BY <1>5, <2>2, <2>3, <2>4, <2>5 DEF RepairStepOf
<1>6. ASSUME NEW r \in Reports,
             \/ ReportAges(r) \/ VerifyEnds(r) \/ VerifyDies(r) \/ LoopStops(r)
             \/ VerifyFindsNothing(r)
             \/ \E q \in Reports : VerifyBegins(r, q)
      PROVE  UNCHANGED seamVars
  BY <1>6 DEF ReportAges, VerifyEnds, VerifyDies, LoopStops, VerifyFindsNothing,
              VerifyBegins
<1>7. ASSUME NEW r \in Reports, NEW e \in Executions, RepairBegins(r, e)
      PROVE  SeamNext
  BY <1>7 DEF RepairBegins, SeamNext
<1>8. ASSUME NEW c \in Clients,
             \/ ClientAdmitted(c) \/ ClientLooks(c) \/ TemporalStarts(c)
             \/ ClientBlocked(c) \/ StartAnswerLost(c) \/ ClientDies(c)
             \/ \E r \in Reports : ClientCreates(c, r)
      PROVE  UNCHANGED seamVars
  BY <1>8 DEF ClientAdmitted, ClientLooks, TemporalStarts, ClientBlocked,
              StartAnswerLost, ClientDies, ClientCreates
<1>9. QED
  BY <1>1, <1>2, <1>3, <1>4, <1>5, <1>6, <1>7, <1>8 DEF Next, LoopStepOf

\* What verification, repair and the builds around them write to the run rows,
\* they write by the transactions of the seam.
THEOREM LoopUsesSeam == Spec => SeamSteps
  BY StepIsSeam, PTL DEF Spec, SeamSteps

\* No transaction makes an execution active again.
LEMMA ActiveOnce ==
  ASSUME SeamTypeOK, [SeamNext]_seamVars, NEW c \in Executions, Exists(c), Active(c)'
  PROVE  Active(c)
<1> USE DEF SeamTypeOK, Exists, Absent, Active
<1>1. CASE CompleteDiscovery
  BY <1>1 DEF CompleteDiscovery
<1>2. ASSUME NEW e \in Executions, NEW w, NEW t, CreateExecution(e, w, t)
      PROVE  Active(c)
  BY <1>2 DEF CreateExecution, IsNext
<1>3. ASSUME NEW e \in Executions, CompleteExecution(e)
      PROVE  Active(c)
  BY <1>3 DEF CompleteExecution, IsOver, Finish, seamVars
<1>4. ASSUME NEW e \in Executions, CompleteExecutionPartially(e)
      PROVE  Active(c)
  BY <1>4 DEF CompleteExecutionPartially, IsOver, Finish, seamVars
<1>5. ASSUME NEW e \in Executions, CancelExecution(e)
      PROVE  Active(c)
  BY <1>5 DEF CancelExecution
<1>6. ASSUME NEW e \in Executions, NEW t \in NodeTypes,
             BeginNode(e, t) \/ CompleteNode(e, t) \/ StopNode(e, t) \/ FailExecution(e, t)
      PROVE  Active(c)
  BY <1>6 DEF BeginNode, MarkExecutionRunning, CompleteNode, StopNode, FailExecution
<1>7. ASSUME NEW e \in Executions, NEW T, CreateNodes(e, T)
      PROVE  Active(c)
  BY <1>7 DEF CreateNodes
<1>8. CASE UNCHANGED seamVars
  BY <1>8 DEF seamVars
<1>9. ASSUME NEW e \in Executions, StartHcrRun(e)
      PROVE  Active(c)
  BY <1>9, <1>2 DEF StartHcrRun
<1>10. ASSUME NEW e \in Executions, NEW d \in Executions, NEW t \in NodeTypes,
              ResumeHcrRun(e, d, t)
       PROVE  Active(c)
  BY <1>10, <1>2 DEF ResumeHcrRun
<1>11. ASSUME NEW e \in Executions, CreateRepairRun(e)
       PROVE  Active(c)
  BY <1>11, <1>2 DEF CreateRepairRun
<1>12. QED
  BY <1>1, <1>3, <1>4, <1>5, <1>6, <1>7, <1>8, <1>9, <1>10, <1>11 DEF SeamNext

-----------------------------------------------------------------------------
(* The invariant holds before the first step *)

LEMMA LoopInit == Init => LoopInv
<1> SUFFICES ASSUME Init
             PROVE  LoopInv
  OBVIOUS
<1> USE SeamAssumption, LoopAssumption DEF Init
<1>1. SeamTypeOK
  <2>1. project \in ProjectStatus /\ discovered \in BOOLEAN
    BY DEF ProjectStatus
  <2>2. /\ workflow \in [Executions -> WorkflowStatus \union {Absent}]
        /\ kind \in [Executions -> WorkflowType \union {Absent}]
        /\ execution \in [Executions -> ExecutionStatus \union {Absent}]
        /\ origin \in [Executions -> NodeTypes \union {Absent}]
        /\ build \in [Executions -> Executions]
    BY DEF NoRuns
  <2>3. node \in [Executions -> [NodeTypes -> NodeStatus \union {Absent}]]
    BY DEF NoRuns
  <2>4. events \in [Executions -> [TerminalEvent -> EventCount]]
    BY DEF NoRuns, EventCount
  <2>5. QED
    BY <2>1, <2>2, <2>3, <2>4 DEF SeamTypeOK
<1>2. VerifyTypeOK
  BY <1>1 DEF VerifyTypeOK, Verdict, LoopStep, FixStep, ClientStep, IdleClient, Versions
<1>3. Fresh /\ Current /\ Steps /\ Answers /\ Named /\ Repairs /\ Children
  BY DEF Fresh, Current, Steps, Answers, Named, Repairs, Children, Started, InLoop,
         Effective, IdleClient, Absent
<1>4. NothingStranded
  BY DEF NothingStranded, Absent
<1>5. QED
  BY <1>2, <1>3, <1>4 DEF LoopInv, LoopRecords

-----------------------------------------------------------------------------
(* Types *)

\* The verification's part of the type invariant.
LoopTypeOK ==
    /\ workspace \in Versions
    /\ status \in [Reports -> Verdict \union {"RUNNING", Absent}]
    /\ number \in [Reports -> 0 .. MaxAttempts]
    /\ parent \in [Reports -> Reports \union {0}]
    /\ revision \in [Reports -> Versions]
    /\ aged \subseteq Reports
    /\ staged \in [Reports -> Versions]
    /\ checking \subseteq Reports
    /\ loop \in [Reports -> LoopStep]
    /\ at \in [Reports -> Reports \union {0}]
    /\ answered \in [Reports -> Verdict \union {Absent}]
    /\ repairOf \in [Executions -> Reports \union {0}]
    /\ before \in [Executions -> Versions]
    /\ after \in [Executions -> Versions]
    /\ fix \in [Executions -> FixStep]
    /\ asking \subseteq Executions
    /\ client \in [Clients -> [step : ClientStep, r : Reports \union {0}]]
    /\ faults \in 0 .. MaxFaults

LEMMA LoopTypeNext == LoopInv /\ [Next]_vars => LoopTypeOK'
<1> SUFFICES ASSUME LoopInv, [Next]_vars
             PROVE  LoopTypeOK'
  OBVIOUS
<1>0. LoopTypeOK
  BY DEF LoopInv, VerifyTypeOK, LoopTypeOK
<1>a. ASSUME NoFault \/ Fault
      PROVE  faults' \in 0 .. MaxFaults
  BY <1>0, <1>a, LoopAssumption DEF LoopTypeOK, NoFault, Fault
<1>b. ASSUME workspace < MaxVersions, workspace' = workspace + 1
      PROVE  workspace' \in Versions
  BY <1>0, <1>b, LoopAssumption DEF LoopTypeOK, Versions
<1>c. ASSUME NEW c \in Clients, NEW step \in ClientStep, NEW r \in Reports \union {0},
             MoveClient(c, step, r)
      PROVE  client' \in [Clients -> [step : ClientStep, r : Reports \union {0}]]
  BY <1>0, <1>c DEF LoopTypeOK, MoveClient
<1>d. ASSUME NEW l \in Reports, NEW step \in LoopStep, MoveLoop(l, step)
      PROVE  loop' \in [Reports -> LoopStep]
  BY <1>0, <1>d DEF LoopTypeOK, MoveLoop
<1>e. ASSUME NEW r \in Reports, StartLoop(r)
      PROVE  loop' \in [Reports -> LoopStep] /\ at' \in [Reports -> Reports \union {0}]
  BY <1>0, <1>e, <1>d DEF LoopTypeOK, StartLoop, LoopStep
<1>f. ASSUME NEW r \in Reports, NEW n \in 0 .. MaxAttempts, NEW p \in Reports \union {0},
             NEW v \in Versions, CreateReport(r, "RUNNING", n, p, v)
      PROVE  /\ status' \in [Reports -> Verdict \union {"RUNNING", Absent}]
             /\ number' \in [Reports -> 0 .. MaxAttempts]
             /\ parent' \in [Reports -> Reports \union {0}]
             /\ revision' \in [Reports -> Versions]
             /\ aged' \subseteq Reports
  BY <1>0, <1>f DEF LoopTypeOK, CreateReport
<1>g. ASSUME NEW r \in Reports, NEW verdict \in Verdict, Stamp(r, verdict)
      PROVE  /\ status' \in [Reports -> Verdict \union {"RUNNING", Absent}]
             /\ number' \in [Reports -> 0 .. MaxAttempts]
             /\ parent' \in [Reports -> Reports \union {0}]
             /\ revision' \in [Reports -> Versions]
             /\ aged' \subseteq Reports
  BY <1>0, <1>g DEF LoopTypeOK, Stamp
<1>h. ASSUME NEW r \in Reports, NEW verdict \in Verdict, Conclude(r, verdict)
      PROVE  /\ answered' \in [Reports -> Verdict \union {Absent}]
             /\ loop' \in [Reports -> LoopStep]
  BY <1>0, <1>h DEF LoopTypeOK, Conclude, LoopStep
<1>i. ASSUME NEW e \in Executions, NEW step \in FixStep, MoveFix(e, step)
      PROVE  fix' \in [Executions -> FixStep]
  BY <1>0, <1>i DEF LoopTypeOK, MoveFix
<1>j. ASSUME NEW e \in Executions, NEW changed, RepairAnswers(e, changed)
      PROVE  /\ repairOf' \in [Executions -> Reports \union {0}]
             /\ before' \in [Executions -> Versions]
             /\ after' \in [Executions -> Versions]
             /\ fix' \in [Executions -> FixStep]
             /\ loop' \in [Reports -> LoopStep]
  BY <1>0, <1>j, <1>i DEF LoopTypeOK, RepairAnswers, LoopStep, FixStep
<1>k. 0 \in Versions /\ 1 \in 0 .. MaxAttempts
  BY LoopAssumption DEF Versions
<1>l. /\ {"admitted", "idle", "clear", "created", "unanswered"} \subseteq ClientStep
      /\ {"verifying", "closed", "repairing"} \subseteq LoopStep
      /\ {"created", "working", "completed", "stopped"} \subseteq FixStep
      /\ "BLOCKED" \in Verdict
  BY DEF ClientStep, LoopStep, FixStep, Verdict
<1>1. CASE FilesChange
  BY <1>0, <1>1, <1>a, <1>b DEF LoopTypeOK, FilesChange, reportVars, checkVars,
       loopVars, repairVars
<1>2. ASSUME NEW e \in Executions, BuildStarts(e) \/ BuildEnds(e) \/ BuildFindsActive(e)
      PROVE  LoopTypeOK'
  BY <1>0, <1>2, <1>a DEF LoopTypeOK, BuildStarts, BuildEnds, BuildFindsActive,
       reportVars, checkVars, loopVars, repairVars
<1>3. ASSUME NEW e \in Executions, NEW r \in Reports, BuildAsks(e, r)
      PROVE  LoopTypeOK'
  BY <1>0, <1>3, <1>a, <1>e, <1>f, <1>k DEF LoopTypeOK, BuildAsks,
       checkVars, repairVars
<1>4. ASSUME NEW e \in Executions, NEW r \in Reports, BuildAnswerLost(e, r)
      PROVE  LoopTypeOK'
  BY <1>0, <1>4, <1>a, <1>f, <1>k DEF LoopTypeOK, BuildAnswerLost,
       checkVars, loopVars, repairVars
<1>5. ASSUME NEW e \in Executions, RepairWorks(e) \/ RepairTurnEnds(e)
      PROVE  LoopTypeOK'
  BY <1>0, <1>5, <1>a, <1>i, <1>l DEF LoopTypeOK, RepairWorks, RepairTurnEnds,
       reportVars, checkVars, loopVars
<1>6. ASSUME NEW e \in Executions, RepairEnds(e) \/ RepairFails(e) \/ RepairDies(e)
      PROVE  LoopTypeOK'
  BY <1>0, <1>6, <1>a, <1>j DEF LoopTypeOK, RepairEnds, RepairFails, RepairDies,
       reportVars, checkVars
<1>7. ASSUME NEW e \in Executions, RepairWrites(e)
      PROVE  LoopTypeOK'
  BY <1>0, <1>7, <1>a, <1>b DEF LoopTypeOK, RepairWrites, reportVars, checkVars,
       loopVars, repairVars
<1>8. ASSUME NEW r \in Reports, ReportAges(r)
      PROVE  LoopTypeOK'
  BY <1>0, <1>8, <1>a DEF LoopTypeOK, ReportAges, checkVars, loopVars, repairVars
<1>9. ASSUME NEW l \in Reports, NEW r \in Reports, VerifyBegins(l, r)
      PROVE  LoopTypeOK'
  <2>1. at[l] \in Reports
    BY <1>0, <1>9 DEF VerifyBegins, LoopInv, LoopRecords, Fresh, Started
  <2>2. CASE Repaired(l)
    <3>1. number[at[l]] + 1 \in 0 .. MaxAttempts
      BY <1>0, <1>9, <2>1, <2>2, LoopAssumption
      DEF VerifyBegins, LoopInv, LoopRecords, Steps, Repaired, LoopTypeOK
    <3>2. QED
      BY <1>0, <1>9, <1>a, <1>d, <1>f, <1>l, <2>1, <2>2, <3>1
      DEF LoopTypeOK, VerifyBegins, repairVars
  <2>3. CASE ~Repaired(l)
    BY <1>0, <1>9, <1>a, <1>d, <1>l, <2>1, <2>3
    DEF LoopTypeOK, VerifyBegins, repairVars
  <2>4. QED
    BY <2>2, <2>3
<1>10. ASSUME NEW l \in Reports, VerifyFindsNothing(l)
       PROVE  LoopTypeOK'
  <2>1. at[l] \in Reports
    BY <1>0, <1>10 DEF VerifyFindsNothing, LoopInv, LoopRecords, Fresh, Started
  <2>2. QED
    BY <1>0, <1>10, <1>a, <1>g, <1>h, <1>l, <2>1 DEF LoopTypeOK, VerifyFindsNothing, repairVars
<1>11. ASSUME NEW r \in Reports, VerifyEnds(r)
       PROVE  LoopTypeOK'
  BY <1>0, <1>11, <1>a, <1>g, <1>h DEF LoopTypeOK, VerifyEnds, repairVars
<1>12. ASSUME NEW r \in Reports, VerifyDies(r) \/ LoopStops(r)
       PROVE  LoopTypeOK'
  BY <1>0, <1>12, <1>a, <1>d, <1>l DEF LoopTypeOK, VerifyDies, LoopStops, reportVars,
       repairVars, checkVars
<1>13. ASSUME NEW l \in Reports, NEW e \in Executions, RepairBegins(l, e)
       PROVE  LoopTypeOK'
  BY <1>0, <1>13, <1>a, <1>d, <1>i, <1>l DEF LoopTypeOK, RepairBegins, reportVars, checkVars
<1>14. ASSUME NEW c \in Clients,
              ClientAdmitted(c) \/ ClientLooks(c) \/ ClientDies(c)
       PROVE  LoopTypeOK'
  BY <1>0, <1>14, <1>a, <1>c, <1>l DEF LoopTypeOK, ClientAdmitted, ClientLooks,
       ClientDies, reportVars, checkVars, loopVars, repairVars
<1>15. ASSUME NEW c \in Clients, NEW r \in Reports, ClientCreates(c, r)
       PROVE  LoopTypeOK'
  BY <1>0, <1>15, <1>a, <1>c, <1>f, <1>k, <1>l DEF LoopTypeOK, ClientCreates,
       checkVars, loopVars, repairVars
<1>16. ASSUME NEW c \in Clients, TemporalStarts(c) \/ StartAnswerLost(c) \/ ClientBlocked(c)
       PROVE  LoopTypeOK'
  <2>1. client[c].r \in Reports
    BY <1>16 DEF LoopInv, LoopRecords, Fresh, TemporalStarts, StartAnswerLost, ClientBlocked
  <2>2. CASE TemporalStarts(c) \/ StartAnswerLost(c)
    BY <1>0, <1>a, <1>c, <1>e, <1>l, <2>1, <2>2 DEF LoopTypeOK, TemporalStarts,
         StartAnswerLost, reportVars, checkVars, repairVars
  <2>3. CASE ClientBlocked(c)
    BY <1>0, <1>a, <1>c, <1>g, <1>l, <2>1, <2>3 DEF LoopTypeOK, ClientBlocked,
         loopVars, checkVars, repairVars
  <2>4. QED
    BY <1>16, <2>2, <2>3
<1>17. CASE UNCHANGED vars
  BY <1>0, <1>17 DEF LoopTypeOK, vars, verifyVars, reportVars, checkVars, loopVars, repairVars
<1>18. QED
  BY <1>1, <1>2, <1>3, <1>4, <1>5, <1>6, <1>7, <1>8, <1>9, <1>10, <1>11, <1>12,
     <1>13, <1>14, <1>15, <1>16, <1>17 DEF Next, RepairStepOf, LoopStepOf

\* Every row and record of a verification keeps its type.
LEMMA VerifyTypeNext == LoopInv /\ [Next]_vars => VerifyTypeOK'
  BY StepIsSeam, SeamTypeNext, LoopTypeNext DEF LoopInv, VerifyTypeOK, LoopTypeOK

-----------------------------------------------------------------------------
(* Steps that leave the reports, the loops and the repairs where they are *)

\* Everything in the records is typed.
LEMMA TypesOfLoop == LoopInv => LoopTypeOK /\ SeamTypeOK
  BY DEF LoopInv, VerifyTypeOK, LoopTypeOK

\* Files grow newer, a repair goes on, a request is given up or not sent.
Quiet ==
    /\ UNCHANGED <<status, number, parent, revision, staged, checking, answered,
                   loop, at, repairOf, before, after>>
    /\ workspace' \in Nat /\ workspace <= workspace'
    /\ \A e \in Executions :
        /\ fix'[e] = "ended" <=> fix[e] = "ended"
        /\ fix[e] = "none" => fix'[e] = "none"
    /\ \A c \in Clients : client'[c].step \in {"created", "unanswered"} => client'[c] = client[c]
    /\ faults' = 0 =>
        /\ faults = 0
        /\ \A c \in Clients : client[c].step = "created" => client'[c] = client[c]

LEMMA QuietKeeps ==
  ASSUME LoopInv, [SeamNext]_seamVars, Quiet
  PROVE  LoopRecords'
<1> USE LoopAssumption
<1>0. LoopTypeOK /\ LoopRecords /\ RowsKept
  BY TypesOfLoop, RowsStay DEF LoopInv
<1>q. /\ status' = status /\ number' = number /\ parent' = parent /\ revision' = revision
      /\ staged' = staged /\ checking' = checking /\ answered' = answered /\ loop' = loop
      /\ at' = at /\ repairOf' = repairOf /\ before' = before /\ after' = after
  BY DEF Quiet
<1>1. Fresh'
  <2>1. ASSUME NEW c \in Clients, client'[c].step \in {"created", "unanswered"}
        PROVE  client'[c].r \in Reports /\ status'[client'[c].r] # Absent
    BY <1>0, <1>q, <2>1 DEF Quiet, LoopRecords, Fresh
  <2>2. ASSUME NEW e \in Executions, ~Exists(e)'
        PROVE  repairOf'[e] = 0 /\ fix'[e] = "none"
    BY <1>0, <1>q, <2>2 DEF Quiet, LoopRecords, Fresh, RowsKept
  <2>3. QED
    BY <1>0, <1>q, <2>1, <2>2 DEF LoopRecords, Fresh, Started, InLoop
<1>2. Current'
  BY <1>0 DEF Quiet, LoopRecords, Current, Started, InLoop
<1>e. ASSUME NEW e \in Executions, NEW p
      PROVE  Effective(e, p)' <=> Effective(e, p)
  BY <1>q DEF Quiet, Effective
<1>3. Steps'
  BY <1>0, <1>q, <1>e DEF LoopRecords, Steps
<1>4. Answers'
  BY <1>0 DEF Quiet, LoopRecords, Answers
<1>5. Named'
  BY <1>0 DEF Quiet, LoopRecords, Named, LoopTypeOK, Versions
<1>6. Repairs'
  <2>1. ASSUME NEW e \in Executions
        PROVE  /\ before'[e] <= workspace' /\ after'[e] <= workspace'
               /\ fix'[e] = "ended" => before'[e] <= after'[e]
    <3>1. before[e] <= workspace /\ after[e] <= workspace
      BY <1>0 DEF LoopRecords, Repairs
    <3>2. workspace <= workspace' /\ workspace' \in Nat
      BY DEF Quiet
    <3>3. workspace \in Nat /\ before[e] \in Nat /\ after[e] \in Nat
      BY <1>0 DEF LoopTypeOK, Versions
    <3>4. before[e] <= workspace' /\ after[e] <= workspace'
      BY <3>1, <3>2, <3>3
    <3>5. QED
      BY <1>0, <1>q, <3>4 DEF LoopRecords, Repairs, Quiet
  <2>2. QED
    BY <1>0, <1>q, <2>1 DEF LoopRecords, Repairs
<1>7. Children'
  BY <1>0, <1>q, <1>e DEF LoopRecords, Children
<1>8. NothingStranded'
  <2>1. SUFFICES ASSUME faults' = 0
                 PROVE  NothingStranded'
    BY DEF NothingStranded
  <2>2. faults = 0 /\ NothingStranded
    BY <1>0, <2>1 DEF Quiet, LoopRecords
  <2>3. ASSUME NEW r \in Reports, status'[r] = "RUNNING"
        PROVE  \/ \E c \in Clients : client'[c].step = "created" /\ client'[c].r = r
               \/ \E l \in Reports : loop'[l] \in {"verify", "verifying"} /\ at'[l] = r
    BY <2>1, <2>2, <2>3 DEF Quiet, NothingStranded
  <2>4. ASSUME NEW e \in Executions, repairOf'[e] # 0, Active(e)'
        PROVE  \E l \in Reports : loop'[l] = "repairing" /\ at'[l] = repairOf'[e]
    <3>1. Exists(e)
      BY <1>0, <2>4 DEF Quiet, LoopRecords, Fresh
    <3>2. Active(e)
      BY <2>4, <3>1, TypesOfLoop, ActiveOnce
    <3>3. QED
      BY <2>2, <2>4, <3>2 DEF Quiet, NothingStranded
  <2>5. QED
    BY <2>3, <2>4 DEF NothingStranded
<1>9. QED
  BY <1>1, <1>2, <1>3, <1>4, <1>5, <1>6, <1>7, <1>8 DEF LoopRecords

LEMMA QuietSteps ==
  ASSUME LoopInv, Next,
         \/ FilesChange
         \/ \E e \in Executions :
             \/ BuildStarts(e) \/ BuildEnds(e) \/ BuildFindsActive(e)
             \/ RepairWorks(e) \/ RepairTurnEnds(e) \/ RepairWrites(e)
         \/ \E r \in Reports : ReportAges(r)
         \/ \E c \in Clients : ClientAdmitted(c) \/ ClientLooks(c) \/ ClientDies(c)
  PROVE  Quiet
<1> USE DEF Quiet, reportVars, checkVars, loopVars, repairVars, NoFault, Fault
<1>0. LoopTypeOK /\ workspace \in Nat /\ workspace <= workspace
  BY TypesOfLoop, LoopAssumption DEF LoopTypeOK, Versions
<1>a. ASSUME NEW c \in Clients, NEW step \in {"admitted", "idle", "clear"},
             MoveClient(c, step, 0)
      PROVE  \A d \in Clients :
                client'[d].step \in {"created", "unanswered"} => client'[d] = client[d]
  BY <1>0, <1>a DEF LoopTypeOK, MoveClient
<1>b. ASSUME NEW c \in Clients, NEW step \in {"admitted", "idle", "clear"},
             MoveClient(c, step, 0), client[c].step # "created"
      PROVE  \A d \in Clients : client[d].step = "created" => client'[d] = client[d]
  BY <1>0, <1>b DEF LoopTypeOK, MoveClient
<1>c. ASSUME NEW e \in Executions, NEW step \in {"working", "completed", "stopped"},
             fix[e] \in {"created", "working"}, MoveFix(e, step)
      PROVE  \A d \in Executions :
                /\ fix'[d] = "ended" <=> fix[d] = "ended"
                /\ fix[d] = "none" => fix'[d] = "none"
  BY <1>0, <1>c DEF LoopTypeOK, MoveFix
<1>1. ASSUME workspace' = workspace + 1
      PROVE  workspace' \in Nat /\ workspace <= workspace'
  BY <1>0, <1>1
<1>2. CASE FilesChange
  BY <1>1, <1>2 DEF FilesChange
<1>3. ASSUME NEW e \in Executions, BuildStarts(e) \/ BuildEnds(e) \/ BuildFindsActive(e)
      PROVE  Quiet
  BY <1>0, <1>3 DEF BuildStarts, BuildEnds, BuildFindsActive
<1>4. ASSUME NEW e \in Executions, RepairWorks(e) \/ RepairTurnEnds(e)
      PROVE  Quiet
  BY <1>0, <1>4, <1>c DEF RepairWorks, RepairTurnEnds
<1>5. ASSUME NEW e \in Executions, RepairWrites(e)
      PROVE  Quiet
  BY <1>1, <1>5 DEF RepairWrites
<1>6. ASSUME NEW r \in Reports, ReportAges(r)
      PROVE  Quiet
  BY <1>0, <1>6 DEF ReportAges
<1>7. ASSUME NEW c \in Clients, ClientAdmitted(c) \/ ClientLooks(c)
      PROVE  Quiet
  BY <1>0, <1>7, <1>a, <1>b DEF ClientAdmitted, ClientLooks
<1>8. ASSUME NEW c \in Clients, ClientDies(c)
      PROVE  Quiet
  <2>1. faults' # 0
    BY <1>0, <1>8 DEF ClientDies, LoopTypeOK
  <2>2. QED
    BY <1>0, <1>8, <1>a, <2>1 DEF ClientDies
<1>9. QED
  BY <1>2, <1>3, <1>4, <1>5, <1>6, <1>7, <1>8

-----------------------------------------------------------------------------
(* A first report, and the start of its loop *)

LEMMA ReportsCount == 0 \notin Reports
  BY LoopAssumption DEF Reports

\* Nothing refers to the row that is created next.
LEMMA NextIsFresh ==
  ASSUME LoopInv, NEW r \in Reports, status[r] = Absent
  PROVE  /\ ~InLoop(r) /\ answered[r] = Absent /\ r \notin checking
         /\ \A q \in Reports : parent[q] # r
         /\ \A l \in Reports : Started(l) => at[l] # r
         /\ \A c \in Clients : client[c].step \in {"created", "unanswered"} => client[c].r # r
         /\ \A e \in Executions : repairOf[e] # r
<1>1. Fresh /\ Repairs /\ LoopTypeOK
  BY TypesOfLoop DEF LoopInv, LoopRecords
<1>2. ~InLoop(r) /\ answered[r] = Absent /\ r \notin checking
  BY <1>1 DEF Fresh
<1>3. ASSUME NEW q \in Reports
      PROVE  parent[q] # r
  BY <1>1, ReportsCount DEF Fresh
<1>4. ASSUME NEW e \in Executions
      PROVE  repairOf[e] # r
  BY <1>1, <1>2, ReportsCount DEF Repairs, Absent
<1>5. QED
  BY <1>1, <1>2, <1>3, <1>4 DEF Fresh

\* Report r is the first of a verification, and nothing else happens to the
\* reports, the checks and the repairs.
FirstReport(r) ==
    /\ CreateReport(r, "RUNNING", 1, 0, 0)
    /\ UNCHANGED <<workspace, checkVars, repairVars, seamVars>>

LEMMA FirstReportKeeps ==
  ASSUME LoopInv, NEW r \in Reports, FirstReport(r)
  PROVE  Answers' /\ Named' /\ Repairs' /\ Children'
<1>0. LoopTypeOK /\ LoopRecords
  BY TypesOfLoop DEF LoopInv
<1>1. /\ status[r] = Absent
      /\ status' = [status EXCEPT ![r] = "RUNNING"]
      /\ number' = [number EXCEPT ![r] = 1]
      /\ parent' = [parent EXCEPT ![r] = 0]
      /\ revision' = [revision EXCEPT ![r] = 0]
      /\ workspace' = workspace /\ staged' = staged /\ checking' = checking
      /\ answered' = answered /\ repairOf' = repairOf /\ before' = before
      /\ after' = after /\ fix' = fix
  BY DEF FirstReport, CreateReport, IsNextReport, checkVars, repairVars
<1>2. /\ answered[r] = Absent /\ r \notin checking
      /\ \A q \in Reports : parent[q] # r
      /\ \A e \in Executions : repairOf[e] # r
  BY <1>1, NextIsFresh
<1>3. Answers'
  BY <1>0, <1>1, <1>2 DEF LoopRecords, Answers, LoopTypeOK
<1>4. Named'
  <2>1. 0 <= workspace
    BY <1>0, LoopAssumption DEF LoopTypeOK, Versions
  <2>2. QED
    BY <1>0, <1>1, <1>2, <2>1 DEF LoopRecords, Named, LoopTypeOK
<1>5. Repairs'
  BY <1>0, <1>1, <1>2 DEF LoopRecords, Repairs, LoopTypeOK
<1>6. Children'
  <2>1. \A e \in Executions : \A p : Effective(e, p)' <=> Effective(e, p)
    BY <1>1 DEF Effective
  <2>2. \A q \in Reports : parent'[q] # 0 => q # r /\ parent'[q] = parent[q] /\ parent[q] # r
    BY <1>0, <1>1, <1>2 DEF LoopTypeOK
  <2>3. QED
    BY <1>0, <1>1, <2>1, <2>2 DEF LoopRecords, Children, LoopTypeOK
<1>7. QED
  BY <1>3, <1>4, <1>5, <1>6

\* The loop of the new report, if one is started with it.
LEMMA FirstReportLoops ==
  ASSUME LoopInv, NEW r \in Reports, FirstReport(r),
         UNCHANGED loopVars \/ StartLoop(r)
  PROVE  /\ Steps'
         /\ \A q \in Reports : status'[q] = Absent =>
              ~InLoop(q)' /\ answered'[q] = Absent /\ q \notin checking'
         /\ \A q \in Reports : parent'[q] # 0 => status'[parent'[q]] # Absent
         /\ \A l \in Reports : Started(l)' => at'[l] \in Reports /\ status'[at'[l]] # Absent
         /\ \A l \in Reports :
              Started(l)' => /\ at'[l] = l \/ parent'[at'[l]] # 0
                             /\ \A q \in Reports : parent'[q] # at'[l]
         /\ \A l, m \in Reports : Started(l)' /\ Started(m)' /\ at'[l] = at'[m] => l = m
         /\ \A q \in Reports : answered'[q] # Absent \/ q \in checking' => InLoop(q)'
         /\ \A q \in Reports : parent'[q] # 0 => InLoop(parent[q])'
         /\ \A q \in Reports : q # r => InLoop(q)' = InLoop(q)
         /\ UNCHANGED loopVars => ~InLoop(r)'
<1>0. LoopTypeOK /\ LoopRecords
  BY TypesOfLoop DEF LoopInv
<1>1. /\ status[r] = Absent
      /\ status' = [status EXCEPT ![r] = "RUNNING"]
      /\ number' = [number EXCEPT ![r] = 1]
      /\ parent' = [parent EXCEPT ![r] = 0]
      /\ checking' = checking
      /\ answered' = answered /\ repairOf' = repairOf /\ before' = before
      /\ after' = after /\ fix' = fix
  BY DEF FirstReport, CreateReport, IsNextReport, checkVars, repairVars
<1>2. /\ ~InLoop(r) /\ answered[r] = Absent /\ r \notin checking
      /\ \A q \in Reports : parent[q] # r
      /\ \A l \in Reports : Started(l) => at[l] # r
      /\ \A e \in Executions : repairOf[e] # r
  BY <1>1, NextIsFresh
<1>3. \A e \in Executions : \A p : Effective(e, p)' <=> Effective(e, p)
  BY <1>1 DEF Effective
<1>4. \A q \in Reports : q # r =>
        /\ status'[q] = status[q] /\ number'[q] = number[q] /\ parent'[q] = parent[q]
        /\ loop'[q] = loop[q] /\ at'[q] = at[q]
  BY <1>0, <1>1 DEF LoopTypeOK, loopVars, StartLoop, MoveLoop
<1>5. /\ status'[r] = "RUNNING" /\ parent'[r] = 0
      /\ \/ loop'[r] = "absent"
         \/ loop'[r] = "verify" /\ at'[r] = r
  BY <1>0, <1>1, <1>2 DEF LoopTypeOK, loopVars, StartLoop, MoveLoop, InLoop, Started
<1>6. Steps'
  BY <1>0, <1>1, <1>2, <1>3, <1>4, <1>5 DEF LoopRecords, Steps, Fresh, Started
<1>7. \A q \in Reports : q # r => InLoop(q)' = InLoop(q)
  BY <1>4 DEF InLoop, Started
<1>8. \A l \in Reports : Started(l)' => (l = r /\ at'[l] = r) \/ (Started(l) /\ l # r /\ at'[l] = at[l])
  BY <1>4, <1>5 DEF Started
<1>9. \A q \in Reports : parent'[q] # 0 => q # r /\ parent'[q] = parent[q] /\ parent[q] # r
  BY <1>2, <1>4, <1>5
<1>10. \A q \in Reports : status'[q] = Absent =>
            ~InLoop(q)' /\ answered'[q] = Absent /\ q \notin checking'
  BY <1>0, <1>1, <1>4, <1>5, <1>7 DEF LoopRecords, Fresh, Absent
<1>11. \A q \in Reports : parent'[q] # 0 => status'[parent'[q]] # Absent
  BY <1>0, <1>1, <1>9 DEF LoopRecords, Fresh, LoopTypeOK
<1>12. \A l \in Reports : Started(l)' => at'[l] \in Reports /\ status'[at'[l]] # Absent
  BY <1>0, <1>1, <1>2, <1>8, <1>5, <1>4 DEF LoopRecords, Fresh, Absent
<1>13. \A l \in Reports :
            Started(l)' => /\ at'[l] = l \/ parent'[at'[l]] # 0
                           /\ \A q \in Reports : parent'[q] # at'[l]
  <2>1. ASSUME NEW l \in Reports, Started(l)'
        PROVE  at'[l] = l \/ parent'[at'[l]] # 0
    BY <1>0, <1>2, <1>4, <1>8, <2>1 DEF LoopRecords, Fresh, Current
  <2>2. ASSUME NEW l \in Reports, Started(l)', NEW q \in Reports
        PROVE  parent'[q] # at'[l]
    <3>1. at'[l] # 0
      BY <1>12, <2>2, ReportsCount
    <3>2. QED
      BY <1>0, <1>2, <1>4, <1>5, <1>8, <2>2, <3>1 DEF LoopRecords, Current
  <2>3. QED
    BY <2>1, <2>2
<1>14. \A l, m \in Reports : Started(l)' /\ Started(m)' /\ at'[l] = at'[m] => l = m
  BY <1>0, <1>2, <1>8 DEF LoopRecords, Current
<1>15. \A q \in Reports : answered'[q] # Absent \/ q \in checking' => InLoop(q)'
  BY <1>0, <1>1, <1>2, <1>7 DEF LoopRecords, Current
<1>16. \A q \in Reports : parent'[q] # 0 => InLoop(parent[q])'
  BY <1>0, <1>7, <1>9 DEF LoopRecords, Current, LoopTypeOK
<1>17. UNCHANGED loopVars => ~InLoop(r)'
  BY <1>2, <1>5 DEF InLoop, Started, loopVars
<1>18. QED
  BY <1>6, <1>7, <1>10, <1>11, <1>12, <1>13, <1>14, <1>15, <1>16, <1>17

\* The requests that hold a report, after a step that creates report r.
LEMMA FirstReportRecords ==
  ASSUME LoopInv, NEW r \in Reports, FirstReport(r),
         UNCHANGED loopVars \/ StartLoop(r),
         NEW claims \in SUBSET Clients,
         \A c \in claims : client'[c].r = r /\ client'[c].step = "created",
         claims # {} => UNCHANGED loopVars,
         \A c, d \in claims : c = d,
         \A c \in Clients \ claims : client'[c] = client[c],
         \A c \in claims : client[c].step # "created",
         faults' = 0 => faults = 0 /\ (claims # {} \/ ~UNCHANGED loopVars)
  PROVE  LoopRecords'
<1>0. LoopTypeOK /\ LoopRecords
  BY TypesOfLoop DEF LoopInv
<1>1. /\ status[r] = Absent
      /\ status' = [status EXCEPT ![r] = "RUNNING"]
      /\ fix' = fix /\ repairOf' = repairOf /\ execution' = execution
  BY DEF FirstReport, CreateReport, IsNextReport, checkVars, repairVars, seamVars
<1>2. \A c \in Clients : client[c].step \in {"created", "unanswered"} => client[c].r # r
  BY <1>1, NextIsFresh
<1>3. Answers' /\ Named' /\ Repairs' /\ Children' /\ Steps'
  BY FirstReportKeeps, FirstReportLoops
<1>4. Fresh'
  <2>1. ASSUME NEW c \in Clients, client'[c].step \in {"created", "unanswered"}
        PROVE  client'[c].r \in Reports /\ status'[client'[c].r] # Absent
    <3>1. CASE c \in claims
      BY <1>0, <1>1, <3>1 DEF LoopTypeOK, Absent
    <3>2. CASE c \notin claims
      BY <1>0, <1>1, <1>2, <2>1, <3>2 DEF LoopTypeOK, LoopRecords, Fresh
    <3>3. QED
      BY <3>1, <3>2
  <2>2. \A e \in Executions : ~Exists(e)' => repairOf'[e] = 0 /\ fix'[e] = "none"
    BY <1>0, <1>1 DEF LoopRecords, Fresh, Exists
  <2>3. QED
    BY <2>1, <2>2, FirstReportLoops DEF Fresh
<1>5. Current'
  <2>1. ASSUME NEW c \in Clients, client'[c].step = "created"
        PROVE  ~InLoop(client[c].r)'
    <3>1. CASE c \in claims
      BY <3>1, FirstReportLoops
    <3>2. CASE c \notin claims
      <4>1. client'[c] = client[c] /\ client[c].r \in Reports /\ client[c].r # r
        BY <1>0, <1>2, <2>1, <3>2 DEF LoopRecords, Fresh
      <4>2. ~InLoop(client[c].r)
        BY <1>0, <2>1, <4>1 DEF LoopRecords, Current
      <4>3. QED
        BY <4>1, <4>2, FirstReportLoops
    <3>3. QED
      BY <3>1, <3>2
  <2>2. ASSUME NEW c \in Clients, NEW d \in Clients, client'[c].step = "created",
               client'[d].step = "created", client'[c].r = client'[d].r
        PROVE  c = d
    BY <1>0, <1>2, <2>2 DEF LoopRecords, Current
  <2>3. QED
    BY <2>1, <2>2, FirstReportLoops DEF Current
<1>6. NothingStranded'
  <2>1. SUFFICES ASSUME faults' = 0
                 PROVE  NothingStranded'
    BY DEF NothingStranded
  <2>2. faults = 0 /\ NothingStranded /\ (claims # {} \/ ~UNCHANGED loopVars)
    BY <1>0, <2>1 DEF LoopRecords
  <2>a. \A l \in Reports : Started(l) => l # r /\ loop'[l] = loop[l] /\ at'[l] = at[l]
    <3>1. ~Started(r)
      BY <1>1, NextIsFresh DEF InLoop
    <3>2. QED
      BY <1>0, <3>1 DEF LoopTypeOK, loopVars, StartLoop, MoveLoop
  <2>3. ASSUME NEW q \in Reports, status'[q] = "RUNNING"
        PROVE  \/ \E c \in Clients : client'[c].step = "created" /\ client'[c].r = q
               \/ \E l \in Reports : loop'[l] \in {"verify", "verifying"} /\ at'[l] = q
    <3>1. CASE q = r /\ claims # {}
      BY <3>1
    <3>2. CASE q = r /\ claims = {}
      <4>1. StartLoop(r)
        BY <2>2, <3>2
      <4>2. loop'[r] = "verify" /\ at'[r] = r
        BY <1>0, <4>1 DEF StartLoop, MoveLoop, LoopTypeOK
      <4>3. QED
        BY <3>2, <4>2
    <3>3. CASE q # r
      <4>1. status[q] = "RUNNING"
        BY <1>0, <1>1, <2>3, <3>3 DEF LoopTypeOK
      <4>2. CASE \E c \in Clients : client[c].step = "created" /\ client[c].r = q
        BY <4>2
      <4>3. CASE \E l \in Reports : loop[l] \in {"verify", "verifying"} /\ at[l] = q
        BY <2>a, <4>3 DEF Started
      <4>4. QED
        BY <2>2, <4>1, <4>2, <4>3 DEF NothingStranded
    <3>4. QED
      BY <3>1, <3>2, <3>3
  <2>4. ASSUME NEW e \in Executions, repairOf'[e] # 0, Active(e)'
        PROVE  \E l \in Reports : loop'[l] = "repairing" /\ at'[l] = repairOf'[e]
    <3>1. repairOf[e] # 0 /\ Active(e) /\ repairOf'[e] = repairOf[e]
      BY <1>1, <2>4 DEF Active
    <3>2. PICK l \in Reports : loop[l] = "repairing" /\ at[l] = repairOf[e]
      BY <2>2, <3>1 DEF NothingStranded
    <3>3. QED
      BY <2>a, <3>1, <3>2 DEF Started
  <2>5. QED
    BY <2>3, <2>4 DEF NothingStranded
<1>7. QED
  BY <1>3, <1>4, <1>5, <1>6 DEF LoopRecords

LEMMA FirstReportSteps ==
  ASSUME LoopInv, NEW r \in Reports,
         \/ \E c \in Clients : ClientCreates(c, r)
         \/ \E e \in Executions : BuildAsks(e, r) \/ BuildAnswerLost(e, r)
  PROVE  LoopRecords'
<1>0. LoopTypeOK
  BY TypesOfLoop
<1>1. ASSUME NEW c \in Clients, ClientCreates(c, r)
      PROVE  LoopRecords'
  <2>1. FirstReport(r) /\ UNCHANGED loopVars /\ faults' = faults
    BY <1>1 DEF ClientCreates, FirstReport, NoFault
  <2>2. /\ client'[c].r = r /\ client'[c].step = "created" /\ client[c].step = "clear"
        /\ \A d \in Clients : d # c => client'[d] = client[d]
    BY <1>0, <1>1 DEF ClientCreates, MoveClient, LoopTypeOK
  <2>3. {c} \in SUBSET Clients
    OBVIOUS
  <2>4. QED
    BY <2>1, <2>2, <2>3, FirstReportRecords
<1>2. ASSUME NEW e \in Executions, BuildAsks(e, r)
      PROVE  LoopRecords'
  <2>1. FirstReport(r) /\ StartLoop(r) /\ faults' = faults /\ client' = client
    BY <1>2 DEF BuildAsks, FirstReport, NoFault
  <2>2. loop[r] = "absent" /\ loop'[r] = "verify"
    <3>1. status[r] = Absent
      BY <2>1 DEF FirstReport, CreateReport, IsNextReport
    <3>2. QED
      BY <1>0, <2>1, <3>1, NextIsFresh DEF StartLoop, MoveLoop, LoopTypeOK, InLoop, Started
  <2>3. ~UNCHANGED loopVars
    BY <2>2 DEF loopVars
  <2>4. {} \in SUBSET Clients
    OBVIOUS
  <2>5. QED
    BY <2>1, <2>3, <2>4, FirstReportRecords
<1>3. ASSUME NEW e \in Executions, BuildAnswerLost(e, r)
      PROVE  LoopRecords'
  <2>1. FirstReport(r) /\ UNCHANGED loopVars /\ client' = client
    BY <1>3 DEF BuildAnswerLost, FirstReport
  <2>2. faults' # 0
    BY <1>0, <1>3 DEF BuildAnswerLost, Fault, LoopTypeOK
  <2>3. {} \in SUBSET Clients
    OBVIOUS
  <2>4. QED
    BY <2>1, <2>2, <2>3, FirstReportRecords
<1>4. QED
  BY <1>1, <1>2, <1>3

-----------------------------------------------------------------------------
(* The start of a loop by a request, and a request that is blocked *)

LEMMA RequestStarts ==
  ASSUME LoopInv, NEW c \in Clients, TemporalStarts(c) \/ StartAnswerLost(c)
  PROVE  LoopRecords'
<1> DEFINE r == client[c].r
<1>0. LoopTypeOK /\ LoopRecords
  BY TypesOfLoop DEF LoopInv
<1>1. /\ client[c].step = "created"
      /\ StartLoop(r)
      /\ status' = status /\ number' = number /\ parent' = parent /\ revision' = revision
      /\ staged' = staged /\ checking' = checking /\ answered' = answered
      /\ repairOf' = repairOf /\ before' = before /\ after' = after /\ fix' = fix
      /\ workspace' = workspace /\ execution' = execution
  BY DEF TemporalStarts, StartAnswerLost, reportVars, checkVars, repairVars, seamVars
<1>2. /\ r \in Reports /\ status[r] # Absent /\ ~InLoop(r)
      /\ answered[r] = Absent /\ r \notin checking
      /\ \A q \in Reports : parent[q] # r
      /\ \A l \in Reports : Started(l) => at[l] # r /\ l # r
  <2>1. r \in Reports /\ status[r] # Absent /\ ~InLoop(r)
    BY <1>0, <1>1 DEF LoopRecords, Fresh, Current
  <2>2. answered[r] = Absent /\ r \notin checking
    BY <1>0, <2>1 DEF LoopRecords, Current
  <2>3. \A q \in Reports : parent[q] # r
    BY <1>0, <2>1, ReportsCount DEF LoopRecords, Current
  <2>4. \A l \in Reports : Started(l) => at[l] # r /\ l # r
    BY <1>0, <2>1 DEF LoopRecords, Current, InLoop
  <2>5. QED
    BY <2>1, <2>2, <2>3, <2>4
<1> HIDE DEF r
<1>3. /\ loop'[r] = "verify" /\ at'[r] = r
      /\ \A l \in Reports : l # r => loop'[l] = loop[l] /\ at'[l] = at[l]
  BY <1>0, <1>1, <1>2 DEF StartLoop, MoveLoop, LoopTypeOK
<1>4. \A d \in Clients :
        /\ d # c => client'[d] = client[d]
        /\ client'[d].step = "created" => d # c
        /\ client'[d].step = "unanswered" /\ d = c => client'[d].r = r
  BY <1>0 DEF LoopTypeOK, TemporalStarts, StartAnswerLost, MoveClient, r
<1>5. \A e \in Executions : \A p : Effective(e, p)' <=> Effective(e, p)
  BY <1>1 DEF Effective
<1>6. Fresh'
  <2>1. \A d \in Clients : client'[d].step \in {"created", "unanswered"} =>
            client'[d].r \in Reports /\ status'[client'[d].r] # Absent
    BY <1>0, <1>1, <1>2, <1>4 DEF LoopRecords, Fresh
  <2>2. \A e \in Executions : ~Exists(e)' => repairOf'[e] = 0 /\ fix'[e] = "none"
    BY <1>0, <1>1 DEF LoopRecords, Fresh, Exists
  <2>3. QED
    BY <1>0, <1>1, <1>2, <1>3, <2>1, <2>2 DEF LoopRecords, Fresh, InLoop, Started
<1>7. \A q \in Reports : InLoop(q)' <=> q = r \/ InLoop(q)
  BY <1>1, <1>3 DEF InLoop, Started
<1>8. Current'
  <2>1. ASSUME NEW d \in Clients, client'[d].step = "created"
        PROVE  ~InLoop(client[d].r)'
    <3>1. client'[d] = client[d] /\ client[d].r # r /\ client[d].r \in Reports /\ ~InLoop(client[d].r)
      BY <1>0, <1>1, <1>4, <2>1 DEF LoopRecords, Current, Fresh, r
    <3>2. QED
      BY <1>7, <3>1
  <2>2. ASSUME NEW d \in Clients, NEW b \in Clients, client'[d].step = "created",
               client'[b].step = "created", client'[d].r = client'[b].r
        PROVE  d = b
    BY <1>0, <1>4, <2>2 DEF LoopRecords, Current
  <2>3. \A l \in Reports : Started(l)' => (l = r /\ at'[l] = r) \/ (Started(l) /\ l # r /\ at'[l] = at[l])
    BY <1>3 DEF Started
  <2>4. \A l \in Reports :
            Started(l)' => /\ at'[l] = l \/ parent'[at'[l]] # 0
                           /\ \A q \in Reports : parent'[q] # at'[l]
    BY <1>0, <1>1, <1>2, <2>3 DEF LoopRecords, Current
  <2>5. \A l, m \in Reports : Started(l)' /\ Started(m)' /\ at'[l] = at'[m] => l = m
    BY <1>0, <1>2, <2>3 DEF LoopRecords, Current
  <2>6. \A q \in Reports : answered'[q] # Absent \/ q \in checking' => InLoop(q)'
    BY <1>0, <1>1, <1>7 DEF LoopRecords, Current
  <2>7. \A q \in Reports : parent'[q] # 0 => InLoop(parent[q])'
    BY <1>0, <1>1, <1>7 DEF LoopRecords, Current, LoopTypeOK
  <2>8. QED
    BY <2>1, <2>2, <2>4, <2>5, <2>6, <2>7 DEF Current
<1>9. Steps'
  BY <1>0, <1>1, <1>2, <1>3, <1>5 DEF LoopRecords, Steps, Fresh, Started
<1>10. Answers' /\ Named' /\ Repairs'
  BY <1>0, <1>1 DEF LoopRecords, Answers, Named, Repairs
<1>11. Children'
  BY <1>0, <1>1, <1>5 DEF LoopRecords, Children
<1>12. NothingStranded'
  <2>1. SUFFICES ASSUME faults' = 0
                 PROVE  NothingStranded'
    BY DEF NothingStranded
  <2>2. faults = 0
    BY <1>0, <2>1 DEF TemporalStarts, StartAnswerLost, NoFault, Fault, LoopTypeOK
  <2>3. ASSUME NEW q \in Reports, status'[q] = "RUNNING"
        PROVE  \/ \E d \in Clients : client'[d].step = "created" /\ client'[d].r = q
               \/ \E l \in Reports : loop'[l] \in {"verify", "verifying"} /\ at'[l] = q
    <3>1. CASE q = r
      BY <1>2, <1>3, <3>1
    <3>2. CASE q # r
      <4>1. CASE \E d \in Clients : client[d].step = "created" /\ client[d].r = q
        BY <1>4, <3>2, <4>1 DEF r
      <4>2. CASE \E l \in Reports : loop[l] \in {"verify", "verifying"} /\ at[l] = q
        BY <1>2, <1>3, <4>2 DEF Started
      <4>3. QED
        BY <1>0, <1>1, <2>2, <2>3, <4>1, <4>2 DEF LoopRecords, NothingStranded
    <3>3. QED
      BY <3>1, <3>2
  <2>4. ASSUME NEW e \in Executions, repairOf'[e] # 0, Active(e)'
        PROVE  \E l \in Reports : loop'[l] = "repairing" /\ at'[l] = repairOf'[e]
    <3>1. repairOf[e] # 0 /\ Active(e) /\ repairOf'[e] = repairOf[e]
      BY <1>1, <2>4 DEF Active
    <3>2. PICK l \in Reports : loop[l] = "repairing" /\ at[l] = repairOf[e]
      BY <1>0, <2>2, <3>1 DEF LoopRecords, NothingStranded
    <3>3. QED
      BY <1>2, <1>3, <3>1, <3>2 DEF Started
  <2>5. QED
    BY <2>3, <2>4 DEF NothingStranded
<1>13. QED
  BY <1>6, <1>8, <1>9, <1>10, <1>11, <1>12 DEF LoopRecords

LEMMA RequestBlocked ==
  ASSUME LoopInv, NEW c \in Clients, ClientBlocked(c)
  PROVE  LoopRecords'
<1> DEFINE r == client[c].r
<1>0. LoopTypeOK /\ LoopRecords
  BY TypesOfLoop DEF LoopInv
<1>1. /\ status' = [status EXCEPT ![r] = "BLOCKED"]
      /\ number' = number /\ parent' = parent /\ revision' = revision
      /\ staged' = staged /\ checking' = checking /\ answered' = answered
      /\ loop' = loop /\ at' = at
      /\ repairOf' = repairOf /\ before' = before /\ after' = after /\ fix' = fix
      /\ workspace' = workspace /\ execution' = execution /\ faults' = faults
  BY DEF ClientBlocked, Stamp, NoFault, checkVars, loopVars, repairVars, seamVars
<1>2. /\ client'[c].step = "idle"
      /\ \A d \in Clients : d # c => client'[d] = client[d]
  BY <1>0 DEF ClientBlocked, MoveClient, LoopTypeOK
<1>3. r \in Reports /\ status[r] # Absent
  BY <1>0 DEF ClientBlocked, LoopRecords, Fresh
<1> HIDE DEF r
<1>4. \A e \in Executions : \A p : Effective(e, p)' <=> Effective(e, p)
  BY <1>1 DEF Effective
<1>5. Fresh'
  <2>1. \A q \in Reports : status'[q] = Absent <=> status[q] = Absent
    BY <1>0, <1>1, <1>3 DEF LoopTypeOK, Absent
  <2>2. \A e \in Executions : ~Exists(e)' => repairOf'[e] = 0 /\ fix'[e] = "none"
    BY <1>0, <1>1 DEF LoopRecords, Fresh, Exists
  <2>3. \A d \in Clients : client'[d].step \in {"created", "unanswered"} =>
            client'[d].r \in Reports /\ status'[client'[d].r] # Absent
    BY <1>0, <1>2, <2>1 DEF LoopRecords, Fresh
  <2>4. \A q \in Reports : parent'[q] # 0 => status'[parent'[q]] # Absent
    BY <1>0, <1>1, <2>1 DEF LoopRecords, Fresh, LoopTypeOK
  <2>5. QED
    BY <1>0, <1>1, <2>1, <2>2, <2>3, <2>4 DEF LoopRecords, Fresh, Started, InLoop
<1>6. Current'
  <2>1. \A d \in Clients : client'[d].step = "created" => client'[d] = client[d]
    BY <1>2
  <2>2. QED
    BY <1>0, <1>1, <2>1 DEF LoopRecords, Current, Started, InLoop
<1>7. Steps' /\ Children'
  BY <1>0, <1>1, <1>4 DEF LoopRecords, Steps, Children
<1>8. Answers'
  BY <1>0, <1>1 DEF LoopRecords, Answers, LoopTypeOK
<1>9. Named' /\ Repairs'
  BY <1>0, <1>1 DEF LoopRecords, Named, Repairs, LoopTypeOK
<1>10. NothingStranded'
  <2>1. \A q \in Reports : status'[q] = "RUNNING" => q # r /\ status[q] = "RUNNING"
    BY <1>0, <1>1 DEF LoopTypeOK
  <2>2. \A d \in Clients : client[d].step = "created" /\ client[d].r # r => client'[d] = client[d]
    BY <1>2 DEF r
  <2>3. QED
    BY <1>0, <1>1, <2>1, <2>2 DEF LoopRecords, NothingStranded, Active
<1>11. QED
  BY <1>5, <1>6, <1>7, <1>8, <1>9, <1>10 DEF LoopRecords

-----------------------------------------------------------------------------
(* runVerificationActivity *)

\* The first look at a report, or at a repaired workspace: a new snapshot.
LEMMA VerifyBeginsKeeps ==
  ASSUME LoopInv, NEW l \in Reports, NEW r \in Reports, VerifyBegins(l, r)
  PROVE  LoopRecords'
<1>0. LoopTypeOK /\ LoopRecords
  BY TypesOfLoop DEF LoopInv
<1>1. /\ loop[l] = "verify" /\ loop' = [loop EXCEPT ![l] = "verifying"]
      /\ at' = [at EXCEPT ![l] = r]
      /\ staged' = [staged EXCEPT ![r] = workspace]
      /\ checking' = checking \union {r}
      /\ status' = [status EXCEPT ![r] = "RUNNING"]
      /\ revision' = [revision EXCEPT ![r] = workspace]
      /\ answered' = answered /\ client' = client
      /\ repairOf' = repairOf /\ before' = before /\ after' = after /\ fix' = fix
      /\ workspace' = workspace /\ execution' = execution /\ faults' = faults
  BY DEF VerifyBegins, MoveLoop, CreateReport, NoFault, repairVars, seamVars
<1>2. /\ at[l] \in Reports /\ status[at[l]] # Absent
      /\ \A m \in Reports : Started(m) /\ m # l => at[m] # at[l]
      /\ \A q \in Reports : parent[q] # at[l]
      /\ InLoop(at[l])
  BY <1>0, <1>1 DEF LoopRecords, Fresh, Current, Started, InLoop
<1>3. \A e \in Executions : \A p : Effective(e, p)' <=> Effective(e, p)
  BY <1>1 DEF Effective
<1>4. \/ /\ ~Repaired(l) /\ r = at[l]
         /\ number' = number /\ parent' = parent
      \/ /\ Repaired(l) /\ status[r] = Absent
         /\ number' = [number EXCEPT ![r] = number[at[l]] + 1]
         /\ parent' = [parent EXCEPT ![r] = at[l]]
  BY DEF VerifyBegins, CreateReport, IsNextReport
<1>5. /\ answered[r] = Absent
      /\ \A e \in Executions : repairOf[e] # r
      /\ \A q \in Reports : parent[q] # r
      /\ \A m \in Reports : Started(m) /\ m # l => at[m] # r
  <2>1. CASE Repaired(l)
    BY <1>4, <2>1, NextIsFresh
  <2>2. CASE ~Repaired(l)
    BY <1>0, <1>2, <1>4, <2>2, ReportsCount DEF LoopRecords, Repairs, Repaired, Absent
  <2>3. QED
    BY <2>1, <2>2
<1>6. \A m \in Reports :
        /\ Started(m)' <=> Started(m)
        /\ m # l => loop'[m] = loop[m] /\ at'[m] = at[m]
        /\ loop'[l] = "verifying" /\ at'[l] = r
  BY <1>0, <1>1 DEF LoopTypeOK, Started
<1>7. /\ \A q \in Reports : q # r => number'[q] = number[q] /\ parent'[q] = parent[q]
                                  /\ status'[q] = status[q] /\ revision'[q] = revision[q]
      /\ status'[r] = "RUNNING" /\ revision'[r] = workspace /\ staged'[r] = workspace
      /\ \A q \in Reports : q # r => staged'[q] = staged[q]
  BY <1>0, <1>1, <1>4 DEF LoopTypeOK
<1>8. \/ parent'[r] = parent[r] /\ number'[r] = number[r] /\ r = at[l]
      \/ /\ parent'[r] = at[l] /\ number'[r] = number[at[l]] + 1
         /\ status[r] = Absent /\ r # at[l] /\ Repaired(l)
  BY <1>0, <1>2, <1>4 DEF LoopTypeOK
<1>9. \A q \in Reports : InLoop(q) => InLoop(q)'
  BY <1>6, <1>7, <1>8, <1>2, ReportsCount DEF InLoop
<1>10. \A q \in Reports : q # r => (InLoop(q)' <=> InLoop(q))
  BY <1>6, <1>7 DEF InLoop
<1>11. InLoop(r)'
  BY <1>2, <1>8, <1>9, ReportsCount DEF InLoop
<1>12. Fresh'
  <2>1. \A q \in Reports : status'[q] = Absent =>
            ~InLoop(q)' /\ answered'[q] = Absent /\ q \notin checking'
    BY <1>0, <1>1, <1>7, <1>10 DEF LoopRecords, Fresh, Absent
  <2>2. \A q \in Reports : status[q] # Absent => status'[q] # Absent
    BY <1>7 DEF Absent
  <2>3. \A q \in Reports : parent'[q] # 0 => status'[parent'[q]] # Absent
    BY <1>0, <1>2, <1>7, <1>8, <2>2 DEF LoopRecords, Fresh, LoopTypeOK
  <2>4. \A m \in Reports : Started(m)' => at'[m] \in Reports /\ status'[at'[m]] # Absent
    BY <1>0, <1>6, <1>7, <2>2 DEF LoopRecords, Fresh, Absent
  <2>5. \A c \in Clients : client'[c].step \in {"created", "unanswered"} =>
            client'[c].r \in Reports /\ status'[client'[c].r] # Absent
    BY <1>0, <1>1, <2>2 DEF LoopRecords, Fresh
  <2>6. \A e \in Executions : ~Exists(e)' => repairOf'[e] = 0 /\ fix'[e] = "none"
    BY <1>0, <1>1 DEF LoopRecords, Fresh, Exists
  <2>7. QED
    BY <2>1, <2>3, <2>4, <2>5, <2>6 DEF Fresh
<1>13. Current'
  <2>1. ASSUME NEW m \in Reports, Started(m)'
        PROVE  at'[m] = m \/ parent'[at'[m]] # 0
    <3>1. CASE m # l
      BY <1>0, <1>5, <1>6, <1>7, <2>1, <3>1 DEF LoopRecords, Fresh, Current
    <3>2. CASE m = l
      BY <1>0, <1>1, <1>2, <1>6, <1>8, <2>1, <3>2, ReportsCount DEF LoopRecords, Current, Started
    <3>3. QED
      BY <3>1, <3>2
  <2>2. ASSUME NEW m \in Reports, Started(m)', NEW q \in Reports
        PROVE  parent'[q] # at'[m]
    <3>1. CASE q # r
      BY <1>0, <1>5, <1>6, <1>7, <2>2, <3>1 DEF LoopRecords, Current
    <3>2. CASE q = r
      BY <1>0, <1>2, <1>5, <1>6, <1>8, <2>2, <3>2 DEF LoopRecords, Current
    <3>3. QED
      BY <3>1, <3>2
  <2>3. \A m, n \in Reports : Started(m)' /\ Started(n)' /\ at'[m] = at'[n] => m = n
    BY <1>0, <1>5, <1>6 DEF LoopRecords, Current
  <2>4. \A q \in Reports : answered'[q] # Absent \/ q \in checking' => InLoop(q)'
    BY <1>0, <1>1, <1>9, <1>11 DEF LoopRecords, Current
  <2>5. \A q \in Reports : parent'[q] # 0 => InLoop(parent[q])'
    BY <1>0, <1>2, <1>7, <1>8, <1>9 DEF LoopRecords, Current, LoopTypeOK
  <2>6. ASSUME NEW c \in Clients, client'[c].step = "created"
        PROVE  ~InLoop(client[c].r)'
    <3>1. client[c].r \in Reports /\ ~InLoop(client[c].r) /\ status[client[c].r] # Absent
      BY <1>0, <1>1, <2>6 DEF LoopRecords, Fresh, Current
    <3>2. client[c].r # r
      BY <1>2, <1>8, <3>1
    <3>3. QED
      BY <1>1, <1>10, <3>1, <3>2
  <2>7. QED
    BY <1>0, <1>1, <2>1, <2>2, <2>3, <2>4, <2>5, <2>6 DEF LoopRecords, Current
<1>14. Steps'
  <2>1. ASSUME NEW m \in Reports
        PROVE  /\ loop'[m] = "verify" => at'[m] \notin checking'
               /\ loop'[m] = "verifying" => answered'[at'[m]] = Absent
    BY <1>0, <1>1, <1>5, <1>6 DEF LoopRecords, Steps, Started
  <2>2. ASSUME NEW m \in Reports, m # l, loop[m] # "absent"
        PROVE  number'[at'[m]] = number[at[m]] /\ at'[m] = at[m] /\ at[m] # r
    BY <1>0, <1>5, <1>6, <1>7, <2>2 DEF LoopRecords, Fresh, Started
  <2>3. QED
    BY <1>0, <1>1, <1>3, <1>6, <2>1, <2>2 DEF LoopRecords, Steps
<1>15. Answers'
  BY <1>0, <1>1, <1>5, <1>7 DEF LoopRecords, Answers
<1>16. Named'
  <2>1. workspace <= workspace
    BY <1>0, LoopAssumption DEF LoopTypeOK, Versions
  <2>2. QED
    BY <1>0, <1>1, <1>7, <2>1 DEF LoopRecords, Named
<1>17. Repairs'
  BY <1>0, <1>1, <1>5, <1>7, ReportsCount DEF LoopRecords, Repairs, LoopTypeOK
<1>18. Children'
  <2>1. ASSUME NEW q \in Reports, parent'[q] # 0
        PROVE  number'[q] = number'[parent'[q]] + 1
    <3>1. CASE parent'[q] = parent[q] /\ number'[q] = number[q]
      <4>1. parent[q] \in Reports /\ parent[q] # r
        BY <1>0, <1>5, <2>1, <3>1 DEF LoopTypeOK
      <4>2. QED
        BY <1>0, <1>7, <2>1, <3>1, <4>1 DEF LoopRecords, Children
    <3>2. CASE q = r /\ parent'[r] = at[l] /\ number'[r] = number[at[l]] + 1 /\ r # at[l]
      BY <1>2, <1>7, <3>2
    <3>3. QED
      BY <1>7, <1>8, <3>1, <3>2
  <2>2. ASSUME NEW p \in Reports, NEW q \in Reports, parent'[p] # 0, parent'[q] = parent'[p]
        PROVE  q = p
    BY <1>0, <1>2, <1>7, <1>8, <2>2 DEF LoopRecords, Children
  <2>3. ASSUME NEW q \in Reports, parent'[q] # 0
        PROVE  \E e \in Executions : Effective(e, parent[q])' /\ after'[e] <= revision'[q]
    <3>1. CASE parent'[q] = parent[q] /\ q # r
      BY <1>0, <1>1, <1>3, <1>7, <2>3, <3>1 DEF LoopRecords, Children
    <3>2. CASE q = r
      <4>1. \A e \in Executions : after'[e] <= revision'[r]
        BY <1>0, <1>1, <1>7 DEF LoopRecords, Repairs
      <4>2. CASE parent'[r] = parent[r]
        BY <1>0, <1>3, <2>3, <3>2, <4>1, <4>2 DEF LoopRecords, Children
      <4>3. CASE parent'[r] = at[l] /\ Repaired(l)
        BY <1>0, <1>1, <1>3, <3>2, <4>1, <4>3 DEF LoopRecords, Steps, Repaired
      <4>4. QED
        BY <1>8, <4>2, <4>3
    <3>3. QED
      BY <1>7, <3>1, <3>2
  <2>4. QED
    BY <2>1, <2>2, <2>3 DEF Children
<1>19. NothingStranded'
  <2>1. SUFFICES ASSUME faults' = 0
                 PROVE  NothingStranded'
    BY DEF NothingStranded
  <2>2. faults = 0 /\ NothingStranded
    BY <1>0, <1>1, <2>1 DEF LoopRecords
  <2>3. ASSUME NEW q \in Reports, status'[q] = "RUNNING"
        PROVE  \/ \E c \in Clients : client'[c].step = "created" /\ client'[c].r = q
               \/ \E m \in Reports : loop'[m] \in {"verify", "verifying"} /\ at'[m] = q
    <3>1. CASE q = r
      BY <1>6, <3>1
    <3>2. CASE q # r
      <4>1. status[q] = "RUNNING"
        BY <1>7, <2>3, <3>2
      <4>2. CASE \E c \in Clients : client[c].step = "created" /\ client[c].r = q
        BY <1>1, <4>2
      <4>3. CASE \E m \in Reports : loop[m] \in {"verify", "verifying"} /\ at[m] = q
        <5>1. PICK m \in Reports : loop[m] \in {"verify", "verifying"} /\ at[m] = q
          BY <4>3
        <5>2. m # l
          <6>1. SUFFICES ASSUME m = l
                         PROVE  FALSE
            OBVIOUS
          <6>2. Repaired(l)
            BY <1>4, <3>2, <5>1, <6>1
          <6>3. QED
            BY <1>0, <4>1, <5>1, <6>1, <6>2 DEF LoopRecords, Answers, Repaired
        <5>3. QED
          BY <1>6, <5>1, <5>2
      <4>4. QED
        BY <2>2, <4>1, <4>2, <4>3 DEF NothingStranded
    <3>3. QED
      BY <3>1, <3>2
  <2>4. ASSUME NEW e \in Executions, repairOf'[e] # 0, Active(e)'
        PROVE  \E m \in Reports : loop'[m] = "repairing" /\ at'[m] = repairOf'[e]
    <3>1. repairOf[e] # 0 /\ Active(e) /\ repairOf'[e] = repairOf[e]
      BY <1>1, <2>4 DEF Active
    <3>2. PICK m \in Reports : loop[m] = "repairing" /\ at[m] = repairOf[e]
      BY <2>2, <3>1 DEF NothingStranded
    <3>3. QED
      BY <1>1, <1>6, <3>1, <3>2
  <2>5. QED
    BY <2>3, <2>4 DEF NothingStranded
<1>20. QED
  BY <1>12, <1>13, <1>14, <1>15, <1>16, <1>17, <1>18, <1>19 DEF LoopRecords

\* Report r, which no loop but l can be at, is answered: its loop goes on to a
\* repair or is closed.
Concluded(r, verdict) ==
    /\ Stamp(r, verdict)
    /\ Conclude(r, verdict)
    /\ checking' = checking \ {r}
    /\ at' = at /\ staged' = staged /\ workspace' = workspace /\ client' = client
    /\ repairOf' = repairOf /\ before' = before /\ after' = after /\ fix' = fix
    /\ execution' = execution /\ faults' = faults

LEMMA ConcludedKeeps ==
  ASSUME LoopInv, NEW r \in Reports, NEW verdict \in Verdict,
         Concluded(r, verdict), answered[r] = Absent, InLoop(r),
         verdict = "BLOCKED" \/ r \in checking,
         \A l \in Reports : loop[l] = "verify" /\ at[l] = r => verdict = "BLOCKED"
  PROVE  LoopRecords'
<1>0. LoopTypeOK /\ LoopRecords
  BY TypesOfLoop DEF LoopInv
<1>1. /\ status' = [status EXCEPT ![r] = verdict]
      /\ answered' = [answered EXCEPT ![r] = verdict]
      /\ number' = number /\ parent' = parent /\ revision' = revision
      /\ checking' = checking \ {r}
      /\ at' = at /\ staged' = staged /\ workspace' = workspace /\ client' = client
      /\ repairOf' = repairOf /\ before' = before /\ after' = after /\ fix' = fix
      /\ execution' = execution /\ faults' = faults
  BY DEF Concluded, Stamp, Conclude
<1>2. \A l \in Reports :
        \/ loop'[l] = loop[l] /\ ~(loop[l] \in {"verify", "verifying"} /\ at[l] = r)
        \/ /\ loop[l] \in {"verify", "verifying"} /\ at[l] = r
           /\ \/ loop'[l] = "closed"
              \/ loop'[l] = "repair" /\ verdict = "FAILED" /\ number[r] < MaxAttempts
  BY <1>0, <1>1 DEF Concluded, Conclude, Repairable
<1>3. \A q \in Reports : /\ status'[q] = Absent <=> status[q] = Absent
                         /\ q # r => status'[q] = status[q] /\ answered'[q] = answered[q]
                         /\ status'[r] = verdict /\ answered'[r] = verdict
  <2>1. status[r] # Absent
    BY <1>0 DEF LoopRecords, Fresh
  <2>2. verdict # Absent
    BY DEF Verdict, Absent
  <2>3. QED
    BY <1>0, <1>1, <2>1, <2>2 DEF LoopTypeOK
<1>4. \A e \in Executions : repairOf[e] # r
  BY <1>0, ReportsCount DEF LoopRecords, Repairs, Absent
<1>5. \A e \in Executions : \A p : Effective(e, p)' <=> Effective(e, p)
  BY <1>1 DEF Effective
<1>6. \A l \in Reports : Started(l)' <=> Started(l)
  BY <1>2 DEF Started
<1>7. \A q \in Reports : InLoop(q)' <=> InLoop(q)
  BY <1>1, <1>6 DEF InLoop
<1>8. Fresh'
  <2>1. \A q \in Reports : parent'[q] # 0 => status'[parent'[q]] # Absent
    BY <1>0, <1>1, <1>3 DEF LoopRecords, Fresh, LoopTypeOK
  <2>2. \A e \in Executions : ~Exists(e)' => repairOf'[e] = 0 /\ fix'[e] = "none"
    BY <1>0, <1>1 DEF LoopRecords, Fresh, Exists
  <2>3. \A q \in Reports : status'[q] = Absent =>
            ~InLoop(q)' /\ answered'[q] = Absent /\ q \notin checking'
    BY <1>0, <1>1, <1>3, <1>7 DEF LoopRecords, Fresh
  <2>4. QED
    BY <1>0, <1>1, <1>3, <1>6, <2>1, <2>2, <2>3 DEF LoopRecords, Fresh
<1>9. Current'
  <2>1. \A q \in Reports : parent'[q] # 0 => InLoop(parent[q])'
    BY <1>0, <1>1, <1>7 DEF LoopRecords, Current, LoopTypeOK
  <2>2. \A c \in Clients : client'[c].step = "created" => ~InLoop(client[c].r)'
    BY <1>0, <1>1, <1>7 DEF LoopRecords, Current, Fresh
  <2>3. \A q \in Reports : answered'[q] # Absent \/ q \in checking' => InLoop(q)'
    BY <1>0, <1>1, <1>3, <1>7 DEF LoopRecords, Current
  <2>4. QED
    BY <1>0, <1>1, <1>6, <2>1, <2>2, <2>3 DEF LoopRecords, Current
<1>10. Steps'
  <2>1. ASSUME NEW l \in Reports, loop'[l] # loop[l]
        PROVE  /\ loop'[l] \in {"repair", "closed"}
               /\ loop'[l] = "repair" =>
                    /\ answered'[at'[l]] = "FAILED" /\ number'[at'[l]] < MaxAttempts
                    /\ \A e \in Executions : repairOf'[e] # at'[l]
    BY <1>1, <1>2, <1>3, <1>4, <2>1
  <2>2. ASSUME NEW l \in Reports, loop'[l] = loop[l], loop[l] \notin {"absent", "closed"}
        PROVE  at[l] # r /\ at[l] \in Reports /\ answered'[at[l]] = answered[at[l]]
    <3>1. at[l] \in Reports
      BY <1>0, <2>2 DEF LoopRecords, Fresh, Started
    <3>2. at[l] # r
      <4>1. CASE loop[l] \in {"verify", "verifying"}
        BY <1>2, <2>2, <4>1
      <4>2. CASE loop[l] \in {"repair", "repairing"}
        BY <1>0, <4>2 DEF LoopRecords, Steps, Absent
      <4>3. QED
        BY <1>0, <2>2, <4>1, <4>2 DEF LoopTypeOK, LoopStep
    <3>3. QED
      BY <1>3, <3>1, <3>2
  <2>3. ASSUME NEW l \in Reports
        PROVE  /\ loop'[l] = "verify" => at'[l] \notin checking'
               /\ loop'[l] = "verifying" => answered'[at'[l]] = Absent
               /\ loop'[l] \in {"repair", "repairing"} =>
                    answered'[at'[l]] = "FAILED" /\ number'[at'[l]] < MaxAttempts
               /\ loop'[l] = "repair" => \A e \in Executions : repairOf'[e] # at'[l]
               /\ loop'[l] = "verify" /\ answered'[at'[l]] # Absent =>
                    /\ answered'[at'[l]] = "FAILED" /\ number'[at'[l]] < MaxAttempts
                    /\ \E e \in Executions : Effective(e, at[l])'
    <3>1. CASE loop'[l] # loop[l]
      BY <2>1, <3>1
    <3>2. CASE loop'[l] = loop[l] /\ loop[l] \notin {"absent", "closed"}
      BY <1>0, <1>1, <1>5, <2>2, <3>2 DEF LoopRecords, Steps
    <3>3. CASE loop'[l] = loop[l] /\ loop[l] \in {"absent", "closed"}
      BY <3>3
    <3>4. QED
      BY <3>1, <3>2, <3>3
  <2>4. QED
    BY <2>3 DEF Steps
<1>11. Answers'
  <2>1. verdict # "RUNNING"
    BY DEF Verdict
  <2>2. QED
    BY <1>0, <1>1, <1>3, <2>1 DEF LoopRecords, Answers
<1>12. Named'
  BY <1>0, <1>1, <1>3 DEF LoopRecords, Named
<1>13. Repairs'
  BY <1>0, <1>1, <1>3, <1>4 DEF LoopRecords, Repairs, LoopTypeOK
<1>14. Children'
  BY <1>0, <1>1, <1>5 DEF LoopRecords, Children
<1>15. NothingStranded'
  <2>1. SUFFICES ASSUME faults' = 0
                 PROVE  NothingStranded'
    BY DEF NothingStranded
  <2>2. faults = 0 /\ NothingStranded
    BY <1>0, <1>1, <2>1 DEF LoopRecords
  <2>3. ASSUME NEW q \in Reports, status'[q] = "RUNNING"
        PROVE  \/ \E c \in Clients : client'[c].step = "created" /\ client'[c].r = q
               \/ \E m \in Reports : loop'[m] \in {"verify", "verifying"} /\ at'[m] = q
    <3>1. q # r /\ status[q] = "RUNNING"
      BY <1>3, <2>3 DEF Verdict
    <3>2. QED
      BY <1>1, <1>2, <2>2, <3>1 DEF NothingStranded
  <2>4. ASSUME NEW e \in Executions, repairOf'[e] # 0, Active(e)'
        PROVE  \E m \in Reports : loop'[m] = "repairing" /\ at'[m] = repairOf'[e]
    BY <1>1, <1>2, <2>2, <2>4 DEF NothingStranded, Active
  <2>5. QED
    BY <2>3, <2>4 DEF NothingStranded
<1>16. QED
  BY <1>8, <1>9, <1>10, <1>11, <1>12, <1>13, <1>14, <1>15 DEF LoopRecords

LEMMA VerifyFindsNothingKeeps ==
  ASSUME LoopInv, NEW l \in Reports, VerifyFindsNothing(l)
  PROVE  LoopRecords'
<1>0. LoopTypeOK /\ LoopRecords
  BY TypesOfLoop DEF LoopInv
<1>1. loop[l] = "verify" /\ workspace = 0
  BY DEF VerifyFindsNothing
<1>2. at[l] \in Reports /\ InLoop(at[l]) /\ at[l] \notin checking
  BY <1>0, <1>1 DEF LoopRecords, Fresh, Current, Steps, Started, InLoop
<1>3. answered[at[l]] = Absent
  <2>1. SUFFICES ASSUME answered[at[l]] # Absent
                 PROVE  FALSE
    OBVIOUS
  <2>2. PICK e \in Executions : Effective(e, at[l])
    BY <1>0, <1>1, <2>1 DEF LoopRecords, Steps
  <2>3. before[e] <= after[e] /\ after[e] <= workspace /\ after[e] # before[e]
    BY <1>0, <2>2 DEF LoopRecords, Repairs, Effective
  <2>4. before[e] \in Nat /\ after[e] \in Nat
    BY <1>0, LoopAssumption DEF LoopTypeOK, Versions
  <2>5. QED
    BY <1>1, <2>3, <2>4
<1>4. checking' = checking \ {at[l]}
  BY <1>2 DEF VerifyFindsNothing
<1>5. Concluded(at[l], "BLOCKED")
  BY <1>4 DEF VerifyFindsNothing, Concluded, NoFault, repairVars, seamVars
<1>6. "BLOCKED" \in Verdict
  BY DEF Verdict
<1>7. QED
  BY <1>2, <1>3, <1>5, <1>6, ConcludedKeeps

LEMMA VerifyEndsKeeps ==
  ASSUME LoopInv, NEW r \in Reports, VerifyEnds(r)
  PROVE  LoopRecords'
<1>0. LoopRecords
  BY DEF LoopInv
<1>1. PICK verdict \in Verdict : Stamp(r, verdict) /\ Conclude(r, verdict)
  BY DEF VerifyEnds
<1>2. r \in checking /\ answered[r] = Absent /\ InLoop(r)
  BY <1>0 DEF VerifyEnds, LoopRecords, Answers, Current
<1>3. Concluded(r, verdict)
  BY <1>1 DEF VerifyEnds, Concluded, NoFault, repairVars, seamVars
<1>4. \A l \in Reports : loop[l] = "verify" => at[l] # r
  BY <1>0, <1>2 DEF LoopRecords, Steps
<1>5. QED
  BY <1>2, <1>3, <1>4, ConcludedKeeps

\* A loop that stops, by itself or because its activity died.
LEMMA StopKeeps ==
  ASSUME LoopInv,
         \E r \in Reports : VerifyDies(r) \/ LoopStops(r)
  PROVE  LoopRecords'
<1>0. LoopTypeOK /\ LoopRecords
  BY TypesOfLoop DEF LoopInv
<1>1. /\ status' = status /\ answered' = answered
      /\ number' = number /\ parent' = parent /\ revision' = revision
      /\ at' = at /\ staged' = staged /\ workspace' = workspace /\ client' = client
      /\ repairOf' = repairOf /\ before' = before /\ after' = after /\ fix' = fix
      /\ execution' = execution
  BY DEF VerifyDies, LoopStops, seamVars, reportVars, repairVars, checkVars
<1>2. checking' \subseteq checking
  BY DEF VerifyDies, LoopStops, checkVars
<1>3. \A l \in Reports : loop'[l] = loop[l] \/ (loop'[l] = "closed" /\ loop[l] # "absent")
  BY <1>0 DEF VerifyDies, LoopStops, MoveLoop, LoopTypeOK
<1>4. faults' # 0
  BY <1>0 DEF VerifyDies, LoopStops, Fault, LoopTypeOK
<1>5. \A e \in Executions : \A p : Effective(e, p)' <=> Effective(e, p)
  BY <1>1 DEF Effective
<1>6. \A l \in Reports : Started(l)' <=> Started(l)
  BY <1>3 DEF Started
<1>7. \A q \in Reports : InLoop(q)' <=> InLoop(q)
  BY <1>1, <1>6 DEF InLoop
<1>8. Fresh'
  <2>1. \A e \in Executions : ~Exists(e)' => repairOf'[e] = 0 /\ fix'[e] = "none"
    BY <1>0, <1>1 DEF LoopRecords, Fresh, Exists
  <2>2. QED
    BY <1>0, <1>1, <1>2, <1>6, <1>7, <2>1 DEF LoopRecords, Fresh
<1>9. Current'
  <2>1. \A q \in Reports : parent'[q] # 0 => InLoop(parent[q])'
    BY <1>0, <1>1, <1>7 DEF LoopRecords, Current, LoopTypeOK
  <2>2. \A c \in Clients : client'[c].step = "created" => ~InLoop(client[c].r)'
    BY <1>0, <1>1, <1>7 DEF LoopRecords, Current, Fresh
  <2>3. QED
    BY <1>0, <1>1, <1>2, <1>6, <1>7, <2>1, <2>2 DEF LoopRecords, Current
<1>10. Steps'
  BY <1>0, <1>1, <1>2, <1>3, <1>5 DEF LoopRecords, Steps
<1>11. Answers' /\ Named' /\ Repairs' /\ Children'
  BY <1>0, <1>1, <1>2, <1>5 DEF LoopRecords, Answers, Named, Repairs, Children
<1>12. NothingStranded'
  BY <1>4 DEF NothingStranded
<1>13. QED
  BY <1>8, <1>9, <1>10, <1>11, <1>12 DEF LoopRecords

-----------------------------------------------------------------------------
(* runRepairActivity *)

LEMMA RepairBeginsKeeps ==
  ASSUME LoopInv, NEW l \in Reports, NEW e \in Executions, RepairBegins(l, e)
  PROVE  LoopRecords'
<1>0. LoopTypeOK /\ LoopRecords /\ SeamTypeOK
  BY TypesOfLoop DEF LoopInv
<1>1. /\ status' = status /\ answered' = answered
      /\ number' = number /\ parent' = parent /\ revision' = revision
      /\ at' = at /\ staged' = staged /\ workspace' = workspace /\ client' = client
      /\ checking' = checking /\ after' = after /\ faults' = faults
      /\ ~Exists(e) /\ execution' = [execution EXCEPT ![e] = "CREATED"]
      /\ loop[l] = "repair" /\ loop' = [loop EXCEPT ![l] = "repairing"]
      /\ repairOf' = [repairOf EXCEPT ![e] = at[l]]
      /\ before' = [before EXCEPT ![e] = workspace]
      /\ fix' = [fix EXCEPT ![e] = "created"]
  BY DEF RepairBegins, MoveLoop, MoveFix, CreateRepairRun, CreateExecution, IsNext,
         NoFault, reportVars, checkVars
<1>2. /\ \A m \in Reports : m # l => loop'[m] = loop[m]
      /\ loop'[l] = "repairing"
      /\ \A d \in Executions : d # e => /\ execution'[d] = execution[d] /\ fix'[d] = fix[d]
                                      /\ repairOf'[d] = repairOf[d] /\ before'[d] = before[d]
      /\ execution'[e] = "CREATED" /\ fix'[e] = "created"
      /\ repairOf'[e] = at[l] /\ before'[e] = workspace
  BY <1>0, <1>1 DEF LoopTypeOK, SeamTypeOK
<1>3. repairOf[e] = 0 /\ fix[e] = "none"
  BY <1>0, <1>1 DEF LoopRecords, Fresh
<1>4. /\ at[l] \in Reports /\ answered[at[l]] = "FAILED" /\ number[at[l]] < MaxAttempts
      /\ \A d \in Executions : repairOf[d] # at[l]
      /\ \A m \in Reports : Started(m) /\ at[m] = at[l] => m = l
  BY <1>0, <1>1 DEF LoopRecords, Fresh, Current, Steps, Started
<1>5. \A d \in Executions : \A p : Effective(d, p)' <=> Effective(d, p)
  BY <1>1, <1>2, <1>3 DEF Effective
<1>6. \A m \in Reports : Started(m)' <=> Started(m)
  BY <1>1, <1>2 DEF Started
<1>7. \A q \in Reports : InLoop(q)' <=> InLoop(q)
  BY <1>1, <1>6 DEF InLoop
<1>8. Fresh'
  <2>1. \A d \in Executions : ~Exists(d)' => repairOf'[d] = 0 /\ fix'[d] = "none"
    BY <1>0, <1>2 DEF LoopRecords, Fresh, Exists, Absent
  <2>2. QED
    BY <1>0, <1>1, <1>6, <1>7, <2>1 DEF LoopRecords, Fresh
<1>9. Current'
  <2>1. \A q \in Reports : parent'[q] # 0 => InLoop(parent[q])'
    BY <1>0, <1>1, <1>7 DEF LoopRecords, Current, LoopTypeOK
  <2>2. \A c \in Clients : client'[c].step = "created" => ~InLoop(client[c].r)'
    BY <1>0, <1>1, <1>7 DEF LoopRecords, Current, Fresh
  <2>3. QED
    BY <1>0, <1>1, <1>6, <1>7, <2>1, <2>2 DEF LoopRecords, Current
<1>10. Steps'
  <2>1. ASSUME NEW m \in Reports, loop'[m] = "repair"
        PROVE  \A d \in Executions : repairOf'[d] # at'[m]
    BY <1>0, <1>1, <1>2, <1>4, <2>1 DEF LoopRecords, Steps, Started
  <2>2. QED
    BY <1>0, <1>1, <1>2, <1>4, <1>5, <2>1 DEF LoopRecords, Steps
<1>11. Answers' /\ Named'
  BY <1>0, <1>1 DEF LoopRecords, Answers, Named
<1>12. Repairs'
  <2>1. workspace <= workspace
    BY <1>0, LoopAssumption DEF LoopTypeOK, Versions
  <2>2. ASSUME NEW d \in Executions
        PROVE  /\ before'[d] <= workspace' /\ after'[d] <= workspace'
               /\ fix'[d] = "ended" => before'[d] <= after'[d]
    BY <1>0, <1>1, <1>2, <2>1 DEF LoopRecords, Repairs
  <2>3. ASSUME NEW d \in Executions, repairOf'[d] # 0
        PROVE  /\ answered'[repairOf'[d]] = "FAILED"
               /\ number'[repairOf'[d]] < MaxAttempts
               /\ revision'[repairOf'[d]] <= before'[d]
    <3>1. CASE d = e
      BY <1>0, <1>1, <1>2, <1>4, <3>1 DEF LoopRecords, Named
    <3>2. CASE d # e
      BY <1>0, <1>1, <1>2, <2>3, <3>2 DEF LoopRecords, Repairs
    <3>3. QED
      BY <3>1, <3>2
  <2>4. ASSUME NEW d \in Executions, NEW b \in Executions, repairOf'[d] # 0,
               repairOf'[b] = repairOf'[d]
        PROVE  b = d
    BY <1>0, <1>2, <1>4, <2>4 DEF LoopRecords, Repairs
  <2>5. QED
    BY <2>2, <2>3, <2>4 DEF Repairs
<1>13. Children'
  BY <1>0, <1>1, <1>5 DEF LoopRecords, Children
<1>14. NothingStranded'
  <2>1. SUFFICES ASSUME faults' = 0
                 PROVE  NothingStranded'
    BY DEF NothingStranded
  <2>2. faults = 0 /\ NothingStranded
    BY <1>0, <1>1, <2>1 DEF LoopRecords
  <2>3. ASSUME NEW q \in Reports, status'[q] = "RUNNING"
        PROVE  \/ \E c \in Clients : client'[c].step = "created" /\ client'[c].r = q
               \/ \E m \in Reports : loop'[m] \in {"verify", "verifying"} /\ at'[m] = q
    BY <1>1, <1>2, <2>2, <2>3 DEF NothingStranded
  <2>4. ASSUME NEW d \in Executions, repairOf'[d] # 0, Active(d)'
        PROVE  \E m \in Reports : loop'[m] = "repairing" /\ at'[m] = repairOf'[d]
    <3>1. CASE d = e
      BY <1>1, <1>2, <3>1
    <3>2. CASE d # e
      <4>1. Active(d) /\ repairOf[d] # 0
        BY <1>2, <2>4, <3>2 DEF Active
      <4>2. QED
        BY <1>1, <1>2, <2>2, <3>2, <4>1 DEF NothingStranded
    <3>3. QED
      BY <3>1, <3>2
  <2>5. QED
    BY <2>3, <2>4 DEF NothingStranded
<1>15. QED
  BY <1>8, <1>9, <1>10, <1>11, <1>12, <1>13, <1>14 DEF LoopRecords

\* The end of a repair, told to its loop, after which its run is not active
\* unless there was a fault.
LEMMA RepairAnswersKeeps ==
  ASSUME LoopInv, [SeamNext]_seamVars, NEW e \in Executions, NEW changed,
         RepairAnswers(e, changed), fix[e] \notin {"none", "ended"},
         changed => workspace # before[e],
         UNCHANGED <<workspace, reportVars, checkVars, at, client>>,
         faults' = 0 => faults = 0 /\ ~Active(e)'
  PROVE  LoopRecords'
<1>0. LoopTypeOK /\ LoopRecords /\ SeamTypeOK /\ RowsKept
  BY TypesOfLoop, RowsStay DEF LoopInv
<1>1. /\ status' = status /\ answered' = answered
      /\ number' = number /\ parent' = parent /\ revision' = revision
      /\ at' = at /\ staged' = staged /\ workspace' = workspace /\ client' = client
      /\ checking' = checking /\ repairOf' = repairOf /\ before' = before
      /\ fix' = [fix EXCEPT ![e] = "ended"]
      /\ after' = [after EXCEPT ![e] = workspace]
  BY DEF RepairAnswers, MoveFix, reportVars, checkVars
<1>2. /\ \A d \in Executions : d # e => fix'[d] = fix[d] /\ after'[d] = after[d]
      /\ fix'[e] = "ended" /\ after'[e] = workspace
  BY <1>0, <1>1 DEF LoopTypeOK
<1>3. \A l \in Reports :
        \/ loop'[l] = loop[l] /\ ~(loop[l] = "repairing" /\ at[l] = repairOf[e])
        \/ /\ loop[l] = "repairing" /\ at[l] = repairOf[e]
           /\ loop'[l] = "closed" \/ (loop'[l] = "verify" /\ workspace # before[e])
  BY DEF RepairAnswers
<1>4. \A d \in Executions : \A p :
        /\ Effective(d, p) => d # e /\ Effective(d, p)'
        /\ Effective(d, p)' /\ d # e => Effective(d, p)
  BY <1>1, <1>2 DEF Effective
<1>5. \A l \in Reports : Started(l)' <=> Started(l)
  BY <1>3 DEF Started
<1>6. \A q \in Reports : InLoop(q)' <=> InLoop(q)
  BY <1>1, <1>5 DEF InLoop
<1>7. Fresh'
  <2>1. \A d \in Executions : ~Exists(d)' => repairOf'[d] = 0 /\ fix'[d] = "none"
    BY <1>0, <1>1, <1>2 DEF LoopRecords, Fresh, RowsKept
  <2>2. QED
    BY <1>0, <1>1, <1>5, <1>6, <2>1 DEF LoopRecords, Fresh
<1>8. Current'
  <2>1. \A q \in Reports : parent'[q] # 0 => InLoop(parent[q])'
    BY <1>0, <1>1, <1>6 DEF LoopRecords, Current, LoopTypeOK
  <2>2. \A c \in Clients : client'[c].step = "created" => ~InLoop(client[c].r)'
    BY <1>0, <1>1, <1>6 DEF LoopRecords, Current, Fresh
  <2>3. QED
    BY <1>0, <1>1, <1>5, <1>6, <2>1, <2>2 DEF LoopRecords, Current
<1>9. Steps'
  <2>1. ASSUME NEW l \in Reports, loop'[l] # loop[l]
        PROVE  /\ loop'[l] \in {"closed", "verify"}
               /\ answered[at[l]] = "FAILED" /\ number[at[l]] < MaxAttempts
               /\ loop'[l] = "verify" => at[l] \notin checking /\ Effective(e, at[l])'
    <3>1. loop[l] = "repairing" /\ at[l] = repairOf[e]
      BY <1>3, <2>1
    <3>2. answered[at[l]] = "FAILED" /\ number[at[l]] < MaxAttempts /\ at[l] \in Reports
      BY <1>0, <3>1 DEF LoopRecords, Steps, Fresh, Started
    <3>3. at[l] \notin checking
      BY <1>0, <3>2 DEF LoopRecords, Answers, Absent
    <3>4. QED
      BY <1>1, <1>2, <1>3, <2>1, <3>1, <3>2, <3>3 DEF Effective
  <2>2. QED
    BY <1>0, <1>1, <1>4, <2>1 DEF LoopRecords, Steps
<1>10. Answers' /\ Named'
  BY <1>0, <1>1 DEF LoopRecords, Answers, Named
<1>11. Repairs'
  <2>1. workspace <= workspace
    BY <1>0, LoopAssumption DEF LoopTypeOK, Versions
  <2>2. ASSUME NEW d \in Executions
        PROVE  /\ before'[d] <= workspace' /\ after'[d] <= workspace'
               /\ fix'[d] = "ended" => before'[d] <= after'[d]
    BY <1>0, <1>1, <1>2, <2>1 DEF LoopRecords, Repairs
  <2>3. QED
    BY <1>0, <1>1, <2>2 DEF LoopRecords, Repairs
<1>12. Children'
  <2>1. ASSUME NEW q \in Reports, parent[q] # 0
        PROVE  \E d \in Executions : Effective(d, parent[q])' /\ after'[d] <= revision'[q]
    BY <1>0, <1>1, <1>2, <1>4, <2>1 DEF LoopRecords, Children
  <2>2. QED
    BY <1>0, <1>1, <2>1 DEF LoopRecords, Children
<1>13. NothingStranded'
  <2>1. SUFFICES ASSUME faults' = 0
                 PROVE  NothingStranded'
    BY DEF NothingStranded
  <2>2. faults = 0 /\ NothingStranded /\ ~Active(e)'
    BY <1>0, <2>1 DEF LoopRecords
  <2>3. ASSUME NEW q \in Reports, status'[q] = "RUNNING"
        PROVE  \/ \E c \in Clients : client'[c].step = "created" /\ client'[c].r = q
               \/ \E m \in Reports : loop'[m] \in {"verify", "verifying"} /\ at'[m] = q
    BY <1>1, <1>3, <2>2, <2>3 DEF NothingStranded
  <2>4. ASSUME NEW d \in Executions, repairOf'[d] # 0, Active(d)'
        PROVE  \E m \in Reports : loop'[m] = "repairing" /\ at'[m] = repairOf'[d]
    <3>1. Active(d) /\ d # e
      BY <1>0, <1>1, <2>2, <2>4, ActiveOnce DEF LoopRecords, Fresh
    <3>2. repairOf[d] # repairOf[e]
      BY <1>0, <1>1, <2>4, <3>1 DEF LoopRecords, Repairs
    <3>3. PICK m \in Reports : loop[m] = "repairing" /\ at[m] = repairOf[d]
      BY <1>1, <2>2, <2>4, <3>1 DEF NothingStranded
    <3>4. QED
      BY <1>1, <1>3, <3>2, <3>3
  <2>5. QED
    BY <2>3, <2>4 DEF NothingStranded
<1>14. QED
  BY <1>7, <1>8, <1>9, <1>10, <1>11, <1>12, <1>13 DEF LoopRecords

\* FinishRepair and FailExecution both leave the run of the repair inactive.
LEMMA RepairStops ==
  ASSUME LoopInv, Next, NEW e \in Executions,
         RepairEnds(e) \/ RepairFails(e) \/ RepairDies(e)
  PROVE  LoopRecords'
<1>0. LoopTypeOK /\ SeamTypeOK
  BY TypesOfLoop
<1>1. [SeamNext]_seamVars
  BY StepIsSeam
<1>2. CASE RepairEnds(e)
  <2>a. execution[e] \in ExecutionStatus \union {Absent}
    BY <1>0 DEF SeamTypeOK
  <2>b. ASSUME CompleteExecution(e)
        PROVE  ~Active(e)'
    BY <1>0, <2>a, <2>b DEF CompleteExecution, Finish, IsOver, Active, Exists, Absent,
         SeamTypeOK, seamVars
  <2>c. ASSUME CompleteExecutionPartially(e)
        PROVE  ~Active(e)'
    BY <1>0, <2>a, <2>c DEF CompleteExecutionPartially, Finish, IsOver, Active, Exists,
         Absent, SeamTypeOK, seamVars
  <2>1. ~Active(e)'
    BY <1>2, <2>b, <2>c DEF RepairEnds, FinishRepair
  <2>2. QED
    BY <1>1, <1>2, <2>1, RepairAnswersKeeps DEF RepairEnds, Changed, NoFault
<1>3. CASE RepairFails(e)
  <2>1. ~Active(e)'
    BY <1>0, <1>3 DEF RepairFails, FailExecution, Active, SeamTypeOK
  <2>2. QED
    BY <1>1, <1>3, <2>1, RepairAnswersKeeps DEF RepairFails, NoFault
<1>4. CASE RepairDies(e)
  <2>1. faults' # 0
    BY <1>0, <1>4 DEF RepairDies, Fault, LoopTypeOK
  <2>2. QED
    BY <1>1, <1>4, <2>1, RepairAnswersKeeps DEF RepairDies
<1>5. QED
  BY <1>2, <1>3, <1>4

-----------------------------------------------------------------------------
(* The invariant, and what follows from it *)

LEMMA LoopInvNext == LoopInv /\ [Next]_vars => LoopInv'
<1> SUFFICES ASSUME LoopInv, [Next]_vars
             PROVE  LoopRecords'
  BY VerifyTypeNext DEF LoopInv
<1>1. CASE UNCHANGED vars
  BY <1>1 DEF LoopInv, LoopRecords, Fresh, Current, Steps, Answers, Named, Repairs,
       Children, NothingStranded, Started, InLoop, Effective, Exists, Active, vars,
       verifyVars, reportVars, checkVars, loopVars, repairVars, seamVars
<1>2. CASE Next
  <2>1. ASSUME Quiet
        PROVE  LoopRecords'
    BY <2>1, StepIsSeam, QuietKeeps
  <2>2. CASE FilesChange
    BY <1>2, <2>1, <2>2, QuietSteps
  <2>3. ASSUME NEW e \in Executions,
               \/ BuildStarts(e) \/ BuildEnds(e) \/ BuildFindsActive(e)
               \/ RepairWorks(e) \/ RepairTurnEnds(e) \/ RepairWrites(e)
        PROVE  LoopRecords'
    BY <1>2, <2>1, <2>3, QuietSteps
  <2>4. ASSUME NEW e \in Executions, RepairEnds(e) \/ RepairFails(e) \/ RepairDies(e)
        PROVE  LoopRecords'
    BY <1>2, <2>4, RepairStops
  <2>5. ASSUME NEW r \in Reports, ReportAges(r)
        PROVE  LoopRecords'
    BY <1>2, <2>1, <2>5, QuietSteps
  <2>6. ASSUME NEW c \in Clients, ClientAdmitted(c) \/ ClientLooks(c) \/ ClientDies(c)
        PROVE  LoopRecords'
    BY <1>2, <2>1, <2>6, QuietSteps
  <2>7. ASSUME NEW r \in Reports,
               \/ \E c \in Clients : ClientCreates(c, r)
               \/ \E e \in Executions : BuildAsks(e, r) \/ BuildAnswerLost(e, r)
        PROVE  LoopRecords'
    BY <2>7, FirstReportSteps
  <2>8. ASSUME NEW c \in Clients, TemporalStarts(c) \/ StartAnswerLost(c) \/ ClientBlocked(c)
        PROVE  LoopRecords'
    BY <2>8, RequestStarts, RequestBlocked
  <2>9. ASSUME NEW l \in Reports, NEW r \in Reports, VerifyBegins(l, r)
        PROVE  LoopRecords'
    BY <2>9, VerifyBeginsKeeps
  <2>10. ASSUME NEW l \in Reports, NEW e \in Executions, RepairBegins(l, e)
         PROVE  LoopRecords'
    BY <2>10, RepairBeginsKeeps
  <2>11. ASSUME NEW r \in Reports,
                VerifyFindsNothing(r) \/ VerifyEnds(r) \/ VerifyDies(r) \/ LoopStops(r)
         PROVE  LoopRecords'
    BY <2>11, VerifyFindsNothingKeeps, VerifyEndsKeeps, StopKeeps
  <2>12. QED
    BY <1>2, <2>2, <2>3, <2>4, <2>5, <2>6, <2>7, <2>8, <2>9, <2>10, <2>11
    DEF Next, RepairStepOf, LoopStepOf
<1>3. QED
  BY <1>1, <1>2

LEMMA LoopInvariant == Spec => []LoopInv
  BY LoopInit, LoopInvNext, PTL DEF Spec

\* Every row and record of verification and repair keeps its type: no attempt
\* is numbered beyond the last one that is allowed.
THEOREM VerifyTypeCorrect == Spec => []VerifyTypeOK
<1>1. LoopInv => VerifyTypeOK
  BY DEF LoopInv
<1>2. QED
  BY <1>1, LoopInvariant, PTL

\* Only the content that passed is marked verified, and it has every repair
\* in it that the verification was to check.
THEOREM VerifiedIsChecked == Spec => []VerifiedRevision
<1>1. LoopInv => VerifiedRevision
  <2>1. SUFFICES ASSUME LoopInv, NEW r \in Reports, status[r] = "PASSED"
                 PROVE  /\ revision[r] = staged[r]
                        /\ \A e \in Executions :
                            repairOf[e] # 0 /\ repairOf[e] = parent[r]
                              => revision[r] >= after[e]
    BY DEF VerifiedRevision
  <2>2. LoopTypeOK /\ LoopRecords
    BY <2>1, TypesOfLoop DEF LoopInv
  <2>3. revision[r] = staged[r]
    BY <2>1, <2>2 DEF LoopRecords, Named
  <2>4. ASSUME NEW e \in Executions, repairOf[e] # 0, repairOf[e] = parent[r]
        PROVE  revision[r] >= after[e]
    <3>1. PICK d \in Executions : Effective(d, parent[r]) /\ after[d] <= revision[r]
      BY <2>2, <2>4 DEF LoopRecords, Children
    <3>2. d = e
      BY <2>2, <2>4, <3>1 DEF LoopRecords, Repairs, Effective
    <3>3. after[e] \in Nat /\ revision[r] \in Nat
      BY <2>2, LoopAssumption DEF LoopTypeOK, Versions
    <3>4. QED
      BY <3>1, <3>2, <3>3
  <2>5. QED
    BY <2>3, <2>4
<1>2. QED
  BY <1>1, LoopInvariant, PTL

\* Repair cannot loop: one repair for a failed attempt, none after the last
\* attempt, and a new attempt only of a workspace that the repair changed.
THEOREM RepairCannotLoop == Spec => []RepairChain
<1>1. LoopInv => RepairChain
  <2>1. SUFFICES ASSUME LoopInv
                 PROVE  RepairChain
    OBVIOUS
  <2>2. LoopTypeOK /\ LoopRecords
    BY <2>1, TypesOfLoop DEF LoopInv
  <2>3. ASSUME NEW r \in Reports, parent[r] # 0
        PROVE  /\ number[r] = number[parent[r]] + 1
               /\ revision[r] # revision[parent[r]]
               /\ \E e \in Executions : /\ repairOf[e] = parent[r]
                                        /\ fix[e] = "ended"
                                        /\ after[e] # before[e]
               /\ \A q \in Reports : parent[q] = parent[r] => q = r
    <3>1. PICK e \in Executions : Effective(e, parent[r]) /\ after[e] <= revision[r]
      BY <2>2, <2>3 DEF LoopRecords, Children
    <3>2. before[e] <= after[e] /\ before[e] # after[e] /\ revision[parent[r]] <= before[e]
      BY <2>2, <2>3, <3>1 DEF LoopRecords, Repairs, Effective
    <3>3. /\ after[e] \in Nat /\ before[e] \in Nat /\ revision[r] \in Nat
          /\ revision[parent[r]] \in Nat
      BY <2>2, <2>3, LoopAssumption DEF LoopTypeOK, Versions
    <3>4. revision[r] # revision[parent[r]]
      BY <3>1, <3>2, <3>3
    <3>5. QED
      BY <2>2, <2>3, <3>1, <3>4 DEF LoopRecords, Children, Effective
  <2>4. QED
    BY <2>2, <2>3 DEF RepairChain, LoopRecords, Repairs
<1>2. QED
  BY <1>1, LoopInvariant, PTL

\* Without faults nothing is left behind: whoever could end a RUNNING report,
\* or an active repair run, still exists.
THEOREM LoopsLeaveNothing == Spec => []NothingStranded
<1>1. LoopInv => NothingStranded
  BY DEF LoopInv, LoopRecords
<1>2. QED
  BY <1>1, LoopInvariant, PTL

=============================================================================
