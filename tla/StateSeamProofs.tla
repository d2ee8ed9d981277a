--------------------------- MODULE StateSeamProofs ---------------------------
(***************************************************************************)
(* What the transactions of StateSeam preserve whatever their callers do,  *)
(* for any set of node types and any number of executions.                 *)
(***************************************************************************)
EXTENDS StateSeam, TLAPS

\* Counting one more event keeps the counters in range.
LEMMA EmitType ==
  ASSUME SeamTypeOK, NEW e \in Executions, NEW k \in TerminalEvent, Emit(e, k)
  PROVE  events' \in [Executions -> [TerminalEvent -> EventCount]]
<1> DEFINE new == IF events[e][k] < 2 THEN events[e][k] + 1 ELSE events[e][k]
<1>1. events[e][k] \in EventCount
  BY DEF SeamTypeOK
<1>2. new \in EventCount
  BY <1>1 DEF EventCount
<1>3. events' = [events EXCEPT ![e] = [events[e] EXCEPT ![k] = new]]
  BY DEF Emit
<1>4. [events[e] EXCEPT ![k] = new] \in [TerminalEvent -> EventCount]
  BY <1>2 DEF SeamTypeOK
<1>5. QED
  BY <1>3, <1>4 DEF SeamTypeOK

LEMMA SeamTypeInit == SeamInit => SeamTypeOK
<1> SUFFICES ASSUME SeamInit
             PROVE  SeamTypeOK
  OBVIOUS
<1>1. project \in ProjectStatus /\ discovered \in BOOLEAN
  BY DEF SeamInit, ProjectStatus
<1>2. /\ workflow \in [Executions -> WorkflowStatus \union {Absent}]
      /\ kind \in [Executions -> WorkflowType \union {Absent}]
      /\ execution \in [Executions -> ExecutionStatus \union {Absent}]
      /\ origin \in [Executions -> NodeTypes \union {Absent}]
  BY DEF SeamInit, NoRuns
<1>3. build \in [Executions -> Executions]
  BY DEF SeamInit, NoRuns
<1>4. node \in [Executions -> [NodeTypes -> NodeStatus \union {Absent}]]
  BY DEF SeamInit, NoRuns
<1>5. events \in [Executions -> [TerminalEvent -> EventCount]]
  BY DEF SeamInit, NoRuns, EventCount
<1>6. QED
  BY <1>1, <1>2, <1>3, <1>4, <1>5 DEF SeamTypeOK

LEMMA SeamTypeNext == SeamTypeOK /\ [SeamNext]_seamVars => SeamTypeOK'
<1> SUFFICES ASSUME SeamTypeOK, [SeamNext]_seamVars
             PROVE  SeamTypeOK'
  OBVIOUS
<1> USE SeamAssumption DEF SeamTypeOK, ProjectStatus, WorkflowStatus,
      ExecutionStatus, NodeStatus, WorkflowType, TerminalEvent, EventCount
<1>1. CASE CompleteDiscovery
  BY <1>1 DEF CompleteDiscovery
<1>2. ASSUME NEW e \in Executions, StartHcrRun(e)
      PROVE  SeamTypeOK'
  BY <1>2 DEF StartHcrRun, CreateExecution
<1>3. ASSUME NEW e \in Executions, NEW d \in Executions, NEW t \in NodeTypes,
             ResumeHcrRun(e, d, t)
      PROVE  SeamTypeOK'
  BY <1>3 DEF ResumeHcrRun, CreateExecution
<1>4. ASSUME NEW e \in Executions, CreateRepairRun(e)
      PROVE  SeamTypeOK'
  BY <1>4 DEF CreateRepairRun, CreateExecution
<1>5. ASSUME NEW e \in Executions, CompleteExecution(e)
      PROVE  SeamTypeOK'
  BY <1>5, EmitType DEF CompleteExecution, IsOver, Finish, seamVars
<1>6. ASSUME NEW e \in Executions, CompleteExecutionPartially(e)
      PROVE  SeamTypeOK'
  BY <1>6, EmitType DEF CompleteExecutionPartially, IsOver, Finish, seamVars
<1>7. ASSUME NEW e \in Executions, CancelExecution(e)
      PROVE  SeamTypeOK'
  BY <1>7, EmitType DEF CancelExecution
<1>8. ASSUME NEW e \in Executions, NEW t \in NodeTypes, BeginNode(e, t)
      PROVE  SeamTypeOK'
  BY <1>8 DEF BeginNode, MarkExecutionRunning, MarkNodeRunning
<1>9. ASSUME NEW e \in Executions, NEW t \in NodeTypes, CompleteNode(e, t)
      PROVE  SeamTypeOK'
  BY <1>9 DEF CompleteNode
<1>10. ASSUME NEW e \in Executions, NEW t \in NodeTypes, StopNode(e, t)
       PROVE  SeamTypeOK'
  BY <1>10 DEF StopNode
<1>11. ASSUME NEW e \in Executions, NEW t \in NodeTypes, FailExecution(e, t)
       PROVE  SeamTypeOK'
  BY <1>11, EmitType DEF FailExecution
<1>12. ASSUME NEW e \in Executions,
              NEW T \in SUBSET (NodeTypes \ {RepairNode}), CreateNodes(e, T)
       PROVE  SeamTypeOK'
  BY <1>12 DEF CreateNodes
<1>13. CASE UNCHANGED seamVars
  BY <1>13 DEF seamVars
<1>14. QED
  BY <1>1, <1>2, <1>3, <1>4, <1>5, <1>6, <1>7, <1>8, <1>9, <1>10, <1>11,
     <1>12, <1>13 DEF SeamNext

\* Every reachable state of the rows is well typed: no transaction writes a
\* status that the schema does not have, or to a row that cannot exist.
THEOREM SeamTypeCorrect == SeamSpec => []SeamTypeOK
  BY SeamTypeInit, SeamTypeNext, PTL DEF SeamSpec

-----------------------------------------------------------------------------
(* Rows and links *)

LEMMA LinksInit == SeamInit => RowsAreLinked
  BY DEF SeamInit, NoRuns, RowsAreLinked, Exists

LEMMA LinksNext ==
  SeamTypeOK /\ RowsAreLinked /\ [SeamNext]_seamVars => RowsAreLinked'
<1> SUFFICES ASSUME SeamTypeOK, RowsAreLinked, [SeamNext]_seamVars
             PROVE  RowsAreLinked'
  OBVIOUS
<1> USE DEF SeamTypeOK, RowsAreLinked, Exists, Absent
<1>1. CASE CompleteDiscovery
  BY <1>1 DEF CompleteDiscovery
<1>2. ASSUME NEW e \in Executions, StartHcrRun(e)
      PROVE  RowsAreLinked'
  BY <1>2, SeamAssumption DEF StartHcrRun, CreateExecution, IsNext
<1>3. ASSUME NEW e \in Executions, NEW d \in Executions, NEW t \in NodeTypes,
             ResumeHcrRun(e, d, t)
      PROVE  RowsAreLinked'
  BY <1>3 DEF ResumeHcrRun, CreateExecution, IsNext
<1>4. ASSUME NEW e \in Executions, CreateRepairRun(e)
      PROVE  RowsAreLinked'
  BY <1>4, SeamAssumption DEF CreateRepairRun, CreateExecution, IsNext
<1>5. ASSUME NEW e \in Executions, CompleteExecution(e)
      PROVE  RowsAreLinked'
  BY <1>5 DEF CompleteExecution, IsOver, Finish, seamVars
<1>6. ASSUME NEW e \in Executions, CompleteExecutionPartially(e)
      PROVE  RowsAreLinked'
  BY <1>6 DEF CompleteExecutionPartially, IsOver, Finish, seamVars
<1>7. ASSUME NEW e \in Executions, CancelExecution(e)
      PROVE  RowsAreLinked'
  BY <1>7 DEF CancelExecution, Active
<1>8. ASSUME NEW e \in Executions, NEW t \in NodeTypes, BeginNode(e, t)
      PROVE  RowsAreLinked'
  BY <1>8 DEF BeginNode, MarkExecutionRunning, MarkNodeRunning
<1>9. ASSUME NEW e \in Executions, NEW t \in NodeTypes, CompleteNode(e, t)
      PROVE  RowsAreLinked'
  BY <1>9 DEF CompleteNode
<1>10. ASSUME NEW e \in Executions, NEW t \in NodeTypes, StopNode(e, t)
       PROVE  RowsAreLinked'
  BY <1>10 DEF StopNode
<1>11. ASSUME NEW e \in Executions, NEW t \in NodeTypes, FailExecution(e, t)
       PROVE  RowsAreLinked'
  BY <1>11 DEF FailExecution
<1>12. ASSUME NEW e \in Executions,
              NEW T \in SUBSET (NodeTypes \ {RepairNode}), CreateNodes(e, T)
       PROVE  RowsAreLinked'
  BY <1>12 DEF CreateNodes
<1>13. CASE UNCHANGED seamVars
  BY <1>13 DEF seamVars
<1>14. QED
  BY <1>1, <1>2, <1>3, <1>4, <1>5, <1>6, <1>7, <1>8, <1>9, <1>10, <1>11,
     <1>12, <1>13 DEF SeamNext

\* Rows are inserted whole and never orphaned, whatever the callers do.
THEOREM RowsLinked == SeamSpec => []RowsAreLinked
  BY SeamTypeCorrect, LinksInit, LinksNext, PTL DEF SeamSpec

-----------------------------------------------------------------------------
(* Rows stay *)

RowsKept ==
    \A c \in Executions :
        Exists(c) => Exists(c)' /\ origin'[c] = origin[c] /\ build'[c] = build[c]

\* No transaction deletes an execution, or moves it to another build.
LEMMA RowsStay == SeamTypeOK /\ [SeamNext]_seamVars => RowsKept
<1> SUFFICES ASSUME SeamTypeOK, [SeamNext]_seamVars
             PROVE  RowsKept
  OBVIOUS
<1> USE DEF SeamTypeOK, RowsKept, Exists, Absent, Active
<1>1. CASE CompleteDiscovery
  BY <1>1 DEF CompleteDiscovery
<1>2. ASSUME NEW e \in Executions,
             StartHcrRun(e)
      PROVE  RowsKept
  BY <1>2 DEF StartHcrRun, CreateExecution, IsNext
<1>3. ASSUME NEW e \in Executions, NEW d \in Executions, NEW t \in NodeTypes,
             ResumeHcrRun(e, d, t)
      PROVE  RowsKept
  BY <1>3 DEF ResumeHcrRun, CreateExecution, IsNext
<1>4. ASSUME NEW e \in Executions,
             CreateRepairRun(e)
      PROVE  RowsKept
  BY <1>4 DEF CreateRepairRun, CreateExecution, IsNext
<1>5. ASSUME NEW e \in Executions,
             CompleteExecution(e)
      PROVE  RowsKept
  BY <1>5 DEF CompleteExecution, IsOver, Finish, seamVars
<1>6. ASSUME NEW e \in Executions,
             CompleteExecutionPartially(e)
      PROVE  RowsKept
  BY <1>6 DEF CompleteExecutionPartially, IsOver, Finish, seamVars
<1>7. ASSUME NEW e \in Executions,
             CancelExecution(e)
      PROVE  RowsKept
  BY <1>7 DEF CancelExecution
<1>8. ASSUME NEW e \in Executions, NEW t \in NodeTypes,
             BeginNode(e, t)
      PROVE  RowsKept
  BY <1>8 DEF BeginNode, MarkExecutionRunning, MarkNodeRunning
<1>9. ASSUME NEW e \in Executions, NEW t \in NodeTypes,
             CompleteNode(e, t)
      PROVE  RowsKept
  BY <1>9 DEF CompleteNode
<1>10. ASSUME NEW e \in Executions, NEW t \in NodeTypes,
              StopNode(e, t)
       PROVE  RowsKept
  BY <1>10 DEF StopNode
<1>11. ASSUME NEW e \in Executions, NEW t \in NodeTypes,
              FailExecution(e, t)
       PROVE  RowsKept
  BY <1>11 DEF FailExecution
<1>12. ASSUME NEW e \in Executions,
              NEW T \in SUBSET (NodeTypes \ {RepairNode}),
              CreateNodes(e, T)
       PROVE  RowsKept
  BY <1>12 DEF CreateNodes
<1>13. CASE UNCHANGED seamVars
  BY <1>13 DEF seamVars
<1>14. QED
  BY <1>1, <1>2, <1>3, <1>4, <1>5, <1>6, <1>7, <1>8, <1>9, <1>10, <1>11,
     <1>12, <1>13 DEF SeamNext

-----------------------------------------------------------------------------
(* The lock *)

LEMMA LockNext ==
  SeamTypeOK /\ RowsAreLinked /\ LockHasHolder /\ [SeamNext]_seamVars
    => LockHasHolder'
<1> SUFFICES ASSUME SeamTypeOK, RowsAreLinked, LockHasHolder,
                    [SeamNext]_seamVars
             PROVE  LockHasHolder'
  OBVIOUS
<1> USE DEF SeamTypeOK, RowsAreLinked, LockHasHolder, Active, Exists, Absent
<1>1. CASE CompleteDiscovery
  BY <1>1 DEF CompleteDiscovery
<1>2. ASSUME NEW e \in Executions,
             StartHcrRun(e)
      PROVE  LockHasHolder'
  BY <1>2 DEF StartHcrRun, CreateExecution, IsNext
<1>3. ASSUME NEW e \in Executions, NEW d \in Executions, NEW t \in NodeTypes,
             ResumeHcrRun(e, d, t)
      PROVE  LockHasHolder'
  BY <1>3 DEF ResumeHcrRun, CreateExecution, IsNext
<1>4. ASSUME NEW e \in Executions,
             CreateRepairRun(e)
      PROVE  LockHasHolder'
  <2>1. SUFFICES ASSUME project = "IN_PROGRESS"
                 PROVE  LockHasHolder'
    BY <1>4 DEF CreateRepairRun
  <2>2. PICK d \in Executions : Active(d) /\ kind[build[d]] = "HCR"
    BY <2>1
  <2>3. d # e /\ build[d] # e
    BY <1>4, <2>2 DEF CreateRepairRun, CreateExecution, IsNext
  <2>4. QED
    BY <1>4, <2>2, <2>3 DEF CreateRepairRun, CreateExecution
<1>5. ASSUME NEW e \in Executions,
             CompleteExecution(e)
      PROVE  LockHasHolder'
  BY <1>5 DEF CompleteExecution, IsOver, Finish, seamVars
<1>6. ASSUME NEW e \in Executions,
             CompleteExecutionPartially(e)
      PROVE  LockHasHolder'
  BY <1>6 DEF CompleteExecutionPartially, IsOver, Finish, seamVars
<1>7. ASSUME NEW e \in Executions,
             CancelExecution(e)
      PROVE  LockHasHolder'
  BY <1>7 DEF CancelExecution
<1>8. ASSUME NEW e \in Executions, NEW t \in NodeTypes,
             BeginNode(e, t)
      PROVE  LockHasHolder'
  BY <1>8 DEF BeginNode, MarkExecutionRunning, MarkNodeRunning
<1>9. ASSUME NEW e \in Executions, NEW t \in NodeTypes,
             CompleteNode(e, t)
      PROVE  LockHasHolder'
  BY <1>9 DEF CompleteNode
<1>10. ASSUME NEW e \in Executions, NEW t \in NodeTypes,
              StopNode(e, t)
       PROVE  LockHasHolder'
  BY <1>10 DEF StopNode
<1>11. ASSUME NEW e \in Executions, NEW t \in NodeTypes,
              FailExecution(e, t)
       PROVE  LockHasHolder'
  BY <1>11 DEF FailExecution
<1>12. ASSUME NEW e \in Executions,
              NEW T \in SUBSET (NodeTypes \ {RepairNode}),
              CreateNodes(e, T)
       PROVE  LockHasHolder'
  BY <1>12 DEF CreateNodes
<1>13. CASE UNCHANGED seamVars
  BY <1>13 DEF seamVars
<1>14. QED
  BY <1>1, <1>2, <1>3, <1>4, <1>5, <1>6, <1>7, <1>8, <1>9, <1>10, <1>11,
     <1>12, <1>13 DEF SeamNext

\* A project is never locked by nobody: every transition that ends an
\* execution also moves the project out of IN_PROGRESS.
THEOREM LockHeld == SeamSpec => []LockHasHolder
<1>1. SeamInit => LockHasHolder
  BY DEF SeamInit, LockHasHolder
<1>2. QED
  BY SeamTypeCorrect, RowsLinked, LockNext, <1>1, PTL DEF SeamSpec

-----------------------------------------------------------------------------
(* Terminal statuses and events *)

\* An execution that failed stays failed and one that was cancelled never
\* succeeds, whatever late completion arrives.
THEOREM Resurrection == SeamSpec => NoResurrection
<1>1. SeamTypeOK /\ [SeamNext]_seamVars => [TerminalKept]_seamVars
  <2> SUFFICES ASSUME SeamTypeOK, SeamNext
               PROVE  TerminalKept
    OBVIOUS
  <2> USE DEF TerminalKept, SeamTypeOK, Exists, Active, Absent
  <2>1. ASSUME UNCHANGED execution
        PROVE  TerminalKept
    BY <2>1
  <2>2. ASSUME NEW e \in Executions, NEW w, NEW t, CreateExecution(e, w, t)
        PROVE  TerminalKept
    BY <2>2 DEF CreateExecution, IsNext
  <2>3. ASSUME NEW e \in Executions, CompleteExecution(e)
        PROVE  TerminalKept
    BY <2>3 DEF CompleteExecution, IsOver, Finish, seamVars
  <2>4. ASSUME NEW e \in Executions, CompleteExecutionPartially(e)
        PROVE  TerminalKept
    BY <2>4 DEF CompleteExecutionPartially, IsOver, Finish, seamVars
  <2>5. ASSUME NEW e \in Executions, CancelExecution(e)
        PROVE  TerminalKept
    BY <2>5 DEF CancelExecution
  <2>6. ASSUME NEW e \in Executions, NEW t \in NodeTypes, FailExecution(e, t)
        PROVE  TerminalKept
    BY <2>6 DEF FailExecution
  <2>7. ASSUME NEW e \in Executions, NEW t \in NodeTypes, BeginNode(e, t)
        PROVE  TerminalKept
    BY <2>7 DEF BeginNode, MarkExecutionRunning
  <2>8. QED
    BY <2>1, <2>2, <2>3, <2>4, <2>5, <2>6, <2>7
    DEF SeamNext, CompleteDiscovery, StartHcrRun, ResumeHcrRun,
        CreateRepairRun, CompleteNode, StopNode, CreateNodes
<1>2. QED
  BY SeamTypeCorrect, <1>1, PTL DEF SeamSpec, NoResurrection

\* What makes EventsMatchRows inductive: a success was announced only for an
\* execution that still shows it or failed later, and a row that does not
\* exist was never announced.
EventsFollowRows ==
    \A c \in Executions :
        /\ events[c]["completed"] <= 1
        /\ events[c]["incomplete"] <= 1
        /\ execution[c] = "COMPLETED" => events[c]["completed"] = 1
        /\ events[c]["completed"] = 1 => execution[c] \in {"COMPLETED", "FAILED"}
        /\ execution[c] = "PARTIAL" => events[c]["incomplete"] = 1
        /\ events[c]["incomplete"] = 1 =>
              execution[c] \in {"PARTIAL", "COMPLETED", "FAILED"}
        /\ execution[c] = "CANCELLED" => events[c]["cancelled"] > 0
        /\ events[c]["failed"] > 0 <=> execution[c] = "FAILED"

\* Emit adds to one counter and leaves the others.
LEMMA EmitEffect ==
  ASSUME SeamTypeOK, NEW e \in Executions, NEW k \in TerminalEvent, Emit(e, k)
  PROVE  /\ \A c \in Executions, l \in TerminalEvent :
                c # e \/ l # k => events'[c][l] = events[c][l]
         /\ events[e][k] = 0 => events'[e][k] = 1
         /\ events'[e][k] > 0
<1>1. events[e][k] \in 0 .. 2
  BY DEF SeamTypeOK, EventCount
<1>2. QED
  BY <1>1 DEF Emit, SeamTypeOK

LEMMA EventsNext ==
  SeamTypeOK /\ EventsFollowRows /\ [SeamNext]_seamVars => EventsFollowRows'
<1> SUFFICES ASSUME SeamTypeOK, EventsFollowRows, [SeamNext]_seamVars
             PROVE  EventsFollowRows'
  OBVIOUS
<1> USE DEF SeamTypeOK, EventsFollowRows, Active, Exists, Absent,
            TerminalEvent, EventCount
<1>1. CASE CompleteDiscovery
  BY <1>1 DEF CompleteDiscovery
<1>2. ASSUME NEW e \in Executions,
             StartHcrRun(e)
      PROVE  EventsFollowRows'
  BY <1>2 DEF StartHcrRun, CreateExecution, IsNext
<1>3. ASSUME NEW e \in Executions, NEW d \in Executions, NEW t \in NodeTypes,
             ResumeHcrRun(e, d, t)
      PROVE  EventsFollowRows'
  BY <1>3 DEF ResumeHcrRun, CreateExecution, IsNext
<1>4. ASSUME NEW e \in Executions,
             CreateRepairRun(e)
      PROVE  EventsFollowRows'
  BY <1>4 DEF CreateRepairRun, CreateExecution, IsNext
<1>5. ASSUME NEW e \in Executions,
             CompleteExecution(e)
      PROVE  EventsFollowRows'
  BY <1>5, EmitEffect DEF CompleteExecution, IsOver, Finish, seamVars
<1>6. ASSUME NEW e \in Executions,
             CompleteExecutionPartially(e)
      PROVE  EventsFollowRows'
  <2>1. CASE UNCHANGED seamVars
    BY <2>1 DEF seamVars
  <2>2. CASE /\ execution[e] \notin {"COMPLETED", "FAILED", "CANCELLED", "PARTIAL"}
             /\ Finish(e, "PARTIAL", "INCOMPLETE", "incomplete")
    <3>1. events[e]["incomplete"] \in 0 .. 2 /\ events[e]["completed"] \in 0 .. 2
      OBVIOUS
    <3>2. events[e]["incomplete"] = 0 /\ events[e]["completed"] = 0
      BY <2>2, <3>1
    <3>3. QED
      BY <2>2, <3>2, EmitEffect DEF Finish
  <2>3. QED
    BY <1>6, <2>1, <2>2 DEF CompleteExecutionPartially, IsOver
<1>7. ASSUME NEW e \in Executions,
             CancelExecution(e)
      PROVE  EventsFollowRows'
  <2>1. CASE Active(e) \/ workflow[build[e]] \in {"CREATED", "QUEUED", "RUNNING", "PAUSED"}
    <3>1. Emit(e, "cancelled")
      BY <1>7, <2>1 DEF CancelExecution
    <3>2. QED
      BY <1>7, <3>1, EmitEffect DEF CancelExecution
  <2>2. CASE ~(Active(e) \/ workflow[build[e]] \in {"CREATED", "QUEUED", "RUNNING", "PAUSED"})
    BY <1>7, <2>2 DEF CancelExecution
  <2>3. QED
    BY <2>1, <2>2
<1>8. ASSUME NEW e \in Executions, NEW t \in NodeTypes,
             BeginNode(e, t)
      PROVE  EventsFollowRows'
  BY <1>8 DEF BeginNode, MarkExecutionRunning, MarkNodeRunning
<1>9. ASSUME NEW e \in Executions, NEW t \in NodeTypes,
             CompleteNode(e, t)
      PROVE  EventsFollowRows'
  BY <1>9 DEF CompleteNode
<1>10. ASSUME NEW e \in Executions, NEW t \in NodeTypes,
              StopNode(e, t)
       PROVE  EventsFollowRows'
  BY <1>10 DEF StopNode
<1>11. ASSUME NEW e \in Executions, NEW t \in NodeTypes,
              FailExecution(e, t)
       PROVE  EventsFollowRows'
  BY <1>11, EmitEffect DEF FailExecution
<1>12. ASSUME NEW e \in Executions,
              NEW T \in SUBSET (NodeTypes \ {RepairNode}),
              CreateNodes(e, T)
       PROVE  EventsFollowRows'
  BY <1>12 DEF CreateNodes
<1>13. CASE UNCHANGED seamVars
  BY <1>13 DEF seamVars
<1>14. QED
  BY <1>1, <1>2, <1>3, <1>4, <1>5, <1>6, <1>7, <1>8, <1>9, <1>10, <1>11,
     <1>12, <1>13 DEF SeamNext

\* The timeline agrees with the rows: whatever is retried, each success is
\* announced once and each terminal status has its event.
THEOREM TimelineMatches == SeamSpec => []EventsMatchRows
<1>1. SeamInit => EventsFollowRows
  BY DEF SeamInit, NoRuns, EventsFollowRows, TerminalEvent, Absent
<1>2. SeamTypeOK /\ EventsFollowRows => EventsMatchRows
  <2> SUFFICES ASSUME SeamTypeOK, EventsFollowRows, NEW c \in Executions
               PROVE  EventsMatchRows!(c)
    BY DEF EventsMatchRows
  <2>1. \A k \in TerminalEvent : events[c][k] \in 0 .. 2
    BY DEF SeamTypeOK, EventCount
  <2>2. QED
    BY <2>1 DEF EventsFollowRows, Active, TerminalEvent
<1>3. QED
  BY SeamTypeCorrect, EventsNext, <1>1, <1>2, PTL DEF SeamSpec
=============================================================================
