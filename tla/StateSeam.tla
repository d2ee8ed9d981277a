------------------------------ MODULE StateSeam ------------------------------
(***************************************************************************)
(* The run rows of one project and every transaction that writes them:     *)
(* the project status, the workflow (one per build), the executions (one   *)
(* per attempt) and their nodes, with the terminal events that commit with *)
(* them.  The transactions are those of src/runtime/state/transitions.ts,  *)
(* the two admissions of a build, the creation of a repair run, the end of *)
(* discovery and the node-row writes of the executor and the coordinator.  *)
(*                                                                         *)
(* SeamSpec lets any caller run any transaction at any time: it is what the *)
(* seam promises whatever its callers do, and what the modules that model  *)
(* the callers (HcrBuild, VerificationLoop) are shown to implement.        *)
(*                                                                         *)
(* Rows are created in the order of their numbers, so "latest by           *)
(* createdAt" is the greatest number.  A workflow is known by the number   *)
(* of the first execution of its build.                                    *)
(***************************************************************************)
EXTENDS Naturals

CONSTANTS
    NodeTypes,       \* agent node types of the build graph, and the repair node
    FirstNode,       \* the node a fresh build starts at (ARCHITECT)
    RepairNode,      \* the only node of a repair run (REPAIR)
    MaxExecutions    \* bound: executions ever created in the project

Absent == "ABSENT"   \* no such row

ASSUME SeamAssumption ==
    /\ FirstNode \in NodeTypes
    /\ RepairNode \in NodeTypes
    /\ Absent \notin NodeTypes
    /\ MaxExecutions \in Nat

VARIABLES
    project,         \* Project.status
    discovered,      \* a DISCOVERY_REQUIREMENT artifact exists
    workflow,        \* Workflow.status, by build
    kind,            \* Workflow.type, by build
    execution,       \* Execution.status
    build,           \* Execution.workflowId
    origin,          \* type of the node the execution was created with
    node,            \* Node.status, by execution and type
    events           \* how many terminal RuntimeEvents of each type exist

seamVars == <<project, discovered, workflow, kind, execution, build, origin,
              node, events>>

Executions == 1 .. MaxExecutions

ProjectStatus == {"DISCOVERY", "PENDING", "IN_PROGRESS", "IDLE", "INCOMPLETE",
                  "FAILED"}
WorkflowStatus == {"CREATED", "QUEUED", "RUNNING", "PAUSED", "COMPLETED",
                   "FAILED", "CANCELLED"}
ExecutionStatus == {"CREATED", "RUNNING", "COMPLETED", "PARTIAL", "FAILED",
                    "CANCELLED"}
NodeStatus == {"CREATED", "RUNNING", "COMPLETED", "INCOMPLETE", "FAILED",
               "SKIPPED"}
WorkflowType == {"HCR", "REPAIR"}
TerminalEvent == {"completed", "incomplete", "cancelled", "failed"}

\* Event counts are 0, 1 or "two or more".
EventCount == 0 .. 2

Exists(e) == execution[e] # Absent
Active(e) == execution[e] \in {"CREATED", "RUNNING"}

SeamTypeOK ==
    /\ project \in ProjectStatus
    /\ discovered \in BOOLEAN
    /\ workflow \in [Executions -> WorkflowStatus \union {Absent}]
    /\ kind \in [Executions -> WorkflowType \union {Absent}]
    /\ execution \in [Executions -> ExecutionStatus \union {Absent}]
    /\ build \in [Executions -> Executions]
    /\ origin \in [Executions -> NodeTypes \union {Absent}]
    /\ node \in [Executions -> [NodeTypes -> NodeStatus \union {Absent}]]
    /\ events \in [Executions -> [TerminalEvent -> EventCount]]

\* No run was ever created.
NoRuns ==
    /\ workflow = [e \in Executions |-> Absent]
    /\ kind = [e \in Executions |-> Absent]
    /\ execution = [e \in Executions |-> Absent]
    /\ build = [e \in Executions |-> e]
    /\ origin = [e \in Executions |-> Absent]
    /\ node = [e \in Executions |-> [t \in NodeTypes |-> Absent]]
    /\ events = [e \in Executions |-> [k \in TerminalEvent |-> 0]]

SeamInit == project = "DISCOVERY" /\ discovered = FALSE /\ NoRuns

-----------------------------------------------------------------------------
(* Helpers *)

\* e is the row the next create inserts.
IsNext(e) == ~Exists(e) /\ \A d \in Executions : d < e => Exists(d)

\* One more event of type k for execution e.
Emit(e, k) ==
    events' = [events EXCEPT ![e][k] = IF @ < 2 THEN @ + 1 ELSE @]

\* Mutant: the execution is not linked to the build it belongs to.
CreateUnlinked(e, w, t) ==
    /\ IsNext(e)
    /\ execution' = [execution EXCEPT ![e] = "CREATED"]
    /\ UNCHANGED build
    /\ origin' = [origin EXCEPT ![e] = t]
    /\ node' = [node EXCEPT ![e][t] = "CREATED"]

\* A new execution e of build w whose first node, at CREATED, is t.
CreateExecution(e, w, t) ==
    /\ IsNext(e)
    /\ execution' = [execution EXCEPT ![e] = "CREATED"]
    /\ build' = [build EXCEPT ![e] = w]
    /\ origin' = [origin EXCEPT ![e] = t]
    /\ node' = [node EXCEPT ![e][t] = "CREATED"]

-----------------------------------------------------------------------------
(* Admissions *)

\* Discovery produced its requirements.  The project is updated without a
\* guard on its status.
CompleteDiscovery ==
    /\ project' = "PENDING"
    /\ discovered' = TRUE
    /\ UNCHANGED <<workflow, kind, execution, build, origin, node, events>>

\* Mutants: the conditional updates forget that a build may be running.
StartAnyTime == {"PENDING", "IDLE", "IN_PROGRESS"}
ResumeAnyTime == {"FAILED", "INCOMPLETE", "IDLE", "PENDING", "IN_PROGRESS"}

\* The project statuses a fresh build, and a resumed one, are admitted from.
StartStatus == {"PENDING", "IDLE"}
ResumeStatus == {"FAILED", "INCOMPLETE", "IDLE", "PENDING"}

\* A fresh build: the conditional update of the project is its lock.
StartHcrRun(e) ==
    /\ discovered
    /\ project \in StartStatus
    /\ project' = "IN_PROGRESS"
    /\ CreateExecution(e, e, FirstNode)
    /\ workflow' = [workflow EXCEPT ![e] = "CREATED"]
    /\ kind' = [kind EXCEPT ![e] = "HCR"]
    /\ UNCHANGED <<discovered, events>>

\* A new attempt of the build of execution d, starting at node type t.
ResumeHcrRun(e, d, t) ==
    /\ node[d][t] # Absent
    /\ kind[build[d]] = "HCR"
    /\ project \in ResumeStatus
    /\ project' = "IN_PROGRESS"
    /\ CreateExecution(e, build[d], t)
    /\ workflow' = [workflow EXCEPT ![build[d]] = "CREATED"]
    /\ UNCHANGED <<discovered, kind, events>>

\* The rows of one repair pass: a workflow of its own, and no lock.
CreateRepairRun(e) ==
    /\ CreateExecution(e, e, RepairNode)
    /\ workflow' = [workflow EXCEPT ![e] = "RUNNING"]
    /\ kind' = [kind EXCEPT ![e] = "REPAIR"]
    /\ UNCHANGED <<project, discovered, events>>

-----------------------------------------------------------------------------
(* Transitions of a run *)

MarkExecutionRunning(e) ==
    execution' = [execution EXCEPT ![e] = IF @ = "CREATED" THEN "RUNNING" ELSE @]

MarkNodeRunning(e, t) ==
    node' = [node EXCEPT ![e][t] = IF @ = "CREATED" THEN "RUNNING" ELSE @]

\* The two writes that open an attempt of a node.  Each is conditional on the
\* status it moves from, so another transaction between them changes nothing.
BeginNode(e, t) ==
    /\ node[e][t] # Absent
    /\ MarkExecutionRunning(e)
    /\ MarkNodeRunning(e, t)
    /\ UNCHANGED <<project, discovered, workflow, kind, build, origin, events>>

\* Whatever the node's status is, unless it is already COMPLETED.
CompleteNode(e, t) ==
    /\ node[e][t] # Absent
    /\ node' = [node EXCEPT ![e][t] = "COMPLETED"]
    /\ UNCHANGED <<project, discovered, workflow, kind, execution, build,
                   origin, events>>

StopNode(e, t) ==
    /\ node[e][t] # Absent
    /\ node' = [node EXCEPT ![e][t] =
                    IF @ = "COMPLETED" THEN @ ELSE "INCOMPLETE"]
    /\ UNCHANGED <<project, discovered, workflow, kind, execution, build,
                   origin, events>>

\* Find-or-create of the nodes of types T.
CreateNodes(e, T) ==
    /\ Exists(e)
    /\ kind[build[e]] = "HCR"
    /\ node' = [node EXCEPT ![e] =
                    [t \in NodeTypes |->
                        IF t \in T /\ @[t] = Absent THEN "CREATED" ELSE @[t]]]
    /\ UNCHANGED <<project, discovered, workflow, kind, execution, build,
                   origin, events>>

FailExecution(e, t) ==
    /\ node[e][t] # Absent
    /\ project' = "FAILED"
    /\ workflow' = [workflow EXCEPT ![build[e]] = "FAILED"]
    /\ execution' = [execution EXCEPT ![e] = "FAILED"]
    /\ node' = [node EXCEPT ![e][t] = "FAILED"]
    /\ IF \/ workflow[build[e]] # "FAILED"
          \/ execution[e] # "FAILED"
          \/ node[e][t] # "FAILED"
          \/ project # "FAILED"
       THEN Emit(e, "failed")
       ELSE UNCHANGED events
    /\ UNCHANGED <<discovered, kind, build, origin>>

\* Mutant: the end of a run does not release the project.
FinishHoldsLock(e, status, projectStatus, event) ==
    /\ execution' = [execution EXCEPT ![e] = status]
    /\ workflow' = [workflow EXCEPT ![build[e]] = "COMPLETED"]
    /\ Emit(e, event)
    /\ UNCHANGED <<project, discovered, kind, build, origin, node>>

\* The common tail of the two successful ends.
Finish(e, status, projectStatus, event) ==
    /\ execution' = [execution EXCEPT ![e] = status]
    /\ workflow' = [workflow EXCEPT ![build[e]] = "COMPLETED"]
    /\ project' = projectStatus
    /\ Emit(e, event)
    /\ UNCHANGED <<discovered, kind, build, origin, node>>

\* Mutant: a repeated finalization is not told from the first.
OverFailed(e) == execution[e] \in {"FAILED", "CANCELLED"}

\* Mutant: only a completed run counts as over.
OverCompleted(e) == execution[e] = "COMPLETED"

IsOver(e) == execution[e] \in {"COMPLETED", "FAILED", "CANCELLED"}

CompleteExecution(e) ==
    IF Exists(e) /\ ~IsOver(e)
    THEN Finish(e, "COMPLETED", "IDLE", "completed")
    ELSE UNCHANGED seamVars

\* Mutant: the project takes the execution's status for its own.
PartialProject(e) ==
    IF Exists(e) /\ ~IsOver(e) /\ execution[e] # "PARTIAL"
    THEN Finish(e, "PARTIAL", "PARTIAL", "incomplete")
    ELSE UNCHANGED seamVars

CompleteExecutionPartially(e) ==
    IF Exists(e) /\ ~IsOver(e) /\ execution[e] # "PARTIAL"
    THEN Finish(e, "PARTIAL", "INCOMPLETE", "incomplete")
    ELSE UNCHANGED seamVars

\* The project returns to IDLE whether or not anything was cancelled.
CancelExecution(e) ==
    LET w == build[e]
        open == {"CREATED", "QUEUED", "RUNNING", "PAUSED"}
    IN  /\ Exists(e)
        /\ execution' = [execution EXCEPT ![e] = IF Active(e) THEN "CANCELLED" ELSE @]
        /\ workflow' = [workflow EXCEPT ![w] = IF @ \in open THEN "CANCELLED" ELSE @]
        /\ node' = [node EXCEPT ![e] =
                        [t \in NodeTypes |->
                            IF @[t] \in {"CREATED", "RUNNING"} THEN "SKIPPED" ELSE @[t]]]
        /\ project' = "IDLE"
        /\ IF Active(e) \/ workflow[w] \in open
           THEN Emit(e, "cancelled")
           ELSE UNCHANGED events
        /\ UNCHANGED <<discovered, kind, build, origin>>

-----------------------------------------------------------------------------

SeamNext ==
    \/ CompleteDiscovery
    \/ \E e \in Executions :
        \/ StartHcrRun(e)
        \/ \E d \in Executions, t \in NodeTypes : ResumeHcrRun(e, d, t)
        \/ CreateRepairRun(e)
        \/ CompleteExecution(e)
        \/ CompleteExecutionPartially(e)
        \/ CancelExecution(e)
        \/ \E t \in NodeTypes :
            \/ BeginNode(e, t)
            \/ CompleteNode(e, t)
            \/ StopNode(e, t)
            \/ FailExecution(e, t)
        \/ \E T \in SUBSET (NodeTypes \ {RepairNode}) : CreateNodes(e, T)

SeamSpec == SeamInit /\ [][SeamNext]_seamVars

-----------------------------------------------------------------------------
(* Properties *)

TerminalKept ==
    \A e \in Executions :
        /\ execution[e] = "FAILED" => execution'[e] = "FAILED"
        /\ execution[e] = "CANCELLED" => execution'[e] \in {"CANCELLED", "FAILED"}

\* A late completion never resurrects a run: once an execution is FAILED it
\* stays FAILED, and once CANCELLED it can only still be failed; in neither
\* case does any later transaction report it as a success.
NoResurrection == [][TerminalKept]_seamVars

\* Each successful end of an execution is announced at most once however
\* often finalization is repeated, and an execution in a terminal status has
\* the event that announces it: the timeline and the rows never disagree.
EventsMatchRows ==
    \A e \in Executions :
        /\ events[e]["completed"] <= 1
        /\ events[e]["incomplete"] <= 1
        /\ execution[e] = "COMPLETED" => events[e]["completed"] = 1
        /\ execution[e] = "PARTIAL" => events[e]["incomplete"] = 1
        /\ execution[e] = "CANCELLED" => events[e]["cancelled"] > 0
        /\ execution[e] = "FAILED" => events[e]["failed"] > 0
        /\ Active(e) => /\ events[e]["completed"] = 0
                        /\ events[e]["incomplete"] = 0
                        /\ events[e]["failed"] = 0

\* Rows are inserted whole: a node row exists only under an execution, the
\* execution has its origin node, and its build has a workflow row of a type.
RowsAreLinked ==
    \A e \in Executions :
        /\ (\E t \in NodeTypes : node[e][t] # Absent) <=> Exists(e)
        /\ Exists(e) => /\ origin[e] \in NodeTypes
                        /\ node[e][origin[e]] # Absent
                        /\ Exists(build[e])
                        /\ workflow[build[e]] # Absent
                        /\ kind[build[e]] # Absent

\* The lock of a project is never held by nobody: while the project is
\* IN_PROGRESS some build has an execution that is not over, so there is
\* always a run to cancel or one whose end will release the lock.
LockHasHolder ==
    project = "IN_PROGRESS" =>
        \E e \in Executions : Active(e) /\ kind[build[e]] = "HCR"
=============================================================================
