------------------------------- MODULE HcrBuild -------------------------------
(***************************************************************************)
(* Builds of one project, from the HTTP request to the end of the Temporal *)
(* workflow: the requests that start, retry and cancel a build (and the    *)
(* discovery turn that makes the first one possible), hcrWorkflow, and the *)
(* node activities it schedules, with their retries.  All of them act on   *)
(* the rows of StateSeam.                                                  *)
(*                                                                         *)
(* What goes wrong is part of the model: a request reads, awaits and acts  *)
(* on what it read; the server dies between two of its steps; Temporal     *)
(* accepts a start whose answer is lost; an attempt of an activity fails,  *)
(* or outlives its lease and goes on writing while the next one runs; a    *)
(* database activity fails for good after committing, or before.  A budget *)
(* of MaxFaults bounds the faults of one behaviour, except failing         *)
(* attempts of node activities and a Temporal server that is down, which   *)
(* are free.                                                               *)
(***************************************************************************)
EXTENDS StateSeam

CONSTANTS
    NextNodes,       \* HCR_TRANSITION_MAP, by the node type that produces the artifact
    Order,           \* graph order of each node type
    ToolNodes,       \* TOOL_CALL_NODES: they call tools and produce no artifact
    MaxAttempts,     \* NODE_ACTIVITY_ATTEMPTS
    Requests,        \* bound: HTTP requests in flight
    Kinds,           \* the kinds of request of this instance
    MaxFaults        \* bound: faults in one behaviour

BuildNodes == NodeTypes \ {RepairNode}

ASSUME BuildAssumption ==
    /\ NextNodes \in [BuildNodes -> SUBSET BuildNodes]
    /\ Order \in [BuildNodes -> Nat]
    /\ \A t \in BuildNodes : \A u \in NextNodes[t] : Order[t] < Order[u]
    /\ ToolNodes \subseteq BuildNodes
    /\ \A t \in BuildNodes : t \in ToolNodes <=> NextNodes[t] = {}
    /\ FirstNode \in BuildNodes
    /\ MaxAttempts \in Nat \ {0}
    /\ Kinds \subseteq {"discover", "start", "retry", "cancel"}
    /\ MaxFaults \in Nat

\* The graph of transition-map.ts has levels, and its tool nodes are the last.
ASSUME LevelAssumption ==
    /\ \A t \in BuildNodes : \A u \in NextNodes[t] : Order[u] = Order[t] + 1
    /\ \A t \in ToolNodes : \A u \in BuildNodes : Order[u] <= Order[t]

VARIABLES
    artifact,        \* the nodes <<execution, type>> that have an artifact
    created,         \* how many node.created events each node has
    run,             \* where the Temporal run of an execution is
    batch,           \* hcrWorkflow: pending
    todo,            \* nodes of the batch still to be coordinated or compensated
    anyIncomplete,   \* hcrWorkflow: anyIncomplete
    cancelRequested, \* Temporal has a cancel request for the run
    current,         \* the attempt of a node's activity the server waits for
    outcome,         \* what the workflow was told of a node's activity
    attempt,         \* where each attempt of a node's activity is
    request,         \* where each HTTP request is, and what it read
    faults           \* faults so far

runVars == <<run, batch, todo, anyIncomplete, cancelRequested>>
activityVars == <<artifact, current, outcome, attempt>>
vars == <<seamVars, runVars, activityVars, created, request, faults>>

Attempts == 1 .. MaxAttempts

\* "rescue" is the outer catch of hcrWorkflow.
RunStep == {"absent", "validating", "running", "coordinating", "compensating",
            "finalizing", "reporting", "rescue", "closed"}
Open(e) == run[e] \notin {"absent", "closed"}

\* "wrote": the attempt has written its result (the artifact of a structured
\* node; mark_complete, for a tool node) and not returned yet.
AttemptStep == {"idle", "queued", "live", "wrote", "ended"}
Outcome == {"none", "running", "ok", "incomplete", "failed"}

RequestStep == {"idle", "discovering", "fresh", "resuming", "starting",
                "startFailed", "cancelling", "cancelRows"}
IdleRequest == [step |-> "idle", e |-> 0, t |-> Absent]

TypeOK ==
    /\ SeamTypeOK
    /\ artifact \subseteq Executions \X BuildNodes
    /\ created \in [Executions -> [BuildNodes -> EventCount]]
    /\ run \in [Executions -> RunStep]
    /\ batch \in [Executions -> SUBSET BuildNodes]
    /\ todo \in [Executions -> SUBSET BuildNodes]
    /\ anyIncomplete \in [Executions -> BOOLEAN]
    /\ cancelRequested \in [Executions -> BOOLEAN]
    /\ current \in [Executions -> [BuildNodes -> 0 .. MaxAttempts]]
    /\ outcome \in [Executions -> [BuildNodes -> Outcome]]
    /\ attempt \in [Executions -> [BuildNodes -> [Attempts -> AttemptStep]]]
    /\ request \in [Requests -> [step : RequestStep, e : Executions \union {0},
                                 t : BuildNodes \union {Absent}]]
    /\ faults \in 0 .. MaxFaults

\* Nothing is in flight.
Quiet ==
    /\ artifact = {}
    /\ created = [e \in Executions |-> [t \in BuildNodes |-> 0]]
    /\ run = [e \in Executions |-> "absent"]
    /\ batch = [e \in Executions |-> {}]
    /\ todo = [e \in Executions |-> {}]
    /\ anyIncomplete = [e \in Executions |-> FALSE]
    /\ cancelRequested = [e \in Executions |-> FALSE]
    /\ current = [e \in Executions |-> [t \in BuildNodes |-> 0]]
    /\ outcome = [e \in Executions |-> [t \in BuildNodes |-> "none"]]
    /\ attempt = [e \in Executions |-> [t \in BuildNodes |->
                                            [a \in Attempts |-> "idle"]]]
    /\ request = [r \in Requests |-> IdleRequest]
    /\ faults = 0

Init == SeamInit /\ Quiet

\* Discovery is over and no build was started.
ReadyInit == project = "PENDING" /\ discovered = TRUE /\ NoRuns /\ Quiet

-----------------------------------------------------------------------------
(* Helpers *)

Fault == faults < MaxFaults /\ faults' = faults + 1
NoFault == UNCHANGED faults

MoveRun(e, step) == run' = [run EXCEPT ![e] = step]

\* The request goes on to step with execution e and node type t in hand.
MoveRequest(r, step, e, t) ==
    request' = [request EXCEPT ![r] = [step |-> step, e |-> e, t |-> t]]
EndRequest(r) == request' = [request EXCEPT ![r] = IdleRequest]

\* One more node.created event for the nodes of types T.
EmitCreated(e, T) ==
    created' = [created EXCEPT ![e] =
                    [t \in BuildNodes |->
                        IF t \in T /\ @[t] < 2 THEN @[t] + 1 ELSE @[t]]]

\* The workflow schedules an activity for each node of types T.
Schedule(e, T) ==
    /\ MoveRun(e, "running")
    /\ batch' = [batch EXCEPT ![e] = T]
    /\ todo' = [todo EXCEPT ![e] = {}]
    /\ current' = [current EXCEPT ![e] =
                    [t \in BuildNodes |-> IF t \in T THEN 1 ELSE @[t]]]
    /\ outcome' = [outcome EXCEPT ![e] =
                    [t \in BuildNodes |-> IF t \in T THEN "running" ELSE @[t]]]
    /\ attempt' = [attempt EXCEPT ![e] =
                    [t \in BuildNodes |->
                        IF t \in T THEN [@[t] EXCEPT ![1] = "queued"] ELSE @[t]]]

\* Mutant: only the project is told.
FailProjectOnly(e) ==
    /\ project' = "FAILED"
    /\ UNCHANGED <<discovered, workflow, kind, execution, build, origin, node, events>>

\* Mutant: the failure is swallowed.
FailNothing(e) == UNCHANGED seamVars

\* The failure of a run whose failing node is not known: its trigger is named.
FailTrigger(e) == FailExecution(e, origin[e])

-----------------------------------------------------------------------------
(* Attempts of a node's activity: runHcrNodeActivity and executeNode *)

\* The server still waits for attempt a.
Wanted(e, t, a) ==
    run[e] = "running" /\ outcome[e][t] = "running" /\ current[e][t] = a

MoveAttempt(e, t, a, step) ==
    attempt' = [attempt EXCEPT ![e][t][a] = step]

\* The attempt ended: its answer counts only if the server waits for it.
Answer(e, t, a, result) ==
    /\ MoveAttempt(e, t, a, "ended")
    /\ outcome' = IF Wanted(e, t, a)
                  THEN [outcome EXCEPT ![e][t] = result] ELSE outcome
    /\ UNCHANGED current

\* Mutant: one attempt more than NODE_ACTIVITY_ATTEMPTS.
OneMore(a) == a <= MaxAttempts

MayRetry(a) == a < MaxAttempts

\* The server gives up attempt a, whose process is left at step: it queues
\* the next attempt, or fails the activity (the attempts or the total time
\* are used up, or the error is not retryable).
GiveUp(e, t, a, step) ==
    \/ /\ MayRetry(a)
       /\ current' = [current EXCEPT ![e][t] = a + 1]
       /\ attempt' = [attempt EXCEPT ![e][t][a] = step,
                                     ![e][t][a + 1] = "queued"]
       /\ UNCHANGED outcome
    \/ /\ outcome' = [outcome EXCEPT ![e][t] = "failed"]
       /\ MoveAttempt(e, t, a, step)
       /\ UNCHANGED current

AttemptBegin(e, t, a) ==
    /\ attempt[e][t][a] = "queued"
    /\ Wanted(e, t, a)
    /\ BeginNode(e, t)
    /\ MoveAttempt(e, t, a, "live")
    /\ NoFault
    /\ UNCHANGED <<runVars, artifact, current, outcome, created, request>>

\* createArtifact returns the artifact the node already has, or inserts it;
\* the tool mark_complete completes the node row before the turn is over.
AttemptWrite(e, t, a) ==
    /\ attempt[e][t][a] = "live"
    /\ IF t \in ToolNodes
       THEN CompleteNode(e, t) /\ UNCHANGED artifact
       ELSE artifact' = artifact \union {<<e, t>>} /\ UNCHANGED seamVars
    /\ MoveAttempt(e, t, a, "wrote")
    /\ NoFault
    /\ UNCHANGED <<runVars, current, outcome, created, request>>

AttemptComplete(e, t, a) ==
    /\ attempt[e][t][a] = "wrote"
    /\ CompleteNode(e, t)
    /\ Answer(e, t, a, "ok")
    /\ NoFault
    /\ UNCHANGED <<runVars, artifact, created, request>>

\* A tool turn that ran out of iterations or time without mark_complete.
AttemptStop(e, t, a) ==
    /\ attempt[e][t][a] = "live"
    /\ t \in ToolNodes
    /\ StopNode(e, t)
    /\ Answer(e, t, a, "incomplete")
    /\ NoFault
    /\ UNCHANGED <<runVars, artifact, created, request>>

\* Routing, the model, the database or a tool throws.
AttemptFail(e, t, a) ==
    /\ \/ attempt[e][t][a] \in {"live", "wrote"}
       \/ attempt[e][t][a] = "queued" /\ Wanted(e, t, a)
    /\ IF Wanted(e, t, a)
       THEN GiveUp(e, t, a, "ended")
       ELSE MoveAttempt(e, t, a, "ended") /\ UNCHANGED <<current, outcome>>
    /\ NoFault
    /\ UNCHANGED <<seamVars, runVars, artifact, created, request>>

\* No heartbeat reached the server in time, but the process goes on.
LeaseLost(e, t, a) ==
    /\ Wanted(e, t, a)
    /\ attempt[e][t][a] \in {"live", "wrote"}
    /\ GiveUp(e, t, a, attempt[e][t][a])
    /\ Fault
    /\ UNCHANGED <<seamVars, runVars, artifact, created, request>>

-----------------------------------------------------------------------------
(* hcrWorkflow *)

Validate(e) ==
    /\ run[e] = "validating"
    /\ Schedule(e, {origin[e]})
    /\ NoFault
    /\ UNCHANGED <<seamVars, anyIncomplete, cancelRequested, artifact,
                   created, request>>

\* Validation runs before the try: nothing compensates its failure.
ValidateFails(e) ==
    /\ run[e] = "validating"
    /\ MoveRun(e, "closed")
    /\ Fault
    /\ UNCHANGED <<seamVars, batch, todo, anyIncomplete, cancelRequested,
                   activityVars, created, request>>

\* Mutant: the batch goes on with the first answer (Promise.race).
FirstAnswer(e) == \E t \in batch[e] : outcome[e][t] # "running"

\* Promise.all: every activity of the batch has answered.
Joined(e) == \A t \in batch[e] : outcome[e][t] # "running"

\* Mutant: an incomplete node counts as failed.
Unfinished(e) == {t \in batch[e] : outcome[e][t] \in {"failed", "incomplete"}}

Failures(e) == {t \in batch[e] : outcome[e][t] = "failed"}

Settle(e) ==
    /\ run[e] = "running"
    /\ Joined(e)
    /\ IF Failures(e) # {}
       THEN /\ MoveRun(e, "compensating")
            /\ todo' = [todo EXCEPT ![e] = Failures(e)]
            /\ UNCHANGED anyIncomplete
       ELSE /\ MoveRun(e, "coordinating")
            /\ todo' = [todo EXCEPT ![e] = batch[e]]
            /\ anyIncomplete' = [anyIncomplete EXCEPT ![e] =
                    @ \/ \E t \in batch[e] : outcome[e][t] = "incomplete"]
    /\ NoFault
    /\ UNCHANGED <<seamVars, batch, cancelRequested, activityVars, created,
                   request>>

\* The nodes the results of the batch lead to.
NextBatch(e) == UNION {NextNodes[t] : t \in batch[e]}

\* createNextHcrNodes answers "wait" when a tool node sees a peer at work.
\* hcrWorkflow throws then; WaitUnreachable is why that is no action here.
MustWait(e, t) ==
    t \in ToolNodes /\ \E u \in BuildNodes : node[e][u] \in {"CREATED", "RUNNING"}

\* Mutant: every node the artifact leads to is announced, new or not.
AllOf(e, t) == NextNodes[t]

Missing(e, t) == {u \in NextNodes[t] : node[e][u] = Absent}

\* Mutant: what was dealt with is not taken off the list.
AllRemain(e, t) == todo[e]

\* What is left to coordinate, or to compensate, after t.
Remaining(e, t) == todo[e] \ {t}

Coordinate(e, t) ==
    /\ run[e] = "coordinating"
    /\ t \in todo[e]
    /\ ~MustWait(e, t)
    /\ CreateNodes(e, NextNodes[t])
    /\ EmitCreated(e, Missing(e, t))
    /\ IF Remaining(e, t) # {}
       THEN /\ todo' = [todo EXCEPT ![e] = Remaining(e, t)]
            /\ UNCHANGED <<run, batch, current, outcome, attempt>>
       ELSE IF NextBatch(e) # {}
            THEN Schedule(e, NextBatch(e))
            ELSE /\ MoveRun(e, "finalizing")
                 /\ todo' = [todo EXCEPT ![e] = {}]
                 /\ UNCHANGED <<batch, current, outcome, attempt>>
    /\ NoFault
    /\ UNCHANGED <<anyIncomplete, cancelRequested, artifact, request>>

\* The coordinator stops after creating the nodes of T and announcing those
\* of E; the activity is retried, or has failed for good.
CoordinateFails(e, t) ==
    /\ run[e] = "coordinating"
    /\ t \in todo[e]
    /\ \E T \in SUBSET Missing(e, t) : \E E \in SUBSET T :
        /\ CreateNodes(e, T)
        /\ EmitCreated(e, E)
    /\ run' \in {run, [run EXCEPT ![e] = "rescue"]}
    /\ Fault
    /\ UNCHANGED <<batch, todo, anyIncomplete, cancelRequested, activityVars,
                   request>>

\* markHcrFailed for one failed node of the batch, then the error is thrown.
Compensate(e, t) ==
    /\ run[e] = "compensating"
    /\ t \in todo[e]
    /\ FailExecution(e, t)
    /\ todo' = [todo EXCEPT ![e] = Remaining(e, t)]
    /\ run' = IF Remaining(e, t) = {} THEN [run EXCEPT ![e] = "closed"] ELSE run
    /\ NoFault
    /\ UNCHANGED <<batch, anyIncomplete, cancelRequested, activityVars,
                   created, request>>

CompensateFails(e, t) ==
    /\ run[e] = "compensating"
    /\ t \in todo[e]
    /\ FailExecution(e, t) \/ UNCHANGED seamVars
    /\ MoveRun(e, "rescue")
    /\ Fault
    /\ UNCHANGED <<batch, todo, anyIncomplete, cancelRequested, activityVars,
                   created, request>>

\* The outer catch: markHcrFailed with the identity of the trigger node.
Rescue(e) ==
    /\ run[e] = "rescue"
    /\ FailTrigger(e)
    /\ MoveRun(e, "closed")
    /\ NoFault
    /\ UNCHANGED <<batch, todo, anyIncomplete, cancelRequested, activityVars,
                   created, request>>

\* The compensation fails too.  It took a fault to come here; this one is free.
RescueFails(e) ==
    /\ run[e] = "rescue"
    /\ MoveRun(e, "closed")
    /\ NoFault
    /\ UNCHANGED <<seamVars, batch, todo, anyIncomplete, cancelRequested,
                   activityVars, created, request>>

\* Mutant: incomplete nodes are forgotten.
FinalizeAlways(e) == CompleteExecution(e)

FinalizeRows(e) ==
    IF anyIncomplete[e] THEN CompleteExecutionPartially(e) ELSE CompleteExecution(e)

\* finalizeHcrSlice; only a complete build goes on to be verified.
Finalize(e) ==
    /\ run[e] = "finalizing"
    /\ FinalizeRows(e)
    /\ MoveRun(e, IF anyIncomplete[e] THEN "closed" ELSE "reporting")
    /\ NoFault
    /\ UNCHANGED <<batch, todo, anyIncomplete, cancelRequested, activityVars,
                   created, request>>

\* The transaction committed, or did not, and the answer is lost: the
\* activity is retried, or has failed for good.
FinalizeFails(e) ==
    /\ run[e] = "finalizing"
    /\ FinalizeRows(e) \/ UNCHANGED seamVars
    /\ run' \in {run, [run EXCEPT ![e] = "rescue"]}
    /\ Fault
    /\ UNCHANGED <<batch, todo, anyIncomplete, cancelRequested, activityVars,
                   created, request>>

\* The verification report and child workflow, which change no run row.
Report(e) ==
    /\ run[e] = "reporting"
    /\ MoveRun(e, "closed")
    /\ NoFault
    /\ UNCHANGED <<seamVars, batch, todo, anyIncomplete, cancelRequested,
                   activityVars, created, request>>

\* createBuildVerificationReport fails for good, inside the try.
ReportFails(e) ==
    /\ run[e] = "reporting"
    /\ MoveRun(e, "rescue")
    /\ Fault
    /\ UNCHANGED <<seamVars, batch, todo, anyIncomplete, cancelRequested,
                   activityVars, created, request>>

\* A cancelled workflow can schedule nothing more, not even compensation.
RunCancelled(e) ==
    /\ Open(e)
    /\ cancelRequested[e]
    /\ MoveRun(e, "closed")
    /\ NoFault
    /\ UNCHANGED <<seamVars, batch, todo, anyIncomplete, cancelRequested,
                   activityVars, created, request>>

\* HCR_WORKFLOW_TIMEOUT: the server closes the run and tells nobody.
RunTimedOut(e) ==
    /\ Open(e)
    /\ MoveRun(e, "closed")
    /\ Fault
    /\ UNCHANGED <<seamVars, batch, todo, anyIncomplete, cancelRequested,
                   activityVars, created, request>>
-----------------------------------------------------------------------------
(* Requests: each step reads or writes what one await of the handler does *)

\* A turn of the discovery chat is admitted while the project is in
\* discovery; the model is then asked, for as long as it takes.
DiscoveryTurn(r) ==
    /\ "discover" \in Kinds
    /\ request[r].step = "idle"
    /\ project = "DISCOVERY"
    /\ MoveRequest(r, "discovering", 0, Absent)
    /\ NoFault
    /\ UNCHANGED <<seamVars, runVars, activityVars, created>>

\* The agent has its requirements: completeDiscoveryWorkflow.
DiscoveryCompletes(r) ==
    /\ request[r].step = "discovering"
    /\ CompleteDiscovery
    /\ EndRequest(r)
    /\ NoFault
    /\ UNCHANGED <<runVars, activityVars, created>>

\* The agent asks another question, or the turn fails.
DiscoveryContinues(r) ==
    /\ request[r].step = "discovering"
    /\ EndRequest(r)
    /\ NoFault
    /\ UNCHANGED <<seamVars, runVars, activityVars, created>>

\* startHcrRun commits; the request goes on to start the Temporal workflow.
Admit(r, e) ==
    /\ StartHcrRun(e)
    /\ EmitCreated(e, {FirstNode})
    /\ MoveRequest(r, "starting", e, Absent)
    /\ NoFault
    /\ UNCHANGED <<runVars, activityVars>>

StartBuild(r) ==
    /\ "start" \in Kinds
    /\ request[r].step = "idle"
    /\ \E e \in Executions : Admit(r, e)

Latest(S) == {e \in S : \A d \in S : d <= e}

\* Executions and nodes findResumeTarget considers.
Resumable == {e \in Executions : kind[build[e]] = "HCR"
                                 /\ execution[e] \in {"FAILED", "PARTIAL"}}
Stopped(e) == {t \in BuildNodes : node[e][t] \in {"FAILED", "INCOMPLETE"}}
HasTarget == \E e \in Latest(Resumable) : Stopped(e) # {}

\* retryOrResumeBuild: the target is read here and used a step later.  A
\* build prompt exists once a build was ever admitted.
RetryBuild(r) ==
    /\ "retry" \in Kinds
    /\ request[r].step = "idle"
    /\ \E d \in Executions : Exists(d)
    /\ IF HasTarget
       THEN \E e \in Latest(Resumable) : \E t \in Stopped(e) :
                /\ \A u \in Stopped(e) : Order[u] <= Order[t]
                /\ MoveRequest(r, "resuming", e, t)
       ELSE MoveRequest(r, "fresh", 0, Absent)
    /\ NoFault
    /\ UNCHANGED <<seamVars, runVars, activityVars, created>>

RetryFresh(r) ==
    /\ request[r].step = "fresh"
    /\ \E e \in Executions : Admit(r, e)

RetryResume(r) ==
    /\ request[r].step = "resuming"
    /\ \E e \in Executions :
        /\ ResumeHcrRun(e, request[r].e, request[r].t)
        /\ EmitCreated(e, {request[r].t})
        /\ MoveRequest(r, "starting", e, Absent)
    /\ NoFault
    /\ UNCHANGED <<runVars, activityVars>>

\* The conditional update matched nothing (or, a bound of the model, there is
\* no execution left to create).
RetryRejected(r) ==
    /\ \/ request[r].step = "fresh" /\ ~(discovered /\ project \in StartStatus)
       \/ request[r].step = "resuming" /\ project \notin ResumeStatus
       \/ /\ request[r].step \in {"fresh", "resuming"}
          /\ \A e \in Executions : Exists(e)
    /\ EndRequest(r)
    /\ NoFault
    /\ UNCHANGED <<seamVars, runVars, activityVars, created>>

\* client.workflow.start, then the update that records the run.
TemporalStarts(r) ==
    LET e == request[r].e
    IN  /\ request[r].step = "starting"
        /\ MoveRun(e, "validating")
        /\ EndRequest(r)
        /\ NoFault
        /\ UNCHANGED <<seamVars, batch, todo, anyIncomplete, cancelRequested,
                       activityVars, created>>

\* Temporal is down: nothing was started.
TemporalRefuses(r) ==
    /\ request[r].step = "starting"
    /\ MoveRequest(r, "startFailed", request[r].e, Absent)
    /\ NoFault
    /\ UNCHANGED <<seamVars, runVars, activityVars, created>>

\* The workflow was started, but its answer or the update was lost.
StartAnswerLost(r) ==
    /\ request[r].step = "starting"
    /\ MoveRun(request[r].e, "validating")
    /\ MoveRequest(r, "startFailed", request[r].e, Absent)
    /\ Fault
    /\ UNCHANGED <<seamVars, batch, todo, anyIncomplete, cancelRequested,
                   activityVars, created>>

\* The catch of startTemporalAttempt.
StartFails(r) ==
    /\ request[r].step = "startFailed"
    /\ FailTrigger(request[r].e)
    /\ EndRequest(r)
    /\ NoFault
    /\ UNCHANGED <<runVars, activityVars, created>>

\* The cancel route reads the latest active execution of a build.
CancelBuild(r) ==
    /\ "cancel" \in Kinds
    /\ request[r].step = "idle"
    /\ \E e \in Latest({d \in Executions : kind[build[d]] = "HCR" /\ Active(d)}) :
        MoveRequest(r, "cancelling", e, Absent)
    /\ NoFault
    /\ UNCHANGED <<seamVars, runVars, activityVars, created>>

\* handle.cancel: it reaches an open run, or fails and the error is swallowed.
CancelTemporal(r) ==
    LET e == request[r].e
    IN  /\ request[r].step = "cancelling"
        /\ \/ UNCHANGED cancelRequested
           \/ Open(e) /\ cancelRequested' = [cancelRequested EXCEPT ![e] = TRUE]
        /\ MoveRequest(r, "cancelRows", e, Absent)
        /\ NoFault
        /\ UNCHANGED <<seamVars, run, batch, todo, anyIncomplete, activityVars,
                       created>>

CancelRows(r) ==
    /\ request[r].step = "cancelRows"
    /\ CancelExecution(request[r].e)
    /\ EndRequest(r)
    /\ NoFault
    /\ UNCHANGED <<runVars, activityVars, created>>

\* The server dies between two steps of a request.
Crash(r) ==
    /\ request[r].step # "idle"
    /\ EndRequest(r)
    /\ Fault
    /\ UNCHANGED <<seamVars, runVars, activityVars, created>>
-----------------------------------------------------------------------------
(* Specification *)

AttemptStepOf(e, t, a) ==
    \/ AttemptBegin(e, t, a)
    \/ AttemptWrite(e, t, a)
    \/ AttemptComplete(e, t, a)
    \/ AttemptStop(e, t, a)
    \/ AttemptFail(e, t, a)

RunStepOf(e) ==
    \/ Validate(e)
    \/ Settle(e)
    \/ \E t \in BuildNodes :
        \/ Coordinate(e, t)
        \/ Compensate(e, t)
    \/ Rescue(e)
    \/ Finalize(e)
    \/ Report(e)
    \/ RunCancelled(e)

RunFault(e) ==
    \/ ValidateFails(e)
    \/ \E t \in BuildNodes : CoordinateFails(e, t) \/ CompensateFails(e, t)
    \/ RescueFails(e)
    \/ FinalizeFails(e)
    \/ ReportFails(e)
    \/ RunTimedOut(e)

\* The steps of a request that was admitted.
RequestStepOf(r) ==
    \/ DiscoveryCompletes(r)
    \/ DiscoveryContinues(r)
    \/ RetryFresh(r)
    \/ RetryResume(r)
    \/ RetryRejected(r)
    \/ TemporalStarts(r)
    \/ TemporalRefuses(r)
    \/ StartFails(r)
    \/ CancelTemporal(r)
    \/ CancelRows(r)

Arrival(r) == DiscoveryTurn(r) \/ StartBuild(r) \/ RetryBuild(r) \/ CancelBuild(r)

Next ==
    \/ \E e \in Executions :
        \/ RunStepOf(e)
        \/ RunFault(e)
        \/ \E t \in BuildNodes, a \in Attempts :
            AttemptStepOf(e, t, a) \/ LeaseLost(e, t, a)
    \/ \E r \in Requests :
        Arrival(r) \/ RequestStepOf(r) \/ StartAnswerLost(r) \/ Crash(r)

\* Temporal retries and schedules until its limits end a run or an attempt,
\* and a handler that is not killed goes on to its answer.  Nothing makes a
\* user send a request, and no fault is fair.
Fairness ==
    /\ \A e \in Executions : WF_vars(RunStepOf(e))
    /\ \A e \in Executions, t \in BuildNodes, a \in Attempts :
        WF_vars(AttemptStepOf(e, t, a))
    /\ \A r \in Requests : WF_vars(RequestStepOf(r))

Spec == Init /\ [][Next]_vars

FairSpec == Spec /\ Fairness

ReadySpec == ReadyInit /\ [][Next]_vars

FairReadySpec == ReadySpec /\ Fairness

-----------------------------------------------------------------------------
(* Properties the code has *)

\* An execution reported COMPLETED is whole: every node of it is COMPLETED and
\* every node its artifacts lead to was created.  No retry, late attempt,
\* cancellation or compensation makes the report untrue afterwards.
CompletedRunIsWhole ==
    \A e \in Executions : execution[e] = "COMPLETED" =>
        \A t \in BuildNodes : node[e][t] # Absent =>
            /\ node[e][t] = "COMPLETED"
            /\ \A u \in NextNodes[t] : node[e][u] # Absent

\* The node a retry resumes at finds its input: an earlier execution of the
\* same build wrote the artifact that leads to it.
ResumeHasInput ==
    \A e \in Executions : Exists(e) /\ origin[e] # FirstNode =>
        \E d \in Executions, u \in BuildNodes :
            /\ d < e
            /\ build[d] = build[e]
            /\ origin[e] \in NextNodes[u]
            /\ <<d, u>> \in artifact

\* A node that did not trigger the run is marked FAILED only when its own
\* activity failed for good.
FailureAttribution ==
    \A e \in Executions, t \in BuildNodes :
        node[e][t] = "FAILED" /\ t # origin[e] => outcome[e][t] = "failed"

\* The batch is joined before it is coordinated, so the coordinator's "wait",
\* which hcrWorkflow answers by throwing, never comes, whatever attempts of
\* the batch outlived their lease.
WaitUnreachable ==
    \A e \in Executions : run[e] = "coordinating" =>
        \A t \in todo[e] : ~MustWait(e, t)

\* Activities that are retried after they committed announce nothing twice: no
\* node is announced twice by the coordinator, no run is reported both complete
\* and incomplete by the finalization.  A node goes unannounced only if the
\* coordinator stopped between its two writes.
AnnouncedOnce ==
    \A e \in Executions :
        /\ events[e]["completed"] + events[e]["incomplete"] <= 1
        /\ \A t \in BuildNodes :
               /\ created[e][t] <= 1
               /\ created[e][t] = 1 => node[e][t] # Absent
               /\ faults = 0 /\ node[e][t] # Absent => created[e][t] = 1

\* At most one build of the project is under way.
OneActiveBuild ==
    \A d, e \in Executions : Active(d) /\ Active(e) => d = e

\* The lock is held exactly while one build is under way.
LockOfOneBuild ==
    /\ OneActiveBuild
    /\ project = "IN_PROGRESS" <=> \E e \in Executions : Active(e)

\* A run that released the lock with its first failed node compensates another.
CompensatesAgain(e) ==
    run[e] = "compensating" /\ execution[e] = "FAILED" /\ todo'[e] # todo[e]

\* "The conditional project update is the one-active-build lock": without faults,
\* clients that start and retry never hold it twice, and a run releases its own
\* lock only, when it ends.  One step breaks this, and no other: when several
\* nodes of a batch failed, the first compensation releases the lock, and the
\* next one the lock of the build that was admitted in between.
LockIsKept ==
    [][faults' = 0 /\ LockOfOneBuild =>
        LockOfOneBuild' \/ \E e \in Executions : CompensatesAgain(e)]_vars

\* Once its run is closed, whatever closed it, an execution is over.
ClosedRunIsOver == \A e \in Executions : (run[e] = "closed") ~> ~Active(e)

\* Every run that Temporal started comes to an end, and a build that was
\* admitted releases the project.
BuildsEnd ==
    /\ \A e \in Executions : Open(e) ~> ~Open(e)
    /\ (project = "IN_PROGRESS") ~> (project # "IN_PROGRESS")

-----------------------------------------------------------------------------
(* Properties a comment or a document states and the code does not have *)

\* "the graph continues from exactly one position" (findResumeTarget): a
\* resumed execution that is reported COMPLETED leaves nothing of the build's
\* graph unfinished.
ResumedBuildIsWhole ==
    \A e \in Executions : execution[e] = "COMPLETED" =>
        \A t \in BuildNodes : \E d \in Executions :
            build[d] = build[e] /\ node[d][t] = "COMPLETED"

=============================================================================
