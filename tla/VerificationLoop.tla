--------------------------- MODULE VerificationLoop ---------------------------
(***************************************************************************)
(* Verification of one project: the requests and the builds that start a   *)
(* verification, verificationWorkflow (verify, repair, verify again), and  *)
(* the two activities it runs.  A repair creates rows of its own in        *)
(* StateSeam and ends them by the seam's transactions, like a build.       *)
(*                                                                         *)
(* Builds are reduced to what a verification can notice of them: they take *)
(* the project's lock, change files, end, and ask for a verification when  *)
(* they completed.  HcrBuild has the rest.                                 *)
(*                                                                         *)
(* A loop is known by the number of its first report; reports, like runs,  *)
(* are created in the order of their numbers.  The content of the          *)
(* workspace is a version number: every change makes a new content, and 0  *)
(* is the empty workspace.  MaxFaults bounds the faults of one behaviour:  *)
(* an activity whose process dies, or outlives its time-out, a workflow    *)
(* that times out, a lost answer.                                          *)
(***************************************************************************)
EXTENDS StateSeam

CONSTANTS
    MaxReports,      \* bound: verification reports ever created
    MaxAttempts,     \* resolveRepairMaxAttempts and REPAIR_MAX_ATTEMPTS
    MaxVersions,     \* bound: contents of the workspace
    Clients,         \* bound: verification requests in flight
    MaxFaults        \* bound: faults in one behaviour

ASSUME LoopAssumption ==
    /\ FirstNode # RepairNode
    /\ MaxReports \in Nat
    /\ MaxAttempts \in Nat \ {0}
    /\ MaxVersions \in Nat
    /\ MaxFaults \in Nat

Reports == 1 .. MaxReports
Versions == 0 .. MaxVersions

VARIABLES
    workspace,       \* the content of the workspace
    status,          \* VerificationReport.status
    number,          \* VerificationReport.attempt
    parent,          \* VerificationReport.parentReportId, or 0
    revision,        \* VerificationReport.snapshotHash
    aged,            \* the RUNNING reports created more than two hours ago
    staged,          \* the content a report's checks run on
    checking,        \* the reports a sandbox process is working on
    loop,            \* where verificationWorkflow of a first report is
    at,              \* the report a loop works on; a new one is due when 0
    answered,        \* outcome of a report's activity, as the loop was told
    repairOf,        \* the report a repair run was made for, or 0
    before,          \* runRepair: the content a repair started from
    after,           \* the content a repair left
    fix,             \* where the process of a repair run is
    asking,          \* builds that completed and ask for a verification
    client,          \* where each request is, and the report it created
    faults           \* faults so far

reportVars == <<status, number, parent, revision, aged>>
checkVars == <<staged, checking, answered>>
loopVars == <<loop, at>>
repairVars == <<repairOf, before, after, fix>>
verifyVars == <<workspace, reportVars, checkVars, loopVars, repairVars,
                asking, client, faults>>
vars == <<seamVars, verifyVars>>

Verdict == {"PASSED", "FAILED", "TIMED_OUT", "BLOCKED"}
LoopStep == {"absent", "verify", "verifying", "repair", "repairing", "closed"}
FixStep == {"none", "created", "working", "completed", "stopped", "ended"}
ClientStep == {"idle", "admitted", "clear", "created", "unanswered"}
IdleClient == [step |-> "idle", r |-> 0]

VerifyTypeOK ==
    /\ SeamTypeOK
    /\ workspace \in Versions
    /\ status \in [Reports -> Verdict \union {"RUNNING", Absent}]
    /\ number \in [Reports -> 0 .. MaxAttempts]
    /\ parent \in [Reports -> Reports \union {0}]
    /\ revision \in [Reports -> Versions]
    /\ aged \subseteq Reports
    /\ staged \in [Reports -> Versions]
    /\ checking \subseteq Reports
    /\ loop \in [Reports -> LoopStep]
    /\ at \in [Reports -> Reports \union {0}]
    /\ answered \in [Reports -> Verdict \union {Absent}]
    /\ repairOf \in [Executions -> Reports \union {0}]
    /\ before \in [Executions -> Versions]
    /\ after \in [Executions -> Versions]
    /\ fix \in [Executions -> FixStep]
    /\ asking \subseteq Executions
    /\ client \in [Clients -> [step : ClientStep, r : Reports \union {0}]]
    /\ faults \in 0 .. MaxFaults

\* Discovery is over and no build was started.
Init ==
    /\ project = "PENDING"
    /\ discovered = TRUE
    /\ NoRuns
    /\ workspace = 0
    /\ status = [r \in Reports |-> Absent]
    /\ number = [r \in Reports |-> 0]
    /\ parent = [r \in Reports |-> 0]
    /\ revision = [r \in Reports |-> 0]
    /\ aged = {}
    /\ staged = [r \in Reports |-> 0]
    /\ checking = {}
    /\ loop = [r \in Reports |-> "absent"]
    /\ at = [r \in Reports |-> 0]
    /\ answered = [r \in Reports |-> Absent]
    /\ repairOf = [e \in Executions |-> 0]
    /\ before = [e \in Executions |-> 0]
    /\ after = [e \in Executions |-> 0]
    /\ fix = [e \in Executions |-> "none"]
    /\ asking = {}
    /\ client = [c \in Clients |-> IdleClient]
    /\ faults = 0

-----------------------------------------------------------------------------
(* Helpers *)

Fault == faults < MaxFaults /\ faults' = faults + 1
NoFault == UNCHANGED faults

\* r is the row the next create inserts.
IsNextReport(r) ==
    status[r] = Absent /\ \A q \in Reports : q < r => status[q] # Absent

\* A new report of attempt n, RUNNING until told otherwise.
CreateReport(r, s, n, p, v) ==
    /\ IsNextReport(r)
    /\ status' = [status EXCEPT ![r] = s]
    /\ number' = [number EXCEPT ![r] = n]
    /\ parent' = [parent EXCEPT ![r] = p]
    /\ revision' = [revision EXCEPT ![r] = v]
    /\ UNCHANGED aged

\* Mutant: the verdict is stamped with what the workspace holds by now.
StampLate(r, verdict) ==
    /\ status' = [status EXCEPT ![r] = verdict]
    /\ revision' = [revision EXCEPT ![r] = workspace]
    /\ aged' = aged \ {r}
    /\ UNCHANGED <<number, parent>>

\* The report gets its verdict.
Stamp(r, verdict) ==
    /\ status' = [status EXCEPT ![r] = verdict]
    /\ aged' = aged \ {r}
    /\ UNCHANGED <<number, parent, revision>>

\* A verification is under way, as far as the rows tell.
ReportActive == \E r \in Reports : status[r] = "RUNNING" /\ r \notin aged

MoveLoop(l, step) == loop' = [loop EXCEPT ![l] = step]

MoveClient(c, step, r) ==
    client' = [client EXCEPT ![c] = [step |-> step, r |-> r]]

MoveFix(e, step) == fix' = [fix EXCEPT ![e] = step]

-----------------------------------------------------------------------------
(* Requests: startVerification *)

\* The project may be verified while no build runs.
ClientAdmitted(c) ==
    /\ client[c].step = "idle"
    /\ project # "IN_PROGRESS"
    /\ MoveClient(c, "admitted", 0)
    /\ NoFault
    /\ UNCHANGED <<seamVars, workspace, reportVars, checkVars, loopVars,
                   repairVars, asking>>

ClientLooks(c) ==
    /\ client[c].step = "admitted"
    /\ MoveClient(c, IF ReportActive THEN "idle" ELSE "clear", 0)
    /\ NoFault
    /\ UNCHANGED <<seamVars, workspace, reportVars, checkVars, loopVars,
                   repairVars, asking>>

ClientCreates(c, r) ==
    /\ client[c].step = "clear"
    /\ CreateReport(r, "RUNNING", 1, 0, 0)
    /\ MoveClient(c, "created", r)
    /\ NoFault
    /\ UNCHANGED <<seamVars, workspace, checkVars, loopVars, repairVars, asking>>

\* The workflow of report r starts.
StartLoop(r) ==
    /\ MoveLoop(r, "verify")
    /\ at' = [at EXCEPT ![r] = r]

TemporalStarts(c) ==
    /\ client[c].step = "created"
    /\ StartLoop(client[c].r)
    /\ MoveClient(c, "idle", 0)
    /\ NoFault
    /\ UNCHANGED <<seamVars, workspace, reportVars, checkVars, repairVars, asking>>

\* The sandbox is disabled, or Temporal is not reached.
ClientBlocked(c) ==
    /\ client[c].step \in {"created", "unanswered"}
    /\ Stamp(client[c].r, "BLOCKED")
    /\ MoveClient(c, "idle", 0)
    /\ NoFault
    /\ UNCHANGED <<seamVars, workspace, checkVars, loopVars, repairVars, asking>>

\* Temporal starts the workflow and the answer is lost.
StartAnswerLost(c) ==
    /\ client[c].step = "created"
    /\ StartLoop(client[c].r)
    /\ MoveClient(c, "unanswered", client[c].r)
    /\ Fault
    /\ UNCHANGED <<seamVars, workspace, reportVars, checkVars, repairVars, asking>>

\* Two hours pass after the report was created.
ReportAges(r) ==
    /\ status[r] = "RUNNING"
    /\ r \notin aged
    /\ aged' = aged \union {r}
    /\ NoFault
    /\ UNCHANGED <<seamVars, workspace, status, number, parent, revision,
                   checkVars, loopVars, repairVars, asking, client>>

-----------------------------------------------------------------------------
(* Builds, and the users who edit files *)

BuildStarts(e) ==
    /\ StartHcrRun(e)
    /\ NoFault
    /\ UNCHANGED <<workspace, reportVars, checkVars, loopVars, repairVars,
                   asking, client>>

FilesChange ==
    /\ workspace < MaxVersions
    /\ workspace' = workspace + 1
    /\ NoFault
    /\ UNCHANGED <<seamVars, reportVars, checkVars, loopVars, repairVars,
                   asking, client>>

\* A build ends well, or it does not: only the first asks for a verification.
BuildEnds(e) ==
    /\ kind[e] = "HCR"
    /\ Active(e)
    /\ \/ CompleteExecution(e) /\ asking' = asking \union {e}
       \/ FailExecution(e, FirstNode) /\ UNCHANGED asking
       \/ CancelExecution(e) /\ UNCHANGED asking
    /\ NoFault
    /\ UNCHANGED <<workspace, reportVars, checkVars, loopVars, repairVars, client>>

\* createBuildVerificationReport, and the child workflow it is for.
BuildAsks(e, r) ==
    /\ e \in asking
    /\ ~ReportActive
    /\ CreateReport(r, "RUNNING", 1, 0, 0)
    /\ StartLoop(r)
    /\ asking' = asking \ {e}
    /\ NoFault
    /\ UNCHANGED <<seamVars, workspace, checkVars, repairVars, client>>

BuildFindsActive(e) ==
    /\ e \in asking
    /\ ReportActive
    /\ asking' = asking \ {e}
    /\ NoFault
    /\ UNCHANGED <<seamVars, workspace, reportVars, checkVars, loopVars,
                   repairVars, client>>

\* The report is created and the answer lost (the retry finds an active
\* report, its own), or the child does not start.
BuildAnswerLost(e, r) ==
    /\ e \in asking
    /\ ~ReportActive
    /\ CreateReport(r, "RUNNING", 1, 0, 0)
    /\ asking' = asking \ {e}
    /\ Fault
    /\ UNCHANGED <<seamVars, workspace, checkVars, loopVars, repairVars, client>>

-----------------------------------------------------------------------------
(* verificationWorkflow and runVerificationActivity *)

\* Mutant: the bound on the attempts is forgotten.
RepairAlways(r, verdict) == verdict = "FAILED"

\* The loop goes on to a repair after this outcome of report r.
Repairable(r, verdict) == verdict = "FAILED" /\ number[r] < MaxAttempts

\* The outcome of report r: it counts if a loop waits for it.
Conclude(r, verdict) ==
    /\ answered' = [answered EXCEPT ![r] = verdict]
    /\ loop' = [l \in Reports |->
                    IF loop[l] \in {"verify", "verifying"} /\ at'[l] = r
                    THEN IF Repairable(r, verdict) THEN "repair" ELSE "closed"
                    ELSE loop[l]]

\* The outcome of the loop's report is known: the next one is a new report.
Repaired(l) == answered[at[l]] # Absent

\* The activity works on the report it was given, or creates a new one that
\* continues the last; the snapshot it takes is what the checks will run on.
VerifyBegins(l, r) ==
    /\ loop[l] = "verify"
    /\ workspace # 0
    /\ IF Repaired(l)
       THEN CreateReport(r, "RUNNING", number[at[l]] + 1, at[l], workspace)
       ELSE /\ r = at[l]
            /\ status' = [status EXCEPT ![r] = "RUNNING"]
            /\ revision' = [revision EXCEPT ![r] = workspace]
            /\ UNCHANGED <<number, parent, aged>>
    /\ at' = [at EXCEPT ![l] = r]
    /\ staged' = [staged EXCEPT ![r] = workspace]
    /\ checking' = checking \union {r}
    /\ MoveLoop(l, "verifying")
    /\ NoFault
    /\ UNCHANGED <<seamVars, workspace, answered, repairVars, asking, client>>

\* There is nothing to verify.
VerifyFindsNothing(l) ==
    /\ loop[l] = "verify"
    /\ workspace = 0
    /\ Stamp(at[l], "BLOCKED")
    /\ UNCHANGED at
    /\ Conclude(at[l], "BLOCKED")
    /\ NoFault
    /\ UNCHANGED <<seamVars, workspace, staged, checking, repairVars, asking,
                   client>>

VerifyEnds(r) ==
    /\ r \in checking
    /\ checking' = checking \ {r}
    /\ UNCHANGED at
    /\ \E verdict \in Verdict : Stamp(r, verdict) /\ Conclude(r, verdict)
    /\ NoFault
    /\ UNCHANGED <<seamVars, workspace, staged, repairVars, asking, client>>

\* The process dies, or its last write fails: the activity is not retried.
VerifyDies(r) ==
    /\ r \in checking
    /\ checking' = checking \ {r}
    /\ loop' = [l \in Reports |-> IF loop[l] = "verifying" /\ at[l] = r
                                  THEN "closed" ELSE loop[l]]
    /\ Fault
    /\ UNCHANGED <<seamVars, workspace, reportVars, staged, answered, at,
                   repairVars, asking, client>>

\* The activity the loop waits for, or the loop itself, times out.  What
\* works for it goes on.
LoopStops(l) ==
    /\ loop[l] \notin {"absent", "closed"}
    /\ MoveLoop(l, "closed")
    /\ Fault
    /\ UNCHANGED <<seamVars, workspace, reportVars, checkVars, at, repairVars,
                   asking, client>>

-----------------------------------------------------------------------------
(* runRepairActivity: runRepair *)

RepairBegins(l, e) ==
    /\ loop[l] = "repair"
    /\ CreateRepairRun(e)
    /\ repairOf' = [repairOf EXCEPT ![e] = at[l]]
    /\ before' = [before EXCEPT ![e] = workspace]
    /\ MoveFix(e, "created")
    /\ MoveLoop(l, "repairing")
    /\ NoFault
    /\ UNCHANGED <<workspace, reportVars, checkVars, at, after, asking, client>>

RepairWorks(e) ==
    /\ fix[e] = "created"
    /\ BeginNode(e, RepairNode)
    /\ MoveFix(e, "working")
    /\ NoFault
    /\ UNCHANGED <<workspace, reportVars, checkVars, loopVars, repairOf,
                   before, after, asking, client>>

RepairWrites(e) ==
    /\ fix[e] = "working"
    /\ workspace < MaxVersions
    /\ workspace' = workspace + 1
    /\ NoFault
    /\ UNCHANGED <<seamVars, reportVars, checkVars, loopVars, repairVars,
                   asking, client>>

\* mark_complete was called, or the budget is used up.
RepairTurnEnds(e) ==
    /\ fix[e] = "working"
    /\ \/ CompleteNode(e, RepairNode) /\ MoveFix(e, "completed")
       \/ StopNode(e, RepairNode) /\ MoveFix(e, "stopped")
    /\ NoFault
    /\ UNCHANGED <<workspace, reportVars, checkVars, loopVars, repairOf,
                   before, after, asking, client>>

Changed(e) == workspace # before[e]

\* Mutant: a repair that changed nothing leaves the loop waiting.
AnswerChanged(e, changed) ==
    /\ MoveFix(e, "ended")
    /\ after' = [after EXCEPT ![e] = workspace]
    /\ loop' = [l \in Reports |->
                    IF loop[l] = "repairing" /\ at[l] = repairOf[e] /\ changed
                    THEN "verify" ELSE loop[l]]
    /\ UNCHANGED <<repairOf, before>>

\* The repair answers the loop that waits for it.
RepairAnswers(e, changed) ==
    /\ MoveFix(e, "ended")
    /\ after' = [after EXCEPT ![e] = workspace]
    /\ loop' = [l \in Reports |->
                    IF loop[l] = "repairing" /\ at[l] = repairOf[e]
                    THEN IF changed THEN "verify" ELSE "closed"
                    ELSE loop[l]]
    /\ UNCHANGED <<repairOf, before>>

\* Mutant: the end of a repair is written to the project only.
FinishProjectOnly(e) ==
    /\ project' = IF fix[e] = "completed" THEN "IDLE" ELSE "INCOMPLETE"
    /\ UNCHANGED <<discovered, workflow, kind, execution, build, origin, node,
                   events>>

\* Mutant: a repair that ran out of its budget is left as it is.
FinishCompleted(e) ==
    IF fix[e] = "completed" THEN CompleteExecution(e) ELSE UNCHANGED seamVars

FinishRepair(e) ==
    IF fix[e] = "completed" THEN CompleteExecution(e)
                            ELSE CompleteExecutionPartially(e)

RepairEnds(e) ==
    /\ fix[e] \in {"completed", "stopped"}
    /\ FinishRepair(e)
    /\ RepairAnswers(e, Changed(e))
    /\ NoFault
    /\ UNCHANGED <<workspace, reportVars, checkVars, at, asking, client>>

\* executeNode throws: what it wrote to the workspace stays, unverified.
RepairFails(e) ==
    /\ fix[e] \in {"created", "working", "completed", "stopped"}
    /\ FailExecution(e, RepairNode)
    /\ RepairAnswers(e, FALSE)
    /\ NoFault
    /\ UNCHANGED <<workspace, reportVars, checkVars, at, asking, client>>

\* The process dies: nobody ends its rows.
RepairDies(e) ==
    /\ fix[e] \notin {"none", "ended"}
    /\ RepairAnswers(e, FALSE)
    /\ Fault
    /\ UNCHANGED <<seamVars, workspace, reportVars, checkVars, at, asking, client>>

\* The server dies between the creation of a report and the Temporal start.
ClientDies(c) ==
    /\ client[c].step # "idle"
    /\ MoveClient(c, "idle", 0)
    /\ Fault
    /\ UNCHANGED <<seamVars, workspace, reportVars, checkVars, loopVars,
                   repairVars, asking>>

-----------------------------------------------------------------------------

LoopStepOf(l) ==
    \/ \E r \in Reports : VerifyBegins(l, r)
    \/ VerifyFindsNothing(l)
    \/ \E e \in Executions : RepairBegins(l, e)

RepairStepOf(e) ==
    RepairWorks(e) \/ RepairTurnEnds(e) \/ RepairEnds(e) \/ RepairFails(e)

Next ==
    \/ FilesChange
    \/ \E e \in Executions :
        \/ BuildStarts(e)
        \/ BuildEnds(e)
        \/ BuildFindsActive(e)
        \/ \E r \in Reports : BuildAsks(e, r) \/ BuildAnswerLost(e, r)
        \/ RepairStepOf(e)
        \/ RepairWrites(e)
        \/ RepairDies(e)
    \/ \E r \in Reports :
        \/ ReportAges(r)
        \/ LoopStepOf(r)
        \/ VerifyEnds(r)
        \/ VerifyDies(r)
        \/ LoopStops(r)
    \/ \E c \in Clients :
        \/ ClientAdmitted(c)
        \/ ClientLooks(c)
        \/ \E r \in Reports : ClientCreates(c, r)
        \/ TemporalStarts(c)
        \/ ClientBlocked(c)
        \/ StartAnswerLost(c)
        \/ ClientDies(c)

Spec == Init /\ [][Next]_vars

\* Temporal runs its workflows and their activities; every command of a
\* sandbox and every turn of a model has a time-out.
Fairness ==
    /\ \A r \in Reports : WF_vars(LoopStepOf(r)) /\ WF_vars(VerifyEnds(r))
    /\ \A e \in Executions : WF_vars(RepairStepOf(e))

FairSpec == Spec /\ Fairness

-----------------------------------------------------------------------------
(* Properties *)

\* Only a passing revision is marked verified: whatever is written to the
\* workspace while a verification runs, a PASSED report names the content its
\* checks ran on, and after a repair that content has the repair in it.
VerifiedRevision ==
    \A r \in Reports :
        status[r] = "PASSED" =>
            /\ revision[r] = staged[r]
            /\ \A e \in Executions :
                repairOf[e] # 0 /\ repairOf[e] = parent[r] => revision[r] >= after[e]

\* Repair cannot loop: only a FAILED verification is repaired, once, and not
\* after the last attempt; a verification follows another only when a repair
\* between them changed the workspace.
RepairChain ==
    /\ \A e \in Executions :
        repairOf[e] # 0 =>
            /\ answered[repairOf[e]] = "FAILED"
            /\ number[repairOf[e]] < MaxAttempts
            /\ \A d \in Executions : repairOf[d] = repairOf[e] => d = e
    /\ \A r \in Reports :
        parent[r] # 0 =>
            /\ number[r] = number[parent[r]] + 1
            /\ revision[r] # revision[parent[r]]
            /\ \E e \in Executions : /\ repairOf[e] = parent[r]
                                     /\ fix[e] = "ended"
                                     /\ after[e] # before[e]
            /\ \A q \in Reports : parent[q] = parent[r] => q = r

\* Without faults nothing is left behind: a RUNNING report has a request or a
\* loop that will end it, and an active repair run a loop that waits for it.
NothingStranded ==
    faults = 0 =>
        /\ \A r \in Reports :
            status[r] = "RUNNING" =>
                \/ \E c \in Clients : client[c].step = "created" /\ client[c].r = r
                \/ \E l \in Reports : loop[l] \in {"verify", "verifying"} /\ at[l] = r
        /\ \A e \in Executions :
            repairOf[e] # 0 /\ Active(e) =>
                \E l \in Reports : loop[l] = "repairing" /\ at[l] = repairOf[e]

\* The bounds of the model leave the loop no row to write.
Starved(l) ==
    \/ loop[l] = "verify" /\ Repaired(l) /\ \A r \in Reports : status[r] # Absent
    \/ loop[l] = "repair" /\ \A e \in Executions : Exists(e)

\* Every verification comes to an end, with a verdict or without one.
LoopsEnd ==
    \A l \in Reports : loop[l] # "absent" ~> loop[l] = "closed" \/ Starved(l)

\* Every write of the run rows, by a repair or a build, is a transaction of the
\* seam.
SeamSteps == [][SeamNext]_seamVars

\* A project is INCOMPLETE "so the user can resume or iterate", and FAILED so
\* that the build can be retried: there is a build attempt to resume.
StoppedIsResumable ==
    project \in {"FAILED", "INCOMPLETE"} =>
        \E e \in Executions :
            kind[build[e]] = "HCR" /\ execution[e] \in {"FAILED", "PARTIAL"}
=============================================================================
