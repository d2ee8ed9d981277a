-------------------------------- MODULE Sandbox --------------------------------
(***************************************************************************)
(* One verification in a disposable pod: the checks before it, the         *)
(* namespace and the pod, the steps of the plan, the preview, the report,  *)
(* and what is cleaned up when.  Each report has a namespace of its own.   *)
(* The pod may be killed at any time, by its deadline, its limits or the   *)
(* cluster; the worker may die; a deletion may fail unseen.                *)
(*                                                                         *)
(* A command is what it comes to: passed, failed or timed out.  ran is     *)
(* history: what the commands came to in the pod, whatever is reported.    *)
(***************************************************************************)
EXTENDS Naturals, FiniteSets

CONSTANTS
    SandboxRuns,    \* bound: reports being verified
    MaxSandboxFaults  \* bound: deletions that fail, workers that die

ASSUME SandboxAssumption == MaxSandboxFaults \in Nat

VARIABLES
    stage,          \* of each run, where runSandboxVerification is
    plan,           \* the scripts and the preview of its package.json
    cluster,        \* its namespace and pod
    staged,         \* it has a staging directory
    forwarding,     \* it has a port-forward child
    steps,          \* the statuses of its steps, as recorded
    ran,            \* history: what its commands came to in the pod
    report,         \* its report
    sandboxFaults

sandboxVars == <<stage, plan, cluster, staged, forwarding, steps, ran, report, sandboxFaults>>

Commands == {"install", "build", "test", "preview"}
Outcomes == {"passed", "failed", "timed_out"}
Plans == [build : BOOLEAN, test : BOOLEAN, preview : BOOLEAN, keep : BOOLEAN]
NoPlan == [build |-> FALSE, test |-> FALSE, preview |-> FALSE, keep |-> FALSE]
None(what) == [c \in Commands |-> what]

SandboxInit ==
    /\ stage = [r \in SandboxRuns |-> "new"]
    /\ plan = [r \in SandboxRuns |-> NoPlan]
    /\ cluster = [r \in SandboxRuns |-> "none"]
    /\ staged = [r \in SandboxRuns |-> FALSE]
    /\ forwarding = [r \in SandboxRuns |-> FALSE]
    /\ steps = [r \in SandboxRuns |-> None("none")]
    /\ ran = [r \in SandboxRuns |-> None("never")]
    /\ report = [r \in SandboxRuns |-> "RUNNING"]
    /\ sandboxFaults = 0

Proceeds(r, to) == stage' = [stage EXCEPT ![r] = to]

-----------------------------------------------------------------------------
(* Before the pod *)

\* planVerification: only what the project has is run.
RunBegins(r) ==
    /\ stage[r] = "new"
    /\ \E p \in Plans :
        /\ plan' = [plan EXCEPT ![r] = p]
        /\ Proceeds(r, "checked")
    /\ UNCHANGED <<cluster, staged, forwarding, steps, ran, report, sandboxFaults>>

\* finishBlocked: an empty workspace, no cluster, no package.json to read.
RunBlocked(r) ==
    /\ stage[r] = "new"
    /\ report' = [report EXCEPT ![r] = "BLOCKED"]
    /\ Proceeds(r, "over")
    /\ UNCHANGED <<plan, cluster, staged, forwarding, steps, ran, sandboxFaults>>

\* stageSnapshot, then the namespace and its network policy.
NamespaceApplied(r) ==
    /\ stage[r] = "checked"
    /\ staged' = [staged EXCEPT ![r] = TRUE]
    /\ cluster' = [cluster EXCEPT ![r] = "namespace"]
    /\ Proceeds(r, "creating")
    /\ UNCHANGED <<plan, forwarding, steps, ran, report, sandboxFaults>>

PodReady(r) ==
    /\ stage[r] = "creating" /\ cluster[r] = "namespace"
    /\ cluster' = [cluster EXCEPT ![r] = "live"]
    /\ UNCHANGED <<stage, plan, staged, forwarding, steps, ran, report, sandboxFaults>>

\* copyDirectoryIntoPod.
Copied(r) ==
    /\ stage[r] = "creating" /\ cluster[r] = "live"
    /\ Proceeds(r, "install")
    /\ UNCHANGED <<plan, cluster, staged, forwarding, steps, ran, report, sandboxFaults>>

-----------------------------------------------------------------------------
(* The end of a sandbox *)

\* Mutant: only a preview is taken down.
NotDeleted(r) == UNCHANGED <<cluster, sandboxFaults>>

\* destroy: errors of the deletion are ignored, and the namespace stays.
Deleted(r) ==
    \/ /\ cluster' = [cluster EXCEPT ![r] = "none"]
       /\ UNCHANGED sandboxFaults
    \/ /\ cluster[r] # "none" /\ sandboxFaults < MaxSandboxFaults
       /\ sandboxFaults' = sandboxFaults + 1
       /\ UNCHANGED cluster

\* apply, wait or copy fails: create takes its namespace down and throws.
CreateFails(r) ==
    /\ stage[r] = "creating"
    /\ Deleted(r)
    /\ Proceeds(r, "unmade")
    /\ UNCHANGED <<plan, staged, forwarding, steps, ran, report>>

\* infraFailure: the sandbox is to blame; there is none to destroy.
FailureIsWritten(r) ==
    /\ stage[r] = "unmade"
    /\ report' = [report EXCEPT ![r] = "BLOCKED"]
    /\ Proceeds(r, "clearing")
    /\ UNCHANGED <<plan, cluster, staged, forwarding, steps, ran, sandboxFaults>>

-----------------------------------------------------------------------------
(* The steps *)

Planned(r, c) == IF c = "install" THEN TRUE ELSE plan[r][c]
After(c) == CASE c = "install" -> "build" [] c = "build" -> "test" [] c = "test" -> "preview"

Skips(r) ==
    /\ stage[r] \in Commands /\ ~Planned(r, stage[r])
    /\ steps' = [steps EXCEPT ![r][stage[r]] = "skipped"]
    /\ Proceeds(r, IF stage[r] = "preview" THEN "reporting" ELSE After(stage[r]))
    /\ UNCHANGED <<plan, cluster, staged, forwarding, ran, report, sandboxFaults>>

\* runStep: the exit code of kubectl is that of the command, or its own.  A step
\* that failed does not keep the next from running.
CommandRuns(r) ==
    /\ stage[r] \in Commands \ {"preview"} /\ Planned(r, stage[r])
    /\ \E o \in Outcomes :
        /\ cluster[r] # "live" => o # "passed"
        /\ steps' = [steps EXCEPT ![r][stage[r]] = o]
        /\ ran' = IF cluster[r] = "live" THEN [ran EXCEPT ![r][stage[r]] = o] ELSE ran
    /\ Proceeds(r, After(stage[r]))
    /\ UNCHANGED <<plan, cluster, staged, forwarding, report, sandboxFaults>>

\* startPreview, then the browser, whose step is not required.
PreviewAnswers(r) ==
    /\ stage[r] = "preview" /\ plan[r].preview
    /\ cluster[r] = "live"
    /\ steps' = [steps EXCEPT ![r]["preview"] = "passed"]
    /\ ran' = [ran EXCEPT ![r]["preview"] = "passed"]
    /\ forwarding' = [forwarding EXCEPT ![r] = TRUE]
    /\ Proceeds(r, "reporting")
    /\ UNCHANGED <<plan, cluster, staged, report, sandboxFaults>>

\* The server does not start or answer, which is the project's fault, or the
\* port-forward exits, which is the sandbox's; the child is killed.
PreviewFails(r) ==
    /\ stage[r] = "preview" /\ plan[r].preview
    /\ steps' = [steps EXCEPT ![r]["preview"] = "failed"]
    /\ \E v \in {"FAILED", "BLOCKED"} : report' = [report EXCEPT ![r] = v]
    /\ ran' = IF cluster[r] = "live" THEN [ran EXCEPT ![r]["preview"] = "failed"] ELSE ran
    /\ Proceeds(r, "cleaning")
    /\ UNCHANGED <<plan, cluster, staged, forwarding, sandboxFaults>>

SomeStep(r, o) == \E c \in Commands : Planned(r, c) /\ steps[r][c] = o

\* Mutant: the last step decides.
LastStatus(r) == IF steps[r]["preview"] \in {"passed", "skipped"} THEN "PASSED" ELSE "FAILED"

ResultStatus(r) ==
    IF SomeStep(r, "timed_out") THEN "TIMED_OUT"
    ELSE IF SomeStep(r, "failed") THEN "FAILED" ELSE "PASSED"

\* A preview that is kept has a timer in this process.
Kept(r) == IF forwarding[r] /\ plan[r].keep THEN "kept" ELSE "cleaning"

ReportIsWritten(r) ==
    /\ stage[r] = "reporting"
    /\ report' = [report EXCEPT ![r] = ResultStatus(r)]
    /\ Proceeds(r, Kept(r))
    /\ UNCHANGED <<plan, cluster, staged, forwarding, steps, ran, sandboxFaults>>

\* The finally block: the preview, the staging directory, the sandbox.
PreviewStops(r) ==
    /\ stage[r] = "cleaning"
    /\ forwarding' = [forwarding EXCEPT ![r] = FALSE]
    /\ Proceeds(r, "leaving")
    /\ UNCHANGED <<plan, cluster, staged, steps, ran, report, sandboxFaults>>

AfterStaging(s) ==
    CASE s = "leaving" -> "destroying" [] s = "clearing" -> "over" [] s = "kept" -> "kept"

StagingRemoved(r) ==
    /\ stage[r] \in {"leaving", "clearing", "kept"} /\ staged[r]
    /\ staged' = [staged EXCEPT ![r] = FALSE]
    /\ Proceeds(r, AfterStaging(stage[r]))
    /\ UNCHANGED <<plan, cluster, forwarding, steps, ran, report, sandboxFaults>>

Destroys(r) ==
    /\ stage[r] = "destroying"
    /\ Deleted(r)
    /\ Proceeds(r, "over")
    /\ UNCHANGED <<plan, staged, forwarding, steps, ran, report>>

\* PREVIEW_TTL_MS after the report.
TimeIsUp(r) ==
    /\ stage[r] = "kept" /\ ~staged[r]
    /\ forwarding' = [forwarding EXCEPT ![r] = FALSE]
    /\ Deleted(r)
    /\ Proceeds(r, "over")
    /\ UNCHANGED <<plan, staged, steps, ran, report>>

-----------------------------------------------------------------------------
(* The cluster and the worker *)

\* activeDeadlineSeconds, the memory limit, an eviction.
PodDies(r) ==
    /\ cluster[r] = "live"
    /\ cluster' = [cluster EXCEPT ![r] = "dead"]
    /\ UNCHANGED <<stage, plan, staged, forwarding, steps, ran, report, sandboxFaults>>

\* Every run of the worker is gone, with its children and timers.
WorkerDies ==
    /\ sandboxFaults < MaxSandboxFaults
    /\ sandboxFaults' = sandboxFaults + 1
    /\ \E r \in SandboxRuns : stage[r] \notin {"new", "over"}
    /\ stage' = [r \in SandboxRuns |-> IF stage[r] = "new" THEN "new" ELSE "over"]
    /\ forwarding' = [r \in SandboxRuns |-> FALSE]
    /\ UNCHANGED <<plan, cluster, staged, steps, ran, report>>

RunMoves(r) ==
    \/ NamespaceApplied(r) \/ PodReady(r) \/ Copied(r) \/ CreateFails(r)
    \/ Skips(r) \/ CommandRuns(r) \/ PreviewAnswers(r) \/ PreviewFails(r)
    \/ ReportIsWritten(r) \/ FailureIsWritten(r) \/ PreviewStops(r)
    \/ StagingRemoved(r) \/ Destroys(r) \/ TimeIsUp(r)

SandboxNext ==
    \/ \E r \in SandboxRuns : RunBegins(r) \/ RunBlocked(r) \/ RunMoves(r) \/ PodDies(r)
    \/ WorkerDies

SandboxSpec == SandboxInit /\ [][SandboxNext]_sandboxVars

-----------------------------------------------------------------------------
(* Properties *)

SandboxTypeOK ==
    /\ stage \in [SandboxRuns -> Commands \union {"new", "checked", "creating",
                    "reporting", "unmade", "clearing", "kept", "cleaning", "leaving",
                    "destroying", "over"}]
    /\ plan \in [SandboxRuns -> Plans]
    /\ cluster \in [SandboxRuns -> {"none", "namespace", "live", "dead"}]
    /\ staged \in [SandboxRuns -> BOOLEAN] /\ forwarding \in [SandboxRuns -> BOOLEAN]
    /\ steps \in [SandboxRuns -> [Commands -> Outcomes \union {"none", "skipped"}]]
    /\ ran \in [SandboxRuns -> [Commands -> Outcomes \union {"never"}]]
    /\ report \in [SandboxRuns -> {"RUNNING", "PASSED", "FAILED", "TIMED_OUT", "BLOCKED"}]
    /\ sandboxFaults \in 0 .. MaxSandboxFaults

\* "Real verification": a report is PASSED only if every command of the plan
\* passed in the pod and the preview answered, although the pod may have died
\* between any two of them; FAILED or TIMED_OUT only on a step that was required.
PassedMeansRan ==
    \A r \in SandboxRuns :
        /\ report[r] = "PASSED" => \A c \in Commands : Planned(r, c) => ran[r][c] = "passed"
        /\ report[r] \in {"FAILED", "TIMED_OUT"} =>
               \E c \in Commands : Planned(r, c) /\ steps[r][c] \in {"failed", "timed_out"}

\* A verification that is over leaves no namespace, port-forward or staging
\* directory, whichever of its steps threw, unless a deletion failed or the
\* worker died; one that keeps its preview has a verdict to show for it.
NothingLeft ==
    \A r \in SandboxRuns :
        /\ stage[r] = "over" => ~forwarding[r]
        /\ stage[r] = "over" /\ sandboxFaults = 0 => cluster[r] = "none" /\ ~staged[r]
        /\ stage[r] = "kept" => forwarding[r] /\ report[r] # "RUNNING"

-----------------------------------------------------------------------------
(* A property a comment states and the code does not have *)

\* "Never claims a command ran when the sandbox was unavailable"
\* (runSandboxVerification).
NeverClaimsARun ==
    \A r \in SandboxRuns, c \in Commands :
        steps[r][c] \in Outcomes => ran[r][c] # "never"
=============================================================================
