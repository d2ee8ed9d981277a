------------------------------ MODULE PartsProofs ------------------------------
(***************************************************************************)
(* The sandbox, the page with its file editor, the router and the turns of *)
(* an execution, for any number of verifications, files, calls, requests,  *)
(* nodes and attempts and for any settings and budgets; and, last, that    *)
(* all the parts of a node's work, its rows and its page keep their types  *)
(* together.                                                               *)
(***************************************************************************)
EXTENDS MCParts, StateSeamProofs, ContextProofs, FiniteSetTheorems, SequenceTheorems,
        WellFoundedInduction, TLAPS

-----------------------------------------------------------------------------
(* A verification in its pod *)

\* Where a run is once it has come past a command, until its report.
Past(c) ==
    {"reporting"} \union
    IF c = "install" THEN {"build", "test", "preview"}
    ELSE IF c = "build" THEN {"test", "preview"}
    ELSE IF c = "test" THEN {"preview"} ELSE {}

\* Every planned command a run has come past has an outcome.
Tried ==
    \A r \in SandboxRuns, c \in Commands :
        stage[r] \in Past(c) /\ Planned(r, c) => steps[r][c] \in Outcomes

\* A step is recorded as passed only if its command did, in the pod.
Honest == \A r \in SandboxRuns, c \in Commands : steps[r][c] = "passed" => ran[r][c] = "passed"

\* There is no verdict before the report.
Unjudged ==
    \A r \in SandboxRuns :
        stage[r] \in Commands \union {"new", "checked", "creating", "reporting"}
            => report[r] = "RUNNING"

\* What a run holds, by where it is; deletions that fail excepted.
Footprint ==
    \A r \in SandboxRuns :
        /\ forwarding[r] => stage[r] \in {"reporting", "kept", "cleaning"}
        /\ stage[r] \in {"new", "checked"} => cluster[r] = "none" /\ ~staged[r]
        /\ stage[r] = "destroying" => ~staged[r]
        /\ stage[r] \in {"unmade", "clearing"} /\ sandboxFaults = 0 => cluster[r] = "none"

SandboxInv ==
    /\ SandboxTypeOK
    /\ Tried
    /\ Honest
    /\ Unjudged
    /\ Footprint
    /\ PassedMeansRan
    /\ NothingLeft

LEMMA SandboxBegins == SandboxInit => SandboxInv
<1>1. SandboxInit => SandboxTypeOK
  BY SandboxAssumption DEF SandboxInit, SandboxTypeOK, None, NoPlan, Plans, Commands, Outcomes
<1>2. SandboxInit => Tried /\ Honest /\ Unjudged /\ Footprint
  BY DEF SandboxInit, Tried, Past, Honest, Unjudged, Footprint, None, Commands, Planned
<1>3. SandboxInit => PassedMeansRan /\ NothingLeft
  BY DEF SandboxInit, PassedMeansRan, NothingLeft
<1>4. QED
  BY <1>1, <1>2, <1>3 DEF SandboxInv

\* What a deletion may come to: the namespace is gone, or a fault was spent.
LEMMA DeletedEffect ==
  ASSUME SandboxTypeOK, NEW r \in SandboxRuns, Deleted(r)
  PROVE  /\ cluster' \in [SandboxRuns -> {"none", "namespace", "live", "dead"}]
         /\ sandboxFaults' \in 0 .. MaxSandboxFaults
         /\ \A o \in SandboxRuns : o # r => cluster'[o] = cluster[o]
         /\ sandboxFaults' = 0 => sandboxFaults = 0 /\ cluster'[r] = "none"
<1>1. CASE /\ cluster' = [cluster EXCEPT ![r] = "none"]
           /\ UNCHANGED sandboxFaults
  BY <1>1 DEF SandboxTypeOK
<1>2. CASE /\ sandboxFaults < MaxSandboxFaults
           /\ sandboxFaults' = sandboxFaults + 1
           /\ UNCHANGED cluster
  BY <1>2, SandboxAssumption DEF SandboxTypeOK
<1>3. QED
  BY <1>1, <1>2 DEF Deleted

LEMMA RunBeginsKeeps ==
  ASSUME SandboxInv, NEW r \in SandboxRuns, RunBegins(r)
  PROVE  SandboxInv'
<1>1. SandboxTypeOK'
  BY SandboxAssumption DEF SandboxInv, SandboxTypeOK, RunBegins, Proceeds, Plans, Commands, Outcomes
<1>2. Tried'
  BY DEF SandboxInv, SandboxTypeOK, Tried, Past, Planned, RunBegins, Proceeds, Commands, Outcomes
<1>3. Honest'
  BY DEF SandboxInv, SandboxTypeOK, Honest, RunBegins, Proceeds, Commands, Outcomes
<1>4. Unjudged'
  BY DEF SandboxInv, SandboxTypeOK, Unjudged, RunBegins, Proceeds, Commands
<1>5. Footprint'
  BY SandboxAssumption DEF SandboxInv, SandboxTypeOK, Footprint, RunBegins, Proceeds, Commands
<1>6. PassedMeansRan'
  BY DEF SandboxInv, SandboxTypeOK, PassedMeansRan, Unjudged, Tried, Past, Honest, Planned, RunBegins, Proceeds, Commands, Outcomes
<1>7. NothingLeft'
  BY SandboxAssumption DEF SandboxInv, SandboxTypeOK, NothingLeft, Footprint, RunBegins, Proceeds, Commands
<1>8. QED
  BY <1>1, <1>2, <1>3, <1>4, <1>5, <1>6, <1>7 DEF SandboxInv

LEMMA RunBlockedKeeps ==
  ASSUME SandboxInv, NEW r \in SandboxRuns, RunBlocked(r)
  PROVE  SandboxInv'
<1>1. SandboxTypeOK'
  BY SandboxAssumption DEF SandboxInv, SandboxTypeOK, RunBlocked, Proceeds, Plans, Commands, Outcomes
<1>2. Tried'
  BY DEF SandboxInv, SandboxTypeOK, Tried, Past, Planned, RunBlocked, Proceeds, Commands, Outcomes
<1>3. Honest'
  BY DEF SandboxInv, SandboxTypeOK, Honest, RunBlocked, Proceeds, Commands, Outcomes
<1>4. Unjudged'
  BY DEF SandboxInv, SandboxTypeOK, Unjudged, RunBlocked, Proceeds, Commands
<1>5. Footprint'
  BY SandboxAssumption DEF SandboxInv, SandboxTypeOK, Footprint, RunBlocked, Proceeds, Commands
<1>6. PassedMeansRan'
  BY DEF SandboxInv, SandboxTypeOK, PassedMeansRan, Unjudged, Tried, Past, Honest, Planned, RunBlocked, Proceeds, Commands, Outcomes
<1>7. NothingLeft'
  BY SandboxAssumption DEF SandboxInv, SandboxTypeOK, NothingLeft, Footprint, RunBlocked, Proceeds, Commands
<1>8. QED
  BY <1>1, <1>2, <1>3, <1>4, <1>5, <1>6, <1>7 DEF SandboxInv

LEMMA NamespaceAppliedKeeps ==
  ASSUME SandboxInv, NEW r \in SandboxRuns, NamespaceApplied(r)
  PROVE  SandboxInv'
<1>1. SandboxTypeOK'
  BY SandboxAssumption DEF SandboxInv, SandboxTypeOK, NamespaceApplied, Proceeds, Plans, Commands, Outcomes
<1>2. Tried'
  BY DEF SandboxInv, SandboxTypeOK, Tried, Past, Planned, NamespaceApplied, Proceeds, Commands, Outcomes
<1>3. Honest'
  BY DEF SandboxInv, SandboxTypeOK, Honest, NamespaceApplied, Proceeds, Commands, Outcomes
<1>4. Unjudged'
  BY DEF SandboxInv, SandboxTypeOK, Unjudged, NamespaceApplied, Proceeds, Commands
<1>5. Footprint'
  BY SandboxAssumption DEF SandboxInv, SandboxTypeOK, Footprint, NamespaceApplied, Proceeds, Commands
<1>6. PassedMeansRan'
  BY DEF SandboxInv, SandboxTypeOK, PassedMeansRan, Unjudged, Tried, Past, Honest, Planned, NamespaceApplied, Proceeds, Commands, Outcomes
<1>7. NothingLeft'
  BY SandboxAssumption DEF SandboxInv, SandboxTypeOK, NothingLeft, Footprint, NamespaceApplied, Proceeds, Commands
<1>8. QED
  BY <1>1, <1>2, <1>3, <1>4, <1>5, <1>6, <1>7 DEF SandboxInv

LEMMA PodReadyKeeps ==
  ASSUME SandboxInv, NEW r \in SandboxRuns, PodReady(r)
  PROVE  SandboxInv'
<1>1. SandboxTypeOK'
  BY SandboxAssumption DEF SandboxInv, SandboxTypeOK, PodReady, Proceeds, Plans, Commands, Outcomes
<1>2. Tried'
  BY DEF SandboxInv, SandboxTypeOK, Tried, Past, Planned, PodReady, Proceeds, Commands, Outcomes
<1>3. Honest'
  BY DEF SandboxInv, SandboxTypeOK, Honest, PodReady, Proceeds, Commands, Outcomes
<1>4. Unjudged'
  BY DEF SandboxInv, SandboxTypeOK, Unjudged, PodReady, Proceeds, Commands
<1>5. Footprint'
  BY SandboxAssumption DEF SandboxInv, SandboxTypeOK, Footprint, PodReady, Proceeds, Commands
<1>6. PassedMeansRan'
  BY DEF SandboxInv, SandboxTypeOK, PassedMeansRan, Unjudged, Tried, Past, Honest, Planned, PodReady, Proceeds, Commands, Outcomes
<1>7. NothingLeft'
  BY SandboxAssumption DEF SandboxInv, SandboxTypeOK, NothingLeft, Footprint, PodReady, Proceeds, Commands
<1>8. QED
  BY <1>1, <1>2, <1>3, <1>4, <1>5, <1>6, <1>7 DEF SandboxInv

LEMMA CopiedKeeps ==
  ASSUME SandboxInv, NEW r \in SandboxRuns, Copied(r)
  PROVE  SandboxInv'
<1>1. SandboxTypeOK'
  BY SandboxAssumption DEF SandboxInv, SandboxTypeOK, Copied, Proceeds, Plans, Commands, Outcomes
<1>2. Tried'
  BY DEF SandboxInv, SandboxTypeOK, Tried, Past, Planned, Copied, Proceeds, Commands, Outcomes
<1>3. Honest'
  BY DEF SandboxInv, SandboxTypeOK, Honest, Copied, Proceeds, Commands, Outcomes
<1>4. Unjudged'
  BY DEF SandboxInv, SandboxTypeOK, Unjudged, Copied, Proceeds, Commands
<1>5. Footprint'
  BY SandboxAssumption DEF SandboxInv, SandboxTypeOK, Footprint, Copied, Proceeds, Commands
<1>6. PassedMeansRan'
  BY DEF SandboxInv, SandboxTypeOK, PassedMeansRan, Unjudged, Tried, Past, Honest, Planned, Copied, Proceeds, Commands, Outcomes
<1>7. NothingLeft'
  BY SandboxAssumption DEF SandboxInv, SandboxTypeOK, NothingLeft, Footprint, Copied, Proceeds, Commands
<1>8. QED
  BY <1>1, <1>2, <1>3, <1>4, <1>5, <1>6, <1>7 DEF SandboxInv

LEMMA CreateFailsKeeps ==
  ASSUME SandboxInv, NEW r \in SandboxRuns, CreateFails(r)
  PROVE  SandboxInv'
<1>1. SandboxTypeOK'
  BY DeletedEffect, SandboxAssumption DEF SandboxInv, SandboxTypeOK, CreateFails, Proceeds, Plans, Commands, Outcomes
<1>2. Tried'
  BY DEF SandboxInv, SandboxTypeOK, Tried, Past, Planned, CreateFails, Proceeds, Commands, Outcomes
<1>3. Honest'
  BY DEF SandboxInv, SandboxTypeOK, Honest, CreateFails, Proceeds, Commands, Outcomes
<1>4. Unjudged'
  BY DEF SandboxInv, SandboxTypeOK, Unjudged, CreateFails, Proceeds, Commands
<1>5. Footprint'
  BY DeletedEffect, SandboxAssumption DEF SandboxInv, SandboxTypeOK, Footprint, CreateFails, Proceeds, Commands
<1>6. PassedMeansRan'
  BY DEF SandboxInv, SandboxTypeOK, PassedMeansRan, Unjudged, Tried, Past, Honest, Planned, CreateFails, Proceeds, Commands, Outcomes
<1>7. NothingLeft'
  BY DeletedEffect, SandboxAssumption DEF SandboxInv, SandboxTypeOK, NothingLeft, Footprint, CreateFails, Proceeds, Commands
<1>8. QED
  BY <1>1, <1>2, <1>3, <1>4, <1>5, <1>6, <1>7 DEF SandboxInv

LEMMA SkipsKeeps ==
  ASSUME SandboxInv, NEW r \in SandboxRuns, Skips(r)
  PROVE  SandboxInv'
<1>1. SandboxTypeOK'
  BY SandboxAssumption DEF SandboxInv, SandboxTypeOK, Skips, After, Proceeds, Plans, Commands, Outcomes
<1>2. Tried'
  BY DEF SandboxInv, SandboxTypeOK, Tried, Past, Planned, Skips, After, Proceeds, Commands, Outcomes
<1>3. Honest'
  BY DEF SandboxInv, SandboxTypeOK, Honest, Skips, After, Proceeds, Commands, Outcomes
<1>4. Unjudged'
  BY DEF SandboxInv, SandboxTypeOK, Unjudged, Skips, After, Proceeds, Commands
<1>5. Footprint'
  BY SandboxAssumption DEF SandboxInv, SandboxTypeOK, Footprint, Skips, After, Proceeds, Commands
<1>6. PassedMeansRan'
  BY DEF SandboxInv, SandboxTypeOK, PassedMeansRan, Unjudged, Tried, Past, Honest, Planned, Skips, After, Proceeds, Commands, Outcomes
<1>7. NothingLeft'
  BY SandboxAssumption DEF SandboxInv, SandboxTypeOK, NothingLeft, Footprint, Skips, After, Proceeds, Commands
<1>8. QED
  BY <1>1, <1>2, <1>3, <1>4, <1>5, <1>6, <1>7 DEF SandboxInv

LEMMA CommandRunsKeeps ==
  ASSUME SandboxInv, NEW r \in SandboxRuns, CommandRuns(r)
  PROVE  SandboxInv'
<1>1. SandboxTypeOK'
  BY SandboxAssumption DEF SandboxInv, SandboxTypeOK, CommandRuns, After, Proceeds, Plans, Commands, Outcomes
<1>2. Tried'
  BY DEF SandboxInv, SandboxTypeOK, Tried, Past, Planned, CommandRuns, After, Proceeds, Commands, Outcomes
<1>3. Honest'
  BY DEF SandboxInv, SandboxTypeOK, Honest, CommandRuns, After, Proceeds, Commands, Outcomes
<1>4. Unjudged'
  BY DEF SandboxInv, SandboxTypeOK, Unjudged, CommandRuns, After, Proceeds, Commands
<1>5. Footprint'
  BY SandboxAssumption DEF SandboxInv, SandboxTypeOK, Footprint, CommandRuns, After, Proceeds, Commands
<1>6. PassedMeansRan'
  BY DEF SandboxInv, SandboxTypeOK, PassedMeansRan, Unjudged, Tried, Past, Honest, Planned, CommandRuns, After, Proceeds, Commands, Outcomes
<1>7. NothingLeft'
  BY SandboxAssumption DEF SandboxInv, SandboxTypeOK, NothingLeft, Footprint, CommandRuns, After, Proceeds, Commands
<1>8. QED
  BY <1>1, <1>2, <1>3, <1>4, <1>5, <1>6, <1>7 DEF SandboxInv

LEMMA PreviewAnswersKeeps ==
  ASSUME SandboxInv, NEW r \in SandboxRuns, PreviewAnswers(r)
  PROVE  SandboxInv'
<1>1. SandboxTypeOK'
  BY SandboxAssumption DEF SandboxInv, SandboxTypeOK, PreviewAnswers, Proceeds, Plans, Commands, Outcomes
<1>2. Tried'
  BY DEF SandboxInv, SandboxTypeOK, Tried, Past, Planned, PreviewAnswers, Proceeds, Commands, Outcomes
<1>3. Honest'
  BY DEF SandboxInv, SandboxTypeOK, Honest, PreviewAnswers, Proceeds, Commands, Outcomes
<1>4. Unjudged'
  BY DEF SandboxInv, SandboxTypeOK, Unjudged, PreviewAnswers, Proceeds, Commands
<1>5. Footprint'
  BY SandboxAssumption DEF SandboxInv, SandboxTypeOK, Footprint, PreviewAnswers, Proceeds, Commands
<1>6. PassedMeansRan'
  BY DEF SandboxInv, SandboxTypeOK, PassedMeansRan, Unjudged, Tried, Past, Honest, Planned, PreviewAnswers, Proceeds, Commands, Outcomes
<1>7. NothingLeft'
  BY SandboxAssumption DEF SandboxInv, SandboxTypeOK, NothingLeft, Footprint, PreviewAnswers, Proceeds, Commands
<1>8. QED
  BY <1>1, <1>2, <1>3, <1>4, <1>5, <1>6, <1>7 DEF SandboxInv

LEMMA PreviewFailsKeeps ==
  ASSUME SandboxInv, NEW r \in SandboxRuns, PreviewFails(r)
  PROVE  SandboxInv'
<1>1. SandboxTypeOK'
  BY SandboxAssumption DEF SandboxInv, SandboxTypeOK, PreviewFails, Proceeds, Plans, Commands, Outcomes
<1>2. Tried'
  BY DEF SandboxInv, SandboxTypeOK, Tried, Past, Planned, PreviewFails, Proceeds, Commands, Outcomes
<1>3. Honest'
  BY DEF SandboxInv, SandboxTypeOK, Honest, PreviewFails, Proceeds, Commands, Outcomes
<1>4. Unjudged'
  BY DEF SandboxInv, SandboxTypeOK, Unjudged, PreviewFails, Proceeds, Commands
<1>5. Footprint'
  BY SandboxAssumption DEF SandboxInv, SandboxTypeOK, Footprint, PreviewFails, Proceeds, Commands
<1>6. PassedMeansRan'
  BY DEF SandboxInv, SandboxTypeOK, PassedMeansRan, Unjudged, Tried, Past, Honest, Planned, PreviewFails, Proceeds, Commands, Outcomes
<1>7. NothingLeft'
  BY SandboxAssumption DEF SandboxInv, SandboxTypeOK, NothingLeft, Footprint, PreviewFails, Proceeds, Commands
<1>8. QED
  BY <1>1, <1>2, <1>3, <1>4, <1>5, <1>6, <1>7 DEF SandboxInv

LEMMA ReportIsWrittenKeeps ==
  ASSUME SandboxInv, NEW r \in SandboxRuns, ReportIsWritten(r)
  PROVE  SandboxInv'
<1>1. SandboxTypeOK'
  BY SandboxAssumption DEF SandboxInv, SandboxTypeOK, ReportIsWritten, Kept, ResultStatus, SomeStep, Proceeds, Plans, Commands, Outcomes
<1>2. Tried'
  BY DEF SandboxInv, SandboxTypeOK, Tried, Past, Planned, ReportIsWritten, Kept, ResultStatus, SomeStep, Proceeds, Commands, Outcomes
<1>3. Honest'
  BY DEF SandboxInv, SandboxTypeOK, Honest, ReportIsWritten, Kept, ResultStatus, SomeStep, Proceeds, Commands, Outcomes
<1>4. Unjudged'
  BY DEF SandboxInv, SandboxTypeOK, Unjudged, ReportIsWritten, Kept, ResultStatus, SomeStep, Proceeds, Commands
<1>5. Footprint'
  BY SandboxAssumption DEF SandboxInv, SandboxTypeOK, Footprint, ReportIsWritten, Kept, ResultStatus, SomeStep, Proceeds, Commands
<1>6. PassedMeansRan'
  BY DEF SandboxInv, SandboxTypeOK, PassedMeansRan, Unjudged, Tried, Past, Honest, Planned, ReportIsWritten, Kept, ResultStatus, SomeStep, Proceeds, Commands, Outcomes
<1>7. NothingLeft'
  BY SandboxAssumption DEF SandboxInv, SandboxTypeOK, NothingLeft, Footprint, ReportIsWritten, Kept, ResultStatus, SomeStep, Proceeds, Commands
<1>8. QED
  BY <1>1, <1>2, <1>3, <1>4, <1>5, <1>6, <1>7 DEF SandboxInv

LEMMA FailureIsWrittenKeeps ==
  ASSUME SandboxInv, NEW r \in SandboxRuns, FailureIsWritten(r)
  PROVE  SandboxInv'
<1>1. SandboxTypeOK'
  BY SandboxAssumption DEF SandboxInv, SandboxTypeOK, FailureIsWritten, Proceeds, Plans, Commands, Outcomes
<1>2. Tried'
  BY DEF SandboxInv, SandboxTypeOK, Tried, Past, Planned, FailureIsWritten, Proceeds, Commands, Outcomes
<1>3. Honest'
  BY DEF SandboxInv, SandboxTypeOK, Honest, FailureIsWritten, Proceeds, Commands, Outcomes
<1>4. Unjudged'
  BY DEF SandboxInv, SandboxTypeOK, Unjudged, FailureIsWritten, Proceeds, Commands
<1>5. Footprint'
  BY SandboxAssumption DEF SandboxInv, SandboxTypeOK, Footprint, FailureIsWritten, Proceeds, Commands
<1>6. PassedMeansRan'
  BY DEF SandboxInv, SandboxTypeOK, PassedMeansRan, Unjudged, Tried, Past, Honest, Planned, FailureIsWritten, Proceeds, Commands, Outcomes
<1>7. NothingLeft'
  BY SandboxAssumption DEF SandboxInv, SandboxTypeOK, NothingLeft, Footprint, FailureIsWritten, Proceeds, Commands
<1>8. QED
  BY <1>1, <1>2, <1>3, <1>4, <1>5, <1>6, <1>7 DEF SandboxInv

LEMMA PreviewStopsKeeps ==
  ASSUME SandboxInv, NEW r \in SandboxRuns, PreviewStops(r)
  PROVE  SandboxInv'
<1>1. SandboxTypeOK'
  BY SandboxAssumption DEF SandboxInv, SandboxTypeOK, PreviewStops, Proceeds, Plans, Commands, Outcomes
<1>2. Tried'
  BY DEF SandboxInv, SandboxTypeOK, Tried, Past, Planned, PreviewStops, Proceeds, Commands, Outcomes
<1>3. Honest'
  BY DEF SandboxInv, SandboxTypeOK, Honest, PreviewStops, Proceeds, Commands, Outcomes
<1>4. Unjudged'
  BY DEF SandboxInv, SandboxTypeOK, Unjudged, PreviewStops, Proceeds, Commands
<1>5. Footprint'
  BY SandboxAssumption DEF SandboxInv, SandboxTypeOK, Footprint, PreviewStops, Proceeds, Commands
<1>6. PassedMeansRan'
  BY DEF SandboxInv, SandboxTypeOK, PassedMeansRan, Unjudged, Tried, Past, Honest, Planned, PreviewStops, Proceeds, Commands, Outcomes
<1>7. NothingLeft'
  BY SandboxAssumption DEF SandboxInv, SandboxTypeOK, NothingLeft, Footprint, PreviewStops, Proceeds, Commands
<1>8. QED
  BY <1>1, <1>2, <1>3, <1>4, <1>5, <1>6, <1>7 DEF SandboxInv

LEMMA StagingRemovedKeeps ==
  ASSUME SandboxInv, NEW r \in SandboxRuns, StagingRemoved(r)
  PROVE  SandboxInv'
<1>1. SandboxTypeOK'
  BY SandboxAssumption DEF SandboxInv, SandboxTypeOK, StagingRemoved, AfterStaging, Proceeds, Plans, Commands, Outcomes
<1>2. Tried'
  BY DEF SandboxInv, SandboxTypeOK, Tried, Past, Planned, StagingRemoved, AfterStaging, Proceeds, Commands, Outcomes
<1>3. Honest'
  BY DEF SandboxInv, SandboxTypeOK, Honest, StagingRemoved, AfterStaging, Proceeds, Commands, Outcomes
<1>4. Unjudged'
  BY DEF SandboxInv, SandboxTypeOK, Unjudged, StagingRemoved, AfterStaging, Proceeds, Commands
<1>5. Footprint'
  BY SandboxAssumption DEF SandboxInv, SandboxTypeOK, Footprint, StagingRemoved, AfterStaging, Proceeds, Commands
<1>6. PassedMeansRan'
  BY DEF SandboxInv, SandboxTypeOK, PassedMeansRan, Unjudged, Tried, Past, Honest, Planned, StagingRemoved, AfterStaging, Proceeds, Commands, Outcomes
<1>7. NothingLeft'
  BY SandboxAssumption DEF SandboxInv, SandboxTypeOK, NothingLeft, Footprint, StagingRemoved, AfterStaging, Proceeds, Commands
<1>8. QED
  BY <1>1, <1>2, <1>3, <1>4, <1>5, <1>6, <1>7 DEF SandboxInv

LEMMA DestroysKeeps ==
  ASSUME SandboxInv, NEW r \in SandboxRuns, Destroys(r)
  PROVE  SandboxInv'
<1>1. SandboxTypeOK'
  BY DeletedEffect, SandboxAssumption DEF SandboxInv, SandboxTypeOK, Destroys, Proceeds, Plans, Commands, Outcomes
<1>2. Tried'
  BY DEF SandboxInv, SandboxTypeOK, Tried, Past, Planned, Destroys, Proceeds, Commands, Outcomes
<1>3. Honest'
  BY DEF SandboxInv, SandboxTypeOK, Honest, Destroys, Proceeds, Commands, Outcomes
<1>4. Unjudged'
  BY DEF SandboxInv, SandboxTypeOK, Unjudged, Destroys, Proceeds, Commands
<1>5. Footprint'
  BY DeletedEffect, SandboxAssumption DEF SandboxInv, SandboxTypeOK, Footprint, Destroys, Proceeds, Commands
<1>6. PassedMeansRan'
  BY DEF SandboxInv, SandboxTypeOK, PassedMeansRan, Unjudged, Tried, Past, Honest, Planned, Destroys, Proceeds, Commands, Outcomes
<1>7. NothingLeft'
  BY DeletedEffect, SandboxAssumption, SMTT(30) DEF SandboxInv, SandboxTypeOK, NothingLeft, Footprint, Destroys, Proceeds, Commands
<1>8. QED
  BY <1>1, <1>2, <1>3, <1>4, <1>5, <1>6, <1>7 DEF SandboxInv

LEMMA TimeIsUpKeeps ==
  ASSUME SandboxInv, NEW r \in SandboxRuns, TimeIsUp(r)
  PROVE  SandboxInv'
<1>1. SandboxTypeOK'
  BY DeletedEffect, SandboxAssumption DEF SandboxInv, SandboxTypeOK, TimeIsUp, Proceeds, Plans, Commands, Outcomes
<1>2. Tried'
  BY DEF SandboxInv, SandboxTypeOK, Tried, Past, Planned, TimeIsUp, Proceeds, Commands, Outcomes
<1>3. Honest'
  BY DEF SandboxInv, SandboxTypeOK, Honest, TimeIsUp, Proceeds, Commands, Outcomes
<1>4. Unjudged'
  BY DEF SandboxInv, SandboxTypeOK, Unjudged, TimeIsUp, Proceeds, Commands
<1>5. Footprint'
  BY DeletedEffect, SandboxAssumption DEF SandboxInv, SandboxTypeOK, Footprint, TimeIsUp, Proceeds, Commands
<1>6. PassedMeansRan'
  BY DEF SandboxInv, SandboxTypeOK, PassedMeansRan, Unjudged, Tried, Past, Honest, Planned, TimeIsUp, Proceeds, Commands, Outcomes
<1>7. NothingLeft'
  BY DeletedEffect, SandboxAssumption DEF SandboxInv, SandboxTypeOK, NothingLeft, Footprint, TimeIsUp, Proceeds, Commands
<1>8. QED
  BY <1>1, <1>2, <1>3, <1>4, <1>5, <1>6, <1>7 DEF SandboxInv

LEMMA PodDiesKeeps ==
  ASSUME SandboxInv, NEW r \in SandboxRuns, PodDies(r)
  PROVE  SandboxInv'
<1>1. SandboxTypeOK'
  BY SandboxAssumption DEF SandboxInv, SandboxTypeOK, PodDies, Proceeds, Plans, Commands, Outcomes
<1>2. Tried'
  BY DEF SandboxInv, SandboxTypeOK, Tried, Past, Planned, PodDies, Proceeds, Commands, Outcomes
<1>3. Honest'
  BY DEF SandboxInv, SandboxTypeOK, Honest, PodDies, Proceeds, Commands, Outcomes
<1>4. Unjudged'
  BY DEF SandboxInv, SandboxTypeOK, Unjudged, PodDies, Proceeds, Commands
<1>5. Footprint'
  BY SandboxAssumption DEF SandboxInv, SandboxTypeOK, Footprint, PodDies, Proceeds, Commands
<1>6. PassedMeansRan'
  BY DEF SandboxInv, SandboxTypeOK, PassedMeansRan, Unjudged, Tried, Past, Honest, Planned, PodDies, Proceeds, Commands, Outcomes
<1>7. NothingLeft'
  BY SandboxAssumption DEF SandboxInv, SandboxTypeOK, NothingLeft, Footprint, PodDies, Proceeds, Commands
<1>8. QED
  BY <1>1, <1>2, <1>3, <1>4, <1>5, <1>6, <1>7 DEF SandboxInv

LEMMA WorkerDiesKeeps ==
  ASSUME SandboxInv, WorkerDies
  PROVE  SandboxInv'
<1>1. SandboxTypeOK'
  BY SandboxAssumption DEF SandboxInv, SandboxTypeOK, WorkerDies, Proceeds, Plans, Commands, Outcomes
<1>2. Tried'
  BY DEF SandboxInv, SandboxTypeOK, Tried, Past, Planned, WorkerDies, Proceeds, Commands, Outcomes
<1>3. Honest'
  BY DEF SandboxInv, SandboxTypeOK, Honest, WorkerDies, Proceeds, Commands, Outcomes
<1>4. Unjudged'
  BY DEF SandboxInv, SandboxTypeOK, Unjudged, WorkerDies, Proceeds, Commands
<1>5. Footprint'
  BY SandboxAssumption DEF SandboxInv, SandboxTypeOK, Footprint, WorkerDies, Proceeds, Commands
<1>6. PassedMeansRan'
  BY DEF SandboxInv, SandboxTypeOK, PassedMeansRan, Unjudged, Tried, Past, Honest, Planned, WorkerDies, Proceeds, Commands, Outcomes
<1>7. NothingLeft'
  BY SandboxAssumption DEF SandboxInv, SandboxTypeOK, NothingLeft, Footprint, WorkerDies, Proceeds, Commands
<1>8. QED
  BY <1>1, <1>2, <1>3, <1>4, <1>5, <1>6, <1>7 DEF SandboxInv

\* Every verification, the cluster and the worker keep the invariant.
LEMMA SandboxSteps == SandboxInv /\ [SandboxNext]_sandboxVars => SandboxInv'
<1> SUFFICES ASSUME SandboxInv, [SandboxNext]_sandboxVars
             PROVE  SandboxInv'
  OBVIOUS
<1>1. CASE UNCHANGED sandboxVars
  BY <1>1
  DEF sandboxVars, SandboxInv, SandboxTypeOK, Tried, Honest, Unjudged, Footprint,
      PassedMeansRan, NothingLeft, Planned
<1>2. CASE WorkerDies
  BY <1>2, WorkerDiesKeeps
<1>3. ASSUME NEW r \in SandboxRuns, RunMoves(r)
      PROVE  SandboxInv'
  BY <1>3, NamespaceAppliedKeeps, PodReadyKeeps, CopiedKeeps, CreateFailsKeeps, SkipsKeeps,
     CommandRunsKeeps, PreviewAnswersKeeps, PreviewFailsKeeps, ReportIsWrittenKeeps,
     FailureIsWrittenKeeps, PreviewStopsKeeps, StagingRemovedKeeps, DestroysKeeps,
     TimeIsUpKeeps
  DEF RunMoves
<1>4. QED
  BY <1>1, <1>2, <1>3, RunBeginsKeeps, RunBlockedKeeps, PodDiesKeeps DEF SandboxNext

\* Each step a verification takes, and each death of a pod or of the worker,
\* keeps what its verdict and its cleaning rely on.
THEOREM SandboxInvariant == SandboxSpec => []SandboxInv
  BY SandboxBegins, SandboxSteps, PTL DEF SandboxSpec

\* Every verification is at a step of the code, with the statuses it records.
THEOREM SandboxTypeCorrect == SandboxSpec => []SandboxTypeOK
  BY SandboxInvariant, PTL DEF SandboxInv

\* runSandboxVerification reports PASSED only if every command of the plan
\* passed in the pod, and FAILED or TIMED_OUT only on a planned step, whenever
\* the pods and the worker die.
THEOREM VerdictsAreRun == SandboxSpec => []PassedMeansRan
  BY SandboxInvariant, PTL DEF SandboxInv

\* A verification that is over has no port-forward, and no namespace and no
\* staging directory unless a deletion failed or a worker died; a preview is
\* kept only beside its verdict.
THEOREM SandboxesCleaned == SandboxSpec => []NothingLeft
  BY SandboxInvariant, PTL DEF SandboxInv

-----------------------------------------------------------------------------
(* The page *)

\* A call is of a file, and until an answer crosses a save it holds the text of
\* that file: what was opened, what is being saved, or nothing after a deletion.
Faithful(c) ==
    /\ c.kind # "free" => c.file \in ViewFiles
    /\ c.kind = "open" /\ c.step = "served" => crossed \/ c.draft = c.file
    /\ c.kind = "save" /\ c.step # "loading" =>
        crossed \/ (c.file = selected /\ c.draft = selected)
    /\ c.kind = "delete" /\ c.step # "loading" => c.draft = NoFile

EditorCalls == \A k \in FileCalls : Faithful(call[k])

ViewInv == ViewTypeOK /\ EditorCalls /\ OwnText

LEMMA ViewBegins == ViewInit => ViewInv
<1>1. ViewInit => ViewTypeOK
  <2> SUFFICES ASSUME ViewInit PROVE ViewTypeOK
    OBVIOUS
  <2>1. /\ server \in [status : Statuses, report : ReportStates]
        /\ view \in [status : Statuses \union {Unread}, report : ReportStates]
        /\ poll \in [asked : BOOLEAN, report : ReportStates \union {Unread}]
    BY DEF ViewInit, PollingInit, Statuses, ReportStates
  <2>2. load \in [Loads -> [asked : BOOLEAN, status : Statuses \union {Unread},
                            report : ReportStates \union {Unread}]]
    BY DEF ViewInit, PollingInit, FreeLoad
  <2>3. /\ acting \in Buttons \union {"none", "accepted", "verifying"}
        /\ news \in 0 .. MaxNews
    BY ViewAssumption DEF ViewInit, PollingInit
  <2>4. /\ selected \in ViewFiles \union {NoFile}
        /\ draft \in ViewFiles \union {NoFile}
        /\ text \in [ViewFiles -> ViewFiles \union {NoFile}]
        /\ fileBusy \in BOOLEAN /\ crossed \in BOOLEAN
    BY DEF ViewInit, EditorInit
  <2>5. call \in [FileCalls -> [kind : {"free", "open", "save", "delete"},
                    step : {"asked", "served", "loading"}, file : ViewFiles \union {NoFile},
                    draft : ViewFiles \union {NoFile}, held : ViewFiles \union {NoFile}]]
    BY DEF ViewInit, EditorInit, FreeCall
  <2>6. QED
    BY <2>1, <2>2, <2>3, <2>4, <2>5 DEF ViewTypeOK
<1>2. ViewInit => EditorCalls /\ OwnText
  BY DEF ViewInit, EditorInit, EditorCalls, Faithful, OwnText, FreeCall
<1>3. QED
  BY <1>1, <1>2 DEF ViewInv

LEMMA SendingKeepsLoads ==
  ASSUME ViewTypeOK, NEW l \in Loads, LoadIsSent(l)
  PROVE  load' \in [Loads -> [asked : BOOLEAN, status : Statuses \union {Unread},
                              report : ReportStates \union {Unread}]]
<1> DEFINE Some == [asked : BOOLEAN, status : Statuses \union {Unread},
                    report : ReportStates \union {Unread}]
<1>1. load \in [Loads -> Some]
  BY DEF ViewTypeOK
<1>2. [load[l] EXCEPT !.asked = TRUE] \in Some
  BY <1>1
<1>3. load' = [load EXCEPT ![l] = [load[l] EXCEPT !.asked = TRUE]]
  BY DEF LoadIsSent
<1> HIDE DEF Some
<1>4. load' \in [Loads -> Some]
  BY <1>1, <1>2, <1>3
<1>5. QED
  BY <1>4 DEF Some

\* The timers, the loads and the buttons do not touch the editor.
LEMMA PollingKeeps ==
  ASSUME ViewInv, PollingNext, UNCHANGED editorVars
  PROVE  ViewInv'
<1>0. /\ EditorCalls' /\ OwnText'
  BY DEF ViewInv, editorVars, EditorCalls, Faithful, OwnText
<1>1. ViewTypeOK'
  <2> USE DEF ViewInv, ViewTypeOK, editorVars, Statuses, ReportStates
  <2>1. CASE Mounts
    BY <2>1, SendingKeepsLoads DEF Mounts
  <2>2. CASE LoadTimer
    BY <2>2, SendingKeepsLoads DEF LoadTimer
  <2>3. CASE PollTimer
    BY <2>3 DEF PollTimer
  <2>4. CASE PollReads
    BY <2>4 DEF PollReads
  <2>5. CASE PollArrives
    BY <2>5 DEF PollArrives
  <2>6. CASE PollFails
    BY <2>6 DEF PollFails
  <2>7. CASE ServerActs
    BY <2>7 DEF ServerActs, Buttons
  <2>8. CASE Answered
    BY <2>8, SendingKeepsLoads DEF Answered
  <2>9. CASE BuildEnds
    BY <2>9 DEF BuildEnds
  <2>10. CASE VerificationEnds
    BY <2>10 DEF VerificationEnds
  <2>11. CASE BeginsByItself
    BY <2>11, ViewAssumption DEF BeginsByItself
  <2>12. ASSUME NEW l \in Loads, RouteReads(l) PROVE ViewTypeOK'
    BY <2>12 DEF RouteReads
  <2>13. ASSUME NEW l \in Loads, LoadArrives(l) PROVE ViewTypeOK'
    BY <2>13 DEF LoadArrives, WasRead, Shown, FreeLoad
  <2>14. ASSUME NEW l \in Loads, LoadFails(l) PROVE ViewTypeOK'
    BY <2>14 DEF LoadFails, WasRead, FreeLoad
  <2>15. ASSUME NEW a \in Buttons, Presses(a) PROVE ViewTypeOK'
    BY <2>15 DEF Presses
  <2>16. QED
    BY <2>1, <2>2, <2>3, <2>4, <2>5, <2>6, <2>7, <2>8, <2>9, <2>10, <2>11, <2>12, <2>13, <2>14, <2>15 DEF PollingNext
<1>2. QED
  BY <1>0, <1>1 DEF ViewInv

LEMMA OpensKeeps ==
  ASSUME ViewInv, NEW k \in FileCalls, NEW f \in ViewFiles, Opens(k, f), UNCHANGED pollingVars
  PROVE  ViewInv'
<1>1. ViewTypeOK'
  <2>1. call' \in [FileCalls -> [kind : {"free", "open", "save", "delete"},
                    step : {"asked", "served", "loading"}, file : ViewFiles \union {NoFile},
                    draft : ViewFiles \union {NoFile}, held : ViewFiles \union {NoFile}]]
    BY DEF ViewInv, ViewTypeOK, Opens, Sent, FreeCall
  <2>2. /\ selected' \in ViewFiles \union {NoFile} /\ draft' \in ViewFiles \union {NoFile}
        /\ fileBusy' \in BOOLEAN /\ crossed' \in BOOLEAN /\ text' = text
    BY DEF ViewInv, ViewTypeOK, Opens, Sent, FreeCall
  <2>3. QED
    BY <2>1, <2>2 DEF ViewInv, ViewTypeOK, pollingVars
<1>2. EditorCalls'
  BY DEF ViewInv, ViewTypeOK, EditorCalls, Faithful, OwnText, Opens, Sent, FreeCall
<1>3. OwnText'
  BY DEF ViewInv, ViewTypeOK, OwnText, Opens, Sent
<1>4. QED
  BY <1>1, <1>2, <1>3 DEF ViewInv

LEMMA DeletesKeeps ==
  ASSUME ViewInv, NEW k \in FileCalls, NEW f \in ViewFiles, Deletes(k, f), UNCHANGED pollingVars
  PROVE  ViewInv'
<1>1. ViewTypeOK'
  <2>1. call' \in [FileCalls -> [kind : {"free", "open", "save", "delete"},
                    step : {"asked", "served", "loading"}, file : ViewFiles \union {NoFile},
                    draft : ViewFiles \union {NoFile}, held : ViewFiles \union {NoFile}]]
    BY DEF ViewInv, ViewTypeOK, Deletes, Sent, FreeCall
  <2>2. /\ selected' \in ViewFiles \union {NoFile} /\ draft' \in ViewFiles \union {NoFile}
        /\ fileBusy' \in BOOLEAN /\ crossed' \in BOOLEAN /\ text' = text
    BY DEF ViewInv, ViewTypeOK, Deletes, Sent, FreeCall
  <2>3. QED
    BY <2>1, <2>2 DEF ViewInv, ViewTypeOK, pollingVars
<1>2. EditorCalls'
  BY DEF ViewInv, ViewTypeOK, EditorCalls, Faithful, OwnText, Deletes, Sent, FreeCall
<1>3. OwnText'
  BY DEF ViewInv, ViewTypeOK, OwnText, Deletes, Sent
<1>4. QED
  BY <1>1, <1>2, <1>3 DEF ViewInv

LEMMA SavesKeeps ==
  ASSUME ViewInv, NEW k \in FileCalls, Saves(k), UNCHANGED pollingVars
  PROVE  ViewInv'
<1>1. ViewTypeOK'
  <2>1. call' \in [FileCalls -> [kind : {"free", "open", "save", "delete"},
                    step : {"asked", "served", "loading"}, file : ViewFiles \union {NoFile},
                    draft : ViewFiles \union {NoFile}, held : ViewFiles \union {NoFile}]]
    BY DEF ViewInv, ViewTypeOK, Saves, Sent, FreeCall, MaySave
  <2>2. /\ selected' \in ViewFiles \union {NoFile} /\ draft' \in ViewFiles \union {NoFile}
        /\ fileBusy' \in BOOLEAN /\ crossed' \in BOOLEAN /\ text' = text
    BY DEF ViewInv, ViewTypeOK, Saves, Sent, FreeCall, MaySave
  <2>3. QED
    BY <2>1, <2>2 DEF ViewInv, ViewTypeOK, pollingVars
<1>2. EditorCalls'
  BY DEF ViewInv, ViewTypeOK, EditorCalls, Faithful, OwnText, Saves, Sent, FreeCall, MaySave
<1>3. OwnText'
  BY DEF ViewInv, ViewTypeOK, OwnText, Saves, Sent
<1>4. QED
  BY <1>1, <1>2, <1>3 DEF ViewInv

LEMMA CallIsServedKeeps ==
  ASSUME ViewInv, NEW k \in FileCalls, CallIsServed(k), UNCHANGED pollingVars
  PROVE  ViewInv'
<1> DEFINE file == call[k].file
           served == [call[k] EXCEPT !.step = "served", !.draft = text'[file]]
<1>1. /\ call[k].kind # "free" /\ call[k].step = "asked" /\ text[file] # NoFile
      /\ file \in ViewFiles
  BY DEF ViewInv, EditorCalls, Faithful, CallIsServed
<1>2. text' = IF call[k].kind = "open" THEN text
              ELSE [text EXCEPT ![file] = call[k].draft]
  BY DEF CallIsServed
<1>3. /\ text' \in [ViewFiles -> ViewFiles \union {NoFile}]
      /\ text'[file] = IF call[k].kind = "open" THEN text[file] ELSE call[k].draft
      /\ \A f \in ViewFiles : f # file => text'[f] = text[f]
  BY <1>1, <1>2 DEF ViewInv, ViewTypeOK
<1>4. call' = [call EXCEPT ![k] = served]
  <2>1. call' = [call EXCEPT ![k].step = "served", ![k].draft = text'[file]]
    BY DEF CallIsServed
  <2>2. [call EXCEPT ![k].step = "served", ![k].draft = text'[file]]
          = [call EXCEPT ![k] = served]
    BY DEF ViewInv, ViewTypeOK
  <2>3. QED
    BY <2>1, <2>2
<1>5. /\ served \in [kind : {"free", "open", "save", "delete"},
                     step : {"asked", "served", "loading"}, file : ViewFiles \union {NoFile},
                     draft : ViewFiles \union {NoFile}, held : ViewFiles \union {NoFile}]
      /\ served.kind = call[k].kind /\ served.file = file /\ served.step = "served"
      /\ served.draft = text'[file]
  <2>1. text'[file] \in ViewFiles \union {NoFile}
    BY <1>1, <1>3
  <2>2. call[k] \in [kind : {"free", "open", "save", "delete"},
                     step : {"asked", "served", "loading"}, file : ViewFiles \union {NoFile},
                     draft : ViewFiles \union {NoFile}, held : ViewFiles \union {NoFile}]
    BY DEF ViewInv, ViewTypeOK
  <2>3. QED
    BY <2>1, <2>2
<1>6. UNCHANGED <<selected, draft, fileBusy, crossed>>
  BY DEF CallIsServed
<1> HIDE DEF served
<1>7. ViewTypeOK'
  BY <1>3, <1>4, <1>5, <1>6 DEF ViewInv, ViewTypeOK, pollingVars
<1>8. EditorCalls'
  <2> SUFFICES ASSUME NEW e \in FileCalls PROVE Faithful(call[e])'
    BY DEF EditorCalls
  <2>1. CASE e # k
    BY <2>1, <1>4, <1>6 DEF ViewInv, ViewTypeOK, EditorCalls, Faithful
  <2>2. CASE e = k
    <3>1. call'[e] = served
      BY <2>2, <1>4 DEF ViewInv, ViewTypeOK
    <3>2. QED
      BY <3>1, <1>1, <1>3, <1>5, <1>6 DEF ViewInv, EditorCalls, Faithful, OwnText
  <2>3. QED
    BY <2>1, <2>2
<1>9. OwnText'
  BY <1>1, <1>3, <1>6 DEF ViewInv, ViewTypeOK, EditorCalls, Faithful, OwnText
<1>10. QED
  BY <1>7, <1>8, <1>9 DEF ViewInv

LEMMA EditorFailsKeeps ==
  ASSUME ViewInv, NEW k \in FileCalls, EditorFails(k), UNCHANGED pollingVars
  PROVE  ViewInv'
<1>1. ViewTypeOK'
  <2>1. call' \in [FileCalls -> [kind : {"free", "open", "save", "delete"},
                    step : {"asked", "served", "loading"}, file : ViewFiles \union {NoFile},
                    draft : ViewFiles \union {NoFile}, held : ViewFiles \union {NoFile}]]
    BY DEF ViewInv, ViewTypeOK, EditorFails, FreeCall
  <2>2. /\ selected' \in ViewFiles \union {NoFile} /\ draft' \in ViewFiles \union {NoFile}
        /\ fileBusy' \in BOOLEAN /\ crossed' \in BOOLEAN /\ text' = text
    BY DEF ViewInv, ViewTypeOK, EditorFails, FreeCall
  <2>3. QED
    BY <2>1, <2>2 DEF ViewInv, ViewTypeOK, pollingVars
<1>2. EditorCalls'
  BY DEF ViewInv, ViewTypeOK, EditorCalls, Faithful, EditorFails, FreeCall
<1>3. OwnText'
  BY DEF ViewInv, ViewTypeOK, OwnText, EditorFails
<1>4. QED
  BY <1>1, <1>2, <1>3 DEF ViewInv

LEMMA OpenArrivesKeeps ==
  ASSUME ViewInv, NEW k \in FileCalls, OpenArrives(k), UNCHANGED pollingVars
  PROVE  ViewInv'
<1>1. ViewTypeOK'
  <2>1. call' \in [FileCalls -> [kind : {"free", "open", "save", "delete"},
                    step : {"asked", "served", "loading"}, file : ViewFiles \union {NoFile},
                    draft : ViewFiles \union {NoFile}, held : ViewFiles \union {NoFile}]]
    BY DEF ViewInv, ViewTypeOK, OpenArrives, FreeCall, Drafted
  <2>2. /\ selected' \in ViewFiles \union {NoFile} /\ draft' \in ViewFiles \union {NoFile}
        /\ fileBusy' \in BOOLEAN /\ crossed' \in BOOLEAN /\ text' = text
    BY DEF ViewInv, ViewTypeOK, EditorCalls, Faithful, OpenArrives, FreeCall, Drafted
  <2>3. QED
    BY <2>1, <2>2 DEF ViewInv, ViewTypeOK, pollingVars
<1>2. EditorCalls'
  BY DEF ViewInv, ViewTypeOK, EditorCalls, Faithful, OpenArrives, FreeCall, Drafted, SaveUnderWay
<1>3. OwnText'
  BY DEF ViewInv, ViewTypeOK, OwnText, EditorCalls, Faithful, OpenArrives, Drafted
<1>4. QED
  BY <1>1, <1>2, <1>3 DEF ViewInv

LEMMA SaveArrivesKeeps ==
  ASSUME ViewInv, NEW k \in FileCalls, SaveArrives(k), UNCHANGED pollingVars
  PROVE  ViewInv'
<1>1. ViewTypeOK'
  <2>1. call' \in [FileCalls -> [kind : {"free", "open", "save", "delete"},
                    step : {"asked", "served", "loading"}, file : ViewFiles \union {NoFile},
                    draft : ViewFiles \union {NoFile}, held : ViewFiles \union {NoFile}]]
    BY SMTT(30) DEF ViewInv, ViewTypeOK, SaveArrives
  <2>2. /\ selected' \in ViewFiles \union {NoFile} /\ draft' \in ViewFiles \union {NoFile}
        /\ fileBusy' \in BOOLEAN /\ crossed' \in BOOLEAN /\ text' = text
    BY DEF ViewInv, ViewTypeOK, EditorCalls, Faithful, SaveArrives
  <2>3. QED
    BY <2>1, <2>2 DEF ViewInv, ViewTypeOK, pollingVars
<1>2. EditorCalls'
  BY DEF ViewInv, ViewTypeOK, EditorCalls, Faithful, SaveArrives
<1>3. OwnText'
  BY DEF ViewInv, ViewTypeOK, OwnText, EditorCalls, Faithful, SaveArrives
<1>4. QED
  BY <1>1, <1>2, <1>3 DEF ViewInv

LEMMA DeleteArrivesKeeps ==
  ASSUME ViewInv, NEW k \in FileCalls, DeleteArrives(k), UNCHANGED pollingVars
  PROVE  ViewInv'
<1>1. ViewTypeOK'
  <2>1. call' \in [FileCalls -> [kind : {"free", "open", "save", "delete"},
                    step : {"asked", "served", "loading"}, file : ViewFiles \union {NoFile},
                    draft : ViewFiles \union {NoFile}, held : ViewFiles \union {NoFile}]]
    BY DEF ViewInv, ViewTypeOK, DeleteArrives
  <2>2. /\ selected' \in ViewFiles \union {NoFile} /\ draft' \in ViewFiles \union {NoFile}
        /\ fileBusy' \in BOOLEAN /\ crossed' \in BOOLEAN /\ text' = text
    BY DEF ViewInv, ViewTypeOK, DeleteArrives
  <2>3. QED
    BY <2>1, <2>2 DEF ViewInv, ViewTypeOK, pollingVars
<1>2. EditorCalls'
  <2> SUFFICES ASSUME NEW e \in FileCalls PROVE Faithful(call[e])'
    BY DEF EditorCalls
  <2>1. Faithful(call[e]) /\ Faithful(call[k])
    BY DEF ViewInv, EditorCalls
  <2>2. /\ call'[e].kind = call[e].kind /\ call'[e].file = call[e].file
        /\ call'[e].draft = call[e].draft
        /\ call'[e].step = IF e = k THEN "loading" ELSE call[e].step
    BY DEF DeleteArrives, ViewInv, ViewTypeOK
  <2>3. crossed => crossed'
    BY DEF DeleteArrives
  <2>4. CASE call[k].held = call[k].file
    <3>1. SaveUnderWay => crossed'
      BY <2>4 DEF DeleteArrives
    <3>2. call'[e].kind = "save" /\ call'[e].step # "loading" => SaveUnderWay
      BY <2>2 DEF SaveUnderWay, DeleteArrives
    <3>3. QED
      BY <2>1, <2>2, <2>3, <3>1, <3>2 DEF Faithful
  <2>5. CASE call[k].held # call[k].file
    <3>1. selected' = selected
      BY <2>5 DEF DeleteArrives
    <3>2. QED
      BY <2>1, <2>2, <2>3, <3>1 DEF Faithful
  <2>6. QED
    BY <2>4, <2>5
<1>3. OwnText'
  BY DEF ViewInv, ViewTypeOK, OwnText, DeleteArrives
<1>4. QED
  BY <1>1, <1>2, <1>3 DEF ViewInv

LEMMA CallEndsKeeps ==
  ASSUME ViewInv, NEW k \in FileCalls, CallEnds(k), UNCHANGED pollingVars
  PROVE  ViewInv'
<1>1. ViewTypeOK'
  <2>1. call' \in [FileCalls -> [kind : {"free", "open", "save", "delete"},
                    step : {"asked", "served", "loading"}, file : ViewFiles \union {NoFile},
                    draft : ViewFiles \union {NoFile}, held : ViewFiles \union {NoFile}]]
    BY DEF ViewInv, ViewTypeOK, CallEnds, FreeCall
  <2>2. /\ selected' \in ViewFiles \union {NoFile} /\ draft' \in ViewFiles \union {NoFile}
        /\ fileBusy' \in BOOLEAN /\ crossed' \in BOOLEAN /\ text' = text
    BY DEF ViewInv, ViewTypeOK, CallEnds, FreeCall
  <2>3. QED
    BY <2>1, <2>2 DEF ViewInv, ViewTypeOK, pollingVars
<1>2. EditorCalls'
  BY DEF ViewInv, ViewTypeOK, EditorCalls, Faithful, CallEnds, FreeCall
<1>3. OwnText'
  BY DEF ViewInv, ViewTypeOK, OwnText, CallEnds
<1>4. QED
  BY <1>1, <1>2, <1>3 DEF ViewInv

\* Answers arrive in any order, and keep the invariant.
LEMMA ViewSteps == ViewInv /\ [ViewNext]_viewVars => ViewInv'
<1> SUFFICES ASSUME ViewInv, [ViewNext]_viewVars
             PROVE  ViewInv'
  OBVIOUS
<1>1. CASE UNCHANGED viewVars
  BY <1>1
  DEF viewVars, pollingVars, editorVars, ViewInv, ViewTypeOK, EditorCalls, Faithful, OwnText
<1>2. CASE PollingNext /\ UNCHANGED editorVars
  BY <1>2, PollingKeeps
<1>3. CASE EditorNext /\ UNCHANGED pollingVars
  BY <1>3, OpensKeeps, DeletesKeeps, SavesKeeps, CallIsServedKeeps, EditorFailsKeeps,
     OpenArrivesKeeps, SaveArrivesKeeps, DeleteArrivesKeeps, CallEndsKeeps
  DEF EditorNext
<1>4. QED
  BY <1>1, <1>2, <1>3 DEF ViewNext

\* Each load, poll, press and editor call keeps every call of the editor with
\* the text of its own file.
THEOREM ViewInvariant == ViewSpec => []ViewInv
  BY ViewBegins, ViewSteps, PTL DEF ViewSpec

\* The page, its loads and its calls hold what the code puts there.
THEOREM ViewTypeCorrect == ViewSpec => []ViewTypeOK
  BY ViewInvariant, PTL DEF ViewInv

\* The editor saves into a file the text opened from it, however opens, saves
\* and deletions overlap, unless an answer moved the editor under a save.
THEOREM EditorSavesOwnText == ViewSpec => []OwnText
  BY ViewInvariant, PTL DEF ViewInv

-----------------------------------------------------------------------------
(* The routes of a request *)

\* Firsts is where the takings of its elements, one after the other, end.
LEMMA FirstsTakes ==
  ASSUME NEW S, NEW ids \in Seq(S), NEW fit
  PROVE  \E f :
            /\ Firsts(ids, fit) = f[Len(ids)]
            /\ f[0] = <<>>
            /\ \A n \in 1 .. Len(ids) : f[n] = Taking(fit, f[n - 1], ids[n])
<1> DEFINE len == Len(ids)
           step == [n \in 1 .. len |-> [t \in Seq(S) |-> Taking(fit, t, ids[n])]]
           Rule(f) == [n \in 0 .. Len(ids) |->
                        IF n = 0 THEN <<>> ELSE Taking(fit, f[n - 1], ids[n])]
<1>1. len \in Nat /\ \A n \in 1 .. len : ids[n] \in S
  OBVIOUS
<1>2. step \in [1 .. len -> [Seq(S) -> Seq(S)]]
  BY <1>1 DEF Taking
<1>3. PICK f \in [0 .. len -> Seq(S)] :
        f[0] = <<>> /\ \A n \in 1 .. len : f[n] = step[n][f[n - 1]]
  <2> DEFINE A == Seq(S)
             base == <<>>
  <2>1. base \in A /\ step \in [1 .. len -> [A -> A]]
    BY <1>2
  <2>2. len \in Nat
    BY <1>1
  <2> HIDE DEF step, len, A, base
  <2>3. \E f \in [0 .. len -> A] :
            f[0] = base /\ \A n \in 1 .. len : f[n] = step[n][f[n - 1]]
    BY <2>1, <2>2, Folding
  <2>4. QED
    BY <2>3 DEF A, base
<1>4. f[0] = <<>> /\ \A n \in 1 .. Len(ids) : f[n] = Taking(fit, f[n - 1], ids[n])
  <2> SUFFICES ASSUME NEW n \in 1 .. len PROVE f[n] = Taking(fit, f[n - 1], ids[n])
    BY <1>3
  <2>1. f[n - 1] \in Seq(S)
    BY <1>1, <1>3
  <2>2. QED
    BY <1>3, <2>1
<1>5. f = Rule(f)
  <2>1. DOMAIN f = DOMAIN Rule(f)
    OBVIOUS
  <2>2. ASSUME NEW n \in 0 .. Len(ids)
        PROVE  f[n] = Rule(f)[n]
    <3>1. CASE n = 0
      BY <3>1, <1>4
    <3>2. CASE n # 0
      <4>1. n \in 1 .. Len(ids)
        BY <3>2
      <4>2. f[n] = Taking(fit, f[n - 1], ids[n])
        BY <4>1, <1>4
      <4>3. QED
        BY <3>2, <4>2
    <3>3. QED
      BY <3>1, <3>2
  <2>3. QED
    BY <2>1, <2>2
<1> DEFINE taken == CHOOSE t : t = Rule(t)
<1>6. taken = Rule(taken)
  <2> HIDE DEF Rule
  <2>1. QED
    BY <1>5
<1>7. Firsts(ids, fit) = taken[Len(ids)]
  BY DEF Firsts
<1> HIDE DEF taken
<1>8. taken[0] = <<>>
  BY <1>6
<1>9. ASSUME NEW n \in 1 .. Len(ids)
      PROVE  taken[n] = Taking(fit, taken[n - 1], ids[n])
  <2>1. n \in 0 .. Len(ids) /\ n # 0
    OBVIOUS
  <2>2. taken[n] = Rule(taken)[n]
    BY <1>6
  <2>3. QED
    BY <2>1, <2>2
<1>10. QED
  BY <1>7, <1>8, <1>9

\* What is taken comes from the sequence, fits, and is taken once.
LEMMA FirstsAreDistinct ==
  ASSUME NEW S, NEW ids \in Seq(S), NEW fit
  PROVE  /\ Firsts(ids, fit) \in Seq(S \cap fit)
         /\ \A i, j \in DOMAIN Firsts(ids, fit) :
                Firsts(ids, fit)[i] = Firsts(ids, fit)[j] => i = j
<1>1. PICK f : /\ Firsts(ids, fit) = f[Len(ids)]
               /\ f[0] = <<>>
               /\ \A n \in 1 .. Len(ids) : f[n] = Taking(fit, f[n - 1], ids[n])
  BY FirstsTakes
<1> DEFINE Sound(s) == s \in Seq(S \cap fit) /\ \A i, j \in DOMAIN s : s[i] = s[j] => i = j
           good == {n \in Nat : n <= Len(ids) => Sound(f[n])}
<1>2. 0 \in good
  <2>1. Sound(<<>>)
    OBVIOUS
  <2>2. QED
    BY <1>1, <2>1
<1>3. ASSUME NEW n \in Nat, n \in good
      PROVE  n + 1 \in good
  <2> SUFFICES ASSUME n + 1 <= Len(ids)
               PROVE  Sound(f[n + 1])
    <3> HIDE DEF Sound
    <3> QED
      OBVIOUS
  <2>1. Sound(f[n]) /\ n + 1 \in 1 .. Len(ids)
    BY <1>3
  <2>2. f[n + 1] = Taking(fit, f[n], ids[n + 1])
    BY <1>1, <2>1
  <2>3. CASE ids[n + 1] \in fit \ ToSet(f[n])
    <3>1. f[n + 1] = Append(f[n], ids[n + 1])
      BY <2>2, <2>3 DEF Taking
    <3>2. ids[n + 1] \in S \cap fit /\ \A i \in DOMAIN f[n] : f[n][i] # ids[n + 1]
      BY <2>1, <2>3 DEF ToSet
    <3>3. QED
      BY <2>1, <3>1, <3>2
  <2>4. CASE ids[n + 1] \notin fit \ ToSet(f[n])
    BY <2>1, <2>2, <2>4 DEF Taking
  <2>5. QED
    BY <2>3, <2>4
<1>4. Len(ids) \in good
  <2> HIDE DEF good
  <2>1. good \subseteq Nat
    BY DEF good
  <2>2. good = Nat
    BY <1>2, <1>3, <2>1, FromZero
  <2>3. QED
    BY <2>2
<1>5. QED
  BY <1>1, <1>4

-----------------------------------------------------------------------------
(* A request and its walk *)

WalkRecords ==
    [step : {"calling", "delaying", "unavailable"}, need : Needs, route : Seq(Models),
     rest : Seq(Models), attempt : 0 .. MaxAttempts, calls : [Models -> 0 .. MaxAttempts],
     barred : SUBSET Providers]

\* Where in its route a request is.
At(r) == Len(r.route) - Len(r.rest) + 1

\* The route has each model once and none that is barred; what is left of it is
\* its end, and the calls are those of the models so far.
Walked(r) ==
    /\ r \in WalkRecords
    /\ \A i, j \in DOMAIN r.route : r.route[i] = r.route[j] => i = j
    /\ \A i \in DOMAIN r.route : r.route[i][1] \in Providers \ r.barred
    /\ At(r) \in DOMAIN r.route
    /\ \A i \in DOMAIN r.rest : r.rest[i] = r.route[At(r) + i - 1]
    /\ \A i \in DOMAIN r.route :
        /\ i < At(r) => r.calls[r.route[i]] > 0
        /\ i > At(r) => r.calls[r.route[i]] = 0
    /\ r.calls[r.route[At(r)]] = r.attempt
    /\ \A m \in Models : r.calls[m] > 0 => \E i \in DOMAIN r.route : m = r.route[i]
    /\ r.need.fallback \/ At(r) = 1

\* A request has called the model it is at; it waits only if it may retry, and is
\* unavailable only at the end of its way.
Walking(r) ==
    /\ Walked(r)
    /\ r.attempt > 0
    /\ r.step = "delaying" => r.attempt < MaxAttempts
    /\ r.step = "unavailable" => ~r.need.fallback \/ Len(r.rest) = 1

LEMMA RouteIsFit ==
  ASSUME NEW need, setting \in RouterSettings
  PROVE  /\ Route(need) \in Seq(Models)
         /\ \A i, j \in DOMAIN Route(need) : Route(need)[i] = Route(need)[j] => i = j
         /\ \A i \in DOMAIN Route(need) : Eligible(Route(need)[i], need)
<1> DEFINE firm == <<setting.default, 1>>
           named == ToSet(setting.fallbacks) \union {setting.preferred, firm}
                        \union ToSet(Catalog)
           head == IF setting.preferred = NoModel THEN <<>> ELSE <<setting.preferred>>
           listed == head \o setting.fallbacks \o <<firm>> \o Catalog
           fit == {m \in ToSet(Candidates) : Eligible(m, need)}
<1>1. listed \in Seq(named)
  <2>1. head \in Seq(named) /\ <<firm>> \in Seq(named)
    OBVIOUS
  <2>2. setting.fallbacks \in Seq(named)
    BY RouterAssumption DEF ToSet
  <2>3. Catalog \in Seq(named)
    BY DEF ToSet, Catalog
  <2> HIDE DEF head, firm, named
  <2>4. QED
    BY <2>1, <2>2, <2>3
<1>2. Candidates = Dedupe(listed)
  BY DEF Candidates
<1> HIDE DEF listed
<1>3. Candidates \in Seq(named)
  <2>1. Candidates \in Seq(named \cap ToSet(listed))
    BY <1>1, <1>2, FirstsAreDistinct DEF Dedupe
  <2> HIDE DEF named
  <2>2. QED
    BY <2>1
<1>4. /\ Route(need) \in Seq(named \cap fit)
      /\ \A i, j \in DOMAIN Route(need) : Route(need)[i] = Route(need)[j] => i = j
  <2> HIDE DEF named
  <2>1. QED
    BY <1>3, FirstsAreDistinct DEF Route
<1>5. \A m \in named : m[1] \in Providers => m \in Models
  <2>1. firm[1] \in Providers => firm \in ToSet(Catalog)
    BY DEF Providers, Catalog, ToSet
  <2>2. QED
    BY <2>1 DEF Models
<1>6. \A m \in named \cap fit : m \in Models /\ Eligible(m, need)
  BY <1>5 DEF Eligible
<1> HIDE DEF named, fit
<1>7. QED
  BY <1>4, <1>6

\* The next call is counted for the model the request is at.
LEMMA CallIsCounted ==
  ASSUME NEW r, Walked(r), r.attempt < MaxAttempts
  PROVE  Walking(Calls(r)) /\ Calls(r).step = "calling"
<1> DEFINE m == r.route[At(r)]
           c == Calls(r)
<1>1. /\ r.rest # <<>> /\ Head(r.rest) = m /\ m \in Models
      /\ At(r) \in Nat /\ At(r) \in DOMAIN r.route
  BY DEF Walked, WalkRecords, At
<1>2. /\ c.step = "calling" /\ c.need = r.need /\ c.route = r.route /\ c.rest = r.rest
      /\ c.barred = r.barred /\ c.attempt = r.attempt + 1
      /\ c.calls = [r.calls EXCEPT ![m] = r.attempt + 1]
  BY <1>1 DEF Calls, Walked, WalkRecords
<1>3. c \in WalkRecords
  <2>0. c = [step |-> "calling", need |-> r.need, route |-> r.route, rest |-> r.rest,
             attempt |-> r.attempt + 1, calls |-> [r.calls EXCEPT ![m] = r.attempt + 1],
             barred |-> r.barred]
    <3>1. r \in WalkRecords
      BY DEF Walked
    <3>2. r.calls[Head(r.rest)] = r.attempt
      BY <1>1 DEF Walked
    <3>3. c = [r EXCEPT !.step = "calling", !.attempt = r.attempt + 1,
                        !.calls[m] = r.attempt + 1]
      BY <1>1, <3>2 DEF Calls
    <3>4. QED
      BY <3>1, <3>3 DEF WalkRecords
  <2>1. c.calls \in [Models -> 0 .. MaxAttempts] /\ c.attempt \in 0 .. MaxAttempts
    BY <1>1, <1>2, RouterAssumption, SMTT(30) DEF Walked, WalkRecords
  <2> HIDE DEF c, m
  <2>2. QED
    BY <1>2, <2>0, <2>1 DEF Walked, WalkRecords
<1>4. /\ At(c) = At(r)
      /\ c.calls[m] = r.attempt + 1
      /\ \A o \in Models : o # m => c.calls[o] = r.calls[o]
  BY <1>1, <1>2 DEF At, Walked, WalkRecords
<1> HIDE DEF c
<1>5. \A i \in DOMAIN r.route : i # At(r) => r.route[i] # m /\ r.route[i] \in Models
  BY <1>1 DEF Walked, WalkRecords
<1>6. \A i \in DOMAIN c.route :
        /\ i < At(c) => c.calls[c.route[i]] > 0
        /\ i > At(c) => c.calls[c.route[i]] = 0
  BY <1>1, <1>2, <1>4, <1>5 DEF Walked
<1>7. \A o \in Models : c.calls[o] > 0 => \E i \in DOMAIN c.route : o = c.route[i]
  BY <1>1, <1>2, <1>4 DEF Walked
<1>8. Walked(c)
  BY <1>1, <1>2, <1>3, <1>4, <1>6, <1>7 DEF Walked
<1>9. c.attempt > 0
  BY <1>2 DEF Walked, WalkRecords
<1>10. QED
  BY <1>2, <1>8, <1>9 DEF Walking, c

\* A request that is routed has called the first model of its route.
LEMMA RoutedWalks ==
  ASSUME NEW need \in Needs, setting \in RouterSettings, Route(need) # <<>>
  PROVE  Walking(Routed(need, Route(need)))
<1> DEFINE route == Route(need)
           barred == {p \in Providers : ~Available(p) \/ (setting.localOnly /\ ~IsLocal(p))}
           r == [step |-> "calling", need |-> need, route |-> route, rest |-> route,
                 attempt |-> 0, calls |-> [m \in Models |-> 0], barred |-> barred]
<1>1. /\ route \in Seq(Models)
      /\ \A i, j \in DOMAIN route : route[i] = route[j] => i = j
      /\ \A i \in DOMAIN route : Eligible(route[i], need)
  BY RouteIsFit
<1>2. \A i \in DOMAIN route : route[i] \in Models /\ route[i][1] \in Providers \ barred
  BY <1>1 DEF Eligible
<1> HIDE DEF route, barred
<1>3. Len(route) \in Nat \ {0} /\ DOMAIN route = 1 .. Len(route)
  BY <1>1 DEF route
<1>4. r \in WalkRecords /\ At(r) = 1
  BY <1>1, <1>3, RouterAssumption DEF WalkRecords, At, barred
<1>5. Walked(r)
  BY <1>1, <1>2, <1>3, <1>4 DEF Walked
<1>6. r.attempt < MaxAttempts
  BY RouterAssumption
<1>7. Routed(need, route) = Calls(r)
  BY DEF Routed, barred
<1> HIDE DEF r
<1>8. QED
  BY <1>5, <1>6, <1>7, CallIsCounted DEF route

\* The model a request is at is given up: the next is called, or the walk is over.
LEMMA GivingUpWalks ==
  ASSUME NEW r, Walking(r)
  PROVE  Walking(GivesUp(r))
<1>1. CASE r.need.fallback /\ Len(r.rest) > 1
  <2> DEFINE t == [r EXCEPT !.rest = Tail(r.rest), !.attempt = 0]
  <2>1. /\ t.step = r.step /\ t.need = r.need /\ t.route = r.route /\ t.calls = r.calls
        /\ t.barred = r.barred /\ t.attempt = 0 /\ t.rest = Tail(r.rest)
    BY DEF Walking, Walked, WalkRecords
  <2>2. /\ Tail(r.rest) \in Seq(Models) /\ Len(Tail(r.rest)) = Len(r.rest) - 1
        /\ \A i \in DOMAIN Tail(r.rest) : Tail(r.rest)[i] = r.rest[i + 1] /\ i + 1 \in DOMAIN r.rest
    BY <1>1 DEF Walking, Walked, WalkRecords
  <2>3. t \in WalkRecords
    <3>1. r \in WalkRecords
      BY DEF Walking, Walked
    <3>2. 0 \in 0 .. MaxAttempts
      BY RouterAssumption
    <3>3. QED
      BY <2>2, <3>1, <3>2 DEF WalkRecords
  <2> HIDE DEF t
  <2>4. /\ At(t) = At(r) + 1 /\ At(r) \in Nat /\ At(t) \in DOMAIN t.route
        /\ Len(r.route) \in Nat /\ DOMAIN r.route = 1 .. Len(r.route)
    BY <1>1, <2>1, <2>2 DEF At, Walking, Walked, WalkRecords
  <2>5. \A i \in DOMAIN t.rest : t.rest[i] = t.route[At(t) + i - 1]
    <3> SUFFICES ASSUME NEW i \in DOMAIN t.rest
                 PROVE  t.rest[i] = t.route[At(t) + i - 1]
      OBVIOUS
    <3>1. t.rest[i] = r.route[At(r) + (i + 1) - 1]
      BY <2>1, <2>2 DEF Walking, Walked
    <3>2. i \in Nat
      BY <2>1, <2>2
    <3>3. At(r) + (i + 1) - 1 = At(t) + i - 1
      BY <2>4, <3>2
    <3>4. QED
      BY <2>1, <3>1, <3>3
  <2>6. \A i \in DOMAIN t.route :
          /\ i < At(t) => t.calls[t.route[i]] > 0
          /\ i > At(t) => t.calls[t.route[i]] = 0
    BY <2>1, <2>4 DEF Walking, Walked
  <2>7. t.calls[t.route[At(t)]] = 0
    BY <2>1, <2>4 DEF Walking, Walked
  <2>8. Walked(t)
    BY <1>1, <2>1, <2>3, <2>4, <2>5, <2>6, <2>7 DEF Walking, Walked
  <2>9. GivesUp(r) = Calls(t)
    BY <1>1 DEF GivesUp, t
  <2>10. QED
    BY <2>1, <2>8, <2>9, CallIsCounted, RouterAssumption
<1>2. CASE ~(r.need.fallback /\ Len(r.rest) > 1)
  <2> DEFINE u == [r EXCEPT !.step = "unavailable"]
  <2>1. /\ u \in WalkRecords /\ u.step = "unavailable" /\ u.need = r.need /\ u.route = r.route
        /\ u.rest = r.rest /\ u.calls = r.calls /\ u.barred = r.barred
        /\ u.attempt = r.attempt /\ At(u) = At(r)
    BY DEF Walking, Walked, WalkRecords, At
  <2> HIDE DEF u
  <2>2. Len(r.rest) \in Nat \ {0}
    BY DEF Walking, Walked, WalkRecords, At
  <2>3. Walked(u)
    BY <2>1 DEF Walking, Walked
  <2>4. ~u.need.fallback \/ Len(u.rest) = 1
    <3>1. CASE ~r.need.fallback
      BY <3>1, <2>1
    <3>2. CASE ~(Len(r.rest) > 1)
      <4>0. \A n \in Nat \ {0} : ~(n > 1) => n = 1
        OBVIOUS
      <4>1. Len(r.rest) = 1
        BY <3>2, <2>2, <4>0
      <4>2. QED
        BY <4>1, <2>1
    <3>3. QED
      BY <1>2, <3>1, <3>2
  <2>5. GivesUp(r) = u
    BY <1>2 DEF GivesUp, u
  <2>6. QED
    BY <2>1, <2>3, <2>4, <2>5 DEF Walking
<1>3. QED
  BY <1>1, <1>2

\* Every request is new, or on its way.
Asked ==
    /\ request \in [Requests -> WalkRecords \union {NewRouted}]
    /\ \A q \in Requests : request[q] = NewRouted \/ Walking(request[q])

Known ==
    /\ setting \in RouterSettings
    /\ health \in [Providers -> [failures : 0 .. FailureThreshold, left : 0 .. Cooldown]]
    /\ vector \in [Providers -> Providers \union {NoProvider}]

RouterInv == Known /\ Asked

LEMMA RouterBegins == RouterInit => RouterInv
  BY RouterAssumption DEF RouterInit, RouterInv, Known, Asked

LEMMA RequestChanges ==
  ASSUME Asked, NEW q \in Requests, NEW new, new = NewRouted \/ Walking(new),
         request' = [request EXCEPT ![q] = new]
  PROVE  Asked'
<1>1. new \in WalkRecords \union {NewRouted}
  BY DEF Walking, Walked
<1>2. request' \in [Requests -> WalkRecords \union {NewRouted}]
  BY <1>1 DEF Asked
<1>3. ASSUME NEW o \in Requests
      PROVE  request'[o] = NewRouted \/ Walking(request'[o])
  BY DEF Asked
<1>4. QED
  BY <1>2, <1>3 DEF Asked

\* A request under way is at a model of a provider the process knows.
LEMMA AtProvider ==
  ASSUME Asked, NEW q \in Requests, request[q].step = "calling"
  PROVE  Walking(request[q]) /\ Head(request[q].rest)[1] \in Providers
<1>1. Walking(request[q])
  BY DEF Asked, NewRouted
<1>2. /\ request[q].rest \in Seq(Models) /\ request[q].route \in Seq(Models)
      /\ At(request[q]) \in DOMAIN request[q].route
  BY <1>1 DEF Walking, Walked, WalkRecords
<1>3. /\ request[q].rest # <<>> /\ 1 \in DOMAIN request[q].rest
      /\ Head(request[q].rest) = request[q].rest[1]
  <2> DEFINE rest == request[q].rest
             route == request[q].route
  <2>1. Len(route) - Len(rest) + 1 \in DOMAIN route
    <3>1. At(request[q]) = Len(route) - Len(rest) + 1
      BY DEF At
    <3>2. QED
      BY <1>2, <3>1
  <2>2. rest \in Seq(Models) /\ route \in Seq(Models)
    BY <1>2
  <2> HIDE DEF rest, route
  <2>3. Len(rest) > 0
    BY <2>1, <2>2
  <2>4. rest # <<>> /\ 1 \in DOMAIN rest /\ Head(rest) = rest[1]
    BY <2>2, <2>3
  <2>5. QED
    BY <2>4 DEF rest
<1>4. request[q].rest[1] = request[q].route[At(request[q]) + 1 - 1]
  BY <1>1, <1>3 DEF Walking, Walked
<1>5. At(request[q]) + 1 - 1 = At(request[q])
  BY <1>2
<1>6. QED
  BY <1>1, <1>2, <1>3, <1>4, <1>5 DEF Walking, Walked

LEMMA RouterSteps == RouterInv /\ [RouterNext]_routerVars => RouterInv'
<1> SUFFICES ASSUME RouterInv, [RouterNext]_routerVars
             PROVE  RouterInv'
  OBVIOUS
<1> USE DEF RouterInv
<1>1. CASE UNCHANGED routerVars
  BY <1>1 DEF routerVars, Known, Asked
<1>2. CASE CooldownPasses
  <2>1. health' \in [Providers -> [failures : 0 .. FailureThreshold, left : 0 .. Cooldown]]
    <3>1. \A h \in [failures : 0 .. FailureThreshold, left : 0 .. Cooldown] :
            [h EXCEPT !.left = IF @ > 0 THEN @ - 1 ELSE 0]
                \in [failures : 0 .. FailureThreshold, left : 0 .. Cooldown]
      BY RouterAssumption
    <3>2. QED
      BY <1>2, <3>1 DEF CooldownPasses, Known
  <2>2. QED
    BY <1>2, <2>1 DEF CooldownPasses, Known, Asked
<1>3. CASE RouterRestarts
  BY <1>3, RouterAssumption DEF RouterRestarts, Known, Asked
<1>4. ASSUME NEW q \in Requests, NEW need \in Needs, Begins(q, need)
      PROVE  RouterInv'
  <2>1. Route(need) # <<>> /\ request' = [request EXCEPT ![q] = Routed(need, Route(need))]
        /\ UNCHANGED <<setting, health, vector>>
    BY <1>4 DEF Begins
  <2>2. Walking(Routed(need, Route(need)))
    BY <2>1, RoutedWalks DEF Known
  <2>3. QED
    BY <2>1, <2>2, RequestChanges DEF Known
<1>5. ASSUME NEW q \in Requests, NEW fallback \in BOOLEAN, NEW prompt \in PromptSizes,
             ChatBegins(q, fallback, prompt)
      PROVE  RouterInv'
  <2>1. [embed |-> FALSE, fallback |-> fallback, prompt |-> prompt] \in Needs
    BY DEF Needs
  <2>2. QED
    BY <1>4, <1>5, <2>1 DEF ChatBegins
<1>6. ASSUME NEW q \in Requests, EmbedBegins(q)
      PROVE  RouterInv'
  <2>1. [embed |-> TRUE, fallback |-> TRUE, prompt |-> 0] \in Needs
    BY DEF Needs
  <2>2. QED
    BY <1>4, <1>6, <2>1 DEF EmbedBegins
<1>7. ASSUME NEW q \in Requests, Answers(q)
      PROVE  RouterInv'
  <2>1. Head(request[q].rest)[1] \in Providers
    BY <1>7, AtProvider DEF Answers
  <2>2. Asked'
    BY <1>7, RequestChanges DEF Answers
  <2>3. vector' \in [Providers -> Providers \union {NoProvider}]
    BY <1>7, <2>1 DEF Answers, Known
  <2>4. health' \in [Providers -> [failures : 0 .. FailureThreshold, left : 0 .. Cooldown]]
    BY <1>7, <2>1, RouterAssumption DEF Answers, Known, RecordSuccess
  <2>5. QED
    BY <1>7, <2>2, <2>3, <2>4 DEF Answers, Known
<1>8. ASSUME NEW q \in Requests, NEW error \in CallErrors, Fails(q, error)
      PROVE  RouterInv'
  <2> DEFINE new == IF error \in Retryable /\ RetriesLeft(request[q])
                    THEN [request[q] EXCEPT !.step = "delaying"] ELSE GivesUp(request[q])
  <2>1. Walking(request[q]) /\ Head(request[q].rest)[1] \in Providers
    BY <1>8, AtProvider DEF Fails
  <2>2. ASSUME RetriesLeft(request[q])
        PROVE  Walking([request[q] EXCEPT !.step = "delaying"])
    <3> DEFINE r == request[q]
               d == [r EXCEPT !.step = "delaying"]
    <3>1. r \in WalkRecords /\ Walking(r) /\ r.attempt < MaxAttempts
      BY <2>1, <2>2 DEF Walking, Walked, RetriesLeft
    <3> HIDE DEF r
    <3>2. /\ d \in WalkRecords /\ d.step = "delaying" /\ d.need = r.need /\ d.route = r.route
          /\ d.rest = r.rest /\ d.calls = r.calls /\ d.barred = r.barred
          /\ d.attempt = r.attempt /\ At(d) = At(r)
      BY <3>1 DEF WalkRecords, At
    <3> HIDE DEF d
    <3>3. Walked(d)
      BY <3>1, <3>2 DEF Walking, Walked
    <3>4. Walking(d)
      BY <3>1, <3>2, <3>3 DEF Walking
    <3>5. QED
      BY <3>4 DEF d, r
  <2>3. Walking(new)
    BY <2>1, <2>2, GivingUpWalks
  <2>4. request' = [request EXCEPT ![q] = new]
    BY <1>8 DEF Fails, Asked
  <2> HIDE DEF new
  <2>5. Asked'
    BY <2>3, <2>4, RequestChanges
  <2>6. \A h \in [failures : 0 .. FailureThreshold, left : 0 .. Cooldown] :
            WithFailure(h) \in [failures : 0 .. FailureThreshold, left : 0 .. Cooldown]
    BY RouterAssumption DEF WithFailure
  <2>7. health' \in [Providers -> [failures : 0 .. FailureThreshold, left : 0 .. Cooldown]]
    BY <1>8, <2>1, <2>6 DEF Fails, Known, RecordFailure
  <2>8. QED
    BY <1>8, <2>5, <2>7 DEF Fails, Known
<1>9. ASSUME NEW q \in Requests, Retries(q)
      PROVE  RouterInv'
  <2>1. Walking(request[q]) /\ request[q].step = "delaying"
    BY <1>9 DEF Retries, Asked, NewRouted
  <2>2. Walking(Calls(request[q]))
    BY <2>1, CallIsCounted DEF Walking
  <2>3. QED
    BY <1>9, <2>2, RequestChanges DEF Retries, Known
<1>10. ASSUME NEW q \in Requests, Returns(q)
       PROVE  RouterInv'
  BY <1>10, RequestChanges DEF Returns, Known
<1>11. QED
  BY <1>1, <1>2, <1>3, <1>5, <1>6, <1>7, <1>8, <1>9, <1>10 DEF RouterNext, RequestMoves

LEMMA RouterInvImplies == RouterInv => RouterTypeOK /\ WalkIsWhole
<1> SUFFICES ASSUME RouterInv PROVE RouterTypeOK /\ WalkIsWhole
  OBVIOUS
<1>1. ASSUME NEW q \in Requests, request[q] # NewRouted
      PROVE  /\ request[q].step \in {"calling", "delaying", "unavailable"}
             /\ request[q].need \in Needs
             /\ ToSet(request[q].rest) \union ToSet(request[q].route) \subseteq Models
             /\ request[q].attempt \in 0 .. MaxAttempts
             /\ request[q].calls \in [Models -> 0 .. MaxAttempts]
             /\ request[q].barred \subseteq Providers
  <2>1. request[q] \in WalkRecords
    BY <1>1 DEF RouterInv, Asked
  <2>2. QED
    BY <2>1 DEF WalkRecords, ToSet
<1>2. RouterTypeOK
  BY <1>1 DEF RouterInv, Known, RouterTypeOK
<1>3. ASSUME NEW q \in Requests, request[q].step # "new"
      PROVE  LET r == request[q]
                 due == IF r.need.fallback THEN ToSet(r.route) ELSE {Head(r.route)}
             IN  /\ \A m \in Models : r.calls[m] > 0 =>
                        m \in due /\ r.calls[m] <= MaxAttempts /\ m[1] \notin r.barred
                 /\ r.step = "unavailable" => \A m \in due : r.calls[m] > 0
  <2> DEFINE r == request[q]
  <2>1. Walking(r)
    BY <1>3 DEF RouterInv, Asked, NewRouted
  <2> HIDE DEF r
  <2>2. /\ r \in WalkRecords /\ Len(r.route) \in Nat /\ DOMAIN r.route = 1 .. Len(r.route)
        /\ At(r) \in DOMAIN r.route /\ At(r) \in Nat
        /\ Head(r.route) = r.route[1] /\ Len(r.rest) \in Nat
    BY <2>1 DEF Walking, Walked, WalkRecords, At
  <2>3. \A i \in DOMAIN r.route : r.route[i] \in Models /\ r.route[i] \in ToSet(r.route)
    BY <2>2 DEF WalkRecords, ToSet
  <2>4. ASSUME NEW m \in Models, r.calls[m] > 0
        PROVE  /\ m \in IF r.need.fallback THEN ToSet(r.route) ELSE {Head(r.route)}
               /\ r.calls[m] <= MaxAttempts /\ m[1] \notin r.barred
    <3>1. PICK i \in DOMAIN r.route : m = r.route[i]
      BY <2>1, <2>4 DEF Walking, Walked
    <3>2. i <= At(r)
      BY <2>1, <2>2, <2>4, <3>1 DEF Walking, Walked
    <3>3. r.need.fallback \/ m = Head(r.route)
      BY <2>1, <2>2, <3>1, <3>2 DEF Walking, Walked
    <3>4. r.calls[m] <= MaxAttempts
      BY <2>2, RouterAssumption DEF WalkRecords
    <3>5. QED
      BY <2>1, <2>3, <3>1, <3>3, <3>4 DEF Walking, Walked
  <2>5. ASSUME r.step = "unavailable",
               NEW m \in IF r.need.fallback THEN ToSet(r.route) ELSE {Head(r.route)}
        PROVE  r.calls[m] > 0
    <3>1. r.calls[r.route[At(r)]] > 0
      BY <2>1 DEF Walking, Walked
    <3>2. CASE r.need.fallback
      <4>1. PICK i \in DOMAIN r.route : m = r.route[i]
        BY <2>5, <3>2 DEF ToSet
      <4>2. At(r) = Len(r.route)
        <5>1. Len(r.rest) = 1
          BY <2>1, <2>5, <3>2 DEF Walking
        <5>2. QED
          BY <2>2, <5>1 DEF At
      <4>3. QED
        BY <2>1, <2>2, <3>1, <4>1, <4>2 DEF Walking, Walked
    <3>3. CASE ~r.need.fallback
      BY <2>1, <2>2, <2>5, <3>1, <3>3 DEF Walking, Walked
    <3>4. QED
      BY <3>2, <3>3
  <2>6. QED
    BY <2>4, <2>5 DEF r
<1>4. WalkIsWhole
  BY <1>3 DEF WalkIsWhole
<1>5. QED
  BY <1>2, <1>4

\* Each call, fallback, cooldown and restart keeps every walk one through the
\* routes of its request.
THEOREM RouterInvariant == RouterSpec => []RouterInv
  BY RouterBegins, RouterSteps, PTL DEF RouterSpec

\* Every request, breaker and cached vector is one the router can make.
THEOREM RouterTypeCorrect == RouterSpec => []RouterTypeOK
  BY RouterInvariant, RouterInvImplies, PTL

\* callRoutedChat reports "unavailable" only after every model due had its call;
\* none is called more often than the limit, and none whose breaker was open or
\* that MODEL_LOCAL_ONLY forbids, however requests, failures and restarts mix.
THEOREM WalksAreWhole == RouterSpec => []WalkIsWhole
  BY RouterInvariant, RouterInvImplies, PTL

-----------------------------------------------------------------------------
(* The turns of an execution *)

TurnStepNames == {"absent", "ready", "asked", "acting", "finishing", "spent", "over"}
TurnRecord == [step : TurnStepNames, rounds : 0 .. MaxStructured + MaxIterations,
               calls : CallLists]

\* Attempts begin in their order.
InOrder ==
    \A n \in TurnNodes, j, k \in 1 .. TurnAttempts :
        j < k /\ turn[<<n, k>>].step # "absent" => turn[<<n, j>>].step # "absent"

\* The attempts that go on beside their retry: each outlived its lease.
Outlived == {t \in Turns :
                /\ Live(t)
                /\ t[2] < TurnAttempts
                /\ turn[<<t[1], t[2] + 1>>].step # "absent"}

OutlivedCounted == Cardinality(Outlived) <= overlaps

\* A structured turn that may ask has a round left, and one that finishes has
\* earned it.
StepsEarned ==
    \A t \in Turns :
        /\ turn[t].step = "absent" => turn[t].rounds = 0
        /\ Structured(t) /\ turn[t].step = "ready" => turn[t].rounds < MaxStructured
        /\ turn[t].step = "acting" => ~Structured(t)
        /\ turn[t].step = "finishing" => t[1] \in earned

TurnInv ==
    /\ TurnTypeOK /\ InOrder /\ OutlivedCounted /\ StepsEarned /\ Overdraft /\ VerdictEarned

-----------------------------------------------------------------------------
(* Finite sets of attempts *)

LEMMA TurnsFinite ==
  /\ IsFiniteSet(Turns) /\ IsFiniteSet(TurnNodes)
  /\ Cardinality(TurnNodes) \in Nat
  /\ \A S \in SUBSET Turns : IsFiniteSet(S) /\ Cardinality(S) \in Nat
<1>1. IsFiniteSet(TurnNodes) /\ IsFiniteSet(1 .. TurnAttempts)
  BY TurnAssumption, FS_Interval
<1>2. IsFiniteSet(Turns)
  BY <1>1, FS_Product DEF Turns
<1>3. \A S \in SUBSET Turns : IsFiniteSet(S)
  BY <1>2, FS_Subset
<1>4. QED
  BY <1>1, <1>2, <1>3, FS_CardinalityType

LEMMA CallListsKept ==
  /\ <<>> \in CallLists
  /\ \A calls \in CallLists : calls # <<>> => Tail(calls) \in CallLists
<1>1. <<>> \in [1 .. 0 -> CallKinds]
  OBVIOUS
<1>2. <<>> \in CallLists
  BY <1>1, TurnAssumption DEF CallLists
<1>3. ASSUME NEW calls \in CallLists, calls # <<>>
      PROVE  Tail(calls) \in CallLists
  <2>1. PICK k \in 0 .. MaxCalls : calls \in [1 .. k -> CallKinds]
    BY DEF CallLists
  <2>2. calls \in Seq(CallKinds) /\ Len(calls) = k
    BY <2>1, TurnAssumption
  <2>3. k # 0
    BY <1>3, <2>2
  <2>4. Tail(calls) \in Seq(CallKinds) /\ Len(Tail(calls)) = k - 1
    BY <1>3, <2>2
  <2>5. Tail(calls) \in [1 .. (k - 1) -> CallKinds]
    BY <2>4, LenProperties
  <2>6. k - 1 \in 0 .. MaxCalls
    BY <2>1, <2>3, TurnAssumption
  <2>7. \E m \in 0 .. MaxCalls : Tail(calls) \in [1 .. m -> CallKinds]
    BY <2>5, <2>6
  <2>8. QED
    BY <2>7 DEF CallLists
<1>4. QED
  BY <1>2, <1>3

\* At most one attempt of a node has neither ended nor outlived its lease.
LEMMA OneHeldEach ==
  ASSUME TurnTypeOK, InOrder
  PROVE  LET held == {t \in Turns : Live(t)} \ Outlived
         IN  Cardinality(held) <= Cardinality(TurnNodes)
<1> DEFINE held == {t \in Turns : Live(t)} \ Outlived
           nodeOf == [t \in held |-> t[1]]
<1>1. nodeOf \in [held -> TurnNodes]
  BY DEF Turns
<1>2. ASSUME NEW t \in held, NEW u \in held, t[1] = u[1]
      PROVE  t = u
  <2>1. /\ t \in Turns /\ u \in Turns /\ Live(t) /\ Live(u)
        /\ t \notin Outlived /\ u \notin Outlived
    OBVIOUS
  <2>2. PICK n \in TurnNodes, j \in 1 .. TurnAttempts, k \in 1 .. TurnAttempts :
            t = <<n, j>> /\ u = <<n, k>>
    BY <1>2, <2>1 DEF Turns
  <2>3. turn[<<n, j>>].step # "absent" /\ turn[<<n, k>>].step # "absent"
    BY <2>1, <2>2 DEF Live
  <2>4. ASSUME j < k
        PROVE  FALSE
    <3>1. j + 1 \in 1 .. TurnAttempts /\ j < TurnAttempts
      BY <2>4, TurnAssumption
    <3>2. turn[<<n, j + 1>>].step # "absent"
      BY <2>3, <2>4, <3>1, TurnAssumption DEF InOrder
    <3>3. t \in Outlived
      BY <2>1, <2>2, <3>1, <3>2 DEF Outlived
    <3>4. QED
      BY <2>1, <3>3
  <2>5. ASSUME k < j
        PROVE  FALSE
    <3>1. k + 1 \in 1 .. TurnAttempts /\ k < TurnAttempts
      BY <2>5, TurnAssumption
    <3>2. turn[<<n, k + 1>>].step # "absent"
      BY <2>3, <2>5, <3>1, TurnAssumption DEF InOrder
    <3>3. u \in Outlived
      BY <2>1, <2>2, <3>1, <3>2 DEF Outlived
    <3>4. QED
      BY <2>1, <3>3
  <2>6. QED
    BY <2>2, <2>4, <2>5, TurnAssumption
<1>3. nodeOf \in Injection(held, TurnNodes)
  BY <1>1, <1>2 DEF Injection, IsInjective
<1> HIDE DEF held, nodeOf
<1>4. Cardinality(held) <= Cardinality(TurnNodes)
  BY <1>3, TurnsFinite, FS_Injection
<1>5. QED
  BY <1>4 DEF held

\* What is live at once: one attempt for each node, and those that outlived
\* their lease.
LEMMA LiveCounted ==
  ASSUME TurnTypeOK, InOrder, OutlivedCounted
  PROVE  Cardinality({t \in Turns : Live(t)}) <= Cardinality(TurnNodes) + overlaps
<1> DEFINE live == {t \in Turns : Live(t)}
<1>1. live \in SUBSET Turns /\ Outlived \in SUBSET Turns /\ Outlived \subseteq live
  BY DEF Outlived
<1>2. /\ IsFiniteSet(live) /\ IsFiniteSet(Outlived)
      /\ Cardinality(live) \in Nat /\ Cardinality(Outlived) \in Nat
  BY <1>1, TurnsFinite
<1>3. Cardinality(live \ Outlived) <= Cardinality(TurnNodes)
  BY OneHeldEach
<1> HIDE DEF live
<1>4. Cardinality(live \ Outlived) = Cardinality(live) - Cardinality(live \cap Outlived)
  BY <1>2, FS_Difference
<1>5. live \cap Outlived = Outlived
  BY <1>1
<1>6. overlaps \in Nat /\ Cardinality(TurnNodes) \in Nat
  <2>1. overlaps \in 0 .. MaxOverlaps
    BY DEF TurnTypeOK
  <2>2. QED
    BY <2>1, TurnsFinite, TurnAssumption
<1>7. Cardinality(live) <= Cardinality(TurnNodes) + overlaps
  BY <1>2, <1>3, <1>4, <1>5, <1>6 DEF OutlivedCounted
<1>8. QED
  BY <1>7 DEF live

-----------------------------------------------------------------------------
(* What the steps do *)

\* Attempt t comes to be new, and none else changes.
Becomes(t, new) == turn' = [turn EXCEPT ![t] = new]

\* What every step keeps of the rows and the verdicts.
VerdictsKept ==
    /\ nodeRow' \in [TurnNodes -> {"CREATED", "RUNNING", "COMPLETED", "INCOMPLETE"}]
    /\ verdict' \in [TurnNodes -> {"none", "completed", "incomplete", "failed"}]
    /\ earned' \subseteq TurnNodes /\ earned \subseteq earned'
    /\ \A n \in TurnNodes :
        /\ nodeRow'[n] = "COMPLETED" => nodeRow[n] = "COMPLETED" \/ n \in earned'
        /\ nodeRow[n] = "COMPLETED" => nodeRow'[n] = "COMPLETED"
        /\ nodeRow[n] = "INCOMPLETE" => nodeRow'[n] \in {"INCOMPLETE", "COMPLETED"}
        /\ \/ verdict'[n] = verdict[n] \/ verdict'[n] = "failed"
           \/ verdict'[n] = "completed" /\ nodeRow'[n] = "COMPLETED"
           \/ verdict'[n] = "incomplete" /\ nodeRow'[n] \in {"INCOMPLETE", "COMPLETED"}

\* What an attempt may come to hold.
MayHold(t, new) ==
    /\ new \in TurnRecord /\ new.step # "absent"
    /\ Structured(t) /\ new.step = "ready" => new.rounds < MaxStructured
    /\ new.step = "acting" => ~Structured(t)
    /\ new.step = "finishing" => t[1] \in earned'

\* A call is asked within the budget; an answer is paid when it arrives.
Pays(t, new) ==
    \/ new.step = "asked" /\ WithinBudget /\ usage' = usage
    \/ new.step # "asked" /\ usage' = usage
    \/ /\ turn[t].step = "asked" /\ new.step # "asked"
       /\ \E tokens \in 0 .. MaxUsage : usage' = usage + tokens

\* A step of an attempt that is under way.
Continues(t) ==
    \E new \in TurnRecord :
        /\ Live(t) /\ Becomes(t, new) /\ MayHold(t, new) /\ Pays(t, new)
        /\ UNCHANGED overlaps

\* The first step of an attempt, beside the one before or after it.
Starts(t) ==
    \E new \in TurnRecord :
        /\ turn[t].step = "absent" /\ Becomes(t, new)
        /\ MayHold(t, new) /\ new.step \in {"ready", "over"}
        /\ t[2] > 1 => turn[<<t[1], t[2] - 1>>].step # "absent"
        /\ \/ UNCHANGED overlaps /\ (t[2] > 1 => ~Live(<<t[1], t[2] - 1>>))
           \/ t[2] > 1 /\ overlaps < MaxOverlaps /\ overlaps' = overlaps + 1
        /\ UNCHANGED <<usage, earned>>

LEMMA RecordOf ==
  ASSUME TurnTypeOK, NEW t \in Turns
  PROVE  /\ turn[t] \in TurnRecord /\ t[1] \in TurnNodes
         /\ \A step \in TurnStepNames :
              LET on == [turn[t] EXCEPT !.step = step]
                  left == [Idle EXCEPT !.step = step]
              IN  /\ on \in TurnRecord /\ on.step = step /\ on.rounds = turn[t].rounds
                  /\ left \in TurnRecord /\ left.step = step /\ left.rounds = 0
<1>1. turn[t] \in TurnRecord /\ t[1] \in TurnNodes
  BY DEF TurnTypeOK, TurnRecord, TurnStepNames, Turns
<1>2. \A step \in TurnStepNames :
        LET on == [turn[t] EXCEPT !.step = step]
        IN  on \in TurnRecord /\ on.step = step /\ on.rounds = turn[t].rounds
  BY <1>1 DEF TurnRecord
<1>3. ASSUME NEW step \in TurnStepNames
      PROVE  LET left == [Idle EXCEPT !.step = step]
             IN  left \in TurnRecord /\ left.step = step /\ left.rounds = 0
  <2>1. 0 \in 0 .. MaxStructured + MaxIterations
    BY TurnAssumption
  <2>2. QED
    BY <2>1, CallListsKept DEF Idle, TurnRecord
<1>4. QED
  BY <1>1, <1>2, <1>3

\* What an answer does to the verdicts.
LEMMA AnswerGiven ==
  ASSUME TurnTypeOK, NEW t \in Turns, NEW v \in {"completed", "incomplete", "failed"},
         Answer(t, v)
  PROVE  /\ verdict' \in [TurnNodes -> {"none", "completed", "incomplete", "failed"}]
         /\ \A n \in TurnNodes : verdict'[n] = verdict[n] \/ (n = t[1] /\ verdict'[n] = v)
BY DEF TurnTypeOK, Answer, Turns

LEMMA ThrowsEnds ==
  ASSUME TurnInv, NEW t \in Turns, NEW domain \in BOOLEAN, Throws(t, domain)
  PROVE  /\ VerdictsKept
         /\ \E new \in TurnRecord :
                /\ Becomes(t, new) /\ MayHold(t, new) /\ new.step = "over"
         /\ UNCHANGED <<usage, earned, overlaps>>
<1>1. TurnTypeOK
  BY DEF TurnInv
<1>2. /\ verdict' = verdict \/ Answer(t, "failed")
      /\ UNCHANGED <<nodeRow, usage, earned, overlaps>> /\ Leaves(t, "over")
  BY DEF Throws
<1>3. VerdictsKept
  BY <1>1, <1>2, AnswerGiven DEF VerdictsKept, TurnTypeOK
<1>4. QED
  BY <1>1, <1>2, <1>3, RecordOf DEF Leaves, Becomes, MayHold, TurnStepNames

\* executeNode begins: the row leaves CREATED only.
LEMMA BeginStarts ==
  ASSUME TurnInv, NEW n \in TurnNodes, NEW k \in 1 .. TurnAttempts,
         TurnBegins(n, k) \/ LeaseRunsOut(n, k) \/ TurnRefused(n, k)
  PROVE  VerdictsKept /\ Starts(<<n, k>>)
<1> DEFINE t == <<n, k>>
<1>1. TurnTypeOK /\ StepsEarned /\ t \in Turns /\ t[1] = n /\ t[2] = k
  BY DEF TurnInv, Turns
<1>2. /\ turn[t].step = "absent"
      /\ k > 1 => turn[<<n, k - 1>>].step # "absent"
  BY DEF TurnBegins, LeaseRunsOut, TurnRefused, MayBegin
<1>3. ASSUME TurnBegins(n, k) \/ LeaseRunsOut(n, k)
      PROVE  VerdictsKept /\ Starts(t)
  <2> DEFINE new == [turn[t] EXCEPT !.step = "ready"]
  <2>1. /\ nodeRow' = [nodeRow EXCEPT ![n] = IF @ = "CREATED" THEN "RUNNING" ELSE @]
        /\ UNCHANGED <<usage, verdict, earned>>
        /\ Becomes(t, new)
    BY <1>3 DEF TurnBegins, LeaseRunsOut, Goes, Becomes
  <2>2. VerdictsKept
    BY <1>1, <2>1 DEF VerdictsKept, TurnTypeOK
  <2>3. /\ new \in TurnRecord /\ new.step = "ready" /\ new.rounds = turn[t].rounds
    BY <1>1, RecordOf DEF TurnStepNames
  <2>4. turn[t].rounds = 0
    BY <1>1, <1>2 DEF StepsEarned
  <2> HIDE DEF new, t
  <2>5. MayHold(t, new)
    BY <2>3, <2>4, TurnAssumption DEF MayHold
  <2>6. \/ UNCHANGED overlaps /\ (k > 1 => ~Live(<<n, k - 1>>))
        \/ k > 1 /\ overlaps < MaxOverlaps /\ overlaps' = overlaps + 1
    BY <1>3 DEF TurnBegins, LeaseRunsOut, Live
  <2>7. QED
    BY <1>1, <1>2, <2>1, <2>2, <2>3, <2>5, <2>6 DEF Starts
<1>4. CASE TurnRefused(n, k)
  <2>1. Throws(t, TRUE) /\ (k > 1 => turn[<<n, k - 1>>].step = "over")
    BY <1>4 DEF TurnRefused
  <2>2. QED
    BY <1>1, <1>2, <2>1, ThrowsEnds DEF Starts, Live
<1>5. QED
  BY <1>3, <1>4

LEMMA AskContinues ==
  ASSUME TurnInv, NEW t \in Turns, Asks(t)
  PROVE  VerdictsKept /\ Continues(t)
<1>1. TurnTypeOK /\ StepsEarned /\ turn[t].step = "ready" /\ RoundsLeft(t)
  BY DEF TurnInv, Asks
<1>2. CASE WithinBudget
  <2> DEFINE new == [turn[t] EXCEPT !.step = "asked", !.rounds = NextRound(@)]
  <2>1. /\ Becomes(t, new)
        /\ UNCHANGED <<nodeRow, usage, verdict, earned, overlaps>>
    BY <1>2 DEF Asks, Becomes
  <2>2. turn[t] \in TurnRecord
    BY <1>1, RecordOf
  <2>3. turn[t].rounds + 1 \in 0 .. MaxStructured + MaxIterations
    <3>1. turn[t].rounds \in 0 .. MaxStructured + MaxIterations
      BY <2>2 DEF TurnRecord
    <3>2. turn[t].rounds < MaxStructured \/ turn[t].rounds < MaxIterations
      BY <1>1 DEF StepsEarned, RoundsLeft
    <3>3. QED
      BY <3>1, <3>2, TurnAssumption
  <2>4. new \in TurnRecord /\ new.step = "asked"
    BY <2>2, <2>3 DEF TurnRecord, TurnStepNames, NextRound
  <2> HIDE DEF new
  <2>5. VerdictsKept
    BY <1>1, <2>1 DEF VerdictsKept, TurnTypeOK
  <2>6. Live(t)
    BY <1>1 DEF Live
  <2>7. QED
    BY <1>2, <2>1, <2>4, <2>5, <2>6 DEF Continues, MayHold, Pays
<1>3. CASE ~WithinBudget
  <2>1. Throws(t, TRUE)
    BY <1>3 DEF Asks
  <2>2. QED
    BY <1>1, <2>1, ThrowsEnds DEF Continues, Pays, Live
<1>4. QED
  BY <1>2, <1>3

LEMMA FailureContinues ==
  ASSUME TurnInv, NEW t \in Turns, CallFails(t) \/ TurnDies(t)
  PROVE  VerdictsKept /\ Continues(t)
<1>1. PICK domain \in BOOLEAN : Throws(t, domain)
  BY DEF CallFails, TurnDies
<1>2. Live(t)
  BY DEF CallFails, TurnDies, Live
<1>3. QED
  BY <1>1, <1>2, ThrowsEnds DEF Continues, Pays

\* The steps that leave the loop or the turn.
LEMMA LeaveContinues ==
  ASSUME TurnInv, NEW t \in Turns, NEW step \in TurnStepNames \ {"absent", "asked", "ready", "acting"},
         Live(t), Leaves(t, step), step = "finishing" => t[1] \in earned',
         usage' = usage \/ (turn[t].step = "asked" /\ Reports), UNCHANGED overlaps
  PROVE  Continues(t)
<1>1. [Idle EXCEPT !.step = step] \in TurnRecord /\ [Idle EXCEPT !.step = step].step = step
  BY RecordOf DEF TurnInv
<1>2. QED
  BY <1>1 DEF Continues, MayHold, Pays, Leaves, Becomes, Reports

\* What the model answers.
LEMMA AnswerContinues ==
  ASSUME TurnInv, NEW t \in Turns,
         \/ AnsweredValid(t) \/ AnsweredInvalid(t)
         \/ AnsweredWithCalls(t) \/ AnsweredWithText(t)
  PROVE  VerdictsKept /\ Continues(t)
<1>1. TurnTypeOK /\ turn[t].step = "asked" /\ Live(t) /\ Reports
  BY DEF TurnInv, AnsweredValid, AnsweredInvalid, AnsweredWithCalls, AnsweredWithText, Live
<1>2. turn[t] \in TurnRecord /\ t[1] \in TurnNodes
  BY <1>1, RecordOf
<1>3. CASE AnsweredValid(t)
  <2>1. VerdictsKept
    BY <1>1, <1>2, <1>3 DEF AnsweredValid, VerdictsKept, TurnTypeOK
  <2>2. t[1] \in earned' /\ Leaves(t, "finishing") /\ UNCHANGED overlaps
    BY <1>3 DEF AnsweredValid
  <2>3. QED
    BY <1>1, <2>1, <2>2, LeaveContinues DEF TurnStepNames
<1>4. CASE AnsweredInvalid(t) /\ MayAskAgain(t)
  <2> DEFINE new == [turn[t] EXCEPT !.step = "ready"]
  <2>1. new \in TurnRecord /\ new.step = "ready" /\ new.rounds = turn[t].rounds
    BY <1>1, RecordOf DEF TurnStepNames
  <2>2. Becomes(t, new) /\ UNCHANGED <<nodeRow, verdict, earned, overlaps>>
    BY <1>4 DEF AnsweredInvalid, Goes, Becomes
  <2> HIDE DEF new
  <2>3. VerdictsKept
    BY <1>1, <2>2 DEF VerdictsKept, TurnTypeOK
  <2>4. MayHold(t, new)
    BY <1>4, <2>1 DEF MayHold, MayAskAgain
  <2>5. Pays(t, new)
    BY <1>1, <2>1 DEF Pays, Reports
  <2>6. QED
    BY <1>1, <2>1, <2>2, <2>3, <2>4, <2>5 DEF Continues
<1>5. CASE (AnsweredInvalid(t) /\ ~MayAskAgain(t)) \/ AnsweredWithText(t)
  <2>1. /\ Leaves(t, "over") /\ Answer(t, "failed")
        /\ UNCHANGED <<nodeRow, earned, overlaps>>
    BY <1>5 DEF AnsweredInvalid, AnsweredWithText, Stopped
  <2>2. VerdictsKept
    BY <1>1, <2>1, AnswerGiven DEF VerdictsKept, TurnTypeOK
  <2>3. QED
    BY <1>1, <2>1, <2>2, LeaveContinues DEF TurnStepNames
<1>6. CASE AnsweredWithCalls(t)
  <2>1. PICK calls \in CallLists :
            turn' = [turn EXCEPT ![t].step = "acting", ![t].calls = calls]
    BY <1>6 DEF AnsweredWithCalls
  <2> DEFINE new == [turn[t] EXCEPT !.step = "acting", !.calls = calls]
  <2>2. Becomes(t, new)
    BY <2>1 DEF Becomes
  <2>3. new \in TurnRecord /\ new.step = "acting"
    BY <1>2 DEF TurnRecord, TurnStepNames
  <2> HIDE DEF new
  <2>4. UNCHANGED <<nodeRow, verdict, earned, overlaps>>
    BY <1>6 DEF AnsweredWithCalls
  <2>5. VerdictsKept
    BY <1>1, <2>4 DEF VerdictsKept, TurnTypeOK
  <2>6. MayHold(t, new) /\ Pays(t, new)
    BY <1>1, <1>6, <2>3 DEF AnsweredWithCalls, MayHold, Pays, Reports
  <2>7. QED
    BY <1>1, <2>2, <2>3, <2>4, <2>5, <2>6 DEF Continues
<1>7. QED
  BY <1>3, <1>4, <1>5, <1>6

LEMMA ActContinues ==
  ASSUME TurnInv, NEW t \in Turns, Acts(t)
  PROVE  VerdictsKept /\ Continues(t)
<1>1. /\ TurnTypeOK /\ StepsEarned /\ turn[t].step = "acting" /\ Live(t)
      /\ UNCHANGED <<usage, verdict, overlaps>>
  BY DEF TurnInv, Acts, Live
<1>2. turn[t] \in TurnRecord /\ t[1] \in TurnNodes
  BY <1>1, RecordOf
<1>3. CASE MarksComplete(t)
  <2>1. VerdictsKept
    BY <1>1, <1>2, <1>3 DEF MarksComplete, VerdictsKept, TurnTypeOK
  <2>2. t[1] \in earned' /\ Leaves(t, "finishing")
    BY <1>3 DEF MarksComplete
  <2>3. QED
    BY <1>1, <2>1, <2>2, LeaveContinues DEF TurnStepNames
<1>4. CASE turn[t].calls = <<>> /\ Goes(t, "ready") /\ UNCHANGED <<nodeRow, earned>>
  <2> DEFINE new == [turn[t] EXCEPT !.step = "ready"]
  <2>1. ~Structured(t)
    BY <1>1 DEF StepsEarned
  <2>2. new \in TurnRecord /\ new.step = "ready"
    BY <1>1, RecordOf DEF TurnStepNames
  <2>3. Becomes(t, new)
    BY <1>4 DEF Goes, Becomes
  <2> HIDE DEF new
  <2>4. VerdictsKept
    BY <1>1, <1>4 DEF VerdictsKept, TurnTypeOK
  <2>5. QED
    BY <1>1, <2>1, <2>2, <2>3, <2>4 DEF Continues, MayHold, Pays
<1>5. CASE turn[t].calls # <<>> /\ turn' = [turn EXCEPT ![t].calls = Tail(@)]
           /\ UNCHANGED <<nodeRow, earned>>
  <2> DEFINE new == [turn[t] EXCEPT !.calls = Tail(@)]
  <2>1. Becomes(t, new)
    BY <1>5 DEF Becomes
  <2>2. turn[t].calls \in CallLists
    BY <1>2 DEF TurnRecord
  <2>3. Tail(turn[t].calls) \in CallLists
    BY <1>5, <2>2, CallListsKept
  <2>4. new \in TurnRecord /\ new.step = "acting"
    BY <1>1, <1>2, <2>3 DEF TurnRecord
  <2> HIDE DEF new
  <2>5. VerdictsKept
    BY <1>1, <1>5 DEF VerdictsKept, TurnTypeOK
  <2>6. QED
    BY <1>1, <2>1, <2>4, <2>5 DEF Continues, MayHold, Pays, StepsEarned
<1>6. QED
  BY <1>3, <1>4, <1>5 DEF Acts

\* The end of executeNode.
LEMMA EndContinues ==
  ASSUME TurnInv, NEW t \in Turns, Finishes(t) \/ Stops(t) \/ RunsOut(t)
  PROVE  VerdictsKept /\ Continues(t)
<1>1. /\ TurnTypeOK /\ StepsEarned /\ t[1] \in TurnNodes
      /\ Live(t) /\ UNCHANGED <<usage, earned, overlaps>>
  BY DEF TurnInv, Finishes, Stops, RunsOut, Live, Turns
<1>2. CASE Finishes(t)
  <2>1. /\ nodeRow' = [nodeRow EXCEPT ![t[1]] = "COMPLETED"]
        /\ Leaves(t, "over") /\ Answer(t, "completed") /\ t[1] \in earned
    BY <1>1, <1>2 DEF Finishes, StepsEarned
  <2>2. VerdictsKept
    BY <1>1, <2>1, AnswerGiven DEF VerdictsKept, TurnTypeOK
  <2>3. QED
    BY <1>1, <2>1, <2>2, LeaveContinues DEF TurnStepNames
<1>3. CASE Stops(t)
  <2>1. /\ nodeRow' = [nodeRow EXCEPT ![t[1]] = Incomplete(@)]
        /\ Leaves(t, "over") /\ Answer(t, "incomplete")
    BY <1>3 DEF Stops
  <2>2. VerdictsKept
    BY <1>1, <2>1, AnswerGiven DEF VerdictsKept, TurnTypeOK, Incomplete
  <2>3. QED
    BY <1>1, <2>1, <2>2, LeaveContinues DEF TurnStepNames
<1>4. CASE RunsOut(t)
  <2>1. Leaves(t, "spent") /\ UNCHANGED <<nodeRow, verdict>>
    BY <1>4 DEF RunsOut
  <2>2. VerdictsKept
    BY <1>1, <2>1 DEF VerdictsKept, TurnTypeOK
  <2>3. QED
    BY <1>1, <2>1, <2>2, LeaveContinues DEF TurnStepNames
<1>5. QED
  BY <1>2, <1>3, <1>4

LEMMA EveryStep ==
  ASSUME TurnInv, TurnNext
  PROVE  VerdictsKept /\ \E t \in Turns : Starts(t) \/ Continues(t)
<1>1. ASSUME NEW n \in TurnNodes, NEW k \in 1 .. TurnAttempts,
             TurnBegins(n, k) \/ LeaseRunsOut(n, k) \/ TurnRefused(n, k)
      PROVE  VerdictsKept /\ \E t \in Turns : Starts(t)
  BY <1>1, BeginStarts DEF Turns
<1>2. ASSUME NEW t \in Turns, TurnMoves(t) \/ TurnDies(t)
      PROVE  VerdictsKept /\ Continues(t)
  BY <1>2, AskContinues, FailureContinues, AnswerContinues, ActContinues, EndContinues
     DEF TurnMoves
<1>3. QED
  BY <1>1, <1>2 DEF TurnNext

-----------------------------------------------------------------------------
(* The invariant *)

LEMMA TurnInvInit == TurnInit => TurnInv
<1> SUFFICES ASSUME TurnInit
             PROVE  TurnInv
  OBVIOUS
<1>1. \A t \in Turns : turn[t] = Idle
  BY DEF TurnInit
<1>2. TurnTypeOK
  <2>1. Idle \in TurnRecord
    BY CallListsKept, TurnAssumption DEF Idle, TurnRecord, TurnStepNames
  <2>2. 0 \in 0 .. MaxOverlaps
    BY TurnAssumption
  <2>3. QED
    BY <2>1, <2>2 DEF TurnInit, TurnTypeOK, TurnRecord, TurnStepNames
<1>3. InOrder /\ StepsEarned
  BY <1>1 DEF InOrder, StepsEarned, Idle, Turns
<1>4. Outlived = {} /\ InFlight = {}
  BY <1>1 DEF Outlived, InFlight, Live, Idle
<1>5. OutlivedCounted
  BY <1>4, FS_EmptySet DEF OutlivedCounted, TurnInit
<1>6. Overdraft
  <2>1. Cardinality(InFlight) = 0 /\ usage = 0 /\ overlaps = 0
    BY <1>4, FS_EmptySet DEF TurnInit
  <2>2. MaxUsage * 0 = 0 /\ MaxUsage * (Cardinality(TurnNodes) + 0) >= 0
    BY TurnsFinite, TurnAssumption
  <2>3. QED
    BY <2>1, <2>2, TurnsFinite, TurnAssumption DEF Overdraft
<1>7. VerdictEarned
  BY DEF TurnInit, VerdictEarned
<1>8. QED
  BY <1>2, <1>3, <1>5, <1>6, <1>7 DEF TurnInv

LEMMA TypeKept ==
  ASSUME TurnInv, VerdictsKept, NEW t \in Turns, Starts(t) \/ Continues(t)
  PROVE  /\ TurnTypeOK'
         /\ \E new \in TurnRecord :
                /\ MayHold(t, new)
                /\ \A u \in Turns : turn'[u] = IF u = t THEN new ELSE turn[u]
<1>1. PICK new \in TurnRecord : Becomes(t, new) /\ MayHold(t, new)
  BY DEF Starts, Continues
<1>2. /\ turn' \in [Turns -> TurnRecord]
      /\ \A u \in Turns : turn'[u] = IF u = t THEN new ELSE turn[u]
  BY <1>1 DEF Becomes, TurnInv, TurnTypeOK, TurnRecord, TurnStepNames
<1>3. usage' \in Nat
  BY TurnAssumption DEF Starts, Continues, Pays, TurnInv, TurnTypeOK
<1>4. overlaps' \in 0 .. MaxOverlaps
  BY TurnAssumption DEF Starts, Continues, TurnInv, TurnTypeOK
<1>5. TurnTypeOK'
  BY <1>2, <1>3, <1>4 DEF TurnTypeOK, VerdictsKept, TurnRecord, TurnStepNames
<1>6. QED
  BY <1>1, <1>2, <1>5

LEMMA OrderKept ==
  ASSUME TurnInv, VerdictsKept, NEW t \in Turns, Starts(t) \/ Continues(t)
  PROVE  InOrder' /\ StepsEarned'
<1>1. PICK new \in TurnRecord :
        /\ MayHold(t, new)
        /\ \A u \in Turns : turn'[u] = IF u = t THEN new ELSE turn[u]
  BY TypeKept
<1>2. StepsEarned'
  BY <1>1 DEF StepsEarned, MayHold, TurnInv, VerdictsKept, Structured
<1>3. ASSUME NEW n \in TurnNodes, NEW j \in 1 .. TurnAttempts, NEW k \in 1 .. TurnAttempts,
             j < k, turn'[<<n, k>>].step # "absent"
      PROVE  turn'[<<n, j>>].step # "absent"
  <2>1. <<n, j>> \in Turns /\ <<n, k>> \in Turns
    BY DEF Turns
  <2>2. turn[<<n, j>>].step # "absent" => turn'[<<n, j>>].step # "absent"
    BY <1>1, <2>1 DEF MayHold
  <2>3. CASE turn[<<n, k>>].step # "absent"
    BY <1>3, <2>2, <2>3 DEF TurnInv, InOrder
  <2>4. CASE turn[<<n, k>>].step = "absent"
    <3>1. t = <<n, k>>
      BY <1>1, <1>3, <2>1, <2>4
    <3>2. turn[<<n, k - 1>>].step # "absent"
      BY <1>3, <2>4, <3>1 DEF Starts, Continues, Live
    <3>3. k - 1 \in 1 .. TurnAttempts /\ (j = k - 1 \/ j < k - 1)
      BY <1>3, TurnAssumption
    <3>4. QED
      BY <2>2, <3>2, <3>3 DEF TurnInv, InOrder
  <2>5. QED
    BY <2>3, <2>4
<1>4. QED
  BY <1>2, <1>3 DEF InOrder

\* An attempt outlives its lease only where a lease runs out.
LEMMA OutlivedKept ==
  ASSUME TurnInv, VerdictsKept, NEW t \in Turns, Starts(t) \/ Continues(t)
  PROVE  OutlivedCounted'
<1>1. PICK new \in TurnRecord :
        /\ MayHold(t, new)
        /\ \A u \in Turns : turn'[u] = IF u = t THEN new ELSE turn[u]
  BY TypeKept
<1>2. PICK n \in TurnNodes, k \in 1 .. TurnAttempts : t = <<n, k>>
  BY DEF Turns
<1>3. /\ Outlived \in SUBSET Turns /\ Outlived' \in SUBSET Turns
      /\ IsFiniteSet(Outlived) /\ Cardinality(Outlived) \in Nat
      /\ IsFiniteSet(Outlived') /\ Cardinality(Outlived') \in Nat
  BY TurnsFinite DEF Outlived
<1>4. overlaps \in Nat /\ overlaps' \in Nat
  <2>1. overlaps \in 0 .. MaxOverlaps /\ overlaps' \in 0 .. MaxOverlaps
    BY TypeKept DEF TurnInv, TurnTypeOK
  <2>2. QED
    BY <2>1, TurnAssumption
<1>5. ASSUME NEW u \in Outlived', u \notin Outlived
      PROVE  /\ Starts(t) /\ k > 1 /\ u = <<n, k - 1>> /\ Live(u)
  <2>1. PICK m \in TurnNodes, j \in 1 .. TurnAttempts : u = <<m, j>>
    BY DEF Outlived, Turns
  <2>2. /\ j < TurnAttempts /\ j + 1 \in 1 .. TurnAttempts
        /\ turn'[<<m, j>>].step \notin {"absent", "over"}
        /\ turn'[<<m, j + 1>>].step # "absent"
        /\ <<m, j>> \in Turns /\ <<m, j + 1>> \in Turns
    BY <2>1, TurnAssumption DEF Outlived, Live, Turns
  <2>3. ~(/\ turn[<<m, j>>].step \notin {"absent", "over"}
          /\ turn[<<m, j + 1>>].step # "absent")
    BY <1>5, <2>1, <2>2 DEF Outlived, Live
  <2>4. CASE Continues(t)
    BY <1>1, <2>2, <2>3, <2>4 DEF Continues, Live
  <2>5. CASE Starts(t)
    <3>1. turn[t].step = "absent"
      BY <2>5 DEF Starts
    <3>2. t # <<m, j>>
      <4>1. SUFFICES ASSUME t = <<m, j>>
                     PROVE  FALSE
        OBVIOUS
      <4>2. turn[<<m, j + 1>>].step # "absent"
        BY <1>1, <2>2, <4>1
      <4>3. QED
        BY <2>2, <3>1, <4>1, <4>2 DEF TurnInv, InOrder
    <3>3. turn[<<m, j>>].step \notin {"absent", "over"}
      BY <1>1, <2>2, <3>2
    <3>4. t = <<m, j + 1>>
      BY <1>1, <2>2, <2>3, <3>3
    <3>5. m = n /\ k = j + 1
      BY <1>2, <3>4
    <3>6. k > 1 /\ k - 1 = j
      BY <3>5
    <3>7. QED
      BY <2>1, <2>5, <3>3, <3>5, <3>6 DEF Live
  <2>6. QED
    BY <2>4, <2>5
<1>6. CASE Outlived' \subseteq Outlived
  <2>1. overlaps <= overlaps'
    BY <1>4 DEF Starts, Continues
  <2>2. Cardinality(Outlived') <= Cardinality(Outlived)
    BY <1>3, <1>6, FS_Subset
  <2>3. QED
    BY <1>3, <1>4, <2>1, <2>2 DEF TurnInv, OutlivedCounted
<1>7. CASE ~(Outlived' \subseteq Outlived)
  <2> DEFINE more == Outlived \cup {<<n, k - 1>>}
  <2>1. /\ Starts(t) /\ k > 1 /\ Live(<<n, k - 1>>)
        /\ Outlived' \subseteq more
    BY <1>5, <1>7
  <2>2. overlaps' = overlaps + 1
    BY <1>2, <2>1 DEF Starts
  <2>3. IsFiniteSet(more) /\ Cardinality(more) <= Cardinality(Outlived) + 1
    <3>1. /\ IsFiniteSet(more)
          /\ Cardinality(more) = IF <<n, k - 1>> \in Outlived
                                 THEN Cardinality(Outlived) ELSE Cardinality(Outlived) + 1
      BY <1>3, FS_AddElement, Zenon
    <3> HIDE DEF more
    <3>2. QED
      BY <1>3, <3>1
  <2> HIDE DEF more
  <2>4. Cardinality(Outlived') <= Cardinality(more) /\ Cardinality(more) \in Nat
    BY <2>1, <2>3, FS_Subset, FS_CardinalityType
  <2>5. QED
    BY <1>3, <1>4, <2>2, <2>3, <2>4 DEF TurnInv, OutlivedCounted
<1>8. QED
  BY <1>6, <1>7

\* What the calls in flight may cost.
LEMMA Product ==
  ASSUME NEW c \in Nat, NEW m \in Nat
  PROVE  m * c \in Nat /\ m * (c + 1) = m * c + m
OBVIOUS

LEMMA NotLess ==
  ASSUME NEW c \in Nat, NEW d \in Nat, NEW m \in Nat, c <= d
  PROVE  m * c <= m * d
OBVIOUS

LEMMA StillBelow ==
  ASSUME NEW u \in Nat, NEW v \in Nat, NEW p \in Nat, NEW q \in Nat,
         NEW b \in Nat, NEW r \in Nat, NEW s \in Nat,
         v + q <= u + p, u + p < b + r, r <= s
  PROVE  v + q < b + s
OBVIOUS

LEMMA OverdraftKept ==
  ASSUME TurnInv, VerdictsKept, NEW t \in Turns, Starts(t) \/ Continues(t)
  PROVE  Overdraft'
<1> DEFINE n == Cardinality(TurnNodes)
           c == Cardinality(InFlight)
<1>1. PICK new \in TurnRecord :
        /\ MayHold(t, new)
        /\ \A u \in Turns : turn'[u] = IF u = t THEN new ELSE turn[u]
        /\ \/ Starts(t) /\ new.step \in {"ready", "over"}
           \/ Live(t) /\ Pays(t, new) /\ UNCHANGED overlaps
  <2>1. PICK new \in TurnRecord :
            /\ Becomes(t, new) /\ MayHold(t, new)
            /\ \/ Starts(t) /\ new.step \in {"ready", "over"}
               \/ Live(t) /\ Pays(t, new) /\ UNCHANGED overlaps
    BY DEF Starts, Continues
  <2>2. \A u \in Turns : turn'[u] = IF u = t THEN new ELSE turn[u]
    BY <2>1 DEF Becomes, TurnInv, TurnTypeOK
  <2>3. QED
    BY <2>1, <2>2
<1>2. /\ InFlight \in SUBSET Turns /\ InFlight' \in SUBSET Turns
      /\ IsFiniteSet(InFlight) /\ c \in Nat /\ n \in Nat
      /\ IsFiniteSet(InFlight') /\ c' \in Nat
  BY TurnsFinite DEF InFlight
<1>3. /\ overlaps \in Nat /\ overlaps' \in Nat /\ usage \in Nat /\ usage' \in Nat
  <2>1. /\ overlaps \in 0 .. MaxOverlaps /\ overlaps' \in 0 .. MaxOverlaps
        /\ usage \in Nat /\ usage' \in Nat
    BY TypeKept DEF TurnInv, TurnTypeOK
  <2>2. QED
    BY <2>1, TurnAssumption
<1>4. overlaps <= overlaps'
  BY <1>3 DEF Starts, Continues
<1>5. SUFFICES ASSUME TokenBudget > 0
               PROVE  usage' + MaxUsage * c' < TokenBudget + MaxUsage * (n + overlaps')
  BY DEF Overdraft
<1>6. usage + MaxUsage * c < TokenBudget + MaxUsage * (n + overlaps)
  BY <1>5 DEF TurnInv, Overdraft
<1>7. MaxUsage \in Nat /\ TokenBudget \in Nat
  BY TurnAssumption
<1> HIDE DEF n, c
<1>8. /\ n + overlaps \in Nat /\ n + overlaps' \in Nat /\ n + overlaps <= n + overlaps'
  <2>1. \A a, b, d \in Nat : b <= d => a + b \in Nat /\ a + d \in Nat /\ a + b <= a + d
    OBVIOUS
  <2>2. n \in Nat
    BY <1>2
  <2>3. QED
    BY <1>3, <1>4, <2>1, <2>2
<1> DEFINE paid == MaxUsage * c
           paidThen == MaxUsage * c'
           room == MaxUsage * (n + overlaps)
           roomThen == MaxUsage * (n + overlaps')
<1>9. /\ paid \in Nat /\ paidThen \in Nat /\ room \in Nat /\ roomThen \in Nat
  BY <1>2, <1>7, <1>8, Product
<1>10. room <= roomThen
  BY <1>7, <1>8, NotLess
<1>11. CASE new.step = "asked"
  <2>1. WithinBudget /\ usage' = usage /\ UNCHANGED overlaps /\ Live(t)
    BY <1>1, <1>11 DEF Pays
  <2>2. \A u \in InFlight' : Live(u)
    BY <1>1, <2>1 DEF InFlight, Live
  <2>3. InFlight' \subseteq {u \in Turns : Live(u)}
    BY <1>2, <2>2
  <2>4. c' <= Cardinality({u \in Turns : Live(u)})
    BY <2>3, TurnsFinite, FS_Subset DEF c
  <2>5. Cardinality({u \in Turns : Live(u)}) \in Nat
    BY TurnsFinite
  <2>6. c' <= n + overlaps
    BY <1>2, <1>3, <2>4, <2>5, LiveCounted DEF TurnInv, n
  <2>7. paidThen <= room
    BY <1>2, <1>7, <1>8, <2>6, NotLess
  <2>8. usage < TokenBudget
    BY <1>5, <1>7, <2>1 DEF WithinBudget
  <2> HIDE DEF paid, paidThen, room, roomThen
  <2>9. usage' + paidThen < TokenBudget + roomThen
    BY <1>3, <1>7, <1>9, <1>10, <2>1, <2>7, <2>8
  <2>10. QED
    BY <2>9 DEF paidThen, roomThen
<1>12. CASE new.step # "asked"
  <2>1. InFlight' = InFlight \ {t}
    BY <1>1, <1>12 DEF InFlight
  <2>2. c' = IF t \in InFlight THEN c - 1 ELSE c
    BY <1>2, <2>1, FS_RemoveElement DEF c
  <2>3. usage' + paidThen <= usage + paid
    <3>1. CASE usage' = usage
      <4>1. c' <= c
        BY <1>2, <2>2
      <4>2. paidThen <= paid
        BY <1>2, <1>7, <4>1, NotLess
      <4> HIDE DEF paid, paidThen
      <4>3. QED
        BY <1>3, <1>9, <3>1, <4>2
    <3>2. CASE /\ turn[t].step = "asked"
               /\ \E tokens \in 0 .. MaxUsage : usage' = usage + tokens
      <4>1. c = c' + 1
        BY <1>2, <2>2, <3>2 DEF InFlight
      <4>2. paid = paidThen + MaxUsage
        BY <1>2, <1>7, <4>1, Product
      <4> HIDE DEF paid, paidThen
      <4>3. QED
        BY <1>3, <1>7, <1>9, <3>2, <4>2
    <3>3. QED
      BY <1>1, <1>12, <3>1, <3>2 DEF Starts, Pays
  <2>4. usage + paid < TokenBudget + room
    BY <1>6
  <2> HIDE DEF paid, paidThen, room, roomThen
  <2>5. usage' + paidThen < TokenBudget + roomThen
    <3>1. /\ usage \in Nat /\ usage' \in Nat /\ paid \in Nat /\ paidThen \in Nat
          /\ TokenBudget \in Nat /\ room \in Nat /\ roomThen \in Nat
      BY <1>3, <1>7, <1>9
    <3>2. /\ usage' + paidThen <= usage + paid
          /\ usage + paid < TokenBudget + room
          /\ room <= roomThen
      BY <1>10, <2>3, <2>4
    <3>3. QED
      BY <3>1, <3>2, StillBelow, ZenonT(60)
  <2>6. QED
    BY <2>5 DEF paidThen, roomThen
<1>13. QED
  BY <1>11, <1>12

LEMMA TurnInvStep ==
  ASSUME TurnInv, [TurnNext]_turnVars
  PROVE  TurnInv'
<1>1. CASE UNCHANGED turnVars
  BY <1>1 DEF turnVars, TurnInv, TurnTypeOK, InOrder, OutlivedCounted, Outlived, Live,
     StepsEarned, Overdraft, InFlight, VerdictEarned, Structured
<1>2. CASE TurnNext
  <2>1. VerdictsKept
    BY <1>2, EveryStep
  <2>2. PICK t \in Turns : Starts(t) \/ Continues(t)
    BY <1>2, EveryStep
  <2>3. TurnTypeOK' /\ InOrder' /\ StepsEarned' /\ OutlivedCounted' /\ Overdraft'
    BY <2>1, <2>2, TypeKept, OrderKept, OutlivedKept, OverdraftKept
  <2>4. VerdictEarned'
    BY <2>1 DEF TurnInv, VerdictEarned, VerdictsKept
  <2>5. QED
    BY <2>3, <2>4 DEF TurnInv
<1>3. QED
  BY <1>1, <1>2

LEMMA TurnInvHolds == TurnSpec => []TurnInv
<1>1. TurnInv /\ [TurnNext]_turnVars => TurnInv'
  BY TurnInvStep
<1>2. QED
  BY TurnInvInit, <1>1, PTL DEF TurnSpec

\* The attempts of a batch keep their types: no loop asks past its rounds.
THEOREM TurnTypeCorrect == TurnSpec => []TurnTypeOK
<1>1. TurnInv => TurnTypeOK
  BY DEF TurnInv
<1>2. QED
  BY <1>1, TurnInvHolds, PTL

\* Whatever the nodes, the attempts and the answers: what an execution records
\* stays below its budget and one answer for each node and for each attempt that
\* outlived its lease.
THEOREM OverdraftBounded == TurnSpec => []Overdraft
<1>1. TurnInv => Overdraft
  BY DEF TurnInv
<1>2. QED
  BY <1>1, TurnInvHolds, PTL

\* A node is COMPLETED, and its run told so, only by a valid answer or a
\* mark_complete, and what the run was told stays true, however many attempts
\* that nobody hears still write.
THEOREM VerdictsEarned == TurnSpec => []VerdictEarned
<1>1. TurnInv => VerdictEarned
  BY DEF TurnInv
<1>2. QED
  BY <1>1, TurnInvHolds, PTL

-----------------------------------------------------------------------------
(* All parts together *)

\* Each part's invariant; no step of one part touches another.
PartsInv == SeamTypeOK /\ RouterInv /\ ContextInv /\ TurnInv /\ SandboxInv /\ ViewInv

LEMMA PartsBegin == Init => PartsInv
  BY SeamTypeInit, RouterBegins, ContextBegins, TurnInvInit, SandboxBegins, ViewBegins
  DEF Init, PartsInv

LEMMA OnePartMoves ==
  [Next]_vars => /\ [SeamNext]_seamVars
                 /\ [RouterNext]_routerVars
                 /\ [ContextNext]_contextVars
                 /\ [TurnNext]_turnVars
                 /\ [SandboxNext]_sandboxVars
                 /\ [ViewNext]_viewVars
<1>1. UNCHANGED vars => /\ UNCHANGED seamVars /\ UNCHANGED routerVars
                        /\ UNCHANGED contextVars /\ UNCHANGED turnVars
                        /\ UNCHANGED sandboxVars /\ UNCHANGED viewVars
  BY DEF vars
<1>2. UNCHANGED <<pollingVars, editorVars>> => UNCHANGED viewVars
  BY DEF viewVars
<1>3. PollingNext /\ UNCHANGED editorVars => ViewNext
  BY DEF ViewNext
<1>4. EditorNext /\ UNCHANGED pollingVars => ViewNext
  BY DEF ViewNext
<1>5. QED
  BY <1>1, <1>2, <1>3, <1>4 DEF Next

LEMMA PartsStep == PartsInv /\ [Next]_vars => PartsInv'
<1>1. TurnInv /\ [TurnNext]_turnVars => TurnInv'
  BY TurnInvStep
<1>2. QED
  BY <1>1, OnePartMoves, SeamTypeNext, RouterSteps, ContextSteps, SandboxSteps, ViewSteps
  DEF PartsInv

\* The rows, the breakers, the selections, the attempts, the pods and the page
\* hold only what the code allows, whichever part a behaviour is of and whatever
\* the models, windows, nodes, sandboxes and files.
THEOREM PartsTypeCorrect == Spec => []PartsTypeOK
<1>1. PartsInv => PartsTypeOK
  BY RouterInvImplies DEF PartsInv, PartsTypeOK, ContextInv, TurnInv, SandboxInv, ViewInv
<1>2. QED
  BY PartsBegin, PartsStep, <1>1, PTL DEF Spec

\* A behaviour of the parts together is a behaviour of each of them, fairness
\* included: every theorem about a part holds of what is checked (the router,
\* the selection, a verification and a page each keep state of their own).
THEOREM PartsAreThemselves ==
  Spec => SeamSpec /\ RouterSpec /\ ContextSpec /\ TurnSpec /\ SandboxSpec /\ ViewSpec
<1>1. Init => SeamInit /\ RouterInit /\ ContextInit /\ TurnInit /\ SandboxInit /\ ViewInit
  BY DEF Init
<1>2. QED
  BY <1>1, OnePartMoves, PTL
  DEF Spec, SeamSpec, RouterSpec, ContextSpec, TurnSpec, SandboxSpec, ViewSpec
=============================================================================
