------------------------------- MODULE AgentTurn -------------------------------
(***************************************************************************)
(* The turns of the nodes of one execution.  An attempt of a node asks a   *)
(* model, round after round, within a bound of rounds, of time and of the  *)
(* tokens that all nodes of the execution share; a structured node needs a *)
(* valid answer, a tool node a mark_complete.  The nodes of a batch run at *)
(* once, and an attempt whose lease ran out goes on beside its retry.      *)
(*                                                                         *)
(* What a model answers is its tokens and whether it is valid, or what its *)
(* calls are.  The clock may be over whenever the code looks at it.        *)
(***************************************************************************)
EXTENDS Naturals, Sequences, FiniteSets

CONSTANTS
    StructuredNodes, ToolNodes,   \* the nodes of the batch, by output mode
    MaxStructured,                \* MAX_STRUCTURED_ATTEMPTS
    MaxIterations,                \* NODE_MAX_ITERATIONS
    TurnAttempts,                 \* NODE_ACTIVITY_ATTEMPTS
    TokenBudget,                  \* RUN_TOKEN_BUDGET
    MaxUsage,                     \* bound: tokens of one answer
    MaxCalls,                     \* bound: tool calls of one answer
    MaxOverlaps                   \* bound: attempts that outlive their lease

TurnNodes == StructuredNodes \union ToolNodes
TurnsOf(n) == {n} \X (1 .. TurnAttempts)
Turns == TurnNodes \X (1 .. TurnAttempts)

ASSUME TurnAssumption ==
    /\ IsFiniteSet(TurnNodes) /\ StructuredNodes \intersect ToolNodes = {}
    /\ MaxStructured \in Nat \ {0} /\ MaxIterations \in Nat \ {0}
    /\ TurnAttempts \in Nat \ {0}
    /\ TokenBudget \in Nat /\ MaxUsage \in Nat /\ MaxCalls \in Nat /\ MaxOverlaps \in Nat

\* A call the policy does not list or whose arguments cannot be read; one that
\* a tool answers; and mark_complete.
CallKinds == {"refused", "runs", "completes"}
CallLists == UNION {[1 .. k -> CallKinds] : k \in 0 .. MaxCalls}

VARIABLES
    nodeRow,     \* Node.status
    usage,       \* sum of the model.usage events of the execution
    turn,        \* of each attempt of a node, where it is
    verdict,     \* of each node, what the workflow was answered
    earned,      \* history: nodes with a valid answer or a mark_complete
    overlaps     \* attempts that outlived their lease

turnVars == <<nodeRow, usage, turn, verdict, earned, overlaps>>

Idle == [step |-> "absent", rounds |-> 0, calls |-> <<>>]
Live(t) == turn[t].step \notin {"absent", "over"}
InFlight == {t \in Turns : turn[t].step = "asked"}

TurnTypeOK ==
    /\ nodeRow \in [TurnNodes -> {"CREATED", "RUNNING", "COMPLETED", "INCOMPLETE"}]
    /\ usage \in Nat
    /\ turn \in [Turns ->
        [step : {"absent", "ready", "asked", "acting", "finishing", "spent", "over"},
         rounds : 0 .. MaxStructured + MaxIterations, calls : CallLists]]
    /\ verdict \in [TurnNodes -> {"none", "completed", "incomplete", "failed"}]
    /\ earned \subseteq TurnNodes
    /\ overlaps \in 0 .. MaxOverlaps

TurnInit ==
    /\ nodeRow = [n \in TurnNodes |-> "CREATED"]
    /\ usage = 0
    /\ turn = [t \in Turns |-> Idle]
    /\ verdict = [n \in TurnNodes |-> "none"]
    /\ earned = {}
    /\ overlaps = 0

\* Temporal listens to the last attempt it began.
Heard(t) == \A u \in TurnsOf(t[1]) : u[2] > t[2] => turn[u].step = "absent"
Answer(t, v) == verdict' = IF Heard(t) THEN [verdict EXCEPT ![t[1]] = v] ELSE verdict
Goes(t, step) == turn' = [turn EXCEPT ![t].step = step]

\* The loop is left, and its locals with it.
Leaves(t, step) == turn' = [turn EXCEPT ![t] = [Idle EXCEPT !.step = step]]

\* runHcrNodeActivity: what isHcrDomainFailure knows is not tried again, what
\* it does not know is, while attempts are left.
Throws(t, domain) ==
    /\ Leaves(t, "over")
    /\ IF domain \/ t[2] = TurnAttempts THEN Answer(t, "failed") ELSE UNCHANGED verdict
    /\ UNCHANGED <<nodeRow, usage, earned, overlaps>>

-----------------------------------------------------------------------------
(* executeNode *)

\* The attempt before has ended without an answer, or is taken for dead.
MayBegin(n, k) ==
    /\ turn[<<n, k>>].step = "absent"
    /\ verdict[n] = "none"
    /\ k > 1 => turn[<<n, k - 1>>].step # "absent"

TurnBegins(n, k) ==
    /\ MayBegin(n, k)
    /\ k > 1 => turn[<<n, k - 1>>].step = "over"
    /\ nodeRow' = [nodeRow EXCEPT ![n] = IF @ = "CREATED" THEN "RUNNING" ELSE @]
    /\ Goes(<<n, k>>, "ready")
    /\ UNCHANGED <<usage, verdict, earned, overlaps>>

\* The lease of the attempt before ran out; it does not know.
LeaseRunsOut(n, k) ==
    /\ MayBegin(n, k)
    /\ k > 1 /\ Live(<<n, k - 1>>)
    /\ overlaps < MaxOverlaps
    /\ overlaps' = overlaps + 1
    /\ nodeRow' = [nodeRow EXCEPT ![n] = IF @ = "CREATED" THEN "RUNNING" ELSE @]
    /\ Goes(<<n, k>>, "ready")
    /\ UNCHANGED <<usage, verdict, earned>>

\* routeModel before any write: no model is eligible.
TurnRefused(n, k) ==
    /\ MayBegin(n, k)
    /\ k > 1 => turn[<<n, k - 1>>].step = "over"
    /\ Throws(<<n, k>>, TRUE)

-----------------------------------------------------------------------------
(* runAgentTurn *)

Structured(t) == t[1] \in StructuredNodes
RoundsLeft(t) == Structured(t) \/ turn[t].rounds < MaxIterations

\* Mutant: a budget that is used up exactly lets one more call through.
WithinBudgetOrAt == TokenBudget = 0 \/ usage <= TokenBudget

\* assertModelTokenBudget: zero turns the budget off.
WithinBudget == TokenBudget = 0 \/ usage < TokenBudget

\* Mutant: a round that led to nothing does not count.
SameRound(rounds) == rounds

NextRound(rounds) == rounds + 1

Asks(t) ==
    /\ turn[t].step = "ready" /\ RoundsLeft(t)
    /\ IF WithinBudget
       THEN /\ turn' = [turn EXCEPT ![t].step = "asked", ![t].rounds = NextRound(@)]
            /\ UNCHANGED <<nodeRow, usage, verdict, earned, overlaps>>
       ELSE Throws(t, TRUE)

\* The tool turn has no round left, or its time is over.
RunsOut(t) ==
    /\ turn[t].step = "ready" /\ ~Structured(t) /\ turn[t].rounds > 0
    /\ Leaves(t, "spent")
    /\ UNCHANGED <<nodeRow, usage, verdict, earned, overlaps>>

\* Every answer's usage is recorded before it is looked at; a provider that
\* reports none counts for nothing.
Reports == \E tokens \in 0 .. MaxUsage : usage' = usage + tokens

AnsweredValid(t) ==
    /\ turn[t].step = "asked" /\ Structured(t)
    /\ Reports
    /\ earned' = earned \union {t[1]}
    /\ Leaves(t, "finishing")
    /\ UNCHANGED <<nodeRow, verdict, overlaps>>

MayAskAgain(t) == turn[t].rounds < MaxStructured

AnsweredInvalid(t) ==
    /\ turn[t].step = "asked" /\ Structured(t)
    /\ Reports
    /\ IF MayAskAgain(t)
       THEN /\ Goes(t, "ready")
            /\ UNCHANGED verdict
       ELSE /\ Leaves(t, "over")
            /\ Answer(t, "failed")
    /\ UNCHANGED <<nodeRow, earned, overlaps>>

AnsweredWithCalls(t) ==
    /\ turn[t].step = "asked" /\ ~Structured(t)
    /\ Reports
    /\ \E calls \in CallLists \ {<<>>} :
        turn' = [turn EXCEPT ![t].step = "acting", ![t].calls = calls]
    /\ UNCHANGED <<nodeRow, verdict, earned, overlaps>>

\* Mutant: a turn that stops by itself has done its work.
TakenAsDone(t) == Leaves(t, "finishing") /\ UNCHANGED verdict

Stopped(t) == Leaves(t, "over") /\ Answer(t, "failed")

\* An answer without a call: "stopped without calling mark_complete".
AnsweredWithText(t) ==
    /\ turn[t].step = "asked" /\ ~Structured(t)
    /\ Reports
    /\ Stopped(t)
    /\ UNCHANGED <<nodeRow, earned, overlaps>>

\* callRoutedChat throws: no model is left, or none was eligible.
CallFails(t) ==
    /\ turn[t].step = "asked"
    /\ \E domain \in BOOLEAN : Throws(t, domain)

\* markComplete: the node first, then its event; the turn is over.
MarksComplete(t) ==
    /\ nodeRow' = [nodeRow EXCEPT ![t[1]] = "COMPLETED"]
    /\ earned' = earned \union {t[1]}
    /\ Leaves(t, "finishing")

\* The calls run in their order; after mark_complete none does.
Acts(t) ==
    /\ turn[t].step = "acting"
    /\ IF turn[t].calls = <<>>
       THEN /\ Goes(t, "ready")
            /\ UNCHANGED <<nodeRow, earned>>
       ELSE IF Head(turn[t].calls) = "completes"
       THEN MarksComplete(t)
       ELSE /\ turn' = [turn EXCEPT ![t].calls = Tail(@)]
            /\ UNCHANGED <<nodeRow, earned>>
    /\ UNCHANGED <<usage, verdict, overlaps>>

-----------------------------------------------------------------------------
(* The end of executeNode *)

\* The artifact of a structured node, then markNodeCompleted.
Finishes(t) ==
    /\ turn[t].step = "finishing"
    /\ nodeRow' = [nodeRow EXCEPT ![t[1]] = "COMPLETED"]
    /\ Leaves(t, "over")
    /\ Answer(t, "completed")
    /\ UNCHANGED <<usage, earned, overlaps>>

\* Mutant: the budget's verdict overwrites what another attempt completed.
StoppedAnyway(status) == "INCOMPLETE"

\* markNodeIncomplete.
Incomplete(status) == IF status = "COMPLETED" THEN status ELSE "INCOMPLETE"

Stops(t) ==
    /\ turn[t].step = "spent"
    /\ nodeRow' = [nodeRow EXCEPT ![t[1]] = Incomplete(@)]
    /\ Leaves(t, "over")
    /\ Answer(t, "incomplete")
    /\ UNCHANGED <<usage, earned, overlaps>>

\* The worker dies, or a write throws: what the model used may go unrecorded.
TurnDies(t) == Live(t) /\ Throws(t, FALSE)

TurnMoves(t) ==
    /\ Live(t)
    /\ \/ Asks(t) \/ RunsOut(t) \/ CallFails(t) \/ Acts(t)
       \/ AnsweredValid(t) \/ AnsweredInvalid(t)
       \/ AnsweredWithCalls(t) \/ AnsweredWithText(t)
       \/ Finishes(t) \/ Stops(t)

TurnNext ==
    \/ \E n \in TurnNodes, k \in 1 .. TurnAttempts :
        TurnBegins(n, k) \/ LeaseRunsOut(n, k) \/ TurnRefused(n, k)
    \/ \E t \in Turns : TurnMoves(t) \/ TurnDies(t)

\* Calls have time-outs, and Temporal starts the next attempt.
TurnFairness ==
    /\ \A t \in Turns : WF_turnVars(TurnMoves(t))
    /\ \A n \in TurnNodes, k \in 2 .. TurnAttempts : WF_turnVars(TurnBegins(n, k))

TurnSpec == TurnInit /\ [][TurnNext]_turnVars /\ TurnFairness

-----------------------------------------------------------------------------
(* Properties *)

\* The "durable usage gate" reads what is recorded before each call: what an
\* execution records stays below its budget and one answer for each attempt
\* that may be in flight at once, however its nodes interleave.
Overdraft ==
    TokenBudget > 0 =>
        usage + MaxUsage * Cardinality(InFlight)
            < TokenBudget + MaxUsage * (Cardinality(TurnNodes) + overlaps)

\* A node is COMPLETED, and its run told so, only by a valid answer or a
\* mark_complete of one of its attempts; what was told stays true whatever
\* attempts that nobody hears still write.
VerdictEarned ==
    \A n \in TurnNodes :
        /\ nodeRow[n] = "COMPLETED" => n \in earned
        /\ verdict[n] = "completed" => nodeRow[n] = "COMPLETED"
        /\ verdict[n] = "incomplete" => nodeRow[n] \in {"INCOMPLETE", "COMPLETED"}

\* Every node that was begun has its answer in the end, whatever its models say
\* and however often its attempts die: again and again, none that was begun is
\* without one.
NodesAnswered ==
    []<>(\A n \in TurnNodes : turn[<<n, 1>>].step # "absent" => verdict[n] # "none")
=============================================================================
