----------------------------- MODULE ContextEngine -----------------------------
(***************************************************************************)
(* What a model is shown.  Before each call of a tool turn the context is  *)
(* built anew from the conversation, from what the retrievers find and     *)
(* from the history of the turn, and cut to a token budget: what is        *)
(* required is always taken, the rest in order while it fits.              *)
(*                                                                         *)
(* A source is its section, its identity and its tokens; its wording is    *)
(* left out.  The policy is one that asks for every source; a source that  *)
(* is off retrieves nothing.  Tool calls have the identity of the step and *)
(* the place they come from, and the id the adapter gives them.            *)
(***************************************************************************)
EXTENDS Naturals, Sequences, FiniteSets, SequencesExt

CONSTANTS
    Limits,         \* bound: token budgets, after resolveLimit
    Required,       \* bound: tokens of framing and consumed artifacts, in order
    MessageKinds,   \* bound: what a BUILD message may be
    Retrievals,     \* bound: what the project may hold of relevant sources
    SourceLimits,   \* how many of each are retrieved
    StepKinds,      \* bound: what a step of the tool turn may be
    MaxMessages,    \* bound: messages of the conversation
    MaxSteps,       \* bound: steps of the turn
    HistoryLimit,   \* DEFAULT_HISTORY_LIMIT
    MaxFacts,       \* MAX_UNRESOLVED_QUESTIONS, MAX_PENDING_APPROVALS
    ScratchWindow   \* scratchpad steps a context may show

\* What a retrieval finds, of each kind; a row has its own id.
FoundItems == [id : Nat, tokens : Nat]
FoundKinds == {"reports", "failures", "matches", "entries", "summary", "files", "tree"}
OwnIds(s) == \A i, j \in DOMAIN s : i # j => s[i].id # s[j].id

ASSUME ContextAssumption ==
    /\ MessageKinds \subseteq
        [user : BOOLEAN, asks : BOOLEAN, approves : BOOLEAN, tokens : Nat]
    /\ Limits \subseteq Nat /\ HistoryLimit \in Nat \ {0}
    /\ MaxFacts \in Nat \ {0} /\ ScratchWindow \in Nat \ {0}
    /\ SourceLimits \in [{"reports", "failures", "memories", "files"} -> Nat \ {0}]
    /\ StepKinds \subseteq [tokens : Nat, results : Seq([tokens : Nat, ran : BOOLEAN])]
    /\ \A kind \in StepKinds : kind.results # <<>>
    /\ Required \in Seq(FoundItems) /\ OwnIds(Required)
    /\ Retrievals \subseteq [FoundKinds -> Seq(FoundItems)]
    /\ \A found \in Retrievals :
        OwnIds(found.reports) /\ OwnIds(found.failures) /\ OwnIds(found.summary) /\ OwnIds(found.tree)
    /\ MaxMessages \in Nat

VARIABLES
    limit,          \* CONTEXT_TOKEN_BUDGET of the deployment
    adapter,        \* who names the tool calls
    conversation,   \* the BUILD messages, oldest first
    toolHistory,    \* of the turn, oldest first
    scratchpad,     \* tokens of the turn's steps, oldest first
    embedded,       \* the turn has a vector of its prompt
    context         \* what the coming model call is given

contextVars == <<limit, adapter, conversation, toolHistory, scratchpad, embedded, context>>

NoContext == [built |-> FALSE]

ContextInit ==
    /\ limit \in Limits
    /\ adapter \in {"openrouter", "ollama"}
    /\ conversation = <<>>
    /\ toolHistory = <<>>
    /\ scratchpad = <<>>
    /\ embedded \in BOOLEAN
    /\ context = NoContext

LastOf(s, n) == IF Len(s) <= n THEN s ELSE SubSeq(s, Len(s) - n + 1, Len(s))

Tokens(s) ==
    LET sum[n \in 0 .. Len(s)] == IF n = 0 THEN 0 ELSE sum[n - 1] + s[n].tokens
    IN  sum[Len(s)]

\* What stands at the places, in order.
Picked(s, places) ==
    LET picked[n \in 0 .. Len(s)] ==
            IF n = 0 THEN <<>>
            ELSE IF n \in places THEN Append(picked[n - 1], s[n])
            ELSE picked[n - 1]
    IN  picked[Len(s)]

Ids(s) == {s[i].id : i \in DOMAIN s}
OfSection(s, section) == Picked(s, {i \in DOMAIN s : s[i].section = section})
Sources(section, s, required) ==
    [i \in DOMAIN s |-> [section |-> section, id |-> s[i].id,
                         tokens |-> s[i].tokens, required |-> required]]

-----------------------------------------------------------------------------
(* Retrieval *)

\* retrieveMessageHistory: the newest messages, in their order.
Window == LastOf(conversation, HistoryLimit)

\* extractConversationFacts: the earliest user message, the latest that ask,
\* the latest that speak of approval; a message may be there twice.
Facts(ms) ==
    LET users == Picked(ms, {i \in DOMAIN ms : ms[i].user})
        others == IF users = <<>> THEN <<>> ELSE Tail(users)
    IN  (IF users = <<>> THEN <<>> ELSE <<Head(users)>>)
        \o LastOf(Picked(others, {i \in DOMAIN others : others[i].asks}), MaxFacts)
        \o LastOf(Picked(others, {i \in DOMAIN others : others[i].approves}), MaxFacts)

FirstOf(s, n) == IF Len(s) <= n THEN s ELSE SubSeq(s, 1, n)

\* dedupeByPath: the first of each is taken.
Distinct(s) == Picked(s, {i \in DOMAIN s : \A j \in 1 .. i - 1 : s[j].id # s[i].id})

\* Without a vector nothing is near.
Nearest(s) == IF embedded THEN s ELSE <<>>

\* The newest reports of the project, stale or not, the newest failed or stopped
\* nodes of its executions, and the files nearest to the prompt.
LatestReports(found) == FirstOf(found.reports, SourceLimits.reports)
PriorFailures(found) == FirstOf(found.failures, SourceLimits.failures)
RelevantFiles(found) == FirstOf(Nearest(found.files), SourceLimits.files)

\* The entries nearest to the prompt, then the others by kind and confidence;
\* before there are any, the summary of mark_complete.
MemoryEntries(found) ==
    LET merged == FirstOf(Distinct(Nearest(found.matches) \o found.entries), SourceLimits.memories)
    IN  IF merged = <<>> THEN found.summary ELSE merged

-----------------------------------------------------------------------------
(* selectContext *)

EmptyMeter == [used |-> 0, overflow |-> FALSE, kept |-> <<>>, dropped |-> <<>>]

\* A required source is taken whatever it costs, another one if it fits; one
\* that does not fit does not end the selection.
Charge(meter, s) ==
    LET used == meter.used + s.tokens
    IN  IF used <= limit \/ s.required
        THEN [meter EXCEPT !.used = used, !.overflow = @ \/ used > limit,
                           !.kept = Append(@, s)]
        ELSE [meter EXCEPT !.dropped = Append(@, s)]

\* Mutant: the facts stay in the history as well.
AllMessages(ms, facts) == ms

\* Pinned messages are in the context already.
HistoryCandidates(ms, facts) == Picked(ms, {i \in DOMAIN ms : ms[i].id \notin Ids(facts)})

\* Mutant: results stay as they are.
KeepOrphans(entries) == entries

\* A result stays only behind a call that has its id.
Pruned(acc, e) ==
    IF e.role = "assistant"
    THEN [calls |-> acc.calls \union ToSet(e.calls), kept |-> Append(acc.kept, e)]
    ELSE IF e.call \in acc.calls THEN [acc EXCEPT !.kept = Append(@, e)] ELSE acc

PruneOrphans(entries) ==
    LET pruned[n \in 0 .. Len(entries)] ==
            IF n = 0 THEN [calls |-> {}, kept |-> <<>>]
            ELSE Pruned(pruned[n - 1], entries[n])
    IN  pruned[Len(entries)].kept

\* The entries whose id is one of ids, in their order.
Chosen(entries, ids) == Picked(entries, {i \in DOMAIN entries : entries[i].id \in ids})

\* In order of operational value; the file tree is one source.
Relevant(found) ==
    Sources("verification", LatestReports(found), FALSE)
    \o Sources("failure", PriorFailures(found), FALSE)
    \o Sources("memory", MemoryEntries(found), FALSE)
    \o Sources("relevant-file", Distinct(RelevantFiles(found)), FALSE)
    \o Sources("tree", found.tree, FALSE)

\* In the order of selectContext; histories are taken newest first.
Ranked(facts, found) ==
    Sources("required", Required, TRUE)
    \o Sources("fact", facts, TRUE)
    \o Relevant(found)
    \o Reverse(Sources("tool", toolHistory, FALSE))
    \o Reverse(Sources("message", HistoryCandidates(Window, facts), FALSE))
    \o Reverse(LastOf(Sources("scratchpad", scratchpad, FALSE), ScratchWindow))

\* The meter after all that is ranked has been offered to it.
Charged(ranked) ==
    LET charged[n \in 0 .. Len(ranked)] ==
            IF n = 0 THEN EmptyMeter ELSE Charge(charged[n - 1], ranked[n])
    IN  charged[Len(ranked)]

KeptTools(meter) ==
    LET kept == Chosen(toolHistory, Ids(OfSection(meter.kept, "tool")))
    IN  IF Len(kept) < Len(toolHistory) THEN PruneOrphans(kept) ELSE kept

-----------------------------------------------------------------------------
(* assembleContext *)

\* What is sent: the scratchpad is the turn's own last steps, and reports and
\* failures have no place in the prompt.
Rendered(meter, tools) ==
    Picked(meter.kept, {i \in DOMAIN meter.kept :
        meter.kept[i].section \notin {"verification", "failure", "tool", "scratchpad"}})
    \o tools
    \o LastOf(scratchpad, ScratchWindow)

\* buildContext, before every call of the turn.
BuildContext ==
    /\ ~context.built
    /\ \E retrieved \in Retrievals :
        LET facts == Facts(Window)
            meter == Charged(Ranked(facts, retrieved))
            tools == KeptTools(meter)
        IN  context' = [built |-> TRUE, facts |-> facts, meter |-> meter, tools |-> tools,
                        sent |-> Tokens(Rendered(meter, tools))]
    /\ UNCHANGED <<limit, adapter, conversation, toolHistory, scratchpad, embedded>>

-----------------------------------------------------------------------------
(* The turn around it *)

\* Adapters name a call by its place in the answer and the tool, or pass the
\* provider's id on.
CallId(step, place) == IF adapter = "ollama" THEN <<0, place>> ELSE <<step, place>>

\* The steps of the turn so far.
StepsTaken == Cardinality({i \in DOMAIN toolHistory : toolHistory[i].role = "assistant"})

\* The answer of the model and the results of its calls; a call that is refused
\* or cannot be parsed has a result and no scratchpad step.
Step(kind) ==
    LET step == StepsTaken + 1
        n == Len(toolHistory)
        calls == [i \in DOMAIN kind.results |-> CallId(step, i)]
    IN  [history |->
            <<[role |-> "assistant", id |-> n + 1, step |-> step, calls |-> calls,
               tokens |-> kind.tokens]>>
            \o [i \in DOMAIN kind.results |->
                    [role |-> "tool", id |-> n + 1 + i, step |-> step, call |-> calls[i],
                     tokens |-> kind.results[i].tokens]],
         ran |-> Picked(kind.results, {i \in DOMAIN kind.results : kind.results[i].ran})]

Iterates ==
    /\ context.built
    /\ StepsTaken < MaxSteps
    /\ \E kind \in StepKinds :
        /\ toolHistory' = toolHistory \o Step(kind).history
        /\ scratchpad' = scratchpad \o
             [i \in DOMAIN Step(kind).ran |-> [id |-> Len(scratchpad) + i, tokens |-> 1]]
    /\ context' = NoContext
    /\ UNCHANGED <<limit, adapter, conversation, embedded>>

\* The turn ends, or its worker does: the history goes with it.  The next one has
\* a vector of its prompt, or does without: no provider makes them, or the call
\* failed.
TurnEnds ==
    /\ context.built
    /\ toolHistory' = <<>>
    /\ scratchpad' = <<>>
    /\ embedded' \in BOOLEAN
    /\ context' = NoContext
    /\ UNCHANGED <<limit, adapter, conversation>>

MessageArrives ==
    /\ Len(conversation) < MaxMessages
    /\ \E kind \in MessageKinds :
        conversation' = Append(conversation,
            [id |-> Len(conversation) + 1, user |-> kind.user, asks |-> kind.asks,
             approves |-> kind.approves, tokens |-> kind.tokens])
    /\ UNCHANGED <<limit, adapter, toolHistory, scratchpad, embedded, context>>

ContextNext == BuildContext \/ Iterates \/ TurnEnds \/ MessageArrives

ContextSpec == ContextInit /\ [][ContextNext]_contextVars

-----------------------------------------------------------------------------
(* Properties *)

\* The history, the scratchpad and the selection are what the code can make of
\* the conversation: identities run from 1 without gaps.
ContextTypeOK ==
    /\ limit \in Limits /\ adapter \in {"openrouter", "ollama"} /\ embedded \in BOOLEAN
    /\ Ids(conversation) = 1 .. Len(conversation) /\ Len(conversation) <= MaxMessages
    /\ Ids(toolHistory) = 1 .. Len(toolHistory)
    /\ Ids(scratchpad) = 1 .. Len(scratchpad)
    /\ context.built =>
        /\ Tokens(context.meter.kept) = context.meter.used
        /\ ToSet(context.facts) \subseteq ToSet(conversation)
        /\ ToSet(context.tools) \subseteq ToSet(toolHistory)

\* "Required sources are charged first and never truncated; everything else is
\* admitted ... until the budget is exhausted": all that is required is
\* selected, the rest only within the limit, nothing twice, and no message of the
\* history that is one of the facts.  What is sent exceeds the limit by no more than the last
\* steps of the scratchpad, which are rendered whether they were selected or not.
SelectionKept ==
    context.built =>
        LET meter == context.meter
            required == Tokens(Required) + Tokens(context.facts)
        IN  /\ Cardinality({i \in DOMAIN meter.kept : meter.kept[i].required})
                    = Len(Required) + Len(context.facts)
            /\ meter.overflow <=> required > limit
            /\ meter.used <= IF meter.overflow THEN required ELSE limit
            /\ \A i, j \in DOMAIN meter.kept :
                   i # j /\ meter.kept[i].id = meter.kept[j].id =>
                       /\ {meter.kept[i].section, meter.kept[j].section} # {"message", "fact"}
                       /\ meter.kept[i].section = meter.kept[j].section
                            => meter.kept[i].section = "fact"
            /\ context.sent <= meter.used + Tokens(LastOf(scratchpad, ScratchWindow))

\* "Sending an orphan tool message is an invalid provider request": each tool
\* result that is sent follows the answer that called for it, whatever the
\* budget dropped between them.  With an adapter that uses the ids of earlier
\* steps again, it follows an answer with that id.
ToolResultsAnswered ==
    context.built =>
        \A j \in DOMAIN context.tools : context.tools[j].role = "tool" =>
            \E i \in 1 .. j - 1 :
                /\ context.tools[i].role = "assistant"
                /\ context.tools[j].call \in ToSet(context.tools[i].calls)
                /\ adapter = "openrouter" => context.tools[i].step = context.tools[j].step

=============================================================================
