------------------------------ MODULE ModelRouter ------------------------------
(***************************************************************************)
(* Which model answers a request.  A request is routed once, over the      *)
(* ordered candidates and what is known of them at that moment; then it    *)
(* walks the eligible ones, retrying each, while every answer and every    *)
(* failure of any request moves the breaker of its provider.  Requests of  *)
(* one process interleave at their awaits; a restart forgets the breakers  *)
(* and the requests, and may come with other settings.                     *)
(*                                                                         *)
(* A model is its provider and a number, 1 for the model the environment   *)
(* configures.  A provider's window is what it leaves of a prompt, after   *)
(* output and safety.  Time is what is left of each cooldown, in ticks.    *)
(***************************************************************************)
EXTENDS Naturals, Sequences, SequencesExt

CONSTANTS
    Requests,          \* bound: model requests at a time
    RouterSettings,    \* the environments a process is started with
    PromptLimit,       \* of each provider, the longest prompt it takes
    PromptSizes,       \* estimated prompt tokens
    FailureThreshold,  \* MODEL_CIRCUIT_FAILURES
    Cooldown,          \* MODEL_CIRCUIT_COOLDOWN_MS, in ticks
    MaxAttempts        \* MODEL_MAX_ATTEMPTS

Providers == {"ollama", "openrouter", "runanywhere"}
Catalog == <<<<"ollama", 1>>, <<"openrouter", 1>>, <<"runanywhere", 1>>>>
NoModel == <<"none", 0>>
NoProvider == "none"

ASSUME RouterAssumption ==
    /\ FailureThreshold \in Nat \ {0} /\ Cooldown \in Nat \ {0}
    /\ MaxAttempts \in Nat \ {0}
    /\ PromptLimit \in [Providers -> Nat] /\ PromptSizes \subseteq Nat
    /\ \A s \in RouterSettings : s.fallbacks \in Seq(STRING \X Nat)

VARIABLES
    setting,           \* the environment of the process
    health,            \* of each provider, its failures and what is left of its cooldown
    request,           \* where each request is
    vector             \* the cached vector of one text: by identity, who made it

routerVars == <<setting, health, request, vector>>

Models == ToSet(Catalog) \union {NoModel}
            \union UNION {ToSet(s.fallbacks) \union {s.preferred} : s \in RouterSettings}

Needs == [embed : BOOLEAN, fallback : BOOLEAN, prompt : PromptSizes \union {0}]
NewRouted == [step |-> "new"]

RouterTypeOK ==
    /\ setting \in RouterSettings
    /\ health \in [Providers -> [failures : 0 .. FailureThreshold, left : 0 .. Cooldown]]
    /\ vector \in [Providers -> Providers \union {NoProvider}]
    /\ \A q \in Requests :
        \/ request[q] = NewRouted
        \/ /\ request[q].step \in {"calling", "delaying", "unavailable"}
           /\ request[q].need \in Needs
           /\ ToSet(request[q].rest) \union ToSet(request[q].route) \subseteq Models
           /\ request[q].attempt \in 0 .. MaxAttempts
           /\ request[q].calls \in [Models -> 0 .. MaxAttempts]
           /\ request[q].barred \subseteq Providers

RouterInit ==
    /\ setting \in RouterSettings
    /\ health = [p \in Providers |-> [failures |-> 0, left |-> 0]]
    /\ request = [q \in Requests |-> NewRouted]
    /\ vector = [p \in Providers |-> NoProvider]

-----------------------------------------------------------------------------
(* The catalog *)

Configured(p) == p = "ollama" \/ p \in setting.keys
IsLocal(p) == p = "ollama" /\ setting.ollamaLocal
Embeds(p) == p # "runanywhere"

\* selectDefaultProviderId: under MODEL_LOCAL_ONLY a local provider, or none.
DefaultProvider ==
    IF ~setting.localOnly \/ IsLocal(setting.default) THEN setting.default
    ELSE IF IsLocal("ollama") THEN "ollama" ELSE NoProvider

\* getEmbeddingIdentity: under whose name a vector is cached.
Identity == IF DefaultProvider # NoProvider /\ Embeds(DefaultProvider)
            THEN DefaultProvider ELSE NoProvider

-----------------------------------------------------------------------------
(* The breakers *)

Available(p) == health[p].left = 0

\* recordProviderFailure.
WithFailure(h) ==
    IF h.failures + 1 >= FailureThreshold
    THEN [failures |-> FailureThreshold, left |-> Cooldown]
    ELSE [h EXCEPT !.failures = @ + 1]

RecordSuccess(p) == health' = [health EXCEPT ![p] = [failures |-> 0, left |-> 0]]
RecordFailure(p) == health' = [health EXCEPT ![p] = WithFailure(@)]

-----------------------------------------------------------------------------
(* routeModel *)

\* In their order, the first of each of ids that is in fit.
Taking(fit, taken, m) == IF m \in fit \ ToSet(taken) THEN Append(taken, m) ELSE taken

Firsts(ids, fit) ==
    LET taken[n \in 0 .. Len(ids)] ==
            IF n = 0 THEN <<>> ELSE Taking(fit, taken[n - 1], ids[n])
    IN  taken[Len(ids)]

Dedupe(ids) == Firsts(ids, ToSet(ids))

\* orderedCandidateIds: an explicit or profile model, the fallback list, the
\* default, the catalog.
Candidates ==
    Dedupe((IF setting.preferred = NoModel THEN <<>> ELSE <<setting.preferred>>)
           \o setting.fallbacks \o <<<<setting.default, 1>>>> \o Catalog)

\* Mutant: the local-only rule is left to the choice of the default.
EligibleAnywhere(m, need) ==
    /\ m[1] \in Providers
    /\ Configured(m[1])
    /\ need.embed => Embeds(m[1])
    /\ Available(m[1])
    /\ setting.preferred # NoModel /\ ~need.fallback => m = setting.preferred
    /\ need.prompt <= PromptLimit[m[1]]

\* evaluateCandidate: the reasons against a model, in the order of the code.
Eligible(m, need) ==
    /\ m[1] \in Providers                          \* not_found
    /\ setting.localOnly => IsLocal(m[1])          \* local_only
    /\ Configured(m[1])                            \* unconfigured
    /\ need.embed => Embeds(m[1])                  \* capability
    /\ Available(m[1])                             \* circuit_open
    /\ setting.preferred # NoModel /\ ~need.fallback =>
        m = setting.preferred                      \* fallback_disabled
    /\ need.prompt <= PromptLimit[m[1]]            \* context_window

Route(need) == Firsts(Candidates, {m \in ToSet(Candidates) : Eligible(m, need)})

-----------------------------------------------------------------------------
(* callRoutedChat and callRoutedEmbeddings *)

\* The request makes its next call, of the first model of rest.
Calls(r) == [r EXCEPT !.step = "calling", !.attempt = @ + 1,
                      !.calls[Head(r.rest)] = @ + 1]

Routed(need, route) ==
    Calls([step |-> "calling", need |-> need, route |-> route, rest |-> route,
           attempt |-> 0, calls |-> [m \in Models |-> 0],
           barred |-> {p \in Providers :
                        ~Available(p) \/ (setting.localOnly /\ ~IsLocal(p))}])

\* With no eligible model the request is refused, and changes nothing.
Begins(q, need) ==
    LET route == Route(need)
    IN  /\ request[q].step = "new"
        /\ route # <<>>
        /\ request' = [request EXCEPT ![q] = Routed(need, route)]
        /\ UNCHANGED <<setting, health, vector>>

ChatBegins(q, fallback, prompt) ==
    Begins(q, [embed |-> FALSE, fallback |-> fallback, prompt |-> prompt])

\* getEmbeddingsWithCache: a cached vector of the identity is the answer; without
\* a provider to take the identity of, the call is refused.
EmbedBegins(q) ==
    /\ DefaultProvider # NoProvider
    /\ Identity # NoProvider => vector[Identity] = NoProvider
    /\ Begins(q, [embed |-> TRUE, fallback |-> TRUE, prompt |-> 0])

\* The provider answers: its breaker closes, however long ago the call began.
Answers(q) ==
    LET p == Head(request[q].rest)[1]
    IN  /\ request[q].step = "calling"
        /\ RecordSuccess(p)
        /\ request' = [request EXCEPT ![q] = NewRouted]
        /\ vector' = IF request[q].need.embed /\ Identity # NoProvider
                     THEN [vector EXCEPT ![Identity] = p] ELSE vector
        /\ UNCHANGED setting

\* Mutant: a failure that is not retried ends the walk.
StopsAtFirst(r) == [r EXCEPT !.step = "unavailable"]

\* The model is given up: the next one is called, if fallback is allowed.
GivesUp(r) ==
    IF r.need.fallback /\ Len(r.rest) > 1
    THEN Calls([r EXCEPT !.rest = Tail(r.rest), !.attempt = 0])
    ELSE [r EXCEPT !.step = "unavailable"]

\* Mutant: one attempt more than the limit.
RetriesOnceMore(r) == r.attempt <= MaxAttempts

RetriesLeft(r) == r.attempt < MaxAttempts

\* What the call of an adapter may come to but an answer: its key is refused or
\* not there, fetch fails or is aborted at its time-out, the answer is no JSON,
\* has an error in it or no vector.  classifyProviderError knows them by words
\* and numbers in the message.
CallErrors == {"auth", "rate_limit", "timeout", "transport", "invalid_request",
               "server", "unknown"}

Retryable == {"rate_limit", "timeout", "transport", "server"}

\* The provider fails, or does not answer in time.
Fails(q, error) ==
    /\ request[q].step = "calling"
    /\ RecordFailure(Head(request[q].rest)[1])
    /\ request' = [request EXCEPT ![q] =
            IF error \in Retryable /\ RetriesLeft(@)
            THEN [@ EXCEPT !.step = "delaying"] ELSE GivesUp(@)]
    /\ UNCHANGED <<setting, vector>>

\* The breakers are not looked at again.
Retries(q) ==
    /\ request[q].step = "delaying"
    /\ request' = [request EXCEPT ![q] = Calls(@)]
    /\ UNCHANGED <<setting, health, vector>>

\* The caller is told, and may ask again.
Returns(q) ==
    /\ request[q].step = "unavailable"
    /\ request' = [request EXCEPT ![q] = NewRouted]
    /\ UNCHANGED <<setting, health, vector>>

-----------------------------------------------------------------------------

CooldownPasses ==
    /\ \E p \in Providers : health[p].left > 0
    /\ health' = [p \in Providers |->
                    [health[p] EXCEPT !.left = IF @ > 0 THEN @ - 1 ELSE 0]]
    /\ UNCHANGED <<setting, request, vector>>

\* The process ends; the cached vectors are in the database.
RouterRestarts ==
    /\ setting' \in RouterSettings
    /\ health' = [p \in Providers |-> [failures |-> 0, left |-> 0]]
    /\ request' = [q \in Requests |-> NewRouted]
    /\ UNCHANGED vector

RequestMoves(q) ==
    \/ Answers(q)
    \/ \E error \in CallErrors : Fails(q, error)
    \/ Retries(q)

RouterNext ==
    \/ CooldownPasses
    \/ RouterRestarts
    \/ \E q \in Requests :
        \/ \E fallback \in BOOLEAN, prompt \in PromptSizes : ChatBegins(q, fallback, prompt)
        \/ EmbedBegins(q)
        \/ RequestMoves(q)
        \/ Returns(q)

RouterSpec == RouterInit /\ [][RouterNext]_routerVars

-----------------------------------------------------------------------------
(* Properties *)

\* A request fails as "unavailable" only after every model it was routed to had
\* its call (with fallback off, the first alone), and none had more than the
\* limit.  "Fallback never crosses a local-only boundary", and no request calls
\* a provider whose breaker was open when it was routed.  Both hold whatever the
\* categories of the failures, and however other requests move the breakers.
WalkIsWhole ==
    \A q \in Requests : request[q].step # "new" =>
        LET r == request[q]
            due == IF r.need.fallback THEN ToSet(r.route) ELSE {Head(r.route)}
        IN  /\ \A m \in Models : r.calls[m] > 0 =>
                   m \in due /\ r.calls[m] <= MaxAttempts /\ m[1] \notin r.barred
            /\ r.step = "unavailable" => \A m \in due : r.calls[m] > 0

\* "A provider switch, or a model change cannot reuse a stale vector"
\* (getEmbeddingsWithCache): a vector cached under a provider's identity is of
\* that provider.
VectorOfIdentity == \A p \in Providers : vector[p] \in {NoProvider, p}
=============================================================================
