------------------------------- MODULE MCParts -------------------------------
(***************************************************************************)
(* The parts of one node's work, the rows it is recorded in and the page   *)
(* that shows them, in one run: each behaviour is a behaviour of one part, *)
(* the others stay in their initial states.  The page's polling and its    *)
(* file editor share no variable and are parts of their own.               *)
(***************************************************************************)
EXTENDS StateSeam, ModelRouter, ContextEngine, AgentTurn, Sandbox, WorkspaceView

CONSTANT Checked   \* the parts a run looks at

VARIABLE part

\* Three deployments: a local model with one of the cloud behind it; the same
\* under MODEL_LOCAL_ONLY with a default that is not local; and two clouds, where
\* the default has no embeddings.
Cloud == [localOnly |-> FALSE, ollamaLocal |-> TRUE, keys |-> {"openrouter"},
          default |-> "ollama", preferred |-> <<"openrouter", 2>>, fallbacks |-> <<>>]
LocalOnly == [Cloud EXCEPT !.localOnly = TRUE, !.default = "openrouter"]
NoVectors == [Cloud EXCEPT !.keys = {"runanywhere"}, !.default = "runanywhere",
                           !.preferred = NoModel, !.fallbacks = <<<<"runanywhere", 1>>>>]
\* The walks of requests do not depend on what the vectors are.
Walks == {Cloud, LocalOnly}
Embeddings == {Cloud, NoVectors}
PromptLimits == [p \in Providers |-> IF p = "ollama" THEN 1 ELSE 2]

Framing == <<[id |-> 1, tokens |-> 1], [id |-> 2, tokens |-> 1]>>
Messages == {[user |-> TRUE, asks |-> FALSE, approves |-> FALSE, tokens |-> 2],
             [user |-> TRUE, asks |-> TRUE, approves |-> TRUE, tokens |-> 1],
             [user |-> FALSE, asks |-> FALSE, approves |-> FALSE, tokens |-> 1]}
Item(i) == [id |-> i, tokens |-> 1]
NothingFound == [reports |-> <<>>, failures |-> <<>>, matches |-> <<>>, entries |-> <<>>,
                 summary |-> <<>>, files |-> <<>>, tree |-> <<>>]
Found == {[NothingFound EXCEPT !.summary = <<Item(0)>>],
          [NothingFound EXCEPT !.reports = <<Item(1), Item(2)>>,
                               !.matches = <<Item(2)>>, !.entries = <<Item(1), Item(2)>>,
                               !.files = <<[id |-> 1, tokens |-> 3]>>, !.tree = <<Item(1)>>]}
Retrieved == [reports |-> 1, failures |-> 1, memories |-> 2, files |-> 1]
TurnSteps == {[tokens |-> 2, results |-> <<[tokens |-> 1, ran |-> TRUE]>>],
              [tokens |-> 1, results |-> <<[tokens |-> 2, ran |-> TRUE],
                                           [tokens |-> 2, ran |-> FALSE]>>]}

Init ==
    /\ part \in Checked
    /\ SeamInit /\ RouterInit /\ ContextInit /\ TurnInit /\ SandboxInit /\ ViewInit
    /\ part # "router" => setting = Cloud
    /\ part # "context" => limit = 4 /\ adapter = "ollama" /\ embedded

Next ==
    /\ UNCHANGED part
    /\ \/ /\ part = "seam" /\ SeamNext
          /\ UNCHANGED <<routerVars, contextVars, turnVars, sandboxVars, viewVars>>
       \/ /\ part = "router" /\ RouterNext
          /\ UNCHANGED <<seamVars, contextVars, turnVars, sandboxVars, viewVars>>
       \/ /\ part = "context" /\ ContextNext
          /\ UNCHANGED <<seamVars, routerVars, turnVars, sandboxVars, viewVars>>
       \/ /\ part = "turn" /\ TurnNext
          /\ UNCHANGED <<seamVars, routerVars, contextVars, sandboxVars, viewVars>>
       \/ /\ part = "sandbox" /\ SandboxNext
          /\ UNCHANGED <<seamVars, routerVars, contextVars, turnVars, viewVars>>
       \/ /\ part = "page" /\ PollingNext
          /\ UNCHANGED <<seamVars, routerVars, contextVars, turnVars, sandboxVars, editorVars>>
       \/ /\ part = "editor" /\ EditorNext
          /\ UNCHANGED <<seamVars, routerVars, contextVars, turnVars, sandboxVars, pollingVars>>

vars == <<part, seamVars, routerVars, contextVars, turnVars, sandboxVars, viewVars>>

Spec == Init /\ [][Next]_vars /\ TurnFairness /\ PollingFairness

\* The rows, the breakers, the selections, the attempts, the pods and the page
\* hold only what the code allows: counters stay in their bounds, identities are
\* unique, and what was selected adds up.
PartsTypeOK ==
    SeamTypeOK /\ RouterTypeOK /\ ContextTypeOK /\ TurnTypeOK /\ SandboxTypeOK /\ ViewTypeOK
=============================================================================
