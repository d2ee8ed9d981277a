------------------------------ MODULE GitHubPush ------------------------------
(***************************************************************************)
(* Pushing a project's workspace to a new branch on GitHub, in two         *)
(* requests: previewPush records what would be pushed, confirmPush checks  *)
(* that nothing changed since, claims the preview and pushes it.  Requests *)
(* interleave at their awaits, files and the base branch change under      *)
(* them, and a request before its claim may end in an error at any await.  *)
(*                                                                         *)
(* The workspace and the head of the base branch are numbers of contents;  *)
(* a manifest hash is the content it is the hash of.  Trees, blobs and the *)
(* optional pull request are left out: they fail before the branch exists, *)
(* or without consequence.  MaxPushFaults bounds crashes, lost answers and *)
(* failing last writes in one behaviour.                                   *)
(***************************************************************************)
EXTENDS Naturals

CONSTANTS
    MaxPushes,       \* bound: previews ever made
    MaxContents,     \* bound: contents of the workspace
    MaxHeads,        \* bound: heads of the base branch
    PushRequests,    \* bound: requests in flight
    MaxPushFaults    \* bound: faults in one behaviour

ASSUME PushAssumption ==
    /\ MaxPushes \in Nat
    /\ MaxContents \in Nat \ {0}
    /\ MaxHeads \in Nat \ {0}
    /\ MaxPushFaults \in Nat

VARIABLES
    workspace,       \* what the workspace holds
    head,            \* head of the base branch, on GitHub
    pushStatus,      \* GitHubPush.status
    preview,         \* GitHubPush.manifestHash and baseSha
    branch,          \* the branch of a push, on GitHub: content and parent
    pushing,         \* where each request is, and what it holds
    pushFaults       \* faults so far

pushVars == <<workspace, head, pushStatus, preview, branch, pushing, pushFaults>>

Pushes == 1 .. MaxPushes
Contents == 1 .. MaxContents
Heads == 1 .. MaxHeads

NoRow == "NO_ROW"
NoBranch == [content |-> 0, parent |-> 0]

PushStatus == {"PENDING", "CONFIRMED", "COMPLETED", "FAILED", "CANCELLED"}

\* Before its claim a request changes nothing; "claimed" and "branched" are
\* inside the try block of confirmPush.
EarlyStep == {"based", "scanned", "superseding", "found", "rescanned", "unmoved"}
LateStep == {"claimed", "branched"}

IdlePush == [step |-> "idle", p |-> 0, base |-> 0, content |-> 0, seen |-> {}]

PushTypeOK ==
    /\ workspace \in Contents
    /\ head \in Heads
    /\ pushStatus \in [Pushes -> PushStatus \union {NoRow}]
    /\ preview \in [Pushes -> [content : Contents, parent : Heads]]
    /\ branch \in [Pushes -> [content : Contents, parent : Heads] \union {NoBranch}]
    /\ pushing \in [PushRequests ->
            [step : EarlyStep \union LateStep \union {"idle"},
             p : Pushes \union {0}, base : Heads \union {0},
             content : Contents \union {0}, seen : SUBSET Pushes]]
    /\ pushFaults \in 0 .. MaxPushFaults

PushInit ==
    /\ workspace = 1
    /\ head = 1
    /\ pushStatus = [p \in Pushes |-> NoRow]
    /\ preview = [p \in Pushes |-> [content |-> 1, parent |-> 1]]
    /\ branch = [p \in Pushes |-> NoBranch]
    /\ pushing = [r \in PushRequests |-> IdlePush]
    /\ pushFaults = 0

-----------------------------------------------------------------------------
(* Helpers *)

PushFault == pushFaults < MaxPushFaults /\ pushFaults' = pushFaults + 1

SetStatus(p, status) == pushStatus' = [pushStatus EXCEPT ![p] = status]

EndPush(r) == pushing' = [pushing EXCEPT ![r] = IdlePush]

\* Only the request moves on, with these fields.
PushStep(r, fields) ==
    /\ pushing' = [pushing EXCEPT ![r] = fields]
    /\ UNCHANGED <<workspace, head, pushStatus, preview, branch, pushFaults>>

PushAt(r, step) == [pushing[r] EXCEPT !.step = step]

-----------------------------------------------------------------------------
(* previewPush *)

PreviewReadsBase(r) ==
    /\ pushing[r].step = "idle"
    /\ PushStep(r, [IdlePush EXCEPT !.step = "based", !.base = head])

PreviewScans(r) ==
    /\ pushing[r].step = "based"
    /\ PushStep(r, [PushAt(r, "scanned") EXCEPT !.content = workspace])

\* The transaction's first statement sees the previews committed so far.
PreviewSupersedes(r) ==
    /\ pushing[r].step = "scanned"
    /\ PushStep(r, [PushAt(r, "superseding") EXCEPT
                    !.seen = {p \in Pushes : pushStatus[p] = "PENDING"}])

\* What becomes of a preview that a new one replaces.
Superseded(p) == IF pushStatus[p] = "PENDING" THEN "CANCELLED" ELSE pushStatus[p]

PreviewCreates(r, p) ==
    /\ pushing[r].step = "superseding"
    /\ pushStatus[p] = NoRow
    /\ \A q \in Pushes : q < p => pushStatus[q] # NoRow
    /\ pushStatus' = [q \in Pushes |->
                        IF q = p THEN "PENDING"
                        ELSE IF q \in pushing[r].seen THEN Superseded(q)
                        ELSE pushStatus[q]]
    /\ preview' = [preview EXCEPT ![p] = [content |-> pushing[r].content,
                                          parent |-> pushing[r].base]]
    /\ EndPush(r)
    /\ UNCHANGED <<workspace, head, branch, pushFaults>>

-----------------------------------------------------------------------------
(* confirmPush and cancelPush *)

ConfirmFinds(r, p) ==
    /\ pushing[r].step = "idle"
    /\ pushStatus[p] = "PENDING"
    /\ PushStep(r, [IdlePush EXCEPT !.step = "found", !.p = p])

\* The manifest is built again, and kept: its files are what is pushed.
ConfirmScans(r) ==
    /\ pushing[r].step = "found"
    /\ workspace = preview[pushing[r].p].content
    /\ PushStep(r, [PushAt(r, "rescanned") EXCEPT !.content = workspace])

ConfirmReadsBase(r) ==
    /\ pushing[r].step = "rescanned"
    /\ head = preview[pushing[r].p].parent
    /\ PushStep(r, PushAt(r, "unmoved"))

\* Mutant: the claim does not ask whether another one came first.
AnyStatus(p) == pushStatus[p] # "CANCELLED"

Claimable(p) == pushStatus[p] = "PENDING"

ConfirmClaims(r) ==
    /\ pushing[r].step = "unmoved"
    /\ Claimable(pushing[r].p)
    /\ SetStatus(pushing[r].p, "CONFIRMED")
    /\ pushing' = [pushing EXCEPT ![r].step = "claimed"]
    /\ UNCHANGED <<workspace, head, preview, branch, pushFaults>>

\* Mutant: the workspace is read again for the blobs.
PayloadNow(r) == [content |-> workspace, parent |-> preview[pushing[r].p].parent]

\* The commit: the files in hand, on the base the preview named.
Payload(r) == [content |-> pushing[r].content, parent |-> preview[pushing[r].p].parent]

\* GitHub creates the branch, and the request learns it or not.
ConfirmBranches(r) ==
    LET p == pushing[r].p IN
    /\ pushing[r].step = "claimed"
    /\ branch[p] = NoBranch
    /\ branch' = [branch EXCEPT ![p] = Payload(r)]
    /\ \/ /\ pushing' = [pushing EXCEPT ![r].step = "branched"]
          /\ UNCHANGED <<pushStatus, pushFaults>>
       \/ /\ SetStatus(p, "FAILED")
          /\ EndPush(r)
          /\ PushFault
    /\ UNCHANGED <<workspace, head, preview>>

ConfirmCompletes(r) ==
    /\ pushing[r].step = "branched"
    /\ SetStatus(pushing[r].p, "COMPLETED")
    /\ EndPush(r)
    /\ UNCHANGED <<workspace, head, preview, branch, pushFaults>>

\* A call to GitHub fails, the branch exists already, there is nothing to
\* push, or (a fault) the write of COMPLETED fails.
ConfirmFails(r) ==
    /\ \/ pushing[r].step = "claimed" /\ UNCHANGED pushFaults
       \/ pushing[r].step = "branched" /\ PushFault
    /\ SetStatus(pushing[r].p, "FAILED")
    /\ EndPush(r)
    /\ UNCHANGED <<workspace, head, preview, branch>>

CancelPush(p) ==
    /\ pushStatus[p] = "PENDING"
    /\ SetStatus(p, "CANCELLED")
    /\ UNCHANGED <<workspace, head, preview, branch, pushing, pushFaults>>

\* A check fails, or an await throws, before the claim.
PushGivesUp(r) ==
    /\ pushing[r].step \in EarlyStep
    /\ PushStep(r, IdlePush)

\* The server dies after the claim.
PushDies(r) ==
    /\ pushing[r].step \in LateStep
    /\ EndPush(r)
    /\ PushFault
    /\ UNCHANGED <<workspace, head, pushStatus, preview, branch>>

WorkspaceChanges ==
    /\ \E content \in Contents \ {workspace} : workspace' = content
    /\ UNCHANGED <<head, pushStatus, preview, branch, pushing, pushFaults>>

BaseMoves ==
    /\ head < MaxHeads
    /\ head' = head + 1
    /\ UNCHANGED <<workspace, pushStatus, preview, branch, pushing, pushFaults>>

-----------------------------------------------------------------------------

PushNext ==
    \/ WorkspaceChanges
    \/ BaseMoves
    \/ \E p \in Pushes : CancelPush(p)
    \/ \E r \in PushRequests :
        \/ PreviewReadsBase(r)
        \/ PreviewScans(r)
        \/ PreviewSupersedes(r)
        \/ \E p \in Pushes : PreviewCreates(r, p) \/ ConfirmFinds(r, p)
        \/ ConfirmScans(r)
        \/ ConfirmReadsBase(r)
        \/ ConfirmClaims(r)
        \/ ConfirmBranches(r)
        \/ ConfirmCompletes(r)
        \/ ConfirmFails(r)
        \/ PushGivesUp(r)
        \/ PushDies(r)

PushSpec == PushInit /\ [][PushNext]_pushVars

-----------------------------------------------------------------------------
(* Properties *)

Promise ==
    INSTANCE ReviewedPush WITH
        Shown <- [content : Contents, parent : Heads],
        Nothing <- NoBranch,
        stage <- [p \in Pushes |->
                    IF pushStatus[p] = NoRow THEN "none"
                    ELSE IF \/ branch[p] # NoBranch
                            \/ pushStatus[p] \in {"CANCELLED", "FAILED"}
                    THEN "closed" ELSE "open"],
        shown <- preview,
        pushed <- branch

\* What reaches GitHub is what a preview showed, on the base it was shown
\* against, at most once and never after it was cancelled, although the
\* files, the base branch and the push itself may change between any two
\* checks of confirmPush.
PushesReviewed == Promise!Spec

\* A push is claimed by one request.  A COMPLETED push has its branch; without
\* faults a CONFIRMED one has its request at work, and one that FAILED left
\* nothing on GitHub.
AccountedFor ==
    /\ \A r, s \in PushRequests :
        /\ pushing[r].step \in LateStep
        /\ pushing[s].step \in LateStep
        /\ pushing[r].p = pushing[s].p
        => r = s
    /\ \A p \in Pushes :
        /\ pushStatus[p] = "COMPLETED" => branch[p] # NoBranch
        /\ pushFaults = 0 =>
            /\ pushStatus[p] = "FAILED" => branch[p] = NoBranch
            /\ pushStatus[p] = "CONFIRMED" =>
                \E r \in PushRequests :
                    pushing[r].p = p /\ pushing[r].step \in LateStep
=============================================================================
