--------------------------- MODULE GitHubPushProofs ---------------------------
(***************************************************************************)
(* What a push does for any number of previews, requests, contents, heads  *)
(* and faults: it implements ReviewedPush, and every status is accounted   *)
(* for.                                                                    *)
(***************************************************************************)
EXTENDS GitHubPush, TLAPS

PushRequest == [step : EarlyStep \union LateStep \union {"idle"},
                p : Pushes \union {0}, base : Heads \union {0},
                content : Contents \union {0}, seen : SUBSET Pushes]

\* Request r comes to hold this, and no other request changes.
Becomes(r, step, p, base, content) ==
    \A s \in PushRequests :
        /\ pushing'[s].step = IF s = r THEN step ELSE pushing[s].step
        /\ pushing'[s].p = IF s = r THEN p ELSE pushing[s].p
        /\ pushing'[s].base = IF s = r THEN base ELSE pushing[s].base
        /\ pushing'[s].content = IF s = r THEN content ELSE pushing[s].content

\* What a request holds at each of its steps: from "found" on a preview that was
\* made and is not changed any more, from "rescanned" on the content it showed,
\* and from its claim on the push itself.
Holds ==
    \A r \in PushRequests :
        LET q == pushing[r] IN
        /\ q.step \in {"based", "scanned", "superseding"} => q.base \in Heads
        /\ q.step \in {"scanned", "superseding"} => q.content \in Contents
        /\ q.step \in {"found", "rescanned", "unmoved"} \union LateStep =>
            q.p \in Pushes /\ pushStatus[q.p] # NoRow
        /\ q.step \in {"rescanned", "unmoved"} \union LateStep =>
            q.content = preview[q.p].content
        /\ q.step \in LateStep => pushStatus[q.p] = "CONFIRMED"
        /\ q.step = "claimed" => branch[q.p] = NoBranch
        /\ q.step = "branched" => branch[q.p] # NoBranch

\* Two requests are never late with one push.
OneClaim ==
    \A r, s \in PushRequests :
        /\ pushing[r].step \in LateStep
        /\ pushing[s].step \in LateStep
        /\ pushing[r].p = pushing[s].p
        => r = s

\* Only a claimed push has a branch.
BranchOfClaim ==
    \A p \in Pushes :
        branch[p] # NoBranch => pushStatus[p] \in {"CONFIRMED", "COMPLETED", "FAILED"}

\* What AccountedFor says of each push.
Accounted ==
    \A p \in Pushes :
        /\ pushStatus[p] = "COMPLETED" => branch[p] # NoBranch
        /\ pushFaults = 0 =>
            /\ pushStatus[p] = "FAILED" => branch[p] = NoBranch
            /\ pushStatus[p] = "CONFIRMED" =>
                \E r \in PushRequests :
                    pushing[r].p = p /\ pushing[r].step \in LateStep

PushInv == PushTypeOK /\ Holds /\ OneClaim /\ BranchOfClaim /\ Accounted

-----------------------------------------------------------------------------
(* What the steps do to the requests *)

LEMMA RequestReplaced ==
  ASSUME PushTypeOK, NEW r \in PushRequests, NEW new \in PushRequest,
         pushing' = [pushing EXCEPT ![r] = new]
  PROVE  /\ pushing' \in [PushRequests -> PushRequest]
         /\ Becomes(r, new.step, new.p, new.base, new.content)
<1>1. pushing \in [PushRequests -> PushRequest]
  BY DEF PushTypeOK, PushRequest
<1>2. \A s \in PushRequests : pushing'[s] = IF s = r THEN new ELSE pushing[s]
  BY <1>1
<1>3. pushing' \in [PushRequests -> PushRequest]
  BY <1>1
<1>4. QED
  BY <1>2, <1>3 DEF Becomes

LEMMA RequestEnds ==
  ASSUME PushTypeOK, NEW r \in PushRequests, EndPush(r)
  PROVE  /\ pushing' \in [PushRequests -> PushRequest]
         /\ Becomes(r, "idle", 0, 0, 0)
<1>1. IdlePush \in PushRequest
  BY DEF IdlePush, PushRequest
<1>2. /\ IdlePush.step = "idle" /\ IdlePush.p = 0 /\ IdlePush.base = 0
      /\ IdlePush.content = 0
  BY DEF IdlePush
<1>3. QED
  BY <1>1, <1>2, RequestReplaced DEF EndPush

\* The fields of a request that goes on.
LEMMA PushRequestGoesOn ==
  ASSUME PushTypeOK, NEW r \in PushRequests,
         NEW step \in EarlyStep \union LateStep \union {"idle"}
  PROVE  /\ PushAt(r, step) \in PushRequest
         /\ PushAt(r, step).step = step
         /\ PushAt(r, step).p = pushing[r].p
         /\ PushAt(r, step).base = pushing[r].base
         /\ PushAt(r, step).content = pushing[r].content
<1>1. pushing[r] \in PushRequest
  BY DEF PushTypeOK, PushRequest
<1>2. QED
  BY <1>1 DEF PushAt, PushRequest

LEMMA RequestReads ==
  ASSUME PushTypeOK, NEW r \in PushRequests, NEW step \in EarlyStep,
         NEW content \in Contents
  PROVE  LET new == [PushAt(r, step) EXCEPT !.content = content]
         IN  /\ new \in PushRequest
             /\ new.step = step /\ new.p = pushing[r].p
             /\ new.base = pushing[r].base /\ new.content = content
<1>1. PushAt(r, step) \in PushRequest
  BY PushRequestGoesOn
<1>2. QED
  BY <1>1, PushRequestGoesOn DEF PushRequest

\* The steps that change no row, by what their request comes to hold.
LEMMA ReadsBaseStep ==
  ASSUME PushTypeOK, NEW r \in PushRequests, PreviewReadsBase(r)
  PROVE  pushing' \in [PushRequests -> PushRequest] /\ Becomes(r, "based", 0, head, 0)
<1> DEFINE new == [IdlePush EXCEPT !.step = "based", !.base = head]
<1>1. /\ new \in PushRequest
      /\ new.step = "based" /\ new.p = 0 /\ new.base = head /\ new.content = 0
  BY DEF IdlePush, PushRequest, EarlyStep, PushTypeOK
<1>2. pushing' = [pushing EXCEPT ![r] = new]
  BY DEF PreviewReadsBase, PushStep
<1> HIDE DEF new
<1>3. QED
  BY <1>1, <1>2, RequestReplaced

LEMMA ScansStep ==
  ASSUME PushTypeOK, NEW r \in PushRequests, PreviewScans(r)
  PROVE  /\ pushing' \in [PushRequests -> PushRequest]
         /\ Becomes(r, "scanned", pushing[r].p, pushing[r].base, workspace)
<1> DEFINE new == [PushAt(r, "scanned") EXCEPT !.content = workspace]
<1>1. /\ new \in PushRequest
      /\ new.step = "scanned" /\ new.p = pushing[r].p
      /\ new.base = pushing[r].base /\ new.content = workspace
  BY RequestReads DEF EarlyStep, PushTypeOK
<1>2. pushing' = [pushing EXCEPT ![r] = new]
  BY DEF PreviewScans, PushStep
<1> HIDE DEF new
<1>3. QED
  BY <1>1, <1>2, RequestReplaced

LEMMA SupersedesStep ==
  ASSUME PushTypeOK, NEW r \in PushRequests, PreviewSupersedes(r)
  PROVE  /\ pushing' \in [PushRequests -> PushRequest]
         /\ Becomes(r, "superseding", pushing[r].p, pushing[r].base, pushing[r].content)
<1> DEFINE open == {p \in Pushes : pushStatus[p] = "PENDING"}
           new == [PushAt(r, "superseding") EXCEPT !.seen = open]
<1>1. /\ PushAt(r, "superseding") \in PushRequest
      /\ PushAt(r, "superseding").step = "superseding"
      /\ PushAt(r, "superseding").p = pushing[r].p
      /\ PushAt(r, "superseding").base = pushing[r].base
      /\ PushAt(r, "superseding").content = pushing[r].content
  BY PushRequestGoesOn DEF EarlyStep
<1>2. open \in SUBSET Pushes
  OBVIOUS
<1>3. pushing' = [pushing EXCEPT ![r] = new]
  BY DEF PreviewSupersedes, PushStep
<1> HIDE DEF open
<1>4. /\ new \in PushRequest
      /\ new.step = "superseding" /\ new.p = pushing[r].p
      /\ new.base = pushing[r].base /\ new.content = pushing[r].content
  BY <1>1, <1>2 DEF PushRequest
<1> HIDE DEF new
<1>5. QED
  BY <1>3, <1>4, RequestReplaced

LEMMA FindsStep ==
  ASSUME PushTypeOK, NEW r \in PushRequests, NEW p \in Pushes, ConfirmFinds(r, p)
  PROVE  pushing' \in [PushRequests -> PushRequest] /\ Becomes(r, "found", p, 0, 0)
<1> DEFINE new == [IdlePush EXCEPT !.step = "found", !.p = p]
<1>1. /\ new \in PushRequest
      /\ new.step = "found" /\ new.p = p /\ new.base = 0 /\ new.content = 0
  BY DEF IdlePush, PushRequest, EarlyStep
<1>2. pushing' = [pushing EXCEPT ![r] = new]
  BY DEF ConfirmFinds, PushStep
<1> HIDE DEF new
<1>3. QED
  BY <1>1, <1>2, RequestReplaced

LEMMA RescansStep ==
  ASSUME PushTypeOK, NEW r \in PushRequests, ConfirmScans(r)
  PROVE  /\ pushing' \in [PushRequests -> PushRequest]
         /\ Becomes(r, "rescanned", pushing[r].p, pushing[r].base, workspace)
<1> DEFINE new == [PushAt(r, "rescanned") EXCEPT !.content = workspace]
<1>1. /\ new \in PushRequest
      /\ new.step = "rescanned" /\ new.p = pushing[r].p
      /\ new.base = pushing[r].base /\ new.content = workspace
  BY RequestReads DEF EarlyStep, PushTypeOK
<1>2. pushing' = [pushing EXCEPT ![r] = new]
  BY DEF ConfirmScans, PushStep
<1> HIDE DEF new
<1>3. QED
  BY <1>1, <1>2, RequestReplaced

\* Only the step of the request changes.
LEMMA StepReplaced ==
  ASSUME PushTypeOK, NEW r \in PushRequests,
         NEW step \in EarlyStep \union LateStep \union {"idle"},
         \/ pushing' = [pushing EXCEPT ![r] = PushAt(r, step)]
         \/ pushing' = [pushing EXCEPT ![r].step = step]
  PROVE  /\ pushing' \in [PushRequests -> PushRequest]
         /\ Becomes(r, step, pushing[r].p, pushing[r].base, pushing[r].content)
<1> DEFINE new == PushAt(r, step)
<1>1. pushing' = [pushing EXCEPT ![r] = new]
  BY DEF PushAt
<1>2. /\ new \in PushRequest
      /\ new.step = step /\ new.p = pushing[r].p
      /\ new.base = pushing[r].base /\ new.content = pushing[r].content
  BY PushRequestGoesOn
<1> HIDE DEF new
<1>3. QED
  BY <1>1, <1>2, RequestReplaced

-----------------------------------------------------------------------------
(* The invariant *)

LEMMA PushInvInit == PushInit => PushInv
<1> SUFFICES ASSUME PushInit
             PROVE  PushInv
  OBVIOUS
<1> USE PushAssumption DEF PushInit, IdlePush, NoRow, NoBranch, LateStep
<1>1. PushTypeOK
  BY DEF PushTypeOK, Contents, Heads, PushStatus
<1>2. Holds /\ OneClaim /\ BranchOfClaim /\ Accounted
  BY DEF Holds, OneClaim, BranchOfClaim, Accounted
<1>3. QED
  BY <1>1, <1>2 DEF PushInv

\* Steps that only move a request on, and never to or from its late steps, keep
\* the invariant if the request holds what it should.
LEMMA EarlyMove ==
  ASSUME PushInv, NEW r \in PushRequests, NEW step, NEW p, NEW base, NEW content,
         pushing' \in [PushRequests -> PushRequest],
         Becomes(r, step, p, base, content),
         pushing[r].step \notin LateStep, step \notin LateStep,
         step \in {"based", "scanned", "superseding"} => base \in Heads,
         step \in {"scanned", "superseding"} => content \in Contents,
         step \in {"found", "rescanned", "unmoved"} =>
            p \in Pushes /\ pushStatus[p] # NoRow,
         step \in {"rescanned", "unmoved"} => content = preview[p].content,
         UNCHANGED <<workspace, head, pushStatus, preview, branch, pushFaults>>
  PROVE  PushInv'
<1>1. PushTypeOK'
  BY DEF PushInv, PushTypeOK, PushRequest
<1>2. Holds'
  BY DEF PushInv, Holds, Becomes, LateStep
<1>3. OneClaim'
  BY DEF PushInv, OneClaim, Becomes
<1>4. BranchOfClaim'
  BY DEF PushInv, BranchOfClaim
<1>5. Accounted'
  BY DEF PushInv, Accounted, Becomes
<1>6. QED
  BY <1>1, <1>2, <1>3, <1>4, <1>5 DEF PushInv

LEMMA EarlyMovesKeep ==
  ASSUME PushInv, NEW r \in PushRequests,
         \/ PreviewReadsBase(r) \/ PreviewScans(r) \/ PreviewSupersedes(r)
         \/ \E p \in Pushes : ConfirmFinds(r, p)
         \/ ConfirmScans(r) \/ ConfirmReadsBase(r) \/ PushGivesUp(r)
  PROVE  PushInv'
<1> USE DEF EarlyStep, LateStep
<1>0. PushTypeOK /\ Holds
  BY DEF PushInv
<1>1. CASE PreviewReadsBase(r)
  <2>1. head \in Heads /\ pushing[r].step \notin LateStep
        /\ UNCHANGED <<workspace, head, pushStatus, preview, branch, pushFaults>>
    BY <1>0, <1>1 DEF PushTypeOK, PreviewReadsBase, PushStep
  <2>2. QED
    BY <1>0, <1>1, <2>1, ReadsBaseStep, EarlyMove
<1>2. CASE PreviewScans(r)
  <2>1. workspace \in Contents /\ pushing[r].base \in Heads
        /\ pushing[r].step \notin LateStep
        /\ UNCHANGED <<workspace, head, pushStatus, preview, branch, pushFaults>>
    BY <1>0, <1>2 DEF PushTypeOK, Holds, PreviewScans, PushStep
  <2>2. QED
    BY <1>0, <1>2, <2>1, ScansStep, EarlyMove
<1>3. CASE PreviewSupersedes(r)
  <2>1. pushing[r].content \in Contents /\ pushing[r].base \in Heads
        /\ pushing[r].step \notin LateStep
        /\ UNCHANGED <<workspace, head, pushStatus, preview, branch, pushFaults>>
    BY <1>0, <1>3 DEF Holds, PreviewSupersedes, PushStep
  <2>2. QED
    BY <1>0, <1>3, <2>1, SupersedesStep, EarlyMove
<1>4. CASE \E p \in Pushes : ConfirmFinds(r, p)
  <2>1. PICK p \in Pushes : ConfirmFinds(r, p)
    BY <1>4
  <2>2. pushStatus[p] # NoRow /\ pushing[r].step \notin LateStep
        /\ UNCHANGED <<workspace, head, pushStatus, preview, branch, pushFaults>>
    BY <2>1 DEF ConfirmFinds, PushStep, NoRow
  <2>3. QED
    BY <1>0, <2>1, <2>2, FindsStep, EarlyMove
<1>5. CASE ConfirmScans(r)
  <2>1. /\ pushing[r].p \in Pushes /\ pushStatus[pushing[r].p] # NoRow
        /\ workspace = preview[pushing[r].p].content
        /\ pushing[r].step \notin LateStep
        /\ UNCHANGED <<workspace, head, pushStatus, preview, branch, pushFaults>>
    BY <1>0, <1>5 DEF Holds, ConfirmScans, PushStep
  <2>2. QED
    BY <1>0, <1>5, <2>1, RescansStep, EarlyMove
<1>6. CASE ConfirmReadsBase(r)
  <2>1. /\ pushing[r].p \in Pushes /\ pushStatus[pushing[r].p] # NoRow
        /\ pushing[r].content = preview[pushing[r].p].content
        /\ pushing[r].step \notin LateStep
        /\ pushing' = [pushing EXCEPT ![r] = PushAt(r, "unmoved")]
        /\ UNCHANGED <<workspace, head, pushStatus, preview, branch, pushFaults>>
    BY <1>0, <1>6 DEF Holds, ConfirmReadsBase, PushStep
  <2>2. /\ pushing' \in [PushRequests -> PushRequest]
        /\ Becomes(r, "unmoved", pushing[r].p, pushing[r].base, pushing[r].content)
    BY <1>0, <2>1, StepReplaced
  <2>3. QED
    BY <1>0, <2>1, <2>2, EarlyMove
<1>7. CASE PushGivesUp(r)
  <2>1. EndPush(r) /\ pushing[r].step \notin LateStep
        /\ UNCHANGED <<workspace, head, pushStatus, preview, branch, pushFaults>>
    BY <1>7 DEF PushGivesUp, PushStep, EndPush
  <2>2. QED
    BY <1>0, <2>1, RequestEnds, EarlyMove
<1>8. QED
  BY <1>1, <1>2, <1>3, <1>4, <1>5, <1>6, <1>7

\* The world changes, and no request and no row with it.
LEMMA WorldKeeps ==
  ASSUME PushInv, WorkspaceChanges \/ BaseMoves
  PROVE  PushInv'
<1> USE DEF WorkspaceChanges, BaseMoves
<1>1. PushTypeOK'
  BY PushAssumption DEF PushInv, PushTypeOK, Heads
<1>2. UNCHANGED <<pushStatus, preview, branch, pushing, pushFaults>>
  OBVIOUS
<1>3. Holds' /\ OneClaim' /\ BranchOfClaim' /\ Accounted'
  BY <1>2 DEF PushInv, Holds, OneClaim, BranchOfClaim, Accounted
<1>4. QED
  BY <1>1, <1>3 DEF PushInv

LEMMA CancelKeeps ==
  ASSUME PushInv, NEW p \in Pushes, CancelPush(p)
  PROVE  PushInv'
<1> USE DEF CancelPush, SetStatus
<1>1. PushTypeOK'
  BY DEF PushInv, PushTypeOK, PushStatus
<1>2. \A q \in Pushes : pushStatus'[q] = IF q = p THEN "CANCELLED" ELSE pushStatus[q]
  BY DEF PushInv, PushTypeOK
<1>3. UNCHANGED <<workspace, head, preview, branch, pushing, pushFaults>>
  OBVIOUS
<1>4. pushStatus[p] = "PENDING"
  OBVIOUS
<1>5. Holds'
  BY <1>2, <1>3, <1>4 DEF PushInv, Holds, LateStep, NoRow
<1>6. OneClaim'
  BY <1>3 DEF PushInv, OneClaim
<1>7. BranchOfClaim'
  BY <1>2, <1>3, <1>4 DEF PushInv, BranchOfClaim
<1>8. Accounted'
  BY <1>2, <1>3, <1>4 DEF PushInv, Accounted
<1>9. QED
  BY <1>1, <1>5, <1>6, <1>7, <1>8 DEF PushInv

\* The new preview is open, and each preview it supersedes was.
LEMMA CreateRows ==
  ASSUME PushInv, NEW r \in PushRequests, NEW p \in Pushes, PreviewCreates(r, p)
  PROVE  /\ pushStatus[p] = NoRow
         /\ \A q \in Pushes :
              /\ q = p => pushStatus'[q] = "PENDING"
              /\ q # p => \/ pushStatus'[q] = pushStatus[q]
                          \/ pushStatus[q] = "PENDING" /\ pushStatus'[q] = "CANCELLED"
         /\ \A q \in Pushes : q # p => preview'[q] = preview[q]
         /\ pushStatus' \in [Pushes -> PushStatus \union {NoRow}]
         /\ preview' \in [Pushes -> [content : Contents, parent : Heads]]
<1>1. pushing[r].content \in Contents /\ pushing[r].base \in Heads
  BY DEF PushInv, Holds, PreviewCreates
<1>2. QED
  BY <1>1 DEF PushInv, PushTypeOK, PreviewCreates, Superseded, PushStatus

LEMMA PushCreateKeeps ==
  ASSUME PushInv, NEW r \in PushRequests, NEW p \in Pushes, PreviewCreates(r, p)
  PROVE  PushInv'
<1>1. /\ pushing' \in [PushRequests -> PushRequest]
      /\ Becomes(r, "idle", 0, 0, 0)
  BY RequestEnds DEF PushInv, PreviewCreates
<1>2. UNCHANGED <<workspace, head, branch, pushFaults>> /\ pushing[r].step = "superseding"
  BY DEF PreviewCreates
<1>3. PushTypeOK'
  BY <1>1, <1>2, CreateRows DEF PushInv, PushTypeOK, PushRequest
<1>4. Holds'
  BY <1>1, <1>2, CreateRows DEF PushInv, Holds, Becomes, LateStep, NoRow
<1>5. OneClaim'
  BY <1>1, <1>2 DEF PushInv, OneClaim, Becomes, LateStep
<1>6. BranchOfClaim'
  BY <1>2, CreateRows DEF PushInv, BranchOfClaim, NoRow
<1>7. Accounted'
  BY <1>1, <1>2, CreateRows DEF PushInv, Accounted, Becomes, LateStep
<1>8. QED
  BY <1>3, <1>4, <1>5, <1>6, <1>7 DEF PushInv

LEMMA ClaimKeeps ==
  ASSUME PushInv, NEW r \in PushRequests, ConfirmClaims(r)
  PROVE  PushInv'
<1> DEFINE p == pushing[r].p
<1>1. /\ pushing' \in [PushRequests -> PushRequest]
      /\ Becomes(r, "claimed", p, pushing[r].base, pushing[r].content)
  BY StepReplaced DEF PushInv, ConfirmClaims, LateStep
<1>2. /\ UNCHANGED <<workspace, head, preview, branch, pushFaults>>
      /\ pushing[r].step = "unmoved"
      /\ pushStatus[p] = "PENDING"
      /\ pushStatus' = [pushStatus EXCEPT ![p] = "CONFIRMED"]
  BY DEF ConfirmClaims, Claimable, SetStatus
<1>3. /\ p \in Pushes
      /\ pushing[r].content = preview[p].content
      /\ branch[p] = NoBranch
  BY <1>2 DEF PushInv, Holds, BranchOfClaim
<1> HIDE DEF p
<1>4. /\ pushStatus' \in [Pushes -> PushStatus \union {NoRow}]
      /\ \A q \in Pushes : pushStatus'[q] = IF q = p THEN "CONFIRMED" ELSE pushStatus[q]
  BY <1>2, <1>3 DEF PushInv, PushTypeOK, PushStatus
<1>5. \A s \in PushRequests : pushing[s].step \in LateStep => pushing[s].p # p
  BY <1>2 DEF PushInv, Holds
<1>6. PushTypeOK'
  BY <1>1, <1>2, <1>4 DEF PushInv, PushTypeOK, PushRequest
<1>7. Holds'
  BY <1>1, <1>2, <1>3, <1>4, <1>5 DEF PushInv, Holds, Becomes, LateStep, NoRow
<1>8. OneClaim'
  BY <1>1, <1>5 DEF PushInv, OneClaim, Becomes, LateStep
<1>9. BranchOfClaim'
  BY <1>2, <1>4 DEF PushInv, BranchOfClaim
<1>10. Accounted'
  BY <1>1, <1>2, <1>4 DEF PushInv, Accounted, Becomes, LateStep
<1>11. QED
  BY <1>6, <1>7, <1>8, <1>9, <1>10 DEF PushInv

\* What is pushed is what the preview shows.
LEMMA PayloadShown ==
  ASSUME PushInv, NEW r \in PushRequests, pushing[r].step \in LateStep
  PROVE  /\ Payload(r) = preview[pushing[r].p]
         /\ Payload(r) \in [content : Contents, parent : Heads]
         /\ Payload(r) # NoBranch
<1>1. pushing[r].p \in Pushes /\ pushing[r].content = preview[pushing[r].p].content
  BY DEF PushInv, Holds, LateStep
<1>2. preview[pushing[r].p] \in [content : Contents, parent : Heads]
  BY <1>1 DEF PushInv, PushTypeOK
<1>3. Payload(r) = preview[pushing[r].p]
  BY <1>1, <1>2 DEF Payload
<1>4. preview[pushing[r].p].content # 0
  BY <1>2, PushAssumption DEF Contents
<1>5. QED
  BY <1>2, <1>3, <1>4 DEF NoBranch

LEMMA BranchKeeps ==
  ASSUME PushInv, NEW r \in PushRequests, ConfirmBranches(r)
  PROVE  PushInv'
<1> DEFINE p == pushing[r].p
<1>1. /\ pushing[r].step = "claimed" /\ branch[p] = NoBranch
      /\ branch' = [branch EXCEPT ![p] = Payload(r)]
      /\ UNCHANGED <<workspace, head, preview>>
  BY DEF ConfirmBranches
<1>2. /\ p \in Pushes /\ pushStatus[p] = "CONFIRMED"
      /\ pushing[r].content = preview[p].content
      /\ \A s \in PushRequests \ {r} : pushing[s].step \in LateStep => pushing[s].p # p
  BY <1>1 DEF PushInv, Holds, OneClaim, LateStep
<1>3. /\ branch' \in [Pushes -> [content : Contents, parent : Heads] \union {NoBranch}]
      /\ branch'[p] # NoBranch
      /\ \A q \in Pushes \ {p} : branch'[q] = branch[q]
  BY <1>1, <1>2, PayloadShown DEF PushInv, PushTypeOK, LateStep
<1>4. CASE /\ pushing' = [pushing EXCEPT ![r].step = "branched"]
           /\ UNCHANGED <<pushStatus, pushFaults>>
  <2>1. /\ pushing' \in [PushRequests -> PushRequest]
        /\ Becomes(r, "branched", p, pushing[r].base, pushing[r].content)
    BY <1>4, StepReplaced DEF PushInv, LateStep
  <2> HIDE DEF p
  <2>2. PushTypeOK'
    BY <1>1, <1>3, <1>4, <2>1 DEF PushInv, PushTypeOK, PushRequest
  <2>3. Holds'
    BY <1>1, <1>2, <1>3, <1>4, <2>1 DEF PushInv, Holds, Becomes, LateStep, NoRow
  <2>4. OneClaim'
    BY <1>2, <2>1 DEF PushInv, OneClaim, Becomes, LateStep
  <2>5. BranchOfClaim'
    BY <1>2, <1>3, <1>4 DEF PushInv, BranchOfClaim
  <2>6. Accounted'
    <3>1. \A q \in Pushes \ {p} : branch'[q] = branch[q] /\ pushStatus'[q] = pushStatus[q]
      BY <1>3, <1>4
    <3>2. \A s \in PushRequests :
            pushing[s].step \in LateStep => /\ pushing'[s].step \in LateStep
                                            /\ pushing'[s].p = pushing[s].p
      BY <2>1 DEF Becomes, LateStep, p
    <3>3. pushStatus'[p] = "CONFIRMED" /\ pushing'[r].p = p /\ pushing'[r].step \in LateStep
      BY <1>2, <1>4, <2>1 DEF Becomes, LateStep
    <3>4. QED
      BY <1>3, <1>4, <3>1, <3>2, <3>3 DEF PushInv, Accounted
  <2>7. QED
    BY <2>2, <2>3, <2>4, <2>5, <2>6 DEF PushInv
<1>5. CASE SetStatus(p, "FAILED") /\ EndPush(r) /\ PushFault
  <2>1. /\ pushing' \in [PushRequests -> PushRequest]
        /\ Becomes(r, "idle", 0, 0, 0)
    BY <1>5, RequestEnds DEF PushInv
  <2> HIDE DEF p
  <2>2. /\ pushStatus' \in [Pushes -> PushStatus \union {NoRow}]
        /\ \A q \in Pushes : pushStatus'[q] = IF q = p THEN "FAILED" ELSE pushStatus[q]
    BY <1>2, <1>5 DEF PushInv, PushTypeOK, PushStatus, SetStatus
  <2>3. pushFaults' \in 0 .. MaxPushFaults /\ pushFaults' # 0
    BY <1>5, PushAssumption DEF PushInv, PushTypeOK, PushFault
  <2>4. PushTypeOK'
    BY <1>1, <1>3, <2>1, <2>2, <2>3 DEF PushInv, PushTypeOK, PushRequest
  <2>5. Holds'
    BY <1>1, <1>2, <1>3, <2>1, <2>2 DEF PushInv, Holds, Becomes, LateStep, NoRow
  <2>6. OneClaim'
    BY <2>1 DEF PushInv, OneClaim, Becomes, LateStep
  <2>7. BranchOfClaim'
    BY <1>2, <1>3, <2>2 DEF PushInv, BranchOfClaim
  <2>8. Accounted'
    BY <1>2, <1>3, <2>2, <2>3 DEF PushInv, Accounted
  <2>9. QED
    BY <2>4, <2>5, <2>6, <2>7, <2>8 DEF PushInv
<1>6. QED
  BY <1>4, <1>5 DEF ConfirmBranches

LEMMA CompleteKeeps ==
  ASSUME PushInv, NEW r \in PushRequests, ConfirmCompletes(r)
  PROVE  PushInv'
<1> DEFINE p == pushing[r].p
<1>1. /\ pushing[r].step = "branched"
      /\ pushStatus' = [pushStatus EXCEPT ![p] = "COMPLETED"]
      /\ UNCHANGED <<workspace, head, preview, branch, pushFaults>>
  BY DEF ConfirmCompletes, SetStatus
<1>2. /\ p \in Pushes /\ branch[p] # NoBranch
      /\ \A s \in PushRequests \ {r} : pushing[s].step \in LateStep => pushing[s].p # p
  BY <1>1 DEF PushInv, Holds, OneClaim, LateStep
<1>3. /\ pushing' \in [PushRequests -> PushRequest]
      /\ Becomes(r, "idle", 0, 0, 0)
  BY RequestEnds DEF PushInv, ConfirmCompletes
<1>7. \A s \in PushRequests : pushing[s].p # p => s # r
  OBVIOUS
<1> HIDE DEF p
<1>4. /\ pushStatus' \in [Pushes -> PushStatus \union {NoRow}]
      /\ \A q \in Pushes : pushStatus'[q] = IF q = p THEN "COMPLETED" ELSE pushStatus[q]
  BY <1>1, <1>2 DEF PushInv, PushTypeOK, PushStatus
<1>5. PushTypeOK'
  BY <1>1, <1>3, <1>4 DEF PushInv, PushTypeOK, PushRequest
<1>6. Holds'
  BY <1>1, <1>2, <1>3, <1>4 DEF PushInv, Holds, Becomes, LateStep, NoRow
<1>8. OneClaim'
  BY <1>3 DEF PushInv, OneClaim, Becomes, LateStep
<1>9. BranchOfClaim'
  BY <1>1, <1>4 DEF PushInv, BranchOfClaim
<1>10. Accounted'
  BY <1>1, <1>2, <1>3, <1>4, <1>7 DEF PushInv, Accounted, Becomes
<1>11. QED
  BY <1>5, <1>6, <1>8, <1>9, <1>10 DEF PushInv

LEMMA FailKeeps ==
  ASSUME PushInv, NEW r \in PushRequests, ConfirmFails(r)
  PROVE  PushInv'
<1> DEFINE p == pushing[r].p
<1>1. /\ \/ pushing[r].step = "claimed" /\ UNCHANGED pushFaults
         \/ pushing[r].step = "branched" /\ PushFault
      /\ pushStatus' = [pushStatus EXCEPT ![p] = "FAILED"]
      /\ UNCHANGED <<workspace, head, preview, branch>>
  BY DEF ConfirmFails, SetStatus
<1>2. /\ p \in Pushes /\ pushStatus[p] = "CONFIRMED"
      /\ pushing[r].step = "claimed" => branch[p] = NoBranch
      /\ \A s \in PushRequests \ {r} : pushing[s].step \in LateStep => pushing[s].p # p
  BY <1>1 DEF PushInv, Holds, OneClaim, LateStep
<1>3. /\ pushing' \in [PushRequests -> PushRequest]
      /\ Becomes(r, "idle", 0, 0, 0)
  BY RequestEnds DEF PushInv, ConfirmFails
<1>4. /\ pushFaults' \in 0 .. MaxPushFaults
      /\ pushFaults' = 0 => pushFaults = 0 /\ pushing[r].step = "claimed"
  BY <1>1, PushAssumption DEF PushInv, PushTypeOK, PushFault
<1>5. \A s \in PushRequests : pushing[s].p # p => s # r
  OBVIOUS
<1> HIDE DEF p
<1>6. /\ pushStatus' \in [Pushes -> PushStatus \union {NoRow}]
      /\ \A q \in Pushes : pushStatus'[q] = IF q = p THEN "FAILED" ELSE pushStatus[q]
  BY <1>1, <1>2 DEF PushInv, PushTypeOK, PushStatus
<1>7. PushTypeOK'
  BY <1>1, <1>3, <1>4, <1>6 DEF PushInv, PushTypeOK, PushRequest
<1>8. Holds'
  BY <1>1, <1>2, <1>3, <1>6 DEF PushInv, Holds, Becomes, LateStep, NoRow
<1>9. OneClaim'
  BY <1>3 DEF PushInv, OneClaim, Becomes, LateStep
<1>10. BranchOfClaim'
  BY <1>1, <1>6 DEF PushInv, BranchOfClaim
<1>11. Accounted'
  BY <1>1, <1>2, <1>3, <1>4, <1>5, <1>6 DEF PushInv, Accounted, Becomes
<1>12. QED
  BY <1>7, <1>8, <1>9, <1>10, <1>11 DEF PushInv

LEMMA DeathKeeps ==
  ASSUME PushInv, NEW r \in PushRequests, PushDies(r)
  PROVE  PushInv'
<1>1. /\ pushing' \in [PushRequests -> PushRequest]
      /\ Becomes(r, "idle", 0, 0, 0)
  BY RequestEnds DEF PushInv, PushDies
<1>2. UNCHANGED <<workspace, head, pushStatus, preview, branch>>
  BY DEF PushDies
<1>3. pushFaults' \in 0 .. MaxPushFaults /\ pushFaults' # 0
  BY PushAssumption DEF PushInv, PushTypeOK, PushDies, PushFault
<1>4. PushTypeOK'
  BY <1>1, <1>2, <1>3 DEF PushInv, PushTypeOK, PushRequest
<1>5. Holds'
  BY <1>1, <1>2 DEF PushInv, Holds, Becomes, LateStep
<1>6. OneClaim'
  BY <1>1 DEF PushInv, OneClaim, Becomes, LateStep
<1>7. BranchOfClaim'
  BY <1>2 DEF PushInv, BranchOfClaim
<1>8. Accounted'
  BY <1>2, <1>3 DEF PushInv, Accounted
<1>9. QED
  BY <1>4, <1>5, <1>6, <1>7, <1>8 DEF PushInv

LEMMA PushInvStep ==
  ASSUME PushInv, [PushNext]_pushVars
  PROVE  PushInv'
<1>1. CASE UNCHANGED pushVars
  BY <1>1 DEF pushVars, PushInv, PushTypeOK, Holds, OneClaim, BranchOfClaim, Accounted
<1>2. CASE WorkspaceChanges \/ BaseMoves
  BY <1>2, WorldKeeps
<1>3. CASE \E p \in Pushes : CancelPush(p)
  BY <1>3, CancelKeeps
<1>4. ASSUME NEW r \in PushRequests, NEW p \in Pushes, PreviewCreates(r, p)
      PROVE  PushInv'
  BY <1>4, PushCreateKeeps
<1>5. ASSUME NEW r \in PushRequests, ConfirmClaims(r) \/ ConfirmBranches(r)
      PROVE  PushInv'
  BY <1>5, ClaimKeeps, BranchKeeps
<1>6. ASSUME NEW r \in PushRequests,
             ConfirmCompletes(r) \/ ConfirmFails(r) \/ PushDies(r)
      PROVE  PushInv'
  BY <1>6, CompleteKeeps, FailKeeps, DeathKeeps
<1>7. QED
  BY <1>1, <1>2, <1>3, <1>4, <1>5, <1>6, EarlyMovesKeep DEF PushNext

LEMMA PushInvHolds == PushSpec => []PushInv
<1>1. PushInv /\ [PushNext]_pushVars => PushInv'
  BY PushInvStep
<1>2. QED
  BY PushInvInit, <1>1, PTL DEF PushSpec

\* The rows and the requests of a push keep their types.
THEOREM PushTypeCorrect == PushSpec => []PushTypeOK
<1>1. PushInv => PushTypeOK
  BY DEF PushInv
<1>2. QED
  BY <1>1, PushInvHolds, PTL

\* However requests interleave, and whatever fails: a push is claimed by one
\* request, a COMPLETED push has its branch, and without faults a CONFIRMED push
\* has its request at work and a FAILED one left nothing on GitHub.
THEOREM PushesAccounted == PushSpec => []AccountedFor
<1>1. PushInv => AccountedFor
  BY DEF PushInv, OneClaim, Accounted, AccountedFor
<1>2. QED
  BY <1>1, PushInvHolds, PTL

-----------------------------------------------------------------------------
(* A push implements ReviewedPush *)

Stage(p) ==
    IF pushStatus[p] = NoRow THEN "none"
    ELSE IF branch[p] # NoBranch \/ pushStatus[p] \in {"CANCELLED", "FAILED"}
         THEN "closed" ELSE "open"

\* ReviewedPush's next step, or none, in the terms of a push.
Reviewed(W, p) ==
    /\ Stage(p) = "none"
    /\ W \subseteq {q \in Pushes : Stage(q) = "open"}
    /\ \A q \in Pushes :
        Stage(q)' = IF q = p THEN "open" ELSE IF q \in W THEN "closed" ELSE Stage(q)
    /\ \E x \in [content : Contents, parent : Heads] : preview' = [preview EXCEPT ![p] = x]
    /\ UNCHANGED branch

Closes(p) ==
    /\ Stage(p) = "open"
    /\ \A q \in Pushes : Stage(q)' = IF q = p THEN "closed" ELSE Stage(q)
    /\ UNCHANGED preview

Still ==
    /\ \A q \in Pushes : Stage(q)' = Stage(q)
    /\ UNCHANGED <<preview, branch>>

LEMMA StepOfPromise ==
  ASSUME \/ \E p \in Pushes :
              \/ \E W \in SUBSET Pushes : Reviewed(W, p)
              \/ Closes(p) /\ UNCHANGED branch
              \/ Closes(p) /\ branch' = [branch EXCEPT ![p] = preview[p]]
         \/ Still
  PROVE  [Promise!Next]_Promise!reviewVars
<1> DEFINE stages == [p \in Pushes |-> IF pushStatus[p] = NoRow THEN "none"
                        ELSE IF \/ branch[p] # NoBranch
                                \/ pushStatus[p] \in {"CANCELLED", "FAILED"}
                             THEN "closed" ELSE "open"]
<1>1. stages = [p \in Pushes |-> Stage(p)]
  BY DEF Stage
<1>2. stages' = [p \in Pushes |-> Stage(p)']
  BY DEF Stage
<1>4. ASSUME NEW p \in Pushes, NEW W \in SUBSET Pushes, Reviewed(W, p)
      PROVE  Promise!Next
  <2>1. PICK x \in [content : Contents, parent : Heads] :
            preview' = [preview EXCEPT ![p] = x]
    BY <1>4 DEF Reviewed
  <2>2. stages[p] = "none" /\ W \in SUBSET {q \in Pushes : stages[q] = "open"}
    BY <1>1, <1>4 DEF Reviewed
  <2>3. stages' = [q \in Pushes |-> IF q = p THEN "open"
                                   ELSE IF q \in W THEN "closed" ELSE stages[q]]
    BY <1>1, <1>2, <1>4 DEF Reviewed
  <2> HIDE DEF stages
  <2>4. \E V \in SUBSET {q \in Pushes : stages[q] = "open"} :
            stages' = [q \in Pushes |-> IF q = p THEN "open"
                                       ELSE IF q \in V THEN "closed" ELSE stages[q]]
    BY <2>2, <2>3
  <2>5. Promise!Review(p, x)
    BY <1>4, <2>1, <2>2, <2>4 DEF Reviewed, Promise!Review, stages
  <2>6. QED
    BY <2>5 DEF Promise!Next
<1>5. ASSUME NEW p \in Pushes, Closes(p)
      PROVE  stages[p] = "open" /\ stages' = [stages EXCEPT ![p] = "closed"]
  BY <1>1, <1>2, <1>5, ZenonT(40) DEF Closes
<1>6. ASSUME NEW p \in Pushes, Closes(p), UNCHANGED branch
      PROVE  Promise!Next
  <2>1. Promise!Withdraw(p)
    BY <1>5, <1>6 DEF Closes, Promise!Withdraw
  <2>2. QED
    BY <2>1 DEF Promise!Next
<1>7. ASSUME NEW p \in Pushes, Closes(p), branch' = [branch EXCEPT ![p] = preview[p]]
      PROVE  Promise!Next
  <2>1. Promise!Publish(p)
    BY <1>5, <1>7 DEF Closes, Promise!Publish
  <2>2. QED
    BY <2>1 DEF Promise!Next
<1>8. CASE Still
  <2>1. stages' = stages
    BY <1>1, <1>2, <1>8 DEF Still
  <2>2. QED
    BY <1>8, <2>1 DEF Still, Promise!reviewVars
<1>9. QED
  BY <1>4, <1>6, <1>7, <1>8

\* Steps that change no row change nothing of the promise.
LEMMA StillStep ==
  ASSUME UNCHANGED <<pushStatus, preview, branch>>
  PROVE  Still
BY DEF Still, Stage

LEMMA CreateReviews ==
  ASSUME PushInv, NEW r \in PushRequests, NEW p \in Pushes, PreviewCreates(r, p)
  PROVE  \E W \in SUBSET Pushes : Reviewed(W, p)
<1> DEFINE W == {q \in Pushes : pushStatus[q] = "PENDING" /\ pushStatus'[q] = "CANCELLED"}
<1>1. \A q \in Pushes : pushStatus[q] \in {NoRow, "PENDING"} => branch[q] = NoBranch
  BY DEF PushInv, BranchOfClaim, NoRow
<1>2. UNCHANGED branch
  BY DEF PreviewCreates
<1>3. Stage(p) = "none" /\ Stage(p)' = "open"
  BY <1>1, <1>2, CreateRows DEF Stage, NoRow
<1>4. \A q \in W : Stage(q) = "open" /\ Stage(q)' = "closed"
  BY <1>1 DEF Stage, NoRow
<1>5. \A q \in Pushes \ W : q # p => Stage(q)' = Stage(q)
  BY <1>2, CreateRows DEF Stage
<1>6. \E x \in [content : Contents, parent : Heads] : preview' = [preview EXCEPT ![p] = x]
  BY DEF PreviewCreates, PushInv, Holds
<1>7. p \notin W
  BY CreateRows DEF NoRow
<1>8. W \subseteq Pushes
  OBVIOUS
<1> HIDE DEF W
<1>9. \A q \in Pushes :
        Stage(q)' = IF q = p THEN "open" ELSE IF q \in W THEN "closed" ELSE Stage(q)
  BY <1>3, <1>4, <1>5, <1>7
<1>10. QED
  BY <1>2, <1>3, <1>4, <1>6, <1>8, <1>9 DEF Reviewed

\* One row is replaced, and its push is closed by it or was before.
LEMMA RowReplaced ==
  ASSUME PushInv, NEW p \in Pushes, NEW status \in PushStatus, SetStatus(p, status),
         \A q \in Pushes \ {p} : branch'[q] = branch[q]
  PROVE  /\ pushStatus'[p] = status
         /\ \A q \in Pushes \ {p} : Stage(q)' = Stage(q)
<1>1. \A q \in Pushes : pushStatus'[q] = IF q = p THEN status ELSE pushStatus[q]
  BY DEF PushInv, PushTypeOK, SetStatus
<1>2. QED
  BY <1>1 DEF Stage

LEMMA PushStepPromised ==
  ASSUME PushInv, [PushNext]_pushVars
  PROVE  [Promise!Next]_Promise!reviewVars
<1> USE DEF LateStep
<1>1. CASE \/ UNCHANGED pushVars \/ WorkspaceChanges \/ BaseMoves
           \/ \E r \in PushRequests :
                \/ PreviewReadsBase(r) \/ PreviewScans(r) \/ PreviewSupersedes(r)
                \/ \E p \in Pushes : ConfirmFinds(r, p)
                \/ ConfirmScans(r) \/ ConfirmReadsBase(r) \/ PushGivesUp(r)
                \/ PushDies(r)
  <2>1. UNCHANGED <<pushStatus, preview, branch>>
    BY <1>1 DEF pushVars, WorkspaceChanges, BaseMoves, PreviewReadsBase, PreviewScans,
         PreviewSupersedes, ConfirmFinds, ConfirmScans, ConfirmReadsBase, PushGivesUp,
         PushDies, PushStep
  <2>2. QED
    BY <2>1, StillStep, StepOfPromise
<1>2. ASSUME NEW p \in Pushes, CancelPush(p)
      PROVE  [Promise!Next]_Promise!reviewVars
  <2>1. /\ pushStatus[p] = "PENDING" /\ SetStatus(p, "CANCELLED")
        /\ UNCHANGED <<preview, branch>> /\ branch[p] = NoBranch
    BY <1>2 DEF CancelPush, PushInv, BranchOfClaim
  <2>2. Stage(p) = "open" /\ Stage(p)' = "closed"
    BY <2>1, RowReplaced DEF Stage, NoRow, PushStatus
  <2>3. Closes(p)
    BY <2>1, <2>2, RowReplaced DEF Closes, PushStatus
  <2>4. QED
    BY <2>1, <2>3, StepOfPromise
<1>3. ASSUME NEW r \in PushRequests, NEW p \in Pushes, PreviewCreates(r, p)
      PROVE  [Promise!Next]_Promise!reviewVars
  BY <1>3, CreateReviews, StepOfPromise
<1>4. ASSUME NEW r \in PushRequests, ConfirmClaims(r)
      PROVE  [Promise!Next]_Promise!reviewVars
  <2>1. PICK p \in Pushes :
           /\ pushStatus[p] = "PENDING" /\ branch[p] = NoBranch
           /\ SetStatus(p, "CONFIRMED") /\ UNCHANGED <<preview, branch>>
    BY <1>4 DEF ConfirmClaims, Claimable, PushInv, Holds, BranchOfClaim
  <2>2. Stage(p) = "open" /\ Stage(p)' = "open"
    BY <2>1, RowReplaced DEF Stage, NoRow, PushStatus
  <2>3. Still
    BY <2>1, <2>2, RowReplaced DEF Still, PushStatus
  <2>4. QED
    BY <2>3, StepOfPromise
<1>5. ASSUME NEW r \in PushRequests, ConfirmBranches(r)
      PROVE  [Promise!Next]_Promise!reviewVars
  <2>1. PICK p \in Pushes :
           /\ pushStatus[p] = "CONFIRMED" /\ branch[p] = NoBranch
           /\ pushStatus' = pushStatus \/ SetStatus(p, "FAILED")
           /\ branch' = [branch EXCEPT ![p] = preview[p]] /\ UNCHANGED preview
           /\ preview[p] # NoBranch
    BY <1>5, PayloadShown DEF ConfirmBranches, PushInv, Holds
  <2>2. branch'[p] # NoBranch /\ \A q \in Pushes \ {p} : branch'[q] = branch[q]
    BY <2>1 DEF PushInv, PushTypeOK
  <2>3. pushStatus'[p] # NoRow /\ \A q \in Pushes \ {p} : Stage(q)' = Stage(q)
    <3>1. CASE pushStatus' = pushStatus
      BY <2>1, <2>2, <3>1 DEF Stage, NoRow
    <3>2. CASE SetStatus(p, "FAILED")
      BY <2>1, <2>2, <3>2, RowReplaced DEF NoRow, PushStatus
    <3>3. QED
      BY <2>1, <3>1, <3>2
  <2>4. Stage(p) = "open" /\ Stage(p)' = "closed"
    BY <2>1, <2>2, <2>3 DEF Stage, NoRow
  <2>5. Closes(p)
    BY <2>1, <2>3, <2>4 DEF Closes
  <2>6. QED
    BY <2>1, <2>5, StepOfPromise
<1>6. ASSUME NEW r \in PushRequests, ConfirmCompletes(r)
      PROVE  [Promise!Next]_Promise!reviewVars
  <2>1. PICK p \in Pushes :
           /\ pushStatus[p] = "CONFIRMED" /\ branch[p] # NoBranch
           /\ SetStatus(p, "COMPLETED") /\ UNCHANGED <<preview, branch>>
    BY <1>6 DEF ConfirmCompletes, PushInv, Holds
  <2>2. Stage(p) = "closed" /\ Stage(p)' = "closed"
    BY <2>1, RowReplaced DEF Stage, NoRow, PushStatus
  <2>3. Still
    BY <2>1, <2>2, RowReplaced DEF Still, PushStatus
  <2>4. QED
    BY <2>3, StepOfPromise
<1>7. ASSUME NEW r \in PushRequests, ConfirmFails(r)
      PROVE  [Promise!Next]_Promise!reviewVars
  <2>1. PICK p \in Pushes :
           /\ pushStatus[p] = "CONFIRMED"
           /\ SetStatus(p, "FAILED") /\ UNCHANGED <<preview, branch>>
    BY <1>7 DEF ConfirmFails, PushInv, Holds
  <2>2. Stage(p)' = "closed" /\ Stage(p) \in {"open", "closed"}
    BY <2>1, RowReplaced DEF Stage, NoRow, PushStatus
  <2>3. CASE Stage(p) = "open"
    <3>1. Closes(p)
      BY <2>1, <2>2, <2>3, RowReplaced DEF Closes, PushStatus
    <3>2. QED
      BY <2>1, <3>1, StepOfPromise
  <2>4. CASE Stage(p) = "closed"
    <3>1. Still
      BY <2>1, <2>2, <2>4, RowReplaced DEF Still, PushStatus
    <3>2. QED
      BY <3>1, StepOfPromise
  <2>5. QED
    BY <2>2, <2>3, <2>4
<1>8. QED
  BY <1>1, <1>2, <1>3, <1>4, <1>5, <1>6, <1>7 DEF PushNext

\* For any number of previews and requests, what reaches GitHub is what a
\* preview showed, once, and never after it was withdrawn: previewPush,
\* confirmPush and cancelPush implement ReviewedPush.
THEOREM PushesAreReviewed == PushSpec => PushesReviewed
<1>1. PushInit => Promise!Init
  <2>1. [content |-> 1, parent |-> 1] \in [content : Contents, parent : Heads]
    BY PushAssumption DEF Contents, Heads
  <2>2. QED
    BY <2>1 DEF PushInit, Promise!Init
<1>2. PushInv /\ [PushNext]_pushVars => [Promise!Next]_Promise!reviewVars
  BY PushStepPromised
<1>3. QED
  BY <1>1, <1>2, PushInvHolds, PTL DEF PushSpec, PushesReviewed, Promise!Spec

=============================================================================
