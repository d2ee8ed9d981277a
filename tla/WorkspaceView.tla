----------------------------- MODULE WorkspaceView -----------------------------
(***************************************************************************)
(* The page of a project.  It shows what the last answer to arrive said:   *)
(* a load asks six routes at once and applies their answers together, a    *)
(* timer loads again while the page shows a running build, another asks    *)
(* for the verification while that is shown as running.  Answers are not   *)
(* ordered; each route reads the server at a moment of its own.  IDLE is   *)
(* every status but IN_PROGRESS: the page offers a build for most of them, *)
(* and nothing for INCOMPLETE.                                             *)
(*                                                                         *)
(* The file editor beside it holds one file and one draft: opens, saves    *)
(* and deletions answer when they do.  A draft, and the text of a file, is *)
(* the file whose text it was made from.                                   *)
(***************************************************************************)
EXTENDS Naturals, FiniteSets

CONSTANTS
    Loads,         \* bound: loads under way at once
    MaxNews,       \* bound: builds and verifications that begin by themselves
    ViewFiles,     \* the files listed
    FileCalls      \* bound: calls of the editor under way at once

ASSUME ViewAssumption == MaxNews \in Nat

Statuses == {"IDLE", "IN_PROGRESS"}
ReportStates == {"over", "RUNNING"}
NoFile == "none"
Unread == "unread"

VARIABLES
    server,        \* the project's status, and that of its latest report
    view,          \* what the page shows of them
    load,          \* of each load, what its routes have read
    poll,          \* the verification poll: what its route has read
    acting,        \* the action that set busy, and its state
    news           \* builds and verifications that began by themselves

VARIABLES
    selected,      \* selectedFile
    draft,         \* fileDraft
    text,          \* of each file, the text the workspace has
    fileBusy,
    call,          \* of each call of the editor, what it is
    crossed        \* history: an answer moved the editor under a save

pollingVars == <<server, view, load, poll, acting, news>>
editorVars == <<selected, draft, text, fileBusy, call, crossed>>
viewVars == <<pollingVars, editorVars>>

FreeLoad == [asked |-> FALSE, status |-> Unread, report |-> Unread]
FreeCall == [kind |-> "free", step |-> "asked", file |-> NoFile, draft |-> NoFile,
             held |-> NoFile]

PollingInit ==
    /\ server = [status |-> "IDLE", report |-> "over"]
    /\ view = [status |-> Unread, report |-> "over"]
    /\ load = [l \in Loads |-> FreeLoad]
    /\ poll = [asked |-> FALSE, report |-> Unread]
    /\ acting = "none"
    /\ news = 0

EditorInit ==
    /\ selected = NoFile
    /\ draft = NoFile
    /\ text = [f \in ViewFiles |-> f]
    /\ fileBusy = FALSE
    /\ call = [k \in FileCalls |-> FreeCall]
    /\ crossed = FALSE

-----------------------------------------------------------------------------
(* load and the timers *)

\* load is called with a free slot.
LoadIsSent(l) ==
    /\ ~load[l].asked
    /\ load' = [load EXCEPT ![l].asked = TRUE]

\* The page is opened, or again after its first load failed.
Mounts ==
    /\ view.status = Unread /\ \A l \in Loads : ~load[l].asked
    /\ \E l \in Loads : LoadIsSent(l)
    /\ UNCHANGED <<server, view, poll, acting, news>>

\* The interval of two seconds, while the page shows a running build.
LoadTimer ==
    /\ view.status = "IN_PROGRESS"
    /\ \E l \in Loads : LoadIsSent(l)
    /\ UNCHANGED <<server, view, poll, acting, news>>

RouteReads(l) ==
    /\ load[l].asked
    /\ \/ load[l].status = Unread /\ load' = [load EXCEPT ![l].status = server.status]
       \/ load[l].report = Unread /\ load' = [load EXCEPT ![l].report = server.report]
    /\ UNCHANGED <<server, view, poll, acting, news>>

\* Mutant: a load applies a running build only.
OnlyRunning(l) == IF load[l].status = "IN_PROGRESS" THEN load[l].status ELSE view.status

Shown(l) == load[l].status

WasRead(l) == load[l].asked /\ Unread \notin {load[l].status, load[l].report}

\* Whatever arrives last is shown, however long ago it was read.
LoadArrives(l) ==
    /\ WasRead(l)
    /\ view' = [status |-> Shown(l), report |-> load[l].report]
    /\ load' = [load EXCEPT ![l] = FreeLoad]
    /\ UNCHANGED <<server, poll, acting, news>>

\* One of the six fails: none is applied.  What the others read is lost, so it
\* makes no difference if they did.
LoadFails(l) ==
    /\ WasRead(l)
    /\ load' = [load EXCEPT ![l] = FreeLoad]
    /\ UNCHANGED <<server, view, poll, acting, news>>

PollTimer ==
    /\ view.report = "RUNNING" /\ ~poll.asked
    /\ poll' = [asked |-> TRUE, report |-> Unread]
    /\ UNCHANGED <<server, view, load, acting, news>>

PollReads ==
    /\ poll.asked /\ poll.report = Unread
    /\ poll' = [poll EXCEPT !.report = server.report]
    /\ UNCHANGED <<server, view, load, acting, news>>

PollArrives ==
    /\ poll.asked /\ poll.report # Unread
    /\ view' = [view EXCEPT !.report = poll.report]
    /\ poll' = [asked |-> FALSE, report |-> Unread]
    /\ UNCHANGED <<server, load, acting, news>>

PollFails ==
    /\ poll.asked /\ poll.report # Unread
    /\ poll' = [asked |-> FALSE, report |-> Unread]
    /\ UNCHANGED <<server, view, load, acting, news>>

-----------------------------------------------------------------------------
(* The actions, one at a time: their buttons wait for busy *)

\* startBuild and retryBuild, cancelBuild, runVerification.
Buttons == {"build", "cancelBuild", "runVerification"}

Offered(action) ==
    CASE action = "build" -> view.status = "IDLE"
      [] action = "cancelBuild" -> view.status = "IN_PROGRESS"
      [] action = "runVerification" -> view.status # Unread

Presses(action) ==
    /\ acting = "none" /\ Offered(action)
    /\ acting' = action
    /\ UNCHANGED <<server, view, load, poll, news>>

\* The route does what was asked, or refuses what no longer fits.
ServerActs ==
    /\ acting \in Buttons
    /\ \/ /\ acting = "build" /\ server.status = "IDLE"
          /\ server' = [server EXCEPT !.status = "IN_PROGRESS"]
          /\ acting' = "accepted"
       \/ /\ acting = "cancelBuild" /\ server.status = "IN_PROGRESS"
          /\ server' = [server EXCEPT !.status = "IDLE"]
          /\ acting' = "accepted"
       \/ /\ acting = "runVerification"
          /\ server' = [server EXCEPT !.report = "RUNNING"]
          /\ acting' = "verifying"
       \/ acting' = "none" /\ UNCHANGED server
    /\ UNCHANGED <<view, load, poll, news>>

\* An action that was accepted loads; runVerification shows its answer.
Answered ==
    /\ \/ /\ acting = "accepted"
          /\ \E l \in Loads : LoadIsSent(l)
          /\ UNCHANGED view
       \/ /\ acting = "verifying"
          /\ view' = [view EXCEPT !.report = "RUNNING"]
          /\ UNCHANGED load
    /\ acting' = "none"
    /\ UNCHANGED <<server, poll, news>>

-----------------------------------------------------------------------------
(* What happens on the server by itself *)

BuildEnds ==
    /\ server.status = "IN_PROGRESS"
    /\ server' = [server EXCEPT !.status = "IDLE"]
    /\ UNCHANGED <<view, load, poll, acting, news>>

VerificationEnds ==
    /\ server.report = "RUNNING"
    /\ server' = [server EXCEPT !.report = "over"]
    /\ UNCHANGED <<view, load, poll, acting, news>>

\* The verification after a build, the repair after a verification.
BeginsByItself ==
    /\ news < MaxNews
    /\ \/ server' = [server EXCEPT !.report = "RUNNING"]
       \/ server' = [server EXCEPT !.status = "IN_PROGRESS"]
    /\ news' = news + 1
    /\ UNCHANGED <<view, load, poll, acting>>

PollingNext ==
    \/ Mounts \/ LoadTimer \/ PollTimer \/ PollReads \/ PollArrives \/ PollFails
    \/ \E l \in Loads : RouteReads(l) \/ LoadArrives(l) \/ LoadFails(l)
    \/ \E a \in Buttons : Presses(a)
    \/ ServerActs \/ Answered
    \/ BuildEnds \/ VerificationEnds \/ BeginsByItself

\* Timers fire and the routes answer; of loads that are sent again and again,
\* some arrive.
PollingFairness ==
    /\ WF_pollingVars(LoadTimer) /\ WF_pollingVars(PollTimer) /\ WF_pollingVars(PollReads)
    /\ SF_pollingVars(PollArrives)
    /\ \A l \in Loads : WF_pollingVars(RouteReads(l)) /\ SF_pollingVars(LoadArrives(l))

-----------------------------------------------------------------------------
(* The file editor *)

Free(k) == call[k].kind = "free"
Sent(k, what) == call' = [call EXCEPT ![k] = what] /\ fileBusy' = TRUE
SaveUnderWay == \E k \in FileCalls : call[k].kind = "save" /\ call[k].step # "loading"

\* The list is there whatever fileBusy says.
Opens(k, f) ==
    /\ Free(k)
    /\ Sent(k, [FreeCall EXCEPT !.kind = "open", !.file = f])
    /\ UNCHANGED <<selected, draft, text, crossed>>

\* The button is there for a file, and waits for fileBusy.
MaySave == selected # NoFile /\ ~fileBusy

Saves(k) ==
    /\ Free(k) /\ MaySave
    /\ Sent(k, [FreeCall EXCEPT !.kind = "save", !.file = selected, !.draft = draft])
    /\ UNCHANGED <<selected, draft, text, crossed>>

\* deleteFile compares with what was selected when it was pressed.
Deletes(k, f) ==
    /\ Free(k)
    /\ Sent(k, [FreeCall EXCEPT !.kind = "delete", !.file = f, !.held = selected])
    /\ UNCHANGED <<selected, draft, text, crossed>>

\* The route does its work; a file that is gone is not found.
CallIsServed(k) ==
    LET c == call[k]
    IN  /\ c.kind # "free" /\ c.step = "asked" /\ text[c.file] # NoFile
        /\ text' = IF c.kind = "open" THEN text ELSE [text EXCEPT ![c.file] = c.draft]
        /\ call' = [call EXCEPT ![k].step = "served", ![k].draft = text'[c.file]]
        /\ UNCHANGED <<selected, draft, fileBusy, crossed>>

EditorFails(k) ==
    /\ ~Free(k)
    /\ call' = [call EXCEPT ![k] = FreeCall]
    /\ fileBusy' = FALSE
    /\ UNCHANGED <<selected, draft, text, crossed>>

\* Mutant: the editor keeps its draft.
KeepsDraft(c) == draft

Drafted(c) == c.draft

OpenArrives(k) ==
    /\ call[k].kind = "open" /\ call[k].step = "served"
    /\ selected' = call[k].file
    /\ draft' = Drafted(call[k])
    /\ crossed' = (crossed \/ SaveUnderWay)
    /\ call' = [call EXCEPT ![k] = FreeCall]
    /\ fileBusy' = FALSE
    /\ UNCHANGED text

\* The file that was saved is selected; the draft is left as it is.
SaveArrives(k) ==
    /\ call[k].kind = "save" /\ call[k].step = "served"
    /\ selected' = call[k].file
    /\ call' = [call EXCEPT ![k].step = "loading"]
    /\ UNCHANGED <<draft, text, fileBusy, crossed>>

DeleteArrives(k) ==
    /\ call[k].kind = "delete" /\ call[k].step = "served"
    /\ IF call[k].held = call[k].file
       THEN selected' = NoFile /\ draft' = NoFile /\ crossed' = (crossed \/ SaveUnderWay)
       ELSE UNCHANGED <<selected, draft, crossed>>
    /\ call' = [call EXCEPT ![k].step = "loading"]
    /\ UNCHANGED <<text, fileBusy>>

\* The load after it, whose errors are its own.
CallEnds(k) ==
    /\ call[k].step = "loading"
    /\ call' = [call EXCEPT ![k] = FreeCall]
    /\ fileBusy' = FALSE
    /\ UNCHANGED <<selected, draft, text, crossed>>

EditorNext ==
    \E k \in FileCalls :
        \/ \E f \in ViewFiles : Opens(k, f) \/ Deletes(k, f)
        \/ Saves(k) \/ CallIsServed(k) \/ EditorFails(k)
        \/ OpenArrives(k) \/ SaveArrives(k) \/ DeleteArrives(k) \/ CallEnds(k)

ViewInit == PollingInit /\ EditorInit

ViewNext ==
    \/ PollingNext /\ UNCHANGED editorVars
    \/ EditorNext /\ UNCHANGED pollingVars

ViewSpec == ViewInit /\ [][ViewNext]_viewVars /\ PollingFairness

-----------------------------------------------------------------------------
(* Properties *)

ViewTypeOK ==
    /\ server \in [status : Statuses, report : ReportStates]
    /\ view \in [status : Statuses \union {Unread}, report : ReportStates]
    /\ load \in [Loads -> [asked : BOOLEAN, status : Statuses \union {Unread},
                           report : ReportStates \union {Unread}]]
    /\ poll \in [asked : BOOLEAN, report : ReportStates \union {Unread}]
    /\ acting \in Buttons \union {"none", "accepted", "verifying"}
    /\ news \in 0 .. MaxNews
    /\ selected \in ViewFiles \union {NoFile}
    /\ draft \in ViewFiles \union {NoFile}
    /\ text \in [ViewFiles -> ViewFiles \union {NoFile}]
    /\ fileBusy \in BOOLEAN /\ crossed \in BOOLEAN
    /\ call \in [FileCalls -> [kind : {"free", "open", "save", "delete"},
                    step : {"asked", "served", "loading"}, file : ViewFiles \union {NoFile},
                    draft : ViewFiles \union {NoFile}, held : ViewFiles \union {NoFile}]]

Running(it) == it.status = "IN_PROGRESS" \/ it.report = "RUNNING"

\* A page that shows a build or a verification as running when none is does not
\* go on to do so, whatever order the answers to loads, polls and actions arrive
\* in.
ViewSettles == Running(view) /\ ~Running(server) ~> ~Running(view) \/ Running(server)

\* The editor saves into a file the text that was opened from it, however its
\* opens, saves and deletions overlap: unless an open or a deletion answers
\* while a save is under way, which leaves the draft of one file beside the
\* name of another.
OwnText ==
    crossed \/ /\ draft = selected
               /\ \A f \in ViewFiles : text[f] \in {f, NoFile}
=============================================================================
