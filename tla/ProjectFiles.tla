----------------------------- MODULE ProjectFiles -----------------------------
(***************************************************************************)
(* One file of a project: its row in the database, its bytes in the        *)
(* workspace on disk, and the tool calls of model turns that change both   *)
(* in separate steps.  Files of different paths do not meet, so one path   *)
(* is modelled; the routes of the user interface call the same functions,  *)
(* and a call of theirs is a tool call without its record.                 *)
(*                                                                         *)
(* A tool call is known by its idempotency key and may be attempted again  *)
(* at any time: its activity is retried when an attempt died, or timed out *)
(* and still runs.  A text is a number, what an edit looks for is the      *)
(* whole text, and NoText looks for nothing.  Checksums, revisions and     *)
(* embeddings are written with the row and decide nothing: left out.       *)
(***************************************************************************)
EXTENDS Naturals

CONSTANTS
    CallKeys,        \* bound: tool calls
    Attempts,        \* bound: attempts of tool calls, and workspace syncs
    Texts,           \* contents of the file
    MaxFileFaults    \* bound: deaths and failing disk writes in one behaviour

NoText == 0
NoKey == "NO_KEY"    \* a sync belongs to no tool call

ASSUME FileAssumption ==
    /\ NoText \notin Texts
    /\ NoKey \notin CallKeys \union Attempts
    /\ MaxFileFaults \in Nat

VARIABLES
    row,             \* File: the attempt that created it and File.content
    disk,            \* the bytes in the workspace
    callStatus,      \* ToolCall.status
    asked,           \* tool and arguments of each call
    attempt,         \* where each attempt is, and what it read
    fileFaults,      \* faults so far
    overlapped       \* two attempts ran at one time (history)

fileVars == <<row, disk, callStatus, asked, attempt, fileFaults, overlapped>>

CallStatus == {"NO_ROW", "STARTED", "SUCCEEDED", "FAILED"}

Tools ==
    [tool : {"create_file"}, old : {NoText}, text : Texts]
    \union [tool : {"edit_file"}, old : Texts \union {NoText}, text : Texts]
    \union [tool : {"delete_file"}, old : {NoText}, text : {NoText}]

Sync == [tool |-> "sync", old |-> NoText, text |-> NoText]

NoFile == [id |-> NoKey, text |-> NoText]

NewAttempt == [step |-> "new", key |-> NoKey, row |-> NoFile, ignored |-> FALSE]

FileSteps == {"starting", "looking", "inserting", "lost", "writing", "stamping", "undoing",
              "rewriting", "reading", "relooking", "overwriting", "committing", "dropping",
              "unlinking", "comparing", "restoring", "succeeding", "failing"}

FileTypeOK ==
    /\ row \in [id : Attempts, text : Texts] \union {NoFile}
    /\ disk \in Texts \union {NoText}
    /\ callStatus \in [CallKeys -> CallStatus]
    /\ asked \in [CallKeys -> Tools]
    /\ attempt \in [Attempts ->
            [step : FileSteps \union {"new", "ended"}, key : CallKeys \union {NoKey},
             row : [id : Attempts, text : Texts] \union {NoFile}, ignored : BOOLEAN]]
    /\ fileFaults \in 0 .. MaxFileFaults
    /\ overlapped \in BOOLEAN

\* What the calls ask for is chosen with the first state.
FileInit ==
    /\ row = NoFile
    /\ disk = NoText
    /\ callStatus = [k \in CallKeys |-> "NO_ROW"]
    /\ asked \in [CallKeys -> Tools]
    /\ attempt = [a \in Attempts |-> NewAttempt]
    /\ fileFaults = 0
    /\ overlapped = FALSE

-----------------------------------------------------------------------------
(* Helpers *)

Running(a) == attempt[a].step \in FileSteps

AtRest == \A a \in Attempts : ~Running(a)

Call(a) == IF attempt[a].key = NoKey THEN Sync ELSE asked[attempt[a].key]

\* The attempt is at this step, of a call of this tool.
At(a, step, tool) == attempt[a].step = step /\ Call(a).tool = tool

Goes(a, step) == attempt' = [attempt EXCEPT ![a].step = step]

GoesWith(a, step, seen) == attempt' = [attempt EXCEPT ![a].step = step, ![a].row = seen]

FileFault == fileFaults < MaxFileFaults /\ fileFaults' = fileFaults + 1

KeepsFile == UNCHANGED <<row, disk>>

KeepsCalls == UNCHANGED <<callStatus, asked, overlapped>>

\* Only the attempt moves on.
Moves(a, step) == Goes(a, step) /\ KeepsFile /\ KeepsCalls /\ UNCHANGED fileFaults

\* The file is staged beside its target and renamed: all or nothing.
WriteDisk(a, text, step) ==
    /\ disk' = text
    /\ Goes(a, step)
    /\ UNCHANGED <<row, fileFaults>>
    /\ KeepsCalls

DiskFails(a, step) == Goes(a, step) /\ KeepsFile /\ KeepsCalls /\ FileFault

-----------------------------------------------------------------------------
(* executeToolWithAudit *)

\* A call that succeeded is answered from its record.
Replayed(k) == callStatus[k] = "SUCCEEDED"

CallLooks(a, k) ==
    /\ attempt[a].step = "new"
    /\ attempt' = [attempt EXCEPT ![a].key = k,
                        ![a].step = IF Replayed(k) THEN "ended"
                                    ELSE IF callStatus[k] = "NO_ROW" THEN "starting"
                                    ELSE "looking"]
    /\ overlapped' = (overlapped \/ ~AtRest)
    /\ KeepsFile
    /\ UNCHANGED <<callStatus, asked, fileFaults>>

\* The unique key lets the first of two attempts create the record.
CallStarts(a) ==
    /\ attempt[a].step = "starting"
    /\ callStatus' = [callStatus EXCEPT ![attempt[a].key] =
                        IF @ = "NO_ROW" THEN "STARTED" ELSE @]
    /\ Goes(a, "looking")
    /\ KeepsFile
    /\ UNCHANGED <<asked, overlapped, fileFaults>>

\* The outcome replaces what another attempt may have recorded.
CallRecords(a) ==
    /\ attempt[a].step \in {"succeeding", "failing"}
    /\ callStatus' = [callStatus EXCEPT ![attempt[a].key] =
                        IF attempt[a].step = "succeeding" THEN "SUCCEEDED" ELSE "FAILED"]
    /\ Goes(a, "ended")
    /\ KeepsFile
    /\ UNCHANGED <<asked, overlapped, fileFaults>>

AttemptDies(a) ==
    /\ Running(a)
    /\ Goes(a, "ended")
    /\ KeepsFile /\ KeepsCalls
    /\ FileFault

-----------------------------------------------------------------------------
(* createProjectFile *)

\* Mutant: the file is there, so nothing is done.
NothingToDo == "succeeding"

\* A retried call finds its own row, whose text may not have reached the disk.
AfterFinding == "rewriting"

CreateLooks(a) ==
    /\ At(a, "looking", "create_file")
    /\ Moves(a, IF row = NoFile THEN "inserting"
                ELSE IF row.text = Call(a).text THEN AfterFinding ELSE "failing")

\* The file is there with the same text: written again, and if that fails,
\* never mind.
CreateRewrites(a) ==
    /\ attempt[a].step = "rewriting"
    /\ \/ WriteDisk(a, Call(a).text, "succeeding")
       \/ /\ attempt' = [attempt EXCEPT ![a].step = "succeeding", ![a].ignored = TRUE]
          /\ KeepsFile /\ KeepsCalls
          /\ FileFault

\* After its insert, createProjectFile writes the workspace.
AfterInsert == "writing"

CreateInserts(a) ==
    /\ attempt[a].step = "inserting"
    /\ IF row = NoFile
       THEN row' = [id |-> a, text |-> Call(a).text] /\ Goes(a, AfterInsert)
       ELSE Goes(a, "lost") /\ UNCHANGED row
    /\ UNCHANGED <<disk, fileFaults>>
    /\ KeepsCalls

CreateFindsWinner(a) ==
    /\ attempt[a].step = "lost"
    /\ Moves(a, IF row # NoFile /\ row.text = Call(a).text THEN "succeeding" ELSE "failing")

CreateWrites(a) ==
    /\ attempt[a].step = "writing"
    /\ \/ WriteDisk(a, Call(a).text, "stamping")
       \/ DiskFails(a, "undoing")

CreateStamps(a) ==
    /\ attempt[a].step = "stamping"
    /\ Moves(a, IF row.id = a THEN "succeeding" ELSE "undoing")

\* "do not leave a DB-only phantom file"
CreateUndoes(a) ==
    /\ attempt[a].step = "undoing"
    /\ row' = IF row.id = a THEN NoFile ELSE row
    /\ Goes(a, "failing")
    /\ UNCHANGED <<disk, fileFaults>>
    /\ KeepsCalls

-----------------------------------------------------------------------------
(* editFile, updateProjectFile *)

EditLooks(a) ==
    /\ At(a, "looking", "edit_file")
    /\ GoesWith(a, IF row = NoFile THEN "failing" ELSE "reading", row)
    /\ KeepsFile /\ KeepsCalls
    /\ UNCHANGED fileFaults

\* readProjectFile prefers the workspace.
Base(a) == IF disk # NoText THEN disk ELSE attempt[a].row.text

EditReads(a) ==
    /\ attempt[a].step = "reading"
    /\ Moves(a, IF Call(a).old \in {NoText, Base(a)} THEN "relooking" ELSE "failing")

EditLooksAgain(a) ==
    /\ attempt[a].step = "relooking"
    /\ Moves(a, IF row = NoFile THEN "failing" ELSE "overwriting")

EditOverwrites(a) ==
    /\ attempt[a].step = "overwriting"
    /\ \/ WriteDisk(a, Call(a).text, "committing")
       \/ DiskFails(a, "failing")

\* Mutant: the mirror is left as it was.
RowAsItWas(a) == row

\* The row of the path, whoever created it, gets the new text.
Mirrored(a) == [row EXCEPT !.text = Call(a).text]

EditCommits(a) ==
    /\ attempt[a].step = "committing"
    /\ IF row = NoFile
       THEN Goes(a, "failing") /\ UNCHANGED row
       ELSE row' = Mirrored(a) /\ Goes(a, "succeeding")
    /\ UNCHANGED <<disk, fileFaults>>
    /\ KeepsCalls

-----------------------------------------------------------------------------
(* deleteProjectFile *)

DeleteLooks(a) ==
    /\ At(a, "looking", "delete_file")
    /\ GoesWith(a, IF row = NoFile THEN "failing" ELSE "dropping", row)
    /\ KeepsFile /\ KeepsCalls
    /\ UNCHANGED fileFaults

DeleteDrops(a) ==
    /\ attempt[a].step = "dropping"
    /\ IF row.id = attempt[a].row.id
       THEN row' = NoFile /\ Goes(a, "unlinking")
       ELSE Goes(a, "failing") /\ UNCHANGED row
    /\ UNCHANGED <<disk, fileFaults>>
    /\ KeepsCalls

DeleteUnlinks(a) ==
    /\ attempt[a].step = "unlinking"
    /\ \/ WriteDisk(a, NoText, "succeeding")
       \/ DiskFails(a, "failing")

-----------------------------------------------------------------------------
(* syncProjectWorkspace *)

SyncLooks(a) ==
    /\ attempt[a].step = "new"
    /\ GoesWith(a, IF row = NoFile THEN "ended" ELSE "comparing", row)
    /\ overlapped' = (overlapped \/ ~AtRest)
    /\ KeepsFile
    /\ UNCHANGED <<callStatus, asked, fileFaults>>

Stale(a) == disk # attempt[a].row.text

SyncCompares(a) ==
    /\ attempt[a].step = "comparing"
    /\ Moves(a, IF Stale(a) THEN "restoring" ELSE "ended")

SyncRestores(a) ==
    /\ attempt[a].step = "restoring"
    /\ \/ WriteDisk(a, attempt[a].row.text, "ended")
       \/ DiskFails(a, "ended")

-----------------------------------------------------------------------------

FileNext ==
    \E a \in Attempts :
        \/ \E k \in CallKeys : CallLooks(a, k)
        \/ CallStarts(a) \/ CallRecords(a) \/ AttemptDies(a)
        \/ CreateLooks(a) \/ CreateRewrites(a) \/ CreateInserts(a) \/ CreateFindsWinner(a)
        \/ CreateWrites(a) \/ CreateStamps(a) \/ CreateUndoes(a)
        \/ EditLooks(a) \/ EditReads(a) \/ EditLooksAgain(a) \/ EditOverwrites(a) \/ EditCommits(a)
        \/ DeleteLooks(a) \/ DeleteDrops(a) \/ DeleteUnlinks(a)
        \/ SyncLooks(a) \/ SyncCompares(a) \/ SyncRestores(a)

FileSpec == FileInit /\ [][FileNext]_fileVars

-----------------------------------------------------------------------------
(* Properties *)

\* A record of success is true and stays.  A call that is recorded as SUCCEEDED
\* has done what it was asked to, in the row and in the workspace, whatever its
\* earlier attempts left behind when they died or failed half-way; and no later
\* attempt runs it again, fails and says so.  It holds for attempts that follow
\* one another, and unless createProjectFile ignored a failed write.
SuccessMeansDone ==
    [][/\ \A a \in Attempts :
           /\ attempt[a].step = "succeeding" /\ ~attempt[a].ignored /\ ~overlapped
           /\ attempt'[a].step = "ended" /\ fileFaults' = fileFaults
           => row'.text = Call(a).text /\ disk' = Call(a).text
       /\ \A k \in CallKeys :
           callStatus[k] = "SUCCEEDED" /\ ~overlapped' => callStatus'[k] = "SUCCEEDED"
      ]_fileVars

\* "a Postgres mirror": at rest, when nothing failed, the row and the workspace
\* hold the same text if no two attempts met; attempts that met still leave the
\* file in both places or in neither, as long as no call deletes it.
MirrorAgrees ==
    fileFaults = 0 /\ AtRest =>
        /\ ~overlapped => disk = row.text
        /\ (\A k \in CallKeys : asked[k].tool # "delete_file") =>
               (disk = NoText <=> row = NoFile)
=============================================================================
