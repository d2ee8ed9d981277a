----------------------------- MODULE ProjectMemory -----------------------------
(***************************************************************************)
(* What a project remembers of one subject ("summary", "tech-stack:lang"): *)
(* the versions of it in MemoryEntry, and the tasks that write them.  A    *)
(* curation collects what the product's own rows say, merges it, embeds    *)
(* what it inserted and prunes what expired, each in an activity of its    *)
(* own; a user corrects or deletes a subject.                              *)
(*                                                                         *)
(* A merge is one READ COMMITTED transaction with two reads and its        *)
(* writes; the other operations read in one statement and write in a later *)
(* transaction.  Subjects do not meet, except that a merge of many         *)
(* candidates fails as a whole; rows are created in the order of their     *)
(* numbers; a content is known by its hash, which is also all that tells   *)
(* the content keys of one subject apart.                                  *)
(***************************************************************************)
EXTENDS Naturals, FiniteSets

CONSTANTS
    MaxEntries,      \* bound: rows ever created
    Memories,        \* contents of the subject
    MemoryTasks      \* bound: curations, corrections and deletions in flight

ASSUME MemoryAssumption == MaxEntries \in Nat

VARIABLES
    entry,           \* the rows of MemoryEntry
    task,            \* where each task is, and what it holds
    crossed,         \* two merges were between their reads and writes (history)
    revived          \* rows deleted while they were embedded (history)

memoryVars == <<entry, task, crossed, revived>>

Entries == 1 .. MaxEntries
NoEntry == [status |-> "NO_ROW"]
MemoryStatus == {"ACTIVE", "SUPERSEDED", "DELETED"}
SourceKind == {"curated", "user-correction"}

IdleTask == [step |-> "idle"]
Merging == {"keyed", "inserting"}

TaskStates ==
    {IdleTask, [step |-> "pruning"]}
    \union [step : {"collected", "keyed"}, content : Memories, kind : SourceKind]
    \union [step : {"inserting"}, content : Memories, kind : SourceKind,
            replaces : Entries \union {0}]
    \union [step : {"merged"}, content : Memories, kind : SourceKind,
            made : Entries \union {0}]
    \union [step : {"embedding"}, made : Entries]
    \union [step : {"expiring", "deleting"}, rows : SUBSET Entries]

MemoryTypeOK ==
    /\ entry \in [Entries -> {NoEntry} \union
                    [status : MemoryStatus, content : Memories, kind : SourceKind,
                     by : Entries \union {0}, vector : BOOLEAN]]
    /\ task \in [MemoryTasks -> TaskStates]
    /\ crossed \in BOOLEAN
    /\ revived \subseteq Entries

MemoryInit ==
    /\ entry = [i \in Entries |-> NoEntry]
    /\ task = [m \in MemoryTasks |-> IdleTask]
    /\ crossed = FALSE
    /\ revived = {}

-----------------------------------------------------------------------------
(* Helpers *)

Stored(c) == \E i \in Entries : entry[i] # NoEntry /\ entry[i].content = c
WithStatus(s) == {i \in Entries : entry[i].status = s}
Kept == {i \in Entries : entry[i].status \in {"ACTIVE", "SUPERSEDED"}}

IsNextEntry(i) ==
    /\ entry[i] = NoEntry
    /\ \A j \in Entries : j < i => entry[j] # NoEntry

Turns(m, state) == task' = [task EXCEPT ![m] = state]
KeepsMemory == UNCHANGED <<entry, revived>>

\* The merge of m is over for the subject, with row i inserted or with none.
Merged(m, i) ==
    Turns(m, [step |-> "merged", content |-> task[m].content, kind |-> task[m].kind,
              made |-> i])

-----------------------------------------------------------------------------
(* mergeMemoryCandidates *)

\* Mutant: what is curated is taken for more recent than any correction.
NewerWins(old, kind) == "supersede"

\* decideMemoryMerge, for a content that differs from the active one's.
Decision(old, kind) ==
    IF old.kind = "user-correction" /\ kind # "user-correction" THEN "skip" ELSE "supersede"

\* A curation collects what the product's rows say now; the merge comes later.
Collects(m, c) ==
    /\ task[m].step = "idle"
    /\ Turns(m, [step |-> "collected", content |-> c, kind |-> "curated"])
    /\ KeepsMemory
    /\ UNCHANGED crossed

Corrects(m, c) ==
    /\ task[m].step = "idle"
    /\ Turns(m, [step |-> "collected", content |-> c, kind |-> "user-correction"])
    /\ KeepsMemory
    /\ UNCHANGED crossed

\* A row of the same content, whatever became of it, makes the merge a no-op.
MergeFindsKey(m) ==
    /\ task[m].step = "collected"
    /\ IF Stored(task[m].content) THEN Merged(m, 0) ELSE Turns(m, [task[m] EXCEPT !.step = "keyed"])
    /\ KeepsMemory
    /\ crossed' = (crossed \/ \E n \in MemoryTasks \ {m} : task[n].step \in Merging)

\* The latest of several active rows is by updatedAt, which embedding touches
\* too: any of them.
MergeFindsActive(m) ==
    /\ task[m].step = "keyed"
    /\ LET goesOn(i) == Turns(m, [step |-> "inserting", content |-> task[m].content,
                                  kind |-> task[m].kind, replaces |-> i])
       IN  \/ WithStatus("ACTIVE") = {} /\ goesOn(0)
           \/ \E i \in WithStatus("ACTIVE") :
                IF \/ entry[i].content = task[m].content
                   \/ Decision(entry[i], task[m].kind) = "skip"
                THEN Merged(m, 0) ELSE goesOn(i)
    /\ KeepsMemory
    /\ UNCHANGED crossed

\* Mutant: the replaced row is left as it is.
InsertOnly(m, i) ==
    [entry EXCEPT ![i] = [status |-> "ACTIVE", content |-> task[m].content,
                          kind |-> task[m].kind, by |-> 0, vector |-> FALSE]]

\* The writes of a merge: the new row, and the end of the one it replaces if
\* that is active still.
Replaced(m, i) ==
    LET new == [status |-> "ACTIVE", content |-> task[m].content,
                kind |-> task[m].kind, by |-> 0, vector |-> FALSE]
    IN  [j \in Entries |->
            IF j = i THEN new
            ELSE IF j = task[m].replaces /\ entry[j].status = "ACTIVE"
                 THEN [entry[j] EXCEPT !.status = "SUPERSEDED", !.by = i]
                 ELSE entry[j]]

MergeCommits(m, i) ==
    /\ task[m].step = "inserting"
    /\ ~Stored(task[m].content)
    /\ IsNextEntry(i)
    /\ entry' = Replaced(m, i)
    /\ Merged(m, i)
    /\ UNCHANGED <<crossed, revived>>

\* The unique content key refuses the insert.  The handler goes on with the
\* next candidate, but Postgres has aborted the transaction: it ends without a
\* write, or, with more candidates, the next statement throws and the activity
\* is tried again.
MergeRefused(m) ==
    /\ task[m].step = "inserting"
    /\ Stored(task[m].content)
    /\ \/ Merged(m, 0)
       \/ /\ task[m].kind = "curated"
          /\ Turns(m, [step |-> "collected", content |-> task[m].content, kind |-> "curated"])
    /\ KeepsMemory
    /\ UNCHANGED crossed

\* The transaction is aborted, by another candidate or by a crash, or it
\* committed and its answer is lost: the activity merges the same candidates
\* again, a request of a user ends.
MergeLost(m) ==
    /\ task[m].step \in Merging \union {"merged"}
    /\ IF task[m].kind = "curated"
       THEN Turns(m, [step |-> "collected", content |-> task[m].content, kind |-> "curated"])
       ELSE Turns(m, IdleTask)
    /\ KeepsMemory
    /\ UNCHANGED crossed

-----------------------------------------------------------------------------
(* embedMemoryEntries and pruneExpiredMemory, in a curation *)

\* A correction is not embedded.
EmbedClaims(m) ==
    /\ task[m].step = "merged"
    /\ LET i == task[m].made
       IN  IF task[m].kind = "user-correction" THEN Turns(m, IdleTask)
           ELSE IF i # 0 /\ entry[i].status = "ACTIVE"
                THEN Turns(m, [step |-> "embedding", made |-> i])
                ELSE Turns(m, [step |-> "pruning"])
    /\ KeepsMemory
    /\ UNCHANGED crossed

\* The vector is written by id alone; or no vector could be had.
EmbedEnds(m) ==
    /\ task[m].step = "embedding"
    /\ \/ entry' = [entry EXCEPT ![task[m].made].vector = TRUE]
       \/ UNCHANGED entry
    /\ Turns(m, [step |-> "pruning"])
    /\ UNCHANGED <<crossed, revived>>

\* Rows that were embedded when they were deleted get their vector back.
Revives(rows) ==
    revived' = revived \union {i \in rows : \E n \in MemoryTasks :
                                task[n].step = "embedding" /\ task[n].made = i}

\* Only what was curated has an expiry.
PruneReads(m) ==
    /\ task[m].step = "pruning"
    /\ \E S \in SUBSET {i \in WithStatus("ACTIVE") : entry[i].kind = "curated"} :
        Turns(m, IF S = {} THEN IdleTask ELSE [step |-> "expiring", rows |-> S])
    /\ KeepsMemory
    /\ UNCHANGED crossed

PruneWrites(m) ==
    /\ task[m].step = "expiring"
    /\ entry' = [i \in Entries |->
                    IF i \notin task[m].rows THEN entry[i]
                    ELSE IF entry[i].status = "ACTIVE"
                         THEN [entry[i] EXCEPT !.status = "DELETED", !.vector = FALSE]
                         ELSE [entry[i] EXCEPT !.vector = FALSE]]
    /\ Revives({i \in task[m].rows : entry[i].status = "ACTIVE"})
    /\ Turns(m, IdleTask)
    /\ UNCHANGED crossed

-----------------------------------------------------------------------------
(* deleteMemorySubject and deleteMemoryEntry *)

DeleteReads(m) ==
    /\ task[m].step = "idle"
    /\ \E S \in {Kept} \union {{i} : i \in Kept} :
        S # {} /\ Turns(m, [step |-> "deleting", rows |-> S])
    /\ KeepsMemory
    /\ UNCHANGED crossed

\* Mutant: the vector is not cleared.
StatusOnly(e) == [e EXCEPT !.status = "DELETED", !.by = 0]

Deleted(e) == [e EXCEPT !.status = "DELETED", !.by = 0, !.vector = FALSE]

DeleteWrites(m) ==
    /\ task[m].step = "deleting"
    /\ entry' = [i \in Entries |->
                    IF i \in task[m].rows THEN Deleted(entry[i]) ELSE entry[i]]
    /\ Revives(task[m].rows)
    /\ Turns(m, IdleTask)
    /\ UNCHANGED crossed

-----------------------------------------------------------------------------

MemoryNext ==
    \E m \in MemoryTasks :
        \/ \E c \in Memories : Collects(m, c) \/ Corrects(m, c)
        \/ MergeFindsKey(m)
        \/ MergeFindsActive(m)
        \/ \E i \in Entries : MergeCommits(m, i)
        \/ MergeRefused(m)
        \/ MergeLost(m)
        \/ EmbedClaims(m)
        \/ EmbedEnds(m)
        \/ PruneReads(m)
        \/ PruneWrites(m)
        \/ DeleteReads(m)
        \/ DeleteWrites(m)

MemorySpec == MemoryInit /\ [][MemoryNext]_memoryVars

-----------------------------------------------------------------------------
(* Properties *)

\* "Corrections outrank curated memory": whatever merges, retries, expiries and
\* deletions overlap, a correction is superseded by a later correction only, and
\* every superseded row names the later row that replaced it, alone.  One entry
\* fills the slot of a subject, as long as no two merges of it were between their
\* reads and their writes at once.
SlotOfSubject ==
    /\ \A i \in WithStatus("SUPERSEDED") :
        /\ entry[i].by > i
        /\ entry[entry[i].by] # NoEntry
        /\ entry[i].kind = "user-correction" =>
            entry[entry[i].by].kind = "user-correction"
        /\ \A j \in WithStatus("SUPERSEDED") : entry[j].by = entry[i].by => i = j
    /\ ~crossed => Cardinality(WithStatus("ACTIVE")) <= 1

\* A deletion "clears its derived vector" for good, unless the row was being
\* embedded when it was deleted.
Forgotten == \A i \in WithStatus("DELETED") : entry[i].vector => i \in revived
=============================================================================
