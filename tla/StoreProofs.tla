------------------------------ MODULE StoreProofs ------------------------------
(***************************************************************************)
(* What is stored of a project, for any number of writers, tasks and       *)
(* attempts: its numbered artifacts, its memory and its files.             *)
(***************************************************************************)
EXTENDS ArtifactStore, ProjectMemory, ProjectFiles, FiniteSetTheorems, TLAPS

-----------------------------------------------------------------------------
(* Artifacts *)

WriterStep == {"new", "looking", "reading", "inserting", "refused", "answered", "thrown"}
WriterRecord == [step : WriterStep, node : ArtifactNodes \union {NoNode}, seen : Nat,
                 try : 0 .. Tries - 1, answer : Rows \union {NoArtifact}]

\* The versions are 1 .. N, each once.
Numbered ==
    /\ IsFiniteSet(artifacts)
    /\ \A a \in artifacts : a.version \in 1 .. Cardinality(artifacts)
    /\ \A v \in 1 .. Cardinality(artifacts) : \E a \in artifacts : a.version = v
    /\ \A a, b \in artifacts : a.version = b.version => a = b

OnePerNode == \A a, b \in artifacts : a.node # NoNode /\ a.node = b.node => a = b

\* What a writer read was committed, and what it is answered is its own.
WritersKnow ==
    \A w \in Writers :
        /\ writing[w].step = "inserting" => writing[w].seen <= Cardinality(artifacts)
        /\ writing[w].step = "answered" =>
            /\ writing[w].answer \in artifacts
            /\ writing[w].answer.node = writing[w].node
            /\ writing[w].node = NoNode => writing[w].answer.by = w

ArtifactInv == ArtifactTypeOK /\ Numbered /\ OnePerNode /\ WritersKnow

\* Writer w comes to hold new, and none else changes.
WriterBecomes(w, new) ==
    /\ new \in WriterRecord
    /\ writing' \in [Writers -> WriterRecord]
    /\ \A x \in Writers : writing'[x] = IF x = w THEN new ELSE writing[x]

LEMMA WriterReplaced ==
  ASSUME ArtifactTypeOK, NEW w \in Writers, NEW new \in WriterRecord,
         writing' = [writing EXCEPT ![w] = new]
  PROVE  WriterBecomes(w, new)
BY DEF ArtifactTypeOK, WriterBecomes, WriterRecord, WriterStep

\* The last version is how many there are.
LEMMA LatestIsCount ==
  ASSUME ArtifactInv
  PROVE  LatestVersion = Cardinality(artifacts)
<1> DEFINE N == Cardinality(artifacts)
           versions == {0} \union {a.version : a \in artifacts}
<1>1. N \in Nat /\ (N = 0 => artifacts = {})
  BY FS_CardinalityType, FS_EmptySet DEF ArtifactInv, Numbered
<1>2. /\ \A a \in artifacts : a.version \in 1 .. N
      /\ \A v \in 1 .. N : \E a \in artifacts : a.version = v
  BY DEF ArtifactInv, Numbered
<1> HIDE DEF N
<1>3. N \in versions /\ \A a \in artifacts : a.version <= N
  BY <1>1, <1>2
<1>4. ASSUME NEW v \in versions, \A a \in artifacts : a.version <= v
      PROVE  v = N
  BY <1>1, <1>2, <1>4
<1>5. (CHOOSE v \in versions : \A a \in artifacts : a.version <= v) = N
  BY <1>3, <1>4
<1>6. QED
  BY <1>5 DEF LatestVersion, N

LEMMA ArtifactInvInit == ArtifactInit => ArtifactInv
<1> SUFFICES ASSUME ArtifactInit
             PROVE  ArtifactInv
  OBVIOUS
<1>1. ArtifactTypeOK
  BY DEF ArtifactInit, ArtifactTypeOK, NewWriter, NoArtifact, Tries
<1>2. Numbered
  BY FS_EmptySet DEF ArtifactInit, Numbered
<1>3. OnePerNode /\ WritersKnow
  BY DEF ArtifactInit, OnePerNode, WritersKnow, NewWriter
<1>4. QED
  BY <1>1, <1>2, <1>3 DEF ArtifactInv

\* The steps that commit nothing.
LEMMA WriterMoves ==
  ASSUME ArtifactInv, NEW w \in Writers, NEW new, WriterBecomes(w, new),
         UNCHANGED artifacts,
         new.step = "inserting" => new.seen <= Cardinality(artifacts),
         new.step = "answered" => /\ new.answer \in artifacts
                                  /\ new.answer.node = new.node
                                  /\ new.node # NoNode
  PROVE  ArtifactInv' /\ artifacts' = artifacts
<1>1. ArtifactTypeOK'
  BY DEF ArtifactInv, ArtifactTypeOK, WriterBecomes, WriterRecord, WriterStep
<1>2. Numbered' /\ OnePerNode'
  BY DEF ArtifactInv, Numbered, OnePerNode
<1>3. WritersKnow'
  BY DEF ArtifactInv, WritersKnow, WriterBecomes
<1>4. QED
  BY <1>1, <1>2, <1>3 DEF ArtifactInv

\* Fields of a writer that goes on, or is answered.
LEMMA WriterGoesOn ==
  ASSUME ArtifactTypeOK, NEW w \in Writers, NEW step \in WriterStep
  PROVE  LET new == [writing[w] EXCEPT !.step = step]
         IN  /\ new \in WriterRecord /\ new.step = step
             /\ new.node = writing[w].node /\ new.seen = writing[w].seen
             /\ new.try = writing[w].try
<1>1. writing[w] \in WriterRecord
  BY DEF ArtifactTypeOK, WriterRecord, WriterStep
<1>2. QED
  BY <1>1 DEF WriterRecord

LEMMA WriterAnswered ==
  ASSUME ArtifactTypeOK, NEW w \in Writers, NEW a \in Rows
  PROVE  LET new == [writing[w] EXCEPT !.step = "answered", !.answer = a]
         IN  /\ new \in WriterRecord /\ new.step = "answered"
             /\ new.node = writing[w].node /\ new.answer = a
<1>1. writing[w] \in WriterRecord
  BY DEF ArtifactTypeOK, WriterRecord, WriterStep
<1>2. QED
  BY <1>1 DEF WriterRecord, WriterStep

LEMMA AnswerKeeps ==
  ASSUME ArtifactInv, NEW w \in Writers, NEW a \in OfNode(writing[w].node), Answers(w, a)
  PROVE  ArtifactInv' /\ artifacts' = artifacts
<1> DEFINE new == [writing[w] EXCEPT !.step = "answered", !.answer = a]
<1>1. a \in artifacts /\ a \in Rows /\ a.node = writing[w].node /\ writing[w].node # NoNode
  BY DEF OfNode, ArtifactInv, ArtifactTypeOK
<1>2. /\ new \in WriterRecord /\ new.step = "answered"
      /\ new.node = writing[w].node /\ new.answer = a
  BY <1>1, WriterAnswered DEF ArtifactInv
<1>3. writing' = [writing EXCEPT ![w] = new] /\ UNCHANGED artifacts
  BY DEF Answers
<1> HIDE DEF new
<1>4. WriterBecomes(w, new)
  BY <1>2, <1>3, WriterReplaced DEF ArtifactInv
<1>5. QED
  BY <1>1, <1>2, <1>3, <1>4, WriterMoves

LEMMA StepKeeps ==
  ASSUME ArtifactInv, NEW w \in Writers,
         NEW step \in WriterStep \ {"inserting", "answered"}, Writes(w, step)
  PROVE  ArtifactInv' /\ artifacts' = artifacts
<1> DEFINE new == [writing[w] EXCEPT !.step = step]
<1>1. new \in WriterRecord /\ new.step = step
  BY WriterGoesOn DEF ArtifactInv
<1>2. writing' = [writing EXCEPT ![w] = new] /\ UNCHANGED artifacts
  BY DEF Writes
<1> HIDE DEF new
<1>3. WriterBecomes(w, new)
  BY <1>1, <1>2, WriterReplaced DEF ArtifactInv
<1>4. QED
  BY <1>1, <1>2, <1>3, WriterMoves

\* An insert that is not refused has the next number: no committed row was
\* missed, and none was overtaken.
LEMMA InsertNumbers ==
  ASSUME ArtifactInv, NEW w \in Writers, WriterInserts(w)
  PROVE  /\ NewRow(w) \in Rows /\ NewRow(w) \notin artifacts
         /\ NewRow(w).version = Cardinality(artifacts) + 1
         /\ artifacts' = artifacts \union {NewRow(w)}
         /\ IsFiniteSet(artifacts')
         /\ Cardinality(artifacts) \in Nat
         /\ Cardinality(artifacts') = Cardinality(artifacts) + 1
<1> DEFINE N == Cardinality(artifacts)
<1>1. /\ writing[w].step = "inserting" /\ ~Refused(w)
      /\ artifacts' = artifacts \union {NewRow(w)}
  BY DEF WriterInserts
<1>2. writing[w].seen \in Nat /\ writing[w].node \in ArtifactNodes \union {NoNode}
  BY DEF ArtifactInv, ArtifactTypeOK
<1>3. NewRow(w) \in Rows /\ NewRow(w).version = writing[w].seen + 1
  BY <1>2 DEF NewRow, Rows
<1>4. N \in Nat /\ IsFiniteSet(artifacts)
  BY FS_CardinalityType DEF ArtifactInv, Numbered
<1>5. writing[w].seen <= N
  BY <1>1 DEF ArtifactInv, WritersKnow
<1>6. ASSUME NEW a \in artifacts
      PROVE  a.version # writing[w].seen + 1
  BY <1>1, <1>3 DEF Refused
<1>7. \A v \in 1 .. N : \E a \in artifacts : a.version = v
  BY DEF ArtifactInv, Numbered
<1> HIDE DEF N
<1>8. writing[w].seen + 1 \notin 1 .. N
  BY <1>6, <1>7
<1>9. writing[w].seen = N
  BY <1>2, <1>4, <1>5, <1>8
<1>10. NewRow(w) \notin artifacts
  BY <1>3, <1>6
<1>11. /\ IsFiniteSet(artifacts')
       /\ Cardinality(artifacts') = N + 1
  BY <1>1, <1>4, <1>10, FS_AddElement DEF N
<1>12. QED
  BY <1>1, <1>3, <1>4, <1>9, <1>10, <1>11 DEF N

LEMMA InsertKeeps ==
  ASSUME ArtifactInv, NEW w \in Writers, WriterInserts(w)
  PROVE  ArtifactInv'
<1> DEFINE N == Cardinality(artifacts)
           made == NewRow(w)
           new == [writing[w] EXCEPT !.step = "answered", !.answer = made]
<1>1. /\ made \in Rows /\ made.version = N + 1 /\ N \in Nat
      /\ artifacts' = artifacts \union {made}
      /\ IsFiniteSet(artifacts') /\ Cardinality(artifacts') = N + 1
  BY InsertNumbers
<1>2. made.node = writing[w].node /\ made.by = w
  BY DEF NewRow
<1>3. \A a \in artifacts : made.node # NoNode => a.node # made.node
  BY <1>2 DEF WriterInserts, Refused, OfNode
<1>4. /\ new \in WriterRecord /\ new.step = "answered"
      /\ new.node = writing[w].node /\ new.answer = made
  BY <1>1, WriterAnswered DEF ArtifactInv
<1>5. writing' = [writing EXCEPT ![w] = new]
  BY DEF WriterInserts
<1> HIDE DEF new, made
<1>6. WriterBecomes(w, new)
  BY <1>4, <1>5, WriterReplaced DEF ArtifactInv
<1>7. ArtifactTypeOK'
  BY <1>1, <1>6 DEF ArtifactInv, ArtifactTypeOK, WriterBecomes, WriterRecord, WriterStep
<1>8. /\ \A a \in artifacts : a.version \in 1 .. N
      /\ \A v \in 1 .. N : \E a \in artifacts : a.version = v
      /\ \A a, b \in artifacts : a.version = b.version => a = b
  BY DEF ArtifactInv, Numbered
<1>9. /\ \A v \in 1 .. N : \E a \in artifacts' : a.version = v
      /\ \E a \in artifacts' : a.version = N + 1
  BY <1>1, <1>8
<1> HIDE DEF N
<1>10. Numbered'
  <2>1. \A a \in artifacts' : a.version \in 1 .. N + 1
    BY <1>1, <1>8
  <2>2. \A v \in 1 .. N + 1 : \E a \in artifacts' : a.version = v
    BY <1>1, <1>9
  <2>3. \A a, b \in artifacts' : a.version = b.version => a = b
    BY <1>1, <1>8
  <2>4. QED
    BY <1>1, <2>1, <2>2, <2>3 DEF Numbered
<1>11. OnePerNode'
  BY <1>1, <1>3 DEF ArtifactInv, OnePerNode
<1>12. WritersKnow'
  <2>1. \A x \in Writers : writing[x].seen \in Nat
    BY DEF ArtifactInv, ArtifactTypeOK
  <2>2. \A x \in Writers : writing[x].step = "inserting" => writing[x].seen <= N
    BY DEF ArtifactInv, WritersKnow, N
  <2>3. \A x \in Writers : writing'[x].step = "inserting" => writing'[x].seen <= N + 1
    BY <1>1, <1>4, <1>6, <2>1, <2>2 DEF WriterBecomes
  <2>4. QED
    BY <1>1, <1>2, <1>4, <1>6, <2>3 DEF ArtifactInv, WritersKnow, WriterBecomes
<1>13. QED
  BY <1>7, <1>10, <1>11, <1>12 DEF ArtifactInv

LEMMA ArtifactStep ==
  ASSUME ArtifactInv, [ArtifactNext]_artifactVars
  PROVE  ArtifactInv' /\ (\A a \in artifacts' \ artifacts :
                            a.version = Cardinality(artifacts) + 1)
<1>1. CASE UNCHANGED artifactVars
  BY <1>1 DEF artifactVars, ArtifactInv, ArtifactTypeOK, Numbered, OnePerNode, WritersKnow
<1>2. ASSUME NEW w \in Writers, NEW n \in ArtifactNodes \union {NoNode}, WriterBegins(w, n)
      PROVE  ArtifactInv' /\ artifacts' = artifacts
  <2> DEFINE step == IF n = NoNode THEN "reading" ELSE "looking"
             new == [writing[w] EXCEPT !.step = step, !.node = n]
  <2>1. writing[w] \in WriterRecord
    BY DEF ArtifactInv, ArtifactTypeOK, WriterRecord, WriterStep
  <2>2. new \in WriterRecord /\ new.step = step
    BY <2>1 DEF WriterRecord, WriterStep
  <2>3. writing' = [writing EXCEPT ![w] = new] /\ UNCHANGED artifacts
    BY <1>2 DEF WriterBegins
  <2> HIDE DEF new
  <2>4. WriterBecomes(w, new)
    BY <2>2, <2>3, WriterReplaced DEF ArtifactInv
  <2>5. QED
    BY <2>2, <2>3, <2>4, WriterMoves
<1>3. ASSUME NEW w \in Writers, WriterLooks(w)
      PROVE  ArtifactInv' /\ artifacts' = artifacts
  BY <1>3, AnswerKeeps, StepKeeps DEF WriterLooks, WriterStep
<1>4. ASSUME NEW w \in Writers, WriterReads(w)
      PROVE  ArtifactInv' /\ artifacts' = artifacts
  <2> DEFINE new == [writing[w] EXCEPT !.step = "inserting", !.seen = LatestVersion]
  <2>1. writing[w] \in WriterRecord
    BY DEF ArtifactInv, ArtifactTypeOK, WriterRecord, WriterStep
  <2>2. LatestVersion = Cardinality(artifacts) /\ LatestVersion \in Nat
    BY LatestIsCount, FS_CardinalityType DEF ArtifactInv, Numbered
  <2>3. writing' = [writing EXCEPT ![w] = new] /\ UNCHANGED artifacts
    BY <1>4 DEF WriterReads
  <2>4. new \in WriterRecord /\ new.step = "inserting" /\ new.seen = LatestVersion
    BY <2>1, <2>2 DEF WriterRecord, WriterStep
  <2> HIDE DEF new
  <2>5. WriterBecomes(w, new)
    BY <2>3, <2>4, WriterReplaced DEF ArtifactInv
  <2>6. new.seen <= Cardinality(artifacts)
    BY <2>2, <2>4
  <2>7. QED
    BY <2>3, <2>4, <2>5, <2>6, WriterMoves
<1>5. ASSUME NEW w \in Writers, WriterIsRefused(w)
      PROVE  ArtifactInv' /\ artifacts' = artifacts
  BY <1>5, StepKeeps DEF WriterIsRefused, WriterStep
<1>6. ASSUME NEW w \in Writers, WriterLooksAgain(w)
      PROVE  ArtifactInv' /\ artifacts' = artifacts
  <2>1. CASE \/ \E a \in OfNode(writing[w].node) : Answers(w, a)
             \/ Writes(w, "thrown")
    BY <2>1, AnswerKeeps, StepKeeps DEF WriterStep
  <2>2. CASE /\ ~LastTry(w)
             /\ writing' = [writing EXCEPT ![w].step = "reading", ![w].try = @ + 1]
             /\ UNCHANGED artifacts
    <3> DEFINE new == [writing[w] EXCEPT !.step = "reading", !.try = @ + 1]
    <3>1. writing[w] \in WriterRecord
      BY DEF ArtifactInv, ArtifactTypeOK, WriterRecord, WriterStep
    <3>2. writing[w].try + 1 \in 0 .. Tries - 1
      BY <2>2, <3>1 DEF LastTry, Tries, WriterRecord
    <3>3. writing' = [writing EXCEPT ![w] = new]
      BY <2>2
    <3>4. new \in WriterRecord /\ new.step = "reading"
      BY <3>1, <3>2 DEF WriterRecord, WriterStep
    <3> HIDE DEF new
    <3>5. WriterBecomes(w, new)
      BY <3>3, <3>4, WriterReplaced DEF ArtifactInv
    <3>6. QED
      BY <2>2, <3>4, <3>5, WriterMoves
  <2>3. QED
    BY <1>6, <2>1, <2>2 DEF WriterLooksAgain
<1>7. ASSUME NEW w \in Writers, WriterInserts(w)
      PROVE  ArtifactInv' /\ (\A a \in artifacts' \ artifacts :
                                a.version = Cardinality(artifacts) + 1)
  BY <1>7, InsertKeeps, InsertNumbers
<1>8. QED
  BY <1>1, <1>2, <1>3, <1>4, <1>5, <1>6, <1>7 DEF ArtifactNext

LEMMA ArtifactInvHolds == ArtifactSpec => []ArtifactInv
<1>1. ArtifactInv /\ [ArtifactNext]_artifactVars => ArtifactInv'
  BY ArtifactStep
<1>2. QED
  BY ArtifactInvInit, <1>1, PTL DEF ArtifactSpec

\* For any number of writers of any nodes: a version that is committed is one
\* more than there are, although it was read before the transaction's insert.
THEOREM RevisionsNumbered == ArtifactSpec => RevisionsGrow
<1>1. ArtifactInv /\ [ArtifactNext]_artifactVars =>
        [\A a \in artifacts' \ artifacts : a.version = Cardinality(artifacts) + 1]_artifactVars
  BY ArtifactStep
<1>2. QED
  BY ArtifactInvHolds, <1>1, PTL DEF ArtifactSpec, RevisionsGrow

\* However many calls are made for one node, and however often they are refused:
\* all that are answered are answered the same artifact, and a call without a
\* node its own.
THEOREM NodesIdempotent == ArtifactSpec => []NodeIsIdempotent
<1>1. ArtifactInv => NodeIsIdempotent
  BY DEF ArtifactInv, OnePerNode, WritersKnow, NodeIsIdempotent
<1>2. QED
  BY <1>1, ArtifactInvHolds, PTL

-----------------------------------------------------------------------------
(* Memory *)

EntryRecord == [status : MemoryStatus, content : Memories, kind : SourceKind,
                by : Entries \union {0}, vector : BOOLEAN]

\* Rows are created in the order of their numbers.
NoGap == \A i, j \in Entries : j < i /\ entry[i] # NoEntry => entry[j] # NoEntry

\* What SlotOfSubject says of a superseded row.
Succeeded ==
    \A i \in Entries : entry[i].status = "SUPERSEDED" =>
        /\ entry[i].by \in Entries /\ entry[i].by > i
        /\ entry[entry[i].by] # NoEntry
        /\ entry[i].kind = "user-correction" => entry[entry[i].by].kind = "user-correction"
        /\ \A j \in Entries :
            entry[j].status = "SUPERSEDED" /\ entry[j].by = entry[i].by => i = j

\* What a task holds is there, and it may do with it what it is about to do.
Entitled(t) ==
    /\ t.step = "inserting" /\ t.replaces # 0 =>
        /\ entry[t.replaces] # NoEntry
        /\ entry[t.replaces].kind = "user-correction" => t.kind = "user-correction"
    /\ t.step = "embedding" =>
        /\ entry[t.made] # NoEntry
        /\ entry[t.made].status = "DELETED" => t.made \in revived
    /\ t.step \in {"expiring", "deleting"} => \A i \in t.rows : entry[i] # NoEntry

TasksEntitled == \A m \in MemoryTasks : Entitled(task[m])

\* While merges do not cross, one is under way, and it knows the active row.
OneMerge ==
    ~crossed =>
        /\ \A m, n \in MemoryTasks :
            task[m].step \in Merging /\ task[n].step \in Merging => m = n
        /\ \A m \in MemoryTasks : task[m].step = "inserting" =>
            \A i \in Entries : entry[i].status = "ACTIVE" => i = task[m].replaces
        /\ \A i, j \in Entries :
            entry[i].status = "ACTIVE" /\ entry[j].status = "ACTIVE" => i = j

MemoryInv ==
    /\ MemoryTypeOK /\ NoGap /\ Succeeded /\ TasksEntitled /\ OneMerge /\ Forgotten

TaskBecomes(m, new) ==
    /\ task' \in [MemoryTasks -> TaskStates]
    /\ \A n \in MemoryTasks : task'[n] = IF n = m THEN new ELSE task[n]

LEMMA TaskReplaced ==
  ASSUME MemoryTypeOK, NEW m \in MemoryTasks, NEW new \in TaskStates, Turns(m, new)
  PROVE  TaskBecomes(m, new)
BY DEF MemoryTypeOK, TaskBecomes, Turns

\* What a task holds at each of its steps.
LEMMA TaskHolds ==
  ASSUME MemoryTypeOK, NEW m \in MemoryTasks
  PROVE  LET t == task[m]
         IN  /\ t.step \in {"collected", "keyed", "inserting", "merged"} =>
                    t.content \in Memories /\ t.kind \in SourceKind
             /\ t.step = "inserting" => t.replaces \in Entries \union {0}
             /\ t.step = "merged" => t.made \in Entries \union {0}
             /\ t.step = "embedding" => t.made \in Entries
             /\ t.step \in {"expiring", "deleting"} => t.rows \subseteq Entries
<1>1. task[m] \in TaskStates
  BY DEF MemoryTypeOK
<1>2. QED
  BY <1>1 DEF TaskStates, IdleTask

\* And what may be built.
LEMMA TaskBuilt ==
  /\ IdleTask \in TaskStates /\ IdleTask.step = "idle"
  /\ [step |-> "pruning"] \in TaskStates
  /\ \A c \in Memories, k \in SourceKind :
        /\ \A s \in {"collected", "keyed"} : [step |-> s, content |-> c, kind |-> k] \in TaskStates
        /\ \A i \in Entries \union {0} :
            /\ [step |-> "inserting", content |-> c, kind |-> k, replaces |-> i] \in TaskStates
            /\ [step |-> "merged", content |-> c, kind |-> k, made |-> i] \in TaskStates
  /\ \A i \in Entries : [step |-> "embedding", made |-> i] \in TaskStates
  /\ \A S \in SUBSET Entries :
        /\ [step |-> "expiring", rows |-> S] \in TaskStates
        /\ [step |-> "deleting", rows |-> S] \in TaskStates
BY DEF TaskStates, IdleTask

LEMMA EntryKinds ==
  ASSUME MemoryTypeOK, NEW i \in Entries
  PROVE  /\ entry[i] = NoEntry \/ entry[i] \in EntryRecord
         /\ entry[i] = NoEntry <=> entry[i].status = "NO_ROW"
         /\ NoEntry.status = "NO_ROW"
<1>1. entry[i] \in {NoEntry} \union EntryRecord
  BY DEF MemoryTypeOK, EntryRecord
<1>2. NoEntry.status = "NO_ROW"
  BY DEF NoEntry
<1>3. QED
  BY <1>1, <1>2 DEF EntryRecord, MemoryStatus

LEMMA MemoryInvInit == MemoryInit => MemoryInv
<1> SUFFICES ASSUME MemoryInit
             PROVE  MemoryInv
  OBVIOUS
<1>1. MemoryTypeOK
  BY TaskBuilt DEF MemoryInit, MemoryTypeOK
<1>2. \A i \in Entries : entry[i] = NoEntry /\ entry[i].status = "NO_ROW"
  BY DEF MemoryInit, NoEntry
<1>3. \A m \in MemoryTasks : task[m].step = "idle"
  BY DEF MemoryInit, IdleTask
<1>4. NoGap /\ Succeeded /\ TasksEntitled /\ OneMerge /\ Forgotten
  BY <1>2, <1>3 DEF NoGap, Succeeded, TasksEntitled, Entitled, OneMerge, Merging,
     Forgotten, WithStatus
<1>5. QED
  BY <1>1, <1>4 DEF MemoryInv

\* Steps of a task that leave the rows alone.
LEMMA TaskMoves ==
  ASSUME MemoryInv, NEW m \in MemoryTasks, NEW new, TaskBecomes(m, new),
         Entitled(new), KeepsMemory, crossed' \in BOOLEAN, crossed => crossed',
         ~crossed' =>
            /\ new.step \in Merging =>
                \A n \in MemoryTasks \ {m} : task[n].step \notin Merging
            /\ new.step = "inserting" =>
                \A i \in Entries : entry[i].status = "ACTIVE" => i = new.replaces
  PROVE  MemoryInv'
<1>1. MemoryTypeOK'
  BY DEF MemoryInv, MemoryTypeOK, KeepsMemory, TaskBecomes
<1>2. NoGap' /\ Succeeded' /\ Forgotten'
  BY DEF MemoryInv, NoGap, Succeeded, Forgotten, WithStatus, KeepsMemory
<1>3. TasksEntitled'
  BY DEF MemoryInv, TasksEntitled, Entitled, TaskBecomes, KeepsMemory
<1>4. OneMerge'
  BY DEF MemoryInv, OneMerge, TaskBecomes, KeepsMemory
<1>5. QED
  BY <1>1, <1>2, <1>3, <1>4 DEF MemoryInv

\* The steps of mergeMemoryCandidates before its writes.
LEMMA MergeReads ==
  ASSUME MemoryInv, NEW m \in MemoryTasks,
         \/ \E c \in Memories : Collects(m, c) \/ Corrects(m, c)
         \/ MergeFindsKey(m) \/ MergeFindsActive(m) \/ MergeRefused(m) \/ MergeLost(m)
  PROVE  MemoryInv'
<1> USE DEF MemoryInv
<1>1. KeepsMemory /\ crossed \in BOOLEAN
  BY DEF MemoryTypeOK, Collects, Corrects, MergeFindsKey, MergeFindsActive, MergeRefused,
     MergeLost
<1>2. ASSUME NEW c \in Memories, NEW k \in SourceKind, UNCHANGED crossed,
             Turns(m, [step |-> "collected", content |-> c, kind |-> k])
      PROVE  MemoryInv'
  <2> DEFINE new == [step |-> "collected", content |-> c, kind |-> k]
  <2>1. new \in TaskStates /\ new.step = "collected"
    BY TaskBuilt
  <2>2. Turns(m, new) /\ UNCHANGED crossed
    BY <1>2
  <2> HIDE DEF new
  <2>3. TaskBecomes(m, new) /\ Entitled(new)
    BY <2>1, <2>2, TaskReplaced DEF Entitled
  <2>4. QED
    BY <1>1, <2>1, <2>2, <2>3, TaskMoves DEF Merging
<1>3. ASSUME Turns(m, IdleTask), UNCHANGED crossed
      PROVE  MemoryInv'
  <2>1. TaskBecomes(m, IdleTask) /\ Entitled(IdleTask)
    BY <1>3, TaskBuilt, TaskReplaced DEF Entitled
  <2>2. QED
    BY <1>1, <1>3, <2>1, TaskBuilt, TaskMoves DEF Merging
<1>4. ASSUME task[m].step \in {"collected", "keyed", "inserting"}, Merged(m, 0),
             crossed' \in BOOLEAN, crossed => crossed'
      PROVE  MemoryInv'
  <2> DEFINE new == [step |-> "merged", content |-> task[m].content, kind |-> task[m].kind,
                     made |-> 0]
  <2>1. new \in TaskStates /\ new.step = "merged"
    BY <1>4, TaskBuilt, TaskHolds
  <2>2. Turns(m, new)
    BY <1>4 DEF Merged
  <2> HIDE DEF new
  <2>3. TaskBecomes(m, new) /\ Entitled(new)
    BY <2>1, <2>2, TaskReplaced DEF Entitled
  <2>4. QED
    BY <1>1, <1>4, <2>1, <2>3, TaskMoves DEF Merging
<1>5. ASSUME NEW c \in Memories, Collects(m, c) \/ Corrects(m, c)
      PROVE  MemoryInv'
  BY <1>2, <1>5 DEF Collects, Corrects, SourceKind
<1>6. CASE MergeFindsKey(m)
  <2>1. /\ task[m].step = "collected" /\ crossed' \in BOOLEAN /\ (crossed => crossed')
        /\ ~crossed' => \A n \in MemoryTasks \ {m} : task[n].step \notin Merging
    BY <1>1, <1>6 DEF MergeFindsKey
  <2>2. CASE Merged(m, 0)
    BY <1>4, <2>1, <2>2
  <2>3. CASE Turns(m, [task[m] EXCEPT !.step = "keyed"])
    <3> DEFINE new == [task[m] EXCEPT !.step = "keyed"]
    <3>1. new \in TaskStates /\ new.step = "keyed"
      <4>1. task[m] \in TaskStates
        BY DEF MemoryTypeOK
      <4>2. task[m] \in [step : {"collected", "keyed"}, content : Memories, kind : SourceKind]
        BY <2>1, <4>1 DEF TaskStates, IdleTask
      <4>3. QED
        BY <4>2 DEF TaskStates
    <3>2. TaskBecomes(m, new)
      BY <2>3, <3>1, TaskReplaced
    <3> HIDE DEF new
    <3>3. Entitled(new)
      BY <3>1 DEF Entitled
    <3>4. QED
      BY <1>1, <2>1, <3>1, <3>2, <3>3, TaskMoves
  <2>4. QED
    BY <1>6, <2>2, <2>3 DEF MergeFindsKey
<1>7. CASE MergeFindsActive(m)
  <2>1. task[m].step = "keyed" /\ UNCHANGED crossed
    BY <1>7 DEF MergeFindsActive
  <2>2. CASE Merged(m, 0)
    BY <1>1, <1>4, <2>1, <2>2
  <2>3. ASSUME NEW i \in Entries \union {0},
               Turns(m, [step |-> "inserting", content |-> task[m].content,
                         kind |-> task[m].kind, replaces |-> i]),
               \/ i = 0 /\ WithStatus("ACTIVE") = {}
               \/ i \in WithStatus("ACTIVE") /\ Decision(entry[i], task[m].kind) # "skip"
        PROVE  MemoryInv'
    <3> DEFINE new == [step |-> "inserting", content |-> task[m].content,
                       kind |-> task[m].kind, replaces |-> i]
    <3>1. /\ new \in TaskStates /\ new.step = "inserting" /\ new.replaces = i
          /\ new.kind = task[m].kind
      BY <2>1, TaskBuilt, TaskHolds
    <3>2. Turns(m, new)
      BY <2>3
    <3> HIDE DEF new
    <3>3. TaskBecomes(m, new)
      BY <3>1, <3>2, TaskReplaced
    <3>4. 0 \notin Entries
      BY MemoryAssumption DEF Entries
    <3>5. Entitled(new)
      <4>1. SUFFICES ASSUME i # 0
                     PROVE  /\ entry[i] # NoEntry
                            /\ entry[i].kind = "user-correction" =>
                                new.kind = "user-correction"
        BY <3>1 DEF Entitled
      <4>2. i \in Entries /\ entry[i].status = "ACTIVE"
        BY <2>3, <4>1 DEF WithStatus
      <4>3. entry[i] # NoEntry
        BY <4>2, EntryKinds
      <4>4. QED
        BY <2>3, <3>1, <4>1, <4>3 DEF Decision
    <3>6. ~crossed => \A n \in MemoryTasks \ {m} : task[n].step \notin Merging
      BY <2>1 DEF OneMerge, Merging
    <3>7. ~crossed => \A j \in Entries : entry[j].status = "ACTIVE" => j = i
      BY <2>3 DEF OneMerge, WithStatus
    <3>8. QED
      BY <1>1, <2>1, <3>1, <3>3, <3>5, <3>6, <3>7, TaskMoves
  <2>4. QED
    BY <1>7, <2>2, <2>3 DEF MergeFindsActive, WithStatus
<1>8. CASE MergeRefused(m)
  BY <1>1, <1>2, <1>4, <1>8, TaskHolds DEF MergeRefused, SourceKind
<1>9. CASE MergeLost(m)
  BY <1>2, <1>3, <1>9, TaskHolds DEF MergeLost, Merging, SourceKind
<1>10. QED
  BY <1>5, <1>6, <1>7, <1>8, <1>9

\* The steps after a merge that leave the rows alone.
LEMMA TaskReads ==
  ASSUME MemoryInv, NEW m \in MemoryTasks,
         EmbedClaims(m) \/ PruneReads(m) \/ DeleteReads(m)
  PROVE  MemoryInv'
<1> USE DEF MemoryInv
<1>1. KeepsMemory /\ UNCHANGED crossed /\ crossed \in BOOLEAN
  BY DEF MemoryTypeOK, EmbedClaims, PruneReads, DeleteReads
<1>2. ASSUME NEW new \in TaskStates, Turns(m, new), Entitled(new),
             new.step \notin Merging
      PROVE  MemoryInv'
  BY <1>1, <1>2, TaskReplaced, TaskMoves DEF Merging
<1>3. ASSUME NEW i \in Entries, entry[i].status = "ACTIVE",
             Turns(m, [step |-> "embedding", made |-> i])
      PROVE  MemoryInv'
  <2> DEFINE new == [step |-> "embedding", made |-> i]
  <2>1. new \in TaskStates /\ new.step = "embedding" /\ new.made = i
    BY TaskBuilt
  <2>2. Turns(m, new)
    BY <1>3
  <2> HIDE DEF new
  <2>3. Entitled(new)
    BY <1>3, <2>1, EntryKinds DEF Entitled
  <2>4. QED
    BY <1>2, <2>1, <2>2, <2>3 DEF Merging
<1>4. ASSUME NEW S \in SUBSET Entries, NEW s \in {"expiring", "deleting"},
             \A i \in S : entry[i] # NoEntry, Turns(m, [step |-> s, rows |-> S])
      PROVE  MemoryInv'
  <2> DEFINE new == [step |-> s, rows |-> S]
  <2>1. new \in TaskStates /\ new.step = s /\ new.rows = S
    BY TaskBuilt
  <2>2. Turns(m, new)
    BY <1>4
  <2> HIDE DEF new
  <2>3. Entitled(new)
    BY <1>4, <2>1 DEF Entitled
  <2>4. QED
    BY <1>2, <2>1, <2>2, <2>3 DEF Merging
<1>5. ASSUME Turns(m, IdleTask) \/ Turns(m, [step |-> "pruning"])
      PROVE  MemoryInv'
  <2>1. Entitled(IdleTask) /\ Entitled([step |-> "pruning"])
    BY DEF Entitled, IdleTask
  <2>2. QED
    BY <1>2, <1>5, <2>1, TaskBuilt DEF Merging
<1>6. CASE EmbedClaims(m)
  <2>1. task[m].made \in Entries \union {0}
    BY <1>6, TaskHolds DEF EmbedClaims
  <2>2. QED
    BY <1>3, <1>5, <1>6, <2>1 DEF EmbedClaims
<1>7. CASE PruneReads(m)
  <2>1. PICK S \in SUBSET {i \in WithStatus("ACTIVE") : entry[i].kind = "curated"} :
            Turns(m, IF S = {} THEN IdleTask ELSE [step |-> "expiring", rows |-> S])
    BY <1>7 DEF PruneReads
  <2>2. S \in SUBSET Entries /\ \A i \in S : entry[i] # NoEntry
    BY <2>1, EntryKinds DEF WithStatus
  <2>3. QED
    BY <1>4, <1>5, <2>1, <2>2
<1>8. CASE DeleteReads(m)
  <2>1. PICK S \in {Kept} \union {{i} : i \in Kept} :
            Turns(m, [step |-> "deleting", rows |-> S])
    BY <1>8 DEF DeleteReads
  <2>2. S \in SUBSET Kept
    BY <2>1
  <2>3. S \in SUBSET Entries /\ \A i \in S : entry[i] # NoEntry
    BY <2>2, EntryKinds DEF Kept
  <2>4. QED
    BY <1>4, <2>1, <2>3
<1>9. QED
  BY <1>6, <1>7, <1>8

-----------------------------------------------------------------------------
(* The rows of a memory change *)

\* Rows change where they are: none is made, and one that is deleted has its
\* vector, or is being embedded, only if it is revived.
InPlace ==
    /\ entry' \in [Entries -> {NoEntry} \union EntryRecord]
    /\ revived \subseteq revived' /\ revived' \subseteq Entries
    /\ \A i \in Entries :
        /\ entry'[i] = NoEntry <=> entry[i] = NoEntry
        /\ entry'[i].status \in {entry[i].status, "DELETED"}
        /\ entry[i] # NoEntry => entry'[i].kind = entry[i].kind
        /\ entry'[i].status = "SUPERSEDED" => entry'[i].by = entry[i].by
        /\ entry'[i].status = "DELETED" =>
            /\ entry'[i].vector => i \in revived'
            /\ \A n \in MemoryTasks :
                task[n].step = "embedding" /\ task[n].made = i => i \in revived'

LEMMA InPlaceKeeps ==
  ASSUME MemoryInv, NEW m \in MemoryTasks, InPlace, UNCHANGED crossed,
         \E new \in {IdleTask, [step |-> "pruning"]} : Turns(m, new)
  PROVE  MemoryInv'
<1> USE DEF MemoryInv
<1>1. PICK new \in {IdleTask, [step |-> "pruning"]} : Turns(m, new)
  OBVIOUS
<1>2. new \in TaskStates /\ new.step \in {"idle", "pruning"}
  BY TaskBuilt
<1>3. TaskBecomes(m, new)
  BY <1>1, <1>2, TaskReplaced
<1>4. MemoryTypeOK'
  BY <1>3 DEF MemoryTypeOK, InPlace, TaskBecomes, EntryRecord
<1>5. NoGap'
  BY DEF NoGap, InPlace
<1>6. \A i \in Entries : entry'[i].status \in {"SUPERSEDED", "ACTIVE"} =>
        entry[i].status = entry'[i].status /\ entry[i] # NoEntry
  BY EntryKinds DEF InPlace
<1>7. Succeeded'
  <2> SUFFICES ASSUME NEW i \in Entries, entry'[i].status = "SUPERSEDED"
               PROVE  /\ entry'[i].by \in Entries /\ entry'[i].by > i
                      /\ entry'[entry'[i].by] # NoEntry
                      /\ entry'[i].kind = "user-correction" =>
                            entry'[entry'[i].by].kind = "user-correction"
                      /\ \A j \in Entries :
                            entry'[j].status = "SUPERSEDED" /\ entry'[j].by = entry'[i].by
                            => i = j
    BY DEF Succeeded
  <2> DEFINE k == entry[i].by
  <2>1. /\ entry[i].status = "SUPERSEDED" /\ entry[i] # NoEntry
        /\ entry'[i].by = k /\ entry'[i].kind = entry[i].kind
    BY <1>6 DEF InPlace
  <2>2. /\ k \in Entries /\ k > i /\ entry[k] # NoEntry
        /\ entry[i].kind = "user-correction" => entry[k].kind = "user-correction"
        /\ \A j \in Entries : entry[j].status = "SUPERSEDED" /\ entry[j].by = k => i = j
    BY <2>1 DEF Succeeded
  <2> HIDE DEF k
  <2>3. entry'[k] # NoEntry /\ entry'[k].kind = entry[k].kind
    BY <2>2 DEF InPlace
  <2>4. \A j \in Entries : entry'[j].status = "SUPERSEDED" =>
            entry[j].status = "SUPERSEDED" /\ entry'[j].by = entry[j].by
    BY <1>6 DEF InPlace
  <2>5. QED
    BY <2>1, <2>2, <2>3, <2>4
<1>8. TasksEntitled'
  <2> SUFFICES ASSUME NEW n \in MemoryTasks
               PROVE  Entitled(task[n])'
    BY DEF TasksEntitled
  <2>1. CASE n = m
    BY <1>2, <1>3, <2>1 DEF Entitled, TaskBecomes
  <2>2. CASE n # m
    <3> DEFINE t == task[n]
    <3>1. task'[n] = t
      BY <1>3, <2>2 DEF TaskBecomes
    <3>2. /\ t.step = "inserting" => t.replaces \in Entries \union {0}
          /\ t.step = "embedding" => t.made \in Entries
          /\ t.step \in {"expiring", "deleting"} => t.rows \subseteq Entries
      BY TaskHolds
    <3>3. Entitled(t)
      BY DEF TasksEntitled
    <3>4. t.step = "embedding" /\ entry'[t.made].status = "DELETED" => t.made \in revived'
      BY <3>2 DEF InPlace
    <3> HIDE DEF t
    <3>5. Entitled(t)'
      <4> SUFFICES /\ t.step = "inserting" /\ t.replaces # 0 =>
                        /\ entry'[t.replaces] # NoEntry
                        /\ entry'[t.replaces].kind = "user-correction" =>
                            t.kind = "user-correction"
                   /\ t.step = "embedding" => entry'[t.made] # NoEntry
                   /\ t.step \in {"expiring", "deleting"} =>
                        \A i \in t.rows : entry'[i] # NoEntry
        BY <3>1, <3>4 DEF Entitled, t
      <4>1. QED
        BY <3>2, <3>3 DEF Entitled, InPlace
    <3>6. QED
      BY <3>1, <3>5 DEF t
  <2>3. QED
    BY <2>1, <2>2
<1>9. OneMerge'
  <2>1. \A n \in MemoryTasks : task'[n].step \in Merging => n # m /\ task'[n] = task[n]
    BY <1>2, <1>3 DEF TaskBecomes, Merging
  <2>2. \A i \in Entries : entry'[i].status = "ACTIVE" => entry[i].status = "ACTIVE"
    BY <1>6
  <2>3. QED
    BY <2>1, <2>2 DEF OneMerge, Merging
<1>10. Forgotten'
  BY DEF Forgotten, WithStatus, InPlace
<1>11. QED
  BY <1>4, <1>5, <1>7, <1>8, <1>9, <1>10

\* Fields of the rows that embedding, pruning and deleting write.
LEMMA RowWritten ==
  ASSUME NEW e \in EntryRecord
  PROVE  /\ LET new == [e EXCEPT !.vector = TRUE]
            IN  /\ new \in EntryRecord /\ new.status = e.status /\ new.kind = e.kind
                /\ new.by = e.by
         /\ LET new == [e EXCEPT !.vector = FALSE]
            IN  /\ new \in EntryRecord /\ new.status = e.status /\ new.kind = e.kind
                /\ new.by = e.by /\ ~new.vector
         /\ LET new == [e EXCEPT !.status = "DELETED", !.vector = FALSE]
            IN  /\ new \in EntryRecord /\ new.status = "DELETED" /\ new.kind = e.kind
                /\ ~new.vector
         /\ /\ Deleted(e) \in EntryRecord /\ Deleted(e).status = "DELETED"
            /\ Deleted(e).kind = e.kind /\ ~Deleted(e).vector
BY DEF EntryRecord, MemoryStatus, Deleted

LEMMA EmbedEndsInPlace ==
  ASSUME MemoryInv, NEW m \in MemoryTasks, EmbedEnds(m)
  PROVE  InPlace
<1> USE DEF MemoryInv
<1> DEFINE k == task[m].made
<1>1. /\ task[m].step = "embedding" /\ UNCHANGED revived
      /\ entry' = [entry EXCEPT ![k].vector = TRUE] \/ UNCHANGED entry
  BY DEF EmbedEnds
<1>2. /\ k \in Entries /\ entry[k] # NoEntry
      /\ entry[k].status = "DELETED" => k \in revived
  BY <1>1, TaskHolds DEF TasksEntitled, Entitled
<1>3. entry \in [Entries -> {NoEntry} \union EntryRecord] /\ revived \subseteq Entries
  BY DEF MemoryTypeOK, EntryRecord
<1>4. \A i \in Entries : entry[i].status = "DELETED" =>
        /\ entry[i].vector => i \in revived
        /\ \A n \in MemoryTasks : task[n].step = "embedding" /\ task[n].made = i =>
            i \in revived
  BY DEF Forgotten, WithStatus, TasksEntitled, Entitled
<1>5. CASE UNCHANGED entry
  BY <1>1, <1>3, <1>4, <1>5 DEF InPlace
<1>6. CASE entry' = [entry EXCEPT ![k].vector = TRUE]
  <2> DEFINE new == [entry[k] EXCEPT !.vector = TRUE]
  <2>1. /\ new \in EntryRecord /\ new.status = entry[k].status /\ new.kind = entry[k].kind
        /\ new.by = entry[k].by
    BY <1>2, EntryKinds, RowWritten
  <2>2. new # NoEntry
    BY <1>2, <2>1, EntryKinds, ZenonT(40)
  <2>3. entry' = [entry EXCEPT ![k] = new]
    BY <1>6
  <2> HIDE DEF new, k
  <2>4. \A i \in Entries : entry'[i] = IF i = k THEN new ELSE entry[i]
    BY <1>3, <2>3
  <2>5. entry' \in [Entries -> {NoEntry} \union EntryRecord]
    BY <1>3, <2>1, <2>3
  <2>6. \A i \in Entries : entry'[i].status = entry[i].status
    BY <2>1, <2>4
  <2>7. QED
    BY <1>1, <1>2, <1>3, <1>4, <2>1, <2>2, <2>4, <2>5, <2>6 DEF InPlace
<1>7. QED
  BY <1>1, <1>5, <1>6

LEMMA PruneWritesInPlace ==
  ASSUME MemoryInv, NEW m \in MemoryTasks, PruneWrites(m)
  PROVE  InPlace
<1> USE DEF MemoryInv
<1> DEFINE rows == task[m].rows
           embedded == {i \in {j \in rows : entry[j].status = "ACTIVE"} :
                            \E n \in MemoryTasks :
                                task[n].step = "embedding" /\ task[n].made = i}
           changed(i) == IF entry[i].status = "ACTIVE"
                         THEN [entry[i] EXCEPT !.status = "DELETED", !.vector = FALSE]
                         ELSE [entry[i] EXCEPT !.vector = FALSE]
<1>1. /\ task[m].step = "expiring"
      /\ entry' = [i \in Entries |-> IF i \notin rows THEN entry[i] ELSE changed(i)]
      /\ revived' = revived \union embedded
  BY DEF PruneWrites, Revives
<1>2. rows \subseteq Entries /\ \A i \in rows : entry[i] # NoEntry
  BY <1>1, TaskHolds DEF TasksEntitled, Entitled
<1>3. entry \in [Entries -> {NoEntry} \union EntryRecord] /\ revived \subseteq Entries
  BY DEF MemoryTypeOK, EntryRecord
<1>4. \A i \in Entries : entry[i].status = "DELETED" =>
        /\ entry[i].vector => i \in revived
        /\ \A n \in MemoryTasks : task[n].step = "embedding" /\ task[n].made = i =>
            i \in revived
  BY DEF Forgotten, WithStatus, TasksEntitled, Entitled
<1>5. \A i \in rows :
        /\ changed(i) \in EntryRecord /\ changed(i) # NoEntry
        /\ changed(i).status = (IF entry[i].status = "ACTIVE" THEN "DELETED" ELSE entry[i].status)
        /\ changed(i).kind = entry[i].kind /\ ~changed(i).vector
        /\ entry[i].status # "ACTIVE" => changed(i).by = entry[i].by
  <2> SUFFICES ASSUME NEW i \in rows
               PROVE  /\ changed(i) \in EntryRecord /\ changed(i) # NoEntry
                      /\ changed(i).status = (IF entry[i].status = "ACTIVE" THEN "DELETED"
                                              ELSE entry[i].status)
                      /\ changed(i).kind = entry[i].kind /\ ~changed(i).vector
                      /\ entry[i].status # "ACTIVE" => changed(i).by = entry[i].by
    OBVIOUS
  <2>1. entry[i] \in EntryRecord
    BY <1>2, EntryKinds
  <2>2. entry[i].status # "NO_ROW" /\ NoEntry.status = "NO_ROW"
    BY <1>2, EntryKinds
  <2>3. QED
    BY <2>1, <2>2, RowWritten
<1> HIDE DEF changed
<1>6. \A i \in Entries : entry'[i] = IF i \notin rows THEN entry[i] ELSE changed(i)
  BY <1>1
<1>7. entry' \in [Entries -> {NoEntry} \union EntryRecord]
  BY <1>1, <1>3, <1>5
<1>8. revived \subseteq revived' /\ revived' \subseteq Entries
  BY <1>1, <1>2, <1>3
<1>9. \A i \in Entries : entry'[i].status = "DELETED" =>
        /\ entry'[i].vector => i \in revived'
        /\ \A n \in MemoryTasks : task[n].step = "embedding" /\ task[n].made = i =>
            i \in revived'
  BY <1>1, <1>4, <1>5, <1>6
<1> HIDE DEF embedded, rows
<1>10. QED
  BY <1>2, <1>5, <1>6, <1>7, <1>8, <1>9 DEF InPlace

LEMMA DeleteWritesInPlace ==
  ASSUME MemoryInv, NEW m \in MemoryTasks, DeleteWrites(m)
  PROVE  InPlace
<1> USE DEF MemoryInv
<1> DEFINE rows == task[m].rows
           embedded == {i \in rows : \E n \in MemoryTasks :
                            task[n].step = "embedding" /\ task[n].made = i}
<1>1. /\ task[m].step = "deleting"
      /\ entry' = [i \in Entries |-> IF i \in rows THEN Deleted(entry[i]) ELSE entry[i]]
      /\ revived' = revived \union embedded
  BY DEF DeleteWrites, Revives
<1>2. rows \subseteq Entries /\ \A i \in rows : entry[i] # NoEntry
  BY <1>1, TaskHolds DEF TasksEntitled, Entitled
<1>3. entry \in [Entries -> {NoEntry} \union EntryRecord] /\ revived \subseteq Entries
  BY DEF MemoryTypeOK, EntryRecord
<1>4. \A i \in Entries : entry[i].status = "DELETED" =>
        /\ entry[i].vector => i \in revived
        /\ \A n \in MemoryTasks : task[n].step = "embedding" /\ task[n].made = i =>
            i \in revived
  BY DEF Forgotten, WithStatus, TasksEntitled, Entitled
<1>5. \A i \in rows :
        /\ Deleted(entry[i]) \in EntryRecord /\ Deleted(entry[i]) # NoEntry
        /\ Deleted(entry[i]).status = "DELETED"
        /\ Deleted(entry[i]).kind = entry[i].kind /\ ~Deleted(entry[i]).vector
  BY <1>2, EntryKinds, RowWritten
<1>6. \A i \in Entries : entry'[i] = IF i \in rows THEN Deleted(entry[i]) ELSE entry[i]
  BY <1>1
<1>7. entry' \in [Entries -> {NoEntry} \union EntryRecord]
  BY <1>1, <1>3, <1>5
<1>8. revived \subseteq revived' /\ revived' \subseteq Entries
  BY <1>1, <1>2, <1>3
<1>9. \A i \in Entries : entry'[i].status = "DELETED" =>
        /\ entry'[i].vector => i \in revived'
        /\ \A n \in MemoryTasks : task[n].step = "embedding" /\ task[n].made = i =>
            i \in revived'
  BY <1>1, <1>4, <1>5, <1>6
<1> HIDE DEF embedded, rows
<1>10. QED
  BY <1>2, <1>5, <1>6, <1>7, <1>8, <1>9 DEF InPlace

\* What the writes of a merge do to each row: row i is new and the last, and the
\* active row it replaces, if any, names it.
MergeWrites(m, i) ==
    /\ entry' \in [Entries -> {NoEntry} \union EntryRecord]
    /\ entry[i] = NoEntry /\ entry'[i] # NoEntry /\ entry'[i].status = "ACTIVE"
    /\ entry'[i].kind = task[m].kind
    /\ task[m].replaces # 0 => task[m].replaces \in Entries /\ task[m].replaces < i
    /\ \A j \in Entries \ {i} :
        /\ entry'[j] = NoEntry <=> entry[j] = NoEntry
        /\ entry[j] # NoEntry => entry'[j].kind = entry[j].kind
        /\ IF j = task[m].replaces /\ entry[j].status = "ACTIVE"
           THEN entry'[j].status = "SUPERSEDED" /\ entry'[j].by = i
           ELSE entry'[j] = entry[j]

LEMMA MergeCommitsWrites ==
  ASSUME MemoryInv, NEW m \in MemoryTasks, NEW i \in Entries, MergeCommits(m, i)
  PROVE  MergeWrites(m, i)
<1> USE DEF MemoryInv
<1> DEFINE r == task[m].replaces
           new == [status |-> "ACTIVE", content |-> task[m].content,
                   kind |-> task[m].kind, by |-> 0, vector |-> FALSE]
           over(j) == [entry[j] EXCEPT !.status = "SUPERSEDED", !.by = i]
<1>1. task[m].step = "inserting" /\ IsNextEntry(i) /\ entry' = Replaced(m, i)
  BY DEF MergeCommits
<1>2. /\ task[m].content \in Memories /\ task[m].kind \in SourceKind
      /\ r \in Entries \union {0} /\ (r # 0 => entry[r] # NoEntry)
  BY <1>1, TaskHolds DEF TasksEntitled, Entitled
<1>3. entry[i] = NoEntry
  BY <1>1 DEF IsNextEntry
<1>4. r # 0 => r \in Entries /\ r < i
  <2> HIDE DEF r
  <2>1. r # 0 => r \in Entries /\ r # i /\ ~(i < r)
    BY <1>2, <1>3 DEF NoGap
  <2>2. Entries \subseteq Nat
    BY DEF Entries
  <2>3. i \in Nat /\ (r # 0 => r \in Nat)
    BY <2>1, <2>2
  <2> HIDE DEF r
  <2>4. QED
    BY <2>1, <2>3
<1>5. new \in EntryRecord /\ new.status = "ACTIVE" /\ new.kind = task[m].kind
  BY <1>2 DEF EntryRecord, MemoryStatus
<1>6. \A j \in Entries : entry[j].status = "ACTIVE" =>
        /\ over(j) \in EntryRecord /\ over(j).status = "SUPERSEDED" /\ over(j).by = i
        /\ over(j).kind = entry[j].kind
  <2> SUFFICES ASSUME NEW j \in Entries, entry[j].status = "ACTIVE"
               PROVE  /\ over(j) \in EntryRecord /\ over(j).status = "SUPERSEDED"
                      /\ over(j).by = i /\ over(j).kind = entry[j].kind
    OBVIOUS
  <2>1. entry[j] \in EntryRecord
    BY EntryKinds
  <2>2. QED
    BY <2>1 DEF EntryRecord, MemoryStatus
<1>7. entry' = [j \in Entries |-> IF j = i THEN new
                                  ELSE IF j = r /\ entry[j].status = "ACTIVE"
                                       THEN over(j) ELSE entry[j]]
  BY <1>1 DEF Replaced
<1>8. entry \in [Entries -> {NoEntry} \union EntryRecord]
  BY DEF MemoryTypeOK, EntryRecord
<1>9. \A j \in Entries : entry[j].status = "ACTIVE" => entry[j] # NoEntry
  BY EntryKinds
<1>10. \A e \in EntryRecord : e # NoEntry
  <2>1. \A e \in EntryRecord : e.status # "NO_ROW"
    BY DEF EntryRecord, MemoryStatus
  <2>2. QED
    BY <2>1, EntryKinds
<1> HIDE DEF new, over, r
<1>11. entry' \in [Entries -> {NoEntry} \union EntryRecord]
  BY <1>5, <1>6, <1>7, <1>8
<1>12. \A j \in Entries : entry'[j] = IF j = i THEN new
                                      ELSE IF j = r /\ entry[j].status = "ACTIVE"
                                           THEN over(j) ELSE entry[j]
  BY <1>7
<1>13. QED
  BY <1>3, <1>4, <1>5, <1>6, <1>9, <1>10, <1>11, <1>12 DEF MergeWrites, r

LEMMA MergeCommitsKeeps ==
  ASSUME MemoryInv, NEW m \in MemoryTasks, NEW i \in Entries, MergeCommits(m, i)
  PROVE  MemoryInv'
<1> USE DEF MemoryInv
<1> DEFINE r == task[m].replaces
           new == [step |-> "merged", content |-> task[m].content, kind |-> task[m].kind,
                   made |-> i]
<1>1. /\ task[m].step = "inserting" /\ IsNextEntry(i) /\ Turns(m, new)
      /\ UNCHANGED <<crossed, revived>>
  BY DEF MergeCommits, Merged
<1>2. /\ task[m].content \in Memories /\ task[m].kind \in SourceKind
      /\ r # 0 /\ entry[r].kind = "user-correction" => task[m].kind = "user-correction"
  BY <1>1, TaskHolds DEF TasksEntitled, Entitled
<1>3. new \in TaskStates /\ new.step = "merged"
  BY <1>2, TaskBuilt
<1> HIDE DEF new
<1>4. TaskBecomes(m, new)
  BY <1>1, <1>3, TaskReplaced
<1>5. MergeWrites(m, i)
  BY MergeCommitsWrites
<1>6. MemoryTypeOK'
  BY <1>1, <1>4, <1>5 DEF MemoryTypeOK, MergeWrites, TaskBecomes, EntryRecord
<1>7. /\ \A j \in Entries : entry[j] # NoEntry => entry'[j] # NoEntry
      /\ \A j \in Entries : entry[j] # NoEntry => j # i /\ entry'[j].kind = entry[j].kind
  BY <1>5 DEF MergeWrites
<1>8. NoGap'
  <2>1. Entries \subseteq Nat
    BY DEF Entries
  <2>2. \A j \in Entries : j < i => entry'[j] # NoEntry
    BY <1>1, <1>7 DEF IsNextEntry
  <2>3. \A j \in Entries : entry'[j] # NoEntry => j = i \/ entry[j] # NoEntry
    BY <1>5 DEF MergeWrites
  <2>4. QED
    BY <1>7, <2>1, <2>2, <2>3 DEF NoGap
<1>9. \A j \in Entries : entry'[j].status = "SUPERSEDED" =>
        \/ entry[j].status = "SUPERSEDED" /\ j # i /\ entry'[j] = entry[j]
        \/ /\ j = r /\ entry'[j].by = i /\ entry[j].status = "ACTIVE" /\ j # i /\ j # 0
           /\ j < i
  BY <1>5, MemoryAssumption DEF MergeWrites, Entries
<1>10. \A j \in Entries : entry[j].status \in {"ACTIVE", "SUPERSEDED"} => entry[j] # NoEntry
  BY EntryKinds
<1>11. Succeeded'
  <2> SUFFICES ASSUME NEW j \in Entries, entry'[j].status = "SUPERSEDED"
               PROVE  /\ entry'[j].by \in Entries /\ entry'[j].by > j
                      /\ entry'[entry'[j].by] # NoEntry
                      /\ entry'[j].kind = "user-correction" =>
                            entry'[entry'[j].by].kind = "user-correction"
                      /\ \A x \in Entries :
                            entry'[x].status = "SUPERSEDED" /\ entry'[x].by = entry'[j].by
                            => j = x
    BY DEF Succeeded
  <2>1. CASE entry[j].status = "SUPERSEDED" /\ j # i /\ entry'[j] = entry[j]
    <3> DEFINE k == entry[j].by
    <3>1. /\ k \in Entries /\ k > j /\ entry[k] # NoEntry
          /\ entry[j].kind = "user-correction" => entry[k].kind = "user-correction"
          /\ \A x \in Entries : entry[x].status = "SUPERSEDED" /\ entry[x].by = k => j = x
      BY <2>1 DEF Succeeded
    <3> HIDE DEF k
    <3>2. k # i /\ entry'[k] # NoEntry /\ entry'[k].kind = entry[k].kind
      BY <1>7, <3>1
    <3>3. \A x \in Entries : entry'[x].status = "SUPERSEDED" /\ entry'[x].by = k => j = x
      BY <1>9, <3>1, <3>2
    <3>4. QED
      BY <2>1, <3>1, <3>2, <3>3 DEF k
  <2>2. CASE /\ j = r /\ entry'[j].by = i /\ entry[j].status = "ACTIVE" /\ j # i /\ j # 0
             /\ j < i
    <3>1. entry'[j].kind = entry[j].kind /\ entry'[i].kind = task[m].kind /\ entry'[i] # NoEntry
      BY <1>5, <1>7, <1>10, <2>2 DEF MergeWrites
    <3>2. \A x \in Entries : entry[x].status = "SUPERSEDED" => entry[x].by # i
      <4>1. \A x \in Entries : entry[x].status = "SUPERSEDED" =>
                entry[entry[x].by] # NoEntry
        BY DEF Succeeded
      <4>2. QED
        BY <1>1, <4>1 DEF IsNextEntry
    <3>3. \A x \in Entries : entry'[x].status = "SUPERSEDED" /\ entry'[x].by = i => j = x
      BY <1>9, <2>2, <3>2
    <3>4. i > j
      BY <2>2 DEF Entries
    <3> HIDE DEF r
    <3>5. entry[j].kind = "user-correction" => task[m].kind = "user-correction"
      BY <1>2, <2>2
    <3>6. QED
      BY <2>2, <3>1, <3>3, <3>4, <3>5
  <2>3. QED
    BY <1>9, <2>1, <2>2
<1>12. \A j \in Entries : entry'[j].status = "DELETED" => j # i /\ entry'[j] = entry[j]
  BY <1>5 DEF MergeWrites
<1>13. TasksEntitled'
  <2> SUFFICES ASSUME NEW n \in MemoryTasks
               PROVE  Entitled(task[n])'
    BY DEF TasksEntitled
  <2>1. CASE n = m
    BY <1>3, <1>4, <2>1 DEF Entitled, TaskBecomes
  <2>2. CASE n # m
    <3> DEFINE t == task[n]
    <3>1. task'[n] = t
      BY <1>4, <2>2 DEF TaskBecomes
    <3>2. /\ t.step = "inserting" => t.replaces \in Entries \union {0}
          /\ t.step = "embedding" => t.made \in Entries
          /\ t.step \in {"expiring", "deleting"} => t.rows \subseteq Entries
      BY TaskHolds
    <3>3. Entitled(t)
      BY DEF TasksEntitled
    <3> HIDE DEF t
    <3>4. /\ t.step = "inserting" /\ t.replaces # 0 =>
                /\ entry'[t.replaces] # NoEntry
                /\ entry'[t.replaces].kind = "user-correction" => t.kind = "user-correction"
          /\ t.step = "embedding" =>
                /\ entry'[t.made] # NoEntry
                /\ entry'[t.made].status = "DELETED" => t.made \in revived'
          /\ t.step \in {"expiring", "deleting"} => \A x \in t.rows : entry'[x] # NoEntry
      BY <1>1, <1>7, <1>12, <3>2, <3>3 DEF Entitled
    <3>5. QED
      BY <3>1, <3>4 DEF Entitled, t
  <2>3. QED
    BY <2>1, <2>2
<1>14. OneMerge'
  <2> SUFFICES ASSUME ~crossed
               PROVE  /\ \A n \in MemoryTasks : task'[n].step \notin Merging
                      /\ \A j \in Entries : entry'[j].status = "ACTIVE" => j = i
    BY <1>1 DEF OneMerge, Merging
  <2>1. \A n \in MemoryTasks : task[n].step \in Merging => n = m
    BY <1>1 DEF OneMerge, Merging
  <2>2. \A n \in MemoryTasks : task'[n].step \notin Merging
    BY <1>3, <1>4, <2>1 DEF TaskBecomes, Merging
  <2>3. \A j \in Entries : entry[j].status = "ACTIVE" => j = r
    BY <1>1 DEF OneMerge
  <2> HIDE DEF r
  <2>4. \A j \in Entries : entry'[j].status = "ACTIVE" => j = i
    BY <1>5, <2>3 DEF MergeWrites, r
  <2>5. QED
    BY <2>2, <2>4
<1>15. Forgotten'
  BY <1>1, <1>12 DEF Forgotten, WithStatus
<1>16. QED
  BY <1>6, <1>8, <1>11, <1>13, <1>14, <1>15

LEMMA MemoryStep == MemoryInv /\ [MemoryNext]_memoryVars => MemoryInv'
<1> SUFFICES ASSUME MemoryInv, [MemoryNext]_memoryVars
             PROVE  MemoryInv'
  OBVIOUS
<1>1. CASE UNCHANGED memoryVars
  BY <1>1 DEF memoryVars, MemoryInv, MemoryTypeOK, NoGap, Succeeded, TasksEntitled,
     Entitled, OneMerge, Forgotten, WithStatus
<1>2. ASSUME NEW m \in MemoryTasks,
             EmbedEnds(m) \/ PruneWrites(m) \/ DeleteWrites(m)
      PROVE  MemoryInv'
  <2>1. InPlace
    BY <1>2, EmbedEndsInPlace, PruneWritesInPlace, DeleteWritesInPlace
  <2>2. /\ UNCHANGED crossed
        /\ \E new \in {IdleTask, [step |-> "pruning"]} : Turns(m, new)
    BY <1>2 DEF EmbedEnds, PruneWrites, DeleteWrites
  <2>3. QED
    BY <2>1, <2>2, InPlaceKeeps
<1>3. QED
  BY <1>1, <1>2, MergeReads, TaskReads, MergeCommitsKeeps DEF MemoryNext

LEMMA MemoryInvHolds == MemorySpec => []MemoryInv
BY MemoryInvInit, MemoryStep, PTL DEF MemorySpec

\* For any number of tasks and rows: the variables of the memory keep their types.
THEOREM MemoryTypeCorrect == MemorySpec => []MemoryTypeOK
<1>1. MemoryInv => MemoryTypeOK
  BY DEF MemoryInv
<1>2. QED
  BY <1>1, MemoryInvHolds, PTL

\* However curations, corrections and deletions of a subject overlap, retry and
\* fail: a superseded row names the later row that replaced it, which no other
\* does; a correction is replaced by a correction only; and there is one active
\* row unless two merges were between their reads and their writes at once.
THEOREM CorrectionsOutrank == MemorySpec => []SlotOfSubject
<1>1. ASSUME MemoryInv
      PROVE  SlotOfSubject
  <2>1. ASSUME ~crossed
        PROVE  Cardinality(WithStatus("ACTIVE")) <= 1
    <3> DEFINE A == WithStatus("ACTIVE")
    <3>1. \A i, j \in A : i = j
      BY <1>1, <2>1 DEF MemoryInv, OneMerge, WithStatus
    <3> HIDE DEF A
    <3>2. A = {} \/ \E i \in A : A = {i}
      BY <3>1
    <3>3. CASE A = {}
      BY <3>3, FS_EmptySet DEF A
    <3>4. CASE \E i \in A : A = {i}
      <4>1. Cardinality(A) = 1
        BY <3>4, FS_Singleton
      <4>2. QED
        BY <4>1 DEF A
    <3>5. QED
      BY <3>2, <3>3, <3>4
  <2>2. QED
    BY <1>1, <2>1 DEF SlotOfSubject, MemoryInv, Succeeded, WithStatus
<1>2. QED
  BY <1>1, MemoryInvHolds, PTL

\* A deleted row has no vector, unless it was being embedded when it was deleted,
\* whatever is pruned and embedded after that.
THEOREM DeletedForgotten == MemorySpec => []Forgotten
<1>1. MemoryInv => Forgotten
  BY DEF MemoryInv
<1>2. QED
  BY <1>1, MemoryInvHolds, PTL

-----------------------------------------------------------------------------
(* Files *)

AttemptRecord ==
    [step : FileSteps \union {"new", "ended"}, key : CallKeys \union {NoKey},
     row : [id : Attempts, text : Texts] \union {NoFile}, ignored : BOOLEAN]

WritingSteps == {"inserting", "lost", "rewriting", "writing", "stamping", "undoing", "reading",
                 "relooking", "overwriting", "committing"}

\* Only a sync has no key, and what it compares and restores it has read.
Keyed ==
    \A a \in Attempts :
        /\ attempt[a].step \notin {"new", "ended", "comparing", "restoring"} =>
            attempt[a].key \in CallKeys
        /\ attempt[a].step = "new" => attempt[a].key = NoKey
        /\ attempt[a].step \in WritingSteps => Call(a).tool # "delete_file"
        /\ attempt[a].step \in {"comparing", "restoring"} => attempt[a].row # NoFile

\* What the only attempt that runs has done by its step.
Done(a) ==
    /\ attempt[a].step # "lost"
    /\ attempt[a].step = "inserting" => row = NoFile
    /\ attempt[a].step = "rewriting" => row # NoFile /\ row.text = Call(a).text
    /\ attempt[a].step \in {"writing", "stamping"} =>
        row # NoFile /\ row.id = a /\ row.text = Call(a).text
    /\ attempt[a].step = "overwriting" => row # NoFile
    /\ attempt[a].step = "committing" => row # NoFile
    /\ attempt[a].step \in {"stamping", "committing"} => disk = Call(a).text
    /\ attempt[a].step \in {"dropping", "unlinking"} => Call(a).text = NoText
    /\ attempt[a].step = "unlinking" => row = NoFile
    /\ attempt[a].step = "succeeding" /\ ~attempt[a].ignored =>
        row.text = Call(a).text /\ disk = Call(a).text
    /\ attempt[a].key \in CallKeys => callStatus[attempt[a].key] # "SUCCEEDED"

Alone ==
    ~overlapped =>
        /\ \A a, b \in Attempts : Running(a) /\ Running(b) => a = b
        /\ \A a \in Attempts : Running(a) => Done(a)

\* Between the two writes of the only attempt, and nowhere else, the row and
\* the workspace differ, until something fails.
Mirror ==
    ~overlapped /\ fileFaults = 0 =>
        /\ \A a \in Attempts :
            /\ attempt[a].step \notin {"undoing", "restoring"}
            /\ attempt[a].step = "comparing" => attempt[a].row.text = row.text
        /\ (\A a \in Attempts : attempt[a].step \notin {"writing", "committing", "unlinking"})
                => disk = row.text

NoDeletion == \A k \in CallKeys : asked[k].tool # "delete_file"

\* Attempts that overlap, none of a deletion: a row without bytes is one whose
\* creation is about to write them.
Paired ==
    NoDeletion /\ fileFaults = 0 =>
        /\ disk # NoText => row # NoFile
        /\ row # NoFile /\ disk = NoText => \E a \in Attempts : attempt[a].step = "writing"
        /\ \A a \in Attempts :
            /\ attempt[a].step \notin {"undoing", "dropping", "unlinking"}
            /\ attempt[a].step \in {"writing", "stamping"} => row # NoFile /\ row.id = a
            /\ attempt[a].step \in {"rewriting", "overwriting", "comparing", "restoring"} =>
                row # NoFile

FileInv == FileTypeOK /\ Keyed /\ Alone /\ Mirror /\ Paired

\* Attempt a is at the step next, with the key and the reading it has.
AttemptGoes(a, next, key, seen, ignored) ==
    /\ attempt' \in [Attempts -> AttemptRecord]
    /\ \A b \in Attempts \ {a} : attempt'[b] = attempt[b]
    /\ attempt'[a].step = next /\ attempt'[a].key = key
    /\ attempt'[a].row = seen /\ attempt'[a].ignored = ignored

AttemptMoves(a, next) ==
    AttemptGoes(a, next, attempt[a].key, attempt[a].row, attempt[a].ignored)

AnyStep == FileSteps \union {"new", "ended"}

LEMMA AttemptFields ==
  ASSUME FileTypeOK, NEW a \in Attempts
  PROVE  /\ attempt[a].step \in AnyStep /\ attempt[a].key \in CallKeys \union {NoKey}
         /\ attempt[a].row \in [id : Attempts, text : Texts] \union {NoFile}
         /\ attempt[a].ignored \in BOOLEAN
         /\ \A b \in Attempts : attempt[b] \in AttemptRecord
BY DEF FileTypeOK, AttemptRecord, AnyStep

LEMMA AttemptReplaced ==
  ASSUME FileTypeOK, NEW a \in Attempts, NEW next \in AnyStep
  PROVE  /\ Goes(a, next) => AttemptMoves(a, next)
         /\ \A seen \in [id : Attempts, text : Texts] \union {NoFile} :
                GoesWith(a, next, seen) =>
                    AttemptGoes(a, next, attempt[a].key, seen, attempt[a].ignored)
         /\ \A k \in CallKeys :
                attempt' = [attempt EXCEPT ![a].key = k, ![a].step = next] =>
                    AttemptGoes(a, next, k, attempt[a].row, attempt[a].ignored)
         /\ attempt' = [attempt EXCEPT ![a].step = next, ![a].ignored = TRUE] =>
                AttemptGoes(a, next, attempt[a].key, attempt[a].row, TRUE)
BY DEF FileTypeOK, AttemptRecord, AnyStep, Goes, GoesWith, AttemptMoves, AttemptGoes

LEMMA RowKinds ==
  /\ NoFile.id = NoKey /\ NoFile.text = NoText
  /\ NoText \notin Texts /\ NoKey \notin Attempts /\ NoKey \notin CallKeys
  /\ \A r \in [id : Attempts, text : Texts] :
        r # NoFile /\ r.id \in Attempts /\ r.text \in Texts /\ r.text # NoText
<1>1. /\ NoFile.id = NoKey /\ NoFile.text = NoText
      /\ NoText \notin Texts /\ NoKey \notin Attempts /\ NoKey \notin CallKeys
  BY FileAssumption DEF NoFile
<1>2. QED
  BY <1>1

\* What a call of each tool asks for.
LEMMA CallAsks ==
  ASSUME FileTypeOK, NEW a \in Attempts
  PROVE  /\ attempt[a].key \notin CallKeys => Call(a) = Sync /\ Sync.tool = "sync"
         /\ attempt[a].key \in CallKeys =>
                /\ Call(a) = asked[attempt[a].key]
                /\ Call(a).text \in Texts \union {NoText}
                /\ Call(a).tool # "delete_file" => Call(a).text \in Texts
                /\ Call(a).tool = "delete_file" => Call(a).text = NoText
<1>1. attempt[a].key \in CallKeys \union {NoKey} /\ asked \in [CallKeys -> Tools]
  BY AttemptFields DEF FileTypeOK
<1>2. \A t \in Tools :
        /\ t.text \in Texts \union {NoText}
        /\ t.tool # "delete_file" => t.text \in Texts
        /\ t.tool = "delete_file" => t.text = NoText
  BY DEF Tools
<1>3. CASE attempt[a].key \notin CallKeys
  BY <1>1, <1>3 DEF Call, Sync
<1>4. CASE attempt[a].key \in CallKeys
  <2>1. attempt[a].key # NoKey
    BY <1>4, RowKinds
  <2>2. Call(a) = asked[attempt[a].key] /\ asked[attempt[a].key] \in Tools
    BY <1>1, <1>4, <2>1 DEF Call
  <2>3. QED
    BY <1>2, <1>4, <2>2
<1>5. QED
  BY <1>3, <1>4

LEMMA FileInvInit == FileInit => FileInv
<1> SUFFICES ASSUME FileInit
             PROVE  FileInv
  OBVIOUS
<1>1. FileTypeOK
  <2>1. NewAttempt \in AttemptRecord
    BY DEF NewAttempt, AttemptRecord
  <2>2. attempt \in [Attempts -> AttemptRecord]
    BY <2>1 DEF FileInit
  <2>3. fileFaults \in 0 .. MaxFileFaults
    BY FileAssumption DEF FileInit
  <2>4. QED
    BY <2>2, <2>3 DEF FileInit, FileTypeOK, AttemptRecord, CallStatus
<1>2. \A a \in Attempts : attempt[a].step = "new" /\ ~Running(a)
  BY DEF FileInit, NewAttempt, Running, FileSteps
<1>3. QED
  BY <1>1, <1>2, RowKinds DEF FileInit, NewAttempt, FileInv, WritingSteps, Keyed, Alone, Mirror, Paired

-----------------------------------------------------------------------------

\* What a step of a running attempt owes each part of the invariant.
StepTyped(a, next, seen, ignored) ==
    /\ Running(a) /\ AttemptGoes(a, next, attempt[a].key, seen, ignored)
    /\ row' \in [id : Attempts, text : Texts] \union {NoFile}
    /\ disk' \in Texts \union {NoText}
    /\ callStatus' \in [CallKeys -> CallStatus]
    /\ fileFaults' \in 0 .. MaxFileFaults /\ (fileFaults' = 0 => fileFaults = 0)
    /\ UNCHANGED <<asked, overlapped>>
    /\ next # "new"
    /\ next \notin {"ended", "comparing", "restoring"} => attempt[a].key \in CallKeys
    /\ next \in {"comparing", "restoring"} => seen # NoFile
    /\ next \in WritingSteps => Call(a).tool # "delete_file"

StepMirrors(next, seen) ==
    ~overlapped /\ fileFaults' = 0 =>
        /\ next \notin {"undoing", "restoring"}
        /\ next = "comparing" => seen.text = row'.text
        /\ next \notin {"writing", "committing", "unlinking"} => disk' = row'.text

StepPairs(a, next) ==
    NoDeletion /\ fileFaults' = 0 =>
        /\ row # NoFile => row' # NoFile /\ row'.id = row.id
        /\ disk' # NoText => row' # NoFile
        /\ row' # NoFile /\ disk' = NoText =>
            \/ next = "writing"
            \/ attempt[a].step # "writing" /\ row # NoFile /\ disk = NoText
        /\ next \notin {"undoing", "dropping", "unlinking"}
        /\ next \in {"writing", "stamping"} => row' # NoFile /\ row'.id = a
        /\ next \in {"rewriting", "overwriting", "comparing", "restoring"} => row' # NoFile

StepOwes(a, next, seen, ignored) ==
    /\ StepTyped(a, next, seen, ignored)
    /\ ~overlapped /\ next \in FileSteps => Done(a)'
    /\ StepMirrors(next, seen)
    /\ StepPairs(a, next)

LEMMA StepKeepsFile ==
  ASSUME FileInv, NEW a \in Attempts, NEW next, NEW seen, NEW ignored,
         StepOwes(a, next, seen, ignored)
  PROVE  FileInv'
<1> USE DEF FileInv, StepOwes
<1>1. FileTypeOK'
  BY DEF StepTyped, FileTypeOK, AttemptGoes, AttemptRecord
<1>2. \A b \in Attempts \ {a} : attempt'[b] = attempt[b]
  BY DEF StepTyped, AttemptGoes
<1>3. /\ attempt'[a].step = next /\ attempt'[a].key = attempt[a].key
      /\ attempt'[a].row = seen /\ attempt'[a].ignored = ignored
  BY DEF StepTyped, AttemptGoes
<1>4. Keyed'
  <2>1. \A b \in Attempts : Call(b)' = Call(b)
    BY <1>2, <1>3 DEF Call, StepTyped
  <2>2. QED
    BY <1>2, <1>3, <2>1 DEF Keyed, StepTyped
<1>5. ~overlapped => \A b \in Attempts \ {a} : attempt'[b].step \in {"new", "ended"}
  <2>1. ~overlapped => \A b \in Attempts \ {a} : attempt[b].step \notin FileSteps
    BY DEF Alone, StepTyped, Running
  <2>2. \A b \in Attempts : attempt[b].step \in AnyStep
    BY AttemptFields
  <2>3. QED
    BY <1>2, <2>1, <2>2 DEF AnyStep
<1>6. Alone'
  BY <1>3, <1>5 DEF Alone, Running, StepTyped, FileSteps
<1>7. Mirror'
  BY <1>3, <1>5 DEF Mirror, StepTyped, StepMirrors
<1>8. Paired'
  <2> SUFFICES ASSUME NoDeletion', fileFaults' = 0
               PROVE  /\ disk' # NoText => row' # NoFile
                      /\ row' # NoFile /\ disk' = NoText =>
                            \E b \in Attempts : attempt'[b].step = "writing"
                      /\ \A b \in Attempts :
                            /\ attempt'[b].step \notin {"undoing", "dropping", "unlinking"}
                            /\ attempt'[b].step \in {"writing", "stamping"} =>
                                row' # NoFile /\ row'.id = b
                            /\ attempt'[b].step \in {"rewriting", "overwriting", "comparing",
                                                     "restoring"} => row' # NoFile
    BY DEF Paired
  <2>1. NoDeletion /\ fileFaults = 0
    BY DEF NoDeletion, StepTyped
  <2>2. /\ row # NoFile /\ disk = NoText => \E b \in Attempts : attempt[b].step = "writing"
        /\ \A b \in Attempts :
            /\ attempt[b].step \notin {"undoing", "dropping", "unlinking"}
            /\ attempt[b].step \in {"writing", "stamping"} => row # NoFile /\ row.id = b
            /\ attempt[b].step \in {"rewriting", "overwriting", "comparing", "restoring"} =>
                row # NoFile
    BY <2>1 DEF Paired
  <2>3. /\ row # NoFile => row' # NoFile /\ row'.id = row.id
        /\ disk' # NoText => row' # NoFile
        /\ row' # NoFile /\ disk' = NoText =>
            \/ next = "writing"
            \/ attempt[a].step # "writing" /\ row # NoFile /\ disk = NoText
        /\ next \notin {"undoing", "dropping", "unlinking"}
        /\ next \in {"writing", "stamping"} => row' # NoFile /\ row'.id = a
        /\ next \in {"rewriting", "overwriting", "comparing", "restoring"} => row' # NoFile
    BY <2>1 DEF StepPairs, StepTyped
  <2>4. row' # NoFile /\ disk' = NoText => \E b \in Attempts : attempt'[b].step = "writing"
    BY <1>2, <1>3, <2>2, <2>3
  <2>5. QED
    BY <1>2, <1>3, <2>2, <2>3, <2>4
<1>9. QED
  BY <1>1, <1>4, <1>6, <1>7, <1>8

\* An attempt begins, of a call or of a sync.
LEMMA AttemptBegins ==
  ASSUME FileInv, NEW a \in Attempts,
         SyncLooks(a) \/ \E k \in CallKeys : CallLooks(a, k)
  PROVE  FileInv'
<1> USE DEF FileInv
<1>1. /\ UNCHANGED <<row, disk, callStatus, asked, fileFaults>>
      /\ attempt[a].step = "new" /\ overlapped' = (overlapped \/ ~AtRest)
  BY DEF SyncLooks, CallLooks, KeepsFile
<1>2. \E next \in {"ended", "comparing", "starting", "looking"},
        key \in CallKeys \union {NoKey},
        seen \in [id : Attempts, text : Texts] \union {NoFile} :
        /\ AttemptGoes(a, next, key, seen, attempt[a].ignored)
        /\ next \in {"starting", "looking"} => key \in CallKeys
        /\ next = "comparing" => seen = row /\ row # NoFile
        /\ next \in {"starting", "looking"} => callStatus[key] # "SUCCEEDED"
        /\ next = "comparing" => key \notin CallKeys
  <2>1. CASE SyncLooks(a)
    <3>1. row \in [id : Attempts, text : Texts] \union {NoFile}
      BY DEF FileTypeOK
    <3>2. GoesWith(a, IF row = NoFile THEN "ended" ELSE "comparing", row)
      BY <2>1 DEF SyncLooks
    <3>3. {"ended", "comparing"} \subseteq AnyStep
      BY DEF AnyStep, FileSteps
    <3>4. AttemptGoes(a, IF row = NoFile THEN "ended" ELSE "comparing", attempt[a].key, row,
                      attempt[a].ignored)
      BY <3>1, <3>2, <3>3, AttemptReplaced
    <3>5. attempt[a].key \in CallKeys \union {NoKey} /\ attempt[a].key \notin CallKeys
      BY <1>1, RowKinds DEF Keyed
    <3>6. QED
      BY <3>1, <3>4, <3>5
  <2>2. ASSUME NEW k \in CallKeys, CallLooks(a, k)
        PROVE  \E next \in {"ended", "starting", "looking"} :
                /\ AttemptGoes(a, next, k, attempt[a].row, attempt[a].ignored)
                /\ next # "ended" => callStatus[k] # "SUCCEEDED"
    <3> DEFINE next == IF Replayed(k) THEN "ended"
                       ELSE IF callStatus[k] = "NO_ROW" THEN "starting" ELSE "looking"
    <3>1. attempt' = [attempt EXCEPT ![a].key = k, ![a].step = next]
      BY <2>2 DEF CallLooks
    <3>2. next \in {"ended", "starting", "looking"} /\ next \in AnyStep
      BY DEF AnyStep, FileSteps
    <3>3. next # "ended" => callStatus[k] # "SUCCEEDED"
      BY DEF Replayed
    <3> HIDE DEF next
    <3>4. QED
      BY <3>1, <3>2, <3>3, AttemptReplaced
  <2>3. attempt[a].row \in [id : Attempts, text : Texts] \union {NoFile}
    BY AttemptFields
  <2>4. QED
    BY <2>1, <2>2, <2>3
<1>3. PICK next \in {"ended", "comparing", "starting", "looking"},
           key \in CallKeys \union {NoKey},
           seen \in [id : Attempts, text : Texts] \union {NoFile} :
        /\ AttemptGoes(a, next, key, seen, attempt[a].ignored)
        /\ next \in {"starting", "looking"} => key \in CallKeys
        /\ next = "comparing" => seen = row /\ row # NoFile
        /\ next \in {"starting", "looking"} => callStatus[key] # "SUCCEEDED"
        /\ next = "comparing" => key \notin CallKeys
  BY <1>2
<1>4. /\ \A b \in Attempts \ {a} : attempt'[b] = attempt[b]
      /\ attempt'[a].step = next /\ attempt'[a].key = key /\ attempt'[a].row = seen
      /\ attempt' \in [Attempts -> AttemptRecord]
  BY <1>3 DEF AttemptGoes
<1>5. FileTypeOK'
  BY <1>1, <1>4 DEF FileTypeOK, AttemptRecord
<1>6. Keyed'
  <2>1. \A b \in Attempts \ {a} : Call(b)' = Call(b)
    BY <1>1, <1>4 DEF Call
  <2>2. QED
    BY <1>3, <1>4, <2>1 DEF Keyed, WritingSteps
<1>7. ~overlapped' => ~overlapped /\ \A b \in Attempts : attempt[b].step \notin FileSteps
  BY <1>1 DEF AtRest, Running
<1>8. Alone'
  <2>1. next # "ended" => next \in {"starting", "looking", "comparing"}
    BY <1>3
  <2>2. \A b \in Attempts \ {a} : ~overlapped' => attempt'[b].step \notin FileSteps
    BY <1>4, <1>7
  <2>3. next = "ended" => attempt'[a].step \notin FileSteps
    BY <1>4 DEF FileSteps
  <2>4. next # "ended" => Done(a)'
    BY <1>1, <1>3, <1>4, <2>1 DEF Done
  <2>5. QED
    BY <1>7, <2>2, <2>3, <2>4 DEF Alone, Running
<1>9. Mirror'
  BY <1>1, <1>3, <1>4, <1>7 DEF Mirror
<1>10. Paired'
  BY <1>1, <1>3, <1>4 DEF Paired, NoDeletion
<1>11. QED
  BY <1>5, <1>6, <1>8, <1>9, <1>10

\* What holds of an attempt that runs.
LEMMA Underway ==
  ASSUME FileInv, NEW a \in Attempts, Running(a)
  PROVE  /\ attempt[a].step \in FileSteps
         /\ attempt[a].step \notin {"comparing", "restoring"} => attempt[a].key \in CallKeys
         /\ attempt[a].step \in {"comparing", "restoring"} => attempt[a].row # NoFile
         /\ ~overlapped => Done(a)
         /\ ~overlapped /\ fileFaults = 0 =>
                /\ attempt[a].step \notin {"undoing", "restoring"}
                /\ attempt[a].step = "comparing" => attempt[a].row.text = row.text
                /\ attempt[a].step \notin {"writing", "committing", "unlinking"} =>
                    disk = row.text
<1> USE DEF FileInv
<1>1. attempt[a].step \in FileSteps
  BY DEF Running
<1>2. ~overlapped => \A b \in Attempts \ {a} : attempt[b].step \notin FileSteps
  BY DEF Alone, Running
<1>3. {"writing", "committing", "unlinking"} \subseteq FileSteps
  BY DEF FileSteps
<1>4. ~overlapped /\ fileFaults = 0 =>
        /\ attempt[a].step \notin {"undoing", "restoring"}
        /\ attempt[a].step = "comparing" => attempt[a].row.text = row.text
        /\ attempt[a].step \notin {"writing", "committing", "unlinking"} => disk = row.text
  BY <1>2, <1>3 DEF Mirror
<1>5. /\ attempt[a].step \notin {"comparing", "restoring"} => attempt[a].key \in CallKeys
      /\ attempt[a].step \in {"comparing", "restoring"} => attempt[a].row # NoFile
  BY <1>1 DEF Keyed, FileSteps
<1>6. ~overlapped => Done(a)
  BY DEF Alone
<1>7. QED
  BY <1>1, <1>4, <1>5, <1>6

LEMMA CallKept ==
  ASSUME NEW a \in Attempts, NEW next, NEW seen, NEW ignored,
         AttemptGoes(a, next, attempt[a].key, seen, ignored), UNCHANGED asked
  PROVE  Call(a)' = Call(a)
BY DEF AttemptGoes, Call

\* A step that leaves the row, the workspace and the records alone.
LEMMA QuietStep ==
  ASSUME FileInv, NEW a \in Attempts, NEW next, NEW seen, NEW ignored, Running(a),
         AttemptGoes(a, next, attempt[a].key, seen, ignored), KeepsFile, KeepsCalls,
         UNCHANGED fileFaults \/ FileFault, next # "new",
         next \notin {"ended", "comparing", "restoring"} => attempt[a].key \in CallKeys,
         next \in {"comparing", "restoring"} => seen # NoFile,
         next \in WritingSteps => Call(a).tool # "delete_file",
         ~overlapped /\ next \in FileSteps => Done(a)',
         StepMirrors(next, seen), StepPairs(a, next)
  PROVE  FileInv'
<1> USE DEF FileInv
<1>1. fileFaults' \in 0 .. MaxFileFaults /\ (fileFaults' = 0 => fileFaults = 0)
  BY FileAssumption DEF FileTypeOK, FileFault
<1>2. StepTyped(a, next, seen, ignored)
  BY <1>1 DEF StepTyped, FileTypeOK, KeepsFile, KeepsCalls
<1>3. QED
  BY <1>2, StepKeepsFile DEF StepOwes

\* Attempts that end, by recording their outcome or not.
LEMMA AttemptEnds ==
  ASSUME FileInv, NEW a \in Attempts, AttemptDies(a) \/ CallRecords(a)
  PROVE  FileInv'
<1> USE DEF FileInv
<1>1. /\ Running(a) /\ AttemptMoves(a, "ended") /\ UNCHANGED <<row, disk, asked, overlapped>>
      /\ callStatus' \in [CallKeys -> CallStatus]
      /\ fileFaults' \in 0 .. MaxFileFaults /\ (fileFaults' = 0 => UNCHANGED fileFaults)
  <2>1. "ended" \in AnyStep
    BY DEF AnyStep
  <2>2. CASE AttemptDies(a)
    <3>1. fileFaults' \in 0 .. MaxFileFaults /\ fileFaults' # 0
      BY <2>2, FileAssumption DEF AttemptDies, FileFault, FileTypeOK
    <3>2. QED
      BY <2>1, <2>2, <3>1, AttemptReplaced DEF AttemptDies, KeepsFile, KeepsCalls, FileTypeOK
  <2>3. CASE CallRecords(a)
    <3>1. Running(a) /\ AttemptMoves(a, "ended")
      BY <2>1, <2>3, AttemptReplaced DEF CallRecords, Running, FileSteps
    <3>2. callStatus' \in [CallKeys -> CallStatus]
      BY <2>3 DEF CallRecords, FileTypeOK, CallStatus
    <3>3. QED
      BY <2>3, <3>1, <3>2 DEF CallRecords, KeepsFile, FileTypeOK
  <2>4. QED
    BY <2>2, <2>3
<1>2. StepTyped(a, "ended", attempt[a].row, attempt[a].ignored)
  BY <1>1 DEF StepTyped, AttemptMoves, FileTypeOK, WritingSteps
<1>3. "ended" \notin FileSteps
  BY DEF FileSteps
<1>4. fileFaults' = 0 => attempt[a].step \in FileSteps \ {"writing", "committing", "unlinking"}
  <2>1. CASE AttemptDies(a)
    BY <2>1 DEF AttemptDies, FileFault, FileTypeOK
  <2>2. CASE CallRecords(a)
    BY <2>2 DEF CallRecords, FileSteps
  <2>3. QED
    BY <2>1, <2>2
<1>5. StepMirrors("ended", attempt[a].row)
  BY <1>1, <1>4, Underway DEF StepMirrors
<1>6. StepPairs(a, "ended")
  BY <1>1, <1>4, RowKinds DEF StepPairs, Paired
<1>7. QED
  BY <1>2, <1>3, <1>5, <1>6, StepKeepsFile DEF StepOwes

LEMMA CallStartsKeeps ==
  ASSUME FileInv, NEW a \in Attempts, CallStarts(a)
  PROVE  FileInv'
<1> USE DEF FileInv
<1>1. /\ attempt[a].step = "starting" /\ Running(a) /\ AttemptMoves(a, "looking")
      /\ UNCHANGED <<row, disk, asked, overlapped, fileFaults>>
  BY AttemptReplaced DEF CallStarts, AnyStep, FileSteps, KeepsFile, Running
<1>2. attempt[a].key \in CallKeys
  BY <1>1, Underway
<1>3. /\ callStatus' \in [CallKeys -> CallStatus]
      /\ callStatus'[attempt[a].key] = "SUCCEEDED" => callStatus[attempt[a].key] = "SUCCEEDED"
  BY <1>2 DEF CallStarts, FileTypeOK, CallStatus
<1>4. StepTyped(a, "looking", attempt[a].row, attempt[a].ignored)
  BY <1>1, <1>2, <1>3 DEF StepTyped, AttemptMoves, FileTypeOK, WritingSteps
<1>5. ~overlapped => Done(a)'
  BY <1>1, <1>3, Underway DEF Done, AttemptMoves, AttemptGoes
<1>6. StepMirrors("looking", attempt[a].row)
  BY <1>1, Underway DEF StepMirrors
<1>7. StepPairs(a, "looking")
  BY <1>1, RowKinds DEF StepPairs, Paired
<1>8. QED
  BY <1>4, <1>5, <1>6, <1>7, StepKeepsFile DEF StepOwes

\* A step that may fail did: only what the attempt has done matters.
LEMMA FaultStep ==
  ASSUME FileInv, NEW a \in Attempts, NEW next, NEW ignored, Running(a),
         AttemptGoes(a, next, attempt[a].key, attempt[a].row, ignored),
         KeepsFile, KeepsCalls, FileFault,
         next \in {"ended", "failing", "undoing"} \/ (next = "succeeding" /\ ignored = TRUE),
         attempt[a].key \in CallKeys \/ next = "ended",
         next = "undoing" => Call(a).tool # "delete_file"
  PROVE  FileInv'
<1> USE DEF FileInv
<1>1. fileFaults' # 0
  BY DEF FileTypeOK, FileFault
<1>2. ~overlapped /\ next \in FileSteps => Done(a)'
  BY Underway DEF Done, FileSteps, AttemptGoes, KeepsCalls
<1>3. StepMirrors(next, attempt[a].row) /\ StepPairs(a, next)
  BY <1>1 DEF StepMirrors, StepPairs
<1>4. QED
  BY <1>2, <1>3, QuietStep DEF WritingSteps

\* A step that changes the bytes in the workspace, or the row.
LEMMA DiskStep ==
  ASSUME FileInv, NEW a \in Attempts, NEW text \in Texts \union {NoText}, Running(a),
         NEW next \in AnyStep \ {"new", "comparing", "restoring"}, WriteDisk(a, text, next),
         attempt[a].key \in CallKeys \/ next = "ended",
         next \in WritingSteps => Call(a).tool # "delete_file",
         ~overlapped /\ next \in FileSteps => Done(a)',
         StepMirrors(next, attempt[a].row), StepPairs(a, next)
  PROVE  FileInv'
<1> USE DEF FileInv
<1>1. AttemptMoves(a, next)
  BY AttemptReplaced DEF WriteDisk
<1>2. StepTyped(a, next, attempt[a].row, attempt[a].ignored)
  BY <1>1 DEF StepTyped, AttemptMoves, FileTypeOK, WriteDisk, KeepsCalls
<1>3. QED
  BY <1>2, StepKeepsFile DEF StepOwes

LEMMA RowStep ==
  ASSUME FileInv, NEW a \in Attempts, Running(a),
         NEW next \in AnyStep \ {"new", "comparing", "restoring"}, AttemptMoves(a, next),
         row' \in [id : Attempts, text : Texts] \union {NoFile},
         UNCHANGED <<disk, fileFaults>>, KeepsCalls, attempt[a].key \in CallKeys,
         next \in WritingSteps => Call(a).tool # "delete_file",
         ~overlapped /\ next \in FileSteps => Done(a)',
         StepMirrors(next, attempt[a].row), StepPairs(a, next)
  PROVE  FileInv'
<1> USE DEF FileInv
<1>1. StepTyped(a, next, attempt[a].row, attempt[a].ignored)
  BY DEF StepTyped, AttemptMoves, FileTypeOK, KeepsCalls
<1>2. QED
  BY <1>1, StepKeepsFile DEF StepOwes

\* The steps of createProjectFile.
LEMMA CreateKeeps ==
  ASSUME FileInv, NEW a \in Attempts,
         \/ CreateLooks(a) \/ CreateRewrites(a) \/ CreateInserts(a) \/ CreateFindsWinner(a)
         \/ CreateWrites(a) \/ CreateStamps(a) \/ CreateUndoes(a)
  PROVE  FileInv'
<1> USE DEF FileInv
<1> DEFINE seen == attempt[a].row
           ignored == attempt[a].ignored
<1>1. /\ Running(a) /\ attempt[a].step \notin {"comparing", "restoring"}
      /\ attempt[a].key \in CallKeys /\ UNCHANGED <<callStatus, asked, overlapped>>
  <2>1. Running(a) /\ attempt[a].step \notin {"comparing", "restoring"}
    BY DEF CreateLooks, CreateRewrites, CreateInserts, CreateFindsWinner, CreateWrites,
       CreateStamps, CreateUndoes, At, Running, FileSteps
  <2>2. QED
    BY <2>1, Underway DEF CreateLooks, CreateRewrites, CreateInserts, CreateFindsWinner,
       CreateWrites, CreateStamps, CreateUndoes, Moves, WriteDisk, DiskFails, KeepsCalls
<1>2. Call(a).tool # "delete_file" /\ Call(a).text \in Texts
  <2>1. Call(a).tool # "delete_file"
    BY <1>1 DEF CreateLooks, CreateRewrites, CreateInserts, CreateFindsWinner, CreateWrites,
       CreateStamps, CreateUndoes, At, Keyed, WritingSteps
  <2>2. QED
    BY <1>1, <2>1, CallAsks
<1>3. CASE CreateLooks(a)
  <2> DEFINE next == IF row = NoFile THEN "inserting"
                     ELSE IF row.text = Call(a).text THEN AfterFinding ELSE "failing"
  <2>1. attempt[a].step = "looking" /\ Goes(a, next) /\ KeepsFile /\ KeepsCalls /\ UNCHANGED fileFaults
    BY <1>3 DEF CreateLooks, At, Moves
  <2>2. next \in {"inserting", "rewriting", "failing"} /\ next \in AnyStep
    BY DEF AfterFinding, AnyStep, FileSteps
  <2>3. /\ next = "inserting" => row = NoFile
        /\ next = "rewriting" => row # NoFile /\ row.text = Call(a).text
    BY DEF AfterFinding
  <2> HIDE DEF next
  <2>4. AttemptMoves(a, next)
    BY <2>1, <2>2, AttemptReplaced
  <2>5. Call(a)' = Call(a)
    BY <1>1, <2>4, CallKept DEF AttemptMoves
  <2>6. ~overlapped => Done(a)'
    BY <1>1, <2>1, <2>2, <2>3, <2>4, <2>5, Underway DEF Done, AttemptMoves, AttemptGoes, KeepsFile
  <2>7. StepMirrors(next, seen) /\ StepPairs(a, next)
    BY <1>1, <2>1, <2>2, <2>3, Underway DEF StepMirrors, StepPairs, Paired, KeepsFile
  <2>8. QED
    BY <1>1, <1>2, <2>1, <2>2, <2>4, <2>6, <2>7, QuietStep DEF AttemptMoves
<1>4. CASE CreateRewrites(a)
  <2>1. attempt[a].step = "rewriting" /\ "succeeding" \in AnyStep
    BY <1>4 DEF CreateRewrites, AnyStep, FileSteps
  <2>2. CASE WriteDisk(a, Call(a).text, "succeeding")
    <3>1. AttemptMoves(a, "succeeding") /\ disk' = Call(a).text /\ UNCHANGED <<row, callStatus, fileFaults>>
      BY <2>1, <2>2, AttemptReplaced DEF WriteDisk, KeepsCalls
    <3>2. Call(a)' = Call(a)
      BY <1>1, <3>1, CallKept DEF AttemptMoves
    <3>3. ~overlapped => Done(a)'
      BY <1>1, <2>1, <3>1, <3>2, Underway DEF Done, AttemptMoves, AttemptGoes
    <3>4. StepMirrors("succeeding", seen)
      BY <1>1, <2>1, <3>1, Underway DEF StepMirrors, Done
    <3>5. StepPairs(a, "succeeding")
      BY <1>2, <2>1, <3>1, RowKinds DEF StepPairs, Paired
    <3>6. QED
      BY <1>1, <1>2, <2>1, <2>2, <3>3, <3>4, <3>5, DiskStep
  <2>3. CASE /\ attempt' = [attempt EXCEPT ![a].step = "succeeding", ![a].ignored = TRUE]
             /\ KeepsFile /\ KeepsCalls /\ FileFault
    <3>1. AttemptGoes(a, "succeeding", attempt[a].key, seen, TRUE)
      BY <2>1, <2>3, AttemptReplaced
    <3>2. QED
      BY <1>1, <1>2, <2>3, <3>1, FaultStep
  <2>4. QED
    BY <1>4, <2>2, <2>3 DEF CreateRewrites
<1>5. CASE CreateInserts(a)
  <2>1. attempt[a].step = "inserting" /\ UNCHANGED <<disk, fileFaults>> /\ KeepsCalls
    BY <1>5 DEF CreateInserts
  <2>2. {"writing", "lost"} \subseteq AnyStep \ {"new", "comparing", "restoring"}
    BY DEF AnyStep, FileSteps
  <2>3. CASE row = NoFile
    <3>1. row' = [id |-> a, text |-> Call(a).text] /\ AttemptMoves(a, "writing")
      BY <1>5, <2>2, <2>3, AttemptReplaced DEF CreateInserts, AfterInsert
    <3>2. /\ row' \in [id : Attempts, text : Texts] /\ row' # NoFile /\ row'.id = a
          /\ row'.text = Call(a).text
      BY <1>2, <3>1, RowKinds
    <3>3. Call(a)' = Call(a)
      BY <1>1, <3>1, CallKept DEF AttemptMoves
    <3>4. ~overlapped => Done(a)'
      BY <1>1, <3>1, <3>2, <3>3, Underway DEF Done, AttemptMoves, AttemptGoes
    <3>5. StepMirrors("writing", seen)
      BY DEF StepMirrors
    <3>6. StepPairs(a, "writing")
      BY <2>3, <3>2 DEF StepPairs
    <3>7. QED
      BY <1>1, <1>2, <2>1, <2>2, <3>1, <3>2, <3>4, <3>5, <3>6, RowStep
  <2>4. CASE row # NoFile
    <3>1. Goes(a, "lost") /\ UNCHANGED row
      BY <1>5, <2>4 DEF CreateInserts
    <3>2. AttemptMoves(a, "lost")
      BY <2>2, <3>1, AttemptReplaced
    <3>3. ~(~overlapped)
      BY <1>1, <2>1, <2>4, Underway DEF Done
    <3>4. StepMirrors("lost", seen)
      BY <3>3 DEF StepMirrors
    <3>5. StepPairs(a, "lost")
      BY <2>1, <3>1, RowKinds DEF StepPairs, Paired
    <3>6. row' \in [id : Attempts, text : Texts] \union {NoFile}
      BY <3>1 DEF FileTypeOK
    <3>7. QED
      BY <1>1, <1>2, <2>1, <2>2, <3>2, <3>3, <3>4, <3>5, <3>6, RowStep
  <2>5. QED
    BY <2>3, <2>4
<1>6. CASE CreateFindsWinner(a)
  <2> DEFINE next == IF row # NoFile /\ row.text = Call(a).text THEN "succeeding" ELSE "failing"
  <2>1. attempt[a].step = "lost" /\ Goes(a, next) /\ KeepsFile /\ KeepsCalls /\ UNCHANGED fileFaults
    BY <1>6 DEF CreateFindsWinner, Moves
  <2>2. next \in {"succeeding", "failing"} /\ next \in AnyStep
    BY DEF AnyStep, FileSteps
  <2> HIDE DEF next
  <2>3. AttemptMoves(a, next)
    BY <2>1, <2>2, AttemptReplaced
  <2>4. overlapped \/ ~(~overlapped)
    BY <1>1, <2>1, Underway DEF Done
  <2>5. StepMirrors(next, seen)
    BY <2>4 DEF StepMirrors
  <2>6. StepPairs(a, next)
    BY <2>1, <2>2, RowKinds DEF StepPairs, Paired, KeepsFile
  <2>7. QED
    BY <1>1, <1>2, <2>1, <2>2, <2>3, <2>4, <2>5, <2>6, QuietStep DEF AttemptMoves
<1>7. CASE CreateWrites(a)
  <2>1. attempt[a].step = "writing" /\ {"stamping", "undoing"} \subseteq AnyStep
    BY <1>7 DEF CreateWrites, AnyStep, FileSteps
  <2>2. CASE WriteDisk(a, Call(a).text, "stamping")
    <3>1. AttemptMoves(a, "stamping") /\ disk' = Call(a).text /\ UNCHANGED <<row, callStatus, fileFaults>>
      BY <2>1, <2>2, AttemptReplaced DEF WriteDisk, KeepsCalls
    <3>2. Call(a)' = Call(a)
      BY <1>1, <3>1, CallKept DEF AttemptMoves
    <3>3. ~overlapped => Done(a)'
      BY <1>1, <2>1, <3>1, <3>2, Underway DEF Done, AttemptMoves, AttemptGoes
    <3>4. StepMirrors("stamping", seen)
      BY <1>1, <2>1, <3>1, Underway DEF StepMirrors, Done
    <3>5. StepPairs(a, "stamping")
      BY <1>2, <2>1, <3>1, RowKinds DEF StepPairs, Paired
    <3>6. QED
      BY <1>1, <1>2, <2>1, <2>2, <3>3, <3>4, <3>5, DiskStep
  <2>3. CASE DiskFails(a, "undoing")
    <3>1. AttemptMoves(a, "undoing")
      BY <2>1, <2>3, AttemptReplaced DEF DiskFails
    <3>2. QED
      BY <1>1, <1>2, <2>3, <3>1, FaultStep DEF AttemptMoves, DiskFails
  <2>4. QED
    BY <1>7, <2>2, <2>3 DEF CreateWrites
<1>8. CASE CreateStamps(a)
  <2> DEFINE next == IF row.id = a THEN "succeeding" ELSE "undoing"
  <2>1. /\ attempt[a].step = "stamping" /\ Goes(a, next) /\ KeepsFile /\ KeepsCalls
        /\ UNCHANGED fileFaults
    BY <1>8 DEF CreateStamps, Moves
  <2>2. next \in {"succeeding", "undoing"} /\ next \in AnyStep /\ (row.id = a => next = "succeeding")
    BY DEF AnyStep, FileSteps
  <2> HIDE DEF next
  <2>3. AttemptMoves(a, next)
    BY <2>1, <2>2, AttemptReplaced
  <2>4. Call(a)' = Call(a)
    BY <1>1, <2>3, CallKept DEF AttemptMoves
  <2>5. ~overlapped => Done(a)' /\ next = "succeeding"
    BY <1>1, <2>1, <2>2, <2>3, <2>4, Underway DEF Done, AttemptMoves, AttemptGoes, KeepsFile
  <2>6. StepMirrors(next, seen)
    BY <1>1, <2>1, <2>5, Underway DEF StepMirrors, KeepsFile
  <2>7. StepPairs(a, next)
    BY <2>1, <2>2, RowKinds DEF StepPairs, Paired, KeepsFile
  <2>8. QED
    BY <1>1, <1>2, <2>1, <2>2, <2>3, <2>5, <2>6, <2>7, QuietStep DEF AttemptMoves
<1>9. CASE CreateUndoes(a)
  <2>1. /\ attempt[a].step = "undoing" /\ AttemptMoves(a, "failing") /\ "failing" \in AnyStep
        /\ row' \in {row, NoFile} /\ UNCHANGED <<disk, fileFaults>> /\ KeepsCalls
    BY <1>9, AttemptReplaced DEF CreateUndoes, AnyStep, FileSteps
  <2>2. row' \in [id : Attempts, text : Texts] \union {NoFile}
    BY <2>1 DEF FileTypeOK
  <2>3. ~overlapped => Done(a)'
    BY <1>1, <2>1, Underway DEF Done, AttemptMoves, AttemptGoes, KeepsCalls
  <2>4. StepMirrors("failing", seen)
    BY <1>1, <2>1, Underway DEF StepMirrors
  <2>5. StepPairs(a, "failing")
    BY <2>1 DEF StepPairs, Paired
  <2>6. QED
    BY <1>1, <2>1, <2>2, <2>3, <2>4, <2>5, RowStep DEF WritingSteps
<1>10. QED
  BY <1>3, <1>4, <1>5, <1>6, <1>7, <1>8, <1>9

\* The steps of editFile, and of updateProjectFile in it.
LEMMA EditKeeps ==
  ASSUME FileInv, NEW a \in Attempts,
         \/ EditLooks(a) \/ EditReads(a) \/ EditLooksAgain(a) \/ EditOverwrites(a)
         \/ EditCommits(a)
  PROVE  FileInv'
<1> USE DEF FileInv
<1>1. /\ Running(a) /\ attempt[a].step \notin {"comparing", "restoring"}
      /\ attempt[a].key \in CallKeys /\ UNCHANGED <<callStatus, asked, overlapped>>
      /\ {"reading", "relooking", "overwriting", "committing", "succeeding", "failing"}
            \subseteq AnyStep \ {"new", "comparing", "restoring"}
  <2>1. Running(a) /\ attempt[a].step \notin {"comparing", "restoring"}
    BY DEF EditLooks, EditReads, EditLooksAgain, EditOverwrites, EditCommits, At, Running,
       FileSteps
  <2>2. {"reading", "relooking", "overwriting", "committing", "succeeding", "failing"}
            \subseteq AnyStep \ {"new", "comparing", "restoring"}
    BY DEF AnyStep, FileSteps
  <2>3. QED
    BY <2>1, <2>2, Underway DEF EditLooks, EditReads, EditLooksAgain, EditOverwrites,
       EditCommits, Moves, WriteDisk, DiskFails, KeepsCalls
<1>2. Call(a).tool # "delete_file" /\ Call(a).text \in Texts
  <2>1. Call(a).tool # "delete_file"
    BY <1>1 DEF EditLooks, EditReads, EditLooksAgain, EditOverwrites, EditCommits, At, Keyed,
       WritingSteps
  <2>2. QED
    BY <1>1, <2>1, CallAsks
<1>3. ASSUME NEW next \in {"reading", "relooking", "overwriting", "failing"}, NEW seen,
             AttemptGoes(a, next, attempt[a].key, seen, attempt[a].ignored),
             KeepsFile, KeepsCalls, UNCHANGED fileFaults,
             attempt[a].step \in {"looking", "reading", "relooking"},
             next = "overwriting" => row # NoFile
      PROVE  FileInv'
  <2>1. ~overlapped => Done(a)'
    BY <1>1, <1>3, Underway DEF Done, AttemptGoes, KeepsFile
  <2>2. StepMirrors(next, seen)
    BY <1>1, <1>3, Underway DEF StepMirrors, KeepsFile
  <2>3. StepPairs(a, next)
    BY <1>3, RowKinds DEF StepPairs, Paired, KeepsFile
  <2>4. QED
    BY <1>1, <1>2, <1>3, <2>1, <2>2, <2>3, QuietStep
<1>4. CASE EditLooks(a)
  <2> DEFINE next == IF row = NoFile THEN "failing" ELSE "reading"
  <2>1. /\ attempt[a].step = "looking" /\ GoesWith(a, next, row) /\ KeepsFile /\ KeepsCalls
        /\ UNCHANGED fileFaults
    BY <1>4 DEF EditLooks, At
  <2>2. next \in {"reading", "failing"} /\ next \in AnyStep
    BY <1>1
  <2>3. row \in [id : Attempts, text : Texts] \union {NoFile}
    BY DEF FileTypeOK
  <2> HIDE DEF next
  <2>4. AttemptGoes(a, next, attempt[a].key, row, attempt[a].ignored)
    BY <2>1, <2>2, <2>3, AttemptReplaced
  <2>5. QED
    BY <1>3, <2>1, <2>2, <2>4
<1>5. CASE EditReads(a)
  <2> DEFINE next == IF Call(a).old \in {NoText, Base(a)} THEN "relooking" ELSE "failing"
  <2>1. /\ attempt[a].step = "reading" /\ Goes(a, next) /\ KeepsFile /\ KeepsCalls
        /\ UNCHANGED fileFaults
    BY <1>5 DEF EditReads, Moves
  <2>2. next \in {"relooking", "failing"} /\ next \in AnyStep
    BY <1>1
  <2> HIDE DEF next
  <2>3. AttemptMoves(a, next)
    BY <2>1, <2>2, AttemptReplaced
  <2>4. QED
    BY <1>3, <2>1, <2>2, <2>3 DEF AttemptMoves
<1>6. CASE EditLooksAgain(a)
  <2> DEFINE next == IF row = NoFile THEN "failing" ELSE "overwriting"
  <2>1. /\ attempt[a].step = "relooking" /\ Goes(a, next) /\ KeepsFile /\ KeepsCalls
        /\ UNCHANGED fileFaults
    BY <1>6 DEF EditLooksAgain, Moves
  <2>2. next \in {"overwriting", "failing"} /\ next \in AnyStep /\ (next = "overwriting" => row # NoFile)
    BY <1>1
  <2> HIDE DEF next
  <2>3. AttemptMoves(a, next)
    BY <2>1, <2>2, AttemptReplaced
  <2>4. QED
    BY <1>3, <2>1, <2>2, <2>3 DEF AttemptMoves
<1>7. CASE EditOverwrites(a)
  <2>1. attempt[a].step = "overwriting"
    BY <1>7 DEF EditOverwrites
  <2>2. CASE WriteDisk(a, Call(a).text, "committing")
    <3>1. /\ AttemptMoves(a, "committing") /\ disk' = Call(a).text
          /\ UNCHANGED <<row, callStatus, fileFaults>>
      BY <1>1, <2>2, AttemptReplaced DEF WriteDisk, KeepsCalls
    <3>2. Call(a)' = Call(a)
      BY <1>1, <3>1, CallKept DEF AttemptMoves
    <3>3. ~overlapped => Done(a)'
      BY <1>1, <2>1, <3>1, <3>2, Underway DEF Done, AttemptMoves, AttemptGoes
    <3>4. StepMirrors("committing", attempt[a].row)
      BY DEF StepMirrors
    <3>5. StepPairs(a, "committing")
      BY <1>2, <2>1, <3>1, RowKinds DEF StepPairs, Paired
    <3>6. QED
      BY <1>1, <1>2, <2>2, <3>3, <3>4, <3>5, DiskStep
  <2>3. CASE DiskFails(a, "failing")
    <3>1. AttemptMoves(a, "failing")
      BY <1>1, <2>3, AttemptReplaced DEF DiskFails
    <3>2. QED
      BY <1>1, <1>2, <2>3, <3>1, FaultStep DEF AttemptMoves, DiskFails
  <2>4. QED
    BY <1>7, <2>2, <2>3 DEF EditOverwrites
<1>8. CASE EditCommits(a)
  <2>1. attempt[a].step = "committing" /\ UNCHANGED <<disk, fileFaults>> /\ KeepsCalls
    BY <1>8 DEF EditCommits
  <2>2. row \in [id : Attempts, text : Texts] \union {NoFile}
    BY DEF FileTypeOK
  <2>3. CASE row = NoFile
    <3>1. AttemptMoves(a, "failing") /\ UNCHANGED row
      BY <1>1, <1>8, <2>3, AttemptReplaced DEF EditCommits
    <3>2. overlapped \/ ~(~overlapped)
      BY <1>1, <2>1, <2>3, Underway DEF Done
    <3>3. StepMirrors("failing", attempt[a].row)
      BY <3>2 DEF StepMirrors
    <3>4. StepPairs(a, "failing")
      BY <2>1, <2>3, <3>1 DEF StepPairs, Paired
    <3>5. QED
      BY <1>1, <1>2, <2>1, <2>2, <3>1, <3>2, <3>3, <3>4, RowStep
  <2>4. CASE row # NoFile
    <3>1. AttemptMoves(a, "succeeding") /\ row' = Mirrored(a)
      BY <1>1, <1>8, <2>4, AttemptReplaced DEF EditCommits
    <3>2. /\ row' \in [id : Attempts, text : Texts] /\ row' # NoFile /\ row'.id = row.id
          /\ row'.text = Call(a).text
      BY <1>2, <2>2, <2>4, <3>1, RowKinds DEF Mirrored
    <3>3. Call(a)' = Call(a)
      BY <1>1, <3>1, CallKept DEF AttemptMoves
    <3>4. ~overlapped => disk = Call(a).text
      BY <1>1, <2>1, Underway DEF Done
    <3>5. ~overlapped => Done(a)'
      BY <1>1, <2>1, <3>1, <3>2, <3>3, <3>4, Underway DEF Done, AttemptMoves, AttemptGoes
    <3>6. StepMirrors("succeeding", attempt[a].row)
      BY <2>1, <3>2, <3>4 DEF StepMirrors
    <3>7. StepPairs(a, "succeeding")
      BY <2>1, <2>4, <3>2, RowKinds DEF StepPairs, Paired
    <3>8. QED
      BY <1>1, <1>2, <2>1, <3>1, <3>2, <3>5, <3>6, <3>7, RowStep
  <2>5. QED
    BY <2>3, <2>4
<1>9. QED
  BY <1>4, <1>5, <1>6, <1>7, <1>8

\* The steps of deleteProjectFile.
LEMMA DeleteKeeps ==
  ASSUME FileInv, NEW a \in Attempts, DeleteLooks(a) \/ DeleteDrops(a) \/ DeleteUnlinks(a)
  PROVE  FileInv'
<1> USE DEF FileInv
<1>1. /\ Running(a) /\ attempt[a].step \notin {"comparing", "restoring"}
      /\ attempt[a].key \in CallKeys /\ UNCHANGED <<callStatus, asked, overlapped>>
      /\ {"dropping", "unlinking", "succeeding", "failing"}
            \subseteq AnyStep \ {"new", "comparing", "restoring"}
  <2>1. Running(a) /\ attempt[a].step \notin {"comparing", "restoring"}
    BY DEF DeleteLooks, DeleteDrops, DeleteUnlinks, At, Running, FileSteps
  <2>2. {"dropping", "unlinking", "succeeding", "failing"}
            \subseteq AnyStep \ {"new", "comparing", "restoring"}
    BY DEF AnyStep, FileSteps
  <2>3. QED
    BY <2>1, <2>2, Underway DEF DeleteLooks, DeleteDrops, DeleteUnlinks, WriteDisk, DiskFails,
       KeepsCalls
<1>2. NoText \in Texts \union {NoText} /\ NoFile.text = NoText /\ NoFile \in {NoFile}
  BY RowKinds
<1>3. CASE DeleteLooks(a)
  <2> DEFINE next == IF row = NoFile THEN "failing" ELSE "dropping"
  <2>1. /\ attempt[a].step = "looking" /\ GoesWith(a, next, row) /\ KeepsFile /\ KeepsCalls
        /\ UNCHANGED fileFaults /\ Call(a).tool = "delete_file"
    BY <1>3 DEF DeleteLooks, At
  <2>2. next \in {"dropping", "failing"} /\ next \in AnyStep
    BY <1>1
  <2>3. row \in [id : Attempts, text : Texts] \union {NoFile}
    BY DEF FileTypeOK
  <2> HIDE DEF next
  <2>4. AttemptGoes(a, next, attempt[a].key, row, attempt[a].ignored)
    BY <2>1, <2>2, <2>3, AttemptReplaced
  <2>5. Call(a).text = NoText /\ Call(a)' = Call(a) /\ ~NoDeletion
    BY <1>1, <2>1, <2>4, CallAsks, CallKept DEF NoDeletion
  <2>6. ~overlapped => Done(a)'
    BY <1>1, <2>1, <2>2, <2>4, <2>5, Underway DEF Done, AttemptGoes
  <2>7. StepMirrors(next, row) /\ StepPairs(a, next)
    BY <1>1, <2>1, <2>2, <2>5, Underway DEF StepMirrors, StepPairs, KeepsFile
  <2>8. QED
    BY <1>1, <2>1, <2>2, <2>4, <2>6, <2>7, QuietStep DEF WritingSteps
<1>4. CASE DeleteDrops(a)
  <2>1. attempt[a].step = "dropping" /\ UNCHANGED <<disk, fileFaults>> /\ KeepsCalls
    BY <1>4 DEF DeleteDrops
  <2>2. NoDeletion => fileFaults # 0
    BY <2>1 DEF Paired
  <2>3. CASE row.id = attempt[a].row.id
    <3>1. AttemptMoves(a, "unlinking") /\ row' = NoFile
      BY <1>1, <1>4, <2>3, AttemptReplaced DEF DeleteDrops
    <3>2. Call(a)' = Call(a)
      BY <1>1, <3>1, CallKept DEF AttemptMoves
    <3>3. ~overlapped => Done(a)'
      BY <1>1, <2>1, <3>1, <3>2, Underway DEF Done, AttemptMoves, AttemptGoes
    <3>4. StepMirrors("unlinking", attempt[a].row) /\ StepPairs(a, "unlinking")
      BY <2>1, <2>2 DEF StepMirrors, StepPairs
    <3>5. QED
      BY <1>1, <2>1, <3>1, <3>3, <3>4, RowStep DEF WritingSteps
  <2>4. CASE row.id # attempt[a].row.id
    <3>1. AttemptMoves(a, "failing") /\ UNCHANGED row
      BY <1>1, <1>4, <2>4, AttemptReplaced DEF DeleteDrops
    <3>2. ~overlapped => Done(a)'
      BY <1>1, <2>1, <3>1, Underway DEF Done, AttemptMoves, AttemptGoes
    <3>3. StepMirrors("failing", attempt[a].row) /\ StepPairs(a, "failing")
      BY <1>1, <2>1, <2>2, <3>1, Underway DEF StepMirrors, StepPairs
    <3>4. row' \in [id : Attempts, text : Texts] \union {NoFile}
      BY <3>1 DEF FileTypeOK
    <3>5. QED
      BY <1>1, <2>1, <3>1, <3>2, <3>3, <3>4, RowStep DEF WritingSteps
  <2>5. QED
    BY <2>3, <2>4
<1>5. CASE DeleteUnlinks(a)
  <2>1. attempt[a].step = "unlinking"
    BY <1>5 DEF DeleteUnlinks
  <2>2. NoDeletion => fileFaults # 0
    BY <2>1 DEF Paired
  <2>3. CASE WriteDisk(a, NoText, "succeeding")
    <3>1. /\ AttemptMoves(a, "succeeding") /\ disk' = NoText
          /\ UNCHANGED <<row, callStatus, fileFaults>>
      BY <1>1, <2>3, AttemptReplaced DEF WriteDisk, KeepsCalls
    <3>2. Call(a)' = Call(a)
      BY <1>1, <3>1, CallKept DEF AttemptMoves
    <3>3. ~overlapped => Done(a)'
      BY <1>1, <1>2, <2>1, <3>1, <3>2, Underway DEF Done, AttemptMoves, AttemptGoes
    <3>4. StepMirrors("succeeding", attempt[a].row)
      BY <1>1, <1>2, <2>1, <3>1, Underway DEF StepMirrors, Done
    <3>5. StepPairs(a, "succeeding")
      BY <2>2, <3>1 DEF StepPairs
    <3>6. QED
      BY <1>1, <1>2, <2>3, <3>3, <3>4, <3>5, DiskStep DEF WritingSteps
  <2>4. CASE DiskFails(a, "failing")
    <3>1. AttemptMoves(a, "failing")
      BY <1>1, <2>4, AttemptReplaced DEF DiskFails
    <3>2. QED
      BY <1>1, <2>4, <3>1, FaultStep, "failing" # "undoing" DEF AttemptMoves, DiskFails
  <2>5. QED
    BY <1>5, <2>3, <2>4 DEF DeleteUnlinks
<1>6. QED
  BY <1>3, <1>4, <1>5

\* The steps of syncProjectWorkspace.
LEMMA SyncKeeps ==
  ASSUME FileInv, NEW a \in Attempts, SyncCompares(a) \/ SyncRestores(a)
  PROVE  FileInv'
<1> USE DEF FileInv
<1>1. /\ Running(a) /\ UNCHANGED <<callStatus, asked, overlapped>>
      /\ attempt[a].step \in {"comparing", "restoring"}
      /\ {"restoring", "ended"} \subseteq AnyStep /\ "ended" \notin FileSteps
  BY DEF SyncCompares, SyncRestores, Moves, WriteDisk, DiskFails, KeepsCalls, Running,
     AnyStep, FileSteps
<1>2. attempt[a].row \in [id : Attempts, text : Texts] /\ attempt[a].row.text \in Texts
  BY <1>1, Underway, AttemptFields
<1>3. CASE SyncCompares(a)
  <2> DEFINE next == IF Stale(a) THEN "restoring" ELSE "ended"
  <2>1. /\ attempt[a].step = "comparing" /\ Goes(a, next) /\ KeepsFile /\ KeepsCalls
        /\ UNCHANGED fileFaults
    BY <1>3 DEF SyncCompares, Moves
  <2>2. next \in {"restoring", "ended"} /\ next \in AnyStep
    BY <1>1
  <2>3. next = "restoring" => disk # attempt[a].row.text
    BY DEF Stale
  <2> HIDE DEF next
  <2>4. AttemptMoves(a, next)
    BY <2>1, <2>2, AttemptReplaced
  <2>5. Call(a)' = Call(a)
    BY <1>1, <2>4, CallKept DEF AttemptMoves
  <2>6. ~overlapped /\ next = "restoring" => Done(a)'
    BY <1>1, <2>1, <2>4, Underway DEF Done, AttemptMoves, AttemptGoes
  <2>7. StepMirrors(next, attempt[a].row)
    BY <1>1, <2>1, <2>2, <2>3, Underway DEF StepMirrors, KeepsFile
  <2>8. StepPairs(a, next)
    BY <2>1, <2>2, RowKinds DEF StepPairs, Paired, KeepsFile
  <2>9. QED
    BY <1>1, <2>1, <2>2, <2>4, <2>6, <2>7, <2>8, Underway, QuietStep DEF AttemptMoves, WritingSteps
<1>4. CASE SyncRestores(a)
  <2>1. attempt[a].step = "restoring"
    BY <1>4 DEF SyncRestores
  <2>2. CASE WriteDisk(a, attempt[a].row.text, "ended")
    <3>1. disk' = attempt[a].row.text /\ UNCHANGED <<row, fileFaults>>
      BY <2>2 DEF WriteDisk
    <3>2. StepMirrors("ended", attempt[a].row)
      BY <1>1, <2>1, <3>1, Underway DEF StepMirrors
    <3>3. StepPairs(a, "ended")
      BY <1>2, <2>1, <3>1, RowKinds DEF StepPairs, Paired
    <3>4. QED
      BY <1>1, <1>2, <2>2, <3>2, <3>3, DiskStep DEF WritingSteps
  <2>3. CASE DiskFails(a, "ended")
    <3>1. AttemptMoves(a, "ended")
      BY <1>1, <2>3, AttemptReplaced DEF DiskFails
    <3>2. QED
      BY <1>1, <2>3, <3>1, FaultStep DEF AttemptMoves, DiskFails
  <2>4. QED
    BY <1>4, <2>2, <2>3 DEF SyncRestores
<1>5. QED
  BY <1>3, <1>4

\* A step of attempt b: what it does not touch.
LEMMA OwnStep ==
  ASSUME FileInv, NEW b \in Attempts,
         \/ \E k \in CallKeys : CallLooks(b, k)
         \/ CallStarts(b) \/ CallRecords(b) \/ AttemptDies(b)
         \/ CreateLooks(b) \/ CreateRewrites(b) \/ CreateInserts(b) \/ CreateFindsWinner(b)
         \/ CreateWrites(b) \/ CreateStamps(b) \/ CreateUndoes(b)
         \/ EditLooks(b) \/ EditReads(b) \/ EditLooksAgain(b) \/ EditOverwrites(b) \/ EditCommits(b)
         \/ DeleteLooks(b) \/ DeleteDrops(b) \/ DeleteUnlinks(b)
         \/ SyncLooks(b) \/ SyncCompares(b) \/ SyncRestores(b)
  PROVE  /\ \A a \in Attempts \ {b} : attempt'[a] = attempt[a]
         /\ attempt[b].step = "succeeding" => CallRecords(b) \/ AttemptDies(b)
         /\ CallStarts(b) \/ CallRecords(b) \/ UNCHANGED callStatus
         /\ overlapped => overlapped'
<1>1. attempt \in [Attempts -> AttemptRecord]
  BY DEF FileInv, FileTypeOK, AttemptRecord
<1>2. \/ \E next : Goes(b, next) \/ \E seen : GoesWith(b, next, seen)
      \/ \E next : attempt' = [attempt EXCEPT ![b].step = next, ![b].ignored = TRUE]
      \/ \E k, next : attempt' = [attempt EXCEPT ![b].key = k, ![b].step = next]
  BY DEF CallLooks, CallStarts, CallRecords, AttemptDies, CreateLooks, CreateRewrites,
     CreateInserts, CreateFindsWinner, CreateWrites, CreateStamps, CreateUndoes, EditLooks,
     EditReads, EditLooksAgain, EditOverwrites, EditCommits, DeleteLooks, DeleteDrops,
     DeleteUnlinks, SyncLooks, SyncCompares, SyncRestores, Moves, WriteDisk, DiskFails
<1>3. \A a \in Attempts \ {b} : attempt'[a] = attempt[a]
  BY <1>1, <1>2 DEF Goes, GoesWith
<1>4. attempt[b].step = "succeeding" => CallRecords(b) \/ AttemptDies(b)
  BY DEF CallLooks, CallStarts, CreateLooks, CreateRewrites, CreateInserts, CreateFindsWinner,
     CreateWrites, CreateStamps, CreateUndoes, EditLooks, EditReads, EditLooksAgain,
     EditOverwrites, EditCommits, DeleteLooks, DeleteDrops, DeleteUnlinks, SyncLooks,
     SyncCompares, SyncRestores, At
<1>5. CallStarts(b) \/ CallRecords(b) \/ UNCHANGED callStatus
  BY DEF CallLooks, CallStarts, CallRecords, AttemptDies, CreateLooks, CreateRewrites,
     CreateInserts, CreateFindsWinner, CreateWrites, CreateStamps, CreateUndoes, EditLooks,
     EditReads, EditLooksAgain, EditOverwrites, EditCommits, DeleteLooks, DeleteDrops,
     DeleteUnlinks, SyncLooks, SyncCompares, SyncRestores, Moves, WriteDisk, DiskFails,
     KeepsCalls
<1>6. UNCHANGED overlapped \/ overlapped' = (overlapped \/ ~AtRest)
  BY DEF CallLooks, CallStarts, CallRecords, AttemptDies, CreateLooks, CreateRewrites,
     CreateInserts, CreateFindsWinner, CreateWrites, CreateStamps, CreateUndoes, EditLooks,
     EditReads, EditLooksAgain, EditOverwrites, EditCommits, DeleteLooks, DeleteDrops,
     DeleteUnlinks, SyncLooks, SyncCompares, SyncRestores, Moves, WriteDisk, DiskFails,
     KeepsCalls
<1>7. overlapped => overlapped'
  BY <1>6 DEF FileInv, FileTypeOK
<1>8. QED
  BY <1>3, <1>4, <1>5, <1>7

LEMMA FileStep == FileInv /\ [FileNext]_fileVars => FileInv'
<1> SUFFICES ASSUME FileInv, [FileNext]_fileVars
             PROVE  FileInv'
  OBVIOUS
<1>1. CASE UNCHANGED fileVars
  BY <1>1 DEF fileVars, FileInv, FileTypeOK, Keyed, Alone, Done, Running, Call, Mirror, Paired,
     NoDeletion
<1>2. QED
  BY <1>1, AttemptBegins, AttemptEnds, CallStartsKeeps, CreateKeeps, EditKeeps, DeleteKeeps,
     SyncKeeps DEF FileNext

LEMMA FileInvHolds == FileSpec => []FileInv
BY FileInvInit, FileStep, PTL DEF FileSpec

\* For any number of calls, attempts and texts: the variables of a file keep
\* their types.
THEOREM FileTypeCorrect == FileSpec => []FileTypeOK
<1>1. FileInv => FileTypeOK
  BY DEF FileInv
<1>2. QED
  BY <1>1, FileInvHolds, PTL

\* However many attempts of calls and syncs there are, when nothing failed: at
\* rest the row and the workspace hold the same text if no two met, and if they
\* met and none deletes, both hold a file or neither does.
THEOREM RowsMirrored == FileSpec => []MirrorAgrees
<1>1. ASSUME FileInv
      PROVE  MirrorAgrees
  <2>1. AtRest => \A a \in Attempts :
                    attempt[a].step \notin {"writing", "committing", "unlinking"}
    BY DEF AtRest, Running, FileSteps
  <2>2. fileFaults = 0 /\ AtRest /\ ~overlapped => disk = row.text
    BY <1>1, <2>1 DEF FileInv, Mirror
  <2>3. fileFaults = 0 /\ AtRest /\ NoDeletion => (disk = NoText <=> row = NoFile)
    BY <1>1, <2>1 DEF FileInv, Paired
  <2>4. QED
    BY <2>2, <2>3 DEF MirrorAgrees, NoDeletion
<1>2. QED
  BY <1>1, FileInvHolds, PTL

\* A recorded success is true and is not taken back, whatever died or failed
\* before it, as long as no two attempts met.
THEOREM SuccessIsDone == FileSpec => SuccessMeansDone
<1> DEFINE A == /\ \A a \in Attempts :
                    /\ attempt[a].step = "succeeding" /\ ~attempt[a].ignored /\ ~overlapped
                    /\ attempt'[a].step = "ended" /\ fileFaults' = fileFaults
                    => row'.text = Call(a).text /\ disk' = Call(a).text
                /\ \A k \in CallKeys :
                    callStatus[k] = "SUCCEEDED" /\ ~overlapped' => callStatus'[k] = "SUCCEEDED"
<1>1. ASSUME FileInv, FileNext
      PROVE  A
  <2>1. PICK b \in Attempts :
         \/ \E k \in CallKeys : CallLooks(b, k)
         \/ CallStarts(b) \/ CallRecords(b) \/ AttemptDies(b)
         \/ CreateLooks(b) \/ CreateRewrites(b) \/ CreateInserts(b) \/ CreateFindsWinner(b)
         \/ CreateWrites(b) \/ CreateStamps(b) \/ CreateUndoes(b)
         \/ EditLooks(b) \/ EditReads(b) \/ EditLooksAgain(b) \/ EditOverwrites(b) \/ EditCommits(b)
         \/ DeleteLooks(b) \/ DeleteDrops(b) \/ DeleteUnlinks(b)
         \/ SyncLooks(b) \/ SyncCompares(b) \/ SyncRestores(b)
    BY <1>1 DEF FileNext
  <2>2. /\ \A a \in Attempts \ {b} : attempt'[a] = attempt[a]
        /\ attempt[b].step = "succeeding" => CallRecords(b) \/ AttemptDies(b)
        /\ CallStarts(b) \/ CallRecords(b) \/ UNCHANGED callStatus
        /\ overlapped => overlapped'
    BY <1>1, <2>1, OwnStep
  <2>3. ASSUME NEW a \in Attempts, attempt[a].step = "succeeding", ~attempt[a].ignored,
               ~overlapped, attempt'[a].step = "ended", fileFaults' = fileFaults
        PROVE  row'.text = Call(a).text /\ disk' = Call(a).text
    <3>1. a = b
      BY <2>2, <2>3
    <3>2. ~AttemptDies(a)
      BY <1>1, <2>3 DEF AttemptDies, FileFault, FileInv, FileTypeOK
    <3>3. CallRecords(a) /\ UNCHANGED <<row, disk>> /\ Running(a)
      BY <2>2, <2>3, <3>1, <3>2 DEF CallRecords, KeepsFile, Running, FileSteps
    <3>4. QED
      BY <1>1, <2>3, <3>3, Underway DEF Done
  <2>4. ASSUME NEW k \in CallKeys, callStatus[k] = "SUCCEEDED", ~overlapped'
        PROVE  callStatus'[k] = "SUCCEEDED"
    <3>1. callStatus \in [CallKeys -> CallStatus]
      BY <1>1 DEF FileInv, FileTypeOK
    <3>2. CASE CallStarts(b)
      BY <2>4, <3>1, <3>2 DEF CallStarts
    <3>3. CASE CallRecords(b)
      <4>1. Running(b) /\ ~overlapped
        BY <2>2, <2>4, <3>3 DEF CallRecords, Running, FileSteps
      <4>2. attempt[b].key # k
        BY <1>1, <2>4, <4>1, Underway DEF Done
      <4>3. QED
        BY <2>4, <3>1, <3>3, <4>2 DEF CallRecords
    <3>4. QED
      BY <2>2, <2>4, <3>2, <3>3
  <2>5. QED
    BY <2>3, <2>4
<1> HIDE DEF A
<1>2. QED
  <2>1. FileInv /\ [FileNext]_fileVars => [A]_fileVars
    BY <1>1
  <2>2. FileSpec => [][A]_fileVars
    BY <2>1, FileInvHolds, PTL DEF FileSpec
  <2>3. QED
    BY <2>2 DEF A, SuccessMeansDone

=============================================================================
