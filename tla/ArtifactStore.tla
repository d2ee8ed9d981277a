----------------------------- MODULE ArtifactStore -----------------------------
(***************************************************************************)
(* createArtifact, the only way an artifact is written.  Artifacts of one  *)
(* project and type are numbered in the order they are committed, although *)
(* the number is read in one statement and used in a later one of the same *)
(* READ COMMITTED transaction: a unique index on the number refuses a      *)
(* second use, a unique index on the node a second artifact of one node,   *)
(* and a refused writer looks again, three times at most.                  *)
(*                                                                         *)
(* One project and one type; every call is a writer of its own, so that a  *)
(* retried activity is a second writer for the same node.  The content is  *)
(* left out: an artifact is known by the writer that made it.  A call that *)
(* ends in any other error, or whose answer is lost, is one that stops     *)
(* where it is.                                                            *)
(***************************************************************************)
EXTENDS Naturals, FiniteSets

CONSTANTS
    Writers,         \* bound: calls of createArtifact ever made
    ArtifactNodes    \* nodes that produce an artifact of the type

NoNode == "NO_NODE"  \* the discovery artifact belongs to no node

ASSUME ArtifactAssumption == IsFiniteSet(Writers) /\ NoNode \notin ArtifactNodes

VARIABLES
    artifacts,       \* the committed rows
    writing          \* where each call is, and what it holds

artifactVars == <<artifacts, writing>>

Tries == 3

Rows == [version : Nat \ {0}, node : ArtifactNodes \union {NoNode}, by : Writers]
NoArtifact == [version |-> 0, node |-> NoNode, by |-> "NOBODY"]

NewWriter == [step |-> "new", node |-> NoNode, seen |-> 0, try |-> 0, answer |-> NoArtifact]

ArtifactTypeOK ==
    /\ artifacts \subseteq Rows
    /\ writing \in [Writers ->
            [step : {"new", "looking", "reading", "inserting", "refused",
                     "answered", "thrown"},
             node : ArtifactNodes \union {NoNode}, seen : Nat,
             try : 0 .. Tries - 1, answer : Rows \union {NoArtifact}]]

ArtifactInit ==
    /\ artifacts = {}
    /\ writing = [w \in Writers |-> NewWriter]

-----------------------------------------------------------------------------

OfNode(n) == {a \in artifacts : n # NoNode /\ a.node = n}

\* The latest version committed, 0 when there is none.
LatestVersion == CHOOSE v \in {0} \union {a.version : a \in artifacts} :
                    \A a \in artifacts : a.version <= v

Writes(w, step) ==
    /\ writing' = [writing EXCEPT ![w].step = step]
    /\ UNCHANGED artifacts

Answers(w, a) ==
    /\ writing' = [writing EXCEPT ![w].step = "answered", ![w].answer = a]
    /\ UNCHANGED artifacts

WriterBegins(w, n) ==
    /\ writing[w].step = "new"
    /\ writing' = [writing EXCEPT ![w].step = IF n = NoNode THEN "reading" ELSE "looking",
                                  ![w].node = n]
    /\ UNCHANGED artifacts

\* A node that has its artifact gets it again.
WriterLooks(w) ==
    /\ writing[w].step = "looking"
    /\ \/ \E a \in OfNode(writing[w].node) : Answers(w, a)
       \/ OfNode(writing[w].node) = {} /\ Writes(w, "reading")

WriterReads(w) ==
    /\ writing[w].step = "reading"
    /\ writing' = [writing EXCEPT ![w].step = "inserting", ![w].seen = LatestVersion]
    /\ UNCHANGED artifacts

NewRow(w) == [version |-> writing[w].seen + 1, node |-> writing[w].node, by |-> w]

\* Mutant: only the version is unique.
VersionTaken(w) == \E a \in artifacts : a.version = NewRow(w).version

\* Mutant: only the node is unique.
NodeTaken(w) == OfNode(writing[w].node) # {}

\* The unique indexes refuse the row.
Refused(w) ==
    \/ \E a \in artifacts : a.version = NewRow(w).version
    \/ OfNode(writing[w].node) # {}

\* The row and its event are committed.
WriterInserts(w) ==
    /\ writing[w].step = "inserting"
    /\ ~Refused(w)
    /\ artifacts' = artifacts \union {NewRow(w)}
    /\ writing' = [writing EXCEPT ![w].step = "answered", ![w].answer = NewRow(w)]

WriterIsRefused(w) ==
    /\ writing[w].step = "inserting"
    /\ Refused(w)
    /\ Writes(w, "refused")

LastTry(w) == writing[w].try = Tries - 1

\* After a refusal: the artifact of the node if there is one, else a new
\* attempt, else the error.
WriterLooksAgain(w) ==
    /\ writing[w].step = "refused"
    /\ \/ \E a \in OfNode(writing[w].node) : Answers(w, a)
       \/ /\ OfNode(writing[w].node) = {}
          /\ ~LastTry(w)
          /\ writing' = [writing EXCEPT ![w].step = "reading", ![w].try = @ + 1]
          /\ UNCHANGED artifacts
       \/ /\ OfNode(writing[w].node) = {}
          /\ LastTry(w)
          /\ Writes(w, "thrown")

ArtifactNext ==
    \E w \in Writers :
        \/ \E n \in ArtifactNodes \union {NoNode} : WriterBegins(w, n)
        \/ WriterLooks(w)
        \/ WriterReads(w)
        \/ WriterInserts(w)
        \/ WriterIsRefused(w)
        \/ WriterLooksAgain(w)

ArtifactSpec == ArtifactInit /\ [][ArtifactNext]_artifactVars

-----------------------------------------------------------------------------
(* Properties *)

\* "Revision scope is monotonic": an artifact that is committed later has a
\* higher version than every one before it, with no version left out, however
\* the reads and inserts of concurrent writers fall (create-artifact.ts).
RevisionsGrow ==
    [][\A a \in artifacts' \ artifacts :
        a.version = Cardinality(artifacts) + 1]_artifactVars

\* "A node id is idempotent": all answers for one node are the same artifact,
\* and a call without a node is answered with the artifact it made.
NodeIsIdempotent ==
    \A w \in Writers : writing[w].step = "answered" =>
        /\ writing[w].answer \in artifacts
        /\ writing[w].node = NoNode => writing[w].answer.by = w
        /\ \A x \in Writers :
            /\ writing[x].step = "answered"
            /\ writing[x].node = writing[w].node
            /\ writing[w].node # NoNode
            => writing[x].answer = writing[w].answer
=============================================================================
