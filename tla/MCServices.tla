------------------------------ MODULE MCServices ------------------------------
(***************************************************************************)
(* The services around a build that share no state with one another, in    *)
(* one run: each behaviour is a behaviour of one of them, the others stay  *)
(* in their initial states.                                                *)
(***************************************************************************)
EXTENDS GitHubPush, ArtifactStore, ProjectFiles, RuntimeCache, ProjectMemory, TLC

CONSTANTS r1, r2, r3, r4, s1, s2

VARIABLE service

ThreeCalls == {r1, r2, r3}
FourCalls == {r1, r2, r3, r4}
TwoOf == {s1, s2}
TwoTexts == {1, 2}

\* Calls of one kind are alike; so are keys, processes and tasks; contents are
\* compared for equality only.
Alike == Permutations(ThreeCalls) \union Permutations(TwoOf)

Init ==
    /\ service \in {"push", "artifacts", "files", "cache", "memory"}
    /\ PushInit
    /\ ArtifactInit
    /\ CacheInit
    /\ FileInit
    /\ MemoryInit
    /\ service # "files" => \A k \in CallKeys : asked[k].tool = "delete_file"

Next ==
    /\ UNCHANGED service
    /\ \/ service = "push" /\ PushNext /\ UNCHANGED <<artifactVars, fileVars, cacheVars, memoryVars>>
       \/ service = "artifacts" /\ ArtifactNext /\ UNCHANGED <<pushVars, fileVars, cacheVars, memoryVars>>
       \/ service = "files" /\ FileNext /\ UNCHANGED <<pushVars, artifactVars, cacheVars, memoryVars>>
       \/ service = "cache" /\ CacheNext /\ UNCHANGED <<pushVars, artifactVars, fileVars, memoryVars>>
       \/ service = "memory" /\ MemoryNext /\ UNCHANGED <<pushVars, artifactVars, fileVars, cacheVars>>

vars == <<service, pushVars, artifactVars, fileVars, cacheVars, memoryVars>>

Spec == Init /\ [][Next]_vars

\* The rows, the workspace, the memories, the cache layers and every step of a call under way
\* hold only what the schema and the code allow; a layer keeps to its limit.
ServicesTypeOK == PushTypeOK /\ ArtifactTypeOK /\ FileTypeOK /\ CacheTypeOK /\ MemoryTypeOK
=============================================================================
