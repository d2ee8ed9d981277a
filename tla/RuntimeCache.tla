----------------------------- MODULE RuntimeCache -----------------------------
(***************************************************************************)
(* The application cache of derived values: a bounded layer in each        *)
(* process, least recently used first out, in front of a table all of them *)
(* share.  A request looks in its process, then in the table, then joins a *)
(* load of the same key in its process or starts one.  Requests interleave *)
(* at their awaits.                                                        *)
(*                                                                         *)
(* A value is known by its key, by when it was loaded and by how many      *)
(* invalidations of the project there had been when its load began.  One   *)
(* project, one namespace; metrics are left out.  Time passes in ticks.    *)
(***************************************************************************)
EXTENDS Naturals, Sequences, SequencesExt

CONSTANTS
    Processes,       \* server processes, each with a cache
    CacheKeys,
    CacheRequests,   \* bound: calls of getOrLoad
    HotLimit,        \* hotEntries
    TimeToLive,      \* ttlSeconds, in ticks
    MaxTime,         \* bound: ticks
    MaxInvalidations \* bound: calls of invalidateProject

NoRequest == "NO_REQUEST"
NoProcess == "NO_PROCESS"
NoKeyYet == "NO_KEY_YET"

ASSUME CacheAssumption ==
    /\ HotLimit \in Nat /\ TimeToLive \in Nat
    /\ MaxTime \in Nat /\ MaxInvalidations \in Nat
    /\ NoRequest \notin CacheRequests /\ NoProcess \notin Processes
    /\ NoKeyYet \notin CacheKeys

VARIABLES
    time,
    hot,             \* of each process, the entries in order of last use
    derived,         \* the shared table: an entry of each key, or none
    inFlight,        \* of each process, the request that loads a key
    request,         \* where each request is, and what it holds
    invalidating,    \* the process whose invalidation awaits the table
    invalidations,   \* how many began (history)
    quiet,           \* no request was under way since the last began (history)
    clean            \* of each process, the last that surely took effect (history)

cacheVars == <<time, hot, derived, inFlight, request, invalidating, invalidations,
               quiet, clean>>

Values == [loaded : 0 .. MaxTime, era : 0 .. MaxInvalidations]
NoValue == [loaded |-> 0, era |-> 99]
HotEntries == [key : CacheKeys, value : Values, expires : Nat]
TableRows == [value : Values, expires : Nat]
NoTableRow == [value |-> NoValue, expires |-> 0]

NewRequest == [step |-> "new", proc |-> NoProcess, key |-> NoKeyYet, value |-> NoValue,
               expires |-> 0, from |-> 0]

CacheTypeOK ==
    /\ time \in 0 .. MaxTime
    /\ \A p \in Processes :
        /\ hot[p] \in Seq(HotEntries)
        /\ Len(hot[p]) <= HotLimit
        /\ \A i, j \in DOMAIN hot[p] : hot[p][i].key = hot[p][j].key => i = j
    /\ derived \in [CacheKeys -> TableRows \union {NoTableRow}]
    /\ inFlight \in [Processes -> [CacheKeys -> CacheRequests \union {NoRequest}]]
    /\ request \in [CacheRequests ->
            [step : {"new", "reading", "read", "waiting", "loading", "storing",
                     "hit", "loaded", "rejected"},
             proc : Processes \union {NoProcess}, key : CacheKeys \union {NoKeyYet},
             value : Values \union {NoValue}, expires : Nat, from : 0 .. MaxInvalidations]]
    /\ invalidating \in Processes \union {NoProcess}
    /\ invalidations \in 0 .. MaxInvalidations
    /\ quiet \in BOOLEAN
    /\ clean \in [Processes -> 0 .. MaxInvalidations]

CacheInit ==
    /\ time = 0
    /\ hot = [p \in Processes |-> <<>>]
    /\ derived = [k \in CacheKeys |-> NoTableRow]
    /\ inFlight = [p \in Processes |-> [k \in CacheKeys |-> NoRequest]]
    /\ request = [r \in CacheRequests |-> NewRequest]
    /\ invalidating = NoProcess
    /\ invalidations = 0
    /\ quiet = TRUE
    /\ clean = [p \in Processes |-> 0]

-----------------------------------------------------------------------------
(* The layer of a process *)

\* The layer of p without its entry of k: it has one at most.
Without(p, k) ==
    IF \E i \in DOMAIN hot[p] : hot[p][i].key = k
    THEN RemoveAt(hot[p], CHOOSE i \in DOMAIN hot[p] : hot[p][i].key = k)
    ELSE hot[p]

\* Mutant: one entry too many.
KeepOneMore(s) == SubSeq(s, IF Len(s) > HotLimit + 1 THEN Len(s) - HotLimit ELSE 1, Len(s))

\* The oldest entries go until the rest fits.
Evict(s) == SubSeq(s, IF Len(s) > HotLimit THEN Len(s) - HotLimit + 1 ELSE 1, Len(s))

SetHot(p, k, value, expires) ==
    hot' = IF expires <= time THEN hot
           ELSE [hot EXCEPT ![p] = Evict(Append(Without(p, k),
                    [key |-> k, value |-> value, expires |-> expires]))]

HotOf(p, k) == {hot[p][i] : i \in {j \in DOMAIN hot[p] : hot[p][j].key = k}}

Awaiting(q) == request[q].step \in {"reading", "read", "waiting", "loading", "storing"}

\* The request at this step holds a value and its expiry; a hit, its time.
Holding(q, step, value, expires) ==
    [request[q] EXCEPT !.step = step, !.value = value, !.expires = expires]

NoInvalidation == UNCHANGED <<invalidating, invalidations, quiet, clean>>

-----------------------------------------------------------------------------
(* getOrLoad *)

\* A hit of the process's own layer is answered at once, and moves to the
\* end; an entry that expired is dropped.
RequestBegins(q, p, k) ==
    /\ request[q].step = "new"
    /\ LET live == {e \in HotOf(p, k) : e.expires > time}
           asked == [NewRequest EXCEPT !.proc = p, !.key = k, !.from = clean[p]]
       IN  IF live # {}
           THEN \E e \in live :
                /\ request' = [request EXCEPT ![q] = [asked EXCEPT !.step = "hit",
                                    !.value = e.value, !.expires = time]]
                /\ hot' = [hot EXCEPT ![p] = Append(Without(p, k), e)]
                /\ UNCHANGED quiet
           ELSE /\ request' = [request EXCEPT ![q] = [asked EXCEPT !.step = "reading"]]
                /\ hot' = [hot EXCEPT ![p] = Without(p, k)]
                /\ quiet' = FALSE
    /\ UNCHANGED <<time, derived, inFlight, clean, invalidating, invalidations>>

\* The table is read, or the read fails, or what it held is no valid value.
TableIsRead(q) ==
    /\ request[q].step = "reading"
    /\ \E row \in {derived[request[q].key], NoTableRow} :
        request' = [request EXCEPT ![q] = Holding(q, "read", row.value, row.expires)]
    /\ UNCHANGED <<time, hot, derived, inFlight>>
    /\ NoInvalidation

\* Mutant: a value from the table lives for another full time.
RenewedExpiry(q) == time + TimeToLive

\* A value from the table keeps its time.
KeptExpiry(q) == request[q].expires

\* Mutant: requests load side by side.
LoadAlone(p, k) == FALSE

LoadShared(p, k) == inFlight[p][k] # NoRequest

\* What follows the read runs without an await: a row that has not expired is
\* the answer; else the request joins the load of its process or starts one.
RequestGoesOn(q) ==
    LET p == request[q].proc
        k == request[q].key
    IN
    /\ request[q].step = "read"
    /\ \/ /\ request[q].expires > time
          /\ SetHot(p, k, request[q].value, KeptExpiry(q))
          /\ request' = [request EXCEPT ![q] = Holding(q, "hit", request[q].value, time)]
          /\ UNCHANGED inFlight
       \/ /\ request[q].expires <= time
          /\ LoadShared(p, k)
          /\ request' = [request EXCEPT ![q] = Holding(q, "waiting", NoValue, 0)]
          /\ UNCHANGED <<hot, inFlight>>
       \/ /\ request[q].expires <= time
          /\ ~LoadShared(p, k)
          /\ inFlight' = [inFlight EXCEPT ![p][k] = q]
          /\ request' = [request EXCEPT ![q] =
                            Holding(q, "loading", [loaded |-> 0, era |-> invalidations], 0)]
          /\ UNCHANGED hot
    /\ UNCHANGED <<time, derived>>
    /\ NoInvalidation

LoadResolves(q) ==
    /\ request[q].step = "loading"
    /\ LET value == [request[q].value EXCEPT !.loaded = time]
       IN  /\ SetHot(request[q].proc, request[q].key, value, time + TimeToLive)
           /\ request' = [request EXCEPT ![q] =
                            Holding(q, "storing", value, time + TimeToLive)]
    /\ UNCHANGED <<time, derived, inFlight>>
    /\ NoInvalidation

\* The load is over, for its request and for those that wait for it.
LoadEnds(q, step, value) ==
    /\ inFlight' = [inFlight EXCEPT ![request[q].proc][request[q].key] = NoRequest]
    /\ request' = [r \in CacheRequests |->
                    IF r = q \/ /\ request[r].step = "waiting"
                                /\ request[r].proc = request[q].proc
                                /\ request[r].key = request[q].key
                    THEN Holding(r, step, value, 0)
                    ELSE request[r]]

LoadRejects(q) ==
    /\ request[q].step = "loading"
    /\ LoadEnds(q, "rejected", NoValue)
    /\ UNCHANGED <<time, hot, derived>>
    /\ NoInvalidation

\* The table is written, or the write fails and nobody is told.
TableIsWritten(q) ==
    /\ request[q].step = "storing"
    /\ \/ derived' = [derived EXCEPT ![request[q].key] =
                        [value |-> request[q].value, expires |-> request[q].expires]]
       \/ UNCHANGED derived
    /\ LoadEnds(q, "loaded", request[q].value)
    /\ UNCHANGED <<time, hot>>
    /\ NoInvalidation

-----------------------------------------------------------------------------
(* invalidateProject *)

\* Mutant: the process keeps its own layer.
LayerKept(p) == hot

LayerCleared(p) == [hot EXCEPT ![p] = <<>>]

InvalidateBegins(p) ==
    /\ invalidating = NoProcess
    /\ invalidations < MaxInvalidations
    /\ invalidations' = invalidations + 1
    /\ invalidating' = p
    /\ hot' = LayerCleared(p)
    /\ quiet' = \A q \in CacheRequests : ~Awaiting(q)
    /\ UNCHANGED <<time, derived, inFlight, request, clean>>

\* The table is cleared, or that fails.  It surely took effect in the process
\* when the table was cleared and no request was under way.
InvalidateEnds(p) ==
    /\ invalidating = p
    /\ \/ /\ derived' = [k \in CacheKeys |-> NoTableRow]
          /\ clean' = [clean EXCEPT ![p] = IF quiet THEN invalidations ELSE @]
       \/ UNCHANGED <<derived, clean>>
    /\ invalidating' = NoProcess
    /\ UNCHANGED <<time, hot, inFlight, request, invalidations, quiet>>

TimePasses ==
    /\ time < MaxTime
    /\ time' = time + 1
    /\ UNCHANGED <<hot, derived, inFlight, request>>
    /\ NoInvalidation

-----------------------------------------------------------------------------

CacheNext ==
    \/ TimePasses
    \/ \E p \in Processes : InvalidateBegins(p) \/ InvalidateEnds(p)
    \/ \E q \in CacheRequests :
        \/ \E p \in Processes, k \in CacheKeys : RequestBegins(q, p, k)
        \/ TableIsRead(q) \/ RequestGoesOn(q)
        \/ LoadResolves(q) \/ LoadRejects(q) \/ TableIsWritten(q)

CacheSpec == CacheInit /\ [][CacheNext]_cacheVars

-----------------------------------------------------------------------------
(* Properties *)

\* A process never loads one key twice at a time, although a request reads
\* the table between looking at its own layer and looking for a load to join.
SingleFlight ==
    \A q \in CacheRequests : request[q].step \in {"loading", "storing"} =>
        inFlight[request[q].proc][request[q].key] = q

\* A hit is not old.  A value is never one once its time is over, however often
\* it moved from the table to a process since it was loaded; and a request of the
\* process that invalidated a project is not answered with a value from before,
\* if the table could be cleared and no request anywhere was under way when it was.
HitsAreFresh ==
    \A q \in CacheRequests :
        /\ request[q].step = "hit" =>
            request[q].expires < request[q].value.loaded + TimeToLive
        /\ request[q].step \in {"hit", "loaded"} =>
            request[q].value.era >= request[q].from
=============================================================================
