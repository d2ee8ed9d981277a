---------------------------- MODULE ServicesProofs ----------------------------
(***************************************************************************)
(* The application cache, for any number of processes, keys, requests,     *)
(* invalidations and ticks, and layers of any size; and, last, that all    *)
(* the services around a build keep their types together.                  *)
(***************************************************************************)
EXTENDS MCServices, GitHubPushProofs, StoreProofs, SequenceTheorems, TLAPS


\* An entry lives no longer than its load allows, and is of the time since the
\* last invalidation that surely took effect in its process.
Fit(e, p) == e.expires <= e.value.loaded + TimeToLive /\ e.value.era >= clean[p]

\* Each layer has one entry of a key, and no more than its limit.
Layers ==
    /\ hot \in [Processes -> Seq(HotEntries)]
    /\ \A p \in Processes :
        /\ Len(hot[p]) <= HotLimit
        /\ \A i, j \in DOMAIN hot[p] : hot[p][i].key = hot[p][j].key => i = j
        /\ \A i \in DOMAIN hot[p] : Fit(hot[p][i], p)

\* What is in the table fits every process.
Table ==
    /\ derived \in [CacheKeys -> TableRows \union {NoTableRow}]
    /\ \A k \in CacheKeys : derived[k] # NoTableRow =>
        \A p \in Processes : Fit(derived[k], p)

Steps == {"new", "reading", "read", "waiting", "loading", "storing", "hit", "loaded",
          "rejected"}
InProgress == {"reading", "read", "waiting", "loading", "storing"}

Requests ==
    [step : Steps, proc : Processes \union {NoProcess}, key : CacheKeys \union {NoKeyYet},
     value : Values \union {NoValue}, expires : Nat, from : 0 .. MaxInvalidations]

\* The request holds a value it may answer with, or is to load one.
Carries(r) == (r.step = "read" /\ r.expires # 0) \/ r.step \in {"loading", "storing"}

\* What is known of a request by the step it is at.
Sound(r) ==
    /\ r.step # "new" => r.proc \in Processes /\ r.key \in CacheKeys
    /\ r.step \in InProgress => r.from <= clean[r.proc]
    /\ Carries(r) => r.value \in Values /\ \A p \in Processes : r.value.era >= clean[p]
    /\ r.step = "storing" \/ (Carries(r) /\ r.step = "read") =>
        r.expires <= r.value.loaded + TimeToLive
    /\ r.step = "hit" => r.expires < r.value.loaded + TimeToLive
    /\ r.step \in {"hit", "loaded"} => r.value.era >= r.from

Calls ==
    /\ request \in [CacheRequests -> Requests]
    /\ \A q \in CacheRequests : Sound(request[q])

Times ==
    /\ time \in 0 .. MaxTime
    /\ inFlight \in [Processes -> [CacheKeys -> CacheRequests \union {NoRequest}]]
    /\ invalidating \in Processes \union {NoProcess}
    /\ invalidations \in 0 .. MaxInvalidations
    /\ quiet \in BOOLEAN
    /\ clean \in [Processes -> 0 .. MaxInvalidations]
    /\ \A p \in Processes : clean[p] <= invalidations

\* While an invalidation awaits the table and nothing else began, its process
\* has an empty layer and nobody holds a value.
Undisturbed ==
    invalidating # NoProcess /\ quiet = TRUE =>
        /\ hot[invalidating] = <<>>
        /\ \A q \in CacheRequests : request[q].step \notin InProgress

CacheInv == Layers /\ Table /\ Calls /\ Times /\ Undisturbed /\ SingleFlight

-----------------------------------------------------------------------------
(* The layer of a process *)

LEMMA WithoutDrops ==
  ASSUME Layers, NEW p \in Processes, NEW k \in CacheKeys
  PROVE  /\ Without(p, k) \in Seq(HotEntries)
         /\ Len(Without(p, k)) <= Len(hot[p])
         /\ (\E i \in DOMAIN hot[p] : hot[p][i].key = k) => Len(Without(p, k)) < Len(hot[p])
         /\ \A i \in DOMAIN Without(p, k) :
              /\ Without(p, k)[i].key # k
              /\ \E j \in DOMAIN hot[p] : Without(p, k)[i] = hot[p][j]
         /\ \A i, j \in DOMAIN Without(p, k) :
              Without(p, k)[i].key = Without(p, k)[j].key => i = j
<1> DEFINE s == hot[p]
<1>1. /\ s \in Seq(HotEntries)
      /\ \A i, j \in DOMAIN s : s[i].key = s[j].key => i = j
  BY DEF Layers
<1> HIDE DEF s
<1>2. CASE \E i \in DOMAIN s : s[i].key = k
  <2> DEFINE n == CHOOSE i \in DOMAIN s : s[i].key = k
             a == SubSeq(s, 1, n - 1)
             b == SubSeq(s, n + 1, Len(s))
             w == a \o b
  <2>1. n \in 1 .. Len(s) /\ s[n].key = k
    BY <1>1, <1>2
  <2>2. Without(p, k) = w
    BY <1>2 DEF Without, RemoveAt, s
  <2> HIDE DEF n
  <2>3. /\ a \in Seq(HotEntries) /\ Len(a) = n - 1
        /\ b \in Seq(HotEntries) /\ Len(b) = Len(s) - n
        /\ \A i \in 1 .. n - 1 : a[i] = s[i]
        /\ \A i \in 1 .. Len(s) - n : b[i] = s[i + n]
    BY <1>1, <2>1
  <2> HIDE DEF a, b
  <2>a. w \in Seq(HotEntries) /\ Len(w) = Len(a) + Len(b)
    BY <2>3
  <2>b. \A i \in 1 .. Len(a) + Len(b) : w[i] = IF i <= Len(a) THEN a[i] ELSE b[i - Len(a)]
    BY <2>3, ConcatProperties, Zenon
  <2> HIDE DEF w
  <2>4. /\ Len(w) = Len(s) - 1
        /\ \A i \in 1 .. Len(s) - 1 : w[i] = IF i < n THEN s[i] ELSE s[i + 1]
    <3>1. Len(s) \in Nat
      BY <1>1
    <3>2. Len(a) + Len(b) = Len(s) - 1
      BY <2>1, <2>3, <3>1
    <3>3. ASSUME NEW i \in 1 .. Len(s) - 1
          PROVE  w[i] = IF i < n THEN s[i] ELSE s[i + 1]
      <4>1. CASE i < n
        <5>1. i \in 1 .. n - 1 /\ i <= Len(a) /\ i \in 1 .. Len(a) + Len(b)
          BY <2>1, <2>3, <3>1, <3>2, <4>1
        <5>2. QED
          BY <2>3, <2>b, <4>1, <5>1
      <4>2. CASE ~(i < n)
        <5>1. /\ ~(i <= Len(a)) /\ i - Len(a) \in 1 .. Len(s) - n
              /\ i - Len(a) + n = i + 1
          BY <2>1, <2>3, <3>1, <4>2
        <5>2. b[i - Len(a)] = s[i + 1]
          BY <2>3, <5>1
        <5>3. QED
          BY <2>b, <3>2, <4>2, <5>1, <5>2
      <4>3. QED
        BY <4>1, <4>2
    <3>4. QED
      BY <2>a, <3>2, <3>3
  <2>5. ASSUME NEW i \in 1 .. Len(s) - 1
        PROVE  w[i].key # k /\ \E j \in DOMAIN s : w[i] = s[j]
    BY <1>1, <2>1, <2>4
  <2>6. ASSUME NEW i \in 1 .. Len(s) - 1, NEW j \in 1 .. Len(s) - 1, w[i].key = w[j].key
        PROVE  i = j
    <3> DEFINE from(x) == IF x < n THEN x ELSE x + 1
    <3>1. \A x \in 1 .. Len(s) - 1 : from(x) \in DOMAIN s /\ w[x] = s[from(x)]
      BY <1>1, <2>1, <2>4
    <3>2. from(i) \in DOMAIN s /\ from(j) \in DOMAIN s /\ s[from(i)].key = s[from(j)].key
      BY <2>6, <3>1
    <3>3. from(i) = from(j)
      <4> HIDE DEF from
      <4>1. QED
        BY <1>1, <3>2
    <3>4. n \in Int /\ i \in Int /\ j \in Int
      BY <1>1, <2>1
    <3>5. QED
      BY <3>3, <3>4
  <2>7. DOMAIN w = 1 .. Len(s) - 1 /\ Len(w) <= Len(s) /\ Len(w) < Len(s)
    BY <1>1, <2>a, <2>4
  <2>8. /\ w \in Seq(HotEntries) /\ Len(w) <= Len(s) /\ Len(w) < Len(s)
        /\ \A i \in DOMAIN w : w[i].key # k /\ \E j \in DOMAIN s : w[i] = s[j]
        /\ \A i, j \in DOMAIN w : w[i].key = w[j].key => i = j
    BY <2>a, <2>5, <2>6, <2>7
  <2>9. QED
    BY <2>2, <2>8, Zenon DEF s
<1>3. CASE ~\E i \in DOMAIN s : s[i].key = k
  <2>1. Without(p, k) = s
    BY <1>3 DEF Without, s
  <2>2. Len(s) <= Len(s)
    BY <1>1
  <2>3. QED
    BY <1>1, <1>3, <2>1, <2>2 DEF s
<1>4. QED
  BY <1>2, <1>3

\* Without an entry, a layer is still a layer.
LEMMA DropKeeps ==
  ASSUME Layers, clean' = clean, NEW p \in Processes, NEW k \in CacheKeys,
         hot' = [hot EXCEPT ![p] = Without(p, k)]
  PROVE  Layers'
<1> DEFINE w == Without(p, k)
<1>1. /\ w \in Seq(HotEntries) /\ Len(w) <= Len(hot[p])
      /\ \A i \in DOMAIN w : \E j \in DOMAIN hot[p] : w[i] = hot[p][j]
      /\ \A i, j \in DOMAIN w : w[i].key = w[j].key => i = j
  BY WithoutDrops
<1>2. hot' = [hot EXCEPT ![p] = w]
  OBVIOUS
<1> HIDE DEF w
<1>3. hot' \in [Processes -> Seq(HotEntries)] /\ hot'[p] = w
  BY <1>1, <1>2 DEF Layers
<1>4. ASSUME NEW c \in Processes
      PROVE  /\ Len(hot'[c]) <= HotLimit
             /\ \A i, j \in DOMAIN hot'[c] : hot'[c][i].key = hot'[c][j].key => i = j
             /\ \A i \in DOMAIN hot'[c] : Fit(hot[c][i], c)'
  <2>1. CASE c # p
    BY <1>2, <2>1 DEF Layers, Fit
  <2>2. CASE c = p
    <3>1. Len(w) \in Nat /\ Len(hot[p]) \in Nat /\ HotLimit \in Nat /\ Len(hot[p]) <= HotLimit
      BY <1>1, CacheAssumption DEF Layers
    <3>2. Len(w) <= HotLimit
      BY <1>1, <3>1
    <3>3. \A i \in DOMAIN w : Fit(w[i], p)
      BY <1>1 DEF Layers
    <3>4. QED
      BY <1>1, <1>3, <2>2, <3>2, <3>3 DEF Fit
  <2>3. QED
    BY <2>1, <2>2
<1>5. QED
  BY <1>3, <1>4 DEF Layers

\* What is left of a sequence by Evict is the end of it, and short enough.
LEMMA EvictKeeps ==
  ASSUME NEW s \in Seq(HotEntries)
  PROVE  /\ Evict(s) \in Seq(HotEntries)
         /\ Len(Evict(s)) <= HotLimit
         /\ \E n \in Nat : /\ Len(Evict(s)) + n = Len(s)
                          /\ \A i \in DOMAIN Evict(s) : Evict(s)[i] = s[i + n]
<1> DEFINE n == IF Len(s) > HotLimit THEN Len(s) - HotLimit ELSE 0
           w == SubSeq(s, n + 1, Len(s))
<1>1. Len(s) \in Nat /\ HotLimit \in Nat /\ n \in Nat /\ n <= Len(s)
  BY CacheAssumption
<1>2. Evict(s) = w
  BY <1>1 DEF Evict
<1>a. Len(s) - n <= HotLimit
  BY <1>1
<1> HIDE DEF n
<1>3. /\ w \in Seq(HotEntries) /\ Len(w) = Len(s) - n
      /\ \A i \in 1 .. Len(s) - n : w[i] = s[i + n]
  BY <1>1
<1> HIDE DEF w
<1>4. DOMAIN w = 1 .. Len(s) - n /\ Len(w) + n = Len(s)
  BY <1>1, <1>3
<1>5. QED
  BY <1>1, <1>2, <1>a, <1>3, <1>4

\* An entry that fits is put at the end, in the place of the entry of its key.
LEMMA AppendKeeps ==
  ASSUME Layers, clean' = clean, NEW p \in Processes, NEW k \in CacheKeys,
         NEW e \in HotEntries, e.key = k, Fit(e, p),
         NEW n \in Nat, NEW w \in Seq(HotEntries), Len(w) <= HotLimit,
         Len(w) + n = Len(Append(Without(p, k), e)),
         \A i \in DOMAIN w : w[i] = Append(Without(p, k), e)[i + n],
         hot' = [hot EXCEPT ![p] = w]
  PROVE  Layers'
<1> DEFINE s == Without(p, k)
           t == Append(s, e)
<1>1. /\ s \in Seq(HotEntries)
      /\ \A i \in DOMAIN s : s[i].key # k /\ \E j \in DOMAIN hot[p] : s[i] = hot[p][j]
      /\ \A i, j \in DOMAIN s : s[i].key = s[j].key => i = j
  BY WithoutDrops
<1>2. \A i \in DOMAIN s : Fit(s[i], p)
  BY <1>1 DEF Layers
<1>3. Len(w) + n = Len(t) /\ \A i \in DOMAIN w : w[i] = t[i + n]
  OBVIOUS
<1> HIDE DEF s
<1>4. /\ t \in Seq(HotEntries) /\ Len(t) = Len(s) + 1
      /\ \A i \in 1 .. Len(s) : t[i] = s[i]
      /\ t[Len(s) + 1] = e
  BY <1>1
<1> HIDE DEF t
<1>5. DOMAIN s = 1 .. Len(s) /\ Len(s) \in Nat /\ Len(w) \in Nat /\ DOMAIN w = 1 .. Len(w)
  BY <1>1
<1>6. \A i \in DOMAIN w : i + n \in 1 .. Len(s) + 1
  BY <1>3, <1>4, <1>5
<1>7. \A i \in 1 .. Len(s) + 1 : i \in 1 .. Len(s) \/ i = Len(s) + 1
  BY <1>5
<1>8. \A i \in 1 .. Len(s) + 1 : Fit(t[i], p)
  BY <1>2, <1>4, <1>5, <1>7
<1>9. \A i, j \in 1 .. Len(s) + 1 : t[i].key = t[j].key => i = j
  <2>1. ASSUME NEW i \in 1 .. Len(s) + 1, NEW j \in 1 .. Len(s) + 1, t[i].key = t[j].key
        PROVE  i = j
    <3>1. CASE i \in 1 .. Len(s) /\ j \in 1 .. Len(s)
      BY <1>1, <1>4, <1>5, <2>1, <3>1
    <3>2. CASE i \in 1 .. Len(s) /\ j = Len(s) + 1
      BY <1>1, <1>4, <1>5, <2>1, <3>2
    <3>3. CASE j \in 1 .. Len(s) /\ i = Len(s) + 1
      BY <1>1, <1>4, <1>5, <2>1, <3>3
    <3>4. QED
      BY <1>7, <3>1, <3>2, <3>3
  <2>2. QED
    BY <2>1
<1>10. \A i \in DOMAIN w : Fit(w[i], p)
  BY <1>3, <1>6, <1>8
<1>11. ASSUME NEW i \in DOMAIN w, NEW j \in DOMAIN w, w[i].key = w[j].key
       PROVE  i = j
  <2>1. i + n = j + n
    BY <1>3, <1>6, <1>9, <1>11
  <2>2. i \in Nat /\ j \in Nat
    BY <1>5
  <2>3. QED
    BY <2>1, <2>2
<1>12. hot' \in [Processes -> Seq(HotEntries)] /\ hot'[p] = w
  BY DEF Layers
<1>13. ASSUME NEW c \in Processes
       PROVE  /\ Len(hot'[c]) <= HotLimit
              /\ \A i, j \in DOMAIN hot'[c] : hot'[c][i].key = hot'[c][j].key => i = j
              /\ \A i \in DOMAIN hot'[c] : Fit(hot[c][i], c)'
  <2>1. CASE c # p
    BY <2>1 DEF Layers, Fit
  <2>2. CASE c = p
    BY <1>10, <1>11, <1>12, <2>2 DEF Fit
  <2>3. QED
    BY <2>1, <2>2
<1>14. QED
  BY <1>12, <1>13 DEF Layers

LEMMA SetHotKeeps ==
  ASSUME Layers, clean' = clean, NEW p \in Processes, NEW k \in CacheKeys,
         NEW v \in Values, NEW expires \in Nat, expires <= v.loaded + TimeToLive,
         v.era >= clean[p], SetHot(p, k, v, expires)
  PROVE  Layers'
<1> DEFINE e == [key |-> k, value |-> v, expires |-> expires]
           s == Append(Without(p, k), e)
<1>1. CASE expires <= time
  BY <1>1 DEF SetHot, Layers, Fit
<1>2. CASE ~(expires <= time)
  <2>1. hot' = [hot EXCEPT ![p] = Evict(s)]
    BY <1>2 DEF SetHot
  <2>2. e \in HotEntries /\ e.key = k /\ Fit(e, p)
    BY DEF HotEntries, Fit
  <2>3. s \in Seq(HotEntries)
    BY <2>2, WithoutDrops
  <2>4. PICK n \in Nat : /\ Len(Evict(s)) + n = Len(s)
                         /\ \A i \in DOMAIN Evict(s) : Evict(s)[i] = s[i + n]
    BY <2>3, EvictKeeps
  <2>5. Evict(s) \in Seq(HotEntries) /\ Len(Evict(s)) <= HotLimit
    BY <2>3, EvictKeeps
  <2> HIDE DEF e
  <2>6. QED
    BY <2>1, <2>2, <2>4, <2>5, AppendKeeps
<1>3. QED
  BY <1>1, <1>2

\* A hit moves the entry of its key to the end.
LEMMA HitKeeps ==
  ASSUME Layers, clean' = clean, NEW p \in Processes, NEW k \in CacheKeys,
         NEW e \in HotOf(p, k), hot' = [hot EXCEPT ![p] = Append(Without(p, k), e)]
  PROVE  Layers'
<1> DEFINE s == Append(Without(p, k), e)
<1>1. PICK j \in DOMAIN hot[p] : e = hot[p][j] /\ hot[p][j].key = k
  BY DEF HotOf
<1>2. hot[p] \in Seq(HotEntries) /\ Len(hot[p]) <= HotLimit /\ Fit(hot[p][j], p)
  BY DEF Layers
<1>3. e \in HotEntries /\ e.key = k /\ Fit(e, p)
  BY <1>1, <1>2
<1>4. Without(p, k) \in Seq(HotEntries) /\ Len(Without(p, k)) < Len(hot[p])
  BY <1>1, WithoutDrops
<1>5. s \in Seq(HotEntries) /\ Len(s) = Len(Without(p, k)) + 1
  BY <1>3, <1>4
<1>6. Len(s) <= HotLimit /\ Len(s) + 0 = Len(s)
  <2>1. Len(s) \in Nat /\ Len(Without(p, k)) \in Nat /\ Len(hot[p]) \in Nat /\ HotLimit \in Nat
    BY <1>2, <1>4, <1>5, CacheAssumption
  <2>2. QED
    BY <1>2, <1>4, <1>5, <2>1
<1>7. \A i \in DOMAIN s : i + 0 = i
  BY <1>5
<1>8. 0 \in Nat /\ \A i \in DOMAIN s : s[i] = s[i + 0]
  BY <1>7
<1>9. QED
  BY <1>3, <1>5, <1>6, <1>8, AppendKeeps

-----------------------------------------------------------------------------
(* The calls *)

\* One call changes, to what is sound.
LEMMA CallGoes ==
  ASSUME Calls, clean' = clean, NEW q \in CacheRequests, NEW r \in Requests, Sound(r),
         request' = [request EXCEPT ![q] = r]
  PROVE  Calls'
<1>1. request' \in [CacheRequests -> Requests]
  BY DEF Calls
<1>2. \A c \in CacheRequests : Sound(request'[c])
  BY DEF Calls
<1>3. \A c \in CacheRequests : Sound(request[c])'
  BY <1>2 DEF Sound, Carries
<1>4. QED
  BY <1>1, <1>3 DEF Calls

\* A call keeps who asked, for what and since when.
LEMMA Held ==
  ASSUME Calls, NEW q \in CacheRequests, NEW step \in Steps,
         NEW v \in Values \union {NoValue}, NEW expires \in Nat
  PROVE  /\ Holding(q, step, v, expires) \in Requests
         /\ Holding(q, step, v, expires).step = step
         /\ Holding(q, step, v, expires).value = v
         /\ Holding(q, step, v, expires).expires = expires
         /\ Holding(q, step, v, expires).proc = request[q].proc
         /\ Holding(q, step, v, expires).key = request[q].key
         /\ Holding(q, step, v, expires).from = request[q].from
  BY DEF Calls, Requests, Holding

\* The end of a load, for the request that loads and those that wait for it.
LEMMA LoadEndKeeps ==
  ASSUME Calls, Times, SingleFlight, clean' = clean, NEW q \in CacheRequests,
         request[q].step \in {"loading", "storing"}, NEW step \in {"loaded", "rejected"},
         NEW v \in Values \union {NoValue},
         step = "loaded" => v = request[q].value /\ request[q].step = "storing",
         LoadEnds(q, step, v)
  PROVE  /\ Calls' /\ SingleFlight'
         /\ inFlight' \in [Processes -> [CacheKeys -> CacheRequests \union {NoRequest}]]
         /\ \A c \in CacheRequests :
              request'[c].step \in InProgress => request[c].step \in InProgress
<1> DEFINE p == request[q].proc
           k == request[q].key
<1>1. p \in Processes /\ k \in CacheKeys
  BY DEF Calls, Sound
<1> DEFINE told(c) == \/ c = q
                      \/ /\ request[c].step = "waiting"
                         /\ request[c].proc = p
                         /\ request[c].key = k
<1>2. \A c \in CacheRequests :
        request'[c] = IF told(c) THEN Holding(c, step, v, 0) ELSE request[c]
  BY DEF LoadEnds
<1>3. step \in Steps /\ 0 \in Nat
  BY DEF Steps
<1>h. ASSUME NEW c \in CacheRequests
      PROVE  /\ Holding(c, step, v, 0).step = step /\ Holding(c, step, v, 0).value = v
             /\ Holding(c, step, v, 0).proc = request[c].proc
             /\ Holding(c, step, v, 0).key = request[c].key
             /\ Holding(c, step, v, 0).from = request[c].from
  BY <1>3, Held
<1>4. ASSUME NEW c \in CacheRequests
      PROVE  request'[c] \in Requests
  BY <1>2, <1>3, Held DEF Calls
<1>5. ASSUME NEW c \in CacheRequests
      PROVE  Sound(request'[c])
  <2>1. CASE ~told(c)
    BY <1>2, <2>1 DEF Calls
  <2>2. CASE told(c)
    <3>1. /\ request'[c].step = step /\ request'[c].value = v
          /\ request'[c].proc = request[c].proc /\ request'[c].key = request[c].key
          /\ request'[c].from = request[c].from
      BY <1>2, <1>h, <2>2
    <3>2. request[c].step \in InProgress /\ request[c].proc = p /\ request[c].key = k
      BY <2>2 DEF InProgress
    <3>3. request[c].from <= clean[p]
      BY <3>2 DEF Calls, Sound
    <3>4. step = "loaded" => v \in Values /\ v.era >= clean[p]
      BY <1>1 DEF Calls, Sound, Carries
    <3>5. step = "loaded" => v.era >= request[c].from
      <4>1. request[c].from \in Nat /\ clean[p] \in Nat
        BY <1>1, CacheAssumption DEF Calls, Requests, Times
      <4>2. v \in Values => v.era \in Nat
        BY CacheAssumption DEF Values
      <4>3. QED
        BY <3>3, <3>4, <4>1, <4>2
    <3>6. QED
      BY <1>1, <3>1, <3>2, <3>5 DEF Sound, Carries, InProgress
  <2>3. QED
    BY <2>1, <2>2
<1>6. Calls'
  <2>1. request' \in [CacheRequests -> Requests]
    BY <1>4 DEF LoadEnds
  <2>2. \A c \in CacheRequests : Sound(request[c])'
    BY <1>5 DEF Sound, Carries
  <2>3. QED
    BY <2>1, <2>2 DEF Calls
<1>7. /\ inFlight' = [inFlight EXCEPT ![p] = [inFlight[p] EXCEPT ![k] = NoRequest]]
      /\ inFlight[p] \in [CacheKeys -> CacheRequests \union {NoRequest}]
  BY <1>1 DEF LoadEnds, Times
<1>8. inFlight' \in [Processes -> [CacheKeys -> CacheRequests \union {NoRequest}]]
  BY <1>1, <1>7 DEF Times
<1>9. ASSUME NEW c \in CacheRequests, request'[c].step \in {"loading", "storing", "reading", "read", "waiting"}
      PROVE  request'[c] = request[c] /\ c # q
  <2>1. told(c) => request'[c].step = step
    BY <1>2, <1>h
  <2>2. ~told(c)
    BY <1>9, <2>1
  <2>3. QED
    BY <1>2, <2>2
<1>10. SingleFlight'
  <2>1. SUFFICES ASSUME NEW c \in CacheRequests, request'[c].step \in {"loading", "storing"}
                 PROVE  inFlight'[request'[c].proc][request'[c].key] = c
    BY DEF SingleFlight
  <2>2. /\ request'[c] = request[c] /\ c # q
        /\ inFlight[request[c].proc][request[c].key] = c /\ inFlight[p][k] = q
    BY <1>9, <2>1 DEF SingleFlight
  <2>3. request[c].proc \in Processes /\ request[c].key \in CacheKeys
    BY <2>1, <2>2 DEF Calls, Sound
  <2>4. request[c].proc # p \/ request[c].key # k
    BY <2>2
  <2>5. QED
    BY <1>1, <1>7, <2>2, <2>3, <2>4 DEF Times
<1>11. QED
  BY <1>6, <1>8, <1>9, <1>10 DEF InProgress

-----------------------------------------------------------------------------
(* The steps *)

LEMMA CacheInvInit == CacheInit => CacheInv
<1> SUFFICES ASSUME CacheInit
             PROVE  CacheInv
  OBVIOUS
<1> USE CacheAssumption DEF CacheInit
<1>1. Layers
  <2>1. <<>> \in Seq(HotEntries) /\ Len(<<>>) = 0 /\ DOMAIN <<>> = {}
    OBVIOUS
  <2>2. hot \in [Processes -> Seq(HotEntries)]
    BY <2>1
  <2>3. ASSUME NEW p \in Processes
        PROVE  hot[p] = <<>>
    OBVIOUS
  <2>4. 0 <= HotLimit
    OBVIOUS
  <2>5. QED
    BY <2>1, <2>2, <2>3, <2>4 DEF Layers
<1>2. Table
  BY DEF Table
<1>3. Calls
  <2>1. NewRequest \in Requests
    BY DEF NewRequest, Requests, Steps
  <2>2. Sound(NewRequest)
    BY DEF NewRequest, Sound, Carries, InProgress
  <2>3. QED
    BY <2>1, <2>2 DEF Calls
<1>4. Times
  BY DEF Times
<1>5. Undisturbed /\ SingleFlight
  BY DEF Undisturbed, SingleFlight, NewRequest
<1>6. QED
  BY <1>1, <1>2, <1>3, <1>4, <1>5 DEF CacheInv

\* A call that is under way means that an invalidation is disturbed.
LEMMA UnderwayDisturbs ==
  ASSUME Undisturbed, NEW q \in CacheRequests, request[q].step \in InProgress,
         UNCHANGED <<invalidating, invalidations, quiet, clean>>
  PROVE  Undisturbed'
  BY DEF Undisturbed

LEMMA BeginKeeps ==
  ASSUME CacheInv, NEW q \in CacheRequests, NEW p \in Processes, NEW k \in CacheKeys,
         RequestBegins(q, p, k)
  PROVE  CacheInv'
<1> DEFINE live == {e \in HotOf(p, k) : e.expires > time}
           fresh == [NewRequest EXCEPT !.proc = p, !.key = k, !.from = clean[p]]
<1>0. Layers /\ Table /\ Calls /\ Times /\ Undisturbed /\ SingleFlight
  BY DEF CacheInv
<1>1. /\ request[q].step = "new" /\ time' = time /\ derived' = derived /\ inFlight' = inFlight
      /\ clean' = clean /\ invalidating' = invalidating /\ invalidations' = invalidations
  BY DEF RequestBegins
<1>2. Table'
  BY <1>0, <1>1 DEF Table, Fit
<1>3. clean[p] \in 0 .. MaxInvalidations /\ time \in Nat /\ clean[p] \in Nat
  BY <1>0, CacheAssumption DEF Times
<1>4. CASE live # {}
  <2>1. PICK e \in live : /\ request' = [request EXCEPT ![q] = [fresh EXCEPT !.step = "hit",
                                             !.value = e.value, !.expires = time]]
                          /\ hot' = [hot EXCEPT ![p] = Append(Without(p, k), e)]
                          /\ UNCHANGED quiet
    BY <1>4 DEF RequestBegins
  <2>2. PICK j \in DOMAIN hot[p] : e = hot[p][j]
    BY DEF HotOf
  <2>3. e \in HotEntries /\ Fit(e, p) /\ e.expires > time /\ e \in HotOf(p, k)
    BY <1>0, <2>2 DEF Layers
  <2>4. e.value \in Values /\ e.expires \in Nat
    BY <2>3 DEF HotEntries
  <2>5. Layers'
    BY <1>0, <1>1, <2>1, <2>3, HitKeeps
  <2> DEFINE r == [fresh EXCEPT !.step = "hit", !.value = e.value, !.expires = time]
  <2>6. r \in Requests
    BY <1>3, <2>4 DEF Requests, NewRequest, Steps
  <2>7. /\ r.step = "hit" /\ r.proc = p /\ r.key = k /\ r.value = e.value
        /\ r.expires = time /\ r.from = clean[p]
    BY DEF NewRequest
  <2>8. request' = [request EXCEPT ![q] = r]
    BY <2>1
  <2> HIDE DEF r
  <2>9. time < e.value.loaded + TimeToLive /\ e.value.era >= clean[p]
    <3>1. e.value.loaded + TimeToLive \in Nat
      BY <2>4, CacheAssumption DEF Values
    <3>2. QED
      BY <1>3, <2>3, <2>4, <3>1 DEF Fit
  <2>10. Sound(r)
    BY <2>7, <2>9 DEF Sound, Carries, InProgress
  <2>11. Calls'
    BY <1>0, <1>1, <2>6, <2>8, <2>10, CallGoes
  <2>12. \A c \in CacheRequests : request'[c].step \in InProgress => request'[c] = request[c]
    BY <1>0, <2>7, <2>8 DEF Calls, InProgress
  <2>13. Undisturbed'
    <3>1. SUFFICES ASSUME invalidating # NoProcess, quiet = TRUE
                   PROVE  /\ hot'[invalidating] = <<>>
                          /\ \A c \in CacheRequests : request'[c].step \notin InProgress
      BY <1>1, <2>1 DEF Undisturbed
    <3>2. hot[invalidating] = <<>>
      BY <1>0, <3>1 DEF Undisturbed
    <3>3. p # invalidating
      BY <2>2, <3>2
    <3>4. hot'[invalidating] = <<>>
      BY <1>0, <2>1, <3>1, <3>2, <3>3 DEF Layers, Times
    <3>5. QED
      BY <1>0, <2>12, <3>1, <3>4 DEF Undisturbed
  <2>14. SingleFlight'
    BY <1>0, <1>1, <2>12 DEF SingleFlight, InProgress
  <2>15. Times'
    BY <1>0, <1>1, <2>1 DEF Times
  <2>16. QED
    BY <1>2, <2>5, <2>11, <2>13, <2>14, <2>15 DEF CacheInv
<1>5. CASE live = {}
  <2> DEFINE r == [fresh EXCEPT !.step = "reading"]
  <2>1. /\ request' = [request EXCEPT ![q] = r]
        /\ hot' = [hot EXCEPT ![p] = Without(p, k)]
        /\ quiet' = FALSE
    BY <1>5 DEF RequestBegins
  <2>2. Layers'
    BY <1>0, <1>1, <2>1, DropKeeps
  <2>3. r \in Requests
    BY <1>3 DEF Requests, NewRequest, Steps
  <2>4. r.step = "reading" /\ r.proc = p /\ r.key = k /\ r.from = clean[p]
    BY DEF NewRequest
  <2> HIDE DEF r
  <2>5. Sound(r)
    BY <1>3, <2>4 DEF Sound, Carries, InProgress
  <2>6. Calls'
    BY <1>0, <1>1, <2>1, <2>3, <2>5, CallGoes
  <2>7. SingleFlight'
    BY <1>0, <1>1, <2>1, <2>4 DEF SingleFlight, Calls
  <2>8. Times' /\ Undisturbed'
    BY <1>0, <1>1, <2>1 DEF Times, Undisturbed
  <2>9. QED
    BY <1>2, <2>2, <2>6, <2>7, <2>8 DEF CacheInv
<1>6. QED
  BY <1>4, <1>5

LEMMA ReadKeeps ==
  ASSUME CacheInv, NEW q \in CacheRequests, TableIsRead(q)
  PROVE  CacheInv'
<1>0. Layers /\ Table /\ Calls /\ Times /\ Undisturbed /\ SingleFlight
  BY DEF CacheInv
<1>1. /\ request[q].step = "reading" /\ time' = time /\ derived' = derived
      /\ hot' = hot /\ inFlight' = inFlight
      /\ clean' = clean /\ invalidating' = invalidating /\ invalidations' = invalidations
      /\ quiet' = quiet
  BY DEF TableIsRead, NoInvalidation
<1>2. PICK found \in {derived[request[q].key], NoTableRow} :
        request' = [request EXCEPT ![q] = Holding(q, "read", found.value, found.expires)]
  BY DEF TableIsRead
<1> DEFINE r == Holding(q, "read", found.value, found.expires)
<1>3. request[q].proc \in Processes /\ request[q].key \in CacheKeys
      /\ request[q].from <= clean[request[q].proc]
  BY <1>0, <1>1 DEF Calls, Sound, InProgress
<1>4. found \in TableRows \union {NoTableRow}
  BY <1>0, <1>3 DEF Table
<1>5. found.value \in Values \union {NoValue} /\ found.expires \in Nat
  BY <1>4 DEF TableRows, NoTableRow
<1>6. found.expires # 0 => found \in TableRows /\ \A p \in Processes : Fit(found, p)
  <2>1. found = NoTableRow => found.expires = 0
    BY DEF NoTableRow
  <2>2. QED
    BY <1>0, <1>3, <1>4, <2>1 DEF Table
<1>7. /\ r \in Requests /\ r.step = "read" /\ r.value = found.value /\ r.expires = found.expires
      /\ r.proc = request[q].proc /\ r.key = request[q].key /\ r.from = request[q].from
  <2> DEFINE v == found.value
             expires == found.expires
  <2>1. Calls /\ "read" \in Steps /\ v \in Values \union {NoValue} /\ expires \in Nat
    BY <1>0, <1>5 DEF Steps
  <2> HIDE DEF v, expires
  <2>2. /\ Holding(q, "read", v, expires) \in Requests
        /\ Holding(q, "read", v, expires).step = "read"
        /\ Holding(q, "read", v, expires).value = v
        /\ Holding(q, "read", v, expires).expires = expires
        /\ Holding(q, "read", v, expires).proc = request[q].proc
        /\ Holding(q, "read", v, expires).key = request[q].key
        /\ Holding(q, "read", v, expires).from = request[q].from
    BY <2>1, Held
  <2>3. QED
    BY <2>2 DEF v, expires
<1> HIDE DEF r
<1>8. Sound(r)
  <2>1. found.expires # 0 =>
          found.value \in Values /\ found.expires <= found.value.loaded + TimeToLive
    BY <1>3, <1>6 DEF Fit, TableRows
  <2>2. QED
    BY <1>3, <1>6, <1>7, <2>1 DEF Sound, Carries, InProgress, Fit
<1>9. Calls'
  BY <1>0, <1>1, <1>2, <1>7, <1>8, CallGoes DEF r
<1>10. SingleFlight'
  BY <1>0, <1>1, <1>2, <1>7 DEF SingleFlight, Calls, r
<1>11. Undisturbed'
  BY <1>0, <1>1, UnderwayDisturbs DEF InProgress
<1>12. Layers' /\ Table' /\ Times'
  BY <1>0, <1>1 DEF Layers, Table, Times, Fit
<1>13. QED
  BY <1>9, <1>10, <1>11, <1>12 DEF CacheInv

LEMMA GoesOnKeeps ==
  ASSUME CacheInv, NEW q \in CacheRequests, RequestGoesOn(q)
  PROVE  CacheInv'
<1> DEFINE p == request[q].proc
           k == request[q].key
<1>0. Layers /\ Table /\ Calls /\ Times /\ Undisturbed /\ SingleFlight
  BY DEF CacheInv
<1>1. /\ request[q].step = "read" /\ time' = time /\ derived' = derived
      /\ clean' = clean /\ invalidating' = invalidating /\ invalidations' = invalidations
      /\ quiet' = quiet
  BY DEF RequestGoesOn, NoInvalidation
<1>2. /\ p \in Processes /\ k \in CacheKeys /\ request[q].from <= clean[p]
      /\ request[q].from \in Nat /\ clean[p] \in Nat /\ time \in Nat
      /\ request[q].expires \in Nat /\ request[q] \in Requests
  BY <1>0, <1>1, CacheAssumption DEF Calls, Sound, InProgress, Requests, Times
<1>3. Undisturbed' /\ Table'
  BY <1>0, <1>1, UnderwayDisturbs DEF InProgress, Table, Fit
<1>4. CASE /\ request[q].expires > time
           /\ SetHot(p, k, request[q].value, KeptExpiry(q))
           /\ request' = [request EXCEPT ![q] = Holding(q, "hit", request[q].value, time)]
           /\ UNCHANGED inFlight
  <2> DEFINE v == request[q].value
             r == Holding(q, "hit", v, time)
  <2>1. request[q].expires # 0 /\ request[q].expires > time
    BY <1>2, <1>4
  <2>2. /\ v \in Values /\ v.era >= clean[p]
        /\ request[q].expires <= v.loaded + TimeToLive
    BY <1>0, <1>1, <1>2, <2>1 DEF Calls, Sound, Carries
  <2>3. v.loaded + TimeToLive \in Nat /\ v.era \in Nat
    BY <2>2, CacheAssumption DEF Values
  <2>4. Layers'
    BY <1>0, <1>1, <1>2, <1>4, <2>2, SetHotKeeps DEF KeptExpiry
  <2>5. /\ r \in Requests /\ r.step = "hit" /\ r.value = v /\ r.expires = time
        /\ r.proc = p /\ r.key = k /\ r.from = request[q].from
    BY <1>0, <1>2, <2>2, Held DEF Steps
  <2>6. request' = [request EXCEPT ![q] = r]
    BY <1>4
  <2> HIDE DEF r, v
  <2>7. time < v.loaded + TimeToLive /\ v.era >= request[q].from
    BY <1>2, <2>1, <2>2, <2>3
  <2>8. Sound(r)
    BY <1>2, <2>5, <2>7 DEF Sound, Carries, InProgress
  <2>9. Calls'
    BY <1>0, <1>1, <2>5, <2>6, <2>8, CallGoes
  <2>10. SingleFlight'
    BY <1>0, <1>4, <2>5, <2>6 DEF SingleFlight, Calls
  <2>11. Times'
    BY <1>0, <1>1, <1>4 DEF Times
  <2>12. QED
    BY <1>3, <2>4, <2>9, <2>10, <2>11 DEF CacheInv
<1>5. CASE /\ request' = [request EXCEPT ![q] = Holding(q, "waiting", NoValue, 0)]
           /\ UNCHANGED <<hot, inFlight>>
  <2> DEFINE r == Holding(q, "waiting", NoValue, 0)
  <2>1. /\ r \in Requests /\ r.step = "waiting" /\ r.proc = p /\ r.key = k
        /\ r.from = request[q].from
    BY <1>0, Held DEF Steps
  <2>2. request' = [request EXCEPT ![q] = r]
    BY <1>5
  <2> HIDE DEF r
  <2>3. Sound(r)
    BY <1>2, <2>1 DEF Sound, Carries, InProgress
  <2>4. Calls'
    BY <1>0, <1>1, <2>1, <2>2, <2>3, CallGoes
  <2>5. SingleFlight'
    BY <1>0, <1>5, <2>1, <2>2 DEF SingleFlight, Calls
  <2>6. Layers' /\ Times'
    BY <1>0, <1>1, <1>5 DEF Layers, Times, Fit
  <2>7. QED
    BY <1>3, <2>4, <2>5, <2>6 DEF CacheInv
<1>6. CASE /\ ~LoadShared(p, k)
           /\ inFlight' = [inFlight EXCEPT ![p][k] = q]
           /\ request' = [request EXCEPT ![q] =
                            Holding(q, "loading", [loaded |-> 0, era |-> invalidations], 0)]
           /\ UNCHANGED hot
  <2> DEFINE v == [loaded |-> 0, era |-> invalidations]
             r == Holding(q, "loading", v, 0)
  <2>1. v \in Values /\ \A c \in Processes : v.era >= clean[c]
    <3>1. invalidations \in 0 .. MaxInvalidations /\ 0 \in 0 .. MaxTime
      BY <1>0, CacheAssumption DEF Times
    <3>2. ASSUME NEW c \in Processes
          PROVE  invalidations >= clean[c]
      BY <1>0, CacheAssumption DEF Times
    <3>3. QED
      BY <3>1, <3>2 DEF Values
  <2>2. /\ r \in Requests /\ r.step = "loading" /\ r.value = v
        /\ r.proc = p /\ r.key = k /\ r.from = request[q].from
    BY <1>0, <2>1, Held DEF Steps
  <2>3. request' = [request EXCEPT ![q] = r]
    BY <1>6
  <2> HIDE DEF r, v
  <2>4. Sound(r)
    BY <1>2, <2>1, <2>2 DEF Sound, Carries, InProgress
  <2>5. Calls'
    BY <1>0, <1>1, <2>2, <2>3, <2>4, CallGoes
  <2>6. inFlight[p][k] = NoRequest
    BY <1>6 DEF LoadShared
  <2>7. /\ inFlight' = [inFlight EXCEPT ![p] = [inFlight[p] EXCEPT ![k] = q]]
        /\ inFlight[p] \in [CacheKeys -> CacheRequests \union {NoRequest}]
    BY <1>0, <1>2, <1>6 DEF Times
  <2>8. SingleFlight'
    <3>1. SUFFICES ASSUME NEW c \in CacheRequests, request'[c].step \in {"loading", "storing"}
                   PROVE  inFlight'[request'[c].proc][request'[c].key] = c
      BY DEF SingleFlight
    <3>2. CASE c = q
      BY <1>0, <1>2, <2>2, <2>3, <2>7, <3>2 DEF Calls, Times
    <3>3. CASE c # q
      <4>1. request'[c] = request[c]
        BY <1>0, <2>3, <3>3 DEF Calls
      <4>2. request[c].proc \in Processes /\ request[c].key \in CacheKeys
        BY <1>0, <3>1, <4>1 DEF Calls, Sound
      <4>3. inFlight[request[c].proc][request[c].key] = c
        BY <1>0, <3>1, <4>1 DEF SingleFlight
      <4>4. request[c].proc # p \/ request[c].key # k
        BY <2>6, <4>3, CacheAssumption
      <4>5. QED
        BY <1>0, <1>2, <2>7, <4>1, <4>2, <4>3, <4>4 DEF Times
    <3>4. QED
      BY <3>2, <3>3
  <2>9. Times'
    BY <1>0, <1>1, <1>2, <2>7 DEF Times
  <2>10. Layers'
    BY <1>0, <1>1, <1>6 DEF Layers, Fit
  <2>11. QED
    BY <1>3, <2>5, <2>8, <2>9, <2>10 DEF CacheInv
<1>7. QED
  BY <1>4, <1>5, <1>6 DEF RequestGoesOn

LEMMA ResolveKeeps ==
  ASSUME CacheInv, NEW q \in CacheRequests, LoadResolves(q)
  PROVE  CacheInv'
<1> DEFINE p == request[q].proc
           k == request[q].key
           v == [request[q].value EXCEPT !.loaded = time]
           r == Holding(q, "storing", v, time + TimeToLive)
<1>0. Layers /\ Table /\ Calls /\ Times /\ Undisturbed /\ SingleFlight
  BY DEF CacheInv
<1>1. /\ request[q].step = "loading" /\ time' = time /\ derived' = derived
      /\ inFlight' = inFlight
      /\ clean' = clean /\ invalidating' = invalidating /\ invalidations' = invalidations
      /\ quiet' = quiet
      /\ SetHot(p, k, v, time + TimeToLive)
      /\ request' = [request EXCEPT ![q] = r]
  BY DEF LoadResolves, NoInvalidation
<1>2. /\ p \in Processes /\ k \in CacheKeys /\ request[q].from <= clean[p]
      /\ request[q].value \in Values /\ \A c \in Processes : request[q].value.era >= clean[c]
  BY <1>0, <1>1 DEF Calls, Sound, InProgress, Carries
<1>3. /\ v \in Values /\ v.loaded = time /\ v.era = request[q].value.era
      /\ time + TimeToLive \in Nat /\ time + TimeToLive <= time + TimeToLive
  BY <1>0, <1>2, CacheAssumption DEF Times, Values
<1>4. /\ r \in Requests /\ r.step = "storing" /\ r.value = v
      /\ r.expires = time + TimeToLive
      /\ r.proc = p /\ r.key = k /\ r.from = request[q].from
  BY <1>0, <1>3, Held DEF Steps
<1> HIDE DEF r, v
<1>5. Layers'
  BY <1>0, <1>1, <1>2, <1>3, SetHotKeeps
<1>6. Sound(r)
  BY <1>2, <1>3, <1>4 DEF Sound, Carries, InProgress
<1>7. Calls'
  BY <1>0, <1>1, <1>4, <1>6, CallGoes
<1>8. SingleFlight'
  BY <1>0, <1>1, <1>4 DEF SingleFlight, Calls
<1>9. Undisturbed' /\ Table' /\ Times'
  BY <1>0, <1>1, UnderwayDisturbs DEF InProgress, Table, Times, Fit
<1>10. QED
  BY <1>5, <1>7, <1>8, <1>9 DEF CacheInv

LEMMA LoadOverKeeps ==
  ASSUME CacheInv, NEW q \in CacheRequests, LoadRejects(q) \/ TableIsWritten(q)
  PROVE  CacheInv'
<1>0. Layers /\ Table /\ Calls /\ Times /\ Undisturbed /\ SingleFlight
  BY DEF CacheInv
<1>1. /\ request[q].step \in {"loading", "storing"} /\ time' = time /\ hot' = hot
      /\ clean' = clean /\ invalidating' = invalidating /\ invalidations' = invalidations
      /\ quiet' = quiet
  BY DEF LoadRejects, TableIsWritten, NoInvalidation
<1>2. /\ Calls' /\ SingleFlight'
      /\ inFlight' \in [Processes -> [CacheKeys -> CacheRequests \union {NoRequest}]]
  <2>1. CASE LoadRejects(q)
    <3>1. LoadEnds(q, "rejected", NoValue)
      BY <2>1 DEF LoadRejects
    <3>2. QED
      BY <1>0, <1>1, <3>1, LoadEndKeeps
  <2>2. CASE TableIsWritten(q)
    <3>1. LoadEnds(q, "loaded", request[q].value) /\ request[q].step = "storing"
      BY <2>2 DEF TableIsWritten
    <3>2. request[q].value \in Values \union {NoValue}
      BY <1>0 DEF Calls, Requests
    <3>3. QED
      BY <1>0, <1>1, <3>1, <3>2, LoadEndKeeps
  <2>3. QED
    BY <2>1, <2>2
<1>3. Table'
  <2>1. CASE derived' = derived
    BY <1>0, <1>1, <2>1 DEF Table, Fit
  <2>2. CASE /\ request[q].step = "storing"
             /\ derived' = [derived EXCEPT ![request[q].key] =
                              [value |-> request[q].value, expires |-> request[q].expires]]
    <3> DEFINE found == [value |-> request[q].value, expires |-> request[q].expires]
    <3>1. /\ request[q].value \in Values /\ request[q].expires \in Nat
          /\ request[q].key \in CacheKeys
          /\ \A p \in Processes : request[q].value.era >= clean[p]
          /\ request[q].expires <= request[q].value.loaded + TimeToLive
      <4>1. request[q] \in Requests /\ Sound(request[q]) /\ request[q].step = "storing"
        BY <1>0, <2>2 DEF Calls
      <4>2. request[q].expires \in Nat
        BY <4>1 DEF Requests
      <4>3. QED
        BY <4>1, <4>2 DEF Sound, Carries
    <3>2. found \in TableRows /\ \A p \in Processes : Fit(found, p)
      BY <3>1 DEF TableRows, Fit
    <3>3. derived' = [derived EXCEPT ![request[q].key] = found]
      BY <2>2
    <3> HIDE DEF found
    <3>4. derived' \in [CacheKeys -> TableRows \union {NoTableRow}]
      BY <1>0, <3>2, <3>3 DEF Table
    <3>5. \A k \in CacheKeys : derived'[k] # NoTableRow =>
            \A p \in Processes : Fit(derived'[k], p)
      BY <1>0, <3>2, <3>3 DEF Table
    <3>6. QED
      BY <1>1, <3>4, <3>5 DEF Table, Fit
  <2>3. QED
    BY <2>1, <2>2 DEF LoadRejects, TableIsWritten
<1>4. Undisturbed'
  BY <1>0, <1>1, UnderwayDisturbs DEF InProgress
<1>5. Layers' /\ Times'
  BY <1>0, <1>1, <1>2 DEF Layers, Times, Fit
<1>6. QED
  BY <1>2, <1>3, <1>4, <1>5 DEF CacheInv

LEMMA InvalidationKeeps ==
  ASSUME CacheInv, NEW p \in Processes, InvalidateBegins(p) \/ InvalidateEnds(p)
  PROVE  CacheInv'
<1>0. Layers /\ Table /\ Calls /\ Times /\ Undisturbed /\ SingleFlight
  BY DEF CacheInv
<1>1. CASE InvalidateBegins(p)
  <2>1. /\ invalidations < MaxInvalidations /\ invalidations' = invalidations + 1
        /\ invalidating' = p /\ hot' = [hot EXCEPT ![p] = <<>>]
        /\ (quiet' = \A q \in CacheRequests : ~Awaiting(q))
        /\ time' = time /\ derived' = derived /\ inFlight' = inFlight
        /\ request' = request /\ clean' = clean
    BY <1>1 DEF InvalidateBegins, LayerCleared
  <2>2. Layers'
    <3>1. <<>> \in Seq(HotEntries) /\ Len(<<>>) = 0 /\ DOMAIN <<>> = {}
      OBVIOUS
    <3>2. hot' \in [Processes -> Seq(HotEntries)]
      BY <1>0, <2>1, <3>1 DEF Layers
    <3>3. ASSUME NEW c \in Processes
          PROVE  (c = p /\ hot'[c] = <<>>) \/ hot'[c] = hot[c]
      BY <1>0, <2>1 DEF Layers
    <3>4. 0 <= HotLimit
      BY CacheAssumption
    <3>5. QED
      BY <1>0, <2>1, <3>1, <3>2, <3>3, <3>4 DEF Layers, Fit
  <2>3. quiet' \in BOOLEAN
    BY <2>1
  <2>4. quiet' = TRUE => \A q \in CacheRequests : ~Awaiting(q)
    BY <2>1
  <2>5. Times'
    <3>1. invalidations' \in 0 .. MaxInvalidations
      BY <1>0, <2>1, CacheAssumption DEF Times
    <3>2. ASSUME NEW c \in Processes
          PROVE  clean[c] <= invalidations + 1
      BY <1>0, CacheAssumption DEF Times
    <3>3. QED
      BY <1>0, <2>1, <2>3, <3>1, <3>2 DEF Times
  <2>6. Undisturbed'
    BY <1>0, <2>1, <2>4 DEF Undisturbed, Layers, Awaiting, InProgress
  <2>7. Table' /\ Calls' /\ SingleFlight'
    BY <1>0, <2>1 DEF Table, Calls, SingleFlight, Fit, Sound, Carries
  <2>8. QED
    BY <2>2, <2>5, <2>6, <2>7 DEF CacheInv
<1>2. CASE InvalidateEnds(p)
  <2>1. /\ invalidating = p /\ invalidating' = NoProcess
        /\ time' = time /\ hot' = hot /\ inFlight' = inFlight /\ request' = request
        /\ invalidations' = invalidations /\ quiet' = quiet
    BY <1>2 DEF InvalidateEnds
  <2>2. Undisturbed' /\ SingleFlight'
    BY <1>0, <2>1 DEF Undisturbed, SingleFlight
  <2>3. CASE clean' = clean
    <3>1. Table'
      <4>1. derived' = derived \/ derived' = [k \in CacheKeys |-> NoTableRow]
        BY <1>2 DEF InvalidateEnds
      <4>2. QED
        BY <1>0, <2>3, <4>1 DEF Table, Fit
    <3>2. Layers' /\ Calls' /\ Times'
      BY <1>0, <2>1, <2>3 DEF Layers, Calls, Times, Fit, Sound, Carries
    <3>3. QED
      BY <2>2, <3>1, <3>2 DEF CacheInv
  <2>4. CASE /\ quiet = TRUE
             /\ derived' = [k \in CacheKeys |-> NoTableRow]
             /\ clean' = [clean EXCEPT ![p] = invalidations]
    <3>1. p # NoProcess
      BY CacheAssumption
    <3>2. hot[p] = <<>> /\ \A q \in CacheRequests : request[q].step \notin InProgress
      BY <1>0, <2>1, <2>4, <3>1 DEF Undisturbed
    <3>3. /\ clean' \in [Processes -> 0 .. MaxInvalidations]
          /\ \A c \in Processes : c # p => clean'[c] = clean[c]
          /\ clean'[p] = invalidations
      BY <1>0, <2>4 DEF Times
    <3>4. Layers'
      <4>1. DOMAIN <<>> = {}
        OBVIOUS
      <4>2. QED
        BY <1>0, <2>1, <3>2, <3>3, <4>1 DEF Layers, Fit
    <3>5. Table'
      BY <2>4 DEF Table
    <3>6. Calls'
      BY <1>0, <2>1, <3>2 DEF Calls, Sound, Carries, InProgress
    <3>7. Times'
      <4>1. invalidations <= invalidations
        BY <1>0, CacheAssumption DEF Times
      <4>2. ASSUME NEW c \in Processes
            PROVE  clean'[c] <= invalidations
        <5>1. CASE c = p
          BY <3>3, <4>1, <5>1
        <5>2. CASE c # p
          <6>1. clean'[c] = clean[c]
            BY <3>3, <5>2
          <6>2. QED
            BY <1>0, <6>1 DEF Times
        <5>3. QED
          BY <5>1, <5>2
      <4>3. QED
        BY <1>0, <2>1, <3>3, <4>2, CacheAssumption DEF Times
    <3>8. QED
      BY <2>2, <3>4, <3>5, <3>6, <3>7 DEF CacheInv
  <2>5. QED
    <3>1. CASE UNCHANGED <<derived, clean>>
      BY <2>3, <3>1
    <3>2. CASE /\ derived' = [k \in CacheKeys |-> NoTableRow]
               /\ clean' = [clean EXCEPT ![p] = IF quiet THEN invalidations ELSE @]
      <4>1. quiet = TRUE \/ quiet = FALSE
        BY <1>0 DEF Times
      <4>2. CASE quiet = TRUE
        <5>1. clean' = [clean EXCEPT ![p] = invalidations]
          BY <3>2, <4>2
        <5>2. QED
          BY <2>4, <3>2, <4>2, <5>1
      <4>3. CASE quiet = FALSE
        <5>1. clean' = [clean EXCEPT ![p] = clean[p]]
          BY <3>2, <4>3
        <5>2. clean' = clean
          BY <1>0, <5>1 DEF Times
        <5>3. QED
          BY <2>3, <5>2
      <4>4. QED
        BY <4>1, <4>2, <4>3
    <3>3. QED
      BY <1>2, <3>1, <3>2 DEF InvalidateEnds
<1>3. QED
  BY <1>1, <1>2

LEMMA CacheInvNext == CacheInv /\ [CacheNext]_cacheVars => CacheInv'
<1> SUFFICES ASSUME CacheInv, [CacheNext]_cacheVars
             PROVE  CacheInv'
  OBVIOUS
<1>1. CASE TimePasses \/ UNCHANGED cacheVars
  <2>0. Layers /\ Table /\ Calls /\ Times /\ Undisturbed /\ SingleFlight
    BY DEF CacheInv
  <2>1. /\ hot' = hot /\ derived' = derived /\ inFlight' = inFlight /\ request' = request
        /\ clean' = clean /\ invalidating' = invalidating
        /\ invalidations' = invalidations /\ quiet' = quiet
    BY <1>1 DEF TimePasses, NoInvalidation, cacheVars
  <2>2. time' \in 0 .. MaxTime
    BY <1>1, <2>0, CacheAssumption DEF TimePasses, cacheVars, Times
  <2>3. Times'
    BY <2>0, <2>1, <2>2 DEF Times
  <2>4. Layers' /\ Table'
    BY <2>0, <2>1 DEF Layers, Table, Fit
  <2>5. Calls' /\ Undisturbed' /\ SingleFlight'
    BY <2>0, <2>1 DEF Calls, Undisturbed, SingleFlight, Sound, Carries
  <2>6. QED
    BY <2>3, <2>4, <2>5 DEF CacheInv
<1>2. ASSUME NEW p \in Processes, InvalidateBegins(p) \/ InvalidateEnds(p)
      PROVE  CacheInv'
  BY <1>2, InvalidationKeeps
<1>3. ASSUME NEW q \in CacheRequests, NEW p \in Processes, NEW k \in CacheKeys,
             RequestBegins(q, p, k)
      PROVE  CacheInv'
  BY <1>3, BeginKeeps
<1>4. ASSUME NEW q \in CacheRequests, TableIsRead(q)
      PROVE  CacheInv'
  BY <1>4, ReadKeeps
<1>5. ASSUME NEW q \in CacheRequests, RequestGoesOn(q)
      PROVE  CacheInv'
  BY <1>5, GoesOnKeeps
<1>6. ASSUME NEW q \in CacheRequests, LoadResolves(q)
      PROVE  CacheInv'
  BY <1>6, ResolveKeeps
<1>7. ASSUME NEW q \in CacheRequests, LoadRejects(q) \/ TableIsWritten(q)
      PROVE  CacheInv'
  BY <1>7, LoadOverKeeps
<1>8. QED
  BY <1>1, <1>2, <1>3, <1>4, <1>5, <1>6, <1>7 DEF CacheNext

LEMMA CacheInvariant == CacheSpec => []CacheInv
  BY CacheInvInit, CacheInvNext, PTL DEF CacheSpec

\* A layer never outgrows its limit or holds two entries of one key, and every
\* call, row and entry is of its type.
THEOREM CacheTypeCorrect == CacheSpec => []CacheTypeOK
<1>1. CacheInv => CacheTypeOK
  BY DEF CacheInv, CacheTypeOK, Layers, Table, Calls, Times, Requests, Steps
<1>2. QED
  BY <1>1, CacheInvariant, PTL

\* A process never loads one key twice at a time.
THEOREM LoadsAreSingle == CacheSpec => []SingleFlight
<1>1. CacheInv => SingleFlight
  BY DEF CacheInv
<1>2. QED
  BY <1>1, CacheInvariant, PTL

\* A hit is within the time of its load, and of the time since the last
\* invalidation that surely took effect in its process.
THEOREM HitsStayFresh == CacheSpec => []HitsAreFresh
<1>1. CacheInv => HitsAreFresh
  BY DEF CacheInv, HitsAreFresh, Calls, Sound
<1>2. QED
  BY <1>1, CacheInvariant, PTL

-----------------------------------------------------------------------------
(* All services together *)

\* Each service's invariant; no step of one service touches another.
ServicesInv == PushInv /\ ArtifactInv /\ FileInv /\ CacheInv /\ MemoryInv

LEMMA ServicesBegin == Init => ServicesInv
  BY PushInvInit, ArtifactInvInit, FileInvInit, CacheInvInit, MemoryInvInit
  DEF Init, ServicesInv

LEMMA OneServiceMoves ==
  [Next]_vars => /\ [PushNext]_pushVars
                 /\ [ArtifactNext]_artifactVars
                 /\ [FileNext]_fileVars
                 /\ [CacheNext]_cacheVars
                 /\ [MemoryNext]_memoryVars
<1>1. UNCHANGED vars => /\ UNCHANGED pushVars /\ UNCHANGED artifactVars
                        /\ UNCHANGED fileVars /\ UNCHANGED cacheVars
                        /\ UNCHANGED memoryVars
  BY DEF vars
<1>2. QED
  BY <1>1 DEF Next

LEMMA ServicesStep == ServicesInv /\ [Next]_vars => ServicesInv'
<1>1. PushInv /\ [PushNext]_pushVars => PushInv'
  BY PushInvStep
<1>2. ArtifactInv /\ [ArtifactNext]_artifactVars => ArtifactInv'
  BY ArtifactStep
<1>3. QED
  BY <1>1, <1>2, OneServiceMoves, FileStep, CacheInvNext, MemoryStep DEF ServicesInv

\* The rows, the workspace, the memories, the cache layers and every step of a
\* call under way hold only what the schema and the code allow, whichever service
\* a behaviour is of and whatever its requests, writers, contents and processes.
THEOREM ServicesTypeCorrect == Spec => []ServicesTypeOK
<1>1. CacheInv => CacheTypeOK
  BY DEF CacheInv, CacheTypeOK, Layers, Table, Calls, Times, Requests, Steps
<1>2. ServicesInv => ServicesTypeOK
  BY <1>1 DEF ServicesInv, ServicesTypeOK, PushInv, ArtifactInv, FileInv, MemoryInv
<1>3. QED
  BY ServicesBegin, ServicesStep, <1>2, PTL DEF Spec

\* A behaviour of the services together is a behaviour of each of them, and of
\* the promise that a user is given of a push: every theorem about a service
\* holds of what is checked.
THEOREM ServicesAreThemselves ==
  Spec => PushSpec /\ ArtifactSpec /\ FileSpec /\ CacheSpec /\ MemorySpec /\ PushesReviewed
<1>1. Init => PushInit /\ ArtifactInit /\ FileInit /\ CacheInit /\ MemoryInit
  BY DEF Init
<1>2. Spec => PushSpec /\ ArtifactSpec /\ FileSpec /\ CacheSpec /\ MemorySpec
  BY <1>1, OneServiceMoves, PTL
  DEF Spec, PushSpec, ArtifactSpec, FileSpec, CacheSpec, MemorySpec
<1>3. QED
  BY <1>2, PushesAreReviewed, PTL
=============================================================================
