--------------------------- MODULE ServicesProofs ---------------------------
(***************************************************************************)
(* Proofs about services that share no state: the rate limiter, the        *)
(* offline bundle and the route resolver of the API process, and the       *)
(* reminders of the worker.                                                *)
(***************************************************************************)
EXTENDS RateLimiter, OfflineBundle, RouteResolver, Reminders,
        FiniteSetTheorems, WellFoundedInduction, TLAPS

(***************************************************************************)
(* Proofs about RateLimiter, for any number of clients and any limits that *)
(* keep buckets for at least as long as they take to fill up.              *)
(*                                                                         *)
(* Neither property is inductive by itself.  What a tracked client has     *)
(* spent and what its bucket still holds come from the burst and from the  *)
(* time until the bucket was last touched; a client whose bucket was       *)
(* pruned had been idle for so long that a new, full bucket gives it no    *)
(* more than the old one would hold by now.                                *)
(***************************************************************************)

\* The credit account of one client.
Balanced(c) ==
  IF c \in tracked
    THEN /\ 0 <= level[c] /\ level[c] <= Burst
         /\ last[c] <= clock
         /\ spent[c] + level[c] <= Burst + last[c]
    ELSE spent[c] <= clock

\* A refused client has a bucket until it is let through, and the time it
\* was told is the time its bucket needs.
Promised(c) ==
  told[c] # NotTold /\ c \in tracked => told[c] = last[c] + (Cost - level[c])

LimiterInv == LimiterTypeOK /\ \A c \in Clients : Balanced(c) /\ Promised(c)

LEMMA LimitsAreNatural ==
  /\ Cost \in Nat /\ Cost > 0 /\ Burst \in Nat /\ IdleEvict \in Nat
  /\ Cost <= Burst /\ Burst <= IdleEvict
PROOF BY Limits

\* The level of a bucket, refilled to this moment, is never negative, never
\* above the burst, and no more than what the account allows.
LEMMA LevelIsBacked ==
  ASSUME LimiterInv, NEW c \in Clients
  PROVE  /\ Level(c) \in Nat /\ Level(c) <= Burst
         /\ spent[c] + Level(c) <= Burst + clock
PROOF
<1>1. /\ clock \in Nat /\ level[c] \in Int /\ last[c] \in Nat /\ spent[c] \in Nat
      /\ Balanced(c)
  BY DEF LimiterInv, LimiterTypeOK
<1>2. Burst \in Nat
  BY LimitsAreNatural
<1>3. CASE c \in tracked
  BY <1>1, <1>2, <1>3 DEF Level, Least, Balanced
<1>4. CASE c \notin tracked
  BY <1>1, <1>2, <1>4 DEF Level, Balanced
<1>. QED BY <1>3, <1>4

LEMMA LimiterInitHolds == LimiterInit => LimiterInv
PROOF
<1>. SUFFICES ASSUME LimiterInit PROVE LimiterInv
  OBVIOUS
<1>1. LimiterTypeOK
  BY DEF LimiterInit, LimiterTypeOK, NotTold
<1>2. \A c \in Clients : Balanced(c) /\ Promised(c)
  BY DEF LimiterInit, Balanced, Promised, NotTold
<1>. QED BY <1>1, <1>2 DEF LimiterInv

LEMMA ElapsesPreserves == LimiterInv /\ Elapses => LimiterInv'
PROOF
<1>. SUFFICES ASSUME LimiterInv, Elapses PROVE LimiterInv'
  OBVIOUS
<1>1. LimiterTypeOK'
  BY DEF LimiterInv, LimiterTypeOK, Elapses
<1>2. ASSUME NEW c \in Clients PROVE Balanced(c)' /\ Promised(c)'
  <2>1. /\ clock \in Nat /\ level[c] \in Int /\ last[c] \in Nat /\ spent[c] \in Nat
        /\ Balanced(c) /\ Promised(c)
    BY DEF LimiterInv, LimiterTypeOK
  <2>2. clock' = clock + 1 /\ UNCHANGED <<tracked, level, last, spent, told>>
    BY DEF Elapses
  <2>. QED BY <2>1, <2>2, LimitsAreNatural DEF Balanced, Promised
<1>. QED BY <1>1, <1>2 DEF LimiterInv

LEMMA RefusePreserves == ASSUME NEW c \in Clients PROVE LimiterInv /\ Refuse(c) => LimiterInv'
PROOF
<1>. SUFFICES ASSUME LimiterInv, Refuse(c) PROVE LimiterInv'
  OBVIOUS
<1>0. /\ clock \in Nat /\ Cost \in Nat /\ Burst \in Nat /\ Level(c) \in Nat
      /\ Level(c) <= Burst /\ spent[c] + Level(c) <= Burst + clock
  BY LimitsAreNatural, LevelIsBacked DEF LimiterInv, LimiterTypeOK
<1>1. LimiterTypeOK'
  BY <1>0 DEF LimiterInv, LimiterTypeOK, Refuse, Touch
<1>2. ASSUME NEW k \in Clients PROVE Balanced(k)' /\ Promised(k)'
  <2>1. /\ level[k] \in Int /\ last[k] \in Nat /\ spent[k] \in Nat /\ Balanced(k) /\ Promised(k)
        /\ DOMAIN level = Clients /\ DOMAIN last = Clients /\ DOMAIN told = Clients
    BY DEF LimiterInv, LimiterTypeOK
  <2>2. CASE k = c
    <3>1. /\ c \in tracked' /\ level'[c] = Level(c) /\ last'[c] = clock /\ spent' = spent
          /\ told'[c] = clock + (Cost - Level(c)) /\ clock' = clock
      BY <2>1, <2>2 DEF Refuse, Touch
    <3>. QED BY <1>0, <2>1, <2>2, <3>1 DEF Balanced, Promised
  <2>3. CASE k # c
    <3>1. /\ (k \in tracked') = (k \in tracked) /\ level'[k] = level[k] /\ last'[k] = last[k]
          /\ spent' = spent /\ told'[k] = told[k] /\ clock' = clock
      BY <2>1, <2>3 DEF Refuse, Touch
    <3>. QED BY <2>1, <3>1 DEF Balanced, Promised
  <2>. QED BY <2>2, <2>3
<1>. QED BY <1>1, <1>2 DEF LimiterInv

\* Whoever is pruned had been idle for longer than a bucket takes to fill up.
LEMMA PrunedWereIdle ==
  ASSUME NEW c \in Clients, NEW k \in Clients, Allow(c), k \in tracked \cup {c}, k \notin tracked'
  PROVE  ~(clock - last'[k] <= IdleEvict)
PROOF
<1>1. ~StillFresh(k)
  BY DEF Allow
<1>. QED BY <1>1 DEF StillFresh

LEMMA AllowPreserves == ASSUME NEW c \in Clients PROVE LimiterInv /\ Allow(c) => LimiterInv'
PROOF
<1>. SUFFICES ASSUME LimiterInv, Allow(c) PROVE LimiterInv'
  OBVIOUS
<1>. DEFINE left == Level(c) - Cost
<1>0. /\ clock \in Nat /\ Cost \in Nat /\ Burst \in Nat /\ IdleEvict \in Nat /\ Burst <= IdleEvict
      /\ left \in Nat /\ left <= Burst /\ spent[c] + left + Cost <= Burst + clock
  BY LimitsAreNatural, LevelIsBacked DEF LimiterInv, LimiterTypeOK, Allow
<1>a. /\ level' = [level EXCEPT ![c] = left] /\ last' = [last EXCEPT ![c] = clock]
      /\ spent' = [spent EXCEPT ![c] = @ + Cost] /\ told' = [told EXCEPT ![c] = NotTold]
      /\ clock' = clock /\ tracked' \subseteq tracked \cup {c}
  BY DEF Allow, Touch
<1>. HIDE DEF left
<1>1. LimiterTypeOK'
  <2>1. /\ tracked \subseteq Clients /\ level \in [Clients -> Int] /\ last \in [Clients -> Nat]
        /\ spent \in [Clients -> Nat] /\ told \in [Clients -> Int]
    BY DEF LimiterInv, LimiterTypeOK
  <2>2. tracked' \subseteq Clients /\ clock' \in Nat
    BY <1>0, <1>a, <2>1
  <2>3. level' \in [Clients -> Int] /\ last' \in [Clients -> Nat] /\ spent' \in [Clients -> Nat]
        /\ told' \in [Clients -> Int]
    BY <1>0, <1>a, <2>1 DEF NotTold
  <2>. QED BY <2>2, <2>3 DEF LimiterTypeOK
<1>2. ASSUME NEW k \in Clients PROVE Balanced(k)' /\ Promised(k)'
  <2>1. /\ level[k] \in Int /\ last[k] \in Nat /\ spent[k] \in Nat /\ Balanced(k) /\ Promised(k)
        /\ DOMAIN level = Clients /\ DOMAIN last = Clients /\ DOMAIN told = Clients
        /\ DOMAIN spent = Clients
    BY DEF LimiterInv, LimiterTypeOK
  <2>2. CASE k = c
    <3>1. /\ level'[k] = left /\ last'[k] = clock /\ spent'[k] = spent[c] + Cost
          /\ told'[k] = NotTold
      BY <1>a, <2>1, <2>2
    <3>2. k \in tracked'
      <4>. SUFFICES ASSUME k \notin tracked' PROVE FALSE
        OBVIOUS
      <4>1. ~(clock - last'[k] <= IdleEvict)
        BY <2>2, PrunedWereIdle
      <4>. QED BY <1>0, <3>1, <4>1
    <3>3. spent[c] \in Nat
      BY <2>1, <2>2
    <3>. QED BY <1>0, <1>a, <3>1, <3>2, <3>3 DEF Balanced, Promised
  <2>3. CASE k # c /\ k \in tracked'
    <3>1. /\ k \in tracked /\ level'[k] = level[k] /\ last'[k] = last[k] /\ spent'[k] = spent[k]
          /\ told'[k] = told[k] /\ clock' = clock
      BY <1>a, <2>1, <2>3
    <3>. QED BY <2>1, <2>3, <3>1 DEF Balanced, Promised
  <2>4. CASE k # c /\ k \notin tracked'
    <3>1. last'[k] = last[k] /\ spent'[k] = spent[k] /\ clock' = clock
      BY <1>a, <2>1, <2>4
    <3>2. CASE k \notin tracked
      BY <2>1, <2>4, <3>1, <3>2 DEF Balanced, Promised
    <3>3. CASE k \in tracked
      <4>1. ~(clock - last[k] <= IdleEvict)
        BY <2>4, <3>1, <3>3, PrunedWereIdle
      <4>2. spent[k] <= clock
        BY <1>0, <2>1, <3>3, <4>1 DEF Balanced
      <4>. QED BY <2>4, <3>1, <4>2 DEF Balanced, Promised
    <3>. QED BY <3>2, <3>3
  <2>. QED BY <2>2, <2>3, <2>4
<1>. QED BY <1>1, <1>2 DEF LimiterInv

THEOREM LimiterInvariantHolds == LimiterSpec => []LimiterInv
PROOF
<1>1. LimiterInv /\ [LimiterNext]_limiterVars => LimiterInv'
  <2>. SUFFICES ASSUME LimiterInv, [LimiterNext]_limiterVars PROVE LimiterInv'
    OBVIOUS
  <2>1. CASE Elapses
    BY <2>1, ElapsesPreserves
  <2>2. ASSUME NEW c \in Clients, Refuse(c) PROVE LimiterInv'
    BY <2>2, RefusePreserves
  <2>3. ASSUME NEW c \in Clients, Allow(c) PROVE LimiterInv'
    BY <2>3, AllowPreserves
  <2>4. CASE UNCHANGED limiterVars
    BY <2>4 DEF limiterVars, LimiterInv, LimiterTypeOK, Balanced, Promised
  <2>. QED BY <2>1, <2>2, <2>3, <2>4 DEF LimiterNext
<1>. QED BY <1>1, LimiterInitHolds, PTL DEF LimiterSpec

(***************************************************************************)
(* The buckets keep their types.                                           *)
(***************************************************************************)
THEOREM TypesHold == LimiterSpec => []LimiterTypeOK
PROOF
<1>1. LimiterInv => LimiterTypeOK
  BY DEF LimiterInv
<1>. QED BY <1>1, LimiterInvariantHolds, PTL

(***************************************************************************)
(* No client is let through more often than its burst and the steady rate  *)
(* allow, whoever is pruned.                                               *)
(***************************************************************************)
THEOREM LimitHolds == LimiterSpec => []WithinTheLimit
PROOF
<1>1. LimiterInv => WithinTheLimit
  <2>. SUFFICES ASSUME LimiterInv, NEW c \in Clients PROVE spent[c] <= Burst + clock
    BY DEF WithinTheLimit
  <2>1. /\ Level(c) \in Nat /\ spent[c] + Level(c) <= Burst + clock
        /\ spent[c] \in Nat /\ clock \in Nat /\ Burst \in Nat
    BY LevelIsBacked, LimitsAreNatural DEF LimiterInv, LimiterTypeOK
  <2>. QED BY <2>1
<1>. QED BY <1>1, LimiterInvariantHolds, PTL

(***************************************************************************)
(* A refused client that waits as long as Retry-After says is let through. *)
(***************************************************************************)
THEOREM RetryAfterHolds == LimiterSpec => []RetryAfterIsHonest
PROOF
<1>1. LimiterInv => RetryAfterIsHonest
  <2>. SUFFICES ASSUME LimiterInv, NEW c \in Clients, told[c] # NotTold, clock >= told[c]
                PROVE Level(c) >= Cost
    BY DEF RetryAfterIsHonest
  <2>1. /\ clock \in Nat /\ level[c] \in Int /\ last[c] \in Nat /\ told[c] \in Int
        /\ Balanced(c) /\ Promised(c)
    BY DEF LimiterInv, LimiterTypeOK
  <2>2. Cost \in Nat /\ Burst \in Nat /\ Cost <= Burst
    BY LimitsAreNatural
  <2>3. CASE c \in tracked
    <3>1. told[c] = last[c] + (Cost - level[c])
      BY <2>1, <2>3 DEF Promised
    <3>. QED BY <2>1, <2>2, <2>3, <3>1 DEF Level, Least
  <2>4. CASE c \notin tracked
    BY <2>2, <2>4 DEF Level
  <2>. QED BY <2>3, <2>4
<1>. QED BY <1>1, LimiterInvariantHolds, PTL

-----------------------------------------------------------------------------
(***************************************************************************)
(* Proof that the bundle cached for the current dataset version is that    *)
(* dataset, for any number of versions, requests and loads.                *)
(*                                                                         *)
(* The invariant follows the version a request carries: it has been loaded *)
(* when the request reads it, so a version loaded for the first time is    *)
(* one no request carries and no bundle is stored for; and while a version *)
(* that was loaded once is still current, whatever a request that carries  *)
(* it has read came from it.                                               *)
(***************************************************************************)

Places ==
  {"idle", "versioned", "has meta", "no meta", "build", "stations", "built",
   "stored", "scanning", "scanned"}

RequestType ==
  [pc : Places, version : Versions \cup {None}, found : Contents,
   staleBundles : SUBSET Versions, staleMetas : SUBSET Versions]

Typed ==
  /\ dataset \in Versions \cup {None}
  /\ times \in [Versions -> Nat]
  /\ bundles \in [Versions -> Contents]
  /\ metas \subseteq Versions
  /\ request \in [Requests -> RequestType]

\* v is current and has been loaded once only.
Fresh(v) == v # None /\ v = dataset /\ times[v] = 1

Carries(q) == q.pc # "idle" => q.version \in Versions \ {None} /\ times[q.version] >= 1

Follows(q) ==
  Fresh(q.version) =>
    /\ q.pc \in {"stations", "built"} => q.found.stations = q.version
    /\ q.pc = "built" => q.found.routes = q.version

Stored(v) ==
  /\ bundles[v] # NoBundle => times[v] >= 1
  /\ Fresh(v) => bundles[v] \in {NoBundle, [stations |-> v, routes |-> v]}

BundleInv ==
  /\ Typed
  /\ dataset # None => times[dataset] >= 1
  /\ \A r \in Requests : Carries(request[r]) /\ Follows(request[r])
  /\ \A v \in Versions : Stored(v)

LEMMA InvariantImpliesRight == BundleInv => CurrentBundleIsRight
PROOF
<1>. SUFFICES ASSUME BundleInv, dataset # None, times[dataset] = 1
              PROVE bundles[dataset] \in {NoBundle, [stations |-> dataset, routes |-> dataset]}
  BY DEF CurrentBundleIsRight
<1>1. dataset \in Versions /\ Stored(dataset) /\ Fresh(dataset)
  BY DEF BundleInv, Typed, Fresh
<1>. QED BY <1>1 DEF Stored

LEMMA NoRequestTyped == NoRequest \in RequestType /\ NoBundle \in Contents
PROOF BY DEF NoRequest, NoBundle, RequestType, Contents, Places

LEMMA BundleInitHolds == BundleInit => BundleInv
PROOF
<1>. SUFFICES ASSUME BundleInit PROVE BundleInv
  OBVIOUS
<1>1. Typed
  BY NoRequestTyped DEF BundleInit, Typed
<1>2. ASSUME NEW r \in Requests PROVE Carries(request[r]) /\ Follows(request[r])
  BY DEF BundleInit, Carries, Follows, NoRequest
<1>3. ASSUME NEW v \in Versions PROVE Stored(v)
  BY DEF BundleInit, Stored
<1>. QED BY <1>1, <1>2, <1>3 DEF BundleInv, BundleInit

-----------------------------------------------------------------------------
(* A step that changes only what one request knows.                        *)

LEMMA RequestStepPreserves ==
  ASSUME BundleInv, NEW r \in Requests, NEW q \in RequestType,
         request' = [request EXCEPT ![r] = q],
         metas' \subseteq Versions, UNCHANGED <<dataset, times, bundles>>,
         Carries(q), Follows(q)
  PROVE  BundleInv'
PROOF
<1>1. Typed'
  BY DEF BundleInv, Typed
<1>2. ASSUME NEW k \in Requests PROVE (Carries(request[k]) /\ Follows(request[k]))'
  <2>1. request'[k] = IF k = r THEN q ELSE request[k]
    BY DEF BundleInv, Typed
  <2>2. Carries(request'[k]) /\ Follows(request'[k])
    BY <2>1 DEF BundleInv
  <2>. QED BY <2>2 DEF Carries, Follows, Fresh
<1>3. ASSUME NEW v \in Versions PROVE Stored(v)'
  BY DEF BundleInv, Stored, Fresh
<1>4. (dataset # None => times[dataset] >= 1)'
  BY DEF BundleInv
<1>. QED BY <1>1, <1>2, <1>3, <1>4 DEF BundleInv

LEMMA EndPreserves ==
  ASSUME BundleInv, NEW r \in Requests, Ends(r), metas' \subseteq Versions,
         UNCHANGED <<dataset, times, bundles>>
  PROVE  BundleInv'
PROOF
<1>1. Carries(NoRequest) /\ Follows(NoRequest)
  BY DEF Carries, Follows, NoRequest
<1>. QED BY <1>1, NoRequestTyped, RequestStepPreserves DEF Ends

\* A move that forgets what was read, or has read nothing yet.
LEMMA MovePreserves ==
  ASSUME BundleInv, NEW r \in Requests, NEW pc \in Places, request[r].pc # "idle",
         pc \notin {"stations", "built"}, Moves(r, pc), metas' \subseteq Versions,
         UNCHANGED <<dataset, times, bundles>>
  PROVE  BundleInv'
PROOF
<1>. DEFINE q == [request[r] EXCEPT !.pc = pc]
<1>1. request[r] \in RequestType /\ Carries(request[r])
  BY DEF BundleInv, Typed
<1>2. q \in RequestType /\ q.pc = pc /\ q.version = request[r].version
  BY <1>1 DEF RequestType, Places
<1>3. request' = [request EXCEPT ![r] = q]
  BY DEF Moves
<1>4. Carries(q) /\ Follows(q)
  BY <1>1, <1>2 DEF Carries, Follows
<1>. HIDE DEF q
<1>. QED BY <1>2, <1>3, <1>4, RequestStepPreserves

-----------------------------------------------------------------------------
(* The steps of a request.                                                 *)

LEMMA ReadVersionPreserves == ASSUME NEW r \in Requests PROVE BundleInv /\ ReadVersion(r) => BundleInv'
PROOF
<1>. SUFFICES ASSUME BundleInv, ReadVersion(r) PROVE BundleInv'
  OBVIOUS
<1>. DEFINE q == [request[r] EXCEPT !.pc = "versioned", !.version = dataset]
<1>1. request[r] \in RequestType /\ dataset \in Versions \ {None} /\ metas' \subseteq Versions
  BY DEF BundleInv, Typed, ReadVersion
<1>2. q \in RequestType /\ q.pc = "versioned" /\ q.version = dataset
  BY <1>1 DEF RequestType, Places
<1>3. request' = [request EXCEPT ![r] = q] /\ UNCHANGED <<dataset, times, bundles>>
  BY DEF ReadVersion
<1>4. Carries(q) /\ Follows(q)
  BY <1>1, <1>2 DEF Carries, Follows, BundleInv
<1>. HIDE DEF q
<1>. QED BY <1>1, <1>2, <1>3, <1>4, RequestStepPreserves

LEMMA BuildStationsPreserves == ASSUME NEW r \in Requests PROVE BundleInv /\ BuildStations(r) => BundleInv'
PROOF
<1>. SUFFICES ASSUME BundleInv, BuildStations(r) PROVE BundleInv'
  OBVIOUS
<1>. DEFINE q == [request[r] EXCEPT !.pc = "stations", !.found.stations = dataset]
<1>1. /\ request[r] \in RequestType /\ Carries(request[r]) /\ request[r].pc = "build"
      /\ dataset \in Versions \cup {None} /\ metas' \subseteq Versions
  BY DEF BundleInv, Typed, BuildStations, At
<1>2. /\ q \in RequestType /\ q.pc = "stations" /\ q.version = request[r].version
      /\ q.found.stations = dataset
  BY <1>1 DEF RequestType, Contents, Places
<1>3. request' = [request EXCEPT ![r] = q] /\ UNCHANGED <<dataset, times, bundles>>
  BY DEF BuildStations
<1>4. Carries(q) /\ Follows(q)
  BY <1>1, <1>2 DEF Carries, Follows, Fresh
<1>. HIDE DEF q
<1>. QED BY <1>1, <1>2, <1>3, <1>4, RequestStepPreserves

LEMMA BuildRoutesPreserves == ASSUME NEW r \in Requests PROVE BundleInv /\ BuildRoutes(r) => BundleInv'
PROOF
<1>. SUFFICES ASSUME BundleInv, BuildRoutes(r) PROVE BundleInv'
  OBVIOUS
<1>. DEFINE q == [request[r] EXCEPT !.pc = "built", !.found.routes = dataset]
<1>1. /\ request[r] \in RequestType /\ Carries(request[r]) /\ Follows(request[r])
      /\ request[r].pc = "stations" /\ dataset \in Versions \cup {None} /\ metas' \subseteq Versions
  BY DEF BundleInv, Typed, BuildRoutes, At
<1>2. /\ q \in RequestType /\ q.pc = "built" /\ q.version = request[r].version
      /\ q.found.stations = request[r].found.stations /\ q.found.routes = dataset
  BY <1>1 DEF RequestType, Contents, Places
<1>3. request' = [request EXCEPT ![r] = q] /\ UNCHANGED <<dataset, times, bundles>>
  BY DEF BuildRoutes
<1>4. Carries(q) /\ Follows(q)
  BY <1>1, <1>2 DEF Carries, Follows, Fresh
<1>. HIDE DEF q
<1>. QED BY <1>1, <1>2, <1>3, <1>4, RequestStepPreserves

LEMMA ScansPreserve ==
  ASSUME NEW r \in Requests PROVE BundleInv /\ (ScanBundles(r) \/ ScanMetas(r)) => BundleInv'
PROOF
<1>. SUFFICES ASSUME BundleInv, ScanBundles(r) \/ ScanMetas(r) PROVE BundleInv'
  OBVIOUS
<1>. DEFINE b == [request[r] EXCEPT !.pc = "scanning", !.staleBundles = Bundled \ {request[r].version}]
            m == [request[r] EXCEPT !.pc = "scanned", !.staleMetas = metas \ {request[r].version}]
<1>1. request[r] \in RequestType /\ Carries(request[r]) /\ request[r].pc # "idle"
      /\ metas \subseteq Versions /\ metas' = metas /\ UNCHANGED <<dataset, times, bundles>>
  BY DEF BundleInv, Typed, ScanBundles, ScanMetas, At
<1>2. Bundled \ {request[r].version} \in SUBSET Versions
  BY DEF Bundled
<1>3. /\ b \in RequestType /\ b.pc = "scanning" /\ b.version = request[r].version
      /\ m \in RequestType /\ m.pc = "scanned" /\ m.version = request[r].version
  BY <1>1, <1>2 DEF RequestType, Places
<1>4. Carries(b) /\ Follows(b) /\ Carries(m) /\ Follows(m)
  BY <1>1, <1>3 DEF Carries, Follows
<1>5. CASE ScanBundles(r)
  <2>1. request' = [request EXCEPT ![r] = b]
    BY <1>5 DEF ScanBundles
  <2>. HIDE DEF b, m
  <2>. QED BY <1>1, <1>3, <1>4, <2>1, RequestStepPreserves
<1>6. CASE ScanMetas(r)
  <2>1. request' = [request EXCEPT ![r] = m]
    BY <1>6 DEF ScanMetas
  <2>. HIDE DEF b, m
  <2>. QED BY <1>1, <1>3, <1>4, <2>1, RequestStepPreserves
<1>. QED BY <1>5, <1>6

LEMMA MovesAndEndsPreserve ==
  ASSUME NEW r \in Requests PROVE BundleInv /\ (GetMeta(r) \/ GetBundle(r) \/ Abort(r)) => BundleInv'
PROOF
<1>. SUFFICES ASSUME BundleInv, GetMeta(r) \/ GetBundle(r) \/ Abort(r) PROVE BundleInv'
  OBVIOUS
<1>1. request[r].pc # "idle" /\ metas' \subseteq Versions /\ UNCHANGED <<dataset, times, bundles>>
  BY DEF BundleInv, Typed, GetMeta, GetBundle, Abort, At
<1>2. Moves(r, "has meta") \/ Moves(r, "no meta") \/ Moves(r, "build") \/ Ends(r)
  BY DEF GetMeta, GetBundle, Abort
<1>. QED BY <1>1, <1>2, MovePreserves, EndPreserves DEF Places

LEMMA StorePreserves == ASSUME NEW r \in Requests PROVE BundleInv /\ Store(r) => BundleInv'
PROOF
<1>. SUFFICES ASSUME BundleInv, Store(r) PROVE BundleInv'
  OBVIOUS
<1>. DEFINE q == request[r]
            v == q.version
<1>1. q \in RequestType /\ Carries(q) /\ Follows(q) /\ q.pc = "built"
  BY DEF BundleInv, Typed, Store, At
<1>2. v \in Versions /\ v # None /\ times[v] >= 1 /\ q.found \in Contents
  BY <1>1 DEF Carries, RequestType
<1>3. Fresh(v) => q.found = [stations |-> v, routes |-> v]
  BY <1>1, <1>2 DEF Follows, Contents
<1>4. bundles' = [bundles EXCEPT ![v] = q.found] /\ Moves(r, "stored")
      /\ metas' = metas \cup {v} /\ UNCHANGED <<dataset, times>>
  BY DEF Store
<1>5. Typed'
  <2>1. [q EXCEPT !.pc = "stored"] \in RequestType
    BY <1>1 DEF RequestType, Places
  <2>2. request' = [request EXCEPT ![r] = [q EXCEPT !.pc = "stored"]]
    BY <1>4 DEF Moves
  <2>. QED BY <1>2, <1>4, <2>1, <2>2 DEF BundleInv, Typed
<1>6. ASSUME NEW k \in Requests PROVE (Carries(request[k]) /\ Follows(request[k]))'
  <2>1. request' = [request EXCEPT ![r] = [q EXCEPT !.pc = "stored"]]
    BY <1>4 DEF Moves
  <2>2. request'[k] = IF k = r THEN [q EXCEPT !.pc = "stored"] ELSE request[k]
    BY <2>1 DEF BundleInv, Typed
  <2>3. [q EXCEPT !.pc = "stored"].pc = "stored" /\ [q EXCEPT !.pc = "stored"].version = v
    BY <1>1 DEF RequestType, Places
  <2>4. Carries(request'[k]) /\ Follows(request'[k])
    BY <1>2, <2>2, <2>3 DEF BundleInv, Carries, Follows
  <2>. QED BY <1>4, <2>4 DEF Carries, Follows, Fresh
<1>7. ASSUME NEW w \in Versions PROVE Stored(w)'
  <2>1. bundles'[w] = IF w = v THEN q.found ELSE bundles[w]
    BY <1>4 DEF BundleInv, Typed
  <2>2. Stored(w)
    BY DEF BundleInv
  <2>. QED BY <1>2, <1>3, <1>4, <2>1, <2>2 DEF Stored, Fresh
<1>8. (dataset # None => times[dataset] >= 1)'
  BY <1>4 DEF BundleInv
<1>. QED BY <1>5, <1>6, <1>7, <1>8 DEF BundleInv

LEMMA EvictPreserves == ASSUME NEW r \in Requests PROVE BundleInv /\ Evict(r) => BundleInv'
PROOF
<1>. SUFFICES ASSUME BundleInv, Evict(r) PROVE BundleInv'
  OBVIOUS
<1>1. /\ bundles' = [v \in Versions |-> IF v \in request[r].staleBundles THEN NoBundle ELSE bundles[v]]
      /\ metas' = metas \ request[r].staleMetas
      /\ request' = [request EXCEPT ![r] = NoRequest] /\ UNCHANGED <<dataset, times>>
  BY DEF Evict, Ends
<1>2. Typed'
  BY <1>1, NoRequestTyped DEF BundleInv, Typed
<1>3. ASSUME NEW k \in Requests PROVE (Carries(request[k]) /\ Follows(request[k]))'
  <2>1. request'[k] = IF k = r THEN NoRequest ELSE request[k]
    BY <1>1 DEF BundleInv, Typed
  <2>2. Carries(request'[k]) /\ Follows(request'[k])
    BY <2>1 DEF BundleInv, Carries, Follows, NoRequest
  <2>. QED BY <1>1, <2>2 DEF Carries, Follows, Fresh
<1>4. ASSUME NEW v \in Versions PROVE Stored(v)'
  BY <1>1 DEF BundleInv, Stored, Fresh
<1>5. (dataset # None => times[dataset] >= 1)'
  BY <1>1 DEF BundleInv
<1>. QED BY <1>2, <1>3, <1>4, <1>5 DEF BundleInv

\* The version that is loaded counts once more: if that makes it fresh, no
\* request carries it and nothing is stored for it.
LEMMA LoadPreserves == ASSUME NEW u \in Versions PROVE BundleInv /\ Load(u) => BundleInv'
PROOF
<1>. SUFFICES ASSUME BundleInv, Load(u) PROVE BundleInv'
  OBVIOUS
<1>1. /\ times' = [times EXCEPT ![u] = @ + 1] /\ dataset' = u /\ u # dataset
      /\ UNCHANGED <<bundles, metas, request>>
  BY DEF Load
<1>2. times \in [Versions -> Nat]
  BY DEF BundleInv, Typed
<1>3. Typed'
  BY <1>1, <1>2 DEF BundleInv, Typed
<1>4. \A v \in Versions : times'[v] \in Nat /\ times'[v] >= times[v] /\ (Fresh(v)' => times[v] = 0)
  BY <1>1, <1>2 DEF Fresh
<1>5. ASSUME NEW k \in Requests PROVE (Carries(request[k]) /\ Follows(request[k]))'
  <2>1. /\ request[k] \in RequestType /\ Carries(request[k])
    BY DEF BundleInv, Typed
  <2>2. CASE request[k].pc = "idle"
    BY <1>1, <2>2 DEF Carries, Follows
  <2>3. CASE request[k].pc # "idle"
    <3>1. request[k].version \in Versions \ {None} /\ times[request[k].version] >= 1
      BY <2>1, <2>3 DEF Carries
    <3>2. ~Fresh(request[k].version)'
      BY <1>1, <1>2, <1>4, <3>1
    <3>3. times'[request[k].version] >= 1
      BY <1>2, <1>4, <3>1
    <3>. QED BY <1>1, <3>1, <3>2, <3>3 DEF Carries, Follows
  <2>. QED BY <2>2, <2>3
<1>6. ASSUME NEW v \in Versions PROVE Stored(v)'
  BY <1>1, <1>2, <1>4 DEF BundleInv, Stored
<1>7. (dataset # None => times[dataset] >= 1)'
  BY <1>1, <1>2
<1>. QED BY <1>3, <1>5, <1>6, <1>7 DEF BundleInv

-----------------------------------------------------------------------------
THEOREM BundleInvariantHolds == BundleSpec => []BundleInv
PROOF
<1>1. BundleInv /\ [BundleNext]_bundleVars => BundleInv'
  <2>. SUFFICES ASSUME BundleInv, [BundleNext]_bundleVars PROVE BundleInv'
    OBVIOUS
  <2>1. ASSUME NEW v \in Versions, Load(v) PROVE BundleInv'
    BY <2>1, LoadPreserves
  <2>2. ASSUME NEW r \in Requests, Handles(r) PROVE BundleInv'
    BY <2>2, ReadVersionPreserves, MovesAndEndsPreserve, BuildStationsPreserves,
       BuildRoutesPreserves, StorePreserves, ScansPreserve, EvictPreserves DEF Handles
  <2>3. CASE UNCHANGED bundleVars
    BY <2>3 DEF bundleVars, BundleInv, Typed, Carries, Follows, Stored, Fresh
  <2>. QED BY <2>1, <2>2, <2>3 DEF BundleNext
<1>. QED BY <1>1, BundleInitHolds, PTL DEF BundleSpec

(***************************************************************************)
(* What a client can download for the current version is that dataset,     *)
(* unless the very same archive had been loaded before.                    *)
(***************************************************************************)
THEOREM BundleIsRight == BundleSpec => []CurrentBundleIsRight
PROOF BY BundleInvariantHolds, InvariantImpliesRight, PTL

-----------------------------------------------------------------------------
(***************************************************************************)
(* Proof that the callers of the route resolver share one build, for any   *)
(* number of callers, builds and static loads.                             *)
(*                                                                         *)
(* The count of the builds is not inductive by itself: a caller starts one *)
(* more whenever it finds neither a context nor a task.  It can only do so *)
(* before the first build or after a failure was told, and then one build  *)
(* fewer has been started than the failures allow.                         *)
(***************************************************************************)

\* What a caller finds who has to start a build.
NothingToShare == inflight = NoBuild /\ tripCache = Absent

ResultsAreAnswers == \A b \in Builds : build[b].state = "done" => build[b].result \in Answers

ResolverInv ==
  /\ ResolverTypeOK
  /\ ResultsAreAnswers
  /\ Cardinality(Started) <= 1 + pops
  /\ NothingToShare => Cardinality(Started) <= pops

\* The builds are finitely many, and so are those started.
LEMMA StartedIsFinite == IsFiniteSet(Builds) /\ IsFiniteSet(Started) /\ Cardinality(Started) \in Nat
PROOF
<1>1. IsFiniteSet(Builds)
  BY ResolverBounds, FS_Interval DEF Builds
<1>2. IsFiniteSet(Started)
  BY <1>1, FS_Subset DEF Started
<1>. QED BY <1>1, <1>2, FS_CardinalityType

\* Answers, the absence of one and the bounds are different numbers.
LEMMA AbsentIsNoAnswer ==
  /\ Absent \notin Answers /\ Datasets = Answers /\ Missing \in Answers
  /\ NoBuild \notin Builds /\ 1 \in Answers /\ 1 \in 1..MaxReloads
PROOF BY ResolverBounds DEF Absent, Answers, Datasets, Missing, NoBuild, Builds

LEMMA ResolverInitHolds == ResolverInit => ResolverInv
PROOF
<1>. SUFFICES ASSUME ResolverInit PROVE ResolverInv
  OBVIOUS
<1>1. ResolverTypeOK
  BY AbsentIsNoAnswer DEF ResolverInit, ResolverTypeOK
<1>2. ResultsAreAnswers
  BY DEF ResolverInit, ResultsAreAnswers
<1>3. Started = {}
  BY DEF ResolverInit, Started, Unused
<1>4. Cardinality(Started) = 0
  BY <1>3, FS_EmptySet
<1>5. pops = 0
  BY DEF ResolverInit
<1>. QED BY <1>1, <1>2, <1>4, <1>5 DEF ResolverInv

\* A static load leaves the resolver as it is.
LEMMA ReloadPreserves == ResolverInv /\ Reload => ResolverInv'
PROOF
<1>. SUFFICES ASSUME ResolverInv, Reload PROVE ResolverInv'
  OBVIOUS
<1>1. /\ UNCHANGED <<tripCache, inflight, build, caller, pops, routeCache, routeCall>>
      /\ reloads < MaxReloads /\ reloads' = reloads + 1 /\ static' \in {Missing, reloads'}
  BY DEF Reload, tripVars, routeVars
<1>2. ResolverTypeOK'
  <2>1. static' \in Datasets /\ reloads' \in 1..MaxReloads
    BY <1>1, ResolverBounds DEF ResolverInv, ResolverTypeOK, Datasets, Missing
  <2>. QED BY <1>1, <2>1 DEF ResolverInv, ResolverTypeOK
<1>3. Started' = Started
  BY <1>1 DEF Started, Unused
<1>. QED BY <1>1, <1>2, <1>3 DEF ResolverInv, ResultsAreAnswers, NothingToShare

\* Who finds nothing starts one build, the first unused one.
LEMMA CallPreserves == ASSUME NEW c \in Callers PROVE ResolverInv /\ Call(c) => ResolverInv'
PROOF
<1>. SUFFICES ASSUME ResolverInv, Call(c) PROVE ResolverInv'
  OBVIOUS
<1>. USE DEF ResolverInv
<1>1. /\ UNCHANGED <<static, reloads, tripCache, pops, routeCache, routeCall>>
      /\ tripCache = Absent
  BY DEF Call, routeVars
<1>2. CASE inflight # NoBuild
  <2>1. caller' = [caller EXCEPT ![c] = inflight] /\ UNCHANGED <<inflight, build>>
    BY <1>2 DEF Call
  <2>2. ResolverTypeOK'
    BY <1>1, <2>1 DEF ResolverTypeOK
  <2>3. Started' = Started
    BY <2>1 DEF Started, Unused
  <2>. QED BY <1>1, <1>2, <2>1, <2>2, <2>3 DEF ResultsAreAnswers, NothingToShare
<1>3. CASE inflight = NoBuild
  <2>1. PICK b \in Unused : /\ build' = [build EXCEPT ![b].state = "running"]
                            /\ inflight' = b
                            /\ caller' = [caller EXCEPT ![c] = b]
    BY <1>3 DEF Call
  <2>2. b \in Builds /\ build[b].state = "unused"
    BY <2>1 DEF Unused
  <2>3. ResolverTypeOK'
    BY <1>1, <2>1, <2>2 DEF ResolverTypeOK
  <2>4. Started' = Started \cup {b}
    BY <2>1, <2>2 DEF Started, Unused, ResolverTypeOK
  <2>5. /\ Cardinality(Started \cup {b}) \in Nat
        /\ Cardinality(Started \cup {b}) <= Cardinality(Started) + 1
    <3>1. Cardinality(Started \cup {b}) = IF b \in Started THEN Cardinality(Started) ELSE Cardinality(Started) + 1
      BY StartedIsFinite, FS_AddElement
    <3>. QED BY <3>1, StartedIsFinite
  <2>6. Cardinality(Started) <= pops /\ pops' = pops /\ pops \in Nat
    BY <1>1, <1>3 DEF NothingToShare, ResolverTypeOK
  <2>7. Cardinality(Started)' = Cardinality(Started \cup {b})
    BY <2>4
  <2>8. Cardinality(Started)' <= 1 + pops'
    BY <2>5, <2>6, <2>7, StartedIsFinite
  <2>9. ~NothingToShare'
    BY <2>1, <2>2, AbsentIsNoAnswer DEF NothingToShare
  <2>10. ResultsAreAnswers'
    BY <2>1, <2>2 DEF ResultsAreAnswers, ResolverTypeOK
  <2>. QED BY <2>3, <2>8, <2>9, <2>10
<1>. QED BY <1>2, <1>3

\* A build that ends stays started, and what it found is an answer.
LEMMA BuildEndsPreserves == ASSUME NEW b \in Builds PROVE ResolverInv /\ BuildEnds(b) => ResolverInv'
PROOF
<1>. SUFFICES ASSUME ResolverInv, BuildEnds(b) PROVE ResolverInv'
  OBVIOUS
<1>. USE DEF ResolverInv
<1>1. /\ UNCHANGED <<static, reloads, tripCache, inflight, caller, pops, routeCache, routeCall>>
      /\ build[b].state = "running" /\ static \in Answers
  BY AbsentIsNoAnswer DEF BuildEnds, routeVars, ResolverTypeOK
<1>2. /\ ResolverTypeOK' /\ ResultsAreAnswers'
      /\ Started' = Started
  <2>1. CASE build' = [build EXCEPT ![b] = [state |-> "done", result |-> static]]
    BY <1>1, <2>1 DEF ResolverTypeOK, ResultsAreAnswers, Started, Unused
  <2>2. CASE build' = [build EXCEPT ![b].state = "failed"]
    BY <1>1, <2>2 DEF ResolverTypeOK, ResultsAreAnswers, Started, Unused
  <2>. QED BY <2>1, <2>2 DEF BuildEnds
<1>. QED BY <1>1, <1>2 DEF NothingToShare

\* A caller that comes back with a context leaves it in the cache; one that
\* was told of a failure makes room for one build; a cancelled one does
\* neither.
LEMMA ReturnsPreserve ==
  ASSUME NEW c \in Callers PROVE ResolverInv /\ (Resume(c) \/ Raise(c) \/ Cancel(c)) => ResolverInv'
PROOF
<1>. SUFFICES ASSUME ResolverInv, Resume(c) \/ Raise(c) \/ Cancel(c) PROVE ResolverInv'
  OBVIOUS
<1>. USE DEF ResolverInv
<1>1. /\ UNCHANGED <<static, reloads, build, routeCache, routeCall>>
      /\ caller' = [caller EXCEPT ![c] = NoBuild]
  BY DEF Resume, Raise, Cancel, Back, routeVars
<1>2. Started' = Started /\ ResultsAreAnswers'
  BY <1>1 DEF Started, Unused, ResultsAreAnswers
<1>3. Cardinality(Started)' = Cardinality(Started) /\ Cardinality(Started) \in Nat /\ pops \in Nat
  BY <1>2, StartedIsFinite DEF ResolverTypeOK
<1>4. CASE Resume(c)
  <2>1. tripCache' \in Answers /\ inflight' = NoBuild /\ pops' = pops
    BY <1>4, AbsentIsNoAnswer DEF Resume, ResultsAreAnswers, ResolverTypeOK
  <2>2. ResolverTypeOK'
    BY <1>1, <2>1 DEF ResolverTypeOK
  <2>. QED BY <1>2, <1>3, <2>1, <2>2, AbsentIsNoAnswer DEF NothingToShare
<1>5. CASE Raise(c)
  <2>1. inflight' = NoBuild /\ pops' = pops + 1 /\ tripCache' = tripCache
    BY <1>5 DEF Raise
  <2>2. ResolverTypeOK'
    BY <1>1, <1>3, <2>1 DEF ResolverTypeOK
  <2>. QED BY <1>2, <1>3, <2>1, <2>2
<1>6. CASE Cancel(c)
  <2>1. UNCHANGED <<tripCache, inflight, pops>>
    BY <1>6 DEF Cancel
  <2>2. ResolverTypeOK'
    BY <1>1, <2>1 DEF ResolverTypeOK
  <2>. QED BY <1>2, <1>3, <2>1, <2>2 DEF NothingToShare
<1>. QED BY <1>4, <1>5, <1>6

\* resolve_route has a cache of its own.
LEMMA RoutesPreserve == ResolverInv /\ RouteNext => ResolverInv'
PROOF
<1>. SUFFICES ASSUME ResolverInv, NEW c \in Callers, RouteMiss(c) \/ RouteRead(c) \/ RouteStore(c)
              PROVE ResolverInv'
  BY DEF RouteNext
<1>. USE DEF ResolverInv
<1>1. UNCHANGED <<static, reloads, tripCache, inflight, build, caller, pops>>
  BY DEF RouteMiss, RouteRead, RouteStore, tripVars
<1>2. /\ routeCache' \in Answers \cup {Absent}
      /\ routeCall' \in [Callers -> [pc : {"idle", "missed", "read"}, row : Answers \cup {Absent}]]
  BY AbsentIsNoAnswer DEF RouteMiss, RouteRead, RouteStore, ResolverTypeOK
<1>3. ResolverTypeOK'
  BY <1>1, <1>2 DEF ResolverTypeOK
<1>4. Started' = Started
  BY <1>1 DEF Started, Unused
<1>. QED BY <1>1, <1>3, <1>4 DEF ResultsAreAnswers, NothingToShare

THEOREM ResolverInvariantHolds == ResolverSpec => []ResolverInv
PROOF
<1>1. ResolverInv /\ [ResolverNext]_resolverVars => ResolverInv'
  <2>. SUFFICES ASSUME ResolverInv, [ResolverNext]_resolverVars PROVE ResolverInv'
    OBVIOUS
  <2>1. CASE Reload
    BY <2>1, ReloadPreserves
  <2>2. CASE TripNext
    BY <2>2, CallPreserves, BuildEndsPreserves, ReturnsPreserve DEF TripNext
  <2>3. CASE RouteNext
    BY <2>3, RoutesPreserve
  <2>4. CASE UNCHANGED resolverVars
    BY <2>4 DEF resolverVars, ResolverInv, ResolverTypeOK, ResultsAreAnswers, NothingToShare, Started, Unused
  <2>. QED BY <2>1, <2>2, <2>3, <2>4 DEF ResolverNext
<1>. QED BY <1>1, ResolverInitHolds, PTL DEF ResolverSpec

(***************************************************************************)
(* Concurrent misses for one trip share one build: the context is built    *)
(* once in the life of the process, and once more at most for each caller  *)
(* that was told of a failed build - however many callers come, are        *)
(* cancelled or come back late, and whatever static loads run meanwhile.   *)
(***************************************************************************)
THEOREM BuildsAreShared == ResolverSpec => []BuiltOnceUnlessFailed
PROOF
<1>1. ResolverInv => BuiltOnceUnlessFailed
  BY DEF ResolverInv, BuiltOnceUnlessFailed
<1>. QED BY <1>1, ResolverInvariantHolds, PTL

-----------------------------------------------------------------------------
(***************************************************************************)
(* Proof that a reminder fires once, for any timetables and any number of  *)
(* reminders and failures.                                                 *)
(*                                                                         *)
(* For a leave-home row the invariant follows its mark through the         *)
(* transaction: what was pushed and is not marked for good is open in the  *)
(* cycle under way, which pays for the push if it is rolled back.          *)
(*                                                                         *)
(* For a last train there is one mark for all service dates.  The moments  *)
(* at which a date is due have no gaps, and, where the windows of two      *)
(* dates do not meet, none in common; so when another date takes the mark, *)
(* the moments of the date that had it are over.                           *)
(***************************************************************************)

\* A finite set of integers has a greatest member: a least counterexample,
\* by cardinality, would have a part that has one.
LEMMA FiniteHasMax ==
  ASSUME NEW S \in SUBSET Int, IsFiniteSet(S), S # {}
  PROVE  Max(S) \in S /\ \A y \in S : y <= Max(S)
PROOF
<1>. DEFINE HasMax(Q) == \E x \in Q : \A y \in Q : y <= x
            Wrong == {n \in Nat : \E Q \in SUBSET Int : IsFiniteSet(Q) /\ Q # {} /\ Cardinality(Q) = n /\ ~HasMax(Q)}
<1>1. Wrong = {}
  <2>. SUFFICES ASSUME Wrong # {} PROVE FALSE
    OBVIOUS
  <2>1. PICK n \in Wrong : \A m \in Wrong : ~ (<<m, n>> \in OpToRel(<, Nat))
    BY NatLessThanWellFounded, WFMin
  <2>2. PICK Q \in SUBSET Int : IsFiniteSet(Q) /\ Q # {} /\ Cardinality(Q) = n /\ ~HasMax(Q)
    BY <2>1
  <2>3. PICK x \in Q : TRUE
    BY <2>2
  <2>4. Q \ {x} \in SUBSET Int /\ IsFiniteSet(Q \ {x}) /\ Cardinality(Q \ {x}) = n - 1
    BY <2>2, <2>3, FS_RemoveElement
  <2>5. HasMax(Q \ {x})
    <3>1. Q \ {x} # {}
      BY <2>2, <2>3
    <3>2. n - 1 \in Nat
      BY <2>4, FS_CardinalityType
    <3>3. <<n - 1, n>> \in OpToRel(<, Nat)
      BY <2>2, <3>2, FS_CardinalityType DEF OpToRel
    <3>4. n - 1 \notin Wrong
      BY <2>1, <3>3
    <3>. QED BY <2>4, <3>1, <3>2, <3>4
  <2>6. PICK z \in Q \ {x} : \A y \in Q \ {x} : y <= z
    BY <2>5
  <2>7. HasMax(Q)
    <3>1. CASE x <= z
      BY <2>3, <2>6, <3>1
    <3>2. CASE ~(x <= z)
      <4>1. \A y \in Q : y <= x
        BY <2>2, <2>3, <2>6, <3>2
      <4>. QED BY <2>3, <4>1
    <3>. QED BY <3>1, <3>2
  <2>. QED BY <2>2, <2>7
<1>2. HasMax(S)
  <2>1. Cardinality(S) \in Nat /\ Cardinality(S) \notin Wrong
    BY <1>1, FS_CardinalityType
  <2>. QED BY <2>1
<1>. HIDE DEF HasMax
<1>3. \E x \in S : \A y \in S : x >= y
  BY <1>2 DEF HasMax
<1>4. Max(S) \in S /\ \A y \in S : Max(S) >= y
  BY <1>3 DEF Max
<1>. QED BY <1>4

\* A last departure is a moment, or there is none.
LEMMA DepartureIsMoment ==
  ASSUME TimetablesAreFinite, timetable \in Timetables, NEW d \in Int
  PROVE  LastDeparture(timetable, d) \in Int
PROOF
<1>. DEFINE leaving == {x.departs : x \in timetable.trips}
<1>1. IsFiniteSet(leaving) /\ leaving \subseteq Nat
  BY DEF TimetablesAreFinite
<1>2. Departures(timetable, d) \subseteq leaving
  BY DEF Departures
<1>3. IsFiniteSet(Departures(timetable, d)) /\ Departures(timetable, d) \subseteq Int
  BY <1>1, <1>2, FS_Subset
<1>4. CASE Departures(timetable, d) = {}
  BY <1>4 DEF LastDeparture, Never
<1>5. CASE Departures(timetable, d) # {}
  <2>1. Max(Departures(timetable, d)) \in Int
    BY <1>3, <1>5, FiniteHasMax
  <2>. QED BY <1>5, <2>1, DayLengths DEF LastDeparture, Moment
<1>. QED BY <1>4, <1>5

\* The day and the time of day of a moment.
LEMMA DayOfMoment ==
  ASSUME NEW t \in Nat
  PROVE  /\ t \div DayLength \in Nat /\ t % DayLength \in 0..(DayLength - 1)
         /\ t = (t \div DayLength) * DayLength + (t % DayLength)
PROOF
<1>1. t \div DayLength \in Nat
  BY DayLengths
<1>2. t % DayLength \in 0..(DayLength - 1)
  BY DayLengths
<1>3. t = (t \div DayLength) * DayLength + (t % DayLength)
  BY DayLengths
<1>. QED BY <1>1, <1>2, <1>3

LEMMA DaysGrow ==
  ASSUME NEW s \in Nat, NEW t \in Nat, s <= t
  PROVE  /\ s \div DayLength <= t \div DayLength
         /\ s \div DayLength = t \div DayLength => s % DayLength <= t % DayLength
PROOF
<1>. DEFINE p == s \div DayLength
            q == t \div DayLength
<1>1. /\ p \in Nat /\ q \in Nat /\ DayLength \in Nat \ {0}
      /\ s % DayLength \in 0..(DayLength - 1) /\ t % DayLength \in 0..(DayLength - 1)
      /\ s = p * DayLength + (s % DayLength) /\ t = q * DayLength + (t % DayLength)
  BY DayOfMoment, DayLengths
<1>. HIDE DEF p, q
<1>2. p <= q
  <2>. SUFFICES ASSUME q + 1 <= p PROVE FALSE
    BY <1>1
  <2>1. (q + 1) * DayLength <= p * DayLength
    BY <1>1
  <2>2. (q + 1) * DayLength = q * DayLength + DayLength
    BY <1>1
  <2>. QED BY <1>1, <2>1, <2>2
<1>3. p = q => s % DayLength <= t % DayLength
  BY <1>1
<1>. QED BY <1>2, <1>3 DEF p, q

\* The moments at which the job would remind of the last train of date d.
Window(d) == {t \in 0..LastMoment : d \in Candidates(t) /\ InWindow(d, t)}

LEMMA LastMomentIsNatural == LastMoment \in Nat
PROOF BY DayLengths DEF LastMoment

LEMMA CandidateDays ==
  ASSUME ReminderBounds, NEW t \in 0..LastMoment
  PROVE  /\ Candidates(t) \subseteq {t \div DayLength, (t \div DayLength) - 1}
         /\ Candidates(t) \subseteq Days \cup {Never}
         /\ t \div DayLength \in Days
PROOF
<1>1. t \in Nat /\ t <= LastMoment /\ LastMoment \in Nat
  BY LastMomentIsNatural
<1>2. t \div DayLength \in Nat
  BY <1>1, DayOfMoment
<1>3. t \div DayLength <= LastMoment \div DayLength
  BY <1>1, DaysGrow
<1>4. LastMoment \div DayLength = LastDay
  BY DayLengths DEF LastMoment
<1>. QED BY <1>2, <1>3, <1>4, DayLengths DEF Candidates, Days, Never

\* The moments of a date have no gaps.
LEMMA WindowHasNoGap ==
  ASSUME TimetablesAreFinite, timetable \in Timetables, ReminderBounds,
         NEW d \in Days, NEW s \in Window(d), NEW u \in Window(d), NEW t \in Nat, s <= t, t <= u
  PROVE  t \in Window(d)
PROOF
<1>1. /\ s \in Nat /\ u \in Nat /\ u <= LastMoment /\ LastMoment \in Nat
      /\ d \in Candidates(s) /\ InWindow(d, s) /\ d \in Candidates(u) /\ InWindow(d, u)
  BY LastMomentIsNatural DEF Window
<1>2. t \in 0..LastMoment
  BY <1>1
<1>3. /\ s \div DayLength \in Nat /\ t \div DayLength \in Nat /\ u \div DayLength \in Nat /\ d \in Nat
      /\ t % DayLength \in Nat /\ u % DayLength \in Nat /\ EarlyHours \in Nat
  BY <1>1, DayOfMoment, DayLengths DEF ReminderBounds, Days
<1>4. /\ s \div DayLength <= t \div DayLength /\ t \div DayLength <= u \div DayLength
      /\ t \div DayLength = u \div DayLength => t % DayLength <= u % DayLength
  BY <1>1, DaysGrow
<1>5. /\ d = s \div DayLength \/ d = (s \div DayLength) - 1
      /\ d = u \div DayLength \/ (d = (u \div DayLength) - 1 /\ u % DayLength < EarlyHours)
  BY <1>1 DEF Candidates
<1>6. d = t \div DayLength \/ (d = (t \div DayLength) - 1 /\ t % DayLength < EarlyHours)
  BY <1>3, <1>4, <1>5
<1>7. d \in Candidates(t)
  BY <1>6 DEF Candidates
<1>8. InWindow(d, t)
  <2>1. LastDeparture(timetable, d) \in Int /\ Lead \in Nat
    BY DepartureIsMoment DEF Days, ReminderBounds
  <2>. QED BY <1>1, <2>1 DEF InWindow
<1>. QED BY <1>2, <1>7, <1>8 DEF Window

\* Where the windows of d and its neighbours do not meet, its moments are its own.
LEMMA WindowIsItsOwn ==
  ASSUME ReminderBounds, NEW d \in Days, NEW e \in Days, d # e, ~WindowsMeet(d), NEW t \in Window(d)
  PROVE  t \notin Window(e)
PROOF
<1>. SUFFICES ASSUME t \in Window(e) PROVE FALSE
  OBVIOUS
<1>1. t \in 0..LastMoment /\ InWindow(d, t) /\ InWindow(e, t) /\ {d, e} \subseteq Candidates(t)
  BY DEF Window
<1>2. e \in {d - 1, d + 1}
  BY <1>1, CandidateDays DEF Days
<1>. QED BY <1>1, <1>2 DEF WindowsMeet

\* The date that is due is a service date, in its window and not the one
\* notified last.
LEMMA DueDateFacts ==
  ASSUME ReminderBounds, NEW t \in 0..LastMoment
  PROVE  /\ DueDate(t) \in Days \cup {Never}
         /\ DueDate(t) # Never => t \in Window(DueDate(t)) /\ DueDate(t) # lastTrain.notified
PROOF
<1>. DEFINE dates == {d \in Candidates(t) : d # lastTrain.notified /\ InWindow(d, t)}
<1>1. CASE lastTrain.status # "enabled" \/ dates = {}
  BY <1>1 DEF DueDate
<1>2. CASE ~(lastTrain.status # "enabled" \/ dates = {})
  <2>1. dates \subseteq Days \cup {Never} /\ dates # {}
    BY <1>2, CandidateDays
  <2>2. dates \subseteq {t \div DayLength, (t \div DayLength) - 1} /\ t \div DayLength \in Int
    BY CandidateDays DEF Days
  <2>3. \E x \in dates : \A y \in dates : x >= y
    <3>1. CASE t \div DayLength \in dates
      BY <2>2, <3>1
    <3>2. CASE t \div DayLength \notin dates
      BY <2>1, <2>2, <3>2
    <3>. QED BY <3>1, <3>2
  <2>4. Max(dates) \in dates
    BY <2>3 DEF Max
  <2>5. DueDate(t) = Max(dates)
    BY <1>2 DEF DueDate
  <2>6. DueDate(t) \in dates
    BY <2>4, <2>5
  <2>. QED BY <2>1, <2>6 DEF Window
<1>. QED BY <1>1, <1>2

CycleType ==
  [pc : {"idle", "leave", "last"}, now : 0..LastMoment \cup {Never},
   due : SUBSET Rows, dirty : SUBSET Rows, locked : SUBSET (Rows \cup {LastRow}),
   date : Days \cup {Never}, pushed : BOOLEAN]

ReminderTyped == ReminderTypeOK /\ cycle \in CycleType

\* The rows the cycle has marked: flushed or not, not yet for good.
Open == cycle.dirty \cup cycle.locked

CycleOK ==
  /\ Open # {} => cycle.pushed
  /\ cycle.pc # "leave" => cycle.due = {} /\ cycle.dirty = {}
  /\ cycle.pc = "idle" => cycle.locked = {}
  /\ cycle.pc # "idle" => cycle.now # Never
  /\ cycle.pc # "last" => LastRow \notin cycle.locked /\ cycle.date = Never
  /\ cycle.date # Never => cycle.now \in Window(cycle.date)
  /\ LastRow \in cycle.locked => cycle.date # Never

\* A row that may still fire has no more pushes than cycles rolled back.
RowOK(r) ==
  /\ pushes[r] <= 1 + rollbacks
  /\ leave[r].status \in {"none", "pending"} /\ r \notin Open => pushes[r] <= rollbacks
  /\ r \in cycle.due => r \notin Open /\ pushes[r] <= rollbacks

\* The push for d that is not committed.
OpenPush(d) == IF LastRow \in cycle.locked /\ cycle.date = d THEN 1 ELSE 0

\* A push for d beyond those rolled back has left its mark, or the moments
\* of d are over; the mark is d only when one of them has come.
DayOK(d) ==
  /\ pushes[d] <= 1 + rollbacks
  /\ pushes[d] <= rollbacks + OpenPush(d) \/ lastTrain.notified = d \/ \A t \in Window(d) : t < cycle.now
  /\ cycle.date = d => pushes[d] <= rollbacks + OpenPush(d)
  /\ lastTrain.notified = d => \E t \in Window(d) : t <= cycle.now

ReminderInv ==
  /\ ReminderTyped /\ CycleOK
  /\ \A r \in Rows : RowOK(r)
  /\ \A d \in Days : WindowsMeet(d) \/ DayOK(d)

\* The windows depend on the timetable alone.
LEMMA WindowsStay ==
  ASSUME timetable' = timetable
  PROVE  /\ \A d : Window(d)' = Window(d)
         /\ \A d : WindowsMeet(d)' <=> WindowsMeet(d)
         /\ \A t : Candidates(t)' = Candidates(t)
PROOF
<1>1. \A t : Candidates(t)' = Candidates(t)
  BY DEF Candidates
<1>2. \A d, t : InWindow(d, t)' <=> InWindow(d, t)
  BY DEF InWindow, LastDeparture, Departures, ActiveServices, Moment
<1>3. LastMoment' = LastMoment /\ Days' = Days
  BY DEF LastMoment, Days
<1>. QED BY <1>1, <1>2, <1>3 DEF Window, WindowsMeet

\* What the rider does, and the time, leaves the cycle and the pushes alone.
LEMMA CycleStays ==
  ASSUME ReminderInv, UNCHANGED <<timetable, cycle, pushes, rollbacks>>,
         lastTrain'.notified = lastTrain.notified
  PROVE  CycleOK' /\ \A d \in Days : WindowsMeet(d)' \/ DayOK(d)'
PROOF
<1>1. CycleOK'
  BY WindowsStay DEF ReminderInv, CycleOK, Open
<1>2. \A d \in Days : DayOK(d) => DayOK(d)'
  BY WindowsStay DEF DayOK, OpenPush
<1>. QED BY <1>1, <1>2, WindowsStay DEF ReminderInv

LEMMA ReminderInitHolds == ReminderBounds /\ ReminderInit => ReminderInv
PROOF
<1>. SUFFICES ASSUME ReminderBounds, ReminderInit PROVE ReminderInv
  OBVIOUS
<1>1. ReminderTyped
  <2>1. cycle \in CycleType
    BY DEF ReminderInit, CycleType, NoCycle
  <2>2. ReminderTypeOK
    BY LastMomentIsNatural DEF ReminderInit, ReminderTypeOK, ReminderBounds, NoCycle
  <2>. QED BY <2>1, <2>2 DEF ReminderTyped
<1>2. CycleOK
  BY DEF ReminderInit, NoCycle, CycleOK, Open
<1>3. \A r \in Rows : RowOK(r)
  BY DEF ReminderInit, NoCycle, RowOK, Open
<1>4. \A d \in Days : DayOK(d)
  BY DEF ReminderInit, NoCycle, DayOK, OpenPush, Days, Never
<1>. QED BY <1>1, <1>2, <1>3, <1>4 DEF ReminderInv

LEMMA RiderPreserves ==
  ASSUME ReminderBounds, ReminderInv,
         \/ Tick \/ CreateLast \/ DeleteLast
         \/ \E r \in Rows : CreateLeave(r) \/ DeleteLeave(r)
  PROVE  ReminderInv'
PROOF
<1>1. UNCHANGED <<timetable, cycle, pushes, rollbacks, failures>>
  BY DEF Tick, CreateLast, DeleteLast, CreateLeave, DeleteLeave
<1>2. lastTrain \in [status : {"none", "enabled", "deleted"}, notified : Days \cup {Never}]
  BY DEF ReminderInv, ReminderTyped, ReminderTypeOK
<1>3. /\ lastTrain' \in [status : {"none", "enabled", "deleted"}, notified : Days \cup {Never}]
      /\ lastTrain'.notified = lastTrain.notified
  BY <1>2 DEF Tick, CreateLast, DeleteLast, CreateLeave, DeleteLeave
<1>4. now' \in 0..LastMoment
  BY LastMomentIsNatural DEF Tick, CreateLast, DeleteLast, CreateLeave, DeleteLeave, ReminderInv, ReminderTyped, ReminderTypeOK
<1>5. leave \in [Rows -> [status : {"none", "pending", "sent", "deleted"}, at : 0..(LastMoment + MaxAhead)]]
  BY DEF ReminderInv, ReminderTyped, ReminderTypeOK
<1>6. /\ leave' \in [Rows -> [status : {"none", "pending", "sent", "deleted"}, at : 0..(LastMoment + MaxAhead)]]
      /\ \A r \in Rows : leave'[r].status \in {"none", "pending"} => leave[r].status \in {"none", "pending"}
  <2>1. CASE UNCHANGED leave
    BY <1>5, <2>1
  <2>2. ASSUME NEW r \in Rows, CreateLeave(r) PROVE <1>6!1 /\ <1>6!2
    <3>1. PICK at \in (now + 1)..(now + MaxAhead) : leave' = [leave EXCEPT ![r] = [status |-> "pending", at |-> at]]
      BY <2>2 DEF CreateLeave
    <3>2. at \in 0..(LastMoment + MaxAhead)
      BY LastMomentIsNatural DEF ReminderBounds, ReminderInv, ReminderTyped, ReminderTypeOK
    <3>3. leave[r].status = "none"
      BY <2>2 DEF CreateLeave
    <3>. QED BY <1>5, <3>1, <3>2, <3>3
  <2>3. ASSUME NEW r \in Rows, DeleteLeave(r) PROVE <1>6!1 /\ <1>6!2
    BY <1>5, <2>3 DEF DeleteLeave
  <2>. QED BY <2>1, <2>2, <2>3 DEF Tick, CreateLast, DeleteLast
<1>7. ReminderTyped'
  BY <1>1, <1>3, <1>4, <1>6 DEF ReminderInv, ReminderTyped, ReminderTypeOK, CycleType
<1>8. \A r \in Rows : RowOK(r)'
  BY <1>1, <1>6 DEF ReminderInv, RowOK, Open
<1>. QED BY <1>1, <1>3, <1>7, <1>8, CycleStays DEF ReminderInv

\* A cycle that is rolled back pays for what it pushed.
LEMMA RollbackPreserves ==
  ASSUME ReminderInv, RollsBack, failures' \in 0..MaxFailures,
         UNCHANGED <<timetable, now, leave, lastTrain, pushes>>
  PROVE  ReminderInv'
PROOF
<1>. USE DEF ReminderInv
<1>1. cycle \in CycleType /\ ReminderTypeOK
  BY DEF ReminderTyped
<1>2. /\ cycle' \in CycleType /\ cycle'.pc = "idle" /\ cycle'.now = cycle.now
      /\ cycle'.due = {} /\ cycle'.dirty = {} /\ cycle'.locked = {} /\ cycle'.date = Never
  BY <1>1 DEF RollsBack, Over, NoCycle, CycleType
<1>3. /\ rollbacks' = rollbacks + (IF cycle.pushed THEN 1 ELSE 0) /\ rollbacks \in Nat
      /\ pushes \in [Rows \cup Days -> Nat]
  BY <1>1 DEF RollsBack, ReminderTypeOK
<1>4. ReminderTyped'
  BY <1>1, <1>2, <1>3 DEF ReminderTyped, ReminderTypeOK, CycleType
<1>5. CycleOK'
  BY <1>2 DEF CycleOK, Open
<1>6. \A r \in Rows : RowOK(r)'
  <2>. SUFFICES ASSUME NEW r \in Rows PROVE RowOK(r)'
    OBVIOUS
  <2>1. pushes[r] \in Nat /\ pushes[r] <= 1 + rollbacks
    BY <1>3 DEF RowOK
  <2>2. CASE r \in Open
    BY <1>2, <1>3, <2>1, <2>2 DEF CycleOK, RowOK, Open
  <2>3. CASE r \notin Open
    BY <1>2, <1>3, <2>1, <2>3 DEF RowOK, Open
  <2>. QED BY <2>2, <2>3
<1>7. \A d \in Days : DayOK(d) => DayOK(d)'
  <2>. SUFFICES ASSUME NEW d \in Days, DayOK(d) PROVE DayOK(d)'
    OBVIOUS
  <2>1. pushes[d] \in Nat /\ d # Never
    BY <1>3 DEF Days, Never
  <2>2. rollbacks + OpenPush(d) <= rollbacks' /\ rollbacks' \in Nat /\ rollbacks <= rollbacks'
    BY <1>1, <1>3 DEF OpenPush, CycleOK, Open, CycleType
  <2>3. OpenPush(d)' = 0 /\ Window(d)' = Window(d)
    BY <1>2, WindowsStay DEF OpenPush
  <2>4. OpenPush(d) \in {0, 1}
    BY DEF OpenPush
  <2>. QED BY <1>2, <1>3, <2>1, <2>2, <2>3, <2>4 DEF DayOK
<1>8. \A d \in Days : WindowsMeet(d)' \/ DayOK(d)'
  BY <1>7, WindowsStay
<1>. QED BY <1>4, <1>5, <1>6, <1>8

LEMMA BeginPreserves == ReminderInv /\ Begin => ReminderInv'
PROOF
<1>. SUFFICES ASSUME ReminderInv, Begin PROVE ReminderInv'
  OBVIOUS
<1>. USE DEF ReminderInv
<1>1. UNCHANGED <<timetable, now, leave, lastTrain, pushes, rollbacks, failures>>
  BY DEF Begin
<1>2. /\ cycle'.pc = "leave" /\ cycle'.now = now /\ cycle'.dirty = {} /\ cycle'.locked = {} /\ cycle'.date = Never
      /\ cycle'.due = {r \in Rows : leave[r].status = "pending" /\ leave[r].at <= now}
      /\ cycle' \in CycleType
  BY DEF Begin, NoCycle, CycleType, ReminderTyped, ReminderTypeOK
<1>3. cycle.pc = "idle" /\ Open = {} /\ cycle.now < now /\ cycle.date = Never /\ cycle.now \in Int /\ now \in Int
  BY DEF Begin, CycleOK, Open, ReminderTyped, ReminderTypeOK, CycleType, Never
<1>4. now # Never
  BY LastMomentIsNatural DEF ReminderTyped, ReminderTypeOK, Never
<1>5. ReminderTyped'
  BY <1>1, <1>2 DEF ReminderTyped, ReminderTypeOK, CycleType
<1>6. CycleOK'
  BY <1>2, <1>4 DEF CycleOK, Open
<1>7. \A r \in Rows : RowOK(r)'
  BY <1>1, <1>2, <1>3 DEF RowOK, Open
<1>8. \A d \in Days : DayOK(d) => DayOK(d)'
  <2>. SUFFICES ASSUME NEW d \in Days, DayOK(d) PROVE DayOK(d)'
    OBVIOUS
  <2>1. d # Never /\ \A t \in Window(d) : t \in Int
    BY DEF Window, Days, Never
  <2>2. OpenPush(d)' = 0 /\ OpenPush(d) = 0 /\ Window(d)' = Window(d)
    BY <1>1, <1>2, <1>3, <2>1, WindowsStay DEF OpenPush
  <2>. QED BY <1>1, <1>2, <1>3, <2>1, <2>2 DEF DayOK
<1>. QED BY <1>1, <1>5, <1>6, <1>7, <1>8, WindowsStay

LEMMA NotifyLeavePreserves ==
  ASSUME ReminderBounds, NEW r \in Rows, ReminderInv, NotifyLeave(r)
  PROVE  ReminderInv'
PROOF
<1>. USE DEF ReminderInv
<1>1. UNCHANGED <<timetable, now, leave, lastTrain, failures>> /\ cycle.pc = "leave" /\ r \in cycle.due
  BY DEF NotifyLeave
<1>2. CASE \E x \in cycle.dirty : Gone(x)
  BY <1>1, <1>2, RollbackPreserves DEF NotifyLeave, ReminderTyped, ReminderTypeOK
<1>3. CASE ~\E x \in cycle.dirty : Gone(x)
  <2>1. /\ pushes' = [pushes EXCEPT ![r] = @ + 1] /\ rollbacks' = rollbacks
        /\ cycle' = [cycle EXCEPT !.due = @ \ {r}, !.locked = @ \cup cycle.dirty, !.dirty = {r}, !.pushed = TRUE]
    BY <1>3 DEF NotifyLeave
  <2>2. cycle \in CycleType /\ pushes \in [Rows \cup Days -> Nat] /\ rollbacks \in Nat
    BY DEF ReminderTyped, ReminderTypeOK
  <2>3. /\ cycle' \in CycleType /\ cycle'.pc = "leave" /\ cycle'.now = cycle.now /\ cycle'.date = cycle.date
        /\ cycle'.due = cycle.due \ {r} /\ cycle'.locked = cycle.locked \cup cycle.dirty
        /\ cycle'.dirty = {r} /\ cycle'.pushed = TRUE
    BY <1>1, <2>1, <2>2 DEF CycleType
  <2>4. ReminderTyped'
    BY <1>1, <2>1, <2>2, <2>3 DEF ReminderTyped, ReminderTypeOK, CycleType
  <2>5. LastRow \notin cycle.locked /\ LastRow \notin cycle'.locked /\ cycle.date = Never
    BY <1>1, <2>2, <2>3 DEF CycleOK, CycleType, ReminderBounds
  <2>6. CycleOK'
    BY <1>1, <2>3, <2>5 DEF CycleOK, Open
  <2>7. Open' = Open \cup {r}
    BY <2>3 DEF Open
  <2>8. \A q \in Rows : RowOK(q)'
    <3>. SUFFICES ASSUME NEW q \in Rows PROVE RowOK(q)'
      OBVIOUS
    <3>1. CASE q = r
      <4>1. pushes[r] <= rollbacks /\ pushes'[r] = pushes[r] + 1 /\ pushes[r] \in Nat
        BY <1>1, <2>1, <2>2 DEF RowOK
      <4>. QED BY <2>1, <2>2, <2>3, <2>7, <3>1, <4>1 DEF RowOK
    <3>2. CASE q # r
      <4>1. pushes'[q] = pushes[q]
        BY <2>1, <2>2, <3>2
      <4>. QED BY <1>1, <2>1, <2>3, <2>7, <3>2, <4>1 DEF RowOK
    <3>. QED BY <3>1, <3>2
  <2>9. \A d \in Days : DayOK(d) => DayOK(d)'
    <3>. SUFFICES ASSUME NEW d \in Days, DayOK(d) PROVE DayOK(d)'
      OBVIOUS
    <3>1. d # r /\ pushes'[d] = pushes[d]
      BY <2>1, <2>2 DEF ReminderBounds
    <3>2. OpenPush(d)' = OpenPush(d) /\ Window(d)' = Window(d)
      BY <1>1, <2>5, WindowsStay DEF OpenPush
    <3>. QED BY <1>1, <2>1, <2>3, <3>1, <3>2 DEF DayOK
  <2>. QED BY <1>1, <2>4, <2>6, <2>8, <2>9, WindowsStay
<1>. QED BY <1>2, <1>3

LEMMA ReadLastPreserves ==
  ASSUME ReminderBounds, ReminderInv, ReadLast
  PROVE  ReminderInv'
PROOF
<1>. USE DEF ReminderInv
<1>1. UNCHANGED <<timetable, now, leave, lastTrain, pushes, failures>> /\ cycle.pc = "leave" /\ cycle.due = {}
  BY DEF ReadLast
<1>2. CASE \E x \in cycle.dirty : Gone(x)
  BY <1>1, <1>2, RollbackPreserves DEF ReadLast, ReminderTyped, ReminderTypeOK
<1>3. CASE ~\E x \in cycle.dirty : Gone(x)
  <2>1. /\ rollbacks' = rollbacks
        /\ cycle' = [cycle EXCEPT !.pc = "last", !.locked = @ \cup cycle.dirty, !.dirty = {},
                                  !.date = DueDate(cycle.now)]
    BY <1>3 DEF ReadLast
  <2>2. cycle \in CycleType /\ pushes \in [Rows \cup Days -> Nat] /\ rollbacks \in Nat
    BY DEF ReminderTyped, ReminderTypeOK
  <2>3. cycle.now \in 0..LastMoment
    BY <1>1, <2>2 DEF CycleOK, CycleType
  <2>4. DueDate(cycle.now) \in Days \cup {Never}
    BY <2>3, DueDateFacts
  <2>5. /\ cycle' \in CycleType /\ cycle'.pc = "last" /\ cycle'.now = cycle.now /\ cycle'.date = DueDate(cycle.now)
        /\ cycle'.due = {} /\ cycle'.locked = Open /\ cycle'.dirty = {} /\ cycle'.pushed = cycle.pushed
    BY <1>1, <2>1, <2>2, <2>4 DEF CycleType, Open
  <2>6. ReminderTyped'
    BY <1>1, <2>1, <2>2, <2>5 DEF ReminderTyped, ReminderTypeOK, CycleType
  <2>7. LastRow \notin cycle.locked /\ LastRow \notin cycle'.locked /\ cycle.date = Never
    BY <1>1, <2>2, <2>5 DEF CycleOK, CycleType, ReminderBounds, Open
  <2>8. Open' = Open
    BY <2>5 DEF Open
  <2>9. CycleOK'
    BY <1>1, <2>3, <2>5, <2>7, <2>8, DueDateFacts, WindowsStay DEF CycleOK
  <2>10. \A r \in Rows : RowOK(r)'
    BY <1>1, <2>1, <2>5, <2>8 DEF RowOK
  <2>11. \A d \in Days : DayOK(d) => DayOK(d)'
    <3>. SUFFICES ASSUME NEW d \in Days, DayOK(d) PROVE DayOK(d)'
      OBVIOUS
    <3>1. OpenPush(d)' = 0 /\ OpenPush(d) = 0 /\ Window(d)' = Window(d)
      BY <1>1, <2>7, WindowsStay DEF OpenPush
    <3>2. DueDate(cycle.now) = d => pushes[d] <= rollbacks
      <4>. SUFFICES ASSUME DueDate(cycle.now) = d PROVE pushes[d] <= rollbacks
        OBVIOUS
      <4>1. cycle.now \in Window(d) /\ lastTrain.notified # d
        BY <2>3, DueDateFacts DEF Days, Never
      <4>2. ~(cycle.now < cycle.now)
        BY <2>3
      <4>3. pushes[d] <= rollbacks + OpenPush(d)
        BY <4>1, <4>2 DEF DayOK
      <4>. QED BY <2>2, <3>1, <4>3
    <3>3. pushes[d] <= rollbacks + 0 <=> pushes[d] <= rollbacks
      BY <2>2
    <3>. QED BY <1>1, <2>1, <2>5, <3>1, <3>2, <3>3 DEF DayOK
  <2>. QED BY <1>1, <2>6, <2>9, <2>10, <2>11, WindowsStay
<1>. QED BY <1>2, <1>3

LEMMA NotifyLastPreserves ==
  ASSUME ReminderBounds, ReminderInv, NotifyLast
  PROVE  ReminderInv'
PROOF
<1>. USE DEF ReminderInv
<1>1. /\ UNCHANGED <<timetable, now, leave, lastTrain, failures>>
      /\ cycle.pc = "last" /\ cycle.date # Never /\ LastRow \notin cycle.locked
  BY DEF NotifyLast
<1>2. CASE Gone(LastRow)
  BY <1>1, <1>2, RollbackPreserves DEF NotifyLast, ReminderTyped, ReminderTypeOK
<1>3. CASE ~Gone(LastRow)
  <2>1. /\ pushes' = [pushes EXCEPT ![cycle.date] = @ + 1] /\ rollbacks' = rollbacks
        /\ cycle' = [cycle EXCEPT !.locked = @ \cup {LastRow}, !.pushed = TRUE]
    BY <1>3 DEF NotifyLast
  <2>2. cycle \in CycleType /\ pushes \in [Rows \cup Days -> Nat] /\ rollbacks \in Nat
    BY DEF ReminderTyped, ReminderTypeOK
  <2>3. cycle.date \in Days
    BY <1>1, <2>2 DEF CycleType
  <2>4. /\ cycle' \in CycleType /\ cycle'.pc = cycle.pc /\ cycle'.now = cycle.now /\ cycle'.date = cycle.date
        /\ cycle'.due = cycle.due /\ cycle'.locked = cycle.locked \cup {LastRow}
        /\ cycle'.dirty = cycle.dirty /\ cycle'.pushed = TRUE
    BY <2>1, <2>2 DEF CycleType
  <2>5. ReminderTyped'
    BY <1>1, <2>1, <2>2, <2>3, <2>4 DEF ReminderTyped, ReminderTypeOK, CycleType
  <2>6. CycleOK'
    BY <1>1, <2>4, WindowsStay DEF CycleOK
  <2>7. \A r \in Rows : RowOK(r)'
    <3>. SUFFICES ASSUME NEW r \in Rows PROVE RowOK(r)'
      OBVIOUS
    <3>1. r # cycle.date /\ r # LastRow /\ pushes'[r] = pushes[r]
      BY <2>1, <2>2, <2>3 DEF ReminderBounds
    <3>2. r \in Open' <=> r \in Open
      BY <2>4, <3>1 DEF Open
    <3>. QED BY <1>1, <2>1, <2>4, <3>1, <3>2 DEF RowOK
  <2>8. \A d \in Days : DayOK(d) => DayOK(d)'
    <3>. SUFFICES ASSUME NEW d \in Days, DayOK(d) PROVE DayOK(d)'
      OBVIOUS
    <3>1. Window(d)' = Window(d) /\ OpenPush(d) = 0
      BY <1>1, WindowsStay DEF OpenPush
    <3>2. pushes[d] \in Nat /\ pushes'[d] \in Nat /\ rollbacks' \in Nat
      BY <2>1, <2>2
    <3>3. CASE d = cycle.date
      <4>1. pushes'[d] = pushes[d] + 1 /\ pushes[d] <= rollbacks /\ OpenPush(d)' = 1
        BY <2>1, <2>2, <2>4, <3>1, <3>3 DEF DayOK, OpenPush
      <4>. QED BY <1>1, <2>1, <2>2, <2>4, <3>1, <3>2, <4>1 DEF DayOK
    <3>4. CASE d # cycle.date
      <4>1. pushes'[d] = pushes[d] /\ OpenPush(d)' = 0
        BY <2>1, <2>2, <2>4, <3>4 DEF OpenPush
      <4>. QED BY <1>1, <2>1, <2>4, <3>1, <3>4, <4>1 DEF DayOK
    <3>. QED BY <3>3, <3>4
  <2>. QED BY <1>1, <2>5, <2>6, <2>7, <2>8, WindowsStay
<1>. QED BY <1>2, <1>3

\* The mark of the date that had it may go: its moments are over.
LEMMA CommitPreserves ==
  ASSUME TimetablesAreFinite, ReminderBounds, ReminderInv, Commit
  PROVE  ReminderInv'
PROOF
<1>. USE DEF ReminderInv
<1>1. /\ UNCHANGED <<timetable, now, pushes, rollbacks, failures>>
      /\ cycle.pc = "last" /\ (cycle.date = Never \/ LastRow \in cycle.locked)
      /\ leave' = [r \in Rows |-> IF r \in cycle.locked THEN [leave[r] EXCEPT !.status = "sent"] ELSE leave[r]]
      /\ lastTrain' = IF LastRow \in cycle.locked THEN [lastTrain EXCEPT !.notified = cycle.date] ELSE lastTrain
  BY DEF Commit
<1>2. /\ cycle \in CycleType /\ pushes \in [Rows \cup Days -> Nat] /\ rollbacks \in Nat
      /\ leave \in [Rows -> [status : {"none", "pending", "sent", "deleted"}, at : 0..(LastMoment + MaxAhead)]]
      /\ lastTrain \in [status : {"none", "enabled", "deleted"}, notified : Days \cup {Never}]
      /\ timetable \in Timetables
  BY DEF ReminderTyped, ReminderTypeOK
<1>3. /\ cycle' \in CycleType /\ cycle'.pc = "idle" /\ cycle'.now = cycle.now
      /\ cycle'.due = {} /\ cycle'.dirty = {} /\ cycle'.locked = {} /\ cycle'.date = Never
  BY <1>2 DEF Commit, Over, NoCycle, CycleType
<1>4. /\ lastTrain' \in [status : {"none", "enabled", "deleted"}, notified : Days \cup {Never}]
      /\ lastTrain'.notified = IF LastRow \in cycle.locked THEN cycle.date ELSE lastTrain.notified
  BY <1>1, <1>2 DEF CycleType
<1>5. ReminderTyped'
  <2>1. leave' \in [Rows -> [status : {"none", "pending", "sent", "deleted"}, at : 0..(LastMoment + MaxAhead)]]
    BY <1>1, <1>2
  <2>. QED BY <1>1, <1>2, <1>3, <1>4, <2>1 DEF ReminderTyped, ReminderTypeOK, CycleType
<1>6. CycleOK'
  BY <1>3 DEF CycleOK, Open
<1>7. \A r \in Rows : RowOK(r)'
  <2>. SUFFICES ASSUME NEW r \in Rows PROVE RowOK(r)'
    OBVIOUS
  <2>1. cycle.dirty = {}
    BY <1>1 DEF Commit, CycleOK
  <2>2. CASE r \in cycle.locked
    <3>1. leave'[r].status = "sent"
      BY <1>1, <1>2, <2>2
    <3>. QED BY <1>1, <1>3, <3>1 DEF RowOK
  <2>3. CASE r \notin cycle.locked
    <3>1. leave'[r] = leave[r]
      BY <1>1, <2>3
    <3>. QED BY <1>1, <1>3, <2>1, <2>3, <3>1 DEF RowOK, Open
  <2>. QED BY <2>2, <2>3
<1>8. \A d \in Days : ~WindowsMeet(d) /\ DayOK(d) => DayOK(d)'
  <2>. SUFFICES ASSUME NEW d \in Days, ~WindowsMeet(d), DayOK(d) PROVE DayOK(d)'
    OBVIOUS
  <2>1. /\ Window(d)' = Window(d) /\ OpenPush(d)' = 0
        /\ d # Never /\ pushes' = pushes /\ rollbacks' = rollbacks
        /\ cycle'.now = cycle.now /\ cycle'.date = Never
    BY <1>1, <1>3, WindowsStay DEF OpenPush, Days, Never
  <2>2. CASE LastRow \notin cycle.locked
    <3>1. lastTrain'.notified = lastTrain.notified /\ OpenPush(d) = 0
      BY <1>4, <2>2 DEF OpenPush
    <3>. QED BY <2>1, <3>1 DEF DayOK
  <2>3. CASE LastRow \in cycle.locked
    <3>1. cycle.date \in Days /\ cycle.now \in Window(cycle.date) /\ lastTrain'.notified = cycle.date
      BY <1>2, <1>4, <2>3 DEF CycleOK, CycleType
    <3>2. cycle.now \in Nat /\ \A t \in Window(d) : t \in Nat
      BY <3>1 DEF Window
    <3>3. CASE cycle.date = d
      <4>1. \E t \in Window(d) : t <= cycle.now
        BY <3>1, <3>2, <3>3
      <4>. QED BY <2>1, <3>1, <3>3, <4>1 DEF DayOK
    <3>4. CASE cycle.date # d
      <4>1. OpenPush(d) = 0
        BY <3>4 DEF OpenPush
      <4>2. cycle.now \notin Window(d)
        BY <3>1, <3>4, WindowIsItsOwn
      <4>3. lastTrain.notified = d => \A t \in Window(d) : t < cycle.now
        <5>. SUFFICES ASSUME lastTrain.notified = d, NEW t \in Window(d), cycle.now <= t PROVE FALSE
          BY <3>2
        <5>1. PICK s \in Window(d) : s <= cycle.now
          BY DEF DayOK
        <5>2. cycle.now \in Window(d)
          BY <1>2, <3>2, <5>1, WindowHasNoGap
        <5>. QED BY <4>2, <5>2
      <4>. QED BY <2>1, <3>1, <3>4, <4>1, <4>3 DEF DayOK
    <3>. QED BY <3>3, <3>4
  <2>. QED BY <2>2, <2>3
<1>. QED BY <1>1, <1>5, <1>6, <1>7, <1>8, WindowsStay

THEOREM ReminderInvariantHolds ==
  ASSUME TimetablesAreFinite, ReminderBounds
  PROVE  ReminderSpec => []ReminderInv
PROOF
<1>1. ReminderInit => ReminderInv
  BY ReminderInitHolds
<1>2. ReminderInv /\ [ReminderNext]_reminderVars => ReminderInv'
  <2>. SUFFICES ASSUME ReminderInv, [ReminderNext]_reminderVars PROVE ReminderInv'
    OBVIOUS
  <2>1. CASE Fail
    BY <2>1, RollbackPreserves DEF Fail, ReminderInv, ReminderTyped, ReminderTypeOK, ReminderBounds
  <2>2. CASE UNCHANGED reminderVars
    <3>1. UNCHANGED <<timetable, now, leave, lastTrain, cycle, pushes, rollbacks, failures>>
      BY <2>2 DEF reminderVars
    <3>2. ReminderTyped'
      BY <3>1 DEF ReminderInv, ReminderTyped, ReminderTypeOK, CycleType
    <3>3. \A r \in Rows : RowOK(r)'
      BY <3>1 DEF ReminderInv, RowOK, Open
    <3>. QED BY <3>1, <3>2, <3>3, CycleStays DEF ReminderInv
  <2>. QED BY <2>1, <2>2, RiderPreserves, BeginPreserves, NotifyLeavePreserves, ReadLastPreserves,
              NotifyLastPreserves, CommitPreserves DEF ReminderNext
<1>. QED BY <1>1, <1>2, PTL DEF ReminderSpec

\* The job's state keeps its type for any timetables, rows and failures.
THEOREM RemindersKeepTypes ==
  ASSUME TimetablesAreFinite, ReminderBounds
  PROVE  ReminderSpec => []ReminderTypeOK
PROOF
<1>1. ReminderInv => ReminderTypeOK
  BY DEF ReminderInv, ReminderTyped
<1>. QED BY <1>1, ReminderInvariantHolds, PTL

(***************************************************************************)
(* A leave-home reminder is pushed once, and a last-train reminder once    *)
(* per service date unless the windows of two dates meet, save once more   *)
(* for each cycle that pushed and was rolled back: whatever riders delete  *)
(* under a cycle, and however the timetable runs past midnight.            *)
(***************************************************************************)
THEOREM RemindersFireOnce ==
  ASSUME TimetablesAreFinite, ReminderBounds
  PROVE  ReminderSpec => []RemindedOnce
PROOF
<1>1. ReminderInv => RemindedOnce
  BY DEF ReminderInv, RowOK, DayOK, RemindedOnce
<1>. QED BY <1>1, ReminderInvariantHolds, PTL

-----------------------------------------------------------------------------
(***************************************************************************)
(* The next train and the trains with a position.  A departure that counts *)
(* leaves by the end of tomorrow and its service day has not ended, so it  *)
(* is of yesterday's, today's or tomorrow's service.                       *)
(***************************************************************************)
LEMMA DaysApart ==
  ASSUME NEW c \in Int, NEW d \in Int, c < d
  PROVE  c * DayLength + DayLength <= d * DayLength
<1>1. DayLength \in Nat /\ d - c - 1 \in Nat
  BY DayLengths
<1>2. (d - c - 1) * DayLength >= 0
  BY <1>1
<1>3. (d - c - 1) * DayLength = d * DayLength - (c * DayLength + DayLength)
  BY <1>1
<1>. QED BY <1>1, <1>2, <1>3

LEMMA NaturalMin ==
  ASSUME NEW S \in SUBSET Nat, S # {}
  PROVE  Min(S) \in S /\ \A y \in S : Min(S) <= y
<1>1. PICK m \in S : \A k \in S : ~ (<<k, m>> \in OpToRel(<, Nat))
  BY NatLessThanWellFounded, WFMin
<1>2. \A k \in S : m <= k
  <2>. TAKE k \in S
  <2>1. k \in Nat /\ m \in Nat /\ ~ (k < m)
    BY <1>1 DEF OpToRel
  <2>. QED BY <2>1
<1>. QED BY <1>1, <1>2 DEF Min

LEMMA ServedDays ==
  ASSUME TimetablesFit, TimetablesAreFinite, timetable \in Timetables, NEW d \in Int
  PROVE  /\ Departures(timetable, d) \subseteq 0..(2 * DayLength - 1)
         /\ Departures(timetable, d) # {} => d \in Days
<1>1. ASSUME NEW x \in timetable.trips PROVE x.departs \in 0..(2 * DayLength - 1)
  <2>1. x.departs \in Nat
    BY DEF TimetablesAreFinite
  <2>2. x.departs < 2 * DayLength
    BY DEF TimetablesFit
  <2>. QED BY <2>1, <2>2, DayLengths
<1>2. ASSUME NEW service \in ActiveServices(timetable, d) PROVE d \in Days
  <2>1. CASE \E c \in timetable.calendar : c.from <= d /\ d <= c.to
    BY <2>1, DayLengths DEF TimetablesFit, Days
  <2>2. CASE \E e \in timetable.exceptions : e.date = d
    BY <2>2 DEF TimetablesFit
  <2>. QED BY <1>2, <2>1, <2>2 DEF ActiveServices
<1>. QED BY <1>1, <1>2 DEF Departures

\* What the service finds on one date is the first departure from a moment on.
FoundOn(d, t) == FirstDepartureAfter(timetable, d, Max({t - Moment(d, 0), 0}))
LeftOn(d, t) == {x \in Departures(timetable, d) : Moment(d, x) >= t}

LEMMA FirstIsFirst ==
  ASSUME TimetablesFit, TimetablesAreFinite, timetable \in Timetables, NEW d \in Int, NEW t \in Nat
  PROVE  /\ \A m \in FoundOn(d, t) : /\ \E x \in LeftOn(d, t) : m = Moment(d, x)
                                    /\ \A x \in LeftOn(d, t) : m <= Moment(d, x)
         /\ LeftOn(d, t) # {} => FoundOn(d, t) # {}
<1>. DEFINE start == d * DayLength
            offset == Max({t - Moment(d, 0), 0})
            S == {x \in Departures(timetable, d) : x >= offset}
            left == {x \in Departures(timetable, d) : Moment(d, x) >= t}
            found == FirstDepartureAfter(timetable, d, offset)
<1>1. start \in Int /\ \A x \in Int : Moment(d, x) = start + x
  BY DayLengths DEF Moment
<1>2. offset = IF t - start >= 0 THEN t - start ELSE 0
  <2>1. t - Moment(d, 0) = t - start /\ t - start \in Int
    BY <1>1
  <2>. HIDE DEF start
  <2>2. CASE t - start >= 0
    BY <2>1, <2>2 DEF Max
  <2>3. CASE ~ (t - start >= 0)
    BY <2>1, <2>3 DEF Max
  <2>. QED BY <2>2, <2>3
<1>3. Departures(timetable, d) \subseteq Nat
  BY ServedDays, DayLengths
<1>4. S = left
  <2>. HIDE DEF start, offset
  <2>. QED BY <1>1, <1>2, <1>3
<1>5. found = {Moment(d, Min(T)) : T \in {S} \ {{}}}
  BY DEF FirstDepartureAfter
<1>6. S # {} => found = {Moment(d, Min(S))} /\ Min(S) \in S /\ \A y \in S : Min(S) <= y
  <2>. SUFFICES ASSUME S # {} PROVE found = {Moment(d, Min(S))} /\ Min(S) \in S /\ \A y \in S : Min(S) <= y
    OBVIOUS
  <2>1. S \in SUBSET Nat
    BY <1>3
  <2>. HIDE DEF S, found
  <2>. QED BY <1>5, <2>1, NaturalMin
<1>7. S = {} => found = {}
  <2>. HIDE DEF S, found
  <2>. QED BY <1>5
<1>8. \A m \in found : S # {} /\ m = Moment(d, Min(S))
  <2>. HIDE DEF S, found
  <2>. QED BY <1>6, <1>7
<1>9. \A m \in found : (\E x \in left : m = Moment(d, x)) /\ (\A x \in left : m <= Moment(d, x))
  <2>. TAKE m \in found
  <2>1. PICK k \in left : m = Moment(d, k) /\ \A y \in left : k <= y
    <3>. HIDE DEF S, found, left
    <3>. QED BY <1>4, <1>6, <1>8
  <2>2. left \subseteq Nat
    BY <1>3
  <2>. HIDE DEF S, found, left, start
  <2>3. ASSUME NEW x \in left PROVE m <= Moment(d, x)
    <3>1. k \in Int /\ x \in Int /\ k <= x
      BY <2>1, <2>2
    <3>2. m = start + k /\ Moment(d, x) = start + x
      BY <1>1, <2>1, <3>1
    <3>. QED BY <1>1, <3>1, <3>2
  <2>. QED BY <2>1, <2>3
<1>10. left # {} => found # {}
  <2>. HIDE DEF S, found, left
  <2>. QED BY <1>4, <1>6
<1>. QED BY <1>9, <1>10 DEF FoundOn, LeftOn

LEMMA NextIsNext ==
  ASSUME TimetablesFit, TimetablesAreFinite, timetable \in Timetables, now \in Nat
  PROVE  NextTrainIsTheNext
<1>. DEFINE all == {m \in UNION {{Moment(d, x) : x \in Departures(timetable, d)} : d \in Days} : m >= now}
            today == now \div DayLength
            candidates == UNION {FoundOn(d, now) : d \in (today - 1)..(today + 1)}
            first == Min(all)
<1>1. SUFFICES ASSUME all # {}, first < Moment(today + 2, 0) PROVE NextDeparture(timetable, now) = first
  BY DEF NextTrainIsTheNext
<1>2. today \in Nat /\ today * DayLength <= now /\ DayLength \in Nat /\ DayLength > 0
  BY DayOfMoment, DayLengths
<1>3. \A d \in Int : \A x \in Departures(timetable, d) :
        d \in Days /\ x \in Nat /\ x < 2 * DayLength /\ Moment(d, x) = d * DayLength + x /\ d * DayLength \in Int
  BY <1>2, ServedDays DEF Moment
<1>4. \A m \in all : \E d \in Days : \E x \in Departures(timetable, d) : m = Moment(d, x) /\ m >= now
  OBVIOUS
<1>5. \A d \in Int : \A x \in Departures(timetable, d) : Moment(d, x) >= now => Moment(d, x) \in all
  BY <1>3
<1>6. Days \subseteq Int
  BY DEF Days
<1>7. first \in all /\ \A m \in all : first <= m
  <2>1. all \in SUBSET Nat
    <3>. HIDE DEF all
    <3>. QED BY <1>3, <1>4, <1>6
  <2>. HIDE DEF all
  <2>. QED BY <1>1, <2>1, NaturalMin
<1>8. PICK d \in Days : \E x \in Departures(timetable, d) : first = Moment(d, x) /\ first >= now
  <2>. HIDE DEF all, first
  <2>. QED BY <1>4, <1>7
<1>9. PICK x \in Departures(timetable, d) : first = Moment(d, x) /\ first >= now
  BY <1>8
<1>. HIDE DEF all, first, today
<1>10. /\ d \in Int /\ x \in Nat /\ x < 2 * DayLength
       /\ first = d * DayLength + x /\ d * DayLength \in Int
  BY <1>3, <1>6, <1>9
<1>11. d \in (today - 1)..(today + 1)
  <2>1. d <= today + 1
    <3>. SUFFICES ASSUME today + 1 < d PROVE FALSE
      BY <1>2, <1>10
    <3>1. (today + 1) * DayLength + DayLength <= d * DayLength
      BY <1>2, <1>10, DaysApart
    <3>2. first < (today + 1) * DayLength + DayLength
      <4>1. Moment(today + 2, 0) = (today + 1) * DayLength + DayLength
        BY <1>2 DEF Moment
      <4>. QED BY <1>1, <4>1
    <3>3. (today + 1) * DayLength \in Int
      BY <1>2
    <3>. QED BY <1>2, <1>10, <3>1, <3>2, <3>3
  <2>2. today - 1 <= d
    <3>. SUFFICES ASSUME d + 1 < today PROVE FALSE
      BY <1>2, <1>10
    <3>1. (d + 1) * DayLength + DayLength <= today * DayLength
      BY <1>2, <1>10, DaysApart
    <3>2. (d + 1) * DayLength = d * DayLength + DayLength
      BY <1>2, <1>10
    <3>3. today * DayLength \in Int
      BY <1>2
    <3>. QED BY <1>2, <1>9, <1>10, <3>1, <3>2, <3>3
  <2>. QED BY <1>2, <1>10, <2>1, <2>2
<1>12. \A e \in Int : \A m \in FoundOn(e, now) : m \in all
  <2>. TAKE e \in Int
  <2>. TAKE m \in FoundOn(e, now)
  <2>1. PICK y \in Departures(timetable, e) : m = Moment(e, y) /\ m >= now
    BY FirstIsFirst DEF LeftOn
  <2>. QED BY <1>5, <2>1
<1>13. first \in FoundOn(d, now)
  <2>1. PICK m \in FoundOn(d, now) : m <= first
    <3>1. x \in LeftOn(d, now)
      BY <1>9 DEF LeftOn
    <3>2. FoundOn(d, now) # {} /\ \A m \in FoundOn(d, now) : m <= Moment(d, x)
      BY <1>10, <3>1, FirstIsFirst
    <3>. QED BY <1>9, <3>2
  <2>2. m \in all
    BY <1>10, <1>12, <2>1
  <2>3. first <= m /\ m \in Int
    BY <1>3, <1>4, <1>6, <1>7, <2>2
  <2>. QED BY <1>10, <2>1, <2>3
<1>14. first \in candidates /\ \A m \in candidates : first <= m
  BY <1>2, <1>7, <1>11, <1>12, <1>13
<1>15. candidates \subseteq Nat
  BY <1>2, <1>3, <1>4, <1>6, <1>12
<1>16. NextDeparture(timetable, now) = IF candidates = {} THEN Never ELSE Min(candidates)
  BY DEF NextDeparture, FoundOn, today
<1>17. Min(candidates) = first
  <2>. HIDE DEF candidates
  <2>1. Min(candidates) \in candidates /\ \A y \in candidates : Min(candidates) <= y
    BY <1>14, <1>15, NaturalMin
  <2>2. first \in Nat /\ Min(candidates) \in Nat /\ first <= Min(candidates) /\ Min(candidates) <= first
    BY <1>14, <1>15, <2>1
  <2>. QED BY <2>2
<1>. QED BY <1>14, <1>16, <1>17

LEMMA OnlyYesterdaysAreHidden ==
  ASSUME TimetablesFit, timetable \in Timetables, now \in 0..LastMoment, ReminderBounds
  PROVE  OnlyMidnightHidesTrains
<1>. DEFINE date == now \div DayLength
<1>1. /\ date \in Days /\ date \in Nat /\ now % DayLength \in Nat /\ date * DayLength \in Nat
      /\ now \in Nat /\ DayLength \in Nat /\ now % DayLength < DayLength
      /\ now = date * DayLength + (now % DayLength)
  <2>1. now \in Nat /\ DayLength \in Nat /\ date \in Days
    <3>1. now \in Nat /\ DayLength \in Nat
      BY LastMomentIsNatural, DayLengths
    <3>2. date \in Days
      BY CandidateDays
    <3>. QED BY <3>1, <3>2
  <2>2. date \in Nat /\ now % DayLength \in 0..(DayLength - 1) /\ now = date * DayLength + (now % DayLength)
    BY <2>1, DayOfMoment
  <2>3. date * DayLength \in Nat
    <3>. HIDE DEF date
    <3>. QED BY <2>1, <2>2
  <2>. QED BY <2>1, <2>2, <2>3
<1>. HIDE DEF date
<1>2. ASSUME NEW run \in FetchPositions PROVE run \in Underway
  <2>1. PICK t \in timetable.trips :
          /\ run = <<date, t>> /\ t.service \in ActiveServices(timetable, date)
          /\ t.starts <= now % DayLength /\ now % DayLength <= t.ends
    BY <1>2 DEF FetchPositions, ActiveTripsAt, date
  <2>2. Moment(date, t.starts) <= now /\ now <= Moment(date, t.ends)
    BY <1>1, <2>1 DEF Moment, TimetablesFit
  <2>. QED BY <1>1, <2>1, <2>2 DEF Underway
<1>3. ASSUME NEW run \in Underway, ~ (run[1] < date) PROVE run \in FetchPositions
  <2>. DEFINE t == run[2]
  <2>1. /\ run = <<run[1], t>> /\ run[1] \in Days /\ t \in timetable.trips
        /\ t.service \in ActiveServices(timetable, run[1]) /\ t.starts \in Nat /\ t.ends \in Nat
        /\ run[1] * DayLength + t.starts <= now /\ now <= run[1] * DayLength + t.ends
    BY <1>3 DEF Underway, Moment, TimetablesFit
  <2>2. run[1] = date
    <3>1. run[1] \in Int /\ run[1] * DayLength \in Int
      BY <1>1, <2>1 DEF Days
    <3>2. CASE date < run[1]
      <4>1. date * DayLength + DayLength <= run[1] * DayLength
        BY <1>1, <3>1, <3>2, DaysApart
      <4>. QED BY <1>1, <2>1, <3>1, <4>1
    <3>. QED BY <1>1, <1>3, <3>1, <3>2
  <2>3. t.starts <= now % DayLength /\ now % DayLength <= t.ends
    BY <1>1, <2>1, <2>2
  <2>. QED BY <2>1, <2>2, <2>3 DEF FetchPositions, ActiveTripsAt, date
<1>. QED BY <1>2, <1>3 DEF OnlyMidnightHidesTrains, date

\* The next train is the next one: of three service dates the service finds the
\* earliest departure of all (LastTrainService.next_departure).
THEOREM NextTrainIsFound ==
  ASSUME TimetablesFit, TimetablesAreFinite, ReminderBounds
  PROVE  ReminderSpec => []NextTrainIsTheNext
<1>1. ReminderTypeOK => NextTrainIsTheNext
  BY NextIsNext, LastMomentIsNatural DEF ReminderTypeOK
<1>. QED BY <1>1, RemindersKeepTypes, PTL

\* A scheduled train has a position if and only if it is under way and of today's
\* service: yesterday's vanish at midnight, and no others
\* (ScheduleEstimatedPositionSource.fetch_positions).
THEOREM MidnightHidesTrains ==
  ASSUME TimetablesFit, TimetablesAreFinite, ReminderBounds
  PROVE  ReminderSpec => []OnlyMidnightHidesTrains
<1>1. ReminderTypeOK => OnlyMidnightHidesTrains
  BY OnlyYesterdaysAreHidden DEF ReminderTypeOK
<1>. QED BY <1>1, RemindersKeepTypes, PTL
=============================================================================
