---------------------------- MODULE OfflineBundle ----------------------------
(***************************************************************************)
(* The offline bundle: built once per dataset version, kept in Redis.      *)
(*                                                                         *)
(* Versions are content hashes, so loading an archive again brings its     *)
(* version back.  The content of a bundle is the pair of datasets its two  *)
(* kinds of rows were read from: the stations, and the routes with their   *)
(* station sequences.  A request reads the version in one session, the two *)
(* Redis keys in two commands, and the rows in another session, statement  *)
(* by statement; a static load can commit between any two of these.        *)
(***************************************************************************)
EXTENDS Naturals, FiniteSets

CONSTANTS Versions,  \* the datasets that are loaded
          Requests,  \* concurrent requests for the manifest or the bundle
          MaxLoads

None == "none"
NoBundle == [stations |-> None, routes |-> None]
Contents == [stations : Versions \cup {None}, routes : Versions \cup {None}]
NoRequest == [pc |-> "idle", version |-> None, found |-> NoBundle,
          staleBundles |-> {}, staleMetas |-> {}]

VARIABLES
  dataset,   \* the dataset in the tables; None before the first load
  times,     \* how often each version has been loaded
  loads,
  bundles,   \* mp:offline:bundle:{version}
  metas,     \* versions with a key mp:offline:meta:{version}
  request,   \* per request: place, version, and what it has read so far
  cutShort   \* a request ended between its store and its eviction (history)

bundleVars == <<dataset, times, loads, bundles, metas, request, cutShort>>

BundleInit ==
  /\ dataset = None
  /\ times = [v \in Versions |-> 0]
  /\ loads = 0
  /\ bundles = [v \in Versions |-> NoBundle]
  /\ metas = {}
  /\ request = [r \in Requests |-> NoRequest]
  /\ cutShort = FALSE

\* A static load commits: the tables and the version row change together.
Load(v) ==
  /\ loads < MaxLoads
  /\ loads' = loads + 1
  /\ v # dataset
  /\ times' = [times EXCEPT ![v] = @ + 1]
  /\ dataset' = v
  /\ UNCHANGED <<bundles, metas, request, cutShort>>

At(r, pc) == request[r].pc = pc
Moves(r, pc) == request' = [request EXCEPT ![r].pc = pc]
Ends(r) == request' = [request EXCEPT ![r] = NoRequest]

ReadVersion(r) ==
  /\ At(r, "idle")
  /\ dataset # None
  /\ request' = [request EXCEPT ![r].pc = "versioned", ![r].version = dataset]
  /\ UNCHANGED <<dataset, times, loads, bundles, metas, cutShort>>

GetMeta(r) ==
  /\ At(r, "versioned")
  /\ Moves(r, IF request[r].version \in metas THEN "has meta" ELSE "no meta")
  /\ UNCHANGED <<dataset, times, loads, bundles, metas, cutShort>>

\* The rest of _load_cached: both keys or nothing.
GetBundle(r) ==
  /\ At(r, "has meta") \/ At(r, "no meta")
  /\ IF At(r, "has meta") /\ bundles[request[r].version] # NoBundle
       THEN Ends(r) ELSE Moves(r, "build")
  /\ UNCHANGED <<dataset, times, loads, bundles, metas, cutShort>>

\* StopRepository.list_all
BuildStations(r) ==
  /\ At(r, "build")
  /\ request' = [request EXCEPT ![r].pc = "stations", ![r].found.stations = dataset]
  /\ UNCHANGED <<dataset, times, loads, bundles, metas, cutShort>>

\* Routes, representative trips and their stop sequences, exits.
BuildRoutes(r) ==
  /\ At(r, "stations")
  /\ request' = [request EXCEPT ![r].pc = "built", ![r].found.routes = dataset]
  /\ UNCHANGED <<dataset, times, loads, bundles, metas, cutShort>>

\* Slip: the bundle is stored under the version that is current by then.
StoreUnderLatest(r) ==
  /\ At(r, "built")
  /\ bundles' = [bundles EXCEPT ![dataset] = request[r].found]
  /\ metas' = metas \cup {dataset}
  /\ Moves(r, "stored")
  /\ UNCHANGED <<dataset, times, loads, cutShort>>

\* Both keys in one MULTI.
Store(r) ==
  /\ At(r, "built")
  /\ bundles' = [bundles EXCEPT ![request[r].version] = request[r].found]
  /\ metas' = metas \cup {request[r].version}
  /\ Moves(r, "stored")
  /\ UNCHANGED <<dataset, times, loads, cutShort>>

Bundled == {v \in Versions : bundles[v] # NoBundle}

\* SCAN for the bundles of other versions, then for their metas, then one DEL.
ScanBundles(r) ==
  /\ At(r, "stored")
  /\ request' = [request EXCEPT ![r].pc = "scanning",
                                ![r].staleBundles = Bundled \ {request[r].version}]
  /\ UNCHANGED <<dataset, times, loads, bundles, metas, cutShort>>

ScanMetas(r) ==
  /\ At(r, "scanning")
  /\ request' = [request EXCEPT ![r].pc = "scanned",
                                ![r].staleMetas = metas \ {request[r].version}]
  /\ UNCHANGED <<dataset, times, loads, bundles, metas, cutShort>>

Evict(r) ==
  /\ At(r, "scanned")
  /\ bundles' = [v \in Versions |-> IF v \in request[r].staleBundles THEN NoBundle ELSE bundles[v]]
  /\ metas' = metas \ request[r].staleMetas
  /\ Ends(r)
  /\ UNCHANGED <<dataset, times, loads, cutShort>>

\* The client gives up, or the database or Redis fails: the request ends.
Abort(r) ==
  /\ ~At(r, "idle")
  /\ cutShort' = (cutShort \/ request[r].pc \in {"stored", "scanning", "scanned"})
  /\ Ends(r)
  /\ UNCHANGED <<dataset, times, loads, bundles, metas>>

Handles(r) ==
  \/ ReadVersion(r) \/ GetMeta(r) \/ GetBundle(r) \/ BuildStations(r) \/ BuildRoutes(r)
  \/ Store(r) \/ ScanBundles(r) \/ ScanMetas(r) \/ Evict(r) \/ Abort(r)

BundleNext == (\E v \in Versions : Load(v)) \/ (\E r \in Requests : Handles(r))

BundleSpec == BundleInit /\ [][BundleNext]_bundleVars

BundleTypeOK ==
  /\ dataset \in Versions \cup {None}
  /\ times \in [Versions -> 0..MaxLoads] /\ loads \in 0..MaxLoads
  /\ bundles \in [Versions -> Contents] /\ metas \subseteq Versions
  /\ request \in [Requests ->
       [pc : {"idle", "versioned", "has meta", "no meta", "build", "stations", "built",
              "stored", "scanning", "scanned"},
        version : Versions \cup {None}, found : Contents,
        staleBundles : SUBSET Versions, staleMetas : SUBSET Versions]]
  /\ cutShort \in BOOLEAN

(***************************************************************************)
(* What a client can download for the current version is that dataset,     *)
(* from whatever builds and loads raced before.  A bundle that a load      *)
(* overtook is stored under the version that the load replaced; only when  *)
(* that very archive is loaded again does the wrong bundle get served.     *)
(***************************************************************************)
CurrentBundleIsRight ==
  dataset # None /\ times[dataset] = 1 =>
    bundles[dataset] \in {NoBundle, [stations |-> dataset, routes |-> dataset]}

(***************************************************************************)
(* Redis does not fill up with superseded bundles: when no request is      *)
(* under way one version at most is cached, unless a request was cut short *)
(* before it could evict.                                                  *)
(***************************************************************************)
OneVersionIsKept ==
  (\A r \in Requests : At(r, "idle")) => Cardinality(Bundled \cup metas) <= 1 \/ cutShort
=============================================================================
