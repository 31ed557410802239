---------------------------- MODULE RouteResolver ----------------------------
(***************************************************************************)
(* RouteResolver: one trip context per realtime trip id, built once and    *)
(* kept for the life of the process.                                       *)
(*                                                                         *)
(* resolve_trip is single-flight: under a lock a caller takes the cached   *)
(* context, joins the task that is building it, or starts one; when the    *)
(* task ends every caller that waited on it comes back in turn, stores the *)
(* context (or raises) and clears the entry of _inflight, whichever task   *)
(* is in it by then.  One trip id is enough: the state of two is disjoint. *)
(* resolve_route does the same without the tasks.  A context is named by   *)
(* the static dataset it was read from; Missing is the negative answer,    *)
(* which is cached like any other.                                         *)
(***************************************************************************)
EXTENDS Naturals, FiniteSets

CONSTANTS Callers,   \* coroutines that resolve the id: events, requests, cycles
          MaxBuilds, \* tasks created, at most
          MaxReloads \* static loads while the process runs

\* The tables hold a dataset when the process starts.
ASSUME ResolverBounds == MaxBuilds \in Nat /\ MaxReloads \in Nat \ {0}

Builds == 1..MaxBuilds
NoBuild == 0
Missing == 0          \* no candidate of the IdMapper is in the tables
Absent == MaxReloads + 1
Answers == 0..MaxReloads
Datasets == 0..MaxReloads

VARIABLES
  static,    \* the context the tables give for the id now (Missing: none)
  reloads,
  tripCache, \* _trip_cache[id]
  inflight,  \* _inflight[id]
  build,     \* the tasks: unused, running, done or failed, and their result
  caller,    \* per caller: idle, or waiting for a task
  pops,      \* entries of _inflight cleared after a failure (history)
  routeCache,\* _route_cache[id]
  routeCall  \* per caller: idle, missed, or holding the row it read

resolverVars == <<static, reloads, tripCache, inflight, build, caller, pops, routeCache, routeCall>>
tripVars == <<tripCache, inflight, build, caller, pops>>
routeVars == <<routeCache, routeCall>>

ResolverInit ==
  /\ static \in {Missing, 1}
  /\ reloads = 1
  /\ tripCache = Absent /\ routeCache = Absent
  /\ inflight = NoBuild
  /\ build = [b \in Builds |-> [state |-> "unused", result |-> Absent]]
  /\ caller = [c \in Callers |-> NoBuild]
  /\ pops = 0
  /\ routeCall = [c \in Callers |-> [pc |-> "idle", row |-> Absent]]

\* A static load commits; nothing tells the resolver (clear_cache).
Reload ==
  /\ reloads < MaxReloads
  /\ reloads' = reloads + 1
  /\ static' \in {Missing, reloads'}
  /\ UNCHANGED <<tripVars, routeVars>>

Unused == {b \in Builds : build[b].state = "unused"}
Running == {b \in Builds : build[b].state = "running"}

\* Under the lock: answered from the cache, or joined, or started.
Call(c) ==
  /\ caller[c] = NoBuild
  /\ tripCache = Absent
  /\ IF inflight # NoBuild
       THEN caller' = [caller EXCEPT ![c] = inflight] /\ UNCHANGED <<inflight, build>>
       ELSE \E b \in Unused :
              /\ \A a \in Unused : b <= a
              /\ build' = [build EXCEPT ![b].state = "running"]
              /\ inflight' = b
              /\ caller' = [caller EXCEPT ![c] = b]
  /\ UNCHANGED <<static, reloads, tripCache, pops, routeVars>>

\* _build_context reads the tables in one session.
BuildEnds(b) ==
  /\ build[b].state = "running"
  /\ \/ build' = [build EXCEPT ![b] = [state |-> "done", result |-> static]]
     \/ build' = [build EXCEPT ![b].state = "failed"]
  /\ UNCHANGED <<static, reloads, tripCache, inflight, caller, pops, routeVars>>

Back(c) == caller' = [caller EXCEPT ![c] = NoBuild]

Resume(c) ==
  /\ caller[c] # NoBuild
  /\ build[caller[c]].state = "done"
  /\ tripCache' = build[caller[c]].result
  /\ inflight' = NoBuild
  /\ Back(c)
  /\ UNCHANGED <<static, reloads, build, pops, routeVars>>

\* The failure is raised to every caller, each of which clears the entry.
Raise(c) ==
  /\ caller[c] # NoBuild
  /\ build[caller[c]].state = "failed"
  /\ inflight' = NoBuild
  /\ pops' = pops + 1
  /\ Back(c)
  /\ UNCHANGED <<static, reloads, tripCache, build, routeVars>>

\* Slip: a caller that is cancelled takes the entry with it.
CancelClears(c) ==
  /\ caller[c] # NoBuild
  /\ Back(c)
  /\ inflight' = NoBuild
  /\ UNCHANGED <<static, reloads, tripCache, build, pops, routeVars>>

\* The caller is cancelled: the shielded task goes on, the entry stays.
Cancel(c) ==
  /\ caller[c] # NoBuild
  /\ Back(c)
  /\ UNCHANGED <<static, reloads, tripCache, inflight, build, pops, routeVars>>

\* resolve_route: look, read, store; concurrent misses all read.
RouteMiss(c) ==
  /\ routeCall[c].pc = "idle" /\ routeCache = Absent
  /\ routeCall' = [routeCall EXCEPT ![c].pc = "missed"]
  /\ UNCHANGED <<static, reloads, tripVars, routeCache>>

RouteRead(c) ==
  /\ routeCall[c].pc = "missed"
  /\ \/ routeCall' = [routeCall EXCEPT ![c] = [pc |-> "read", row |-> static]]
     \/ routeCall' = [routeCall EXCEPT ![c].pc = "idle"] \* the query fails
  /\ UNCHANGED <<static, reloads, tripVars, routeCache>>

RouteStore(c) ==
  /\ routeCall[c].pc = "read"
  /\ routeCache' = routeCall[c].row
  /\ routeCall' = [routeCall EXCEPT ![c] = [pc |-> "idle", row |-> Absent]]
  /\ UNCHANGED <<static, reloads, tripVars>>

TripNext ==
  \/ \E b \in Builds : BuildEnds(b)
  \/ \E c \in Callers : Call(c) \/ Resume(c) \/ Raise(c) \/ Cancel(c)

RouteNext == \E c \in Callers : RouteMiss(c) \/ RouteRead(c) \/ RouteStore(c)

ResolverNext == Reload \/ TripNext \/ RouteNext

ResolverSpec == ResolverInit /\ [][ResolverNext]_resolverVars

ResolverTypeOK ==
  /\ static \in Datasets /\ reloads \in 1..MaxReloads
  /\ tripCache \in Answers \cup {Absent} /\ routeCache \in Answers \cup {Absent}
  /\ inflight \in Builds \cup {NoBuild}
  /\ build \in [Builds -> [state : {"unused", "running", "done", "failed"},
                           result : Answers \cup {Absent}]]
  /\ caller \in [Callers -> Builds \cup {NoBuild}]
  /\ pops \in Nat
  /\ routeCall \in [Callers -> [pc : {"idle", "missed", "read"}, row : Answers \cup {Absent}]]

\* The builds that were started.
Started == Builds \ Unused

(***************************************************************************)
(* Concurrent misses for one trip share one build.  The context of a trip  *)
(* is built once in the life of the process - hence from one dataset, the  *)
(* reloads that follow notwithstanding - unless a build fails; and then    *)
(* each caller that is told of the failure makes room for one build more,  *)
(* for it may clear the entry of a build started since.                    *)
(***************************************************************************)
BuiltOnceUnlessFailed == Cardinality(Started) <= 1 + pops
=============================================================================
