----------------------------- MODULE StationExits -----------------------------
(***************************************************************************)
(* The exits of the stations and what riders say of them.  Two loaders own *)
(* rows of one table: the OSM loader replaces all exits in a transaction,  *)
(* the registry loader reads which stops are covered and later deletes and *)
(* adds the official rows.  An operator adds exits and coach hints by      *)
(* hand.  Riders report which coach stops at which exit; a report is a     *)
(* transaction of its own, and a claim is confirmed by enough riders.      *)
(* Hints and reports refer to an exit and go with it (ON DELETE CASCADE).  *)
(*                                                                         *)
(* Stops do not change.  A claim has one of ClaimRoutes or AnyRoute;       *)
(* the direction is a second such field of the same use and is left out.   *)
(***************************************************************************)
EXTENDS Integers, FiniteSets, Sequences, Functions

CONSTANTS Riders, Coaches, ClaimRoutes, AnyRoute,
          OsmGates, OfficialGates,   \* the files: sequences of [stop, name], matched to stops
          MinConfirmations,
          MaxIds, MaxByHand, MaxReports \* bounds: ids, rows added by hand, reports

ExitBounds == MaxIds \in Nat /\ MaxReports \in Nat /\ MaxByHand \in Nat /\ MinConfirmations \in Nat

VARIABLES
  exits,      \* station_exits, by id
  hints,      \* coach_exit_hints
  reports,    \* coach_exit_reports
  registry,   \* the running registry load, if any: the covered stops it has
              \* read, and whether an OSM load has committed since
  latest,     \* the loader that finished last
  overlapped, \* it was the registry's, and what it had read was stale
  calls,      \* the report each rider is making: nothing, or its claim and step
  begun, byHand,
  confirmed   \* claims that riders were told are confirmed, while their exit exists

exitVars == <<exits, hints, reports, registry, latest, overlapped, calls, confirmed, begun, byHand>>

Stops == {g.stop : g \in Range(OsmGates) \cup Range(OfficialGates)}
Names == {g.name : g \in Range(OsmGates) \cup Range(OfficialGates)}
ExitRows == [stop : Stops, name : Names, source : {"osm", "dmrc_official", "curated"}]
HintShapes == [exit : 1..MaxIds, coach : Coaches]
Claims == [exit : 1..MaxIds, coach : Coaches, route : ClaimRoutes \cup {AnyRoute}]
ReportRows == [rider : Riders, claim : Claims]

ExitTypeOK ==
  /\ DOMAIN exits \subseteq 1..MaxIds
  /\ Range(exits) \subseteq ExitRows
  /\ hints \subseteq HintShapes
  /\ reports \subseteq ReportRows
  /\ registry \subseteq [covered : SUBSET Stops, stale : BOOLEAN]
  /\ latest \in {"none", "osm", "registry"}
  /\ overlapped \in BOOLEAN
  /\ \A r \in Riders : calls[r] \subseteq [claim : Claims, step : {"checked", "staged", "repeated"}, votes : Nat]
  /\ confirmed \subseteq Claims
  /\ begun \in 0..MaxReports /\ byHand \in 0..MaxByHand

ExitInit ==
  /\ exits = <<>>
  /\ hints = {} /\ reports = {}
  /\ registry = {} /\ latest = "none" /\ overlapped = FALSE
  /\ calls = [r \in Riders |-> {}] /\ confirmed = {}
  /\ begun = 0 /\ byHand = 0

-----------------------------------------------------------------------------
(* Loaders                                                                 *)

ExitsAt(stop) == {i \in DOMAIN exits : exits[i].stop = stop}

\* Slip: the loader's own rows count as coverage.
CoveredByAnyFile == {exits[i].stop : i \in {k \in DOMAIN exits : exits[k].source # "curated"}}

\* covered_stop_ids: a row without a payload has no source and does not count.
Covered == {exits[i].stop : i \in {k \in DOMAIN exits : exits[k].source \notin {"dmrc_official", "curated"}}}

\* Rows whose foreign key an open transaction holds cannot be deleted.
Held == {call.claim.exit : call \in {c \in UNION Range(calls) : c.step = "staged"}}

\* Ids are never reused; the model gives one out again when no row and no
\* request refers to it any more.
Referred == {call.claim.exit : call \in UNION Range(calls)}

\* One transaction: delete gone and what refers to it, add the chosen gates
\* of a file.  Which ids the new rows get is immaterial.
Replace(gone, file, chosen, source) ==
  LET kept == DOMAIN exits \ gone
      free == (1..MaxIds) \ (kept \cup Referred)
      ids == CHOOSE f \in Injection(chosen, free) : TRUE
      Gate(i) == file[CHOOSE k \in chosen : ids[k] = i]
  IN /\ gone \cap Held = {}
     /\ Injection(chosen, free) # {}
     /\ exits' = [i \in kept \cup Range(ids) |->
                    IF i \in kept THEN exits[i]
                    ELSE [stop |-> Gate(i).stop, name |-> Gate(i).name, source |-> source]]
     /\ hints' = {h \in hints : h.exit \notin gone}
     /\ reports' = {r \in reports : r.claim.exit \notin gone}
     /\ confirmed' = {claim \in confirmed : claim.exit \notin gone}

LoadOsm ==
  /\ Replace(DOMAIN exits, OsmGates, DOMAIN OsmGates, "osm")
  /\ latest' = "osm"
  /\ overlapped' = FALSE
  /\ registry' = {[run EXCEPT !.stale = TRUE] : run \in registry}
  /\ UNCHANGED <<calls, begun, byHand>>

RegistryReads ==
  /\ registry = {}
  /\ registry' = {[covered |-> Covered, stale |-> FALSE]}
  /\ UNCHANGED <<exits, hints, reports, latest, overlapped, calls, confirmed, begun, byHand>>

RegistryWrites ==
  \E run \in registry :
    /\ Replace({i \in DOMAIN exits : exits[i].source = "dmrc_official"},
               OfficialGates, {k \in DOMAIN OfficialGates : OfficialGates[k].stop \notin run.covered}, "dmrc_official")
    /\ registry' = {}
    /\ latest' = "registry"
    /\ overlapped' = run.stale
    /\ UNCHANGED <<calls, begun, byHand>>

-----------------------------------------------------------------------------
(* By hand                                                                 *)

AddExit(stop, name) ==
  /\ byHand < MaxByHand /\ byHand' = byHand + 1
  /\ Replace({}, <<[stop |-> stop, name |-> name]>>, {1}, "curated")
  /\ UNCHANGED <<registry, latest, overlapped, calls, begun>>

AddHint(exit, coach) ==
  /\ byHand < MaxByHand /\ byHand' = byHand + 1
  /\ hints' = hints \cup {[exit |-> exit, coach |-> coach]}
  /\ UNCHANGED <<exits, reports, registry, latest, overlapped, calls, confirmed, begun>>

-----------------------------------------------------------------------------
(* Reports                                                                 *)

Check(rider, claim) ==
  /\ calls[rider] = {}
  /\ begun < MaxReports /\ begun' = begun + 1
  /\ claim.exit \in DOMAIN exits
  /\ calls' = [calls EXCEPT ![rider] = {[claim |-> claim, step |-> "checked", votes |-> 0]}]
  /\ UNCHANGED <<exits, hints, reports, registry, latest, overlapped, confirmed, byHand>>

Votes(claim) == {r.rider : r \in {q \in reports : q.claim = claim}}

\* The insert fails if the rider has said so before, and also if the exit is
\* gone: both read as a repeated report.
StoreReport(rider) ==
  \E call \in calls[rider] :
    LET new == call.claim.exit \in DOMAIN exits /\ rider \notin Votes(call.claim)
        voters == Votes(call.claim) \cup (IF new THEN {rider} ELSE {})
    IN /\ call.step = "checked"
       /\ calls' = [calls EXCEPT ![rider] =
            {[call EXCEPT !.step = IF new THEN "staged" ELSE "repeated", !.votes = Cardinality(voters)]}]
       /\ UNCHANGED <<exits, hints, reports, registry, latest, overlapped, confirmed, begun, byHand>>

CommitReport(rider) ==
  \E call \in calls[rider] :
    /\ call.step # "checked"
    /\ reports' = reports \cup (IF call.step = "staged" THEN {[rider |-> rider, claim |-> call.claim]} ELSE {})
    /\ confirmed' = confirmed \cup {claim \in {call.claim} : call.votes >= MinConfirmations /\ claim.exit \in DOMAIN exits}
    /\ calls' = [calls EXCEPT ![rider] = {}]
    /\ UNCHANGED <<exits, hints, registry, latest, overlapped, begun, byHand>>

\* confirmed_coach_exits: the exit names that enough riders give a coach; the
\* first of them by name is the one shown.
Asked(route) == IF route = AnyRoute THEN ClaimRoutes \cup {AnyRoute} ELSE {route, AnyRoute}
Saying(stop, route, coach, name) ==
  {r.rider : r \in {q \in reports :
     q.claim.coach = coach /\ q.claim.route \in Asked(route) /\ q.claim.exit \in ExitsAt(stop)
       /\ exits[q.claim.exit].name = name}}
ConfirmedNames(stop, route, coach) ==
  {name \in Names : Cardinality(Saying(stop, route, coach, name)) >= MinConfirmations}

ExitNext ==
  \/ LoadOsm \/ RegistryReads \/ RegistryWrites
  \/ \E stop \in Stops, name \in Names : AddExit(stop, name)
  \/ \E exit \in DOMAIN exits, coach \in Coaches : AddHint(exit, coach)
  \/ \E r \in Riders : StoreReport(r) \/ CommitReport(r) \/ \E claim \in Claims : Check(r, claim)

ExitSpec == ExitInit /\ [][ExitNext]_exitVars

-----------------------------------------------------------------------------
(***************************************************************************)
(* A stop is served from one file, OSM's before the registry's, and a      *)
(* registry run leaves no stop unserved that either file knows: unless an  *)
(* OSM load commits while the registry's is under way.                     *)
(***************************************************************************)
From(source) == {exits[i].stop : i \in {k \in DOMAIN exits : exits[k].source = source}}
StopsIn(gates) == {g.stop : g \in Range(gates)}

OneFileServesAStop ==
  ~overlapped =>
    /\ From("osm") \cap From("dmrc_official") = {}
    /\ latest = "registry" =>
         StopsIn(OfficialGates) \subseteq From("osm") \cup From("dmrc_official")

(***************************************************************************)
(* A claim the rider was told is confirmed is one that the advice uses as  *)
(* long as its exit exists, whichever requests ran at the same time; and   *)
(* no hint or report outlives its exit.                                    *)
(***************************************************************************)
ConfirmedIsShown ==
  \A claim \in confirmed :
    exits[claim.exit].name \in ConfirmedNames(exits[claim.exit].stop, claim.route, claim.coach)

NothingDangles == {r.claim.exit : r \in reports} \cup {h.exit : h \in hints} \subseteq DOMAIN exits

ExitsAreRight == OneFileServesAStop /\ ConfirmedIsShown /\ NothingDangles

(***************************************************************************)
(* "Coach-exit hints are left untouched" by a reload (replace_all).        *)
(***************************************************************************)
HintsOutliveReloads == [][LoadOsm => hints' = hints]_exitVars
=============================================================================
