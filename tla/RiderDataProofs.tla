--------------------------- MODULE RiderDataProofs ---------------------------
(***************************************************************************)
(* Proofs about what the server keeps of its riders besides their          *)
(* journeys: exits and reports, alerts and the inbox, accounts, nudges and *)
(* refined delays, one after the other and then as the whole that is run.  *)
(***************************************************************************)
EXTENDS RiderData, SequenceTheorems, FiniteSetTheorems, WellFoundedInduction, TLAPS

-----------------------------------------------------------------------------

ExitShape ==
  /\ ExitTypeOK
  /\ calls = [r \in Riders |-> calls[r]]
  /\ IsFiniteSet(reports)

\* A registry run that no OSM load overtook has read what is covered.
RunsAreCurrent == \A run \in registry : ~run.stale => run.covered = Covered

\* The votes a call has counted still stand when it commits.
CountedStand ==
  \A r \in Riders : \A k \in calls[r] :
    /\ k.step = "staged" => k.claim.exit \in DOMAIN exits
    /\ k.step = "repeated" /\ k.claim.exit \in DOMAIN exits => r \in Votes(k.claim)
    /\ k.step # "checked" /\ k.claim.exit \in DOMAIN exits =>
         k.votes <= Cardinality(Votes(k.claim) \cup {r})

ToldStand ==
  \A claim \in confirmed : claim.exit \in DOMAIN exits /\ Cardinality(Votes(claim)) >= MinConfirmations

ExitInv ==
  ExitShape /\ RunsAreCurrent /\ OneFileServesAStop /\ CountedStand /\ ToldStand /\ NothingDangles

\* What a load of the chosen gates of a file leaves behind.
Row(gate, source) == [stop |-> gate.stop, name |-> gate.name, source |-> source]
Replaced(gone, file, chosen, source) ==
  /\ \A i \in DOMAIN exits \ gone : i \in DOMAIN exits' /\ exits'[i] = exits[i]
  /\ \A i \in DOMAIN exits' \ (DOMAIN exits \ gone) :
       /\ i \in (1..MaxIds) \ Referred
       /\ \E k \in chosen : exits'[i] = Row(file[k], source)
  /\ \A k \in chosen : \E i \in DOMAIN exits' \ (DOMAIN exits \ gone) : exits'[i] = Row(file[k], source)
  /\ gone \cap Held = {}
  /\ hints' = {h \in hints : h.exit \notin gone}
  /\ reports' = {r \in reports : r.claim.exit \notin gone}
  /\ confirmed' = {claim \in confirmed : claim.exit \notin gone}

LEMMA ReplaceFacts ==
  ASSUME NEW gone \in SUBSET (DOMAIN exits), NEW file, NEW chosen, NEW source,
         Replace(gone, file, chosen, source)
  PROVE  Replaced(gone, file, chosen, source)
<1> DEFINE kept == DOMAIN exits \ gone
           free == (1..MaxIds) \ (kept \cup Referred)
           ids == CHOOSE f \in Injection(chosen, free) : TRUE
           Gate(i) == file[CHOOSE k \in chosen : ids[k] = i]
<1>1. /\ Injection(chosen, free) # {}
      /\ exits' = [i \in kept \cup Range(ids) |->
                     IF i \in kept THEN exits[i]
                     ELSE [stop |-> Gate(i).stop, name |-> Gate(i).name, source |-> source]]
      /\ gone \cap Held = {}
      /\ hints' = {h \in hints : h.exit \notin gone}
      /\ reports' = {r \in reports : r.claim.exit \notin gone}
      /\ confirmed' = {claim \in confirmed : claim.exit \notin gone}
  BY DEF Replace
<1>2. ids \in Injection(chosen, free)
  BY <1>1
<1>3. ids \in [chosen -> free] /\ \A j, k \in chosen : ids[j] = ids[k] => j = k
  BY <1>2 DEF Injection, IsInjective
<1>4. Range(ids) = {ids[k] : k \in chosen}
  BY <1>3 DEF Range
<1>5. \A k \in chosen : (CHOOSE j \in chosen : ids[j] = ids[k]) = k
  BY <1>3
<1> HIDE DEF ids, free
<1>6. \A k \in chosen : Gate(ids[k]) = file[k]
  BY <1>5
<1>7. Range(ids) \cap kept = {} /\ Range(ids) \subseteq (1..MaxIds) \ Referred
  BY <1>3, <1>4 DEF free
<1>8. DOMAIN exits' = kept \cup Range(ids)
  BY <1>1
<1>9. \A k \in chosen : exits'[ids[k]] = Row(file[k], source)
  <2> TAKE k \in chosen
  <2>1. ids[k] \in Range(ids) /\ ids[k] \notin kept
    BY <1>4, <1>7
  <2> QED BY <2>1, <1>1, <1>6 DEF Row
<1>10. DOMAIN exits' \ kept = Range(ids)
  BY <1>7, <1>8
<1>11. \A i \in kept : i \in DOMAIN exits' /\ exits'[i] = exits[i]
  BY <1>1
<1>12. \A i \in DOMAIN exits' \ kept :
         /\ i \in (1..MaxIds) \ Referred
         /\ \E k \in chosen : exits'[i] = Row(file[k], source)
  <2> SUFFICES ASSUME NEW i \in Range(ids)
               PROVE  /\ i \in (1..MaxIds) \ Referred
                      /\ \E k \in chosen :
                           exits'[i] = Row(file[k], source)
    BY <1>10
  <2>1. PICK k \in chosen : i = ids[k]
    BY <1>4
  <2> QED BY <1>7, <1>9, <2>1
<1>13. \A k \in chosen : \E i \in DOMAIN exits' \ kept :
         exits'[i] = Row(file[k], source)
  BY <1>4, <1>9, <1>10
<1> QED
  BY <1>1, <1>11, <1>12, <1>13 DEF Replaced

\* What a load does to reports: those of a row that stays are kept.
LEMMA ReplaceKeepsVotes ==
  ASSUME NEW gone, reports' = {r \in reports : r.claim.exit \notin gone},
         NEW claim, claim.exit \notin gone
  PROVE  Votes(claim)' = Votes(claim)
BY DEF Votes

LEMMA RidersAreFinite ==
  ASSUME NEW those, IsFiniteSet(those)
  PROVE  IsFiniteSet({q.rider : q \in those})
<1> DEFINE voters == {q.rider : q \in those}
           voter == [q \in those |-> q.rider]
<1>1. voter \in Surjection(those, voters)
  BY DEF Surjection
<1> QED BY <1>1, FS_Surjection

LEMMA VotesAreFinite ==
  ASSUME NEW made, IsFiniteSet(made), NEW claim
  PROVE  IsFiniteSet({q.rider : q \in {p \in made : p.claim = claim}})
<1>1. IsFiniteSet({p \in made : p.claim = claim})
  BY FS_Subset
<1> QED BY <1>1, RidersAreFinite

LEMMA CoveredIsOsm == ExitTypeOK => Covered = From("osm") /\ DOMAIN exits \subseteq 1..MaxIds
<1> SUFFICES ASSUME ExitTypeOK PROVE Covered = From("osm") /\ DOMAIN exits \subseteq 1..MaxIds
  OBVIOUS
<1>1. \A i \in DOMAIN exits : exits[i].source \in {"osm", "dmrc_official", "curated"}
  BY DEF ExitTypeOK, ExitRows, Range
<1> QED BY <1>1 DEF Covered, From, ExitTypeOK

\* What every replacement of rows keeps, whoever's it is.
LEMMA ReplaceStep ==
  ASSUME ExitInv, NEW gone \in SUBSET (DOMAIN exits), NEW file, NEW chosen, NEW source,
         source \in {"osm", "dmrc_official", "curated"},
         \A k \in chosen : file[k].stop \in Stops /\ file[k].name \in Names,
         Replace(gone, file, chosen, source), calls' = calls
  PROVE  /\ DOMAIN exits' \subseteq 1..MaxIds /\ Range(exits)' \subseteq ExitRows
         /\ IsFiniteSet(reports') /\ hints' \subseteq hints /\ reports' \subseteq reports /\ confirmed' \subseteq confirmed
         /\ CountedStand' /\ ToldStand' /\ NothingDangles'
<1>1. DOMAIN exits \subseteq 1..MaxIds
  BY DEF ExitInv, ExitShape, ExitTypeOK
<1>2. /\ \A i \in DOMAIN exits \ gone : i \in DOMAIN exits' /\ exits'[i] = exits[i]
      /\ \A i \in DOMAIN exits' \ (DOMAIN exits \ gone) :
           /\ i \in (1..MaxIds) \ Referred
           /\ \E k \in chosen : exits'[i] = Row(file[k], source)
      /\ gone \cap Held = {}
      /\ hints' = {h \in hints : h.exit \notin gone}
      /\ reports' = {r \in reports : r.claim.exit \notin gone}
      /\ confirmed' = {claim \in confirmed : claim.exit \notin gone}
  <2>1. Replaced(gone, file, chosen, source)
    BY ReplaceFacts
  <2> QED BY <2>1 DEF Replaced
<1> USE DEF ExitInv
<1>3. DOMAIN exits' \subseteq 1..MaxIds
  BY <1>1, <1>2
<1>4. Range(exits)' \subseteq ExitRows
  <2> SUFFICES ASSUME NEW i \in DOMAIN exits' PROVE exits'[i] \in ExitRows
    BY DEF Range
  <2>1. CASE i \in DOMAIN exits \ gone
    BY <1>2, <2>1 DEF ExitShape, ExitTypeOK, Range
  <2>2. CASE i \notin DOMAIN exits \ gone
    BY <1>2, <2>2 DEF ExitRows, Row
  <2> QED BY <2>1, <2>2
<1>5. IsFiniteSet(reports') /\ hints' \subseteq hints /\ reports' \subseteq reports /\ confirmed' \subseteq confirmed
  BY <1>2, FS_Subset DEF ExitShape
<1>6. \A claim : claim.exit \notin gone => Votes(claim)' = Votes(claim)
  BY <1>2, ReplaceKeepsVotes
<1>7. \A r \in Riders : \A k \in calls[r] : k.claim.exit \in Referred
  BY DEF Referred, Range, ExitShape
<1>8. \A r \in Riders : \A k \in calls[r] : k.step = "staged" => k.claim.exit \in Held
  BY DEF Held, Range, ExitShape
<1>9. CountedStand'
  <2> SUFFICES ASSUME NEW r \in Riders, NEW k \in calls[r]
               PROVE  /\ k.step = "staged" => k.claim.exit \in DOMAIN exits'
                      /\ k.step = "repeated" /\ k.claim.exit \in DOMAIN exits' => r \in Votes(k.claim)'
                      /\ k.step # "checked" /\ k.claim.exit \in DOMAIN exits' =>
                           k.votes <= Cardinality(Votes(k.claim)' \cup {r})
    BY DEF CountedStand
  <2>1. k.claim.exit \in DOMAIN exits' => k.claim.exit \in DOMAIN exits \ gone
    BY <1>2, <1>7
  <2>2. k.step = "staged" => k.claim.exit \in DOMAIN exits \ gone
    BY <1>2, <1>8 DEF CountedStand
  <2> QED BY <1>2, <1>6, <2>1, <2>2 DEF CountedStand
<1>10. ToldStand'
  <2> SUFFICES ASSUME NEW claim \in confirmed'
               PROVE  claim.exit \in DOMAIN exits' /\ Cardinality(Votes(claim)') >= MinConfirmations
    BY DEF ToldStand
  <2> QED BY <1>2, <1>6 DEF ToldStand
<1>11. NothingDangles'
  BY <1>2 DEF NothingDangles
<1> QED BY <1>3, <1>4, <1>5, <1>9, <1>10, <1>11

LEMMA ExitInvInit == ExitBounds /\ ExitInit => ExitInv
<1> SUFFICES ASSUME ExitBounds, ExitInit PROVE ExitInv
  OBVIOUS
<1> USE DEF ExitInit, ExitBounds
<1>1. ExitShape
  <2>1. DOMAIN exits = {} /\ Range(exits) = {}
    BY DEF Range
  <2>2. DOMAIN exits \subseteq 1..MaxIds /\ Range(exits) \subseteq ExitRows
    BY <2>1
  <2>3. begun \in 0..MaxReports /\ byHand \in 0..MaxByHand
    OBVIOUS
  <2>4. ExitTypeOK
    BY <2>2, <2>3 DEF ExitTypeOK
  <2> QED BY <2>4, FS_EmptySet DEF ExitShape
<1>2. RunsAreCurrent /\ CountedStand /\ ToldStand
  BY DEF RunsAreCurrent, CountedStand, ToldStand
<1>3. OneFileServesAStop /\ NothingDangles
  BY DEF OneFileServesAStop, NothingDangles, From
<1> QED BY <1>1, <1>2, <1>3 DEF ExitInv

LEMMA LoadOsmKeeps == ExitInv /\ LoadOsm => ExitInv'
<1> SUFFICES ASSUME ExitInv, LoadOsm PROVE ExitInv'
  OBVIOUS
<1>1. Replace(DOMAIN exits, OsmGates, DOMAIN OsmGates, "osm")
  BY DEF LoadOsm
<1>2. /\ latest' = "osm" /\ overlapped' = FALSE
      /\ registry' = {[run EXCEPT !.stale = TRUE] : run \in registry}
      /\ calls' = calls /\ begun' = begun /\ byHand' = byHand
  BY DEF LoadOsm
<1>3. \A k \in DOMAIN OsmGates : OsmGates[k].stop \in Stops /\ OsmGates[k].name \in Names
  BY DEF Stops, Names, Range
<1>4. /\ DOMAIN exits' \subseteq 1..MaxIds /\ Range(exits)' \subseteq ExitRows
      /\ IsFiniteSet(reports') /\ hints' \subseteq hints /\ reports' \subseteq reports /\ confirmed' \subseteq confirmed
      /\ CountedStand' /\ ToldStand' /\ NothingDangles'
  BY <1>1, <1>2, <1>3, ReplaceStep
<1>5. ExitShape'
  BY <1>2, <1>4 DEF ExitInv, ExitShape, ExitTypeOK
<1>6. RunsAreCurrent'
  BY <1>2 DEF RunsAreCurrent, ExitInv, ExitShape, ExitTypeOK
<1>7. \A i \in DOMAIN exits' : exits'[i].source = "osm"
  <2>1. Replaced(DOMAIN exits, OsmGates, DOMAIN OsmGates, "osm")
    BY <1>1, ReplaceFacts
  <2> QED BY <2>1 DEF Replaced, Row
<1>8. OneFileServesAStop'
  BY <1>2, <1>7 DEF OneFileServesAStop, From
<1> QED BY <1>4, <1>5, <1>6, <1>8 DEF ExitInv

LEMMA RegistryWritesKeeps == ExitInv /\ RegistryWrites => ExitInv'
<1> SUFFICES ASSUME ExitInv, NEW run \in registry,
                    Replace({i \in DOMAIN exits : exits[i].source = "dmrc_official"}, OfficialGates,
                            {k \in DOMAIN OfficialGates : OfficialGates[k].stop \notin run.covered}, "dmrc_official"),
                    registry' = {}, latest' = "registry", overlapped' = run.stale,
                    calls' = calls, begun' = begun, byHand' = byHand
             PROVE  ExitInv'
  BY DEF RegistryWrites
<1> DEFINE gone == {i \in DOMAIN exits : exits[i].source = "dmrc_official"}
           chosen == {k \in DOMAIN OfficialGates : OfficialGates[k].stop \notin run.covered}
<1>1. \A k \in chosen : OfficialGates[k].stop \in Stops /\ OfficialGates[k].name \in Names
  BY DEF Stops, Names, Range
<1>2. /\ DOMAIN exits' \subseteq 1..MaxIds /\ Range(exits)' \subseteq ExitRows
      /\ IsFiniteSet(reports') /\ hints' \subseteq hints /\ reports' \subseteq reports /\ confirmed' \subseteq confirmed
      /\ CountedStand' /\ ToldStand' /\ NothingDangles'
  BY <1>1, ReplaceStep
<1>3. run.stale \in BOOLEAN
  BY DEF ExitInv, ExitShape, ExitTypeOK
<1>4. ExitShape'
  BY <1>2, <1>3 DEF ExitInv, ExitShape, ExitTypeOK
<1>5. RunsAreCurrent'
  BY DEF RunsAreCurrent
<1>6. OneFileServesAStop'
  <2> SUFFICES ASSUME ~run.stale
               PROVE  /\ From("osm")' \cap From("dmrc_official")' = {}
                      /\ StopsIn(OfficialGates) \subseteq From("osm")' \cup From("dmrc_official")'
    BY DEF OneFileServesAStop
  <2>1. Replaced(gone, OfficialGates, chosen, "dmrc_official")
    BY ReplaceFacts
  <2>2. run.covered = From("osm")
    BY CoveredIsOsm DEF ExitInv, RunsAreCurrent, ExitShape
  <2>3. From("osm")' = From("osm")
    BY <2>1 DEF From, Replaced, Row
  <2>4. From("dmrc_official")' = {OfficialGates[k].stop : k \in chosen}
    <3>1. \A i \in DOMAIN exits \ gone : i \in DOMAIN exits' /\ exits'[i] = exits[i]
                                           /\ exits'[i].source # "dmrc_official"
      BY <2>1 DEF Replaced
    <3>2. \A i \in DOMAIN exits' \ (DOMAIN exits \ gone) : \E k \in chosen : exits'[i] = Row(OfficialGates[k], "dmrc_official")
      BY <2>1 DEF Replaced
    <3>3. \A k \in chosen : \E i \in DOMAIN exits' : exits'[i] = Row(OfficialGates[k], "dmrc_official")
      BY <2>1 DEF Replaced
    <3>4. \A s \in From("dmrc_official")' : s \in {OfficialGates[k].stop : k \in chosen}
      BY <3>1, <3>2 DEF From, Row
    <3>5. \A k \in chosen : OfficialGates[k].stop \in From("dmrc_official")'
      BY <3>3 DEF From, Row
    <3> QED BY <3>4, <3>5
  <2> QED BY <2>2, <2>3, <2>4 DEF StopsIn, Range
<1> QED BY <1>2, <1>4, <1>5, <1>6 DEF ExitInv

LEMMA AddExitKeeps ==
  ASSUME NEW stop \in Stops, NEW name \in Names
  PROVE  ExitBounds /\ ExitInv /\ AddExit(stop, name) => ExitInv'
<1> SUFFICES ASSUME ExitBounds, ExitInv, AddExit(stop, name) PROVE ExitInv'
  OBVIOUS
<1> DEFINE file == <<[stop |-> stop, name |-> name]>>
           chosen == {1}
           none == {}
<1>1. /\ Replace(none, file, chosen, "curated")
      /\ byHand < MaxByHand /\ byHand' = byHand + 1
      /\ UNCHANGED <<registry, latest, overlapped, calls, begun>>
  BY DEF AddExit
<1>2. \A k \in chosen : file[k].stop \in Stops /\ file[k].name \in Names
  OBVIOUS
<1> HIDE DEF file, chosen
<1>3. /\ DOMAIN exits' \subseteq 1..MaxIds /\ Range(exits)' \subseteq ExitRows
      /\ IsFiniteSet(reports') /\ hints' \subseteq hints /\ reports' \subseteq reports /\ confirmed' \subseteq confirmed
      /\ CountedStand' /\ ToldStand' /\ NothingDangles'
  <2>1. none \in SUBSET (DOMAIN exits) /\ calls' = calls
    BY <1>1
  <2> HIDE DEF none
  <2> QED BY <1>1, <1>2, <2>1, ReplaceStep
<1>4. byHand' \in 0..MaxByHand
  BY <1>1 DEF ExitInv, ExitShape, ExitTypeOK, ExitBounds
<1>5. ExitShape'
  BY <1>1, <1>3, <1>4 DEF ExitInv, ExitShape, ExitTypeOK
<1>6. Replaced(none, file, chosen, "curated")
  BY <1>1, ReplaceFacts
<1>7. /\ \A i \in DOMAIN exits : i \in DOMAIN exits' /\ exits'[i] = exits[i]
      /\ \A i \in DOMAIN exits' \ DOMAIN exits : exits'[i].source = "curated"
  BY <1>6 DEF Replaced, Row
<1>8. \A source : source # "curated" => From(source)' = From(source)
  BY <1>7 DEF From
<1>9. OneFileServesAStop'
  BY <1>1, <1>8 DEF OneFileServesAStop, ExitInv
<1>10. Covered' = Covered
  BY <1>7 DEF Covered
<1>11. RunsAreCurrent'
  BY <1>1, <1>10 DEF RunsAreCurrent, ExitInv
<1> QED BY <1>3, <1>5, <1>9, <1>11 DEF ExitInv

\* A step that leaves rows, reports and the calls alone.
LEMMA OthersKeep ==
  ASSUME ExitBounds, ExitInv,
         \/ RegistryReads
         \/ \E exit \in DOMAIN exits, coach \in Coaches : AddHint(exit, coach)
         \/ UNCHANGED exitVars
  PROVE  ExitInv'
<1>1. CASE RegistryReads
  <2> USE <1>1 DEF RegistryReads
  <2>1. Covered \in SUBSET Stops
    BY DEF ExitInv, ExitShape, ExitTypeOK, ExitRows, Covered, Range
  <2>2. ExitShape' /\ RunsAreCurrent'
    BY <2>1 DEF ExitInv, ExitShape, ExitTypeOK, RunsAreCurrent, Covered
  <2>3. OneFileServesAStop'
    BY DEF ExitInv, OneFileServesAStop, From
  <2>4. \A claim : Votes(claim)' = Votes(claim)
    BY DEF Votes
  <2>5. CountedStand' /\ ToldStand'
    BY <2>4 DEF ExitInv, CountedStand, ToldStand
  <2>6. NothingDangles'
    BY DEF ExitInv, NothingDangles
  <2> QED BY <2>2, <2>3, <2>5, <2>6 DEF ExitInv
<1>2. ASSUME NEW exit \in DOMAIN exits, NEW coach \in Coaches, AddHint(exit, coach) PROVE ExitInv'
  <2> USE <1>2 DEF AddHint
  <2>1. byHand' \in 0..MaxByHand /\ [exit |-> exit, coach |-> coach] \in HintShapes
    BY DEF ExitInv, ExitShape, ExitTypeOK, ExitBounds, HintShapes
  <2>2. ExitShape' /\ RunsAreCurrent'
    BY <2>1 DEF ExitInv, ExitShape, ExitTypeOK, RunsAreCurrent, Covered
  <2>3. OneFileServesAStop'
    BY DEF ExitInv, OneFileServesAStop, From
  <2>4. \A claim : Votes(claim)' = Votes(claim)
    BY DEF Votes
  <2>5. CountedStand' /\ ToldStand'
    BY <2>4 DEF ExitInv, CountedStand, ToldStand
  <2>6. NothingDangles'
    BY DEF ExitInv, NothingDangles
  <2> QED BY <2>2, <2>3, <2>5, <2>6 DEF ExitInv
<1>3. CASE UNCHANGED exitVars
  <2> USE <1>3 DEF exitVars
  <2>1. ExitShape' /\ RunsAreCurrent'
    BY DEF ExitInv, ExitShape, ExitTypeOK, RunsAreCurrent, Covered
  <2>2. OneFileServesAStop'
    BY DEF ExitInv, OneFileServesAStop, From
  <2>3. \A claim : Votes(claim)' = Votes(claim)
    BY DEF Votes
  <2>4. CountedStand' /\ ToldStand'
    BY <2>3 DEF ExitInv, CountedStand, ToldStand
  <2>5. NothingDangles'
    BY DEF ExitInv, NothingDangles
  <2> QED BY <2>1, <2>2, <2>4, <2>5 DEF ExitInv
<1> QED BY <1>1, <1>2, <1>3

\* A report is made in three steps, none of which touches the rows of exits.
LEMMA CallKeeps ==
  ASSUME ExitBounds, ExitInv, NEW r \in Riders, NEW mine,
         calls' = [calls EXCEPT ![r] = mine],
         mine \subseteq [claim : Claims, step : {"checked", "staged", "repeated"}, votes : Nat],
         UNCHANGED <<exits, hints, registry, latest, overlapped, byHand>>,
         begun' \in 0..MaxReports
  PROVE  /\ calls' = [p \in Riders |-> calls'[p]] /\ calls'[r] = mine
         /\ \A p \in Riders \ {r} : calls'[p] = calls[p]
         /\ reports' \subseteq ReportRows /\ IsFiniteSet(reports') /\ confirmed' \subseteq Claims => ExitShape'
         /\ RunsAreCurrent' /\ OneFileServesAStop'
<1>1. /\ calls' = [p \in Riders |-> calls'[p]] /\ calls'[r] = mine
      /\ \A p \in Riders \ {r} : calls'[p] = calls[p]
  BY DEF ExitInv, ExitShape
<1>2. reports' \subseteq ReportRows /\ IsFiniteSet(reports') /\ confirmed' \subseteq Claims => ExitShape'
  BY <1>1 DEF ExitInv, ExitShape, ExitTypeOK
<1>3. RunsAreCurrent' /\ OneFileServesAStop'
  BY DEF ExitInv, RunsAreCurrent, Covered, OneFileServesAStop, From
<1> QED BY <1>1, <1>2, <1>3

LEMMA CheckKeeps ==
  ASSUME NEW r \in Riders, NEW claim \in Claims
  PROVE  ExitBounds /\ ExitInv /\ Check(r, claim) => ExitInv'
<1> SUFFICES ASSUME ExitBounds, ExitInv, Check(r, claim) PROVE ExitInv'
  OBVIOUS
<1> DEFINE mine == {[claim |-> claim, step |-> "checked", votes |-> 0]}
<1>1. /\ calls' = [calls EXCEPT ![r] = mine] /\ begun' \in 0..MaxReports
      /\ UNCHANGED <<exits, hints, reports, registry, latest, overlapped, confirmed, byHand>>
  BY DEF Check, ExitInv, ExitShape, ExitTypeOK, ExitBounds
<1>2. mine \subseteq [claim : Claims, step : {"checked", "staged", "repeated"}, votes : Nat]
  OBVIOUS
<1>3. \A k \in mine : k.step = "checked"
  OBVIOUS
<1> HIDE DEF mine
<1>4. /\ calls'[r] = mine /\ \A p \in Riders \ {r} : calls'[p] = calls[p]
      /\ ExitShape' /\ RunsAreCurrent' /\ OneFileServesAStop'
  BY <1>1, <1>2, CallKeeps DEF ExitInv, ExitShape, ExitTypeOK
<1>5. CountedStand'
  BY <1>1, <1>3, <1>4 DEF CountedStand, ExitInv, Votes
<1>6. ToldStand' /\ NothingDangles'
  BY <1>1 DEF ExitInv, ToldStand, Votes, NothingDangles
<1> QED BY <1>4, <1>5, <1>6 DEF ExitInv

LEMMA StoreKeeps ==
  ASSUME NEW r \in Riders
  PROVE  ExitBounds /\ ExitInv /\ StoreReport(r) => ExitInv'
<1> SUFFICES ASSUME ExitBounds, ExitInv, StoreReport(r) PROVE ExitInv'
  OBVIOUS
<1>1. PICK k \in calls[r] :
        LET new == k.claim.exit \in DOMAIN exits /\ r \notin Votes(k.claim)
            voters == Votes(k.claim) \cup (IF new THEN {r} ELSE {})
        IN /\ k.step = "checked"
           /\ calls' = [calls EXCEPT ![r] =
                {[k EXCEPT !.step = IF new THEN "staged" ELSE "repeated", !.votes = Cardinality(voters)]}]
           /\ UNCHANGED <<exits, hints, reports, registry, latest, overlapped, confirmed, begun, byHand>>
  BY DEF StoreReport
<1> DEFINE new == k.claim.exit \in DOMAIN exits /\ r \notin Votes(k.claim)
           voters == Votes(k.claim) \cup (IF new THEN {r} ELSE {})
           step == IF new THEN "staged" ELSE "repeated"
           now == [k EXCEPT !.step = step, !.votes = Cardinality(voters)]
           mine == {now}
<1>2. k \in [claim : Claims, step : {"checked", "staged", "repeated"}, votes : Nat]
  BY DEF ExitInv, ExitShape, ExitTypeOK
<1>3. IsFiniteSet(Votes(k.claim))
  BY VotesAreFinite DEF ExitInv, ExitShape, Votes
<1>4. Cardinality(voters) \in Nat
  BY <1>3, FS_AddElement, FS_CardinalityType
<1>5. /\ now.claim = k.claim /\ now.step = step /\ now.votes = Cardinality(voters)
      /\ now \in [claim : Claims, step : {"checked", "staged", "repeated"}, votes : Nat]
  BY <1>2, <1>4
<1>6. calls' = [calls EXCEPT ![r] = mine] /\ begun' \in 0..MaxReports
      /\ UNCHANGED <<exits, hints, reports, registry, latest, overlapped, confirmed, begun, byHand>>
  BY <1>1 DEF ExitInv, ExitShape, ExitTypeOK
<1>7. new => voters = Votes(k.claim) \cup {r}
  OBVIOUS
<1>8. k.claim.exit \in DOMAIN exits /\ ~new => r \in Votes(k.claim) /\ voters = Votes(k.claim) \cup {r}
  OBVIOUS
<1>9. mine \subseteq [claim : Claims, step : {"checked", "staged", "repeated"}, votes : Nat]
  BY <1>5
<1>10. \A q \in mine : q = now
  OBVIOUS
<1> HIDE DEF now, mine, voters
<1>11. /\ calls'[r] = mine /\ \A p \in Riders \ {r} : calls'[p] = calls[p]
       /\ ExitShape' /\ RunsAreCurrent' /\ OneFileServesAStop'
  BY <1>6, <1>9, CallKeeps DEF ExitInv, ExitShape, ExitTypeOK
<1>12. \A claim : Votes(claim)' = Votes(claim)
  BY <1>6 DEF Votes
<1>13. CountedStand'
  <2> SUFFICES ASSUME NEW p \in Riders, NEW q \in calls'[p]
               PROVE  /\ q.step = "staged" => q.claim.exit \in DOMAIN exits
                      /\ q.step = "repeated" /\ q.claim.exit \in DOMAIN exits => p \in Votes(q.claim)
                      /\ q.step # "checked" /\ q.claim.exit \in DOMAIN exits =>
                           q.votes <= Cardinality(Votes(q.claim) \cup {p})
    BY <1>6, <1>12 DEF CountedStand
  <2>1. CASE p # r
    BY <1>11, <2>1 DEF CountedStand, ExitInv
  <2>2. CASE p = r
    BY <1>4, <1>5, <1>7, <1>8, <1>10, <1>11, <2>2
  <2> QED BY <2>1, <2>2
<1>14. ToldStand' /\ NothingDangles'
  BY <1>6, <1>12 DEF ExitInv, ToldStand, NothingDangles
<1> QED BY <1>11, <1>13, <1>14 DEF ExitInv

LEMMA CommitReportKeeps ==
  ASSUME NEW r \in Riders
  PROVE  ExitBounds /\ ExitInv /\ CommitReport(r) => ExitInv'
<1> SUFFICES ASSUME ExitBounds, ExitInv, CommitReport(r) PROVE ExitInv'
  OBVIOUS
<1>1. PICK k \in calls[r] :
        /\ k.step # "checked"
        /\ reports' = reports \cup (IF k.step = "staged" THEN {[rider |-> r, claim |-> k.claim]} ELSE {})
        /\ confirmed' = confirmed \cup {claim \in {k.claim} : k.votes >= MinConfirmations /\ claim.exit \in DOMAIN exits}
        /\ calls' = [calls EXCEPT ![r] = {}]
        /\ UNCHANGED <<exits, hints, registry, latest, overlapped, begun, byHand>>
  BY DEF CommitReport
<1>2. k \in [claim : Claims, step : {"checked", "staged", "repeated"}, votes : Nat]
  BY DEF ExitInv, ExitShape, ExitTypeOK
<1>3. reports' \subseteq ReportRows /\ confirmed' \subseteq Claims
  BY <1>1, <1>2 DEF ExitInv, ExitShape, ExitTypeOK, ReportRows
<1>4. IsFiniteSet(reports')
  <2>1. CASE k.step = "staged"
    BY <1>1, <2>1, FS_AddElement DEF ExitInv, ExitShape
  <2>2. CASE k.step # "staged"
    BY <1>1, <2>2 DEF ExitInv, ExitShape
  <2> QED BY <2>1, <2>2
<1>5. /\ calls'[r] = {} /\ \A p \in Riders \ {r} : calls'[p] = calls[p]
      /\ ExitShape' /\ RunsAreCurrent' /\ OneFileServesAStop'
  BY <1>1, <1>3, <1>4, CallKeeps DEF ExitInv, ExitShape, ExitTypeOK
<1>6. \A claim : Votes(claim) \subseteq Votes(claim)'
  BY <1>1 DEF Votes
<1>7. \A claim : IsFiniteSet(Votes(claim)') /\ Cardinality(Votes(claim)) <= Cardinality(Votes(claim)')
                   /\ Cardinality(Votes(claim)) \in Nat /\ Cardinality(Votes(claim)') \in Nat
  <2> TAKE claim
  <2>1. IsFiniteSet(Votes(claim)')
    BY <1>4, VotesAreFinite DEF Votes
  <2> QED BY <1>6, <2>1, FS_Subset, FS_CardinalityType
<1>8. k.claim.exit \in DOMAIN exits => r \in Votes(k.claim)'
  <2>1. CASE k.step = "staged"
    BY <1>1, <2>1 DEF Votes
  <2>2. CASE k.step = "repeated"
    BY <1>6, <2>2 DEF CountedStand, ExitInv
  <2> QED BY <1>1, <1>2, <2>1, <2>2
<1>9. CountedStand'
  <2> SUFFICES ASSUME NEW p \in Riders \ {r}, NEW q \in calls[p]
               PROVE  /\ q.step = "staged" => q.claim.exit \in DOMAIN exits
                      /\ q.step = "repeated" /\ q.claim.exit \in DOMAIN exits => p \in Votes(q.claim)'
                      /\ q.step # "checked" /\ q.claim.exit \in DOMAIN exits =>
                           q.votes <= Cardinality(Votes(q.claim)' \cup {p})
    BY <1>1, <1>5 DEF CountedStand
  <2>1. q.votes \in Nat
    BY DEF ExitInv, ExitShape, ExitTypeOK
  <2>2. IsFiniteSet(Votes(q.claim)' \cup {p}) /\ Votes(q.claim) \cup {p} \subseteq Votes(q.claim)' \cup {p}
    BY <1>6, <1>7, FS_AddElement
  <2>3. /\ Cardinality(Votes(q.claim) \cup {p}) <= Cardinality(Votes(q.claim)' \cup {p})
        /\ Cardinality(Votes(q.claim) \cup {p}) \in Nat /\ Cardinality(Votes(q.claim)' \cup {p}) \in Nat
    BY <2>2, FS_Subset, FS_CardinalityType
  <2> QED BY <1>6, <2>1, <2>3 DEF ExitInv, CountedStand
<1>10. ToldStand'
  <2> SUFFICES ASSUME NEW claim \in confirmed'
               PROVE  claim.exit \in DOMAIN exits /\ Cardinality(Votes(claim)') >= MinConfirmations
    BY <1>1 DEF ToldStand
  <2>1. CASE claim \in confirmed
    BY <1>7, <2>1 DEF ExitInv, ToldStand, ExitBounds
  <2>2. CASE claim \notin confirmed
    <3>1. claim = k.claim /\ k.votes >= MinConfirmations /\ claim.exit \in DOMAIN exits
      BY <1>1, <2>2
    <3>2. k.votes <= Cardinality(Votes(claim) \cup {r})
      BY <1>1, <3>1 DEF ExitInv, CountedStand
    <3>3. Votes(claim) \cup {r} \subseteq Votes(claim)'
      BY <1>6, <1>8, <3>1
    <3>4. /\ Cardinality(Votes(claim) \cup {r}) <= Cardinality(Votes(claim)')
          /\ Cardinality(Votes(claim) \cup {r}) \in Nat
      BY <1>7, <3>3, FS_Subset, FS_CardinalityType
    <3> QED BY <1>2, <1>7, <3>1, <3>2, <3>4 DEF ExitBounds
  <2> QED BY <2>1, <2>2
<1>11. NothingDangles'
  <2>1. \A q \in reports' : q.claim.exit \in DOMAIN exits
    <3> TAKE q \in reports'
    <3>1. CASE q \in reports
      BY <3>1 DEF ExitInv, NothingDangles
    <3>2. CASE q \notin reports
      <4>1. k.step = "staged" /\ q = [rider |-> r, claim |-> k.claim]
        BY <1>1, <3>2
      <4>2. k.claim.exit \in DOMAIN exits
        BY <4>1 DEF ExitInv, CountedStand
      <4> QED BY <4>1, <4>2
    <3> QED BY <3>1, <3>2
  <2> QED BY <1>1, <2>1 DEF ExitInv, NothingDangles
<1> QED BY <1>5, <1>9, <1>10, <1>11 DEF ExitInv

LEMMA ExitInvStep == ExitBounds /\ ExitInv /\ [ExitNext]_exitVars => ExitInv'
BY LoadOsmKeeps, RegistryWritesKeeps, AddExitKeeps, OthersKeep, StoreKeeps, CommitReportKeeps, CheckKeeps DEF ExitNext

\* A claim with enough votes is among those the advice uses.
LEMMA ToldAreShown == ExitBounds /\ ExitInv => ConfirmedIsShown
<1> SUFFICES ASSUME ExitBounds, ExitInv, NEW claim \in confirmed
             PROVE  exits[claim.exit].name \in ConfirmedNames(exits[claim.exit].stop, claim.route, claim.coach)
  BY DEF ConfirmedIsShown
<1> DEFINE row == exits[claim.exit]
           saying == Saying(row.stop, claim.route, claim.coach, row.name)
<1>1. claim.exit \in DOMAIN exits /\ Cardinality(Votes(claim)) >= MinConfirmations
  BY DEF ExitInv, ToldStand
<1>2. row.name \in Names
  BY <1>1 DEF ExitInv, ExitShape, ExitTypeOK, ExitRows, Range
<1>3. claim.exit \in ExitsAt(row.stop) /\ claim.route \in Asked(claim.route)
  BY <1>1 DEF ExitsAt, Asked
<1>4. Votes(claim) \subseteq saying
  BY <1>3 DEF Votes, Saying
<1>5. IsFiniteSet(saying)
  <2> DEFINE those == {q \in reports : q.claim.coach = claim.coach /\ q.claim.route \in Asked(claim.route)
                                         /\ q.claim.exit \in ExitsAt(row.stop) /\ exits[q.claim.exit].name = row.name}
  <2>1. IsFiniteSet(those)
    BY FS_Subset DEF ExitInv, ExitShape
  <2> QED BY <2>1, RidersAreFinite DEF Saying
<1>6. Cardinality(saying) >= MinConfirmations
  <2>1. /\ Cardinality(Votes(claim)) <= Cardinality(saying)
        /\ Cardinality(Votes(claim)) \in Nat /\ Cardinality(saying) \in Nat
    BY <1>4, <1>5, FS_Subset, FS_CardinalityType
  <2> QED BY <1>1, <2>1 DEF ExitBounds
<1> QED BY <1>2, <1>6 DEF ConfirmedNames

\* A stop has the exits of one file unless an OSM load committed within a run of
\* the registry loader; a claim a rider was told is confirmed is shown, and no vote
\* or hint refers to an exit that is gone (replace_all, coach_exit_reports).
THEOREM ExitsHold == ExitBounds => (ExitSpec => []ExitsAreRight)
<1> SUFFICES ASSUME ExitBounds PROVE ExitSpec => []ExitsAreRight
  OBVIOUS
<1>1. ExitInit => ExitInv
  BY ExitInvInit
<1>2. ExitInv /\ [ExitNext]_exitVars => ExitInv'
  BY ExitInvStep
<1>3. ExitInv => ExitsAreRight
  BY ToldAreShown DEF ExitInv, ExitsAreRight
<1> QED BY <1>1, <1>2, <1>3, PTL DEF ExitSpec

-----------------------------------------------------------------------------
(***************************************************************************)
(* The service alerts: ids are handed out in order, and what was written   *)
(* or is being written was announced before.                               *)
(***************************************************************************)
AlertTyped ==
  /\ DOMAIN alerts \subseteq 1..MaxAlerts /\ \A i \in DOMAIN alerts : alerts[i] \in AlertRows
  /\ draft \subseteq [id : 1..MaxAlerts, row : AlertRows, step : {"flushed", "framed"}]
  /\ frames \cup events \cup aborted \subseteq 1..MaxAlerts
  /\ alertClock \in 0..MaxAlertTime

\* One request at a time; its id follows those written; what it framed is framed.
OneDraft ==
  /\ \A d, e \in draft : d = e
  /\ \A d \in draft : d.step = "framed" => d.id \in frames

AnnounceInv ==
  /\ AlertTyped /\ OneDraft
  /\ \E n \in 0..MaxAlerts : Written = 1..n
  /\ DOMAIN alerts \cup events \subseteq frames
  /\ frames \subseteq Written

LEMMA NewestIs ==
  ASSUME NEW n \in Nat
  PROVE  Newest(1..n) = n
<1>1. n \in (1..n) \cup {0} /\ \A y \in (1..n) \cup {0} : n >= y
  OBVIOUS
<1>2. \A x \in (1..n) \cup {0} : (\A y \in (1..n) \cup {0} : x >= y) => x = n
  BY <1>1
<1>. QED BY <1>1, <1>2 DEF Newest, Max

LEMMA AnnouncedInit == NoticeBounds /\ NoticeInit => AnnounceInv
<1>. SUFFICES ASSUME NoticeBounds, NoticeInit PROVE AnnounceInv
  OBVIOUS
<1>1. DOMAIN alerts = {}
  BY DEF NoticeInit
<1>2. Written = 1..0
  BY <1>1 DEF NoticeInit, Written
<1>. QED BY <1>1, <1>2 DEF NoticeInit, NoticeBounds, AnnounceInv, AlertTyped, OneDraft

LEMMA CreateKeeps ==
  ASSUME NoticeBounds, AnnounceInv, NEW row \in AlertRows, Create(row)
  PROVE  AnnounceInv'
<1>1. PICK n \in 0..MaxAlerts : Written = 1..n
  BY DEF AnnounceInv
<1>2. n \in Nat /\ n < MaxAlerts
  <2>1. n \in Nat /\ Cardinality(1..n) = n
    BY FS_Interval DEF NoticeBounds
  <2>. QED BY <1>1, <2>1 DEF Create
<1>3. draft' = {[id |-> n + 1, row |-> row, step |-> "flushed"]}
  BY <1>1, <1>2, NewestIs DEF Create
<1>4. Written' = 1..(n + 1)
  <2>1. {d.id : d \in draft'} = {n + 1}
    BY <1>3
  <2>2. Written' = (DOMAIN alerts \cup aborted) \cup {n + 1} /\ Written = DOMAIN alerts \cup aborted
    BY <2>1 DEF Create, Written
  <2>. QED BY <1>1, <1>2, <2>2
<1>5. AlertTyped'
  <2>1. draft' \subseteq [id : 1..MaxAlerts, row : AlertRows, step : {"flushed", "framed"}]
    <3>1. n + 1 \in 1..MaxAlerts
      BY <1>2 DEF NoticeBounds
    <3>. QED BY <1>3, <3>1
  <2>. QED BY <2>1 DEF AnnounceInv, AlertTyped, Create
<1>6. OneDraft'
  BY <1>3 DEF OneDraft
<1>. QED BY <1>1, <1>2, <1>4, <1>5, <1>6 DEF AnnounceInv, Create, NoticeBounds

LEMMA AnnounceKeeps ==
  ASSUME NoticeBounds, AnnounceInv, Announce
  PROVE  AnnounceInv'
<1>1. PICK d \in draft :
        /\ draft' = {[d EXCEPT !.step = "framed"]}
        /\ frames' = frames \cup {d.id}
        /\ events' \in {events, events \cup {d.id}}
        /\ UNCHANGED <<alerts, aborted, alertClock>>
  BY DEF Announce
<1>2. draft = {d} /\ d \in [id : 1..MaxAlerts, row : AlertRows, step : {"flushed", "framed"}]
  BY DEF AnnounceInv, OneDraft, AlertTyped
<1>3. [d EXCEPT !.step = "framed"] = [id |-> d.id, row |-> d.row, step |-> "framed"]
  BY <1>2
<1>4. {e.id : e \in draft'} = {d.id} /\ {e.id : e \in draft} = {d.id}
  BY <1>1, <1>2, <1>3
<1>5. Written' = Written /\ d.id \in Written
  BY <1>1, <1>4 DEF Written
<1>6. AlertTyped'
  BY <1>1, <1>2, <1>3 DEF AnnounceInv, AlertTyped, AlertRows
<1>7. OneDraft'
  BY <1>1, <1>3 DEF OneDraft
<1>. QED BY <1>1, <1>5, <1>6, <1>7 DEF AnnounceInv

LEMMA CommitAlertKeeps ==
  ASSUME NoticeBounds, AnnounceInv, CommitAlert
  PROVE  AnnounceInv'
<1>1. PICK d \in draft :
        /\ d.step = "framed" /\ alerts' = With(d) /\ draft' = {}
        /\ UNCHANGED <<frames, events, aborted, alertClock>>
  BY DEF CommitAlert
<1>2. draft = {d} /\ d \in [id : 1..MaxAlerts, row : AlertRows, step : {"flushed", "framed"}] /\ d.id \in frames
  BY <1>1 DEF AnnounceInv, OneDraft, AlertTyped
<1>3. DOMAIN alerts' = DOMAIN alerts \cup {d.id}
  BY <1>1 DEF With
<1>4. Written' = Written
  <2>1. {e.id : e \in draft} = {d.id} /\ {e.id : e \in draft'} = {}
    BY <1>1, <1>2
  <2>. QED BY <1>1, <1>3, <2>1 DEF Written
<1>5. AlertTyped'
  <2>1. \A i \in DOMAIN alerts' : alerts'[i] \in AlertRows
    BY <1>1, <1>2, <1>3 DEF With, AnnounceInv, AlertTyped
  <2>. QED BY <1>1, <1>2, <1>3, <2>1 DEF AnnounceInv, AlertTyped, AlertRows
<1>. QED BY <1>1, <1>2, <1>3, <1>4, <1>5 DEF AnnounceInv, OneDraft

LEMMA OtherAlertStepsKeep ==
  ASSUME NoticeBounds, AnnounceInv,
         AbortAlert \/ Pass \/ (\E i \in DOMAIN alerts : Revoke(i)) \/ UNCHANGED alertVars
  PROVE  AnnounceInv'
<1>1. CASE AbortAlert
  <2>1. Written' = Written
    BY <1>1 DEF AbortAlert, Written
  <2>2. AlertTyped'
    BY <1>1 DEF AbortAlert, AnnounceInv, AlertTyped, AlertRows
  <2>. QED BY <1>1, <2>1, <2>2 DEF AbortAlert, AnnounceInv, OneDraft
<1>2. CASE Pass
  <2>1. Written' = Written /\ AlertTyped'
    BY <1>2 DEF Pass, Written, AnnounceInv, AlertTyped, AlertRows, NoticeBounds
  <2>. QED BY <1>2, <2>1 DEF Pass, AnnounceInv, OneDraft
<1>3. CASE \E i \in DOMAIN alerts : Revoke(i)
  <2>1. PICK i \in DOMAIN alerts : Revoke(i)
    BY <1>3
  <2>2. DOMAIN alerts' = DOMAIN alerts /\ UNCHANGED <<draft, frames, events, aborted, alertClock>>
    BY <2>1 DEF Revoke
  <2>3. Written' = Written
    BY <2>2 DEF Written
  <2>4. \A j \in DOMAIN alerts' : alerts'[j] \in AlertRows
    <3>1. \A j \in DOMAIN alerts : alerts[j] \in AlertRows
      BY DEF AnnounceInv, AlertTyped
    <3>2. [alerts[i] EXCEPT !.revoked = TRUE] \in AlertRows
      BY <3>1 DEF AlertRows
    <3>3. \A j \in DOMAIN alerts : alerts'[j] = IF j = i THEN [alerts[i] EXCEPT !.revoked = TRUE] ELSE alerts[j]
      BY <2>1 DEF Revoke
    <3>. QED BY <2>2, <3>1, <3>2, <3>3
  <2>5. AlertTyped'
    BY <2>2, <2>4 DEF AnnounceInv, AlertTyped, AlertRows
  <2>. QED BY <2>2, <2>3, <2>5 DEF AnnounceInv, OneDraft
<1>4. CASE UNCHANGED alertVars
  <2>1. Written' = Written /\ AlertTyped'
    BY <1>4 DEF alertVars, Written, AnnounceInv, AlertTyped, AlertRows
  <2>. QED BY <1>4, <2>1 DEF alertVars, AnnounceInv, OneDraft
<1>. QED BY <1>1, <1>2, <1>3, <1>4

LEMMA AnnounceStep == NoticeBounds /\ AnnounceInv /\ [AlertNext]_alertVars => AnnounceInv'
<1>. SUFFICES ASSUME NoticeBounds, AnnounceInv, [AlertNext]_alertVars PROVE AnnounceInv'
  OBVIOUS
<1>1. ASSUME NEW starts \in {alertClock, MaxAlertTime}, NEW ends \in {{}, {MaxAlertTime}}, NEW route \in {{}, {"red"}},
             Create([starts |-> starts, ends |-> ends, route |-> route, revoked |-> FALSE])
      PROVE  AnnounceInv'
  <2>1. [starts |-> starts, ends |-> ends, route |-> route, revoked |-> FALSE] \in AlertRows
    BY DEF AlertRows, AnnounceInv, AlertTyped, NoticeBounds
  <2>. QED BY <1>1, <2>1, CreateKeeps
<1>. QED BY <1>1, AnnounceKeeps, CommitAlertKeeps, OtherAlertStepsKeep DEF AlertNext

LEMMA AnnouncedFollows == AnnounceInv => AlertsAreAnnounced
  BY DEF AnnounceInv, Written, AlertsAreAnnounced, Active

-----------------------------------------------------------------------------
(***************************************************************************)
(* The inbox: a page shows rows that are committed and newer than the      *)
(* phone's mark; what the mark leaves behind was overtaken or crowded out. *)
(***************************************************************************)
InboxTyped ==
  /\ lastId \in 0..MaxRows /\ lastSeen \in 0..lastId
  /\ rows \subseteq 1..lastId /\ shown \subseteq rows /\ overtaken \subseteq 1..lastId
  /\ open \in [Writers -> SUBSET (1..lastId)]
  /\ stamp \in [Writers -> SUBSET Nat]
  /\ DOMAIN created = 1..lastId /\ \A i \in 1..lastId : created[i] \in Nat
  /\ page \subseteq [ids : SUBSET (1..lastId), read : SUBSET (1..lastId)]

\* A row is committed, or open in one transaction.
EachRowOnce ==
  \A v \in Writers : open[v] \cap rows = {} /\ \A w \in Writers \ {v} : open[v] \cap open[w] = {}

StampsAreBounded ==
  \E n \in Nat :
    /\ \A w \in Writers : \A s \in stamp[w] : s <= n
    /\ \A i \in 1..lastId : created[i] <= n

\* The two ways in which a row is missed.
Passed(i) == i \in overtaken \/ Cardinality({j \in rows : Later(j, i)}) >= PageSize

\* The rows above the mark are read, to be shown or shown; those left behind by the mark have passed.
LeftBehind(mark, read) ==
  /\ \A i \in rows \ read : i <= mark => Passed(i)
  /\ \A w \in Writers : \A i \in open[w] : i <= mark => i \in overtaken

PagesAreHonest ==
  \A p \in page :
    /\ p.ids \subseteq p.read /\ p.read \subseteq rows
    /\ \A i \in p.read : i > lastSeen => i \in p.ids \cup shown
    /\ LeftBehind(Newest(p.read), p.read)

InboxInv ==
  InboxTyped /\ EachRowOnce /\ StampsAreBounded /\ PagesAreHonest /\ LeftBehind(lastSeen, shown)

LEMMA BoundedHasMax ==
  ASSUME NEW S \in SUBSET Nat, S # {}, NEW n \in Nat, \A x \in S : x <= n
  PROVE  Max(S) \in S /\ \A y \in S : y <= Max(S)
<1>1. {n - x : x \in S} \subseteq Nat /\ {n - x : x \in S} # {}
  <2>1. \A x \in S : n - x \in Nat
    OBVIOUS
  <2>. QED BY <2>1
<1>2. PICK m \in {n - x : x \in S} : \A k \in {n - x : x \in S} : ~ (<<k, m>> \in OpToRel(<, Nat))
  BY <1>1, NatLessThanWellFounded, WFMin
<1>3. \A k \in {n - x : x \in S} : ~ (k < m)
  BY <1>1, <1>2 DEF OpToRel
<1>4. PICK x \in S : m = n - x
  BY <1>2
<1>5. \A y \in S : x >= y
  <2>. TAKE y \in S
  <2>1. ~ (n - y < n - x)
    BY <1>3, <1>4
  <2>. QED BY <2>1
<1>6. Max(S) \in S /\ \A y \in S : Max(S) >= y
  BY <1>5 DEF Max
<1>7. \A y \in S : y <= Max(S)
  BY <1>6
<1>. QED BY <1>6, <1>7

LEMMA NewestFacts ==
  ASSUME NEW n \in Nat, NEW S \in SUBSET (1..n)
  PROVE  Newest(S) \in S \cup {0} /\ Newest(S) \in 0..n /\ \A i \in S : i <= Newest(S)
<1>. DEFINE T == S \cup {0}
<1>1. T \in SUBSET Nat /\ T # {} /\ \A x \in T : x <= n
  OBVIOUS
<1>2. Newest(S) = Max(T)
  BY DEF Newest
<1>3. Max(T) \in T /\ \A y \in T : y <= Max(T)
  <2>. HIDE DEF T
  <2>. QED BY <1>1, BoundedHasMax
<1>4. Newest(S) \in T /\ \A y \in T : y <= Newest(S)
  BY <1>2, <1>3
<1>5. \A y \in T : y \in 0..n
  OBVIOUS
<1>. QED BY <1>4, <1>5

LEMMA PassedStays ==
  ASSUME NoticeBounds, lastId \in Nat, rows' \in SUBSET (1..lastId), rows \subseteq rows',
         overtaken \subseteq overtaken', NEW i \in 1..lastId,
         \A j \in 1..lastId : created'[j] = created[j], Passed(i)
  PROVE  Passed(i)'
<1>1. CASE i \in overtaken
  BY <1>1 DEF Passed
<1>2. CASE Cardinality({j \in rows : Later(j, i)}) >= PageSize
  <2>1. {j \in rows : Later(j, i)} \subseteq {j \in rows' : Later(j, i)'}
    BY DEF Later
  <2>2. IsFiniteSet(rows')
    <3>1. IsFiniteSet(1..lastId)
      BY FS_Interval
    <3>. QED BY <3>1, FS_Subset
  <2>3. IsFiniteSet({j \in rows' : Later(j, i)'})
    BY <2>2, FS_Subset
  <2>4. /\ Cardinality({j \in rows : Later(j, i)}) \in Nat /\ Cardinality({j \in rows' : Later(j, i)'}) \in Nat
        /\ Cardinality({j \in rows : Later(j, i)}) <= Cardinality({j \in rows' : Later(j, i)'})
    BY <2>1, <2>3, FS_Subset, FS_CardinalityType
  <2>5. Cardinality({j \in rows' : Later(j, i)'}) >= PageSize
    BY <1>2, <2>4 DEF NoticeBounds
  <2>. QED BY <2>5 DEF Passed
<1>. QED BY <1>1, <1>2 DEF Passed

LEMMA InboxInit == NoticeBounds /\ NoticeInit => InboxInv
<1>. SUFFICES ASSUME NoticeBounds, NoticeInit PROVE InboxInv
  OBVIOUS
<1>1. created = <<>> /\ DOMAIN created = 1..0 /\ 1..0 = {}
  BY DEF NoticeInit
<1>2. InboxTyped
  BY <1>1 DEF NoticeInit, InboxTyped, NoticeBounds
<1>3. StampsAreBounded
  BY <1>1 DEF NoticeInit, StampsAreBounded
<1>4. EachRowOnce /\ PagesAreHonest /\ LeftBehind(lastSeen, shown)
  BY DEF NoticeInit, EachRowOnce, PagesAreHonest, LeftBehind
<1>. QED BY <1>2, <1>3, <1>4 DEF InboxInv

LEMMA StampKeeps ==
  ASSUME NoticeBounds, InboxInv, NEW w \in Writers, Stamp(w)
  PROVE  InboxInv'
<1>. DEFINE waiting == UNION {stamp[v] : v \in Writers}
            given == {created[i] : i \in DOMAIN created}
            before == {0} \cup waiting \cup given
<1>1. PICK n \in Nat : (\A v \in Writers : \A s \in stamp[v] : s <= n) /\ \A i \in 1..lastId : created[i] <= n
  BY DEF InboxInv, StampsAreBounded
<1>2. before \in SUBSET Nat /\ before # {} /\ \A x \in before : x <= n
  <2>1. ASSUME NEW x \in waiting PROVE x \in Nat /\ x <= n
    <3>1. PICK v \in Writers : x \in stamp[v]
      BY <2>1
    <3>. QED BY <1>1, <3>1 DEF InboxInv, InboxTyped
  <2>2. ASSUME NEW x \in given PROVE x \in Nat /\ x <= n
    <3>1. PICK i \in 1..lastId : x = created[i]
      BY <2>2 DEF InboxInv, InboxTyped
    <3>. QED BY <1>1, <3>1 DEF InboxInv, InboxTyped
  <2>. HIDE DEF waiting, given
  <2>. QED BY <2>1, <2>2
<1>3. Max(before) \in Nat /\ Max(before) <= n
  <2>. HIDE DEF before
  <2>1. Max(before) \in before
    BY <1>2, BoundedHasMax
  <2>. QED BY <1>2, <2>1
<1>. DEFINE new == 1 + Max(before)
<1>4. stamp' = [stamp EXCEPT ![w] = {new}] /\ new \in Nat /\ new <= n + 1
  <2>1. stamp' = [stamp EXCEPT ![w] = {new}]
    BY DEF Stamp
  <2>. HIDE DEF before
  <2>. QED BY <1>3, <2>1
<1>. HIDE DEF new
<1>5. UNCHANGED <<rows, open, created, lastId, page, lastSeen, shown, overtaken>>
  BY DEF Stamp
<1>6. InboxTyped'
  BY <1>4, <1>5 DEF InboxInv, InboxTyped
<1>7. StampsAreBounded'
  <2>1. n + 1 \in Nat
    OBVIOUS
  <2>2. \A v \in Writers : \A s \in stamp'[v] : s <= n + 1
    BY <1>1, <1>4 DEF InboxInv, InboxTyped
  <2>3. \A i \in 1..lastId' : created'[i] <= n + 1
    BY <1>1, <1>5 DEF InboxInv, InboxTyped
  <2>. QED BY <2>1, <2>2, <2>3 DEF StampsAreBounded
<1>8. EachRowOnce' /\ PagesAreHonest' /\ LeftBehind(lastSeen, shown)'
  BY <1>5 DEF InboxInv, EachRowOnce, PagesAreHonest, LeftBehind, Passed, Later
<1>. QED BY <1>6, <1>7, <1>8 DEF InboxInv

LEMMA FlushKeeps ==
  ASSUME NoticeBounds, InboxInv, NEW w \in Writers, Flush(w)
  PROVE  InboxInv'
<1>. DEFINE id == lastId + 1
<1>1. PICK s \in stamp[w] :
        /\ lastId < MaxRows /\ lastId' = id
        /\ created' = [i \in DOMAIN created \cup {id} |-> IF i = id THEN s ELSE created[i]]
        /\ open' = [open EXCEPT ![w] = @ \cup {id}]
        /\ stamp' = [stamp EXCEPT ![w] = {}]
        /\ UNCHANGED <<rows, page, lastSeen, shown, overtaken>>
  BY DEF Flush
<1>2. lastId \in Nat /\ 1..id = (1..lastId) \cup {id} /\ id \notin 1..lastId /\ id \in 0..MaxRows
  BY <1>1 DEF InboxInv, InboxTyped, NoticeBounds
<1>3. /\ \A i \in 1..lastId : created'[i] = created[i]
      /\ created'[id] = s /\ s \in Nat /\ DOMAIN created' = 1..id
  BY <1>1, <1>2 DEF InboxInv, InboxTyped
<1>4. \A v \in Writers : open'[v] = IF v = w THEN open[v] \cup {id} ELSE open[v]
  BY <1>1 DEF InboxInv, InboxTyped
<1>. HIDE DEF id
<1>5. InboxTyped'
  <2>1. lastId' \in 0..MaxRows /\ lastSeen' \in 0..lastId'
    BY <1>1, <1>2 DEF InboxInv, InboxTyped, id
  <2>2. rows' \subseteq 1..lastId' /\ shown' \subseteq rows' /\ overtaken' \subseteq 1..lastId'
    BY <1>1, <1>2 DEF InboxInv, InboxTyped
  <2>3. open' \in [Writers -> SUBSET (1..lastId')]
    BY <1>1, <1>2 DEF InboxInv, InboxTyped
  <2>4. stamp' \in [Writers -> SUBSET Nat]
    BY <1>1 DEF InboxInv, InboxTyped
  <2>5. \A i \in 1..lastId' : created'[i] \in Nat
    BY <1>1, <1>2, <1>3 DEF InboxInv, InboxTyped
  <2>6. page' \subseteq [ids : SUBSET (1..lastId'), read : SUBSET (1..lastId')]
    BY <1>1, <1>2 DEF InboxInv, InboxTyped
  <2>. QED BY <1>1, <1>3, <2>1, <2>2, <2>3, <2>4, <2>5, <2>6 DEF InboxTyped
<1>6. EachRowOnce'
  BY <1>1, <1>2, <1>4 DEF InboxInv, InboxTyped, EachRowOnce
<1>7. StampsAreBounded'
  <2>1. PICK n \in Nat : (\A v \in Writers : \A t \in stamp[v] : t <= n) /\ \A i \in 1..lastId : created[i] <= n
    BY DEF InboxInv, StampsAreBounded
  <2>2. \A v \in Writers : \A t \in stamp'[v] : t <= n
    BY <1>1, <2>1 DEF InboxInv, InboxTyped
  <2>3. \A i \in 1..lastId' : created'[i] <= n
    BY <1>1, <1>2, <1>3, <2>1
  <2>. QED BY <2>2, <2>3 DEF StampsAreBounded
<1>8. ASSUME NEW i \in 1..lastId, Passed(i) PROVE Passed(i)'
  BY <1>1, <1>2, <1>3, <1>8, PassedStays DEF InboxInv, InboxTyped
<1>9. ASSUME NEW mark \in 0..lastId, NEW read, LeftBehind(mark, read)
      PROVE  /\ \A i \in rows' \ read : i <= mark => Passed(i)'
             /\ \A v \in Writers : \A i \in open'[v] : i <= mark => i \in overtaken'
  <2>1. ASSUME NEW i \in rows' \ read, i <= mark PROVE Passed(i)'
    BY <1>1, <1>8, <1>9, <2>1 DEF LeftBehind, InboxInv, InboxTyped
  <2>2. ASSUME NEW v \in Writers, NEW i \in open'[v], i <= mark PROVE i \in overtaken'
    <3>1. i # id
      BY <1>2, <2>2 DEF id
    <3>2. i \in open[v]
      BY <1>4, <2>2, <3>1
    <3>. QED BY <1>1, <1>9, <2>2, <3>2 DEF LeftBehind
  <2>. QED BY <2>1, <2>2
<1>10. LeftBehind(lastSeen, shown)'
  BY <1>1, <1>9 DEF InboxInv, InboxTyped, LeftBehind
<1>11. PagesAreHonest'
  <2>1. ASSUME NEW p \in page
        PROVE  /\ p.ids \subseteq p.read /\ p.read \subseteq rows'
               /\ \A i \in p.read : i > lastSeen' => i \in p.ids \cup shown'
               /\ LeftBehind(Newest(p.read), p.read)'
    <3>1. p.read \in SUBSET (1..lastId)
      BY DEF InboxInv, InboxTyped
    <3>2. Newest(p.read) \in 0..lastId
      BY <1>2, <3>1, NewestFacts
    <3>3. LeftBehind(Newest(p.read), p.read)'
      BY <1>9, <3>2 DEF InboxInv, PagesAreHonest, LeftBehind
    <3>. QED BY <1>1, <3>3 DEF InboxInv, PagesAreHonest
  <2>. QED BY <1>1, <2>1 DEF PagesAreHonest
<1>. QED BY <1>5, <1>6, <1>7, <1>10, <1>11 DEF InboxInv

LEMMA EndsKeep ==
  ASSUME NoticeBounds, InboxInv, NEW w \in Writers, CommitRows(w) \/ RollBack(w)
  PROVE  InboxInv'
<1>1. /\ open' = [open EXCEPT ![w] = {}] /\ stamp' \in {stamp, [stamp EXCEPT ![w] = {}]}
      /\ rows \subseteq rows' /\ rows' \subseteq rows \cup open[w]
      /\ UNCHANGED <<created, lastId, page, lastSeen, shown, overtaken>>
  BY DEF CommitRows, RollBack
<1>2. \A v \in Writers : open'[v] = IF v = w THEN {} ELSE open[v]
  BY <1>1 DEF InboxInv, InboxTyped
<1>3. lastId \in Nat /\ rows' \subseteq 1..lastId
  BY <1>1 DEF InboxInv, InboxTyped
<1>4. InboxTyped'
  BY <1>1, <1>3 DEF InboxInv, InboxTyped
<1>5. EachRowOnce'
  BY <1>1, <1>2 DEF InboxInv, EachRowOnce
<1>6. StampsAreBounded'
  <2>1. \A v \in Writers : stamp'[v] \subseteq stamp[v]
    BY <1>1 DEF InboxInv, InboxTyped
  <2>. QED BY <1>1, <2>1 DEF InboxInv, StampsAreBounded
<1>7. ASSUME NEW i \in 1..lastId, Passed(i) PROVE Passed(i)'
  BY <1>1, <1>3, <1>7, PassedStays
<1>8. ASSUME NEW mark, NEW read, LeftBehind(mark, read)
      PROVE  /\ \A i \in rows' \ read : i <= mark => Passed(i)'
             /\ \A v \in Writers : \A i \in open'[v] : i <= mark => i \in overtaken'
  <2>1. ASSUME NEW i \in rows' \ read, i <= mark PROVE Passed(i)'
    <3>1. CASE i \in rows
      BY <1>7, <1>8, <2>1, <3>1 DEF LeftBehind, InboxInv, InboxTyped
    <3>2. CASE i \in open[w]
      BY <1>1, <1>8, <2>1, <3>2 DEF LeftBehind, Passed
    <3>. QED BY <1>1, <3>1, <3>2
  <2>2. ASSUME NEW v \in Writers, NEW i \in open'[v], i <= mark PROVE i \in overtaken'
    BY <1>1, <1>2, <1>8, <2>2 DEF LeftBehind
  <2>. QED BY <2>1, <2>2
<1>9. LeftBehind(lastSeen, shown)'
  BY <1>1, <1>8 DEF InboxInv, LeftBehind
<1>10. PagesAreHonest'
  <2>1. ASSUME NEW p \in page
        PROVE  /\ p.ids \subseteq p.read /\ p.read \subseteq rows'
               /\ \A i \in p.read : i > lastSeen' => i \in p.ids \cup shown'
               /\ LeftBehind(Newest(p.read), p.read)'
    <3>1. LeftBehind(Newest(p.read), p.read)'
      BY <1>8 DEF InboxInv, PagesAreHonest, LeftBehind
    <3>. QED BY <1>1, <3>1 DEF InboxInv, PagesAreHonest
  <2>. QED BY <1>1, <2>1 DEF PagesAreHonest
<1>. QED BY <1>4, <1>5, <1>6, <1>9, <1>10 DEF InboxInv

LEMMA FetchKeeps ==
  ASSUME NoticeBounds, InboxInv, Fetch
  PROVE  InboxInv'
<1>. DEFINE read == ListForUser
            ids == {i \in ListForUser : i > lastSeen}
<1>1. /\ page' = {[ids |-> ids, read |-> read]}
      /\ overtaken' = overtaken \cup {i \in UNION {open[w] : w \in Writers} : i < Newest(read)}
      /\ UNCHANGED <<rows, open, created, lastId, stamp, lastSeen, shown>>
  BY DEF Fetch
<1>2. lastId \in Nat /\ read \subseteq rows /\ read \subseteq 1..lastId /\ ids \subseteq read
  <2>1. lastId \in Nat /\ rows \subseteq 1..lastId
    BY DEF InboxInv, InboxTyped, NoticeBounds
  <2>. QED BY <2>1 DEF ListForUser
<1>3. \A i \in rows \ read : Cardinality({j \in rows : Later(j, i)}) >= PageSize
  <2>1. ASSUME NEW i \in rows PROVE Cardinality({j \in rows : Later(j, i)}) \in Nat
    <3>1. IsFiniteSet(rows)
      <4>1. IsFiniteSet(1..lastId) /\ rows \subseteq 1..lastId
        BY <1>2, FS_Interval DEF InboxInv, InboxTyped
      <4>. QED BY <4>1, FS_Subset
    <3>. QED BY <3>1, FS_Subset, FS_CardinalityType
  <2>. QED BY <2>1 DEF ListForUser, NoticeBounds
<1>4. Newest(read) \in read \cup {0} /\ Newest(read) \in 0..lastId
  BY <1>2, NewestFacts
<1>5. \A i \in read : i > lastSeen => i \in ids
  OBVIOUS
<1>. HIDE DEF read, ids
<1>6. InboxTyped'
  <2>1. overtaken' \subseteq 1..lastId
    BY <1>1 DEF InboxInv, InboxTyped
  <2>2. page' \subseteq [ids : SUBSET (1..lastId), read : SUBSET (1..lastId)]
    BY <1>1, <1>2
  <2>. QED BY <1>1, <2>1, <2>2 DEF InboxInv, InboxTyped
<1>7. EachRowOnce' /\ StampsAreBounded'
  BY <1>1 DEF InboxInv, EachRowOnce, StampsAreBounded
<1>8. \A i : Passed(i) => Passed(i)'
  BY <1>1 DEF Passed, Later
<1>9. LeftBehind(lastSeen, shown)'
  <2>1. LeftBehind(lastSeen, shown)
    BY DEF InboxInv
  <2>. QED BY <1>1, <1>8, <2>1 DEF LeftBehind
<1>10. LeftBehind(Newest(read), read)'
  <2>1. ASSUME NEW i \in rows \ read PROVE Passed(i)'
    BY <1>3, <1>8 DEF Passed
  <2>2. ASSUME NEW w \in Writers, NEW i \in open[w], i <= Newest(read) PROVE i \in overtaken'
    <3>1. i \in 1..lastId /\ i \notin read
      BY <1>2 DEF InboxInv, InboxTyped, EachRowOnce
    <3>2. i < Newest(read)
      BY <1>2, <1>4, <2>2, <3>1
    <3>. QED BY <1>1, <3>2
  <2>3. read' = read
    BY <1>1 DEF read, ListForUser, Later
  <2>. QED BY <1>1, <2>1, <2>2, <2>3 DEF LeftBehind
<1>11. PagesAreHonest'
  <2>1. \A p \in page' : p.ids = ids /\ p.read = read
    BY <1>1
  <2>2. read' = read
    BY <1>1 DEF read, ListForUser, Later
  <2>. QED BY <1>1, <1>2, <1>5, <1>10, <2>1, <2>2 DEF PagesAreHonest, LeftBehind
<1>. QED BY <1>6, <1>7, <1>9, <1>11 DEF InboxInv

\* Of rows that are there, one is older than all others.
LEMMA OldestIs ==
  ASSUME InboxTyped, NoticeBounds, NEW ids \in SUBSET (1..lastId), ids # {}
  PROVE  (CHOOSE i \in ids : \A j \in ids \ {i} : Later(j, i)) \in ids
<1>. DEFINE times == {created[i] : i \in ids}
<1>0. lastId \in Nat /\ \A i \in ids : created[i] \in Nat /\ i \in Nat
  BY DEF InboxTyped, NoticeBounds
<1>1. times \subseteq Nat /\ times # {}
  BY <1>0
<1>2. PICK t \in times : \A u \in times : ~ (<<u, t>> \in OpToRel(<, Nat))
  <2>. HIDE DEF times
  <2>. QED BY <1>1, NatLessThanWellFounded, WFMin
<1>. DEFINE first == {i \in ids : created[i] = t}
<1>3. first \subseteq Nat /\ first # {}
  BY <1>0, <1>2
<1>4. PICK i \in first : \A j \in first : ~ (<<j, i>> \in OpToRel(<, Nat))
  <2>. HIDE DEF first
  <2>. QED BY <1>3, NatLessThanWellFounded, WFMin
<1>5. ASSUME NEW j \in ids \ {i} PROVE Later(j, i)
  <2>1. created[j] \in Nat /\ created[i] = t /\ t \in Nat /\ i \in Nat /\ j \in Nat
    BY <1>0, <1>1, <1>2, <1>4
  <2>2. ~ (created[j] < t)
    BY <1>1, <1>2, <2>1 DEF OpToRel
  <2>3. created[j] = t => ~ (j < i)
    BY <1>3, <1>4, <2>1 DEF OpToRel
  <2>. QED BY <2>1, <2>2, <2>3 DEF Later
<1>. QED BY <1>4, <1>5

LEMMA ShowKeeps ==
  ASSUME NoticeBounds, InboxInv, Show
  PROVE  InboxInv'
<1>1. PICK p \in page :
        /\ p.ids # {}
        /\ LET oldest == CHOOSE i \in p.ids : \A j \in p.ids \ {i} : Later(j, i)
           IN /\ shown' = shown \cup {oldest}
              /\ page' = {[p EXCEPT !.ids = @ \ {oldest}]}
        /\ UNCHANGED <<rows, open, created, lastId, stamp, lastSeen, overtaken>>
  BY DEF Show
<1>2. p \in [ids : SUBSET (1..lastId), read : SUBSET (1..lastId)]
  BY DEF InboxInv, InboxTyped
<1>3. PICK oldest \in p.ids :
        /\ shown' = shown \cup {oldest}
        /\ page' = {[ids |-> p.ids \ {oldest}, read |-> p.read]}
  <2>. DEFINE old == CHOOSE i \in p.ids : \A j \in p.ids \ {i} : Later(j, i)
  <2>1. old \in p.ids
    BY <1>1, <1>2, OldestIs DEF InboxInv
  <2>2. shown' = shown \cup {old} /\ page' = {[p EXCEPT !.ids = @ \ {old}]}
    BY <1>1
  <2>. HIDE DEF old
  <2>3. [p EXCEPT !.ids = @ \ {old}] = [ids |-> p.ids \ {old}, read |-> p.read]
    BY <1>2
  <2>. QED BY <2>1, <2>2, <2>3
<1>4. /\ p.ids \subseteq p.read /\ p.read \subseteq rows
      /\ \A i \in p.read : i > lastSeen => i \in p.ids \cup shown
      /\ LeftBehind(Newest(p.read), p.read)
  BY DEF InboxInv, PagesAreHonest
<1>5. InboxTyped'
  <2>1. page' \subseteq [ids : SUBSET (1..lastId), read : SUBSET (1..lastId)]
    BY <1>2, <1>3
  <2>2. shown' \subseteq rows
    BY <1>3, <1>4 DEF InboxInv, InboxTyped
  <2>. QED BY <1>1, <2>1, <2>2 DEF InboxInv, InboxTyped
<1>6. EachRowOnce' /\ StampsAreBounded'
  BY <1>1 DEF InboxInv, EachRowOnce, StampsAreBounded
<1>7. \A i : Passed(i)' = Passed(i)
  BY <1>1 DEF Passed, Later
<1>8. LeftBehind(lastSeen, shown)'
  BY <1>1, <1>3, <1>7 DEF InboxInv, LeftBehind
<1>9. PagesAreHonest'
  BY <1>1, <1>3, <1>4, <1>7 DEF PagesAreHonest, LeftBehind
<1>. QED BY <1>5, <1>6, <1>8, <1>9 DEF InboxInv

LEMMA SaveLastSeenKeeps ==
  ASSUME NoticeBounds, InboxInv, SaveLastSeen
  PROVE  InboxInv'
<1>1. PICK p \in page :
        /\ p.ids = {}
        /\ lastSeen' = Newest(p.read \cup {lastSeen}) /\ page' = {}
        /\ UNCHANGED <<rows, open, created, lastId, stamp, shown, overtaken>>
  BY DEF SaveLastSeen
<1>2. p.read \in SUBSET (1..lastId) /\ lastId \in Nat /\ lastSeen \in 0..lastId
  BY DEF InboxInv, InboxTyped
<1>3. /\ p.read \subseteq rows
      /\ \A i \in p.read : i > lastSeen => i \in shown
      /\ LeftBehind(Newest(p.read), p.read) /\ LeftBehind(lastSeen, shown)
  BY <1>1 DEF InboxInv, PagesAreHonest
<1>4. lastSeen' \in 0..lastId /\ (lastSeen' = lastSeen \/ lastSeen' = Newest(p.read))
  <2>. DEFINE seen == p.read \cup {lastSeen, 0}
  <2>1. seen \in SUBSET Nat /\ seen # {} /\ \A x \in seen : x <= lastId
    BY <1>2
  <2>2. Max(seen) \in seen /\ \A y \in seen : y <= Max(seen)
    <3>. HIDE DEF seen
    <3>. QED BY <1>2, <2>1, BoundedHasMax
  <2>3. (p.read \cup {lastSeen}) \cup {0} = seen
    OBVIOUS
  <2>4. lastSeen' = Max(seen)
    BY <1>1, <2>3 DEF Newest
  <2>5. Newest(p.read) \in p.read \cup {0} /\ \A i \in p.read : i <= Newest(p.read)
    BY <1>2, NewestFacts
  <2>6. Newest(p.read) \in Nat /\ \A i \in p.read : i \in Nat
    BY <1>2, <2>5
  <2>. QED BY <1>2, <2>2, <2>4, <2>5, <2>6
<1>5. InboxTyped'
  BY <1>1, <1>4 DEF InboxInv, InboxTyped
<1>6. EachRowOnce' /\ StampsAreBounded' /\ PagesAreHonest'
  BY <1>1 DEF InboxInv, EachRowOnce, StampsAreBounded, PagesAreHonest
<1>7. \A i : Passed(i)' = Passed(i)
  BY <1>1 DEF Passed, Later
<1>8. ASSUME NEW i \in rows \ shown, i <= lastSeen' PROVE Passed(i)
  <2>0. i \in 1..lastId
    BY DEF InboxInv, InboxTyped
  <2>1. CASE i <= lastSeen
    BY <1>3, <2>1 DEF LeftBehind
  <2>2. CASE i > lastSeen
    <3>1. i <= Newest(p.read)
      BY <1>2, <1>4, <1>8, <2>0, <2>2
    <3>2. i \notin p.read
      BY <1>3, <2>2
    <3>. QED BY <1>3, <3>1, <3>2 DEF LeftBehind
  <2>. QED BY <1>2, <2>0, <2>1, <2>2
<1>9. \A w \in Writers : \A i \in open[w] : i <= lastSeen' => i \in overtaken
  BY <1>3, <1>4 DEF LeftBehind
<1>10. LeftBehind(lastSeen, shown)'
  BY <1>1, <1>7, <1>8, <1>9 DEF LeftBehind
<1>. QED BY <1>5, <1>6, <1>10 DEF InboxInv

LEMMA InboxStep == NoticeBounds /\ InboxInv /\ [InboxNext]_inboxVars => InboxInv'
<1>. SUFFICES ASSUME NoticeBounds, InboxInv, [InboxNext]_inboxVars PROVE InboxInv'
  OBVIOUS
<1>1. CASE Interrupt
  BY <1>1 DEF Interrupt, InboxInv, InboxTyped, EachRowOnce, StampsAreBounded, PagesAreHonest, LeftBehind,
              Passed, Later
<1>2. CASE UNCHANGED inboxVars
  BY <1>2 DEF inboxVars, InboxInv, InboxTyped, EachRowOnce, StampsAreBounded, PagesAreHonest, LeftBehind,
              Passed, Later
<1>. QED BY <1>1, <1>2, StampKeeps, FlushKeeps, EndsKeep, FetchKeeps, ShowKeeps, SaveLastSeenKeeps DEF InboxNext

LEMMA MissedFollows == InboxInv => OnlyOvertakenAreMissed
  BY DEF InboxInv, InboxTyped, LeftBehind, Passed, OnlyOvertakenAreMissed

-----------------------------------------------------------------------------
(***************************************************************************)
(* Proofs about Accounts, for any calls, labels, repetitions and losses:   *)
(* why a refusal is recoverable.  A registration next to a call disturbs   *)
(* it, so what an undisturbed call was issued is still the account's token *)
(* when it is saved, and when the call is sent again (OwnTokenOpens).  A   *)
(* change is made by the last step before the answer, and what was         *)
(* answered is repeated only if it was a read (AppliedLast).  Once a call  *)
(* was let in and nothing was disturbed, the phone keeps the account's     *)
(* token or is about to save it (LetInByCurrent).                          *)
(***************************************************************************)
CallType ==
  [step : Steps, does : Verbs \cup Labels, token : Nat, fresh : Nat, seen : SUBSET (Nat \cup Labels),
   again : BOOLEAN, repeats : Nat, applied : {0, 1}, result : Results, told : Results]

AccountHasShape ==
  /\ stored \in Nat /\ issued \in Nat /\ favourite \subseteq Labels
  /\ account \subseteq Nat /\ \A t, u \in account : t = u
  /\ call \in [ApiCalls -> CallType]

\* What a call has changed and was told.
Reports(k) ==
  /\ k.step = "new" => ~k.again
  /\ k.step \notin {"answered", "ended"} => k.result = "none"
  /\ k.step # "ended" => k.told = "none"
  /\ k.step = "answered" => k.result \in {"ok", "missing", "conflict"}
  /\ k.applied = 1 =>
       /\ k.does # "read" /\ k.step \in {"answered", "ended"} /\ k.result \in {"ok", "no answer"}
       /\ k.step = "answered" => k.result = "ok"
       /\ k.told = "unauthorised" => k.result = "no answer"
  /\ k.told = "unauthorised" /\ k.result # "unauthorised" => k.again

AppliedLast == \A c \in ApiCalls : Reports(call[c])

\* What an undisturbed call finds.
Opens(k) ==
  /\ k.result # "unauthorised"
  /\ k.step = "refused" => ~k.again /\ k.token \notin account
  /\ k.again /\ k.step \in {"sent", "known", "looked", "answered"} => account = {k.token}
  /\ k.step = "registered" => account = {k.fresh}
  /\ k.step = "saved" => account = {stored}

OwnTokenOpens ==
  \A c \in ApiCalls \ disturbed :
    /\ Opens(call[c])
    /\ call[c].step \in {"registered", "saved"} => \A o \in ApiCalls \ {c} : call[o].step # "registered"

CurrentOrSaving ==
  \/ account = {stored}
  \/ \E c \in ApiCalls : call[c].step = "registered" /\ account = {call[c].fresh}

LetIn(k) ==
  \/ k.step = "sent" /\ k.token \in account
  \/ k.step \in {"known", "looked", "answered"}
  \/ k.result = "ok"

LetInByCurrent == disturbed = {} => \A c \in ApiCalls : LetIn(call[c]) => CurrentOrSaving

AccountInv == AccountHasShape /\ AppliedLast /\ OwnTokenOpens /\ LetInByCurrent

LEMMA AccountInvInit == AccountInit => AccountInv
PROOF
<1>. SUFFICES ASSUME AccountInit PROVE AccountInv
  OBVIOUS
<1>1. AccountHasShape
  BY DEF AccountInit, AccountHasShape, CallType, Steps, Verbs, Results
<1>2. AppliedLast
  <2>1. ASSUME NEW c \in ApiCalls PROVE Reports(call[c])
    <3>1. call[c].step = "new" /\ ~call[c].again /\ call[c].applied = 0 /\ call[c].result = "none" /\ call[c].told = "none"
      BY DEF AccountInit
    <3>. QED BY <3>1 DEF Reports
  <2>. QED BY <2>1 DEF AppliedLast
<1>3. OwnTokenOpens
  BY DEF AccountInit, OwnTokenOpens, Opens
<1>4. LetInByCurrent
  BY DEF AccountInit, LetInByCurrent, LetIn
<1>. QED BY <1>1, <1>2, <1>3, <1>4 DEF AccountInv

\* A step of a call that neither registers nor saves a token.
LEMMA QuietStep ==
  ASSUME AccountInv, NEW c \in ApiCalls, NEW q \in CallType,
         call' = [call EXCEPT ![c] = q],
         UNCHANGED <<account, issued, stored, disturbed>>, favourite' \subseteq Labels,
         call[c].step # "registered", q.step \notin {"registered", "saved"},
         Reports(q), c \notin disturbed => Opens(q),
         disturbed = {} /\ LetIn(q) => CurrentOrSaving
  PROVE  AccountInv'
PROOF
<1>. USE DEF AccountInv
<1>1. call'[c] = q /\ \A d \in ApiCalls \ {c} : call'[d] = call[d]
  BY DEF AccountHasShape
<1>2. AccountHasShape'
  BY DEF AccountHasShape
<1>3. AppliedLast'
  <2>1. ASSUME NEW d \in ApiCalls PROVE Reports(call'[d])
    BY <1>1 DEF AppliedLast
  <2>2. AppliedLast' <=> \A d \in ApiCalls : Reports(call'[d])
    BY DEF AppliedLast, Reports
  <2>. QED BY <2>1, <2>2
<1>4. OwnTokenOpens'
  <2>1. ASSUME NEW d \in ApiCalls \ disturbed
        PROVE  /\ Opens(call[d])'
               /\ call'[d].step \in {"registered", "saved"} => \A o \in ApiCalls \ {d} : call'[o].step # "registered"
    <3>1. CASE d = c
      BY <1>1, <2>1, <3>1 DEF Opens
    <3>2. CASE d # c
      BY <1>1, <2>1, <3>2 DEF OwnTokenOpens, Opens
    <3>. QED BY <3>1, <3>2
  <2>. QED BY <2>1 DEF OwnTokenOpens
<1>5. LetInByCurrent'
  <2>1. CurrentOrSaving => CurrentOrSaving'
    BY <1>1 DEF CurrentOrSaving
  <2>2. ASSUME NEW d \in ApiCalls, disturbed = {}, LetIn(call[d])' PROVE CurrentOrSaving
    <3>1. CASE d = c
      BY <1>1, <2>2, <3>1 DEF LetIn
    <3>2. CASE d # c
      BY <1>1, <2>2, <3>2 DEF LetIn, LetInByCurrent
    <3>. QED BY <3>1, <3>2
  <2>. QED BY <2>1, <2>2 DEF LetInByCurrent
<1>. QED BY <1>2, <1>3, <1>4, <1>5

\* The steps of the phone that neither register nor save.
LEMMA PhonePreserves ==
  ASSUME AccountInv, NEW c \in ApiCalls,
         \/ Open(c) \/ Recover(c) \/ SendAgain(c) \/ Deliver(c)
         \/ \E what \in {"read", "remove"} \cup Labels : Send(c, what)
  PROVE  AccountInv'
PROOF
<1>. USE DEF AccountInv
<1>0. /\ call[c] \in CallType /\ call \in [ApiCalls -> CallType] /\ favourite \subseteq Labels /\ stored \in Nat
      /\ Reports(call[c]) /\ (c \notin disturbed => Opens(call[c]))
      /\ \A t, u \in account : t = u
  BY DEF AccountHasShape, AppliedLast, OwnTokenOpens
<1>1. CASE Open(c)
  <2> DEFINE q == [call[c] EXCEPT !.step = "registering", !.does = "register"]
  <2>1. /\ call[c].step = "new" /\ call' = [call EXCEPT ![c] = q]
        /\ UNCHANGED <<account, issued, favourite, stored, losses, disturbed>>
    BY <1>1 DEF Open, Becomes
  <2>2. /\ q \in CallType /\ q.step = "registering" /\ q.again = call[c].again /\ q.token = call[c].token
        /\ q.result = call[c].result /\ q.told = call[c].told /\ q.applied = call[c].applied /\ q.does = "register"
    BY <1>0 DEF CallType, Steps, Verbs
  <2>. HIDE DEF q
  <2>3. Reports(q) /\ (c \notin disturbed => Opens(q)) /\ ~LetIn(q)
    BY <1>0, <2>1, <2>2 DEF Reports, Opens, LetIn
  <2>. QED BY <1>0, <2>1, <2>2, <2>3, QuietStep
<1>2. CASE Recover(c)
  <2>1. /\ call[c].step = "refused"
        /\ UNCHANGED <<account, issued, favourite, stored, losses, disturbed>>
    BY <1>2 DEF Recover
  <2>2. CASE call[c].again
    <3> DEFINE q == [call[c] EXCEPT !.step = "ended", !.result = "unauthorised", !.told = "unauthorised"]
    <3>1. call' = [call EXCEPT ![c] = q]
      BY <1>2, <2>2 DEF Recover, Finish, Becomes
    <3>2. /\ q \in CallType /\ q.step = "ended" /\ q.again = call[c].again /\ q.token = call[c].token
          /\ q.result = "unauthorised" /\ q.told = "unauthorised" /\ q.applied = call[c].applied /\ q.does = call[c].does
      BY <1>0 DEF CallType, Steps, Results
    <3>. HIDE DEF q
    <3>3. Reports(q) /\ c \in disturbed /\ ~LetIn(q)
      BY <1>0, <2>1, <2>2, <3>2 DEF Reports, Opens, LetIn, CallType
    <3>. QED BY <1>0, <2>1, <3>1, <3>2, <3>3, QuietStep
  <2>3. CASE ~call[c].again
    <3> DEFINE q == [call[c] EXCEPT !.step = "registering"]
    <3>1. call' = [call EXCEPT ![c] = q]
      BY <1>2, <2>3 DEF Recover, Becomes
    <3>2. /\ q \in CallType /\ q.step = "registering" /\ q.again = call[c].again /\ q.token = call[c].token
          /\ q.result = call[c].result /\ q.told = call[c].told /\ q.applied = call[c].applied /\ q.does = call[c].does
      BY <1>0 DEF CallType, Steps
    <3>. HIDE DEF q
    <3>3. Reports(q) /\ (c \notin disturbed => Opens(q)) /\ ~LetIn(q)
      BY <1>0, <2>1, <3>2 DEF Reports, Opens, LetIn
    <3>. QED BY <1>0, <2>1, <3>1, <3>2, <3>3, QuietStep
  <2>. QED BY <2>2, <2>3
<1>3. CASE SendAgain(c)
  <2> DEFINE q == [call[c] EXCEPT !.step = "sent", !.token = stored, !.again = TRUE]
  <2>1. /\ call[c].step = "saved" /\ call' = [call EXCEPT ![c] = q]
        /\ UNCHANGED <<account, issued, favourite, stored, losses, disturbed>>
    BY <1>3 DEF SendAgain, Becomes
  <2>2. /\ q \in CallType /\ q.step = "sent" /\ q.again = TRUE /\ q.token = stored
        /\ q.result = call[c].result /\ q.told = call[c].told /\ q.applied = call[c].applied /\ q.does = call[c].does
    BY <1>0 DEF CallType, Steps
  <2>. HIDE DEF q
  <2>3. Reports(q)
    BY <1>0, <2>1, <2>2 DEF Reports
  <2>4. c \notin disturbed => Opens(q) /\ account = {stored}
    BY <1>0, <2>1, <2>2 DEF Opens
  <2>. QED BY <1>0, <2>1, <2>2, <2>3, <2>4, QuietStep DEF CurrentOrSaving
<1>4. CASE Deliver(c)
  <2> DEFINE answer == IF call[c].again /\ call[c].result # "ok" THEN "unauthorised" ELSE call[c].result
             q == [call[c] EXCEPT !.step = "ended", !.result = call[c].result, !.told = answer]
  <2>1. /\ call[c].step = "answered" /\ call' = [call EXCEPT ![c] = q]
        /\ UNCHANGED <<account, issued, favourite, stored, losses, disturbed>>
    BY <1>4 DEF Deliver, Finish, Becomes
  <2>2. /\ q \in CallType /\ q.step = "ended" /\ q.again = call[c].again /\ q.token = call[c].token
        /\ q.result = call[c].result /\ q.told = answer /\ q.applied = call[c].applied /\ q.does = call[c].does
    BY <1>0 DEF CallType, Steps, Results
  <2>. HIDE DEF q
  <2>3. Reports(q) /\ (c \notin disturbed => Opens(q)) /\ (LetIn(q) => LetIn(call[c]))
    BY <1>0, <2>1, <2>2 DEF Reports, Opens, LetIn
  <2>. QED BY <1>0, <2>1, <2>2, <2>3, QuietStep DEF LetInByCurrent
<1>5. ASSUME NEW what \in {"read", "remove"} \cup Labels, Send(c, what) PROVE AccountInv'
  <2> DEFINE q == [call[c] EXCEPT !.step = "sent", !.does = what, !.token = stored]
  <2>1. /\ call[c].step = "new" /\ call' = [call EXCEPT ![c] = q]
        /\ UNCHANGED <<account, issued, favourite, stored, losses, disturbed>>
    BY <1>5 DEF Send, Becomes
  <2>2. /\ q \in CallType /\ q.step = "sent" /\ q.again = call[c].again /\ q.token = stored
        /\ q.result = call[c].result /\ q.told = call[c].told /\ q.applied = call[c].applied /\ q.does = what
    BY <1>0 DEF CallType, Steps, Verbs
  <2>. HIDE DEF q
  <2>3. Reports(q)
    BY <1>0, <2>1, <2>2 DEF Reports
  <2>4. (c \notin disturbed => Opens(q)) /\ (LetIn(q) => CurrentOrSaving)
    BY <1>0, <2>1, <2>2 DEF Opens, Reports, LetIn, CurrentOrSaving
  <2>. QED BY <1>0, <2>1, <2>2, <2>3, <2>4, QuietStep
<1>. QED BY <1>1, <1>2, <1>3, <1>4, <1>5

\* A call answered, or let in: what else it takes for its step to be quiet.
LEMMA AnsweredStep ==
  ASSUME AccountInv, NEW c \in ApiCalls, call[c].step = "looked",
         NEW result \in {"ok", "missing", "conflict"}, NEW n \in {0, 1},
         n = 1 => result = "ok" /\ call[c].does # "read",
         call' = [call EXCEPT ![c] = [call[c] EXCEPT !.step = "answered", !.result = result, !.applied = n]],
         UNCHANGED <<account, issued, stored, disturbed>>, favourite' \subseteq Labels
  PROVE  AccountInv'
PROOF
<1>. USE DEF AccountInv
<1>0. /\ call[c] \in CallType /\ Reports(call[c]) /\ (c \notin disturbed => Opens(call[c]))
  BY DEF AccountHasShape, AppliedLast, OwnTokenOpens
<1>. DEFINE q == [call[c] EXCEPT !.step = "answered", !.result = result, !.applied = n]
<1>1. /\ q \in CallType /\ q.step = "answered" /\ q.again = call[c].again /\ q.token = call[c].token /\ q.result = result
      /\ q.told = call[c].told /\ q.applied = n /\ q.does = call[c].does
  BY <1>0 DEF CallType, Steps, Results
<1>2. call' = [call EXCEPT ![c] = q]
  OBVIOUS
<1>. HIDE DEF q
<1>3. Reports(q)
  BY <1>0, <1>1 DEF Reports
<1>4. c \notin disturbed => Opens(q)
  BY <1>0, <1>1 DEF Opens
<1>5. disturbed = {} => CurrentOrSaving
  BY DEF LetInByCurrent, LetIn
<1>. QED BY <1>1, <1>2, <1>3, <1>4, <1>5, QuietStep

\* The steps of the server that do not register.
LEMMA ServerPreserves ==
  ASSUME LabelsAreNoVerbs, AccountInv, NEW c \in ApiCalls,
         Authenticate(c) \/ Look(c) \/ CommitCall(c) \/ Find(c)
  PROVE  AccountInv'
PROOF
<1>. USE DEF AccountInv
<1>0. /\ call[c] \in CallType /\ favourite \subseteq Labels /\ account \subseteq Nat
      /\ Reports(call[c]) /\ (c \notin disturbed => Opens(call[c]))
      /\ \A t, u \in account : t = u
  BY DEF AccountHasShape, AppliedLast, OwnTokenOpens
<1>1. CASE Authenticate(c)
  <2> DEFINE q == [call[c] EXCEPT !.step = IF call[c].token \in account THEN "known" ELSE "refused"]
  <2>1. /\ call[c].step = "sent" /\ call' = [call EXCEPT ![c] = q]
        /\ UNCHANGED <<account, issued, favourite, stored, losses, disturbed>>
    BY <1>1 DEF Authenticate, Becomes
  <2>2. /\ q \in CallType /\ q.step = IF call[c].token \in account THEN "known" ELSE "refused"
        /\ q.again = call[c].again /\ q.token = call[c].token
        /\ q.result = call[c].result /\ q.told = call[c].told /\ q.applied = call[c].applied /\ q.does = call[c].does
    BY <1>0 DEF CallType, Steps
  <2>. HIDE DEF q
  <2>3. Reports(q)
    BY <1>0, <2>1, <2>2 DEF Reports
  <2>4. (c \notin disturbed => Opens(q)) /\ (LetIn(q) => LetIn(call[c]))
    BY <1>0, <2>1, <2>2 DEF Opens, LetIn
  <2>. QED BY <1>0, <2>1, <2>2, <2>3, <2>4, QuietStep DEF LetInByCurrent
<1>2. CASE Look(c)
  <2>1. call[c].step = "known" /\ UNCHANGED <<account, issued, favourite, stored, losses, disturbed>>
    BY <1>2 DEF Look
  <2>2. disturbed = {} => CurrentOrSaving
    BY <2>1 DEF LetInByCurrent, LetIn
  <2>3. CASE Becomes(c, [call[c] EXCEPT !.step = "looked", !.seen = favourite])
    <3> DEFINE q == [call[c] EXCEPT !.step = "looked", !.seen = favourite]
    <3>1. call' = [call EXCEPT ![c] = q]
      BY <2>3 DEF Becomes
    <3>2. /\ q \in CallType /\ q.step = "looked" /\ q.again = call[c].again /\ q.token = call[c].token
          /\ q.result = call[c].result /\ q.told = call[c].told /\ q.applied = call[c].applied /\ q.does = call[c].does
      BY <1>0 DEF CallType, Steps
    <3>. HIDE DEF q
    <3>3. Reports(q) /\ (c \notin disturbed => Opens(q))
      BY <1>0, <2>1, <3>2 DEF Reports, Opens
    <3>. QED BY <1>0, <2>1, <2>2, <3>1, <3>2, <3>3, QuietStep
  <2>4. CASE Becomes(c, [call[c] EXCEPT !.step = "answered", !.result = "missing"])
    <3> DEFINE q == [call[c] EXCEPT !.step = "answered", !.result = "missing"]
    <3>1. call' = [call EXCEPT ![c] = q]
      BY <2>4 DEF Becomes
    <3>2. /\ q \in CallType /\ q.step = "answered" /\ q.again = call[c].again /\ q.token = call[c].token
          /\ q.result = "missing" /\ q.told = call[c].told /\ q.applied = call[c].applied /\ q.does = call[c].does
      BY <1>0 DEF CallType, Steps, Results
    <3>. HIDE DEF q
    <3>3. Reports(q) /\ (c \notin disturbed => Opens(q))
      BY <1>0, <2>1, <3>2 DEF Reports, Opens
    <3>. QED BY <1>0, <2>1, <2>2, <3>1, <3>2, <3>3, QuietStep
  <2>. QED BY <1>2, <2>3, <2>4 DEF Look
<1>3. CASE CommitCall(c)
  <2>1. /\ call[c].step = "looked" /\ UNCHANGED <<account, issued, stored, losses, disturbed>>
        /\ Read(c) \/ RemoveFavourite(c) \/ Set(c)
    BY <1>3 DEF CommitCall
  <2>2. call[c].applied = 0
    BY <1>0, <2>1 DEF Reports, CallType
  <2>3. ASSUME NEW result \in {"ok", "missing", "conflict"}, Answer(c, result) PROVE AccountInv'
    <3>1. [call[c] EXCEPT !.step = "answered", !.result = result]
            = [call[c] EXCEPT !.step = "answered", !.result = result, !.applied = 0]
      BY <1>0, <2>2 DEF CallType
    <3>2. call' = [call EXCEPT ![c] = [call[c] EXCEPT !.step = "answered", !.result = result, !.applied = 0]]
      BY <2>3, <3>1 DEF Answer, Becomes
    <3>3. 0 \in {0, 1} /\ 0 # 1 /\ favourite' \subseteq Labels
      BY <1>0, <2>3 DEF Answer
    <3>. QED BY <2>1, <3>2, <3>3, AnsweredStep
  <2>4. ASSUME NEW favourites \in SUBSET Labels, Write(c, favourites), call[c].does # "read" PROVE AccountInv'
    <3>1. call' = [call EXCEPT ![c] = [call[c] EXCEPT !.step = "answered", !.result = "ok", !.applied = 1]]
      BY <1>0, <2>2, <2>4 DEF Write, Becomes, CallType
    <3>. QED BY <1>0, <2>1, <2>4, <3>1, AnsweredStep DEF Write
  <2>5. CASE Read(c)
    BY <2>3, <2>5 DEF Read
  <2>6. CASE RemoveFavourite(c)
    BY <2>3, <2>4, <2>6 DEF RemoveFavourite
  <2>7. CASE Set(c)
    BY <2>3, <2>4, <2>7 DEF Set, LabelsAreNoVerbs, Verbs
  <2>. QED BY <2>1, <2>5, <2>6, <2>7
<1>4. CASE Find(c)
  <2> DEFINE q == [call[c] EXCEPT !.step = "found", !.seen = account]
  <2>1. /\ call[c].step = "registering" /\ call' = [call EXCEPT ![c] = q]
        /\ UNCHANGED <<account, issued, favourite, stored, losses, disturbed>>
    BY <1>4 DEF Find, Becomes
  <2>2. /\ q \in CallType /\ q.step = "found" /\ q.again = call[c].again /\ q.token = call[c].token
        /\ q.result = call[c].result /\ q.told = call[c].told /\ q.applied = call[c].applied /\ q.does = call[c].does
    BY <1>0 DEF CallType, Steps
  <2>. HIDE DEF q
  <2>3. Reports(q) /\ (c \notin disturbed => Opens(q)) /\ ~LetIn(q)
    BY <1>0, <2>1, <2>2 DEF Reports, Opens, LetIn
  <2>. QED BY <1>0, <2>1, <2>2, <2>3, QuietStep
<1>. QED BY <1>1, <1>2, <1>3, <1>4

\* A call that ends because its registration did.
LEMMA NotRegisteredIs ==
  ASSUME AccountInv, NEW c \in ApiCalls, call[c].step \notin {"answered", "ended"}, NotRegistered(c)
  PROVE  \E q \in CallType : call' = [call EXCEPT ![c] = q] /\ q.step = "ended" /\ Reports(q)
PROOF
<1>1. call[c] \in CallType /\ Reports(call[c])
  BY DEF AccountInv, AccountHasShape, AppliedLast
<1>. DEFINE result == IF call[c].does = "register" THEN "no answer" ELSE "unauthorised"
            answer == IF call[c].again /\ result # "ok" THEN "unauthorised" ELSE result
            q == [call[c] EXCEPT !.step = "ended", !.result = result, !.told = answer]
<1>2. call' = [call EXCEPT ![c] = q]
  BY DEF NotRegistered, Finish, Becomes
<1>3. result \in {"no answer", "unauthorised"} /\ answer = IF call[c].again THEN "unauthorised" ELSE result
  OBVIOUS
<1>. HIDE DEF result, answer
<1>4. result \in Results /\ answer \in Results
  BY <1>3 DEF Results
<1>5. /\ q \in CallType /\ q.step = "ended" /\ q.again = call[c].again
      /\ q.result = result /\ q.told = answer /\ q.applied = call[c].applied
  BY <1>1, <1>4 DEF CallType, Steps
<1>6. call[c].applied = 0
  BY <1>1 DEF Reports, CallType
<1>. HIDE DEF q
<1>7. Reports(q)
  <2>1. q.told = "unauthorised" /\ q.result # "unauthorised" => q.again
    BY <1>3, <1>5
  <2>2. q.applied # 1
    BY <1>5, <1>6
  <2>. QED BY <1>5, <2>1, <2>2 DEF Reports
<1>. QED BY <1>2, <1>5, <1>7

\* A registration that fails.
LEMMA FailedRegistration ==
  ASSUME AccountInv, NEW c \in ApiCalls, call[c].step \notin {"answered", "ended"}, NotRegistered(c),
         disturbed' = disturbed \cup {c}, UNCHANGED <<account, issued, favourite, stored>>
  PROVE  AccountInv'
PROOF
<1>. USE DEF AccountInv
<1>1. PICK q \in CallType : call' = [call EXCEPT ![c] = q] /\ q.step = "ended" /\ Reports(q)
  BY NotRegisteredIs
<1>2. call'[c] = q /\ \A d \in ApiCalls \ {c} : call'[d] = call[d]
  BY <1>1 DEF AccountHasShape
<1>3. AccountHasShape'
  BY <1>1 DEF AccountHasShape
<1>4. AppliedLast'
  <2>1. ASSUME NEW d \in ApiCalls PROVE Reports(call'[d])
    BY <1>1, <1>2 DEF AppliedLast
  <2>2. AppliedLast' <=> \A d \in ApiCalls : Reports(call'[d])
    BY DEF AppliedLast, Reports
  <2>. QED BY <2>1, <2>2
<1>5. OwnTokenOpens'
  BY <1>1, <1>2 DEF OwnTokenOpens, Opens
<1>6. LetInByCurrent'
  BY DEF LetInByCurrent
<1>. QED BY <1>3, <1>4, <1>5, <1>6

LEMMA LosePreserves ==
  ASSUME LabelsAreNoVerbs, AccountInv, NEW c \in ApiCalls, Lose(c)
  PROVE  AccountInv'
PROOF
<1>. USE DEF AccountInv
<1>0. /\ call[c] \in CallType /\ favourite \subseteq Labels
      /\ Reports(call[c]) /\ (c \notin disturbed => Opens(call[c]))
      /\ UNCHANGED <<account, issued, favourite, stored>>
  BY DEF AccountHasShape, AppliedLast, OwnTokenOpens, Lose
<1>1. CASE call[c].step \in {"registering", "registered"}
  BY <1>0, <1>1, FailedRegistration DEF Lose
<1>2. CASE call[c].step \in {"sent", "refused", "answered"} /\ MayRepeat(c)
  <2> DEFINE q == [call[c] EXCEPT !.step = "sent", !.repeats = @ + 1, !.seen = {}, !.result = "none"]
  <2>1. call' = [call EXCEPT ![c] = q] /\ disturbed' = disturbed /\ call[c].does = "read"
    BY <1>2 DEF Lose, Becomes, MayRepeat
  <2>2. /\ q \in CallType /\ q.step = "sent" /\ q.again = call[c].again /\ q.token = call[c].token
        /\ q.result = "none" /\ q.told = call[c].told /\ q.applied = call[c].applied /\ q.does = call[c].does
    <3>1. call[c].repeats + 1 \in Nat
      BY <1>0 DEF CallType
    <3>. QED BY <1>0, <3>1 DEF CallType, Steps, Results
  <2>. HIDE DEF q
  <2>3. Reports(q)
    BY <1>0, <1>2, <2>1, <2>2 DEF Reports
  <2>4. c \notin disturbed => Opens(q)
    BY <1>0, <1>2, <2>2 DEF Opens
  <2>5. disturbed = {} /\ LetIn(q) => LetIn(call[c])
    BY <1>0, <1>2, <2>2 DEF LetIn, Opens
  <2>. QED BY <1>0, <1>2, <2>1, <2>2, <2>3, <2>4, <2>5, QuietStep DEF LetInByCurrent
<1>3. CASE call[c].step \in {"sent", "refused", "answered"} /\ ~MayRepeat(c)
  <2> DEFINE answer == IF call[c].again /\ "no answer" # "ok" THEN "unauthorised" ELSE "no answer"
             q == [call[c] EXCEPT !.step = "ended", !.result = "no answer", !.told = answer]
  <2>1. call' = [call EXCEPT ![c] = q] /\ disturbed' = disturbed
    BY <1>3 DEF Lose, Finish, Becomes
  <2>2. /\ q \in CallType /\ q.step = "ended" /\ q.again = call[c].again /\ q.token = call[c].token
        /\ q.result = "no answer" /\ q.told = answer /\ q.applied = call[c].applied /\ q.does = call[c].does
    BY <1>0 DEF CallType, Steps, Results
  <2>. HIDE DEF q
  <2>3. Reports(q) /\ Opens(q) /\ ~LetIn(q)
    BY <1>0, <1>3, <2>2 DEF Reports, Opens, LetIn
  <2>. QED BY <1>0, <1>3, <2>1, <2>2, <2>3, QuietStep
<1>. QED BY <1>1, <1>2, <1>3 DEF Lose

\* The token of an undisturbed registration is the account's when it is saved.
LEMMA SavePreserves ==
  ASSUME AccountInv, NEW c \in ApiCalls, Save(c)
  PROVE  AccountInv'
PROOF
<1>. USE DEF AccountInv
<1>0. /\ call[c] \in CallType /\ call \in [ApiCalls -> CallType] /\ call[c].step = "registered" /\ Reports(call[c])
      /\ stored' = call[c].fresh /\ UNCHANGED <<account, issued, favourite, losses, disturbed>>
      /\ c \notin disturbed => account = {call[c].fresh} /\ \A o \in ApiCalls \ {c} : call[o].step # "registered"
  BY DEF AccountHasShape, AppliedLast, OwnTokenOpens, Opens, Save
<1>1. PICK q \in CallType : /\ call' = [call EXCEPT ![c] = q] /\ Reports(q) /\ q.step \in {"saved", "ended"}
                            /\ q.result # "unauthorised"
  <2>1. CASE call[c].does = "register"
    <3> DEFINE answer == IF call[c].again /\ "ok" # "ok" THEN "unauthorised" ELSE "ok"
               q == [call[c] EXCEPT !.step = "ended", !.result = "ok", !.told = answer]
    <3>1. call' = [call EXCEPT ![c] = q]
      BY <2>1 DEF Save, Finish, Becomes
    <3>2. /\ q \in CallType /\ q.step = "ended" /\ q.result = "ok" /\ q.told = "ok" /\ q.applied = call[c].applied
      BY <1>0 DEF CallType, Steps, Results
    <3>. HIDE DEF q
    <3>3. Reports(q)
      BY <1>0, <3>2 DEF Reports
    <3>. QED BY <3>1, <3>2, <3>3
  <2>2. CASE call[c].does # "register"
    <3> DEFINE q == [call[c] EXCEPT !.step = "saved"]
    <3>1. call' = [call EXCEPT ![c] = q]
      BY <2>2 DEF Save, Becomes
    <3>2. /\ q \in CallType /\ q.step = "saved" /\ q.result = call[c].result /\ q.told = call[c].told
          /\ q.applied = call[c].applied /\ q.again = call[c].again
      BY <1>0 DEF CallType, Steps
    <3>. HIDE DEF q
    <3>3. Reports(q) /\ q.result # "unauthorised"
      BY <1>0, <3>2 DEF Reports
    <3>. QED BY <3>1, <3>2, <3>3
  <2>. QED BY <2>1, <2>2
<1>2. call'[c] = q /\ \A d \in ApiCalls \ {c} : call'[d] = call[d]
  BY <1>0, <1>1
<1>3. AccountHasShape'
  BY <1>0, <1>1 DEF AccountHasShape, CallType
<1>4. AppliedLast'
  <2>1. ASSUME NEW d \in ApiCalls PROVE Reports(call'[d])
    BY <1>1, <1>2 DEF AppliedLast
  <2>2. AppliedLast' <=> \A d \in ApiCalls : Reports(call'[d])
    BY DEF AppliedLast, Reports
  <2>. QED BY <2>1, <2>2
<1>5. OwnTokenOpens'
  <2>1. ASSUME NEW d \in ApiCalls \ disturbed
        PROVE  /\ Opens(call[d])'
               /\ call'[d].step \in {"registered", "saved"} => \A o \in ApiCalls \ {d} : call'[o].step # "registered"
    <3>1. CASE d = c
      BY <1>0, <1>1, <1>2, <2>1, <3>1 DEF Opens
    <3>2. CASE d # c
      <4>1. call[d].step \notin {"registered", "saved"} /\ Opens(call[d])
        BY <1>0, <2>1, <3>2 DEF OwnTokenOpens
      <4>. QED BY <1>0, <1>2, <3>2, <4>1 DEF Opens
    <3>. QED BY <3>1, <3>2
  <2>. QED BY <1>0, <2>1 DEF OwnTokenOpens
<1>6. LetInByCurrent'
  BY <1>0 DEF LetInByCurrent, CurrentOrSaving
<1>. QED BY <1>3, <1>4, <1>5, <1>6

\* A registration gives the account a token that only its own call knows, and
\* disturbs whatever is under way next to it.
LEMMA EnrolPreserves ==
  ASSUME AccountInv, NEW c \in ApiCalls, Enrol(c)
  PROVE  AccountInv'
PROOF
<1>. USE DEF AccountInv
<1>0. /\ call[c] \in CallType /\ call \in [ApiCalls -> CallType] /\ call[c].step = "found" /\ Reports(call[c])
      /\ issued \in Nat /\ UNCHANGED <<favourite, stored, losses>>
  BY DEF AccountHasShape, AppliedLast, Enrol
<1>1. CASE call[c].seen = {} /\ account # {}
  BY <1>0, <1>1, FailedRegistration DEF Enrol
<1>2. CASE ~(call[c].seen = {} /\ account # {})
  <2> DEFINE q == [call[c] EXCEPT !.step = "registered", !.fresh = issued + 1]
  <2>1. /\ account' = {issued + 1} /\ issued' = issued + 1 /\ call' = [call EXCEPT ![c] = q]
        /\ disturbed' = disturbed \cup {d \in ApiCalls \ {c} : call[d].step \notin {"new", "ended"}}
                                 \cup {d \in {c} : \E o \in ApiCalls \ {c} : call[o].step = "registered"}
    BY <1>2 DEF Enrol, Becomes
  <2>2. /\ q \in CallType /\ q.step = "registered" /\ q.fresh = issued + 1 /\ q.result = call[c].result
        /\ q.told = call[c].told /\ q.applied = call[c].applied /\ q.again = call[c].again
    <3>1. issued + 1 \in Nat
      BY <1>0
    <3>. QED BY <1>0, <3>1 DEF CallType, Steps
  <2>. HIDE DEF q
  <2>3. Reports(q) /\ q.result = "none"
    BY <1>0, <2>2 DEF Reports
  <2>4. call'[c] = q /\ \A d \in ApiCalls \ {c} : call'[d] = call[d]
    BY <1>0, <2>1
  <2>5. AccountHasShape'
    BY <1>0, <2>1, <2>2 DEF AccountHasShape
  <2>6. AppliedLast'
    <3>1. ASSUME NEW d \in ApiCalls PROVE Reports(call'[d])
      BY <2>3, <2>4 DEF AppliedLast
    <3>2. AppliedLast' <=> \A d \in ApiCalls : Reports(call'[d])
      BY DEF AppliedLast, Reports
    <3>. QED BY <3>1, <3>2
  <2>7. OwnTokenOpens'
    <3>1. ASSUME NEW d \in ApiCalls \ disturbed'
          PROVE  /\ Opens(call[d])'
                 /\ call'[d].step \in {"registered", "saved"} => \A o \in ApiCalls \ {d} : call'[o].step # "registered"
      <4>1. CASE d = c
        <5>1. \A o \in ApiCalls \ {c} : call[o].step # "registered"
          BY <2>1, <3>1, <4>1
        <5>. QED BY <2>1, <2>2, <2>3, <2>4, <4>1, <5>1 DEF Opens
      <4>2. CASE d # c
        <5>1. call[d].step \in {"new", "ended"} /\ d \notin disturbed
          BY <2>1, <3>1, <4>2
        <5>2. call[d].result # "unauthorised"
          BY <5>1 DEF OwnTokenOpens, Opens
        <5>. QED BY <2>4, <4>2, <5>1, <5>2 DEF Opens
      <4>. QED BY <4>1, <4>2
    <3>. QED BY <3>1 DEF OwnTokenOpens
  <2>8. LetInByCurrent'
    BY <2>1, <2>2, <2>4 DEF LetInByCurrent, CurrentOrSaving
  <2>. QED BY <2>5, <2>6, <2>7, <2>8
<1>. QED BY <1>1, <1>2

LEMMA AccountInvStep == LabelsAreNoVerbs /\ AccountInv /\ [AccountNext]_accountVars => AccountInv'
PROOF
<1>. SUFFICES ASSUME LabelsAreNoVerbs, AccountInv, [AccountNext]_accountVars PROVE AccountInv'
  OBVIOUS
<1>1. CASE UNCHANGED accountVars
  <2>. USE <1>1 DEF accountVars, AccountInv
  <2>1. AccountHasShape'
    BY DEF AccountHasShape
  <2>2. AppliedLast'
    BY DEF AppliedLast
  <2>3. OwnTokenOpens'
    BY DEF OwnTokenOpens, Opens
  <2>4. LetInByCurrent'
    BY DEF LetInByCurrent, LetIn, CurrentOrSaving
  <2>. QED BY <2>1, <2>2, <2>3, <2>4
<1>. QED BY <1>1, PhonePreserves, ServerPreserves, LosePreserves, SavePreserves, EnrolPreserves DEF AccountNext

LEMMA AccountInvSuffices == AccountInv => AccountsAreRight
PROOF
<1>. SUFFICES ASSUME AccountInv PROVE AccountsAreRight
  OBVIOUS
<1>. USE DEF AccountInv
<1>1. AloneRecovers
  <2>. SUFFICES ASSUME NEW c \in ApiCalls
                PROVE  /\ call[c].result = "unauthorised" => c \in disturbed /\ call[c].applied = 0
                       /\ call[c].told = "unauthorised" /\ call[c].result # "unauthorised" => call[c].again
                       /\ call[c].told = "unauthorised" /\ call[c].applied > 0 => call[c].result = "no answer"
    BY DEF AloneRecovers
  <2>1. Reports(call[c]) /\ call[c].applied \in {0, 1} /\ (c \notin disturbed => call[c].result # "unauthorised")
    BY DEF AppliedLast, AccountHasShape, CallType, OwnTokenOpens, Opens
  <2>2. call[c].applied > 0 <=> call[c].applied = 1
    BY <2>1
  <2>3. call[c].result = "unauthorised" => call[c].applied # 1
    BY <2>1 DEF Reports
  <2>. QED BY <2>1, <2>2, <2>3 DEF Reports
<1>2. WrittenOnce
  <2>1. \A c \in ApiCalls : Reports(call[c]) /\ call[c].applied \in {0, 1}
    BY DEF AppliedLast, AccountHasShape, CallType
  <2>2. \A c \in ApiCalls : call[c].applied <= 1
    BY <2>1
  <2>3. ASSUME NEW c \in ApiCalls, call[c].result = "missing" PROVE call[c].applied = 0
    BY <2>1, <2>3 DEF Reports
  <2>. QED BY <2>2, <2>3 DEF WrittenOnce
<1>3. TokenIsCurrent
  BY DEF TokenIsCurrent, LetInByCurrent, LetIn, CurrentOrSaving
<1>. QED BY <1>1, <1>2, <1>3 DEF AccountsAreRight

(***************************************************************************)
(* Whatever calls of one phone run side by side and whatever is lost, a    *)
(* call that was alone is not refused for good, a write happens once at    *)
(* most, and the phone ends up with the account's token (ApiClient,        *)
(* UserService.register, FavouritesService).                               *)
(***************************************************************************)
THEOREM AccountsRecover == LabelsAreNoVerbs => (AccountSpec => []AccountsAreRight)
PROOF
<1>. SUFFICES ASSUME LabelsAreNoVerbs PROVE AccountSpec => []AccountsAreRight
  OBVIOUS
<1>1. AccountInv /\ [AccountNext]_accountVars => AccountInv'
  BY AccountInvStep
<1>. QED BY <1>1, AccountInvInit, AccountInvSuffices, PTL DEF AccountSpec

-----------------------------------------------------------------------------
(* Why nobody is nudged twice in a row for one service date.  A rider has    *)
(* one habit at most, so a cycle marks one date at most, and never the date  *)
(* notified last, which is the last one in the inbox (Remembered).  Every    *)
(* date pushed is in the inbox, is marked by the cycle under way, or was     *)
(* pushed by a cycle that was rolled back (PushesAreCovered).              *)

\* Dates, without the bound on the clock.
AnyDate == {ServiceDate(DepartureAfter(t, h)) : t \in Nat, h \in Int}

OneAtMost(S) == \A x, y \in S : x = y

\* What the cycle under way has marked for a rider.
Marked(u) == UNION {r.marks[u] : r \in round}

OneHabit ==
  /\ time \in Nat /\ failed \in Nat
  /\ DOMAIN habit = Commuters
  /\ \A u \in Commuters : habit[u] \subseteq Int /\ OneAtMost(habit[u])

OneRound ==
  /\ \/ round = {}
     \/ \E r \in [at : Nat, todo : SUBSET Commuters, marks : [Commuters -> SUBSET AnyDate]] : round = {r}
  /\ \A r \in round : \A u \in r.todo : r.marks[u] = {}

Remembered ==
  /\ inbox \in [Commuters -> Seq(AnyDate)] /\ DOMAIN notice = Commuters
  /\ \A u \in Commuters :
       /\ OneAtMost(Marked(u)) /\ Marked(u) \cap notice[u] = {}
       /\ notice[u] = IF inbox[u] = <<>> THEN {} ELSE {Last(inbox[u])}
       /\ \A k \in 2..Len(inbox[u]) : inbox[u][k] # inbox[u][k - 1]

PushesAreCovered ==
  /\ pushed \in [Commuters -> Seq(AnyDate)]
  /\ \A u \in Commuters, d \in AnyDate :
       Count(pushed[u], d) <= Count(inbox[u], d) + failed + (IF d \in Marked(u) THEN 1 ELSE 0)

NudgeInv == OneHabit /\ OneRound /\ Remembered /\ PushesAreCovered

\* At most one date in a set, as a sequence.
LEMMA OneAsSeq ==
  ASSUME NEW S, OneAtMost(S)
  PROVE  \/ S = {} /\ SetToSeq(S) = <<>>
         \/ \E x \in S : S = {x} /\ SetToSeq(S) = <<x>>
<1>1. CASE S = {}
  <2>1. Cardinality(S) = 0
    BY <1>1, FS_EmptySet
  <2>2. SetToSeq(S) \in [1..0 -> S]
    <3> DEFINE P(f) == f \in [1..0 -> S] /\ IsInjective(f)
    <3>1. P([i \in 1..0 |-> i])
      BY DEF IsInjective
    <3>2. P(CHOOSE f : P(f))
      BY <3>1
    <3>3. SetToSeq(S) = CHOOSE f : P(f)
      BY <2>1 DEF SetToSeq
    <3> QED BY <3>2, <3>3
  <2> QED BY <1>1, <2>2
<1>2. ASSUME NEW x \in S PROVE S = {x} /\ SetToSeq(S) = <<x>>
  <2>1. S = {x} /\ Cardinality(S) = 1
    <3>1. S = {x}
      BY <1>2 DEF OneAtMost
    <3>2. Cardinality({x}) = 1
      BY FS_EmptySet, FS_AddElement
    <3> QED BY <3>1, <3>2
  <2>2. SetToSeq(S) \in [1..1 -> S]
    <3> DEFINE P(f) == f \in [1..1 -> S] /\ IsInjective(f)
    <3>1. P([i \in 1..1 |-> x])
      BY DEF IsInjective
    <3>2. P(CHOOSE f : P(f))
      BY <3>1
    <3>3. SetToSeq(S) = CHOOSE f : P(f)
      BY <2>1 DEF SetToSeq
    <3> QED BY <3>2, <3>3
  <2> QED BY <2>1, <2>2
<1> QED BY <1>1, <1>2

\* How often a date occurs when one more is appended.
LEMMA CountAppended ==
  ASSUME NEW T, NEW s \in Seq(T), NEW x \in T, NEW d
  PROVE  /\ Count(s, d) \in Nat
         /\ Count(s \o <<x>>, d) = Count(s, d) + (IF d = x THEN 1 ELSE 0)
<1> DEFINE K == {k \in DOMAIN s : s[k] = d}
           L == {k \in DOMAIN (s \o <<x>>) : (s \o <<x>>)[k] = d}
           n == Len(s) + 1
<1>1. IsFiniteSet(K)
  <2>1. DOMAIN s = 1..Len(s) /\ Len(s) \in Nat
    OBVIOUS
  <2>2. IsFiniteSet(1..Len(s))
    BY <2>1, FS_Interval
  <2> QED BY <2>1, <2>2, FS_Subset
<1>2. L = IF d = x THEN K \cup {n} ELSE K
  OBVIOUS
<1>3. n \notin K
  OBVIOUS
<1>4. Cardinality(K) \in Nat
  BY <1>1, FS_CardinalityType
<1>5. Cardinality(K \cup {n}) = Cardinality(K) + 1
  BY <1>1, <1>3, FS_AddElement
<1> HIDE DEF K, L
<1>6. Count(s, d) = Cardinality(K) /\ Count(s \o <<x>>, d) = Cardinality(L)
  BY DEF Count, K, L
<1> QED BY <1>2, <1>4, <1>5, <1>6

\* The dates due for a rider are dates, and one at most.
LEMMA OneDue ==
  ASSUME OneHabit, NEW u \in Commuters, NEW t \in Nat,
         NEW due, due \subseteq {ServiceDate(d) : d \in Near(t, u)}
  PROVE  due \subseteq AnyDate /\ OneAtMost(due)
<1>1. habit[u] \subseteq Int /\ OneAtMost(habit[u])
  BY DEF OneHabit
<1>2. \A x \in due : \E h \in habit[u] : x = ServiceDate(DepartureAfter(t, h))
  BY DEF Near
<1>3. due \subseteq AnyDate
  BY <1>1, <1>2 DEF AnyDate
<1>4. OneAtMost(due)
  BY <1>1, <1>2 DEF OneAtMost
<1> QED BY <1>3, <1>4

\* What becomes of a sequence of dates when those of a set are appended.
LEMMA DatesAppended ==
  ASSUME NEW s \in Seq(AnyDate), NEW S \in SUBSET AnyDate, OneAtMost(S)
  PROVE  /\ s \o SetToSeq(S) \in Seq(AnyDate)
         /\ \A d \in AnyDate :
              /\ Count(s, d) \in Nat
              /\ Count(s \o SetToSeq(S), d) = Count(s, d) + (IF d \in S THEN 1 ELSE 0)
<1>1. CASE S = {} /\ SetToSeq(S) = <<>>
  <2>1. s \o SetToSeq(S) = s
    BY <1>1, ConcatEmptySeq
  <2>2. \A d \in AnyDate : Count(s, d) \in Nat
    <3> TAKE d \in AnyDate
    <3> QED BY CountAppended
  <2>3. ASSUME NEW d \in AnyDate
        PROVE  Count(s \o SetToSeq(S), d) = Count(s, d) + (IF d \in S THEN 1 ELSE 0)
    <3>1. Count(s \o SetToSeq(S), d) = Count(s, d)
      BY <2>1
    <3>2. (IF d \in S THEN 1 ELSE 0) = 0
      BY <1>1
    <3> QED BY <2>2, <3>1, <3>2
  <2> QED BY <2>1, <2>2, <2>3
<1>2. ASSUME NEW x \in S, S = {x}, SetToSeq(S) = <<x>>
      PROVE  /\ s \o SetToSeq(S) \in Seq(AnyDate)
             /\ \A d \in AnyDate :
                  /\ Count(s, d) \in Nat
                  /\ Count(s \o SetToSeq(S), d) = Count(s, d) + (IF d \in S THEN 1 ELSE 0)
  <2>1. x \in AnyDate
    OBVIOUS
  <2>2. s \o <<x>> \in Seq(AnyDate)
    BY <2>1
  <2>3. \A d : Count(s, d) \in Nat /\ Count(s \o <<x>>, d) = Count(s, d) + (IF d = x THEN 1 ELSE 0)
    BY <2>1, CountAppended
  <2> QED BY <1>2, <2>2, <2>3
<1>3. \/ S = {} /\ SetToSeq(S) = <<>>
      \/ \E x \in S : S = {x} /\ SetToSeq(S) = <<x>>
  BY OneAsSeq
<1>4. CASE \E x \in S : S = {x} /\ SetToSeq(S) = <<x>>
  <2> PICK x \in S : S = {x} /\ SetToSeq(S) = <<x>>
    BY <1>4
  <2> QED BY <1>2
<1> QED BY <1>1, <1>3, <1>4

LEMMA NudgeInvInit == NudgeInit => NudgeInv
<1> SUFFICES ASSUME NudgeInit PROVE NudgeInv
  OBVIOUS
<1> USE DEF NudgeInit
<1>1. OneHabit
  BY DEF OneHabit, OneAtMost
<1>2. OneRound
  BY DEF OneRound
<1>3. \A u : Marked(u) = {}
  BY DEF Marked
<1>4. Remembered
  BY <1>3 DEF Remembered, OneAtMost
<1>5. PushesAreCovered
  <2>1. \A d : Count(<<>>, d) = 0
    <3> TAKE d
    <3>1. {k \in DOMAIN <<>> : <<>>[k] = d} = {}
      OBVIOUS
    <3> QED BY <3>1, FS_EmptySet DEF Count
  <2> QED BY <1>3, <2>1 DEF PushesAreCovered
<1> QED BY <1>1, <1>2, <1>4, <1>5 DEF NudgeInv

LEMMA NudgeInvStep == NudgeInv /\ [NudgeNext]_nudgeVars => NudgeInv'
<1> SUFFICES ASSUME NudgeInv, [NudgeNext]_nudgeVars PROVE NudgeInv'
  OBVIOUS
<1> USE DEF NudgeInv
<1>1. CASE Elapse
  <2>1. time' = time + 1 /\ UNCHANGED <<habit, notice, round, inbox, pushed, failed>>
    BY <1>1 DEF Elapse
  <2>2. OneHabit'
    BY <2>1 DEF OneHabit
  <2>3. OneRound'
    BY <2>1 DEF OneRound
  <2>4. Remembered' /\ PushesAreCovered'
    BY <2>1 DEF Remembered, PushesAreCovered, Marked
  <2> QED BY <2>2, <2>3, <2>4
<1>2. ASSUME NEW u \in Commuters, ChangeHabit(u) PROVE NudgeInv'
  <2>1. PICK h \in {{}} \cup {{k} : k \in 0..(DayHours - 1)} : habit' = [habit EXCEPT ![u] = h]
    BY <1>2 DEF ChangeHabit
  <2>2. h \subseteq Int /\ OneAtMost(h)
    BY DEF OneAtMost
  <2>3. OneHabit'
    BY <1>2, <2>1, <2>2 DEF OneHabit, ChangeHabit
  <2>4. UNCHANGED <<time, notice, round, inbox, pushed, failed>>
    BY <1>2 DEF ChangeHabit
  <2>5. OneRound' /\ Remembered'
    BY <2>4 DEF OneRound, Remembered, Marked
  <2>6. PushesAreCovered'
    BY <2>4 DEF PushesAreCovered, Marked
  <2> QED BY <2>3, <2>5, <2>6
<1>3. CASE BeginRound
  <2> DEFINE r == [at |-> time, todo |-> Commuters, marks |-> [u \in Commuters |-> {}]]
  <2>1. round = {} /\ round' = {r} /\ UNCHANGED <<time, habit, notice, inbox, pushed, failed>>
    BY <1>3 DEF BeginRound
  <2>2. r \in [at : Nat, todo : SUBSET Commuters, marks : [Commuters -> SUBSET AnyDate]]
    BY DEF OneHabit
  <2>3. OneRound'
    <3>1. \A q \in round' : \A u \in q.todo : q.marks[u] = {}
      BY <2>1
    <3> HIDE DEF r
    <3>2. \E q \in [at : Nat, todo : SUBSET Commuters, marks : [Commuters -> SUBSET AnyDate]] : round' = {q}
      BY <2>1, <2>2
    <3> QED BY <3>1, <3>2 DEF OneRound
  <2>4. \A v \in Commuters : Marked(v)' = {} /\ Marked(v) = {}
    BY <2>1 DEF Marked
  <2>5. Remembered'
    BY <2>1, <2>4 DEF Remembered, OneAtMost
  <2>6. PushesAreCovered'
    BY <2>1, <2>4 DEF PushesAreCovered
  <2> QED BY <2>1, <2>3, <2>5, <2>6 DEF OneHabit
<1>4. ASSUME NEW u \in Commuters, Nudge(u) PROVE NudgeInv'
  <2> DEFINE due(r) == {ServiceDate(d) : d \in Near(r.at, u)} \ notice[u]
             next(r) == [r EXCEPT !.todo = @ \ {u}, !.marks[u] = due(r)]
             Type == [at : Nat, todo : SUBSET Commuters, marks : [Commuters -> SUBSET AnyDate]]
  <2>1. PICK r \in round : /\ u \in r.todo /\ round' = {next(r)}
                           /\ pushed' = [pushed EXCEPT ![u] = @ \o SetToSeq(due(r))]
                           /\ UNCHANGED <<time, habit, changes, notice, lastRound, inbox, failed>>
    BY <1>4 DEF Nudge
  <2>2. r \in Type /\ round = {r} /\ \A v \in r.todo : r.marks[v] = {}
    BY <2>1 DEF OneRound
  <2>3. due(r) \subseteq AnyDate /\ OneAtMost(due(r))
    BY <2>2, OneDue
  <2>4. due(r) \cap notice[u] = {}
    OBVIOUS
  <2> DEFINE m == due(r)
  <2>5. PICK q : /\ q = [r EXCEPT !.todo = @ \ {u}, !.marks[u] = m]
                 /\ round' = {q} /\ pushed' = [pushed EXCEPT ![u] = @ \o SetToSeq(m)]
    BY <2>1
  <2> HIDE DEF m, due
  <2>6. m \in SUBSET AnyDate /\ OneAtMost(m) /\ m \cap notice[u] = {}
    BY <2>3, <2>4 DEF m
  <2>7. /\ q \in Type /\ q.marks[u] = m
        /\ \A v \in Commuters \ {u} : q.marks[v] = r.marks[v]
        /\ \A v \in q.todo : q.marks[v] = {}
    BY <2>2, <2>5, <2>6
  <2>8. OneRound'
    BY <2>5, <2>7 DEF OneRound
  <2>9. /\ Marked(u) = {} /\ Marked(u)' = m
        /\ \A v \in Commuters \ {u} : Marked(v)' = Marked(v)
    <3>1. \A v : Marked(v) = r.marks[v]
      BY <2>2 DEF Marked
    <3>2. \A v : Marked(v)' = q.marks[v]
      BY <2>5 DEF Marked
    <3> QED BY <2>1, <2>2, <2>7, <3>1, <3>2
  <2>10. Remembered'
    BY <2>1, <2>6, <2>9 DEF Remembered
  <2>11. PushesAreCovered'
    <3>1. pushed' \in [Commuters -> Seq(AnyDate)]
      BY <2>5, <2>6, DatesAppended DEF PushesAreCovered
    <3>2. ASSUME NEW v \in Commuters, NEW d \in AnyDate
          PROVE  Count(pushed'[v], d) <= Count(inbox[v], d) + failed + (IF d \in Marked(v)' THEN 1 ELSE 0)
      <4>1. CASE v = u
        <5>1. pushed'[u] = pushed[u] \o SetToSeq(m)
          BY <2>5 DEF PushesAreCovered
        <5>2. Count(pushed'[u], d) = Count(pushed[u], d) + (IF d \in m THEN 1 ELSE 0)
          BY <2>6, <5>1, DatesAppended DEF PushesAreCovered
        <5>3. Count(pushed[u], d) <= Count(inbox[u], d) + failed
          <6>1. Count(inbox[u], d) \in Nat /\ failed \in Nat
            BY CountAppended DEF Remembered, OneHabit
          <6>2. Count(pushed[u], d) <= Count(inbox[u], d) + failed + 0
            BY <2>9 DEF PushesAreCovered
          <6> QED BY <6>1, <6>2
        <5>4. Count(pushed[u], d) \in Nat /\ Count(inbox[u], d) \in Nat /\ failed \in Nat
          BY CountAppended DEF PushesAreCovered, Remembered, OneHabit
        <5> HIDE DEF NudgeInv
        <5> QED BY <2>9, <4>1, <5>2, <5>3, <5>4
      <4>2. CASE v # u
        BY <2>5, <2>9, <4>2 DEF PushesAreCovered
      <4> QED BY <4>1, <4>2
    <3> QED BY <2>1, <3>1, <3>2 DEF PushesAreCovered
  <2> QED BY <2>1, <2>8, <2>10, <2>11 DEF OneHabit
<1>5. CASE CommitRound
  <2>1. PICK r \in round :
          /\ notice' = [u \in Commuters |-> IF r.marks[u] = {} THEN notice[u] ELSE r.marks[u]]
          /\ inbox' = [u \in Commuters |-> inbox[u] \o SetToSeq(r.marks[u])]
          /\ round' = {} /\ UNCHANGED <<time, habit, pushed, failed>>
    BY <1>5 DEF CommitRound
  <2>2. \A v \in Commuters : Marked(v) = r.marks[v] /\ r.marks[v] \in SUBSET AnyDate
    BY <2>1 DEF OneRound, Marked
  <2>3. \A v \in Commuters : Marked(v)' = {}
    BY <2>1 DEF Marked
  <2>4. OneHabit' /\ OneRound'
    BY <2>1 DEF OneHabit, OneRound
  <2>5. ASSUME NEW v \in Commuters
        PROVE  /\ inbox'[v] \in Seq(AnyDate)
               /\ notice'[v] = IF inbox'[v] = <<>> THEN {} ELSE {Last(inbox'[v])}
               /\ \A k \in 2..Len(inbox'[v]) : inbox'[v][k] # inbox'[v][k - 1]
               /\ \A d \in AnyDate : Count(inbox'[v], d) = Count(inbox[v], d) + (IF d \in Marked(v) THEN 1 ELSE 0)
    <3> DEFINE m == r.marks[v]  s == inbox[v]
    <3>1. /\ m \in SUBSET AnyDate /\ OneAtMost(m) /\ m \cap notice[v] = {} /\ Marked(v) = m
          /\ s \in Seq(AnyDate) /\ notice[v] = IF s = <<>> THEN {} ELSE {Last(s)}
          /\ \A k \in 2..Len(s) : s[k] # s[k - 1]
      BY <2>2 DEF Remembered
    <3>2. /\ notice'[v] = IF m = {} THEN notice[v] ELSE m
          /\ inbox'[v] = s \o SetToSeq(m)
      BY <2>1
    <3> HIDE DEF m, s
    <3>3. /\ inbox'[v] \in Seq(AnyDate)
          /\ \A d \in AnyDate : Count(inbox'[v], d) = Count(s, d) + (IF d \in m THEN 1 ELSE 0)
      BY <3>1, <3>2, DatesAppended
    <3>4. CASE m = {} /\ SetToSeq(m) = <<>>
      <4>1. inbox'[v] = s
        BY <3>1, <3>2, <3>4, ConcatEmptySeq
      <4> QED BY <3>1, <3>2, <3>3, <3>4, <4>1 DEF s
    <3>5. ASSUME NEW x \in m, m = {x}, SetToSeq(m) = <<x>>
          PROVE  /\ notice'[v] = IF inbox'[v] = <<>> THEN {} ELSE {Last(inbox'[v])}
                 /\ \A k \in 2..Len(inbox'[v]) : inbox'[v][k] # inbox'[v][k - 1]
      <4>1. inbox'[v] = s \o <<x>> /\ notice'[v] = {x} /\ x \in AnyDate
        BY <3>1, <3>2, <3>5
      <4>2. Len(s) \in Nat /\ Len(s \o <<x>>) = Len(s) + 1 /\ (s \o <<x>>)[Len(s) + 1] = x
        BY <3>1, <4>1
      <4>3. \A k \in 1..Len(s) : (s \o <<x>>)[k] = s[k]
        BY <3>1, <4>1
      <4>4. Len(s) > 0 => s[Len(s)] # x
        BY <3>1, <3>5 DEF Last
      <4>5. \A k \in 2..Len(s) + 1 : (s \o <<x>>)[k] # (s \o <<x>>)[k - 1]
        BY <3>1, <4>2, <4>3, <4>4
      <4>6. s \o <<x>> # <<>> /\ Last(s \o <<x>>) = x
        BY <4>2 DEF Last
      <4> QED BY <4>1, <4>2, <4>5, <4>6
    <3>6. CASE \E x \in m : m = {x} /\ SetToSeq(m) = <<x>>
      <4> PICK x \in m : m = {x} /\ SetToSeq(m) = <<x>>
        BY <3>6
      <4> QED BY <3>1, <3>3, <3>5 DEF s
    <3> QED BY <3>1, <3>4, <3>6, OneAsSeq
  <2>6. Remembered'
    <3>1. inbox' \in [Commuters -> Seq(AnyDate)] /\ DOMAIN notice' = Commuters
      BY <2>1, <2>5
    <3> QED BY <2>3, <2>5, <3>1 DEF Remembered, OneAtMost
  <2>7. PushesAreCovered'
    <3>1. ASSUME NEW v \in Commuters, NEW d \in AnyDate
          PROVE  Count(pushed[v], d) <= Count(inbox'[v], d) + failed + 0
      <4>1. Count(pushed[v], d) \in Nat /\ Count(inbox[v], d) \in Nat /\ failed \in Nat
        BY CountAppended DEF PushesAreCovered, Remembered, OneHabit
      <4>2. Count(pushed[v], d) <= Count(inbox[v], d) + failed + (IF d \in Marked(v) THEN 1 ELSE 0)
        BY DEF PushesAreCovered
      <4>3. Count(inbox'[v], d) = Count(inbox[v], d) + (IF d \in Marked(v) THEN 1 ELSE 0)
        BY <2>5
      <4> HIDE DEF NudgeInv
      <4> QED BY <4>1, <4>2, <4>3
    <3> QED BY <2>1, <2>3, <3>1 DEF PushesAreCovered
  <2> QED BY <2>4, <2>6, <2>7
<1>6. CASE FailRound
  <2>1. round' = {} /\ failed' = failed + 1 /\ UNCHANGED <<time, habit, notice, inbox, pushed>>
    BY <1>6 DEF FailRound
  <2>2. \A v \in Commuters : Marked(v)' = {}
    BY <2>1 DEF Marked
  <2>3. OneHabit' /\ OneRound'
    BY <2>1 DEF OneHabit, OneRound
  <2>4. Remembered'
    BY <2>1, <2>2 DEF Remembered, OneAtMost
  <2>5. PushesAreCovered'
    <3>1. ASSUME NEW v \in Commuters, NEW d \in AnyDate
          PROVE  Count(pushed[v], d) <= Count(inbox[v], d) + failed' + 0
      <4>1. Count(pushed[v], d) \in Nat /\ Count(inbox[v], d) \in Nat /\ failed \in Nat
        BY CountAppended DEF PushesAreCovered, Remembered, OneHabit
      <4>2. Count(pushed[v], d) <= Count(inbox[v], d) + failed + (IF d \in Marked(v) THEN 1 ELSE 0)
        BY DEF PushesAreCovered
      <4>3. failed' = failed + 1
        BY <2>1
      <4> HIDE DEF NudgeInv
      <4> QED BY <4>1, <4>2, <4>3
    <3> QED BY <2>1, <2>2, <3>1 DEF PushesAreCovered
  <2> QED BY <2>3, <2>4, <2>5
<1>7. CASE UNCHANGED nudgeVars
  BY <1>7 DEF nudgeVars, OneHabit, OneRound, Remembered, PushesAreCovered, Marked
<1> QED BY <1>1, <1>2, <1>3, <1>4, <1>5, <1>6, <1>7 DEF NudgeNext

LEMMA NudgeInvSuffices == NudgeInv => NudgedOnce
<1> SUFFICES ASSUME NudgeInv, NEW u \in Commuters
             PROVE  /\ \A k \in 2..Len(inbox[u]) : inbox[u][k] # inbox[u][k - 1]
                    /\ notice[u] = IF inbox[u] = <<>> THEN {} ELSE {Last(inbox[u])}
                    /\ \A d \in Dates : Count(pushed[u], d) <= Count(inbox[u], d) + failed + Cardinality(round)
  BY DEF NudgedOnce
<1>1. ASSUME NEW d \in Dates
      PROVE  Count(pushed[u], d) <= Count(inbox[u], d) + failed + Cardinality(round)
  <2> DEFINE s == inbox[u]  p == pushed[u]  m == IF d \in Marked(u) THEN 1 ELSE 0
  <2>1. s \in Seq(AnyDate) /\ p \in Seq(AnyDate) /\ failed \in Nat
    BY DEF NudgeInv, Remembered, PushesAreCovered, OneHabit
  <2>2. Cardinality(round) \in Nat /\ m <= Cardinality(round)
    <3>1. CASE round = {}
      BY <3>1, FS_EmptySet DEF Marked
    <3>2. CASE \E r : round = {r}
      BY <3>2, FS_Singleton
    <3> QED BY <3>1, <3>2 DEF NudgeInv, OneRound
  <2>3. CASE d \in AnyDate
    <3>1. Count(p, d) \in Nat /\ Count(s, d) \in Nat
      BY <2>1, <2>3, CountAppended
    <3>2. Count(p, d) <= Count(s, d) + failed + m
      BY <2>3 DEF NudgeInv, PushesAreCovered
    <3> HIDE DEF s, p
    <3>3. Count(p, d) <= Count(s, d) + failed + Cardinality(round)
      BY <2>1, <2>2, <3>1, <3>2
    <3> QED BY <3>3 DEF s, p
  <2>4. CASE d \notin AnyDate
    <3>1. \A q \in Seq(AnyDate) : Count(q, d) = 0
      <4> TAKE q \in Seq(AnyDate)
      <4>1. {k \in DOMAIN q : q[k] = d} = {}
        BY <2>4
      <4> QED BY <4>1, FS_EmptySet DEF Count
    <3> QED BY <2>1, <2>2, <3>1
  <2> QED BY <2>3, <2>4
<1> QED BY <1>1 DEF NudgeInv, Remembered

\* No rider gets two nudges in a row for one service date; a push is repeated
\* only by a cycle that was rolled back; the date remembered is that of the
\* last nudge (ProactiveCommuteSchedulerService.evaluate).
THEOREM NudgesFireOnce == NudgeSpec => []NudgedOnce
  BY NudgeInvInit, NudgeInvStep, NudgeInvSuffices, PTL DEF NudgeSpec

-----------------------------------------------------------------------------
(***************************************************************************)
(* Types.  A call's tokens were issued, and it has seen one row at most; a *)
(* departure is two days ahead at most, so its date is one of Dates.       *)
(***************************************************************************)
Recovering == {"found", "registered", "saved"}
CallFits(k, last) ==
  /\ k.token \in 0..last /\ k.fresh \in 0..last
  /\ OneAtMost(k.seen) /\ (k.step \in Recovering => k.seen \subseteq 1..last)
  /\ k.repeats \in 0..MaxReads

AccountFits ==
  /\ account \subseteq 1..issued /\ OneAtMost(favourite) /\ stored \in 0..issued
  /\ \A c \in ApiCalls : CallFits(call[c], issued)
  /\ losses \in 0..MaxLosses /\ disturbed \subseteq ApiCalls

LEMMA OneIsSmall ==
  ASSUME NEW S, OneAtMost(S)
  PROVE  Cardinality(S) <= 1
<1>1. CASE S = {}
  BY <1>1, FS_EmptySet
<1>2. CASE S # {}
  <2>1. PICK x \in S : TRUE
    BY <1>2
  <2>2. S = {x}
    BY <2>1 DEF OneAtMost
  <2>. QED BY <2>2, FS_Singleton
<1>. QED BY <1>1, <1>2

LEMMA AccountTyped == AccountHasShape /\ AccountFits => AccountTypeOK
<1>. SUFFICES ASSUME AccountHasShape, AccountFits PROVE AccountTypeOK
  OBVIOUS
<1>1. Cardinality(account) <= 1 /\ Cardinality(favourite) <= 1
  BY OneIsSmall DEF AccountHasShape, AccountFits, OneAtMost
<1>2. ASSUME NEW c \in ApiCalls
      PROVE  /\ call[c].step \in Steps /\ {call[c].result, call[c].told} \subseteq Results
             /\ call[c].does \in Verbs \cup Labels
             /\ {call[c].token, call[c].fresh} \subseteq 0..issued
             /\ IF call[c].step \in {"found", "registered", "saved"} THEN call[c].seen \subseteq 1..issued
                ELSE Cardinality(call[c].seen) <= 1
             /\ call[c].again \in BOOLEAN /\ call[c].repeats \in 0..MaxReads /\ call[c].applied \in Nat
  <2>1. call[c] \in CallType /\ CallFits(call[c], issued)
    BY DEF AccountHasShape, AccountFits
  <2>2. Cardinality(call[c].seen) <= 1
    BY <2>1, OneIsSmall DEF CallFits
  <2>. QED BY <2>1, <2>2 DEF CallFits, CallType, Recovering
<1>. QED BY <1>1, <1>2 DEF AccountTypeOK, AccountHasShape, AccountFits

LEMMA AccountFitsInit == AccountBounds /\ AccountInit => AccountFits
  BY DEF AccountBounds, AccountInit, AccountFits, CallFits, OneAtMost, Recovering

\* A step of one call.
LEMMA FitsStep ==
  ASSUME AccountHasShape, AccountFits, NEW c \in ApiCalls, NEW q, call' = [call EXCEPT ![c] = q],
         CallFits(q, issued'), issued' \in {issued, issued + 1}, account' \subseteq 1..issued',
         OneAtMost(favourite'), stored' \in 0..issued', losses' \in 0..MaxLosses, disturbed' \subseteq ApiCalls
  PROVE  AccountFits'
<1>1. call'[c] = q /\ \A d \in ApiCalls \ {c} : call'[d] = call[d]
  BY DEF AccountHasShape
<1>2. issued \in Nat
  BY DEF AccountHasShape
<1>3. \A d \in ApiCalls : CallFits(call'[d], issued')
  BY <1>1, <1>2 DEF AccountFits, CallFits
<1>. QED BY <1>3 DEF AccountFits, CallFits, OneAtMost

LEMMA FinishFits ==
  ASSUME AccountHasShape, AccountFits, NEW c \in ApiCalls, NEW result, Finish(c, result),
         UNCHANGED <<account, issued, favourite>>, stored' \in 0..issued, losses' \in 0..MaxLosses,
         disturbed' \subseteq ApiCalls
  PROVE  AccountFits'
<1>. DEFINE answer == IF call[c].again /\ result # "ok" THEN "unauthorised" ELSE result
            q == [call[c] EXCEPT !.step = "ended", !.result = result, !.told = answer]
<1>1. call' = [call EXCEPT ![c] = q]
  BY DEF Finish, Becomes
<1>2. call[c] \in CallType /\ CallFits(call[c], issued)
  BY DEF AccountHasShape, AccountFits
<1>3. q.step = "ended" /\ q.token = call[c].token /\ q.fresh = call[c].fresh /\ q.seen = call[c].seen
      /\ q.repeats = call[c].repeats
  BY <1>2 DEF CallType
<1>. HIDE DEF q
<1>4. CallFits(q, issued)
  BY <1>2, <1>3 DEF CallFits, Recovering
<1>. QED BY <1>1, <1>4, FitsStep DEF AccountFits

LEMMA PhoneFits ==
  ASSUME AccountHasShape, AccountFits, NEW c \in ApiCalls,
         \/ Open(c) \/ Recover(c) \/ Save(c) \/ SendAgain(c) \/ Deliver(c)
         \/ \E what \in {"read", "remove"} \cup Labels : Send(c, what)
  PROVE  AccountFits'
<1>0. call[c] \in CallType /\ CallFits(call[c], issued) /\ issued \in Nat
  BY DEF AccountHasShape, AccountFits
<1>1. CASE Open(c)
  <2>. DEFINE q == [call[c] EXCEPT !.step = "registering", !.does = "register"]
  <2>1. call' = [call EXCEPT ![c] = q] /\ CallFits(q, issued)
    BY <1>0, <1>1 DEF Open, Becomes, CallFits, CallType, Recovering
  <2>. HIDE DEF q
  <2>. QED BY <1>1, <2>1, FitsStep DEF Open, AccountFits
<1>2. CASE Recover(c) /\ ~call[c].again
  <2>. DEFINE q == [call[c] EXCEPT !.step = "registering"]
  <2>1. call' = [call EXCEPT ![c] = q] /\ CallFits(q, issued)
    BY <1>0, <1>2 DEF Recover, Becomes, CallFits, CallType, Recovering
  <2>. HIDE DEF q
  <2>. QED BY <1>2, <2>1, FitsStep DEF Recover, AccountFits
<1>3. CASE Recover(c) /\ call[c].again
  BY <1>3, FinishFits DEF Recover, AccountFits
<1>4. CASE Save(c) /\ call[c].does = "register"
  BY <1>0, <1>4, FinishFits DEF Save, AccountFits, CallFits
<1>5. CASE Save(c) /\ call[c].does # "register"
  <2>. DEFINE q == [call[c] EXCEPT !.step = "saved"]
  <2>1. call' = [call EXCEPT ![c] = q] /\ CallFits(q, issued)
    BY <1>0, <1>5 DEF Save, Becomes, CallFits, CallType, Recovering
  <2>. HIDE DEF q
  <2>. QED BY <1>0, <1>5, <2>1, FitsStep DEF Save, AccountFits, CallFits
<1>6. CASE SendAgain(c)
  <2>. DEFINE q == [call[c] EXCEPT !.step = "sent", !.token = stored, !.again = TRUE]
  <2>1. call' = [call EXCEPT ![c] = q] /\ CallFits(q, issued)
    BY <1>0, <1>6 DEF SendAgain, Becomes, CallFits, CallType, Recovering, AccountFits
  <2>. HIDE DEF q
  <2>. QED BY <1>6, <2>1, FitsStep DEF SendAgain, AccountFits
<1>7. CASE Deliver(c)
  BY <1>7, FinishFits DEF Deliver, AccountFits
<1>8. ASSUME NEW what \in {"read", "remove"} \cup Labels, Send(c, what) PROVE AccountFits'
  <2>. DEFINE q == [call[c] EXCEPT !.step = "sent", !.does = what, !.token = stored]
  <2>1. call' = [call EXCEPT ![c] = q] /\ CallFits(q, issued)
    BY <1>0, <1>8 DEF Send, Becomes, CallFits, CallType, Recovering, AccountFits
  <2>. HIDE DEF q
  <2>. QED BY <1>8, <2>1, FitsStep DEF Send, AccountFits
<1>. QED BY <1>1, <1>2, <1>3, <1>4, <1>5, <1>6, <1>7, <1>8

LEMMA LoseFits ==
  ASSUME AccountBounds, AccountHasShape, AccountFits, NEW c \in ApiCalls, Lose(c)
  PROVE  AccountFits'
<1>0. call[c] \in CallType /\ CallFits(call[c], issued) /\ issued \in Nat
  BY DEF AccountHasShape, AccountFits
<1>1. losses' \in 0..MaxLosses /\ disturbed' \subseteq ApiCalls /\ UNCHANGED <<account, issued, favourite, stored>>
  <2>1. losses < MaxLosses /\ losses' = losses + 1 /\ UNCHANGED <<account, issued, favourite, stored>>
    BY DEF Lose
  <2>2. disturbed' = disturbed \/ disturbed' = disturbed \cup {c}
    BY DEF Lose
  <2>3. losses \in 0..MaxLosses /\ disturbed \subseteq ApiCalls
    BY DEF AccountFits
  <2>4. losses' \in 0..MaxLosses
    BY <2>1, <2>3 DEF AccountBounds
  <2>. QED BY <2>1, <2>2, <2>3, <2>4
<1>2. CASE MayRepeat(c) /\ call[c].step \in {"sent", "refused", "answered"}
  <2>. DEFINE q == [call[c] EXCEPT !.step = "sent", !.repeats = @ + 1, !.seen = {}, !.result = "none"]
  <2>1. call' = [call EXCEPT ![c] = q]
    BY <1>2 DEF Lose, Becomes
  <2>2. /\ q.step = "sent" /\ q.token = call[c].token /\ q.fresh = call[c].fresh /\ q.seen = {}
        /\ q.repeats = call[c].repeats + 1
    BY <1>0 DEF CallType
  <2>. HIDE DEF q
  <2>3. CallFits(q, issued)
    BY <1>0, <1>2, <2>2 DEF CallFits, Recovering, MayRepeat, OneAtMost, AccountBounds
  <2>. QED BY <1>1, <2>1, <2>3, FitsStep DEF AccountFits
<1>3. CASE ~ (MayRepeat(c) /\ call[c].step \in {"sent", "refused", "answered"})
  <2>1. \E result : Finish(c, result)
    BY <1>3 DEF Lose, NotRegistered
  <2>. QED BY <1>1, <2>1, FinishFits DEF AccountFits
<1>. QED BY <1>2, <1>3

LEMMA ServerFits ==
  ASSUME AccountHasShape, AccountFits, NEW c \in ApiCalls, Authenticate(c) \/ Look(c) \/ CommitCall(c) \/ Find(c)
  PROVE  AccountFits'
<1>0. call[c] \in CallType /\ CallFits(call[c], issued) /\ issued \in Nat
  BY DEF AccountHasShape, AccountFits
<1>1. CASE Authenticate(c)
  <2>. DEFINE next == IF call[c].token \in account THEN "known" ELSE "refused"
              q == [call[c] EXCEPT !.step = next]
  <2>1. call' = [call EXCEPT ![c] = q]
    BY <1>1 DEF Authenticate, Becomes
  <2>2. next \notin Recovering
    BY DEF Recovering
  <2>. HIDE DEF next
  <2>3. CallFits(q, issued)
    BY <1>0, <2>2 DEF CallFits, CallType
  <2>. HIDE DEF q
  <2>. QED BY <1>1, <2>1, <2>3, FitsStep DEF Authenticate, AccountFits
<1>2. CASE Look(c)
  <2>1. ASSUME Becomes(c, [call[c] EXCEPT !.step = "looked", !.seen = favourite]) PROVE AccountFits'
    <3>. DEFINE q == [call[c] EXCEPT !.step = "looked", !.seen = favourite]
    <3>1. call' = [call EXCEPT ![c] = q] /\ CallFits(q, issued)
      BY <1>0, <2>1 DEF Becomes, CallFits, CallType, Recovering, AccountFits
    <3>. HIDE DEF q
    <3>. QED BY <1>2, <3>1, FitsStep DEF Look, AccountFits
  <2>2. ASSUME Becomes(c, [call[c] EXCEPT !.step = "answered", !.result = "missing"]) PROVE AccountFits'
    <3>. DEFINE q == [call[c] EXCEPT !.step = "answered", !.result = "missing"]
    <3>1. call' = [call EXCEPT ![c] = q] /\ CallFits(q, issued)
      BY <1>0, <2>2 DEF Becomes, CallFits, CallType, Recovering
    <3>. HIDE DEF q
    <3>. QED BY <1>2, <3>1, FitsStep DEF Look, AccountFits
  <2>. QED BY <1>2, <2>1, <2>2 DEF Look
<1>3. CASE CommitCall(c)
  <2>1. UNCHANGED <<account, issued, stored, losses, disturbed>>
    BY <1>3 DEF CommitCall
  <2>2. ASSUME NEW result, Answer(c, result) PROVE AccountFits'
    <3>. DEFINE q == [call[c] EXCEPT !.step = "answered", !.result = result]
    <3>1. call' = [call EXCEPT ![c] = q] /\ CallFits(q, issued) /\ favourite' = favourite
      BY <1>0, <2>2 DEF Answer, Becomes, CallFits, CallType, Recovering
    <3>. HIDE DEF q
    <3>. QED BY <2>1, <3>1, FitsStep DEF AccountFits
  <2>3. ASSUME NEW favourites, OneAtMost(favourites), Write(c, favourites) PROVE AccountFits'
    <3>. DEFINE q == [call[c] EXCEPT !.step = "answered", !.result = "ok", !.applied = @ + 1]
    <3>1. call' = [call EXCEPT ![c] = q] /\ CallFits(q, issued) /\ favourite' = favourites
      BY <1>0, <2>3 DEF Write, Becomes, CallFits, CallType, Recovering
    <3>. HIDE DEF q
    <3>. QED BY <2>1, <2>3, <3>1, FitsStep DEF AccountFits
  <2>4. OneAtMost({}) /\ \A x : OneAtMost({x})
    BY DEF OneAtMost
  <2>. QED BY <1>3, <2>2, <2>3, <2>4 DEF CommitCall, Read, RemoveFavourite, Set
<1>4. CASE Find(c)
  <2>. DEFINE q == [call[c] EXCEPT !.step = "found", !.seen = account]
  <2>1. OneAtMost(account) /\ account \subseteq 1..issued
    BY DEF AccountHasShape, OneAtMost, AccountFits
  <2>2. call' = [call EXCEPT ![c] = q] /\ CallFits(q, issued)
    BY <1>0, <1>4, <2>1 DEF Find, Becomes, CallFits, CallType
  <2>. HIDE DEF q
  <2>. QED BY <1>4, <2>2, FitsStep DEF Find, AccountFits
<1>. QED BY <1>1, <1>2, <1>3, <1>4

LEMMA EnrolFits ==
  ASSUME AccountHasShape, AccountFits, NEW c \in ApiCalls, Enrol(c)
  PROVE  AccountFits'
<1>0. /\ call[c] \in CallType /\ CallFits(call[c], issued) /\ issued \in Nat
      /\ UNCHANGED <<favourite, stored, losses>> /\ call[c].step = "found" /\ disturbed' \subseteq ApiCalls
  <2>1. call[c] \in CallType /\ CallFits(call[c], issued) /\ issued \in Nat
    BY DEF AccountHasShape, AccountFits
  <2>2. disturbed' \subseteq ApiCalls
    BY DEF Enrol, AccountFits
  <2>. QED BY <2>1, <2>2 DEF Enrol
<1>1. CASE call[c].seen = {} /\ account # {}
  <2>1. UNCHANGED <<account, issued>> /\ \E result : Finish(c, result)
    BY <1>1 DEF Enrol, NotRegistered
  <2>. QED BY <1>0, <2>1, FinishFits DEF AccountFits
<1>2. CASE ~ (call[c].seen = {} /\ account # {})
  <2>. DEFINE q == [call[c] EXCEPT !.step = "registered", !.fresh = issued + 1]
  <2>1. account' = {issued + 1} /\ issued' = issued + 1 /\ call' = [call EXCEPT ![c] = q]
    BY <1>2 DEF Enrol, Becomes
  <2>2. q.step = "registered" /\ q.fresh = issued + 1 /\ q.token = call[c].token /\ q.seen = call[c].seen
        /\ q.repeats = call[c].repeats
    BY <1>0 DEF CallType
  <2>. HIDE DEF q
  <2>3. CallFits(q, issued')
    BY <1>0, <2>1, <2>2 DEF CallFits, Recovering
  <2>4. stored' \in 0..issued' /\ OneAtMost(favourite') /\ losses' \in 0..MaxLosses /\ account' \subseteq 1..issued'
    BY <1>0, <2>1 DEF AccountFits
  <2>. QED BY <1>0, <2>1, <2>3, <2>4, FitsStep
<1>. QED BY <1>1, <1>2

LEMMA AccountFitsStep ==
  AccountBounds /\ AccountHasShape /\ AccountFits /\ [AccountNext]_accountVars => AccountFits'
<1>. SUFFICES ASSUME AccountBounds, AccountHasShape, AccountFits, [AccountNext]_accountVars PROVE AccountFits'
  OBVIOUS
<1>1. CASE UNCHANGED accountVars
  BY <1>1 DEF accountVars, AccountFits, CallFits, OneAtMost
<1>. QED BY <1>1, PhoneFits, LoseFits, ServerFits, EnrolFits DEF AccountNext

NudgeFits ==
  /\ time \in 0..MaxNow /\ lastRound \in -1..MaxNow
  /\ habit \in [Commuters -> SUBSET (0..(DayHours - 1))]
  /\ notice \in [Commuters -> SUBSET Dates]
  /\ inbox \in [Commuters -> Seq(Dates)] /\ pushed \in [Commuters -> Seq(Dates)]
  /\ round \subseteq [at : 0..MaxNow, todo : SUBSET Commuters, marks : [Commuters -> SUBSET Dates]]
  /\ changes \in 0..MaxHabits /\ failed \in 0..MaxFailed

LEMMA DatesAreKept ==
  ASSUME NudgeBounds, NEW now \in 0..MaxNow, NEW h \in 0..(DayHours - 1)
  PROVE  ServiceDate(DepartureAfter(now, h)) \in Dates
<1>. DEFINE q == now \div DayHours
            n == MaxNow \div DayHours
            departure == DepartureAfter(now, h)
            x == departure + LocalOffset
            e == x \div DayHours
<1>1. /\ q \in Nat /\ n \in Nat /\ DayHours \in Nat /\ DayHours > 0
      /\ now % DayHours \in 0..(DayHours - 1) /\ MaxNow % DayHours \in 0..(DayHours - 1)
      /\ now = q * DayHours + (now % DayHours) /\ MaxNow = n * DayHours + (MaxNow % DayHours)
      /\ LocalOffset \in 0..DayHours /\ Grace \in Nat /\ now <= MaxNow
  BY DEF NudgeBounds
<1>2. q * DayHours \in Nat /\ n * DayHours \in Nat
  BY <1>1
<1>3. departure \in Nat /\ departure < q * DayHours + 2 * DayHours
  <2>. DEFINE p == q * DayHours
  <2>1. departure = IF p + h < now - Grace THEN p + h + DayHours ELSE p + h
    BY DEF DepartureAfter
  <2>2. p \in Nat
    BY <1>2
  <2>. HIDE DEF p, departure
  <2>3. departure \in Nat /\ departure < p + 2 * DayHours
    BY <1>1, <2>1, <2>2
  <2>. QED BY <2>3 DEF p
<1>4. x \in Nat /\ x < q * DayHours + 3 * DayHours
  <2>. DEFINE p == q * DayHours
  <2>1. p \in Nat /\ departure \in Nat /\ departure < p + 2 * DayHours
    BY <1>2, <1>3
  <2>. HIDE DEF p, departure
  <2>2. x \in Nat /\ x < p + 3 * DayHours
    BY <1>1, <2>1
  <2>. QED BY <2>2 DEF p
<1>5. e \in Nat /\ x % DayHours \in 0..(DayHours - 1) /\ x = e * DayHours + (x % DayHours)
  <2>. HIDE DEF x
  <2>. QED BY <1>1, <1>4
<1>. HIDE DEF q, n, e, x, departure
<1>6. q <= n
  <2>. SUFFICES ASSUME n + 1 <= q PROVE FALSE
    BY <1>1
  <2>1. (n + 1) * DayHours <= q * DayHours
    BY <1>1
  <2>2. (n + 1) * DayHours = n * DayHours + DayHours
    BY <1>1
  <2>. QED BY <1>1, <1>2, <2>1, <2>2
<1>7. e <= q + 2
  <2>. SUFFICES ASSUME q + 3 <= e PROVE FALSE
    BY <1>1, <1>5
  <2>1. (q + 3) * DayHours <= e * DayHours
    BY <1>1, <1>5
  <2>2. (q + 3) * DayHours = q * DayHours + 3 * DayHours
    BY <1>1
  <2>3. e * DayHours \in Nat
    BY <1>1, <1>5
  <2>. QED BY <1>1, <1>2, <1>4, <1>5, <2>1, <2>2, <2>3
<1>8. e \in 0..(n + 2)
  BY <1>1, <1>5, <1>6, <1>7
<1>. QED BY <1>8 DEF Dates, ServiceDate, e, x, n, departure

LEMMA SetKept ==
  ASSUME NEW S \in SUBSET Dates, OneAtMost(S), NEW s \in Seq(Dates)
  PROVE  s \o SetToSeq(S) \in Seq(Dates)
<1>1. CASE SetToSeq(S) = <<>>
  BY <1>1
<1>2. CASE \E x \in S : SetToSeq(S) = <<x>>
  <2>1. PICK x \in Dates : SetToSeq(S) = <<x>>
    BY <1>2
  <2>2. s \o <<x>> \in Seq(Dates)
    OBVIOUS
  <2>. QED BY <2>1, <2>2
<1>. QED BY <1>1, <1>2, OneAsSeq

LEMMA NudgeFitsInit == NudgeBounds /\ NudgeInit => NudgeFits
<1>. SUFFICES ASSUME NudgeBounds, NudgeInit PROVE NudgeFits
  OBVIOUS
<1>1. habit \in [Commuters -> SUBSET (0..(DayHours - 1))]
  <2>1. {} \in SUBSET (0..(DayHours - 1)) /\ {2} \in SUBSET (0..(DayHours - 1))
    BY DEF NudgeBounds
  <2>. QED BY <2>1 DEF NudgeInit
<1>. QED BY <1>1 DEF NudgeInit, NudgeBounds, NudgeFits

LEMMA NudgeFitsStep == NudgeBounds /\ NudgeInv /\ NudgeFits /\ [NudgeNext]_nudgeVars => NudgeFits'
<1>. SUFFICES ASSUME NudgeBounds, NudgeInv, NudgeFits, [NudgeNext]_nudgeVars PROVE NudgeFits'
  OBVIOUS
<1>. DEFINE Type == [at : 0..MaxNow, todo : SUBSET Commuters, marks : [Commuters -> SUBSET Dates]]
<1>1. CASE Elapse
  BY <1>1 DEF Elapse, NudgeFits, NudgeBounds
<1>2. ASSUME NEW u \in Commuters, ChangeHabit(u) PROVE NudgeFits'
  <2>1. PICK h \in SUBSET (0..(DayHours - 1)) : habit' = [habit EXCEPT ![u] = h]
    BY <1>2 DEF ChangeHabit
  <2>. QED BY <1>2, <2>1 DEF ChangeHabit, NudgeFits, NudgeBounds
<1>3. CASE BeginRound
  <2>. DEFINE r == [at |-> time, todo |-> Commuters, marks |-> [u \in Commuters |-> {}]]
  <2>1. r \in Type
    BY DEF NudgeFits
  <2>2. round' = {r} /\ UNCHANGED <<time, habit, changes, notice, lastRound, inbox, pushed, failed>>
    BY <1>3 DEF BeginRound
  <2>. HIDE DEF r
  <2>. QED BY <2>1, <2>2 DEF NudgeFits
<1>4. ASSUME NEW u \in Commuters, Nudge(u) PROVE NudgeFits'
  <2>. DEFINE due(r) == {ServiceDate(d) : d \in Near(r.at, u)} \ notice[u]
  <2>1. PICK r \in round :
          /\ round' = {[r EXCEPT !.todo = @ \ {u}, !.marks[u] = due(r)]}
          /\ pushed' = [pushed EXCEPT ![u] = @ \o SetToSeq(due(r))]
          /\ UNCHANGED <<time, habit, changes, notice, lastRound, inbox, failed>>
    BY <1>4 DEF Nudge
  <2>2. r \in Type /\ r.at \in 0..MaxNow
    BY DEF NudgeFits
  <2>3. due(r) \subseteq Dates
    <3>1. \A h \in habit[u] : h \in 0..(DayHours - 1)
      BY DEF NudgeFits
    <3>. QED BY <2>2, <3>1, DatesAreKept DEF Near
  <2>4. OneAtMost(due(r))
    <3>1. r.at \in Nat
      BY <2>2 DEF NudgeBounds
    <3>. QED BY <3>1, OneDue DEF NudgeInv
  <2>. DEFINE m == due(r)
  <2>5. m \in SUBSET Dates /\ OneAtMost(m)
    BY <2>3, <2>4
  <2>6. /\ round' = {[r EXCEPT !.todo = @ \ {u}, !.marks[u] = m]}
        /\ pushed' = [pushed EXCEPT ![u] = @ \o SetToSeq(m)]
    BY <2>1
  <2>. HIDE DEF m, due
  <2>7. [r EXCEPT !.todo = @ \ {u}, !.marks[u] = m] \in Type
    BY <2>2, <2>5
  <2>8. pushed' \in [Commuters -> Seq(Dates)]
    <3>1. pushed[u] \o SetToSeq(m) \in Seq(Dates)
      BY <2>5, SetKept DEF NudgeFits
    <3>. QED BY <2>6, <3>1 DEF NudgeFits
  <2>. QED BY <2>1, <2>6, <2>7, <2>8 DEF NudgeFits
<1>5. CASE CommitRound
  <2>1. PICK r \in round :
          /\ notice' = [u \in Commuters |-> IF r.marks[u] = {} THEN notice[u] ELSE r.marks[u]]
          /\ inbox' = [u \in Commuters |-> inbox[u] \o SetToSeq(r.marks[u])]
          /\ round' = {} /\ lastRound' = r.at
          /\ UNCHANGED <<time, habit, changes, pushed, failed>>
    BY <1>5 DEF CommitRound
  <2>2. r \in Type
    BY DEF NudgeFits
  <2>3. ASSUME NEW u \in Commuters PROVE inbox[u] \o SetToSeq(r.marks[u]) \in Seq(Dates)
    <3>1. r.marks[u] \subseteq Dates /\ OneAtMost(r.marks[u])
      <4>1. OneAtMost(Marked(u))
        BY DEF NudgeInv, Remembered
      <4>2. r.marks[u] \subseteq Marked(u)
        BY <2>1 DEF Marked
      <4>. QED BY <2>2, <4>1, <4>2 DEF OneAtMost
    <3>. QED BY <3>1, SetKept DEF NudgeFits
  <2>4. inbox' \in [Commuters -> Seq(Dates)] /\ notice' \in [Commuters -> SUBSET Dates]
    BY <2>1, <2>2, <2>3 DEF NudgeFits
  <2>5. lastRound' \in -1..MaxNow
    BY <2>1, <2>2 DEF NudgeBounds
  <2>. QED BY <2>1, <2>4, <2>5 DEF NudgeFits
<1>6. CASE FailRound
  <2>1. PICK r \in round : lastRound' = r.at /\ failed < MaxFailed /\ failed' = failed + 1 /\ round' = {}
                           /\ UNCHANGED <<time, habit, changes, notice, inbox, pushed>>
    BY <1>6 DEF FailRound
  <2>2. r.at \in 0..MaxNow
    BY DEF NudgeFits
  <2>. QED BY <2>1, <2>2 DEF NudgeFits, NudgeBounds
<1>7. CASE UNCHANGED nudgeVars
  BY <1>7 DEF nudgeVars, NudgeFits
<1>. QED BY <1>1, <1>2, <1>3, <1>4, <1>5, <1>6, <1>7 DEF NudgeNext

LEMMA NudgeTyped == NudgeFits => NudgeTypeOK
  BY DEF NudgeFits, NudgeTypeOK

LEMMA NoticeTyped == NoticeBounds /\ AnnounceInv /\ InboxInv => NoticeTypeOK
<1>. SUFFICES ASSUME NoticeBounds, AnnounceInv, InboxInv PROVE NoticeTypeOK
  OBVIOUS
<1>1. 1..lastId \subseteq Ids /\ lastId \in 0..MaxRows /\ lastSeen \in 0..MaxRows
  BY DEF NoticeBounds, InboxInv, InboxTyped, Ids
<1>2. rows \subseteq Ids /\ shown \subseteq Ids /\ overtaken \subseteq Ids /\ DOMAIN created \subseteq Ids
  BY <1>1 DEF InboxInv, InboxTyped
<1>3. \A w \in Writers : open[w] \subseteq Ids /\ stamp[w] \subseteq Nat
  BY <1>1 DEF InboxInv, InboxTyped
<1>4. page \subseteq [ids : SUBSET Ids, read : SUBSET Ids]
  BY <1>1 DEF InboxInv, InboxTyped
<1>. QED BY <1>1, <1>2, <1>3, <1>4 DEF AnnounceInv, AlertTyped, NoticeTypeOK

-----------------------------------------------------------------------------
(***************************************************************************)
(* Refinements.  A refinement is kept with the baseline it was derived     *)
(* from, in the table and in what a cycle has staged, and is one nudge     *)
(* away from it; so what riders are shown is the baseline of today, moved  *)
(* by what fits in the bound.                                              *)
(***************************************************************************)
RowsFit(table, bases) ==
  /\ table \in [Buckets -> SUBSET Refinements] /\ bases \in [Buckets -> SUBSET Int]
  /\ \A b \in Buckets : OneAtMost(table[b])
  /\ \A b \in Buckets : \A row \in table[b] : \E base \in bases[b] : row.adjusted - base \in Nudges

PassFits(p) ==
  /\ p \in [at : 0..MaxClock, todo : Seq(Buckets),
            staged : [Buckets -> SUBSET Refinements], told : [Buckets -> SUBSET Int]]
  /\ RowsFit(p.staged, p.told)

RefinementInv ==
  /\ hourly \in [Hours -> Delays] /\ trips \in [Buckets -> Nat]
  /\ RowsFit(refined, derived)
  /\ \A p \in pass : PassFits(p)
  /\ refinerClock \in 0..MaxClock /\ rides \in 0..MaxRides /\ abortedPasses \in 0..MaxAborts

LEMMA WorstIs ==
  ASSUME RefinementBounds
  PROVE  Max(Delays) \in Delays /\ Max(Delays) \in Int
<1>1. PICK worst \in Delays : \A d \in Delays : worst >= d
  BY DEF RefinementBounds
<1>2. Max(Delays) \in Delays
  BY <1>1 DEF Max
<1>. QED BY <1>2 DEF RefinementBounds

LEMMA OfTwo ==
  ASSUME NEW x \in Int, NEW y \in Int
  PROVE  AtLeast(x, y) = (IF x >= y THEN x ELSE y) /\ AtMost(x, y) = (IF x <= y THEN x ELSE y)
<1>1. CASE x >= y
  <2>1. Max({x, y}) = x
    BY <1>1 DEF Max
  <2>2. Min({x, y}) = y
    BY <1>1 DEF Min
  <2>. QED BY <1>1, <2>1, <2>2 DEF AtLeast, AtMost
<1>2. CASE ~ (x >= y)
  <2>1. Max({x, y}) = y
    BY <1>2 DEF Max
  <2>2. Min({x, y}) = x
    BY <1>2 DEF Min
  <2>. QED BY <1>2, <2>1, <2>2 DEF AtLeast, AtMost
<1>. QED BY <1>1, <1>2

LEMMA ReplyIs ==
  ASSUME RefinementBounds, NEW replies \in [1..Providers -> Replies]
  PROVE  FirstReply(replies) \in Replies
<1>. DEFINE usable == {k \in 1..Providers : replies[k] # {}}
<1>1. FirstReply(replies) = IF usable = {} THEN {} ELSE replies[Min(usable)]
  BY DEF FirstReply
<1>2. CASE usable = {}
  BY <1>1, <1>2 DEF Replies
<1>3. CASE usable # {}
  <2>1. usable \subseteq Nat
    OBVIOUS
  <2>2. PICK m \in usable : \A k \in usable : ~ (<<k, m>> \in OpToRel(<, Nat))
    <3>. HIDE DEF usable
    <3>. QED BY <1>3, <2>1, NatLessThanWellFounded, WFMin
  <2>3. \A k \in usable : m <= k
    <3>. HIDE DEF usable
    <3>. TAKE k \in usable
    <3>1. k \in Nat /\ m \in Nat /\ ~ (k < m)
      BY <2>1, <2>2 DEF OpToRel
    <3>. QED BY <3>1
  <2>4. Min(usable) \in usable
    <3>. HIDE DEF usable
    <3>. QED BY <2>2, <2>3 DEF Min
  <2>. QED BY <1>1, <1>3, <2>4
<1>. QED BY <1>2, <1>3

LEMMA BusyAreBuckets ==
  ASSUME RefinementBounds, trips \in [Buckets -> Nat], NEW todo \in ActiveBuckets
  PROVE  todo \in Seq(Buckets)
<1>. DEFINE busy == {b \in Buckets : trips[b] > 0}
<1>1. IsFiniteSet(Buckets)
  <2>1. IsFiniteSet(Hours) /\ IsFiniteSet({"weekday", "weekend"})
    <3>1. IsFiniteSet({1}) /\ IsFiniteSet({"weekday"})
      BY FS_Singleton
    <3>2. Hours = {1} \cup {2} /\ {"weekday", "weekend"} = {"weekday"} \cup {"weekend"}
      BY DEF Hours
    <3>. QED BY <3>1, <3>2, FS_AddElement
  <2>. QED BY <2>1, FS_Product DEF Buckets
<1>2. Cardinality(busy) \in Nat
  BY <1>1, FS_Subset, FS_CardinalityType
<1>3. PICK order \in SetToSeqs(busy) : todo = SubSeq(order, 1, AtMost(MaxBuckets, Len(order)))
  BY DEF ActiveBuckets
<1>4. order \in Seq(Buckets)
  <2>1. order \in [1..Cardinality(busy) -> busy]
    BY <1>3 DEF SetToSeqs
  <2>2. order \in [1..Cardinality(busy) -> Buckets]
    BY <2>1
  <2>. DEFINE n == Cardinality(busy)
  <2>3. n \in Nat /\ order \in [1..n -> Buckets]
    BY <1>2, <2>2
  <2>. HIDE DEF n
  <2>. QED BY <2>3, SeqDef
<1>5. AtMost(MaxBuckets, Len(order)) \in 0..Len(order)
  BY <1>4, OfTwo DEF RefinementBounds
<1>. QED BY <1>3, <1>4, <1>5, SubSeqProperties

LEMMA RefinementInvInit == RefinementBounds /\ RefinementInit => RefinementInv
<1>. SUFFICES ASSUME RefinementBounds, RefinementInit PROVE RefinementInv
  OBVIOUS
<1>1. /\ hourly \in [Hours -> Delays] /\ trips \in [Buckets -> Nat]
      /\ refinerClock \in 0..MaxClock /\ rides \in 0..MaxRides /\ abortedPasses \in 0..MaxAborts /\ pass = {}
  BY WorstIs DEF RefinementBounds, RefinementInit
<1>2. PICK new \in {{}} \cup {{[adjusted |-> Max(Delays) + n, at |-> -1]} : n \in Nudges} :
        /\ refined = [b \in Buckets |-> IF b = <<2, "weekday">> THEN new ELSE {}]
        /\ derived = [b \in Buckets |-> IF refined[b] = {} THEN {} ELSE {Max(Delays)}]
  BY DEF RefinementInit
<1>3. new \subseteq Refinements /\ OneAtMost(new) /\ \A row \in new : row.adjusted - Max(Delays) \in Nudges
  <2>1. CASE new = {}
    BY <2>1 DEF OneAtMost
  <2>2. ASSUME NEW n \in Nudges, new = {[adjusted |-> Max(Delays) + n, at |-> -1]}
        PROVE  new \subseteq Refinements /\ OneAtMost(new) /\ \A row \in new : row.adjusted - Max(Delays) \in Nudges
    BY <2>2, WorstIs DEF OneAtMost, Refinements, RefinementBounds
  <2>. QED BY <1>2, <2>1, <2>2
<1>4. RowsFit(refined, derived)
  BY <1>2, <1>3, WorstIs DEF RowsFit, OneAtMost
<1>. QED BY <1>1, <1>4 DEF RefinementInv

LEMMA BaselineTyped ==
  ASSUME RefinementBounds, RefinementInv, NEW b \in Buckets
  PROVE  Baseline(b) \in Int /\ b[1] \in Hours
<1>1. b[1] \in Hours
  BY DEF Buckets
<1>2. hourly[b[1]] \in Int
  BY <1>1 DEF RefinementBounds, RefinementInv
<1>. QED BY <1>1, <1>2 DEF Baseline

LEMMA RefineKeeps ==
  ASSUME RefinementBounds, RefinementInv, NEW reply \in Replies, Refine(reply)
  PROVE  RefinementInv'
<1>1. PICK p \in pass :
        LET b == Head(p.todo)
            new == {[adjusted |-> TellBaseline(b) + n, at |-> p.at] : n \in reply}
        IN /\ p.todo # <<>>
           /\ pass' = {[p EXCEPT !.todo = Tail(@),
                                 !.staged[b] = IF new = {} THEN @ ELSE new,
                                 !.told[b] = IF new = {} THEN @ ELSE {Baseline(b)}]}
           /\ UNCHANGED <<hourly, trips, rides, refined, refinerClock, lastPass, abortedPasses, derived>>
  BY DEF Refine
<1>. DEFINE b == Head(p.todo)
            new == {[adjusted |-> TellBaseline(b) + n, at |-> p.at] : n \in reply}
            table == [p.staged EXCEPT ![b] = IF new = {} THEN @ ELSE new]
            bases == [p.told EXCEPT ![b] = IF new = {} THEN @ ELSE {Baseline(b)}]
            q == [p EXCEPT !.todo = Tail(@), !.staged = table, !.told = bases]
<1>2. PassFits(p) /\ p.todo \in Seq(Buckets) /\ p.todo # <<>>
  BY <1>1 DEF RefinementInv, PassFits
<1>3. b \in Buckets /\ Tail(p.todo) \in Seq(Buckets)
  BY <1>2
<1>4. Baseline(b) \in Int
  BY <1>3, BaselineTyped
<1>5. new \subseteq Refinements /\ OneAtMost(new) /\ \A row \in new : row.adjusted - Baseline(b) \in Nudges
  <2>1. CASE reply = {}
    BY <2>1 DEF OneAtMost
  <2>2. ASSUME NEW n \in Nudges, reply = {n}
        PROVE  new \subseteq Refinements /\ OneAtMost(new) /\ \A row \in new : row.adjusted - Baseline(b) \in Nudges
    <3>1. new = {[adjusted |-> Baseline(b) + n, at |-> p.at]}
      BY <2>2 DEF TellBaseline
    <3>2. n \in Int /\ p.at \in -1..MaxClock /\ Baseline(b) + n \in Int /\ (Baseline(b) + n) - Baseline(b) = n
      BY <1>2, <1>4 DEF PassFits, RefinementBounds
    <3>. QED BY <3>1, <3>2 DEF OneAtMost, Refinements
  <2>. QED BY <2>1, <2>2 DEF Replies
<1>6. RowsFit(table, bases)
  <2>. HIDE DEF b, new
  <2>. QED BY <1>2, <1>3, <1>4, <1>5 DEF PassFits, RowsFit
<1>7. PassFits(q) /\ pass' = {q}
  <2>1. pass' = {q}
    BY <1>1
  <2>2. q.staged = table /\ q.told = bases
    BY <1>2 DEF PassFits
  <2>3. q \in [at : 0..MaxClock, todo : Seq(Buckets),
               staged : [Buckets -> SUBSET Refinements], told : [Buckets -> SUBSET Int]]
    <3>. HIDE DEF table, bases, b
    <3>. QED BY <1>2, <1>3, <1>6 DEF PassFits, RowsFit
  <2>. HIDE DEF q, table, bases
  <2>. QED BY <1>6, <2>1, <2>2, <2>3 DEF PassFits
<1>. QED BY <1>1, <1>7 DEF RefinementInv

LEMMA RefinementInvStep ==
  RefinementBounds /\ RefinementInv /\ [RefinementNext]_refinementVars => RefinementInv'
<1>. SUFFICES ASSUME RefinementBounds, RefinementInv, [RefinementNext]_refinementVars PROVE RefinementInv'
  OBVIOUS
<1>. USE DEF RefinementInv
<1>1. CASE BeginPass
  <2>1. PICK todo \in ActiveBuckets :
          pass' = {[at |-> refinerClock, todo |-> todo, staged |-> refined, told |-> derived]}
    BY <1>1 DEF BeginPass
  <2>2. todo \in Seq(Buckets)
    BY BusyAreBuckets
  <2>. DEFINE q == [at |-> refinerClock, todo |-> todo, staged |-> refined, told |-> derived]
  <2>3. q.staged = refined /\ q.told = derived
    OBVIOUS
  <2>4. q \in [at : 0..MaxClock, todo : Seq(Buckets),
               staged : [Buckets -> SUBSET Refinements], told : [Buckets -> SUBSET Int]]
    BY <2>2 DEF RowsFit
  <2>5. PassFits(q)
    <3>. HIDE DEF q
    <3>. QED BY <2>3, <2>4 DEF PassFits
  <2>. QED BY <1>1, <2>1, <2>5 DEF BeginPass
<1>2. CASE TooFew
  <2>1. PICK p \in pass : p.todo # <<>> /\ pass' = {[p EXCEPT !.todo = Tail(@)]}
    BY <1>2 DEF TooFew
  <2>2. Tail(p.todo) \in Seq(Buckets) /\ PassFits(p)
    BY <2>1 DEF PassFits
  <2>3. PassFits([p EXCEPT !.todo = Tail(@)])
    BY <2>2 DEF PassFits
  <2>. QED BY <1>2, <2>1, <2>3 DEF TooFew
<1>3. CASE CommitPass
  <2>1. PICK p \in pass : refined' = p.staged /\ derived' = p.told
    BY <1>3 DEF CommitPass
  <2>2. RowsFit(refined, derived)'
    BY <2>1 DEF PassFits, RowsFit
  <2>. QED BY <1>3, <2>2 DEF CommitPass
<1>4. CASE AbortPass
  BY <1>4 DEF AbortPass, RefinementBounds
<1>5. CASE Travel
  <2>1. PICK b \in Buckets, d \in Delays :
          /\ \/ trips' = [trips EXCEPT ![b] = @ + 1]
             \/ trips[b] > 0 /\ trips' = [trips EXCEPT ![b] = @ - 1]
          /\ hourly' = [hourly EXCEPT ![b[1]] = d]
    BY <1>5 DEF Travel
  <2>2. hourly' \in [Hours -> Delays] /\ trips' \in [Buckets -> Nat]
    <3>1. b[1] \in Hours /\ trips[b] \in Nat
      BY DEF Buckets
    <3>2. hourly' \in [Hours -> Delays]
      BY <2>1, <3>1
    <3>3. trips' \in [Buckets -> Nat]
      <4>1. PICK n \in Nat : trips' = [trips EXCEPT ![b] = n]
        <5>1. CASE trips' = [trips EXCEPT ![b] = @ + 1]
          <6>1. trips[b] + 1 \in Nat /\ trips' = [trips EXCEPT ![b] = trips[b] + 1]
            BY <3>1, <5>1
          <6>. QED BY <6>1
        <5>2. CASE trips[b] > 0 /\ trips' = [trips EXCEPT ![b] = @ - 1]
          <6>1. trips[b] - 1 \in Nat /\ trips' = [trips EXCEPT ![b] = trips[b] - 1]
            BY <3>1, <5>2
          <6>. QED BY <6>1
        <5>. QED BY <2>1, <5>1, <5>2
      <4>. QED BY <4>1
    <3>. QED BY <3>2, <3>3
  <2>. QED BY <1>5, <2>2 DEF Travel, RefinementBounds
<1>6. CASE ClockTicks
  BY <1>6 DEF ClockTicks, RefinementBounds
<1>7. ASSUME NEW replies \in [1..Providers -> Replies], Refine(FirstReply(replies)) PROVE RefinementInv'
  BY <1>7, ReplyIs, RefineKeeps
<1>8. CASE UNCHANGED refinementVars
  BY <1>8 DEF refinementVars
<1>. QED BY <1>1, <1>2, <1>3, <1>4, <1>5, <1>6, <1>7, <1>8 DEF RefinementNext

LEMMA RefinementTyped == RefinementBounds /\ RefinementInv => RefinementTypeOK
<1>. SUFFICES ASSUME RefinementBounds, RefinementInv PROVE RefinementTypeOK
  OBVIOUS
<1>1. \A b \in Buckets : Cardinality(refined[b]) <= 1
  BY OneIsSmall DEF RefinementInv, RowsFit
<1>2. \A p \in pass : ToSet(p.todo) \subseteq Buckets /\ p.at \in 0..MaxClock
  <2>. TAKE p \in pass
  <2>1. p.todo \in Seq(Buckets) /\ p.at \in 0..MaxClock
    BY DEF RefinementInv, PassFits
  <2>. QED BY <2>1 DEF ToSet
<1>. QED BY <1>1, <1>2 DEF RefinementInv, RowsFit, RefinementTypeOK

\* A bucket is shown today's baseline, or that moved towards its fresh refinement.
LEMMA ShownIs ==
  ASSUME RefinementBounds, RefinementInv
  PROVE  ShownNearHistory
<1>. SUFFICES ASSUME NEW b \in Buckets, NEW s \in Estimates(b, refinerClock)
     PROVE  /\ Size(s - Baseline(b)) <= Bound(Baseline(b))
            /\ \A row \in refined[b] :
                 /\ s > Baseline(b) => row.adjusted > Baseline(b)
                 /\ s < Baseline(b) => row.adjusted < Baseline(b)
            /\ s # Baseline(b) => Fresh(b, refinerClock) # {} /\ Samples(b[1]) > 0
  BY DEF ShownNearHistory
<1>. DEFINE base == Baseline(b)
            most == Bound(base)
<1>1. base \in Int /\ b[1] \in Hours /\ Samples(b[1]) \in Nat
  <2>1. b[1] \in Hours /\ \A h \in Hours : <<h, "weekday">> \in Buckets /\ <<h, "weekend">> \in Buckets
    BY DEF Buckets
  <2>. QED BY <2>1, BaselineTyped DEF RefinementInv, Samples
<1>2. \A x \in Int : Size(x) = IF x >= 0 THEN x ELSE 0 - x
  BY OfTwo DEF Size
<1>3. most \in Nat
  <2>1. Size(base) \in Nat
    BY <1>1, <1>2
  <2>2. Size(base) \div 2 \in Nat
    BY <2>1
  <2>. QED BY <2>2, OfTwo DEF Bound, RefinementBounds
<1>4. CASE s = base
  BY <1>1, <1>2, <1>3, <1>4 DEF RefinementInv
<1>5. CASE s # base
  <2>1. PICK row \in Fresh(b, refinerClock) :
          s = base + AtLeast(0 - most, AtMost(most, row.adjusted - base))
    BY <1>5 DEF Estimates
  <2>2. Samples(b[1]) > 0 /\ Fresh(b, refinerClock) # {}
    BY <1>1, <1>5 DEF Estimates
  <2>3. row \in refined[b] /\ row.adjusted \in Int /\ \A r \in refined[b] : r = row
    BY <2>1 DEF Fresh, RefinementInv, RowsFit, OneAtMost, Refinements
  <2>. DEFINE x == row.adjusted - base
  <2>4. AtMost(most, x) = (IF most <= x THEN most ELSE x) /\ AtMost(most, x) \in Int
    BY <1>1, <1>3, <2>3, OfTwo
  <2>5. AtLeast(0 - most, AtMost(most, x)) = (IF 0 - most >= AtMost(most, x) THEN 0 - most ELSE AtMost(most, x))
    BY <1>3, <2>4, OfTwo
  <2>6. s - base \in Int /\ 0 - most <= s - base /\ s - base <= most
        /\ (s > base => row.adjusted > base) /\ (s < base => row.adjusted < base)
    <3>. HIDE DEF most, base
    <3>. QED BY <1>1, <1>3, <2>1, <2>3, <2>4, <2>5
  <2>7. Size(s - base) <= most
    BY <1>2, <1>3, <2>6
  <2>. QED BY <2>2, <2>3, <2>6, <2>7
<1>. QED BY <1>4, <1>5

LEMMA RefinedFollows == RefinementBounds /\ RefinementInv => DelaysAreRefined
  BY ShownIs DEF DelaysAreRefined, DoesNotCompound, RefinementInv, RowsFit

\* A refinement is one nudge away from the history it was derived from, however
\* many cycles there were, and what riders are shown stays within the bound of
\* today's history, on the side the model meant (LlmDelayRefinementScheduler.evaluate,
\* LlmEnhancedDelayEstimator.estimate).
THEOREM RefinementsDoNotCompound == RefinementBounds => (RefinementSpec => []DelaysAreRefined)
<1>. SUFFICES ASSUME RefinementBounds PROVE RefinementSpec => []DelaysAreRefined
  OBVIOUS
<1>1. RefinementInit => RefinementInv
  BY RefinementInvInit
<1>2. RefinementInv /\ [RefinementNext]_refinementVars => RefinementInv'
  BY RefinementInvStep
<1>3. RefinementInv => DelaysAreRefined
  BY RefinedFollows
<1>. QED BY <1>1, <1>2, <1>3, PTL DEF RefinementSpec

-----------------------------------------------------------------------------
(***************************************************************************)
(* The whole: a step of one part leaves the invariants of the others.      *)
(***************************************************************************)
RiderDataInv ==
  /\ ExitInv /\ AnnounceInv /\ InboxInv
  /\ AccountInv /\ AccountFits /\ NudgeInv /\ NudgeFits
  /\ RefinementInv

LEMMA RiderDataInvInit == RiderDataBounds /\ RiderDataInit => RiderDataInv
  BY ExitInvInit, AnnouncedInit, InboxInit, AccountInvInit, AccountFitsInit, NudgeInvInit, NudgeFitsInit,
     RefinementInvInit
     DEF RiderDataBounds, RiderDataInit, RiderDataInv

LEMMA RiderDataInvStep == RiderDataBounds /\ RiderDataInv /\ [RiderDataNext]_riderDataVars => RiderDataInv'
<1>. SUFFICES ASSUME RiderDataBounds, RiderDataInv, [RiderDataNext]_riderDataVars PROVE RiderDataInv'
  OBVIOUS
<1>1. /\ [ExitNext]_exitVars /\ [AlertNext]_alertVars /\ [InboxNext]_inboxVars
      /\ [AccountNext]_accountVars /\ [NudgeNext]_nudgeVars /\ [RefinementNext]_refinementVars
  BY DEF RiderDataNext, riderDataVars
<1>2. ExitInv'
  BY <1>1, ExitInvStep DEF RiderDataBounds, RiderDataInv
<1>3. AnnounceInv' /\ InboxInv'
  BY <1>1, AnnounceStep, InboxStep DEF RiderDataBounds, RiderDataInv
<1>4. AccountInv' /\ AccountFits'
  BY <1>1, AccountInvStep, AccountFitsStep DEF RiderDataBounds, RiderDataInv, AccountInv
<1>5. NudgeInv' /\ NudgeFits'
  BY <1>1, NudgeInvStep, NudgeFitsStep DEF RiderDataBounds, RiderDataInv
<1>6. RefinementInv'
  BY <1>1, RefinementInvStep DEF RiderDataBounds, RiderDataInv
<1>. QED BY <1>2, <1>3, <1>4, <1>5, <1>6 DEF RiderDataInv

LEMMA RiderDataInvariance == RiderDataBounds => (RiderDataSpec => []RiderDataInv)
<1>. SUFFICES ASSUME RiderDataBounds PROVE RiderDataSpec => []RiderDataInv
  OBVIOUS
<1>1. RiderDataInit => RiderDataInv
  BY RiderDataInvInit
<1>2. RiderDataInv /\ [RiderDataNext]_riderDataVars => RiderDataInv'
  BY RiderDataInvStep
<1>. QED BY <1>1, <1>2, PTL DEF RiderDataSpec

(***************************************************************************)
(* What the server keeps of its riders stays within its types.             *)
(***************************************************************************)
THEOREM RiderDataKeepsTypes == RiderDataBounds => (RiderDataSpec => []RiderDataTypeOK)
<1>. SUFFICES ASSUME RiderDataBounds PROVE RiderDataSpec => []RiderDataTypeOK
  OBVIOUS
<1>1. RiderDataInv => RiderDataTypeOK
  BY AccountTyped, NudgeTyped, NoticeTyped, RefinementTyped
     DEF RiderDataBounds, RiderDataInv, RiderDataTypeOK, ExitInv, ExitShape, AccountInv
<1>. QED BY <1>1, RiderDataInvariance, PTL

(***************************************************************************)
(* Exits of one file and claims that are shown, accounts that recover,     *)
(* alerts that were announced, an inbox that misses nothing it could have  *)
(* read, nudges that fire once, and delays refined within a bound of their *)
(* history - whichever of them steps when.                                 *)
(***************************************************************************)
THEOREM RiderDataHolds == RiderDataBounds => (RiderDataSpec => []RiderDataIsRight)
<1>. SUFFICES ASSUME RiderDataBounds PROVE RiderDataSpec => []RiderDataIsRight
  OBVIOUS
<1>1. ExitInv => ExitsAreRight
  BY ToldAreShown DEF RiderDataBounds, ExitInv, ExitsAreRight
<1>2. RiderDataInv => RiderDataIsRight
  BY <1>1, AnnouncedFollows, MissedFollows, AccountInvSuffices, NudgeInvSuffices, RefinedFollows
     DEF RiderDataBounds, RiderDataInv, RiderDataIsRight
<1>. QED BY <1>2, RiderDataInvariance, PTL
=============================================================================
