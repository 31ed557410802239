--------------------------- MODULE CommuterProofs ---------------------------
(***************************************************************************)
(* Proofs about what riders are told and what others see of them, the      *)
(* destination alerts and the shared journeys; about two parts of the      *)
(* phone, the analytics queue and the sharing button; and, with            *)
(* the journeys of module JourneysProofs, about all of them side by side.  *)
(***************************************************************************)
EXTENDS MCCommuter, JourneysProofs, SequenceTheorems, WellFoundedInduction

(* Why an alert fires once: the engine lists active alerts only, and an    *)
(* alert the user was told of is not active, nor is it ever again.         *)

ToldAreSettled ==
  /\ inFeed \in BOOLEAN /\ created \in Nat
  /\ alert \in [Alerts -> Settled \cup {"none", "active"}]
  /\ told \subseteq 1..created /\ Open \subseteq 1..created
  /\ \A a \in told \cap Alerts : alert[a] # "active"

ListedAreUntold ==
  /\ rules \in [phase : {"idle", "located", "listed"}, sees : BOOLEAN,
                todo : SUBSET (1..created), triggered : SUBSET (1..created),
                expired : SUBSET (1..created), locked : SUBSET (1..created)]
  /\ (rules.todo \cup rules.triggered) \cap told = {}

AlertInv == ToldAreSettled /\ ListedAreUntold

LEMMA AlertInvInit == AlertsInit => AlertInv
<1> SUFFICES ASSUME AlertsInit PROVE AlertInv
  OBVIOUS
<1>1. ToldAreSettled
  BY DEF AlertsInit, ToldAreSettled, Open, Settled
<1>2. ListedAreUntold
  BY DEF AlertsInit, ListedAreUntold, NoRules
<1> QED
  BY <1>1, <1>2 DEF AlertInv

\* Each step keeps it; a told alert stays settled since no step reopens one,
\* and a listed one is open or has been when it was listed.
LEMMA AlertInvStep == AlertInv /\ [AlertsNext]_alertVars => AlertInv'
<1> SUFFICES ASSUME AlertInv, [AlertsNext]_alertVars PROVE AlertInv'
  OBVIOUS
<1> USE DEF AlertInv, ToldAreSettled, ListedAreUntold, Open, Settled, Alerts
<1>1. CASE VehicleComesOrGoes
  BY <1>1 DEF VehicleComesOrGoes
<1>2. CASE ReadSnapshot
  BY <1>2 DEF ReadSnapshot, NoRules
<1>3. CASE ListActive
  BY <1>3 DEF ListActive, NoRules
<1>4. CASE RulesCommit
  BY <1>4 DEF RulesCommit, NoRules
<1>5. ASSUME NEW a \in rules.todo, Expire(a) PROVE AlertInv'
  BY <1>5 DEF Expire
<1>6. ASSUME NEW a \in rules.todo, Trigger(a) PROVE AlertInv'
  BY <1>6 DEF Trigger
<1>7. ASSUME NEW a \in rules.todo, LeaveAlone(a) PROVE AlertInv'
  BY <1>7 DEF LeaveAlone
<1>8. CASE RulesFail
  BY <1>8 DEF RulesFail, NoRules
<1>9. ASSUME NEW c \in Callers, AlertCommits(c) PROVE AlertInv'
  <2>1. /\ created' = created + 1 /\ told' = told /\ rules' = rules /\ inFeed' = inFeed
        /\ alert' = [alert EXCEPT ![created + 1] = "active"]
    BY <1>9 DEF AlertCommits
  <2>2. 1..created \subseteq 1..created' /\ created + 1 \in 1..created' /\ created' \in Nat
    BY <2>1
  <2>3. created + 1 \notin told
    BY <2>1
  <2>4. ToldAreSettled'
    BY <2>1, <2>2, <2>3
  <2>5. ListedAreUntold'
    BY <2>1, <2>2 DEF ListedAreUntold
  <2> QED
    BY <2>4, <2>5
<1>10. ASSUME NEW c \in Callers, CancelCommits(c) PROVE AlertInv'
  BY <1>10 DEF CancelCommits
<1>11. ASSUME NEW c \in Callers, CreateChecks(c) \/ CallFails(c) \/ \E a \in Open : CancelReads(c, a)
      PROVE AlertInv'
  BY <1>11 DEF CreateChecks, CallFails, CancelReads
<1>12. CASE UNCHANGED alertVars
  BY <1>12 DEF alertVars
<1> QED
  BY <1>1, <1>2, <1>3, <1>4, <1>5, <1>6, <1>7, <1>8, <1>9, <1>10, <1>11, <1>12
     DEF AlertsNext, RulesStep

\* The rest of what is true of an alert's numbers: they stay below the bounds,
\* and the engine locks no row it did not decide about.
AlertFits ==
  /\ created <= MaxAlerts /\ aborts \in 0..MaxAborts
  /\ calls \in [Callers -> [op : {"idle", "creating", "cancelling"}, id : 0..MaxAlerts]]
  /\ rules.locked \subseteq rules.triggered \cup rules.expired

LEMMA AlertFitsInit == AlertsInit => AlertFits
  BY AlertLimits DEF AlertsInit, AlertFits, NoCall, NoRules

LEMMA AlertFitsStep == AlertInv /\ AlertFits /\ [AlertsNext]_alertVars => AlertFits'
<1> SUFFICES ASSUME AlertInv, AlertFits, [AlertsNext]_alertVars PROVE AlertFits'
  OBVIOUS
<1> USE AlertLimits DEF AlertFits
<1>1. /\ created \in Nat
      /\ rules \in [phase : {"idle", "located", "listed"}, sees : BOOLEAN,
                    todo : SUBSET (1..created), triggered : SUBSET (1..created),
                    expired : SUBSET (1..created), locked : SUBSET (1..created)]
  BY DEF AlertInv, ToldAreSettled, ListedAreUntold
<1>2. CASE VehicleComesOrGoes
  BY <1>2 DEF VehicleComesOrGoes
<1>3. CASE RulesStep \/ RulesFail
  <2>1. CASE ReadSnapshot \/ ListActive
    BY <1>1, <2>1 DEF ReadSnapshot, ListActive
  <2>2. CASE RulesCommit
    BY <2>2 DEF RulesCommit, NoRules
  <2>3. CASE RulesFail
    BY <2>3 DEF RulesFail, NoRules
  <2>4. ASSUME NEW a \in rules.todo, Expire(a) \/ LeaveAlone(a) PROVE AlertFits'
    BY <1>1, <2>4 DEF Expire, LeaveAlone
  <2>5. ASSUME NEW a \in rules.todo, Trigger(a) PROVE AlertFits'
    BY <1>1, <2>5 DEF Trigger
  <2> QED
    BY <1>3, <2>1, <2>2, <2>3, <2>4, <2>5 DEF RulesStep
<1>4. ASSUME NEW c \in Callers,
             CreateChecks(c) \/ AlertCommits(c) \/ CancelCommits(c) \/ CallFails(c)
               \/ \E a \in Open : CancelReads(c, a)
      PROVE AlertFits'
  <2>1. UNCHANGED <<rules, aborts>> /\ created' <= MaxAlerts
    BY <1>1, <1>4 DEF CreateChecks, AlertCommits, CancelCommits, CallFails, CancelReads
  <2>2. calls' \in [Callers -> [op : {"idle", "creating", "cancelling"}, id : 0..MaxAlerts]]
    BY <1>4 DEF CreateChecks, AlertCommits, CancelCommits, CallFails, CancelReads, NoCall, Open, Alerts
  <2> QED
    BY <2>1, <2>2
<1>5. CASE UNCHANGED alertVars
  BY <1>5 DEF alertVars
<1> QED
  BY <1>2, <1>3, <1>4, <1>5 DEF AlertsNext

LEMMA AlertsTyped == AlertInv /\ AlertFits => AlertsTypeOK
  BY DEF AlertInv, ToldAreSettled, ListedAreUntold, AlertFits, AlertsTypeOK

\* Of an alert the user is told once, whatever cancels, failed cycles and
\* trains that come and go happen in between (DestinationAlertService,
\* CommuterRuleEngine.evaluate_realtime).
THEOREM AlertFiresOnceTheorem == AlertsSpec => []AlertFiresOnce
<1>1. AlertInv => AlertFiresOnce
  BY DEF AlertInv, ListedAreUntold, AlertFiresOnce
<1> QED
  BY AlertInvInit, AlertInvStep, <1>1, PTL DEF AlertsSpec


-----------------------------------------------------------------------------
(* Why every further live share was paid for: a create that no other create  *)
(* overlapped still finds no live share when it commits, and one that was    *)
(* overlapped counts.                                                        *)

CreatesFindNone ==
  /\ DOMAIN open = Devices
  /\ \A d \in Devices : DOMAIN open[d] = DOMAIN NoTap /\ open[d].overlapped \in BOOLEAN
  /\ \A d \in Devices :
       open[d].op = "creating" => \/ open[d].overlapped = TRUE
                                 \/ Live = {}

LivePaid ==
  /\ share \in [Shares -> {"none", "live", "expired", "old"}]
  /\ overlaps \in Nat
  /\ IsFiniteSet(Live) /\ Cardinality(Live) <= 1 + overlaps

SharesInv == CreatesFindNone /\ LivePaid

\* Fewer live shares are paid for as well.
LEMMA FewerLive ==
  ASSUME LivePaid, overlaps' = overlaps, Live' \subseteq Live,
         share' \in [Shares -> {"none", "live", "expired", "old"}]
  PROVE  LivePaid'
<1>1. IsFiniteSet(Live') /\ Cardinality(Live') <= Cardinality(Live)
  BY FS_Subset DEF LivePaid
<1>2. Cardinality(Live) \in Nat /\ Cardinality(Live') \in Nat
  BY <1>1, FS_CardinalityType DEF LivePaid
<1> QED
  BY <1>1, <1>2 DEF LivePaid

LEMMA SharesInvInit == SharesInit => SharesInv
<1> SUFFICES ASSUME SharesInit PROVE SharesInv
  OBVIOUS
<1>1. Live = {}
  BY DEF SharesInit, Live
<1>2. IsFiniteSet(Live) /\ Cardinality(Live) = 0
  BY <1>1, FS_EmptySet
<1>3. LivePaid
  BY <1>2 DEF SharesInit, LivePaid
<1>4. CreatesFindNone
  BY <1>1 DEF SharesInit, CreatesFindNone, NoTap
<1> QED
  BY <1>3, <1>4 DEF SharesInv

\* A create adds one live share: the first if it saw what there was, or one
\* that is counted as overlapped.
LEMMA CreateIsPaid ==
  ASSUME SharesInv, NEW d \in Devices, ShareCommits(d)
  PROVE  SharesInv'
<1> DEFINE s == Cardinality(Existing) + 1
           extra == IF open[d].overlapped THEN 1 ELSE 0
<1>1. /\ open[d].op = "creating" /\ s \in Shares
      /\ share' = [share EXCEPT ![s] = "live"]
      /\ overlaps' = overlaps + extra
  BY DEF ShareCommits
<1>2. open' = [e \in Devices |->
       IF e = d THEN NoTap
       ELSE IF open[e].op = "creating" THEN [open[e] EXCEPT !.overlapped = TRUE]
       ELSE open[e]]
  BY DEF ShareCommits
<1> HIDE DEF s
<1>3. Live' = Live \cup {s} /\ share' \in [Shares -> {"none", "live", "expired", "old"}]
  BY <1>1 DEF SharesInv, LivePaid, Live
<1>4. /\ IsFiniteSet(Live') /\ Cardinality(Live') \in Nat /\ Cardinality(Live) \in Nat
      /\ Cardinality(Live') <= Cardinality(Live) + 1
  BY <1>3, FS_AddElement, FS_CardinalityType DEF SharesInv, LivePaid
<1>5. ASSUME open[d].overlapped = TRUE PROVE LivePaid'
  <2>1. overlaps' = overlaps + 1
    BY <1>1, <1>5
  <2>2. LivePaid'
    BY <1>3, <1>4, <2>1 DEF SharesInv, LivePaid
  <2> QED
    BY <2>2
<1>6. ASSUME open[d].overlapped = FALSE PROVE LivePaid'
  <2>1. overlaps' = overlaps /\ Live = {}
    BY <1>1, <1>6 DEF SharesInv, LivePaid, CreatesFindNone
  <2>2. Cardinality(Live) = 0
    BY <2>1, FS_EmptySet
  <2>3. LivePaid'
    BY <1>3, <1>4, <2>1, <2>2 DEF SharesInv, LivePaid
  <2> QED
    BY <2>3
<1>7. CreatesFindNone'
  BY <1>2 DEF SharesInv, CreatesFindNone, NoTap
<1> QED
  BY <1>5, <1>6, <1>7 DEF SharesInv, CreatesFindNone

LEMMA SharesInvStep == SharesInv /\ [SharesNext]_shareVars => SharesInv'
<1> SUFFICES ASSUME SharesInv, [SharesNext]_shareVars PROVE SharesInv'
  OBVIOUS
<1>1. ASSUME NEW d \in Devices, ShareCommits(d) PROVE SharesInv'
  BY <1>1, CreateIsPaid
<1>2. ASSUME NEW d \in Devices, CreateReads(d) PROVE SharesInv'
  <2>1. Live' = Live /\ Live = {} /\ share' = share /\ overlaps' = overlaps
    BY <1>2 DEF CreateReads, Live
  <2>2. CreatesFindNone'
    BY <1>2, <2>1 DEF CreateReads, SharesInv, CreatesFindNone
  <2>3. LivePaid'
    BY <2>1, FewerLive DEF SharesInv, LivePaid
  <2> QED
    BY <2>2, <2>3 DEF SharesInv
<1>3. ASSUME NEW d \in Devices, PositionReads(d) \/ StopReads(d) PROVE SharesInv'
  <2>1. PICK n, o : o # "creating" /\
          open' = [open EXCEPT ![d] = [NoTap EXCEPT !.op = o, !.id = n]]
    BY <1>3 DEF PositionReads, StopReads
  <2>2. Live' = Live /\ share' = share /\ overlaps' = overlaps
    BY <1>3 DEF PositionReads, StopReads, Live
  <2>3. CreatesFindNone'
    BY <2>1, <2>2 DEF SharesInv, CreatesFindNone, NoTap
  <2> QED
    BY <2>2, <2>3, FewerLive DEF SharesInv, LivePaid
<1>4. ASSUME NEW d \in Devices, PositionCommits(d) \/ TapFails(d) PROVE SharesInv'
  <2>1. Live' = Live /\ share' = share /\ overlaps' = overlaps
        /\ open' = [open EXCEPT ![d] = NoTap]
    BY <1>4 DEF PositionCommits, TapFails, Live
  <2>2. CreatesFindNone'
    BY <2>1 DEF SharesInv, CreatesFindNone, NoTap
  <2> QED
    BY <2>1, <2>2, FewerLive DEF SharesInv, LivePaid
<1>5. ASSUME NEW d \in Devices, StopCommits(d) PROVE SharesInv'
  <2>1. /\ share' = [share EXCEPT ![open[d].id] = "expired"] /\ overlaps' = overlaps
        /\ open' = [open EXCEPT ![d] = NoTap]
    BY <1>5 DEF StopCommits
  <2>2. Live' \subseteq Live /\ share' \in [Shares -> {"none", "live", "expired", "old"}]
    BY <2>1 DEF SharesInv, LivePaid, Live
  <2>3. CreatesFindNone'
    BY <2>1, <2>2 DEF SharesInv, CreatesFindNone, NoTap
  <2> QED
    BY <2>1, <2>2, <2>3, FewerLive DEF SharesInv
<1>6. ASSUME NEW s \in Shares, Expires(s) \/ GraceEnds(s) PROVE SharesInv'
  <2>1. /\ share' = [share EXCEPT ![s] = "expired"] \/ share' = [share EXCEPT ![s] = "old"]
        /\ overlaps' = overlaps /\ open' = open
    BY <1>6 DEF Expires, GraceEnds
  <2>2. Live' \subseteq Live /\ share' \in [Shares -> {"none", "live", "expired", "old"}]
    BY <2>1 DEF SharesInv, LivePaid, Live
  <2>3. CreatesFindNone'
    BY <2>1, <2>2 DEF SharesInv, CreatesFindNone
  <2> QED
    BY <2>1, <2>2, <2>3, FewerLive DEF SharesInv
<1>7. CASE JourneyEnds \/ Forget \/ UNCHANGED shareVars
  <2>1. share' = share /\ overlaps' = overlaps /\ open' = open /\ Live' = Live
    BY <1>7 DEF JourneyEnds, Forget, shareVars, Live
  <2> QED
    BY <2>1, FewerLive DEF SharesInv, LivePaid, CreatesFindNone
<1> QED
  BY <1>1, <1>2, <1>3, <1>4, <1>5, <1>6, <1>7 DEF SharesNext, TapStep

LEMMA BoundedHasMax ==
  ASSUME NEW n \in Nat, NEW S \in SUBSET (1..n), S # {}
  PROVE  Max(S) \in S
<1> DEFINE below == {n - x : x \in S}
<1>1. below \subseteq Nat /\ below # {}
  <2>1. \A x \in S : n - x \in Nat
    OBVIOUS
  <2> QED
    BY <2>1
<1>2. PICK m \in below : \A k \in below : ~ (<<k, m>> \in OpToRel(<, Nat))
  BY <1>1, NatLessThanWellFounded, WFMin
<1>3. \A k \in below : ~ (k < m)
  BY <1>1, <1>2 DEF OpToRel
<1>4. PICK x \in S : m = n - x
  OBVIOUS
<1>5. \A y \in S : x >= y
  <2> TAKE y \in S
  <2>1. ~ (n - y < n - x)
    BY <1>3, <1>4
  <2> QED
    BY <2>1
<1> QED
  BY <1>5 DEF Max

\* A request that moves or stops a share does it to one that exists.
SharesFit ==
  /\ SharesTypeOK
  /\ \A d \in Devices : open[d].op \in {"moving", "stopping"} => open[d].id \in Existing

LEMMA SharesFitInit == SharesInit => SharesFit
  BY ShareLimit DEF SharesInit, SharesFit, SharesTypeOK, NoTap

LEMMA SharesFitStep == SharesFit /\ [SharesNext]_shareVars => SharesFit'
<1> SUFFICES ASSUME SharesFit, [SharesNext]_shareVars PROVE SharesFit'
  OBVIOUS
<1> USE ShareLimit DEF SharesFit, SharesTypeOK
<1> DEFINE Taps == [op : {"idle", "creating", "moving", "stopping"},
                    id : 0..MaxShares, overlapped : BOOLEAN]
<1>1. /\ open \in [Devices -> Taps] /\ overlaps \in Nat /\ riding \in BOOLEAN
      /\ share \in [Shares -> {"none", "live", "expired", "old"}]
  OBVIOUS
<1>2. ASSUME NEW d \in Devices, ShareCommits(d) PROVE SharesFit'
  <2> DEFINE s == Cardinality(Existing) + 1
  <2>1. /\ s \in Shares /\ share' = [share EXCEPT ![s] = "live"] /\ UNCHANGED <<riding, positioned>>
        /\ overlaps' = overlaps + IF open[d].overlapped THEN 1 ELSE 0
        /\ open' = [e \in Devices |->
             IF e = d THEN NoTap
             ELSE IF open[e].op = "creating" THEN [open[e] EXCEPT !.overlapped = TRUE]
             ELSE open[e]]
    BY <1>2 DEF ShareCommits
  <2> HIDE DEF s
  <2>2. /\ share' \in [Shares -> {"none", "live", "expired", "old"}] /\ Existing \subseteq Existing'
        /\ overlaps' \in Nat
    BY <1>1, <2>1 DEF Existing
  <2>3. ASSUME NEW e \in Devices
        PROVE  /\ open'[e] \in Taps
               /\ open'[e].op \in {"moving", "stopping"} => open'[e].id \in Existing
    <3>1. open[e] \in Taps /\ NoTap \in Taps /\ NoTap.op = "idle"
      BY DEF NoTap
    <3>2. open'[e] = NoTap \/ open'[e] = open[e] \/ open'[e] = [open[e] EXCEPT !.overlapped = TRUE]
      BY <2>1
    <3> QED
      BY <3>1, <3>2
  <2>4. open' \in [Devices -> Taps]
    BY <2>1, <2>3
  <2> HIDE DEF Taps
  <2> QED
    BY <2>1, <2>2, <2>3, <2>4 DEF Taps
<1>3. ASSUME NEW d \in Devices, CreateReads(d) \/ TapFails(d) PROVE SharesFit'
  <2>1. Existing' = Existing /\ UNCHANGED <<riding, share, positioned, overlaps>>
    BY <1>3 DEF CreateReads, TapFails, Existing
  <2>2. \/ open' = [open EXCEPT ![d].op = "creating"]
        \/ open' = [open EXCEPT ![d] = NoTap]
    BY <1>3 DEF CreateReads, TapFails
  <2>3. /\ open' \in [Devices -> Taps]
        /\ \A e \in Devices : open'[e].op \in {"moving", "stopping"} => open'[e].id \in Existing
    <3>1. /\ NoTap \in Taps /\ NoTap.op = "idle" /\ open[d] \in Taps
          /\ [open[d] EXCEPT !.op = "creating"] \in Taps
          /\ [open[d] EXCEPT !.op = "creating"].op = "creating"
      BY DEF NoTap
    <3> HIDE DEF Taps, NoTap
    <3> QED
      BY <1>1, <2>2, <3>1
  <2> QED
    BY <2>1, <2>3
<1>4. ASSUME NEW d \in Devices, PositionReads(d) \/ StopReads(d) PROVE SharesFit'
  <2>1. Existing' = Existing /\ UNCHANGED <<riding, share, positioned, overlaps>>
    BY <1>4 DEF PositionReads, StopReads, Existing
  <2>2. Live # {} /\ Live \in SUBSET (1..MaxShares) /\ Live \subseteq Existing
    BY <1>4 DEF PositionReads, StopReads, Live, Existing, Shares
  <2>3. Max(Live) \in Live /\ Max(Live) \in 0..MaxShares
    <3>1. Max(Live) \in Live
      BY <2>2, BoundedHasMax
    <3>2. \A s \in Live : s \in 0..MaxShares
      BY <2>2
    <3> QED
      BY <3>1, <3>2, Zenon
  <2>4. PICK o \in {"moving", "stopping"} :
          open' = [open EXCEPT ![d] = [NoTap EXCEPT !.op = o, !.id = Max(Live)]]
    BY <1>4 DEF PositionReads, StopReads
  <2>5. /\ open' \in [Devices -> Taps]
        /\ \A e \in Devices : open'[e].op \in {"moving", "stopping"} => open'[e].id \in Existing
    BY <1>1, <2>2, <2>3, <2>4 DEF NoTap
  <2> QED
    BY <2>1, <2>5
<1>5. ASSUME NEW d \in Devices, PositionCommits(d) PROVE SharesFit'
  <2>1. Existing' = Existing /\ open[d].id \in Existing
    BY <1>5 DEF PositionCommits, Existing
  <2> QED
    BY <1>1, <1>5, <2>1 DEF PositionCommits, NoTap
<1>6. ASSUME NEW d \in Devices, StopCommits(d) PROVE SharesFit'
  <2>1. /\ open[d].id \in Existing /\ open[d].id \in Shares
        /\ share' = [share EXCEPT ![open[d].id] = "expired"]
        /\ open' = [open EXCEPT ![d] = NoTap] /\ UNCHANGED <<riding, positioned, overlaps>>
    BY <1>6 DEF StopCommits, Existing
  <2>2. /\ Existing' = Existing
        /\ share' \in [Shares -> {"none", "live", "expired", "old"}]
    BY <1>1, <2>1 DEF Existing
  <2>3. open' \in [Devices -> Taps]
    BY <1>1, <2>1 DEF NoTap
  <2>4. \A e \in Devices : open'[e].op \in {"moving", "stopping"} => open'[e].id \in Existing'
    BY <1>1, <2>1, <2>2 DEF NoTap
  <2> QED
    BY <2>1, <2>2, <2>3, <2>4
<1>7. ASSUME NEW s \in Shares, Expires(s) \/ GraceEnds(s) PROVE SharesFit'
  <2>1. /\ UNCHANGED <<riding, positioned, open, overlaps>>
        /\ share' \in [Shares -> {"none", "live", "expired", "old"}] /\ Existing' = Existing
    BY <1>1, <1>7 DEF Expires, GraceEnds, Existing
  <2> QED
    BY <1>1, <2>1
<1>8. CASE JourneyEnds \/ Forget \/ UNCHANGED shareVars
  <2>1. UNCHANGED <<share, open, overlaps>> /\ Existing' = Existing
        /\ positioned' \subseteq positioned /\ riding' \in BOOLEAN
    BY <1>8 DEF JourneyEnds, Forget, shareVars, Existing
  <2> QED
    BY <2>1
<1> QED
  BY <1>2, <1>3, <1>4, <1>5, <1>6, <1>7, <1>8 DEF SharesNext, TapStep

\* Each live share beyond the first goes back to a create that did not see
\* another one, for any number of devices and shares and whatever expires or is
\* stopped in between (JourneyShareService.create_share).
THEOREM LiveSharesTheorem == SharesSpec => []LiveSharesComeFromRaces
<1>1. SharesInv => LiveSharesComeFromRaces
  BY DEF SharesInv, LivePaid, LiveSharesComeFromRaces
<1> QED
  BY SharesInvInit, SharesInvStep, <1>1, PTL DEF SharesSpec

-----------------------------------------------------------------------------
(***************************************************************************)
(* The analytics queue, for any batch size and buffer size, and any number *)
(* of events, taps and refused uploads.  First the strengthening.          *)
(***************************************************************************)

\* The buffer holds the latest events without a gap.
Recent(queued, last) == \A i \in 1..Len(queued) : queued[i] + Len(queued) = last + i

\* A batch is a run of events without a gap.
Run(queued) == \A i \in 1..Len(queued) : queued[i] + 1 = queued[1] + i

\* What is being uploaded is at the front of the buffer or has been pushed out of
\* it there - or the buffer was discarded and holds only later events.
Behind(sent, queued, last) ==
  sent # <<>> =>
    \/ sent[1] + Len(sent) + Len(queued) <= last + 1
    \/ sent[1] + Len(queued) <= last + 1 /\ Len(sent) <= Len(queued)

\* What is still to be uploaded has not been stored, unless an answer was lost.
Unstored(sent, queued, last) ==
  \A e \in Events :
    \/ e + Len(queued) <= last /\ e \notin Elems(sent)
    \/ arrived /\ e \in Elems(sent)
    \/ received[e] <= unanswered[e]

Queued ==
  /\ Recent(buffer, recorded)
  /\ Run(batch)
  /\ Behind(batch, buffer, recorded)
  /\ Unstored(batch, buffer, recorded)

QueueInv == QueueTypeOK /\ NothingKeptAfterWithdrawal /\ StoredAgainOnlyIfUnanswered /\ Queued

-----------------------------------------------------------------------------
(***************************************************************************)
(* What the queue takes from a buffer.                                     *)
(***************************************************************************)
LEMMA Limits ==
  /\ BatchSize \in Nat /\ BatchSize > 0
  /\ MaxBuffered \in Nat /\ MaxBuffered > 0
  /\ MaxEvents \in Nat /\ MaxTaps \in Nat /\ MaxRefusals \in Nat
BY LimitsAssumption

\* The elements of a sequence that ends with event "last" and has no gap.
LEMMA RunElements ==
  ASSUME NEW s \in Seq(Events), NEW last \in Nat,
         Recent(s, last)
  PROVE  \A e \in Events : e \in Elems(s) <=> (e + Len(s) > last /\ e <= last)
<1> SUFFICES ASSUME NEW e \in Events
             PROVE  e \in Elems(s) <=> (e + Len(s) > last /\ e <= last)
  OBVIOUS
<1>0. e \in Nat /\ Len(s) \in Nat /\ DOMAIN s = 1..Len(s) /\ \A i \in DOMAIN s : s[i] \in Nat
  BY Limits, LenProperties, ElementOfSeq DEF Events
<1>1. ASSUME e \in Elems(s) PROVE e + Len(s) > last /\ e <= last
  <2>1. PICK i \in DOMAIN s : e = s[i]
    BY <1>1 DEF Elems
  <2> QED BY <2>1, <1>0 DEF Recent
<1>2. ASSUME e + Len(s) > last, e <= last PROVE e \in Elems(s)
  <2>1. e + Len(s) - last \in 1..Len(s)
    BY <1>0, <1>2
  <2>2. s[e + Len(s) - last] = e
    BY <1>0, <2>1 DEF Recent
  <2> QED BY <1>0, <2>1, <2>2 DEF Elems
<1> QED BY <1>1, <1>2

LEMMA FirstsFacts ==
  ASSUME NEW s \in Seq(Events)
  PROVE  /\ Firsts(s) \in Seq(Events)
         /\ Len(Firsts(s)) <= BatchSize /\ Len(Firsts(s)) <= Len(s)
         /\ s # <<>> => Firsts(s) # <<>>
         /\ s = <<>> => Firsts(s) = <<>>
         /\ \A i \in 1..Len(Firsts(s)) : Firsts(s)[i] = s[i]
<1> DEFINE n == IF Len(s) < BatchSize THEN Len(s) ELSE BatchSize
<1>1. n \in Nat /\ n <= Len(s) /\ n <= BatchSize /\ Len(s) \in Nat
  BY Limits, LenProperties
<1>2. \A i \in 1..n : s[i] \in Events
  BY <1>1, ElementOfSeq
<1> HIDE DEF n
<1>3. /\ SubSeq(s, 1, n) \in Seq(Events)
      /\ Len(SubSeq(s, 1, n)) = IF 1 <= n THEN n - 1 + 1 ELSE 0
      /\ \A i \in 1..(n - 1 + 1) : SubSeq(s, 1, n)[i] = s[1 + i - 1]
  <2>1. 1 \in Int /\ n \in Int
    BY <1>1
  <2> QED BY <1>2, <2>1, SubSeqProperties
<1>4. /\ Len(SubSeq(s, 1, n)) = n
      /\ \A i \in 1..n : SubSeq(s, 1, n)[i] = s[i]
  BY <1>1, <1>3
<1>5. Firsts(s) = SubSeq(s, 1, n)
  BY DEF Firsts, n
<1>6. s # <<>> => n > 0
  BY <1>1, EmptySeq, Limits DEF n
<1>7. s # <<>> => Firsts(s) # <<>>
  BY <1>1, <1>4, <1>5, <1>6, EmptySeq
<1>8. s = <<>> => Firsts(s) = <<>>
  <2> SUFFICES ASSUME s = <<>> PROVE Firsts(s) = <<>>
    OBVIOUS
  <2>1. Len(s) = 0
    BY EmptySeq
  <2>2. Len(Firsts(s)) = 0
    BY <2>1, <1>1, <1>4, <1>5
  <2> QED BY <2>2, <1>3, <1>5, EmptySeq
<1> QED BY <1>1, <1>3, <1>4, <1>5, <1>7, <1>8

\* What stays when the first n events are removed.
LEMMA RestFacts ==
  ASSUME NEW s \in Seq(Events), NEW n \in Nat, n <= Len(s),
         NEW rest, rest = SubSeq(s, n + 1, Len(s))
  PROVE  /\ rest \in Seq(Events)
         /\ Len(rest) = Len(s) - n
         /\ \A i \in 1..Len(rest) : rest[i] = s[n + i]
<1>0. Len(s) \in Nat
  BY LenProperties
<1>1. n + 1 \in Int /\ Len(s) \in Int /\ \A i \in n + 1 .. Len(s) : s[i] \in Events
  BY <1>0, ElementOfSeq
<1>2. /\ rest \in Seq(Events)
      /\ Len(rest) = IF n + 1 <= Len(s) THEN Len(s) - (n + 1) + 1 ELSE 0
      /\ \A i \in 1..(Len(s) - (n + 1) + 1) : rest[i] = s[n + 1 + i - 1]
  BY <1>1, SubSeqProperties
<1>3. Len(rest) = Len(s) - n
  BY <1>0, <1>2
<1> QED BY <1>0, <1>2, <1>3

\* A batch taken from a buffer is a run at its front.
LEMMA TakenFacts ==
  ASSUME NEW queued \in Seq(Events), NEW last \in Nat, Recent(queued, last),
         NEW taken, taken = Firsts(queued)
  PROVE  /\ Run(taken)
         /\ Behind(taken, queued, last)
         /\ \A e \in Events : e \in Elems(taken) => e + Len(queued) > last
<1>0. /\ taken \in Seq(Events) /\ Len(taken) <= Len(queued)
      /\ \A i \in 1..Len(taken) : taken[i] = queued[i]
  BY FirstsFacts
<1>1. /\ Len(taken) \in Nat /\ Len(queued) \in Nat
      /\ DOMAIN taken = 1..Len(taken) /\ DOMAIN queued = 1..Len(queued)
      /\ \A i \in 1..Len(queued) : queued[i] \in Nat
  BY <1>0, LenProperties, ElementOfSeq, Limits DEF Events
<1>2. Run(taken)
  BY <1>0, <1>1 DEF Run, Recent
<1>3. Behind(taken, queued, last)
  <2> SUFFICES ASSUME taken # <<>>
               PROVE  taken[1] + Len(queued) <= last + 1 /\ Len(taken) <= Len(queued)
    BY DEF Behind
  <2>1. 1 \in 1..Len(taken)
    BY <1>0, <1>1, EmptySeq
  <2> QED BY <2>1, <1>0, <1>1 DEF Recent
<1>4. ASSUME NEW e \in Events, e \in Elems(taken) PROVE e + Len(queued) > last
  <2>1. e \in Elems(queued)
    BY <1>0, <1>1, <1>4 DEF Elems
  <2> QED BY <2>1, RunElements
<1> QED BY <1>2, <1>3, <1>4

\* Up to its first await, flush() keeps the queue's bookkeeping.
LEMMA FlushFacts ==
  ASSUME NEW queued \in Seq(Events), NEW last \in Nat, Len(queued) <= MaxBuffered,
         QueueTypeOK, Recent(queued, last), Run(batch), Behind(batch, queued, last),
         Unstored(batch, queued, last),
         Flush(queued), recorded' = last, UNCHANGED server
  PROVE  /\ buffer' \in Seq(Events) /\ Len(buffer') <= MaxBuffered
         /\ armed' \in BOOLEAN
         /\ batch' \in Seq(Events) /\ Len(batch') <= BatchSize
         /\ arrived' \in BOOLEAN /\ (arrived' => batch' # <<>>)
         /\ Queued'
<1>0. /\ <<>> \in Seq(Events) /\ Len(<<>>) = 0 /\ Elems(<<>>) = {}
      /\ Len(queued) \in Nat
  BY EmptySeq, LenProperties, Limits DEF Elems
<1>1. received' = received /\ unanswered' = unanswered /\ arrived' = arrived /\ armed' = FALSE
  BY DEF server, Flush
<1>5. arrived \in BOOLEAN /\ (arrived => batch # <<>>)
       /\ batch \in Seq(Events) /\ Len(batch) <= BatchSize
  BY DEF QueueTypeOK
<1>2. CASE batch = <<>> /\ queued # <<>> /\ consent
  <2>1. buffer' = queued /\ batch' = Firsts(queued) /\ ~arrived
    BY <1>5, <1>2 DEF Flush
  <2>2. /\ Run(batch') /\ Behind(batch', queued, last)
        /\ \A e \in Events : e \in Elems(batch') => e + Len(queued) > last
    BY <2>1, TakenFacts
  <2>3. ASSUME NEW e \in Events
        PROVE  \/ e + Len(queued) <= last /\ e \notin Elems(batch')
              \/ received[e] <= unanswered[e]
    <3>1. e \in Nat
      BY Limits DEF Events
    <3>2. e + Len(queued) <= last \/ received[e] <= unanswered[e]
      BY <2>1 DEF Unstored
    <3> QED BY <2>2, <3>1, <3>2, <1>0
  <2>4. Queued'
    <3>1. Recent(buffer, recorded)' /\ Run(batch)' /\ Behind(batch, buffer, recorded)'
      BY <2>1, <2>2 DEF Recent, Run, Behind
    <3>2. Unstored(batch, buffer, recorded)'
      BY <1>1, <2>1, <2>3 DEF Unstored, Elems
    <3> QED BY <3>1, <3>2, Zenon DEF Queued
  <2>5. armed' \in BOOLEAN /\ arrived' \in BOOLEAN /\ ~arrived'
    BY <1>1, <1>5, <2>1, Zenon
  <2>6. buffer' \in Seq(Events) /\ Len(buffer') <= MaxBuffered
        /\ batch' \in Seq(Events) /\ Len(batch') <= BatchSize
    BY <2>1, FirstsFacts
  <2> QED BY <2>4, <2>5, <2>6, Zenon
<1>3. CASE batch = <<>> /\ queued # <<>> /\ ~consent
  <2>1. buffer' = <<>> /\ batch' = <<>> /\ ~arrived
    BY <1>5, <1>3 DEF Flush
  <2>2. ASSUME NEW e \in Events
        PROVE  e + 0 <= last \/ received[e] <= unanswered[e]
    <3>1. e \in Nat
      BY Limits DEF Events
    <3>2. e + Len(queued) <= last \/ received[e] <= unanswered[e]
      BY <2>1 DEF Unstored
    <3> QED BY <3>1, <3>2, <1>0
  <2>3. Unstored(batch, buffer, recorded)'
    BY <1>0, <1>1, <2>1, <2>2 DEF Unstored, Elems
  <2>4. Recent(buffer, recorded)' /\ Run(batch)' /\ Behind(batch, buffer, recorded)'
    BY <1>0, <2>1 DEF Recent, Run, Behind
  <2>5. Queued'
    BY <2>3, <2>4, Zenon DEF Queued
  <2>6. armed' \in BOOLEAN /\ arrived' \in BOOLEAN /\ ~arrived'
    BY <1>1, <1>5, <2>1, Zenon
  <2>7. buffer' \in Seq(Events) /\ Len(buffer') <= MaxBuffered
        /\ batch' \in Seq(Events) /\ Len(batch') <= BatchSize
    BY <1>0, <2>1, Limits
  <2> QED BY <2>5, <2>6, <2>7, Zenon
<1>4. CASE ~(batch = <<>> /\ queued # <<>>)
  <2>1. buffer' = queued /\ batch' = batch
    BY <1>4 DEF Flush
  <2>2. Recent(buffer, recorded)' /\ Run(batch)' /\ Behind(batch, buffer, recorded)'
    BY <2>1 DEF Recent, Run, Behind
  <2>3. Unstored(batch, buffer, recorded)'
    BY <1>1, <2>1, Zenon DEF Unstored, Elems
  <2>4. Queued'
    BY <2>2, <2>3, Zenon DEF Queued
  <2>5. armed' \in BOOLEAN /\ arrived' \in BOOLEAN /\ (arrived' => batch' # <<>>)
    BY <1>1, <1>5, <2>1, Zenon
  <2> QED BY <1>5, <2>1, <2>4, <2>5, Zenon
<1> QED BY <1>2, <1>3, <1>4

-----------------------------------------------------------------------------
(***************************************************************************)
(* The steps.                                                              *)
(***************************************************************************)
LEMMA QueueInvInit == QueueInit => QueueInv
<1> SUFFICES ASSUME QueueInit PROVE QueueInv
  OBVIOUS
<1>1. <<>> \in Seq(Events) /\ Len(<<>>) = 0
  BY EmptySeq
<1>2. QueueTypeOK
  <2>1. consent \in BOOLEAN /\ shown \in BOOLEAN /\ armed \in BOOLEAN
        /\ arrived \in BOOLEAN /\ (arrived => batch # <<>>)
    BY Zenon DEF QueueInit
  <2>2. switching \in [BOOLEAN -> Nat]
    BY DEF QueueInit
  <2>3. /\ taps \in 0..MaxTaps /\ recorded \in 0..MaxEvents /\ refusals \in 0..MaxRefusals
        /\ Len(buffer) <= MaxBuffered /\ Len(batch) <= BatchSize
    BY <1>1, Limits DEF QueueInit
  <2>4. /\ buffer \in Seq(Events) /\ batch \in Seq(Events)
        /\ received \in [Events -> Nat] /\ unanswered \in [Events -> Nat]
    BY <1>1 DEF QueueInit
  <2> QED BY <2>1, <2>2, <2>3, <2>4, Zenon DEF QueueTypeOK
<1>3. NothingKeptAfterWithdrawal /\ StoredAgainOnlyIfUnanswered
  BY DEF QueueInit, NothingKeptAfterWithdrawal, StoredAgainOnlyIfUnanswered
<1>4. Queued
  BY <1>1 DEF QueueInit, Queued, Recent, Run, Behind, Unstored
<1> QED BY <1>2, <1>3, <1>4 DEF QueueInv

\* What the actions that leave the preference and the server alone have to show.
LEMMA QueueStep ==
  ASSUME QueueInv,
         UNCHANGED preference, UNCHANGED server, recorded' \in 0..MaxEvents,
         buffer' \in Seq(Events), Len(buffer') <= MaxBuffered, armed' \in BOOLEAN,
         batch' \in Seq(Events), Len(batch') <= BatchSize,
         arrived' \in BOOLEAN, arrived' => batch' # <<>>,
         consent \/ (buffer = <<>> => buffer' = <<>>),
         Queued'
  PROVE  QueueInv'
<1>1. QueueTypeOK'
  BY Zenon DEF QueueInv, QueueTypeOK, preference, server
<1>2. NothingKeptAfterWithdrawal'
  BY Zenon DEF QueueInv, NothingKeptAfterWithdrawal, preference
<1>3. StoredAgainOnlyIfUnanswered'
  BY DEF QueueInv, StoredAgainOnlyIfUnanswered, server
<1> QED BY <1>1, <1>2, <1>3, Zenon DEF QueueInv

LEMMA RecordStep == QueueInv /\ Record => QueueInv'
<1> SUFFICES ASSUME QueueInv, Record PROVE QueueInv'
  OBVIOUS
<1> DEFINE kept == IF Len(buffer) >= MaxBuffered THEN Tail(buffer) ELSE buffer
           queued == Append(kept, recorded + 1)
<1>1. /\ buffer \in Seq(Events) /\ Len(buffer) \in Nat /\ Len(buffer) <= MaxBuffered
      /\ batch \in Seq(Events) /\ Len(batch) \in Nat
      /\ recorded \in Nat /\ recorded < MaxEvents
      /\ \A i \in 1..Len(buffer) : buffer[i] \in Nat
  <2>1. buffer \in Seq(Events) /\ Len(buffer) <= MaxBuffered /\ batch \in Seq(Events)
        /\ recorded \in 0..MaxEvents /\ recorded < MaxEvents
    BY DEF QueueInv, QueueTypeOK, Record
  <2> QED BY <2>1, LenProperties, ElementOfSeq, Limits DEF Events
<1>2. /\ kept \in Seq(Events) /\ Len(kept) \in Nat /\ Len(kept) + 1 <= MaxBuffered
      /\ Len(buffer) <= Len(kept) + 1 /\ Len(kept) <= Len(buffer)
      /\ \A i \in 1..Len(kept) : kept[i] \in Nat /\ kept[i] + Len(kept) = recorded + i
  <2>0. Recent(buffer, recorded)
    BY DEF QueueInv, Queued
  <2>1. CASE Len(buffer) >= MaxBuffered
    <3>1. buffer # <<>>
      BY <2>1, <1>1, Limits, EmptySeq
    <3>2. /\ Tail(buffer) \in Seq(Events) /\ Len(Tail(buffer)) = Len(buffer) - 1
          /\ \A i \in 1..Len(Tail(buffer)) : Tail(buffer)[i] = buffer[i + 1]
      BY <3>1, <1>1, HeadTailProperties
    <3>3. ASSUME NEW i \in 1..Len(Tail(buffer))
          PROVE  /\ Tail(buffer)[i] \in Nat
                 /\ Tail(buffer)[i] + Len(Tail(buffer)) = recorded + i
      <4>1. i \in Nat /\ i + 1 \in 1..Len(buffer) /\ Tail(buffer)[i] = buffer[i + 1]
        BY <1>1, <3>2
      <4>2. buffer[i + 1] \in Nat /\ buffer[i + 1] + Len(buffer) = recorded + (i + 1)
        BY <4>1, <1>1, <2>0 DEF Recent
      <4> QED BY <4>1, <4>2, <3>2, <1>1
    <3>4. Len(Tail(buffer)) \in Nat /\ Len(Tail(buffer)) + 1 <= MaxBuffered
      BY <1>1, <3>1, <3>2, EmptySeq
    <3>5. kept = Tail(buffer)
      BY <2>1
    <3> HIDE DEF kept
    <3> QED BY <1>1, <3>2, <3>3, <3>4, <3>5
  <2>2. CASE ~(Len(buffer) >= MaxBuffered)
    BY <1>1, <2>0, <2>2, Limits DEF Recent
  <2> QED BY <2>1, <2>2
<1> HIDE DEF kept
<1>3. /\ queued \in Seq(Events) /\ Len(queued) = Len(kept) + 1
      /\ \A i \in 1..Len(kept) : queued[i] = kept[i]
      /\ queued[Len(kept) + 1] = recorded + 1
  <2>1. recorded + 1 \in Events
    BY <1>1, Limits DEF Events
  <2> QED BY <2>1, <1>2, AppendProperties
<1> HIDE DEF queued
<1>4. Recent(queued, recorded + 1)
  <2> SUFFICES ASSUME NEW i \in 1..Len(queued)
               PROVE  queued[i] + Len(queued) = recorded + 1 + i
    BY DEF Recent
  <2>1. CASE i = Len(kept) + 1
    BY <2>1, <1>1, <1>2, <1>3
  <2>2. CASE i # Len(kept) + 1
    <3>1. i \in 1..Len(kept)
      BY <2>2, <1>2, <1>3
    <3>2. queued[i] = kept[i] /\ kept[i] \in Nat /\ kept[i] + Len(kept) = recorded + i
      BY <3>1, <1>2, <1>3
    <3>3. Len(queued) = Len(kept) + 1 /\ Len(kept) \in Nat /\ recorded \in Nat /\ i \in Nat
      BY <3>1, <1>1, <1>2, <1>3
    <3> QED BY <3>2, <3>3
  <2> QED BY <2>1, <2>2
<1>5. Run(batch) /\ Behind(batch, queued, recorded + 1)
  <2>1. Run(batch) /\ Behind(batch, buffer, recorded)
    BY DEF QueueInv, Queued
  <2>2. batch # <<>> => batch[1] \in Nat
    <3> SUFFICES ASSUME batch # <<>> PROVE batch[1] \in Nat
      OBVIOUS
    <3>1. 1 \in 1..Len(batch)
      BY <1>1, EmptySeq
    <3> QED BY <3>1, <1>1, ElementOfSeq, Limits DEF Events
  <2> QED BY <1>1, <1>2, <1>3, <2>1, <2>2 DEF Behind
<1>6. Unstored(batch, queued, recorded + 1)
  <2> SUFFICES ASSUME NEW e \in Events
               PROVE  \/ e + Len(queued) <= recorded + 1 /\ e \notin Elems(batch)
                      \/ arrived /\ e \in Elems(batch)
                      \/ received[e] <= unanswered[e]
    BY DEF Unstored
  <2>1. \/ e + Len(buffer) <= recorded /\ e \notin Elems(batch)
        \/ arrived /\ e \in Elems(batch)
        \/ received[e] <= unanswered[e]
    BY DEF QueueInv, Queued, Unstored
  <2>2. e \in Nat
    BY Limits DEF Events
  <2>3. e + Len(buffer) <= recorded => e + Len(queued) <= recorded + 1
    BY <1>1, <1>2, <1>3, <2>2
  <2> QED BY <2>1, <2>3, Zenon
<1>7. recorded' = recorded + 1 /\ recorded' \in 0..MaxEvents /\ recorded + 1 \in Nat
  BY <1>1, Limits DEF Record
<1>8. UNCHANGED preference /\ UNCHANGED server /\ consent /\ QueueTypeOK
  BY Zenon DEF Record, QueueInv
<1>9. CASE Flush(queued)
  <2>1. /\ buffer' \in Seq(Events) /\ Len(buffer') <= MaxBuffered
        /\ armed' \in BOOLEAN
        /\ batch' \in Seq(Events) /\ Len(batch') <= BatchSize
        /\ arrived' \in BOOLEAN /\ (arrived' => batch' # <<>>)
        /\ Queued'
    BY <1>1, <1>2, <1>3, <1>4, <1>5, <1>6, <1>7, <1>8, <1>9, FlushFacts
  <2> QED BY <1>7, <1>8, <2>1, QueueStep, Zenon
<1>10. CASE buffer' = queued /\ armed' = TRUE /\ UNCHANGED flushing
  <2>1. batch' = batch /\ arrived' = arrived /\ received' = received /\ unanswered' = unanswered
    BY <1>8, <1>10 DEF flushing, server
  <2>2. Recent(buffer, recorded)' /\ Run(batch)' /\ Behind(batch, buffer, recorded)'
    BY <1>4, <1>5, <1>7, <1>10, <2>1 DEF Recent, Run, Behind
  <2>3. Unstored(batch, buffer, recorded)'
    BY <1>6, <1>7, <1>10, <2>1 DEF Unstored, Elems
  <2>4. Queued'
    BY <2>2, <2>3, Zenon DEF Queued
  <2>5. buffer' \in Seq(Events) /\ Len(buffer') <= MaxBuffered /\ armed' \in BOOLEAN
    BY <1>2, <1>3, <1>10
  <2>6. /\ batch' \in Seq(Events) /\ Len(batch') <= BatchSize
        /\ arrived' \in BOOLEAN /\ (arrived' => batch' # <<>>)
    BY <1>8, <2>1, Zenon DEF QueueTypeOK
  <2> QED BY <1>7, <1>8, <2>4, <2>5, <2>6, QueueStep, Zenon
<1> QED BY <1>9, <1>10 DEF Record, queued, kept

LEMMA TimerStep == QueueInv /\ (TimerFires \/ Paused) => QueueInv'
<1> SUFFICES ASSUME QueueInv, TimerFires \/ Paused PROVE QueueInv'
  OBVIOUS
<1>1. /\ Flush(buffer) /\ recorded' = recorded
      /\ UNCHANGED preference /\ UNCHANGED server
  BY Zenon DEF TimerFires, Paused
<1>2. QueueTypeOK /\ Recent(buffer, recorded) /\ Run(batch) /\ Behind(batch, buffer, recorded)
      /\ Unstored(batch, buffer, recorded)
  BY Zenon DEF QueueInv, Queued
<1>3. /\ buffer \in Seq(Events) /\ Len(buffer) <= MaxBuffered
      /\ recorded \in 0..MaxEvents /\ recorded \in Nat
  BY <1>2, Limits DEF QueueTypeOK
<1>4. /\ buffer' \in Seq(Events) /\ Len(buffer') <= MaxBuffered
      /\ armed' \in BOOLEAN
      /\ batch' \in Seq(Events) /\ Len(batch') <= BatchSize
      /\ arrived' \in BOOLEAN /\ (arrived' => batch' # <<>>)
      /\ Queued'
  BY <1>1, <1>2, <1>3, FlushFacts
<1>5. buffer = <<>> => buffer' = <<>>
  BY <1>1 DEF Flush
<1>6. recorded' \in 0..MaxEvents
  BY <1>1, <1>3
<1> QED BY <1>1, <1>4, <1>5, <1>6, QueueStep, Zenon

LEMMA ArrivesKeeps == QueueInv /\ BatchArrives => QueueInv'
<1> SUFFICES ASSUME QueueInv, BatchArrives PROVE QueueInv'
  OBVIOUS
<1>1. /\ batch # <<>> /\ arrived' = TRUE /\ buffer' = buffer /\ batch' = batch
      /\ recorded' = recorded /\ armed' = armed /\ UNCHANGED preference
      /\ unanswered' = unanswered /\ refusals' = refusals
  BY DEF BatchArrives
<1>16. ~arrived
  BY DEF BatchArrives
<1>2. /\ received \in [Events -> Nat] /\ unanswered \in [Events -> Nat]
      /\ received' = [e \in Events |-> received[e] + IF e \in Elems(batch) THEN 1 ELSE 0]
  BY DEF QueueInv, QueueTypeOK, BatchArrives
<1>3. \A e \in Events : received'[e] = IF e \in Elems(batch) THEN received[e] + 1 ELSE received[e]
  BY <1>2
<1>4. received' \in [Events -> Nat]
  BY <1>2
<1>5. \A e \in Events : e \in Elems(batch) => received[e] <= unanswered[e]
  BY <1>16 DEF QueueInv, Queued, Unstored
<1>6. QueueTypeOK'
  <2>1. taps' \in 0..MaxTaps /\ refusals' \in 0..MaxRefusals /\ recorded' \in 0..MaxEvents
        /\ buffer' \in Seq(Events) /\ batch' \in Seq(Events)
        /\ Len(buffer') <= MaxBuffered /\ Len(batch') <= BatchSize
        /\ switching' \in [BOOLEAN -> Nat] /\ unanswered' \in [Events -> Nat]
    BY <1>1 DEF QueueInv, QueueTypeOK, preference
  <2>2. consent' \in BOOLEAN /\ shown' \in BOOLEAN /\ armed' \in BOOLEAN
        /\ arrived' \in BOOLEAN /\ (arrived' => batch' # <<>>)
    BY <1>1, Zenon DEF QueueInv, QueueTypeOK, preference
  <2> QED BY <1>4, <2>1, <2>2, Zenon DEF QueueTypeOK
<1>7. NothingKeptAfterWithdrawal'
  BY <1>1, Zenon DEF QueueInv, NothingKeptAfterWithdrawal, preference
<1>8. StoredAgainOnlyIfUnanswered'
  <2> SUFFICES ASSUME NEW e \in Events PROVE received'[e] <= 1 + unanswered'[e]
    BY DEF StoredAgainOnlyIfUnanswered
  <2>1. received[e] <= 1 + unanswered[e]
    BY DEF QueueInv, StoredAgainOnlyIfUnanswered
  <2> QED BY <2>1, <1>1, <1>2, <1>3, <1>5
<1>9. Unstored(batch, buffer, recorded)'
  <2> SUFFICES ASSUME NEW e \in Events
               PROVE  \/ e + Len(buffer') <= recorded' /\ e \notin Elems(batch')
                      \/ e \in Elems(batch')
                      \/ received'[e] <= unanswered'[e]
    BY <1>1 DEF Unstored, Elems
  <2>1. \/ e + Len(buffer) <= recorded /\ e \notin Elems(batch)
        \/ received[e] <= unanswered[e]
    BY <1>16 DEF QueueInv, Queued, Unstored
  <2> QED BY <2>1, <1>1, <1>3
<1>10. Recent(buffer, recorded)' /\ Run(batch)' /\ Behind(batch, buffer, recorded)'
  BY <1>1 DEF QueueInv, Queued, Recent, Run, Behind
<1>11. Queued'
  BY <1>9, <1>10, Zenon DEF Queued
<1> QED BY <1>6, <1>7, <1>8, <1>11, Zenon DEF QueueInv

\* The first positions of the buffer are dropped, whatever they hold by now: none of
\* the batch that arrived is left, and what is left was not in it.
LEMMA AcceptedStep == QueueInv /\ Accepted => QueueInv'
<1> SUFFICES ASSUME QueueInv, Accepted PROVE QueueInv'
  OBVIOUS
<1>1. /\ Len(batch) <= Len(buffer) /\ buffer' = Rest /\ batch' = Firsts(Rest)
      /\ armed' = armed /\ recorded' = recorded /\ UNCHANGED preference /\ UNCHANGED server
  BY DEF Accepted, Removed
<1>16. arrived /\ arrived' = FALSE
  BY DEF Accepted, Removed
<1>2. /\ buffer \in Seq(Events) /\ batch \in Seq(Events) /\ recorded \in 0..MaxEvents
      /\ Len(buffer) <= MaxBuffered /\ armed \in BOOLEAN /\ batch # <<>>
  BY <1>16 DEF QueueInv, QueueTypeOK
<1>3. /\ Len(buffer) \in Nat /\ Len(batch) \in Nat /\ recorded \in Nat
      /\ \A i \in 1..Len(buffer) : buffer[i] \in Nat
      /\ Len(batch) # 0 /\ 1 \in 1..Len(batch) /\ batch[1] \in Nat
      /\ \A i \in 1..Len(batch) : batch[i] \in Nat
  BY <1>2, LenProperties, ElementOfSeq, EmptySeq, Limits DEF Events
<1>4. /\ Rest \in Seq(Events) /\ Len(Rest) = Len(buffer) - Len(batch)
      /\ \A i \in 1..Len(Rest) : Rest[i] = buffer[Len(batch) + i]
  BY <1>1, <1>2, <1>3, RestFacts DEF Rest
<1>5. /\ Recent(buffer, recorded) /\ Run(batch) /\ Behind(batch, buffer, recorded)
      /\ Unstored(batch, buffer, recorded)
  BY Zenon DEF QueueInv, Queued
<1> HIDE DEF Rest
<1>6. Recent(Rest, recorded)
  <2> SUFFICES ASSUME NEW i \in 1..Len(Rest) PROVE Rest[i] + Len(Rest) = recorded + i
    BY DEF Recent
  <2>1. i \in Nat /\ Len(batch) + i \in 1..Len(buffer) /\ Rest[i] = buffer[Len(batch) + i]
    BY <1>3, <1>4
  <2>2. Rest[i] \in Nat /\ Rest[i] + Len(buffer) = recorded + (Len(batch) + i)
    BY <2>1, <1>3, <1>5 DEF Recent
  <2>3. Len(Rest) = Len(buffer) - Len(batch) /\ Len(buffer) \in Nat /\ Len(batch) \in Nat
        /\ recorded \in Nat
    BY <1>3, <1>4
  <2> DEFINE e == Rest[i]
  <2>4. e \in Nat /\ e + Len(buffer) = recorded + (Len(batch) + i) /\ i \in Nat
    BY <2>1, <2>2
  <2> HIDE DEF e
  <2>5. e + Len(Rest) = recorded + i
    BY <2>3, <2>4
  <2> QED BY <2>5 DEF e
<1>7. ASSUME NEW e \in Events, e + Len(Rest) > recorded PROVE received[e] <= unanswered[e]
  <2>1. e \in Nat
    BY Limits DEF Events
  <2>2. e \notin Elems(batch)
    <3> SUFFICES ASSUME e \in Elems(batch) PROVE FALSE
      OBVIOUS
    <3>1. PICK i \in 1..Len(batch) : e = batch[i]
      BY <1>2, LenProperties DEF Elems
    <3>2. e + 1 = batch[1] + i /\ i \in Nat /\ i <= Len(batch)
      BY <3>1, <1>3, <1>5 DEF Run
    <3>3. batch[1] + Len(buffer) <= recorded + 1
      BY <1>2, <1>3, <1>5 DEF Behind
    <3>4. Len(Rest) = Len(buffer) - Len(batch) /\ Len(buffer) \in Nat /\ Len(batch) \in Nat
          /\ recorded \in Nat /\ batch[1] \in Nat
      BY <1>3, <1>4
    <3> QED BY <2>1, <3>2, <3>3, <3>4, <1>7
  <2>3. ~(e + Len(buffer) <= recorded)
    <3>1. Len(Rest) = Len(buffer) - Len(batch) /\ Len(buffer) \in Nat /\ Len(batch) \in Nat
          /\ recorded \in Nat
      BY <1>3, <1>4
    <3> QED BY <2>1, <3>1, <1>7
  <2> QED BY <2>2, <2>3, <1>5 DEF Unstored
<1>8. /\ Run(batch') /\ Behind(batch', Rest, recorded)
      /\ \A e \in Events : e \in Elems(batch') => e + Len(Rest) > recorded
  BY <1>1, <1>3, <1>4, <1>6, TakenFacts
<1>9. Recent(buffer, recorded)' /\ Run(batch)' /\ Behind(batch, buffer, recorded)'
  BY <1>1, <1>6, <1>8 DEF Recent, Run, Behind
<1>10. Unstored(batch, buffer, recorded)'
  <2> SUFFICES ASSUME NEW e \in Events
               PROVE  \/ e + Len(Rest) <= recorded /\ e \notin Elems(batch')
                      \/ received[e] <= unanswered[e]
    BY <1>1 DEF Unstored, Elems, server
  <2>1. e \in Nat /\ Len(Rest) \in Nat /\ recorded \in Nat
    BY <1>3, <1>4, LenProperties, Limits DEF Events
  <2>2. e + Len(Rest) <= recorded \/ e + Len(Rest) > recorded
    BY <2>1
  <2> QED BY <2>1, <2>2, <1>7, <1>8
<1>11. Queued'
  BY <1>9, <1>10, Zenon DEF Queued
<1>12. /\ buffer' \in Seq(Events) /\ Len(buffer') <= MaxBuffered
       /\ batch' \in Seq(Events) /\ Len(batch') <= BatchSize
  BY <1>1, <1>2, <1>3, <1>4, FirstsFacts, Limits
<1>13. buffer = <<>> => buffer' = <<>>
  BY <1>1, <1>3, EmptySeq
<1>14. recorded' \in 0..MaxEvents
  BY <1>1, <1>2
<1>15. armed' \in BOOLEAN /\ arrived' \in BOOLEAN /\ ~arrived'
  BY <1>1, <1>16, <1>2, Zenon
<1> QED BY <1>1, <1>11, <1>12, <1>13, <1>14, <1>15, QueueStep, Zenon

\* The buffer was discarded during the upload and has not grown back to the batch's
\* length, so it holds only later events.
LEMMA RemovalThrowsStep == QueueInv /\ RemovalThrows => QueueInv'
<1> SUFFICES ASSUME QueueInv, RemovalThrows PROVE QueueInv'
  OBVIOUS
<1>1. /\ Len(buffer) < Len(batch) /\ buffer' = buffer /\ batch' = <<>>
      /\ armed' = armed /\ recorded' = recorded /\ UNCHANGED preference /\ UNCHANGED server
  BY DEF RemovalThrows
<1>2. arrived /\ arrived' = FALSE
  BY DEF RemovalThrows
<1>3. /\ buffer \in Seq(Events) /\ batch \in Seq(Events) /\ recorded \in 0..MaxEvents
      /\ Len(buffer) <= MaxBuffered /\ armed \in BOOLEAN /\ batch # <<>>
      /\ <<>> \in Seq(Events) /\ Len(<<>>) = 0
  BY <1>2, EmptySeq DEF QueueInv, QueueTypeOK
<1>4. /\ Len(buffer) \in Nat /\ Len(batch) \in Nat /\ recorded \in Nat
      /\ 1 \in 1..Len(batch) /\ batch[1] \in Nat
  BY <1>3, LenProperties, ElementOfSeq, EmptySeq, Limits DEF Events
<1>5. /\ Recent(buffer, recorded) /\ Run(batch) /\ Behind(batch, buffer, recorded)
      /\ Unstored(batch, buffer, recorded)
  BY Zenon DEF QueueInv, Queued
<1>6. batch[1] + Len(batch) + Len(buffer) <= recorded + 1
  BY <1>1, <1>3, <1>4, <1>5 DEF Behind
<1>7. ASSUME NEW e \in Events, e + Len(buffer) > recorded PROVE received[e] <= unanswered[e]
  <2>1. e \in Nat
    BY Limits DEF Events
  <2>2. e \notin Elems(batch)
    <3> SUFFICES ASSUME e \in Elems(batch) PROVE FALSE
      OBVIOUS
    <3>1. PICK i \in 1..Len(batch) : e = batch[i]
      BY <1>3, LenProperties DEF Elems
    <3>2. e + 1 = batch[1] + i /\ i \in Nat /\ i <= Len(batch)
      BY <3>1, <1>4, <1>5 DEF Run
    <3> QED BY <2>1, <3>2, <1>4, <1>6, <1>7
  <2>3. ~(e + Len(buffer) <= recorded)
    BY <2>1, <1>4, <1>7
  <2> QED BY <2>2, <2>3, <1>5 DEF Unstored
<1>8. Recent(buffer, recorded)' /\ Run(batch)' /\ Behind(batch, buffer, recorded)'
  BY <1>1, <1>3, <1>5 DEF Recent, Run, Behind
<1>9. Unstored(batch, buffer, recorded)'
  <2>1. Elems(<<>>) = {}
    BY <1>3 DEF Elems
  <2>2. ASSUME NEW e \in Events PROVE e + Len(buffer) <= recorded \/ received[e] <= unanswered[e]
    <3>1. e \in Nat
      BY Limits DEF Events
    <3> QED BY <3>1, <1>4, <1>7
  <2> QED BY <2>1, <2>2, <1>1 DEF Unstored, Elems, server
<1>10. Queued'
  BY <1>8, <1>9, Zenon DEF Queued
<1>11. armed' \in BOOLEAN /\ arrived' \in BOOLEAN /\ ~arrived'
  BY <1>1, <1>2, <1>3, Zenon
<1>12. /\ buffer' \in Seq(Events) /\ Len(buffer') <= MaxBuffered
       /\ batch' \in Seq(Events) /\ Len(batch') <= BatchSize /\ recorded' \in 0..MaxEvents
       /\ (buffer = <<>> => buffer' = <<>>)
  BY <1>1, <1>3, Limits
<1> QED BY <1>1, <1>10, <1>11, <1>12, QueueStep, Zenon

LEMMA RefusedStep == QueueInv /\ Refused => QueueInv'
<1> SUFFICES ASSUME QueueInv, Refused PROVE QueueInv'
  OBVIOUS
<1>1. /\ batch # <<>> /\ batch' = <<>> /\ buffer' = buffer /\ recorded' = recorded
      /\ armed' = armed /\ received' = received /\ UNCHANGED preference
      /\ refusals < MaxRefusals /\ refusals' = refusals + 1
  BY DEF Refused
<1>2. arrived' = FALSE
  BY DEF Refused
<1>3. /\ received \in [Events -> Nat] /\ unanswered \in [Events -> Nat]
      /\ unanswered' = [e \in Events |->
           unanswered[e] + IF arrived /\ e \in Elems(batch) THEN 1 ELSE 0]
      /\ <<>> \in Seq(Events) /\ Len(<<>>) = 0 /\ Elems(<<>>) = {}
  BY EmptySeq DEF QueueInv, QueueTypeOK, Refused, Elems
<1>4. ASSUME NEW e \in Events
      PROVE  /\ unanswered'[e] \in Nat /\ unanswered[e] <= unanswered'[e]
             /\ arrived /\ e \in Elems(batch) => unanswered'[e] = unanswered[e] + 1
  BY <1>3
<1>5. QueueTypeOK'
  <2>1. /\ taps' \in 0..MaxTaps /\ recorded' \in 0..MaxEvents
        /\ buffer' \in Seq(Events) /\ batch' \in Seq(Events) /\ received' \in [Events -> Nat]
        /\ Len(buffer') <= MaxBuffered /\ switching' \in [BOOLEAN -> Nat]
    BY <1>1, <1>3 DEF QueueInv, QueueTypeOK, preference
  <2>2. unanswered' \in [Events -> Nat]
    BY <1>3
  <2>3. refusals' \in 0..MaxRefusals /\ Len(batch') <= BatchSize
    BY <1>1, <1>3, Limits DEF QueueInv, QueueTypeOK
  <2>4. consent' \in BOOLEAN /\ shown' \in BOOLEAN /\ armed' \in BOOLEAN
        /\ arrived' \in BOOLEAN /\ ~arrived'
    BY <1>1, <1>2, Zenon DEF QueueInv, QueueTypeOK, preference
  <2> QED BY <2>1, <2>2, <2>3, <2>4, Zenon DEF QueueTypeOK
<1>6. NothingKeptAfterWithdrawal'
  BY <1>1, Zenon DEF QueueInv, NothingKeptAfterWithdrawal, preference
<1>7. StoredAgainOnlyIfUnanswered'
  <2> SUFFICES ASSUME NEW e \in Events PROVE received'[e] <= 1 + unanswered'[e]
    BY DEF StoredAgainOnlyIfUnanswered
  <2>1. received[e] <= 1 + unanswered[e] /\ received[e] \in Nat /\ unanswered[e] \in Nat
    BY <1>3 DEF QueueInv, StoredAgainOnlyIfUnanswered
  <2> QED BY <2>1, <1>1, <1>4
<1>8. Unstored(batch, buffer, recorded)'
  <2> SUFFICES ASSUME NEW e \in Events
               PROVE  e + Len(buffer) <= recorded \/ received[e] <= unanswered'[e]
    BY <1>1, <1>3 DEF Unstored, Elems
  <2>1. \/ e + Len(buffer) <= recorded
        \/ arrived /\ e \in Elems(batch)
        \/ received[e] <= unanswered[e]
    BY DEF QueueInv, Queued, Unstored
  <2>2. received[e] <= 1 + unanswered[e] /\ received[e] \in Nat /\ unanswered[e] \in Nat
    BY <1>3 DEF QueueInv, StoredAgainOnlyIfUnanswered
  <2> QED BY <2>1, <2>2, <1>4
<1>9. Recent(buffer, recorded)' /\ Run(batch)' /\ Behind(batch, buffer, recorded)'
  BY <1>1, <1>3 DEF QueueInv, Queued, Recent, Run, Behind
<1>10. Queued'
  BY <1>8, <1>9, Zenon DEF Queued
<1> QED BY <1>5, <1>6, <1>7, <1>10, Zenon DEF QueueInv

\* A batch ends before the next event to be recorded.
LEMMA BatchEnds ==
  ASSUME QueueInv, batch # <<>>
  PROVE  /\ batch[1] \in Nat /\ Len(batch) \in Nat
         /\ batch[1] + Len(batch) <= recorded + 1
<1>1. /\ buffer \in Seq(Events) /\ batch \in Seq(Events) /\ recorded \in Nat
      /\ Behind(batch, buffer, recorded)
  BY Limits DEF QueueInv, QueueTypeOK, Queued
<1>2. Len(buffer) \in Nat /\ Len(batch) \in Nat /\ 1 \in 1..Len(batch) /\ batch[1] \in Nat
  BY <1>1, LenProperties, ElementOfSeq, EmptySeq, Limits DEF Events
<1> QED BY <1>1, <1>2 DEF Behind

LEMMA CountUp ==
  ASSUME NEW S, NEW f \in [S -> Nat], NEW x \in S
  PROVE  [f EXCEPT ![x] = @ + 1] \in [S -> Nat] /\ [f EXCEPT ![x] = @ + 1][x] # 0
OBVIOUS

LEMMA CountDown ==
  ASSUME NEW S, NEW f \in [S -> Nat], NEW x \in S, f[x] > 0, NEW g, g = [f EXCEPT ![x] = @ - 1]
  PROVE  g \in [S -> Nat] /\ \A y \in S : y # x => g[y] = f[y]
OBVIOUS

LEMMA TapKeeps == QueueInv /\ Tap => QueueInv'
<1> SUFFICES ASSUME QueueInv, Tap PROVE QueueInv'
  OBVIOUS
<1>1. /\ taps < MaxTaps /\ taps' = taps + 1 /\ UNCHANGED <<shown, buffer, armed, flushing, recorded, server>>
      /\ switching' = [switching EXCEPT ![~shown] = @ + 1]
  BY DEF Tap
<1>2. consent' = ~shown /\ shown \in BOOLEAN
  BY Zenon DEF Tap, QueueInv, QueueTypeOK
<1>3. switching \in [BOOLEAN -> Nat] /\ taps \in 0..MaxTaps
  BY DEF QueueInv, QueueTypeOK
<1>4. switching' \in [BOOLEAN -> Nat]
      /\ (consent' \/ switching'[FALSE] # 0)
  <2>1. PICK v \in BOOLEAN : v = ~shown
    BY <1>2
  <2>2. switching' = [switching EXCEPT ![v] = @ + 1]
    BY <1>1, <2>1, Zenon
  <2>3. switching' \in [BOOLEAN -> Nat] /\ switching'[v] # 0
    BY <1>3, <2>2, CountUp, Zenon
  <2>4. CASE v = TRUE
    <3>1. consent'
      BY <1>2, <2>1, <2>4, Zenon
    <3> QED BY <2>3, <3>1, Zenon
  <2>5. CASE v = FALSE
    BY <2>3, <2>5, Zenon
  <2>6. v = TRUE \/ v = FALSE
    OBVIOUS
  <2> QED BY <2>4, <2>5, <2>6, Zenon
<1>5. QueueTypeOK'
  <2>1. taps' \in 0..MaxTaps
    BY <1>1, <1>3, Limits
  <2>2. consent' \in BOOLEAN /\ shown' \in BOOLEAN
    BY <1>1, <1>2, Zenon
  <2> QED BY <1>1, <1>4, <2>1, <2>2, Zenon DEF QueueInv, QueueTypeOK, flushing, server
<1>6. NothingKeptAfterWithdrawal'
  BY <1>4, Zenon DEF NothingKeptAfterWithdrawal
<1>7. StoredAgainOnlyIfUnanswered'
  BY <1>1 DEF QueueInv, StoredAgainOnlyIfUnanswered, server
<1>8. Queued'
  <2>1. Recent(buffer, recorded)' /\ Run(batch)' /\ Behind(batch, buffer, recorded)'
    BY <1>1 DEF QueueInv, Queued, Recent, Run, Behind, flushing
  <2>2. Unstored(batch, buffer, recorded)'
    BY <1>1, Zenon DEF QueueInv, Queued, Unstored, Elems, flushing, server
  <2> QED BY <2>1, <2>2, Zenon DEF Queued
<1> QED BY <1>5, <1>6, <1>7, <1>8, Zenon DEF QueueInv

LEMMA SwitchedStep == \A value \in BOOLEAN : QueueInv /\ Switched(value) => QueueInv'
<1> SUFFICES ASSUME NEW value \in BOOLEAN, QueueInv, Switched(value) PROVE QueueInv'
  OBVIOUS
<1>1. /\ switching[value] > 0 /\ switching' = [switching EXCEPT ![value] = @ - 1]
      /\ shown' = consent /\ UNCHANGED <<consent, taps, flushing, recorded, server>>
  BY DEF Switched
<1>2. \/ value /\ buffer' = buffer /\ armed' = armed
      \/ ~value /\ buffer' = <<>> /\ armed' = FALSE
  BY Zenon DEF Switched
<1>3. /\ switching \in [BOOLEAN -> Nat] /\ buffer \in Seq(Events) /\ Len(buffer) \in Nat
      /\ Len(buffer) <= MaxBuffered /\ recorded \in Nat
      /\ <<>> \in Seq(Events) /\ Len(<<>>) = 0
  BY LenProperties, EmptySeq, Limits DEF QueueInv, QueueTypeOK
<1>4. switching' \in [BOOLEAN -> Nat]
      /\ \A v \in BOOLEAN : v # value => switching'[v] = switching[v]
  BY <1>1, <1>3, CountDown, Zenon
<1>5. buffer' = buffer \/ buffer' = <<>>
  BY <1>2, Zenon
<1>6. QueueTypeOK'
  <2>0. Len(<<>>) <= MaxBuffered
    BY <1>3, Limits
  <2>1. buffer' \in Seq(Events) /\ Len(buffer') <= MaxBuffered
    BY <2>0, <1>3, <1>5, Zenon
  <2>2. shown' \in BOOLEAN /\ armed' \in BOOLEAN
    BY <1>1, <1>2, Zenon DEF QueueInv, QueueTypeOK
  <2> QED BY <1>1, <1>4, <2>1, <2>2, Zenon DEF QueueInv, QueueTypeOK, flushing, server
<1>7. NothingKeptAfterWithdrawal'
  <2> SUFFICES ASSUME ~consent', switching'[FALSE] = 0 PROVE buffer' = <<>>
    BY Zenon DEF NothingKeptAfterWithdrawal
  <2>1. CASE value
    <3>1. value # FALSE /\ buffer' = buffer /\ ~consent
      BY <1>1, <1>2, <2>1, Zenon
    <3>2. switching[FALSE] = 0
      BY <1>4, <3>1
    <3> QED BY <3>1, <3>2, Zenon DEF QueueInv, NothingKeptAfterWithdrawal
  <2>2. CASE ~value
    BY <1>2, <2>2, Zenon
  <2> QED BY <2>1, <2>2, Zenon
<1>8. StoredAgainOnlyIfUnanswered'
  BY <1>1 DEF QueueInv, StoredAgainOnlyIfUnanswered, server
<1>9. Queued'
  <2>1. /\ batch' = batch /\ arrived' = arrived /\ recorded' = recorded
        /\ received' = received /\ unanswered' = unanswered
    BY <1>1 DEF flushing, server
  <2>2. /\ Recent(buffer, recorded) /\ Run(batch) /\ Behind(batch, buffer, recorded)
        /\ Unstored(batch, buffer, recorded)
    BY Zenon DEF QueueInv, Queued
  <2>3. CASE buffer' = buffer
    <3>1. Recent(buffer, recorded)' /\ Run(batch)' /\ Behind(batch, buffer, recorded)'
      BY <2>1, <2>2, <2>3 DEF Recent, Run, Behind
    <3>2. Unstored(batch, buffer, recorded)'
      BY <2>1, <2>2, <2>3, Zenon DEF Unstored, Elems
    <3> QED BY <3>1, <3>2, Zenon DEF Queued
  <2>4. CASE buffer' = <<>>
    <3>1. Recent(buffer, recorded)' /\ Run(batch)'
      BY <2>1, <2>2, <2>4, <1>3 DEF Recent, Run
    <3>2. Behind(batch, <<>>, recorded)
      <4> SUFFICES ASSUME batch # <<>>
                   PROVE  batch[1] + Len(batch) + Len(<<>>) <= recorded + 1
        BY DEF Behind
      <4>1. /\ batch[1] \in Nat /\ Len(batch) \in Nat
            /\ batch[1] + Len(batch) <= recorded + 1
        BY BatchEnds
      <4> QED BY <4>1, <1>3
    <3>3. Behind(batch, buffer, recorded)'
      BY <2>1, <2>4, <3>2 DEF Behind
    <3>4. ASSUME NEW e \in Events
          PROVE  \/ e + 0 <= recorded /\ e \notin Elems(batch)
                 \/ arrived /\ e \in Elems(batch)
                 \/ received[e] <= unanswered[e]
      <4>1. e \in Nat
        BY Limits DEF Events
      <4>2. e + Len(buffer) <= recorded => e + 0 <= recorded
        BY <4>1, <1>3
      <4> QED BY <4>2, <2>2, Zenon DEF Unstored
    <3>5. Unstored(batch, buffer, recorded)'
      BY <2>1, <2>4, <3>4, <1>3 DEF Unstored, Elems
    <3> QED BY <3>1, <3>3, <3>5, Zenon DEF Queued
  <2> QED BY <1>5, <2>3, <2>4
<1> QED BY <1>6, <1>7, <1>8, <1>9, Zenon DEF QueueInv

LEMMA StutterStep == QueueInv /\ UNCHANGED queueVars => QueueInv'
<1> SUFFICES ASSUME QueueInv, UNCHANGED queueVars PROVE QueueInv'
  OBVIOUS
<1> USE DEF queueVars, preference, flushing, server
<1>1. QueueTypeOK'
  BY Zenon DEF QueueInv, QueueTypeOK
<1>2. NothingKeptAfterWithdrawal' /\ StoredAgainOnlyIfUnanswered'
  BY Zenon DEF QueueInv, NothingKeptAfterWithdrawal, StoredAgainOnlyIfUnanswered
<1>3. Recent(buffer, recorded)' /\ Run(batch)' /\ Behind(batch, buffer, recorded)'
  BY DEF QueueInv, Queued, Recent, Run, Behind
<1>4. Unstored(batch, buffer, recorded)'
  BY Zenon DEF QueueInv, Queued, Unstored, Elems
<1> QED BY <1>1, <1>2, <1>3, <1>4, Zenon DEF QueueInv, Queued

LEMMA QueueInvStep == QueueInv /\ [QueueNext]_queueVars => QueueInv'
BY RecordStep, TimerStep, ArrivesKeeps, AcceptedStep, RemovalThrowsStep, RefusedStep,
   TapKeeps, SwitchedStep, StutterStep, Zenon DEF QueueNext

LEMMA QueueInvariance == QueueSpec => []QueueInv
BY QueueInvInit, QueueInvStep, PTL DEF QueueSpec

-----------------------------------------------------------------------------
(***************************************************************************)
(* The theorems.                                                           *)
(***************************************************************************)

\* Every variable of the queue keeps its type: buffer and batch within their sizes.
THEOREM QueueKeepsTypes == QueueSpec => []QueueTypeOK
<1>1. QueueInv => QueueTypeOK
  BY DEF QueueInv
<1> QED BY <1>1, QueueInvariance, PTL

\* discard(): once a withdrawal is handled the buffer is empty, whatever was running.
THEOREM WithdrawalTheorem == QueueSpec => []NothingKeptAfterWithdrawal
<1>1. QueueInv => NothingKeptAfterWithdrawal
  BY DEF QueueInv
<1> QED BY <1>1, QueueInvariance, PTL

\* flush(): removing by position never leaves an answered event to be sent again,
\* although the buffer loses its oldest events or everything while a batch is away.
THEOREM NoRepeatTheorem == QueueSpec => []StoredAgainOnlyIfUnanswered
<1>1. QueueInv => StoredAgainOnlyIfUnanswered
  BY DEF QueueInv
<1> QED BY <1>1, QueueInvariance, PTL

-----------------------------------------------------------------------------
(***************************************************************************)
(* The sharing button: only starts that were open with a stop leave loops  *)
(* behind on the phone, for any number of handlers and of timers.          *)
(*                                                                         *)
(* The count of the strays is not inductive by itself: the loop _timer     *)
(* refers to is no stray yet, and a stop that is open, or a start, may     *)
(* turn it into one without paying for it.  Such a loop is Precarious, and *)
(* is paid for when it is armed: its start was overlapped, because one     *)
(* that was not is alone with its share from the tap to the first push.    *)
(***************************************************************************)

Mounted(h) == handler[h].mounted
Asking(h) == Mounted(h) /\ handler[h].awaits = "share"
Stopping(h) == Mounted(h) /\ handler[h].awaits = "stop"

\* A start on screen that no stop was open with.
Clean(h) == Mounted(h) /\ handler[h].first /\ ~handler[h].overlapped

\* The loop of _timer may still be left behind, or replaced by another one.
Precarious == timer # 0 /\ (~sharing \/ StopOpen \/ \E h \in Handlers : Clean(h))

Dangling == loops \ {timer}
Credit == IF Precarious THEN 1 ELSE 0

ButtonTyped ==
  /\ sharing \in BOOLEAN /\ starting \in BOOLEAN
  /\ handler \in [Handlers ->
       [awaits : {"nothing", "share", "position", "post", "stop"},
        first : BOOLEAN, overlapped : BOOLEAN, mounted : BOOLEAN]]
  /\ loopsArmed \in Nat /\ loops \subseteq 1..loopsArmed /\ timer \in {0} \cup loops
  /\ abandoned \in Nat /\ loopsOverlapped \in Nat

\* One tap on Share at a time; a clean start has no stop beside it and no
\* other clean start, and it shares from the answer on.
StartsOK ==
  /\ \A h \in Handlers : Asking(h) => starting
  /\ \A h, g \in Handlers : Asking(h) /\ Asking(g) => h = g
  /\ \A h, g \in Handlers : Clean(h) /\ Stopping(g) => h = g
  /\ \A h, g \in Handlers : Clean(h) /\ Clean(g) => h = g
  /\ \A h \in Handlers : Clean(h) /\ ~Asking(h) => sharing

Accounted == Cardinality(Dangling) + abandoned + Credit <= loopsOverlapped

ButtonInv == ButtonTyped /\ StartsOK /\ Accounted

LEMMA LoopsAreFinite ==
  ASSUME ButtonTyped
  PROVE  /\ IsFiniteSet(loops) /\ IsFiniteSet(Dangling)
         /\ Cardinality(Dangling) \in Nat
         /\ Cardinality(loops) = Cardinality(Dangling) + (IF timer = 0 THEN 0 ELSE 1)
PROOF
<1>1. IsFiniteSet(loops)
  <2>1. IsFiniteSet(1..loopsArmed)
    BY FS_Interval DEF ButtonTyped
  <2>. QED BY <2>1, FS_Subset DEF ButtonTyped
<1>2. IsFiniteSet(Dangling)
  BY <1>1, FS_Subset DEF Dangling
<1>3. CASE timer = 0
  <2>1. Dangling = loops
    BY <1>3 DEF Dangling, ButtonTyped
  <2>. QED BY <1>1, <1>2, <1>3, <2>1, FS_CardinalityType
<1>4. CASE timer # 0
  <2>1. loops = Dangling \cup {timer} /\ timer \notin Dangling
    BY <1>4 DEF Dangling, ButtonTyped
  <2>2. Cardinality(Dangling \cup {timer}) = Cardinality(Dangling) + 1
    BY <1>2, <2>1, FS_AddElement
  <2>. QED BY <1>1, <1>2, <1>4, <2>1, <2>2, FS_CardinalityType
<1>. QED BY <1>3, <1>4

\* A handler that leaves the timers alone, and neither begins a stop nor
\* starts, leaves the account as it is.
LEMMA AccountStays ==
  ASSUME ButtonInv, UNCHANGED timers, Precarious' => Precarious
  PROVE  Accounted'
PROOF
<1>1. UNCHANGED <<timer, loops, abandoned, loopsArmed, loopsOverlapped>>
  BY DEF timers
<1>2. Dangling' = Dangling
  BY <1>1 DEF Dangling
<1>3. Credit \in Nat /\ Credit' \in Nat /\ Credit' <= Credit
  BY DEF Credit
<1>4. Cardinality(Dangling)' = Cardinality(Dangling) /\ Cardinality(Dangling) \in Nat
  BY <1>2, LoopsAreFinite DEF ButtonInv
<1>. QED BY <1>1, <1>3, <1>4 DEF Accounted, ButtonInv, ButtonTyped

\* An overlapped start pays for the loop it replaces or arms; a clean one
\* replaces a precarious loop and leaves a safe one.
LEMMA ArmIsPaid ==
  ASSUME ButtonInv, NEW h \in Handlers, Arm(h),
         ~handler[h].overlapped => timer = 0 \/ Precarious,
         ~handler[h].overlapped => ~Precarious',
         timer # 0 /\ ~Precarious => ~Precarious'
  PROVE  Accounted'
PROOF
<1>1. /\ loopsArmed' = loopsArmed + 1 /\ timer' = loopsArmed + 1
      /\ loops' = loops \cup {loopsArmed + 1} /\ abandoned' = abandoned
      /\ loopsOverlapped' = loopsOverlapped + IF handler[h].overlapped THEN 1 ELSE 0
  BY DEF Arm
<1>2. Dangling' = loops
  BY <1>1 DEF Dangling, ButtonInv, ButtonTyped
<1>3. /\ Cardinality(Dangling)' = Cardinality(loops)
      /\ Cardinality(loops) = Cardinality(Dangling) + (IF timer = 0 THEN 0 ELSE 1)
      /\ Cardinality(Dangling) \in Nat
  BY <1>2, LoopsAreFinite DEF ButtonInv
<1>4. timer # 0 => timer' # 0
  BY <1>1 DEF ButtonInv, ButtonTyped
<1>5. timer = 0 => ~Precarious
  BY DEF Precarious
<1>6. abandoned \in Nat /\ loopsOverlapped \in Nat
  BY DEF ButtonInv, ButtonTyped
<1>7. Cardinality(Dangling) + abandoned + Credit <= loopsOverlapped
  BY DEF ButtonInv, Accounted
<1>8. Cardinality(Dangling)' + abandoned' + Credit' <= loopsOverlapped'
  <2>1. CASE handler[h].overlapped
    BY <1>1, <1>3, <1>5, <1>6, <1>7, <2>1 DEF Credit
  <2>2. CASE ~handler[h].overlapped
    BY <1>1, <1>3, <1>5, <1>6, <1>7, <2>2 DEF Credit
  <2>. QED BY <2>1, <2>2
<1>. QED BY <1>8 DEF Accounted

\* A handler that has ended has no role, and the others keep theirs.
LEMMA EndedHasNoRole ==
  ASSUME ButtonTyped, NEW h \in Handlers, End(h)
  PROVE  \A g \in Handlers : /\ Asking(g)' <=> g # h /\ Asking(g)
                             /\ Stopping(g)' <=> g # h /\ Stopping(g)
                             /\ Clean(g)' <=> g # h /\ Clean(g)
PROOF
<1>. SUFFICES ASSUME NEW g \in Handlers
              PROVE  /\ Asking(g)' <=> g # h /\ Asking(g)
                     /\ Stopping(g)' <=> g # h /\ Stopping(g)
                     /\ Clean(g)' <=> g # h /\ Clean(g)
  OBVIOUS
<1>1. handler'[g] = IF g = h THEN NoHandler ELSE handler[g]
  BY DEF End, ButtonTyped
<1>. QED BY <1>1 DEF NoHandler, Asking, Stopping, Clean, Mounted

\* A handler ends without a loop: an answer off screen or without a link.
LEMMA EndKeepsStarts ==
  ASSUME ButtonInv, NEW h \in Handlers, End(h),
         sharing' = sharing \/ Stopping(h),
         starting' = starting \/ Asking(h)
  PROVE  StartsOK'
PROOF BY EndedHasNoRole DEF ButtonInv, StartsOK

LEMMA PushedPreserves ==
  ASSUME ButtonInv, NEW h \in Handlers, Pushed(h), ~Asking(h),
         sharing' \in BOOLEAN, sharing' = sharing \/ Stopping(h)
  PROVE  ButtonInv'
PROOF
<1>1. End(h) /\ starting' = starting
  BY DEF Pushed
<1>2. StartsOK'
  BY <1>1, EndKeepsStarts
<1>3. \A g \in Handlers : /\ Stopping(g)' <=> g # h /\ Stopping(g)
                          /\ Clean(g)' <=> g # h /\ Clean(g)
  BY <1>1, EndedHasNoRole DEF ButtonInv
<1>4. handler' \in [Handlers ->
        [awaits : {"nothing", "share", "position", "post", "stop"},
         first : BOOLEAN, overlapped : BOOLEAN, mounted : BOOLEAN]]
  BY <1>1 DEF End, NoHandler, ButtonInv, ButtonTyped
<1>5. CASE handler[h].first /\ handler[h].mounted /\ sharing'
  <2>1. Arm(h)
    BY <1>5 DEF Pushed
  <2>2. ButtonTyped'
    <3>1. /\ loopsArmed' = loopsArmed + 1 /\ timer' = loopsArmed + 1
          /\ loops' = loops \cup {loopsArmed + 1} /\ abandoned' = abandoned
          /\ loopsOverlapped' = loopsOverlapped + IF handler[h].overlapped THEN 1 ELSE 0
      BY <2>1 DEF Arm
    <3>2. loopsArmed' \in Nat /\ loops' \subseteq 1..loopsArmed' /\ loopsOverlapped' \in Nat
      BY <3>1 DEF ButtonInv, ButtonTyped
    <3>. QED BY <1>1, <1>4, <3>1, <3>2 DEF ButtonInv, ButtonTyped
  <2>3. sharing \/ Stopping(h)
    BY <1>5
  <2>4. ~handler[h].overlapped => Clean(h)
    BY <1>5 DEF Clean, Mounted
  <2>5. ~handler[h].overlapped => timer = 0 \/ Precarious
    BY <2>4 DEF Precarious
  <2>6. ~handler[h].overlapped => ~Precarious'
    <3>1. StopOpen' <=> \E g \in Handlers : Stopping(g)'
      BY DEF StopOpen, Stopping, Mounted
    <3>2. Clean(h) => \A g \in Handlers : ~Stopping(g)' /\ ~Clean(g)'
      BY <1>3 DEF ButtonInv, StartsOK
    <3>. QED BY <1>5, <2>4, <3>1, <3>2 DEF Precarious
  <2>7. timer # 0 /\ ~Precarious => ~Precarious'
    BY <1>3, <1>5 DEF Precarious, StopOpen, Stopping, Mounted
  <2>8. Accounted'
    BY <2>1, <2>5, <2>6, <2>7, ArmIsPaid
  <2>. QED BY <1>2, <2>2, <2>8 DEF ButtonInv
<1>6. CASE ~(handler[h].first /\ handler[h].mounted /\ sharing')
  <2>1. UNCHANGED timers
    BY <1>6 DEF Pushed
  <2>2. Precarious' => Precarious
    BY <1>3, <2>1 DEF Precarious, StopOpen, Stopping, Mounted, timers
  <2>3. Accounted'
    BY <2>1, <2>2, AccountStays
  <2>4. ButtonTyped'
    BY <1>1, <1>4, <2>1 DEF ButtonInv, ButtonTyped, timers
  <2>. QED BY <1>2, <2>3, <2>4 DEF ButtonInv
<1>. QED BY <1>5, <1>6

\* A stop takes the loop of _timer with it and overlaps the starts beside it.
LEMMA StopBeginsPreserves ==
  ASSUME ButtonInv, NEW h \in Handlers, StopBegins(h), ~Asking(h), Mounted(h)
  PROVE  ButtonInv'
PROOF
<1>1. /\ UNCHANGED <<sharing, starting, abandoned, loopsArmed, loopsOverlapped>>
      /\ loops' = loops \ {timer} /\ timer' = 0
  BY DEF StopBegins
<1>2. \A g \in Handlers :
        handler'[g] = IF g = h THEN [handler[h] EXCEPT !.awaits = "stop"]
                      ELSE [handler[g] EXCEPT !.overlapped = handler[g].first]
  BY DEF StopBegins
<1>3. ButtonTyped'
  <2>1. handler' \in [Handlers ->
          [awaits : {"nothing", "share", "position", "post", "stop"},
           first : BOOLEAN, overlapped : BOOLEAN, mounted : BOOLEAN]]
    BY DEF StopBegins, ButtonInv, ButtonTyped
  <2>. QED BY <1>1, <2>1 DEF ButtonInv, ButtonTyped
<1>4. \A g \in Handlers : /\ Asking(g)' => Asking(g)
                          /\ Stopping(g)' => g = h \/ Stopping(g)
                          /\ Clean(g)' => g = h /\ Clean(g)
  <2>. TAKE g \in Handlers
  <2>1. handler[g] \in [awaits : {"nothing", "share", "position", "post", "stop"},
                        first : BOOLEAN, overlapped : BOOLEAN, mounted : BOOLEAN]
    BY DEF ButtonInv, ButtonTyped
  <2>2. CASE g = h
    <3>1. /\ handler'[h].awaits = "stop" /\ handler'[h].first = handler[h].first
          /\ handler'[h].overlapped = handler[h].overlapped /\ handler'[h].mounted = handler[h].mounted
      BY <1>2, <2>1, <2>2
    <3>. QED BY <2>2, <3>1 DEF Asking, Stopping, Clean, Mounted
  <2>3. CASE g # h
    <3>1. /\ handler'[g].awaits = handler[g].awaits /\ handler'[g].first = handler[g].first
          /\ handler'[g].overlapped = handler[g].first /\ handler'[g].mounted = handler[g].mounted
      BY <1>2, <2>1, <2>3
    <3>. QED BY <2>3, <3>1 DEF Asking, Stopping, Clean, Mounted
  <2>. QED BY <2>2, <2>3
<1>5. StartsOK'
  BY <1>1, <1>4 DEF ButtonInv, StartsOK
<1>6. Dangling' = Dangling /\ Credit' = 0
  BY <1>1 DEF Dangling, Credit, Precarious, ButtonInv, ButtonTyped
<1>7. Cardinality(Dangling)' = Cardinality(Dangling) /\ Cardinality(Dangling) \in Nat
  BY <1>6, LoopsAreFinite DEF ButtonInv
<1>8. Credit \in Nat
  BY DEF Credit
<1>9. Accounted'
  BY <1>1, <1>6, <1>7, <1>8 DEF ButtonInv, ButtonTyped, Accounted
<1>. QED BY <1>3, <1>5, <1>9 DEF ButtonInv

\* A tap on Share finds no share and no other tap, hence no clean start.
LEMMA SharePreserves == ASSUME NEW h \in Handlers PROVE ButtonInv /\ Share(h) => ButtonInv'
PROOF
<1>. SUFFICES ASSUME ButtonInv, Share(h) PROVE ButtonInv'
  OBVIOUS
<1>1. ~sharing /\ ~starting /\ starting' = TRUE /\ UNCHANGED <<sharing, timers>>
  BY DEF Share
<1>. DEFINE started == [NoHandler EXCEPT !.awaits = "share", !.first = TRUE, !.overlapped = StopOpen]
<1>2. /\ handler' = [handler EXCEPT ![h] = started]
      /\ started.awaits = "share" /\ started.first = TRUE /\ started.mounted = TRUE
      /\ started.overlapped = StopOpen
      /\ StopOpen \in BOOLEAN => started \in
           [awaits : {"nothing", "share", "position", "post", "stop"},
            first : BOOLEAN, overlapped : BOOLEAN, mounted : BOOLEAN]
  BY DEF Share, NoHandler
<1>. HIDE DEF started
<1>3. StopOpen \in BOOLEAN
  BY DEF StopOpen
<1>4. ButtonTyped'
  BY <1>1, <1>2, <1>3 DEF ButtonInv, ButtonTyped, timers
<1>5. ~Stopping(h)
  BY DEF Share, Free, NoHandler, Stopping
<1>6. \A g \in Handlers : ~Asking(g) /\ ~Clean(g)
  BY <1>1 DEF ButtonInv, StartsOK
<1>7. \A g \in Handlers : /\ Asking(g)' => g = h
                          /\ Stopping(g)' <=> Stopping(g)
                          /\ Clean(g)' => g = h /\ ~StopOpen
  <2>. TAKE g \in Handlers
  <2>1. CASE g = h
    BY <1>2, <1>5, <2>1 DEF Stopping, Clean, Mounted, ButtonInv, ButtonTyped
  <2>2. CASE g # h
    BY <1>2, <1>6, <2>2 DEF Asking, Stopping, Clean, Mounted, ButtonInv, ButtonTyped
  <2>. QED BY <2>1, <2>2
<1>8. Asking(h)'
  BY <1>2 DEF Asking, Mounted, ButtonInv, ButtonTyped
<1>9. StartsOK'
  <2>1. ~StopOpen => \A g \in Handlers : ~Stopping(g)
    BY DEF StopOpen, Stopping, Mounted
  <2>. QED BY <1>1, <1>7, <1>8, <2>1 DEF StartsOK
<1>10. Precarious' => Precarious
  BY <1>1 DEF Precarious, timers
<1>. QED BY <1>1, <1>4, <1>9, <1>10, AccountStays DEF ButtonInv

LEMMA SharedPreserves == ASSUME NEW h \in Handlers PROVE ButtonInv /\ Shared(h) => ButtonInv'
PROOF
<1>. SUFFICES ASSUME ButtonInv, Shared(h) PROVE ButtonInv'
  OBVIOUS
<1>1. handler[h].awaits = "share" /\ UNCHANGED timers
  BY DEF Shared
<1>2. CASE End(h) /\ UNCHANGED sharing /\ (UNCHANGED starting \/ (Mounted(h) /\ starting' = FALSE))
  <2>1. starting' = starting \/ Asking(h)
    BY <1>1, <1>2 DEF Asking
  <2>2. StartsOK'
    BY <1>2, <2>1, EndKeepsStarts
  <2>3. ButtonTyped'
    BY <1>1, <1>2 DEF ButtonInv, ButtonTyped, End, NoHandler, timers
  <2>4. \A g \in Handlers : (Stopping(g)' => Stopping(g)) /\ (Clean(g)' => Clean(g))
    BY <1>2, EndedHasNoRole DEF ButtonInv
  <2>5. Precarious' => Precarious
    BY <1>1, <1>2, <2>4 DEF Precarious, timers, StopOpen, Stopping, Mounted
  <2>. QED BY <1>1, <2>2, <2>3, <2>5, AccountStays DEF ButtonInv
<1>3. CASE /\ Mounted(h) /\ starting' = FALSE /\ sharing' = TRUE
           /\ handler' = [handler EXCEPT ![h].awaits = "position"]
  <2>1. Asking(h)
    BY <1>1, <1>3 DEF Asking
  <2>2. ButtonTyped'
    BY <1>1, <1>3 DEF ButtonInv, ButtonTyped, timers
  <2>3. \A g \in Handlers : /\ Asking(g)' => g # h /\ Asking(g)
                            /\ Stopping(g)' => Stopping(g)
                            /\ Clean(g)' => Clean(g)
    <3>. TAKE g \in Handlers
    <3>1. CASE g = h
      BY <1>3, <3>1 DEF Asking, Stopping, Clean, Mounted, ButtonInv, ButtonTyped
    <3>2. CASE g # h
      BY <1>3, <3>2 DEF Asking, Stopping, Clean, Mounted, ButtonInv, ButtonTyped
    <3>. QED BY <3>1, <3>2
  <2>4. StartsOK'
    BY <1>3, <2>1, <2>3 DEF ButtonInv, StartsOK
  <2>5. Precarious' => Precarious
    BY <1>1, <1>3, <2>3 DEF Precarious, timers, StopOpen, Stopping, Mounted
  <2>. QED BY <1>1, <2>2, <2>4, <2>5, AccountStays DEF ButtonInv
<1>. QED BY <1>2, <1>3 DEF Shared, Mounted

\* A tick of a loop, and a position that is known, change what is awaited.
LEMMA AwaitsPreserves ==
  ASSUME ButtonInv, NEW h \in Handlers, NEW next \in {"position", "post"},
         ~Asking(h), ~Stopping(h),
         handler' = [handler EXCEPT ![h].awaits = next], UNCHANGED <<sharing, starting, timers>>
  PROVE  ButtonInv'
PROOF
<1>1. ButtonTyped'
  BY DEF ButtonInv, ButtonTyped, timers
<1>2. \A g \in Handlers : /\ Asking(g)' <=> Asking(g)
                          /\ Stopping(g)' <=> Stopping(g)
                          /\ Clean(g)' <=> Clean(g)
  <2>. TAKE g \in Handlers
  <2>1. CASE g = h
    BY <2>1 DEF Asking, Stopping, Clean, Mounted, ButtonInv, ButtonTyped
  <2>2. CASE g # h
    BY <2>2 DEF Asking, Stopping, Clean, Mounted, ButtonInv, ButtonTyped
  <2>. QED BY <2>1, <2>2
<1>3. StartsOK'
  BY <1>2 DEF ButtonInv, StartsOK
<1>4. Precarious' => Precarious
  BY <1>2 DEF Precarious, timers, StopOpen, Stopping, Mounted
<1>. QED BY <1>1, <1>3, <1>4, AccountStays DEF ButtonInv

\* Off screen nobody has a role and no timer runs.
LEMMA LeavePreserves == ButtonInv /\ Leave => ButtonInv'
PROOF
<1>. SUFFICES ASSUME ButtonInv, Leave PROVE ButtonInv'
  OBVIOUS
<1>1. /\ sharing' = FALSE /\ starting' = FALSE /\ timer' = 0 /\ loops' = {}
      /\ abandoned' = abandoned + Cardinality(Dangling)
      /\ UNCHANGED <<loopsArmed, loopsOverlapped>>
  BY DEF Leave, Dangling
<1>2. \A g \in Handlers : handler'[g] = IF Free(g) THEN NoHandler ELSE [handler[g] EXCEPT !.mounted = FALSE]
  BY DEF Leave
<1>3. ButtonTyped'
  <2>1. handler' \in [Handlers ->
          [awaits : {"nothing", "share", "position", "post", "stop"},
           first : BOOLEAN, overlapped : BOOLEAN, mounted : BOOLEAN]]
    BY DEF Leave, NoHandler, ButtonInv, ButtonTyped
  <2>2. abandoned' \in Nat
    BY <1>1, LoopsAreFinite DEF ButtonInv, ButtonTyped
  <2>. QED BY <1>1, <2>1, <2>2 DEF ButtonInv, ButtonTyped
<1>4. \A g \in Handlers : ~Asking(g)' /\ ~Stopping(g)' /\ ~Clean(g)'
  <2>. TAKE g \in Handlers
  <2>1. CASE Free(g)
    <3>1. handler'[g] = NoHandler
      BY <1>2, <2>1
    <3>. QED BY <3>1 DEF Asking, Stopping, Clean, NoHandler
  <2>2. CASE ~Free(g)
    <3>1. ~handler'[g].mounted
      BY <1>2, <2>2 DEF ButtonInv, ButtonTyped
    <3>. QED BY <3>1 DEF Asking, Stopping, Clean, Mounted
  <2>. QED BY <2>1, <2>2
<1>5. StartsOK'
  BY <1>4 DEF StartsOK
<1>6. Dangling' = {} /\ Credit' = 0
  BY <1>1 DEF Dangling, Credit, Precarious
<1>7. Cardinality(Dangling)' = 0
  BY <1>6, FS_EmptySet
<1>8. Credit \in Nat /\ Cardinality(Dangling) \in Nat
  BY LoopsAreFinite DEF Credit, ButtonInv
<1>9. Accounted'
  BY <1>1, <1>6, <1>7, <1>8 DEF ButtonInv, ButtonTyped, Accounted
<1>. QED BY <1>3, <1>5, <1>9 DEF ButtonInv

LEMMA ButtonInvInit == ButtonInit => ButtonInv
<1>. SUFFICES ASSUME ButtonInit PROVE ButtonInv
  OBVIOUS
<1>1. ButtonTyped
  BY DEF ButtonInit, ButtonTyped, NoHandler
<1>2. StartsOK
  BY DEF ButtonInit, StartsOK, Asking, Clean, NoHandler
<1>3. Dangling = {} /\ Credit = 0
  BY DEF ButtonInit, Dangling, Credit, Precarious
<1>4. Cardinality(Dangling) = 0
  BY <1>3, FS_EmptySet
<1>5. Accounted
  BY <1>3, <1>4 DEF ButtonInit, Accounted
<1>. QED BY <1>1, <1>2, <1>5 DEF ButtonInv

LEMMA ButtonInvStep == ButtonInv /\ [ButtonNext]_buttonVars => ButtonInv'
<1>. SUFFICES ASSUME ButtonInv, [ButtonNext]_buttonVars PROVE ButtonInv'
  OBVIOUS
<1>1. ASSUME NEW h \in Handlers, Tick(h) PROVE ButtonInv'
  <2>1. ~Asking(h) /\ ~Stopping(h)
    BY <1>1 DEF Tick, Free, NoHandler, Asking, Stopping
  <2>. QED BY <1>1, <2>1, AwaitsPreserves DEF Tick
<1>2. ASSUME NEW h \in Handlers, Stop(h) PROVE ButtonInv'
  <2>1. ~Asking(h) /\ Mounted(h)
    BY <1>2 DEF Stop, Free, NoHandler, Asking, Mounted
  <2>. QED BY <1>2, <2>1, StopBeginsPreserves DEF Stop
<1>3. ASSUME NEW h \in Handlers, Located(h) PROVE ButtonInv'
  <2>1. ~Asking(h) /\ ~Stopping(h) /\ sharing \in BOOLEAN
    BY <1>3 DEF Located, Asking, Stopping, ButtonInv, ButtonTyped
  <2>2. CASE handler' = [handler EXCEPT ![h].awaits = "post"] /\ UNCHANGED <<sharing, starting, timers>>
    BY <2>1, <2>2, AwaitsPreserves
  <2>3. CASE handler[h].mounted /\ StopBegins(h)
    BY <2>1, <2>3, StopBeginsPreserves DEF Mounted
  <2>4. CASE UNCHANGED sharing /\ Pushed(h)
    BY <2>1, <2>4, PushedPreserves
  <2>. QED BY <1>3, <2>2, <2>3, <2>4 DEF Located
<1>4. ASSUME NEW h \in Handlers, Posted(h) PROVE ButtonInv'
  <2>1. ~Asking(h) /\ sharing \in BOOLEAN
    BY <1>4 DEF Posted, Asking, ButtonInv, ButtonTyped
  <2>. QED BY <1>4, <2>1, PushedPreserves DEF Posted
<1>5. ASSUME NEW h \in Handlers, Stopped(h) PROVE ButtonInv'
  <2>1. /\ ~Asking(h) /\ sharing' \in BOOLEAN
        /\ sharing' = sharing \/ Stopping(h)
    BY <1>5 DEF Stopped, Asking, Stopping, Mounted, ButtonInv, ButtonTyped
  <2>. QED BY <1>5, <2>1, PushedPreserves DEF Stopped
<1>6. CASE UNCHANGED buttonVars
  BY <1>6 DEF buttonVars, timers, ButtonInv, ButtonTyped, StartsOK, Accounted, Dangling, Credit, Precarious,
           StopOpen, Asking, Stopping, Clean, Mounted
<1>. QED BY <1>1, <1>2, <1>3, <1>4, <1>5, <1>6, LeavePreserves, SharePreserves, SharedPreserves
         DEF ButtonNext

LEMMA ButtonInvariance == ButtonSpec => []ButtonInv
BY ButtonInvInit, ButtonInvStep, PTL DEF ButtonSpec

LEMMA StraysFollow == ButtonInv => StraysComeFromOverlaps
<1>. SUFFICES ASSUME ButtonInv PROVE Cardinality(Strays) + abandoned <= loopsOverlapped
  BY DEF StraysComeFromOverlaps
<1>1. /\ Cardinality(Dangling) \in Nat /\ abandoned \in Nat /\ loopsOverlapped \in Nat
      /\ Cardinality(loops) = Cardinality(Dangling) + (IF timer = 0 THEN 0 ELSE 1)
      /\ Cardinality(Dangling) + abandoned + Credit <= loopsOverlapped
  BY LoopsAreFinite DEF ButtonInv, ButtonTyped, Accounted
<1>2. CASE sharing
  BY <1>1, <1>2 DEF Strays, Dangling, Credit
<1>3. CASE ~sharing
  BY <1>1, <1>3 DEF Strays, Credit, Precarious
<1>. QED BY <1>2, <1>3

(***************************************************************************)
(* A loop that posts the position of a trip nobody shares any more, or     *)
(* that no button can stop, goes back to a start that was open together    *)
(* with a stop: however many taps, denials and stops overlap and however   *)
(* often the rider leaves the screen.                                      *)
(***************************************************************************)
THEOREM StraysArePaidFor == ButtonSpec => []StraysComeFromOverlaps
BY StraysFollow, ButtonInvariance, PTL

\* The numbers of the button stay below their bounds: a start that is open has
\* its timer set aside.
ButtonFits ==
  /\ abandoned + Cardinality(loops) <= loopsArmed
  /\ loopsArmed + Cardinality(Starts) <= MaxLoops
  /\ loopsOverlapped <= loopsArmed

LEMMA ButtonFitsInit == ButtonInit => ButtonFits
<1>. SUFFICES ASSUME ButtonInit PROVE ButtonFits
  OBVIOUS
<1>1. Starts = {} /\ loops = {}
  BY DEF ButtonInit, Starts, NoHandler
<1>2. Cardinality({}) = 0
  BY FS_EmptySet
<1>. QED BY <1>1, <1>2, ButtonLimits DEF ButtonInit, ButtonFits

\* Handlers that go on leave the starts as they are or end one.
LEMMA FitsWithFewer ==
  ASSUME ButtonInv, ButtonFits, Starts' \subseteq Starts, loops' \subseteq loops,
         UNCHANGED <<abandoned, loopsArmed, loopsOverlapped>>
  PROVE  ButtonFits'
<1>1. IsFiniteSet(Starts) /\ IsFiniteSet(loops)
  BY ButtonLimits, FS_Subset, LoopsAreFinite DEF Starts, ButtonInv
<1>2. /\ Cardinality(Starts)' <= Cardinality(Starts) /\ Cardinality(loops)' <= Cardinality(loops)
      /\ Cardinality(Starts) \in Nat /\ Cardinality(Starts)' \in Nat
      /\ Cardinality(loops) \in Nat /\ Cardinality(loops)' \in Nat
  BY <1>1, FS_Subset, FS_CardinalityType
<1>. QED BY <1>2, ButtonLimits DEF ButtonFits, ButtonInv, ButtonTyped

\* The timer a push arms takes the place of its start.
LEMMA FitsWhenPushed ==
  ASSUME ButtonInv, ButtonFits, NEW h \in Handlers, Pushed(h)
  PROVE  ButtonFits'
<1>1. Starts' = Starts \ {h}
  BY DEF Pushed, End, Starts, NoHandler, ButtonInv, ButtonTyped
<1>2. CASE UNCHANGED timers
  BY <1>1, <1>2, FitsWithFewer DEF timers
<1>3. CASE handler[h].first /\ Arm(h)
  <2>1. IsFiniteSet(Starts) /\ h \in Starts
    BY <1>3, ButtonLimits, FS_Subset DEF Starts
  <2>2. Cardinality(Starts)' = Cardinality(Starts) - 1 /\ Cardinality(Starts) \in Nat
    BY <1>1, <2>1, FS_RemoveElement, FS_CardinalityType
  <2>3. IsFiniteSet(loops) /\ loopsArmed + 1 \notin loops
    BY LoopsAreFinite DEF ButtonInv, ButtonTyped
  <2>4. loops' = loops \cup {loopsArmed + 1} /\ loopsArmed' = loopsArmed + 1 /\ abandoned' = abandoned
        /\ loopsOverlapped' = loopsOverlapped + IF handler[h].overlapped THEN 1 ELSE 0
    BY <1>3 DEF Arm
  <2>5. Cardinality(loops)' = Cardinality(loops) + 1 /\ Cardinality(loops) \in Nat
    BY <2>3, <2>4, FS_AddElement, FS_CardinalityType
  <2>. QED BY <2>2, <2>4, <2>5, ButtonLimits DEF ButtonFits, ButtonInv, ButtonTyped
<1>. QED BY <1>2, <1>3 DEF Pushed

LEMMA FitsWhenStopping ==
  ASSUME ButtonInv, ButtonFits, NEW h \in Handlers, StopBegins(h)
  PROVE  ButtonFits'
<1>1. /\ handler' = [g \in Handlers |->
           IF g = h THEN [handler[h] EXCEPT !.awaits = "stop"]
           ELSE [handler[g] EXCEPT !.overlapped = handler[g].first]]
      /\ loops' \subseteq loops /\ UNCHANGED <<abandoned, loopsArmed, loopsOverlapped>>
  BY DEF StopBegins
<1>2. \A g \in Handlers : handler'[g].first = handler[g].first
  BY <1>1 DEF ButtonInv, ButtonTyped
<1>3. Starts' = Starts
  BY <1>2 DEF Starts
<1>. QED BY <1>1, <1>3, FitsWithFewer

LEMMA ButtonFitsStep == ButtonInv /\ ButtonFits /\ [ButtonNext]_buttonVars => ButtonFits'
<1>. SUFFICES ASSUME ButtonInv, ButtonFits, [ButtonNext]_buttonVars PROVE ButtonFits'
  OBVIOUS
<1>1. ASSUME NEW h \in Handlers, Share(h) PROVE ButtonFits'
  <2>1. /\ handler' = [handler EXCEPT ![h] =
             [NoHandler EXCEPT !.awaits = "share", !.first = TRUE, !.overlapped = StopOpen]]
        /\ Free(h) /\ loopsArmed + Cardinality(Starts) < MaxLoops
        /\ UNCHANGED <<timer, loops, abandoned, loopsArmed, loopsOverlapped>>
    BY <1>1 DEF Share, timers
  <2>2. h \notin Starts
    BY <2>1 DEF Free, Starts, NoHandler
  <2>3. Starts' = Starts \cup {h}
    BY <2>1 DEF Starts, NoHandler, ButtonInv, ButtonTyped
  <2>4. IsFiniteSet(Starts)
    BY ButtonLimits, FS_Subset DEF Starts
  <2>5. Cardinality(Starts)' = Cardinality(Starts) + 1 /\ Cardinality(Starts) \in Nat
    BY <2>2, <2>3, <2>4, FS_AddElement, FS_CardinalityType
  <2>. QED BY <2>1, <2>5, ButtonLimits DEF ButtonFits, ButtonInv, ButtonTyped
<1>2. ASSUME NEW h \in Handlers, Shared(h) PROVE ButtonFits'
  <2>1. UNCHANGED <<timer, loops, abandoned, loopsArmed, loopsOverlapped>>
        /\ (handler' = [handler EXCEPT ![h] = NoHandler]
            \/ handler' = [handler EXCEPT ![h].awaits = "position"])
    BY <1>2 DEF Shared, End, timers
  <2>2. Starts' \subseteq Starts
    BY <2>1 DEF Starts, NoHandler, ButtonInv, ButtonTyped
  <2>. QED BY <2>1, <2>2, FitsWithFewer
<1>3. ASSUME NEW h \in Handlers, NEW o \in {"position", "post"}, UNCHANGED timers,
             handler' = [handler EXCEPT ![h].awaits = o]
      PROVE  ButtonFits'
  <2>1. Starts' \subseteq Starts
    BY <1>3 DEF Starts, ButtonInv, ButtonTyped
  <2>. QED BY <1>3, <2>1, FitsWithFewer DEF timers
<1>4. CASE Leave
  <2>1. Starts' \subseteq Starts
    BY <1>4 DEF Leave, Starts, NoHandler, ButtonInv, ButtonTyped
  <2>2. IsFiniteSet(Starts)
    BY ButtonLimits, FS_Subset DEF Starts
  <2>3. /\ Cardinality(Starts)' <= Cardinality(Starts)
        /\ Cardinality(Starts) \in Nat /\ Cardinality(Starts)' \in Nat
    BY <2>1, <2>2, FS_Subset, FS_CardinalityType
  <2>4. /\ Cardinality(Dangling) \in Nat
        /\ Cardinality(loops) = Cardinality(Dangling) + (IF timer = 0 THEN 0 ELSE 1)
    BY LoopsAreFinite DEF ButtonInv
  <2>5. /\ Cardinality(loops)' = 0 /\ abandoned' = abandoned + Cardinality(Dangling)
        /\ UNCHANGED <<loopsArmed, loopsOverlapped>>
    BY <1>4, FS_EmptySet DEF Leave, Dangling
  <2>. QED BY <2>3, <2>4, <2>5, ButtonLimits DEF ButtonFits, ButtonInv, ButtonTyped
<1>5. CASE UNCHANGED buttonVars
  BY <1>5, FitsWithFewer DEF buttonVars, timers, Starts
<1>6. ASSUME NEW h \in Handlers, Located(h) PROVE ButtonFits'
  BY <1>3, <1>6, FitsWhenPushed, FitsWhenStopping DEF Located
<1>. QED BY <1>1, <1>2, <1>3, <1>4, <1>5, <1>6, FitsWhenPushed, FitsWhenStopping
        DEF ButtonNext, Tick, Stop, Posted, Stopped

LEMMA ButtonIsTyped == ButtonInv /\ ButtonFits => ButtonTypeOK
BY DEF ButtonInv, ButtonTyped, ButtonFits, ButtonTypeOK

-----------------------------------------------------------------------------
(***************************************************************************)
(* All of them side by side, as they are run: a step of the whole is a     *)
(* step of one part and leaves the others alone.                           *)
(***************************************************************************)
CommuterInv ==
  /\ driven \in BOOLEAN
  /\ IInv
  /\ AlertInv /\ AlertFits
  /\ SharesInv /\ SharesFit
  /\ ButtonInv /\ ButtonFits
  /\ QueueInv

LEMMA CommuterInvInit == MCInit => CommuterInv
BY InitInv, AlertInvInit, AlertFitsInit, SharesInvInit, SharesFitInit, ButtonInvInit, ButtonFitsInit,
   QueueInvInit DEF MCInit, CommuterInv

LEMMA CommuterInvStep ==
  CommuterInv /\ [MCNext]_mcVars => CommuterInv'
<1>. SUFFICES ASSUME CommuterInv, [MCNext]_mcVars PROVE CommuterInv'
  OBVIOUS
<1>1. /\ [Next]_vars /\ [AlertsNext]_alertVars /\ [SharesNext]_shareVars
      /\ [ButtonNext]_buttonVars /\ [QueueNext]_queueVars
  BY DEF MCNext, mcVars, serviceVars, phoneVars
<1>2. IInv'
  BY <1>1, TypeStep, FreshStep, ReadsStep, RowsStep, SentStep, ToldStep DEF CommuterInv, IInv
<1>3. AlertInv' /\ AlertFits'
  BY <1>1, AlertInvStep, AlertFitsStep DEF CommuterInv
<1>4. SharesInv' /\ SharesFit'
  BY <1>1, SharesInvStep, SharesFitStep DEF CommuterInv
<1>5. ButtonInv' /\ ButtonFits'
  BY <1>1, ButtonInvStep, ButtonFitsStep DEF CommuterInv
<1>6. QueueInv'
  BY <1>1, QueueInvStep DEF CommuterInv
<1>7. driven' \in BOOLEAN
  BY DEF MCNext, EventsStop, EventsResume, mcVars, CommuterInv
<1>. QED BY <1>2, <1>3, <1>4, <1>5, <1>6, <1>7 DEF CommuterInv

LEMMA CommuterInvariance == MCSpec => []CommuterInv
BY CommuterInvInit, CommuterInvStep, PTL DEF MCSpec

(***************************************************************************)
(* Journeys, alerts, shares, the sharing button and the analytics queue    *)
(* stay within their types and bounds, whichever of them steps when.       *)
(***************************************************************************)
THEOREM CommuterTypes == MCSpec => []AllTypesOK
<1>1. CommuterInv => AllTypesOK
  BY AlertsTyped, ButtonIsTyped DEF CommuterInv, AllTypesOK, IInv, SharesFit, QueueInv
<1>. QED BY <1>1, CommuterInvariance, PTL

(***************************************************************************)
(* What the run checks of them holds of the whole, not only of each alone. *)
(***************************************************************************)
THEOREM CommuterHolds ==
  MCSpec => [](/\ AlertFiresOnce /\ LiveSharesComeFromRaces /\ StraysComeFromOverlaps
               /\ NothingKeptAfterWithdrawal /\ StoredAgainOnlyIfUnanswered)
<1>1. CommuterInv => /\ AlertFiresOnce /\ LiveSharesComeFromRaces /\ StraysComeFromOverlaps
                     /\ NothingKeptAfterWithdrawal /\ StoredAgainOnlyIfUnanswered
  BY StraysFollow DEF CommuterInv, AlertInv, ListedAreUntold, AlertFiresOnce, SharesInv, LivePaid,
                      LiveSharesComeFromRaces, QueueInv
<1>. QED BY <1>1, CommuterInvariance, PTL
=============================================================================
