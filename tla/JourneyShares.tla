---------------------------- MODULE JourneyShares ----------------------------
(***************************************************************************)
(* The public shares of one journey (journey_share.py): created or reused, *)
(* fed with the sharer's position and stopped through the API, expired by  *)
(* SHARE_TTL, and cleaned of their position by an hourly worker job.       *)
(*                                                                         *)
(* Transactions behave as in module Journeys; a request that reads and     *)
(* later commits holds no lock in between.  Shares are numbered in the     *)
(* order of creation.                                                      *)
(***************************************************************************)
EXTENDS Naturals, FiniteSets, FiniteSetsExt

CONSTANTS
  Devices,    \* API requests that may be open at once
  MaxShares   \* bound on the shares created

ASSUME ShareLimit == MaxShares \in Nat

VARIABLES
  riding,     \* the journey's row is active
  share,      \* life of every share: "none", "live", "expired", or "old",
              \* past expiry by more than share_position_retention_hours
  positioned, \* shares whose row holds a position
  open,       \* the API requests in progress
  overlaps    \* creates that committed after another one they did not see

shareVars == <<riding, share, positioned, open, overlaps>>

Shares == 1..MaxShares
NoTap == [op |-> "idle", id |-> 0, overlapped |-> FALSE]

Existing == {s \in Shares : share[s] # "none"}
Live == {s \in Shares : share[s] = "live"}

SharesTypeOK ==
  /\ riding \in BOOLEAN
  /\ share \in [Shares -> {"none", "live", "expired", "old"}]
  /\ positioned \subseteq Existing
  /\ open \in [Devices -> [op : {"idle", "creating", "moving", "stopping"},
                           id : 0..MaxShares, overlapped : BOOLEAN]]
  /\ overlaps \in Nat

SharesInit ==
  /\ riding = TRUE
  /\ share = [s \in Shares |-> "none"]
  /\ positioned = {}
  /\ open = [d \in Devices |-> NoTap]
  /\ overlaps = 0

\* Any way the journey leaves "active" (JourneyService._finish).
JourneyEnds ==
  /\ riding
  /\ riding' = FALSE
  /\ UNCHANGED <<share, positioned, open, overlaps>>

\* Slip: a share is created whether or not one is live.
CreateReadsJourneyOnly(d) ==
  /\ open[d] = NoTap
  /\ riding
  /\ open' = [open EXCEPT ![d].op = "creating"]
  /\ UNCHANGED <<riding, share, positioned, overlaps>>

\* create_share: the journey is active and no share of it is live.
CreateReads(d) ==
  /\ open[d] = NoTap
  /\ riding /\ Live = {}
  /\ open' = [open EXCEPT ![d].op = "creating"]
  /\ UNCHANGED <<riding, share, positioned, overlaps>>

ShareCommits(d) ==
  LET s == Cardinality(Existing) + 1 IN
  /\ open[d].op = "creating"
  /\ s \in Shares
  /\ share' = [share EXCEPT ![s] = "live"]
  /\ overlaps' = overlaps + IF open[d].overlapped THEN 1 ELSE 0
  /\ open' = [e \in Devices |->
       IF e = d THEN NoTap
       ELSE IF open[e].op = "creating" THEN [open[e] EXCEPT !.overlapped = TRUE]
       ELSE open[e]]
  /\ UNCHANGED <<riding, positioned>>

\* live_for_journey: the newest live share.
PositionReads(d) ==
  /\ open[d] = NoTap
  /\ riding /\ Live # {}
  /\ open' = [open EXCEPT ![d] = [NoTap EXCEPT !.op = "moving", !.id = Max(Live)]]
  /\ UNCHANGED <<riding, share, positioned, overlaps>>

PositionCommits(d) ==
  /\ open[d].op = "moving"
  /\ positioned' = positioned \cup {open[d].id}
  /\ open' = [open EXCEPT ![d] = NoTap]
  /\ UNCHANGED <<riding, share, overlaps>>

\* stop_share asks for no active journey.
StopReads(d) ==
  /\ open[d] = NoTap
  /\ Live # {}
  /\ open' = [open EXCEPT ![d] = [NoTap EXCEPT !.op = "stopping", !.id = Max(Live)]]
  /\ UNCHANGED <<riding, share, positioned, overlaps>>

StopCommits(d) ==
  /\ open[d].op = "stopping"
  /\ share' = [share EXCEPT ![open[d].id] = "expired"]
  /\ open' = [open EXCEPT ![d] = NoTap]
  /\ UNCHANGED <<riding, positioned, overlaps>>

TapFails(d) ==
  /\ open[d] # NoTap
  /\ open' = [open EXCEPT ![d] = NoTap]
  /\ UNCHANGED <<riding, share, positioned, overlaps>>

\* SHARE_TTL passes.
Expires(s) ==
  /\ share[s] = "live"
  /\ share' = [share EXCEPT ![s] = "expired"]
  /\ UNCHANGED <<riding, positioned, open, overlaps>>

\* The grace hours pass; no request stays open that long.
GraceEnds(s) ==
  /\ share[s] = "expired"
  /\ \A d \in Devices : open[d].id # s
  /\ share' = [share EXCEPT ![s] = "old"]
  /\ UNCHANGED <<riding, positioned, open, overlaps>>

\* Slip: only the shares of ended journeys are cleaned.
ForgetEnded ==
  /\ positioned' = {s \in positioned : share[s] # "old" \/ riding}
  /\ UNCHANGED <<riding, share, open, overlaps>>

\* forget_expired_share_positions, every hour.
Forget ==
  /\ positioned' = {s \in positioned : share[s] # "old"}
  /\ UNCHANGED <<riding, share, open, overlaps>>

TapStep(d) == ShareCommits(d) \/ PositionCommits(d) \/ StopCommits(d)

SharesNext ==
  \/ JourneyEnds \/ Forget
  \/ \E d \in Devices :
       CreateReads(d) \/ PositionReads(d) \/ StopReads(d) \/ TapStep(d) \/ TapFails(d)
  \/ \E s \in Shares : Expires(s) \/ GraceEnds(s)

SharesSpec == SharesInit /\ [][SharesNext]_shareVars

-----------------------------------------------------------------------------
\* public_view: the position is shown whatever the status is.
PublicView(s) ==
  [status |-> IF share[s] # "live" THEN "expired" ELSE IF ~riding THEN "ended" ELSE "active",
   position |-> s \in positioned]

\* More than one live share, so that stop_share leaves one public, only comes
\* from creates that raced with each other.
LiveSharesComeFromRaces == Cardinality(Live) <= 1 + overlaps

\* What the public link shows of a position, also after the rider has stopped
\* the share, is erased in the end (forget_expired_share_positions); it is
\* also when it was written after the share had expired.
PositionsAreForgotten == \A s \in Shares : PublicView(s).position ~> ~PublicView(s).position
=============================================================================
