------------------------------ MODULE RiderData ------------------------------
(***************************************************************************)
(* What the server keeps about its riders besides their journeys: exits    *)
(* and what riders report of them, accounts and their tokens, alerts and   *)
(* the inbox, the nudges of the proactive scheduler and the refinements of *)
(* the delays learned from journeys.  The tables are disjoint, so a step   *)
(* of the whole is a step of one of them.                                  *)
(***************************************************************************)
EXTENDS StationExits, Accounts, Notices, CommuteNudges, DelayRefinement

RiderDataBounds == ExitBounds /\ LabelsAreNoVerbs /\ AccountBounds /\ NoticeBounds /\ NudgeBounds
                     /\ RefinementBounds

RiderDataInit == ExitInit /\ AccountInit /\ NoticeInit /\ NudgeInit /\ RefinementInit

RiderDataNext ==
  \/ ExitNext /\ UNCHANGED <<accountVars, alertVars, inboxVars, nudgeVars, refinementVars>>
  \/ AccountNext /\ UNCHANGED <<exitVars, alertVars, inboxVars, nudgeVars, refinementVars>>
  \/ AlertNext /\ UNCHANGED <<exitVars, accountVars, inboxVars, nudgeVars, refinementVars>>
  \/ InboxNext /\ UNCHANGED <<exitVars, accountVars, alertVars, nudgeVars, refinementVars>>
  \/ NudgeNext /\ UNCHANGED <<exitVars, accountVars, alertVars, inboxVars, refinementVars>>
  \/ RefinementNext /\ UNCHANGED <<exitVars, accountVars, alertVars, inboxVars, nudgeVars>>

riderDataVars == <<exitVars, accountVars, alertVars, inboxVars, nudgeVars, refinementVars>>

RiderDataSpec == RiderDataInit /\ [][RiderDataNext]_riderDataVars

RiderDataTypeOK == ExitTypeOK /\ AccountTypeOK /\ NoticeTypeOK /\ NudgeTypeOK /\ RefinementTypeOK

(***************************************************************************)
(* See the modules: exits of one file and claims that are shown, accounts  *)
(* that recover, alerts that were announced, an inbox that is read, nudges *)
(* that fire once, and delays refined within a bound of their history.     *)
(***************************************************************************)
RiderDataIsRight ==
  ExitsAreRight /\ AccountsAreRight /\ AlertsAreAnnounced /\ OnlyOvertakenAreMissed /\ NudgedOnce
    /\ DelaysAreRefined
=============================================================================
