------------------------------- MODULE Accounts -------------------------------
(***************************************************************************)
(* A phone, its account and a favourite.  An account belongs to a device   *)
(* and has one token: registering a device again rotates the token, which  *)
(* is how a lost one is recovered.  The phone does so by itself: when a    *)
(* call is refused it registers, saves the new token and sends the call    *)
(* once more.  Calls of one phone run side by side, and so do their        *)
(* recoveries.  A lost read is repeated, a lost write is not.              *)
(*                                                                         *)
(* Tokens are the numbers in the order in which they are issued; a request *)
(* without a token carries 0.  A favourite station has a label (and a      *)
(* position); a favourite route is the same with a single label.           *)
(***************************************************************************)
EXTENDS Integers, FiniteSets

CONSTANTS ApiCalls, Labels,
          MaxReads,   \* how often the phone repeats a read
          MaxLosses   \* bound: lost requests or answers

\* What a call asks for is one of these, or a label to set; module MCServices
\* assumes that no label reads like one.
Verbs == {"none", "read", "remove", "register"}
LabelsAreNoVerbs == Labels \cap Verbs = {}
AccountBounds == MaxReads \in Nat /\ MaxLosses \in Nat

VARIABLES
  account,    \* the device's row, if any: its token
  issued,     \* the last token issued
  favourite,  \* the row of the favourite, if any: its label
  stored,     \* the token on the phone, or 0
  call,       \* what each call of the phone is at
  losses,
  disturbed   \* the calls next to which another one registered or was about
              \* to save its token, and those whose registration failed

accountVars == <<account, issued, favourite, stored, call, losses, disturbed>>

Steps == {"new", "sent", "known", "looked", "answered", "refused", "registering", "found", "registered",
          "saved", "ended"}
Results == {"none", "ok", "missing", "conflict", "unauthorised", "no answer"}

AccountTypeOK ==
  /\ account \subseteq 1..issued /\ Cardinality(account) <= 1
  /\ favourite \subseteq Labels /\ Cardinality(favourite) <= 1
  /\ stored \in 0..issued
  /\ \A c \in ApiCalls :
       /\ call[c].step \in Steps /\ {call[c].result, call[c].told} \subseteq Results
       /\ call[c].does \in Verbs \cup Labels
       /\ {call[c].token, call[c].fresh} \subseteq 0..issued
       /\ IF call[c].step \in {"found", "registered", "saved"} THEN call[c].seen \subseteq 1..issued
          ELSE Cardinality(call[c].seen) <= 1
       /\ call[c].again \in BOOLEAN /\ call[c].repeats \in 0..MaxReads /\ call[c].applied \in Nat
  /\ losses \in 0..MaxLosses /\ disturbed \subseteq ApiCalls

\* A first launch, a phone that lost its token, a server that lost its
\* accounts, or neither.
AccountInit ==
  /\ account \in {{}, {1}} /\ stored \in {0, 1} /\ issued = 1
  /\ favourite = {}
  /\ call = [c \in ApiCalls |-> [step |-> "new", does |-> "none", token |-> 0, fresh |-> 0, seen |-> {},
                              again |-> FALSE, repeats |-> 0, applied |-> 0, result |-> "none", told |-> "none"]]
  /\ losses = 0 /\ disturbed = {}

Becomes(c, next) == call' = [call EXCEPT ![c] = next]

\* If a call that is sent again fails, the screen is told of the first
\* failure, which was a refusal.
Finish(c, result) ==
  Becomes(c, [call[c] EXCEPT !.step = "ended", !.result = result,
              !.told = IF call[c].again /\ result # "ok" THEN "unauthorised" ELSE result])

\* So is it if the registration fails.
NotRegistered(c) == Finish(c, IF call[c].does = "register" THEN "no answer" ELSE "unauthorised")

-----------------------------------------------------------------------------
(* The phone                                                               *)

\* ensureRegistered, at the start, for a phone without a token.
Open(c) ==
  /\ call[c].step = "new" /\ stored = 0
  /\ Becomes(c, [call[c] EXCEPT !.step = "registering", !.does = "register"])
  /\ UNCHANGED <<account, issued, favourite, stored, losses, disturbed>>

Send(c, what) ==
  /\ call[c].step = "new"
  /\ Becomes(c, [call[c] EXCEPT !.step = "sent", !.does = what, !.token = stored])
  /\ UNCHANGED <<account, issued, favourite, stored, losses, disturbed>>

\* A refused call registers, unless it has been sent again already.
Recover(c) ==
  /\ call[c].step = "refused"
  /\ IF call[c].again THEN Finish(c, "unauthorised") ELSE Becomes(c, [call[c] EXCEPT !.step = "registering"])
  /\ UNCHANGED <<account, issued, favourite, stored, losses, disturbed>>

Save(c) ==
  /\ call[c].step = "registered"
  /\ stored' = call[c].fresh
  /\ IF call[c].does = "register" THEN Finish(c, "ok") ELSE Becomes(c, [call[c] EXCEPT !.step = "saved"])
  /\ UNCHANGED <<account, issued, favourite, losses, disturbed>>

\* With the token that is stored by then.
SendAgain(c) ==
  /\ call[c].step = "saved"
  /\ Becomes(c, [call[c] EXCEPT !.step = "sent", !.token = stored, !.again = TRUE])
  /\ UNCHANGED <<account, issued, favourite, stored, losses, disturbed>>

Deliver(c) ==
  /\ call[c].step = "answered"
  /\ Finish(c, call[c].result)
  /\ UNCHANGED <<account, issued, favourite, stored, losses, disturbed>>

\* Slip: every lost request is repeated.
RepeatAnything(c) == call[c].repeats < MaxReads

MayRepeat(c) == call[c].does = "read" /\ call[c].repeats < MaxReads

\* The request or its answer is lost, a read is repeated.
Lose(c) ==
  /\ losses < MaxLosses /\ losses' = losses + 1
  /\ \/ /\ call[c].step \in {"sent", "refused", "answered"}
        /\ IF MayRepeat(c)
           THEN Becomes(c, [call[c] EXCEPT !.step = "sent", !.repeats = @ + 1, !.seen = {}, !.result = "none"])
           ELSE Finish(c, "no answer")
        /\ UNCHANGED disturbed
     \/ /\ call[c].step \in {"registering", "registered"}
        /\ NotRegistered(c)
        /\ disturbed' = disturbed \cup {c}
  /\ UNCHANGED <<account, issued, favourite, stored>>

-----------------------------------------------------------------------------
(* The server.  Authentication is a transaction of its own; the endpoint   *)
(* reads, and then writes and commits.                                     *)

Authenticate(c) ==
  /\ call[c].step = "sent"
  /\ Becomes(c, [call[c] EXCEPT !.step = IF call[c].token \in account THEN "known" ELSE "refused"])
  /\ UNCHANGED <<account, issued, favourite, stored, losses, disturbed>>

\* get_station, get_route, stations_for; an unknown stop or route is refused.
Look(c) ==
  /\ call[c].step = "known"
  /\ \/ Becomes(c, [call[c] EXCEPT !.step = "looked", !.seen = favourite])
     \/ call[c].does \in Labels /\ Becomes(c, [call[c] EXCEPT !.step = "answered", !.result = "missing"])
  /\ UNCHANGED <<account, issued, favourite, stored, losses, disturbed>>

Answer(c, result) ==
  /\ Becomes(c, [call[c] EXCEPT !.step = "answered", !.result = result])
  /\ UNCHANGED favourite

Write(c, rows) ==
  /\ Becomes(c, [call[c] EXCEPT !.step = "answered", !.result = "ok", !.applied = @ + 1])
  /\ favourite' = rows

Read(c) == call[c].does = "read" /\ Answer(c, "ok")

RemoveFavourite(c) ==
  /\ call[c].does = "remove"
  /\ IF favourite = {} THEN Answer(c, "missing") ELSE Write(c, {})

\* A row that was not there is inserted, a row that was is updated: either
\* may find the opposite by now, and then fails.  No change, no statement.
Set(c) ==
  /\ call[c].does \in Labels
  /\ IF call[c].seen = {call[c].does} THEN Answer(c, "ok")
     ELSE IF (call[c].seen = {}) # (favourite = {}) THEN Answer(c, "conflict")
     ELSE Write(c, {call[c].does})

CommitCall(c) ==
  /\ call[c].step = "looked"
  /\ Read(c) \/ RemoveFavourite(c) \/ Set(c)
  /\ UNCHANGED <<account, issued, stored, losses, disturbed>>

\* register: the row by its device.
Find(c) ==
  /\ call[c].step = "registering"
  /\ Becomes(c, [call[c] EXCEPT !.step = "found", !.seen = account])
  /\ UNCHANGED <<account, issued, favourite, stored, losses, disturbed>>

\* The device id is unique: of two first registrations one fails, and its
\* call with it.
Enrol(c) ==
  /\ call[c].step = "found"
  /\ LET fails == call[c].seen = {} /\ account # {}
     IN /\ account' = IF fails THEN account ELSE {issued + 1}
        /\ issued' = IF fails THEN issued ELSE issued + 1
        /\ IF fails THEN NotRegistered(c) ELSE Becomes(c, [call[c] EXCEPT !.step = "registered", !.fresh = issued + 1])
        /\ disturbed' = IF fails THEN disturbed \cup {c}
                        ELSE disturbed \cup {d \in ApiCalls \ {c} : call[d].step \notin {"new", "ended"}}
                                       \cup {d \in {c} : \E o \in ApiCalls \ {c} : call[o].step = "registered"}
  /\ UNCHANGED <<favourite, stored, losses>>

AccountNext ==
  \E c \in ApiCalls :
    \/ Open(c) \/ Recover(c) \/ Save(c) \/ SendAgain(c) \/ Deliver(c) \/ Lose(c)
    \/ \E what \in {"read", "remove"} \cup Labels : Send(c, what)
    \/ Authenticate(c) \/ Look(c) \/ CommitCall(c) \/ Find(c) \/ Enrol(c)

AccountSpec == AccountInit /\ [][AccountNext]_accountVars

-----------------------------------------------------------------------------
(***************************************************************************)
(* "A 401 is recoverable": a call ends refused only if another call        *)
(* registered while it was under way, or its registration went unanswered; *)
(* and it has changed nothing then.  A screen that is told of a refusal    *)
(* all the same had its call sent again, and that failed otherwise: the    *)
(* change it asked for may have been made only if that answer was lost.    *)
(***************************************************************************)
AloneRecovers ==
  \A c \in ApiCalls :
    /\ call[c].result = "unauthorised" => c \in disturbed /\ call[c].applied = 0
    /\ call[c].told = "unauthorised" /\ call[c].result # "unauthorised" => call[c].again
    /\ call[c].told = "unauthorised" /\ call[c].applied > 0 => call[c].result = "no answer"

(***************************************************************************)
(* A write happens at most once however often the call is sent, and did    *)
(* if the phone was told so.                                               *)
(***************************************************************************)
WrittenOnce ==
  \A c \in ApiCalls :
    /\ call[c].applied <= 1
    /\ call[c].result = "missing" => call[c].applied = 0

(***************************************************************************)
(* The phone does not keep a token that no longer opens its account, once  *)
(* a call has succeeded, unless two calls registered next to each other or *)
(* an answer was lost.                                                     *)
(***************************************************************************)
TokenIsCurrent ==
  /\ disturbed = {}
  /\ \E c \in ApiCalls : call[c].step = "ended" /\ call[c].result = "ok"
  /\ \A c \in ApiCalls : call[c].step \in {"new", "ended"}
  => account = {stored}

AccountsAreRight == AloneRecovers /\ WrittenOnce /\ TokenIsCurrent
=============================================================================
