----------------------------- MODULE FeedClient -----------------------------
(***************************************************************************)
(* GtfsRtClient: a fetch retries a few times; above the retries a circuit  *)
(* breaker fails fast for a cool-down after too many failed fetches in a   *)
(* row.  The scheduled poll and the priming poll may fetch side by side    *)
(* through the same client, so a fetch that began before the circuit       *)
(* opened can still succeed (and close it) or fail (and renew it).         *)
(***************************************************************************)
EXTENDS Naturals

CONSTANTS Fetchers,    \* cycles that may be fetching at one time
          MaxAttempts, \* attempts per fetch
          Threshold,   \* failed fetches in a row that open the circuit
          Cooldown,    \* circuit_reset_seconds, in clock ticks
          MaxOutages   \* how often the upstream goes down

FeedBounds == {MaxAttempts, Threshold} \subseteq Nat \ {0} /\ {Cooldown, MaxOutages} \subseteq Nat

VARIABLES
  up,       \* the upstream answers 200 with a body
  outages,
  failures, \* _consecutive_failures, counted up to Threshold + 1
  cooling,  \* ticks until _circuit_open_until; 0: not open
  attempt,  \* per fetcher: the attempt under way, 0 when idle
  served    \* the last fetch that ended returned a payload (history)

feedVars == <<up, outages, failures, cooling, attempt, served>>

Init ==
  /\ up \in BOOLEAN
  /\ outages = 0
  /\ failures = 0
  /\ cooling = 0
  /\ attempt = [f \in Fetchers |-> 0]
  /\ served = FALSE

GoesDown ==
  /\ up /\ outages < MaxOutages
  /\ up' = FALSE
  /\ outages' = outages + 1
  /\ UNCHANGED <<failures, cooling, attempt, served>>

ComesUp ==
  /\ ~up
  /\ up' = TRUE
  /\ UNCHANGED <<outages, failures, cooling, attempt, served>>

Elapses ==
  /\ cooling > 0
  /\ cooling' = cooling - 1
  /\ UNCHANGED <<up, outages, failures, attempt, served>>

CircuitOpen == cooling > 0

\* Slip: failing fast counts as a failure and renews the cool-down.
FailFastCounts(f) ==
  /\ attempt[f] = 0
  /\ CircuitOpen
  /\ cooling' = Cooldown
  /\ served' = FALSE
  /\ UNCHANGED <<up, outages, failures, attempt>>

\* While the circuit is open the fetch fails without a request, and without
\* being counted.
FailFast(f) ==
  /\ attempt[f] = 0
  /\ CircuitOpen
  /\ served' = FALSE
  /\ UNCHANGED <<up, outages, failures, cooling, attempt>>

Start(f) ==
  /\ attempt[f] = 0
  /\ ~CircuitOpen
  /\ attempt' = [attempt EXCEPT ![f] = 1]
  /\ UNCHANGED <<up, outages, failures, cooling, served>>

Succeed(f) ==
  /\ attempt[f] > 0
  /\ up
  /\ failures' = 0
  /\ cooling' = 0
  /\ attempt' = [attempt EXCEPT ![f] = 0]
  /\ served' = TRUE
  /\ UNCHANGED <<up, outages>>

\* Slip: one retry too many.
RetryOnceMore(f) ==
  /\ attempt[f] \in 1..MaxAttempts
  /\ ~up
  /\ attempt' = [attempt EXCEPT ![f] = @ + 1]
  /\ UNCHANGED <<up, outages, failures, cooling, served>>

Retry(f) ==
  /\ attempt[f] \in 1..(MaxAttempts - 1)
  /\ ~up
  /\ attempt' = [attempt EXCEPT ![f] = @ + 1]
  /\ UNCHANGED <<up, outages, failures, cooling, served>>

Counted == IF failures <= Threshold THEN failures + 1 ELSE failures

\* The last attempt failed: the fetch counts, and may open the circuit.
GiveUp(f) ==
  /\ attempt[f] = MaxAttempts
  /\ ~up
  /\ failures' = Counted
  /\ cooling' = IF Counted >= Threshold THEN Cooldown ELSE cooling
  /\ attempt' = [attempt EXCEPT ![f] = 0]
  /\ served' = FALSE
  /\ UNCHANGED <<up, outages>>

Goon(f) == Start(f) \/ Succeed(f) \/ Retry(f) \/ GiveUp(f)

Next == GoesDown \/ ComesUp \/ Elapses \/ \E f \in Fetchers : FailFast(f) \/ Goon(f)

\* The clock runs, polls are scheduled for ever and requests time out.
Fairness ==
  /\ WF_feedVars(Elapses)
  /\ \A f \in Fetchers : WF_feedVars(Goon(f))

Spec == Init /\ [][Next]_feedVars /\ Fairness

TypeOK ==
  /\ up \in BOOLEAN /\ outages \in 0..MaxOutages
  /\ failures \in 0..(Threshold + 1)
  /\ cooling \in 0..Cooldown
  /\ attempt \in [Fetchers -> 0..MaxAttempts]
  /\ served \in BOOLEAN

(***************************************************************************)
(* The circuit is open only while every fetch that has ended since the     *)
(* last payload failed, and as many were counted as it takes: a payload    *)
(* that arrives late closes it, whoever opened it in the meantime.         *)
(***************************************************************************)
OpensForCause == CircuitOpen => failures >= Threshold /\ ~served

(***************************************************************************)
(* The breaker never stays shut for good and never stays open for good:    *)
(* once the upstream is back for good, some poll gets a payload again,     *)
(* however many fetches had failed, side by side or one after another.     *)
(***************************************************************************)
FeedComesBack == <>[]up => []<>served
=============================================================================
