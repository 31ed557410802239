--------------------------- MODULE DelayRefinement ---------------------------
(***************************************************************************)
(* LlmDelayRefinementScheduler and LlmEnhancedDelayEstimator: language     *)
(* models nudge the delay learned from journeys.  A cycle is one           *)
(* transaction over the busiest buckets, which asks the providers in turn  *)
(* for each; riders are shown the baseline, moved towards a refinement     *)
(* that is fresh, within a bound.                                          *)
(*                                                                         *)
(* A bucket is an hour and a kind of day; the baseline of an hour comes    *)
(* from all its journeys, of whatever kind of day; the hours here lie too  *)
(* far apart to share journeys.  A reply moves what the model was told by  *)
(* one of Nudges, or is none that can be used.                             *)
(***************************************************************************)
EXTENDS Integers, Sequences, FiniteSets, FiniteSetsExt, SequencesExt

CONSTANTS Providers, Nudges, Delays,
          MinSamples, MaxBuckets, MaxAge,
          LeastBound,                 \* the bound, when the baseline is near zero
          MaxClock, MaxRides, MaxAborts \* bounds: the clock, changes of the history, failed cycles

\* The baseline starts at the worst of Delays.
RefinementBounds ==
  /\ Providers \in Nat /\ MaxBuckets \in Nat /\ MaxAge \in Nat /\ LeastBound \in Nat
  /\ MaxClock \in Nat /\ MaxRides \in Nat /\ MaxAborts \in Nat
  /\ Nudges \subseteq Int /\ Delays \subseteq Int
  /\ \E worst \in Delays : \A d \in Delays : d <= worst

VARIABLES
  hourly,     \* the median delay of each hour
  trips,      \* the journeys of each bucket
  rides,      \* journeys that came or grew too old so far
  refined,    \* llm_delay_refinements: of each bucket a refinement, if any
  pass,       \* the cycle under way, if any
  refinerClock, lastPass, abortedPasses,
  derived     \* the baseline each row was derived from

refinementVars == <<hourly, trips, rides, refined, pass, refinerClock, lastPass, abortedPasses, derived>>

Hours == {1, 2}
Buckets == Hours \X {"weekday", "weekend"}
Refinements == [adjusted : Int, at : -1..MaxClock]

RefinementTypeOK ==
  /\ \A h \in Hours : hourly[h] \in Delays
  /\ \A b \in Buckets : trips[b] \in Nat /\ refined[b] \subseteq Refinements /\ Cardinality(refined[b]) <= 1
  /\ \A p \in pass : ToSet(p.todo) \subseteq Buckets /\ p.at \in 0..MaxClock
  /\ refinerClock \in 0..MaxClock /\ rides \in 0..MaxRides /\ abortedPasses \in 0..MaxAborts

\* An hour may have been refined before.
RefinementInit ==
  /\ hourly = [h \in Hours |-> Max(Delays)]
  /\ \E weekend \in {0, 1} :
       trips = [b \in Buckets |-> IF b = <<1, "weekday">> THEN 1 ELSE IF b = <<1, "weekend">> THEN weekend
                                  ELSE IF b = <<2, "weekday">> THEN 2 ELSE 0]
  /\ rides = 0
  /\ \E new \in {{}} \cup {{[adjusted |-> Max(Delays) + n, at |-> -1]} : n \in Nudges} :
       /\ refined = [b \in Buckets |-> IF b = <<2, "weekday">> THEN new ELSE {}]
       /\ derived = [b \in Buckets |-> IF refined[b] = {} THEN {} ELSE {Max(Delays)}]
  /\ pass = {} /\ refinerClock = 0 /\ lastPass = -1 /\ abortedPasses = 0

\* DelayPredictionService: the plain history of the hour.
Samples(hour) == trips[<<hour, "weekday">>] + trips[<<hour, "weekend">>]
Baseline(b) == IF Samples(b[1]) = 0 THEN 0 ELSE hourly[b[1]]

\* LlmDelayRefinementRepository.get: not older than MaxAge.
Fresh(b, now) == {row \in refined[b] : row.at >= now - MaxAge}

AtLeast(x, y) == Max({x, y})
AtMost(x, y) == Min({x, y})
Size(x) == AtLeast(x, 0 - x)
Bound(baseline) == AtLeast(LeastBound, Size(baseline) \div 2)

\* LlmEnhancedDelayEstimator.estimate
Estimates(b, now) ==
  LET nudge(row) == AtLeast(0 - Bound(Baseline(b)), AtMost(Bound(Baseline(b)), row.adjusted - Baseline(b)))
  IN IF Samples(b[1]) = 0 \/ Fresh(b, now) = {} THEN {Baseline(b)}
     ELSE {Baseline(b) + nudge(row) : row \in Fresh(b, now)}

\* Slip: the estimator that riders ask is refined, and not the baseline.
BaselineRefined(b) == CHOOSE e \in Estimates(b, refinerClock) : TRUE

\* The worker gives the refiner an estimator of its own, without refinements.
TellBaseline(b) == Baseline(b)

-----------------------------------------------------------------------------
\* complete_json: an answer that can be used, or none; all providers alike.
Replies == {{}} \cup {{n} : n \in Nudges}

\* MultiProviderLlmClient: the first reply that can be used, if any.
FirstReply(replies) ==
  LET usable == {k \in DOMAIN replies : replies[k] # {}}
  IN IF usable = {} THEN {} ELSE replies[Min(usable)]

\* _active_buckets: the busiest, in any order among equals.
ActiveBuckets ==
  LET busy == {b \in Buckets : trips[b] > 0}
  IN {SubSeq(order, 1, AtMost(MaxBuckets, Len(order))) :
        order \in {s \in SetToSeqs(busy) : \A j, k \in DOMAIN s : j < k => trips[s[j]] >= trips[s[k]]}}

\* The worker makes a client of the providers it has a key of, if of any.
Configured == Providers > 0

\* One cycle at a time.
BeginPass ==
  /\ Configured /\ pass = {} /\ lastPass < refinerClock
  /\ \E todo \in ActiveBuckets :
       pass' = {[at |-> refinerClock, todo |-> todo, staged |-> refined, told |-> derived]}
  /\ UNCHANGED <<hourly, trips, rides, refined, refinerClock, lastPass, abortedPasses, derived>>

TooFew ==
  \E p \in pass :
    /\ p.todo # <<>> /\ Samples(Head(p.todo)[1]) < MinSamples
    /\ pass' = {[p EXCEPT !.todo = Tail(@)]}
    /\ UNCHANGED <<hourly, trips, rides, refined, refinerClock, lastPass, abortedPasses, derived>>

\* complete_json, and upsert; a bucket without a usable reply is passed over.
Refine(reply) ==
  \E p \in pass :
    LET b == Head(p.todo)
        new == {[adjusted |-> TellBaseline(b) + n, at |-> p.at] : n \in reply}
    IN /\ p.todo # <<>> /\ Samples(b[1]) >= MinSamples
       /\ pass' = {[p EXCEPT !.todo = Tail(@),
                             !.staged[b] = IF new = {} THEN @ ELSE new,
                             !.told[b] = IF new = {} THEN @ ELSE {Baseline(b)}]}
       /\ UNCHANGED <<hourly, trips, rides, refined, refinerClock, lastPass, abortedPasses, derived>>

CommitPass ==
  \E p \in pass :
    /\ p.todo = <<>>
    /\ refined' = p.staged /\ derived' = p.told
    /\ pass' = {} /\ lastPass' = p.at
    /\ UNCHANGED <<hourly, trips, rides, refinerClock, abortedPasses>>

\* Anything else that fails rolls back the cycle.
AbortPass ==
  /\ abortedPasses < MaxAborts /\ abortedPasses' = abortedPasses + 1
  /\ pass' = {} /\ lastPass' \in {p.at : p \in pass}
  /\ UNCHANGED <<hourly, trips, rides, refined, refinerClock, derived>>

\* A journey is completed, or is older than the predictor looks back.
Travel ==
  /\ rides < MaxRides /\ rides' = rides + 1
  /\ \E b \in Buckets, d \in Delays :
       /\ \/ trips' = [trips EXCEPT ![b] = @ + 1]
          \/ trips[b] > 0 /\ trips' = [trips EXCEPT ![b] = @ - 1]
       /\ hourly' = [hourly EXCEPT ![b[1]] = d]
  /\ UNCHANGED <<refined, pass, refinerClock, lastPass, abortedPasses, derived>>

ClockTicks ==
  /\ refinerClock < MaxClock /\ refinerClock' = refinerClock + 1
  /\ UNCHANGED <<hourly, trips, rides, refined, pass, lastPass, abortedPasses, derived>>

RefinementNext ==
  \/ BeginPass \/ TooFew \/ CommitPass \/ AbortPass \/ Travel \/ ClockTicks
  \/ \E reply \in {FirstReply(replies) : replies \in [1..Providers -> Replies]} : Refine(reply)

RefinementSpec == RefinementInit /\ [][RefinementNext]_refinementVars

-----------------------------------------------------------------------------
(***************************************************************************)
(* A refinement is one nudge away from the history it was derived from,    *)
(* however many cycles have refined it: refinements do not compound.  What *)
(* riders are shown stays within the bound of today's history and on the   *)
(* side of it the model meant; it is the history itself when there is no   *)
(* fresh refinement or no journey left to learn from.                      *)
(***************************************************************************)
DoesNotCompound ==
  \A b \in Buckets : \A row \in refined[b] : \E base \in derived[b] : row.adjusted - base \in Nudges

ShownNearHistory ==
  \A b \in Buckets : \A shown \in Estimates(b, refinerClock) :
    /\ Size(shown - Baseline(b)) <= Bound(Baseline(b))
    /\ \A row \in refined[b] :
         /\ shown > Baseline(b) => row.adjusted > Baseline(b)
         /\ shown < Baseline(b) => row.adjusted < Baseline(b)
    /\ shown # Baseline(b) => Fresh(b, refinerClock) # {} /\ Samples(b[1]) > 0

DelaysAreRefined == DoesNotCompound /\ ShownNearHistory
=============================================================================
