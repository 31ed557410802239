----------------------------- MODULE BoardingAdvice -----------------------------
(***************************************************************************)
(* Which coach to board and which exit to take: the ranking of coaches by  *)
(* crowding and by the exits at the destination, with the reasons given    *)
(* for each, and the ranking of the exits of a station.                    *)
(*                                                                         *)
(* Shares are counted in parts of Whole, and divisions round down.  The    *)
(* route and direction of a row, and those asked for, are the set of the   *)
(* value, or empty; names are numbers, in their order.                     *)
(***************************************************************************)
EXTENDS Integers, Sequences, FiniteSetsExt, SequencesExt

CONSTANTS DefaultCoaches, \* coaches of a train of which nothing more is known
          MinSamples,     \* _MIN_SAMPLES_PER_COACH
          HourWindow,     \* hours around the one asked that count
          HoursInDay

Whole == 10000
Gap(a, b) == IF a < b THEN b - a ELSE a - b

\* recent, hints_for: rows of the route and direction, and rows without one.
Fits(row, asked) ==
  /\ asked.route = {} \/ row.route \subseteq asked.route
  /\ asked.direction = {} \/ row.direction \subseteq asked.direction

-----------------------------------------------------------------------------
(* Crowding                                                                *)

\* Slip: midnight separates the hours around it.
HourDistanceStraight(a, b) == Gap(a, b)

HourDistance(a, b) == Min({Gap(a, b), HoursInDay - Gap(a, b)})

Samples(observations, asked, coach) ==
  SelectSeq(observations, LAMBDA o : /\ Fits(o, asked) /\ o.coach = {coach}
                                     /\ HourDistance(o.hour, asked.hour) <= HourWindow)
Observed(observations, asked, coach) == Len(Samples(observations, asked, coach)) >= MinSamples

\* Fullest at the centre.
Prior(count, coach) ==
  IF count = 1 THEN 6000
  ELSE 4000 + (3500 * ((count - 1) - Gap(2 * coach, count - 1))) \div (count - 1)

Clamp(n) == Max({0, Min({n, Whole})})
Occupancy(observations, asked, count, coach) ==
  LET samples == Samples(observations, asked, coach)
  IN IF ~Observed(observations, asked, coach) THEN Prior(count, coach)
     ELSE Clamp(FoldLeft(LAMBDA sum, o : sum + o.occupancy, 0, samples) \div Len(samples))

-----------------------------------------------------------------------------
(* Coaches                                                                 *)

\* Of the exits that a coach stops at, the first by name.
ExitNames(hints, exits, asked) ==
  LET fit == {h \in ToSet(hints) : Fits(h, asked)}
  IN [c \in {h.coach : h \in fit} |-> Min({exits[h.exit].name : h \in {g \in fit : g.coach = c}})]

\* What riders confirmed counts where no curated hint does.
RiderOnly(hints, exits, riders, asked) == (DOMAIN riders) \ DOMAIN ExitNames(hints, exits, asked)
HintCoaches(hints, exits, riders, asked) ==
  {h.coach : h \in {g \in ToSet(hints) : Fits(g, asked) /\ g.coach >= 0}} \cup RiderOnly(hints, exits, riders, asked)

CoachCount(hinted) == Max({DefaultCoaches} \cup {c + 1 : c \in hinted})

NearestHint(coach, hinted) ==
  CHOOSE h \in hinted : \A g \in hinted : Gap(coach, h) < Gap(coach, g) \/ (Gap(coach, h) = Gap(coach, g) /\ h <= g)
Alignment(coach, hinted) ==
  IF hinted = {} THEN Whole \div 2
  ELSE Whole - (Whole * Gap(coach, NearestHint(coach, hinted))) \div Max({CoachCount(hinted) - 1, 1})

Score(occupancy, alignment) == (6 * (Whole - occupancy) + 4 * alignment) \div 10

\* Coach 0 is for women only: a last resort.
Boardable(hinted) == (0..(CoachCount(hinted) - 1)) \ (IF CoachCount(hinted) > 1 THEN {0} ELSE {})

CrowdReason(occupancy, observed) ==
  IF observed THEN {r \in {"less crowded", "crowded"} : IF r = "crowded" THEN occupancy >= 7000 ELSE occupancy <= 4500}
  ELSE {r \in {"usually lighter"} : occupancy <= 4500}

\* How far the exit is, who says so, and its name if one is known.
ExitReason(coach, hinted, names, riders) ==
  LET Phrase(far, c) == IF c \in DOMAIN names THEN {[far |-> far, by |-> "curated", name |-> {names[c]}, coach |-> c]}
                        ELSE IF c \in DOMAIN riders THEN {[far |-> far, by |-> "riders", name |-> {riders[c]}, coach |-> c]}
                        ELSE {[far |-> far, by |-> "curated", name |-> {}, coach |-> c]}
  IN IF hinted = {} THEN {}
     ELSE IF coach \in hinted THEN Phrase("closest", coach)
     ELSE IF 4 * Alignment(coach, hinted) >= 3 * Whole THEN Phrase("short walk", NearestHint(coach, hinted))
     ELSE {}

RankAmong(observations, asked, hinted, names, riders) ==
  LET occupancy == [c \in Boardable(hinted) |-> Occupancy(observations, asked, CoachCount(hinted), c)]
      aligned == [c \in Boardable(hinted) |-> Alignment(c, hinted)]
      score == [c \in DOMAIN aligned |-> Score(occupancy[c], aligned[c])]
      ranked == SetToSortSeq(DOMAIN score, LAMBDA a, b : score[a] > score[b] \/ (score[a] = score[b] /\ a < b))
  IN [k \in DOMAIN ranked |->
        [coach |-> ranked[k], occupancy |-> occupancy[ranked[k]], alignment |-> aligned[ranked[k]],
         crowd |-> CrowdReason(occupancy[ranked[k]], Observed(observations, asked, ranked[k])),
         exit |-> ExitReason(ranked[k], hinted, names, riders)]]

\* CoachRecommendationService.recommend
RankCoaches(observations, hints, exits, riders, asked) ==
  RankAmong(observations, asked, HintCoaches(hints, exits, riders, asked), ExitNames(hints, exits, asked),
            [c \in RiderOnly(hints, exits, riders, asked) |-> riders[c]])

-----------------------------------------------------------------------------
(* Exits                                                                   *)

Specificity(hint) == Cardinality(hint.route) + Cardinality(hint.direction)

\* The first of the most specific hints of an exit that fit.
BestHint(exit, hints, asked) ==
  LET of == {k \in DOMAIN hints : Fits(hints[k], asked) /\ hints[k].exit = exit}
      best == {k \in of : \A j \in of : Specificity(hints[j]) <= Specificity(hints[k])}
  IN {hints[Min(best)].coach : k \in best}

\* No landmark asked, one that the exit has, or one that it has not.
ExitScore(exit, landmark) == IF landmark = {} THEN 5 ELSE IF landmark \subseteq exit.landmarks THEN 10 ELSE 2

\* ExitService.recommend
RankExits(exits, hints, landmark, asked) ==
  LET Before(a, b) == \/ ExitScore(exits[a], landmark) > ExitScore(exits[b], landmark)
                      \/ /\ ExitScore(exits[a], landmark) = ExitScore(exits[b], landmark)
                         /\ exits[a].name < exits[b].name
      ranked == SetToSortSeq(DOMAIN exits, Before)
  IN [k \in DOMAIN ranked |-> [exit |-> ranked[k], coach |-> BestHint(ranked[k], hints, asked)]]

-----------------------------------------------------------------------------
(***************************************************************************)
(* The first coach is one that anybody may board, and none is emptier and  *)
(* at least as near to an exit.  Words of experience rest on observations  *)
(* of that coach around that hour of the clock, on this line; riders are   *)
(* quoted where nothing is curated, and no exit is named that no hint or   *)
(* rider put there.                                                        *)
(***************************************************************************)
CoachesAreRight(observations, hints, exits, riders, asked) ==
  \E ranked \in {RankCoaches(observations, hints, exits, riders, asked)} :
  LET Close(o) == \E shift \in (-HourWindow)..HourWindow : (o.hour + shift) % HoursInDay = asked.hour
      Evidence(c) == {k \in DOMAIN observations : /\ observations[k].coach = {c}
                                                  /\ Fits(observations[k], asked) /\ Close(observations[k])}
      Curated(c) == {exits[h.exit].name : h \in {g \in ToSet(hints) : Fits(g, asked) /\ g.coach = c}}
  IN /\ ranked[1].coach = 0 => Len(ranked) = 1
     /\ \A k \in DOMAIN ranked : ~ /\ ranked[k].occupancy < ranked[1].occupancy
                                   /\ ranked[k].alignment >= ranked[1].alignment
     /\ \A k \in DOMAIN ranked :
          LET r == ranked[k]
          IN /\ r.crowd \cap {"less crowded", "crowded"} # {} => Cardinality(Evidence(r.coach)) >= MinSamples
             /\ Cardinality(Evidence(r.coach)) >= MinSamples => "usually lighter" \notin r.crowd
             /\ \A said \in r.exit :
                  /\ said.by = "riders" => Curated(said.coach) = {} /\ said.name = {riders[said.coach]}
                  /\ said.by = "curated" => said.name \subseteq Curated(said.coach)

\* The coach of an exit is that of a hint for this line, or a more general
\* one where no hint for this line is; an exit with the landmark comes first.
ExitsAreRanked(exits, hints, landmark, asked) ==
  LET ranked == RankExits(exits, hints, landmark, asked)
      Hints(e) == {h \in ToSet(hints) : h.exit = e /\ Fits(h, asked)}
  IN /\ Len(ranked) = Cardinality(DOMAIN exits)
     /\ \A k \in DOMAIN ranked :
          LET own == {h \in Hints(ranked[k].exit) : h.route # {} /\ h.direction # {}}
          IN /\ (ranked[k].coach = {}) = (Hints(ranked[k].exit) = {})
             /\ own # {} => ranked[k].coach \subseteq {h.coach : h \in own}
     /\ \A k \in 2..Len(ranked) :
          landmark # {} /\ landmark \subseteq exits[ranked[k].exit].landmarks => landmark \subseteq exits[ranked[k - 1].exit].landmarks
==============================================================================
