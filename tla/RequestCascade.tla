---------------------------- MODULE RequestCascade ----------------------------
(***************************************************************************)
(* One Feed request on its way through the cascade: the candidates of the  *)
(* routes are fused (platform/retrieval.py, platform/retrieval_merge.py),  *)
(* ranked in three stages and diversified (platform/ranking.py), possibly  *)
(* with a random slate or one random item (platform/exploration.py,        *)
(* platform/routes/cold_start_exploration.py), the ads beyond the share of *)
(* the cell are replaced (platform/markets/ads.py), and what happened is   *)
(* logged with its probabilities (platform/runtime.py).                    *)
(*                                                                         *)
(* A row has a fixed width; a place holds an item or None.  Scores are     *)
(* hundredths, probabilities numerators over a denominator that is named.  *)
(***************************************************************************)
EXTENDS Integers, SequencesExt, Combinatorics

CONSTANTS Items, None,
          Ads, ColdVideos,               \* AD; SHORT_VIDEO in cold start
          CreatorOf, KindOf, Merit,      \* what diversity and learned scorers see
          Routes, ColdRoute, AdsRoute,
          RouteRows,                     \* RouteRows[r]: what route r may return
          RouteK, RecallK, CoarseK, FineK, ExposeK,
          Contribution,                  \* of a rank to the fused score
          Whole,                         \* rates are parts of Whole
          Policies

CreatorPenalty == 18
KindPenalty == 8
PriorityGap == 100

RowOf(k) == [1..k -> Items \cup {None}]

Policy == [routes : SUBSET Routes, weights : [Routes -> Nat],
           coarse : 0..1, fine : 0..1, rate : 0..Whole, coldRate : 0..Whole]

Held(row) == Range(row) \ {None}
Distinct(row) == \A p, q \in DOMAIN row : row[p] = row[q] => p = q \/ row[p] = None

\* A route returns an item once.
ASSUME CascadeAssumption ==
    /\ Ads \subseteq Items /\ ColdVideos \subseteq Items \ Ads /\ None \notin Items
    /\ IsFiniteSet(Routes) /\ Merit \in [Items -> Int] /\ Whole \in Nat \ {0}
    /\ {RouteK, RecallK, CoarseK, FineK, ExposeK} \subseteq Nat \ {0}
    /\ FineK >= ExposeK /\ CoarseK >= FineK /\ RecallK >= RouteK
    /\ RouteRows \in [Routes -> SUBSET {row \in RowOf(RouteK) : Distinct(row)}]
    /\ \A k \in 1..(RouteK - 1) : Contribution[k] > Contribution[k + 1]
    /\ Policies \subseteq Policy
    /\ \A p \in Policies : /\ p.routes # {}
                           /\ p.rate = 0 \/ p.coldRate = 0
                           /\ p.coldRate > 0 => ColdRoute \in p.routes

VARIABLES phase, request, stages

cascadeVars == <<phase, request, stages>>

AtMost(a, b) == IF a < b THEN a ELSE b
Row(s, k) == [p \in 1..k |-> IF p <= Len(s) THEN s[p] ELSE None]
PlaceOf(row, i) == CHOOSE p \in DOMAIN row : row[p] = i

Best(S, score) == {i \in S : \A j \in S : score[i] >= score[j]}

\* The sequences of k items of S with the highest scores; ties in any order.
Leading(S, k, score) ==
    LET lead[n \in 0..k] ==
            IF n = 0 THEN {<<>>}
            ELSE UNION {{Append(s, i) : i \in Best(S \ Range(s), score)} : s \in lead[n - 1]}
    IN lead[k]

-----------------------------------------------------------------------------
(* Retrieval.                                                              *)

\* Only the auction brings ads, and it brings nothing else.
Kept(policy, rows, r, k) ==
    /\ rows[r][k] # None
    /\ r \in policy.routes
    /\ rows[r][k] \in Ads <=> r = AdsRoute

\* The places at which item i takes part in the fusion.
Hits(policy, rows, i) ==
    {h \in Routes \X (1..RouteK) : /\ rows[h[1]][h[2]] = i
                                   /\ Kept(policy, rows, h[1], h[2])
                                   /\ policy.weights[h[1]] > 0}

ReciprocalRankFusion(policy, rows) ==
    LET merged == {i \in Items : Hits(policy, rows, i) # {}}
        score == [i \in merged |-> MapThenSumSet(
                    LAMBDA h : policy.weights[h[1]] * Contribution[h[2]],
                    Hits(policy, rows, i))]
        cold == {i \in merged : \E k \in 1..RouteK :
                                    <<ColdRoute, k>> \in Hits(policy, rows, i)}
    IN {[item |-> Row(s, RecallK), cold |-> cold \cap Range(s)] :
            s \in Leading(merged, AtMost(RecallK, Cardinality(merged)), score)}

\* A single route is taken as it is, with the gaps its filters left.
SingleRoute(policy, rows, r) ==
    LET row == [k \in 1..RecallK |->
                    IF k <= RouteK /\ Kept(policy, rows, r, k) THEN rows[r][k] ELSE None]
    IN {[item |-> row, cold |-> IF r = ColdRoute THEN Held(row) ELSE {}]}

Recalls(policy, rows) ==
    IF Cardinality(policy.routes) = 1
    THEN SingleRoute(policy, rows, CHOOSE r \in policy.routes : TRUE)
    ELSE ReciprocalRankFusion(policy, rows)

-----------------------------------------------------------------------------
(* Ranking without exploration.                                            *)

\* Version 0 keeps the order of the row, a learned version scores the item.
Scores(version, row) ==
    [i \in Held(row) |-> IF version = 0 THEN -PriorityGap * PlaceOf(row, i) ELSE Merit[i]]

Top(row, score, k) ==
    Row(CHOOSE s \in Leading(Held(row), AtMost(k, Cardinality(Held(row))), score) : TRUE, k)

\* What may follow the items before it: a second ad is blocked.
Open(row, prior) == {i \in Held(row) \ Range(prior) : i \in Ads => Range(prior) \cap Ads = {}}

Alike(prior, i, of) == Cardinality({p \in DOMAIN prior : prior[p] # None /\ of[prior[p]] = of[i]})

\* Items that look like the ones before them pay.
Adjusted(row, score, prior) ==
    [i \in Open(row, prior) |-> score[i] - CreatorPenalty * Alike(prior, i, CreatorOf)
                                         - KindPenalty * Alike(prior, i, KindOf)]

\* Of equals, the first of the row.
Follower(row, score, prior) ==
    LET best == Best(Open(row, prior), Adjusted(row, score, prior))
    IN CHOOSE i \in best : \A j \in best : PlaceOf(row, i) <= PlaceOf(row, j)

DiversifiedTop(row, score) ==
    LET slate[p \in 0..ExposeK] ==
            IF p = 0 THEN <<>>
            ELSE Append(slate[p - 1], IF Open(row, slate[p - 1]) = {} THEN None
                                      ELSE Follower(row, score, slate[p - 1]))
    IN slate[ExposeK]

Deterministic(r) ==
    LET recall == r.recall.item
        coarse == Top(recall, Scores(r.policy.coarse, recall), CoarseK)
        score == Scores(r.policy.fine, coarse)
        fine == Top(coarse, score, FineK)
    IN [coarse |-> coarse, fine |-> fine, exposed |-> DiversifiedTop(fine, score)]

-----------------------------------------------------------------------------
(* Exploration.  The draws of a request are equally likely; randomized     *)
(* says whether one is used.                                               *)

\* New videos the cold start route brought and the slate does not show.
EligibleCold(r, det) == (r.recall.cold \cap ColdVideos) \ Held(det.exposed)

\* A random draw: the first items of a permutation, or one new video.
Picks(r, det) ==
    IF r.policy.coldRate > 0 THEN {<<i>> : i \in EligibleCold(r, det)}
    ELSE LET held == Held(r.recall.item)
         IN Leading(held, AtMost(CoarseK, Cardinality(held)), [i \in held |-> 0])

Rate(r) == IF r.policy.coldRate > 0 THEN r.policy.coldRate ELSE r.policy.rate

Draws(r, det) ==
    {d \in [randomized : {TRUE}, pick : Picks(r, det)] : Rate(r) > 0}
    \cup {d \in [randomized : {FALSE}, pick : {<<>>}] :
             Rate(r) < Whole \/ Picks(r, det) = {}}

\* Seeded fault: an item that is already in the row is put last once more.
InjectTwice(row, item) == [row EXCEPT ![Len(row)] = item]

InjectLast(row, item) ==
    IF item \in Held(row) THEN row ELSE [row EXCEPT ![Len(row)] = item]

RandomSlate(pick) ==
    LET fine == Row(pick, FineK)
    IN [coarse |-> Row(pick, CoarseK), fine |-> fine,
        exposed |-> DiversifiedTop(fine, Scores(0, fine))]

WithColdItem(r, det, item) ==
    LET coarse == InjectLast(det.coarse, item)
        score == Scores(r.policy.fine, coarse)
        fine == InjectLast(Top(coarse, score, FineK), item)
    IN [coarse |-> coarse, fine |-> fine,
        exposed |-> InjectLast(DiversifiedTop(fine, score), item)]

Ranked(r, det, d) ==
    IF ~d.randomized THEN det
    ELSE IF r.policy.coldRate > 0 THEN WithColdItem(r, det, d.pick[1])
    ELSE RandomSlate(d.pick)

-----------------------------------------------------------------------------
(* What is logged of it.  Probabilities of items and of positions are      *)
(* parts of Whole * Base, the probability of the slate of Whole * SlateBase. *)

EqualDraws(r, det) == Cardinality(EligibleCold(r, det))
Candidates(r) == Cardinality(Held(r.recall.item))

Base(r, det) == Max({1, IF r.policy.coldRate > 0 THEN EqualDraws(r, det)
                        ELSE Candidates(r)})

SlateBase(r, det, slate) ==
    IF r.policy.coldRate > 0 THEN Base(r, det)
    ELSE factorial[Candidates(r)] \div factorial[Candidates(r) - Cardinality(Held(slate))]

Indicator(condition) == IF condition THEN 1 ELSE 0

\* Mixture of the deterministic choice and a random permutation.
MixtureAdmission(r, det, chosen, i) ==
    r.policy.rate * Cardinality(Held(chosen))
    + (Whole - r.policy.rate) * Base(r, det) * Indicator(i \in Held(chosen))

MixturePosition(r, det, slate, p) ==
    r.policy.rate + (Whole - r.policy.rate) * Base(r, det) * Indicator(slate[p] = det.exposed[p])

MixtureSlate(r, det, slate) ==
    r.policy.rate
    + (Whole - r.policy.rate) * SlateBase(r, det, slate) * Indicator(slate = det.exposed)

\* One new video, drawn with the rate of cold start if there is any.
SupportedRate(r, det) == IF EligibleCold(r, det) = {} THEN 0 ELSE r.policy.coldRate

\* Seeded fault: an item in the last place is never displaced.
UndisplacedAdmission(r, det, chosen, i) ==
    IF i \in Held(chosen) THEN Whole * Base(r, det)
    ELSE SupportedRate(r, det) * Indicator(i \in EligibleCold(r, det))

TargetedAdmission(r, det, chosen, i) ==
    LET outside == EligibleCold(r, det) \ Held(chosen)
    IN IF i \in Held(chosen)
       THEN Whole * Base(r, det)
            - SupportedRate(r, det) * Cardinality(outside) * Indicator(i = Last(chosen))
       ELSE SupportedRate(r, det) * Indicator(i \in outside)

TargetedLast(r, det, unchanged) ==
    IF unchanged THEN (Whole - SupportedRate(r, det)) * Base(r, det) ELSE SupportedRate(r, det)

TargetedPosition(r, det, slate, p) ==
    IF p = ExposeK THEN TargetedLast(r, det, slate[p] = det.exposed[p])
    ELSE Whole * Base(r, det)

TargetedSlate(r, det, slate) == TargetedLast(r, det, slate = det.exposed)

Admission(r, det, chosen, i) ==
    IF r.policy.coldRate > 0 THEN TargetedAdmission(r, det, chosen, i)
    ELSE MixtureAdmission(r, det, chosen, i)

LoggedPosition(r, det, slate, p) ==
    IF slate[p] = None THEN 0
    ELSE IF r.policy.coldRate > 0 THEN TargetedPosition(r, det, slate, p)
    ELSE MixturePosition(r, det, slate, p)

LoggedSlate(r, det, slate) ==
    IF r.policy.coldRate > 0 THEN TargetedSlate(r, det, slate)
    ELSE MixtureSlate(r, det, slate)

Logged(r, det, slate) ==
    [coarse |-> [i \in Held(r.recall.item) |-> Admission(r, det, det.coarse, i)],
     fine |-> [i \in Held(r.recall.item) |-> Admission(r, det, det.fine, i)],
     candidate |-> [i \in Held(r.recall.item) |-> Admission(r, det, det.exposed, i)],
     position |-> [p \in 1..ExposeK |-> LoggedPosition(r, det, slate, p)],
     slate |-> LoggedSlate(r, det, slate)]

-----------------------------------------------------------------------------
(* The ads the cell has no budget for.                                     *)

\* Seeded fault: nothing replaces the ad.
Dropped(r, s, p) == [s EXCEPT !.exposed[p] = None]

\* The best organic item of the fine row that is not shown yet, or a gap.
Backfilled(r, s, p) ==
    LET organic == Held(s.fine) \ (Ads \cup Held(s.exposed))
        score == Scores(r.policy.fine, s.coarse)
    IN [s EXCEPT !.exposed[p] =
            IF organic = {} THEN None
            ELSE CHOOSE i \in organic : \A j \in organic : score[i] >= score[j]]

AdPlaces(slate) == {p \in DOMAIN slate : slate[p] \in Ads}

-----------------------------------------------------------------------------
Nothing == [coarse |-> <<>>, fine |-> <<>>, exposed |-> <<>>, randomized |-> FALSE,
            logged |-> <<>>]

NoRequest == [policy |-> <<>>, recall |-> <<>>]

CascadeInit ==
    /\ phase = "open"
    /\ request = NoRequest
    /\ stages = Nothing

Retrieve ==
    /\ phase = "open"
    /\ \E policy \in Policies :
       \E rows \in {f \in [Routes -> UNION Range(RouteRows)] :
                        \A r \in Routes : f[r] \in RouteRows[r]} :
       \E recall \in Recalls(policy, rows) :
            request' = [policy |-> policy, recall |-> recall]
    /\ phase' = "recalled"
    /\ UNCHANGED stages

Rank ==
    /\ phase = "recalled"
    /\ LET det == Deterministic(request)
       IN \E d \in Draws(request, det) :
            LET ranked == Ranked(request, det, d)
            IN stages' = [coarse |-> ranked.coarse, fine |-> ranked.fine,
                          exposed |-> ranked.exposed, randomized |-> d.randomized,
                          logged |-> Logged(request, det, ranked.exposed)]
    /\ phase' = "ranked"
    /\ UNCHANGED request

\* The cell has the budget for the ads of the slate.
Render ==
    /\ phase = "ranked"
    /\ phase' = "rendered"
    /\ UNCHANGED <<request, stages>>

\* It has not: a deterministic slate gets organic items instead.
Backfill ==
    /\ phase = "ranked"
    /\ ~stages.randomized
    /\ \E p \in AdPlaces(stages.exposed) : stages' = Backfilled(request, stages, p)
    /\ phase' = "rendered"
    /\ UNCHANGED request

\* A randomized one is refused, and the tick with it.
Refuse ==
    /\ phase = "ranked"
    /\ stages.randomized
    /\ AdPlaces(stages.exposed) # {}
    /\ phase' = "refused"
    /\ UNCHANGED <<request, stages>>

CascadeNext == Retrieve \/ Rank \/ Render \/ Backfill \/ Refuse

CascadeSpec == CascadeInit /\ [][CascadeNext]_cascadeVars

-----------------------------------------------------------------------------
(* Properties.                                                             *)

Within(n, low, high) == low <= n /\ n <= high

\* A trace that is built passes its own validation
\* (samples/contracts.py, RequestCandidateTrace; contracts.py, RenderedSlateBatch):
\* the stages are nested and free of duplicates whatever was injected, drawn or
\* backfilled, what is shown was possible, and a random slate has a rate.
TraceIsValid ==
    phase = "rendered" =>
        LET det == Deterministic(request)
            one == Whole * Base(request, det)
            logged == stages.logged
        IN /\ \A row \in {request.recall.item, stages.coarse, stages.fine, stages.exposed} :
                Distinct(row)
           /\ Held(stages.coarse) \subseteq Held(request.recall.item)
           /\ Held(stages.fine) \subseteq Held(stages.coarse)
           /\ Held(stages.exposed) \subseteq Held(stages.fine)
           /\ \A p \in 1..ExposeK :
                stages.exposed[p] # None => Within(logged.position[p], 1, one)
           /\ \A i \in Held(request.recall.item) :
                /\ Within(logged.coarse[i], 0, one)
                /\ Within(logged.fine[i], 0, one)
                /\ Within(logged.candidate[i], 0, one)
           /\ stages.randomized => Rate(request) > 0

\* A slate shows one ad at most, and leaves a place empty only when nothing that
\* may be shown there is left in the fine row (platform/ranking.py _diversified_top,
\* platform/markets/ads.py _backfill_organic).
SlateIsFull ==
    phase = "rendered" =>
        /\ Cardinality(AdPlaces(stages.exposed)) <= 1
        /\ None \in Range(stages.exposed) =>
                Held(stages.fine) \ Held(stages.exposed) \subseteq Ads

\* Where the logged numbers can be exact: the auction brought one ad at most, no
\* candidate looks like so many others that the penalties outweigh a place of the
\* row, and a single new video is drawn under a ranker that keeps that order.
Identified(r) ==
    LET held == Held(r.recall.item)
        Like(i, of) == AtMost(ExposeK - 1, Cardinality({j \in held \ {i} : of[j] = of[i]}))
    IN /\ Cardinality(held \cap Ads) <= 1
       /\ \A i \in held :
            CreatorPenalty * Like(i, CreatorOf) + KindPenalty * Like(i, KindOf) <= PriorityGap
       /\ r.policy.coldRate > 0 => r.policy.fine = 0

\* What is logged of a request equals the share of its draws that give the same.
LoggedExactly(r) ==
    LET det == Deterministic(r)
        draws == Draws(r, det)
        ranked == [d \in draws |-> Ranked(r, det, d)]
        random == {d \in draws : d.randomized}
        equal == Max({1, Cardinality(random)})
        rate == IF random = {} THEN 0 ELSE Rate(r)
        base == Base(r, det)
        admitted == Logged(r, det, det.exposed)
        \* in parts of Whole * equal
        Chance(certain, favourable) ==
            (Whole - rate) * equal * Indicator(certain) + rate * Cardinality(favourable)
    IN /\ \A i \in Held(r.recall.item) :
            /\ admitted.coarse[i] * equal
                = base * Chance(i \in Held(det.coarse),
                                {d \in random : i \in Held(ranked[d].coarse)})
            /\ admitted.fine[i] * equal
                = base * Chance(i \in Held(det.fine),
                                {d \in random : i \in Held(ranked[d].fine)})
            /\ admitted.candidate[i] * equal
                = base * Chance(i \in Held(det.exposed),
                                {d \in random : i \in Held(ranked[d].exposed)})
       /\ \A slate \in {ranked[d].exposed : d \in draws} :
            LET logged == Logged(r, det, slate) IN
            /\ \A p \in {q \in 1..ExposeK : slate[q] # None} :
                logged.position[p] * equal
                = base * Chance(slate[p] = det.exposed[p],
                                {d \in random : ranked[d].exposed[p] = slate[p]})
            /\ logged.slate * equal
                = SlateBase(r, det, slate)
                  * Chance(slate = det.exposed, {d \in random : ranked[d].exposed = slate})

\* The logged probabilities are those of the process that draws, for every draw that
\* can happen: of each stage, position and of the slate
\* (docs/launch-reviews/README.md, "exact propensities").
PropensityIsExact == phase = "recalled" /\ Identified(request) => LoggedExactly(request)
===============================================================================
