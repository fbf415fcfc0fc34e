------------------------------- MODULE Scoring -------------------------------
(***************************************************************************)
(* How the interviews of an engagement's rounds become the numbers a       *)
(* client is shown: src/backend/src/tenant/scoring.ts and its browser twin *)
(* src/frontend/vyne-scoring.js, which the code keeps equal, and the role  *)
(* weights of tenant/engagementMerge.ts.                                   *)
(*                                                                         *)
(* A round is a record with its number, the sequence of its interviews in  *)
(* the order they completed, and its stored scores, a function from the    *)
(* dimensions that have one.  An engagement's rounds are a sequence in the *)
(* order they were created, which is not the order of their numbers.       *)
(* Scores are counted in tenths (10..50), coverages and weights in tenths, *)
(* and a mean is an exact fraction rounded once, half up; the code's       *)
(* doubles can fall on the other side of an exact half.                    *)
(***************************************************************************)
EXTENDS Integers, FiniteSets, FiniteSetsExt, Sequences, SequencesExt

CONSTANTS Dims,        \* the dimensions D1..D7
          Weight,      \* [Dims -> [roles -> weight in tenths]]
          Absent       \* an absent value: no coverage, no tiers, no score to show

DefaultCoverage == 3   \* DEFAULT_COVERAGE_WEIGHT, in tenths

\* The nearest integer to a/b, half upwards (Math.round).
Rounded(a, b) == (2 * a + b) \div (2 * b)

AnswerOf(ivs, d, i) == ivs[i].scores[d]
CoverageOf(ivs, d, i) == ivs[i].coverage[d]

\* The interviews that answered d; 0 is "not asked", never a score.
Entries(ivs, d) == {i \in DOMAIN ivs : AnswerOf(ivs, d, i) > 0}

RoleWeightOf(ivs, d, i) == Weight[d][ivs[i].role]

\* The role-weighted mean of a dimension as a fraction; a plain mean when
\* every role that answered weighs nothing.
Raw(ivs, d) ==
  LET E == Entries(ivs, d)
      total == MapThenSumSet(LAMBDA i : RoleWeightOf(ivs, d, i), E)
  IN  IF total > 0
        THEN [num |-> MapThenSumSet(LAMBDA i : AnswerOf(ivs, d, i) * RoleWeightOf(ivs, d, i), E),
              den |-> total]
        ELSE [num |-> MapThenSumSet(LAMBDA i : AnswerOf(ivs, d, i), E),
              den |-> Cardinality(E)]

\* How much of the dimension a refresh covered, weighted by role.
CoverageWeight(ivs, d) ==
  LET C == {i \in Entries(ivs, d) :
              ivs[i].coverage # Absent /\ d \in DOMAIN ivs[i].coverage}
      total == MapThenSumSet(LAMBDA i : RoleWeightOf(ivs, d, i), C)
  IN  IF total > 0
        THEN [num |-> MapThenSumSet(LAMBDA i : CoverageOf(ivs, d, i) * RoleWeightOf(ivs, d, i), C),
              den |-> 10 * total]
        ELSE [num |-> DefaultCoverage, den |-> 10]

\* prior * (1 - w) + raw * w
Blended(prior, raw, w) ==
  Rounded(prior * (w.den - w.num) * raw.den + raw.num * w.num, w.den * raw.den)

\* computeRoundScores: what a round's interviews measured, blended into the
\* prior value on a refresh, and the prior value of what nobody was asked.
ComputeRoundScores(ivs, prior, refresh) ==
  LET measured == {d \in Dims : Entries(ivs, d) # {}}
  IN  [d \in measured \cup DOMAIN prior |->
         LET raw == Raw(ivs, d) IN
         IF d \notin measured THEN prior[d]
         ELSE IF refresh /\ d \in DOMAIN prior
                THEN Blended(prior[d], raw, CoverageWeight(ivs, d))
         ELSE Rounded(raw.num, raw.den)]

-----------------------------------------------------------------------------
Numbers(rounds) == {rounds[i].number : i \in DOMAIN rounds}

LowestRoundNumber(rounds) ==
  IF rounds = <<>> THEN 1 ELSE Min(Numbers(rounds))

NextRoundNumber(rounds) == Max(Numbers(rounds) \cup {0}) + 1

\* The positions of the rounds, by ascending number: each at the place given by
\* how many come before it.
Before(rounds, i, j) ==
  \/ rounds[i].number < rounds[j].number
  \/ rounds[i].number = rounds[j].number /\ i < j

Ordered(rounds) ==
  [k \in DOMAIN rounds |->
     CHOOSE i \in DOMAIN rounds :
       Cardinality({j \in DOMAIN rounds : Before(rounds, j, i)}) = k - 1]

IsRefreshRound(round, lowest) ==
  /\ round.number > lowest
  /\ \E i \in DOMAIN round.ivs : round.ivs[i].refresh \/ round.ivs[i].coverage # Absent

\* Before and nearest by position in the record.
PriorScoresByPosition(rounds, n) ==
  LET before(d) == {i \in DOMAIN rounds :
                      /\ \E j \in DOMAIN rounds : i < j /\ rounds[j].number = n
                      /\ d \in DOMAIN rounds[i].scores}
  IN  [d \in {e \in Dims : before(e) # {}} |-> rounds[Max(before(d))].scores[d]]

\* The scores of the rounds before n, the nearest first, dimension by
\* dimension.
PriorScoresFor(rounds, n) ==
  LET before(d) == {i \in DOMAIN rounds :
                      rounds[i].number < n /\ d \in DOMAIN rounds[i].scores}
      nearest(d) == CHOOSE i \in before(d) :
                      \A j \in before(d) : rounds[j].number <= rounds[i].number
  IN  [d \in {e \in Dims : before(e) # {}} |-> rounds[nearest(d)].scores[d]]

\* One round scored from the stored scores of the rounds before it: what the
\* server's merge, the consultant's page and Synthesis's dashboard write.
Rescored(rounds, i) ==
  [rounds EXCEPT ![i].scores =
     ComputeRoundScores(rounds[i].ivs, PriorScoresFor(rounds, rounds[i].number),
                        IsRefreshRound(rounds[i], LowestRoundNumber(rounds)))]

\* One step of recomputeAllRounds: a round with an interview, from the scores
\* just computed.
ScoreStep(rounds, acc, i) ==
  IF rounds[i].ivs = <<>> THEN acc
  ELSE LET s == ComputeRoundScores(rounds[i].ivs, acc.running,
                  IsRefreshRound(rounds[i], LowestRoundNumber(rounds)))
       IN  [rounds |-> [acc.rounds EXCEPT ![i].scores = s],
            running |-> [d \in DOMAIN acc.running \cup DOMAIN s |->
                           IF d \in DOMAIN s THEN s[d] ELSE acc.running[d]]]

\* recomputeAllRounds: every round, in order.
RecomputeAll(rounds) ==
  FoldLeft(LAMBDA acc, i : ScoreStep(rounds, acc, i),
           [rounds |-> rounds, running |-> <<>>], Ordered(rounds)).rounds

-----------------------------------------------------------------------------
ScoredRounds(rounds) == {i \in DOMAIN rounds : DOMAIN rounds[i].scores # {}}

\* The one of S that was created last.
LatestCreated(rounds, S) == Max(S)

\* The one of S that comes last in order.
Latest(rounds, S) == CHOOSE i \in S : \A j \in S : ~Before(rounds, i, j)

\* The scored round a reader shows, Absent before there is one.
LatestScored(rounds) ==
  IF ScoredRounds(rounds) = {} THEN Absent ELSE Latest(rounds, ScoredRounds(rounds))

TierWeight == [lead |-> 10, cover |-> 6, light |-> 3]

\* dimensionWeights: Absent when any interview has no tiers, or none counts.
DimensionWeights(ivs) ==
  LET w == [d \in Dims |->
              MapThenSumSet(LAMBDA i : IF d \in DOMAIN ivs[i].tiers
                                         THEN TierWeight[ivs[i].tiers[d]] ELSE 0,
                            DOMAIN ivs)]
  IN  IF \/ ivs = <<>>
         \/ \E i \in DOMAIN ivs : ivs[i].tiers = Absent
         \/ \A d \in Dims : w[d] = 0
        THEN Absent ELSE w

\* overallOf: one number for a round, Absent when nothing counts.
OverallOf(scores, weights) ==
  LET w(d) == IF weights = Absent THEN 1 ELSE weights[d]
      D == {d \in DOMAIN scores : scores[d] > 0 /\ w(d) > 0}
  IN  IF D = {} THEN Absent
      ELSE Rounded(MapThenSumSet(LAMBDA d : scores[d] * w(d), D),
                   MapThenSumSet(w, D))

\* The maturity band of an overall, 5 (AI-Native) to 1 (AI Unaware).
MaturityBand(v) ==
  IF v = Absent THEN Absent
  ELSE IF v >= 45 THEN 5 ELSE IF v >= 35 THEN 4 ELSE IF v >= 25 THEN 3
  ELSE IF v >= 15 THEN 2 ELSE 1

\* An entry of buildScorecard: the latest scored round, its overall and band,
\* and the change since the scored round before it.
CardOf(rounds) ==
  LET scored == ScoredRounds(rounds)
      overall(i) == OverallOf(rounds[i].scores, DimensionWeights(rounds[i].ivs))
      last == Latest(rounds, scored)
      earlier == scored \ {last}
      now == overall(last)
      then == IF earlier = {} THEN Absent ELSE overall(Latest(rounds, earlier))
  IN  [round |-> rounds[last].number, scores |-> rounds[last].scores,
       overall |-> now, maturity |-> MaturityBand(now),
       delta |-> IF now = Absent \/ then = Absent THEN Absent ELSE now - then]

\* buildScorecard's entries for one engagement: none before a round is scored.
Scorecard(rounds) ==
  IF ScoredRounds(rounds) = {} THEN {} ELSE {CardOf(rounds)}
=============================================================================
