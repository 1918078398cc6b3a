------------------------------ MODULE Metrics ------------------------------
(***************************************************************************)
(* The statistics every portal shares (app/analytics/metrics.py).          *)
(*                                                                         *)
(* A list of values is a function from whatever numbers its members; the   *)
(* value of a result that does not exist is None.  Percentages are counted *)
(* in hundredths, slopes in thousandths of a point.  What SQL hands over   *)
(* unrounded is a ratio [n, d].                                            *)
(*                                                                         *)
(* Left out: the difference between rounding half up, as here, and half to *)
(* even; the root in a standard deviation, which is kept squared.          *)
(***************************************************************************)
EXTENDS Integers, Sequences, FiniteSets, FiniteSetsExt, Functions

CONSTANT None

(* None is neither a number nor a ratio.                                   *)
ASSUME NoneAssumption == None \notin Int /\ None \notin [n: Int, d: Int]

Known(f) == RestrictValues(f, LAMBDA v : v # None)
Rounded(n, d) == (2 * n + d) \div (2 * d)
Whole(v) == IF v = None THEN None ELSE [n |-> v, d |-> 1]
Round(q) == IF q = None THEN None ELSE Rounded(q.n, q.d)

Percentage(marks, max) ==
  IF marks = None \/ max = None \/ max <= 0 THEN None ELSE Rounded(10000 * marks, max)

Mean(k) ==
  IF DOMAIN k = {} THEN None ELSE Rounded(SumFunction(k), Cardinality(DOMAIN k))
SafeMean(f) == Mean(Known(f))

(* GRADE_BANDS, by their lower ends.                                       *)
Bands == [A1 |-> 9100, A2 |-> 8100, B1 |-> 7100, B2 |-> 6100,
          C1 |-> 5100, C2 |-> 4100, D |-> 3300, E |-> 0]
LetterGrade(pct) ==
  LET reached == {b \in DOMAIN Bands : Bands[b] <= pct}
  IN  IF pct = None THEN "--"
      ELSE IF reached = {} THEN "E"
      ELSE CHOOSE b \in reached : \A c \in reached : Bands[c] <= Bands[b]

Place(value, k, size) ==
  IF value = None \/ size = 0
  THEN [rank |-> None, of |-> IF size = 0 THEN None ELSE size, percentile |-> None]
  ELSE [rank |-> 1 + Quantify(DOMAIN k, LAMBDA i : k[i] > value), of |-> size,
        percentile |-> 10 * Rounded(1000 * Quantify(DOMAIN k, LAMBDA i : k[i] <= value), size)]
RankAndPercentile(value, cohort) ==
  Place(value, Known(cohort), Cardinality(DOMAIN Known(cohort)))

(* Least squares over the positions that hold a value, in a unit that every *)
(* ratio's denominator divides.                                            *)
LeastSquares(k, unit) ==
  LET P == DOMAIN k
      y == [i \in P |-> k[i].n * (unit \div k[i].d)]
      slope(n, sx) ==
        Rounded(10 * (n * SumFunction([i \in P |-> i * y[i]]) - sx * SumFunction(y)),
                unit * (n * SumFunction([i \in P |-> i * i]) - sx * sx))
  IN  slope(Cardinality(P), SumFunction([i \in P |-> i]))
Unit(k) == FoldFunction(LAMBDA a, b : a * b, 1, [i \in DOMAIN k |-> k[i].d])
Slope(k) == IF Cardinality(DOMAIN k) < 2 THEN None ELSE LeastSquares(k, Unit(k))
TrendSlope(f) == Slope(Known(f))

(* trend_label and trend_tone, per assessment; term_trend_label and        *)
(* term_trend_tone, per term.                                              *)
Trend(slope, mild, sharp) ==
  CASE slope = None -> "unknown"
    [] slope # None /\ slope >= sharp -> "improving strongly"
    [] slope # None /\ slope >= mild /\ slope < sharp -> "improving"
    [] slope # None /\ slope <= -sharp -> "declining sharply"
    [] slope # None /\ slope <= -mild /\ slope > -sharp -> "declining"
    [] OTHER -> "steady"
TrendLabel(slope) == Trend(slope, 250, 800)
TermSlideSharp == -5000
TermSlideMild == -2000
TermTrendLabel(slope) == Trend(slope, -TermSlideMild, -TermSlideSharp)

(* The square of the sample standard deviation, about the rounded mean. A   *)
(* root that is above a bound by half a hundredth still rounds to it.      *)
Variance(k, mean) ==
  Rounded(MapThenSumSet(LAMBDA i : (k[i] - mean) * (k[i] - mean), DOMAIN k),
          Cardinality(DOMAIN k) - 1)
Consistency(f) ==
  LET squared(k) == IF Cardinality(DOMAIN k) < 2 THEN None ELSE Variance(k, Mean(k))
  IN  squared(Known(f))
ConsistencyLabel(squared) ==
  LET within(dev) == squared <= dev * (dev + 1)
  IN  CASE squared = None -> "unknown"
        [] squared # None /\ within(600) -> "very consistent"
        [] squared # None /\ within(1100) /\ ~within(600) -> "fairly consistent"
        [] squared # None /\ within(1700) /\ ~within(1100) -> "variable"
        [] OTHER -> "highly variable"

(* DISTRIBUTION_BUCKETS: from the first bound up to but without the other. *)
Buckets == << <<0, 3300>>, <<3300, 4100>>, <<4100, 5100>>, <<5100, 6100>>,
              <<6100, 7100>>, <<7100, 8100>>, <<8100, 9100>>, <<9100, 10001>> >>

(* Fault: a full mark falls out of the last bucket.                        *)
Distribution_open(f) ==
  LET k == Known(f)
  IN  [b \in 1..8 |-> Quantify(DOMAIN k, LAMBDA i :
         Buckets[b][1] <= k[i] /\ k[i] < Buckets[b][2] /\ k[i] < 10000)]
Distribution(f) ==
  LET k == Known(f)
  IN  [b \in DOMAIN Buckets |-> Quantify(DOMAIN k, LAMBDA i :
         Buckets[b][1] <= k[i] /\ k[i] < Buckets[b][2])]

GradeCounts(f) ==
  LET k == Known(f)
  IN  [b \in DOMAIN Bands |-> Quantify(DOMAIN k, LAMBDA i : LetterGrade(k[i]) = b)]

PassRate(f, limit) ==
  LET k == Known(f)
  IN  IF DOMAIN k = {} THEN None
      ELSE 10 * Rounded(1000 * Quantify(DOMAIN k, LAMBDA i : k[i] >= limit),
                        Cardinality(DOMAIN k))

DifficultyIndex(avg) ==
  CASE avg = None -> "not graded"
    [] avg # None /\ avg >= 8000 -> "easy"
    [] avg # None /\ avg \in 6500..7999 -> "moderate"
    [] avg # None /\ avg \in 5000..6499 -> "challenging"
    [] OTHER -> "hard"

Delta(current, previous) ==
  IF current = None \/ previous = None THEN None ELSE current - previous

AttendancePercentage(present, total) ==
  IF total <= 0 THEN None ELSE 10 * Rounded(1000 * present, total)

(* What is known of a student, and how much each of it weighs.             *)
Weights(s, cfg) ==
  [average |-> IF s.average = None THEN 0
               ELSE IF s.average < cfg.pass THEN 3
               ELSE IF s.average < cfg.atRisk THEN 2 ELSE 0,
   failing |-> IF s.failing >= 3 THEN 3 ELSE IF s.failing > 0 THEN 1 ELSE 0,
   slope |-> IF s.slope = None THEN 0
             ELSE IF s.slope <= TermSlideSharp THEN 3
             ELSE IF s.slope <= TermSlideMild THEN 1 ELSE 0,
   attendance |-> IF s.attendance = None \/ s.attendance >= cfg.attendance THEN 0
                  ELSE IF s.attendance < cfg.attendance - 1000 THEN 3 ELSE 2,
   drop |-> IF s.drop = None \/ 10 * s.drop > TermSlideMild THEN 0
            ELSE IF 10 * s.drop <= TermSlideSharp THEN 3 ELSE 1,
   concerns |-> IF s.concerns >= 2 THEN 2 ELSE s.concerns]

Level(score) == IF score >= 3 THEN "high" ELSE IF score >= 1 THEN "watch" ELSE "none"
AssessRisk(s, cfg) ==
  LET verdict(w) == [level |-> Level(SumFunction(w)), reasons |-> {x \in DOMAIN w : w[x] > 0}]
  IN  verdict(Weights(s, cfg))
IsAtRisk(risk) == risk.level \in {"watch", "high"}

(* The best and the worst `limit` members of a family of averages.         *)
StrengthProfile(f, limit) ==
  LET S == DOMAIN Known(f)
      above(x) == Quantify(S, LAMBDA y : f[y] > f[x] \/ (f[y] = f[x] /\ y < x))
  IN  [strengths |-> {x \in S : above(x) < limit},
       weaknesses |-> {x \in S : above(x) >= limit /\ above(x) >= Cardinality(S) - limit}]
=============================================================================
