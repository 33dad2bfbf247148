------------------------------ MODULE StockScreen ------------------------------
(***************************************************************************)
(* The score of a long-term holding: score_stock of apps/investing with    *)
(* the valuation and the technical read it weighs. Functions without       *)
(* behaviour; a stock is its quarters, newest first, and what its daily    *)
(* closes say.                                                             *)
(*                                                                         *)
(* Scores are in hundredths of a point and divisions round down; ratios    *)
(* such as the debt to equity are in hundredths, prices in paise.          *)
(***************************************************************************)
EXTENDS Integers, Sequences, SequencesExt, FiniteSets, FiniteSetsExt

Unknown == -1000000     \* a figure the source did not report
Full == 10000

Known(n) == n # Unknown

Weights ==
  [revenue |-> 10, profit |-> 15, consistency |-> 12, roe |-> 10, roce |-> 7, debt |-> 8,
   promoter |-> 6, valuation |-> 16, technical |-> 16]
MinFactors == 3

Growth(n, strong, weak) ==
  IF ~Known(n) THEN Unknown
  ELSE IF n >= strong THEN Full
  ELSE IF n <= weak THEN 0
  ELSE ((n - weak) * Full) \div (strong - weak)

Debt(n) == IF Known(n) THEN Growth(-n, -30, -200) ELSE Unknown

\* The share of the last four quarters whose profit grew; one quarter says nothing.
Consistency(quarters) ==
  LET recent == {k \in DOMAIN quarters : k <= 4 /\ Known(quarters[k].profit)}
      grew == {k \in recent : quarters[k].profit > 0}
  IN IF Cardinality(recent) < 2 THEN Unknown
     ELSE (Cardinality(grew) * Full) \div Cardinality(recent)

-----------------------------------------------------------------------------
(* Valuation and trend *)

\* The usable earnings multiples, the current one first.
Multiples(quarters) ==
  LET usable == SelectSeq(quarters, LAMBDA q : Known(q.pe) /\ q.pe >= 0)
      taken == SubSeq(usable, 1, IF Len(usable) < 12 THEN Len(usable) ELSE 12)
  IN [k \in DOMAIN taken |-> taken[k].pe]

Labelled(score) == IF score >= 7000 THEN "Low" ELSE IF score >= 4000 THEN "Medium" ELSE "High"

\* The percentile in the stock's own history, or fixed bands when that is too short.
Valuation(quarters) ==
  LET pes == Multiples(quarters)
      now == pes[1]
      atMost == {k \in DOMAIN pes : pes[k] <= now}
      score == IF Len(pes) >= 3 THEN Full - (Cardinality(atMost) * Full) \div Len(pes)
               ELSE IF now >= 40 THEN 1500 ELSE IF now >= 25 THEN 5000 ELSE 8500
  IN IF pes = <<>> THEN [score |-> Unknown, label |-> ""]
     ELSE [score |-> score,
           label |-> IF Len(pes) >= 3 THEN Labelled(score)
                     ELSE IF now >= 40 THEN "High" ELSE IF now >= 25 THEN "Medium" ELSE "Low"]

\* price, the averages of 50 and 200 closes (Unknown if there are fewer) and RSI-14.
Trend(read) ==
  LET price == read.price   short == read.short   long == read.long
  IN IF Known(long)
     THEN IF price > short /\ short > long THEN 9500
          ELSE IF price > short /\ price > long THEN 7500
          ELSE IF price < short /\ short < long THEN 500
          ELSE IF price < short /\ price < long THEN 2500
          ELSE 5000
     ELSE IF 100 * price > 103 * short THEN 7500
          ELSE IF 100 * price < 97 * short THEN 2500
          ELSE 5000

RsiScore(rsi) ==
  IF rsi \in 45..60 THEN 9000
  ELSE IF rsi \in 30..70 THEN 6500
  ELSE IF rsi > 70 THEN 3500 ELSE 3000

Technical(read) ==
  IF ~Known(read.short) THEN Unknown
  ELSE IF ~Known(read.rsi) THEN Trend(read)
  ELSE (70 * Trend(read) + 30 * RsiScore(read.rsi)) \div 100

-----------------------------------------------------------------------------
(* The score *)

Factors(quarters, read) ==
  LET latest == quarters[1]
  IN [revenue |-> Growth(latest.revenue, 20, 0), profit |-> Growth(latest.profit, 25, 0),
      consistency |-> Consistency(quarters), roe |-> Growth(latest.roe, 20, 5),
      roce |-> Growth(latest.roce, 18, 5), debt |-> Debt(latest.debt),
      promoter |-> Growth(latest.promoter, 60, 15), valuation |-> Valuation(quarters).score,
      technical |-> Technical(read)]

Available(factors) == {f \in DOMAIN factors : Known(factors[f])}

\* Unknown if there is too little data: a missing factor gives up its weight.
Weighted(factors) ==
  LET known == Available(factors)
  IN IF Cardinality(known) < MinFactors THEN Unknown
     ELSE MapThenSumSet(LAMBDA f : factors[f] * Weights[f], known)
            \div MapThenSumSet(LAMBDA f : Weights[f], known)

Bands == <<[from |-> 8000, verdict |-> "strong_hold", low |-> 36, high |-> 60],
           [from |-> 6500, verdict |-> "strong_hold", low |-> 18, high |-> 36],
           [from |-> 5000, verdict |-> "moderate_hold", low |-> 6, high |-> 18],
           [from |-> 3500, verdict |-> "watch", low |-> 0, high |-> 0],
           [from |-> 0, verdict |-> "avoid", low |-> 0, high |-> 0]>>

\* Python rounds a half to the even neighbour; low is even in every band.
HalfEven(a, b) ==
  LET whole == a \div b
      twice == 2 * (a % b)
  IN IF twice > b \/ (twice = b /\ whole % 2 = 1) THEN whole + 1 ELSE whole

\* No months are suggested (0) below a hold.
Verdict(score) ==
  LET k == SelectInSeq(Bands, LAMBDA band : score >= band.from)
      band == Bands[k]
      top == IF k = 1 THEN Full ELSE Bands[k - 1].from
  IN [verdict |-> band.verdict,
      months |-> band.low + HalfEven((score - band.from) * (band.high - band.low), top - band.from)]

Scored(stock) == IF stock.quarters = <<>> THEN Unknown ELSE Weighted(Factors(stock.quarters, stock.read))

-----------------------------------------------------------------------------
(* Properties *)

Rank == [avoid |-> 0, watch |-> 1, moderate_hold |-> 2, strong_hold |-> 3]

\* A better score is never a worse verdict nor a shorter hold, across the bands
\* and the rounding (_verdict_and_hold_months).
HoldGrowsWithScore(scores) ==
  \A s, t \in scores : s <= t =>
    /\ Rank[Verdict(s).verdict] <= Rank[Verdict(t).verdict]
    /\ Verdict(s).months <= Verdict(t).months

\* Better figures of the latest quarter never lower the score: more growth,
\* returns and promoters, less debt, a lower multiple. Profit counts twice, by
\* itself and in the consistency.
Better == [revenue |-> 6, profit |-> 6, roe |-> 4, roce |-> 4, promoter |-> 20, debt |-> -40, pe |-> -9]
BetterNeverHurts(stock) ==
  stock.quarters # <<>> =>
    \A f \in DOMAIN Better :
      LET n == stock.quarters[1][f]
      IN Known(n) /\ (f = "pe" => n >= 9) =>
           Scored(stock) <= Scored([stock EXCEPT !.quarters[1][f] = n + Better[f]])

\* What is not known neither helps nor hurts: the score stays between the
\* worst and the best factor that is (_weighted_average).
ScoreIsBetween(stock) ==
  stock.quarters # <<>> =>
    LET factors == Factors(stock.quarters, stock.read)
        known == {factors[f] : f \in Available(factors)}
        score == Scored(stock)
    IN Known(score) => Min(known) <= score /\ score <= Max(known)

\* A falling market is read like the rising one it mirrors (_trend_read).
TrendIsMirrored(read) ==
  LET flip(n) == IF Known(n) THEN 2 * read.short - n ELSE n
  IN Known(read.short) =>
       Trend([read EXCEPT !.price = flip(@), !.long = flip(@)]) = Full - Trend(read)
===============================================================================
