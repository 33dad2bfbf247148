---------------------------- MODULE Performance ----------------------------
(***************************************************************************)
(* The figures of apps.analytics.services that the daily review and the    *)
(* dashboard read: drawdown and risk-adjusted ratios of the equity curve,  *)
(* a day's metrics, and closed trades by one dimension.                    *)
(*                                                                         *)
(* A curve is the snapshots in their order, [day, equity]; a trade is      *)
(* [day, pnl, risk (per unit), qty, side (CE, PE or "UNDERLYING"), expiry  *)
(* (None: no contract), phase].  Returns are in ten thousandths, R         *)
(* multiples in thousandths; <<>> is the code's None.                      *)
(***************************************************************************)
EXTENDS Integers, Sequences, FiniteSets, FiniteSetsExt, SequencesExt

CONSTANTS RiskFree   \* the daily risk-free rate, in ten thousandths

Undefined == <<>>
Total(values) == FoldSeq(+, 0, values)

-----------------------------------------------------------------------------
(* The equity curve *)

\* The deepest fall from the running peak, [fall, peak].
Deeper(a, b) == a.fall * b.peak > b.fall * a.peak
MaxDrawdown(curve) ==
  LET step(acc, s) ==
        LET peak == Max({acc.peak, s.equity})
            here == [fall |-> peak - s.equity, peak |-> peak]
        IN [peak |-> peak, worst |-> IF Deeper(here, acc.worst) THEN here ELSE acc.worst]
      start == [peak |-> curve[1].equity, worst |-> [fall |-> 0, peak |-> 1]]
  IN FoldLeft(step, start, curve).worst

DayDrawdown(curve, day) ==
  LET today == SelectSeq(curve, LAMBDA s : s.day = day)
  IN IF Len(today) < 2 THEN Undefined ELSE <<MaxDrawdown(today)>>

\* One close per day, the last snapshot's; the excess returns from day to day.
Closes(curve) ==
  SelectSeq([i \in DOMAIN curve |->
               IF i < Len(curve) /\ curve[i + 1].day = curve[i].day THEN 0 ELSE curve[i].equity],
            LAMBDA e : e # 0)
Excess(curve) ==
  LET closes == Closes(curve)
  IN [i \in 1..(Len(closes) - 1) |-> (10000 * (closes[i + 1] - closes[i])) \div closes[i] - RiskFree]

\* n^2 times the population variance; zero for a constant.
Spread(values) == Len(values) * Total([i \in DOMAIN values |-> values[i] * values[i]]) - Total(values) * Total(values)

Judgeable(curve) == Len(Closes(curve)) >= 3

\* The ratios as <<mean, deviation>> up to positive factors.
Sharpe(curve) ==
  LET excess == Excess(curve)
  IN IF ~Judgeable(curve) \/ Spread(excess) = 0 THEN Undefined ELSE <<Total(excess), Spread(excess)>>
Sortino(curve) ==
  LET excess == Excess(curve)
      down == SelectSeq(excess, LAMBDA r : r < 0)
      deviation == IF Len(down) = 1 THEN -down[1] ELSE Spread(down)
  IN IF ~Judgeable(curve) \/ down = <<>> \/ deviation = 0 THEN Undefined ELSE <<Total(excess), deviation>>
Calmar(curve) ==
  IF Len(curve) < 2 \/ MaxDrawdown(curve).fall = 0 THEN Undefined
  ELSE <<Last(curve).equity - curve[1].equity, MaxDrawdown(curve)>>

-----------------------------------------------------------------------------
(* Closed trades *)

RMultiples(trades) ==
  LET risked == SelectSeq(trades, LAMBDA t : t.risk > 0)
  IN [i \in DOMAIN risked |-> (1000 * risked[i].pnl) \div (risked[i].risk * risked[i].qty)]

\* _aggregate_position_stats, and the same inline in compute_daily_performance.
Stats(trades) ==
  LET won == SelectSeq(trades, LAMBDA t : t.pnl > 0)
      lost == SelectSeq(trades, LAMBDA t : t.pnl <= 0)
      profit == Total([i \in DOMAIN won |-> won[i].pnl])
      loss == -Total([i \in DOMAIN lost |-> lost[i].pnl])
      rs == RMultiples(trades)
  IN [count |-> Len(trades), wins |-> Len(won), net |-> profit - loss,
      factor |-> IF loss > 0 THEN <<profit, loss>> ELSE Undefined,
      avgR |-> IF rs = <<>> THEN Undefined ELSE <<Total(rs), Len(rs)>>]

Daily(trades, day) ==
  LET today == SelectSeq(trades, LAMBDA t : t.day = day) IN Stats(today)

Strategy(t) == CASE t.side = "CE" -> "LONG_CALL" [] t.side = "PE" -> "LONG_PUT" [] OTHER -> "UNDERLYING"

\* compute_*_breakdown: the groups of a key that have trades.
Breakdown(trades, Key(_)) ==
  [k \in {Key(trades[i]) : i \in DOMAIN trades} |-> Stats(SelectSeq(trades, LAMBDA t : Key(t) = k))]
BySide(trades) == Breakdown(trades, LAMBDA t : t.side)
ByStrategy(trades) == Breakdown(trades, Strategy)
ByPhase(trades) == Breakdown(trades, LAMBDA t : t.phase)
ByExpiry(trades) == Breakdown(SelectSeq(trades, LAMBDA t : t.expiry # Undefined), LAMBDA t : t.expiry)

-----------------------------------------------------------------------------
(* Properties *)

\* The drawdown is the deepest relative fall from any snapshot to a later one, a
\* day's never deeper than the whole curve's.
DrawdownIsTheDeepest(curve) ==
  LET falls == {[fall |-> curve[p[1]].equity - curve[p[2]].equity, peak |-> curve[p[1]].equity] :
                  p \in {q \in (DOMAIN curve) \X (DOMAIN curve) : q[1] <= q[2]}}
      worst == MaxDrawdown(curve)
  IN /\ \A f \in falls : ~Deeper(f, worst)
     /\ worst.fall > 0 => worst \in falls
     /\ \A i \in DOMAIN curve : LET d == DayDrawdown(curve, curve[i].day) IN d # Undefined => ~Deeper(d[1], worst)

\* The ratios agree on the curve they judge: a curve Sortino can be told of has a
\* Sharpe ratio too, of the same sign, and it is not told of one that beats the
\* risk-free rate every day; no Calmar ratio exactly where the equity never falls.
RatiosAgree(curve) ==
  LET sign(x) == IF x > 0 THEN 1 ELSE IF x < 0 THEN -1 ELSE 0
  IN /\ Sortino(curve) # Undefined =>
          /\ Sharpe(curve) # Undefined /\ sign(Sharpe(curve)[1]) = sign(Sortino(curve)[1])
          /\ \E i \in DOMAIN Excess(curve) : Excess(curve)[i] < 0
     /\ Len(curve) >= 2 =>
          (Calmar(curve) = Undefined <=> \A i \in 2..Len(curve) : curve[i].equity >= curve[i - 1].equity)

\* Every breakdown adds up: no trade is dropped or counted twice, but for those
\* without a contract by expiry; the strategies are the sides under other names, and
\* a day broken down is the day's metrics ("computes these identically").
BreakdownsAddUp(trades) ==
  LET Sum(groups, Part(_)) == FoldSet(LAMBDA k, acc : acc + Part(groups[k]), 0, DOMAIN groups)
      AddsUp(groups, whole) ==
        /\ Sum(groups, LAMBDA s : s.count) = whole.count /\ Sum(groups, LAMBDA s : s.wins) = whole.wins
        /\ Sum(groups, LAMBDA s : s.net) = whole.net
      all == Stats(trades)
      contracts == SelectSeq(trades, LAMBDA t : t.side # "UNDERLYING")
  IN /\ AddsUp(BySide(trades), all) /\ AddsUp(ByStrategy(trades), all) /\ AddsUp(ByPhase(trades), all)
     /\ AddsUp(ByExpiry(trades), Stats(contracts))
     /\ \A i \in DOMAIN trades : ByStrategy(trades)[Strategy(trades[i])] = BySide(trades)[trades[i].side]
     /\ \A i \in DOMAIN trades :
          LET day == trades[i].day
              today == SelectSeq(trades, LAMBDA t : t.day = day)
          IN AddsUp(BySide(today), Daily(trades, day))
=============================================================================
