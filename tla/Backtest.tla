------------------------------ MODULE Backtest ------------------------------
(***************************************************************************)
(* Simulated trades over a candle history: the backtest and its walk       *)
(* forwards (apps.analytics.backtest), the bootstrap of the index strategy *)
(* (apps.options.index_direction_strategy) and the labels of the technical *)
(* model (apps.learning.ml_technical).                                     *)
(*                                                                         *)
(* A frame is a sequence of bars [low, high, close, atr, up, down,         *)
(* volatile]: up and down are the shares of bullish and bearish conditions *)
(* in thousandths (SignalDecisions), atr <= 0 stands for an invalid one.   *)
(* Levels are in halves of a price, R multiples in thousandths.            *)
(***************************************************************************)
EXTENDS Integers, FiniteSets, FiniteSetsExt, Functions, SequencesExt

CONSTANTS
  Combos,       \* the grid: a sequence of [score, stop], stop in halves of the ATR
  MaxHolding,   \* DEFAULT_MAX_HOLDING_BARS
  MinTrades,    \* min_trades_to_rank
  MinSegment,   \* the candles a fold needs
  Slippage, Fees   \* per side, in percent

BacktestAssumption ==
  /\ Combos # <<>> /\ MaxHolding \in Nat \ {0} /\ MinTrades \in Nat \ {0}
  /\ MinSegment \in Nat \ {0} /\ Slippage \in 0..99 /\ Fees \in 0..99

-----------------------------------------------------------------------------
(* One trade *)

StopHit(b, stop, up) == IF up THEN 2 * b.low <= stop ELSE 2 * b.high >= stop
TargetHit(b, target, up) == IF up THEN 2 * b.high >= target ELSE 2 * b.low <= target
Leaving(frame, hits, stop, target, last, up) ==
  IF hits = {} THEN [at |-> last, price |-> 2 * frame[last].close]
  ELSE [at |-> Min(hits), price |-> IF StopHit(frame[Min(hits)], stop, up) THEN stop ELSE target]
\* The first bar after the entry at which a level is touched, the stop first; at
\* the last bar the trade ends at its close.
Exit(frame, entry, stop, target, last, up) ==
  Leaving(frame, {i \in (entry + 1)..last : StopHit(frame[i], stop, up) \/ TargetHit(frame[i], target, up)},
          stop, target, last, up)

\* _trade_with_costs: both fills slip against the trade and both pay fees.
NetR(entry, exit, risk) ==
  LET bought == entry * (100 + Slippage)
      sold == exit * (100 - Slippage)
  IN (100 * (sold - bought) - (sold + bought) * Fees) \div (10 * risk)

Ended(i, entry, risk, exit) ==
  [entry |-> i, exit |-> exit.at, gross |-> (1000 * (exit.price - entry)) \div risk,
   net |-> NetR(entry, exit.price, risk)]
Trade(frame, i, combo, last) ==
  LET entry == 2 * frame[i].close
      risk == combo.stop * frame[i].atr
  IN Ended(i, entry, risk,
           Exit(frame, i, entry - risk, entry + risk, Min({i + MaxHolding, last}), TRUE))

-----------------------------------------------------------------------------
(* Backtest: bars first..last, one trade at a time *)

Enters(bar, combo) ==
  /\ bar.up >= (IF bar.volatile THEN Min({1000, combo.score + 125}) ELSE combo.score)
  /\ bar.atr > 0

Trades(frame, combo, first, last) ==
  LET from[i \in 1..(Len(frame) + 1)] ==
        IF i >= last THEN <<>>
        ELSE IF ~Enters(frame[i], combo) THEN from[i + 1]
        ELSE LET t == Trade(frame, i, combo, last) IN <<t>> \o from[t.exit + 1]
  IN from[Max({first, 2})]

Total(values) == FoldSeq(+, 0, values)
Nets(trades) == [i \in DOMAIN trades |-> trades[i].net]
Expectancy(trades) == Total(Nets(trades)) \div Len(trades)

\* The first of the best combinations on the bars up to last, as a set: empty
\* when none has enough trades.
Selected(frame, last) ==
  LET result == [k \in DOMAIN Combos |-> Trades(frame, Combos[k], 2, last)]
      ranked == {k \in DOMAIN Combos : Len(result[k]) >= MinTrades}
      best == {k \in ranked : \A j \in ranked : Expectancy(result[k]) >= Expectancy(result[j])}
  IN IF ranked = {} THEN {} ELSE {Combos[Min(best)]}

\* An off-by-one of the training slice: it reads the first bar of the test slice.
WalkForwardOverlapping(frame, split) ==
  LET selected == Selected(frame, split + 1)
  IN [selected |-> selected,
      test |-> {Trades(frame, c, split + 1, Len(frame)) : c \in selected}]
WalkForward(frame, split) ==
  LET selected == Selected(frame, split)
  IN [selected |-> selected,
      test |-> {Trades(frame, c, split + 1, Len(frame)) : c \in selected}]

\* rolling_walk_forward_backtest: folds test windows behind a growing training
\* window; a fold without a ranked combination is left out.
Window(frame, folds, k) ==
  LET size == Len(frame) \div (folds + 1)
  IN [train |-> size * k, last |-> Min({size * (k + 1), Len(frame)})]
Folds(frame, folds) ==
  IF folds < 2 \/ Len(frame) \div (folds + 1) < MinSegment THEN <<>>
  ELSE FlattenSeq([k \in 1..folds |->
         LET window == Window(frame, folds, k)
             selected == Selected(frame, window.train)
         IN IF selected = {} THEN <<>>
            ELSE <<[window |-> window,
                    test |-> Trades(frame, CHOOSE c \in selected : TRUE, window.train + 1, window.last)]>>])
Pooled(folds) == FlattenSeq([k \in DOMAIN folds |-> Nets(folds[k].test)])

\* _aggregate_r_multiples: the drawdown of the running total, which starts at 0.
MaxDrawdown(values) ==
  FoldLeft(LAMBDA acc, r : LET total == acc.total + r
                               peak == Max({acc.peak, total})
                           IN [total |-> total, peak |-> peak, worst |-> Max({acc.worst, peak - total})],
           [total |-> 0, peak |-> 0, worst |-> 0], values).worst

-----------------------------------------------------------------------------
(* The bootstrap of a direction, with its own loop over the same bars *)

Bootstrap(frame, up) ==
  LET Skips(b) == b.volatile \/ (IF up THEN b.up ELSE b.down) < 700 \/ b.atr <= 0
      Simulated(i) ==
        LET entry == 2 * frame[i].close
            risk == 3 * frame[i].atr
            sign == IF up THEN 1 ELSE -1
            exit == Exit(frame, i, entry - sign * risk, entry + sign * risk,
                         Min({i + MaxHolding, Len(frame)}), up)
        IN [entry |-> i, exit |-> exit.at, gross |-> (1000 * sign * (exit.price - entry)) \div risk]
      from[i \in 1..(Len(frame) + 1)] ==
        IF i > Len(frame) THEN <<>>
        ELSE IF Skips(frame[i]) THEN from[i + 1]
        ELSE LET t == Simulated(i) IN <<t>> \o from[t.exit + 1]
  IN from[2]

\* success_rate_for_side over the bootstrap's R multiples.
SuccessRate(frame, up) ==
  LET trades == Bootstrap(frame, up)
      gross == [i \in DOMAIN trades |-> trades[i].gross]
      wins == Cardinality({i \in DOMAIN gross : gross[i] > 0})
  IN [available |-> Len(trades) >= 5,
      profitable |-> Len(trades) >= 5 /\ 2 * wins > Len(trades) /\ Total(gross) > 0]

-----------------------------------------------------------------------------
(* The technical model's rows: one labelled trade per bar *)

Labelled(frame) == {i \in 1..(Len(frame) - 1) : frame[i].atr > 0}
Label(frame, i) ==
  LET entry == 2 * frame[i].close
      risk == 3 * frame[i].atr
      exit == Exit(frame, i, entry - risk, entry + risk, Min({i + MaxHolding, Len(frame)}), TRUE)
  IN [win |-> exit.price > entry, end |-> exit.at]

\* _fit_and_evaluate: three quarters of the rows train, without those whose label
\* was not known when the first holdout row's bar closed.
HoldoutStart(frame) ==
  LET rows == Labelled(frame)
  IN CHOOSE r \in rows : Cardinality({q \in rows : q < r}) = (3 * Cardinality(rows)) \div 4
TrainingRows(frame) ==
  {i \in Labelled(frame) : i < HoldoutStart(frame) /\ Label(frame, i).end < HoldoutStart(frame)}

-----------------------------------------------------------------------------
(* What the simulations promise *)

\* The history with another future from bar n + 1 on.
OtherFuture(frame, n) ==
  [i \in DOMAIN frame |-> IF i <= n THEN frame[i] ELSE frame[Len(frame) + n + 1 - i]]

\* What is selected for a test window, and what a model is trained on, does not
\* depend on the bars behind it (walk_forward_backtest, _fit_and_evaluate).
NoLookahead(frame) ==
  /\ \A n \in 2..(Len(frame) - 1) :
       WalkForward(frame, n).selected = WalkForward(OtherFuture(frame, n), n).selected
  /\ Cardinality(Labelled(frame)) > 3 =>
       LET n == HoldoutStart(frame) - 1
       IN \A i \in TrainingRows(frame) : Label(frame, i) = Label(OtherFuture(frame, n), i)

\* Trades neither overlap nor leave their slice, and every pooled R multiple is
\* from a bar that was in no training window it was selected on.
InTurn(trades, last) ==
  \A i \in DOMAIN trades :
    /\ trades[i].entry < trades[i].exit /\ trades[i].exit <= last
    /\ i > 1 => trades[i - 1].exit < trades[i].entry
Unseen(folds) ==
  \A k \in DOMAIN folds : \A i \in DOMAIN folds[k].test :
    /\ folds[k].test[i].entry > folds[k].window.train
    /\ \A j \in 1..(k - 1) : folds[k].test[i].entry > folds[j].window.last
TradesStayInTheirSlice(frame) ==
  /\ \A k \in DOMAIN Combos, last \in 2..Len(frame) : InTurn(Trades(frame, Combos[k], 2, last), last)
  /\ Unseen(Folds(frame, 2))

\* The drawdown is the deepest fall of the running total from any earlier one.
DrawdownIsTheDeepestFall(frame) ==
  \A values \in {Nets(Trades(frame, Combos[1], 2, Len(frame))), Pooled(Folds(frame, 2))} :
    LET Sum(n) == Total(SubSeq(values, 1, n))
        Falls == {p \in (0..Len(values)) \X (0..Len(values)) : p[1] <= p[2]}
    IN MaxDrawdown(values) = Max({Sum(p[1]) - Sum(p[2]) : p \in Falls})

\* The bootstrap's loop is the backtest's (index_direction_strategy.py), but for
\* an entry at the last bar, which it counts as a trade of 0 R, and for volatile
\* bars, which it skips.
BootstrapIsTheBacktest(frame) ==
  (\A i \in DOMAIN frame : ~frame[i].volatile) =>
    LET mine == SelectSeq(Bootstrap(frame, TRUE), LAMBDA t : t.entry < t.exit)
        theirs == Trades(frame, [score |-> 700, stop |-> 3], 2, Len(frame))
    IN [i \in DOMAIN mine |-> mine[i].gross] = [i \in DOMAIN theirs |-> theirs[i].gross]

\* A falling history is bootstrapped like the rising one it mirrors.
MirroredFrame(frame) ==
  LET top == 2 * Max({frame[i].high : i \in DOMAIN frame})
  IN [i \in DOMAIN frame |->
        [frame[i] EXCEPT !.low = top - frame[i].high, !.high = top - frame[i].low,
                         !.close = top - @, !.up = frame[i].down, !.down = frame[i].up]]
BootstrapIsMirrored(frame) ==
  \A up \in BOOLEAN :
    /\ Bootstrap(frame, up) = Bootstrap(MirroredFrame(frame), ~up)
    /\ SuccessRate(frame, up) = SuccessRate(MirroredFrame(frame), ~up)
=============================================================================
