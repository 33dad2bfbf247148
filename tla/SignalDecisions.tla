--------------------------- MODULE SignalDecisions ---------------------------
(***************************************************************************)
(* The decisions of the two signal engines as functions of what they read: *)
(* the general engine (apps.signals.engine) and the index strategy that    *)
(* buys real option contracts (apps.options.index_direction_strategy),     *)
(* with the model's veto and nudge (apps.learning.ml_predict).             *)
(*                                                                         *)
(* Indicators are records of whole numbers. order, sar, macd and hist are  *)
(* signs of what the conditions compare (close > ema9 > ema21, close - sar,*)
(* macd - signal, histogram - the one before); streak counts the closes    *)
(* above (positive) or below (negative) ema9; volume is in tenths, None    *)
(* when none is reported, bbWidth in thousandths, atr = 0 or none: invalid.*)
(*                                                                         *)
(* A case is what one evaluation reads: ind; headlines, the sides a strong *)
(* headline speaks for; view, the option chain; history, the simulated     *)
(* trades per side as [count, wins, total]; risk, what check_pre_trade     *)
(* says, [approved, size]; chance, the model's percentage or None; lot.    *)
(***************************************************************************)
EXTENDS OptionFlow

CONSTANT Limits   \* [spread, oi, volume]: percent and minima of RISK_HARD_LIMITS

Regime(ind) ==
  IF ind.bbWidth >= 60 THEN "high_volatility" ELSE IF ind.adx >= 25 THEN "trending" ELSE "sideways"
RegimePercent == [trending |-> 100, sideways |-> 50, high_volatility |-> 50]

-----------------------------------------------------------------------------
(* Technical conditions: functions from their names to Booleans *)

Reported(ind, conditions) ==
  IF ind.volume # None THEN conditions ELSE Restrict(conditions, DOMAIN conditions \ {"volume"})
Matched(conditions) == {n \in DOMAIN conditions : conditions[n]}

Bullish(ind) ==
  Reported(ind,
    [trend |-> ind.order > 0, ema9 |-> ind.slope9 > 0, ema21 |-> ind.slope21 >= 0,
     sar |-> ind.sar > 0, macd |-> ind.macd > 0, hist |-> ind.hist > 0,
     rsi |-> ind.rsi > (IF Regime(ind) = "sideways" THEN 60 ELSE 50), volume |-> ind.volume >= 12])

\* A plausible slip in the mirrored rule: no stricter bar in a sideways market.
BearishWithOneBar(ind) ==
  Reported(ind,
    [trend |-> ind.order < 0, ema9 |-> ind.slope9 < 0, ema21 |-> ind.slope21 <= 0,
     sar |-> ind.sar < 0, macd |-> ind.macd < 0, hist |-> ind.hist < 0,
     rsi |-> ind.rsi < 50, volume |-> ind.volume >= 12])
Bearish(ind) ==
  Reported(ind,
    [trend |-> ind.order < 0, ema9 |-> ind.slope9 < 0, ema21 |-> ind.slope21 <= 0,
     sar |-> ind.sar < 0, macd |-> ind.macd < 0, hist |-> ind.hist < 0,
     rsi |-> ind.rsi < (IF Regime(ind) = "sideways" THEN 40 ELSE 50), volume |-> ind.volume >= 12])

\* Thresholds in thousandths, raised in high volatility.
Threshold(base, ind) ==
  IF Regime(ind) # "high_volatility" THEN base ELSE Min({1000, base + 125})
Clears(conditions, base, ind) ==
  1000 * Cardinality(Matched(conditions)) >= Threshold(base, ind) * Cardinality(DOMAIN conditions)

\* determine_index_direction: a clear majority on one side.
ClearMajority(mine, theirs, ind) ==
  Clears(mine, 700, ind) /\ Cardinality(Matched(mine)) > Cardinality(Matched(theirs))
Direction(ind) ==
  IF ClearMajority(Bullish(ind), Bearish(ind), ind) THEN "bullish"
  ELSE IF ClearMajority(Bearish(ind), Bullish(ind), ind) THEN "bearish"
  ELSE "none"

ExitLong(ind) ==
  Reported(ind, [streak |-> ind.streak <= -2, sar |-> ind.sar < 0, hist |-> ind.hist < 0,
                 rsi |-> ind.rsi < 50, volume |-> ind.volume < 8])
ExitShort(ind) ==
  Reported(ind, [streak |-> ind.streak >= 2, sar |-> ind.sar > 0, hist |-> ind.hist > 0,
                 rsi |-> ind.rsi > 50, volume |-> ind.volume < 8])
ShouldExit(ind, side) ==
  LET conditions == IF side = "LONG" THEN ExitLong(ind) ELSE ExitShort(ind)
  IN 2 * Cardinality(Matched(conditions)) >= Cardinality(DOMAIN conditions)

-----------------------------------------------------------------------------
(* The model, and the general engine *)

LowConfidence(chance) == chance # None /\ chance < 50

\* ml_confidence_size_multiplier in thousandths.
Nudge(chance) ==
  IF chance = None THEN 1000 ELSE Max({700, Min({1150, 1000 + 6 * (chance - 50)})})
Scaled(size, ind, chance) == (size * RegimePercent[Regime(ind)] * Nudge(chance)) \div 100000

GeneralPasses(case) ==
  /\ Clears(Bullish(case.ind), 800, case.ind) /\ "bearish" \notin case.headlines
  /\ FlowConfirms(case.view, "bullish")
  /\ case.risk.approved /\ ~LowConfidence(case.chance)

\* generate_signal buys the underlying: target 1 is the stop's distance above.
GeneralSignal(case) ==
  LET stop == 2 * case.ind.close - 3 * case.ind.atr                   \* in halves
      passed == GeneralPasses(case)
  IN [status |-> IF passed THEN "approved" ELSE "rejected", entry |-> 2 * case.ind.close, stop |-> stop,
      targets |-> <<4 * case.ind.close - stop, 6 * case.ind.close - 2 * stop>>,
      size |-> IF passed THEN Scaled(case.risk.size, case.ind, case.chance) ELSE 0]

-----------------------------------------------------------------------------
(* The index strategy: the first stage that fails rejects the setup *)

Profitable(history) ==
  history.count >= 5 /\ 2 * history.wins > history.count /\ history.total > 0

\* The premium's levels in thousandths: delta carries 1.5 ATR over.
Premium(contract, ind) ==
  LET entry == 1000 * contract.ltp
      distance == 15 * ind.atr * Gap(contract.delta, 0)
  IN [entry |-> entry, stop |-> entry - distance,
      targets |-> <<entry + distance, entry + 2 * distance>>]

\* The stage that rejects the setup of a side before a contract is chosen.
SetupStage(case, side) ==
  IF side = "none" THEN "direction"
  ELSE IF ~Profitable(case.history[side]) THEN "success_rate"
  ELSE IF OtherSide[side] \in case.headlines THEN "sentiment"
  ELSE IF case.ind.atr <= 0 THEN "risk"
  ELSE IF ~FlowConfirms(case.view, side) THEN "options_confluence"
  ELSE IF case.view.chain = {} THEN "expiry"
  ELSE IF ~ChainIsAlive(case.view) THEN "data_quality"
  ELSE "passed"

\* The contract, as OptionsStrategySettings has the strike picked, and the stage
\* that rejects it.
Suggestions(case, mode) == Suggested(case.view, Direction(case.ind), mode, 1)
ContractStage(case, picked) ==
  LET contract == CHOOSE c \in picked : TRUE
  IN IF picked = {} THEN "strike"
     ELSE IF ~Liquid(contract, Limits) THEN "liquidity"
     ELSE IF Premium(contract, case.ind).stop <= 0 THEN "strike"
     ELSE "passed"

LastStage(case) ==
  IF ~case.risk.approved THEN "risk"
  ELSE IF LowConfidence(case.chance) THEN "ml_confidence"
  ELSE IF Scaled(case.risk.size, case.ind, case.chance) < case.lot THEN "lot_size"
  ELSE "approved"

FirstFailing(setup, contract, last) ==
  IF setup # "passed" THEN setup ELSE IF contract # "passed" THEN contract ELSE last
Stage(case, mode) ==
  FirstFailing(SetupStage(case, Direction(case.ind)), ContractStage(case, Suggestions(case, mode)),
               LastStage(case))

\* The trade of a setup no stage rejected, in whole lots.
Trade(case, contract) ==
  Premium(contract, case.ind) @@
  [contract |-> contract,
   size |-> (Scaled(case.risk.size, case.ind, case.chance) \div case.lot) * case.lot]
IndexSignal(case, mode) == Trade(case, CHOOSE c \in Suggestions(case, mode) : TRUE)

-----------------------------------------------------------------------------
(* What the decisions promise *)

MirroredInd(ind) ==
  [ind EXCEPT !.order = -@, !.slope9 = -@, !.slope21 = -@, !.sar = -@, !.macd = -@, !.hist = -@,
              !.streak = -@, !.rsi = 100 - @]
MirroredCase(case) ==
  [case EXCEPT !.ind = MirroredInd(@), !.headlines = {OtherSide[h] : h \in @},
               !.view = Mirrored(@),
               !.history = [side \in DOMAIN @ |-> @[OtherSide[side]]]]

\* The bearish rules are the bullish ones seen in the mirror (engine.py): the
\* mirrored market gives the opposite direction and lets a short position exit
\* where it lets a long one exit.
RulesAreMirrored(ind) ==
  /\ Direction(MirroredInd(ind)) = (OtherSide @@ [none |-> "none"])[Direction(ind)]
  /\ ShouldExit(ind, "LONG") = ShouldExit(MirroredInd(ind), "SHORT")
  /\ ShouldExit(ind, "SHORT") = ShouldExit(MirroredInd(ind), "LONG")

\* The factors that confirm a thesis, and the strategy named for it, are those of
\* the mirrored market (confirmation.py, strategy_selector.py), but for the skew.
ConfirmationIsMirrored(case) ==
  LET Flip == OtherSide @@ [neutral |-> "neutral", unavailable |-> "unavailable"]
      Plain(f) == [f EXCEPT !.skew = "unavailable"]
      other == MirroredCase(case)
      Renamed == [LONG_CALL |-> "LONG_PUT", BULL_CALL_SPREAD |-> "BEAR_PUT_SPREAD"]
      Opposite == [outside_upper |-> "outside_lower", near_upper |-> "near_lower",
                   near_lower |-> "near_upper", outside_lower |-> "outside_upper", inside |-> "inside"]
  IN /\ \A side \in {"bullish", "bearish"} :
          LET mine == Plain(Factors(case.view, side, case.ind))
              theirs == Plain(Factors(other.view, OtherSide[side], other.ind))
          IN /\ theirs = [f \in DOMAIN mine |-> Flip[mine[f]]]
             /\ Conflict(mine, side) = Conflict(theirs, OtherSide[side])
     /\ \A regime \in TrendingRegimes \union {Regime(case.ind)}, rank \in {None, 30, 50, 70},
           conflict \in {"low", "high"}, position \in DOMAIN Opposite :
          LET call == Strategy("bullish", regime, rank, position, conflict)
          IN Strategy("bearish", regime, rank, Opposite[position], conflict)
               = IF call \in DOMAIN Renamed THEN Renamed[call] ELSE call

\* The whole cascade treats a put setup like the mirrored call setup.
CascadeIsMirrored(case) ==
  \A mode \in {"ai", "itm"} : Stage(case, mode) = Stage(MirroredCase(case), mode)

\* The weights of ScoringWeights in percent.
Weights == [trend |-> 18, momentum |-> 12, oi |-> 15, volume |-> 7, skew |-> 8, greeks |-> 10,
            liquidity |-> 13, expected_move |-> 8, risk_reward |-> 9]
\* How an approved setup is shown: its first target is one risk away.
ShownApproved(case, signal, move) ==
  Shown(case.view, Direction(case.ind), case.ind, signal.contract, move, Regime(case.ind),
        (10 * (signal.targets[1] - signal.entry)) \div (signal.entry - signal.stop), Weights)
ShownFairly(shown) ==
  shown.score \in 0..100 /\ (shown.conflict = "high" => shown.strategy = "NO_TRADE")

\* An approved setup can be placed: a contract of its side, its stop below and
\* its targets above a real premium, whole lots, and never more than 15% over
\* the size the risk engine approved; it is shown with a score, and no strategy is
\* named for it against a high conflict.
Complete(case, signal) ==
  /\ signal.contract.type = TypeOf[Direction(case.ind)]
  /\ 0 < signal.stop /\ signal.stop < signal.entry
  /\ signal.entry < signal.targets[1] /\ signal.targets[1] < signal.targets[2]
  /\ signal.size > 0 /\ signal.size % case.lot = 0
  /\ 100 * signal.size <= 115 * case.risk.size
  /\ \A move \in {None, 0, 4} : ShownFairly(ShownApproved(case, signal, move))
ApprovedIsComplete(case) ==
  \A mode \in {"ai", "itm"} : Stage(case, mode) = "approved" => Complete(case, IndexSignal(case, mode))

\* A setup both engines consider is not bought by one against the other: the
\* general engine buys only where the index strategy sees no bearish market.
EnginesAgree(case) ==
  GeneralSignal(case).status = "approved" => Direction(case.ind) # "bearish"
=============================================================================
