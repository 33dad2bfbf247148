---------------------------- MODULE PolicySignal ----------------------------
(***************************************************************************)
(* The decision of the autonomous paper trader (paper_trading/services/    *)
(* ai_signal_service.py): a direction from a weighted score or from the    *)
(* active policy model, a contract, the risk gate, a stop and a target.    *)
(* PaperTrading takes what is decided here as a choice.                    *)
(*                                                                         *)
(* Features are whole numbers: hist in hundredths, volume (relative) in    *)
(* tenths, None = -1 for an RSI or a volume that is not there; streak is   *)
(* signed.  Scores are in hundredths, premiums and distances in            *)
(* thousandths; chance: what the active model answers, in percent, None    *)
(* without one and when it cannot be used.                                 *)
(***************************************************************************)
EXTENDS Integers, Sequences, FiniteSetsExt, Functions

None == -1
Sign(up) == IF up THEN 1 ELSE -1

-----------------------------------------------------------------------------

\* HEURISTIC_WEIGHTS times what each rule says; a slope that does not rise falls.
Scores(f) ==
  [ema9 |-> 100 * Sign(f.slope9 > 0),
   ema21 |-> 60 * Sign(f.slope21 > 0),
   macd |-> IF f.hist > 0 THEN 12 * Min({10, f.hist}) ELSE -12 * Min({10, -f.hist}),
   rsi |-> IF f.rsi > 55 THEN 50 ELSE IF f.rsi # None /\ f.rsi < 45 THEN -50 ELSE 0,
   adx |-> IF f.adx >= 25 THEN 80 * Sign(f.slope9 > 0) ELSE 0,
   volume |-> IF f.volume > 12 THEN 40 * Sign(f.change > 0) ELSE 0,
   streak |-> IF f.streak >= 2 THEN 30 ELSE IF f.streak <= -2 THEN -30 ELSE 0]
Score(f) == FoldFunction(+, 0, Scores(f))

Side(score) == IF score > 0 THEN "CE" ELSE "PE"

\* A model only vetoes: the side is the score's, though the neutral band is not asked.
Direction(f, chance) ==
  IF chance # None
  THEN IF chance < 50 \/ Score(f) = 0 THEN "HOLD" ELSE Side(Score(f))
  ELSE IF Score(f) \in -149..149 THEN "HOLD" ELSE Side(Score(f))

\* The first method of SCALPING_METHOD_FUNCS that has an idea decides, buying only.
ScalpDirection(ideas, chance) ==
  IF {i \in DOMAIN ideas : ideas[i].fires} = {} \/ chance \in 0..49 THEN "HOLD" ELSE "CE"

-----------------------------------------------------------------------------
\* Stops stay at a tick at least.  quote: [ask (None: not quoted), ltp].

Tick == 50
EntryRef(quote) == IF quote.ask = None THEN quote.ltp ELSE quote.ask
Levels(entry, distance, reward) ==
  [entry |-> entry, stop |-> Max({Tick, entry - distance}), target |-> entry + (reward * distance) \div 2]

\* The underlying's ATR in thousandths stands for the premium's, not under a tenth of it.
SwingLevels(quote, atr) ==
  LET entry == EntryRef(quote)
      distance == IF atr = 0 THEN (15 * entry) \div 100 ELSE (75 * atr) \div 100
  IN Levels(entry, Max({distance, entry \div 10}), 4)

\* The idea's own risk in thousandths of its price, within SCALP_MIN and MAX_STOP_RATIO.
RiskRatio(idea) ==
  LET gap == idea.entry - idea.stop
      ratio == (1000 * Max({gap, -gap})) \div idea.entry
  IN IF ratio = 0 THEN 100 ELSE Max({50, Min({ratio, 250})})
ScalpLevels(quote, idea) ==
  LET entry == EntryRef(quote) IN Levels(entry, (RiskRatio(idea) * entry) \div 1000, 3)

\* evaluate_entry and evaluate_scalp_entry after the direction.
Decision(direction, selected, allowed) ==
  IF direction = "HOLD" THEN "HOLD"
  ELSE IF ~selected \/ ~allowed THEN "SKIP_SIGNAL" ELSE direction

-----------------------------------------------------------------------------
(* Properties *)

Mirrored(f) ==
  [f EXCEPT !.slope9 = -@, !.slope21 = -@, !.hist = -@, !.change = -@, !.streak = -@,
            !.rsi = IF @ = None THEN None ELSE 100 - @]
Other == [CE |-> "PE", PE |-> "CE", HOLD |-> "HOLD"]

\* A falling market is decided on like the rising one it mirrors, with and without a
\* model; of flat slopes and of volume on a flat candle only that they count as falling.
PolicyIsMirrored(f, chance) ==
  LET flat == f.slope9 = 0 \/ f.slope21 = 0 \/ (f.volume > 12 /\ f.change = 0)
  IN IF flat THEN Score(f) + Score(Mirrored(f)) <= 0
     ELSE Direction(Mirrored(f), chance) = Other[Direction(f, chance)]

\* A promoted model never turns a trade round: where the heuristic and the policy
\* with a model both trade, they trade the same side ("heuristic confirms").  What it
\* vetoes is traded neither as a swing nor as a scalp ("the exact same win_prob < 0.5
\* confidence gate").
ModelOnlyVetoes(f, ideas, chance) ==
  LET with == Decision(Direction(f, chance), TRUE, TRUE)
      without == Decision(Direction(f, None), TRUE, TRUE)
  IN /\ "HOLD" \in {with, without} \/ with = without
     /\ chance \in 0..49 => {with, Decision(ScalpDirection(ideas, chance), TRUE, TRUE)} = {"HOLD"}

\* What an entry may lose and gain: for every premium above a tick the stop lies
\* under it and at a tick at least, and the reward is at least the multiple of the
\* risk taken, two for a swing and one and a half for a scalp, whose risk stays
\* between 5 and 25 % of the premium.
EntryHasItsReward(quote, atr, idea) ==
  LET swing == SwingLevels(quote, atr)
      scalp == ScalpLevels(quote, idea)
      Sound(l) == Tick <= l.stop /\ l.stop < l.entry
  IN EntryRef(quote) > Tick =>
       /\ Sound(swing) /\ swing.target - swing.entry >= 2 * (swing.entry - swing.stop)
       /\ Sound(scalp) /\ 2 * (scalp.target - scalp.entry) + 1 >= 3 * (scalp.entry - scalp.stop)
       /\ 4 * (scalp.entry - scalp.stop) <= scalp.entry
=============================================================================
