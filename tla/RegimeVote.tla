----------------------------- MODULE RegimeVote -----------------------------
(***************************************************************************)
(* The regime of a symbol over several timeframes                          *)
(* (market_data/multi_timeframe_regime.py): a majority of their regimes,   *)
(* told apart by direction, range and width.                               *)
(*                                                                         *)
(* A reading is [inds, bars]: the indicators of each timeframe that has    *)
(* enough candles, and of the reference timeframe's last twenty candles    *)
(* [count, close, high, low], the newest close and the range before it.    *)
(***************************************************************************)
EXTENDS SignalDecisions

Reads(inds, regime) == {tf \in DOMAIN inds : Regime(inds[tf]) = regime}
Half(S, inds) == 2 * Cardinality(S) >= Cardinality(DOMAIN inds)

\* _classify_trend_direction: slopes of the trending timeframes only.
TrendDirection(inds) ==
  LET trending == Reads(inds, "trending")
      up == {tf \in trending : inds[tf].slope9 > 0 /\ inds[tf].slope21 > 0}
      down == {tf \in trending : inds[tf].slope9 < 0 /\ inds[tf].slope21 < 0}
  IN IF Cardinality(up) > Cardinality(down) THEN "TRENDING_BULLISH"
     ELSE IF Cardinality(down) > Cardinality(up) THEN "TRENDING_BEARISH" ELSE "UNDEFINED"

\* _classify_sideways_subtype, by all timeframes.
SidewaysSubtype(inds) ==
  LET width == FoldSet(LAMBDA tf, sum : sum + inds[tf].bbWidth, 0, DOMAIN inds)
      extreme == {tf \in DOMAIN inds : inds[tf].rsi >= 65 \/ inds[tf].rsi <= 35}
  IN IF width < 15 * Cardinality(DOMAIN inds) THEN "LOW_VOLATILITY"
     ELSE IF Half(extreme, inds) THEN "MEAN_REVERSION" ELSE "SIDEWAYS"

\* _classify_high_vol_subtype
HighVolSubtype(inds, bars) ==
  IF bars.count >= 5 /\ bars.close >= bars.high THEN "BREAKOUT"
  ELSE IF bars.count >= 5 /\ bars.close <= bars.low THEN "BREAKDOWN"
  ELSE IF \A tf \in DOMAIN inds : inds[tf].bbWidth >= 120 THEN "EVENT_DRIVEN"
  ELSE "HIGH_VOLATILITY"

\* classify_composite_regime, with its confidence in percent.
Composite(reading) ==
  LET inds == reading.inds
      Share(regime) == (100 * Cardinality(Reads(inds, regime))) \div Cardinality(DOMAIN inds)
      subtype == HighVolSubtype(inds, reading.bars)
  IN IF inds = <<>> THEN <<"UNDEFINED", 0>>
     ELSE IF Half(Reads(inds, "high_volatility"), inds)
          THEN <<subtype, IF subtype = "EVENT_DRIVEN" THEN 30 ELSE Share("high_volatility")>>
     ELSE IF Half(Reads(inds, "trending"), inds) THEN <<TrendDirection(inds), Share("trending")>>
     ELSE IF Half(Reads(inds, "sideways"), inds) THEN <<SidewaysSubtype(inds), Share("sideways")>>
     ELSE <<"UNDEFINED", 30>>

-----------------------------------------------------------------------------
(* Properties *)

Family == [TRENDING_BULLISH |-> "trending", TRENDING_BEARISH |-> "trending",
           SIDEWAYS |-> "sideways", LOW_VOLATILITY |-> "sideways", MEAN_REVERSION |-> "sideways",
           HIGH_VOLATILITY |-> "high_volatility", BREAKOUT |-> "high_volatility",
           BREAKDOWN |-> "high_volatility", EVENT_DRIVEN |-> "high_volatility"]

\* The market in the mirror has the mirrored regime; a flat range touched from
\* both sides is a breakout.
VoteIsMirrored(reading) ==
  LET b == reading.bars
      other == [inds |-> [tf \in DOMAIN reading.inds |-> MirroredInd(reading.inds[tf])],
                bars |-> [b EXCEPT !.close = -b.close, !.high = -b.low, !.low = -b.high]]
      Flip == [TRENDING_BULLISH |-> "TRENDING_BEARISH", TRENDING_BEARISH |-> "TRENDING_BULLISH",
               BREAKOUT |-> "BREAKDOWN", BREAKDOWN |-> "BREAKOUT"]
      mine == Composite(reading)
  IN ~(b.high <= b.close /\ b.close <= b.low) =>
       Composite(other) = IF mine[1] \in DOMAIN Flip THEN <<Flip[mine[1]], mine[2]>> ELSE mine

\* No regime is outvoted: no other family has more of the timeframes, though half
\* of them is enough and of two halves the volatile one counts.
VoteIsNotOutvoted(reading) ==
  LET named == Composite(reading)[1]
      Votes(regime) == Cardinality(Reads(reading.inds, regime))
  IN named # "UNDEFINED" => \A regime \in {"trending", "sideways", "high_volatility"} :
                               Votes(regime) <= Votes(Family[named])
=============================================================================
