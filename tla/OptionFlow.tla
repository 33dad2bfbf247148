----------------------------- MODULE OptionFlow -----------------------------
(***************************************************************************)
(* What the option strategies read off an option chain (apps.options):     *)
(* the flow and its vetoes, the chain's quality, the strike to buy, the    *)
(* factors that confirm a thesis and the strategy they are shown as.       *)
(*                                                                         *)
(* A chain is a set of contracts with what their newest snapshots say:     *)
(*   strike, type, oi, volume, ltp, bid, ask (0: none), delta in percent   *)
(*   (0: no implied volatility found), theta, iv, past: the older IVs,     *)
(*   change: {} or the step between the two newest snapshots as            *)
(*   [oi, price] in tenths of a percent, fresh: at most 15 minutes old.    *)
(* A view is [chain, spot, daysLeft]; spot = 0 when there is no candle.    *)
(***************************************************************************)
EXTENDS Integers, FiniteSets, FiniteSetsExt, Functions, SequencesExt

None == -1
Gap(a, b) == IF a >= b THEN a - b ELSE b - a

OtherType == [CE |-> "PE", PE |-> "CE"]
OtherSide == [bullish |-> "bearish", bearish |-> "bullish"]
TypeOf == [bullish |-> "CE", bearish |-> "PE"]

Side(chain, type) == {c \in chain : c.type = type}
OpenInterest(chain, type) == MapThenSumSet(LAMBDA c : c.oi, Side(chain, type))

-----------------------------------------------------------------------------
(* Flow *)

Weight(c) == IF c.oi = 0 THEN 1 ELSE c.oi
Step(c) == CHOOSE s \in c.change : TRUE
Reading(weight, oiRises, bullish) ==
  IF weight = 0 THEN "none"
  ELSE IF oiRises THEN IF bullish THEN "buildup_bullish" ELSE "buildup_bearish"
  ELSE IF bullish THEN "short_covering" ELSE "long_unwinding"
SideSignal(chain, type) ==
  LET seen == {c \in Side(chain, type) : c.change # {}}
      weight == MapThenSumSet(Weight, seen)
      pricesRise == MapThenSumSet(LAMBDA c : Weight(c) * Step(c).price, seen) > 5 * weight
  IN Reading(weight, MapThenSumSet(LAMBDA c : Weight(c) * Step(c).oi, seen) > 10 * weight,
             pricesRise = (type = "CE"))

\* The flags of evaluate_options_signals that speak for a side.
FlagsFor(side, call, put) ==
  IF side = "bullish"
  THEN (IF call = "buildup_bullish" THEN {"bullish_call_buildup"} ELSE {})
         \union ({call, put} \intersect {"short_covering"})
  ELSE (IF put = "buildup_bearish" THEN {"bearish_put_buildup"} ELSE {})
         \union ({call, put} \intersect {"long_unwinding"})
Flags(chain, side) == FlagsFor(side, SideSignal(chain, "CE"), SideSignal(chain, "PE"))

Pain(chain, settlement) ==
  MapThenSumSet(LAMBDA c : c.oi * Max({0, IF c.type = "CE" THEN settlement - c.strike
                                          ELSE c.strike - settlement}), chain)
MaxPain(chain) ==
  LET strikes == {c.strike : c \in chain}
      least == Min({Pain(chain, s) : s \in strikes})
  IN Min({s \in strikes : Pain(chain, s) = least})

\* The position of an IV in its past, in percent; None without a spread.
IvRank(iv, past) ==
  IF past = {} \/ Max(past) = Min(past) THEN None
  ELSE (100 * (iv - Min(past))) \div (Max(past) - Min(past))

Crushed(chain) == \E c \in chain : IvRank(c.iv, c.past) >= 80
Decaying(view) == view.daysLeft \in 0..1
Pinned(view) ==
  /\ view.daysLeft = 0 /\ view.chain # {} /\ view.spot > 0
  /\ 200 * Gap(view.spot, MaxPain(view.chain)) <= MaxPain(view.chain)
Vetoed(view) == Crushed(view.chain) \/ Decaying(view) \/ Pinned(view)

PcrAgrees(chain, side) ==
  LET calls == OpenInterest(chain, "CE")
      puts == OpenInterest(chain, "PE")
  IN calls > 0 /\ (IF side = "bullish" THEN puts > calls ELSE puts < calls)

\* options_confluence_score in twentieths; no chain at all is neutral.
Confluence(view, side) ==
  IF view.chain = {} THEN 10
  ELSE IF Vetoed(view) THEN 0
  ELSE Max({0, Min({20, 10 + 5 * Cardinality(Flags(view.chain, side))
                           - 5 * Cardinality(Flags(view.chain, OtherSide[side]))
                           + (IF PcrAgrees(view.chain, side) THEN 3 ELSE 0)})})
FlowConfirms(view, side) ==
  (view.chain = {} \/ ~Vetoed(view)) /\ Confluence(view, side) >= 7

-----------------------------------------------------------------------------
(* Quality, liquidity and the strike *)

\* validate_option_chain_snapshot asks for one fresh price in the whole chain.
ChainIsAlive(view) == view.daysLeft >= 0 /\ \E c \in view.chain : c.fresh /\ c.ltp > 0

Liquid(c, limits) ==
  /\ c.bid > 0 /\ c.ask > 0
  /\ 200 * (c.ask - c.bid) <= limits.spread * (c.ask + c.bid)
  /\ c.oi >= limits.oi /\ c.volume >= limits.volume

Candidates(view, side) == {c \in Side(view.chain, TypeOf[side]) : c.ltp > 0 /\ c.delta # 0}
SweetSpot(c) == Gap(c.delta, 0) \in 35..65

\* suggest_best_strike's score of a candidate in thousandths.
Score(c, eligible) ==
  LET most == [oi |-> Max({1} \union {e.oi : e \in eligible}),
               volume |-> Max({1} \union {e.volume : e \in eligible})]
  IN (360 * c.oi) \div most.oi + (240 * c.volume) \div most.volume
       + Max({0, 400 - (4000 * Gap(c.theta, 0)) \div c.ltp})

\* _pick_by_moneyness: steps strikes from the one at the money, the lower of two.
ByMoneyness(candidates, spot, type, mode, steps) ==
  LET sorted == SetToSortSeq(candidates, LAMBDA c, d : c.strike < d.strike)
      nearest == Min({Gap(c.strike, spot) : c \in candidates})
      atm == SelectInSeq(sorted, LAMBDA c : Gap(c.strike, spot) = nearest)
      step == IF mode = "atm" THEN 0
              ELSE IF (type = "CE") = (mode = "itm") THEN -steps ELSE steps
  IN sorted[Max({1, Min({atm + step, Len(sorted)})})]

\* The contract suggested, as a set: empty when there is none.
Suggested(view, side, mode, steps) ==
  LET all == IF view.spot = 0 \/ Decaying(view) THEN {} ELSE Candidates(view, side)
      eligible == {c \in all : SweetSpot(c)}
      best == {c \in eligible : \A e \in eligible : Score(c, eligible) >= Score(e, eligible)}
  IN IF mode = "ai" THEN IF best = {} THEN {} ELSE {CHOOSE c \in best : TRUE}
     ELSE IF all = {} THEN {} ELSE {ByMoneyness(all, view.spot, TypeOf[side], mode, steps)}

-----------------------------------------------------------------------------
(* Confirmation and the strategy shown *)

Sign(n, dead) == IF n > dead THEN "bullish" ELSE IF n < -dead THEN "bearish" ELSE "neutral"

\* The IV of the contract nearest to a 25 delta.
WingIv(chain, type) ==
  LET solved == {c \in Side(chain, type) : c.delta # 0}
      nearest == Min({Gap(Gap(c.delta, 0), 25) : c \in solved})
  IN IF solved = {} THEN None
     ELSE (CHOOSE c \in solved : Gap(Gap(c.delta, 0), 25) = nearest).iv
Skew(chain) ==
  LET put == WingIv(chain, "PE")
      call == WingIv(chain, "CE")
  IN IF None \in {put, call} THEN "unavailable"
     ELSE IF put < call THEN "bullish" ELSE IF put - call > 3 THEN "bearish" ELSE "neutral"

\* ind: [slope9, slope21, hist, volume], signs and tenths (None: not reported).
Factors(view, side, ind) ==
  LET oi == SideSignal(view.chain, TypeOf[side])
  IN [trend |-> IF ind.slope9 * ind.slope21 > 0 THEN Sign(ind.slope9, 0) ELSE "neutral",
      momentum |-> Sign(ind.hist, 0),
      oi |-> IF oi = "none" THEN "unavailable"
             ELSE IF oi \in {"buildup_bullish", "short_covering"} THEN "bullish" ELSE "bearish",
      volume |-> IF ind.volume = None THEN "unavailable"
                 ELSE IF ind.volume <= 12 THEN "neutral" ELSE Sign(ind.hist, 0),
      skew |-> Skew(view.chain)]

Conflict(factors, side) ==
  LET against == {f \in DOMAIN factors : factors[f] = OtherSide[side]}
      known == {f \in DOMAIN factors : factors[f] # "unavailable"}
  IN IF known # {} /\ 2 * Cardinality(against) >= Cardinality(known) THEN "high"
     ELSE IF against # {} THEN "medium" ELSE "low"

\* classify_price_vs_expected_range for spot - move .. spot + move around a close.
RangePosition(price, lower, upper) ==
  IF price > upper THEN "outside_upper" ELSE IF price < lower THEN "outside_lower"
  ELSE IF upper <= lower THEN "unavailable"
  ELSE IF 10 * (upper - price) <= upper - lower THEN "near_upper"
  ELSE IF 10 * (price - lower) <= upper - lower THEN "near_lower" ELSE "inside"
Extended(side, position) ==
  position \in (IF side = "bullish" THEN {"outside_upper", "near_upper"}
                ELSE {"outside_lower", "near_lower"})

\* The setup's own factors; no caller passes a liquidity score. move = None: no
\* IV at the money.
Quality(side, contract, move, position, reward) ==
  LET Favor(good) == IF good THEN "favorable" ELSE "unfavorable"
  IN [greeks |-> Favor(SweetSpot(contract)), liquidity |-> "unavailable",
      expected_move |-> IF move = None THEN "unavailable"
                        ELSE IF position = "inside" THEN "favorable"
                        ELSE IF Extended(side, position) THEN "unfavorable" ELSE "neutral",
      risk_reward |-> IF reward = None THEN "unavailable" ELSE Favor(reward >= 15)]   \* tenths

\* calculate_signal_score: the weighted share of the factors that are known, in
\* percent; None when no known factor has a weight.
Rating == [bullish |-> 2, favorable |-> 2, neutral |-> 1, bearish |-> 0, unfavorable |-> 0]
SignalScore(factors, weights) ==
  LET known == {f \in DOMAIN factors : factors[f] \in DOMAIN Rating}
      weight == MapThenSumSet(LAMBDA f : weights[f], known)
  IN IF weight = 0 THEN None
     ELSE (50 * MapThenSumSet(LAMBDA f : weights[f] * Rating[factors[f]], known)) \div weight

\* The names classify_strategy takes for a trend: those of the composite regime.
TrendingRegimes == {"TRENDING", "TRENDING_BULLISH", "TRENDING_BEARISH"}
Strategy(side, regime, ivRank, position, conflict) ==
  LET trending == regime \in TrendingRegimes
      rich == ivRank >= 70
      cheap == ivRank \in 0..30
  IN IF conflict = "high" THEN "NO_TRADE"
     ELSE IF trending THEN
       IF ~rich /\ ~Extended(side, position)
         THEN IF side = "bullish" THEN "LONG_CALL" ELSE "LONG_PUT"
         ELSE IF side = "bullish" THEN "BULL_CALL_SPREAD" ELSE "BEAR_PUT_SPREAD"
     ELSE IF rich THEN "IRON_CONDOR" ELSE IF cheap THEN "STRADDLE" ELSE "NO_TRADE"

\* resolve_final_signal: the expected range is centred on the same spot it is
\* asked about, and the IV's history is its newest snapshot.
Shown(view, side, ind, contract, move, regime, reward, weights) ==
  LET position == IF move = None THEN "unavailable"
                  ELSE RangePosition(view.spot, view.spot - move, view.spot + move)
      factors == Factors(view, side, ind)
      conflict == Conflict(factors, side)
  IN [score |-> SignalScore(factors @@ Quality(side, contract, move, position, reward), weights),
      conflict |-> conflict,
      strategy |-> Strategy(side, regime, IvRank(contract.iv, {contract.iv}), position, conflict)]

-----------------------------------------------------------------------------
(* Levels *)

\* _cluster_levels: a level joins the cluster of the one below it when it is at
\* most tolerance thousandths away.
Clusters(levels, tolerance) ==
  LET sorted == SetToSortSeq(levels, <)
      starts == {i \in DOMAIN sorted :
                   i = 1 \/ 1000 * (sorted[i] - sorted[i - 1]) > tolerance * sorted[i - 1]}
      End(i) == Min({Len(sorted)} \union {j - 1 : j \in {s \in starts : s > i}})
  IN {{sorted[k] : k \in i..End(i)} : i \in starts}
Walls(chain, type, n) ==
  LET sorted == SetToSortSeq(Side(chain, type), LAMBDA c, d : c.oi > d.oi)
  IN {sorted[i].strike : i \in 1..Min({n, Len(sorted)})}
Supports(levels, spot) == Clusters({l \in levels : l < spot}, 3)
Resistances(levels, spot) == Clusters({l \in levels : l > spot}, 3)

-----------------------------------------------------------------------------
(* What the functions promise *)

\* The same market seen from the other side: strikes and deltas reflected in the
\* spot, calls for puts.
Mirrored(view) ==
  [view EXCEPT !.chain = {[c EXCEPT !.type = OtherType[@], !.strike = 2 * view.spot - @,
                                    !.delta = -@] : c \in @}]

\* The put side is read like the call side (signals_engine.py): the flow, the
\* score of a thesis and the strike chosen for it are those of the mirrored
\* market, with both sides quoted and no two strikes equally far.
FlowIsMirrored(view) ==
  /\ \A side \in {"bullish", "bearish"} :
       /\ Cardinality(Flags(view.chain, side)) = Cardinality(Flags(Mirrored(view).chain, OtherSide[side]))
       /\ view.daysLeft > 0 /\ OpenInterest(view.chain, "CE") > 0 /\ OpenInterest(view.chain, "PE") > 0
            => Confluence(view, side) = Confluence(Mirrored(view), OtherSide[side])
  /\ \A mode \in {"ai", "atm", "itm", "otm"} :
       {c.oi : c \in Suggested(view, "bullish", mode, 1)}
         = {c.oi : c \in Suggested(Mirrored(view), "bearish", mode, 1)}

\* The writers' cheapest settlement is cheapest among all prices, not only among
\* the strikes that compute_max_pain tries.
MaxPainIsCheapest(view) ==
  view.chain # {} =>
    \A s \in Min({c.strike : c \in view.chain})..Max({c.strike : c \in view.chain}) :
      Pain(view.chain, s) >= Pain(view.chain, MaxPain(view.chain))

\* A suggested contract can be bought on its thesis: it is of the thesis' type,
\* and no other eligible one has more interest, more volume and less decay.
SuggestionIsUndominated(view) ==
  \A side \in {"bullish", "bearish"} : \A c \in Suggested(view, side, "ai", 1) :
    /\ c.type = TypeOf[side] /\ SweetSpot(c)
    /\ ~\E e \in Candidates(view, side) :
          /\ SweetSpot(e) /\ e.oi > c.oi /\ e.volume > c.volume
          /\ Gap(e.theta, 0) * c.ltp <= Gap(c.theta, 0) * e.ltp

\* A gap in the data costs no more than a bad reading (signal_scoring.py): without
\* a factor the score is not below the score with that factor at its worst, nor
\* above the one with it at its best.
ScoreForgivesGaps(factors, weights) ==
  \A f \in {g \in DOMAIN factors : factors[g] \in DOMAIN Rating} :
    LET Put(reading) == SignalScore([factors EXCEPT ![f] = reading], weights)
    IN Put("unavailable") # None => Put("bearish") <= Put("unavailable") /\ Put("unavailable") <= Put("bullish")

\* Clusters part the levels, and a wall is in a zone of its side of the spot.
ZonesHoldTheWalls(view) ==
  LET levels == Walls(view.chain, "CE", 3) \union Walls(view.chain, "PE", 3)
      zones == Supports(levels, view.spot) \union Resistances(levels, view.spot)
  IN /\ UNION zones = levels \ {view.spot}
     /\ \A y, z \in zones : y = z \/ y \intersect z = {}
=============================================================================
