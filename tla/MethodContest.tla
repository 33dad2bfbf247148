--------------------------- MODULE MethodContest ---------------------------
(***************************************************************************)
(* The comparison of strategy methods (apps.learning.tasks and             *)
(* strategy_methods): a periodic task keeps one hypothetical trade per     *)
(* method of its group (one symbol here), closes it at its stop, target or *)
(* after its holding time, and otherwise asks the method for a new idea    *)
(* from the last closed candle's indicators.  A visit of a method reads    *)
(* first and writes later.                                                 *)
(***************************************************************************)
EXTENDS Integers, FiniteSets, FiniteSetsExt, SequencesExt

CONSTANTS
  Runs,         \* bound: runs of the task that may overlap
  Methods,      \* the group: METHOD_FUNCS or SCALPING_METHOD_FUNCS
  Snapshots,    \* bound: the indicators of a closed candle
  Prices,       \* bound: closes of the latest, perhaps still forming, candle
  MaxHolding,   \* STRATEGY_COMPARISON_MAX_HOLDING_BARS
  Ids           \* bound: the trades of a method a run may still refer to

AllMethods == {"trend_following", "mean_reversion", "breakout",
               "ema_momentum_scalp", "rsi_extreme_scalp", "sar_volume_burst_scalp"}

ContestAssumption ==
  /\ Methods \subseteq AllMethods /\ Prices \subseteq Nat /\ MaxHolding \in Nat

VARIABLES
  market,  \* ind: the last closed candle's indicators; price: the latest close
  trade,   \* trade[m]: the open HypotheticalTrade rows of m, oldest first
  run      \* the running tasks

vars == <<market, trade, run>>

-----------------------------------------------------------------------------
\* Indicators are whole numbers, ATR in tenths; volume = 0: none reported.

Regime(ind) ==
  CASE ind.bbWidth >= 60 -> "high_volatility"
    [] ind.bbWidth < 60 /\ ind.adx >= 25 -> "trending"
    [] OTHER -> "sideways"

Fires(m, ind) ==
  CASE m = "trend_following" ->
         /\ Regime(ind) # "high_volatility"
         /\ ind.ema9 > ind.ema21 /\ ind.slope > 0 /\ ind.adx >= 25
    [] m = "mean_reversion" ->
         Regime(ind) # "high_volatility" /\ ind.rsi <= 30 /\ ind.close < ind.ema21
    [] m = "breakout" ->
         /\ ind.bbWidth <= 30 /\ (ind.volume = 0 \/ ind.volume >= 15)
         /\ ind.close > ind.priorHigh
    [] m = "ema_momentum_scalp" ->
         /\ ind.ema9 > ind.ema21 /\ ind.macd > 0 /\ ind.macd > ind.macdPrev
         /\ ind.volume = 0 \/ ind.volume >= 12
    [] m = "rsi_extreme_scalp" -> Regime(ind) # "high_volatility" /\ ind.rsi <= 20
    [] m = "sar_volume_burst_scalp" -> ind.sar < ind.close /\ (ind.volume = 0 \/ ind.volume >= 15)

\* Stop distance in tenths of the ATR, target in tenths of the risk.
StopAtr == [trend_following |-> 15, mean_reversion |-> 10, breakout |-> 15,
            ema_momentum_scalp |-> 6, rsi_extreme_scalp |-> 5]
TargetR == [trend_following |-> 20, mean_reversion |-> 15, breakout |-> 25,
            ema_momentum_scalp |-> 10, rsi_extreme_scalp |-> 12, sar_volume_burst_scalp |-> 15]

Risk(m, ind) ==
  IF m = "sar_volume_burst_scalp" THEN ind.close - ind.sar ELSE (StopAtr[m] * ind.atr) \div 10

Ideas(m, ind) ==
  {[entry |-> ind.close, stop |-> ind.close - r, target |-> ind.close + (TargetR[m] * r) \div 10,
    age |-> 0] : r \in {d \in {Risk(m, ind)} : Fires(m, ind) /\ d > 0}}

-----------------------------------------------------------------------------

Rest == [pc |-> "idle", todo |-> {}, at |-> "", held |-> <<>>, price |-> 0]

Init ==
  /\ market \in [ind : Snapshots, price : Prices]
  /\ trade = [m \in Methods |-> <<>>]
  /\ run = [r \in Runs |-> Rest]

\* A new bar: the open trades get older, whether or not a task runs.
Tick ==
  /\ market' \in [ind : Snapshots, price : Prices]
  /\ trade' = [m \in Methods |-> [k \in DOMAIN trade[m] |->
                 [trade[m][k] EXCEPT !.age = Min({@ + 1, MaxHolding})]]]
  /\ UNCHANGED run

Start(r) ==
  /\ run[r].pc = "idle"
  /\ run' = [run EXCEPT ![r] = [Rest EXCEPT !.pc = "next", !.todo = Methods]]
  /\ UNCHANGED <<market, trade>>

LookForYoung(r) ==
  /\ run[r].pc = "next"
  /\ \E m \in run[r].todo :
       LET young == SelectSeq(trade[m], LAMBDA x : x.age < MaxHolding)
           newest == IF young = <<>> THEN <<>> ELSE <<Last(young)>>
       IN  run' = [run EXCEPT ![r] = [pc |-> IF newest = <<>> THEN "open" ELSE "close",
                     todo |-> @.todo \ {m}, at |-> m, held |-> newest, price |-> market.price]]
  /\ UNCHANGED <<market, trade>>

\* Reads the latest close, then the newest open trade of the method.
Look(r) ==
  /\ run[r].pc = "next"
  /\ \E m \in run[r].todo :
       LET newest == IF trade[m] = <<>> THEN <<>> ELSE <<Last(trade[m])>>
       IN  run' = [run EXCEPT ![r] = [pc |-> IF newest = <<>> THEN "open" ELSE "close",
                     todo |-> @.todo \ {m}, at |-> m, held |-> newest, price |-> market.price]]
  /\ UNCHANGED <<market, trade>>

After(r) == [Rest EXCEPT !.pc = IF run[r].todo = {} THEN "idle" ELSE "next", !.todo = run[r].todo]

EndsAtLevels(t, price, age) == price <= t.stop \/ price >= t.target

Ends(t, price, age) == price <= t.stop \/ price >= t.target \/ age >= MaxHolding

\* The age is taken from the clock at the decision, levels from the row as read.
Close(r) ==
  /\ run[r].pc = "close"
  /\ LET t == run[r].held[1]
         m == run[r].at
         row == {k \in DOMAIN trade[m] : trade[m][k].id = t.id}
         age == IF row = {} THEN t.age ELSE trade[m][Max(row)].age
     IN  trade' = [trade EXCEPT ![m] =
                     IF Ends(t, run[r].price, age) THEN SelectSeq(@, LAMBDA x : x.id # t.id) ELSE @]
  /\ run' = [run EXCEPT ![r] = After(r)]
  /\ UNCHANGED market

Free(m) ==
  Ids \ ({trade[m][k].id : k \in DOMAIN trade[m]}
         \union {x.id : x \in UNION {ToSet(run[r].held) : r \in {q \in Runs : run[q].at = m}}})

\* The idea comes from the indicators at the time of the call, long after Look.
OpenTrade(r) ==
  /\ run[r].pc = "open"
  /\ LET m == run[r].at
         new == Ideas(m, market.ind)
     IN  IF new = {} THEN UNCHANGED trade
         ELSE /\ Free(m) # {}
              /\ trade' = [trade EXCEPT ![m] = Append(@, [id |-> Min(Free(m))] @@ CHOOSE i \in new : TRUE)]
  /\ run' = [run EXCEPT ![r] = After(r)]
  /\ UNCHANGED market

Visit(r) == Look(r) \/ Close(r) \/ OpenTrade(r)
Next == Tick \/ \E r \in Runs : Start(r) \/ Visit(r)

\* Beat starts the task every few minutes and every started task returns; time
\* passes.
Spec == Init /\ [][Next]_vars /\ WF_vars(Tick) /\ \A r \in Runs : WF_vars(Start(r)) /\ WF_vars(Visit(r))

-----------------------------------------------------------------------------

\* The types of the market, the open trades and the runs.
TypeOK ==
  /\ market \in [ind : Snapshots, price : Prices]
  /\ \A m \in Methods : \A k \in DOMAIN trade[m] : trade[m][k].age \in 0..MaxHolding
  /\ \A r \in Runs : run[r].pc \in {"idle", "next", "open", "close"} /\ run[r].todo \subseteq Methods

\* _run_comparison_cycle: one open HypotheticalTrade per method and symbol at a
\* time, although it looks first and inserts later (runs that do not overlap).
OneOpenPerMethod == \A m \in Methods : Len(trade[m]) <= 1

\* Every hypothetical trade resolves: at its stop, its target or its holding
\* time, so every idea ends up in the statistics.
TradesResolve == \A m \in Methods, d \in Ids :
  (\E k \in DOMAIN trade[m] : trade[m][k].id = d) ~> (\A k \in DOMAIN trade[m] : trade[m][k].id # d)

=============================================================================
