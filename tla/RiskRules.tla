----------------------------- MODULE RiskRules ------------------------------
(***************************************************************************)
(* The checks and the sizing of apps/risk/engine.py as functions of the    *)
(* account, the open book and a candidate trade. Amounts are whole         *)
(* currency units, percentages and correlation weights whole percents.     *)
(*                                                                         *)
(* account: [current, dayStart, peak, losses]                              *)
(* book:    the open positions as [id, symbol, risk], with                 *)
(*          risk = qty * |entry - stop|                                    *)
(* trade:   [symbol, entry, stop]                                          *)
(* Signals that are executing count like positions in _check_exposure; the *)
(* module LiveOrders models that part.                                     *)
(***************************************************************************)
EXTENDS Integers, FiniteSets, FiniteSetsExt, PaperCosts

CONSTANTS
  Symbols,
  Weight,              \* Weight[<<s, t>>]: |correlation| of two symbols, in percent
  RiskPct,             \* MAX_RISK_PER_TRADE_PCT
  OpenRiskPct,         \* MAX_OPEN_RISK_PCT
  ExposurePct,         \* MAX_ONE_SYMBOL_EXPOSURE_PCT
  MaxPositions,        \* MAX_OPEN_POSITIONS
  DailyLossPct,        \* MAX_DAILY_LOSS_PCT
  MaxLosses,           \* MAX_CONSECUTIVE_LOSSES
  ReducePct,           \* 5: from here on half the risk
  ReduceMorePct,       \* 10: from here on a quarter
  PausePct,            \* DRAWDOWN_PAUSE_PCT
  FlattenPct           \* DRAWDOWN_FLATTEN_PCT

DrawdownAtLeast(account, pct) ==
  account.peak > 0 /\ 100 * (account.peak - account.current) >= pct * account.peak

Breached(account) == DrawdownAtLeast(account, FlattenPct)
Paused(account) == DrawdownAtLeast(account, PausePct)

DailyLossHit(account) ==
  /\ account.dayStart > 0
  /\ 100 * (account.dayStart - account.current) >= DailyLossPct * account.dayStart

OnCooldown(account) == account.losses >= MaxLosses

AccountMayTrade(account) ==
  ~Paused(account) /\ ~DailyLossHit(account) /\ ~OnCooldown(account)

\* _check_exposure: few enough positions, none of them in this symbol.
ExposureAllows(symbol, book) ==
  /\ Cardinality(book) < MaxPositions
  /\ \A p \in book : p.symbol # symbol

\* Risk share in eighths of RiskPct: drawdown and expiry day stack.
RiskShare(account, expiryDay) ==
  LET share == IF DrawdownAtLeast(account, ReduceMorePct) THEN 2
               ELSE IF DrawdownAtLeast(account, ReducePct) THEN 4 ELSE 8
  IN IF expiryDay THEN share \div 2 ELSE share

PositionSize(account, trade, expiryDay) ==
  IF trade.entry = trade.stop THEN 0
  ELSE Larger(0, (account.current * RiskPct * RiskShare(account, expiryDay))
                   \div (800 * Distance(trade.entry, trade.stop)))

CapToExposure(account, trade, qty) ==
  IF trade.entry <= 0 \/ account.current = 0 THEN qty
  ELSE Smaller(qty, Larger(0, (account.current * ExposurePct) \div (100 * trade.entry)))

CombinedRisk(trade, qty, book) ==
  100 * qty * Distance(trade.entry, trade.stop)
    + MapThenSumSet(LAMBDA p : Weight[<<trade.symbol, p.symbol>>] * p.risk, book)

CombinedRiskAllows(account, trade, qty, book) ==
  \/ account.current <= 0
  \/ CombinedRisk(trade, qty, book) <= OpenRiskPct * account.current

\* check_pre_trade: the size approved, 0 when rejected.
ApprovedSize(account, trade, expiryDay, book, halted, feedOk) ==
  LET qty == CapToExposure(account, trade, PositionSize(account, trade, expiryDay))
  IN IF /\ ~halted /\ feedOk
        /\ AccountMayTrade(account)
        /\ ExposureAllows(trade.symbol, book)
        /\ CombinedRiskAllows(account, trade, qty, book)
       THEN qty ELSE 0

\* validate_signal_for_execution: the same volatile checks for a given size.
StillExecutable(account, trade, qty, fresh, book, halted, feedOk) ==
  /\ fresh /\ ~halted /\ feedOk
  /\ AccountMayTrade(account)
  /\ ExposureAllows(trade.symbol, book)
  /\ qty > 0
  /\ CapToExposure(account, trade, qty) = qty
  /\ CombinedRiskAllows(account, trade, qty, book)
=============================================================================
