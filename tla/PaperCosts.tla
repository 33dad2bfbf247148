----------------------------- MODULE PaperCosts -----------------------------
(***************************************************************************)
(* The transaction-cost arithmetic of simulated fills                      *)
(* (apps/execution/paper_costs.py), in whole price quanta: a price is a    *)
(* number of PRICE_QUANTUMs and an amount of money a multiple of           *)
(* MoneyQuantum of them. Rates are parts of TenThousand.                   *)
(***************************************************************************)
EXTENDS Integers, FiniteSetsExt

CONSTANTS
  TenThousand,    \* the denominator of a basis-point rate
  MoneyQuantum    \* price quanta in one money quantum

Sides == {"LONG", "SHORT"}

Assumptions == [slippage : 0..(TenThousand - 1), fees : 0..(TenThousand - 1)]

Larger(a, b) == IF a >= b THEN a ELSE b
Smaller(a, b) == IF a <= b THEN a ELSE b
Distance(a, b) == Larger(a - b, b - a)

Ceiling(a, b) == -((-a) \div b)

\* quantize(MONEY_QUANTUM, ROUND_HALF_UP): half goes away from zero.
RoundHalfUp(x) ==
  LET size == ((2 * Larger(x, -x) + MoneyQuantum) \div (2 * MoneyQuantum)) * MoneyQuantum
  IN IF x >= 0 THEN size ELSE -size

Direction(side) == IF side = "LONG" THEN 1 ELSE -1

\* The simulated fill, rounded against the trader: buys slip up, sales down.
AdverseFill(reference, side, isEntry, assumed) ==
  IF (side = "LONG") = isEntry
    THEN Ceiling(reference * (TenThousand + assumed.slippage), TenThousand)
    ELSE (reference * (TenThousand - assumed.slippage)) \div TenThousand

Settlement(entryRef, exitRef, qty, side, assumed, entryFill) ==
  LET exitFill == AdverseFill(exitRef, side, FALSE, assumed)
      gross == RoundHalfUp((exitRef - entryRef) * qty * Direction(side))
      fillPnl == RoundHalfUp((exitFill - entryFill) * qty * Direction(side))
      slippage == Larger(0, gross - fillPnl)
      fees == MoneyQuantum
                * Ceiling((entryFill + exitFill) * qty * assumed.fees, TenThousand * MoneyQuantum)
  IN [exitFill |-> exitFill, gross |-> gross, slippage |-> slippage, fees |-> fees,
      net |-> gross - (slippage + fees)]

ModeledLoss(entryRef, stop, qty, side, assumed, entryFill) ==
  Larger(0, -Settlement(entryRef, stop, qty, side, assumed, entryFill).net)

\* The binary search for the most lots whose loss at the stop fits the budget.
CapToStopRisk(entryRef, stop, requested, side, assumed, entryFill, lot, budget) ==
  LET maxLots == requested \div lot
      Fits(lots) ==
        ModeledLoss(entryRef, stop, lots * lot, side, assumed, entryFill) <= budget
      search[low \in 0..maxLots, high \in 0..maxLots] ==
        IF low >= high THEN low
        ELSE LET mid == (low + high + 1) \div 2
             IN IF Fits(mid) THEN search[mid, high] ELSE search[low, mid - 1]
  IN IF Distance(entryRef, stop) = 0 \/ budget <= 0
       THEN 0
       ELSE search[0, maxLots] * lot
=============================================================================
