------------------------- MODULE TradingDesk_proofs -------------------------
(***************************************************************************)
(* What the trading cycle, the monitor, the flatten task and the mode      *)
(* switch keep together, for every number of signals, workers and symbols. *)
(*                                                                         *)
(* Every step is first reduced to what it does to the rows (WorldStep): no *)
(* position changes, or exactly one is moved, shut or born. Everything     *)
(* proved afterwards follows from those four cases. The size of a position *)
(* comes out of the recursive search of PaperCosts, so nothing here says   *)
(* that it is a number; the rows are described field by field instead.     *)
(***************************************************************************)
EXTENDS TradingDesk, FiniteSetTheorems, TLAPS

-----------------------------------------------------------------------------
(* The inductive invariant *)

SignalRow(s) ==
  /\ s = [status |-> s.status, side |-> s.side, entry |-> s.entry, stop |-> s.stop,
          qty |-> s.qty, fresh |-> s.fresh]
  /\ s.status \in {"none", "approved", "executed", "rejected", "expired"}
  /\ s.side \in Sides /\ s.entry \in Int /\ s.stop \in Int

PositionRow(p) ==
  /\ p = [state |-> p.state, side |-> p.side, ref |-> p.ref, fill |-> p.fill, stop |-> p.stop,
          target |-> p.target, trail |-> p.trail, peak |-> p.peak, qty |-> p.qty,
          mark |-> p.mark, realized |-> p.realized]
  /\ p.state \in {"none", "open", "closed"}
  /\ p.side \in Sides /\ p.stop \in Int /\ p.trail \in Int /\ p.peak \in Int

AccountRow(a) ==
  a = [current |-> a.current, dayStart |-> a.dayStart, peak |-> a.peak,
       losses |-> a.losses, today |-> a.today]

\* The rows have their fields.
Rows ==
  /\ mode \in {"paper", "live"}
  /\ signal = [i \in Signals |-> signal[i]] /\ \A i \in Signals : SignalRow(signal[i])
  /\ position = [i \in Signals |-> position[i]] /\ \A i \in Signals : PositionRow(position[i])
  /\ AccountRow(account)

\* A signal that may still be opened has never been opened, and one that was
\* executed has.
OpensOnce ==
  \A i \in Signals : (signal[i].status = "executed") <=> (position[i].state # "none")

DeskInv ==
  /\ Rows /\ OpensOnce
  /\ IsFiniteSet(OpenNow) /\ OnePositionPerSymbol
  /\ NothingAbroad

-----------------------------------------------------------------------------
(* Costs and sizes *)

LEMMA DivBounds ==
  ASSUME NEW a \in Int, NEW b \in Nat \ {0}
  PROVE  /\ a \div b \in Int
         /\ b * (a \div b) <= a /\ a < b * (a \div b) + b
OBVIOUS

\* Multiplying keeps an order, and a common factor can be taken away.
LEMMA TimesKeepsOrder ==
  ASSUME NEW a \in Int, NEW b \in Int, NEW c \in Nat
  PROVE  /\ a <= b => c * a <= c * b
         /\ (c > 0 /\ c * a <= c * b) => a <= b
         /\ (c > 0 /\ c * a < c * (b + 1)) => a <= b
OBVIOUS

LEMMA CeilingBounds ==
  ASSUME NEW a \in Int, NEW b \in Nat \ {0}
  PROVE  /\ Ceiling(a, b) \in Int /\ a <= b * Ceiling(a, b)
         /\ a >= 0 => Ceiling(a, b) >= 0
<1> DEFINE q == (-a) \div b
<1>1. q \in Int /\ b * q <= -a
  BY DivBounds
<1>2. Ceiling(a, b) = -q
  BY DEF Ceiling
<1> HIDE DEF q
<1>3. b * (-q) = -(b * q)
  BY <1>1
<1>4. a >= 0 => q <= 0
  <2>1. SUFFICES ASSUME a >= 0, q >= 1 PROVE FALSE
    BY <1>1
  <2>2. b * q >= b
    BY <1>1, <2>1
  <2> QED BY <1>1, <2>1, <2>2
<1> QED BY <1>1, <1>2, <1>3, <1>4

\* A simulated fill is a whole number of price quanta.
LEMMA FillIsWhole ==
  ASSUME DeskAssumption, NEW reference \in Int, NEW side, NEW isEntry
  PROVE  AdverseFill(reference, side, isEntry, Costs) \in Int
<1>1. TenThousand \in Nat \ {0} /\ Costs.slippage \in Int
  BY DEF DeskAssumption, Assumptions
<1>2. /\ reference * (TenThousand + Costs.slippage) \in Int
      /\ reference * (TenThousand - Costs.slippage) \in Int
  BY <1>1
<1> QED BY <1>1, <1>2, DivBounds, CeilingBounds DEF AdverseFill

\* A simulated fill is never better than the quote it fills: a purchase costs
\* at least the reference, a sale brings at most the reference and never less
\* than nothing (adverse_fill_price).
THEOREM FillsAreAdverse ==
  ASSUME TenThousand \in Nat \ {0}, NEW assumed \in Assumptions,
         NEW reference \in Nat, NEW side \in Sides, NEW isEntry \in BOOLEAN
  PROVE  LET fill == AdverseFill(reference, side, isEntry, assumed)
         IN  /\ fill \in Nat
             /\ IF (side = "LONG") = isEntry THEN fill >= reference ELSE fill <= reference
<1> DEFINE T == TenThousand
           slip == assumed.slippage
           buys == (side = "LONG") = isEntry
           fill == AdverseFill(reference, side, isEntry, assumed)
<1>1. T \in Nat \ {0} /\ slip \in Nat /\ slip < T
  BY DEF Assumptions
<1>2. fill = IF buys THEN Ceiling(reference * (T + slip), T)
             ELSE (reference * (T - slip)) \div T
  BY DEF AdverseFill
<1> HIDE DEF T, slip, fill
<1>3. CASE buys
  <2> DEFINE a == reference * (T + slip)
  <2>1. a \in Nat /\ a >= T * reference
    BY <1>1
  <2>4. fill = Ceiling(a, T)
    BY <1>2, <1>3
  <2> HIDE DEF a
  <2>2. fill \in Int /\ T * reference <= T * fill
    <3>1. fill \in Int /\ a <= T * fill
      BY <1>1, <2>1, <2>4, CeilingBounds
    <3>2. T * fill \in Int /\ T * reference \in Int
      BY <1>1, <3>1
    <3> QED BY <2>1, <3>1, <3>2
  <2>3. fill >= reference
    BY <1>1, <2>2, TimesKeepsOrder
  <2> QED BY <1>3, <2>2, <2>3 DEF fill
<1>4. CASE ~buys
  <2> DEFINE a == reference * (T - slip)
  <2>1. a \in Nat /\ a <= T * reference
    BY <1>1
  <2>2. fill = a \div T
    BY <1>2, <1>4
  <2> HIDE DEF a
  <2>3. fill \in Int /\ T * fill <= a /\ a < T * fill + T
    BY <1>1, <2>1, <2>2, DivBounds
  <2>4. T * fill <= T * reference /\ T * 0 < T * (fill + 1)
    BY <1>1, <2>1, <2>3
  <2>5. fill <= reference /\ 0 <= fill
    BY <1>1, <2>3, <2>4, TimesKeepsOrder
  <2> QED BY <1>4, <2>3, <2>5 DEF fill
<1> QED BY <1>3, <1>4 DEF fill

LEMMA RoundingIsWhole ==
  ASSUME MoneyQuantum \in Nat \ {0}, NEW x \in Int
  PROVE  RoundHalfUp(x) \in Int
<1>1. 2 * Larger(x, -x) + MoneyQuantum \in Int /\ 2 * MoneyQuantum \in Nat \ {0}
  BY DEF Larger
<1>2. (2 * Larger(x, -x) + MoneyQuantum) \div (2 * MoneyQuantum) \in Int
  BY <1>1, DivBounds
<1> QED BY <1>2 DEF RoundHalfUp

\* A simulated trade is never reported better than the quotes say and never
\* better than its own fills say: slippage and fees are charges
\* (calculate_paper_settlement).
THEOREM SettlementIsConservative ==
  ASSUME {TenThousand, MoneyQuantum} \subseteq Nat \ {0}, NEW assumed \in Assumptions,
         NEW entryRef \in Nat, NEW exitRef \in Nat, NEW entryFill \in Nat, NEW qty \in Nat,
         NEW side \in Sides
  PROVE  LET s == Settlement(entryRef, exitRef, qty, side, assumed, entryFill)
         IN  /\ s.fees >= 0 /\ s.slippage >= 0
             /\ s.net <= s.gross
             /\ s.net <= RoundHalfUp((s.exitFill - entryFill) * qty * Direction(side))
<1> DEFINE out == AdverseFill(exitRef, side, FALSE, assumed)
           gross == RoundHalfUp((exitRef - entryRef) * qty * Direction(side))
           fillPnl == RoundHalfUp((out - entryFill) * qty * Direction(side))
           slippage == Larger(0, gross - fillPnl)
           num == (entryFill + out) * qty * assumed.fees
           fees == MoneyQuantum * Ceiling(num, TenThousand * MoneyQuantum)
           s == Settlement(entryRef, exitRef, qty, side, assumed, entryFill)
<1>1. s = [exitFill |-> out, gross |-> gross, slippage |-> slippage, fees |-> fees,
           net |-> gross - (slippage + fees)]
  BY DEF Settlement
<1>2. out \in Nat
  BY FillsAreAdverse
<1>3. gross \in Int /\ fillPnl \in Int
  <2>1. Direction(side) \in Int
    BY DEF Direction
  <2> HIDE DEF out
  <2>2. /\ (exitRef - entryRef) * qty * Direction(side) \in Int
        /\ (out - entryFill) * qty * Direction(side) \in Int
    BY <1>2, <2>1
  <2> QED BY <2>2, RoundingIsWhole
<1>4. fees \in Int /\ fees >= 0
  <2> HIDE DEF out
  <2> DEFINE unit == TenThousand * MoneyQuantum
  <2>1. num \in Nat /\ unit \in Nat \ {0} /\ MoneyQuantum \in Nat
    BY <1>2 DEF Assumptions
  <2>2. fees = MoneyQuantum * Ceiling(num, unit)
    OBVIOUS
  <2> HIDE DEF num, unit, fees
  <2>3. Ceiling(num, unit) \in Int /\ Ceiling(num, unit) >= 0
    BY <2>1, CeilingBounds
  <2> QED BY <2>1, <2>2, <2>3
<1>5. slippage \in Int /\ slippage >= 0 /\ slippage >= gross - fillPnl
  <2> HIDE DEF gross, fillPnl
  <2> QED BY <1>3 DEF Larger
<1>6. fillPnl = RoundHalfUp((s.exitFill - entryFill) * qty * Direction(side))
  BY <1>1
<1> HIDE DEF gross, fillPnl, slippage, fees, out
<1>7. /\ s.fees >= 0 /\ s.slippage >= 0 /\ s.net <= s.gross /\ s.net <= fillPnl
  BY <1>1, <1>3, <1>4, <1>5
<1> HIDE DEF s
<1> QED BY <1>6, <1>7 DEF s

\* An approved size risks at most the configured share of the equity at the
\* stop, and the position is worth at most the exposure limit, whatever the
\* drawdown, the day and the book (calculate_position_size, cap to exposure).
THEOREM ApprovalRisksLittle ==
  ASSUME {RiskPct, ExposurePct} \subseteq Nat,
         NEW acc, acc.current \in Int, NEW trade, trade.entry \in Nat, trade.stop \in Int,
         NEW expiryDay, NEW book, NEW tripped, NEW feedOk
  PROVE  LET qty == ApprovedSize(acc, trade, expiryDay, book, tripped, feedOk)
         IN  /\ qty \in Nat
             /\ qty > 0 =>
                  /\ 100 * qty * Distance(trade.entry, trade.stop) <= RiskPct * acc.current
                  /\ 100 * qty * trade.entry <= ExposurePct * acc.current
<1> DEFINE cash == acc.current
           gap == Distance(trade.entry, trade.stop)
           share == RiskShare(acc, expiryDay)
           budget == cash * RiskPct * share
           sized == PositionSize(acc, trade, expiryDay)
           capped == CapToExposure(acc, trade, sized)
           qty == ApprovedSize(acc, trade, expiryDay, book, tripped, feedOk)
<1>1. gap \in Nat /\ (trade.entry # trade.stop => gap > 0)
  BY DEF Distance, Larger
<1>2. share \in 1..8
  BY DEF RiskShare
<1>3. qty = capped \/ qty = 0
  BY DEF ApprovedSize
<1>4. /\ sized \in Nat
      /\ sized > 0 => cash > 0 /\ 100 * sized * gap <= RiskPct * cash
  <2>1. CASE trade.entry = trade.stop
    BY <2>1 DEF PositionSize
  <2>2. CASE trade.entry # trade.stop
    <3> DEFINE q == budget \div (800 * gap)
    <3>1. budget \in Int /\ 800 * gap \in Nat \ {0}
      <4> HIDE DEF gap, share
      <4> QED BY <1>1, <1>2, <2>2
    <3>2. sized = Larger(0, q)
      BY <2>2 DEF PositionSize
    <3> HIDE DEF gap, budget, sized
    <3>3. q \in Int /\ (800 * gap) * q <= budget
      BY <3>1, DivBounds
    <3> HIDE DEF q
    <3>4. sized \in Nat /\ (sized > 0 => q = sized)
      BY <3>2, <3>3 DEF Larger
    <3>5. ASSUME sized > 0 PROVE cash > 0 /\ 100 * sized * gap <= RiskPct * cash
      <4> HIDE DEF share, cash
      <4>0. cash \in Int /\ budget = (cash * RiskPct) * share
        BY DEF cash, budget
      <4>1. (800 * gap) * sized > 0 /\ (800 * gap) * sized <= budget
        BY <1>1, <3>1, <3>3, <3>4, <3>5
      <4>2. cash > 0
        <5>1. SUFFICES ASSUME cash <= 0 PROVE FALSE
          BY <4>0
        <5>2. cash * RiskPct <= 0
          BY <4>0, <5>1
        <5>3. cash * RiskPct \in Int
          BY <4>0
        <5>4. (cash * RiskPct) * share <= 0
          BY <1>2, <5>2, <5>3
        <5> QED BY <4>0, <4>1, <5>4, <3>1, <1>1, <3>4
      <4>3. cash * RiskPct \in Nat
        BY <4>0, <4>2
      <4>4. (cash * RiskPct) * share <= (cash * RiskPct) * 8
        BY <1>2, <4>3
      <4>5. (800 * gap) * sized = 8 * (100 * sized * gap)
        BY <1>1, <3>4
      <4>6. 100 * sized * gap \in Int
        BY <1>1, <3>4
      <4>7. 8 * (100 * sized * gap) <= 8 * (cash * RiskPct)
        <5> DEFINE left == 100 * sized * gap
                   right == cash * RiskPct
        <5>1. 8 * left <= budget /\ budget <= right * 8 /\ left \in Int /\ right \in Int
          BY <4>0, <4>1, <4>3, <4>4, <4>5, <4>6
        <5> HIDE DEF left, right
        <5>2. 8 * left <= 8 * right
          BY <3>1, <5>1
        <5> QED BY <5>2 DEF left, right
      <4>8. 100 * sized * gap <= cash * RiskPct
        BY <4>3, <4>6, <4>7
      <4> QED BY <4>0, <4>2, <4>8
    <3> QED BY <3>4, <3>5
  <2> QED BY <2>1, <2>2
<1> HIDE DEF gap, share, budget, sized
<1>5. /\ capped \in Nat /\ capped <= sized
      /\ (sized > 0 /\ capped > 0) => 100 * capped * trade.entry <= ExposurePct * cash
  <2>1. CASE trade.entry <= 0 \/ cash = 0
    <3>1. capped = sized
      BY <2>1 DEF CapToExposure
    <3>2. sized > 0 => trade.entry = 0
      BY <1>4, <2>1
    <3>3. sized > 0 => ExposurePct * cash >= 0
      BY <1>4
    <3> QED BY <1>4, <3>1, <3>2, <3>3
  <2>2. CASE trade.entry > 0 /\ cash # 0
    <3> DEFINE q == (cash * ExposurePct) \div (100 * trade.entry)
    <3>1. q \in Int /\ (100 * trade.entry) * q <= cash * ExposurePct
      <4>1. cash * ExposurePct \in Int /\ 100 * trade.entry \in Nat \ {0}
        BY <2>2
      <4> QED BY <4>1, DivBounds
    <3>2. capped = Smaller(sized, Larger(0, q))
      BY <2>2 DEF CapToExposure
    <3> HIDE DEF q, capped
    <3>3. capped \in Nat /\ capped <= sized /\ (capped > 0 => capped <= q)
      BY <1>4, <3>1, <3>2 DEF Smaller, Larger
    <3>4. capped > 0 => (100 * trade.entry) * capped <= (100 * trade.entry) * q
      BY <3>1, <3>3, TimesKeepsOrder
    <3>5. (100 * trade.entry) * capped = 100 * capped * trade.entry
      BY <3>3
    <3>6. capped > 0 => 100 * capped * trade.entry <= cash * ExposurePct
      <4>1. (100 * trade.entry) * capped \in Int /\ (100 * trade.entry) * q \in Int
        BY <3>1, <3>3
      <4> QED BY <3>1, <3>4, <3>5, <4>1
    <3> QED BY <3>3, <3>6
  <2> QED BY <2>1, <2>2
<1> HIDE DEF capped
<1>6. (capped > 0) => 100 * capped * gap <= RiskPct * cash
  <2>1. SUFFICES ASSUME capped > 0 PROVE 100 * capped * gap <= RiskPct * cash
    OBVIOUS
  <2>2. sized > 0
    BY <1>4, <1>5, <2>1
  <2>3. (100 * gap) * capped <= (100 * gap) * sized
    BY <1>1, <1>4, <1>5, TimesKeepsOrder
  <2>4. /\ (100 * gap) * capped = 100 * capped * gap
        /\ (100 * gap) * sized = 100 * sized * gap
    BY <1>1, <1>4, <1>5
  <2>5. 100 * capped * gap \in Int /\ 100 * sized * gap \in Int
    BY <1>1, <1>4, <1>5
  <2> QED BY <1>4, <2>2, <2>3, <2>4, <2>5
<1>7. capped > 0 => 100 * capped * trade.entry <= ExposurePct * cash
  BY <1>4, <1>5
<1> HIDE DEF qty
<1>8. /\ qty \in Nat
      /\ qty > 0 => 100 * qty * gap <= RiskPct * cash /\ 100 * qty * trade.entry <= ExposurePct * cash
  BY <1>3, <1>5, <1>6, <1>7
<1> QED BY <1>8 DEF qty, gap

-----------------------------------------------------------------------------
(* The arithmetic of one row *)

\* Trailing a row changes its peak and its stop, and the stop only in the
\* direction of the trade (update_trailing_stop).
LEMMA TrailedRow ==
  ASSUME NEW p, PositionRow(p), NEW price \in Int
  PROVE  /\ PositionRow(Trailed(p, price))
         /\ Trailed(p, price).state = p.state /\ Trailed(p, price).side = p.side
         /\ Trailed(p, price).realized = p.realized
         /\ IF p.side = "LONG" THEN Trailed(p, price).stop >= p.stop
            ELSE Trailed(p, price).stop <= p.stop
<1> DEFINE best == IF p.side = "LONG" THEN Larger(p.peak, price) ELSE Smaller(p.peak, price)
           off == Direction(p.side) * p.trail
           held == IF p.side = "LONG" THEN Larger(p.stop, best - off)
                   ELSE Smaller(p.stop, best - off)
<1>1. best \in Int /\ off \in Int
  BY DEF PositionRow, Larger, Smaller, Direction
<1>2. /\ held \in Int
      /\ IF p.side = "LONG" THEN held >= p.stop ELSE held <= p.stop
  <2> HIDE DEF best, off
  <2> QED BY <1>1 DEF PositionRow, Larger, Smaller
<1>3. Trailed(p, price) = [p EXCEPT !.peak = best, !.stop = held]
  BY DEF Trailed
<1> HIDE DEF best, off, held
<1>4. Trailed(p, price) =
        [state |-> p.state, side |-> p.side, ref |-> p.ref, fill |-> p.fill, stop |-> held,
         target |-> p.target, trail |-> p.trail, peak |-> best, qty |-> p.qty,
         mark |-> p.mark, realized |-> p.realized]
  BY <1>3 DEF PositionRow
<1> QED BY <1>1, <1>2, <1>4 DEF PositionRow

-----------------------------------------------------------------------------
(* What a step does to the rows *)

OthersKept(i) ==
  /\ position' = [j \in Signals |-> position'[j]]
  /\ \A j \in Signals \ {i} : position'[j] = position[j]

Kept == position' = position /\ account'.current = account.current

\* Tightens: the stop of row i is not looser than before.
Tightens(i) ==
  IF position[i].side = "LONG" THEN position'[i].stop >= position[i].stop
  ELSE position'[i].stop <= position[i].stop

Moved(i) ==
  /\ i \in OpenNow /\ position'[i].state = "open" /\ PositionRow(position'[i])
  /\ Tightens(i) /\ position'[i].realized = position[i].realized
  /\ OthersKept(i) /\ account'.current = account.current

Shut(i) ==
  /\ i \in OpenNow /\ position'[i].state = "closed" /\ PositionRow(position'[i])
  /\ account'.current = account.current + position'[i].realized
  /\ OthersKept(i)

Born(i) ==
  /\ signal[i].status = "approved" /\ signal'[i].status = "executed"
  /\ mode = Venue /\ ExposureAllows(SymbolOf[i], Book)
  /\ position'[i].state = "open" /\ PositionRow(position'[i])
  /\ OthersKept(i) /\ account'.current = account.current

\* A size that risks little at its stop and stays below the exposure limit.
Affordable(s) ==
  account.current \in Int =>
    /\ s.qty \in Nat
    /\ s.qty > 0 =>
         /\ 100 * s.qty * Distance(s.entry, s.stop) <= RiskPct * account.current
         /\ 100 * s.qty * s.entry <= ExposurePct * account.current

\* What a step may do to a signal: it stays, it is approved in the venue's
\* mode at a size the account affords, or it ends; executed comes with a
\* position.
SignalStep(i) ==
  /\ SignalRow(signal'[i])
  /\ signal[i].status = "executed" => signal'[i].status = "executed"
  /\ (signal'[i].status = "executed" /\ signal[i].status # "executed")
       => position[i].state = "none" /\ position'[i].state = "open"
  /\ (signal'[i].status = "approved" /\ signal[i].status # "approved")
       => mode = Venue /\ mode' = Venue /\ Affordable(signal'[i])

World ==
  /\ mode' \in {"paper", "live"} /\ AccountRow(account')
  /\ signal' = [i \in Signals |-> signal'[i]] /\ \A i \in Signals : SignalStep(i)
  /\ mode' # mode => /\ OpenNow = {} /\ position' = position
                      /\ \A i \in Signals : signal'[i].status # "approved"
  /\ Kept \/ \E i \in Signals : Moved(i) \/ Shut(i) \/ Born(i)

\* A signal that stays as it was.
LEMMA SignalsKept ==
  ASSUME Rows, signal' = signal, mode' = mode
  PROVE  /\ signal' = [i \in Signals |-> signal'[i]] /\ \A i \in Signals : SignalStep(i)
BY DEF Rows, SignalStep

\* The account that a limit check leaves.
LEMMA CheckedAccount ==
  ASSUME Rows, CheckAccount
  PROVE  AccountRow(account') /\ account'.current = account.current
<1>1. account' = account \/ account' = [account EXCEPT !.dayStart = account.current, !.today = TRUE]
  BY DEF CheckAccount, Rolled
<1>2. account = [current |-> account.current, dayStart |-> account.dayStart, peak |-> account.peak,
                 losses |-> account.losses, today |-> account.today]
  BY DEF Rows, AccountRow
<1>3. CASE account' = account
  BY <1>3 DEF Rows
<1>4. CASE account' = [account EXCEPT !.dayStart = account.current, !.today = TRUE]
  <2>1. account' = [current |-> account.current, dayStart |-> account.current,
                    peak |-> account.peak, losses |-> account.losses, today |-> TRUE]
    BY <1>2, <1>4
  <2> QED BY <2>1 DEF AccountRow
<1> QED BY <1>1, <1>3, <1>4

\* Closing a row credits its net result once, and does nothing to a row that
\* is not open (close_position).
LEMMA ClosedRow ==
  ASSUME Rows, NEW i \in Signals, NEW price, Close(i, price)
  PROVE  AccountRow(account') /\ (Kept \/ Shut(i))
<1>1. CASE position[i].state # "open"
  BY <1>1 DEF Close, Kept, Rows
<1>2. CASE position[i].state = "open"
  <2> DEFINE gain == Settlement(position[i].ref, price, position[i].qty, position[i].side, Costs,
                                position[i].fill).net
             best == Larger(account.peak, account.current + gain)
             row == IF gain > 0 THEN 0 ELSE account.losses + 1
  <2>0. /\ position' = [position EXCEPT ![i] = [Unopened EXCEPT !.state = "closed",
                                                                !.realized = gain]]
        /\ account' = [account EXCEPT !.current = account.current + gain, !.peak = best,
                                      !.losses = row]
    BY <1>2, Zenon DEF Close, Rows, AccountRow
  <2>1. PICK net, top, run :
          /\ position' = [position EXCEPT ![i] = [Unopened EXCEPT !.state = "closed",
                                                                  !.realized = net]]
          /\ account' = [account EXCEPT !.current = account.current + net, !.peak = top,
                                        !.losses = run]
    BY <2>0
  <2>2. account' = [current |-> account.current + net, dayStart |-> account.dayStart,
                    peak |-> top, losses |-> run, today |-> account.today]
    BY <2>1 DEF Rows, AccountRow
  <2>3. /\ position' = [j \in Signals |-> position'[j]]
        /\ \A j \in Signals \ {i} : position'[j] = position[j]
        /\ position'[i] = [Unopened EXCEPT !.state = "closed", !.realized = net]
    BY <2>1 DEF Rows
  <2>4. position'[i] = [state |-> "closed", side |-> "LONG", ref |-> 0, fill |-> 0, stop |-> 0,
                        target |-> 0, trail |-> 0, peak |-> 0, qty |-> 0, mark |-> 0,
                        realized |-> net]
    BY <2>3 DEF Unopened
  <2>5. PositionRow(position'[i])
    BY <2>4 DEF PositionRow, Sides
  <2> QED BY <1>2, <2>2, <2>3, <2>4, <2>5 DEF Shut, OthersKept, OpenNow, AccountRow
<1> QED BY <1>1, <1>2

-----------------------------------------------------------------------------
(* The surroundings *)

\* A row that ends keeps nothing but its status.
LEMMA EndedRow ==
  ASSUME NEW how \in {"executed", "rejected", "expired"}
  PROVE  SignalRow(Ended(how)) /\ Ended(how).status = how
<1>1. Ended(how) = [status |-> how, side |-> "LONG", entry |-> 0, stop |-> 0, qty |-> 0,
                    fresh |-> FALSE]
  <2>1. PICK row : row = Ended(how)
    OBVIOUS
  <2>2. row = [Unmade EXCEPT !.status = how]
    BY <2>1 DEF Ended
  <2> QED BY <2>1, <2>2 DEF Unmade
<1> QED BY <1>1 DEF SignalRow, Sides

\* Signals of which some expire: those are approved ones, the others stay.
LEMMA SomeExpire ==
  ASSUME Rows, NEW old, \A i \in Signals : i \in old => signal[i].status = "approved",
         signal' = [i \in Signals |-> IF i \in old THEN Ended("expired") ELSE signal[i]]
  PROVE  /\ signal' = [i \in Signals |-> signal'[i]] /\ \A i \in Signals : SignalStep(i)
<1>1. /\ SignalRow(Ended("expired")) /\ Ended("expired").status = "expired"
  BY EndedRow
<1>2. \A i \in Signals : signal'[i] = IF i \in old THEN Ended("expired") ELSE signal[i]
  OBVIOUS
<1>3. ASSUME NEW i \in Signals PROVE SignalStep(i)
  <2>1. CASE i \in old
    BY <1>1, <1>2, <2>1 DEF SignalStep
  <2>2. CASE i \notin old
    BY <1>2, <2>2 DEF SignalStep, Rows
  <2> QED BY <2>1, <2>2
<1> QED BY <1>3

\* check_pre_trade: an approved row is new, and made in the venue's mode.
LEMMA ApproveStep ==
  ASSUME DeskAssumption, Rows, NEW i \in Signals, NEW side \in EntrySides, NEW price \in Entries,
         NEW expiryDay, NEW feedOk, Approve(i, side, price, expiryDay, feedOk)
  PROVE  World
<1> DEFINE stop == price - Direction(side) * StopDistance
           qty == ApprovedSize(Rolled, [symbol |-> SymbolOf[i], entry |-> price, stop |-> stop],
                               expiryDay, Book, halted, feedOk)
           row == [status |-> "approved", side |-> side, entry |-> price, stop |-> stop,
                   qty |-> qty, fresh |-> TRUE]
<1>1. /\ mode = Venue /\ mode' = mode /\ position' = position /\ CheckAccount
      /\ signal[i].status = "none"
      /\ signal' = signal \/ signal' = [signal EXCEPT ![i] = row]
  BY DEF Approve
<1>2. SignalRow(row)
  <2>1. side \in Sides /\ price \in Int /\ stop \in Int
    BY DEF DeskAssumption, Direction
  <2> HIDE DEF stop, qty
  <2> QED BY <2>1 DEF SignalRow
<1>3. row.status = "approved" /\ Affordable(row)
  <2>1. SUFFICES ASSUME account.current \in Int
                 PROVE  /\ qty \in Nat
                        /\ qty > 0 => /\ 100 * qty * Distance(price, stop)
                                           <= RiskPct * account.current
                                      /\ 100 * qty * price <= ExposurePct * account.current
    BY DEF Affordable
  <2> DEFINE trade == [symbol |-> SymbolOf[i], entry |-> price, stop |-> stop]
             day == Rolled
  <2>2. day.current = account.current
    BY DEF Rolled, Rows, AccountRow
  <2>3. price \in Nat /\ stop \in Int /\ {RiskPct, ExposurePct} \subseteq Nat
    BY DEF DeskAssumption, Direction
  <2> HIDE DEF stop
  <2>4. trade.entry = price /\ trade.stop = stop
    OBVIOUS
  <2>5. qty = ApprovedSize(day, trade, expiryDay, Book, halted, feedOk)
    OBVIOUS
  <2> HIDE DEF trade, day, qty
  <2> QED BY <2>1, <2>2, <2>3, <2>4, <2>5, ApprovalRisksLittle
<1> HIDE DEF row
<1>4. /\ signal' = [j \in Signals |-> signal'[j]] /\ \A j \in Signals : SignalStep(j)
  <2>1. CASE signal' = signal
    BY <1>1, <2>1, SignalsKept
  <2>2. CASE signal' = [signal EXCEPT ![i] = row]
    <3>1. /\ signal' = [j \in Signals |-> signal'[j]]
          /\ signal'[i] = row /\ \A j \in Signals \ {i} : signal'[j] = signal[j]
      BY <2>2 DEF Rows
    <3> QED BY <1>1, <1>2, <1>3, <3>1 DEF SignalStep, Rows
  <2> QED BY <1>1, <2>1, <2>2
<1>5. AccountRow(account') /\ account'.current = account.current
  BY <1>1, CheckedAccount
<1> QED BY <1>1, <1>4, <1>5 DEF World, Kept, Rows

LEMMA GetStaleStep ==
  ASSUME Rows, NEW i \in Signals, GetStale(i)
  PROVE  World
<1>1. /\ mode' = mode /\ position' = position /\ account' = account
      /\ signal[i].status = "approved"
      /\ signal' = [signal EXCEPT ![i].fresh = FALSE]
  BY DEF GetStale
<1>2. /\ signal' = [j \in Signals |-> signal'[j]]
      /\ signal'[i] = [signal[i] EXCEPT !.fresh = FALSE]
      /\ \A j \in Signals \ {i} : signal'[j] = signal[j]
  BY <1>1 DEF Rows
<1>3. /\ SignalRow(signal[i])
      /\ signal[i] = [status |-> signal[i].status, side |-> signal[i].side,
                      entry |-> signal[i].entry, stop |-> signal[i].stop, qty |-> signal[i].qty,
                      fresh |-> signal[i].fresh]
  BY DEF Rows, SignalRow
<1>4. signal'[i] = [status |-> signal[i].status, side |-> signal[i].side,
                    entry |-> signal[i].entry, stop |-> signal[i].stop, qty |-> signal[i].qty,
                    fresh |-> FALSE]
  BY <1>2, <1>3
<1>5. SignalRow(signal'[i]) /\ signal'[i].status = signal[i].status
  BY <1>3, <1>4 DEF SignalRow
<1> QED BY <1>1, <1>2, <1>5 DEF World, Kept, SignalStep, Rows

LEMMA NextDayStep ==
  ASSUME Rows, NextDay
  PROVE  World
<1>1. /\ mode' = mode /\ signal' = signal /\ position' = position
      /\ account' = [account EXCEPT !.today = FALSE]
  BY DEF NextDay
<1>2. account = [current |-> account.current, dayStart |-> account.dayStart, peak |-> account.peak,
                 losses |-> account.losses, today |-> account.today]
  BY DEF Rows, AccountRow
<1>3. account' = [current |-> account.current, dayStart |-> account.dayStart,
                  peak |-> account.peak, losses |-> account.losses, today |-> FALSE]
  BY <1>1, <1>2
<1>4. AccountRow(account') /\ account'.current = account.current
  BY <1>3 DEF AccountRow
<1> QED BY <1>1, <1>4, SignalsKept DEF World, Kept, Rows

\* ExecutionModeView.post: nothing approved is left behind.
LEMMA SwitchModeStep ==
  ASSUME DeskAssumption, Rows, SwitchMode
  PROVE  World
<1>1. /\ OpenNow = {} /\ position' = position /\ account' = account
      /\ mode' \in {"paper", "live"}
      /\ signal' = [i \in Signals |-> IF i \in Approved THEN Ended("expired") ELSE signal[i]]
  BY DEF SwitchMode
<1> DEFINE old == Approved
<1>2. /\ signal' = [i \in Signals |-> signal'[i]] /\ \A i \in Signals : SignalStep(i)
  <2>1. /\ \A i \in Signals : i \in old => signal[i].status = "approved"
        /\ signal' = [i \in Signals |-> IF i \in old THEN Ended("expired") ELSE signal[i]]
    BY <1>1 DEF Approved
  <2> HIDE DEF old
  <2> QED BY <2>1, SomeExpire
<1>3. \A i \in Signals : signal'[i].status # "approved"
  <2>1. Ended("expired").status = "expired"
    BY EndedRow
  <2> QED BY <1>1, <2>1 DEF Approved
<1> QED BY <1>1, <1>2, <1>3 DEF World, Kept, Rows

LEMMA SweepStep ==
  ASSUME Rows, NEW w, Sweep(w)
  PROVE  World
<1> DEFINE old == {i \in Approved : ~signal[i].fresh}
<1>1. /\ mode' = mode /\ position' = position /\ account' = account
      /\ signal' = [i \in Signals |-> IF i \in old THEN Ended("expired") ELSE signal[i]]
  BY DEF Sweep
<1>2. \A i \in Signals : i \in old => signal[i].status = "approved"
  BY DEF Approved
<1> HIDE DEF old
<1>3. /\ signal' = [i \in Signals |-> signal'[i]] /\ \A i \in Signals : SignalStep(i)
  BY <1>1, <1>2, SomeExpire
<1> QED BY <1>1, <1>3 DEF World, Kept, Rows

-----------------------------------------------------------------------------
(* The tasks *)

\* A step that leaves the rows as they are.
LEMMA NothingMoves ==
  ASSUME Rows, UNCHANGED <<mode, signal, position>>, AccountRow(account'),
         account'.current = account.current
  PROVE  World
BY SignalsKept DEF World, Kept, Rows

\* One position moves and no signal does.
LEMMA OneMoves ==
  ASSUME Rows, UNCHANGED <<mode, signal>>, AccountRow(account'), NEW i \in Signals,
         Kept \/ Moved(i) \/ Shut(i)
  PROVE  World
BY SignalsKept DEF World, Rows

LEMMA ObserveStep ==
  ASSUME DeskAssumption, Rows, NEW w, NEW i \in Signals, NEW price \in Prices,
         Observe(w, i, price)
  PROVE  World
<1> DEFINE q == Trailed(position[i], price)
<1>1. /\ UNCHANGED <<mode, signal, account>>
      /\ \/ position' = position
         \/ position[i].state = "open" /\ position' = [position EXCEPT ![i] = q]
  BY DEF Observe
<1>2. PositionRow(position[i]) /\ price \in Int
  BY DEF Rows, DeskAssumption
<1>3. /\ PositionRow(q) /\ q.state = position[i].state /\ q.realized = position[i].realized
      /\ IF position[i].side = "LONG" THEN q.stop >= position[i].stop
         ELSE q.stop <= position[i].stop
  BY <1>2, TrailedRow
<1> HIDE DEF q
<1>4. CASE position' = position
  BY <1>1, <1>4, NothingMoves DEF Rows
<1>5. CASE position[i].state = "open" /\ position' = [position EXCEPT ![i] = q]
  <2>1. /\ position' = [j \in Signals |-> position'[j]]
        /\ position'[i] = q /\ \A j \in Signals \ {i} : position'[j] = position[j]
    BY <1>5 DEF Rows
  <2>2. Moved(i)
    BY <1>1, <1>3, <1>5, <2>1 DEF Moved, Tightens, OthersKept, OpenNow
  <2> QED BY <1>1, <2>2, OneMoves DEF Rows
<1> QED BY <1>1, <1>4, <1>5

\* The new mark of a row that stays open.
LEMMA MarkedRow ==
  ASSUME Rows, NEW i \in Signals, NEW price, UNCHANGED account,
         position' = IF position[i].state = "open" THEN [position EXCEPT ![i].mark = price]
                     ELSE position
  PROVE  AccountRow(account') /\ (Kept \/ Moved(i))
<1>1. CASE position[i].state # "open"
  BY <1>1 DEF Kept, Rows
<1>2. CASE position[i].state = "open"
  <2>1. /\ position' = [j \in Signals |-> position'[j]]
        /\ position'[i] = [position[i] EXCEPT !.mark = price]
        /\ \A j \in Signals \ {i} : position'[j] = position[j]
    BY <1>2 DEF Rows
  <2> DEFINE p == position[i]
  <2>2. /\ PositionRow(p)
        /\ p = [state |-> p.state, side |-> p.side, ref |-> p.ref, fill |-> p.fill,
                stop |-> p.stop, target |-> p.target, trail |-> p.trail, peak |-> p.peak,
                qty |-> p.qty, mark |-> p.mark, realized |-> p.realized]
    BY DEF Rows, PositionRow
  <2>3. position'[i] =
               [state |-> p.state, side |-> p.side, ref |-> p.ref, fill |-> p.fill,
                stop |-> p.stop, target |-> p.target, trail |-> p.trail, peak |-> p.peak,
                qty |-> p.qty, mark |-> price, realized |-> p.realized]
    BY <2>1, <2>2
  <2>4. /\ PositionRow(position'[i]) /\ position'[i].state = p.state
        /\ position'[i].stop = p.stop /\ position'[i].realized = p.realized
    BY <2>2, <2>3 DEF PositionRow
  <2>5. Tightens(i)
    BY <2>2, <2>4 DEF Tightens, PositionRow
  <2> QED BY <1>2, <2>1, <2>4, <2>5 DEF Moved, OthersKept, OpenNow, Rows
<1> QED BY <1>1, <1>2

LEMMA DecideStep ==
  ASSUME Rows, NEW w, NEW i \in Signals, NEW technical, Decide(w, i, technical)
  PROVE  World
<1>1. /\ UNCHANGED <<mode, signal>>
      /\ \/ \E price : Close(i, price)
         \/ /\ UNCHANGED account
            /\ position' = IF position[i].state = "open"
                             THEN [position EXCEPT ![i].mark = task[w].seen] ELSE position
  BY Zenon DEF Decide
<1>2. AccountRow(account') /\ (Kept \/ Moved(i) \/ Shut(i))
  <2>1. ASSUME NEW price, Close(i, price) PROVE AccountRow(account') /\ (Kept \/ Shut(i))
    BY <2>1, ClosedRow
  <2> QED BY <1>1, <2>1, MarkedRow
<1> QED BY <1>1, <1>2, OneMoves

LEMMA FlattenStep ==
  ASSUME Rows, NEW w, NEW i \in Signals, NEW price, Flatten(w, i, price)
  PROVE  World
<1>1. UNCHANGED <<mode, signal>> /\ Close(i, price)
  BY DEF Flatten
<1> QED BY <1>1, ClosedRow, OneMoves

\* open_position_from_signal: only an approved signal is touched, and only one
\* whose symbol and place the exposure check finds free becomes a position.
LEMMA OpenStep ==
  ASSUME DeskAssumption, Rows, OpensOnce, NEW w, NEW i \in Signals, NEW feedOk,
         Open(w, i, feedOk)
  PROVE  World
<1> DEFINE s == signal[i]
           fill == IF Venue = "live" THEN s.entry ELSE AdverseFill(s.entry, s.side, TRUE, Costs)
           trade == [symbol |-> SymbolOf[i], entry |-> s.entry, stop |-> s.stop]
           allowed == /\ mode = Venue
                      /\ StillExecutable(Rolled, trade, s.qty, s.fresh, Book, halted, feedOk)
                      /\ Sized(i, fill) > 0
           row == [state |-> "open", side |-> s.side, ref |-> s.entry, fill |-> fill,
                   stop |-> s.stop, target |-> s.entry + 2 * (s.entry - s.stop),
                   trail |-> Distance(fill, s.stop), peak |-> fill,
                   qty |-> Sized(i, fill), mark |-> s.entry, realized |-> 0]
<1>1. /\ UNCHANGED mode
      /\ \/ UNCHANGED <<signal, position, account>>
         \/ /\ s.status = "approved"
            /\ signal' = [signal EXCEPT ![i] = Ended(IF allowed THEN "executed" ELSE "rejected")]
            /\ CheckAccount \/ UNCHANGED account
            /\ position' = IF allowed THEN [position EXCEPT ![i] = row] ELSE position
  BY Zenon DEF Open
<1>2. SignalRow(s)
  BY DEF Rows
<1>3. PositionRow(row)
  <2>1. fill \in Int
    BY <1>2, FillIsWhole DEF SignalRow
  <2>2. Distance(fill, s.stop) \in Int
    <3> HIDE DEF fill
    <3> QED BY <1>2, <2>1 DEF SignalRow, Distance, Larger
  <2> HIDE DEF fill, s
  <2> QED BY <1>2, <2>1, <2>2 DEF PositionRow, SignalRow
<1>4. row.state = "open"
  OBVIOUS
<1>5. allowed => mode = Venue /\ ExposureAllows(SymbolOf[i], Book)
  <2>1. trade.symbol = SymbolOf[i]
    OBVIOUS
  <2> QED BY <2>1, Zenon DEF StillExecutable
<1>6. PICK go \in BOOLEAN : go <=> allowed
  OBVIOUS
<1> HIDE DEF row, allowed
<1>7. CASE UNCHANGED <<signal, position, account>>
  BY <1>1, <1>7, NothingMoves DEF Rows
<1>8. CASE /\ s.status = "approved"
           /\ signal' = [signal EXCEPT ![i] = Ended(IF allowed THEN "executed" ELSE "rejected")]
           /\ CheckAccount \/ UNCHANGED account
           /\ position' = IF allowed THEN [position EXCEPT ![i] = row] ELSE position
  <2>1. AccountRow(account') /\ account'.current = account.current
    BY <1>8, CheckedAccount DEF Rows
  <2>2. position[i].state = "none"
    BY <1>8 DEF OpensOnce
  <2>3. /\ signal' = [j \in Signals |-> signal'[j]]
        /\ signal'[i] = Ended(IF allowed THEN "executed" ELSE "rejected")
        /\ \A j \in Signals \ {i} : signal'[j] = signal[j]
    BY <1>8 DEF Rows
  <2>4. /\ SignalRow(signal'[i])
        /\ allowed => signal'[i].status = "executed"
        /\ ~allowed => signal'[i].status = "rejected"
    BY <2>3, EndedRow
  <2>5. CASE allowed
    <3>1. /\ position' = [j \in Signals |-> position'[j]]
          /\ position'[i] = row /\ \A j \in Signals \ {i} : position'[j] = position[j]
      BY <1>8, <2>5 DEF Rows
    <3>2. Born(i)
      BY <1>3, <1>4, <1>5, <1>8, <2>1, <2>4, <2>5, <3>1 DEF Born, OthersKept
    <3>3. \A j \in Signals : SignalStep(j)
      BY <1>4, <1>8, <2>2, <2>3, <2>4, <2>5, <3>1 DEF SignalStep, Rows
    <3> QED BY <1>1, <2>1, <2>3, <3>2, <3>3 DEF World, Rows
  <2>6. CASE ~allowed
    <3>1. position' = position
      BY <1>8, <2>6
    <3>2. \A j \in Signals : SignalStep(j)
      BY <1>8, <2>3, <2>4, <2>6 DEF SignalStep, Rows
    <3> QED BY <1>1, <2>1, <2>3, <3>1, <3>2 DEF World, Kept, Rows
  <2> QED BY <2>5, <2>6
<1> QED BY <1>1, <1>7, <1>8

-----------------------------------------------------------------------------
(* Every step *)

LEMMA WorldStep ==
  ASSUME DeskAssumption, Rows, OpensOnce, [Next]_vars
  PROVE  World
<1>1. CASE UNCHANGED vars
  BY <1>1, NothingMoves DEF vars, Rows
<1>2. CASE NextDay
  BY <1>2, NextDayStep
<1>3. CASE Trip \/ Rearm
  BY <1>3, NothingMoves DEF Trip, Rearm, Rows
<1>4. CASE SwitchMode
  BY <1>4, SwitchModeStep
<1>5. ASSUME NEW i \in Signals, GetStale(i) PROVE World
  BY <1>5, GetStaleStep
<1>6. ASSUME NEW i \in Signals, NEW side \in EntrySides, NEW price \in Entries,
             NEW expiryDay \in BOOLEAN, NEW feedOk \in BOOLEAN,
             Approve(i, side, price, expiryDay, feedOk)
      PROVE  World
  BY <1>6, ApproveStep
<1>7. ASSUME NEW w \in Workers, Work(w) PROVE World
  <2>1. CASE EndLoop(w) \/ AfterEntries(w)
    BY <2>1, NothingMoves DEF EndLoop, AfterEntries, Rows
  <2>2. CASE EnforceLimits(w)
    <3>1. UNCHANGED <<mode, signal, position>> /\ CheckAccount
      BY <2>2 DEF EnforceLimits
    <3> QED BY <3>1, CheckedAccount, NothingMoves
  <2>3. CASE Sweep(w)
    BY <2>3, SweepStep
  <2>4. ASSUME NEW i \in Signals, NEW price \in Prices, Observe(w, i, price) PROVE World
    BY <2>4, ObserveStep
  <2>5. ASSUME NEW i \in Signals, NEW technical \in BOOLEAN, Decide(w, i, technical) PROVE World
    BY <2>5, DecideStep
  <2>6. ASSUME NEW i \in Signals, NEW price, Flatten(w, i, price) PROVE World
    BY <2>6, FlattenStep
  <2>7. ASSUME NEW i \in Signals, NEW feedOk \in BOOLEAN, Open(w, i, feedOk) PROVE World
    BY <2>7, OpenStep
  <2> QED BY <1>7, <2>1, <2>2, <2>3, <2>4, <2>5, <2>6, <2>7 DEF Work
<1>8. ASSUME NEW w \in Workers, StartMonitor(w) \/ StartFlatten(w) PROVE World
  BY <1>8, NothingMoves DEF StartMonitor, StartFlatten, Rows
<1>9. ASSUME NEW w \in Workers, NEW marketOpen \in BOOLEAN, StartCycle(w, marketOpen) PROVE World
  BY <1>9, NothingMoves DEF StartCycle, Rows
<1> QED BY <1>1, <1>2, <1>3, <1>4, <1>5, <1>6, <1>7, <1>8, <1>9 DEF Next, Surroundings

-----------------------------------------------------------------------------
(* The open book *)

\* A finite book has exactly one entry per open position, so counting it counts
\* the positions (_open_positions).
LEMMA BookCountsPositions ==
  ASSUME IsFiniteSet(OpenNow)
  PROVE  IsFiniteSet(Book) /\ Cardinality(OpenNow) <= Cardinality(Book)
<1> DEFINE entry(i) == [id |-> i, symbol |-> SymbolOf[i],
                        risk |-> position[i].qty * Distance(position[i].fill, position[i].stop)]
           f == [i \in OpenNow |-> entry(i)]
<1>1. /\ \A i \in OpenNow : entry(i) \in Book /\ entry(i).id = i
      /\ \A b \in Book : \E i \in OpenNow : entry(i) = b
  BY DEF Book
<1> HIDE DEF entry
<1>2. f \in [OpenNow -> Book] /\ \A i \in OpenNow : f[i] = entry(i)
  BY <1>1
<1> HIDE DEF f
<1>3. \A i, j \in OpenNow : f[i] = f[j] => i = j
  BY <1>1, <1>2
<1>4. \A b \in Book : \E i \in OpenNow : f[i] = b
  BY <1>1, <1>2
<1>5. f \in Surjection(OpenNow, Book)
  BY <1>2, <1>4 DEF Surjection
<1>6. IsFiniteSet(Book)
  BY <1>5, FS_Surjection
<1>7. f \in Injection(OpenNow, Book)
  <2>1. DOMAIN f = OpenNow
    BY <1>2
  <2> QED BY <1>2, <1>3, <2>1 DEF Injection, IsInjective
<1> QED BY <1>6, <1>7, FS_Injection

\* A place that the exposure check finds free is free: fewer positions than the
\* limit, none of them in the symbol (_check_exposure).
LEMMA FreePlace ==
  ASSUME DeskAssumption, IsFiniteSet(OpenNow), NEW symbol, ExposureAllows(symbol, Book)
  PROVE  /\ Cardinality(OpenNow) + 1 <= MaxPositions
         /\ \A i \in OpenNow : SymbolOf[i] # symbol
<1>1. /\ IsFiniteSet(Book) /\ Cardinality(OpenNow) <= Cardinality(Book)
      /\ Cardinality(OpenNow) \in Nat /\ Cardinality(Book) \in Nat
  BY BookCountsPositions, FS_CardinalityType
<1>2. Cardinality(OpenNow) + 1 <= MaxPositions
  BY <1>1 DEF ExposureAllows, DeskAssumption
<1>3. ASSUME NEW i \in OpenNow PROVE SymbolOf[i] # symbol
  <2>1. [id |-> i, symbol |-> SymbolOf[i],
         risk |-> position[i].qty * Distance(position[i].fill, position[i].stop)] \in Book
    BY DEF Book
  <2> QED BY <2>1 DEF ExposureAllows
<1> QED BY <1>2, <1>3

\* What a step does to the set of open positions.
LEMMA OpenNowStep ==
  ASSUME World, Rows, OpensOnce
  PROVE  \/ OpenNow' = OpenNow
         \/ \E i \in OpenNow : OpenNow' = OpenNow \ {i}
         \/ \E i \in Signals : /\ OpenNow' = OpenNow \union {i} /\ i \notin OpenNow
                               /\ mode = Venue /\ ExposureAllows(SymbolOf[i], Book)
<1>1. CASE Kept
  BY <1>1 DEF Kept, OpenNow
<1>2. ASSUME NEW i \in Signals, Moved(i) PROVE OpenNow' = OpenNow
  BY <1>2 DEF Moved, OthersKept, OpenNow
<1>3. ASSUME NEW i \in Signals, Shut(i) PROVE i \in OpenNow /\ OpenNow' = OpenNow \ {i}
  BY <1>3 DEF Shut, OthersKept, OpenNow
<1>4. ASSUME NEW i \in Signals, Born(i)
      PROVE  /\ OpenNow' = OpenNow \union {i} /\ i \notin OpenNow
             /\ mode = Venue /\ ExposureAllows(SymbolOf[i], Book)
  BY <1>4 DEF Born, OthersKept, OpenNow, OpensOnce
<1> QED BY <1>1, <1>2, <1>3, <1>4 DEF World

-----------------------------------------------------------------------------
(* Invariance *)

LEMMA InitDesk ==
  ASSUME DeskAssumption, Init
  PROVE  DeskInv
<1>1. /\ SignalRow(Unmade) /\ Unmade.status = "none"
  <2>1. PICK row : row = Unmade
    OBVIOUS
  <2>2. row = [status |-> "none", side |-> "LONG", entry |-> 0, stop |-> 0, qty |-> 0,
               fresh |-> FALSE]
    BY <2>1 DEF Unmade
  <2> QED BY <2>1, <2>2 DEF SignalRow, Sides
<1>2. /\ PositionRow(Unopened) /\ Unopened.state = "none"
  <2>1. PICK row : row = Unopened
    OBVIOUS
  <2>2. row = [state |-> "none", side |-> "LONG", ref |-> 0, fill |-> 0, stop |-> 0,
               target |-> 0, trail |-> 0, peak |-> 0, qty |-> 0, mark |-> 0, realized |-> 0]
    BY <2>1 DEF Unopened
  <2> QED BY <2>1, <2>2 DEF PositionRow, Sides
<1>3. AccountRow(account)
  BY DEF Init, AccountRow
<1>4. /\ signal = [i \in Signals |-> signal[i]] /\ \A i \in Signals : signal[i] = Unmade
      /\ position = [i \in Signals |-> position[i]] /\ \A i \in Signals : position[i] = Unopened
      /\ mode = Venue
  BY DEF Init
<1>5. Rows
  BY <1>1, <1>2, <1>3, <1>4 DEF Rows, DeskAssumption
<1>6. OpenNow = {} /\ OpensOnce
  BY <1>1, <1>2, <1>4 DEF OpenNow, OpensOnce
<1>7. IsFiniteSet(OpenNow) /\ OnePositionPerSymbol
  BY <1>6, FS_EmptySet DEF OnePositionPerSymbol, DeskAssumption
<1> QED BY <1>4, <1>5, <1>6, <1>7 DEF DeskInv, NothingAbroad

LEMMA RowsStep ==
  ASSUME World, Rows, OpensOnce
  PROVE  Rows' /\ OpensOnce'
<1>1. /\ position' = [i \in Signals |-> position'[i]]
      /\ \A i \in Signals : PositionRow(position'[i])
      /\ AccountRow(account')
  BY DEF World, Rows, Kept, Moved, Shut, Born, OthersKept
<1>2. Rows'
  BY <1>1 DEF World, SignalStep, Rows
<1>3. ASSUME NEW i \in Signals
      PROVE  (signal'[i].status = "executed") <=> (position'[i].state # "none")
  <2>1. /\ SignalStep(i)
        /\ (signal[i].status = "executed") <=> (position[i].state # "none")
    BY DEF World, OpensOnce
  <2>2. position[i].state # "none" => position'[i].state # "none"
    BY DEF World, Kept, Moved, Shut, Born, OthersKept
  <2>3. position'[i].state # "none" =>
          position[i].state # "none" \/ signal'[i].status = "executed"
    BY DEF World, Kept, Moved, Shut, Born, OthersKept, OpenNow
  <2> QED BY <2>1, <2>2, <2>3 DEF SignalStep
<1> QED BY <1>2, <1>3 DEF OpensOnce

LEMMA ExposureStep ==
  ASSUME DeskAssumption, World, Rows, OpensOnce, IsFiniteSet(OpenNow), OnePositionPerSymbol
  PROVE  IsFiniteSet(OpenNow') /\ OnePositionPerSymbol'
<1>1. CASE OpenNow' = OpenNow
  BY <1>1 DEF OnePositionPerSymbol
<1>2. ASSUME NEW i \in OpenNow, OpenNow' = OpenNow \ {i}
      PROVE  IsFiniteSet(OpenNow') /\ OnePositionPerSymbol'
  <2>1. /\ IsFiniteSet(OpenNow') /\ Cardinality(OpenNow') = Cardinality(OpenNow) - 1
        /\ Cardinality(OpenNow) \in Nat
    BY <1>2, FS_RemoveElement, FS_CardinalityType
  <2> QED BY <1>2, <2>1 DEF OnePositionPerSymbol, DeskAssumption
<1>3. ASSUME NEW i \in Signals, OpenNow' = OpenNow \union {i}, i \notin OpenNow,
             ExposureAllows(SymbolOf[i], Book)
      PROVE  IsFiniteSet(OpenNow') /\ OnePositionPerSymbol'
  <2>1. /\ IsFiniteSet(OpenNow') /\ Cardinality(OpenNow') = Cardinality(OpenNow) + 1
    BY <1>3, FS_AddElement
  <2>2. /\ Cardinality(OpenNow) + 1 <= MaxPositions
        /\ \A j \in OpenNow : SymbolOf[j] # SymbolOf[i]
    BY <1>3, FreePlace
  <2> QED BY <1>3, <2>1, <2>2 DEF OnePositionPerSymbol
<1> QED BY <1>1, <1>2, <1>3, OpenNowStep

\* The switch is refused while something is open and expires what is approved;
\* what is approved or opened later is so in the venue's own mode.
LEMMA AbroadStep ==
  ASSUME World, Rows, OpensOnce, NothingAbroad
  PROVE  NothingAbroad'
<1>1. CASE mode' # mode
  <2>1. OpenNow' = {} /\ Approved' = {}
    BY <1>1 DEF World, OpenNow, Approved
  <2> QED BY <2>1 DEF NothingAbroad
<1>2. CASE mode' = mode /\ mode # Venue
  <2>1. OpenNow = {} /\ Approved = {}
    BY <1>2 DEF NothingAbroad
  <2>2. OpenNow' = {}
    BY <1>2, <2>1, OpenNowStep
  <2>3. Approved' = {}
    BY <1>2, <2>1 DEF World, SignalStep, Approved
  <2> QED BY <2>2, <2>3 DEF NothingAbroad
<1>3. CASE mode' = mode /\ mode = Venue
  BY <1>3 DEF NothingAbroad
<1> QED BY <1>1, <1>2, <1>3

LEMMA DeskStep ==
  ASSUME DeskAssumption, DeskInv, [Next]_vars
  PROVE  DeskInv'
<1>1. World
  BY WorldStep DEF DeskInv
<1> QED BY <1>1, RowsStep, ExposureStep, AbroadStep DEF DeskInv

\* The rows of signals and positions agree, whatever tasks overlap: the
\* inductive invariant of the desk.
THEOREM DeskInvariance == ASSUME DeskAssumption PROVE Spec => []DeskInv
BY InitDesk, DeskStep, PTL DEF Spec

-----------------------------------------------------------------------------
(* What follows *)

\* Two approvals of one symbol never become two positions, and never more
\* positions are open than allowed, whoever opens them (_check_exposure).
THEOREM PositionsAreLimited ==
  ASSUME DeskAssumption
  PROVE  Spec => []OnePositionPerSymbol
<1>1. DeskInv => OnePositionPerSymbol
  BY DEF DeskInv
<1> QED BY <1>1, DeskInvariance, PTL

\* A mode switch leaves nothing behind that belongs to the other venue, even
\* when a cycle started before it (ExecutionModeView.post).
THEOREM ModesAreSeparate ==
  ASSUME DeskAssumption
  PROVE  Spec => []NothingAbroad
<1>1. DeskInv => NothingAbroad
  BY DEF DeskInv
<1> QED BY <1>1, DeskInvariance, PTL

\* Whichever task trails it, the stop of an open position never loosens
\* (update_trailing_stop).
THEOREM StopsRatchet == ASSUME DeskAssumption PROVE Spec => [][Ratchets]_vars
<1>1. ASSUME DeskInv, [Next]_vars, NEW i \in OpenNow, position'[i].state = "open"
      PROVE  Tightens(i)
  <2>1. World /\ i \in Signals /\ PositionRow(position[i])
    BY <1>1, WorldStep DEF DeskInv, Rows, OpenNow
  <2>2. position'[i] = position[i] => Tightens(i)
    BY <2>1 DEF Tightens, PositionRow
  <2>3. ASSUME NEW j \in Signals, Moved(j) \/ Shut(j) \/ Born(j) PROVE Tightens(i)
    <3>1. CASE j # i
      BY <2>1, <2>2, <2>3, <3>1 DEF Moved, Shut, Born, OthersKept
    <3>2. CASE j = i
      BY <1>1, <2>3, <3>2 DEF Moved, Shut, Born, DeskInv, OpensOnce, OpenNow
    <3> QED BY <3>1, <3>2
  <2> QED BY <2>1, <2>2, <2>3 DEF World, Kept
<1>2. DeskInv /\ [Next]_vars => [Ratchets]_vars
  BY <1>1 DEF Ratchets, Tightens
<1> QED BY <1>2, DeskInvariance, PTL DEF Spec

\* A signal becomes approved only at a size that risks the configured share of
\* the equity and stays below the exposure limit.
ApprovesLittle ==
  \A i \in Signals :
    signal[i].status # "approved" /\ signal'[i].status = "approved" => Affordable(signal'[i])

\* check_pre_trade: no approval is larger than the equity of that moment allows.
THEOREM ApprovalsAreAffordable == ASSUME DeskAssumption PROVE Spec => [][ApprovesLittle]_vars
<1>1. DeskInv /\ [Next]_vars => [ApprovesLittle]_vars
  BY WorldStep DEF DeskInv, World, SignalStep, ApprovesLittle
<1> QED BY <1>1, DeskInvariance, PTL DEF Spec

\* Settles: position i is closed in this step.
Settles(i) == i \in OpenNow /\ position'[i].state = "closed"

\* The account's cash moves only when a position closes, one position per step,
\* by exactly the result that row keeps; a closed row never changes again and
\* no position comes back (close_position under the row's lock).
CreditedOnce ==
  /\ (\A i \in Signals : ~Settles(i)) => account'.current = account.current
  /\ \A i \in Signals : Settles(i) =>
       /\ account'.current = account.current + position'[i].realized
       /\ \A j \in Signals \ {i} : position'[j] = position[j]
  /\ \A i \in Signals : position[i].state = "closed" => position'[i] = position[i]

\* Two cycles, the monitor and a flatten may all decide to close one position:
\* its result reaches the account exactly once.
THEOREM ResultsAreCreditedOnce == ASSUME DeskAssumption PROVE Spec => [][CreditedOnce]_vars
<1>1. ASSUME DeskInv, World PROVE CreditedOnce
  <2>1. CASE Kept
    BY <2>1 DEF Kept, CreditedOnce, Settles, OpenNow
  <2>2. ASSUME NEW i \in Signals, Moved(i) PROVE CreditedOnce
    BY <2>2 DEF Moved, OthersKept, CreditedOnce, Settles, OpenNow
  <2>3. ASSUME NEW i \in Signals, Shut(i) PROVE CreditedOnce
    BY <2>3 DEF Shut, OthersKept, CreditedOnce, Settles, OpenNow
  <2>4. ASSUME NEW i \in Signals, Born(i) PROVE CreditedOnce
    <3>1. position[i].state = "none"
      BY <1>1, <2>4 DEF Born, DeskInv, OpensOnce, Rows, PositionRow
    <3> QED BY <2>4, <3>1 DEF Born, OthersKept, CreditedOnce, Settles, OpenNow
  <2> QED BY <1>1, <2>1, <2>2, <2>3, <2>4 DEF World
<1>2. DeskInv /\ [Next]_vars => [CreditedOnce]_vars
  BY <1>1, WorldStep DEF DeskInv
<1> QED BY <1>2, DeskInvariance, PTL DEF Spec
=============================================================================
