---------------------------- MODULE TradingDesk -----------------------------
(***************************************************************************)
(* The trading cycle with the legacy paper executor (apps/execution):      *)
(* run_trading_cycle, the manual-option monitor and the flatten task share *)
(* signals, positions, the account row and the kill switch with the signal *)
(* engine and the operator's mode switch.                                  *)
(*                                                                         *)
(* One step is one committed transaction with the reads just before it;    *)
(* task[w] is the volatile state of the Celery task that worker w runs.    *)
(* Quotes are chosen anew at each read. A row that has ended keeps only    *)
(* its status and its result. Venue = "live" replaces only the opener:     *)
(* open_position_live, filled in full at the signal's price.               *)
(***************************************************************************)
EXTENDS RiskRules, Functions

CONSTANTS
  Signals,        \* bound: the signals the engine creates
  SymbolOf,       \* SymbolOf[i]: the symbol signal i trades
  Workers,
  Entries,        \* bound: prices at which the engine proposes a trade
  EntrySides,     \* bound: the sides it proposes
  Prices,         \* quotes of a symbol afterwards
  StopDistance,   \* distance of the stop the engine computes
  Costs,          \* the configured cost assumptions
  InitialCash,
  Venue           \* the opener: "paper" or "live"

Unmade == [status |-> "none", side |-> "LONG", entry |-> 0, stop |-> 0, qty |-> 0, fresh |-> FALSE]
Unopened == [state |-> "none", side |-> "LONG", ref |-> 0, fill |-> 0, stop |-> 0, target |-> 0,
             trail |-> 0, peak |-> 0, qty |-> 0, mark |-> 0, realized |-> 0]

DeskAssumption ==
  /\ Entries \union Prices \subseteq Nat \ {0} /\ StopDistance \in Nat \ {0}
  /\ EntrySides \subseteq Sides /\ Costs \in Assumptions /\ InitialCash \in Nat
  /\ SymbolOf \in [Signals -> Symbols] /\ Venue \in {"paper", "live"}
  /\ {MaxPositions, RiskPct, ExposurePct} \subseteq Nat
  /\ {TenThousand, MoneyQuantum} \subseteq Nat \ {0}

VARIABLES
  mode,       \* ExecutionModeSetting.mode
  signal,     \* TradingSignal rows
  position,   \* OpenPosition rows, one per signal
  account,    \* the AccountEquity row; today: trading_day is the current day
  halted,     \* KillSwitchState.is_active
  task        \* the running code of each worker

vars == <<mode, signal, position, account, halted, task>>

\* stops: the stop of each row as the task holds it; at, seen: the row being
\* decided and its quote; then: what follows the exits or the flatten.
Idle == [pc |-> "idle", todo |-> {}, stops |-> [i \in Signals |-> 0], at |-> {}, seen |-> 0,
         halt |-> FALSE, entries |-> FALSE, then |-> "idle"]

Init ==
  /\ mode = Venue
  /\ signal = [i \in Signals |-> Unmade]
  /\ position = [i \in Signals |-> Unopened]
  /\ account = [current |-> InitialCash, dayStart |-> InitialCash, peak |-> InitialCash,
                losses |-> 0, today |-> TRUE]
  /\ halted = FALSE
  /\ task = [w \in Workers |-> Idle]

OpenNow == {i \in Signals : position[i].state = "open"}
Approved == {i \in Signals : signal[i].status = "approved"}

Book == {[id |-> i, symbol |-> SymbolOf[i],
          risk |-> position[i].qty * Distance(position[i].fill, position[i].stop)] : i \in OpenNow}

\* get_equity: the first reader of a new day rolls the daily baseline.
Rolled == IF account.today THEN account
          ELSE [account EXCEPT !.dayStart = account.current, !.today = TRUE]

Ended(status) == [Unmade EXCEPT !.status = status]
Goto(w, t) == task' = [task EXCEPT ![w] = t]

\* A limit check reads the account and trips the switch on a breach.
CheckAccount ==
  /\ account' = Rolled
  /\ halted' = (halted \/ Breached(Rolled))

-----------------------------------------------------------------------------
(* The surroundings *)

\* check_pre_trade approves a size; every check runs, so even a rejected
\* candidate can trip the switch.
Approve(i, side, price, expiryDay, feedOk) ==
  LET stop == price - Direction(side) * StopDistance
      qty == ApprovedSize(Rolled, [symbol |-> SymbolOf[i], entry |-> price, stop |-> stop],
                          expiryDay, Book, halted, feedOk)
  IN /\ mode = Venue /\ signal[i].status = "none" /\ stop > 0
     /\ CheckAccount
     /\ signal' = IF qty = 0 THEN signal
                  ELSE [signal EXCEPT ![i] = [status |-> "approved", side |-> side, entry |-> price,
                                              stop |-> stop, qty |-> qty, fresh |-> TRUE]]
     /\ UNCHANGED <<mode, position, task>>

GetStale(i) ==
  /\ signal[i].status = "approved" /\ signal[i].fresh
  /\ signal' = [signal EXCEPT ![i].fresh = FALSE]
  /\ UNCHANGED <<mode, position, account, halted, task>>

NextDay ==
  /\ account.today
  /\ account' = [account EXCEPT !.today = FALSE]
  /\ UNCHANGED <<mode, signal, position, halted, task>>

Trip == ~halted /\ halted' = TRUE /\ UNCHANGED <<mode, signal, position, account, task>>
Rearm == halted /\ halted' = FALSE /\ UNCHANGED <<mode, signal, position, account, task>>

SwitchModeKeepsApproved ==
  /\ OpenNow = {}
  /\ mode' = IF mode = "paper" THEN "live" ELSE "paper"
  /\ UNCHANGED <<signal, position, account, halted, task>>

\* ExecutionModeView.post: refused while a position is open, else approvals expire.
SwitchMode ==
  /\ OpenNow = {}
  /\ mode' = IF mode = "paper" THEN "live" ELSE "paper"
  /\ signal' = [i \in Signals |-> IF i \in Approved THEN Ended("expired")
                           ELSE signal[i]]
  /\ UNCHANGED <<position, account, halted, task>>

-----------------------------------------------------------------------------
(* Tasks *)

Loaded == [i \in Signals |-> position[i].stop]

StartCycleInHours(w, marketOpen) ==
  /\ task[w].pc = "idle" /\ mode = Venue
  /\ Goto(w, [Idle EXCEPT !.pc = IF halted THEN "flatten" ELSE "exits", !.then = "limits",
                          !.todo = IF marketOpen THEN OpenNow ELSE {},
                          !.stops = Loaded, !.halt = halted, !.entries = marketOpen])
  /\ UNCHANGED <<mode, signal, position, account, halted>>

\* run_trading_cycle reads mode and kill switch, then flattens or checks exits.
StartCycle(w, marketOpen) ==
  /\ task[w].pc = "idle" /\ mode = Venue
  /\ Goto(w, [Idle EXCEPT !.pc = IF halted THEN "flatten" ELSE "exits", !.then = "limits",
                          !.todo = IF halted \/ marketOpen THEN OpenNow ELSE {},
                          !.stops = Loaded, !.halt = halted, !.entries = marketOpen])
  /\ UNCHANGED <<mode, signal, position, account, halted>>

\* monitor_manual_option_positions: the same exits, with the switch as a reason.
StartMonitor(w) ==
  /\ task[w].pc = "idle"
  /\ Goto(w, [Idle EXCEPT !.pc = "exits", !.todo = OpenNow, !.stops = Loaded, !.halt = halted])
  /\ UNCHANGED <<mode, signal, position, account, halted>>

\* flatten_open_positions: the kill-switch view, the square-off.
StartFlatten(w) ==
  /\ task[w].pc = "idle"
  /\ Goto(w, [Idle EXCEPT !.pc = "flatten", !.todo = OpenNow])
  /\ UNCHANGED <<mode, signal, position, account, halted>>

\* update_trailing_stop: a locked read, both fields saved if they changed.
Trailed(p, price) ==
  LET best == IF p.side = "LONG" THEN Larger(p.peak, price) ELSE Smaller(p.peak, price)
      stop == best - Direction(p.side) * p.trail
  IN [p EXCEPT !.peak = best,
               !.stop = IF p.side = "LONG" THEN Larger(p.stop, stop) ELSE Smaller(p.stop, stop)]

\* A quote is read and the stop trails it; the caller's copy of the row is
\* refreshed only when something changed.
Observe(w, i, price) ==
  LET p == position[i]
      moved == p.state = "open" /\ Trailed(p, price) # p
  IN /\ task[w].pc = "exits" /\ i \in task[w].todo
     /\ position' = IF moved THEN [position EXCEPT ![i] = Trailed(p, price)] ELSE position
     /\ Goto(w, [task[w] EXCEPT !.pc = "decide", !.at = {i}, !.seen = price,
                                !.stops[i] = IF moved THEN Trailed(p, price).stop ELSE @])
     /\ UNCHANGED <<mode, signal, account, halted>>

CloseKeepsPeak(i, price) ==
  LET p == position[i]
      net == Settlement(p.ref, price, p.qty, p.side, Costs, p.fill).net
  IN IF p.state = "open"
       THEN /\ position' = [position EXCEPT ![i] = [Unopened EXCEPT !.state = "closed",
                                                                !.realized = net]]
            /\ account' = [account EXCEPT !.current = @ + net]
       ELSE UNCHANGED <<position, account>>

\* close_position: under the row's lock, a closed row is left alone.
Close(i, price) ==
  LET p == position[i]
      net == Settlement(p.ref, price, p.qty, p.side, Costs, p.fill).net
      cash == account.current + net
  IN IF p.state = "open"
       THEN /\ position' = [position EXCEPT ![i] = [Unopened EXCEPT !.state = "closed",
                                                                !.realized = net]]
            /\ account' = [account EXCEPT !.current = cash, !.peak = Larger(@, cash),
                                          !.losses = IF net > 0 THEN 0 ELSE @ + 1]
       ELSE UNCHANGED <<position, account>>

\* The receiver that reviews a closed position: compute_r_multiple divides its
\* result by the distance to the stop it closed with (0: unscoreable).
ReviewedRisk(p) == p.qty * Distance(p.fill, p.stop)

Reward(net, risk) ==
  CASE risk = 0 -> 0
    [] risk > 0 /\ net >= 2 * risk -> 20
    [] risk > 0 /\ net > 0 /\ net < 2 * risk -> 10
    [] risk > 0 /\ net = 0 -> 2
    [] risk > 0 /\ net < 0 /\ net > -risk -> -5
    [] risk > 0 /\ net <= -risk -> -20

StopHit(side, stop, price) == IF side = "LONG" THEN price <= stop ELSE price >= stop
TargetHit(side, target, price) == IF side = "LONG" THEN price >= target ELSE price <= target

\* check_and_close_positions for one row; technical: should_exit_position.
Decide(w, i, technical) ==
  LET p == position[i]
      t == task[w]
      exits == t.then = "limits"
  IN /\ t.pc = "decide" /\ t.at = {i}
     /\ IF StopHit(p.side, t.stops[i], t.seen) \/ (~exits /\ t.halt) THEN Close(i, t.seen)
        ELSE IF TargetHit(p.side, p.target, t.seen)
          THEN Close(i, IF exits THEN p.target ELSE t.seen)
        ELSE IF exits /\ technical THEN Close(i, t.seen)
        ELSE /\ position' = IF p.state = "open" THEN [position EXCEPT ![i].mark = t.seen]
                            ELSE position
             /\ UNCHANGED account
     /\ Goto(w, [t EXCEPT !.pc = "exits", !.todo = @ \ {i}, !.at = {}, !.seen = 0])
     /\ UNCHANGED <<mode, signal, halted>>

\* flatten_all_positions: at a quote, or at the last mark when there is none.
Flatten(w, i, price) ==
  /\ task[w].pc = "flatten" /\ i \in task[w].todo
  /\ price \in Prices \union {position[i].mark}
  /\ Close(i, price)
  /\ Goto(w, [task[w] EXCEPT !.todo = @ \ {i}])
  /\ UNCHANGED <<mode, signal, halted>>

EndLoop(w) ==
  /\ task[w].pc \in {"exits", "flatten"} /\ task[w].todo = {}
  /\ Goto(w, IF task[w].then = "idle" THEN Idle
             ELSE [task[w] EXCEPT !.pc = task[w].then, !.stops = Idle.stops])
  /\ UNCHANGED <<mode, signal, position, account, halted>>

\* After the exits and after the entries: a switch that was tripped meanwhile flattens.
Recheck(w, stop, next) ==
  Goto(w, IF stop /\ ~task[w].halt
            THEN [task[w] EXCEPT !.pc = "flatten", !.todo = OpenNow, !.halt = TRUE, !.then = next]
          ELSE IF next = "idle" THEN Idle
          ELSE [task[w] EXCEPT !.pc = next, !.halt = stop, !.then = "idle"])

EnforceLimits(w) ==
  /\ task[w].pc = "limits"
  /\ CheckAccount
  /\ Recheck(w, halted', "sweep")
  /\ UNCHANGED <<mode, signal, position>>

\* Stale approvals expire; unless entries are blocked, the others are listed.
Sweep(w) ==
  LET old == {i \in Approved : ~signal[i].fresh}
      blocked == task[w].halt \/ ~task[w].entries
  IN /\ task[w].pc = "sweep"
     /\ signal' = [i \in Signals |-> IF i \in old THEN Ended("expired") ELSE signal[i]]
     /\ Goto(w, [task[w] EXCEPT !.pc = "open", !.todo = IF blocked THEN {} ELSE Approved \ old])
     /\ UNCHANGED <<mode, position, account, halted>>

SizedAsApproved(i, fill) == signal[i].qty

\* The size opened: the paper opener caps the modeled loss at the stop.
Sized(i, fill) ==
  LET s == signal[i]
  IN IF Venue = "live" THEN s.qty
     ELSE CapToStopRisk(s.entry, s.stop, s.qty, s.side, Costs, fill, 1,
                        (Rolled.current * RiskPct) \div 100)

\* open_position_from_signal, with every execution-time check repeated; a
\* refusal of either kind leaves the signal rejected.
Open(w, i, feedOk) ==
  LET s == signal[i]
      fill == IF Venue = "live" THEN s.entry ELSE AdverseFill(s.entry, s.side, TRUE, Costs)
      trade == [symbol |-> SymbolOf[i], entry |-> s.entry, stop |-> s.stop]
      allowed == /\ mode = Venue
                 /\ StillExecutable(Rolled, trade, s.qty, s.fresh, Book, halted, feedOk)
                 /\ Sized(i, fill) > 0
  IN /\ task[w].pc = "open" /\ i \in task[w].todo
     /\ Goto(w, [task[w] EXCEPT !.todo = @ \ {i}])
     /\ IF s.status # "approved"
          THEN UNCHANGED <<signal, position, account, halted>>
          ELSE /\ signal' = [signal EXCEPT ![i] = Ended(IF allowed THEN "executed" ELSE "rejected")]
               /\ IF mode = Venue THEN CheckAccount ELSE UNCHANGED <<account, halted>>
               /\ position' = IF ~allowed THEN position
                    ELSE [position EXCEPT ![i] =
                           [state |-> "open", side |-> s.side, ref |-> s.entry, fill |-> fill,
                            stop |-> s.stop, target |-> s.entry + 2 * (s.entry - s.stop),
                            trail |-> Distance(fill, s.stop), peak |-> fill,
                            qty |-> Sized(i, fill), mark |-> s.entry, realized |-> 0]]
     /\ UNCHANGED mode

AfterEntries(w) ==
  /\ task[w].pc = "open" /\ task[w].todo = {}
  /\ Recheck(w, halted, "idle")
  /\ UNCHANGED <<mode, signal, position, account, halted>>

Work(w) ==
  \/ EndLoop(w) \/ EnforceLimits(w) \/ Sweep(w) \/ AfterEntries(w)
  \/ \E i \in Signals :
       \/ \E price \in Prices : Observe(w, i, price)
       \/ \E technical \in BOOLEAN : Decide(w, i, technical)
       \/ \E price \in Prices \union {position[i].mark} : Flatten(w, i, price)
       \/ \E feedOk \in BOOLEAN : Open(w, i, feedOk)

Surroundings ==
  \/ NextDay \/ Trip \/ Rearm \/ SwitchMode
  \/ \E i \in Signals :
       \/ GetStale(i)
       \/ \E side \in EntrySides, price \in Entries, expiryDay, feedOk \in BOOLEAN :
            Approve(i, side, price, expiryDay, feedOk)

Next ==
  \/ Surroundings
  \/ \E w \in Workers :
       \/ Work(w) \/ StartMonitor(w) \/ StartFlatten(w)
       \/ \E marketOpen \in BOOLEAN : StartCycle(w, marketOpen)

Spec == Init /\ [][Next]_vars

\* Running code finishes, and the beat schedule keeps starting the cycle.
FairSpec ==
  /\ Spec
  /\ \A w \in Workers : WF_vars(Work(w)) /\ SF_vars(\E marketOpen \in BOOLEAN : StartCycle(w, marketOpen))

-----------------------------------------------------------------------------
(* Properties *)

\* The types of the rows (apps/execution/models.py, apps/risk/models.py).
TypeOK ==
  /\ mode \in {"paper", "live"} /\ halted \in BOOLEAN
  /\ \A i \in Signals :
       /\ signal[i].status \in {"none", "approved", "executed", "rejected", "expired"}
       /\ position[i].state \in {"none", "open", "closed"}
       /\ position[i].state = "open" => position[i].qty > 0
  /\ account.losses \in Nat /\ account.peak >= account.current
  /\ \A w \in Workers : task[w].todo \subseteq Signals

\* Two cycles, the monitor and a flatten may all decide to close one position;
\* the account moves by its net result exactly once (close_position).
CashMatchesTrades ==
  account.current = InitialCash + MapThenSumSet(LAMBDA i : position[i].realized, Signals)

\* Two approvals of one symbol never become two positions, whoever opens them
\* (exposure_check_for_execution).
OnePositionPerSymbol ==
  /\ Cardinality(OpenNow) <= MaxPositions
  /\ \A i, j \in OpenNow : SymbolOf[i] = SymbolOf[j] => i = j

\* A mode switch leaves nothing behind that belongs to the other venue
\* (ExecutionModeView.post against a cycle that already started).
NothingAbroad == mode # Venue => OpenNow = {} /\ Approved = {}

Opens(i) == position[i].state = "none" /\ position'[i].state = "open"

\* "never risk more than 1% of equity on one trade" (config/settings.py:373),
\* of the equity at the moment the position is opened.
RisksLittle ==
  \A i \in Signals : Opens(i) =>
    100 * position'[i].qty * Distance(position'[i].ref, position'[i].stop)
      <= RiskPct * account.current
RiskPerTradeHolds == [][RisksLittle]_vars

\* Whichever task trails it, the stop of an open position never loosens
\* (update_trailing_stop: ratcheting is one-directional).
Ratchets ==
  \A i \in OpenNow : position'[i].state = "open" =>
    IF position[i].side = "LONG" THEN position'[i].stop >= position[i].stop
    ELSE position'[i].stop <= position[i].stop

\* The reward of a closed trade is that of its planned risk, the quantity times
\* the distance to the stop it was opened with (apps/learning/reward.py:10),
\* wherever the stop has been trailed to since.
ScoresPlannedRisk ==
  \A i \in OpenNow : position'[i].state = "closed" =>
    LET p == position[i]
        net == position'[i].realized
    IN  Reward(net, ReviewedRisk(p)) = Reward(net, p.qty * p.trail)
RewardUsesPlannedRisk == [][ScoresPlannedRisk]_vars

\* A tripped switch flattens the book unless someone re-arms it, although
\* entries, exits and other flattens run at the same time.
KillFlattens == halted ~> (~halted \/ OpenNow = {})
=============================================================================
