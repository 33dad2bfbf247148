---------------------------- MODULE PaperTrading ----------------------------
(***************************************************************************)
(* Autonomous paper trading (apps/paper_trading): the swing and the scalp  *)
(* cycle and the intraday square-off share one session row, one position   *)
(* slot and one account.                                                   *)
(*                                                                         *)
(* Entering, opening the position and closing it are separate              *)
(* transactions; state_machine.transition reads the session row, checks    *)
(* the edge and saves the row, with no lock and no transaction. One step   *)
(* here is one transaction, one read or one save; task[w] is the volatile  *)
(* state of the Celery task that worker w runs.                            *)
(*                                                                         *)
(* Amounts are whole ticks for one lot, so quantity does not appear. What  *)
(* quotes, market hours, AI decisions and cooldown clocks say is chosen    *)
(* anew at each read. check_pending_limit_orders finds nothing: entries    *)
(* are market orders, pending only inside submit_entry_order.              *)
(***************************************************************************)
EXTENDS Integers, Sequences, Functions

CONSTANTS
  Cyclers,       \* workers that run the swing or the scalp cycle
  Squarers,      \* workers that run paper_square_off_intraday
  InitialCash,   \* PaperAccount.initial_capital
  Asks,          \* prices a buy is quoted or filled at
  Bids,          \* prices a sale is filled at and a position is marked at
  Risks,         \* stop distances the AI chooses
  RewardRisk,    \* TARGET_RISK_REWARD
  Charges,       \* charges and slippage cost of a round trip
  MaxEntries,    \* bound: filled entry orders
  MaxCrashes     \* bound: worker deaths

Workers == Cyclers \union Squarers
Entries == 1..MaxEntries

ASSUME ConstantsAssumption ==
  /\ Cyclers \intersect Squarers = {}
  /\ Asks \subseteq Nat \ {0}
  /\ Bids \subseteq Nat \ {0}
  /\ Risks \subseteq Nat \ {0}
  /\ Charges \subseteq Nat
  /\ {InitialCash, RewardRisk, MaxEntries, MaxCrashes} \subseteq Nat

VARIABLES
  session,   \* PaperSessionState.state
  row,       \* entry orders with the position and the trade each led to
  account,   \* the PaperAccount row
  task,      \* the running code of each worker
  crashes    \* worker deaths so far

vars == <<session, row, account, task, crashes>>

-----------------------------------------------------------------------------
(* The session's states and edges *)

AlwaysReachable == {"error_safe_mode", "trading_stopped", "flat"}

Allowed ==
  [flat |-> {"analyzing", "market_closed", "trading_stopped", "risk_blocked", "feed_stale"},
   analyzing |-> {"entry_candidate", "flat", "market_closed", "risk_blocked", "feed_stale",
                  "cooldown", "trading_stopped"},
   entry_candidate |-> {"order_pending", "flat", "risk_blocked"},
   order_pending |-> {"position_open", "flat"},
   position_open |-> {"position_management", "exit_pending"},
   position_management |-> {"exit_pending", "position_open"},
   exit_pending |-> {"position_closed"},
   position_closed |-> {"cooldown", "flat", "analyzing"},
   cooldown |-> {"flat", "analyzing"},
   feed_stale |-> {"flat", "analyzing", "trading_stopped"},
   risk_blocked |-> {"flat", "cooldown", "trading_stopped"},
   trading_stopped |-> {},
   market_closed |-> {"flat"},
   error_safe_mode |-> {}]

State == DOMAIN Allowed
Legal(from, to) == to = from \/ to \in AlwaysReachable \/ to \in Allowed[from]

-----------------------------------------------------------------------------
(* Types *)

\* filled: the order is FILLED and capital reserved, no position exists.
Row == [fate : {"none", "filled", "open", "closed"},
        price : Nat,          \* average_fill_price, average_entry_price
        initStop : Nat,       \* initial_stop_loss
        stop : Int,           \* stop_loss
        target : Nat,         \* target_price
        trail : Int,          \* trailing_stop_distance, 0 for NULL
        result : Int]         \* PaperTrade.net_pnl

\* A row before any trailing and any result.
RowOf(fate, price, stop, target) ==
  [fate |-> fate, price |-> price, initStop |-> stop, stop |-> stop, target |-> target,
   trail |-> 0, result |-> 0]
NoRow == RowOf("none", 0, 0, 0)

Account == [cash : Int, used : Int, net : Int]
OpeningAccount == [cash |-> InitialCash, used |-> 0, net |-> 0]

Pc == {"idle", "ask", "save", "look", "evaluate", "submit", "open",
       "manage", "trail", "close"}
Continuation == {"idle", "look", "evaluate", "submit", "manage", "close"}
Task == [pc : Pc,
         plan : Seq(State),   \* transitions to make before next
         next : Continuation,
         seen : Account,      \* the account object the cycle fetched
         n : 0..MaxEntries,   \* the order it placed or the position it holds
         pos : Row,           \* its position object, or the chosen stop and target
         mark : Nat]
Idle == [pc |-> "idle", plan |-> <<>>, next |-> "idle", seen |-> OpeningAccount,
         n |-> 0, pos |-> NoRow, mark |-> 0]

TypeOK ==
  /\ session \in State
  /\ row \in [Entries -> Row]
  /\ account \in Account
  /\ task \in [Workers -> Task]
  /\ crashes \in 0..MaxCrashes

Init ==
  /\ session = "flat"
  /\ row = [n \in Entries |-> NoRow]
  /\ account = OpeningAccount
  /\ task = [w \in Workers |-> Idle]
  /\ crashes = 0

-----------------------------------------------------------------------------
(* Helpers *)

OpenRows == {n \in Entries : row[n].fate = "open"}
Unused == {n \in Entries : row[n].fate = "none"}

StopFor(ref, risk) == IF ref - risk > 1 THEN ref - risk ELSE 1
TargetFor(ref, risk) == ref + RewardRisk * risk

HardExit(pos, mark) == mark <= pos.stop \/ mark >= pos.target

\* in_profit_r >= 1, a quotient of two signed distances.
InProfit(pos, mark) ==
  LET risked == pos.price - pos.initStop
      gained == mark - pos.price
  IN  \/ risked > 0 /\ gained >= risked
      \/ risked < 0 /\ gained <= risked

\* The distance after a look at the mark: armed once, then kept.
TrailAt(pos, mark) ==
  IF pos.trail = 0 /\ InProfit(pos, mark) THEN pos.price - pos.initStop ELSE pos.trail

Reserve(acct, price) ==
  [cash |-> acct.cash - price, used |-> acct.used + price, net |-> acct.net]

\* Variant of Settle: the exit value, not the cost, leaves used capital.
SettleAtExit(acct, pos, price, charge) ==
  [cash |-> acct.cash + price - charge,
   used |-> acct.used - price,
   net  |-> acct.net + price - pos.price - charge]

\* settle_trade: the proceeds released, then the charges debited.
Settle(acct, pos, price, charge) ==
  [cash |-> acct.cash + price - charge,
   used |-> acct.used - pos.price,
   net  |-> acct.net + price - pos.price - charge]

Ends(w) == task' = [task EXCEPT ![w] = Idle]

\* The task calls transition() for each state of plan and goes on at next.
Request(w, plan, next, t) ==
  task' = [task EXCEPT ![w] = [t EXCEPT !.pc = "ask", !.plan = plan, !.next = next]]

Finish(w, plan) == Request(w, plan, "idle", Idle)

-----------------------------------------------------------------------------
(* state_machine.transition *)

\* Variant of Check: the edge is not checked.
CheckNothing(w) ==
  /\ task[w].pc = "ask"
  /\ task' = [task EXCEPT ![w].pc = "save"]
  /\ UNCHANGED <<session, row, account, crashes>>

\* The read and the check; an illegal edge raises ValueError out of the task.
Check(w) ==
  /\ task[w].pc = "ask"
  /\ IF Legal(session, Head(task[w].plan))
       THEN task' = [task EXCEPT ![w].pc = "save"]
       ELSE Ends(w)
  /\ UNCHANGED <<session, row, account, crashes>>

\* The save, of the state the task decided on.
Save(w) ==
  /\ task[w].pc = "save"
  /\ session' = Head(task[w].plan)
  /\ LET rest == Tail(task[w].plan)
     IN  IF rest # <<>> THEN task' = [task EXCEPT ![w].pc = "ask", ![w].plan = rest]
         ELSE IF task[w].next = "idle" THEN Ends(w)
         ELSE task' = [task EXCEPT ![w].pc = task[w].next, ![w].plan = <<>>,
                                   ![w].next = "idle"]
  /\ UNCHANGED <<row, account, crashes>>

-----------------------------------------------------------------------------
(* A cycle: _run_cycle *)

\* The market is closed.
MarketClosed(w) ==
  /\ task[w] = Idle
  /\ Finish(w, <<"market_closed">>)
  /\ UNCHANGED <<session, row, account, crashes>>

\* Variant of StartCycle: without the bridge from market_closed to flat.
StartCycleNoBridge(w) ==
  /\ task[w] = Idle
  /\ LET t == [Idle EXCEPT !.seen = account]
     IN  \/ /\ session = "cooldown"
            /\ Request(w, <<"flat">>, "look", t)
         \/ /\ session # "cooldown"
            /\ task' = [task EXCEPT ![w] = [t EXCEPT !.pc = "look"]]
  /\ UNCHANGED <<session, row, account, crashes>>

\* The account is fetched and the session read, the market being open. A
\* cooldown that has not expired ends the cycle with nothing changed.
StartCycle(w) ==
  /\ task[w] = Idle
  /\ LET t == [Idle EXCEPT !.seen = account]
     IN  \/ /\ session \in {"cooldown", "market_closed"}
            /\ Request(w, <<"flat">>, "look", t)
         \/ /\ session \notin {"cooldown", "market_closed"}
            /\ task' = [task EXCEPT ![w] = [t EXCEPT !.pc = "look"]]
  /\ UNCHANGED <<session, row, account, crashes>>

\* The open position is fetched: it is managed, or an entry is looked for.
Look(w) ==
  /\ task[w].pc = "look"
  /\ \/ /\ OpenRows = {}
        /\ Request(w, <<"analyzing">>, "evaluate", task[w])
     \/ \E n \in OpenRows :
          Request(w, <<"position_management">>, "manage",
                  [task[w] EXCEPT !.n = n, !.pos = row[n]])
  /\ UNCHANGED <<session, row, account, crashes>>

\* HOLD, or SKIP_SIGNAL by the risk gate or for want of a contract.
Decline(w) ==
  /\ task[w].pc = "evaluate"
  /\ Finish(w, <<"flat">>)
  /\ UNCHANGED <<session, row, account, crashes>>

\* BUY: the gate sees no open position, and the fetched account affords a lot.
Propose(w) ==
  /\ task[w].pc = "evaluate"
  /\ OpenRows = {}
  /\ \E ref \in Asks, risk \in Risks :
       /\ task[w].seen.cash >= ref
       /\ Request(w, <<"entry_candidate", "order_pending">>, "submit",
                  [task[w] EXCEPT !.pos = RowOf("none", 0, StopFor(ref, risk),
                                                TargetFor(ref, risk))])
  /\ UNCHANGED <<session, row, account, crashes>>

\* submit_entry_order filled the order: one transaction on the locked account.
\* Which unused row the order takes makes no difference.
SubmitFilled(w) ==
  /\ task[w].pc = "submit"
  /\ OpenRows = {}
  /\ Unused # {}
  /\ \E price \in Asks :
       LET n == CHOOSE k \in Unused : TRUE
       IN  /\ account.cash >= price
           /\ row' = [row EXCEPT ![n] = RowOf("filled", price, 0, 0)]
           /\ account' = Reserve(account, price)
           /\ task' = [task EXCEPT ![w] = [@ EXCEPT !.pc = "open", !.n = n]]
  /\ UNCHANGED <<session, crashes>>

\* OrderRejected: no quote, a stale one, no depth, too little cash. The
\* transaction rolls back and the session goes flat.
SubmitRejected(w) ==
  /\ task[w].pc = "submit"
  /\ OpenRows = {}
  /\ Finish(w, <<"flat">>)
  /\ UNCHANGED <<session, row, account, crashes>>

\* assert_never_averaging_pyramiding_martingale raises PermissionError.
SubmitForbidden(w) ==
  /\ task[w].pc = "submit"
  /\ OpenRows # {}
  /\ Ends(w)
  /\ UNCHANGED <<session, row, account, crashes>>

\* The position that opens on the order w placed, with the stop and target chosen.
Opened(w) == RowOf("open", row[task[w].n].price, task[w].pos.initStop, task[w].pos.target)

\* Variant of OpenPosition: the session is not told.
OpenPositionUntold(w) ==
  /\ task[w].pc = "open"
  /\ row' = IF OpenRows # {} THEN row
            ELSE [row EXCEPT ![task[w].n] = Opened(w)]
  /\ Ends(w)
  /\ UNCHANGED <<session, account, crashes>>

\* open_position inserts the row; its unique open_marker may refuse it, and
\* the IntegrityError ends the task with the order left FILLED.
OpenPosition(w) ==
  /\ task[w].pc = "open"
  /\ LET n == task[w].n
     IN  \/ /\ OpenRows # {}
            /\ row' = row
            /\ Ends(w)
         \/ /\ OpenRows = {}
            /\ row' = [row EXCEPT ![n] = Opened(w)]
            /\ Finish(w, <<"position_open">>)
  /\ UNCHANGED <<session, account, crashes>>

-----------------------------------------------------------------------------
(* A cycle that holds a position: _manage_open_position *)

\* A look at the quote, against the position object fetched before.
NoQuote(w) ==
  /\ task[w].pc = "manage"
  /\ Ends(w)
  /\ UNCHANGED <<session, row, account, crashes>>

TriggerExit(w) ==
  /\ task[w].pc = "manage"
  /\ \E mark \in Bids : HardExit(task[w].pos, mark)
  /\ Request(w, <<"exit_pending">>, "close", task[w])
  /\ UNCHANGED <<session, row, account, crashes>>

\* Arming saves only trailing_stop_distance, and only when it was NULL.
Hold(w) ==
  /\ task[w].pc = "manage"
  /\ \E mark \in Bids :
       LET pos == task[w].pos
           trail == TrailAt(pos, mark)
       IN  /\ ~HardExit(pos, mark)
           /\ row' = IF trail # pos.trail THEN [row EXCEPT ![task[w].n].trail = trail]
                                          ELSE row
           /\ IF trail = 0
                THEN Ends(w)
                ELSE task' = [task EXCEPT ![w] = [@ EXCEPT !.pc = "trail", !.mark = mark,
                                                           !.pos = [pos EXCEPT !.trail = trail]]]
  /\ UNCHANGED <<session, account, crashes>>

\* Variant of Trail: the stop follows the mark both ways.
TrailBothWays(w) ==
  /\ task[w].pc = "trail"
  /\ row' = [row EXCEPT ![task[w].n].stop = task[w].mark - task[w].pos.trail]
  /\ Ends(w)
  /\ UNCHANGED <<session, account, crashes>>

\* apply_trailing_stop compares with the object's stop and saves stop_loss.
Trail(w) ==
  /\ task[w].pc = "trail"
  /\ LET pos == task[w].pos
         stop == task[w].mark - pos.trail
     IN  row' = IF stop > pos.stop THEN [row EXCEPT ![task[w].n].stop = stop] ELSE row
  /\ Ends(w)
  /\ UNCHANGED <<session, account, crashes>>

\* Variants of Close: from the account object the task fetched, or without the
\* second look at the position's status.
CloseOnStaleAccount(w) ==
  /\ task[w].pc = "close"
  /\ row[task[w].n].fate = "open"
  /\ \E price \in Bids, charge \in Charges :
       LET n == task[w].n
       IN  /\ account' = Settle(task[w].seen, row[n], price, charge)
           /\ row' = [row EXCEPT ![n].fate = "closed",
                                 ![n].result = price - row[n].price - charge]
  /\ \/ w \in Cyclers /\ \E rest \in {"flat", "cooldown"} : Finish(w, <<"position_closed", rest>>)
     \/ w \in Squarers /\ Finish(w, <<"flat">>)
  /\ UNCHANGED <<session, crashes>>

CloseAgain(w) ==
  /\ task[w].pc = "close"
  /\ \E price \in Bids, charge \in Charges :
       LET n == task[w].n
       IN  /\ account' = Settle(account, row[n], price, charge)
           /\ row' = [row EXCEPT ![n].fate = "closed",
                                 ![n].result = price - row[n].price - charge]
  /\ \/ w \in Cyclers /\ \E rest \in {"flat", "cooldown"} : Finish(w, <<"position_closed", rest>>)
     \/ w \in Squarers /\ Finish(w, <<"flat">>)
  /\ UNCHANGED <<session, crashes>>

\* close_position: one transaction on the locked account and position.
Close(w) ==
  /\ task[w].pc = "close"
  /\ row[task[w].n].fate = "open"
  /\ \E price \in Bids, charge \in Charges :
       LET n == task[w].n
       IN  /\ account' = Settle(account, row[n], price, charge)
           /\ row' = [row EXCEPT ![n].fate = "closed",
                                 ![n].result = price - row[n].price - charge]
  /\ \/ w \in Cyclers /\ \E rest \in {"flat", "cooldown"} : Finish(w, <<"position_closed", rest>>)
     \/ w \in Squarers /\ Finish(w, <<"flat">>)
  /\ UNCHANGED <<session, crashes>>

\* No quote to exit against: OrderRejected, which only the cycle catches.
CloseRejected(w) ==
  /\ task[w].pc = "close"
  /\ row[task[w].n].fate = "open"
  /\ IF w \in Cyclers THEN Finish(w, <<"error_safe_mode">>) ELSE Ends(w)
  /\ UNCHANGED <<session, row, account, crashes>>

\* Somebody else closed it: ValueError ends the task.
CloseTooLate(w) ==
  /\ task[w].pc = "close"
  /\ row[task[w].n].fate # "open"
  /\ Ends(w)
  /\ UNCHANGED <<session, row, account, crashes>>

-----------------------------------------------------------------------------
(* The square-off, and worker deaths *)

\* Variant of StartSquareOff: it goes through exit_pending, as the cycle does.
StartSquareOffInTurn(w) ==
  /\ task[w] = Idle
  /\ \E n \in OpenRows :
       Request(w, <<"exit_pending">>, "close", [Idle EXCEPT !.n = n, !.seen = account])
  /\ UNCHANGED <<session, row, account, crashes>>

\* With no position open the square-off returns and changes nothing.
StartSquareOff(w) ==
  /\ task[w] = Idle
  /\ \E n \in OpenRows :
       task' = [task EXCEPT ![w] = [Idle EXCEPT !.pc = "close", !.n = n,
                                          !.seen = account]]
  /\ UNCHANGED <<session, row, account, crashes>>

Crash(w) ==
  /\ task[w] # Idle
  /\ crashes < MaxCrashes
  /\ crashes' = crashes + 1
  /\ Ends(w)
  /\ UNCHANGED <<session, row, account>>

-----------------------------------------------------------------------------
Transition(w) == Check(w) \/ Save(w)
Closing(w) == Close(w) \/ CloseRejected(w) \/ CloseTooLate(w)
Managing(w) == NoQuote(w) \/ TriggerExit(w) \/ Hold(w) \/ Trail(w)
Entering(w) ==
  \/ Decline(w) \/ Propose(w)
  \/ SubmitFilled(w) \/ SubmitRejected(w) \/ SubmitForbidden(w)
  \/ OpenPosition(w)

Cycle(w) == MarketClosed(w) \/ StartCycle(w) \/ Look(w) \/ Entering(w) \/ Managing(w)
Next ==
  \/ \E w \in Cyclers : Cycle(w)
  \/ \E w \in Squarers : StartSquareOff(w)
  \/ \E w \in Workers : Transition(w) \/ Closing(w) \/ Crash(w)

Spec == Init /\ [][Next]_vars

\* Beat keeps starting cycles and square-offs and a live worker goes on. A
\* cycle that runs during market hours again and again starts trading, and a
\* square-off that is tried again and again meets a quote.
FairSpec ==
  /\ Spec
  /\ \A w \in Cyclers :
       /\ WF_vars(Cycle(w) \/ Transition(w) \/ Closing(w))
       /\ SF_vars(StartCycle(w))
  /\ \A w \in Squarers :
       /\ WF_vars(StartSquareOff(w) \/ Transition(w) \/ Closing(w))
       /\ SF_vars(Close(w))

-----------------------------------------------------------------------------
(* Safety *)

\* Every movement of cash is matched: whatever cycles, square-offs and crashes
\* do, cash and used capital add up to the initial capital and the net P&L.
BooksBalance == account.cash + account.used = InitialCash + account.net

Total(f, fates) == SumFunctionOnSet(f, {n \in Entries : row[n].fate \in fates})

\* The account agrees with the orders, positions and trades it summarises: used
\* capital is the cost of the fills not yet sold, net P&L the trades' total.
AccountMatchesRows ==
  /\ account.used = Total([n \in Entries |-> row[n].price], {"filled", "open"})
  /\ account.net = Total([n \in Entries |-> row[n].result], {"closed"})

\* Used capital has a position behind it: a fill without one is a fill that a
\* running cycle is about to turn into a position.
UsedCapitalIsBacked ==
  \A n \in Entries :
    row[n].fate = "filled" => \E w \in Cyclers : task[w].pc = "open" /\ task[w].n = n

\* The session never says that the slot is free while a position is open: the
\* states in which a cycle scans for an entry have no position behind them.
SlotIsFreeWhenScanning ==
  session \in {"flat", "analyzing", "entry_candidate", "market_closed", "cooldown"}
    => OpenRows = {}

\* A trailing distance is never negative, so a trailed stop never lies above
\* the mark that moved it, also when the entry filled below its own stop.
TrailKeepsBehindMark == \A n \in Entries : row[n].trail >= 0

\* A closed position stays closed with the result it was settled with, though
\* cycle and square-off may both be closing it.
ClosedIsFinal ==
  [][\A n \in Entries : row[n].fate = "closed" =>
       row'[n].fate = "closed" /\ row'[n].result = row[n].result]_vars

\* The stop of an open position never moves down.
StopOnlyTightens ==
  [][\A n \in Entries : row[n].fate = "open" => row'[n].stop >= row[n].stop]_vars

\* The stored session moves along the edges of the state machine only.
LegalEdgesOnly == [][Legal(session, session')]_vars

-----------------------------------------------------------------------------
(* Liveness *)

\* An open position is closed in the end: the square-off does not depend on the
\* state that a dead cycle left the session in.
SquaredOff == \A n \in Entries : row[n].fate = "open" ~> row[n].fate = "closed"

\* With no position open the session comes back to flat, unless it was put in
\* the error safe mode: every state a cycle can leave it in has a way out.
SlotComesBack ==
  OpenRows = {} /\ session # "error_safe_mode"
    ~> OpenRows # {} \/ session \in {"flat", "error_safe_mode"}

\* A cycle looks at the stop and target of an open position again and again,
\* unless the session was put in the error safe mode.
StopIsChecked ==
  \A n \in Entries :
    row[n].fate = "open"
      ~> \/ row[n].fate = "closed" \/ session = "error_safe_mode"
         \/ \E w \in Cyclers : task[w].pc = "manage" /\ task[w].n = n
=============================================================================
