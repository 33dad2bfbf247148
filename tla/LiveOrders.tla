----------------------------- MODULE LiveOrders -----------------------------
(***************************************************************************)
(* The live-order journal of apps/execution/live_executor.py: how an       *)
(* approved signal becomes a broker order, a broker fill becomes an        *)
(* OpenPosition, and a closing fill becomes realized P&L, while            *)
(*                                                                         *)
(*   - Celery workers and web requests run open_position_live,             *)
(*     close_position_live and reconcile_broker_orders concurrently,       *)
(*   - a worker can die between any two steps,                             *)
(*   - the broker accepts an order whose response is lost, fills it in     *)
(*     parts, rejects it, or cancels it at its own pace.                   *)
(*                                                                         *)
(* One step of a task is one database transaction or one broker call; the  *)
(* database is what survives a crash (signal, journal, position, killed,   *)
(* booked), the broker is external (order), and task is the volatile       *)
(* state of the code running in one worker.                                *)
(***************************************************************************)
EXTENDS Integers, FiniteSets

CONSTANTS
  Signals,       \* TradingSignal rows offered for live execution
  Underlying,    \* the index each signal is about: [Signals -> a symbol]
  Workers,       \* Celery workers and web requests that may run a task
  Lot,           \* quantity ordered to open (signal.position_size)
  MaxPositions,  \* RISK_HARD_LIMITS["MAX_OPEN_POSITIONS"]
  MaxExits,      \* bound: closing orders journalled per position
  MaxCrashes,    \* bound: worker deaths
  AckIsFinal,    \* TRUE: the broker has cancelled when it acknowledges a cancel
  ClaimsSpanSweeps,  \* TRUE: a claim that checked the signal's age in time may
                     \* commit after the expiry sweep has read the signal
  NoJournal      \* "no journal" in an idle task

(***************************************************************************)
(* UniqueConstraint(signal, purpose) allows one opening journal per        *)
(* signal, and OpenPosition.signal is one-to-one: <<s, 0>> is the opening  *)
(* journal of s, <<s, k>> the k-th closing journal of its position.        *)
(***************************************************************************)
Journals == Signals \X (0..MaxExits)
Opening(s) == <<s, 0>>
SignalOf(j) == j[1]
IsOpening(j) == j[2] = 0
Exits(s) == {s} \X (1..MaxExits)

ASSUME ConstantsAssumption ==
  /\ Lot \in Nat \ {0}
  /\ MaxPositions \in Nat
  /\ MaxExits \in Nat
  /\ MaxCrashes \in Nat
  /\ AckIsFinal \in BOOLEAN
  /\ ClaimsSpanSweeps \in BOOLEAN
  /\ NoJournal \notin Journals

VARIABLES
  signal,    \* TradingSignal.status
  journal,   \* BrokerOrder rows
  position,  \* OpenPosition of each signal
  killed,    \* KillSwitchState.is_active
  booked,    \* quantity whose P&L has been added to AccountEquity
  order,     \* the broker's order book (external)
  net,       \* the broker's net quantity in the contract of a signal (external)
  task,      \* the running code of each worker
  crashes    \* worker deaths so far

database == <<signal, journal, position, killed, booked>>
broker == <<order, net>>
vars == <<signal, journal, position, killed, booked, order, net, task, crashes>>

-----------------------------------------------------------------------------
(* Types *)

SignalStatus == {"approved", "executing", "executed", "rejected", "expired"}
PendingButUnknown == {"created", "submitted"}
Pending == {"created", "submitted", "unknown"}   \* PENDING_BROKER_ORDER_STATUSES
JournalStatus == {"none", "filled", "cancelled", "rejected"} \union Pending
Quantity == 0..Lot

\* linked: BrokerOrder.position is set. The broker id and the tag both lead to
\* the one order sent for the journal, so neither is kept here.
Journal == [status : JournalStatus, linked : BOOLEAN, qty : Quantity]
NoRow == [status |-> "none", linked |-> FALSE, qty |-> 0]

Position == [state : {"none", "open", "closed"}, qty : Quantity]
NoPosition == [state |-> "none", qty |-> 0]

\* "travelling": sent, not yet in the order book; it may arrive after the
\* caller gave up, or never. "cancelling": live, its cancellation acknowledged.
Live == {"live", "cancelling"}
Order == [state : {"none", "travelling", "complete", "cancelled", "rejected", "unreadable"}
                    \union Live,
          filled : Quantity]
NoOrder == [state |-> "none", filled |-> 0]
Unreadable == [state |-> "unreadable", filled |-> 0]

Pc == {"idle", "claimed", "verified", "sent", "poll", "acked", "fill", "fail",
       "halt", "haltThenFail", "book", "scan", "row", "reread", "final", "release",
       "stale"}
Error == {"none", "rejected", "cancelled", "unknown"}
Task == [role : {"idle", "open", "close", "reconcile", "sweep"},
         pc : Pc,
         j : Journals \union {NoJournal},
         row : Order,                         \* the broker row last read
         error : Error,
         todo : SUBSET Journals,              \* pending_ids still to visit
         book : [Journals -> Order]]          \* the fetched order book
Idle == [role |-> "idle", pc |-> "idle", j |-> NoJournal, row |-> NoOrder,
         error |-> "none", todo |-> {}, book |-> [j \in Journals |-> NoOrder]]

TypeOK ==
  /\ signal \in [Signals -> SignalStatus]
  /\ journal \in [Journals -> Journal]
  /\ position \in [Signals -> Position]
  /\ killed \in BOOLEAN
  /\ booked \in [Signals -> Nat]
  /\ order \in [Journals -> Order]
  /\ net \in [Signals -> Int]
  /\ task \in [Workers -> Task]
  /\ crashes \in 0..MaxCrashes

Init ==
  /\ signal = [s \in Signals |-> "approved"]
  /\ journal = [j \in Journals |-> NoRow]
  /\ position = [s \in Signals |-> NoPosition]
  /\ killed = FALSE
  /\ booked = [s \in Signals |-> 0]
  /\ order = [j \in Journals |-> NoOrder]
  /\ net = [s \in Signals |-> 0]
  /\ task = [w \in Workers |-> Idle]
  /\ crashes = 0

-----------------------------------------------------------------------------
(* Helpers *)

IsPending(j) == journal[j].status \in Pending
DeadByStatus(row) == row.state \in {"rejected", "cancelled"}
Dead(row) == row.state \in {"rejected", "cancelled"} /\ row.filled = 0
HasFill(row) == row.state = "complete" \/ row.filled > 0
InFlight(j) == order[j].state \in Live \union {"travelling"}
PartlyLive(row) == row.state \in Live /\ row.filled > 0

\* The row of the order sent for j in the broker's order book.
RowOf(j) == IF order[j].state = "travelling" THEN NoOrder ELSE order[j]

\* close_position_live refuses while any journal linked to the position is pending.
NeverUnresolved(s) == FALSE
HasUnresolved(s) ==
  \E j \in {Opening(s)} \union Exits(s) : journal[j].linked /\ IsPending(j)

\* risk.engine._check_exposure: open positions and executing signals count
\* against the limit, and an underlying carries one of them at a time.
Exposed(s) == position[s].state = "open" \/ signal[s] = "executing"
ExposureOfPositions(s) ==
  /\ Cardinality({t \in Signals : position[t].state = "open"}) < MaxPositions
  /\ \A t \in Signals : Underlying[t] = Underlying[s] => position[t].state # "open"
ExposureOK(s) ==
  /\ Cardinality({t \in Signals : position[t].state = "open"})
       + Cardinality({t \in Signals : signal[t] = "executing"}) < MaxPositions
  /\ \A t \in Signals : Underlying[t] = Underlying[s] => ~Exposed(t)

SetStatus(j, st) == journal' = [journal EXCEPT ![j].status = st]
Become(w, new) == task' = [task EXCEPT ![w] = new]
Goto(w, pc) == Become(w, [task[w] EXCEPT !.pc = pc])
FailWith(w, err) == Become(w, [task[w] EXCEPT !.pc = "fail", !.error = err])

\* The code after the current journal: the end of the task for the poller,
\* the next pending id for the reconciler.
Rest(w) ==
  IF task[w].role = "reconcile"
  THEN [task[w] EXCEPT !.pc = "scan", !.j = NoJournal, !.row = NoOrder, !.error = "none"]
  ELSE Idle

At(w, roles, pc) == task[w].role \in roles /\ task[w].pc = pc

SweepHolds(s) == \E w \in Workers : task[w].pc = "stale" /\ task[w].j = Opening(s)

-----------------------------------------------------------------------------
(* Signals, approvals and the kill switch *)

\* open_position_live, first transaction: under the mode-row and signal locks
\* the signal is re-validated, marked EXECUTING and its journal is created.
ClaimEntry(w, s) ==
  /\ task[w].pc = "idle"
  /\ signal[s] = "approved"
  /\ ~killed
  /\ ExposureOK(s)
  /\ ClaimsSpanSweeps \/ ~SweepHolds(s)      \* a stale signal is vetoed
  /\ journal[Opening(s)].status = "none"
  /\ signal' = [signal EXCEPT ![s] = "executing"]
  /\ journal' = [journal EXCEPT
       ![Opening(s)] = [status |-> "created", linked |-> FALSE, qty |-> Lot]]
  /\ Become(w, [Idle EXCEPT !.role = "open", !.pc = "claimed", !.j = Opening(s)])
  /\ UNCHANGED <<position, killed, booked, broker, crashes>>

\* The same transaction vetoes the signal: kill switch, exposure, staleness, a
\* closed market, or any other volatile check of validate_signal_for_execution.
VetoEntry(s) ==
  /\ signal[s] = "approved"
  /\ signal' = [signal EXCEPT ![s] = "rejected"]
  /\ UNCHANGED <<journal, position, killed, booked, broker, task, crashes>>

\* A mode change expires every approved signal; it is refused while anything
\* is open, unresolved or executing.
ExpireApproved ==
  /\ \A s \in Signals : ~Exposed(s)
  /\ \A j \in Journals : ~IsPending(j)
  /\ \E s \in Signals : signal[s] = "approved"
  /\ signal' = [s \in Signals |-> IF signal[s] = "approved" THEN "expired" ELSE signal[s]]
  /\ UNCHANGED <<journal, position, killed, booked, broker, task, crashes>>

\* run_trading_cycle reads the approved signals past their maximum age ...
StartSweep(w, s) ==
  /\ task[w].pc = "idle"
  /\ signal[s] = "approved"
  /\ Become(w, [Idle EXCEPT !.role = "sweep", !.pc = "stale", !.j = Opening(s)])
  /\ UNCHANGED <<database, broker, crashes>>

\* ... and saves each as EXPIRED, whatever its row holds by then.
ExpireStale(w) ==
  /\ At(w, {"sweep"}, "stale")
  /\ signal' = [signal EXCEPT ![SignalOf(task[w].j)] = "expired"]
  /\ Become(w, Idle)
  /\ UNCHANGED <<journal, position, killed, booked, broker, crashes>>

\* KillSwitchStatusView.post, or a drawdown breach seen by _check_drawdown.
TripKillSwitch ==
  /\ ~killed
  /\ killed' = TRUE
  /\ UNCHANGED <<signal, journal, position, booked, broker, task, crashes>>

\* The rearm_kill_switch command.
RearmKillSwitch ==
  /\ killed
  /\ killed' = FALSE
  /\ UNCHANGED <<signal, journal, position, booked, broker, task, crashes>>

-----------------------------------------------------------------------------
(* close_position_live, up to the broker call *)

\* First transaction: under the position lock, refuse a closed position or an
\* unresolved journal, and create the closing journal.
ClaimExit(w, s) ==
  /\ task[w].pc = "idle"
  /\ position[s].state = "open"
  /\ ~HasUnresolved(s)
  /\ \E k \in 1..MaxExits :
       /\ journal[<<s, k>>].status = "none"
       /\ \A i \in 1..(k - 1) : journal[<<s, i>>].status # "none"
       /\ journal' = [journal EXCEPT ![<<s, k>>] =
            [status |-> "created", linked |-> TRUE, qty |-> position[s].qty]]
       /\ Become(w, [Idle EXCEPT !.role = "close", !.pc = "claimed", !.j = <<s, k>>])
  /\ UNCHANGED <<signal, position, killed, booked, broker, crashes>>

\* _verify_broker_exposure_before_exit: the broker holds exactly the local
\* quantity, or the kill switch trips and the exit is refused.
VerifyExposure(w) ==
  /\ At(w, {"close"}, "claimed")
  /\ LET j == task[w].j IN
     \/ /\ net[SignalOf(j)] = journal[j].qty
        /\ Goto(w, "verified")
        /\ UNCHANGED killed
     \/ /\ net[SignalOf(j)] # journal[j].qty
        /\ killed' = TRUE
        /\ FailWith(w, "rejected")
     \/ /\ FailWith(w, "unknown")          \* get_positions raised
        /\ UNCHANGED killed
  /\ UNCHANGED <<signal, journal, position, booked, broker, crashes>>

-----------------------------------------------------------------------------
(* BrokerClient.place_order and _wait_for_fill, shared by both directions *)

ReadyToPlace(w) == At(w, {"open"}, "claimed") \/ At(w, {"close"}, "verified")

\* The order request leaves; it is never sent a second time.
Send(w) ==
  /\ ReadyToPlace(w)
  /\ order' = [order EXCEPT ![task[w].j] = [state |-> "travelling", filled |-> 0]]
  /\ Goto(w, "sent")
  /\ UNCHANGED <<database, net, crashes>>

\* The request is refused before it leaves, times out while the broker may
\* still accept it, or its response is lost.
PlaceFails(w) ==
  /\ ReadyToPlace(w) \/ At(w, {"open", "close"}, "sent")
  /\ FailWith(w, "unknown")
  /\ UNCHANGED <<database, broker, crashes>>

\* The order id is saved with status SUBMITTED, whatever the row holds now.
SaveSubmitted(w) ==
  /\ At(w, {"open", "close"}, "sent")
  /\ order[task[w].j].state # "travelling"
  /\ SetStatus(task[w].j, "submitted")
  /\ Goto(w, "poll")
  /\ UNCHANGED <<signal, position, killed, booked, broker, crashes>>

\* What a row read by _wait_for_fill leads to once the order cannot be waited
\* for any longer; a short exit is not applied by close_position_live.
ConcludeRow(w, row) ==
  \/ /\ HasFill(row)
     /\ task[w].role = "open" \/ row.filled = journal[task[w].j].qty
     /\ Become(w, [task[w] EXCEPT !.pc = "fill", !.row = row])
  \/ /\ HasFill(row)
     /\ task[w].role = "close" /\ row.filled # journal[task[w].j].qty
     /\ FailWith(w, "unknown")
  \/ /\ Dead(row) /\ row.state = "cancelled"
     /\ FailWith(w, "cancelled")

\* One poll that finds a terminal row, or that raises.
Poll(w) ==
  /\ At(w, {"open", "close"}, "poll")
  /\ LET row == RowOf(task[w].j) IN
     \/ row.state \notin Live /\ ConcludeRow(w, row)
     \/ Dead(row) /\ row.state = "rejected" /\ FailWith(w, "rejected")
     \/ FailWith(w, "unknown")
  /\ UNCHANGED <<database, broker, crashes>>

\* What cancel_order does at the broker.
CancelAtBroker(j) ==
  /\ order[j].state \in Live
  /\ \/ order' = [order EXCEPT ![j].state = "cancelled"]
     \/ ~AckIsFinal /\ order' = [order EXCEPT ![j].state = "cancelling"]

\* Out of polls: the cancel request is acknowledged.
CancelAcked(w) ==
  /\ At(w, {"open", "close"}, "poll")
  /\ CancelAtBroker(task[w].j)
  /\ Goto(w, "acked")
  /\ UNCHANGED <<database, net, crashes>>

\* Out of polls: the cancel request fails, or works but its answer is lost.
CancelFails(w) ==
  /\ At(w, {"open", "close"}, "poll")
  /\ CancelAtBroker(task[w].j) \/ UNCHANGED order
  /\ FailWith(w, "unknown")
  /\ UNCHANGED <<database, net, crashes>>

FinalRead(w) ==
  /\ At(w, {"open", "close"}, "acked")
  /\ \/ ConcludeRow(w, RowOf(task[w].j))
     \/ FailWith(w, "unknown")
  /\ UNCHANGED <<database, broker, crashes>>

-----------------------------------------------------------------------------
(* Applying a fill *)

\* _finalize_open_fill, by the poller or by the reconciler.
FinalizeOpen(w) ==
  LET j == task[w].j
      s == SignalOf(j)
  IN
  /\ task[w].pc = "fill" /\ IsOpening(j)
  /\ \/ /\ journal[j].status = "filled" /\ journal[j].linked
        /\ Become(w, Rest(w))
        /\ UNCHANGED <<signal, journal, position>>
     \/ /\ ~(journal[j].status = "filled" /\ journal[j].linked)
        /\ position[s].state # "closed"
        /\ position' = IF position[s].state = "none"
                       THEN [position EXCEPT ![s] = [state |-> "open", qty |-> task[w].row.filled]]
                       ELSE position
        /\ signal' = [signal EXCEPT ![s] = "executed"]
        /\ journal' = [journal EXCEPT ![j].status = "filled", ![j].linked = TRUE]
        /\ Become(w, Rest(w))
     \/ /\ ~(journal[j].status = "filled" /\ journal[j].linked)
        /\ position[s].state = "closed"
        /\ SetStatus(j, "unknown")
        /\ Goto(w, "haltThenFail")
        /\ UNCHANGED <<signal, position>>
  /\ UNCHANGED <<killed, booked, broker, crashes>>

\* _finalize_close_fill, by the poller or by the reconciler.
QtyConflict(w, s) == task[w].row.filled # position[s].qty
CloseConflict(w, s) == task[w].row.filled # position[s].qty \/ position[s].state = "closed"
FinalizeClose(w) ==
  LET j == task[w].j
      s == SignalOf(j)
  IN
  /\ task[w].pc = "fill" /\ ~IsOpening(j)
  /\ \/ /\ journal[j].status = "filled"
        /\ Become(w, Rest(w))
        /\ UNCHANGED <<journal, position, booked>>
     \/ /\ journal[j].status # "filled" /\ CloseConflict(w, s)
        /\ SetStatus(j, "unknown")
        /\ Goto(w, IF task[w].role = "close" THEN "halt" ELSE "haltThenFail")
        /\ UNCHANGED <<position, booked>>
     \/ /\ journal[j].status # "filled" /\ ~CloseConflict(w, s)
        /\ position' = [position EXCEPT ![s].state = "closed"]
        /\ booked' = [booked EXCEPT ![s] = @ + position[s].qty]
        /\ SetStatus(j, "filled")
        /\ Become(w, Rest(w))
  /\ UNCHANGED <<signal, killed, broker, crashes>>

-----------------------------------------------------------------------------
(* Failure paths *)

FailureUnlisted(error) == IF error = "unknown" THEN "failed" ELSE error
FailureRejects(error) == "rejected"
FailureStatus(error) == IF error \in {"rejected", "cancelled"} THEN error ELSE "unknown"

FailedSignal(st) == IF st = "unknown" THEN "executing" ELSE "rejected"

\* _mark_open_failure.
MarkOpenFailure(w) ==
  LET j == task[w].j
      st == FailureStatus(task[w].error)
  IN
  /\ At(w, {"open"}, "fail")
  /\ \/ /\ ~IsPending(j)
        /\ Become(w, Idle)
        /\ UNCHANGED <<signal, journal>>
     \/ /\ IsPending(j)
        /\ SetStatus(j, st)
        /\ signal' = [signal EXCEPT ![SignalOf(j)] = FailedSignal(st)]
        /\ IF st = "unknown" THEN Goto(w, "halt") ELSE Become(w, Idle)
  /\ UNCHANGED <<position, killed, booked, broker, crashes>>

\* _mark_close_failure.
MarkCloseFailure(w) ==
  LET j == task[w].j
      st == FailureStatus(task[w].error)
  IN
  /\ At(w, {"close"}, "fail")
  /\ \/ /\ ~IsPending(j)
        /\ Become(w, Idle)
        /\ UNCHANGED journal
     \/ /\ IsPending(j)
        /\ SetStatus(j, st)
        /\ IF st = "unknown" THEN Goto(w, "halt") ELSE Become(w, Idle)
  /\ UNCHANGED <<signal, position, killed, booked, broker, crashes>>

\* _halt_for_unknown_order, after the transaction that wrote UNKNOWN.
Halt(w) ==
  /\ task[w].pc \in {"halt", "haltThenFail"}
  /\ killed' = TRUE
  /\ IF task[w].pc = "halt" THEN Become(w, Rest(w)) ELSE FailWith(w, "unknown")
  /\ UNCHANGED <<signal, journal, position, booked, broker, crashes>>

-----------------------------------------------------------------------------
(* reconcile_broker_orders *)

\* The pending journal ids are read.
StartReconcile(w) ==
  /\ task[w].pc = "idle"
  /\ \E j \in Journals : IsPending(j)
  /\ Become(w, [Idle EXCEPT !.role = "reconcile", !.pc = "book",
                            !.todo = {j \in Journals : IsPending(j)}])
  /\ UNCHANGED <<database, broker, crashes>>

\* One snapshot of the order book serves every pending journal.
FetchBook(w) ==
  /\ At(w, {"reconcile"}, "book")
  /\ Become(w, [task[w] EXCEPT
       !.pc = "scan",
       !.book = [j \in Journals |-> IF j \in task[w].todo THEN RowOf(j) ELSE NoOrder]])
  /\ UNCHANGED <<database, broker, crashes>>

FetchBookFails(w) ==
  /\ At(w, {"reconcile"}, "book")
  /\ Become(w, [task[w] EXCEPT
       !.pc = "scan",
       !.book = [j \in Journals |-> IF j \in task[w].todo THEN Unreadable ELSE NoOrder]])
  /\ UNCHANGED <<database, broker, crashes>>

\* Take the next pending id: skip it when it is resolved, mark it UNKNOWN when
\* the book has no row for it, otherwise remember the row.
TakeNext(w) ==
  /\ At(w, {"reconcile"}, "scan")
  /\ \E j \in task[w].todo :
       LET row == task[w].book[j]
           left == [task[w] EXCEPT !.todo = @ \ {j}, !.book[j] = NoOrder]
       IN
       \/ /\ row = Unreadable
          /\ Become(w, [left EXCEPT !.pc = "fail", !.j = j, !.error = "unknown"])
          /\ UNCHANGED journal
       \/ /\ row # Unreadable /\ ~IsPending(j)
          /\ Become(w, left)
          /\ UNCHANGED journal
       \/ /\ row = NoOrder /\ IsPending(j)
          /\ SetStatus(j, "unknown")
          /\ Become(w, left)
       \/ /\ row \notin {NoOrder, Unreadable} /\ IsPending(j)
          /\ Become(w, [left EXCEPT !.pc = "row", !.j = j, !.row = row])
          /\ UNCHANGED journal
  /\ UNCHANGED <<signal, position, killed, booked, broker, crashes>>

\* A partly filled order that still lives is cancelled before it is applied.
ReconcileCancel(w) ==
  /\ At(w, {"reconcile"}, "row")
  /\ PartlyLive(task[w].row)
  /\ \/ /\ CancelAtBroker(task[w].j)
        /\ Goto(w, "reread")
     \/ /\ CancelAtBroker(task[w].j) \/ UNCHANGED order
        /\ FailWith(w, "unknown")
  /\ UNCHANGED <<database, net, crashes>>

Reread(w) ==
  /\ At(w, {"reconcile"}, "reread")
  /\ \/ Become(w, [task[w] EXCEPT !.pc = "final", !.row = RowOf(task[w].j)])
     \/ FailWith(w, "unknown")
  /\ UNCHANGED <<database, broker, crashes>>

\* Dispatch on the row, each update conditional on the journal being pending.
ReconcileRow(w) ==
  LET j == task[w].j
      row == task[w].row
  IN
  /\ \/ At(w, {"reconcile"}, "row") /\ ~PartlyLive(row)
     \/ At(w, {"reconcile"}, "final")
  /\ \/ /\ Dead(row) /\ IsPending(j)
        /\ SetStatus(j, row.state)
        /\ IF IsOpening(j) THEN Goto(w, "release") ELSE Become(w, Rest(w))
     \/ /\ HasFill(row)
        /\ Goto(w, "fill")
        /\ UNCHANGED journal
     \/ /\ row.state \in Live /\ row.filled = 0 /\ IsPending(j)
        /\ SetStatus(j, "submitted")
        /\ Become(w, Rest(w))
     \/ /\ ~HasFill(row) /\ ~IsPending(j)
        /\ Become(w, Rest(w))
        /\ UNCHANGED journal
  /\ UNCHANGED <<signal, position, killed, booked, broker, crashes>>

\* The second, separately committed update of a rejected or cancelled entry.
ReleaseSignal(w) ==
  LET s == SignalOf(task[w].j) IN
  /\ At(w, {"reconcile"}, "release")
  /\ signal' = [signal EXCEPT ![s] = IF @ = "executing" THEN "rejected" ELSE @]
  /\ Become(w, Rest(w))
  /\ UNCHANGED <<journal, position, killed, booked, broker, crashes>>

\* Any exception while one journal is reconciled.
ReconcileFailure(w) ==
  LET j == task[w].j IN
  /\ At(w, {"reconcile"}, "fail")
  /\ \/ IsPending(j) /\ SetStatus(j, "unknown") /\ Goto(w, "halt")
     \/ ~IsPending(j) /\ Become(w, Rest(w)) /\ UNCHANGED journal
  /\ UNCHANGED <<signal, position, killed, booked, broker, crashes>>

EndReconcile(w) ==
  /\ At(w, {"reconcile"}, "scan")
  /\ task[w].todo = {}
  /\ Become(w, Idle)
  /\ UNCHANGED <<database, broker, crashes>>

-----------------------------------------------------------------------------
(* The environment *)

\* The worker process dies: its running code is gone, the database stays.
Crash(w) ==
  /\ crashes < MaxCrashes
  /\ task[w].pc # "idle"
  /\ crashes' = crashes + 1
  /\ Become(w, Idle)
  /\ UNCHANGED <<database, broker>>

\* The order enters the order book.
BrokerAccepts(j) ==
  /\ order[j].state = "travelling"
  /\ order' = [order EXCEPT ![j].state = "live"]
  /\ UNCHANGED <<database, net, task, crashes>>

\* The broker fills one more unit of an order.
BrokerFills(j) ==
  /\ order[j].state \in Live
  /\ order[j].filled < journal[j].qty
  /\ LET n == order[j].filled + 1 IN
     order' = [order EXCEPT ![j] =
       [state |-> IF n = journal[j].qty THEN "complete" ELSE @.state, filled |-> n]]
  /\ net' = [net EXCEPT ![SignalOf(j)] = IF IsOpening(j) THEN @ + 1 ELSE @ - 1]
  /\ UNCHANGED <<database, task, crashes>>

\* The broker rejects a live order, or completes a cancellation it acknowledged.
BrokerEnds(j) ==
  /\ \/ order[j].state = "live" /\ order' = [order EXCEPT ![j].state = "rejected"]
     \/ order[j].state = "cancelling" /\ order' = [order EXCEPT ![j].state = "cancelled"]
  /\ UNCHANGED <<database, net, task, crashes>>

-----------------------------------------------------------------------------
(* The specification *)

Start(w) ==
  \/ \E s \in Signals : ClaimEntry(w, s) \/ ClaimExit(w, s) \/ StartSweep(w, s)
  \/ StartReconcile(w)

\* Every step of code already running in a worker.
Advance(w) ==
  \/ VerifyExposure(w) \/ Send(w) \/ PlaceFails(w) \/ SaveSubmitted(w)
  \/ Poll(w) \/ CancelAcked(w) \/ CancelFails(w) \/ FinalRead(w)
  \/ FinalizeOpen(w) \/ FinalizeClose(w)
  \/ MarkOpenFailure(w) \/ MarkCloseFailure(w) \/ Halt(w)
  \/ FetchBook(w) \/ FetchBookFails(w) \/ TakeNext(w)
  \/ ReconcileCancel(w) \/ Reread(w) \/ ReconcileRow(w) \/ ReleaseSignal(w)
  \/ ReconcileFailure(w) \/ EndReconcile(w) \/ ExpireStale(w)

Next ==
  \/ \E w \in Workers : Start(w) \/ Advance(w) \/ Crash(w)
  \/ \E s \in Signals : VetoEntry(s)
  \/ ExpireApproved \/ TripKillSwitch \/ RearmKillSwitch
  \/ \E j \in Journals : BrokerAccepts(j) \/ BrokerFills(j) \/ BrokerEnds(j)

Spec == Init /\ [][Next]_vars

-----------------------------------------------------------------------------
(* Safety *)

\* Realized P&L enters AccountEquity once per position, for its whole quantity,
\* in the transaction that closes it (_finalize_close_fill), however many
\* pollers and reconcilers observe the closing fill.
PnlBookedOnce ==
  \A s \in Signals :
    booked[s] = IF position[s].state = "closed" THEN position[s].qty ELSE 0

\* The exits of a position never sell more than its entry bought: retries,
\* emergency flattens and reconciled exits never reverse it at the broker.
NoReversal == \A s \in Signals : net[s] >= 0

\* A signal that reads REJECTED or EXPIRED has nothing at the broker: no entry
\* that still lives, and no fill. This is what makes trading a new signal safe.
DroppedSignalHasNoOrder ==
  \A s \in Signals : signal[s] \in {"rejected", "expired"} =>
    /\ ~InFlight(Opening(s))
    /\ order[Opening(s)].filled = 0

\* Once every journal of a signal is resolved, the broker holds exactly the
\* open local position, whatever partial fills, cancels, lost answers and
\* crashes led there.
ResolvedMatchesBroker ==
  \A s \in Signals : (\A k \in 0..MaxExits : ~IsPending(<<s, k>>)) =>
    net[s] = IF position[s].state = "open" THEN position[s].qty ELSE 0

\* The broker carries a position or a working entry for at most
\* MAX_OPEN_POSITIONS signals, though _check_exposure counts local positions
\* and EXECUTING signals, never the broker's book.
AtBroker(s) == net[s] # 0 \/ InFlight(Opening(s))
BrokerPositionsAreLimited ==
  Cardinality({s \in Signals : AtBroker(s)}) <= MaxPositions

-----------------------------------------------------------------------------
(* What the journal promises: SignalLedger *)

\* A late poller can put a signal whose entry is dead back to EXECUTING, so the
\* broker, not the signal's status, decides that a sent entry is dropped.
Fate(s) ==
  IF position[s].state = "closed" THEN "settled"
  ELSE IF signal[s] \in {"rejected", "expired"} \/ Dead(order[Opening(s)]) THEN "dropped"
  ELSE IF signal[s] = "approved" THEN "offered"
  ELSE "trading"

Ledger == INSTANCE SignalLedger WITH
  fate <- [s \in Signals |-> Fate(s)],
  bought <- [s \in Signals |-> order[Opening(s)].filled],
  sold <- [s \in Signals |-> order[Opening(s)].filled - net[s]],
  credited <- booked

\* Every step of the executor, the reconciler, the broker and a crash is a step
\* of SignalLedger or leaves it alone: one entry, one exit, one settlement.
ImplementsLedger == Ledger!Spec

-----------------------------------------------------------------------------
(* Promises about past and future *)

\* The second observer of an applied exit does not turn it into an unresolved
\* order, which would trip the kill switch and block every later entry
\* (_finalize_close_fill: "instead of ... tripping a false kill switch").
AppliedExitIsNotUnresolved ==
  \A s \in Signals : \A j \in Exits(s) :
    position[s].state = "closed" /\ order[j].state = "complete" =>
      journal[j].status # "unknown"

(***************************************************************************)
(* Running code makes progress (it polls a bounded number of times and     *)
(* every broker call has a hard timeout); the beat schedule keeps starting *)
(* the reconciler, whose reads of the order book do not fail for ever.     *)
(***************************************************************************)
RereadSucceeds(w) == Reread(w) /\ task'[w].pc = "final"
Fairness ==
  /\ \A w \in Workers : WF_vars(Advance(w))
  /\ SF_vars(\E w \in Workers : StartReconcile(w))
  /\ \A w \in Workers : SF_vars(FetchBook(w)) /\ SF_vars(RereadSucceeds(w))
FairSpec == Spec /\ Fairness

\* An entry that ended with a fill eventually has its position, whoever lost
\* the answer.
EntryFillIsApplied ==
  \A s \in Signals :
    (order[Opening(s)].state \in {"complete", "cancelled", "rejected"}
       /\ order[Opening(s)].filled > 0) ~> position[s].state # "none"

\* A complete exit eventually closes the position and books its P&L.
ExitFillIsApplied ==
  \A s \in Signals :
    (\E j \in Exits(s) : order[j].state = "complete") ~> position[s].state = "closed"

\* An entry that ended without a fill eventually frees its signal and its place
\* in the exposure count.
DeadEntryIsReleased ==
  \A s \in Signals : Dead(order[Opening(s)]) ~> signal[s] # "executing"

\* What the broker ended reaches the local books, whoever lost the answer.
EndedOrdersReachTheBooks == EntryFillIsApplied /\ ExitFillIsApplied /\ DeadEntryIsReleased
=============================================================================
