-------------------------- MODULE LiveOrders_proofs --------------------------
(***************************************************************************)
(* Theorems of LiveOrders, for every set of signals and workers, every lot *)
(* size and every bound, with machine-checked proofs.                      *)
(***************************************************************************)
EXTENDS LiveOrders, TLAPS

(***************************************************************************)
(* TypeOK alone is not inductive: a step that writes the row of the        *)
(* journal a task holds needs the task to hold one.                        *)
(***************************************************************************)
NeedsNoJournal == {"idle", "book", "scan"}
HeldTask == {t \in Task : t.pc \notin NeedsNoJournal => t.j \in Journals}
TypeInv == TypeOK /\ task \in [Workers -> HeldTask]

-----------------------------------------------------------------------------
(* Types of the model's small sets *)

\* The empty row and the unreadable row are rows of the order book.
LEMMA RowTypes == NoOrder \in Order /\ Unreadable \in Order
BY ConstantsAssumption DEF NoOrder, Unreadable, Order, Quantity, Live

\* The idle task is a task.
LEMMA IdleType == Idle \in HeldTask
<1>1. Idle \in Task
  BY RowTypes DEF Idle, Task, Pc, Error
<1> QED
  BY <1>1 DEF HeldTask, Idle, NeedsNoJournal

\* Every opening journal and every exit journal is a journal.
LEMMA JournalsOf ==
  ASSUME NEW s \in Signals
  PROVE  /\ Opening(s) \in Journals
         /\ \A k \in 1..MaxExits : <<s, k>> \in Journals
BY ConstantsAssumption DEF Opening, Journals

\* A journal belongs to a signal.
LEMMA SignalOfType ==
  ASSUME NEW j \in Journals
  PROVE  SignalOf(j) \in Signals
BY DEF SignalOf, Journals

\* A broker order read from the book is an order.
LEMMA RowOfType ==
  ASSUME order \in [Journals -> Order], NEW j \in Journals
  PROVE  RowOf(j) \in Order
BY RowTypes DEF RowOf

\* A failure is journalled with a legal status.
LEMMA FailureStatusType ==
  ASSUME NEW err
  PROVE  FailureStatus(err) \in {"rejected", "cancelled", "unknown"}
BY DEF FailureStatus

-----------------------------------------------------------------------------
(* Updates of one worker's task and of one journal's status *)

\* A worker whose record stays a task keeps the task table well typed.
LEMMA BecomeType ==
  ASSUME task \in [Workers -> HeldTask], NEW w \in Workers, NEW new \in HeldTask,
         Become(w, new)
  PROVE  task' \in [Workers -> HeldTask]
BY DEF Become

\* So does a worker that holds a journal and moves its program counter.
LEMMA GotoType ==
  ASSUME task \in [Workers -> HeldTask], NEW w \in Workers, NEW pc \in Pc,
         task[w].j \in Journals, Goto(w, pc)
  PROVE  task' \in [Workers -> HeldTask]
<1>1. [task[w] EXCEPT !.pc = pc] \in HeldTask
  BY DEF HeldTask, Task
<1> QED
  BY <1>1, BecomeType DEF Goto

\* A task that holds a journal stays one when it reads another row.
LEMMA RowRead ==
  ASSUME NEW t \in HeldTask, t.j \in Journals, NEW pc \in Pc, NEW row \in Order
  PROVE  [t EXCEPT !.pc = pc, !.row = row] \in HeldTask
<1>1. [t EXCEPT !.pc = pc, !.row = row] \in Task
  BY DEF HeldTask, Task
<1> QED
  BY <1>1 DEF HeldTask, Task

\* So does a worker that holds a journal and records an error.
LEMMA FailWithType ==
  ASSUME task \in [Workers -> HeldTask], NEW w \in Workers, NEW err \in Error,
         task[w].j \in Journals, FailWith(w, err)
  PROVE  task' \in [Workers -> HeldTask]
<1>1. "fail" \in Pc
  BY DEF Pc
<1>2. [task[w] EXCEPT !.pc = "fail", !.error = err] \in HeldTask
  BY <1>1 DEF HeldTask, Task
<1> QED
  BY <1>2, BecomeType DEF FailWith

\* What a task does after its current journal is a task.
LEMMA RestType ==
  ASSUME task \in [Workers -> HeldTask], NEW w \in Workers
  PROVE  Rest(w) \in HeldTask
<1>1. "scan" \in Pc /\ "none" \in Error
  BY DEF Pc, Error
<1>2. task[w] \in Task
  BY DEF HeldTask
<1>3. [task[w] EXCEPT !.pc = "scan", !.j = NoJournal, !.row = NoOrder, !.error = "none"] \in Task
  BY <1>1, <1>2, RowTypes DEF Task
<1>4. [task[w] EXCEPT !.pc = "scan", !.j = NoJournal, !.row = NoOrder, !.error = "none"] \in HeldTask
  BY <1>2, <1>3 DEF HeldTask, NeedsNoJournal, Task
<1> QED
  BY <1>4, IdleType DEF Rest

\* A journal row keeps its type when its status becomes another legal one.
LEMMA SetStatusType ==
  ASSUME journal \in [Journals -> Journal], NEW j \in Journals,
         NEW st \in JournalStatus, SetStatus(j, st)
  PROVE  journal' \in [Journals -> Journal]
BY DEF SetStatus, Journal

\* A task that is neither idle nor scanning the book holds a journal.
LEMMA Holds ==
  ASSUME TypeInv, NEW w \in Workers, task[w].pc \notin NeedsNoJournal
  PROVE  task[w].j \in Journals /\ SignalOf(task[w].j) \in Signals
BY SignalOfType DEF TypeInv, HeldTask

\* A well-typed task table is all TypeInv asks of a step that leaves the rest.
LEMMA OnlyTask ==
  ASSUME TypeInv, task' \in [Workers -> HeldTask], UNCHANGED <<database, broker, crashes>>
  PROVE  TypeInv'
BY DEF TypeInv, TypeOK, HeldTask, database, broker

-----------------------------------------------------------------------------
(* Claims, approvals and the kill switch *)

\* Claiming an entry keeps the types.
LEMMA ClaimEntryType ==
  ASSUME TypeInv, NEW w \in Workers, NEW s \in Signals, ClaimEntry(w, s)
  PROVE  TypeInv'
<1>1. [Idle EXCEPT !.role = "open", !.pc = "claimed", !.j = Opening(s)] \in HeldTask
  BY IdleType, JournalsOf DEF HeldTask, Task, Pc
<1>2. task' \in [Workers -> HeldTask]
  BY <1>1, BecomeType DEF ClaimEntry, TypeInv
<1>3. signal' \in [Signals -> SignalStatus]
  BY DEF ClaimEntry, TypeInv, TypeOK, SignalStatus
<1>4. [status |-> "created", linked |-> FALSE, qty |-> Lot] \in Journal
  BY ConstantsAssumption DEF Journal, JournalStatus, Pending, Quantity
<1>5. journal' \in [Journals -> Journal]
  BY <1>4 DEF ClaimEntry, TypeInv, TypeOK
<1> QED
  BY <1>2, <1>3, <1>5 DEF ClaimEntry, TypeInv, TypeOK, HeldTask, broker

\* Claiming an exit keeps the types.
LEMMA ClaimExitType ==
  ASSUME TypeInv, NEW w \in Workers, NEW s \in Signals, ClaimExit(w, s)
  PROVE  TypeInv'
<1>1. PICK k \in 1..MaxExits :
        /\ journal' = [journal EXCEPT ![<<s, k>>] =
             [status |-> "created", linked |-> TRUE, qty |-> position[s].qty]]
        /\ Become(w, [Idle EXCEPT !.role = "close", !.pc = "claimed", !.j = <<s, k>>])
  BY DEF ClaimExit
<1>2. [Idle EXCEPT !.role = "close", !.pc = "claimed", !.j = <<s, k>>] \in HeldTask
  BY IdleType, JournalsOf DEF HeldTask, Task, Pc
<1>3. task' \in [Workers -> HeldTask]
  BY <1>1, <1>2, BecomeType DEF TypeInv
<1>4. [status |-> "created", linked |-> TRUE, qty |-> position[s].qty] \in Journal
  BY DEF TypeInv, TypeOK, Position, Journal, JournalStatus, Pending
<1>5. journal' \in [Journals -> Journal]
  BY <1>1, <1>4 DEF TypeInv, TypeOK
<1> QED
  BY <1>3, <1>5 DEF ClaimExit, TypeInv, TypeOK, HeldTask, broker

\* The expiry sweep keeps the types.
LEMMA SweepType ==
  ASSUME TypeInv, NEW w \in Workers,
         ExpireStale(w) \/ \E s \in Signals : StartSweep(w, s)
  PROVE  TypeInv'
<1>1. ASSUME NEW s \in Signals, StartSweep(w, s) PROVE TypeInv'
  <2>1. [Idle EXCEPT !.role = "sweep", !.pc = "stale", !.j = Opening(s)] \in HeldTask
    BY IdleType, JournalsOf DEF HeldTask, Task, Pc
  <2> QED
    BY <1>1, <2>1, BecomeType, OnlyTask DEF StartSweep, TypeInv
<1>2. ASSUME ExpireStale(w) PROVE TypeInv'
  <2>1. task' \in [Workers -> HeldTask]
    BY <1>2, IdleType, BecomeType DEF ExpireStale, TypeInv
  <2>2. signal' \in [Signals -> SignalStatus]
    BY <1>2 DEF ExpireStale, TypeInv, TypeOK, SignalStatus
  <2> QED
    BY <1>2, <2>1, <2>2 DEF ExpireStale, TypeInv, TypeOK, HeldTask, broker
<1> QED
  BY <1>1, <1>2

\* Vetoes, mode changes and the kill switch keep the types.
LEMMA ControlType ==
  ASSUME TypeInv,
         \/ \E s \in Signals : VetoEntry(s)
         \/ ExpireApproved \/ TripKillSwitch \/ RearmKillSwitch
  PROVE  TypeInv'
<1>1. ASSUME NEW s \in Signals, VetoEntry(s) PROVE TypeInv'
  BY <1>1 DEF VetoEntry, TypeInv, TypeOK, SignalStatus, broker
<1>2. ASSUME ExpireApproved PROVE TypeInv'
  BY <1>2 DEF ExpireApproved, TypeInv, TypeOK, SignalStatus, broker
<1>3. ASSUME TripKillSwitch \/ RearmKillSwitch PROVE TypeInv'
  BY <1>3 DEF TripKillSwitch, RearmKillSwitch, TypeInv, TypeOK, broker
<1> QED
  BY <1>1, <1>2, <1>3

\* The exposure check before an exit keeps the types.
LEMMA VerifyExposureType ==
  ASSUME TypeInv, NEW w \in Workers, VerifyExposure(w)
  PROVE  TypeInv'
<1>1. task[w].j \in Journals
  BY Holds DEF VerifyExposure, At, NeedsNoJournal
<1>2. \/ Goto(w, "verified")
      \/ FailWith(w, "rejected")
      \/ FailWith(w, "unknown")
  BY DEF VerifyExposure
<1>3. task' \in [Workers -> HeldTask]
  BY <1>1, <1>2, GotoType, FailWithType DEF TypeInv, Pc, Error
<1>4. killed' \in BOOLEAN
  BY DEF VerifyExposure, TypeInv, TypeOK
<1> QED
  BY <1>3, <1>4 DEF VerifyExposure, TypeInv, TypeOK, HeldTask, broker

-----------------------------------------------------------------------------
(* Broker calls *)

\* Sending an order keeps the types.
LEMMA SendType ==
  ASSUME TypeInv, NEW w \in Workers, Send(w)
  PROVE  TypeInv'
<1>1. task[w].j \in Journals
  BY Holds DEF Send, ReadyToPlace, At, NeedsNoJournal
<1>2. task' \in [Workers -> HeldTask]
  BY <1>1, GotoType DEF Send, TypeInv, Pc
<1>3. [state |-> "travelling", filled |-> 0] \in Order
  BY ConstantsAssumption DEF Order, Quantity
<1>4. order' \in [Journals -> Order]
  BY <1>3 DEF Send, TypeInv, TypeOK
<1> QED
  BY <1>2, <1>4 DEF Send, TypeInv, TypeOK, HeldTask, database

\* A failed place_order keeps the types.
LEMMA PlaceFailsType ==
  ASSUME TypeInv, NEW w \in Workers, PlaceFails(w)
  PROVE  TypeInv'
<1>1. task[w].j \in Journals
  BY Holds DEF PlaceFails, ReadyToPlace, At, NeedsNoJournal
<1>2. task' \in [Workers -> HeldTask]
  BY <1>1, FailWithType DEF PlaceFails, TypeInv, Error
<1> QED
  BY <1>2, OnlyTask DEF PlaceFails, broker

\* Saving the order id keeps the types.
LEMMA SaveSubmittedType ==
  ASSUME TypeInv, NEW w \in Workers, SaveSubmitted(w)
  PROVE  TypeInv'
<1>1. task[w].j \in Journals
  BY Holds DEF SaveSubmitted, At, NeedsNoJournal
<1>2. task' \in [Workers -> HeldTask]
  BY <1>1, GotoType DEF SaveSubmitted, TypeInv, Pc
<1>3. journal' \in [Journals -> Journal]
  BY <1>1, SetStatusType DEF SaveSubmitted, TypeInv, TypeOK, JournalStatus, Pending
<1> QED
  BY <1>2, <1>3 DEF SaveSubmitted, TypeInv, TypeOK, HeldTask, broker

\* Whatever row ends the wait, the task stays a task.
LEMMA ConcludeRowType ==
  ASSUME TypeInv, NEW w \in Workers, task[w].j \in Journals, NEW row \in Order,
         ConcludeRow(w, row)
  PROVE  task' \in [Workers -> HeldTask]
<1>1. [task[w] EXCEPT !.pc = "fill", !.row = row] \in HeldTask
  <2>1. task[w] \in HeldTask /\ "fill" \in Pc
    BY DEF TypeInv, Pc
  <2> QED
    BY <2>1, RowRead
<1>2. \/ Become(w, [task[w] EXCEPT !.pc = "fill", !.row = row])
      \/ FailWith(w, "unknown")
      \/ FailWith(w, "cancelled")
  BY DEF ConcludeRow
<1> QED
  BY <1>1, <1>2, BecomeType, FailWithType DEF TypeInv, Error

\* Polling, before or after the cancel, keeps the types.
LEMMA PollType ==
  ASSUME TypeInv, NEW w \in Workers, Poll(w) \/ FinalRead(w)
  PROVE  TypeInv'
<1>1. task[w].j \in Journals
  BY Holds DEF Poll, FinalRead, At, NeedsNoJournal
<1>2. RowOf(task[w].j) \in Order
  BY <1>1, RowOfType DEF TypeInv, TypeOK
<1>3. \/ ConcludeRow(w, RowOf(task[w].j))
      \/ FailWith(w, "rejected")
      \/ FailWith(w, "unknown")
  BY DEF Poll, FinalRead
<1>4. task' \in [Workers -> HeldTask]
  BY <1>1, <1>2, <1>3, ConcludeRowType, FailWithType DEF TypeInv, Error
<1> QED
  BY <1>4, OnlyTask DEF Poll, FinalRead, broker

\* A cancelled order is an order.
LEMMA CancelAtBrokerType ==
  ASSUME TypeInv, NEW j \in Journals, CancelAtBroker(j)
  PROVE  order' \in [Journals -> Order]
BY DEF CancelAtBroker, TypeInv, TypeOK, Order, Live

\* Both outcomes of a cancel request keep the types.
LEMMA CancelType ==
  ASSUME TypeInv, NEW w \in Workers, CancelAcked(w) \/ CancelFails(w)
  PROVE  TypeInv'
<1>1. task[w].j \in Journals
  BY Holds DEF CancelAcked, CancelFails, At, NeedsNoJournal
<1>2. task' \in [Workers -> HeldTask]
  BY <1>1, GotoType, FailWithType DEF CancelAcked, CancelFails, TypeInv, Pc, Error
<1>3. order' \in [Journals -> Order]
  BY <1>1, CancelAtBrokerType DEF CancelAcked, CancelFails, TypeInv, TypeOK
<1> QED
  BY <1>2, <1>3 DEF CancelAcked, CancelFails, TypeInv, TypeOK, HeldTask, database

-----------------------------------------------------------------------------
(* Fills and failures *)

\* Applying an entry fill keeps the types.
LEMMA FinalizeOpenType ==
  ASSUME TypeInv, NEW w \in Workers, FinalizeOpen(w)
  PROVE  TypeInv'
<1> DEFINE j == task[w].j
           s == SignalOf(j)
<1>1. j \in Journals /\ s \in Signals
  BY Holds DEF FinalizeOpen, NeedsNoJournal
<1>2. task' \in [Workers -> HeldTask]
  <2>1. CASE Become(w, Rest(w))
    BY <2>1, RestType, BecomeType DEF TypeInv
  <2>2. CASE Goto(w, "haltThenFail")
    BY <1>1, <2>2, GotoType DEF TypeInv, Pc
  <2> QED
    BY <2>1, <2>2 DEF FinalizeOpen
<1>3. signal' \in [Signals -> SignalStatus]
  BY DEF FinalizeOpen, TypeInv, TypeOK, SignalStatus
<1>4. journal' \in [Journals -> Journal]
  <2>1. CASE UNCHANGED journal
    BY <2>1 DEF TypeInv, TypeOK
  <2>2. CASE SetStatus(j, "unknown")
    BY <1>1, <2>2, SetStatusType DEF TypeInv, TypeOK, JournalStatus, Pending
  <2>3. CASE journal' = [journal EXCEPT ![j].status = "filled", ![j].linked = TRUE]
    BY <1>1, <2>3 DEF TypeInv, TypeOK, Journal, JournalStatus
  <2> QED
    BY <2>1, <2>2, <2>3 DEF FinalizeOpen
<1>5. position' \in [Signals -> Position]
  <2>1. task[w].row.filled \in Quantity
    BY DEF TypeInv, TypeOK, Task, Order
  <2>2. [state |-> "open", qty |-> task[w].row.filled] \in Position
    BY <2>1 DEF Position
  <2> QED
    BY <1>1, <2>2 DEF FinalizeOpen, TypeInv, TypeOK
<1> QED
  BY <1>2, <1>3, <1>4, <1>5 DEF FinalizeOpen, TypeInv, TypeOK, HeldTask, broker

\* Applying an exit fill keeps the types.
LEMMA FinalizeCloseType ==
  ASSUME TypeInv, NEW w \in Workers, FinalizeClose(w)
  PROVE  TypeInv'
<1> DEFINE j == task[w].j
           s == SignalOf(j)
<1>1. j \in Journals /\ s \in Signals
  BY Holds DEF FinalizeClose, NeedsNoJournal
<1>2. task' \in [Workers -> HeldTask]
  <2>1. CASE Become(w, Rest(w))
    BY <2>1, RestType, BecomeType DEF TypeInv
  <2>2. CASE Goto(w, "haltThenFail") \/ Goto(w, "halt")
    BY <1>1, <2>2, GotoType DEF TypeInv, Pc
  <2> QED
    BY <2>1, <2>2 DEF FinalizeClose
<1>3. journal' \in [Journals -> Journal]
  <2>1. CASE UNCHANGED journal
    BY <2>1 DEF TypeInv, TypeOK
  <2>2. CASE SetStatus(j, "unknown") \/ SetStatus(j, "filled")
    BY <1>1, <2>2, SetStatusType DEF TypeInv, TypeOK, JournalStatus, Pending
  <2> QED
    BY <2>1, <2>2 DEF FinalizeClose
<1>4. position' \in [Signals -> Position]
  BY <1>1 DEF FinalizeClose, TypeInv, TypeOK, Position
<1>5. booked' \in [Signals -> Nat]
  BY <1>1, ConstantsAssumption DEF FinalizeClose, TypeInv, TypeOK, Position, Quantity
<1> QED
  BY <1>2, <1>3, <1>4, <1>5 DEF FinalizeClose, TypeInv, TypeOK, HeldTask, broker

\* Both failure paths keep the types.
LEMMA MarkFailureType ==
  ASSUME TypeInv, NEW w \in Workers, MarkOpenFailure(w) \/ MarkCloseFailure(w)
  PROVE  TypeInv'
<1> DEFINE j == task[w].j
           st == FailureStatus(task[w].error)
<1>1. j \in Journals
  BY Holds DEF MarkOpenFailure, MarkCloseFailure, At, NeedsNoJournal
<1>2. task' \in [Workers -> HeldTask]
  <2>1. CASE Become(w, Idle)
    BY <2>1, IdleType, BecomeType DEF TypeInv
  <2>2. CASE Goto(w, "halt")
    BY <1>1, <2>2, GotoType DEF TypeInv, Pc
  <2> QED
    BY <2>1, <2>2 DEF MarkOpenFailure, MarkCloseFailure
<1>3. st \in JournalStatus
  BY FailureStatusType DEF JournalStatus, Pending
<1>4. journal' \in [Journals -> Journal]
  <2>1. UNCHANGED journal \/ SetStatus(j, st)
    BY DEF MarkOpenFailure, MarkCloseFailure
  <2> QED
    BY <1>1, <1>3, <2>1, SetStatusType DEF TypeInv, TypeOK
<1>5. signal' \in [Signals -> SignalStatus]
  BY DEF MarkOpenFailure, MarkCloseFailure, FailedSignal, TypeInv, TypeOK, SignalStatus
<1> QED
  BY <1>2, <1>4, <1>5 DEF MarkOpenFailure, MarkCloseFailure, TypeInv, TypeOK, HeldTask, broker

\* Tripping the kill switch for an unknown order keeps the types.
LEMMA HaltType ==
  ASSUME TypeInv, NEW w \in Workers, Halt(w)
  PROVE  TypeInv'
<1>1. task[w].j \in Journals
  BY Holds DEF Halt, NeedsNoJournal
<1>2. task' \in [Workers -> HeldTask]
  BY <1>1, RestType, BecomeType, FailWithType DEF Halt, TypeInv, Error
<1> QED
  BY <1>2 DEF Halt, TypeInv, TypeOK, HeldTask, broker

-----------------------------------------------------------------------------
(* The reconciler *)

\* Starting a reconciliation keeps the types.
LEMMA StartReconcileType ==
  ASSUME TypeInv, NEW w \in Workers, StartReconcile(w)
  PROVE  TypeInv'
<1>1. [Idle EXCEPT !.role = "reconcile", !.pc = "book",
                   !.todo = {j \in Journals : IsPending(j)}] \in HeldTask
  BY IdleType DEF HeldTask, NeedsNoJournal, Task, Pc
<1>2. task' \in [Workers -> HeldTask]
  BY <1>1, BecomeType DEF StartReconcile, TypeInv
<1> QED
  BY <1>2, OnlyTask DEF StartReconcile

\* Fetching the order book, or failing to, keeps the types.
LEMMA FetchBookType ==
  ASSUME TypeInv, NEW w \in Workers, FetchBook(w) \/ FetchBookFails(w)
  PROVE  TypeInv'
<1>1. ASSUME NEW book \in [Journals -> Order]
      PROVE  [task[w] EXCEPT !.pc = "scan", !.book = book] \in HeldTask
  <2>1. task[w] \in Task /\ "scan" \in Pc
    BY DEF TypeInv, HeldTask, Pc
  <2>2. [task[w] EXCEPT !.pc = "scan", !.book = book] \in Task
    BY <1>1, <2>1 DEF Task
  <2>3. [task[w] EXCEPT !.pc = "scan", !.book = book].pc = "scan"
    BY <2>1 DEF Task
  <2> QED
    BY <2>2, <2>3 DEF HeldTask, NeedsNoJournal
<1>2. /\ [j \in Journals |-> IF j \in task[w].todo THEN RowOf(j) ELSE NoOrder]
           \in [Journals -> Order]
      /\ [j \in Journals |-> IF j \in task[w].todo THEN Unreadable ELSE NoOrder]
           \in [Journals -> Order]
  BY RowTypes, RowOfType DEF TypeInv, TypeOK
<1>3. task' \in [Workers -> HeldTask]
  BY <1>1, <1>2, BecomeType DEF FetchBook, FetchBookFails, TypeInv
<1> QED
  BY <1>3, OnlyTask DEF FetchBook, FetchBookFails

\* Taking the next pending journal keeps the types.
LEMMA TakeNextType ==
  ASSUME TypeInv, NEW w \in Workers, TakeNext(w)
  PROVE  TypeInv'
<1> DEFINE left(j) == [task[w] EXCEPT !.todo = @ \ {j}, !.book[j] = NoOrder]
<1>1. PICK j \in task[w].todo :
        \/ /\ Become(w, [left(j) EXCEPT !.pc = "fail", !.j = j, !.error = "unknown"])
           /\ UNCHANGED journal
        \/ Become(w, left(j)) /\ UNCHANGED journal
        \/ Become(w, left(j)) /\ SetStatus(j, "unknown")
        \/ /\ Become(w, [left(j) EXCEPT !.pc = "row", !.j = j, !.row = task[w].book[j]])
           /\ UNCHANGED journal
  BY DEF TakeNext
<1>2. task[w] \in Task /\ j \in Journals
  BY <1>1 DEF TypeInv, HeldTask, Task
<1>3. left(j) \in Task
  BY <1>2, RowTypes DEF Task
<1>4. left(j).pc = "scan" /\ task[w].book[j] \in Order
  BY <1>2 DEF TakeNext, At, Task
<1>5. /\ left(j) \in HeldTask
      /\ [left(j) EXCEPT !.pc = "fail", !.j = j, !.error = "unknown"] \in HeldTask
      /\ [left(j) EXCEPT !.pc = "row", !.j = j, !.row = task[w].book[j]] \in HeldTask
  <2> HIDE DEF left
  <2>1. left(j) \in HeldTask
    BY <1>3, <1>4 DEF HeldTask, NeedsNoJournal
  <2>2. {"fail", "row"} \subseteq Pc /\ "unknown" \in Error
    BY DEF Pc, Error
  <2>3. ASSUME NEW pc \in Pc, NEW err \in Error
        PROVE  [left(j) EXCEPT !.pc = pc, !.j = j, !.error = err] \in HeldTask
    <3>1. [left(j) EXCEPT !.pc = pc, !.j = j, !.error = err] \in Task
      BY <1>2, <1>3 DEF Task
    <3> QED
      BY <1>2, <1>3, <3>1 DEF HeldTask, Task
  <2>4. [left(j) EXCEPT !.pc = "row", !.j = j, !.row = task[w].book[j]] \in HeldTask
    <3>1. [left(j) EXCEPT !.pc = "row", !.j = j, !.row = task[w].book[j]] \in Task
      BY <1>2, <1>3, <1>4, <2>2 DEF Task
    <3> QED
      BY <1>2, <1>3, <3>1 DEF HeldTask, Task
  <2> QED
    BY <2>1, <2>2, <2>3, <2>4
<1>6. task' \in [Workers -> HeldTask]
  <2> HIDE DEF left
  <2> QED
    BY <1>1, <1>5, BecomeType DEF TypeInv
<1>7. journal' \in [Journals -> Journal]
  BY <1>1, <1>2, SetStatusType DEF TypeInv, TypeOK, JournalStatus, Pending
<1> QED
  BY <1>6, <1>7 DEF TakeNext, TypeInv, TypeOK, HeldTask, broker

\* Cancelling a live partial fill keeps the types.
LEMMA ReconcileCancelType ==
  ASSUME TypeInv, NEW w \in Workers, ReconcileCancel(w)
  PROVE  TypeInv'
<1>1. task[w].j \in Journals
  BY Holds DEF ReconcileCancel, At, NeedsNoJournal
<1>2. task' \in [Workers -> HeldTask]
  BY <1>1, GotoType, FailWithType DEF ReconcileCancel, TypeInv, Pc, Error
<1>3. order' \in [Journals -> Order]
  BY <1>1, CancelAtBrokerType DEF ReconcileCancel, TypeInv, TypeOK
<1> QED
  BY <1>2, <1>3 DEF ReconcileCancel, TypeInv, TypeOK, HeldTask, database

\* Rereading a cancelled order keeps the types.
LEMMA RereadType ==
  ASSUME TypeInv, NEW w \in Workers, Reread(w)
  PROVE  TypeInv'
<1>1. task[w].j \in Journals
  BY Holds DEF Reread, At, NeedsNoJournal
<1>2. RowOf(task[w].j) \in Order /\ task[w] \in HeldTask /\ "final" \in Pc
  BY <1>1, RowOfType DEF TypeInv, TypeOK, Pc
<1>3. [task[w] EXCEPT !.pc = "final", !.row = RowOf(task[w].j)] \in HeldTask
  BY <1>1, <1>2, RowRead
<1>4. task' \in [Workers -> HeldTask]
  BY <1>1, <1>3, BecomeType, FailWithType DEF Reread, TypeInv, Error
<1> QED
  BY <1>4, OnlyTask DEF Reread

\* Dispatching on a broker row keeps the types.
LEMMA ReconcileRowType ==
  ASSUME TypeInv, NEW w \in Workers, ReconcileRow(w)
  PROVE  TypeInv'
<1> DEFINE j == task[w].j
<1>1. j \in Journals
  BY Holds DEF ReconcileRow, At, NeedsNoJournal
<1>2. task' \in [Workers -> HeldTask]
  <2>1. CASE Become(w, Rest(w))
    BY <2>1, RestType, BecomeType DEF TypeInv
  <2>2. CASE Goto(w, "release") \/ Goto(w, "fill")
    BY <1>1, <2>2, GotoType DEF TypeInv, Pc
  <2> QED
    BY <2>1, <2>2 DEF ReconcileRow
<1>3. journal' \in [Journals -> Journal]
  <2>1. CASE UNCHANGED journal
    BY <2>1 DEF TypeInv, TypeOK
  <2>2. CASE SetStatus(j, "submitted")
    BY <1>1, <2>2, SetStatusType DEF TypeInv, TypeOK, JournalStatus, Pending
  <2>3. CASE Dead(task[w].row) /\ SetStatus(j, task[w].row.state)
    BY <1>1, <2>3, SetStatusType DEF TypeInv, TypeOK, JournalStatus, Dead
  <2> QED
    BY <2>1, <2>2, <2>3 DEF ReconcileRow
<1> QED
  BY <1>2, <1>3 DEF ReconcileRow, TypeInv, TypeOK, HeldTask, broker

\* The last steps of a reconciliation keep the types.
LEMMA ReconcileTailType ==
  ASSUME TypeInv, NEW w \in Workers,
         ReleaseSignal(w) \/ ReconcileFailure(w) \/ EndReconcile(w)
  PROVE  TypeInv'
<1>1. ASSUME ReleaseSignal(w) PROVE TypeInv'
  <2>1. task' \in [Workers -> HeldTask]
    BY <1>1, RestType, BecomeType DEF ReleaseSignal, TypeInv
  <2>2. signal' \in [Signals -> SignalStatus]
    BY <1>1 DEF ReleaseSignal, TypeInv, TypeOK, SignalStatus
  <2> QED
    BY <1>1, <2>1, <2>2 DEF ReleaseSignal, TypeInv, TypeOK, HeldTask, broker
<1>2. ASSUME ReconcileFailure(w) PROVE TypeInv'
  <2>1. task[w].j \in Journals
    BY <1>2, Holds DEF ReconcileFailure, At, NeedsNoJournal
  <2>2. task' \in [Workers -> HeldTask]
    BY <1>2, <2>1, RestType, BecomeType, GotoType DEF ReconcileFailure, TypeInv, Pc
  <2>3. journal' \in [Journals -> Journal]
    BY <1>2, <2>1, SetStatusType
       DEF ReconcileFailure, TypeInv, TypeOK, JournalStatus, Pending
  <2> QED
    BY <1>2, <2>2, <2>3 DEF ReconcileFailure, TypeInv, TypeOK, HeldTask, broker
<1>3. ASSUME EndReconcile(w) PROVE TypeInv'
  BY <1>3, IdleType, BecomeType, OnlyTask DEF EndReconcile, TypeInv
<1> QED
  BY <1>1, <1>2, <1>3

-----------------------------------------------------------------------------
(* The environment *)

\* A crash keeps the types.
LEMMA CrashType ==
  ASSUME TypeInv, NEW w \in Workers, Crash(w)
  PROVE  TypeInv'
<1>1. task' \in [Workers -> HeldTask]
  BY IdleType, BecomeType DEF Crash, TypeInv
<1>2. crashes' \in 0..MaxCrashes
  BY ConstantsAssumption DEF Crash, TypeInv, TypeOK
<1> QED
  BY <1>1, <1>2 DEF Crash, TypeInv, TypeOK, HeldTask, database, broker

\* The broker's steps keep the types.
LEMMA BrokerType ==
  ASSUME TypeInv, NEW j \in Journals,
         BrokerAccepts(j) \/ BrokerFills(j) \/ BrokerEnds(j)
  PROVE  TypeInv'
<1>1. ASSUME BrokerAccepts(j) \/ BrokerEnds(j) PROVE TypeInv'
  <2>1. order' \in [Journals -> Order]
    BY <1>1 DEF BrokerAccepts, BrokerEnds, TypeInv, TypeOK, Order, Live
  <2> QED
    BY <1>1, <2>1 DEF BrokerAccepts, BrokerEnds, TypeInv, TypeOK, database
<1>2. ASSUME BrokerFills(j) PROVE TypeInv'
  <2>1. /\ order[j] \in Order /\ journal[j].qty \in 0..Lot
        /\ order[j].filled \in 0..Lot
    BY DEF TypeInv, TypeOK, Order, Journal, Quantity
  <2>2. order[j].filled + 1 \in Quantity
    BY <1>2, <2>1, ConstantsAssumption DEF BrokerFills, Quantity
  <2>3. [state |-> IF order[j].filled + 1 = journal[j].qty THEN "complete" ELSE order[j].state,
         filled |-> order[j].filled + 1] \in Order
    BY <2>1, <2>2 DEF Order
  <2>4. order' \in [Journals -> Order]
    BY <1>2, <2>3 DEF BrokerFills, TypeInv, TypeOK
  <2>5. net' \in [Signals -> Int]
    BY <1>2, SignalOfType DEF BrokerFills, TypeInv, TypeOK
  <2> QED
    BY <1>2, <2>4, <2>5 DEF BrokerFills, TypeInv, TypeOK, database
<1> QED
  BY <1>1, <1>2

-----------------------------------------------------------------------------
(* Type correctness *)

\* The initial state is well typed.
LEMMA TypeInit == Init => TypeInv
<1> SUFFICES ASSUME Init PROVE TypeInv
  OBVIOUS
<1>1. NoRow \in Journal /\ NoPosition \in Position /\ NoOrder \in Order
  BY RowTypes, ConstantsAssumption
     DEF NoRow, Journal, JournalStatus, Quantity, NoPosition, Position
<1>2. task \in [Workers -> HeldTask]
  BY IdleType DEF Init
<1>3. task \in [Workers -> Task]
  BY <1>2 DEF HeldTask
<1>4. crashes \in 0..MaxCrashes /\ signal \in [Signals -> SignalStatus]
  BY ConstantsAssumption DEF Init, SignalStatus
<1>5. /\ journal \in [Journals -> Journal]
      /\ position \in [Signals -> Position]
      /\ order \in [Journals -> Order]
  BY <1>1 DEF Init
<1>6. booked \in [Signals -> Nat] /\ net \in [Signals -> Int]
  BY DEF Init
<1>7. killed \in BOOLEAN
  BY DEF Init
<1> QED
  BY <1>2, <1>3, <1>4, <1>5, <1>6, <1>7 DEF TypeInv, TypeOK

\* Every step of running code keeps the types.
LEMMA AdvanceType ==
  ASSUME TypeInv, NEW w \in Workers, Advance(w)
  PROVE  TypeInv'
BY VerifyExposureType, SendType, PlaceFailsType, SaveSubmittedType, PollType, CancelType,
   FinalizeOpenType, FinalizeCloseType, MarkFailureType, HaltType, FetchBookType,
   TakeNextType, ReconcileCancelType, RereadType, ReconcileRowType, ReconcileTailType,
   SweepType
   DEF Advance

\* TypeInv is inductive.
LEMMA TypeStep == TypeInv /\ [Next]_vars => TypeInv'
<1> SUFFICES ASSUME TypeInv, [Next]_vars PROVE TypeInv'
  OBVIOUS
<1>1. ASSUME NEW w \in Workers, Start(w) PROVE TypeInv'
  BY <1>1, ClaimEntryType, ClaimExitType, SweepType, StartReconcileType DEF Start
<1>2. ASSUME NEW w \in Workers, Advance(w) \/ Crash(w) PROVE TypeInv'
  BY <1>2, AdvanceType, CrashType
<1>3. CASE UNCHANGED vars
  BY <1>3 DEF vars, TypeInv, TypeOK, HeldTask
<1> QED
  BY <1>1, <1>2, <1>3, ControlType, BrokerType DEF Next

\* TypeInv, the inductive form of TypeOK: every task that acts on a journal
\* also holds one.
THEOREM TypeInvariance == Spec => []TypeInv
BY TypeInit, TypeStep, PTL DEF Spec

\* Every variable keeps its type in every execution of every instance.
THEOREM TypeCorrectness == Spec => []TypeOK
<1>1. TypeInv => TypeOK
  BY DEF TypeInv
<1> QED
  BY <1>1, TypeInvariance, PTL

-----------------------------------------------------------------------------
(***************************************************************************)
(* Realized P&L enters the account once.  Only FinalizeClose touches       *)
(* booked, and it moves the position from open to closed in the same step; *)
(* only FinalizeOpen creates a position, and never over an existing one.   *)
(***************************************************************************)

\* A step that leaves positions and booked quantities alone keeps the books.
LEMMA BooksUntouched ==
  ASSUME PnlBookedOnce, UNCHANGED <<position, booked>>
  PROVE  PnlBookedOnce'
BY DEF PnlBookedOnce

\* Applying an entry fill credits nothing and never overwrites a position.
LEMMA BooksOnOpen ==
  ASSUME TypeInv, PnlBookedOnce, NEW w \in Workers, FinalizeOpen(w)
  PROVE  PnlBookedOnce'
<1>1. SignalOf(task[w].j) \in Signals
  BY Holds DEF FinalizeOpen, NeedsNoJournal
<1>2. CASE UNCHANGED position
  BY <1>2, BooksUntouched DEF FinalizeOpen
<1>3. CASE position' = [position EXCEPT ![SignalOf(task[w].j)] =
                          [state |-> "open", qty |-> task[w].row.filled]]
            /\ position[SignalOf(task[w].j)].state = "none"
  BY <1>1, <1>3 DEF FinalizeOpen, PnlBookedOnce, TypeInv, TypeOK
<1> QED
  BY <1>2, <1>3 DEF FinalizeOpen

\* Applying an exit fill credits the whole position, once.
LEMMA BooksOnClose ==
  ASSUME TypeInv, PnlBookedOnce, NEW w \in Workers, FinalizeClose(w)
  PROVE  PnlBookedOnce'
<1> DEFINE s == SignalOf(task[w].j)
<1>1. s \in Signals
  BY Holds DEF FinalizeClose, NeedsNoJournal
<1>2. CASE UNCHANGED <<position, booked>>
  BY <1>2, BooksUntouched
<1>3. CASE /\ ~CloseConflict(w, s)
            /\ position' = [position EXCEPT ![s].state = "closed"]
            /\ booked' = [booked EXCEPT ![s] = @ + position[s].qty]
  <2>1. booked[s] = 0 /\ position[s].qty \in Nat
    BY <1>1, <1>3, ConstantsAssumption
       DEF CloseConflict, PnlBookedOnce, TypeInv, TypeOK, Position, Quantity
  <2>2. booked'[s] = position[s].qty
    BY <1>1, <1>3, <2>1 DEF TypeInv, TypeOK
  <2>3. position'[s].state = "closed" /\ position'[s].qty = position[s].qty
    BY <1>1, <1>3 DEF TypeInv, TypeOK, Position
  <2>4. \A t \in Signals : t # s => position'[t] = position[t] /\ booked'[t] = booked[t]
    BY <1>1, <1>3 DEF TypeInv, TypeOK
  <2> QED
    BY <2>2, <2>3, <2>4 DEF PnlBookedOnce
<1> QED
  BY <1>2, <1>3 DEF FinalizeClose

\* PnlBookedOnce is inductive relative to TypeInv.
LEMMA BooksStep ==
  ASSUME TypeInv, PnlBookedOnce, [Next]_vars
  PROVE  PnlBookedOnce'
<1>1. ASSUME NEW w \in Workers, Start(w) \/ Crash(w) PROVE PnlBookedOnce'
  BY <1>1, BooksUntouched DEF Start, ClaimEntry, ClaimExit, StartSweep, StartReconcile, Crash, database
<1>2. ASSUME NEW w \in Workers, Advance(w) PROVE PnlBookedOnce'
  BY <1>2, BooksUntouched, BooksOnOpen, BooksOnClose
     DEF Advance, VerifyExposure, Send, PlaceFails, SaveSubmitted, Poll, CancelAcked,
         CancelFails, FinalRead, MarkOpenFailure, MarkCloseFailure, Halt, FetchBook,
         FetchBookFails, TakeNext, ReconcileCancel, Reread, ReconcileRow, ReleaseSignal,
         ReconcileFailure, EndReconcile, ExpireStale, database
<1>3. ASSUME \/ \E s \in Signals : VetoEntry(s)
             \/ ExpireApproved \/ TripKillSwitch \/ RearmKillSwitch
             \/ \E j \in Journals : BrokerAccepts(j) \/ BrokerFills(j) \/ BrokerEnds(j)
      PROVE PnlBookedOnce'
  BY <1>3, BooksUntouched
     DEF VetoEntry, ExpireApproved, TripKillSwitch, RearmKillSwitch,
         BrokerAccepts, BrokerFills, BrokerEnds, database
<1>4. CASE UNCHANGED vars
  BY <1>4, BooksUntouched DEF vars
<1> QED
  BY <1>1, <1>2, <1>3, <1>4 DEF Next

\* However many pollers and reconcilers observe a closing fill, and whatever
\* crashes, the account is credited once for it, for the whole position.
THEOREM RealizedOnce == Spec => []PnlBookedOnce
<1>1. Init => PnlBookedOnce
  BY DEF Init, PnlBookedOnce, NoPosition
<1>2. TypeInv /\ PnlBookedOnce /\ [Next]_vars => PnlBookedOnce'
  BY BooksStep
<1> QED
  BY <1>1, <1>2, TypeInvariance, PTL DEF Spec

-----------------------------------------------------------------------------
(***************************************************************************)
(* The safety properties that remain are not inductive: they hold because  *)
(* of what the running code of each worker may still do and of what it has *)
(* read.  The invariant that carries them is built in layers, each         *)
(* inductive with the help of the ones before it:                          *)
(*                                                                         *)
(*   Roles       which code runs at which step;                            *)
(*   Rights      who may still send the order of a journal;                *)
(*   Books       what a row that was read says of the order now;           *)
(*   Verdicts    what a resolved journal says of its order.                *)
(*                                                                         *)
(* LiveOrders_quantities adds two more and draws the conclusions.          *)
(***************************************************************************)

(* The layers of the invariant *)

Trades(t) == t.role \in {"open", "close"}
HasRight(t) == Trades(t) /\ t.pc \in {"claimed", "verified"}
OnJournal(t) ==
  \/ Trades(t)
  \/ t.role = "reconcile" /\ t.pc \notin {"book", "scan"}

RoleFits(t) ==
  /\ t.role = "idle" <=> t.pc = "idle"
  /\ t.role = "sweep" <=> t.pc = "stale"
  /\ t.role = "open" => IsOpening(t.j)
  /\ t.role = "close" => ~IsOpening(t.j)
  /\ t.pc \in {"claimed", "verified", "sent", "poll", "acked"} => Trades(t)
  /\ t.pc = "verified" => t.role = "close"
  /\ t.pc \in {"book", "scan", "row", "reread", "final", "release"} => t.role = "reconcile"
  /\ t.pc \in {"stale", "release"} => IsOpening(t.j)
Roles == \A w \in Workers : RoleFits(task[w])

\* A journal has a row before any code works on it, and the order request may
\* still leave only while nothing was sent, in the one worker that trades it.
Started(j) == journal[j].status # "none"
Journalled(t) == /\ OnJournal(t) => Started(t.j)
                 /\ \A j \in t.todo : Started(j)
Unsent(t) == HasRight(t) => order[t.j] = NoOrder
OneTrader ==
  \A v, w \in Workers : Trades(task[v]) /\ Trades(task[w]) /\ task[v].j = task[w].j => v = w
Rights ==
  /\ \A w \in Workers : Journalled(task[w]) /\ Unsent(task[w])
  /\ \A j \in Journals : ~Started(j) => order[j] = NoOrder
  /\ OneTrader

-----------------------------------------------------------------------------
(* What a worker's step does to the table of tasks *)

Others(w) == \A v \in Workers : v # w => task'[v] = task[v]
Carries(t, u) ==
  /\ u.role = t.role /\ u.j = t.j /\ u.row = t.row /\ u.todo = t.todo /\ u.book = t.book
Takes(w, p, row) == Become(w, [task[w] EXCEPT !.pc = p, !.row = row])

\* Every task is a record with the fields of Task.
LEMMA TaskIs ==
  ASSUME TypeInv, NEW w \in Workers
  PROVE  task[w] \in Task /\ task[w] \in HeldTask
BY DEF TypeInv, HeldTask

\* A step of one worker leaves the others alone.
LEMMA BecomeIs ==
  ASSUME TypeInv, NEW w \in Workers, NEW new, Become(w, new)
  PROVE  task'[w] = new /\ Others(w)
BY DEF TypeInv, Become, Others

\* Goto moves the program counter and nothing else.
LEMMA GotoIs ==
  ASSUME TypeInv, NEW w \in Workers, NEW p, Goto(w, p)
  PROVE  /\ task'[w].pc = p /\ task'[w].error = task[w].error
         /\ Carries(task[w], task'[w]) /\ Others(w)
<1>1. task'[w] = [task[w] EXCEPT !.pc = p] /\ Others(w)
  BY BecomeIs DEF Goto
<1>2. task[w] \in Task
  BY TaskIs
<1> QED
  BY <1>1, <1>2 DEF Task, Carries

\* FailWith moves to the failure path and records the error.
LEMMA FailWithIs ==
  ASSUME TypeInv, NEW w \in Workers, NEW err, FailWith(w, err)
  PROVE  /\ task'[w].pc = "fail" /\ task'[w].error = err
         /\ Carries(task[w], task'[w]) /\ Others(w)
<1>1. task'[w] = [task[w] EXCEPT !.pc = "fail", !.error = err] /\ Others(w)
  BY BecomeIs DEF FailWith
<1>2. task[w] \in Task
  BY TaskIs
<1> QED
  BY <1>1, <1>2 DEF Task, Carries

\* Taking a row keeps the journal, the role and the book.
LEMMA TakeRowIs ==
  ASSUME TypeInv, NEW w \in Workers, NEW p, NEW row, Takes(w, p, row)
  PROVE  /\ task'[w].pc = p /\ task'[w].row = row /\ task'[w].role = task[w].role
         /\ task'[w].j = task[w].j /\ task'[w].todo = task[w].todo
         /\ task'[w].book = task[w].book /\ Others(w)
<1>1. task'[w] = [task[w] EXCEPT !.pc = p, !.row = row] /\ Others(w)
  BY BecomeIs DEF Takes
<1>2. task[w] \in Task
  BY TaskIs
<1> QED
  BY <1>1, <1>2 DEF Task

\* After its journal, a reconciler scans on and a trader is done.
LEMMA RestIs ==
  ASSUME TypeInv, NEW w \in Workers, Become(w, Rest(w))
  PROVE  /\ Others(w)
         /\ \/ task[w].role # "reconcile" /\ task'[w] = Idle
            \/ /\ task[w].role = "reconcile"
               /\ task'[w].role = "reconcile" /\ task'[w].pc = "scan"
               /\ task'[w].j = NoJournal /\ task'[w].row = NoOrder
               /\ task'[w].todo = task[w].todo /\ task'[w].book = task[w].book
<1>1. task'[w] = Rest(w) /\ Others(w)
  BY BecomeIs
<1>2. task[w] \in Task
  BY TaskIs
<1> QED
  BY <1>1, <1>2 DEF Task, Rest

-----------------------------------------------------------------------------
(* Roles *)

\* The idle task fits.
LEMMA IdleFits == RoleFits(Idle)
BY DEF Idle, RoleFits, Trades

\* A step of one worker keeps Roles when its new task fits.
LEMMA FitsAgain ==
  ASSUME Roles, NEW w \in Workers, Others(w), RoleFits(task[w])'
  PROVE  Roles'
BY DEF Roles, Others, RoleFits, Trades, IsOpening

\* A worker that claims a journal runs the code for its kind.
LEMMA RolesOnStart ==
  ASSUME TypeInv, Roles, NEW w \in Workers, Start(w)
  PROVE  Roles'
<1>1. ASSUME NEW s \in Signals, ClaimEntry(w, s) PROVE Roles'
  <2>0. task'[w] = [Idle EXCEPT !.role = "open", !.pc = "claimed", !.j = Opening(s)] /\ Others(w)
    BY <1>1, BecomeIs DEF ClaimEntry
  <2>1. /\ task'[w].role = "open" /\ task'[w].pc = "claimed"
        /\ task'[w].j = Opening(s)
    BY <2>0 DEF Idle
  <2>2. RoleFits(task[w])'
    BY <2>1 DEF RoleFits, Trades, IsOpening, Opening
  <2> QED
    BY <2>0, <2>2, FitsAgain
<1>2. ASSUME NEW s \in Signals, ClaimExit(w, s) PROVE Roles'
  <2>1. PICK k \in 1..MaxExits :
          Become(w, [Idle EXCEPT !.role = "close", !.pc = "claimed", !.j = <<s, k>>])
    BY <1>2 DEF ClaimExit
  <2>0. task'[w] = [Idle EXCEPT !.role = "close", !.pc = "claimed", !.j = <<s, k>>] /\ Others(w)
    BY <2>1, BecomeIs
  <2>2. /\ task'[w].role = "close" /\ task'[w].pc = "claimed"
        /\ task'[w].j = <<s, k>>
    BY <2>0 DEF Idle
  <2>3. k # 0
    BY ConstantsAssumption
  <2>4. RoleFits(task[w])'
    BY <2>2, <2>3 DEF RoleFits, Trades, IsOpening
  <2> QED
    BY <2>0, <2>4, FitsAgain
<1>3. ASSUME NEW s \in Signals, StartSweep(w, s) PROVE Roles'
  <2>0. task'[w] = [Idle EXCEPT !.role = "sweep", !.pc = "stale", !.j = Opening(s)] /\ Others(w)
    BY <1>3, BecomeIs DEF StartSweep
  <2>1. /\ task'[w].role = "sweep" /\ task'[w].pc = "stale"
        /\ task'[w].j = Opening(s)
    BY <2>0 DEF Idle
  <2>2. RoleFits(task[w])'
    BY <2>1 DEF RoleFits, Trades, IsOpening, Opening
  <2> QED
    BY <2>0, <2>2, FitsAgain
<1>4. ASSUME StartReconcile(w) PROVE Roles'
  <2>1. task'[w] = [Idle EXCEPT !.role = "reconcile", !.pc = "book",
                                !.todo = {j \in Journals : IsPending(j)}] /\ Others(w)
    BY <1>4, BecomeIs DEF StartReconcile
  <2> QED
    BY <2>1, FitsAgain DEF Idle, RoleFits, Trades
<1> QED
  BY <1>1, <1>2, <1>3, <1>4 DEF Start

\* Moving on inside one role keeps Roles.
LEMMA RolesOnGoto ==
  ASSUME TypeInv, Roles, NEW w \in Workers, NEW p, Goto(w, p),
         p \notin {"idle", "stale"}, task[w].role \notin {"idle", "sweep"},
         p \in {"claimed", "sent", "poll", "acked"} => Trades(task[w]),
         p = "verified" => task[w].role = "close",
         p \in {"book", "scan", "row", "reread", "final", "release"} => task[w].role = "reconcile",
         p = "release" => IsOpening(task[w].j)
  PROVE  Roles'
<1>1. task'[w].pc = p /\ task'[w].role = task[w].role /\ task'[w].j = task[w].j /\ Others(w)
  BY GotoIs DEF Carries
<1>2. RoleFits(task[w])
  BY DEF Roles
<1> QED
  BY <1>1, <1>2, FitsAgain DEF RoleFits, Trades, IsOpening

\* So does entering the failure path, finishing, and turning to the next journal.
LEMMA RolesOnEnd ==
  ASSUME TypeInv, Roles, NEW w \in Workers,
         \/ task[w].role \notin {"idle", "sweep"} /\ \E err : FailWith(w, err)
         \/ Become(w, Rest(w))
         \/ Become(w, Idle)
  PROVE  Roles'
<1>1. ASSUME NEW err, FailWith(w, err), task[w].role \notin {"idle", "sweep"} PROVE Roles'
  <2>1. task'[w].pc = "fail" /\ task'[w].role = task[w].role /\ task'[w].j = task[w].j /\ Others(w)
    BY <1>1, FailWithIs DEF Carries
  <2>2. RoleFits(task[w])
    BY DEF Roles
  <2> QED
    BY <1>1, <2>1, <2>2, FitsAgain DEF RoleFits, Trades, IsOpening
<1>2. CASE Become(w, Rest(w))
  <2>1. CASE task'[w] = Idle
    BY <1>2, <2>1, RestIs, IdleFits, FitsAgain
  <2>2. CASE task'[w].role = "reconcile" /\ task'[w].pc = "scan"
    BY <1>2, <2>2, RestIs, FitsAgain DEF RoleFits, Trades
  <2> QED
    BY <1>2, <2>1, <2>2, RestIs
<1>3. CASE Become(w, Idle)
  BY <1>3, BecomeIs, IdleFits, FitsAgain
<1> QED
  BY <1>1, <1>2, <1>3

\* So does taking a row that was read.
LEMMA RolesOnRow ==
  ASSUME TypeInv, Roles, NEW w \in Workers, NEW p, NEW row, Takes(w, p, row),
         task[w].role \notin {"idle", "sweep"},
         p = "fill" \/ (p = "final" /\ task[w].role = "reconcile")
  PROVE  Roles'
<1>1. task'[w].pc = p /\ task'[w].role = task[w].role /\ task'[w].j = task[w].j /\ Others(w)
  BY TakeRowIs
<1>2. RoleFits(task[w])
  BY DEF Roles
<1>3. RoleFits(task[w])'
  BY <1>1, <1>2 DEF RoleFits, Trades, IsOpening
<1> QED
  BY <1>1, <1>3, FitsAgain

\* What the next journal of a reconciliation leaves in its task.
LEMMA TakeNextIs ==
  ASSUME TypeInv, NEW w \in Workers, TakeNext(w)
  PROVE  \E j \in task[w].todo :
           /\ j \in Journals /\ Others(w)
           /\ task'[w].role = "reconcile" /\ task'[w].todo \subseteq task[w].todo
           /\ \A i \in Journals : task'[w].book[i] = IF i = j THEN NoOrder ELSE task[w].book[i]
           /\ \/ /\ task'[w].pc = "fail" /\ task'[w].j = j /\ task'[w].row = task[w].row
                 /\ UNCHANGED journal
              \/ task'[w].pc = "scan" /\ UNCHANGED journal
              \/ task'[w].pc = "scan" /\ IsPending(j) /\ SetStatus(j, "unknown")
              \/ /\ task'[w].pc = "row" /\ task'[w].j = j /\ task'[w].row = task[w].book[j]
                 /\ IsPending(j) /\ UNCHANGED journal
<1> DEFINE left(j) == [task[w] EXCEPT !.todo = @ \ {j}, !.book[j] = NoOrder]
<1>1. PICK j \in task[w].todo :
        \/ /\ Become(w, [left(j) EXCEPT !.pc = "fail", !.j = j, !.error = "unknown"])
           /\ UNCHANGED journal
        \/ Become(w, left(j)) /\ UNCHANGED journal
        \/ Become(w, left(j)) /\ IsPending(j) /\ SetStatus(j, "unknown")
        \/ /\ Become(w, [left(j) EXCEPT !.pc = "row", !.j = j, !.row = task[w].book[j]])
           /\ IsPending(j) /\ UNCHANGED journal
  BY DEF TakeNext
<1>2. task[w] \in Task /\ j \in Journals
  BY <1>1, TaskIs DEF Task
<1>3. task[w].role = "reconcile" /\ task[w].pc = "scan"
  BY DEF TakeNext, At
<1>4. /\ left(j).role = "reconcile" /\ left(j).pc = "scan" /\ left(j).row = task[w].row
      /\ left(j).todo = task[w].todo \ {j}
      /\ \A i \in Journals : left(j).book[i] = IF i = j THEN NoOrder ELSE task[w].book[i]
      /\ left(j) \in Task
  BY <1>2, <1>3, RowTypes DEF Task
<1> HIDE DEF left
<1>5. ASSUME NEW new, Become(w, new) PROVE task'[w] = new /\ Others(w)
  BY <1>5, BecomeIs
<1>6. CASE /\ Become(w, [left(j) EXCEPT !.pc = "fail", !.j = j, !.error = "unknown"])
           /\ UNCHANGED journal
  <2>1. task'[w] = [left(j) EXCEPT !.pc = "fail", !.j = j, !.error = "unknown"] /\ Others(w)
    BY <1>5, <1>6
  <2>2. /\ task'[w].role = left(j).role /\ task'[w].todo = left(j).todo
        /\ task'[w].book = left(j).book /\ task'[w].row = left(j).row
        /\ task'[w].pc = "fail" /\ task'[w].j = j
    BY <1>4, <2>1 DEF Task
  <2> QED
    BY <1>2, <1>4, <1>6, <2>1, <2>2
<1>7. CASE Become(w, left(j)) /\ UNCHANGED journal
  <2>1. task'[w] = left(j) /\ Others(w)
    BY <1>5, <1>7
  <2> QED
    BY <1>2, <1>4, <1>7, <2>1
<1>9. CASE Become(w, left(j)) /\ IsPending(j) /\ SetStatus(j, "unknown")
  <2>1. task'[w] = left(j) /\ Others(w)
    BY <1>5, <1>9
  <2> QED
    BY <1>2, <1>4, <1>9, <2>1
<1>8. CASE /\ Become(w, [left(j) EXCEPT !.pc = "row", !.j = j, !.row = task[w].book[j]])
           /\ IsPending(j) /\ UNCHANGED journal
  <2>1. task'[w] = [left(j) EXCEPT !.pc = "row", !.j = j, !.row = task[w].book[j]] /\ Others(w)
    BY <1>5, <1>8
  <2>2. /\ task'[w].role = left(j).role /\ task'[w].todo = left(j).todo
        /\ task'[w].book = left(j).book /\ task'[w].row = task[w].book[j]
        /\ task'[w].pc = "row" /\ task'[w].j = j
    BY <1>4, <2>1 DEF Task
  <2> QED
    BY <1>2, <1>4, <1>8, <2>1, <2>2
<1> QED
  BY <1>1, <1>6, <1>7, <1>8, <1>9

\* Fetching the book leaves the reconciler scanning a book.
LEMMA FetchIs ==
  ASSUME TypeInv, NEW w \in Workers, FetchBook(w) \/ FetchBookFails(w)
  PROVE  /\ Others(w)
         /\ task'[w].role = "reconcile" /\ task'[w].pc = "scan"
         /\ task'[w].todo = task[w].todo
         /\ \A j \in Journals : task'[w].book[j] \in {RowOf(j), Unreadable, NoOrder}
<1>1. task[w] \in Task /\ task[w].role = "reconcile"
  BY TaskIs DEF FetchBook, FetchBookFails, At
<1>2. ASSUME NEW book, Become(w, [task[w] EXCEPT !.pc = "scan", !.book = book])
      PROVE  /\ Others(w) /\ task'[w].role = "reconcile" /\ task'[w].pc = "scan"
             /\ task'[w].todo = task[w].todo /\ task'[w].book = book
  <2>1. task'[w] = [task[w] EXCEPT !.pc = "scan", !.book = book] /\ Others(w)
    BY <1>2, BecomeIs
  <2> QED
    BY <1>1, <2>1 DEF Task
<1>3. CASE FetchBook(w)
  <2> DEFINE book == [j \in Journals |-> IF j \in task[w].todo THEN RowOf(j) ELSE NoOrder]
  <2>1. Become(w, [task[w] EXCEPT !.pc = "scan", !.book = book])
    BY <1>3 DEF FetchBook
  <2>2. \A j \in Journals : book[j] \in {RowOf(j), Unreadable, NoOrder}
    OBVIOUS
  <2> HIDE DEF book
  <2> QED
    BY <1>2, <2>1, <2>2
<1>4. CASE FetchBookFails(w)
  <2> DEFINE book == [j \in Journals |-> IF j \in task[w].todo THEN Unreadable ELSE NoOrder]
  <2>1. Become(w, [task[w] EXCEPT !.pc = "scan", !.book = book])
    BY <1>4 DEF FetchBookFails
  <2>2. \A j \in Journals : book[j] \in {RowOf(j), Unreadable, NoOrder}
    OBVIOUS
  <2> HIDE DEF book
  <2> QED
    BY <1>2, <2>1, <2>2
<1> QED
  BY <1>3, <1>4

\* Running code stays in its role.
LEMMA RolesOnAdvance ==
  ASSUME TypeInv, Roles, NEW w \in Workers, Advance(w)
  PROVE  Roles'
<1> USE DEF At, ReadyToPlace, Trades
<1>1. RoleFits(task[w])
  BY DEF Roles
<1>2. CASE VerifyExposure(w)
  BY <1>2, RolesOnGoto, RolesOnEnd DEF VerifyExposure
<1>3. CASE Send(w) \/ PlaceFails(w) \/ SaveSubmitted(w)
  BY <1>3, RolesOnGoto, RolesOnEnd DEF Send, PlaceFails, SaveSubmitted
<1>4. CASE Poll(w) \/ FinalRead(w)
  <2>1. task[w].role \in {"open", "close"}
    BY <1>4 DEF Poll, FinalRead
  <2>2. Takes(w, "fill", RowOf(task[w].j)) \/ \E err : FailWith(w, err)
    BY <1>4 DEF Poll, FinalRead, ConcludeRow, Takes
  <2>3. ASSUME Takes(w, "fill", RowOf(task[w].j)) PROVE Roles'
    <3>1. task[w].role \notin {"idle", "sweep"}
      BY <2>1
    <3>2. /\ task'[w].pc = "fill" /\ task'[w].role = task[w].role
          /\ task'[w].j = task[w].j /\ Others(w)
      BY <2>3, TakeRowIs
    <3>3. RoleFits(task[w])'
      BY <1>1, <2>1, <3>2 DEF RoleFits, IsOpening
    <3> QED
      BY <3>2, <3>3, FitsAgain
  <2>4. ASSUME NEW err, FailWith(w, err) PROVE Roles'
    BY <2>1, <2>4, RolesOnEnd
  <2> QED
    BY <2>2, <2>3, <2>4
<1>5. CASE CancelAcked(w) \/ CancelFails(w)
  BY <1>5, RolesOnGoto, RolesOnEnd DEF CancelAcked, CancelFails
<1>6. CASE FinalizeOpen(w) \/ FinalizeClose(w)
  <2>1. task[w].role \notin {"idle", "sweep"}
    BY <1>1, <1>6 DEF FinalizeOpen, FinalizeClose, RoleFits
  <2>2. Become(w, Rest(w)) \/ Goto(w, "haltThenFail") \/ Goto(w, "halt")
    BY <1>6 DEF FinalizeOpen, FinalizeClose
  <2> QED
    BY <2>1, <2>2, RolesOnGoto, RolesOnEnd
<1>7. CASE MarkOpenFailure(w) \/ MarkCloseFailure(w)
  <2>1. task[w].role \notin {"idle", "sweep"}
    BY <1>7 DEF MarkOpenFailure, MarkCloseFailure
  <2>2. Become(w, Idle) \/ Goto(w, "halt")
    BY <1>7 DEF MarkOpenFailure, MarkCloseFailure
  <2> QED
    BY <2>1, <2>2, RolesOnGoto, RolesOnEnd
<1>8. CASE Halt(w)
  <2>1. task[w].role \notin {"idle", "sweep"}
    BY <1>1, <1>8 DEF Halt, RoleFits
  <2>2. Become(w, Rest(w)) \/ FailWith(w, "unknown")
    BY <1>8 DEF Halt
  <2> QED
    BY <2>1, <2>2, RolesOnEnd
<1>9. CASE FetchBook(w) \/ FetchBookFails(w)
  <2>1. task'[w].role = "reconcile" /\ task'[w].pc = "scan" /\ Others(w)
    BY <1>9, FetchIs
  <2>2. RoleFits(task[w])'
    BY <2>1 DEF RoleFits
  <2> QED
    BY <2>1, <2>2, FitsAgain
<1>10. CASE TakeNext(w)
  <2>1. task'[w].role = "reconcile" /\ task'[w].pc \in {"fail", "scan", "row"} /\ Others(w)
    BY <1>10, TakeNextIs
  <2>2. RoleFits(task[w])'
    BY <2>1 DEF RoleFits
  <2> QED
    BY <2>1, <2>2, FitsAgain
<1>11. CASE ReconcileCancel(w)
  BY <1>11, RolesOnGoto, RolesOnEnd DEF ReconcileCancel
<1>12. CASE Reread(w)
  BY <1>12, RolesOnRow, RolesOnEnd DEF Reread, Takes
<1>13. CASE ReconcileRow(w)
  BY <1>13, RolesOnGoto, RolesOnEnd DEF ReconcileRow
<1>14. CASE ReleaseSignal(w) \/ EndReconcile(w) \/ ExpireStale(w)
  BY <1>14, RolesOnEnd DEF ReleaseSignal, EndReconcile, ExpireStale
<1>15. CASE ReconcileFailure(w)
  BY <1>15, RolesOnGoto, RolesOnEnd DEF ReconcileFailure
<1> QED
  BY <1>2, <1>3, <1>4, <1>5, <1>6, <1>7, <1>8, <1>9, <1>10, <1>11, <1>12, <1>13, <1>14, <1>15
     DEF Advance

\* Roles is inductive relative to TypeInv.
LEMMA RolesStep ==
  ASSUME TypeInv, Roles, [Next]_vars
  PROVE  Roles'
<1>1. ASSUME UNCHANGED task PROVE Roles'
  BY <1>1 DEF Roles, RoleFits, Trades, IsOpening
<1>2. ASSUME NEW w \in Workers, Crash(w) PROVE Roles'
  BY <1>2, RolesOnEnd DEF Crash
<1>3. CASE UNCHANGED vars \/ ExpireApproved \/ TripKillSwitch \/ RearmKillSwitch
  BY <1>1, <1>3 DEF vars, ExpireApproved, TripKillSwitch, RearmKillSwitch
<1>4. ASSUME NEW s \in Signals, VetoEntry(s) PROVE Roles'
  BY <1>1, <1>4 DEF VetoEntry
<1>5. ASSUME NEW j \in Journals, BrokerAccepts(j) \/ BrokerFills(j) \/ BrokerEnds(j) PROVE Roles'
  BY <1>1, <1>5 DEF BrokerAccepts, BrokerFills, BrokerEnds
<1> QED
  BY <1>2, <1>3, <1>4, <1>5, RolesOnStart, RolesOnAdvance DEF Next

-----------------------------------------------------------------------------
(* What a step does to journals, to orders and to one task *)

\* A journal row never goes away, keeps its quantity, and stays linked.
LEMMA JournalStays ==
  ASSUME TypeInv, [Next]_vars, NEW j \in Journals, Started(j)
  PROVE  /\ Started(j)' /\ journal'[j].qty = journal[j].qty
         /\ journal[j].linked => journal'[j].linked
<1> DEFINE Kept == /\ Started(j)' /\ journal'[j].qty = journal[j].qty
                   /\ journal[j].linked => journal'[j].linked
<1>1. ASSUME UNCHANGED journal PROVE Kept
  BY <1>1 DEF Started
<1>2. ASSUME NEW i \in Journals, NEW st \in JournalStatus \ {"none"}, SetStatus(i, st) PROVE Kept
  BY <1>2 DEF SetStatus, Started, TypeInv, TypeOK, Journal
<1>3. ASSUME NEW i \in Journals, ~Started(i), NEW new, journal' = [journal EXCEPT ![i] = new]
      PROVE  Kept
  BY <1>3 DEF Started, TypeInv, TypeOK
<1> HIDE DEF Kept
<1>4. ASSUME NEW w \in Workers, Start(w) PROVE Kept
  <2>1. ASSUME NEW s \in Signals, ClaimEntry(w, s) PROVE Kept
    BY <1>3, <2>1, JournalsOf DEF ClaimEntry, Started
  <2>2. ASSUME NEW s \in Signals, ClaimExit(w, s) PROVE Kept
    <3>1. PICK k \in 1..MaxExits :
            /\ journal[<<s, k>>].status = "none"
            /\ journal' = [journal EXCEPT ![<<s, k>>] =
                 [status |-> "created", linked |-> TRUE, qty |-> position[s].qty]]
      BY <2>2 DEF ClaimExit
    <3> QED
      BY <1>3, <3>1, JournalsOf DEF Started
  <2> QED
    BY <1>1, <1>4, <2>1, <2>2 DEF Start, StartSweep, StartReconcile, database
<1>5. ASSUME NEW w \in Workers, Advance(w) \/ Crash(w) PROVE Kept
  <2>1. CASE UNCHANGED journal
    BY <1>1, <2>1
  <2>2. CASE task[w].j \in Journals /\ \E st \in JournalStatus \ {"none"} : SetStatus(task[w].j, st)
    BY <1>2, <2>2
  <2>3. CASE SaveSubmitted(w) \/ FinalizeClose(w) \/ MarkOpenFailure(w) \/ MarkCloseFailure(w)
               \/ ReconcileFailure(w)
    <3>1. task[w].j \in Journals
      BY <2>3, Holds DEF SaveSubmitted, FinalizeClose, MarkOpenFailure, MarkCloseFailure,
                         ReconcileFailure, At, NeedsNoJournal
    <3>2. {"submitted", "unknown", "filled", FailureStatus(task[w].error)} \subseteq JournalStatus \ {"none"}
      BY FailureStatusType DEF JournalStatus, Pending
    <3> QED
      BY <2>1, <2>2, <2>3, <3>1, <3>2
         DEF SaveSubmitted, FinalizeClose, MarkOpenFailure, MarkCloseFailure, ReconcileFailure
  <2>4. CASE FinalizeOpen(w)
    <3>1. task[w].j \in Journals /\ "unknown" \in JournalStatus \ {"none"}
      BY <2>4, Holds DEF FinalizeOpen, NeedsNoJournal, JournalStatus, Pending
    <3>2. CASE journal' = [journal EXCEPT ![task[w].j].status = "filled", ![task[w].j].linked = TRUE]
      BY <3>1, <3>2 DEF Kept, Started, TypeInv, TypeOK, Journal
    <3> QED
      BY <2>1, <2>2, <2>4, <3>1, <3>2 DEF FinalizeOpen
  <2>5. CASE TakeNext(w)
    <3>1. PICK i \in Journals : UNCHANGED journal \/ SetStatus(i, "unknown")
      BY <2>5, TakeNextIs
    <3> QED
      BY <1>2, <2>1, <3>1 DEF JournalStatus, Pending
  <2>6. CASE ReconcileRow(w)
    <3>1. task[w].j \in Journals /\ "submitted" \in JournalStatus \ {"none"}
      BY <2>6, Holds DEF ReconcileRow, At, NeedsNoJournal, JournalStatus, Pending
    <3>2. CASE Dead(task[w].row) /\ SetStatus(task[w].j, task[w].row.state)
      BY <2>2, <3>1, <3>2 DEF Dead, JournalStatus
    <3> QED
      BY <2>1, <2>2, <2>6, <3>1, <3>2 DEF ReconcileRow
  <2> QED
    BY <1>5, <2>1, <2>3, <2>4, <2>5, <2>6
       DEF Advance, Crash, VerifyExposure, Send, PlaceFails, Poll, CancelAcked, CancelFails,
           FinalRead, Halt, FetchBook, FetchBookFails, ReconcileCancel, Reread, ReleaseSignal,
           EndReconcile, ExpireStale, database
<1> QED
  BY <1>1, <1>4, <1>5
     DEF Kept, Next, VetoEntry, ExpireApproved, TripKillSwitch, RearmKillSwitch, BrokerAccepts,
         BrokerFills, BrokerEnds, database, vars

\* An order goes from travelling to live to an end, and never loses a fill.
Final(row) == row.state \in {"complete", "cancelled", "rejected"}
Advances(o, n) ==
  \/ n = o
  \/ o.state = "travelling" /\ n.state = "live" /\ n.filled = o.filled
  \/ /\ o.state \in Live /\ n.filled >= o.filled
     /\ n.state \in Live \/ Final(n)
     /\ n.state = "complete" => n.filled > 0
SentBy(w, j) == Send(w) /\ task[w].j = j

\* Only the worker that sends an order takes it out of "none".
LEMMA OrderStep ==
  ASSUME TypeInv, [Next]_vars, NEW j \in Journals
  PROVE  \/ /\ Advances(order[j], order'[j])
            /\ order'[j].filled = order[j].filled \/ BrokerFills(j)
         \/ \E w \in Workers : SentBy(w, j)
<1> DEFINE Moved == \/ /\ Advances(order[j], order'[j])
                       /\ order'[j].filled = order[j].filled \/ BrokerFills(j)
                    \/ \E w \in Workers : SentBy(w, j)
<1>1. ASSUME UNCHANGED order PROVE Moved
  BY <1>1 DEF Advances
<1>2. order[j] \in Order /\ \A i \in Journals : order[i] \in Order
  BY DEF TypeInv, TypeOK
<1>3. ASSUME NEW i \in Journals, CancelAtBroker(i) PROVE Moved
  <2>1. order'[j] = order[j] \/ /\ i = j /\ order'[j].filled = order[j].filled
                                /\ order'[j].state \in {"cancelled", "cancelling"}
    BY <1>2, <1>3 DEF CancelAtBroker, Order, TypeInv, TypeOK
  <2>2. order[i].state \in Live
    BY <1>3 DEF CancelAtBroker
  <2>3. order[j].filled >= order[j].filled
    BY <1>2, ConstantsAssumption DEF Order, Quantity
  <2> QED
    BY <2>1, <2>2, <2>3 DEF Advances, Live, Final
<1>4. ASSUME NEW w \in Workers, Send(w) PROVE Moved
  <2>1. CASE task[w].j = j
    BY <1>4, <2>1 DEF SentBy
  <2>2. CASE task[w].j # j
    BY <1>4, <2>2 DEF Send, Advances, TypeInv, TypeOK
  <2> QED
    BY <2>1, <2>2
<1>5. ASSUME NEW i \in Journals, BrokerAccepts(i) \/ BrokerEnds(i) PROVE Moved
  <2>1. order'[j] = order[j] \/
          /\ i = j /\ order'[j].filled = order[j].filled
          /\ \/ order[j].state = "travelling" /\ order'[j].state = "live"
             \/ order[j].state \in Live /\ order'[j].state \in {"rejected", "cancelled"}
    BY <1>2, <1>5 DEF BrokerAccepts, BrokerEnds, Live, Order, TypeInv, TypeOK
  <2>2. order[j].filled >= order[j].filled
    BY <1>2, ConstantsAssumption DEF Order, Quantity
  <2> QED
    BY <2>1, <2>2 DEF Advances, Final
<1>6. ASSUME NEW i \in Journals, BrokerFills(i) PROVE Moved
  <2>1. CASE i # j
    BY <1>6, <2>1 DEF BrokerFills, Advances, TypeInv, TypeOK
  <2>2. CASE i = j
    <3>1. /\ order'[j].filled = order[j].filled + 1
          /\ order'[j].state \in {"complete", order[j].state}
          /\ order[j].state \in Live
      BY <1>6, <2>2 DEF BrokerFills, TypeInv, TypeOK
    <3>2. order'[j].filled >= order[j].filled /\ order'[j].filled > 0
      BY <1>2, <3>1, ConstantsAssumption DEF Order, Quantity
    <3> QED
      BY <1>6, <2>2, <3>1, <3>2 DEF Advances, Final
  <2> QED
    BY <2>1, <2>2
<1> HIDE DEF Moved
<1>7. ASSUME NEW w \in Workers, Advance(w) PROVE Moved
  <2>1. CASE task[w].j \in Journals /\ CancelAtBroker(task[w].j)
    BY <1>3, <2>1
  <2>2. CASE CancelAcked(w) \/ CancelFails(w) \/ ReconcileCancel(w)
    <3>1. task[w].j \in Journals
      BY <2>2, Holds DEF CancelAcked, CancelFails, ReconcileCancel, At, NeedsNoJournal
    <3> QED
      BY <1>1, <2>1, <2>2, <3>1 DEF CancelAcked, CancelFails, ReconcileCancel
  <2> QED
    BY <1>1, <1>4, <1>7, <2>2
       DEF Advance, VerifyExposure, PlaceFails, SaveSubmitted, Poll, FinalRead, FinalizeOpen,
           FinalizeClose, MarkOpenFailure, MarkCloseFailure, Halt, FetchBook, FetchBookFails,
           TakeNext, Reread, ReconcileRow, ReleaseSignal, ReconcileFailure, EndReconcile,
           ExpireStale, broker
<1>8. ASSUME NEW w \in Workers, Start(w) \/ Crash(w) PROVE Moved
  BY <1>1, <1>8 DEF Start, ClaimEntry, ClaimExit, StartSweep, StartReconcile, Crash, broker
<1> QED
  BY <1>1, <1>5, <1>6, <1>7, <1>8
     DEF Moved, Next, VetoEntry, ExpireApproved, TripKillSwitch, RearmKillSwitch, broker, vars

-----------------------------------------------------------------------------
(* The step of one worker, as what it does to its task *)

UsesRow(t) == t.pc \in {"row", "reread", "final", "fill"}

\* It goes on with its journal, ...
Stays(w) ==
  /\ OnJournal(task[w])
  /\ task'[w].role = task[w].role /\ task'[w].j = task[w].j
  /\ task'[w].todo = task[w].todo /\ task'[w].book = task[w].book
  /\ task'[w].pc \notin {"idle", "stale", "claimed", "book", "scan"}
  /\ task'[w].pc = "verified" => task[w].pc = "claimed" /\ UNCHANGED order
  /\ UsesRow(task'[w]) => \/ UsesRow(task[w]) /\ task'[w].row = task[w].row
                          \/ task'[w].row = RowOf(task[w].j) /\ UNCHANGED order
\* ... looks for the next one, or takes it up, with rows of the book, ...
BookFrom(w) ==
  \A j \in Journals : \/ task'[w].book[j] \in {task[w].book[j], NoOrder, Unreadable}
                      \/ task'[w].book[j] = RowOf(j) /\ UNCHANGED order
Scans(w) ==
  /\ task[w].role = "reconcile" /\ task'[w].role = "reconcile" /\ task'[w].pc = "scan"
  /\ task'[w].todo \subseteq task[w].todo /\ BookFrom(w)
Picks(w) ==
  \E j \in task[w].todo :
    /\ j \in Journals /\ task[w].role = "reconcile" /\ task'[w].role = "reconcile"
    /\ task'[w].pc \in {"fail", "row"} /\ task'[w].j = j
    /\ task'[w].todo \subseteq task[w].todo /\ BookFrom(w)
    /\ UsesRow(task'[w]) => task'[w].row = task[w].book[j]
\* ... creates a journal, or begins to read.
Begins(w) ==
  /\ task[w].pc = "idle" /\ UNCHANGED broker
  /\ \A j \in Journals : task'[w].book[j] = NoOrder
Claims(w, j) ==
  /\ Begins(w)
  /\ ~Started(j) /\ journal'[j].status = "created"
  /\ task'[w].role = (IF IsOpening(j) THEN "open" ELSE "close")
  /\ task'[w].pc = "claimed" /\ task'[w].j = j /\ task'[w].todo = {}
Lists(w) ==
  /\ Begins(w) /\ UNCHANGED journal
  /\ task'[w].role = "reconcile" /\ task'[w].pc = "book"
  /\ \A j \in task'[w].todo : IsPending(j)
Sweeps(w) ==
  /\ Begins(w) /\ UNCHANGED journal
  /\ task'[w].role = "sweep" /\ task'[w].pc = "stale" /\ task'[w].todo = {}
  /\ \E s \in Signals : signal[s] = "approved" /\ task'[w].j = Opening(s)
Moves(w) ==
  \/ Stays(w) \/ Scans(w) \/ Picks(w) \/ task'[w] = Idle
  \/ Lists(w) \/ Sweeps(w) \/ \E j \in Journals : Claims(w, j)

\* Going on by Goto, FailWith, or taking a row that was read.
LEMMA StaysOnGoto ==
  ASSUME TypeInv, NEW w \in Workers, NEW p, Goto(w, p), OnJournal(task[w]),
         p \notin {"idle", "stale", "claimed", "book", "scan"},
         p = "verified" => task[w].pc = "claimed" /\ UNCHANGED order,
         p \in {"row", "reread", "final", "fill"} => UsesRow(task[w])
  PROVE  Others(w) /\ Stays(w)
BY GotoIs DEF Carries, Stays, UsesRow

LEMMA StaysOnFail ==
  ASSUME TypeInv, NEW w \in Workers, NEW err, FailWith(w, err), OnJournal(task[w])
  PROVE  Others(w) /\ Stays(w)
BY FailWithIs DEF Carries, Stays, UsesRow

LEMMA StaysOnRow ==
  ASSUME TypeInv, NEW w \in Workers, NEW p, Takes(w, p, RowOf(task[w].j)), UNCHANGED order,
         OnJournal(task[w]), p \in {"fill", "final"}
  PROVE  Others(w) /\ Stays(w)
<1>1. /\ task'[w].pc = p /\ task'[w].row = RowOf(task[w].j) /\ task'[w].role = task[w].role
      /\ task'[w].j = task[w].j /\ task'[w].todo = task[w].todo
      /\ task'[w].book = task[w].book /\ Others(w)
  BY TakeRowIs
<1> QED
  BY <1>1 DEF Stays, UsesRow

\* Ending a journal.
LEMMA MovesOnEnd ==
  ASSUME TypeInv, NEW w \in Workers, Become(w, Rest(w)) \/ Become(w, Idle)
  PROVE  Others(w) /\ Moves(w)
<1>1. CASE Become(w, Idle)
  BY <1>1, BecomeIs DEF Moves
<1>2. CASE Become(w, Rest(w))
  <2>1. Others(w)
    BY <1>2, RestIs
  <2>2. CASE task'[w] = Idle
    BY <2>1, <2>2 DEF Moves
  <2>3. CASE /\ task[w].role = "reconcile"
             /\ task'[w].role = "reconcile" /\ task'[w].pc = "scan"
             /\ task'[w].j = NoJournal /\ task'[w].row = NoOrder
             /\ task'[w].todo = task[w].todo /\ task'[w].book = task[w].book
    BY <2>1, <2>3 DEF Moves, Scans, BookFrom
  <2> QED
    BY <1>2, <2>2, <2>3, RestIs
<1> QED
  BY <1>1, <1>2

\* Beginning.
LEMMA MovesOnStart ==
  ASSUME TypeInv, NEW w \in Workers, Start(w)
  PROVE  Others(w) /\ Moves(w)
<1>0. \A j \in Journals : Idle.book[j] = NoOrder
  BY DEF Idle
<1>1. ASSUME NEW s \in Signals, ClaimEntry(w, s) PROVE Others(w) /\ Moves(w)
  <2>1. task'[w] = [Idle EXCEPT !.role = "open", !.pc = "claimed", !.j = Opening(s)] /\ Others(w)
    BY <1>1, BecomeIs DEF ClaimEntry
  <2>2. /\ task'[w].role = "open" /\ task'[w].pc = "claimed" /\ task'[w].j = Opening(s)
        /\ task'[w].todo = {} /\ \A j \in Journals : task'[w].book[j] = NoOrder
    BY <2>1 DEF Idle
  <2>3. Opening(s) \in Journals /\ IsOpening(Opening(s))
    BY JournalsOf DEF Opening, IsOpening
  <2>4. task[w].pc = "idle" /\ ~Started(Opening(s)) /\ UNCHANGED broker
    BY <1>1 DEF ClaimEntry, Started
  <2>5. journal'[Opening(s)].status = "created"
    BY <1>1, <2>3 DEF ClaimEntry, TypeInv, TypeOK
  <2>6. Claims(w, Opening(s))
    BY <2>2, <2>3, <2>4, <2>5 DEF Claims, Begins
  <2> QED
    BY <2>1, <2>3, <2>6 DEF Moves
<1>2. ASSUME NEW s \in Signals, ClaimExit(w, s) PROVE Others(w) /\ Moves(w)
  <2>0. PICK k \in 1..MaxExits :
          /\ journal[<<s, k>>].status = "none"
          /\ journal' = [journal EXCEPT ![<<s, k>>] =
               [status |-> "created", linked |-> TRUE, qty |-> position[s].qty]]
          /\ Become(w, [Idle EXCEPT !.role = "close", !.pc = "claimed", !.j = <<s, k>>])
    BY <1>2 DEF ClaimExit
  <2>1. task'[w] = [Idle EXCEPT !.role = "close", !.pc = "claimed", !.j = <<s, k>>] /\ Others(w)
    BY <2>0, BecomeIs
  <2>2. /\ task'[w].role = "close" /\ task'[w].pc = "claimed" /\ task'[w].j = <<s, k>>
        /\ task'[w].todo = {} /\ \A j \in Journals : task'[w].book[j] = NoOrder
    BY <2>1 DEF Idle
  <2>3. <<s, k>> \in Journals /\ ~IsOpening(<<s, k>>)
    BY JournalsOf, ConstantsAssumption DEF IsOpening
  <2>4. task[w].pc = "idle" /\ ~Started(<<s, k>>) /\ UNCHANGED broker
    BY <1>2, <2>0 DEF ClaimExit, Started
  <2>5. journal'[<<s, k>>].status = "created"
    BY <2>0, <2>3 DEF TypeInv, TypeOK
  <2>6. Claims(w, <<s, k>>)
    BY <2>2, <2>3, <2>4, <2>5 DEF Claims, Begins
  <2> QED
    BY <2>1, <2>3, <2>6 DEF Moves
<1>3. ASSUME NEW s \in Signals, StartSweep(w, s) PROVE Others(w) /\ Moves(w)
  <2>1. task'[w] = [Idle EXCEPT !.role = "sweep", !.pc = "stale", !.j = Opening(s)] /\ Others(w)
    BY <1>3, BecomeIs DEF StartSweep
  <2>2. /\ task'[w].role = "sweep" /\ task'[w].pc = "stale" /\ task'[w].todo = {}
        /\ task'[w].j = Opening(s)
        /\ \A j \in Journals : task'[w].book[j] = NoOrder
    BY <2>1 DEF Idle
  <2> QED
    BY <1>3, <2>1, <2>2 DEF StartSweep, Moves, Sweeps, Begins, database
<1>4. ASSUME StartReconcile(w) PROVE Others(w) /\ Moves(w)
  <2>1. task'[w] = [Idle EXCEPT !.role = "reconcile", !.pc = "book",
                                !.todo = {j \in Journals : IsPending(j)}] /\ Others(w)
    BY <1>4, BecomeIs DEF StartReconcile
  <2>2. /\ task'[w].role = "reconcile" /\ task'[w].pc = "book"
        /\ task'[w].todo = {j \in Journals : IsPending(j)}
        /\ \A j \in Journals : task'[w].book[j] = NoOrder
    BY <2>1 DEF Idle
  <2> QED
    BY <1>4, <2>1, <2>2 DEF StartReconcile, Moves, Lists, Begins, database
<1> QED
  BY <1>1, <1>2, <1>3, <1>4 DEF Start

\* Every step of running code is one of these moves.
LEMMA MovesOnAdvance ==
  ASSUME TypeInv, Roles, NEW w \in Workers, Advance(w)
  PROVE  Others(w) /\ Moves(w)
<1> DEFINE Goal == Others(w) /\ Moves(w)
<1> USE DEF At, ReadyToPlace
<1>0. RoleFits(task[w])
  BY DEF Roles
<1>a. ASSUME Others(w) /\ Stays(w) PROVE Goal
  BY <1>a DEF Moves
<1>1. CASE VerifyExposure(w)
  <2>1. OnJournal(task[w]) /\ task[w].pc = "claimed" /\ UNCHANGED order
    BY <1>1 DEF VerifyExposure, OnJournal, Trades, broker
  <2>2. Goto(w, "verified") \/ \E err : FailWith(w, err)
    BY <1>1 DEF VerifyExposure
  <2> QED
    BY <1>a, <2>1, <2>2, StaysOnGoto, StaysOnFail
<1>2. CASE Send(w) \/ PlaceFails(w) \/ SaveSubmitted(w)
  <2>1. OnJournal(task[w])
    BY <1>2 DEF Send, PlaceFails, SaveSubmitted, OnJournal, Trades
  <2>2. Goto(w, "sent") \/ Goto(w, "poll") \/ \E err : FailWith(w, err)
    BY <1>2 DEF Send, PlaceFails, SaveSubmitted
  <2> QED
    BY <1>a, <2>1, <2>2, StaysOnGoto, StaysOnFail
<1>3. CASE Poll(w) \/ FinalRead(w)
  <2>1. OnJournal(task[w]) /\ UNCHANGED order
    BY <1>3 DEF Poll, FinalRead, OnJournal, Trades, broker
  <2>2. Takes(w, "fill", RowOf(task[w].j)) \/ \E err : FailWith(w, err)
    BY <1>3 DEF Poll, FinalRead, ConcludeRow, Takes
  <2> QED
    BY <1>a, <2>1, <2>2, StaysOnRow, StaysOnFail
<1>4. CASE CancelAcked(w) \/ CancelFails(w)
  <2>1. OnJournal(task[w])
    BY <1>4 DEF CancelAcked, CancelFails, OnJournal, Trades
  <2>2. Goto(w, "acked") \/ \E err : FailWith(w, err)
    BY <1>4 DEF CancelAcked, CancelFails
  <2> QED
    BY <1>a, <2>1, <2>2, StaysOnGoto, StaysOnFail
<1>5. CASE FinalizeOpen(w) \/ FinalizeClose(w)
  <2>1. OnJournal(task[w])
    BY <1>0, <1>5 DEF FinalizeOpen, FinalizeClose, OnJournal, Trades, RoleFits, TypeInv, HeldTask, TypeOK, Task
  <2>2. Goto(w, "halt") \/ Goto(w, "haltThenFail") \/ Become(w, Rest(w))
    BY <1>5 DEF FinalizeOpen, FinalizeClose
  <2> QED
    BY <1>a, <2>1, <2>2, StaysOnGoto, MovesOnEnd
<1>6. CASE MarkOpenFailure(w) \/ MarkCloseFailure(w) \/ ReconcileFailure(w)
  <2>1. OnJournal(task[w])
    BY <1>6 DEF MarkOpenFailure, MarkCloseFailure, ReconcileFailure, OnJournal, Trades
  <2>2. Goto(w, "halt") \/ Become(w, Idle) \/ Become(w, Rest(w))
    BY <1>6 DEF MarkOpenFailure, MarkCloseFailure, ReconcileFailure
  <2> QED
    BY <1>a, <2>1, <2>2, StaysOnGoto, MovesOnEnd
<1>7. CASE Halt(w)
  <2>1. OnJournal(task[w])
    BY <1>0, <1>7 DEF Halt, OnJournal, Trades, RoleFits, TypeInv, HeldTask, TypeOK, Task
  <2>2. Become(w, Rest(w)) \/ \E err : FailWith(w, err)
    BY <1>7 DEF Halt
  <2> QED
    BY <1>a, <2>1, <2>2, StaysOnFail, MovesOnEnd
<1>8. CASE FetchBook(w) \/ FetchBookFails(w)
  <2>1. task[w].role = "reconcile" /\ UNCHANGED order
    BY <1>8 DEF FetchBook, FetchBookFails, broker
  <2>2. /\ Others(w) /\ task'[w].role = "reconcile" /\ task'[w].pc = "scan"
        /\ task'[w].todo = task[w].todo
        /\ \A j \in Journals : task'[w].book[j] \in {RowOf(j), Unreadable, NoOrder}
    BY <1>8, FetchIs
  <2> QED
    BY <2>1, <2>2 DEF Moves, Scans, BookFrom
<1>9. CASE TakeNext(w)
  <2>1. task[w].role = "reconcile"
    BY <1>9 DEF TakeNext
  <2>2. PICK j \in task[w].todo :
           /\ j \in Journals /\ Others(w)
           /\ task'[w].role = "reconcile" /\ task'[w].todo \subseteq task[w].todo
           /\ \A i \in Journals : task'[w].book[i] = IF i = j THEN NoOrder ELSE task[w].book[i]
           /\ \/ task'[w].pc = "fail" /\ task'[w].j = j
              \/ task'[w].pc = "scan"
              \/ task'[w].pc = "row" /\ task'[w].j = j /\ task'[w].row = task[w].book[j]
    BY <1>9, TakeNextIs
  <2>3. BookFrom(w)
    BY <2>2 DEF BookFrom
  <2>4. Scans(w) \/ Picks(w)
    BY <2>1, <2>2, <2>3 DEF Scans, Picks, UsesRow
  <2> QED
    BY <2>2, <2>4 DEF Moves
<1>10. CASE ReconcileCancel(w) \/ Reread(w)
  <2>1. OnJournal(task[w])
    BY <1>10 DEF ReconcileCancel, Reread, OnJournal
  <2>2. CASE ReconcileCancel(w)
    <3>1. (Goto(w, "reread") \/ \E err : FailWith(w, err)) /\ UsesRow(task[w])
      BY <2>2 DEF ReconcileCancel, UsesRow
    <3> QED
      BY <1>a, <2>1, <3>1, StaysOnGoto, StaysOnFail
  <2>3. CASE Reread(w)
    <3>1. (Takes(w, "final", RowOf(task[w].j)) \/ \E err : FailWith(w, err)) /\ UNCHANGED order
      BY <2>3 DEF Reread, Takes, broker
    <3> QED
      BY <1>a, <2>1, <3>1, StaysOnRow, StaysOnFail
  <2> QED
    BY <1>10, <2>2, <2>3
<1>11. CASE ReconcileRow(w)
  <2>1. OnJournal(task[w]) /\ UsesRow(task[w])
    BY <1>11 DEF ReconcileRow, OnJournal, UsesRow
  <2>2. Goto(w, "release") \/ Goto(w, "fill") \/ Become(w, Rest(w))
    BY <1>11 DEF ReconcileRow
  <2> QED
    BY <1>a, <2>1, <2>2, StaysOnGoto, MovesOnEnd
<1>12. CASE ReleaseSignal(w) \/ EndReconcile(w) \/ ExpireStale(w)
  BY <1>12, MovesOnEnd DEF ReleaseSignal, EndReconcile, ExpireStale
<1> QED
  BY <1>1, <1>2, <1>3, <1>4, <1>5, <1>6, <1>7, <1>8, <1>9, <1>10, <1>11, <1>12 DEF Advance

LEMMA MoveIs ==
  ASSUME TypeInv, Roles, NEW w \in Workers, Start(w) \/ Advance(w) \/ Crash(w)
  PROVE  Others(w) /\ Moves(w)
BY MovesOnStart, MovesOnAdvance, MovesOnEnd DEF Crash

\* Every step moves at most one worker.
LEMMA StepMoves ==
  ASSUME TypeInv, Roles, [Next]_vars
  PROVE  UNCHANGED task \/ \E w \in Workers : Others(w) /\ Moves(w)
<1>1. CASE \E w \in Workers : Start(w) \/ Advance(w) \/ Crash(w)
  BY <1>1, MoveIs
<1>2. CASE ~\E w \in Workers : Start(w) \/ Advance(w) \/ Crash(w)
  BY <1>2 DEF Next, VetoEntry, ExpireApproved, TripKillSwitch, RearmKillSwitch, BrokerAccepts,
              BrokerFills, BrokerEnds, vars
<1> QED
  BY <1>1, <1>2

-----------------------------------------------------------------------------
(* Rights *)

\* A task that works on a journal holds one.
LEMMA OnJournalHolds ==
  ASSUME TypeInv, Roles, NEW w \in Workers
  PROVE  /\ OnJournal(task[w]) => task[w].j \in Journals
         /\ task[w].todo \subseteq Journals
<1>1. task[w] \in Task /\ RoleFits(task[w])
  BY TaskIs DEF Roles
<1>2. ASSUME OnJournal(task[w]) PROVE task[w].pc \notin NeedsNoJournal
  BY <1>1, <1>2 DEF OnJournal, Trades, RoleFits, NeedsNoJournal
<1>3. OnJournal(task[w]) => task[w].j \in Journals
  BY <1>2, Holds
<1> QED
  BY <1>1, <1>3 DEF Task

\* Journals stay: what code works on keeps its row.
LEMMA JournalledStep ==
  ASSUME TypeInv, Roles, Rights, [Next]_vars, NEW v \in Workers,
         task'[v] = task[v] \/ Moves(v)
  PROVE  Journalled(task[v])'
<1>0. /\ OnJournal(task[v]) => task[v].j \in Journals /\ Started(task[v].j)
      /\ task[v].todo \subseteq Journals
      /\ \A j \in task[v].todo : Started(j)
  BY OnJournalHolds DEF Rights, Journalled
<1>1. \A j \in Journals : Started(j) => Started(j)'
  BY JournalStays
<1>2. CASE task'[v] = task[v]
  BY <1>0, <1>1, <1>2 DEF Journalled, OnJournal, Trades
<1>3. CASE Stays(v)
  BY <1>0, <1>1, <1>3 DEF Stays, Journalled, OnJournal, Trades
<1>4. CASE Scans(v)
  BY <1>0, <1>1, <1>4 DEF Scans, Journalled, OnJournal, Trades
<1>5. CASE Picks(v)
  BY <1>0, <1>1, <1>5 DEF Picks, Journalled, OnJournal, Trades
<1>6. CASE task'[v] = Idle
  BY <1>6 DEF Idle, Journalled, OnJournal, Trades
<1>7. CASE Lists(v) \/ Sweeps(v)
  <2>1. \A j \in Journals : IsPending(j) => Started(j)
    BY DEF IsPending, Pending, Started
  <2>2. task'[v].todo \subseteq {j \in Journals : IsPending(j)}
    <3>1. task'[v].todo \subseteq Journals
      BY TypeStep DEF TypeInv, TypeOK, Task
    <3> QED
      BY <1>7, <3>1 DEF Lists, Sweeps
  <2>3. ~OnJournal(task[v])'
    BY <1>7 DEF Lists, Sweeps, OnJournal, Trades
  <2> QED
    BY <1>1, <2>1, <2>2, <2>3 DEF Journalled, OnJournal, Trades
<1>8. ASSUME NEW j \in Journals, Claims(v, j) PROVE Journalled(task[v])'
  BY <1>8 DEF Claims, Journalled, OnJournal, Trades, Started
<1> QED
  BY <1>2, <1>3, <1>4, <1>5, <1>6, <1>7, <1>8 DEF Moves

\* An order that was not sent stays unsent, unless its trader sends it.
LEMMA UnsentStays ==
  ASSUME TypeInv, [Next]_vars, NEW j \in Journals, order[j] = NoOrder
  PROVE  order'[j] = NoOrder \/ \E w \in Workers : SentBy(w, j)
BY OrderStep DEF Advances, NoOrder, Live

\* Sending makes the code wait for the answer.
LEMMA SenderIs ==
  ASSUME TypeInv, NEW w \in Workers, NEW j, SentBy(w, j)
  PROVE  /\ Trades(task[w]) /\ HasRight(task[w]) /\ task[w].j = j
         /\ task'[w].pc = "sent" /\ Others(w) /\ UNCHANGED journal
<1>1. Goto(w, "sent") /\ ReadyToPlace(w) /\ task[w].j = j /\ UNCHANGED journal
  BY DEF SentBy, Send, database
<1>2. task'[w].pc = "sent" /\ Others(w)
  BY <1>1, GotoIs
<1> QED
  BY <1>1, <1>2 DEF ReadyToPlace, At, Trades, HasRight

\* The right to send is used at most once.
LEMMA UnsentStep ==
  ASSUME TypeInv, Roles, Rights, [Next]_vars, NEW v \in Workers,
         task'[v] = task[v] \/ Moves(v)
  PROVE  Unsent(task[v])'
<1> SUFFICES ASSUME HasRight(task[v])'
             PROVE  order'[task'[v].j] = NoOrder
  BY DEF Unsent
<1> USE DEF HasRight, Trades
<1>0. RoleFits(task[v])
  BY DEF Roles
<1>1. CASE task'[v] = task[v]
  <2>1. HasRight(task[v]) /\ OnJournal(task[v])
    BY <1>1 DEF OnJournal
  <2>2. task[v].j \in Journals /\ order[task[v].j] = NoOrder
    BY <2>1, OnJournalHolds DEF Rights, Unsent
  <2>3. ASSUME NEW x \in Workers, SentBy(x, task[v].j) PROVE FALSE
    <3>1. Trades(task[x]) /\ task[x].j = task[v].j /\ task'[x].pc = "sent"
      BY <2>3, SenderIs
    <3>2. x = v
      BY <2>1, <3>1 DEF Rights, OneTrader
    <3> QED
      BY <1>1, <2>1, <3>1, <3>2
  <2> QED
    BY <1>1, <2>2, <2>3, UnsentStays
<1>2. CASE Stays(v)
  <2>1. task'[v].pc = "verified" /\ task[v].pc = "claimed" /\ UNCHANGED order /\ task'[v].j = task[v].j
    BY <1>2 DEF Stays
  <2>2. HasRight(task[v])
    BY <1>0, <2>1 DEF RoleFits
  <2> QED
    BY <2>1, <2>2 DEF Rights, Unsent
<1>3. ASSUME NEW j \in Journals, Claims(v, j) PROVE order'[task'[v].j] = NoOrder
  BY <1>3 DEF Claims, Begins, broker, Rights
<1>4. CASE Scans(v) \/ Picks(v) \/ task'[v] = Idle \/ Lists(v) \/ Sweeps(v)
  BY <1>4 DEF Scans, Picks, Lists, Sweeps, Idle
<1> QED
  BY <1>1, <1>2, <1>3, <1>4 DEF Moves

\* No two workers come to trade one journal.
LEMMA OneTraderStep ==
  ASSUME TypeInv, Roles, Rights, NEW w \in Workers, Others(w), Moves(w)
  PROVE  OneTrader'
<1> SUFFICES ASSUME NEW u \in Workers, NEW v \in Workers, u # v,
                    Trades(task[u])', Trades(task[v])', task'[u].j = task'[v].j
             PROVE  FALSE
  BY DEF OneTrader, Trades
<1> DEFINE Clash(x) == Trades(task'[w]) /\ Trades(task[x]) /\ task'[w].j = task[x].j
<1>1. ASSUME NEW x \in Workers, x # w, Clash(x) PROVE FALSE
  <2>1. CASE Stays(w)
    BY <1>1, <2>1 DEF Stays, Trades, Rights, OneTrader
  <2>2. ASSUME NEW j \in Journals, Claims(w, j) PROVE FALSE
    BY <1>1, <2>2 DEF Claims, Rights, Journalled, OnJournal
  <2>3. CASE Scans(w) \/ Picks(w) \/ task'[w] = Idle \/ Lists(w) \/ Sweeps(w)
    BY <1>1, <2>3 DEF Scans, Picks, Lists, Sweeps, Idle, Trades
  <2> QED
    BY <2>1, <2>2, <2>3 DEF Moves
<1>2. CASE u = w
  BY <1>1, <1>2 DEF Others, Trades
<1>3. CASE v = w
  BY <1>1, <1>3 DEF Others, Trades
<1>4. CASE u # w /\ v # w
  BY <1>4 DEF Others, Trades, Rights, OneTrader
<1> QED
  BY <1>2, <1>3, <1>4

\* Rights is inductive relative to the layers before it.
LEMMA RightsStep ==
  ASSUME TypeInv, Roles, Rights, [Next]_vars
  PROVE  Rights'
<1>1. UNCHANGED task \/ \E w \in Workers : Others(w) /\ Moves(w)
  BY StepMoves
<1>2. \A v \in Workers : task'[v] = task[v] \/ Moves(v)
  BY <1>1 DEF Others
<1>3. \A v \in Workers : Journalled(task[v])' /\ Unsent(task[v])'
  BY <1>2, JournalledStep, UnsentStep
<1>4. ASSUME NEW j \in Journals, ~Started(j)' PROVE order'[j] = NoOrder
  <2>1. ~Started(j) /\ order[j] = NoOrder
    BY <1>4, JournalStays DEF Rights
  <2>2. ASSUME NEW x \in Workers, SentBy(x, j) PROVE FALSE
    <3>1. Trades(task[x]) /\ task[x].j = j
      BY <2>2, SenderIs
    <3> QED
      BY <2>1, <3>1 DEF Rights, Journalled, OnJournal
  <2> QED
    BY <2>1, <2>2, UnsentStays
<1>5. OneTrader'
  <2>1. CASE UNCHANGED task
    BY <2>1 DEF Rights, OneTrader, Trades
  <2> QED
    BY <1>1, <2>1, OneTraderStep
<1> QED
  BY <1>3, <1>4, <1>5 DEF Rights, Started

\* The order of a journal is sent by the one worker that created it, once, and
\* only while nothing was sent for it.
RightsInv == TypeInv /\ Roles /\ Rights
LEMMA RightsInit == Init => RightsInv
<1> SUFFICES ASSUME Init PROVE RightsInv
  OBVIOUS
<1>1. TypeInv
  BY TypeInit
<1>2. \A w \in Workers : task[w] = Idle
  BY DEF Init
<1>3. Roles
  BY <1>2, IdleFits DEF Roles
<1>4. Rights
  BY <1>2 DEF Init, Rights, Journalled, Unsent, OneTrader, OnJournal, HasRight, Trades, Idle
<1> QED
  BY <1>1, <1>3, <1>4 DEF RightsInv

LEMMA RightsInvStep == RightsInv /\ [Next]_vars => RightsInv'
BY TypeStep, RolesStep, RightsStep DEF RightsInv

\* Only the worker whose transaction created a journal can send its order, at
\* most once: whoever else sees the row, a reconciler or a restarted process,
\* has no step left that sends.
THEOREM RightsInvariance == Spec => []RightsInv
BY RightsInit, RightsInvStep, PTL DEF Spec

-----------------------------------------------------------------------------
(* Books *)

\* What the broker's book can hold, and what a row that was read once still
\* says: at most what is filled now, and, when it was final, exactly that.
OrderReal(j) ==
  /\ order[j].state = "none" => order[j] = NoOrder
  /\ order[j].state = "travelling" => order[j].filled = 0
  /\ order[j].state # "unreadable"
  /\ order[j].state = "complete" => order[j].filled > 0
  /\ order[j].filled <= journal[j].qty
Seen(row, o) ==
  /\ row.filled <= o.filled
  /\ Final(row) => row = o
  /\ row.filled > 0 => Final(row) \/ row.state \in Live
BookSeen(t) == \A j \in Journals : Seen(t.book[j], order[j])
RowSeen(t) == UsesRow(t) => Seen(t.row, order[t.j])
Books ==
  /\ \A j \in Journals : OrderReal(j)
  /\ \A w \in Workers : BookSeen(task[w]) /\ RowSeen(task[w])

\* Orders are records of numbers between zero and the lot.
LEMMA OrderTypes ==
  ASSUME TypeInv, NEW j \in Journals
  PROVE  order[j] \in Order /\ order[j].filled \in Nat /\ journal[j].qty \in Nat
BY ConstantsAssumption DEF TypeInv, TypeOK, Order, Journal, Quantity

\* An order advances, or the one worker with the right sends it.
LEMMA OrderMoves ==
  ASSUME RightsInv, [Next]_vars, NEW j \in Journals
  PROVE  \/ /\ Advances(order[j], order'[j])
            /\ order'[j].filled = order[j].filled \/ BrokerFills(j)
         \/ /\ order[j] = NoOrder
            /\ order'[j].state = "travelling" /\ order'[j].filled = 0
            /\ \E w \in Workers : SentBy(w, j)
<1> USE DEF RightsInv
<1>1. ASSUME NEW w \in Workers, SentBy(w, j)
      PROVE  /\ order[j] = NoOrder
             /\ order'[j].state = "travelling" /\ order'[j].filled = 0
  <2>1. HasRight(task[w]) /\ task[w].j = j
    BY <1>1, SenderIs
  <2>2. order[j] = NoOrder
    BY <2>1 DEF Rights, Unsent
  <2>3. order' = [order EXCEPT ![j] = [state |-> "travelling", filled |-> 0]]
    BY <1>1 DEF SentBy, Send
  <2> QED
    BY <2>2, <2>3 DEF TypeInv, TypeOK
<1> QED
  BY <1>1, OrderStep

\* A row stays true of an order that advances, or is sent.
LEMMA SeenAdvances ==
  ASSUME NEW row \in Order, NEW o \in Order, NEW n \in Order, Seen(row, o), Advances(o, n)
  PROVE  Seen(row, n)
BY ConstantsAssumption DEF Seen, Advances, Final, Live, Order, Quantity

LEMMA SeenStays ==
  ASSUME RightsInv, [Next]_vars, NEW j \in Journals, NEW row \in Order, Seen(row, order[j])
  PROVE  Seen(row, order'[j])
<1>1. order[j] \in Order /\ order'[j] \in Order
  BY OrderTypes, TypeStep DEF RightsInv, TypeInv, TypeOK
<1>2. CASE Advances(order[j], order'[j])
  BY <1>1, <1>2, SeenAdvances
<1>3. CASE order[j] = NoOrder /\ order'[j].state = "travelling" /\ order'[j].filled = 0
  BY <1>1, <1>3, ConstantsAssumption DEF Seen, NoOrder, Final, Order, Quantity
<1> QED
  BY <1>2, <1>3, OrderMoves

\* What the broker shows now is true now.
LEMMA SeenNow ==
  ASSUME TypeInv, NEW j \in Journals, OrderReal(j)
  PROVE  Seen(RowOf(j), order[j])
<1>1. order[j] \in Order
  BY OrderTypes
<1> QED
  BY <1>1, ConstantsAssumption DEF Seen, RowOf, OrderReal, NoOrder, Final, Live, Order, Quantity

\* An empty or unreadable row says nothing.
LEMMA SeenNothing ==
  ASSUME NEW o \in Order
  PROVE  Seen(NoOrder, o) /\ Seen(Unreadable, o)
BY ConstantsAssumption DEF Seen, NoOrder, Unreadable, Final, Order, Quantity

\* No step makes up a row of the order book.
LEMMA MovesKeepBook ==
  ASSUME NEW v \in Workers, task'[v] = task[v] \/ Moves(v)
  PROVE  BookFrom(v)
<1>1. CASE task'[v] = task[v] \/ Stays(v)
  BY <1>1 DEF Stays, BookFrom
<1>2. CASE Scans(v) \/ Picks(v)
  BY <1>2 DEF Scans, Picks
<1>3. CASE task'[v] = Idle
  BY <1>3 DEF Idle, BookFrom
<1>4. CASE Lists(v) \/ Sweeps(v) \/ \E j \in Journals : Claims(v, j)
  BY <1>4 DEF Lists, Sweeps, Claims, Begins, BookFrom
<1> QED
  BY <1>1, <1>2, <1>3, <1>4 DEF Moves

LEMMA BookSeenStep ==
  ASSUME RightsInv, Books, [Next]_vars, NEW v \in Workers, task'[v] = task[v] \/ Moves(v)
  PROVE  BookSeen(task[v])'
<1> SUFFICES ASSUME NEW j \in Journals PROVE Seen(task'[v].book[j], order'[j])
  BY DEF BookSeen
<1>1. order[j] \in Order /\ order'[j] \in Order /\ task[v].book[j] \in Order
  BY OrderTypes, TaskIs, TypeStep DEF RightsInv, TypeInv, TypeOK, Task
<1>2. Seen(task[v].book[j], order'[j])
  BY <1>1, SeenStays DEF Books, BookSeen
<1>3. ASSUME UNCHANGED order PROVE Seen(RowOf(j), order'[j])
  BY <1>3, SeenNow DEF Books, RightsInv
<1>4. Seen(NoOrder, order'[j]) /\ Seen(Unreadable, order'[j])
  BY <1>1, SeenNothing
<1> QED
  BY <1>2, <1>3, <1>4, MovesKeepBook DEF BookFrom

LEMMA RowSeenStep ==
  ASSUME RightsInv, Books, [Next]_vars, NEW v \in Workers, task'[v] = task[v] \/ Moves(v)
  PROVE  RowSeen(task[v])'
<1> SUFFICES ASSUME UsesRow(task'[v]) PROVE Seen(task'[v].row, order'[task'[v].j])
  BY DEF RowSeen, UsesRow
<1>1. task[v].row \in Order /\ task[v].book \in [Journals -> Order]
  BY TaskIs DEF RightsInv, Task
<1>2. ASSUME UsesRow(task[v]) PROVE task[v].j \in Journals
  BY <1>2, Holds DEF UsesRow, NeedsNoJournal, RightsInv
<1>3. ASSUME UsesRow(task[v]), task'[v].row = task[v].row, task'[v].j = task[v].j
      PROVE  Seen(task'[v].row, order'[task'[v].j])
  BY <1>1, <1>2, <1>3, SeenStays DEF Books, RowSeen
<1>4. CASE task'[v] = task[v]
  BY <1>3, <1>4 DEF UsesRow
<1>5. CASE Stays(v)
  <2>1. CASE UsesRow(task[v]) /\ task'[v].row = task[v].row
    BY <1>3, <1>5, <2>1 DEF Stays
  <2>2. CASE task'[v].row = RowOf(task[v].j) /\ UNCHANGED order
    <3>1. task[v].j \in Journals
      BY <1>5, OnJournalHolds DEF Stays, RightsInv
    <3> QED
      BY <1>5, <2>2, <3>1, SeenNow DEF Stays, Books, RightsInv
  <2> QED
    BY <1>5, <2>1, <2>2 DEF Stays
<1>6. CASE Picks(v)
  BY <1>1, <1>6, SeenStays DEF Picks, Books, BookSeen
<1>7. CASE Scans(v) \/ task'[v] = Idle \/ Lists(v) \/ Sweeps(v) \/ \E j \in Journals : Claims(v, j)
  BY <1>7 DEF Scans, Idle, Lists, Sweeps, Claims, UsesRow
<1> QED
  BY <1>4, <1>5, <1>6, <1>7 DEF Moves

\* A fill is within the quantity of the journal it was ordered for.
LEMMA FilledFits ==
  ASSUME RightsInv, Books, [Next]_vars, NEW j \in Journals
  PROVE  order'[j].filled <= journal'[j].qty
<1>0. order[j].filled \in Nat /\ journal[j].qty \in Nat /\ journal'[j].qty \in Nat
  BY OrderTypes, TypeStep, ConstantsAssumption DEF RightsInv, TypeInv, TypeOK, Journal, Quantity
<1>1. CASE order'[j].filled = order[j].filled
  <2>1. CASE Started(j)
    BY <1>1, <2>1, JournalStays DEF RightsInv, Books, OrderReal
  <2>2. CASE ~Started(j)
    BY <1>0, <1>1, <2>2 DEF RightsInv, Rights, NoOrder
  <2> QED
    BY <2>1, <2>2
<1>2. CASE BrokerFills(j)
  <2>1. /\ order[j].filled < journal[j].qty /\ UNCHANGED journal
        /\ order'[j].filled = order[j].filled + 1
    BY <1>2 DEF BrokerFills, database, RightsInv, TypeInv, TypeOK
  <2> QED
    BY <1>0, <2>1
<1>3. CASE order[j] = NoOrder /\ order'[j].filled = 0
  BY <1>1, <1>3 DEF NoOrder
<1> QED
  BY <1>1, <1>2, <1>3, OrderMoves

LEMMA OrderRealStep ==
  ASSUME RightsInv, Books, [Next]_vars, NEW j \in Journals
  PROVE  OrderReal(j)'
<1>1. OrderReal(j) /\ order'[j].filled <= journal'[j].qty
  BY FilledFits DEF Books
<1>2. CASE Advances(order[j], order'[j])
  BY <1>1, <1>2 DEF Advances, OrderReal, Live, Final, NoOrder
<1>3. CASE order'[j].state = "travelling" /\ order'[j].filled = 0
  BY <1>1, <1>3 DEF OrderReal
<1> QED
  BY <1>2, <1>3, OrderMoves

\* The rows the code holds are never ahead of the broker, nor behind an end.
BooksInv == RightsInv /\ Books

\* Of two facts about a worker that hold for resting and for moving ones, all
\* workers have them after a step.
LEMMA AllMove ==
  ASSUME RightsInv, [Next]_vars
  PROVE  \A v \in Workers : task'[v] = task[v] \/ Moves(v)
BY StepMoves DEF Others, RightsInv

LEMMA BooksInit == Init => BooksInv
<1> SUFFICES ASSUME Init PROVE BooksInv
  OBVIOUS
<1>1. \A j \in Journals : order[j] = NoOrder /\ order[j] \in Order /\ journal[j].qty \in Nat
  BY RightsInit, OrderTypes DEF Init, RightsInv
<1>2. \A j \in Journals : OrderReal(j)
  BY <1>1 DEF OrderReal, NoOrder
<1>3. \A w \in Workers : task[w] = Idle
  BY DEF Init
<1>4. \A w \in Workers : BookSeen(task[w]) /\ RowSeen(task[w])
  BY <1>1, <1>3, SeenNothing DEF BookSeen, RowSeen, UsesRow, Idle
<1> QED
  BY <1>2, <1>4, RightsInit DEF BooksInv, Books

LEMMA BooksInvStep == BooksInv /\ [Next]_vars => BooksInv'
<1> SUFFICES ASSUME RightsInv, Books, [Next]_vars PROVE RightsInv' /\ Books'
  BY DEF BooksInv
<1>1. \A v \in Workers : BookSeen(task[v])' /\ RowSeen(task[v])'
  BY AllMove, BookSeenStep, RowSeenStep
<1>2. \A j \in Journals : OrderReal(j)'
  BY OrderRealStep
<1> QED
  BY <1>1, <1>2, RightsInvStep DEF Books

\* What a worker has read of an order (_wait_for_fill's poll, the reconciler's
\* order book) is never more than the broker has filled, and exactly the order
\* once it ended, however long the worker slept on it.
THEOREM BooksInvariance == Spec => []BooksInv
BY BooksInit, BooksInvStep, PTL DEF Spec

-----------------------------------------------------------------------------
(* Verdicts *)

\* An exit is spent when nothing of it is left or can come to the broker: it
\* ended unfilled, or was never sent by code that is gone.
Spent(j) ==
  \/ Dead(order[j])
  \/ order[j] = NoOrder /\ \A w \in Workers : HasRight(task[w]) => task[w].j # j
Condemned(j) == IF IsOpening(j) THEN Dead(order[j]) ELSE Spent(j)

\* What the step a worker stands at says of its order.
Rejections == {"rejected", "cancelled"}
Verdict(t) ==
  /\ t.pc = "fail" /\ t.error \in Rejections => Condemned(t.j)
  /\ t.pc = "release" => Dead(order[t.j])
  /\ t.pc = "fill" => HasFill(t.row)
  /\ AckIsFinal => /\ t.pc \in {"fill", "final"} => Final(t.row)
                   /\ t.pc \in {"acked", "reread"} => Final(order[t.j])
Verdicts ==
  /\ \A w \in Workers : Verdict(task[w])
  /\ \A j \in Journals : journal[j].status \in Rejections => Condemned(j)

\* An order that ended stays as it ended.
LEMMA FinalStays ==
  ASSUME RightsInv, [Next]_vars, NEW j \in Journals, Final(order[j])
  PROVE  order'[j] = order[j]
BY OrderMoves DEF Advances, Final, Live, NoOrder

LEMMA DeadIsFinal == ASSUME NEW row, Dead(row) PROVE Final(row)
BY DEF Dead, Final

\* The right to send a journal that exists is not given again.
LEMMA NoNewRight ==
  ASSUME RightsInv, [Next]_vars, NEW j \in Journals, Started(j) \/ ~Started(j)',
         NEW v \in Workers, HasRight(task[v]) => task[v].j # j, HasRight(task'[v])
  PROVE  task'[v].j # j
<1>0. RoleFits(task[v])
  BY DEF RightsInv, Roles
<1>1. CASE task'[v] = task[v]
  BY <1>1
<1>2. CASE Stays(v)
  <2>1. task'[v].pc = "verified" /\ task[v].pc = "claimed" /\ task'[v].j = task[v].j
    BY <1>2 DEF Stays, HasRight
  <2> QED
    BY <1>0, <2>1 DEF HasRight, RoleFits
<1>3. ASSUME NEW i \in Journals, Claims(v, i) PROVE task'[v].j # j
  BY <1>3 DEF Claims, Started
<1>4. CASE Scans(v) \/ Picks(v) \/ task'[v] = Idle \/ Lists(v) \/ Sweeps(v)
  BY <1>4 DEF Scans, Picks, Lists, Sweeps, Idle, HasRight, Trades
<1> QED
  BY <1>1, <1>2, <1>3, <1>4, AllMove DEF Moves

LEMMA SpentStays ==
  ASSUME RightsInv, [Next]_vars, NEW j \in Journals, Started(j) \/ ~Started(j)', Spent(j)
  PROVE  Spent(j)'
<1>1. CASE Dead(order[j])
  BY <1>1, FinalStays, DeadIsFinal DEF Spent, Dead
<1>2. CASE order[j] = NoOrder /\ \A w \in Workers : HasRight(task[w]) => task[w].j # j
  <2>1. ASSUME NEW w \in Workers, SentBy(w, j) PROVE FALSE
    BY <1>2, <2>1, SenderIs DEF RightsInv
  <2>2. order'[j] = NoOrder
    BY <1>2, <2>1, OrderMoves DEF Advances, NoOrder, Live
  <2>3. \A w \in Workers : HasRight(task'[w]) => task'[w].j # j
    BY <1>2, NoNewRight
  <2> QED
    BY <2>2, <2>3 DEF Spent, HasRight, Trades
<1> QED
  BY <1>1, <1>2 DEF Spent

LEMMA CondemnedStays ==
  ASSUME RightsInv, [Next]_vars, NEW j \in Journals, Started(j), Condemned(j)
  PROVE  Condemned(j)'
<1>1. CASE IsOpening(j)
  BY <1>1, FinalStays, DeadIsFinal DEF Condemned, Dead, IsOpening
<1>2. CASE ~IsOpening(j)
  BY <1>2, SpentStays DEF Condemned, IsOpening
<1> QED
  BY <1>1, <1>2

LEMMA DeadCondemns ==
  ASSUME NEW j \in Journals, Dead(order[j])
  PROVE  Condemned(j)
BY DEF Condemned, Spent

\* A worker rests, or it takes the step.
LEMMA ActsOrRests ==
  ASSUME RightsInv, [Next]_vars, NEW v \in Workers
  PROVE  task'[v] = task[v] \/ Start(v) \/ Advance(v) \/ Crash(v)
<1> USE DEF RightsInv
<1>1. ASSUME NEW w \in Workers, Start(w) \/ Advance(w) \/ Crash(w), w # v
      PROVE  task'[v] = task[v]
  BY <1>1, MoveIs DEF Others
<1>2. CASE ~\E w \in Workers : Start(w) \/ Advance(w) \/ Crash(w)
  BY <1>2 DEF Next, VetoEntry, ExpireApproved, TripKillSwitch, RearmKillSwitch, BrokerAccepts,
              BrokerFills, BrokerEnds, vars
<1> QED
  BY <1>1, <1>2

\* Code that is past its beginning works on a journal that exists.
LEMMA WorksOn ==
  ASSUME RightsInv, NEW v \in Workers, task[v].pc \notin {"idle", "stale", "book", "scan"}
  PROVE  task[v].j \in Journals /\ Started(task[v].j) /\ OnJournal(task[v])
<1>1. task[v] \in Task /\ RoleFits(task[v])
  BY TaskIs DEF RightsInv, Roles
<1>2. OnJournal(task[v])
  BY <1>1 DEF Task, RoleFits, OnJournal, Trades
<1> QED
  BY <1>2, OnJournalHolds DEF RightsInv, Rights, Journalled

LEMMA VerdictRests ==
  ASSUME BooksInv, Verdicts, [Next]_vars, NEW v \in Workers, task'[v] = task[v]
  PROVE  Verdict(task[v])'
<1> USE DEF BooksInv
<1>1. Verdict(task[v])
  BY DEF Verdicts
<1>2. ASSUME task[v].pc \in {"fail", "release", "fill", "acked", "reread", "final"}
      PROVE  task[v].j \in Journals /\ Started(task[v].j)
  BY <1>2, WorksOn
<1>3. ASSUME task[v].pc = "fail", task[v].error \in Rejections PROVE Condemned(task[v].j)'
  <2>1. Condemned(task[v].j) /\ task[v].j \in Journals /\ Started(task[v].j)
    BY <1>1, <1>2, <1>3 DEF Verdict
  <2>2. PICK j \in Journals : j = task[v].j
    BY <2>1
  <2>3. Condemned(j)'
    BY <2>1, <2>2, CondemnedStays
  <2> QED
    BY <2>2, <2>3 DEF Condemned, Spent, IsOpening, Dead, HasRight, Trades
<1>4. ASSUME task[v].pc = "release" PROVE Dead(order'[task[v].j])
  BY <1>1, <1>2, <1>4, FinalStays, DeadIsFinal DEF Verdict
<1>5. ASSUME AckIsFinal, task[v].pc \in {"acked", "reread"} PROVE Final(order'[task[v].j])
  BY <1>1, <1>2, <1>5, FinalStays DEF Verdict
<1> QED
  BY <1>1, <1>3, <1>4, <1>5 DEF Verdict, HasFill, Final, Dead

\* Most steps lead where nothing is claimed about the order.
Quiet(t) ==
  /\ t.pc \notin {"release", "fill", "acked", "reread", "final"}
  /\ t.pc = "fail" => t.error = "unknown"

LEMMA QuietHolds ==
  ASSUME NEW v \in Workers, Quiet(task'[v])
  PROVE  Verdict(task[v])'
BY DEF Quiet, Verdict, Rejections

LEMMA QuietOnGoto ==
  ASSUME TypeInv, NEW v \in Workers, NEW p, Goto(v, p),
         p \notin {"release", "fill", "acked", "reread", "final", "fail"}
  PROVE  Verdict(task[v])'
BY GotoIs, QuietHolds DEF Quiet

LEMMA QuietOnEnd ==
  ASSUME TypeInv, NEW v \in Workers,
         Become(v, Idle) \/ Become(v, Rest(v)) \/ FailWith(v, "unknown")
  PROVE  Verdict(task[v])'
<1>1. CASE Become(v, Idle)
  BY <1>1, BecomeIs, QuietHolds DEF Quiet, Idle
<1>2. CASE Become(v, Rest(v))
  BY <1>2, RestIs, QuietHolds DEF Quiet, Idle
<1>3. CASE FailWith(v, "unknown")
  BY <1>3, FailWithIs, QuietHolds DEF Quiet
<1> QED
  BY <1>1, <1>2, <1>3

\* A worker that saw its order dead may say so.
LEMMA FailOnDead ==
  ASSUME BooksInv, NEW v \in Workers, task[v].j \in Journals, UNCHANGED order, NEW err,
         FailWith(v, err), Dead(RowOf(task[v].j))
  PROVE  Verdict(task[v])'
<1>1. Seen(RowOf(task[v].j), order[task[v].j])
  BY SeenNow DEF BooksInv, RightsInv, Books
<1>2. Dead(order'[task[v].j])
  BY <1>1, DeadIsFinal DEF Seen
<1>3. task'[v].pc = "fail" /\ task'[v].j = task[v].j
  BY FailWithIs DEF BooksInv, RightsInv, Carries
<1> QED
  BY <1>2, <1>3 DEF Verdict, Condemned, Spent

\* A worker that saw a fill may apply it; when a cancel is final, so is the fill.
LEMMA FillOnRow ==
  ASSUME TypeInv, NEW v \in Workers, NEW row, Takes(v, "fill", row), HasFill(row),
         AckIsFinal => Final(row)
  PROVE  Verdict(task[v])'
BY TakeRowIs DEF Verdict

LEMMA ConcludeVerdict ==
  ASSUME BooksInv, NEW v \in Workers, task[v].j \in Journals, UNCHANGED order,
         ConcludeRow(v, RowOf(task[v].j)),
         AckIsFinal /\ HasFill(RowOf(task[v].j)) => Final(RowOf(task[v].j))
  PROVE  Verdict(task[v])'
<1> DEFINE row == RowOf(task[v].j)
<1>1. CASE HasFill(row) /\ Become(v, [task[v] EXCEPT !.pc = "fill", !.row = row])
  BY <1>1, FillOnRow DEF Takes, BooksInv, RightsInv
<1>2. CASE FailWith(v, "unknown")
  BY <1>2, QuietOnEnd DEF BooksInv, RightsInv
<1>3. CASE Dead(row) /\ FailWith(v, "cancelled")
  BY <1>3, FailOnDead
<1> QED
  BY <1>1, <1>2, <1>3 DEF ConcludeRow

LEMMA PollVerdict ==
  ASSUME BooksInv, Verdicts, NEW v \in Workers, Poll(v) \/ FinalRead(v)
  PROVE  Verdict(task[v])'
<1> DEFINE row == RowOf(task[v].j)
<1> USE DEF BooksInv, RightsInv
<1>1. task[v].j \in Journals /\ UNCHANGED order
  BY Holds DEF Poll, FinalRead, At, NeedsNoJournal, broker
<1>2. CASE Poll(v)
  <2>1. Seen(row, order[task[v].j])
    BY <1>1, SeenNow DEF Books
  <2>2. row.state \notin Live /\ HasFill(row) => Final(row)
    BY <2>1 DEF Seen, HasFill, Final
  <2>3. CASE row.state \notin Live /\ ConcludeRow(v, row)
    BY <1>1, <2>2, <2>3, ConcludeVerdict
  <2>4. CASE Dead(row) /\ FailWith(v, "rejected")
    BY <1>1, <2>4, FailOnDead
  <2> QED
    BY <1>2, <2>3, <2>4, QuietOnEnd DEF Poll
<1>3. CASE FinalRead(v)
  <2>1. AckIsFinal => Final(order[task[v].j])
    BY <1>3 DEF FinalRead, At, Verdicts, Verdict
  <2>2. AckIsFinal => Final(row)
    BY <2>1 DEF RowOf, Final
  <2> QED
    BY <1>1, <1>3, <2>2, ConcludeVerdict, QuietOnEnd DEF FinalRead
<1> QED
  BY <1>2, <1>3

\* An exit that was never sent is spent once its one worker gives up.
LEMMA VerifyVerdict ==
  ASSUME BooksInv, NEW v \in Workers, VerifyExposure(v)
  PROVE  Verdict(task[v])'
<1> USE DEF BooksInv, RightsInv
<1> DEFINE j == task[v].j
<1>1. HasRight(task[v]) /\ order[j] = NoOrder /\ UNCHANGED order
  BY DEF VerifyExposure, At, HasRight, Trades, Rights, Unsent, broker
<1>2. CASE Goto(v, "verified")
  BY <1>2, QuietOnGoto
<1>3. CASE FailWith(v, "unknown")
  BY <1>3, QuietOnEnd
<1>4. CASE FailWith(v, "rejected")
  <2>1. task'[v].pc = "fail" /\ task'[v].j = j /\ Others(v)
    BY <1>4, FailWithIs DEF Carries
  <2>2. ASSUME NEW x \in Workers, HasRight(task'[x]) PROVE task'[x].j # j
    <3>1. x # v
      BY <2>1, <2>2 DEF HasRight
    <3> QED
      BY <1>1, <2>1, <2>2, <3>1 DEF Others, HasRight, Rights, OneTrader
  <2>3. order'[j] = NoOrder /\ ~IsOpening(j)
    BY <1>1 DEF VerifyExposure, At, Roles, RoleFits
  <2> QED
    BY <2>1, <2>2, <2>3 DEF Verdict, Condemned, Spent, IsOpening, HasRight, Trades
<1> QED
  BY <1>2, <1>3, <1>4 DEF VerifyExposure

\* A cancel that is final when acknowledged leaves an ended order.
LEMMA CancelEnds ==
  ASSUME TypeInv, NEW j \in Journals, CancelAtBroker(j), AckIsFinal
  PROVE  Final(order'[j])
BY DEF CancelAtBroker, Final, TypeInv, TypeOK, Order

LEMMA CancelVerdict ==
  ASSUME TypeInv, NEW v \in Workers, CancelAcked(v) \/ CancelFails(v) \/ ReconcileCancel(v)
  PROVE  Verdict(task[v])'
<1>1. task[v].j \in Journals
  BY Holds DEF CancelAcked, CancelFails, ReconcileCancel, At, NeedsNoJournal
<1>2. CASE CancelAtBroker(task[v].j) /\ (Goto(v, "acked") \/ Goto(v, "reread"))
  <2>1. task'[v].pc \in {"acked", "reread"} /\ task'[v].j = task[v].j
    BY <1>2, GotoIs DEF Carries
  <2>2. AckIsFinal => Final(order'[task[v].j])
    BY <1>1, <1>2, CancelEnds
  <2> QED
    BY <2>1, <2>2 DEF Verdict
<1> QED
  BY <1>2, QuietOnEnd DEF CancelAcked, CancelFails, ReconcileCancel

LEMMA RereadVerdict ==
  ASSUME BooksInv, Verdicts, NEW v \in Workers, Reread(v)
  PROVE  Verdict(task[v])'
<1> USE DEF BooksInv, RightsInv
<1>1. CASE Become(v, [task[v] EXCEPT !.pc = "final", !.row = RowOf(task[v].j)])
  <2>1. task'[v].pc = "final" /\ task'[v].row = RowOf(task[v].j)
    <3>1. Takes(v, "final", RowOf(task[v].j))
      BY <1>1 DEF Takes
    <3> QED
      BY <3>1, TakeRowIs
  <2>2. AckIsFinal => Final(RowOf(task[v].j))
    BY DEF Reread, At, Verdicts, Verdict, RowOf, Final
  <2> QED
    BY <2>1, <2>2 DEF Verdict
<1> QED
  BY <1>1, QuietOnEnd DEF Reread

LEMMA ReconcileRowVerdict ==
  ASSUME BooksInv, Verdicts, NEW v \in Workers, ReconcileRow(v)
  PROVE  /\ Verdict(task[v])'
         /\ Dead(task[v].row) => Dead(order[task[v].j])
<1> USE DEF BooksInv, RightsInv
<1> DEFINE row == task[v].row
<1>1. Seen(row, order[task[v].j]) /\ UNCHANGED order
  BY DEF ReconcileRow, At, Books, RowSeen, UsesRow, broker
<1>2. Dead(row) => Dead(order[task[v].j])
  BY <1>1, DeadIsFinal DEF Seen
<1>3. ASSUME AckIsFinal, HasFill(row) PROVE Final(row)
  BY <1>1, <1>3 DEF ReconcileRow, At, Verdicts, Verdict, Seen, PartlyLive, HasFill, Final
<1>4. CASE Dead(row) /\ Goto(v, "release")
  BY <1>1, <1>2, <1>4, GotoIs DEF Carries, Verdict
<1>5. CASE HasFill(row) /\ Goto(v, "fill")
  <2>1. task'[v].pc = "fill" /\ task'[v].row = row
    BY <1>5, GotoIs DEF Carries
  <2> QED
    BY <1>2, <1>3, <1>5, <2>1 DEF Verdict
<1> QED
  BY <1>2, <1>4, <1>5, QuietOnEnd DEF ReconcileRow

LEMMA StartVerdict ==
  ASSUME TypeInv, NEW v \in Workers, Start(v)
  PROVE  Verdict(task[v])'
<1>1. ASSUME NEW s \in Signals, ClaimEntry(v, s) PROVE Verdict(task[v])'
  <2>1. task'[v] = [Idle EXCEPT !.role = "open", !.pc = "claimed", !.j = Opening(s)]
    BY <1>1, BecomeIs DEF ClaimEntry
  <2> QED
    BY <2>1, QuietHolds DEF Quiet, Idle
<1>2. ASSUME NEW s \in Signals, ClaimExit(v, s) PROVE Verdict(task[v])'
  <2>1. PICK k \in 1..MaxExits :
          Become(v, [Idle EXCEPT !.role = "close", !.pc = "claimed", !.j = <<s, k>>])
    BY <1>2 DEF ClaimExit
  <2>2. task'[v] = [Idle EXCEPT !.role = "close", !.pc = "claimed", !.j = <<s, k>>]
    BY <2>1, BecomeIs
  <2> QED
    BY <2>2, QuietHolds DEF Quiet, Idle
<1>3. ASSUME NEW s \in Signals, StartSweep(v, s) PROVE Verdict(task[v])'
  <2>1. task'[v] = [Idle EXCEPT !.role = "sweep", !.pc = "stale", !.j = Opening(s)]
    BY <1>3, BecomeIs DEF StartSweep
  <2> QED
    BY <2>1, QuietHolds DEF Quiet, Idle
<1>4. ASSUME StartReconcile(v) PROVE Verdict(task[v])'
  <2>1. task'[v] = [Idle EXCEPT !.role = "reconcile", !.pc = "book",
                                !.todo = {j \in Journals : IsPending(j)}]
    BY <1>4, BecomeIs DEF StartReconcile
  <2> QED
    BY <2>1, QuietHolds DEF Quiet, Idle
<1> QED
  BY <1>1, <1>2, <1>3, <1>4 DEF Start

\* Taking the next journal of the list fails only for an unreadable book.
LEMMA TakeNextVerdict ==
  ASSUME TypeInv, NEW v \in Workers, TakeNext(v)
  PROVE  Verdict(task[v])'
<1>1. task[v] \in Task
  BY TaskIs
<1>2. PICK j \in task[v].todo :
        LET left == [task[v] EXCEPT !.todo = @ \ {j}, !.book[j] = NoOrder] IN
          \/ Become(v, [left EXCEPT !.pc = "fail", !.j = j, !.error = "unknown"])
          \/ Become(v, left)
          \/ Become(v, [left EXCEPT !.pc = "row", !.j = j, !.row = task[v].book[j]])
  BY DEF TakeNext
<1> DEFINE left == [task[v] EXCEPT !.todo = @ \ {j}, !.book[j] = NoOrder]
<1>3. left \in [role : {task[v].role}, pc : {"scan"}, j : {task[v].j}, row : {task[v].row},
               error : {task[v].error}, todo : {left.todo}, book : {left.book}]
  BY <1>1 DEF Task, TakeNext, At
<1> HIDE DEF left
<1>4. CASE Become(v, [left EXCEPT !.pc = "fail", !.j = j, !.error = "unknown"])
  <2>1. task'[v] = [left EXCEPT !.pc = "fail", !.j = j, !.error = "unknown"]
    BY <1>4, BecomeIs
  <2> QED
    BY <1>3, <2>1, QuietHolds DEF Quiet
<1>5. CASE Become(v, left)
  <2>1. task'[v] = left
    BY <1>5, BecomeIs
  <2> QED
    BY <1>3, <2>1, QuietHolds DEF Quiet
<1>6. CASE Become(v, [left EXCEPT !.pc = "row", !.j = j, !.row = task[v].book[j]])
  <2>1. task'[v] = [left EXCEPT !.pc = "row", !.j = j, !.row = task[v].book[j]]
    BY <1>6, BecomeIs
  <2> QED
    BY <1>3, <2>1, QuietHolds DEF Quiet
<1> QED
  BY <1>2, <1>4, <1>5, <1>6 DEF left

\* Every worker knows what the step it stands at says.
LEMMA VerdictStep ==
  ASSUME BooksInv, Verdicts, [Next]_vars, NEW v \in Workers
  PROVE  Verdict(task[v])'
<1> USE DEF BooksInv, RightsInv
<1>1. CASE Advance(v)
  <2>1. CASE VerifyExposure(v)
    BY <2>1, VerifyVerdict
  <2>2. CASE Send(v) \/ PlaceFails(v) \/ SaveSubmitted(v)
    BY <2>2, QuietOnGoto, QuietOnEnd DEF Send, PlaceFails, SaveSubmitted
  <2>3. CASE Poll(v) \/ FinalRead(v)
    BY <2>3, PollVerdict
  <2>4. CASE CancelAcked(v) \/ CancelFails(v) \/ ReconcileCancel(v)
    BY <2>4, CancelVerdict
  <2>5. CASE FinalizeOpen(v) \/ FinalizeClose(v)
    <3>1. Become(v, Rest(v)) \/ Goto(v, "haltThenFail") \/ Goto(v, "halt")
      BY <2>5 DEF FinalizeOpen, FinalizeClose
    <3> QED
      BY <3>1, QuietOnGoto, QuietOnEnd
  <2>6. CASE MarkOpenFailure(v) \/ MarkCloseFailure(v) \/ ReconcileFailure(v) \/ Halt(v)
    <3>1. \/ Become(v, Idle) \/ Become(v, Rest(v)) \/ FailWith(v, "unknown")
          \/ Goto(v, "halt")
      BY <2>6 DEF MarkOpenFailure, MarkCloseFailure, ReconcileFailure, Halt
    <3> QED
      BY <3>1, QuietOnGoto, QuietOnEnd
  <2>7. CASE FetchBook(v) \/ FetchBookFails(v)
    BY <2>7, FetchIs, QuietHolds DEF Quiet
  <2>8. CASE TakeNext(v)
    BY <2>8, TakeNextVerdict
  <2>9. CASE Reread(v)
    BY <2>9, RereadVerdict
  <2>10. CASE ReconcileRow(v)
    BY <2>10, ReconcileRowVerdict
  <2>11. CASE ReleaseSignal(v) \/ EndReconcile(v) \/ ExpireStale(v)
    BY <2>11, QuietOnEnd DEF ReleaseSignal, EndReconcile, ExpireStale
  <2> QED
    BY <1>1, <2>1, <2>2, <2>3, <2>4, <2>5, <2>6, <2>7, <2>8, <2>9, <2>10, <2>11 DEF Advance
<1>2. CASE Crash(v)
  BY <1>2, QuietOnEnd DEF Crash
<1> QED
  BY <1>1, <1>2, ActsOrRests, VerdictRests, StartVerdict

\* Only a worker that knows it journals an end without a fill.
LEMMA RejectionIs ==
  ASSUME TypeInv, [Next]_vars, NEW j \in Journals, journal'[j].status \in Rejections
  PROVE  \/ Started(j) /\ journal[j].status = journal'[j].status
         \/ \E w \in Workers :
              /\ task[w].j = j
              /\ \/ task[w].pc = "fail" /\ task[w].error \in Rejections
                 \/ ReconcileRow(w) /\ Dead(task[w].row)
<1> DEFINE Cause == \E w \in Workers :
              /\ task[w].j = j
              /\ \/ task[w].pc = "fail" /\ task[w].error \in Rejections
                 \/ ReconcileRow(w) /\ Dead(task[w].row)
           Same == journal[j].status = journal'[j].status
<1> USE DEF Rejections
<1>0. Same => Started(j)
  BY DEF Started
<1>1. ASSUME UNCHANGED journal PROVE Same
  BY <1>1
<1>2. ASSUME NEW i \in Journals, NEW st, SetStatus(i, st), i # j \/ st \notin Rejections PROVE Same
  BY <1>2 DEF SetStatus, TypeInv, TypeOK, Journal
<1>3. ASSUME NEW i \in Journals, NEW new \in Journal, new.status = "created",
             journal' = [journal EXCEPT ![i] = new]
      PROVE  Same
  BY <1>3 DEF TypeInv, TypeOK, Journal
<1>4. ASSUME NEW i \in Journals, NEW st, SetStatus(i, st), st \in Rejections, ~Same
      PROVE  i = j /\ journal'[j].status = st
  BY <1>4, <1>2 DEF SetStatus, TypeInv, TypeOK, Journal
<1> HIDE DEF Same
<1>5. ASSUME NEW w \in Workers, Start(w) PROVE Same
  <2>1. ASSUME NEW s \in Signals, ClaimEntry(w, s) PROVE Same
    <3>1. [status |-> "created", linked |-> FALSE, qty |-> Lot] \in Journal
      BY ConstantsAssumption DEF Journal, JournalStatus, Pending, Quantity
    <3> QED
      BY <1>3, <2>1, <3>1, JournalsOf DEF ClaimEntry
  <2>2. ASSUME NEW s \in Signals, ClaimExit(w, s) PROVE Same
    <3>1. PICK k \in 1..MaxExits :
            journal' = [journal EXCEPT ![<<s, k>>] =
                 [status |-> "created", linked |-> TRUE, qty |-> position[s].qty]]
      BY <2>2 DEF ClaimExit
    <3>2. [status |-> "created", linked |-> TRUE, qty |-> position[s].qty] \in Journal
      BY DEF Journal, JournalStatus, Pending, TypeInv, TypeOK, Position
    <3> QED
      BY <1>3, <3>1, <3>2, JournalsOf
  <2> QED
    BY <1>1, <1>5, <2>1, <2>2 DEF Start, StartSweep, StartReconcile, database
<1>6. ASSUME NEW w \in Workers, Advance(w) \/ Crash(w) PROVE Same \/ Cause
  <2>1. CASE MarkOpenFailure(w) \/ MarkCloseFailure(w)
    <3>1. task[w].j \in Journals /\ task[w].pc = "fail"
      BY <2>1, Holds DEF MarkOpenFailure, MarkCloseFailure, At, NeedsNoJournal
    <3>2. UNCHANGED journal \/ SetStatus(task[w].j, FailureStatus(task[w].error))
      BY <2>1 DEF MarkOpenFailure, MarkCloseFailure
    <3>3. FailureStatus(task[w].error) \in Rejections => task[w].error \in Rejections
      BY DEF FailureStatus
    <3> QED
      BY <1>1, <1>2, <1>4, <3>1, <3>2, <3>3
  <2>2. CASE ReconcileRow(w)
    <3>1. task[w].j \in Journals
      BY <2>2, Holds DEF ReconcileRow, At, NeedsNoJournal
    <3>2. \/ UNCHANGED journal \/ SetStatus(task[w].j, "submitted")
          \/ Dead(task[w].row) /\ SetStatus(task[w].j, task[w].row.state)
      BY <2>2 DEF ReconcileRow
    <3>3. Dead(task[w].row) => task[w].row.state \in Rejections
      BY DEF Dead
    <3> QED
      BY <1>1, <1>2, <1>4, <2>2, <3>1, <3>2, <3>3
  <2>3. CASE SaveSubmitted(w) \/ FinalizeClose(w) \/ ReconcileFailure(w)
    <3>1. task[w].j \in Journals
      BY <2>3, Holds DEF SaveSubmitted, FinalizeClose, ReconcileFailure, At, NeedsNoJournal
    <3>2. \/ UNCHANGED journal
          \/ \E st \in {"submitted", "unknown", "filled"} : SetStatus(task[w].j, st)
      BY <2>3 DEF SaveSubmitted, FinalizeClose, ReconcileFailure
    <3> QED
      BY <1>1, <1>2, <3>1, <3>2
  <2>4. CASE FinalizeOpen(w)
    <3>1. task[w].j \in Journals
      BY <2>4, Holds DEF FinalizeOpen, NeedsNoJournal
    <3>2. CASE journal' = [journal EXCEPT ![task[w].j].status = "filled", ![task[w].j].linked = TRUE]
      BY <3>1, <3>2 DEF Same, TypeInv, TypeOK, Journal
    <3> QED
      BY <1>1, <1>2, <2>4, <3>1, <3>2 DEF FinalizeOpen
  <2>5. CASE TakeNext(w)
    <3>1. PICK i \in Journals : UNCHANGED journal \/ SetStatus(i, "unknown")
      BY <2>5, TakeNextIs
    <3> QED
      BY <1>1, <1>2, <3>1
  <2> QED
    BY <1>1, <1>6, <2>1, <2>2, <2>3, <2>4, <2>5
       DEF Advance, Crash, VerifyExposure, Send, PlaceFails, Poll, CancelAcked, CancelFails,
           FinalRead, Halt, FetchBook, FetchBookFails, ReconcileCancel, Reread, ReleaseSignal,
           EndReconcile, ExpireStale, database
<1> QED
  BY <1>0, <1>1, <1>5, <1>6
     DEF Same, Next, VetoEntry, ExpireApproved, TripKillSwitch, RearmKillSwitch, BrokerAccepts,
         BrokerFills, BrokerEnds, database, vars

\* A journal that says rejected or cancelled is right: its order ended without
\* a fill, or was never sent.
VerdictsInv == BooksInv /\ Verdicts
LEMMA VerdictsInit == Init => VerdictsInv
<1> SUFFICES ASSUME Init PROVE VerdictsInv
  OBVIOUS
<1>1. \A w \in Workers : task[w] = Idle
  BY DEF Init
<1>2. \A w \in Workers : Verdict(task[w])
  BY <1>1 DEF Verdict, Idle
<1>3. \A j \in Journals : journal[j].status \notin Rejections
  BY DEF Init, NoRow, Rejections
<1> QED
  BY <1>2, <1>3, BooksInit DEF VerdictsInv, Verdicts

LEMMA VerdictsStep == VerdictsInv /\ [Next]_vars => VerdictsInv'
<1> SUFFICES ASSUME BooksInv, Verdicts, [Next]_vars PROVE Verdicts'
  BY BooksInvStep DEF VerdictsInv
<1>1. \A v \in Workers : Verdict(task[v])'
  BY VerdictStep
<1>2. ASSUME NEW j \in Journals, journal'[j].status \in Rejections PROVE Condemned(j)'
  <2>1. CASE Started(j) /\ journal[j].status = journal'[j].status
    BY <1>2, <2>1, CondemnedStays DEF BooksInv, Verdicts
  <2>2. ASSUME NEW w \in Workers, task[w].j = j,
               \/ task[w].pc = "fail" /\ task[w].error \in Rejections
               \/ ReconcileRow(w) /\ Dead(task[w].row)
        PROVE  Condemned(j)'
    <3>1. Started(j)
      BY <2>2, WorksOn DEF BooksInv, ReconcileRow, At
    <3>2. Condemned(j)
      BY <2>2, ReconcileRowVerdict, DeadCondemns DEF Verdicts, Verdict
    <3> QED
      BY <3>1, <3>2, CondemnedStays DEF BooksInv
  <2> QED
    BY <1>2, <2>1, <2>2, RejectionIs DEF BooksInv, RightsInv
<1> QED
  BY <1>1, <1>2 DEF Verdicts

\* A journal marked REJECTED or CANCELLED, by its poller or by the reconciler,
\* belongs to an order that ended without a fill or was never sent.
THEOREM VerdictsInvariance == Spec => []VerdictsInv
BY VerdictsInit, VerdictsStep, PTL DEF Spec

=============================================================================
