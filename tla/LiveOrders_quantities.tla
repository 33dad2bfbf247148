----------------------- MODULE LiveOrders_quantities -----------------------
(***************************************************************************)
(* The last two layers of the invariant of LiveOrders_proofs, and what     *)
(* they give: a dropped signal has nothing at the broker, an entry is      *)
(* never reversed, a resolved journal matches the broker, the executor     *)
(* implements the abstract SignalLedger, and the broker never carries more *)
(* positions than the limit.                                               *)
(***************************************************************************)
EXTENDS LiveOrders_proofs, FiniteSetTheorems

-----------------------------------------------------------------------------
(* Offers *)

\* A signal is offered until its entry is journalled, and dropped only when
\* there is no entry or the entry ended unfilled.
Dropped == {"rejected", "expired"}
Offer(s) ==
  /\ signal[s] = "approved" => ~Started(Opening(s))
  /\ signal[s] \in Dropped /\ Started(Opening(s)) => Dead(order[Opening(s)])
SweepsUnclaimed == \A w \in Workers : task[w].pc = "stale" => ~Started(task[w].j)
Offers == (\A s \in Signals : Offer(s)) /\ SweepsUnclaimed

\* The one opening journal of a signal.
LEMMA OpeningIs ==
  ASSUME NEW j \in Journals, IsOpening(j)
  PROVE  j = Opening(SignalOf(j))
BY DEF Journals, IsOpening, Opening, SignalOf

LEMMA SignalOfOpening ==
  ASSUME NEW s \in Signals
  PROVE  SignalOf(Opening(s)) = s /\ IsOpening(Opening(s)) /\ Opening(s) \in Journals
BY JournalsOf DEF Opening, SignalOf, IsOpening

\* Only a claim creates a journal.
LEMMA NewJournalIs ==
  ASSUME RightsInv, [Next]_vars, NEW j \in Journals, ~Started(j), Started(j)'
  PROVE  \/ \E w \in Workers, s \in Signals : ClaimEntry(w, s) /\ j = Opening(s)
         \/ \E w \in Workers, s \in Signals, k \in 1..MaxExits :
              /\ ClaimExit(w, s) /\ j = <<s, k>>
              /\ journal'[j] = [status |-> "created", linked |-> TRUE, qty |-> position[s].qty]
<1> USE DEF RightsInv
<1>1. ASSUME UNCHANGED journal PROVE FALSE
  BY <1>1 DEF Started
<1>2. ASSUME NEW i \in Journals, Started(i), NEW new, journal' = [journal EXCEPT ![i] = new]
      PROVE  FALSE
  BY <1>2 DEF Started, TypeInv, TypeOK
<1>3. ASSUME NEW i \in Journals, Started(i), NEW st, SetStatus(i, st) PROVE FALSE
  BY <1>3 DEF SetStatus, Started, TypeInv, TypeOK
<1>4. ASSUME NEW w \in Workers, Advance(w) PROVE FALSE
  <2>1. CASE task[w].pc \notin {"idle", "stale", "book", "scan"}
    <3>1. task[w].j \in Journals /\ Started(task[w].j)
      BY <2>1, WorksOn
    <3>2. CASE journal' = [journal EXCEPT ![task[w].j].status = "filled", ![task[w].j].linked = TRUE]
      BY <3>1, <3>2 DEF Started, TypeInv, TypeOK
    <3>3. \/ UNCHANGED journal \/ \E st : SetStatus(task[w].j, st)
          \/ journal' = [journal EXCEPT ![task[w].j].status = "filled", ![task[w].j].linked = TRUE]
      BY <1>4, <2>1
         DEF Advance, At, SaveSubmitted, FinalizeOpen, FinalizeClose, MarkOpenFailure,
             MarkCloseFailure, ReconcileRow, ReconcileFailure, TakeNext, VerifyExposure, Send,
             PlaceFails, Poll, CancelAcked, CancelFails, FinalRead, Halt, FetchBook,
             FetchBookFails, ReconcileCancel, Reread, ReleaseSignal, EndReconcile, ExpireStale,
             database
    <3> QED
      BY <1>1, <1>3, <3>1, <3>2, <3>3
  <2>2. CASE TakeNext(w)
    <3>1. PICK i \in task[w].todo : UNCHANGED journal \/ SetStatus(i, "unknown")
      BY <2>2 DEF TakeNext
    <3>2. i \in Journals /\ Started(i)
      BY OnJournalHolds DEF Rights, Journalled
    <3> QED
      BY <1>1, <1>3, <3>1, <3>2
  <2>3. CASE task[w].pc \in {"idle", "stale", "book", "scan"} /\ ~TakeNext(w)
    BY <1>1, <1>4, <2>3
       DEF Advance, At, ReadyToPlace, SaveSubmitted, FinalizeOpen, FinalizeClose,
           MarkOpenFailure, MarkCloseFailure, ReconcileRow, ReconcileFailure, VerifyExposure,
           Send, PlaceFails, Poll, CancelAcked, CancelFails, FinalRead, Halt, FetchBook,
           FetchBookFails, ReconcileCancel, Reread, ReleaseSignal, EndReconcile, ExpireStale,
           database
  <2> QED
    BY <2>1, <2>2, <2>3
<1>5. ASSUME NEW w \in Workers, NEW s \in Signals, ClaimEntry(w, s) PROVE j = Opening(s)
  BY <1>5, JournalsOf DEF ClaimEntry, Started, TypeInv, TypeOK
<1>6. ASSUME NEW w \in Workers, NEW s \in Signals, ClaimExit(w, s)
      PROVE  \E k \in 1..MaxExits :
               /\ j = <<s, k>>
               /\ journal'[j] = [status |-> "created", linked |-> TRUE, qty |-> position[s].qty]
  <2>1. PICK k \in 1..MaxExits :
          journal' = [journal EXCEPT ![<<s, k>>] =
            [status |-> "created", linked |-> TRUE, qty |-> position[s].qty]]
    BY <1>6 DEF ClaimExit
  <2>2. j = <<s, k>>
    BY <2>1, JournalsOf DEF Started, TypeInv, TypeOK
  <2> QED
    BY <2>1, <2>2 DEF TypeInv, TypeOK
<1>7. ASSUME NEW w \in Workers, Start(w) PROVE \E s \in Signals : ClaimEntry(w, s) \/ ClaimExit(w, s)
  BY <1>1, <1>7 DEF Start, StartSweep, StartReconcile, database
<1> QED
  BY <1>1, <1>4, <1>5, <1>6, <1>7
     DEF Next, Crash, VetoEntry, ExpireApproved, TripKillSwitch, RearmKillSwitch, BrokerAccepts,
         BrokerFills, BrokerEnds, database, vars

\* A signal is dropped by a veto or an expiry while it is offered, by the expiry
\* sweep, or for an entry that is known to be dead.
LEMMA SignalStep ==
  ASSUME RightsInv, [Next]_vars, NEW s \in Signals, signal'[s] # signal[s]
  PROVE  \/ signal[s] = "approved" /\ signal'[s] \in Dropped /\ UNCHANGED <<journal, order, task>>
         \/ /\ signal'[s] \in {"executing", "executed"}
            /\ Started(Opening(s)) \/ \E w \in Workers : ClaimEntry(w, s)
            /\ signal'[s] = "executed" => position'[s].state # "none"
         \/ \E w \in Workers :
              /\ SignalOf(task[w].j) = s /\ signal'[s] \in Dropped /\ UNCHANGED order
              /\ \/ ExpireStale(w) \/ ReleaseSignal(w)
                 \/ MarkOpenFailure(w) /\ task[w].error \in Rejections
<1> DEFINE Goal ==
      \/ signal[s] = "approved" /\ signal'[s] \in Dropped /\ UNCHANGED <<journal, order, task>>
      \/ /\ signal'[s] \in {"executing", "executed"}
         /\ Started(Opening(s)) \/ \E w \in Workers : ClaimEntry(w, s)
         /\ signal'[s] = "executed" => position'[s].state # "none"
      \/ \E w \in Workers :
           /\ SignalOf(task[w].j) = s /\ signal'[s] \in Dropped /\ UNCHANGED order
           /\ \/ ExpireStale(w) \/ ReleaseSignal(w)
              \/ MarkOpenFailure(w) /\ task[w].error \in Rejections
<1> USE DEF RightsInv
<1>1. ASSUME UNCHANGED signal PROVE FALSE
  BY <1>1
<1>2. ASSUME NEW w \in Workers, task[w].pc \in {"fill", "fail"}, IsOpening(task[w].j),
             SignalOf(task[w].j) = s
      PROVE  Started(Opening(s))
  BY <1>2, WorksOn, OpeningIs
<1>3. ASSUME (\E r \in Signals : VetoEntry(r)) \/ ExpireApproved PROVE Goal
  BY <1>3 DEF VetoEntry, ExpireApproved, Dropped, broker, TypeInv, TypeOK
<1>4. ASSUME NEW w \in Workers, ExpireStale(w) PROVE Goal
  BY <1>4 DEF ExpireStale, Dropped, broker, TypeInv, TypeOK
<1>5. ASSUME NEW w \in Workers, ReleaseSignal(w) PROVE Goal
  BY <1>5 DEF ReleaseSignal, Dropped, broker, TypeInv, TypeOK
<1>6. ASSUME NEW w \in Workers, MarkOpenFailure(w) PROVE Goal
  <2>1. /\ signal' = [signal EXCEPT ![SignalOf(task[w].j)] = FailedSignal(FailureStatus(task[w].error))]
        /\ UNCHANGED order
    BY <1>1, <1>6 DEF MarkOpenFailure, broker
  <2>2. SignalOf(task[w].j) = s /\ signal'[s] = FailedSignal(FailureStatus(task[w].error))
    BY <2>1 DEF TypeInv, TypeOK
  <2>3. Started(Opening(s))
    BY <1>2, <1>6, <2>2 DEF MarkOpenFailure, At, Roles, RoleFits
  <2> QED
    BY <1>6, <2>1, <2>2, <2>3 DEF FailedSignal, FailureStatus, Rejections, Dropped
<1>7. ASSUME NEW w \in Workers, FinalizeOpen(w) PROVE Goal
  <2>1. SignalOf(task[w].j) \in Signals
    BY <1>7, Holds DEF FinalizeOpen, NeedsNoJournal
  <2>2. signal' = [signal EXCEPT ![SignalOf(task[w].j)] = "executed"]
    BY <1>1, <1>7 DEF FinalizeOpen
  <2>3. SignalOf(task[w].j) = s /\ signal'[s] = "executed"
    BY <2>1, <2>2 DEF TypeInv, TypeOK
  <2>4. position'[s].state # "none"
    BY <1>1, <1>7, <2>1, <2>3 DEF FinalizeOpen, TypeInv, TypeOK
  <2> QED
    BY <1>2, <1>7, <2>3, <2>4 DEF FinalizeOpen
<1>8. ASSUME NEW w \in Workers, Start(w) PROVE Goal
  <2>1. ASSUME NEW r \in Signals, ClaimEntry(w, r) PROVE r = s /\ signal'[s] = "executing"
    BY <2>1 DEF ClaimEntry, TypeInv, TypeOK
  <2> QED
    BY <1>1, <1>8, <2>1 DEF Start, ClaimExit, StartSweep, StartReconcile, database
<1> HIDE DEF Goal
<1>9. ASSUME NEW w \in Workers, Advance(w) \/ Crash(w) PROVE Goal
  BY <1>1, <1>4, <1>5, <1>6, <1>7, <1>9
     DEF Advance, Crash, SaveSubmitted, FinalizeClose, MarkCloseFailure, ReconcileRow,
         ReconcileFailure, TakeNext, VerifyExposure, Send, PlaceFails, Poll, CancelAcked,
         CancelFails, FinalRead, Halt, FetchBook, FetchBookFails, ReconcileCancel, Reread,
         EndReconcile, database
<1>10. Goal
  BY <1>1, <1>3, <1>8, <1>9
     DEF Next, TripKillSwitch, RearmKillSwitch, BrokerAccepts, BrokerFills, BrokerEnds,
         database, vars
<1> QED
  BY <1>10 DEF Goal

LEMMA OfferStep ==
  ASSUME VerdictsInv, Offers, [Next]_vars, NEW s \in Signals
  PROVE  Offer(s)'
<1> DEFINE o == Opening(s)
<1> USE DEF VerdictsInv, BooksInv, RightsInv
<1>0. o \in Journals /\ SignalOf(o) = s /\ IsOpening(o) /\ Offer(s)
  BY SignalOfOpening DEF Offers
<1>1. ASSUME ~Started(o), Started(o)' PROVE signal'[s] = "executing"
  <2>1. ASSUME NEW w \in Workers, NEW r \in Signals, ClaimEntry(w, r), o = Opening(r)
        PROVE  signal'[s] = "executing"
    BY <2>1 DEF ClaimEntry, Opening, TypeInv, TypeOK
  <2>2. ASSUME NEW r \in Signals, NEW k \in 1..MaxExits, o = <<r, k>> PROVE FALSE
    BY <2>2, ConstantsAssumption DEF Opening
  <2> QED
    BY <1>0, <1>1, <2>1, <2>2, NewJournalIs
<1>2. ASSUME Dead(order[o]) PROVE Dead(order'[o])
  BY <1>0, <1>2, FinalStays, DeadIsFinal
<1>3. CASE signal'[s] = signal[s]
  BY <1>0, <1>1, <1>2, <1>3 DEF Offer, Dropped, Started, Opening
<1>4. CASE signal[s] = "approved" /\ signal'[s] \in Dropped /\ UNCHANGED <<journal, order, task>>
  BY <1>0, <1>4 DEF Offer, Dropped, Started, Opening
<1>5. ASSUME signal'[s] \in {"executing", "executed"} PROVE Offer(s)'
  BY <1>5 DEF Offer, Dropped
<1>6. ASSUME NEW w \in Workers, SignalOf(task[w].j) = s, signal'[s] \in Dropped, UNCHANGED order,
             \/ ExpireStale(w) \/ ReleaseSignal(w)
             \/ MarkOpenFailure(w) /\ task[w].error \in Rejections
      PROVE  Offer(s)'
  <2>1. task[w].j = o
    <3>1. task[w].j \in Journals
      BY <1>6, Holds DEF ExpireStale, ReleaseSignal, MarkOpenFailure, At, NeedsNoJournal
    <3>2. IsOpening(task[w].j)
      BY <1>6 DEF ExpireStale, ReleaseSignal, MarkOpenFailure, At, Roles, RoleFits
    <3> QED
      BY <1>6, <3>1, <3>2, OpeningIs
  <2>2. CASE ExpireStale(w)
    <3>1. ~Started(o) /\ UNCHANGED journal
      BY <2>1, <2>2 DEF ExpireStale, At, Offers, SweepsUnclaimed
    <3> QED
      BY <1>6, <3>1 DEF Offer, Dropped, Started, Opening
  <2>3. CASE ReleaseSignal(w)
    <3>1. Dead(order[o])
      BY <2>1, <2>3 DEF ReleaseSignal, At, Verdicts, Verdict
    <3> QED
      BY <1>6, <3>1 DEF Offer, Dropped, Opening
  <2>4. CASE MarkOpenFailure(w) /\ task[w].error \in Rejections
    <3>1. Condemned(o)
      BY <2>1, <2>4 DEF MarkOpenFailure, At, Verdicts, Verdict
    <3>2. Dead(order[o])
      BY <1>0, <3>1 DEF Condemned
    <3> QED
      BY <1>6, <3>2 DEF Offer, Dropped, Opening
  <2> QED
    BY <1>6, <2>2, <2>3, <2>4
<1> QED
  BY <1>3, <1>4, <1>5, <1>6, SignalStep

\* While the claim waits for a sweep that has read the signal, no sweep expires a
\* signal that was claimed since.
LEMMA SweepsStep ==
  ASSUME ~ClaimsSpanSweeps, RightsInv, Offers, [Next]_vars
  PROVE  SweepsUnclaimed'
<1> USE DEF RightsInv
<1> SUFFICES ASSUME NEW v \in Workers, task'[v].pc = "stale"
             PROVE  ~Started(task[v].j)'
  BY DEF SweepsUnclaimed
<1>1. CASE task'[v] = task[v]
  <2>1. task[v].j \in Journals /\ ~Started(task[v].j) /\ task[v].pc = "stale"
    BY <1>1, Holds DEF Offers, SweepsUnclaimed, NeedsNoJournal
  <2>2. PICK j \in Journals : j = task[v].j
    BY <2>1
  <2>3. ASSUME Started(j)' PROVE FALSE
    <3>1. ASSUME NEW w \in Workers, NEW s \in Signals, ClaimEntry(w, s), j = Opening(s) PROVE FALSE
      BY <2>1, <2>2, <3>1 DEF ClaimEntry, SweepHolds
    <3>2. IsOpening(j)
      BY <2>1, <2>2 DEF Roles, RoleFits
    <3>3. ASSUME NEW s \in Signals, NEW k \in 1..MaxExits, j = <<s, k>> PROVE FALSE
      BY <3>2, <3>3, ConstantsAssumption DEF IsOpening
    <3> QED
      BY <2>1, <2>2, <2>3, <3>1, <3>3, NewJournalIs
  <2> QED
    BY <1>1, <2>2, <2>3 DEF Started
<1>2. CASE Sweeps(v)
  <2>1. PICK s \in Signals : signal[s] = "approved" /\ task'[v].j = Opening(s)
    BY <1>2 DEF Sweeps
  <2>2. ~Started(Opening(s)) /\ UNCHANGED journal
    BY <1>2, <2>1 DEF Sweeps, Offers, Offer
  <2> QED
    BY <2>1, <2>2 DEF Started
<1>3. CASE Stays(v) \/ Scans(v) \/ Picks(v) \/ task'[v] = Idle \/ Lists(v)
             \/ \E j \in Journals : Claims(v, j)
  BY <1>3 DEF Stays, Scans, Picks, Idle, Lists, Claims
<1> QED
  BY <1>1, <1>2, <1>3, AllMove DEF Moves

OffersInv == VerdictsInv /\ Offers
LEMMA OffersInit == Init => OffersInv
<1> SUFFICES ASSUME Init PROVE Offers
  BY VerdictsInit DEF OffersInv
<1>1. \A s \in Signals : Opening(s) \in Journals /\ signal[s] = "approved"
  BY SignalOfOpening DEF Init
<1>2. \A j \in Journals : ~Started(j)
  BY DEF Init, Started, NoRow
<1>3. \A w \in Workers : task[w].pc = "idle"
  BY DEF Init, Idle
<1> QED
  BY <1>1, <1>2, <1>3 DEF Offers, Offer, SweepsUnclaimed, Dropped

LEMMA OffersStep ==
  ASSUME ~ClaimsSpanSweeps
  PROVE  OffersInv /\ [Next]_vars => OffersInv'
<1> SUFFICES ASSUME VerdictsInv, Offers, [Next]_vars PROVE Offers'
  BY VerdictsStep DEF OffersInv
<1>1. \A s \in Signals : Offer(s)'
  BY OfferStep
<1> QED
  BY <1>1, SweepsStep DEF Offers, VerdictsInv, BooksInv

LEMMA OffersGive == OffersInv => DroppedSignalHasNoOrder
<1> SUFFICES ASSUME OffersInv, NEW s \in Signals, signal[s] \in {"rejected", "expired"}
             PROVE  ~InFlight(Opening(s)) /\ order[Opening(s)].filled = 0
  BY DEF DroppedSignalHasNoOrder
<1>1. Opening(s) \in Journals /\ Offer(s)
  BY SignalOfOpening DEF OffersInv, Offers
<1>2. Dead(order[Opening(s)]) \/ order[Opening(s)] = NoOrder
  BY <1>1 DEF Offer, Dropped, OffersInv, VerdictsInv, BooksInv, RightsInv, Rights
<1> QED
  BY <1>2 DEF Dead, NoOrder, InFlight, Live

\* No signal that reads REJECTED or EXPIRED has a working or filled order at the
\* broker, whatever failed, timed out or crashed on the way; a claim must not
\* span a whole read of the expiry sweep, which saves what it read before it.
THEOREM DroppedIsDropped ==
  ASSUME ~ClaimsSpanSweeps
  PROVE  Spec => []DroppedSignalHasNoOrder
BY OffersInit, OffersStep, OffersGive, PTL DEF Spec

-----------------------------------------------------------------------------
(* Quantities *)

\* A position is what its entry bought, and all of it when a cancel is final; its
\* exits are ordered for its whole quantity, ...
Bought(s) == position[s].state # "none" =>
  /\ 0 < position[s].qty /\ position[s].qty <= order[Opening(s)].filled
  /\ AckIsFinal => /\ Final(order[Opening(s)])
                   /\ position[s].qty = order[Opening(s)].filled
NoneIsUnfilled(s) == position[s].state = "none" => journal[Opening(s)].status # "filled"
ExitFits(s, j) == Started(j) =>
  /\ journal[j].linked /\ position[s].state # "none" /\ journal[j].qty = position[s].qty
  /\ journal[j].status = "filled" => position[s].state = "closed"
Positions == \A s \in Signals :
  Bought(s) /\ NoneIsUnfilled(s) /\ \A j \in Exits(s) : ExitFits(s, j)

\* ... at most one of them can still sell, and what it sold is what the broker
\* has less than the entry bought.
OneLiveExit(s) == \A j, k \in Exits(s) : j = k \/ Spent(j) \/ Spent(k)
NetIs(s) ==
  /\ (\A j \in Exits(s) : order[j].filled = 0) => net[s] = order[Opening(s)].filled
  /\ \A j \in Exits(s) : order[j].filled > 0 => net[s] = order[Opening(s)].filled - order[j].filled
ClosedBySale(s) == position[s].state = "closed" =>
  \E j \in Exits(s) : order[j].filled = position[s].qty
Sales == \A s \in Signals : OneLiveExit(s) /\ NetIs(s) /\ ClosedBySale(s)

\* The exit journals of a signal.
LEMMA ExitsOf ==
  ASSUME NEW s \in Signals, NEW j \in Exits(s)
  PROVE  /\ j \in Journals /\ SignalOf(j) = s /\ ~IsOpening(j) /\ j # Opening(s)
         /\ \E k \in 1..MaxExits : j = <<s, k>>
BY ConstantsAssumption DEF Exits, Journals, SignalOf, IsOpening, Opening

LEMMA ExitIs ==
  ASSUME NEW j \in Journals, ~IsOpening(j)
  PROVE  j \in Exits(SignalOf(j))
BY ConstantsAssumption DEF Exits, Journals, SignalOf, IsOpening

\* Positions and their numbers.
LEMMA PositionTypes ==
  ASSUME TypeInv, NEW s \in Signals
  PROVE  /\ position[s].state \in {"none", "open", "closed"} /\ position[s].qty \in Nat
         /\ net[s] \in Int
BY ConstantsAssumption DEF TypeInv, TypeOK, Position, Quantity

\* A position opens with the fill that is applied, and closes when a fill of its
\* whole quantity is applied to an exit.
Opens(w, s) ==
  /\ FinalizeOpen(w) /\ task[w].j = Opening(s) /\ position[s].state = "none"
  /\ position'[s].state = "open" /\ position'[s].qty = task[w].row.filled
Closes(w, s) ==
  /\ FinalizeClose(w) /\ task[w].j \in Exits(s)
  /\ position[s].state # "closed" /\ task[w].row.filled = position[s].qty
  /\ position'[s].state = "closed" /\ position'[s].qty = position[s].qty
  /\ journal'[task[w].j].status = "filled"
LEMMA PositionStep ==
  ASSUME RightsInv, [Next]_vars, NEW s \in Signals
  PROVE  position'[s] = position[s] \/ \E w \in Workers : Opens(w, s) \/ Closes(w, s)
<1> DEFINE Goal == position'[s] = position[s] \/ \E w \in Workers : Opens(w, s) \/ Closes(w, s)
<1> USE DEF RightsInv
<1>1. ASSUME UNCHANGED position PROVE Goal
  BY <1>1
<1>2. ASSUME NEW w \in Workers, FinalizeOpen(w) PROVE Goal
  <2>1. task[w].j \in Journals /\ IsOpening(task[w].j) /\ SignalOf(task[w].j) \in Signals
    BY <1>2, Holds DEF FinalizeOpen, NeedsNoJournal
  <2>2. task[w].j = Opening(SignalOf(task[w].j))
    BY <2>1, OpeningIs
  <2>3. UNCHANGED position \/
          /\ position[SignalOf(task[w].j)].state = "none"
          /\ position' = [position EXCEPT ![SignalOf(task[w].j)] =
                            [state |-> "open", qty |-> task[w].row.filled]]
    BY <1>2 DEF FinalizeOpen
  <2> QED
    BY <1>1, <1>2, <2>1, <2>2, <2>3 DEF Opens, TypeInv, TypeOK
<1>3. ASSUME NEW w \in Workers, FinalizeClose(w) PROVE Goal
  <2>1. task[w].j \in Exits(SignalOf(task[w].j)) /\ task[w].j \in Journals
    BY <1>3, Holds, ExitIs DEF FinalizeClose, NeedsNoJournal
  <2>2. UNCHANGED position \/
          /\ ~CloseConflict(w, SignalOf(task[w].j))
          /\ position' = [position EXCEPT ![SignalOf(task[w].j)].state = "closed"]
          /\ SetStatus(task[w].j, "filled")
    BY <1>3 DEF FinalizeClose
  <2>3. SetStatus(task[w].j, "filled") => journal'[task[w].j].status = "filled"
    BY <2>1 DEF SetStatus, TypeInv, TypeOK, Journal
  <2>4. CASE SignalOf(task[w].j) = s
    BY <1>1, <1>3, <2>1, <2>2, <2>3, <2>4 DEF Closes, CloseConflict, TypeInv, TypeOK, Position
  <2>5. CASE SignalOf(task[w].j) # s
    BY <2>2, <2>5 DEF TypeInv, TypeOK
  <2> QED
    BY <2>4, <2>5
<1> HIDE DEF Goal
<1>4. ASSUME NEW w \in Workers, Start(w) PROVE Goal
  BY <1>1, <1>4 DEF Start, ClaimEntry, ClaimExit, StartSweep, StartReconcile, database
<1>5. ASSUME NEW w \in Workers, Advance(w) \/ Crash(w) PROVE Goal
  BY <1>1, <1>2, <1>3, <1>5
     DEF Advance, Crash, SaveSubmitted, MarkOpenFailure, MarkCloseFailure, ReconcileRow,
         ReconcileFailure, TakeNext, VerifyExposure, Send, PlaceFails, Poll, CancelAcked,
         CancelFails, FinalRead, Halt, FetchBook, FetchBookFails, ReconcileCancel, Reread,
         ReleaseSignal, EndReconcile, ExpireStale, database
<1>6. Goal
  BY <1>1, <1>4, <1>5
     DEF Next, VetoEntry, ExpireApproved, TripKillSwitch, RearmKillSwitch, BrokerAccepts,
         BrokerFills, BrokerEnds, database, vars
<1> QED
  BY <1>6 DEF Goal

\* Applying an observed fill leaves the broker alone.
LEMMA AppliesOnly ==
  ASSUME NEW w \in Workers, FinalizeOpen(w) \/ FinalizeClose(w)
  PROVE  UNCHANGED <<order, net>> /\ task[w].pc = "fill"
BY DEF FinalizeOpen, FinalizeClose, broker

\* A journal is filled by the code that applies the fill, with its position.
LEMMA FilledIs ==
  ASSUME RightsInv, [Next]_vars, NEW j \in Journals,
         journal[j].status # "filled", journal'[j].status = "filled"
  PROVE  IF IsOpening(j) THEN position'[SignalOf(j)].state # "none"
                         ELSE position'[SignalOf(j)].state = "closed"
<1> DEFINE Goal == IF IsOpening(j) THEN position'[SignalOf(j)].state # "none"
                                   ELSE position'[SignalOf(j)].state = "closed"
<1> USE DEF RightsInv
<1>1. ASSUME UNCHANGED journal PROVE FALSE
  BY <1>1
<1>2. ASSUME NEW i \in Journals, NEW st, SetStatus(i, st), st # "filled" PROVE FALSE
  BY <1>2 DEF SetStatus, TypeInv, TypeOK, Journal
<1>3. ASSUME NEW i \in Journals, ~Started(i), NEW new, new.status = "created",
             journal' = [journal EXCEPT ![i] = new]
      PROVE  FALSE
  BY <1>3 DEF TypeInv, TypeOK
<1>4. ASSUME NEW w \in Workers, FinalizeOpen(w) PROVE Goal
  <2>1. task[w].j \in Journals /\ IsOpening(task[w].j) /\ SignalOf(task[w].j) \in Signals
    BY <1>4, Holds DEF FinalizeOpen, NeedsNoJournal
  <2>2. CASE SetStatus(task[w].j, "unknown")
    BY <1>2, <2>1, <2>2
  <2>3. CASE /\ position' = IF position[SignalOf(task[w].j)].state = "none"
                            THEN [position EXCEPT ![SignalOf(task[w].j)] =
                                    [state |-> "open", qty |-> task[w].row.filled]]
                            ELSE position
             /\ journal' = [journal EXCEPT ![task[w].j].status = "filled", ![task[w].j].linked = TRUE]
    <3>1. task[w].j = j
      BY <2>1, <2>3 DEF TypeInv, TypeOK, Journal
    <3>2. position'[SignalOf(j)].state # "none"
      BY <2>1, <2>3, <3>1 DEF TypeInv, TypeOK
    <3> QED
      BY <2>1, <3>1, <3>2
  <2> QED
    BY <1>1, <1>4, <2>2, <2>3 DEF FinalizeOpen
<1>5. ASSUME NEW w \in Workers, FinalizeClose(w) PROVE Goal
  <2>1. task[w].j \in Journals /\ ~IsOpening(task[w].j) /\ SignalOf(task[w].j) \in Signals
    BY <1>5, Holds DEF FinalizeClose, NeedsNoJournal
  <2>2. CASE SetStatus(task[w].j, "unknown")
    BY <1>2, <2>1, <2>2
  <2>3. CASE /\ position' = [position EXCEPT ![SignalOf(task[w].j)].state = "closed"]
             /\ SetStatus(task[w].j, "filled")
    <3>1. task[w].j = j
      BY <2>1, <2>3 DEF SetStatus, TypeInv, TypeOK, Journal
    <3>2. position'[SignalOf(j)].state = "closed"
      BY <2>1, <2>3, <3>1 DEF TypeInv, TypeOK, Position
    <3> QED
      BY <2>1, <3>1, <3>2
  <2> QED
    BY <1>1, <1>5, <2>2, <2>3 DEF FinalizeClose
<1> HIDE DEF Goal
<1>6. ASSUME NEW w \in Workers, Start(w) PROVE FALSE
  <2>1. ASSUME NEW s \in Signals, ClaimEntry(w, s) PROVE FALSE
    BY <1>3, <2>1, JournalsOf DEF ClaimEntry, Started
  <2>2. ASSUME NEW s \in Signals, ClaimExit(w, s) PROVE FALSE
    <3>1. PICK k \in 1..MaxExits :
            /\ journal[<<s, k>>].status = "none"
            /\ journal' = [journal EXCEPT ![<<s, k>>] =
                 [status |-> "created", linked |-> TRUE, qty |-> position[s].qty]]
      BY <2>2 DEF ClaimExit
    <3> QED
      BY <1>3, <3>1, JournalsOf DEF Started
  <2> QED
    BY <1>1, <1>6, <2>1, <2>2 DEF Start, StartSweep, StartReconcile, database
<1>7. ASSUME NEW w \in Workers, Advance(w) \/ Crash(w) PROVE Goal
  <2>1. CASE SaveSubmitted(w) \/ MarkOpenFailure(w) \/ MarkCloseFailure(w)
               \/ ReconcileFailure(w) \/ ReconcileRow(w)
    <3>1. task[w].j \in Journals
      BY <2>1, Holds DEF SaveSubmitted, MarkOpenFailure, MarkCloseFailure, ReconcileRow,
                         ReconcileFailure, At, NeedsNoJournal
    <3>2. \/ UNCHANGED journal \/ SetStatus(task[w].j, "submitted") \/ SetStatus(task[w].j, "unknown")
          \/ SetStatus(task[w].j, FailureStatus(task[w].error))
          \/ Dead(task[w].row) /\ SetStatus(task[w].j, task[w].row.state)
      BY <2>1 DEF SaveSubmitted, MarkOpenFailure, MarkCloseFailure, ReconcileRow, ReconcileFailure
    <3>3. FailureStatus(task[w].error) # "filled" /\ (Dead(task[w].row) => task[w].row.state # "filled")
      BY DEF FailureStatus, Dead
    <3> QED
      BY <1>1, <1>2, <3>1, <3>2, <3>3
  <2>2. CASE TakeNext(w)
    <3>1. PICK i \in Journals : UNCHANGED journal \/ SetStatus(i, "unknown")
      BY <2>2, TakeNextIs
    <3> QED
      BY <1>1, <1>2, <3>1
  <2> QED
    BY <1>1, <1>4, <1>5, <1>7, <2>1, <2>2
       DEF Advance, Crash, VerifyExposure, Send, PlaceFails, Poll, CancelAcked, CancelFails,
           FinalRead, Halt, FetchBook, FetchBookFails, ReconcileCancel, Reread, ReleaseSignal,
           EndReconcile, ExpireStale, database
<1>8. Goal
  BY <1>1, <1>6, <1>7
     DEF Next, VetoEntry, ExpireApproved, TripKillSwitch, RearmKillSwitch, BrokerAccepts,
         BrokerFills, BrokerEnds, database, vars
<1> QED
  BY <1>8 DEF Goal

\* A filled amount never shrinks, and grows only by a fill at the broker.
LEMMA FilledGrows ==
  ASSUME BooksInv, [Next]_vars, NEW j \in Journals
  PROVE  /\ order[j].filled \in Nat /\ order'[j].filled \in Nat
         /\ order'[j].filled >= order[j].filled
         /\ order'[j].filled = order[j].filled \/ BrokerFills(j)
<1>1. order[j].filled \in Nat /\ order'[j].filled \in Nat
  BY OrderTypes, TypeStep, ConstantsAssumption
     DEF BooksInv, RightsInv, TypeInv, TypeOK, Order, Quantity
<1>2. CASE /\ Advances(order[j], order'[j])
           /\ order'[j].filled = order[j].filled \/ BrokerFills(j)
  BY <1>1, <1>2 DEF Advances
<1>3. CASE order[j] = NoOrder /\ order'[j].filled = 0
  BY <1>1, <1>3 DEF NoOrder
<1> QED
  BY <1>1, <1>2, <1>3, OrderMoves DEF BooksInv

\* What a worker that applies a fill knows of it.
LEMMA FillIs ==
  ASSUME VerdictsInv, NEW w \in Workers, task[w].pc = "fill"
  PROVE  /\ task[w].j \in Journals /\ task[w].row.filled \in Nat
         /\ 0 < task[w].row.filled /\ task[w].row.filled <= order[task[w].j].filled
         /\ AckIsFinal => Final(task[w].row) /\ task[w].row = order[task[w].j]
<1> USE DEF VerdictsInv, BooksInv, RightsInv
<1>1. task[w].j \in Journals /\ task[w].row \in Order
  BY Holds, TaskIs DEF NeedsNoJournal, Task
<1>2. task[w].row.filled \in Nat
  BY <1>1, ConstantsAssumption DEF Order, Quantity
<1>3. Seen(task[w].row, order[task[w].j]) /\ HasFill(task[w].row)
      /\ (AckIsFinal => Final(task[w].row))
  BY DEF Books, RowSeen, UsesRow, Verdicts, Verdict
<1>4. task[w].row.state = "complete" => task[w].row.filled > 0
  BY <1>1, <1>3 DEF Seen, Final, Books, OrderReal
<1> QED
  BY <1>1, <1>2, <1>3, <1>4 DEF Seen, HasFill

LEMMA BoughtStep ==
  ASSUME VerdictsInv, Positions, [Next]_vars, NEW s \in Signals
  PROVE  Bought(s)'
<1> USE DEF VerdictsInv, BooksInv, RightsInv
<1> DEFINE o == Opening(s)
<1>0. o \in Journals /\ Bought(s) /\ position[s].qty \in Nat
  BY SignalOfOpening, PositionTypes DEF Positions
<1>1. /\ order[o].filled \in Nat /\ order'[o].filled \in Nat
      /\ order'[o].filled >= order[o].filled
  BY <1>0, FilledGrows
<1>2. CASE position'[s].qty = position[s].qty /\ position[s].state # "none"
  <2>1. Final(order[o]) => order'[o] = order[o]
    BY <1>0, FinalStays
  <2> QED
    BY <1>0, <1>1, <1>2, <2>1 DEF Bought, Opening
<1>3. ASSUME NEW w \in Workers, Opens(w, s) PROVE Bought(s)'
  <2>1. task[w].j = o /\ task[w].pc = "fill" /\ UNCHANGED order /\ position'[s].qty = task[w].row.filled
    BY <1>3, AppliesOnly DEF Opens
  <2> QED
    BY <2>1, FillIs DEF Bought, Opening
<1>4. ASSUME NEW w \in Workers, Closes(w, s) PROVE position[s].state # "none"
  <2>1. task[w].j \in Exits(s) /\ task[w].pc = "fill"
    BY <1>4, AppliesOnly DEF Closes
  <2>2. Started(task[w].j)
    BY <2>1, WorksOn
  <2> QED
    BY <2>1, <2>2 DEF Positions, ExitFits
<1>5. CASE position'[s] = position[s] /\ position[s].state = "none"
  BY <1>5 DEF Bought
<1> QED
  BY <1>2, <1>3, <1>4, <1>5, PositionStep DEF Closes

\* A position keeps its quantity, and does not open again.
LEMMA PositionStays ==
  ASSUME RightsInv, [Next]_vars, NEW s \in Signals, position[s].state # "none"
  PROVE  /\ position'[s].state # "none" /\ position'[s].qty = position[s].qty
         /\ position[s].state = "closed" => position'[s].state = "closed"
BY PositionStep DEF Opens, Closes

LEMMA NoneStep ==
  ASSUME RightsInv, Positions, [Next]_vars, NEW s \in Signals
  PROVE  NoneIsUnfilled(s)'
<1> SUFFICES ASSUME position'[s].state = "none" PROVE journal'[Opening(s)].status # "filled"
  BY DEF NoneIsUnfilled, Opening
<1>1. Opening(s) \in Journals /\ SignalOf(Opening(s)) = s /\ IsOpening(Opening(s))
  BY SignalOfOpening
<1>2. position[s].state = "none"
  BY PositionStays
<1>3. journal[Opening(s)].status # "filled"
  BY <1>2 DEF Positions, NoneIsUnfilled
<1> QED
  BY <1>1, <1>3, FilledIs

\* A new exit journal is the claim of an open position, for its quantity.
LEMMA NewExitIs ==
  ASSUME RightsInv, [Next]_vars, NEW s \in Signals, NEW j \in Exits(s), ~Started(j), Started(j)'
  PROVE  \E w \in Workers :
           /\ ClaimExit(w, s)
           /\ journal'[j] = [status |-> "created", linked |-> TRUE, qty |-> position[s].qty]
<1>0. j \in Journals /\ SignalOf(j) = s /\ ~IsOpening(j)
  BY ExitsOf
<1>1. ASSUME NEW r \in Signals, j = Opening(r) PROVE FALSE
  BY <1>0, <1>1, SignalOfOpening
<1>2. PICK w \in Workers, r \in Signals, k \in 1..MaxExits :
        /\ ClaimExit(w, r) /\ j = <<r, k>>
        /\ journal'[j] = [status |-> "created", linked |-> TRUE, qty |-> position[r].qty]
  BY <1>0, <1>1, NewJournalIs
<1>3. r = s
  BY <1>0, <1>2 DEF SignalOf
<1> QED
  BY <1>2, <1>3

LEMMA ExitFitsStep ==
  ASSUME RightsInv, Positions, [Next]_vars, NEW s \in Signals, NEW j \in Exits(s)
  PROVE  ExitFits(s, j)'
<1> SUFFICES ASSUME Started(j)' PROVE ExitFits(s, j)'
  BY DEF ExitFits
<1>0. j \in Journals /\ SignalOf(j) = s /\ ~IsOpening(j) /\ j # Opening(s)
  BY ExitsOf
<1>1. CASE Started(j)
  <2>1. /\ journal'[j].qty = journal[j].qty
        /\ journal[j].linked => journal'[j].linked
    BY <1>0, <1>1, JournalStays DEF RightsInv
  <2>2. /\ journal[j].linked /\ position[s].state # "none" /\ journal[j].qty = position[s].qty
        /\ journal[j].status = "filled" => position[s].state = "closed"
    BY <1>1 DEF Positions, ExitFits
  <2>3. journal'[j].status = "filled" => position'[s].state = "closed"
    BY <1>0, <2>2, FilledIs, PositionStays
  <2> QED
    BY <2>1, <2>2, <2>3, PositionStays DEF ExitFits
<1>2. CASE ~Started(j)
  <2>1. PICK w \in Workers :
          /\ ClaimExit(w, s)
          /\ journal'[j] = [status |-> "created", linked |-> TRUE, qty |-> position[s].qty]
    BY <1>2, NewExitIs
  <2> QED
    BY <2>1 DEF ClaimExit, ExitFits
<1> QED
  BY <1>1, <1>2

LEMMA PositionsStep ==
  ASSUME VerdictsInv, Positions, [Next]_vars
  PROVE  Positions'
<1>1. ASSUME NEW s \in Signals
      PROVE  Bought(s)' /\ NoneIsUnfilled(s)' /\ \A j \in Exits(s) : ExitFits(s, j)'
  BY BoughtStep, NoneStep, ExitFitsStep DEF VerdictsInv, BooksInv
<1> QED
  BY <1>1 DEF Positions, Exits

\* A spent exit sold nothing.
LEMMA SpentSoldNothing ==
  ASSUME NEW j \in Journals, Spent(j)
  PROVE  order[j].filled = 0 /\ ~BrokerFills(j)
BY DEF Spent, Dead, NoOrder, BrokerFills, Live

\* A new exit is claimed only when all earlier ones are spent.
LEMMA OneLiveExitStep ==
  ASSUME VerdictsInv, Positions, Sales, [Next]_vars, NEW s \in Signals
  PROVE  OneLiveExit(s)'
<1> USE DEF VerdictsInv, BooksInv, RightsInv
<1>0. \A j \in Exits(s) : j \in Journals
  BY ExitsOf
<1>1. ASSUME NEW j \in Exits(s), Started(j) \/ ~Started(j)', Spent(j) PROVE Spent(j)'
  BY <1>0, <1>1, SpentStays
<1>2. ASSUME NEW j \in Exits(s), NEW k \in Exits(s), j # k, ~Started(j), Started(j)'
      PROVE  Spent(k)'
  <2>1. PICK w \in Workers : ClaimExit(w, s)
    BY <1>2, NewExitIs
  <2>2. PICK i \in 1..MaxExits :
          journal' = [journal EXCEPT ![<<s, i>>] =
            [status |-> "created", linked |-> TRUE, qty |-> position[s].qty]]
    BY <2>1 DEF ClaimExit
  <2>3. position[s].state = "open" /\ ~HasUnresolved(s)
    BY <2>1 DEF ClaimExit
  <2>4. CASE Started(k)
    <3>1. ~IsPending(k) /\ journal[k].status # "filled"
      BY <2>3, <2>4 DEF HasUnresolved, Positions, ExitFits
    <3>2. journal[k] \in Journal
      BY <1>0 DEF TypeInv, TypeOK
    <3>3. journal[k].status \in Rejections
      BY <2>4, <3>1, <3>2 DEF Journal, JournalStatus, IsPending, Started, Rejections
    <3>4. Spent(k)
      BY <1>0, <3>3, ExitsOf DEF Verdicts, Condemned
    <3> QED
      BY <2>4, <3>4, <1>1
  <2>5. CASE ~Started(k)
    <3>1. order[k] = NoOrder
      BY <1>0, <2>5 DEF Rights
    <3>2. ASSUME NEW v \in Workers, HasRight(task[v]) PROVE task[v].j # k
      BY <2>5, <3>2 DEF Rights, Journalled, OnJournal, HasRight
    <3>3. Spent(k)
      BY <3>1, <3>2 DEF Spent
    <3>4. ~Started(k)'
      BY <1>0, <1>2, <2>2, <2>5, JournalsOf DEF Started, TypeInv, TypeOK
    <3> QED
      BY <1>1, <3>3, <3>4
  <2> QED
    BY <2>4, <2>5
<1> SUFFICES ASSUME NEW j \in Exits(s), NEW k \in Exits(s), j # k
             PROVE  Spent(j)' \/ Spent(k)'
  BY DEF OneLiveExit, Exits, Spent, HasRight, Trades
<1>3. Spent(j) \/ Spent(k)
  BY DEF Sales, OneLiveExit
<1> QED
  BY <1>1, <1>2, <1>3

\* Only a fill of one of its orders moves the broker's net quantity of a signal.
LEMMA NetStep ==
  ASSUME BooksInv, [Next]_vars, NEW s \in Signals
  PROVE  \/ /\ net'[s] = net[s]
            /\ \A j \in Journals : SignalOf(j) = s => order'[j].filled = order[j].filled
         \/ \E j \in Journals :
              /\ SignalOf(j) = s /\ BrokerFills(j) /\ order'[j].filled = order[j].filled + 1
              /\ net'[s] = IF IsOpening(j) THEN net[s] + 1 ELSE net[s] - 1
              /\ \A i \in Journals : i # j => order'[i].filled = order[i].filled
<1> USE DEF BooksInv, RightsInv
<1>1. ASSUME NEW j \in Journals, BrokerFills(j)
      PROVE  /\ order'[j].filled = order[j].filled + 1
             /\ net' = [net EXCEPT ![SignalOf(j)] = IF IsOpening(j) THEN @ + 1 ELSE @ - 1]
             /\ \A i \in Journals : i # j => order'[i].filled = order[i].filled
  BY <1>1 DEF BrokerFills, TypeInv, TypeOK
<1>2. ASSUME ~\E j \in Journals : BrokerFills(j) PROVE UNCHANGED net
  <2>1. ASSUME NEW w \in Workers, Start(w) \/ Crash(w) PROVE UNCHANGED net
    BY <2>1 DEF Start, ClaimEntry, ClaimExit, StartSweep, StartReconcile, Crash, broker
  <2>2. ASSUME NEW w \in Workers, Advance(w) PROVE UNCHANGED net
    BY <2>2
       DEF Advance, VerifyExposure, Send, PlaceFails, SaveSubmitted, Poll, CancelAcked,
           CancelFails, FinalRead, FinalizeOpen, FinalizeClose, MarkOpenFailure,
           MarkCloseFailure, Halt, FetchBook, FetchBookFails, TakeNext, ReconcileCancel, Reread,
           ReconcileRow, ReleaseSignal, ReconcileFailure, EndReconcile, ExpireStale, broker
  <2> QED
    BY <1>2, <2>1, <2>2
       DEF Next, VetoEntry, ExpireApproved, TripKillSwitch, RearmKillSwitch, BrokerAccepts,
           BrokerEnds, broker, vars
<1>3. CASE ~\E j \in Journals : BrokerFills(j)
  BY <1>2, <1>3, FilledGrows
<1>4. ASSUME NEW j \in Journals, BrokerFills(j), SignalOf(j) = s
      PROVE  net'[s] = IF IsOpening(j) THEN net[s] + 1 ELSE net[s] - 1
  BY <1>1, <1>4 DEF TypeInv, TypeOK
<1>5. ASSUME NEW j \in Journals, BrokerFills(j), SignalOf(j) # s
      PROVE  net'[s] = net[s]
  BY <1>1, <1>5 DEF TypeInv, TypeOK
<1> QED
  BY <1>1, <1>3, <1>4, <1>5

LEMMA NetIsStep ==
  ASSUME BooksInv, Sales, [Next]_vars, NEW s \in Signals
  PROVE  NetIs(s)'
<1> DEFINE o == Opening(s)
<1> USE DEF BooksInv, RightsInv
<1>0. /\ o \in Journals /\ SignalOf(o) = s /\ IsOpening(o) /\ net[s] \in Int
      /\ \A j \in Exits(s) : j \in Journals /\ SignalOf(j) = s /\ ~IsOpening(j) /\ j # o
      /\ \A j \in Journals : order[j].filled \in Nat
  BY SignalOfOpening, ExitsOf, PositionTypes, OrderTypes
<1>1. /\ (\A j \in Exits(s) : order[j].filled = 0) => net[s] = order[o].filled
      /\ \A j \in Exits(s) : order[j].filled > 0 => net[s] = order[o].filled - order[j].filled
  BY DEF Sales, NetIs
<1>2. SUFFICES /\ (\A j \in Exits(s) : order'[j].filled = 0) => net'[s] = order'[o].filled
               /\ \A j \in Exits(s) : order'[j].filled > 0 =>
                    net'[s] = order'[o].filled - order'[j].filled
  BY DEF NetIs, Exits, Opening
<1>3. CASE /\ net'[s] = net[s]
           /\ \A j \in Journals : SignalOf(j) = s => order'[j].filled = order[j].filled
  BY <1>0, <1>1, <1>3
<1>4. ASSUME NEW j \in Journals, SignalOf(j) = s, BrokerFills(j),
             order'[j].filled = order[j].filled + 1,
             net'[s] = IF IsOpening(j) THEN net[s] + 1 ELSE net[s] - 1,
             \A i \in Journals : i # j => order'[i].filled = order[i].filled
      PROVE  /\ (\A i \in Exits(s) : order'[i].filled = 0) => net'[s] = order'[o].filled
             /\ \A i \in Exits(s) : order'[i].filled > 0 =>
                  net'[s] = order'[o].filled - order'[i].filled
  <2>1. CASE IsOpening(j)
    <3>1. j = o
      BY <1>4, <2>1, OpeningIs
    <3>2. \A i \in Exits(s) : order'[i].filled = order[i].filled
      BY <1>0, <1>4, <3>1
    <3> QED
      BY <1>0, <1>1, <1>4, <2>1, <3>1, <3>2
  <2>2. CASE ~IsOpening(j)
    <3>1. j \in Exits(s)
      BY <1>4, <2>2, ExitIs
    <3>2. ~Spent(j)
      BY <1>4, SpentSoldNothing
    <3>3. \A i \in Exits(s) : i # j => order[i].filled = 0 /\ order'[i].filled = 0
      BY <1>0, <1>4, <3>1, <3>2, SpentSoldNothing DEF Sales, OneLiveExit
    <3>4. net[s] = order[o].filled - order[j].filled
      BY <1>0, <1>1, <3>1, <3>3
    <3>5. order'[o].filled = order[o].filled
      BY <1>0, <1>4, <3>1
    <3> QED
      BY <1>0, <1>4, <2>2, <3>1, <3>3, <3>4, <3>5
  <2> QED
    BY <2>1, <2>2
<1> QED
  BY <1>3, <1>4, NetStep

LEMMA ClosedBySaleStep ==
  ASSUME VerdictsInv, Positions, Positions', Sales, [Next]_vars, NEW s \in Signals
  PROVE  ClosedBySale(s)'
<1> USE DEF VerdictsInv, BooksInv, RightsInv
<1> SUFFICES ASSUME position'[s].state = "closed"
             PROVE  \E j \in Exits(s) : order'[j].filled = position'[s].qty
  BY DEF ClosedBySale, Exits
<1>1. ASSUME NEW j \in Exits(s), order[j].filled = position[s].qty, 0 < position[s].qty,
             position'[s].qty = position[s].qty
      PROVE  order'[j].filled = position'[s].qty
  <2>1. j \in Journals /\ order'[j].filled >= order[j].filled /\ order'[j].filled \in Nat
    BY ExitsOf, FilledGrows
  <2>2. order'[j].filled <= journal'[j].qty
    BY <2>1, FilledFits
  <2>3. Started(j)
    <3>1. ~Started(j) => order[j].filled = 0
      BY <2>1 DEF Rights, NoOrder
    <3> QED
      BY <1>1, <3>1, PositionTypes
  <2>4. journal'[j].qty = position'[s].qty
    BY <1>1, <2>1, <2>3, JournalStays DEF Positions, ExitFits
  <2> QED
    BY <1>1, <2>1, <2>2, <2>4, PositionTypes
<1>2. position[s].state # "none" => 0 < position[s].qty
  BY DEF Positions, Bought
<1>3. CASE position'[s] = position[s]
  BY <1>1, <1>2, <1>3 DEF Sales, ClosedBySale
<1>4. ASSUME NEW w \in Workers, Closes(w, s)
      PROVE  \E j \in Exits(s) : order'[j].filled = position'[s].qty
  <2>1. task[w].j \in Exits(s) /\ task[w].pc = "fill" /\ task[w].row.filled = position[s].qty
        /\ UNCHANGED order /\ position'[s].qty = position[s].qty
    BY <1>4, AppliesOnly DEF Closes
  <2>2. task[w].j \in Journals /\ Started(task[w].j)
    BY <2>1, WorksOn
  <2>3. journal[task[w].j].qty = position[s].qty
    BY <2>1, <2>2 DEF Positions, ExitFits
  <2>4. order[task[w].j].filled <= position[s].qty
    BY <2>2, <2>3 DEF Books, OrderReal
  <2>5. position[s].qty <= order[task[w].j].filled
    BY <2>1, FillIs
  <2>6. order[task[w].j].filled = position[s].qty
    BY <2>2, <2>4, <2>5, OrderTypes, PositionTypes
  <2> QED
    BY <2>1, <2>6
<1> QED
  BY <1>3, <1>4, PositionStep DEF Opens

\* Positions hold what was bought, and at most one exit sells it.
QuantitiesInv == VerdictsInv /\ Positions /\ Sales
LEMMA QuantitiesInit == Init => QuantitiesInv
<1> SUFFICES ASSUME Init PROVE Positions /\ Sales
  BY VerdictsInit DEF QuantitiesInv
<1>1. ASSUME NEW s \in Signals
      PROVE  /\ position[s].state = "none" /\ net[s] = 0
             /\ order[Opening(s)] = NoOrder /\ journal[Opening(s)].status = "none"
             /\ \A j \in Exits(s) : order[j] = NoOrder /\ ~Started(j)
  BY SignalOfOpening, ExitsOf DEF Init, NoPosition, NoRow, Started
<1>2. \A w \in Workers : ~HasRight(task[w])
  BY DEF Init, Idle, HasRight, Trades
<1>3. Positions
  BY <1>1 DEF Positions, Bought, NoneIsUnfilled, ExitFits
<1>4. Sales
  BY <1>1, <1>2 DEF Sales, OneLiveExit, NetIs, ClosedBySale, Spent, NoOrder
<1> QED
  BY <1>3, <1>4

LEMMA QuantitiesStep == QuantitiesInv /\ [Next]_vars => QuantitiesInv'
<1> SUFFICES ASSUME VerdictsInv, Positions, Sales, [Next]_vars
             PROVE  VerdictsInv' /\ Positions' /\ Sales'
  BY DEF QuantitiesInv
<1>1. Positions'
  BY PositionsStep
<1>2. ASSUME NEW s \in Signals PROVE OneLiveExit(s)' /\ NetIs(s)' /\ ClosedBySale(s)'
  BY <1>1, OneLiveExitStep, NetIsStep, ClosedBySaleStep DEF VerdictsInv
<1> QED
  BY <1>1, <1>2, VerdictsStep DEF Sales

LEMMA QuantitiesGiveNoReversal == QuantitiesInv => NoReversal
<1> SUFFICES ASSUME QuantitiesInv, NEW s \in Signals PROVE net[s] >= 0
  BY DEF NoReversal
<1> USE DEF QuantitiesInv, VerdictsInv, BooksInv, RightsInv
<1>1. /\ Opening(s) \in Journals /\ order[Opening(s)].filled \in Nat
      /\ \A j \in Exits(s) : j \in Journals /\ order[j].filled \in Nat
  BY SignalOfOpening, ExitsOf, OrderTypes
<1>2. CASE \A j \in Exits(s) : order[j].filled = 0
  BY <1>1, <1>2 DEF Sales, NetIs
<1>3. ASSUME NEW j \in Exits(s), order[j].filled # 0 PROVE net[s] >= 0
  <2>1. net[s] = order[Opening(s)].filled - order[j].filled
    BY <1>1, <1>3 DEF Sales, NetIs
  <2>2. Started(j)
    BY <1>1, <1>3 DEF Rights, NoOrder
  <2>3. order[j].filled <= position[s].qty
    BY <1>1, <2>2 DEF Books, OrderReal, Positions, ExitFits
  <2>4. position[s].qty <= order[Opening(s)].filled
    BY <2>2 DEF Positions, ExitFits, Bought
  <2> QED
    BY <1>1, <2>1, <2>3, <2>4, PositionTypes
<1> QED
  BY <1>2, <1>3

\* No sequence of retries, emergency exits and late fills sells more than the
\* entry bought, even when a cancelled order may still fill.
THEOREM NeverReversed == Spec => []NoReversal
BY QuantitiesInit, QuantitiesStep, QuantitiesGiveNoReversal, PTL DEF Spec

LEMMA QuantitiesGiveMatch ==
  ASSUME AckIsFinal
  PROVE  QuantitiesInv => ResolvedMatchesBroker
<1> SUFFICES ASSUME QuantitiesInv, NEW s \in Signals, \A k \in 0..MaxExits : ~IsPending(<<s, k>>)
             PROVE  net[s] = IF position[s].state = "open" THEN position[s].qty ELSE 0
  BY DEF ResolvedMatchesBroker
<1> DEFINE o == Opening(s)
<1> USE DEF QuantitiesInv, VerdictsInv, BooksInv, RightsInv
<1>0. /\ o \in Journals /\ IsOpening(o) /\ order[o].filled \in Nat /\ ~IsPending(o)
      /\ position[s].qty \in Nat /\ position[s].state \in {"none", "open", "closed"}
  BY SignalOfOpening, OrderTypes, PositionTypes, ConstantsAssumption DEF Opening
<1>1. ASSUME NEW j \in Exits(s)
      PROVE  /\ j \in Journals /\ ~IsOpening(j) /\ order[j].filled \in Nat
             /\ order[j].filled = 0 \/ journal[j].status = "filled"
  <2>1. j \in Journals /\ ~IsOpening(j) /\ order[j].filled \in Nat /\ journal[j] \in Journal
    BY ExitsOf, OrderTypes DEF TypeInv, TypeOK
  <2>2. ~IsPending(j)
    BY ExitsOf, ConstantsAssumption
  <2>3. CASE journal[j].status = "none"
    BY <2>1, <2>3 DEF Rights, Started, NoOrder
  <2>4. CASE journal[j].status \in Rejections
    BY <2>1, <2>4, SpentSoldNothing DEF Verdicts, Condemned
  <2> QED
    BY <2>1, <2>2, <2>3, <2>4 DEF Journal, JournalStatus, IsPending, Rejections
<1>2. CASE position[s].state = "none"
  <2>1. \A j \in Exits(s) : order[j].filled = 0
    BY <1>1, <1>2 DEF Positions, ExitFits, Rights, NoOrder
  <2>2. order[o].filled = 0
    <3>1. journal[o] \in Journal /\ journal[o].status # "filled"
      BY <1>0, <1>2 DEF TypeInv, TypeOK, Positions, NoneIsUnfilled
    <3>2. CASE journal[o].status = "none"
      BY <1>0, <3>2 DEF Rights, Started, NoOrder
    <3>3. CASE journal[o].status \in Rejections
      BY <1>0, <3>3 DEF Verdicts, Condemned, Dead
    <3> QED
      BY <1>0, <3>1, <3>2, <3>3 DEF Journal, JournalStatus, IsPending, Rejections
  <2> QED
    BY <1>2, <2>1, <2>2 DEF Sales, NetIs
<1>3. CASE position[s].state = "open"
  <2>1. \A j \in Exits(s) : order[j].filled = 0
    BY <1>1, <1>3 DEF Positions, ExitFits, Started
  <2> QED
    BY <1>3, <2>1 DEF Sales, NetIs, Positions, Bought
<1>4. CASE position[s].state = "closed"
  <2>1. PICK j \in Exits(s) : order[j].filled = position[s].qty
    BY <1>4 DEF Sales, ClosedBySale
  <2>2. 0 < position[s].qty /\ position[s].qty = order[o].filled
    BY <1>4 DEF Positions, Bought
  <2>3. net[s] = order[o].filled - order[j].filled
    BY <1>0, <2>1, <2>2 DEF Sales, NetIs
  <2> QED
    BY <1>0, <1>4, <2>1, <2>2, <2>3
<1> QED
  BY <1>0, <1>2, <1>3, <1>4

\* When every journal of a signal is resolved, the local position is what the
\* broker holds, if a cancel is final when it is acknowledged.
THEOREM ResolvedIsHeld ==
  ASSUME AckIsFinal
  PROVE  Spec => []ResolvedMatchesBroker
BY QuantitiesInit, QuantitiesStep, QuantitiesGiveMatch, PTL DEF Spec

-----------------------------------------------------------------------------
(***************************************************************************)
(* LiveOrders implements SignalLedger: every step of the executor, of the  *)
(* reconciler, of the broker and every crash enters, drops, buys, sells or *)
(* settles one signal, or changes nothing that SignalLedger shows.  The    *)
(* broker is one whose acknowledged cancel is final, and a claim does not  *)
(* span a whole read of the expiry sweep.                                  *)
(***************************************************************************)

BoughtOf(s) == order[Opening(s)].filled
SoldOf(s) == BoughtOf(s) - net[s]
Trading(s) == Fate(s) = "trading"
LedgerInv == OffersInv /\ QuantitiesInv /\ PnlBookedOnce

\* The facts about one signal that the steps below use.
LEMMA SignalFacts ==
  ASSUME LedgerInv, NEW s \in Signals
  PROVE  /\ Opening(s) \in Journals /\ IsOpening(Opening(s)) /\ SignalOf(Opening(s)) = s
         /\ BoughtOf(s) \in Nat /\ net[s] \in Int /\ position[s].qty \in Nat
         /\ Offer(s) /\ Bought(s) /\ NetIs(s) /\ OneLiveExit(s) /\ ClosedBySale(s)
         /\ \A j \in Exits(s) : /\ j \in Journals /\ SignalOf(j) = s /\ ~IsOpening(j)
                                /\ ExitFits(s, j) /\ order[j].filled \in Nat
         /\ booked[s] = IF position[s].state = "closed" THEN position[s].qty ELSE 0
         /\ ~Started(Opening(s)) => order[Opening(s)] = NoOrder
<1> USE DEF LedgerInv, QuantitiesInv, VerdictsInv, BooksInv, RightsInv
<1>1. /\ Opening(s) \in Journals /\ IsOpening(Opening(s)) /\ SignalOf(Opening(s)) = s
      /\ BoughtOf(s) \in Nat /\ net[s] \in Int /\ position[s].qty \in Nat
  BY SignalOfOpening, OrderTypes, PositionTypes DEF BoughtOf
<1>2. Offer(s) /\ Bought(s) /\ NetIs(s) /\ OneLiveExit(s) /\ ClosedBySale(s)
  BY DEF OffersInv, Offers, Positions, Sales
<1>3. \A j \in Exits(s) : /\ j \in Journals /\ SignalOf(j) = s /\ ~IsOpening(j)
                          /\ ExitFits(s, j) /\ order[j].filled \in Nat
  BY ExitsOf, OrderTypes DEF Positions
<1>4. booked[s] = IF position[s].state = "closed" THEN position[s].qty ELSE 0
  BY DEF PnlBookedOnce
<1>5. ~Started(Opening(s)) => order[Opening(s)] = NoOrder
  BY <1>1 DEF Rights
<1> QED
  BY <1>1, <1>2, <1>3, <1>4, <1>5

\* A signal whose entry was sent and is not dead is being traded, until its
\* position is closed.
LEMMA SentIsTraded ==
  ASSUME LedgerInv, NEW s \in Signals, order[Opening(s)] # NoOrder, ~Dead(order[Opening(s)]),
         position[s].state # "closed"
  PROVE  Fate(s) = "trading"
BY SignalFacts DEF Fate, Offer, Dropped

\* A signal with a position was bought for it.
LEMMA HeldIsBought ==
  ASSUME LedgerInv, NEW s \in Signals, position[s].state # "none"
  PROVE  /\ 0 < BoughtOf(s) /\ position[s].qty <= BoughtOf(s) /\ 0 < position[s].qty
         /\ order[Opening(s)] # NoOrder /\ ~Dead(order[Opening(s)])
BY SignalFacts DEF Bought, BoughtOf, NoOrder, Dead

\* A fill of the entry is Buy.
LEMMA EntryFillIsBuy ==
  ASSUME AckIsFinal, LedgerInv, [Next]_vars, NEW s \in Signals, BrokerFills(Opening(s))
  PROVE  /\ Fate(s) = "trading" /\ Fate(s)' = "trading"
         /\ BoughtOf(s) < Lot /\ SoldOf(s) = 0
         /\ BoughtOf(s)' = BoughtOf(s) + 1 /\ SoldOf(s)' = SoldOf(s)
<1> DEFINE o == Opening(s)
<1> USE DEF LedgerInv, QuantitiesInv, VerdictsInv, BooksInv, RightsInv
<1>1. /\ order[o].state \in Live /\ order[o].filled < journal[o].qty
      /\ UNCHANGED <<signal, position>> /\ o \in Journals /\ IsOpening(o) /\ SignalOf(o) = s
  BY SignalFacts DEF BrokerFills, database
<1>2. order'[o].filled = order[o].filled + 1 /\ net'[s] = net[s] + 1
  BY <1>1 DEF BrokerFills, TypeInv, TypeOK
<1>3. position[s].state = "none"
  <2>1. ~Final(order[o])
    BY <1>1 DEF Live, Final
  <2> QED
    BY <2>1, SignalFacts DEF Bought
<1>4. order[o] # NoOrder /\ ~Dead(order[o])
  BY <1>1 DEF NoOrder, Dead, Live
<1>5. Fate(s) = "trading"
  BY <1>3, <1>4, SentIsTraded
<1>6. Fate(s)' = "trading"
  <2>1. ~Dead(order'[o])
    BY <1>2, SignalFacts DEF Dead, BoughtOf
  <2> QED
    BY <1>1, <1>4, <1>5, <2>1 DEF Fate, Opening
<1>7. \A j \in Exits(s) : order[j].filled = 0
  <2>1. \A j \in Exits(s) : ~Started(j) /\ j \in Journals
    BY <1>3, SignalFacts DEF ExitFits
  <2> QED
    BY <2>1 DEF Rights, NoOrder
<1>8. net[s] = order[o].filled
  BY <1>7, SignalFacts DEF NetIs
<1>9. journal[o].qty \in Nat /\ journal[o].qty <= Lot
  BY <1>1, ConstantsAssumption DEF TypeInv, TypeOK, Journal, Quantity
<1> QED
  BY <1>1, <1>2, <1>5, <1>6, <1>8, <1>9, SignalFacts, ConstantsAssumption DEF BoughtOf, SoldOf, Opening

\* A fill of an exit is Sell.
LEMMA ExitFillIsSell ==
  ASSUME LedgerInv, [Next]_vars, NEW s \in Signals, NEW j \in Exits(s), BrokerFills(j)
  PROVE  /\ Fate(s) = "trading" /\ Fate(s)' = "trading"
         /\ SoldOf(s) < BoughtOf(s)
         /\ BoughtOf(s)' = BoughtOf(s) /\ SoldOf(s)' = SoldOf(s) + 1
<1> DEFINE o == Opening(s)
<1> USE DEF LedgerInv, QuantitiesInv, VerdictsInv, BooksInv, RightsInv
<1>1. /\ order[j].state \in Live /\ order[j].filled < journal[j].qty /\ UNCHANGED <<signal, position>>
      /\ j \in Journals /\ ~IsOpening(j) /\ SignalOf(j) = s /\ o \in Journals /\ o # j
  BY SignalFacts, ExitsOf DEF BrokerFills, database
<1>2. order'[o] = order[o] /\ net'[s] = net[s] - 1
  BY <1>1 DEF BrokerFills, TypeInv, TypeOK
<1>3. order[j] # NoOrder /\ ~Spent(j) /\ Started(j)
  BY <1>1 DEF NoOrder, Spent, Dead, Live, Rights
<1>4. position[s].state # "none" /\ journal[j].qty = position[s].qty
  BY <1>3, SignalFacts DEF ExitFits
<1>5. \A k \in Exits(s) : k # j => order[k].filled = 0
  BY <1>3, SignalFacts, SpentSoldNothing DEF OneLiveExit
<1>6. position[s].state # "closed"
  <2>1. SUFFICES ASSUME position[s].state = "closed" PROVE FALSE
    OBVIOUS
  <2>2. PICK k \in Exits(s) : order[k].filled = position[s].qty
    BY <2>1, SignalFacts DEF ClosedBySale
  <2>3. k = j
    BY <1>4, <1>5, <2>2, HeldIsBought, SignalFacts
  <2> QED
    BY <1>1, <1>4, <2>2, <2>3, SignalFacts
<1>7. Fate(s) = "trading"
  BY <1>4, <1>6, HeldIsBought, SentIsTraded
<1>8. Fate(s)' = "trading"
  BY <1>1, <1>2, <1>7 DEF Fate, Opening
<1>9. net[s] = BoughtOf(s) - order[j].filled
  BY <1>5, SignalFacts DEF NetIs, BoughtOf
<1>10. order[j].filled < BoughtOf(s)
  BY <1>1, <1>4, HeldIsBought, SignalFacts
<1> QED
  BY <1>1, <1>2, <1>7, <1>8, <1>9, <1>10, SignalFacts DEF BoughtOf, SoldOf, Opening

\* Applying the exit's fill is Settle.
LEMMA CloseIsSettle ==
  ASSUME AckIsFinal, LedgerInv, [Next]_vars, NEW s \in Signals, NEW w \in Workers, Closes(w, s)
  PROVE  /\ Fate(s) = "trading" /\ Fate(s)' = "settled"
         /\ 0 < BoughtOf(s) /\ SoldOf(s) = BoughtOf(s) /\ booked'[s] = BoughtOf(s)
<1> USE DEF LedgerInv, QuantitiesInv, VerdictsInv, BooksInv, RightsInv
<1>1. /\ task[w].j \in Exits(s) /\ position[s].state # "closed" /\ position'[s].state = "closed"
      /\ task[w].row.filled = position[s].qty /\ task[w].pc = "fill"
  BY AppliesOnly DEF Closes
<1>2. Started(task[w].j)
  BY <1>1, WorksOn
<1>3. position[s].state # "none"
  BY <1>1, <1>2, SignalFacts DEF ExitFits
<1>4. Fate(s) = "trading" /\ Fate(s)' = "settled"
  BY <1>1, <1>3, HeldIsBought, SentIsTraded DEF Fate
<1>5. order[task[w].j].filled = position[s].qty /\ position[s].qty = BoughtOf(s)
  BY <1>1, <1>3, FillIs, SignalFacts DEF Bought, BoughtOf
<1>6. net[s] = 0
  BY <1>1, <1>3, <1>5, HeldIsBought, SignalFacts DEF NetIs, BoughtOf
<1>7. booked'[s] = BoughtOf(s)
  <2>1. SignalOf(task[w].j) = s
    BY <1>1, ExitsOf
  <2>2. booked'[s] = booked[s] + position[s].qty
    BY <1>1, <2>1 DEF Closes, FinalizeClose, TypeInv, TypeOK
  <2> QED
    BY <1>1, <1>5, <2>2, SignalFacts
<1> QED
  BY <1>3, <1>4, <1>6, <1>7, HeldIsBought, SignalFacts DEF SoldOf

\* Without a fill at the broker nothing is bought or sold.
LEMMA NoFillNoTrade ==
  ASSUME LedgerInv, [Next]_vars, ~\E j \in Journals : BrokerFills(j), NEW s \in Signals
  PROVE  BoughtOf(s)' = BoughtOf(s) /\ SoldOf(s)' = SoldOf(s)
<1> USE DEF LedgerInv, QuantitiesInv, VerdictsInv
<1>1. order'[Opening(s)].filled = order[Opening(s)].filled
  BY FilledGrows, SignalOfOpening
<1>2. net'[s] = net[s]
  BY NetStep
<1> QED
  BY <1>1, <1>2 DEF BoughtOf, SoldOf, Opening

\* A signal is bought nothing for when it becomes dropped.
LEMMA DroppedIsUnbought ==
  ASSUME LedgerInv', NEW s \in Signals, Fate(s)' = "dropped"
  PROVE  BoughtOf(s)' = 0
<1>1. \/ Dead(order'[Opening(s)])
      \/ signal'[s] \in Dropped
  BY DEF Fate, Opening, Dropped
<1>2. Offer(s)' /\ (~Started(Opening(s))' => order'[Opening(s)] = NoOrder)
  <2>1. Opening(s) \in Journals
    BY SignalOfOpening
  <2> QED
    BY <2>1 DEF LedgerInv, OffersInv, Offers, VerdictsInv, BooksInv, RightsInv, Rights, Started
<1> QED
  BY <1>1, <1>2 DEF Offer, Dead, NoOrder, BoughtOf, Opening, Started

\* Every other step leaves a signal where it stands, or drops it, but for a claim.
LEMMA FateStep ==
  ASSUME LedgerInv, [Next]_vars, NEW s \in Signals,
         ~\E j \in Journals : BrokerFills(j), ~\E w \in Workers : Closes(w, s),
         ~\E w \in Workers : ClaimEntry(w, s), Fate(s)' # Fate(s)
  PROVE  Fate(s) \in {"offered", "trading"} /\ Fate(s)' = "dropped"
<1> DEFINE o == Opening(s)
<1> USE DEF LedgerInv, QuantitiesInv, VerdictsInv, BooksInv, RightsInv
<1>0. o \in Journals /\ Offer(s) /\ (~Started(o) => order[o] = NoOrder)
  BY SignalFacts
<1>1. position'[s].state = "closed" <=> position[s].state = "closed"
  BY PositionStep DEF Opens
<1>2. Dead(order[o]) => Dead(order'[o])
  BY <1>0, FinalStays, DeadIsFinal
<1>3. signal[s] \in Dropped /\ ~Dead(order[o]) => signal'[s] \in Dropped
  BY <1>0, SignalStep DEF Offer, Dropped
<1>4. signal'[s] = "approved" => signal[s] = "approved"
  BY SignalStep DEF Dropped
<1>5. signal[s] = "approved" => signal'[s] = "approved" \/ signal'[s] \in Dropped
  BY <1>0, SignalStep DEF Offer, Dropped
<1>6. Opening(s)' = o
  BY DEF Opening
<1> QED
  BY <1>1, <1>2, <1>3, <1>4, <1>5, <1>6 DEF Fate, Dropped

\* The functions of the refinement mapping.
LEMMA LedgerMaps ==
  ASSUME NEW s \in Signals
  PROVE  /\ Ledger!Enter(s) <=>
              /\ Fate(s) = "offered"
              /\ [r \in Signals |-> Fate(r)]' = [[r \in Signals |-> Fate(r)] EXCEPT ![s] = "trading"]
              /\ [r \in Signals |-> BoughtOf(r)]' = [r \in Signals |-> BoughtOf(r)]
              /\ [r \in Signals |-> SoldOf(r)]' = [r \in Signals |-> SoldOf(r)]
              /\ booked' = booked
         /\ Ledger!Buy(s) <=>
              /\ Fate(s) = "trading" /\ BoughtOf(s) < Lot /\ SoldOf(s) = 0
              /\ [r \in Signals |-> BoughtOf(r)]' =
                   [[r \in Signals |-> BoughtOf(r)] EXCEPT ![s] = @ + 1]
              /\ [r \in Signals |-> Fate(r)]' = [r \in Signals |-> Fate(r)]
              /\ [r \in Signals |-> SoldOf(r)]' = [r \in Signals |-> SoldOf(r)]
              /\ booked' = booked
         /\ Ledger!Sell(s) <=>
              /\ Fate(s) = "trading" /\ SoldOf(s) < BoughtOf(s)
              /\ [r \in Signals |-> SoldOf(r)]' =
                   [[r \in Signals |-> SoldOf(r)] EXCEPT ![s] = @ + 1]
              /\ [r \in Signals |-> Fate(r)]' = [r \in Signals |-> Fate(r)]
              /\ [r \in Signals |-> BoughtOf(r)]' = [r \in Signals |-> BoughtOf(r)]
              /\ booked' = booked
         /\ Ledger!Settle(s) <=>
              /\ Fate(s) = "trading" /\ BoughtOf(s) > 0 /\ SoldOf(s) = BoughtOf(s)
              /\ [r \in Signals |-> Fate(r)]' = [[r \in Signals |-> Fate(r)] EXCEPT ![s] = "settled"]
              /\ booked' = [booked EXCEPT ![s] = BoughtOf(s)]
              /\ [r \in Signals |-> BoughtOf(r)]' = [r \in Signals |-> BoughtOf(r)]
              /\ [r \in Signals |-> SoldOf(r)]' = [r \in Signals |-> SoldOf(r)]
BY DEF Ledger!Enter, Ledger!Buy, Ledger!Sell, Ledger!Settle, BoughtOf, SoldOf

LEMMA DropMaps ==
  Ledger!Drop <=>
    /\ \E S \in SUBSET Signals :
         /\ \A s \in S : Fate(s) \in {"offered", "trading"} /\ BoughtOf(s) = 0
         /\ [r \in Signals |-> Fate(r)]' =
              [r \in Signals |-> IF r \in S THEN "dropped" ELSE Fate(r)]
    /\ [r \in Signals |-> BoughtOf(r)]' = [r \in Signals |-> BoughtOf(r)]
    /\ [r \in Signals |-> SoldOf(r)]' = [r \in Signals |-> SoldOf(r)]
    /\ booked' = booked
BY DEF Ledger!Drop, BoughtOf, SoldOf

\* A fill at the broker is seen in the one signal it is for.
LEMMA FillElsewhere ==
  ASSUME TypeInv, NEW j \in Journals, BrokerFills(j), NEW r \in Signals, r # SignalOf(j)
  PROVE  Fate(r)' = Fate(r) /\ BoughtOf(r)' = BoughtOf(r) /\ SoldOf(r)' = SoldOf(r)
<1>1. Opening(r) # j /\ Opening(r) \in Journals
  BY SignalOfOpening
<1>2. /\ order'[Opening(r)] = order[Opening(r)] /\ net'[r] = net[r]
      /\ UNCHANGED <<signal, position>>
  BY <1>1, SignalOfType DEF BrokerFills, database, TypeInv, TypeOK
<1> QED
  BY <1>2 DEF Fate, BoughtOf, SoldOf, Opening

LEMMA FillMaps ==
  ASSUME AckIsFinal, LedgerInv, [Next]_vars, NEW j \in Journals, BrokerFills(j)
  PROVE  Ledger!Next
<1> USE DEF LedgerInv, QuantitiesInv, VerdictsInv, BooksInv, RightsInv
<1> DEFINE s == SignalOf(j)
<1>1. s \in Signals /\ booked' = booked
  BY SignalOfType DEF BrokerFills, database
<1>2. \A r \in Signals : r # s =>
        Fate(r)' = Fate(r) /\ BoughtOf(r)' = BoughtOf(r) /\ SoldOf(r)' = SoldOf(r)
  BY FillElsewhere
<1> HIDE DEF s
<1>3. CASE IsOpening(j)
  <2>1. j = Opening(s)
    BY <1>3, OpeningIs DEF s
  <2>2. /\ Fate(s) = "trading" /\ Fate(s)' = "trading"
        /\ BoughtOf(s) < Lot /\ SoldOf(s) = 0
        /\ BoughtOf(s)' = BoughtOf(s) + 1 /\ SoldOf(s)' = SoldOf(s)
    BY <1>1, <2>1, EntryFillIsBuy
  <2>3. Ledger!Buy(s)
    BY <1>1, <1>2, <2>2, LedgerMaps
  <2> QED
    BY <1>1, <2>3 DEF Ledger!Next
<1>4. CASE ~IsOpening(j)
  <2>1. j \in Exits(s)
    BY <1>4, ExitIs DEF s
  <2>2. /\ Fate(s) = "trading" /\ Fate(s)' = "trading"
        /\ SoldOf(s) < BoughtOf(s)
        /\ BoughtOf(s)' = BoughtOf(s) /\ SoldOf(s)' = SoldOf(s) + 1
    BY <1>1, <2>1, ExitFillIsSell
  <2>3. /\ [r \in Signals |-> SoldOf(r)]' = [[r \in Signals |-> SoldOf(r)] EXCEPT ![s] = @ + 1]
        /\ [r \in Signals |-> BoughtOf(r)]' = [r \in Signals |-> BoughtOf(r)]
        /\ [r \in Signals |-> Fate(r)]' = [r \in Signals |-> Fate(r)]
    BY <1>1, <1>2, <2>2
  <2>4. Ledger!Sell(s)
    BY <1>1, <2>2, <2>3, LedgerMaps
  <2> QED
    BY <1>1, <2>4 DEF Ledger!Next
<1> QED
  BY <1>3, <1>4

\* Applying an exit's fill changes one position, its account entry, and no signal.
LEMMA CloseIs ==
  ASSUME RightsInv, NEW s \in Signals, NEW w \in Workers, Closes(w, s)
  PROVE  /\ UNCHANGED <<signal, order, net>>
         /\ \A r \in Signals : r # s => position'[r] = position[r] /\ booked'[r] = booked[r]
         /\ booked' \in [Signals -> Nat] /\ booked \in [Signals -> Nat]
<1> USE DEF RightsInv
<1>1. SignalOf(task[w].j) = s
  BY ExitsOf DEF Closes
<1>2. /\ position' = [position EXCEPT ![s].state = "closed"]
      /\ booked' = [booked EXCEPT ![s] = @ + position[s].qty]
  BY <1>1 DEF Closes, FinalizeClose
<1>3. UNCHANGED <<signal, order, net>>
  BY DEF Closes, FinalizeClose, broker
<1>4. position[s].qty \in Nat /\ booked \in [Signals -> Nat]
  BY PositionTypes DEF TypeInv, TypeOK
<1> QED
  BY <1>2, <1>3, <1>4 DEF TypeInv, TypeOK

LEMMA CloseMaps ==
  ASSUME AckIsFinal, LedgerInv, [Next]_vars, NEW s \in Signals, NEW w \in Workers, Closes(w, s)
  PROVE  Ledger!Next
<1>1. /\ Fate(s) = "trading" /\ Fate(s)' = "settled"
      /\ 0 < BoughtOf(s) /\ SoldOf(s) = BoughtOf(s) /\ booked'[s] = BoughtOf(s)
  BY CloseIsSettle
<1>2. /\ UNCHANGED <<signal, order, net>>
      /\ \A r \in Signals : r # s => position'[r] = position[r] /\ booked'[r] = booked[r]
      /\ booked' \in [Signals -> Nat] /\ booked \in [Signals -> Nat]
  BY CloseIs DEF LedgerInv, QuantitiesInv, VerdictsInv, BooksInv
<1>3. \A r \in Signals : BoughtOf(r)' = BoughtOf(r) /\ SoldOf(r)' = SoldOf(r)
  BY <1>2 DEF BoughtOf, SoldOf, Opening
<1>4. \A r \in Signals : r # s => Fate(r)' = Fate(r)
  BY <1>2 DEF Fate, Opening
<1>5. BoughtOf(s) > 0
  BY <1>1, SignalFacts
<1>6. booked' = [booked EXCEPT ![s] = BoughtOf(s)]
  BY <1>1, <1>2
<1>7. Ledger!Settle(s)
  BY <1>1, <1>3, <1>4, <1>5, <1>6, LedgerMaps
<1> QED
  BY <1>7 DEF Ledger!Next

\* Nothing else is credited.
LEMMA BookedStep ==
  ASSUME LedgerInv, LedgerInv', [Next]_vars, ~\E w \in Workers, s \in Signals : Closes(w, s)
  PROVE  booked' = booked
<1> USE DEF LedgerInv, QuantitiesInv, VerdictsInv, BooksInv, RightsInv
<1>1. ASSUME NEW s \in Signals PROVE booked'[s] = booked[s]
  <2>1. position'[s].state = "closed" <=> position[s].state = "closed"
    BY PositionStep DEF Opens
  <2>2. position[s].state = "closed" => position'[s].qty = position[s].qty
    BY PositionStays
  <2> QED
    BY <2>1, <2>2 DEF PnlBookedOnce
<1> QED
  BY <1>1 DEF TypeInv, TypeOK

\* Claiming the entry of an offered signal is Enter.
LEMMA ClaimMaps ==
  ASSUME LedgerInv, [Next]_vars, NEW s \in Signals, NEW w \in Workers, ClaimEntry(w, s),
         booked' = booked
  PROVE  Ledger!Next
<1> USE DEF LedgerInv, QuantitiesInv, VerdictsInv, BooksInv, RightsInv
<1>1. /\ signal[s] = "approved" /\ signal' = [signal EXCEPT ![s] = "executing"]
      /\ UNCHANGED <<position, order, net>> /\ ~Started(Opening(s))
  BY DEF ClaimEntry, broker, Started
<1>2. order[Opening(s)] = NoOrder /\ position[s].state # "closed"
  BY <1>1, SignalFacts, HeldIsBought
<1>3. Fate(s) = "offered" /\ Fate(s)' = "trading"
  BY <1>1, <1>2 DEF Fate, Dead, NoOrder, Opening, TypeInv, TypeOK
<1>4. \A r \in Signals : r # s => Fate(r)' = Fate(r)
  BY <1>1 DEF Fate, Opening, TypeInv, TypeOK
<1>5. \A r \in Signals : BoughtOf(r)' = BoughtOf(r) /\ SoldOf(r)' = SoldOf(r)
  BY <1>1 DEF BoughtOf, SoldOf, Opening
<1>6. Ledger!Enter(s)
  BY <1>3, <1>4, <1>5, LedgerMaps
<1> QED
  BY <1>6 DEF Ledger!Next

\* Any other step drops the signals whose fate it changes, or none.
LEMMA OtherMaps ==
  ASSUME LedgerInv, LedgerInv', [Next]_vars,
         ~\E j \in Journals : BrokerFills(j), ~\E w \in Workers, s \in Signals : Closes(w, s),
         ~\E w \in Workers, s \in Signals : ClaimEntry(w, s)
  PROVE  Ledger!Next
<1> DEFINE S == {s \in Signals : Fate(s)' # Fate(s)}
<1>1. booked' = booked
  BY BookedStep
<1>2. ASSUME NEW s \in Signals PROVE BoughtOf(s)' = BoughtOf(s) /\ SoldOf(s)' = SoldOf(s)
  BY NoFillNoTrade
<1>3. ASSUME NEW s \in S
      PROVE  Fate(s) \in {"offered", "trading"} /\ Fate(s)' = "dropped" /\ BoughtOf(s) = 0
  <2>1. Fate(s) \in {"offered", "trading"} /\ Fate(s)' = "dropped"
    BY FateStep
  <2> QED
    BY <1>2, <2>1, DroppedIsUnbought
<1>4. \A s \in Signals : Fate(s)' = IF s \in S THEN "dropped" ELSE Fate(s)
  BY <1>3
<1> HIDE DEF S
<1>5. S \in SUBSET Signals
  BY DEF S
<1>6. Ledger!Drop
  BY <1>1, <1>2, <1>3, <1>4, <1>5, DropMaps
<1> QED
  BY <1>6 DEF Ledger!Next

LEMMA LedgerStep ==
  ASSUME AckIsFinal, LedgerInv, LedgerInv', [Next]_vars
  PROVE  Ledger!Next
<1>1. ASSUME NEW w \in Workers, NEW s \in Signals, ClaimEntry(w, s),
             ~\E v \in Workers, r \in Signals : Closes(v, r)
      PROVE  Ledger!Next
  BY <1>1, BookedStep, ClaimMaps
<1> QED
  BY <1>1, FillMaps, CloseMaps, OtherMaps

LEMMA LedgerInit == Init => Ledger!Init
<1> SUFFICES ASSUME Init PROVE Ledger!Init
  OBVIOUS
<1>1. ASSUME NEW s \in Signals
      PROVE  /\ order[Opening(s)] = NoOrder /\ net[s] = 0 /\ signal[s] = "approved"
             /\ position[s].state = "none"
  BY SignalOfOpening DEF Init, NoPosition
<1>2. ASSUME NEW s \in Signals PROVE Fate(s) = "offered" /\ BoughtOf(s) = 0 /\ SoldOf(s) = 0
  BY <1>1 DEF Fate, Dead, NoOrder, BoughtOf, SoldOf
<1>3. booked = [s \in Signals |-> 0]
  BY DEF Init
<1> QED
  BY <1>2, <1>3 DEF Ledger!Init, BoughtOf, SoldOf

\* The invariant of the steps.
LEMMA LedgerInvariance ==
  ASSUME ~ClaimsSpanSweeps
  PROVE  Spec => []LedgerInv
<1>1. Init => LedgerInv
  BY OffersInit, QuantitiesInit DEF LedgerInv, Init, PnlBookedOnce, NoPosition
<1>2. LedgerInv /\ [Next]_vars => LedgerInv'
  BY OffersStep, QuantitiesStep, BooksStep
     DEF LedgerInv, QuantitiesInv, VerdictsInv, BooksInv, RightsInv
<1> QED
  BY <1>1, <1>2, PTL DEF Spec

\* One entry, one exit and one settlement for every signal, under every
\* interleaving of pollers, reconcilers, broker answers and crashes.
THEOREM LedgerIsKept ==
  ASSUME AckIsFinal, ~ClaimsSpanSweeps
  PROVE  Spec => ImplementsLedger
<1>1. LedgerInv /\ LedgerInv' /\ [Next]_vars => [Ledger!Next]_(Ledger!vars)
  BY LedgerStep
<1> QED
  BY <1>1, LedgerInit, LedgerInvariance, PTL DEF Spec, ImplementsLedger, Ledger!Spec

-----------------------------------------------------------------------------
(***************************************************************************)
(* How many signals the broker carries.  The exposure check counts open    *)
(* positions and executing signals, and a late poller can make a signal    *)
(* executing again, so that count is not bounded.  What is bounded is the  *)
(* number of signals that trade: such a signal is counted, is one more     *)
(* only by a claim, and whatever the broker carries is one of them.        *)
(***************************************************************************)

Traded == {s \in Signals : Trading(s)}
ExecutedIsHeld == \A s \in Signals : signal[s] = "executed" => position[s].state # "none"
LimitInv == LedgerInv /\ ExecutedIsHeld /\ Cardinality(Traded) <= MaxPositions

\* A signal that trades has a position or is executing, so the check counts it.
LEMMA TradedIsCounted ==
  ASSUME LedgerInv, ExecutedIsHeld, NEW s \in Signals, Trading(s)
  PROVE  position[s].state = "open" \/ signal[s] = "executing"
<1>1. signal[s] \in SignalStatus /\ position[s].state \in {"none", "open", "closed"}
  BY PositionTypes DEF LedgerInv, QuantitiesInv, VerdictsInv, BooksInv, RightsInv, TypeInv, TypeOK
<1> QED
  BY <1>1 DEF Trading, Fate, ExecutedIsHeld, SignalStatus

\* A signal begins to trade by a claim.
LEMMA TradedStep ==
  ASSUME AckIsFinal, LedgerInv, [Next]_vars, NEW s \in Signals, Trading(s)', ~Trading(s)
  PROVE  \E w \in Workers : ClaimEntry(w, s)
<1> SUFFICES ASSUME ~\E w \in Workers : ClaimEntry(w, s) PROVE FALSE
  OBVIOUS
<1>1. ASSUME NEW j \in Journals, BrokerFills(j) PROVE FALSE
  <2>1. CASE SignalOf(j) # s
    BY <1>1, <2>1, FillElsewhere
       DEF Trading, LedgerInv, QuantitiesInv, VerdictsInv, BooksInv, RightsInv
  <2>2. CASE SignalOf(j) = s /\ IsOpening(j)
    BY <1>1, <2>2, OpeningIs, EntryFillIsBuy DEF Trading
  <2>3. CASE SignalOf(j) = s /\ ~IsOpening(j)
    BY <1>1, <2>3, ExitIs, ExitFillIsSell DEF Trading
  <2> QED
    BY <2>1, <2>2, <2>3
<1>2. ASSUME NEW w \in Workers, Closes(w, s) PROVE FALSE
  BY <1>2, CloseIsSettle DEF Trading
<1> QED
  BY <1>1, <1>2, FateStep DEF Trading

LEMMA ExecutedStep ==
  ASSUME RightsInv, ExecutedIsHeld, [Next]_vars
  PROVE  ExecutedIsHeld'
<1> SUFFICES ASSUME NEW s \in Signals, signal'[s] = "executed"
             PROVE  position'[s].state # "none"
  BY DEF ExecutedIsHeld
<1>1. CASE signal[s] = "executed"
  BY <1>1, PositionStays DEF ExecutedIsHeld
<1>2. CASE signal[s] # "executed"
  BY <1>2, SignalStep DEF Dropped
<1> QED
  BY <1>1, <1>2

\* The claim that makes one more found fewer than the limit.
LEMMA TradedStaysLimited ==
  ASSUME IsFiniteSet(Signals), AckIsFinal, LimitInv, [Next]_vars
  PROVE  Cardinality(Traded') <= MaxPositions
<1> DEFINE T == Traded
           O == {t \in Signals : position[t].state = "open"}
           E == {t \in Signals : signal[t] = "executing"}
<1>1. /\ IsFiniteSet(T) /\ IsFiniteSet(O) /\ IsFiniteSet(E) /\ IsFiniteSet(Traded')
      /\ IsFiniteSet(O \cup E) /\ IsFiniteSet(O \cap E)
  BY FS_Subset DEF Traded
<1>2. /\ Cardinality(T) \in Nat /\ Cardinality(O) \in Nat /\ Cardinality(E) \in Nat
      /\ Cardinality(O \cup E) \in Nat /\ Cardinality(O \cap E) \in Nat
      /\ Cardinality(Traded') \in Nat /\ MaxPositions \in Nat
  BY <1>1, FS_CardinalityType, ConstantsAssumption
<1>3. T \subseteq O \cup E
  BY TradedIsCounted DEF Traded, LimitInv
<1>4. Cardinality(T) <= Cardinality(O) + Cardinality(E)
  <2>1. Cardinality(T) <= Cardinality(O \cup E)
    BY <1>1, <1>3, FS_Subset
  <2>2. Cardinality(O \cup E) = Cardinality(O) + Cardinality(E) - Cardinality(O \cap E)
    BY <1>1, FS_Union
  <2> HIDE DEF T, O, E
  <2> QED
    BY <1>2, <2>1, <2>2
<1>5. ASSUME NEW s \in Signals, s \in Traded', s \notin T
      PROVE  \E w \in Workers : ClaimEntry(w, s)
  BY <1>5, TradedStep DEF Traded, LimitInv
<1>6. CASE Traded' \subseteq T
  <2>1. Cardinality(Traded') <= Cardinality(T)
    BY <1>1, <1>6, FS_Subset
  <2> QED
    BY <1>2, <2>1 DEF LimitInv
<1>7. ASSUME NEW s \in Traded', s \notin T
      PROVE  Cardinality(Traded') <= MaxPositions
  <2>1. s \in Signals
    BY <1>7 DEF Traded
  <2>2. PICK w \in Workers : ClaimEntry(w, s)
    BY <1>5, <1>7, <2>1
  <2>3. Cardinality(O) + Cardinality(E) < MaxPositions
    BY <2>2 DEF ClaimEntry, ExposureOK
  <2>4. \A r \in Signals : r # s => ~\E v \in Workers : ClaimEntry(v, r)
    <3>1. signal' = [signal EXCEPT ![s] = "executing"] /\ signal \in [Signals -> SignalStatus]
      BY <2>2 DEF ClaimEntry, LimitInv, LedgerInv, QuantitiesInv, VerdictsInv, BooksInv, RightsInv,
                  TypeInv, TypeOK
    <3> QED
      BY <2>1, <3>1 DEF ClaimEntry
  <2>5. Traded' \subseteq T \cup {s}
    BY <1>5, <2>4 DEF Traded
  <2>6. IsFiniteSet(T \cup {s}) /\ Cardinality(T \cup {s}) = Cardinality(T) + 1
    BY <1>1, <1>7, FS_AddElement
  <2>7. Cardinality(Traded') <= Cardinality(T \cup {s})
    BY <2>5, <2>6, FS_Subset
  <2> HIDE DEF T, O, E
  <2> QED
    BY <1>2, <1>4, <2>3, <2>6, <2>7
<1> QED
  BY <1>6, <1>7

\* What the broker carries trades: an entry that can still fill, and a holding.
LEMMA CarriedIsTraded ==
  ASSUME AckIsFinal, LedgerInv, NEW s \in Signals, AtBroker(s)
  PROVE  Trading(s)
<1> DEFINE o == Opening(s)
<1>1. /\ order[o].filled \in Nat /\ Bought(s) /\ NetIs(s) /\ ClosedBySale(s)
      /\ \A j \in Exits(s) : order[j].filled \in Nat /\ ExitFits(s, j)
  BY SignalFacts DEF BoughtOf
<1>2. CASE InFlight(o)
  <2>1. order[o] # NoOrder /\ ~Final(order[o])
    BY <1>2 DEF InFlight, Live, NoOrder, Final
  <2>2. position[s].state # "closed" /\ ~Dead(order[o])
    BY <1>1, <2>1 DEF Bought, Final, Dead
  <2> QED
    BY <2>1, <2>2, SentIsTraded DEF Trading
<1>3. CASE net[s] # 0
  <2>1. order[o].filled > 0
    <3>1. SUFFICES ASSUME order[o].filled = 0 PROVE FALSE
      BY <1>1
    <3>2. position[s].state = "none"
      BY <3>1, HeldIsBought DEF BoughtOf
    <3>3. \A j \in Exits(s) : order[j].filled = 0
      <4>1. \A j \in Exits(s) : ~Started(j) /\ j \in Journals
        BY <1>1, <3>2, SignalFacts DEF ExitFits
      <4> QED
        BY <4>1 DEF LedgerInv, QuantitiesInv, VerdictsInv, BooksInv, RightsInv, Rights, NoOrder
    <3> QED
      BY <1>1, <1>3, <3>1, <3>3 DEF NetIs
  <2>2. order[o] # NoOrder /\ ~Dead(order[o])
    BY <2>1 DEF NoOrder, Dead
  <2>3. position[s].state # "closed"
    <3>1. SUFFICES ASSUME position[s].state = "closed" PROVE FALSE
      OBVIOUS
    <3>2. PICK j \in Exits(s) : order[j].filled = position[s].qty
      BY <1>1, <3>1 DEF ClosedBySale
    <3>3. position[s].qty = order[o].filled
      BY <1>1, <3>1 DEF Bought
    <3> QED
      BY <1>1, <1>3, <2>1, <3>2, <3>3 DEF NetIs
  <2> QED
    BY <2>2, <2>3, SentIsTraded DEF Trading
<1> QED
  BY <1>2, <1>3 DEF AtBroker

\* The broker never carries more positions and working entries than the limit on
\* positions, for any number of signals and workers, although the exposure check
\* sees the local rows only and answers get lost (risk.engine._check_exposure).
THEOREM BrokerIsLimited ==
  ASSUME IsFiniteSet(Signals), AckIsFinal, ~ClaimsSpanSweeps
  PROVE  Spec => []BrokerPositionsAreLimited
<1>1. Init => ExecutedIsHeld /\ Cardinality(Traded) <= MaxPositions
  <2> SUFFICES ASSUME Init PROVE ExecutedIsHeld /\ Cardinality(Traded) <= MaxPositions
    OBVIOUS
  <2>1. \A s \in Signals : signal[s] = "approved"
    BY DEF Init
  <2>2. Traded = {}
    BY <2>1 DEF Traded, Trading, Fate
  <2> QED
    BY <2>1, <2>2, FS_EmptySet, ConstantsAssumption DEF ExecutedIsHeld
<1>2. LedgerInv /\ ExecutedIsHeld /\ Cardinality(Traded) <= MaxPositions /\ [Next]_vars
      => ExecutedIsHeld' /\ (Cardinality(Traded) <= MaxPositions)'
  <2> SUFFICES ASSUME LimitInv, [Next]_vars
               PROVE  ExecutedIsHeld' /\ Cardinality(Traded') <= MaxPositions
    BY DEF LimitInv
  <2>1. ExecutedIsHeld'
    BY ExecutedStep DEF LimitInv, LedgerInv, QuantitiesInv, VerdictsInv, BooksInv
  <2> QED
    BY <2>1, TradedStaysLimited
<1>3. LedgerInv /\ ExecutedIsHeld /\ Cardinality(Traded) <= MaxPositions
      => BrokerPositionsAreLimited
  <2> SUFFICES ASSUME LimitInv PROVE Cardinality({s \in Signals : AtBroker(s)}) <= MaxPositions
    BY DEF LimitInv, BrokerPositionsAreLimited
  <2> DEFINE B == {s \in Signals : AtBroker(s)}
  <2>1. B \subseteq Traded
    BY CarriedIsTraded DEF Traded, LimitInv
  <2>2. IsFiniteSet(Traded) /\ IsFiniteSet(B)
    BY FS_Subset DEF Traded
  <2>3. Cardinality(B) <= Cardinality(Traded)
    BY <2>1, <2>2, FS_Subset
  <2>4. Cardinality(B) \in Nat /\ Cardinality(Traded) \in Nat
    BY <2>2, FS_CardinalityType
  <2> HIDE DEF B
  <2>5. Cardinality(B) <= MaxPositions
    BY <2>3, <2>4, ConstantsAssumption DEF LimitInv
  <2> QED
    BY <2>5 DEF B
<1> QED
  BY <1>1, <1>2, <1>3, LedgerInvariance, PTL DEF Spec
=============================================================================
