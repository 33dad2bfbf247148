------------------------- MODULE PaperTrading_proofs -------------------------
(***************************************************************************)
(* Theorems of PaperTrading, for any number of cycles and square-offs, any *)
(* prices, charges and bounds, with machine-checked proofs. Four of them   *)
(* hold of a single worker or cycle only, and say so: two that overlap     *)
(* break them.                                                             *)
(***************************************************************************)
EXTENDS PaperTrading, TLAPS

(***************************************************************************)
(* TypeOK is not inductive: a save needs a transition to save, and a step  *)
(* on a row needs the task to hold one.                                    *)
(***************************************************************************)
HasPlan(t) == t.pc \in {"ask", "save"} => t.plan # <<>>
HasRow(t) ==
  t.pc \in {"open", "manage", "trail", "close"} \/ t.next \in {"manage", "close"}
    => t.n \in Entries

SoundTask == {t \in Task : HasPlan(t) /\ HasRow(t)}
TypeInv == TypeOK /\ task \in [Workers -> SoundTask]

-----------------------------------------------------------------------------
(* Types of the model's values *)

\* Every amount and bound among the constants is a natural number.
LEMMA ConstantTypes ==
  /\ InitialCash \in Nat /\ RewardRisk \in Nat /\ MaxEntries \in Nat /\ MaxCrashes \in Nat
  /\ \A p \in Asks \union Bids \union Risks : p \in Nat
  /\ \A p \in Charges : p \in Nat
BY ConstantsAssumption

\* Every target of the transition table is a state of the session.
LEMMA SessionStates ==
  {"flat", "analyzing", "market_closed", "entry_candidate", "order_pending",
   "position_open", "position_management", "exit_pending", "position_closed",
   "cooldown", "error_safe_mode"} \subseteq State
BY DEF State, Allowed

\* The idle task and the empty row are well typed.
LEMMA InitialTypes == NoRow \in Row /\ OpeningAccount \in Account /\ Idle \in SoundTask
<1>1. NoRow \in Row
  BY DEF NoRow, RowOf, Row
<1>2. OpeningAccount \in Account
  BY ConstantTypes DEF OpeningAccount, Account
<1>3. <<>> \in Seq(State)
  OBVIOUS
<1>4. Idle \in Task
  BY <1>1, <1>2, <1>3, ConstantTypes DEF Idle, Task, Pc, Continuation
<1> QED
  BY <1>1, <1>2, <1>4 DEF SoundTask, HasPlan, HasRow, Idle, NoRow

\* A proposed stop and target are prices.
LEMMA ProposalTypes ==
  ASSUME NEW ref \in Nat, NEW risk \in Nat
  PROVE  StopFor(ref, risk) \in Nat /\ TargetFor(ref, risk) \in Nat
<1>1. \A a, b \in Nat : a * b \in Nat
  OBVIOUS
<1>2. RewardRisk * risk \in Nat
  BY <1>1, ConstantTypes
<1> QED
  BY <1>2 DEF StopFor, TargetFor

\* An account stays an account when capital is reserved or a trade is settled.
LEMMA AccountTypes ==
  ASSUME NEW acct \in Account, NEW pos \in Row, NEW price \in Nat, NEW charge \in Nat
  PROVE  Reserve(acct, price) \in Account /\ Settle(acct, pos, price, charge) \in Account
<1>1. /\ acct.cash \in Int /\ acct.used \in Int /\ acct.net \in Int
      /\ pos.price \in Nat
  BY DEF Account, Row
<1>2. Reserve(acct, price) \in Account
  BY <1>1 DEF Account, Reserve
<1>3. Settle(acct, pos, price, charge) \in Account
  BY <1>1 DEF Account, Settle
<1> QED
  BY <1>2, <1>3

-----------------------------------------------------------------------------
(* Updates of one worker's task *)

\* A worker whose record stays sound keeps the task table sound.
LEMMA BecomeType ==
  ASSUME task \in [Workers -> SoundTask], NEW w \in Workers, NEW t \in SoundTask,
         task' = [task EXCEPT ![w] = t]
  PROVE  task' \in [Workers -> SoundTask]
OBVIOUS

\* A task that ends keeps the task table sound.
LEMMA EndsType ==
  ASSUME task \in [Workers -> SoundTask], NEW w \in Workers, Ends(w)
  PROVE  task' \in [Workers -> SoundTask]
BY InitialTypes, BecomeType DEF Ends

\* A task that asks for transitions keeps the task table sound.
LEMMA RequestType ==
  ASSUME task \in [Workers -> SoundTask], NEW w \in Workers,
         NEW plan \in Seq(State), plan # <<>>, NEW next \in Continuation, NEW t \in Task,
         next \in {"manage", "close"} => t.n \in Entries,
         Request(w, plan, next, t)
  PROVE  task' \in [Workers -> SoundTask]
<1> DEFINE new == [t EXCEPT !.pc = "ask", !.plan = plan, !.next = next]
<1>1. new \in Task
  BY DEF Task, Pc
<1>2. new \in SoundTask
  BY <1>1 DEF SoundTask, HasPlan, HasRow, Task
<1> QED
  BY <1>2, BecomeType DEF Request

\* A task that asks for its last transitions keeps the task table sound.
LEMMA FinishType ==
  ASSUME task \in [Workers -> SoundTask], NEW w \in Workers,
         NEW plan \in Seq(State), plan # <<>>, Finish(w, plan)
  PROVE  task' \in [Workers -> SoundTask]
<1>1. Idle \in Task
  BY InitialTypes DEF SoundTask
<1>2. "idle" \in Continuation
  BY DEF Continuation
<1> QED
  BY <1>1, <1>2, RequestType DEF Finish

-----------------------------------------------------------------------------
(* Each step keeps the types *)

\* The two halves of a transition keep the types.
LEMMA TransitionType ==
  ASSUME TypeInv, NEW w \in Workers, Transition(w)
  PROVE  TypeInv'
<1> DEFINE t == task[w]
<1>1. t \in SoundTask /\ t \in Task
  BY DEF TypeInv, SoundTask
<1>2. CASE Check(w)
  <2>1. CASE Legal(session, Head(t.plan)) /\ task' = [task EXCEPT ![w].pc = "save"]
    <3> DEFINE new == [t EXCEPT !.pc = "save"]
    <3>1. new \in SoundTask
      BY <1>1, <1>2 DEF Check, SoundTask, HasPlan, HasRow, Task, Pc
    <3>2. task' \in [Workers -> SoundTask]
      BY <2>1, <3>1, BecomeType DEF TypeInv
    <3> QED
      BY <1>2, <3>2 DEF Check, TypeInv, TypeOK, SoundTask
  <2>2. CASE Ends(w)
    <3>1. task' \in [Workers -> SoundTask]
      BY <2>2, EndsType DEF TypeInv
    <3> QED
      BY <1>2, <3>1 DEF Check, TypeInv, TypeOK, SoundTask
  <2> QED
    BY <1>2, <2>1, <2>2 DEF Check
<1>3. CASE Save(w)
  <2>1. t.plan \in Seq(State) /\ t.plan # <<>>
    BY <1>1, <1>3 DEF Save, SoundTask, HasPlan, Task
  <2>2. session' \in State /\ Tail(t.plan) \in Seq(State)
    BY <1>3, <2>1 DEF Save
  <2>3. task' \in [Workers -> SoundTask]
    <3>1. CASE Tail(t.plan) # <<>>
      <4> DEFINE new == [t EXCEPT !.pc = "ask", !.plan = Tail(t.plan)]
      <4>1. new \in SoundTask
        BY <1>1, <1>3, <2>2, <3>1 DEF Save, SoundTask, HasPlan, HasRow, Task, Pc
      <4>2. task' = [task EXCEPT ![w] = new]
        BY <1>3, <3>1 DEF Save
      <4> QED
        BY <4>1, <4>2, BecomeType DEF TypeInv
    <3>2. CASE Tail(t.plan) = <<>> /\ t.next = "idle"
      BY <1>3, <3>2, EndsType DEF Save, TypeInv
    <3>3. CASE Tail(t.plan) = <<>> /\ t.next # "idle"
      <4> DEFINE new == [t EXCEPT !.pc = t.next, !.plan = <<>>, !.next = "idle"]
      <4>1. new \in SoundTask
        <5>1. <<>> \in Seq(State) /\ t.next \in Continuation
          BY <1>1 DEF Task
        <5>2. new \in Task
          BY <1>1, <5>1 DEF Task, Pc, Continuation
        <5>3. /\ new.pc = t.next /\ new.next = "idle"
              /\ new.n = t.n /\ new.pos = t.pos
          BY <1>1 DEF Task
        <5>4. HasPlan(new) /\ HasRow(new)
          BY <1>1, <5>1, <5>3 DEF SoundTask, HasPlan, HasRow, Continuation
        <5> QED
          BY <5>2, <5>4 DEF SoundTask
      <4>2. task' = [task EXCEPT ![w] = new]
        BY <1>3, <3>3 DEF Save
      <4> QED
        BY <4>1, <4>2, BecomeType DEF TypeInv
    <3> QED
      BY <3>1, <3>2, <3>3
  <2> QED
    BY <1>3, <2>2, <2>3 DEF Save, TypeInv, TypeOK, SoundTask
<1> QED
  BY <1>2, <1>3 DEF Transition

\* The sequences of transitions that the tasks ask for are well typed.
LEMMA Plans ==
  /\ \A s \in State : <<s>> \in Seq(State) /\ <<s>> # <<>>
  /\ \A r, s \in State : <<r, s>> \in Seq(State) /\ <<r, s>> # <<>>
OBVIOUS

\* A step keeps the types when each variable's new value is of its type.
LEMMA TypeOfStep ==
  ASSUME TypeInv, task' \in [Workers -> SoundTask], session' = session,
         row' \in [Entries -> Row], account' \in Account, crashes' \in 0..MaxCrashes
  PROVE  TypeInv'
BY DEF TypeInv, TypeOK, SoundTask

\* In particular a step of the task alone.
LEMMA TaskStep ==
  ASSUME TypeInv, task' \in [Workers -> SoundTask],
         UNCHANGED <<session, row, account, crashes>>
  PROVE  TypeInv'
BY TypeOfStep DEF TypeInv, TypeOK

\* A step that only asks for its last transitions, or ends, keeps the types.
LEMMA ReturnStep ==
  ASSUME TypeInv, NEW w \in Workers, UNCHANGED <<session, row, account, crashes>>,
         Ends(w) \/ \E s \in State : Finish(w, <<s>>)
  PROVE  TypeInv'
<1>1. task' \in [Workers -> SoundTask]
  BY Plans, EndsType, FinishType DEF TypeInv
<1> QED
  BY <1>1, TaskStep

\* The first steps of a cycle keep the types.
LEMMA StartType ==
  ASSUME TypeInv, NEW w \in Workers, MarketClosed(w) \/ StartCycle(w) \/ Look(w)
  PROVE  TypeInv'
<1>1. CASE MarketClosed(w)
  BY <1>1, ReturnStep, SessionStates DEF MarketClosed
<1>2. CASE StartCycle(w)
  <2> DEFINE t == [Idle EXCEPT !.seen = account]
  <2>1. t \in Task /\ t.n = 0 /\ t.next = "idle" /\ t.pc = "idle"
    BY InitialTypes DEF TypeInv, TypeOK, SoundTask, Task, Idle
  <2>2. CASE Request(w, <<"flat">>, "look", t)
    <3>1. task' \in [Workers -> SoundTask]
      BY <2>1, <2>2, Plans, SessionStates, RequestType DEF TypeInv, Continuation
    <3> QED
      BY <1>2, <3>1, TaskStep DEF StartCycle
  <2>3. CASE task' = [task EXCEPT ![w] = [t EXCEPT !.pc = "look"]]
    <3> DEFINE new == [t EXCEPT !.pc = "look"]
    <3>1. new \in Task /\ new.pc = "look" /\ new.next = "idle"
      BY <2>1 DEF Task, Pc
    <3>2. new \in SoundTask
      BY <3>1 DEF SoundTask, HasPlan, HasRow
    <3>3. task' \in [Workers -> SoundTask]
      BY <2>3, <3>2, BecomeType DEF TypeInv
    <3> QED
      BY <1>2, <3>3, TaskStep DEF StartCycle
  <2> QED
    BY <1>2, <2>2, <2>3 DEF StartCycle
<1>3. CASE Look(w)
  <2>1. task[w] \in Task
    BY DEF TypeInv, SoundTask
  <2>2. ASSUME Request(w, <<"analyzing">>, "evaluate", task[w])
        PROVE  task' \in [Workers -> SoundTask]
    <3>1. /\ <<"analyzing">> \in Seq(State) /\ <<"analyzing">> # <<>>
          /\ "evaluate" \in Continuation
      BY Plans, SessionStates DEF Continuation
    <3> QED
      BY <2>1, <2>2, <3>1, RequestType DEF TypeInv
  <2>3. ASSUME NEW n \in OpenRows,
               Request(w, <<"position_management">>, "manage",
                       [task[w] EXCEPT !.n = n, !.pos = row[n]])
        PROVE  task' \in [Workers -> SoundTask]
    <3> DEFINE t == [task[w] EXCEPT !.n = n, !.pos = row[n]]
    <3>1. n \in Entries /\ row[n] \in Row /\ n \in 0..MaxEntries
      BY ConstantTypes DEF OpenRows, Entries, TypeInv, TypeOK
    <3>2. t \in Task /\ t.n = n
      BY <2>1, <3>1 DEF Task
    <3>3. /\ <<"position_management">> \in Seq(State) /\ <<"position_management">> # <<>>
          /\ "manage" \in Continuation
      BY Plans, SessionStates DEF Continuation
    <3> QED
      BY <2>3, <3>1, <3>2, <3>3, RequestType DEF TypeInv
  <2>4. task' \in [Workers -> SoundTask]
    BY <1>3, <2>2, <2>3 DEF Look
  <2> QED
    BY <1>3, <2>4, TaskStep DEF Look
<1> QED
  BY <1>1, <1>2, <1>3

\* The steps of an entry keep the types.
LEMMA EnteringType ==
  ASSUME TypeInv, NEW w \in Workers, Entering(w)
  PROVE  TypeInv'
<1> DEFINE t == task[w]
<1>1. t \in SoundTask /\ t \in Task
  BY DEF TypeInv, SoundTask
<1>2. CASE Decline(w) \/ SubmitRejected(w) \/ SubmitForbidden(w)
  BY <1>2, ReturnStep, SessionStates DEF Decline, SubmitRejected, SubmitForbidden
<1>3. CASE Propose(w)
  <2>1. PICK ref \in Asks, risk \in Risks :
          Request(w, <<"entry_candidate", "order_pending">>, "submit",
                  [t EXCEPT !.pos = RowOf("none", 0, StopFor(ref, risk), TargetFor(ref, risk))])
    BY <1>3 DEF Propose
  <2> DEFINE pos == RowOf("none", 0, StopFor(ref, risk), TargetFor(ref, risk))
             new == [t EXCEPT !.pos = pos]
  <2>2. StopFor(ref, risk) \in Nat /\ TargetFor(ref, risk) \in Nat
    BY ConstantTypes, ProposalTypes
  <2>3. pos \in Row
    BY <2>2 DEF Row, RowOf
  <2>4. new \in Task /\ new.pos = pos
    BY <1>1, <2>3 DEF Task
  <2>5. /\ <<"entry_candidate", "order_pending">> \in Seq(State)
        /\ <<"entry_candidate", "order_pending">> # <<>> /\ "submit" \in Continuation
    BY Plans, SessionStates DEF Continuation
  <2>6. task' \in [Workers -> SoundTask]
    BY <2>1, <2>3, <2>4, <2>5, RequestType DEF TypeInv
  <2> QED
    BY <1>3, <2>6, TaskStep DEF Propose
<1>4. CASE SubmitFilled(w)
  <2> DEFINE k == CHOOSE i \in Unused : TRUE
             new == [t EXCEPT !.pc = "open", !.n = k]
  <2>1. PICK price \in Asks :
          /\ row' = [row EXCEPT ![k] = RowOf("filled", price, 0, 0)]
          /\ account' = Reserve(account, price)
          /\ task' = [task EXCEPT ![w] = [@ EXCEPT !.pc = "open", !.n = k]]
    BY <1>4 DEF SubmitFilled
  <2>2. k \in Entries /\ k \in 0..MaxEntries
    BY <1>4, ConstantTypes DEF SubmitFilled, Unused, Entries
  <2>3. new \in Task /\ new.pc = "open" /\ new.n = k /\ new.pos = t.pos /\ new.next = t.next
    BY <1>1, <2>2 DEF Task, Pc
  <2>4. new \in SoundTask
    BY <1>1, <1>4, <2>2, <2>3 DEF SubmitFilled, SoundTask, HasPlan, HasRow
  <2>5. task' = [task EXCEPT ![w] = new]
    BY <2>1
  <2>6. task' \in [Workers -> SoundTask]
    BY <2>4, <2>5, BecomeType DEF TypeInv
  <2>7. RowOf("filled", price, 0, 0) \in Row
    BY ConstantTypes DEF RowOf, Row
  <2>8. row' \in [Entries -> Row]
    BY <2>1, <2>7 DEF TypeInv, TypeOK
  <2>9. account' \in Account
    BY <2>1, ConstantTypes, AccountTypes, InitialTypes DEF TypeInv, TypeOK
  <2> QED
    BY <1>4, <2>6, <2>8, <2>9, TypeOfStep DEF SubmitFilled, TypeInv, TypeOK
<1>5. CASE OpenPosition(w)
  <2>1. CASE row' = row /\ Ends(w)
    BY <1>5, <2>1, ReturnStep DEF OpenPosition
  <2>2. CASE row' = [row EXCEPT ![t.n] = Opened(w)] /\ Finish(w, <<"position_open">>)
    <3>1. task' \in [Workers -> SoundTask]
      BY <2>2, Plans, SessionStates, FinishType DEF TypeInv
    <3>2. t.n \in Entries /\ t.pos \in Row
      BY <1>1, <1>5 DEF OpenPosition, SoundTask, HasRow, Task
    <3>3. row[t.n] \in Row
      BY <3>2 DEF TypeInv, TypeOK
    <3>4. Opened(w) \in Row
      BY <3>2, <3>3 DEF Opened, RowOf, Row
    <3>5. row' \in [Entries -> Row]
      BY <2>2, <3>4 DEF TypeInv, TypeOK
    <3> QED
      BY <1>5, <3>1, <3>5, TypeOfStep DEF OpenPosition, TypeInv, TypeOK
  <2> QED
    BY <1>5, <2>1, <2>2 DEF OpenPosition
<1> QED
  BY <1>2, <1>3, <1>4, <1>5 DEF Entering

\* A trailing distance is the difference of two prices.
LEMMA TrailTypes ==
  ASSUME NEW pos \in Row, NEW mark \in Nat
  PROVE  TrailAt(pos, mark) \in Int
<1>1. pos.price \in Nat /\ pos.initStop \in Nat /\ pos.trail \in Int
  BY DEF Row
<1> QED
  BY <1>1 DEF TrailAt

\* The steps of a cycle that holds a position keep the types.
LEMMA ManagingType ==
  ASSUME TypeInv, NEW w \in Workers, Managing(w)
  PROVE  TypeInv'
<1> DEFINE t == task[w]
<1>1. t \in SoundTask /\ t \in Task /\ t.pos \in Row
  BY DEF TypeInv, SoundTask, Task
<1>2. CASE NoQuote(w)
  BY <1>2, ReturnStep DEF NoQuote
<1>3. CASE TriggerExit(w)
  <2>1. /\ <<"exit_pending">> \in Seq(State) /\ <<"exit_pending">> # <<>>
        /\ "close" \in Continuation
    BY Plans, SessionStates DEF Continuation
  <2>2. t.n \in Entries /\ Request(w, <<"exit_pending">>, "close", t)
    BY <1>1, <1>3 DEF TriggerExit, SoundTask, HasRow
  <2>3. task' \in [Workers -> SoundTask]
    BY <1>1, <2>1, <2>2, RequestType DEF TypeInv
  <2> QED
    BY <1>3, <2>3, TaskStep DEF TriggerExit
<1>4. CASE Hold(w)
  <2>1. PICK mark \in Bids :
          /\ row' = IF TrailAt(t.pos, mark) # t.pos.trail
                      THEN [row EXCEPT ![t.n].trail = TrailAt(t.pos, mark)] ELSE row
          /\ IF TrailAt(t.pos, mark) = 0
               THEN Ends(w)
               ELSE task' = [task EXCEPT ![w] =
                      [@ EXCEPT !.pc = "trail", !.mark = mark,
                                !.pos = [t.pos EXCEPT !.trail = TrailAt(t.pos, mark)]]]
    BY <1>4 DEF Hold
  <2> DEFINE trail == TrailAt(t.pos, mark)
             pos == [t.pos EXCEPT !.trail = trail]
             new == [t EXCEPT !.pc = "trail", !.mark = mark, !.pos = pos]
  <2>2. mark \in Nat /\ trail \in Int
    BY <1>1, ConstantTypes, TrailTypes
  <2>3. t.n \in Entries /\ row[t.n] \in Row
    BY <1>1, <1>4 DEF Hold, SoundTask, HasRow, TypeInv, TypeOK
  <2>4. row' \in [Entries -> Row]
    <3>1. [row[t.n] EXCEPT !.trail = trail] \in Row
      BY <2>2, <2>3 DEF Row
    <3> QED
      BY <2>1, <3>1 DEF TypeInv, TypeOK
  <2>5. task' \in [Workers -> SoundTask]
    <3>1. CASE trail = 0
      BY <2>1, <3>1, EndsType DEF TypeInv
    <3>2. CASE trail # 0
      <4>1. pos \in Row
        BY <1>1, <2>2 DEF Row
      <4>2. /\ new \in Task /\ new.pc = "trail"
            /\ new.n = t.n /\ new.next = t.next
        BY <1>1, <2>2, <4>1 DEF Task, Pc
      <4>3. new \in SoundTask
        BY <2>3, <4>2 DEF SoundTask, HasPlan, HasRow
      <4>4. task' = [task EXCEPT ![w] = new]
        BY <2>1, <3>2
      <4> QED
        BY <4>3, <4>4, BecomeType DEF TypeInv
    <3> QED
      BY <3>1, <3>2
  <2> QED
    BY <1>4, <2>4, <2>5, TypeOfStep DEF Hold, TypeInv, TypeOK
<1>5. CASE Trail(w)
  <2> DEFINE stop == t.mark - t.pos.trail
  <2>1. stop \in Int
    BY <1>1 DEF Task, Row
  <2>2. t.n \in Entries /\ row[t.n] \in Row
    BY <1>1, <1>5 DEF Trail, SoundTask, HasRow, TypeInv, TypeOK
  <2>3. [row[t.n] EXCEPT !.stop = stop] \in Row
    BY <2>1, <2>2 DEF Row
  <2>4. row' = [row EXCEPT ![t.n].stop = stop] \/ row' = row
    BY <1>5 DEF Trail
  <2>5. row' \in [Entries -> Row]
    BY <2>3, <2>4 DEF TypeInv, TypeOK
  <2>6. task' \in [Workers -> SoundTask]
    BY <1>5, EndsType DEF Trail, TypeInv
  <2> QED
    BY <1>5, <2>5, <2>6, TypeOfStep DEF Trail, TypeInv, TypeOK
<1> QED
  BY <1>2, <1>3, <1>4, <1>5 DEF Managing

\* What a closing transaction does to the account and the rows.
LEMMA CloseEffect ==
  ASSUME TypeInv, NEW w \in Workers, Close(w)
  PROVE  LET n == task[w].n
         IN  /\ n \in Entries /\ row[n] \in Row /\ row[n].fate = "open"
             /\ \E price \in Nat, charge \in Nat :
                  /\ account' = Settle(account, row[n], price, charge)
                  /\ row' = [row EXCEPT ![n].fate = "closed",
                                        ![n].result = price - row[n].price - charge]
<1>1. task[w] \in SoundTask /\ task[w].pc = "close"
  BY DEF TypeInv, Close
<1>2. task[w].n \in Entries
  BY <1>1 DEF SoundTask, HasRow
<1>3. row[task[w].n] \in Row
  BY <1>2 DEF TypeInv, TypeOK
<1> QED
  BY <1>2, <1>3, ConstantTypes DEF Close

\* The attempts to close a position keep the types.
LEMMA ClosingType ==
  ASSUME TypeInv, NEW w \in Workers, Closing(w)
  PROVE  TypeInv'
<1>1. CASE CloseRejected(w) \/ CloseTooLate(w)
  BY <1>1, ReturnStep, SessionStates DEF CloseRejected, CloseTooLate
<1>2. CASE Close(w)
  <2> DEFINE n == task[w].n
  <2>1. n \in Entries /\ row[n] \in Row
    BY <1>2, CloseEffect
  <2>2. PICK price \in Nat, charge \in Nat :
          /\ account' = Settle(account, row[n], price, charge)
          /\ row' = [row EXCEPT ![n].fate = "closed",
                                ![n].result = price - row[n].price - charge]
    BY <1>2, CloseEffect
  <2> DEFINE closed == [row[n] EXCEPT !.fate = "closed",
                                      !.result = price - row[n].price - charge]
  <2>3. row[n].price \in Nat
    BY <2>1 DEF Row
  <2>4. closed \in Row
    <3>1. price - row[n].price - charge \in Int
      BY <2>3
    <3>2. [row[n] EXCEPT !.fate = "closed"] \in Row
      BY <2>1 DEF Row
    <3> QED
      BY <3>1, <3>2 DEF Row
  <2>5. row' \in [Entries -> Row]
    BY <2>1, <2>2, <2>4 DEF TypeInv, TypeOK
  <2>6. account' \in Account
    BY <2>1, <2>2, AccountTypes DEF TypeInv, TypeOK
  <2>7. task' \in [Workers -> SoundTask]
    <3>1. CASE \E rest \in {"flat", "cooldown"} : Finish(w, <<"position_closed", rest>>)
      BY <3>1, Plans, SessionStates, FinishType DEF TypeInv
    <3>2. CASE Finish(w, <<"flat">>)
      BY <3>2, Plans, SessionStates, FinishType DEF TypeInv
    <3> QED
      BY <1>2, <3>1, <3>2 DEF Close
  <2> QED
    BY <1>2, <2>5, <2>6, <2>7, TypeOfStep DEF Close, TypeInv, TypeOK
<1> QED
  BY <1>1, <1>2 DEF Closing

\* The start of a square-off and the death of a worker keep the types.
LEMMA OtherType ==
  ASSUME TypeInv, NEW w \in Workers, StartSquareOff(w) \/ Crash(w)
  PROVE  TypeInv'
<1>1. CASE StartSquareOff(w)
  <2>1. PICK n \in OpenRows :
          task' = [task EXCEPT ![w] = [Idle EXCEPT !.pc = "close", !.n = n, !.seen = account]]
    BY <1>1 DEF StartSquareOff
  <2> DEFINE new == [Idle EXCEPT !.pc = "close", !.n = n, !.seen = account]
  <2>2. n \in Entries /\ n \in 0..MaxEntries /\ account \in Account
    BY ConstantTypes DEF OpenRows, Entries, TypeInv, TypeOK
  <2>3. Idle \in Task /\ Idle.next = "idle"
    BY InitialTypes DEF SoundTask, Idle
  <2>4. new \in Task /\ new.pc = "close" /\ new.n = n /\ new.next = "idle"
    BY <2>2, <2>3 DEF Task, Pc
  <2>5. new \in SoundTask
    BY <2>2, <2>4 DEF SoundTask, HasPlan, HasRow
  <2>6. task' \in [Workers -> SoundTask]
    BY <2>1, <2>5, BecomeType DEF TypeInv
  <2> QED
    BY <1>1, <2>6, TaskStep DEF StartSquareOff
<1>2. CASE Crash(w)
  <2>1. task' \in [Workers -> SoundTask]
    BY <1>2, EndsType DEF Crash, TypeInv
  <2>2. crashes' \in 0..MaxCrashes
    BY <1>2, ConstantTypes DEF Crash, TypeInv, TypeOK
  <2> QED
    BY <1>2, <2>1, <2>2, TypeOfStep DEF Crash, TypeInv, TypeOK
<1> QED
  BY <1>1, <1>2

\* TypeInv is inductive.
LEMMA TypeStep ==
  ASSUME TypeInv, [Next]_vars
  PROVE  TypeInv'
<1>1. CASE UNCHANGED vars
  BY <1>1 DEF vars, TypeInv, TypeOK, SoundTask
<1>2. ASSUME NEW w \in Cyclers, Cycle(w) PROVE TypeInv'
  <2>1. w \in Workers
    BY DEF Workers
  <2> QED
    BY <1>2, <2>1, StartType, EnteringType, ManagingType DEF Cycle
<1>3. ASSUME NEW w \in Squarers, StartSquareOff(w) PROVE TypeInv'
  BY <1>3, OtherType DEF Workers
<1>4. ASSUME NEW w \in Workers, Transition(w) \/ Closing(w) \/ Crash(w) PROVE TypeInv'
  BY <1>4, TransitionType, ClosingType, OtherType
<1> QED
  BY <1>1, <1>2, <1>3, <1>4 DEF Next

\* The program starts in a well-typed state.
LEMMA TypeInit == Init => TypeInv
BY InitialTypes, SessionStates, ConstantTypes DEF Init, TypeInv, TypeOK, SoundTask

-----------------------------------------------------------------------------
(* Theorems *)

\* The invariant that every later proof starts from: the types, and what a task
\* holds when a step of it needs it.
THEOREM TypeInvariance == Spec => []TypeInv
<1>1. TypeInv /\ [Next]_vars => TypeInv'
  BY TypeStep
<1> QED
  BY <1>1, TypeInit, PTL DEF Spec

\* Every reachable state is well typed, for all constants.
THEOREM TypeCorrectness == Spec => []TypeOK
<1>1. TypeInv => TypeOK
  BY DEF TypeInv
<1> QED
  BY <1>1, TypeInvariance, PTL

\* A step that changes neither the account nor the rows keeps the books balanced.
LEMMA BooksUntouched ==
  ASSUME BooksBalance, UNCHANGED account
  PROVE  BooksBalance'
BY DEF BooksBalance

\* Reserving capital and settling a trade keep the books balanced: what one side
\* loses the other gains, but for the profit and the charges.
LEMMA Movements ==
  ASSUME NEW acct \in Account, acct.cash + acct.used = InitialCash + acct.net,
         NEW pos \in Row, NEW price \in Nat, NEW charge \in Nat
  PROVE  /\ Reserve(acct, price).cash + Reserve(acct, price).used
              = InitialCash + Reserve(acct, price).net
         /\ LET after == Settle(acct, pos, price, charge)
            IN  after.cash + after.used = InitialCash + after.net
<1>1. /\ acct.cash \in Int /\ acct.used \in Int /\ acct.net \in Int
      /\ pos.price \in Nat /\ InitialCash \in Nat
  BY ConstantTypes DEF Account, Row
<1> QED
  BY <1>1 DEF Reserve, Settle

\* BooksBalance is inductive relative to TypeInv.
LEMMA BooksStep ==
  ASSUME TypeInv, BooksBalance, [Next]_vars
  PROVE  BooksBalance'
<1>0. account \in Account
  BY DEF TypeInv, TypeOK
<1>1. ASSUME NEW w \in Workers, SubmitFilled(w) PROVE BooksBalance'
  <2>1. PICK price \in Asks : account' = Reserve(account, price)
    BY <1>1 DEF SubmitFilled
  <2>2. price \in Nat /\ NoRow \in Row /\ 0 \in Nat
    BY ConstantTypes, InitialTypes
  <2> QED
    BY <1>0, <2>1, <2>2, Movements DEF BooksBalance
<1>2. ASSUME NEW w \in Workers, Close(w) PROVE BooksBalance'
  <2> DEFINE n == task[w].n
  <2>1. row[n] \in Row
    BY <1>2, CloseEffect
  <2>2. PICK price \in Nat, charge \in Nat : account' = Settle(account, row[n], price, charge)
    BY <1>2, CloseEffect
  <2> QED
    BY <1>0, <2>1, <2>2, Movements DEF BooksBalance
<1>3. ASSUME NEW w \in Cyclers, Cycle(w) PROVE BooksBalance'
  <2>1. w \in Workers
    BY DEF Workers
  <2> QED
    BY <1>1, <1>3, <2>1, BooksUntouched
       DEF Cycle, MarketClosed, StartCycle, Look, Entering, Decline, Propose, SubmitRejected,
           SubmitForbidden, OpenPosition, Managing, NoQuote, TriggerExit, Hold, Trail
<1>4. ASSUME NEW w \in Workers,
             Transition(w) \/ CloseRejected(w) \/ CloseTooLate(w) \/ Crash(w) \/ StartSquareOff(w)
      PROVE  BooksBalance'
  BY <1>4, BooksUntouched
     DEF Transition, Check, Save, CloseRejected, CloseTooLate, Crash, StartSquareOff
<1>5. CASE UNCHANGED vars
  BY <1>5, BooksUntouched DEF vars
<1> QED
  BY <1>2, <1>3, <1>4, <1>5 DEF Next, Closing, Workers

\* Whatever cycles and square-offs run against each other and wherever they die,
\* no cash is created or lost: the lock on the account row makes the reservation
\* of an entry and the settlement of an exit whole.
THEOREM CashIsConserved == Spec => []BooksBalance
<1>1. Init => BooksBalance
  BY ConstantTypes DEF Init, BooksBalance, OpeningAccount
<1>2. TypeInv /\ BooksBalance /\ [Next]_vars => BooksBalance'
  BY BooksStep
<1> QED
  BY <1>1, <1>2, TypeInvariance, PTL DEF Spec

-----------------------------------------------------------------------------
(* A closed position is final *)

\* The fate and the result of row n are kept, in particular of a closed one.
Kept(n) == row[n].fate = "closed" => row'[n].fate = "closed" /\ row'[n].result = row[n].result

\* A step that changes no row keeps every closed one.
LEMMA RowsUntouched ==
  ASSUME row' = row
  PROVE  \A n \in Entries : Kept(n)
BY DEF Kept

\* Moving the stop or arming the trailing stop of a row keeps fate and result.
LEMMA FieldsKept ==
  ASSUME row \in [Entries -> Row], NEW k \in Entries, NEW n \in Entries,
         \/ row' = row
         \/ \E x : row' = [row EXCEPT ![k].stop = x]
         \/ \E x : row' = [row EXCEPT ![k].trail = x]
  PROVE  row'[n].fate = row[n].fate /\ row'[n].result = row[n].result /\ Kept(n)
<1>1. row[n] \in Row /\ row[k] \in Row
  OBVIOUS
<1>2. CASE row' = row
  BY <1>2 DEF Kept
<1>3. ASSUME NEW x, row' = [row EXCEPT ![k].stop = x]
      PROVE  row'[n].fate = row[n].fate /\ row'[n].result = row[n].result
  <2>1. n # k => row'[n] = row[n]
    BY <1>3
  <2>2. row'[k] = [row[k] EXCEPT !.stop = x]
    BY <1>3
  <2> QED
    BY <1>1, <2>1, <2>2 DEF Row
<1>4. ASSUME NEW x, row' = [row EXCEPT ![k].trail = x]
      PROVE  row'[n].fate = row[n].fate /\ row'[n].result = row[n].result
  <2>1. n # k => row'[n] = row[n]
    BY <1>4
  <2>2. row'[k] = [row[k] EXCEPT !.trail = x]
    BY <1>4
  <2> QED
    BY <1>1, <2>1, <2>2 DEF Row
<1> QED
  BY <1>2, <1>3, <1>4 DEF Kept

\* The steps that write a row, one by one.
LEMMA KeptBySteps ==
  ASSUME TypeInv, NEW w \in Workers, NEW n \in Entries,
         SubmitFilled(w) \/ Hold(w) \/ Trail(w) \/ Close(w)
  PROVE  Kept(n)
<1> DEFINE t == task[w]
<1>0. row \in [Entries -> Row] /\ t \in SoundTask
  BY DEF TypeInv, TypeOK
<1>1. CASE SubmitFilled(w)
  <2> DEFINE k == CHOOSE i \in Unused : TRUE
  <2>1. k \in Unused
    BY <1>1 DEF SubmitFilled
  <2>2. PICK price \in Asks : row' = [row EXCEPT ![k] = RowOf("filled", price, 0, 0)]
    BY <1>1 DEF SubmitFilled
  <2>3. k \in Entries /\ row[k].fate = "none"
    BY <2>1 DEF Unused
  <2>4. n # k => row'[n] = row[n]
    BY <1>0, <2>2
  <2> QED
    BY <2>3, <2>4 DEF Kept
<1>2. CASE Hold(w)
  <2>1. t.n \in Entries
    BY <1>0, <1>2 DEF Hold, SoundTask, HasRow
  <2>2. row' = row \/ \E trail : row' = [row EXCEPT ![t.n].trail = trail]
    BY <1>2 DEF Hold
  <2> QED
    BY <1>0, <2>1, <2>2, FieldsKept
<1>3. CASE Trail(w)
  <2>1. t.n \in Entries
    BY <1>0, <1>3 DEF Trail, SoundTask, HasRow
  <2>2. row' = row \/ \E stop : row' = [row EXCEPT ![t.n].stop = stop]
    BY <1>3 DEF Trail
  <2> QED
    BY <1>0, <2>1, <2>2, FieldsKept
<1>4. CASE Close(w)
  <2>1. row[t.n].fate = "open" /\ t.n \in Entries
    BY <1>4, CloseEffect
  <2>2. \E result : row' = [row EXCEPT ![t.n].fate = "closed", ![t.n].result = result]
    BY <1>4, CloseEffect
  <2>3. n # t.n => row'[n] = row[n]
    BY <1>0, <2>1, <2>2
  <2> QED
    BY <2>1, <2>3 DEF Kept
<1> QED
  BY <1>1, <1>2, <1>3, <1>4

(***************************************************************************)
(* A cycle that is about to open a position holds a fill that no position  *)
(* and no other cycle has. Without this, opening a position could write    *)
(* over a closed one.                                                      *)
(***************************************************************************)
Opening(w) == task[w].pc = "open"
FillsAreHeld ==
  /\ \A w \in Workers : Opening(w) => row[task[w].n].fate = "filled"
  /\ \A v, w \in Workers : Opening(v) /\ Opening(w) /\ task[v].n = task[w].n => v = w

\* A step of w that leaves the other tasks alone and does not lead w to an opening,
\* nor to a save.
Saving(w) == task[w].pc = "save"
Stays(w) ==
  /\ \A v \in Workers \ {w} : task'[v] = task[v]
  /\ ~Opening(w)'
Leaves(w) == Stays(w) /\ ~Saving(w)'

\* Fills without a position are left as they are.
FillsStay == \A n \in Entries : row[n].fate = "filled" => row'[n].fate = "filled"

\* A task that ends, or asks for transitions, is not about to open a position.
LEMMA LeavesByReturn ==
  ASSUME TypeInv, NEW w \in Workers,
         \/ Ends(w)
         \/ \E plan, next : \E t \in Task : Request(w, plan, next, t)
  PROVE  Leaves(w)
<1>1. CASE Ends(w)
  BY <1>1 DEF Ends, Idle, Leaves, Stays, Opening, Saving, TypeInv
<1>2. ASSUME NEW plan, NEW next, NEW t \in Task, Request(w, plan, next, t)
      PROVE  Leaves(w)
  <2> DEFINE new == [t EXCEPT !.pc = "ask", !.plan = plan, !.next = next]
  <2>1. task' = [task EXCEPT ![w] = new]
    BY <1>2 DEF Request
  <2>2. new.pc = "ask"
    BY DEF Task
  <2>3. task'[w].pc = "ask"
    BY <2>1, <2>2 DEF TypeInv
  <2>4. \A v \in Workers \ {w} : task'[v] = task[v]
    BY <2>1 DEF TypeInv
  <2> QED
    BY <2>3, <2>4 DEF Leaves, Stays, Opening, Saving
<1> QED
  BY <1>1, <1>2

\* So does a task that asks for its last transitions.
LEMMA LeavesByFinish ==
  ASSUME TypeInv, NEW w \in Workers, NEW plan, Finish(w, plan)
  PROVE  Leaves(w)
BY InitialTypes, LeavesByReturn DEF Finish, SoundTask

\* No transition leads to an opening.
LEMMA StaysByTransition ==
  ASSUME TypeInv, NEW w \in Workers, Transition(w)
  PROVE  Stays(w)
<1> DEFINE t == task[w]
<1>1. t \in SoundTask /\ t \in Task /\ t.next \in Continuation
  BY DEF TypeInv, SoundTask, Task
<1>2. CASE Ends(w)
  BY <1>2, LeavesByReturn DEF Leaves
<1>3. CASE Check(w) /\ task' = [task EXCEPT ![w].pc = "save"]
  BY <1>1, <1>3 DEF Leaves, Stays, Opening, Saving, TypeInv, Task
<1>4. CASE Save(w) /\ ~Ends(w)
  <2>1. \/ task' = [task EXCEPT ![w].pc = "ask", ![w].plan = Tail(t.plan)]
        \/ task' = [task EXCEPT ![w].pc = t.next, ![w].plan = <<>>, ![w].next = "idle"]
    BY <1>4 DEF Save
  <2>2. \A v \in Workers \ {w} : task'[v] = task[v]
    BY <2>1 DEF TypeInv
  <2>3. task'[w].pc \in {"ask", t.next}
    BY <1>1, <2>1 DEF TypeInv, Task
  <2> QED
    BY <1>1, <2>2, <2>3 DEF Leaves, Stays, Opening, Saving, Continuation
<1> QED
  BY <1>2, <1>3, <1>4 DEF Transition, Check

\* No step but a filled entry order leads to an opening.
LEMMA LeavesByStep ==
  ASSUME TypeInv, NEW w \in Workers,
         \/ MarketClosed(w) \/ StartCycle(w) \/ Look(w)
         \/ Decline(w) \/ Propose(w) \/ SubmitRejected(w) \/ SubmitForbidden(w)
         \/ OpenPosition(w) \/ Managing(w) \/ Closing(w) \/ StartSquareOff(w) \/ Crash(w)
  PROVE  Leaves(w)
<1> DEFINE t == task[w]
<1>1. t \in Task /\ t.pos \in Row /\ Idle \in Task /\ account \in Account
  BY InitialTypes DEF TypeInv, TypeOK, SoundTask, Task
<1>2. CASE \/ MarketClosed(w) \/ Decline(w) \/ SubmitRejected(w) \/ SubmitForbidden(w)
           \/ OpenPosition(w) \/ NoQuote(w) \/ Trail(w) \/ Closing(w) \/ Crash(w)
  BY <1>2, LeavesByReturn, LeavesByFinish
     DEF MarketClosed, Decline, SubmitRejected, SubmitForbidden, OpenPosition, NoQuote, Trail,
         Closing, Close, CloseRejected, CloseTooLate, Crash
<1>3. CASE StartCycle(w)
  <2> DEFINE new == [Idle EXCEPT !.seen = account]
             look == [new EXCEPT !.pc = "look"]
  <2>1. new \in Task /\ look \in Task /\ look.pc = "look"
    BY <1>1 DEF Task, Pc
  <2>2. CASE Request(w, <<"flat">>, "look", new)
    BY <2>1, <2>2, LeavesByReturn
  <2>3. CASE task' = [task EXCEPT ![w] = look]
    BY <2>1, <2>3 DEF Leaves, Stays, Opening, Saving, TypeInv
  <2> QED
    BY <1>3, <2>2, <2>3 DEF StartCycle
<1>4. CASE Look(w)
  <2>1. CASE Request(w, <<"analyzing">>, "evaluate", t)
    BY <1>1, <2>1, LeavesByReturn
  <2>2. ASSUME NEW n \in OpenRows,
               Request(w, <<"position_management">>, "manage", [t EXCEPT !.n = n, !.pos = row[n]])
        PROVE  Leaves(w)
    <3>1. n \in 0..MaxEntries /\ row[n] \in Row
      BY ConstantTypes DEF OpenRows, Entries, TypeInv, TypeOK
    <3>2. [t EXCEPT !.n = n, !.pos = row[n]] \in Task
      BY <1>1, <3>1 DEF Task
    <3> QED
      BY <2>2, <3>2, LeavesByReturn
  <2> QED
    BY <1>4, <2>1, <2>2 DEF Look
<1>5. CASE Propose(w)
  <2>1. PICK ref \in Asks, risk \in Risks :
          Request(w, <<"entry_candidate", "order_pending">>, "submit",
                  [t EXCEPT !.pos = RowOf("none", 0, StopFor(ref, risk), TargetFor(ref, risk))])
    BY <1>5 DEF Propose
  <2>2. RowOf("none", 0, StopFor(ref, risk), TargetFor(ref, risk)) \in Row
    BY ConstantTypes, ProposalTypes DEF RowOf, Row
  <2>3. [t EXCEPT !.pos = RowOf("none", 0, StopFor(ref, risk), TargetFor(ref, risk))] \in Task
    BY <1>1, <2>2 DEF Task
  <2> QED
    BY <2>1, <2>3, LeavesByReturn
<1>6. CASE TriggerExit(w)
  BY <1>1, <1>6, LeavesByReturn DEF TriggerExit
<1>7. CASE Hold(w)
  <2>1. CASE Ends(w)
    BY <2>1, LeavesByReturn
  <2>2. ASSUME NEW mark \in Bids, NEW trail,
               task' = [task EXCEPT ![w] = [@ EXCEPT !.pc = "trail", !.mark = mark,
                                                     !.pos = [t.pos EXCEPT !.trail = trail]]]
        PROVE  Leaves(w)
    <3> DEFINE new == [t EXCEPT !.pc = "trail", !.mark = mark,
                                !.pos = [t.pos EXCEPT !.trail = trail]]
    <3>1. new.pc = "trail"
      BY <1>1 DEF Task
    <3>2. task' = [task EXCEPT ![w] = new]
      BY <2>2
    <3> QED
      BY <3>1, <3>2 DEF Leaves, Stays, Opening, Saving, TypeInv
  <2> QED
    BY <1>7, <2>1, <2>2 DEF Hold
<1>8. CASE StartSquareOff(w)
  <2>1. PICK n \in OpenRows :
          task' = [task EXCEPT ![w] = [Idle EXCEPT !.pc = "close", !.n = n, !.seen = account]]
    BY <1>8 DEF StartSquareOff
  <2>2. [Idle EXCEPT !.pc = "close", !.n = n, !.seen = account].pc = "close"
    BY <1>1 DEF Task
  <2> QED
    BY <2>1, <2>2 DEF Leaves, Stays, Opening, Saving, TypeInv
<1> QED
  BY <1>2, <1>3, <1>4, <1>5, <1>6, <1>7, <1>8 DEF Managing

\* Moving a stop, arming it and closing a position leave the fills alone.
LEMMA FillsStayByStep ==
  ASSUME TypeInv, NEW w \in Workers,
         UNCHANGED row \/ Hold(w) \/ Trail(w) \/ Close(w)
  PROVE  FillsStay
<1> DEFINE t == task[w]
<1>0. row \in [Entries -> Row] /\ t \in SoundTask
  BY DEF TypeInv, TypeOK
<1>1. CASE UNCHANGED row
  BY <1>1 DEF FillsStay
<1>2. CASE Hold(w) \/ Trail(w)
  <2>1. t.n \in Entries
    BY <1>0, <1>2 DEF Hold, Trail, SoundTask, HasRow
  <2>2. \/ row' = row
        \/ \E x : row' = [row EXCEPT ![t.n].stop = x]
        \/ \E x : row' = [row EXCEPT ![t.n].trail = x]
    BY <1>2 DEF Hold, Trail
  <2> QED
    BY <1>0, <2>1, <2>2, FieldsKept DEF FillsStay
<1>3. CASE Close(w)
  <2>1. row[t.n].fate = "open" /\ t.n \in Entries
    BY <1>3, CloseEffect
  <2>2. \E result : row' = [row EXCEPT ![t.n].fate = "closed", ![t.n].result = result]
    BY <1>3, CloseEffect
  <2>3. \A n \in Entries : n # t.n => row'[n] = row[n]
    BY <1>0, <2>1, <2>2
  <2> QED
    BY <2>1, <2>3 DEF FillsStay
<1> QED
  BY <1>1, <1>2, <1>3

\* A step that leaves the fills and the other tasks alone keeps the fills held.
LEMMA HeldByStaying ==
  ASSUME TypeInv, FillsAreHeld, NEW w \in Workers, Stays(w), FillsStay
  PROVE  FillsAreHeld'
<1>1. \A v \in Workers : Opening(v)' => v # w /\ task'[v] = task[v] /\ Opening(v)
  BY DEF Leaves, Stays, Opening, Saving
<1>2. \A v \in Workers : Opening(v) => task[v].n \in Entries
  BY DEF Opening, TypeInv, SoundTask, HasRow
<1> QED
  BY <1>1, <1>2 DEF FillsAreHeld, FillsStay

\* A filled entry order takes a row that nobody holds.
LEMMA HeldByFilling ==
  ASSUME TypeInv, FillsAreHeld, NEW w \in Workers, SubmitFilled(w)
  PROVE  FillsAreHeld'
<1> DEFINE k == CHOOSE i \in Unused : TRUE
           new == [task[w] EXCEPT !.pc = "open", !.n = k]
<1>0. row \in [Entries -> Row] /\ task[w] \in Task
  BY DEF TypeInv, TypeOK, SoundTask
<1>1. k \in Entries /\ row[k].fate = "none"
  BY DEF SubmitFilled, Unused
<1>2. PICK price \in Asks : row' = [row EXCEPT ![k] = RowOf("filled", price, 0, 0)]
  BY DEF SubmitFilled
<1>3. row'[k].fate = "filled" /\ \A n \in Entries \ {k} : row'[n] = row[n]
  BY <1>0, <1>1, <1>2 DEF RowOf
<1>4. task' = [task EXCEPT ![w] = new]
  BY DEF SubmitFilled
<1>5. task'[w].n = k /\ \A v \in Workers \ {w} : task'[v] = task[v]
  BY <1>0, <1>4 DEF TypeInv, Task
<1>6. \A v \in Workers : Opening(v) => task[v].n \in Entries /\ task[v].n # k
  BY <1>1 DEF FillsAreHeld, Opening, TypeInv, SoundTask, HasRow
<1>7. \A v \in Workers \ {w} :
        Opening(v)' => /\ Opening(v) /\ task'[v] = task[v] /\ task'[v].n # k
                       /\ row'[task'[v].n].fate = "filled"
  BY <1>3, <1>5, <1>6 DEF FillsAreHeld, Opening
<1>8. \A v \in Workers : Opening(v)' => row'[task'[v].n].fate = "filled"
  BY <1>3, <1>5, <1>7
<1>9. \A u, v \in Workers : Opening(u)' /\ Opening(v)' /\ task'[u].n = task'[v].n => u = v
  BY <1>5, <1>7 DEF FillsAreHeld
<1> QED
  BY <1>8, <1>9 DEF FillsAreHeld

\* Opening a position uses up the fill of this cycle and of no other.
LEMMA HeldByOpening ==
  ASSUME TypeInv, FillsAreHeld, NEW w \in Workers, OpenPosition(w)
  PROVE  FillsAreHeld'
<1>1. Leaves(w)
  BY LeavesByStep
<1>2. CASE row' = row
  BY <1>1, <1>2, HeldByStaying, FillsStayByStep DEF Leaves
<1>3. CASE row' = [row EXCEPT ![task[w].n] = Opened(w)]
  <2>1. \A v \in Workers : Opening(v)' => v # w /\ task'[v] = task[v] /\ Opening(v)
    BY <1>1 DEF Leaves, Stays, Opening, Saving
  <2>2. Opening(w)
    BY DEF OpenPosition, Opening
  <2>3. \A v \in Workers : Opening(v) => task[v].n \in Entries
    BY DEF Opening, TypeInv, SoundTask, HasRow
  <2>4. \A n \in Entries : n # task[w].n => row'[n] = row[n]
    BY <1>3 DEF TypeInv, TypeOK
  <2> QED
    BY <2>1, <2>2, <2>3, <2>4 DEF FillsAreHeld
<1> QED
  BY <1>2, <1>3 DEF OpenPosition

\* FillsAreHeld is inductive relative to TypeInv.
LEMMA HeldStep ==
  ASSUME TypeInv, FillsAreHeld, [Next]_vars
  PROVE  FillsAreHeld'
<1>1. ASSUME NEW w \in Workers,
             \/ MarketClosed(w) \/ StartCycle(w) \/ Look(w)
             \/ Decline(w) \/ Propose(w) \/ SubmitRejected(w) \/ SubmitForbidden(w)
             \/ Managing(w) \/ Closing(w) \/ StartSquareOff(w) \/ Crash(w)
      PROVE  FillsAreHeld'
  <2>1. Leaves(w)
    BY <1>1, LeavesByStep
  <2>2. UNCHANGED row \/ Hold(w) \/ Trail(w) \/ Close(w)
    BY <1>1 DEF MarketClosed, StartCycle, Look, Decline, Propose, SubmitRejected,
                SubmitForbidden, Managing, NoQuote, TriggerExit, Closing, CloseRejected,
                CloseTooLate, StartSquareOff, Crash
  <2>3. FillsStay
    BY <2>2, FillsStayByStep
  <2> QED
    BY <2>1, <2>3, HeldByStaying DEF Leaves
<1>2. ASSUME NEW w \in Workers, Transition(w) PROVE FillsAreHeld'
  <2>1. UNCHANGED row
    BY <1>2 DEF Transition, Check, Save
  <2> QED
    BY <1>2, <2>1, StaysByTransition, FillsStayByStep, HeldByStaying
<1>3. ASSUME NEW w \in Cyclers, Cycle(w) PROVE FillsAreHeld'
  <2>1. w \in Workers
    BY DEF Workers
  <2> QED
    BY <1>1, <1>3, <2>1, HeldByFilling, HeldByOpening DEF Cycle, Entering
<1>4. CASE UNCHANGED vars
  BY <1>4 DEF vars, FillsAreHeld, Opening
<1> QED
  BY <1>1, <1>2, <1>3, <1>4 DEF Next, Workers

\* Every fill that is about to become a position is held by the one cycle that
\* placed it, and is still a fill.
THEOREM FillsHeld == Spec => []FillsAreHeld
<1>1. Init => FillsAreHeld
  BY DEF Init, FillsAreHeld, Opening, Idle
<1>2. TypeInv /\ FillsAreHeld /\ [Next]_vars => FillsAreHeld'
  BY HeldStep
<1> QED
  BY <1>1, <1>2, TypeInvariance, PTL DEF Spec

\* Every step keeps every closed row: the lock and the status check of
\* close_position, and the fill an opening cycle holds.
LEMMA KeptByNext ==
  ASSUME TypeInv, FillsAreHeld, [Next]_vars
  PROVE  \A n \in Entries : Kept(n)
<1>1. ASSUME NEW w \in Workers, OpenPosition(w) PROVE \A n \in Entries : Kept(n)
  <2>1. CASE row' = row
    BY <2>1, RowsUntouched
  <2>2. CASE row' = [row EXCEPT ![task[w].n] = Opened(w)]
    <3>1. row[task[w].n].fate = "filled"
      BY <1>1 DEF OpenPosition, Opening, FillsAreHeld
    <3>2. \A n \in Entries : n # task[w].n => row'[n] = row[n]
      BY <2>2 DEF TypeInv, TypeOK
    <3> QED
      BY <3>1, <3>2 DEF Kept
  <2> QED
    BY <1>1, <2>1, <2>2 DEF OpenPosition
<1>2. ASSUME NEW w \in Workers, SubmitFilled(w) \/ Hold(w) \/ Trail(w) \/ Close(w)
      PROVE  \A n \in Entries : Kept(n)
  BY <1>2, KeptBySteps
<1>3. ASSUME NEW w \in Cyclers, Cycle(w) PROVE \A n \in Entries : Kept(n)
  <2>1. w \in Workers
    BY DEF Workers
  <2> QED
    BY <1>1, <1>2, <1>3, <2>1, RowsUntouched
       DEF Cycle, MarketClosed, StartCycle, Look, Entering, Decline, Propose, SubmitRejected,
           SubmitForbidden, Managing, NoQuote, TriggerExit
<1>4. ASSUME NEW w \in Workers,
             Transition(w) \/ CloseRejected(w) \/ CloseTooLate(w) \/ Crash(w) \/ StartSquareOff(w)
      PROVE  \A n \in Entries : Kept(n)
  BY <1>4, RowsUntouched
     DEF Transition, Check, Save, CloseRejected, CloseTooLate, Crash, StartSquareOff
<1>5. CASE UNCHANGED vars
  BY <1>5, RowsUntouched DEF vars
<1> QED
  BY <1>2, <1>3, <1>4, <1>5 DEF Next, Closing, Workers

\* A closed position stays closed with its one result, however many cycles and
\* square-offs race to close it and whatever crashes.
THEOREM SettledOnce == Spec => ClosedIsFinal
<1>1. TypeInv /\ FillsAreHeld /\ [Next]_vars => [\A n \in Entries : Kept(n)]_vars
  BY KeptByNext
<1>2. [\A n \in Entries : Kept(n)]_vars
        => [\A n \in Entries : row[n].fate = "closed" =>
              row'[n].fate = "closed" /\ row'[n].result = row[n].result]_vars
  BY DEF Kept
<1> QED
  BY <1>1, <1>2, TypeInvariance, FillsHeld, PTL DEF Spec, ClosedIsFinal

-----------------------------------------------------------------------------
(* The session's edges, when nobody else writes the session *)

\* A save that is due follows an edge of the table.
SavesAreLegal == \A w \in Workers : Saving(w) => Legal(session, Head(task[w].plan))

\* A step other than the check leaves no save due.
LEMMA NoSaveDue ==
  ASSUME TypeInv, NEW w \in Workers,
         \/ Cycle(w) \/ StartSquareOff(w) \/ Save(w) \/ Closing(w) \/ Crash(w)
  PROVE  ~Saving(w)'
<1> DEFINE t == task[w]
<1>1. CASE SubmitFilled(w)
  <2> DEFINE new == [t EXCEPT !.pc = "open", !.n = CHOOSE i \in Unused : TRUE]
  <2>1. task' = [task EXCEPT ![w] = new]
    BY <1>1 DEF SubmitFilled
  <2>2. new.pc = "open"
    BY DEF TypeInv, SoundTask, Task
  <2> QED
    BY <2>1, <2>2 DEF Saving, TypeInv
<1>2. CASE Save(w)
  <2>1. t.next \in Continuation /\ t \in Task
    BY DEF TypeInv, SoundTask, Task
  <2>2. CASE Ends(w)
    BY <2>2, LeavesByReturn DEF Leaves
  <2>3. CASE \/ task' = [task EXCEPT ![w].pc = "ask", ![w].plan = Tail(t.plan)]
             \/ task' = [task EXCEPT ![w].pc = t.next, ![w].plan = <<>>, ![w].next = "idle"]
    <3>1. task'[w].pc \in {"ask", t.next}
      BY <2>1, <2>3 DEF TypeInv, Task
    <3> QED
      BY <2>1, <3>1 DEF Saving, Continuation
  <2> QED
    BY <1>2, <2>2, <2>3 DEF Save
<1> QED
  BY <1>1, <1>2, LeavesByStep DEF Cycle, Entering, Leaves

\* With one worker, the session the check read is the one the save writes over.
LEMMA EdgesStep ==
  ASSUME TypeInv, SavesAreLegal, NEW c, Workers = {c}, [Next]_vars
  PROVE  SavesAreLegal' /\ Legal(session, session')
<1>1. CASE Check(c)
  <2>1. session' = session
    BY <1>1 DEF Check
  <2>2. CASE Ends(c)
    BY <2>1, <2>2, LeavesByReturn DEF Leaves, SavesAreLegal, Legal
  <2>3. CASE Legal(session, Head(task[c].plan)) /\ task' = [task EXCEPT ![c].pc = "save"]
    <3>1. task'[c].plan = task[c].plan
      BY <2>3 DEF TypeInv, SoundTask, Task
    <3> QED
      BY <2>1, <2>3, <3>1 DEF SavesAreLegal, Legal
  <2> QED
    BY <1>1, <2>2, <2>3 DEF Check
<1>2. CASE \/ Cycle(c) \/ StartSquareOff(c) \/ Save(c) \/ Closing(c) \/ Crash(c)
  <2>1. SavesAreLegal'
    BY <1>2, NoSaveDue DEF SavesAreLegal
  <2>2. CASE Save(c)
    BY <2>1, <2>2 DEF Save, Saving, SavesAreLegal
  <2>3. CASE session' = session
    BY <2>1, <2>3 DEF Legal
  <2> QED
    BY <1>2, <2>2, <2>3
       DEF Cycle, MarketClosed, StartCycle, Look, Entering, Decline, Propose, SubmitFilled,
           SubmitRejected, SubmitForbidden, OpenPosition, Managing, NoQuote, TriggerExit, Hold,
           Trail, StartSquareOff, Closing, Close, CloseRejected, CloseTooLate, Crash
<1>3. CASE UNCHANGED vars
  BY <1>3 DEF vars, SavesAreLegal, Saving, Legal
<1> QED
  BY <1>1, <1>2, <1>3 DEF Next, Workers, Transition

\* One worker alone, however it crashes and restarts, moves the session along the
\* edges of the table only. Two workers do not: a transition one has checked is
\* saved after the other's save.
THEOREM OneWorkerKeepsEdges ==
  ASSUME NEW CONSTANT c, Workers = {c}
  PROVE  Spec => LegalEdgesOnly
<1>1. Init => SavesAreLegal
  BY DEF Init, SavesAreLegal, Saving, Idle
<1>2. TypeInv /\ SavesAreLegal /\ [Next]_vars => SavesAreLegal'
  BY EdgesStep
<1>3. TypeInv /\ SavesAreLegal /\ [Next]_vars => [Legal(session, session')]_vars
  BY EdgesStep
<1> QED
  BY <1>1, <1>2, <1>3, TypeInvariance, PTL DEF Spec, LegalEdgesOnly

-----------------------------------------------------------------------------
(* The trailing stop *)

\* A cycle with a copy of the position it found open.
Holding(w) ==
  \/ task[w].pc \in {"manage", "trail"}
  \/ task[w].pc \in {"ask", "save"} /\ task[w].next = "manage"
Booked(n) == row[n].fate \in {"open", "closed"}

(***************************************************************************)
(* A trailing distance is the entry less the initial stop, and negative if *)
(* the entry filled below its own stop. It is armed all the same when the  *)
(* mark lies below the initial stop: only an exit that comes first rules   *)
(* that out, and it looks at the stop of a copy. So rows and copies have   *)
(* their stops at or above the initial ones, and agree about those.        *)
(***************************************************************************)
RowTrails(n) == row[n].stop >= row[n].initStop /\ row[n].trail >= 0
CopyTrails(w) ==
  Holding(w) =>
    /\ Booked(task[w].n)
    /\ task[w].pos.initStop = row[task[w].n].initStop
    /\ task[w].pos.stop >= task[w].pos.initStop
    /\ task[w].pos.trail >= 0
TrailInv == (\A n \in Entries : RowTrails(n)) /\ (\A w \in Workers : CopyTrails(w))

\* A row that was opened stays so and keeps its initial stop; its stop moves only when
\* w trails it, beyond the stop of its copy.
Frames(w, n) ==
  Booked(n) =>
    /\ Booked(n)' /\ row'[n].initStop = row[n].initStop
    /\ \/ row'[n].stop = row[n].stop
       \/ /\ Holding(w) /\ ~Holding(w)'
          /\ n = task[w].n /\ row'[n].stop > task[w].pos.stop

\* Arming with no exit due gives no negative distance.
LEMMA ArmedBehind ==
  ASSUME NEW pos \in Row, NEW mark \in Nat, ~HardExit(pos, mark),
         pos.stop >= pos.initStop, pos.trail >= 0
  PROVE  TrailAt(pos, mark) >= 0
<1>1. pos.price \in Nat /\ pos.initStop \in Nat /\ pos.stop \in Int /\ pos.trail \in Int
  BY DEF Row
<1> QED
  BY <1>1 DEF HardExit, TrailAt, InProfit

\* What a look that holds the position writes.
LEMMA HoldEffect ==
  ASSUME TypeInv, TrailInv, NEW w \in Workers, Hold(w)
  PROVE  LET t == task[w]
         IN  /\ t \in Task /\ t.n \in Entries /\ t.pos \in Row
             /\ \E mark \in Nat, trail \in Nat :
                  /\ row' = [row EXCEPT ![t.n].trail = trail] \/ row' = row
                  /\ \/ Ends(w)
                     \/ task' = [task EXCEPT ![w] =
                                   [t EXCEPT !.pc = "trail", !.mark = mark,
                                             !.pos = [t.pos EXCEPT !.trail = trail]]]
<1> DEFINE t == task[w]
<1>1. t \in SoundTask /\ t \in Task /\ t.pos \in Row /\ t.pc = "manage"
  BY DEF TypeInv, SoundTask, Task, Hold
<1>2. t.n \in Entries /\ t.pos.stop >= t.pos.initStop /\ t.pos.trail >= 0
  BY <1>1 DEF SoundTask, HasRow, TrailInv, CopyTrails, Holding
<1>3. PICK mark \in Bids :
        /\ ~HardExit(t.pos, mark)
        /\ row' = IF TrailAt(t.pos, mark) # t.pos.trail
                    THEN [row EXCEPT ![t.n].trail = TrailAt(t.pos, mark)] ELSE row
        /\ IF TrailAt(t.pos, mark) = 0
             THEN Ends(w)
             ELSE task' = [task EXCEPT ![w] =
                    [@ EXCEPT !.pc = "trail", !.mark = mark,
                              !.pos = [t.pos EXCEPT !.trail = TrailAt(t.pos, mark)]]]
  BY DEF Hold
<1> DEFINE trail == TrailAt(t.pos, mark)
<1>4. mark \in Nat /\ trail \in Int
  BY <1>1, ConstantTypes, TrailTypes
<1>5. trail >= 0
  BY <1>1, <1>2, <1>3, <1>4, ArmedBehind
<1>6. trail \in Nat
  BY <1>4, <1>5
<1>7. row' = [row EXCEPT ![t.n].trail = trail] \/ row' = row
  BY <1>3
<1>8. \/ Ends(w)
      \/ task' = [task EXCEPT ![w] = [t EXCEPT !.pc = "trail", !.mark = mark,
                                               !.pos = [t.pos EXCEPT !.trail = trail]]]
  BY <1>3
<1> HIDE DEF trail
<1> QED
  BY <1>1, <1>2, <1>4, <1>6, <1>7, <1>8

\* A step of w that leaves it without a copy, and the other tasks alone.
Releases(w) == ~Holding(w)' /\ \A v \in Workers \ {w} : task'[v] = task[v]

\* A task that ends, or asks for transitions to anything but a management, holds no copy.
LEMMA ReleasesByReturn ==
  ASSUME TypeInv, NEW w \in Workers,
         \/ Ends(w)
         \/ \E plan, next : \E t \in Task : next # "manage" /\ Request(w, plan, next, t)
  PROVE  Releases(w)
<1>1. CASE Ends(w)
  BY <1>1 DEF Ends, Idle, Releases, Holding, TypeInv
<1>2. ASSUME NEW plan, NEW next, NEW t \in Task, next # "manage", Request(w, plan, next, t)
      PROVE  Releases(w)
  <2> DEFINE new == [t EXCEPT !.pc = "ask", !.plan = plan, !.next = next]
  <2>1. task' = [task EXCEPT ![w] = new]
    BY <1>2 DEF Request
  <2>2. new.pc = "ask" /\ new.next = next
    BY DEF Task
  <2> QED
    BY <1>2, <2>1, <2>2 DEF Releases, Holding, TypeInv
<1> QED
  BY <1>1, <1>2

\* The steps that write a row keep every row in order.
LEMMA RowsTrail ==
  ASSUME TypeInv, FillsAreHeld, TrailInv, NEW w \in Workers,
         \/ UNCHANGED row \/ SubmitFilled(w) \/ OpenPosition(w) \/ Hold(w) \/ Trail(w) \/ Close(w)
  PROVE  \A n \in Entries : Frames(w, n) /\ RowTrails(n)'
<1> DEFINE t == task[w]
<1>0. row \in [Entries -> Row] /\ t \in SoundTask /\ t \in Task /\ t.pos \in Row
  BY DEF TypeInv, TypeOK, SoundTask, Task
<1>1. CASE UNCHANGED row
  BY <1>1 DEF Frames, Booked, TrailInv, RowTrails
<1>2. CASE SubmitFilled(w)
  <2> DEFINE k == CHOOSE i \in Unused : TRUE
  <2>1. k \in Entries /\ row[k].fate = "none"
    BY <1>2 DEF SubmitFilled, Unused
  <2>2. PICK price \in Asks : row' = [row EXCEPT ![k] = RowOf("filled", price, 0, 0)]
    BY <1>2 DEF SubmitFilled
  <2>3. /\ row'[k].stop = 0 /\ row'[k].initStop = 0 /\ row'[k].trail = 0
        /\ \A n \in Entries \ {k} : row'[n] = row[n]
    BY <1>0, <2>1, <2>2 DEF RowOf
  <2>4. ASSUME NEW n \in Entries, n = k PROVE Frames(w, n) /\ RowTrails(n)'
    BY <2>1, <2>3, <2>4 DEF Frames, Booked, RowTrails
  <2>5. \A n \in Entries \ {k} : Frames(w, n) /\ RowTrails(n)'
    BY <2>3 DEF Frames, Booked, TrailInv, RowTrails
  <2> QED
    BY <2>4, <2>5
<1>3. CASE OpenPosition(w)
  <2>1. t.n \in Entries /\ row[t.n].fate = "filled"
    BY <1>0, <1>3 DEF OpenPosition, SoundTask, HasRow, FillsAreHeld, Opening
  <2>2. CASE row' = row
    BY <2>2 DEF Frames, Booked, TrailInv, RowTrails
  <2>3. CASE row' = [row EXCEPT ![t.n] = Opened(w)]
    <3>1. /\ row'[t.n].stop = t.pos.initStop /\ row'[t.n].initStop = t.pos.initStop
          /\ row'[t.n].trail = 0
      BY <1>0, <2>1, <2>3 DEF Opened, RowOf
    <3>2. \A n \in Entries \ {t.n} : row'[n] = row[n]
      BY <1>0, <2>3
    <3>3. t.pos.initStop >= t.pos.initStop
      BY <1>0 DEF Row
    <3> QED
      BY <2>1, <3>1, <3>2, <3>3 DEF Frames, Booked, TrailInv, RowTrails
  <2> QED
    BY <1>3, <2>2, <2>3 DEF OpenPosition
<1>4. CASE Hold(w)
  <2>1. PICK trail \in Nat : row' = [row EXCEPT ![t.n].trail = trail] \/ row' = row
    BY <1>4, HoldEffect
  <2>2. t.n \in Entries
    BY <1>4, HoldEffect
  <2>3. row[t.n] \in Row
    BY <1>0, <2>2
  <2>4. CASE row' = row
    BY <2>4 DEF Frames, Booked, TrailInv, RowTrails
  <2>5. CASE row' = [row EXCEPT ![t.n].trail = trail]
    <3>1. /\ row'[t.n] = [row[t.n] EXCEPT !.trail = trail]
          /\ \A n \in Entries \ {t.n} : row'[n] = row[n]
      BY <1>0, <2>2, <2>5
    <3>2. /\ row'[t.n].fate = row[t.n].fate /\ row'[t.n].initStop = row[t.n].initStop
          /\ row'[t.n].stop = row[t.n].stop /\ row'[t.n].trail = trail
      BY <2>3, <3>1 DEF Row
    <3>3. trail >= 0
      OBVIOUS
    <3>4. ASSUME NEW n \in Entries, n = t.n PROVE Frames(w, n) /\ RowTrails(n)'
      BY <2>2, <3>2, <3>4, <3>3 DEF Frames, Booked, TrailInv, RowTrails
    <3>5. \A n \in Entries \ {t.n} : Frames(w, n) /\ RowTrails(n)'
      BY <3>1 DEF Frames, Booked, TrailInv, RowTrails
    <3> QED
      BY <3>4, <3>5
  <2> QED
    BY <2>1, <2>4, <2>5
<1>5. CASE Trail(w)
  <2> DEFINE stop == t.mark - t.pos.trail
  <2>1. t.n \in Entries /\ t.pc = "trail"
    BY <1>0, <1>5 DEF Trail, SoundTask, HasRow
  <2>2. row[t.n] \in Row /\ stop \in Int /\ t.pos.stop \in Int /\ t.pos.initStop \in Int
    <3>1. row[t.n] \in Row /\ t.mark \in Nat
      BY <1>0, <2>1 DEF Task
    <3>2. t.pos.trail \in Int /\ t.pos.stop \in Int /\ t.pos.initStop \in Nat
      BY <1>0 DEF Row
    <3> QED
      BY <3>1, <3>2
  <2>3. t.pos.initStop = row[t.n].initStop /\ t.pos.stop >= t.pos.initStop
    BY <2>1 DEF TrailInv, CopyTrails, Holding
  <2>4. CASE row' = row
    BY <2>4 DEF Frames, Booked, TrailInv, RowTrails
  <2>5. CASE stop > t.pos.stop /\ row' = [row EXCEPT ![t.n].stop = stop]
    <3>1. /\ row'[t.n] = [row[t.n] EXCEPT !.stop = stop]
          /\ \A n \in Entries \ {t.n} : row'[n] = row[n]
      BY <1>0, <2>1, <2>5
    <3>2. /\ row'[t.n].fate = row[t.n].fate /\ row'[t.n].initStop = row[t.n].initStop
          /\ row'[t.n].stop = stop /\ row'[t.n].trail = row[t.n].trail
      BY <2>2, <3>1 DEF Row
    <3>3. stop >= row[t.n].initStop /\ stop > t.pos.stop /\ Holding(w)
      BY <2>1, <2>2, <2>3, <2>5 DEF Holding
    <3>4. ~Holding(w)'
      BY <1>5, ReleasesByReturn DEF Trail, Releases
    <3> QED
      BY <3>1, <3>2, <3>3, <3>4 DEF Frames, Booked, TrailInv, RowTrails
  <2> QED
    BY <1>5, <2>4, <2>5 DEF Trail
<1>6. CASE Close(w)
  <2>1. row[t.n].fate = "open" /\ t.n \in Entries /\ row[t.n] \in Row
    BY <1>6, CloseEffect
  <2>2. PICK result : row' = [row EXCEPT ![t.n].fate = "closed", ![t.n].result = result]
    BY <1>6, CloseEffect
  <2>3. /\ row'[t.n].fate = "closed" /\ row'[t.n].initStop = row[t.n].initStop
        /\ row'[t.n].stop = row[t.n].stop /\ row'[t.n].trail = row[t.n].trail
    BY <1>0, <2>1, <2>2 DEF Row
  <2>4. \A n \in Entries \ {t.n} : row'[n] = row[n]
    BY <1>0, <2>2
  <2> QED
    BY <2>3, <2>4 DEF Frames, Booked, TrailInv, RowTrails
<1> QED
  BY <1>1, <1>2, <1>3, <1>4, <1>5, <1>6

\* Nor does one that asks for its last transitions.
LEMMA ReleasesByFinish ==
  ASSUME TypeInv, NEW w \in Workers, NEW plan, Finish(w, plan)
  PROVE  Releases(w)
BY InitialTypes, ReleasesByReturn DEF Finish, SoundTask

\* A task goes on with the copy it has.
Carries(w) ==
  /\ \A v \in Workers \ {w} : task'[v] = task[v]
  /\ Holding(w)' => /\ Holding(w) /\ task'[w].n = task[w].n
                    /\ task'[w].pos.initStop = task[w].pos.initStop
                    /\ task'[w].pos.stop = task[w].pos.stop
                    /\ task'[w].pos.trail >= 0

\* Every step but the look that finds an open position goes on with the copy or drops it.
LEMMA CarriesByStep ==
  ASSUME TypeInv, TrailInv, NEW w \in Workers,
         \/ MarketClosed(w) \/ StartCycle(w) \/ Entering(w) \/ Managing(w)
         \/ Transition(w) \/ Closing(w) \/ StartSquareOff(w) \/ Crash(w)
  PROVE  Carries(w)
<1> DEFINE t == task[w]
<1>1. /\ t \in Task /\ t.pos \in Row /\ Idle \in Task /\ account \in Account
      /\ task \in [Workers -> SoundTask]
  BY InitialTypes DEF TypeInv, TypeOK, SoundTask, Task
<1>2. ASSUME Releases(w) PROVE Carries(w)
  BY <1>2 DEF Releases, Carries
<1>3. CASE \/ MarketClosed(w) \/ Decline(w) \/ SubmitRejected(w) \/ SubmitForbidden(w)
           \/ OpenPosition(w) \/ NoQuote(w) \/ Trail(w) \/ Closing(w) \/ Crash(w)
  BY <1>2, <1>3, ReleasesByReturn, ReleasesByFinish
     DEF MarketClosed, Decline, SubmitRejected, SubmitForbidden, OpenPosition, NoQuote, Trail,
         Closing, Close, CloseRejected, CloseTooLate, Crash
<1>4. CASE StartCycle(w)
  <2> DEFINE new == [Idle EXCEPT !.seen = account]
             look == [new EXCEPT !.pc = "look"]
  <2>1. new \in Task /\ look.pc = "look"
    BY <1>1 DEF Task
  <2>2. CASE Request(w, <<"flat">>, "look", new)
    BY <1>2, <2>1, <2>2, ReleasesByReturn
  <2>3. CASE task' = [task EXCEPT ![w] = look]
    BY <1>1, <1>2, <2>1, <2>3 DEF Releases, Holding
  <2> QED
    BY <1>4, <2>2, <2>3 DEF StartCycle
<1>5. CASE Propose(w)
  <2>1. PICK ref \in Asks, risk \in Risks :
          Request(w, <<"entry_candidate", "order_pending">>, "submit",
                  [t EXCEPT !.pos = RowOf("none", 0, StopFor(ref, risk), TargetFor(ref, risk))])
    BY <1>5 DEF Propose
  <2>2. RowOf("none", 0, StopFor(ref, risk), TargetFor(ref, risk)) \in Row
    BY ConstantTypes, ProposalTypes DEF RowOf, Row
  <2>3. [t EXCEPT !.pos = RowOf("none", 0, StopFor(ref, risk), TargetFor(ref, risk))] \in Task
    BY <1>1, <2>2 DEF Task
  <2> QED
    BY <1>2, <2>1, <2>3, ReleasesByReturn
<1>6. CASE SubmitFilled(w)
  <2> DEFINE new == [t EXCEPT !.pc = "open", !.n = CHOOSE i \in Unused : TRUE]
  <2>1. task' = [task EXCEPT ![w] = new]
    BY <1>6 DEF SubmitFilled
  <2>2. new.pc = "open"
    BY <1>1 DEF Task
  <2> QED
    BY <1>1, <1>2, <2>1, <2>2 DEF Releases, Holding
<1>7. CASE TriggerExit(w)
  <2>1. Request(w, <<"exit_pending">>, "close", t)
    BY <1>7 DEF TriggerExit
  <2> QED
    BY <1>1, <1>2, <2>1, ReleasesByReturn
<1>8. CASE Hold(w)
  <2>1. CASE Ends(w)
    BY <1>2, <2>1, ReleasesByReturn
  <2>2. ASSUME NEW mark \in Nat, NEW trail \in Nat,
               task' = [task EXCEPT ![w] = [t EXCEPT !.pc = "trail", !.mark = mark,
                                                     !.pos = [t.pos EXCEPT !.trail = trail]]]
        PROVE  Carries(w)
    <3> DEFINE pos == [t.pos EXCEPT !.trail = trail]
               new == [t EXCEPT !.pc = "trail", !.mark = mark, !.pos = pos]
    <3>1. pos.initStop = t.pos.initStop /\ pos.stop = t.pos.stop /\ pos.trail = trail
      BY <1>1 DEF Row
    <3>2. new.n = t.n /\ new.pos = pos
      BY <1>1 DEF Task
    <3>3. task'[w] = new /\ \A v \in Workers \ {w} : task'[v] = task[v]
      BY <1>1, <2>2
    <3>4. Holding(w)
      BY <1>8 DEF Hold, Holding
    <3>5. trail >= 0
      OBVIOUS
    <3> HIDE DEF pos, new
    <3> QED
      BY <3>1, <3>2, <3>3, <3>4, <3>5 DEF Carries
  <2> QED
    BY <1>8, <2>1, <2>2, HoldEffect
<1>9. CASE Check(w)
  <2>1. CASE Ends(w)
    BY <1>2, <2>1, ReleasesByReturn
  <2>2. CASE task' = [task EXCEPT ![w].pc = "save"]
    <3>1. /\ task'[w] = [t EXCEPT !.pc = "save"]
          /\ \A v \in Workers \ {w} : task'[v] = task[v]
      BY <1>1, <2>2
    <3>2. /\ task'[w].next = t.next /\ task'[w].n = t.n /\ task'[w].pos = t.pos
          /\ task'[w].pc = "save" /\ t.pc = "ask"
      BY <1>1, <1>9, <3>1 DEF Task, Check
    <3>3. Holding(w) => t.pos.trail >= 0
      BY DEF TrailInv, CopyTrails
    <3> QED
      BY <3>1, <3>2, <3>3 DEF Carries, Holding
  <2> QED
    BY <1>9, <2>1, <2>2 DEF Check
<1>10. CASE Save(w)
  <2>1. CASE Ends(w)
    BY <1>2, <2>1, ReleasesByReturn
  <2>2. CASE \/ task' = [task EXCEPT ![w].pc = "ask", ![w].plan = Tail(t.plan)]
             \/ task' = [task EXCEPT ![w].pc = t.next, ![w].plan = <<>>, ![w].next = "idle"]
    <3>1. \A v \in Workers \ {w} : task'[v] = task[v]
      BY <1>1, <2>2
    <3>2. /\ task'[w].n = t.n /\ task'[w].pos = t.pos
          /\ \/ task'[w].pc = "ask" /\ task'[w].next = t.next
             \/ task'[w].pc = t.next /\ task'[w].next = "idle"
      BY <1>1, <2>2 DEF Task
    <3>3. t.pc = "save" /\ t.next \in Continuation
      BY <1>1, <1>10 DEF Save, Task
    <3>4. Holding(w) => t.pos.trail >= 0
      BY DEF TrailInv, CopyTrails
    <3> QED
      BY <3>1, <3>2, <3>3, <3>4 DEF Carries, Holding, Continuation
  <2> QED
    BY <1>10, <2>1, <2>2 DEF Save
<1>11. CASE StartSquareOff(w)
  <2>1. PICK n \in OpenRows :
          task' = [task EXCEPT ![w] = [Idle EXCEPT !.pc = "close", !.n = n, !.seen = account]]
    BY <1>11 DEF StartSquareOff
  <2> DEFINE new == [Idle EXCEPT !.pc = "close", !.n = n, !.seen = account]
  <2>2. new.pc = "close"
    BY <1>1 DEF Task
  <2>3. task'[w] = new /\ \A v \in Workers \ {w} : task'[v] = task[v]
    BY <1>1, <2>1
  <2> QED
    BY <1>2, <2>2, <2>3 DEF Releases, Holding
<1> QED
  BY <1>3, <1>4, <1>5, <1>6, <1>7, <1>8, <1>9, <1>10, <1>11 DEF Entering, Managing, Transition

\* What a look writes into the task: the analysis ahead, or a copy of an open position.
LEMMA LookEffect ==
  ASSUME TypeInv, NEW w \in Workers, Look(w)
  PROVE  /\ row' = row /\ \A v \in Workers \ {w} : task'[v] = task[v]
         /\ \/ ~Holding(w)'
            \/ task'[w].n \in OpenRows /\ task'[w].pos = row[task'[w].n]
<1> DEFINE t == task[w]
<1>1. t \in Task /\ task \in [Workers -> SoundTask] /\ row' = row
  BY DEF TypeInv, SoundTask, Look
<1>2. CASE Request(w, <<"analyzing">>, "evaluate", t)
  BY <1>1, <1>2, ReleasesByReturn DEF Releases
<1>3. ASSUME NEW n \in OpenRows,
             Request(w, <<"position_management">>, "manage", [t EXCEPT !.n = n, !.pos = row[n]])
      PROVE  /\ \A v \in Workers \ {w} : task'[v] = task[v]
             /\ task'[w].n \in OpenRows /\ task'[w].pos = row[task'[w].n]
  <2>1. n \in 0..MaxEntries /\ row[n] \in Row
    BY ConstantTypes DEF OpenRows, Entries, TypeInv, TypeOK
  <2> DEFINE with == [t EXCEPT !.n = n, !.pos = row[n]]
             new == [with EXCEPT !.pc = "ask", !.plan = <<"position_management">>,
                                 !.next = "manage"]
  <2>2. with \in Task /\ with.n = n /\ with.pos = row[n]
    BY <1>1, <2>1 DEF Task
  <2>3. new.n = n /\ new.pos = row[n]
    BY <2>2 DEF Task
  <2>4. task' = [task EXCEPT ![w] = new]
    BY <1>3 DEF Request
  <2> HIDE DEF new
  <2> QED
    BY <1>1, <2>3, <2>4
<1> QED
  BY <1>1, <1>2, <1>3 DEF Look

\* TrailInv is inductive relative to TypeInv and FillsAreHeld.
LEMMA TrailStep ==
  ASSUME TypeInv, FillsAreHeld, TrailInv, [Next]_vars
  PROVE  TrailInv'
<1>1. ASSUME NEW w \in Workers, Carries(w), \A n \in Entries : Frames(w, n) /\ RowTrails(n)'
      PROVE  TrailInv'
  <2>1. ASSUME NEW v \in Workers, Holding(v)' PROVE CopyTrails(v)'
    <3>1. /\ Holding(v) /\ task'[v].n = task[v].n
          /\ task'[v].pos.initStop = task[v].pos.initStop
          /\ task'[v].pos.stop = task[v].pos.stop /\ task'[v].pos.trail >= 0
      BY <1>1, <2>1 DEF Carries, Holding, TrailInv, CopyTrails
    <3>2. task[v].n \in Entries
      BY <3>1 DEF Holding, TypeInv, SoundTask, HasRow
    <3> QED
      BY <1>1, <3>1, <3>2 DEF TrailInv, CopyTrails, Frames, Booked
  <2> QED
    BY <1>1, <2>1 DEF TrailInv, CopyTrails
<1>2. ASSUME NEW w \in Workers,
             \/ MarketClosed(w) \/ StartCycle(w) \/ Entering(w) \/ Managing(w)
             \/ Transition(w) \/ Closing(w) \/ StartSquareOff(w) \/ Crash(w)
      PROVE  TrailInv'
  <2>1. \/ UNCHANGED row \/ SubmitFilled(w) \/ OpenPosition(w) \/ Hold(w) \/ Trail(w) \/ Close(w)
    BY <1>2 DEF MarketClosed, StartCycle, Entering, Decline, Propose, SubmitRejected,
                SubmitForbidden, Managing, NoQuote, TriggerExit, Transition, Check, Save, Closing,
                CloseRejected, CloseTooLate, StartSquareOff, Crash
  <2> QED
    BY <1>1, <1>2, <2>1, RowsTrail, CarriesByStep
<1>3. ASSUME NEW w \in Workers, Look(w) PROVE TrailInv'
  <2>1. \A n \in Entries : RowTrails(n)' /\ Frames(w, n)
    BY <1>3, LookEffect, RowsTrail
  <2>2. ASSUME NEW v \in Workers \ {w} PROVE CopyTrails(v)'
    BY <1>3, LookEffect DEF TrailInv, CopyTrails, Holding, Booked
  <2>3. CopyTrails(w)'
    BY <1>3, LookEffect DEF TrailInv, CopyTrails, RowTrails, Booked, OpenRows
  <2> QED
    BY <2>1, <2>2, <2>3 DEF TrailInv
<1>4. ASSUME NEW w \in Cyclers, Cycle(w) PROVE TrailInv'
  BY <1>2, <1>3, <1>4 DEF Cycle, Workers
<1>5. CASE UNCHANGED vars
  BY <1>5 DEF vars, TrailInv, RowTrails, CopyTrails, Holding, Booked
<1> QED
  BY <1>2, <1>4, <1>5 DEF Next, Workers

\* However many cycles and square-offs run and die, no trailing distance is ever
\* negative: the exit a look makes first keeps it from arming below the entry.
THEOREM TrailsBehindMark == Spec => []TrailKeepsBehindMark
<1>1. Init => TrailInv
  BY DEF Init, TrailInv, RowTrails, CopyTrails, Holding, NoRow, RowOf, Idle
<1>2. TypeInv /\ FillsAreHeld /\ TrailInv /\ [Next]_vars => TrailInv'
  BY TrailStep
<1>3. TrailInv => TrailKeepsBehindMark
  BY DEF TrailInv, RowTrails, TrailKeepsBehindMark
<1> QED
  BY <1>1, <1>2, <1>3, TypeInvariance, FillsHeld, PTL DEF Spec

(***************************************************************************)
(* With one cycle at a time, the stop that trailing compares with is the   *)
(* stop of the row: what a copy says about it is not stale.                *)
(***************************************************************************)
CopiesAreCurrent ==
  \A w \in Workers : Holding(w) =>
    w \in Cyclers /\ task[w].pos.stop = row[task[w].n].stop

\* CopiesAreCurrent is inductive, and stops go up, if there is one cycle.
LEMMA CurrentStep ==
  ASSUME TypeInv, FillsAreHeld, TrailInv, CopiesAreCurrent,
         NEW c, Cyclers = {c}, [Next]_vars
  PROVE  /\ CopiesAreCurrent'
         /\ \A n \in Entries : row[n].fate = "open" => row'[n].stop >= row[n].stop
<1> DEFINE Up == \A n \in Entries : row[n].fate = "open" => row'[n].stop >= row[n].stop
<1>0. \A n \in Entries : row[n].stop \in Int /\ row[n].stop >= row[n].stop
  BY DEF TypeInv, TypeOK, Row
<1>1. ASSUME NEW w \in Workers, \A n \in Entries : Frames(w, n), TypeInv'
      PROVE  Up
  <2>1. ASSUME NEW n \in Entries, row[n].fate = "open" PROVE row'[n].stop >= row[n].stop
    <3>1. row[n].stop \in Int /\ row'[n].stop \in Int
      BY <1>1 DEF TypeInv, TypeOK, Row
    <3>2. Booked(n)
      BY <2>1 DEF Booked
    <3>3. row'[n].stop = row[n].stop \/ row'[n].stop > row[n].stop
      BY <1>1, <3>2 DEF Frames, CopiesAreCurrent
    <3> QED
      BY <3>1, <3>3
  <2> QED
    BY <2>1
<1>2. ASSUME NEW w \in Workers, Carries(w), \A n \in Entries : Frames(w, n)
      PROVE  CopiesAreCurrent'
  <2>1. ASSUME NEW v \in Workers, Holding(v)'
        PROVE  v \in Cyclers /\ task'[v].pos.stop = row'[task'[v].n].stop
    <3>1. Holding(v) /\ task'[v].n = task[v].n /\ task'[v].pos.stop = task[v].pos.stop
      BY <1>2, <2>1 DEF Carries, Holding
    <3>2. task[v].n \in Entries /\ Booked(task[v].n)
      BY <3>1 DEF Holding, TypeInv, SoundTask, HasRow, TrailInv, CopyTrails
    <3>3. v \in Cyclers /\ task[v].pos.stop = row[task[v].n].stop
      BY <3>1 DEF CopiesAreCurrent
    <3>4. row'[task[v].n].stop = row[task[v].n].stop
      <4>1. Holding(w) => w = v
        BY <3>3 DEF CopiesAreCurrent
      <4> QED
        BY <1>2, <2>1, <3>2, <4>1 DEF Frames
    <3> QED
      BY <3>1, <3>3, <3>4
  <2> QED
    BY <2>1 DEF CopiesAreCurrent
<1>3. TypeInv'
  BY TypeStep
<1>4. ASSUME NEW w \in Workers,
             \/ MarketClosed(w) \/ StartCycle(w) \/ Entering(w) \/ Managing(w)
             \/ Transition(w) \/ Closing(w) \/ StartSquareOff(w) \/ Crash(w)
      PROVE  CopiesAreCurrent' /\ Up
  <2>1. \/ UNCHANGED row \/ SubmitFilled(w) \/ OpenPosition(w) \/ Hold(w) \/ Trail(w) \/ Close(w)
    BY <1>4 DEF MarketClosed, StartCycle, Entering, Decline, Propose, SubmitRejected,
                SubmitForbidden, Managing, NoQuote, TriggerExit, Transition, Check, Save, Closing,
                CloseRejected, CloseTooLate, StartSquareOff, Crash
  <2>2. \A n \in Entries : Frames(w, n)
    BY <2>1, RowsTrail
  <2> QED
    BY <1>1, <1>2, <1>3, <1>4, <2>2, CarriesByStep
<1>5. ASSUME NEW w \in Cyclers, Look(w) PROVE CopiesAreCurrent' /\ Up
  <2>1. w \in Workers
    BY DEF Workers
  <2>2. /\ row' = row /\ \A v \in Workers \ {w} : task'[v] = task[v]
        /\ ~Holding(w)' \/ task'[w].pos = row[task'[w].n]
    BY <1>5, <2>1, LookEffect
  <2> QED
    BY <1>0, <1>5, <2>2 DEF CopiesAreCurrent, Holding
<1>6. ASSUME NEW w \in Cyclers, Cycle(w) PROVE CopiesAreCurrent' /\ Up
  BY <1>4, <1>5, <1>6 DEF Cycle, Workers
<1>7. CASE UNCHANGED vars
  BY <1>0, <1>7 DEF vars, CopiesAreCurrent, Holding
<1> QED
  BY <1>4, <1>6, <1>7 DEF Next, Workers

\* With one cycle, and square-offs and crashes as they come, the stop of an open
\* position never moves down. Two cycles that overlap can move it down: the later
\* one compares with a stop it read before the other saved a higher one.
THEOREM OneCycleRatchets ==
  ASSUME NEW CONSTANT c, Cyclers = {c}
  PROVE  Spec => StopOnlyTightens
<1>1. Init => CopiesAreCurrent /\ TrailInv
  BY DEF Init, CopiesAreCurrent, TrailInv, RowTrails, CopyTrails, Holding, NoRow, RowOf, Idle
<1>2. TypeInv /\ FillsAreHeld /\ TrailInv /\ [Next]_vars => TrailInv'
  BY TrailStep
<1>3. TypeInv /\ FillsAreHeld /\ TrailInv /\ CopiesAreCurrent /\ [Next]_vars => CopiesAreCurrent'
  BY CurrentStep
<1>4. TypeInv /\ FillsAreHeld /\ TrailInv /\ CopiesAreCurrent /\ [Next]_vars
        => [\A n \in Entries : row[n].fate = "open" => row'[n].stop >= row[n].stop]_vars
  BY CurrentStep
<1> QED
  BY <1>1, <1>2, <1>3, <1>4, TypeInvariance, FillsHeld, PTL DEF Spec, StopOnlyTightens

-----------------------------------------------------------------------------
(* One cycle and any square-offs share the session row *)

(***************************************************************************)
(* A transition is saved some time after it was asked for, so a session    *)
(* that calls the slot free may be saved over a position opened since.     *)
(* What rules that out, with one cycle, is who asks for what, and when.    *)
(***************************************************************************)
Unheld == OpenRows = {}
Free == {"flat", "analyzing", "entry_candidate", "market_closed", "cooldown", "position_closed"}
Reached == Free \union {"order_pending", "position_open", "position_management",
                        "exit_pending", "error_safe_mode"}

Asking(w) == task[w].pc \in {"ask", "save"}
Asked(w) == <<task[w].plan, task[w].next>>

\* What a cycle asks for while no position is open, what it asks for otherwise,
\* and what it asks for in between: that is legal only when the session is free.
QuietAsks ==
  {<<<<"flat">>, "look">>, <<<<"flat">>, "idle">>, <<<<"cooldown">>, "idle">>,
   <<<<"entry_candidate", "order_pending">>, "submit">>, <<<<"order_pending">>, "submit">>,
   <<<<"position_closed", "flat">>, "idle">>, <<<<"position_closed", "cooldown">>, "idle">>}
BusyAsks ==
  {<<<<"position_management">>, "manage">>, <<<<"position_open">>, "idle">>,
   <<<<"exit_pending">>, "close">>, <<<<"error_safe_mode">>, "idle">>}
ScanAsk == <<<<"analyzing">>, "evaluate">>
ShutAsk == <<<<"market_closed">>, "idle">>

Quiet(w) ==
  \/ task[w].pc \in {"evaluate", "submit", "open"}
  \/ Asking(w) /\ Asked(w) \in QuietAsks
  \/ task[w].pc = "save" /\ Asked(w) \in {ScanAsk, ShutAsk}
Busy(w) ==
  \/ task[w].pc \in {"idle", "look", "manage", "trail", "close"}
  \/ Asking(w) /\ Asked(w) \in BusyAsks
  \/ task[w].pc = "ask" /\ Asked(w) \in {ScanAsk, ShutAsk}

NobodySquares == \A s \in Squarers : ~Asking(s)

\* A square-off asks for flat only, once the position is closed, and it is alone in that.
SquarersWait ==
  /\ \A s \in Squarers : task[s].pc \in {"idle", "ask", "save", "close"}
  /\ \A s \in Squarers : Asking(s) => /\ Asked(s) = <<<<"flat">>, "idle">>
                                      /\ Unheld /\ session \notin Free
  /\ \A s, u \in Squarers : Asking(s) /\ Asking(u) => s = u
\* A quiet cycle has the slot for itself.
CycleWaits(c) ==
  /\ Quiet(c) \/ Busy(c)
  /\ Quiet(c) => Unheld /\ NobodySquares
  /\ Asking(c) /\ Asked(c) = ScanAsk => Unheld
  /\ task[c].pc \in {"submit", "open"} => session = "order_pending"
SessionFits ==
  /\ session \in Reached
  /\ session \in Free => Unheld
  /\ \A m, n \in OpenRows : m = n
SlotInv(c) == SessionFits /\ SquarersWait /\ CycleWaits(c)

\* What is asked for quietly, busily and in between differs.
LEMMA AsksDiffer ==
  /\ \A x \in QuietAsks : x \notin BusyAsks \union {ScanAsk, ShutAsk}
  /\ ScanAsk \notin BusyAsks /\ ShutAsk \notin BusyAsks /\ ScanAsk # ShutAsk
BY DEF QuietAsks, BusyAsks, ScanAsk, ShutAsk

\* What a request leaves in the task.
LEMMA RequestEffect ==
  ASSUME TypeInv, NEW w \in Workers, NEW plan, NEW next, NEW t \in Task,
         Request(w, plan, next, t)
  PROVE  /\ task'[w].pc = "ask" /\ task'[w].plan = plan /\ task'[w].next = next
         /\ \A v \in Workers \ {w} : task'[v] = task[v]
<1> DEFINE new == [t EXCEPT !.pc = "ask", !.plan = plan, !.next = next]
<1>1. new.pc = "ask" /\ new.plan = plan /\ new.next = next
  BY DEF Task
<1>2. task' = [task EXCEPT ![w] = new] /\ task \in [Workers -> SoundTask]
  BY DEF Request, TypeInv
<1> HIDE DEF new
<1> QED
  BY <1>1, <1>2

\* What the end of a task, and a request for its last transitions, leave in it.
LEMMA ReturnEffect ==
  ASSUME TypeInv, NEW w \in Workers, NEW plan
  PROVE  /\ Ends(w) => /\ task'[w].pc = "idle"
                       /\ \A v \in Workers \ {w} : task'[v] = task[v]
         /\ Finish(w, plan) => /\ task'[w].pc = "ask" /\ task'[w].plan = plan
                               /\ task'[w].next = "idle"
                               /\ \A v \in Workers \ {w} : task'[v] = task[v]
<1>1. Ends(w) => task'[w].pc = "idle" /\ \A v \in Workers \ {w} : task'[v] = task[v]
  BY DEF Ends, Idle, TypeInv
<1>2. Idle \in Task
  BY InitialTypes DEF SoundTask
<1> QED
  BY <1>1, <1>2, RequestEffect DEF Finish

\* Steps that open and close nothing leave the set of open positions as it is.
LEMMA OpenRowsStay ==
  ASSUME TypeInv, NEW w \in Workers,
         UNCHANGED row \/ SubmitFilled(w) \/ Hold(w) \/ Trail(w)
  PROVE  OpenRows' = OpenRows
<1> DEFINE t == task[w]
<1>0. row \in [Entries -> Row] /\ t \in SoundTask
  BY DEF TypeInv, TypeOK
<1>1. CASE UNCHANGED row
  BY <1>1 DEF OpenRows
<1>2. CASE SubmitFilled(w)
  <2> DEFINE k == CHOOSE i \in Unused : TRUE
  <2>1. k \in Entries /\ row[k].fate = "none"
    BY <1>2 DEF SubmitFilled, Unused
  <2>2. PICK price \in Asks : row' = [row EXCEPT ![k] = RowOf("filled", price, 0, 0)]
    BY <1>2 DEF SubmitFilled
  <2>3. row'[k].fate = "filled" /\ \A n \in Entries \ {k} : row'[n] = row[n]
    BY <1>0, <2>1, <2>2 DEF RowOf
  <2> QED
    BY <2>1, <2>3 DEF OpenRows
<1>3. CASE Hold(w) \/ Trail(w)
  <2>1. t.n \in Entries
    BY <1>0, <1>3 DEF Hold, Trail, SoundTask, HasRow
  <2>2. \/ row' = row
        \/ \E x : row' = [row EXCEPT ![t.n].stop = x]
        \/ \E x : row' = [row EXCEPT ![t.n].trail = x]
    BY <1>3 DEF Hold, Trail
  <2>3. \A n \in Entries : row'[n].fate = row[n].fate
    BY <1>0, <2>1, <2>2, FieldsKept
  <2> QED
    BY <2>3 DEF OpenRows
<1> QED
  BY <1>1, <1>2, <1>3

\* A closing transaction takes the position out of that set.
LEMMA OpenRowsAtClose ==
  ASSUME TypeInv, NEW w \in Workers, Close(w)
  PROVE  task[w].n \in OpenRows /\ OpenRows' = OpenRows \ {task[w].n}
<1> DEFINE k == task[w].n
<1>0. row \in [Entries -> Row]
  BY DEF TypeInv, TypeOK
<1>1. k \in Entries /\ row[k] \in Row /\ row[k].fate = "open"
  BY CloseEffect
<1>2. PICK result : row' = [row EXCEPT ![k].fate = "closed", ![k].result = result]
  BY CloseEffect
<1>3. row'[k].fate = "closed"
  BY <1>0, <1>1, <1>2 DEF Row
<1>4. \A n \in Entries \ {k} : row'[n] = row[n]
  BY <1>0, <1>2
<1> QED
  BY <1>1, <1>3, <1>4 DEF OpenRows

\* The opening adds one position to it.
LEMMA OpenRowsAtOpening ==
  ASSUME TypeInv, NEW w \in Workers, OpenPosition(w), Unheld
  PROVE  /\ session' = session /\ Finish(w, <<"position_open">>)
         /\ \A n \in Entries : row'[n].fate = "open" <=> n = task[w].n
         /\ \A m, n \in OpenRows' : m = n
<1>0. row \in [Entries -> Row] /\ task[w] \in SoundTask
  BY DEF TypeInv, TypeOK
<1>1. task[w].n \in Entries
  BY <1>0 DEF OpenPosition, SoundTask, HasRow
<1>2. row' = [row EXCEPT ![task[w].n] = Opened(w)] /\ Finish(w, <<"position_open">>)
  BY DEF OpenPosition, Unheld
<1>3. row'[task[w].n].fate = "open" /\ \A n \in Entries \ {task[w].n} : row'[n] = row[n]
  BY <1>0, <1>1, <1>2 DEF Opened, RowOf
<1>4. \A n \in Entries : row'[n].fate = "open" <=> n = task[w].n
  BY <1>1, <1>3 DEF Unheld, OpenRows
<1> QED
  BY <1>2, <1>4 DEF OpenPosition, OpenRows

\* A step of the cycle that opens and closes nothing: a session that it moves to a
\* state of the free slot must find the slot free and no square-off on its way there.
LEMMA CycleMoves ==
  ASSUME NEW c, Cyclers = {c}, SlotInv(c),
         \A v \in Workers \ {c} : task'[v] = task[v], OpenRows' = OpenRows,
         session' \in Reached, session' \in Free => Unheld /\ NobodySquares,
         \/ Busy(c)'
         \/ Quiet(c)' /\ Unheld /\ NobodySquares,
         Asking(c)' /\ Asked(c)' = ScanAsk => Unheld,
         task'[c].pc \in {"submit", "open"} => session' = "order_pending"
  PROVE  SlotInv(c)'
<1>1. \A s \in Squarers : task'[s] = task[s]
  BY ConstantsAssumption DEF Workers
<1>2. SquarersWait' /\ NobodySquares' = NobodySquares
  BY <1>1 DEF SlotInv, SquarersWait, Asking, Asked, Unheld, NobodySquares
<1>3. ~(Quiet(c)' /\ Busy(c)')
  BY AsksDiffer DEF Quiet, Busy, Asking
<1>4. CycleWaits(c)'
  BY <1>2, <1>3 DEF CycleWaits, Unheld, ScanAsk
<1> QED
  BY <1>2, <1>4 DEF SlotInv, SessionFits, Unheld

\* In particular one that leaves the session alone.
LEMMA CycleActs ==
  ASSUME NEW c, Cyclers = {c}, SlotInv(c),
         \A v \in Workers \ {c} : task'[v] = task[v],
         session' = session, OpenRows' = OpenRows,
         \/ Busy(c)'
         \/ Quiet(c)' /\ Unheld /\ NobodySquares,
         Asking(c)' /\ Asked(c)' = ScanAsk => Unheld,
         task'[c].pc \in {"submit", "open"} => session = "order_pending"
  PROVE  SlotInv(c)'
<1>1. session' \in Reached /\ (session' \in Free => Unheld /\ NobodySquares)
  BY DEF SlotInv, SessionFits, SquarersWait, NobodySquares
<1> QED
  BY <1>1, CycleMoves

\* Where the cycle's steps lead, but for transitions, openings and closings.
LEMMA CycleStepsSlot ==
  ASSUME NEW c, Cyclers = {c}, SlotInv(c), TypeInv,
         \/ MarketClosed(c) \/ StartCycle(c) \/ Look(c) \/ Decline(c) \/ Propose(c)
         \/ SubmitFilled(c) \/ SubmitRejected(c) \/ SubmitForbidden(c)
         \/ NoQuote(c) \/ TriggerExit(c) \/ Hold(c) \/ Trail(c)
         \/ CloseRejected(c) \/ CloseTooLate(c) \/ Crash(c)
  PROVE  SlotInv(c)'
<1> DEFINE t == task[c]
           Others == \A v \in Workers \ {c} : task'[v] = task[v]
<1>0. /\ c \in Workers /\ c \in Cyclers
      /\ t \in Task /\ t.pos \in Row /\ Idle \in Task /\ account \in Account
      /\ task \in [Workers -> SoundTask]
  BY InitialTypes DEF TypeInv, TypeOK, SoundTask, Task, Workers
<1>1. session' = session /\ OpenRows' = OpenRows
  BY <1>0, OpenRowsStay
     DEF MarketClosed, StartCycle, Look, Decline, Propose, SubmitFilled, SubmitRejected,
         SubmitForbidden, NoQuote, TriggerExit, Hold, Trail, CloseRejected, CloseTooLate, Crash
<1>2. ASSUME task'[c].pc \in {"idle", "look", "trail"}, Others PROVE SlotInv(c)'
  BY <1>1, <1>2, CycleActs DEF Busy, Asking
<1>3. ASSUME task'[c].pc = "ask", Asked(c)' \in BusyAsks, Others PROVE SlotInv(c)'
  BY <1>1, <1>3, CycleActs, AsksDiffer DEF Busy, Asking
<1>4. ASSUME task'[c].pc = "ask", Asked(c)' \in QuietAsks, Others, Unheld, NobodySquares
      PROVE  SlotInv(c)'
  BY <1>1, <1>4, CycleActs, AsksDiffer DEF Quiet, Asking
<1>5. CASE NoQuote(c) \/ Trail(c) \/ CloseTooLate(c) \/ Crash(c) \/ SubmitForbidden(c)
  BY <1>0, <1>2, <1>5, ReturnEffect DEF NoQuote, Trail, CloseTooLate, Crash, SubmitForbidden
<1>6. CASE MarketClosed(c)
  <2>1. task'[c].pc = "ask" /\ Asked(c)' = ShutAsk /\ Others
    BY <1>0, <1>6, ReturnEffect DEF MarketClosed, Asked, ShutAsk
  <2> QED
    BY <1>1, <2>1, CycleActs, AsksDiffer DEF Busy
<1>7. CASE Decline(c) \/ SubmitRejected(c)
  <2>1. task'[c].pc = "ask" /\ Asked(c)' \in QuietAsks /\ Others
    BY <1>0, <1>7, ReturnEffect DEF Decline, SubmitRejected, Asked, QuietAsks
  <2>2. Unheld /\ NobodySquares
    BY <1>7 DEF Decline, SubmitRejected, SlotInv, CycleWaits, Quiet
  <2> QED
    BY <1>4, <2>1, <2>2
<1>8. CASE CloseRejected(c)
  <2>1. task'[c].pc = "ask" /\ Asked(c)' \in BusyAsks /\ Others
    BY <1>0, <1>8, ReturnEffect DEF CloseRejected, Asked, BusyAsks
  <2> QED
    BY <1>3, <2>1
<1>9. CASE TriggerExit(c)
  <2>1. Request(c, <<"exit_pending">>, "close", t)
    BY <1>9 DEF TriggerExit
  <2>2. task'[c].pc = "ask" /\ Asked(c)' \in BusyAsks /\ Others
    BY <1>0, <2>1, RequestEffect DEF Asked, BusyAsks
  <2> QED
    BY <1>3, <2>2
<1>10. CASE StartCycle(c)
  <2> DEFINE new == [Idle EXCEPT !.seen = account]
             look == [new EXCEPT !.pc = "look"]
  <2>1. new \in Task /\ look.pc = "look"
    BY <1>0 DEF Task
  <2>2. CASE session \in {"cooldown", "market_closed"} /\ Request(c, <<"flat">>, "look", new)
    <3>1. task'[c].pc = "ask" /\ Asked(c)' \in QuietAsks /\ Others
      BY <1>0, <2>1, <2>2, RequestEffect DEF Asked, QuietAsks
    <3>2. Unheld /\ NobodySquares
      BY <2>2 DEF SlotInv, SessionFits, SquarersWait, NobodySquares, Free
    <3> QED
      BY <1>4, <3>1, <3>2
  <2>3. CASE task' = [task EXCEPT ![c] = look]
    <3>1. task'[c].pc = "look" /\ Others
      BY <1>0, <2>1, <2>3
    <3> QED
      BY <1>2, <3>1
  <2> QED
    BY <1>10, <2>2, <2>3 DEF StartCycle
<1>11. CASE Look(c)
  <2>1. CASE OpenRows = {} /\ Request(c, <<"analyzing">>, "evaluate", t)
    <3>1. task'[c].pc = "ask" /\ Asked(c)' = ScanAsk /\ Others
      BY <1>0, <2>1, RequestEffect DEF Asked, ScanAsk
    <3> QED
      BY <1>1, <2>1, <3>1, CycleActs DEF Busy, Unheld
  <2>2. ASSUME NEW n \in OpenRows,
               Request(c, <<"position_management">>, "manage",
                       [t EXCEPT !.n = n, !.pos = row[n]])
        PROVE  SlotInv(c)'
    <3>1. n \in 0..MaxEntries /\ row[n] \in Row
      BY ConstantTypes DEF OpenRows, Entries, TypeInv, TypeOK
    <3>2. [t EXCEPT !.n = n, !.pos = row[n]] \in Task
      BY <1>0, <3>1 DEF Task
    <3>3. task'[c].pc = "ask" /\ Asked(c)' \in BusyAsks /\ Others
      BY <1>0, <2>2, <3>2, RequestEffect DEF Asked, BusyAsks
    <3> QED
      BY <1>3, <3>3
  <2> QED
    BY <1>11, <2>1, <2>2 DEF Look
<1>12. CASE Propose(c)
  <2>1. PICK ref \in Asks, risk \in Risks :
          Request(c, <<"entry_candidate", "order_pending">>, "submit",
                  [t EXCEPT !.pos = RowOf("none", 0, StopFor(ref, risk), TargetFor(ref, risk))])
    BY <1>12 DEF Propose
  <2>2. RowOf("none", 0, StopFor(ref, risk), TargetFor(ref, risk)) \in Row
    BY ConstantTypes, ProposalTypes DEF RowOf, Row
  <2>3. [t EXCEPT !.pos = RowOf("none", 0, StopFor(ref, risk), TargetFor(ref, risk))] \in Task
    BY <1>0, <2>2 DEF Task
  <2>4. task'[c].pc = "ask" /\ Asked(c)' \in QuietAsks /\ Others
    BY <1>0, <2>1, <2>3, RequestEffect DEF Asked, QuietAsks
  <2>5. Unheld /\ NobodySquares
    BY <1>12 DEF Propose, SlotInv, CycleWaits, Quiet
  <2> QED
    BY <1>4, <2>4, <2>5
<1>13. CASE SubmitFilled(c)
  <2> DEFINE new == [t EXCEPT !.pc = "open", !.n = CHOOSE i \in Unused : TRUE]
  <2>1. task' = [task EXCEPT ![c] = new]
    BY <1>13 DEF SubmitFilled
  <2>2. new.pc = "open"
    BY <1>0 DEF Task
  <2>3. task'[c].pc = "open" /\ Others
    BY <1>0, <2>1, <2>2
  <2>4. Unheld /\ NobodySquares /\ session = "order_pending"
    BY <1>13 DEF SubmitFilled, SlotInv, CycleWaits, Quiet
  <2> QED
    BY <1>1, <2>3, <2>4, CycleActs DEF Quiet, Asking
<1>14. CASE Hold(c)
  <2>1. CASE Ends(c)
    BY <1>0, <1>2, <2>1, ReturnEffect
  <2>2. ASSUME NEW mark, NEW pos,
               task' = [task EXCEPT ![c] = [@ EXCEPT !.pc = "trail", !.mark = mark, !.pos = pos]]
        PROVE  SlotInv(c)'
    <3> DEFINE new == [t EXCEPT !.pc = "trail", !.mark = mark, !.pos = pos]
    <3>1. new.pc = "trail"
      BY <1>0 DEF Task
    <3>2. task' = [task EXCEPT ![c] = new]
      BY <2>2
    <3>3. task'[c].pc = "trail" /\ Others
      BY <1>0, <3>1, <3>2
    <3> QED
      BY <1>2, <3>3
  <2> QED
    BY <1>14, <2>1, <2>2 DEF Hold
<1> QED
  BY <1>5, <1>6, <1>7, <1>8, <1>9, <1>10, <1>11, <1>12, <1>13, <1>14

\* The cycle opens the position while the session says that an order is pending,
\* and closes it when no square-off is about to declare the slot free.
LEMMA CycleTradesSlot ==
  ASSUME NEW c, Cyclers = {c}, SlotInv(c), TypeInv, OpenPosition(c) \/ Close(c)
  PROVE  SlotInv(c)'
<1> DEFINE Others == \A v \in Workers \ {c} : task'[v] = task[v]
<1>0. c \in Workers /\ c \in Cyclers /\ c \notin Squarers
  BY ConstantsAssumption DEF Workers
<1>1. CASE OpenPosition(c)
  <2>1. Unheld /\ NobodySquares /\ session = "order_pending"
    BY <1>1 DEF OpenPosition, SlotInv, CycleWaits, Quiet
  <2>2. /\ session' = session /\ Finish(c, <<"position_open">>)
        /\ \A m, n \in OpenRows' : m = n
    BY <1>0, <1>1, <2>1, OpenRowsAtOpening
  <2>3. task'[c].pc = "ask" /\ Asked(c)' \in BusyAsks /\ Others
    BY <1>0, <2>2, ReturnEffect DEF Asked, BusyAsks
  <2>4. SessionFits'
    BY <2>1, <2>2 DEF SlotInv, SessionFits, Free
  <2>5. \A s \in Squarers : task'[s] = task[s]
    BY <1>0, <2>3 DEF Workers
  <2>6. SquarersWait'
    BY <2>1, <2>5 DEF SlotInv, SquarersWait, NobodySquares, Asking
  <2>7. CycleWaits(c)'
    BY <2>3, AsksDiffer DEF CycleWaits, Quiet, Busy, Asking
  <2> QED
    BY <2>4, <2>6, <2>7 DEF SlotInv
<1>2. CASE Close(c)
  <2>1. task[c].n \in OpenRows /\ OpenRows' = OpenRows \ {task[c].n}
    BY <1>0, <1>2, OpenRowsAtClose
  <2>2. PICK rest \in {"flat", "cooldown"} : Finish(c, <<"position_closed", rest>>)
    BY <1>0, <1>2 DEF Close
  <2>3. task'[c].pc = "ask" /\ Asked(c)' \in QuietAsks /\ Others
    BY <1>0, <2>2, ReturnEffect DEF Asked, QuietAsks
  <2>4. Unheld' /\ NobodySquares
    BY <2>1 DEF SlotInv, SessionFits, SquarersWait, Unheld, NobodySquares
  <2>5. \A s \in Squarers : task'[s] = task[s]
    BY <1>0, <2>3 DEF Workers
  <2>6. SessionFits'
    BY <1>2, <2>1, <2>4 DEF Close, SlotInv, SessionFits
  <2>7. SquarersWait' /\ NobodySquares'
    BY <2>4, <2>5 DEF SlotInv, SquarersWait, NobodySquares, Asking
  <2>8. CycleWaits(c)'
    BY <2>3, <2>4, <2>7 DEF CycleWaits, Quiet, Busy, Asking
  <2> QED
    BY <2>6, <2>7, <2>8 DEF SlotInv
<1> QED
  BY <1>1, <1>2

\* The check lets the cycle go on to analyse, or to close for the day, only from a
\* session that calls the slot free.
LEMMA CycleChecksSlot ==
  ASSUME NEW c, Cyclers = {c}, SlotInv(c), TypeInv, Check(c)
  PROVE  SlotInv(c)'
<1> DEFINE t == task[c]
           Others == \A v \in Workers \ {c} : task'[v] = task[v]
<1>0. c \in Workers /\ t \in Task /\ task \in [Workers -> SoundTask]
  BY DEF TypeInv, SoundTask, Workers
<1>1. session' = session /\ OpenRows' = OpenRows
  BY DEF Check, OpenRows
<1>2. CASE Ends(c)
  BY <1>0, <1>1, <1>2, ReturnEffect, CycleActs DEF Busy, Asking
<1>3. CASE Legal(session, Head(t.plan)) /\ task' = [task EXCEPT ![c].pc = "save"]
  <2>1. task'[c] = [t EXCEPT !.pc = "save"] /\ Others
    BY <1>0, <1>3
  <2>2. task'[c].pc = "save" /\ task'[c].plan = t.plan /\ task'[c].next = t.next /\ t.pc = "ask"
    BY <1>0, <2>1 DEF Task, Check
  <2>3. Asked(c)' = Asked(c) /\ Asking(c) /\ Asking(c)'
    BY <2>2 DEF Asked, Asking
  <2>4. CASE Asked(c) \in {ScanAsk, ShutAsk}
    <3>1. Head(t.plan) \in {"analyzing", "market_closed"}
      BY <2>4 DEF Asked, ScanAsk, ShutAsk
    <3>2. session \in Free
      BY <1>3, <3>1 DEF Legal, AlwaysReachable, Allowed, SlotInv, SessionFits, Reached, Free
    <3>3. Unheld /\ NobodySquares
      BY <3>2 DEF SlotInv, SessionFits, SquarersWait, NobodySquares
    <3> QED
      BY <1>1, <2>1, <2>2, <2>3, <2>4, <3>3, CycleActs DEF Quiet
  <2>5. CASE Asked(c) \in QuietAsks
    <3>1. Unheld /\ NobodySquares
      BY <2>3, <2>5 DEF SlotInv, CycleWaits, Quiet
    <3> QED
      BY <1>1, <2>1, <2>2, <2>3, <2>5, <3>1, CycleActs DEF Quiet
  <2>6. CASE Asked(c) \in BusyAsks
    BY <1>1, <2>1, <2>2, <2>3, <2>6, CycleActs, AsksDiffer DEF Busy
  <2> QED
    BY <2>2, <2>4, <2>5, <2>6 DEF SlotInv, CycleWaits, Quiet, Busy
<1> QED
  BY <1>2, <1>3 DEF Check

\* What is left to ask for, and where the task goes on, after a save.
LEMMA AsksGoOn ==
  /\ \A a : Head(<<a>>) = a /\ Tail(<<a>>) = <<>>
  /\ \A a, b : Head(<<a, b>>) = a /\ Tail(<<a, b>>) = <<b>> /\ <<b>> # <<>>
OBVIOUS

\* What a save leaves in the task.
LEMMA SaveEffect ==
  ASSUME TypeInv, NEW w \in Workers, Save(w)
  PROVE  LET t == task[w]
         IN  /\ session' = Head(t.plan) /\ OpenRows' = OpenRows
             /\ \A v \in Workers \ {w} : task'[v] = task[v]
             /\ Tail(t.plan) # <<>>
                  => task'[w].pc = "ask" /\ task'[w].plan = Tail(t.plan) /\ task'[w].next = t.next
             /\ Tail(t.plan) = <<>> => task'[w].pc = t.next
<1> DEFINE t == task[w]
<1>0. t \in Task /\ task \in [Workers -> SoundTask]
  BY DEF TypeInv, SoundTask
<1>1. session' = Head(t.plan) /\ OpenRows' = OpenRows
  BY DEF Save, OpenRows
<1>2. CASE Tail(t.plan) # <<>>
  <2>1. task' = [task EXCEPT ![w].pc = "ask", ![w].plan = Tail(t.plan)]
    BY <1>2 DEF Save
  <2>2. \A v \in Workers \ {w} : task'[v] = task[v]
    BY <1>0, <2>1
  <2>3. task'[w].pc = "ask" /\ task'[w].plan = Tail(t.plan) /\ task'[w].next = t.next
    BY <1>0, <2>1 DEF Task
  <2> QED
    BY <1>1, <1>2, <2>2, <2>3
<1>3. CASE Tail(t.plan) = <<>> /\ t.next = "idle"
  <2>1. Ends(w)
    BY <1>3 DEF Save
  <2> QED
    BY <1>1, <1>3, <2>1, ReturnEffect
<1>4. CASE Tail(t.plan) = <<>> /\ t.next # "idle"
  <2>1. task' = [task EXCEPT ![w].pc = t.next, ![w].plan = <<>>, ![w].next = "idle"]
    BY <1>4 DEF Save
  <2>2. \A v \in Workers \ {w} : task'[v] = task[v]
    BY <1>0, <2>1
  <2>3. task'[w].pc = t.next
    BY <1>0, <2>1 DEF Task
  <2> QED
    BY <1>1, <1>4, <2>2, <2>3
<1> QED
  BY <1>2, <1>3, <1>4

\* The save of a state the cycle asked for: quietly, the slot is its own; busily, the
\* state does not call the slot free.
LEMMA CycleSavesSlot ==
  ASSUME NEW c, Cyclers = {c}, SlotInv(c), TypeInv, Save(c)
  PROVE  SlotInv(c)'
<1> DEFINE t == task[c]
           Others == \A v \in Workers \ {c} : task'[v] = task[v]
<1>0. c \in Workers /\ Others /\ OpenRows' = OpenRows /\ t.pc = "save"
  BY SaveEffect DEF Workers, Save
<1>1. session' = Head(t.plan)
  BY <1>0, SaveEffect
<1>2. ASSUME Tail(t.plan) # <<>>
      PROVE  task'[c].pc = "ask" /\ Asked(c)' = <<Tail(t.plan), t.next>>
  BY <1>0, <1>2, SaveEffect DEF Asked
<1>3. ASSUME Tail(t.plan) = <<>> PROVE task'[c].pc = t.next
  BY <1>0, <1>3, SaveEffect
<1>4. CASE Asked(c) \in QuietAsks \union {ScanAsk, ShutAsk}
  <2>1. Unheld /\ NobodySquares
    BY <1>0, <1>4 DEF SlotInv, CycleWaits, Quiet, Asking
  <2>2. CASE Asked(c) \in {<<<<"flat">>, "look">>, <<<<"flat">>, "idle">>,
                           <<<<"cooldown">>, "idle">>, ShutAsk}
    <3>1. /\ session' \in {"flat", "cooldown", "market_closed"}
          /\ task'[c].pc \in {"look", "idle"}
      BY <1>1, <1>3, <2>2, AsksGoOn DEF Asked, ShutAsk
    <3> QED
      BY <1>0, <2>1, <3>1, CycleMoves DEF Busy, Asking, Reached, Free
  <2>3. CASE Asked(c) = ScanAsk
    <3>1. session' = "analyzing" /\ task'[c].pc = "evaluate"
      BY <1>1, <1>3, <2>3, AsksGoOn DEF Asked, ScanAsk
    <3> QED
      BY <1>0, <2>1, <3>1, CycleMoves DEF Quiet, Asking, Reached, Free
  <2>4. CASE Asked(c) = <<<<"order_pending">>, "submit">>
    <3>1. session' = "order_pending" /\ task'[c].pc = "submit"
      BY <1>1, <1>3, <2>4, AsksGoOn DEF Asked
    <3> QED
      BY <1>0, <2>1, <3>1, CycleMoves DEF Quiet, Asking, Reached, Free
  <2>5. CASE Asked(c) \in {<<<<"entry_candidate", "order_pending">>, "submit">>,
                           <<<<"position_closed", "flat">>, "idle">>,
                           <<<<"position_closed", "cooldown">>, "idle">>}
    <3>1. session' \in {"entry_candidate", "position_closed"} /\ Tail(t.plan) # <<>>
      BY <1>1, <2>5, AsksGoOn DEF Asked
    <3>2. <<Tail(t.plan), t.next>> \in QuietAsks
      BY <2>5, AsksGoOn DEF Asked, QuietAsks
    <3>3. task'[c].pc = "ask" /\ Asked(c)' \in QuietAsks
      BY <1>2, <3>1, <3>2
    <3> QED
      BY <1>0, <2>1, <3>1, <3>3, CycleMoves DEF Quiet, Asking, Reached, Free
  <2> QED
    BY <1>4, <2>2, <2>3, <2>4, <2>5 DEF QuietAsks
<1>5. CASE Asked(c) \in BusyAsks
  <2>1. /\ session' \in {"position_management", "position_open", "exit_pending", "error_safe_mode"}
        /\ task'[c].pc \in {"manage", "idle", "close"}
    BY <1>1, <1>3, <1>5, AsksGoOn DEF Asked, BusyAsks
  <2> QED
    BY <1>0, <2>1, CycleMoves DEF Busy, Asking, Reached, Free
<1> QED
  BY <1>0, <1>4, <1>5 DEF SlotInv, CycleWaits, Quiet, Busy

\* What a step of a square-off does to the cycle and the other square-offs.
LEMMA SquarerAlone ==
  ASSUME NEW c, Cyclers = {c}, SlotInv(c), NEW s \in Squarers,
         \A v \in Workers \ {s} : task'[v] = task[v],
         session' = session, OpenRows' = OpenRows,
         \/ task'[s].pc \in {"idle", "close"}
         \/ task'[s].pc = "save" /\ Asking(s) /\ Asked(s)' = Asked(s)
  PROVE  SlotInv(c)'
<1>1. c \in Workers /\ c # s /\ s \in Workers
  BY ConstantsAssumption DEF Workers
<1>2. /\ task'[c] = task[c] /\ \A u \in Squarers \ {s} : task'[u] = task[u]
      /\ Asking(s)' => Asking(s) /\ Asked(s)' = Asked(s)
  BY <1>1 DEF Workers, Asking
<1>3. \A u \in Squarers : Asking(u)' => Asking(u) /\ Asked(u)' = Asked(u)
  BY <1>2 DEF Asking, Asked
<1>4. \A u \in Squarers : task'[u].pc \in {"idle", "ask", "save", "close"}
  BY <1>2 DEF SlotInv, SquarersWait
<1>5. SquarersWait' /\ SessionFits'
  BY <1>3, <1>4 DEF SlotInv, SquarersWait, SessionFits, Unheld
<1>6. /\ (Quiet(c)' <=> Quiet(c)) /\ (Busy(c)' <=> Busy(c))
      /\ (Asking(c)' <=> Asking(c)) /\ Asked(c)' = Asked(c)
  BY <1>2 DEF Quiet, Busy, Asking, Asked
<1>7. CycleWaits(c)'
  BY <1>2, <1>3, <1>6 DEF SlotInv, CycleWaits, NobodySquares, Unheld, ScanAsk
<1> QED
  BY <1>5, <1>7 DEF SlotInv

\* A square-off takes the slot from a busy cycle only, and declares it free once it is.
LEMMA SquarerSteps ==
  ASSUME NEW c, Cyclers = {c}, SlotInv(c), TypeInv, NEW s \in Squarers,
         StartSquareOff(s) \/ Transition(s) \/ Closing(s) \/ Crash(s)
  PROVE  SlotInv(c)'
<1> DEFINE t == task[s]
           Others == \A v \in Workers \ {s} : task'[v] = task[v]
<1>0. /\ s \in Workers /\ s \notin Cyclers /\ c \in Workers /\ c # s
      /\ t \in Task /\ Idle \in Task /\ task \in [Workers -> SoundTask]
  BY ConstantsAssumption, InitialTypes DEF TypeInv, SoundTask, Workers
<1>1. ASSUME task'[s].pc \in {"idle", "close"}, Others, UNCHANGED <<session, row>>
      PROVE  SlotInv(c)'
  BY <1>1, SquarerAlone DEF OpenRows
<1>2. CASE CloseRejected(s) \/ CloseTooLate(s) \/ Crash(s)
  BY <1>0, <1>1, <1>2, ReturnEffect DEF CloseRejected, CloseTooLate, Crash
<1>3. CASE StartSquareOff(s)
  <2>1. PICK n \in OpenRows :
          task' = [task EXCEPT ![s] = [Idle EXCEPT !.pc = "close", !.n = n, !.seen = account]]
    BY <1>3 DEF StartSquareOff
  <2>2. [Idle EXCEPT !.pc = "close", !.n = n, !.seen = account].pc = "close"
    BY <1>0 DEF Task
  <2>3. task'[s].pc = "close" /\ Others
    BY <1>0, <2>1, <2>2
  <2> QED
    BY <1>1, <1>3, <2>3 DEF StartSquareOff
<1>4. CASE Check(s)
  <2>1. CASE Ends(s)
    BY <1>0, <1>1, <1>4, <2>1, ReturnEffect DEF Check
  <2>2. CASE task' = [task EXCEPT ![s].pc = "save"]
    <3>1. task'[s] = [t EXCEPT !.pc = "save"] /\ Others
      BY <1>0, <2>2
    <3>2. task'[s].pc = "save" /\ Asked(s)' = Asked(s) /\ Asking(s)
      BY <1>0, <1>4, <3>1 DEF Task, Check, Asking, Asked
    <3> QED
      BY <1>4, <3>1, <3>2, SquarerAlone DEF Check, OpenRows
  <2> QED
    BY <1>4, <2>1, <2>2 DEF Check
<1>5. CASE Save(s)
  <2>1. Asking(s)
    BY <1>5 DEF Save, Asking
  <2>2. /\ t.plan = <<"flat">> /\ t.next = "idle" /\ Unheld /\ session \notin Free
        /\ ~Quiet(c) /\ \A u \in Squarers \ {s} : ~Asking(u)
    BY <2>1 DEF SlotInv, SquarersWait, CycleWaits, NobodySquares, Asked
  <2>3. session' = "flat" /\ OpenRows' = OpenRows /\ Others /\ task'[s].pc = "idle"
    <3>1. Head(t.plan) = "flat" /\ Tail(t.plan) = <<>>
      BY <2>2, AsksGoOn
    <3> QED
      BY <1>0, <1>5, <2>2, <3>1, SaveEffect
  <2>4. task'[c] = task[c] /\ \A u \in Squarers \ {s} : task'[u] = task[u]
    BY <1>0, <2>3 DEF Workers
  <2>5. SquarersWait'
    BY <2>2, <2>3, <2>4 DEF SlotInv, SquarersWait, Asking
  <2>6. CycleWaits(c)'
    BY <2>2, <2>3, <2>4 DEF SlotInv, CycleWaits, Quiet, Busy, Asking, Asked, Unheld, ScanAsk
  <2> QED
    BY <2>2, <2>3, <2>5, <2>6 DEF SlotInv, SessionFits, Unheld, Reached, Free
<1>6. CASE Close(s)
  <2>1. t.n \in OpenRows /\ OpenRows' = OpenRows \ {t.n}
    BY <1>0, <1>6, OpenRowsAtClose
  <2>2. session' = session /\ Finish(s, <<"flat">>)
    BY <1>0, <1>6 DEF Close
  <2>3. task'[s].pc = "ask" /\ Asked(s)' = <<<<"flat">>, "idle">> /\ Others
    BY <1>0, <2>2, ReturnEffect DEF Asked
  <2>4. task'[c] = task[c] /\ \A u \in Squarers \ {s} : task'[u] = task[u]
    BY <1>0, <2>3 DEF Workers
  <2>5. Unheld' /\ session \notin Free /\ ~Quiet(c) /\ NobodySquares
    BY <2>1 DEF SlotInv, SessionFits, SquarersWait, CycleWaits, Unheld, NobodySquares
  <2>6. SquarersWait'
    BY <2>2, <2>3, <2>4, <2>5 DEF SlotInv, SquarersWait, NobodySquares, Asking, Asked
  <2>7. CycleWaits(c)'
    BY <2>2, <2>4, <2>5 DEF SlotInv, CycleWaits, Quiet, Busy, Asking, Asked, Unheld, ScanAsk
  <2> QED
    BY <2>1, <2>2, <2>5, <2>6, <2>7 DEF SlotInv, SessionFits
<1> QED
  BY <1>2, <1>3, <1>4, <1>5, <1>6 DEF Transition, Closing

\* SlotInv is inductive relative to TypeInv.
LEMMA SlotStep ==
  ASSUME NEW c, Cyclers = {c}, SlotInv(c), TypeInv, [Next]_vars
  PROVE  SlotInv(c)'
<1>1. CASE Cycle(c) \/ Transition(c) \/ Closing(c) \/ Crash(c)
  BY <1>1, CycleStepsSlot, CycleTradesSlot, CycleChecksSlot, CycleSavesSlot
     DEF Cycle, Entering, Managing, Transition, Closing
<1>2. ASSUME NEW s \in Squarers, StartSquareOff(s) \/ Transition(s) \/ Closing(s) \/ Crash(s)
      PROVE  SlotInv(c)'
  BY <1>2, SquarerSteps
<1>3. CASE UNCHANGED vars
  BY <1>3 DEF vars, SlotInv, SessionFits, SquarersWait, CycleWaits, NobodySquares, Quiet, Busy,
              Asking, Asked, Unheld, OpenRows, ScanAsk
<1> QED
  BY <1>1, <1>2, <1>3 DEF Next, Workers

\* The program starts with a free slot.
LEMMA SlotInit ==
  ASSUME NEW c, Cyclers = {c}, Init
  PROVE  SlotInv(c)
BY DEF Init, SlotInv, SessionFits, SquarersWait, CycleWaits, NobodySquares, Quiet, Busy, Asking,
       Asked, Unheld, OpenRows, NoRow, RowOf, Idle, Workers, Reached, Free, ScanAsk

\* With one cycle, any square-offs and any crashes: the session never says that the
\* slot is free while a position is open, though whoever closes or opens the position
\* tells the session in a later step.
THEOREM OneCycleKeepsSlot ==
  ASSUME NEW CONSTANT c, Cyclers = {c}
  PROVE  Spec => []SlotIsFreeWhenScanning
<1>1. Init => SlotInv(c)
  BY SlotInit
<1>2. TypeInv /\ SlotInv(c) /\ [Next]_vars => SlotInv(c)'
  BY SlotStep
<1>3. SlotInv(c) => SlotIsFreeWhenScanning
  BY DEF SlotInv, SessionFits, Unheld, Free, SlotIsFreeWhenScanning
<1> QED
  BY <1>1, <1>2, <1>3, TypeInvariance, PTL DEF Spec

-----------------------------------------------------------------------------
(* Capital in use *)

\* No fill lies about: the one there may be is held by the cycle that is about to
\* turn it into a position.
HeldBy(c) ==
  \A n \in Entries : row[n].fate = "filled" => task[c].pc = "open" /\ task[c].n = n

\* A step that places no order leaves no new fill.
LEMMA NoNewFill ==
  ASSUME TypeInv, NEW w \in Workers, UNCHANGED row \/ Hold(w) \/ Trail(w) \/ Close(w)
  PROVE  \A n \in Entries : row'[n].fate = "filled" => row[n].fate = "filled"
<1> DEFINE t == task[w]
<1>0. row \in [Entries -> Row] /\ t \in SoundTask
  BY DEF TypeInv, TypeOK
<1>1. CASE Hold(w) \/ Trail(w)
  <2>1. t.n \in Entries
    BY <1>0, <1>1 DEF Hold, Trail, SoundTask, HasRow
  <2>2. \/ row' = row
        \/ \E x : row' = [row EXCEPT ![t.n].stop = x]
        \/ \E x : row' = [row EXCEPT ![t.n].trail = x]
    BY <1>1 DEF Hold, Trail
  <2> QED
    BY <1>0, <2>1, <2>2, FieldsKept
<1>2. CASE Close(w)
  <2>1. t.n \in Entries /\ row[t.n] \in Row
    BY <1>2, CloseEffect
  <2>2. PICK result : row' = [row EXCEPT ![t.n].fate = "closed", ![t.n].result = result]
    BY <1>2, CloseEffect
  <2>3. row'[t.n].fate = "closed"
    BY <1>0, <2>1, <2>2 DEF Row
  <2>4. \A n \in Entries \ {t.n} : row'[n] = row[n]
    BY <1>0, <2>2
  <2> QED
    BY <2>3, <2>4
<1> QED
  BY <1>1, <1>2

\* HeldBy is inductive, given SlotInv, as long as no worker dies.
LEMMA HeldByStep ==
  ASSUME NEW c, Cyclers = {c}, SlotInv(c), TypeInv, crashes = 0 => HeldBy(c), [Next]_vars
  PROVE  (crashes = 0 => HeldBy(c))'
<1> DEFINE t == task[c]
<1>0. /\ row \in [Entries -> Row] /\ task \in [Workers -> SoundTask] /\ crashes \in Nat
      /\ c \in Workers /\ c \in Cyclers /\ c \notin Squarers
  BY ConstantsAssumption DEF TypeInv, TypeOK, Workers
<1>1. ASSUME NEW w \in Workers, Crash(w) PROVE crashes' # 0
  BY <1>0, <1>1 DEF Crash
<1>2. ASSUME crashes = 0, NEW w \in Workers, UNCHANGED row \/ Hold(w) \/ Trail(w) \/ Close(w),
             t.pc # "open" \/ task'[c] = t
      PROVE  HeldBy(c)'
  BY <1>2, NoNewFill DEF HeldBy
<1>3. ASSUME crashes = 0, OpenPosition(c) PROVE HeldBy(c)'
  <2>1. t.pc = "open" /\ Unheld
    BY <1>3 DEF OpenPosition, SlotInv, CycleWaits, Quiet
  <2>2. t.n \in Entries /\ row' = [row EXCEPT ![t.n] = Opened(c)]
    BY <1>0, <1>3, <2>1 DEF OpenPosition, Unheld, SoundTask, HasRow
  <2>3. row'[t.n].fate = "open" /\ \A n \in Entries \ {t.n} : row'[n] = row[n]
    BY <1>0, <2>2 DEF Opened, RowOf
  <2> QED
    BY <1>3, <2>3 DEF HeldBy
<1>4. ASSUME crashes = 0, SubmitFilled(c) PROVE HeldBy(c)'
  <2> DEFINE k == CHOOSE i \in Unused : TRUE
             new == [t EXCEPT !.pc = "open", !.n = k]
  <2>1. k \in Entries /\ t.pc = "submit" /\ task' = [task EXCEPT ![c] = new]
    BY <1>4 DEF SubmitFilled, Unused
  <2>2. new.pc = "open" /\ new.n = k
    BY <1>0 DEF SoundTask, Task
  <2>3. task'[c].pc = "open" /\ task'[c].n = k
    BY <1>0, <2>1, <2>2
  <2>4. \A n \in Entries \ {k} : row'[n] = row[n]
    BY <1>0, <1>4 DEF SubmitFilled
  <2> QED
    BY <1>4, <2>1, <2>3, <2>4 DEF HeldBy
<1>5. ASSUME crashes = 0, Cycle(c) PROVE HeldBy(c)'
  <2>1. CASE Hold(c) \/ Trail(c)
    BY <1>0, <1>2, <1>5, <2>1 DEF Hold, Trail
  <2>2. CASE \/ MarketClosed(c) \/ StartCycle(c) \/ Look(c) \/ Decline(c) \/ Propose(c)
             \/ SubmitRejected(c) \/ SubmitForbidden(c) \/ NoQuote(c) \/ TriggerExit(c)
    <3>1. Idle.pc = "idle"
      BY DEF Idle
    <3>2. t.pc # "open"
      BY <2>2, <3>1
         DEF MarketClosed, StartCycle, Look, Decline, Propose, SubmitRejected, SubmitForbidden,
             NoQuote, TriggerExit
    <3>3. UNCHANGED row
      BY <2>2 DEF MarketClosed, StartCycle, Look, Decline, Propose, SubmitRejected,
                  SubmitForbidden, NoQuote, TriggerExit
    <3> QED
      BY <1>0, <1>2, <1>5, <3>2, <3>3
  <2> QED
    BY <1>3, <1>4, <1>5, <2>1, <2>2 DEF Cycle, Entering, Managing
<1>6. ASSUME crashes = 0, Transition(c) \/ Closing(c) PROVE HeldBy(c)'
  <2>1. t.pc # "open" /\ (UNCHANGED row \/ Close(c))
    BY <1>6 DEF Transition, Check, Save, Closing, Close, CloseRejected, CloseTooLate
  <2> QED
    BY <1>0, <1>2, <1>6, <2>1
<1>7. ASSUME crashes = 0, NEW s \in Squarers, StartSquareOff(s) \/ Transition(s) \/ Closing(s)
      PROVE  HeldBy(c)'
  <2>1. s \in Workers /\ s # c
    BY <1>0, <1>7 DEF Workers
  <2>2. UNCHANGED row \/ Close(s)
    BY <1>7 DEF StartSquareOff, Transition, Check, Save, Closing, CloseRejected, CloseTooLate
  <2>3. task'[c] = t
    <3>1. Stays(s)
      BY <1>7, <2>1, LeavesByStep, StaysByTransition DEF Leaves
    <3> QED
      BY <1>0, <2>1, <3>1 DEF Stays
  <2> QED
    BY <1>2, <1>7, <2>1, <2>2, <2>3
<1>8. CASE UNCHANGED vars
  BY <1>8 DEF vars, HeldBy
<1>9. crashes' = 0 => crashes = 0 /\ \A w \in Workers : ~Crash(w)
  <2>1. crashes' = crashes \/ crashes' = crashes + 1
    BY DEF Next, vars, Cycle, MarketClosed, StartCycle, Look, Entering, Decline, Propose,
           SubmitFilled, SubmitRejected, SubmitForbidden, OpenPosition, Managing, NoQuote,
           TriggerExit, Hold, Trail, StartSquareOff, Transition, Check, Save, Closing, Close,
           CloseRejected, CloseTooLate, Crash
  <2> QED
    BY <1>0, <1>1, <2>1
<1> QED
  BY <1>5, <1>6, <1>7, <1>8, <1>9 DEF Next, Workers

\* With one cycle, capital is in use only for an open position or for a fill that the
\* running cycle is about to turn into one, until a worker dies. A death in between
\* leaves the order filled and its capital reserved for good; so does a second cycle.
THEOREM OneCycleBacksCapital ==
  ASSUME NEW CONSTANT c, Cyclers = {c}
  PROVE  Spec => [](crashes = 0 => UsedCapitalIsBacked)
<1>1. Init => SlotInv(c) /\ (crashes = 0 => HeldBy(c))
  BY SlotInit DEF Init, HeldBy, NoRow, RowOf
<1>2. TypeInv /\ SlotInv(c) /\ [Next]_vars => SlotInv(c)'
  BY SlotStep
<1>3. TypeInv /\ SlotInv(c) /\ (crashes = 0 => HeldBy(c)) /\ [Next]_vars
        => (crashes = 0 => HeldBy(c))'
  BY HeldByStep
<1>4. (crashes = 0 => HeldBy(c)) => (crashes = 0 => UsedCapitalIsBacked)
  BY DEF HeldBy, UsedCapitalIsBacked
<1> QED
  BY <1>1, <1>2, <1>3, <1>4, TypeInvariance, PTL DEF Spec

=============================================================================
