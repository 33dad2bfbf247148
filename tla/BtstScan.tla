------------------------------- MODULE BtstScan -------------------------------
(***************************************************************************)
(* The daily scan for overnight trades (apps/investing/btst.py): one row   *)
(* per trading day, taken by the first task that asks for it, a signal or  *)
(* a reason for each stock it comes to, and a deadline ten minutes after   *)
(* the half hour. The beat's message may be delivered more than once.      *)
(*                                                                         *)
(* Time is in minutes since 14:30, prices are in paise; the averages that  *)
(* pandas computes are inputs.                                             *)
(***************************************************************************)
EXTENDS Integers, Sequences, FiniteSets

CONSTANTS
  Workers,     \* processes of the priority queue
  Watched,     \* the watchlisted stocks, a sequence
  Days,        \* calendar days, 1..Days
  Sessions,    \* those that are trading days of the verified calendar
  MaxMinutes, MaxMessages    \* bounds: the clock of a day, the deliveries

Stocks == {Watched[k] : k \in DOMAIN Watched}

\* The query for the stocks is distinct; no symbol is the key of the scan's own reason.
BtstAssumption ==
  /\ {Days, MaxMessages} \subseteq Nat \ {0} /\ MaxMinutes \in Nat /\ MaxMinutes > 10
  /\ Sessions \subseteq 1..Days
  /\ Watched \in Seq(Stocks) /\ "scan" \notin Stocks
  /\ \A i, j \in DOMAIN Watched : Watched[i] = Watched[j] => i = j

VARIABLES
  run,       \* BTSTRun of each day, Missing if there is none
  signals,   \* BTSTSignal: <<day, stock>> -> exit session, a partial function
  scan,      \* what each worker does
  day, minute,
  messages

vars == <<run, signals, scan, day, minute, messages>>

Missing == [status |-> "missing", scanned |-> 0, reasons |-> {}, count |-> 0]
Idle == [pc |-> "idle", day |-> 0, left |-> <<>>, scanned |-> 0, reasons |-> {}]

Init ==
  /\ run = [d \in 1..Days |-> Missing] /\ signals = << >>
  /\ scan = [w \in Workers |-> Idle]
  /\ day = 1 /\ minute = 0 /\ messages = 0

\* 0 after the last session that the calendar knows: there is no signal then.
NextSession(d) ==
  IF \E e \in Sessions : e > d THEN CHOOSE e \in Sessions : e > d /\ \A f \in Sessions : f > d => e <= f
  ELSE 0

-----------------------------------------------------------------------------
(* One setup *)

\* evaluate_setup after its checks of the inputs: x has the close, the two
\* averages, the true range, the session's low and high, the levels that the
\* strategies break, and whether the volume is large enough.
Matches(x) ==
  (IF x.close > x.breakout THEN {"trend_breakout"} ELSE {})
    \union (IF x.inside /\ x.close > x.high2 THEN {"inside_day_breakout"} ELSE {})
    \union (IF /\ 2 * x.ema20 - x.atr <= 2 * x.low /\ 4 * x.low <= 4 * x.ema20 + x.atr
               /\ x.close > x.high1 /\ x.close > x.open THEN {"ema_pullback"} ELSE {})
    \union (IF x.close > x.openingHigh /\ x.close > x.vwap /\ x.close > x.high1
            THEN {"opening_range_vwap"} ELSE {})

NoSetup == [entry |-> 0, stop |-> 0, target |-> 0]

\* Python rounds a half to the even neighbour.
EvenHalf(n) == IF n % 2 = 1 /\ (n \div 2) % 2 = 1 THEN n \div 2 + 1 ELSE n \div 2

\* The target is 1.5 times the risk away, rounded to a paisa.
Setup(x) ==
  LET stop == IF x.low > x.close - x.atr THEN x.low ELSE x.close - x.atr
      risk == x.close - stop
      strong == x.high > x.low /\ 10 * (x.close - x.low) >= 8 * (x.high - x.low)
  IN IF \/ x.atr <= 0 \/ ~(x.close > x.ema20 /\ x.ema20 > x.ema50) \/ ~x.volume \/ ~strong
        \/ Matches(x) = {} \/ risk <= 0 \/ 100 * risk > 3 * x.close
     THEN NoSetup
     ELSE [entry |-> x.close, stop |-> stop,
           target |-> EvenHalf(2 * x.close + 3 * risk)]

-----------------------------------------------------------------------------
(* The scan *)

Open == day \in Sessions /\ minute < 10

\* A message is skipped outside the window; the run row decides who scans.
Deliver(w) ==
  /\ scan[w].pc = "idle" /\ messages < MaxMessages /\ Open
  /\ messages' = messages + 1
  /\ IF run[day] = Missing
       THEN /\ run' = [run EXCEPT ![day].status = "running"]
            /\ scan' = [scan EXCEPT ![w] = [Idle EXCEPT !.pc = "scan", !.day = day, !.left = Watched]]
       ELSE UNCHANGED <<run, scan>>
  /\ UNCHANGED <<signals, day, minute>>

Late(w) == minute >= 10 \/ day # scan[w].day

\* One stock: the deadline, then a signal or the reason why there is none. An
\* exception is a reason too, next_session's for a day without a next one.
Stock(w) ==
  LET x == scan[w]
      stock == Head(x.left)
      d == x.day
      seen == [x EXCEPT !.left = Tail(@), !.scanned = @ + 1]
  IN /\ x.pc = "scan" /\ x.left # <<>>
     /\ IF Late(w)
          THEN /\ scan' = [scan EXCEPT ![w] = [x EXCEPT !.left = <<>>, !.reasons = @ \union {"scan"}]]
               /\ UNCHANGED signals
          ELSE \/ /\ NextSession(d) # 0
                  /\ signals' = [p \in DOMAIN signals \union {<<d, stock>>} |->
                                   IF p = <<d, stock>> THEN NextSession(d) ELSE signals[p]]
                  /\ scan' = [scan EXCEPT ![w] = seen]
               \/ /\ scan' = [scan EXCEPT ![w] = [seen EXCEPT !.reasons = @ \union {stock}]]
                  /\ UNCHANGED signals
     /\ UNCHANGED <<run, day, minute, messages>>

SignalsOf(d) == {p \in DOMAIN signals : p[1] = d}

\* The instrument file or the broker's session is not to be had.
Fail(w) ==
  LET x == scan[w]
  IN /\ x.pc = "scan" /\ x.left = Watched
     /\ scan' = [scan EXCEPT ![w] = [x EXCEPT !.pc = "failed", !.left = <<>>, !.reasons = {"scan"}]]
     /\ UNCHANGED <<run, signals, day, minute, messages>>

Finish(w) ==
  LET x == scan[w]
  IN /\ x.pc \in {"scan", "failed"} /\ x.left = <<>>
     /\ run' = [run EXCEPT ![x.day] =
          [status |-> IF x.pc = "failed" THEN "failed"
                      ELSE IF "scan" \in x.reasons THEN "partial" ELSE "completed",
           scanned |-> x.scanned, reasons |-> x.reasons, count |-> Cardinality(SignalsOf(x.day))]]
     /\ scan' = [scan EXCEPT ![w] = Idle]
     /\ UNCHANGED <<signals, day, minute, messages>>

\* The day's row stays at running, and no later message scans again.
Die(w) ==
  /\ scan[w].pc # "idle"
  /\ scan' = [scan EXCEPT ![w] = Idle]
  /\ UNCHANGED <<run, signals, day, minute, messages>>

Minute ==
  /\ \/ minute < MaxMinutes /\ minute' \in {m \in {1, 9, 10, MaxMinutes} : m > minute} /\ UNCHANGED day
     \/ minute = MaxMinutes /\ day < Days /\ day' = day + 1 /\ minute' = 0
  /\ UNCHANGED <<run, signals, scan, messages>>

Step(w) == Deliver(w) \/ Stock(w) \/ Fail(w) \/ Finish(w) \/ Die(w)

Next == Minute \/ \E w \in Workers : Step(w)

Spec == Init /\ [][Next]_vars

-----------------------------------------------------------------------------
(* Properties *)

Finished == {"completed", "partial", "failed"}

\* The types of the rows (apps/investing/models.py); an exit is a later session.
TypeOK ==
  /\ \A d \in 1..Days : /\ run[d].status \in Finished \union {"missing", "running"}
                        /\ run[d].reasons \subseteq Stocks \union {"scan"}
  /\ \A p \in DOMAIN signals : p \in (1..Days) \X Stocks /\ signals[p] \in Sessions /\ signals[p] > p[1]
  /\ \A w \in Workers : scan[w].pc \in {"idle", "scan", "failed"}

\* A day is scanned by one worker at most, however often its message comes.
OneScanPerDay ==
  \A v, w \in Workers : v # w /\ scan[v].pc # "idle" /\ scan[w].pc # "idle" => scan[v].day # scan[w].day

\* A finished row accounts for its signals and for every stock: one signal or
\* one reason for each that was scanned, all of them when it is completed, and
\* it is completed only if nothing was cut off. No signal belongs to a day
\* without a row, and those of a finished one stay as it says.
RunsAccount ==
  \A d \in 1..Days :
    LET row == run[d]
        found == {p[2] : p \in SignalsOf(d)}
    IN /\ row.status = "missing" => found = {}
       /\ row.status \in Finished =>
            /\ row.count = Cardinality(found) /\ found \intersect row.reasons = {}
            /\ row.scanned = Cardinality(found \union (row.reasons \ {"scan"}))
            /\ row.status = "completed" <=> found \union row.reasons = Stocks

\* The levels that a client sees are in order, with a risk of three percent at
\* most and half as much again to win, up to the rounding of a paisa.
LevelsAreSane(x) ==
  LET s == Setup(x)
      risk == s.entry - s.stop
  IN s # NoSetup =>
       /\ s.stop < s.entry /\ s.entry < s.target /\ s.stop >= x.low
       /\ 100 * risk <= 3 * s.entry
       /\ 2 * (s.target - s.entry) \in (3 * risk - 1)..(3 * risk + 1)
===============================================================================
