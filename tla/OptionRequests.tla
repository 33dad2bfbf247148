--------------------------- MODULE OptionRequests ---------------------------
(***************************************************************************)
(* Manual option orders (apps/execution/option_views, option_trading): one *)
(* durable request per client UUID, carried out by a web handler in        *)
(* several transactions, while the broker, the reconciler, the beat sweep, *)
(* the mode switch and repeats of the same POST go on beside it.           *)
(*                                                                         *)
(* One step is one committed transaction with the reads before it.  The    *)
(* broker, the kill switch and the ticket's checks are choices; handler[h] *)
(* is the volatile state of a web request, lost in a crash.                *)
(***************************************************************************)
EXTENDS Naturals, FiniteSets

CONSTANTS
  Buys,        \* request ids of "buy" tickets
  Sells,       \* request ids of "sell" tickets, all for one held position
  Handlers,    \* web requests running at once
  MaxCrashes   \* bound: handlers lost

Keys == Buys \union Sells
Modes == {"paper", "live"}

RequestAssumption == Buys \intersect Sells = {} /\ MaxCrashes \in Nat

VARIABLES
  mode,      \* ExecutionModeSetting.mode
  request,   \* OptionTradeRequest rows: status, mode, linked (signal or position)
  signal,    \* the TradingSignal a buy created
  opening,   \* the BrokerOrder that opens it
  position,  \* the OpenPosition of a buy
  held,      \* the position the sells name: its mode, open or closed
  exit,      \* its closing BrokerOrder
  handler,   \* running requests
  answers,   \* answers[k]: every status a client was told for k
  entries,   \* entries[k]: trades submitted or booked for k
  crashes

vars == <<mode, request, signal, opening, position, held, exit, handler, answers, entries, crashes>>
world == <<signal, opening, position, held, exit, entries>>

Idle == [pc |-> "idle", key |-> "none", clean |-> FALSE, uncertain |-> FALSE]

Init ==
  /\ mode \in Modes
  /\ request = [k \in Keys |-> [status |-> "none", mode |-> "paper", linked |-> FALSE]]
  /\ signal = [k \in Buys |-> "none"] /\ opening = [k \in Buys |-> "none"]
  /\ position = [k \in Buys |-> "none"] /\ exit = "none"
  /\ held = [mode |-> mode, open |-> TRUE]
  /\ handler = [h \in Handlers |-> Idle]
  /\ answers = [k \in Keys |-> {}]
  /\ entries = [k \in Buys |-> 0]
  /\ crashes = 0

\* order_data: what a client is shown, recovered from the rows it is linked to.
View(k) ==
  LET status == request[k].status
  IN IF ~request[k].linked THEN status
     ELSE IF k \in Sells THEN IF held.open THEN status ELSE "executed"
     ELSE IF position[k] # "none" THEN "executed"
     ELSE IF signal[k] \in {"rejected", "expired"} THEN "rejected"
     ELSE status

Tell(k, status) == answers' = [answers EXCEPT ![k] = @ \union {status}]

At(h, pc) == handler[h].pc = pc
Step(h, pc) == handler' = [handler EXCEPT ![h].pc = pc]

\* An exception leaves the executor; clean: ValueError, PermissionError, DoesNotExist.
Fail(h, clean) == handler' = [handler EXCEPT ![h].pc = "judge", ![h].clean = clean]

-----------------------------------------------------------------------------
(* One request *)

PostWhileProcessing(h, k, payloadMode) ==
  /\ At(h, "idle")
  /\ IF request[k].status \in {"none", "processing"}
       THEN /\ request' = [request EXCEPT ![k].status = "processing", ![k].mode = payloadMode]
            /\ handler' = [handler EXCEPT ![h] =
                             [Idle EXCEPT !.key = k, !.pc = IF k \in Buys THEN "buy" ELSE "sell"]]
            /\ UNCHANGED answers
       ELSE Tell(k, View(k)) /\ UNCHANGED <<request, handler>>
  /\ UNCHANGED <<mode, world, crashes>>

\* OptionOrdersView.post: the first POST of a key creates the row and runs it,
\* every repeat is answered from the row.
Post(h, k, payloadMode) ==
  /\ At(h, "idle")
  /\ IF request[k].status = "none"
       THEN /\ request' = [request EXCEPT ![k].status = "processing", ![k].mode = payloadMode]
            /\ handler' = [handler EXCEPT ![h] =
                             [Idle EXCEPT !.key = k, !.pc = IF k \in Buys THEN "buy" ELSE "sell"]]
            /\ UNCHANGED answers
       ELSE Tell(k, View(k)) /\ UNCHANGED <<request, handler>>
  /\ UNCHANGED <<mode, world, crashes>>

\* execute_buy before its transaction: the mode, and for a live order the
\* reconciliation, an unresolved order and the broker's positions and cash.
Prepare(h) ==
  LET k == handler[h].key
      unresolved == exit = "pending" \/ \E b \in Buys : opening[b] = "pending"
      live == request[k].mode = "live"
  IN /\ At(h, "buy")
     /\ \/ mode = request[k].mode /\ ~(live /\ unresolved) /\ Step(h, "ticket")
        \/ (live \/ mode # request[k].mode) /\ Fail(h, TRUE)
        \/ live /\ Fail(h, FALSE)
     /\ UNCHANGED <<mode, request, world, answers, crashes>>

\* execute_buy's transaction under the mode lock: the ticket is checked, the
\* approval is created and linked; in paper mode the position opens in it too.
Ticket(h, valid, opens) ==
  LET k == handler[h].key
      paper == mode = "paper"
  IN /\ At(h, "ticket")
     /\ IF mode # request[k].mode \/ ~valid
          THEN Fail(h, TRUE) /\ UNCHANGED <<request, world>>
          ELSE /\ request' = [request EXCEPT ![k].linked = TRUE]
               /\ signal' = [signal EXCEPT ![k] = IF ~paper THEN "approved"
                                                  ELSE IF opens THEN "executed" ELSE "rejected"]
               /\ IF paper /\ opens
                    THEN /\ position' = [position EXCEPT ![k] = "open"]
                         /\ entries' = [entries EXCEPT ![k] = @ + 1]
                    ELSE UNCHANGED <<position, entries>>
               /\ IF ~paper THEN Step(h, "claim")
                  ELSE IF opens THEN Step(h, "done") ELSE Fail(h, TRUE)
               /\ UNCHANGED <<opening, held, exit>>
     /\ UNCHANGED <<mode, answers, crashes>>

\* open_position_live's claim: journal and EXECUTING, or a veto; a wrong mode
\* raises with the approval in place, and so does a database error.
Claim(h, allowed) ==
  LET k == handler[h].key
  IN /\ At(h, "claim")
     /\ \/ /\ mode # "live" \/ signal[k] # "approved"
           /\ Fail(h, TRUE) /\ UNCHANGED world
        \/ Fail(h, FALSE) /\ UNCHANGED world
        \/ /\ mode = "live" /\ signal[k] = "approved"
           /\ IF allowed
                THEN /\ signal' = [signal EXCEPT ![k] = "executing"]
                     /\ opening' = [opening EXCEPT ![k] = "pending"]
                     /\ entries' = [entries EXCEPT ![k] = @ + 1]
                     /\ Step(h, "wait")
                ELSE /\ signal' = [signal EXCEPT ![k] = "rejected"] /\ Fail(h, TRUE)
                     /\ UNCHANGED <<opening, entries>>
           /\ UNCHANGED <<position, held, exit>>
     /\ UNCHANGED <<mode, request, answers, crashes>>

\* The poll ends: with the applied fill, or with whatever it raised.
AwaitBuy(h, clean) ==
  LET k == handler[h].key
  IN /\ At(h, "wait") /\ k \in Buys
     /\ \/ opening[k] = "filled" /\ Step(h, "done")
        \/ opening[k] # "filled" /\ Fail(h, clean)
     /\ UNCHANGED <<mode, request, world, answers, crashes>>

\* execute_sell: the position is linked before anything can fail.
Sell(h, valid) ==
  LET k == handler[h].key
      fits == held.mode = request[k].mode
  IN /\ At(h, "sell")
     /\ request' = [request EXCEPT ![k].linked = fits]
     /\ IF ~fits THEN Fail(h, TRUE)
        ELSE IF ~held.open THEN Step(h, "done")
        ELSE IF ~valid THEN Fail(h, TRUE)
        ELSE Step(h, "close")
     /\ UNCHANGED <<mode, world, answers, crashes>>

\* close_position, or close_position_live's claim of a closing journal.
CloseHeld(h) ==
  /\ At(h, "close")
  /\ IF ~held.open \/ held.mode = "paper"
       THEN held' = [held EXCEPT !.open = FALSE] /\ Step(h, "done") /\ UNCHANGED exit
       ELSE /\ UNCHANGED held
            /\ IF exit = "pending" THEN Fail(h, FALSE) /\ UNCHANGED exit
               ELSE exit' = "pending" /\ Step(h, "wait")
  /\ UNCHANGED <<mode, request, signal, opening, position, entries, answers, crashes>>

AwaitSell(h, clean) ==
  /\ At(h, "wait") /\ handler[h].key \in Sells
  /\ \/ ~held.open /\ Step(h, "done")
     \/ held.open /\ Fail(h, clean)
  /\ UNCHANGED <<mode, request, world, answers, crashes>>

Unresolved(k) ==
  /\ request[k].linked
  /\ IF k \in Buys THEN opening[k] = "pending" ELSE exit = "pending"

JudgeByError(h) ==
  /\ At(h, "judge")
  /\ handler' = [handler EXCEPT ![h].pc = "release", ![h].uncertain = ~handler[h].clean]
  /\ UNCHANGED <<mode, request, world, answers, crashes>>

\* The exception handler reads the journals of its row.
Judge(h) ==
  /\ At(h, "judge")
  /\ handler' = [handler EXCEPT ![h].pc = "release",
                   ![h].uncertain = Unresolved(handler[h].key) \/ ~handler[h].clean]
  /\ UNCHANGED <<mode, request, world, answers, crashes>>

\* "A failed request must not leave an approval for a worker."
Release(h) ==
  LET k == handler[h].key
  IN /\ At(h, "release")
     /\ signal' = IF k \in Buys /\ ~handler[h].uncertain /\ signal[k] = "approved"
                    THEN [signal EXCEPT ![k] = "rejected"] ELSE signal
     /\ Step(h, "failed")
     /\ UNCHANGED <<mode, request, opening, position, held, exit, entries, answers, crashes>>

\* The row is saved and the client is answered from it.
Finish(h) ==
  LET k == handler[h].key
      status == IF At(h, "done") THEN "executed"
                ELSE IF handler[h].uncertain THEN "unknown" ELSE "rejected"
  IN /\ At(h, "done") \/ At(h, "failed")
     /\ request' = [request EXCEPT ![k].status = status, ![k].linked = @ \/ At(h, "done")]
     /\ Tell(k, IF request[k].linked /\ View(k) # request[k].status THEN View(k) ELSE status)
     /\ handler' = [handler EXCEPT ![h] = Idle]
     /\ UNCHANGED <<mode, world, crashes>>

Handle(h) ==
  \/ Prepare(h) \/ CloseHeld(h) \/ Judge(h) \/ Release(h) \/ Finish(h)
  \/ \E allowed \in BOOLEAN :
       Claim(h, allowed) \/ AwaitBuy(h, allowed) \/ Sell(h, allowed) \/ AwaitSell(h, allowed)
  \/ \E valid, opens \in BOOLEAN : Ticket(h, valid, opens)

Crash(h) ==
  /\ ~At(h, "idle") /\ crashes < MaxCrashes
  /\ handler' = [handler EXCEPT ![h] = Idle]
  /\ crashes' = crashes + 1
  /\ UNCHANGED <<mode, request, world, answers>>

-----------------------------------------------------------------------------
(* The surroundings *)

\* The poll or the reconciler applies the broker's answer, with the signal or
\* the position in the same transaction; an unknown order may stay unresolved.
ResolveBuy(k, filled) ==
  /\ opening[k] = "pending"
  /\ opening' = [opening EXCEPT ![k] = IF filled THEN "filled" ELSE "dead"]
  /\ signal' = [signal EXCEPT ![k] = IF filled THEN "executed" ELSE "rejected"]
  /\ position' = IF filled THEN [position EXCEPT ![k] = "open"] ELSE position
  /\ UNCHANGED <<mode, request, held, exit, handler, answers, entries, crashes>>

ResolveSell(filled) ==
  /\ exit = "pending"
  /\ exit' = IF filled THEN "filled" ELSE "dead"
  /\ held' = [held EXCEPT !.open = ~filled]
  /\ UNCHANGED <<mode, request, signal, opening, position, handler, answers, entries, crashes>>

\* The stop, the target or a flatten closes a position.
MonitorCloses ==
  /\ \/ \E k \in Buys : /\ position[k] = "open" /\ UNCHANGED held
                        /\ position' = [position EXCEPT ![k] = "closed"]
     \/ held.open /\ held.mode = "paper" /\ held' = [held EXCEPT !.open = FALSE]
        /\ UNCHANGED position
  /\ UNCHANGED <<mode, request, signal, opening, exit, handler, answers, entries, crashes>>

SweepUnlinked(k) ==
  /\ signal[k] = "approved" /\ ~request[k].linked
  /\ signal' = [signal EXCEPT ![k] = "expired"]
  /\ UNCHANGED <<mode, request, opening, position, held, exit, handler, answers, entries, crashes>>

\* The trading cycle opens no manual approval, but expires an old one.
Sweep(k) ==
  /\ signal[k] = "approved"
  /\ signal' = [signal EXCEPT ![k] = "expired"]
  /\ UNCHANGED <<mode, request, opening, position, held, exit, handler, answers, entries, crashes>>

\* ExecutionModeView.post: not while a position is open or an order unresolved.
SwitchMode ==
  /\ ~held.open /\ exit # "pending"
  /\ \A k \in Buys : position[k] # "open" /\ opening[k] # "pending"
  /\ mode' = IF mode = "paper" THEN "live" ELSE "paper"
  /\ signal' = [k \in Buys |-> IF signal[k] = "approved" THEN "expired" ELSE signal[k]]
  /\ UNCHANGED <<request, opening, position, held, exit, handler, answers, entries, crashes>>

Surroundings ==
  \/ MonitorCloses \/ SwitchMode
  \/ \E k \in Buys : Sweep(k) \/ \E filled \in BOOLEAN : ResolveBuy(k, filled)
  \/ \E filled \in BOOLEAN : ResolveSell(filled)

Next ==
  \/ Surroundings
  \/ \E h \in Handlers :
       Handle(h) \/ Crash(h) \/ \E k \in Keys, m \in Modes : Post(h, k, m)

Spec == Init /\ [][Next]_vars

\* A handler that does not crash runs to its end; beat repeats the sweep.
FairSpec ==
  /\ Spec
  /\ \A h \in Handlers : WF_vars(Handle(h))
  /\ \A k \in Buys : WF_vars(Sweep(k))

-----------------------------------------------------------------------------
(* Properties *)

Statuses == {"processing", "executed", "rejected", "unknown"}

\* The types of the rows (OptionTradeRequest, TradingSignal, BrokerOrder).
TypeOK ==
  /\ mode \in Modes /\ crashes \in 0 .. MaxCrashes /\ held.open \in BOOLEAN
  /\ \A k \in Keys : request[k].status \in {"none"} \union Statuses /\ answers[k] \subseteq Statuses
  /\ \A k \in Buys :
       /\ signal[k] \in {"none", "approved", "executing", "executed", "rejected", "expired"}
       /\ opening[k] \in {"none", "pending", "filled", "dead"}
       /\ position[k] \in {"none", "open", "closed"}

\* "repeating a UUID never submits another order" (OptionTradeRequest),
\* whatever handlers crash or repeat between its transactions.
OneEntryPerKey == \A k \in Buys : entries[k] <= 1

\* A client told "rejected" is never later told "executed" for the same buy, or
\* the reverse: it may have bought again under a new UUID (option_views.post).
AnswersAgree == \A k \in Buys : ~({"executed", "rejected"} \subseteq answers[k])

\* A buy told "rejected" leaves nothing that can still become a position: no
\* approval, no unresolved order, no position (option_views.post, order_data).
RejectedIsDead ==
  \A k \in Buys : "rejected" \in answers[k] =>
    signal[k] \notin {"approved", "executing"} /\ opening[k] # "pending" /\ position[k] = "none"

\* A request told "executed" has its position: a buy's exists, a sell's is closed.
ExecutedIsReal ==
  \A k \in Keys : "executed" \in answers[k] =>
    IF k \in Buys THEN position[k] # "none" ELSE ~held.open

\* Once an approval is linked, its request is decided even if the handler dies or
\* gives up uncertain, unless the broker still owes an answer (order_data).
LinkedBuyIsDecided ==
  \A k \in Buys : request[k].linked ~>
    (View(k) \in {"executed", "rejected"} \/ opening[k] = "pending")
=============================================================================
