----------------------- MODULE OptionRequests_proofs ------------------------
(***************************************************************************)
(* Theorems of OptionRequests, for any set of request keys, any number of  *)
(* web handlers and any number of lost ones, with machine-checked proofs.  *)
(*                                                                         *)
(* What a client was told and how often a key traded are not inductive:    *)
(* they hold because one handler at most ever works on a key, and because  *)
(* of what that handler may still do.                                      *)
(***************************************************************************)
EXTENDS OptionRequests, TLAPS

-----------------------------------------------------------------------------
(* The inductive invariant *)

Steps == {"idle", "buy", "sell", "ticket", "claim", "close", "wait", "judge", "release",
          "done", "failed"}
Signal == {"none", "approved", "executing", "executed", "rejected", "expired"}
Order == {"none", "pending", "filled", "dead"}
Request == [status : {"none"} \union Statuses, mode : Modes, linked : BOOLEAN]
Handler == [pc : Steps, key : Keys \union {"none"}, clean : BOOLEAN, uncertain : BOOLEAN]

Types ==
  /\ mode \in Modes /\ crashes \in 0 .. MaxCrashes
  /\ request \in [Keys -> Request] /\ answers \in [Keys -> SUBSET Statuses]
  /\ signal \in [Buys -> Signal] /\ opening \in [Buys -> Order]
  /\ position \in [Buys -> {"none", "open", "closed"}] /\ entries \in [Buys -> Nat]
  /\ held \in [mode : Modes, open : BOOLEAN] /\ exit \in Order
  /\ handler \in [Handlers -> Handler]

\* A running handler works on a key of its kind, whose row says processing, and
\* no other handler works on that key: a repeated POST is only answered.
Running(h) == handler[h].pc # "idle"
Fits(h) ==
  /\ handler[h].pc \in {"buy", "ticket", "claim"} => handler[h].key \in Buys
  /\ handler[h].pc \in {"sell", "close"} => handler[h].key \in Sells
  /\ Running(h) => handler[h].key \in Keys /\ request[handler[h].key].status = "processing"
Alone == \A g, h \in Handlers : Running(g) /\ Running(h) /\ handler[g].key = handler[h].key => g = h
Handling == Alone /\ \A h \in Handlers : Fits(h)

\* The rows of a buy agree with each other, whoever wrote them last.
Untouched(k) == signal[k] = "none" /\ opening[k] = "none" /\ position[k] = "none"
Traded(k) == opening[k] # "none" \/ position[k] # "none"
Rows(k) ==
  /\ request[k].status = "none" => ~request[k].linked
  /\ ~request[k].linked => Untouched(k)
  /\ opening[k] = "pending" <=> signal[k] = "executing"
  /\ opening[k] \in {"pending", "dead"} => position[k] = "none"
  /\ opening[k] = "filled" => position[k] # "none"
  /\ position[k] # "none" => signal[k] # "approved"
  /\ entries[k] = IF Traded(k) THEN 1 ELSE 0
HeldIs == exit = "pending" => held.open /\ held.mode = "live"

\* What the step a handler stands at has established for its key.
Gone(k) == signal[k] \notin {"approved", "executing"} /\ opening[k] # "pending" /\ position[k] = "none"
Real(k) == IF k \in Buys THEN position[k] # "none" ELSE ~held.open
Stands(h) ==
  LET k == handler[h].key
  IN /\ handler[h].pc \in {"buy", "ticket"} => ~request[k].linked
     /\ handler[h].pc = "claim" => request[k].linked /\ ~Traded(k)
     /\ handler[h].pc = "done" => Real(k)
     /\ k \in Buys /\ ~handler[h].uncertain =>
          /\ handler[h].pc = "release" => opening[k] # "pending"
          /\ handler[h].pc = "failed" => signal[k] \notin {"approved", "executing"}

\* What a row or an answer says of its key stays true.
Said(k) ==
  /\ request[k].status = "executed" \/ "executed" \in answers[k] => Real(k)
  /\ k \in Buys /\ "rejected" \in answers[k] => request[k].linked \/ request[k].status = "rejected"
  /\ k \in Buys /\ "rejected" \in answers[k] => Gone(k)
  /\ k \in Buys /\ request[k].status = "rejected" =>
       signal[k] \notin {"approved", "executing"}

IInv ==
  /\ Types /\ Handling /\ HeldIs
  /\ \A k \in Buys : Rows(k)
  /\ \A h \in Handlers : Stands(h)
  /\ \A k \in Keys : Said(k)

-----------------------------------------------------------------------------
(* Facts about the initial state and about one step of a handler *)

LEMMA IdleIsHandler == Idle \in Handler /\ Idle.pc = "idle"
BY DEF Idle, Handler, Steps

\* What a handler in some step works on.
LEMMA WorksOn ==
  ASSUME IInv, NEW h \in Handlers, Running(h)
  PROVE  /\ handler[h].key \in Keys /\ request[handler[h].key].status = "processing"
         /\ handler[h].pc \in {"buy", "ticket", "claim"} => handler[h].key \in Buys
         /\ handler[h].pc \in {"sell", "close"} => handler[h].key \in Sells
         /\ Stands(h) /\ Said(handler[h].key)
         /\ handler[h].key \in Buys => Rows(handler[h].key)
BY DEF IInv, Handling, Fits

\* The fields of the rows of a key.
LEMMA KeyTypes ==
  ASSUME Types, NEW k \in Keys
  PROVE  /\ request[k].status \in {"none"} \union Statuses /\ request[k].mode \in Modes
         /\ request[k].linked \in BOOLEAN /\ request[k] \in Request
         /\ k \in Buys => /\ signal[k] \in Signal /\ opening[k] \in Order /\ entries[k] \in Nat
                          /\ position[k] \in {"none", "open", "closed"}
BY DEF Types, Request

Moves(h) == \A g \in Handlers : g # h => handler'[g] = handler[g]

\* The writes to the table of handlers.
LEMMA WriteHandler ==
  ASSUME Types, NEW h \in Handlers, NEW t \in Handler, handler' = [handler EXCEPT ![h] = t]
  PROVE  handler' \in [Handlers -> Handler] /\ handler'[h] = t /\ Moves(h)
BY DEF Types, Moves

LEMMA StepIs ==
  ASSUME Types, NEW h \in Handlers, NEW p \in Steps, Step(h, p)
  PROVE  /\ handler' \in [Handlers -> Handler] /\ Moves(h)
         /\ handler'[h].pc = p /\ handler'[h].key = handler[h].key
         /\ handler'[h].uncertain = handler[h].uncertain
<1> DEFINE t == [handler[h] EXCEPT !.pc = p]
<1>1. handler[h] \in Handler
  BY DEF Types
<1>2. t \in Handler /\ t.pc = p /\ t.key = handler[h].key /\ t.uncertain = handler[h].uncertain
  BY <1>1 DEF Handler
<1>3. handler' = [handler EXCEPT ![h] = t]
  BY DEF Step
<1> HIDE DEF t
<1> QED
  BY <1>2, <1>3, WriteHandler

LEMMA FailIs ==
  ASSUME Types, NEW h \in Handlers, NEW clean \in BOOLEAN, Fail(h, clean)
  PROVE  /\ handler' \in [Handlers -> Handler] /\ Moves(h)
         /\ handler'[h].pc = "judge" /\ handler'[h].key = handler[h].key
<1> DEFINE t == [handler[h] EXCEPT !.pc = "judge", !.clean = clean]
<1>1. handler[h] \in Handler
  BY DEF Types
<1>2. t \in Handler /\ t.pc = "judge" /\ t.key = handler[h].key
  BY <1>1 DEF Handler, Steps
<1>3. handler' = [handler EXCEPT ![h] = t]
  BY <1>1 DEF Fail, Types, Handler
<1> HIDE DEF t
<1> QED
  BY <1>2, <1>3, WriteHandler

\* The writes to the request rows.
LEMMA WriteRequest ==
  ASSUME Types, NEW k \in Keys, NEW r \in Request, request' = [request EXCEPT ![k] = r]
  PROVE  /\ request' \in [Keys -> Request] /\ request'[k] = r
         /\ \A j \in Keys : j # k => request'[j] = request[j]
BY DEF Types

\* What a client is told of a key.
LEMMA TellIs ==
  ASSUME Types, NEW k \in Keys, NEW s \in Statuses, Tell(k, s)
  PROVE  /\ answers' \in [Keys -> SUBSET Statuses]
         /\ answers'[k] = answers[k] \union {s}
         /\ \A j \in Keys : j # k => answers'[j] = answers[j]
BY DEF Types, Tell

-----------------------------------------------------------------------------
(* What the invariant asks of a step *)

\* Only the rows of key k change, and the held position does not open again.
Elsewhere(k) ==
  /\ \A j \in Keys : j # k => request'[j] = request[j] /\ answers'[j] = answers[j]
  /\ \A b \in Buys : b # k => /\ signal'[b] = signal[b] /\ opening'[b] = opening[b]
                              /\ position'[b] = position[b] /\ entries'[b] = entries[b]
  /\ ~held.open => ~held'.open

\* The step of one handler on its key: the others work on other keys.
LEMMA OneKeyStep ==
  ASSUME RequestAssumption, IInv, Types', HeldIs',
         NEW h \in Handlers, NEW k \in Keys, Moves(h), Elsewhere(k),
         \/ Running(h) /\ handler[h].key = k
         \/ request[k].status = "none",
         Running(h)' => handler'[h].key = k,
         Fits(h)', Stands(h)', Said(k)', k \in Buys => Rows(k)'
  PROVE  IInv'
<1>1. ASSUME NEW g \in Handlers, g # h, Running(g)
      PROVE  handler[g].key \in Keys \ {k} /\ handler'[g] = handler[g]
  BY <1>1 DEF IInv, Handling, Alone, Fits, Moves, Running
<1>2. Handling'
  <2>1. Alone'
    BY <1>1 DEF Alone, Running, IInv, Handling, Moves
  <2>2. ASSUME NEW g \in Handlers, g # h PROVE Fits(g)'
    BY <1>1, <2>2 DEF Fits, Running, IInv, Handling, Moves, Elsewhere
  <2> QED
    BY <2>1, <2>2 DEF Handling
<1>3. ASSUME NEW j \in Buys, j # k PROVE Rows(j)'
  BY <1>3 DEF IInv, Rows, Elsewhere, Untouched, Traded, Keys
<1>4. ASSUME NEW j \in Keys, j # k PROVE Said(j)'
  BY <1>4 DEF IInv, Said, Elsewhere, Real, Gone, Keys
<1>5. ASSUME NEW g \in Handlers, g # h PROVE Stands(g)'
  <2>1. CASE Running(g)
    <3>1. PICK j \in Keys : j # k /\ handler[g].key = j
      BY <1>1, <1>5, <2>1
    <3>2. handler'[g] = handler[g]
      BY <1>5 DEF Moves
    <3>3. request'[j] = request[j] /\ (Real(j) => Real(j)')
      BY <3>1 DEF Elsewhere, Real
    <3>4. j \in Buys => signal'[j] = signal[j] /\ opening'[j] = opening[j] /\ (Traded(j)' <=> Traded(j))
      BY <3>1 DEF Elsewhere, Traded
    <3>5. handler[g].pc = "claim" => j \in Buys
      BY <3>1 DEF IInv, Handling, Fits
    <3>6. Stands(g)
      BY DEF IInv
    <3> QED
      BY <3>1, <3>2, <3>3, <3>4, <3>5, <3>6 DEF Stands
  <2>2. CASE ~Running(g)
    BY <1>5, <2>2 DEF Stands, Running, Moves
  <2> QED
    BY <2>1, <2>2
<1> QED
  BY <1>2, <1>3, <1>4, <1>5 DEF IInv

\* A step beside the handlers: what they and the clients rely on stays true.
Keeps(k) ==
  /\ Gone(k) => Gone(k)'
  /\ ~Traded(k) => ~Traded(k)'
  /\ opening[k] # "pending" => opening'[k] # "pending"
  /\ signal[k] \notin {"approved", "executing"} => signal'[k] \notin {"approved", "executing"}

LEMMA WorldStep ==
  ASSUME IInv, Types', HeldIs', UNCHANGED <<request, handler, answers>>,
         \A k \in Keys : Real(k) => Real(k)',
         \A k \in Buys : Rows(k)' /\ Keeps(k)
  PROVE  IInv'
<1>1. Handling'
  BY DEF IInv, Handling, Alone, Fits, Running
<1>2. ASSUME NEW h \in Handlers PROVE Stands(h)'
  <2>1. CASE Running(h)
    <3>1. PICK j \in Keys : handler[h].key = j
      BY <2>1, WorksOn
    <3>2. /\ handler[h].pc = "claim" => j \in Buys
          /\ Stands(h)
      BY <3>1 DEF IInv, Handling, Fits
    <3>3. Real(j) => Real(j)'
      OBVIOUS
    <3>4. j \in Buys => Keeps(j)
      OBVIOUS
    <3> QED
      BY <3>1, <3>2, <3>3, <3>4 DEF Stands, Keeps
  <2>2. CASE ~Running(h)
    BY <2>2 DEF Stands, Running
  <2> QED
    BY <2>1, <2>2
<1>3. ASSUME NEW k \in Keys PROVE Said(k)'
  BY DEF IInv, Said, Keeps
<1> QED
  BY <1>1, <1>2, <1>3 DEF IInv

\* A client is told what the row shows: that is true.
LEMMA ViewIsTrue ==
  ASSUME RequestAssumption, IInv, NEW k \in Keys, request[k].status # "none"
  PROVE  /\ View(k) \in Statuses
         /\ View(k) = "executed" => Real(k)
         /\ k \in Buys /\ View(k) = "rejected" =>
              Gone(k) /\ (request[k].linked \/ request[k].status = "rejected")
<1>1. request[k].status \in Statuses /\ request[k].linked \in BOOLEAN
  BY KeyTypes DEF IInv
<1>2. Said(k) /\ (k \in Buys => Rows(k))
  BY DEF IInv
<1>3. CASE k \in Sells
  BY <1>1, <1>2, <1>3 DEF View, Real, Statuses, Said, RequestAssumption
<1>4. CASE k \in Buys /\ k \notin Sells
  BY <1>1, <1>2, <1>4 DEF View, Real, Statuses, Said, Rows, Gone, Untouched
<1> QED
  BY <1>3, <1>4 DEF Keys

-----------------------------------------------------------------------------
(* The steps of a handler *)

LEMMA PostStep ==
  ASSUME RequestAssumption, IInv, NEW h \in Handlers, NEW k \in Keys, NEW m \in Modes, Post(h, k, m)
  PROVE  IInv'
<1>1. CASE request[k].status = "none"
  <2>1. /\ request' = [request EXCEPT ![k].status = "processing", ![k].mode = m]
        /\ handler' = [handler EXCEPT ![h] =
                         [Idle EXCEPT !.key = k, !.pc = IF k \in Buys THEN "buy" ELSE "sell"]]
        /\ UNCHANGED <<answers, mode, signal, opening, position, held, exit, entries, crashes>>
    BY <1>1 DEF Post, world
  <2>2. [Idle EXCEPT !.key = k, !.pc = IF k \in Buys THEN "buy" ELSE "sell"] \in Handler
    BY DEF Idle, Handler, Steps
  <2>3. /\ handler' \in [Handlers -> Handler] /\ Moves(h) /\ handler'[h].key = k
        /\ handler'[h].pc = IF k \in Buys THEN "buy" ELSE "sell"
    BY <2>1, <2>2, WriteHandler DEF IInv, Idle
  <2>4. /\ request' \in [Keys -> Request] /\ request'[k].status = "processing"
        /\ request'[k].linked = request[k].linked
        /\ \A j \in Keys : j # k => request'[j] = request[j]
    <3>1. [request[k] EXCEPT !.status = "processing", !.mode = m] \in Request
      BY KeyTypes DEF IInv, Request, Statuses
    <3>2. request' = [request EXCEPT ![k] = [request[k] EXCEPT !.status = "processing", !.mode = m]]
      BY <2>1, KeyTypes DEF IInv, Request, Types
    <3> QED
      BY <3>1, <3>2, KeyTypes, WriteRequest DEF IInv, Request
  <2>5. Types' /\ HeldIs' /\ Elsewhere(k)
    BY <2>1, <2>3, <2>4 DEF IInv, Types, HeldIs, Elsewhere
  <2>6. Fits(h)'
    BY <2>3, <2>4 DEF Fits, Running, Keys
  <2>7. Said(k)' /\ (k \in Buys => Rows(k)')
    BY <1>1, <2>1, <2>4 DEF IInv, Said, Rows, Untouched, Traded, Real, Gone
  <2>8. Stands(h)'
    BY <1>1, <2>1, <2>3, <2>4 DEF IInv, Stands, Rows
  <2> QED
    BY <1>1, <2>3, <2>5, <2>6, <2>7, <2>8, OneKeyStep
<1>2. CASE request[k].status # "none"
  <2>1. Tell(k, View(k)) /\ UNCHANGED <<request, handler, mode, world, crashes>>
    BY <1>2 DEF Post
  <2>2. /\ answers' \in [Keys -> SUBSET Statuses] /\ answers'[k] = answers[k] \union {View(k)}
        /\ \A j \in Keys : j # k => answers'[j] = answers[j]
    BY <1>2, <2>1, ViewIsTrue, TellIs DEF IInv
  <2>3. UNCHANGED <<request, handler, mode, signal, opening, position, held, exit, entries, crashes>>
    BY <2>1 DEF world
  <2>4. Types' /\ HeldIs' /\ Handling'
    BY <2>2, <2>3 DEF IInv, Types, HeldIs, Handling, Alone, Fits, Running
  <2>5. ASSUME NEW j \in Keys PROVE Said(j)'
    BY <1>2, <2>2, <2>3, ViewIsTrue DEF IInv, Said, Real, Gone
  <2>6. \A g \in Handlers : Stands(g)'
    BY <2>3 DEF IInv, Stands, Real, Traded
  <2>7. \A b \in Buys : Rows(b)'
    BY <2>3 DEF IInv, Rows, Untouched, Traded
  <2> QED
    BY <2>4, <2>5, <2>6, <2>7 DEF IInv
<1> QED
  BY <1>1, <1>2

\* A step that moves a running handler and writes no row.
LEMMA HandlerStep ==
  ASSUME RequestAssumption, IInv, NEW h \in Handlers, Running(h), Moves(h),
         handler' \in [Handlers -> Handler], crashes' \in 0 .. MaxCrashes,
         UNCHANGED <<mode, request, world, answers>>,
         Running(h)' => handler'[h].key = handler[h].key,
         Fits(h)', Stands(h)'
  PROVE  IInv'
<1>1. PICK k \in Keys : handler[h].key = k
  BY WorksOn
<1>2. UNCHANGED <<mode, request, signal, opening, position, held, exit, entries, answers>>
  BY DEF world
<1>3. Types' /\ HeldIs' /\ Elsewhere(k)
  BY <1>2 DEF IInv, Types, HeldIs, Elsewhere
<1>4. Said(k)' /\ (k \in Buys => Rows(k)')
  BY <1>2 DEF IInv, Said, Rows, Untouched, Traded, Real, Gone
<1> QED
  BY <1>1, <1>3, <1>4, OneKeyStep

\* An exception that leaves no trace in the rows.
LEMMA FailStep ==
  ASSUME RequestAssumption, IInv, NEW h \in Handlers, Running(h), NEW clean \in BOOLEAN,
         Fail(h, clean), UNCHANGED <<mode, request, world, answers, crashes>>
  PROVE  IInv'
<1>1. /\ handler' \in [Handlers -> Handler] /\ Moves(h)
      /\ handler'[h].pc = "judge" /\ handler'[h].key = handler[h].key
  BY FailIs DEF IInv
<1>2. Fits(h)' /\ Stands(h)'
  BY <1>1, WorksOn DEF Fits, Stands, Running
<1> QED
  BY <1>1, <1>2, HandlerStep DEF IInv, Types

LEMMA PrepareStep ==
  ASSUME RequestAssumption, IInv, NEW h \in Handlers, Prepare(h)
  PROVE  IInv'
<1>1. Running(h) /\ handler[h].pc = "buy" /\ UNCHANGED <<mode, request, world, answers, crashes>>
  BY DEF Prepare, At, Running
<1>2. CASE Step(h, "ticket")
  <2>1. /\ handler' \in [Handlers -> Handler] /\ Moves(h)
        /\ handler'[h].pc = "ticket" /\ handler'[h].key = handler[h].key
    BY <1>2, StepIs DEF IInv, Steps
  <2>2. Fits(h)' /\ Stands(h)'
    BY <1>1, <2>1, WorksOn DEF Fits, Stands, Running
  <2> QED
    BY <1>1, <2>1, <2>2, HandlerStep DEF IInv, Types
<1> QED
  BY <1>1, <1>2, FailStep DEF Prepare

LEMMA TicketStep ==
  ASSUME RequestAssumption, IInv, NEW h \in Handlers, NEW valid \in BOOLEAN, NEW opens \in BOOLEAN,
         Ticket(h, valid, opens)
  PROVE  IInv'
<1>1. Running(h) /\ handler[h].pc = "ticket" /\ UNCHANGED <<mode, answers, crashes>>
  BY DEF Ticket, At, Running
<1>2. PICK k \in Buys : handler[h].key = k
  BY <1>1, WorksOn
<1>3. /\ k \in Keys /\ request[k].status = "processing" /\ ~request[k].linked
      /\ Untouched(k) /\ entries[k] = 0 /\ Said(k)
  BY <1>1, <1>2, WorksOn DEF Stands, Rows, Traded, Untouched, Keys
<1>4. CASE mode # request[k].mode \/ ~valid
  BY <1>1, <1>2, <1>4, FailStep DEF Ticket
<1>5. CASE ~(mode # request[k].mode \/ ~valid)
  <2> DEFINE paper == mode = "paper"
  <2>1. /\ request' = [request EXCEPT ![k].linked = TRUE]
        /\ signal' = [signal EXCEPT ![k] = IF ~paper THEN "approved"
                                            ELSE IF opens THEN "executed" ELSE "rejected"]
        /\ IF paper /\ opens THEN /\ position' = [position EXCEPT ![k] = "open"]
                                  /\ entries' = [entries EXCEPT ![k] = @ + 1]
                             ELSE UNCHANGED <<position, entries>>
        /\ IF ~paper THEN Step(h, "claim") ELSE IF opens THEN Step(h, "done") ELSE Fail(h, TRUE)
        /\ UNCHANGED <<opening, held, exit>>
    BY <1>2, <1>5 DEF Ticket
  <2>2. /\ request' \in [Keys -> Request] /\ request'[k].linked /\ request'[k].status = "processing"
        /\ \A j \in Keys : j # k => request'[j] = request[j]
    <3>1. [request[k] EXCEPT !.linked = TRUE] \in Request
      BY <1>3, KeyTypes DEF IInv, Request
    <3>2. request' = [request EXCEPT ![k] = [request[k] EXCEPT !.linked = TRUE]]
      BY <2>1
    <3> QED
      BY <1>3, <3>1, <3>2, KeyTypes, WriteRequest DEF IInv, Request
  <2>3. /\ signal' \in [Buys -> Signal] /\ \A b \in Buys : b # k => signal'[b] = signal[b]
        /\ signal'[k] = IF ~paper THEN "approved" ELSE IF opens THEN "executed" ELSE "rejected"
    BY <1>2, <2>1 DEF IInv, Types, Signal
  <2>4. /\ position' \in [Buys -> {"none", "open", "closed"}] /\ entries' \in [Buys -> Nat]
        /\ \A b \in Buys : b # k => position'[b] = position[b] /\ entries'[b] = entries[b]
        /\ IF paper /\ opens THEN position'[k] = "open" /\ entries'[k] = 1
                             ELSE position'[k] = "none" /\ entries'[k] = 0
    BY <1>2, <1>3, <2>1 DEF IInv, Types, Untouched
  <2>5. /\ handler' \in [Handlers -> Handler] /\ Moves(h) /\ handler'[h].key = k
        /\ handler'[h].pc = IF ~paper THEN "claim" ELSE IF opens THEN "done" ELSE "judge"
    BY <1>2, <2>1, StepIs, FailIs DEF IInv, Steps
  <2> HIDE DEF paper
  <2>6. Types' /\ HeldIs' /\ Elsewhere(k)
    BY <1>1, <2>1, <2>2, <2>3, <2>4, <2>5 DEF IInv, Types, HeldIs, Elsewhere
  <2>7. Fits(h)'
    BY <1>3, <2>2, <2>5 DEF Fits, Running
  <2>8. Stands(h)'
    BY <1>3, <2>1, <2>2, <2>4, <2>5 DEF Stands, Traded, Untouched, Real
  <2>9. Rows(k)'
    BY <1>3, <2>1, <2>2, <2>3, <2>4 DEF Rows, Untouched, Traded
  <2>10. Said(k)'
    BY <1>1, <1>3, <2>2, <2>3, <2>4 DEF Said, Gone, Real, Untouched
  <2> QED
    BY <1>1, <1>2, <1>3, <2>5, <2>6, <2>7, <2>8, <2>9, <2>10, OneKeyStep
<1> QED
  BY <1>4, <1>5

LEMMA ClaimStep ==
  ASSUME RequestAssumption, IInv, NEW h \in Handlers, NEW allowed \in BOOLEAN, Claim(h, allowed)
  PROVE  IInv'
<1>1. Running(h) /\ handler[h].pc = "claim" /\ UNCHANGED <<mode, request, answers, crashes>>
  BY DEF Claim, At, Running
<1>2. PICK k \in Buys : handler[h].key = k
  BY <1>1, WorksOn
<1>3. /\ k \in Keys /\ request[k].status = "processing" /\ request[k].linked
      /\ ~Traded(k) /\ entries[k] = 0 /\ Said(k) /\ Rows(k)
  BY <1>1, <1>2, WorksOn DEF Stands, Rows, Keys
<1>4. CASE (\E clean \in BOOLEAN : Fail(h, clean)) /\ UNCHANGED world
  BY <1>1, <1>4, FailStep
<1>5. CASE /\ signal[k] = "approved" /\ UNCHANGED <<position, held, exit>>
           /\ signal' = [signal EXCEPT ![k] = "executing"]
           /\ opening' = [opening EXCEPT ![k] = "pending"]
           /\ entries' = [entries EXCEPT ![k] = @ + 1]
           /\ Step(h, "wait")
  <2>1. /\ handler' \in [Handlers -> Handler] /\ Moves(h) /\ handler'[h].key = k
        /\ handler'[h].pc = "wait"
    BY <1>2, <1>5, StepIs DEF IInv, Steps
  <2>2. /\ signal' \in [Buys -> Signal] /\ opening' \in [Buys -> Order] /\ entries' \in [Buys -> Nat]
        /\ signal'[k] = "executing" /\ opening'[k] = "pending" /\ entries'[k] = 1
        /\ \A b \in Buys : b # k => /\ signal'[b] = signal[b] /\ opening'[b] = opening[b]
                                    /\ entries'[b] = entries[b]
    BY <1>3, <1>5 DEF IInv, Types, Signal, Order
  <2>3. Types' /\ HeldIs' /\ Elsewhere(k)
    BY <1>1, <1>5, <2>1, <2>2 DEF IInv, Types, HeldIs, Elsewhere
  <2>4. Fits(h)' /\ Stands(h)'
    BY <1>1, <1>3, <2>1 DEF Fits, Running, Stands
  <2>5. Rows(k)' /\ Said(k)'
    BY <1>1, <1>3, <1>5, <2>2 DEF Rows, Untouched, Traded, Said, Real, Gone
  <2> QED
    BY <1>1, <1>2, <1>3, <2>1, <2>3, <2>4, <2>5, OneKeyStep
<1>6. CASE /\ signal[k] = "approved" /\ UNCHANGED <<position, held, exit, opening, entries>>
           /\ signal' = [signal EXCEPT ![k] = "rejected"] /\ Fail(h, TRUE)
  <2>1. /\ handler' \in [Handlers -> Handler] /\ Moves(h) /\ handler'[h].key = k
        /\ handler'[h].pc = "judge"
    BY <1>2, <1>6, FailIs DEF IInv
  <2>2. /\ signal' \in [Buys -> Signal] /\ signal'[k] = "rejected"
        /\ \A b \in Buys : b # k => signal'[b] = signal[b]
    BY <1>6 DEF IInv, Types, Signal
  <2>3. Types' /\ HeldIs' /\ Elsewhere(k)
    BY <1>1, <1>6, <2>1, <2>2 DEF IInv, Types, HeldIs, Elsewhere
  <2>4. Fits(h)' /\ Stands(h)'
    BY <1>1, <1>3, <2>1 DEF Fits, Running, Stands
  <2>5. Rows(k)' /\ Said(k)'
    BY <1>1, <1>3, <1>6, <2>2 DEF Rows, Untouched, Traded, Said, Real, Gone
  <2> QED
    BY <1>1, <1>2, <1>3, <2>1, <2>3, <2>4, <2>5, OneKeyStep
<1> QED
  BY <1>2, <1>4, <1>5, <1>6 DEF Claim

LEMMA AwaitBuyStep ==
  ASSUME RequestAssumption, IInv, NEW h \in Handlers, NEW clean \in BOOLEAN, AwaitBuy(h, clean)
  PROVE  IInv'
<1>1. Running(h) /\ UNCHANGED <<mode, request, world, answers, crashes>>
  BY DEF AwaitBuy, At, Running
<1>2. PICK k \in Buys : handler[h].key = k
  BY DEF AwaitBuy
<1>3. CASE opening[k] = "filled" /\ Step(h, "done")
  <2>1. /\ handler' \in [Handlers -> Handler] /\ Moves(h)
        /\ handler'[h].pc = "done" /\ handler'[h].key = k
    BY <1>2, <1>3, StepIs DEF IInv, Steps
  <2>2. Real(k)
    BY <1>3 DEF IInv, Rows, Real
  <2>3. Real(k)'
    BY <1>1, <2>2 DEF Real, world
  <2>4. Fits(h)' /\ Stands(h)'
    BY <1>1, <1>2, <2>1, <2>3, WorksOn DEF Fits, Stands, Running
  <2> QED
    BY <1>1, <1>2, <2>1, <2>4, HandlerStep DEF IInv, Types
<1> QED
  BY <1>1, <1>2, <1>3, FailStep DEF AwaitBuy

LEMMA AwaitSellStep ==
  ASSUME RequestAssumption, IInv, NEW h \in Handlers, NEW clean \in BOOLEAN, AwaitSell(h, clean)
  PROVE  IInv'
<1>1. Running(h) /\ UNCHANGED <<mode, request, world, answers, crashes>>
  BY DEF AwaitSell, At, Running
<1>2. handler[h].key \in Sells /\ handler[h].key \notin Buys
  BY DEF AwaitSell, RequestAssumption
<1>3. CASE ~held.open /\ Step(h, "done")
  <2>1. /\ handler' \in [Handlers -> Handler] /\ Moves(h)
        /\ handler'[h].pc = "done" /\ handler'[h].key = handler[h].key
    BY <1>3, StepIs DEF IInv, Steps
  <2>2. Fits(h)' /\ Stands(h)'
    BY <1>1, <1>2, <1>3, <2>1, WorksOn DEF Fits, Stands, Running, Real, world
  <2> QED
    BY <1>1, <2>1, <2>2, HandlerStep DEF IInv, Types
<1> QED
  BY <1>1, <1>3, FailStep DEF AwaitSell

LEMMA SellStep ==
  ASSUME RequestAssumption, IInv, NEW h \in Handlers, NEW valid \in BOOLEAN, Sell(h, valid)
  PROVE  IInv'
<1>1. /\ Running(h) /\ handler[h].pc = "sell"
      /\ UNCHANGED <<mode, signal, opening, position, held, exit, entries, answers, crashes>>
  BY DEF Sell, At, Running, world
<1>2. PICK k \in Sells : handler[h].key = k
  BY <1>1, WorksOn
<1>3. k \in Keys /\ k \notin Buys /\ request[k].status = "processing" /\ Said(k)
  BY <1>1, <1>2, WorksOn DEF RequestAssumption
<1>4. \/ Fail(h, TRUE)
      \/ ~held.open /\ Step(h, "done")
      \/ Step(h, "close")
  BY DEF Sell
<1> DEFINE fits == held.mode = request[k].mode
<1>5. request' = [request EXCEPT ![k].linked = fits]
  BY <1>2 DEF Sell
<1>6. /\ request' \in [Keys -> Request] /\ request'[k].status = "processing"
      /\ \A j \in Keys : j # k => request'[j] = request[j]
  <2>1. [request[k] EXCEPT !.linked = fits] \in Request
    BY <1>3, KeyTypes DEF IInv, Request
  <2>2. request' = [request EXCEPT ![k] = [request[k] EXCEPT !.linked = fits]]
    BY <1>5
  <2> QED
    BY <1>3, <2>1, <2>2, KeyTypes, WriteRequest DEF IInv, Request
<1>7. /\ handler' \in [Handlers -> Handler] /\ Moves(h) /\ handler'[h].key = k
      /\ handler'[h].pc \in {"judge", "done", "close"}
      /\ handler'[h].pc = "done" => ~held.open
  BY <1>2, <1>4, StepIs, FailIs DEF IInv, Steps
<1> HIDE DEF fits
<1>8. Types' /\ HeldIs' /\ Elsewhere(k)
  BY <1>1, <1>3, <1>6, <1>7 DEF IInv, Types, HeldIs, Elsewhere
<1>9. Fits(h)' /\ Stands(h)'
  BY <1>1, <1>2, <1>3, <1>6, <1>7 DEF Fits, Running, Stands, Real
<1>10. Said(k)'
  BY <1>1, <1>3, <1>6 DEF Said, Real, Gone
<1> QED
  BY <1>1, <1>2, <1>3, <1>7, <1>8, <1>9, <1>10, OneKeyStep

LEMMA CloseHeldStep ==
  ASSUME RequestAssumption, IInv, NEW h \in Handlers, CloseHeld(h)
  PROVE  IInv'
<1>1. /\ Running(h) /\ handler[h].pc = "close"
      /\ UNCHANGED <<mode, request, signal, opening, position, entries, answers, crashes>>
  BY DEF CloseHeld, At, Running
<1>2. PICK k \in Sells : handler[h].key = k
  BY <1>1, WorksOn
<1>3. k \in Keys /\ k \notin Buys /\ request[k].status = "processing" /\ Said(k)
  BY <1>1, <1>2, WorksOn DEF RequestAssumption
<1>4. CASE exit = "pending" /\ Fail(h, FALSE) /\ UNCHANGED <<held, exit>>
  BY <1>1, <1>4, FailStep DEF world
<1>5. CASE /\ ~held.open \/ held.mode = "paper"
           /\ held' = [held EXCEPT !.open = FALSE] /\ Step(h, "done") /\ UNCHANGED exit
  <2>1. held' \in [mode : Modes, open : BOOLEAN] /\ ~held'.open /\ held'.mode = held.mode
    BY <1>5 DEF IInv, Types
  <2>2. /\ handler' \in [Handlers -> Handler] /\ Moves(h) /\ handler'[h].key = k
        /\ handler'[h].pc = "done"
    BY <1>2, <1>5, StepIs DEF IInv, Steps
  <2>3. Types' /\ HeldIs' /\ Elsewhere(k)
    BY <1>1, <1>5, <2>1, <2>2 DEF IInv, Types, HeldIs, Elsewhere
  <2>4. Fits(h)' /\ Stands(h)'
    BY <1>1, <1>2, <1>3, <2>1, <2>2 DEF Fits, Running, Stands, Real
  <2>5. Said(k)'
    BY <1>1, <1>3, <2>1 DEF Said, Real, Gone
  <2> QED
    BY <1>1, <1>2, <1>3, <2>2, <2>3, <2>4, <2>5, OneKeyStep
<1>6. CASE /\ held.open /\ held.mode # "paper" /\ UNCHANGED held
           /\ exit' = "pending" /\ Step(h, "wait")
  <2>1. held.mode = "live"
    BY <1>6 DEF IInv, Types, Modes
  <2>2. /\ handler' \in [Handlers -> Handler] /\ Moves(h) /\ handler'[h].key = k
        /\ handler'[h].pc = "wait"
    BY <1>2, <1>6, StepIs DEF IInv, Steps
  <2>3. Types' /\ HeldIs' /\ Elsewhere(k)
    BY <1>1, <1>6, <2>1, <2>2 DEF IInv, Types, HeldIs, Elsewhere, Order
  <2>4. Fits(h)' /\ Stands(h)'
    BY <1>1, <1>2, <1>3, <2>2 DEF Fits, Running, Stands
  <2>5. Said(k)'
    BY <1>1, <1>3, <1>6 DEF Said, Real, Gone
  <2> QED
    BY <1>1, <1>2, <1>3, <2>2, <2>3, <2>4, <2>5, OneKeyStep
<1> QED
  BY <1>4, <1>5, <1>6 DEF CloseHeld

LEMMA JudgeStep ==
  ASSUME RequestAssumption, IInv, NEW h \in Handlers, Judge(h)
  PROVE  IInv'
<1>1. Running(h) /\ UNCHANGED <<mode, request, world, answers, crashes>>
  BY DEF Judge, At, Running
<1>2. PICK k \in Keys : handler[h].key = k
  BY <1>1, WorksOn
<1>3. PICK u \in BOOLEAN : u <=> (Unresolved(k) \/ ~handler[h].clean)
  OBVIOUS
<1> DEFINE t == [handler[h] EXCEPT !.pc = "release", !.uncertain = u]
<1>4. handler' = [handler EXCEPT ![h] = t]
  BY <1>2, <1>3 DEF Judge, IInv, Types, Handler
<1>5. t \in Handler /\ t.pc = "release" /\ t.key = k /\ t.uncertain = u
  BY <1>2 DEF IInv, Types, Handler, Steps
<1> HIDE DEF t
<1>6. /\ handler' \in [Handlers -> Handler] /\ Moves(h) /\ handler'[h].key = k
      /\ handler'[h].pc = "release" /\ handler'[h].uncertain = u
  BY <1>4, <1>5, WriteHandler DEF IInv
<1>7. k \in Buys /\ ~u => opening[k] # "pending"
  <2>1. k \in Buys /\ ~request[k].linked => opening[k] = "none"
    BY DEF IInv, Rows, Untouched
  <2> QED
    BY <1>3, <2>1 DEF Unresolved
<1>8. Fits(h)' /\ Stands(h)'
  BY <1>1, <1>2, <1>6, <1>7, WorksOn DEF Fits, Running, Stands, world
<1> QED
  BY <1>1, <1>2, <1>6, <1>8, HandlerStep DEF IInv, Types

LEMMA ReleaseStep ==
  ASSUME RequestAssumption, IInv, NEW h \in Handlers, Release(h)
  PROVE  IInv'
<1>1. /\ Running(h) /\ handler[h].pc = "release"
      /\ UNCHANGED <<mode, request, opening, position, held, exit, entries, answers, crashes>>
  BY DEF Release, At, Running
<1>2. PICK k \in Keys : handler[h].key = k
  BY <1>1, WorksOn
<1>3. /\ request[k].status = "processing" /\ Said(k) /\ (k \in Buys => Rows(k))
      /\ k \in Buys /\ ~handler[h].uncertain => opening[k] # "pending"
  BY <1>1, <1>2, WorksOn DEF Stands
<1>4. /\ handler' \in [Handlers -> Handler] /\ Moves(h) /\ handler'[h].key = k
      /\ handler'[h].pc = "failed" /\ handler'[h].uncertain = handler[h].uncertain
  BY <1>2, StepIs DEF Release, IInv, Steps
<1>5. /\ signal' \in [Buys -> Signal] /\ \A b \in Buys : b # k => signal'[b] = signal[b]
      /\ k \in Buys => \/ signal'[k] = signal[k]
                       \/ signal[k] = "approved" /\ signal'[k] = "rejected"
      /\ k \in Buys /\ ~handler[h].uncertain => signal'[k] # "approved"
  BY <1>2 DEF Release, IInv, Types, Signal
<1>6. Types' /\ HeldIs' /\ Elsewhere(k)
  BY <1>1, <1>4, <1>5 DEF IInv, Types, HeldIs, Elsewhere
<1>7. k \in Buys => Rows(k)'
  BY <1>1, <1>3, <1>5 DEF Rows, Untouched, Traded
<1>8. Said(k)'
  BY <1>1, <1>3, <1>5 DEF Said, Real, Gone
<1>9. Fits(h)' /\ Stands(h)'
  BY <1>1, <1>2, <1>3, <1>4, <1>5, <1>7 DEF Fits, Running, Stands, Rows
<1> QED
  BY <1>1, <1>2, <1>4, <1>6, <1>7, <1>8, <1>9, OneKeyStep

LEMMA CrashStep ==
  ASSUME RequestAssumption, IInv, NEW h \in Handlers, Crash(h)
  PROVE  IInv'
<1>1. Running(h) /\ UNCHANGED <<mode, request, world, answers>>
  BY DEF Crash, At, Running
<1>2. handler' \in [Handlers -> Handler] /\ Moves(h) /\ handler'[h] = Idle
  BY IdleIsHandler, WriteHandler DEF Crash, IInv
<1>3. ~Running(h)' /\ Fits(h)' /\ Stands(h)'
  BY <1>2 DEF Fits, Stands, Running, Idle
<1>4. crashes' \in 0 .. MaxCrashes
  BY DEF Crash, IInv, Types, RequestAssumption
<1> QED
  BY <1>1, <1>2, <1>3, <1>4, HandlerStep

\* The row is saved with the handler's verdict; the client is told what the row
\* then shows, which is true of the key.
LEMMA FinishStep ==
  ASSUME RequestAssumption, IInv, NEW h \in Handlers, Finish(h)
  PROVE  IInv'
<1>1. /\ Running(h) /\ handler[h].pc \in {"done", "failed"}
      /\ UNCHANGED <<mode, signal, opening, position, held, exit, entries, crashes>>
  BY DEF Finish, At, Running, world
<1>2. PICK k \in Keys : handler[h].key = k
  BY <1>1, WorksOn
<1>3. /\ request[k].status = "processing" /\ Said(k) /\ (k \in Buys => Rows(k))
      /\ handler[h].pc = "done" => Real(k)
      /\ k \in Buys /\ ~handler[h].uncertain /\ handler[h].pc = "failed" =>
           signal[k] \notin {"approved", "executing"}
  BY <1>1, <1>2, WorksOn DEF Stands
<1>4. PICK status : status = IF At(h, "done") THEN "executed"
                              ELSE IF handler[h].uncertain THEN "unknown" ELSE "rejected"
  OBVIOUS
<1>5. PICK told : told = IF request[k].linked /\ View(k) # request[k].status THEN View(k) ELSE status
  OBVIOUS
<1>6. /\ request' = [request EXCEPT ![k].status = status, ![k].linked = @ \/ At(h, "done")]
      /\ Tell(k, told) /\ handler' = [handler EXCEPT ![h] = Idle]
  BY <1>2, <1>4, <1>5 DEF Finish
<1>7. /\ status \in Statuses
      /\ status = "executed" => Real(k)
      /\ k \in Buys /\ status = "rejected" => signal[k] \notin {"approved", "executing"}
  BY <1>1, <1>3, <1>4 DEF Statuses, At
<1>8. /\ told \in Statuses
      /\ told = "executed" => Real(k)
      /\ k \in Buys /\ told = "rejected" => Gone(k)
  <2>1. CASE request[k].linked /\ View(k) # request[k].status
    BY <1>3, <1>5, <2>1, ViewIsTrue
  <2>2. CASE ~(request[k].linked /\ View(k) # request[k].status)
    <3>1. told = status
      BY <1>5, <2>2
    <3>2. k \in Buys /\ status = "rejected" => opening[k] # "pending" /\ position[k] = "none"
      BY <1>3, <1>7, <2>2, KeyTypes DEF IInv, View, Rows, Untouched, RequestAssumption
    <3> QED
      BY <1>7, <3>1, <3>2 DEF Gone
  <2> QED
    BY <2>1, <2>2
<1>9. PICK linked \in BOOLEAN : linked <=> (request[k].linked \/ At(h, "done"))
  OBVIOUS
<1>10. /\ request' \in [Keys -> Request] /\ request'[k].status = status
       /\ request[k].linked => request'[k].linked
       /\ ~request'[k].linked => ~request[k].linked
       /\ \A j \in Keys : j # k => request'[j] = request[j]
  <2>1. [request[k] EXCEPT !.status = status, !.linked = linked] \in Request
    BY <1>7, KeyTypes DEF IInv, Request
  <2>2. request' = [request EXCEPT ![k] = [request[k] EXCEPT !.status = status, !.linked = linked]]
    BY <1>6, <1>9, KeyTypes DEF IInv, Types, Request
  <2>3. request'[k] = [request[k] EXCEPT !.status = status, !.linked = linked]
    BY <2>1, <2>2, WriteRequest DEF IInv
  <2>4. request'[k].status = status /\ request'[k].linked = linked
    BY <2>3, KeyTypes DEF IInv, Request
  <2> QED
    BY <1>9, <2>1, <2>2, <2>4, WriteRequest DEF IInv
<1>11. handler' \in [Handlers -> Handler] /\ Moves(h) /\ ~Running(h)' /\ handler'[h] = Idle
  BY <1>6, IdleIsHandler, WriteHandler DEF IInv, Running
<1>12. /\ answers' \in [Keys -> SUBSET Statuses] /\ answers'[k] = answers[k] \union {told}
       /\ \A j \in Keys : j # k => answers'[j] = answers[j]
  BY <1>6, <1>8, TellIs DEF IInv
<1>13. Types' /\ HeldIs' /\ Elsewhere(k)
  BY <1>1, <1>10, <1>11, <1>12 DEF IInv, Types, HeldIs, Elsewhere
<1>14. Fits(h)' /\ Stands(h)'
  BY <1>11 DEF Fits, Stands, Running, Idle
<1>15. k \in Buys => Rows(k)'
  BY <1>1, <1>3, <1>7, <1>10 DEF Rows, Untouched, Traded, Statuses
<1>16. Said(k)'
  <2>1. Real(k)' = Real(k) /\ (k \in Buys => Gone(k)' = Gone(k))
    BY <1>1 DEF Real, Gone
  <2>2. "executed" \in answers'[k] \/ request'[k].status = "executed" => Real(k)
    BY <1>3, <1>7, <1>8, <1>10, <1>12 DEF Said
  <2>3. k \in Buys /\ "rejected" \in answers'[k] => Gone(k)
    BY <1>3, <1>8, <1>12 DEF Said
  <2>4. k \in Buys /\ request'[k].status = "rejected" => signal'[k] \notin {"approved", "executing"}
    BY <1>1, <1>7, <1>10
  <2>5. k \in Buys /\ "rejected" \in answers'[k] =>
          request'[k].linked \/ request'[k].status = "rejected"
    <3>1. CASE "rejected" \in answers[k]
      BY <1>3, <1>10, <3>1 DEF Said
    <3>2. CASE told = "rejected"
      BY <1>5, <1>10, <3>2
    <3> QED
      BY <1>12, <3>1, <3>2
  <2> QED
    BY <2>1, <2>2, <2>3, <2>4, <2>5 DEF Said
<1> QED
  BY <1>1, <1>2, <1>11, <1>13, <1>14, <1>15, <1>16, OneKeyStep

-----------------------------------------------------------------------------
(* The steps beside the handlers *)

LEMMA MonitorStep ==
  ASSUME RequestAssumption, IInv, MonitorCloses
  PROVE  IInv'
<1>1. UNCHANGED <<mode, request, signal, opening, exit, handler, answers, entries, crashes>>
  BY DEF MonitorCloses
<1>2. /\ position' \in [Buys -> {"none", "open", "closed"}]
      /\ \A k \in Buys : position'[k] = "none" <=> position[k] = "none"
      /\ held' \in [mode : Modes, open : BOOLEAN] /\ (~held.open => ~held'.open)
      /\ held'.mode = held.mode /\ (held.mode = "live" => held' = held)
  BY DEF MonitorCloses, IInv, Types
<1>3. Types' /\ HeldIs'
  BY <1>1, <1>2 DEF IInv, Types, HeldIs
<1>4. \A k \in Keys : Real(k) => Real(k)'
  BY <1>2 DEF Real
<1>5. \A k \in Buys : Rows(k)' /\ Keeps(k)
  BY <1>1, <1>2 DEF IInv, Rows, Untouched, Traded, Keeps, Gone
<1> QED
  BY <1>1, <1>3, <1>4, <1>5, WorldStep

LEMMA SwitchStep ==
  ASSUME RequestAssumption, IInv, SwitchMode
  PROVE  IInv'
<1>1. UNCHANGED <<request, opening, position, held, exit, handler, answers, entries, crashes>>
  BY DEF SwitchMode
<1>2. /\ mode' \in Modes /\ signal' \in [Buys -> Signal]
      /\ \A k \in Buys : \/ signal'[k] = signal[k]
                         \/ signal[k] = "approved" /\ signal'[k] = "expired"
  BY DEF SwitchMode, IInv, Types, Modes, Signal
<1>3. Types' /\ HeldIs'
  BY <1>1, <1>2 DEF IInv, Types, HeldIs
<1>4. \A k \in Keys : Real(k) => Real(k)'
  BY <1>1 DEF Real
<1>5. \A k \in Buys : Rows(k)' /\ Keeps(k)
  BY <1>1, <1>2 DEF IInv, Rows, Untouched, Traded, Keeps, Gone
<1> QED
  BY <1>1, <1>3, <1>4, <1>5, WorldStep

LEMMA SweepStep ==
  ASSUME RequestAssumption, IInv, NEW b \in Buys, Sweep(b)
  PROVE  IInv'
<1>1. UNCHANGED <<mode, request, opening, position, held, exit, handler, answers, entries, crashes>>
  BY DEF Sweep
<1>2. /\ signal' \in [Buys -> Signal]
      /\ \A k \in Buys : \/ signal'[k] = signal[k]
                         \/ signal[k] = "approved" /\ signal'[k] = "expired"
  BY DEF Sweep, IInv, Types, Signal
<1>3. Types' /\ HeldIs'
  BY <1>1, <1>2 DEF IInv, Types, HeldIs
<1>4. \A k \in Keys : Real(k) => Real(k)'
  BY <1>1 DEF Real
<1>5. \A k \in Buys : Rows(k)' /\ Keeps(k)
  BY <1>1, <1>2 DEF IInv, Rows, Untouched, Traded, Keeps, Gone
<1> QED
  BY <1>1, <1>3, <1>4, <1>5, WorldStep

LEMMA ResolveBuyStep ==
  ASSUME RequestAssumption, IInv, NEW b \in Buys, NEW filled \in BOOLEAN, ResolveBuy(b, filled)
  PROVE  IInv'
<1>1. UNCHANGED <<mode, request, held, exit, handler, answers, entries, crashes>>
  BY DEF ResolveBuy
<1>2. /\ opening[b] = "pending" /\ signal[b] = "executing" /\ position[b] = "none"
      /\ request[b].linked /\ entries[b] = 1
  BY DEF ResolveBuy, IInv, Rows, Untouched, Traded
<1>3. /\ opening' \in [Buys -> Order] /\ signal' \in [Buys -> Signal]
      /\ position' \in [Buys -> {"none", "open", "closed"}]
      /\ opening'[b] = IF filled THEN "filled" ELSE "dead"
      /\ signal'[b] = IF filled THEN "executed" ELSE "rejected"
      /\ position'[b] = IF filled THEN "open" ELSE "none"
      /\ \A k \in Buys : k # b => /\ opening'[k] = opening[k] /\ signal'[k] = signal[k]
                                  /\ position'[k] = position[k]
  BY <1>2 DEF ResolveBuy, IInv, Types, Order, Signal
<1>4. Types' /\ HeldIs'
  BY <1>1, <1>3 DEF IInv, Types, HeldIs
<1>5. \A k \in Keys : Real(k) => Real(k)'
  BY <1>1, <1>2, <1>3 DEF Real
<1>6. Rows(b)' /\ Keeps(b)
  <2>1. request'[b] = request[b] /\ entries'[b] = 1 /\ b \in Keys
    BY <1>1, <1>2 DEF Keys
  <2>2. Rows(b)
    BY DEF IInv
  <2>3. CASE filled
    BY <1>2, <1>3, <2>1, <2>2, <2>3 DEF Rows, Untouched, Traded, Keeps, Gone
  <2>4. CASE ~filled
    BY <1>2, <1>3, <2>1, <2>2, <2>4 DEF Rows, Untouched, Traded, Keeps, Gone
  <2> QED
    BY <2>3, <2>4
<1>7. \A k \in Buys : k # b => Rows(k)' /\ Keeps(k)
  BY <1>1, <1>3 DEF IInv, Rows, Untouched, Traded, Keeps, Gone
<1> QED
  BY <1>1, <1>4, <1>5, <1>6, <1>7, WorldStep

LEMMA ResolveSellStep ==
  ASSUME RequestAssumption, IInv, NEW filled \in BOOLEAN, ResolveSell(filled)
  PROVE  IInv'
<1>1. UNCHANGED <<mode, request, signal, opening, position, handler, answers, entries, crashes>>
  BY DEF ResolveSell
<1>2. /\ exit' \in Order /\ exit' # "pending" /\ held' \in [mode : Modes, open : BOOLEAN]
      /\ held.open
  BY DEF ResolveSell, IInv, Types, HeldIs, Order
<1>3. Types' /\ HeldIs'
  BY <1>1, <1>2 DEF IInv, Types, HeldIs
<1>4. \A k \in Keys : Real(k) => Real(k)'
  BY <1>1, <1>2 DEF Real
<1>5. \A k \in Buys : Rows(k)' /\ Keeps(k)
  BY <1>1 DEF IInv, Rows, Untouched, Traded, Keeps, Gone
<1> QED
  BY <1>1, <1>3, <1>4, <1>5, WorldStep

-----------------------------------------------------------------------------
(* The theorems *)

LEMMA IInvInit ==
  ASSUME RequestAssumption
  PROVE  Init => IInv
<1> SUFFICES ASSUME Init PROVE IInv
  OBVIOUS
<1>1. Types
  BY IdleIsHandler DEF Init, Types, Request, Signal, Order, Modes, RequestAssumption
<1>2. \A h \in Handlers : handler[h].pc = "idle"
  BY DEF Init, Idle
<1>3. Handling /\ \A h \in Handlers : Stands(h)
  BY <1>2 DEF Handling, Alone, Fits, Running, Stands
<1>4. HeldIs /\ \A k \in Buys : Rows(k)
  BY DEF Init, HeldIs, Rows, Untouched, Traded, Keys
<1>5. \A k \in Keys : Said(k)
  BY DEF Init, Said
<1> QED
  BY <1>1, <1>3, <1>4, <1>5 DEF IInv

LEMMA IInvStep ==
  ASSUME RequestAssumption
  PROVE  IInv /\ [Next]_vars => IInv'
<1> SUFFICES ASSUME IInv, [Next]_vars PROVE IInv'
  OBVIOUS
<1>1. ASSUME NEW h \in Handlers, Handle(h) PROVE IInv'
  BY <1>1, PrepareStep, CloseHeldStep, JudgeStep, ReleaseStep, FinishStep, ClaimStep, AwaitBuyStep,
     SellStep, AwaitSellStep, TicketStep DEF Handle
<1>2. ASSUME NEW h \in Handlers, Crash(h) \/ \E k \in Keys, m \in Modes : Post(h, k, m) PROVE IInv'
  BY <1>2, CrashStep, PostStep
<1>3. CASE Surroundings
  BY <1>3, MonitorStep, SwitchStep, SweepStep, ResolveBuyStep, ResolveSellStep DEF Surroundings
<1>4. CASE UNCHANGED vars
  BY <1>4 DEF vars, IInv, Types, Handling, Alone, Fits, Running, HeldIs, Rows, Untouched, Traded,
     Stands, Said, Real, Gone
<1> QED
  BY <1>1, <1>2, <1>3, <1>4 DEF Next

\* The rows, the handlers and every answer given stay consistent (the tables of
\* option_trading and what order_data shows of them), whatever handlers run,
\* repeat or die beside the broker, the monitor, the sweep and the mode switch.
THEOREM RequestsInvariance ==
  ASSUME RequestAssumption
  PROVE  Spec => []IInv
BY IInvInit, IInvStep, PTL DEF Spec

\* The rows keep their types.
THEOREM TypeCorrectness ==
  ASSUME RequestAssumption
  PROVE  Spec => []TypeOK
<1>1. IInv => TypeOK
  BY KeyTypes DEF IInv, Types, TypeOK, Signal, Order, Keys
<1> QED
  BY <1>1, RequestsInvariance, PTL

\* A client UUID enters one trade at most, however often it is posted and
\* wherever a handler dies (OptionOrdersView.post, execute_buy).
THEOREM EntersOnce ==
  ASSUME RequestAssumption
  PROVE  Spec => []OneEntryPerKey
<1>1. IInv => OneEntryPerKey
  BY DEF IInv, Rows, OneEntryPerKey
<1> QED
  BY <1>1, RequestsInvariance, PTL

\* A buy that was told rejected is dead: nothing of it can become a position, so
\* the client may buy again under a new UUID (the exception path of post).
THEOREM RejectedStaysDead ==
  ASSUME RequestAssumption
  PROVE  Spec => []RejectedIsDead
<1>1. IInv => RejectedIsDead
  BY DEF IInv, Said, Gone, RejectedIsDead, Keys
<1> QED
  BY <1>1, RequestsInvariance, PTL

\* A request that was told executed has its position, or its position is closed.
THEOREM ExecutedStaysReal ==
  ASSUME RequestAssumption
  PROVE  Spec => []ExecutedIsReal
<1>1. IInv => ExecutedIsReal
  BY DEF IInv, Said, Real, ExecutedIsReal
<1> QED
  BY <1>1, RequestsInvariance, PTL

\* No two answers about one buy contradict each other (order_data).
THEOREM AnswersNeverDisagree ==
  ASSUME RequestAssumption
  PROVE  Spec => []AnswersAgree
<1>1. IInv => AnswersAgree
  BY DEF IInv, Said, Gone, Real, AnswersAgree, Keys
<1> QED
  BY <1>1, RequestsInvariance, PTL
=============================================================================
