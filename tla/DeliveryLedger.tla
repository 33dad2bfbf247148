---------------------------- MODULE DeliveryLedger ----------------------------
(***************************************************************************)
(* The paper delivery ledger of investing/delivery_views.py: orders of     *)
(* several users by several web processes, each one a transaction under    *)
(* the lock of the user's account row. A request id is unique over all     *)
(* users; the database (READ COMMITTED) refuses a second insert of it and  *)
(* the whole transaction with it.                                          *)
(*                                                                         *)
(* Money is in paise. A row that get_or_create would make is here from the *)
(* start, with its default values.                                         *)
(***************************************************************************)
EXTENDS Integers, FiniteSets, FiniteSetsExt

CONSTANTS
  Users, Stocks, Requests,
  Handlers,       \* web processes
  Tickets,        \* bound: the orders that clients post
  Prices,         \* daily closes
  InitialCash     \* DeliveryPaperAccount.cash, default

Free == "free"
Unset == [user |-> "none", stock |-> "none", action |-> "none", quantity |-> 0, price |-> 0]
NoQuote == 0      \* no stored close of the last seven days

TicketType == [user : Users, request : Requests, stock : Stocks, action : {"buy", "sell"},
               quantity : Nat \ {0}]

LedgerAssumption ==
  /\ Tickets \subseteq TicketType /\ Prices \subseteq Nat \ {0} /\ InitialCash \in Nat
  /\ Free \notin Handlers /\ "none" \notin Users \union Stocks

VARIABLES
  cash,       \* DeliveryPaperAccount.cash of each user
  holding,    \* DeliveryHolding of each user and stock
  order,      \* DeliveryPaperOrder by request id, Unset if there is none
  owner,      \* the handler whose transaction holds the lock of an account row
  handler,    \* what each process does, with the rows as it read them
  quote,      \* the usable daily close of each stock, NoQuote if there is none
  killed,     \* KillSwitchState.is_active
  receipts    \* the tickets that a client was told were executed

vars == <<cash, holding, order, owner, handler, quote, killed, receipts>>

NoTicket == [user |-> "none", request |-> "none", stock |-> "none", action |-> "none",
             quantity |-> 0]
Resting == [pc |-> "idle", ticket |-> NoTicket, cash |-> 0, held |-> 0, average |-> 0,
            realized |-> 0, price |-> 0]

Init ==
  /\ cash = [u \in Users |-> InitialCash]
  /\ holding = [u \in Users |-> [s \in Stocks |-> [quantity |-> 0, average |-> 0, realized |-> 0]]]
  /\ order = [r \in Requests |-> Unset]
  /\ owner = [u \in Users |-> Free]
  /\ handler = [h \in Handlers |-> Resting]
  /\ quote = [s \in Stocks |-> NoQuote]
  /\ killed = FALSE /\ receipts = {}

\* ROUND_HALF_EVEN, the rounding of Decimal.quantize.
HalfEven(a, b) ==
  LET whole == a \div b
      rest == a % b
  IN IF 2 * rest > b \/ (2 * rest = b /\ whole % 2 = 1) THEN whole + 1 ELSE whole

Booked(t, price) == [user |-> t.user, stock |-> t.stock, action |-> t.action,
                     quantity |-> t.quantity, price |-> price]
SameOrder(o, t) == o = Booked(t, o.price)

\* The answer ends the transaction: its lock is free again.
Answer(h) ==
  /\ handler' = [handler EXCEPT ![h] = Resting]
  /\ owner' = [owner EXCEPT ![handler[h].ticket.user] = Free]

-----------------------------------------------------------------------------

Post(h, t) ==
  /\ handler[h].pc = "idle"
  /\ handler' = [handler EXCEPT ![h] = [Resting EXCEPT !.pc = "wait", !.ticket = t]]
  /\ UNCHANGED <<cash, holding, order, owner, quote, killed, receipts>>

\* The rows a transaction reads after it has the lock of the account.
Read(h, t) ==
  LET row == holding[t.user][t.stock]
  IN [handler[h] EXCEPT !.pc = "ticket", !.cash = cash[t.user], !.held = row.quantity,
                        !.average = row.average, !.realized = row.realized]

\* select_for_update, then the order this request id may have made before.
Enter(h) ==
  LET t == handler[h].ticket
      existing == order[t.request]
  IN /\ handler[h].pc = "wait" /\ owner[t.user] = Free
     /\ IF existing # Unset
          THEN /\ handler' = [handler EXCEPT ![h] = Resting]
               /\ receipts' = IF SameOrder(existing, t) THEN receipts \union {t} ELSE receipts
               /\ UNCHANGED owner
          ELSE /\ owner' = [owner EXCEPT ![t.user] = h]
               /\ handler' = [handler EXCEPT ![h] = Read(h, t)]
               /\ UNCHANGED receipts
     /\ UNCHANGED <<cash, holding, order, quote, killed>>

\* The close and the switch are read, the new values of the rows computed.
Price(h) ==
  LET x == handler[h]
      t == x.ticket
      close == quote[t.stock]
      amount == close * t.quantity
  IN /\ x.pc = "ticket"
     /\ IF \/ close = NoQuote
           \/ t.action = "buy" /\ (killed \/ amount > x.cash)
           \/ t.action = "sell" /\ t.quantity > x.held
          THEN Answer(h)
          ELSE /\ handler' = [handler EXCEPT ![h] =
                    IF t.action = "buy"
                    THEN [x EXCEPT !.pc = "save", !.price = close, !.cash = @ - amount,
                                   !.held = @ + t.quantity,
                                   !.average = HalfEven(@ * x.held + amount, x.held + t.quantity)]
                    ELSE [x EXCEPT !.pc = "save", !.price = close, !.cash = @ + amount,
                                   !.held = @ - t.quantity,
                                   !.realized = @ + (close - x.average) * t.quantity,
                                   !.average = IF x.held = t.quantity THEN 0 ELSE @]]
               /\ UNCHANGED owner
     /\ UNCHANGED <<cash, holding, order, quote, killed, receipts>>

\* All three rows are saved, or none when the request id was taken meanwhile.
Save(h) ==
  LET x == handler[h]
      t == x.ticket
  IN /\ x.pc = "save" /\ Answer(h)
     /\ IF order[t.request] # Unset
          THEN UNCHANGED <<cash, holding, order, receipts>>
          ELSE /\ cash' = [cash EXCEPT ![t.user] = x.cash]
               /\ holding' = [holding EXCEPT ![t.user][t.stock] =
                    [quantity |-> x.held, average |-> x.average, realized |-> x.realized]]
               /\ order' = [order EXCEPT ![t.request] = Booked(t, x.price)]
               /\ receipts' = receipts \union {t}
     /\ UNCHANGED <<quote, killed>>

\* The process ends or the connection breaks: the database rolls back.
Break(h) ==
  /\ handler[h].pc # "idle"
  /\ handler' = [handler EXCEPT ![h] = Resting]
  /\ owner' = [u \in Users |-> IF owner[u] = h THEN Free ELSE owner[u]]
  /\ UNCHANGED <<cash, holding, order, quote, killed, receipts>>

\* refresh_watchlist_price_history stores a newer close, or closes grow old.
NewClose(s) ==
  /\ \E p \in (Prices \union {NoQuote}) \ {quote[s]} : quote' = [quote EXCEPT ![s] = p]
  /\ UNCHANGED <<cash, holding, order, owner, handler, killed, receipts>>

ToggleSwitch ==
  /\ killed' = ~killed
  /\ UNCHANGED <<cash, holding, order, owner, handler, quote, receipts>>

Transaction(h) == Enter(h) \/ Price(h) \/ Save(h)

Next ==
  \/ \E h \in Handlers : Transaction(h) \/ Break(h) \/ \E t \in Tickets : Post(h, t)
  \/ ToggleSwitch \/ \E s \in Stocks : NewClose(s)

Spec == Init /\ [][Next]_vars

-----------------------------------------------------------------------------
(* Properties *)

Pcs == {"idle", "wait", "ticket", "save"}

\* The types of the rows (apps/investing/models.py): neither cash nor a holding
\* is ever negative, which is more than the columns say of the cash.
TypeOK ==
  /\ cash \in [Users -> Nat] /\ killed \in BOOLEAN
  /\ holding \in [Users -> [Stocks -> [quantity : Nat, average : Nat, realized : Int]]]
  /\ owner \in [Users -> Handlers \union {Free}]
  /\ \A r \in Requests : order[r] # Unset =>
       order[r] \in [user : Users, stock : Stocks, action : {"buy", "sell"}, quantity : Nat \ {0},
                     price : Prices]
  /\ receipts \subseteq Tickets
  /\ \A h \in Handlers : handler[h].pc \in Pcs /\ (handler[h].pc # "idle" => handler[h].ticket \in TicketType)

OrdersOf(u, s, action) ==
  {r \in Requests : order[r].user = u /\ order[r].stock = s /\ order[r].action = action}
Shares(rs) == MapThenSumSet(LAMBDA r : order[r].quantity, rs)
Amount(rs) == MapThenSumSet(LAMBDA r : order[r].quantity * order[r].price, rs)

\* The rows agree with the orders, whatever transactions overlapped: the cash
\* with the amounts bought and sold, each holding with the shares.
RowsMatchOrders ==
  \A u \in Users :
    /\ cash[u] = InitialCash + MapThenSumSet(LAMBDA s : Amount(OrdersOf(u, s, "sell"))
                                                          - Amount(OrdersOf(u, s, "buy")), Stocks)
    /\ \A s \in Stocks :
         holding[u][s].quantity = Shares(OrdersOf(u, s, "buy")) - Shares(OrdersOf(u, s, "sell"))

\* DeliveryAccountView: a stock without a close is valued at its average price.
Mark(u, s) == IF quote[s] = NoQuote THEN holding[u][s].average ELSE quote[s]
PortfolioValue(u) ==
  cash[u] + MapThenSumSet(LAMBDA s : Mark(u, s) * holding[u][s].quantity, Stocks)
Unrealized(u) ==
  MapThenSumSet(LAMBDA s : (Mark(u, s) - holding[u][s].average) * holding[u][s].quantity, Stocks)
Realized(u) == MapThenSumSet(LAMBDA s : holding[u][s].realized, Stocks)

\* The page adds up: what the portfolio is worth is the initial cash and both
\* profits, up to half a paisa per share held at each rounding of an average.
ViewAddsUp ==
  \A u \in Users :
    LET drift == PortfolioValue(u) - InitialCash - Realized(u) - Unrealized(u)
        bought == MapThenSumSet(LAMBDA s : Shares(OrdersOf(u, s, "buy"))
                                             * Cardinality(OrdersOf(u, s, "buy")), Stocks)
    IN  2 * drift <= bought /\ -bought <= 2 * drift

\* A client that was told once that its order was executed has exactly that
\* order for good, whoever else used its request id (DeliveryOrdersView.post).
ToldIsBooked == \A t \in receipts : SameOrder(order[t.request], t)
===============================================================================
