---------------------------- MODULE Investing_proofs ----------------------------
(***************************************************************************)
(* Theorems of investing and news, for every value of the constants: the   *)
(* delivery ledger, the nightly scan (BtstScan) and the news poll          *)
(* (NewsFeed), each by itself.                                             *)
(*                                                                         *)
(* The ledger, for any number of clients, stocks, requests and web         *)
(* processes: the lock of an account row makes the rows that a transaction *)
(* read the current ones until it ends, so no order is booked on stale     *)
(* cash or shares.                                                         *)
(***************************************************************************)
EXTENDS DeliveryLedger, Sequences, FiniteSetTheorems, SequenceTheorems, TLAPS

CONSTANTS
  Workers, Watched, Days, Sessions, MaxMinutes, MaxMessages,   \* BtstScan
  Watchlist, Feeds, Score, Confidence, Sectors, Named, Lookback, Window, PageSize,
  MaxHours, MaxPolls, MaxStops                                 \* NewsFeed (with Workers)

VARIABLES
  run, signals, scan, today, minute, messages,
  news, poll, now, polls, stops

Night == INSTANCE BtstScan WITH day <- today
Headlines == INSTANCE NewsFeed WITH Stocks <- Named

HandlerType ==
  [pc : Pcs, ticket : Tickets \union {NoTicket}, cash : Int, held : Int, average : Int,
   realized : Int, price : Int]
RowType == [quantity : Nat, average : Nat, realized : Int]
OrderType ==
  [user : Users, stock : Stocks, action : {"buy", "sell"}, quantity : Nat \ {0}, price : Prices]

Shapes ==
  /\ cash \in [Users -> Nat]
  /\ holding \in [Users -> [Stocks -> RowType]]
  /\ order \in [Requests -> OrderType \union {Unset}]
  /\ owner \in [Users -> Handlers \union {Free}]
  /\ handler \in [Handlers -> HandlerType]
  /\ quote \in [Stocks -> Prices \union {NoQuote}]
  /\ killed \in BOOLEAN
  /\ receipts \subseteq Tickets

\* A transaction that is past select_for_update.
Busy(h) == handler[h].pc \in {"ticket", "save"}

Locks ==
  /\ \A h \in Handlers : handler[h].pc # "idle" => handler[h].ticket \in Tickets
  /\ \A h \in Handlers : Busy(h) => owner[handler[h].ticket.user] = h
  /\ \A u \in Users : owner[u] # Free => Busy(owner[u]) /\ handler[owner[u]].ticket.user = u

Row(t) == holding[t.user][t.stock]

\* What a transaction read is still so.
IsCurrent(x) ==
  /\ x.cash = cash[x.ticket.user] /\ x.held = Row(x.ticket).quantity
  /\ x.average = Row(x.ticket).average /\ x.realized = Row(x.ticket).realized

\* What it will write follows from the rows as they are.
IsNext(x) ==
  LET t == x.ticket
  IN /\ x.price \in Prices /\ x.average \in Nat
     /\ t.action = "buy" =>
          /\ x.cash = cash[t.user] - x.price * t.quantity /\ x.cash \in Nat
          /\ x.held = Row(t).quantity + t.quantity
          /\ x.realized = Row(t).realized
     /\ t.action = "sell" =>
          /\ x.cash = cash[t.user] + x.price * t.quantity
          /\ x.held = Row(t).quantity - t.quantity /\ x.held \in Nat
          /\ x.realized = Row(t).realized + (x.price - Row(t).average) * t.quantity

Copies ==
  \A h \in Handlers : /\ handler[h].pc = "ticket" => IsCurrent(handler[h])
                      /\ handler[h].pc = "save" => IsNext(handler[h])

LedgerInv == Shapes /\ Locks /\ Copies /\ ToldIsBooked

-----------------------------------------------------------------------------

LEMMA TicketFields ==
  ASSUME LedgerAssumption, NEW t \in Tickets
  PROVE  /\ t.user \in Users /\ t.request \in Requests /\ t.stock \in Stocks
         /\ t.action \in {"buy", "sell"} /\ t.quantity \in Nat \ {0}
BY DEF LedgerAssumption, TicketType

LEMMA RoundsToNat ==
  ASSUME NEW a \in Nat, NEW b \in Nat \ {0}
  PROVE  HalfEven(a, b) \in Nat
<1>1. a \div b \in Nat
  OBVIOUS
<1> QED
  BY <1>1 DEF HalfEven

LEMMA OrdersAreSet ==
  ASSUME LedgerAssumption
  PROVE  Unset \notin OrderType
BY DEF LedgerAssumption, Unset, OrderType

LEMMA InitLedger ==
  ASSUME LedgerAssumption, Init
  PROVE  LedgerInv
<1>1. Resting \in HandlerType
  BY DEF Resting, HandlerType, Pcs
<1>2. Shapes
  <2>1. cash \in [Users -> Nat] /\ killed \in BOOLEAN /\ receipts \subseteq Tickets
    BY DEF Init, LedgerAssumption
  <2>2. holding \in [Users -> [Stocks -> RowType]]
    <3>1. [quantity |-> 0, average |-> 0, realized |-> 0] \in RowType
      BY DEF RowType
    <3> QED
      BY <3>1 DEF Init
  <2>3. order \in [Requests -> OrderType \union {Unset}]
    BY DEF Init
  <2>4. owner \in [Users -> Handlers \union {Free}] /\ handler \in [Handlers -> HandlerType]
    BY <1>1 DEF Init
  <2>5. quote \in [Stocks -> Prices \union {NoQuote}]
    BY DEF Init
  <2> QED
    BY <2>1, <2>2, <2>3, <2>4, <2>5 DEF Shapes
<1>3. \A h \in Handlers : handler[h].pc = "idle"
  BY DEF Init, Resting
<1> QED
  BY <1>2, <1>3 DEF LedgerInv, Locks, Copies, ToldIsBooked, Busy, Init
-----------------------------------------------------------------------------
(* What the steps have in common *)

\* Only the process h moves.
Alone(h) == \A g \in Handlers \ {h} : handler'[g] = handler[g]

\* The locks that h holds are released, the others stay.
Releases(h) == \A u \in Users : owner'[u] = IF owner[u] = h THEN Free ELSE owner[u]

LEMMA OwnLock ==
  ASSUME LedgerAssumption, LedgerInv, NEW h \in Handlers
  PROVE  /\ Busy(h) => \A u \in Users : owner[u] = h <=> u = handler[h].ticket.user
         /\ ~Busy(h) => \A u \in Users : owner[u] # h
<1>1. Free # h
  BY DEF LedgerAssumption
<1> QED
  BY <1>1 DEF LedgerInv, Locks

\* Rows of an account that do not change leave the copies of them current.
LEMMA CopiesStay ==
  ASSUME NEW g \in Handlers, handler'[g] = handler[g],
         cash'[handler[g].ticket.user] = cash[handler[g].ticket.user],
         holding'[handler[g].ticket.user] = holding[handler[g].ticket.user]
  PROVE  /\ IsCurrent(handler[g]) => IsCurrent(handler[g])'
         /\ IsNext(handler[g]) => IsNext(handler[g])'
BY DEF IsCurrent, IsNext, Row

\* A process that leaves its transaction, or never began one, frees its lock.
LEMMA Leaving ==
  ASSUME LedgerAssumption, LedgerInv, NEW h \in Handlers, Alone(h), Releases(h),
         handler'[h].pc \in {"idle", "wait"},
         handler'[h].pc # "idle" => handler'[h].ticket \in Tickets,
         \A g \in Handlers \ {h} : Busy(g) =>
            /\ cash'[handler[g].ticket.user] = cash[handler[g].ticket.user]
            /\ holding'[handler[g].ticket.user] = holding[handler[g].ticket.user]
  PROVE  Locks' /\ Copies'
<1> USE DEF Alone
<1>1. ~Busy(h)'
  BY DEF Busy
<1>2. \A g \in Handlers \ {h} : Busy(g)' <=> Busy(g)
  BY DEF Busy
<1>3. \A g \in Handlers : handler'[g].pc # "idle" => handler'[g].ticket \in Tickets
  BY DEF LedgerInv, Locks
<1>4. ASSUME NEW g \in Handlers, Busy(g)'
      PROVE  owner'[handler'[g].ticket.user] = g
  <2>1. g # h /\ Busy(g)
    BY <1>1, <1>2, <1>4
  <2>2. handler[g].pc # "idle"
    BY <2>1 DEF Busy
  <2>3. handler[g].ticket \in Tickets /\ owner[handler[g].ticket.user] = g
    BY <2>1, <2>2 DEF LedgerInv, Locks
  <2>4. handler[g].ticket.user \in Users
    BY <2>3, TicketFields
  <2> QED
    BY <2>1, <2>3, <2>4 DEF Releases
<1>5. ASSUME NEW u \in Users, owner'[u] # Free
      PROVE  handler'[owner'[u]].pc \in {"ticket", "save"} /\ handler'[owner'[u]].ticket.user = u
  <2>1. owner'[u] = owner[u] /\ owner[u] # h /\ owner[u] # Free
    BY <1>5 DEF Releases
  <2>2. owner[u] \in Handlers
    BY <2>1 DEF LedgerInv, Shapes
  <2>3. Busy(owner[u]) /\ handler[owner[u]].ticket.user = u
    BY <2>1 DEF LedgerInv, Locks
  <2>4. handler'[owner[u]] = handler[owner[u]]
    BY <2>1, <2>2
  <2> QED
    BY <2>1, <2>3, <2>4 DEF Busy
<1>6. Copies'
  <2> SUFFICES ASSUME NEW g \in Handlers
               PROVE  /\ handler'[g].pc = "ticket" => IsCurrent(handler[g])'
                      /\ handler'[g].pc = "save" => IsNext(handler[g])'
    BY DEF Copies
  <2>1. CASE ~Busy(g)'
    BY <2>1 DEF Busy
  <2>2. CASE Busy(g)'
    <3>1. g # h /\ Busy(g)
      BY <1>1, <1>2, <2>2
    <3>2. /\ handler'[g] = handler[g]
          /\ cash'[handler[g].ticket.user] = cash[handler[g].ticket.user]
          /\ holding'[handler[g].ticket.user] = holding[handler[g].ticket.user]
      BY <3>1
    <3>3. /\ handler[g].pc = "ticket" => IsCurrent(handler[g])
          /\ handler[g].pc = "save" => IsNext(handler[g])
      BY DEF LedgerInv, Copies
    <3> QED
      BY <3>2, <3>3, CopiesStay
  <2> QED
    BY <2>1, <2>2
<1> QED
  BY <1>3, <1>4, <1>5, <1>6 DEF Locks, Busy

\* An order that a client was told of does not change.
LEMMA ToldStays ==
  ASSUME LedgerAssumption, LedgerInv, receipts' = receipts,
         \A r \in Requests : order[r] # Unset => order'[r] = order[r]
  PROVE  ToldIsBooked'
<1> SUFFICES ASSUME NEW t \in receipts
             PROVE  SameOrder(order'[t.request], t)
  BY DEF ToldIsBooked, SameOrder, Booked
<1>1. t \in Tickets /\ SameOrder(order[t.request], t)
  BY DEF LedgerInv, Shapes, ToldIsBooked
<1>2. t.user \in Users /\ t.request \in Requests
  BY <1>1, TicketFields
<1>3. order[t.request].user = t.user
  BY <1>1 DEF SameOrder, Booked
<1>4. order[t.request] # Unset
  BY <1>2, <1>3 DEF Unset, LedgerAssumption
<1> QED
  BY <1>1, <1>2, <1>4
-----------------------------------------------------------------------------
(* One step of each kind *)

LEMMA PostStep ==
  ASSUME LedgerAssumption, LedgerInv, NEW h \in Handlers, NEW t \in Tickets, Post(h, t)
  PROVE  LedgerInv'
<1> DEFINE next == [Resting EXCEPT !.pc = "wait", !.ticket = t]
<1>1. next \in HandlerType /\ next.pc = "wait" /\ next.ticket = t
  <2>1. Resting \in HandlerType
    BY DEF Resting, HandlerType, Pcs
  <2> PICK x \in HandlerType : x = Resting
    BY <2>1
  <2>2. next = [x EXCEPT !.pc = "wait", !.ticket = t]
    OBVIOUS
  <2> QED
    BY <2>2 DEF HandlerType, Pcs
<1>2. handler' = [handler EXCEPT ![h] = next] /\ handler \in [Handlers -> HandlerType]
  BY DEF Post, LedgerInv, Shapes
<1>3. UNCHANGED <<cash, holding, order, owner, quote, killed, receipts>> /\ ~Busy(h)
  BY DEF Post, Busy
<1> HIDE DEF next
<1>4. handler' \in [Handlers -> HandlerType] /\ Alone(h) /\ handler'[h] = next
  BY <1>1, <1>2 DEF Alone
<1>5. Releases(h)
  BY <1>3, OwnLock DEF Releases
<1>6. Locks' /\ Copies'
  BY <1>1, <1>3, <1>4, <1>5, Leaving
<1>7. ToldIsBooked'
  BY <1>3, ToldStays
<1>8. Shapes'
  BY <1>3, <1>4 DEF LedgerInv, Shapes
<1> QED
  BY <1>6, <1>7, <1>8 DEF LedgerInv

\* The order of the request is there already, it is the same or it is not.
LEMMA RepeatStep ==
  ASSUME LedgerAssumption, LedgerInv, NEW h \in Handlers, Enter(h),
         order[handler[h].ticket.request] # Unset
  PROVE  LedgerInv'
<1> DEFINE t == handler[h].ticket
<1>1. /\ handler[h].pc = "wait" /\ handler' = [handler EXCEPT ![h] = Resting]
      /\ receipts' = IF SameOrder(order[t.request], t) THEN receipts \union {t} ELSE receipts
      /\ UNCHANGED <<cash, holding, order, owner, quote, killed>>
  BY DEF Enter
<1>2. t \in Tickets
  BY <1>1 DEF LedgerInv, Locks
<1>3. Resting \in HandlerType /\ Resting.pc = "idle"
  BY DEF Resting, HandlerType, Pcs
<1>4. handler' \in [Handlers -> HandlerType] /\ Alone(h) /\ handler'[h] = Resting
  BY <1>1, <1>3 DEF Alone, LedgerInv, Shapes
<1>5. Releases(h)
  BY <1>1, OwnLock DEF Releases, Busy
<1>6. Locks' /\ Copies'
  BY <1>1, <1>3, <1>4, <1>5, Leaving
<1>7. ToldIsBooked'
  <2> SUFFICES ASSUME NEW q \in receipts' PROVE SameOrder(order[q.request], q)
    BY <1>1 DEF ToldIsBooked, SameOrder, Booked
  <2>1. CASE q \in receipts
    BY <2>1 DEF LedgerInv, ToldIsBooked
  <2>2. CASE q \notin receipts
    BY <2>2, <1>1
  <2> QED
    BY <2>1, <2>2
<1>8. Shapes'
  BY <1>1, <1>2, <1>4 DEF LedgerInv, Shapes
<1> QED
  BY <1>6, <1>7, <1>8 DEF LedgerInv

\* The lock was free: what is read under it is the newest.
LEMMA LockStep ==
  ASSUME LedgerAssumption, LedgerInv, NEW h \in Handlers, Enter(h),
         order[handler[h].ticket.request] = Unset
  PROVE  LedgerInv'
<1> DEFINE t == handler[h].ticket
           next == Read(h, t)
<1>1. /\ handler[h].pc = "wait" /\ owner[t.user] = Free
      /\ handler' = [handler EXCEPT ![h] = next] /\ owner' = [owner EXCEPT ![t.user] = h]
      /\ UNCHANGED <<cash, holding, order, quote, killed, receipts>>
  BY DEF Enter
<1>2. t \in Tickets /\ t.user \in Users /\ t.stock \in Stocks
  BY <1>1, TicketFields DEF LedgerInv, Locks
<1>3. handler[h] \in HandlerType /\ cash[t.user] \in Nat /\ Row(t) \in RowType
  BY <1>2 DEF LedgerInv, Shapes, Row
<1>4. /\ next \in HandlerType /\ next.pc = "ticket" /\ next.ticket = t /\ next.cash = cash[t.user]
      /\ next.held = Row(t).quantity /\ next.average = Row(t).average
      /\ next.realized = Row(t).realized
  <2> PICK x \in HandlerType : x = handler[h]
    BY <1>3
  <2> PICK row \in RowType : row = Row(t)
    BY <1>3
  <2>1. next = [x EXCEPT !.pc = "ticket", !.cash = cash[t.user], !.held = row.quantity,
                         !.average = row.average, !.realized = row.realized]
    BY DEF Read, Row
  <2>2. cash[t.user] \in Int /\ row.quantity \in Int /\ row.average \in Int /\ row.realized \in Int
    BY <1>3 DEF RowType
  <2> QED
    BY <2>1, <2>2 DEF HandlerType, Pcs
<1> HIDE DEF next
<1>5. /\ handler' \in [Handlers -> HandlerType] /\ Alone(h) /\ handler'[h] = next
      /\ owner' \in [Users -> Handlers \union {Free}] /\ owner'[t.user] = h
      /\ \A u \in Users \ {t.user} : owner'[u] = owner[u]
  BY <1>1, <1>2, <1>4 DEF Alone, LedgerInv, Shapes
<1>6. Shapes' /\ ToldIsBooked'
  BY <1>1, <1>5, ToldStays DEF LedgerInv, Shapes
<1>7. ~Busy(h) /\ \A u \in Users : owner[u] # h
  BY <1>1, OwnLock DEF Busy
<1>8. \A g \in Handlers : handler'[g].pc # "idle" => handler'[g].ticket \in Tickets
  BY <1>2, <1>4, <1>5 DEF LedgerInv, Locks, Alone
<1>9. ASSUME NEW g \in Handlers, handler'[g].pc \in {"ticket", "save"}
      PROVE  owner'[handler'[g].ticket.user] = g
  <2>1. CASE g = h
    BY <2>1, <1>4, <1>5
  <2>2. CASE g # h
    <3>1. handler'[g] = handler[g] /\ Busy(g)
      BY <2>2, <1>5, <1>9 DEF Alone, Busy
    <3>2. owner[handler[g].ticket.user] = g /\ handler[g].ticket.user \in Users
      BY <3>1, TicketFields DEF LedgerInv, Locks, Busy
    <3>3. handler[g].ticket.user # t.user
      BY <3>2, <1>1 DEF LedgerAssumption
    <3> QED
      BY <3>1, <3>2, <3>3, <1>5
  <2> QED
    BY <2>1, <2>2
<1>10. ASSUME NEW u \in Users, owner'[u] # Free
       PROVE  handler'[owner'[u]].pc \in {"ticket", "save"} /\ handler'[owner'[u]].ticket.user = u
  <2>1. CASE u = t.user
    BY <2>1, <1>4, <1>5
  <2>2. CASE u # t.user
    <3>1. owner'[u] = owner[u] /\ owner[u] # h /\ owner[u] \in Handlers
      BY <2>2, <1>5, <1>7, <1>10 DEF LedgerInv, Shapes
    <3>2. Busy(owner[u]) /\ handler[owner[u]].ticket.user = u /\ handler'[owner[u]] = handler[owner[u]]
      BY <3>1, <1>5, <1>10 DEF LedgerInv, Locks, Alone
    <3> QED
      BY <3>1, <3>2 DEF Busy
  <2> QED
    BY <2>1, <2>2
<1>11. Copies'
  <2> SUFFICES ASSUME NEW g \in Handlers
               PROVE  /\ handler'[g].pc = "ticket" => IsCurrent(handler[g])'
                      /\ handler'[g].pc = "save" => IsNext(handler[g])'
    BY DEF Copies
  <2>1. CASE g = h
    BY <2>1, <1>1, <1>4, <1>5 DEF IsCurrent, Row
  <2>2. CASE g # h
    BY <2>2, <1>1, <1>5, CopiesStay DEF Alone, LedgerInv, Copies
  <2> QED
    BY <2>1, <2>2
<1> QED
  BY <1>6, <1>8, <1>9, <1>10, <1>11 DEF LedgerInv, Locks, Busy

\* A transaction ends without a row changed.
LEMMA RefuseStep ==
  ASSUME LedgerAssumption, LedgerInv, NEW h \in Handlers, Busy(h), Answer(h),
         UNCHANGED <<cash, holding, order, quote, killed, receipts>>
  PROVE  LedgerInv'
<1>1. Resting \in HandlerType /\ Resting.pc = "idle"
  BY DEF Resting, HandlerType, Pcs
<1>2. /\ handler' = [handler EXCEPT ![h] = Resting]
      /\ owner' = [owner EXCEPT ![handler[h].ticket.user] = Free]
  BY DEF Answer
<1>3. handler' \in [Handlers -> HandlerType] /\ Alone(h) /\ handler'[h] = Resting
  BY <1>1, <1>2 DEF Alone, LedgerInv, Shapes
<1>4. Releases(h) /\ owner' \in [Users -> Handlers \union {Free}]
  BY <1>2, OwnLock DEF Releases, LedgerInv, Shapes
<1>5. Locks' /\ Copies'
  BY <1>1, <1>3, <1>4, Leaving
<1>6. Shapes' /\ ToldIsBooked'
  BY <1>3, <1>4, ToldStays DEF LedgerInv, Shapes
<1> QED
  BY <1>5, <1>6 DEF LedgerInv

\* The record that Price writes when it does not refuse.
Computed(x, close) ==
  IF x.ticket.action = "buy"
  THEN [x EXCEPT !.pc = "save", !.price = close, !.cash = @ - close * x.ticket.quantity,
                 !.held = @ + x.ticket.quantity,
                 !.average = HalfEven(@ * x.held + close * x.ticket.quantity,
                                      x.held + x.ticket.quantity)]
  ELSE [x EXCEPT !.pc = "save", !.price = close, !.cash = @ + close * x.ticket.quantity,
                 !.held = @ - x.ticket.quantity,
                 !.realized = @ + (close - x.average) * x.ticket.quantity,
                 !.average = IF x.held = x.ticket.quantity THEN 0 ELSE @]

\* The order passes the checks on the rows as they are: what it will write
\* neither overdraws the account nor sells shares it does not have.
LEMMA ComputedIsNext ==
  ASSUME LedgerAssumption, LedgerInv, NEW x \in HandlerType, x.ticket \in Tickets, IsCurrent(x),
         NEW close \in Prices,
         x.ticket.action = "buy" => close * x.ticket.quantity <= x.cash,
         x.ticket.action = "sell" => x.ticket.quantity <= x.held
  PROVE  /\ Computed(x, close) \in HandlerType /\ Computed(x, close).pc = "save"
         /\ Computed(x, close).ticket = x.ticket /\ IsNext(Computed(x, close))
<1> DEFINE t == x.ticket
<1>1. t.user \in Users /\ t.stock \in Stocks /\ t.action \in {"buy", "sell"} /\ t.quantity \in Nat \ {0}
  BY TicketFields
<1>2. close \in Nat \ {0} /\ x.cash \in Nat /\ x.held \in Nat /\ x.average \in Nat /\ x.realized \in Int
  BY <1>1 DEF LedgerAssumption, LedgerInv, Shapes, IsCurrent, Row, RowType
<1>3. close * t.quantity \in Nat
  BY <1>1, <1>2
<1>4. CASE t.action = "buy"
  <2> PICK amount \in Nat : amount = close * t.quantity
    BY <1>3
  <2>1. x.average * x.held \in Nat
    BY <1>2
  <2>2. x.average * x.held + amount \in Nat /\ x.held + t.quantity \in Nat \ {0}
    BY <2>1, <1>1, <1>2
  <2> PICK average \in Nat : average = HalfEven(x.average * x.held + amount, x.held + t.quantity)
    BY <2>2, RoundsToNat
  <2> PICK money \in Int : money = x.cash - amount
    BY <1>2
  <2> PICK shares \in Int : shares = x.held + t.quantity
    BY <1>1, <1>2
  <2>3. Computed(x, close) = [x EXCEPT !.pc = "save", !.price = close, !.cash = money,
                                       !.held = shares, !.average = average]
    BY <1>4 DEF Computed
  <2>4. Computed(x, close) \in HandlerType
    <3>1. close \in Int /\ average \in Int
      BY <1>2
    <3> HIDE DEF t
    <3> QED
      BY <2>3, <3>1 DEF HandlerType, Pcs
  <2>5. /\ Computed(x, close).pc = "save" /\ Computed(x, close).ticket = t
        /\ Computed(x, close).price = close /\ Computed(x, close).cash = x.cash - amount
        /\ Computed(x, close).held = x.held + t.quantity /\ Computed(x, close).average = average
        /\ Computed(x, close).realized = x.realized
    BY <2>3 DEF HandlerType
  <2>6. x.cash - amount \in Nat
    BY <1>2, <1>4
  <2> HIDE DEF t
  <2>7. IsNext(Computed(x, close))
    BY <2>5, <2>6, <1>4 DEF IsNext, IsCurrent, t
  <2> QED
    BY <2>4, <2>5, <2>7 DEF t
<1>5. CASE t.action = "sell"
  <2> PICK amount \in Nat : amount = close * t.quantity
    BY <1>3
  <2>1. (close - x.average) * t.quantity \in Int
    BY <1>1, <1>2
  <2> PICK gain \in Int : gain = (close - x.average) * t.quantity
    BY <2>1
  <2> PICK average \in Nat : average = IF x.held = t.quantity THEN 0 ELSE x.average
    BY <1>2
  <2> PICK money \in Int : money = x.cash + amount
    BY <1>2
  <2> PICK shares \in Int : shares = x.held - t.quantity
    BY <1>1, <1>2
  <2> PICK profit \in Int : profit = x.realized + gain
    BY <1>2
  <2>3. Computed(x, close) = [x EXCEPT !.pc = "save", !.price = close, !.cash = money,
                                       !.held = shares, !.realized = profit, !.average = average]
    BY <1>5 DEF Computed
  <2>4. Computed(x, close) \in HandlerType
    <3>1. close \in Int /\ average \in Int
      BY <1>2
    <3> HIDE DEF t
    <3> QED
      BY <2>3, <3>1 DEF HandlerType, Pcs
  <2>5. /\ Computed(x, close).pc = "save" /\ Computed(x, close).ticket = t
        /\ Computed(x, close).price = close /\ Computed(x, close).cash = x.cash + amount
        /\ Computed(x, close).held = x.held - t.quantity /\ Computed(x, close).average = average
        /\ Computed(x, close).realized = x.realized + gain
    BY <2>3 DEF HandlerType
  <2>6. x.held - t.quantity \in Nat
    BY <1>1, <1>2, <1>5
  <2> HIDE DEF t
  <2>7. IsNext(Computed(x, close))
    BY <2>5, <2>6, <1>5 DEF IsNext, IsCurrent, t
  <2> QED
    BY <2>4, <2>5, <2>7 DEF t
<1> QED
  BY <1>1, <1>4, <1>5

\* The new values are computed: nothing is written yet and the lock stays.
LEMMA PriceStep ==
  ASSUME LedgerAssumption, LedgerInv, NEW h \in Handlers, Price(h)
  PROVE  LedgerInv'
<1> DEFINE t == handler[h].ticket
           close == quote[t.stock]
           refused == \/ close = NoQuote
                      \/ t.action = "buy" /\ (killed \/ close * t.quantity > handler[h].cash)
                      \/ t.action = "sell" /\ t.quantity > handler[h].held
<1>1. handler[h].pc = "ticket" /\ UNCHANGED <<cash, holding, order, quote, killed, receipts>>
  BY DEF Price
<1>2. /\ t \in Tickets /\ t.user \in Users /\ t.stock \in Stocks /\ t.quantity \in Nat \ {0}
      /\ owner[t.user] = h /\ IsCurrent(handler[h]) /\ handler[h] \in HandlerType
  BY <1>1, TicketFields DEF LedgerInv, Locks, Copies, Busy, Shapes
<1>3. CASE refused
  <2>1. Answer(h)
    BY <1>3 DEF Price
  <2> QED
    BY <2>1, <1>1, RefuseStep DEF Busy
<1>4. CASE ~refused
  <2>1. close \in Prices
    BY <1>2, <1>4 DEF LedgerInv, Shapes
  <2>2. handler' = [handler EXCEPT ![h] = Computed(handler[h], close)] /\ owner' = owner
    BY <1>4 DEF Price, Computed
  <2> DEFINE next == Computed(handler[h], close)
  <2>3. close \in Nat /\ handler[h].cash \in Int /\ handler[h].held \in Int
    BY <2>1, <1>2 DEF LedgerAssumption, HandlerType
  <2>4. /\ t.action = "buy" => close * t.quantity <= handler[h].cash
        /\ t.action = "sell" => t.quantity <= handler[h].held
    BY <2>3, <1>2, <1>4
  <2>5. next \in HandlerType /\ next.pc = "save" /\ next.ticket = t /\ IsNext(next)
    BY <2>1, <2>4, <1>2, ComputedIsNext
  <2> HIDE DEF next
  <2>6. handler' \in [Handlers -> HandlerType] /\ Alone(h) /\ handler'[h] = next
    BY <2>2, <2>5 DEF Alone, LedgerInv, Shapes, next
  <2>7. Shapes' /\ ToldIsBooked'
    BY <1>1, <2>2, <2>6, ToldStays DEF LedgerInv, Shapes
  <2>8. \A g \in Handlers : Busy(g)' <=> Busy(g)
    BY <1>1, <2>5, <2>6 DEF Busy, Alone
  <2>9. \A g \in Handlers : handler'[g].ticket = handler[g].ticket
    BY <2>5, <2>6 DEF Alone
  <2>10. \A g \in Handlers : handler'[g].pc = "idle" <=> handler[g].pc = "idle"
    BY <1>1, <2>5, <2>6 DEF Alone
  <2>11. Locks'
    <3>1. \A g \in Handlers : handler'[g].pc # "idle" => handler'[g].ticket \in Tickets
      BY <2>9, <2>10 DEF LedgerInv, Locks
    <3>2. \A g \in Handlers : Busy(g)' => owner'[handler'[g].ticket.user] = g
      BY <2>2, <2>8, <2>9 DEF LedgerInv, Locks
    <3>3. ASSUME NEW u \in Users, owner'[u] # Free
          PROVE  handler'[owner'[u]].pc \in {"ticket", "save"} /\ handler'[owner'[u]].ticket.user = u
      <4>1. owner'[u] = owner[u] /\ owner[u] \in Handlers
        BY <2>2, <3>3 DEF LedgerInv, Shapes
      <4> QED
        BY <4>1, <2>8, <2>9, <3>3 DEF LedgerInv, Locks, Busy
    <3> QED
      BY <3>1, <3>2, <3>3 DEF Locks, Busy
  <2>12. Copies'
    <3> SUFFICES ASSUME NEW g \in Handlers
                 PROVE  /\ handler'[g].pc = "ticket" => IsCurrent(handler[g])'
                        /\ handler'[g].pc = "save" => IsNext(handler[g])'
      BY DEF Copies
    <3>1. CASE g = h
      BY <3>1, <1>1, <2>5, <2>6 DEF IsNext, Row
    <3>2. CASE g # h
      BY <3>2, <1>1, <2>6, CopiesStay DEF Alone, LedgerInv, Copies
    <3> QED
      BY <3>1, <3>2
  <2> QED
    BY <2>7, <2>11, <2>12 DEF LedgerInv
<1> QED
  BY <1>3, <1>4

\* The process or its connection is gone; what it held is free.
LEMMA BreakStep ==
  ASSUME LedgerAssumption, LedgerInv, NEW h \in Handlers, Break(h)
  PROVE  LedgerInv'
<1>1. Resting \in HandlerType /\ Resting.pc = "idle"
  BY DEF Resting, HandlerType, Pcs
<1>2. /\ handler' = [handler EXCEPT ![h] = Resting]
      /\ owner' = [u \in Users |-> IF owner[u] = h THEN Free ELSE owner[u]]
      /\ UNCHANGED <<cash, holding, order, quote, killed, receipts>>
  BY DEF Break
<1>3. handler' \in [Handlers -> HandlerType] /\ Alone(h) /\ handler'[h] = Resting
  BY <1>1, <1>2 DEF Alone, LedgerInv, Shapes
<1>4. Releases(h) /\ owner' \in [Users -> Handlers \union {Free}]
  BY <1>2 DEF Releases, LedgerInv, Shapes
<1>5. Locks' /\ Copies'
  BY <1>1, <1>2, <1>3, <1>4, Leaving
<1>6. Shapes' /\ ToldIsBooked'
  BY <1>2, <1>3, <1>4, ToldStays DEF LedgerInv, Shapes
<1> QED
  BY <1>5, <1>6 DEF LedgerInv

-----------------------------------------------------------------------------
(* The step that books an order *)

\* Exactly one order is new, its request id was free, and the rows change by
\* exactly what it says and nowhere else.
Books(r) ==
  LET o == order'[r]
  IN /\ order[r] = Unset /\ o \in OrderType
     /\ \A q \in Requests \ {r} : order'[q] = order[q]
     /\ \A u \in Users \ {o.user} : cash'[u] = cash[u] /\ holding'[u] = holding[u]
     /\ \A s \in Stocks \ {o.stock} : holding'[o.user][s] = holding[o.user][s]
     /\ o.action = "buy" =>
          /\ cash'[o.user] = cash[o.user] - o.price * o.quantity
          /\ holding'[o.user][o.stock].quantity = holding[o.user][o.stock].quantity + o.quantity
     /\ o.action = "sell" =>
          /\ cash'[o.user] = cash[o.user] + o.price * o.quantity
          /\ holding'[o.user][o.stock].quantity = holding[o.user][o.stock].quantity - o.quantity

BookedOnce == UNCHANGED <<cash, holding, order>> \/ \E r \in Requests : Books(r)

\* The transaction of h writes its order: r is its request.
Written(h) ==
  LET x == handler[h]
      t == x.ticket
  IN /\ cash' = [cash EXCEPT ![t.user] = x.cash]
     /\ holding' = [holding EXCEPT ![t.user][t.stock] =
          [quantity |-> x.held, average |-> x.average, realized |-> x.realized]]
     /\ order' = [order EXCEPT ![t.request] = Booked(t, x.price)]
     /\ receipts' = receipts \union {t}

LEMMA SaveFacts ==
  ASSUME LedgerAssumption, LedgerInv, NEW h \in Handlers, Save(h)
  PROVE  /\ Busy(h) /\ Answer(h) /\ UNCHANGED <<quote, killed>>
         /\ handler[h].ticket \in Tickets /\ IsNext(handler[h])
         /\ \/ UNCHANGED <<cash, holding, order, receipts>>
            \/ order[handler[h].ticket.request] = Unset /\ Written(h)
BY DEF Save, Busy, LedgerInv, Locks, Copies, Written

\* What a written order makes of the rows.
LEMMA WrittenRows ==
  ASSUME LedgerAssumption, LedgerInv, NEW h \in Handlers, Written(h), IsNext(handler[h]),
         handler[h].ticket \in Tickets
  PROVE  LET x == handler[h]
             t == x.ticket
         IN /\ cash' \in [Users -> Nat] /\ holding' \in [Users -> [Stocks -> RowType]]
            /\ order' \in [Requests -> OrderType \union {Unset}]
            /\ cash'[t.user] = x.cash /\ holding'[t.user][t.stock].quantity = x.held
            /\ order'[t.request] = Booked(t, x.price) /\ Booked(t, x.price) \in OrderType
            /\ \A q \in Requests \ {t.request} : order'[q] = order[q]
            /\ \A u \in Users \ {t.user} : cash'[u] = cash[u] /\ holding'[u] = holding[u]
            /\ \A s \in Stocks \ {t.stock} : holding'[t.user][s] = holding[t.user][s]
<1> PICK x \in HandlerType : x = handler[h]
  BY DEF LedgerInv, Shapes
<1> PICK t \in Tickets : t = x.ticket
  OBVIOUS
<1>1. /\ t.user \in Users /\ t.stock \in Stocks /\ t.request \in Requests
      /\ t.action \in {"buy", "sell"} /\ t.quantity \in Nat \ {0}
  BY TicketFields
<1>2. /\ cash \in [Users -> Nat] /\ holding \in [Users -> [Stocks -> RowType]]
      /\ order \in [Requests -> OrderType \union {Unset}]
  BY DEF LedgerInv, Shapes
<1>3. cash[t.user] \in Nat /\ holding[t.user] \in [Stocks -> RowType] /\ Row(t) \in RowType
  BY <1>1, <1>2 DEF Row
<1>4. Row(t).quantity \in Nat
  BY <1>3 DEF RowType
<1>5. x.price \in Prices /\ x.price \in Nat /\ x.average \in Nat /\ x.realized \in Int
  BY DEF IsNext, LedgerAssumption, HandlerType
<1>6. x.price * t.quantity \in Nat
  BY <1>1, <1>5
<1>7. x.cash \in Nat /\ x.held \in Nat
  <2> PICK amount \in Nat : amount = x.price * t.quantity
    BY <1>6
  <2>1. CASE t.action = "buy"
    <3>1. x.cash \in Nat /\ x.held = Row(t).quantity + t.quantity
      BY <2>1 DEF IsNext
    <3> QED
      BY <3>1, <1>1, <1>4
  <2>2. CASE t.action = "sell"
    <3>1. x.held \in Nat /\ x.cash = cash[t.user] + amount
      BY <2>2 DEF IsNext
    <3> QED
      BY <3>1, <1>3
  <2> QED
    BY <2>1, <2>2, <1>1
<1>8. /\ cash' = [cash EXCEPT ![t.user] = x.cash]
      /\ holding' = [holding EXCEPT ![t.user][t.stock] =
           [quantity |-> x.held, average |-> x.average, realized |-> x.realized]]
      /\ order' = [order EXCEPT ![t.request] = Booked(t, x.price)]
  BY DEF Written
<1> PICK row \in RowType : row = [quantity |-> x.held, average |-> x.average, realized |-> x.realized]
  BY <1>5, <1>7 DEF RowType
<1>9. row.quantity = x.held
  OBVIOUS
<1> PICK rows \in [Stocks -> RowType] : rows = [holding[t.user] EXCEPT ![t.stock] = row]
  BY <1>3
<1>10. holding' = [holding EXCEPT ![t.user] = rows]
  BY <1>8
<1>11. /\ holding' \in [Users -> [Stocks -> RowType]] /\ holding'[t.user] = rows
       /\ \A u \in Users \ {t.user} : holding'[u] = holding[u]
       /\ rows[t.stock] = row /\ \A s \in Stocks \ {t.stock} : rows[s] = holding[t.user][s]
  BY <1>1, <1>2, <1>3, <1>10
<1>12. /\ cash' \in [Users -> Nat] /\ cash'[t.user] = x.cash
       /\ \A u \in Users \ {t.user} : cash'[u] = cash[u]
  BY <1>1, <1>2, <1>7, <1>8
<1>13. Booked(t, x.price) \in OrderType
  BY <1>1, <1>5 DEF Booked, OrderType
<1>14. /\ order' \in [Requests -> OrderType \union {Unset}]
       /\ order'[t.request] = Booked(t, x.price)
       /\ \A q \in Requests \ {t.request} : order'[q] = order[q]
  BY <1>1, <1>2, <1>8, <1>13
<1> QED
  BY <1>9, <1>11, <1>12, <1>13, <1>14 DEF Row

LEMMA SaveBooks ==
  ASSUME LedgerAssumption, LedgerInv, NEW h \in Handlers, Save(h)
  PROVE  BookedOnce
<1> PICK x \in HandlerType : x = handler[h]
  BY DEF LedgerInv, Shapes
<1>1. x.ticket \in Tickets /\ IsNext(x)
  BY SaveFacts
<1> PICK t \in Tickets : t = x.ticket
  BY <1>1
<1>2. CASE UNCHANGED <<cash, holding, order, receipts>>
  BY <1>2 DEF BookedOnce
<1>3. CASE order[t.request] = Unset /\ Written(h)
  <2>1. /\ t.user \in Users /\ t.request \in Requests /\ t.action \in {"buy", "sell"}
    BY TicketFields
  <2>2. /\ cash'[t.user] = x.cash /\ holding'[t.user][t.stock].quantity = x.held
        /\ order'[t.request] = Booked(t, x.price) /\ Booked(t, x.price) \in OrderType
        /\ \A q \in Requests \ {t.request} : order'[q] = order[q]
        /\ \A u \in Users \ {t.user} : cash'[u] = cash[u] /\ holding'[u] = holding[u]
        /\ \A s \in Stocks \ {t.stock} : holding'[t.user][s] = holding[t.user][s]
    BY <1>1, <1>3, WrittenRows
  <2>3. /\ Booked(t, x.price).user = t.user /\ Booked(t, x.price).stock = t.stock
        /\ Booked(t, x.price).action = t.action /\ Booked(t, x.price).quantity = t.quantity
        /\ Booked(t, x.price).price = x.price
    BY DEF Booked
  <2>4. t.action = "buy" => /\ x.cash = cash[t.user] - x.price * t.quantity
                            /\ x.held = Row(t).quantity + t.quantity
    BY <1>1 DEF IsNext
  <2>5. t.action = "sell" => /\ x.cash = cash[t.user] + x.price * t.quantity
                             /\ x.held = Row(t).quantity - t.quantity
    BY <1>1 DEF IsNext
  <2>6. Books(t.request)
    BY <1>3, <2>2, <2>3, <2>4, <2>5 DEF Books, Row
  <2> QED
    BY <2>1, <2>6 DEF BookedOnce
<1> QED
  BY <1>2, <1>3, SaveFacts

LEMMA SaveStep ==
  ASSUME LedgerAssumption, LedgerInv, NEW h \in Handlers, Save(h)
  PROVE  LedgerInv'
<1> DEFINE t == handler[h].ticket
<1>1. /\ Busy(h) /\ Answer(h) /\ UNCHANGED <<quote, killed>> /\ t \in Tickets
      /\ IsNext(handler[h])
  BY SaveFacts
<1>2. CASE UNCHANGED <<cash, holding, order, receipts>>
  BY <1>1, <1>2, RefuseStep
<1>3. CASE order[t.request] = Unset /\ Written(h)
  <2>1. t.user \in Users /\ t.request \in Requests /\ owner[t.user] = h
    BY <1>1, TicketFields DEF LedgerInv, Locks
  <2>2. /\ cash' \in [Users -> Nat] /\ holding' \in [Users -> [Stocks -> RowType]]
        /\ order' \in [Requests -> OrderType \union {Unset}]
        /\ order'[t.request] = Booked(t, handler[h].price)
        /\ \A q \in Requests \ {t.request} : order'[q] = order[q]
        /\ \A u \in Users \ {t.user} : cash'[u] = cash[u] /\ holding'[u] = holding[u]
    BY <1>1, <1>3, WrittenRows
  <2>3. Resting \in HandlerType /\ Resting.pc = "idle"
    BY DEF Resting, HandlerType, Pcs
  <2>4. handler' \in [Handlers -> HandlerType] /\ Alone(h) /\ handler'[h] = Resting
    BY <1>1, <2>3 DEF Alone, Answer, LedgerInv, Shapes
  <2>5. Releases(h) /\ owner' \in [Users -> Handlers \union {Free}]
    BY <1>1, OwnLock DEF Releases, Answer, LedgerInv, Shapes
  <2>6. receipts' = receipts \union {t}
    BY <1>3 DEF Written
  <2>7. Shapes'
    BY <1>1, <2>2, <2>4, <2>5, <2>6 DEF LedgerInv, Shapes
  <2>8. ASSUME NEW g \in Handlers \ {h}, Busy(g)
        PROVE  /\ cash'[handler[g].ticket.user] = cash[handler[g].ticket.user]
               /\ holding'[handler[g].ticket.user] = holding[handler[g].ticket.user]
    <3>1. handler[g].ticket \in Tickets /\ owner[handler[g].ticket.user] = g
      BY <2>8 DEF LedgerInv, Locks, Busy
    <3>2. handler[g].ticket.user \in Users /\ handler[g].ticket.user # t.user
      BY <3>1, <2>1, TicketFields
    <3> QED
      BY <3>2, <2>2
  <2>9. Locks' /\ Copies'
    BY <2>3, <2>4, <2>5, <2>8, Leaving
  <2>10. ToldIsBooked'
    <3> SUFFICES ASSUME NEW q \in receipts'
                 PROVE  SameOrder(order'[q.request], q)
      BY DEF ToldIsBooked, SameOrder, Booked
    <3>1. CASE q = t
      BY <3>1, <2>2 DEF SameOrder, Booked
    <3>2. CASE q # t
      <4>1. q \in Tickets /\ SameOrder(order[q.request], q)
        BY <3>2, <2>6 DEF LedgerInv, Shapes, ToldIsBooked
      <4>2. q.user \in Users /\ q.request \in Requests
        BY <4>1, TicketFields
      <4>3. order[q.request].user = q.user
        BY <4>1 DEF SameOrder, Booked
      <4>4. order[q.request] # Unset
        BY <4>2, <4>3 DEF Unset, LedgerAssumption
      <4>5. q.request # t.request
        BY <4>4, <1>3
      <4> QED
        BY <4>1, <4>2, <4>5, <2>2
    <3> QED
      BY <3>1, <3>2
  <2> QED
    BY <2>7, <2>9, <2>10 DEF LedgerInv
<1> QED
  BY <1>2, <1>3, SaveFacts

-----------------------------------------------------------------------------
(* The theorems *)

LEMMA OutsideStep ==
  ASSUME LedgerAssumption, LedgerInv, ToggleSwitch \/ \E s \in Stocks : NewClose(s)
  PROVE  LedgerInv'
<1>1. UNCHANGED <<cash, holding, order, owner, handler, receipts>>
  BY DEF ToggleSwitch, NewClose
<1>2. Shapes'
  <2>1. CASE ToggleSwitch
    BY <2>1 DEF ToggleSwitch, LedgerInv, Shapes
  <2>2. CASE \E s \in Stocks : NewClose(s)
    BY <2>2 DEF NewClose, LedgerInv, Shapes
  <2> QED
    BY <2>1, <2>2
<1>3. Locks' /\ ToldIsBooked'
  BY <1>1 DEF LedgerInv, Locks, ToldIsBooked, Busy
<1>4. Copies'
  BY <1>1 DEF LedgerInv, Copies, IsCurrent, IsNext, Row
<1> QED
  BY <1>2, <1>3, <1>4 DEF LedgerInv

LEMMA LedgerStep ==
  ASSUME LedgerAssumption, LedgerInv, [Next]_vars
  PROVE  LedgerInv' /\ BookedOnce
<1>1. CASE \E h \in Handlers : Transaction(h) \/ Break(h) \/ \E t \in Tickets : Post(h, t)
  <2> PICK h \in Handlers : Transaction(h) \/ Break(h) \/ \E t \in Tickets : Post(h, t)
    BY <1>1
  <2>1. CASE Enter(h)
    <3>1. LedgerInv'
      BY <2>1, RepeatStep, LockStep
    <3>2. BookedOnce
      BY <2>1 DEF Enter, BookedOnce
    <3> QED
      BY <3>1, <3>2
  <2>2. CASE Price(h)
    BY <2>2, PriceStep DEF Price, BookedOnce
  <2>3. CASE Save(h)
    BY <2>3, SaveStep, SaveBooks
  <2>4. CASE Break(h)
    BY <2>4, BreakStep DEF Break, BookedOnce
  <2>5. CASE \E t \in Tickets : Post(h, t)
    BY <2>5, PostStep DEF Post, BookedOnce
  <2> QED
    BY <2>1, <2>2, <2>3, <2>4, <2>5 DEF Transaction
<1>2. CASE ToggleSwitch \/ \E s \in Stocks : NewClose(s)
  BY <1>2, OutsideStep DEF ToggleSwitch, NewClose, BookedOnce
<1>3. CASE UNCHANGED vars
  <2>1. UNCHANGED <<cash, holding, order, owner, handler, quote, killed, receipts>>
    BY <1>3 DEF vars
  <2> QED
    BY <2>1 DEF LedgerInv, Shapes, Locks, Copies, ToldIsBooked, Busy, IsCurrent, IsNext, Row,
                BookedOnce
<1> QED
  BY <1>1, <1>2, <1>3 DEF Next

\* What a transaction read under select_for_update stays what the database has
\* until it answers, and what it will write follows from that.
THEOREM LedgerInvariance ==
  ASSUME LedgerAssumption
  PROVE  Spec => []LedgerInv
<1>1. Init => LedgerInv
  BY InitLedger
<1>2. LedgerInv /\ [Next]_vars => LedgerInv'
  BY LedgerStep
<1> QED
  BY <1>1, <1>2, PTL DEF Spec

\* The columns hold what apps/investing/models.py lets them, and more: no order
\* overdraws an account or sells shares that are not there, though the checks
\* (delivery_views.py) and the save are steps of their own.
THEOREM RowsStayTyped ==
  ASSUME LedgerAssumption
  PROVE  Spec => []TypeOK
<1>1. LedgerInv => TypeOK
  <2> SUFFICES ASSUME LedgerInv PROVE TypeOK
    OBVIOUS
  <2>1. handler \in [Handlers -> HandlerType] /\ \A h \in Handlers : handler[h].pc \in Pcs
    BY DEF LedgerInv, Shapes, HandlerType
  <2>2. \A h \in Handlers : handler[h].pc # "idle" => handler[h].ticket \in TicketType
    BY DEF LedgerInv, Locks, LedgerAssumption
  <2> QED
    BY <2>1, <2>2 DEF LedgerInv, Shapes, RowType, OrderType, TypeOK
<1> QED
  BY <1>1, LedgerInvariance, PTL

\* A client that was told its order was executed has exactly that order for
\* good, though the request id is unique over all users and may be used twice.
THEOREM ToldStaysBooked ==
  ASSUME LedgerAssumption
  PROVE  Spec => []ToldIsBooked
<1>1. LedgerInv => ToldIsBooked
  BY DEF LedgerInv
<1> QED
  BY <1>1, LedgerInvariance, PTL

\* At most one transaction of an account is past its lock.
LockExcludes ==
  \A g, h \in Handlers :
    Busy(g) /\ Busy(h) /\ handler[g].ticket.user = handler[h].ticket.user => g = h

THEOREM OneTransactionPerAccount ==
  ASSUME LedgerAssumption
  PROVE  Spec => []LockExcludes
<1>1. LedgerInv => LockExcludes
  BY DEF LedgerInv, Locks, LockExcludes
<1> QED
  BY <1>1, LedgerInvariance, PTL

\* Cash and holdings change only with a new order and by exactly what it says,
\* and an order never changes: that is RowsMatchOrders, step by step.
THEOREM OrdersAreBookedOnce ==
  ASSUME LedgerAssumption
  PROVE  Spec => [][BookedOnce]_vars
<1>1. LedgerInv /\ [Next]_vars => [BookedOnce]_vars
  BY LedgerStep
<1> QED
  BY <1>1, LedgerInvariance, PTL DEF Spec

-----------------------------------------------------------------------------
(* BtstScan: one scan per day, and every stock accounted for *)

(***************************************************************************)
(* A day that someone scans has a running row, so nobody else takes it and *)
(* its row is written once, by the scan that holds it.  Until then the     *)
(* scan itself accounts for its stocks: each is still to come, has its     *)
(* signal, or has its reason, and no two of these.  Everything is said of  *)
(* rows r, scans s and keys D of signals, so that a step is a lemma about  *)
(* values.                                                                 *)
(***************************************************************************)
Rest(x) == {x.left[k] : k \in DOMAIN x.left}
WithSignal(D, d, s) == D \union {<<d, s>>}
Found(D, d) == {p[2] : p \in {q \in D : q[1] = d}}

Reasons == SUBSET (Night!Stocks \union {"scan"})
DayRows ==
  [status : Night!Finished \union {"missing", "running"}, scanned : Nat, reasons : Reasons, count : Nat]
Scans ==
  [pc : {"idle", "scan", "failed"}, day : 0 .. Days, left : Seq(Night!Stocks), scanned : Nat,
   reasons : Reasons]

\* f are the stocks of its day that have a signal.
ScanAccounts(x, f) ==
  /\ \A i, j \in DOMAIN x.left : x.left[i] = x.left[j] => i = j
  /\ Rest(x) \intersect (f \union x.reasons) = {} /\ f \intersect x.reasons = {}
  /\ x.scanned = Cardinality(f \union (x.reasons \ {"scan"}))
  /\ "scan" \in x.reasons => x.left = <<>>
  /\ x.pc = "failed" => x.reasons = {"scan"}
  /\ x.pc = "scan" /\ "scan" \notin x.reasons => Rest(x) \union f \union x.reasons = Night!Stocks
RowAccounts(row, f) ==
  /\ row.status = "missing" => f = {}
  /\ row.status \in Night!Finished =>
       /\ row.count = Cardinality(f) /\ f \intersect row.reasons = {}
       /\ row.scanned = Cardinality(f \union (row.reasons \ {"scan"}))
       /\ row.status = "completed" <=> f \union row.reasons = Night!Stocks

NightTypes(r, s, D) ==
  /\ r \in [1 .. Days -> DayRows] /\ s \in [Workers -> Scans]
  /\ D \in SUBSET ((1 .. Days) \X Night!Stocks)
OneScan(s) ==
  \A v, w \in Workers : v # w /\ s[v].pc # "idle" /\ s[w].pc # "idle" => s[v].day # s[w].day
ScansAccount(r, s, D) ==
  \A w \in Workers : s[w].pc # "idle" =>
    /\ s[w].day \in 1 .. Days /\ r[s[w].day].status = "running"
    /\ ScanAccounts(s[w], Found(D, s[w].day))
RowsAccount(r, D) == \A d \in 1 .. Days : RowAccounts(r[d], Found(D, d))
Holds(r, s, D) == NightTypes(r, s, D) /\ OneScan(s) /\ ScansAccount(r, s, D) /\ RowsAccount(r, D)
NightInv == today \in 1 .. Days /\ Holds(run, scan, DOMAIN signals)

LEMMA StocksAreFinite ==
  ASSUME Night!BtstAssumption, NEW S \in SUBSET Night!Stocks
  PROVE  IsFiniteSet(S) /\ Cardinality(S) \in Nat
<1>1. Watched \in Seq(Night!Stocks)
  BY DEF Night!BtstAssumption
<1>2. DOMAIN Watched = 1 .. Len(Watched) /\ Len(Watched) \in Int
  BY <1>1, LenProperties
<1>3. IsFiniteSet(DOMAIN Watched)
  BY <1>2, FS_Interval
<1>4. IsFiniteSet(Night!Stocks)
  <2> DEFINE f == [k \in DOMAIN Watched |-> Watched[k]]
  <2>1. f \in Surjection(DOMAIN Watched, Night!Stocks)
    BY DEF Night!Stocks, Surjection
  <2> QED
    BY <1>3, <2>1, FS_Surjection
<1> QED
  BY <1>4, FS_Subset, FS_CardinalityType

\* The signals of a day are as many as its stocks that have one.
LEMMA SignalsAreStocks ==
  ASSUME Night!BtstAssumption, NEW d \in 1 .. Days, NEW D \in SUBSET ((1 .. Days) \X Night!Stocks)
  PROVE  /\ Found(D, d) \in SUBSET Night!Stocks
         /\ Cardinality({q \in D : q[1] = d}) = Cardinality(Found(D, d))
<1> DEFINE P == {q \in D : q[1] = d}
<1>1. \A p \in P : p = <<d, p[2]>> /\ p[2] \in Night!Stocks
  OBVIOUS
<1>2. Found(D, d) \in SUBSET Night!Stocks
  BY <1>1 DEF Found
<1> DEFINE f == [s \in Found(D, d) |-> <<d, s>>]
<1>3. f \in Bijection(Found(D, d), P)
  <2>1. \A s \in Found(D, d) : <<d, s>> \in P
    BY <1>1 DEF Found
  <2>2. f \in Injection(Found(D, d), P)
    BY <2>1 DEF Injection, IsInjective
  <2>3. f \in Surjection(Found(D, d), P)
    BY <1>1, <2>1 DEF Surjection, Found
  <2> QED
    BY <2>2, <2>3 DEF Bijection
<1>4. ExistsBijection(Found(D, d), P)
  BY <1>3 DEF ExistsBijection
<1> QED
  BY <1>2, <1>4, StocksAreFinite, FS_Bijection

\* A new signal of a day is a new stock of that day, and of no other.
LEMMA SignalIsFound ==
  ASSUME NEW D, NEW d, NEW s
  PROVE  Found(WithSignal(D, d, s), d) = Found(D, d) \union {s}
<1> DEFINE E == WithSignal(D, d, s)
<1>1. {q \in E : q[1] = d} = {q \in D : q[1] = d} \union {<<d, s>>}
  BY DEF WithSignal
<1>2. <<d, s>>[2] = s
  OBVIOUS
<1>3. \A t : t \in Found(E, d) <=> \E p \in {q \in D : q[1] = d} \union {<<d, s>>} : t = p[2]
  BY <1>1 DEF Found
<1>4. \A t : t \in Found(D, d) <=> \E p \in {q \in D : q[1] = d} : t = p[2]
  BY DEF Found
<1>5. \A t : t \in Found(E, d) <=> t \in Found(D, d) \/ t = s
  BY <1>2, <1>3, <1>4
<1> QED
  BY <1>5

LEMMA OtherDaysKeep ==
  ASSUME NEW D, NEW d, NEW s, NEW e, e # d
  PROVE  Found(WithSignal(D, d, s), e) = Found(D, e)
<1>1. {q \in WithSignal(D, d, s) : q[1] = e} = {q \in D : q[1] = e}
  BY DEF WithSignal
<1> QED
  BY <1>1 DEF Found

\* What is left of a list without its head.
LEMMA TailRests ==
  ASSUME NEW S, NEW l \in Seq(S), l # <<>>, \A i, j \in DOMAIN l : l[i] = l[j] => i = j
  PROVE  /\ Head(l) \in S /\ Tail(l) \in Seq(S)
         /\ {l[k] : k \in DOMAIN l} = {Head(l)} \union {Tail(l)[k] : k \in DOMAIN Tail(l)}
         /\ Head(l) \notin {Tail(l)[k] : k \in DOMAIN Tail(l)}
         /\ \A i, j \in DOMAIN Tail(l) : Tail(l)[i] = Tail(l)[j] => i = j
<1>1. /\ Len(l) \in Nat \ {0} /\ DOMAIN l = 1 .. Len(l)
      /\ Head(l) = l[1] /\ Head(l) \in S
      /\ Tail(l) \in Seq(S) /\ Len(Tail(l)) = Len(l) - 1
  BY HeadTailProperties, LenProperties, EmptySeq
<1>2. DOMAIN Tail(l) = 1 .. Len(l) - 1
  BY <1>1, LenProperties
<1>3. \A k \in DOMAIN Tail(l) : Tail(l)[k] = l[k + 1]
  BY <1>1, <1>2, HeadTailProperties
<1>4. ASSUME NEW k \in DOMAIN l, k # 1
      PROVE  k - 1 \in DOMAIN Tail(l) /\ l[k] = Tail(l)[k - 1]
  BY <1>1, <1>2, <1>3, <1>4
<1>5. \A k \in DOMAIN Tail(l) : k + 1 \in DOMAIN l /\ k + 1 # 1
  BY <1>1, <1>2
<1>6. 1 \in DOMAIN l
  BY <1>1
<1>7. {l[k] : k \in DOMAIN l} = {Head(l)} \union {Tail(l)[k] : k \in DOMAIN Tail(l)}
  <2>1. ASSUME NEW k \in DOMAIN l
        PROVE  l[k] \in {Head(l)} \union {Tail(l)[i] : i \in DOMAIN Tail(l)}
    <3>1. CASE k = 1
      BY <1>1, <3>1
    <3>2. CASE k # 1
      <4>1. k - 1 \in DOMAIN Tail(l) /\ l[k] = Tail(l)[k - 1]
        BY <1>4, <3>2
      <4> DEFINE i == k - 1
      <4>2. i \in DOMAIN Tail(l) /\ l[k] = Tail(l)[i]
        BY <4>1
      <4> HIDE DEF i
      <4> QED
        BY <4>2
    <3> QED
      BY <3>1, <3>2
  <2>2. Head(l) \in {l[k] : k \in DOMAIN l}
    BY <1>1, <1>6
  <2>3. \A i \in DOMAIN Tail(l) : Tail(l)[i] \in {l[k] : k \in DOMAIN l}
    BY <1>3, <1>5
  <2> QED
    BY <2>1, <2>2, <2>3
<1>8. Head(l) \notin {Tail(l)[k] : k \in DOMAIN Tail(l)}
  BY <1>1, <1>3, <1>5, <1>6
<1>9. ASSUME NEW i \in DOMAIN Tail(l), NEW j \in DOMAIN Tail(l), Tail(l)[i] = Tail(l)[j]
      PROVE  i = j
  <2>1. i + 1 = j + 1
    BY <1>3, <1>5, <1>9
  <2> QED
    BY <1>2, <2>1
<1> QED
  BY <1>1, <1>7, <1>8, <1>9

\* A step of one scan that writes neither rows nor signals.
LEMMA ScanMoves ==
  ASSUME NEW r, NEW s, NEW D, Holds(r, s, D), NEW w \in Workers, NEW new \in Scans,
         new.pc # "idle" =>
           s[w].pc # "idle" /\ new.day = s[w].day /\ ScanAccounts(new, Found(D, new.day))
  PROVE  Holds(r, [s EXCEPT ![w] = new], D)
<1> DEFINE t == [s EXCEPT ![w] = new]
<1>1. /\ t \in [Workers -> Scans] /\ t[w] = new
      /\ \A v \in Workers : v # w => t[v] = s[v]
  BY DEF Holds, NightTypes
<1> HIDE DEF t
<1>2. \A v \in Workers : t[v].pc # "idle" => s[v].pc # "idle" /\ t[v].day = s[v].day
  BY <1>1
<1>3. NightTypes(r, t, D)
  BY <1>1 DEF Holds, NightTypes
<1>4. OneScan(t)
  BY <1>2 DEF Holds, OneScan
<1>5. ASSUME NEW v \in Workers, t[v].pc # "idle"
      PROVE  /\ t[v].day \in 1 .. Days /\ r[t[v].day].status = "running"
             /\ ScanAccounts(t[v], Found(D, t[v].day))
  <2>1. s[v].pc # "idle" /\ t[v].day = s[v].day
    BY <1>2, <1>5
  <2>2. t[v].day \in 1 .. Days /\ r[t[v].day].status = "running"
    BY <2>1 DEF Holds, ScansAccount
  <2>3. ScanAccounts(t[v], Found(D, t[v].day))
    <3>1. CASE v = w
      BY <1>1, <1>5, <3>1
    <3>2. CASE v # w
      BY <1>1, <2>1, <3>2 DEF Holds, ScansAccount
    <3> QED
      BY <3>1, <3>2
  <2> QED
    BY <2>2, <2>3
<1>6. ScansAccount(r, t, D)
  BY <1>5 DEF ScansAccount
<1>7. Holds(r, t, D)
  BY <1>3, <1>4, <1>6 DEF Holds
<1> QED
  BY <1>7 DEF t

\* Whoever takes a day finds no row, and so no scan and no signal of that day.
LEMMA DayIsTaken ==
  ASSUME Night!BtstAssumption, NEW r, NEW s, NEW D, Holds(r, s, D), NEW w \in Workers,
         s[w].pc = "idle", NEW d \in 1 .. Days, r[d].status = "missing",
         NEW row \in DayRows, row.status = "running", NEW new \in Scans, new.pc = "scan",
         new.day = d, new.left = Watched, new.reasons = {}, new.scanned = 0
  PROVE  Holds([r EXCEPT ![d] = row], [s EXCEPT ![w] = new], D)
<1> DEFINE q == [r EXCEPT ![d] = row]
           t == [s EXCEPT ![w] = new]
<1>1. /\ t \in [Workers -> Scans] /\ t[w] = new
      /\ \A v \in Workers : v # w => t[v] = s[v]
  BY DEF Holds, NightTypes
<1>2. /\ q \in [1 .. Days -> DayRows] /\ q[d] = row
      /\ \A e \in 1 .. Days : e # d => q[e] = r[e]
  BY DEF Holds, NightTypes
<1> HIDE DEF q, t
<1>3. Found(D, d) = {}
  BY DEF Holds, RowsAccount, RowAccounts
<1>4. \A v \in Workers : s[v].pc # "idle" => s[v].day # d
  BY DEF Holds, ScansAccount
<1>5. NightTypes(q, t, D)
  BY <1>1, <1>2 DEF Holds, NightTypes
<1>6. OneScan(t)
  <2>1. ASSUME NEW u \in Workers, NEW v \in Workers, u # v, t[u].pc # "idle", t[v].pc # "idle"
        PROVE  t[u].day # t[v].day
    <3>1. CASE u = w
      BY <1>1, <1>4, <2>1, <3>1
    <3>2. CASE v = w
      BY <1>1, <1>4, <2>1, <3>2
    <3>3. CASE u # w /\ v # w
      BY <1>1, <2>1, <3>3 DEF Holds, OneScan
    <3> QED
      BY <3>1, <3>2, <3>3
  <2> QED
    BY <2>1 DEF OneScan
<1>7. ScanAccounts(new, Found(D, d))
  <2>1. Rest(new) = Night!Stocks
    BY DEF Rest, Night!Stocks
  <2>2. Cardinality(Found(D, d) \union (new.reasons \ {"scan"})) = 0
    BY <1>3, FS_EmptySet
  <2>3. \A i, j \in DOMAIN Watched : Watched[i] = Watched[j] => i = j
    BY DEF Night!BtstAssumption
  <2> QED
    BY <1>3, <2>1, <2>2, <2>3 DEF ScanAccounts
<1>8. ASSUME NEW v \in Workers, t[v].pc # "idle"
      PROVE  /\ t[v].day \in 1 .. Days /\ q[t[v].day].status = "running"
             /\ ScanAccounts(t[v], Found(D, t[v].day))
  <2>1. CASE v = w
    BY <1>1, <1>2, <1>7, <2>1
  <2>2. CASE v # w
    <3>1. /\ t[v] = s[v] /\ s[v].day \in 1 .. Days /\ r[s[v].day].status = "running"
          /\ ScanAccounts(s[v], Found(D, s[v].day)) /\ s[v].day # d
      BY <1>1, <1>4, <1>8, <2>2 DEF Holds, ScansAccount
    <3>2. q[s[v].day] = r[s[v].day]
      BY <1>2, <3>1
    <3> QED
      BY <3>1, <3>2
  <2> QED
    BY <2>1, <2>2
<1>9. ScansAccount(q, t, D)
  BY <1>8 DEF ScansAccount
<1>10. ASSUME NEW e \in 1 .. Days
       PROVE  RowAccounts(q[e], Found(D, e))
  <2>1. CASE e = d
    BY <1>2, <2>1 DEF RowAccounts, Night!Finished
  <2>2. CASE e # d
    BY <1>2, <2>2 DEF Holds, RowsAccount
  <2> QED
    BY <2>1, <2>2
<1>11. RowsAccount(q, D)
  BY <1>10 DEF RowsAccount
<1>12. Holds(q, t, D)
  BY <1>5, <1>6, <1>9, <1>11 DEF Holds
<1> QED
  BY <1>12 DEF q, t

\* The row of a day is written by the scan that holds it, from what the scan accounts for.
LEMMA DayIsFinished ==
  ASSUME Night!BtstAssumption, NEW r, NEW s, NEW D, Holds(r, s, D), NEW w \in Workers,
         s[w].pc # "idle", s[w].left = <<>>,
         NEW row \in DayRows, row.status \in Night!Finished,
         row.count = Cardinality(Found(D, s[w].day)), row.scanned = s[w].scanned,
         row.reasons = s[w].reasons,
         row.status = "completed" <=> (s[w].pc = "scan" /\ "scan" \notin s[w].reasons),
         NEW new \in Scans, new.pc = "idle"
  PROVE  Holds([r EXCEPT ![s[w].day] = row], [s EXCEPT ![w] = new], D)
<1> DEFINE x == s[w]
           d == s[w].day
<1>1. x \in Scans /\ d \in 1 .. Days /\ ScanAccounts(x, Found(D, d))
  BY DEF Holds, NightTypes, ScansAccount
<1>2. Found(D, d) \in SUBSET Night!Stocks /\ "scan" \notin Night!Stocks
  BY <1>1, SignalsAreStocks DEF Holds, NightTypes, Night!BtstAssumption
<1>3. row.status = "completed" <=> Found(D, d) \union row.reasons = Night!Stocks
  <2>1. Rest(x) = {}
    BY DEF Rest
  <2>2. CASE "scan" \in x.reasons
    BY <1>2, <2>2
  <2>3. CASE "scan" \notin x.reasons
    <3>1. x.pc = "scan"
      BY <1>1, <2>3 DEF Scans, ScanAccounts
    <3>2. Rest(x) \union Found(D, d) \union x.reasons = Night!Stocks
      BY <1>1, <2>3, <3>1 DEF ScanAccounts
    <3> QED
      BY <2>1, <2>3, <3>1, <3>2
  <2> QED
    BY <2>2, <2>3
<1>4. RowAccounts(row, Found(D, d))
  <2>1. row.status # "missing"
    BY DEF Night!Finished
  <2>2. Found(D, d) \intersect row.reasons = {}
    BY <1>1 DEF ScanAccounts
  <2>3. row.scanned = Cardinality(Found(D, d) \union (row.reasons \ {"scan"}))
    BY <1>1 DEF ScanAccounts
  <2> QED
    BY <1>3, <2>1, <2>2, <2>3 DEF RowAccounts
<1> DEFINE q == [r EXCEPT ![s[w].day] = row]
           t == [s EXCEPT ![w] = new]
<1>5. /\ t \in [Workers -> Scans] /\ t[w] = new
      /\ \A v \in Workers : v # w => t[v] = s[v]
  BY DEF Holds, NightTypes
<1>6. /\ q \in [1 .. Days -> DayRows] /\ q[d] = row
      /\ \A e \in 1 .. Days : e # d => q[e] = r[e]
  BY <1>1 DEF Holds, NightTypes
<1> HIDE DEF q, t
<1>7. NightTypes(q, t, D)
  BY <1>5, <1>6 DEF Holds, NightTypes
<1>8. \A v \in Workers : t[v].pc # "idle" => v # w /\ t[v] = s[v]
  BY <1>5
<1>9. OneScan(t)
  BY <1>8 DEF Holds, OneScan
<1>10. ASSUME NEW v \in Workers, t[v].pc # "idle"
       PROVE  /\ t[v].day \in 1 .. Days /\ q[t[v].day].status = "running"
              /\ ScanAccounts(t[v], Found(D, t[v].day))
  <2>1. v # w /\ t[v] = s[v] /\ s[v].pc # "idle"
    BY <1>8, <1>10
  <2>2. /\ s[v].day \in 1 .. Days /\ r[s[v].day].status = "running"
        /\ ScanAccounts(s[v], Found(D, s[v].day))
    BY <2>1 DEF Holds, ScansAccount
  <2>3. s[v].day # d
    BY <2>1 DEF Holds, OneScan
  <2>4. q[s[v].day] = r[s[v].day]
    BY <1>6, <2>2, <2>3
  <2> QED
    BY <2>1, <2>2, <2>4
<1>11. ScansAccount(q, t, D)
  BY <1>10 DEF ScansAccount
<1>12. ASSUME NEW e \in 1 .. Days
       PROVE  RowAccounts(q[e], Found(D, e))
  <2>1. CASE e = d
    BY <1>4, <1>6, <2>1
  <2>2. CASE e # d
    BY <1>6, <2>2 DEF Holds, RowsAccount
  <2> QED
    BY <2>1, <2>2
<1>13. RowsAccount(q, D)
  BY <1>12 DEF RowsAccount
<1>14. Holds(q, t, D)
  BY <1>7, <1>9, <1>11, <1>13 DEF Holds
<1> QED
  BY <1>14 DEF q, t

\* A signal is stored for the day that the scan holds, so no other day changes.
LEMMA DayGetsSignal ==
  ASSUME Night!BtstAssumption, NEW r, NEW s, NEW D, Holds(r, s, D), NEW w \in Workers,
         s[w].pc # "idle", NEW stock \in Night!Stocks,
         NEW new \in Scans, new.pc # "idle", new.day = s[w].day,
         ScanAccounts(new, Found(D, s[w].day) \union {stock})
  PROVE  Holds(r, [s EXCEPT ![w] = new], WithSignal(D, s[w].day, stock))
<1> DEFINE d == s[w].day
           E == WithSignal(D, s[w].day, stock)
           t == [s EXCEPT ![w] = new]
<1>1. d \in 1 .. Days /\ r[d].status = "running"
  BY DEF Holds, ScansAccount
<1>2. Found(E, d) = Found(D, d) \union {stock} /\ \A e : e # d => Found(E, e) = Found(D, e)
  <2>1. Found(E, d) = Found(D, d) \union {stock}
    BY SignalIsFound
  <2>2. ASSUME NEW e, e # d
        PROVE  Found(E, e) = Found(D, e)
    BY <2>2, OtherDaysKeep
  <2> QED
    BY <2>1, <2>2
<1>3. /\ t \in [Workers -> Scans] /\ t[w] = new
      /\ \A v \in Workers : v # w => t[v] = s[v]
  BY DEF Holds, NightTypes
<1>4. E \in SUBSET ((1 .. Days) \X Night!Stocks)
  BY <1>1 DEF Holds, NightTypes, WithSignal
<1> HIDE DEF E, t
<1>5. NightTypes(r, t, E)
  BY <1>3, <1>4 DEF Holds, NightTypes
<1>6. \A v \in Workers : t[v].pc # "idle" => s[v].pc # "idle" /\ t[v].day = s[v].day
  BY <1>3
<1>7. OneScan(t)
  BY <1>6 DEF Holds, OneScan
<1>8. ASSUME NEW v \in Workers, t[v].pc # "idle"
      PROVE  /\ t[v].day \in 1 .. Days /\ r[t[v].day].status = "running"
             /\ ScanAccounts(t[v], Found(E, t[v].day))
  <2>1. CASE v = w
    BY <1>1, <1>2, <1>3, <2>1
  <2>2. CASE v # w
    <3>1. /\ t[v] = s[v] /\ s[v].day \in 1 .. Days /\ r[s[v].day].status = "running"
          /\ ScanAccounts(s[v], Found(D, s[v].day))
      BY <1>3, <1>8, <2>2 DEF Holds, ScansAccount
    <3>2. s[v].day # d
      BY <1>8, <2>2, <3>1 DEF Holds, OneScan
    <3>3. Found(E, s[v].day) = Found(D, s[v].day)
      BY <1>2, <3>2
    <3> QED
      BY <3>1, <3>3
  <2> QED
    BY <2>1, <2>2
<1>9. ScansAccount(r, t, E)
  BY <1>8 DEF ScansAccount
<1>10. ASSUME NEW e \in 1 .. Days
       PROVE  RowAccounts(r[e], Found(E, e))
  <2>1. CASE e = d
    BY <1>1, <2>1 DEF RowAccounts, Night!Finished
  <2>2. CASE e # d
    BY <1>2, <2>2 DEF Holds, RowsAccount
  <2> QED
    BY <2>1, <2>2
<1>11. RowsAccount(r, E)
  BY <1>10 DEF RowsAccount
<1>12. Holds(r, t, E)
  BY <1>5, <1>7, <1>9, <1>11 DEF Holds
<1> QED
  BY <1>12 DEF E, t

LEMMA NightInit ==
  ASSUME Night!BtstAssumption, Night!Init
  PROVE  NightInv
<1>1. DOMAIN signals = {} /\ \A d : Found(DOMAIN signals, d) = {}
  BY DEF Night!Init, Found
<1>2. Night!Missing \in DayRows /\ Night!Idle \in Scans
  BY DEF Night!Missing, Night!Idle, DayRows, Scans, Reasons, Night!BtstAssumption
<1>3. today \in 1 .. Days
  BY DEF Night!BtstAssumption, Night!Init
<1>4. NightTypes(run, scan, DOMAIN signals)
  BY <1>1, <1>2 DEF Night!Init, NightTypes
<1>5. \A w \in Workers : scan[w].pc = "idle"
  BY DEF Night!Init, Night!Idle
<1>6. \A d \in 1 .. Days : run[d].status = "missing"
  BY DEF Night!Init, Night!Missing
<1>7. OneScan(scan) /\ ScansAccount(run, scan, DOMAIN signals)
  BY <1>5 DEF OneScan, ScansAccount
<1>8. \A d \in 1 .. Days : RowAccounts(run[d], Found(DOMAIN signals, d))
  BY <1>1, <1>6 DEF RowAccounts, Night!Finished
<1> QED
  BY <1>3, <1>4, <1>7, <1>8 DEF NightInv, Holds, RowsAccount

LEMMA DeliverStep ==
  ASSUME Night!BtstAssumption, NightInv, NEW w \in Workers, Night!Deliver(w)
  PROVE  NightInv'
<1>1. CASE run[today] # Night!Missing
  BY <1>1 DEF Night!Deliver, NightInv
<1>2. CASE run[today] = Night!Missing
  <2> DEFINE new == [Night!Idle EXCEPT !.pc = "scan", !.day = today, !.left = Watched]
             row == [run[today] EXCEPT !.status = "running"]
  <2>1. /\ run' = [run EXCEPT ![today] = row]
        /\ scan' = [scan EXCEPT ![w] = new] /\ scan[w].pc = "idle"
        /\ UNCHANGED <<signals, today>>
    BY <1>2 DEF Night!Deliver
  <2>2. today \in 1 .. Days /\ run[today] \in DayRows
    BY DEF NightInv, Holds, NightTypes
  <2>3. run[today].status = "missing"
    BY <1>2 DEF Night!Missing
  <2>4. Watched \in Seq(Night!Stocks) /\ today \in 0 .. Days
    BY <2>2 DEF Night!BtstAssumption
  <2>5. /\ new.pc = "scan" /\ new.day = today /\ new.left = Watched
        /\ new.reasons = {} /\ new.scanned = 0
    BY DEF Night!Idle
  <2>6. new \in Scans
    BY <2>4 DEF Night!Idle, Scans, Reasons
  <2>7. row \in DayRows /\ row.status = "running"
    BY <2>2 DEF DayRows
  <2> HIDE DEF new, row
  <2>8. Holds(run, scan, DOMAIN signals)
    BY DEF NightInv
  <2>9. Holds([run EXCEPT ![today] = row], [scan EXCEPT ![w] = new], DOMAIN signals)
    BY <2>1, <2>2, <2>3, <2>5, <2>6, <2>7, <2>8, DayIsTaken
  <2> QED
    BY <2>1, <2>2, <2>9 DEF NightInv
<1> QED
  BY <1>1, <1>2

\* A worker that dies, and one whose inputs are not to be had before its first stock.
LEMMA StopStep ==
  ASSUME Night!BtstAssumption, NightInv, NEW w \in Workers, Night!Die(w) \/ Night!Fail(w)
  PROVE  NightInv'
<1>1. scan[w] \in Scans /\ Holds(run, scan, DOMAIN signals)
  BY DEF NightInv, Holds, NightTypes
<1>2. CASE Night!Die(w)
  <2>1. Night!Idle \in Scans /\ Night!Idle.pc = "idle"
    BY DEF Night!Idle, Scans, Reasons, Night!BtstAssumption
  <2>2. scan' = [scan EXCEPT ![w] = Night!Idle] /\ UNCHANGED <<run, signals, today>>
    BY <1>2 DEF Night!Die
  <2>3. Holds(run, [scan EXCEPT ![w] = Night!Idle], DOMAIN signals)
    BY <1>1, <2>1, ScanMoves
  <2> QED
    BY <2>2, <2>3 DEF NightInv
<1>3. CASE Night!Fail(w)
  <2> DEFINE x == scan[w]
             f == Found(DOMAIN signals, x.day)
             new == [x EXCEPT !.pc = "failed", !.left = <<>>, !.reasons = {"scan"}]
  <2>1. /\ x.pc = "scan" /\ x.left = Watched /\ scan' = [scan EXCEPT ![w] = new]
        /\ UNCHANGED <<run, signals, today>>
    BY <1>3 DEF Night!Fail
  <2>2. /\ new.pc = "failed" /\ new.left = <<>> /\ new.reasons = {"scan"}
        /\ new.day = x.day /\ new.scanned = x.scanned
    BY <1>1 DEF Scans
  <2>3. new \in Scans
    <3>1. <<>> \in Seq(Night!Stocks) /\ {"scan"} \in Reasons
      BY DEF Reasons
    <3> QED
      BY <1>1, <3>1 DEF Scans
  <2>4. x.day \in 1 .. Days /\ ScanAccounts(x, f)
    BY <1>1, <2>1 DEF Holds, ScansAccount
  <2>5. Rest(x) = Night!Stocks
    BY <2>1 DEF Rest, Night!Stocks
  <2>6. f \in SUBSET Night!Stocks /\ x.reasons \in Reasons
    BY <1>1, <2>4, SignalsAreStocks DEF Holds, NightTypes, Scans
  <2> HIDE DEF f, new, x
  <2>7. f = {} /\ x.reasons \ {"scan"} = {}
    BY <2>4, <2>5, <2>6 DEF ScanAccounts, Reasons
  <2>8. ScanAccounts(new, f)
    <3>1. DOMAIN new.left = {} /\ Rest(new) = {}
      BY <2>2 DEF Rest
    <3>2. f \union (new.reasons \ {"scan"}) = f \union (x.reasons \ {"scan"})
      BY <2>2, <2>7
    <3> QED
      BY <2>2, <2>4, <2>7, <3>1, <3>2 DEF ScanAccounts
  <2>9. Holds(run, [scan EXCEPT ![w] = new], DOMAIN signals)
    <3>1. scan[w].pc # "idle" /\ new.day = scan[w].day /\ ScanAccounts(new, Found(DOMAIN signals, new.day))
      BY <2>1, <2>2, <2>8 DEF x, f
    <3> QED
      BY <1>1, <2>3, <3>1, ScanMoves
  <2> QED
    BY <2>1, <2>9 DEF NightInv
<1> QED
  BY <1>2, <1>3

\* One stock: the deadline ends the list, or the stock moves from what is left to
\* the signals or to the reasons, and is counted.
LEMMA StockStep ==
  ASSUME Night!BtstAssumption, NightInv, NEW w \in Workers, Night!Stock(w)
  PROVE  NightInv'
<1> DEFINE x == scan[w]
           f == Found(DOMAIN signals, x.day)
           stock == Head(x.left)
           seen == [x EXCEPT !.left = Tail(@), !.scanned = @ + 1]
           late == [x EXCEPT !.left = <<>>, !.reasons = @ \union {"scan"}]
           told == [seen EXCEPT !.reasons = @ \union {stock}]
<1>1. Holds(run, scan, DOMAIN signals) /\ today \in 1 .. Days
  BY DEF NightInv
<1>2. x \in Scans /\ x.pc = "scan" /\ x.left # <<>> /\ UNCHANGED <<run, today>>
  BY <1>1 DEF Night!Stock, Holds, NightTypes
<1>3. ScanAccounts(x, f) /\ x.day \in 1 .. Days
  BY <1>1, <1>2 DEF Holds, ScansAccount
<1>4. \/ scan' = [scan EXCEPT ![w] = late] /\ UNCHANGED signals
      \/ scan' = [scan EXCEPT ![w] = told] /\ UNCHANGED signals
      \/ /\ scan' = [scan EXCEPT ![w] = seen]
         /\ DOMAIN signals' = WithSignal(DOMAIN signals, x.day, stock)
  BY DEF Night!Stock, WithSignal
<1>5. "scan" \notin x.reasons /\ x.reasons \in Reasons /\ x.left \in Seq(Night!Stocks) /\ x.scanned \in Nat
  BY <1>2, <1>3 DEF ScanAccounts, Scans
<1>6. f \in SUBSET Night!Stocks /\ "scan" \notin Night!Stocks
  BY <1>1, <1>3, SignalsAreStocks DEF Holds, NightTypes, Night!BtstAssumption
<1>7. /\ stock \in Night!Stocks /\ Tail(x.left) \in Seq(Night!Stocks)
      /\ Rest(x) = {stock} \union {Tail(x.left)[k] : k \in DOMAIN Tail(x.left)}
      /\ stock \notin {Tail(x.left)[k] : k \in DOMAIN Tail(x.left)}
      /\ \A i, j \in DOMAIN Tail(x.left) : Tail(x.left)[i] = Tail(x.left)[j] => i = j
  <2>1. \A i, j \in DOMAIN x.left : x.left[i] = x.left[j] => i = j
    BY <1>3 DEF ScanAccounts
  <2> QED
    BY <1>2, <1>5, <2>1, TailRests DEF Rest
<1>8. x.scanned + 1 \in Nat /\ x.reasons \union {stock} \in Reasons /\ x.reasons \union {"scan"} \in Reasons
  BY <1>5, <1>7 DEF Reasons
<1>9. /\ seen.pc = "scan" /\ seen.day = x.day /\ seen.left = Tail(x.left)
      /\ seen.scanned = x.scanned + 1 /\ seen.reasons = x.reasons
  BY <1>2 DEF Scans
<1>10. /\ late.pc = "scan" /\ late.day = x.day /\ late.left = <<>>
       /\ late.scanned = x.scanned /\ late.reasons = x.reasons \union {"scan"}
  BY <1>2 DEF Scans
<1>11. /\ told.pc = "scan" /\ told.day = x.day /\ told.left = Tail(x.left)
       /\ told.scanned = x.scanned + 1 /\ told.reasons = x.reasons \union {stock}
  BY <1>2 DEF Scans
<1>12. seen \in Scans
  BY <1>2, <1>7, <1>8 DEF Scans
<1>13. late \in Scans
  <2>1. <<>> \in Seq(Night!Stocks)
    OBVIOUS
  <2> QED
    BY <1>2, <1>8, <2>1 DEF Scans
<1>14. told \in Scans
  <2> HIDE DEF seen
  <2>1. told = [seen EXCEPT !.reasons = x.reasons \union {stock}]
    BY <1>9
  <2> QED
    BY <1>8, <1>12, <2>1 DEF Scans
<1>15. x.pc = "scan" /\ x.pc # "idle"
  BY <1>2
<1>16. /\ \A new \in Scans : new.pc # "idle" /\ new.day = x.day /\ ScanAccounts(new, f)
            => Holds(run, [scan EXCEPT ![w] = new], DOMAIN signals)
       /\ \A new \in Scans : new.pc # "idle" /\ new.day = x.day /\ ScanAccounts(new, f \union {stock})
            => Holds(run, [scan EXCEPT ![w] = new], WithSignal(DOMAIN signals, x.day, stock))
  <2>1. ASSUME NEW new \in Scans, new.pc # "idle", new.day = x.day, ScanAccounts(new, f)
        PROVE  Holds(run, [scan EXCEPT ![w] = new], DOMAIN signals)
    BY <1>1, <1>15, <2>1, ScanMoves
  <2>2. ASSUME NEW new \in Scans, new.pc # "idle", new.day = x.day, ScanAccounts(new, f \union {stock})
        PROVE  Holds(run, [scan EXCEPT ![w] = new], WithSignal(DOMAIN signals, x.day, stock))
    <3> HIDE DEF stock
    <3> QED
      BY <1>1, <1>7, <1>15, <2>2, DayGetsSignal
  <2> QED
    BY <2>1, <2>2
<1> HIDE DEF late, told, seen, stock, f
<1>17. /\ Rest(seen) = {Tail(x.left)[k] : k \in DOMAIN Tail(x.left)} /\ Rest(told) = Rest(seen)
       /\ Rest(x) = {stock} \union Rest(seen) /\ stock \notin Rest(seen)
  BY <1>7, <1>9, <1>11 DEF Rest
<1> HIDE DEF x
<1>18. stock \notin f /\ stock \notin x.reasons
  BY <1>3, <1>17 DEF ScanAccounts
<1>19. Cardinality((f \union (x.reasons \ {"scan"})) \union {stock}) = x.scanned + 1
  <2> DEFINE A == f \union (x.reasons \ {"scan"})
  <2>1. A \in SUBSET Night!Stocks /\ stock \notin A
    BY <1>5, <1>6, <1>18 DEF Reasons
  <2>2. x.scanned = Cardinality(A)
    BY <1>3 DEF ScanAccounts
  <2> HIDE DEF A
  <2>3. IsFiniteSet(A) /\ Cardinality(A \union {stock}) = Cardinality(A) + 1
    BY <2>1, StocksAreFinite, FS_AddElement
  <2> QED
    BY <2>2, <2>3 DEF A
<1>20. ScanAccounts(late, f)
  <2>1. DOMAIN late.left = {} /\ Rest(late) = {}
    BY <1>10 DEF Rest
  <2>2. f \union (late.reasons \ {"scan"}) = f \union (x.reasons \ {"scan"})
    BY <1>10
  <2>3. f \intersect late.reasons = {}
    BY <1>3, <1>6, <1>10 DEF ScanAccounts
  <2> QED
    BY <1>3, <1>10, <2>1, <2>2, <2>3 DEF ScanAccounts
<1>21. Rest(x) \union f \union x.reasons = Night!Stocks
  BY <1>3, <1>5, <1>15 DEF ScanAccounts
<1>22. ScanAccounts(told, f)
  <2>1. Rest(told) \intersect (f \union told.reasons) = {} /\ f \intersect told.reasons = {}
    BY <1>3, <1>11, <1>17, <1>18 DEF ScanAccounts
  <2>2. told.scanned = Cardinality(f \union (told.reasons \ {"scan"}))
    <3>1. f \union (told.reasons \ {"scan"}) = (f \union (x.reasons \ {"scan"})) \union {stock}
      BY <1>6, <1>7, <1>11
    <3> QED
      BY <1>11, <1>19, <3>1
  <2>3. "scan" \notin told.reasons /\ Rest(told) \union f \union told.reasons = Night!Stocks
    BY <1>5, <1>6, <1>7, <1>11, <1>17, <1>21
  <2>4. \A i, j \in DOMAIN told.left : told.left[i] = told.left[j] => i = j
    BY <1>7, <1>11
  <2> QED
    BY <1>11, <2>1, <2>2, <2>3, <2>4 DEF ScanAccounts
<1>23. ScanAccounts(seen, f \union {stock})
  <2>1. /\ Rest(seen) \intersect ((f \union {stock}) \union seen.reasons) = {}
        /\ (f \union {stock}) \intersect seen.reasons = {}
    BY <1>3, <1>9, <1>17, <1>18 DEF ScanAccounts
  <2>2. seen.scanned = Cardinality((f \union {stock}) \union (seen.reasons \ {"scan"}))
    <3>1. (f \union {stock}) \union (seen.reasons \ {"scan"}) = (f \union (x.reasons \ {"scan"})) \union {stock}
      BY <1>9
    <3> QED
      BY <1>9, <1>19, <3>1
  <2>3. "scan" \notin seen.reasons /\ Rest(seen) \union (f \union {stock}) \union seen.reasons = Night!Stocks
    BY <1>5, <1>9, <1>17, <1>21
  <2>4. \A i, j \in DOMAIN seen.left : seen.left[i] = seen.left[j] => i = j
    BY <1>7, <1>9
  <2> QED
    BY <1>9, <2>1, <2>2, <2>3, <2>4 DEF ScanAccounts
<1>24. CASE scan' = [scan EXCEPT ![w] = late] /\ UNCHANGED signals
  <2>1. Holds(run, [scan EXCEPT ![w] = late], DOMAIN signals)
    BY <1>10, <1>13, <1>16, <1>20
  <2> QED
    BY <1>1, <1>2, <1>24, <2>1 DEF NightInv
<1>25. CASE scan' = [scan EXCEPT ![w] = told] /\ UNCHANGED signals
  <2>1. Holds(run, [scan EXCEPT ![w] = told], DOMAIN signals)
    BY <1>11, <1>14, <1>16, <1>22
  <2> QED
    BY <1>1, <1>2, <1>25, <2>1 DEF NightInv
<1>26. CASE /\ scan' = [scan EXCEPT ![w] = seen]
            /\ DOMAIN signals' = WithSignal(DOMAIN signals, x.day, stock)
  <2>1. Holds(run, [scan EXCEPT ![w] = seen], WithSignal(DOMAIN signals, x.day, stock))
    BY <1>9, <1>12, <1>16, <1>23
  <2> QED
    BY <1>1, <1>2, <1>26, <2>1 DEF NightInv
<1> QED
  BY <1>4, <1>24, <1>25, <1>26

\* The row of the day gets what its scan found.
LEMMA FinishStep ==
  ASSUME Night!BtstAssumption, NightInv, NEW w \in Workers, Night!Finish(w)
  PROVE  NightInv'
<1> DEFINE x == scan[w]
           row == [status |-> IF x.pc = "failed" THEN "failed"
                              ELSE IF "scan" \in x.reasons THEN "partial" ELSE "completed",
                   scanned |-> x.scanned, reasons |-> x.reasons,
                   count |-> Night!Cardinality(Night!SignalsOf(x.day))]
<1>1. /\ x.pc \in {"scan", "failed"} /\ x.left = <<>>
      /\ run' = [run EXCEPT ![x.day] = row] /\ scan' = [scan EXCEPT ![w] = Night!Idle]
      /\ UNCHANGED <<signals, today>>
  BY DEF Night!Finish
<1>2. Holds(run, scan, DOMAIN signals) /\ x \in Scans /\ today \in 1 .. Days
  BY DEF NightInv, Holds, NightTypes
<1>3. x.day \in 1 .. Days
  BY <1>1, <1>2 DEF Holds, ScansAccount
<1>4. row.count = Cardinality(Found(DOMAIN signals, x.day)) /\ row.count \in Nat
  <2>1. Night!Cardinality(Night!SignalsOf(x.day)) = Cardinality({q \in DOMAIN signals : q[1] = x.day})
    BY DEF Night!Cardinality, Cardinality, Night!SignalsOf
  <2>2. /\ Found(DOMAIN signals, x.day) \in SUBSET Night!Stocks
        /\ Cardinality({q \in DOMAIN signals : q[1] = x.day}) = Cardinality(Found(DOMAIN signals, x.day))
    BY <1>2, <1>3, SignalsAreStocks DEF Holds, NightTypes
  <2> QED
    BY <2>1, <2>2, StocksAreFinite
<1>5. /\ row.status \in Night!Finished /\ row.scanned = x.scanned /\ row.reasons = x.reasons
      /\ row.status = "completed" <=> (x.pc = "scan" /\ "scan" \notin x.reasons)
  BY <1>1 DEF Night!Finished
<1>6. row \in DayRows
  BY <1>2, <1>4, <1>5 DEF DayRows, Scans
<1>7. Night!Idle \in Scans /\ Night!Idle.pc = "idle"
  BY DEF Night!Idle, Scans, Reasons, Night!BtstAssumption
<1>8. x.pc # "idle"
  BY <1>1
<1> HIDE DEF row
<1>9. Holds([run EXCEPT ![x.day] = row], [scan EXCEPT ![w] = Night!Idle], DOMAIN signals)
  BY <1>1, <1>2, <1>4, <1>5, <1>6, <1>7, <1>8, DayIsFinished
<1> QED
  BY <1>1, <1>2, <1>9 DEF NightInv

LEMMA NightStep ==
  ASSUME Night!BtstAssumption, NightInv, [Night!Next]_(Night!vars)
  PROVE  NightInv'
<1>1. CASE Night!Minute \/ UNCHANGED Night!vars
  <2>1. UNCHANGED <<run, signals, scan>> /\ today' \in 1 .. Days
    BY <1>1 DEF Night!Minute, Night!vars, NightInv, Night!BtstAssumption
  <2> QED
    BY <2>1 DEF NightInv
<1> QED
  BY <1>1, DeliverStep, StopStep, StockStep, FinishStep DEF Night!Next, Night!Step

\* The accounting above is an invariant of the scan, for any watchlist, calendar and
\* number of workers and deliveries.
THEOREM NightInvariance ==
  ASSUME Night!BtstAssumption
  PROVE  Night!Spec => []NightInv
<1>1. Night!Init => NightInv
  BY NightInit
<1>2. NightInv /\ [Night!Next]_(Night!vars) => NightInv'
  BY NightStep
<1> QED
  BY <1>1, <1>2, PTL DEF Night!Spec

\* A day is scanned by one worker at most, however often its message is delivered
\* and whatever dies (btst.py).
THEOREM DaysAreScannedOnce ==
  ASSUME Night!BtstAssumption
  PROVE  Night!Spec => []Night!OneScanPerDay
<1>1. NightInv => Night!OneScanPerDay
  BY DEF NightInv, Holds, OneScan, Night!OneScanPerDay
<1> QED
  BY <1>1, NightInvariance, PTL

\* A finished row accounts for every stock, by its signal or its reason, for any
\* watchlist, calendar and number of workers (btst.py).
THEOREM FinishedRowsAccount ==
  ASSUME Night!BtstAssumption
  PROVE  Night!Spec => []Night!RunsAccount
<1>1. ASSUME NightInv
      PROVE  Night!RunsAccount
  <2>1. \A S : Night!Cardinality(S) = Cardinality(S)
    BY DEF Night!Cardinality, Cardinality
  <2>2. \A d \in 1 .. Days : {p[2] : p \in Night!SignalsOf(d)} = Found(DOMAIN signals, d)
    BY DEF Night!SignalsOf, Found
  <2>3. \A d \in 1 .. Days : RowAccounts(run[d], Found(DOMAIN signals, d))
    BY <1>1 DEF NightInv, Holds, RowsAccount
  <2> QED
    BY <2>1, <2>2, <2>3 DEF RowAccounts, Night!RunsAccount
<1> QED
  BY <1>1, NightInvariance, PTL

-----------------------------------------------------------------------------
(* NewsFeed: copies of an article, and rows without an analysis *)

(***************************************************************************)
(* Nothing in the database forbids a second row of an article.  What       *)
(* bounds the copies is that a worker looks before it creates: the rows of *)
(* an article and the workers that are about to create one more are never  *)
(* more than the workers, for once there is a row nobody else gets that    *)
(* far.  A row is without analysis while its worker is between the two     *)
(* saves, which is one row per worker, or that worker was stopped.         *)
(***************************************************************************)
RowFields == {"symbol", "headline", "source", "published", "score", "confidence", "impact"}
PollFields == {"pc", "left", "items", "row"}
IsRow(r) == DOMAIN r = RowFields /\ r = [f \in DOMAIN r |-> r[f]]
IsPoll(x) == DOMAIN x = PollFields /\ x = [f \in DOMAIN x |-> x[f]]

Article(r) == <<r.symbol, r.source, r.published>>
Wanted(x) == <<Head(x.left), Head(x.items).source, Head(x.items).published>>
RowsOf(N, key) == {i \in DOMAIN N : Article(N[i]) = key}
Creators(p, key) == {w \in Workers : p[w].pc = "create" /\ Wanted(p[w]) = key}
Bare(N) == {i \in DOMAIN N : N[i].impact = Headlines!Unanalysed}
Analysers(p) == {w \in Workers : p[w].pc = "analyse"}

NewsTypes(N, p) ==
  /\ N \in Seq({N[i] : i \in DOMAIN N}) /\ \A i \in DOMAIN N : IsRow(N[i])
  /\ DOMAIN p = Workers /\ \A w \in Workers : IsPoll(p[w])
FewCopies(N, p) ==
  \A key : Cardinality(RowsOf(N, key)) + Cardinality(Creators(p, key)) <= Cardinality(Workers)
OwnRows(N, p) ==
  /\ \A w \in Analysers(p) : p[w].row \in Bare(N)
  /\ \A v, w \in Analysers(p) : p[v].row = p[w].row => v = w
BareAreOwned(N, p, n) == Cardinality(Bare(N)) <= n + Cardinality(Analysers(p))
NewsInv ==
  /\ NewsTypes(news, poll) /\ FewCopies(news, poll) /\ OwnRows(news, poll)
  /\ stops \in Nat /\ BareAreOwned(news, poll, stops)

LEMMA RowsAreFinite ==
  ASSUME Headlines!NewsAssumption, NEW N, NEW p, NewsTypes(N, p), NEW key
  PROVE  /\ DOMAIN N = 1 .. Len(N) /\ Len(N) \in Nat /\ IsFiniteSet(Workers)
         /\ IsFiniteSet(RowsOf(N, key)) /\ IsFiniteSet(Creators(p, key))
         /\ IsFiniteSet(Bare(N)) /\ IsFiniteSet(Analysers(p)) /\ Cardinality(Workers) \in Nat
         /\ Cardinality(RowsOf(N, key)) \in Nat /\ Cardinality(Creators(p, key)) \in Nat
         /\ Cardinality(Bare(N)) \in Nat /\ Cardinality(Analysers(p)) \in Nat
         /\ Cardinality(Creators(p, key)) <= Cardinality(Workers)
<1>1. IsFiniteSet(Workers)
  <2>1. Headlines!IsFiniteSet(Workers)
    BY DEF Headlines!NewsAssumption
  <2> QED
    BY <2>1 DEF Headlines!IsFiniteSet, IsFiniteSet
<1>2. DOMAIN N = 1 .. Len(N) /\ Len(N) \in Nat
  BY LenProperties DEF NewsTypes
<1>3. IsFiniteSet(DOMAIN N)
  BY <1>2, FS_Interval
<1>4. RowsOf(N, key) \subseteq DOMAIN N /\ Bare(N) \subseteq DOMAIN N
  BY DEF RowsOf, Bare
<1>5. Creators(p, key) \subseteq Workers /\ Analysers(p) \subseteq Workers
  BY DEF Creators, Analysers
<1>6. IsFiniteSet(RowsOf(N, key)) /\ IsFiniteSet(Bare(N))
  BY <1>3, <1>4, FS_Subset
<1>7. /\ IsFiniteSet(Creators(p, key)) /\ IsFiniteSet(Analysers(p))
      /\ Cardinality(Creators(p, key)) <= Cardinality(Workers)
  BY <1>1, <1>5, FS_Subset
<1> QED
  BY <1>1, <1>2, <1>6, <1>7, FS_CardinalityType

\* A row at the end of the table.
LEMMA RowsAppend ==
  ASSUME NEW N, N \in Seq({N[i] : i \in DOMAIN N}), NEW r
  PROVE  LET M == Append(N, r)
         IN /\ M \in Seq({M[i] : i \in DOMAIN M})
            /\ DOMAIN M = DOMAIN N \union {Len(N) + 1} /\ Len(N) + 1 \notin DOMAIN N
            /\ M[Len(N) + 1] = r /\ \A i \in DOMAIN N : M[i] = N[i]
<1> DEFINE M == Append(N, r)
           S == {N[i] : i \in DOMAIN N} \union {r}
<1>1. N \in Seq(S) /\ r \in S
  <2>1. {N[i] : i \in DOMAIN N} \subseteq S
    OBVIOUS
  <2> QED
    BY <2>1, SeqMonotonic
<1> HIDE DEF S
<1>2. /\ M \in Seq(S) /\ Len(M) = Len(N) + 1 /\ Len(N) \in Nat
      /\ \A i \in 1 .. Len(N) : M[i] = N[i]
      /\ M[Len(N) + 1] = r
  BY <1>1, AppendProperties, LenProperties
<1>3. DOMAIN N = 1 .. Len(N) /\ DOMAIN M = 1 .. Len(N) + 1
  BY <1>1, <1>2, LenProperties
<1> HIDE DEF M
<1>4. M \in Seq({M[i] : i \in DOMAIN M})
  BY <1>2
<1>5. DOMAIN M = DOMAIN N \union {Len(N) + 1} /\ Len(N) + 1 \notin DOMAIN N
  BY <1>2, <1>3
<1> QED
  BY <1>2, <1>3, <1>4, <1>5 DEF M

\* The analysis of one row.
Analysed(N, k, v) == [N EXCEPT ![k].impact = v]
AreRows(N) == N \in Seq({N[i] : i \in DOMAIN N}) /\ \A i \in DOMAIN N : IsRow(N[i])
OneIsAnalysed(N, M, k, v) ==
  /\ M \in Seq({M[i] : i \in DOMAIN M}) /\ DOMAIN M = DOMAIN N
  /\ \A i \in DOMAIN N : IsRow(M[i]) /\ Article(M[i]) = Article(N[i])
  /\ M[k].impact = v /\ \A i \in DOMAIN N : i # k => M[i] = N[i]
LEMMA RowIsAnalysed ==
  ASSUME NEW N, AreRows(N), NEW k \in DOMAIN N, NEW v
  PROVE  OneIsAnalysed(N, Analysed(N, k, v), k, v)
<1> DEFINE r == [N[k] EXCEPT !.impact = v]
           M == [N EXCEPT ![k] = r]
           S == {N[i] : i \in DOMAIN N} \union {r}
<1>1. IsRow(r) /\ Article(r) = Article(N[k]) /\ r.impact = v
  BY DEF AreRows, IsRow, RowFields, Article
<1>2. Analysed(N, k, v) = M
  BY DEF Analysed
<1> HIDE DEF r
<1>3. N \in Seq(S) /\ r \in S
  <2>1. {N[i] : i \in DOMAIN N} \subseteq S
    OBVIOUS
  <2> QED
    BY <2>1, SeqMonotonic DEF AreRows
<1> HIDE DEF S
<1>4. DOMAIN N = 1 .. Len(N)
  BY <1>3, LenProperties
<1>5. M \in Seq(S) /\ DOMAIN M = DOMAIN N /\ M[k] = r /\ \A i \in DOMAIN N : i # k => M[i] = N[i]
  BY <1>3, <1>4, ExceptSeq
<1> HIDE DEF M
<1>6. M \in Seq({M[i] : i \in DOMAIN M})
  BY <1>5
<1>7. \A i \in DOMAIN N : IsRow(M[i]) /\ Article(M[i]) = Article(N[i])
  BY <1>1, <1>5 DEF AreRows
<1> QED
  BY <1>1, <1>2, <1>5, <1>6, <1>7 DEF OneIsAnalysed

LEMMA OnePollMoves ==
  ASSUME NEW p, DOMAIN p = Workers, \A v \in Workers : IsPoll(p[v]), NEW w \in Workers, NEW x, IsPoll(x),
         NEW q, q = [p EXCEPT ![w] = x]
  PROVE  /\ DOMAIN q = Workers /\ q[w] = x /\ \A v \in Workers : v # w => q[v] = p[v]
         /\ \A v \in Workers : IsPoll(q[v])
OBVIOUS

\* A step of a worker that writes no row and does not come from a create.
LEMMA PollMoves ==
  ASSUME Headlines!NewsAssumption, NEW N, NEW p, NewsTypes(N, p), FewCopies(N, p), OwnRows(N, p),
         NEW w \in Workers, NEW x, IsPoll(x), x.pc # "analyse",
         x.pc = "create" => RowsOf(N, Wanted(x)) = {},
         NEW q, DOMAIN q = Workers, q[w] = x, \A v \in Workers : v # w => q[v] = p[v],
         \A v \in Workers : IsPoll(q[v])
  PROVE  /\ NewsTypes(N, q) /\ FewCopies(N, q) /\ OwnRows(N, q)
         /\ Analysers(q) = Analysers(p) \ {w}
<1>1. /\ DOMAIN q = Workers /\ q[w] = x /\ \A v \in Workers : v # w => q[v] = p[v]
      /\ \A v \in Workers : IsPoll(q[v])
  OBVIOUS
<1>2. NewsTypes(N, q)
  BY <1>1 DEF NewsTypes
<1>3. Analysers(q) = Analysers(p) \ {w}
  BY <1>1 DEF Analysers
<1>4. OwnRows(N, q)
  BY <1>1, <1>3 DEF OwnRows, Analysers
<1>5. ASSUME NEW key
      PROVE  Cardinality(RowsOf(N, key)) + Cardinality(Creators(q, key)) <= Cardinality(Workers)
  <2>1. /\ IsFiniteSet(Creators(p, key)) /\ Cardinality(Workers) \in Nat
        /\ Cardinality(RowsOf(N, key)) \in Nat /\ Cardinality(Creators(p, key)) \in Nat
        /\ Cardinality(Creators(q, key)) \in Nat /\ Cardinality(Creators(q, key)) <= Cardinality(Workers)
    BY <1>2, RowsAreFinite
  <2>2. CASE x.pc = "create" /\ Wanted(x) = key
    <3>1. Cardinality(RowsOf(N, key)) = 0
      BY <2>2, FS_EmptySet
    <3> QED
      BY <2>1, <3>1
  <2>3. CASE ~(x.pc = "create" /\ Wanted(x) = key)
    <3>1. Creators(q, key) \subseteq Creators(p, key)
      BY <1>1, <2>3 DEF Creators
    <3>2. Cardinality(Creators(q, key)) <= Cardinality(Creators(p, key))
      BY <2>1, <3>1, FS_Subset
    <3>3. Cardinality(RowsOf(N, key)) + Cardinality(Creators(p, key)) <= Cardinality(Workers)
      BY DEF FewCopies
    <3> QED
      BY <2>1, <3>2, <3>3
  <2> QED
    BY <2>2, <2>3
<1> QED
  BY <1>2, <1>3, <1>4, <1>5 DEF FewCopies

\* A worker without a row moves on, and one that stops may leave its row bare.
LEMMA WorkerMoves ==
  ASSUME Headlines!NewsAssumption, NewsInv, NEW w \in Workers, NEW x, IsPoll(x), x.pc # "analyse",
         x.pc = "create" => RowsOf(news, Wanted(x)) = {},
         poll' = [poll EXCEPT ![w] = x], news' = news,
         (poll[w].pc # "analyse" /\ stops' = stops) \/ stops' = stops + 1
  PROVE  NewsInv'
<1> DEFINE q == [poll EXCEPT ![w] = x]
<1>1. /\ DOMAIN q = Workers /\ q[w] = x /\ \A v \in Workers : v # w => q[v] = poll[v]
      /\ \A v \in Workers : IsPoll(q[v])
  BY OnePollMoves DEF NewsInv, NewsTypes
<1>2. poll' = q
  OBVIOUS
<1> HIDE DEF q
<1>3. /\ NewsTypes(news, q) /\ FewCopies(news, q) /\ OwnRows(news, q)
      /\ Analysers(q) = Analysers(poll) \ {w}
  <2>1. NewsTypes(news, poll) /\ FewCopies(news, poll) /\ OwnRows(news, poll)
    BY DEF NewsInv
  <2> QED
    BY <1>1, <2>1, PollMoves
<1>4. BareAreOwned(news, q, stops')
  <2> DEFINE A == Analysers(poll)
             B == Analysers(q)
             u == Cardinality(Bare(news))
  <2>1. IsFiniteSet(A) /\ Cardinality(A) \in Nat /\ Cardinality(B) \in Nat /\ u \in Nat /\ stops \in Nat
    BY <1>3, RowsAreFinite DEF NewsInv
  <2>2. u <= stops + Cardinality(A)
    BY DEF NewsInv, BareAreOwned
  <2>3. B = A \ {w} /\ (w \in A <=> poll[w].pc = "analyse")
    BY <1>3 DEF Analysers
  <2> HIDE DEF A, B, u
  <2>4. CASE w \in A
    <3>1. Cardinality(B) = Cardinality(A) - 1
      BY <2>1, <2>3, <2>4, FS_RemoveElement
    <3>2. u <= stops' + Cardinality(B)
      BY <2>1, <2>2, <2>3, <2>4, <3>1
    <3> QED
      BY <3>2 DEF BareAreOwned, u, B
  <2>5. CASE w \notin A
    <3>1. B = A
      BY <2>3, <2>5
    <3>2. u <= stops' + Cardinality(B)
      BY <2>1, <2>2, <3>1
    <3> QED
      BY <3>2 DEF BareAreOwned, u, B
  <2> QED
    BY <2>4, <2>5
<1>5. stops' \in Nat
  BY DEF NewsInv
<1> QED
  BY <1>3, <1>4, <1>5, <1>2 DEF NewsInv

LEMMA IdlePolls ==
  ASSUME NEW l
  PROVE  /\ IsPoll(Headlines!Idle) /\ Headlines!Idle.pc = "idle"
         /\ IsPoll([Headlines!Idle EXCEPT !.pc = "fetch", !.left = l])
         /\ [Headlines!Idle EXCEPT !.pc = "fetch", !.left = l].pc = "fetch"
BY DEF IsPoll, PollFields, Headlines!Idle

LEMMA PollStep ==
  ASSUME Headlines!NewsAssumption, NewsInv, NEW w \in Workers,
         \/ Headlines!Start(w) \/ Headlines!Fetch(w) \/ Headlines!Check(w)
         \/ Headlines!Fail(w) \/ Headlines!Die(w)
  PROVE  NewsInv'
<1> DEFINE c == poll[w]
<1>1. IsPoll(c)
  BY DEF NewsInv, NewsTypes
<1>2. news' = news
  BY DEF Headlines!Start, Headlines!Fetch, Headlines!Check, Headlines!Fail, Headlines!Die
<1>3. ASSUME Headlines!NextSymbol(w), (c.pc # "analyse" /\ stops' = stops) \/ stops' = stops + 1
      PROVE  NewsInv'
  <2>1. CASE poll' = [poll EXCEPT ![w] = Headlines!Idle]
    BY <1>2, <1>3, <2>1, IdlePolls, WorkerMoves
  <2>2. CASE poll' = [poll EXCEPT ![w] = [Headlines!Idle EXCEPT !.pc = "fetch", !.left = Tail(poll[w].left)]]
    <3> DEFINE x == [Headlines!Idle EXCEPT !.pc = "fetch", !.left = Tail(poll[w].left)]
    <3>1. IsPoll(x) /\ x.pc = "fetch" /\ poll' = [poll EXCEPT ![w] = x]
      BY <2>2, IdlePolls
    <3> HIDE DEF x
    <3> QED
      BY <1>2, <1>3, <3>1, WorkerMoves
  <2> QED
    BY <1>3, <2>1, <2>2 DEF Headlines!NextSymbol
<1>4. CASE Headlines!Start(w)
  <2> DEFINE x == [Headlines!Idle EXCEPT !.pc = "fetch", !.left = Watchlist]
  <2>1. IsPoll(x) /\ x.pc = "fetch"
    BY IdlePolls
  <2>2. poll' = [poll EXCEPT ![w] = x] /\ c.pc # "analyse" /\ stops' = stops
    BY <1>4 DEF Headlines!Start
  <2> HIDE DEF x
  <2> QED
    BY <1>2, <2>1, <2>2, WorkerMoves
<1>5. CASE Headlines!Fetch(w)
  <2>1. PICK raw \in Feeds : poll' = [poll EXCEPT ![w].pc = "check", ![w].items = Headlines!Fetched(raw, now)]
    BY <1>5 DEF Headlines!Fetch
  <2> DEFINE i == Headlines!Fetched(raw, now)
             x == [c EXCEPT !.pc = "check", !.items = i]
  <2>2. poll' = [poll EXCEPT ![w] = x]
    BY <2>1
  <2>3. IsPoll(x) /\ x.pc = "check"
    <3> HIDE DEF i
    <3> QED
      BY <1>1 DEF IsPoll, PollFields
  <2>4. c.pc # "analyse" /\ stops' = stops
    BY <1>5 DEF Headlines!Fetch
  <2> HIDE DEF x
  <2> QED
    BY <1>2, <2>2, <2>3, <2>4, WorkerMoves
<1>6. CASE Headlines!Check(w)
  <2>1. c.pc = "check" /\ stops' = stops
    BY <1>6 DEF Headlines!Check
  <2>2. CASE c.items = <<>>
    BY <1>3, <1>6, <2>1, <2>2 DEF Headlines!Check
  <2>3. CASE c.items # <<>> /\ Headlines!Saved(Head(c.left), Head(c.items))
    <3> DEFINE i == Tail(c.items)
               x == [c EXCEPT !.items = i]
    <3>1. poll' = [poll EXCEPT ![w] = x]
      BY <1>6, <2>3 DEF Headlines!Check
    <3>2. IsPoll(x) /\ x.pc = "check"
      <4> HIDE DEF i
      <4> QED
        BY <1>1, <2>1 DEF IsPoll, PollFields
    <3> HIDE DEF x
    <3> QED
      BY <1>2, <2>1, <3>1, <3>2, WorkerMoves
  <2>4. CASE c.items # <<>> /\ ~Headlines!Saved(Head(c.left), Head(c.items))
    <3> DEFINE x == [c EXCEPT !.pc = "create"]
    <3>1. poll' = [poll EXCEPT ![w] = x]
      BY <1>6, <2>4 DEF Headlines!Check
    <3>2. IsPoll(x) /\ x.pc = "create" /\ Wanted(x) = Wanted(c)
      BY <1>1 DEF IsPoll, PollFields, Wanted
    <3>3. RowsOf(news, Wanted(c)) = {}
      <4>1. \A i \in DOMAIN news : Article(news[i]) # Wanted(c)
        BY <2>4 DEF Headlines!Saved, Article, Wanted
      <4> QED
        BY <4>1 DEF RowsOf
    <3> HIDE DEF x
    <3> QED
      BY <1>2, <2>1, <3>1, <3>2, <3>3, WorkerMoves
  <2> QED
    BY <2>2, <2>3, <2>4
<1>7. CASE Headlines!Fail(w)
  BY <1>3, <1>7 DEF Headlines!Fail
<1>8. CASE Headlines!Die(w)
  <2>1. poll' = [poll EXCEPT ![w] = Headlines!Idle] /\ stops' = stops + 1
    BY <1>8 DEF Headlines!Die
  <2> QED
    BY <1>2, <2>1, IdlePolls, WorkerMoves
<1> QED
  BY <1>4, <1>5, <1>6, <1>7, <1>8

\* A creator becomes the owner of the row it has created.
LEMMA CreateStep ==
  ASSUME Headlines!NewsAssumption, NewsInv, NEW w \in Workers, Headlines!Create(w)
  PROVE  NewsInv'
<1> DEFINE c == poll[w]
           n == Len(news) + 1
           entry == Head(c.items)
           r == [symbol |-> Head(c.left), headline |-> entry.headline, source |-> entry.source,
                 published |-> entry.published, score |-> Score[entry.headline],
                 confidence |-> Confidence[entry.headline], impact |-> Headlines!Unanalysed]
           x == [c EXCEPT !.pc = "analyse", !.row = n]
           M == Append(news, r)
           q == [poll EXCEPT ![w] = x]
<1>1. c.pc = "create" /\ IsPoll(c) /\ stops' = stops
  BY DEF Headlines!Create, NewsInv, NewsTypes
<1>2. news' = M
  BY DEF Headlines!Create, Headlines!Entry
<1>3. poll' = q
  BY DEF Headlines!Create
<1>4. IsRow(r) /\ Article(r) = Wanted(c) /\ r.impact = Headlines!Unanalysed
  BY DEF IsRow, RowFields, Article, Wanted
<1> HIDE DEF r
<1>5. /\ M \in Seq({M[i] : i \in DOMAIN M}) /\ DOMAIN M = DOMAIN news \union {n} /\ n \notin DOMAIN news
      /\ M[n] = r /\ \A i \in DOMAIN news : M[i] = news[i]
  BY RowsAppend DEF NewsInv, NewsTypes
<1> HIDE DEF n, M
<1>6. IsPoll(x) /\ x.pc = "analyse" /\ x.row = n
  BY <1>1 DEF IsPoll, PollFields
<1> HIDE DEF x
<1>7. /\ DOMAIN q = Workers /\ q[w] = x /\ \A v \in Workers : v # w => q[v] = poll[v]
      /\ \A v \in Workers : IsPoll(q[v])
  BY <1>6, OnePollMoves DEF NewsInv, NewsTypes
<1> HIDE DEF q
<1>8. NewsTypes(M, q)
  BY <1>4, <1>5, <1>7 DEF NewsInv, NewsTypes
<1>9. /\ Bare(M) = Bare(news) \union {n} /\ n \notin Bare(news)
      /\ Analysers(q) = Analysers(poll) \union {w} /\ w \notin Analysers(poll)
  <2>1. Bare(M) = Bare(news) \union {n} /\ n \notin Bare(news)
    BY <1>4, <1>5 DEF Bare
  <2>2. Analysers(q) = Analysers(poll) \union {w} /\ w \notin Analysers(poll)
    BY <1>1, <1>6, <1>7 DEF Analysers
  <2> QED
    BY <2>1, <2>2
<1>10. OwnRows(M, q)
  <2>1. \A v \in Analysers(poll) : q[v] = poll[v] /\ poll[v].row \in Bare(news)
    BY <1>7, <1>9 DEF NewsInv, OwnRows, Analysers
  <2>2. q[w].row = n
    BY <1>6, <1>7
  <2> QED
    BY <1>9, <2>1, <2>2 DEF NewsInv, OwnRows
<1>11. ASSUME NEW key
       PROVE  Cardinality(RowsOf(M, key)) + Cardinality(Creators(q, key)) <= Cardinality(Workers)
  <2> DEFINE R == RowsOf(news, key)
             T == RowsOf(M, key)
             C == Creators(poll, key)
             D == Creators(q, key)
  <2>1. /\ IsFiniteSet(R) /\ IsFiniteSet(C) /\ Cardinality(R) \in Nat /\ Cardinality(C) \in Nat
        /\ Cardinality(Workers) \in Nat
    BY RowsAreFinite DEF NewsInv
  <2>2. Cardinality(R) + Cardinality(C) <= Cardinality(Workers)
    BY DEF NewsInv, FewCopies
  <2>3. CASE Wanted(c) = key
    <3>1. T = R \union {n} /\ n \notin R
      BY <1>4, <1>5, <2>3 DEF RowsOf
    <3>2. D = C \ {w} /\ w \in C
      BY <1>1, <1>6, <1>7, <2>3 DEF Creators
    <3> HIDE DEF R, T, C, D
    <3>3. Cardinality(T) = Cardinality(R) + 1 /\ Cardinality(D) = Cardinality(C) - 1
      BY <2>1, <3>1, <3>2, FS_AddElement, FS_RemoveElement
    <3>4. Cardinality(T) + Cardinality(D) <= Cardinality(Workers)
      BY <2>1, <2>2, <3>3
    <3> QED
      BY <3>4 DEF T, D
  <2>4. CASE Wanted(c) # key
    <3>1. T = R
      BY <1>4, <1>5, <2>4 DEF RowsOf
    <3>2. D = C
      BY <1>1, <1>6, <1>7, <2>4 DEF Creators
    <3> QED
      BY <2>2, <3>1, <3>2
  <2> QED
    BY <2>3, <2>4
<1>12. BareAreOwned(M, q, stops)
  <2> DEFINE B == Bare(news)
             A == Analysers(poll)
  <2>1. /\ IsFiniteSet(B) /\ IsFiniteSet(A) /\ Cardinality(B) \in Nat /\ Cardinality(A) \in Nat
        /\ stops \in Nat /\ Cardinality(B) <= stops + Cardinality(A)
    BY RowsAreFinite DEF NewsInv, BareAreOwned
  <2> HIDE DEF A, B
  <2>2. Cardinality(B \union {n}) = Cardinality(B) + 1 /\ Cardinality(A \union {w}) = Cardinality(A) + 1
    BY <1>9, <2>1, FS_AddElement DEF A, B
  <2>3. Cardinality(B \union {n}) <= stops + Cardinality(A \union {w})
    BY <2>1, <2>2
  <2> QED
    BY <1>9, <2>3 DEF A, B, BareAreOwned
<1> QED
  BY <1>1, <1>2, <1>3, <1>8, <1>10, <1>11, <1>12 DEF NewsInv, FewCopies

\* What the analysis writes is an analysis.
LEMMA AnalyseStep ==
  ASSUME Headlines!NewsAssumption, NewsInv, NEW w \in Workers, Headlines!Analyse(w)
  PROVE  NewsInv'
<1> DEFINE c == poll[w]
           a == Headlines!Analysis(news[c.row].headline, news[c.row].score)
           rest == Tail(c.items)
           x == [c EXCEPT !.pc = "check", !.items = rest, !.row = 0]
           q == [poll EXCEPT ![w] = x]
<1>1. c.pc = "analyse" /\ IsPoll(c) /\ stops' = stops
  BY DEF Headlines!Analyse, NewsInv, NewsTypes
<1>2. a # Headlines!Unanalysed
  <2>1. a.relevance \in {"direct", "none", "macro", "sector"}
    BY DEF Headlines!Analysis, Headlines!Relevance
  <2>2. Headlines!Unanalysed.relevance = "unknown"
    BY DEF Headlines!Unanalysed
  <2> QED
    BY <2>1, <2>2
<1> HIDE DEF a
<1>3. PICK k : k = c.row /\ k \in Bare(news) /\ k \in DOMAIN news
  BY <1>1 DEF NewsInv, OwnRows, Analysers, Bare
<1> DEFINE M == Analysed(news, k, a)
<1>4. news' = M
  BY <1>3 DEF Headlines!Analyse, a, Analysed
<1>5. poll' = q
  BY DEF Headlines!Analyse
<1>6. IsPoll(x) /\ x.pc = "check"
  <2> HIDE DEF rest
  <2> QED
    BY <1>1 DEF IsPoll, PollFields
<1> HIDE DEF x
<1>7. /\ DOMAIN q = Workers /\ q[w] = x /\ \A v \in Workers : v # w => q[v] = poll[v]
      /\ \A v \in Workers : IsPoll(q[v])
  BY <1>6, OnePollMoves DEF NewsInv, NewsTypes
<1> HIDE DEF q
<1>8. /\ M \in Seq({M[i] : i \in DOMAIN M}) /\ DOMAIN M = DOMAIN news
      /\ \A i \in DOMAIN news : IsRow(M[i]) /\ Article(M[i]) = Article(news[i])
      /\ M[k].impact = a /\ \A i \in DOMAIN news : i # k => M[i] = news[i]
  <2>1. AreRows(news)
    BY DEF NewsInv, NewsTypes, AreRows
  <2>2. OneIsAnalysed(news, M, k, a)
    BY <1>3, <2>1, RowIsAnalysed
  <2> QED
    BY <2>2 DEF OneIsAnalysed
<1> HIDE DEF M
<1>9. NewsTypes(M, q)
  BY <1>7, <1>8 DEF NewsTypes
<1>10. Bare(M) = Bare(news) \ {k}
  BY <1>2, <1>8 DEF Bare
<1>11. Analysers(q) = Analysers(poll) \ {w} /\ w \in Analysers(poll)
  BY <1>1, <1>6, <1>7 DEF Analysers
<1>12. OwnRows(M, q)
  <2>1. \A v \in Analysers(q) : q[v] = poll[v] /\ v \in Analysers(poll) /\ v # w
    BY <1>7, <1>11 DEF Analysers
  <2>2. \A v \in Analysers(q) : poll[v].row \in Bare(news) /\ poll[v].row # k
    BY <1>3, <1>11, <2>1 DEF NewsInv, OwnRows
  <2> QED
    BY <1>10, <2>1, <2>2 DEF NewsInv, OwnRows
<1>13. \A key : RowsOf(M, key) = RowsOf(news, key) /\ Creators(q, key) = Creators(poll, key)
  <2>1. \A key : RowsOf(M, key) = RowsOf(news, key)
    BY <1>8 DEF RowsOf
  <2>2. \A key : Creators(q, key) = Creators(poll, key)
    BY <1>1, <1>6, <1>7 DEF Creators
  <2> QED
    BY <2>1, <2>2
<1>14. FewCopies(M, q)
  BY <1>13 DEF NewsInv, FewCopies
<1>15. BareAreOwned(M, q, stops)
  <2> DEFINE B == Bare(news)
             A == Analysers(poll)
  <2>1. /\ IsFiniteSet(B) /\ IsFiniteSet(A) /\ Cardinality(B) \in Nat /\ Cardinality(A) \in Nat
        /\ stops \in Nat /\ Cardinality(B) <= stops + Cardinality(A)
    BY RowsAreFinite DEF NewsInv, BareAreOwned
  <2> HIDE DEF A, B
  <2>2. Cardinality(B \ {k}) = Cardinality(B) - 1 /\ Cardinality(A \ {w}) = Cardinality(A) - 1
    BY <1>3, <1>11, <2>1, FS_RemoveElement DEF A, B
  <2>3. Cardinality(B \ {k}) <= stops + Cardinality(A \ {w})
    BY <2>1, <2>2
  <2> QED
    BY <1>10, <1>11, <2>3 DEF A, B, BareAreOwned
<1> QED
  BY <1>1, <1>4, <1>5, <1>9, <1>12, <1>14, <1>15 DEF NewsInv

LEMMA NewsInit ==
  ASSUME Headlines!NewsAssumption, Headlines!Init
  PROVE  NewsInv
<1>1. news = <<>> /\ DOMAIN news = {} /\ stops = 0
  BY DEF Headlines!Init
<1>2. DOMAIN poll = Workers /\ \A w \in Workers : poll[w].pc = "idle" /\ IsPoll(poll[w])
  BY DEF Headlines!Init, Headlines!Idle, IsPoll, PollFields
<1>3. NewsTypes(news, poll)
  BY <1>1, <1>2 DEF NewsTypes
<1>4. Bare(news) = {} /\ Analysers(poll) = {}
  BY <1>1, <1>2 DEF Bare, Analysers
<1>5. \A key : RowsOf(news, key) = {} /\ Creators(poll, key) = {}
  BY <1>1, <1>2 DEF RowsOf, Creators
<1>6. Cardinality({}) = 0 /\ Cardinality(Workers) \in Nat
  BY <1>3, FS_EmptySet, RowsAreFinite
<1>7. FewCopies(news, poll)
  BY <1>5, <1>6 DEF FewCopies
<1>8. OwnRows(news, poll) /\ BareAreOwned(news, poll, stops)
  BY <1>1, <1>4, <1>6 DEF OwnRows, BareAreOwned
<1> QED
  BY <1>1, <1>3, <1>7, <1>8 DEF NewsInv

\* The counting above is an invariant of the polls, for any feeds and any number of
\* workers, failures and deaths.
THEOREM NewsInvariance ==
  ASSUME Headlines!NewsAssumption
  PROVE  Headlines!Spec => []NewsInv
<1>1. Headlines!Init => NewsInv
  BY NewsInit
<1>2. NewsInv /\ [Headlines!Next]_(Headlines!vars) => NewsInv'
  <2> SUFFICES ASSUME NewsInv, [Headlines!Next]_(Headlines!vars)
               PROVE  NewsInv'
    OBVIOUS
  <2>1. CASE Headlines!Hour \/ UNCHANGED Headlines!vars
    <3>1. UNCHANGED <<news, poll, stops>>
      BY <2>1 DEF Headlines!Hour, Headlines!vars
    <3> QED
      BY <3>1 DEF NewsInv
  <2> QED
    BY <2>1, PollStep, CreateStep, AnalyseStep DEF Headlines!Next, Headlines!Poll
<1> QED
  BY <1>1, <1>2, PTL DEF Headlines!Spec

\* An article of a source has one row of a symbol for each worker at most, however
\* often it is fetched (_poll_symbol).
THEOREM CopiesStayFew ==
  ASSUME Headlines!NewsAssumption
  PROVE  Headlines!Spec => []Headlines!CopiesAreBounded
<1>1. ASSUME NewsInv, NEW i \in DOMAIN news
      PROVE  Headlines!Cardinality(Headlines!Copies(i)) <= Headlines!Cardinality(Workers)
  <2> DEFINE key == Article(news[i])
             R == RowsOf(news, key)
             C == Creators(poll, key)
  <2>1. Headlines!Copies(i) = R
    BY DEF Headlines!Copies, RowsOf, Article
  <2>2. /\ Cardinality(R) \in Nat /\ Cardinality(C) \in Nat /\ Cardinality(Workers) \in Nat
        /\ Cardinality(R) + Cardinality(C) <= Cardinality(Workers)
    BY <1>1, RowsAreFinite DEF NewsInv, FewCopies
  <2>3. \A S : Headlines!Cardinality(S) = Cardinality(S)
    BY DEF Headlines!Cardinality, Cardinality
  <2> HIDE DEF R, C
  <2> QED
    BY <2>1, <2>2, <2>3
<1>2. NewsInv => Headlines!CopiesAreBounded
  BY <1>1 DEF Headlines!CopiesAreBounded
<1> QED
  BY <1>2, NewsInvariance, PTL

\* A row without analysis belongs to a worker that is about to write it, or is left
\* by one that was stopped.
THEOREM RowsGetTheirAnalysis ==
  ASSUME Headlines!NewsAssumption
  PROVE  Headlines!Spec => []Headlines!RowsAreAnalysed
<1>1. ASSUME NewsInv
      PROVE  Headlines!RowsAreAnalysed
  <2>1. \A S : Headlines!Cardinality(S) = Cardinality(S)
    BY DEF Headlines!Cardinality, Cardinality
  <2>2. Cardinality(Bare(news)) <= stops + Cardinality(Analysers(poll))
    BY <1>1 DEF NewsInv, BareAreOwned
  <2> QED
    BY <2>1, <2>2 DEF Bare, Analysers, Headlines!RowsAreAnalysed
<1> QED
  BY <1>1, NewsInvariance, PTL
=================================================================================
