------------------------------ MODULE MCTrading ------------------------------
(***************************************************************************)
(* Instances of the trading modules for TLC, side by side: focus names the *)
(* one that runs in a behaviour, all the others rest in their initial      *)
(* states. A property is checked on every instance it is meant for. The    *)
(* constants of a configuration give the instance "paper" of PaperTrading; *)
(* the other instances have theirs here.                                   *)
(***************************************************************************)
EXTENDS PaperTrading, TLC

CONSTANTS
  Focuses,    \* the instances of this run
  s1, s2, w1, w2, NoJournal

VARIABLES
  focus,
  mode, signal, position, deskAccount, halted, deskTask,              \* TradingDesk
  qMode, request, qSignal, opening, qPosition, held, exit, handler,   \* OptionRequests
  answers, entries, qCrashes,
  eMode, day, eAccount, funds, eTrade, result, sync, check, rearm,    \* EquitySync
  eHalted, eTrades, switches,
  lSignal, journal, lPosition, killed, booked, order, net, lTask,     \* LiveOrders
  lCrashes,
  sSession, sRow, sAccount, sTask, sCrashes                           \* PaperTrading, again

deskVars == <<mode, signal, position, deskAccount, halted, deskTask>>
requestVars == <<qMode, request, qSignal, opening, qPosition, held, exit, handler, answers,
                 entries, qCrashes>>
equityVars == <<eMode, day, eAccount, funds, eTrade, result, sync, check, rearm, eHalted,
                eTrades, switches>>
liveVars == <<lSignal, journal, lPosition, killed, booked, order, net, lTask, lCrashes>>
slotVars == <<sSession, sRow, sAccount, sTask, sCrashes>>
benchVars == <<focus, deskVars, requestVars, equityVars, liveVars, slotVars, vars>>

-----------------------------------------------------------------------------
(* The instances *)

\* Constants that every instance of a module shares have their names here.
TenThousand == 100
MoneyQuantum == 1
Symbols == {"NIFTY", "BANKNIFTY"}
Weight == [p \in Symbols \X Symbols |-> IF p[1] = p[2] THEN 100 ELSE 50]

\* A hundred units of cash and a stop two away from 6: sizes of up to five,
\* a daily loss of 12, a pause at 15 and a flatten at 20 are all in reach.
RiskPct == 10
OpenRiskPct == 18
ExposurePct == 40
DailyLossPct == 12
ReducePct == 5
ReduceMorePct == 10
PausePct == 15
FlattenPct == 20
StopDistance == 2
Costs == [slippage |-> 10, fees |-> 5]

OneIndex == <<"NIFTY", "NIFTY">>
Sides == {"LONG", "SHORT"}

Pair == INSTANCE TradingDesk WITH        \* two approvals of one index
  Signals <- {1, 2}, SymbolOf <- OneIndex, Workers <- {1}, EntrySides <- Sides, Prices <- {4, 12},
  MaxPositions <- 2, MaxLosses <- 2, InitialCash <- 100, Venue <- "paper",
  Entries <- {6}, account <- deskAccount, task <- deskTask
Race == INSTANCE TradingDesk WITH        \* two workers on one signal
  Signals <- {1}, SymbolOf <- <<"NIFTY">>, Workers <- {1, 2}, EntrySides <- {"SHORT"}, Prices <- {2, 9},
  MaxPositions <- 2, MaxLosses <- 2, InitialCash <- 100, Venue <- "paper",
  Entries <- {6}, account <- deskAccount, task <- deskTask
Single == INSTANCE TradingDesk WITH      \* one worker, one signal
  Signals <- {1}, SymbolOf <- <<"NIFTY">>, Workers <- {1}, EntrySides <- {"LONG"}, Prices <- {4, 7, 9},
  MaxPositions <- 2, MaxLosses <- 2, InitialCash <- 100, Venue <- "paper",
  Entries <- {6}, account <- deskAccount, task <- deskTask

\* A buy and a sell with two web requests at once; one request at a time.
Manual == INSTANCE OptionRequests WITH
  Buys <- {"b"}, Sells <- {"s"}, Handlers <- {1, 2}, MaxCrashes <- 1,
  mode <- qMode, signal <- qSignal, position <- qPosition, crashes <- qCrashes
ManualAlone == INSTANCE OptionRequests WITH
  Buys <- {"b"}, Sells <- {"s"}, Handlers <- {1}, MaxCrashes <- 1,
  mode <- qMode, signal <- qSignal, position <- qPosition, crashes <- qCrashes

\* A loss of 3 of 10 breaches a limit of 20 percent.
Equity == INSTANCE EquitySync WITH
  Syncers <- {1, 2}, InitialFunds <- 10, Premium <- 4, Results <- {-3}, MaxTrades <- 1,
  MaxDays <- 2, MaxSwitches <- 2,
  mode <- eMode, account <- eAccount, trade <- eTrade, halted <- eHalted, trades <- eTrades

LiveWorkers == {w1, w2}

\* Two signals of different indices for one place; a broker whose
\* acknowledgement of a cancel is not final, and an expiry sweep that may save
\* over a claim.
Limit == INSTANCE LiveOrders WITH
  Signals <- {s1, s2}, Underlying <- [s \in {s1, s2} |-> s], Workers <- LiveWorkers, Lot <- 1,
  MaxPositions <- 1, MaxExits <- 0, MaxCrashes <- 0, AckIsFinal <- TRUE, ClaimsSpanSweeps <- FALSE,
  signal <- lSignal, position <- lPosition, task <- lTask, crashes <- lCrashes
Async == INSTANCE LiveOrders WITH
  Signals <- {s1}, Underlying <- [s \in {s1} |-> "NIFTY"], Workers <- LiveWorkers, Lot <- 1,
  MaxPositions <- 1, MaxExits <- 2, MaxCrashes <- 0, AckIsFinal <- FALSE, ClaimsSpanSweeps <- TRUE,
  signal <- lSignal, position <- lPosition, task <- lTask, crashes <- lCrashes
\* With asks 4 and 6 a fill can lie below the stop chosen from the other quote
\* (6 - 1 = 5, filled at 4); a stop distance of 5 meets the floor of one tick.
\* With an ask of 4 and a distance of 2 the stop is 2 and the target 8; a bid
\* of 6 arms the trailing stop and moves it to 4, a bid of 7 to 5.
Slot == INSTANCE PaperTrading WITH        \* a cycle, a square-off and more prices
  Cyclers <- {1}, Squarers <- {2}, InitialCash <- 10, Asks <- {4, 6}, Bids <- {2, 6, 7},
  Risks <- {1, 5}, RewardRisk <- 2, Charges <- {1}, MaxEntries <- 2, MaxCrashes <- 0,
  session <- sSession, row <- sRow, account <- sAccount, task <- sTask, crashes <- sCrashes
SquareOff == INSTANCE PaperTrading WITH   \* the same with fewer prices
  Cyclers <- {1}, Squarers <- {2}, InitialCash <- 10, Asks <- {4}, Bids <- {2, 6},
  Risks <- {2}, RewardRisk <- 2, Charges <- {1}, MaxEntries <- 2, MaxCrashes <- 1,
  session <- sSession, row <- sRow, account <- sAccount, task <- sTask, crashes <- sCrashes

ASSUME Pair!DeskAssumption /\ Race!DeskAssumption /\ Single!DeskAssumption
ASSUME Manual!RequestAssumption /\ Equity!EquityAssumption

-----------------------------------------------------------------------------
(* One instance runs *)

BenchInit ==
  /\ focus \in Focuses
  /\ IF focus = "pair" THEN Pair!Init ELSE IF focus = "race" THEN Race!Init ELSE Single!Init
  /\ IF focus = "request" THEN Manual!Init
     ELSE ManualAlone!Init /\ (focus # "request_alone" => qMode = "paper")
  /\ Equity!Init
  /\ IF focus = "limit" THEN Limit!Init ELSE Async!Init
  /\ IF focus = "slot" THEN Slot!Init ELSE SquareOff!Init
  /\ Init

Runs(name) == focus = name /\ focus' = focus
OnlyDesk == UNCHANGED <<requestVars, equityVars, liveVars, slotVars, vars>>
OnlyRequest == UNCHANGED <<deskVars, equityVars, liveVars, slotVars, vars>>
OnlyEquity == UNCHANGED <<deskVars, requestVars, liveVars, slotVars, vars>>
OnlyLive == UNCHANGED <<deskVars, requestVars, equityVars, slotVars, vars>>
OnlyPaper == UNCHANGED <<deskVars, requestVars, equityVars, liveVars, slotVars>>
OnlySlot == UNCHANGED <<deskVars, requestVars, equityVars, liveVars, vars>>

BenchNext ==
  \/ Runs("pair") /\ Pair!Next /\ OnlyDesk
  \/ Runs("race") /\ Race!Next /\ OnlyDesk
  \/ Runs("single") /\ Single!Next /\ OnlyDesk
  \/ Runs("request") /\ Manual!Next /\ OnlyRequest
  \/ Runs("request_alone") /\ ManualAlone!Next /\ OnlyRequest
  \/ Runs("equity") /\ Equity!Next /\ OnlyEquity
  \/ Runs("limit") /\ Limit!Next /\ OnlyLive
  \/ Runs("async") /\ Async!Next /\ OnlyLive
  \/ Runs("paper") /\ Next /\ OnlyPaper
  \/ Runs("slot") /\ Slot!Next /\ OnlySlot
  \/ Runs("square_off") /\ SquareOff!Next /\ OnlySlot

BenchSpec == BenchInit /\ [][BenchNext]_benchVars

\* The fairness of each module for its instance. Only one is in focus, so one
\* condition can name an action of each.
DeskDoes(A) == Runs("single") /\ A /\ OnlyDesk
RequestDoes(A) == Runs("request_alone") /\ A /\ OnlyRequest
EquityDoes(A) == Runs("equity") /\ A /\ OnlyEquity
PaperDoes(A) == Runs("paper") /\ A /\ OnlyPaper
SquareDoes(A) == Runs("square_off") /\ A /\ OnlySlot

FairBench ==
  /\ BenchSpec
  /\ WF_benchVars(\/ DeskDoes(Single!Work(1))
                  \/ RequestDoes(ManualAlone!Handle(1))
                  \/ EquityDoes(Equity!Enforce)
                  \/ PaperDoes(\E w \in Cyclers : Cycle(w) \/ Transition(w) \/ Closing(w))
                  \/ SquareDoes(\/ SquareOff!StartSquareOff(2) \/ SquareOff!Transition(2)
                                \/ SquareOff!Closing(2)))
  /\ SF_benchVars(\/ DeskDoes(\E marketOpen \in BOOLEAN : Single!StartCycle(1, marketOpen))
                  \/ EquityDoes(Equity!Fetch(1) /\ sync'[1].pc = "write")
                  \/ PaperDoes(\E w \in Cyclers : StartCycle(w))
                  \/ SquareDoes(SquareOff!Close(2)))
  /\ SF_benchVars(EquityDoes(Equity!Fetch(2) /\ sync'[2].pc = "write"))
  /\ WF_benchVars(RequestDoes(ManualAlone!Sweep("b")) \/ EquityDoes(Equity!WriteRearm))
  /\ \A s \in {1, 2} :
       /\ WF_benchVars(EquityDoes(Equity!CheckFlat(s)))
       /\ WF_benchVars(EquityDoes(Equity!Fetch(s)))
       /\ WF_benchVars(EquityDoes(Equity!Write(s)))

-----------------------------------------------------------------------------
(* The modules' properties, each for the instances it is checked on;       *)
(* BooksBalance, ClosedIsFinal, LegalEdgesOnly, SlotComesBack and          *)
(* StopIsChecked are PaperTrading's own, for the instance "paper".         *)

\* Type correctness of every instance that runs.
TypesOK ==
  /\ focus = "pair" => Pair!TypeOK
  /\ focus = "race" => Race!TypeOK
  /\ focus = "request" => Manual!TypeOK
  /\ focus = "paper" => TypeOK
  /\ focus = "slot" => Slot!TypeOK

\* What summarises rows agrees with them, whoever wrote in between: the paper
\* account with the fills and trades, the desk's equity with its trades, and the
\* paper session never calls the slot free while a position is open.
LedgersMatchRows ==
  /\ focus = "pair" => Pair!CashMatchesTrades
  /\ focus = "race" => Race!CashMatchesTrades
  /\ focus = "paper" => AccountMatchesRows
  /\ focus = "slot" => Slot!BooksBalance /\ Slot!AccountMatchesRows /\ Slot!SlotIsFreeWhenScanning
  /\ focus = "square_off" => /\ SquareOff!BooksBalance /\ SquareOff!AccountMatchesRows
                             /\ SquareOff!SlotIsFreeWhenScanning
\* Two entries decided at once never exceed the limits on open positions: one
\* per index on the desk, MAX_OPEN_POSITIONS at the broker; and no position is
\* sold beyond what was bought, even if an acknowledged cancel still fills and
\* the sweep expired the signal that was claimed.
PositionLimitsHold ==
  /\ focus = "pair" => Pair!OnePositionPerSymbol
  /\ focus = "race" => Race!OnePositionPerSymbol
  /\ focus = "limit" => Limit!BrokerPositionsAreLimited
  /\ focus = "async" => Async!NoReversal
\* A mode switch leaves nothing behind that belongs to the other venue.
NothingAbroad ==
  (focus = "pair" => Pair!NothingAbroad) /\ (focus = "race" => Race!NothingAbroad)
\* A position opened by a cycle risks no more than the engine's budget.
RiskPerTradeHolds ==
  [][(focus = "pair" => Pair!RisksLittle) /\ (focus = "race" => Race!RisksLittle)]_benchVars
\* The stop of an open position is only ever tightened, by the paper cycles and
\* by the desk's trailing stop, and a trailed one stays behind the mark.
StopsOnlyTighten ==
  /\ Slot!StopOnlyTightens
  /\ [](focus = "slot" => Slot!TrailKeepsBehindMark)
  /\ [][(focus = "pair" => Pair!Ratchets) /\ (focus = "race" => Race!Ratchets)]_benchVars
\* A closed trade is scored against the risk its entry planned.
RewardUsesPlannedRisk == [][focus = "single" => Single!ScoresPlannedRisk]_benchVars
\* A tripped switch flattens the book unless it is re-armed.
KillFlattens == focus = "single" => Single!KillFlattens

\* A retried request with the same key opens one position.
OneEntryPerKey == focus = "request" => Manual!OneEntryPerKey
\* What a client was told stays true: answers to one key agree, what was
\* rejected stays without a position and what was executed has one.
AnswersHold ==
  focus = "request" => Manual!AnswersAgree /\ Manual!RejectedIsDead /\ Manual!ExecutedIsReal
\* A linked buy is decided, whatever became of its handler.
LinkedBuyIsDecided == focus = "request_alone" => ManualAlone!LinkedBuyIsDecided

\* The account row heals: with no exposure it comes to agree with the broker's
\* funds, and a breach that lasts trips the switch, also after a re-arm erased a trip. Within
\* a day and a source the baseline of the day's loss does not move.
AccountHeals ==
  /\ focus = "equity" => Equity!BooksConverge /\ Equity!BreachIsRetripped
  /\ [][focus = "equity" => Equity!KeepsBaseline]_benchVars

\* Every open paper position is squared off.
SquareOffFlattens == focus = "square_off" => SquareOff!SquaredOff

Symmetry == Permutations(LiveWorkers) \union Permutations({s1, s2})
=============================================================================
