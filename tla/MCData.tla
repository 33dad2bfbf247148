-------------------------------- MODULE MCData --------------------------------
(***************************************************************************)
(* The instances of MCMarket with those of a contract's chart, an option   *)
(* page and the chat with Drishti, which run as focus says like the others,*)
(* and of the pure modules: these have no behaviour, sample is what their  *)
(* functions are evaluated on.                                             *)
(***************************************************************************)
EXTENDS MCMarket

-----------------------------------------------------------------------------
(* The inputs on which the pure decision modules are checked: each element of *)
(* Samples[kind] is the initial state of a behaviour that rests.              *)

\* Indicators, all combinations of the values the conditions tell apart.
Indicators ==
  [order : {-1, 0, 1}, slope9 : {-1, 1}, slope21 : {-1, 0, 1}, sar : {-1, 1}, macd : {-1, 1},
   hist : {-1, 1}, rsi : {35, 45, 55, 65}, streak : {-2, 0, 2}, volume : {-1, 7, 12},
   bbWidth : {40, 70}, adx : {20, 30}, close : {100}, atr : {2}]

\* Chains with four strikes per type.
Contract(type, strike, oi, change, past) ==
  [type |-> type, strike |-> strike, oi |-> oi, volume |-> 2 * oi, ltp |-> 20, bid |-> 19, ask |-> 20,
   delta |-> (IF type = "CE" THEN 1 ELSE -1)
               * (IF type = "CE" THEN 50 - (strike - 100) ELSE 50 + (strike - 100)),
   theta |-> -(oi % 3), iv |-> 18, past |-> past, change |-> change, fresh |-> strike = 100]
Interests == {<<1, 4, 2, 6>>, <<5, 3, 3, 1>>}
Steps == {{}, {[oi |-> 30, price |-> 20]}, {[oi |-> 30, price |-> -20]},
          {[oi |-> -30, price |-> 20]}, {[oi |-> 0, price |-> 0]}}
ChainSide(type, interest, step, past) ==
  {Contract(type, 80 + 10 * k, interest[k], step, past) : k \in 1..4}

Views ==
  {[chain |-> ChainSide("CE", i, s, past) \union ChainSide("PE", j, t, past), spot |-> spot, daysLeft |-> days] :
     i, j \in Interests, s, t \in Steps, past \in {{10, 20}, {10, 30}}, spot \in {97, 101}, days \in {0, 1, 5}}

\* Setups of the index strategy around an approved one.
Up == [order |-> 1, slope9 |-> 1, slope21 |-> 1, sar |-> 1, macd |-> 1, hist |-> 1, rsi |-> 65, streak |-> 2,
       volume |-> 12, bbWidth |-> 40, adx |-> 30, close |-> 100, atr |-> 2]
Good == [count |-> 6, wins |-> 4, total |-> 2]
Bad == [count |-> 6, wins |-> 4, total |-> -1]
Few == [count |-> 4, wins |-> 4, total |-> 4]
Rising == [oi |-> 30, price |-> 20]
Setup(interest, s, t) ==
  [chain |-> ChainSide("CE", interest, s, {}) \union ChainSide("PE", <<5, 3, 3, 1>>, t, {}), spot |-> 101,
   daysLeft |-> 5]
Offered == Setup(<<1, 4, 2, 6>>, {}, {})
Setups ==
  [ind : {Up, [Up EXCEPT !.order = -1, !.slope9 = -1, !.slope21 = -1, !.sar = -1, !.macd = -1, !.hist = -1, !.rsi = 35],
          [Up EXCEPT !.sar = -1, !.macd = -1, !.order = 0], [Up EXCEPT !.adx = 20], [Up EXCEPT !.bbWidth = 70],
          [Up EXCEPT !.atr = 30], [Up EXCEPT !.atr = -1]},
   headlines : {{}, {"bullish"}, {"bearish"}},
   view : {[Offered EXCEPT !.chain = {}], [Offered EXCEPT !.chain = {[c EXCEPT !.fresh = FALSE] : c \in @}],
           [Offered EXCEPT !.chain = {[c EXCEPT !.bid = 0] : c \in @}],
           [Offered EXCEPT !.chain = {[c EXCEPT !.ask = 25] : c \in @}]} \union
          {Setup(<<1, 4, 2, 6>>, s, t) : s, t \in {{}, {Rising}}},
   history : {[bullish |-> Good, bearish |-> Bad], [bullish |-> Few, bearish |-> Few]},
   risk : {[approved |-> TRUE, size |-> 100], [approved |-> TRUE, size |-> 20], [approved |-> FALSE, size |-> 0]},
   chance : {-1, 40, 55}, lot : {1, 75}]

\* Histories: all short ones, and longer ones that repeat a pattern.
Bar(close, low, high, up, down, volatile) ==
  [low |-> low, high |-> high, close |-> close, atr |-> 1, up |-> up, down |-> down, volatile |-> volatile]
Bars == {Bar(10, 10, 10, 1000, 0, FALSE), Bar(11, 9, 12, 750, 250, FALSE), Bar(9, 8, 10, 0, 1000, FALSE),
         Bar(12, 10, 14, 0, 0, FALSE)}
Frames == [1..5 -> Bars] \union {f \o f \o f : f \in [1..4 -> Bars]}


\* Candles in multiples of 4096: rising, falling and flat bars, gaps, and one that
\* spans the others.
Candle(close, low, high) ==
  [close |-> 4096 * close, low |-> 4096 * low, high |-> 4096 * high, volume |-> close % 2]
Candles == [1..4 -> {Candle(3, 3, 3), Candle(4, 2, 5), Candle(5, 4, 6), Candle(1, 1, 2)}]
             \union [1..5 -> {Candle(4, 2, 5), Candle(1, 1, 2)}]

\* Four timeframes, some without candles.
Readings ==
  LET frames == {"5m", "15m", "1h", "1d"}
      kinds == {[Up EXCEPT !.rsi = 55], [Up EXCEPT !.slope9 = -1, !.slope21 = -1, !.rsi = 40], [Up EXCEPT !.slope9 = -1],
                [Up EXCEPT !.adx = 20], [Up EXCEPT !.adx = 20, !.rsi = 50, !.bbWidth = 4],
                [Up EXCEPT !.bbWidth = 70], [Up EXCEPT !.bbWidth = 130]}
  IN [inds : UNION {[S -> kinds] : S \in SUBSET frames},
      bars : {[count |-> 4, close |-> 9, high |-> 8, low |-> 3], [count |-> 20, close |-> 8, high |-> 8, low |-> 3],
              [count |-> 20, close |-> 5, high |-> 8, low |-> 3], [count |-> 20, close |-> 2, high |-> 8, low |-> 3]}]
Scalps == [case : Setups, idea : {[entry |-> 100, stop |-> 97, target |-> 103], [entry |-> 100, stop |-> 60, target |-> 148]}]


\* Features of the paper trader's policy; its quotes, ranges and ideas.
Features ==
  [slope9 : {-1, 0, 1}, slope21 : {-1, 0, 1}, hist : {-20, 0, 4}, rsi : {-1, 40, 45, 60}, adx : {20, 25},
   volume : {12, 13}, change : {-1, 0, 1}, streak : {-2, 0, 2}]
Entries ==
  [quote : [ask : {-1, 50, 100, 20000}, ltp : {50, 100, 19000}], atr : {0, 1000, 5000, 30000},
   idea : {[entry |-> 100, stop |-> s, fires |-> TRUE] : s \in {60, 90, 99, 100, 103}}]

\* Equity curves over four days with one or two snapshots; three closed trades.
Curves ==
  {SelectSeq(c, LAMBDA s : s.equity > 0) :
     c \in {[i \in 1..6 |-> [day |-> d[i], equity |-> e[i]]] :
              d \in {<<1, 1, 2, 2, 3, 4>>, <<1, 2, 2, 3, 3, 3>>}, e \in [1..6 -> {0, 90, 100, 110}]}} \ {<<>>}
Closed ==
  [1..3 -> {[day |-> d, pnl |-> result[1], risk |-> result[2], qty |-> 2, side |-> s,
             expiry |-> IF s = "UNDERLYING" THEN <<>> ELSE <<d>>, phase |-> "morning"] :
              d \in {1, 2}, result \in {<<-4, 2>>, <<0, 2>>, <<6, 0>>}, s \in {"CE", "PE", "UNDERLYING"}}]

\* Stocks with up to three quarters, some figures missing.
Quarter(growth, ratio, pe) ==
  [revenue |-> growth, profit |-> growth, roe |-> ratio, roce |-> ratio, debt |-> 150 - ratio,
   promoter |-> 2 * ratio, pe |-> pe]
Quarters == {Quarter(-1000000, -1000000, -1000000), Quarter(12, 4, 22), Quarter(-3, 15, 30), Quarter(24, 19, 41)}
Stocks ==
  [quarters : UNION {[1..n -> Quarters] : n \in 0..3},
   read : [price : {96, 110}, short : {100, -1000000}, long : {90, 105, -1000000}, rsi : {-1000000, 50, 80}]]

\* Headlines of a feed, and the rows of headlines that were analysed or not.
Headline(name, source, published) == [headline |-> name, source |-> source, published |-> published]
Moods == [a |-> -60, b |-> 40, c |-> 70, d |-> 10]
Impacts == [a |-> "NIFTY_DOWN", b |-> "BANKNIFTY_UP", c |-> "NIFTY_UP", d |-> "none"]
Row(name, symbol, published, index) ==
  [symbol |-> symbol, headline |-> name, source |-> "x", published |-> published, score |-> Moods[name],
   confidence |-> 80, impact |-> [index |-> index, relevance |-> "macro", rising |-> {}, falling |-> {}]]
Published == {Headline("a", "x", 5), Headline("a", "x", 2), Headline("b", "y", 4), Headline("c", "x", 5)}
Headlines ==
  {[raw |-> raw, time |-> 5, rows |-> kept] :
     raw \in UNION {[1..n -> Published] : n \in 0..3},
     kept \in {<<>>} \union [1..2 -> {Row(h, "NIFTY", t, Impacts[h]) : h \in DOMAIN Moods, t \in {1, 2, 5}}]}

\* Days around a breakout in the afternoon.
Nights ==
  [close : {10000, 10001}, ema20 : {9990}, ema50 : {9980, 9995}, atr : {0, 1, 100, 151, 400}, low : {9700, 9901, 9980, 9999},
   high : {10002, 10100}, breakout : {9999, 10001}, inside : BOOLEAN, high2 : {9999, 10001}, high1 : {9990, 10001},
   open : {9995}, openingHigh : {9999}, vwap : {9998}, volume : BOOLEAN]

Samples == [stocks |-> Stocks, headlines |-> Headlines, nights |-> Nights, curves |-> Curves,
            closed |-> Closed, features |-> Features, entries |-> Entries,
            readings |-> Readings, scalps |-> Scalps, candles |-> Candles,
            indicators |-> Indicators, chain |-> Views, setup |-> Setups, frame |-> Frames]

-----------------------------------------------------------------------------
(* The instances *)

VARIABLES
  wanted, requestId, questions, contract, candles, bar, drawn, wire, timer, flags,   \* ContractChart
  underlying, expiry, picked, rolled, asked, rowsShown, suggested, spot, failed, turns, \* OptionPage
  exchange, bubbles, waiting, mic, load, clear, log,                    \* Drishti
  cash, holding, slip, owner, desk, quote, armed, receipts,             \* DeliveryLedger
  news, poll, hour, polled, dropped,                                    \* NewsFeed
  overnight, picks, scan, today, minute, messages,                      \* BtstScan
  sample                                                                \* the pure modules

chartVars == <<wanted, requestId, questions, contract, candles, bar, drawn, wire, timer, flags>>
pageVars == <<underlying, expiry, picked, rolled, asked, rowsShown, suggested, spot, failed, turns>>
chatVars == <<exchange, bubbles, waiting, mic, load, clear, log>>
bookVars == <<cash, holding, slip, owner, desk, quote, armed, receipts>>
newsVars == <<news, poll, hour, polled, dropped>>
nightVars == <<overnight, picks, scan, today, minute, messages>>
jobVars == <<bookVars, newsVars, nightVars>>
vars == <<marketVars, chartVars, pageVars, chatVars, jobVars, sample>>

Chart == INSTANCE ContractChart WITH
  Strikes <- {10, 20, 31}, Frames <- {"1m", "5m"}, Listed <- {10, 20}, MaxSelections <- 3,
  asked <- questions

Listings == [NIFTY |-> <<1, 2>>, BANKNIFTY |-> <<2>>]
View == INSTANCE OptionPage WITH
  Listing <- Listings, MaxMoves <- 2, chain <- rowsShown, strike <- suggested, moves <- turns
\* A chat that is cleared, and one whose page is loaded twice.
Chat == INSTANCE Drishti WITH
  Actions <- {"read", "restricted"}, MaxExchanges <- 2, MaxLoads <- 1, MaxClears <- 1,
  Admin <- FALSE, shown <- bubbles
ChatTwice == INSTANCE Drishti WITH
  Actions <- {"restricted", "admin"}, MaxExchanges <- 2, MaxLoads <- 2, MaxClears <- 0,
  Admin <- FALSE, shown <- bubbles
\* Two clients, one of whom uses a request id of the other.
Ticket(u, r, a, n) == [user |-> u, request |-> r, stock |-> "s", action |-> a, quantity |-> n]
Book == INSTANCE DeliveryLedger WITH
  Users <- {"u", "v"}, Stocks <- {"s"}, Requests <- {"a", "b", "c"}, Handlers <- {"g", "h"},
  Tickets <- {Ticket("u", "a", "buy", 1), Ticket("u", "b", "buy", 2), Ticket("u", "c", "sell", 2),
              Ticket("v", "a", "buy", 1)},
  Prices <- {3, 4}, InitialCash <- 11, order <- slip, handler <- desk, killed <- armed
\* Two polls that may overlap and fetch a macro headline on banks and one on a bank.
News == INSTANCE NewsFeed WITH
  Workers <- {1, 2}, Watchlist <- <<"NIFTY", "BANKNIFTY">>,
  Feeds <- {<<Headline("a", "x", 1), Headline("b", "x", 0)>>, <<Headline("b", "x", 0)>>},
  Score <- Moods, Confidence <- [Moods EXCEPT !.a = 90, !.b = 70, !.c = 80, !.d = 50],
  Sectors <- [Moods EXCEPT !.a = {"macro", "banking"}, !.b = {"banking"}, !.c = {"geopolitical"}, !.d = {}],
  Stocks <- [Moods EXCEPT !.a = {}, !.b = {"HDFCBANK"}, !.c = {}, !.d = {"INFY"}],
  Lookback <- 1, Window <- 4, PageSize <- 2, MaxHours <- 1, MaxPolls <- 2, MaxStops <- 1,
  now <- hour, polls <- polled, stops <- dropped
\* A week with a holiday and the end of the calendar.
Night == INSTANCE BtstScan WITH
  Workers <- {1, 2}, Watched <- <<"A", "B">>, Days <- 3, Sessions <- {1, 3}, MaxMinutes <- 12,
  MaxMessages <- 4, run <- overnight, signals <- picks, day <- today
Screen == INSTANCE StockScreen
\* The liquidity minima scaled to the samples' contracts; two of the grid's points.
Decide == INSTANCE SignalDecisions WITH Limits <- [spread |-> 10, oi |-> 3, volume |-> 0]
Scalp == INSTANCE ScalpSignal WITH Limits <- [spread |-> 10, oi |-> 3, volume |-> 0]
Vote == INSTANCE RegimeVote WITH Limits <- [spread |-> 10, oi |-> 3, volume |-> 0]
Policy == INSTANCE PolicySignal
Chances == {-1, 0, 49, 50, 80}
Figures == INSTANCE Performance WITH RiskFree <- 2
Simulate == INSTANCE Backtest WITH
  Combos <- <<[score |-> 700, stop |-> 3], [score |-> 800, stop |-> 2]>>, MaxHolding <- 2,
  MinTrades <- 1, MinSegment <- 2, Slippage <- 1, Fees <- 1

Frame == INSTANCE IndicatorFrame WITH
  Scale <- 4096, Fast <- 2, Slow <- 4, Wilder <- 2, Window <- 3, Steps <- 4, MaxStep <- 3, Limit <- 5, MinCandles <- 4

ASSUME Frame!FrameAssumption
ASSUME Chart!ChartAssumption /\ View!PageAssumption /\ Simulate!BacktestAssumption
ASSUME Book!LedgerAssumption /\ News!NewsAssumption /\ Night!BtstAssumption
ASSUME Chat!DrishtiAssumption /\ ChatTwice!DrishtiAssumption

-----------------------------------------------------------------------------
(* One instance runs *)

Init ==
  /\ MarketInit /\ Chart!Init /\ View!Init
  /\ focus # "page" => underlying = "NIFTY"
  /\ IF focus = "chat_twice" THEN ChatTwice!Init ELSE Chat!Init
  /\ Book!Init /\ News!Init /\ Night!Init
  /\ sample \in (IF focus \in DOMAIN Samples THEN Samples[focus] ELSE {<<>>})

Next ==
  \/ (MarketNext \/ WideNext) /\ UNCHANGED <<chartVars, pageVars, chatVars, jobVars, sample>>
  \/ focus = "chart" /\ Chart!Next /\ UNCHANGED <<marketVars, pageVars, chatVars, jobVars, sample>>
  \/ focus = "page" /\ View!Next /\ UNCHANGED <<marketVars, chartVars, chatVars, jobVars, sample>>
  \/ focus = "chat" /\ Chat!Next /\ UNCHANGED <<marketVars, chartVars, pageVars, jobVars, sample>>
  \/ focus = "chat_twice" /\ ChatTwice!Next /\ UNCHANGED <<marketVars, chartVars, pageVars, jobVars, sample>>
  \/ /\ \/ focus = "delivery" /\ Book!Next /\ UNCHANGED <<newsVars, nightVars>>
        \/ focus = "news" /\ News!Next /\ UNCHANGED <<bookVars, nightVars>>
        \/ focus = "overnight" /\ Night!Next /\ UNCHANGED <<bookVars, newsVars>>
     /\ UNCHANGED <<marketVars, chartVars, pageVars, chatVars, sample>>

Spec == Init /\ [][Next]_vars

-----------------------------------------------------------------------------
(* The modules' safety, each for the instances it is checked on *)

\* A bearish market is decided on like the bullish one it mirrors: by the indicators, the
\* rules of entry and exit, the flow and the strike, the confirmation, the whole cascade
\* and the bootstrap of its success rate.
DecisionsAreMirrored ==
  /\ focus = "indicators" => Decide!RulesAreMirrored(sample)
  /\ focus = "chain" => Decide!FlowIsMirrored(sample)
  /\ focus = "setup" => Decide!CascadeIsMirrored(sample) /\ Decide!ConfirmationIsMirrored(sample)
  /\ focus = "frame" => Simulate!BootstrapIsMirrored(sample)
  /\ focus = "candles" => Frame!IndicatorsAreMirrored(sample, 7 * 4096)
  /\ focus = "readings" => Vote!VoteIsMirrored(sample)
  /\ focus = "stocks" => Screen!TrendIsMirrored(sample.read)
  /\ focus = "headlines" => News!NewsIsMirrored(sample.rows, sample.time)
  /\ focus = "features" => \A chance \in Chances : Policy!PolicyIsMirrored(sample, chance)
\* Every algorithm keeps to its reference: max pain, the strike and the levels to
\* what they mean, an approved setup to what can be placed, the two engines and
\* the two simulations to each other, and what is selected or trained to its past; drawdowns to the deepest fall.
AlgorithmsMeetReferences ==
  /\ focus = "frame" =>
       /\ Simulate!NoLookahead(sample) /\ Simulate!TradesStayInTheirSlice(sample)
       /\ Simulate!DrawdownIsTheDeepestFall(sample) /\ Simulate!BootstrapIsTheBacktest(sample)
  /\ focus = "candles" => Frame!ReplaySeesLiveIndicators(sample) /\ Frame!SarTrails(sample)
  /\ focus = "chain" =>
       /\ Decide!MaxPainIsCheapest(sample) /\ Decide!SuggestionIsUndominated(sample)
       /\ Decide!ZonesHoldTheWalls(sample)
  /\ focus = "setup" =>
       /\ Decide!ApprovedIsComplete(sample) /\ Decide!EnginesAgree(sample)
       /\ \A side \in {"bullish", "bearish"} :
            Decide!ScoreForgivesGaps(Decide!Factors(sample.view, side, sample.ind), Decide!Weights)
  /\ focus = "gate_policy" => GatePolicy!DrawdownIsDeepestFall
  /\ focus = "readings" => Vote!VoteIsNotOutvoted(sample)
  /\ focus = "features" =>
       \A chance \in Chances, fires \in BOOLEAN :
         Policy!ModelOnlyVetoes(sample, <<[fires |-> FALSE], [fires |-> fires]>>, chance)
  /\ focus = "entries" => Policy!EntryHasItsReward(sample.quote, sample.atr, sample.idea)
  /\ focus = "curves" => Figures!DrawdownIsTheDeepest(sample) /\ Figures!RatiosAgree(sample)
  /\ focus = "closed" => Figures!BreakdownsAddUp(sample)
  /\ focus = "stocks" =>
       /\ Screen!BetterNeverHurts(sample) /\ Screen!ScoreIsBetween(sample)
       /\ Screen!HoldGrowsWithScore({n \in {Screen!Scored(sample), 4999, 5000, 6499, 6500, 7999, 8000} : n >= 0})
  /\ focus = "headlines" =>
       News!PageIsTheNewest(sample.raw, sample.time) /\ News!AggregateIsFair(sample.rows, sample.time)
  /\ focus = "nights" => Night!LevelsAreSane(sample)
  /\ focus = "scalps" => Scalp!ScalpKeepsItsShape(sample.case, sample.idea)
\* Type correctness of every instance that runs.
TypeOK ==
  /\ focus = "feed" => Feed!TypeOK
  /\ focus = "tick" => Tick!TypeOK
  /\ focus = "tick_two" => TickTwo!TypeOK
  /\ focus = "sync" => Sync!TypeOK
  /\ focus = "broker" => Broker!TypeOK
  /\ focus = "gate" => Gate!TypeOK
  /\ focus = "gate_policy" => GatePolicy!TypeOK
  /\ focus = "gate_scalp" => GateScalp!TypeOK
  /\ focus = "contest" => Contest!TypeOK
  /\ focus = "review" => Review!TypeOK
  /\ focus = "session" => Session!TypeOK
  /\ focus = "session_two" => SessionTwo!TypeOK
  /\ focus = "panel" => SessionPanel!TypeOK
  /\ focus = "switch" => SessionSwitch!TypeOK
  /\ focus = "ingest" => Ingest!TypeOK
  /\ focus = "history" => History!TypeOK
  /\ focus = "alerts" => Watch!TypeOK
  /\ focus = "board" => Board!TypeOK
  /\ focus = "chart" => Chart!TypeOK
  /\ focus = "page" => View!TypeOK
  /\ focus = "chat" => Chat!TypeOK
  /\ focus = "chat_twice" => ChatTwice!TypeOK
  /\ focus = "delivery" => Book!TypeOK
  /\ focus = "news" => News!TypeOK
  /\ focus = "overnight" => Night!TypeOK
\* A token the process believes subscribed is streamed by the active socket.
BeliefIsStreamed == focus = "feed" => Feed!BeliefIsStreamed
\* No tick is lost or processed twice: what was received is processed, replaced
\* by a newer one, or waits in the mailbox once. One worker keeps their order,
\* its running candle is the open, high, low and close of its ticks, and the row
\* of a closed period is final.
TicksAreKept ==
  /\ focus = "tick" =>
       /\ Tick!MailboxIsBounded /\ Tick!EveryTickIsCounted /\ Tick!NoTickTwice
       /\ Tick!SameTokenInOrder /\ Tick!CandleIsItsTicks /\ Tick!ClosedRowIsFinal
  /\ focus = "tick_two" =>
       TickTwo!MailboxIsBounded /\ TickTwo!EveryTickIsCounted /\ TickTwo!NoTickTwice
\* A contract of a passed expiry is never activated again.
PassedStaysInactive == Sync!PassedStaysInactive
\* One call of place_order sends its order at most once.
OrderSentOnce == Broker!OrderSentOnce
\* A version that follows a champion was measured not to be worse by the gate, the
\* marked method to be the best of its group.
SuccessorPassesTheGate ==
  /\ focus = "gate" => Gate!SuccessorPassesTheGate
  /\ focus = "gate_policy" => GatePolicy!SuccessorPassesTheGate
  /\ focus = "board" => Board!BestIsMarked
\* One row stands for one fact, however often and however concurrently the job
\* that writes it runs: a method has one open hypothetical trade, a model family
\* one active version, an underlying one sync that writes under the lease, a
\* contract one fetch of its history for the lock and each time it ran out, an alert
\* one announcement for each check and edit, a delivery order one change of cash and
\* holding, a headline one row for each worker, and a day one scan for overnight trades.
OneRowPerFact ==
  /\ focus = "contest" => Contest!OneOpenPerMethod
  /\ focus = "gate" => Gate!OneChampion
  /\ focus = "gate_policy" => GatePolicy!OneChampion
  /\ focus = "sync" => Sync!LeaseExcludes
  /\ focus = "history" => History!FetchesAreBounded
  /\ focus = "alerts" => Watch!OneShot
  /\ focus = "delivery" => Book!RowsMatchOrders /\ Book!ToldIsBooked
  /\ focus = "news" => News!CopiesAreBounded /\ News!RowsAreAnalysed
  /\ focus = "overnight" => Night!OneScanPerDay /\ Night!RunsAccount
\* What the dashboard shows belongs to its session and its selection: no socket of
\* a former session carries data, each has one continuation, connected means all of
\* them; the chart and the chain are those of what was selected last; the chat has no
\* exchange twice, and what it confirmed was asked; the delivery portfolio adds up.
ViewIsCurrent ==
  /\ focus = "session" =>
       Session!SocketsBelongToTheSession /\ Session!OneContinuation /\ Session!ConnectedIsTrue
  /\ focus = "session_two" =>
       /\ SessionTwo!SocketsBelongToTheSession /\ SessionTwo!OneContinuation
       /\ SessionTwo!ConnectedIsTrue
  /\ focus = "panel" =>
       /\ SessionPanel!SocketsBelongToTheSession /\ SessionPanel!OneContinuation
       /\ SessionPanel!ConnectedIsTrue
  /\ focus = "chart" => Chart!ChartShowsTheSelection
  /\ focus = "page" => View!ChainIsOfTheSelection
  /\ focus = "delivery" => Book!ViewAddsUp
  /\ focus = "chat" => Chat!AskedFirst /\ Chat!NoBubbleTwice
  /\ focus = "chat_twice" => ChatTwice!AskedFirst /\ ChatTwice!NoBubbleTwice
\* The banner of an active kill switch cannot be missed (TopBar.jsx).
BannerIsNotMissed == focus = "switch" => SessionSwitch!BannerIsNotMissed
\* The changes a version applies are changes an admin approved.
AppliedWasApproved == focus = "review" => Review!AppliedWasApproved
===============================================================================
