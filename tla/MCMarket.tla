-------------------------------- MODULE MCMarket --------------------------------
(***************************************************************************)
(* Instances of the market-data and the learning modules and of a tab's    *)
(* session for TLC, side by side: focus names the one that runs in a       *)
(* behaviour, all the others rest in their initial states.                 *)
(***************************************************************************)
EXTENDS Integers, Sequences, FiniteSets, TLC

CONSTANTS Focuses   \* the instances of this run

VARIABLES
  focus,
  marketOpen, desired, tokens, socket, streamed, active, ready,         \* FeedSubscription
  thread, failures, refresh, mishap, moves,
  sent, pending, order, counts, worker, shown, bucket, candle, stored,  \* TickPipeline
  handled, refused,
  day, afterCutoff, rows, lease, task, cache, listing, lost, crashes,   \* ContractSync
  conn, call, breaker, shared, slot, throttled, posted,                 \* BrokerSession
  trades, registry, trainer, deaths,                                    \* ChampionGate
  market, trade, run,                                                   \* MethodContest
  note, reviews, request, command, version, granted,                    \* ReviewLoop
  issued, valid, token, storage, page, store, account, sockets, timers, requests, halted, banner,
  toggles,                                                              \* ClientSession
  clock, traded, running, stock, job, locked, expired, pushed,          \* CandleStore
  latest, alert, checking, edit, edits, told, killed,                   \* PriceAlerts
  settled, board, judge, stopped                                        \* MethodBoard

feedVars == <<marketOpen, desired, tokens, socket, streamed, active, ready, thread, failures,
              refresh, mishap, moves>>
tickVars == <<sent, pending, order, counts, worker, shown, bucket, candle, stored, handled, refused>>
syncVars == <<day, afterCutoff, rows, lease, task, cache, listing, lost, crashes>>
brokerVars == <<conn, call, breaker, shared, slot, throttled, posted>>
gateVars == <<trades, registry, trainer, deaths>>
contestVars == <<market, trade, run>>
reviewVars == <<note, reviews, request, command, version, granted>>
sessionVars == <<issued, valid, token, storage, page, store, account, sockets, timers, requests,
                 halted, banner, toggles>>
storeVars == <<clock, traded, running, stock, job, locked, expired, pushed>>
alertVars == <<latest, alert, checking, edit, edits, told, killed>>
boardVars == <<settled, board, judge, stopped>>
marketVars == <<focus, feedVars, tickVars, syncVars, brokerVars, gateVars, contestVars, reviewVars,
                sessionVars, storeVars, alertVars, boardVars>>

-----------------------------------------------------------------------------
(* The instances *)

Feed == INSTANCE FeedSubscription WITH Tokens <- {"p", "q"}, MaxSockets <- 2, MaxMoves <- 2
FeedShort == INSTANCE FeedSubscription WITH Tokens <- {"p", "q"}, MaxSockets <- 2, MaxMoves <- 1

\* One worker per queue keeps a token in order, two share the mailbox.
Tick == INSTANCE TickPipeline WITH
  Tokens <- {"p"}, Workers <- {1}, PriceOf <- <<5, 7, 4>>, MaxBuckets <- 2
TickTwo == INSTANCE TickPipeline WITH
  Tokens <- {"p", "q"}, Workers <- {1, 2}, PriceOf <- <<5, 7>>, MaxBuckets <- 1

Sync == INSTANCE ContractSync WITH
  Workers <- {1, 2}, Listed <- 3, SyncCount <- 2, MaxDays <- 2, MaxCrashes <- 1
SyncAlone == INSTANCE ContractSync WITH
  Workers <- {1}, Listed <- 3, SyncCount <- 2, MaxDays <- 2, MaxCrashes <- 1

\* Two processes with one thread each; calls of all kinds, and prices alone.
ProcessOf == <<1, 2>>
Broker == INSTANCE BrokerSession WITH
  Processes <- {1, 2}, Threads <- {1, 2}, Kinds <- {"ltp", "order"}, Attempts <- 2, Threshold <- 2
Quotes == INSTANCE BrokerSession WITH
  Processes <- {1, 2}, Threads <- {1, 2}, Kinds <- {"ltp"}, Attempts <- 1, Threshold <- 1

\* The win-probability family; the same with deaths; the policy family with its
\* own gates; the scalping family with an operator's activation.
Trainers == {1}
MaxRegression == 1
MinTraining == 1
MinSamples == 1
MaxDrawdownR == 2
Gate == INSTANCE ChampionGate WITH
  Accuracies <- {0, 1, 2}, MinHoldout <- 2, Holdouts <- {<<>>}, PolicyGates <- FALSE,
  Candidates <- FALSE, MaxTrades <- 2, MaxRows <- 4, MaxCrashes <- 0, crashes <- deaths
GateDeaths == INSTANCE ChampionGate WITH
  Accuracies <- {0, 2}, MinHoldout <- 2, Holdouts <- {<<>>}, PolicyGates <- FALSE,
  Candidates <- FALSE, MaxTrades <- 2, MaxRows <- 2, MaxCrashes <- 1, crashes <- deaths
GatePolicy == INSTANCE ChampionGate WITH
  Accuracies <- {0, 2}, MinHoldout <- 1, Holdouts <- {<<3>>, <<-2, 3>>, <<2, -3, 2>>, <<2, -1>>},
  PolicyGates <- TRUE, Candidates <- FALSE, MaxTrades <- 1, MaxRows <- 2, MaxCrashes <- 0,
  crashes <- deaths
GateScalp == INSTANCE ChampionGate WITH
  Accuracies <- {0, 2}, MinHoldout <- 2, Holdouts <- {<<>>}, PolicyGates <- FALSE,
  Candidates <- TRUE, MaxTrades <- 2, MaxRows <- 3, MaxCrashes <- 0, crashes <- deaths

Snapshot == [close |-> 100, ema9 |-> 101, ema21 |-> 99, slope |-> 1, adx |-> 30, rsi |-> 50,
        bbWidth |-> 40, volume |-> 0, priorHigh |-> 98, macd |-> 1, macdPrev |-> 0, sar |-> 97,
        atr |-> 10]
Contest == INSTANCE MethodContest WITH
  Runs <- {1}, Methods <- {"trend_following", "mean_reversion"}, Prices <- {80, 100, 130},
  MaxHolding <- 2, Ids <- {1, 2},
  Snapshots <- {Snapshot,
                [Snapshot EXCEPT !.ema9 = 95, !.ema21 = 105, !.slope = -1, !.adx = 20, !.rsi = 18],
                [Snapshot EXCEPT !.bbWidth = 20, !.volume = 15, !.adx = 10],
                [Snapshot EXCEPT !.bbWidth = 70, !.macd = -1, !.volume = 10]}

ContestShort == INSTANCE MethodContest WITH
  Runs <- {1}, Methods <- {"trend_following"}, Prices <- {80, 100, 130},
  MaxHolding <- 2, Ids <- {1, 2},
  Snapshots <- {Snapshot, [Snapshot EXCEPT !.bbWidth = 70, !.macd = -1, !.volume = 10]}

Review == INSTANCE ReviewLoop WITH
  Admins <- {"ann", "bob"}, Appliers <- {1, 2}, Contents <- {"s", "t"}, MaxReviews <- 2

\* A session of one socket visited twice, of two sockets visited once, and of the
\* announcement store.
Session == INSTANCE ClientSession WITH
  Keys <- {"risk"}, Panel <- FALSE, Threshold <- 0, MaxTokens <- 2, MaxVisits <- 2, MaxToggles <- 0
SessionShort == INSTANCE ClientSession WITH
  Keys <- {"risk"}, Panel <- FALSE, Threshold <- 0, MaxTokens <- 2, MaxVisits <- 1, MaxToggles <- 0
SessionTwo == INSTANCE ClientSession WITH
  Keys <- {"risk", "options"}, Panel <- FALSE, Threshold <- 1, MaxTokens <- 2, MaxVisits <- 1,
  MaxToggles <- 0
SessionPanel == INSTANCE ClientSession WITH
  Keys <- {"jarvis"}, Panel <- TRUE, Threshold <- 0, MaxTokens <- 2, MaxVisits <- 2, MaxToggles <- 0
SessionSwitch == INSTANCE ClientSession WITH
  Keys <- {"risk"}, Panel <- FALSE, Threshold <- 0, MaxTokens <- 1, MaxVisits <- 1, MaxToggles <- 1

\* The indices' candles with a job, an option's with one page, and with two and a
\* lock that runs out.
Ingest == INSTANCE CandleStore WITH
  Jobs <- {1}, Requests <- {}, MaxBars <- 2, MaxTrades <- 1, MaxExpiries <- 0, rows <- stock
Lookup == INSTANCE CandleStore WITH
  Jobs <- {}, Requests <- {1}, MaxBars <- 2, MaxTrades <- 1, MaxExpiries <- 1, rows <- stock
History == INSTANCE CandleStore WITH
  Jobs <- {}, Requests <- {1, 2}, MaxBars <- 2, MaxTrades <- 1, MaxExpiries <- 1, rows <- stock

\* A price alert with two checks of it that may be killed, and with one check.
Watch == INSTANCE PriceAlerts WITH
  Alerts <- {1}, Workers <- {1, 2}, Prices <- {1, 2}, MaxEdits <- 1, MaxDeaths <- 1,
  price <- latest, row <- alert, check <- checking, deaths <- killed
WatchShort == INSTANCE PriceAlerts WITH
  Alerts <- {1}, Workers <- {1}, Prices <- {1, 2}, MaxEdits <- 0, MaxDeaths <- 0,
  price <- latest, row <- alert, check <- checking, deaths <- killed

Board == INSTANCE MethodBoard WITH
  Methods <- 2, MinTrades <- 1, MaxTrades <- 2, MaxRows <- 2, MaxDeaths <- 1,
  closed <- settled, rows <- board, killed <- stopped
BoardShort == INSTANCE MethodBoard WITH
  Methods <- 2, MinTrades <- 1, MaxTrades <- 1, MaxRows <- 2, MaxDeaths <- 1,
  closed <- settled, rows <- board, killed <- stopped

ASSUME Feed!FeedAssumption /\ FeedShort!FeedAssumption
ASSUME Tick!PipelineAssumption /\ TickTwo!PipelineAssumption
ASSUME Sync!SyncAssumption /\ Broker!BrokerAssumption /\ Quotes!BrokerAssumption
ASSUME Gate!GateAssumption /\ GateDeaths!GateAssumption
ASSUME GatePolicy!GateAssumption /\ GateScalp!GateAssumption
ASSUME Contest!ContestAssumption /\ ContestShort!ContestAssumption
ASSUME Board!BoardAssumption /\ BoardShort!BoardAssumption
ASSUME Review!LoopAssumption
ASSUME Ingest!StoreAssumption /\ Lookup!StoreAssumption
ASSUME History!StoreAssumption /\ Watch!AlertsAssumption /\ WatchShort!AlertsAssumption
ASSUME Session!SessionAssumption /\ SessionShort!SessionAssumption /\ SessionTwo!SessionAssumption
ASSUME SessionPanel!SessionAssumption /\ SessionSwitch!SessionAssumption

-----------------------------------------------------------------------------
(* One instance runs *)

MarketInit ==
  /\ focus \in Focuses
  /\ IF focus = "feed" THEN Feed!Init ELSE FeedShort!Init
  /\ focus \notin {"feed", "feed_short"} => desired = {"p"}
  /\ IF focus = "tick_two" THEN TickTwo!Init ELSE Tick!Init
  /\ IF focus = "sync_alone" THEN SyncAlone!Init ELSE Sync!Init
  /\ Broker!Init /\ Gate!Init /\ Review!Init
  /\ IF focus = "contest_short" THEN ContestShort!Init ELSE Contest!Init
  /\ (focus \notin {"contest", "contest_short"} => market = [ind |-> Snapshot, price |-> 100])
  /\ IF focus = "session_two" THEN SessionTwo!Init
     ELSE IF focus = "panel" THEN SessionPanel!Init ELSE Session!Init
  /\ IF focus = "history" THEN History!Init
     ELSE IF focus = "lookup" THEN Lookup!Init ELSE Ingest!Init
  /\ IF focus = "alerts" THEN Watch!Init ELSE WatchShort!Init
  /\ Board!Init

Runs(name) == focus = name /\ focus' = focus
OnlyFeed ==
  UNCHANGED <<tickVars, syncVars, brokerVars, gateVars, contestVars, reviewVars, sessionVars, storeVars,
              alertVars, boardVars>>
OnlyTick ==
  UNCHANGED <<feedVars, syncVars, brokerVars, gateVars, contestVars, reviewVars, sessionVars, storeVars,
              alertVars, boardVars>>
OnlySync ==
  UNCHANGED <<feedVars, tickVars, brokerVars, gateVars, contestVars, reviewVars, sessionVars, storeVars,
              alertVars, boardVars>>
OnlyBroker ==
  UNCHANGED <<feedVars, tickVars, syncVars, gateVars, contestVars, reviewVars, sessionVars, storeVars,
              alertVars, boardVars>>
OnlyGate ==
  UNCHANGED <<feedVars, tickVars, syncVars, brokerVars, contestVars, reviewVars, sessionVars, storeVars,
              alertVars, boardVars>>
OnlyContest ==
  UNCHANGED <<feedVars, tickVars, syncVars, brokerVars, gateVars, reviewVars, sessionVars, storeVars,
              alertVars, boardVars>>
OnlyReview ==
  UNCHANGED <<feedVars, tickVars, syncVars, brokerVars, gateVars, contestVars, sessionVars, storeVars,
              alertVars, boardVars>>
OnlySession ==
  UNCHANGED <<feedVars, tickVars, syncVars, brokerVars, gateVars, contestVars, reviewVars, storeVars,
              alertVars, boardVars>>
OnlyStore ==
  UNCHANGED <<feedVars, tickVars, syncVars, brokerVars, gateVars, contestVars, reviewVars, sessionVars,
              alertVars, boardVars>>
OnlyAlerts ==
  UNCHANGED <<feedVars, tickVars, syncVars, brokerVars, gateVars, contestVars, reviewVars, sessionVars,
              storeVars, boardVars>>
OnlyBoard ==
  UNCHANGED <<feedVars, tickVars, syncVars, brokerVars, gateVars, contestVars, reviewVars, sessionVars,
              storeVars, alertVars>>

\* The instances whose liveness is checked, and the wider ones that MCData runs.
MarketNext ==
  \/ Runs("feed_short") /\ FeedShort!Next /\ OnlyFeed
  \/ Runs("tick") /\ Tick!Next /\ OnlyTick
  \/ Runs("sync_alone") /\ SyncAlone!Next /\ OnlySync
  \/ Runs("quotes") /\ Quotes!Next /\ OnlyBroker
  \/ Runs("gate_deaths") /\ GateDeaths!Next /\ OnlyGate
  \/ Runs("contest_short") /\ ContestShort!Next /\ OnlyContest
  \/ Runs("session_short") /\ SessionShort!Next /\ OnlySession
  \/ Runs("ingest") /\ Ingest!Next /\ OnlyStore
  \/ Runs("lookup") /\ Lookup!Next /\ OnlyStore
  \/ Runs("alerts_short") /\ WatchShort!Next /\ OnlyAlerts
  \/ Runs("board_short") /\ BoardShort!Next /\ OnlyBoard

WideNext ==
  \/ Runs("feed") /\ Feed!Next /\ OnlyFeed
  \/ Runs("tick_two") /\ TickTwo!Next /\ OnlyTick
  \/ Runs("sync") /\ Sync!Next /\ OnlySync
  \/ Runs("broker") /\ Broker!Next /\ OnlyBroker
  \/ Runs("gate") /\ Gate!Next /\ OnlyGate
  \/ Runs("gate_policy") /\ GatePolicy!Next /\ OnlyGate
  \/ Runs("gate_scalp") /\ GateScalp!Next /\ OnlyGate
  \/ Runs("contest") /\ Contest!Next /\ OnlyContest
  \/ Runs("review") /\ Review!Next /\ OnlyReview
  \/ Runs("session") /\ Session!Next /\ OnlySession
  \/ Runs("session_two") /\ SessionTwo!Next /\ OnlySession
  \/ Runs("panel") /\ SessionPanel!Next /\ OnlySession
  \/ Runs("switch") /\ SessionSwitch!Next /\ OnlySession
  \/ Runs("history") /\ History!Next /\ OnlyStore
  \/ Runs("alerts") /\ Watch!Next /\ OnlyAlerts
  \/ Runs("board") /\ Board!Next /\ OnlyBoard

MarketSpec == MarketInit /\ [][MarketNext]_marketVars

\* The fairness of each module for its instance. Only one is in focus, so one
\* condition can name an action of each. The threads of the broker's sessions are
\* alike: the first is fair and is asked about.
FeedDoes(A) == Runs("feed_short") /\ A /\ OnlyFeed
TickDoes(A) == Runs("tick") /\ A /\ OnlyTick
SyncDoes(A) == Runs("sync_alone") /\ A /\ OnlySync
BrokerDoes(A) == Runs("quotes") /\ A /\ OnlyBroker
GateDoes(A) == Runs("gate_deaths") /\ A /\ OnlyGate
ContestDoes(A) == Runs("contest_short") /\ A /\ OnlyContest
SessionDoes(A) == Runs("session_short") /\ A /\ OnlySession
IngestDoes(A) == Runs("ingest") /\ A /\ OnlyStore
LookupDoes(A) == Runs("lookup") /\ A /\ OnlyStore
BoardDoes(A) == Runs("board_short") /\ A /\ OnlyBoard
AlertsDo(A) == Runs("alerts_short") /\ A /\ OnlyAlerts

Answered(w) == call[w].kind = "ltp" /\ (Quotes!Send(w, "ok") \/ Quotes!Send(w, "invalid"))

FairSpec ==
  /\ MarketSpec
  /\ WF_marketVars(\/ FeedDoes(FeedShort!Connection) \/ TickDoes(Tick!Work(1)) \/ SyncDoes(SyncAlone!Expire)
             \/ BrokerDoes(Quotes!CooldownsEnd) \/ GateDoes(GateDeaths!Work(1)) \/ ContestDoes(ContestShort!Tick)
             \/ SessionDoes(SessionShort!Poll) \/ IngestDoes(Ingest!NextBar)
             \/ LookupDoes(Lookup!NextBar) \/ AlertsDo(WatchShort!Work(1))
             \/ BoardDoes(BoardShort!Work))
  /\ WF_marketVars(\/ FeedDoes(FeedShort!Watchdog) \/ SyncDoes(SyncAlone!Sync(1))
             \/ BrokerDoes(Quotes!Proceed(1)) \/ ContestDoes(ContestShort!Start(1))
             \/ SessionDoes(SessionShort!StorageEvent) \/ IngestDoes(Ingest!Ingest(1)))
  /\ WF_marketVars(\/ FeedDoes(FeedShort!Refresh) \/ ContestDoes(ContestShort!Visit(1))
             \/ LookupDoes(Lookup!Fetched(1) \/ Lookup!Upsert(1) \/ Lookup!Release(1)))
  /\ WF_marketVars(BrokerDoes(Quotes!Calm))
  /\ SF_marketVars(\/ FeedDoes(\E s \in FeedShort!Sockets : FeedShort!Dial(s) /\ thread'.pc = "dial")
             \/ SyncDoes(SyncAlone!HealthCheck(1)) \/ BrokerDoes(Quotes!Call(1, "ltp"))
             \/ SessionDoes(SessionShort!Answer(1)) \/ LookupDoes(Lookup!Ask(1)))
  /\ SF_marketVars(SyncDoes(SyncAlone!Acquire(1) /\ lease = {})
             \/ SessionDoes(SessionShort!Answer(2)) \/ LookupDoes(Lookup!Succeeds(1)))
  /\ SF_marketVars(SyncDoes(SyncAlone!Read(1, TRUE)) \/ BrokerDoes(Answered(1)))
  /\ SF_marketVars(SyncDoes(SyncAlone!Commit(1, FALSE)))

-----------------------------------------------------------------------------
(* The modules' liveness, each for the instance it is checked on *)

\* The newest price always gets through, and the candle of a closed bar is whole in the end.
BarsAreWhole ==
  (focus = "ingest" => Ingest!BarsAreWhole) /\ (focus = "lookup" => Lookup!BarsAreWhole)
NewestIsShown == (focus = "tick" => Tick!NewestIsShown) /\ <>[]BarsAreWhole
\* After a day's expiry passed the desk finds a current one again.
ExpiryComesBack == focus = "sync_alone" => SyncAlone!ExpiryComesBack
\* Outages end: while the market is open the feed comes back and streams the
\* desired tokens, a session the broker ended is replaced, and every call returns; a tab
\* whose token died leaves the app; an alert whose level is reached fires.
DeadSession ==
  \/ focus = "quotes" /\ Quotes!StaleSession(1)
  \/ focus = "session_short" /\ SessionShort!DeadSession
OutagesEnd ==
  /\ focus = "feed_short" => FeedShort!FeedComesBack
  /\ focus = "quotes" => Quotes!CallsEnd(1)
  /\ DeadSession ~> ~DeadSession
  /\ focus = "alerts_short" => WatchShort!CrossedAlertFires
\* A trainer or an evaluation that died between two rows does not leave a family
\* without a champion or a group without its best.
Leaderless ==
  (focus = "gate_deaths" /\ GateDeaths!Leaderless) \/ (focus = "board_short" /\ BoardShort!Leaderless)
ChampionComesBack == Leaderless ~> ~Leaderless
\* Every hypothetical trade is resolved.
TradesResolve == focus = "contest_short" => ContestShort!TradesResolve
===============================================================================
