---------------------------- MODULE CandleStore ----------------------------
(***************************************************************************)
(* A candle table and its writers. HistoricalData is written by the live   *)
(* feed's aggregator (market_data/tick_aggregator.py) and the recurring    *)
(* ingestion jobs (market_data/tasks.py), OptionCandle by the options'     *)
(* aggregator (options/candle_aggregator.py) and the requests that fetch a *)
(* history that is old (options/candle_service.py): an instance with Jobs  *)
(* is the first table, one with Requests the second. Each fetch returns    *)
(* the broker's bars as of then, the newest still forming.                 *)
(*                                                                         *)
(* A bar is the number of its trades. A row holds the trades from..to of a *)
(* bar; from = 0 is a row of the broker's, with its volume. The steps of   *)
(* the aggregator between a tick and its rows are TickPipeline's. The      *)
(* lookback covers all bars.                                               *)
(***************************************************************************)
EXTENDS Integers, FiniteSets

CONSTANTS
  Jobs,         \* ingestion tasks
  Requests,     \* requests for the candles of one contract
  MaxBars,      \* bound: bars with trades
  MaxTrades,    \* bound: trades of a bar
  MaxExpiries   \* bound: lock timeouts

StoreAssumption == {MaxBars, MaxTrades, MaxExpiries} \subseteq Nat /\ Jobs \cap Requests = {}

VARIABLES
  clock,      \* the current bar
  traded,     \* traded[b]: trades of bar b so far
  running,    \* the aggregator's candle: [bar, from, to], bar 0: none
  rows,       \* rows[b]: the stored [from, to], or Absent
  job,        \* each writer's [pc, got, old]
  locked,     \* the key candle_fetch exists
  expired,    \* lock timeouts so far
  pushed      \* the last bar and count an ingestion job sent to the charts

vars == <<clock, traded, running, rows, job, locked, expired, pushed>>

Bars == 1..MaxBars
Writers == Jobs \cup Requests
Absent == [from |-> 0, to |-> 0]
Row == [from : 0..MaxTrades, to : 0..MaxTrades]
NoBars == [b \in Bars |-> Absent]
Rest == [pc |-> "idle", got |-> NoBars, old |-> NoBars]

TypeOK ==
  /\ clock \in 1..(MaxBars + 2) /\ traded \in [Bars -> 0..MaxTrades]
  /\ running \in [bar : 0..MaxBars, from : 0..MaxTrades, to : 0..MaxTrades]
  /\ rows \in [Bars -> Row]
  /\ job \in [Writers -> [pc : {"idle", "fetch", "fetched", "read", "release"},
                          got : [Bars -> Row], old : [Bars -> Row]]]
  /\ locked \in BOOLEAN /\ expired \in 0..MaxExpiries
  /\ pushed \in [bar : 0..MaxBars, to : 0..MaxTrades]

Init ==
  /\ clock = 1 /\ traded = [b \in Bars |-> 0] /\ running = [bar |-> 0, from |-> 0, to |-> 0]
  /\ rows = NoBars /\ job = [w \in Writers |-> Rest] /\ locked = FALSE /\ expired = 0
  /\ pushed = [bar |-> 0, to |-> 0]

-----------------------------------------------------------------------------
(* The market and the live feed *)

NextBar ==
  /\ clock < MaxBars + 2 /\ clock' = clock + 1
  /\ UNCHANGED <<traded, running, rows, job, locked, expired, pushed>>

\* Rows the aggregator stores; a store that fails is logged.
StoredSome(candles) ==
  \E kept \in SUBSET candles :
    rows' = [b \in Bars |->
      IF \E c \in kept : c.bar = b
      THEN LET c == CHOOSE c \in kept : c.bar = b IN [from |-> c.from, to |-> c.to]
      ELSE rows[b]]

\* A trade, and its tick when the feed is connected: the first of a bar closes
\* the former one's candle, the others may be throttled.
Trade ==
  /\ clock \in Bars /\ traded[clock] < MaxTrades
  /\ traded' = [traded EXCEPT ![clock] = @ + 1]
  /\ \/ UNCHANGED <<running, rows>>
     \/ /\ running' = (IF running.bar = clock THEN [running EXCEPT !.to = traded'[clock]]
                       ELSE [bar |-> clock, from |-> traded'[clock], to |-> traded'[clock]])
        /\ StoredSome(IF running.bar \in {0, clock} THEN {running'} ELSE {running, running'})
  /\ UNCHANGED <<clock, job, locked, expired, pushed>>

\* The feed process starts again.
Restart ==
  /\ running.bar # 0 /\ running' = [bar |-> 0, from |-> 0, to |-> 0]
  /\ UNCHANGED <<clock, traded, rows, job, locked, expired, pushed>>

Answer == [b \in Bars |-> [from |-> 0, to |-> traded[b]]]

-----------------------------------------------------------------------------
(* ingest_watchlist_candles, ingest_index_chart_candles *)

\* fetch_recent_candles; its failure ends the visit of the symbol.
Fetch(j) ==
  /\ job[j].pc = "idle" /\ job' = [job EXCEPT ![j] = [Rest EXCEPT !.pc = "fetched", !.got = Answer]]
  /\ UNCHANGED <<clock, traded, running, rows, locked, expired, pushed>>

\* _upsert_candles, the existing rows of its transaction.
Read(j) ==
  /\ j \in Jobs /\ job[j].pc = "fetched"
  /\ job' = [job EXCEPT ![j].pc = "read", ![j].old = rows]
  /\ UNCHANGED <<clock, traded, running, rows, locked, expired, pushed>>

\* bulk_create skips a row that exists by now; an existing one is saved when it
\* differed as read. The fields of existing rows are set before they are compared
\* for the charts, so only a created bar is sent to them.
Write(j) ==
  LET got == job[j].got
      old == job[j].old
      newest == {b \in Bars : got[b] # Absent /\ \A c \in Bars : got[c] # Absent => c <= b}
  IN /\ j \in Jobs /\ job[j].pc = "read"
     /\ rows' = [b \in Bars |->
          IF got[b] = Absent \/ old[b] = got[b] THEN rows[b]
          ELSE IF old[b] = Absent /\ rows[b] # Absent THEN rows[b] ELSE got[b]]
     /\ pushed' = (IF \E b \in newest : old[b] = Absent
                   THEN LET b == CHOOSE b \in newest : TRUE IN [bar |-> b, to |-> got[b].to]
                   ELSE pushed)
     /\ job' = [job EXCEPT ![j] = Rest]
     /\ UNCHANGED <<clock, traded, running, locked, expired>>

-----------------------------------------------------------------------------
(* get_option_candles *)

\* _is_fresh_enough: the newest row is of this bar or the one before.
Fresh == \E b \in Bars : rows[b] # Absent /\ clock - b <= 1

\* An old history is fetched by the one request that gets the lock; every other
\* request is served what is stored and changes nothing.
Ask(r) ==
  /\ job[r].pc = "idle" /\ ~Fresh
  /\ ~locked /\ locked' = TRUE /\ job' = [job EXCEPT ![r].pc = "fetch"]
  /\ UNCHANGED <<clock, traded, running, rows, expired, pushed>>

\* fetch_candles_for_token, or its exception.
Fetched(r) ==
  /\ job[r].pc = "fetch"
  /\ \/ job' = [job EXCEPT ![r].pc = "fetched", ![r].got = Answer]
     \/ job' = [job EXCEPT ![r].pc = "release"]
  /\ UNCHANGED <<clock, traded, running, rows, locked, expired, pushed>>

\* The valid rows, each in a transaction of its own, oldest first; the last one ends it.
Upsert(r) ==
  LET got == job[r].got
      left == {b \in Bars : got[b] # Absent}
  IN /\ r \in Requests /\ job[r].pc = "fetched"
     /\ IF left = {} THEN rows' = rows /\ job' = [job EXCEPT ![r].pc = "release"]
        ELSE LET b == CHOOSE b \in left : \A c \in left : b <= c
             IN /\ rows' = [rows EXCEPT ![b] = got[b]]
                /\ job' = [job EXCEPT ![r].got[b] = Absent]
     /\ UNCHANGED <<clock, traded, running, locked, expired, pushed>>

\* finally: the key goes, whoever set it.
Release(r) ==
  /\ job[r].pc = "release" /\ locked' = FALSE /\ job' = [job EXCEPT ![r] = Rest]
  /\ UNCHANGED <<clock, traded, running, rows, expired, pushed>>

\* FETCH_LOCK_TIMEOUT_SECONDS pass before the holder is done.
Expire ==
  /\ locked /\ expired < MaxExpiries /\ locked' = FALSE /\ expired' = expired + 1
  /\ UNCHANGED <<clock, traded, running, rows, job, pushed>>

Ingest(j) == Fetch(j) \/ Read(j) \/ Write(j)
Serve(r) == Ask(r) \/ Fetched(r) \/ Upsert(r) \/ Release(r)
Next ==
  \/ NextBar \/ Trade \/ Restart \/ Expire
  \/ \E j \in Jobs : Ingest(j)
  \/ \E r \in Requests : Serve(r)

\* Jobs are scheduled for ever and pages ask again, and the broker answers.
Succeeds(r) == Fetched(r) /\ job'[r].pc = "fetched"
Fairness ==
  /\ WF_vars(NextBar)
  /\ \A j \in Jobs : WF_vars(Ingest(j))
  /\ \A r \in Requests : SF_vars(Ask(r)) /\ SF_vars(Succeeds(r)) /\ WF_vars(Fetched(r) \/ Upsert(r) \/ Release(r))
Spec == Init /\ [][Next]_vars
FairSpec == Spec /\ Fairness

-----------------------------------------------------------------------------
(* Properties *)

InFlight == {r \in Requests : job[r].pc \in {"fetch", "fetched", "release"}}

\* The stampede guard of get_option_candles: no more fetches of one contract at a
\* time than one and one for every lock that ran out, though a late holder deletes
\* the lock of the next.
FetchesAreBounded == Cardinality(InFlight) <= expired + (IF locked THEN 1 ELSE 0)

\* A bar seen by halves, by a feed that came late or a job that asked too early,
\* is whole in the end: after the market every row is the broker's final bar,
\* whatever older answers were written over it meanwhile.
BarsAreWhole ==
  \A b \in Bars : rows[b] = [from |-> 0, to |-> traded[b]] \/ traded[b] = 0
=============================================================================
