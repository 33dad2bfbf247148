------------------------------- MODULE NewsFeed -------------------------------
(***************************************************************************)
(* The news of the two indices: poll_news_sources fetches, scores and      *)
(* saves headlines (apps/news), and the aggregate that the signal engines  *)
(* read from the rows. A poll checks for a row before it makes one and     *)
(* nothing in the database forbids a second, so polls of several worker    *)
(* processes may overlap between the two.                                  *)
(*                                                                         *)
(* Scores and confidences are in hundredths, times in hours. What FinBERT  *)
(* and the keyword maps say of a headline are constants.                   *)
(***************************************************************************)
EXTENDS Integers, Sequences, SequencesExt, FiniteSets

CONSTANTS
  Workers,      \* processes that run the task
  Watchlist,    \* settings.WATCHLIST, a sequence of symbols
  Feeds,        \* the lists of entries the feeds may return, in feed order
  Score,        \* of each headline, -100..100
  Confidence,   \* of each headline, 0..100
  Sectors,      \* matched by each headline
  Stocks,       \* named by each headline
  Lookback,     \* hours a fetch looks back
  Window,       \* LOOKBACK_HOURS of the aggregate
  PageSize,
  MaxHours, MaxPolls, MaxStops   \* bounds: the clock, the polls, their deaths and failures

NewsAssumption ==
  /\ IsFiniteSet(Workers)
  /\ {Lookback, Window, PageSize} \subseteq Nat \ {0} /\ {MaxHours, MaxPolls, MaxStops} \subseteq Nat
  /\ DOMAIN Score = DOMAIN Sectors /\ DOMAIN Score = DOMAIN Stocks /\ DOMAIN Score = DOMAIN Confidence

VARIABLES
  news,     \* the rows of NewsSentiment with their impact analysis, oldest first
  poll,     \* what each worker does
  now,
  polls, stops

vars == <<news, poll, now, polls, stops>>

Unanalysed == [index |-> "unknown", relevance |-> "unknown", rising |-> {}, falling |-> {}]
Idle == [pc |-> "idle", left |-> <<>>, items |-> <<>>, row |-> 0]

Init ==
  /\ news = <<>> /\ poll = [w \in Workers |-> Idle]
  /\ now \in {0} /\ polls = 0 /\ stops = 0

-----------------------------------------------------------------------------
(* Fetching and scoring *)

Fingerprint(entry) == <<entry.headline, entry.source>>

\* The first copy of an entry counts, also when it is too old to be kept.
Fresh(raw, time) ==
  LET first(i) == \A j \in 1..(i - 1) : Fingerprint(raw[j]) # Fingerprint(raw[i])
  IN {i \in DOMAIN raw : first(i) /\ raw[i].published >= time - Lookback}

\* Newest first, entries of one time in feed order, one page of them.
Fetched(raw, time) ==
  LET before(i, j) == \/ raw[i].published > raw[j].published
                      \/ raw[i].published = raw[j].published /\ i < j
      order == SetToSortSeq(Fresh(raw, time), before)
      page == SubSeq(order, 1, IF Len(order) < PageSize THEN Len(order) ELSE PageSize)
  IN [k \in DOMAIN page |-> raw[page[k]]]

Magnitude(n) == IF n < 0 THEN -n ELSE n
Clear == 30      \* SENTIMENT_RELEVANCE_THRESHOLD

Relevance(headline) ==
  IF Stocks[headline] # {} THEN "direct"
  ELSE IF Sectors[headline] = {} THEN "none"
  ELSE IF Sectors[headline] \intersect {"macro", "geopolitical"} # {} THEN "macro" ELSE "sector"

IndexImpact(headline, score) ==
  LET way == IF score > 0 THEN "UP" ELSE "DOWN"
  IN IF Magnitude(score) < Clear THEN "none"
     ELSE IF Sectors[headline] \intersect {"macro", "geopolitical"} # {} THEN "NIFTY_" \o way
     ELSE IF "banking" \in Sectors[headline] THEN "BANKNIFTY_" \o way
     ELSE "none"

Analysis(headline, score) ==
  LET named == IF Magnitude(score) < Clear THEN {} ELSE Stocks[headline]
  IN [index |-> IndexImpact(headline, score), relevance |-> Relevance(headline),
      rising |-> IF score > 0 THEN named ELSE {}, falling |-> IF score > 0 THEN {} ELSE named]

-----------------------------------------------------------------------------
(* The polls *)

Entry(w) == Head(poll[w].items)
Saved(symbol, entry) ==
  \E i \in DOMAIN news :
    news[i].symbol = symbol /\ news[i].source = entry.source /\ news[i].published = entry.published

\* The headlines of one symbol are done, or given up after an exception.
NextSymbol(w) ==
  poll' = [poll EXCEPT ![w] = IF Len(@.left) = 1 THEN Idle
                              ELSE [Idle EXCEPT !.pc = "fetch", !.left = Tail(poll[w].left)]]

\* Celery beat's message of the next five minutes reaches a free worker.
Start(w) ==
  /\ poll[w].pc = "idle" /\ polls < MaxPolls
  /\ poll' = [poll EXCEPT ![w] = [Idle EXCEPT !.pc = "fetch", !.left = Watchlist]]
  /\ polls' = polls + 1
  /\ UNCHANGED <<news, now, stops>>

Fetch(w) ==
  /\ poll[w].pc = "fetch"
  /\ \E raw \in Feeds :
       poll' = [poll EXCEPT ![w].pc = "check", ![w].items = Fetched(raw, now)]
  /\ UNCHANGED <<news, now, polls, stops>>

\* A headline of this source and time is there already, or FinBERT scores it.
Check(w) ==
  /\ poll[w].pc = "check"
  /\ IF poll[w].items = <<>> THEN NextSymbol(w)
     ELSE IF Saved(Head(poll[w].left), Head(poll[w].items))
          THEN poll' = [poll EXCEPT ![w].items = Tail(@)]
          ELSE poll' = [poll EXCEPT ![w].pc = "create"]
  /\ UNCHANGED <<news, now, polls, stops>>

Create(w) ==
  LET entry == Entry(w)
  IN /\ poll[w].pc = "create"
     /\ news' = Append(news, [symbol |-> Head(poll[w].left), headline |-> entry.headline,
                              source |-> entry.source, published |-> entry.published,
                              score |-> Score[entry.headline],
                              confidence |-> Confidence[entry.headline], impact |-> Unanalysed])
     /\ poll' = [poll EXCEPT ![w].pc = "analyse", ![w].row = Len(news) + 1]
     /\ UNCHANGED <<now, polls, stops>>

Analyse(w) ==
  LET row == poll[w].row
  IN /\ poll[w].pc = "analyse"
     /\ news' = [news EXCEPT ![row].impact = Analysis(news[row].headline, news[row].score)]
     /\ poll' = [poll EXCEPT ![w].pc = "check", ![w].items = Tail(@), ![w].row = 0]
     /\ UNCHANGED <<now, polls, stops>>

\* FinBERT or the analysis raises: the rest of the symbol's headlines waits for
\* the next poll.
Fail(w) ==
  /\ poll[w].pc \in {"create", "analyse"} /\ stops < MaxStops
  /\ NextSymbol(w)
  /\ stops' = stops + 1
  /\ UNCHANGED <<news, now, polls>>

Die(w) ==
  /\ poll[w].pc # "idle" /\ stops < MaxStops
  /\ poll' = [poll EXCEPT ![w] = Idle]
  /\ stops' = stops + 1
  /\ UNCHANGED <<news, now, polls>>

Hour ==
  /\ now < MaxHours
  /\ now' = now + 1
  /\ UNCHANGED <<news, poll, polls, stops>>

Poll(w) == Start(w) \/ Fetch(w) \/ Check(w) \/ Create(w) \/ Analyse(w) \/ Fail(w) \/ Die(w)

Next == Hour \/ \E w \in Workers : Poll(w)

Spec == Init /\ [][Next]_vars

-----------------------------------------------------------------------------
(* What the engines read *)

Strong == 50     \* CONTRADICTORY_HEADLINE_THRESHOLD
Sure == 60       \* MIN_CONFIDENCE_TO_COUNT

OfIndex(symbol) == {symbol \o "_UP", symbol \o "_DOWN"}

Counted(rows, symbol, time) ==
  {i \in DOMAIN rows :
     /\ rows[i].symbol = symbol /\ rows[i].published >= time - Window
     /\ rows[i].confidence >= Sure /\ rows[i].impact.index \in OfIndex(symbol)}

\* From 1 for a headline of this hour down to a tenth, in units of 1 / (10 * Window).
Weight(row, time) ==
  LET left == 10 * (Window - (time - row.published))
  IN IF left < Window THEN Window ELSE left

\* The average is sum / total.
Aggregate(rows, symbol, time) ==
  LET used == Counted(rows, symbol, time)
      indices == SetToSeq(used)
  IN [sum |-> FoldSeq(LAMBDA i, s : s + rows[i].score * Weight(rows[i], time), 0, indices),
      total |-> FoldSeq(LAMBDA i, s : s + Weight(rows[i], time), 0, indices),
      contradicted |-> \E i \in used : rows[i].score <= -Strong,
      supported |-> \E i \in used : rows[i].score >= Strong,
      count |-> Cardinality(used)]

-----------------------------------------------------------------------------
(* Properties *)

Opposite == [unknown |-> "unknown", none |-> "none", NIFTY_UP |-> "NIFTY_DOWN", NIFTY_DOWN |-> "NIFTY_UP",
             BANKNIFTY_UP |-> "BANKNIFTY_DOWN", BANKNIFTY_DOWN |-> "BANKNIFTY_UP"]

\* The types of the rows (apps/news/models.py) and of what the workers hold.
TypeOK ==
  /\ \A i \in DOMAIN news :
       /\ news[i].symbol \in Range(Watchlist) /\ news[i].headline \in DOMAIN Score
       /\ news[i].score \in -100..100 /\ news[i].confidence \in 0..100
       /\ news[i].impact.index \in DOMAIN Opposite
       /\ news[i].impact.relevance \in {"unknown", "none", "direct", "sector", "macro"}
  /\ \A w \in Workers :
       /\ poll[w].pc \in {"idle", "fetch", "check", "create", "analyse"}
       /\ poll[w].pc = "analyse" => poll[w].row \in DOMAIN news
  /\ now \in 0..MaxHours /\ polls \in 0..MaxPolls /\ stops \in 0..MaxStops

Copies(i) ==
  {j \in DOMAIN news : /\ news[j].symbol = news[i].symbol /\ news[j].source = news[i].source
                       /\ news[j].published = news[i].published}

\* One article of a source has one row for each worker at most, so a single
\* worker never scores it twice: how often an article counts in the aggregate
\* does not grow with the polls that return it (_poll_symbol).
CopiesAreBounded == \A i \in DOMAIN news : Cardinality(Copies(i)) <= Cardinality(Workers)

\* Every row is analysed but those whose poll is about to, or was stopped.
RowsAreAnalysed ==
  Cardinality({i \in DOMAIN news : news[i].impact = Unanalysed})
    <= stops + Cardinality({w \in Workers : poll[w].pc = "analyse"})

\* News that says the opposite has the opposite effect: the analysis, the
\* average and which side the aggregate vetoes (aggregate_sentiment's two flags).
NewsIsMirrored(rows, time) ==
  LET opposite == [i \in DOMAIN rows |->
                     [rows[i] EXCEPT !.score = -@, !.impact = Analysis(rows[i].headline, -rows[i].score)]]
  IN \A symbol \in Range(Watchlist) :
       LET a == Aggregate(rows, symbol, time)
           b == Aggregate(opposite, symbol, time)
       IN /\ b = [a EXCEPT !.sum = -@, !.contradicted = a.supported, !.supported = a.contradicted]
          /\ \A i \in DOMAIN rows : opposite[i].impact.index = Opposite[rows[i].impact.index]

\* The average lies between the extremes that are counted, and a veto comes
\* from a headline whose own analysis says that this index falls.
AggregateIsFair(rows, time) ==
  \A symbol \in Range(Watchlist) :
    LET a == Aggregate(rows, symbol, time)
        used == Counted(rows, symbol, time)
    IN /\ used # {} => \E i, j \in used : rows[i].score * a.total <= a.sum /\ a.sum <= rows[j].score * a.total
       /\ a.contradicted => \E i \in used : rows[i].impact.index = symbol \o "_DOWN"

\* A page of headlines: the newest of the fresh entries, none of them twice.
PageIsTheNewest(raw, time) ==
  LET page == Fetched(raw, time)
      kept == {page[k] : k \in DOMAIN page}
  IN /\ \A j, k \in DOMAIN page : j < k => /\ page[j].published >= page[k].published
                                           /\ Fingerprint(page[j]) # Fingerprint(page[k])
     /\ \A i \in Fresh(raw, time) :
          raw[i] \in kept \/ (Len(page) = PageSize /\ \A e \in kept : e.published >= raw[i].published)
===============================================================================
