---------------------------- MODULE TickPipeline ----------------------------
(***************************************************************************)
(* A tick from the socket callback to the candle table                     *)
(* (apps/market_data/tick_coalescer and tick_aggregator,                   *)
(* apps/options/live_feed and candle_aggregator): the mailbox keeps the    *)
(* newest message of every token, worker threads take tokens from it, and  *)
(* each tick is shown, folded into the running candle under a lock and     *)
(* published and stored outside it.                                        *)
(*                                                                         *)
(* Ticks of a token are numbered in their order of arrival; PriceOf gives  *)
(* their prices.  Bucket boundaries are the clock's, when the tick is      *)
(* handled.  The throttles' clocks are a choice.                           *)
(***************************************************************************)
EXTENDS Naturals, Sequences, FiniteSets, SequencesExt

CONSTANTS
  Tokens,
  Workers,      \* threads of one coalescer
  PriceOf,      \* PriceOf[n]: the price of the n-th tick of a token
  MaxBuckets    \* bound: candles opened

Ticks == DOMAIN PriceOf

PipelineAssumption == PriceOf \in Seq(Nat) /\ MaxBuckets \in Nat \ {0}

VARIABLES
  sent,        \* sent[t]: ticks the broker has sent
  pending,     \* _pending: the message waiting for a token, 0 if none
  order,       \* _order: tokens in turn
  counts,      \* TickStats: received, coalesced, processed
  worker,      \* the thread's token, tick and step, and the candles it must store
  shown,       \* shown[t]: ticks broadcast so far, in order
  bucket,      \* the clock's candle period
  candle,      \* candle[t]: the running candle in memory
  stored,      \* stored[t][b]: the row of period b
  handled,     \* history: ticks folded into the candle of each period
  refused      \* history: the last store of the row failed

vars == <<sent, pending, order, counts, worker, shown, bucket, candle, stored, handled, refused>>

NoCandle == [bucket |-> 0, open |-> 0, high |-> 0, low |-> 0, close |-> 0]
Free == [pc |-> "idle", token |-> "none", tick |-> 0, at |-> 0, rows |-> <<>>]
Buckets == 1 .. MaxBuckets

Init ==
  /\ sent = [t \in Tokens |-> 0] /\ pending = [t \in Tokens |-> 0] /\ order = <<>>
  /\ counts = [received |-> 0, coalesced |-> 0, processed |-> 0]
  /\ worker = [w \in Workers |-> Free]
  /\ shown = [t \in Tokens |-> <<>>]
  /\ bucket = 1 /\ candle = [t \in Tokens |-> NoCandle]
  /\ stored = [t \in Tokens |-> [b \in Buckets |-> NoCandle]]
  /\ handled = [t \in Tokens |-> [b \in Buckets |-> <<>>]]
  /\ refused = [t \in Tokens |-> {}]

PutKeepsOldest(t) ==
  /\ sent[t] < Len(PriceOf)
  /\ sent' = [sent EXCEPT ![t] = @ + 1]
  /\ pending' = [pending EXCEPT ![t] = IF @ = 0 THEN sent[t] + 1 ELSE @]
  /\ order' = IF pending[t] = 0 THEN Append(order, t) ELSE order
  /\ counts' = [counts EXCEPT !.received = @ + 1,
                              !.coalesced = IF pending[t] = 0 THEN @ ELSE @ + 1]
  /\ UNCHANGED <<worker, shown, bucket, candle, stored, handled, refused>>

\* TickCoalescer.put, from the socket's callback.
Put(t) ==
  /\ sent[t] < Len(PriceOf)
  /\ sent' = [sent EXCEPT ![t] = @ + 1]
  /\ pending' = [pending EXCEPT ![t] = sent[t] + 1]
  /\ order' = IF pending[t] = 0 THEN Append(order, t) ELSE order
  /\ counts' = [counts EXCEPT !.received = @ + 1,
                              !.coalesced = IF pending[t] = 0 THEN @ ELSE @ + 1]
  /\ UNCHANGED <<worker, shown, bucket, candle, stored, handled, refused>>

\* TickCoalescer.get.
Take(w) ==
  /\ worker[w].pc = "idle" /\ order # <<>>
  /\ LET t == Head(order)
     IN /\ worker' = [worker EXCEPT ![w] = [Free EXCEPT !.pc = "show", !.token = t, !.tick = pending[t]]]
        /\ pending' = [pending EXCEPT ![t] = 0]
  /\ order' = Tail(order)
  /\ UNCHANGED <<sent, counts, shown, bucket, candle, stored, handled, refused>>

\* _broadcast_fast_ltp, before anything slow; the clock is read for the candle.
Show(w) ==
  LET t == worker[w].token
  IN /\ worker[w].pc = "show"
     /\ shown' = [shown EXCEPT ![t] = Append(@, worker[w].tick)]
     /\ worker' = [worker EXCEPT ![w].pc = "fold", ![w].at = bucket]
     /\ UNCHANGED <<sent, pending, order, counts, bucket, candle, stored, handled, refused>>

Larger(a, b) == IF a >= b THEN a ELSE b
Smaller(a, b) == IF a <= b THEN a ELSE b

Opening(b, p) == [bucket |-> b, open |-> p, high |-> p, low |-> p, close |-> p]

Folded(c, p) == [c EXCEPT !.high = Larger(@, p), !.low = Smaller(@, p), !.close = p]

FoldThrottled(w, due) ==
  LET t == worker[w].token
      b == worker[w].at
      p == PriceOf[worker[w].tick]
      next == IF candle[t].bucket # b THEN Opening(b, p) ELSE Folded(candle[t], p)
  IN /\ worker[w].pc = "fold"
     /\ candle' = [candle EXCEPT ![t] = next]
     /\ handled' = [handled EXCEPT ![t][b] = Append(@, worker[w].tick)]
     /\ worker' = [worker EXCEPT ![w].pc = "store", ![w].rows = IF due THEN <<next>> ELSE <<>>]
     /\ UNCHANGED <<sent, pending, order, counts, shown, bucket, stored, refused>>

\* _update_timeframe under its lock: another period than the candle's closes it,
\* and its copy is stored as well; within a period the throttle may skip the store.
Fold(w, due) ==
  LET t == worker[w].token
      p == PriceOf[worker[w].tick]
      b == worker[w].at
      fresh == candle[t].bucket # b
      next == IF fresh THEN Opening(b, p) ELSE Folded(candle[t], p)
      closed == IF fresh /\ candle[t] # NoCandle THEN <<candle[t]>> ELSE <<>>
  IN /\ worker[w].pc = "fold"
     /\ candle' = [candle EXCEPT ![t] = next]
     /\ handled' = [handled EXCEPT ![t][b] = Append(@, worker[w].tick)]
     /\ worker' = [worker EXCEPT ![w].pc = "store",
                     ![w].rows = closed \o (IF fresh \/ due THEN <<next>> ELSE <<>>)]
     /\ UNCHANGED <<sent, pending, order, counts, shown, bucket, stored, refused>>

\* _persist: update_or_create by period, outside the lock; an error is logged.
Store(w, fails) ==
  /\ worker[w].pc = "store" /\ worker[w].rows # <<>>
  /\ LET c == Head(worker[w].rows)
         t == worker[w].token
     IN IF fails THEN refused' = [refused EXCEPT ![t] = @ \union {c.bucket}] /\ UNCHANGED stored
        ELSE /\ stored' = [stored EXCEPT ![t][c.bucket] = c]
             /\ refused' = [refused EXCEPT ![t] = @ \ {c.bucket}]
  /\ worker' = [worker EXCEPT ![w].rows = Tail(@)]
  /\ UNCHANGED <<sent, pending, order, counts, shown, bucket, candle, handled>>

Done(w) ==
  /\ worker[w].pc = "store" /\ worker[w].rows = <<>>
  /\ worker' = [worker EXCEPT ![w] = Free]
  /\ counts' = [counts EXCEPT !.processed = @ + 1]
  /\ UNCHANGED <<sent, pending, order, shown, bucket, candle, stored, handled, refused>>

\* The wall clock enters the next period.
Clock ==
  /\ bucket < MaxBuckets /\ bucket' = bucket + 1
  /\ UNCHANGED <<sent, pending, order, counts, worker, shown, candle, stored, handled, refused>>

Work(w) ==
  \/ Take(w) \/ Show(w) \/ Done(w)
  \/ \E b \in BOOLEAN : Fold(w, b) \/ Store(w, b)

Next == Clock \/ (\E t \in Tokens : Put(t)) \/ (\E w \in Workers : Work(w))

Spec == Init /\ [][Next]_vars

\* The worker threads run.
FairSpec == Spec /\ \A w \in Workers : WF_vars(Work(w))

-----------------------------------------------------------------------------
(* Properties *)

\* The types of mailbox, workers and rows.
TypeOK ==
  /\ order \in Seq(Tokens) /\ bucket \in Buckets
  /\ \A t \in Tokens : pending[t] <= sent[t] /\ sent[t] <= Len(PriceOf)
  /\ \A w \in Workers : worker[w].pc \in {"idle", "show", "fold", "store"}

\* A token waits exactly once exactly when it has a message, so the depth never
\* exceeds the number of tokens, whatever the tick rate (TickCoalescer).
MailboxIsBounded ==
  /\ IsInjective(order)
  /\ ToSet(order) = {t \in Tokens : pending[t] > 0}

\* Every tick is counted once: processed, replaced by a newer one, or on its way
\* (TickStats as the health page reads them).
EveryTickIsCounted ==
  counts.received = counts.processed + counts.coalesced + Len(order)
                      + Cardinality({w \in Workers : worker[w].pc # "idle"})

\* "never processed out of order for the same token" (tick_coalescer.py:148).
SameTokenInOrder ==
  \A t \in Tokens : \A i \in 1 .. Len(shown[t]) - 1 : shown[t][i] < shown[t][i + 1]

\* No tick is processed twice (run_coalescer_workers).
NoTickTwice == \A t \in Tokens : IsInjective(shown[t])

Extremes(c, ticks) ==
  /\ \A n \in ToSet(ticks) : c.low <= PriceOf[n] /\ PriceOf[n] <= c.high
  /\ c.high \in {PriceOf[n] : n \in ToSet(ticks)} /\ c.low \in {PriceOf[n] : n \in ToSet(ticks)}
  /\ c.open = PriceOf[Head(ticks)] /\ c.close = PriceOf[Last(ticks)]

\* The candle in memory is the open, high, low and close of the ticks folded into
\* its period (_update_timeframe); two workers on one token can reopen a period.
CandleIsItsTicks ==
  \A t \in Tokens : candle[t].bucket > 0 => Extremes(candle[t], handled[t][candle[t].bucket])

\* The row of a period that was closed is final, unless its last store failed:
\* no older copy is stored over it (_persist outside the lock).
ClosedRowIsFinal ==
  \A t \in Tokens, b \in Buckets :
    b < candle[t].bucket /\ handled[t][b] # <<>> /\ b \notin refused[t]
      /\ (\A w \in Workers : worker[w].token # t)
      => Extremes(stored[t][b], handled[t][b])

\* The newest price always gets through: a tick is shown, or a later one is.
NewestIsShown ==
  \A t \in Tokens, n \in Ticks : sent[t] >= n ~> \E i \in DOMAIN shown[t] : shown[t][i] >= n
=============================================================================
