-------------------------- MODULE TickPipeline_proofs --------------------------
(***************************************************************************)
(* Theorems of TickPipeline, for any tokens, prices and periods, with      *)
(* machine-checked proofs.  The mailbox, the counters and the single use   *)
(* of every tick hold for any number of threads.  The order of a token's   *)
(* ticks, its candle and its stored rows are those of one thread per       *)
(* mailbox, the least that LIVE_INDEX_TICK_WORKERS and                     *)
(* OPTIONS_LIVE_TICK_WORKERS allow; with two they fail (see SameToken-     *)
(* InOrder), so Workers = {w} is a hypothesis of those theorems.           *)
(***************************************************************************)
EXTENDS TickPipeline, FiniteSetTheorems, SequenceTheorems, TLAPS

-----------------------------------------------------------------------------
(* The inductive invariant *)

Candle == [bucket : 0..MaxBuckets, open : Nat, high : Nat, low : Nat, close : Nat]
Thread ==
  [pc : {"idle", "show", "fold", "store"}, token : Tokens \union {"none"},
   tick : 0..Len(PriceOf), at : 0..MaxBuckets, rows : Seq(Candle)]

\* A thread with work has a token, a tick that was sent and, once it has read the
\* clock, a period.
Sound(u) ==
  /\ u.pc # "idle" => u.token \in Tokens /\ u.tick \in 1..sent[u.token]
  /\ u.pc \in {"fold", "store"} => u.at \in Buckets
  /\ \A i \in DOMAIN u.rows : u.rows[i].bucket \in Buckets

Types ==
  /\ sent \in [Tokens -> 0..Len(PriceOf)] /\ pending \in [Tokens -> 0..Len(PriceOf)]
  /\ \A t \in Tokens : pending[t] \in {0, sent[t]}
  /\ order \in Seq(Tokens)
  /\ counts \in [received : Nat, coalesced : Nat, processed : Nat]
  /\ worker \in [Workers -> Thread] /\ \A w \in Workers : Sound(worker[w])
  /\ shown \in [Tokens -> Seq(Ticks)] /\ bucket \in Buckets
  /\ candle \in [Tokens -> Candle]
  /\ \A t \in Tokens : candle[t].bucket = 0 => candle[t] = NoCandle
  /\ stored \in [Tokens -> [Buckets -> Candle]]
  /\ handled \in [Tokens -> [Buckets -> Seq(Ticks)]]
  /\ refused \in [Tokens -> SUBSET Buckets]

\* The message that waits is later than all that left.
Before(t, n) == n <= sent[t] /\ (pending[t] > 0 => n < pending[t])
Shows(w, t) == worker[w].pc = "show" /\ worker[w].token = t
Newest == \A t \in Tokens : \A i \in DOMAIN shown[t] : Before(t, shown[t][i])
Held ==
  /\ \A w \in Workers, t \in Tokens :
       Shows(w, t) => /\ Before(t, worker[w].tick)
                      /\ \A i \in DOMAIN shown[t] : shown[t][i] # worker[w].tick
  /\ \A v, w \in Workers, t \in Tokens :
       Shows(v, t) /\ Shows(w, t) /\ worker[v].tick = worker[w].tick => v = w
TicksInv == Newest /\ Held /\ NoTickTwice

Busy == {w \in Workers : worker[w].pc # "idle"}
CountsInv == IsFiniteSet(Busy) /\ EveryTickIsCounted

\* What one thread adds: it shows the ticks of a token in turn ...
OrderInv ==
  /\ SameTokenInOrder
  /\ \A w \in Workers, t \in Tokens :
       Shows(w, t) => \A i \in DOMAIN shown[t] : shown[t][i] < worker[w].tick

\* ... folds into the newest period only ...
Timely ==
  /\ \A t \in Tokens : candle[t].bucket <= bucket
  /\ \A t \in Tokens, b \in Buckets : b > candle[t].bucket => handled[t][b] = <<>>
  /\ \A w \in Workers :
       worker[w].pc = "fold" => /\ candle[worker[w].token].bucket <= worker[w].at
                                /\ worker[w].at <= bucket

\* ... and stores what a period came to before it takes the next token.
RowsAreTrue ==
  \A w \in Workers : worker[w].pc = "store" =>
    \A i \in DOMAIN worker[w].rows :
      LET c == worker[w].rows[i]
      IN  c.bucket <= candle[worker[w].token].bucket
          /\ Extremes(c, handled[worker[w].token][c.bucket])
Due(t, b) ==
  \E w \in Workers : /\ worker[w].pc = "store" /\ worker[w].token = t
                     /\ \E i \in DOMAIN worker[w].rows : worker[w].rows[i].bucket = b
ClosedIsStored ==
  \A t \in Tokens, b \in Buckets :
    b < candle[t].bucket /\ handled[t][b] # <<>> /\ b \notin refused[t]
      => Extremes(stored[t][b], handled[t][b]) \/ Due(t, b)
CandlesInv == Timely /\ CandleIsItsTicks /\ RowsAreTrue /\ ClosedIsStored

-----------------------------------------------------------------------------
(* Sequences *)

LEMMA AppendedSeq ==
  ASSUME NEW S, NEW s \in Seq(S), NEW x \in S
  PROVE  /\ Append(s, x) \in Seq(S) /\ Len(Append(s, x)) = Len(s) + 1
         /\ DOMAIN Append(s, x) = 1..(Len(s) + 1)
         /\ \A i \in 1..Len(s) : Append(s, x)[i] = s[i]
         /\ Append(s, x)[Len(s) + 1] = x
OBVIOUS

LEMMA AppendedSet ==
  ASSUME NEW S, NEW s \in Seq(S), NEW x \in S
  PROVE  ToSet(Append(s, x)) = ToSet(s) \union {x}
<1> DEFINE a == Append(s, x)
<1>1. DOMAIN s = 1..Len(s) /\ Len(s) \in Nat
  OBVIOUS
<1>2. /\ DOMAIN a = 1..(Len(s) + 1)
      /\ \A i \in 1..Len(s) : a[i] = s[i]
      /\ a[Len(s) + 1] = x
  BY AppendedSeq
<1> HIDE DEF a
<1>3. ASSUME NEW y \in ToSet(a) PROVE y \in ToSet(s) \union {x}
  <2>1. PICK i \in 1..(Len(s) + 1) : y = a[i]
    BY <1>2 DEF ToSet
  <2>2. CASE i = Len(s) + 1
    BY <2>1, <2>2, <1>2
  <2>3. CASE i \in 1..Len(s)
    BY <2>1, <2>3, <1>1, <1>2 DEF ToSet
  <2> QED
    BY <2>2, <2>3, <1>1
<1>4. ASSUME NEW y \in ToSet(s) PROVE y \in ToSet(a)
  <2>1. PICK i \in 1..Len(s) : y = s[i]
    BY <1>1 DEF ToSet
  <2>2. i \in DOMAIN a /\ a[i] = y
    BY <2>1, <1>1, <1>2
  <2> QED
    BY <2>2 DEF ToSet
<1>5. x \in ToSet(a)
  <2>1. Len(s) + 1 \in DOMAIN a
    BY <1>1, <1>2
  <2> QED
    BY <2>1, <1>2 DEF ToSet
<1>6. ToSet(a) = ToSet(s) \union {x}
  BY <1>3, <1>4, <1>5
<1> QED
  BY <1>6 DEF a

LEMMA AppendedInjective ==
  ASSUME NEW S, NEW s \in Seq(S), NEW x \in S, IsInjective(s),
         \A i \in DOMAIN s : s[i] # x
  PROVE  IsInjective(Append(s, x))
<1> DEFINE a == Append(s, x)
<1>1. DOMAIN s = 1..Len(s) /\ Len(s) \in Nat
  OBVIOUS
<1>2. /\ DOMAIN a = 1..(Len(s) + 1)
      /\ \A i \in 1..Len(s) : a[i] = s[i]
      /\ a[Len(s) + 1] = x
  BY AppendedSeq
<1> HIDE DEF a
<1>3. ASSUME NEW i \in DOMAIN a, NEW j \in DOMAIN a, a[i] = a[j] PROVE i = j
  <2>1. CASE i \in 1..Len(s) /\ j \in 1..Len(s)
    BY <2>1, <1>1, <1>2, <1>3 DEF IsInjective
  <2>2. CASE i = Len(s) + 1
    BY <2>2, <1>1, <1>2, <1>3
  <2>3. CASE j = Len(s) + 1
    BY <2>3, <1>1, <1>2, <1>3
  <2> QED
    BY <2>1, <2>2, <2>3, <1>1, <1>2
<1>4. IsInjective(a)
  BY <1>3 DEF IsInjective
<1> QED
  BY <1>4 DEF a

\* What is left of a queue without repetitions has not its head.
LEMMA DequeuedTail ==
  ASSUME NEW S, NEW s \in Seq(S), s # <<>>
  PROVE  /\ Head(s) \in S /\ Head(s) = s[1] /\ Tail(s) \in Seq(S)
         /\ 1 \in DOMAIN s /\ DOMAIN s = 1..Len(s) /\ Len(s) \in Nat
         /\ Len(Tail(s)) = Len(s) - 1 /\ DOMAIN Tail(s) = 1..(Len(s) - 1)
         /\ \A i \in 1..(Len(s) - 1) : Tail(s)[i] = s[i + 1]
OBVIOUS

LEMMA DequeuedSet ==
  ASSUME NEW S, NEW s \in Seq(S), s # <<>>, IsInjective(s)
  PROVE  IsInjective(Tail(s)) /\ ToSet(Tail(s)) = ToSet(s) \ {Head(s)}
<1> DEFINE r == Tail(s)
           n == Len(s)
           h == Head(s)
<1>1. /\ h = s[1] /\ 1 \in DOMAIN s /\ DOMAIN s = 1..n /\ n \in Nat
      /\ DOMAIN r = 1..(n - 1) /\ \A i \in 1..(n - 1) : r[i] = s[i + 1]
  BY DequeuedTail
<1> HIDE DEF r, n, h
<1>2. ASSUME NEW i \in DOMAIN r, NEW j \in DOMAIN r, r[i] = r[j] PROVE i = j
  <2>1. i + 1 \in DOMAIN s /\ j + 1 \in DOMAIN s /\ s[i + 1] = s[j + 1]
    BY <1>1, <1>2
  <2>2. i + 1 = j + 1
    BY <2>1 DEF IsInjective
  <2> QED
    BY <2>2, <1>1
<1>3. ASSUME NEW y \in ToSet(r) PROVE y \in ToSet(s) /\ y # h
  <2>1. PICK i \in 1..(n - 1) : y = r[i]
    BY <1>1 DEF ToSet
  <2>2. i + 1 \in DOMAIN s /\ y = s[i + 1] /\ i + 1 # 1
    BY <2>1, <1>1
  <2> QED
    BY <2>2, <1>1 DEF ToSet, IsInjective
<1>4. ASSUME NEW y \in ToSet(s), y # h PROVE y \in ToSet(r)
  <2>1. PICK i \in 1..n : y = s[i]
    BY <1>1 DEF ToSet
  <2>2. i # 1
    BY <2>1, <1>1, <1>4
  <2>3. i - 1 \in DOMAIN r /\ y = r[i - 1]
    BY <2>1, <2>2, <1>1
  <2> QED
    BY <2>3 DEF ToSet
<1>5. IsInjective(r) /\ ToSet(r) = ToSet(s) \ {h}
  BY <1>2, <1>3, <1>4 DEF IsInjective
<1> QED
  BY <1>5 DEF r, h

-----------------------------------------------------------------------------
(* Prices and candles *)

LEMMA TickPrices ==
  ASSUME PipelineAssumption
  PROVE  /\ Len(PriceOf) \in Nat /\ Ticks = 1..Len(PriceOf) /\ 0 \notin Ticks
         /\ \A n \in Ticks : PriceOf[n] \in Nat
BY DEF PipelineAssumption, Ticks

LEMMA CandleParts ==
  ASSUME PipelineAssumption
  PROVE  /\ NoCandle \in Candle
         /\ \A b \in Buckets, p \in Nat :
              Opening(b, p) \in Candle /\ Opening(b, p).bucket = b
         /\ \A c \in Candle, p \in Nat :
              Folded(c, p) \in Candle /\ Folded(c, p).bucket = c.bucket
<1>1. /\ NoCandle \in Candle
      /\ \A b \in Buckets, p \in Nat :
           Opening(b, p) \in Candle /\ Opening(b, p).bucket = b
  BY DEF PipelineAssumption, NoCandle, Candle, Opening, Buckets
<1>2. ASSUME NEW c \in Candle, NEW p \in Nat
      PROVE  Folded(c, p) \in Candle /\ Folded(c, p).bucket = c.bucket
  <2>1. Larger(c.high, p) \in Nat /\ Smaller(c.low, p) \in Nat
    BY DEF Candle, Larger, Smaller
  <2> QED
    BY <2>1 DEF Candle, Folded
<1> QED
  BY <1>1, <1>2

\* The first tick of a period makes its candle.
LEMMA OpeningIsItsTick ==
  ASSUME PipelineAssumption, NEW b \in Buckets, NEW n \in Ticks
  PROVE  Extremes(Opening(b, PriceOf[n]), Append(<<>>, n))
<1> DEFINE s == Append(<<>>, n)
<1>1. PriceOf[n] \in Nat
  BY TickPrices
<1>2. s = <<n>> /\ Head(s) = n /\ Last(s) = n
  BY DEF Last
<1>3. ToSet(s) = {n}
  BY <1>2 DEF ToSet
<1> HIDE DEF s
<1>4. Extremes(Opening(b, PriceOf[n]), s)
  BY <1>1, <1>2, <1>3 DEF Extremes, Opening
<1> QED
  BY <1>4 DEF s

\* Folding a tick in keeps the candle the summary of its ticks.
LEMMA FoldedIsItsTicks ==
  ASSUME PipelineAssumption, NEW c \in Candle, NEW s \in Seq(Ticks), s # <<>>,
         NEW n \in Ticks, Extremes(c, s)
  PROVE  Extremes(Folded(c, PriceOf[n]), Append(s, n))
<1> DEFINE a == Append(s, n)
           p == PriceOf[n]
           f == Folded(c, p)
           Price(k) == PriceOf[k]
<1>1. \A k \in Ticks : PriceOf[k] \in Nat
  BY TickPrices
<1>2. c.high \in Nat /\ c.low \in Nat /\ p \in Nat
  BY <1>1 DEF Candle
<1>3. /\ f.high = Larger(c.high, p) /\ f.low = Smaller(c.low, p)
      /\ f.open = c.open /\ f.close = p
  BY DEF Folded, Candle
<1>4. ToSet(a) = ToSet(s) \union {n}
  BY AppendedSet
<1>5. Head(a) = Head(s) /\ Last(a) = n
  <2>1. a[1] = s[1] /\ a[Len(a)] = n
    OBVIOUS
  <2> QED
    BY <2>1 DEF Last
<1>6. ToSet(s) \subseteq Ticks
  BY DEF ToSet
<1> HIDE DEF a, f
<1>7. \A k \in ToSet(a) : f.low <= PriceOf[k] /\ PriceOf[k] <= f.high
  <2> SUFFICES ASSUME NEW k \in ToSet(a) PROVE f.low <= PriceOf[k] /\ PriceOf[k] <= f.high
    OBVIOUS
  <2>1. CASE k = n
    BY <2>1, <1>2, <1>3 DEF Larger, Smaller
  <2>2. CASE k \in ToSet(s)
    <3>1. c.low <= PriceOf[k] /\ PriceOf[k] <= c.high /\ PriceOf[k] \in Nat
      BY <2>2, <1>1, <1>6 DEF Extremes
    <3> QED
      BY <3>1, <1>2, <1>3 DEF Larger, Smaller
  <2> QED
    BY <2>1, <2>2, <1>4
<1>8. f.high \in {PriceOf[k] : k \in ToSet(a)} /\ f.low \in {PriceOf[k] : k \in ToSet(a)}
  <2>1. p \in {PriceOf[k] : k \in ToSet(a)}
    BY <1>4
  <2>2. {PriceOf[k] : k \in ToSet(s)} \subseteq {PriceOf[k] : k \in ToSet(a)}
    BY <1>4
  <2>3. c.high \in {PriceOf[k] : k \in ToSet(s)} /\ c.low \in {PriceOf[k] : k \in ToSet(s)}
    BY DEF Extremes
  <2> QED
    BY <2>1, <2>2, <2>3, <1>3 DEF Larger, Smaller
<1>9. f.open = PriceOf[Head(a)] /\ f.close = PriceOf[Last(a)]
  BY <1>3, <1>5 DEF Extremes
<1>10. Extremes(f, a)
  BY <1>7, <1>8, <1>9 DEF Extremes
<1> QED
  BY <1>10 DEF f, a

-----------------------------------------------------------------------------
(* Types *)

LEMMA TypesInit ==
  ASSUME PipelineAssumption, Init
  PROVE  Types
<1>1. Len(PriceOf) \in Nat /\ MaxBuckets \in Nat \ {0}
  BY TickPrices DEF PipelineAssumption
<1>2. NoCandle \in Candle
  BY CandleParts
<1>3. Free \in Thread /\ Sound(Free)
  <2>1. <<>> \in Seq(Candle) /\ DOMAIN <<>> = {}
    OBVIOUS
  <2> QED
    BY <2>1, <1>1 DEF Free, Thread, Sound
<1>4. /\ sent \in [Tokens -> 0..Len(PriceOf)] /\ pending \in [Tokens -> 0..Len(PriceOf)]
      /\ \A t \in Tokens : pending[t] \in {0, sent[t]}
      /\ order \in Seq(Tokens)
      /\ counts \in [received : Nat, coalesced : Nat, processed : Nat]
  BY <1>1 DEF Init
<1>5. worker \in [Workers -> Thread] /\ \A w \in Workers : Sound(worker[w])
  BY <1>3 DEF Init
<1>6. shown \in [Tokens -> Seq(Ticks)] /\ bucket \in Buckets
  BY <1>1 DEF Init, Buckets
<1>7. /\ candle \in [Tokens -> Candle]
      /\ \A t \in Tokens : candle[t].bucket = 0 => candle[t] = NoCandle
  BY <1>2 DEF Init
<1>8. stored \in [Tokens -> [Buckets -> Candle]]
  BY <1>2 DEF Init
<1>9. handled \in [Tokens -> [Buckets -> Seq(Ticks)]]
  BY DEF Init
<1>10. refused \in [Tokens -> SUBSET Buckets]
  BY DEF Init
<1> QED
  BY <1>4, <1>5, <1>6, <1>7, <1>8, <1>9, <1>10 DEF Types

\* A step that changes at most one thread and the ticks that were sent.
LEMMA ThreadsStay ==
  ASSUME PipelineAssumption, Types, NEW w \in Workers, NEW u, u \in Thread,
         Sound(u), worker' = [worker EXCEPT ![w] = u], sent' = sent
  PROVE  worker' \in [Workers -> Thread] /\ \A v \in Workers : Sound(worker[v])'
<1>1. worker \in [Workers -> Thread] /\ \A v \in Workers : Sound(worker[v])
  BY DEF Types
<1>2. worker' \in [Workers -> Thread]
  BY <1>1
<1>3. ASSUME NEW v \in Workers PROVE Sound(worker[v])'
  <2>1. CASE v = w
    <3>1. worker'[v] = u
      BY <2>1, <1>1
    <3> QED
      BY <3>1 DEF Sound
  <2>2. CASE v # w
    <3>1. worker'[v] = worker[v]
      BY <2>2, <1>1
    <3> QED
      BY <3>1, <1>1 DEF Sound
  <2> QED
    BY <2>1, <2>2
<1> QED
  BY <1>2, <1>3

LEMMA TypesPut ==
  ASSUME PipelineAssumption, Types, NEW t \in Tokens, Put(t)
  PROVE  Types'
<1>1. Len(PriceOf) \in Nat
  BY TickPrices
<1>2. sent[t] \in 0..Len(PriceOf) /\ sent[t] < Len(PriceOf)
  BY DEF Types, Put
<1>3. /\ sent' \in [Tokens -> 0..Len(PriceOf)] /\ pending' \in [Tokens -> 0..Len(PriceOf)]
      /\ \A s \in Tokens : pending'[s] \in {0, sent'[s]}
  BY <1>1, <1>2 DEF Types, Put
<1>4. order' \in Seq(Tokens)
  BY DEF Types, Put
<1>5. counts' \in [received : Nat, coalesced : Nat, processed : Nat]
  <2>1. /\ counts.received + 1 \in Nat
        /\ (IF pending[t] = 0 THEN counts.coalesced ELSE counts.coalesced + 1) \in Nat
    BY DEF Types
  <2> QED
    BY <2>1 DEF Types, Put
<1>6. worker' \in [Workers -> Thread]
  BY DEF Types, Put
<1>7. ASSUME NEW w \in Workers PROVE Sound(worker[w])'
  <2>1. \A s \in Tokens : sent[s] \in Nat /\ sent'[s] \in Nat /\ sent[s] <= sent'[s]
    BY <1>1, <1>2 DEF Types, Put
  <2>2. Sound(worker[w]) /\ worker'[w] = worker[w]
    BY DEF Types, Put
  <2> QED
    BY <2>1, <2>2 DEF Sound
<1> QED
  BY <1>3, <1>4, <1>5, <1>6, <1>7 DEF Types, Put

LEMMA TypesTake ==
  ASSUME PipelineAssumption, Types, NEW w \in Workers, Take(w), MailboxIsBounded
  PROVE  Types'
<1> DEFINE t == Head(order)
           u == [Free EXCEPT !.pc = "show", !.token = t, !.tick = pending[t]]
<1>1. Len(PriceOf) \in Nat
  BY TickPrices
<1>2. t \in Tokens /\ Tail(order) \in Seq(Tokens) /\ t \in ToSet(order)
  BY DequeuedTail DEF Types, Take, ToSet
<1>3. pending[t] \in 1..Len(PriceOf) /\ pending[t] <= sent[t] /\ sent[t] \in Nat
  <2>1. pending[t] > 0
    BY <1>2 DEF MailboxIsBounded
  <2>2. /\ pending[t] \in 0..Len(PriceOf) /\ sent[t] \in 0..Len(PriceOf)
        /\ pending[t] \in {0, sent[t]}
    BY <1>2 DEF Types
  <2> HIDE DEF t
  <2> QED
    BY <2>1, <2>2, <1>1
<1>4. u \in Thread /\ Sound(u)
  <2>1. Free \in Thread
    <3>1. <<>> \in Seq(Candle)
      OBVIOUS
    <3> QED
      BY <3>1, <1>1 DEF Free, Thread, PipelineAssumption
  <2>2. /\ u.pc = "show" /\ u.token = t /\ u.tick = pending[t] /\ u.rows = <<>>
        /\ u \in Thread
    <3>1. pending[t] \in 0..Len(PriceOf) /\ t \in Tokens
      BY <1>1, <1>2, <1>3
    <3> HIDE DEF t
    <3> QED
      BY <3>1, <2>1 DEF Free, Thread
  <2> HIDE DEF u, t
  <2>3. Sound(u)
    BY <2>2, <1>2, <1>3 DEF Sound
  <2> QED
    BY <2>2, <2>3
<1>5. worker' = [worker EXCEPT ![w] = u] /\ sent' = sent
  BY DEF Take
<1>6. /\ pending' \in [Tokens -> 0..Len(PriceOf)]
      /\ \A s \in Tokens : pending'[s] \in {0, sent'[s]}
  BY <1>1, <1>2 DEF Types, Take
<1> HIDE DEF u
<1>7. worker' \in [Workers -> Thread] /\ \A v \in Workers : Sound(worker[v])'
  BY <1>4, <1>5, ThreadsStay
<1> QED
  BY <1>2, <1>6, <1>7 DEF Types, Take

LEMMA TypesShow ==
  ASSUME PipelineAssumption, Types, NEW w \in Workers, Show(w)
  PROVE  Types'
<1> DEFINE t == worker[w].token
           n == worker[w].tick
           u == [worker[w] EXCEPT !.pc = "fold", !.at = bucket]
<1>1. worker[w] \in Thread /\ Sound(worker[w]) /\ worker[w].pc = "show"
  BY DEF Types, Show
<1>2. t \in Tokens /\ n \in 1..sent[t] /\ sent[t] \in 0..Len(PriceOf)
  BY <1>1 DEF Sound, Types
<1>3. n \in Ticks
  BY <1>2, TickPrices
<1>4. u \in Thread /\ Sound(u)
  <2>1. bucket \in Buckets /\ bucket \in 0..MaxBuckets
    BY DEF Types, Buckets, PipelineAssumption
  <2>2. /\ u.pc = "fold" /\ u.token = t /\ u.tick = n /\ u.at = bucket
        /\ u.rows = worker[w].rows /\ u \in Thread
    BY <2>1, <1>1 DEF Thread
  <2> HIDE DEF u
  <2> QED
    BY <2>1, <2>2, <1>1, <1>2 DEF Sound
<1>5. worker' = [worker EXCEPT ![w] = u] /\ sent' = sent
  BY DEF Show
<1>6. shown' \in [Tokens -> Seq(Ticks)]
  <2>1. Append(shown[t], n) \in Seq(Ticks)
    BY <1>2, <1>3 DEF Types
  <2>2. shown' = [shown EXCEPT ![t] = Append(shown[t], n)]
    BY DEF Show
  <2> QED
    BY <2>1, <2>2, <1>2 DEF Types
<1> HIDE DEF u
<1>7. worker' \in [Workers -> Thread] /\ \A v \in Workers : Sound(worker[v])'
  BY <1>4, <1>5, ThreadsStay
<1> QED
  BY <1>6, <1>7 DEF Types, Show

\* What a fold stores: the copy of the period it closed, if any, then its own.
FoldedCandle(w) ==
  LET c == candle[worker[w].token]
      p == PriceOf[worker[w].tick]
  IN  IF c.bucket # worker[w].at THEN Opening(worker[w].at, p) ELSE Folded(c, p)
ClosedRow(w) ==
  LET c == candle[worker[w].token]
  IN  IF c.bucket # worker[w].at /\ c # NoCandle THEN <<c>> ELSE <<>>
OwnRow(w, due) ==
  IF candle[worker[w].token].bucket # worker[w].at \/ due THEN <<FoldedCandle(w)>> ELSE <<>>
FoldedRows(w, due) == ClosedRow(w) \o OwnRow(w, due)

LEMMA TwoRows ==
  ASSUME NEW old, NEW new
  PROVE  <<old>> \o <<new>> = <<old, new>>
<1>1. /\ <<old>> \in Seq({old, new}) /\ <<new>> \in Seq({old, new})
      /\ <<old, new>> \in Seq({old, new})
  OBVIOUS
<1>2. /\ Len(<<old>> \o <<new>>) = 2 /\ <<old>> \o <<new>> \in Seq({old, new})
      /\ (<<old>> \o <<new>>)[1] = old /\ (<<old>> \o <<new>>)[2] = new
  BY <1>1, ConcatProperties
<1>3. \A i \in 1..2 : (<<old>> \o <<new>>)[i] = <<old, new>>[i]
  BY <1>2
<1>4. Len(<<old, new>>) = 2
  OBVIOUS
<1> QED
  BY <1>1, <1>2, <1>3, <1>4, SeqEqual

Folds(w, t, b, n, next, rows) ==
  /\ worker[w].pc = "fold" /\ worker[w].token = t /\ worker[w].at = b /\ worker[w].tick = n
  /\ t \in Tokens /\ b \in Buckets /\ n \in Ticks /\ n \in 1..sent[t]
  /\ next \in Candle /\ next.bucket = b /\ rows \in Seq(Candle)
  /\ candle[t].bucket # b => next = Opening(b, PriceOf[n])
  /\ candle[t].bucket = b => next = Folded(candle[t], PriceOf[n])
  /\ candle' = [candle EXCEPT ![t] = next]
  /\ handled' = [handled EXCEPT ![t] = [handled[t] EXCEPT ![b] = Append(handled[t][b], n)]]
  /\ worker' = [worker EXCEPT ![w] = [worker[w] EXCEPT !.pc = "store", !.rows = rows]]
  /\ \A i \in DOMAIN rows :
       \/ rows[i] = next
       \/ rows[i] = candle[t] /\ candle[t].bucket \in Buckets \ {b}
  /\ candle[t].bucket \in Buckets \ {b} => 1 \in DOMAIN rows /\ rows[1] = candle[t]

LEMMA FoldEffect ==
  ASSUME PipelineAssumption, Types, NEW w \in Workers, NEW due \in BOOLEAN, Fold(w, due)
  PROVE  Folds(w, worker[w].token, worker[w].at, worker[w].tick, FoldedCandle(w),
               FoldedRows(w, due))
<1> DEFINE t == worker[w].token
           b == worker[w].at
           n == worker[w].tick
           next == FoldedCandle(w)
           rows == FoldedRows(w, due)
<1> SUFFICES Folds(w, t, b, n, next, rows)
  OBVIOUS
<1> DEFINE old == candle[t]
           closed == ClosedRow(w)
           own == OwnRow(w, due)
<1>1. worker[w] \in Thread /\ Sound(worker[w]) /\ worker[w].pc = "fold"
  BY DEF Types, Fold
<1>2. t \in Tokens /\ n \in 1..sent[t] /\ b \in Buckets /\ sent[t] \in 0..Len(PriceOf)
  BY <1>1 DEF Sound, Types
<1>3. n \in Ticks /\ PriceOf[n] \in Nat
  BY <1>2, TickPrices
<1>4. old \in Candle /\ (old.bucket = 0 => old = NoCandle)
  BY <1>2 DEF Types
<1>5. /\ old.bucket # b => next = Opening(b, PriceOf[n])
      /\ old.bucket = b => next = Folded(old, PriceOf[n])
  BY DEF FoldedCandle
<1>6. next \in Candle /\ next.bucket = b
  <2>1. Opening(b, PriceOf[n]) \in Candle /\ Opening(b, PriceOf[n]).bucket = b
    BY <1>2, <1>3, CandleParts
  <2>2. Folded(old, PriceOf[n]) \in Candle /\ Folded(old, PriceOf[n]).bucket = old.bucket
    BY <1>3, <1>4, CandleParts
  <2> QED
    BY <2>1, <2>2, <1>5
<1>7. /\ closed = IF old.bucket # b /\ old # NoCandle THEN <<old>> ELSE <<>>
      /\ own = <<next>> \/ own = <<>>
      /\ rows = closed \o own
  BY DEF ClosedRow, OwnRow, FoldedRows
<1>8. old.bucket \in 0..MaxBuckets /\ MaxBuckets \in Nat /\ NoCandle.bucket = 0
  BY <1>4 DEF Candle, NoCandle, PipelineAssumption
<1>9. /\ candle' = [candle EXCEPT ![t] = next]
      /\ handled' = [handled EXCEPT ![t] = [handled[t] EXCEPT ![b] = Append(handled[t][b], n)]]
  BY DEF Fold, FoldedCandle
<1>10. worker' = [worker EXCEPT ![w] = [worker[w] EXCEPT !.pc = "store", !.rows = rows]]
  BY DEF Fold, FoldedRows, ClosedRow, OwnRow, FoldedCandle
<1>14. worker[w].token = t /\ worker[w].at = b /\ worker[w].tick = n
  OBVIOUS
<1> HIDE DEF t, b, n, next, rows, old, closed, own
<1>11. CASE old.bucket \in Buckets \ {b}
  <2>1. closed = <<old>>
    BY <1>7, <1>8, <1>11 DEF Buckets
  <2>2. rows = <<old, next>> \/ rows = <<old>>
    <3>1. <<old>> \o <<>> = <<old>>
      OBVIOUS
    <3> QED
      BY <2>1, <3>1, <1>7, TwoRows
  <2>3. /\ rows \in Seq(Candle) /\ 1 \in DOMAIN rows /\ rows[1] = old
        /\ \A i \in DOMAIN rows : rows[i] = next \/ rows[i] = old
    <3>1. CASE rows = <<old, next>>
      BY <3>1, <1>4, <1>6
    <3>2. CASE rows = <<old>>
      BY <3>2, <1>4, <1>6
    <3> QED
      BY <2>2, <3>1, <3>2
  <2> QED
    BY <2>3, <1>1, <1>2, <1>3, <1>5, <1>6, <1>9, <1>10, <1>11, <1>14 DEF old, Folds
<1>12. CASE old.bucket \notin Buckets \ {b}
  <2>1. closed = <<>>
    BY <1>4, <1>7, <1>8, <1>12 DEF Buckets
  <2>2. rows = <<next>> \/ rows = <<>>
    <3>1. <<>> \o <<>> = <<>> /\ <<>> \o <<next>> = <<next>>
      OBVIOUS
    <3> QED
      BY <2>1, <3>1, <1>7
  <2>3. rows \in Seq(Candle) /\ \A i \in DOMAIN rows : rows[i] = next
    <3>1. CASE rows = <<next>>
      BY <3>1, <1>6
    <3>2. CASE rows = <<>>
      BY <3>2
    <3> QED
      BY <2>2, <3>1, <3>2
  <2> QED
    BY <2>3, <1>1, <1>2, <1>3, <1>5, <1>6, <1>9, <1>10, <1>12, <1>14 DEF old, Folds
<1> QED
  BY <1>11, <1>12

LEMMA TypesFold ==
  ASSUME PipelineAssumption, Types, NEW w \in Workers, NEW due \in BOOLEAN, Fold(w, due)
  PROVE  Types'
<1> DEFINE t == worker[w].token
           b == worker[w].at
           n == worker[w].tick
           next == FoldedCandle(w)
           rows == FoldedRows(w, due)
<1> HIDE DEF t, b, n, next, rows
<1>1. Folds(w, t, b, n, next, rows)
  BY FoldEffect DEF t, b, n, next, rows
<1> DEFINE u == [worker[w] EXCEPT !.pc = "store", !.rows = rows]
<1>2. u \in Thread /\ Sound(u)
  <2>1. worker[w] \in Thread /\ Sound(worker[w])
    BY DEF Types
  <2>2. /\ u.pc = "store" /\ u.token = t /\ u.tick = n /\ u.at = b /\ u.rows = rows
        /\ u \in Thread
    BY <2>1, <1>1 DEF Thread, Folds
  <2>3. \A i \in DOMAIN rows : rows[i].bucket \in Buckets
    BY <1>1 DEF Folds
  <2> HIDE DEF u
  <2> QED
    BY <2>2, <2>3, <1>1 DEF Sound, Folds
<1>3. /\ candle' \in [Tokens -> Candle]
      /\ \A s \in Tokens : candle'[s].bucket = 0 => candle'[s] = NoCandle
  <2>1. next.bucket # 0
    BY <1>1 DEF Buckets, Folds
  <2> QED
    BY <2>1, <1>1 DEF Types, Folds
<1>4. handled' \in [Tokens -> [Buckets -> Seq(Ticks)]]
  <2>1. Append(handled[t][b], n) \in Seq(Ticks)
    BY <1>1 DEF Types, Folds
  <2> QED
    BY <2>1, <1>1 DEF Types, Folds
<1>5. sent' = sent
  BY DEF Fold
<1> HIDE DEF u
<1>6. worker' \in [Workers -> Thread] /\ \A v \in Workers : Sound(worker[v])'
  <2>1. worker' = [worker EXCEPT ![w] = u]
    BY <1>1 DEF u, Folds
  <2> QED
    BY <2>1, <1>2, <1>5, ThreadsStay
<1> QED
  BY <1>3, <1>4, <1>6 DEF Types, Fold

Stores(w, fails, t, c, r, rows) ==
  /\ worker[w].pc = "store" /\ worker[w].token = t /\ worker[w].rows = r
  /\ t \in Tokens /\ c \in Candle /\ c.bucket \in Buckets /\ rows \in Seq(Candle)
  /\ 1 \in DOMAIN r /\ r[1] = c
  /\ DOMAIN r = 1..Len(r) /\ Len(r) \in Nat /\ DOMAIN rows = 1..(Len(r) - 1)
  /\ \A i \in DOMAIN rows : rows[i] = r[i + 1] /\ i + 1 \in DOMAIN r
  /\ worker' = [worker EXCEPT ![w] = [worker[w] EXCEPT !.rows = rows]]
  /\ fails => refused' = [refused EXCEPT ![t] = refused[t] \union {c.bucket}] /\ stored' = stored
  /\ ~fails => /\ stored' = [stored EXCEPT ![t] = [stored[t] EXCEPT ![c.bucket] = c]]
               /\ refused' = [refused EXCEPT ![t] = refused[t] \ {c.bucket}]

LEMMA StoreEffect ==
  ASSUME PipelineAssumption, Types, NEW w \in Workers, NEW fails \in BOOLEAN, Store(w, fails)
  PROVE  Stores(w, fails, worker[w].token, Head(worker[w].rows), worker[w].rows,
                Tail(worker[w].rows))
<1> DEFINE t == worker[w].token
           r == worker[w].rows
           c == Head(r)
           rows == Tail(r)
<1> SUFFICES Stores(w, fails, t, c, r, rows)
  OBVIOUS
<1>1. worker[w] \in Thread /\ Sound(worker[w]) /\ worker[w].pc = "store" /\ r # <<>>
  BY DEF Types, Store
<1>2. t \in Tokens /\ r \in Seq(Candle)
  BY <1>1 DEF Sound, Thread
<1>3. /\ c \in Candle /\ c = r[1] /\ 1 \in DOMAIN r /\ rows \in Seq(Candle)
      /\ DOMAIN rows = 1..(Len(r) - 1) /\ DOMAIN r = 1..Len(r) /\ Len(r) \in Nat
      /\ \A i \in 1..(Len(r) - 1) : rows[i] = r[i + 1]
  BY <1>1, <1>2, DequeuedTail
<1>4. c.bucket \in Buckets
  BY <1>1, <1>3 DEF Sound
<1>5. \A i \in DOMAIN rows : i + 1 \in DOMAIN r
  BY <1>3
<1>6. worker' = [worker EXCEPT ![w] = [worker[w] EXCEPT !.rows = rows]]
  BY DEF Store
<1>7. fails => refused' = [refused EXCEPT ![t] = refused[t] \union {c.bucket}] /\ stored' = stored
  BY DEF Store
<1>8. ~fails => /\ stored' = [stored EXCEPT ![t] = [stored[t] EXCEPT ![c.bucket] = c]]
                /\ refused' = [refused EXCEPT ![t] = refused[t] \ {c.bucket}]
  BY DEF Store
<1>9. worker[w].token = t /\ worker[w].rows = r
  OBVIOUS
<1> HIDE DEF t, r, c, rows
<1> QED
  BY <1>1, <1>2, <1>3, <1>4, <1>5, <1>6, <1>7, <1>8, <1>9 DEF Stores

LEMMA TypesStore ==
  ASSUME PipelineAssumption, Types, NEW w \in Workers, NEW fails \in BOOLEAN, Store(w, fails)
  PROVE  Types'
<1> DEFINE t == worker[w].token
           r == worker[w].rows
           c == Head(r)
           rows == Tail(r)
<1> HIDE DEF t, r, c, rows
<1>1. Stores(w, fails, t, c, r, rows)
  BY StoreEffect DEF t, r, c, rows
<1> DEFINE u == [worker[w] EXCEPT !.rows = rows]
<1>2. u \in Thread /\ Sound(u)
  <2>1. worker[w] \in Thread /\ Sound(worker[w])
    BY DEF Types
  <2>2. /\ u.pc = worker[w].pc /\ u.token = worker[w].token /\ u.tick = worker[w].tick
        /\ u.at = worker[w].at /\ u.rows = rows /\ u \in Thread
    BY <2>1, <1>1 DEF Thread, Stores
  <2>3. \A i \in DOMAIN rows : rows[i].bucket \in Buckets
    BY <2>1, <1>1 DEF Sound, Stores
  <2> HIDE DEF u
  <2> QED
    BY <2>1, <2>2, <2>3 DEF Sound
<1>3. stored' \in [Tokens -> [Buckets -> Candle]] /\ refused' \in [Tokens -> SUBSET Buckets]
  <2>1. /\ stored \in [Tokens -> [Buckets -> Candle]] /\ stored[t] \in [Buckets -> Candle]
        /\ refused \in [Tokens -> SUBSET Buckets] /\ refused[t] \in SUBSET Buckets
        /\ c.bucket \in Buckets /\ c \in Candle
    BY <1>1 DEF Types, Stores
  <2>2. CASE fails
    <3>1. refused[t] \union {c.bucket} \in SUBSET Buckets
      BY <2>1
    <3>2. refused' = [refused EXCEPT ![t] = refused[t] \union {c.bucket}] /\ stored' = stored
      BY <2>2, <1>1 DEF Stores
    <3> QED
      BY <2>1, <3>1, <3>2
  <2>3. CASE ~fails
    <3>1. /\ [stored[t] EXCEPT ![c.bucket] = c] \in [Buckets -> Candle]
          /\ refused[t] \ {c.bucket} \in SUBSET Buckets
      BY <2>1
    <3>2. /\ stored' = [stored EXCEPT ![t] = [stored[t] EXCEPT ![c.bucket] = c]]
          /\ refused' = [refused EXCEPT ![t] = refused[t] \ {c.bucket}]
      BY <2>3, <1>1 DEF Stores
    <3> QED
      BY <2>1, <3>1, <3>2
  <2> QED
    BY <2>2, <2>3
<1>4. sent' = sent
  BY DEF Store
<1> HIDE DEF u
<1>5. worker' \in [Workers -> Thread] /\ \A v \in Workers : Sound(worker[v])'
  <2>1. worker' = [worker EXCEPT ![w] = u]
    BY <1>1 DEF u, Stores
  <2> QED
    BY <2>1, <1>2, <1>4, ThreadsStay
<1> QED
  BY <1>3, <1>5 DEF Types, Store

LEMMA TypesDone ==
  ASSUME PipelineAssumption, Types, NEW w \in Workers, Done(w)
  PROVE  Types'
<1>1. Free \in Thread /\ Sound(Free)
  <2>1. <<>> \in Seq(Candle) /\ DOMAIN <<>> = {}
    OBVIOUS
  <2>2. Len(PriceOf) \in Nat
    BY TickPrices
  <2> QED
    BY <2>1, <2>2 DEF Free, Thread, Sound, PipelineAssumption
<1>2. worker' = [worker EXCEPT ![w] = Free] /\ sent' = sent
  BY DEF Done
<1>3. worker' \in [Workers -> Thread] /\ \A v \in Workers : Sound(worker[v])'
  BY <1>1, <1>2, ThreadsStay
<1>4. counts' \in [received : Nat, coalesced : Nat, processed : Nat]
  <2>1. counts.processed + 1 \in Nat
    BY DEF Types
  <2> QED
    BY <2>1 DEF Types, Done
<1> QED
  BY <1>3, <1>4 DEF Types, Done

LEMMA TypesRest ==
  ASSUME PipelineAssumption, Types, Clock \/ UNCHANGED vars
  PROVE  Types'
<1>1. CASE Clock
  <2>1. bucket' \in Buckets
    BY <1>1 DEF Clock, Types, Buckets, PipelineAssumption
  <2>2. \A w \in Workers : Sound(worker[w])'
    BY <1>1 DEF Clock, Types, Sound
  <2> QED
    BY <2>1, <2>2, <1>1 DEF Clock, Types
<1>2. CASE UNCHANGED vars
  <2>1. \A w \in Workers : Sound(worker[w])'
    BY <1>2 DEF vars, Types, Sound
  <2> QED
    BY <2>1, <1>2 DEF vars, Types
<1> QED
  BY <1>1, <1>2

-----------------------------------------------------------------------------
(* The mailbox, with any number of threads *)

LEMMA MailboxInit ==
  ASSUME Init
  PROVE  MailboxIsBounded
<1>1. order = <<>> /\ {t \in Tokens : pending[t] > 0} = {}
  BY DEF Init
<1>2. IsInjective(order) /\ ToSet(order) = {}
  BY <1>1 DEF IsInjective, ToSet
<1> QED
  BY <1>1, <1>2 DEF MailboxIsBounded

LEMMA MailboxPut ==
  ASSUME PipelineAssumption, Types, MailboxIsBounded, NEW t \in Tokens, Put(t)
  PROVE  MailboxIsBounded'
<1>1. /\ pending' = [pending EXCEPT ![t] = sent[t] + 1] /\ sent[t] + 1 > 0
      /\ pending \in [Tokens -> 0..Len(PriceOf)] /\ order \in Seq(Tokens)
      /\ IsInjective(order) /\ ToSet(order) = {s \in Tokens : pending[s] > 0}
  BY DEF Put, Types, MailboxIsBounded
<1>2. {s \in Tokens : pending'[s] > 0} = {s \in Tokens : pending[s] > 0} \union {t}
  BY <1>1
<1>3. CASE pending[t] = 0
  <2>1. t \notin ToSet(order) /\ order' = Append(order, t)
    BY <1>1, <1>3 DEF Put
  <2>2. \A i \in DOMAIN order : order[i] # t
    BY <2>1 DEF ToSet
  <2>3. IsInjective(order') /\ ToSet(order') = ToSet(order) \union {t}
    BY <1>1, <2>1, <2>2, AppendedInjective, AppendedSet
  <2> QED
    BY <1>1, <1>2, <2>3 DEF MailboxIsBounded
<1>4. CASE pending[t] # 0
  <2>1. order' = order /\ pending[t] > 0
    BY <1>1, <1>4, TickPrices DEF Put
  <2>2. ToSet(order') = {s \in Tokens : pending'[s] > 0}
    BY <1>1, <1>2, <2>1
  <2> QED
    BY <1>1, <2>1, <2>2 DEF MailboxIsBounded
<1> QED
  BY <1>3, <1>4

LEMMA MailboxTake ==
  ASSUME PipelineAssumption, Types, MailboxIsBounded, NEW w \in Workers, Take(w)
  PROVE  MailboxIsBounded'
<1> DEFINE t == Head(order)
<1>1. /\ order \in Seq(Tokens) /\ order # <<>> /\ pending \in [Tokens -> 0..Len(PriceOf)]
      /\ IsInjective(order) /\ ToSet(order) = {s \in Tokens : pending[s] > 0}
      /\ pending' = [pending EXCEPT ![t] = 0] /\ order' = Tail(order)
  BY DEF Take, Types, MailboxIsBounded
<1>2. t \in Tokens
  BY <1>1, DequeuedTail
<1>3. IsInjective(order') /\ ToSet(order') = ToSet(order) \ {t}
  BY <1>1, DequeuedSet
<1> HIDE DEF t
<1>4. {s \in Tokens : pending'[s] > 0} = {s \in Tokens : pending[s] > 0} \ {t}
  BY <1>1, <1>2
<1>5. ToSet(order') = {s \in Tokens : pending'[s] > 0}
  BY <1>1, <1>3, <1>4
<1> QED
  BY <1>3, <1>5 DEF MailboxIsBounded

LEMMA MailboxRest ==
  ASSUME MailboxIsBounded, order' = order, pending' = pending
  PROVE  MailboxIsBounded'
BY DEF MailboxIsBounded

-----------------------------------------------------------------------------
(* No tick twice, with any number of threads *)

LEMMA TicksInit ==
  ASSUME Init
  PROVE  TicksInv
<1>1. \A t \in Tokens : shown[t] = <<>> /\ DOMAIN shown[t] = {}
  BY DEF Init
<1>2. \A w \in Workers, t \in Tokens : ~Shows(w, t)
  BY DEF Init, Free, Shows
<1> QED
  BY <1>1, <1>2 DEF TicksInv, Newest, Held, NoTickTwice, IsInjective

LEMMA TicksPut ==
  ASSUME PipelineAssumption, Types, TicksInv, NEW t \in Tokens, Put(t)
  PROVE  TicksInv'
<1>1. /\ sent \in [Tokens -> 0..Len(PriceOf)] /\ sent' = [sent EXCEPT ![t] = sent[t] + 1]
      /\ pending' = [pending EXCEPT ![t] = sent[t] + 1] /\ worker' = worker /\ shown' = shown
      /\ pending \in [Tokens -> 0..Len(PriceOf)]
  BY DEF Types, Put
<1>2. ASSUME NEW s \in Tokens, NEW n \in Nat, Before(s, n) PROVE Before(s, n)'
  <2>1. n <= sent[s] /\ sent[s] \in Nat
    BY <1>1, <1>2 DEF Before
  <2>2. CASE s = t
    BY <2>1, <2>2, <1>1 DEF Before
  <2>3. CASE s # t
    BY <2>3, <1>1, <1>2 DEF Before
  <2> QED
    BY <2>2, <2>3
<1>3. \A s \in Tokens : \A i \in DOMAIN shown[s] : shown[s][i] \in Nat
  BY TickPrices DEF Types
<1>4. \A w \in Workers : worker[w].tick \in Nat
  BY DEF Types, Thread
<1>5. Newest'
  <2> SUFFICES ASSUME NEW s \in Tokens, NEW i \in DOMAIN shown[s] PROVE Before(s, shown[s][i])'
    BY <1>1 DEF Newest
  <2>1. Before(s, shown[s][i]) /\ shown[s][i] \in Nat
    BY <1>3 DEF TicksInv, Newest
  <2> QED
    BY <2>1, <1>1, <1>2 DEF Before
<1>6. Held'
  <2>1. ASSUME NEW w \in Workers, NEW s \in Tokens, Shows(w, s)' PROVE Before(s, worker[w].tick)'
    <3>1. Before(s, worker[w].tick) /\ worker[w].tick \in Nat
      BY <2>1, <1>1, <1>4 DEF TicksInv, Held, Shows
    <3> QED
      BY <3>1, <1>1, <1>2 DEF Before
  <2> QED
    BY <2>1, <1>1 DEF TicksInv, Held, Shows
<1> QED
  BY <1>1, <1>5, <1>6 DEF TicksInv, NoTickTwice

LEMMA TicksTake ==
  ASSUME PipelineAssumption, Types, MailboxIsBounded, TicksInv, NEW w \in Workers, Take(w)
  PROVE  TicksInv'
<1> DEFINE t == Head(order)
           n == pending[t]
<1>1. /\ order \in Seq(Tokens) /\ order # <<>> /\ pending \in [Tokens -> 0..Len(PriceOf)]
      /\ pending' = [pending EXCEPT ![t] = 0] /\ sent' = sent /\ shown' = shown
  BY DEF Take, Types
<1>2. t \in Tokens /\ t \in ToSet(order)
  BY <1>1, DequeuedTail DEF ToSet
<1>3. n > 0 /\ n = sent[t] /\ n \in Nat
  <2>1. n > 0 /\ n \in {0, sent[t]} /\ n \in 0..Len(PriceOf)
    BY <1>2 DEF MailboxIsBounded, Types
  <2> HIDE DEF n
  <2> QED
    BY <2>1
<1>4. worker'[w].pc = "show" /\ worker'[w].token = t /\ worker'[w].tick = n
      /\ \A v \in Workers \ {w} : worker'[v] = worker[v]
  BY DEF Take, Types, Free
<1> HIDE DEF n, t
<1>5. \A s \in Tokens : \A k \in Nat : Before(s, k) => Before(s, k)'
  BY <1>1, <1>2 DEF Before
<1>6. Newest'
  <2>1. \A s \in Tokens : \A i \in DOMAIN shown[s] : shown[s][i] \in Nat
    BY TickPrices DEF Types
  <2> SUFFICES ASSUME NEW s \in Tokens, NEW i \in DOMAIN shown[s] PROVE Before(s, shown[s][i])'
    BY <1>1 DEF Newest
  <2>2. Before(s, shown[s][i]) /\ shown[s][i] \in Nat
    BY <2>1 DEF TicksInv, Newest
  <2> QED
    BY <2>2, <1>1, <1>5 DEF Before
<1>7. n <= sent'[t] /\ pending'[t] = 0 /\ \A i \in DOMAIN shown[t] : shown[t][i] < n
  <2>1. n <= sent'[t] /\ pending'[t] = 0
    BY <1>1, <1>2, <1>3
  <2>2. \A i \in DOMAIN shown[t] : shown[t][i] < n
    BY <1>2, <1>3 DEF TicksInv, Newest, Before, n
  <2> QED
    BY <2>1, <2>2
<1>8. ASSUME NEW v \in Workers, NEW s \in Tokens, Shows(v, s)'
      PROVE  /\ Before(s, worker[v].tick)'
             /\ \A i \in DOMAIN shown'[s] : shown'[s][i] # worker'[v].tick
  <2>1. CASE v = w
    <3>1. s = t /\ worker'[v].tick = n
      BY <2>1, <1>4, <1>8 DEF Shows
    <3>2. \A i \in DOMAIN shown[t] : shown[t][i] \in Nat
      BY <1>2, TickPrices DEF Types
    <3> QED
      BY <3>1, <3>2, <1>1, <1>3, <1>7 DEF Before
  <2>2. CASE v # w
    <3>1. worker'[v] = worker[v] /\ Shows(v, s)
      BY <2>2, <1>4, <1>8 DEF Shows
    <3>2. Before(s, worker[v].tick) /\ worker[v].tick \in Nat
      BY <3>1 DEF TicksInv, Held, Types, Thread
    <3> QED
      BY <3>1, <3>2, <1>1, <1>5 DEF TicksInv, Held, Before
  <2> QED
    BY <2>1, <2>2
<1>9. ASSUME NEW v \in Workers, v # w, worker'[v].pc = "show", worker'[v].token = t
      PROVE  worker'[v].tick < n
  <2>1. worker'[v] = worker[v] /\ Shows(v, t)
    BY <1>4, <1>9 DEF Shows
  <2> QED
    BY <2>1, <1>2, <1>3 DEF TicksInv, Held, Before, n
<1>10. ASSUME NEW u \in Workers, NEW v \in Workers, NEW s \in Tokens,
              Shows(u, s)', Shows(v, s)', worker'[u].tick = worker'[v].tick
       PROVE  u = v
  <2>1. \A x \in Workers : worker[x].tick \in Nat
    BY DEF Types, Thread
  <2>2. CASE u = w /\ v # w
    <3>1. s = t /\ worker'[u].tick = n
      BY <2>2, <1>4, <1>10 DEF Shows
    <3>2. worker'[v].tick < n
      BY <3>1, <2>2, <1>9, <1>10 DEF Shows
    <3> QED
      BY <3>1, <3>2, <1>3, <1>10
  <2>3. CASE v = w /\ u # w
    <3>1. s = t /\ worker'[v].tick = n
      BY <2>3, <1>4, <1>10 DEF Shows
    <3>2. worker'[u].tick < n
      BY <3>1, <2>3, <1>9, <1>10 DEF Shows
    <3> QED
      BY <3>1, <3>2, <1>3, <1>10
  <2>4. CASE u # w /\ v # w
    BY <2>4, <1>4, <1>10 DEF TicksInv, Held, Shows
  <2> QED
    BY <2>2, <2>3, <2>4
<1>11. Held'
  <2>1. \A v \in Workers, s \in Tokens :
          Shows(v, s)' => /\ Before(s, worker[v].tick)'
                          /\ \A i \in DOMAIN shown'[s] : shown'[s][i] # worker'[v].tick
    BY <1>8
  <2> QED
    BY <2>1, <1>10 DEF Held
<1> QED
  BY <1>1, <1>6, <1>11 DEF TicksInv, NoTickTwice

\* The tick that a thread shows is new among those shown, and leaves its hands.
Reveals(w, t, n, ticks) ==
  /\ worker[w].pc = "show" /\ worker[w].token = t /\ worker[w].tick = n
  /\ t \in Tokens /\ n \in Ticks /\ n \in Nat
  /\ ticks = shown[t] /\ ticks \in Seq(Ticks)
  /\ shown' = [shown EXCEPT ![t] = Append(ticks, n)]
  /\ Append(ticks, n) \in Seq(Ticks) /\ DOMAIN Append(ticks, n) = 1..(Len(ticks) + 1)
  /\ Len(Append(ticks, n)) = Len(ticks) + 1 /\ Len(ticks) \in Nat /\ DOMAIN ticks = 1..Len(ticks)
  /\ \A i \in 1..Len(ticks) : Append(ticks, n)[i] = ticks[i]
  /\ Append(ticks, n)[Len(ticks) + 1] = n
  /\ worker'[w].pc = "fold" /\ \A v \in Workers \ {w} : worker'[v] = worker[v]
  /\ sent' = sent /\ pending' = pending

LEMMA ShowEffect ==
  ASSUME PipelineAssumption, Types, NEW w \in Workers, Show(w)
  PROVE  Reveals(w, worker[w].token, worker[w].tick, shown[worker[w].token])
<1> DEFINE t == worker[w].token
           n == worker[w].tick
           ticks == shown[t]
<1> SUFFICES Reveals(w, t, n, ticks)
  OBVIOUS
<1>1. worker[w] \in Thread /\ Sound(worker[w]) /\ worker[w].pc = "show"
  BY DEF Types, Show
<1>2. t \in Tokens /\ n \in 1..sent[t] /\ sent[t] \in 0..Len(PriceOf)
  BY <1>1 DEF Sound, Types
<1>3. n \in Ticks /\ n \in Nat
  BY <1>2, TickPrices
<1>4. ticks \in Seq(Ticks)
  BY <1>2 DEF Types
<1>5. /\ shown' = [shown EXCEPT ![t] = Append(ticks, n)] /\ sent' = sent /\ pending' = pending
      /\ worker'[w].pc = "fold" /\ \A v \in Workers \ {w} : worker'[v] = worker[v]
  BY DEF Show, Types
<1>6. worker[w].token = t /\ worker[w].tick = n /\ ticks = shown[t]
  OBVIOUS
<1> HIDE DEF t, n, ticks
<1>7. Len(ticks) \in Nat /\ DOMAIN ticks = 1..Len(ticks)
  BY <1>4
<1> QED
  BY <1>1, <1>2, <1>3, <1>4, <1>5, <1>6, <1>7, AppendedSeq DEF Reveals

LEMMA TicksShow ==
  ASSUME PipelineAssumption, Types, TicksInv, NEW w \in Workers, Show(w)
  PROVE  TicksInv'
<1> DEFINE t == worker[w].token
           n == worker[w].tick
           ticks == shown[t]
           more == Append(ticks, n)
<1> HIDE DEF t, n, ticks
<1>1. Reveals(w, t, n, ticks)
  BY ShowEffect DEF t, n, ticks
<1> HIDE DEF more
<1>2. /\ t \in Tokens /\ n \in Nat /\ Len(ticks) \in Nat /\ DOMAIN ticks = 1..Len(ticks)
      /\ DOMAIN more = 1..(Len(ticks) + 1) /\ \A i \in 1..Len(ticks) : more[i] = ticks[i]
      /\ more[Len(ticks) + 1] = n /\ sent' = sent /\ pending' = pending
      /\ shown' = [shown EXCEPT ![t] = more] /\ ticks = shown[t] /\ Shows(w, t)
  BY <1>1 DEF Reveals, more, Shows
<1>3. shown'[t] = more /\ \A s \in Tokens \ {t} : shown'[s] = shown[s]
  BY <1>2 DEF Types
<1>4. Before(t, n) /\ \A i \in DOMAIN ticks : ticks[i] # n
  BY <1>1, <1>2 DEF Reveals, TicksInv, Held
<1>5. Newest'
  <2> SUFFICES ASSUME NEW s \in Tokens, NEW i \in DOMAIN shown'[s]
               PROVE  Before(s, shown[s][i])'
    BY DEF Newest
  <2>1. CASE s # t
    BY <2>1, <1>2, <1>3 DEF TicksInv, Newest, Before
  <2>2. CASE s = t
    <3>1. CASE i = Len(ticks) + 1
      BY <2>2, <3>1, <1>2, <1>3, <1>4 DEF Before
    <3>2. CASE i \in 1..Len(ticks)
      <4>1. Before(t, ticks[i]) /\ more[i] = ticks[i]
        BY <3>2, <1>2 DEF TicksInv, Newest
      <4> QED
        BY <4>1, <2>2, <1>2, <1>3 DEF Before
    <3> QED
      BY <2>2, <3>1, <3>2, <1>2, <1>3
  <2> QED
    BY <2>1, <2>2
<1>6. ASSUME NEW v \in Workers, NEW s \in Tokens, Shows(v, s)'
      PROVE  v # w /\ Shows(v, s) /\ worker'[v].tick = worker[v].tick
  BY <1>1, <1>6 DEF Reveals, Shows
<1>7. ASSUME NEW v \in Workers, NEW s \in Tokens, Shows(v, s)'
      PROVE  /\ Before(s, worker[v].tick)'
             /\ \A i \in DOMAIN shown'[s] : shown'[s][i] # worker'[v].tick
  <2>1. v # w /\ Shows(v, s) /\ worker'[v].tick = worker[v].tick
    BY <1>6, <1>7
  <2>2. Before(s, worker[v].tick) /\ \A i \in DOMAIN shown[s] : shown[s][i] # worker[v].tick
    BY <2>1 DEF TicksInv, Held
  <2>3. s = t => worker[v].tick # n
    BY <2>1, <1>1, <1>2 DEF TicksInv, Held, Reveals
  <2>4. Before(s, worker[v].tick)'
    BY <2>1, <2>2, <1>2 DEF Before
  <2>5. ASSUME NEW i \in DOMAIN shown'[s] PROVE shown'[s][i] # worker[v].tick
    <3>1. CASE s # t
      BY <3>1, <2>2, <1>3
    <3>2. CASE s = t /\ i = Len(ticks) + 1
      BY <3>2, <2>3, <1>2, <1>3
    <3>3. CASE s = t /\ i \in 1..Len(ticks)
      BY <3>3, <2>2, <1>2, <1>3
    <3> QED
      BY <3>1, <3>2, <3>3, <1>2, <1>3
  <2> QED
    BY <2>1, <2>4, <2>5
<1>8. Held'
  <2>1. \A v \in Workers, s \in Tokens :
          Shows(v, s)' => /\ Before(s, worker[v].tick)'
                         /\ \A i \in DOMAIN shown'[s] : shown'[s][i] # worker'[v].tick
    BY <1>7
  <2>2. \A u, v \in Workers, s \in Tokens :
          Shows(u, s)' /\ Shows(v, s)' /\ worker'[u].tick = worker'[v].tick => u = v
    BY <1>6 DEF TicksInv, Held
  <2> QED
    BY <2>1, <2>2 DEF Held
<1>9. NoTickTwice'
  <2>1. IsInjective(more)
    <3>1. IsInjective(ticks) /\ ticks \in Seq(Ticks) /\ n \in Ticks
      BY <1>1, <1>2 DEF Reveals, TicksInv, NoTickTwice
    <3> QED
      BY <3>1, <1>4, AppendedInjective DEF more
  <2>2. ASSUME NEW s \in Tokens PROVE IsInjective(shown'[s])
    <3>1. CASE s = t
      BY <3>1, <2>1, <1>3
    <3>2. CASE s # t
      BY <3>2, <1>3 DEF TicksInv, NoTickTwice
    <3> QED
      BY <3>1, <3>2
  <2> QED
    BY <2>2 DEF NoTickTwice
<1> QED
  BY <1>5, <1>8, <1>9 DEF TicksInv

\* A step that takes and shows no tick.
LEMMA TicksRest ==
  ASSUME TicksInv, sent' = sent, pending' = pending, shown' = shown,
         \A v \in Workers : worker'[v].pc = "show" => worker'[v] = worker[v]
  PROVE  TicksInv'
<1>1. \A v \in Workers, s \in Tokens :
        Shows(v, s)' => Shows(v, s) /\ worker'[v].tick = worker[v].tick
  BY DEF Shows
<1>2. Newest' /\ NoTickTwice'
  BY DEF TicksInv, Newest, Before, NoTickTwice
<1>3. \A v \in Workers, s \in Tokens :
        Shows(v, s)' => /\ Before(s, worker[v].tick)'
                       /\ \A i \in DOMAIN shown'[s] : shown'[s][i] # worker'[v].tick
  BY <1>1 DEF TicksInv, Held, Before
<1>4. \A u, v \in Workers, s \in Tokens :
        Shows(u, s)' /\ Shows(v, s)' /\ worker'[u].tick = worker'[v].tick => u = v
  BY <1>1 DEF TicksInv, Held
<1>5. Held'
  BY <1>3, <1>4 DEF Held
<1> QED
  BY <1>2, <1>5 DEF TicksInv

-----------------------------------------------------------------------------
(* Every tick is counted, with any number of threads *)

LEMMA CountsInit ==
  ASSUME Init
  PROVE  CountsInv
<1>1. Busy = {}
  BY DEF Init, Busy, Free
<1>2. IsFiniteSet(Busy) /\ Cardinality(Busy) = 0
  BY <1>1, FS_EmptySet
<1>3. EveryTickIsCounted
  BY <1>2 DEF Init, EveryTickIsCounted, Busy
<1> QED
  BY <1>2, <1>3 DEF CountsInv

LEMMA CountsPut ==
  ASSUME PipelineAssumption, Types, CountsInv, NEW t \in Tokens, Put(t)
  PROVE  CountsInv'
<1>1. Busy' = Busy
  BY DEF Put, Busy
<1>2. IsFiniteSet(Busy) /\ Cardinality(Busy) \in Nat
  BY FS_CardinalityType DEF CountsInv
<1>3. /\ counts \in [received : Nat, coalesced : Nat, processed : Nat] /\ Len(order) \in Nat
      /\ order \in Seq(Tokens)
  BY DEF Types
<1>4. /\ counts'.received = counts.received + 1 /\ counts'.processed = counts.processed
      /\ counts'.coalesced = IF pending[t] = 0 THEN counts.coalesced ELSE counts.coalesced + 1
  BY <1>3 DEF Put
<1>5. Len(order') = IF pending[t] = 0 THEN Len(order) + 1 ELSE Len(order)
  BY <1>3 DEF Put
<1>6. counts.received = counts.processed + counts.coalesced + Len(order) + Cardinality(Busy)
  BY DEF CountsInv, EveryTickIsCounted, Busy
<1>7. counts'.received = counts'.processed + counts'.coalesced + Len(order') + Cardinality(Busy)
  BY <1>2, <1>3, <1>4, <1>5, <1>6
<1> QED
  BY <1>1, <1>2, <1>7 DEF CountsInv, EveryTickIsCounted, Busy

LEMMA CountsTake ==
  ASSUME PipelineAssumption, Types, CountsInv, NEW w \in Workers, Take(w)
  PROVE  CountsInv'
<1>1. w \notin Busy /\ Busy' = Busy \union {w}
  BY DEF Take, Busy, Types, Free
<1>2. /\ IsFiniteSet(Busy) /\ Cardinality(Busy) \in Nat
      /\ IsFiniteSet(Busy') /\ Cardinality(Busy') = Cardinality(Busy) + 1
  BY <1>1, FS_CardinalityType, FS_AddElement DEF CountsInv
<1>3. /\ counts \in [received : Nat, coalesced : Nat, processed : Nat] /\ Len(order) \in Nat
      /\ counts' = counts /\ Len(order') = Len(order) - 1
  BY DequeuedTail DEF Types, Take
<1>4. counts.received = counts.processed + counts.coalesced + Len(order) + Cardinality(Busy)
  BY DEF CountsInv, EveryTickIsCounted, Busy
<1>5. counts'.received = counts'.processed + counts'.coalesced + Len(order') + Cardinality(Busy')
  BY <1>2, <1>3, <1>4
<1> QED
  BY <1>2, <1>5 DEF CountsInv, EveryTickIsCounted, Busy

LEMMA CountsDone ==
  ASSUME PipelineAssumption, Types, CountsInv, NEW w \in Workers, Done(w)
  PROVE  CountsInv'
<1>1. w \in Busy /\ Busy' = Busy \ {w}
  BY DEF Done, Busy, Types, Free
<1>2. /\ IsFiniteSet(Busy) /\ Cardinality(Busy) \in Nat
      /\ IsFiniteSet(Busy') /\ Cardinality(Busy') = Cardinality(Busy) - 1
  BY <1>1, FS_CardinalityType, FS_RemoveElement DEF CountsInv
<1>3. /\ counts \in [received : Nat, coalesced : Nat, processed : Nat] /\ Len(order) \in Nat
      /\ counts' = [counts EXCEPT !.processed = counts.processed + 1] /\ order' = order
  BY DEF Types, Done
<1>4. counts.received = counts.processed + counts.coalesced + Len(order) + Cardinality(Busy)
  BY DEF CountsInv, EveryTickIsCounted, Busy
<1>5. counts'.received = counts'.processed + counts'.coalesced + Len(order') + Cardinality(Busy')
  BY <1>2, <1>3, <1>4
<1> QED
  BY <1>2, <1>5 DEF CountsInv, EveryTickIsCounted, Busy

LEMMA CountsRest ==
  ASSUME CountsInv, counts' = counts, order' = order,
         \A v \in Workers : worker'[v].pc = "idle" <=> worker[v].pc = "idle"
  PROVE  CountsInv'
<1>1. Busy' = Busy
  BY DEF Busy
<1> QED
  BY <1>1 DEF CountsInv, EveryTickIsCounted, Busy

-----------------------------------------------------------------------------
(* Any number of threads *)

PipelineInv == Types /\ MailboxIsBounded /\ TicksInv /\ CountsInv

LEMMA PipelineInit ==
  ASSUME PipelineAssumption, Init
  PROVE  PipelineInv
BY TypesInit, MailboxInit, TicksInit, CountsInit DEF PipelineInv

LEMMA PipelineWork ==
  ASSUME PipelineAssumption, PipelineInv, NEW w \in Workers, Work(w)
  PROVE  PipelineInv'
<1>1. Types /\ MailboxIsBounded /\ TicksInv /\ CountsInv
  BY DEF PipelineInv
<1>2. worker \in [Workers -> Thread]
  BY <1>1 DEF Types
<1>3. CASE Take(w)
  BY <1>1, <1>3, TypesTake, MailboxTake, TicksTake, CountsTake DEF PipelineInv
<1>4. CASE Show(w)
  <2>1. \A v \in Workers : worker'[v].pc = "idle" <=> worker[v].pc = "idle"
    BY <1>2, <1>4 DEF Show
  <2>2. order' = order /\ pending' = pending /\ counts' = counts
    BY <1>4 DEF Show
  <2> QED
    BY <1>1, <1>4, <2>1, <2>2, TypesShow, MailboxRest, TicksShow, CountsRest DEF PipelineInv
<1>5. CASE Done(w)
  <2>1. \A v \in Workers : worker'[v].pc = "show" => worker'[v] = worker[v]
    BY <1>2, <1>5 DEF Done, Free
  <2>2. order' = order /\ pending' = pending /\ sent' = sent /\ shown' = shown
    BY <1>5 DEF Done
  <2> QED
    BY <1>1, <1>5, <2>1, <2>2, TypesDone, MailboxRest, TicksRest, CountsDone DEF PipelineInv
<1>6. ASSUME NEW due \in BOOLEAN, Fold(w, due) PROVE PipelineInv'
  <2>1. /\ worker[w].pc = "fold" /\ worker'[w].pc = "store"
        /\ \A v \in Workers \ {w} : worker'[v] = worker[v]
    BY <1>2, <1>6 DEF Fold
  <2>2. /\ order' = order /\ pending' = pending /\ counts' = counts /\ sent' = sent
        /\ shown' = shown
    BY <1>6 DEF Fold
  <2>3. Types' /\ MailboxIsBounded'
    BY <1>1, <1>6, <2>2, TypesFold, MailboxRest
  <2>4. TicksInv'
    BY <1>1, <2>1, <2>2, TicksRest
  <2>5. CountsInv'
    <3>1. \A v \in Workers : worker'[v].pc = "idle" <=> worker[v].pc = "idle"
      BY <2>1
    <3> QED
      BY <3>1, <1>1, <2>2, CountsRest
  <2> QED
    BY <2>3, <2>4, <2>5 DEF PipelineInv
<1>7. ASSUME NEW fails \in BOOLEAN, Store(w, fails) PROVE PipelineInv'
  <2>1. /\ worker[w].pc = "store" /\ worker'[w].pc = "store"
        /\ \A v \in Workers \ {w} : worker'[v] = worker[v]
    BY <1>2, <1>7 DEF Store
  <2>2. /\ order' = order /\ pending' = pending /\ counts' = counts /\ sent' = sent
        /\ shown' = shown
    BY <1>7 DEF Store
  <2>3. Types' /\ MailboxIsBounded'
    BY <1>1, <1>7, <2>2, TypesStore, MailboxRest
  <2>4. TicksInv'
    BY <1>1, <2>1, <2>2, TicksRest
  <2>5. CountsInv'
    <3>1. \A v \in Workers : worker'[v].pc = "idle" <=> worker[v].pc = "idle"
      BY <2>1
    <3> QED
      BY <3>1, <1>1, <2>2, CountsRest
  <2> QED
    BY <2>3, <2>4, <2>5 DEF PipelineInv
<1> QED
  BY <1>3, <1>4, <1>5, <1>6, <1>7 DEF Work

LEMMA PipelineStep ==
  ASSUME PipelineAssumption, PipelineInv, [Next]_vars
  PROVE  PipelineInv'
<1>1. Types /\ MailboxIsBounded /\ TicksInv /\ CountsInv
  BY DEF PipelineInv
<1>2. ASSUME NEW t \in Tokens, Put(t) PROVE PipelineInv'
  BY <1>1, <1>2, TypesPut, MailboxPut, TicksPut, CountsPut DEF PipelineInv
<1>3. ASSUME NEW w \in Workers, Work(w) PROVE PipelineInv'
  BY <1>3, PipelineWork
<1>4. CASE Clock \/ UNCHANGED vars
  <2>1. /\ order' = order /\ pending' = pending /\ counts' = counts /\ sent' = sent
        /\ shown' = shown /\ worker' = worker
    BY <1>4 DEF Clock, vars
  <2>2. Types' /\ MailboxIsBounded'
    BY <1>1, <1>4, <2>1, TypesRest, MailboxRest
  <2>3. TicksInv' /\ CountsInv'
    BY <1>1, <2>1, TicksRest, CountsRest
  <2> QED
    BY <2>2, <2>3 DEF PipelineInv
<1> QED
  BY <1>2, <1>3, <1>4 DEF Next

THEOREM PipelineInvariance ==
  ASSUME PipelineAssumption
  PROVE  Spec => []PipelineInv
<1>1. Init => PipelineInv
  BY PipelineInit
<1>2. PipelineInv /\ [Next]_vars => PipelineInv'
  BY PipelineStep
<1> QED
  BY <1>1, <1>2, PTL DEF Spec

\* Mailbox, threads and rows have their types.
THEOREM PipelineIsTyped ==
  ASSUME PipelineAssumption
  PROVE  Spec => []TypeOK
<1>1. PipelineInv => TypeOK
  <2> SUFFICES ASSUME PipelineInv PROVE TypeOK
    OBVIOUS
  <2>1. order \in Seq(Tokens) /\ bucket \in Buckets
    BY DEF PipelineInv, Types
  <2>2. ASSUME NEW t \in Tokens PROVE pending[t] <= sent[t] /\ sent[t] <= Len(PriceOf)
    <3>1. pending[t] \in {0, sent[t]} /\ sent[t] \in 0..Len(PriceOf) /\ Len(PriceOf) \in Nat
      BY TickPrices DEF PipelineInv, Types
    <3> QED
      BY <3>1
  <2>3. \A w \in Workers : worker[w].pc \in {"idle", "show", "fold", "store"}
    BY DEF PipelineInv, Types, Thread
  <2> QED
    BY <2>1, <2>2, <2>3 DEF TypeOK
<1> QED
  BY <1>1, PipelineInvariance, PTL

\* However fast ticks come, a token waits at most once: the queue of TickCoalescer
\* is never longer than there are tokens.
THEOREM MailboxStaysBounded ==
  ASSUME PipelineAssumption, IsFiniteSet(Tokens)
  PROVE  Spec => [](MailboxIsBounded /\ Len(order) <= Cardinality(Tokens))
<1>1. PipelineInv => MailboxIsBounded /\ Len(order) <= Cardinality(Tokens)
  <2> SUFFICES ASSUME PipelineInv PROVE Len(order) <= Cardinality(Tokens)
    BY DEF PipelineInv
  <2>1. order \in [1..Len(order) -> Tokens] /\ Len(order) \in Nat /\ IsInjective(order)
    <3>1. order \in Seq(Tokens) /\ IsInjective(order)
      BY DEF PipelineInv, Types, MailboxIsBounded
    <3> QED
      BY <3>1
  <2>2. order \in Injection(1..Len(order), Tokens)
    BY <2>1 DEF Injection
  <2>3. Cardinality(1..Len(order)) = Len(order)
    <3>1. Cardinality(1..Len(order)) = IF 1 > Len(order) THEN 0 ELSE Len(order) - 1 + 1
      BY <2>1, FS_Interval
    <3> QED
      BY <2>1, <3>1
  <2>4. Cardinality(1..Len(order)) <= Cardinality(Tokens)
    BY <2>2, FS_Injection
  <2> QED
    BY <2>3, <2>4
<1> QED
  BY <1>1, PipelineInvariance, PTL

\* What the health page adds up (TickStats): a received tick was processed, was
\* replaced by a newer one, waits, or is in the hands of exactly one thread.
THEOREM NoTickIsLost ==
  ASSUME PipelineAssumption
  PROVE  Spec => []EveryTickIsCounted
<1>1. PipelineInv => EveryTickIsCounted
  BY DEF PipelineInv, CountsInv
<1> QED
  BY <1>1, PipelineInvariance, PTL

\* No two threads ever show the same tick, and no thread shows it twice.
THEOREM TicksAreShownOnce ==
  ASSUME PipelineAssumption
  PROVE  Spec => []NoTickTwice
<1>1. PipelineInv => NoTickTwice
  BY DEF PipelineInv, TicksInv
<1> QED
  BY <1>1, PipelineInvariance, PTL

-----------------------------------------------------------------------------
(* One thread: a token's ticks in turn *)

LEMMA OrderPut ==
  ASSUME OrderInv, worker' = worker, shown' = shown
  PROVE  OrderInv'
BY DEF OrderInv, SameTokenInOrder, Shows

LEMMA OrderTake ==
  ASSUME PipelineAssumption, PipelineInv, OrderInv, NEW w \in Workers, Take(w)
  PROVE  OrderInv'
<1> DEFINE t == Head(order)
           n == pending[t]
<1>1. /\ Types /\ MailboxIsBounded /\ Newest /\ order \in Seq(Tokens) /\ order # <<>>
      /\ shown' = shown
  BY DEF PipelineInv, Types, TicksInv, Take
<1>2. t \in Tokens /\ t \in ToSet(order)
  BY <1>1, DequeuedTail DEF ToSet
<1>3. n > 0
  BY <1>1, <1>2 DEF MailboxIsBounded
<1>4. /\ worker'[w].token = t /\ worker'[w].tick = n
      /\ \A v \in Workers \ {w} : worker'[v] = worker[v]
  BY <1>1 DEF Take, Types, Free
<1>5. \A i \in DOMAIN shown[t] : shown[t][i] < n
  BY <1>1, <1>2, <1>3 DEF Newest, Before
<1> HIDE DEF t, n
<1>6. ASSUME NEW v \in Workers, NEW s \in Tokens, Shows(v, s)', NEW i \in DOMAIN shown'[s]
      PROVE  shown'[s][i] < worker'[v].tick
  <2>1. CASE v = w
    BY <2>1, <1>1, <1>4, <1>5, <1>6 DEF Shows
  <2>2. CASE v # w
    <3>1. worker'[v] = worker[v] /\ Shows(v, s)
      BY <2>2, <1>4, <1>6 DEF Shows
    <3> QED
      BY <3>1, <1>1, <1>6 DEF OrderInv
  <2> QED
    BY <2>1, <2>2
<1>7. SameTokenInOrder'
  BY <1>1 DEF OrderInv, SameTokenInOrder
<1> QED
  BY <1>6, <1>7 DEF OrderInv

LEMMA OrderShow ==
  ASSUME PipelineAssumption, PipelineInv, OrderInv, NEW w, Workers = {w}, Show(w)
  PROVE  OrderInv'
<1> DEFINE t == worker[w].token
           n == worker[w].tick
           ticks == shown[t]
           more == Append(ticks, n)
<1> HIDE DEF t, n, ticks
<1>1. Reveals(w, t, n, ticks)
  BY ShowEffect DEF t, n, ticks, PipelineInv
<1> HIDE DEF more
<1>2. /\ t \in Tokens /\ n \in Nat /\ Len(ticks) \in Nat /\ DOMAIN ticks = 1..Len(ticks)
      /\ Len(more) = Len(ticks) + 1 /\ \A i \in 1..Len(ticks) : more[i] = ticks[i]
      /\ more[Len(ticks) + 1] = n /\ shown' = [shown EXCEPT ![t] = more]
      /\ ticks = shown[t] /\ Shows(w, t) /\ worker'[w].pc = "fold"
  BY <1>1 DEF Reveals, more, Shows
<1>3. shown'[t] = more /\ \A s \in Tokens \ {t} : shown'[s] = shown[s]
  BY <1>2 DEF PipelineInv, Types
<1>4. \A i \in 1..Len(ticks) : ticks[i] < n
  BY <1>1, <1>2 DEF OrderInv, Reveals
<1>5. \A i \in 1..(Len(ticks) - 1) : ticks[i] < ticks[i + 1]
  BY <1>2 DEF OrderInv, SameTokenInOrder
<1>6. \A i \in 1..(Len(more) - 1) : more[i] < more[i + 1]
  <2> SUFFICES ASSUME NEW i \in 1..(Len(more) - 1) PROVE more[i] < more[i + 1]
    OBVIOUS
  <2>1. CASE i = Len(ticks)
    <3>1. i \in 1..Len(ticks) /\ i + 1 = Len(ticks) + 1
      BY <2>1, <1>2
    <3> QED
      BY <3>1, <1>2, <1>4
  <2>2. CASE i # Len(ticks)
    <3>1. i \in 1..(Len(ticks) - 1) /\ i \in 1..Len(ticks) /\ i + 1 \in 1..Len(ticks)
      BY <2>2, <1>2
    <3> QED
      BY <3>1, <1>2, <1>5
  <2> QED
    BY <2>1, <2>2
<1>7. SameTokenInOrder'
  <2>1. ASSUME NEW s \in Tokens, NEW i \in 1..(Len(shown'[s]) - 1)
        PROVE  shown'[s][i] < shown'[s][i + 1]
    <3>1. CASE s = t
      BY <3>1, <2>1, <1>3, <1>6
    <3>2. CASE s # t
      BY <3>2, <2>1, <1>3 DEF OrderInv, SameTokenInOrder
    <3> QED
      BY <3>1, <3>2
  <2> QED
    BY <2>1 DEF SameTokenInOrder
<1>8. \A v \in Workers, s \in Tokens : ~Shows(v, s)'
  BY <1>2 DEF Shows
<1> QED
  BY <1>7, <1>8 DEF OrderInv

LEMMA OrderRest ==
  ASSUME OrderInv, shown' = shown,
         \A v \in Workers : worker'[v].pc = "show" => worker'[v] = worker[v]
  PROVE  OrderInv'
<1>1. \A v \in Workers, s \in Tokens :
        Shows(v, s)' => Shows(v, s) /\ worker'[v].tick = worker[v].tick
  BY DEF Shows
<1> QED
  BY <1>1 DEF OrderInv, SameTokenInOrder

-----------------------------------------------------------------------------
(* One thread: a candle is its ticks, and a closed row stays *)

LEMMA CandlesInit ==
  ASSUME PipelineAssumption, Init
  PROVE  CandlesInv
<1>1. /\ \A t \in Tokens : candle[t] = NoCandle /\ candle[t].bucket = 0
      /\ \A t \in Tokens, b \in Buckets : handled[t][b] = <<>>
      /\ \A w \in Workers : worker[w].pc = "idle"
      /\ bucket = 1
  BY DEF Init, NoCandle, Free
<1>2. Timely
  BY <1>1 DEF Timely
<1>3. CandleIsItsTicks /\ RowsAreTrue
  BY <1>1 DEF CandleIsItsTicks, RowsAreTrue
<1>4. ClosedIsStored
  BY <1>1 DEF ClosedIsStored
<1> QED
  BY <1>2, <1>3, <1>4 DEF CandlesInv

\* A step that leaves candles and rows alone: a thread without rows to store comes
\* out of it with a period that is not behind the candle's.
LEMMA CandlesRest ==
  ASSUME PipelineAssumption, Types, CandlesInv,
         candle' = candle, stored' = stored, handled' = handled, refused' = refused,
         bucket' \in Buckets, bucket <= bucket',
         \A v \in Workers :
           \/ worker'[v] = worker[v]
           \/ /\ worker'[v].pc # "store" /\ (worker[v].pc = "store" => worker[v].rows = <<>>)
              /\ worker'[v].pc = "fold" =>
                   worker'[v].token \in Tokens /\ worker'[v].at = bucket /\ worker'[v].at <= bucket'
  PROVE  CandlesInv'
<1>1. bucket \in Nat /\ bucket' \in Nat /\ \A t \in Tokens : candle[t].bucket \in Nat
  BY DEF Types, Buckets, Candle
<1>2. \A t \in Tokens : candle[t].bucket <= bucket /\ candle[t].bucket <= bucket'
  BY <1>1 DEF CandlesInv, Timely
<1>3. ASSUME NEW v \in Workers, worker'[v].pc = "fold"
      PROVE  candle[worker'[v].token].bucket <= worker'[v].at /\ worker'[v].at <= bucket'
  <2>1. CASE worker'[v] = worker[v]
    <3>1. /\ candle[worker[v].token].bucket <= worker[v].at /\ worker[v].at <= bucket
          /\ worker[v].at \in Nat
      BY <2>1, <1>3 DEF CandlesInv, Timely, Types, Thread
    <3> QED
      BY <2>1, <3>1, <1>1
  <2>2. CASE worker'[v] # worker[v]
    BY <2>2, <1>2, <1>3
  <2> QED
    BY <2>1, <2>2
<1>4. Timely'
  BY <1>2, <1>3 DEF CandlesInv, Timely
<1>5. CandleIsItsTicks'
  BY DEF CandlesInv, CandleIsItsTicks, Extremes
<1>6. RowsAreTrue'
  <2> SUFFICES ASSUME NEW v \in Workers, worker'[v].pc = "store", NEW i \in DOMAIN worker'[v].rows
               PROVE  /\ worker'[v].rows[i].bucket <= candle[worker'[v].token].bucket
                      /\ Extremes(worker'[v].rows[i], handled[worker'[v].token][worker'[v].rows[i].bucket])
    BY DEF RowsAreTrue, Extremes
  <2>1. worker'[v] = worker[v]
    OBVIOUS
  <2> QED
    BY <2>1 DEF CandlesInv, RowsAreTrue
<1>7. ASSUME NEW t \in Tokens, NEW b \in Buckets, Due(t, b) PROVE Due(t, b)'
  <2>1. PICK v \in Workers : /\ worker[v].pc = "store" /\ worker[v].token = t
                             /\ \E i \in DOMAIN worker[v].rows : worker[v].rows[i].bucket = b
    BY <1>7 DEF Due
  <2>2. worker[v].rows # <<>>
    BY <2>1
  <2>3. worker'[v] = worker[v]
    BY <2>1, <2>2
  <2> QED
    BY <2>1, <2>3 DEF Due
<1>8. ClosedIsStored'
  BY <1>7 DEF CandlesInv, ClosedIsStored, Extremes
<1> QED
  BY <1>4, <1>5, <1>6, <1>8 DEF CandlesInv

LEMMA CandlesFold ==
  ASSUME PipelineAssumption, Types, CandlesInv, NEW w, Workers = {w},
         NEW due \in BOOLEAN, Fold(w, due)
  PROVE  CandlesInv'
<1> DEFINE t == worker[w].token
           b == worker[w].at
           n == worker[w].tick
           next == FoldedCandle(w)
           rows == FoldedRows(w, due)
           ticks == handled[t][b]
           more == Append(ticks, n)
<1> HIDE DEF t, b, n, next, rows
<1>1. Folds(w, t, b, n, next, rows)
  BY FoldEffect DEF t, b, n, next, rows
<1>2. ticks \in Seq(Ticks) /\ candle[t] \in Candle
  BY <1>1 DEF Folds, Types
<1> HIDE DEF ticks, more
<1>3. /\ \A v \in Workers : worker[v].pc = "fold"
      /\ \A v \in Workers : worker'[v].pc = "store" /\ worker'[v].token = t /\ worker'[v].rows = rows
  BY <1>1 DEF Folds, Types, Thread
<1>4. /\ candle'[t] = next /\ next.bucket = b
      /\ \A s \in Tokens \ {t} : candle'[s] = candle[s] /\ handled'[s] = handled[s]
      /\ handled'[t][b] = more /\ \A x \in Buckets \ {b} : handled'[t][x] = handled[t][x]
      /\ bucket' = bucket /\ stored' = stored /\ refused' = refused
  BY <1>1 DEF Folds, Types, Fold, more, ticks
<1>5. /\ b \in Nat /\ bucket \in Nat /\ candle[t].bucket \in 0..MaxBuckets /\ MaxBuckets \in Nat
      /\ t \in Tokens /\ b \in Buckets /\ n \in Ticks
  <2>1. bucket \in Buckets /\ t \in Tokens /\ b \in Buckets /\ n \in Ticks
    BY <1>1 DEF Folds, Types
  <2>2. candle[t].bucket \in 0..MaxBuckets /\ MaxBuckets \in Nat
    BY <1>2 DEF Candle, PipelineAssumption
  <2> QED
    BY <2>1, <2>2 DEF Buckets
<1>6. candle[t].bucket <= b /\ b <= bucket
  BY <1>1, <1>3 DEF CandlesInv, Timely, Folds
<1>7. Extremes(next, more)
  <2>1. CASE candle[t].bucket = b
    <3>1. next = Folded(candle[t], PriceOf[n])
      BY <1>1, <2>1 DEF Folds
    <3>2. Extremes(candle[t], ticks)
      BY <2>1, <1>5 DEF CandlesInv, CandleIsItsTicks, ticks, Buckets
    <3>3. ticks # <<>>
      <4>1. PICK k \in ToSet(ticks) : candle[t].high = PriceOf[k]
        BY <3>2 DEF Extremes
      <4> QED
        BY <4>1 DEF ToSet
    <3> QED
      BY <3>1, <3>2, <3>3, <1>2, <1>5, FoldedIsItsTicks DEF more
  <2>2. CASE candle[t].bucket # b
    <3>1. next = Opening(b, PriceOf[n])
      BY <1>1, <2>2 DEF Folds
    <3>2. b > candle[t].bucket
      BY <2>2, <1>5, <1>6
    <3>3. ticks = <<>>
      BY <3>2, <1>5 DEF CandlesInv, Timely, ticks
    <3> QED
      BY <3>1, <3>3, <1>5, OpeningIsItsTick DEF more
  <2> QED
    BY <2>1, <2>2
<1>8. Timely'
  <2>1. \A s \in Tokens : candle'[s].bucket <= bucket'
    BY <1>4, <1>6 DEF CandlesInv, Timely
  <2>2. ASSUME NEW s \in Tokens, NEW x \in Buckets, x > candle'[s].bucket
        PROVE  handled'[s][x] = <<>>
    <3>1. CASE s = t
      <4>1. x # b /\ x > candle[t].bucket
        BY <3>1, <2>2, <1>4, <1>5, <1>6 DEF Buckets
      <4> QED
        BY <4>1, <3>1, <1>4, <1>5 DEF CandlesInv, Timely
    <3>2. CASE s # t
      BY <3>2, <2>2, <1>4 DEF CandlesInv, Timely
    <3> QED
      BY <3>1, <3>2
  <2> QED
    BY <2>1, <2>2, <1>3 DEF Timely
<1>9. CandleIsItsTicks'
  <2>1. ASSUME NEW s \in Tokens, candle'[s].bucket > 0
        PROVE  Extremes(candle'[s], handled'[s][candle'[s].bucket])
    <3>1. CASE s = t
      BY <3>1, <1>4, <1>7
    <3>2. CASE s # t
      BY <3>2, <2>1, <1>4 DEF CandlesInv, CandleIsItsTicks
    <3> QED
      BY <3>1, <3>2
  <2> QED
    BY <2>1 DEF CandleIsItsTicks, Extremes
<1>10. RowsAreTrue'
  <2>1. ASSUME NEW i \in DOMAIN rows
        PROVE  rows[i].bucket <= b /\ Extremes(rows[i], handled'[t][rows[i].bucket])
    <3>1. CASE rows[i] = next
      BY <3>1, <1>4, <1>5, <1>7
    <3>2. CASE rows[i] = candle[t] /\ candle[t].bucket \in Buckets \ {b}
      <4>1. Extremes(candle[t], handled[t][candle[t].bucket])
        BY <3>2, <1>5 DEF CandlesInv, CandleIsItsTicks, Buckets
      <4>2. handled'[t][candle[t].bucket] = handled[t][candle[t].bucket]
        BY <3>2, <1>4
      <4> QED
        BY <4>1, <4>2, <3>2, <1>6
    <3> QED
      BY <3>1, <3>2, <1>1 DEF Folds
  <2> SUFFICES ASSUME NEW v \in Workers, NEW i \in DOMAIN worker'[v].rows
               PROVE  /\ worker'[v].rows[i].bucket <= candle'[worker'[v].token].bucket
                      /\ Extremes(worker'[v].rows[i], handled'[worker'[v].token][worker'[v].rows[i].bucket])
    BY DEF RowsAreTrue, Extremes
  <2>2. worker'[v].token = t /\ worker'[v].rows = rows
    BY <1>3
  <2> QED
    BY <2>1, <2>2, <1>4
<1>11. ClosedIsStored'
  <2>1. ASSUME NEW s \in Tokens, NEW x \in Buckets,
               x < candle'[s].bucket, handled'[s][x] # <<>>, x \notin refused'[s]
        PROVE  Extremes(stored'[s][x], handled'[s][x]) \/ Due(s, x)'
    <3>1. \A y \in Buckets : ~Due(s, y)
      BY <1>3 DEF Due
    <3>2. CASE s # t
      BY <3>1, <3>2, <2>1, <1>4 DEF CandlesInv, ClosedIsStored
    <3>3. CASE s = t /\ x < candle[t].bucket
      <4>1. handled'[t][x] = handled[t][x]
        BY <3>3, <1>4, <1>5, <1>6 DEF Buckets
      <4> QED
        BY <4>1, <3>1, <3>3, <2>1, <1>4 DEF CandlesInv, ClosedIsStored
    <3>4. CASE s = t /\ x = candle[t].bucket
      <4>1. x \in Buckets \ {b}
        BY <3>4, <2>1, <1>4, <1>5
      <4>2. 1 \in DOMAIN rows /\ rows[1].bucket = x
        BY <4>1, <3>4, <1>1 DEF Folds
      <4> QED
        BY <4>2, <3>4, <1>3 DEF Due
    <3>5. CASE s = t /\ x > candle[t].bucket
      <4>1. handled[t][x] = <<>>
        BY <3>5, <1>5 DEF CandlesInv, Timely
      <4>2. x # b
        BY <3>5, <2>1, <1>4, <1>5 DEF Buckets
      <4> QED
        BY <4>1, <4>2, <3>5, <2>1, <1>4
    <3> QED
      BY <3>2, <3>3, <3>4, <3>5, <1>5 DEF Buckets
  <2> QED
    BY <2>1 DEF ClosedIsStored, Extremes
<1> QED
  BY <1>8, <1>9, <1>10, <1>11 DEF CandlesInv

LEMMA CandlesStore ==
  ASSUME PipelineAssumption, Types, CandlesInv, NEW w, Workers = {w},
         NEW fails \in BOOLEAN, Store(w, fails)
  PROVE  CandlesInv'
<1> DEFINE t == worker[w].token
           r == worker[w].rows
           c == Head(r)
           rows == Tail(r)
<1> HIDE DEF t, r, c, rows
<1>1. Stores(w, fails, t, c, r, rows)
  BY StoreEffect DEF t, r, c, rows
<1>2. /\ \A v \in Workers : worker[v].pc = "store" /\ worker[v].token = t /\ worker[v].rows = r
      /\ \A v \in Workers : worker'[v].pc = "store" /\ worker'[v].token = t /\ worker'[v].rows = rows
  BY <1>1 DEF Stores, Types, Thread
<1>3. candle' = candle /\ handled' = handled /\ bucket' = bucket
  BY DEF Store
<1>4. Timely' /\ CandleIsItsTicks'
  BY <1>2, <1>3 DEF CandlesInv, Timely, CandleIsItsTicks, Extremes
<1>5. \A i \in DOMAIN r : r[i].bucket <= candle[t].bucket /\ Extremes(r[i], handled[t][r[i].bucket])
  BY <1>2 DEF CandlesInv, RowsAreTrue
<1>6. RowsAreTrue'
  <2>1. \A i \in DOMAIN rows :
          rows[i].bucket <= candle[t].bucket /\ Extremes(rows[i], handled[t][rows[i].bucket])
    BY <1>1, <1>5 DEF Stores
  <2> QED
    BY <2>1, <1>2, <1>3 DEF RowsAreTrue, Extremes
<1>7. ASSUME NEW x \in Buckets, Due(t, x), x # c.bucket
      PROVE  \E i \in DOMAIN rows : rows[i].bucket = x
  <2>1. PICK i \in DOMAIN r : r[i].bucket = x
    BY <1>2, <1>7 DEF Due
  <2>2. i # 1
    BY <2>1, <1>1, <1>7 DEF Stores
  <2>3. i - 1 \in DOMAIN rows /\ rows[i - 1] = r[i]
    <3>1. i - 1 \in DOMAIN rows /\ (i - 1) + 1 = i
      BY <2>1, <2>2, <1>1 DEF Stores
    <3> QED
      BY <3>1, <1>1 DEF Stores
  <2> QED
    BY <2>1, <2>3
<1>8. ClosedIsStored'
  <2>1. ASSUME NEW s \in Tokens, NEW x \in Buckets,
               x < candle[s].bucket, handled[s][x] # <<>>, x \notin refused'[s]
        PROVE  Extremes(stored'[s][x], handled[s][x]) \/ Due(s, x)'
    <3>1. CASE s # t
      <4>1. refused'[s] = refused[s] /\ stored'[s] = stored[s]
        BY <3>1, <1>1 DEF Stores, Types
      <4>2. ~Due(s, x)
        BY <3>1, <1>2 DEF Due
      <4> QED
        BY <4>1, <4>2, <2>1 DEF CandlesInv, ClosedIsStored
    <3>2. CASE s = t /\ x # c.bucket
      <4>1. x \notin refused[t] /\ stored'[t][x] = stored[t][x]
        BY <3>2, <2>1, <1>1 DEF Stores, Types
      <4>2. Extremes(stored[t][x], handled[t][x]) \/ Due(t, x)
        BY <4>1, <3>2, <2>1 DEF CandlesInv, ClosedIsStored
      <4>3. CASE Due(t, x)
        <5>1. \E i \in DOMAIN rows : rows[i].bucket = x
          BY <4>3, <3>2, <1>7
        <5> QED
          BY <5>1, <3>2, <1>2 DEF Due
      <4> QED
        BY <4>1, <4>2, <4>3, <3>2
    <3>3. CASE s = t /\ x = c.bucket
      <4>1. ~fails
        BY <3>3, <2>1, <1>1 DEF Stores, Types
      <4>2. stored'[t][x] = c
        BY <4>1, <3>3, <1>1 DEF Stores, Types
      <4>3. Extremes(c, handled[t][x])
        BY <3>3, <1>1, <1>5 DEF Stores
      <4> QED
        BY <4>2, <4>3, <3>3
    <3> QED
      BY <3>1, <3>2, <3>3
  <2> QED
    BY <2>1, <1>3 DEF ClosedIsStored, Extremes
<1> QED
  BY <1>4, <1>6, <1>8 DEF CandlesInv

-----------------------------------------------------------------------------
(* What one thread keeps *)

OneThreadInv == PipelineInv /\ OrderInv /\ CandlesInv

LEMMA OneThreadInit ==
  ASSUME PipelineAssumption, Init
  PROVE  OneThreadInv
<1>1. \A t \in Tokens : shown[t] = <<>> /\ DOMAIN shown[t] = {} /\ Len(shown[t]) = 0
  BY DEF Init
<1>2. \A w \in Workers, t \in Tokens : ~Shows(w, t)
  BY DEF Init, Free, Shows
<1>3. OrderInv
  BY <1>1, <1>2 DEF OrderInv, SameTokenInOrder
<1> QED
  BY <1>3, PipelineInit, CandlesInit DEF OneThreadInv

LEMMA OneThreadWork ==
  ASSUME PipelineAssumption, OneThreadInv, NEW w, Workers = {w}, Work(w)
  PROVE  OrderInv' /\ CandlesInv'
<1>1. Types /\ PipelineInv /\ OrderInv /\ CandlesInv /\ w \in Workers
  BY DEF OneThreadInv, PipelineInv
<1>2. /\ worker \in [Workers -> Thread] /\ Sound(worker[w]) /\ bucket \in Buckets
      /\ bucket <= bucket
  BY <1>1 DEF Types, Buckets
<1>3. CASE Take(w)
  <2>1. OrderInv'
    BY <1>1, <1>3, OrderTake
  <2>2. /\ candle' = candle /\ stored' = stored /\ handled' = handled /\ refused' = refused
        /\ bucket' = bucket /\ worker[w].pc = "idle" /\ worker'[w].pc = "show"
    BY <1>2, <1>3 DEF Take, Free
  <2>3. CandlesInv'
    BY <2>2, <1>1, <1>2, CandlesRest
  <2> QED
    BY <2>1, <2>3
<1>4. CASE Show(w)
  <2>1. OrderInv'
    BY <1>1, <1>4, OrderShow
  <2>2. /\ candle' = candle /\ stored' = stored /\ handled' = handled /\ refused' = refused
        /\ bucket' = bucket /\ worker[w].pc = "show" /\ worker'[w].pc = "fold"
        /\ worker'[w].token = worker[w].token /\ worker'[w].at = bucket
    BY <1>2, <1>4 DEF Show, Thread
  <2>3. worker[w].token \in Tokens
    BY <2>2, <1>2 DEF Sound
  <2>4. CandlesInv'
    BY <2>2, <2>3, <1>1, <1>2, CandlesRest
  <2> QED
    BY <2>1, <2>4
<1>5. CASE Done(w)
  <2>1. /\ candle' = candle /\ stored' = stored /\ handled' = handled /\ refused' = refused
        /\ bucket' = bucket /\ worker[w].rows = <<>> /\ worker'[w].pc = "idle" /\ shown' = shown
    BY <1>2, <1>5 DEF Done, Free
  <2>2. OrderInv'
    BY <2>1, <1>1, OrderRest
  <2>3. CandlesInv'
    BY <2>1, <1>1, <1>2, CandlesRest
  <2> QED
    BY <2>2, <2>3
<1>6. ASSUME NEW due \in BOOLEAN, Fold(w, due) PROVE OrderInv' /\ CandlesInv'
  <2>1. worker'[w].pc = "store" /\ shown' = shown
    BY <1>2, <1>6 DEF Fold
  <2>2. OrderInv'
    BY <2>1, <1>1, OrderRest
  <2> QED
    BY <2>2, <1>1, <1>6, CandlesFold
<1>7. ASSUME NEW fails \in BOOLEAN, Store(w, fails) PROVE OrderInv' /\ CandlesInv'
  <2>1. worker'[w].pc = "store" /\ shown' = shown
    BY <1>2, <1>7 DEF Store
  <2>2. OrderInv'
    BY <2>1, <1>1, OrderRest
  <2> QED
    BY <2>2, <1>1, <1>7, CandlesStore
<1> QED
  BY <1>3, <1>4, <1>5, <1>6, <1>7 DEF Work

LEMMA OneThreadStep ==
  ASSUME PipelineAssumption, NEW w, Workers = {w}, OneThreadInv, [Next]_vars
  PROVE  OneThreadInv'
<1>1. Types /\ PipelineInv /\ OrderInv /\ CandlesInv
  BY DEF OneThreadInv, PipelineInv
<1>2. PipelineInv'
  BY <1>1, PipelineStep
<1>3. bucket \in Buckets /\ bucket' \in Buckets /\ bucket \in Nat
  BY <1>1, <1>2 DEF PipelineInv, Types, Buckets
<1>4. CASE \E t \in Tokens : Put(t)
  <2>1. /\ candle' = candle /\ stored' = stored /\ handled' = handled /\ refused' = refused
        /\ bucket' = bucket /\ worker' = worker /\ shown' = shown /\ bucket <= bucket'
    BY <1>3, <1>4 DEF Put
  <2>2. OrderInv' /\ CandlesInv'
    BY <2>1, <1>1, <1>3, OrderPut, CandlesRest
  <2> QED
    BY <2>2, <1>2 DEF OneThreadInv
<1>5. CASE \E v \in Workers : Work(v)
  BY <1>2, <1>5, OneThreadWork DEF OneThreadInv
<1>6. CASE Clock \/ UNCHANGED vars
  <2>1. /\ candle' = candle /\ stored' = stored /\ handled' = handled /\ refused' = refused
        /\ worker' = worker /\ shown' = shown /\ bucket <= bucket'
    BY <1>3, <1>6 DEF Clock, vars
  <2>2. OrderInv' /\ CandlesInv'
    BY <2>1, <1>1, <1>3, OrderPut, CandlesRest
  <2> QED
    BY <2>2, <1>2 DEF OneThreadInv
<1> QED
  BY <1>4, <1>5, <1>6 DEF Next

THEOREM OneThreadInvariance ==
  ASSUME PipelineAssumption, NEW w, Workers = {w}
  PROVE  Spec => []OneThreadInv
<1>1. Init => OneThreadInv
  BY OneThreadInit
<1>2. OneThreadInv /\ [Next]_vars => OneThreadInv'
  BY OneThreadStep
<1> QED
  BY <1>1, <1>2, PTL DEF Spec

\* "never processed out of order for the same token" (tick_coalescer.py:148) is so
\* with one thread per mailbox, whatever is replaced in between.
THEOREM OneThreadKeepsOrder ==
  ASSUME PipelineAssumption, NEW w, Workers = {w}
  PROVE  Spec => []SameTokenInOrder
<1>1. OneThreadInv => SameTokenInOrder
  BY DEF OneThreadInv, OrderInv
<1> QED
  BY <1>1, OneThreadInvariance, PTL

\* The running candle is the open, high, low and close of the ticks handled in its
\* period (_update_timeframe).
THEOREM OneThreadKeepsCandles ==
  ASSUME PipelineAssumption, NEW w, Workers = {w}
  PROVE  Spec => []CandleIsItsTicks
<1>1. OneThreadInv => CandleIsItsTicks
  BY DEF OneThreadInv, CandlesInv
<1> QED
  BY <1>1, OneThreadInvariance, PTL

\* The stored row of a period that was closed is what its ticks came to, unless the
\* database refused it (_persist): no throttled or older copy remains.
THEOREM OneThreadClosesRows ==
  ASSUME PipelineAssumption, NEW w, Workers = {w}
  PROVE  Spec => []ClosedRowIsFinal
<1>1. OneThreadInv => ClosedRowIsFinal
  <2> SUFFICES ASSUME OneThreadInv, NEW t \in Tokens, NEW b \in Buckets,
                      b < candle[t].bucket, handled[t][b] # <<>>, b \notin refused[t],
                      \A v \in Workers : worker[v].token # t
               PROVE  Extremes(stored[t][b], handled[t][b])
    BY DEF ClosedRowIsFinal
  <2>1. ~Due(t, b)
    BY DEF Due
  <2> QED
    BY <2>1 DEF OneThreadInv, CandlesInv, ClosedIsStored
<1> QED
  BY <1>1, OneThreadInvariance, PTL

=============================================================================
