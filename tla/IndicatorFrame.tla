--------------------------- MODULE IndicatorFrame ---------------------------
(***************************************************************************)
(* The indicators of a candle frame (market_data/indicators.py): of its    *)
(* newest closed bar for the live decisions, and of any bar for the        *)
(* replays, each built by a function of its own.                           *)
(*                                                                         *)
(* Prices are multiples of Scale, a power of two at which every division   *)
(* of a smoothing is exact: a series is one of integers. The lengths are   *)
(* shortened; an average of length L has the weight 1/L (Wilder) or        *)
(* 2/(L+1) for the newest value, here one over a constant. Ratios are      *)
(* pairs <<part, whole>>.                                                  *)
(***************************************************************************)
EXTENDS Integers, Sequences, SequencesExt, FiniteSetsExt, TLC

CONSTANTS
  Scale,
  Fast, Slow,  \* one over the weight of ema9 and ema12, of ema21 and ema26
  Wilder,      \* the length of RSI, ATR and ADX
  Window,      \* the length of the Bollinger bands and of the average volume
  Steps,       \* the SAR's acceleration goes 1/Steps, 2/Steps .. MaxStep/Steps
  MaxStep,
  Limit,       \* rows load_candle_frame reads
  MinCandles   \* MIN_CANDLES_REQUIRED

FrameAssumption ==
  /\ {Scale, Fast, Slow, Wilder, Window, Steps, MaxStep, Limit, MinCandles} \subseteq Nat \ {0}
  /\ MinCandles >= 2 * Wilder /\ MinCandles >= Window

Abs(x) == IF x < 0 THEN -x ELSE x
Lesser(x, y) == IF x < y THEN x ELSE y
Greater(x, y) == IF x > y THEN x ELSE y
Total(f, S) == FoldSet(LAMBDA i, sum : sum + f[i], 0, S)

\* ewm(adjust=False) of a series that begins at index first.
Smoothed(x, first, weight) ==
  LET y[i \in first..Len(x)] ==
        IF i = first THEN x[i] ELSE LET last == y[i - 1] IN last + (x[i] - last) \div weight
  IN y

Change(f, i) == [rise |-> Greater(f[i] - f[i - 1], 0), fall |-> Greater(f[i - 1] - f[i], 0)]

\* _rsi, from the second bar on; without a loss it is 100, in a flat market too.
Rsi(close, i) ==
  LET gain == Smoothed([j \in DOMAIN close |-> IF j = 1 THEN 0 ELSE Change(close, j).rise], 2, Wilder)[i]
      loss == Smoothed([j \in DOMAIN close |-> IF j = 1 THEN 0 ELSE Change(close, j).fall], 2, Wilder)[i]
  IN IF loss = 0 THEN <<1, 1>> ELSE <<gain, gain + loss>>

TrueRange(bars) ==
  [i \in DOMAIN bars |->
     IF i = 1 THEN bars[i].high - bars[i].low
     ELSE Max({bars[i].high - bars[i].low, Abs(bars[i].high - bars[i - 1].close),
               Abs(bars[i].low - bars[i - 1].close)})]

Atr(bars, i) == Smoothed(TrueRange(bars), 1, Wilder)[i]

\* _adx, in tenths of a percent. The true range divides both directions and
\* cancels; a bar that moved neither way has no direction at all.
Directional(bars) ==
  LET up(i) == bars[i].high - bars[i - 1].high
      down(i) == bars[i - 1].low - bars[i].low
      plus == [i \in DOMAIN bars |-> IF i > 1 /\ up(i) > down(i) /\ up(i) > 0 THEN up(i) ELSE 0]
      minus == [i \in DOMAIN bars |-> IF i > 1 /\ down(i) > up(i) /\ down(i) > 0 THEN down(i) ELSE 0]
      p == Smoothed(plus, 1, Wilder)
      m == Smoothed(minus, 1, Wilder)
  IN [i \in DOMAIN bars |-> IF p[i] + m[i] = 0 THEN 0 ELSE (1000 * Abs(p[i] - m[i])) \div (p[i] + m[i])]

Adx(bars, i) == Smoothed(Directional(bars), Wilder, Wilder)[i]

\* _bollinger_width by its square: the variance over the square of the mean.
BollingerWidth(close, i) ==
  LET last == (i - Window + 1)..i
      price == [j \in last |-> close[j] \div Scale]
      sum == Total(price, last)
  IN <<Window * Total([j \in last |-> price[j] * price[j]], last) - sum * sum, sum * sum>>

\* _parabolic_sar: one step of its loop from [up, sar, ep, step].
SarStep(bars, i, s) ==
  LET b == bars[i]
      before == {bars[i - 1]} \union (IF i > 2 THEN {bars[i - 2]} ELSE {})
      moved == s.sar + (s.step * (s.ep - s.sar)) \div Steps
      candidate == IF s.up THEN Min({moved} \union {c.low : c \in before})
                   ELSE Max({moved} \union {c.high : c \in before})
      further == IF s.up THEN b.high > s.ep ELSE b.low < s.ep
      ep == IF ~further THEN s.ep ELSE IF s.up THEN b.high ELSE b.low
      reverses == IF s.up THEN b.low < candidate ELSE b.high > candidate
  IN IF reverses
     THEN [up |-> ~s.up, sar |-> ep, ep |-> (IF s.up THEN b.low ELSE b.high), step |-> 1]
     ELSE [up |-> s.up, sar |-> candidate, ep |-> ep,
           step |-> IF further THEN Lesser(s.step + 1, MaxStep) ELSE s.step]

Sars(bars) ==
  LET s[i \in DOMAIN bars] ==
        IF i = 1 THEN [up |-> TRUE, sar |-> bars[1].low, ep |-> bars[1].high, step |-> 1]
        ELSE LET last == s[i - 1] IN SarStep(bars, i, last)
  IN s

\* _with_indicator_columns; the windowed ones once every window is full.
Columns(bars) ==
  LET close == [i \in DOMAIN bars |-> bars[i].close]
      fast == Smoothed(close, 1, Fast)
      slow == Smoothed(close, 1, Slow)
      macd == [i \in DOMAIN bars |-> fast[i] - slow[i]]
      signal == Smoothed(macd, 1, Fast)
      sars == Sars(bars)
  IN [i \in DOMAIN bars |->
        [close |-> close[i], ema9 |-> fast[i], ema21 |-> slow[i], macd |-> macd[i], signal |-> signal[i],
         hist |-> macd[i] - signal[i], sar |-> sars[i].sar, volume |-> bars[i].volume] @@
        (IF i < MinCandles THEN <<>>
         ELSE [rsi |-> Rsi(close, i), atr |-> Atr(bars, i), adx |-> Adx(bars, i),
               bbWidth |-> BollingerWidth(close, i),
               traded |-> Total([j \in DOMAIN bars |-> bars[j].volume], (i - Window + 1)..i)])]

\* load_candle_frame with its row limit, and _drop_unclosed_last_bar by the clock.
Loaded(stored, limit) == SubSeq(stored, Greater(1, Len(stored) - limit + 1), Len(stored))
Closed(bars, forming) == IF forming /\ bars # <<>> THEN Front(bars) ELSE bars

Streak(rows, Holds(_)) == Cardinality({i \in Greater(1, Len(rows) - 1)..Len(rows) : Holds(rows[i])})
Below(row) == row.close < row.ema9
Above(row) == row.close > row.ema9

Dict(latest, prev, window) ==
  [close |-> latest.close, ema9 |-> latest.ema9, ema21 |-> latest.ema21,
   slope9 |-> latest.ema9 - prev.ema9, slope21 |-> latest.ema21 - prev.ema21,
   macd |-> latest.macd, signal |-> latest.signal, hist |-> latest.hist, histPrev |-> prev.hist,
   rsi |-> latest.rsi, sar |-> latest.sar, atr |-> latest.atr, adx |-> latest.adx,
   bbWidth |-> latest.bbWidth, volume |-> <<latest.volume * Window, latest.traded>>,
   below |-> Streak(window, Below), above |-> Streak(window, Above)]

\* indicator_dict_at: row i of a frame whose later rows are known.
DictAt(columns, i) == Dict(columns[i], columns[i - 1], SubSeq(columns, Greater(1, i - 1), i))

\* compute_indicators; <<>> stands for None.
Newest(columns) == Dict(Last(columns), columns[Len(columns) - 1], columns)
ComputedOf(bars) == IF Len(bars) < MinCandles THEN <<>> ELSE Newest(Columns(bars))
Computed(stored, forming) == ComputedOf(Closed(Loaded(stored, Limit), forming))

\* compute_indicator_series, the chart's: the forming bar counts.
Drawn(columns) ==
  [i \in DOMAIN columns |-> [ema9 |-> columns[i].ema9, hist |-> columns[i].hist, sar |-> columns[i].sar]]
Series(stored) ==
  LET bars == Loaded(stored, Limit)
  IN IF Len(bars) < MinCandles THEN <<>> ELSE Drawn(Columns(bars))

-----------------------------------------------------------------------------
(* Properties *)

EndsIn(series, d) == Last(series) = [ema9 |-> d.ema9, hist |-> d.hist, sar |-> d.sar]
\* A replay decides on bar i by what a live process would have computed when bar
\* i was the newest closed one, in spite of the later rows beside it, and the
\* chart ends in the values the live process decides by (load_full_indicator_frame:
\* "can never silently drift"). It holds of frames within the row limit.
ReplaySeesLiveIndicators(bars) ==
  /\ \A i \in MinCandles..Len(bars) : DictAt(Columns(bars), i) = Computed(SubSeq(bars, 1, i), FALSE)
  /\ Len(bars) > MinCandles => Computed(bars, TRUE) = Computed(Front(bars), FALSE)
  /\ Len(bars) >= MinCandles => EndsIn(Series(bars), Computed(bars, FALSE))

\* Falling prices look like the rising ones they mirror: only a market without
\* any loss, flat or rising, is at 100 by the RSI, and the SAR begins upwards.
Mirrored(bars, axis) ==
  [i \in DOMAIN bars |-> [close |-> axis - bars[i].close, high |-> axis - bars[i].low,
                          low |-> axis - bars[i].high, volume |-> bars[i].volume]]
Opposed(d, e, flat, axis) ==
  /\ e.ema9 = axis - d.ema9 /\ e.ema21 = axis - d.ema21
  /\ e.slope9 = -d.slope9 /\ e.slope21 = -d.slope21
  /\ e.macd = -d.macd /\ e.signal = -d.signal /\ e.hist = -d.hist /\ e.histPrev = -d.histPrev
  /\ e.atr = d.atr /\ e.adx = d.adx /\ e.volume = d.volume
  /\ e.below = d.above /\ e.above = d.below
  /\ IF flat THEN e.rsi = d.rsi
     ELSE d.rsi[1] * e.rsi[2] + e.rsi[1] * d.rsi[2] = d.rsi[2] * e.rsi[2]
IndicatorsAreMirrored(bars, axis) ==
  Opposed(Computed(bars, FALSE), Computed(Mirrored(bars, axis), FALSE),
          \A i \in DOMAIN bars : bars[i].close = bars[1].close, axis)

\* The SAR is never inside a bar, and trails: while the trend lasts it does not
\* move back.
SarTrails(bars) ==
  LET s == Sars(bars)
  IN \A i \in DOMAIN bars :
       /\ IF s[i].up THEN s[i].sar <= bars[i].low ELSE s[i].sar >= bars[i].high
       /\ i > 1 /\ s[i].up = s[i - 1].up =>
            IF s[i].up THEN s[i].sar >= s[i - 1].sar ELSE s[i].sar <= s[i - 1].sar
=============================================================================
