---------------------------- MODULE ContractChart ----------------------------
(***************************************************************************)
(* The chart of one option contract (frontend/src/hooks/                   *)
(* useOptionCandles.js): the history asked over REST for the selection,    *)
(* the contract the answer resolves it to, and the socket of the bars of   *)
(* that contract. The hook has two effects: the first runs when the        *)
(* selection changes and sets state, the second in the render after it.    *)
(* Underlying, expiry and side are part of the strike.                     *)
(***************************************************************************)
EXTENDS Integers, FiniteSets, FiniteSetsExt

CONSTANTS
  Strikes, Frames,
  Listed,        \* the strikes the backend has a contract for
  MaxSelections  \* bound on selections

ChartAssumption ==
  /\ Strikes \subseteq Nat \ {0} /\ IsFiniteSet(Strikes) /\ Listed \subseteq Strikes
  /\ MaxSelections \in Nat

VARIABLES
  wanted,     \* the selection: [strike, frame] or None
  requestId,  \* requestIdRef
  asked,      \* unanswered requests: [id, strike, frame, fallback]
  contract,   \* the resolved contract's strike, 0: none
  candles,    \* [strike, frame] of the history shown, or None
  bar,        \* [strike, frame, time] of liveCandle, or None
  drawn,      \* the contract and frame the second effect last ran with
  wire,       \* [strike, frame, open] of the socket, or None
  timer,      \* a reconnect is due
  flags       \* [loading, failed, stale]

vars == <<wanted, requestId, asked, contract, candles, bar, drawn, wire, timer, flags>>

None == [none |-> TRUE]
Selections == [strike : Strikes, frame : Frames]
Times == 1..2

TypeOK ==
  /\ wanted \in Selections \cup {None} /\ requestId \in 0..MaxSelections
  /\ asked \subseteq [id : 0..MaxSelections, strike : Strikes, frame : Frames, fallback : BOOLEAN]
  /\ contract \in Strikes \cup {0} /\ candles \in Selections \cup {None}
  /\ bar \in [strike : Strikes, frame : Frames, time : Times] \cup {None}
  /\ drawn \in [contract : Strikes \cup {0}, wanted : Selections \cup {None}]
  /\ wire \in [strike : Strikes, frame : Frames, open : BOOLEAN] \cup {None}
  /\ timer \in BOOLEAN /\ flags \in [loading : BOOLEAN, failed : BOOLEAN, stale : BOOLEAN]

Init ==
  /\ wanted = None /\ requestId = 0 /\ asked = {} /\ contract = 0 /\ candles = None /\ bar = None
  /\ drawn = [contract |-> 0, wanted |-> None] /\ wire = None /\ timer = FALSE
  /\ flags = [loading |-> FALSE, failed |-> FALSE, stale |-> FALSE]

\* findNearestStrike over the loaded chain, the first of two as near.
Nearest(strike) ==
  LET Distance(s) == IF s > strike THEN s - strike ELSE strike - s
      best == {s \in Listed : \A o \in Listed : Distance(s) <= Distance(o)}
  IN IF Listed = {} THEN 0 ELSE Min(best)

\* The second effect, torn down and run again for the values of a render.
Rewired(value, selection) ==
  /\ drawn' = [contract |-> value, wanted |-> selection]
  /\ timer' = FALSE
  /\ wire' = IF value = 0 \/ selection = None THEN None
             ELSE [strike |-> value, frame |-> selection.frame, open |-> FALSE]
Frame(selection) == IF selection = None THEN {} ELSE {selection.frame}

\* The first effect. A render with another frame runs the second one too, still
\* with the former contract.
Select(s) ==
  /\ s # wanted /\ requestId < MaxSelections
  /\ wanted' = s /\ requestId' = requestId + 1
  /\ contract' = 0 /\ candles' = None /\ bar' = None
  /\ asked' = asked \cup {[id |-> requestId', strike |-> s.strike, frame |-> s.frame,
                            fallback |-> FALSE]}
  /\ IF Frame(s) # Frame(wanted)
     THEN Rewired(contract, s) /\ flags' = [loading |-> TRUE, failed |-> FALSE, stale |-> FALSE]
     ELSE /\ flags' = [flags EXCEPT !.loading = TRUE, !.failed = FALSE]
          /\ UNCHANGED <<drawn, wire, timer>>

\* The second effect depends on the contract and the frame.
DueRender == drawn.contract # contract \/ Frame(drawn.wanted) # Frame(wanted)
Render ==
  /\ DueRender /\ Rewired(contract, wanted) /\ flags' = [flags EXCEPT !.stale = FALSE]
  /\ UNCHANGED <<wanted, requestId, asked, contract, candles, bar>>

\* applyResponse.
Answer(r) ==
  /\ r \in asked /\ r.strike \in Listed /\ asked' = asked \ {r}
  /\ IF r.id = requestId
     THEN /\ contract' = r.strike /\ candles' = [strike |-> r.strike, frame |-> r.frame]
          /\ flags' = [flags EXCEPT !.loading = FALSE]
     ELSE UNCHANGED <<contract, candles, flags>>
  /\ UNCHANGED <<wanted, requestId, bar, drawn, wire, timer>>

\* A 404 is retried once with the nearest listed strike.
NotListed(r) ==
  LET near == Nearest(r.strike)
      retries == r.id = requestId /\ ~r.fallback /\ near \notin {0, r.strike}
  IN /\ r \in asked /\ r.strike \notin Listed
     /\ asked' = (IF retries THEN (asked \ {r}) \cup {[r EXCEPT !.strike = near, !.fallback = TRUE]}
                  ELSE asked \ {r})
     /\ flags' = (IF r.id = requestId /\ ~retries
                  THEN [flags EXCEPT !.loading = FALSE, !.failed = TRUE] ELSE flags)
     /\ UNCHANGED <<wanted, requestId, contract, candles, bar, drawn, wire, timer>>
Fail(r) ==
  /\ r \in asked /\ asked' = asked \ {r}
  /\ flags' = (IF r.id = requestId THEN [flags EXCEPT !.loading = FALSE, !.failed = TRUE] ELSE flags)
  /\ UNCHANGED <<wanted, requestId, contract, candles, bar, drawn, wire, timer>>

\* The socket's events. OptionCandleConsumer's group is the contract's and frame's.
Open ==
  /\ wire # None /\ ~wire.open /\ wire' = [wire EXCEPT !.open = TRUE]
  /\ flags' = [flags EXCEPT !.stale = FALSE]
  /\ UNCHANGED <<wanted, requestId, asked, contract, candles, bar, drawn, timer>>
Push(time) ==
  /\ wire # None /\ wire.open
  /\ bar' = (IF bar # None /\ time < bar.time THEN bar
             ELSE [strike |-> wire.strike, frame |-> wire.frame, time |-> time])
  /\ UNCHANGED <<wanted, requestId, asked, contract, candles, drawn, wire, timer, flags>>
Close ==
  /\ wire # None /\ wire' = None /\ timer' = TRUE /\ flags' = [flags EXCEPT !.stale = TRUE]
  /\ UNCHANGED <<wanted, requestId, asked, contract, candles, bar, drawn>>
Reconnect ==
  /\ timer /\ timer' = FALSE
  /\ wire' = [strike |-> drawn.contract, frame |-> drawn.wanted.frame, open |-> FALSE]
  /\ UNCHANGED <<wanted, requestId, asked, contract, candles, bar, drawn, flags>>

Next ==
  \/ \E s \in Selections : Select(s)
  \/ Render \/ Open \/ Close \/ Reconnect
  \/ \E r \in asked : Answer(r) \/ NotListed(r) \/ Fail(r)
  \/ \E t \in Times : Push(t)

Spec == Init /\ [][Next]_vars

-----------------------------------------------------------------------------
(* Properties *)

\* The history shown is the newest selection's, its own strike's or the nearest
\* listed one's, whatever order the answers came in; after the render due, the
\* socket is that contract's, and there is one or a reconnect (the hook's comment).
ChartShowsTheSelection ==
  /\ candles # None =>
       /\ wanted # None /\ candles.frame = wanted.frame /\ candles.strike = contract
       /\ contract = (IF wanted.strike \in Listed THEN wanted.strike ELSE Nearest(wanted.strike))
  /\ ~DueRender =>
       /\ wire # None => wire.strike = contract /\ wire.frame = wanted.frame
       /\ contract # 0 => (wire # None) # timer
       /\ contract = 0 => wire = None /\ ~timer
=============================================================================
