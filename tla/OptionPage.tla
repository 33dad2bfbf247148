----------------------------- MODULE OptionPage -----------------------------
(***************************************************************************)
(* The option pages of the dashboard (frontend/src/pages/                  *)
(* OptionsAnalytics.jsx, JarvisSignalTerminal.jsx) with their hooks: the   *)
(* selected underlying and expiry, the REST answers asked for them, and    *)
(* the ticks merged into the chain. A request holds while the effect that  *)
(* made it has not run again; only some answers look at that.              *)
(***************************************************************************)
EXTENDS Integers, Sequences, FiniteSets

CONSTANTS
  Listing,    \* the expiries of each underlying, the current one first
  MaxMoves    \* bound on selections, rollovers and clicks

Underlyings == DOMAIN Listing
Expiries == UNION {{Listing[u][i] : i \in DOMAIN Listing[u]} : u \in Underlyings}
PageAssumption ==
  /\ IsFiniteSet(Underlyings) /\ Underlyings # {} /\ Expiries \subseteq Nat \ {0} /\ MaxMoves \in Nat
  /\ \A u \in Underlyings : Listing[u] # <<>>

VARIABLES
  underlying, expiry,   \* the selection, expiry 0: none yet
  picked,               \* userPickedRef
  rolled,               \* [Underlyings -> the expiries gone by]
  asked,                \* unanswered requests [kind, underlying, expiry, holds]
  chain,                \* the chain shown: [underlying, rest, ticks] or None
  strike,               \* the suggested strike's [underlying, expiry], or None
  spot,                 \* the underlying of the spot shown, or None
  failed,               \* the newest chain request failed
  moves

vars == <<underlying, expiry, picked, rolled, asked, chain, strike, spot, failed, moves>>

None == [none |-> TRUE]
Dates == Expiries \cup {0}
Requests == [kind : {"status", "chain", "strike", "spot"}, underlying : Underlyings, expiry : Dates,
             holds : BOOLEAN]
Listed(u) == {Listing[u][i] : i \in (rolled[u] + 1)..Len(Listing[u])}
Current(u) == IF Listed(u) = {} THEN 0 ELSE Listing[u][rolled[u] + 1]

TypeOK ==
  /\ underlying \in Underlyings /\ expiry \in Dates /\ picked \in BOOLEAN
  /\ \A u \in Underlyings : rolled[u] \in 0..Len(Listing[u])
  /\ asked \subseteq Requests
  /\ chain \in [underlying : Underlyings, rest : Dates, ticks : SUBSET Expiries] \cup {None}
  /\ strike \in [underlying : Underlyings, expiry : Expiries] \cup {None}
  /\ spot \in Underlyings \cup {"none"} /\ failed \in BOOLEAN /\ moves \in 0..MaxMoves

Ask(kind, u, e) == [kind |-> kind, underlying |-> u, expiry |-> e, holds |-> TRUE]
\* The clean-up of an effect, or its next request number, for requests of a kind.
Superseded(requests, kinds) ==
  {IF r.kind \in kinds THEN [r EXCEPT !.holds = FALSE] ELSE r : r \in requests}

Init ==
  /\ underlying \in Underlyings /\ expiry = 0 /\ picked = FALSE
  /\ rolled = [u \in Underlyings |-> 0]
  /\ asked = {Ask("status", underlying, 0), Ask("spot", underlying, 0)}
  /\ chain = None /\ strike = None /\ spot = "none" /\ failed = FALSE /\ moves = 0

Moves == moves < MaxMoves /\ moves' = moves + 1

\* The effect on [underlying, expiry].
Reloaded(requests, u, e) ==
  LET cleaned == Superseded(requests, {"chain"})
  IN IF e = 0 THEN cleaned ELSE cleaned \cup {Ask("chain", u, e)}

\* setUnderlying: every effect runs, the expiry is still the former underlying's.
ChooseUnderlying(u) ==
  /\ u # underlying /\ Moves /\ underlying' = u /\ picked' = FALSE
  /\ asked' = Reloaded(Superseded(asked, {"spot"}), u, expiry)
              \cup {Ask("status", u, 0), Ask("spot", u, 0)}
  /\ chain' = None /\ strike' = None /\ spot' = "none" /\ failed' = FALSE
  /\ UNCHANGED <<expiry, rolled>>

\* A new expiry in the render after it: the chain is asked for, the old rows stay.
ExpiryBecomes(e, requests) ==
  /\ expiry' = e
  /\ IF e = expiry THEN asked' = requests /\ UNCHANGED <<strike, failed>>
     ELSE asked' = Reloaded(requests, underlying, e) /\ strike' = None /\ failed' = FALSE

\* setExpiry: the dropdown, over the expiries of the last answer.
ChooseExpiry(e) ==
  /\ Moves /\ e \in Expiries /\ e # expiry /\ picked' = TRUE
  /\ ExpiryBecomes(e, asked)
  /\ UNCHANGED <<underlying, rolled, chain, spot>>

\* The poll, and the tab becoming visible.
Poll ==
  /\ asked' = asked \cup {Ask("status", underlying, 0)}
  /\ UNCHANGED <<underlying, expiry, picked, rolled, chain, strike, spot, failed, moves>>

\* fetchBestStrike, with its request number.
AskStrike ==
  /\ expiry # 0 /\ Moves
  /\ asked' = Superseded(asked, {"strike"}) \cup {Ask("strike", underlying, expiry)}
  /\ UNCHANGED <<underlying, expiry, picked, rolled, chain, strike, spot, failed>>

\* fetchStatus's answer, whatever is selected by then: a picked expiry is kept
\* while it is listed.
Status(r) ==
  LET keeps == picked /\ expiry \in Listed(r.underlying)
  IN /\ r.kind = "status" /\ picked' = keeps
     /\ ExpiryBecomes(IF keeps THEN expiry ELSE Current(r.underlying), asked \ {r})
     /\ UNCHANGED <<underlying, rolled, chain, spot, moves>>

Chain(r) ==
  /\ r.kind = "chain" /\ asked' = asked \ {r}
  /\ IF r.holds
     THEN \/ /\ chain' = [underlying |-> r.underlying, rest |-> r.expiry, ticks |-> {}]
             /\ failed' = failed
          \/ failed' = TRUE /\ chain' = chain
     ELSE UNCHANGED <<chain, failed>>
  /\ UNCHANGED <<underlying, expiry, picked, rolled, strike, spot, moves>>

Strike(r) ==
  /\ r.kind = "strike" /\ asked' = asked \ {r}
  /\ strike' = (IF r.holds THEN [underlying |-> r.underlying, expiry |-> r.expiry] ELSE strike)
  /\ UNCHANGED <<underlying, expiry, picked, rolled, chain, spot, failed, moves>>

\* useLiveIndexSpot: the answer names the index whose ticks are shown from then on.
Spot(r) ==
  /\ r.kind = "spot" /\ asked' = asked \ {r}
  /\ spot' = (IF r.holds THEN r.underlying ELSE spot)
  /\ UNCHANGED <<underlying, expiry, picked, rolled, chain, strike, failed, moves>>

\* useLiveOptionChainMerge takes ticks of the selection; a strike without that
\* contract gets it, in whatever rows are shown.
Tick(u, e) ==
  /\ u = underlying /\ e = expiry /\ e \in Expiries
  /\ chain' = (IF chain = None THEN [underlying |-> u, rest |-> 0, ticks |-> {e}]
               ELSE [chain EXCEPT !.ticks = @ \cup {e}])
  /\ UNCHANGED <<underlying, expiry, picked, rolled, asked, strike, spot, failed, moves>>

\* An expiry passes, and the backend lists it no more.
Roll(u) ==
  /\ rolled[u] < Len(Listing[u]) - 1 /\ Moves /\ rolled' = [rolled EXCEPT ![u] = @ + 1]
  /\ UNCHANGED <<underlying, expiry, picked, asked, chain, strike, spot, failed>>

Next ==
  \/ \E u \in Underlyings : ChooseUnderlying(u) \/ Roll(u)
  \/ \E e \in Expiries : ChooseExpiry(e) \/ \E u \in Underlyings : Tick(u, e)
  \/ Poll \/ AskStrike
  \/ \E r \in asked : Status(r) \/ Chain(r) \/ Strike(r) \/ Spot(r)

Spec == Init /\ [][Next]_vars

-----------------------------------------------------------------------------
(* Properties *)

\* The chain on screen is the selected underlying's, and unless its request is
\* out or has failed, all of it is the selected expiry's: no slow answer of a
\* former selection replaces it (the comment on cancelled in the chain effect).
ChainIsOfTheSelection ==
  /\ chain # None =>
       /\ chain.underlying = underlying
       /\ \/ \E r \in asked : r.kind = "chain" /\ r.holds
          \/ failed \/ expiry = 0
          \/ chain.rest = expiry /\ chain.ticks \subseteq {expiry}
  /\ spot \in {underlying, "none"}
=============================================================================
