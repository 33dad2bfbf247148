---------------------------- MODULE SignalLedger ----------------------------
(***************************************************************************)
(* What the live executor promises about one signal, seen from the broker  *)
(* account: it is entered at most once, what it bought is sold at most     *)
(* once, and its result is credited to the account once, when it is flat.  *)
(* LiveOrders implements this with journals, pollers and a reconciler.     *)
(***************************************************************************)
EXTENDS Naturals

CONSTANTS Signals, Lot

VARIABLES
  fate,      \* where the signal stands
  bought,    \* units the broker bought for it
  sold,      \* units the broker sold for it
  credited   \* units whose result the account has received

vars == <<fate, bought, sold, credited>>

TypeOK ==
  /\ fate \in [Signals -> {"offered", "trading", "dropped", "settled"}]
  /\ bought \in [Signals -> 0..Lot]
  /\ sold \in [Signals -> 0..Lot]
  /\ credited \in [Signals -> 0..Lot]

Init ==
  /\ fate = [s \in Signals |-> "offered"]
  /\ bought = [s \in Signals |-> 0]
  /\ sold = [s \in Signals |-> 0]
  /\ credited = [s \in Signals |-> 0]

Enter(s) ==
  /\ fate[s] = "offered"
  /\ fate' = [fate EXCEPT ![s] = "trading"]
  /\ UNCHANGED <<bought, sold, credited>>

\* A signal is dropped only while nothing was bought for it, and for good. A
\* mode change drops several at once.
Drop ==
  /\ \E S \in SUBSET Signals :
       /\ \A s \in S : fate[s] \in {"offered", "trading"} /\ bought[s] = 0
       /\ fate' = [s \in Signals |-> IF s \in S THEN "dropped" ELSE fate[s]]
  /\ UNCHANGED <<bought, sold, credited>>

\* Nothing is bought once the exit has begun.
Buy(s) ==
  /\ fate[s] = "trading"
  /\ bought[s] < Lot /\ sold[s] = 0
  /\ bought' = [bought EXCEPT ![s] = @ + 1]
  /\ UNCHANGED <<fate, sold, credited>>

Sell(s) ==
  /\ fate[s] = "trading"
  /\ sold[s] < bought[s]
  /\ sold' = [sold EXCEPT ![s] = @ + 1]
  /\ UNCHANGED <<fate, bought, credited>>

Settle(s) ==
  /\ fate[s] = "trading"
  /\ bought[s] > 0 /\ sold[s] = bought[s]
  /\ fate' = [fate EXCEPT ![s] = "settled"]
  /\ credited' = [credited EXCEPT ![s] = bought[s]]
  /\ UNCHANGED <<bought, sold>>

Next ==
  \/ Drop
  \/ \E s \in Signals : Enter(s) \/ Buy(s) \/ Sell(s) \/ Settle(s)

Spec == Init /\ [][Next]_vars
=============================================================================
