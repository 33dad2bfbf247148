---------------------------- MODULE MCLiveOrders ----------------------------
(***************************************************************************)
(* Instances of LiveOrders for TLC.                                        *)
(***************************************************************************)
EXTENDS LiveOrders, TLC

CONSTANTS s1, s2

\* Every signal trades the same index.
OneIndex == [s \in Signals |-> "NIFTY"]

WorkersAreAlike == Permutations(Workers)
=============================================================================
