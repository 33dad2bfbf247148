----------------------------- MODULE ScalpSignal -----------------------------
(***************************************************************************)
(* The decision that turns a scalping idea on the index into a paper order *)
(* for an option contract (learning/scalp_execution.py), beside the index  *)
(* strategy's cascade whose chain, strike and model gates it shares.       *)
(*                                                                         *)
(* An idea is [entry, stop, target] of the index; a case is one of         *)
(* SignalDecisions of which view, ind, risk, chance and lot are read.      *)
(***************************************************************************)
EXTENDS SignalDecisions

\* Bullish only, by the strike rule's own choice.
Picked(case) == Suggested(case.view, "bullish", "ai", 1)

\* The idea's own shape in thousandths of the premium: its stop distance scaled by
\* the delta, its reward as a multiple of that distance.
OptionLevels(contract, idea) ==
  LET entry == 1000 * contract.ltp
      index == idea.entry - idea.stop
      premium == 10 * index * Gap(contract.delta, 0)
  IN [entry |-> entry, stop |-> entry - premium,
      target |-> entry + (premium * (idea.target - idea.entry)) \div index]

\* The first check that fails; the risk engine sizes in the premium. What holds the
\* index strategy back - the flow, the chain's quality, the contract's liquidity -
\* is not asked, and the size is not scaled by regime or model.
ScalpStage(case, idea) ==
  LET contract == CHOOSE c \in Picked(case) : TRUE
  IN IF case.view.chain = {} THEN "expiry"
     ELSE IF Picked(case) = {} THEN "strike"
     ELSE IF OptionLevels(contract, idea).stop <= 0 THEN "stop"
     ELSE IF ~case.risk.approved THEN "risk"
     ELSE IF LowConfidence(case.chance) THEN "ml_confidence"
     ELSE IF case.risk.size < case.lot THEN "lot_size"
     ELSE "approved"

\* The signal that is executed. Its technical score: the share of the bullish
\* conditions that hold, which does not gate it.
ScalpOrder(case, idea) ==
  LET contract == CHOOSE c \in Picked(case) : TRUE
  IN OptionLevels(contract, idea) @@
     [contract |-> contract, size |-> (case.risk.size \div case.lot) * case.lot,
      score |-> <<Cardinality(Matched(Bullish(case.ind))), Cardinality(DOMAIN Bullish(case.ind))>>]

-----------------------------------------------------------------------------
(* Properties *)

\* An executed scalp is a call with its stop under and its target over a real
\* premium, in whole lots within the approved size, and its reward to risk is the
\* idea's, whichever contract is picked ("THIS method's own reward:risk shape").
\* The model vetoes it where it vetoes the index strategy's setup.
ScalpKeepsItsShape(case, idea) ==
  /\ ScalpStage(case, idea) = "approved" =>
       LET o == ScalpOrder(case, idea)
       IN /\ o.contract.type = "CE" /\ 0 < o.stop /\ o.stop < o.entry /\ o.entry < o.target
          /\ o.size > 0 /\ o.size % case.lot = 0 /\ o.size <= case.risk.size
          /\ (o.target - o.entry) * (idea.entry - idea.stop) = (o.entry - o.stop) * (idea.target - idea.entry)
  /\ Stage(case, "ai") = "ml_confidence" => ScalpStage(case, idea) # "approved"
=============================================================================
