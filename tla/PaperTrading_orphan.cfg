SPECIFICATION Spec
CONSTANTS
  Cyclers = {c1, c2}
  Squarers = {}
  InitialCash = 10
  Asks = {4}
  Bids = {2, 6}
  Risks = {2}
  RewardRisk = 2
  Charges = {1}
  MaxEntries = 2
  MaxCrashes = 0
INVARIANTS
  UsedCapitalIsBacked
