SPECIFICATION FairBench
CONSTANTS
  s1 = s1
  s2 = s2
  w1 = w1
  w2 = w2
  NoJournal = NoJournal
  Cyclers = {1}
  Squarers = {}
  InitialCash = 10
  Asks = {4}
  Bids = {2, 6, 7}
  Risks = {2}
  RewardRisk = 2
  Charges = {1}
  MaxEntries = 2
  MaxCrashes = 0
  Focuses = {"single", "request_alone", "equity", "paper", "square_off"}
CHECK_DEADLOCK FALSE
PROPERTIES
  
  
  StopIsChecked
  SquareOffFlattens
  KillFlattens
  LinkedBuyIsDecided
  AccountHeals
