SPECIFICATION BenchSpec
CONSTANTS
  s1 = s1
  s2 = s2
  w1 = w1
  w2 = w2
  NoJournal = NoJournal
  Cyclers = {w1, w2}
  Squarers = {1}
  InitialCash = 10
  Asks = {4}
  Bids = {2, 5}
  Risks = {2}
  RewardRisk = 2
  Charges = {1}
  MaxEntries = 2
  MaxCrashes = 0
  Focuses = {"pair", "race", "request", "limit", "async", "paper", "slot", "square_off"}
CHECK_DEADLOCK FALSE
SYMMETRY Symmetry
INVARIANTS
  TypesOK
  BooksBalance
  LedgersMatchRows
  
  
  OneEntryPerKey
  AnswersHold
PROPERTIES
  ClosedIsFinal
  RiskPerTradeHolds
  
