SPECIFICATION Spec
CONSTANTS
  s1 = s1
  s2 = s2
  Signals = {s1}
  Underlying <- OneIndex
  Workers = {w1, w2}
  Lot = 2
  MaxPositions = 1
  MaxExits = 2
  MaxCrashes = 1
  AckIsFinal = TRUE
  ClaimsSpanSweeps = FALSE
  NoJournal = NoJournal
SYMMETRY WorkersAreAlike
INVARIANTS
  TypeOK
  PnlBookedOnce
  
  NoReversal
  ResolvedMatchesBroker
PROPERTY
  ImplementsLedger
