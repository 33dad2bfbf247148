SPECIFICATION FairSpec
CONSTANTS
  s1 = s1
  s2 = s2
  Signals = {s1}
  Underlying <- OneIndex
  Workers = {w1, w2}
  Lot = 1
  MaxPositions = 1
  MaxExits = 1
  MaxCrashes = 1
  AckIsFinal = TRUE
  ClaimsSpanSweeps = FALSE
  NoJournal = NoJournal
PROPERTY
  DeadEntryIsReleased
