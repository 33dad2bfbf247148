SPECIFICATION FairSpec
CONSTANTS
  Focuses = {"feed_short", "tick", "sync_alone", "quotes", "gate_deaths", "contest_short", "session_short", "ingest", "lookup", "alerts_short", "board_short"}
CHECK_DEADLOCK FALSE
PROPERTIES
  
  NewestIsShown
  ExpiryComesBack
  ChampionComesBack
  TradesResolve
