SPECIFICATION Spec
CONSTANTS
  Focuses = {"feed", "tick", "tick_two", "sync", "broker", "gate", "gate_policy", "gate_scalp", "contest", "review", "indicators", "chain", "setup", "frame", "session", "session_two", "panel", "switch", "chart", "page", "candles", "readings", "scalps", "ingest", "history", "alerts", "board", "features", "entries", "curves", "closed", "chat", "chat_twice", "delivery", "news", "overnight", "stocks", "headlines", "nights"}
CHECK_DEADLOCK FALSE
INVARIANTS
  TypeOK
  BeliefIsStreamed
  
  SuccessorPassesTheGate
  OneRowPerFact
  AppliedWasApproved
  DecisionsAreMirrored
  AlgorithmsMeetReferences
  ViewIsCurrent
PROPERTIES
  OrderSentOnce
  PassedStaysInactive
