SPECIFICATION Spec
CONSTANTS
  Focuses = {"switch"}
CHECK_DEADLOCK FALSE
INVARIANT
  BannerIsNotMissed
