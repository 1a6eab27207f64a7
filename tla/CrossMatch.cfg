SPECIFICATION FairSpec
CONSTANTS
  grb = grb
  frb = frb
  Trigger = {grb, frb}
  AutoMatched = {grb}
  Bounds <- MCBounds
INVARIANTS
  NoMissedMatch
  NeverDoublyStale
PROPERTIES
  EventuallyMatched
\* When every sky map and notice has come, nothing has to happen.
CHECK_DEADLOCK FALSE
