SPECIFICATION ClockSpec
CONSTANTS
    LastYear = 2001
    Moments <- MCMoments
INVARIANTS
    FermiEpochIsRight
CHECK_DEADLOCK FALSE
