SPECIFICATION ClockSpec
CONSTANTS
    LastYear = 2026
    Moments <- MCMoments
INVARIANTS
    NoticeTimeIsRight
    AlertTimeIsRight
CHECK_DEADLOCK FALSE
