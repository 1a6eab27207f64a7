\* Three rows of two triggers, pages of one or two, two writes while the client pages.
SPECIFICATION WalkSpec
CONSTANTS
    Id = {1, 2, 3}
    TriggerOf <- MCTriggerOf
    StageOf <- MCStageOf
    StreamOf <- MCStreamOf
    NoStream = "none"
    Visible = {"grb"}
    Listing <- Lists
    Time = {1, 2}
    Far = {1, 2}
    TierLists <- MCTierLists
    MaxLimit = 2
    MaxWrites = 2
INVARIANTS
    WalkMissesNothing
    TierIsTheStrictest
\* A client that has read the last page stops.
CHECK_DEADLOCK FALSE
