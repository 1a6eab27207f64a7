\* One topic with three records, or two with two; two stops or crashes, one failed
\* write, one posted notice.
SPECIFICATION FairSpec
CONSTANTS
    Topic <- MCTopic
    Feed <- MCFeed
    Subscriptions <- MCSubscriptions
    Posts <- MCPosts
    Superevents <- MCSuperevents
    Window = 10
    OffsetReset = "latest"
    MaxCuts = 2
    MaxFailures = 1
INVARIANTS
    CommittedIsHandled
    MocBelongsToDocument
    NewestStays
PROPERTIES
    EventuallyHandled
\* When every record is handled, nothing has to happen.
CHECK_DEADLOCK FALSE
