\* One instance that may crash or be stopped anywhere, and starts once more.
SPECIFICATION FairSpec
CONSTANTS
  c1 = c1
  c2 = c2
  Instance = {c1}
  Event <- GatedEvent
  Assigned <- AllGated
  Half = 2
  NoSkymap = NoSkymap
  MinSnr = 4
  MaxFar = 5
  FreshGroup = FALSE
  MaxStarts = 2
  MaxFailures = 0
  MaxRewinds = 0
INVARIANTS
  SavedWhenIdle
  ArchiveCoversRedis
PROPERTIES
  WindowsSurvive
  SavedIdIsTaken
  SavedTimeline
  EventuallyRecorded
\* A stopped container that may not start again in the model does nothing.
CHECK_DEADLOCK FALSE
