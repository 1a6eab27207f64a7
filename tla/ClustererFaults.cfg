\* One instance that never crashes; any two effects or localizations fail, and
\* the bayestar-service restarts once.
SPECIFICATION Spec
CONSTANTS
  c1 = c1
  c2 = c2
  Instance = {c1}
  Event <- GatedEvent
  Assigned <- AllGated
  Half = 2
  NoSkymap = NoSkymap
  MinSnr = 4
  MaxFar = 5
  FreshGroup = TRUE
  MaxStarts = 1
  MaxFailures = 2
  MaxRewinds = 1
INVARIANTS
  MapIsAMembers
  ArchiveAgrees
PROPERTIES
  FreshMapStays
\* A stopped container that may not start again in the model does nothing.
CHECK_DEADLOCK FALSE
