\* Nothing fails: a promotion while a localization is under way.
SPECIFICATION Spec
CONSTANTS
  c1 = c1
  c2 = c2
  Instance = {c1}
  Event <- OneWindow
  Assigned <- AllOneWindow
  Half = 2
  NoSkymap = NoSkymap
  MinSnr = 4
  MaxFar = 5
  FreshGroup = TRUE
  MaxStarts = 1
  MaxFailures = 0
  MaxRewinds = 0
INVARIANTS
  AttachedMapIsCurrent
\* A stopped container that may not start again in the model does nothing.
CHECK_DEADLOCK FALSE
