\* Every public call of the creator, in any order.
SPECIFICATION Spec
CONSTANTS
  Event <- MCEvent
  Half = 2
  NoSkymap = NoSkymap
  Cutoff <- MCCutoff
  MaxArrivals = 4
INVARIANTS
  TypeOK
  IndexAgrees
  IdsIdentify
  WindowsSeparated
  PreferredIsLoudest
  MembersInWindow
PROPERTIES
  JoinsClosest
  ReloadIsLossless
  OpenWindowsOnlyGrow
  TimelineSpec
