SPECIFICATION FairSpec
CONSTANTS
  Levels = {0}
  MaxTries = 2
  MaxFaults = 1
  Warn = 1
  Drop = 2
  HashTTL = 1
  MetaTTL = 2
  Tombstone = 1
INVARIANTS
  TypeOK
  DoneShownOnlyIfDelivered
  AcceptedCancelStops
  FailedAfterDeliveryIsExcused
PROPERTIES
  ImplementsPlaceholder
  OnlyLateWritersReopen
  TrackedPlaceholderSettles
