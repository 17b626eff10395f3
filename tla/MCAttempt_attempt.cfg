SPECIFICATION FairSpec
CONSTANTS
  Callers = {me, other}
  Me = me
  Threshold = 2
  Window = 1
  Cooldown = 1
  Suspension = 1
  MaxFaults = 1
  MaxTries = 2
  Uploads = 2
  MaxFiles = 2
  Formats <- MCFormats
  Heights = {1, 2, 3}
  MaxSize = 4
INVARIANTS TypeOK StraysAreExcused SecondCopyIsExcused ChildDiesWithItsCall OversizeIsNeverFetched
PROPERTIES ImplementsParcel EveryJobEnds TripIsEarned
CHECK_DEADLOCK FALSE
