SPECIFICATION Spec
CONSTANTS
  u1 = u1
  Jobs = {j1, j2}
  Users = {u1}
  Owner <- OneOwner
  Slots = {s1}
  NoJob = NoJob
  MaxPerUser = 1
  MaxTries = 1
  JobTimeout = 1
  OrphanAge = 2
  PendingAge = 2
INVARIANT CapHolds
