SPECIFICATION Spec
CONSTANTS
  u1 = u1
  Jobs = {j1}
  Users = {u1}
  Owner <- OneOwner
  Slots = {s1, s2}
  NoJob = NoJob
  MaxPerUser = 1
  MaxTries = 2
  JobTimeout = 1
  OrphanAge = 2
  PendingAge = 2
PROPERTY TerminalIsWrittenOnce
