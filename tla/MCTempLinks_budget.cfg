SPECIFICATION Spec
CONSTANTS
  Jobs = {j1}
  NoJob = NoJob
  Links = {l1}
  NoLink = NoLink
  Requests = {r1, r2}
  MaxDownloads = 2
  TTL = 1
  SweepAge = 2
  JobTimeout = 1
  MaxRuns = 1
  Limit = 1
SYMMETRY LinkSymmetry
INVARIANT GrantsWithinBudget
