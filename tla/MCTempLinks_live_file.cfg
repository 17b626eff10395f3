SPECIFICATION Spec
CONSTANTS
  Jobs = {j1}
  NoJob = NoJob
  Links = {l1, l2}
  NoLink = NoLink
  Requests = {}
  MaxDownloads = 1
  TTL = 1
  SweepAge = 2
  JobTimeout = 1
  MaxRuns = 2
  Limit = 2
INVARIANT LiveFileIsKept
