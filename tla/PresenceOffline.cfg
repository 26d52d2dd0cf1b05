SPECIFICATION Spec
CONSTANTS
  c1 = c1
  c2 = c2
  Sockets <- MCSockets
  TTL = 2
  Delay = 2
  MaxJobs = 3
INVARIANTS
  NoSessionMeansOffline
