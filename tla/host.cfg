SPECIFICATION HostFairSpec
CONSTANTS
  w1 = w1
  w2 = w2
  a = a
  b = b
  c = c
  g = g
  NoTarget = NoTarget
  None = None
  Workers <- MCWorkers
  Projects <- MCProjects
  Polls <- MCPolls
  Limit <- MCLimit
  Paths <- MCPaths
  GitTarget <- MCGitTarget
  Answers <- MCAnswers
  MaxOwner = 1
  MaxFaults = 1
INVARIANTS
  HostInv
  ConcurrentRunsDisjoint
  ReservationsReturned
  PauseStopsClaims
PROPERTIES
  DrainingAdmitsNothing
  DrainCompletes
CHECK_DEADLOCK FALSE
