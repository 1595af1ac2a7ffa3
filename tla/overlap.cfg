SPECIFICATION HostSpec
CONSTANTS
  w1 = w1
  w2 = w2
  a = a
  b = b
  c = c
  g = g
  NoTarget = NoTarget
  None = None
  Workers <- MCWorkers
  Projects <- MCProjects
  Polls <- MCPolls
  Limit <- MCLimit
  Paths <- MCPaths
  GitTarget <- MCGitTarget
  Answers <- MCSilent
  MaxOwner = 0
  MaxFaults = 0
INVARIANT
  ConcurrentRunsDisjoint
CHECK_DEADLOCK FALSE
