SPECIFICATION FairSpec
CONSTANTS
  Paths = {"doc", "kernel", "recovery", "project"}
  Category <- MCCategory
  CleanPaths = {"doc"}
  LatestMainPaths = {}
  KernelPaths = {"kernel"}
  BoundaryPaths = {"recovery"}
  CandidatePaths = {"doc", "recovery"}
  ForeignPaths = {"doc", "project"}
  MaxAttempts = 2
  MaxCommands = 2
  MaxFaults = 1
INVARIANTS
  EngineInv
  OneWorker
  NoRunDuringHandoff
  RevertedSourceNeverRuns
  RollbackRestoresSource
  AuthorityNeverAdopted
PROPERTIES
  LiveWorkSurvives
  ProbationReachesVerdict
