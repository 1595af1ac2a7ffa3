SPECIFICATION Spec
CONSTANTS
  Paths = {"doc", "project"}
  Category <- MCCategory
  CleanPaths = {"doc"}
  LatestMainPaths = {}
  KernelPaths = {}
  BoundaryPaths = {}
  CandidatePaths = {"doc"}
  ForeignPaths = {"project"}
  MaxAttempts = 1
  MaxCommands = 1
  MaxFaults = 0
PROPERTIES
  SoundReplacementIsKept
