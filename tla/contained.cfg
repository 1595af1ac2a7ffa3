SPECIFICATION FairSpec
CONSTANTS
  c1 = c1
  c2 = c2
  Conns <- MCConns
  Slots = 1
  KillOnClose = TRUE
  Modes = {"phased", "contained", "unwired"}
  MaxForeign = 1
  MaxFaults = 1
INVARIANTS
  IntentBeforeEffect
  WalTellsTruth
  EgressEvidenceSound
  ExecutorContained
  SuccessIsEarned
  RecoveryNeverOverclaims
  ContainmentReturned
  ContainedInv
PROPERTIES
  RunEnds
