\* Two hosts race for one command under lost and unseen pushes, pushes whose
\* commit stays local and may still land, and crashes.
SPECIFICATION Spec
CONSTANTS
    Workers = {w1, w2}
    MaxCommand = 1
    FaultKinds = {"lost", "unseen", "stuck", "crash"}
    MaxFaults = 2
    Lanes = {}
    Modes = {"legacy", "typed"}
SYMMETRY Symmetry
INVARIANTS
    OneLeasePerCommand
    AtMostOnce
    LaunchedIsAccounted
    IInv
    HistoryInv
    EvidenceInv
PROPERTIES
    HistoryAppendOnly
    LeaseEndsByItsRun
