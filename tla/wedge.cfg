\* A local commit that no push confirmed, and no operator.
SPECIFICATION FairSpec
CONSTANTS
    Workers = {w1}
    MaxCommand = 1
    FaultKinds = {"stuck"}
    MaxFaults = 1
    Lanes = {}
    Modes = {"legacy", "typed"}
PROPERTIES
    EvidenceSettles
