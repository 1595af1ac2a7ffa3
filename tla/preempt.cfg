\* Typed recovery beside the live thread of the same run.
SPECIFICATION Spec
CONSTANTS
    Workers = {w1}
    MaxCommand = 1
    FaultKinds = {}
    MaxFaults = 0
    Lanes = {}
    Modes = {"typed"}
PROPERTIES
    LivePublisherKeepsLease
