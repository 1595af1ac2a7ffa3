\* Reconciliation in the pass in which a push timed out.
SPECIFICATION Spec
CONSTANTS
    Workers = {w1}
    MaxCommand = 1
    FaultKinds = {"stuck"}
    MaxFaults = 1
    Lanes = {}
    Modes = {"legacy", "typed"}
INVARIANTS
    AcknowledgedIsPublished
