\* One host under transport faults and crashes, Owner pauses included: what it
\* closes or gives up, and its progress.
SPECIFICATION FairSpec
CONSTANTS
    Workers = {w1}
    MaxCommand = 1
    FaultKinds = {"lost", "unseen", "crash"}
    MaxFaults = 2
    Lanes = {"finalize", "owner"}
    Modes = {"legacy", "typed"}
INVARIANTS
    AcknowledgedIsPublished
PROPERTIES
    GivenUpOnlyWithoutLease
    LeaseSettles
    EvidenceSettles
    QueueServed
