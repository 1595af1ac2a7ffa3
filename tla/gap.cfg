\* A report of a command that replaced an unclaimed one: ids with a gap.
SPECIFICATION Spec
CONSTANTS
    Workers = {w1}
    MaxCommand = 2
    FaultKinds = {"lost"}
    MaxFaults = 1
    Lanes = {"priority"}
    Modes = {"legacy"}
PROPERTIES
    GivenUpOnlyWithoutLease
