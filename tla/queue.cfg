\* Replacements, finalization and the fast lane on one queue.
SPECIFICATION Spec
CONSTANTS
    Workers = {w1}
    MaxCommand = 3
    FaultKinds = {"unseen", "stuck"}
    MaxFaults = 1
    Lanes = {"priority", "malformed", "manual", "withdraw", "finalize"}
    Modes = {"legacy"}
INVARIANTS
    ReplacedNeverRuns
    ExclusiveExecution
    NoCommandSkipped
PROPERTIES
    ImplementsCanonical
