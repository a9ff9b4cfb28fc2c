SPECIFICATION Spec
CONSTANTS
    Blocks = {b1}
    NoBlock = NoBlock
    MaxRecords = 3
    MaxEpoch = 1
    Keep = 1
    CrashKinds = {"kill"}
INVARIANT
    ReopenNeverRefused
PROPERTY
    ImplementsPublishedLog
