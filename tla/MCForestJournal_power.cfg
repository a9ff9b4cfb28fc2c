SPECIFICATION Spec
CONSTANTS
    Blocks = {b1, b2}
    NoBlock = NoBlock
    MaxRecords = 2
    MaxEpoch = 1
    Keep = 1
    CrashKinds = {"power"}
INVARIANTS
    TypeOK
    CrashSafe
    FloorsExcludeHoles
    CleanMeansApplied
    VisibleIsDurable
PROPERTY
    ImplementsPublishedLog
