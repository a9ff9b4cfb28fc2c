SPECIFICATION Spec
CONSTANTS
    MaxShift = 8
    InitialRows = 1
    MaxRows = 3
    Additions = {1, 3}
    PageNodes = 3
    MaxRecords = 2
    MaxStops = 2
    CrashMixes = {{"kill"}, {"power"}}
INVARIANTS
    TypeOK
    WellPlaced
    SourceIntact
    ResumesUnlessTorn
