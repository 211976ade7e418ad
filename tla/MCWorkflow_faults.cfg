\* Real commands and a rehearsal of resume on one story with a fault of any
\* kind.
SPECIFICATION Spec
CONSTANTS
    Proc = {p1, p2}
    s1 = s1
    s2 = s2
    Stories = {s1}
    Tracker <- OneStory
    Platforms <- OnePlatform
    MaxRetries = 2
    Configured <- AllConfigured
    WithMetadata = {s1}
    Requests <- RealAndRehearsed
    Faults = {"crash", "interrupt", "save", "report", "load", "lockwrite"}
    MaxFaults = 1
    NoStory = NoStory
    Free = Free
    Stale = Stale
SYMMETRY ProcSymmetry
INVARIANTS
    TypeOK MutualExclusion CopyIsCurrent ExitCodeTellsRecord
    DoneIsBacked PublishesFinishedPackage CallsWithinBudget WorkAccounted
