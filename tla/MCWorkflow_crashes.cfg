\* Real commands with processes killed or interrupted, two attempts a stage, and
\* a publisher that is not configured.
SPECIFICATION Spec
CONSTANTS
    Proc = {p1, p2}
    s1 = s1
    s2 = s2
    Stories = {s1}
    Tracker <- OneStory
    Platforms <- TwoPlatforms
    MaxRetries = 2
    Configured <- OnePublisher
    WithMetadata = {s1}
    Requests <- RealRequests
    Faults = {"crash", "interrupt", "lockwrite"}
    MaxFaults = 1
    NoStory = NoStory
    Free = Free
    Stale = Stale
SYMMETRY ProcSymmetry
INVARIANTS PipelineOrder
PROPERTIES RecordsOnlyGrow CompletedStaysComplete
