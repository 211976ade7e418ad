\* A save that raises makes the handler overwrite a completed stage.
SPECIFICATION Spec
CONSTANTS
    Proc = {p1, p2}
    s1 = s1
    s2 = s2
    Stories = {s1}
    Tracker <- OneStory
    Platforms <- OnePlatform
    MaxRetries = 1
    Configured <- AllConfigured
    WithMetadata = {s1}
    Requests <- RealRequests
    Faults = {"save"}
    MaxFaults = 1
    NoStory = NoStory
    Free = Free
    Stale = Stale
SYMMETRY ProcSymmetry
PROPERTIES CompletedStaysComplete
