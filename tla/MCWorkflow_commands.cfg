\* Every command, real and simulated, on one story, while only the generation
\* worker is configured; no fault strikes.
SPECIFICATION Spec
CONSTANTS
    Proc = {p1, p2}
    s1 = s1
    s2 = s2
    Stories = {s1}
    Tracker <- OneStory
    Platforms <- OnePlatform
    MaxRetries = 2
    Configured <- QueueOnly
    WithMetadata = {s1}
    Requests <- EveryRequest
    Faults = {}
    MaxFaults = 0
    NoStory = NoStory
    Free = Free
    Stale = Stale
SYMMETRY ProcSymmetry
INVARIANTS NoBudgetWithoutWorker
PROPERTIES DryRunsAreSimulations
