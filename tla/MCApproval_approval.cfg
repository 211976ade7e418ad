\* Two sources with one state file; commands overlap; any two faults.
SPECIFICATION Spec
CONSTANTS
    a = a
    b = b
    Proc = {p1, p2}
    Sources = {"Feed 1", "Feed?1"}
    Files = {"source--Feed_1.json"}
    FileOf <- SharedFile
    Pairs = {a, b}
    Batches <- SomeBatches
    Faults = {"crash", "interrupt", "save", "report"}
    MaxFaults = 2
    NoSource = "none"
    Free = Free
    Stale = Stale
INVARIANTS TypeOK NoDuplicatePairs UniqueIds ApprovedIsTracked PairFromOwnExtraction
PROPERTIES TrackerOnlyGrows KeepsRegistry
