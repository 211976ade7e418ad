\* Two stories in one notebook, a page that lags or is not read, runners that are killed
\* and leave their workers behind, saves and reports that fail.
SPECIFICATION Spec
CONSTANTS
    Stories = {s1, s2}
    Workers = {w1, w2}
    MaxRetries = 2
    Faults = {"crash", "interrupt", "kill", "save", "report"}
    MaxFaults = 1
    NoStory = NoStory
    NoWorker = NoWorker
SYMMETRY Symmetry
INVARIANTS TypeOK DoneHasGeneration ReceiptStaysValid GenerationsWithinBudget
PROPERTIES ReceiptNeverReplaced KeepsAttempts
