\* A finished generation is taken for one in progress because another story's is.
SPECIFICATION Spec
CONSTANTS
    Stories = {s1, s2}
    Workers = {w1}
    MaxRetries = 2
    Faults = {"kill"}
    MaxFaults = 1
    NoStory = NoStory
    NoWorker = NoWorker
PROPERTIES ConfirmationIsOwn
