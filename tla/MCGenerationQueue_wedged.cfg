\* The receipt of a failed attempt makes every later attempt fail.
SPECIFICATION Spec
CONSTANTS
    Stories = {s1}
    Workers = {w1}
    MaxRetries = 2
    Faults = {}
    MaxFaults = 0
    NoStory = NoStory
    NoWorker = NoWorker
PROPERTIES ConfirmedAttemptSucceeds
