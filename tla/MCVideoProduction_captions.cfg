SPECIFICATION Spec
CONSTANTS
    s1 = s1
    v1 = v1
    v2 = v2
    Stories = {s1}
    Workers = {w1, w2}
    Paths = {"s1-notebooklm.mp4"}
    OutputOf <- OneOutput
    Videos = {v1, v2}
    Expected <- BothExpected
    RootsNested = TRUE
    Faults = {"silent"}
    MaxFaults = 1
    NoStory = NoStory
    NoVideo = NoVideo
    MaxRetries = 2
    Scripts = {"draft", "approved"}
    NoScript = "absent"
    Original <- Program
    Outro <- Silent
    Cuts <- Renders
PROPERTIES
    CaptionOfFinalScript
