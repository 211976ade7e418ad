\* Two invocations of resume for ever over a tracker of two stories, with any two of
\* the faults that can strike between a stage and the record of it.
SPECIFICATION FairSpec
CONSTANTS
    Proc = {p1, p2}
    s1 = s1
    s2 = s2
    Stories = {s1, s2}
    Tracker <- TwoStories
    Platforms <- OnePlatform
    MaxRetries = 1
    Configured <- AllConfigured
    WithMetadata = {s1, s2}
    Requests <- ResumeOnly
    Faults = {"crash", "interrupt", "save", "report"}
    MaxFaults = 2
    NoStory = NoStory
    Free = Free
    Stale = Stale
PROPERTIES HolderReleases EventuallySettled KeepsAttempts
