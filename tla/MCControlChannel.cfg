CONSTANTS
    CommandLength = 3
    EventLength = 4
    ReceiveLimit = 4
SPECIFICATION FairSpec
INVARIANTS
    ResumedOnce
    RunsOnce
PROPERTIES
    BothEndsReturn
    PartialOnlyIfEarly
