CONSTANTS
    Initiated = "peer"
    Type = "bidi"
SPECIFICATION FairSpec
INVARIANTS
    
    SidesAgree
    InternalOnlyIfOvertaken
PROPERTIES
    RefinesSides
    
CHECK_DEADLOCK FALSE
