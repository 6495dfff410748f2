CONSTANTS
    Tids = {t1}
    Prompt = FALSE
    MaxTicks = 0
    MaxWindows = 2
    MaxStarts = 0
SPECIFICATION FairSpec
PROPERTY DestructorReturns
CHECK_DEADLOCK FALSE
