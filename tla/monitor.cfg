CONSTANTS
    Tids = {t1, t2}
    Prompt = TRUE
    MaxTicks = 2
    MaxWindows = 2
    MaxStarts = 1
SPECIFICATION FairSpec
INVARIANTS CountersTelescope SamplesFiled NoGaps
PROPERTY DestructorReturns
CHECK_DEADLOCK FALSE
