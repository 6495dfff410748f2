CONSTANTS
    Tids = {t1}
    Prompt = TRUE
    MaxTicks = 2
    MaxWindows = 2
    MaxStarts = 0
SPECIFICATION Spec
INVARIANT WrittenMatchesTotal
CHECK_DEADLOCK FALSE
