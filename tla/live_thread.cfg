CONSTANTS
    t1 = t1
    t2 = t2
    s1 = s1
    s2 = s2
    Threads = {t1, t2}
    Sessions = {s1, s2}
    Handlers = {h1, h2}
    SessionOf <- MCSessionOf
    NoThread = NoThread
SPECIFICATION FairSpec
INVARIANT NoUseAfterFree
INVARIANT CompletesOnce
PROPERTY NoResurrection
PROPERTY DetachReturns
PROPERTY ReleaseFrees
