\* Two threads replaying one context with two sources and loop = 1.
CONSTANTS
    t1 = t1
    t2 = t2
    Threads = {t1, t2}
    SourceCnt = 2
    LoopWidth = 2
    LoopValues = {1}
    MaxCalls = 2

SPECIFICATION ConcSpec

CHECK_DEADLOCK FALSE

INVARIANT RunningWhileReplaying
