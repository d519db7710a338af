\* Expected violation: close frees only entry 0's packet_cache chain.
CONSTANTS
    f1 = f1
    f2 = f2
    p1 = p1
    p2 = p2
    p3 = p3
    Files <- MC_Files
    Content <- MC_Content
    MAX_FILES = 2
    LoopWidth = 2
    LoopValues = {2}
    MaxReplays = 2

SPECIFICATION FcSpec

CHECK_DEADLOCK FALSE


INVARIANT CacheReleasedOnClose

