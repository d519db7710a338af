\* Three source slots, loop 2 (wrapping to 3 after a replay), three replays.
CONSTANTS
    f1 = f1
    f2 = f2
    p1 = p1
    p2 = p2
    p3 = p3
    Files <- MC_Files
    Content <- MC_Content
    MAX_FILES = 3
    LoopWidth = 2
    LoopValues = {0, 2}
    MaxReplays = 3

SPECIFICATION FcSpec

CHECK_DEADLOCK FALSE

INVARIANT FcTypeOK


