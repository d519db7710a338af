\* Expected violation: the loop-forever branch has no abort check of its own.
CONSTANTS
    f1 = f1
    Files <- MC_Files
    PcapLen <- MC_PcapLen
    MAX_FILES = 2
    LoopWidth = 2
    LoopValues = {0}
    LimitValues <- MC_LimitValues
    Indices <- MC_Indices
    MaxReplays = 2
    MaxSends <- MC_MaxSends

SPECIFICATION Spec

PROPERTY AbortEndsForeverLoop
