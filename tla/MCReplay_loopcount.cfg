\* Expected violation: options->loop is consumed by the replay, so a later replay runs a different number of passes.
CONSTANTS
    f1 = f1
    Files <- MC_Files
    PcapLen <- MC_PcapLen
    MAX_FILES = 2
    LoopWidth = 2
    LoopValues = {2}
    LimitValues <- MC_LimitValues
    Indices <- MC_Indices
    MaxReplays = 2
    MaxSends <- MC_MaxSends

SPECIFICATION Spec

INVARIANT PassesFollowSetLoop
