\* Expected violation: a get_stats copy preempted between two fields is more than one packet stale.
CONSTANTS
    f1 = f1
    Files <- MC_Files
    PcapLen <- MC_PcapLen
    MAX_FILES = 2
    LoopWidth = 2
    LoopValues = {2}
    LimitValues <- MC_NoLimit
    Indices <- MC_Indices
    MaxReplays = 2
    MaxSends <- MC_MaxSends

SPECIFICATION StatsSpec

INVARIANT SnapshotOffByOne
