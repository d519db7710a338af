\* The engine with finite loop counts: packet order, completeness on return,
\* and termination with and without abort.
CONSTANTS
    f1 = f1
    Files <- MC_Files
    PcapLen <- MC_PcapLen
    MAX_FILES = 2
    LoopWidth = 2
    LoopValues = {2}
    LimitValues <- MC_LimitValues
    Indices <- MC_Indices
    MaxReplays = 2
    MaxSends <- MC_MaxSends

SPECIFICATION Spec

INVARIANT TypeOK
INVARIANT ConsumedInOrder
PROPERTY CompleteOnReturn
PROPERTY AbortHonoured
PROPERTY ReplayReturns
