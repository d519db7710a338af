\* One context, two source slots, two speed modes, loop 1 or 2.
CONSTANTS
    one = one
    mult = mult
    MAX_FILES = 2
    SpeedModes = {one, mult}
    OneAtATime = one
    Multiplier = mult
    LoopValues = {1, 2}
    MaxCalls = 4

SPECIFICATION OptSpec

CHECK_DEADLOCK FALSE

INVARIANT RoutingCacheSingleSource
