\* Handles replaced by set_interface are not released by close.
CONSTANTS
    c1 = c1
    c2 = c2
    Ctxs <- MC_OneCtx
    Names <- MC_Names
    Unknown = "bogus"
    Dlt <- MC_Dlt
    EntryPoints <- MC_SetInterface
    MaxOpens = 3

SPECIFICATION IntfSpec

CHECK_DEADLOCK FALSE

INVARIANT ReleasedOnClose
