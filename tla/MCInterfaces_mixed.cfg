\* post_args followed by set_interface on one context.
CONSTANTS
    c1 = c1
    c2 = c2
    Ctxs <- MC_OneCtx
    Names <- MC_Names
    Unknown = "bogus"
    Dlt <- MC_Dlt
    EntryPoints <- MC_Both
    MaxOpens = 3

SPECIFICATION IntfSpec

CHECK_DEADLOCK FALSE

PROPERTY SecondaryMatchesPrimary
