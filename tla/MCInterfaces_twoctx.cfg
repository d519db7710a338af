\* Two contexts share set_interface's statics.
CONSTANTS
    c1 = c1
    c2 = c2
    Ctxs <- MC_TwoCtxs
    Names <- MC_Names
    Unknown = "bogus"
    Dlt <- MC_Dlt
    EntryPoints <- MC_SetInterface
    MaxOpens = 3

SPECIFICATION IntfSpec

CHECK_DEADLOCK FALSE

INVARIANT AcceptedDltsEqual
