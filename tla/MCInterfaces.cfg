\* c1 configured by set_interface, c2 by post_args: accepted calls leave
\* equal link types.
CONSTANTS
    c1 = c1
    c2 = c2
    Ctxs <- MC_TwoCtxs
    Names <- MC_Names
    Unknown = "bogus"
    Dlt <- MC_Dlt
    EntryPoints <- MC_Separate
    MaxOpens = 4

SPECIFICATION IntfSpec

CHECK_DEADLOCK FALSE

INVARIANT IntfTypeOK
INVARIANT AcceptedDltsEqual

