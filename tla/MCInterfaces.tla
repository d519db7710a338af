---------------------------- MODULE MCInterfaces ----------------------------
(* Model-checking instance of Interfaces: three interfaces, two of them    *)
(* Ethernet (DLT 1) and one raw IP (DLT 12), and a name that does not     *)
(* resolve.                                                                *)
EXTENDS Interfaces

CONSTANTS c1, c2

MC_Names == {"eth0", "eth1", "tun0"}

MC_Dlt == [n \in MC_Names |-> IF n = "tun0" THEN 12 ELSE 1]

MC_OneCtx == {c1}
MC_TwoCtxs == {c1, c2}

\* Every context configured through set_interface only.
MC_SetInterface == [c \in Ctxs |-> {"set_interface"}]

\* c1 through set_interface, c2 through post_args (tcpreplay's own CLI).
MC_Separate == (c1 :> {"set_interface"}) @@ (c2 :> {"post_args"})

\* Both entry points on the same context.
MC_Both == [c \in Ctxs |-> {"set_interface", "post_args"}]

=============================================================================
