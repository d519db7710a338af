----------------------------- MODULE Interfaces -----------------------------
(***************************************************************************)
(* The egress interfaces of a replay context: tcpreplay_set_interface,     *)
(* the interface part of tcpreplay_post_args, and tcpreplay_close.         *)
(* set_interface keeps the link types (DLTs) of the last opened primary   *)
(* and secondary interface in function-level statics shared by every     *)
(* context; post_args keeps them in locals.  An open handle is a number;  *)
(* sendpacket_open either fails or returns a fresh handle whose link     *)
(* type is that of the interface.                                         *)
(***************************************************************************)
EXTENDS Integers, FiniteSets, TLC

CONSTANTS
    Ctxs,         \* replay contexts (tcpreplay_t) of the process
    Names,        \* interface names and aliases in ctx->intlist
    Unknown,      \* a name that get_interface does not resolve
    Dlt,          \* Dlt[n]: link type of interface n, a natural number
    EntryPoints,  \* EntryPoints[c]: the calls used on c, "set_interface"/"post_args"
    MaxOpens      \* bound on sendpacket_open calls that succeed

ASSUME Dlt \in [Names -> Nat] /\ Unknown \notin Names
ASSUME EntryPoints \in [Ctxs -> SUBSET {"set_interface", "post_args"}]
ASSUME MaxOpens \in Nat

Slots == {"intf1", "intf2"}
NULL  == 0
Handles == 1..MaxOpens
NoRc  == 1   \* no int-returning call since init or close

VARIABLES
    int1dlt, int2dlt,  \* the statics of tcpreplay_set_interface, -1 unset
    intf,              \* intf[c][s]: ctx->intf1 / ctx->intf2, NULL or a handle
    hdlt,              \* hdlt[h]: sendpacket_get_dlt of handle h
    owner,             \* owner[h]: the context that opened h
    opened,            \* handles not yet passed to sendpacket_close
    nextHandle,        \* the handle the next successful open returns
    rc,                \* rc[c]: return value of the last call on c, or NoRc
    closed,            \* contexts passed to tcpreplay_close
    crashed            \* the process died in sendpacket_close(NULL)

vars == <<int1dlt, int2dlt, intf, hdlt, owner, opened, nextHandle, rc, closed,
         crashed>>

IntfInit ==
    /\ int1dlt = -1 /\ int2dlt = -1
    /\ intf = [c \in Ctxs |-> [s \in Slots |-> NULL]]
    /\ hdlt = [h \in Handles |-> -1]
    /\ owner = [h \in Handles |-> NULL]
    /\ opened = {}
    /\ nextHandle = 1
    /\ rc = [c \in Ctxs |-> NoRc]
    /\ closed = {}
    /\ crashed = FALSE

(* sendpacket_open on context c succeeded for each handle h of hs, which *)
(* are the next free handles, opening interface ns[h].                    *)
Opens(c, hs, ns) ==
    /\ \A h \in hs : h \in Handles
    /\ hdlt' = [h \in Handles |-> IF h \in hs THEN Dlt[ns[h]] ELSE hdlt[h]]
    /\ owner' = [h \in Handles |-> IF h \in hs THEN c ELSE owner[h]]
    /\ opened' = opened \cup hs
    /\ nextHandle' = nextHandle + Cardinality(hs)

\* The test after both branches: both statics set and different.
DltMismatch(d1, d2) == d1 # -1 /\ d2 # -1 /\ d1 # d2

-----------------------------------------------------------------------------
(* tcpreplay_set_interface(ctx, intf, value).  An unknown name returns -1  *)
(* at once.  Otherwise the name is stored and the interface opened; a     *)
(* failed open still stores NULL into ctx->intfN.  After a successful     *)
(* open the static of that slot takes its DLT and the statics are        *)
(* compared; a mismatch returns -1 with the new handle kept open.        *)
SetInterfaceNoDltUpdate(c, s, v) ==
    /\ "set_interface" \in EntryPoints[c] /\ c \notin closed
    /\ v \in Names
    /\ \/ /\ intf' = [intf EXCEPT ![c][s] = NULL]
          /\ rc' = [rc EXCEPT ![c] = -1]
          /\ UNCHANGED <<int1dlt, int2dlt, hdlt, owner, opened, nextHandle>>
       \/ /\ Opens(c, {nextHandle}, nextHandle :> v)
          /\ intf' = [intf EXCEPT ![c][s] = nextHandle]
          /\ int1dlt' = IF s = "intf1" THEN Dlt[v] ELSE int1dlt
          /\ UNCHANGED int2dlt
          /\ rc' = [rc EXCEPT ![c] = IF DltMismatch(int1dlt', int2dlt')
                                       THEN -1 ELSE 0]
    /\ UNCHANGED <<closed, crashed>>

SetInterfaceCloseOnMismatch(c, s, v) ==
    /\ "set_interface" \in EntryPoints[c] /\ c \notin closed
    /\ v \in Names
    /\ nextHandle \in Handles
    /\ hdlt' = [hdlt EXCEPT ![nextHandle] = Dlt[v]]
    /\ owner' = [owner EXCEPT ![nextHandle] = c]
    /\ nextHandle' = nextHandle + 1
    /\ intf' = [intf EXCEPT ![c][s] = nextHandle]
    /\ int1dlt' = IF s = "intf1" THEN Dlt[v] ELSE int1dlt
    /\ int2dlt' = IF s = "intf2" THEN Dlt[v] ELSE int2dlt
    /\ IF DltMismatch(int1dlt', int2dlt')
          THEN rc' = [rc EXCEPT ![c] = -1] /\ opened' = opened
          ELSE rc' = [rc EXCEPT ![c] = 0] /\ opened' = opened \cup {nextHandle}
    /\ UNCHANGED <<closed, crashed>>

tcpreplay_set_interface(c, s, v) ==
    /\ "set_interface" \in EntryPoints[c] /\ c \notin closed
    /\ \/ /\ v \notin Names
          /\ rc' = [rc EXCEPT ![c] = -1]
          /\ UNCHANGED <<int1dlt, int2dlt, intf, hdlt, owner, opened,
                         nextHandle>>
       \/ /\ v \in Names
          /\ intf' = [intf EXCEPT ![c][s] = NULL]
          /\ rc' = [rc EXCEPT ![c] = -1]
          /\ UNCHANGED <<int1dlt, int2dlt, hdlt, owner, opened, nextHandle>>
       \/ /\ v \in Names
          /\ Opens(c, {nextHandle}, nextHandle :> v)
          /\ intf' = [intf EXCEPT ![c][s] = nextHandle]
          /\ int1dlt' = IF s = "intf1" THEN Dlt[v] ELSE int1dlt
          /\ int2dlt' = IF s = "intf2" THEN Dlt[v] ELSE int2dlt
          /\ rc' = [rc EXCEPT ![c] = IF DltMismatch(int1dlt', int2dlt')
                                       THEN -1 ELSE 0]
    /\ UNCHANGED <<closed, crashed>>

-----------------------------------------------------------------------------
(* The interface part of tcpreplay_post_args: INTF1 (n1) and the optional *)
(* INTF2 (n2, "none" when not given).  Its DLTs are locals, compared once. *)
(* When the second open fails the error is set but there is no return:    *)
(* sendpacket_get_dlt(NULL) follows, whose result is whatever the build  *)
(* gives (modelled as any link type, or -1).                              *)
tcpreplay_post_args(c, n1, n2) ==
    /\ "post_args" \in EntryPoints[c] /\ c \notin closed
    /\ LET h1 == nextHandle  h2 == nextHandle + 1
           Fail == rc' = [rc EXCEPT ![c] = -1]
           Keep == UNCHANGED <<hdlt, owner, opened, nextHandle>>
       IN
       \/ n1 \notin Names /\ Fail /\ Keep /\ UNCHANGED intf
       \/ /\ n1 \in Names /\ Fail /\ Keep
          /\ intf' = [intf EXCEPT ![c].intf1 = NULL]
       \/ /\ n1 \in Names /\ n2 = "none"
          /\ Opens(c, {h1}, h1 :> n1)
          /\ intf' = [intf EXCEPT ![c].intf1 = h1]
          /\ rc' = [rc EXCEPT ![c] = 0]
       \/ /\ n1 \in Names /\ n2 = Unknown
          /\ Opens(c, {h1}, h1 :> n1)
          /\ intf' = [intf EXCEPT ![c].intf1 = h1]
          /\ Fail
       \/ /\ n1 \in Names /\ n2 \in Names
          /\ Opens(c, {h1}, h1 :> n1)
          /\ intf' = [intf EXCEPT ![c] = [intf1 |-> h1, intf2 |-> NULL]]
          /\ \E d2 \in {-1} \cup {Dlt[n] : n \in Names} :
                rc' = [rc EXCEPT ![c] = IF d2 # Dlt[n1] THEN -1 ELSE 0]
       \/ /\ n1 \in Names /\ n2 \in Names
          /\ Opens(c, {h1, h2}, (h1 :> n1) @@ (h2 :> n2))
          /\ intf' = [intf EXCEPT ![c] = [intf1 |-> h1, intf2 |-> h2]]
          /\ rc' = [rc EXCEPT ![c] = IF Dlt[n2] # Dlt[n1] THEN -1 ELSE 0]
    /\ UNCHANGED <<int1dlt, int2dlt, closed, crashed>>

(* tcpreplay_close: sendpacket_close on ctx->intf1 unconditionally, and  *)
(* on ctx->intf2 when it is not NULL.  sendpacket_close(NULL), reached    *)
(* when no primary was ever opened or its last open failed, dereferences  *)
(* NULL: the process dies there and nothing is released.  The statics of  *)
(* set_interface are left as they are.                                    *)
tcpreplay_close(c) ==
    /\ c \notin closed
    /\ \/ /\ intf[c].intf1 # NULL
          /\ opened' = opened \ {intf[c].intf1, intf[c].intf2}
          /\ closed' = closed \cup {c}
          /\ rc' = [rc EXCEPT ![c] = NoRc]
          /\ UNCHANGED crashed
       \/ /\ intf[c].intf1 = NULL
          /\ crashed' = TRUE
          /\ UNCHANGED <<opened, closed, rc>>
    /\ UNCHANGED <<int1dlt, int2dlt, intf, hdlt, owner, nextHandle>>

IntfArgs == Names \cup {Unknown}

IntfNext ==
    ~crashed /\ \E c \in Ctxs :
       \/ \E s \in Slots, v \in IntfArgs : tcpreplay_set_interface(c, s, v)
       \/ \E n1 \in IntfArgs, n2 \in IntfArgs \cup {"none"} :
             tcpreplay_post_args(c, n1, n2)
       \/ tcpreplay_close(c)

IntfSpec == IntfInit /\ [][IntfNext]_vars

-----------------------------------------------------------------------------
IntfTypeOK ==
    /\ int1dlt \in {-1} \cup Nat /\ int2dlt \in {-1} \cup Nat
    /\ intf \in [Ctxs -> [Slots -> {NULL} \cup Handles]]
    /\ opened \subseteq Handles /\ closed \subseteq Ctxs /\ crashed \in BOOLEAN
    /\ nextHandle \in 1..MaxOpens + 1
    /\ rc \in [Ctxs -> {-1, 0, NoRc}]
    /\ \A c \in Ctxs \ closed, s \in Slots : intf[c][s] \in {NULL} \cup opened

\* The primary and secondary egress of context c, when both are open, have
\* the same link type.
Consistent(c) ==
    LET h1 == intf[c].intf1  h2 == intf[c].intf2 IN
        h1 # NULL /\ h2 # NULL => hdlt[h1] = hdlt[h2]

(* On a context configured through set_interface alone, a call that      *)
(* returns 0 leaves the context's two egresses with one link type,        *)
(* however earlier calls failed or replaced them: the statics             *)
(* int1dlt/int2dlt must stand for the handles ctx->intf1/intf2.           *)
AcceptedDltsEqual ==
    \A c \in Ctxs :
        (EntryPoints[c] = {"set_interface"} /\ rc[c] = 0) => Consistent(c)

(* A call that returns 0 having just installed a new secondary egress     *)
(* (post_args with INTF2, or set_interface(intf2)) installed one of the   *)
(* primary's link type.                                                    *)
SecondaryMatchesPrimary ==
    [][\A c \in Ctxs :
         LET h2 == intf'[c].intf2 IN
         (rc'[c] = 0 /\ h2 # NULL /\ h2 # intf[c].intf2 /\ intf'[c].intf1 # NULL)
            => hdlt'[intf'[c].intf1] = hdlt'[h2]]_vars

(* Spec 5, resource acquisition: once tcpreplay_close has run, no handle  *)
(* the context opened is still open, including handles that a later       *)
(* set_interface replaced in ctx->intf1/intf2.                             *)
ReleasedOnClose == \A h \in opened : owner[h] \notin closed

=============================================================================
