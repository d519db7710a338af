----------------------------- MODULE ReplayStats -----------------------------
(***************************************************************************)
(* The statistics readers of tcpreplay_api.c composed with the replay     *)
(* engine of Replay.  The observer thread copies ctx->stats into          *)
(* ctx->static_stats without a lock while the replaying thread updates   *)
(* ctx->stats packet by packet.                                           *)
(***************************************************************************)
EXTENDS Replay

VARIABLES
    static_stats,   \* ctx->static_stats, the copy handed to readers
    copying,        \* fields tcpreplay_get_stats's memcpy has still to copy
    copiedAt        \* copiedAt[f]: packets taken when get_stats copied field f

statsVars == <<static_stats, copying, copiedAt>>
allVars   == <<vars, statsVars>>

\* Packets the replaying thread has taken from the sources so far.
Taken == stats.pkts_sent + stats.failed

StatsInit ==
    /\ Init
    /\ static_stats = [f \in StatFields |-> 0]
    /\ copying = {}
    /\ copiedAt = [f \in StatFields |-> 0]

\* The engine and the control calls, which leave the snapshot alone.  The
\* observer is one thread: it is not inside get_stats when it aborts.
EngineStep ==
    /\ \/ Client \/ Worker
       \/ copying = {} /\ Observer
    /\ UNCHANGED statsVars

(* tcpreplay_get_stats: memcpy(&static_stats, &stats) with no lock.  The  *)
(* copy is field by field, in an order the C library chooses, and the    *)
(* replaying thread may run between two fields.                           *)
tcpreplay_get_stats ==
    /\ copying = {}
    /\ copying' = StatFields
    /\ UNCHANGED <<vars, static_stats, copiedAt>>

GetStatsCopy ==
    /\ \E f \in copying :
          /\ static_stats' = [static_stats EXCEPT ![f] = stats[f]]
          /\ copiedAt' = [copiedAt EXCEPT ![f] = Taken]
          /\ copying' = copying \ {f}
    /\ UNCHANGED vars

(* tcpreplay_get_pkts_sent, _bytes_sent, _failed, _end_time copy one live *)
(* field into static_stats; tcpreplay_get_start_time copies               *)
(* stats.end_time into static_stats.start_time.                           *)
GetterCopies ==
    {<<"pkts_sent", "pkts_sent">>, <<"bytes_sent", "bytes_sent">>,
     <<"failed", "failed">>, <<"end_time", "end_time">>,
     <<"start_time", "end_time">>}

StatGetter ==
    /\ copying = {}
    /\ \E g \in GetterCopies :
          static_stats' = [static_stats EXCEPT ![g[1]] = stats[g[2]]]
    /\ UNCHANGED <<vars, copying, copiedAt>>

StatsNext ==
    \/ EngineStep
    \/ tcpreplay_get_stats \/ GetStatsCopy \/ StatGetter

StatsSpec ==
    StatsInit /\ [][StatsNext]_allVars /\ WF_allVars(Worker /\ UNCHANGED statsVars)

-----------------------------------------------------------------------------
StatsTypeOK ==
    /\ static_stats \in [StatFields -> Nat]
    /\ copying \in SUBSET StatFields
    /\ copiedAt \in [StatFields -> Nat]

(* "your values may be off by one until tcpreplay_replay() returns"       *)
(* (comment on tcpreplay_get_stats): the fields of one completed          *)
(* get_stats snapshot were copied at most one packet apart.               *)
SnapshotOffByOne ==
    copying = {} =>
        \A f, g \in StatFields : copiedAt[f] - copiedAt[g] <= 1

=============================================================================
