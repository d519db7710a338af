------------------------------ MODULE Options ------------------------------
(***************************************************************************)
(* The options of one context as the setters, tcpreplay_add_pcapfile and  *)
(* the option part of tcpreplay_post_args leave them.  Only the fields    *)
(* whose setters have a precondition, or feed one, are kept: the source   *)
(* count, the routing cache (options->cachedata), the speed mode and the  *)
(* manual callback, plus loop and enable_file_cache which post_args ties  *)
(* together.  A file name, a cache file and a callback are abstracted to  *)
(* their presence.                                                        *)
(***************************************************************************)
EXTENDS Integers

CONSTANTS
    MAX_FILES,    \* capacity of options->sources[]
    SpeedModes,   \* tcpreplay_speed_mode values
    OneAtATime,   \* speed_oneatatime, a member of SpeedModes
    Multiplier,   \* speed_multiplier, the mode tcpreplay_init sets
    LoopValues,   \* values of options->loop a caller passes
    MaxCalls      \* bound: API calls on the context

ASSUME {OneAtATime, Multiplier} \subseteq SpeedModes /\ 1 \in LoopValues

VARIABLES
    source_cnt,        \* options->source_cnt
    cachedata,         \* options->cachedata holds a read tcpprep cache
    speed_mode,        \* options->speed.mode
    manual_callback,   \* options->speed.manual_callback is set
    loop,              \* options->loop
    enable_file_cache, \* options->enable_file_cache
    rc,                \* return code of the last call
    calls              \* API calls so far

vars == <<source_cnt, cachedata, speed_mode, manual_callback, loop,
          enable_file_cache, rc, calls>>

(* tcpreplay_init: loop 1, multiplier mode, the rest zeroed.             *)
OptInit ==
    /\ source_cnt = 0 /\ cachedata = FALSE
    /\ speed_mode = Multiplier /\ manual_callback = FALSE
    /\ loop = 1 /\ enable_file_cache = FALSE
    /\ rc = 0 /\ calls = 0

Call == calls < MaxCalls /\ calls' = calls + 1

tcpreplay_set_speed_mode(value) ==
    /\ Call
    /\ speed_mode' = value /\ rc' = 0
    /\ UNCHANGED <<source_cnt, cachedata, manual_callback, loop,
                   enable_file_cache>>

tcpreplay_set_loop(value) ==
    /\ Call
    /\ loop' = value /\ rc' = 0
    /\ UNCHANGED <<source_cnt, cachedata, speed_mode, manual_callback,
                   enable_file_cache>>

tcpreplay_set_file_cache(value) ==
    /\ Call
    /\ enable_file_cache' = value /\ rc' = 0
    /\ UNCHANGED <<source_cnt, cachedata, speed_mode, manual_callback, loop>>

(* Append below MAX_FILES; the routing cache is not consulted.           *)
tcpreplay_add_pcapfile ==
    /\ Call
    /\ IF source_cnt < MAX_FILES
          THEN source_cnt' = source_cnt + 1 /\ rc' = 0
          ELSE rc' = -1 /\ UNCHANGED source_cnt
    /\ UNCHANGED <<cachedata, speed_mode, manual_callback, loop,
                   enable_file_cache>>

(* Refused when more than one source is already added; read_cache fills  *)
(* options->cachedata otherwise.                                          *)
tcpreplay_set_tcpprep_cache ==
    /\ Call
    /\ IF source_cnt > 1
          THEN rc' = -1 /\ UNCHANGED cachedata
          ELSE cachedata' = TRUE /\ rc' = 0
    /\ UNCHANGED <<source_cnt, speed_mode, manual_callback, loop,
                   enable_file_cache>>

(* Refused unless the speed mode is speed_oneatatime at the time.        *)
tcpreplay_set_manual_callback ==
    /\ Call
    /\ IF speed_mode # OneAtATime
          THEN rc' = -1 /\ UNCHANGED manual_callback
          ELSE manual_callback' = TRUE /\ rc' = 0
    /\ UNCHANGED <<source_cnt, cachedata, speed_mode, loop, enable_file_cache>>

(* The option part of tcpreplay_post_args: --loop is always copied, one  *)
(* speed option (or none) picks the mode, --enable-file-cache takes      *)
(* effect only with loop # 1.  Then an unsupported --timer returns -1,   *)
(* and so does a failing interface part (modelled in Interfaces); only   *)
(* after both is --cachefile read, with no test of source_cnt.  A        *)
(* warning (--dbug without debug support, --pktlen) turns 0 into -2.     *)
tcpreplay_post_args ==
    /\ Call
    /\ \E lp \in LoopValues, sp \in SpeedModes \cup {"none"},
          fc \in BOOLEAN, cf \in BOOLEAN, warn \in BOOLEAN,
          fails \in {"timer", "interface", "none"} :
          /\ loop' = lp
          /\ speed_mode' = IF sp = "none" THEN speed_mode ELSE sp
          /\ enable_file_cache' = (enable_file_cache \/ (fc /\ lp # 1))
          /\ cachedata' = (cachedata \/ (cf /\ fails = "none"))
          /\ rc' = CASE fails # "none" -> -1
                      [] warn           -> -2
                      [] OTHER          -> 0
    /\ UNCHANGED <<source_cnt, manual_callback>>

OptNext ==
    \/ \E m \in SpeedModes : tcpreplay_set_speed_mode(m)
    \/ \E v \in LoopValues : tcpreplay_set_loop(v)
    \/ \E b \in BOOLEAN : tcpreplay_set_file_cache(b)
    \/ tcpreplay_add_pcapfile
    \/ tcpreplay_set_tcpprep_cache
    \/ tcpreplay_set_manual_callback
    \/ tcpreplay_post_args

OptSpec == OptInit /\ [][OptNext]_vars

-----------------------------------------------------------------------------
(* Spec invariant 3: when a routing cache is present, the context has at *)
(* most one source.  set_tcpprep_cache checks the count only when it is  *)
(* called, add_pcapfile never checks the cache, and post_args reads      *)
(* --cachefile with no check at all.                                     *)
RoutingCacheSingleSource == cachedata => source_cnt <= 1

=============================================================================
