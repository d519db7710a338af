-------------------------- MODULE ReplayConcurrent --------------------------
(***************************************************************************)
(* Two client threads calling tcpreplay_replay on one context.  The       *)
(* function has no test of ctx->running, so both may be inside it at      *)
(* once, sharing ctx->running, ctx->current_source and options->loop.     *)
(* Only the pass and source loops are kept; one driver call is one step   *)
(* that returns 0 or a negative code (sends are modelled in Replay).      *)
(***************************************************************************)
EXTENDS Integers

CONSTANTS
    Threads,      \* client threads sharing the context
    SourceCnt,    \* options->source_cnt
    LoopWidth,    \* bit width of options->loop (u_int32_t, scaled down)
    LoopValues,   \* values tcpreplay_set_loop left in options->loop
    MaxCalls      \* bound: tcpreplay_replay calls over all threads

LoopMod == 2 ^ LoopWidth

ASSUME SourceCnt \in Nat /\ LoopValues \subseteq 0..(LoopMod - 1)

VARIABLES
    loop,            \* options->loop
    current_source,  \* ctx->current_source, one for the context
    running,         \* ctx->running
    tpc,             \* tpc[t]: "idle" | "loop" | "source", where thread t is
    forever,         \* forever[t]: thread t took the while (1) branch
    calls            \* tcpreplay_replay calls so far

vars == <<loop, current_source, running, tpc, forever, calls>>

ConcInit ==
    /\ loop \in LoopValues /\ current_source = 0 /\ running = FALSE
    /\ tpc = [t \in Threads |-> "idle"]
    /\ forever = [t \in Threads |-> FALSE]
    /\ calls = 0

(* Entry of tcpreplay_replay: the index or gettimeofday check fails, or  *)
(* running is set with no test of its previous value.                    *)
ReplayEnter(t) ==
    /\ tpc[t] = "idle" /\ calls < MaxCalls
    /\ calls' = calls + 1
    /\ \/ UNCHANGED <<running, tpc, forever>>
       \/ /\ running' = TRUE
          /\ forever' = [forever EXCEPT ![t] = (loop = 0)]
          /\ tpc' = [tpc EXCEPT ![t] = "loop"]
    /\ UNCHANGED <<loop, current_source>>

(* while (ctx->options->loop--) or while (1): a new pass restarts the    *)
(* shared current_source at 0; the limited loop's exit clears running.   *)
PassHead(t) ==
    /\ tpc[t] = "loop"
    /\ IF forever[t] \/ loop # 0
          THEN /\ loop' = IF forever[t] THEN loop ELSE loop - 1
               /\ current_source' = 0
               /\ tpc' = [tpc EXCEPT ![t] = "source"]
               /\ UNCHANGED running
          ELSE /\ loop' = (loop - 1) % LoopMod
               /\ running' = FALSE
               /\ tpc' = [tpc EXCEPT ![t] = "idle"]
               /\ UNCHANGED current_source
    /\ UNCHANGED <<forever, calls>>

(* One iteration of the for loop over ctx->current_source: the driver    *)
(* returns 0 and the loop moves on, or fails and running is cleared.     *)
SourceStep(t) ==
    /\ tpc[t] = "source"
    /\ IF current_source < SourceCnt
          THEN \/ /\ current_source' = current_source + 1
                  /\ UNCHANGED <<running, tpc>>
               \/ /\ running' = FALSE
                  /\ tpc' = [tpc EXCEPT ![t] = "idle"]
                  /\ UNCHANGED current_source
          ELSE /\ tpc' = [tpc EXCEPT ![t] = "loop"]
               /\ UNCHANGED <<running, current_source>>
    /\ UNCHANGED <<loop, forever, calls>>

ConcNext == \E t \in Threads : ReplayEnter(t) \/ PassHead(t) \/ SourceStep(t)

ConcSpec == ConcInit /\ [][ConcNext]_vars

-----------------------------------------------------------------------------
(* Spec invariant 1 (at most one replay in progress) and the promise of  *)
(* tcpreplay_is_running ("running (not yet finished)"): while any thread *)
(* is inside tcpreplay_replay, ctx->running is true.                     *)
RunningWhileReplaying == \A t \in Threads : tpc[t] # "idle" => running

=============================================================================
