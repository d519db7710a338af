------------------------------- MODULE Replay -------------------------------
(***************************************************************************)
(* The replay engine of tcpreplay_api.c and its control surface.          *)
(*                                                                         *)
(* Two threads share one tcpreplay_t context:                              *)
(*  - the client thread configures the context with setters and then      *)
(*    calls tcpreplay_replay(), which it executes step by step: the pass  *)
(*    loop, the per-source loop, and per packet the per-source driver     *)
(*    (replay_file/send_packets, not under src/, modelled from the spec); *)
(*  - an observer thread calls tcpreplay_abort/suspend/restart and the    *)
(*    statistics getters at any time, without any lock.                   *)
(*                                                                         *)
(* A capture file is abstracted to the sequence of its packet lengths; a  *)
(* packet is identified by <<source index, packet index>>.  Wall-clock    *)
(* time is a counter advanced by every gettimeofday().                    *)
(***************************************************************************)
EXTENDS Integers, Sequences, SequencesExt

CONSTANTS
    Files,        \* capture files that tcpreplay_add_pcapfile may be given
    PcapLen,      \* PcapLen[f]: the packet lengths of capture file f, in order
    MAX_FILES,    \* capacity of options->sources[] (MAX_FILES in the code)
    LoopWidth,    \* bit width of options->loop (u_int32_t, scaled down)
    LoopValues,   \* values the client may pass to tcpreplay_set_loop
    LimitValues,  \* values the client may pass to tcpreplay_set_limit_send
    Indices,      \* idx arguments the client may pass to tcpreplay_replay
    MaxReplays,   \* bound: number of tcpreplay_replay calls
    MaxSends      \* bound: packets taken over all replays (see SendPacket)

LoopMod == 2 ^ LoopWidth

ASSUME /\ MAX_FILES \in Nat \ {0}
       /\ PcapLen \in [Files -> Seq(Nat \ {0})]
       /\ LoopValues \subseteq 0..(LoopMod - 1)
       /\ LimitValues \subseteq {-1} \cup Nat
       /\ Indices \subseteq Int
       /\ MaxSends \in Nat

VARIABLES
    \* tcpreplay_opt_t fields the engine reads
    sources,        \* options->sources[0..source_cnt-1], as file names
    loop,           \* options->loop (u_int32_t, decremented in place)
    limit_send,     \* options->limit_send (-1 disables)
    \* tcpreplay_t fields
    running, abort, suspend,
    current_source, \* ctx->current_source (0-based)
    cache_bit,      \* ctx->cache_byte * 8 + ctx->cache_bit: routing bit index
    stats,          \* ctx->stats
    \* control state of the client thread inside tcpreplay_replay()
    pc,             \* "idle" | "loop" | "source" | "packet"
    forever,        \* the replay took the loop-forever branch (loop = 0)
    pos,            \* next packet of the current source (driver cursor)
    rc,             \* value returned by the last tcpreplay_* call
    \* model-only state
    clock,          \* gettimeofday() readings taken so far
    replays,        \* tcpreplay_replay calls so far
    pass,           \* passes started by the current replay call
    loopSet,        \* the loop count last given to tcpreplay_set_loop
    consumed        \* packets taken from the sources by the current replay

opts    == <<sources, loop, limit_send>>
control == <<running, abort, suspend>>
worker  == <<current_source, cache_bit, pc, forever, pos>>
vars    == <<opts, control, worker, stats, rc, clock, replays, pass, loopSet,
             consumed>>

StatFields == {"pkts_sent", "bytes_sent", "failed", "start_time", "end_time"}

Source(i) == PcapLen[sources[i + 1]]   \* packets of 0-based source i

\* The packets of one pass over the configured sources, in replay order.
PassOrder ==
    FlattenSeq([i \in 1..Len(sources) |->
                  [k \in 1..Len(PcapLen[sources[i]]) |-> <<i - 1, k>>]])

-----------------------------------------------------------------------------
(* Initial state: right after tcpreplay_init().  safe_malloc zeroes the    *)
(* context, so stats, flags and counters start at 0 / false.              *)
Init ==
    /\ sources = <<>>
    /\ loop = 1
    /\ limit_send = -1
    /\ running = FALSE /\ abort = FALSE /\ suspend = FALSE
    /\ current_source = 0 /\ cache_bit = 0
    /\ stats = [f \in StatFields |-> 0]
    /\ pc = "idle" /\ forever = FALSE /\ pos = 1
    /\ rc = 0
    /\ clock = 0 /\ replays = 0 /\ pass = 0 /\ loopSet = 1
    /\ consumed = <<>>

-----------------------------------------------------------------------------
(* Setters, called by the client thread while it is not inside replay.    *)

tcpreplay_set_loop(v) ==
    /\ pc = "idle"
    /\ loop' = v /\ loopSet' = v /\ rc' = 0
    /\ UNCHANGED <<sources, limit_send, control, worker, stats, clock, replays,
                   pass, consumed>>

tcpreplay_set_limit_send(v) ==
    /\ pc = "idle"
    /\ limit_send' = v /\ rc' = 0
    /\ UNCHANGED <<sources, loop, control, worker, stats, clock, replays,
                   pass, loopSet, consumed>>

\* Mutant of tcpreplay_add_pcapfile: capacity test off by one (<=).
AddPcapfileOffByOne(f) ==
    /\ pc = "idle"
    /\ IF Len(sources) <= MAX_FILES
          THEN sources' = Append(sources, f) /\ rc' = 0
          ELSE UNCHANGED sources /\ rc' = -1
    /\ UNCHANGED <<loop, limit_send, control, worker, stats, clock, replays,
                   pass, loopSet, consumed>>

\* Appends while source_cnt < MAX_FILES, else fails with -1.
tcpreplay_add_pcapfile(f) ==
    /\ pc = "idle"
    /\ IF Len(sources) < MAX_FILES
          THEN sources' = Append(sources, f) /\ rc' = 0
          ELSE UNCHANGED sources /\ rc' = -1
    /\ UNCHANGED <<loop, limit_send, control, worker, stats, clock, replays,
                   pass, loopSet, consumed>>

-----------------------------------------------------------------------------
(* tcpreplay_replay(ctx, idx): the entry checks, up to running = true.    *)
(* The index is only range-checked; the loops below always replay every  *)
(* source.  gettimeofday() may fail, returning -1 before running is set.  *)
ReplayRejects(idx) ==
    \/ idx < 0 \/ idx > Len(sources)

tcpreplay_replay(idx) ==
    /\ pc = "idle"
    /\ replays < MaxReplays
    /\ replays' = replays + 1
    /\ \/ /\ ReplayRejects(idx)
          /\ rc' = -1
          /\ UNCHANGED <<running, worker, stats, clock, pass, consumed>>
       \/ /\ ~ReplayRejects(idx)
          /\ rc' = -1     \* gettimeofday() failed
          /\ UNCHANGED <<running, worker, stats, clock, pass, consumed>>
       \/ /\ ~ReplayRejects(idx)
          /\ clock' = clock + 1
          /\ stats' = [stats EXCEPT !.start_time = clock + 1]
          /\ running' = TRUE
          /\ forever' = (loop = 0)
          /\ pc' = "loop"
          /\ pass' = 0 /\ consumed' = <<>>
          /\ UNCHANGED <<current_source, cache_bit, pos, rc>>
    /\ UNCHANGED <<opts, abort, suspend, loopSet>>

(* The pass loop head.  Limited: while (ctx->options->loop--), which      *)
(* leaves loop = 0 - 1 (mod 2^32) when it exits.  Forever: while (1).     *)
(* Each pass restarts the source loop at current_source = 0.  Of an       *)
(* endless replay the model keeps the history of the current pass only.   *)
LoopHead ==
    /\ pc = "loop"
    /\ IF forever \/ loop # 0
          THEN /\ loop' = IF forever THEN loop ELSE loop - 1
               /\ IF forever
                     THEN pass' = 1 /\ consumed' = <<>>
                     ELSE pass' = pass + 1 /\ UNCHANGED consumed
               /\ current_source' = 0
               /\ pc' = "source"
               /\ UNCHANGED <<running, rc>>
          ELSE /\ loop' = (loop - 1) % LoopMod
               /\ running' = FALSE
               /\ rc' = 0
               /\ pc' = "idle"
               /\ UNCHANGED <<pass, current_source, consumed>>
    /\ UNCHANGED <<sources, limit_send, abort, suspend, cache_bit, forever, pos,
                   stats, clock, replays, loopSet>>

\* Mutant of SourceHead: neither the routing markers nor the driver's
\* packet cursor are reset for the next source.
SourceHeadNoReset ==
    /\ pc = "source"
    /\ \/ /\ current_source >= Len(sources)
          /\ pc' = "loop"
          /\ UNCHANGED <<running, cache_bit, pos, rc>>
       \/ /\ current_source < Len(sources)
          /\ pc' = "packet"
          /\ UNCHANGED <<running, rc, cache_bit, pos>>
       \/ /\ current_source < Len(sources)
          /\ running' = FALSE
          /\ rc' = -1
          /\ pc' = "idle"
          /\ UNCHANGED <<cache_bit, pos>>
    /\ UNCHANGED <<opts, abort, suspend, current_source, forever, stats,
                   clock, replays, pass, loopSet, consumed>>

(* The source loop head: past the last source the pass ends; otherwise    *)
(* the routing cache markers are reset and the source's driver starts.    *)
(* The driver may fail (the zero-initialised source type matching no     *)
(* case, or the capture file failing to open): running = false, -1.      *)
SourceHead ==
    /\ pc = "source"
    /\ \/ /\ current_source >= Len(sources)
          /\ pc' = "loop"
          /\ UNCHANGED <<running, cache_bit, pos, rc>>
       \/ /\ current_source < Len(sources)
          /\ cache_bit' = 0
          /\ pos' = 1
          /\ pc' = "packet"
          /\ UNCHANGED <<running, rc>>
       \/ /\ current_source < Len(sources)
          /\ running' = FALSE
          /\ rc' = -1
          /\ pc' = "idle"
          /\ UNCHANGED <<cache_bit, pos>>
    /\ UNCHANGED <<opts, abort, suspend, current_source, forever, stats,
                   clock, replays, pass, loopSet, consumed>>

-----------------------------------------------------------------------------
(* The per-source driver (spec 4.G).  Before each packet it stops on      *)
(* abort or on the send limit; while suspended it does not send.  A send  *)
(* goes to the egress selected by routing bit cache_bit; a failed write   *)
(* is counted in stats.failed and the loop goes on.                       *)
LimitReached ==
    limit_send >= 0 /\ stats.pkts_sent >= limit_send

DriverStops ==
    \/ pos > Len(Source(current_source))
    \/ abort
    \/ LimitReached

\* Mutant of SendPacket: the driver's cursors are not advanced.
SendPacketNoAdvance ==
    /\ pc = "packet"
    /\ ~DriverStops
    /\ ~suspend
    /\ stats.pkts_sent + stats.failed < MaxSends
    /\ LET len == Source(current_source)[pos] IN
       \E ok \in BOOLEAN :
          /\ IF ok
                THEN /\ clock' = clock + 1
                     /\ stats' = [stats EXCEPT !.pkts_sent = @ + 1,
                                               !.bytes_sent = @ + len,
                                               !.end_time = clock + 1]
                ELSE /\ stats' = [stats EXCEPT !.failed = @ + 1]
                     /\ UNCHANGED clock
    /\ consumed' = Append(consumed, <<current_source, pos>>)
    /\ UNCHANGED <<opts, control, current_source, pc, forever, rc, replays,
                   pass, loopSet, pos, cache_bit>>

(* MaxSends bounds an endless replay; it is chosen above the number of   *)
(* packets any sequence of limited replays can take, so it only truncates *)
(* the loop-forever branch.                                               *)
SendPacket ==
    /\ pc = "packet"
    /\ ~DriverStops
    /\ ~suspend
    /\ stats.pkts_sent + stats.failed < MaxSends
    /\ LET len == Source(current_source)[pos] IN
       \E ok \in BOOLEAN :
          /\ IF ok
                THEN /\ clock' = clock + 1
                     /\ stats' = [stats EXCEPT !.pkts_sent = @ + 1,
                                               !.bytes_sent = @ + len,
                                               !.end_time = clock + 1]
                ELSE /\ stats' = [stats EXCEPT !.failed = @ + 1]
                     /\ UNCHANGED clock
    /\ consumed' = Append(consumed, <<current_source, pos>>)
    /\ pos' = pos + 1
    /\ cache_bit' = cache_bit + 1
    /\ UNCHANGED <<opts, control, current_source, pc, forever, rc, replays,
                   pass, loopSet>>

\* Mutant of SourceReturn: the suspend wait does not re-check abort.
SourceReturnWhenResumed ==
    /\ pc = "packet"
    /\ DriverStops
    /\ ~suspend
    /\ current_source' = current_source + 1
    /\ pc' = "source"
    /\ UNCHANGED <<opts, control, cache_bit, forever, pos, stats, rc, clock,
                   replays, pass, loopSet, consumed>>

\* Mutant of SourceReturn: the for loop's current_source++ is lost.
SourceReturnSameSource ==
    /\ pc = "packet"
    /\ DriverStops
    /\ pc' = "source"
    /\ UNCHANGED <<opts, control, current_source, cache_bit, forever, pos,
                   stats, rc, clock, replays, pass, loopSet, consumed>>

\* The driver returns 0; the for loop moves to the next source.
SourceReturn ==
    /\ pc = "packet"
    /\ DriverStops
    /\ current_source' = current_source + 1
    /\ pc' = "source"
    /\ UNCHANGED <<opts, control, cache_bit, forever, pos, stats, rc, clock,
                   replays, pass, loopSet, consumed>>

-----------------------------------------------------------------------------
(* Observer thread.  None of these takes a lock.                          *)

\* tcpreplay_abort: sets the flag (and aborts pending sendpacket writes).
tcpreplay_abort ==
    /\ abort' = TRUE
    /\ UNCHANGED <<opts, running, suspend, worker, stats, rc,
                   clock, replays, pass, loopSet, consumed>>

tcpreplay_suspend ==
    /\ suspend' = TRUE
    /\ UNCHANGED <<opts, running, abort, worker, stats, rc,
                   clock, replays, pass, loopSet, consumed>>

tcpreplay_restart ==
    /\ suspend' = FALSE
    /\ UNCHANGED <<opts, running, abort, worker, stats, rc,
                   clock, replays, pass, loopSet, consumed>>

-----------------------------------------------------------------------------
Client ==
    \/ \E v \in LoopValues : tcpreplay_set_loop(v)
    \/ \E v \in LimitValues : tcpreplay_set_limit_send(v)
    \/ \E f \in Files : tcpreplay_add_pcapfile(f)
    \/ \E idx \in Indices : tcpreplay_replay(idx)

Worker == LoopHead \/ SourceHead \/ SendPacket \/ SourceReturn

Observer ==
    \/ tcpreplay_abort \/ tcpreplay_suspend \/ tcpreplay_restart

Next == Client \/ Worker \/ Observer

(* Only the replay loop is fair: once tcpreplay_replay has been entered   *)
(* the thread keeps executing it.  The client need never call again and   *)
(* the observer need never act.                                           *)
Spec == Init /\ [][Next]_vars /\ WF_vars(Worker)

-----------------------------------------------------------------------------
(* Properties.                                                             *)

TypeOK ==
    /\ sources \in Seq(Files) /\ Len(sources) <= MAX_FILES
    /\ loop \in 0..(LoopMod - 1)
    /\ limit_send \in LimitValues \cup {-1}
    /\ running \in BOOLEAN /\ abort \in BOOLEAN /\ suspend \in BOOLEAN
    /\ current_source \in 0..MAX_FILES
    /\ cache_bit \in Nat
    /\ stats \in [StatFields -> Nat]
    /\ pc \in {"idle", "loop", "source", "packet"}
    /\ forever \in BOOLEAN /\ pos \in Nat \ {0}
    /\ rc \in {0, -1}
    /\ pass \in 0..(LoopMod - 1)

\* The packets of n passes.
Schedule(n) == FlattenSeq([p \in 1..n |-> PassOrder])

(* Packets are taken from the sources in capture order within a source,   *)
(* in declaration order across sources, pass after pass, with nothing     *)
(* skipped or repeated: what a replay has consumed is a prefix of its     *)
(* schedule, whatever aborts, suspends and send limits interleave.  About *)
(* the for/while loops of tcpreplay_replay and their cursor resets.       *)
ConsumedInOrder == pc # "idle" => IsPrefix(consumed, Schedule(pass))

(* A replay that returns 0 without having been aborted or stopped by the  *)
(* send limit has consumed every packet of every pass it started.  About  *)
(* the loop exit of tcpreplay_replay and the driver's end-of-file stop.   *)
CompleteOnReturn ==
    [][ (pc = "loop" /\ pc' = "idle" /\ ~abort /\ ~LimitReached)
          => consumed = Schedule(pass) ]_vars

(* Once tcpreplay_abort has been called during a replay that took the    *)
(* limited-loop branch (loop > 0 on entry), tcpreplay_replay eventually   *)
(* returns, even if the replay is suspended and never resumed.            *)
AbortHonoured == (abort /\ running /\ ~forever) ~> ~running

(* A replay in the limited-loop branch that is not left suspended for     *)
(* good eventually returns.                                               *)
ReplayReturns == <>[]~suspend => [](running /\ ~forever => <>~running)

(* An abort also ends a replay that took the loop-forever branch (spec 8: *)
(* "loop = 0 runs forever until abort").                                  *)
AbortEndsForeverLoop == (abort /\ running) ~> ~running

(* Each tcpreplay_replay call performs the number of passes last given to *)
(* tcpreplay_set_loop (spec 4.G "for each pass in 1..=loop").             *)
PassesFollowSetLoop == (running /\ loopSet > 0) => pass <= loopSet

=============================================================================
