------------------------------ MODULE FileCache ------------------------------
(***************************************************************************)
(* The packet-memory cache of a context (options->file_cache[]), from its *)
(* entries' set-up in tcpreplay_add_pcapfile, through its use by the pass *)
(* and source loops of tcpreplay_replay, to its release by tcpreplay_close.*)
(* The per-source driver, which tees packets into the cache on a source's *)
(* first pass and reads them back on later ones, is not under src/ and is *)
(* modelled from spec 4.C, 4.E and 4.G.  A packet is a model value; a     *)
(* capture file is the sequence of its packets; heap counts the           *)
(* packet_cache nodes allocated and not yet freed.                        *)
(***************************************************************************)
EXTENDS Integers, Sequences, TLC

CONSTANTS
    Files,        \* capture files that tcpreplay_add_pcapfile may be given
    Content,      \* Content[f]: the packets of capture file f, in order
    MAX_FILES,    \* capacity of options->sources[] and file_cache[]
    LoopWidth,    \* bit width of options->loop (u_int32_t, scaled down)
    LoopValues,   \* values passed to tcpreplay_set_loop
    MaxReplays    \* bound: tcpreplay_replay calls

LoopMod == 2 ^ LoopWidth
Slots   == 0..(MAX_FILES - 1)

ASSUME LoopValues \subseteq 0..(LoopMod - 1)

VARIABLES
    sources,            \* options->sources[0..source_cnt-1], as file names
    enable_file_cache,  \* options->enable_file_cache
    loop,               \* options->loop
    cached,             \* cached[i]: options->file_cache[i].cached
    chain,              \* chain[i]: the packets of file_cache[i].packet_cache
    heap,               \* packet_cache nodes allocated and not freed
    closed,             \* tcpreplay_close has run
    pc,                 \* "idle" | "loop" | "source" | "packet"
    current_source,     \* ctx->current_source
    pos,                \* driver cursor in the effective source
    forever,            \* the replay took the while (1) branch (loop = 0)
    passes,             \* passes started by this replay, counted up to 2
    tee,                \* the cache policy held on entry (spec 4.E)
    filling,            \* the driver tees this source into the cache
    out,                \* packets the driver has sent from this source
    replays             \* tcpreplay_replay calls so far

fc   == <<forever, passes, tee>>
vars == <<sources, enable_file_cache, loop, cached, chain, heap, closed, pc,
          current_source, fc, pos, filling, out, replays>>

\* The packets of 0-based source i: the file the name stored in sources[i]
\* refers to.
Capture(i) == Content[sources[i + 1]]

\* Spec 4.G step 2: a sealed cache replaces the configured source.
Effective(i) == IF cached[i] THEN chain[i] ELSE Capture(i)

(* tcpreplay_init: safe_malloc zeroes the options; loop is 1.             *)
FcInit ==
    /\ sources = <<>> /\ enable_file_cache = FALSE /\ loop = 1
    /\ cached = [i \in Slots |-> FALSE] /\ chain = [i \in Slots |-> <<>>]
    /\ heap = 0 /\ closed = FALSE
    /\ pc = "idle" /\ current_source = 0 /\ pos = 1
    /\ forever = FALSE /\ passes = 0 /\ tee = FALSE
    /\ filling = FALSE /\ out = <<>> /\ replays = 0

Setter == pc = "idle" /\ ~closed

AddPcapfileNoCapacity(f) ==
    /\ Setter
    /\ LET n == Len(sources) IN
          /\ sources' = Append(sources, f)
          /\ cached' = [cached EXCEPT ![n] = FALSE]
          /\ chain' = [chain EXCEPT ![n] = <<>>]
    /\ UNCHANGED <<enable_file_cache, loop, heap, closed, pc, current_source,
                   fc, pos, filling, out, replays>>

(* Below MAX_FILES: store the name and reset the new cache entry.         *)
tcpreplay_add_pcapfile(f) ==
    /\ Setter /\ Len(sources) < MAX_FILES
    /\ LET n == Len(sources) IN
          /\ sources' = Append(sources, f)
          /\ cached' = [cached EXCEPT ![n] = FALSE]
          /\ chain' = [chain EXCEPT ![n] = <<>>]
    /\ UNCHANGED <<enable_file_cache, loop, heap, closed, pc, current_source,
                   fc, pos, filling, out, replays>>

tcpreplay_set_file_cache(b) ==
    /\ Setter /\ enable_file_cache' = b
    /\ UNCHANGED <<sources, loop, cached, chain, heap, closed, pc,
                   current_source, fc, pos, filling, out, replays>>

tcpreplay_set_loop(v) ==
    /\ Setter /\ loop' = v
    /\ UNCHANGED <<sources, enable_file_cache, cached, chain, heap, closed, pc,
                   current_source, fc, pos, filling, out, replays>>

(* Entry.  The file cache set-up block is guarded by file_cache == NULL, *)
(* which never holds once add_pcapfile has written an entry, so it       *)
(* changes nothing.  running is set, and loop > 0 selects the limited    *)
(* while (loop--) over the endless while (1).  Whether this replay tees  *)
(* into the cache (enable_file_cache and loop # 1) is fixed here.        *)
tcpreplay_replay ==
    /\ Setter /\ replays < MaxReplays
    /\ replays' = replays + 1 /\ pc' = "loop"
    /\ forever' = (loop = 0) /\ passes' = 0
    /\ tee' = (enable_file_cache /\ loop # 1)
    /\ UNCHANGED <<sources, enable_file_cache, loop, cached, chain, heap,
                   closed, current_source, pos, filling, out>>

(* The pass loop head.  Limited: while (ctx->options->loop--), whose exit *)
(* leaves loop wrapped to 2^w - 1.  Forever: while (1), left only by a    *)
(* driver error.  Each pass restarts the for loop at source 0.           *)
LoopHead ==
    /\ pc = "loop"
    /\ IF forever \/ loop # 0
          THEN /\ loop' = IF forever THEN loop ELSE loop - 1
               /\ passes' = IF passes < 2 THEN passes + 1 ELSE 2
               /\ current_source' = 0 /\ pc' = "source"
          ELSE /\ loop' = LoopMod - 1 /\ pc' = "idle"
               /\ UNCHANGED <<current_source, passes>>
    /\ UNCHANGED <<sources, enable_file_cache, cached, chain, heap, closed,
                   forever, tee, pos, filling, out, replays>>

(* Spec 4.E: the driver tees a source into its chain during the first  *)
(* pass of a replay that uses the cache, when the source is not sealed.  *)
Fills(i) == tee /\ passes = 1 /\ ~cached[i]

(* for (current_source ...): past the last source the pass ends;         *)
(* otherwise cache_byte/cache_bit are reset and the driver started on    *)
(* source i.                                                               *)
SourceHead ==
    /\ pc = "source"
    /\ IF current_source < Len(sources)
          THEN /\ filling' = Fills(current_source)
               /\ pos' = 1 /\ out' = <<>> /\ pc' = "packet"
          ELSE pc' = "loop" /\ UNCHANGED <<pos, filling, out>>
    /\ UNCHANGED <<sources, enable_file_cache, loop, cached, chain, heap,
                   closed, current_source, fc, replays>>

(* The driver yields the next packet of the effective source and sends  *)
(* it; when filling, the packet is appended to the chain.               *)
SendPacket ==
    /\ pc = "packet"
    /\ LET i == current_source IN
       /\ pos <= Len(Effective(i))
       /\ out' = Append(out, Effective(i)[pos])
       /\ pos' = pos + 1
       /\ IF filling
             THEN chain' = [chain EXCEPT ![i] = Append(@, Effective(i)[pos])]
                  /\ heap' = heap + 1
             ELSE UNCHANGED <<chain, heap>>
    /\ UNCHANGED <<sources, enable_file_cache, loop, cached, closed, pc,
                   current_source, fc, filling, replays>>

(* The driver returns 0 before the end of its source (abort or the send *)
(* limit); the cache entry stays unsealed and the for loop moves on.    *)
DriverStops ==
    /\ pc = "packet" /\ pos <= Len(Effective(current_source))
    /\ current_source' = current_source + 1 /\ pc' = "source"
    /\ UNCHANGED <<sources, enable_file_cache, loop, cached, chain, heap,
                   closed, fc, pos, filling, out, replays>>

(* Reading the capture file fails: the driver returns -1 and            *)
(* tcpreplay_replay clears running and returns -1.  A cached source     *)
(* does no file I/O.                                                     *)
DriverFails ==
    /\ pc = "packet" /\ ~cached[current_source]
    /\ pos <= Len(Effective(current_source))
    /\ pc' = "idle"
    /\ UNCHANGED <<sources, enable_file_cache, loop, cached, chain, heap,
                   closed, current_source, fc, pos, filling, out, replays>>

(* End of the source: a chain filled on this pass is sealed (spec 4.G   *)
(* step 4) and the driver returns 0.                                    *)
SourceDone ==
    /\ pc = "packet" /\ pos > Len(Effective(current_source))
    /\ cached' = [cached EXCEPT ![current_source] = @ \/ filling]
    /\ current_source' = current_source + 1 /\ pc' = "source"
    /\ UNCHANGED <<sources, enable_file_cache, loop, chain, heap, closed, fc,
                   pos, filling, out, replays>>

(* The file cache part of tcpreplay_close: file_cache is not NULL, so   *)
(* the walk frees the nodes of options->file_cache->packet_cache, i.e.  *)
(* entry 0's chain, and safe_free then frees the entries themselves.    *)
tcpreplay_close ==
    /\ Setter
    /\ heap' = heap - Len(chain[0])
    /\ chain' = [i \in Slots |-> <<>>] /\ cached' = [i \in Slots |-> FALSE]
    /\ closed' = TRUE
    /\ UNCHANGED <<sources, enable_file_cache, loop, pc, current_source, fc,
                   pos, filling, out, replays>>

FcNext ==
    \/ \E f \in Files : tcpreplay_add_pcapfile(f)
    \/ \E b \in BOOLEAN : tcpreplay_set_file_cache(b)
    \/ \E v \in LoopValues : tcpreplay_set_loop(v)
    \/ tcpreplay_replay \/ LoopHead \/ SourceHead
    \/ SendPacket \/ DriverStops \/ DriverFails \/ SourceDone
    \/ tcpreplay_close

FcSpec == FcInit /\ [][FcNext]_vars

-----------------------------------------------------------------------------
FcTypeOK ==
    /\ sources \in Seq(Files) /\ Len(sources) <= MAX_FILES
    /\ loop \in 0..(LoopMod - 1) /\ enable_file_cache \in BOOLEAN
    /\ cached \in [Slots -> BOOLEAN] /\ heap \in Nat /\ closed \in BOOLEAN
    /\ pc \in {"idle", "loop", "source", "packet"}
    /\ current_source \in 0..MAX_FILES /\ filling \in BOOLEAN
    /\ forever \in BOOLEAN /\ passes \in 0..2 /\ tee \in BOOLEAN

(* Spec 5: tcpreplay_close releases every packet_cache node the context  *)
(* allocated.                                                             *)
CacheReleasedOnClose == closed => heap = 0

=============================================================================
