# TLA+ models of the tcpreplay replay API

These modules model `src/src/tcpreplay_api.c`, the library front end of
tcpreplay. It holds a replay context (`tcpreplay_t`): its options, interfaces
and statistics, and the replay loop that feeds each pcap source to the packet
driver. The packet driver itself (`send_packets`, `replay_file`) is not under
`src/`. It is modelled from `spec.md` and marked `spec_modelled` in the map.

## The system

| part | code | state | operations |
|---|---|---|---|
| context lifecycle | `tcpreplay_init`, `tcpreplay_close` (92–138, 320–365) | options, sources, interfaces, stats, flags | allocate and set defaults; free caches and interfaces |
| option setters | `tcpreplay_set_*` (431–682) | `options->loop`, `limit_send`, `speed`, `sources[]`, `source_cnt`, `cachedata`, callbacks | one setter per field, most without checks |
| source list | `tcpreplay_add_pcapfile` (538–570) | `sources[]`, `source_cnt` | append if below `MAX_FILES` |
| interfaces | `tcpreplay_set_interface`, `tcpreplay_post_args` (374–429, 148–314) | `intf1`, `intf2`, static `int1dlt`, `int2dlt` | open, compare link types |
| replay engine | `tcpreplay_replay` (789–892) | `running`, `current_source`, `cache_byte`/`cache_bit`, `options->loop`, `stats` | passes over every source, calling the driver |
| control | `tcpreplay_abort`, `_suspend`, `_restart` (894–944) | `abort`, `suspend` | called by another thread while a replay runs |
| statistics readers | `tcpreplay_get_stats` and five single getters (684–738, 970–988) | `static_stats` | unlocked copies of `stats` |
| packet driver | `send_packets` (not in `src/`) | `stats`, per-packet routing cursor | send the packets of one source; stop on abort or limit |

**How they interact.** One client thread calls the setters and then
`tcpreplay_replay`, which blocks until the replay ends. A second thread (the
observer) may call `abort`, `suspend`, `restart` and the getters at any time,
with no lock. The replay thread writes `stats` one packet at a time. The
observer reads it and writes the control flags.

**Hard behaviours.**
- The observer and the replay thread interleave at every packet.
- `options->loop` is a `u32` that the pass loop decrements in place, so it wraps.
- The loop-forever branch (`loop == 0`) has no exit test.
- `abort` is sticky across replays.
- `stats` is never reset between replays.
- A driver failure ends the replay part way through a pass.
- `get_stats` copies the stats while they are being updated, so its snapshot can be torn.

## Modules

- **`Replay.tla`** is the replay engine with its setters, the control calls
  and the driver. The state is given as `VARIABLES`:
  - the options: `sources`, `loop`, `limit_send`;
  - the flags: `running`, `abort`, `suspend`;
  - the worker cursor: `current_source`, `cache_bit`, the driver position
    `pos`, and `pc`;
  - `stats` and the return code `rc`;
  - history variables for the properties: `consumed` (the packets taken, in
    order), `pass`, `loopSet`, a logical `clock` and `replays`.

  Each `tcpreplay_*` function is one action. `tcpreplay_replay` is split at the
  points where the code calls the driver or can be preempted:
  - `tcpreplay_replay` is the entry and its checks;
  - `LoopHead` is the `while (loop--)` test, or `while (1)`;
  - `SourceHead` is the per-source cache reset and driver start;
  - `SendPacket` is one packet of the driver;
  - `SourceReturn` is the driver returning.

  `loop` is kept modulo `2^LoopWidth`, so the wrap of line 829 happens in the
  model.
- **`Options.tla`** models the options whose setters have a precondition, or
  feed one:
  - `source_cnt`, `cachedata` (a tcpprep cache is loaded), `speed_mode`,
    `manual_callback`, `loop` and `enable_file_cache`;
  - the actions `set_speed_mode`, `set_loop`, `set_file_cache`,
    `add_pcapfile`, `set_tcpprep_cache`, `set_manual_callback`, and the option
    part of `post_args` (`--loop`, the speed options, `--enable-file-cache`,
    `--cachefile`).

  The interface part of `post_args` is only its outcome here. When it fails,
  or `--timer` names a timer the build lacks, `post_args` returns -1 before
  reading `--cachefile`. A warning (`--dbug` without debug support,
  `--pktlen`) turns a 0 return into -2.
- **`FileCache.tla`** models the packet-memory cache (`options->file_cache[]`).
  From `src/` it takes:
  - the entry set-up in `add_pcapfile`;
  - the set-up block of `tcpreplay_replay` (lines 811–818). Its guard
    `file_cache == NULL` never holds once `add_pcapfile` has written an
    entry, so the block changes nothing and sealed entries carry over to
    later replays;
  - the `loop > 0` test (line 828) choosing between the limited
    `while (loop--)` and `while (1)`. `loop = 0` is reached by
    `set_loop(0)`, and by a replay that failed in its last pass;
  - the pass and source loops, and a driver failure returning -1;
  - the cache part of `tcpreplay_close`, which walks
    `options->file_cache->packet_cache` (entry 0's chain) and then frees the
    entries with `safe_free` (line 353).

  The driver is not under `src/`. It is modelled from spec 4.C, 4.E and 4.G
  (`spec_modelled`):
  - `Fills`: in the first pass of a replay that uses the cache
    (`enable_file_cache` and `loop != 1` on entry), an unsealed source is
    teed into its chain. The spec does not say what becomes of a chain left
    partial by an earlier cut-short fill, and the model keeps it as it is;
  - the chain is sealed when the source ends;
  - a sealed entry is read back instead of the file;
  - abort or the limit (`DriverStops`) and a read error (`DriverFails`) cut a
    fill short and leave the entry unsealed.

  A packet is a model value. `heap` counts the chain nodes not yet freed.
- **`ReplayConcurrent.tla`** composes two client threads that call
  `tcpreplay_replay` on one context. They share `running`, `current_source` and
  `options->loop`. Each thread has its own place in the function: idle, at
  the pass loop, or at the source loop. A driver call is one step that
  succeeds or fails; packets are modelled in `Replay`.
- **`ReplayStats.tla`** extends `Replay` and adds the statistics readers:
  - `static_stats`;
  - the fields a `get_stats` memcpy still has to copy (`copying`);
  - for each field, how many packets had been taken when it was copied
    (`copiedAt`).

  The memcpy is a sequence of single-field copies that the replay thread can
  interleave with.
- **`Interfaces.tla`** models the egress handles of one or more contexts:
  - `tcpreplay_set_interface`, including its function-level statics
    `int1dlt` and `int2dlt`, which every context shares;
  - the interface part of `tcpreplay_post_args`, which keeps the link types
    in locals;
  - the handle part of `tcpreplay_close`. Close calls
    `sendpacket_close(ctx->intf1)` with no NULL test (line 333). That
    function is not under `src/`; on a NULL handle the model lets the
    process die there (`crashed`), with nothing released and no further
    call.

  A handle is a number. `sendpacket_open` succeeds with a fresh handle or
  fails. The history of handles records each handle's link type, the
  context that opened it, and whether it is still open.

  The second open in `post_args` can fail. The code does not return there,
  so it goes on to `sendpacket_get_dlt(NULL)`. This is undefined behaviour,
  modelled as any link-type result.
- **`MCReplay.tla` and `MCReplayStats.tla`** give the constants for TLC (`MCInterfaces.tla` and `MCFileCache.tla` do the same for their modules):
  - one model-value file of two packets;
  - `MAX_FILES = 2`, `LoopWidth = 2` (so `loop` wraps at 4), and `loop = 2`;
  - limit values `{-1, 1}`, `idx` values `{-1, 0}`, and two replays;
  - `MaxSends`, which bounds only the loop-forever branch. It is the most
    packets the finite branch can send.

## Runs

| run | cfg | checks | result |
|---|---|---|---|
| core_safety | `MCReplay.cfg` | `TypeOK`, `ConsumedInOrder`, `CompleteOnReturn`, `AbortHonoured`, `ReplayReturns` | pass |
| loop_count | `MCReplay_loopcount.cfg` | `PassesFollowSetLoop` | violated: `loop` is consumed and wraps |
| abort_forever | `MCReplay_abortforever.cfg` | `AbortEndsForeverLoop` | violated: `while (1)` ignores abort |
| stats_torn | `MCReplayStats_offbyone.cfg` | `SnapshotOffByOne` | violated: the memcpy can be torn by more than one packet |
| intf_set | `MCInterfaces.cfg` | `IntfTypeOK`, `AcceptedDltsEqual` | pass |
| intf_two_ctx | `MCInterfaces_twoctx.cfg` | `AcceptedDltsEqual` | violated: the statics are shared by contexts |
| intf_mixed | `MCInterfaces_mixed.cfg` | `SecondaryMatchesPrimary` | violated: `post_args` does not set the statics |
| intf_close_leak | `MCInterfaces_leak.cfg` | `ReleasedOnClose` | violated: `set_interface(intf1)` twice, then close, leaves the first handle open |
| routing_cache | `MCOptions.cfg` | `RoutingCacheSingleSource` | violated: two `add_pcapfile` calls and then `post_args --cachefile` (lines 302–307) give a cache with two sources |
| file_cache | `MCFileCache.cfg` | `FcTypeOK` | pass |
| cache_leak | `MCFileCache_leak.cfg` | `CacheReleasedOnClose` | violated: close frees only source 0's packet cache |
| concurrent_replay | `MCReplayConcurrent.cfg` | `RunningWhileReplaying` | violated: the first of two concurrent replays to finish clears `running` |

What the passing runs show:
- **`ConsumedInOrder`:** packets are taken pass by pass, source by source and
  in file order, even when a pass is cut short by abort or the limit.
- **`CompleteOnReturn`:** a finite replay that was neither aborted nor limited
  has taken every packet of every pass.
- **Liveness:** a finite replay returns once the observer stops suspending it,
  and an abort ends it.
- **`file_cache`** fires every action of `FileCache`, both pass loops
  included, for the `cache_leak` run. The contents of the cache are decided
  by the driver, which is not under `src/`, so no property is stated about
  them.

The interface runs use these bounds:
- three interfaces, two of link type 1 and one of link type 12, plus a name
  that does not resolve;
- at most 4 successful opens;
- one context, or two where the shared statics matter. The passing run has
  one context that uses only `set_interface` and one that uses only
  `post_args`. `SecondaryMatchesPrimary` is checked only where it can fail,
  in `intf_mixed`: with one entry point it follows from the comparison the
  call itself makes.

The interface, options, file cache and concurrency runs check no deadlock (`CHECK_DEADLOCK FALSE`), because a
program may stop calling the API once its call budget is used, and a closed
context accepts no call.

Within one entry point on one context, set_interface accepts (returns 0)
only two egresses of one link type. This holds however earlier calls failed
or replaced egresses. It stops holding across contexts, and when
`post_args` and `set_interface` are both used.

Each passing property has a mutant in `PROJECT.json`: a plausible bug in the
mapped code, such as a dropped reset, an off-by-one in the capacity test, or the
driver not returning while suspended. TLC finds each mutant's property
violated.

**Bounds.**
- Two replays on one context are the least that show the carried-over
  `loop`, `abort` and `stats`.
- One file `f1` of two one-byte packets, and two passes, show both the pass
  order and the source order. No property is about byte counts, so one-byte
  packets lose nothing.
- `MAX_FILES = 2` makes `add_pcapfile` reach its capacity test.
- `LoopWidth = 2` keeps the wrap to 3 passes.
- The limit value 1 stops a replay in its first pass.

`core_safety` covers about 0.9 million distinct states and finishes in
under a minute.

`file_cache` uses two files (of two packets and of one), three source slots,
`set_loop` values 0 and 2 (2 wraps to 3 after the first replay) and three
replays. That is enough for a fill to be cut short in one replay and taken up
by a later one, while other sources are sealed, in both pass loops. It covers
about 435,000 distinct states. `cache_leak` keeps two slots and two replays, the least
that fill a second source.

`routing_cache` uses two source slots and four calls, enough for
`add_pcapfile`, `add_pcapfile`, `post_args --cachefile` (the trace TLC
reports) and for `set_tcpprep_cache` followed by `add_pcapfile`. `concurrent_replay` uses
two threads, two sources, `loop = 1` and two calls: the least that lets one
thread finish while the other is inside.

**Fairness.** Only the replay thread is weakly fair (`WF_vars(Worker)`). While
it is inside `tcpreplay_replay`, nothing but the driver's own suspend wait
stops it, and the OS scheduler keeps running it. The client and the observer
are not fair: they may never call anything. `ReplayReturns` therefore assumes
that suspension eventually stops.

## Code observations without a run

A single call or unit test reaches each of these, so no run is spent on them.
Each is in the model as the code does it.
- **`tcpreplay_replay`:** the check on `idx` rejects -1 and accepts
  `source_cnt` (line 803). `idx` is then never used, and every source is
  replayed.
- **`tcpreplay_get_start_time`:** it copies `stats.end_time` (line 725).
- **`stats.end_time`:** `tcpreplay_replay` never sets it; only a sent packet
  does (line 890). A replay that sends nothing returns with the end time of an
  earlier replay, before its own start time.
- **`ctx->abort`:** only `tcpreplay_init` clears it (line 825). A replay
  started after an abort sends nothing and returns 0, against spec 5.
- **`tcpreplay_set_interface`:** when it rejects a link-type mismatch it
  returns -1 but leaves the new handle in `ctx` (lines 408–425). So spec
  invariant 2 fails after a single rejected call.
- **`tcpreplay_post_args`:** when the second interface fails to open it does
  not return. It goes on to `sendpacket_get_dlt(NULL)` (lines 289–293).
- **`tcpreplay_set_manual_callback`:** it checks the speed mode only when it
  is called (line 674). A later `set_speed_mode` leaves a callback for another
  mode. Separately, the error text of `set_tcpprep_cache` (line 596) says the
  opposite of its test. Both are in `Options` as the code does them.

## Not modelled, and the plan

The plan, in order:
1. **`Replay`** (done).
2. **`ReplayStats`** (done).
3. **`Interfaces`** (done).
4. **`Options`** (done).
5. **`ReplayConcurrent`** (done).
6. **`FileCache`** (done).

Hazards with no run, for lack of run slots (each is listed with a note in
`PROJECT.json`):
- the rejected `set_interface` that keeps its handle (line 419);
- `post_args` using a NULL handle (line 289);
- the manual callback (line 674);
- the end time (line 890);
- the sticky abort (line 825);
- `tcpreplay_close` on a NULL primary (line 333), modelled as a crash;
- `tcpreplay_abort` racing `tcpreplay_close`, when `sendpacket_abort` runs on
  a closed handle (line 907).

Never modelled:
- pcap parsing;
- option text and error strings (`tcpreplay_seterr`, `tcpreplay_geterr`);
- the timing controller and the sleep backends. Both are in the driver, not
  under `src/`; modelled from the spec alone they would only check constant
  arithmetic against itself, and a sleep changes no modelled state;
- the send limit beyond the driver's stop test: the limit and the stats it
  reads are compared in the driver, not under `src/`, so no property is
  stated about the limit (the stats carried over between replays are in
  `Replay`);
- the routing bit lookup: `cache_bit` is reset per source in `SourceHead`
  as the code does, but its use is in the driver;
- the setters of fields that no control decision in `src/` reads (speed
  value, `pps_multi`, `mtu`, `accurate`, `sleep_accel`, `use_pkthdr_len`,
  `verbose`, `tcpdump`): each is one assignment;
- platform I/O (opening interfaces, `gettimeofday`, `sendpacket_*`). It is
  modelled only by its outcome (success or failure) and the link type it
  returns.
