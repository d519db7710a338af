------------------------------ MODULE MCReplay ------------------------------
(* Model-checking instance of Replay: one capture file of two          *)
(* packets, which may be added up to MAX_FILES times; sources of several *)
(* entries still differ by their index, which is what the ordering       *)
(* properties look at.                                                   *)
EXTENDS Replay

CONSTANTS f1

MC_Files == {f1}

\* f1 holds two packets of one byte: no property is about byte counts, so
\* bytes_sent follows pkts_sent and adds no states.
MC_PcapLen == [f \in MC_Files |-> <<1, 1>>]

\* limit_send: disabled (the default -1), and a limit hit within the first replay.
MC_LimitValues == {-1, 1}

\* The termination run leaves the send limit disabled.
MC_NoLimit == {-1}

\* replay(-1) (all sources, rejected by the code) and replay(0).
MC_Indices == {-1, 0}

(* Packets that MaxReplays limited replays can take at most: each runs at *)
(* most 2^LoopWidth - 1 passes over at most MAX_FILES copies of f1.       *)
MC_MaxSends == MaxReplays * (LoopMod - 1) * MAX_FILES * Len(MC_PcapLen[f1])

=============================================================================
