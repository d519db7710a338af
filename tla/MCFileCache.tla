----------------------------- MODULE MCFileCache -----------------------------
(* Model-checking instance of FileCache: a capture file of two packets   *)
(* and one of a single packet, so that a cut-short fill leaves a partial *)
(* chain and two sources have different caches.                         *)
EXTENDS FileCache

CONSTANTS f1, f2, p1, p2, p3

MC_Files == {f1, f2}

MC_Content == (f1 :> <<p1, p2>>) @@ (f2 :> <<p3>>)

=============================================================================
