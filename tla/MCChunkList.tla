---------------------------- MODULE MCChunkList ----------------------------
(* Model-checking instances of ChunkList.  The coordinator and the terminal   *)
(* each hold one snapshot; Cells is large enough for the list, the copies and *)
(* the cached chunks, and a push or a snapshot waits when it is not.          *)
EXTENDS ChunkList

MCCells == 1..9
MCHolders == {"core", "terminal"}
=============================================================================
