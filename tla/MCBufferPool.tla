---------------------------- MODULE MCBufferPool ---------------------------
(* The buffer pool for TLC: two frames, so that pages must share them.      *)
EXTENDS BufferPool, TLC
=============================================================================
