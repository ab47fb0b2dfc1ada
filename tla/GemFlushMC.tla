----------------------------- MODULE GemFlushMC -----------------------------
(* Two processes flush, a third one waits for their buffers. *)
EXTENDS GemFlush
CONSTANTS p, q, w, b1, b2, c
=============================================================================
