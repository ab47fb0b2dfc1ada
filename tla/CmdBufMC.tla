------------------------------ MODULE CmdBufMC ------------------------------
(* A small buffer for TLC: 16 units of 4 quadwords, a margin of 6 units.   *)
EXTENDS CmdBuf

(* A short stream that is padded, and two that end within and at a unit.   *)
Streams == {1, 5, 8}

(* These waits come after one with a margin, or before a move backwards:   *)
(* nothing depends on what they return.                                    *)
Harmless == {"jump", "fill", "pad", "close"}
=============================================================================
