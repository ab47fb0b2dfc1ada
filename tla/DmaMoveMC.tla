----------------------------- MODULE DmaMoveMC ------------------------------
(* Three moves for TLC: one into VRAM, two out of it, one of them an       *)
(* eviction.                                                               *)
EXTENDS DmaMove
CONSTANTS m1, m2, m3
AllMovers == {m1, m2, m3}
=============================================================================
