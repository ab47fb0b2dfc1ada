----------------------------- MODULE CpuGrabMC ------------------------------
(* Three processes that share one buffer, in every order. *)
EXTENDS CpuGrab, TLC
CONSTANTS a, b, c
ThreeFiles == {a, b, c}
TwoFiles == {a, b}
Symmetry == Permutations(Files)
=============================================================================
