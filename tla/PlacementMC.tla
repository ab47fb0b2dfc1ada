---------------------------- MODULE PlacementMC -----------------------------
(* Three buffers, of which VRAM holds two and the aperture one. *)
EXTENDS Placement, TLC
Rooms == "VRAM" :> 2 @@ "TT" :> 1
V == {"VRAM"}
T == {"TT"}
S == {"SYS"}
Created == {V, T}
Pinned == {V, V \cup T}
Moved == {V, S}
Symmetry == Permutations(Objects) \cup Permutations(Procs)
=============================================================================
