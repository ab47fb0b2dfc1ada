---------------------------- MODULE BlitQueueMC -----------------------------
(* Small instances of BlitQueue for TLC. *)
EXTENDS BlitQueue, TLC

(* Processes, and runs of the work-queue task, are interchangeable. *)
Symmetry == Permutations(Procs) \union Permutations(Workers)
=============================================================================
