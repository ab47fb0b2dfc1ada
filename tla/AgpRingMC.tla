----------------------------- MODULE AgpRingMC ------------------------------
(* Small rings for TLC: Reserve and PauseAlign keep the proportions of the *)
(* code's constants to the words a flush really adds.                      *)
EXTENDS AgpRing

Ring(n) == [size |-> n, used |-> n, branch |-> FALSE]
Branch(n, m) == [size |-> n, used |-> m, branch |-> TRUE]

(* All of these fit in what the ring keeps free behind a rewind. *)
Fitting == {Ring(1), Ring(7), Ring(14), Branch(6, 5)}

Confirmed == {"clear", "clear2", "behind", "behind2", "drain", "drain2",
              "past", "past2"}
=============================================================================
