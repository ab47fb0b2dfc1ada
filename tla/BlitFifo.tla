------------------------------ MODULE BlitFifo ------------------------------
(***************************************************************************)
(* What one PCI DMA blit engine promises its users, without slots, handles *)
(* timers or locks: a bounded FIFO.  Blits are numbered in the order in    *)
(* which they are accepted, are carried out one at a time in that order,   *)
(* and every accepted blit is eventually over.  BlitQueue is shown to      *)
(* implement this.                                                         *)
(***************************************************************************)
EXTENDS Naturals, Sequences

CONSTANT Capacity      \* blits accepted and not yet over, at most

VARIABLES
  queue,               \* numbers of the accepted blits that are not over
  accepted             \* how many blits were ever accepted

fifoVars == <<queue, accepted>>

FifoTypeOK == queue \in Seq(Nat) /\ accepted \in Nat

FifoInit == queue = <<>> /\ accepted = 0

Accept ==
  /\ Len(queue) < Capacity
  /\ accepted' = accepted + 1
  /\ queue' = Append(queue, accepted + 1)

Finish ==
  /\ queue /= <<>>
  /\ queue' = Tail(queue)
  /\ UNCHANGED accepted

FifoNext == Accept \/ Finish

FifoSafety == FifoInit /\ [][FifoNext]_fifoVars

FifoSpec == FifoSafety /\ WF_fifoVars(Finish)
=============================================================================
