------------------------------ MODULE DmaMove -------------------------------
(***************************************************************************)
(* Moving buffers between system memory and VRAM with the Chrome9 DMA      *)
(* engine (chrome_ttm.c) and the fences that say when a move is over       *)
(* (chrome_fence.c).  The last descriptor of a chain copies the fence      *)
(* buffer, one word of VRAM, to the sync word that a poll compares with    *)
(* the sequences of the emitted fences.  What the engine may still read is *)
(* put on a list and freed later by a delayed work.                        *)
(*                                                                         *)
(* Each member of Movers is one call of chrome_bo_move.  Those in Locked   *)
(* come from an ioctl and hold the big kernel lock, which a sleep gives    *)
(* up; the others come from the exported functions or from TTM's own       *)
(* threads and hold nothing.                                               *)
(***************************************************************************)
EXTENDS Integers, Sequences, FiniteSets

CONSTANTS
  Movers,     \* the calls of chrome_bo_move
  Locked,     \* those that hold the big kernel lock
  ToSystem,   \* those that move a buffer out of VRAM; the others move it in
  Evictions,  \* those whose old space is freed as soon as the call returns
  Late,       \* the moves whose wait for their fence may time out
  Width,      \* 2^32: sequences are uint32_t and wrap
  None

ASSUME MoversAssumption ==
  /\ IsFiniteSet(Movers) /\ None \notin Movers
  /\ Locked \subseteq Movers /\ Evictions \subseteq ToSystem
  /\ ToSystem \subseteq Movers

ASSUME WidthAssumption == Late \subseteq Movers /\ Width \in Nat \ {0}

VARIABLES
  pc,           \* the step of each call
  bkl,          \* the call that holds the big kernel lock and has not slept
  smLock,       \* sg_manager->lock
  dmaSeq,       \* fence_mechanism.dma_seq
  sequence,     \* chrome_fence_object.sequence, 0 before the fence is emitted
  dmaEmited,    \* fence_mechanism.dma_emited
  signaled,     \* the fences on dma_signaled
  refs,         \* chrome_fence_object.kref
  boFence,      \* the calls whose buffer object has its fence as sync_obj
  sg,           \* chrome_sg_obj of each call
  ddestory,     \* sg_manager->ddestory
  work,         \* sg_wq is pending
  worker,       \* the step of chrome_sg_delayed_workqueue
  fenceBuf,     \* *sg_fence_vaddr[0]
  sync,         \* *sg_sync_vaddr_align
  engine,       \* the call whose chain the engine runs
  transferred   \* history: the calls whose data the engine has moved

callVars == <<pc, bkl, smLock>>
fenceVars == <<dmaSeq, sequence, dmaEmited, signaled, refs, boFence>>
sgVars == <<sg, ddestory, work, worker>>
hwVars == <<fenceBuf, sync, engine, transferred>>
vars == <<callVars, fenceVars, sgVars, hwVars>>

Init ==
  /\ pc = [m \in Movers |-> "idle"] /\ bkl = None /\ smLock = None
  /\ dmaSeq = 0 /\ sequence = [m \in Movers |-> 0]
  /\ dmaEmited = <<>> /\ signaled = {}
  /\ refs = [m \in Movers |-> 0] /\ boFence = {}
  /\ sg = [m \in Movers |-> "none"] /\ ddestory = <<>>
  /\ work = FALSE /\ worker = "idle"
  /\ fenceBuf = 0 /\ sync = 0 /\ engine = None /\ transferred = {}

-----------------------------------------------------------------------------
(* Fences *)

(* Mutant: compares with the sequence of the fence after. *)
ReachedEarly == {n \in 1 .. Len(dmaEmited) :
                   \A i \in 1 .. n : sequence[dmaEmited[i]] <= sync + 1}

(* chrome_fence_poll_locked: the list up to the first fence that the sync  *)
(* word has not reached.                                                   *)
Reached == {n \in 1 .. Len(dmaEmited) :
              \A i \in 1 .. n : sequence[dmaEmited[i]] <= sync}

Polled == {dmaEmited[i] : i \in Reached}

(* chrome_fence_signaled(m), which finds the answer `yes'. *)
Poll(m, yes) ==
  /\ yes = (m \in signaled \cup Polled)
  /\ IF m \in signaled THEN UNCHANGED <<dmaEmited, signaled>>
     ELSE /\ signaled' = signaled \cup Polled
          /\ dmaEmited' = SubSeq(dmaEmited, Cardinality(Reached) + 1, Len(dmaEmited))

(* chrome_fence_unref.  No caller drops the reference of the creation, so  *)
(* that chrome_fence_object_destroy never runs for these fences.           *)
Unref(m) == refs' = [refs EXCEPT ![m] = @ - 1]

-----------------------------------------------------------------------------
(* The calls *)

Goto(m, step) == pc' = [pc EXCEPT ![m] = step]

(* chrome_bo_move finds no space in the aperture, or cannot set the        *)
(* caching of the pages: the buffer stays in VRAM and the caller knows.    *)
Refuse(m) ==
  /\ pc[m] = "idle" /\ m \in ToSystem
  /\ Goto(m, "refused")
  /\ UNCHANGED <<bkl, smLock, fenceVars, sgVars, hwVars>>

(* chrome_build_sg_obj: the descriptors, and its own reference on the      *)
(* fence the call has just created.                                        *)
Build(m) ==
  /\ pc[m] = "idle"
  /\ refs' = [refs EXCEPT ![m] = 2]
  /\ sg' = [sg EXCEPT ![m] = "built"]
  /\ Goto(m, "wait_idle")
  /\ UNCHANGED <<bkl, smLock, dmaSeq, sequence, dmaEmited, signaled, boFence,
                 ddestory, work, worker, hwVars>>

(* What chrome_bo_move does when chrome_move fails: into VRAM, it copies   *)
(* with the CPU; out of VRAM, the next assignment to r hides the failure.  *)
Fallback(m) == IF m \in ToSystem THEN "moved" ELSE "copied"

(* No memory for the descriptors: the fence keeps its first reference. *)
BuildFails(m) ==
  /\ pc[m] = "idle"
  /\ refs' = [refs EXCEPT ![m] = 1]
  /\ Goto(m, Fallback(m))
  /\ UNCHANGED <<bkl, smLock, dmaSeq, sequence, dmaEmited, signaled, boFence,
                 sgVars, hwVars>>

(* wait_dma_idle returns; it slept with the lock given up as long as the   *)
(* engine was busy.                                                        *)
EngineIdle == engine = None

WaitDmaIdle(m) ==
  /\ pc[m] = "wait_idle" /\ EngineIdle
  /\ IF m \in Locked THEN bkl = None /\ bkl' = m ELSE UNCHANGED bkl
  /\ Goto(m, "emit")
  /\ UNCHANGED <<smLock, fenceVars, sgVars, hwVars>>

(* chrome_fence_emit takes fence_pool_lock twice: once for the sequence,   *)
(* once to put the fence on the list.                                      *)
TakeSequence(m) ==
  /\ pc[m] = "emit"
  /\ dmaSeq' = (dmaSeq + 1) % Width
  /\ sequence' = [sequence EXCEPT ![m] = dmaSeq']
  /\ Goto(m, "list")
  /\ UNCHANGED <<bkl, smLock, dmaEmited, signaled, refs, boFence, sgVars, hwVars>>

ListFence(m) ==
  /\ pc[m] = "list"
  /\ dmaEmited' = Append(dmaEmited, m)
  /\ Goto(m, "write")
  /\ UNCHANGED <<bkl, smLock, dmaSeq, sequence, signaled, refs, boFence,
                 sgVars, hwVars>>

(* Under sg_manager->lock: chrome_write_fence_buffer, chrome_h6_dma_fire. *)
WriteFence(m) ==
  /\ pc[m] = "write" /\ smLock = None
  /\ smLock' = m
  /\ fenceBuf' = sequence[m]
  /\ Goto(m, "fire")
  /\ UNCHANGED <<bkl, fenceVars, sgVars, sync, engine, transferred>>

(* A chain that is still running is cut off.  Whatever follows may sleep,  *)
(* so this is as long as the big kernel lock is certain to be held.        *)
Fire(m) ==
  /\ pc[m] = "fire"
  /\ smLock' = None
  /\ bkl' = IF bkl = m THEN None ELSE bkl
  /\ engine' = m
  /\ Goto(m, "cleanup")
  /\ UNCHANGED <<fenceVars, sgVars, fenceBuf, sync, transferred>>

(* Mutant: no wait before the old space of an evicted buffer is freed. *)
CleanupWithoutWait(m) ==
  /\ pc[m] = "cleanup"
  /\ refs' = [refs EXCEPT ![m] = @ + 1]
  /\ boFence' = boFence \cup {m}
  /\ Goto(m, "release")
  /\ UNCHANGED <<bkl, smLock, dmaSeq, sequence, dmaEmited, signaled, sgVars, hwVars>>

(* ttm_bo_move_accel_cleanup gives the fence to the buffer and, for an     *)
(* eviction, waits for it before the old space is freed.                   *)
AccelCleanup(m) ==
  /\ pc[m] = "cleanup"
  /\ refs' = [refs EXCEPT ![m] = @ + 1]
  /\ boFence' = boFence \cup {m}
  /\ Goto(m, IF m \in Evictions THEN "wait_fence" ELSE "release")
  /\ UNCHANGED <<bkl, smLock, dmaSeq, sequence, dmaEmited, signaled, sgVars, hwVars>>

(* chrome_fence_wait: polls every HZ/100 and gives up after six seconds. *)
FenceWait(m) ==
  /\ pc[m] = "wait_fence"
  /\ \/ Poll(m, TRUE)
     \/ m \in Late /\ Poll(m, FALSE)
  /\ Goto(m, "release")
  /\ UNCHANGED <<bkl, smLock, dmaSeq, sequence, refs, boFence, sgVars, hwVars>>

(* Mutant: releases the chain without looking at the fence. *)
ReleaseUnchecked(m) ==
  /\ pc[m] = "release"
  /\ Unref(m)
  /\ sg' = [sg EXCEPT ![m] = "freed"]
  /\ Goto(m, "moved")
  /\ UNCHANGED <<bkl, smLock, dmaSeq, sequence, dmaEmited, signaled, boFence,
                 ddestory, work, worker, hwVars>>

(* chrome_release_sg_obj, whose object is on no list yet. *)
ReleaseNow(m) ==
  /\ pc[m] = "release"
  /\ Poll(m, TRUE)
  /\ Unref(m)
  /\ sg' = [sg EXCEPT ![m] = "freed"]
  /\ Goto(m, "moved")
  /\ UNCHANGED <<bkl, smLock, dmaSeq, sequence, boFence, ddestory, work, worker, hwVars>>

ReleaseLater(m) ==
  /\ pc[m] = "release"
  /\ Poll(m, FALSE)
  /\ Goto(m, "delay")
  /\ UNCHANGED <<bkl, smLock, dmaSeq, sequence, refs, boFence, sgVars, hwVars>>

DelayDestroy(m) ==
  /\ pc[m] = "delay" /\ smLock = None
  /\ ddestory' = Append(ddestory, m)
  /\ Goto(m, "schedule")
  /\ UNCHANGED <<bkl, smLock, fenceVars, sg, work, worker, hwVars>>

ScheduleWork(m) ==
  /\ pc[m] = "schedule"
  /\ work' = TRUE
  /\ Goto(m, "moved")
  /\ UNCHANGED <<bkl, smLock, fenceVars, sg, ddestory, worker, hwVars>>

-----------------------------------------------------------------------------
(* The delayed work *)

WorkStarts ==
  /\ work /\ worker = "idle" /\ smLock = None
  /\ work' = FALSE
  /\ worker' = IF ddestory = <<>> THEN "idle" ELSE "remove"
  /\ UNCHANGED <<callVars, fenceVars, sg, ddestory, hwVars>>

(* chrome_sg_delay_remove begins again after each object it released. *)
RemoveFirst ==
  /\ worker = "remove" /\ ddestory /= <<>> /\ smLock = None
  /\ LET m == Head(ddestory) IN
       /\ Poll(m, TRUE)
       /\ Unref(m)
       /\ sg' = [sg EXCEPT ![m] = "freed"]
  /\ ddestory' = Tail(ddestory)
  /\ UNCHANGED <<callVars, dmaSeq, sequence, boFence, work, worker, hwVars>>

RemovedAll ==
  /\ worker = "remove" /\ ddestory = <<>>
  /\ worker' = "idle"
  /\ UNCHANGED <<callVars, fenceVars, sg, ddestory, work, hwVars>>

(* The first object is not over: -EBUSY, and the work is scheduled again. *)
FirstIsBusy ==
  /\ worker = "remove" /\ ddestory /= <<>>
  /\ Poll(Head(ddestory), FALSE)
  /\ worker' = "again"
  /\ UNCHANGED <<callVars, dmaSeq, sequence, refs, boFence, sg, ddestory, work, hwVars>>

(* Mutant: -EBUSY is not answered with another work. *)
RescheduleForgotten ==
  /\ worker = "again"
  /\ worker' = "idle"
  /\ UNCHANGED <<callVars, fenceVars, sg, ddestory, work, hwVars>>

Reschedule ==
  /\ worker = "again"
  /\ worker' = "idle" /\ work' = TRUE
  /\ UNCHANGED <<callVars, fenceVars, sg, ddestory, hwVars>>

-----------------------------------------------------------------------------
(* The engine, and TTM, which drops the fence of a buffer found idle *)

EngineCompletes ==
  /\ engine /= None
  /\ transferred' = transferred \cup {engine}
  /\ sync' = fenceBuf
  /\ engine' = None
  /\ UNCHANGED <<callVars, fenceVars, sgVars, fenceBuf>>

BufferIdle(m) ==
  /\ m \in boFence
  /\ Poll(m, TRUE)
  /\ boFence' = boFence \ {m}
  /\ Unref(m)
  /\ UNCHANGED <<callVars, dmaSeq, sequence, sgVars, hwVars>>

-----------------------------------------------------------------------------
Step(m) ==
  \/ Refuse(m) \/ Build(m) \/ BuildFails(m) \/ WaitDmaIdle(m)
  \/ TakeSequence(m) \/ ListFence(m) \/ WriteFence(m) \/ Fire(m)
  \/ AccelCleanup(m) \/ FenceWait(m) \/ ReleaseNow(m) \/ ReleaseLater(m)
  \/ DelayDestroy(m) \/ ScheduleWork(m)

Work == WorkStarts \/ RemoveFirst \/ RemovedAll \/ FirstIsBusy \/ Reschedule

Next == (\E m \in Movers : Step(m) \/ BufferIdle(m)) \/ Work \/ EngineCompletes

Spec == Init /\ [][Next]_vars

(* A call that has begun runs on, the workqueue runs what is scheduled,    *)
(* the engine completes its chains and TTM looks at its buffers.           *)
Fairness ==
  /\ \A m \in Movers : WF_vars(pc[m] /= "idle" /\ Step(m)) /\ WF_vars(BufferIdle(m))
  /\ WF_vars(Work) /\ WF_vars(EngineCompletes)

LiveSpec == Spec /\ Fairness

-----------------------------------------------------------------------------
(* Properties *)

(* Each variable has its type. *)
TypeOK ==
  /\ pc \in [Movers -> {"idle", "wait_idle", "emit", "list", "write", "fire",
                        "cleanup", "wait_fence", "release", "delay", "schedule",
                        "refused", "copied", "moved"}]
  /\ bkl \in Locked \cup {None} /\ smLock \in Movers \cup {None}
  /\ dmaSeq \in Nat /\ sequence \in [Movers -> Nat]
  /\ dmaEmited \in Seq(Movers) /\ signaled \subseteq Movers
  /\ refs \in [Movers -> Nat] /\ boFence \subseteq Movers
  /\ sg \in [Movers -> {"none", "built", "freed"}] /\ ddestory \in Seq(Movers)
  /\ work \in BOOLEAN /\ worker \in {"idle", "remove", "again"}
  /\ fenceBuf \in Nat /\ sync \in Nat
  /\ engine \in Movers \cup {None} /\ transferred \subseteq Movers

(* chrome_move, "write fence buffer & fire must be atomic": the word that  *)
(* the chain of a call will copy at its end is the sequence of that call.  *)
FenceIsItsOwn == engine /= None => fenceBuf = sequence[engine]

(* A fence signals only when the data of its move have been transferred:   *)
(* its position on the list, the order of the sequences and the sync word  *)
(* never make up a completion.                                             *)
SignaledIsOver == signaled \cup Polled \subseteq transferred

(* chrome_free_sg_info: the engine never runs a chain whose descriptors    *)
(* are freed and whose pages are unmapped.                                 *)
ChainsStayMapped == engine /= None => sg[engine] = "built"

(* chrome_release_sg_obj puts an object on the list before it schedules    *)
(* the work, and the work goes on as long as it found an object busy: what *)
(* is on the list has somebody who will come for it.                       *)
SomebodyWillCome ==
  ddestory /= <<>> => \/ work \/ worker /= "idle"
                      \/ \E m \in Movers : pc[m] = "schedule"

(* The old space of an evicted buffer is reused as soon as the call is     *)
(* back: by then the engine has read it, unless it needs more than the six *)
(* seconds of the wait.                                                    *)
EvictedIsOver ==
  \A m \in Evictions \ Late : m \in boFence /\ pc[m] /= "wait_fence" => m \in transferred

(* chrome_bo_move, "VRAM -> SYSTEM MEM, first move VRAM to TT": a call     *)
(* that reports success has had its data moved by the engine, or the       *)
(* engine is at it.  It does not hold: the result of the engine's move is  *)
(* overwritten (908).                                                      *)
MovedIsMoved ==
  \A m \in Movers : pc[m] = "moved" => engine = m \/ m \in transferred

(* chrome_move, "release resources & unmap dma": once a call has built its *)
(* chain, the chain is released.                                           *)
ChainsAreReleased == \A m \in Movers : sg[m] = "built" ~> sg[m] = "freed"

=============================================================================
