------------------------------ MODULE CpuGrab -------------------------------
(***************************************************************************)
(* One buffer object that processes grab for the CPU and that the GPU      *)
(* works on: the ioctls cpu_grab and cpu_release, what a command flush     *)
(* waits for before it gives the buffer to the GPU, and what the close of  *)
(* a file gives back (chrome_drm.c, chrome_object.c).                      *)
(*                                                                         *)
(* Each open file is one process.  The ioctls run under the big kernel     *)
(* lock, which a sleep gives up: what happens between two sleeps is one    *)
(* action.                                                                 *)
(***************************************************************************)
EXTENDS Integers, FiniteSets

CONSTANTS
  Files,         \* struct drm_file of each process
  Grabbers,      \* those whose process grabs the buffer
  Interrupted,   \* those whose waits a signal may interrupt
  Careless,      \* those that may close the handle of a buffer they hold
  OwnersFlush,   \* what the holder of the buffer may flush: "this", "other"
  MaxWriters,    \* bounds cpu_writers
  None

ASSUME FilesAssumption ==
  IsFiniteSet(Files) /\ None \notin Files /\ Grabbers \subseteq Files

ASSUME ChoicesAssumption ==
  /\ Interrupted \subseteq Files /\ Careless \subseteq Files
  /\ OwnersFlush \subseteq {"this", "other"} /\ MaxWriters \in Nat

VARIABLES
  pc,         \* the step of each process
  handles,    \* the files that still have a handle of the buffer
  ownerFile,  \* chrome_object.owner_file
  cpuWriters, \* ttm_buffer_object.cpu_writers
  reserved,   \* the process that has the buffer reserved
  flushLock,  \* dma_manager->command_flush_lock
  gpu,        \* the processes whose commands for the buffer the GPU has
  holds       \* history: the processes whose last cpu_grab returned 0

vars == <<pc, handles, ownerFile, cpuWriters, reserved, flushLock, gpu, holds>>

Goto(f, step) == pc' = [pc EXCEPT ![f] = step]

Init ==
  /\ pc = [f \in Files |-> "idle"] /\ handles = Files
  /\ ownerFile = None /\ cpuWriters = 0
  /\ reserved = None /\ flushLock = None /\ gpu = {}
  /\ holds = {}

-----------------------------------------------------------------------------
(* chrome_ioctl_cpu_grab *)

GrabAgain(f) ==
  /\ pc[f] = "idle" /\ f \in handles /\ ownerFile = f
  /\ UNCHANGED vars

OthersGrabbed(f) == ownerFile \notin {None, f}

CpuIdle == cpuWriters = 0

GpuIdle == gpu = {}

Count(f) ==
  /\ cpuWriters < MaxWriters
  /\ cpuWriters' = cpuWriters + 1 /\ ownerFile' = f
  /\ reserved' = None
  /\ holds' = holds \cup {f}
  /\ Goto(f, "idle")

(* ttm_bo_synccpu_write_grab reserves the buffer and waits for the GPU; it *)
(* sleeps only if it has to.                                               *)
WriteGrab(f) ==
  CASE reserved /= None ->
         Goto(f, "reserve") /\ UNCHANGED <<ownerFile, cpuWriters, reserved, holds>>
    [] reserved = None /\ ~ GpuIdle ->
         /\ reserved' = f /\ Goto(f, "wait_gpu")
         /\ UNCHANGED <<ownerFile, cpuWriters, holds>>
    [] reserved = None /\ GpuIdle -> Count(f)

(* ttm_bo_wait_cpu waits for the writers, not for the owner. *)
BeginGrab(f) ==
  /\ pc[f] = "idle" /\ f \in handles \cap Grabbers /\ ownerFile /= f
  /\ IF OthersGrabbed(f) /\ ~ CpuIdle
     THEN Goto(f, "wait_cpu") /\ UNCHANGED <<ownerFile, cpuWriters, reserved, holds>>
     ELSE WriteGrab(f)
  /\ UNCHANGED <<handles, flushLock, gpu>>

(* The processes that waited do not look at owner_file again. *)
WaitCpu(f) ==
  /\ pc[f] = "wait_cpu" /\ CpuIdle
  /\ WriteGrab(f)
  /\ UNCHANGED <<handles, flushLock, gpu>>

GrabReserve(f) ==
  /\ pc[f] = "reserve" /\ reserved = None
  /\ WriteGrab(f)
  /\ UNCHANGED <<handles, flushLock, gpu>>

Grab(f) ==
  /\ pc[f] = "wait_gpu" /\ GpuIdle
  /\ Count(f)
  /\ UNCHANGED <<handles, flushLock, gpu>>

(* A signal, or a GPU that is late; the ioctl returns an error. *)
GrabInterrupted(f) ==
  /\ f \in Interrupted /\ pc[f] \in {"wait_cpu", "reserve", "wait_gpu"}
  /\ reserved' = IF reserved = f THEN None ELSE reserved
  /\ Goto(f, "idle")
  /\ UNCHANGED <<handles, ownerFile, cpuWriters, flushLock, gpu, holds>>

-----------------------------------------------------------------------------
(* chrome_ioctl_cpu_release, chrome_preclose *)

(* Mutant: forgets the owner and leaves the writer. *)
ReleaseUncounted(f) ==
  IF ownerFile = f
  THEN ownerFile' = None /\ UNCHANGED cpuWriters
  ELSE UNCHANGED <<ownerFile, cpuWriters>>

ReleaseOwned(f) ==
  IF ownerFile = f
  THEN cpuWriters' = cpuWriters - 1 /\ ownerFile' = None
  ELSE UNCHANGED <<ownerFile, cpuWriters>>

Release(f) ==
  /\ pc[f] = "idle" /\ f \in handles
  /\ ReleaseOwned(f)
  /\ holds' = holds \ {f}
  /\ UNCHANGED <<pc, handles, reserved, flushLock, gpu>>

(* Mutant: the close of a file releases nothing. *)
CloseWithoutRelease(f) ==
  /\ pc[f] = "idle"
  /\ Goto(f, "closed")
  /\ handles' = handles \ {f} /\ holds' = holds \ {f}
  /\ UNCHANGED <<ownerFile, cpuWriters, reserved, flushLock, gpu>>

(* idr_for_each visits the buffers the file has a handle of. *)
Close(f) ==
  /\ pc[f] = "idle"
  /\ IF f \in handles THEN ReleaseOwned(f) ELSE UNCHANGED <<ownerFile, cpuWriters>>
  /\ Goto(f, "closed")
  /\ handles' = handles \ {f} /\ holds' = holds \ {f}
  /\ UNCHANGED <<reserved, flushLock, gpu>>

(* The GEM_CLOSE of drm, which knows nothing of the grabs. *)
CloseHandle(f) ==
  /\ pc[f] = "idle" /\ f \in handles
  /\ f \in holds => f \in Careless
  /\ handles' = handles \ {f}
  /\ UNCHANGED <<pc, ownerFile, cpuWriters, reserved, flushLock, gpu, holds>>

-----------------------------------------------------------------------------
(* chrome_ioctl_gem_flush, as far as it concerns the buffer *)

MayFlush(f, buffer) == f \in holds => buffer \in OwnersFlush

BeginFlush(f) ==
  /\ pc[f] = "idle"
  /\ \/ f \in handles /\ MayFlush(f, "this") /\ Goto(f, "lock")
     \/ MayFlush(f, "other") /\ Goto(f, "lock_other")
  /\ UNCHANGED <<handles, ownerFile, cpuWriters, reserved, flushLock, gpu, holds>>

FlushLock(f) ==
  /\ pc[f] = "lock" /\ flushLock = None
  /\ flushLock' = f
  /\ Goto(f, "flush_reserve")
  /\ UNCHANGED <<handles, ownerFile, cpuWriters, reserved, gpu, holds>>

(* A flush of other buffers only needs the lock for a while. *)
FlushOther(f) ==
  /\ pc[f] = "lock_other" /\ flushLock = None
  /\ Goto(f, "idle")
  /\ UNCHANGED <<handles, ownerFile, cpuWriters, reserved, flushLock, gpu, holds>>

(* chrome_validate_init *)
FlushReserve(f) ==
  /\ pc[f] = "flush_reserve" /\ reserved = None
  /\ reserved' = f
  /\ Goto(f, "access")
  /\ UNCHANGED <<handles, ownerFile, cpuWriters, flushLock, gpu, holds>>

(* Mutant: the flush does not wait for the CPU. *)
AccessUnchecked(f) ==
  /\ pc[f] = "access"
  /\ Goto(f, "submit")
  /\ UNCHANGED <<handles, ownerFile, cpuWriters, reserved, flushLock, gpu, holds>>

(* chrome_object_wait_cpu_access; BUG_ON stops the machine. *)
WaitCpuAccess(f) ==
  /\ pc[f] = "access"
  /\ Goto(f, CASE cpuWriters = 0 \/ ownerFile = None -> "submit"
               [] cpuWriters > 0 /\ ownerFile = f -> "bug"
               [] cpuWriters > 0 /\ OthersGrabbed(f) -> "flush_wait")
  /\ UNCHANGED <<handles, ownerFile, cpuWriters, reserved, flushLock, gpu, holds>>

(* The result of the wait is ignored: a signal ends it as well. *)
FlushWaited(f) ==
  /\ pc[f] = "flush_wait" /\ (CpuIdle \/ f \in Interrupted)
  /\ Goto(f, "submit")
  /\ UNCHANGED <<handles, ownerFile, cpuWriters, reserved, flushLock, gpu, holds>>

Submit(f) ==
  /\ pc[f] = "submit"
  /\ gpu' = gpu \cup {f} /\ reserved' = None /\ flushLock' = None
  /\ Goto(f, "idle")
  /\ UNCHANGED <<handles, ownerFile, cpuWriters, holds>>

GpuDone ==
  /\ gpu /= {} /\ gpu' = {}
  /\ UNCHANGED <<pc, handles, ownerFile, cpuWriters, reserved, flushLock, holds>>

-----------------------------------------------------------------------------
Running(f) ==
  \/ WaitCpu(f) \/ GrabReserve(f) \/ Grab(f)
  \/ FlushLock(f) \/ FlushOther(f) \/ FlushReserve(f) \/ WaitCpuAccess(f) \/ FlushWaited(f) \/ Submit(f)

Beginning(f) ==
  GrabAgain(f) \/ BeginGrab(f) \/ BeginFlush(f) \/ CloseHandle(f)

Next ==
  \/ \E f \in Files : \/ Running(f) \/ Beginning(f) \/ GrabInterrupted(f)
                      \/ Release(f) \/ Close(f)
  \/ GpuDone

Spec == Init /\ [][Next]_vars

(* Processes in the kernel run on, the GPU finishes its commands, and a    *)
(* process releases what it holds.                                         *)
Fairness ==
  /\ \A f \in Files : WF_vars(Running(f)) /\ WF_vars(f \in holds /\ Release(f))
  /\ WF_vars(GpuDone)

LiveSpec == Spec /\ Fairness

-----------------------------------------------------------------------------
(* Properties *)

(* Each variable has its type. *)
TypeOK ==
  /\ pc \in [Files -> {"idle", "wait_cpu", "reserve", "wait_gpu", "lock",
                       "lock_other", "flush_reserve", "access", "flush_wait", "submit", "bug", "closed"}]
  /\ handles \subseteq Files /\ ownerFile \in Files \cup {None}
  /\ cpuWriters \in 0 .. MaxWriters
  /\ reserved \in Files \cup {None} /\ flushLock \in Files \cup {None}
  /\ gpu \subseteq Files /\ holds \subseteq Files

(* What chrome_object_wait_cpu_access reads together, owner_file and       *)
(* cpu_writers, agrees: a buffer with an owner has a writer.               *)
OwnerIsWriter == ownerFile /= None => cpuWriters > 0

(* The GPU never works on a buffer that has a registered owner: the flush  *)
(* waits for the owner, the grab waits for the GPU.  The exception is a    *)
(* flush that a signal interrupts, since the result of its wait is ignored.*)
OwnerKeepsGpuOut == ownerFile /= None => gpu \subseteq Interrupted

(* chrome_preclose, "release cpu grab of this process": nobody waits for   *)
(* a process that is gone.                                                 *)
ClosedOwnNothing == ownerFile /= None => pc[ownerFile] /= "closed"

(* chrome_ioctl_cpu_grab, "other process grab it, wait".  It does not hold *)
(* when two processes wait.                                                *)
GrabIsExclusive == Cardinality(holds) <= 1

(* One process at a time holds the buffer, and it does not flush before it *)
(* has released it: otherwise the flush that has the lock may wait for a   *)
(* process that waits for the lock.                                        *)
WellBehaved == GrabIsExclusive /\ \A f \in holds : pc[f] = "idle"

(* A flush that has the command_flush_lock gives it back, which all the    *)
(* other processes need, as long as the holders are well behaved.          *)
FlushReturns ==
  []WellBehaved => \A f \in Files : flushLock = f ~> flushLock /= f
=============================================================================
