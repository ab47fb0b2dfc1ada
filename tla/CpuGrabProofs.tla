---------------------------- MODULE CpuGrabProofs ----------------------------
(***************************************************************************)
(* The grab of a buffer for the CPU, for every set of processes and any    *)
(* choice of who may be interrupted, who grabs and who is careless.        *)
(*                                                                         *)
(* What keeps the GPU out is the reservation: a flush holds it from the    *)
(* moment it looks at owner_file until its commands are submitted, and a   *)
(* grab needs it to become the owner (Reserved, Unowned).  That the flush  *)
(* need only wait for cpu_writers follows from OwnerIsWriter.  What gives  *)
(* a grab back at the close of a file is the handle (GrabHasHandle).       *)
(***************************************************************************)
EXTENDS CpuGrab, TLAPS

USE FilesAssumption, ChoicesAssumption

(* The steps a process goes through with the buffer reserved. *)
Reserved ==
  \A f \in Files :
    pc[f] \in {"wait_gpu", "access", "flush_wait", "submit", "bug"} => reserved = f

(* A flush whose waits are not interrupted submits to a buffer with no owner. *)
Unowned == \A f \in Files \ Interrupted : pc[f] = "submit" => ownerFile = None

(* Who waits in a grab, or owns the buffer, has a handle of it, except an *)
(* owner that closed the handle of a buffer it held.                      *)
GrabHasHandle ==
  /\ \A f \in Files : pc[f] \in {"wait_cpu", "reserve", "wait_gpu"} => f \in handles
  /\ ownerFile /= None =>
       \/ ownerFile \in Careless
       \/ ownerFile \in handles \cap holds /\ pc[ownerFile] /= "closed"

IInv ==
  /\ TypeOK /\ OwnerIsWriter
  /\ Reserved /\ Unowned /\ OwnerKeepsGpuOut
  /\ GrabHasHandle

LEMMA InitIInv == Init => IInv
BY DEF Init, IInv, TypeOK, OwnerIsWriter, Reserved, Unowned, OwnerKeepsGpuOut, GrabHasHandle
-----------------------------------------------------------------------------
(* A process becomes the owner: the GPU has nothing of the buffer, and no  *)
(* flush can be about to submit, since the reservation is not its.         *)
LEMMA CountStep ==
  ASSUME IInv, NEW f \in Files, Count(f),
         gpu = {}, reserved \in {None, f}, f \in handles,
         UNCHANGED <<handles, flushLock, gpu>>
  PROVE  IInv'
<1>0. /\ pc' = [pc EXCEPT ![f] = "idle"] /\ pc'[f] = "idle"
      /\ \A g \in Files \ {f} : pc'[g] = pc[g]
      /\ ownerFile' = f /\ cpuWriters' = cpuWriters + 1 /\ cpuWriters < MaxWriters
      /\ reserved' = None /\ holds' = holds \cup {f}
  BY DEF Count, Goto, IInv, TypeOK
<1>1. TypeOK'
  BY <1>0 DEF IInv, TypeOK
<1>2. OwnerIsWriter'
  BY <1>0 DEF IInv, TypeOK, OwnerIsWriter
<1>3. \A g \in Files \ {f} : pc[g] \notin {"wait_gpu", "access", "flush_wait", "submit", "bug"}
  BY DEF IInv, Reserved
<1>4. Reserved' /\ Unowned'
  BY <1>0, <1>3 DEF Reserved, Unowned
<1>5. OwnerKeepsGpuOut'
  BY DEF OwnerKeepsGpuOut
<1>6. GrabHasHandle'
  BY <1>0 DEF IInv, GrabHasHandle
<1>. QED
  BY <1>1, <1>2, <1>4, <1>5, <1>6 DEF IInv

(* A process comes to wait, without or with the reservation of the buffer. *)
LEMMA WaitStep ==
  ASSUME IInv, NEW f \in Files, pc[f] \in {"idle", "wait_cpu", "reserve"}, f \in handles,
         UNCHANGED <<handles, ownerFile, cpuWriters, flushLock, gpu, holds>>,
         \/ \E step \in {"wait_cpu", "reserve"} : Goto(f, step) /\ reserved' = reserved
         \/ Goto(f, "wait_gpu") /\ reserved = None /\ reserved' = f
  PROVE  IInv'
<1>0. /\ pc' \in [Files -> {"idle", "wait_cpu", "reserve", "wait_gpu", "lock",
                  "lock_other", "flush_reserve", "access", "flush_wait", "submit", "bug", "closed"}]
      /\ pc'[f] \in {"wait_cpu", "reserve", "wait_gpu"}
      /\ \A g \in Files \ {f} : pc'[g] = pc[g]
  BY DEF Goto, IInv, TypeOK
<1>1. TypeOK'
  BY <1>0 DEF IInv, TypeOK
<1>2. Reserved'
  <2>1. CASE \E step \in {"wait_cpu", "reserve"} : Goto(f, step) /\ reserved' = reserved
    <3>1. pc'[f] \in {"wait_cpu", "reserve"}
      BY <2>1 DEF Goto, IInv, TypeOK
    <3>. QED
      BY <1>0, <2>1, <3>1 DEF IInv, Reserved
  <2>2. CASE Goto(f, "wait_gpu") /\ reserved = None /\ reserved' = f
    BY <1>0, <2>2 DEF IInv, Reserved
  <2>. QED
    BY <2>1, <2>2
<1>3. OwnerIsWriter' /\ Unowned' /\ OwnerKeepsGpuOut'
  BY <1>0 DEF IInv, OwnerIsWriter, Unowned, OwnerKeepsGpuOut
<1>4. GrabHasHandle'
  BY <1>0 DEF IInv, TypeOK, GrabHasHandle
<1>. QED
  BY <1>1, <1>2, <1>3, <1>4 DEF IInv

LEMMA WriteGrabStep ==
  ASSUME IInv, NEW f \in Files, pc[f] \in {"idle", "wait_cpu", "reserve"}, f \in handles,
         WriteGrab(f), UNCHANGED <<handles, flushLock, gpu>>
  PROVE  IInv'
<1>1. CASE reserved /= None
  BY <1>1, WaitStep DEF WriteGrab
<1>2. CASE reserved = None /\ ~GpuIdle
  BY <1>2, WaitStep DEF WriteGrab
<1>3. CASE reserved = None /\ GpuIdle
  BY <1>3, CountStep DEF WriteGrab, GpuIdle
<1>. QED
  BY <1>1, <1>2, <1>3

LEMMA GrabStep ==
  ASSUME IInv, NEW f \in Files,
         BeginGrab(f) \/ WaitCpu(f) \/ GrabReserve(f) \/ Grab(f) \/ GrabInterrupted(f)
  PROVE  IInv'
<1>0. pc[f] \in {"wait_cpu", "reserve", "wait_gpu"} => f \in handles
  BY DEF IInv, GrabHasHandle
<1>1. CASE BeginGrab(f)
  <2>1. f \in handles /\ pc[f] = "idle"
    BY <1>1 DEF BeginGrab
  <2>2. CASE OthersGrabbed(f) /\ ~CpuIdle
    BY <1>1, <2>1, <2>2, WaitStep DEF BeginGrab
  <2>3. CASE ~(OthersGrabbed(f) /\ ~CpuIdle)
    BY <1>1, <2>1, <2>3, WriteGrabStep DEF BeginGrab
  <2>. QED
    BY <2>2, <2>3
<1>2. CASE WaitCpu(f) \/ GrabReserve(f)
  BY <1>0, <1>2, WriteGrabStep DEF WaitCpu, GrabReserve
<1>3. CASE Grab(f)
  BY <1>0, <1>3, CountStep DEF Grab, GpuIdle, IInv, Reserved
<1>4. CASE GrabInterrupted(f)
  <2>1. /\ pc'[f] = "idle" /\ \A g \in Files \ {f} : pc'[g] = pc[g]
        /\ reserved' = IF reserved = f THEN None ELSE reserved
        /\ UNCHANGED <<handles, ownerFile, cpuWriters, flushLock, gpu, holds>>
    BY <1>4 DEF GrabInterrupted, Goto, IInv, TypeOK
  <2>2. TypeOK'
    BY <1>4, <2>1 DEF GrabInterrupted, Goto, IInv, TypeOK
  <2>3. OwnerIsWriter' /\ Reserved' /\ Unowned' /\ OwnerKeepsGpuOut'
    BY <2>1 DEF IInv, OwnerIsWriter, Reserved, Unowned, OwnerKeepsGpuOut
  <2>4. GrabHasHandle'
    BY <2>1 DEF IInv, TypeOK, GrabHasHandle
  <2>. QED
    BY <2>2, <2>3, <2>4 DEF IInv
<1>. QED
  BY <1>1, <1>2, <1>3, <1>4
-----------------------------------------------------------------------------
(* Release and close: the owner goes with its writer, and with its handle. *)
LEMMA ReleaseStep ==
  ASSUME IInv, NEW f \in Files, Release(f) \/ Close(f) \/ CloseHandle(f)
  PROVE  IInv'
<1>1. /\ reserved' = reserved /\ flushLock' = flushLock /\ gpu' = gpu
      /\ pc[f] = "idle" /\ pc'[f] \in {"idle", "closed"}
      /\ \A g \in Files \ {f} : pc'[g] = pc[g]
      /\ handles \ {f} \subseteq handles' /\ handles' \subseteq handles
      /\ holds \ {f} \subseteq holds' /\ holds' \subseteq holds
  BY DEF Release, Close, CloseHandle, Goto, IInv, TypeOK
<1>2. \/ ownerFile' = ownerFile /\ cpuWriters' = cpuWriters
      \/ ownerFile = f /\ ownerFile' = None /\ cpuWriters' = cpuWriters - 1
  BY DEF Release, Close, CloseHandle, ReleaseOwned
<1>3. TypeOK'
  <2>1. cpuWriters' \in 0 .. MaxWriters
    BY <1>2 DEF IInv, TypeOK, OwnerIsWriter
  <2>2. pc' \in [Files -> {"idle", "wait_cpu", "reserve", "wait_gpu", "lock",
                  "lock_other", "flush_reserve", "access", "flush_wait", "submit", "bug", "closed"}]
    BY DEF Release, Close, CloseHandle, Goto, IInv, TypeOK
  <2>. QED
    BY <1>1, <1>2, <2>1, <2>2 DEF IInv, TypeOK
<1>4. OwnerIsWriter' /\ Reserved' /\ Unowned' /\ OwnerKeepsGpuOut'
  BY <1>1, <1>2 DEF IInv, OwnerIsWriter, Reserved, Unowned, OwnerKeepsGpuOut
<1>5. GrabHasHandle'
  <2>1. \A g \in Files : pc'[g] \in {"wait_cpu", "reserve", "wait_gpu"} => g \in handles'
    BY <1>1 DEF IInv, GrabHasHandle
  <2>2. ASSUME ownerFile' /= None, ownerFile' \notin Careless
        PROVE  ownerFile' \in handles' \cap holds' /\ pc'[ownerFile'] /= "closed"
    <3>1. /\ ownerFile' = ownerFile /\ ownerFile \in Files
          /\ ownerFile \in handles \cap holds /\ pc[ownerFile] /= "closed"
      BY <1>2, <2>2 DEF IInv, TypeOK, GrabHasHandle
    <3>2. CASE ownerFile /= f
      BY <1>1, <3>1, <3>2
    <3>3. CASE ownerFile = f
      BY <2>2, <3>1, <3>3 DEF Release, Close, CloseHandle, ReleaseOwned
    <3>. QED
      BY <3>2, <3>3
  <2>. QED
    BY <2>1, <2>2 DEF GrabHasHandle
<1>. QED
  BY <1>3, <1>4, <1>5 DEF IInv
-----------------------------------------------------------------------------
(* The steps of a flush. *)
LEMMA FlushStep ==
  ASSUME IInv, NEW f \in Files,
         \/ BeginFlush(f) \/ FlushLock(f) \/ FlushOther(f) \/ FlushReserve(f)
         \/ WaitCpuAccess(f) \/ FlushWaited(f)
  PROVE  IInv'
<1>1. /\ UNCHANGED <<handles, ownerFile, cpuWriters, gpu, holds>>
      /\ flushLock' \in Files \cup {None}
  BY DEF BeginFlush, FlushLock, FlushOther, FlushReserve, WaitCpuAccess, FlushWaited, IInv, TypeOK
<1>2. /\ pc'[f] \in {"idle", "lock", "lock_other", "flush_reserve", "access", "flush_wait",
                     "submit", "bug"}
      /\ pc' = [pc EXCEPT ![f] = pc'[f]]
      /\ pc[f] /= "closed"
  <2>1. CASE BeginFlush(f) \/ FlushLock(f) \/ FlushOther(f) \/ FlushReserve(f) \/ FlushWaited(f)
    BY <2>1 DEF BeginFlush, FlushLock, FlushOther, FlushReserve, FlushWaited, Goto, IInv, TypeOK
  <2>2. CASE WaitCpuAccess(f)
    <3>1. /\ cpuWriters = 0 \/ cpuWriters > 0
          /\ ownerFile = None \/ ownerFile = f \/ OthersGrabbed(f)
      BY DEF IInv, TypeOK, OthersGrabbed
    <3>2. \E step \in {"submit", "bug", "flush_wait"} : Goto(f, step)
      BY <2>2, <3>1 DEF WaitCpuAccess
    <3>. QED
      BY <2>2, <3>2 DEF WaitCpuAccess, Goto, IInv, TypeOK
  <2>. QED
    BY <2>1, <2>2
<1>3. \A g \in Files \ {f} : pc'[g] = pc[g]
  BY <1>2 DEF IInv, TypeOK
<1>4. Reserved' /\ reserved' \in Files \cup {None}
  <2>1. CASE BeginFlush(f) \/ FlushLock(f) \/ FlushOther(f)
    <3>1. pc'[f] \in {"idle", "lock", "lock_other", "flush_reserve"} /\ reserved' = reserved
      BY <2>1 DEF BeginFlush, FlushLock, FlushOther, Goto, IInv, TypeOK
    <3>. QED
      BY <1>3, <3>1 DEF IInv, TypeOK, Reserved
  <2>2. CASE FlushReserve(f)
    BY <1>3, <2>2 DEF FlushReserve, IInv, TypeOK, Reserved
  <2>3. CASE WaitCpuAccess(f) \/ FlushWaited(f)
    <3>1. reserved' = reserved /\ reserved = f
      BY <2>3 DEF WaitCpuAccess, FlushWaited, IInv, Reserved
    <3>. QED
      BY <1>3, <3>1 DEF IInv, Reserved
  <2>. QED
    BY <2>1, <2>2, <2>3
<1>5. Unowned'
  <2>1. ASSUME f \notin Interrupted, pc'[f] = "submit" PROVE ownerFile = None
    <3>1. CASE WaitCpuAccess(f)
      <4>1. ~(cpuWriters = 0 \/ ownerFile = None) => pc'[f] /= "submit"
        <5> SUFFICES ASSUME cpuWriters /= 0, ownerFile /= None PROVE pc'[f] /= "submit"
          OBVIOUS
        <5>1. cpuWriters > 0 /\ (ownerFile = f \/ OthersGrabbed(f))
          BY DEF IInv, TypeOK, OthersGrabbed
        <5>2. Goto(f, "bug") \/ Goto(f, "flush_wait")
          BY <3>1, <5>1 DEF WaitCpuAccess
        <5>. QED
          BY <5>2 DEF Goto, IInv, TypeOK
      <4>. QED
        BY <2>1, <4>1 DEF IInv, OwnerIsWriter
    <3>2. CASE FlushWaited(f)
      BY <2>1, <3>2 DEF FlushWaited, CpuIdle, IInv, OwnerIsWriter
    <3>3. CASE BeginFlush(f) \/ FlushLock(f) \/ FlushOther(f) \/ FlushReserve(f)
      BY <2>1, <3>3 DEF BeginFlush, FlushLock, FlushOther, FlushReserve, Goto, IInv, TypeOK
    <3>. QED
      BY <3>1, <3>2, <3>3
  <2>. QED
    BY <1>1, <1>3, <2>1 DEF IInv, Unowned
<1>6. TypeOK'
  BY <1>1, <1>2, <1>4 DEF IInv, TypeOK
<1>7. OwnerIsWriter' /\ OwnerKeepsGpuOut'
  BY <1>1 DEF IInv, OwnerIsWriter, OwnerKeepsGpuOut
<1>8. GrabHasHandle'
  <2>1. \A g \in Files : pc'[g] /= pc[g] =>
          pc'[g] \notin {"wait_cpu", "reserve", "wait_gpu", "closed"}
    BY <1>2, <1>3
  <2>. QED
    BY <1>1, <2>1 DEF IInv, TypeOK, GrabHasHandle
<1>. QED
  BY <1>4, <1>5, <1>6, <1>7, <1>8 DEF IInv

(* The commands reach the GPU while the buffer has no owner, or from a     *)
(* process whose wait may have been cut short.                             *)
LEMMA SubmitStep ==
  ASSUME IInv, NEW f \in Files, Submit(f)
  PROVE  IInv'
<1>1. /\ pc' = [pc EXCEPT ![f] = "idle"] /\ pc'[f] = "idle"
      /\ \A g \in Files \ {f} : pc'[g] = pc[g]
      /\ pc[f] = "submit" /\ reserved = f
      /\ gpu' = gpu \cup {f} /\ reserved' = None /\ flushLock' = None
      /\ UNCHANGED <<handles, ownerFile, cpuWriters, holds>>
  BY DEF Submit, Goto, IInv, TypeOK, Reserved
<1>2. TypeOK' /\ OwnerIsWriter' /\ Unowned'
  BY <1>1 DEF IInv, TypeOK, OwnerIsWriter, Unowned
<1>3. Reserved'
  BY <1>1 DEF IInv, Reserved
<1>4. OwnerKeepsGpuOut'
  BY <1>1 DEF IInv, Unowned, OwnerKeepsGpuOut
<1>5. GrabHasHandle'
  BY <1>1 DEF IInv, GrabHasHandle
<1>. QED
  BY <1>2, <1>3, <1>4, <1>5 DEF IInv

LEMMA IInvStep == IInv /\ [Next]_vars => IInv'
<1> SUFFICES ASSUME IInv, [Next]_vars PROVE IInv'
  OBVIOUS
<1>1. ASSUME NEW f \in Files, Running(f) \/ Beginning(f) \/ GrabInterrupted(f)
                              \/ Release(f) \/ Close(f)
      PROVE  IInv'
  <2>1. CASE GrabAgain(f)
    BY <2>1 DEF GrabAgain, vars, IInv, TypeOK, OwnerIsWriter, Reserved, Unowned,
                OwnerKeepsGpuOut, GrabHasHandle
  <2>. QED
    BY <1>1, <2>1, GrabStep, ReleaseStep, FlushStep, SubmitStep DEF Running, Beginning
<1>2. CASE GpuDone
  BY <1>2 DEF GpuDone, IInv, TypeOK, OwnerIsWriter, Reserved, Unowned, OwnerKeepsGpuOut,
              GrabHasHandle
<1>3. CASE UNCHANGED vars
  BY <1>3 DEF vars, IInv, TypeOK, OwnerIsWriter, Reserved, Unowned, OwnerKeepsGpuOut,
              GrabHasHandle
<1>. QED
  BY <1>1, <1>2, <1>3 DEF Next
-----------------------------------------------------------------------------
(* The invariant, of which the type of each variable is a part. *)
THEOREM Invariance == Spec => []IInv
BY InitIInv, IInvStep, PTL DEF Spec

(* While a process is registered as the owner of the buffer, only flushes  *)
(* whose wait a signal may have ended have the GPU work on it.             *)
THEOREM GpuKeptOut == Spec => []OwnerKeepsGpuOut
<1>1. IInv => OwnerKeepsGpuOut
  BY DEF IInv
<1>. QED
  BY <1>1, Invariance, PTL

(* A buffer with an owner has a writer, which is what a flush waits for. *)
THEOREM OwnersAreWriters == Spec => []OwnerIsWriter
<1>1. IInv => OwnerIsWriter
  BY DEF IInv
<1>. QED
  BY <1>1, Invariance, PTL

(* The close of a file takes the grab with it, unless the process closed   *)
(* the handle of a buffer it held.                                         *)
OnlyCarelessStay ==
  ownerFile /= None /\ pc[ownerFile] = "closed" => ownerFile \in Careless

THEOREM ClosedWereCareless == Spec => []OnlyCarelessStay
<1>1. IInv => OnlyCarelessStay
  BY DEF IInv, GrabHasHandle, OnlyCarelessStay
<1>. QED
  BY <1>1, Invariance, PTL

(* Hence nobody waits for a process that is gone, if none is careless. *)
THEOREM ClosedGiveBack ==
  ASSUME Careless = {}
  PROVE  Spec => []ClosedOwnNothing
<1>1. IInv => ClosedOwnNothing
  BY DEF IInv, GrabHasHandle, ClosedOwnNothing
<1>. QED
  BY <1>1, Invariance, PTL
=============================================================================
