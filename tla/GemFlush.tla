------------------------------ MODULE GemFlush ------------------------------
(***************************************************************************)
(* The flush of a command buffer (chrome_ioctl_gem_flush, chrome9_reloc.c, *)
(* chrome9_dma.c) and what it shares with those who wait for a buffer:     *)
(* reservations, the fence in bo.sync_obj, the flag of a branch buffer     *)
(* that is being executed.                                                 *)
(*                                                                         *)
(* command_flush_lock lets one flush run at a time: `step' is its step,    *)
(* "idle" when the lock is free.  Fences are numbered as they are created, *)
(* which is the order of their sequences.                                  *)
(***************************************************************************)
EXTENDS Integers, Sequences, FiniteSets

CONSTANTS
  Files,        \* the processes that flush
  Waiters,      \* the calls of chrome_object_wait, by other processes
  Buffers,      \* the buffers that relocations name
  CmdBuffers,   \* the branch buffers
  Interrupted,  \* files that may get a signal while they wait to reserve
  Confused,     \* files that may name a branch buffer that does not exist
  Careless,     \* branch buffers used by other threads during their flush
  MaxFlushes,   \* bounds the number of flushes
  Dma,          \* the fence of a move
  None

Objects == Buffers \cup CmdBuffers
Fences == 1 .. MaxFlushes

ASSUME FlushAssumption ==
  /\ IsFiniteSet(Objects) /\ Buffers \cap CmdBuffers = {}
  /\ Interrupted \subseteq Files /\ Confused \subseteq Files
  /\ Careless \subseteq CmdBuffers /\ MaxFlushes \in Nat
  /\ None \notin Files \cup Waiters \cup Objects \cup Fences
  /\ Dma \notin Fences \cup {None} /\ "flush" \notin Waiters \cup {None}

VARIABLES
  step,        \* where the flush is
  flush,       \* its file, its relocation targets, its branch buffer
  todo,        \* the targets its current loop has not reached
  reserved,    \* ttm_buffer_object.reserved, with who set it
  reservedBy,  \* chrome_object.reserved_by
  syncObj,     \* ttm_buffer_object.sync_obj: a fence, Dma or None
  flags,       \* the branch buffers with CHROME_BO_FLAG_CMD_FLUSHING
  mapped,      \* the branch buffers that their process can write
  moving,      \* the buffers that the DMA engine is moving
  created,     \* the number of fences created
  emited,      \* the fences emitted
  refs,        \* the reference count of each fence
  uses,        \* what the commands before each fence work on
  ring,        \* what the GPU has still to execute
  published,   \* the sequence in the fence memory
  waits,       \* the buffer each waiter waits for
  waited,      \* the waiters that have found their buffer idle
  dropped,     \* history: buffers that lost their fence before it had signaled
  stolen,      \* history: buffers unreserved by a flush that had not reserved
  late         \* history: moving buffers that a flush has stopped waiting for

flushVars == <<step, flush, todo>>
fenceVars == <<created, emited, refs>>
gpuVars == <<uses, ring, published>>
waitVars == <<waits, waited>>
vars == <<flushVars, reserved, reservedBy, syncObj, flags, mapped, moving,
          fenceVars, gpuVars, waitVars, dropped, stolen, late>>

NoFlush == [file |-> None, objs |-> {}, cmd |-> None]

Init ==
  /\ step = "idle" /\ flush = NoFlush /\ todo = {}
  /\ reserved = [b \in Objects |-> None]
  /\ reservedBy = [b \in Buffers |-> None]
  /\ syncObj = [b \in Objects |-> None]
  /\ flags = {} /\ mapped = {} /\ moving = {}
  /\ created = 0 /\ emited = {} /\ refs = [f \in Fences |-> 0]
  /\ uses = [f \in Fences |-> {}] /\ ring = <<>> /\ published = 0
  /\ waits = [w \in Waiters |-> None] /\ waited = {}
  /\ dropped = {} /\ stolen = {} /\ late = {}

Busy(b) == \E i \in DOMAIN ring : ring[i].kind = "cmds" /\ b \in uses[ring[i].fence]

(* parse.fence *)
Fence == created

(* chrome_fence_signaled on the sync_obj of b, as ttm_bo_wait calls it.  A *)
(* fence that was never emitted counts as signaled.                        *)
Signaled(b) ==
  CASE syncObj[b] = None -> TRUE
    [] syncObj[b] = Dma -> b \notin moving
    [] syncObj[b] \in Fences -> syncObj[b] \in emited => syncObj[b] <= published

(* Drops the fences of a set of buffers; own is what the reference count   *)
(* of the flush's own fence gains.                                         *)
Unref(bs, own) ==
  refs' = [f \in Fences |-> refs[f] - Cardinality({b \in bs : syncObj[b] = f})
                                    + (IF f = Fence THEN own ELSE 0)]

-----------------------------------------------------------------------------
(* chrome_parse_init, chrome_parse_reloc *)

BeginFlush(p, objs, cmd) ==
  /\ step = "idle" /\ created < MaxFlushes
  /\ \A w \in Waiters : waits[w] = cmd => cmd \in {None} \cup Careless
  /\ created' = created + 1
  /\ refs' = [refs EXCEPT ![created'] = 1]
  /\ flush' = [file |-> p, objs |-> objs, cmd |-> cmd]
  /\ IF objs = {} THEN step' = "submit" /\ todo' = {}
                  ELSE step' = "reserve" /\ todo' = objs
  /\ UNCHANGED <<reserved, reservedBy, syncObj, flags, mapped, moving, emited,
                 gpuVars, waitVars, dropped, stolen, late>>

(* chrome_validate_fini: unreserves what has reserved_by, whoever set      *)
(* `reserved'.                                                             *)
Mine == {b \in flush.objs : reservedBy[b] = flush.file}

(* Mutant: forgets to unreserve. *)
UnreserveNone(bs) == UNCHANGED <<reserved, reservedBy, stolen>>

UnreserveAll(bs) ==
  /\ reserved' = [b \in Objects |-> IF b \in bs THEN None ELSE reserved[b]]
  /\ reservedBy' = [b \in Buffers |-> IF b \in bs THEN None ELSE reservedBy[b]]
  /\ stolen' = stolen \cup {b \in bs : reserved[b] /= "flush"}

(* chrome_parse_fini with an error: drops the fences of the buffers that   *)
(* were looked up, those of earlier flushes and of moves among them.  The  *)
(* buffers of `also' have reserved_by set and are not reserved.            *)
Fail(seen, also) ==
  /\ Unref(seen, -1)
  /\ syncObj' = [b \in Objects |-> IF b \in seen THEN None ELSE syncObj[b]]
  /\ dropped' = dropped \cup {b \in seen : Busy(b) \/ b \in moving}
  /\ UnreserveAll(Mine \cup also)
  /\ step' = "idle" /\ flush' = NoFlush /\ todo' = {}

Free(b) == reserved[b] = None

ReserveNext(b) ==
  /\ step = "reserve" /\ b \in todo
  /\ IF reservedBy[b] = None
     THEN /\ Free(b)
          /\ reserved' = [reserved EXCEPT ![b] = "flush"]
          /\ reservedBy' = [reservedBy EXCEPT ![b] = flush.file]
     ELSE UNCHANGED <<reserved, reservedBy>>
  /\ IF todo = {b} THEN step' = "validate" /\ todo' = flush.objs
                   ELSE todo' = todo \ {b} /\ UNCHANGED step
  /\ UNCHANGED <<flush, syncObj, flags, mapped, moving, fenceVars, gpuVars,
                 waitVars, dropped, stolen, late>>

(* A signal ends the wait; reserved_by is set all the same. *)
ReserveInterrupted(b) ==
  /\ step = "reserve" /\ b \in todo /\ flush.file \in Interrupted
  /\ reservedBy[b] = None /\ ~ Free(b)
  /\ Fail((flush.objs \ todo) \cup {b}, {b})
  /\ UNCHANGED <<flags, mapped, moving, created, emited, gpuVars, waitVars,
                 late>>

(* ttm_bo_validate inside the flush; TTM waits for the buffer's fence, and *)
(* chrome_move for the DMA engine (wait_dma_idle) before it moves the      *)
(* buffer.  A buffer that has just been moved is not moved again.          *)
ValidateMove(b) ==
  /\ step = "validate" /\ b \in todo
  /\ syncObj[b] /= Dma /\ Signaled(b) /\ b \notin moving
  /\ Unref({b}, 0)
  /\ syncObj' = [syncObj EXCEPT ![b] = Dma]
  /\ moving' = moving \cup {b}
  /\ UNCHANGED <<flushVars, reserved, reservedBy, flags, mapped, created, emited,
                 gpuVars, waitVars, dropped, stolen, late>>

ValidateFails(b) ==
  /\ step = "validate" /\ b \in todo
  /\ Fail(flush.objs, {})
  /\ UNCHANGED <<flags, mapped, moving, created, emited, gpuVars, waitVars,
                 late>>

(* Mutant: the flush does not wait for the move of the buffer. *)
MoveForgotten(b) == TRUE

MoveOver(b) == syncObj[b] = Dma => b \notin moving

(* The fence of the flush replaces the one before, which is waited for if  *)
(* it is that of a move: until the move is over, or for six seconds, when  *)
(* chrome_fence_wait returns -EBUSY and the flush goes on all the same.    *)
(* (TTM_BO_PRIV_FLAG_MOVING then stays set and the next flush waits for    *)
(* the fence of this one, which only delays it.)                           *)
AddFence(b) ==
  /\ step = "validate" /\ b \in todo
  /\ \/ MoveOver(b) /\ UNCHANGED late
     \/ ~ MoveOver(b) /\ late' = late \cup {b}
  /\ Unref({b}, 1)
  /\ syncObj' = [syncObj EXCEPT ![b] = Fence]
  /\ todo' = todo \ {b}
  /\ step' = IF todo' = {} THEN "submit" ELSE step
  /\ UNCHANGED <<flush, reserved, reservedBy, flags, mapped, moving, created,
                 emited, gpuVars, waitVars, dropped, stolen>>

-----------------------------------------------------------------------------
(* The rest of chrome_ioctl_gem_flush *)

(* The GPU has the commands; nothing from here to the fence can fail. *)
HandOver ==
  /\ uses' = [uses EXCEPT ![Fence] = flush.objs \cup ({flush.cmd} \ {None})]
  /\ ring' = Append(ring, [fence |-> Fence, kind |-> "cmds"])
  /\ step' = "emit"

(* chrome_ringbuffer_flush *)
RingFlush ==
  /\ step = "submit" /\ flush.cmd = None
  /\ HandOver
  /\ UNCHANGED <<flush, todo, reserved, reservedBy, syncObj, flags, mapped, moving,
                 fenceVars, published, waitVars, dropped, stolen, late>>

(* The offsets cannot be copied back, or the commands not be read. *)
SubmitFails ==
  /\ step = "submit"
  /\ Fail(flush.objs, {})
  /\ UNCHANGED <<flags, mapped, moving, created, emited, gpuVars, waitVars,
                 late>>

(* No such branch buffer: returns without chrome_parse_fini.  The targets  *)
(* stay reserved, with a fence that is never emitted.                      *)
LookupFails ==
  /\ step = "submit" /\ flush.cmd /= None /\ flush.file \in Confused
  /\ dropped' = dropped \cup {b \in flush.objs : Busy(b)}
  /\ step' = "idle" /\ flush' = NoFlush
  /\ UNCHANGED <<todo, reserved, reservedBy, syncObj, flags, mapped, moving,
                 fenceVars, gpuVars, waitVars, stolen, late>>

(* chrome_branchbuffer_flush, up to the pin *)
BranchFlush ==
  /\ step = "submit" /\ flush.cmd /= None
  /\ flags' = flags \cup {flush.cmd} /\ mapped' = mapped \ {flush.cmd}
  /\ step' = "pin"
  /\ UNCHANGED <<flush, todo, reserved, reservedBy, syncObj, moving, fenceVars,
                 gpuVars, waitVars, dropped, stolen, late>>

(* chrome_bo_pin reserves the branch buffer for as long as it takes. *)
Pin ==
  /\ step = "pin" /\ Free(flush.cmd)
  /\ step' = "execute"
  /\ UNCHANGED <<flush, todo, reserved, reservedBy, syncObj, flags, mapped, moving,
                 fenceVars, gpuVars, waitVars, dropped, stolen, late>>

(* The branch buffer loses its fence with the others. *)
PinFails ==
  /\ step = "pin"
  /\ Fail(flush.objs \cup {flush.cmd}, {})
  /\ UNCHANGED <<flags, mapped, moving, created, emited, gpuVars, waitVars,
                 late>>

(* The fence replaces the one before, whose reference is lost. *)
Execute ==
  /\ step = "execute"
  /\ syncObj' = [syncObj EXCEPT ![flush.cmd] = Fence]
  /\ refs' = [refs EXCEPT ![Fence] = @ + 1]
  /\ HandOver
  /\ UNCHANGED <<flush, todo, reserved, reservedBy, flags, mapped, moving, created,
                 emited, published, waitVars, dropped, stolen, late>>

(* Mutant: the fence is put in the ring and not marked as emitted. *)
EmitUnmarked ==
  /\ step = "emit"
  /\ ring' = Append(ring, [fence |-> Fence, kind |-> "fence"])
  /\ refs' = [refs EXCEPT ![Fence] = @ - 1]
  /\ UnreserveAll(Mine)
  /\ dropped' = dropped \ (uses[Fence] \ moving)
  /\ step' = "idle" /\ flush' = NoFlush
  /\ UNCHANGED <<todo, syncObj, flags, mapped, moving, created, emited, uses,
                 published, waitVars, late>>

(* chrome_parse_fini *)
Emit ==
  /\ step = "emit"
  /\ emited' = emited \cup {Fence}
  /\ ring' = Append(ring, [fence |-> Fence, kind |-> "fence"])
  /\ refs' = [refs EXCEPT ![Fence] = @ - 1]
  /\ UnreserveAll(Mine)
  /\ dropped' = dropped \ (uses[Fence] \ moving)
  /\ step' = "idle" /\ flush' = NoFlush
  /\ UNCHANGED <<todo, syncObj, flags, mapped, moving, created, uses, published,
                 waitVars, late>>

-----------------------------------------------------------------------------
(* chrome_object_wait, chrome_bo_fault_reserve_notify, other moves *)

(* What ttm_bo_wait does with a fence that has signaled. *)
Idle(b) ==
  /\ Signaled(b)
  /\ Unref({b}, 0)
  /\ syncObj' = [syncObj EXCEPT ![b] = None]
  /\ flags' = flags \ {b}

(* From the hand-over to the fence the flush does not sleep, and keeps the *)
(* big kernel lock from the other ioctls; page faults do not take it.      *)
LockIsFree == step \notin {"execute", "emit"}

MayUse(b) == b = flush.cmd => b \in Careless

WaitReserve(w, b) ==
  /\ LockIsFree /\ waits[w] = None /\ Free(b) /\ MayUse(b)
  /\ waits' = [waits EXCEPT ![w] = b]
  /\ reserved' = [reserved EXCEPT ![b] = w]
  /\ UNCHANGED <<flushVars, reservedBy, syncObj, flags, mapped, moving, fenceVars,
                 gpuVars, waited, dropped, stolen, late>>

WaitIdle(w) ==
  /\ LockIsFree /\ waits[w] /= None /\ w \notin waited
  /\ Idle(waits[w])
  /\ waited' = waited \cup {w}
  /\ UNCHANGED <<flushVars, reserved, reservedBy, mapped, moving, created, emited,
                 gpuVars, waits, dropped, stolen, late>>

(* Mutant: a wait that fails leaves the buffer reserved. *)
WaitReturnsIfIdle(w) ==
  /\ LockIsFree /\ waits[w] /= None
  /\ reserved' = IF w \in waited THEN [reserved EXCEPT ![waits[w]] = None] ELSE reserved
  /\ waits' = [waits EXCEPT ![w] = None] /\ waited' = waited \ {w}
  /\ UNCHANGED <<flushVars, reservedBy, syncObj, flags, mapped, moving, fenceVars,
                 gpuVars, dropped, stolen, late>>

(* With an error if the buffer is not idle: no_wait, a signal, six seconds. *)
WaitReturns(w) ==
  /\ LockIsFree /\ waits[w] /= None
  /\ reserved' = [reserved EXCEPT ![waits[w]] = None]
  /\ waits' = [waits EXCEPT ![w] = None] /\ waited' = waited \ {w}
  /\ UNCHANGED <<flushVars, reservedBy, syncObj, flags, mapped, moving, fenceVars,
                 gpuVars, dropped, stolen, late>>

(* Mutant: the fault does not look at the flag. *)
FaultUnchecked(c) ==
  /\ c \notin mapped /\ Free(c)
  /\ MayUse(c)
  /\ mapped' = mapped \cup {c}
  /\ UNCHANGED <<flushVars, reserved, reservedBy, syncObj, flags, moving,
                 fenceVars, gpuVars, waitVars, dropped, stolen, late>>

(* The process writes to a branch buffer. *)
Fault(c) ==
  /\ c \notin mapped /\ Free(c)
  /\ MayUse(c)
  /\ IF c \in flags THEN Idle(c) ELSE UNCHANGED <<refs, syncObj, flags>>
  /\ mapped' = mapped \cup {c}
  /\ UNCHANGED <<flushVars, reserved, reservedBy, moving, created, emited,
                 gpuVars, waitVars, dropped, stolen, late>>

(* A buffer is moved for another reason: memory is short, its domain is    *)
(* set, it is pinned.                                                      *)
OtherMove(b) ==
  /\ Free(b) /\ syncObj[b] /= Dma /\ Signaled(b) /\ b \notin moving
  /\ Unref({b}, 0)
  /\ syncObj' = [syncObj EXCEPT ![b] = Dma]
  /\ moving' = moving \cup {b}
  /\ UNCHANGED <<flushVars, reserved, reservedBy, flags, mapped, created, emited,
                 gpuVars, waitVars, dropped, stolen, late>>

-----------------------------------------------------------------------------
(* The GPU executes the ring in order, the DMA engine moves. *)

GpuStep ==
  /\ ring /= <<>>
  /\ ring' = Tail(ring)
  /\ published' = IF Head(ring).kind = "fence" THEN Head(ring).fence ELSE published
  /\ UNCHANGED <<flushVars, reserved, reservedBy, syncObj, flags, mapped, moving,
                 fenceVars, uses, waitVars, dropped, stolen, late>>

DmaDone(b) ==
  /\ b \in moving
  /\ moving' = moving \ {b} /\ late' = late \ {b}
  /\ UNCHANGED <<flushVars, reserved, reservedBy, syncObj, flags, mapped,
                 fenceVars, gpuVars, waitVars, dropped, stolen>>

-----------------------------------------------------------------------------
FlushStep ==
  \/ \E b \in Buffers : ReserveNext(b) \/ AddFence(b)
  \/ RingFlush \/ BranchFlush \/ Pin \/ Execute \/ Emit

FlushFails ==
  \/ \E b \in Buffers : ReserveInterrupted(b) \/ ValidateFails(b)
  \/ SubmitFails \/ LookupFails \/ PinFails

Wait(w) == \/ \E b \in Objects : WaitReserve(w, b)
           \/ WaitIdle(w) \/ WaitReturns(w)

Next ==
  \/ \E p \in Files, objs \in SUBSET Buffers, cmd \in CmdBuffers \cup {None} :
       BeginFlush(p, objs, cmd)
  \/ FlushStep \/ FlushFails
  \/ \E w \in Waiters : Wait(w)
  \/ \E c \in CmdBuffers : Fault(c)
  \/ \E b \in Buffers : ValidateMove(b) \/ OtherMove(b) \/ DmaDone(b)
  \/ GpuStep

Spec == Init /\ [][Next]_vars

(* The process that flushes and those that wait run on, the engines finish *)
(* what they have.  Whoever waits to reserve a buffer gets it in the end.  *)
Fairness ==
  /\ SF_vars(FlushStep)
  /\ WF_vars(GpuStep) /\ \A b \in Buffers : WF_vars(DmaDone(b))
  /\ \A w \in Waiters : WF_vars(WaitReturns(w))

LiveSpec == Spec /\ Fairness

-----------------------------------------------------------------------------
(* Properties *)

(* Each variable has its type. *)
TypeOK ==
  /\ step \in {"idle", "reserve", "validate", "submit", "pin", "execute", "emit"}
  /\ flush \in [file : Files \cup {None}, objs : SUBSET Buffers,
                cmd : CmdBuffers \cup {None}]
  /\ todo \subseteq flush.objs
  /\ reserved \in [Objects -> Waiters \cup {"flush", None}]
  /\ reservedBy \in [Buffers -> Files \cup {None}]
  /\ syncObj \in [Objects -> Fences \cup {Dma, None}]
  /\ flags \subseteq CmdBuffers /\ mapped \subseteq CmdBuffers
  /\ moving \subseteq Buffers
  /\ created \in 0 .. MaxFlushes /\ emited \subseteq 1 .. created
  /\ refs \in [Fences -> 0 .. Cardinality(Objects) + 1 + MaxFlushes]
  /\ uses \in [Fences -> SUBSET Objects] /\ published \in 0 .. created
  /\ \A i \in DOMAIN ring : ring[i] \in [fence : 1 .. created, kind : {"cmds", "fence"}]
  /\ waits \in [Waiters -> Objects \cup {None}] /\ waited \subseteq Waiters
  /\ dropped \subseteq Objects /\ stolen \subseteq Buffers /\ late \subseteq moving

(* While the GPU has commands for a buffer that nobody has reserved, the   *)
(* buffer has a fence that signals after all of them: whoever reserves it  *)
(* to move it, to free it or to wait for it sees that it is busy.  Except  *)
(* for what chrome_parse_fini takes away after an error.                   *)
FenceKept ==
  \A b \in Buffers \ (dropped \cup stolen) :
    reserved[b] = None =>
      \A i \in DOMAIN ring :
        ring[i].kind = "cmds" /\ b \in uses[ring[i].fence]
          => syncObj[b] \in emited /\ syncObj[b] >= ring[i].fence

(* The GPU works on no buffer that is on its way, and no buffer is moved   *)
(* under the GPU: a move waits for the GPU and the flush waits for a move, *)
(* unless the wait has taken six seconds.                                  *)
NothingMovesBusy ==
  \A b \in moving : ~ Busy(b) \/ b \in dropped \cup stolen \cup late

(* "should wait BO Moving if using DMA" (chrome9_reloc.c:231): the flush   *)
(* does not go on before the move is over.  It does not hold: the error of *)
(* a wait that has timed out (chrome9_reloc.c:235) is dropped.             *)
MovesAreWaitedFor ==
  \A b \in moving : ~ Busy(b) \/ b \in dropped \cup stolen

(* Every sync_obj is a fence that has not been destroyed. *)
NoDanglingFence ==
  \A f \in Fences : refs[f] >= Cardinality({b \in Objects : syncObj[b] = f})

(* Between flushes no buffer is left reserved, except by a flush that did  *)
(* not find its branch buffer.                                             *)
ReservationsReturned ==
  step = "idle" => \A b \in Buffers :
    reserved[b] = "flush" \/ reservedBy[b] /= None => reservedBy[b] \in Confused

(* chrome_bo_fault_reserve_notify, "user space should wait to access it":  *)
(* a process that leaves its branch buffer alone during the flush never    *)
(* has it mapped while the GPU executes it.                                *)
CommandsUntouched ==
  \A c \in mapped \ (Careless \cup dropped) : ~ Busy(c)

(* "wait this bo idle" (chrome_object.c:215): when the wait succeeds, the  *)
(* GPU has no commands for the buffer.  It does not hold: the error path   *)
(* drops fences of others (chrome9_reloc.c:368).                           *)
WaitMeansIdle == \A w \in waited : ~ Busy(waits[w])

(* A flush ends, and gives back the command_flush_lock, unless an earlier  *)
(* one has left buffers reserved.                                          *)
LeftReserved == step = "idle" /\ \E b \in Buffers : reserved[b] = "flush"

FlushReturns == []~ LeftReserved => (step /= "idle" ~> step = "idle")
=============================================================================
