----------------------------- MODULE BlitQueue ------------------------------
(***************************************************************************)
(* The queue of one PCI DMA blit engine (chrome1_dmablit.c): processes     *)
(* that grab a slot, build a blit and queue it, the handler shared by      *)
(* processes, the interrupt and the polling timer, the work-queue task     *)
(* that releases blits that are over, and the waiters on blit handles.     *)
(*                                                                         *)
(* A step is one critical section of blit_lock, or one access made outside *)
(* it.  A blit (drm_chrome_sg_info_t) is named by its place in the order   *)
(* in which blits were queued: the k-th blit is k.  Time is abstract:      *)
(* "expired" says whether jiffies has reached blitq->end.                  *)
(***************************************************************************)
EXTENDS Naturals, FiniteSets, Sequences

CONSTANTS
  VIA_NUM_BLIT_SLOTS,  \* slots of the ring (8 in the code)
  HandleMod,           \* 2^w: handles are w-bit unsigned (2^32 in the code)
  HandleHalf,          \* the window of the handle test (2^23 in the code)
  Procs,               \* processes that use the blit ioctl
  Syncers,             \* the ones of them that also use the sync ioctl
  Workers,             \* contexts that may run the work-queue task at a time
  MaxBlits             \* bound: blits queued in a behaviour

ASSUME SlotsAssumption == VIA_NUM_BLIT_SLOTS \in Nat /\ VIA_NUM_BLIT_SLOTS >= 2
ASSUME HandleAssumption ==
  /\ HandleMod \in Nat /\ HandleHalf \in Nat
  /\ VIA_NUM_BLIT_SLOTS - 1 <= HandleHalf
  /\ HandleHalf + VIA_NUM_BLIT_SLOTS <= HandleMod
ASSUME ProcsAssumption == IsFiniteSet(Procs) /\ Syncers \subseteq Procs
ASSUME BoundAssumption == MaxBlits \in Nat

VARIABLES
  \* drm_chrome_blitq_t, under blit_lock
  cur_blit_handle, done_blit_handle,
  serviced, head, cur,
  num_free, num_outstanding,
  aborting, is_active,
  blits,               \* slot -> blit; 0 is a slot never written
  expired,             \* time_after_eq(jiffies, end)
  \* the polling timer and the work item
  timer_pending, timer_pc,
  work_pending, worker_pc, cur_sg,
  \* the engine: bits DE and TD of its CSR, and the blit it works on
  hw, td, engine_blit,
  \* processes: where each is, and the blit whose handle it syncs on
  pc, target,
  \* history: blits queued, over and taken by the work-queue task so far,
  \* the ones aborted, and the ones freed
  queued, over, taken, aborted, freed

ringVars   == <<cur_blit_handle, done_blit_handle, serviced, head, cur,
                num_free, num_outstanding, aborting, is_active, blits, expired>>
timerVars  == <<timer_pending, timer_pc>>
workVars   == <<work_pending, worker_pc, cur_sg>>
engineVars == <<hw, td, engine_blit>>
procVars   == <<pc, target>>
histVars   == <<queued, over, taken, aborted, freed>>
vars == <<ringVars, timerVars, workVars, engineVars, procVars, histVars>>

Slots == 0 .. VIA_NUM_BLIT_SLOTS - 1

(* Plausible mistakes, one per operator: each stands in for the operator it *)
(* is named after to show that a property fails without the code's version. *)
WrapEarly(i) == IF i >= VIA_NUM_BLIT_SLOTS - 1 THEN 0 ELSE i
ScheduleWorkForgotten == UNCHANGED work_pending
ReleasedAfterIncrement == blits[(serviced + 1) % VIA_NUM_BLIT_SLOTS]
TransferDoneByFlagOnly == is_active /\ td

(* "if (x >= VIA_NUM_BLIT_SLOTS) x = 0" after an increment. *)
Wrap(i) == IF i >= VIA_NUM_BLIT_SLOTS THEN 0 ELSE i

(* The same for an index that is at most one lap ahead. *)
Lap(i) == IF i >= VIA_NUM_BLIT_SLOTS THEN i - VIA_NUM_BLIT_SLOTS ELSE i

(* Unsigned w-bit subtraction. *)
Minus(a, b) == (a + HandleMod - b) % HandleMod

Handle(k) == k % HandleMod

(* Processes that hold a slot they have not filled yet. *)
Holders == {p \in Procs : pc[p] = "build"}

Init ==
  /\ cur_blit_handle = 0 /\ done_blit_handle = 0
  /\ serviced = 0 /\ head = 0 /\ cur = 0
  /\ num_free = VIA_NUM_BLIT_SLOTS - 1
  /\ num_outstanding = 0
  /\ aborting = FALSE /\ is_active = FALSE
  /\ blits = [s \in Slots |-> 0]
  /\ expired = FALSE
  /\ timer_pending = FALSE /\ timer_pc = "idle"
  /\ work_pending = FALSE
  /\ worker_pc = [w \in Workers |-> "idle"]
  /\ cur_sg = [w \in Workers |-> 0]
  /\ hw = "off" /\ td = FALSE /\ engine_blit = 0
  /\ pc = [p \in Procs |-> "idle"]
  /\ target = [p \in Procs |-> 0]
  /\ queued = 0 /\ over = 0 /\ taken = 0
  /\ aborted = {} /\ freed = {}
-----------------------------------------------------------------------------
(***************************************************************************)
(* chrome_dmablit: take a slot, build the blit outside the lock, queue it. *)
(***************************************************************************)

SlotFreeUnchecked == TRUE

(* The condition of the wait, tested again under the lock. *)
SlotFree == num_free > 0

(* chrome_dmablit_grab_slot, when a slot is free at once or after a wait. *)
GrabSlot(p) ==
  /\ pc[p] \in {"idle", "grab"}
  /\ SlotFree
  /\ num_free' = num_free - 1
  /\ pc' = [pc EXCEPT ![p] = "build"]
  /\ UNCHANGED <<cur_blit_handle, done_blit_handle, serviced, head, cur,
                 num_outstanding, aborting, is_active, blits, expired,
                 target, timerVars, workVars, engineVars, histVars>>

(* No slot: unlock and wait for one on busy_queue. *)
GrabWait(p) ==
  /\ pc[p] = "idle"
  /\ ~SlotFree
  /\ pc' = [pc EXCEPT ![p] = "grab"]
  /\ UNCHANGED <<ringVars, target, timerVars, workVars, engineVars, histVars>>

(* The wait ends after a second (-EBUSY) or at a signal (-EAGAIN). *)
GrabFail(p) ==
  /\ pc[p] = "grab"
  /\ pc' = [pc EXCEPT ![p] = "idle"]
  /\ UNCHANGED <<ringVars, target, timerVars, workVars, engineVars, histVars>>

(* chrome_dmablit_release_slot: hand the slot back. *)
ReleaseSlot == num_free' = num_free + 1

(* kmalloc or chrome_build_sg_info fails. *)
BuildFail(p) ==
  /\ pc[p] = "build"
  /\ ReleaseSlot
  /\ pc' = [pc EXCEPT ![p] = "idle"]
  /\ UNCHANGED <<cur_blit_handle, done_blit_handle, serviced, head, cur,
                 num_outstanding, aborting, is_active, blits, expired,
                 target, timerVars, workVars, engineVars, histVars>>

(* The blit is built: put it into the ring and give it its handle.  The    *)
(* first conjunct is the bound on the blits of a behaviour.                *)
Enqueue(p) ==
  /\ queued < MaxBlits
  /\ pc[p] = "build"
  /\ blits' = [blits EXCEPT ![head] = queued + 1]
  /\ head' = Wrap(head + 1)
  /\ num_outstanding' = num_outstanding + 1
  /\ cur_blit_handle' = (cur_blit_handle + 1) % HandleMod
  /\ queued' = queued + 1
  /\ pc' = [pc EXCEPT ![p] = "kick"]
  /\ UNCHANGED <<done_blit_handle, serviced, cur, num_free, aborting,
                 is_active, expired, target, timerVars, workVars, engineVars,
                 over, taken, aborted, freed>>
-----------------------------------------------------------------------------
(***************************************************************************)
(* chrome_dmablit_handler.                                                 *)
(***************************************************************************)

(* The status register is read only when the engine is active. *)
TransferDone ==
  \/ is_active /\ td
  \/ aborting /\ ~(is_active /\ hw /= "off")

(* schedule_work on the work item of the queue. *)
ScheduleWork == work_pending' = TRUE

(* mod_timer, unless the timer is pending already. *)
ArmTimer == timer_pending' = TRUE

(* The head of the ring is over: retire it and have it freed. *)
RetireCur ==
  /\ TransferDone
  /\ over' = over + 1
  /\ aborted' = IF aborting THEN aborted \union {blits[cur]} ELSE aborted
  /\ done_blit_handle' = (done_blit_handle + 1) % HandleMod
  /\ cur' = Wrap(cur + 1)
  /\ aborting' = FALSE
  /\ ScheduleWork

(* A transfer that has taken a second is aborted, and given one more. *)
AbortCur ==
  /\ ~TransferDone
  /\ is_active /\ expired
  /\ aborting' = TRUE
  /\ expired' = FALSE
  /\ hw' = IF hw = "run" THEN "abort" ELSE hw
  /\ UNCHANGED <<over, aborted, done_blit_handle, cur, work_pending,
                 is_active, num_outstanding, timer_pending, td, engine_blit>>

(* The engine is busy and has time left: nothing to do. *)
LeaveCur ==
  /\ ~TransferDone
  /\ is_active /\ ~expired
  /\ UNCHANGED <<over, aborted, done_blit_handle, cur, work_pending,
                 aborting, expired, is_active, num_outstanding,
                 timer_pending, hw, td, engine_blit>>

FireStaleSlot(s) ==
  /\ num_outstanding > 0
  /\ hw' = "run" /\ td' = FALSE /\ engine_blit' = blits[cur]
  /\ is_active' = TRUE /\ num_outstanding' = num_outstanding - 1
  /\ expired' = FALSE /\ ArmTimer

(* chrome_fire_dmablit for the blit in slot s. *)
Fire(s) ==
  /\ num_outstanding > 0
  /\ hw' = "run" /\ td' = FALSE
  /\ engine_blit' = blits[s]
  /\ is_active' = TRUE
  /\ num_outstanding' = num_outstanding - 1
  /\ expired' = FALSE
  /\ ArmTimer

(* No blit waits: delete the timer, chrome_dmablit_engine_off. *)
EngineOff ==
  /\ num_outstanding = 0
  /\ hw' = "off" /\ td' = FALSE
  /\ is_active' = FALSE
  /\ timer_pending' = FALSE
  /\ UNCHANGED <<num_outstanding, expired, engine_blit>>

(* What the handler changes is named here and by its callers' UNCHANGED. *)
Handler ==
  /\ \/ RetireCur /\ (Fire(Wrap(cur + 1)) \/ EngineOff)
     \/ /\ ~TransferDone /\ ~is_active
        /\ UNCHANGED <<over, aborted, done_blit_handle, cur, aborting,
                       work_pending>>
        /\ Fire(cur) \/ EngineOff
     \/ AbortCur
     \/ LeaveCur
  /\ UNCHANGED <<cur_blit_handle, serviced, head, num_free, blits,
                 worker_pc, cur_sg, target, queued, taken, freed>>

(* The process that queued a blit calls the handler and returns. *)
Kick(p) ==
  /\ pc[p] = "kick"
  /\ Handler
  /\ pc' = [pc EXCEPT ![p] = "idle"]
  /\ UNCHANGED timer_pc

(* The transfer-done interrupt; there may be none (broken hardware). *)
Interrupt ==
  /\ td
  /\ Handler
  /\ UNCHANGED <<pc, timer_pc>>
-----------------------------------------------------------------------------
(***************************************************************************)
(* chrome_dmablit_timer.  The kernel clears the pending mark before it     *)
(* calls the function and never runs it twice at a time.                   *)
(***************************************************************************)
TimerExpire ==
  /\ timer_pending /\ timer_pc = "idle"
  /\ timer_pending' = FALSE
  /\ timer_pc' = "first"
  /\ UNCHANGED <<ringVars, workVars, engineVars, procVars, histVars>>

TimerFirst ==
  /\ timer_pc = "first"
  /\ Handler
  /\ timer_pc' = "check"
  /\ UNCHANGED pc

(* timer_pending is tested, and the timer armed again, outside the lock. *)
TimerCheck ==
  /\ timer_pc = "check"
  /\ timer_pc' = IF timer_pending THEN "idle" ELSE "again"
  /\ ArmTimer
  /\ UNCHANGED <<ringVars, workVars, engineVars, procVars, histVars>>

TimerAgain ==
  /\ timer_pc = "again"
  /\ Handler
  /\ timer_pc' = "idle"
  /\ UNCHANGED pc

(* jiffies reaches blitq->end. *)
Expire ==
  /\ is_active /\ ~expired
  /\ expired' = TRUE
  /\ UNCHANGED <<cur_blit_handle, done_blit_handle, serviced, head, cur,
                 num_free, num_outstanding, aborting, is_active, blits,
                 timerVars, workVars, engineVars, procVars, histVars>>
-----------------------------------------------------------------------------
(***************************************************************************)
(* The engine.  It may finish the transfer it is on, even when it is being *)
(* aborted; an abort clears DE without setting TD.                         *)
(***************************************************************************)
EngineDone ==
  /\ hw \in {"run", "abort"}
  /\ hw' = "off" /\ td' = TRUE
  /\ UNCHANGED <<engine_blit, ringVars, timerVars, workVars, procVars, histVars>>

EngineAborted ==
  /\ hw = "abort"
  /\ hw' = "off"
  /\ UNCHANGED <<td, engine_blit, ringVars, timerVars, workVars, procVars,
                 histVars>>
-----------------------------------------------------------------------------
(***************************************************************************)
(* chrome_dmablit_workqueue.  The work item can be scheduled again, and    *)
(* taken by another context, while a run of the task is still going on.    *)
(***************************************************************************)
WorkStart(w) ==
  /\ work_pending /\ worker_pc[w] = "idle"
  /\ work_pending' = FALSE
  /\ worker_pc' = [worker_pc EXCEPT ![w] = "loop"]
  /\ UNCHANGED <<cur_sg, ringVars, timerVars, engineVars, procVars, histVars>>

(* blits[serviced++]: the blit the task takes. *)
Released == blits[serviced]

(* Under the lock: take the oldest blit that is over, free its slot. *)
WorkTake(w) ==
  /\ worker_pc[w] = "loop"
  /\ serviced /= cur
  /\ serviced' = Wrap(serviced + 1)
  /\ cur_sg' = [cur_sg EXCEPT ![w] = Released]
  /\ num_free' = num_free + 1
  /\ taken' = taken + 1
  /\ worker_pc' = [worker_pc EXCEPT ![w] = "free"]
  /\ UNCHANGED <<cur_blit_handle, done_blit_handle, head, cur,
                 num_outstanding, aborting, is_active, blits, expired,
                 work_pending, timerVars, engineVars, procVars,
                 queued, over, aborted, freed>>

(* Outside the lock: chrome_free_sg_info and kfree. *)
WorkFree(w) ==
  /\ worker_pc[w] = "free"
  /\ freed' = freed \union {cur_sg[w]}
  /\ worker_pc' = [worker_pc EXCEPT ![w] = "loop"]
  /\ UNCHANGED <<cur_sg, work_pending, ringVars, timerVars, engineVars,
                 procVars, queued, over, taken, aborted>>

WorkDone(w) ==
  /\ worker_pc[w] = "loop"
  /\ serviced = cur
  /\ worker_pc' = [worker_pc EXCEPT ![w] = "idle"]
  /\ UNCHANGED <<cur_sg, work_pending, ringVars, timerVars, engineVars,
                 procVars, histVars>>
-----------------------------------------------------------------------------
(***************************************************************************)
(* chrome_dmablit_sync.                                                    *)
(***************************************************************************)

ActiveSwapped(h) ==
  Minus(h, done_blit_handle) > HandleHalf /\ Minus(cur_blit_handle, h) <= HandleHalf
ActiveIfRecent(h) == Minus(cur_blit_handle, h) <= HandleHalf

(* chrome_dmablit_active: the handle test, and the slot it waits on. *)
Active(h) ==
  /\ Minus(done_blit_handle, h) > HandleHalf
  /\ Minus(cur_blit_handle, h) <= HandleHalf

WaitSlot(h) == Lap(Minus(h, done_blit_handle) + cur - 1)

(* A process syncs on the handle of any blit queued so far. *)
SyncCall(p) ==
  /\ p \in Syncers
  /\ pc[p] = "idle"
  /\ \E k \in 1 .. queued :
       /\ target' = [target EXCEPT ![p] = k]
       /\ pc' = [pc EXCEPT ![p] = IF Active(Handle(k)) THEN "sync" ELSE "synced"]
  /\ UNCHANGED <<ringVars, timerVars, workVars, engineVars, histVars>>

(* DRM_WAIT_ON polls its condition, so that no wake-up can be missed. *)
SyncDone(p) ==
  /\ pc[p] = "sync"
  /\ ~Active(Handle(target[p]))
  /\ pc' = [pc EXCEPT ![p] = "synced"]
  /\ UNCHANGED <<target, ringVars, timerVars, workVars, engineVars, histVars>>

(* Three seconds have passed (-EBUSY), or a signal (-EAGAIN). *)
SyncFail(p) ==
  /\ pc[p] = "sync"
  /\ pc' = [pc EXCEPT ![p] = "idle"]
  /\ target' = [target EXCEPT ![p] = 0]
  /\ UNCHANGED <<ringVars, timerVars, workVars, engineVars, histVars>>

(* The caller has seen the ioctl succeed and goes on. *)
SyncReturn(p) ==
  /\ pc[p] = "synced"
  /\ pc' = [pc EXCEPT ![p] = "idle"]
  /\ target' = [target EXCEPT ![p] = 0]
  /\ UNCHANGED <<ringVars, timerVars, workVars, engineVars, histVars>>
-----------------------------------------------------------------------------
ProcNext(p) ==
  \/ GrabSlot(p) \/ GrabWait(p) \/ GrabFail(p)
  \/ BuildFail(p) \/ Enqueue(p) \/ Kick(p)
  \/ SyncCall(p) \/ SyncDone(p) \/ SyncFail(p) \/ SyncReturn(p)

TimerNext == TimerExpire \/ TimerFirst \/ TimerCheck \/ TimerAgain

WorkNext(w) == WorkStart(w) \/ WorkTake(w) \/ WorkFree(w) \/ WorkDone(w)

Next ==
  \/ \E p \in Procs : ProcNext(p)
  \/ Interrupt \/ TimerNext \/ Expire
  \/ EngineDone \/ EngineAborted
  \/ \E w \in Workers : WorkNext(w)

Spec == Init /\ [][Next]_vars

(***************************************************************************)
(* What the kernel and the engine guarantee: the timer and the work queue  *)
(* run, time passes, a process inside the driver goes on, and an abort is  *)
(* carried out.  Neither interrupts nor completions are taken for granted. *)
(***************************************************************************)
Fairness ==
  /\ WF_vars(TimerNext) /\ WF_vars(Expire)
  /\ WF_vars(hw = "abort" /\ (EngineDone \/ EngineAborted))
  /\ \A p \in Procs : WF_vars(Kick(p)) /\ WF_vars(SyncDone(p))
  /\ \A w \in Workers : WF_vars(WorkNext(w))

FairSpec == Spec /\ Fairness
-----------------------------------------------------------------------------
(***************************************************************************)
(* Properties.                                                             *)
(***************************************************************************)

(* Every variable keeps to the values the code can give it. *)
TypeOK ==
  /\ cur_blit_handle \in 0 .. HandleMod - 1
  /\ done_blit_handle \in 0 .. HandleMod - 1
  /\ serviced \in Slots /\ head \in Slots /\ cur \in Slots
  /\ num_free \in 0 .. VIA_NUM_BLIT_SLOTS - 1
  /\ num_outstanding \in 0 .. VIA_NUM_BLIT_SLOTS - 1
  /\ aborting \in BOOLEAN /\ is_active \in BOOLEAN /\ expired \in BOOLEAN
  /\ blits \in [Slots -> Nat]
  /\ timer_pending \in BOOLEAN
  /\ timer_pc \in {"idle", "first", "check", "again"}
  /\ work_pending \in BOOLEAN
  /\ worker_pc \in [Workers -> {"idle", "loop", "free"}]
  /\ cur_sg \in [Workers -> Nat]
  /\ hw \in {"off", "run", "abort"} /\ td \in BOOLEAN /\ engine_blit \in Nat
  /\ pc \in [Procs -> {"idle", "grab", "build", "kick", "sync", "synced"}]
  /\ target \in [Procs -> Nat]
  /\ queued \in Nat /\ over \in Nat /\ taken \in Nat
  /\ aborted \subseteq Nat /\ freed \subseteq Nat

(* The slot of a queued blit that the work-queue task has not taken. *)
SlotOf(k) == Lap(serviced + (k - taken) - 1)

(* Every slot but one is free, held by a process that is building its      *)
(* blit, or in use: num_free loses and invents no slot, whatever fails.    *)
SlotAccounting ==
  num_free + Cardinality(Holders) + (queued - taken) = VIA_NUM_BLIT_SLOTS - 1

(* A queued blit stays in its slot until the work-queue task has taken it: *)
(* head never catches up with serviced, although no index is compared.     *)
NoOverwrite ==
  /\ taken <= over /\ over <= queued
  /\ \A k \in taken + 1 .. queued : blits[SlotOf(k)] = k
  /\ head = Lap(serviced + (queued - taken))

(* The blit the engine is reading is the one at cur, and its memory is     *)
(* neither freed nor about to be, also while an abort is under way.        *)
EngineOnLiveBlit ==
  hw /= "off" => /\ is_active /\ engine_blit = blits[cur]
                 /\ engine_blit > taken
                 /\ engine_blit \notin freed

(* An active engine is watched: the timer is armed, or its function is     *)
(* running and has yet to look whether it must be armed again.             *)
ActiveIsWatched == is_active => timer_pending \/ timer_pc \in {"first", "check"}

(* A blit waits behind an idle engine only while the process that queued   *)
(* one is about to call the handler.                                       *)
NoStrandedBlit ==
  num_outstanding > 0 => is_active \/ \E p \in Procs : pc[p] = "kick"

(* A blit that is over is on its way to be freed: the work item is         *)
(* scheduled, or a run of the task will look at the ring again.            *)
NoForgottenWork ==
  taken < over => work_pending \/ \E w \in Workers : worker_pc[w] /= "idle"

(* Whatever the interrupt, the timer, the task and the processes do in     *)
(* whatever order, somebody is on the way to every blit that is queued.    *)
NothingLeftBehind == ActiveIsWatched /\ NoStrandedBlit /\ NoForgottenWork

(* No blit is freed twice, even by runs of the task that overlap, and none *)
(* that was taken is lost.                                                 *)
FreedOnce ==
  /\ \A w \in Workers : worker_pc[w] = "free" =>
       /\ cur_sg[w] \in 1 .. taken /\ cur_sg[w] \notin freed
       /\ \A v \in Workers \ {w} : worker_pc[v] = "free" => cur_sg[v] /= cur_sg[w]
  /\ \A k \in 1 .. taken :
       k \in freed \/ \E w \in Workers : worker_pc[w] = "free" /\ cur_sg[w] = k
  /\ freed \subseteq 1 .. taken

(* The handle test is true of exactly the handles of the blits not over,   *)
(* across wraparound, and a waiter is put on the queue of its blit's slot. *)
HandleTestExact ==
  \A h \in 0 .. HandleMod - 1 :
    LET pending == {k \in over + 1 .. queued : Handle(k) = h}
    IN  /\ Active(h) <=> pending /= {}
        /\ \A k \in pending : blits[WaitSlot(h)] = k

(* A sync on a blit's handle succeeds only when that blit is over. *)
SyncMeansOver == \A p \in Procs : pc[p] = "synced" => target[p] <= over

(* Every blit that is queued is over some time and its memory is freed,    *)
(* with no interrupt and with an engine that never finishes a transfer.    *)
EveryBlitFreed == \A k \in 1 .. MaxBlits : queued >= k ~> k \in freed

(* A sync is not left waiting for a blit that is over. *)
SyncReturns == \A p \in Procs : pc[p] = "sync" ~> pc[p] /= "sync"

(* The ring implements the abstract FIFO.  The blits not over, oldest      *)
(* first, are the active one and the outstanding ones, from slot cur on.   *)
Pending ==
  [i \in 1 .. num_outstanding + (IF is_active THEN 1 ELSE 0) |-> blits[Lap(cur + i - 1)]]

Fifo == INSTANCE BlitFifo WITH
  Capacity <- VIA_NUM_BLIT_SLOTS - 1, queue <- Pending, accepted <- queued

ImplementsFifo == Fifo!FifoSpec
=============================================================================
