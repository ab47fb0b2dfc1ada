-------------------------- MODULE BlitQueueProofs ---------------------------
(***************************************************************************)
(* The safety of the blit queue, for every number of slots, handle width,  *)
(* set of processes and set of work-queue contexts.                        *)
(*                                                                         *)
(* No index of the ring is ever compared with another one before it is     *)
(* advanced, so that the argument must go through the counters: the slots  *)
(* that are free, the ones held and the ones in use add up (Accounts), the *)
(* three indices are the history counters folded onto the ring (Indices),  *)
(* and so the slot at head is never one that is still in use (InPlace).    *)
(*                                                                         *)
(* The second part of the module is about the memory of one blit           *)
(* (BlitBuild): what is locked, described and given back.                  *)
(***************************************************************************)
EXTENDS BlitQueue, BlitBuild, FiniteSetTheorems, SequenceTheorems, WellFoundedInduction, TLAPS

USE DEF SlotFree, ReleaseSlot, ScheduleWork, ArmTimer, Released

Accounts ==
  /\ taken <= over /\ over <= queued
  /\ num_outstanding + (IF is_active THEN 1 ELSE 0) = queued - over
  /\ SlotAccounting

Indices ==
  /\ cur  = Lap(serviced + (over - taken))
  /\ head = Lap(serviced + (queued - taken))

InPlace == \A k \in taken + 1 .. queued : blits[SlotOf(k)] = k

EngineInv ==
  /\ aborting => is_active
  /\ td => is_active
  /\ hw /= "off" => is_active /\ engine_blit = blits[cur]

FreedInv ==
  /\ freed \subseteq 1 .. taken
  /\ \A w \in Workers : worker_pc[w] = "free" =>
       /\ cur_sg[w] \in 1 .. taken /\ cur_sg[w] \notin freed
       /\ \A v \in Workers \ {w} : worker_pc[v] = "free" => cur_sg[v] /= cur_sg[w]
  /\ \A k \in 1 .. taken :
       k \in freed \/ \E w \in Workers : worker_pc[w] = "free" /\ cur_sg[w] = k

IInv ==
  /\ TypeOK /\ Accounts /\ Indices /\ InPlace
  /\ EngineInv /\ ActiveIsWatched /\ NoStrandedBlit /\ FreedInv /\ NoForgottenWork
-----------------------------------------------------------------------------
(***************************************************************************)
(* Counting the processes that hold a slot.                                *)
(***************************************************************************)
LEMMA HoldersFinite == IsFiniteSet(Holders) /\ Cardinality(Holders) \in Nat
<1>1. IsFiniteSet(Holders)
  BY ProcsAssumption, FS_Subset DEF Holders
<1>2. QED
  BY <1>1, FS_CardinalityType

LEMMA HolderGained ==
  ASSUME TypeOK, NEW p \in Procs, pc[p] /= "build",
         pc' = [pc EXCEPT ![p] = "build"]
  PROVE  Cardinality(Holders') = Cardinality(Holders) + 1
<1>1. Holders' = Holders \cup {p} /\ p \notin Holders
  BY DEF Holders, TypeOK
<1>2. QED
  BY <1>1, HoldersFinite, FS_AddElement, Zenon

LEMMA HolderGone ==
  ASSUME TypeOK, NEW p \in Procs, pc[p] = "build",
         NEW s, s /= "build", pc' = [pc EXCEPT ![p] = s]
  PROVE  Cardinality(Holders) >= 1 /\ Cardinality(Holders') = Cardinality(Holders) - 1
<1>1. Holders' = Holders \ {p} /\ p \in Holders
  BY DEF Holders, TypeOK
<1>2. Cardinality(Holders') = Cardinality(Holders) - 1 /\ Cardinality(Holders') \in Nat
  BY <1>1, HoldersFinite, FS_RemoveElement, FS_CardinalityType, Zenon
<1>3. QED
  BY <1>2, HoldersFinite

LEMMA HoldersKept ==
  ASSUME TypeOK, NEW p \in Procs, pc[p] /= "build",
         NEW s, s /= "build", pc' = [pc EXCEPT ![p] = s]
  PROVE  Holders' = Holders
BY DEF Holders, TypeOK

(***************************************************************************)
(* The initial state.                                                      *)
(***************************************************************************)
LEMMA InitIInv == Init => IInv
<1> SUFFICES ASSUME Init PROVE IInv
  OBVIOUS
<1> USE SlotsAssumption, HandleAssumption DEF SlotsAssumption, HandleAssumption
<1>1. TypeOK
  <2>1. 0 \in Slots /\ 0 \in 0 .. HandleMod - 1 /\ VIA_NUM_BLIT_SLOTS - 1 \in 0 .. VIA_NUM_BLIT_SLOTS - 1
    BY DEF Slots
  <2>2. /\ cur_blit_handle \in 0 .. HandleMod - 1
        /\ done_blit_handle \in 0 .. HandleMod - 1
    BY <2>1 DEF Init
  <2>3. /\ num_free \in 0 .. VIA_NUM_BLIT_SLOTS - 1
        /\ num_outstanding \in 0 .. VIA_NUM_BLIT_SLOTS - 1
    BY <2>1 DEF Init
  <2>. QED
    BY <2>1, <2>2, <2>3 DEF Init, TypeOK
<1>2. Cardinality(Holders) = 0
  <2>1. Holders = {}
    BY DEF Init, Holders
  <2>2. QED
    BY <2>1, FS_EmptySet
<1>3. Accounts
  BY <1>2 DEF Init, Accounts, SlotAccounting
<1>4. Indices /\ InPlace
  BY DEF Init, Indices, InPlace, Lap
<1>5. EngineInv /\ ActiveIsWatched /\ NoStrandedBlit /\ FreedInv /\ NoForgottenWork
  BY DEF Init, EngineInv, ActiveIsWatched, NoStrandedBlit, FreedInv, NoForgottenWork
<1>6. QED
  BY <1>1, <1>3, <1>4, <1>5 DEF IInv
-----------------------------------------------------------------------------
(***************************************************************************)
(* Type correctness.  The range of the two counts of slots follows from    *)
(* the accounts: nothing the code tests bounds them from above.            *)
(***************************************************************************)
Counts == 0 .. VIA_NUM_BLIT_SLOTS - 1

LEMMA WrapInSlots == \A i \in Slots : Wrap(i + 1) \in Slots
BY SlotsAssumption DEF Slots, Wrap

LEMMA NextHandle ==
  \A h \in 0 .. HandleMod - 1 : (h + 1) % HandleMod \in 0 .. HandleMod - 1
BY HandleAssumption, SlotsAssumption

LEMMA WorkIsBehind ==
  ASSUME TypeOK, Accounts, Indices, serviced /= cur
  PROVE  taken < over
BY SlotsAssumption DEF TypeOK, Accounts, Indices, Lap, Slots

LEMMA HandlerType ==
  ASSUME TypeOK, Accounts, Handler,
         timer_pc' \in {"idle", "first", "check", "again"},
         pc' \in [Procs -> {"idle", "grab", "build", "kick", "sync", "synced"}]
  PROVE  TypeOK'
<1> USE WrapInSlots, NextHandle DEF TypeOK
<1>1. CASE RetireCur /\ (Fire(Wrap(cur + 1)) \/ EngineOff)
  <2>1. blits[cur] \in Nat /\ blits[Wrap(cur + 1)] \in Nat /\ over + 1 \in Nat
    OBVIOUS
  <2>2. num_outstanding' \in 0 .. VIA_NUM_BLIT_SLOTS - 1
    BY <1>1, SlotsAssumption DEF Fire, EngineOff
  <2>3. aborted' \subseteq Nat
    BY <1>1, <2>1 DEF RetireCur
  <2>4. /\ done_blit_handle' \in 0 .. HandleMod - 1
        /\ cur' \in Slots /\ aborting' \in BOOLEAN /\ work_pending' \in BOOLEAN
        /\ over' \in Nat
    BY <1>1, <2>1 DEF RetireCur
  <2>5. /\ hw' \in {"off", "run", "abort"} /\ td' \in BOOLEAN
        /\ engine_blit' \in Nat /\ is_active' \in BOOLEAN
        /\ expired' \in BOOLEAN /\ timer_pending' \in BOOLEAN
    BY <1>1, <2>1 DEF Fire, EngineOff
  <2>. QED
    BY <2>2, <2>3, <2>4, <2>5 DEF Handler
<1>2. CASE /\ ~TransferDone /\ ~is_active
           /\ UNCHANGED <<over, aborted, done_blit_handle, cur, aborting, work_pending>>
           /\ Fire(cur) \/ EngineOff
  <2>1. num_outstanding' \in 0 .. VIA_NUM_BLIT_SLOTS - 1
    BY <1>2, SlotsAssumption DEF Fire, EngineOff
  <2>2. /\ hw' \in {"off", "run", "abort"} /\ td' \in BOOLEAN
        /\ engine_blit' \in Nat /\ is_active' \in BOOLEAN
        /\ expired' \in BOOLEAN /\ timer_pending' \in BOOLEAN
    BY <1>2 DEF Fire, EngineOff
  <2>. QED
    BY <1>2, <2>1, <2>2 DEF Handler
<1>3. CASE AbortCur
  BY <1>3 DEF Handler, AbortCur
<1>4. CASE LeaveCur
  BY <1>4 DEF Handler, LeaveCur
<1>. QED
  BY <1>1, <1>2, <1>3, <1>4 DEF Handler

LEMMA TypeStep == IInv /\ [Next]_vars => TypeOK'
<1> SUFFICES ASSUME IInv, [Next]_vars PROVE TypeOK'
  OBVIOUS
<1> USE WrapInSlots, NextHandle DEF IInv
<1> USE DEF ringVars, timerVars, workVars, engineVars, procVars, histVars
<1>1. CASE \E p \in Procs : ProcNext(p)
  <2> PICK p \in Procs : ProcNext(p)
    BY <1>1
  <2>1. CASE GrabSlot(p)
    <3>1. num_free - 1 \in 0 .. VIA_NUM_BLIT_SLOTS - 1
      BY <2>1, SlotsAssumption DEF GrabSlot, TypeOK
    <3>. QED
      BY <2>1, <3>1 DEF GrabSlot, TypeOK
  <2>2. CASE GrabWait(p)
    BY <2>2 DEF GrabWait, TypeOK
  <2>3. CASE GrabFail(p)
    BY <2>3 DEF GrabFail, TypeOK
  <2>4. CASE BuildFail(p)
    <3>1. num_free + 1 \in 0 .. VIA_NUM_BLIT_SLOTS - 1
      <4>1. Cardinality(Holders) >= 1
        BY <2>4, HolderGone DEF BuildFail
      <4>. QED
        BY <4>1, HoldersFinite, SlotsAssumption DEF Accounts, SlotAccounting, TypeOK
    <3>. QED
      BY <2>4, <3>1 DEF BuildFail, TypeOK
  <2>5. CASE Enqueue(p)
    <3>1. num_outstanding + 1 \in 0 .. VIA_NUM_BLIT_SLOTS - 1
      <4>1. Cardinality(Holders) >= 1
        BY <2>5, HolderGone DEF Enqueue
      <4>. QED
        BY <4>1, HoldersFinite, SlotsAssumption DEF Accounts, SlotAccounting, TypeOK
    <3>. QED
      BY <2>5, <3>1 DEF Enqueue, TypeOK
  <2>6. CASE Kick(p)
    BY <2>6, HandlerType DEF Kick, TypeOK
  <2>7. CASE SyncCall(p)
    BY <2>7 DEF SyncCall, TypeOK
  <2>8. CASE SyncDone(p)
    BY <2>8 DEF SyncDone, TypeOK
  <2>9. CASE SyncFail(p)
    BY <2>9 DEF SyncFail, TypeOK
  <2>10. CASE SyncReturn(p)
    BY <2>10 DEF SyncReturn, TypeOK
  <2>. QED
    BY <2>1, <2>2, <2>3, <2>4, <2>5, <2>6, <2>7, <2>8, <2>9, <2>10 DEF ProcNext
<1>2. CASE Interrupt
  BY <1>2, HandlerType DEF Interrupt, TypeOK
<1>3. CASE TimerNext
  <2>1. CASE TimerExpire
    BY <2>1 DEF TimerExpire, TypeOK
  <2>2. CASE TimerFirst \/ TimerAgain
    BY <2>2, HandlerType DEF TimerFirst, TimerAgain, TypeOK
  <2>3. CASE TimerCheck
    BY <2>3 DEF TimerCheck, TypeOK
  <2>. QED
    BY <1>3, <2>1, <2>2, <2>3 DEF TimerNext
<1>4. CASE Expire
  BY <1>4 DEF Expire, TypeOK
<1>5. CASE EngineDone
  BY <1>5 DEF EngineDone, TypeOK
<1>6. CASE EngineAborted
  BY <1>6 DEF EngineAborted, TypeOK
<1>7. CASE \E w \in Workers : WorkNext(w)
  <2> PICK w \in Workers : WorkNext(w)
    BY <1>7
  <2>1. CASE WorkStart(w)
    BY <2>1 DEF WorkStart, TypeOK
  <2>2. CASE WorkTake(w)
    <3>1. num_free + 1 \in 0 .. VIA_NUM_BLIT_SLOTS - 1
      <4>1. taken < over
        BY <2>2, WorkIsBehind DEF WorkTake
      <4>. QED
        BY <4>1, HoldersFinite, SlotsAssumption DEF Accounts, SlotAccounting, TypeOK
    <3>. QED
      BY <2>2, <3>1 DEF WorkTake, TypeOK
  <2>3. CASE WorkFree(w)
    BY <2>3, ZenonT(40) DEF WorkFree, TypeOK
  <2>4. CASE WorkDone(w)
    BY <2>4 DEF WorkDone, TypeOK
  <2>. QED
    BY <2>1, <2>2, <2>3, <2>4 DEF WorkNext
<1>8. CASE UNCHANGED vars
  BY <1>8 DEF vars, TypeOK
<1>. QED
  BY <1>1, <1>2, <1>3, <1>4, <1>5, <1>6, <1>7, <1>8 DEF Next
-----------------------------------------------------------------------------
(***************************************************************************)
(* The ring.  The slots of the blits not taken are distinct, and head is   *)
(* the slot of the next one as long as fewer than all slots are in use.    *)
(***************************************************************************)
RingInv == Accounts /\ Indices /\ InPlace

ringCounters == <<serviced, head, cur, num_free, num_outstanding, is_active, blits,
                  queued, over, taken>>

LEMMA SlotOfRange ==
  ASSUME TypeOK, NEW k \in Nat, taken < k, k <= taken + VIA_NUM_BLIT_SLOTS
  PROVE  SlotOf(k) \in Slots
BY SlotsAssumption DEF TypeOK, SlotOf, Lap, Slots

LEMMA SlotOfInjective ==
  ASSUME TypeOK, NEW j \in Nat, NEW k \in Nat,
         taken < j, taken < k, j <= taken + VIA_NUM_BLIT_SLOTS,
         k <= taken + VIA_NUM_BLIT_SLOTS, SlotOf(j) = SlotOf(k)
  PROVE  j = k
BY SlotsAssumption DEF TypeOK, SlotOf, Lap, Slots

LEMMA InUseBound ==
  ASSUME TypeOK, Accounts
  PROVE  queued - taken <= VIA_NUM_BLIT_SLOTS - 1
BY HoldersFinite, SlotsAssumption DEF TypeOK, Accounts, SlotAccounting

LEMMA RingKept ==
  ASSUME RingInv, UNCHANGED ringCounters, Holders' = Holders
  PROVE  RingInv'
BY DEF RingInv, ringCounters, Accounts, SlotAccounting, Indices, InPlace, SlotOf

LEMMA RingEnqueue ==
  ASSUME TypeOK, RingInv, NEW p \in Procs, Enqueue(p)
  PROVE  RingInv'
<1> USE SlotsAssumption
<1>1. /\ Cardinality(Holders) >= 1
      /\ Cardinality(Holders') = Cardinality(Holders) - 1
  BY HolderGone DEF Enqueue
<1>2. queued + 1 - taken <= VIA_NUM_BLIT_SLOTS - 1
  BY <1>1, HoldersFinite DEF RingInv, TypeOK, Accounts, SlotAccounting
<1>3. /\ UNCHANGED <<serviced, cur, num_free, is_active, over, taken>>
      /\ queued' = queued + 1 /\ num_outstanding' = num_outstanding + 1
      /\ head' = Wrap(head + 1) /\ blits' = [blits EXCEPT ![head] = queued + 1]
  BY DEF Enqueue, timerVars, workVars, engineVars
<1>4. Accounts'
  BY <1>1, <1>3, HoldersFinite DEF RingInv, TypeOK, Accounts, SlotAccounting
<1>5. Indices'
  BY <1>2, <1>3 DEF RingInv, TypeOK, Accounts, Indices, Lap, Wrap, Slots
<1>6. InPlace'
  <2> SUFFICES ASSUME NEW k \in taken + 1 .. queued + 1
               PROVE  blits'[SlotOf(k)] = k
    BY <1>3 DEF InPlace, SlotOf
  <2>1. head = SlotOf(queued + 1) /\ head \in Slots /\ blits \in [Slots -> Nat]
    BY <1>2 DEF RingInv, TypeOK, Accounts, Indices, SlotOf
  <2>2. CASE k = queued + 1
    BY <2>1, <2>2, <1>3
  <2>3. CASE k /= queued + 1
    <3>1. SlotOf(k) \in Slots /\ SlotOf(k) /= head
      BY <2>1, <2>3, <1>2, SlotOfRange, SlotOfInjective DEF TypeOK
    <3>2. blits[SlotOf(k)] = k
      BY <2>3 DEF RingInv, InPlace, TypeOK
    <3>. QED
      BY <2>1, <3>1, <3>2, <1>3
  <2>. QED
    BY <2>2, <2>3
<1>. QED
  BY <1>4, <1>5, <1>6 DEF RingInv

LEMMA RingTake ==
  ASSUME TypeOK, RingInv, NEW w \in Workers, WorkTake(w)
  PROVE  RingInv'
<1> USE SlotsAssumption
<1>1. /\ UNCHANGED <<head, cur, num_outstanding, is_active, blits, queued, over, pc>>
      /\ serviced' = Wrap(serviced + 1) /\ num_free' = num_free + 1
      /\ taken' = taken + 1
  BY DEF WorkTake, procVars
<1>2. taken < over /\ Holders' = Holders
  BY <1>1, WorkIsBehind DEF WorkTake, RingInv, Holders
<1>3. Accounts'
  BY <1>1, <1>2, HoldersFinite DEF RingInv, TypeOK, Accounts, SlotAccounting
<1>4. Indices'
  BY <1>1, <1>2, InUseBound DEF RingInv, TypeOK, Accounts, Indices, Lap, Wrap, Slots
<1>5. InPlace'
  <2> SUFFICES ASSUME NEW k \in taken + 2 .. queued
               PROVE  blits[SlotOf(k)'] = k
    BY <1>1 DEF InPlace, TypeOK
  <2>1. SlotOf(k)' = SlotOf(k)
    BY <1>1, InUseBound DEF RingInv, TypeOK, SlotOf, Lap, Wrap, Slots
  <2>. QED
    BY <2>1 DEF RingInv, InPlace, TypeOK
<1>. QED
  BY <1>3, <1>4, <1>5 DEF RingInv

LEMMA RingHandler ==
  ASSUME TypeOK, RingInv, EngineInv, Handler, Holders' = Holders
  PROVE  RingInv'
<1> USE SlotsAssumption
<1>0. UNCHANGED <<serviced, head, num_free, blits, queued, taken>>
  BY DEF Handler
<1>1. CASE RetireCur /\ (Fire(Wrap(cur + 1)) \/ EngineOff)
  <2>1. is_active /\ over' = over + 1 /\ cur' = Wrap(cur + 1)
    BY <1>1 DEF RetireCur, TransferDone, EngineInv, TypeOK
  <2>2. num_outstanding' + (IF is_active' THEN 1 ELSE 0) = num_outstanding
    BY <1>1 DEF Fire, EngineOff, TypeOK
  <2>3. Accounts'
    BY <1>0, <2>1, <2>2, HoldersFinite DEF RingInv, TypeOK, Accounts, SlotAccounting
  <2>4. Indices'
    BY <1>0, <2>1, <2>3, InUseBound
       DEF RingInv, TypeOK, Accounts, Indices, Lap, Wrap, Slots
  <2>. QED
    BY <1>0, <2>3, <2>4 DEF RingInv, InPlace, SlotOf
<1>2. CASE /\ ~TransferDone /\ ~is_active
           /\ UNCHANGED <<over, aborted, done_blit_handle, cur, aborting, work_pending>>
           /\ Fire(cur) \/ EngineOff
  <2>1. num_outstanding' + (IF is_active' THEN 1 ELSE 0) = num_outstanding
    BY <1>2 DEF Fire, EngineOff, TypeOK
  <2>2. Accounts'
    BY <1>0, <1>2, <2>1, HoldersFinite DEF RingInv, TypeOK, Accounts, SlotAccounting
  <2>. QED
    BY <1>0, <1>2, <2>2 DEF RingInv, Indices, InPlace, SlotOf
<1>3. CASE AbortCur \/ LeaveCur
  BY <1>0, <1>3, RingKept DEF AbortCur, LeaveCur, ringCounters
<1>. QED
  BY <1>1, <1>2, <1>3 DEF Handler

LEMMA RingStep == IInv /\ [Next]_vars => RingInv'
<1> SUFFICES ASSUME IInv, [Next]_vars PROVE RingInv'
  OBVIOUS
<1>0. TypeOK /\ RingInv /\ EngineInv
  BY DEF IInv, RingInv
<1> USE <1>0 DEF ringVars, timerVars, workVars, engineVars, procVars, histVars, ringCounters
<1>1. CASE \E p \in Procs : ProcNext(p)
  <2> PICK p \in Procs : ProcNext(p)
    BY <1>1
  <2>1. CASE GrabSlot(p)
    <3>1. Cardinality(Holders') = Cardinality(Holders) + 1
      BY <2>1, HolderGained DEF GrabSlot
    <3>. QED
      BY <2>1, <3>1, HoldersFinite
         DEF GrabSlot, RingInv, TypeOK, Accounts, SlotAccounting, Indices, InPlace, SlotOf
  <2>2. CASE BuildFail(p)
    <3>1. Cardinality(Holders') = Cardinality(Holders) - 1
      BY <2>2, HolderGone DEF BuildFail
    <3>. QED
      BY <2>2, <3>1, HoldersFinite
         DEF BuildFail, RingInv, TypeOK, Accounts, SlotAccounting, Indices, InPlace, SlotOf
  <2>3. CASE Enqueue(p)
    BY <2>3, RingEnqueue
  <2>4. CASE Kick(p)
    <3>1. Holders' = Holders
      BY <2>4, HoldersKept DEF Kick
    <3>. QED
      BY <2>4, <3>1, RingHandler DEF Kick
  <2>5. CASE GrabWait(p) \/ GrabFail(p) \/ SyncCall(p) \/ SyncDone(p) \/ SyncFail(p) \/ SyncReturn(p)
    <3>1. UNCHANGED ringCounters
      BY <2>5 DEF GrabWait, GrabFail, SyncCall, SyncDone, SyncFail, SyncReturn
    <3>2. Holders' = Holders
      BY <2>5, HoldersKept DEF GrabWait, GrabFail, SyncCall, SyncDone, SyncFail, SyncReturn
    <3>. QED
      BY <3>1, <3>2, RingKept
  <2>. QED
    BY <2>1, <2>2, <2>3, <2>4, <2>5 DEF ProcNext
<1>2. CASE Interrupt \/ TimerFirst \/ TimerAgain
  <2>1. Holders' = Holders
    BY <1>2 DEF Interrupt, TimerFirst, TimerAgain, Holders
  <2>. QED
    BY <1>2, <2>1, RingHandler DEF Interrupt, TimerFirst, TimerAgain
<1>3. CASE \E w \in Workers : WorkTake(w)
  BY <1>3, RingTake
<1>4. CASE \/ TimerExpire \/ TimerCheck \/ Expire \/ EngineDone \/ EngineAborted
           \/ \E w \in Workers : WorkStart(w) \/ WorkFree(w) \/ WorkDone(w)
           \/ UNCHANGED vars
  <2>1. UNCHANGED ringCounters /\ UNCHANGED pc
    BY <1>4 DEF TimerExpire, TimerCheck, Expire, EngineDone, EngineAborted,
                WorkStart, WorkFree, WorkDone, vars
  <2>. QED
    BY <2>1, RingKept DEF Holders
<1>. QED
  BY <1>1, <1>2, <1>3, <1>4 DEF Next, TimerNext, WorkNext
-----------------------------------------------------------------------------
(***************************************************************************)
(* The engine: what it works on, who watches it, and who starts it.        *)
(***************************************************************************)
WatchInv == EngineInv /\ ActiveIsWatched /\ NoStrandedBlit

LEMMA HandlerWatch ==
  ASSUME TypeOK, RingInv, WatchInv, Handler
  PROVE  /\ EngineInv'
         /\ is_active' => timer_pending' \/ (is_active /\ timer_pending' = timer_pending)
         /\ num_outstanding' > 0 => is_active'
<1>0. UNCHANGED blits
  BY DEF Handler
<1>1. CASE RetireCur /\ Fire(Wrap(cur + 1))
  BY <1>0, <1>1 DEF RetireCur, Fire, EngineInv
<1>2. CASE RetireCur /\ EngineOff
  BY <1>0, <1>2 DEF RetireCur, EngineOff, EngineInv
<1>3. CASE /\ ~TransferDone /\ ~is_active
           /\ UNCHANGED <<over, aborted, done_blit_handle, cur, aborting, work_pending>>
           /\ Fire(cur) \/ EngineOff
  BY <1>0, <1>3 DEF Fire, EngineOff, EngineInv, WatchInv, TypeOK
<1>4. CASE AbortCur \/ LeaveCur
  BY <1>0, <1>4 DEF AbortCur, LeaveCur, EngineInv, WatchInv, TypeOK
<1>. QED
  BY <1>1, <1>2, <1>3, <1>4 DEF Handler

LEMMA WatchStep == IInv /\ [Next]_vars => WatchInv'
<1> SUFFICES ASSUME IInv, [Next]_vars PROVE WatchInv'
  OBVIOUS
<1>0. TypeOK /\ RingInv /\ WatchInv
  BY DEF IInv, RingInv, WatchInv
<1> USE <1>0 DEF ringVars, timerVars, workVars, engineVars, procVars, histVars
<1>1. CASE \E p \in Procs : ProcNext(p)
  <2> PICK p \in Procs : ProcNext(p)
    BY <1>1
  <2>1. CASE Kick(p)
    BY <2>1, HandlerWatch DEF Kick, WatchInv, ActiveIsWatched, NoStrandedBlit
  <2>2. CASE Enqueue(p)
    <3>1. blits[cur] = blits'[cur] \/ ~is_active
      <4> SUFFICES ASSUME is_active PROVE head /= cur
        BY <2>2 DEF Enqueue, TypeOK
      <4>0. Cardinality(Holders) >= 1
        BY <2>2, HolderGone DEF Enqueue
      <4>1. over < queued /\ queued + 1 - taken <= VIA_NUM_BLIT_SLOTS - 1
        BY <4>0, HoldersFinite, SlotsAssumption
           DEF RingInv, TypeOK, Accounts, SlotAccounting
      <4>. QED
        BY <4>1, SlotsAssumption DEF RingInv, TypeOK, Accounts, Indices, Lap, Slots
    <3>2. pc'[p] = "kick"
      BY <2>2 DEF Enqueue, TypeOK
    <3>. QED
      BY <2>2, <3>1, <3>2
         DEF Enqueue, WatchInv, EngineInv, ActiveIsWatched, NoStrandedBlit
  <2>3. CASE /\ UNCHANGED <<num_outstanding, is_active, aborting, blits, cur>>
             /\ UNCHANGED <<timerVars, engineVars>>
             /\ pc[p] /= "kick"
             /\ \E s : pc' = [pc EXCEPT ![p] = s]
    BY <2>3 DEF WatchInv, EngineInv, ActiveIsWatched, NoStrandedBlit, TypeOK
  <2>4. CASE \/ GrabSlot(p) \/ GrabWait(p) \/ GrabFail(p) \/ BuildFail(p)
             \/ SyncCall(p) \/ SyncDone(p) \/ SyncFail(p) \/ SyncReturn(p)
    BY <2>3, <2>4 DEF GrabSlot, GrabWait, GrabFail, BuildFail, SyncCall, SyncDone,
                      SyncFail, SyncReturn
  <2>. QED
    BY <2>1, <2>2, <2>4 DEF ProcNext
<1>2. CASE Interrupt \/ TimerFirst \/ TimerAgain
  BY <1>2, HandlerWatch
     DEF Interrupt, TimerFirst, TimerAgain, WatchInv, ActiveIsWatched, NoStrandedBlit
<1>3. CASE TimerExpire \/ TimerCheck
  BY <1>3 DEF TimerExpire, TimerCheck, WatchInv, EngineInv, ActiveIsWatched, NoStrandedBlit
<1>4. CASE EngineDone \/ EngineAborted
  BY <1>4 DEF EngineDone, EngineAborted, WatchInv, EngineInv, ActiveIsWatched,
              NoStrandedBlit, TypeOK
<1>5. CASE \/ Expire \/ (\E w \in Workers : WorkNext(w)) \/ UNCHANGED vars
  BY <1>5 DEF Expire, WorkNext, WorkStart, WorkTake, WorkFree, WorkDone, vars,
              WatchInv, EngineInv, ActiveIsWatched, NoStrandedBlit
<1>. QED
  BY <1>1, <1>2, <1>3, <1>4, <1>5 DEF Next, TimerNext
-----------------------------------------------------------------------------
(***************************************************************************)
(* Freeing: the task takes the blits in order, so that two runs of it hold *)
(* different blits, and it stops only when the ring has nothing for it.    *)
(***************************************************************************)
FreeInv == FreedInv /\ NoForgottenWork

LEMMA FreeTake ==
  ASSUME TypeOK, RingInv, FreeInv, NEW w \in Workers, WorkTake(w)
  PROVE  FreeInv'
<1>1. taken < over
  BY WorkIsBehind DEF WorkTake, RingInv
<1>2. blits[serviced] = taken + 1
  <2>1. SlotOf(taken + 1) = serviced
    BY SlotsAssumption DEF SlotOf, Lap, TypeOK, Slots
  <2>2. taken + 1 \in taken + 1 .. queued
    BY <1>1 DEF RingInv, Accounts, TypeOK
  <2>. QED
    BY <2>1, <2>2 DEF RingInv, InPlace
<1>3. /\ taken' = taken + 1 /\ freed' = freed /\ over' = over
      /\ cur_sg' = [cur_sg EXCEPT ![w] = taken + 1]
      /\ worker_pc' = [worker_pc EXCEPT ![w] = "free"]
      /\ worker_pc[w] = "loop"
  BY <1>2 DEF WorkTake
<1>4. /\ taken \in Nat /\ cur_sg \in [Workers -> Nat]
      /\ worker_pc \in [Workers -> {"idle", "loop", "free"}]
  BY DEF TypeOK
<1>5. FreedInv'
  <2>1. freed' \subseteq 1 .. taken'
    BY <1>3, <1>4 DEF FreeInv, FreedInv
  <2>2. ASSUME NEW v \in Workers, worker_pc'[v] = "free"
        PROVE  /\ cur_sg'[v] \in 1 .. taken' /\ cur_sg'[v] \notin freed'
               /\ \A u \in Workers \ {v} : worker_pc'[u] = "free" => cur_sg'[u] /= cur_sg'[v]
    BY <1>3, <1>4, <2>2 DEF FreeInv, FreedInv
  <2>3. ASSUME NEW k \in 1 .. taken'
        PROVE  k \in freed' \/ \E v \in Workers : worker_pc'[v] = "free" /\ cur_sg'[v] = k
    BY <1>3, <1>4 DEF FreeInv, FreedInv
  <2>. QED
    BY <2>1, <2>2, <2>3 DEF FreedInv
<1>6. NoForgottenWork'
  BY <1>3, <1>4 DEF NoForgottenWork
<1>. QED
  BY <1>5, <1>6 DEF FreeInv

LEMMA FreeFree ==
  ASSUME TypeOK, FreeInv, NEW w \in Workers, WorkFree(w)
  PROVE  FreeInv'
<1>1. /\ freed' = freed \union {cur_sg[w]} /\ UNCHANGED <<taken, over, cur_sg>>
      /\ worker_pc' = [worker_pc EXCEPT ![w] = "loop"]
      /\ worker_pc[w] = "free"
  BY DEF WorkFree
<1>2. /\ taken \in Nat /\ cur_sg \in [Workers -> Nat]
      /\ worker_pc \in [Workers -> {"idle", "loop", "free"}]
  BY DEF TypeOK
<1>3. FreedInv'
  BY <1>1, <1>2 DEF FreeInv, FreedInv
<1>4. NoForgottenWork'
  BY <1>1, <1>2 DEF NoForgottenWork
<1>. QED
  BY <1>3, <1>4 DEF FreeInv

LEMMA FreeHandler ==
  ASSUME TypeOK, FreeInv, Handler
  PROVE  FreeInv'
<1>1. UNCHANGED <<freed, taken, cur_sg, worker_pc>>
  BY DEF Handler
<1>2. UNCHANGED <<over, work_pending>> \/ work_pending'
  BY DEF Handler, RetireCur, AbortCur, LeaveCur
<1>. QED
  BY <1>1, <1>2 DEF FreeInv, FreedInv, NoForgottenWork

LEMMA FreeStep == IInv /\ [Next]_vars => FreeInv'
<1> SUFFICES ASSUME IInv, [Next]_vars PROVE FreeInv'
  OBVIOUS
<1>0. TypeOK /\ RingInv /\ FreeInv
  BY DEF IInv, RingInv, FreeInv
<1> USE <1>0 DEF ringVars, timerVars, workVars, engineVars, procVars, histVars
<1>1. CASE UNCHANGED <<freed, taken, over, cur_sg, worker_pc, work_pending>>
  BY <1>1 DEF FreeInv, FreedInv, NoForgottenWork
<1>2. CASE \E p \in Procs : ProcNext(p)
  <2> PICK p \in Procs : ProcNext(p)
    BY <1>2
  <2>1. CASE Kick(p)
    BY <2>1, FreeHandler DEF Kick
  <2>2. CASE ~Kick(p)
    BY <1>1, <2>2 DEF ProcNext, GrabSlot, GrabWait, GrabFail, BuildFail, Enqueue,
                      SyncCall, SyncDone, SyncFail, SyncReturn
  <2>. QED
    BY <2>1, <2>2
<1>3. CASE Interrupt \/ TimerFirst \/ TimerAgain
  BY <1>3, FreeHandler DEF Interrupt, TimerFirst, TimerAgain
<1>4. CASE TimerExpire \/ TimerCheck \/ Expire \/ EngineDone \/ EngineAborted \/ UNCHANGED vars
  BY <1>1, <1>4 DEF TimerExpire, TimerCheck, Expire, EngineDone, EngineAborted, vars
<1>5. CASE \E w \in Workers : WorkNext(w)
  <2> PICK w \in Workers : WorkNext(w)
    BY <1>5
  <2>1. CASE WorkStart(w)
    BY <2>1 DEF WorkStart, FreeInv, FreedInv, NoForgottenWork, TypeOK
  <2>2. CASE WorkTake(w)
    BY <2>2, FreeTake
  <2>3. CASE WorkFree(w)
    BY <2>3, FreeFree
  <2>4. CASE WorkDone(w)
    <3>1. taken = over
      BY <2>4, InUseBound, SlotsAssumption, SMTT(30)
         DEF WorkDone, RingInv, TypeOK, Accounts, Indices, Lap, Slots
    <3>. QED
      BY <2>4, <3>1 DEF WorkDone, FreeInv, FreedInv, NoForgottenWork, TypeOK
  <2>. QED
    BY <2>1, <2>2, <2>3, <2>4 DEF WorkNext
<1>. QED
  BY <1>2, <1>3, <1>4, <1>5 DEF Next, TimerNext
-----------------------------------------------------------------------------
(***************************************************************************)
(* Handles are the blits' numbers modulo HandleMod.  The two handles that  *)
(* the ring keeps are less than VIA_NUM_BLIT_SLOTS blits apart, so that    *)
(* differences modulo HandleMod tell which blits are not over.             *)
(***************************************************************************)
LEMMA TimesMonotone ==
  ASSUME NEW a \in Nat, NEW b \in Nat, a < b, NEW d \in Nat
  PROVE  a * d + d <= b * d
<1>1. PICK c \in Nat : b = a + 1 + c
  <2>1. b - a - 1 \in Nat /\ b = a + 1 + (b - a - 1)
    OBVIOUS
  <2>. QED
    BY <2>1
<1>2. b * d = a * d + d + c * d
  BY <1>1
<1>3. c * d \in Nat /\ a * d \in Nat
  BY <1>1
<1>. QED
  BY <1>2, <1>3

LEMMA DivMod ==
  ASSUME NEW n \in Nat, NEW d \in Nat, d > 0
  PROVE  /\ n \div d \in Nat /\ n % d \in 0 .. d - 1
         /\ n = ((n \div d) * d) + (n % d)
OBVIOUS

LEMMA ModUnique ==
  ASSUME NEW d \in Nat, NEW q \in Nat, NEW r \in 0 .. d - 1
  PROVE  (q * d + r) % d = r
<1> DEFINE n == q * d + r
           k == n \div d
           s == n % d
<1>1. n \in Nat /\ d > 0 /\ q * d \in Nat
  OBVIOUS
<1>2. k \in Nat /\ s \in 0 .. d - 1 /\ n = k * d + s
  <2> HIDE DEF n
  <2>. QED
    BY <1>1, DivMod
<1>3. q * d + r = k * d + s /\ k * d \in Nat
  BY <1>2
<1>4. ASSUME q < k PROVE FALSE
  <2>1. q * d + d <= k * d
    BY <1>2, <1>4, TimesMonotone
  <2> HIDE DEF k, s
  <2>. QED
    BY <1>1, <1>2, <1>3, <2>1
<1>5. ASSUME k < q PROVE FALSE
  <2>1. k * d + d <= q * d
    BY <1>2, <1>5, TimesMonotone
  <2> HIDE DEF k, s
  <2>. QED
    BY <1>1, <1>2, <1>3, <2>1
<1>6. q = k
  <2> HIDE DEF k
  <2>. QED
    BY <1>2, <1>4, <1>5
<1>7. s = r
  <2> HIDE DEF k, s
  <2>. QED
    BY <1>1, <1>2, <1>3, <1>6
<1>. QED
  BY <1>7

LEMMA HandleType == \A k \in Nat : Handle(k) \in 0 .. HandleMod - 1
BY HandleAssumption, SlotsAssumption DEF Handle

LEMMA SmallHandle == \A r \in 0 .. HandleMod - 1 : r % HandleMod = r
BY HandleAssumption

LEMMA HandleParts ==
  ASSUME NEW k \in Nat
  PROVE  \E q \in Nat : k = (q * HandleMod) + Handle(k)
<1>1. HandleMod \in Nat /\ HandleMod > 0
  BY HandleAssumption, SlotsAssumption
<1>2. k \div HandleMod \in Nat /\ k = ((k \div HandleMod) * HandleMod) + (k % HandleMod)
  BY <1>1, DivMod
<1>. QED
  BY <1>2 DEF Handle

LEMMA NextOfHandle ==
  ASSUME NEW k \in Nat
  PROVE  (Handle(k) + 1) % HandleMod = Handle(k + 1)
<1> USE HandleAssumption, SlotsAssumption
<1>1. PICK q \in Nat : k = (q * HandleMod) + Handle(k)
  BY HandleParts
<1>2. Handle(k) \in 0 .. HandleMod - 1 /\ q * HandleMod \in Nat
  BY HandleType
<1>3. CASE Handle(k) + 1 < HandleMod
  <2>1. Handle(k) + 1 \in 0 .. HandleMod - 1
    BY <1>2, <1>3
  <2>2. ((q * HandleMod) + (Handle(k) + 1)) % HandleMod = Handle(k) + 1
    BY <2>1, ModUnique
  <2>3. k + 1 = (q * HandleMod) + (Handle(k) + 1)
    BY <1>1, <1>2
  <2>. QED
    BY <2>1, <2>2, <2>3, SmallHandle DEF Handle
<1>4. CASE Handle(k) + 1 = HandleMod
  <2>1. 0 \in 0 .. HandleMod - 1 /\ q + 1 \in Nat
    OBVIOUS
  <2>2. (((q + 1) * HandleMod) + 0) % HandleMod = 0 /\ ((1 * HandleMod) + 0) % HandleMod = 0
    BY <2>1, ModUnique
  <2>3. k + 1 = ((q + 1) * HandleMod) + 0 /\ Handle(k) + 1 = (1 * HandleMod) + 0
    <3>1. (q + 1) * HandleMod = (q * HandleMod) + HandleMod
      OBVIOUS
    <3>2. k + 1 = (q * HandleMod) + (Handle(k) + 1)
      BY <1>1, <1>2
    <3>. QED
      BY <1>2, <1>4, <3>1, <3>2
  <2>. QED
    BY <2>2, <2>3 DEF Handle
<1>. QED
  BY <1>2, <1>3, <1>4

(* The difference of two handles is that of the blits, modulo HandleMod. *)
LEMMA MinusHandles ==
  ASSUME NEW a \in Nat, NEW b \in Nat, b <= a, a < b + HandleMod
  PROVE  Minus(Handle(a), Handle(b)) = a - b
<1> USE HandleAssumption, SlotsAssumption
<1> DEFINE M == HandleMod
           r == Handle(a)
           s == Handle(b)
<1>1. M \in Nat /\ r \in 0 .. M - 1 /\ s \in 0 .. M - 1
  BY HandleType
<1>2. PICK q \in Nat : a = (q * M) + r
  BY HandleParts
<1>3. PICK t \in Nat : b = (t * M) + s
  BY HandleParts
<1> HIDE DEF M, r, s
<1>4. q * M \in Nat /\ t * M \in Nat
  BY <1>1
<1>5. ~ (q < t)
  <2> SUFFICES ASSUME q < t PROVE FALSE
    OBVIOUS
  <2>1. (q * M) + M <= t * M
    BY <1>1, TimesMonotone
  <2>. QED
    BY <1>1, <1>2, <1>3, <1>4, <2>1
<1>6. ~ (t + 1 < q)
  <2> SUFFICES ASSUME t + 1 < q PROVE FALSE
    OBVIOUS
  <2>1. ((t + 1) * M) + M <= q * M
    BY <1>1, TimesMonotone
  <2>2. (t + 1) * M = (t * M) + M
    BY <1>1
  <2>3. a < b + M
    BY DEF M
  <2>. QED
    BY <1>1, <1>2, <1>3, <1>4, <2>1, <2>2, <2>3
<1>7. a - b \in 0 .. M - 1
  BY <1>1 DEF M
<1>8. Minus(r, s) = (r + M - s) % M
  BY DEF Minus, M
<1>9. CASE q = t
  <2>1. r + M - s = (1 * M) + (a - b)
    BY <1>1, <1>2, <1>3, <1>4, <1>9
  <2>2. ((1 * M) + (a - b)) % M = a - b
    BY <1>1, <1>7, ModUnique
  <2>. QED
    BY <1>8, <2>1, <2>2 DEF r, s
<1>10. CASE q = t + 1
  <2>1. q * M = (t * M) + M
    BY <1>1, <1>10
  <2>2. r + M - s = (0 * M) + (a - b)
    BY <1>1, <1>2, <1>3, <1>4, <2>1
  <2>3. ((0 * M) + (a - b)) % M = a - b
    BY <1>1, <1>7, ModUnique
  <2>. QED
    BY <1>8, <2>2, <2>3 DEF r, s
<1>11. q = t \/ q = t + 1
  BY <1>5, <1>6
<1>. QED
  BY <1>9, <1>10, <1>11

LEMMA HandleShift ==
  ASSUME NEW a \in Nat
  PROVE  Handle(a + HandleMod) = Handle(a)
<1> USE HandleAssumption, SlotsAssumption
<1>1. PICK q \in Nat : a = (q * HandleMod) + Handle(a)
  BY HandleParts
<1>2. (q + 1) * HandleMod = (q * HandleMod) + HandleMod /\ q * HandleMod \in Nat
  OBVIOUS
<1>3. Handle(a) \in 0 .. HandleMod - 1
  BY HandleType
<1>4. a + HandleMod = ((q + 1) * HandleMod) + Handle(a)
  BY <1>1, <1>2, <1>3
<1>5. (((q + 1) * HandleMod) + Handle(a)) % HandleMod = Handle(a)
  BY <1>3, ModUnique
<1>. QED
  BY <1>4, <1>5 DEF Handle

LEMMA MinusLater ==
  ASSUME NEW a \in Nat, NEW b \in Nat, a < b, b <= a + HandleMod
  PROVE  Minus(Handle(a), Handle(b)) = HandleMod - (b - a)
<1> USE HandleAssumption, SlotsAssumption
<1>1. Handle(a + HandleMod) = Handle(a)
  BY HandleShift
<1>2. a + HandleMod \in Nat /\ b <= a + HandleMod /\ a + HandleMod < b + HandleMod
  OBVIOUS
<1>3. Minus(Handle(a + HandleMod), Handle(b)) = (a + HandleMod) - b
  BY <1>2, MinusHandles
<1>. QED
  BY <1>1, <1>3

Handles == cur_blit_handle = Handle(queued) /\ done_blit_handle = Handle(over)

(* The test is passed by the handles of the blits that are not over. *)
LEMMA PendingIsActive ==
  ASSUME TypeOK, Accounts, Handles, NEW k \in over + 1 .. queued
  PROVE  Active(Handle(k))
<1> USE HandleAssumption, SlotsAssumption
<1>1. queued - taken <= VIA_NUM_BLIT_SLOTS - 1 /\ taken <= over
  BY InUseBound DEF Accounts
<1>2. over \in Nat /\ queued \in Nat /\ taken \in Nat /\ k \in Nat
  BY DEF TypeOK
<1>3. Minus(Handle(queued), Handle(k)) = queued - k
  BY <1>1, <1>2, MinusHandles
<1>4. Minus(Handle(over), Handle(k)) = HandleMod - (k - over)
  BY <1>1, <1>2, MinusLater
<1>. QED
  BY <1>1, <1>2, <1>3, <1>4 DEF Active, Handles

(* And by no other handle. *)
LEMMA ActiveIsPending ==
  ASSUME TypeOK, Accounts, Handles, NEW h \in 0 .. HandleMod - 1, Active(h)
  PROVE  \E k \in over + 1 .. queued : Handle(k) = h
<1> USE HandleAssumption, SlotsAssumption
<1> DEFINE M == HandleMod
           d == Minus(cur_blit_handle, h)
           t == queued + M - d
<1>1. over \in Nat /\ queued \in Nat /\ over <= queued /\ M \in Nat /\ h < M
  BY DEF TypeOK, Accounts
<1>2. /\ cur_blit_handle = Handle(queued) /\ Handle(queued) \in 0 .. M - 1
      /\ done_blit_handle = Handle(over + M)
  BY <1>1, HandleType, HandleShift DEF Handles
<1>3. PICK q \in Nat : queued = (q * M) + Handle(queued)
  BY <1>1, HandleParts
<1>4. /\ d \in 0 .. M - 1 /\ t \in Nat /\ Handle(t) = h
  <2> DEFINE r == Handle(queued)
  <2> HIDE DEF r
  <2>1. r \in 0 .. M - 1 /\ q * M \in Nat /\ d = (r + M - h) % M
    BY <1>1, <1>2 DEF Minus, r
  <2> HIDE DEF M
  <2>2. CASE h <= r
    <3>1. r - h \in 0 .. M - 1 /\ r + M - h = (1 * M) + (r - h)
      BY <1>1, <2>1, <2>2
    <3>2. d = r - h
      BY <1>1, <2>1, <3>1, ModUnique
    <3>3. (q + 1) * M = (q * M) + M
      BY <1>1
    <3>4. t = ((q + 1) * M) + h
      BY <1>1, <1>3, <2>1, <3>2, <3>3 DEF r
    <3>5. (((q + 1) * M) + h) % M = h
      BY <1>1, ModUnique
    <3>. QED
      BY <1>1, <3>1, <3>2, <3>4, <3>5 DEF Handle, M
  <2>3. CASE r < h
    <3>1. r + M - h \in 0 .. M - 1 /\ r + M - h = (0 * M) + (r + M - h)
      BY <1>1, <2>1, <2>3
    <3>2. d = r + M - h
      BY <1>1, <2>1, <3>1, ModUnique
    <3>3. t = (q * M) + h
      BY <1>1, <1>3, <2>1, <3>2 DEF r
    <3>4. ((q * M) + h) % M = h
      BY <1>1, ModUnique
    <3>. QED
      BY <1>1, <2>1, <3>1, <3>2, <3>3, <3>4 DEF Handle, M
  <2>. QED
    BY <1>1, <2>1, <2>2, <2>3
<1> HIDE DEF M, d
<1>5. d <= HandleHalf /\ Minus(done_blit_handle, h) > HandleHalf
  BY DEF Active, d
<1>6. over + M < t
  <2> SUFFICES ASSUME t <= over + M PROVE FALSE
    BY <1>1, <1>4
  <2>1. over + M < t + M /\ over + M \in Nat
    BY <1>1, <1>4
  <2>2. Minus(Handle(over + M), Handle(t)) = (over + M) - t
    BY <1>4, <2>1, MinusHandles DEF M
  <2>. QED
    BY <1>1, <1>2, <1>4, <1>5, <2>2
<1>7. t - M \in over + 1 .. queued /\ t - M \in Nat
  BY <1>1, <1>4, <1>6
<1>8. Handle((t - M) + M) = Handle(t - M)
  BY <1>7, HandleShift DEF M
<1>9. (t - M) + M = t
  BY <1>1, <1>4
<1>. QED
  BY <1>4, <1>7, <1>8, <1>9

(* Whoever waits for a blit is put on the queue of its slot. *)
LEMMA WaitsOnItsSlot ==
  ASSUME TypeOK, RingInv, Handles, NEW k \in over + 1 .. queued
  PROVE  blits[WaitSlot(Handle(k))] = k
<1> USE SlotsAssumption, HandleAssumption
<1>1. /\ queued - taken <= VIA_NUM_BLIT_SLOTS - 1 /\ taken <= over
      /\ over \in Nat /\ queued \in Nat /\ taken \in Nat /\ k \in Nat
      /\ serviced \in Slots
  BY InUseBound DEF RingInv, Accounts, TypeOK
<1>2. Minus(Handle(k), Handle(over)) = k - over
  BY <1>1, MinusHandles
<1>3. cur = Lap(serviced + (over - taken))
  BY DEF RingInv, Indices
<1>4. Lap((k - over) + cur - 1) = SlotOf(k)
  BY <1>1, <1>3 DEF SlotOf, Lap, Slots
<1>5. WaitSlot(Handle(k)) = SlotOf(k)
  BY <1>2, <1>4 DEF WaitSlot, Handles
<1>. QED
  BY <1>1, <1>5 DEF RingInv, InPlace

SyncInv ==
  \A p \in Procs :
    /\ pc[p] \in {"sync", "synced"} => target[p] \in 1 .. queued
    /\ pc[p] = "synced" => target[p] <= over

HandleInv == Handles /\ SyncInv

LEMMA HandlerHandles ==
  ASSUME TypeOK, HandleInv, Handler
  PROVE  Handles' /\ over' \in Nat /\ over <= over' /\ UNCHANGED <<queued, target>>
<1>1. UNCHANGED <<queued, target, cur_blit_handle>>
  BY DEF Handler
<1>2. \/ UNCHANGED <<over, done_blit_handle>>
      \/ over' = over + 1 /\ done_blit_handle' = (done_blit_handle + 1) % HandleMod
  BY DEF Handler, RetireCur, AbortCur, LeaveCur
<1>3. over \in Nat /\ cur_blit_handle = Handle(queued) /\ done_blit_handle = Handle(over)
  BY DEF TypeOK, HandleInv, Handles
<1>4. (Handle(over) + 1) % HandleMod = Handle(over + 1)
  BY <1>3, NextOfHandle
<1>5. done_blit_handle' = Handle(over')
  BY <1>2, <1>3, <1>4
<1>6. Handles'
  BY <1>1, <1>3, <1>5 DEF Handles
<1>. QED
  BY <1>1, <1>2, <1>3, <1>6

LEMMA HandleStep == IInv /\ HandleInv /\ [Next]_vars => HandleInv'
<1> SUFFICES ASSUME IInv, HandleInv, [Next]_vars PROVE HandleInv'
  OBVIOUS
<1>0. TypeOK /\ Accounts
  BY DEF IInv
<1> USE <1>0 DEF ringVars, timerVars, workVars, engineVars, procVars, histVars
<1>1. CASE UNCHANGED <<cur_blit_handle, done_blit_handle, queued, over, pc, target>>
  BY <1>1 DEF HandleInv, Handles, SyncInv
<1>2. CASE \E p \in Procs : ProcNext(p)
  <2> PICK p \in Procs : ProcNext(p)
    BY <1>2
  <2>1. CASE Kick(p)
    <3>1. SyncInv'
      BY <2>1, HandlerHandles DEF Kick, TypeOK, HandleInv, SyncInv
    <3>. QED
      BY <2>1, <3>1, HandlerHandles DEF Kick, HandleInv
  <2>2. CASE Enqueue(p)
    <3>1. Handles'
      BY <2>2, NextOfHandle DEF Enqueue, HandleInv, Handles, TypeOK
    <3>2. SyncInv'
      BY <2>2 DEF Enqueue, HandleInv, SyncInv, TypeOK
    <3>. QED
      BY <3>1, <3>2 DEF HandleInv
  <2>3. CASE SyncCall(p)
    <3>1. PICK k \in 1 .. queued :
            /\ target' = [target EXCEPT ![p] = k]
            /\ pc' = [pc EXCEPT ![p] = IF Active(Handle(k)) THEN "sync" ELSE "synced"]
      BY <2>3 DEF SyncCall
    <3>2. ~Active(Handle(k)) => k <= over
      BY PendingIsActive DEF HandleInv, TypeOK
    <3>. QED
      BY <2>3, <3>1, <3>2 DEF SyncCall, HandleInv, Handles, SyncInv, TypeOK
  <2>4. CASE SyncDone(p)
    <3>1. target[p] \in 1 .. queued /\ ~Active(Handle(target[p]))
      BY <2>4 DEF SyncDone, HandleInv, SyncInv
    <3>2. target[p] <= over
      BY <3>1, PendingIsActive DEF HandleInv, TypeOK
    <3>. QED
      BY <2>4, <3>1, <3>2 DEF SyncDone, HandleInv, Handles, SyncInv, TypeOK
  <2>5. CASE GrabSlot(p) \/ GrabWait(p) \/ GrabFail(p) \/ BuildFail(p) \/ SyncFail(p) \/ SyncReturn(p)
    BY <2>5 DEF GrabSlot, GrabWait, GrabFail, BuildFail, SyncFail, SyncReturn,
                HandleInv, Handles, SyncInv, TypeOK
  <2>. QED
    BY <2>1, <2>2, <2>3, <2>4, <2>5 DEF ProcNext
<1>3. CASE Interrupt \/ TimerFirst \/ TimerAgain
  <2>1. SyncInv'
    BY <1>3, HandlerHandles DEF Interrupt, TimerFirst, TimerAgain, TypeOK, HandleInv, SyncInv
  <2>. QED
    BY <1>3, <2>1, HandlerHandles DEF Interrupt, TimerFirst, TimerAgain, HandleInv
<1>4. CASE \/ TimerExpire \/ TimerCheck \/ Expire \/ EngineDone \/ EngineAborted
           \/ UNCHANGED vars
  BY <1>1, <1>4 DEF TimerExpire, TimerCheck, Expire, EngineDone, EngineAborted, vars
<1>5. CASE \E w \in Workers : WorkNext(w)
  BY <1>1, <1>5 DEF WorkNext, WorkStart, WorkTake, WorkFree, WorkDone
<1>. QED
  BY <1>2, <1>3, <1>4, <1>5 DEF Next, TimerNext
-----------------------------------------------------------------------------
(***************************************************************************)
(* The refinement.  The blits not over are consecutive numbers, whatever   *)
(* slots they are in, so that a step is told by what it does to queued and *)
(* over: Enqueue adds the next number, retiring drops the first.           *)
(***************************************************************************)
From(first, last) == [i \in 1 .. last - first |-> first + i]

LEMMA PendingIsFrom ==
  ASSUME TypeOK, RingInv
  PROVE  Pending = From(over, queued)
<1> USE SlotsAssumption
<1>1. /\ num_outstanding + (IF is_active THEN 1 ELSE 0) = queued - over
      /\ over \in Nat /\ queued \in Nat /\ taken \in Nat /\ taken <= over
      /\ queued - taken <= VIA_NUM_BLIT_SLOTS - 1 /\ serviced \in Slots
  BY InUseBound DEF RingInv, Accounts, TypeOK
<1>2. ASSUME NEW i \in 1 .. queued - over
      PROVE  blits[Lap(cur + i - 1)] = over + i
  <2>1. over + i \in taken + 1 .. queued
    BY <1>1
  <2>2. Lap(cur + i - 1) = SlotOf(over + i)
    BY <1>1 DEF RingInv, Indices, SlotOf, Lap, Slots
  <2>. QED
    BY <2>1, <2>2 DEF RingInv, InPlace
<1>. QED
  BY <1>1, <1>2 DEF Pending, From

LEMMA FromIsSequence ==
  ASSUME NEW a \in Nat, NEW b \in Nat, a <= b
  PROVE  /\ From(a, b) \in Seq(Nat) /\ Len(From(a, b)) = b - a
         /\ From(a, b + 1) = Append(From(a, b), b + 1)
         /\ a < b => From(a, b) /= <<>> /\ Tail(From(a, b)) = From(a + 1, b)
<1> DEFINE s == From(a, b)
<1>1. b - a \in Nat /\ s \in Seq(Nat) /\ Len(s) = b - a
  BY DEF From
<1>2. From(a, b + 1) = Append(s, b + 1)
  BY DEF From
<1>3. ASSUME a < b PROVE s /= <<>> /\ Tail(s) = From(a + 1, b)
  <2>1. Len(s) /= 0
    BY <1>1, <1>3
  <2>. QED
    BY <1>1, <1>3, <2>1 DEF From
<1>. QED
  BY <1>1, <1>2, <1>3

(* How a step moves the two counters. *)
LEMMA CounterStep ==
  ASSUME IInv, [Next]_vars
  PROVE  \/ UNCHANGED <<queued, over>>
         \/ /\ queued' = queued + 1 /\ over' = over
            /\ queued - over < VIA_NUM_BLIT_SLOTS - 1
         \/ over' = over + 1 /\ queued' = queued
<1>0. TypeOK /\ Accounts
  BY DEF IInv
<1>1. Handler => UNCHANGED queued /\ over' \in {over, over + 1}
  BY DEF Handler, RetireCur, AbortCur, LeaveCur
<1>2. ASSUME NEW p \in Procs, Enqueue(p)
      PROVE  queued' = queued + 1 /\ over' = over /\ queued - over < VIA_NUM_BLIT_SLOTS - 1
  <2>1. Cardinality(Holders) >= 1
    BY <1>0, <1>2, HolderGone DEF Enqueue
  <2>2. queued - over < VIA_NUM_BLIT_SLOTS - 1
    BY <1>0, <2>1, HoldersFinite, SlotsAssumption DEF Accounts, SlotAccounting, TypeOK
  <2>. QED
    BY <1>2, <2>2 DEF Enqueue
<1>3. CASE \E p \in Procs : ProcNext(p)
  BY <1>1, <1>2, <1>3
     DEF ProcNext, GrabSlot, GrabWait, GrabFail, BuildFail, Kick, SyncCall, SyncDone,
         SyncFail, SyncReturn, histVars
<1>4. CASE Interrupt \/ TimerNext \/ Expire \/ EngineDone \/ EngineAborted \/ UNCHANGED vars
  BY <1>1, <1>4
     DEF Interrupt, TimerNext, TimerExpire, TimerFirst, TimerCheck, TimerAgain, Expire,
         EngineDone, EngineAborted, vars, histVars
<1>5. CASE \E w \in Workers : WorkNext(w)
  BY <1>5 DEF WorkNext, WorkStart, WorkTake, WorkFree, WorkDone, histVars
<1>. QED
  BY <1>3, <1>4, <1>5 DEF Next

LEMMA FifoStep ==
  ASSUME IInv, IInv', [Next]_vars
  PROVE  [Fifo!FifoNext]_(Fifo!fifoVars)
<1>1. /\ over \in Nat /\ queued \in Nat /\ over <= queued
      /\ over' \in Nat /\ queued' \in Nat /\ over' <= queued'
  BY DEF IInv, TypeOK, Accounts
<1>2. Pending = From(over, queued)
  BY PendingIsFrom DEF IInv, RingInv
<1>3. Pending' = From(over', queued')
  <2>1. (TypeOK /\ RingInv => Pending = From(over, queued))'
    BY PendingIsFrom, PTL
  <2>. QED
    BY <2>1 DEF IInv, RingInv, From
<1>4. CASE UNCHANGED <<queued, over>>
  BY <1>2, <1>3, <1>4 DEF Fifo!fifoVars
<1>5. CASE /\ queued' = queued + 1 /\ over' = over
           /\ queued - over < VIA_NUM_BLIT_SLOTS - 1
  <2>1. Fifo!Accept
    BY <1>1, <1>2, <1>3, <1>5, FromIsSequence DEF Fifo!Accept
  <2>. QED
    BY <2>1 DEF Fifo!FifoNext
<1>6. CASE over' = over + 1 /\ queued' = queued
  <2>1. over < queued
    BY <1>1, <1>6
  <2>2. From(over, queued) /= <<>> /\ Tail(From(over, queued)) = From(over + 1, queued)
    BY <1>1, <2>1, FromIsSequence
  <2>3. Pending' = From(over + 1, queued)
    BY <1>3, <1>6
  <2>. QED
    BY <1>2, <1>6, <2>2, <2>3 DEF Fifo!Finish, Fifo!FifoNext
<1>. QED
  BY <1>4, <1>5, <1>6, CounterStep
-----------------------------------------------------------------------------
(***************************************************************************)
(* The results.                                                            *)
(***************************************************************************)

(* The strengthened invariant holds of every state of the queue. *)
THEOREM Invariance == Spec => []IInv
<1>1. IInv /\ [Next]_vars => IInv'
  BY TypeStep, RingStep, WatchStep, FreeStep DEF IInv, RingInv, WatchInv, FreeInv
<1>. QED
  BY InitIInv, <1>1, PTL DEF Spec

(* Every variable keeps to its type; in particular num_free and            *)
(* num_outstanding never leave 0 .. VIA_NUM_BLIT_SLOTS - 1.                *)
THEOREM TypeCorrect == Spec => []TypeOK
<1>1. IInv => TypeOK
  BY DEF IInv
<1>. QED
  BY Invariance, <1>1, PTL

(* No slot is lost or invented by failures, completions or releases. *)
THEOREM SlotsAddUp == Spec => []SlotAccounting
<1>1. IInv => SlotAccounting
  BY DEF IInv, Accounts
<1>. QED
  BY Invariance, <1>1, PTL

(* A blit is never overwritten in its slot before it is taken to be freed. *)
THEOREM BlitsKeepTheirSlots == Spec => []NoOverwrite
<1>1. IInv => NoOverwrite
  BY DEF IInv, Accounts, Indices, InPlace, NoOverwrite
<1>. QED
  BY Invariance, <1>1, PTL

(* The engine only ever works on the blit at cur, whose memory is alive. *)
THEOREM EngineSafe == Spec => []EngineOnLiveBlit
<1>1. IInv => EngineOnLiveBlit
  <2> SUFFICES ASSUME IInv, hw /= "off" PROVE EngineOnLiveBlit
    BY DEF EngineOnLiveBlit
  <2>1. is_active /\ engine_blit = blits[cur]
    BY DEF IInv, EngineInv
  <2>2. taken <= over /\ over < queued /\ over + 1 \in taken + 1 .. queued
    BY <2>1 DEF IInv, Accounts, TypeOK
  <2>3. SlotOf(over + 1) = cur
    BY SlotsAssumption, <2>2 DEF IInv, TypeOK, Indices, SlotOf, Lap, Slots
  <2>4. blits[cur] = over + 1
    BY <2>2, <2>3 DEF IInv, InPlace
  <2>. QED
    BY <2>1, <2>2, <2>4 DEF IInv, FreedInv, TypeOK, EngineOnLiveBlit
<1>. QED
  BY Invariance, <1>1, PTL

(* An active engine never goes unwatched, whatever deletes or re-arms the  *)
(* timer, and no blit waits for an idle engine that nobody will start.     *)
THEOREM NothingStalls == Spec => []NothingLeftBehind
<1>1. IInv => NothingLeftBehind
  BY DEF IInv, NothingLeftBehind
<1>. QED
  BY Invariance, <1>1, PTL

(* Every blit taken to be freed is freed by one run of the task only. *)
THEOREM FreedExactlyOnce == Spec => []FreedOnce
<1>1. IInv => FreedOnce
  BY DEF IInv, FreedInv, FreedOnce
<1>. QED
  BY Invariance, <1>1, PTL

LEMMA HandlesInvariance == Spec => []HandleInv
<1>1. Init => HandleInv
  BY SmallHandle, HandleAssumption, SlotsAssumption
     DEF Init, HandleInv, Handles, SyncInv, Handle
<1>. QED
  BY <1>1, HandleStep, Invariance, PTL DEF Spec

(* A sync that succeeds means that its blit is over, although handles are  *)
(* compared after they have wrapped around, and blits are queued and       *)
(* retired between the call and the test.                                  *)
THEOREM SyncIsTrue == Spec => []SyncMeansOver
<1>1. HandleInv => SyncMeansOver
  BY DEF HandleInv, SyncInv, SyncMeansOver
<1>. QED
  BY <1>1, HandlesInvariance, PTL

(* The handle test is true of exactly the handles of the blits that are    *)
(* not over, and its waiter is woken with its own blit, for handles of any *)
(* width and a ring of any size.                                           *)
THEOREM HandlesAreExact == Spec => []HandleTestExact
<1>1. IInv /\ HandleInv => HandleTestExact
  <2> SUFFICES ASSUME IInv, HandleInv, NEW h \in 0 .. HandleMod - 1
               PROVE  LET pending == {k \in over + 1 .. queued : Handle(k) = h}
                      IN  /\ Active(h) <=> pending /= {}
                          /\ \A k \in pending : blits[WaitSlot(h)] = k
    BY DEF HandleTestExact
  <2>1. TypeOK /\ Accounts /\ RingInv /\ Handles
    BY DEF IInv, RingInv, HandleInv
  <2>. QED
    BY <2>1, ActiveIsPending, PendingIsActive, WaitsOnItsSlot
<1>. QED
  BY <1>1, HandlesInvariance, Invariance, PTL

(* The safety half of ImplementsFifo: without its fairness, the ring is a  *)
(* bounded FIFO of VIA_NUM_BLIT_SLOTS - 1 blits, each accepted once, in    *)
(* order, and retired once, in that order.                                 *)
THEOREM RingIsFifo == Spec => Fifo!FifoSafety
<1>1. Init => Fifo!FifoInit
  <2> SUFFICES ASSUME Init PROVE Pending = <<>> /\ queued = 0
    BY DEF Fifo!FifoInit
  <2>. QED
    BY DEF Init, Pending
<1>2. IInv /\ IInv' /\ [Next]_vars => [Fifo!FifoNext]_(Fifo!fifoVars)
  BY FifoStep
<1>. QED
  BY <1>1, <1>2, Invariance, PTL DEF Spec, Fifo!FifoSafety
-----------------------------------------------------------------------------
(***************************************************************************)
(* The memory of a blit (BlitBuild), for every size of a page, number of   *)
(* descriptors in one and set of requests.                                 *)
(*                                                                         *)
(* The pages are counted from the strides and the descriptors by the       *)
(* nested loops, so that the loops must be followed: backwards through a   *)
(* line, from its last piece, and forwards through the lines.  The rest is *)
(* an inductive invariant on what a blit owns at each stage.               *)
(***************************************************************************)

(***************************************************************************)
(* Induction over the naturals, as a fact about sets of them.              *)
(***************************************************************************)
LEMMA LeastNatural ==
  ASSUME NEW T \in SUBSET Nat, T /= {}
  PROVE  \E i \in T : \A j \in T : i <= j
<1> DEFINE R == {ss \in Nat \X Nat : ss[1] < ss[2]}
<1>1. IsWellFoundedOn(R, Nat)
  BY NatLessThanWellFounded, Zenon DEF OpToRel
<1>2. PICK i \in T : \A j \in T : ~(<<j, i>> \in R)
  <2>. HIDE DEF R
  <2>. QED
    BY <1>1, WFMin, Zenon
<1>3. ASSUME NEW j \in T PROVE i <= j
  <2>1. i \in Nat /\ j \in Nat /\ ~(<<j, i>> \in R)
    BY <1>2
  <2>. QED
    BY <2>1
<1>. QED
  BY <1>3

LEMMA CountingUp ==
  ASSUME NEW S, 0 \in S, \A n \in Nat : n \in S => n + 1 \in S
  PROVE  Nat \subseteq S
<1>. SUFFICES ASSUME Nat \ S /= {} PROVE FALSE
  OBVIOUS
<1>1. PICK i \in Nat \ S : \A j \in Nat \ S : i <= j
  BY LeastNatural
<1>2. i \in Nat /\ i /= 0 /\ i - 1 \in Nat
  BY <1>1
<1>3. i - 1 \in S
  BY <1>1, <1>2
<1>. QED
  BY <1>1, <1>2, <1>3

(* The function a loop over the bytes of a line stands for: there is one   *)
(* because every turn moves on.                                            *)
Turn(piece, step, f, L, d) ==
  IF d = L THEN <<>> ELSE <<piece[d]>> \o f[d + step[d]]

LEMMA LoopEnds ==
  ASSUME NEW L \in Nat, NEW piece, NEW step,
         \A d \in 0 .. L - 1 : step[d] \in Nat \ {0} /\ d + step[d] <= L
  PROVE  \E f : f = [d \in 0 .. L |-> Turn(piece, step, f, L, d)]
<1>. DEFINE Upto(f, n) == /\ f = [d \in 0 .. L |-> f[d]]
                          /\ \A d \in L - n .. L : d >= 0 => f[d] = Turn(piece, step, f, L, d)
            Reach == {n \in Nat : n <= L => \E f : Upto(f, n)}
<1>1. 0 \in Reach
  <2>. DEFINE f == [d \in 0 .. L |-> <<>>]
  <2>1. Upto(f, 0)
    <3>1. f[L] = <<>>
      OBVIOUS
    <3>2. f = [d \in 0 .. L |-> f[d]]
      OBVIOUS
    <3>3. \A d \in L - 0 .. L : d = L
      OBVIOUS
    <3>. QED
      BY <3>1, <3>2, <3>3 DEF Turn
  <2>. HIDE DEF f
  <2>. QED
    BY <2>1
<1>2. ASSUME NEW n \in Nat, n \in Reach PROVE n + 1 \in Reach
  <2>. SUFFICES ASSUME n + 1 <= L PROVE \E g : Upto(g, n + 1)
    OBVIOUS
  <2>1. PICK f : Upto(f, n)
    BY <1>2
  <2>. DEFINE e == L - (n + 1)
  <2>2. e \in 0 .. L - 1 /\ e + step[e] \in e + 1 .. L
    OBVIOUS
  <2>. DEFINE g == [d \in 0 .. L |-> IF d = e THEN <<piece[e]>> \o f[e + step[e]] ELSE f[d]]
  <2>3. g = [d \in 0 .. L |-> g[d]]
    OBVIOUS
  <2>4. \A d \in 0 .. L : d /= e => g[d] = f[d]
    OBVIOUS
  <2>5. g[e] = Turn(piece, step, g, L, e)
    BY <2>2, <2>4 DEF Turn
  <2>6. ASSUME NEW d \in L - n .. L, d >= 0 PROVE g[d] = Turn(piece, step, g, L, d)
    <3>1. d \in 0 .. L /\ d /= e /\ d > e
      BY <2>2
    <3>2. f[d] = Turn(piece, step, f, L, d)
      BY <2>1
    <3>3. CASE d = L
      BY <3>1, <3>2, <3>3, <2>4 DEF Turn
    <3>4. CASE d /= L
      <4>1. d \in 0 .. L - 1 /\ d + step[d] \in 0 .. L /\ d + step[d] /= e
        BY <3>1, <3>4, <2>2
      <4>2. g[d + step[d]] = f[d + step[d]]
        BY <4>1, <2>4
      <4>3. f[d] = <<piece[d]>> \o f[d + step[d]]
        BY <3>2, <3>4 DEF Turn
      <4>. HIDE DEF g
      <4>. QED
        BY <3>1, <3>4, <4>2, <4>3, <2>4 DEF Turn
    <3>. QED
      BY <3>3, <3>4
  <2>. HIDE DEF g
  <2>7. \A d \in L - (n + 1) .. L : d >= 0 => g[d] = Turn(piece, step, g, L, d)
    <3>1. \A d \in L - (n + 1) .. L : d = e \/ d \in L - n .. L
      OBVIOUS
    <3>. QED
      BY <2>5, <2>6, <3>1
  <2>. QED
    BY <2>3, <2>7
<1>3. L \in Reach
  <2>. HIDE DEF Reach
  <2>. QED
    BY <1>1, <1>2, CountingUp
<1>4. PICK f : Upto(f, L)
  BY <1>3
<1>5. \A d \in 0 .. L : f[d] = Turn(piece, step, f, L, d)
  BY <1>4
<1>6. f = [d \in 0 .. L |-> Turn(piece, step, f, L, d)]
  BY <1>4, <1>5
<1>. QED
  BY <1>6

(* The same for the loop over the lines. *)
LEMMA LinesEnd ==
  ASSUME NEW N \in Nat, NEW g
  PROVE  \E f : f = [n \in 0 .. N |-> IF n = 0 THEN <<>> ELSE f[n - 1] \o g[n - 1]]
<1>. DEFINE Upto(f, n) == /\ f = [m \in 0 .. N |-> f[m]]
                          /\ \A m \in 0 .. n : f[m] = IF m = 0 THEN <<>> ELSE f[m - 1] \o g[m - 1]
            Reach == {n \in Nat : n <= N => \E f : Upto(f, n)}
<1>1. 0 \in Reach
  <2>. DEFINE f == [m \in 0 .. N |-> <<>>]
  <2>1. Upto(f, 0)
    OBVIOUS
  <2>. HIDE DEF f
  <2>. QED
    BY <2>1
<1>2. ASSUME NEW n \in Nat, n \in Reach PROVE n + 1 \in Reach
  <2>. SUFFICES ASSUME n + 1 <= N PROVE \E h : Upto(h, n + 1)
    OBVIOUS
  <2>1. PICK f : Upto(f, n)
    BY <1>2
  <2>. DEFINE h == [m \in 0 .. N |-> IF m = n + 1 THEN f[n] \o g[n] ELSE f[m]]
  <2>2. h = [m \in 0 .. N |-> h[m]]
    OBVIOUS
  <2>3. h[n + 1] = f[n] \o g[n] /\ \A m \in 0 .. n : h[m] = f[m]
    OBVIOUS
  <2>. HIDE DEF h
  <2>4. \A m \in 0 .. n + 1 : h[m] = IF m = 0 THEN <<>> ELSE h[m - 1] \o g[m - 1]
    <3>. SUFFICES ASSUME NEW m \in 0 .. n + 1
                  PROVE  h[m] = IF m = 0 THEN <<>> ELSE h[m - 1] \o g[m - 1]
      OBVIOUS
    <3>1. CASE m = n + 1
      <4>1. m /= 0 /\ m - 1 = n /\ n \in 0 .. n
        BY <3>1
      <4>2. h[n] = f[n]
        BY <2>3, <4>1
      <4>. QED
        BY <2>3, <3>1, <4>1, <4>2
    <3>2. CASE m \in 0 .. n /\ m /= 0
      <4>1. m - 1 \in 0 .. n
        BY <3>2
      <4>. QED
        BY <2>1, <2>3, <3>2, <4>1
    <3>3. CASE m = 0
      BY <2>1, <2>3, <3>3
    <3>. QED
      BY <3>1, <3>2, <3>3
  <2>. QED
    BY <2>2, <2>4
<1>3. N \in Reach
  <2>. HIDE DEF Reach
  <2>. QED
    BY <1>1, <1>2, CountingUp
<1>4. PICK f : Upto(f, N)
  BY <1>3
<1>5. f = [n \in 0 .. N |-> IF n = 0 THEN <<>> ELSE f[n - 1] \o g[n - 1]]
  BY <1>4
<1>. QED
  BY <1>5

(***************************************************************************)
(* Pages.                                                                  *)
(***************************************************************************)
LEMMA ProductOrder ==
  ASSUME NEW a \in Nat, NEW b \in Nat, a <= b, NEW d \in Nat
  PROVE  a * d <= b * d /\ a * d \in Nat /\ b * d \in Nat
<1>1. PICK c \in Nat : b = a + c
  <2>1. b - a \in Nat /\ b = a + (b - a)
    OBVIOUS
  <2>. QED
    BY <2>1
<1>2. b * d = a * d + c * d
  BY <1>1
<1>3. c * d \in Nat /\ a * d \in Nat /\ b * d \in Nat
  BY <1>1
<1>. QED
  BY <1>2, <1>3

LEMMA PageOfAddress ==
  ASSUME NEW a \in Nat
  PROVE  /\ PFN(a) \in Nat /\ PGOFF(a) \in 0 .. PAGE_SIZE - 1
         /\ PFN(a) * PAGE_SIZE + PGOFF(a) = a /\ PFN(a) * PAGE_SIZE \in Nat
<1>1. a \div PAGE_SIZE \in Nat
  BY SizesAssumption DEF SizesAssumption
<1>2. a % PAGE_SIZE \in 0 .. PAGE_SIZE - 1
  BY SizesAssumption DEF SizesAssumption
<1>3. (a \div PAGE_SIZE) * PAGE_SIZE + (a % PAGE_SIZE) = a
  BY SizesAssumption DEF SizesAssumption
<1>4. (a \div PAGE_SIZE) * PAGE_SIZE \in Nat
  BY <1>1, SizesAssumption DEF SizesAssumption
<1>. QED
  BY <1>1, <1>2, <1>3, <1>4 DEF PFN, PGOFF

LEMMA PagesAscend ==
  ASSUME NEW a \in Nat, NEW b \in Nat, a <= b
  PROVE  PFN(a) <= PFN(b)
<1>. SUFFICES ASSUME PFN(b) + 1 <= PFN(a) PROVE FALSE
  BY PageOfAddress
<1>1. PAGE_SIZE \in Nat \ {0}
  BY SizesAssumption DEF SizesAssumption
<1>. DEFINE A == PFN(a) * PAGE_SIZE
            B == PFN(b) * PAGE_SIZE
<1>2. /\ A + PGOFF(a) = a /\ B + PGOFF(b) = b /\ A \in Nat /\ B \in Nat
      /\ PGOFF(a) \in 0 .. PAGE_SIZE - 1 /\ PGOFF(b) \in 0 .. PAGE_SIZE - 1
      /\ PFN(a) \in Nat /\ PFN(b) \in Nat
  BY PageOfAddress
<1>3. (PFN(b) + 1) * PAGE_SIZE <= A
  BY <1>1, <1>2, ProductOrder
<1>4. (PFN(b) + 1) * PAGE_SIZE = B + PAGE_SIZE
  BY <1>1, <1>2
<1>. HIDE DEF A, B
<1>. QED
  BY <1>1, <1>2, <1>3, <1>4

(***************************************************************************)
(* Words of 32 bits.                                                       *)
(***************************************************************************)
LEMMA SmallWord == \A a \in 0 .. U32 - 1 : a % U32 = a
<1>. TAKE a \in 0 .. U32 - 1
<1>1. U32 \in Nat /\ 0 * U32 + a = a
  BY SizesAssumption DEF SizesAssumption
<1>. QED
  BY <1>1, ModUnique

LEMMA WordOf == \A a \in Int : a % U32 \in 0 .. U32 - 1
BY SizesAssumption DEF SizesAssumption

LEMMA WordSum ==
  ASSUME NEW a \in Nat, NEW b \in Nat
  PROVE  ((a % U32) + b) % U32 = (a + b) % U32
<1>. DEFINE r == a % U32
            k == a \div U32
<1>1. U32 \in Nat /\ U32 > 0
  BY SizesAssumption DEF SizesAssumption
<1>2. k \in Nat /\ r \in 0 .. U32 - 1 /\ a = k * U32 + r
  BY <1>1, DivMod
<1>. HIDE DEF r, k
<1>. DEFINE j == (r + b) \div U32
            t == (r + b) % U32
<1>3. r + b \in Nat
  BY <1>2
<1>4. j \in Nat /\ t \in 0 .. U32 - 1 /\ r + b = j * U32 + t
  BY <1>1, <1>3, DivMod
<1>. HIDE DEF j, t
<1>5. a + b = (k + j) * U32 + t
  <2>1. (k + j) * U32 = k * U32 + j * U32
    BY <1>1, <1>2, <1>4
  <2>2. k * U32 \in Nat /\ j * U32 \in Nat
    BY <1>1, <1>2, <1>4
  <2>. QED
    BY <1>2, <1>4, <2>1, <2>2
<1>6. k + j \in Nat
  BY <1>2, <1>4
<1>7. ((k + j) * U32 + t) % U32 = t
  BY <1>1, <1>4, <1>6, ModUnique
<1>. QED
  BY <1>5, <1>7 DEF r, t

(***************************************************************************)
(* A request, before or after the merging of its lines; and one whose      *)
(* pages are counted right.                                                *)
(***************************************************************************)
Wanted == [mem_addr : Nat, mem_stride : 0 .. U32 - 1,
           fb_addr : 0 .. U32 - 1, fb_stride : 0 .. U32 - 1,
           num_lines : 0 .. U32 - 1, line_length : 0 .. U32 - 1]
Countable(x) == Fits(x) /\ x.mem_stride >= x.line_length

MemLine(x, line) == x.mem_addr + line * x.mem_stride
FbLine(x, line) == x.fb_addr + line * x.fb_stride

LEMMA LineAddress ==
  ASSUME NEW x \in Wanted, NEW line \in 0 .. x.num_lines - 1
  PROVE  /\ MemLine(x, line) \in Nat /\ x.mem_addr <= MemLine(x, line)
         /\ FbLine(x, line) \in Nat
<1>1. /\ x.mem_addr \in Nat /\ x.mem_stride \in Nat /\ x.fb_addr \in Nat
      /\ x.fb_stride \in Nat /\ line \in Nat
  BY DEF Wanted
<1>2. line * x.mem_stride \in Nat /\ line * x.fb_stride \in Nat
  BY <1>1
<1>. QED
  BY <1>1, <1>2 DEF MemLine, FbLine

LEMMA LineInPages ==
  ASSUME NEW x \in Wanted, NEW line \in 0 .. x.num_lines - 1,
         NEW d \in 0 .. x.line_length - 1
  PROVE  /\ MemLine(x, line) + d \in Nat
         /\ PFN(MemLine(x, line) + d) - PFN(x.mem_addr) \in Nat
         /\ Countable(x) =>
              PFN(MemLine(x, line) + d) - PFN(x.mem_addr) \in 0 .. PagesOf(x) - 1
<1>. DEFINE N == x.num_lines
            st == x.mem_stride
            ma == x.mem_addr
            at == MemLine(x, line) + d
<1>1. /\ N \in Nat /\ st \in Nat /\ ma \in Nat /\ line \in Nat /\ line + 1 <= N /\ d \in Nat
      /\ Countable(x) => d < st
  BY DEF Wanted, Countable
<1>2. at \in Nat /\ ma <= at
  BY <1>1, LineAddress
<1>3. PFN(ma) <= PFN(at) /\ PFN(ma) \in Nat /\ PFN(at) \in Nat
  BY <1>1, <1>2, PagesAscend, PageOfAddress
<1>4. ASSUME Countable(x) PROVE PFN(at) - PFN(ma) \in 0 .. PagesOf(x) - 1
  <2>. DEFINE here == line * st
              end == N * st
  <2>1. here \in Nat /\ end \in Nat /\ here + st <= end
    <3>. HIDE DEF N, st, ma
    <3>1. (line + 1) * st <= N * st /\ line * st \in Nat /\ N * st \in Nat
      BY <1>1, ProductOrder
    <3>2. (line + 1) * st = line * st + st
      BY <1>1
    <3>. QED
      BY <3>1, <3>2
  <2>2. end < U32 /\ at = ma + here + d /\ d < st
    BY <1>1, <1>4 DEF Countable, Fits, MemLine
  <2>3. PagesOf(x) = PFN(ma + ((end - 1) % U32)) - PFN(ma) + 1
    BY DEF PagesOf
  <2>. HIDE DEF here, end, at, N, st, ma
  <2>4. end - 1 \in 0 .. U32 - 1
    BY <1>1, <2>1, <2>2, SizesAssumption DEF SizesAssumption
  <2>5. (end - 1) % U32 = end - 1
    BY <2>4, SmallWord
  <2>6. ma + (end - 1) \in Nat /\ at <= ma + (end - 1)
    BY <1>1, <2>1, <2>2, <2>4
  <2>7. PFN(at) <= PFN(ma + (end - 1)) /\ PFN(ma + (end - 1)) \in Nat
    BY <1>2, <2>6, PagesAscend, PageOfAddress
  <2>. QED
    BY <1>3, <2>3, <2>5, <2>7
<1>. QED
  BY <1>2, <1>3, <1>4

(***************************************************************************)
(* The pieces, and the bytes they move.                                    *)
(***************************************************************************)
PiecesOf(x) ==
  {p \in [page : Nat, off : Nat, len : Nat \ {0}, fb : Nat] :
     /\ p.off + p.len <= PAGE_SIZE
     /\ Countable(x) => p.page \in 0 .. PagesOf(x) - 1}

PieceBytes(x, p) ==
  {<<(PFN(x.mem_addr) + p.page) * PAGE_SIZE + p.off + b, (p.fb + b) % U32>>
     : b \in 0 .. p.len - 1}
Bytes(x, s) == UNION {PieceBytes(x, s[i]) : i \in DOMAIN s}
RestOfLine(x, line, d) ==
  {<<MemLine(x, line) + b, (FbLine(x, line) + b) % U32>> : b \in d .. x.line_length - 1}

LEMMA BytesJoined ==
  ASSUME NEW x, NEW S, NEW s \in Seq(S), NEW t \in Seq(S)
  PROVE  Bytes(x, s \o t) = Bytes(x, s) \cup Bytes(x, t)
<1>1. /\ DOMAIN s = 1 .. Len(s) /\ DOMAIN t = 1 .. Len(t) /\ Len(s) \in Nat /\ Len(t) \in Nat
      /\ DOMAIN (s \o t) = 1 .. Len(s) + Len(t)
      /\ \A i \in 1 .. Len(s) : (s \o t)[i] = s[i]
      /\ \A i \in 1 .. Len(t) : (s \o t)[Len(s) + i] = t[i]
  OBVIOUS
<1>2. \A i \in DOMAIN (s \o t) : PieceBytes(x, (s \o t)[i]) \subseteq Bytes(x, s) \cup Bytes(x, t)
  <2>. TAKE i \in DOMAIN (s \o t)
  <2>1. CASE i <= Len(s)
    <3>1. i \in DOMAIN s /\ (s \o t)[i] = s[i]
      BY <1>1, <2>1
    <3>. QED
      BY <3>1 DEF Bytes
  <2>2. CASE i > Len(s)
    <3>1. i - Len(s) \in DOMAIN t /\ (s \o t)[i] = t[i - Len(s)]
      BY <1>1, <2>2
    <3>. QED
      BY <3>1 DEF Bytes
  <2>. QED
    BY <1>1, <2>1, <2>2
<1>3. \A i \in DOMAIN s : PieceBytes(x, s[i]) \subseteq Bytes(x, s \o t)
  <2>. TAKE i \in DOMAIN s
  <2>1. i \in DOMAIN (s \o t) /\ (s \o t)[i] = s[i]
    BY <1>1
  <2>. QED
    BY <2>1 DEF Bytes
<1>4. \A i \in DOMAIN t : PieceBytes(x, t[i]) \subseteq Bytes(x, s \o t)
  <2>. TAKE i \in DOMAIN t
  <2>1. Len(s) + i \in DOMAIN (s \o t) /\ (s \o t)[Len(s) + i] = t[i]
    BY <1>1
  <2>. QED
    BY <2>1 DEF Bytes
<1>5. Bytes(x, s \o t) \subseteq Bytes(x, s) \cup Bytes(x, t)
  <2>. DEFINE both == Bytes(x, s) \cup Bytes(x, t)
              st == s \o t
  <2>. HIDE DEF both, st
  <2>1. \A i \in DOMAIN st : PieceBytes(x, st[i]) \subseteq both
    BY <1>2 DEF both, st
  <2>2. Bytes(x, st) \subseteq both
    BY <2>1 DEF Bytes
  <2>. QED
    BY <2>2 DEF both, st
<1>6. Bytes(x, s) \subseteq Bytes(x, s \o t)
  <2>. DEFINE all == Bytes(x, s \o t)
  <2>. HIDE DEF all
  <2>1. \A i \in DOMAIN s : PieceBytes(x, s[i]) \subseteq all
    BY <1>3 DEF all
  <2>2. Bytes(x, s) \subseteq all
    BY <2>1 DEF Bytes
  <2>. QED
    BY <2>2 DEF all
<1>7. Bytes(x, t) \subseteq Bytes(x, s \o t)
  <2>. DEFINE all == Bytes(x, s \o t)
  <2>. HIDE DEF all
  <2>1. \A i \in DOMAIN t : PieceBytes(x, t[i]) \subseteq all
    BY <1>4 DEF all
  <2>2. Bytes(x, t) \subseteq all
    BY <2>1 DEF Bytes
  <2>. QED
    BY <2>2 DEF all
<1>. QED
  BY <1>5, <1>6, <1>7

LEMMA BytesOfOne == \A x, p : Bytes(x, <<p>>) = PieceBytes(x, p)
BY DEF Bytes

LEMMA BytesOfNone == \A x : Bytes(x, <<>>) = {}
BY DEF Bytes

LEMMA BytesWithFirst ==
  \A x, S : \A p \in S, t \in Seq(S) :
    Bytes(x, <<p>> \o t) = PieceBytes(x, p) \cup Bytes(x, t)
<1>. TAKE x, S
<1>. TAKE p \in S, t \in Seq(S)
<1>1. PICK s : s = <<p>>
  OBVIOUS
<1>2. s \in Seq(S)
  BY <1>1
<1>3. Bytes(x, s \o t) = Bytes(x, s) \cup Bytes(x, t)
  BY <1>2, BytesJoined
<1>. QED
  BY <1>1, <1>3, BytesOfOne

(* One turn: the piece lies in its page, and what it moves is the part of  *)
(* the line up to where the next one starts.                               *)
PieceAt(x, line, d) ==
  [page |-> PFN(MemLine(x, line) + d) - PFN(x.mem_addr),
   off |-> PGOFF(MemLine(x, line) + d),
   len |-> PieceLength(x.line_length - d, MemLine(x, line) + d),
   fb |-> (FbLine(x, line) + d) % U32]

LEMMA OneTurn ==
  ASSUME NEW x \in Wanted, NEW line \in 0 .. x.num_lines - 1,
         NEW d \in 0 .. x.line_length - 1
  PROVE  LET p == PieceAt(x, line, d) IN
         /\ p \in PiecesOf(x)
         /\ p.len \in Nat \ {0} /\ d + p.len <= x.line_length
         /\ PieceBytes(x, p) = {<<MemLine(x, line) + b, (FbLine(x, line) + b) % U32>>
                                  : b \in d .. d + p.len - 1}
<1>. DEFINE p == PieceAt(x, line, d)
            mem == MemLine(x, line)
            fb == FbLine(x, line)
            L == x.line_length
<1>1. /\ mem + d \in Nat /\ PFN(mem + d) - PFN(x.mem_addr) \in Nat
      /\ Countable(x) => PFN(mem + d) - PFN(x.mem_addr) \in 0 .. PagesOf(x) - 1
      /\ L \in Nat /\ d \in Nat /\ d < L /\ x.mem_addr \in Nat
  BY LineInPages DEF Wanted
<1>2. mem \in Nat /\ fb \in Nat
  BY LineAddress
<1>3. PAGE_SIZE \in Nat \ {0} /\ U32 \in Nat \ {0}
  BY SizesAssumption DEF SizesAssumption
<1>4. /\ PFN(mem + d) \in Nat /\ PGOFF(mem + d) \in 0 .. PAGE_SIZE - 1
      /\ PFN(mem + d) * PAGE_SIZE + PGOFF(mem + d) = mem + d
      /\ PFN(x.mem_addr) \in Nat
  BY <1>1, PageOfAddress
<1>. HIDE DEF mem, fb, L
<1>5. /\ p.page = PFN(mem + d) - PFN(x.mem_addr) /\ p.off = PGOFF(mem + d)
      /\ p.len = PieceLength(L - d, mem + d) /\ p.fb = (fb + d) % U32
      /\ p = [page |-> p.page, off |-> p.off, len |-> p.len, fb |-> p.fb]
  BY DEF PieceAt, mem, fb, L
<1>. HIDE DEF p
<1>6. p.len \in Nat \ {0} /\ d + p.len <= L /\ p.off + p.len <= PAGE_SIZE
  BY <1>1, <1>3, <1>4, <1>5 DEF PieceLength, Smaller
<1>7. p \in PiecesOf(x)
  <2>1. p.fb \in Nat
    <3>. DEFINE at == fb + d
    <3>1. at \in Nat /\ p.fb = at % U32
      BY <1>1, <1>2, <1>5
    <3>. HIDE DEF at
    <3>. QED
      BY <1>3, <3>1
  <2>. QED
    BY <1>1, <1>4, <1>5, <1>6, <2>1 DEF PiecesOf
<1>8. (PFN(x.mem_addr) + p.page) * PAGE_SIZE + p.off = mem + d
  <2>1. PFN(x.mem_addr) + p.page = PFN(mem + d)
    BY <1>1, <1>4, <1>5
  <2>. QED
    BY <1>4, <1>5, <2>1
<1>9. \A b \in Nat : (p.fb + b) % U32 = (fb + d + b) % U32
  <2>. TAKE b \in Nat
  <2>1. fb + d \in Nat
    BY <1>1, <1>2
  <2>. QED
    BY <1>5, <2>1, WordSum
<1>10. PieceBytes(x, p) = {<<mem + b, (fb + b) % U32>> : b \in d .. d + p.len - 1}
  <2>. DEFINE from == (PFN(x.mem_addr) + p.page) * PAGE_SIZE + p.off
              word(b) == (fb + b) % U32
  <2>1. PieceBytes(x, p) = {<<from + b, (p.fb + b) % U32>> : b \in 0 .. p.len - 1}
    BY DEF PieceBytes
  <2>2. \A b \in 0 .. p.len - 1 : /\ d + b \in d .. d + p.len - 1
                                  /\ from + b = mem + (d + b)
                                  /\ (p.fb + b) % U32 = word(d + b)
    <3>1. TAKE b \in 0 .. p.len - 1
    <3>2. b \in Nat /\ fb + d + b = fb + (d + b)
      BY <1>1, <1>2, <1>6
    <3>3. (p.fb + b) % U32 = word(d + b)
      BY <1>9, <3>2
    <3>4. from + b = mem + (d + b)
      <4>. HIDE DEF from, word
      <4>. QED
        BY <1>1, <1>2, <1>8, <3>2 DEF from
    <3>5. d + b \in d .. d + p.len - 1
      BY <1>1, <1>6
    <3>. QED
      BY <3>3, <3>4, <3>5
  <2>3. \A b \in d .. d + p.len - 1 : b - d \in 0 .. p.len - 1 /\ d + (b - d) = b
    BY <1>1, <1>6
  <2>. HIDE DEF from, word
  <2>4. PieceBytes(x, p) = {<<mem + b, word(b)>> : b \in d .. d + p.len - 1}
    <3>1. ASSUME NEW b \in d .. d + p.len - 1
          PROVE  <<mem + b, word(b)>> \in PieceBytes(x, p)
      <4>1. b - d \in 0 .. p.len - 1 /\ d + (b - d) = b
        BY <2>3
      <4>2. <<from + (b - d), (p.fb + (b - d)) % U32>> = <<mem + b, word(b)>>
        BY <2>2, <4>1
      <4>. QED
        BY <2>1, <4>1, <4>2
    <3>2. ASSUME NEW b \in 0 .. p.len - 1
          PROVE  <<from + b, (p.fb + b) % U32>>
                   \in {<<mem + c, word(c)>> : c \in d .. d + p.len - 1}
      BY <2>2
    <3>. QED
      BY <2>1, <3>1, <3>2
  <2>. QED
    BY <2>4 DEF word
<1>. QED
  BY <1>6, <1>7, <1>10 DEF p, mem, fb, L

LEMMA LineIsLoop ==
  ASSUME NEW x \in Wanted, NEW line \in 0 .. x.num_lines - 1
  PROVE  \E from :
           /\ LinePieces(x, line) = from[0]
           /\ \A d \in 0 .. x.line_length :
                from[d] = IF d = x.line_length THEN <<>>
                          ELSE <<PieceAt(x, line, d)>> \o from[d + PieceAt(x, line, d).len]
<1>. DEFINE L == x.line_length
            Part(d) == [page |-> PFN(x.mem_addr + line * x.mem_stride + d) - PFN(x.mem_addr),
                        off |-> PGOFF(x.mem_addr + line * x.mem_stride + d),
                        len |-> PieceLength(L - d, x.mem_addr + line * x.mem_stride + d),
                        fb |-> (x.fb_addr + line * x.fb_stride + d) % U32]
            piece == [d \in 0 .. L - 1 |-> PieceAt(x, line, d)]
            step == [d \in 0 .. L - 1 |-> PieceAt(x, line, d).len]
            Loop(f) == [d \in 0 .. L |->
                          IF d = L THEN <<>>
                          ELSE LET len == PieceLength(L - d, x.mem_addr + line * x.mem_stride + d)
                               IN  <<[page |-> PFN(x.mem_addr + line * x.mem_stride + d) - PFN(x.mem_addr),
                                      off |-> PGOFF(x.mem_addr + line * x.mem_stride + d),
                                      len |-> len,
                                      fb |-> (x.fb_addr + line * x.fb_stride + d) % U32]>>
                                   \o f[d + len]]
            from == CHOOSE f : f = Loop(f)
<1>1. L \in Nat
  BY DEF Wanted
<1>2. \A d \in 0 .. L - 1 : step[d] \in Nat \ {0} /\ d + step[d] <= L
  BY OneTurn
<1>3. PICK g : g = [d \in 0 .. L |-> Turn(piece, step, g, L, d)]
  <2>. HIDE DEF L, piece, step
  <2>. QED
    BY <1>1, <1>2, LoopEnds
<1>4. \A f, d : d \in 0 .. L /\ d /= L =>
        Turn(piece, step, f, L, d) = <<PieceAt(x, line, d)>> \o f[d + PieceAt(x, line, d).len]
  BY <1>1 DEF Turn
<1>5. g = Loop(g)
  <2>1. \A d \in 0 .. L : d /= L =>
          /\ PieceAt(x, line, d) = Part(d)
          /\ PieceAt(x, line, d).len = PieceLength(L - d, x.mem_addr + line * x.mem_stride + d)
    BY DEF PieceAt, MemLine, FbLine
  <2>2. \A d \in 0 .. L : g[d] = Loop(g)[d]
    <3>. SUFFICES ASSUME NEW d \in 0 .. L PROVE g[d] = Loop(g)[d]
      OBVIOUS
    <3>1. g[d] = Turn(piece, step, g, L, d)
      BY <1>3
    <3>2. CASE d = L
      BY <3>1, <3>2 DEF Turn
    <3>3. CASE d /= L
      BY <3>1, <3>3, <1>4, <2>1
    <3>. QED
      BY <3>2, <3>3
  <2>3. g = [d \in 0 .. L |-> g[d]]
    BY <1>3
  <2>. QED
    BY <2>2, <2>3
<1>6. from = Loop(from)
  <2>. HIDE DEF Loop
  <2>. QED
    BY <1>5
<1>7. LinePieces(x, line) = from[0]
  BY DEF LinePieces
<1>. HIDE DEF from
<1>8. \A d \in 0 .. L : from[d] = IF d = L THEN <<>>
        ELSE <<PieceAt(x, line, d)>> \o from[d + PieceAt(x, line, d).len]
  BY <1>6 DEF PieceAt, MemLine, FbLine
<1>. QED
  BY <1>7, <1>8

LEMMA OneMorePiece ==
  ASSUME NEW x \in Wanted, NEW line \in 0 .. x.num_lines - 1,
         NEW d \in 0 .. x.line_length - 1
  PROVE  \A rest \in Seq(PiecesOf(x)) :
           Bytes(x, rest) = RestOfLine(x, line, d + PieceAt(x, line, d).len) =>
             /\ <<PieceAt(x, line, d)>> \o rest \in Seq(PiecesOf(x))
             /\ Bytes(x, <<PieceAt(x, line, d)>> \o rest) = RestOfLine(x, line, d)
<1>. DEFINE p == PieceAt(x, line, d)
            e == d + p.len
            S == PiecesOf(x)
<1>1. p \in S /\ p.len \in Nat \ {0} /\ e <= x.line_length
  BY OneTurn
<1>2. PieceBytes(x, p) = {<<MemLine(x, line) + b, (FbLine(x, line) + b) % U32>> : b \in d .. e - 1}
  BY OneTurn
<1>3. x.line_length \in Nat
  BY DEF Wanted
<1>. HIDE DEF p, S
<1>4. d .. x.line_length - 1 = (d .. e - 1) \cup (e .. x.line_length - 1)
  BY <1>1, <1>3
<1>5. \A rest \in Seq(S) : <<p>> \o rest \in Seq(S)
  BY <1>1
<1>6. \A rest \in Seq(S) : Bytes(x, <<p>> \o rest) = PieceBytes(x, p) \cup Bytes(x, rest)
  <2>1. p \in S
    BY <1>1
  <2>. QED
    BY <2>1, BytesWithFirst, ZenonT(40)
<1>. HIDE DEF e
<1>7. PieceBytes(x, p) \cup RestOfLine(x, line, e) = RestOfLine(x, line, d)
  BY <1>2, <1>4 DEF RestOfLine
<1>8. \A rest \in Seq(S) : Bytes(x, rest) = RestOfLine(x, line, e) =>
        <<p>> \o rest \in Seq(S) /\ Bytes(x, <<p>> \o rest) = RestOfLine(x, line, d)
  <2>. TAKE rest \in Seq(S)
  <2>1. <<p>> \o rest \in Seq(S)
    BY <1>5
  <2>2. Bytes(x, <<p>> \o rest) = PieceBytes(x, p) \cup Bytes(x, rest)
    BY <1>6
  <2>. QED
    BY <2>1, <2>2, <1>7
<1>. QED
  BY <1>8 DEF p, e, S

LEMMA LineCovered ==
  ASSUME NEW x \in Wanted, NEW line \in 0 .. x.num_lines - 1
  PROVE  /\ LinePieces(x, line) \in Seq(PiecesOf(x))
         /\ Bytes(x, LinePieces(x, line)) = RestOfLine(x, line, 0)
<1>. DEFINE L == x.line_length
<1>1. L \in Nat
  BY DEF Wanted
<1>2. PICK from :
        /\ LinePieces(x, line) = from[0]
        /\ \A d \in 0 .. L :
             from[d] = IF d = L THEN <<>>
                       ELSE <<PieceAt(x, line, d)>> \o from[d + PieceAt(x, line, d).len]
  BY LineIsLoop
<1>. DEFINE Covered(d) == from[d] \in Seq(PiecesOf(x)) /\ Bytes(x, from[d]) = RestOfLine(x, line, d)
            bad == {n \in 0 .. L : ~ Covered(L - n)}
<1>3. bad = {}
  <2>. SUFFICES ASSUME bad /= {} PROVE FALSE
    OBVIOUS
  <2>1. PICK n \in bad : \A m \in bad : n <= m
    <3>1. bad \in SUBSET Nat
      BY <1>1
    <3>. HIDE DEF bad
    <3>. QED
      BY <3>1, LeastNatural
  <2>. DEFINE d == L - n
  <2>2. d \in 0 .. L /\ n \in 0 .. L
    BY <1>1
  <2>3. CASE d = L
    <3>1. from[d] = <<>>
      BY <1>2, <2>2, <2>3
    <3>2. RestOfLine(x, line, d) = {}
      BY <2>3, <1>1 DEF RestOfLine
    <3>3. Covered(d)
      <4>1. <<>> \in Seq(PiecesOf(x)) /\ Bytes(x, <<>>) = {}
        BY BytesOfNone
      <4>. HIDE DEF d
      <4>. QED
        BY <3>1, <3>2, <4>1
    <3>. QED
      BY <3>3, <2>1
  <2>4. CASE d /= L
    <3>1. d \in 0 .. L - 1
      BY <1>1, <2>2, <2>4
    <3>. DEFINE len == PieceAt(x, line, d).len
                e == d + len
    <3>2. len \in Nat \ {0} /\ e <= L
      BY <3>1, OneTurn
    <3>3. e \in 0 .. L /\ L - e \in 0 .. L /\ L - (L - e) = e /\ ~ (n <= L - e)
      <4>. HIDE DEF len
      <4>. QED
        BY <1>1, <2>2, <3>1, <3>2, SMTT(30)
    <3>4. Covered(e)
      BY <2>1, <3>3
    <3>5. from[d] = <<PieceAt(x, line, d)>> \o from[e]
      BY <1>2, <2>2, <2>4
    <3>6. Covered(d)
      <4>. HIDE DEF d
      <4>. QED
        BY <3>1, <3>4, <3>5, OneMorePiece
    <3>. QED
      BY <3>6, <2>1
  <2>. QED
    BY <2>3, <2>4
<1>4. Covered(0)
  <2>1. L \in 0 .. L /\ L - L = 0
    BY <1>1
  <2>. QED
    BY <1>3, <2>1
<1>. QED
  BY <1>2, <1>4

LEMMA PiecesAreLoop ==
  ASSUME NEW x \in Wanted
  PROVE  \E upTo :
           /\ Pieces(x) = upTo[x.num_lines]
           /\ \A n \in 0 .. x.num_lines :
                upTo[n] = IF n = 0 THEN <<>> ELSE upTo[n - 1] \o LinePieces(x, n - 1)
<1>. DEFINE N == x.num_lines
            lines == [n \in 0 .. N - 1 |-> LinePieces(x, n)]
            Loop(f) == [n \in 0 .. N |->
                          IF n = 0 THEN <<>> ELSE f[n - 1] \o LinePieces(x, n - 1)]
            upTo == CHOOSE f : f = Loop(f)
<1>1. N \in Nat
  BY DEF Wanted
<1>2. PICK g : g = [n \in 0 .. N |-> IF n = 0 THEN <<>> ELSE g[n - 1] \o lines[n - 1]]
  <2>. HIDE DEF N, lines
  <2>. QED
    BY <1>1, LinesEnd
<1>3. g = Loop(g)
  <2>1. \A n \in 0 .. N : n /= 0 => lines[n - 1] = LinePieces(x, n - 1)
    BY <1>1
  <2>. HIDE DEF lines
  <2>2. \A n \in 0 .. N : g[n] = Loop(g)[n]
    BY <1>2, <2>1
  <2>3. g = [n \in 0 .. N |-> g[n]]
    BY <1>2
  <2>. QED
    BY <2>2, <2>3
<1>4. upTo = Loop(upTo)
  <2>. HIDE DEF Loop
  <2>. QED
    BY <1>3
<1>5. Pieces(x) = upTo[N]
  BY DEF Pieces
<1>. HIDE DEF upTo
<1>6. \A n \in 0 .. N : upTo[n] = IF n = 0 THEN <<>> ELSE upTo[n - 1] \o LinePieces(x, n - 1)
  BY <1>4
<1>. QED
  BY <1>5, <1>6

WholeLines(x, n) ==
  {<<x.mem_addr + l * x.mem_stride + b, (x.fb_addr + l * x.fb_stride + b) % U32>>
     : l \in 0 .. n - 1, b \in 0 .. x.line_length - 1}

LEMMA TransferCovered ==
  ASSUME NEW x \in Wanted
  PROVE  /\ Pieces(x) \in Seq(PiecesOf(x))
         /\ Bytes(x, Pieces(x)) = WholeLines(x, x.num_lines)
<1>. DEFINE N == x.num_lines
<1>1. N \in Nat
  BY DEF Wanted
<1>2. PICK upTo :
        /\ Pieces(x) = upTo[N]
        /\ \A n \in 0 .. N : upTo[n] = IF n = 0 THEN <<>> ELSE upTo[n - 1] \o LinePieces(x, n - 1)
  BY PiecesAreLoop
<1>. DEFINE Covered(n) == upTo[n] \in Seq(PiecesOf(x)) /\ Bytes(x, upTo[n]) = WholeLines(x, n)
            good == {n \in Nat : n <= N => Covered(n)}
<1>3. 0 \in good
  <2>1. WholeLines(x, 0) = {}
    BY DEF WholeLines
  <2>2. upTo[0] = <<>>
    BY <1>1, <1>2
  <2>3. <<>> \in Seq(PiecesOf(x)) /\ Bytes(x, <<>>) = {}
    BY BytesOfNone
  <2>. QED
    BY <2>1, <2>2, <2>3
<1>4. ASSUME NEW n \in Nat, n \in good PROVE n + 1 \in good
  <2>. SUFFICES ASSUME n + 1 <= N PROVE Covered(n + 1)
    OBVIOUS
  <2>1. Covered(n)
    BY <1>1, <1>4
  <2>2. n \in 0 .. N - 1 /\ n + 1 \in 0 .. N /\ n + 1 /= 0 /\ (n + 1) - 1 = n
    BY <1>1
  <2>3. upTo[n + 1] = upTo[n] \o LinePieces(x, n)
    BY <1>2, <2>2
  <2>4. LinePieces(x, n) \in Seq(PiecesOf(x)) /\ Bytes(x, LinePieces(x, n)) = RestOfLine(x, n, 0)
    BY <2>2, LineCovered
  <2>5. upTo[n + 1] \in Seq(PiecesOf(x))
    BY <2>1, <2>3, <2>4
  <2>6. Bytes(x, upTo[n + 1]) = WholeLines(x, n) \cup RestOfLine(x, n, 0)
    BY <2>1, <2>3, <2>4, BytesJoined
  <2>7. WholeLines(x, n) \cup RestOfLine(x, n, 0) = WholeLines(x, n + 1)
    <3>1. 0 .. (n + 1) - 1 = (0 .. n - 1) \cup {n}
      OBVIOUS
    <3>. QED
      BY <3>1 DEF WholeLines, RestOfLine, MemLine, FbLine
  <2>. QED
    BY <2>5, <2>6, <2>7
<1>5. N \in good
  <2>. HIDE DEF good
  <2>. QED
    BY <1>1, <1>3, <1>4, CountingUp
<1>. QED
  BY <1>1, <1>2, <1>5

(***************************************************************************)
(* The pages allocated hold all descriptors.                               *)
(***************************************************************************)
LEMMA PositionInPages ==
  ASSUME NEW n \in Nat, NEW i \in 0 .. n - 1
  PROVE  Position(i) \in (0 .. PagesNeeded(n) - 1) \X (0 .. DescPerPage - 1)
<1>. DEFINE D == DescPerPage
            q == i \div D
            top == n + D - 1
            k == top \div D
<1>1. D \in Nat \ {0}
  BY SizesAssumption DEF SizesAssumption
<1>2. q \in Nat /\ i % D \in 0 .. D - 1 /\ q * D + (i % D) = i /\ q * D \in Nat
  <2>. HIDE DEF D
  <2>1. q \in Nat
    BY <1>1
  <2>2. i % D \in 0 .. D - 1
    BY <1>1
  <2>3. q * D + (i % D) = i
    BY <1>1
  <2>. QED
    BY <1>1, <2>1, <2>2, <2>3
<1>3. top \in Nat
  BY <1>1
<1>4. k \in Nat /\ top < (k + 1) * D
  <2>. HIDE DEF top, D
  <2>. QED
    BY <1>1, <1>3
<1>5. (q + 1) * D = q * D + D
  BY <1>1, <1>2
<1>6. (q + 1) * D <= top
  <2>. HIDE DEF q, D
  <2>. QED
    BY <1>1, <1>2, <1>5
<1>. HIDE DEF q, k, top, D
<1>7. q \in 0 .. k - 1
  <2>. SUFFICES ASSUME k + 1 <= q + 1 PROVE FALSE
    BY <1>2, <1>4
  <2>1. (k + 1) * D <= (q + 1) * D /\ (k + 1) * D \in Nat /\ (q + 1) * D \in Nat
    BY <1>1, <1>2, <1>4, ProductOrder
  <2>. QED
    BY <1>3, <1>4, <1>6, <2>1
<1>. QED
  BY <1>2, <1>7 DEF Position, PagesNeeded, D, q, k, top

LEMMA SomePagesNeeded == \A n \in Nat : PagesNeeded(n) \in Nat
<1>. TAKE n \in Nat
<1>. DEFINE top == n + DescPerPage - 1
<1>1. top \in Nat /\ DescPerPage \in Nat \ {0}
  BY SizesAssumption DEF SizesAssumption
<1>2. top \div DescPerPage \in Nat
  <2>. HIDE DEF top
  <2>. QED
    BY <1>1
<1>. QED
  BY <1>2 DEF PagesNeeded

(***************************************************************************)
(* What the checks let through.                                            *)
(***************************************************************************)
LEMMA Merged ==
  ASSUME NEW x \in Wanted, x.mem_stride = x.line_length /\ x.fb_stride = x.line_length
  PROVE  LET bytes == (x.mem_stride * x.num_lines) % U32
         IN  /\ bytes \in 0 .. U32 - 1
             /\ MergeLines(x) = [mem_addr |-> x.mem_addr, mem_stride |-> bytes,
                                 fb_addr |-> x.fb_addr, fb_stride |-> bytes,
                                 num_lines |-> 1, line_length |-> bytes]
<1>. DEFINE all == x.mem_stride * x.num_lines
            bytes == all % U32
<1>1. all \in Int
  BY DEF Wanted
<1>2. bytes \in 0 .. U32 - 1
  BY <1>1, WordOf
<1>3. MergeLines(x) = [x EXCEPT !.mem_stride = bytes, !.line_length = bytes,
                                !.fb_stride = bytes, !.num_lines = 1]
  BY DEF MergeLines
<1>. HIDE DEF bytes
<1>4. MergeLines(x) = [mem_addr |-> x.mem_addr, mem_stride |-> bytes,
                       fb_addr |-> x.fb_addr, fb_stride |-> bytes,
                       num_lines |-> 1, line_length |-> bytes]
  BY <1>3 DEF Wanted
<1>. QED
  BY <1>2, <1>4 DEF bytes

LEMMA MergedIsWanted == \A x \in Wanted : x.num_lines > 0 => MergeLines(x) \in Wanted
<1>. SUFFICES ASSUME NEW x \in Wanted, x.num_lines > 0 PROVE MergeLines(x) \in Wanted
  OBVIOUS
<1>1. CASE x.mem_stride = x.line_length /\ x.fb_stride = x.line_length
  <2>. DEFINE bytes == (x.mem_stride * x.num_lines) % U32
  <2>1. /\ bytes \in 0 .. U32 - 1
        /\ MergeLines(x) = [mem_addr |-> x.mem_addr, mem_stride |-> bytes,
                            fb_addr |-> x.fb_addr, fb_stride |-> bytes,
                            num_lines |-> 1, line_length |-> bytes]
    BY <1>1, Merged
  <2>. HIDE DEF bytes
  <2>2. /\ 1 \in 0 .. U32 - 1 /\ x.mem_addr \in Nat /\ x.fb_addr \in 0 .. U32 - 1
    BY SizesAssumption DEF SizesAssumption, Wanted
  <2>. QED
    BY <2>1, <2>2 DEF Wanted
<1>2. CASE ~ (x.mem_stride = x.line_length /\ x.fb_stride = x.line_length)
  BY <1>2 DEF MergeLines
<1>. QED
  BY <1>1, <1>2

(* Merging leaves the bytes and their places as they are, if none is lost  *)
(* in the product.                                                         *)
LEMMA MergedMovesTheSame ==
  ASSUME NEW x \in Wanted, Allowed(x), Fits(x)
  PROVE  /\ Countable(MergeLines(x))
         /\ WholeLines(MergeLines(x), MergeLines(x).num_lines) = WholeLines(x, x.num_lines)
<1>1. MergeLines(x).mem_stride >= MergeLines(x).line_length
  BY DEF Allowed
<1>2. CASE x.mem_stride = x.line_length /\ x.fb_stride = x.line_length
  <2>. DEFINE n == x.num_lines
              st == x.mem_stride
              all == st * n
              m == MergeLines(x)
              Cell(k) == <<x.mem_addr + k, (x.fb_addr + k) % U32>>
              Cells == {Cell(k) : k \in 0 .. all - 1}
  <2>1. /\ n \in Nat \ {0} /\ st \in Nat \ {0} /\ all \in Nat /\ all = n * st
        /\ x.mem_addr \in Nat /\ x.fb_addr \in Nat
    BY <1>2 DEF Wanted, Allowed
  <2>2. all \in 0 .. U32 - 1
    BY <2>1, SizesAssumption DEF Fits, SizesAssumption
  <2>3. all % U32 = all
    BY <2>2, SmallWord
  <2>4. m = [mem_addr |-> x.mem_addr, mem_stride |-> all, fb_addr |-> x.fb_addr,
             fb_stride |-> all, num_lines |-> 1, line_length |-> all]
    BY <1>2, <2>3, Merged
  <2>. HIDE DEF n, st, all, m
  <2>5. m.num_lines * m.mem_stride = all
    BY <2>1, <2>4
  <2>6. Countable(m)
    <3>1. m.mem_stride >= m.line_length
      BY <1>1 DEF m
    <3>2. Fits(m)
      <4>1. all < U32
        BY <2>1, <2>2, SizesAssumption DEF SizesAssumption
      <4>. QED
        BY <2>5, <4>1 DEF Fits
    <3>. QED
      BY <3>1, <3>2 DEF Countable
  <2>7. WholeLines(m, 1) = Cells
    <3>1. WholeLines(m, 1) = {<<x.mem_addr + l * all + b, (x.fb_addr + l * all + b) % U32>>
                                : l \in 0 .. 0, b \in 0 .. all - 1}
      BY <2>4 DEF WholeLines
    <3>2. \A l \in 0 .. 0, b \in 0 .. all - 1 :
            <<x.mem_addr + l * all + b, (x.fb_addr + l * all + b) % U32>> = Cell(b)
      <4>1. \A l \in 0 .. 0, b \in 0 .. all - 1 :
              x.mem_addr + l * all + b = x.mem_addr + b /\ x.fb_addr + l * all + b = x.fb_addr + b
        BY <2>1
      <4>. QED
        BY <4>1
    <3>3. 0 \in 0 .. 0
      OBVIOUS
    <3>. HIDE DEF Cell
    <3>. QED
      BY <3>1, <3>2, <3>3
  <2>8. WholeLines(x, n) = Cells
    <3>1. WholeLines(x, n) = {<<x.mem_addr + l * st + b, (x.fb_addr + l * st + b) % U32>>
                                : l \in 0 .. n - 1, b \in 0 .. st - 1}
      BY <1>2 DEF WholeLines, n, st
    <3>2. ASSUME NEW l \in 0 .. n - 1, NEW b \in 0 .. st - 1
          PROVE  /\ l * st + b \in 0 .. all - 1
                 /\ <<x.mem_addr + l * st + b, (x.fb_addr + l * st + b) % U32>> = Cell(l * st + b)
      <4>1. (l + 1) * st <= n * st /\ (l + 1) * st = l * st + st /\ l * st \in Nat
        <5>1. l \in Nat /\ l + 1 \in Nat /\ l + 1 <= n
          BY <2>1
        <5>. QED
          BY <2>1, <5>1, ProductOrder
      <4>2. l * st + b \in 0 .. all - 1
        <5>. DEFINE at == l * st
                    next == (l + 1) * st
        <5>1. at \in Nat /\ next = at + st /\ next <= all /\ b \in Nat /\ b < st
          BY <2>1, <4>1
        <5>. HIDE DEF at, next
        <5>2. at + b \in 0 .. all - 1
          BY <2>1, <5>1
        <5>. QED
          BY <5>2 DEF at
      <4>3. /\ x.mem_addr + l * st + b = x.mem_addr + (l * st + b)
            /\ x.fb_addr + l * st + b = x.fb_addr + (l * st + b)
        <5>. DEFINE at == l * st
        <5>1. at \in Nat /\ b \in Nat
          BY <4>1
        <5>. HIDE DEF at
        <5>2. /\ x.mem_addr + at + b = x.mem_addr + (at + b)
              /\ x.fb_addr + at + b = x.fb_addr + (at + b)
          BY <2>1, <5>1
        <5>. QED
          BY <5>2 DEF at
      <4>. QED
        BY <4>2, <4>3
    <3>3. ASSUME NEW k \in 0 .. all - 1
          PROVE  \E l \in 0 .. n - 1, b \in 0 .. st - 1 : k = l * st + b
      <4>. DEFINE l == k \div st
                  b == k % st
      <4>1. l \in Nat /\ b \in 0 .. st - 1 /\ k = l * st + b
        BY <2>1, DivMod
      <4>. HIDE DEF l, b
      <4>2. l \in 0 .. n - 1
        <5>. SUFFICES ASSUME n <= l PROVE FALSE
          BY <2>1, <4>1
        <5>1. n * st <= l * st /\ l * st \in Nat
          BY <2>1, <4>1, ProductOrder
        <5>. QED
          BY <2>1, <4>1, <5>1
      <4>. QED
        BY <4>1, <4>2
    <3>. HIDE DEF Cell
    <3>4. ASSUME NEW k \in 0 .. all - 1 PROVE Cell(k) \in WholeLines(x, n)
      <4>1. PICK l \in 0 .. n - 1, b \in 0 .. st - 1 : k = l * st + b
        BY <3>3
      <4>2. Cell(k) = <<x.mem_addr + l * st + b, (x.fb_addr + l * st + b) % U32>>
        BY <3>2, <4>1
      <4>. QED
        BY <3>1, <4>2
    <3>5. WholeLines(x, n) \subseteq Cells
      BY <3>1, <3>2
    <3>6. Cells \subseteq WholeLines(x, n)
      BY <3>4
    <3>. QED
      BY <3>5, <3>6
  <2>9. m.num_lines = 1
    BY <2>4
  <2>. QED
    BY <2>6, <2>7, <2>8, <2>9 DEF m, n
<1>3. CASE ~ (x.mem_stride = x.line_length /\ x.fb_stride = x.line_length)
  <2>1. MergeLines(x) = x
    BY <1>3 DEF MergeLines
  <2>. QED
    BY <1>1, <2>1 DEF Countable
<1>. QED
  BY <1>2, <1>3

LEMMA SomePages ==
  ASSUME NEW x \in Wanted
  PROVE  PagesOf(x) \in Nat
<1>. DEFINE all == x.num_lines * x.mem_stride - 1
            last == all % U32
<1>1. all \in Int /\ x.mem_addr \in Nat
  BY DEF Wanted
<1>2. last \in Nat
  BY <1>1, WordOf
<1>3. PagesOf(x) = PFN(x.mem_addr + last) - PFN(x.mem_addr) + 1
  BY DEF PagesOf
<1>. HIDE DEF last
<1>4. x.mem_addr + last \in Nat /\ x.mem_addr <= x.mem_addr + last
  BY <1>1, <1>2
<1>5. /\ PFN(x.mem_addr) \in Nat /\ PFN(x.mem_addr + last) \in Nat
      /\ PFN(x.mem_addr) <= PFN(x.mem_addr + last)
  BY <1>1, <1>4, PageOfAddress, PagesAscend
<1>. QED
  BY <1>3, <1>5

(***************************************************************************)
(* What a blit owns at each stage.  The state field says it except while a *)
(* step is half-way, which is what the free routine relies on.             *)
(***************************************************************************)
Owned ==
  /\ stage \in {"check", "refused", "lock", "freed"} => state = "sg_init"
  /\ stage = "alloc" => state = "pages_locked"
  /\ stage = "map" => state = "desc_pages_alloc"
  /\ stage \in {"built", "unmap", "rest"} => state = "device_mapped"
  /\ stage \in {"alloc", "map", "built"} => locked = 0 .. PagesOf(xfer) - 1
  /\ state /= "pages_alloc"
  /\ state = "sg_init" => locked = {}
  /\ state \in {"sg_init", "pages_locked"} => desc_pages = {} /\ ~desc_array
  /\ stage = "map" \/ state = "device_mapped" =>
       desc_pages = 0 .. PagesNeeded(num_desc) - 1
  /\ state = "device_mapped" => DOMAIN desc_at = {Position(i) : i \in 0 .. num_desc - 1}
  /\ locked /= {} => page_array

BuildInv ==
  /\ BuildTypeOK /\ Owned
  /\ request \in Wanted /\ xfer \in Wanted
  /\ stage \in {"check", "refused"} => xfer = request
  /\ stage \notin {"check", "refused"} => Allowed(request) /\ xfer = MergeLines(request)

LEMMA BuildInvInit == BuildInit => BuildInv
<1>. SUFFICES ASSUME BuildInit PROVE BuildInv
  OBVIOUS
<1>1. request \in Wanted /\ xfer = request
  BY RequestsAssumption DEF BuildInit, RequestsAssumption, Wanted
<1>2. BuildTypeOK
  BY DEF BuildInit, BuildTypeOK
<1>3. Owned
  BY DEF BuildInit, Owned
<1>. QED
  BY <1>1, <1>2, <1>3 DEF BuildInit, BuildInv

LEMMA CheckStep == BuildInv /\ Check => BuildInv'
<1>. SUFFICES ASSUME BuildInv, Check PROVE BuildInv'
  OBVIOUS
<1>1. stage = "check" /\ xfer = request /\ request' = request
  BY DEF Check, BuildInv
<1>2. BuildTypeOK' /\ Owned'
  BY DEF Check, BuildInv, BuildTypeOK, Owned, vsgVars, mapVars
<1>3. CASE ~Allowed(xfer) /\ stage' = "refused" /\ xfer' = xfer
  BY <1>1, <1>2, <1>3 DEF BuildInv
<1>4. CASE Allowed(xfer) /\ stage' = "lock" /\ xfer' = MergeLines(xfer)
  <2>1. xfer' \in Wanted
    BY <1>4, MergedIsWanted DEF BuildInv, Allowed
  <2>2. Allowed(request') /\ xfer' = MergeLines(request')
    BY <1>1, <1>4
  <2>. QED
    BY <1>1, <1>2, <1>4, <2>1, <2>2 DEF BuildInv
<1>. QED
  BY <1>3, <1>4 DEF Check

LEMMA LockStep == BuildInv /\ LockPages => BuildInv'
<1>. SUFFICES ASSUME BuildInv, LockPages PROVE BuildInv'
  OBVIOUS
<1>1. xfer \in Wanted /\ xfer' = xfer /\ request' = request /\ PagesOf(xfer) \in Nat /\ num_pages' = PagesOf(xfer)
  BY SomePages DEF LockPages, BuildInv
<1>2. CASE stage' = "free" /\ UNCHANGED <<state, locked>>
  BY <1>1, <1>2 DEF LockPages, BuildInv, BuildTypeOK, Owned, mapVars
<1>3. CASE \E n \in 0 .. PagesOf(xfer) :
             /\ page_array' = TRUE /\ locked' = 0 .. n - 1 /\ state' = "pages_locked"
             /\ stage' = IF n < PagesOf(xfer) THEN "free" ELSE "alloc"
  <2>1. PICK n \in 0 .. PagesOf(xfer) :
             /\ page_array' = TRUE /\ locked' = 0 .. n - 1 /\ state' = "pages_locked"
             /\ stage' = IF n < PagesOf(xfer) THEN "free" ELSE "alloc"
    BY <1>3
  <2>2. locked' \subseteq 0 .. num_pages' - 1
    BY <1>1, <2>1
  <2>3. stage' = "alloc" => n = PagesOf(xfer)
    BY <1>1, <2>1
  <2>4. PagesOf(xfer') = PagesOf(xfer)
    BY <1>1
  <2>. QED
    BY <1>1, <2>1, <2>2, <2>3, <2>4 DEF LockPages, BuildInv, BuildTypeOK, Owned, mapVars
<1>. QED
  BY <1>2, <1>3 DEF LockPages

LEMMA AllocDescsStep == BuildInv /\ AllocDescs => BuildInv'
<1>. SUFFICES ASSUME BuildInv, AllocDescs PROVE BuildInv'
  OBVIOUS
<1>1. xfer \in Wanted /\ xfer' = xfer /\ request' = request /\ num_desc' \in Nat
  <2>1. xfer \in Wanted /\ xfer' = xfer /\ request' = request /\ num_desc' = Len(Pieces(xfer))
    BY DEF AllocDescs, BuildInv
  <2>2. Pieces(xfer) \in Seq(PiecesOf(xfer))
    BY <2>1, TransferCovered
  <2>. QED
    BY <2>1, <2>2, LenProperties
<1>2. CASE stage' = "free" /\ UNCHANGED <<state, desc_array, desc_pages>>
  BY <1>1, <1>2 DEF AllocDescs, BuildInv, BuildTypeOK, Owned, mapVars
<1>3. CASE \E n \in 0 .. PagesNeeded(num_desc') :
             /\ desc_array' = TRUE /\ desc_pages' = 0 .. n - 1 /\ state' = "desc_pages_alloc"
             /\ stage' = IF n < PagesNeeded(num_desc') THEN "free" ELSE "map"
  <2>1. PICK n \in 0 .. PagesNeeded(num_desc') :
             /\ desc_array' = TRUE /\ desc_pages' = 0 .. n - 1 /\ state' = "desc_pages_alloc"
             /\ stage' = IF n < PagesNeeded(num_desc') THEN "free" ELSE "map"
    BY <1>3
  <2>2. PagesNeeded(num_desc') \in Nat
    BY <1>1, SomePagesNeeded
  <2>3. desc_pages' \subseteq Nat /\ (stage' = "map" => n = PagesNeeded(num_desc'))
    BY <2>1, <2>2
  <2>4. PagesOf(xfer') = PagesOf(xfer)
    BY <1>1
  <2>. QED
    BY <1>1, <2>1, <2>3, <2>4 DEF AllocDescs, BuildInv, BuildTypeOK, Owned, mapVars
<1>. QED
  BY <1>2, <1>3 DEF AllocDescs

LEMMA MapStep == BuildInv /\ MapDevice => BuildInv'
<1>. SUFFICES ASSUME BuildInv, MapDevice PROVE BuildInv'
  OBVIOUS
<1>1. num_desc \in Nat /\ xfer' = xfer /\ request' = request /\ num_desc' = num_desc
  BY DEF BuildInv, BuildTypeOK, MapDevice
<1>2. DOMAIN desc_at' = {Position(i) : i \in 0 .. num_desc - 1}
  BY DEF MapDevice
<1>3. /\ mapped_mem' \subseteq Nat /\ mapped_desc' \subseteq Nat
      /\ chain_start' \in Nat \union {EndOfChain}
  BY <1>1 DEF MapDevice, EndOfChain
<1>4. PagesOf(xfer') = PagesOf(xfer) /\ PagesNeeded(num_desc') = PagesNeeded(num_desc)
  BY <1>1
<1>5. {Position(i) : i \in 0 .. num_desc' - 1} = {Position(i) : i \in 0 .. num_desc - 1}
  BY <1>1
<1>6. stage = "map" /\ stage' = "built" /\ state' = "device_mapped"
      /\ UNCHANGED <<num_pages, num_desc, page_array, locked, desc_array, desc_pages, bad_unmap>>
  BY DEF MapDevice
<1>7. BuildTypeOK'
  BY <1>3, <1>6 DEF BuildInv, BuildTypeOK
<1>8. Owned'
  BY <1>2, <1>4, <1>5, <1>6 DEF BuildInv, Owned
<1>. QED
  BY <1>1, <1>6, <1>7, <1>8 DEF BuildInv

LEMMA FreeingStep ==
  BuildInv /\ (BlitOver \/ UnmapStart \/ UnmapEnd) => BuildInv'
<1>. SUFFICES ASSUME BuildInv, BlitOver \/ UnmapStart \/ UnmapEnd PROVE BuildInv'
  OBVIOUS
<1>1. UNCHANGED <<request, xfer, state, num_pages, num_desc, chain_start, page_array, locked,
                  desc_array, desc_pages, desc_at, mapped_mem, mapped_desc, bad_unmap>>
  BY DEF BlitOver, UnmapStart, UnmapEnd, vsgVars, mapVars
<1>2. /\ stage \in {"built", "free", "unmap"} /\ state = "device_mapped"
      /\ stage' \in {"free", "unmap", "rest"}
  BY DEF BuildInv, Owned, BlitOver, UnmapStart, UnmapEnd
<1>3. PagesOf(xfer') = PagesOf(xfer) /\ PagesNeeded(num_desc') = PagesNeeded(num_desc)
  BY <1>1
<1>4. Owned'
  BY <1>1, <1>2, <1>3 DEF BuildInv, Owned
<1>5. BuildTypeOK'
  BY <1>1, <1>2 DEF BuildInv, BuildTypeOK
<1>. QED
  BY <1>1, <1>2, <1>4, <1>5 DEF BuildInv

LEMMA UnmapOneStep == BuildInv /\ UnmapStep => BuildInv'
<1>. SUFFICES ASSUME BuildInv, UnmapStep PROVE BuildInv'
  OBVIOUS
<1>1. UNCHANGED <<stage, request, xfer, state, num_pages, num_desc, chain_start, page_array, locked,
                  desc_array, desc_pages, desc_at>>
  BY DEF UnmapStep, vsgVars
<1>2. /\ mapped_mem' \subseteq mapped_mem /\ mapped_desc' \subseteq mapped_desc
      /\ bad_unmap' \in BOOLEAN
  BY Zenon DEF UnmapStep
<1>3. Owned'
  BY <1>1 DEF BuildInv, Owned
<1>4. BuildTypeOK'
  BY <1>1, <1>2 DEF BuildInv, BuildTypeOK
<1>. QED
  BY <1>1, <1>3, <1>4 DEF BuildInv

LEMMA FreeRestStep == BuildInv /\ FreeRest => BuildInv'
<1>. SUFFICES ASSUME BuildInv, FreeRest PROVE BuildInv'
  OBVIOUS
<1>1. /\ UNCHANGED <<num_pages, num_desc, chain_start, desc_at, request, xfer, mapVars>>
      /\ stage \in {"rest", "free"} /\ stage' = "freed" /\ state' = "sg_init"
  BY DEF FreeRest
<1>2. locked' = {} /\ desc_pages' = {} /\ desc_array' = FALSE /\ page_array' \in BOOLEAN
  <2>1. CASE state \in {"device_mapped", "desc_pages_alloc"}
    BY <2>1 DEF FreeRest, FreeFrom, BuildInv, BuildTypeOK
  <2>2. CASE state = "pages_locked"
    BY <2>2 DEF FreeRest, FreeFrom, BuildInv, BuildTypeOK, Owned
  <2>3. CASE state = "sg_init"
    BY <2>3 DEF FreeRest, FreeFrom, BuildInv, BuildTypeOK, Owned
  <2>. QED
    BY <2>1, <2>2, <2>3 DEF BuildInv, BuildTypeOK, Owned
<1>. QED
  BY <1>1, <1>2 DEF BuildInv, BuildTypeOK, Owned, mapVars

LEMMA BuildInvariance == BuildSpec => []BuildInv
<1>1. BuildInv /\ UNCHANGED buildVars => BuildInv'
  BY DEF BuildInv, BuildTypeOK, Owned, buildVars, vsgVars, mapVars
<1>2. BuildInv /\ [BuildNext]_buildVars => BuildInv'
  BY <1>1, CheckStep, LockStep, AllocDescsStep, MapStep, FreeingStep, UnmapOneStep,
     FreeRestStep DEF BuildNext
<1>. QED
  BY <1>2, BuildInvInit, PTL DEF BuildSpec

(***************************************************************************)
(* The theorems.                                                           *)
(***************************************************************************)

(* Every request that is let through and whose lines and strides can be    *)
(* counted in 32 bits is given the pages it touches, whatever its strides  *)
(* and its alignment; and every request the descriptors it needs.          *)
THEOREM PiecesAreLocked == BuildSpec => []PiecesInLockedPages
<1>1. BuildInv => PiecesInLockedPages
  <2>. SUFFICES ASSUME BuildInv PROVE PiecesInLockedPages
    OBVIOUS
  <2>1. ASSUME Mapping, Fits(request)
        PROVE  \A i \in DOMAIN Pieces(xfer) : Pieces(xfer)[i].page \in locked
    <3>1. xfer \in Wanted /\ locked = 0 .. PagesOf(xfer) - 1
      BY <2>1 DEF Mapping, BuildInv, Owned
    <3>2. Countable(xfer)
      BY <2>1, MergedMovesTheSame DEF Mapping, BuildInv
    <3>3. Pieces(xfer) \in Seq(PiecesOf(xfer))
      BY <3>1, TransferCovered
    <3>4. \A i \in DOMAIN Pieces(xfer) : Pieces(xfer)[i] \in PiecesOf(xfer)
      BY <3>3
    <3>. QED
      BY <3>1, <3>2, <3>4 DEF PiecesOf
  <2>2. ASSUME stage \in {"built", "unmap"}
        PROVE  DOMAIN desc_at \subseteq desc_pages \X (0 .. DescPerPage - 1)
    <3>1. /\ DOMAIN desc_at = {Position(i) : i \in 0 .. num_desc - 1}
          /\ desc_pages = 0 .. PagesNeeded(num_desc) - 1 /\ num_desc \in Nat
      BY <2>2 DEF BuildInv, Owned, BuildTypeOK
    <3>2. \A i \in 0 .. num_desc - 1 :
            Position(i) \in (0 .. PagesNeeded(num_desc) - 1) \X (0 .. DescPerPage - 1)
      BY <3>1, PositionInPages
    <3>. QED
      BY <3>1, <3>2
  <2>. QED
    BY <2>1, <2>2 DEF PiecesInLockedPages
<1>. QED
  BY <1>1, BuildInvariance, PTL

(* The descriptors move the bytes the user asked for and no others, each   *)
(* within one page, for every size of a page and every request that is let *)
(* through and can be counted in 32 bits, merged lines or not.             *)
THEOREM DescriptorsAreExact == BuildSpec => []DescriptorsMatchTransfer
<1>1. BuildInv => DescriptorsMatchTransfer
  <2>. SUFFICES ASSUME BuildInv, Mapping, Fits(request) PROVE DescriptorsMatchTransfer
    BY DEF DescriptorsMatchTransfer
  <2>. DEFINE ps == Pieces(xfer)
              moved == UNION {{<<(PFN(xfer.mem_addr) + ps[i].page) * PAGE_SIZE + ps[i].off + b,
                                 (ps[i].fb + b) % U32>>
                                : b \in 0 .. ps[i].len - 1} : i \in DOMAIN ps}
              asked == {<<request.mem_addr + l * request.mem_stride + b,
                          (request.fb_addr + l * request.fb_stride + b) % U32>>
                         : l \in 0 .. request.num_lines - 1,
                           b \in 0 .. request.line_length - 1}
  <2>1. /\ request \in Wanted /\ xfer \in Wanted /\ Allowed(request)
        /\ xfer = MergeLines(request)
    BY DEF Mapping, BuildInv
  <2>2. ps \in Seq(PiecesOf(xfer)) /\ Bytes(xfer, ps) = WholeLines(xfer, xfer.num_lines)
    BY <2>1, TransferCovered
  <2>3. WholeLines(xfer, xfer.num_lines) = WholeLines(request, request.num_lines)
    BY <2>1, MergedMovesTheSame
  <2>4. \A i \in DOMAIN ps : ps[i] \in PiecesOf(xfer)
    BY <2>2
  <2>5. \A i \in DOMAIN ps : ps[i].len > 0 /\ ps[i].off + ps[i].len <= PAGE_SIZE
    BY <2>4 DEF PiecesOf
  <2>6. moved = Bytes(xfer, ps)
    BY DEF Bytes, PieceBytes
  <2>7. asked = WholeLines(request, request.num_lines)
    BY DEF WholeLines
  <2>8. moved = asked
    BY <2>2, <2>3, <2>6, <2>7
  <2>. QED
    BY <2>5, <2>8 DEF DescriptorsMatchTransfer
<1>. QED
  BY <1>1, BuildInvariance, PTL

(* Wherever the build fails, and after the blit, no page stays locked and  *)
(* no page of descriptors allocated.                                       *)
THEOREM NothingIsLeft == BuildSpec => []NoPageLeft
<1>1. BuildInv => NoPageLeft
  BY DEF BuildInv, BuildTypeOK, Owned, NoPageLeft
<1>. QED
  BY <1>1, BuildInvariance, PTL
=============================================================================
