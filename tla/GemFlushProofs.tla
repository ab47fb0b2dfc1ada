--------------------------- MODULE GemFlushProofs ---------------------------
(***************************************************************************)
(* The safety of the flush, for every set of processes, buffers and branch *)
(* buffers and every number of flushes.                                    *)
(*                                                                         *)
(* Whoever wants a buffer looks only at its fence, so that the argument    *)
(* relates fences to what is left in the ring: fences stand in the ring in *)
(* the order of their sequences, each behind its commands (RingOrder), and *)
(* a buffer that commands in the ring work on has a fence that is not      *)
(* smaller, emitted, or the one of the flush that has the buffer reserved  *)
(* (FenceInv).  What the error paths spoil is set apart by the two history *)
(* variables, dropped, stolen and late.                                    *)
(***************************************************************************)
EXTENDS GemFlush, TLAPS, SequenceTheorems

USE FlushAssumption DEF FlushAssumption

Entry == [fence : Fences, kind : {"cmds", "fence"}]

Steps == {"idle", "reserve", "validate", "submit", "pin", "execute", "emit"}

(* The types the argument needs; reference counts play no part in it. *)
Typed ==
  /\ step \in Steps
  /\ flush \in [file : Files \cup {None}, objs : SUBSET Buffers,
                cmd : CmdBuffers \cup {None}]
  /\ IF step = "idle" THEN flush = NoFlush ELSE flush.file /= None
  /\ step \in {"pin", "execute"} => flush.cmd /= None
  /\ todo \subseteq flush.objs
  /\ step \notin {"reserve", "validate"} => todo = {}
  /\ reserved \in [Objects -> Waiters \cup {"flush", None}]
  /\ reservedBy \in [Buffers -> Files \cup {None}]
  /\ syncObj \in [Objects -> Fences \cup {Dma, None}]
  /\ mapped \subseteq CmdBuffers /\ moving \subseteq Buffers /\ stolen \subseteq Buffers
  /\ created \in 0 .. MaxFlushes /\ emited \subseteq 1 .. created
  /\ published \in Nat
  /\ uses \in [Fences -> SUBSET Objects]
  /\ ring \in Seq(Entry)
  /\ waits \in [Waiters -> Objects \cup {None}]

RingOrder ==
  /\ published <= created
  /\ \A i \in DOMAIN ring : published < ring[i].fence /\ ring[i].fence <= created
  /\ \A i, j \in DOMAIN ring : i < j =>
       \/ ring[i].fence < ring[j].fence
       \/ ring[i].fence = ring[j].fence /\ ring[i].kind = "cmds"
  /\ step /= "idle" => published < created /\ created \notin emited
  /\ step = "emit" =>
       /\ \A i \in DOMAIN ring : ring[i].fence = created => ring[i].kind = "cmds"
       /\ uses[created] = flush.objs \cup ({flush.cmd} \ {None})
  /\ step \notin {"idle", "emit"} => \A i \in DOMAIN ring : ring[i].fence < created

(* The targets that the flush has tried to reserve. *)
Reached ==
  {b \in flush.objs : step /= "idle" /\ (step = "reserve" => b \notin todo)}

Reservations ==
  /\ \A b \in Buffers :
       /\ reserved[b] = "flush" => reservedBy[b] /= None
       /\ \/ reservedBy[b] \in Confused \cup {None}
          \/ step /= "idle" /\ reservedBy[b] = flush.file /\ b \in flush.objs
  /\ \A b \in Buffers \ stolen : reservedBy[b] /= None => reserved[b] = "flush"
  /\ \A b \in Reached : reservedBy[b] /= None
  /\ \A w \in Waiters : waits[w] \in Objects \ stolen => reserved[waits[w]] = w

(* The fences in the ring whose commands work on an object. *)
Owing ==
  [b \in Objects |-> {f \in Fences : /\ b \in uses[f]
                                     /\ \E i \in DOMAIN ring :
                                          ring[i].kind = "cmds" /\ ring[i].fence = f}]

(* The objects that the flush has given its own fence. *)
Own ==
  {b \in flush.objs \ todo : step \notin {"idle", "reserve"}}
    \cup {c \in CmdBuffers : step = "emit" /\ c = flush.cmd}

Exempt == dropped \cup stolen \cup Careless

Covered ==
  \A b \in Objects \ Exempt : \A f \in Owing[b] :
    syncObj[b] \in Fences /\ f <= syncObj[b] /\ (syncObj[b] \in emited \/ b \in Own)

OwnFenced == \A b \in Own \ (stolen \cup Careless) : syncObj[b] = created

MovesFenced == \A b \in moving \ (Exempt \cup late) : syncObj[b] = Dma

FenceInv == Covered /\ OwnFenced /\ MovesFenced

BranchInv ==
  /\ flush.cmd \notin Careless \cup {None} =>
       /\ \A w \in Waiters : waits[w] /= flush.cmd
       /\ step \in {"pin", "execute", "emit"} => flush.cmd \in flags \ mapped
  /\ \A c \in CmdBuffers \ Exempt : Owing[c] /= {} => c \in flags \ mapped

IInv == Typed /\ RingOrder /\ Reservations /\ FenceInv /\ BranchInv

USE DEF flushVars, fenceVars, gpuVars, waitVars, Fence

LEMMA InitIInv == Init => IInv
<1> SUFFICES ASSUME Init PROVE IInv
  OBVIOUS
<1>1. Typed
  BY DEF Init, Typed, NoFlush, Steps, Objects
<1>2. RingOrder
  BY DEF Init, RingOrder
<1>3. Reservations
  BY DEF Init, Reservations, Reached, Objects
<1>4. Owing = [b \in Objects |-> {}] /\ Own = {}
  BY DEF Init, Owing, Own
<1>5. FenceInv /\ BranchInv
  <2>1. /\ \A b \in Objects : Owing[b] = {}
        /\ moving = {} /\ flush.cmd = None /\ CmdBuffers \subseteq Objects
    BY <1>4 DEF Init, NoFlush, Objects
  <2>. QED
    BY <1>4, <2>1 DEF FenceInv, Covered, OwnFenced, MovesFenced, BranchInv
<1>. QED
  BY <1>1, <1>2, <1>3, <1>5 DEF IInv
-----------------------------------------------------------------------------
(***************************************************************************)
(* Types.                                                                  *)
(***************************************************************************)
LEMMA FailTyped ==
  ASSUME Typed, NEW seen, NEW also \in SUBSET Buffers, Fail(seen, also),
         UNCHANGED <<mapped, moving, created, emited, gpuVars, waitVars>>
  PROVE  Typed'
BY DEF Fail, UnreserveAll, Mine, Typed, NoFlush, Steps

LEMMA FenceIsFence ==
  ASSUME Typed, RingOrder, step /= "idle"
  PROVE  created \in Fences
BY DEF Typed, RingOrder, Fences

LEMMA HandOverTyped ==
  ASSUME Typed, created \in Fences, HandOver
  PROVE  /\ uses' \in [Fences -> SUBSET Objects]
         /\ ring' \in Seq(Entry)
BY DEF Typed, HandOver, Objects, Entry

LEMMA TypeStep == IInv /\ [Next]_vars => Typed'
<1> SUFFICES ASSUME IInv, [Next]_vars PROVE Typed'
  OBVIOUS
<1>0. Typed /\ RingOrder
  BY DEF IInv
<1>1. ASSUME NEW p \in Files, NEW objs \in SUBSET Buffers, NEW cmd \in CmdBuffers \cup {None},
             BeginFlush(p, objs, cmd)
      PROVE  Typed'
  BY <1>0, <1>1 DEF BeginFlush, Typed, Steps
<1>2. CASE \E b \in Buffers : ReserveNext(b)
  BY <1>0, <1>2 DEF ReserveNext, Typed, Steps, Objects
<1>3. CASE \E b \in Buffers : AddFence(b)
  <2> PICK b \in Buffers : AddFence(b)
    BY <1>3
  <2>1. created \in Fences
    BY <1>0, FenceIsFence DEF AddFence
  <2>2. syncObj' \in [Objects -> Fences \cup {Dma, None}]
    BY <1>0, <2>1 DEF AddFence, Typed
  <2>3. /\ todo' \subseteq flush.objs /\ step' \in {"validate", "submit"}
        /\ step' = "submit" => todo' = {}
    BY <1>0 DEF AddFence, Typed
  <2>. QED
    BY <1>0, <2>2, <2>3 DEF AddFence, Typed, Steps
<1>4. CASE RingFlush
  BY <1>0, <1>4, FenceIsFence, HandOverTyped DEF RingFlush, HandOver, Typed, Steps
<1>5. CASE BranchFlush \/ Pin
  BY <1>0, <1>5 DEF BranchFlush, Pin, Typed, Steps
<1>6. CASE Execute
  BY <1>0, <1>6, FenceIsFence, HandOverTyped DEF Execute, HandOver, Typed, Steps
<1>7. CASE Emit
  <2>1. created \in Fences /\ created \in 1 .. created
    BY <1>0, <1>7, FenceIsFence DEF Emit, Fences
  <2>. QED
    BY <1>0, <1>7, <2>1 DEF Emit, UnreserveAll, Mine, Typed, Steps, NoFlush, Entry
<1>8. CASE FlushFails
  <2>1. CASE LookupFails
    BY <1>0, <2>1 DEF LookupFails, Typed, Steps, NoFlush
  <2>2. ASSUME NEW b \in Buffers, ReserveInterrupted(b) PROVE Typed'
    <3>1. {b} \in SUBSET Buffers
      OBVIOUS
    <3>. QED
      BY <1>0, <2>2, <3>1, FailTyped DEF ReserveInterrupted
  <2>3. CASE (\E b \in Buffers : ValidateFails(b)) \/ SubmitFails \/ PinFails
    <3>1. {} \in SUBSET Buffers
      OBVIOUS
    <3>. QED
      BY <1>0, <2>3, <3>1, FailTyped DEF ValidateFails, SubmitFails, PinFails
  <2>. QED
    BY <1>8, <2>1, <2>2, <2>3 DEF FlushFails
<1>9. CASE \E w \in Waiters : Wait(w)
  <2> PICK w \in Waiters : Wait(w)
    BY <1>9
  <2>1. CASE \E b \in Objects : WaitReserve(w, b)
    BY <1>0, <2>1 DEF WaitReserve, Typed
  <2>2. CASE WaitIdle(w)
    BY <1>0, <2>2 DEF WaitIdle, Idle, Typed
  <2>3. CASE WaitReturns(w)
    BY <1>0, <2>3 DEF WaitReturns, Typed
  <2>. QED
    BY <2>1, <2>2, <2>3 DEF Wait
<1>10. CASE \E c \in CmdBuffers : Fault(c)
  BY <1>0, <1>10 DEF Fault, Idle, Typed
<1>11. CASE \E b \in Buffers : ValidateMove(b) \/ OtherMove(b) \/ DmaDone(b)
  BY <1>0, <1>11, ZenonT(40) DEF ValidateMove, OtherMove, DmaDone, Typed
<1>12. CASE GpuStep
  <2>1. /\ ring' \in Seq(Entry)
        /\ Head(ring).fence \in Fences
    <3>1. ring \in Seq(Entry) /\ ring /= <<>> /\ ring' = Tail(ring)
      BY <1>0, <1>12 DEF GpuStep, Typed
    <3>2. Head(ring) \in Entry /\ Tail(ring) \in Seq(Entry)
      BY <3>1, HeadTailProperties
    <3>. QED
      BY <3>1, <3>2 DEF Entry
  <2>. QED
    BY <1>0, <1>12, <2>1 DEF GpuStep, Typed, Fences
<1>13. CASE UNCHANGED vars
  BY <1>0, <1>13 DEF vars, Typed
<1>. QED
  BY <1>1, <1>2, <1>3, <1>4, <1>5, <1>6, <1>7, <1>8, <1>9, <1>10, <1>11, <1>12, <1>13
     DEF Next, FlushStep
-----------------------------------------------------------------------------
(***************************************************************************)
(* The ring: fences in the order of their sequences, behind their commands.*)
(***************************************************************************)
LEMMA RingKept ==
  ASSUME RingOrder, UNCHANGED <<ring, published, created, emited, uses, flush>>,
         \/ step' = step
         \/ step /= "idle" /\ step /= "emit" /\ step' /= "emit"
  PROVE  RingOrder'
BY DEF RingOrder

LEMMA RingEnds ==
  ASSUME RingOrder, UNCHANGED <<ring, published, created, emited, uses>>, step' = "idle"
  PROVE  RingOrder'
BY DEF RingOrder

LEMMA FlushFailsKeeps ==
  ASSUME FlushFails
  PROVE  /\ UNCHANGED <<ring, published, created, emited, uses, mapped, flags, moving, waits>>
         /\ step' = "idle" /\ flush' = NoFlush
BY DEF FlushFails, ReserveInterrupted, ValidateFails, SubmitFails, LookupFails, PinFails, Fail

LEMMA RingHandOver ==
  ASSUME Typed, RingOrder, HandOver, step \in {"submit", "execute"},
         UNCHANGED <<published, created, emited, flush>>
  PROVE  RingOrder'
<1> DEFINE e == [fence |-> created, kind |-> "cmds"]
<1>1. /\ ring' = Append(ring, e) /\ ring \in Seq(Entry) /\ step' = "emit"
      /\ uses' = [uses EXCEPT ![created] = flush.objs \cup ({flush.cmd} \ {None})]
  BY DEF HandOver, Typed
<1>2. created \in Fences
  BY FenceIsFence
<1>3. /\ DOMAIN ring = 1 .. Len(ring) /\ Len(ring) \in Nat
      /\ DOMAIN ring' = 1 .. Len(ring) + 1
      /\ \A i \in 1 .. Len(ring) : ring'[i] = ring[i]
      /\ ring'[Len(ring) + 1] = e
  BY <1>1, <1>2 DEF Entry
<1>4. \A i \in 1 .. Len(ring) : ring[i] \in Entry /\ ring[i].fence < created
  BY <1>1, <1>3 DEF RingOrder
<1>5. published < created /\ created \notin emited
  BY DEF RingOrder
<1>6. uses'[created] = flush.objs \cup ({flush.cmd} \ {None})
  BY <1>1, <1>2 DEF Typed
<1>7. \A i \in DOMAIN ring' : published < ring'[i].fence /\ ring'[i].fence <= created
  BY <1>3, <1>4, <1>5 DEF RingOrder, Typed
<1>8. \A i, j \in DOMAIN ring' : i < j =>
        \/ ring'[i].fence < ring'[j].fence
        \/ ring'[i].fence = ring'[j].fence /\ ring'[i].kind = "cmds"
  BY <1>3, <1>4 DEF RingOrder
<1>9. \A i \in DOMAIN ring' : ring'[i].fence = created => ring'[i].kind = "cmds"
  <2> SUFFICES ASSUME NEW i \in DOMAIN ring', ring'[i].fence = created
               PROVE  ring'[i].kind = "cmds"
    OBVIOUS
  <2>1. CASE i = Len(ring) + 1
    BY <1>3, <2>1
  <2>2. CASE i /= Len(ring) + 1
    <3>1. i \in 1 .. Len(ring)
      BY <1>3, <2>2
    <3>2. ring[i].fence < created /\ ring[i].fence = created /\ created \in Nat
      BY <1>3, <1>4, <3>1 DEF Typed
    <3>. QED
      BY <3>2
  <2>. QED
    BY <2>1, <2>2
<1>. QED
  BY <1>1, <1>5, <1>6, <1>7, <1>8, <1>9 DEF RingOrder

LEMMA RingEmit ==
  ASSUME Typed, RingOrder, Emit
  PROVE  RingOrder'
<1> DEFINE e == [fence |-> created, kind |-> "fence"]
<1>1. /\ ring' = Append(ring, e) /\ ring \in Seq(Entry) /\ step = "emit" /\ step' = "idle"
      /\ UNCHANGED <<published, created>>
  BY DEF Emit, Typed
<1>2. created \in Fences
  BY <1>1, FenceIsFence
<1>3. /\ DOMAIN ring = 1 .. Len(ring) /\ Len(ring) \in Nat
      /\ DOMAIN ring' = 1 .. Len(ring) + 1
      /\ \A i \in 1 .. Len(ring) : ring'[i] = ring[i]
      /\ ring'[Len(ring) + 1] = e
  BY <1>1, <1>2 DEF Entry
<1>4. \A i \in 1 .. Len(ring) :
        /\ ring[i] \in Entry /\ ring[i].fence <= created
        /\ ring[i].fence = created => ring[i].kind = "cmds"
  BY <1>1, <1>3 DEF RingOrder
<1>5. \A i \in DOMAIN ring' : published < ring'[i].fence /\ ring'[i].fence <= created
  BY <1>1, <1>3, <1>4 DEF RingOrder, Typed
<1>6. \A i, j \in DOMAIN ring' : i < j =>
        \/ ring'[i].fence < ring'[j].fence
        \/ ring'[i].fence = ring'[j].fence /\ ring'[i].kind = "cmds"
  <2> SUFFICES ASSUME NEW i \in DOMAIN ring', NEW j \in DOMAIN ring', i < j
               PROVE  \/ ring'[i].fence < ring'[j].fence
                      \/ ring'[i].fence = ring'[j].fence /\ ring'[i].kind = "cmds"
    OBVIOUS
  <2>1. i \in 1 .. Len(ring) /\ ring'[i] = ring[i]
    BY <1>3
  <2>2. CASE j = Len(ring) + 1
    <3>1. ring'[j].fence = created
      BY <1>3, <2>2
    <3>2. ring[i].fence \in Nat /\ created \in Nat /\ ring[i].fence <= created
      BY <1>4, <2>1 DEF Entry, Fences, Typed
    <3>. QED
      BY <1>4, <2>1, <3>1, <3>2
  <2>3. CASE j /= Len(ring) + 1
    <3>1. j \in 1 .. Len(ring) /\ ring'[j] = ring[j]
      BY <1>3, <2>3
    <3>. QED
      BY <1>3, <2>1, <3>1 DEF RingOrder
  <2>. QED
    BY <2>2, <2>3
<1>. QED
  BY <1>1, <1>5, <1>6 DEF RingOrder

(* What is left when the GPU has taken the oldest entry. *)
LEMMA RestOfRing ==
  ASSUME Typed, GpuStep
  PROVE  /\ DOMAIN ring = 1 .. Len(ring) /\ Len(ring) \in Nat \ {0}
         /\ DOMAIN ring' = 1 .. Len(ring) - 1
         /\ \A i \in DOMAIN ring' : ring'[i] = ring[i + 1]
         /\ Head(ring) = ring[1]
         /\ \A i \in DOMAIN ring : ring[i] \in Entry
<1>1. ring \in Seq(Entry) /\ ring /= <<>> /\ ring' = Tail(ring)
  BY DEF GpuStep, Typed
<1>2. /\ Tail(ring) \in Seq(Entry) /\ Len(Tail(ring)) = Len(ring) - 1
      /\ \A i \in 1 .. Len(Tail(ring)) : Tail(ring)[i] = ring[i + 1]
  BY <1>1, HeadTailProperties
<1>3. Head(ring) = ring[1] /\ Len(ring) \in Nat \ {0}
  BY <1>1
<1>. QED
  BY <1>1, <1>2, <1>3

LEMMA RingGpu ==
  ASSUME Typed, RingOrder, GpuStep
  PROVE  RingOrder'
<1>1. /\ DOMAIN ring = 1 .. Len(ring) /\ Len(ring) \in Nat \ {0}
      /\ DOMAIN ring' = 1 .. Len(ring) - 1
      /\ \A i \in DOMAIN ring' : ring'[i] = ring[i + 1]
      /\ \A i \in DOMAIN ring : ring[i] \in Entry
      /\ published' = IF ring[1].kind = "fence" THEN ring[1].fence ELSE published
      /\ UNCHANGED <<step, flush, created, emited, uses>>
  BY RestOfRing DEF GpuStep
<1>2. published \in Nat /\ created \in Nat /\ \A i \in DOMAIN ring : ring[i].fence \in Nat
  BY <1>1 DEF Typed, Entry, Fences
<1>3. \A i \in DOMAIN ring' : i + 1 \in DOMAIN ring /\ 1 < i + 1 /\ 1 \in DOMAIN ring
  BY <1>1
<1>4. \A i \in DOMAIN ring' : published' < ring'[i].fence /\ ring'[i].fence <= created
  BY <1>1, <1>2, <1>3, SMTT(30) DEF RingOrder
<1>5. \A i, j \in DOMAIN ring' : i < j =>
        \/ ring'[i].fence < ring'[j].fence
        \/ ring'[i].fence = ring'[j].fence /\ ring'[i].kind = "cmds"
  BY <1>1, <1>3 DEF RingOrder
<1>6. step /= "idle" => published' < created /\ created \notin emited
  BY <1>1, <1>2 DEF RingOrder
<1>. QED
  BY <1>1, <1>3, <1>4, <1>5, <1>6 DEF RingOrder

LEMMA RingStep == IInv /\ [Next]_vars => RingOrder'
<1> SUFFICES ASSUME IInv, [Next]_vars PROVE RingOrder'
  OBVIOUS
<1>0. Typed /\ RingOrder
  BY DEF IInv
<1>1. CASE \E p \in Files, objs \in SUBSET Buffers, cmd \in CmdBuffers \cup {None} :
             BeginFlush(p, objs, cmd)
  <2>1. /\ created' = created + 1 /\ step' \notin {"idle", "emit"}
        /\ UNCHANGED <<ring, published, emited, uses>>
    BY <1>1 DEF BeginFlush
  <2>2. \A i \in DOMAIN ring : ring[i] \in Entry
    BY <1>0 DEF Typed
  <2>. QED
    BY <1>0, <2>1, <2>2 DEF RingOrder, Typed, Entry, Fences
<1>2. CASE \/ \E b \in Buffers : ReserveNext(b) \/ AddFence(b)
           \/ BranchFlush \/ Pin
  BY <1>0, <1>2, RingKept DEF ReserveNext, AddFence, BranchFlush, Pin
<1>3. CASE RingFlush \/ Execute
  BY <1>0, <1>3, RingHandOver DEF RingFlush, Execute
<1>4. CASE Emit
  BY <1>0, <1>4, RingEmit
<1>5. CASE FlushFails
  BY <1>0, <1>5, FlushFailsKeeps, RingEnds
<1>6. CASE \/ \E w \in Waiters : Wait(w)
           \/ \E c \in CmdBuffers : Fault(c)
           \/ \E b \in Buffers : ValidateMove(b) \/ OtherMove(b) \/ DmaDone(b)
           \/ UNCHANGED vars
  <2>1. UNCHANGED <<ring, published, created, emited, uses, flush, step>>
    BY <1>6 DEF Wait, WaitReserve, WaitIdle, Idle, WaitReturns, Fault, ValidateMove,
                OtherMove, DmaDone, vars
  <2>. QED
    BY <1>0, <2>1, RingKept
<1>7. CASE GpuStep
  BY <1>0, <1>7, RingGpu
<1>. QED
  BY <1>1, <1>2, <1>3, <1>4, <1>5, <1>6, <1>7 DEF Next, FlushStep
-----------------------------------------------------------------------------
(***************************************************************************)
(* Reservations: what a flush has tried to reserve is reserved by some     *)
(* flush, and what a waiter has reserved is not, unless it was stolen.     *)
(***************************************************************************)
LEMMA ReservationsEnd ==
  ASSUME Typed, Reservations, NEW also \in SUBSET Buffers, UnreserveAll(Mine \cup also),
         step' = "idle", UNCHANGED waits
  PROVE  Reservations'
<1> DEFINE bs == Mine \cup also
<1>1. /\ \A b \in Buffers : /\ reserved'[b] = IF b \in bs THEN None ELSE reserved[b]
                            /\ reservedBy'[b] = IF b \in bs THEN None ELSE reservedBy[b]
      /\ \A b \in Objects \ Buffers : reserved'[b] = reserved[b]
      /\ stolen' = stolen \cup {b \in bs : reserved[b] /= "flush"}
      /\ bs \subseteq Buffers
  BY DEF UnreserveAll, Mine, Objects, Typed
<1>2. \A b \in Buffers : reservedBy[b] = flush.file /\ b \in flush.objs => b \in bs
  BY DEF Mine
<1>3. \A b \in Buffers : /\ reserved'[b] = "flush" => reservedBy'[b] /= None
                         /\ reservedBy'[b] \in Confused \cup {None}
  BY <1>1, <1>2 DEF Reservations
<1>4. \A b \in Buffers \ stolen' : reservedBy'[b] /= None => reserved'[b] = "flush"
  BY <1>1 DEF Reservations
<1>5. Reached' = {}
  BY DEF Reached
<1>6. \A w \in Waiters : waits[w] \in Objects \ stolen' => reserved'[waits[w]] = w
  <2> SUFFICES ASSUME NEW w \in Waiters, waits[w] \in Objects \ stolen'
               PROVE  reserved'[waits[w]] = w
    OBVIOUS
  <2>1. reserved[waits[w]] = w /\ w /= "flush"
    BY <1>1 DEF Reservations
  <2>2. waits[w] \notin bs
    BY <1>1, <2>1
  <2>. QED
    BY <1>1, <2>1, <2>2
<1> HIDE DEF bs
<1>. QED
  BY <1>3, <1>4, <1>5, <1>6 DEF Reservations

LEMMA ReserveStep == IInv /\ [Next]_vars => Reservations'
<1> SUFFICES ASSUME IInv, [Next]_vars PROVE Reservations'
  OBVIOUS
<1>0. Typed /\ Reservations
  BY DEF IInv
<1>1. CASE \E p \in Files, objs \in SUBSET Buffers, cmd \in CmdBuffers \cup {None} :
             BeginFlush(p, objs, cmd)
  <2>1. Reached' = {}
    BY <1>1 DEF BeginFlush, Reached
  <2>2. step = "idle" /\ UNCHANGED <<reserved, reservedBy, stolen, waits>>
    BY <1>1 DEF BeginFlush
  <2>. QED
    BY <1>0, <2>1, <2>2 DEF Reservations
<1>2. CASE \E b \in Buffers : ReserveNext(b)
  <2> PICK b \in Buffers : ReserveNext(b)
    BY <1>2
  <2>1. /\ step = "reserve" /\ b \in todo /\ b \in flush.objs /\ flush.file /= None
        /\ step' \in {"reserve", "validate"} /\ UNCHANGED <<flush, stolen, waits>>
        /\ step' = "reserve" => todo' = todo \ {b}
        /\ step' = "validate" => todo = {b}
    BY <1>0 DEF ReserveNext, Typed, NoFlush
  <2>2. Reached' \subseteq Reached \cup {b}
    BY <2>1 DEF Reached
  <2>3. CASE reservedBy[b] = None
    <3>1. /\ reserved[b] = None
          /\ reserved' = [reserved EXCEPT ![b] = "flush"]
          /\ reservedBy' = [reservedBy EXCEPT ![b] = flush.file]
      BY <2>3 DEF ReserveNext, Free
    <3>. QED
      BY <1>0, <2>1, <2>2, <3>1 DEF Reservations, Typed, Objects
  <2>4. CASE reservedBy[b] /= None
    <3>1. UNCHANGED <<reserved, reservedBy>>
      BY <2>4 DEF ReserveNext
    <3>. QED
      BY <1>0, <2>1, <2>2, <2>4, <3>1 DEF Reservations
  <2>. QED
    BY <2>3, <2>4
<1>3. CASE \/ \E b \in Buffers : AddFence(b) \/ ValidateMove(b) \/ OtherMove(b) \/ DmaDone(b)
           \/ RingFlush \/ BranchFlush \/ Pin \/ Execute \/ GpuStep
           \/ \E c \in CmdBuffers : Fault(c)
           \/ \E w \in Waiters : WaitIdle(w)
           \/ UNCHANGED vars
  <2>1. /\ UNCHANGED <<flush, reserved, reservedBy, stolen, waits>>
        /\ \/ UNCHANGED <<step, todo>>
           \/ step \notin {"idle", "reserve"} /\ step' /= "reserve" /\ step' /= "idle"
    BY <1>3 DEF AddFence, ValidateMove, OtherMove, DmaDone, RingFlush, BranchFlush, Pin,
                Execute, HandOver, GpuStep, Fault, Idle, WaitIdle, vars
  <2>2. Reached' = Reached
    BY <2>1 DEF Reached
  <2>. QED
    BY <1>0, <2>1, <2>2 DEF Reservations
<1>4. CASE Emit
  <2>1. UnreserveAll(Mine \cup {}) /\ step' = "idle" /\ UNCHANGED waits
    BY <1>4 DEF Emit
  <2>. QED
    BY <1>0, <2>1, ReservationsEnd
<1>5. CASE LookupFails
  <2>1. /\ Reached' = {} /\ step' = "idle" /\ flush.file \in Confused
        /\ UNCHANGED <<reserved, reservedBy, stolen, waits>>
    BY <1>5 DEF LookupFails, Reached
  <2>. QED
    BY <1>0, <2>1 DEF Reservations
<1>6. CASE FlushFails /\ ~LookupFails
  <2>1. PICK also \in SUBSET Buffers :
          UnreserveAll(Mine \cup also) /\ step' = "idle" /\ UNCHANGED waits
    <3>1. ASSUME NEW b \in Buffers, ReserveInterrupted(b)
          PROVE  UnreserveAll(Mine \cup {b}) /\ step' = "idle" /\ UNCHANGED waits
      BY <3>1 DEF ReserveInterrupted, Fail
    <3>2. ASSUME (\E b \in Buffers : ValidateFails(b)) \/ SubmitFails \/ PinFails
          PROVE  UnreserveAll(Mine \cup {}) /\ step' = "idle" /\ UNCHANGED waits
      BY <3>2 DEF ValidateFails, SubmitFails, PinFails, Fail
    <3>3. \A b \in Buffers : {b} \in SUBSET Buffers
      OBVIOUS
    <3>. QED
      BY <1>6, <3>1, <3>2, <3>3 DEF FlushFails
  <2>. QED
    BY <1>0, <2>1, ReservationsEnd
<1>7. CASE \E w \in Waiters, b \in Objects : WaitReserve(w, b)
  <2> PICK w \in Waiters, b \in Objects : WaitReserve(w, b)
    BY <1>7
  <2>1. /\ reserved[b] = None /\ waits' = [waits EXCEPT ![w] = b]
        /\ reserved' = [reserved EXCEPT ![b] = w]
        /\ UNCHANGED <<step, flush, todo, reservedBy, stolen>>
    BY DEF WaitReserve, Free
  <2>2. Reached' = Reached
    BY <2>1 DEF Reached
  <2>3. \A b1 \in Buffers : reserved'[b1] = "flush" => reservedBy[b1] /= None
    BY <1>0, <2>1 DEF Reservations, Typed
  <2>4. \A b1 \in Buffers \ stolen : reservedBy[b1] /= None => reserved'[b1] = "flush"
    BY <1>0, <2>1 DEF Reservations, Typed
  <2>5. \A v \in Waiters : waits'[v] \in Objects \ stolen => reserved'[waits'[v]] = v
    BY <1>0, <2>1 DEF Reservations, Typed
  <2>. QED
    BY <1>0, <2>1, <2>2, <2>3, <2>4, <2>5 DEF Reservations
<1>8. CASE \E w \in Waiters : WaitReturns(w)
  <2> PICK w \in Waiters : WaitReturns(w)
    BY <1>8
  <2>1. /\ waits[w] \in Objects /\ waits' = [waits EXCEPT ![w] = None]
        /\ reserved' = [reserved EXCEPT ![waits[w]] = None]
        /\ UNCHANGED <<step, flush, todo, reservedBy, stolen>>
    BY <1>0 DEF WaitReturns, Typed
  <2>2. Reached' = Reached
    BY <2>1 DEF Reached
  <2>3. \A b1 \in Buffers : reserved'[b1] = "flush" => reservedBy[b1] /= None
    BY <1>0, <2>1 DEF Reservations, Typed
  <2>4. \A b1 \in Buffers \ stolen : reservedBy[b1] /= None => reserved'[b1] = "flush"
    BY <1>0, <2>1 DEF Reservations, Typed, Objects
  <2>5. \A v \in Waiters : waits'[v] \in Objects \ stolen => reserved'[waits'[v]] = v
    BY <1>0, <2>1 DEF Reservations, Typed
  <2>. QED
    BY <1>0, <2>1, <2>2, <2>3, <2>4, <2>5 DEF Reservations
<1>. QED
  BY <1>1, <1>2, <1>3, <1>4, <1>5, <1>6, <1>7, <1>8 DEF Next, FlushStep, Wait
-----------------------------------------------------------------------------
(***************************************************************************)
(* Fences.                                                                 *)
(***************************************************************************)
LEMMA BusyIsOwing ==
  ASSUME Typed, NEW b \in Objects
  PROVE  Busy(b) <=> Owing[b] /= {}
<1>1. ring \in Seq(Entry)
  BY DEF Typed
<1>2. \A i \in DOMAIN ring : ring[i] \in Entry
  BY <1>1
<1>3. \A i \in DOMAIN ring : ring[i].fence \in Fences
  BY <1>2 DEF Entry
<1>4. Owing[b] = {f \in Fences : /\ b \in uses[f]
                                 /\ \E i \in DOMAIN ring :
                                      ring[i].kind = "cmds" /\ ring[i].fence = f}
  BY DEF Owing
<1>. QED
  BY <1>3, <1>4 DEF Busy

LEMMA OwingInRing ==
  ASSUME Typed, RingOrder, NEW b \in Objects, NEW f \in Owing[b]
  PROVE  f \in Fences /\ published < f /\ f <= created
BY DEF Owing, RingOrder

LEMMA OwingSame == UNCHANGED <<ring, uses>> => Owing' = Owing
BY DEF Owing

LEMMA OwingHandOver ==
  ASSUME Typed, RingOrder, HandOver, step \in {"submit", "execute"}
  PROVE  \A b \in Objects : Owing'[b] =
           IF b \in flush.objs \cup ({flush.cmd} \ {None})
             THEN Owing[b] \cup {created} ELSE Owing[b]
<1> DEFINE e == [fence |-> created, kind |-> "cmds"]
           on == flush.objs \cup ({flush.cmd} \ {None})
<1>1. created \in Fences
  BY FenceIsFence
<1>2. /\ DOMAIN ring = 1 .. Len(ring) /\ Len(ring) \in Nat
      /\ DOMAIN ring' = 1 .. Len(ring) + 1
      /\ \A i \in 1 .. Len(ring) : ring'[i] = ring[i]
      /\ ring'[Len(ring) + 1] = e
  BY <1>1 DEF HandOver, Typed, Entry
<1>3. \A i \in DOMAIN ring : ring[i].fence /= created
  BY DEF RingOrder, Typed
<1>4. \A f \in Fences : uses'[f] = IF f = created THEN on ELSE uses[f]
  BY <1>1 DEF HandOver, Typed
<1>5. ASSUME NEW b \in Objects, NEW f \in Fences
      PROVE  f \in Owing'[b] <=> f \in Owing[b] \/ (f = created /\ b \in on)
  <2>1. CASE f = created
    <3>1. f \notin Owing[b]
      BY <1>3, <2>1 DEF Owing
    <3>2. Len(ring) + 1 \in DOMAIN ring'
      BY <1>2
    <3>. QED
      BY <1>2, <1>4, <2>1, <3>1, <3>2 DEF Owing
  <2>2. CASE f /= created
    <3>1. \A i \in DOMAIN ring' : ring'[i].fence = f => i \in DOMAIN ring
      BY <1>2, <2>2
    <3>2. (\E i \in DOMAIN ring' : ring'[i].kind = "cmds" /\ ring'[i].fence = f)
            <=> \E i \in DOMAIN ring : ring[i].kind = "cmds" /\ ring[i].fence = f
      BY <1>2, <3>1
    <3>. QED
      BY <1>4, <2>2, <3>2 DEF Owing
  <2>. QED
    BY <2>1, <2>2
<1> HIDE DEF on
<1>6. \A b \in Objects : Owing[b] \subseteq Fences /\ Owing'[b] \subseteq Fences
  BY DEF Owing
<1>7. \A b \in Objects : Owing'[b] = IF b \in on THEN Owing[b] \cup {created} ELSE Owing[b]
  BY <1>1, <1>5, <1>6
<1>. QED
  BY <1>7 DEF on

LEMMA OwingEmit ==
  ASSUME Typed, RingOrder, Emit
  PROVE  Owing' = Owing
<1>1. created \in Fences
  BY FenceIsFence DEF Emit
<1>2. /\ DOMAIN ring = 1 .. Len(ring) /\ Len(ring) \in Nat
      /\ DOMAIN ring' = 1 .. Len(ring) + 1
      /\ \A i \in 1 .. Len(ring) : ring'[i] = ring[i]
      /\ ring'[Len(ring) + 1].kind = "fence"
  BY <1>1 DEF Emit, Typed, Entry
<1>3. \A f \in Fences :
        (\E i \in DOMAIN ring' : ring'[i].kind = "cmds" /\ ring'[i].fence = f)
          <=> \E i \in DOMAIN ring : ring[i].kind = "cmds" /\ ring[i].fence = f
  BY <1>2
<1>4. UNCHANGED uses
  BY DEF Emit
<1>. QED
  BY <1>3, <1>4 DEF Owing

LEMMA OwingGpu ==
  ASSUME Typed, GpuStep
  PROVE  \A b \in Objects : Owing'[b] \subseteq Owing[b]
<1>1. /\ DOMAIN ring = 1 .. Len(ring) /\ Len(ring) \in Nat
      /\ DOMAIN ring' = 1 .. Len(ring) - 1
      /\ \A i \in DOMAIN ring' : ring'[i] = ring[i + 1]
      /\ UNCHANGED uses
  BY RestOfRing DEF GpuStep
<1>2. \A i \in DOMAIN ring' : i + 1 \in DOMAIN ring
  BY <1>1
<1>. QED
  BY <1>1, <1>2 DEF Owing
-----------------------------------------------------------------------------
(* An object whose fence has signaled has no commands in the ring. *)
LEMMA SignaledOwesNothing ==
  ASSUME Typed, RingOrder, FenceInv, NEW b \in Objects \ Exempt, b \notin Own, Signaled(b)
  PROVE  Owing[b] = {}
<1> SUFFICES ASSUME NEW f \in Owing[b] PROVE FALSE
  OBVIOUS
<1>1. f \in Fences /\ published < f
  BY OwingInRing
<1>2. syncObj[b] \in Fences /\ f <= syncObj[b] /\ syncObj[b] \in emited
  BY DEF FenceInv, Covered
<1>3. syncObj[b] <= published
  BY <1>2 DEF Signaled
<1>. QED
  BY <1>1, <1>2, <1>3 DEF Fences, Typed

LEMMA OwnIsReserved ==
  ASSUME Typed, Reservations, NEW b \in Own \ stolen, b \in Buffers
  PROVE  reserved[b] = "flush"
<1>1. b \in Reached
  BY DEF Own, Reached
<1>. QED
  BY <1>1 DEF Reservations

LEMMA OwnInFlush == Own \subseteq flush.objs \cup CmdBuffers
BY DEF Own

LEMMA FenceKeptSame ==
  ASSUME FenceInv, Own' = Own, UNCHANGED <<syncObj, created, dropped, stolen, emited>>,
         moving' \ late' \subseteq moving \ late, \A b \in Objects : Owing'[b] \subseteq Owing[b]
  PROVE  FenceInv'
BY DEF FenceInv, Covered, OwnFenced, MovesFenced, Exempt

LEMMA FailFence ==
  ASSUME Typed, FenceInv, NEW seen \in SUBSET Objects, NEW also, Fail(seen, also),
         Own \subseteq seen, UNCHANGED <<ring, uses, emited, moving, created, late>>
  PROVE  FenceInv'
<1>1. Own' = {} /\ Owing' = Owing
  BY OwingSame DEF Fail, Own, NoFlush
<1>2. /\ \A b \in Objects : syncObj'[b] = IF b \in seen THEN None ELSE syncObj[b]
      /\ dropped' = dropped \cup {b \in seen : Busy(b) \/ b \in moving}
      /\ stolen \subseteq stolen'
  BY DEF Fail, UnreserveAll
<1>3. \A b \in seen : b \notin dropped' => Owing[b] = {} /\ b \notin moving
  BY <1>2, BusyIsOwing
<1>4. Covered'
  BY <1>1, <1>2, <1>3 DEF FenceInv, Covered, Exempt
<1>5. MovesFenced'
  BY <1>2, <1>3 DEF FenceInv, MovesFenced, Exempt, Typed, Objects
<1>. QED
  BY <1>1, <1>4, <1>5 DEF FenceInv, OwnFenced

(* An object that is neither busy nor given the flush's fence gets another *)
(* fence than its own, or none.                                            *)
LEMMA FenceReplaced ==
  ASSUME Typed, FenceInv, NEW b \in Objects, NEW f \in {Dma, None},
         syncObj' = [syncObj EXCEPT ![b] = f],
         b \notin Exempt => Owing[b] = {},
         b \notin Own \ (stolen \cup Careless),
         UNCHANGED <<step, flush, todo, ring, uses, emited, created, dropped, stolen, late>>,
         \A m \in moving' \ (Exempt \cup late) : m = b => f = Dma,
         moving' \subseteq moving \cup {b}
  PROVE  FenceInv'
<1>1. Own' = Own /\ Owing' = Owing
  BY OwingSame DEF Own
<1>2. Covered'
  BY <1>1 DEF FenceInv, Covered, Exempt, Typed
<1>3. OwnFenced'
  BY <1>1 DEF FenceInv, OwnFenced, Typed, Own, Objects
<1>4. MovesFenced'
  BY DEF FenceInv, MovesFenced, Exempt, Typed, Objects
<1>. QED
  BY <1>2, <1>3, <1>4 DEF FenceInv

LEMMA FenceAdd ==
  ASSUME Typed, RingOrder, FenceInv, NEW b \in Buffers, AddFence(b)
  PROVE  FenceInv'
<1>1. /\ syncObj' = [syncObj EXCEPT ![b] = created] /\ todo' = todo \ {b}
      /\ step = "validate" /\ b \in todo /\ b \in flush.objs
      /\ step' \in {"validate", "submit"}
      /\ UNCHANGED <<flush, ring, uses, emited, moving, created, dropped, stolen>>
      /\ late \subseteq late' /\ (syncObj[b] = Dma => b \notin moving \ late')
  BY DEF AddFence, MoveOver, Typed
<1>2. Own' = Own \cup {b} /\ Owing' = Owing
  BY <1>1, OwingSame DEF Own
<1>3. created \in Fences
  BY <1>1, FenceIsFence
<1>4. \A f \in Owing[b] : f <= created
  BY OwingInRing DEF Objects
<1>5. Covered'
  BY <1>1, <1>2, <1>3, <1>4 DEF FenceInv, Covered, Exempt, Typed
<1>6. OwnFenced'
  BY <1>1, <1>2 DEF FenceInv, OwnFenced, Typed, Own, Objects
<1>7. MovesFenced'
  BY <1>1 DEF FenceInv, MovesFenced, Exempt, Typed, Objects
<1>. QED
  BY <1>5, <1>6, <1>7 DEF FenceInv

LEMMA FenceRing ==
  ASSUME Typed, RingOrder, FenceInv, RingFlush
  PROVE  FenceInv'
<1>1. /\ step = "submit" /\ step' = "emit" /\ flush.cmd = None /\ HandOver
      /\ UNCHANGED <<flush, todo, syncObj, emited, moving, created, dropped, stolen, late>>
  BY DEF RingFlush, HandOver
<1>2. /\ Own' = Own /\ Own = flush.objs
      /\ \A b \in Objects : Owing'[b] = IF b \in Own THEN Owing[b] \cup {created} ELSE Owing[b]
  <2>1. Own' = Own /\ Own = flush.objs
    BY <1>1 DEF Own, Typed, Objects
  <2>2. {flush.cmd} \ {None} = {}
    BY <1>1
  <2>. QED
    BY <1>1, <2>1, <2>2, OwingHandOver
<1>3. created \in Fences
  BY <1>1, FenceIsFence
<1>4. Covered'
  <2> SUFFICES ASSUME NEW b \in Objects \ Exempt, NEW f \in Owing'[b]
               PROVE  /\ syncObj[b] \in Fences /\ f <= syncObj[b]
                      /\ syncObj[b] \in emited \/ b \in Own
    BY <1>1, <1>2 DEF Covered, Exempt
  <2>1. CASE f \in Owing[b]
    BY <2>1 DEF FenceInv, Covered
  <2>2. CASE f = created /\ b \in Own
    <3>1. syncObj[b] = created /\ created <= created
      BY <1>3, <2>2 DEF FenceInv, OwnFenced, Exempt, Fences
    <3>. QED
      BY <1>3, <2>2, <3>1
  <2>. QED
    BY <1>2, <2>1, <2>2
<1>. QED
  BY <1>1, <1>2, <1>4 DEF FenceInv, OwnFenced, MovesFenced, Exempt

LEMMA FenceExecute ==
  ASSUME Typed, RingOrder, FenceInv, Execute
  PROVE  FenceInv'
<1> DEFINE c == flush.cmd
<1>1. /\ step = "execute" /\ step' = "emit" /\ HandOver /\ c \in CmdBuffers
      /\ syncObj' = [syncObj EXCEPT ![c] = created]
      /\ UNCHANGED <<flush, todo, emited, moving, created, dropped, stolen, late>>
  BY DEF Execute, HandOver, Typed
<1>2. /\ Own' = Own \cup {c} /\ Own = flush.objs
      /\ \A b \in Objects : Owing'[b] = IF b \in Own \cup {c} THEN Owing[b] \cup {created} ELSE Owing[b]
  <2>1. Own = flush.objs /\ Own' = flush.objs \cup {c}
    BY <1>1 DEF Own, Typed
  <2>2. {flush.cmd} \ {None} = {c}
    BY <1>1 DEF Objects
  <2>. QED
    BY <1>1, <2>1, <2>2, OwingHandOver
<1>3. created \in Fences /\ c \in Objects /\ c \notin flush.objs
  BY <1>1, FenceIsFence DEF Objects, Typed
<1>4. \A f \in Owing[c] : f <= created
  BY <1>3, OwingInRing
<1> HIDE DEF c
<1>5. syncObj'[c] = created /\ \A b \in Objects : b /= c => syncObj'[b] = syncObj[b]
  BY <1>1, <1>3 DEF Typed
<1>6. Covered'
  <2> SUFFICES ASSUME NEW b \in Objects \ Exempt, NEW f \in Owing'[b]
               PROVE  /\ syncObj'[b] \in Fences /\ f <= syncObj'[b]
                      /\ syncObj'[b] \in emited \/ b \in Own'
    BY <1>1 DEF Covered, Exempt
  <2>1. CASE b = c
    <3>1. f \in Owing[c] \/ f = created
      BY <1>2, <1>3, <2>1
    <3>2. f <= created
      BY <1>3, <1>4, <3>1 DEF Fences
    <3>. QED
      BY <1>2, <1>3, <1>5, <2>1, <3>2
  <2>2. CASE b /= c
    <3>1. syncObj'[b] = syncObj[b] /\ (f \in Owing[b] \/ (f = created /\ b \in Own))
      BY <1>2, <1>5, <2>2
    <3>2. CASE f \in Owing[b]
      BY <1>2, <3>1, <3>2 DEF FenceInv, Covered
    <3>3. CASE f = created /\ b \in Own
      <4>1. syncObj[b] = created /\ created <= created
        BY <1>3, <3>3 DEF FenceInv, OwnFenced, Exempt, Fences
      <4>. QED
        BY <1>2, <1>3, <3>1, <3>3, <4>1
    <3>. QED
      BY <3>1, <3>2, <3>3
  <2>. QED
    BY <2>1, <2>2
<1>7. OwnFenced'
  BY <1>1, <1>2, <1>3, <1>5 DEF FenceInv, OwnFenced, Typed, Objects
<1>8. MovesFenced'
  BY <1>1, <1>3, <1>5 DEF FenceInv, MovesFenced, Exempt, Typed, Objects
<1>. QED
  BY <1>6, <1>7, <1>8 DEF FenceInv

LEMMA FenceEmit ==
  ASSUME Typed, RingOrder, FenceInv, Emit
  PROVE  FenceInv'
<1>1. /\ step = "emit" /\ todo = {} /\ emited' = emited \cup {created}
      /\ uses[created] = flush.objs \cup ({flush.cmd} \ {None})
      /\ stolen \subseteq stolen' /\ dropped' = dropped \ (uses[created] \ moving)
      /\ UNCHANGED <<syncObj, moving, created, late>>
      /\ step' = "idle" /\ flush' = NoFlush
  BY DEF Emit, UnreserveAll, Typed, RingOrder
<1>2. Own' = {} /\ Own = uses[created] /\ Owing' = Owing
  <2>1. Own' = {}
    BY <1>1 DEF Own, NoFlush
  <2>2. Own = flush.objs \cup {c \in CmdBuffers : c = flush.cmd}
    BY <1>1 DEF Own
  <2>3. flush.cmd \in CmdBuffers \cup {None} /\ None \notin CmdBuffers
    BY DEF Typed, Objects
  <2>. QED
    BY <1>1, <2>1, <2>2, <2>3, OwingEmit
<1>3. created \in Fences
  BY <1>1, FenceIsFence
<1>4. Covered'
  <2> SUFFICES ASSUME NEW b \in Objects \ Exempt', NEW f \in Owing[b]
               PROVE  syncObj[b] \in Fences /\ f <= syncObj[b] /\ syncObj[b] \in emited'
    BY <1>1, <1>2 DEF Covered
  <2>1. CASE b \in Own
    <3>1. syncObj[b] = created
      BY <1>1, <2>1 DEF FenceInv, OwnFenced, Exempt
    <3>. QED
      BY <1>1, <1>3, <3>1, OwingInRing
  <2>2. CASE b \notin Own
    BY <1>1, <1>2, <2>2 DEF FenceInv, Covered, Exempt
  <2>. QED
    BY <2>1, <2>2
<1>5. MovesFenced'
  BY <1>1 DEF FenceInv, MovesFenced, Exempt
<1>. QED
  BY <1>2, <1>4, <1>5 DEF FenceInv, OwnFenced

LEMMA FenceStep == IInv /\ [Next]_vars => FenceInv'
<1> SUFFICES ASSUME IInv, [Next]_vars PROVE FenceInv'
  OBVIOUS
<1>0. Typed /\ RingOrder /\ Reservations /\ FenceInv /\ BranchInv
  BY DEF IInv
<1>1. CASE \E p \in Files, objs \in SUBSET Buffers, cmd \in CmdBuffers \cup {None} :
             BeginFlush(p, objs, cmd)
  <2>1. /\ step = "idle" /\ step' \notin {"idle", "emit"} /\ (step' = "reserve" \/ flush'.objs = {})
        /\ UNCHANGED <<ring, uses, syncObj, dropped, stolen, moving, emited, late>>
    BY <1>1 DEF BeginFlush
  <2>2. Own = {} /\ Own' = {} /\ Owing' = Owing
    BY <1>0, <2>1, OwingSame DEF Own, Typed, NoFlush
  <2>. QED
    BY <1>0, <2>1, <2>2 DEF FenceInv, Covered, OwnFenced, MovesFenced, Exempt
<1>2. CASE \/ \E b \in Buffers : ReserveNext(b)
           \/ BranchFlush \/ Pin
           \/ \E w \in Waiters : WaitReturns(w) \/ \E b \in Objects : WaitReserve(w, b)
           \/ \E b \in Buffers : DmaDone(b)
           \/ UNCHANGED vars
  <2>1. /\ UNCHANGED <<ring, uses, flush, syncObj, created, dropped, stolen, emited>>
        /\ moving' \ late' \subseteq moving \ late
    BY <1>2 DEF ReserveNext, BranchFlush, Pin, WaitReturns, WaitReserve, DmaDone, vars
  <2>2. \/ UNCHANGED <<step, todo>>
        \/ step = "reserve" /\ step' = "reserve"
        \/ step = "reserve" /\ step' = "validate" /\ todo' = flush.objs
        \/ step \in {"submit", "pin"} /\ step' \in {"pin", "execute"} /\ UNCHANGED todo
    BY <1>2 DEF ReserveNext, BranchFlush, Pin, WaitReturns, WaitReserve, DmaDone, vars
  <2>3. Own' = Own
    BY <2>1, <2>2 DEF Own
  <2>. QED
    BY <1>0, <2>1, <2>3, OwingSame, FenceKeptSame
<1>3. CASE GpuStep
  <2>1. Own' = Own
    BY <1>3 DEF GpuStep, Own
  <2>. QED
    BY <1>0, <1>3, <2>1, OwingGpu, FenceKeptSame DEF GpuStep
<1>4. CASE (\E b \in Buffers : AddFence(b)) \/ RingFlush \/ Execute \/ Emit
  BY <1>0, <1>4, FenceAdd, FenceRing, FenceExecute, FenceEmit
<1>5. CASE LookupFails
  <2>1. /\ step = "submit" /\ Own' = {} /\ Owing' = Owing
        /\ dropped' = dropped \cup {b \in flush.objs : Busy(b)}
        /\ UNCHANGED <<syncObj, created, stolen, emited, moving, late>>
    BY <1>5, OwingSame DEF LookupFails, Own, NoFlush
  <2>2. Own \subseteq flush.objs /\ flush.objs \subseteq Objects
    BY <1>0, <2>1 DEF Own, Typed, Objects
  <2>3. \A b \in Own \ dropped' : Owing[b] = {}
    BY <1>0, <2>1, <2>2, BusyIsOwing
  <2>. QED
    BY <1>0, <2>1, <2>2, <2>3 DEF FenceInv, Covered, OwnFenced, MovesFenced, Exempt
<1>6. CASE FlushFails /\ ~LookupFails
  <2>0. flush.objs \in SUBSET Buffers /\ Buffers \subseteq Objects
    BY <1>0 DEF Typed, Objects
  <2>1. ASSUME NEW b \in Buffers, ReserveInterrupted(b) PROVE FenceInv'
    <3>1. Own = {} /\ (flush.objs \ todo) \cup {b} \in SUBSET Objects
      BY <2>0, <2>1 DEF ReserveInterrupted, Own
    <3>. QED
      BY <1>0, <2>1, <3>1, FailFence DEF ReserveInterrupted
  <2>2. ASSUME NEW b \in Buffers, ValidateFails(b) PROVE FenceInv'
    <3>1. Own \subseteq flush.objs /\ flush.objs \in SUBSET Objects
      BY <2>0, <2>2 DEF ValidateFails, Own
    <3>. QED
      BY <1>0, <2>2, <3>1, FailFence DEF ValidateFails
  <2>3. ASSUME SubmitFails PROVE FenceInv'
    <3>1. Own \subseteq flush.objs /\ flush.objs \in SUBSET Objects
      BY <2>0, <2>3 DEF SubmitFails, Own
    <3>. QED
      BY <1>0, <2>3, <3>1, FailFence DEF SubmitFails
  <2>4. ASSUME PinFails PROVE FenceInv'
    <3>1. flush.cmd \in CmdBuffers
      BY <1>0, <2>4 DEF PinFails, Typed
    <3>2. Own \subseteq flush.objs \cup {flush.cmd} /\ flush.objs \cup {flush.cmd} \in SUBSET Objects
      BY <2>0, <3>1 DEF Own, Objects
    <3>. QED
      BY <1>0, <2>4, <3>2, FailFence DEF PinFails
  <2>. QED
    BY <1>6, <2>1, <2>2, <2>3, <2>4 DEF FlushFails
<1>7. ASSUME NEW w \in Waiters, WaitIdle(w) PROVE FenceInv'
  <2> DEFINE b == waits[w]
  <2>1. /\ b \in Objects /\ Signaled(b) /\ syncObj' = [syncObj EXCEPT ![b] = None]
        /\ step /= "emit"
        /\ UNCHANGED <<step, flush, todo, ring, uses, emited, created, dropped, stolen, moving, late>>
    BY <1>0, <1>7 DEF WaitIdle, Idle, Typed, LockIsFree
  <2>2. b \notin Own \ stolen
    <3> SUFFICES ASSUME b \in Own \ stolen PROVE FALSE
      OBVIOUS
    <3>1. b \in Buffers
      BY <1>0, <2>1 DEF Own, Typed
    <3>2. reserved[b] = "flush"
      BY <1>0, <3>1, OwnIsReserved
    <3>3. reserved[b] = w
      BY <1>0, <2>1 DEF Reservations
    <3>. QED
      BY <3>2, <3>3
  <2>3. b \notin Exempt => Owing[b] = {}
    BY <1>0, <2>1, <2>2, SignaledOwesNothing DEF Exempt
  <2>4. \A m \in moving \ (Exempt \cup late) : m /= b
    BY <1>0, <2>1 DEF FenceInv, MovesFenced, Signaled
  <2> HIDE DEF b
  <2>5. \A m \in moving' \ (Exempt \cup late) : m = b => None = Dma
    BY <2>1, <2>4
  <2>. QED
    BY <1>0, <2>1, <2>2, <2>3, <2>5, FenceReplaced
<1>8. ASSUME NEW c \in CmdBuffers, Fault(c) PROVE FenceInv'
  <2>1. /\ c \in Objects /\ MayUse(c) /\ c \notin moving
        /\ UNCHANGED <<step, flush, todo, ring, uses, emited, created, dropped, stolen, moving, late>>
    BY <1>0, <1>8 DEF Fault, Idle, Typed, Objects
  <2>2. CASE c \in flags
    <3>1. Signaled(c) /\ syncObj' = [syncObj EXCEPT ![c] = None]
      BY <1>8, <2>2 DEF Fault, Idle
    <3>2. c \notin Own \ Careless
      BY <1>0, <2>1 DEF Own, MayUse, Typed
    <3>3. c \notin Exempt => Owing[c] = {}
      BY <1>0, <2>1, <3>1, <3>2, SignaledOwesNothing DEF Exempt
    <3>4. \A m \in moving' \ (Exempt \cup late) : m = c => None = Dma
      BY <2>1
    <3>. QED
      BY <1>0, <2>1, <3>1, <3>2, <3>3, <3>4, FenceReplaced
  <2>3. CASE c \notin flags
    <3>1. UNCHANGED syncObj /\ Own' = Own
      BY <1>8, <2>1, <2>3 DEF Fault, Own
    <3>. QED
      BY <1>0, <2>1, <3>1, OwingSame, FenceKeptSame
  <2>. QED
    BY <2>2, <2>3
<1>9. ASSUME NEW b \in Buffers, ValidateMove(b) \/ OtherMove(b) PROVE FenceInv'
  <2>1. /\ b \in Objects /\ Signaled(b) /\ syncObj' = [syncObj EXCEPT ![b] = Dma]
        /\ moving' = moving \cup {b}
        /\ UNCHANGED <<step, flush, todo, ring, uses, emited, created, dropped, stolen, late>>
    BY <1>9 DEF ValidateMove, OtherMove, Objects
  <2>2. b \notin Own \ stolen
    <3>1. CASE ValidateMove(b)
      BY <1>0, <3>1 DEF ValidateMove, Own, Typed
    <3>2. CASE OtherMove(b)
      BY <1>0, <3>2, OwnIsReserved DEF OtherMove, Free
    <3>. QED
      BY <1>9, <3>1, <3>2
  <2>3. b \notin Exempt => Owing[b] = {}
    BY <1>0, <2>1, <2>2, SignaledOwesNothing DEF Exempt
  <2>. QED
    BY <1>0, <2>1, <2>2, <2>3, FenceReplaced
<1>. QED
  BY <1>1, <1>2, <1>3, <1>4, <1>5, <1>6, <1>7, <1>8, <1>9 DEF Next, FlushStep, Wait
-----------------------------------------------------------------------------
(***************************************************************************)
(* Branch buffers.                                                         *)
(***************************************************************************)
LEMMA BranchKept ==
  ASSUME BranchInv, UNCHANGED <<flags, mapped, waits, flush, stolen>>,
         dropped \subseteq dropped', \A c \in CmdBuffers : Owing'[c] \subseteq Owing[c],
         \/ step' = step
         \/ step' \notin {"pin", "execute", "emit"}
         \/ step \in {"pin", "execute"}
  PROVE  BranchInv'
BY DEF BranchInv, Exempt

LEMMA BranchEnds ==
  ASSUME BranchInv, UNCHANGED <<flags, mapped, ring, uses>>, flush' = NoFlush,
         dropped \subseteq dropped', stolen \subseteq stolen'
  PROVE  BranchInv'
<1>1. flush'.cmd = None /\ Owing' = Owing
  BY OwingSame DEF NoFlush
<1>. QED
  BY <1>1 DEF BranchInv, Exempt

(* A process that leaves the branch buffer of the flush alone maps another *)
(* one only when nothing is left to be executed in it.                     *)
LEMMA BranchIdle ==
  ASSUME Typed, RingOrder, FenceInv, BranchInv, NEW b \in Objects, Idle(b),
         b = flush.cmd => b \in Careless, b \in CmdBuffers => b \notin Own,
         mapped' = mapped \/ mapped' = mapped \cup {b},
         UNCHANGED <<step, flush, waits, ring, uses, dropped, stolen>>
  PROVE  BranchInv'
<1>1. Signaled(b) /\ flags' = flags \ {b} /\ Owing' = Owing
  BY OwingSame DEF Idle
<1>2. b \in CmdBuffers \ Exempt => Owing[b] = {}
  BY <1>1, SignaledOwesNothing
<1>. QED
  BY <1>1, <1>2 DEF BranchInv, Exempt

LEMMA BranchStep == IInv /\ [Next]_vars => BranchInv'
<1> SUFFICES ASSUME IInv, [Next]_vars PROVE BranchInv'
  OBVIOUS
<1>0. Typed /\ RingOrder /\ FenceInv /\ BranchInv /\ CmdBuffers \subseteq Objects
  BY DEF IInv, Objects
<1>1. ASSUME NEW p \in Files, NEW objs \in SUBSET Buffers, NEW cmd \in CmdBuffers \cup {None},
             BeginFlush(p, objs, cmd)
      PROVE  BranchInv'
  <2>1. /\ flush'.cmd = cmd /\ step' \in {"submit", "reserve"} /\ Owing' = Owing
        /\ \A w \in Waiters : waits[w] = cmd => cmd \in {None} \cup Careless
        /\ UNCHANGED <<flags, mapped, waits, dropped, stolen>>
    BY <1>1, OwingSame DEF BeginFlush
  <2>. QED
    BY <1>0, <2>1 DEF BranchInv, Exempt
<1>2. CASE \/ \E b \in Buffers : ReserveNext(b) \/ AddFence(b) \/ ValidateMove(b)
                                   \/ OtherMove(b) \/ DmaDone(b)
           \/ Pin \/ UNCHANGED vars
  <2>1. UNCHANGED <<flags, mapped, waits, flush, stolen, dropped, ring, uses>>
    BY <1>2 DEF ReserveNext, AddFence, ValidateMove, OtherMove, DmaDone, Pin, vars
  <2>2. step' = step \/ step' \in {"reserve", "validate", "submit"} \/ step = "pin"
    BY <1>2 DEF ReserveNext, AddFence, ValidateMove, OtherMove, DmaDone, Pin, vars
  <2>. QED
    BY <1>0, <2>1, <2>2, OwingSame, BranchKept
<1>3. CASE RingFlush
  <2>1. /\ flush.cmd = None /\ HandOver /\ step = "submit"
        /\ UNCHANGED <<flags, mapped, waits, flush, stolen, dropped>>
    BY <1>3 DEF RingFlush, HandOver
  <2>2. \A c \in CmdBuffers : Owing'[c] = Owing[c]
    <3>1. \A c \in CmdBuffers : c \notin flush.objs \cup ({flush.cmd} \ {None})
      BY <1>0, <2>1 DEF Typed
    <3>. QED
      BY <1>0, <2>1, <3>1, OwingHandOver
  <2>. QED
    BY <1>0, <2>1, <2>2 DEF BranchInv, Exempt
<1>4. CASE BranchFlush
  <2>1. /\ flush.cmd \in CmdBuffers /\ Owing' = Owing
        /\ flags' = flags \cup {flush.cmd} /\ mapped' = mapped \ {flush.cmd}
        /\ UNCHANGED <<waits, flush, stolen, dropped>>
    BY <1>0, <1>4, OwingSame DEF BranchFlush, Typed
  <2>. QED
    BY <1>0, <2>1 DEF BranchInv, Exempt
<1>5. CASE Execute
  <2>1. /\ flush.cmd \in CmdBuffers /\ HandOver /\ step = "execute"
        /\ UNCHANGED <<flags, mapped, waits, flush, stolen, dropped>>
    BY <1>0, <1>5 DEF Execute, HandOver, Typed
  <2>2. \A c \in CmdBuffers : c /= flush.cmd => Owing'[c] = Owing[c]
    <3>1. \A c \in CmdBuffers : c /= flush.cmd => c \notin flush.objs \cup ({flush.cmd} \ {None})
      BY <1>0, <2>1 DEF Typed
    <3>. QED
      BY <1>0, <2>1, <3>1, OwingHandOver
  <2>3. flush.cmd \notin Careless => flush.cmd \in flags \ mapped
    BY <1>0, <2>1 DEF BranchInv, Objects
  <2>. QED
    BY <1>0, <2>1, <2>2, <2>3 DEF BranchInv, Exempt
<1>6. CASE Emit
  <2>1. /\ step = "emit" /\ flush'.cmd = None /\ Owing' = Owing
        /\ uses[created] = flush.objs \cup ({flush.cmd} \ {None})
        /\ dropped' = dropped \ (uses[created] \ moving) /\ stolen \subseteq stolen'
        /\ UNCHANGED <<flags, mapped, waits>>
    BY <1>0, <1>6, OwingEmit DEF Emit, UnreserveAll, NoFlush, RingOrder
  <2>2. \A c \in CmdBuffers : c \in uses[created] => c = flush.cmd /\ c /= None
    BY <1>0, <2>1 DEF Typed
  <2>3. \A c \in CmdBuffers \ Exempt' : c \notin Exempt \/ c \in flags \ mapped
    BY <1>0, <2>1, <2>2 DEF BranchInv, Exempt
  <2>. QED
    BY <1>0, <2>1, <2>3 DEF BranchInv
<1>7. CASE FlushFails
  <2>1. dropped \subseteq dropped' /\ stolen \subseteq stolen'
    BY <1>7 DEF FlushFails, ReserveInterrupted, ValidateFails, SubmitFails, LookupFails,
                PinFails, Fail, UnreserveAll
  <2>. QED
    BY <1>0, <1>7, <2>1, FlushFailsKeeps, BranchEnds
<1>8. ASSUME NEW w \in Waiters, NEW b \in Objects, WaitReserve(w, b) PROVE BranchInv'
  <2>1. /\ waits' = [waits EXCEPT ![w] = b] /\ (b = flush.cmd => b \in Careless)
        /\ Owing' = Owing
        /\ UNCHANGED <<flags, mapped, flush, step, stolen, dropped>>
    BY <1>8, OwingSame DEF WaitReserve, MayUse
  <2>. QED
    BY <1>0, <2>1 DEF BranchInv, Exempt, Typed
<1>9. ASSUME NEW w \in Waiters, WaitReturns(w) PROVE BranchInv'
  <2>1. /\ waits' = [waits EXCEPT ![w] = None] /\ Owing' = Owing
        /\ UNCHANGED <<flags, mapped, flush, step, stolen, dropped>>
    BY <1>9, OwingSame DEF WaitReturns
  <2>. QED
    BY <1>0, <2>1 DEF BranchInv, Exempt, Typed
<1>10. ASSUME NEW w \in Waiters, WaitIdle(w) PROVE BranchInv'
  <2>1. /\ waits[w] \in Objects /\ Idle(waits[w]) /\ step /= "emit"
        /\ UNCHANGED <<mapped, step, flush, waits, ring, uses, dropped, stolen>>
    BY <1>0, <1>10 DEF WaitIdle, Typed, LockIsFree
  <2>2. waits[w] = flush.cmd => waits[w] \in Careless
    BY <1>0, <2>1 DEF BranchInv
  <2>3. waits[w] \in CmdBuffers => waits[w] \notin Own
    BY <1>0, <2>1 DEF Own, Typed
  <2>. QED
    BY <1>0, <2>1, <2>2, <2>3, BranchIdle
<1>11. ASSUME NEW c \in CmdBuffers, Fault(c) PROVE BranchInv'
  <2>1. /\ c = flush.cmd => c \in Careless
        /\ mapped' = mapped \cup {c}
        /\ UNCHANGED <<step, flush, waits, ring, uses, dropped, stolen>>
    BY <1>11 DEF Fault, MayUse
  <2>2. CASE c \in flags
    <3>1. Idle(c)
      BY <1>11, <2>2 DEF Fault
    <3>2. CASE c = flush.cmd
      <4>1. flags' = flags \ {c} /\ Owing' = Owing
        BY <2>1, <3>1, OwingSame DEF Idle
      <4>. QED
        BY <1>0, <2>1, <3>2, <4>1 DEF BranchInv, Exempt
    <3>3. CASE c /= flush.cmd
      <4>1. c \notin Own
        BY <1>0, <3>3 DEF Own, Typed
      <4>. QED
        BY <1>0, <2>1, <3>1, <4>1, BranchIdle
    <3>. QED
      BY <3>2, <3>3
  <2>3. CASE c \notin flags
    <3>1. UNCHANGED flags /\ Owing' = Owing
      BY <1>11, <2>1, <2>3, OwingSame DEF Fault
    <3>. QED
      BY <1>0, <2>1, <2>3, <3>1 DEF BranchInv, Exempt
  <2>. QED
    BY <2>2, <2>3
<1>12. CASE GpuStep
  BY <1>0, <1>12, OwingGpu, BranchKept DEF GpuStep
<1>. QED
  BY <1>1, <1>2, <1>3, <1>4, <1>5, <1>6, <1>7, <1>8, <1>9, <1>10, <1>11, <1>12
     DEF Next, FlushStep, Wait
-----------------------------------------------------------------------------
(***************************************************************************)
(* The results.                                                            *)
(***************************************************************************)

(* The strengthened invariant holds of every state of the flush. *)
THEOREM Invariance == Spec => []IInv
<1>1. IInv /\ [Next]_vars => IInv'
  BY TypeStep, RingStep, ReserveStep, FenceStep, BranchStep DEF IInv
<1>. QED
  BY InitIInv, <1>1, PTL DEF Spec

(* A buffer with commands in the ring that nobody has reserved has an      *)
(* emitted fence that signals after all of them, unless an error path has  *)
(* taken it away.                                                          *)
THEOREM FencesKept == Spec => []FenceKept
<1>1. IInv => FenceKept
  <2> SUFFICES ASSUME IInv, NEW b \in Buffers \ (dropped \cup stolen), reserved[b] = None,
                      NEW i \in DOMAIN ring, ring[i].kind = "cmds", b \in uses[ring[i].fence]
               PROVE  syncObj[b] \in emited /\ syncObj[b] >= ring[i].fence
    BY DEF FenceKept
  <2>1. Typed /\ Reservations /\ FenceInv /\ b \in Objects /\ b \notin Exempt
    BY DEF IInv, Objects, Exempt
  <2>2. ring[i] \in Entry
    BY <2>1 DEF Typed
  <2>3. ring[i].fence \in Owing[b]
    BY <2>1, <2>2 DEF Owing, Entry
  <2>4. b \notin Own
    BY <2>1, OwnIsReserved
  <2>5. syncObj[b] \in Fences /\ ring[i].fence <= syncObj[b] /\ syncObj[b] \in emited
    BY <2>1, <2>3, <2>4 DEF FenceInv, Covered
  <2>. QED
    BY <2>2, <2>5 DEF Entry, Fences
<1>. QED
  BY Invariance, <1>1, PTL

(* The DMA engine moves no buffer that the GPU works on, unless a flush    *)
(* has given up waiting for the move.                                      *)
THEOREM NoMoveUnderGpu == Spec => []NothingMovesBusy
<1>1. IInv => NothingMovesBusy
  <2> SUFFICES ASSUME IInv, NEW b \in moving, b \notin dropped \cup stolen \cup late, Busy(b)
               PROVE  FALSE
    BY DEF NothingMovesBusy
  <2>1. Typed /\ FenceInv /\ b \in Objects /\ b \notin Exempt \cup late
    BY DEF IInv, Typed, Objects, Exempt
  <2>2. Owing[b] /= {}
    BY <2>1, BusyIsOwing
  <2>. QED
    BY <2>1, <2>2 DEF FenceInv, Covered, MovesFenced
<1>. QED
  BY Invariance, <1>1, PTL

(* Between flushes nothing is left reserved, except by the flush that did  *)
(* not find its branch buffer.                                             *)
THEOREM NothingLeftReserved == Spec => []ReservationsReturned
<1>1. IInv => ReservationsReturned
  BY DEF IInv, Reservations, ReservationsReturned
<1>. QED
  BY Invariance, <1>1, PTL

(* Whoever leaves its branch buffer alone during the flush never has it    *)
(* mapped while the GPU executes it.                                       *)
THEOREM CommandsLeftAlone == Spec => []CommandsUntouched
<1>1. IInv => CommandsUntouched
  <2> SUFFICES ASSUME IInv, NEW c \in mapped \ (Careless \cup dropped), Busy(c)
               PROVE  FALSE
    BY DEF CommandsUntouched
  <2>1. c \in CmdBuffers /\ c \in Objects /\ c \notin stolen
    BY DEF IInv, Typed, Objects
  <2>2. Owing[c] /= {}
    BY <2>1, BusyIsOwing DEF IInv
  <2>. QED
    BY <2>1, <2>2 DEF IInv, BranchInv, Exempt
<1>. QED
  BY Invariance, <1>1, PTL
=============================================================================
