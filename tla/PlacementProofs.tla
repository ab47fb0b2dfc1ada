-------------------------- MODULE PlacementProofs ---------------------------
(***************************************************************************)
(* That a pinned buffer stays, for any number of buffers and processes, any *)
(* room and any domains.                                                   *)
(*                                                                         *)
(* PinnedStays alone is not inductive: a call that is under way will write *)
(* where its buffer is, and an eviction where its victim is.  Both have    *)
(* reserved the buffer, a buffer in a call is no longer counted as pinned  *)
(* (the call asks for another placement), a victim never was, and nobody   *)
(* else writes a reserved buffer or its list.                              *)
(*                                                                         *)
(* That an unpin moves nothing rests on what the list of a buffer says     *)
(* when nobody has it reserved: where the buffer is, unless its last move  *)
(* was refused (Follows).                                                  *)
(***************************************************************************)
EXTENDS Placement, SequenceTheorems, WellFoundedInduction, TLAPS

DomainInv ==
  /\ DOMAIN mem = Objects /\ DOMAIN keep = Objects /\ DOMAIN list = Objects
  /\ DOMAIN busyList = Objects /\ DOMAIN reserved = Objects
  /\ DOMAIN pinnedAt = Objects /\ DOMAIN call = Procs

(* The buffer of p's call. *)
MineInv(p) == call[p].pc # "idle" /\ call[p].op # "evict" =>
  /\ call[p].obj \in Objects /\ reserved[call[p].obj] = p
  /\ pinnedAt[call[p].obj] = None
  /\ call[p].op = "pin" => \A i \in DOMAIN list[call[p].obj] :
                             list[call[p].obj][i].keep = TRUE

EvictVramInv(p) == call[p].op = "evict" => call[p].obj = None /\ call[p].pc # "validate"

VictimInv(p) == IF call[p].pc = "evict"
  THEN /\ call[p].victim \in Objects /\ reserved[call[p].victim] = p
       /\ pinnedAt[call[p].victim] = None /\ call[p].victim # call[p].obj
  ELSE call[p].victim = None

CallInv(p) ==
  /\ call[p].pc \in {"idle", "validate", "force", "evict"}
  /\ MineInv(p) /\ EvictVramInv(p) /\ VictimInv(p)

StaysInv(o) == pinnedAt[o] # None => mem[o] = pinnedAt[o] /\ keep[o] = TRUE

IInv == DomainInv /\ (\A p \in Procs : CallInv(p)) /\ (\A o \in Objects : StaysInv(o))

(* What a call does to other calls: nothing, as long as it leaves alone     *)
(* what they have reserved.                                                *)
LEMMA OthersUnharmed ==
  ASSUME IInv, NEW q \in Procs, call'[q] = call[q],
         \A o \in Objects : reserved[o] = q =>
           /\ reserved'[o] = q /\ pinnedAt'[o] = pinnedAt[o] /\ list'[o] = list[o]
  PROVE  CallInv(q)'
<1>1. CallInv(q)  BY DEF IInv
<1>2. MineInv(q)'  BY <1>1 DEF CallInv, MineInv
<1>3. EvictVramInv(q)'  BY <1>1 DEF CallInv, EvictVramInv
<1>4. VictimInv(q)'  BY <1>1 DEF CallInv, VictimInv
<1> QED  BY <1>1, <1>2, <1>3, <1>4 DEF CallInv

LEMMA InitIInv == Init => IInv
<1> SUFFICES ASSUME Init  PROVE IInv  OBVIOUS
<1>1. DomainInv  BY DEF Init, DomainInv
<1>2. ASSUME NEW p \in Procs  PROVE CallInv(p)
  <2>1. call[p] = Idle  BY DEF Init
  <2> QED  BY <2>1 DEF Idle, CallInv, MineInv, EvictVramInv, VictimInv
<1>3. ASSUME NEW o \in Objects  PROVE StaysInv(o)  BY DEF Init, StaysInv
<1> QED  BY <1>1, <1>2, <1>3 DEF IInv

(* The beginning of every operation on a buffer. *)
LEMMA BeginStep ==
  ASSUME IInv, NEW p \in Procs, NEW o \in Objects, NEW op, NEW newList, NEW newBusy,
         Begin(p, op, o, newList, newBusy), op # "evict",
         op = "pin" => \A i \in DOMAIN newList : newList[i].keep = TRUE
  PROVE  IInv'
<1>1. /\ call' = [call EXCEPT ![p] = [pc |-> "validate", op |-> op, obj |-> o, victim |-> None]]
      /\ reserved[o] = None /\ reserved' = [reserved EXCEPT ![o] = p]
      /\ list' = [list EXCEPT ![o] = newList] /\ busyList' = [busyList EXCEPT ![o] = newBusy]
      /\ pinnedAt' = [pinnedAt EXCEPT ![o] = None] /\ UNCHANGED <<mem, keep>>
  BY DEF Begin
<1>2. DomainInv'  BY <1>1 DEF IInv, DomainInv
<1>3. /\ call'[p] = [pc |-> "validate", op |-> op, obj |-> o, victim |-> None]
      /\ reserved'[o] = p /\ list'[o] = newList /\ pinnedAt'[o] = None
      /\ \A q \in Procs \ {p} : call'[q] = call[q]
      /\ \A x \in Objects \ {o} : /\ reserved'[x] = reserved[x] /\ list'[x] = list[x]
                                  /\ pinnedAt'[x] = pinnedAt[x]
  BY <1>1 DEF IInv, DomainInv
<1>4. CallInv(p)'
  BY <1>3 DEF CallInv, MineInv, EvictVramInv, VictimInv
<1>5. ASSUME NEW q \in Procs \ {p}  PROVE CallInv(q)'
  BY <1>1, <1>3, OthersUnharmed, NoneAssumption
<1>6. ASSUME NEW x \in Objects  PROVE StaysInv(x)'
  BY <1>1, <1>3 DEF IInv, StaysInv
<1> QED  BY <1>2, <1>4, <1>5, <1>6 DEF IInv

LEMMA CallStep ==
  ASSUME IInv, NEW p \in Procs, Call(p)
  PROVE  IInv'
<1>1. CASE EvictVram(p)
  <2>1. /\ call' = [call EXCEPT ![p] = [pc |-> "force", op |-> "evict", obj |-> None, victim |-> None]]
        /\ UNCHANGED <<mem, keep, list, busyList, reserved, pinnedAt>>
    BY <1>1 DEF EvictVram, objVars, history
  <2>2. DomainInv'  BY <2>1 DEF IInv, DomainInv
  <2>3. CallInv(p)'
    <3>1. call'[p] = [pc |-> "force", op |-> "evict", obj |-> None, victim |-> None]
      BY <2>1 DEF IInv, DomainInv
    <3> QED  BY <3>1 DEF CallInv, MineInv, EvictVramInv, VictimInv
  <2>4. ASSUME NEW q \in Procs \ {p}  PROVE CallInv(q)'
    <3>1. call'[q] = call[q]  BY <2>1 DEF IInv, DomainInv
    <3> QED  BY <2>1, <3>1, OthersUnharmed
  <2>5. ASSUME NEW x \in Objects  PROVE StaysInv(x)'  BY <2>1 DEF IInv, StaysInv
  <2> QED  BY <2>2, <2>3, <2>4, <2>5 DEF IInv
<1>2. ASSUME NEW o \in Objects, NEW d, NEW kept, Create(p, o, d, kept)  PROVE IInv'
  BY <1>2, BeginStep DEF Create
<1>3. ASSUME NEW o \in Objects, NEW d, Pin(p, o, d)  PROVE IInv'
  <2>1. \A i \in DOMAIN PinList(d) : PinList(d)[i].keep = TRUE  BY DEF PinList, ListOf
  <2> QED  BY <1>3, <2>1, BeginStep DEF Pin
<1>4. ASSUME NEW o \in Objects, Unpin(p, o)  PROVE IInv'
  BY <1>4, BeginStep DEF Unpin
<1>5. ASSUME NEW o \in Objects, NEW d, SetDomain(p, o, d) \/ Target(p, o, d)  PROVE IInv'
  BY <1>5, BeginStep DEF SetDomain, Target
<1> QED  BY <1>1, <1>2, <1>3, <1>4, <1>5 DEF Call

(* The end of an operation: the buffer is counted as pinned if the list has *)
(* put it where it is, and then the list has given it NO_EVICT.             *)
LEMMA PlacedStep ==
  ASSUME IInv, NEW p \in Procs, call[p].pc # "idle", call[p].op # "evict",
         call[p].pc # "evict",
         NEW t, NEW kept, NEW free \in BOOLEAN, Placed(p, t, kept, free),
         free /\ call[p].op = "pin" => kept = TRUE
  PROVE  IInv'
<1> DEFINE o == call[p].obj
<1>1. o \in Objects /\ reserved[o] = p /\ pinnedAt[o] = None
  BY DEF IInv, CallInv, MineInv
<1>2. /\ mem' = [mem EXCEPT ![o] = t] /\ keep' = [keep EXCEPT ![o] = kept]
      /\ reserved' = [reserved EXCEPT ![o] = None] /\ call' = [call EXCEPT ![p] = Idle]
      /\ UNCHANGED <<list, busyList>>
      /\ \/ call[p].op = "pin" /\ pinnedAt' = [pinnedAt EXCEPT ![o] = IF free THEN t ELSE None]
         \/ call[p].op # "pin" /\ pinnedAt' = pinnedAt
  BY DEF Placed
<1> HIDE DEF o
<1>3. DomainInv'  BY <1>2 DEF IInv, DomainInv
<1>4. CallInv(p)'
  <2>1. call'[p] = Idle  BY <1>2 DEF IInv, DomainInv
  <2> QED  BY <2>1 DEF Idle, CallInv, MineInv, EvictVramInv, VictimInv
<1>5. ASSUME NEW q \in Procs \ {p}  PROVE CallInv(q)'
  <2>1. call'[q] = call[q]  BY <1>2 DEF IInv, DomainInv
  <2>2. ASSUME NEW x \in Objects, reserved[x] = q
        PROVE  reserved'[x] = q /\ pinnedAt'[x] = pinnedAt[x] /\ list'[x] = list[x]
    <3>1. x # o  BY <1>1, <2>2
    <3> QED  BY <1>1, <1>2, <2>2, <3>1 DEF IInv, DomainInv
  <2> QED  BY <2>1, <2>2, OthersUnharmed
<1>6. ASSUME NEW x \in Objects  PROVE StaysInv(x)'
  <2>1. CASE x = o
    <3>1. mem'[o] = t /\ keep'[o] = kept  BY <1>1, <1>2 DEF IInv, DomainInv
    <3>2. CASE call[p].op = "pin" /\ free
      BY <1>1, <1>2, <2>1, <3>1, <3>2 DEF IInv, DomainInv, StaysInv
    <3>3. CASE ~ (call[p].op = "pin" /\ free)
      <4>1. pinnedAt'[o] = None  BY <1>1, <1>2, <3>3 DEF IInv, DomainInv
      <4> QED  BY <2>1, <4>1 DEF StaysInv
    <3> QED  BY <3>2, <3>3
  <2>2. CASE x # o
    <3>1. mem'[x] = mem[x] /\ keep'[x] = keep[x] /\ pinnedAt'[x] = pinnedAt[x]
      BY <1>1, <1>2, <2>2 DEF IInv, DomainInv
    <3> QED  BY <3>1 DEF IInv, StaysInv
  <2> QED  BY <2>1, <2>2
<1> QED  BY <1>3, <1>4, <1>5, <1>6 DEF IInv

LEMMA EndStep ==
  ASSUME IInv, NEW p \in Procs, Stay(p) \/ Move(p) \/ MoveForced(p)
  PROVE  IInv'
<1> DEFINE o == call[p].obj
<1>1. CASE MoveForced(p)
  BY <1>1, PlacedStep DEF MoveForced
<1>2. CASE Stay(p) \/ Move(p)
  <2>1. \E i \in DOMAIN list[o] : \E t : Placed(p, t, list[o][i].keep, TRUE)
    <3>1. CASE Stay(p)
      <4>1. \A i \in Compatible(o) : i \in DOMAIN list[o]  BY DEF Compatible, First
      <4> QED  BY <3>1, <4>1 DEF Stay
    <3>2. CASE Move(p)
      <4>1. \A i \in Free(o) : i \in DOMAIN list[o]  BY DEF Free, First
      <4> QED  BY <3>2, <4>1 DEF Move
    <3> QED  BY <1>2, <3>1, <3>2
  <2>2. call[p].pc = "validate"  BY <1>2 DEF Stay, Move
  <2>3. call[p].op # "evict"  BY <2>2 DEF IInv, CallInv, EvictVramInv
  <2>4. PICK i \in DOMAIN list[o] : \E t : Placed(p, t, list[o][i].keep, TRUE)  BY <2>1
  <2>5. PICK t : Placed(p, t, list[o][i].keep, TRUE)  BY <2>4
  <2>6. call[p].op = "pin" => list[o][i].keep = TRUE
    BY <2>2, <2>3 DEF IInv, CallInv, MineInv
  <2> QED  BY <2>2, <2>3, <2>5, <2>6, PlacedStep
<1> QED  BY <1>1, <1>2

LEMMA ForceStep ==
  ASSUME IInv, NEW p \in Procs, GoBusy(p)
  PROVE  IInv'
<1>1. /\ call[p].pc = "validate" /\ call' = [call EXCEPT ![p].pc = "force"]
      /\ UNCHANGED <<mem, keep, list, busyList, reserved, pinnedAt>>
  BY DEF GoBusy, objVars, history
<1>2. DomainInv'  BY <1>1 DEF IInv, DomainInv
<1>3. CallInv(p)'
  <2>1. /\ call'[p].pc = "force" /\ call'[p].op = call[p].op
        /\ call'[p].obj = call[p].obj /\ call'[p].victim = call[p].victim
    BY <1>1 DEF IInv, DomainInv
  <2> QED  BY <1>1, <2>1 DEF IInv, CallInv, MineInv, EvictVramInv, VictimInv
<1>4. ASSUME NEW q \in Procs \ {p}  PROVE CallInv(q)'
  <2>1. call'[q] = call[q]  BY <1>1 DEF IInv, DomainInv
  <2> QED  BY <1>1, <2>1, OthersUnharmed
<1>5. ASSUME NEW x \in Objects  PROVE StaysInv(x)'  BY <1>1 DEF IInv, StaysInv
<1> QED  BY <1>2, <1>3, <1>4, <1>5 DEF IInv

(* What may be evicted has not been pinned where there was room. *)
LEMMA VictimsAreNotPinned ==
  ASSUME IInv, NEW t, NEW v \in Victims(t)
  PROVE  v \in Objects /\ reserved[v] = None /\ pinnedAt[v] = None
  BY DEF Victims, IInv, StaysInv

LEMMA EvictFirstStep ==
  ASSUME IInv, NEW p \in Procs, EvictFirst(p)
  PROVE  IInv'
<1>1. PICK v \in Victims("VRAM") :
        /\ reserved' = [reserved EXCEPT ![v] = p]
        /\ call' = [call EXCEPT ![p].pc = "evict", ![p].victim = v]
        /\ EvictFlags(v)
  BY DEF EvictFirst
<1>2. v \in Objects /\ reserved[v] = None /\ pinnedAt[v] = None
  BY VictimsAreNotPinned
<1>3. call[p].pc = "force" /\ UNCHANGED <<mem, keep, pinnedAt>>
  BY DEF EvictFirst, history
<1>4. DomainInv'  BY <1>1, <1>3 DEF IInv, DomainInv, EvictFlags
<1>5. \A x \in Objects \ {v} : reserved'[x] = reserved[x] /\ list'[x] = list[x]
  BY <1>1 DEF IInv, DomainInv, EvictFlags
<1>6. CallInv(p)'
  <2>1. /\ call'[p].pc = "evict" /\ call'[p].op = call[p].op
        /\ call'[p].obj = call[p].obj /\ call'[p].victim = v
    BY <1>1 DEF IInv, DomainInv
  <2>2. reserved'[v] = p  BY <1>1, <1>2 DEF IInv, DomainInv
  <2>3. call[p].obj # v
    <3>1. CASE call[p].op = "evict"
      BY <1>2, <3>1, NoneAssumption DEF IInv, CallInv, EvictVramInv
    <3>2. CASE call[p].op # "evict"
      BY <1>2, <1>3, <3>2, NoneAssumption DEF IInv, CallInv, MineInv
    <3> QED  BY <3>1, <3>2
  <2>4. MineInv(p)'
    BY <1>3, <1>5, <2>1, <2>3 DEF IInv, CallInv, MineInv
  <2>5. EvictVramInv(p)'  BY <2>1 DEF IInv, CallInv, EvictVramInv
  <2>6. VictimInv(p)'  BY <1>2, <1>3, <2>1, <2>2, <2>3 DEF VictimInv
  <2> QED  BY <2>1, <2>4, <2>5, <2>6 DEF CallInv
<1>7. ASSUME NEW q \in Procs \ {p}  PROVE CallInv(q)'
  <2>1. call'[q] = call[q]  BY <1>1 DEF IInv, DomainInv
  <2> QED  BY <1>2, <1>3, <1>5, <2>1, OthersUnharmed, NoneAssumption
<1>8. ASSUME NEW x \in Objects  PROVE StaysInv(x)'  BY <1>3 DEF IInv, StaysInv
<1> QED  BY <1>4, <1>6, <1>7, <1>8 DEF IInv

LEMMA MoveVictimStep ==
  ASSUME IInv, NEW p \in Procs, MoveVictim(p)
  PROVE  IInv'
<1> DEFINE v == call[p].victim
<1>1. /\ call[p].pc = "evict"
      /\ mem' = [mem EXCEPT ![v] = "SYS"] /\ keep' = [keep EXCEPT ![v] = FALSE]
      /\ reserved' = [reserved EXCEPT ![v] = None]
      /\ call' = [call EXCEPT ![p].pc = "force", ![p].victim = None]
      /\ UNCHANGED <<list, busyList, pinnedAt>>
  BY DEF MoveVictim
<1>2. v \in Objects /\ reserved[v] = p /\ pinnedAt[v] = None /\ v # call[p].obj
  BY <1>1 DEF IInv, CallInv, VictimInv
<1> HIDE DEF v
<1>3. DomainInv'  BY <1>1 DEF IInv, DomainInv
<1>4. \A x \in Objects \ {v} :
        reserved'[x] = reserved[x] /\ mem'[x] = mem[x] /\ keep'[x] = keep[x]
  BY <1>1 DEF IInv, DomainInv
<1>5. CallInv(p)'
  <2>1. /\ call'[p].pc = "force" /\ call'[p].op = call[p].op
        /\ call'[p].obj = call[p].obj /\ call'[p].victim = None
    BY <1>1 DEF IInv, DomainInv
  <2>2. EvictVramInv(p)'  BY <2>1 DEF IInv, CallInv, EvictVramInv
  <2>3. MineInv(p)'
    <3>1. ASSUME call[p].op # "evict"  PROVE MineInv(p)'
      <4>1. MineInv(p) /\ call[p].pc # "idle"  BY <1>1 DEF IInv, CallInv
      <4>2. call[p].obj \in Objects \ {v}  BY <1>2, <3>1, <4>1 DEF MineInv
      <4> QED  BY <1>1, <1>4, <2>1, <3>1, <4>1, <4>2 DEF MineInv
    <3> QED  BY <2>1, <3>1 DEF MineInv
  <2>4. VictimInv(p)'  BY <2>1 DEF VictimInv
  <2> QED  BY <2>1, <2>2, <2>3, <2>4 DEF CallInv
<1>6. ASSUME NEW q \in Procs \ {p}  PROVE CallInv(q)'
  <2>1. call'[q] = call[q]  BY <1>1 DEF IInv, DomainInv
  <2> QED  BY <1>1, <1>2, <1>4, <2>1, OthersUnharmed
<1>7. ASSUME NEW x \in Objects  PROVE StaysInv(x)'
  BY <1>1, <1>2, <1>4 DEF IInv, StaysInv
<1> QED  BY <1>3, <1>5, <1>6, <1>7 DEF IInv

LEMMA EvictApertureStep ==
  ASSUME IInv, NEW p \in Procs, EvictAperture(p)
  PROVE  IInv'
<1>1. PICK w \in Victims("TT") :
        /\ mem' = [mem EXCEPT ![w] = "SYS"] /\ keep' = [keep EXCEPT ![w] = FALSE]
        /\ EvictFlags(w)
  BY DEF EvictAperture
<1>2. w \in Objects /\ reserved[w] = None /\ pinnedAt[w] = None
  BY VictimsAreNotPinned
<1>3. UNCHANGED <<reserved, call, pinnedAt>>  BY DEF EvictAperture
<1>4. DomainInv'  BY <1>1, <1>3 DEF IInv, DomainInv, EvictFlags
<1>5. \A x \in Objects \ {w} :
        mem'[x] = mem[x] /\ keep'[x] = keep[x] /\ list'[x] = list[x]
  BY <1>1 DEF IInv, DomainInv, EvictFlags
<1>6. ASSUME NEW q \in Procs  PROVE CallInv(q)'
  BY <1>2, <1>3, <1>5, OthersUnharmed, NoneAssumption
<1>7. ASSUME NEW x \in Objects  PROVE StaysInv(x)'
  BY <1>2, <1>3, <1>5 DEF IInv, StaysInv
<1> QED  BY <1>4, <1>6, <1>7 DEF IInv

(* A call that ends without having moved its buffer. *)
LEMMA GiveUpStep ==
  ASSUME IInv, NEW p \in Procs, Refuse(p) \/ VramEvicted(p)
  PROVE  IInv'
<1>1. call' = [call EXCEPT ![p] = Idle] /\ UNCHANGED <<mem, keep, list, busyList, pinnedAt>>
  BY DEF Refuse, VramEvicted, objVars, history
<1>2. DOMAIN reserved' = Objects  BY DEF IInv, DomainInv, Refuse, VramEvicted
<1>3. DomainInv'  BY <1>1, <1>2 DEF IInv, DomainInv
<1>4. CallInv(p)'
  <2>1. call'[p] = Idle  BY <1>1 DEF IInv, DomainInv
  <2> QED  BY <2>1 DEF Idle, CallInv, MineInv, EvictVramInv, VictimInv
<1>5. ASSUME NEW q \in Procs \ {p}, NEW x \in Objects, reserved[x] = q
      PROVE  reserved'[x] = q
  <2>1. CASE VramEvicted(p)  BY <1>5, <2>1 DEF VramEvicted
  <2>2. CASE Refuse(p)
    <3> DEFINE mine == {call[p].obj, call[p].victim} \ {None}
    <3>1. reserved' = [o \in Objects |-> IF o \in mine THEN None ELSE reserved[o]]
      BY <2>2 DEF Refuse
    <3>2. call[p].pc # "idle"  BY <2>2 DEF Refuse, Stuck, NeedsAperture
    <3>3. x # call[p].victim \/ x = None
      BY <1>5 DEF IInv, CallInv, VictimInv
    <3>4. x # call[p].obj \/ x = None
      <4>1. CASE call[p].op = "evict"  BY <4>1 DEF IInv, CallInv, EvictVramInv
      <4>2. CASE call[p].op # "evict"  BY <1>5, <3>2, <4>2 DEF IInv, CallInv, MineInv
      <4> QED  BY <4>1, <4>2
    <3>5. x \notin mine  BY <3>3, <3>4
    <3> QED  BY <1>5, <3>1, <3>5
  <2> QED  BY <2>1, <2>2
<1>6. ASSUME NEW q \in Procs \ {p}  PROVE CallInv(q)'
  <2>1. call'[q] = call[q]  BY <1>1 DEF IInv, DomainInv
  <2> QED  BY <1>1, <1>5, <2>1, OthersUnharmed
<1>7. ASSUME NEW x \in Objects  PROVE StaysInv(x)'  BY <1>1 DEF IInv, StaysInv
<1> QED  BY <1>3, <1>4, <1>6, <1>7 DEF IInv

LEMMA DestroyStep ==
  ASSUME IInv, NEW o \in Objects, Destroy(o)
  PROVE  IInv'
<1>1. /\ mem' = [mem EXCEPT ![o] = None] /\ keep' = [keep EXCEPT ![o] = FALSE]
      /\ pinnedAt' = [pinnedAt EXCEPT ![o] = None] /\ reserved[o] = None
      /\ UNCHANGED <<list, busyList, reserved, call>>
  BY DEF Destroy
<1>2. DomainInv'  BY <1>1 DEF IInv, DomainInv
<1>3. /\ pinnedAt'[o] = None
      /\ \A x \in Objects \ {o} : /\ pinnedAt'[x] = pinnedAt[x]
                                  /\ mem'[x] = mem[x] /\ keep'[x] = keep[x]
  BY <1>1 DEF IInv, DomainInv
<1>4. ASSUME NEW q \in Procs  PROVE CallInv(q)'
  BY <1>1, <1>3, OthersUnharmed, NoneAssumption
<1>5. ASSUME NEW x \in Objects  PROVE StaysInv(x)'
  BY <1>3 DEF IInv, StaysInv
<1> QED  BY <1>2, <1>4, <1>5 DEF IInv

-----------------------------------------------------------------------------
LEMMA Invariance == Spec => []IInv
<1>1. IInv /\ [Next]_vars => IInv'
  <2> SUFFICES ASSUME IInv, [Next]_vars  PROVE IInv'  OBVIOUS
  <2>1. CASE UNCHANGED vars
    BY <2>1 DEF vars, objVars, history, IInv, DomainInv, CallInv, MineInv, EvictVramInv,
       VictimInv, StaysInv
  <2>2. ASSUME NEW p \in Procs, Call(p)  PROVE IInv'  BY <2>2, CallStep
  <2>3. ASSUME NEW p \in Procs, Validate(p)  PROVE IInv'
    BY <2>3, EndStep, ForceStep, EvictFirstStep, MoveVictimStep, EvictApertureStep, GiveUpStep
    DEF Validate
  <2>4. ASSUME NEW o \in Objects, Destroy(o)  PROVE IInv'  BY <2>4, DestroyStep
  <2> QED  BY <2>1, <2>2, <2>3, <2>4 DEF Next
<1> QED  BY <1>1, InitIInv, PTL DEF Spec

(* A buffer that a pin has placed where there was room stays there with    *)
(* NO_EVICT, whatever the others do, until it is asked to be elsewhere.    *)
THEOREM PinsHold == Spec => []PinnedStays
<1>1. IInv => PinnedStays  BY DEF IInv, StaysInv, PinnedStays
<1> QED  BY <1>1, Invariance, PTL

-----------------------------------------------------------------------------
(***************************************************************************)
(* What the list of a buffer says of the place where it is.                *)
(***************************************************************************)
On(o, t) == \E i \in DOMAIN list[o] : list[o][i].type = t

ListInv(o) ==
  /\ \E n \in Nat : DOMAIN list[o] = 1 .. n
  /\ busyList[o] # <<>> => On(o, "VRAM")

SettledInv(o) == reserved[o] = None /\ mem[o] # None /\ o \notin failed => On(o, mem[o])

(* An unpin that has begun where the list says validates, and does no more. *)
UnpinInv(p) == call[p].op = "unpin" /\ call[p].obj \notin failed =>
  call[p].pc = "validate" /\ On(call[p].obj, mem[call[p].obj])

(* Who makes room in VRAM has VRAM on the list; a victim has system memory. *)
ForcedInv(p) ==
  /\ call[p].pc = "idle" => call[p].op = None
  /\ call[p].pc \in {"force", "evict"} /\ call[p].op # "evict" => On(call[p].obj, "VRAM")
  /\ call[p].pc = "evict" => On(call[p].victim, "SYS")

Follows ==
  /\ \A o \in Objects : ListInv(o) /\ SettledInv(o)
  /\ \A p \in Procs : UnpinInv(p) /\ ForcedInv(p)

LEMMA ListOfFacts ==
  ASSUME NEW d, NEW kept
  PROVE  /\ \E n \in Nat : DOMAIN ListOf(d, kept) = 1 .. n
         /\ "VRAM" \in d => \E i \in DOMAIN ListOf(d, kept) : ListOf(d, kept)[i].type = "VRAM"
         /\ d = {"SYS"} => \E i \in DOMAIN ListOf(d, kept) : ListOf(d, kept)[i].type = "SYS"
<1> DEFINE wanted == IF d \cap Types = {} THEN {"SYS"} ELSE d
           v == IfWanted(wanted, "VRAM")
           t == IfWanted(wanted, "TT")
           s == IfWanted(wanted, "SYS")
           ordered == v \o t \o s
<1>1. v \in Seq(Types) /\ t \in Seq(Types) /\ s \in Seq(Types)
  <2>1. <<>> \in Seq(Types) /\ \A x \in Types : <<x>> \in Seq(Types)  OBVIOUS
  <2>2. "VRAM" \in Types /\ "TT" \in Types /\ "SYS" \in Types  BY DEF Types
  <2> HIDE DEF wanted
  <2> QED  BY <2>1, <2>2 DEF IfWanted
<1>2. /\ "VRAM" \in wanted => Len(v) = 1 /\ v[1] = "VRAM"
      /\ "SYS" \in wanted => Len(s) = 1 /\ s[1] = "SYS"
  BY DEF IfWanted
<1>3. ListOf(d, kept) = [i \in DOMAIN ordered |-> [type |-> ordered[i], keep |-> kept]]
  BY DEF ListOf
<1>4. "VRAM" \in d => "VRAM" \in wanted  BY DEF Types
<1>5. d = {"SYS"} => "SYS" \in wanted  BY DEF Types
<1> HIDE DEF wanted, v, t, s
<1>6. v \o t \in Seq(Types) /\ Len(v \o t) = Len(v) + Len(t)
      /\ \A i \in 1 .. Len(v) + Len(t) : (v \o t)[i] = IF i <= Len(v) THEN v[i] ELSE t[i - Len(v)]
  BY <1>1, ConcatProperties
<1>7. /\ ordered \in Seq(Types) /\ Len(ordered) = Len(v \o t) + Len(s)
      /\ \A i \in 1 .. Len(v \o t) + Len(s) :
           ordered[i] = IF i <= Len(v \o t) THEN (v \o t)[i] ELSE s[i - Len(v \o t)]
  BY <1>1, <1>6, ConcatProperties
<1>8. Len(v) \in Nat /\ Len(t) \in Nat /\ Len(s) \in Nat /\ DOMAIN ordered = 1 .. Len(ordered)
  BY <1>1, <1>7
<1> HIDE DEF ordered
<1>9. "VRAM" \in d => 1 \in DOMAIN ordered /\ ordered[1] = "VRAM"
  <2> SUFFICES ASSUME "VRAM" \in wanted  PROVE 1 \in DOMAIN ordered /\ ordered[1] = "VRAM"
    BY <1>4
  <2>1. Len(v) = 1 /\ v[1] = "VRAM"  BY <1>2
  <2>2. Len(v \o t) >= 1 /\ (v \o t)[1] = "VRAM"  BY <1>6, <1>8, <2>1
  <2> QED  BY <1>6, <1>7, <1>8, <2>1, <2>2
<1>10. "SYS" \in wanted => /\ Len(ordered) \in DOMAIN ordered
                           /\ ordered[Len(ordered)] = "SYS"
  <2> SUFFICES ASSUME "SYS" \in wanted
               PROVE  Len(ordered) \in DOMAIN ordered /\ ordered[Len(ordered)] = "SYS"
    OBVIOUS
  <2> DEFINE n == Len(v \o t)
  <2>1. n \in Nat /\ Len(s) = 1 /\ s[1] = "SYS"  BY <1>2, <1>6, <1>8
  <2>2. Len(ordered) = n + 1  BY <1>7, <2>1
  <2>3. \A i \in 1 .. n + 1 : ordered[i] = IF i <= n THEN (v \o t)[i] ELSE s[i - n]
    BY <1>7, <2>1
  <2> HIDE DEF n
  <2> QED  BY <1>8, <2>1, <2>2, <2>3
<1>11. DOMAIN ListOf(d, kept) = DOMAIN ordered
       /\ \A i \in DOMAIN ordered : ListOf(d, kept)[i].type = ordered[i]
  BY <1>3
<1>12. Len(ordered) \in Nat  BY <1>7
<1> QED  BY <1>5, <1>8, <1>9, <1>10, <1>11, <1>12

(* A list that says where a buffer is has a first entry that says so. *)
LEMMA FirstExists ==
  ASSUME NEW o, ListInv(o), On(o, mem[o])
  PROVE  Compatible(o) # {}
<1> DEFINE S == {i \in DOMAIN list[o] : list[o][i].type = mem[o]}
           R == {ss \in Nat \X Nat : ss[1] < ss[2]}
<1>1. IsWellFoundedOn(R, Nat)  BY NatLessThanWellFounded, Zenon DEF OpToRel
<1>0. PICK n \in Nat : DOMAIN list[o] = 1 .. n  BY DEF ListInv
<1>2. S \subseteq Nat /\ S # {}  BY <1>0 DEF On
<1>3. PICK i \in S : \A j \in S : ~(<<j, i>> \in R)
  <2> HIDE DEF R, S
  <2> QED  BY <1>1, <1>2, WFMin, Zenon
<1>4. \A j \in DOMAIN list[o] : j < i => list[o][j].type # mem[o]
  <2> SUFFICES ASSUME NEW j \in DOMAIN list[o], j < i, list[o][j].type = mem[o]  PROVE FALSE
    OBVIOUS
  <2>1. j \in S /\ j \in Nat /\ i \in Nat  BY <1>2
  <2>2. <<j, i>> \in R  BY <2>1
  <2> QED  BY <1>3, <2>1, <2>2
<1>5. \A j \in 1 .. i - 1 : j \in DOMAIN list[o] /\ j < i  BY <1>0, <1>2
<1>6. i \in Compatible(o)  BY <1>3, <1>4, <1>5 DEF Compatible, First
<1> QED  BY <1>6

(* A step that leaves alone what q has reserved leaves alone q's call. *)
LEMMA OthersFollow ==
  ASSUME IInv, Follows, NEW q \in Procs, call'[q] = call[q],
         \A o \in Objects : reserved[o] = q =>
           list'[o] = list[o] /\ mem'[o] = mem[o] /\ (o \in failed' <=> o \in failed)
  PROVE  UnpinInv(q)' /\ ForcedInv(q)'
<1>1. CallInv(q) /\ UnpinInv(q) /\ ForcedInv(q)  BY DEF IInv, Follows
<1>2. call[q].pc # "idle" /\ call[q].op # "evict" =>
        call[q].obj \in Objects /\ reserved[call[q].obj] = q
  BY <1>1 DEF CallInv, MineInv
<1>3. call[q].pc = "evict" => call[q].victim \in Objects /\ reserved[call[q].victim] = q
  BY <1>1 DEF CallInv, VictimInv
<1>4. UnpinInv(q)'
  <2> SUFFICES ASSUME call[q].op = "unpin", call[q].obj \notin failed'
               PROVE  call[q].pc = "validate" /\ On(call[q].obj, mem[call[q].obj])'
    BY DEF UnpinInv, On
  <2>1. call[q].pc # "idle"  BY <1>1, NoneAssumption DEF ForcedInv, Operations
  <2>2. call[q].obj \notin failed /\ list'[call[q].obj] = list[call[q].obj]
        /\ mem'[call[q].obj] = mem[call[q].obj]
    BY <1>2, <2>1
  <2> QED  BY <1>1, <2>2 DEF UnpinInv, On
<1>5. ForcedInv(q)'
  BY <1>1, <1>2, <1>3 DEF ForcedInv, On
<1> QED  BY <1>4, <1>5

(* So does one that leaves a buffer alone. *)
LEMMA UntouchedFollows ==
  ASSUME Follows, NEW x \in Objects,
         list'[x] = list[x], busyList'[x] = busyList[x], mem'[x] = mem[x],
         reserved'[x] = reserved[x], x \in failed' <=> x \in failed
  PROVE  ListInv(x)' /\ SettledInv(x)'
BY DEF Follows, ListInv, SettledInv, On

LEMMA BeginFollows ==
  ASSUME IInv, Follows, NEW p \in Procs, NEW o \in Objects, NEW op \in Operations,
         NEW newList, NEW newBusy, Begin(p, op, o, newList, newBusy),
         \E n \in Nat : DOMAIN newList = 1 .. n,
         newBusy # <<>> => \E i \in DOMAIN newList : newList[i].type = "VRAM",
         op = "unpin" /\ o \notin failed => \E i \in DOMAIN newList : newList[i].type = mem[o]
  PROVE  Follows'
<1>1. /\ call'[p] = [pc |-> "validate", op |-> op, obj |-> o, victim |-> None]
      /\ reserved[o] = None /\ reserved'[o] = p /\ list'[o] = newList /\ busyList'[o] = newBusy
      /\ \A q \in Procs \ {p} : call'[q] = call[q]
      /\ \A x \in Objects \ {o} : /\ reserved'[x] = reserved[x] /\ list'[x] = list[x]
                                  /\ busyList'[x] = busyList[x]
      /\ UNCHANGED <<mem, failed>>
  BY DEF Begin, IInv, DomainInv
<1>2. ListInv(o)'  BY <1>1 DEF ListInv, On
<1>3. SettledInv(o)'  BY <1>1, NoneAssumption DEF SettledInv
<1>4. ASSUME NEW x \in Objects \ {o}  PROVE ListInv(x)' /\ SettledInv(x)'
  BY <1>1, UntouchedFollows
<1>5. UnpinInv(p)'  BY <1>1 DEF UnpinInv, On
<1>6. ForcedInv(p)'  BY <1>1 DEF ForcedInv
<1>7. ASSUME NEW q \in Procs \ {p}  PROVE UnpinInv(q)' /\ ForcedInv(q)'
  BY <1>1, OthersFollow, NoneAssumption
<1> QED  BY <1>2, <1>3, <1>4, <1>5, <1>6, <1>7 DEF Follows

LEMMA CallFollows ==
  ASSUME IInv, Follows, NEW p \in Procs, Call(p)
  PROVE  Follows'
<1>0. \A d : BusyOf(d) # <<>> => "VRAM" \in d  BY DEF BusyOf
<1>1. CASE EvictVram(p)
  <2>1. /\ call' = [call EXCEPT ![p] = [pc |-> "force", op |-> "evict", obj |-> None, victim |-> None]]
        /\ UNCHANGED <<mem, list, busyList, reserved, failed>>
    BY <1>1 DEF EvictVram, objVars, history
  <2>2. call'[p] = [pc |-> "force", op |-> "evict", obj |-> None, victim |-> None]
    BY <2>1 DEF IInv, DomainInv
  <2>3. UnpinInv(p)' /\ ForcedInv(p)'  BY <2>2 DEF UnpinInv, ForcedInv
  <2>4. ASSUME NEW q \in Procs \ {p}  PROVE UnpinInv(q)' /\ ForcedInv(q)'
    <3>1. call'[q] = call[q]  BY <2>1 DEF IInv, DomainInv
    <3> QED  BY <2>1, <3>1, OthersFollow
  <2>5. ASSUME NEW x \in Objects  PROVE ListInv(x)' /\ SettledInv(x)'
    BY <2>1, UntouchedFollows
  <2> QED  BY <2>3, <2>4, <2>5 DEF Follows
<1>2. ASSUME NEW o \in Objects, NEW d, NEW kept, Create(p, o, d, kept)  PROVE Follows'
  <2>1. Begin(p, "create", o, ListOf(d, kept), BusyOf(d))  BY <1>2 DEF Create
  <2> QED  BY <1>0, <2>1, ListOfFacts, BeginFollows DEF Operations
<1>3. ASSUME NEW o \in Objects, NEW d, Pin(p, o, d)  PROVE Follows'
  <2>1. Begin(p, "pin", o, ListOf(d, TRUE), BusyOf(d))  BY <1>3 DEF Pin, PinList
  <2> QED  BY <1>0, <2>1, ListOfFacts, BeginFollows DEF Operations
<1>4. ASSUME NEW o \in Objects, Unpin(p, o)  PROVE Follows'
  <2> DEFINE new == UnpinList(o)
  <2>1. Begin(p, "unpin", o, new, busyList[o]) /\ mem[o] # None /\ reserved[o] = None
    BY <1>4 DEF Unpin, Begin
  <2>2. ListInv(o) /\ SettledInv(o)  BY DEF Follows
  <2>3. DOMAIN new = DOMAIN list[o]  BY DEF UnpinList
  <2>4. ASSUME NEW t, On(o, t)  PROVE \E i \in DOMAIN new : new[i].type = t
    <3>1. PICK i \in DOMAIN list[o] : list[o][i].type = t  BY <2>4 DEF On
    <3>2. new[i] = [list[o][i] EXCEPT !.keep = FALSE]  BY DEF UnpinList
    <3>3. new[i].type = t  BY <3>1, <3>2
    <3> QED  BY <2>3, <3>3
  <2>5. /\ \E n \in Nat : DOMAIN new = 1 .. n
        /\ busyList[o] # <<>> => \E i \in DOMAIN new : new[i].type = "VRAM"
        /\ o \notin failed => \E i \in DOMAIN new : new[i].type = mem[o]
    BY <2>1, <2>2, <2>3, <2>4 DEF ListInv, SettledInv
  <2> HIDE DEF new
  <2> QED  BY <2>1, <2>5, BeginFollows DEF Operations
<1>5. ASSUME NEW o \in Objects, NEW d, SetDomain(p, o, d) \/ Target(p, o, d)  PROVE Follows'
  <2>1. PICK op \in {"set_domain", "flush"} : Begin(p, op, o, ListOf(d, FALSE), BusyOf(d))
    BY <1>5 DEF SetDomain, Target
  <2>2. op \in Operations /\ op # "unpin"  BY DEF Operations
  <2> QED  BY <1>0, <2>1, <2>2, ListOfFacts, BeginFollows
<1> QED  BY <1>1, <1>2, <1>3, <1>4, <1>5 DEF Call

LEMMA PlacedFollows ==
  ASSUME IInv, Follows, NEW p \in Procs, call[p].pc # "idle", call[p].op # "evict",
         NEW t, NEW kept, NEW free \in BOOLEAN, Placed(p, t, kept, free), On(call[p].obj, t)
  PROVE  Follows'
<1>0. PICK o \in Objects : o = call[p].obj  BY DEF IInv, CallInv, MineInv
<1>1. reserved[o] = p  BY <1>0 DEF IInv, CallInv, MineInv
<1>2. /\ mem'[o] = t /\ call'[p] = Idle /\ UNCHANGED <<list, busyList>>
      /\ failed' = failed \ {o}
      /\ \A q \in Procs \ {p} : call'[q] = call[q]
      /\ \A x \in Objects \ {o} : mem'[x] = mem[x] /\ reserved'[x] = reserved[x]
  BY <1>0 DEF Placed, IInv, DomainInv
<1>3. On(o, t)  BY <1>0
<1>4. ListInv(o)'
  <2>1. ListInv(o)  BY DEF Follows
  <2> QED  BY <1>2, <2>1 DEF ListInv, On
<1>5. SettledInv(o)'  BY <1>2, <1>3 DEF SettledInv, On
<1>6. ASSUME NEW x \in Objects \ {o}  PROVE ListInv(x)' /\ SettledInv(x)'
  BY <1>2, UntouchedFollows
<1>7. UnpinInv(p)'  BY <1>2, NoneAssumption DEF UnpinInv, Idle, Operations
<1>8. ForcedInv(p)'  BY <1>2 DEF ForcedInv, Idle
<1>9. ASSUME NEW q \in Procs \ {p}  PROVE UnpinInv(q)' /\ ForcedInv(q)'
  BY <1>1, <1>2, OthersFollow
<1>10. \A x \in Objects : ListInv(x)' /\ SettledInv(x)'  BY <1>4, <1>5, <1>6
<1>11. \A q \in Procs : UnpinInv(q)' /\ ForcedInv(q)'  BY <1>7, <1>8, <1>9
<1> QED  BY <1>10, <1>11 DEF Follows

LEMMA EndFollows ==
  ASSUME IInv, Follows, NEW p \in Procs, Stay(p) \/ Move(p) \/ MoveForced(p)
  PROVE  Follows'
<1> DEFINE o == call[p].obj
<1>1. CASE MoveForced(p)
  <2>1. call[p].pc = "force" /\ call[p].op # "evict" /\ Placed(p, "VRAM", FALSE, FALSE)
    BY <1>1 DEF MoveForced
  <2>2. On(o, "VRAM")  BY <2>1 DEF Follows, ForcedInv
  <2> QED  BY <2>1, <2>2, PlacedFollows
<1>2. CASE Stay(p) \/ Move(p)
  <2>1. call[p].pc = "validate"  BY <1>2 DEF Stay, Move
  <2>2. call[p].op # "evict"  BY <2>1 DEF IInv, CallInv, EvictVramInv
  <2>3. \E i \in DOMAIN list[o] : \E kept : Placed(p, list[o][i].type, kept, TRUE)
    <3>1. CASE Stay(p)
      <4>1. \A i \in Compatible(o) : i \in DOMAIN list[o] /\ list[o][i].type = mem[o]
        BY DEF Compatible, First
      <4>2. PICK i \in Compatible(o) : Placed(p, mem[o], list[o][i].keep, TRUE)
        BY <3>1 DEF Stay
      <4>3. i \in DOMAIN list[o] /\ list[o][i].type = mem[o]  BY <4>1
      <4> QED  BY <4>2, <4>3
    <3>2. CASE Move(p)
      <4>1. \A i \in Free(o) : i \in DOMAIN list[o]  BY DEF Free, First
      <4> QED  BY <3>2, <4>1 DEF Move
    <3> QED  BY <1>2, <3>1, <3>2
  <2>4. PICK i \in DOMAIN list[o] : \E kept : Placed(p, list[o][i].type, kept, TRUE)  BY <2>3
  <2>5. PICK kept : Placed(p, list[o][i].type, kept, TRUE)  BY <2>4
  <2>6. On(o, list[o][i].type)  BY DEF On
  <2> QED  BY <2>1, <2>2, <2>5, <2>6, PlacedFollows
<1> QED  BY <1>1, <1>2

(* An unpin whose buffer is where the list says stays; it does nothing else. *)
LEMMA UnpinValidates ==
  ASSUME IInv, Follows, NEW p \in Procs, call[p].op = "unpin", call[p].obj \notin failed
  PROVE  call[p].pc = "validate" /\ Compatible(call[p].obj) # {}
<1>1. call[p].pc = "validate" /\ On(call[p].obj, mem[call[p].obj])
  BY DEF Follows, UnpinInv
<1>2. call[p].obj \in Objects  BY <1>1 DEF IInv, CallInv, MineInv
<1> QED  BY <1>1, <1>2, FirstExists DEF Follows

LEMMA ForceFollows ==
  ASSUME IInv, Follows, NEW p \in Procs, GoBusy(p)
  PROVE  Follows'
<1>1. /\ call[p].pc = "validate" /\ call' = [call EXCEPT ![p].pc = "force"]
      /\ Compatible(call[p].obj) = {} /\ busyList[call[p].obj] # <<>>
      /\ UNCHANGED <<mem, list, busyList, reserved, failed>>
  BY DEF GoBusy, objVars, history
<1>2. /\ call'[p].pc = "force" /\ call'[p].op = call[p].op /\ call'[p].obj = call[p].obj
      /\ \A q \in Procs \ {p} : call'[q] = call[q]
  BY <1>1 DEF IInv, DomainInv
<1>3. UnpinInv(p)'  BY <1>1, <1>2, UnpinValidates DEF UnpinInv
<1>4. ForcedInv(p)'
  <2>1. call[p].op # "evict"  BY <1>1 DEF IInv, CallInv, EvictVramInv
  <2>2. call[p].obj \in Objects  BY <1>1, <2>1 DEF IInv, CallInv, MineInv
  <2>3. On(call[p].obj, "VRAM")  BY <1>1, <2>2 DEF Follows, ListInv
  <2> QED  BY <1>1, <1>2, <2>3 DEF ForcedInv, On
<1>5. ASSUME NEW q \in Procs \ {p}  PROVE UnpinInv(q)' /\ ForcedInv(q)'
  BY <1>1, <1>2, OthersFollow
<1>6. ASSUME NEW x \in Objects  PROVE ListInv(x)' /\ SettledInv(x)'
  BY <1>1, UntouchedFollows
<1> QED  BY <1>3, <1>4, <1>5, <1>6 DEF Follows

(* The list of a victim. *)
LEMMA EvictedList ==
  ASSUME IInv, NEW v \in Objects, EvictFlags(v)
  PROVE  /\ ListInv(v)' /\ On(v, "SYS")'
         /\ \A x \in Objects \ {v} : list'[x] = list[x] /\ busyList'[x] = busyList[x]
<1> PICK d : d = {"SYS"}  OBVIOUS
<1>1. /\ list'[v] = ListOf(d, FALSE) /\ busyList'[v] = <<>>
      /\ \A x \in Objects \ {v} : list'[x] = list[x] /\ busyList'[x] = busyList[x]
  BY DEF EvictFlags, BusyOf, IInv, DomainInv
<1>2. ASSUME NEW kept
      PROVE  /\ \E n \in Nat : DOMAIN ListOf(d, kept) = 1 .. n
             /\ \E i \in DOMAIN ListOf(d, kept) : ListOf(d, kept)[i].type = "SYS"
  BY ListOfFacts
<1> QED  BY <1>1, <1>2 DEF ListInv, On

LEMMA EvictFirstFollows ==
  ASSUME IInv, Follows, NEW p \in Procs, EvictFirst(p)
  PROVE  Follows'
<1>1. PICK v \in Victims("VRAM") :
        /\ reserved' = [reserved EXCEPT ![v] = p]
        /\ call' = [call EXCEPT ![p].pc = "evict", ![p].victim = v]
        /\ EvictFlags(v)
  BY DEF EvictFirst
<1>2. v \in Objects /\ reserved[v] = None  BY VictimsAreNotPinned
<1>3. call[p].pc = "force" /\ UNCHANGED <<mem, failed>>  BY DEF EvictFirst, history
<1>4. /\ call'[p].pc = "evict" /\ call'[p].op = call[p].op
      /\ call'[p].obj = call[p].obj /\ call'[p].victim = v /\ reserved'[v] = p
      /\ \A q \in Procs \ {p} : call'[q] = call[q]
      /\ \A x \in Objects \ {v} : reserved'[x] = reserved[x]
  BY <1>1, <1>2 DEF IInv, DomainInv
<1>5. /\ ListInv(v)' /\ On(v, "SYS")'
      /\ \A x \in Objects \ {v} : list'[x] = list[x] /\ busyList'[x] = busyList[x]
  BY <1>1, <1>2, EvictedList
<1>6. SettledInv(v)'  BY <1>4, NoneAssumption DEF SettledInv
<1>7. ASSUME NEW x \in Objects \ {v}  PROVE ListInv(x)' /\ SettledInv(x)'
  BY <1>3, <1>4, <1>5, UntouchedFollows
<1>8. UnpinInv(p)'  BY <1>3, <1>4, UnpinValidates DEF UnpinInv
<1>9. ForcedInv(p)'
  <2>1. ASSUME call[p].op # "evict"  PROVE On(call[p].obj, "VRAM")'
    <3>1. On(call[p].obj, "VRAM")  BY <1>3, <2>1 DEF Follows, ForcedInv
    <3>2. call[p].obj \in Objects \ {v} /\ call'[p].obj = call[p].obj
      BY <1>2, <1>3, <1>4, <2>1, NoneAssumption DEF IInv, CallInv, MineInv
    <3> QED  BY <1>5, <3>1, <3>2 DEF On
  <2> QED  BY <1>4, <1>5, <2>1 DEF ForcedInv, On
<1>10. ASSUME NEW q \in Procs \ {p}  PROVE UnpinInv(q)' /\ ForcedInv(q)'
  BY <1>2, <1>3, <1>4, <1>5, OthersFollow, NoneAssumption
<1> QED  BY <1>5, <1>6, <1>7, <1>8, <1>9, <1>10 DEF Follows

LEMMA MoveVictimFollows ==
  ASSUME IInv, Follows, NEW p \in Procs, MoveVictim(p)
  PROVE  Follows'
<1>0. PICK v \in Objects : v = call[p].victim
  BY DEF MoveVictim, IInv, CallInv, VictimInv
<1>1. /\ call[p].pc = "evict"
      /\ mem' = [mem EXCEPT ![v] = "SYS"] /\ reserved' = [reserved EXCEPT ![v] = None]
      /\ call' = [call EXCEPT ![p].pc = "force", ![p].victim = None]
      /\ failed' = failed \ {v} /\ UNCHANGED <<list, busyList>>
  BY <1>0 DEF MoveVictim
<1>2. reserved[v] = p /\ v # call[p].obj /\ On(v, "SYS")
  BY <1>0, <1>1 DEF IInv, CallInv, VictimInv, Follows, ForcedInv
<1>3. /\ call'[p].pc = "force" /\ call'[p].op = call[p].op /\ call'[p].obj = call[p].obj
      /\ mem'[v] = "SYS"
      /\ \A q \in Procs \ {p} : call'[q] = call[q]
      /\ \A x \in Objects \ {v} : mem'[x] = mem[x] /\ reserved'[x] = reserved[x]
  BY <1>1 DEF IInv, DomainInv
<1>4. ListInv(v)'
  <2>1. ListInv(v)  BY DEF Follows
  <2> QED  BY <1>1, <2>1 DEF ListInv, On
<1>5. SettledInv(v)'  BY <1>1, <1>2, <1>3 DEF SettledInv, On
<1>6. ASSUME NEW x \in Objects \ {v}  PROVE ListInv(x)' /\ SettledInv(x)'
  BY <1>1, <1>3, UntouchedFollows
<1>7. UnpinInv(p)'
  <2>1. call[p].op = "unpin" => call[p].obj \in failed  BY <1>1, UnpinValidates
  <2>2. call[p].op = "unpin" => call[p].obj \in failed'  BY <1>1, <1>2, <2>1
  <2> QED  BY <1>3, <2>2 DEF UnpinInv
<1>8. ForcedInv(p)'
  <2>1. call[p].op # "evict" => On(call[p].obj, "VRAM")  BY <1>1 DEF Follows, ForcedInv
  <2>2. call[p].op # "evict" => On(call[p].obj, "VRAM")'  BY <1>1, <1>3, <2>1 DEF On
  <2> QED  BY <1>3, <2>2 DEF ForcedInv, On
<1>9. ASSUME NEW q \in Procs \ {p}  PROVE UnpinInv(q)' /\ ForcedInv(q)'
  BY <1>1, <1>2, <1>3, OthersFollow
<1>10. \A x \in Objects : ListInv(x)' /\ SettledInv(x)'  BY <1>4, <1>5, <1>6
<1>11. \A q \in Procs : UnpinInv(q)' /\ ForcedInv(q)'  BY <1>7, <1>8, <1>9
<1> QED  BY <1>10, <1>11 DEF Follows

LEMMA EvictApertureFollows ==
  ASSUME IInv, Follows, NEW p \in Procs, EvictAperture(p)
  PROVE  Follows'
<1>1. PICK w \in Victims("TT") :
        mem' = [mem EXCEPT ![w] = "SYS"] /\ EvictFlags(w) /\ failed' = failed \ {w}
  BY DEF EvictAperture
<1>2. w \in Objects /\ reserved[w] = None /\ UNCHANGED <<reserved, call>>
  BY VictimsAreNotPinned DEF EvictAperture
<1>3. mem'[w] = "SYS" /\ \A x \in Objects \ {w} : mem'[x] = mem[x]
  BY <1>1, <1>2 DEF IInv, DomainInv
<1>4. /\ ListInv(w)' /\ On(w, "SYS")'
      /\ \A x \in Objects \ {w} : list'[x] = list[x] /\ busyList'[x] = busyList[x]
  BY <1>1, <1>2, EvictedList
<1>5. SettledInv(w)'  BY <1>3, <1>4 DEF SettledInv, On
<1>6. ASSUME NEW x \in Objects \ {w}  PROVE ListInv(x)' /\ SettledInv(x)'
  BY <1>1, <1>2, <1>3, <1>4, UntouchedFollows
<1>7. ASSUME NEW q \in Procs  PROVE UnpinInv(q)' /\ ForcedInv(q)'
  BY <1>1, <1>2, <1>3, <1>4, OthersFollow, NoneAssumption
<1> QED  BY <1>4, <1>5, <1>6, <1>7 DEF Follows

LEMMA GiveUpFollows ==
  ASSUME IInv, Follows, NEW p \in Procs, Refuse(p) \/ VramEvicted(p)
  PROVE  Follows'
<1>1. call' = [call EXCEPT ![p] = Idle] /\ UNCHANGED <<mem, list, busyList>>
  BY DEF Refuse, VramEvicted, objVars, history
<1>2. call'[p] = Idle /\ \A q \in Procs \ {p} : call'[q] = call[q]
  BY <1>1 DEF IInv, DomainInv
<1>3. UnpinInv(p)' /\ ForcedInv(p)'
  BY <1>2, NoneAssumption DEF UnpinInv, ForcedInv, Idle, Operations
<1>4. CASE VramEvicted(p)
  <2>1. UNCHANGED <<reserved, failed>>  BY <1>4 DEF VramEvicted, history
  <2>2. ASSUME NEW x \in Objects  PROVE ListInv(x)' /\ SettledInv(x)'
    BY <1>1, <2>1, UntouchedFollows
  <2>3. ASSUME NEW q \in Procs \ {p}  PROVE UnpinInv(q)' /\ ForcedInv(q)'
    BY <1>1, <1>2, <2>1, OthersFollow
  <2> QED  BY <1>3, <2>2, <2>3 DEF Follows
<1>5. CASE Refuse(p)
  <2> DEFINE mine == {call[p].obj, call[p].victim} \ {None}
  <2>1. /\ reserved' = [o \in Objects |-> IF o \in mine THEN None ELSE reserved[o]]
        /\ failed' = failed \cup {o \in mine : mem[o] # None}
    BY <1>5 DEF Refuse
  <2>2. call[p].pc # "idle"  BY <1>5 DEF Refuse, Stuck, NeedsAperture
  <2>3. \A o \in mine : reserved[o] = p
    <3>1. call[p].op = "evict" => call[p].obj = None  BY DEF IInv, CallInv, EvictVramInv
    <3>2. call[p].op # "evict" => reserved[call[p].obj] = p
      BY <2>2 DEF IInv, CallInv, MineInv
    <3>3. call[p].victim = None \/ reserved[call[p].victim] = p
      BY DEF IInv, CallInv, VictimInv
    <3> QED  BY <3>1, <3>2, <3>3
  <2> HIDE DEF mine
  <2>4. ASSUME NEW x \in Objects  PROVE ListInv(x)' /\ SettledInv(x)'
    <3>1. CASE x \in mine
      <4>1. ListInv(x)'  BY <1>1 DEF Follows, ListInv, On
      <4>2. mem[x] # None => x \in failed'  BY <2>1, <3>1
      <4>3. SettledInv(x)'  BY <1>1, <4>2 DEF SettledInv
      <4> QED  BY <4>1, <4>3
    <3>2. CASE x \notin mine
      <4>1. reserved'[x] = reserved[x] /\ (x \in failed' <=> x \in failed)  BY <2>1, <3>2
      <4> QED  BY <1>1, <4>1, UntouchedFollows
    <3> QED  BY <3>1, <3>2
  <2>5. ASSUME NEW q \in Procs \ {p}  PROVE UnpinInv(q)' /\ ForcedInv(q)'
    <3>1. \A o \in Objects : reserved[o] = q => (o \in failed' <=> o \in failed)
      BY <2>1, <2>3
    <3> QED  BY <1>1, <1>2, <3>1, OthersFollow
  <2> QED  BY <1>3, <2>4, <2>5 DEF Follows
<1> QED  BY <1>4, <1>5

LEMMA DestroyFollows ==
  ASSUME IInv, Follows, NEW o \in Objects, Destroy(o)
  PROVE  Follows'
<1>1. /\ mem'[o] = None /\ \A x \in Objects \ {o} : mem'[x] = mem[x]
      /\ failed' = failed \ {o} /\ reserved[o] = None
      /\ UNCHANGED <<list, busyList, reserved, call>>
  BY DEF Destroy, IInv, DomainInv
<1>2. ListInv(o)' /\ SettledInv(o)'  BY <1>1 DEF Follows, ListInv, SettledInv, On
<1>3. ASSUME NEW x \in Objects \ {o}  PROVE ListInv(x)' /\ SettledInv(x)'
  BY <1>1, UntouchedFollows
<1>4. ASSUME NEW q \in Procs  PROVE UnpinInv(q)' /\ ForcedInv(q)'
  BY <1>1, OthersFollow, NoneAssumption
<1> QED  BY <1>2, <1>3, <1>4 DEF Follows

LEMMA FollowsStep == IInv /\ Follows /\ [Next]_vars => Follows'
<1> SUFFICES ASSUME IInv, Follows, [Next]_vars  PROVE Follows'  OBVIOUS
<1>1. CASE UNCHANGED vars
  BY <1>1 DEF vars, objVars, history, Follows, ListInv, SettledInv, UnpinInv, ForcedInv, On
<1>2. ASSUME NEW p \in Procs, Call(p)  PROVE Follows'  BY <1>2, CallFollows
<1>3. ASSUME NEW p \in Procs, Validate(p)  PROVE Follows'
  BY <1>3, EndFollows, ForceFollows, EvictFirstFollows, MoveVictimFollows,
     EvictApertureFollows, GiveUpFollows
  DEF Validate
<1>4. ASSUME NEW o \in Objects, Destroy(o)  PROVE Follows'  BY <1>4, DestroyFollows
<1> QED  BY <1>1, <1>2, <1>3, <1>4 DEF Next

LEMMA InitFollows == Init => Follows
<1> SUFFICES ASSUME Init  PROVE Follows  OBVIOUS
<1>1. ASSUME NEW o \in Objects  PROVE ListInv(o) /\ SettledInv(o)
  <2>1. list[o] = <<>> /\ busyList[o] = <<>> /\ mem[o] = None  BY DEF Init
  <2>2. DOMAIN list[o] = 1 .. 0  BY <2>1
  <2> QED  BY <2>1, <2>2 DEF ListInv, SettledInv
<1>2. ASSUME NEW p \in Procs  PROVE UnpinInv(p) /\ ForcedInv(p)
  <2>1. call[p] = Idle  BY DEF Init
  <2> QED  BY <2>1, NoneAssumption DEF Idle, UnpinInv, ForcedInv, Operations
<1> QED  BY <1>1, <1>2 DEF Follows

(* An unpin moves nothing, whatever has written the list since the buffer   *)
(* was placed, unless a move of the buffer has been refused.                *)
THEOREM UnpinStays == Spec => UnpinMovesNothing
<1>1. IInv /\ Follows /\ [Next]_vars =>
        [\A p \in Procs : call[p].op = "unpin" /\ call[p].obj \notin failed
           => mem'[call[p].obj] = mem[call[p].obj]]_vars
  <2> SUFFICES ASSUME IInv, Follows, Next, NEW p \in Procs,
                      call[p].op = "unpin", call[p].obj \notin failed
               PROVE  mem'[call[p].obj] = mem[call[p].obj]
    OBVIOUS
  <2> DEFINE o == call[p].obj
  <2>1. call[p].pc = "validate" /\ Compatible(o) # {}  BY UnpinValidates
  <2>2. o \in Objects /\ reserved[o] = p /\ p # None
    BY <2>1, NoneAssumption DEF IInv, CallInv, MineInv
  <2>3. ASSUME NEW q \in Procs, Call(q)  PROVE mem'[o] = mem[o]
    BY <2>3 DEF Call, Create, Pin, Unpin, SetDomain, Target, Begin, EvictVram, objVars
  <2>4. ASSUME NEW q \in Procs, Validate(q)  PROVE mem'[o] = mem[o]
    <3>1. CASE Stay(q)
      BY <3>1 DEF Stay, Placed, IInv, DomainInv
    <3>2. CASE Move(q) \/ MoveForced(q)
      <4>1. q # p  BY <2>1, <3>2 DEF Move, MoveForced
      <4>2. call[q].pc # "idle" /\ call[q].op # "evict"
        BY <3>2 DEF Move, MoveForced, IInv, CallInv, EvictVramInv
      <4>3. call[q].obj # o  BY <2>2, <4>1, <4>2 DEF IInv, CallInv, MineInv
      <4> QED  BY <2>2, <3>2, <4>3 DEF Move, MoveForced, Placed, IInv, DomainInv
    <3>3. CASE MoveVictim(q)
      <4>1. call[q].pc = "evict" /\ q # p  BY <2>1, <3>3 DEF MoveVictim
      <4>2. call[q].victim # o  BY <2>2, <4>1 DEF IInv, CallInv, VictimInv
      <4> QED  BY <2>2, <3>3, <4>2 DEF MoveVictim, IInv, DomainInv
    <3>4. CASE EvictAperture(q)
      <4>1. PICK w \in Victims("TT") : mem' = [mem EXCEPT ![w] = "SYS"]
        BY <3>4 DEF EvictAperture
      <4>2. w # o  BY <2>2 DEF Victims
      <4> QED  BY <2>2, <4>1, <4>2 DEF IInv, DomainInv
    <3>5. CASE GoBusy(q) \/ EvictFirst(q) \/ Refuse(q) \/ VramEvicted(q)
      BY <3>5 DEF GoBusy, EvictFirst, Refuse, VramEvicted, objVars
    <3> QED  BY <2>4, <3>1, <3>2, <3>3, <3>4, <3>5 DEF Validate
  <2>5. ASSUME NEW x \in Objects, Destroy(x)  PROVE mem'[o] = mem[o]
    <3>1. x # o  BY <2>2, <2>5 DEF Destroy
    <3> QED  BY <2>2, <2>5, <3>1 DEF Destroy, IInv, DomainInv
  <2> QED  BY <2>3, <2>4, <2>5 DEF Next
<1>2. Spec => []Follows
  BY InitFollows, FollowsStep, Invariance, PTL DEF Spec
<1> QED  BY <1>1, <1>2, Invariance, PTL DEF Spec, UnpinMovesNothing
=============================================================================
