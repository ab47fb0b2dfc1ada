--------------------------- MODULE DmaMoveProofs ----------------------------
(***************************************************************************)
(* First the safety of the DMA moves, for any number of calls that all     *)
(* hold the big kernel lock; the second part is about the chain of         *)
(* descriptors of one move.                                                *)
(*                                                                         *)
(* From the moment the wait for the engine ends to the moment the engine   *)
(* is fired nothing sleeps, so that one call at a time is on this stretch  *)
(* and the engine is idle meanwhile.  So the only emitted fence whose data *)
(* are not transferred is that of this call, or of the call the engine     *)
(* runs, and it has the latest sequence, which the sync word is below.     *)
(***************************************************************************)
EXTENDS DmaMove, SgBuild, FiniteSetTheorems, SequenceTheorems, WellFoundedInduction,
        TLAPS

AllLocked == Locked = Movers
NoWrap == Cardinality(Movers) < Width

Unstarted == {"idle", "refused"}
Alone == {"emit", "list", "write", "fire"}
Sequenced == {"list", "write", "fire"}
Emitted == {m \in Movers : sequence[m] > 0}
ListedFences == {dmaEmited[i] : i \in 1 .. Len(dmaEmited)}

AloneInv == \A m \in Movers : pc[m] \in Alone => bkl = m /\ engine = None

SequenceInv ==
  /\ dmaSeq = Cardinality(Emitted)
  /\ sync <= dmaSeq
  /\ \A m \in Movers :
       /\ pc[m] \in Sequenced \/ engine = m =>
            /\ sequence[m] = dmaSeq /\ sync < dmaSeq
            /\ m \notin transferred /\ sg[m] = "built"
       /\ sequence[m] > 0 => m \in transferred \/ engine = m \/ pc[m] \in Sequenced
       /\ pc[m] = "fire" => fenceBuf = sequence[m]
       /\ pc[m] \in Unstarted \cup {"wait_idle", "emit"} \/ sg[m] = "none" =>
            sequence[m] = 0
       /\ pc[m] \in {"wait_idle", "emit"} => sg[m] = "built"
       /\ m \in transferred => sequence[m] > 0

FenceInv ==
  /\ FenceIsItsOwn
  /\ signaled \subseteq transferred
  /\ ListedFences \subseteq Emitted

ReferenceInv ==
  \A m \in Movers :
    refs[m] = (IF pc[m] \in Unstarted THEN 0 ELSE 1)
              + (IF sg[m] = "built" THEN 1 ELSE 0)
              + (IF m \in boFence THEN 1 ELSE 0)

ObjectInv ==
  /\ \A m \in Movers : pc[m] \in Unstarted \cup {"copied"} =>
       sg[m] = "none" /\ m \notin boFence
  /\ \A m \in Movers : pc[m] \in {"cleanup"} \cup Alone \cup {"wait_idle"} =>
       m \notin boFence
  /\ \A m \in Movers : pc[m] \in {"cleanup", "wait_fence", "release", "delay"} =>
       sg[m] = "built"

DelayInv ==
  /\ \A i \in 1 .. Len(ddestory) :
       sg[ddestory[i]] = "built" /\ pc[ddestory[i]] \in {"schedule", "moved"}
  /\ \A i, j \in 1 .. Len(ddestory) : ddestory[i] = ddestory[j] => i = j

IInv ==
  /\ TypeOK /\ AloneInv /\ SequenceInv /\ FenceInv /\ ReferenceInv
  /\ ObjectInv /\ DelayInv /\ ChainsStayMapped

-----------------------------------------------------------------------------
(* Polling *)

(* The fences a poll reaches are transferred: an emitted fence whose data  *)
(* are not has the latest sequence, and the sync word is below it.         *)
LEMMA PolledIsTransferred ==
  ASSUME TypeOK, SequenceInv, FenceInv
  PROVE  Polled \subseteq transferred
<1> SUFFICES ASSUME NEW n \in 1 .. Len(dmaEmited), sequence[dmaEmited[n]] <= sync
             PROVE  dmaEmited[n] \in transferred
  BY DEF Polled, Reached
<1> DEFINE m == dmaEmited[n]
<1>1. m \in Movers /\ sequence[m] > 0
  BY DEF FenceInv, ListedFences, Emitted
<1>2. ~ (pc[m] \in Sequenced \/ engine = m)
  BY <1>1, SMTT(30) DEF SequenceInv, TypeOK
<1> QED BY <1>1, <1>2 DEF SequenceInv

(* A suffix of the list of fences is a list of fences that were on it. *)
LEMMA PollShortens ==
  ASSUME TypeOK, NEW n \in Nat
  PROVE  LET s == SubSeq(dmaEmited, n + 1, Len(dmaEmited)) IN
         /\ s \in Seq(Movers)
         /\ {s[i] : i \in 1 .. Len(s)} \subseteq ListedFences
<1> DEFINE s == SubSeq(dmaEmited, n + 1, Len(dmaEmited))
<1>1. dmaEmited \in Seq(Movers) /\ Len(dmaEmited) \in Nat
  BY DEF TypeOK
<1>2. \A i \in n + 1 .. Len(dmaEmited) : dmaEmited[i] \in Movers
  BY <1>1
<1>3. /\ s \in Seq(Movers)
      /\ Len(s) = IF n + 1 <= Len(dmaEmited) THEN Len(dmaEmited) - n ELSE 0
      /\ \A i \in 1 .. Len(dmaEmited) - n : s[i] = dmaEmited[n + i]
  <2>1. n + 1 \in Int /\ Len(dmaEmited) \in Int
    BY <1>1
  <2> QED BY <1>1, <1>2, <2>1, SubSeqProperties
<1> HIDE DEF s
<1>4. \A i \in 1 .. Len(s) : s[i] \in ListedFences
  <2> SUFFICES ASSUME NEW i \in 1 .. Len(s) PROVE s[i] \in ListedFences
    OBVIOUS
  <2>1. n + i \in 1 .. Len(dmaEmited) /\ s[i] = dmaEmited[n + i]
    BY <1>1, <1>3, SMTT(30)
  <2> QED BY <2>1 DEF ListedFences
<1> QED BY <1>3, <1>4 DEF s

(* What an action may rely on when it has looked at a fence. *)
LEMMA PollFacts ==
  ASSUME TypeOK, SequenceInv, FenceInv, NEW m \in Movers,
         NEW yes \in BOOLEAN, Poll(m, yes)
  PROVE  /\ yes => m \in transferred
         /\ dmaEmited' \in Seq(Movers) /\ ListedFences' \subseteq ListedFences
         /\ signaled' \subseteq transferred
<1>1. Polled \subseteq transferred
  BY PolledIsTransferred
<1>2. yes => m \in transferred
  BY <1>1 DEF Poll, FenceInv
<1>3. CASE m \in signaled
  BY <1>2, <1>3 DEF Poll, FenceInv, ListedFences, TypeOK
<1>4. CASE m \notin signaled
  <2>1. Cardinality(Reached) \in Nat
    <3>1. IsFiniteSet(1 .. Len(dmaEmited))
      BY FS_Interval DEF TypeOK
    <3>2. Reached \subseteq 1 .. Len(dmaEmited)
      BY DEF Reached
    <3> QED BY <3>1, <3>2, FS_Subset, FS_CardinalityType
  <2>2. dmaEmited' = SubSeq(dmaEmited, Cardinality(Reached) + 1, Len(dmaEmited))
    BY <1>4 DEF Poll
  <2>3. signaled' \subseteq transferred
    BY <1>1, <1>4 DEF Poll, FenceInv
  <2> QED BY <1>2, <2>1, <2>2, <2>3, PollShortens DEF ListedFences
<1> QED BY <1>3, <1>4

(* The delayed objects are those of calls that have come that far. *)
LEMMA NotDelayed ==
  ASSUME TypeOK, DelayInv, NEW m \in Movers, pc[m] \notin {"schedule", "moved"}
  PROVE  \A i \in 1 .. Len(ddestory) : ddestory[i] \in Movers /\ ddestory[i] /= m
  BY SMTT(30) DEF TypeOK, DelayInv

(* Fences only leave the list, and only signal when they are transferred. *)
LEMMA FenceFrame ==
  ASSUME FenceInv, UNCHANGED <<fenceBuf, engine, sequence, transferred>>,
         signaled' \subseteq transferred, ListedFences' \subseteq ListedFences
  PROVE  FenceInv'
  BY DEF FenceInv, FenceIsItsOwn, Emitted

(* The same for the objects to be freed later. *)
LEMMA DelayFrame ==
  ASSUME TypeOK, DelayInv, NEW m \in Movers, UNCHANGED ddestory,
         pc[m] \notin {"schedule", "moved"} \/ pc' = pc
            \/ (pc[m] = "schedule" /\ pc'[m] = "moved"),
         \A n \in Movers \ {m} : pc'[n] = pc[n] /\ sg'[n] = sg[n],
         sg'[m] = sg[m] \/ pc[m] \notin {"schedule", "moved"}
  PROVE  DelayInv'
<1>1. \A i \in 1 .. Len(ddestory) : ddestory[i] \in Movers
  BY DEF TypeOK
<1> QED BY <1>1 DEF DelayInv


-----------------------------------------------------------------------------
(* One lemma for each action *)

LEMMA RefuseStep ==
  ASSUME AllLocked, IInv, NEW m \in Movers, Refuse(m)
  PROVE  IInv'
<1> USE MoversAssumption, WidthAssumption
    DEF AllLocked, Refuse, Goto, callVars, fenceVars, sgVars, hwVars
<1>1. ReferenceInv'
  BY DEF IInv, TypeOK, ReferenceInv, ObjectInv, Unstarted
<1>2. TypeOK'
  BY <1>1 DEF IInv, TypeOK, ReferenceInv
<1>3. AloneInv'
  BY DEF IInv, TypeOK, AloneInv, Alone
<1>4. SequenceInv'
  BY DEF IInv, TypeOK, AloneInv, SequenceInv, Alone, Sequenced, Unstarted,
         Emitted
<1>5. FenceInv'
  BY SMTT(30) DEF IInv, TypeOK, AloneInv, SequenceInv, FenceInv, FenceIsItsOwn, Alone,
         Sequenced, ListedFences, Emitted
<1>6. ObjectInv'
  BY DEF IInv, TypeOK, ObjectInv, Unstarted, Alone
<1>7. DelayInv'
  BY DelayFrame DEF IInv, TypeOK
<1>8. ChainsStayMapped'
  BY DEF IInv, TypeOK, SequenceInv, ChainsStayMapped, Sequenced
<1> QED BY <1>1, <1>2, <1>3, <1>4, <1>5, <1>6, <1>7, <1>8 DEF IInv

LEMMA BuildStep ==
  ASSUME AllLocked, IInv, NEW m \in Movers, Build(m)
  PROVE  IInv'
<1> USE MoversAssumption, WidthAssumption
    DEF AllLocked, Build, Goto, callVars, fenceVars, sgVars, hwVars
<1>1. ReferenceInv'
  BY DEF IInv, TypeOK, ReferenceInv, ObjectInv, Unstarted
<1>2. TypeOK'
  BY <1>1 DEF IInv, TypeOK, ReferenceInv
<1>3. AloneInv'
  BY DEF IInv, TypeOK, AloneInv, Alone
<1>4. SequenceInv'
  BY DEF IInv, TypeOK, AloneInv, SequenceInv, Alone, Sequenced, Unstarted,
         Emitted
<1>5. FenceInv'
  BY SMTT(30) DEF IInv, TypeOK, AloneInv, SequenceInv, FenceInv, FenceIsItsOwn, Alone,
         Sequenced, ListedFences, Emitted
<1>6. ObjectInv'
  BY DEF IInv, TypeOK, ObjectInv, Unstarted, Alone
<1>7. DelayInv'
  BY DelayFrame DEF IInv, TypeOK
<1>8. ChainsStayMapped'
  BY DEF IInv, TypeOK, SequenceInv, ChainsStayMapped, Sequenced
<1> QED BY <1>1, <1>2, <1>3, <1>4, <1>5, <1>6, <1>7, <1>8 DEF IInv

LEMMA BuildFailsStep ==
  ASSUME AllLocked, IInv, NEW m \in Movers, BuildFails(m)
  PROVE  IInv'
<1> USE MoversAssumption, WidthAssumption
    DEF AllLocked, BuildFails, Fallback, Goto, callVars, fenceVars, sgVars, hwVars
<1>1. ReferenceInv'
  BY DEF IInv, TypeOK, ReferenceInv, ObjectInv, Unstarted
<1>2. TypeOK'
  BY <1>1 DEF IInv, TypeOK, ReferenceInv
<1>3. AloneInv'
  BY DEF IInv, TypeOK, AloneInv, Alone
<1>4. SequenceInv'
  BY DEF IInv, TypeOK, AloneInv, SequenceInv, Alone, Sequenced, Unstarted,
         Emitted
<1>5. FenceInv'
  BY DEF IInv, TypeOK, AloneInv, SequenceInv, FenceInv, FenceIsItsOwn, Alone,
         Sequenced, ListedFences, Emitted
<1>6. ObjectInv'
  BY DEF IInv, TypeOK, ObjectInv, Unstarted, Alone
<1>7. DelayInv'
  BY DelayFrame DEF IInv, TypeOK
<1>8. ChainsStayMapped'
  BY DEF IInv, TypeOK, SequenceInv, ChainsStayMapped, Sequenced
<1> QED BY <1>1, <1>2, <1>3, <1>4, <1>5, <1>6, <1>7, <1>8 DEF IInv

LEMMA WaitDmaIdleStep ==
  ASSUME AllLocked, IInv, NEW m \in Movers, WaitDmaIdle(m)
  PROVE  IInv'
<1> USE MoversAssumption, WidthAssumption
    DEF AllLocked, WaitDmaIdle, EngineIdle, Goto, callVars, fenceVars, sgVars, hwVars
<1>1. ReferenceInv'
  BY DEF IInv, TypeOK, ReferenceInv, ObjectInv, Unstarted
<1>2. TypeOK'
  BY <1>1 DEF IInv, TypeOK, ReferenceInv
<1>3. AloneInv'
  BY DEF IInv, TypeOK, AloneInv, Alone
<1>4. SequenceInv'
  BY DEF IInv, TypeOK, AloneInv, SequenceInv, Alone, Sequenced, Unstarted,
         Emitted
<1>5. FenceInv'
  BY DEF IInv, TypeOK, AloneInv, SequenceInv, FenceInv, FenceIsItsOwn, Alone,
         Sequenced, ListedFences, Emitted
<1>6. ObjectInv'
  BY DEF IInv, TypeOK, ObjectInv, Unstarted, Alone
<1>7. DelayInv'
  BY DelayFrame DEF IInv, TypeOK
<1>8. ChainsStayMapped'
  BY DEF IInv, TypeOK, SequenceInv, ChainsStayMapped, Sequenced
<1> QED BY <1>1, <1>2, <1>3, <1>4, <1>5, <1>6, <1>7, <1>8 DEF IInv

LEMMA TakeSequenceStep ==
  ASSUME AllLocked, NoWrap, IInv, NEW m \in Movers, TakeSequence(m)
  PROVE  IInv'
<1> USE MoversAssumption, WidthAssumption
    DEF AllLocked, TakeSequence, Goto, callVars, fenceVars, sgVars, hwVars
<1>1. ReferenceInv'
  BY DEF IInv, TypeOK, ReferenceInv, ObjectInv, Unstarted
<1>2. TypeOK'
  BY <1>1 DEF IInv, TypeOK, ReferenceInv
<1>3. AloneInv'
  BY DEF IInv, TypeOK, AloneInv, Alone
<1>4. SequenceInv'
  <2>1. sequence[m] = 0 /\ pc[m] \in Alone /\ engine = None /\ sg[m] = "built"
        /\ m \notin transferred
    BY DEF IInv, AloneInv, SequenceInv, Alone
  <2>2. \A n \in Movers \ {m} : pc[n] \notin Alone /\ pc'[n] = pc[n]
                               /\ sequence'[n] = sequence[n]
    BY DEF IInv, TypeOK, AloneInv, Alone
  <2>3. dmaSeq' = dmaSeq + 1 /\ dmaSeq' = Cardinality(Emitted')
    <3>1. Cardinality(Emitted) \in Nat /\ IsFiniteSet(Emitted)
      BY FS_Subset, FS_CardinalityType DEF Emitted
    <3>2. m \notin Emitted
      BY <2>1 DEF Emitted
    <3>3. Cardinality(Emitted \cup {m}) = dmaSeq + 1
      BY <3>1, <3>2, FS_AddElement DEF IInv, SequenceInv
    <3>4. Cardinality(Emitted \cup {m}) <= Cardinality(Movers)
      BY FS_Subset DEF Emitted
    <3>5. dmaSeq + 1 < Width
      BY <3>3, <3>4, FS_CardinalityType DEF NoWrap, IInv, TypeOK
    <3>6. dmaSeq' = dmaSeq + 1 /\ sequence'[m] = dmaSeq + 1
      <4>1. dmaSeq \in Nat /\ sequence \in [Movers -> Nat]
        BY DEF IInv, TypeOK
      <4>2. (dmaSeq + 1) % Width = dmaSeq + 1
        BY <3>5, <4>1
      <4> QED BY <4>1, <4>2
    <3>7. Emitted' = Emitted \cup {m}
      BY <2>2, <3>6 DEF IInv, TypeOK, Emitted
    <3> QED BY <3>3, <3>6, <3>7
  <2>4. pc'[m] = "list" /\ sequence'[m] = dmaSeq + 1
    BY <2>3 DEF IInv, TypeOK
  <2>5. sync <= dmaSeq /\ sync \in Nat /\ dmaSeq \in Nat
    BY DEF IInv, TypeOK, SequenceInv
  <2> QED
    BY <2>1, <2>2, <2>3, <2>4, <2>5, SMTT(30)
    DEF IInv, TypeOK, SequenceInv, Sequenced, Alone, Unstarted
<1>5. FenceInv'
  <2>1. sequence[m] = 0 /\ engine = None
    BY DEF IInv, AloneInv, SequenceInv, Alone
  <2>2. \A n \in Movers \ {m} : sequence'[n] = sequence[n]
    BY DEF IInv, TypeOK
  <2>3. Emitted \subseteq Emitted'
    BY <2>1, <2>2 DEF Emitted
  <2>4. UNCHANGED <<engine, signaled, transferred, dmaEmited>>
    OBVIOUS
  <2> QED BY <2>1, <2>3, <2>4 DEF IInv, FenceInv, FenceIsItsOwn, ListedFences
<1>6. ObjectInv'
  BY DEF IInv, TypeOK, ObjectInv, Unstarted, Alone
<1>7. DelayInv'
  BY DelayFrame DEF IInv, TypeOK
<1>8. ChainsStayMapped'
  BY DEF IInv, TypeOK, SequenceInv, ChainsStayMapped, Sequenced
<1> QED BY <1>1, <1>2, <1>3, <1>4, <1>5, <1>6, <1>7, <1>8 DEF IInv

LEMMA ListFenceStep ==
  ASSUME AllLocked, IInv, NEW m \in Movers, ListFence(m)
  PROVE  IInv'
<1> USE MoversAssumption, WidthAssumption
    DEF AllLocked, ListFence, Goto, callVars, fenceVars, sgVars, hwVars
<1>1. ReferenceInv'
  BY DEF IInv, TypeOK, ReferenceInv, ObjectInv, Unstarted
<1>2. TypeOK'
  BY <1>1 DEF IInv, TypeOK, ReferenceInv
<1>3. AloneInv'
  BY DEF IInv, TypeOK, AloneInv, Alone
<1>4. SequenceInv'
  BY DEF IInv, TypeOK, AloneInv, SequenceInv, Alone, Sequenced, Unstarted,
         Emitted
<1>5. FenceInv'
  BY DEF IInv, TypeOK, AloneInv, SequenceInv, FenceInv, FenceIsItsOwn, Alone,
         Sequenced, ListedFences, Emitted
<1>6. ObjectInv'
  BY DEF IInv, TypeOK, ObjectInv, Unstarted, Alone
<1>7. DelayInv'
  BY DelayFrame DEF IInv, TypeOK
<1>8. ChainsStayMapped'
  BY DEF IInv, TypeOK, SequenceInv, ChainsStayMapped, Sequenced
<1> QED BY <1>1, <1>2, <1>3, <1>4, <1>5, <1>6, <1>7, <1>8 DEF IInv

LEMMA WriteFenceStep ==
  ASSUME AllLocked, IInv, NEW m \in Movers, WriteFence(m)
  PROVE  IInv'
<1> USE MoversAssumption, WidthAssumption
    DEF AllLocked, WriteFence, Goto, callVars, fenceVars, sgVars, hwVars
<1>1. ReferenceInv'
  BY DEF IInv, TypeOK, ReferenceInv, ObjectInv, Unstarted
<1>2. TypeOK'
  BY <1>1 DEF IInv, TypeOK, ReferenceInv
<1>3. AloneInv'
  BY DEF IInv, TypeOK, AloneInv, Alone
<1>4. SequenceInv'
  BY DEF IInv, TypeOK, AloneInv, SequenceInv, Alone, Sequenced, Unstarted,
         Emitted
<1>5. FenceInv'
  BY DEF IInv, TypeOK, AloneInv, SequenceInv, FenceInv, FenceIsItsOwn, Alone,
         Sequenced, ListedFences, Emitted
<1>6. ObjectInv'
  BY DEF IInv, TypeOK, ObjectInv, Unstarted, Alone
<1>7. DelayInv'
  BY DelayFrame DEF IInv, TypeOK
<1>8. ChainsStayMapped'
  BY DEF IInv, TypeOK, SequenceInv, ChainsStayMapped, Sequenced
<1> QED BY <1>1, <1>2, <1>3, <1>4, <1>5, <1>6, <1>7, <1>8 DEF IInv

LEMMA FireStep ==
  ASSUME AllLocked, IInv, NEW m \in Movers, Fire(m)
  PROVE  IInv'
<1> USE MoversAssumption, WidthAssumption
    DEF AllLocked, Fire, Goto, callVars, fenceVars, sgVars, hwVars
<1>1. ReferenceInv'
  BY DEF IInv, TypeOK, ReferenceInv, ObjectInv, Unstarted
<1>2. TypeOK'
  BY <1>1 DEF IInv, TypeOK, ReferenceInv
<1>3. AloneInv'
  BY DEF IInv, TypeOK, AloneInv, Alone
<1>4. SequenceInv'
  BY DEF IInv, TypeOK, AloneInv, SequenceInv, Alone, Sequenced, Unstarted,
         Emitted
<1>5. FenceInv'
  BY DEF IInv, TypeOK, AloneInv, SequenceInv, FenceInv, FenceIsItsOwn, Alone,
         Sequenced, ListedFences, Emitted
<1>6. ObjectInv'
  BY DEF IInv, TypeOK, ObjectInv, SequenceInv, Sequenced, Unstarted, Alone
<1>7. DelayInv'
  BY DelayFrame DEF IInv, TypeOK
<1>8. ChainsStayMapped'
  BY DEF IInv, TypeOK, SequenceInv, ChainsStayMapped, Sequenced
<1> QED BY <1>1, <1>2, <1>3, <1>4, <1>5, <1>6, <1>7, <1>8 DEF IInv

LEMMA AccelCleanupStep ==
  ASSUME AllLocked, IInv, NEW m \in Movers, AccelCleanup(m)
  PROVE  IInv'
<1> USE MoversAssumption, WidthAssumption
    DEF AllLocked, AccelCleanup, Goto, callVars, fenceVars, sgVars, hwVars
<1>1. ReferenceInv'
  BY DEF IInv, TypeOK, ReferenceInv, ObjectInv, Unstarted
<1>2. TypeOK'
  BY <1>1 DEF IInv, TypeOK, ReferenceInv
<1>3. AloneInv'
  BY DEF IInv, TypeOK, AloneInv, Alone
<1>4. SequenceInv'
  BY DEF IInv, TypeOK, AloneInv, SequenceInv, Alone, Sequenced, Unstarted,
         Emitted
<1>5. FenceInv'
  <2>1. UNCHANGED <<dmaEmited, signaled>> /\ UNCHANGED <<fenceBuf, engine, sequence, transferred>>
    OBVIOUS
  <2> QED BY <2>1, FenceFrame DEF IInv, FenceInv, ListedFences
<1>6. ObjectInv'
  BY DEF IInv, TypeOK, ObjectInv, Unstarted, Alone
<1>7. DelayInv'
  BY DelayFrame DEF IInv, TypeOK
<1>8. ChainsStayMapped'
  BY DEF IInv, TypeOK, SequenceInv, ChainsStayMapped, Sequenced
<1> QED BY <1>1, <1>2, <1>3, <1>4, <1>5, <1>6, <1>7, <1>8 DEF IInv

LEMMA FenceWaitStep ==
  ASSUME AllLocked, IInv, NEW m \in Movers, FenceWait(m)
  PROVE  IInv'
<1> USE MoversAssumption, WidthAssumption
    DEF AllLocked, FenceWait, Goto, callVars, fenceVars, sgVars, hwVars
<1>0. /\ dmaEmited' \in Seq(Movers) /\ ListedFences' \subseteq ListedFences
      /\ signaled' \subseteq transferred
  BY PollFacts DEF IInv
<1>1. ReferenceInv'
  BY DEF IInv, TypeOK, ReferenceInv, ObjectInv, Unstarted
<1>2. TypeOK'
  BY <1>0, <1>1 DEF IInv, TypeOK, ReferenceInv
<1>3. AloneInv'
  BY DEF IInv, TypeOK, AloneInv, Alone
<1>4. SequenceInv'
  BY DEF IInv, TypeOK, AloneInv, SequenceInv, Alone, Sequenced, Unstarted,
         Emitted
<1>5. FenceInv'
  BY <1>0, FenceFrame DEF IInv
<1>6. ObjectInv'
  BY DEF IInv, TypeOK, ObjectInv, Unstarted, Alone
<1>7. DelayInv'
  BY DelayFrame DEF IInv, TypeOK
<1>8. ChainsStayMapped'
  BY DEF IInv, TypeOK, SequenceInv, ChainsStayMapped, Sequenced
<1> QED BY <1>1, <1>2, <1>3, <1>4, <1>5, <1>6, <1>7, <1>8 DEF IInv

LEMMA ReleaseNowStep ==
  ASSUME AllLocked, IInv, NEW m \in Movers, ReleaseNow(m)
  PROVE  IInv'
<1> USE MoversAssumption, WidthAssumption
    DEF AllLocked, ReleaseNow, Unref, Goto, callVars, fenceVars, sgVars, hwVars
<1>0. /\ dmaEmited' \in Seq(Movers) /\ ListedFences' \subseteq ListedFences
      /\ signaled' \subseteq transferred /\ m \in transferred
  BY PollFacts DEF IInv
<1>1. ReferenceInv'
  BY DEF IInv, TypeOK, ReferenceInv, ObjectInv, Unstarted
<1>2. TypeOK'
  <2>1. refs' \in [Movers -> Int] /\ sg' \in [Movers -> {"none", "built", "freed"}]
    BY DEF IInv, TypeOK
  <2>2. \A n \in Movers : refs'[n] \in Nat
    BY <1>1 DEF ReferenceInv
  <2>3. refs' \in [Movers -> Nat]
    BY <2>1, <2>2
  <2>4. signaled' \subseteq Movers
    BY <1>0 DEF IInv, TypeOK
  <2> QED BY <1>0, <2>1, <2>3, <2>4 DEF IInv, TypeOK
<1>3. AloneInv'
  BY DEF IInv, TypeOK, AloneInv, Alone
<1>4. SequenceInv'
  BY <1>0 DEF IInv, TypeOK, AloneInv, SequenceInv, Alone, Sequenced, Unstarted,
              Emitted
<1>5. FenceInv'
  BY <1>0, FenceFrame DEF IInv
<1>6. ObjectInv'
  BY DEF IInv, TypeOK, ObjectInv, Unstarted, Alone
<1>7. DelayInv'
  BY DelayFrame DEF IInv, TypeOK
<1>8. ChainsStayMapped'
  BY <1>0 DEF IInv, TypeOK, SequenceInv, ChainsStayMapped, Sequenced
<1> QED BY <1>1, <1>2, <1>3, <1>4, <1>5, <1>6, <1>7, <1>8 DEF IInv

LEMMA ReleaseLaterStep ==
  ASSUME AllLocked, IInv, NEW m \in Movers, ReleaseLater(m)
  PROVE  IInv'
<1> USE MoversAssumption, WidthAssumption
    DEF AllLocked, ReleaseLater, Goto, callVars, fenceVars, sgVars, hwVars
<1>0. /\ dmaEmited' \in Seq(Movers) /\ ListedFences' \subseteq ListedFences
      /\ signaled' \subseteq transferred
  BY PollFacts DEF IInv
<1>1. ReferenceInv'
  BY DEF IInv, TypeOK, ReferenceInv, ObjectInv, Unstarted
<1>2. TypeOK'
  BY <1>0, <1>1 DEF IInv, TypeOK, ReferenceInv
<1>3. AloneInv'
  BY DEF IInv, TypeOK, AloneInv, Alone
<1>4. SequenceInv'
  BY DEF IInv, TypeOK, AloneInv, SequenceInv, Alone, Sequenced, Unstarted,
         Emitted
<1>5. FenceInv'
  BY <1>0, FenceFrame DEF IInv
<1>6. ObjectInv'
  BY DEF IInv, TypeOK, ObjectInv, Unstarted, Alone
<1>7. DelayInv'
  BY DelayFrame DEF IInv, TypeOK
<1>8. ChainsStayMapped'
  BY DEF IInv, TypeOK, SequenceInv, ChainsStayMapped, Sequenced
<1> QED BY <1>1, <1>2, <1>3, <1>4, <1>5, <1>6, <1>7, <1>8 DEF IInv

LEMMA DelayDestroyStep ==
  ASSUME AllLocked, IInv, NEW m \in Movers, DelayDestroy(m)
  PROVE  IInv'
<1> USE MoversAssumption, WidthAssumption
    DEF AllLocked, DelayDestroy, Goto, callVars, fenceVars, sgVars, hwVars
<1>1. ReferenceInv'
  BY DEF IInv, TypeOK, ReferenceInv, ObjectInv, Unstarted
<1>2. TypeOK'
  BY <1>1 DEF IInv, TypeOK, ReferenceInv
<1>3. AloneInv'
  BY DEF IInv, TypeOK, AloneInv, Alone
<1>4. SequenceInv'
  BY DEF IInv, TypeOK, AloneInv, SequenceInv, Alone, Sequenced, Unstarted,
         Emitted
<1>5. FenceInv'
  BY DEF IInv, TypeOK, AloneInv, SequenceInv, FenceInv, FenceIsItsOwn, Alone,
         Sequenced, ListedFences, Emitted
<1>6. ObjectInv'
  BY DEF IInv, TypeOK, ObjectInv, Unstarted, Alone
<1>7. DelayInv'
  <2>1. \A i \in 1 .. Len(ddestory) : ddestory[i] \in Movers /\ ddestory[i] /= m
    BY NotDelayed DEF IInv
  <2>2. /\ Len(ddestory') = Len(ddestory) + 1 /\ ddestory'[Len(ddestory) + 1] = m
        /\ \A i \in 1 .. Len(ddestory) : ddestory'[i] = ddestory[i]
        /\ Len(ddestory) \in Nat
    BY DEF IInv, TypeOK
  <2>3. sg[m] = "built" /\ pc'[m] = "schedule"
        /\ \A n \in Movers \ {m} : pc'[n] = pc[n]
    BY DEF IInv, TypeOK, ObjectInv
  <2>4. \A i \in 1 .. Len(ddestory') :
          i \in 1 .. Len(ddestory) \/ (i = Len(ddestory) + 1 /\ ddestory'[i] = m)
    BY <2>2
  <2>5. UNCHANGED sg
    OBVIOUS
  <2>6. \A i \in 1 .. Len(ddestory') :
          sg'[ddestory'[i]] = "built" /\ pc'[ddestory'[i]] \in {"schedule", "moved"}
    BY <2>1, <2>2, <2>3, <2>4, <2>5 DEF IInv, DelayInv
  <2>7. \A i, j \in 1 .. Len(ddestory') : ddestory'[i] = ddestory'[j] => i = j
    BY <2>1, <2>2, <2>4 DEF IInv, DelayInv
  <2> QED BY <2>6, <2>7 DEF DelayInv
<1>8. ChainsStayMapped'
  BY DEF IInv, TypeOK, SequenceInv, ChainsStayMapped, Sequenced
<1> QED BY <1>1, <1>2, <1>3, <1>4, <1>5, <1>6, <1>7, <1>8 DEF IInv

LEMMA ScheduleWorkStep ==
  ASSUME AllLocked, IInv, NEW m \in Movers, ScheduleWork(m)
  PROVE  IInv'
<1> USE MoversAssumption, WidthAssumption
    DEF AllLocked, ScheduleWork, Goto, callVars, fenceVars, sgVars, hwVars
<1>1. ReferenceInv'
  BY DEF IInv, TypeOK, ReferenceInv, ObjectInv, Unstarted
<1>2. TypeOK'
  BY <1>1 DEF IInv, TypeOK, ReferenceInv
<1>3. AloneInv'
  BY DEF IInv, TypeOK, AloneInv, Alone
<1>4. SequenceInv'
  BY DEF IInv, TypeOK, AloneInv, SequenceInv, Alone, Sequenced, Unstarted,
         Emitted
<1>5. FenceInv'
  BY DEF IInv, TypeOK, AloneInv, SequenceInv, FenceInv, FenceIsItsOwn, Alone,
         Sequenced, ListedFences, Emitted
<1>6. ObjectInv'
  BY DEF IInv, TypeOK, ObjectInv, Unstarted, Alone
<1>7. DelayInv'
  BY DelayFrame DEF IInv, TypeOK
<1>8. ChainsStayMapped'
  BY DEF IInv, TypeOK, SequenceInv, ChainsStayMapped, Sequenced
<1> QED BY <1>1, <1>2, <1>3, <1>4, <1>5, <1>6, <1>7, <1>8 DEF IInv

LEMMA WorkStartsStep ==
  ASSUME AllLocked, IInv, WorkStarts
  PROVE  IInv'
<1> USE MoversAssumption, WidthAssumption
    DEF AllLocked, WorkStarts, Goto, callVars, fenceVars, sgVars, hwVars
<1>1. ReferenceInv'
  BY DEF IInv, TypeOK, ReferenceInv, ObjectInv, Unstarted
<1>2. TypeOK'
  BY <1>1 DEF IInv, TypeOK, ReferenceInv
<1>3. AloneInv'
  BY DEF IInv, TypeOK, AloneInv, Alone
<1>4. SequenceInv'
  BY DEF IInv, TypeOK, AloneInv, SequenceInv, Alone, Sequenced, Unstarted,
         Emitted
<1>5. FenceInv'
  BY DEF IInv, TypeOK, AloneInv, SequenceInv, FenceInv, FenceIsItsOwn, Alone,
         Sequenced, ListedFences, Emitted
<1>6. ObjectInv'
  BY DEF IInv, TypeOK, ObjectInv, Unstarted, Alone
<1>7. DelayInv'
  BY DEF IInv, DelayInv
<1>8. ChainsStayMapped'
  BY DEF IInv, TypeOK, SequenceInv, ChainsStayMapped, Sequenced
<1> QED BY <1>1, <1>2, <1>3, <1>4, <1>5, <1>6, <1>7, <1>8 DEF IInv

LEMMA RemoveFirstStep ==
  ASSUME AllLocked, IInv, RemoveFirst
  PROVE  IInv'
<1> USE MoversAssumption, WidthAssumption
    DEF AllLocked, RemoveFirst, Unref, Goto, callVars, fenceVars, sgVars, hwVars
<1> DEFINE h == Head(ddestory)
<1>h. /\ h \in Movers /\ sg[h] = "built" /\ pc[h] \in {"schedule", "moved"}
      /\ Len(ddestory) \in Nat \ {0}
      /\ ddestory' \in Seq(Movers) /\ Len(ddestory') = Len(ddestory) - 1
      /\ \A i \in 1 .. Len(ddestory') : ddestory'[i] = ddestory[i + 1]
  BY HeadTailProperties DEF IInv, TypeOK, DelayInv
<1>0. /\ dmaEmited' \in Seq(Movers) /\ ListedFences' \subseteq ListedFences
      /\ signaled' \subseteq transferred /\ h \in transferred
  BY <1>h, PollFacts DEF IInv
<1>1. ReferenceInv'
  BY <1>h, SMTT(30) DEF IInv, TypeOK, ReferenceInv, ObjectInv, Unstarted
<1>2. TypeOK'
  <2>1. refs' \in [Movers -> Int] /\ sg' \in [Movers -> {"none", "built", "freed"}]
    BY <1>h DEF IInv, TypeOK
  <2>2. \A n \in Movers : refs'[n] \in Nat
    BY <1>1 DEF ReferenceInv
  <2>3. refs' \in [Movers -> Nat]
    BY <2>1, <2>2
  <2>4. signaled' \subseteq Movers
    BY <1>0 DEF IInv, TypeOK
  <2> QED BY <1>0, <1>h, <2>1, <2>3, <2>4 DEF IInv, TypeOK
<1>3. AloneInv'
  BY DEF IInv, TypeOK, AloneInv, Alone
<1>4. SequenceInv'
  BY <1>0, <1>h DEF IInv, TypeOK, AloneInv, SequenceInv, Alone, Sequenced,
                    Unstarted, Emitted
<1>5. FenceInv'
  BY <1>0, FenceFrame DEF IInv
<1>6. ObjectInv'
  BY <1>h DEF IInv, TypeOK, ObjectInv, Unstarted, Alone
<1>7. DelayInv'
  <2>1. \A i \in 1 .. Len(ddestory') :
           /\ i + 1 \in 1 .. Len(ddestory) /\ ddestory'[i] = ddestory[i + 1]
           /\ ddestory[i + 1] \in Movers /\ ddestory[i + 1] /= h
    <3> SUFFICES ASSUME NEW i \in 1 .. Len(ddestory')
                 PROVE  /\ i + 1 \in 1 .. Len(ddestory)
                        /\ ddestory'[i] = ddestory[i + 1]
                        /\ ddestory[i + 1] \in Movers /\ ddestory[i + 1] /= h
      OBVIOUS
    <3>1. i + 1 \in 1 .. Len(ddestory) /\ 1 \in 1 .. Len(ddestory)
      BY <1>h
    <3>2. ddestory[1] = h /\ ddestory[i + 1] \in Movers
      BY <3>1 DEF IInv, TypeOK
    <3>3. ddestory[i + 1] /= h
      BY <3>1, <3>2 DEF IInv, DelayInv
    <3> QED BY <1>h, <3>1, <3>2, <3>3
  <2>2. \A n \in Movers : n /= h => sg'[n] = sg[n]
    BY DEF IInv, TypeOK
  <2> QED BY <2>1, <2>2 DEF IInv, DelayInv
<1>8. ChainsStayMapped'
  BY <1>0, <1>h DEF IInv, TypeOK, SequenceInv, ChainsStayMapped, Sequenced
<1> QED BY <1>1, <1>2, <1>3, <1>4, <1>5, <1>6, <1>7, <1>8 DEF IInv

LEMMA RemovedAllStep ==
  ASSUME AllLocked, IInv, RemovedAll
  PROVE  IInv'
<1> USE MoversAssumption, WidthAssumption
    DEF AllLocked, RemovedAll, Goto, callVars, fenceVars, sgVars, hwVars
<1>1. ReferenceInv'
  BY DEF IInv, TypeOK, ReferenceInv, ObjectInv, Unstarted
<1>2. TypeOK'
  BY <1>1 DEF IInv, TypeOK, ReferenceInv
<1>3. AloneInv'
  BY DEF IInv, TypeOK, AloneInv, Alone
<1>4. SequenceInv'
  BY DEF IInv, TypeOK, AloneInv, SequenceInv, Alone, Sequenced, Unstarted,
         Emitted
<1>5. FenceInv'
  BY DEF IInv, TypeOK, AloneInv, SequenceInv, FenceInv, FenceIsItsOwn, Alone,
         Sequenced, ListedFences, Emitted
<1>6. ObjectInv'
  BY DEF IInv, TypeOK, ObjectInv, Unstarted, Alone
<1>7. DelayInv'
  BY DEF IInv, DelayInv
<1>8. ChainsStayMapped'
  BY DEF IInv, TypeOK, SequenceInv, ChainsStayMapped, Sequenced
<1> QED BY <1>1, <1>2, <1>3, <1>4, <1>5, <1>6, <1>7, <1>8 DEF IInv

LEMMA FirstIsBusyStep ==
  ASSUME AllLocked, IInv, FirstIsBusy
  PROVE  IInv'
<1> USE MoversAssumption, WidthAssumption
    DEF AllLocked, FirstIsBusy, Goto, callVars, fenceVars, sgVars, hwVars
<1>h. Head(ddestory) \in Movers
  BY DEF IInv, TypeOK
<1>0. /\ dmaEmited' \in Seq(Movers) /\ ListedFences' \subseteq ListedFences
      /\ signaled' \subseteq transferred
  BY <1>h, PollFacts DEF IInv
<1>1. ReferenceInv'
  BY DEF IInv, TypeOK, ReferenceInv, ObjectInv, Unstarted
<1>2. TypeOK'
  BY <1>0, <1>1 DEF IInv, TypeOK, ReferenceInv
<1>3. AloneInv'
  BY DEF IInv, TypeOK, AloneInv, Alone
<1>4. SequenceInv'
  BY DEF IInv, TypeOK, AloneInv, SequenceInv, Alone, Sequenced, Unstarted,
         Emitted
<1>5. FenceInv'
  BY <1>0, FenceFrame DEF IInv
<1>6. ObjectInv'
  BY DEF IInv, TypeOK, ObjectInv, Unstarted, Alone
<1>7. DelayInv'
  BY DEF IInv, DelayInv
<1>8. ChainsStayMapped'
  BY DEF IInv, TypeOK, SequenceInv, ChainsStayMapped, Sequenced
<1> QED BY <1>1, <1>2, <1>3, <1>4, <1>5, <1>6, <1>7, <1>8 DEF IInv

LEMMA RescheduleStep ==
  ASSUME AllLocked, IInv, Reschedule
  PROVE  IInv'
<1> USE MoversAssumption, WidthAssumption
    DEF AllLocked, Reschedule, Goto, callVars, fenceVars, sgVars, hwVars
<1>1. ReferenceInv'
  BY DEF IInv, TypeOK, ReferenceInv, ObjectInv, Unstarted
<1>2. TypeOK'
  BY <1>1 DEF IInv, TypeOK, ReferenceInv
<1>3. AloneInv'
  BY DEF IInv, TypeOK, AloneInv, Alone
<1>4. SequenceInv'
  BY DEF IInv, TypeOK, AloneInv, SequenceInv, Alone, Sequenced, Unstarted,
         Emitted
<1>5. FenceInv'
  BY DEF IInv, TypeOK, AloneInv, SequenceInv, FenceInv, FenceIsItsOwn, Alone,
         Sequenced, ListedFences, Emitted
<1>6. ObjectInv'
  BY DEF IInv, TypeOK, ObjectInv, Unstarted, Alone
<1>7. DelayInv'
  BY DEF IInv, DelayInv
<1>8. ChainsStayMapped'
  BY DEF IInv, TypeOK, SequenceInv, ChainsStayMapped, Sequenced
<1> QED BY <1>1, <1>2, <1>3, <1>4, <1>5, <1>6, <1>7, <1>8 DEF IInv

LEMMA EngineCompletesStep ==
  ASSUME AllLocked, IInv, EngineCompletes
  PROVE  IInv'
<1> USE MoversAssumption, WidthAssumption
    DEF AllLocked, EngineCompletes, Goto, callVars, fenceVars, sgVars, hwVars
<1>1. ReferenceInv'
  BY DEF IInv, TypeOK, ReferenceInv, ObjectInv, Unstarted
<1>2. TypeOK'
  BY <1>1 DEF IInv, TypeOK, ReferenceInv
<1>3. AloneInv'
  BY DEF IInv, TypeOK, AloneInv, Alone
<1>4. SequenceInv'
  <2>1. engine \in Movers /\ sequence[engine] = dmaSeq
        /\ fenceBuf = dmaSeq
    BY DEF IInv, TypeOK, SequenceInv, FenceInv, FenceIsItsOwn
  <2>2. \A m \in Movers : pc[m] \notin Sequenced
    BY <2>1 DEF IInv, AloneInv, Alone, Sequenced
  <2>3. /\ engine' = None /\ sync' = dmaSeq /\ transferred' = transferred \cup {engine}
        /\ UNCHANGED <<pc, dmaSeq, sequence, sg, fenceBuf>>
    BY <2>1
  <2>4. sequence[engine] > 0
    BY <2>1 DEF IInv, SequenceInv, TypeOK
  <2> QED
    BY <2>1, <2>2, <2>3, <2>4
    DEF IInv, TypeOK, SequenceInv, Emitted, Sequenced, Unstarted
<1>5. FenceInv'
  BY DEF IInv, TypeOK, AloneInv, SequenceInv, FenceInv, FenceIsItsOwn, Alone,
         Sequenced, ListedFences, Emitted
<1>6. ObjectInv'
  BY DEF IInv, TypeOK, ObjectInv, Unstarted, Alone
<1>7. DelayInv'
  BY DEF IInv, DelayInv
<1>8. ChainsStayMapped'
  BY DEF IInv, TypeOK, SequenceInv, ChainsStayMapped, Sequenced
<1> QED BY <1>1, <1>2, <1>3, <1>4, <1>5, <1>6, <1>7, <1>8 DEF IInv

LEMMA BufferIdleStep ==
  ASSUME AllLocked, IInv, NEW m \in Movers, BufferIdle(m)
  PROVE  IInv'
<1> USE MoversAssumption, WidthAssumption
    DEF AllLocked, BufferIdle, Unref, Goto, callVars, fenceVars, sgVars, hwVars
<1>0. /\ dmaEmited' \in Seq(Movers) /\ ListedFences' \subseteq ListedFences
      /\ signaled' \subseteq transferred
  BY PollFacts DEF IInv
<1>1. ReferenceInv'
  BY DEF IInv, TypeOK, ReferenceInv, ObjectInv, Unstarted
<1>2. TypeOK'
  <2>1. refs' \in [Movers -> Int] /\ sg' \in [Movers -> {"none", "built", "freed"}]
    BY DEF IInv, TypeOK
  <2>2. \A n \in Movers : refs'[n] \in Nat
    BY <1>1 DEF ReferenceInv
  <2>3. refs' \in [Movers -> Nat]
    BY <2>1, <2>2
  <2>4. signaled' \subseteq Movers
    BY <1>0 DEF IInv, TypeOK
  <2> QED BY <1>0, <2>1, <2>3, <2>4 DEF IInv, TypeOK
<1>3. AloneInv'
  BY DEF IInv, TypeOK, AloneInv, Alone
<1>4. SequenceInv'
  BY DEF IInv, TypeOK, AloneInv, SequenceInv, Alone, Sequenced, Unstarted,
         Emitted
<1>5. FenceInv'
  BY <1>0, FenceFrame DEF IInv
<1>6. ObjectInv'
  BY DEF IInv, TypeOK, ObjectInv, Unstarted, Alone
<1>7. DelayInv'
  BY DelayFrame DEF IInv, TypeOK
<1>8. ChainsStayMapped'
  BY DEF IInv, TypeOK, SequenceInv, ChainsStayMapped, Sequenced
<1> QED BY <1>1, <1>2, <1>3, <1>4, <1>5, <1>6, <1>7, <1>8 DEF IInv

-----------------------------------------------------------------------------
(* The theorems *)

LEMMA InitIInv == Init => IInv
<1> SUFFICES ASSUME Init PROVE IInv
  OBVIOUS
<1> USE MoversAssumption DEF Init
<1>1. Emitted = {} /\ Cardinality({}) = 0
  BY FS_EmptySet DEF Emitted
<1>2. TypeOK
  <2>1. <<>> \in Seq(Movers)
    OBVIOUS
  <2> QED BY <2>1 DEF TypeOK
<1>3. SequenceInv
  BY <1>1 DEF SequenceInv, Sequenced, Unstarted
<1>4. FenceInv
  BY DEF FenceInv, FenceIsItsOwn, ListedFences
<1>5. AloneInv /\ ReferenceInv /\ ObjectInv /\ DelayInv /\ ChainsStayMapped
  BY DEF AloneInv, Alone, ReferenceInv, Unstarted, ObjectInv, DelayInv,
         ChainsStayMapped
<1> QED BY <1>2, <1>3, <1>4, <1>5 DEF IInv

LEMMA StutterStep ==
  ASSUME IInv, UNCHANGED vars
  PROVE  IInv'
<1>1. /\ UNCHANGED <<pc, bkl, smLock, dmaSeq, sequence, dmaEmited>>
      /\ UNCHANGED <<signaled, refs, boFence, sg, ddestory, work>>
      /\ UNCHANGED <<worker, fenceBuf, sync, engine, transferred>>
  BY DEF vars, callVars, fenceVars, sgVars, hwVars
<1>2. TypeOK' /\ AloneInv' /\ SequenceInv'
  BY <1>1 DEF IInv, TypeOK, AloneInv, SequenceInv, Emitted
<1>3. FenceInv' /\ ReferenceInv' /\ ObjectInv' /\ DelayInv' /\ ChainsStayMapped'
  BY <1>1 DEF IInv, FenceInv, FenceIsItsOwn, ListedFences, Emitted,
              ReferenceInv,
              ObjectInv, DelayInv, ChainsStayMapped
<1> QED BY <1>2, <1>3 DEF IInv

LEMMA NextStep ==
  ASSUME AllLocked, NoWrap, IInv, [Next]_vars
  PROVE  IInv'
<1>1. ASSUME NEW m \in Movers, Step(m) PROVE IInv'
  BY <1>1, RefuseStep, BuildStep, BuildFailsStep, WaitDmaIdleStep,
     TakeSequenceStep, ListFenceStep, WriteFenceStep, FireStep, AccelCleanupStep,
     FenceWaitStep, ReleaseNowStep, ReleaseLaterStep, DelayDestroyStep,
     ScheduleWorkStep DEF Step
<1>2. ASSUME NEW m \in Movers, BufferIdle(m) PROVE IInv'
  BY <1>2, BufferIdleStep
<1>3. CASE Work
  BY <1>3, WorkStartsStep, RemoveFirstStep, RemovedAllStep, FirstIsBusyStep,
     RescheduleStep DEF Work
<1>4. CASE EngineCompletes
  BY <1>4, EngineCompletesStep
<1>5. CASE UNCHANGED vars
  BY <1>5, StutterStep
<1> QED BY <1>1, <1>2, <1>3, <1>4, <1>5 DEF Next

LEMMA Invariance ==
  ASSUME AllLocked, NoWrap
  PROVE  Spec => []IInv
<1>1. IInv /\ [Next]_vars => IInv'
  BY NextStep
<1> QED BY InitIInv, <1>1, PTL DEF Spec

(* Every variable keeps its type; so no reference count of a fence ever    *)
(* falls below what its holders still own.                                 *)
THEOREM MoveTypeCorrect ==
  ASSUME AllLocked, NoWrap
  PROVE  Spec => []TypeOK
<1>1. IInv => TypeOK
  BY DEF IInv
<1> QED BY Invariance, <1>1, PTL

(* chrome_move: under the big kernel lock, the chain the engine runs will  *)
(* publish the sequence of its own call.                                   *)
THEOREM FencesAreTheirOwn ==
  ASSUME AllLocked, NoWrap
  PROVE  Spec => []FenceIsItsOwn
<1>1. IInv => FenceIsItsOwn
  BY DEF IInv, FenceInv
<1> QED BY Invariance, <1>1, PTL

(* chrome_fence_poll_locked never signals a fence before its data are      *)
(* transferred, as long as the sequences do not wrap.                      *)
THEOREM SignalsAreTrue ==
  ASSUME AllLocked, NoWrap
  PROVE  Spec => []SignaledIsOver
<1>1. IInv => SignaledIsOver
  BY PolledIsTransferred DEF IInv, FenceInv, SignaledIsOver
<1> QED BY Invariance, <1>1, PTL

(* chrome_release_sg_obj never frees a chain the engine is reading. *)
THEOREM NeverUnmapsARunningChain ==
  ASSUME AllLocked, NoWrap
  PROVE  Spec => []ChainsStayMapped
<1>1. IInv => ChainsStayMapped
  BY DEF IInv
<1> QED BY Invariance, <1>1, PTL

-----------------------------------------------------------------------------
(* The delayed list and the evictions *)

LEMMA WillComeStep ==
  ASSUME SomebodyWillCome, TypeOK, [Next]_vars
  PROVE  SomebodyWillCome'
<1> USE DEF SomebodyWillCome, callVars, fenceVars, sgVars, hwVars, Goto
<1>1. ASSUME NEW m \in Movers, Step(m), pc[m] \notin {"delay", "schedule"}
      PROVE  SomebodyWillCome'
  <2>1. UNCHANGED <<ddestory, work, worker>>
    BY <1>1 DEF Step, Refuse, Build, BuildFails, WaitDmaIdle, TakeSequence,
                ListFence, WriteFence, Fire, AccelCleanup, FenceWait, ReleaseNow,
                ReleaseLater, DelayDestroy, ScheduleWork
  <2>2. \E step : Goto(m, step)
    BY <1>1 DEF Step, Refuse, Build, BuildFails, WaitDmaIdle, TakeSequence,
                ListFence, WriteFence, Fire, AccelCleanup, FenceWait, ReleaseNow,
                ReleaseLater, DelayDestroy, ScheduleWork
  <2>3. \A n \in Movers : pc[n] = "schedule" => pc'[n] = "schedule"
    BY <1>1, <2>2 DEF TypeOK
  <2> QED BY <2>1, <2>3
<1>2. ASSUME NEW m \in Movers, DelayDestroy(m) PROVE SomebodyWillCome'
  BY <1>2 DEF DelayDestroy, TypeOK
<1>3. ASSUME NEW m \in Movers, ScheduleWork(m) PROVE SomebodyWillCome'
  BY <1>3 DEF ScheduleWork
<1>4. ASSUME NEW m \in Movers, Step(m), pc[m] \in {"delay", "schedule"}
      PROVE  DelayDestroy(m) \/ ScheduleWork(m)
  BY <1>4 DEF Step, Refuse, Build, BuildFails, WaitDmaIdle, TakeSequence,
              ListFence, WriteFence, Fire, AccelCleanup, FenceWait, ReleaseNow,
              ReleaseLater
<1>5. CASE Work
  <2>1. CASE WorkStarts
    BY <2>1 DEF WorkStarts
  <2>2. CASE RemoveFirst
    BY <2>2 DEF RemoveFirst
  <2>3. CASE RemovedAll
    BY <2>3 DEF RemovedAll
  <2>4. CASE FirstIsBusy
    BY <2>4 DEF FirstIsBusy
  <2>5. CASE Reschedule
    BY <2>5 DEF Reschedule
  <2> QED BY <1>5, <2>1, <2>2, <2>3, <2>4, <2>5 DEF Work
<1>6. ASSUME NEW m \in Movers, BufferIdle(m) PROVE SomebodyWillCome'
  BY <1>6 DEF BufferIdle
<1>7. CASE EngineCompletes
  BY <1>7 DEF EngineCompletes
<1>8. CASE UNCHANGED vars
  BY <1>8 DEF vars
<1> QED BY <1>1, <1>2, <1>3, <1>4, <1>5, <1>6, <1>7, <1>8 DEF Next

(* chrome_sg_delayed_workqueue: a list with an object on it always has a   *)
(* work pending or running, or a call about to schedule it.                *)
THEOREM DelayedIsScheduled ==
  ASSUME AllLocked, NoWrap
  PROVE  Spec => []SomebodyWillCome
<1>1. Init => SomebodyWillCome
  BY DEF Init, SomebodyWillCome
<1>2. SomebodyWillCome /\ TypeOK /\ [Next]_vars => SomebodyWillCome'
  BY WillComeStep
<1> QED BY <1>1, <1>2, MoveTypeCorrect, PTL DEF Spec

LEMMA EvictedStep ==
  ASSUME EvictedIsOver, IInv, [Next]_vars
  PROVE  EvictedIsOver'
<1> USE MoversAssumption DEF EvictedIsOver, callVars, fenceVars, sgVars, hwVars, Goto
<1>1. ASSUME NEW m \in Movers, Step(m) PROVE EvictedIsOver'
  <2>1. CASE AccelCleanup(m)
    BY <2>1 DEF AccelCleanup, IInv, TypeOK
  <2>2. CASE FenceWait(m)
    <3>1. m \notin Late => m \in transferred
      <4>1. m \notin Late => Poll(m, TRUE)
        BY <2>2 DEF FenceWait
      <4> QED BY <4>1, PollFacts DEF IInv
    <3> QED BY <2>2, <3>1 DEF FenceWait, IInv, TypeOK
  <2>3. ASSUME ~ AccelCleanup(m), ~ FenceWait(m)
        PROVE  /\ UNCHANGED <<boFence, transferred>>
               /\ pc[m] /= "wait_fence" /\ \E step : Goto(m, step)
    BY <1>1, <2>3 DEF Step, Refuse, Build, BuildFails, WaitDmaIdle,
                      TakeSequence,
         ListFence, WriteFence, Fire, ReleaseNow, ReleaseLater, DelayDestroy,
         ScheduleWork
  <2>4. CASE ~ AccelCleanup(m) /\ ~ FenceWait(m)
    <3>1. \A n \in Movers : pc[n] = "wait_fence" => pc'[n] = "wait_fence"
      BY <2>3, <2>4 DEF IInv, TypeOK
    <3>2. UNCHANGED <<boFence, transferred>>
      BY <2>3, <2>4
    <3> QED BY <3>1, <3>2
  <2> QED BY <2>1, <2>2, <2>4
<1>2. CASE Work
  BY <1>2 DEF Work, WorkStarts, RemoveFirst, RemovedAll, FirstIsBusy,
              Reschedule
<1>3. ASSUME NEW m \in Movers, BufferIdle(m) PROVE EvictedIsOver'
  BY <1>3 DEF BufferIdle
<1>4. CASE EngineCompletes
  BY <1>4 DEF EngineCompletes
<1>5. CASE UNCHANGED vars
  BY <1>5 DEF vars
<1> QED BY <1>1, <1>2, <1>3, <1>4, <1>5 DEF Next

(* Unless its wait times out, an eviction goes on only after the engine    *)
(* has read the old space of the buffer.                                   *)
THEOREM EvictionsAreOver ==
  ASSUME AllLocked, NoWrap
  PROVE  Spec => []EvictedIsOver
<1>1. Init => EvictedIsOver
  BY DEF Init, EvictedIsOver
<1>2. EvictedIsOver /\ IInv /\ [Next]_vars => EvictedIsOver'
  BY EvictedStep
<1> QED BY <1>1, <1>2, Invariance, PTL DEF Spec

-----------------------------------------------------------------------------
(***************************************************************************)
(* The chain of one move: that it stays inside its pages, and that the     *)
(* walk back undoes what the build has done, for pages of any size and     *)
(* buffers of any length.                                                  *)
(*                                                                         *)
(* The descriptors are numbered through the pages by Index.  The build has *)
(* written those up to pnum, each leading to the one before; the walk has  *)
(* left those below walk.left, whose last one is where cur_desc and `next' *)
(* meet.                                                                   *)
(***************************************************************************)

Place == Nat \X (0 .. DescPerPage - 1)
Index(p) == p[1] * DescPerPage + p[2]
Below(n) == {p \in Place : Index(p) < n}

Allocated == {"cmd", "fence", "page", "built", "unmap"}

AllocInv ==
  /\ bo \in Buffers
  /\ stage \in Allocated \cup {"build", "no_array", "undo", "failed", "oops", "freed"}
  /\ stage \in Allocated => numDesc = bo.pages + 1 /\ descPages = 0 .. PagesFor(numDesc) - 1
  /\ stage \in {"failed", "freed"} => descPages = {} /\ ~array /\ ~cmdTmp

(* The bytes still mapped of each page, when those from the n-th on have had *)
(* their descriptor's size unmapped.                                         *)
MappedBelow(n, pages) ==
  [m \in 0 .. pages - 1 |-> IF m < n THEN PageSize ELSE PageSize - PageSize \div 16]

EmptyInv == stage \in {"build", "cmd", "fence"} =>
  /\ DOMAIN desc = {} /\ mappedMem = <<>> /\ strange = {}
  /\ ptr = <<0, 0>> /\ pnum = 0 /\ next = EndOfChain

PageInv == stage \in {"page", "built"} =>
  /\ pnum \in 0 .. bo.pages /\ (stage = "built" => pnum = bo.pages)
  /\ DOMAIN desc = Below(pnum + 1) /\ mappedDesc = Below(pnum + 1)
  /\ mappedMem = MappedBelow(pnum, pnum) /\ strange = {}
  /\ next \in Place /\ Index(next) = pnum
  /\ ptr \in Place /\ Index(ptr) = pnum + 1

ChainInv == stage \in {"page", "built", "unmap"} =>
  \A p \in DOMAIN desc :
    /\ desc[p].mem = Index(p) - 1 /\ desc[p].dev = Index(p) - 1
    /\ desc[p].size = SizeOf(Index(p) - 1)
    /\ IF Index(p) > 0 THEN desc[p].next \in Place /\ Index(desc[p].next) = Index(p) - 1
                        ELSE desc[p].next = EndOfChain

WalkInv == stage = "unmap" =>
  /\ walk.left \in 0 .. numDesc /\ DOMAIN desc = Below(numDesc)
  /\ mappedDesc = Below(walk.left) /\ mappedMem = MappedBelow(walk.left - 1, numDesc - 1)
  /\ strange = IF walk.left = 0 THEN {<<Fence, 1>>} ELSE {}
  /\ <<walk.page, walk.this>> \in Place /\ Index(<<walk.page, walk.this>>) = walk.left
  /\ walk.idx = walk.this - 1
  /\ walk.left > 0 => walk.next \in Place /\ Index(walk.next) = walk.left - 1

FreedInv == stage = "freed" =>
  /\ mappedMem = MappedBelow(0, bo.pages)
  /\ mappedDesc = {} /\ strange = {<<Fence, 1>>}

ChainIInv == AllocInv /\ EmptyInv /\ PageInv /\ ChainInv /\ WalkInv /\ FreedInv

-----------------------------------------------------------------------------
(* Multiplication keeps the order. *)
LEMMA TimesKeepsOrder ==
  ASSUME NEW a \in Nat, NEW b \in Nat, a <= b, NEW d \in Nat
  PROVE  a * d <= b * d
<1>1. PICK c \in Nat : b = a + c
  <2>1. b - a \in Nat /\ b = a + (b - a)  OBVIOUS
  <2> QED  BY <2>1
<1>2. b * d = a * d + c * d  BY <1>1
<1>3. c * d \in Nat /\ a * d \in Nat  BY <1>1
<1> QED  BY <1>2, <1>3

(* A descriptor's number is that of no other descriptor. *)
LEMMA IndexIsUnique ==
  ASSUME NEW p \in Place, NEW q \in Place, Index(p) = Index(q)
  PROVE  p = q
<1> USE DescAssumption
<1> DEFINE P == p[1] * DescPerPage
           Q == q[1] * DescPerPage
<1>1. /\ p[1] \in Nat /\ q[1] \in Nat /\ p[2] \in 0 .. DescPerPage - 1
      /\ q[2] \in 0 .. DescPerPage - 1 /\ p = <<p[1], p[2]>> /\ q = <<q[1], q[2]>>
  BY DEF Place
<1>2. P + p[2] = Q + q[2]  BY DEF Index
<1>3. P \in Nat /\ Q \in Nat  BY <1>1
<1>4. ASSUME p[1] < q[1]  PROVE FALSE
  <2>1. (p[1] + 1) * DescPerPage <= Q  BY <1>1, <1>4, TimesKeepsOrder
  <2>2. (p[1] + 1) * DescPerPage = P + DescPerPage  BY <1>1
  <2> HIDE DEF P, Q
  <2> QED  BY <1>1, <1>2, <1>3, <2>1, <2>2
<1>5. ASSUME q[1] < p[1]  PROVE FALSE
  <2>1. (q[1] + 1) * DescPerPage <= P  BY <1>1, <1>5, TimesKeepsOrder
  <2>2. (q[1] + 1) * DescPerPage = Q + DescPerPage  BY <1>1
  <2> HIDE DEF P, Q
  <2> QED  BY <1>1, <1>2, <1>3, <2>1, <2>2
<1>6. p[1] = q[1]  BY <1>1, <1>4, <1>5
<1> QED  BY <1>1, <1>2, <1>3, <1>6

LEMMA IndexType ==
  ASSUME NEW p \in Place
  PROVE  Index(p) \in Nat
<1>1. p[1] \in Nat /\ p[2] \in Nat  BY DescAssumption DEF Place
<1>2. p[1] * DescPerPage \in Nat  BY <1>1, DescAssumption
<1> QED  BY <1>1, <1>2 DEF Index

(* One more descriptor, or one less. *)
LEMMA OneMore ==
  ASSUME NEW p \in Place
  PROVE  Below(Index(p) + 1) = Below(Index(p)) \cup {p} /\ p \notin Below(Index(p))
<1>1. \A q \in Place : Index(q) < Index(p) + 1 <=> Index(q) < Index(p) \/ q = p
  BY IndexType, IndexIsUnique
<1> QED  BY <1>1, IndexType DEF Below

(* The pages allocated hold as many descriptors as are needed. *)
LEMMA EnoughPages ==
  ASSUME NEW n \in Nat, NEW p \in Below(n)
  PROVE  p \in (0 .. PagesFor(n) - 1) \X (0 .. DescPerPage - 1)
<1> USE DescAssumption
<1> DEFINE top == n + DescPerPage - 1
           k == top \div DescPerPage
           P == p[1] * DescPerPage
<1>1. p[1] \in Nat /\ p[2] \in 0 .. DescPerPage - 1 /\ p = <<p[1], p[2]>> /\ P + p[2] < n
  BY DEF Below, Place, Index
<1>2. top \in Nat /\ P \in Nat  BY <1>1
<1>3. k \in Nat /\ top < (k + 1) * DescPerPage
  <2> HIDE DEF top
  <2> QED  BY <1>2
<1>4. (p[1] + 1) * DescPerPage = P + DescPerPage  BY <1>1
<1>5. (p[1] + 1) * DescPerPage <= top
  <2> HIDE DEF P
  <2> QED  BY <1>1, <1>2, <1>4
<1>6. ~ (k < p[1] + 1)
  <2>1. SUFFICES ASSUME k + 1 <= p[1] + 1  PROVE FALSE  BY <1>1, <1>3
  <2>2. (k + 1) * DescPerPage <= (p[1] + 1) * DescPerPage
    BY <1>1, <1>3, <2>1, TimesKeepsOrder
  <2>3. (k + 1) * DescPerPage \in Nat /\ (p[1] + 1) * DescPerPage \in Nat  BY <1>1, <1>3
  <2> HIDE DEF k, top
  <2> QED  BY <1>2, <1>3, <1>5, <2>2, <2>3
<1>7. p[1] \in 0 .. k - 1
  <2> HIDE DEF k
  <2> QED  BY <1>1, <1>3, <1>6
<1> QED  BY <1>1, <1>7 DEF PagesFor

(* The division the walk starts with. *)
LEMMA StartFacts ==
  ASSUME NEW n \in Nat
  PROVE  /\ <<n \div DescPerPage, n % DescPerPage>> \in Place
         /\ Index(<<n \div DescPerPage, n % DescPerPage>>) = n
<1>1. n \div DescPerPage \in Nat  BY DescAssumption
<1>2. n % DescPerPage \in 0 .. DescPerPage - 1  BY DescAssumption
<1>3. (n \div DescPerPage) * DescPerPage + (n % DescPerPage) = n  BY DescAssumption
<1> QED  BY <1>1, <1>2, <1>3 DEF Place, Index

(* The next descriptor's place. *)
LEMMA AdvanceFacts ==
  ASSUME NEW p \in Place
  PROVE  Advance(p) \in Place /\ Index(Advance(p)) = Index(p) + 1
<1> USE DescAssumption
<1>1. p[1] \in Nat /\ p[2] \in 0 .. DescPerPage - 1 /\ p[1] * DescPerPage \in Nat
  BY DEF Place
<1>2. CASE p[2] + 1 >= DescPerPage
  <2>1. Advance(p) = <<p[1] + 1, 0>> /\ p[2] + 1 = DescPerPage  BY <1>1, <1>2 DEF Advance
  <2>2. (p[1] + 1) * DescPerPage = p[1] * DescPerPage + DescPerPage  BY <1>1
  <2> QED  BY <1>1, <2>1, <2>2 DEF Place, Index
<1>3. CASE ~ (p[2] + 1 >= DescPerPage)
  <2>1. Advance(p) = <<p[1], p[2] + 1>>  BY <1>3 DEF Advance
  <2> QED  BY <1>1, <1>3, <2>1 DEF Place, Index
<1> QED  BY <1>2, <1>3

-----------------------------------------------------------------------------
(* The steps *)

LEMMA ChainInitIInv == ChainInit => ChainIInv
  BY DEF ChainInit, ChainIInv, AllocInv, Allocated, EmptyInv, PageInv, ChainInv, WalkInv, FreedInv

LEMMA AllocDescsStep == ChainIInv /\ AllocDescs => ChainIInv'
<1> SUFFICES ASSUME ChainIInv, AllocDescs  PROVE ChainIInv'  OBVIOUS
<1>1. AllocInv'
  <2>1. bo \in Buffers /\ bo.pages \in Nat  BY BuffersAssumption DEF ChainIInv, AllocInv
  <2>2. numDesc' = bo.pages + 1 /\ bo' = bo  BY DEF AllocDescs, Needed
  <2>3. PagesFor(numDesc') \in Int  BY <2>1, <2>2, DescAssumption DEF PagesFor
  <2>4. CASE stage' = "no_array"  BY <2>1, <2>2, <2>4 DEF AllocInv, Allocated
  <2>5. CASE stage' # "no_array"
    <3>1. PICK n \in 0 .. PagesFor(numDesc') :
            /\ descPages' = 0 .. n - 1
            /\ stage' = IF n < PagesFor(numDesc') THEN "undo" ELSE "cmd"
      BY <2>5 DEF AllocDescs
    <3>2. stage' = "cmd" => n = PagesFor(numDesc')  BY <2>3, <3>1
    <3>3. stage' \in {"undo", "cmd"}  BY <3>1
    <3>4. AllocInv' = (/\ bo' \in Buffers
                       /\ stage' \in Allocated \cup {"build", "no_array", "undo", "failed", "oops", "freed"}
                       /\ stage' \in Allocated => numDesc' = bo'.pages + 1
                                              /\ descPages' = 0 .. PagesFor(numDesc') - 1
                       /\ stage' \in {"failed", "freed"} => descPages' = {} /\ ~array' /\ ~cmdTmp')
      BY DEF AllocInv, PagesFor, Allocated
    <3> QED  BY <2>1, <2>2, <3>1, <3>2, <3>3, <3>4 DEF Allocated
  <2> QED  BY <2>4, <2>5
<1>2. EmptyInv' /\ PageInv' /\ ChainInv' /\ WalkInv' /\ FreedInv'
  BY DEF ChainIInv, EmptyInv, PageInv, ChainInv, WalkInv, FreedInv, AllocDescs, loopVars, mapVars
<1> QED  BY <1>1, <1>2 DEF ChainIInv

LEMMA AllocCmdStep == ChainIInv /\ AllocCmd => ChainIInv'
<1> SUFFICES ASSUME ChainIInv, AllocCmd  PROVE ChainIInv'  OBVIOUS
<1>1. AllocInv'
  BY DEF ChainIInv, AllocInv, Allocated, AllocCmd, PagesFor
<1>2. EmptyInv' /\ PageInv' /\ ChainInv' /\ WalkInv' /\ FreedInv'
  BY DEF ChainIInv, EmptyInv, PageInv, ChainInv, WalkInv, FreedInv, AllocCmd, loopVars, mapVars
<1> QED  BY <1>1, <1>2 DEF ChainIInv

(* The fence is number 0, and the first page's descriptor will be number 1. *)
LEMMA FenceStep == ChainIInv /\ FenceDescriptor => ChainIInv'
<1> SUFFICES ASSUME ChainIInv, FenceDescriptor  PROVE ChainIInv'  OBVIOUS
<1> USE DescAssumption
<1>1. /\ stage = "fence" /\ stage' = "page" /\ DOMAIN desc = {} /\ ptr = <<0, 0>> /\ pnum = 0
      /\ mappedMem = <<>> /\ strange = {} /\ next = EndOfChain
  BY DEF ChainIInv, EmptyInv, FenceDescriptor
<1>2. /\ <<0, 0>> \in Place /\ Index(<<0, 0>>) = 0
      /\ <<0, 1>> \in Place /\ Index(<<0, 1>>) = 1
  BY DEF Place, Index
<1>3. Below(1) = {<<0, 0>>}
  <2>1. Below(0) = {}  BY IndexType DEF Below
  <2> QED  BY <1>2, <2>1, OneMore
<1>4. desc' = [p \in {<<0, 0>>} |->
                 [mem |-> -1, dev |-> -1, size |-> SizeOf(-1), next |-> next]]
  BY <1>1 DEF FenceDescriptor, Write, Fence
<1>5. AllocInv'
  BY <1>1 DEF ChainIInv, AllocInv, Allocated, FenceDescriptor, PagesFor
<1>6. PageInv'
  <2>1. bo.pages \in Nat  BY BuffersAssumption DEF ChainIInv, AllocInv
  <2>2. UNCHANGED <<bo, pnum, mappedMem, strange>> /\ next' = <<0, 0>> /\ ptr' = <<0, 1>>
        /\ mappedDesc' = {<<0, 0>>}
    BY <1>1 DEF FenceDescriptor
  <2>3. DOMAIN desc' = {<<0, 0>>}  BY <1>4
  <2>4. mappedMem' = MappedBelow(0, 0)
    <3>1. 0 .. 0 - 1 = {}  OBVIOUS
    <3> QED  BY <1>1, <2>2, <3>1 DEF MappedBelow
  <2> QED  BY <1>1, <1>2, <1>3, <2>1, <2>2, <2>3, <2>4 DEF PageInv, Below, Place, Index
<1>7. ChainInv'
  <2>1. DOMAIN desc' = {<<0, 0>>}  BY <1>4
  <2>2. desc'[<<0, 0>>] = [mem |-> -1, dev |-> -1, size |-> SizeOf(-1), next |-> EndOfChain]  BY <1>1, <1>4
  <2> QED  BY <1>2, <2>1, <2>2 DEF ChainInv, Place, Index, EndOfChain
<1>8. EmptyInv' /\ WalkInv' /\ FreedInv'
  BY <1>1 DEF EmptyInv, WalkInv, FreedInv
<1> QED  BY <1>5, <1>6, <1>7, <1>8 DEF ChainIInv

LEMMA PageStep == ChainIInv /\ PageDescriptor => ChainIInv'
<1> SUFFICES ASSUME ChainIInv, PageDescriptor  PROVE ChainIInv'  OBVIOUS
<1>1. /\ stage = "page" /\ stage' = "page" /\ pnum < bo.pages /\ pnum' = pnum + 1
      /\ mappedMem' = [m \in DOMAIN mappedMem \cup {pnum} |->
                         IF m = pnum THEN PageSize ELSE mappedMem[m]]
      /\ mappedDesc' = mappedDesc \cup {ptr}
      /\ next' = ptr /\ ptr' = Advance(ptr) /\ UNCHANGED <<bo, strange>>
  BY DEF PageDescriptor
<1>2. /\ pnum \in 0 .. bo.pages /\ bo.pages \in Nat
      /\ DOMAIN desc = Below(pnum + 1) /\ mappedDesc = Below(pnum + 1)
      /\ mappedMem = MappedBelow(pnum, pnum) /\ strange = {}
      /\ next \in Place /\ Index(next) = pnum
      /\ ptr \in Place /\ Index(ptr) = pnum + 1
  BY <1>1, BuffersAssumption DEF ChainIInv, AllocInv, PageInv
<1>3. Below(pnum + 1) \cup {ptr} = Below(pnum' + 1) /\ ptr \notin Below(pnum + 1)
  BY <1>1, <1>2, OneMore
<1>4. desc' = [p \in Below(pnum' + 1) |->
                 IF p = ptr THEN [mem |-> pnum, dev |-> pnum, size |-> SizeOf(pnum), next |-> next]
                 ELSE desc[p]]
  BY <1>1, <1>2, <1>3 DEF PageDescriptor, Write
<1>5. AllocInv'
  BY <1>1 DEF ChainIInv, AllocInv, Allocated, PageDescriptor, PagesFor
<1>6. PageInv'
  <2>1. Advance(ptr) \in Place /\ Index(Advance(ptr)) = pnum + 2
    BY <1>2, AdvanceFacts
  <2>2. mappedMem' = MappedBelow(pnum', pnum')
    <3>1. (0 .. pnum - 1) \cup {pnum} = 0 .. pnum' - 1  BY <1>1, <1>2
    <3>2. DOMAIN mappedMem = 0 .. pnum - 1 /\ \A m \in 0 .. pnum - 1 : mappedMem[m] = PageSize
      BY <1>2 DEF MappedBelow
    <3>3. mappedMem' = [m \in 0 .. pnum' - 1 |-> PageSize]  BY <1>1, <3>1, <3>2
    <3> QED  BY <1>1, <1>2, <3>3 DEF MappedBelow
  <2>3. DOMAIN desc' = Below(pnum' + 1)  BY <1>4
  <2>4. Index(next') = pnum' /\ Index(ptr') = pnum' + 1 /\ next' \in Place /\ ptr' \in Place
    BY <1>1, <1>2, <2>1
  <2> QED  BY <1>1, <1>2, <1>3, <2>2, <2>3, <2>4, SMTT(30) DEF PageInv, Below, Place, Index
<1>7. ChainInv'
  <2>1. SUFFICES ASSUME NEW p \in Below(pnum' + 1)
                 PROVE  /\ desc'[p].mem = Index(p) - 1 /\ desc'[p].dev = Index(p) - 1
                        /\ desc'[p].size = SizeOf(Index(p) - 1)
                        /\ IF Index(p) > 0
                           THEN desc'[p].next \in Place /\ Index(desc'[p].next) = Index(p) - 1
                           ELSE desc'[p].next = EndOfChain
    BY <1>4 DEF ChainInv, Place, Index, EndOfChain, SizeOf
  <2>2. CASE p = ptr  BY <1>2, <1>4, <2>2
  <2>3. CASE p # ptr
    <3>1. p \in DOMAIN desc /\ desc'[p] = desc[p]  BY <1>2, <1>3, <1>4, <2>3
    <3> QED  BY <1>1, <3>1 DEF ChainIInv, ChainInv
  <2> QED  BY <2>2, <2>3
<1>8. EmptyInv' /\ WalkInv' /\ FreedInv'
  BY <1>1 DEF EmptyInv, WalkInv, FreedInv
<1> QED  BY <1>5, <1>6, <1>7, <1>8 DEF ChainIInv

LEMMA MissingStep == ChainIInv /\ PageMissing => ChainIInv'
<1> SUFFICES ASSUME ChainIInv, PageMissing  PROVE ChainIInv'  OBVIOUS
<1>1. stage' = "undo" /\ bo' = bo  BY DEF PageMissing
<1> QED
  BY <1>1 DEF ChainIInv, AllocInv, Allocated, EmptyInv, PageInv, ChainInv, WalkInv, FreedInv

LEMMA BuiltStep == ChainIInv /\ Built => ChainIInv'
<1> SUFFICES ASSUME ChainIInv, Built  PROVE ChainIInv'  OBVIOUS
<1>1. /\ stage = "page" /\ stage' = "built" /\ pnum = bo.pages
      /\ UNCHANGED <<bo, numDesc, descPages, desc, ptr, pnum, next,
                    mappedMem, mappedDesc, strange>>
  BY DEF Built, descVars, loopVars, mapVars
<1>2. AllocInv'  BY <1>1 DEF ChainIInv, AllocInv, Allocated, PagesFor
<1>3. PageInv' /\ ChainInv'  BY <1>1 DEF ChainIInv, PageInv, ChainInv, Below, Place, Index
<1>4. EmptyInv' /\ WalkInv' /\ FreedInv'  BY <1>1 DEF EmptyInv, WalkInv, FreedInv
<1> QED  BY <1>2, <1>3, <1>4 DEF ChainIInv

LEMMA UndoStep == ChainIInv /\ (Undo \/ UndoWithoutArray) => ChainIInv'
<1> SUFFICES ASSUME ChainIInv, Undo \/ UndoWithoutArray  PROVE ChainIInv'  OBVIOUS
<1>1. /\ bo' = bo
      /\ \/ stage' = "failed" /\ descPages' = {} /\ ~array' /\ ~cmdTmp'
         \/ stage' = "oops"
  BY DEF Undo, UndoWithoutArray
<1> QED
  BY <1>1 DEF ChainIInv, AllocInv, Allocated, EmptyInv, PageInv, ChainInv, WalkInv, FreedInv

LEMMA UnmapStartStep == ChainIInv /\ UnmapStart => ChainIInv'
<1> SUFFICES ASSUME ChainIInv, UnmapStart  PROVE ChainIInv'  OBVIOUS
<1>1. /\ stage = "built" /\ stage' = "unmap"
      /\ UNCHANGED <<bo, numDesc, descPages, desc, mappedMem, mappedDesc, strange>>
      /\ walk'.left = numDesc /\ walk'.next = next
      /\ walk'.page = numDesc \div DescPerPage /\ walk'.this = numDesc % DescPerPage
      /\ walk'.idx = walk'.this - 1
  BY DEF UnmapStart, StartAt, descVars, mapVars
<1>2. /\ numDesc = bo.pages + 1 /\ bo.pages \in Nat \ {0} /\ pnum = bo.pages
      /\ DOMAIN desc = Below(numDesc) /\ mappedDesc = Below(numDesc)
      /\ mappedMem = MappedBelow(numDesc - 1, numDesc - 1) /\ strange = {}
      /\ next \in Place /\ Index(next) = numDesc - 1
  BY <1>1, BuffersAssumption DEF ChainIInv, AllocInv, Allocated, PageInv
<1>3. AllocInv'  BY <1>1 DEF ChainIInv, AllocInv, Allocated, PagesFor
<1>4. ChainInv'  BY <1>1 DEF ChainIInv, ChainInv, Place, Index
<1>5. WalkInv'
  <2>1. <<walk'.page, walk'.this>> \in Place /\ Index(<<walk'.page, walk'.this>>) = numDesc
    BY <1>1, <1>2, StartFacts
  <2> QED  BY <1>1, <1>2, <2>1, SMTT(30) DEF WalkInv, Below, Place, Index
<1>6. EmptyInv' /\ PageInv' /\ FreedInv'  BY <1>1 DEF EmptyInv, PageInv, FreedInv
<1> QED  BY <1>3, <1>4, <1>5, <1>6 DEF ChainIInv

(* Where the walk stands is just behind the descriptor whose memory it       *)
(* unmaps next, which is also the one at `next'.                             *)
LEMMA UnmapStepStep == ChainIInv /\ UnmapStep => ChainIInv'
<1> SUFFICES ASSUME ChainIInv, UnmapStep  PROVE ChainIInv'  OBVIOUS
<1> USE DescAssumption
<1> DEFINE back == walk.this = 0
           page == IF back THEN walk.page - 1 ELSE walk.page
           idx == IF back THEN DescPerPage - 1 ELSE walk.idx
           d == DescriptorAt(<<page, idx>>)
<1>1. /\ stage = "unmap" /\ walk.left > 0 /\ stage' = "unmap"
      /\ mappedDesc' = mappedDesc \ {walk.next}
      /\ mappedMem' = [m \in DOMAIN mappedMem |->
                         IF m = d.mem THEN PageSize - d.size ELSE mappedMem[m]]
      /\ strange' = strange \cup (IF d.mem \in Whole THEN {} ELSE {<<d.mem, d.size>>})
      /\ walk' = [left |-> walk.left - 1, page |-> page,
                  this |-> IF back THEN DescPerPage - 1 ELSE walk.this - 1,
                  idx |-> idx - 1, next |-> d.next]
      /\ UNCHANGED <<bo, numDesc, descPages, desc>>
  BY DEF UnmapStep, descVars
<1>2. /\ walk.left \in 0 .. numDesc /\ DOMAIN desc = Below(numDesc) /\ numDesc \in Nat
      /\ mappedDesc = Below(walk.left)
      /\ mappedMem = MappedBelow(walk.left - 1, numDesc - 1) /\ strange = {}
      /\ <<walk.page, walk.this>> \in Place /\ Index(<<walk.page, walk.this>>) = walk.left
      /\ walk.idx = walk.this - 1
      /\ walk.next \in Place /\ Index(walk.next) = walk.left - 1
  BY <1>1, BuffersAssumption DEF ChainIInv, AllocInv, Allocated, WalkInv
<1>3. /\ walk.page \in Nat /\ walk.this \in 0 .. DescPerPage - 1
      /\ walk.page * DescPerPage + walk.this = walk.left
  BY <1>2 DEF Place, Index
<1>4. <<page, idx>> \in Place /\ Index(<<page, idx>>) = walk.left - 1
  <2>1. CASE back
    <3>1. walk.page # 0  BY <1>1, <1>3, <2>1
    <3>2. (walk.page - 1) * DescPerPage = walk.page * DescPerPage - DescPerPage  BY <1>3
    <3> QED  BY <1>3, <2>1, <3>1, <3>2 DEF Place, Index
  <2>2. CASE ~back
    <3>1. page = walk.page /\ idx = walk.this - 1  BY <1>2, <2>2
    <3> HIDE DEF page, idx
    <3>2. walk.this # 0  BY <2>2
    <3>3. walk.this - 1 \in 0 .. DescPerPage - 1  BY <1>3, <3>2
    <3>4. walk.page * DescPerPage \in Nat  BY <1>3
    <3>5. walk.page * DescPerPage + (walk.this - 1) = walk.left - 1  BY <1>3, <3>4
    <3> QED  BY <1>3, <3>1, <3>3, <3>5 DEF Place, Index
  <2> QED  BY <2>1, <2>2
<1>5. walk.next = <<page, idx>>  BY <1>2, <1>4, IndexIsUnique
<1>6. <<page, idx>> \in Below(numDesc)  BY <1>1, <1>2, <1>4 DEF Below
<1>7. d = desc[<<page, idx>>]  BY <1>2, <1>6 DEF DescriptorAt
<1> HIDE DEF d
<1>8. /\ d.mem = walk.left - 2 /\ d.size = SizeOf(walk.left - 2)
      /\ walk.left - 1 > 0 => d.next \in Place /\ Index(d.next) = walk.left - 2
  <2>1. /\ d.mem = Index(<<page, idx>>) - 1 /\ d.size = SizeOf(Index(<<page, idx>>) - 1)
        /\ Index(<<page, idx>>) > 0 =>
             d.next \in Place /\ Index(d.next) = Index(<<page, idx>>) - 1
    BY <1>1, <1>2, <1>6, <1>7 DEF ChainIInv, ChainInv
  <2> HIDE DEF page, idx
  <2> QED  BY <1>2, <1>4, <2>1
<1>9. AllocInv'  BY <1>1 DEF ChainIInv, AllocInv, Allocated, PagesFor
<1>10. ChainInv'  BY <1>1 DEF ChainIInv, ChainInv, Place, Index
<1>11. WalkInv'
  <2> DEFINE left == walk.left - 1
  <2>1. left \in 0 .. numDesc /\ walk'.left = left  BY <1>1, <1>2
  <2>2. mappedDesc' = Below(left)
    <3>1. Below(walk.left) = Below(left) \cup {walk.next} /\ walk.next \notin Below(left)
      BY <1>2, OneMore
    <3> QED  BY <1>1, <1>2, <3>1
  <2>3. /\ mappedMem' = MappedBelow(left - 1, numDesc - 1)
        /\ strange' = IF left = 0 THEN {<<Fence, 1>>} ELSE {}
    <3>1. /\ walk.left = left + 1 /\ left \in Nat /\ left <= numDesc - 1
          /\ d.mem = left - 1 /\ d.size = SizeOf(left - 1)
      BY <1>1, <1>2, <1>8
    <3> HIDE DEF left
    <3>2. mappedMem = MappedBelow(left, numDesc - 1)  BY <1>2, <3>1
    <3>3. DOMAIN mappedMem = 0 .. numDesc - 2
          /\ \A m \in 0 .. numDesc - 2 :
               mappedMem[m] = IF m < left THEN PageSize ELSE PageSize - PageSize \div 16
      BY <1>2, <3>2 DEF MappedBelow
    <3>4. CASE left = 0
      <4>1. d.mem = -1 /\ d.size = 1  BY <3>1, <3>4 DEF SizeOf, Fence
      <4>2. d.mem \notin DOMAIN mappedMem  BY <3>3, <4>1
      <4>3. mappedMem' = mappedMem  BY <1>1, <3>2, <4>2 DEF MappedBelow
      <4>4. MappedBelow(0, numDesc - 1) = MappedBelow(-1, numDesc - 1)
        BY <1>2 DEF MappedBelow
      <4> QED  BY <1>1, <1>2, <3>2, <3>4, <4>1, <4>2, <4>3, <4>4 DEF Whole, Fence
    <3>5. CASE left # 0
      <4>1. left - 1 \in 0 .. numDesc - 2 /\ left - 1 < left  BY <1>2, <3>1, <3>5
      <4>2. d.mem \in Whole /\ d.size = PageSize \div 16
        BY <3>1, <3>3, <4>1 DEF Whole, SizeOf, Fence
      <4>3. mappedMem' = [m \in 0 .. numDesc - 2 |->
                            IF m = left - 1 THEN PageSize - PageSize \div 16 ELSE mappedMem[m]]
        BY <1>1, <3>1, <3>3, <4>2
      <4>4. \A m \in 0 .. numDesc - 2 : m < left - 1 <=> m < left /\ m # left - 1
        BY <1>2, <3>1
      <4>5. mappedMem' = [m \in 0 .. numDesc - 2 |->
                            IF m < left - 1 THEN PageSize ELSE PageSize - PageSize \div 16]
        BY <3>3, <4>3, <4>4
      <4>6. numDesc - 2 = numDesc - 1 - 1  BY <1>2
      <4> QED  BY <1>1, <1>2, <3>5, <4>2, <4>5, <4>6 DEF MappedBelow
    <3> QED  BY <3>4, <3>5
  <2>4. /\ <<walk'.page, walk'.this>> \in Place
        /\ Index(<<walk'.page, walk'.this>>) = left
        /\ walk'.idx = walk'.this - 1
    <3>1. walk'.page = page /\ walk'.this = idx /\ walk'.idx = idx - 1
      BY <1>1, <1>2
    <3> QED  BY <1>4, <3>1
  <2>5. walk'.left > 0 => walk'.next \in Place /\ Index(walk'.next) = walk'.left - 1
    <3>1. walk'.next = d.next  BY <1>1
    <3> QED  BY <1>2, <1>8, <2>1, <3>1
  <2> HIDE DEF left
  <2>6. (/\ walk'.left \in 0 .. numDesc' /\ DOMAIN desc' = Below(numDesc')
         /\ mappedDesc' = Below(walk'.left)
         /\ mappedMem' = MappedBelow(walk'.left - 1, numDesc' - 1)
         /\ strange' = IF walk'.left = 0 THEN {<<Fence, 1>>} ELSE {}
         /\ <<walk'.page, walk'.this>> \in Place
         /\ Index(<<walk'.page, walk'.this>>) = walk'.left
         /\ walk'.idx = walk'.this - 1
         /\ walk'.left > 0 => walk'.next \in Place /\ Index(walk'.next) = walk'.left - 1)
        => WalkInv'
    BY DEF WalkInv, Below, Place, Index, Fence, MappedBelow
  <2>7. numDesc' = numDesc /\ desc' = desc  BY <1>1
  <2> QED
    BY <1>2, <2>1, <2>2, <2>3, <2>4, <2>5, <2>6, <2>7
<1>12. EmptyInv' /\ PageInv' /\ FreedInv'  BY <1>1 DEF EmptyInv, PageInv, FreedInv
<1> QED  BY <1>9, <1>10, <1>11, <1>12 DEF ChainIInv

LEMMA FreeStep == ChainIInv /\ FreeAll => ChainIInv'
<1> SUFFICES ASSUME ChainIInv, FreeAll  PROVE ChainIInv'  OBVIOUS
<1>1. /\ stage = "unmap" /\ walk.left = 0 /\ stage' = "freed"
      /\ descPages' = {} /\ ~array' /\ ~cmdTmp'
      /\ UNCHANGED <<bo, mappedMem, mappedDesc, strange>>
  BY DEF FreeAll, mapVars
<1>2. mappedMem = MappedBelow(0, bo.pages) /\ mappedDesc = {} /\ strange = {<<Fence, 1>>}
  <2>1. Below(0) = {}  BY IndexType DEF Below
  <2>2. numDesc = bo.pages + 1 /\ bo.pages \in Nat
    BY <1>1, BuffersAssumption DEF ChainIInv, AllocInv, Allocated
  <2>3. MappedBelow(-1, bo.pages) = MappedBelow(0, bo.pages)  BY <2>2 DEF MappedBelow
  <2>4. mappedMem = MappedBelow(-1, numDesc - 1)  BY <1>1 DEF ChainIInv, WalkInv
  <2>5. mappedMem = MappedBelow(0, bo.pages)  BY <2>2, <2>3, <2>4
  <2> QED  BY <1>1, <2>1, <2>5 DEF ChainIInv, WalkInv
<1> QED
  BY <1>1, <1>2 DEF ChainIInv, AllocInv, Allocated, EmptyInv, PageInv, ChainInv, WalkInv, FreedInv

-----------------------------------------------------------------------------
(***************************************************************************)
(* Following the chain.  The induction is over a set: the induction        *)
(* theorems for an arbitrary predicate cannot be instantiated by the       *)
(* provers, but the least element of a set of naturals can be had.         *)
(***************************************************************************)
LEMMA LeastNatural ==
  ASSUME NEW T \in SUBSET Nat, T # {}
  PROVE  \E x \in T : \A y \in T : x <= y
<1> DEFINE R == {ss \in Nat \X Nat : ss[1] < ss[2]}
<1>1. IsWellFoundedOn(R, Nat)  BY NatLessThanWellFounded, Zenon DEF OpToRel
<1>2. PICK x \in T : \A y \in T : ~(<<y, x>> \in R)
  <2> HIDE DEF R
  <2> QED  BY <1>1, WFMin, Zenon
<1>3. ASSUME NEW y \in T  PROVE x <= y
  <2>1. x \in Nat /\ y \in Nat /\ ~(<<y, x>> \in R)  BY <1>2
  <2> QED  BY <2>1
<1> QED  BY <1>3

LEMMA SetInduction ==
  ASSUME NEW S, 0 \in S, \A n \in Nat : n \in S => n + 1 \in S
  PROVE  Nat \subseteq S
<1> SUFFICES ASSUME Nat \ S # {}  PROVE FALSE  OBVIOUS
<1>1. PICK x \in Nat \ S : \A y \in Nat \ S : x <= y  BY LeastNatural
<1>2. x \in Nat /\ x # 0 /\ x - 1 \in Nat  BY <1>1
<1>3. x - 1 \in S  BY <1>1, <1>2
<1> QED  BY <1>1, <1>2, <1>3

(* The descriptor with a given number. *)
At(n) == <<n \div DescPerPage, n % DescPerPage>>

(* Where the engine is after n descriptors, when the chain is built: behind *)
(* the fence it finds the end, and would find nothing after that.           *)
Stops ==
  [n \in Nat |-> IF n <= bo.pages THEN At(bo.pages - n)
                 ELSE IF n = bo.pages + 1 THEN EndOfChain ELSE Unwritten]

LEMMA StopsAreFollowed ==
  ASSUME ChainIInv, stage = "built"
  PROVE  /\ Stops[0] = next
         /\ \A n \in Nat : Stops[n + 1] = DescriptorAt(Stops[n]).next
<1>1. /\ bo.pages \in Nat /\ DOMAIN desc = Below(bo.pages + 1)
      /\ next \in Place /\ Index(next) = bo.pages
  BY BuffersAssumption DEF ChainIInv, AllocInv, PageInv
<1>2. \A n \in Nat : At(n) \in Place /\ Index(At(n)) = n  BY StartFacts DEF At
<1>3. Stops[0] = next  BY <1>1, <1>2, IndexIsUnique DEF Stops
<1>4. ASSUME NEW n \in Nat  PROVE Stops[n + 1] = DescriptorAt(Stops[n]).next
  <2>1. CASE n <= bo.pages
    <3> DEFINE p == At(bo.pages - n)
    <3>1. bo.pages - n \in Nat  BY <1>1, <2>1
    <3>2. p \in Place /\ Index(p) = bo.pages - n  BY <1>2, <3>1
    <3>3. p \in DOMAIN desc /\ Stops[n] = p  BY <1>1, <2>1, <3>2 DEF Below, Stops
    <3>4. IF bo.pages - n > 0
          THEN desc[p].next \in Place /\ Index(desc[p].next) = bo.pages - n - 1
          ELSE desc[p].next = EndOfChain
      BY <3>2, <3>3 DEF ChainIInv, ChainInv
    <3>5. DescriptorAt(Stops[n]).next = desc[p].next  BY <3>3 DEF DescriptorAt
    <3>6. CASE bo.pages - n > 0
      <4> HIDE DEF p
      <4>1. bo.pages - (n + 1) \in Nat /\ bo.pages - (n + 1) = bo.pages - n - 1
        BY <1>1, <3>6
      <4>2. Stops[n + 1] = At(bo.pages - (n + 1))  BY <1>1, <4>1 DEF Stops
      <4>3. At(bo.pages - (n + 1)) \in Place
            /\ Index(At(bo.pages - (n + 1))) = Index(desc[p].next)
        BY <1>2, <3>4, <3>6, <4>1
      <4> QED  BY <3>4, <3>5, <3>6, <4>2, <4>3, IndexIsUnique
    <3>7. CASE ~(bo.pages - n > 0)
      <4> HIDE DEF p
      <4>1. n = bo.pages  BY <1>1, <2>1, <3>7
      <4>2. Stops[n + 1] = EndOfChain  BY <1>1, <4>1 DEF Stops
      <4> QED  BY <3>4, <3>5, <3>7, <4>2
    <3> QED  BY <3>6, <3>7
  <2>2. CASE n > bo.pages
    <3>1. Stops[n] \in {EndOfChain, Unwritten}  BY <1>1, <2>2 DEF Stops
    <3>2. EndOfChain \notin Place /\ Unwritten \notin Place
      BY DEF Place, EndOfChain, Unwritten
    <3>3. Stops[n] \notin DOMAIN desc  BY <1>1, <3>1, <3>2 DEF Below
    <3>4. DescriptorAt(Stops[n]).next = Unwritten  BY <3>3 DEF DescriptorAt
    <3>5. Stops[n + 1] = Unwritten  BY <1>1, <2>2 DEF Stops
    <3> QED  BY <3>4, <3>5
  <2> QED  BY <1>1, <2>1, <2>2
<1> QED  BY <1>3, <1>4

(* Followed is what its definition says, since there is such a function. *)
LEMMA FollowedIsStops ==
  ASSUME ChainIInv, stage = "built"
  PROVE  \A n \in Nat : Followed[n] = Stops[n]
<1>1. Stops = [n \in Nat |-> IF n = 0 THEN next ELSE DescriptorAt(Stops[n - 1]).next]
  <2>1. \A n \in Nat : n # 0 => n - 1 \in Nat /\ n = (n - 1) + 1  OBVIOUS
  <2>2. \A n \in Nat : n # 0 => Stops[n] = DescriptorAt(Stops[n - 1]).next
    BY <2>1, StopsAreFollowed
  <2>3. DOMAIN Stops = Nat /\ Stops = [n \in Nat |-> Stops[n]]  BY DEF Stops
  <2> QED  BY <2>2, <2>3, StopsAreFollowed
<1>2. Followed = [n \in Nat |-> IF n = 0 THEN next ELSE DescriptorAt(Followed[n - 1]).next]
  BY <1>1 DEF Followed
<1> DEFINE Same == {n \in Nat : Followed[n] = Stops[n]}
<1>3. Nat \subseteq Same
  <2>1. Followed[0] = Stops[0]  BY <1>2, StopsAreFollowed
  <2>2. ASSUME NEW n \in Nat, Followed[n] = Stops[n]
        PROVE  Followed[n + 1] = Stops[n + 1]
    <3>1. n + 1 \in Nat /\ n + 1 # 0 /\ (n + 1) - 1 = n  OBVIOUS
    <3>2. Followed[n + 1] = DescriptorAt(Followed[n]).next  BY <1>2, <3>1
    <3> QED  BY <2>2, <3>2, StopsAreFollowed
  <2>3. 0 \in Same /\ \A n \in Nat : n \in Same => n + 1 \in Same  BY <2>1, <2>2
  <2> HIDE DEF Same
  <2> QED  BY <2>3, SetInduction
<1> QED  BY <1>3

-----------------------------------------------------------------------------
(* The theorems *)

LEMMA ChainInvariance == ChainSpec => []ChainIInv
<1>1. ChainIInv /\ [ChainNext]_chainVars => ChainIInv'
  <2> SUFFICES ASSUME ChainIInv, [ChainNext]_chainVars  PROVE ChainIInv'  OBVIOUS
  <2>1. CASE UNCHANGED chainVars
    BY <2>1 DEF chainVars, descVars, loopVars, mapVars, ChainIInv, AllocInv, Allocated, PagesFor,
       EmptyInv, PageInv, ChainInv, WalkInv, FreedInv, Below, Place, Index
  <2>2. CASE ChainNext
    BY <2>2, AllocDescsStep, AllocCmdStep, FenceStep, PageStep, MissingStep, BuiltStep,
       UndoStep, UnmapStartStep, UnmapStepStep, FreeStep DEF ChainNext
  <2> QED  BY <2>1, <2>2
<1> QED  BY <1>1, ChainInitIInv, PTL DEF ChainSpec

(* Every descriptor is inside the pages, for every size of a page and      *)
(* every length, also when the pointer has run behind the last page.       *)
THEOREM StaysInPages == ChainSpec => []DescriptorsInPages
<1>1. ChainIInv => DescriptorsInPages
  <2> SUFFICES ASSUME ChainIInv, DOMAIN desc # {}, stage \in {"fence", "page", "built", "unmap"}
               PROVE  DOMAIN desc \subseteq descPages \X (0 .. DescPerPage - 1)
    BY DEF DescriptorsInPages
  <2>1. bo.pages \in Nat /\ numDesc = bo.pages + 1 /\ descPages = 0 .. PagesFor(numDesc) - 1
    BY BuffersAssumption DEF ChainIInv, AllocInv, Allocated
  <2>2. DOMAIN desc \subseteq Below(numDesc)
    <3>1. CASE stage = "fence"  BY <3>1 DEF ChainIInv, EmptyInv
    <3>2. CASE stage \in {"page", "built"}
      <4>1. DOMAIN desc = Below(pnum + 1) /\ pnum \in 0 .. bo.pages
        BY <3>2 DEF ChainIInv, PageInv
      <4> QED  BY <2>1, <4>1, IndexType DEF Below
    <3>3. CASE stage = "unmap"  BY <3>3 DEF ChainIInv, WalkInv
    <3> QED  BY <3>1, <3>2, <3>3
  <2> QED  BY <2>1, <2>2, EnoughPages
<1> QED  BY <1>1, ChainInvariance, PTL

(* The walk back unmaps every descriptor once, and of every page once the    *)
(* sixteenth that is the descriptor's size, and besides one byte of the sync *)
(* word nothing that was not mapped, wherever the chain ends in its page;    *)
(* whatever fails, nothing is left allocated.                                *)
THEOREM WalkIsExact == ChainSpec => []WalkMeetsAll
<1>1. ChainIInv => WalkMeetsAll
  <2>1. bo.pages \in Nat => MappedBelow(0, bo.pages)
                             = [m \in 0 .. bo.pages - 1 |-> PageSize - PageSize \div 16]
    BY DEF MappedBelow
  <2> QED  BY <2>1, BuffersAssumption DEF ChainIInv, AllocInv, FreedInv, WalkMeetsAll
<1> QED  BY <1>1, ChainInvariance, PTL

(* The engine that starts at chain_start copies every page once and to its  *)
(* place, then the fence, and then finds the end, for every length.         *)
THEOREM FenceIsLast == ChainSpec => []FenceComesLast
<1>1. ChainIInv => FenceComesLast
  <2> SUFFICES ASSUME ChainIInv, stage = "built"
               PROVE  /\ \A n \in 0 .. bo.pages - 1 :
                           DescriptorAt(Followed[n]).mem = bo.pages - 1 - n
                           /\ DescriptorAt(Followed[n]).dev = bo.pages - 1 - n
                      /\ DescriptorAt(Followed[bo.pages]).mem = Fence
                      /\ Followed[bo.pages + 1] = EndOfChain
    BY DEF FenceComesLast
  <2>1. bo.pages \in Nat /\ DOMAIN desc = Below(bo.pages + 1)
    BY BuffersAssumption DEF ChainIInv, AllocInv, PageInv
  <2>2. ASSUME NEW n \in 0 .. bo.pages
        PROVE  /\ DescriptorAt(Followed[n]).mem = bo.pages - n - 1
               /\ DescriptorAt(Followed[n]).dev = bo.pages - n - 1
    <3> DEFINE p == At(bo.pages - n)
    <3>1. n \in Nat /\ bo.pages - n \in Nat /\ n <= bo.pages  BY <2>1
    <3>2. p \in Place /\ Index(p) = bo.pages - n  BY <3>1, StartFacts DEF At
    <3>3. p \in DOMAIN desc  BY <2>1, <3>1, <3>2 DEF Below
    <3>4. Followed[n] = p  BY <3>1, FollowedIsStops DEF Stops
    <3>5. desc[p].mem = Index(p) - 1 /\ desc[p].dev = Index(p) - 1
      BY <3>3 DEF ChainIInv, ChainInv
    <3>6. DescriptorAt(Followed[n]) = desc[p]  BY <3>3, <3>4 DEF DescriptorAt
    <3> HIDE DEF p
    <3> QED  BY <3>2, <3>5, <3>6
  <2>3. Followed[bo.pages + 1] = EndOfChain
    <3>1. bo.pages + 1 \in Nat /\ ~(bo.pages + 1 <= bo.pages)  BY <2>1
    <3> QED  BY <3>1, FollowedIsStops DEF Stops
  <2>4. DescriptorAt(Followed[bo.pages]).mem = Fence
    <3>1. bo.pages \in 0 .. bo.pages /\ bo.pages - bo.pages - 1 = -1  BY <2>1
    <3> QED  BY <2>2, <3>1 DEF Fence
  <2>5. \A n \in 0 .. bo.pages - 1 :
          n \in 0 .. bo.pages /\ bo.pages - n - 1 = bo.pages - 1 - n
    BY <2>1
  <2> QED  BY <2>2, <2>3, <2>4, <2>5
<1> QED  BY <1>1, ChainInvariance, PTL
=============================================================================
