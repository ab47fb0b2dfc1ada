--------------------------- MODULE AgpRingProofs ----------------------------
(***************************************************************************)
(* The safety of the command ring, for every size of the ring, every       *)
(* alignment and reserve that meet SizesAssumption, and every set of       *)
(* requests that fit behind a rewind.                                      *)
(*                                                                         *)
(* The engine has left the lap before the driver's (Lapped) or follows the *)
(* driver in the same lap; the driver never knows which, it only compares  *)
(* addresses.  The invariant says what each comparison establishes, that   *)
(* the engine's progress cannot undo it, and that the sizes added to a     *)
(* request cover every word written around the command.                    *)
(***************************************************************************)
EXTENDS AgpRing, SequenceTheorems, TLAPS

CommandsFit == \A r \in Requests : r.size + Reserve + PauseAlign < Size

(* A read may only lie where a second loop confirms it. *)
LiesConfirmed == "jumped" \notin UnreliableWaits

Lapped == hw > pause

Rewinding == {"behind", "behind2", "drain", "drain2", "past", "past2",
              "rewind", "set_jump", "set_pause"}
Overtaking == {"drain", "drain2", "past", "past2",
               "rewind", "set_jump", "set_pause"}
Writing == {"copy", "release", "kickoff", "kick"}

FlushInv == pc /= "idle" =>
  /\ flush.size \in Nat \ {0} /\ flush.used \in 1 .. flush.size
  /\ Boundary < Size

EngineInv ==
  /\ ~ Armed => ~ Lapped
  /\ Armed => /\ pause < jump
              /\ pc = "set_pause" \/ (Lapped /\ hw <= jump)
  /\ NothingLost

PlaceInv ==
  /\ pc \notin {"kickoff", "kick"} => pfree = pause
  /\ pc \notin Writing => pause + PadSize + Threshold <= Size
  /\ pc \in Writing \cup {"clear", "clear2", "jumped"} =>
       pause + Request + Threshold < Size
  /\ pc \in Writing /\ Lapped => hw > pause + Request + Threshold
  /\ pc = "kickoff" =>
       pfree \in pause .. pause + flush.used + 2 * Cell + Header + NullCommands
  /\ pc = "kick" => pfree \in pause .. pause + Request - PadSize

RewindInv ==
  /\ pc \in Rewinding => pause + Request + Threshold >= Size
  /\ pc \in Overtaking => ~ Lapped
  /\ pc \in {"drain", "drain2"} => pause <= Boundary
  /\ pc \in {"past", "past2"} => pause > Boundary
  /\ pc \in {"rewind", "set_jump", "set_pause"} =>
       IF pause <= Boundary THEN hw = pause ELSE hw > Boundary
  /\ pc = "set_pause" => jump = JumpAt

WaitInv == ~ bad =>
  /\ pc = "clear2" => ClearOfNext
  /\ pc = "behind2" => BehindSw
  /\ pc = "drain2" => Drained
  /\ pc = "past2" => PastBoundary

WriteInv == NoOverwrite /\ InsideRing

IInv == TypeOK /\ FlushInv /\ EngineInv /\ PlaceInv /\ RewindInv /\ WaitInv
        /\ WriteInv
-----------------------------------------------------------------------------
(* Rounding up adds less than the unit. *)
LEMMA UpBounds ==
  ASSUME NEW x \in Nat, NEW a \in Nat \ {0}
  PROVE  Up(x, a) \in x .. x + a - 1
<1>1. x % a \in 0 .. a - 1
  OBVIOUS
<1>2. (a - (x % a)) \in Nat
  BY <1>1
<1>3. (a - (x % a)) % a \in 0 .. a - 1
  BY <1>2
<1>. QED
  BY <1>3 DEF Up

LEMMA HeaderBounds ==
  ASSUME NEW x \in Nat
  PROVE  HeaderEnd(x) \in x + Header .. x + Cell - 1 + Header
<1>1. Up(x, Cell) \in x .. x + Cell - 1
  BY SizesAssumption, UpBounds
<1>2. HeaderEnd(x) = Up(x, Cell) + Header
  BY DEF HeaderEnd
<1>. QED
  BY <1>1, <1>2, SizesAssumption

LEMMA PairsBounds ==
  ASSUME NEW x \in Nat
  PROVE  PairsEnd(x) \in x + Header + 2 .. x + Cell + Header + Align
<1>1. HeaderEnd(x) + 2 \in Nat
  BY HeaderBounds, SizesAssumption
<1>2. PairsEnd(x) \in HeaderEnd(x) + 2 .. HeaderEnd(x) + 2 + Align - 1
  BY <1>1, UpBounds, SizesAssumption DEF PairsEnd
<1>. QED
  BY <1>2, HeaderBounds, SizesAssumption

LEMMA RewindBounds ==
  ASSUME pfree \in Nat
  PROVE  /\ JumpAt \in pfree + 1 .. pfree + Cell + Header + Align
         /\ RestartAt \in 1 .. Align
<1>1. HeaderEnd(pfree) + 1 \in Nat
  BY HeaderBounds, SizesAssumption
<1>2. JumpAt \in HeaderEnd(pfree) + 1 .. HeaderEnd(pfree) + 1 + Align - 1
  BY <1>1, UpBounds, SizesAssumption DEF JumpAt
<1>3. RestartAt \in 1 .. Align
  BY UpBounds, SizesAssumption DEF RestartAt
<1>. QED
  BY <1>2, <1>3, HeaderBounds, SizesAssumption

LEMMA ReleaseBounds ==
  ASSUME pfree \in Nat, flush.used \in Nat
  PROVE  ReleaseEnd \in pfree + flush.used
                        .. pfree + flush.used + 2 * Cell + Header + NullCommands
<1>1. ReleaseTo(pfree + flush.used) \in
        pfree + flush.used .. pfree + flush.used + Cell - 1
  <2>1. pfree + flush.used \in Nat
    OBVIOUS
  <2>. QED
    BY <2>1, UpBounds, SizesAssumption DEF ReleaseTo
<1>2. HeaderEnd(ReleaseTo(pfree + flush.used)) \in
        pfree + flush.used .. pfree + flush.used + 2 * Cell + Header
  BY <1>1, HeaderBounds, SizesAssumption
<1>3. ReleaseEnd \in {HeaderEnd(ReleaseTo(pfree + flush.used)) + NullCommands,
                      ReleaseTo(pfree + flush.used)}
  BY DEF ReleaseEnd
<1>. QED
  BY <1>1, <1>2, <1>3, SizesAssumption

LEMMA PauseBounds ==
  ASSUME pfree \in Nat
  PROVE  PauseAt \in pfree .. pfree + Cell + Header + Align + 2
BY PairsBounds, SizesAssumption DEF PauseAt
-----------------------------------------------------------------------------
(* Setting the pause register completes a rewind: until then the engine is *)
(* in the driver's lap.                                                    *)
LEMMA EngineFacts ==
  ASSUME IInv
  PROVE  /\ hw \in 0 .. Size /\ pause \in 0 .. Size /\ jump \in Nat
         /\ pc = "set_pause" => hw <= pause
         /\ hw > pause => Armed /\ hw <= jump /\ jump <= Size
         /\ Armed => pause < jump /\ jump <= Size
<1>1. hw \in 0 .. Size /\ pause \in 0 .. Size /\ jump \in 0 .. Size + 1
  BY SizesAssumption DEF IInv, TypeOK, NoJump
<1>2. pc = "set_pause" => hw <= pause
  BY <1>1 DEF IInv, RewindInv, Overtaking, Rewinding, Lapped
<1>3. Armed => jump <= Size
  BY <1>1, SizesAssumption DEF Armed, NoJump
<1>. QED
  BY <1>1, <1>2, <1>3, SizesAssumption DEF IInv, EngineInv, Lapped

USE DEF Goto, Writes, Lapped, Armed, NoJump, Rewinding, Overtaking,
        Writing

LEMMA InitIInv == Init => IInv
<1> SUFFICES ASSUME Init PROVE IInv
  OBVIOUS
<1>1. PairsEnd(0) \in Header + 2 .. Cell + Header + Align
  BY PairsBounds, SizesAssumption
<1>2. TypeOK
  <2>1. pc \in Steps /\ flush \in Flushes
    BY DEF Init, Steps, Flushes
  <2>2. hw \in 0 .. Size /\ jump \in 0 .. NoJump
    BY SizesAssumption DEF Init, NoJump
  <2>3. bad \in BOOLEAN /\ written \subseteq Nat
    BY DEF Init
  <2>4. pfree \in 0 .. Size /\ pause \in 0 .. Size /\ backlog \in 0 .. 2 * Size
    BY <1>1, SizesAssumption DEF Init
  <2>. QED
    BY <2>1, <2>2, <2>3, <2>4 DEF TypeOK
<1>3. EngineInv /\ PlaceInv
  BY <1>1, SizesAssumption DEF Init, EngineInv, NothingLost, PlaceInv
<1>4. FlushInv /\ RewindInv /\ WaitInv
  BY DEF Init, FlushInv, RewindInv, WaitInv
<1>5. WriteInv
  BY <1>1, SizesAssumption
     DEF Init, WriteInv, NoOverwrite, InsideRing, Pending, Words
<1>. QED
  BY <1>2, <1>3, <1>4, <1>5 DEF IInv

(***************************************************************************)
(* The engine.  Moving, it only leaves words of Pending behind, and it     *)
(* cannot come back in front of an address it has passed but by the jump.  *)
(***************************************************************************)
LEMMA ExecuteStep == IInv /\ Execute => IInv'
<1> SUFFICES ASSUME IInv, Execute PROVE IInv'
  OBVIOUS
<1> USE SizesAssumption
<1>1. /\ UNCHANGED <<pc, flush, pfree, bad, written, pause, jump>>
      /\ hw' = hw + 1 /\ backlog' = backlog - 1
      /\ hw /= pause /\ hw /= jump /\ hw < Size
  BY DEF Execute, driverVars
<1>2. /\ TypeOK /\ EngineInv
      /\ hw \in 0 .. Size /\ pause \in 0 .. Size /\ jump \in Nat
      /\ pc = "set_pause" => hw <= pause
      /\ hw > pause => Armed /\ hw <= jump /\ jump <= Size
      /\ Armed => pause < jump /\ jump <= Size
  BY EngineFacts DEF IInv
<1>3. /\ hw < pause \/ (hw > pause /\ hw < jump)
      /\ Lapped' <=> Lapped
  BY <1>1, <1>2 DEF TypeOK, EngineInv
<1>4. EngineInv' /\ TypeOK'
  BY <1>1, <1>2, <1>3 DEF TypeOK, EngineInv, NothingLost
<1>5. FlushInv' /\ PlaceInv'
  BY <1>1, <1>2, <1>3 DEF IInv, TypeOK, FlushInv, PlaceInv, Boundary, NextSw, Request
<1>6. RewindInv'
  BY <1>1, <1>2, <1>3
     DEF IInv, TypeOK, FlushInv, RewindInv, Boundary, Request, JumpAt, HeaderEnd, Up
<1>7. WaitInv'
  BY <1>1, <1>2, <1>3
     DEF IInv, TypeOK, FlushInv, PlaceInv, RewindInv, WaitInv, ClearOfNext,
         BehindSw, Drained, PastBoundary, Boundary, NextSw, Request
<1>8. WriteInv'
  <2>1. Pending' \subseteq Pending
    BY <1>1, <1>2, <1>3 DEF TypeOK, Pending, Words
  <2>. QED
    BY <1>1, <2>1 DEF IInv, WriteInv, NoOverwrite, InsideRing, Words
<1>. QED
  BY <1>4, <1>5, <1>6, <1>7, <1>8 DEF IInv

LEMMA JumpStep == IInv /\ TakeJump => IInv'
<1> SUFFICES ASSUME IInv, TakeJump PROVE IInv'
  OBVIOUS
<1> USE SizesAssumption
<1>1. /\ UNCHANGED <<pc, flush, pfree, bad, written, pause, backlog>>
      /\ hw' = 0 /\ jump' = NoJump
      /\ hw /= pause /\ hw = jump
  BY DEF TakeJump, driverVars
<1>2. /\ TypeOK /\ EngineInv
      /\ hw \in 0 .. Size /\ pause \in 0 .. Size /\ jump \in Nat
      /\ pc = "set_pause" => hw <= pause
      /\ hw > pause => Armed /\ hw <= jump /\ jump <= Size
      /\ Armed => pause < jump /\ jump <= Size
  BY EngineFacts DEF IInv
<1>3. Lapped /\ ~ Lapped' /\ pc /= "set_pause"
  BY <1>1, <1>2 DEF IInv, TypeOK, EngineInv, RewindInv
<1>4. EngineInv' /\ TypeOK'
  BY <1>1, <1>2, <1>3 DEF TypeOK, EngineInv, NothingLost
<1>5. FlushInv' /\ PlaceInv'
  BY <1>1, <1>2, <1>3 DEF IInv, TypeOK, FlushInv, PlaceInv, Boundary, NextSw, Request
<1>6. RewindInv'
  BY <1>1, <1>2, <1>3
     DEF IInv, TypeOK, FlushInv, RewindInv, Boundary, Request
<1>7. WaitInv'
  <2>1. pc \notin {"drain2", "past2"} /\ pfree' >= 0 /\ hw' = 0
    BY <1>1, <1>2, <1>3 DEF IInv, TypeOK, RewindInv
  <2>2. ClearOfNext' /\ BehindSw'
    BY <1>1, <1>2, <2>1 DEF TypeOK, ClearOfNext, BehindSw
  <2>. QED
    BY <1>1, <2>1, <2>2 DEF WaitInv
<1>8. WriteInv'
  <2>1. Pending' \subseteq Pending
    <3>1. Pending' = Words(0, pause)
      BY <1>1, <1>2 DEF TypeOK, Pending
    <3>2. Words(0, pause) \subseteq Pending
      BY <1>2, <1>3 DEF TypeOK, Pending
    <3>. QED
      BY <3>1, <3>2
  <2>. QED
    BY <1>1, <2>1 DEF IInv, WriteInv, NoOverwrite, InsideRing, Words
<1>. QED
  BY <1>4, <1>5, <1>6, <1>7, <1>8 DEF IInv

(***************************************************************************)
(* The driver's steps up to the choice of a place.  They write nothing,    *)
(* and they leave the engine alone.                                        *)
(***************************************************************************)
LEMMA GetSpaceStep ==
  ASSUME CommandsFit, IInv, NEW r \in Requests, GetSpace(r)
  PROVE  IInv'
<1> USE SizesAssumption
<1>1. /\ r.size \in Nat \ {0} /\ r.used \in 1 .. r.size /\ r.branch \in BOOLEAN
      /\ r.size + Reserve + PauseAlign < Size
  BY RequestsAssumption DEF CommandsFit
<1>2. /\ pc = "idle" /\ pc' = "space" /\ written' = {}
      /\ flush' \in Flushes /\ flush'.size = r.size /\ flush'.used = r.used
      /\ UNCHANGED <<pfree, bad, hw, pause, jump, backlog>>
  BY <1>1, SizesAssumption DEF GetSpace, Refused, engineVars, Flushes
<1>3. TypeOK'
  BY <1>1, <1>2 DEF IInv, TypeOK, Steps
<1>4. FlushInv'
  BY <1>1, <1>2 DEF FlushInv, Boundary, Request
<1>5. EngineInv' /\ PlaceInv'
  BY <1>2 DEF IInv, EngineInv, NothingLost, PlaceInv
<1>6. RewindInv' /\ WaitInv'
  BY <1>2 DEF RewindInv, WaitInv
<1>7. WriteInv'
  BY <1>2 DEF IInv, WriteInv, NoOverwrite, InsideRing, Pending
<1>. QED
  BY <1>3, <1>4, <1>5, <1>6, <1>7 DEF IInv

LEMMA ChooseStep == IInv /\ ChoosePath => IInv'
<1> SUFFICES ASSUME IInv, ChoosePath PROVE IInv'
  OBVIOUS
<1> USE SizesAssumption
<1>1. /\ pc = "space" /\ pc' = (IF MustWrap THEN "behind" ELSE "clear")
      /\ written' = {}
      /\ UNCHANGED <<flush, pfree, bad, hw, pause, jump, backlog>>
  BY DEF ChoosePath, engineVars
<1>2. TypeOK'
  BY <1>1 DEF IInv, TypeOK, Steps
<1>3. FlushInv'
  BY <1>1 DEF IInv, FlushInv, Boundary, Request
<1>4. EngineInv'
  BY <1>1 DEF IInv, EngineInv, NothingLost
<1>5. PlaceInv'
  BY <1>1 DEF IInv, TypeOK, FlushInv, PlaceInv, MustWrap, NextSw, Request
<1>6. RewindInv' /\ WaitInv'
  BY <1>1 DEF IInv, TypeOK, FlushInv, PlaceInv, RewindInv, WaitInv, MustWrap,
              NextSw, Request
<1>7. WriteInv'
  BY <1>1 DEF IInv, WriteInv, NoOverwrite, InsideRing, Pending
<1>. QED
  BY <1>2, <1>3, <1>4, <1>5, <1>6, <1>7 DEF IInv

(***************************************************************************)
(* The waits.  What a loop has established still holds when the next one   *)
(* ends, so one of the two reads may lie.                                  *)
(***************************************************************************)
LEMMA WaitStep ==
  ASSUME IInv, pc' \in Steps, bad' \in BOOLEAN, written' = {},
         UNCHANGED <<flush, pfree, hw, pause, jump, backlog>>,
         pc /= "idle", pc /= "set_pause", pc' /= "set_pause",
         PlaceInv', RewindInv', WaitInv'
  PROVE  IInv'
<1>1. TypeOK'
  BY DEF IInv, TypeOK
<1>2. FlushInv'
  BY DEF IInv, FlushInv, Boundary, Request
<1>3. EngineInv'
  BY DEF IInv, EngineInv, NothingLost
<1>4. WriteInv'
  BY DEF IInv, WriteInv, NoOverwrite, InsideRing, Pending
<1>. QED
  BY <1>1, <1>2, <1>3, <1>4 DEF IInv

LEMMA ClearStep == IInv /\ WaitClear => IInv'
<1> SUFFICES ASSUME IInv, WaitClear PROVE IInv'
  OBVIOUS
<1> USE SizesAssumption
<1>1. /\ written' = {} /\ bad \in BOOLEAN
      /\ UNCHANGED <<flush, pfree, hw, pause, jump, backlog>>
  BY DEF WaitClear, ReadFirst, ReadAgain, engineVars, IInv, TypeOK
<1>2. \/ pc = "clear" /\ pc' \in {"clear", "clear2"}
         /\ (pc' = "clear2" => bad' \/ ClearOfNext) /\ bad' \in BOOLEAN
      \/ pc = "clear2" /\ pc' = "clear2" /\ bad' = bad
      \/ pc = "clear2" /\ pc' = "copy" /\ bad' = FALSE /\ (ClearOfNext \/ ~ bad)
  BY <1>1 DEF WaitClear, ReadFirst, ReadAgain, Lies
<1>3. pc = "clear2" /\ ~ bad => ClearOfNext
  BY DEF IInv, WaitInv
<1>4. PlaceInv'
  BY <1>1, <1>2, <1>3
     DEF IInv, TypeOK, FlushInv, PlaceInv, ClearOfNext, NextSw, Request
<1>5. RewindInv' /\ WaitInv'
  BY <1>1, <1>2, <1>3 DEF RewindInv, IInv, WaitInv, ClearOfNext, NextSw, Request
<1>. QED
  BY <1>1, <1>2, <1>4, <1>5, WaitStep DEF Steps

LEMMA BehindStep == IInv /\ WaitBehind => IInv'
<1> SUFFICES ASSUME IInv, WaitBehind PROVE IInv'
  OBVIOUS
<1> USE SizesAssumption
<1>1. /\ written' = {} /\ bad \in BOOLEAN
      /\ UNCHANGED <<flush, pfree, hw, pause, jump, backlog>>
      /\ pc \in {"behind", "behind2"}
  BY DEF WaitBehind, ReadFirst, ReadAgain, engineVars, IInv, TypeOK
<1>2. Boundary < Size /\ Boundary \in Nat /\ flush.size \in Nat
  BY <1>1 DEF IInv, FlushInv, Boundary, Request
<1>3. \/ pc = "behind" /\ pc' \in {"behind", "behind2"}
         /\ (pc' = "behind2" => bad' \/ BehindSw) /\ bad' \in BOOLEAN
      \/ pc = "behind2" /\ pc' = "behind2" /\ bad' = bad
      \/ pc = "behind2" /\ pc' = (IF MustDrain THEN "drain" ELSE "past")
         /\ bad' = FALSE /\ (BehindSw \/ ~ bad)
  <2>1. AfterBehind = IF MustDrain THEN "drain" ELSE "past"
    BY <1>2 DEF AfterBehind
  <2>. QED
    BY <1>1, <2>1 DEF WaitBehind, ReadFirst, ReadAgain, Lies
<1>4. pc = "behind2" /\ ~ bad => BehindSw
  BY DEF IInv, WaitInv
<1>5. PlaceInv'
  BY <1>1, <1>3 DEF IInv, PlaceInv
<1>6. RewindInv'
  BY <1>1, <1>2, <1>3, <1>4
     DEF IInv, TypeOK, PlaceInv, RewindInv, BehindSw, MustDrain, Boundary, Request
<1>7. WaitInv'
  BY <1>1, <1>3, <1>4 DEF IInv, WaitInv, BehindSw
<1>. QED
  BY <1>1, <1>3, <1>5, <1>6, <1>7, WaitStep DEF Steps

LEMMA DrainStep == IInv /\ WaitDrained => IInv'
<1> SUFFICES ASSUME IInv, WaitDrained PROVE IInv'
  OBVIOUS
<1> USE SizesAssumption
<1>1. /\ written' = {} /\ bad \in BOOLEAN
      /\ UNCHANGED <<flush, pfree, hw, pause, jump, backlog>>
      /\ pc \in {"drain", "drain2"}
  BY DEF WaitDrained, ReadFirst, ReadAgain, engineVars, IInv, TypeOK
<1>2. \/ pc = "drain" /\ pc' \in {"drain", "drain2"}
         /\ (pc' = "drain2" => bad' \/ Drained) /\ bad' \in BOOLEAN
      \/ pc = "drain2" /\ pc' = "drain2" /\ bad' = bad
      \/ pc = "drain2" /\ pc' = "rewind" /\ bad' = FALSE /\ (Drained \/ ~ bad)
  BY <1>1 DEF WaitDrained, ReadFirst, ReadAgain, Lies
<1>3. pc = "drain2" /\ ~ bad => Drained
  BY DEF IInv, WaitInv
<1>4. PlaceInv'
  BY <1>1, <1>2 DEF IInv, PlaceInv
<1>5. RewindInv'
  BY <1>1, <1>2, <1>3
     DEF IInv, TypeOK, FlushInv, PlaceInv, RewindInv, Drained, Boundary, Request
<1>6. WaitInv'
  BY <1>1, <1>2, <1>3 DEF IInv, WaitInv, Drained
<1>. QED
  BY <1>1, <1>2, <1>4, <1>5, <1>6, WaitStep DEF Steps

LEMMA PastStep == IInv /\ WaitPast => IInv'
<1> SUFFICES ASSUME IInv, WaitPast PROVE IInv'
  OBVIOUS
<1> USE SizesAssumption
<1>1. /\ written' = {} /\ bad \in BOOLEAN
      /\ UNCHANGED <<flush, pfree, hw, pause, jump, backlog>>
      /\ pc \in {"past", "past2"}
  BY DEF WaitPast, ReadFirst, ReadAgain, engineVars, IInv, TypeOK
<1>2. \/ pc = "past" /\ pc' \in {"past", "past2"}
         /\ (pc' = "past2" => bad' \/ PastBoundary) /\ bad' \in BOOLEAN
      \/ pc = "past2" /\ pc' = "past2" /\ bad' = bad
      \/ pc = "past2" /\ pc' = "rewind" /\ bad' = FALSE
         /\ (PastBoundary \/ ~ bad)
  BY <1>1 DEF WaitPast, ReadFirst, ReadAgain, Lies
<1>3. pc = "past2" /\ ~ bad => PastBoundary
  BY DEF IInv, WaitInv
<1>4. PlaceInv'
  BY <1>1, <1>2 DEF IInv, PlaceInv
<1>5. RewindInv'
  BY <1>1, <1>2, <1>3
     DEF IInv, TypeOK, FlushInv, PlaceInv, RewindInv, PastBoundary, Boundary, Request
<1>6. WaitInv'
  BY <1>1, <1>2, <1>3 DEF IInv, WaitInv, PastBoundary, Boundary, Request
<1>. QED
  BY <1>1, <1>2, <1>4, <1>5, <1>6, WaitStep DEF Steps

(* The last wait of a rewind is not written twice. *)
LEMMA JumpedStep == LiesConfirmed /\ IInv /\ WaitJumped => IInv'
<1> SUFFICES ASSUME LiesConfirmed, IInv, WaitJumped PROVE IInv'
  OBVIOUS
<1> USE SizesAssumption
<1>1. /\ written' = {} /\ bad' \in BOOLEAN
      /\ UNCHANGED <<flush, pfree, hw, pause, jump, backlog>>
      /\ pc = "jumped"
      /\ pc' = "jumped" \/ (pc' = "copy" /\ HasJumped)
  BY DEF WaitJumped, ReadAgain, Lies, LiesConfirmed, engineVars, IInv, TypeOK
<1>2. PlaceInv'
  BY <1>1 DEF IInv, TypeOK, FlushInv, PlaceInv, HasJumped, Request
<1>3. RewindInv' /\ WaitInv'
  BY <1>1 DEF RewindInv, WaitInv
<1>. QED
  BY <1>1, <1>2, <1>3, WaitStep DEF Steps

(***************************************************************************)
(* The rewind.                                                             *)
(***************************************************************************)
LEMMA RewindStep == IInv /\ Rewind => IInv'
<1> SUFFICES ASSUME IInv, Rewind PROVE IInv'
  OBVIOUS
<1> USE SizesAssumption
<1>1. /\ pc = "rewind" /\ pc' = "set_jump"
      /\ written' = Words(pfree, JumpAt) \cup Words(0, RestartAt)
      /\ UNCHANGED <<flush, pfree, bad, hw, pause, jump, backlog>>
  BY DEF Rewind, engineVars
<1>2. TypeOK /\ pfree \in Nat /\ pfree = pause /\ hw <= pause /\ hw \in Nat
      /\ pause + PadSize + Threshold <= Size
      /\ (hw = pause \/ (hw > Boundary /\ Boundary \in Nat /\ Boundary >= Align))
  BY <1>1 DEF IInv, TypeOK, FlushInv, PlaceInv, RewindInv, Boundary, Request
<1>3. JumpAt \in pfree + 1 .. Size /\ RestartAt \in 1 .. Align
  BY <1>2, RewindBounds
<1>4. TypeOK'
  BY <1>1, <1>2, <1>3 DEF TypeOK, Steps, Words
<1>5. FlushInv' /\ EngineInv'
  BY <1>1 DEF IInv, FlushInv, EngineInv, NothingLost, Boundary, Request
<1>6. PlaceInv' /\ WaitInv'
  BY <1>1 DEF IInv, PlaceInv, WaitInv
<1>7. RewindInv'
  BY <1>1 DEF IInv, RewindInv, Boundary, Request
<1>8. WriteInv'
  <2>1. Pending' = Words(hw, pause)
    BY <1>1, <1>2 DEF Pending
  <2>2. NoOverwrite'
    BY <1>1, <1>2, <1>3, <2>1 DEF NoOverwrite, Words
  <2>3. InsideRing'
    BY <1>1, <1>2, <1>3, <2>1 DEF InsideRing, Words
  <2>. QED
    BY <2>2, <2>3 DEF WriteInv
<1>. QED
  BY <1>4, <1>5, <1>6, <1>7, <1>8 DEF IInv

LEMMA SetJumpStep == IInv /\ SetJump => IInv'
<1> SUFFICES ASSUME IInv, SetJump PROVE IInv'
  OBVIOUS
<1> USE SizesAssumption
<1>1. /\ pc = "set_jump" /\ pc' = "set_pause" /\ jump' = JumpAt /\ written' = {}
      /\ UNCHANGED <<flush, pfree, bad, hw, pause, backlog>>
  BY DEF SetJump
<1>2. TypeOK /\ pfree \in Nat /\ pfree = pause /\ hw <= pause
      /\ pause + PadSize + Threshold <= Size
  BY <1>1 DEF IInv, TypeOK, PlaceInv, RewindInv
<1>3. JumpAt \in pfree + 1 .. Size /\ JumpAt' = JumpAt
  BY <1>1, <1>2, RewindBounds DEF JumpAt
<1>4. TypeOK'
  BY <1>1, <1>2, <1>3 DEF TypeOK, Steps
<1>5. FlushInv'
  BY <1>1 DEF IInv, FlushInv, Boundary, Request
<1>6. EngineInv'
  BY <1>1, <1>2, <1>3 DEF IInv, TypeOK, EngineInv, NothingLost
<1>7. PlaceInv' /\ WaitInv'
  BY <1>1 DEF IInv, PlaceInv, WaitInv
<1>8. RewindInv'
  BY <1>1, <1>3 DEF IInv, RewindInv, Boundary, Request
<1>9. WriteInv'
  BY <1>1, <1>2 DEF IInv, WriteInv, NoOverwrite, InsideRing, Pending
<1>. QED
  BY <1>4, <1>5, <1>6, <1>7, <1>8, <1>9 DEF IInv

LEMMA SetPauseStep == IInv /\ SetPause => IInv'
<1> SUFFICES ASSUME IInv, SetPause PROVE IInv'
  OBVIOUS
<1> USE SizesAssumption
<1>1. /\ pc = "set_pause" /\ pc' \in {"jumped", "copy"}
      /\ pfree' = RestartAt /\ pause' = RestartAt /\ written' = {}
      /\ backlog' = backlog + (JumpAt - pause) + RestartAt
      /\ UNCHANGED <<flush, bad, hw, jump>>
      /\ pc' = "copy" => ~ MustDrain
  BY DEF SetPause
<1>2. TypeOK /\ pfree \in Nat /\ pfree = pause /\ hw \in Nat /\ hw <= pause
      /\ pause + PadSize + Threshold <= Size
      /\ flush.size \in Nat /\ Request \in Nat
      /\ Boundary = Request + PauseAlign /\ Boundary < Size
      /\ pause + Request + Threshold >= Size
      /\ IF pause <= Boundary THEN hw = pause ELSE hw > Boundary
  BY <1>1 DEF IInv, TypeOK, FlushInv, PlaceInv, RewindInv, EngineInv,
              NothingLost, Boundary, Request
<1>3. jump = JumpAt /\ backlog = pause - hw
  BY <1>1, <1>2 DEF IInv, RewindInv, EngineInv, NothingLost
<1>4. RestartAt \in 1 .. Align
  BY <1>2, RewindBounds
<1>5. jump \in pause + 1 .. Size
  BY <1>2, <1>3, RewindBounds
<1>6. /\ hw > RestartAt /\ jump > hw /\ Armed /\ jump \in Nat /\ jump <= Size
      /\ RestartAt \in 1 .. Size
  <2>1. jump /= NoJump
    BY <1>5
  <2>2. pause > Align /\ Boundary > Align
    BY <1>2
  <2>3. hw > Align
    BY <1>2, <2>2
  <2>. QED
    BY <1>2, <1>4, <1>5, <2>1, <2>3
<1>7. TypeOK'
  <2>1. backlog' = (jump - hw) + RestartAt
    BY <1>1, <1>2, <1>3, <1>5
  <2>2. backlog' \in 0 .. 2 * Size
    BY <2>1, <1>2, <1>6
  <2>3. pc' \in Steps
    BY <1>1 DEF Steps
  <2>. QED
    BY <1>1, <1>2, <1>6, <2>2, <2>3 DEF TypeOK
<1>8. FlushInv'
  BY <1>1 DEF IInv, FlushInv, Boundary, Request
<1>9. EngineInv'
  <2>1. backlog' = (jump - hw) + RestartAt
    BY <1>1, <1>2, <1>3, <1>5
  <2>2. NothingLost'
    BY <1>1, <1>2, <1>6, <2>1 DEF NothingLost
  <2>. QED
    BY <1>1, <1>2, <1>6, <2>2 DEF EngineInv
<1>10. PlaceInv'
  <2>1. Request' = Request
    BY <1>1 DEF Request
  <2>. QED
    BY <1>1, <1>2, <1>4, <1>6, <2>1 DEF PlaceInv, MustDrain
<1>11. RewindInv' /\ WaitInv'
  BY <1>1 DEF RewindInv, WaitInv
<1>12. WriteInv'
  BY <1>1, <1>2, <1>6
     DEF WriteInv, NoOverwrite, InsideRing, Pending, Words
<1>. QED
  BY <1>7, <1>8, <1>9, <1>10, <1>11, <1>12 DEF IInv

(***************************************************************************)
(* Writing the command and what surrounds it: all of it lies below the     *)
(* address the waits have cleared.                                         *)
(***************************************************************************)
LEMMA WritingFacts ==
  ASSUME IInv, pc \in Writing
  PROVE  /\ pause \in Nat /\ hw \in Nat /\ pfree \in Nat /\ jump \in Nat
         /\ flush.size \in Nat \ {0} /\ flush.used \in 1 .. flush.size
         /\ Request = flush.size + Reserve
         /\ pause + Request + Threshold < Size
         /\ hw > pause => /\ hw > pause + Request + Threshold
                          /\ hw <= jump /\ jump <= Size /\ Armed
BY EngineFacts, SizesAssumption DEF IInv, TypeOK, FlushInv, PlaceInv, Request

(* Words between the pause address and the cleared one are not pending. *)
LEMMA ClearedWords ==
  ASSUME IInv, pc \in Writing,
         NEW from \in Nat, NEW to \in Nat,
         pause <= from, to <= pause + Request + Threshold
  PROVE  /\ Words(from, to) \cap Pending = {}
         /\ Words(from, to) \subseteq Words(0, Size)
<1> USE SizesAssumption
<1>1. CASE hw <= pause
  BY <1>1, WritingFacts DEF Pending, Words
<1>2. CASE hw > pause
  <2>1. Pending = Words(hw, jump) \cup Words(0, pause)
    BY <1>2, WritingFacts DEF Pending
  <2>2. hw > to
    BY <1>2, WritingFacts
  <2>. QED
    BY <2>1, <2>2, WritingFacts DEF Words
<1>. QED
  BY <1>1, <1>2, WritingFacts

LEMMA CopyStep == IInv /\ Copy => IInv'
<1> SUFFICES ASSUME IInv, Copy PROVE IInv'
  OBVIOUS
<1> USE SizesAssumption
<1>1. /\ pc = "copy" /\ pc' \in {"idle", "release"}
      /\ written' = Words(pfree, pfree + flush.used)
      /\ UNCHANGED <<flush, pfree, bad, hw, pause, jump, backlog>>
  BY DEF Copy, engineVars
<1>2. pfree = pause
  BY <1>1 DEF IInv, PlaceInv
<1>3. TypeOK'
  BY <1>1, WritingFacts DEF IInv, TypeOK, Steps, Words
<1>4. FlushInv' /\ EngineInv'
  BY <1>1 DEF IInv, FlushInv, EngineInv, NothingLost, Boundary, Request
<1>5. PlaceInv'
  BY <1>1, WritingFacts DEF IInv, PlaceInv, Request
<1>6. RewindInv' /\ WaitInv'
  BY <1>1 DEF RewindInv, WaitInv
<1>7. WriteInv'
  <2>1. /\ written' \cap Pending = {}
        /\ written' \subseteq Words(0, Size)
    <3>1. pfree + flush.used <= pause + Request + Threshold
      BY <1>1, <1>2, WritingFacts
    <3>. QED
      BY <1>1, <1>2, <3>1, WritingFacts, ClearedWords
  <2>2. Pending' = Pending
    BY <1>1 DEF Pending
  <2>. QED
    BY <2>1, <2>2 DEF IInv, WriteInv, NoOverwrite, InsideRing
<1>. QED
  BY <1>3, <1>4, <1>5, <1>6, <1>7 DEF IInv

LEMMA ReleaseStep == IInv /\ Release => IInv'
<1> SUFFICES ASSUME IInv, Release PROVE IInv'
  OBVIOUS
<1> USE SizesAssumption
<1>1. /\ pc = "release" /\ pc' = "kickoff" /\ pfree' = ReleaseEnd
      /\ written' = Words(pfree + flush.used, ReleaseEnd)
      /\ UNCHANGED <<flush, bad, hw, pause, jump, backlog>>
  BY DEF Release, engineVars
<1>2. pfree = pause
  BY <1>1 DEF IInv, PlaceInv
<1>3. /\ ReleaseEnd \in pause + flush.used
                .. pause + flush.used + 2 * Cell + Header + NullCommands
      /\ ReleaseEnd <= pause + Request - PadSize
      /\ ReleaseEnd <= Size
  BY <1>1, <1>2, WritingFacts, ReleaseBounds
<1>4. TypeOK'
  <2>1. pfree + flush.used \in Nat /\ ReleaseEnd \in 0 .. Size
    BY <1>1, <1>2, <1>3, WritingFacts
  <2>2. written' \subseteq Nat
    BY <1>1, <2>1 DEF Words
  <2>. QED
    BY <1>1, <2>1, <2>2 DEF IInv, TypeOK, Steps
<1>5. FlushInv' /\ EngineInv'
  BY <1>1 DEF IInv, FlushInv, EngineInv, NothingLost, Boundary, Request
<1>6. PlaceInv'
  BY <1>1, <1>2, <1>3, WritingFacts DEF PlaceInv, Request
<1>7. RewindInv' /\ WaitInv'
  BY <1>1 DEF RewindInv, WaitInv
<1>8. WriteInv'
  <2>1. /\ written' \cap Pending = {}
        /\ written' \subseteq Words(0, Size)
    BY <1>1, <1>2, <1>3, WritingFacts, ClearedWords
  <2>2. Pending' = Pending
    BY <1>1 DEF Pending
  <2>. QED
    BY <2>1, <2>2 DEF IInv, WriteInv, NoOverwrite, InsideRing
<1>. QED
  BY <1>4, <1>5, <1>6, <1>7, <1>8 DEF IInv

LEMMA KickoffStep == IInv /\ KickoffPads => IInv'
<1> SUFFICES ASSUME IInv, KickoffPads PROVE IInv'
  OBVIOUS
<1> USE SizesAssumption
<1>1. /\ pc = "kickoff" /\ pc' = "kick" /\ pfree' = PauseAt
      /\ written' = Words(pfree, PauseAt + PadSize)
      /\ UNCHANGED <<flush, bad, hw, pause, jump, backlog>>
  BY DEF KickoffPads, engineVars
<1>2. pfree \in pause .. pause + flush.used + 2 * Cell + Header + NullCommands
  BY <1>1 DEF IInv, PlaceInv
<1>3. /\ PauseAt \in pause .. pause + Request - PadSize
      /\ PauseAt + PadSize <= pause + Request
      /\ PauseAt <= Size
  BY <1>1, <1>2, WritingFacts, PauseBounds
<1>4. TypeOK'
  BY <1>1, <1>2, <1>3, WritingFacts DEF IInv, TypeOK, Steps, Words
<1>5. FlushInv' /\ EngineInv'
  BY <1>1 DEF IInv, FlushInv, EngineInv, NothingLost, Boundary, Request
<1>6. PlaceInv'
  BY <1>1, <1>2, <1>3, WritingFacts DEF PlaceInv, Request
<1>7. RewindInv' /\ WaitInv'
  BY <1>1 DEF RewindInv, WaitInv
<1>8. WriteInv'
  <2>1. /\ written' \cap Pending = {}
        /\ written' \subseteq Words(0, Size)
    BY <1>1, <1>2, <1>3, WritingFacts, ClearedWords
  <2>2. Pending' = Pending
    BY <1>1 DEF Pending
  <2>. QED
    BY <2>1, <2>2 DEF IInv, WriteInv, NoOverwrite, InsideRing
<1>. QED
  BY <1>4, <1>5, <1>6, <1>7, <1>8 DEF IInv

LEMMA KickStep == IInv /\ Kick => IInv'
<1> SUFFICES ASSUME IInv, Kick PROVE IInv'
  OBVIOUS
<1> USE SizesAssumption
<1>1. /\ pc = "kick" /\ pc' = "idle" /\ pause' = pfree /\ written' = {}
      /\ backlog' = backlog + (pfree - pause)
      /\ UNCHANGED <<flush, pfree, bad, hw, jump>>
  BY DEF Kick
<1>2. pfree \in pause .. pause + Request - PadSize
  BY <1>1 DEF IInv, PlaceInv
<1>3. pfree \in Nat /\ pfree + PadSize + Threshold < Size
      /\ (hw > pause => hw > pfree)
  BY <1>1, <1>2, WritingFacts
<1>4. /\ backlog = IF hw <= pause THEN pause - hw ELSE (jump - hw) + pause
      /\ hw <= pause => ~ Armed
  BY <1>1, WritingFacts DEF IInv, EngineInv, NothingLost
<1>5. backlog' = IF hw <= pfree THEN pfree - hw ELSE (jump - hw) + pfree
  BY <1>1, <1>2, <1>3, <1>4, WritingFacts
<1>6. TypeOK'
  <2>1. backlog' \in 0 .. 2 * Size
    BY <1>1, <1>2, <1>3, <1>5, WritingFacts
  <2>. QED
    BY <1>1, <1>3, <2>1 DEF IInv, TypeOK, Steps
<1>7. EngineInv'
  BY <1>1, <1>2, <1>3, <1>4, <1>5, WritingFacts DEF IInv, EngineInv, NothingLost
<1>8. FlushInv' /\ PlaceInv'
  BY <1>1, <1>3 DEF FlushInv, PlaceInv
<1>9. RewindInv' /\ WaitInv'
  BY <1>1 DEF RewindInv, WaitInv
<1>10. WriteInv'
  BY <1>1, <1>2, <1>3, WritingFacts
     DEF WriteInv, NoOverwrite, InsideRing, Pending, Words
<1>. QED
  BY <1>6, <1>7, <1>8, <1>9, <1>10 DEF IInv
-----------------------------------------------------------------------------
LEMMA NextStep ==
  ASSUME CommandsFit, LiesConfirmed, IInv, [Next]_vars
  PROVE  IInv'
<1>1. CASE Driver
  BY <1>1, GetSpaceStep, ChooseStep, ClearStep, BehindStep, DrainStep, PastStep,
     JumpedStep, RewindStep, SetJumpStep, SetPauseStep, CopyStep, ReleaseStep,
     KickoffStep, KickStep DEF Driver
<1>2. CASE Engine
  BY <1>2, ExecuteStep, JumpStep DEF Engine
<1>3. CASE UNCHANGED vars
  BY <1>3 DEF vars, driverVars, engineVars, IInv, TypeOK, FlushInv, EngineInv,
     NothingLost, PlaceInv, RewindInv, WaitInv, WriteInv, NoOverwrite,
     InsideRing, Pending, Boundary, NextSw, Request, ClearOfNext, BehindSw,
     Drained, PastBoundary, JumpAt, HeaderEnd, Up
<1>. QED
  BY <1>1, <1>2, <1>3 DEF Next

LEMMA Invariance ==
  ASSUME CommandsFit, LiesConfirmed
  PROVE  Spec => []IInv
<1>1. IInv /\ [Next]_vars => IInv'
  BY NextStep
<1>. QED
  BY InitIInv, <1>1, PTL DEF Spec

(* The pointers never leave the ring. *)
THEOREM RingTypeCorrect ==
  ASSUME CommandsFit, LiesConfirmed
  PROVE  Spec => []TypeOK
<1>1. IInv => TypeOK
  BY DEF IInv
<1>. QED
  BY Invariance, <1>1, PTL

(* No command and no padding overwrites a word still to be executed, and   *)
(* none leaves the ring, even though any of the double reads may lie once. *)
THEOREM NeverOverwrites ==
  ASSUME CommandsFit, LiesConfirmed
  PROVE  Spec => [](NoOverwrite /\ InsideRing)
<1>1. IInv => NoOverwrite /\ InsideRing
  BY DEF IInv, WriteInv
<1>. QED
  BY Invariance, <1>1, PTL

(* The engine is handed every word once, across any number of rewinds.     *)
THEOREM NeverLoses ==
  ASSUME CommandsFit, LiesConfirmed
  PROVE  Spec => []NothingLost
<1>1. IInv => NothingLost
  BY DEF IInv, EngineInv
<1>. QED
  BY Invariance, <1>1, PTL

(* A rewind never replaces a jump the engine has still to take.            *)
THEOREM JumpsTaken ==
  ASSUME CommandsFit, LiesConfirmed
  PROVE  Spec => JumpsAreTaken
<1>1. IInv /\ [Next]_vars => [Armed => jump' \in {jump, NoJump}]_vars
  <2> SUFFICES ASSUME IInv, Next, Armed PROVE jump' \in {jump, NoJump}
    OBVIOUS
  <2>1. CASE SetJump
    BY <2>1 DEF IInv, EngineInv, RewindInv, SetJump
  <2>2. CASE ~ SetJump
    BY <2>2 DEF Next, Driver, Engine, Execute, TakeJump, GetSpace, ChoosePath,
       WaitClear, WaitBehind, WaitDrained, WaitPast, WaitJumped, ReadFirst,
       ReadAgain, Rewind, SetPause, Copy, Release, KickoffPads, Kick, engineVars
  <2>. QED
    BY <2>1, <2>2
<1>. QED
  BY Invariance, <1>1, PTL DEF Spec, JumpsAreTaken
-----------------------------------------------------------------------------
(***************************************************************************)
(* The ring as a FIFO of commands.  What is to be done is one or two runs  *)
(* of words, which the driver makes longer at their end and the engine     *)
(* shorter at their start.                                                 *)
(***************************************************************************)
LEMMA RunFacts ==
  ASSUME NEW a \in Nat, NEW b \in Nat, a <= b
  PROVE  /\ Run(a, b) \in Seq(Nat) /\ Len(Run(a, b)) = b - a
         /\ DOMAIN Run(a, b) = 1 .. b - a
         /\ \A i \in 1 .. b - a : Run(a, b)[i] = a + i - 1
<1>1. b - a \in Nat /\ \A i \in 1 .. b - a : a + i - 1 \in Nat
  OBVIOUS
<1>. QED
  BY <1>1 DEF Run

(* The facts about sequences these proofs need, for sequences of words. *)
LEMMA ConcatFacts ==
  \A s, t \in Seq(Nat) :
    /\ s \o t \in Seq(Nat) /\ Len(s \o t) = Len(s) + Len(t)
    /\ \A i \in 1 .. Len(s) + Len(t) :
         (s \o t)[i] = IF i <= Len(s) THEN s[i] ELSE t[i - Len(s)]
    /\ Range(s \o t) = Range(s) \cup Range(t)
    /\ <<>> \o t = t
BY ConcatProperties, RangeConcatenation, ConcatEmptySeq

LEMMA ConcatTwice ==
  ASSUME NEW s \in Seq(Nat), NEW t \in Seq(Nat), NEW u \in Seq(Nat)
  PROVE  (s \o t) \o u = s \o (t \o u)
BY ConcatAssociative, SMTT(60)

LEMMA RunRange ==
  ASSUME NEW a \in Nat, NEW b \in Nat, a <= b
  PROVE  Range(Run(a, b)) = Words(a, b) /\ IsInjective(Run(a, b))
<1>. DEFINE s == Run(a, b)
<1>0. DOMAIN s = 1 .. b - a /\ \A i \in 1 .. b - a : s[i] = a + i - 1
  BY RunFacts
<1>. HIDE DEF s
<1>1. ASSUME NEW w \in Words(a, b) PROVE w - a + 1 \in 1 .. b - a /\ s[w - a + 1] = w
  <2>1. w \in Int /\ a <= w /\ w <= b - 1
    BY DEF Words
  <2>2. w - a + 1 \in 1 .. b - a /\ a + (w - a + 1) - 1 = w
    BY <2>1
  <2>. QED
    BY <1>0, <2>2
<1>2. \A i \in 1 .. b - a : s[i] \in Words(a, b)
  BY <1>0 DEF Words
<1>3. Range(s) = Words(a, b)
  BY <1>0, <1>1, <1>2 DEF Range
<1>4. IsInjective(s)
  BY <1>0 DEF IsInjective
<1>. QED
  BY <1>3, <1>4 DEF s

LEMMA RunConcat ==
  ASSUME NEW a \in Nat, NEW b \in Nat, NEW c \in Nat, a <= b, b <= c
  PROVE  Run(a, b) \o Run(b, c) = Run(a, c)
<1>. DEFINE s == Run(a, b) \o Run(b, c)
<1>1. /\ Run(a, b) \in Seq(Nat) /\ Len(Run(a, b)) = b - a
      /\ Run(b, c) \in Seq(Nat) /\ Len(Run(b, c)) = c - b
      /\ \A i \in 1 .. b - a : Run(a, b)[i] = a + i - 1
      /\ \A i \in 1 .. c - b : Run(b, c)[i] = b + i - 1
  BY RunFacts
<1>2. /\ s \in Seq(Nat) /\ Len(s) = (b - a) + (c - b)
      /\ \A i \in 1 .. (b - a) + (c - b) :
           s[i] = IF i <= b - a THEN Run(a, b)[i] ELSE Run(b, c)[i - (b - a)]
  <2>. DEFINE u == Run(a, b)
              v == Run(b, c)
  <2>1. u \in Seq(Nat) /\ v \in Seq(Nat) /\ Len(u) = b - a /\ Len(v) = c - b
    BY <1>1
  <2>. HIDE DEF u, v
  <2>2. /\ u \o v \in Seq(Nat) /\ Len(u \o v) = (b - a) + (c - b)
        /\ \A i \in 1 .. (b - a) + (c - b) :
             (u \o v)[i] = IF i <= b - a THEN u[i] ELSE v[i - (b - a)]
    <3>1. /\ u \o v \in Seq(Nat) /\ Len(u \o v) = Len(u) + Len(v)
          /\ \A i \in 1 .. Len(u) + Len(v) :
               (u \o v)[i] = IF i <= Len(u) THEN u[i] ELSE v[i - Len(u)]
      BY <2>1, ConcatFacts
    <3>. QED
      BY <2>1, <3>1
  <2>. QED
    BY <2>2 DEF u, v
<1>3. Run(a, c) \in Seq(Nat) /\ Len(Run(a, c)) = c - a
      /\ \A i \in 1 .. c - a : Run(a, c)[i] = a + i - 1
  BY RunFacts
<1>. HIDE DEF s
<1>4. ASSUME NEW i \in 1 .. c - a PROVE s[i] = a + i - 1
  <2>1. CASE i <= b - a
    BY <1>1, <1>2, <2>1
  <2>2. CASE i > b - a
    <3>1. i - (b - a) \in 1 .. c - b
      BY <2>2
    <3>2. Run(b, c)[i - (b - a)] = b + (i - (b - a)) - 1
      BY <1>1, <3>1
    <3>. QED
      BY <1>2, <2>2, <3>2
  <2>. QED
    BY <2>1, <2>2
<1>5. Len(s) = Len(Run(a, c)) /\ \A i \in 1 .. Len(s) : s[i] = Run(a, c)[i]
  BY <1>2, <1>3, <1>4
<1>6. s = Run(a, c)
  BY <1>2, <1>3, <1>5, SeqEqual
<1>. QED
  BY <1>6 DEF s

LEMMA RunStarts ==
  ASSUME NEW a \in Nat, NEW b \in Nat, a < b
  PROVE  Run(a, b) = <<a>> \o Run(a + 1, b)
<1>0. a + 1 \in Nat /\ a <= a + 1 /\ a + 1 <= b
  OBVIOUS
<1>1. Run(a, a + 1) \o Run(a + 1, b) = Run(a, b)
  BY <1>0, RunConcat
<1>2. Run(a, a + 1) = <<a>>
  <2>1. /\ Run(a, a + 1) \in Seq(Nat) /\ Len(Run(a, a + 1)) = 1
        /\ Run(a, a + 1)[1] = a
    <3>1. /\ Run(a, a + 1) \in Seq(Nat) /\ Len(Run(a, a + 1)) = (a + 1) - a
          /\ \A i \in 1 .. (a + 1) - a : Run(a, a + 1)[i] = a + i - 1
      BY <1>0, RunFacts
    <3>2. (a + 1) - a = 1 /\ 1 \in 1 .. 1 /\ a + 1 - 1 = a
      OBVIOUS
    <3>. QED
      BY <3>1, <3>2
  <2>2. <<a>> \in Seq(Nat) /\ Len(<<a>>) = 1 /\ <<a>>[1] = a
    OBVIOUS
  <2>3. \A i \in 1 .. 1 : Run(a, a + 1)[i] = <<a>>[i]
    BY <2>1, <2>2
  <2>. QED
    BY <2>1, <2>2, <2>3, SeqEqual
<1>. QED
  BY <1>1, <1>2

LEMMA RunEmpty == \A a \in Nat : Run(a, a) = <<>>
<1>. TAKE a \in Nat
<1>1. Run(a, a) \in Seq(Nat) /\ Len(Run(a, a)) = 0
  BY RunFacts
<1>. QED
  BY <1>1

LEMMA FirstGoes ==
  ASSUME NEW a \in Nat, NEW s \in Seq(Nat)
  PROVE  <<a>> \o s # <<>> /\ Tail(<<a>> \o s) = s
<1>. DEFINE t == <<a>> \o s
<1>0. <<a>> \in Seq(Nat) /\ Len(<<a>>) = 1 /\ Len(s) \in Nat
  OBVIOUS
<1>1. t \in Seq(Nat) /\ Len(t) = 1 + Len(s)
      /\ \A i \in 1 .. 1 + Len(s) : t[i] = IF i <= 1 THEN <<a>>[i] ELSE s[i - 1]
  BY <1>0, ConcatProperties
<1>. HIDE DEF t
<1>2. t # <<>>
  BY <1>0, <1>1
<1>3. Tail(t) \in Seq(Nat) /\ Len(Tail(t)) = Len(s) /\ \A i \in 1 .. Len(s) : Tail(t)[i] = t[i + 1]
  BY <1>0, <1>1, <1>2, HeadTailProperties
<1>4. \A i \in 1 .. Len(s) : t[i + 1] = s[i]
  BY <1>0, <1>1
<1>5. Tail(t) = s
  BY <1>3, <1>4, SeqEqual
<1>. QED
  BY <1>2, <1>5 DEF t

(* The words to be done are those of Pending. *)
LEMMA ToDoFacts ==
  ASSUME IInv
  PROVE  ToDo \in Seq(Nat) /\ Range(ToDo) = Pending
<1>1. /\ hw \in Nat /\ pause \in Nat /\ jump \in Nat
      /\ hw > pause => hw <= jump
  BY EngineFacts, SizesAssumption
<1>2. CASE hw <= pause
  <2>1. ToDo = Run(hw, pause) /\ Pending = Words(hw, pause)
    BY <1>2 DEF ToDo, Pending
  <2>. QED
    BY <1>1, <1>2, <2>1, RunFacts, RunRange
<1>3. CASE ~ (hw <= pause)
  <2>1. /\ ToDo = Run(hw, jump) \o Run(0, pause) /\ hw <= jump /\ 0 <= pause
        /\ Pending = Words(hw, jump) \cup Words(0, pause)
    BY <1>1, <1>3 DEF ToDo, Pending
  <2>2. /\ Run(hw, jump) \in Seq(Nat) /\ Run(0, pause) \in Seq(Nat)
        /\ Range(Run(hw, jump)) = Words(hw, jump) /\ Range(Run(0, pause)) = Words(0, pause)
    BY <1>1, <2>1, RunFacts, RunRange
  <2>3. ToDo \in Seq(Nat)
    BY <2>1, <2>2, ConcatFacts
  <2>4. Range(ToDo) = Range(Run(hw, jump)) \cup Range(Run(0, pause))
    BY <2>1, <2>2, ConcatFacts
  <2>. QED
    BY <2>1, <2>2, <2>3, <2>4
<1>. QED
  BY <1>2, <1>3

LEMMA SameRange == \A s : Fifo!Range(s) = Range(s) /\ (Fifo!IsInjective(s) <=> IsInjective(s))
BY DEF Fifo!Range, Range, Fifo!IsInjective, IsInjective

LEMMA WritesCommands ==
  ASSUME IInv, IInv', UNCHANGED engineVars, Released' \subseteq Released \cup written'
  PROVE  Fifo!WriteCommands
<1>1. ToDo' = ToDo /\ Pending' = Pending
  BY DEF engineVars, ToDo, Pending
<1>2. written' \cap Pending' = {}
  BY DEF IInv, WriteInv, NoOverwrite
<1>. QED
  BY <1>1, <1>2, ToDoFacts, SameRange DEF Fifo!WriteCommands

LEMMA HandsOver ==
  ASSUME IInv, NEW new \in Seq(Nat), ToDo' = ToDo \o new, Range(new) \subseteq Released,
         IsInjective(new), Released' = {}, written' = {}
  PROVE  Fifo!HandOver
<1>1. ToDo \in Seq(Nat) /\ Len(ToDo) \in Nat /\ Len(new) \in Nat
  BY ToDoFacts
<1>2. SubSeq(ToDo \o new, Len(ToDo) + 1, Len(ToDo) + Len(new)) = new
  <2>1. CASE new = <<>>
    BY <1>1, <2>1, SubSeqEmpty
  <2>2. CASE new # <<>>
    <3>1. Len(new) >= 1
      BY <2>2
    <3>2. SubSeq(ToDo \o new, Len(ToDo) + 1, Len(ToDo) + Len(new)) = SubSeq(new, 1, Len(new))
      BY <1>1, <3>1, SubSeqOfConcat2
    <3>. QED
      BY <3>2, SubSeqFull
  <2>. QED
    BY <2>1, <2>2
<1>3. Len(ToDo') = Len(ToDo) + Len(new)
  BY <1>1, ConcatProperties
<1>4. SubSeq(ToDo', Len(ToDo) + 1, Len(ToDo')) = new
  BY <1>2, <1>3
<1>. QED
  BY <1>4, SameRange DEF Fifo!HandOver


(* Two runs that have no word in common. *)
LEMMA InjectiveConcat ==
  ASSUME NEW s \in Seq(Nat), NEW t \in Seq(Nat), IsInjective(s), IsInjective(t),
         Range(s) \cap Range(t) = {}
  PROVE  IsInjective(s \o t)
<1>1. /\ Len(s \o t) = Len(s) + Len(t) /\ Len(s) \in Nat /\ Len(t) \in Nat
      /\ DOMAIN (s \o t) = 1 .. Len(s) + Len(t)
      /\ \A i \in 1 .. Len(s) + Len(t) : (s \o t)[i] = IF i <= Len(s) THEN s[i] ELSE t[i - Len(s)]
  BY ConcatProperties
<1>2. \A i \in 1 .. Len(s) : s[i] \in Range(s)
  BY DEF Range
<1>3. \A i \in 1 .. Len(t) : t[i] \in Range(t)
  BY DEF Range
<1>4. ASSUME NEW i \in 1 .. Len(s) + Len(t), NEW j \in 1 .. Len(s) + Len(t),
             (s \o t)[i] = (s \o t)[j]
      PROVE  i = j
  <2>1. CASE i <= Len(s) /\ j <= Len(s)
    BY <1>1, <1>4, <2>1 DEF IsInjective
  <2>2. CASE i > Len(s) /\ j > Len(s)
    <3>1. i - Len(s) \in DOMAIN t /\ j - Len(s) \in DOMAIN t /\ t[i - Len(s)] = t[j - Len(s)]
      BY <1>1, <1>4, <2>2
    <3>2. i - Len(s) = j - Len(s)
      BY <3>1 DEF IsInjective
    <3>. QED
      BY <1>1, <3>2
  <2>3. CASE i <= Len(s) /\ j > Len(s)
    <3>1. j - Len(s) \in 1 .. Len(t) /\ i \in 1 .. Len(s) /\ s[i] = t[j - Len(s)]
      BY <1>1, <1>4, <2>3
    <3>. QED
      BY <1>2, <1>3, <3>1
  <2>4. CASE i > Len(s) /\ j <= Len(s)
    <3>1. i - Len(s) \in 1 .. Len(t) /\ j \in 1 .. Len(s) /\ s[j] = t[i - Len(s)]
      BY <1>1, <1>4, <2>4
    <3>. QED
      BY <1>2, <1>3, <3>1
  <2>. QED
    BY <1>1, <2>1, <2>2, <2>3, <2>4
<1>. QED
  BY <1>1, <1>4 DEF IsInjective

(* The driver looks and waits, or arms the jump. *)
LEMMA LookingIsWriting ==
  ASSUME CommandsFit, IInv, IInv',
         \/ \E r \in Requests : GetSpace(r)
         \/ ChoosePath \/ WaitClear \/ WaitBehind \/ WaitDrained \/ WaitPast \/ WaitJumped
  PROVE  Fifo!WriteCommands
<1>1. /\ UNCHANGED engineVars
      /\ pc' \in {"idle", "space", "clear", "clear2", "behind", "behind2", "drain", "drain2",
                  "past", "past2", "rewind", "jumped", "copy"}
  <2>1. CASE \E r \in Requests : GetSpace(r)
    <3>1. PICK r \in Requests : GetSpace(r)
      BY <2>1
    <3>2. ~ Refused(r)
      BY RequestsAssumption, SizesAssumption DEF CommandsFit, Refused
    <3>. QED
      BY <3>1, <3>2 DEF GetSpace
  <2>2. CASE ChoosePath \/ WaitClear \/ WaitBehind \/ WaitDrained \/ WaitPast \/ WaitJumped
    BY <2>2 DEF ChoosePath, WaitClear, WaitBehind, WaitDrained, WaitPast, WaitJumped,
       ReadFirst, ReadAgain, AfterBehind
  <2>. QED
    BY <2>1, <2>2
<1>2. Released' = {}
  BY <1>1 DEF Released
<1>. QED
  BY <1>1, <1>2, WritesCommands

LEMMA SetJumpIsWriting ==
  ASSUME IInv, IInv', SetJump
  PROVE  Fifo!WriteCommands
<1>1. /\ pc = "set_jump" /\ pc' = "set_pause" /\ written' = {}
      /\ UNCHANGED <<flush, pfree, hw, pause>>
  BY DEF SetJump
<1>2. hw <= pause
  BY <1>1, EngineFacts DEF IInv, RewindInv
<1>3. ToDo' = ToDo
  BY <1>1, <1>2 DEF ToDo
<1>4. Released' = Released
  BY <1>1 DEF Released, JumpAt, HeaderEnd, Up
<1>. QED
  BY <1>1, <1>3, <1>4 DEF Fifo!WriteCommands

LEMMA CopyingIsWriting ==
  ASSUME IInv, IInv', Rewind \/ Copy \/ Release \/ KickoffPads
  PROVE  Fifo!WriteCommands
<1>1. UNCHANGED engineVars
  BY DEF Rewind, Copy, Release, KickoffPads
<1>2. pause' = pause /\ pfree \in Nat /\ pause \in Nat
  BY <1>1 DEF engineVars, IInv, TypeOK
<1>3. pc \notin {"kickoff", "kick"} => pfree = pause
  BY DEF IInv, PlaceInv
<1>4. CASE Rewind
  BY <1>1, <1>4, WritesCommands DEF Rewind, Released, JumpAt, HeaderEnd, Up
<1>5. CASE Copy
  <2>1. /\ pc = "copy" /\ pc' \in {"release", "idle"} /\ written' = Words(pause, pfree + flush.used)
        /\ UNCHANGED <<flush, pfree>>
    BY <1>3, <1>5 DEF Copy
  <2>2. Released' \subseteq written'
    BY <1>2, <2>1 DEF Released
  <2>. QED
    BY <1>1, <2>2, WritesCommands
<1>6. CASE Release
  <2>1. /\ pc = "release" /\ pc' = "kickoff" /\ pfree' = ReleaseEnd
        /\ written' = Words(pfree + flush.used, ReleaseEnd)
    BY <1>6 DEF Release
  <2>2. Released = Words(pause, pfree + flush.used) /\ Released' = Words(pause, ReleaseEnd)
    BY <1>2, <2>1 DEF Released
  <2>3. flush.used \in Nat
    BY <2>1, WritingFacts
  <2>4. Released' \subseteq Released \cup written'
    BY <1>2, <2>1, <2>2, <2>3, ReleaseBounds, SizesAssumption DEF Words
  <2>. QED
    BY <1>1, <2>4, WritesCommands
<1>7. CASE KickoffPads
  <2>1. /\ pc = "kickoff" /\ pc' = "kick" /\ pfree' = PauseAt
        /\ written' = Words(pfree, PauseAt + PadSize)
    BY <1>7 DEF KickoffPads
  <2>2. Released = Words(pause, pfree) /\ Released' = Words(pause, PauseAt)
    BY <1>2, <2>1 DEF Released
  <2>3. PauseAt \in Nat /\ PadSize \in Nat
    BY <1>2, PauseBounds, SizesAssumption
  <2>4. Released' \subseteq Released \cup written'
    BY <1>2, <2>1, <2>2, <2>3 DEF Words
  <2>. QED
    BY <1>1, <2>4, WritesCommands
<1>. QED
  BY <1>4, <1>5, <1>6, <1>7

(* The pause register hands over what has been written up to the jump and  *)
(* at the start, or the command of the flush.                              *)
LEMMA SetPauseHandsOver ==
  ASSUME IInv, IInv', SetPause
  PROVE  Fifo!HandOver
<1>1. /\ pc = "set_pause" /\ pc' \in {"jumped", "copy"} /\ pause' = RestartAt /\ written' = {}
      /\ hw' = hw /\ jump' = jump
  BY DEF SetPause
<1>2. /\ hw \in Nat /\ pause \in Nat /\ pfree = pause /\ hw <= pause /\ jump = JumpAt
  BY <1>1, EngineFacts DEF IInv, PlaceInv, RewindInv
<1>3. RestartAt \in Nat /\ jump \in Nat /\ pause < jump /\ jump <= Size
  <2>1. RestartAt \in Nat /\ pause < jump /\ jump \in Nat
    BY <1>2, RewindBounds, SizesAssumption
  <2>2. pause + PadSize + Threshold <= Size
    BY <1>1 DEF IInv, PlaceInv, Writing
  <2>3. jump <= pause + Cell + Header + Align
    BY <1>2, RewindBounds, SizesAssumption
  <2>4. jump <= Size
    BY <1>2, <2>1, <2>2, <2>3, SizesAssumption
  <2>. QED
    BY <2>1, <2>4
<1>4. RestartAt < hw
  <2>1. Armed'
    BY <1>1, <1>3, SizesAssumption
  <2>2. (hw > pause)'
    BY <1>1, <2>1 DEF IInv, EngineInv, Lapped
  <2>. QED
    BY <1>1, <1>2, <1>3, <2>2
<1>. DEFINE up == Run(pause, jump)
            low == Run(0, RestartAt)
<1>5. /\ up \in Seq(Nat) /\ Range(up) = Words(pause, jump) /\ IsInjective(up)
      /\ low \in Seq(Nat) /\ Range(low) = Words(0, RestartAt) /\ IsInjective(low)
      /\ Run(hw, pause) \in Seq(Nat) /\ Run(hw, pause) \o up = Run(hw, jump)
  <2>1. 0 \in Nat /\ 0 <= RestartAt /\ pause <= jump
    BY <1>2, <1>3
  <2>2. up \in Seq(Nat) /\ Range(up) = Words(pause, jump) /\ IsInjective(up)
    BY <1>2, <1>3, <2>1, RunFacts, RunRange
  <2>3. low \in Seq(Nat) /\ Range(low) = Words(0, RestartAt) /\ IsInjective(low)
    BY <1>2, <1>3, <2>1, RunFacts, RunRange
  <2>4. Run(hw, pause) \in Seq(Nat)
    BY <1>2, RunFacts
  <2>5. Run(hw, pause) \o up = Run(hw, jump)
    BY <1>2, <1>3, <2>1, RunConcat
  <2>. QED
    BY <2>2, <2>3, <2>4, <2>5
<1>6. ToDo = Run(hw, pause) /\ ToDo' = Run(hw, jump) \o low
  BY <1>1, <1>2, <1>3, <1>4 DEF ToDo
<1>. HIDE DEF up, low
<1>7. ToDo' = ToDo \o (up \o low)
  <2>1. (Run(hw, pause) \o up) \o low = Run(hw, pause) \o (up \o low)
    BY <1>5, ConcatTwice
  <2>. QED
    BY <1>5, <1>6, <2>1
<1>8. up \o low \in Seq(Nat) /\ Range(up \o low) = Words(pause, jump) \cup Words(0, RestartAt)
  BY <1>5, ConcatFacts
<1>9. Released = Range(up \o low) /\ Released' = {}
  BY <1>1, <1>2, <1>8 DEF Released
<1>10. IsInjective(up \o low)
  <2>1. Range(up) \cap Range(low) = {}
    BY <1>2, <1>3, <1>4, <1>5 DEF Words
  <2>. QED
    BY <1>5, <2>1, InjectiveConcat
<1>. QED
  BY <1>1, <1>7, <1>8, <1>9, <1>10, HandsOver

LEMMA KickHandsOver ==
  ASSUME IInv, IInv', Kick
  PROVE  Fifo!HandOver
<1>1. /\ pc = "kick" /\ pc' = "idle" /\ pause' = pfree /\ written' = {}
      /\ UNCHANGED <<hw, jump>>
  BY DEF Kick
<1>2. pfree \in pause .. pause + Request - PadSize
  BY <1>1 DEF IInv, PlaceInv
<1>3. /\ hw \in Nat /\ pause \in Nat /\ pfree \in Nat /\ jump \in Nat
      /\ pause <= pfree /\ 0 <= pause
      /\ hw > pause => hw > pfree /\ hw <= jump
  BY <1>1, <1>2, WritingFacts, SizesAssumption DEF Writing
<1>. DEFINE new == Run(pause, pfree)
<1>4. /\ new \in Seq(Nat) /\ Range(new) = Words(pause, pfree) /\ IsInjective(new)
  BY <1>3, RunFacts, RunRange
<1>5. ToDo' = ToDo \o new
  <2>1. CASE hw <= pause
    <3>1. Run(hw, pause) \o new = Run(hw, pfree)
      BY <1>3, <2>1, RunConcat
    <3>2. ToDo = Run(hw, pause) /\ ToDo' = Run(hw, pfree)
      BY <1>1, <1>3, <2>1 DEF ToDo
    <3>. QED
      BY <3>1, <3>2
  <2>2. CASE ~ (hw <= pause)
    <3>0. hw <= jump /\ ~ (hw <= pfree) /\ 0 \in Nat
      BY <1>3, <2>2
    <3>1. Run(0, pause) \o new = Run(0, pfree)
      BY <1>3, <3>0, RunConcat
    <3>3. Run(hw, jump) \in Seq(Nat) /\ Run(0, pause) \in Seq(Nat)
      BY <1>3, <3>0, RunFacts
    <3>2. ToDo = Run(hw, jump) \o Run(0, pause) /\ ToDo' = Run(hw, jump) \o Run(0, pfree)
      BY <1>1, <1>3, <2>2, <3>0 DEF ToDo
    <3>. HIDE DEF new
    <3>4. (Run(hw, jump) \o Run(0, pause)) \o new = Run(hw, jump) \o (Run(0, pause) \o new)
      BY <1>4, <3>3, ConcatTwice
    <3>. QED
      BY <3>1, <3>2, <3>4
  <2>. QED
    BY <2>1, <2>2
<1>6. Released = Range(new) /\ Released' = {}
  BY <1>1, <1>4 DEF Released
<1>. HIDE DEF new
<1>. QED
  BY <1>1, <1>4, <1>5, <1>6, HandsOver

LEMMA ExecuteTakesFirst ==
  ASSUME IInv, Execute
  PROVE  Fifo!ExecuteCommand
<1>1. /\ hw /= pause /\ hw /= jump /\ hw' = hw + 1
      /\ UNCHANGED <<pc, flush, pfree, written, pause, jump>>
  BY DEF Execute, driverVars
<1>2. /\ hw \in Nat /\ pause \in Nat /\ jump \in Nat /\ 0 <= pause
      /\ hw + 1 \in Nat
      /\ hw > pause => hw <= jump
  BY EngineFacts, SizesAssumption
<1>3. Released' = Released
  BY <1>1 DEF Released, JumpAt, HeaderEnd, Up
<1>4. CASE hw < pause
  <2>1. ToDo = Run(hw, pause) /\ ToDo' = Run(hw + 1, pause)
    BY <1>1, <1>2, <1>4 DEF ToDo
  <2>2. ToDo = <<hw>> \o Run(hw + 1, pause) /\ Run(hw + 1, pause) \in Seq(Nat)
    <3>1. Run(hw, pause) = <<hw>> \o Run(hw + 1, pause)
      BY <1>2, <1>4, RunStarts
    <3>2. hw + 1 <= pause
      BY <1>2, <1>4
    <3>. QED
      BY <1>2, <2>1, <3>1, <3>2, RunFacts
  <2>3. ToDo # <<>> /\ Tail(ToDo) = ToDo'
    BY <1>2, <2>1, <2>2, FirstGoes
  <2>. QED
    BY <1>1, <1>3, <2>3 DEF Fifo!ExecuteCommand
<1>5. CASE hw > pause
  <2>1. ToDo = Run(hw, jump) \o Run(0, pause) /\ ToDo' = Run(hw + 1, jump) \o Run(0, pause)
    BY <1>1, <1>2, <1>5 DEF ToDo
  <2>2. /\ Run(hw, jump) = <<hw>> \o Run(hw + 1, jump) /\ <<hw>> \in Seq(Nat)
        /\ Run(hw + 1, jump) \in Seq(Nat) /\ Run(0, pause) \in Seq(Nat)
    <3>1. hw < jump /\ hw + 1 <= jump /\ 0 \in Nat
      BY <1>1, <1>2, <1>5
    <3>2. Run(hw, jump) = <<hw>> \o Run(hw + 1, jump)
      BY <1>2, <3>1, RunStarts
    <3>3. Run(hw + 1, jump) \in Seq(Nat)
      BY <1>2, <3>1, RunFacts
    <3>4. Run(0, pause) \in Seq(Nat)
      BY <1>2, <3>1, RunFacts
    <3>5. <<hw>> \in Seq(Nat)
      BY <1>2
    <3>. QED
      BY <3>2, <3>3, <3>4, <3>5
  <2>3. ToDo = <<hw>> \o ToDo' /\ ToDo' \in Seq(Nat)
    BY <2>1, <2>2, ConcatTwice, ConcatFacts
  <2>4. ToDo # <<>> /\ Tail(ToDo) = ToDo'
    BY <1>2, <2>3, FirstGoes
  <2>. QED
    BY <1>1, <1>3, <2>4 DEF Fifo!ExecuteCommand
<1>. QED
  BY <1>1, <1>2, <1>4, <1>5

LEMMA JumpChangesNothing ==
  ASSUME IInv, TakeJump
  PROVE  UNCHANGED <<written, Released, ToDo>>
<1>1. /\ hw /= pause /\ hw = jump /\ hw' = 0
      /\ UNCHANGED <<pc, flush, pfree, written, pause>>
  BY DEF TakeJump, driverVars
<1>2. /\ hw \in Nat /\ hw <= Size /\ pause \in Nat /\ 0 <= pause
      /\ Armed => pause < jump
  BY EngineFacts, SizesAssumption
<1>3. hw > pause
  BY <1>1, <1>2, SizesAssumption DEF Armed, NoJump
<1>4. Released' = Released
  BY <1>1 DEF Released, JumpAt, HeaderEnd, Up
<1>5. ToDo = Run(hw, hw) \o Run(0, pause) /\ ToDo' = Run(0, pause)
  BY <1>1, <1>2, <1>3 DEF ToDo
<1>6. Run(hw, hw) = <<>> /\ Run(0, pause) \in Seq(Nat)
  BY <1>2, RunEmpty, RunFacts
<1>7. ToDo' = ToDo
  BY <1>5, <1>6, ConcatFacts
<1>. QED
  BY <1>1, <1>4, <1>7

LEMMA FifoStep ==
  ASSUME CommandsFit, IInv, IInv', [Next]_vars
  PROVE  [Fifo!CommandNext]_(Fifo!commandVars)
<1>1. CASE Driver
  BY <1>1, LookingIsWriting, SetJumpIsWriting, CopyingIsWriting, SetPauseHandsOver, KickHandsOver
     DEF Driver, Fifo!CommandNext
<1>2. CASE Execute
  BY <1>2, ExecuteTakesFirst DEF Fifo!CommandNext
<1>3. CASE TakeJump
  BY <1>3, JumpChangesNothing DEF Fifo!commandVars
<1>4. CASE UNCHANGED vars
  BY <1>4 DEF vars, driverVars, engineVars, Released, JumpAt, HeaderEnd, Up, ToDo, Fifo!commandVars
<1>. QED
  BY <1>1, <1>2, <1>3, <1>4 DEF Next, Engine

(* ImplementsFifo: across any number of rewinds each word that is released *)
(* to the engine is executed once, in the order of release, as it was      *)
(* written by the flush that released it, and is not written over before.  *)
THEOREM RingIsFifo ==
  ASSUME CommandsFit, LiesConfirmed
  PROVE  Spec => ImplementsFifo
<1>1. Init => Fifo!CommandInit
  <2>. SUFFICES ASSUME Init PROVE Fifo!CommandInit
    OBVIOUS
  <2>1. Released = {} /\ written = {}
    BY DEF Init, Released
  <2>2. ToDo \in Seq(Nat)
    BY InitIInv, ToDoFacts
  <2>. QED
    BY <2>1, <2>2 DEF Fifo!CommandInit
<1>2. IInv /\ IInv' /\ [Next]_vars => [Fifo!CommandNext]_(Fifo!commandVars)
  BY FifoStep
<1>. QED
  BY <1>1, <1>2, Invariance, PTL DEF Spec, ImplementsFifo, Fifo!CommandSafety
=============================================================================
