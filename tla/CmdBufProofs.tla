---------------------------- MODULE CmdBufProofs ----------------------------
(***************************************************************************)
(* That the driver writes over nothing the regulator needs, that what it   *)
(* reports between calls is true, and that the regulator does not rest     *)
(* while there is something to execute: for a buffer and a unit of any     *)
(* size and any streams that fit, if the waits that steps depend on do not *)
(* end with a time-out and the address register is not further off than    *)
(* the code allows for (Dependable).                                       *)
(*                                                                         *)
(* The commands in the buffer form a line: each leads to a later one, up   *)
(* to the pause at `last', or, while the regulator is in the lap before    *)
(* (Ahead), up to the jump.  End is the unit where the regulator has to    *)
(* stop unless the driver does something; Shown is the unit where the      *)
(* driver sees it, and GapInv is what every wait, and every test for a     *)
(* rewind, leaves between dma_low and that unit.                           *)
(*                                                                         *)
(* The second part is about the streams that are copied into the buffer:   *)
(* what the verifier has checked is what is parsed or executed later.      *)
(***************************************************************************)
EXTENDS CmdBuf, Verifier, SequenceTheorems, TLAPS

(* Units that the driver has begun, and the unit of the last jump. *)
Ceil(low) == (low + U - 1) \div U
Front == Ceil(dma_low)
JumpUnit == dma_wrap \div U - 1

(* The three lists of hooks the driver works on. *)
RewindHooks == <<Hook(Word("jump", JumpUnit), 1, "hook"), Hook(Word("pause", 3), 3, "fit")>>
TrapHooks == <<Hook(Word("pause", 3), 3, "fit")>>
EndWord == Word(IF req = 0 THEN "stop" ELSE "pause", Front - 1)
EndHooks == <<Hook(EndWord, Front - 1, IF req = 0 THEN "idle_wait" ELSE "idle")>>

(* Where the driver is. *)
Appending == pc \in {"idle", "fit", "copy", "pad", "close", "jump"}
Hooking == pc \in {"poll", "paused", "restart"}
Wrapping == pc \in {"bitblt", "fill"} \/ (pc = "hook" /\ hooks = RewindHooks)
Stopping == req = 0 /\ (pc = "hook" \/ Hooking \/ pc = "idle_wait")
Ahead == Front <= pos

(* The commands the driver has written at the start of a lap, and a line *)
(* of commands that each lead to a later one.                            *)
Filled(n) == \A u \in 0 .. n - 1 : word[u] = FillWord(u)
Chain(w, lo, hi) ==
  /\ w[hi] # None /\ w[hi].at = hi
  /\ \A u \in lo .. hi - 1 : w[u] # None =>
       w[u].at \in u + 1 .. hi /\ w[w[u].at] # None

(* What has been appended behind the last pause, and what is still to come. *)
Added == CASE pc = "pad" -> req
           [] pc = "close" /\ req # 0 -> SizeAsked
           [] OTHER -> 0
Needed == CASE pc \in {"fit", "copy"} -> SizeAsked + 4 * U
            [] pc = "pad" -> U + 1 - req + 4 * U
            [] pc = "close" /\ req # 0 -> 4 * U
            [] OTHER -> 2 * U

(* The driver's side, by what it is doing. *)
AppendInv ==
  Appending =>
    /\ hooks = <<>> /\ word[last] = Word("pause", last) /\ last # 1
    /\ dma_low = (last + 1) * U + Added
    /\ \A u \in last + 1 .. Front - 1 : word[u] = None
    /\ dma_low + Needed <= High * U
    /\ pc = "idle" \/ req \in Sizes \/ (pc = "close" /\ req = 0)
    /\ pc = "pad" => req < U
    /\ pc = "jump" => MustRewind(SizeAsked)

EndInv ==
  (pc = "hook" \/ Hooking) /\ hooks = EndHooks =>
    /\ dma_low = Front * U
    /\ dma_low + (IF req = 0 THEN U ELSE 2 * U) <= High * U
    /\ word[Front - 1] = EndWord
    /\ req # 0 => Front # 2
    /\ pc = "hook" => /\ last < Front - 1 /\ word[last] = Word("pause", last) /\ last # 1
                      /\ \A u \in last + 1 .. Front - 2 : word[u] = None
    /\ Hooking => hooked < last /\ last = Front - 1

WaitInv ==
  pc = "idle_wait" => hooks = <<>> /\ req = 0 /\ dma_low = (last + 1) * U
                      /\ word[last] = Word("stop", last)

RewindInv ==
  /\ Wrapping \/ (Hooking /\ hooks = RewindHooks) =>
       /\ hooks = RewindHooks /\ word[JumpUnit] = Word("jump", JumpUnit)
       /\ 7 <= JumpUnit /\ JumpUnit + 2 <= High
  /\ Wrapping => last = JumpUnit - 1 /\ word[last] = Word("pause", last)
  /\ pc = "bitblt" => dma_low = 0
  /\ pc = "fill" => \E k \in 0 .. 3 : /\ dma_low = IF k = 0 THEN Bitblts ELSE k * U
                                      /\ Filled(k)
  /\ (pc = "hook" \/ Hooking) /\ hooks # EndHooks => dma_low = 4 * U
  /\ (pc = "hook" /\ hooks # EndHooks) \/ (Hooking /\ hooks = RewindHooks) => Filled(4)
  /\ pc = "hook" /\ hooks = TrapHooks => last = 1
  /\ Hooking /\ hooks = RewindHooks => hooked = JumpUnit - 1 /\ last = 1
  /\ Hooking /\ hooks = TrapHooks => hooked = 1 /\ last = 3 /\ word[3] = Word("pause", 3)
  /\ Wrapping \/ ((pc = "hook" \/ Hooking) /\ hooks # EndHooks) => req \in Sizes

HooksInv == pc = "hook" \/ Hooking => hooks \in {RewindHooks, TrapHooks, EndHooks}
LapInv == dma_wrap = (JumpUnit + 1) * U /\ JumpUnit \in Units
StartInv == ~ Wrapping => word[0] # None /\ Chain(word, 0, last)

(* The regulator's side. *)
Shown == IF seen = Now THEN pos ELSE JumpUnit
Kept == CASE pc = "copy" -> SizeAsked + Margin
          [] pc = "pad" -> U + 1 - req + Margin
          [] pc = "close" /\ req # 0 -> Margin
          [] OTHER -> 2 * U
GapInv ==
  ~ Wrapping /\ Front <= Shown =>
    /\ last >= 1 /\ JumpUnit + 2 <= High /\ pos <= JumpUnit /\ pc # "jump"
    /\ ~ Stopping => /\ dma_low + Kept <= Shown * U
                     /\ dma_low = 4 * U \/ dma_low + Margin <= Shown * U + 2 * U

SeenInv ==
  seen # Now =>
    /\ ~ Wrapping /\ pos \in {0, 1} /\ seen \in {JumpUnit * U, JumpUnit * U + 1}
    /\ Front <= JumpUnit
    /\ pos = 1 /\ (phase = "paused" \/ (phase = "word" /\ bp.at = 1)) => last = 1

FreshInv ==
  fresh = (IF phase = "enter" THEN {pos} ELSE {}) \cup
          (IF Ahead THEN (pos + 1 .. JumpUnit) \cup (0 .. Front - 1)
           ELSE pos + 1 .. Front - 1)

Trapped == req # 0 /\ last = 1 /\ pos \in {2, 3}
End == IF Wrapping THEN last ELSE IF Ahead THEN JumpUnit
       ELSE IF Trapped THEN 3 ELSE last

LineInv ==
  /\ pos <= End
  /\ Wrapping => Chain(word, pos, last)
  /\ ~ Wrapping /\ Ahead => Chain(word, pos, JumpUnit) /\ word[JumpUnit] = Word("jump", JumpUnit)
  /\ pc = "fill" \/ (pc = "hook" /\ hooks = RewindHooks) => 6 <= pos

Leads == bp.at \in pos + 1 .. End /\ word[bp.at] # None
Missed == pos = hooked /\ seen = Now

RegInv ==
  /\ phase # "off"
  /\ phase \in {"enter", "body"} => word[pos] # None \/ Leads
  /\ phase = "word" => Leads \/ (pos = End /\ bp = word[pos])
                             \/ (pc = "poll" /\ Missed /\ bp = Word("pause", hooked))
  /\ phase = "paused" => (pos = End /\ word[pos] = Word("pause", pos)) \/ (Hooking /\ Missed)
  /\ phase = "stopped" => pos = End /\ word[pos].type = "stop"

-----------------------------------------------------------------------------
(* What the assumption on the constants comes to. *)
LEMMA ConstantFacts ==
  /\ U \in Nat /\ 3 <= U /\ High \in Nat /\ 12 < High
  /\ Margin \in Nat /\ 5 * U + 1 <= Margin
  /\ Bitblts \in Nat /\ 1 <= Bitblts /\ Bitblts + 2 <= U
  /\ U + 1 + 6 * U + Margin < High * U
  /\ Sizes \subseteq Nat \ {0}
  /\ \A s \in Sizes : s + 6 * U + Margin < High * U /\ s + 4 * U <= Margin
<1>1. /\ High \in Nat /\ U \in Nat /\ Margin \in Nat /\ Bitblts \in 1 .. U - 2
      /\ Sizes \subseteq Nat \ {0}
  BY SizesAssumption
<1>2. 3 <= U /\ Bitblts \in Nat /\ 1 <= Bitblts /\ Bitblts + 2 <= U
  BY <1>1
<1>3. \A s \in Sizes \cup {U + 1} :
        s + 6 * U + Margin < High * U /\ s + 4 * U <= Margin
  BY SizesAssumption
<1>4. U + 1 + 6 * U + Margin < High * U /\ U + 1 + 4 * U <= Margin
  BY <1>3
<1>5. 12 < High
  <2>1. SUFFICES ASSUME High <= 12 PROVE FALSE
    BY <1>1
  <2>2. High * U <= 12 * U
    BY <2>1, <1>1
  <2>3. QED
    BY <2>2, <1>4, <1>1
<1>6. QED
  BY <1>1, <1>2, <1>3, <1>4, <1>5

(* Multiples of the unit are ordered as their factors. *)
LEMMA UnitOrder ==
  ASSUME NEW a \in Int, NEW b \in Int
  PROVE  /\ a * U \in Int /\ b * U \in Int
         /\ a < b => a * U + U <= b * U
         /\ a <= b => a * U <= b * U
         /\ a * U < b * U => a < b
         /\ a * U <= b * U => a <= b
         /\ a * U = b * U => a = b
<1>1. U \in Nat /\ 3 <= U
  BY ConstantFacts
<1>2. \A c \in Int, d \in Int : c < d => c * U + U <= d * U
  <2>1. SUFFICES ASSUME NEW c \in Int, NEW d \in Int, c < d
                 PROVE  c * U + U <= d * U
    OBVIOUS
  <2>2. PICK n \in Nat : d = c + 1 + n
    <3>1. d - c - 1 \in Nat /\ d = c + 1 + (d - c - 1)
      BY <2>1
    <3>2. QED
      BY <3>1
  <2>3. n * U >= 0
    BY <1>1
  <2>4. d * U = c * U + U + n * U
    BY <2>2, <1>1
  <2>5. c * U \in Int /\ d * U \in Int /\ n * U \in Int
    BY <1>1
  <2>6. QED
    BY <2>3, <2>4, <2>5, <1>1
<1>3. a * U \in Int /\ b * U \in Int
  BY <1>1
<1>4. a < b => a * U + U <= b * U
  BY <1>2
<1>5. b < a => b * U + U <= a * U
  BY <1>2
<1>6. QED
  BY <1>1, <1>3, <1>4, <1>5

(* The quotient and the remainder of a division by a unit. *)
LEMMA Division ==
  ASSUME NEW n \in Int
  PROVE  /\ n \div U \in Int /\ n % U \in 0 .. U - 1
         /\ n = (n \div U) * U + (n % U)
<1>1. U \in Nat /\ 3 <= U
  BY ConstantFacts
<1>2. n \div U \in Int
  BY <1>1
<1>3. n % U \in 0 .. U - 1
  BY <1>1
<1>4. n = (n \div U) * U + (n % U)
  BY <1>1
<1>5. QED
  BY <1>2, <1>3, <1>4

(* A number lies in one unit only. *)
LEMMA UnitOf ==
  ASSUME NEW n \in Int, NEW k \in Int, k * U <= n, n < k * U + U
  PROVE  n \div U = k
<1>1. U \in Nat /\ 3 <= U
  BY ConstantFacts
<1>2. /\ n \div U \in Int /\ n % U \in 0 .. U - 1
      /\ n = (n \div U) * U + (n % U)
  BY Division
<1>3. k * U \in Int /\ (n \div U) * U \in Int
  BY <1>1, <1>2
<1>4. ~ (k < n \div U)
  BY <1>1, <1>2, <1>3, UnitOrder
<1>5. ~ (n \div U < k)
  BY <1>1, <1>2, <1>3, UnitOrder
<1>6. QED
  BY <1>2, <1>4, <1>5

(* The units begun in front of an address. *)
LEMMA CeilFacts ==
  ASSUME NEW low \in Nat
  PROVE  /\ Ceil(low) \in Nat /\ low <= Ceil(low) * U /\ Ceil(low) * U < low + U
         /\ \A k \in Int : low <= k * U <=> Ceil(low) <= k
         /\ \A k \in Int : low = k * U => Ceil(low) = k
         /\ low > 0 => (low - 1) \div U = Ceil(low) - 1
<1>1. U \in Nat /\ 3 <= U
  BY ConstantFacts
<1>0. low + U - 1 \in Int
  BY <1>1
<1>2. /\ Ceil(low) \in Int /\ (low + U - 1) % U \in 0 .. U - 1
      /\ low + U - 1 = Ceil(low) * U + ((low + U - 1) % U)
  BY <1>0, Division DEF Ceil
<1>3. Ceil(low) * U \in Int
  BY <1>1, <1>2
<1>4. low <= Ceil(low) * U /\ Ceil(low) * U < low + U
  BY <1>1, <1>2, <1>3
<1>5. Ceil(low) \in Nat
  <2>1. (0 - 1) * U = 0 - U
    BY <1>1
  <2>2. (0 - 1) * U < Ceil(low) * U
    BY <2>1, <1>1, <1>3, <1>4
  <2>3. 0 - 1 \in Int
    OBVIOUS
  <2>4. 0 - 1 < Ceil(low)
    BY <2>2, <2>3, <1>2, UnitOrder
  <2>5. QED
    BY <2>4, <1>2
<1>6. ASSUME NEW k \in Int
      PROVE  /\ low <= k * U <=> Ceil(low) <= k
             /\ low = k * U => Ceil(low) = k
  <2>1. k * U \in Int
    BY <1>1
  <2>2. ASSUME low <= k * U PROVE Ceil(low) <= k
    <3>1. Ceil(low) * U < (k + 1) * U
      BY <1>1, <1>3, <1>4, <2>1, <2>2
    <3>2. Ceil(low) < k + 1
      BY <3>1, <1>2, UnitOrder
    <3>3. QED
      BY <3>2, <1>2
  <2>3. ASSUME Ceil(low) <= k PROVE low <= k * U
    <3>1. Ceil(low) * U <= k * U
      BY <2>3, <1>2, UnitOrder
    <3>2. QED
      BY <3>1, <1>3, <1>4, <2>1
  <2>4. low = k * U => k <= Ceil(low)
    BY <1>2, <1>4, UnitOrder
  <2>5. QED
    BY <2>1, <2>2, <2>3, <2>4, <1>2
<1>7. low > 0 => (low - 1) \div U = Ceil(low) - 1
  <2>1. SUFFICES ASSUME low > 0 PROVE (low - 1) \div U = Ceil(low) - 1
    OBVIOUS
  <2>2. (Ceil(low) - 1) * U = Ceil(low) * U - U
    BY <1>1, <1>2
  <2>3. /\ low - 1 \in Int /\ Ceil(low) - 1 \in Int
        /\ (Ceil(low) - 1) * U <= low - 1 /\ low - 1 < (Ceil(low) - 1) * U + U
    BY <2>2, <1>1, <1>2, <1>3, <1>4
  <2>4. QED
    BY <2>3, UnitOf
<1>8. QED
  BY <1>4, <1>5, <1>6, <1>7

(* Where chrome_align_cmd ends a unit. *)
LEMMA AlignFacts ==
  ASSUME NEW low \in Nat
  PROVE  /\ LastUnit(low) \in Nat /\ AlignEnd(low) \in Nat
         /\ AlignEnd(low) = (LastUnit(low) + 1) * U
         /\ low + 2 <= AlignEnd(low) /\ AlignEnd(low) <= low + 1 + U
         /\ Ceil(low) <= LastUnit(low) + 1
         /\ Ceil(AlignEnd(low)) = LastUnit(low) + 1
         /\ \A k \in Int : low = k * U => LastUnit(low) = k
<1>1. U \in Nat /\ 3 <= U
  BY ConstantFacts
<1>. DEFINE d == (low + 1) \div U
            r == (low + 1) % U
<1>2. d \in Int /\ r \in 0 .. U - 1 /\ low + 1 = d * U + r
  <2>1. low + 1 \in Int
    OBVIOUS
  <2>2. QED
    BY <2>1, Division
<1>3. AlignEnd(low) = (d + 1) * U
  BY DEF AlignEnd
<1>. HIDE DEF d, r
<1>4. d * U \in Int /\ (d + 1) * U = d * U + U
  BY <1>1, <1>2
<1>5. low + 2 <= AlignEnd(low) /\ AlignEnd(low) <= low + 1 + U /\ AlignEnd(low) \in Nat
  BY <1>1, <1>2, <1>3, <1>4
<1>6. LastUnit(low) = d
  <2>1. d + 1 \in Int /\ (d + 1) * U <= AlignEnd(low) /\ AlignEnd(low) < (d + 1) * U + U
    BY <1>1, <1>2, <1>3, <1>4
  <2>2. AlignEnd(low) \div U = d + 1
    BY <2>1, <1>5, UnitOf
  <2>3. QED
    BY <2>2, <1>2 DEF LastUnit
<1>7. d \in Nat
  <2>1. (0 - 1) * U = 0 - U
    BY <1>1
  <2>2. (0 - 1) * U < d * U
    BY <2>1, <1>1, <1>2, <1>4
  <2>3. 0 - 1 \in Int
    OBVIOUS
  <2>4. 0 - 1 < d
    BY <2>2, <2>3, <1>2, UnitOrder
  <2>5. QED
    BY <2>4, <1>2
<1>8. Ceil(AlignEnd(low)) = d + 1
  <2>1. d + 1 \in Int
    BY <1>2
  <2>2. QED
    BY <2>1, <1>3, <1>5, CeilFacts
<1>9. Ceil(low) <= d + 1
  <2>1. d + 1 \in Int
    BY <1>2
  <2>2. low <= (d + 1) * U
    BY <1>3, <1>5
  <2>3. QED
    BY <2>1, <2>2, CeilFacts
<1>10. ASSUME NEW k \in Int, low = k * U PROVE d = k
  <2>1. low + 1 \in Int /\ k * U \in Int
    BY <1>1
  <2>2. k * U <= low + 1 /\ low + 1 < k * U + U
    BY <1>1, <1>10, <2>1
  <2>3. (low + 1) \div U = k
    BY <2>1, <2>2, UnitOf
  <2>4. QED
    BY <2>3 DEF d
<1>11. QED
  BY <1>3, <1>5, <1>6, <1>7, <1>8, <1>9, <1>10

(* The unit of an address that a write is in the middle of. *)
LEMMA UnitFacts ==
  ASSUME NEW low \in Nat
  PROVE  /\ low \div U \in Nat
         /\ low \div U = Ceil(low) \/ low \div U = Ceil(low) - 1
         /\ (IF low % U = 0 THEN {} ELSE {low \div U}) = (low \div U) .. Ceil(low) - 1
         /\ \A k \in Int : k * U <= low => k <= low \div U
<1>1. U \in Nat /\ 3 <= U
  BY ConstantFacts
<1>. DEFINE d == low \div U
            r == low % U
<1>2. d \in Int /\ r \in 0 .. U - 1 /\ low = d * U + r
  BY Division
<1>. HIDE DEF d, r
<1>3. d * U \in Int /\ (d + 1) * U = d * U + U /\ d + 1 \in Int
  BY <1>1, <1>2
<1>4. ASSUME NEW k \in Int, k * U <= low PROVE k <= d
  <2>1. k * U < (d + 1) * U
    BY <1>1, <1>2, <1>3, <1>4
  <2>2. k < d + 1
    BY <2>1, <1>3, UnitOrder
  <2>3. QED
    BY <2>2, <1>2
<1>5. d \in Nat
  <2>1. 0 \in Int /\ 0 * U <= low
    BY <1>1
  <2>2. 0 <= d
    BY <2>1, <1>4
  <2>3. QED
    BY <2>2, <1>2
<1>6. r = 0 => Ceil(low) = d
  BY <1>2, <1>3, CeilFacts
<1>7. r # 0 => Ceil(low) = d + 1
  <2>1. SUFFICES ASSUME r # 0 PROVE Ceil(low) = d + 1
    OBVIOUS
  <2>2. low <= (d + 1) * U
    BY <1>1, <1>2, <1>3
  <2>3. ~ (low <= d * U)
    BY <2>1, <1>2, <1>3
  <2>4. Ceil(low) <= d + 1 /\ ~ (Ceil(low) <= d) /\ Ceil(low) \in Nat
    BY <2>2, <2>3, <1>2, <1>3, CeilFacts
  <2>5. QED
    BY <2>4, <1>2
<1>8. (IF r = 0 THEN {} ELSE {d}) = d .. Ceil(low) - 1
  <2>1. CASE r = 0
    <3>1. d .. d - 1 = {}
      BY <1>2
    <3>2. QED
      BY <2>1, <3>1, <1>6
  <2>2. CASE r # 0
    <3>1. d .. d + 1 - 1 = {d}
      BY <1>2
    <3>2. QED
      BY <2>2, <3>1, <1>7
  <2>3. QED
    BY <2>1, <2>2
<1>9. d = Ceil(low) \/ d = Ceil(low) - 1
  BY <1>2, <1>6, <1>7
<1>10. QED
  BY <1>4, <1>5, <1>8, <1>9 DEF d, r

(* What a write from dma_low on adds to the units begun before. *)
LEMMA WriteFacts ==
  ASSUME dma_low \in Nat, NEW b \in Nat, dma_low < b
  PROVE  /\ UnitsOf(dma_low, b) = (dma_low \div U) .. Ceil(b) - 1
         /\ UnitsOf(dma_low, b) \ Begun = Front .. Ceil(b) - 1
         /\ Front <= Ceil(b) /\ Front \in Nat /\ Ceil(b) \in Nat
         /\ dma_low \div U \in Front - 1 .. Front /\ dma_low \div U \in Nat
<1>1. UnitsOf(dma_low, b) = (dma_low \div U) .. Ceil(b) - 1
  <2>1. b > 0
    OBVIOUS
  <2>2. (b - 1) \div U = Ceil(b) - 1
    BY <2>1, CeilFacts
  <2>3. QED
    BY <2>2 DEF UnitsOf
<1>2. /\ Begun = (dma_low \div U) .. Front - 1 /\ dma_low \div U \in Nat
      /\ dma_low \div U = Front \/ dma_low \div U = Front - 1
  BY UnitFacts DEF Begun, Front
<1>3. Front \in Nat /\ Ceil(b) \in Nat
  BY CeilFacts DEF Front
<1>4. Front <= Ceil(b)
  <2>1. b <= Ceil(b) * U /\ Ceil(b) * U \in Int
    BY CeilFacts, UnitOrder, <1>3
  <2>2. dma_low <= Ceil(b) * U
    BY <2>1
  <2>3. QED
    BY <2>2, <1>3, CeilFacts DEF Front
<1>5. UnitsOf(dma_low, b) \ Begun = Front .. Ceil(b) - 1
  BY <1>1, <1>2, <1>3, <1>4
<1>6. QED
  BY <1>1, <1>2, <1>3, <1>4, <1>5

-----------------------------------------------------------------------------
DriverInv == /\ AppendInv /\ EndInv /\ WaitInv /\ RewindInv
             /\ HooksInv /\ LapInv /\ StartInv
ChaseInv == GapInv /\ SeenInv /\ FreshInv /\ LineInv /\ RegInv

IInv ==
  /\ TypeOK
  /\ pc # "idle" => mapped
  /\ mapped => DriverInv /\ ChaseInv
  /\ ~ mapped => phase \in {"off", "stopped"}

(* The fields of a command. *)
LEMMA WordFacts ==
  /\ \A t, u : Word(t, u).type = t /\ Word(t, u).at = u
  /\ \A t, u : t # "none" => Word(t, u) # None
  /\ \A w \in Words : w.at \in Units /\ w.type \in {"none", "pause", "jump", "stop"}
  /\ \A w \in Words : w = Word(w.type, w.at)
<1>1. \A t, u : Word(t, u).type = t /\ Word(t, u).at = u
  BY DEF Word
<1>2. None.type = "none"
  BY DEF None
<1>3. \A t, u : t # "none" => Word(t, u) # None
  BY <1>1, <1>2
<1>4. QED
  BY <1>1, <1>3 DEF Words, Word

(* The lists of addresses to hook are told apart by what follows the first. *)
LEMMA HooksFacts ==
  /\ RewindHooks # <<>> /\ TrapHooks # <<>> /\ EndHooks # <<>>
  /\ Len(RewindHooks) = 2 /\ Len(TrapHooks) = 1 /\ Len(EndHooks) = 1
  /\ Head(RewindHooks) = Hook(Word("jump", JumpUnit), 1, "hook")
  /\ Tail(RewindHooks) = TrapHooks
  /\ Head(TrapHooks) = Hook(Word("pause", 3), 3, "fit") /\ Tail(TrapHooks) = <<>>
  /\ Head(EndHooks) = Hook(EndWord, Front - 1, IF req = 0 THEN "idle_wait" ELSE "idle")
  /\ Tail(EndHooks) = <<>>
  /\ RewindHooks # TrapHooks /\ RewindHooks # EndHooks /\ TrapHooks # EndHooks
  /\ \A w, e, t : /\ Hook(w, e, t).word = w /\ Hook(w, e, t).end = e
                  /\ Hook(w, e, t).then = t
<1>1. \A w, e, t : /\ Hook(w, e, t).word = w /\ Hook(w, e, t).end = e
                   /\ Hook(w, e, t).then = t
  BY DEF Hook
<1>2. Len(RewindHooks) = 2 /\ Len(TrapHooks) = 1 /\ Len(EndHooks) = 1 /\ Len(<<>>) = 0
  BY DEF RewindHooks, TrapHooks, EndHooks
<1>3. /\ Head(RewindHooks) = Hook(Word("jump", JumpUnit), 1, "hook")
      /\ Tail(RewindHooks) = TrapHooks
  BY DEF RewindHooks, TrapHooks
<1>4. Head(TrapHooks) = Hook(Word("pause", 3), 3, "fit") /\ Tail(TrapHooks) = <<>>
  BY DEF TrapHooks
<1>5. /\ Head(EndHooks) = Hook(EndWord, Front - 1, IF req = 0 THEN "idle_wait" ELSE "idle")
      /\ Tail(EndHooks) = <<>>
  BY DEF EndHooks
<1>6. Head(TrapHooks).then = "fit"
  BY <1>1, <1>4
<1>7. Head(EndHooks).then # "fit"
  BY <1>1, <1>5
<1>8. TrapHooks # EndHooks
  BY <1>6, <1>7
<1>9. /\ RewindHooks # TrapHooks /\ RewindHooks # EndHooks
      /\ RewindHooks # <<>> /\ TrapHooks # <<>> /\ EndHooks # <<>>
  BY <1>2
<1>10. QED
  BY <1>1, <1>2, <1>3, <1>4, <1>5, <1>8, <1>9

(* The numbers that the invariant is about. *)
LEMMA DataFacts ==
  ASSUME TypeOK
  PROVE  /\ U \in Nat /\ Margin \in Nat /\ High \in Nat /\ High * U \in Nat
         /\ req \in Nat /\ SizeAsked \in Nat /\ U <= SizeAsked
         /\ SizeAsked + 6 * U + Margin < High * U /\ SizeAsked + 4 * U <= Margin
         /\ dma_low \in Nat /\ dma_low <= High * U /\ Front \in Nat
         /\ Kept \in Int /\ Needed \in Int /\ Added \in Nat
         /\ last \in Nat /\ pos \in Nat /\ hooked \in Nat
<1>1. /\ U \in Nat /\ 3 <= U /\ Margin \in Nat /\ High \in Nat
      /\ 5 * U + 1 <= Margin /\ U + 1 + 6 * U + Margin < High * U
      /\ Sizes \subseteq Nat \ {0}
      /\ \A s \in Sizes : s + 6 * U + Margin < High * U /\ s + 4 * U <= Margin
  BY ConstantFacts
<1>2. High * U \in Nat
  BY <1>1
<1>3. req \in Nat /\ (req # 0 => req \in Sizes)
  BY <1>1 DEF TypeOK
<1>4. SizeAsked = U + 1 \/ (SizeAsked = req /\ req >= U /\ req \in Sizes)
  BY <1>1, <1>3 DEF SizeAsked
<1>5. /\ SizeAsked \in Nat /\ U <= SizeAsked
      /\ SizeAsked + 6 * U + Margin < High * U /\ SizeAsked + 4 * U <= Margin
  <2>1. CASE SizeAsked = U + 1
    BY <1>1, <1>2, <2>1
  <2>2. CASE SizeAsked = req /\ req >= U /\ req \in Sizes
    BY <1>1, <1>3, <2>2
  <2>3. QED
    BY <1>4, <2>1, <2>2
<1>6. dma_low \in Nat /\ dma_low <= High * U
  BY <1>2 DEF TypeOK
<1>7. Front \in Nat
  BY <1>6, CeilFacts DEF Front
<1>8. Kept \in Int
  BY <1>1, <1>3, <1>5 DEF Kept
<1>9. Needed \in Int
  BY <1>1, <1>3, <1>5 DEF Needed
<1>10. Added \in Nat
  BY <1>1, <1>3, <1>5 DEF Added
<1>11. last \in Nat /\ pos \in Nat /\ hooked \in Nat
  BY DEF TypeOK, Units
<1>12. QED
  BY <1>1, <1>2, <1>3, <1>5, <1>6, <1>7, <1>8, <1>9, <1>10, <1>11

HooksDiffer ==
  /\ RewindHooks # <<>> /\ TrapHooks # <<>> /\ EndHooks # <<>>
  /\ RewindHooks # TrapHooks /\ RewindHooks # EndHooks /\ TrapHooks # EndHooks

LEMMA HooksFactsNext ==
  /\ RewindHooks' # <<>> /\ TrapHooks' # <<>> /\ EndHooks' # <<>>
  /\ RewindHooks' # TrapHooks' /\ RewindHooks' # EndHooks' /\ TrapHooks' # EndHooks'
<1>1. HooksDiffer
  BY HooksFacts DEF HooksDiffer
<1>2. HooksDiffer'
  BY <1>1, PTL
<1>3. QED
  BY <1>2 DEF HooksDiffer

(* What the driver's side of the invariant says of the line that the      *)
(* regulator follows.                                                     *)
LEMMA DriverFacts ==
  ASSUME TypeOK, DriverInv
  PROVE  /\ dma_low \in Nat /\ Front \in Nat /\ JumpUnit \in Units
         /\ ~ Wrapping => /\ last < Front /\ word[last].type # "jump"
                          /\ word[0] # None /\ Chain(word, 0, last)
                          /\ (last = 1 /\ req # 0) =>
                               /\ Front = 4
                               /\ word[2] = Word("pause", 3) /\ word[3] = Word("pause", 3)
         /\ Wrapping => /\ last = JumpUnit - 1 /\ word[last] = Word("pause", last)
                        /\ 7 <= JumpUnit /\ Front <= 4
                        /\ pc = "bitblt" => Front = 0
<1>1. /\ U \in Nat /\ 3 <= U /\ Bitblts \in Nat /\ Bitblts + 2 <= U
      /\ 1 <= Bitblts /\ High \in Nat
  BY ConstantFacts
<1>2. dma_low \in Nat /\ last \in Nat /\ req \in Nat
  BY <1>1, ConstantFacts DEF TypeOK, Units
<1>3. /\ Front \in Nat /\ \A k \in Int : k * U <= dma_low => k <= Front
      /\ \A k \in Int : dma_low = k * U => Front = k
      /\ \A k \in Int : dma_low <= k * U <=> Front <= k
  <2>1. /\ Front \in Nat /\ dma_low <= Front * U
        /\ \A k \in Int : dma_low = k * U => Front = k
        /\ \A k \in Int : dma_low <= k * U <=> Front <= k
    BY <1>2, CeilFacts DEF Front
  <2>2. ASSUME NEW k \in Int, k * U <= dma_low PROVE k <= Front
    <3>1. Front \in Int /\ k * U \in Int /\ Front * U \in Int
      BY <2>1, <1>1
    <3>2. k * U <= Front * U
      BY <3>1, <2>1, <2>2, <1>2
    <3>3. QED
      BY <3>1, <3>2, UnitOrder
  <2>3. QED
    BY <2>1, <2>2
<1>4. JumpUnit \in Units
  BY DEF DriverInv, LapInv
<1>5. ASSUME Appending PROVE /\ last < Front /\ word[last].type # "jump" /\ last # 1
  <2>1. /\ word[last] = Word("pause", last) /\ last # 1
        /\ dma_low = (last + 1) * U + Added
    BY <1>5 DEF DriverInv, AppendInv
  <2>2. Added \in Nat
    BY <1>1, <1>2 DEF Added, SizeAsked
  <2>3. (last + 1) * U \in Int /\ last + 1 \in Int
    BY <1>1, <1>2
  <2>4. last + 1 <= Front
    BY <1>2, <1>3, <2>1, <2>2, <2>3
  <2>5. QED
    BY <2>1, <2>4, <1>2, <1>3, WordFacts
<1>6. ASSUME pc = "hook" \/ Hooking, hooks = EndHooks
      PROVE  /\ last < Front /\ word[last].type # "jump" /\ (last = 1 => req = 0)
  <2>1. /\ word[Front - 1] = EndWord
        /\ req # 0 => Front # 2
        /\ pc = "hook" => last < Front - 1 /\ word[last] = Word("pause", last) /\ last # 1
        /\ Hooking => hooked < last /\ last = Front - 1
    BY <1>6 DEF DriverInv, EndInv
  <2>2. EndWord.type # "jump"
    BY WordFacts DEF EndWord
  <2>3. CASE pc = "hook"
    BY <2>1, <2>3, <1>2, <1>3, WordFacts
  <2>4. CASE Hooking
    BY <2>1, <2>2, <2>4, <1>2, <1>3
  <2>5. QED
    BY <1>6, <2>3, <2>4
<1>7. ASSUME pc = "hook" \/ Hooking, hooks # EndHooks, ~ Wrapping
      PROVE  /\ last < Front /\ word[last].type # "jump" /\ Front = 4
             /\ last = 1 => word[2] = Word("pause", 3) /\ word[3] = Word("pause", 3)
  <2>1. dma_low = 4 * U
    BY <1>7 DEF DriverInv, RewindInv
  <2>2. 4 \in Int
    OBVIOUS
  <2>3. Front = 4
    BY <2>1, <2>2, <1>3
  <2>4. hooks = RewindHooks \/ hooks = TrapHooks
    BY <1>7 DEF DriverInv, HooksInv
  <2>5. CASE Filled(4)
    <3>1. \A u \in 0 .. 4 - 1 : word[u] = FillWord(u)
      BY <2>5 DEF Filled
    <3>2. /\ word[1] = FillWord(1) /\ word[2] = FillWord(2) /\ word[3] = FillWord(3)
      BY <3>1
    <3>3. /\ word[1] = Word("pause", 1) /\ word[2] = Word("pause", 3)
          /\ word[3] = Word("pause", 3)
      BY <3>2 DEF FillWord
    <3>4. last = 1 \/ last = 3
      <4>1. CASE pc = "hook"
        <5>1. hooks = TrapHooks
          BY <4>1, <1>7, <2>4 DEF Wrapping
        <5>2. QED
          BY <4>1, <5>1 DEF DriverInv, RewindInv
      <4>2. CASE Hooking /\ hooks = RewindHooks
        BY <4>2 DEF DriverInv, RewindInv
      <4>3. CASE Hooking /\ hooks = TrapHooks
        BY <4>3 DEF DriverInv, RewindInv
      <4>4. QED
        BY <1>7, <2>4, <4>1, <4>2, <4>3
    <3>5. QED
      BY <2>3, <3>3, <3>4, WordFacts
  <2>6. CASE ~ Filled(4)
    <3>1. Hooking /\ hooks = TrapHooks
      BY <2>4, <2>6, <1>7 DEF DriverInv, RewindInv
    <3>2. last = 3 /\ word[3] = Word("pause", 3)
      BY <3>1 DEF DriverInv, RewindInv
    <3>3. QED
      BY <3>2, <2>3, WordFacts
  <2>7. QED
    BY <2>5, <2>6
<1>8. ASSUME pc = "idle_wait"
      PROVE  /\ last < Front /\ word[last].type # "jump" /\ req = 0
  <2>1. req = 0 /\ dma_low = (last + 1) * U /\ word[last] = Word("stop", last)
    BY <1>8 DEF DriverInv, WaitInv
  <2>2. Front = last + 1
    BY <2>1, <1>2, <1>3
  <2>3. QED
    BY <2>1, <2>2, <1>2, WordFacts
<1>9. ASSUME ~ Wrapping
      PROVE  /\ last < Front /\ word[last].type # "jump"
             /\ word[0] # None /\ Chain(word, 0, last)
             /\ (last = 1 /\ req # 0) =>
                  /\ Front = 4
                  /\ word[2] = Word("pause", 3) /\ word[3] = Word("pause", 3)
  <2>1. word[0] # None /\ Chain(word, 0, last)
    BY <1>9 DEF DriverInv, StartInv
  <2>2. Appending \/ pc = "hook" \/ Hooking \/ pc = "idle_wait"
    BY <1>9 DEF TypeOK, Appending, Hooking, Wrapping
  <2>3. QED
    BY <2>1, <2>2, <1>5, <1>6, <1>7, <1>8, <1>9
<1>10. ASSUME Wrapping
       PROVE  /\ last = JumpUnit - 1 /\ word[last] = Word("pause", last)
              /\ 7 <= JumpUnit /\ Front <= 4
              /\ pc = "bitblt" => Front = 0
  <2>1. /\ last = JumpUnit - 1 /\ word[last] = Word("pause", last)
        /\ 7 <= JumpUnit /\ hooks = RewindHooks
    BY <1>10 DEF DriverInv, RewindInv
  <2>2. pc = "bitblt" => Front = 0
    <3>1. pc = "bitblt" => dma_low = 0
      BY DEF DriverInv, RewindInv
    <3>2. 0 \in Int /\ 0 * U = 0
      BY <1>1
    <3>3. QED
      BY <3>1, <3>2, <1>3
  <2>3. pc = "fill" => dma_low <= 4 * U
    <3>1. SUFFICES ASSUME pc = "fill" PROVE dma_low <= 4 * U
      OBVIOUS
    <3>2. PICK k \in 0 .. 3 : dma_low = IF k = 0 THEN Bitblts ELSE k * U
      BY <3>1 DEF DriverInv, RewindInv
    <3>3. k \in Int /\ 4 \in Int /\ k <= 4
      BY <3>2
    <3>4. k * U <= 4 * U
      BY <3>3, UnitOrder
    <3>5. QED
      BY <3>2, <3>4, <1>1
  <2>4. pc = "hook" => dma_low = 4 * U
    BY <2>1, HooksFacts DEF DriverInv, RewindInv
  <2>5. 4 \in Int /\ 4 * U \in Int
    BY <1>1
  <2>6. pc \in {"fill", "hook"} => Front <= 4
    BY <2>3, <2>4, <2>5, <1>2, <1>3
  <2>7. pc \in {"bitblt", "fill", "hook"}
    BY <1>10 DEF Wrapping
  <2>8. QED
    BY <2>1, <2>2, <2>6, <2>7
<1>11. QED
  BY <1>2, <1>3, <1>4, <1>9, <1>10

(* The unit that ends what the regulator can execute before the driver     *)
(* does something, and the commands on the way to it.                      *)
LEMMA EndFacts ==
  ASSUME TypeOK, DriverInv, LineInv
  PROVE  /\ pos \in Nat /\ pos <= End /\ End \in Units
         /\ word[End] # None /\ word[End].at = End
         /\ (pos < End /\ word[pos] # None) =>
              word[pos].at \in pos + 1 .. End /\ word[word[pos].at] # None
         /\ ~ Wrapping /\ ~ Ahead => End < Front
         /\ Wrapping => Ahead
         /\ word[End].type = "jump" => ~ Wrapping /\ Ahead
         /\ ~ Wrapping /\ Ahead => End = JumpUnit /\ word[End] = Word("jump", JumpUnit)
<1>1. /\ pos \in Nat /\ last \in Units /\ pos \in Units /\ word \in [Units -> Words]
      /\ High \in Nat /\ 12 < High
  BY ConstantFacts DEF TypeOK, Units
<1>2. /\ Front \in Nat /\ JumpUnit \in Units
      /\ ~ Wrapping => /\ last < Front /\ word[last].type # "jump"
                       /\ word[0] # None /\ Chain(word, 0, last)
                       /\ (last = 1 /\ req # 0) =>
                            /\ Front = 4
                            /\ word[2] = Word("pause", 3) /\ word[3] = Word("pause", 3)
      /\ Wrapping => /\ last = JumpUnit - 1 /\ word[last] = Word("pause", last)
                     /\ 7 <= JumpUnit /\ Front <= 4
                     /\ pc = "bitblt" => Front = 0
  BY DriverFacts
<1>3. pos <= End
  BY DEF LineInv
<1>4. CASE Wrapping
  <2>1. End = last
    BY <1>4 DEF End
  <2>2. Chain(word, pos, last)
    BY <1>4 DEF LineInv
  <2>3. pos \notin {} /\ Ahead
    <3>1. CASE pc = "bitblt"
      BY <3>1, <1>1, <1>2, <1>4 DEF Ahead
    <3>2. CASE pc # "bitblt"
      <4>1. 6 <= pos
        BY <3>2, <1>4 DEF LineInv, Wrapping
      <4>2. QED
        BY <4>1, <1>1, <1>2, <1>4 DEF Ahead
    <3>3. QED
      BY <3>1, <3>2
  <2>4. word[End].type # "jump"
    BY <2>1, <1>2, <1>4, WordFacts
  <2>5. QED
    BY <2>1, <2>2, <2>3, <2>4, <1>1, <1>3, <1>4 DEF Chain, Units
<1>5. CASE ~ Wrapping /\ Ahead
  <2>1. End = JumpUnit
    BY <1>5 DEF End
  <2>2. Chain(word, pos, JumpUnit) /\ word[JumpUnit] = Word("jump", JumpUnit)
    BY <1>5 DEF LineInv
  <2>3. QED
    BY <2>1, <2>2, <1>1, <1>2, <1>3, <1>5 DEF Chain, Units
<1>6. CASE ~ Wrapping /\ ~ Ahead /\ Trapped
  <2>1. End = 3
    BY <1>6 DEF End
  <2>2. last = 1 /\ req # 0 /\ pos \in {2, 3}
    BY <1>6 DEF Trapped
  <2>3. /\ Front = 4 /\ word[2] = Word("pause", 3) /\ word[3] = Word("pause", 3)
    BY <2>2, <1>2, <1>6
  <2>4. word[3] # None /\ word[3].at = 3 /\ word[2].at = 3 /\ word[3].type = "pause"
    BY <2>3, WordFacts
  <2>5. 3 \in Units
    BY <1>1 DEF Units
  <2>6. QED
    BY <2>1, <2>2, <2>3, <2>4, <2>5, <1>1, <1>3, <1>6
<1>7. CASE ~ Wrapping /\ ~ Ahead /\ ~ Trapped
  <2>1. End = last
    BY <1>7 DEF End
  <2>2. Chain(word, 0, last) /\ last < Front /\ word[last].type # "jump"
    BY <1>2, <1>7
  <2>3. QED
    BY <2>1, <2>2, <1>1, <1>3, <1>7 DEF Chain, Units
<1>8. QED
  BY <1>4, <1>5, <1>6, <1>7

(* What a step that leaves the driver's variables and the commands alone   *)
(* leaves alone besides.                                                   *)
LEMMA RegulatorFrame ==
  ASSUME UNCHANGED driverVars, word' = word
  PROVE  /\ Front' = Front /\ JumpUnit' = JumpUnit
         /\ Wrapping' <=> Wrapping
         /\ Hooking' <=> Hooking
         /\ Stopping' <=> Stopping
         /\ Kept' = Kept
         /\ pc' = pc /\ req' = req /\ mapped' = mapped /\ dma_low' = dma_low
         /\ last' = last /\ hooks' = hooks /\ hooked' = hooked
         /\ (hooks = RewindHooks)' <=> hooks = RewindHooks
         /\ DriverInv => DriverInv'
<1>1. /\ pc' = pc /\ req' = req /\ mapped' = mapped /\ dma_low' = dma_low
      /\ last' = last /\ hooks' = hooks /\ hooked' = hooked /\ dma_wrap' = dma_wrap
      /\ word' = word
  BY DEF driverVars
<1>2. Front' = Front /\ JumpUnit' = JumpUnit
  BY <1>1 DEF Front, JumpUnit, Ceil
<1>3. /\ RewindHooks' = RewindHooks /\ TrapHooks' = TrapHooks
      /\ EndWord' = EndWord /\ EndHooks' = EndHooks
  BY <1>1, <1>2 DEF RewindHooks, TrapHooks, EndHooks, EndWord
<1>4. /\ Wrapping' <=> Wrapping
      /\ Hooking' <=> Hooking
      /\ Appending' <=> Appending
  BY <1>1, <1>3 DEF Wrapping, Hooking, Appending
<1>5. Stopping' <=> Stopping
  BY <1>1, <1>4 DEF Stopping
<1>6. SizeAsked' = SizeAsked
  BY <1>1 DEF SizeAsked
<1>7. Kept' = Kept /\ Needed' = Needed /\ Added' = Added
  BY <1>1, <1>6 DEF Kept, Needed, Added
<1>9. \A n : Filled(n)' <=> Filled(n)
  BY <1>1 DEF Filled
<1>10. MustRewind(SizeAsked)' <=> MustRewind(SizeAsked)
  BY <1>1, <1>6 DEF MustRewind
<1>11. AppendInv => AppendInv'
  BY <1>1, <1>2, <1>4, <1>7, <1>10 DEF AppendInv
<1>12. EndInv => EndInv'
  BY <1>1, <1>2, <1>3, <1>4 DEF EndInv
<1>13. WaitInv => WaitInv'
  BY <1>1 DEF WaitInv
<1>14. RewindInv => RewindInv'
  BY <1>1, <1>2, <1>3, <1>4, <1>9 DEF RewindInv
<1>15. HooksInv => HooksInv'
  BY <1>1, <1>3, <1>4 DEF HooksInv
<1>16. LapInv => LapInv'
  BY <1>1, <1>2 DEF LapInv
<1>17. StartInv => StartInv'
  BY <1>1, <1>4 DEF StartInv
<1>18. DriverInv => DriverInv'
  BY <1>11, <1>12, <1>13, <1>14, <1>15, <1>16, <1>17 DEF DriverInv
<1>19. QED
  BY <1>1, <1>2, <1>3, <1>4, <1>5, <1>7, <1>18

(* A step in which the regulator does not move. *)
LEMMA StayingFrame ==
  ASSUME UNCHANGED driverVars, word' = word, pos' = pos
  PROVE  /\ Ahead' <=> Ahead
         /\ End' = End
         /\ LineInv => LineInv'
         /\ (seen' = seen /\ GapInv) => GapInv'
<1>1. /\ Front' = Front /\ JumpUnit' = JumpUnit
      /\ Wrapping' <=> Wrapping
      /\ Stopping' <=> Stopping
      /\ Kept' = Kept
      /\ (hooks = RewindHooks)' <=> hooks = RewindHooks
      /\ pc' = pc /\ req' = req /\ dma_low' = dma_low /\ last' = last
  BY RegulatorFrame
<1>2. (Ahead' <=> Ahead) /\ (Trapped' <=> Trapped)
  BY <1>1 DEF Ahead, Trapped
<1>3. End' = End
  BY <1>1, <1>2 DEF End
<1>4. LineInv => LineInv'
  BY <1>1, <1>2, <1>3 DEF LineInv
<1>5. (seen' = seen /\ GapInv) => GapInv'
  BY <1>1 DEF GapInv, Shown
<1>6. QED
  BY <1>2, <1>3, <1>4, <1>5

LEMMA ExecuteKeeps ==
  ASSUME TypeOK, DriverInv, ChaseInv, Execute, UNCHANGED driverVars
  PROVE  ChaseInv'
<1>1. /\ phase = "enter" /\ phase' = "body" /\ fresh' = fresh \ {pos}
      /\ pos' = pos /\ bp' = bp /\ seen' = seen /\ word' = word
  BY DEF Execute
<1>2. /\ Front' = Front /\ JumpUnit' = JumpUnit /\ pc' = pc /\ hooked' = hooked
      /\ last' = last /\ (Wrapping' <=> Wrapping) /\ (Hooking' <=> Hooking)
  BY <1>1, RegulatorFrame
<1>3. (Ahead' <=> Ahead) /\ End' = End /\ LineInv' /\ GapInv'
  BY <1>1, StayingFrame DEF ChaseInv
<1>4. SeenInv'
  BY <1>1, <1>2 DEF ChaseInv, SeenInv
<1>5. Front \in Nat /\ JumpUnit \in Int /\ pos \in Nat
  BY DriverFacts DEF TypeOK, Units
<1>6. FreshInv'
  <2>1. fresh = {pos} \cup (IF Ahead THEN (pos + 1 .. JumpUnit) \cup (0 .. Front - 1)
                            ELSE pos + 1 .. Front - 1)
    BY <1>1 DEF ChaseInv, FreshInv
  <2>2. pos \notin (IF Ahead THEN (pos + 1 .. JumpUnit) \cup (0 .. Front - 1)
                    ELSE pos + 1 .. Front - 1)
    BY <1>5 DEF Ahead
  <2>3. fresh' = IF Ahead THEN (pos + 1 .. JumpUnit) \cup (0 .. Front - 1)
                 ELSE pos + 1 .. Front - 1
    BY <1>1, <2>1, <2>2
  <2>4. QED
    BY <1>1, <1>2, <1>3, <2>3 DEF FreshInv
<1>7. RegInv'
  <2>1. word[pos] # None \/ Leads
    BY <1>1 DEF ChaseInv, RegInv
  <2>2. Leads' <=> Leads
    BY <1>1, <1>3 DEF Leads
  <2>3. QED
    BY <1>1, <2>1, <2>2 DEF RegInv
<1>8. QED
  BY <1>3, <1>4, <1>6, <1>7 DEF ChaseInv

LEMMA FetchKeeps ==
  ASSUME TypeOK, DriverInv, ChaseInv, Fetch, UNCHANGED driverVars
  PROVE  ChaseInv'
<1>1. /\ phase = "body" /\ phase' = "word"
      /\ bp' = IF word[pos] = None THEN bp ELSE word[pos]
      /\ pos' = pos /\ seen' = seen /\ word' = word /\ fresh' = fresh
  BY DEF Fetch
<1>2. /\ Front' = Front /\ JumpUnit' = JumpUnit /\ pc' = pc /\ hooked' = hooked
      /\ last' = last /\ (Wrapping' <=> Wrapping) /\ (Hooking' <=> Hooking)
  BY <1>1, RegulatorFrame
<1>3. (Ahead' <=> Ahead) /\ End' = End /\ LineInv' /\ GapInv'
  BY <1>1, StayingFrame DEF ChaseInv
<1>4. LineInv /\ RegInv /\ SeenInv /\ GapInv
  BY DEF ChaseInv
<1>5. /\ pos \in Nat /\ pos <= End /\ End \in Nat
      /\ word[End] # None /\ word[End].at = End
      /\ (pos < End /\ word[pos] # None) =>
           word[pos].at \in pos + 1 .. End /\ word[word[pos].at] # None
      /\ ~ Wrapping /\ ~ Ahead => End < Front
  BY <1>4, EndFacts DEF Units
<1>6. Leads' \/ (pos = End /\ bp' = word[pos])
  <2>1. word[pos] # None \/ Leads
    BY <1>1, <1>4 DEF RegInv
  <2>2. CASE word[pos] = None
    BY <1>1, <1>3, <2>1, <2>2 DEF Leads
  <2>3. CASE word[pos] # None /\ pos < End
    BY <1>1, <1>3, <1>5, <2>3 DEF Leads
  <2>4. CASE word[pos] # None /\ pos = End
    BY <1>1, <2>4
  <2>5. QED
    BY <1>5, <2>2, <2>3, <2>4
<1>7. RegInv'
  BY <1>1, <1>3, <1>6 DEF RegInv
<1>8. SeenInv'
  <2>1. SUFFICES ASSUME seen # Now, pos = 1, bp'.at = 1 PROVE last = 1
    BY <1>1, <1>2, <1>4 DEF SeenInv
  <2>2. ~ Wrapping /\ Front <= JumpUnit
    BY <1>4, <2>1 DEF SeenInv
  <2>3. last >= 1 /\ last < Front /\ last \in Nat /\ Front \in Nat
    BY <1>4, <2>1, <2>2, DriverFacts DEF GapInv, Shown, TypeOK, Units
  <2>4. ~ Ahead
    BY <2>1, <2>3 DEF Ahead
  <2>5. pos = End
    <3>1. ~ Leads'
      BY <1>1, <2>1, <1>5, <1>3 DEF Leads
    <3>2. QED
      BY <3>1, <1>6
  <2>6. ~ Trapped
    BY <2>1 DEF Trapped
  <2>7. QED
    BY <2>1, <2>2, <2>4, <2>5, <2>6 DEF End
<1>9. FreshInv'
  BY <1>1, <1>2, <1>3 DEF ChaseInv, FreshInv
<1>10. QED
  BY <1>3, <1>7, <1>8, <1>9 DEF ChaseInv

LEMMA GoOnKeeps ==
  ASSUME TypeOK, DriverInv, ChaseInv, GoOn, UNCHANGED driverVars
  PROVE  ChaseInv'
<1>1. /\ phase = "word" /\ bp.at # pos
      /\ pos' = pos + 1 /\ phase' = "enter"
      /\ seen' = IF pos + 1 >= 2 THEN Now ELSE seen
      /\ bp' = bp /\ word' = word /\ fresh' = fresh
  BY DEF GoOn, MoveTo
<1>2. /\ Front' = Front /\ JumpUnit' = JumpUnit /\ pc' = pc /\ req' = req
      /\ last' = last /\ (Wrapping' <=> Wrapping) /\ (Hooking' <=> Hooking)
      /\ (Stopping' <=> Stopping) /\ Kept' = Kept /\ dma_low' = dma_low
      /\ (hooks = RewindHooks)' <=> hooks = RewindHooks
  BY <1>1, RegulatorFrame
<1>3. LineInv /\ RegInv /\ SeenInv /\ GapInv /\ FreshInv
  BY DEF ChaseInv
<1>4. /\ pos \in Nat /\ pos <= End /\ End \in Nat
      /\ word[End] # None /\ word[End].at = End
      /\ ~ Wrapping /\ ~ Ahead => End < Front
      /\ Wrapping => Ahead
      /\ ~ Wrapping /\ Ahead => End = JumpUnit
      /\ Wrapping => End = last
  BY <1>3, EndFacts DEF Units, End
<1>5. Front \in Nat /\ JumpUnit \in Nat /\ last \in Nat
      /\ (~ Wrapping => last < Front)
      /\ (Wrapping => last = JumpUnit - 1)
  BY DriverFacts DEF TypeOK, Units
<1>6. bp.at \in pos + 1 .. End /\ word[bp.at] # None
  <2>1. Leads \/ (pos = End /\ bp = word[pos])
              \/ (pos = hooked /\ bp = Word("pause", hooked))
    BY <1>1, <1>3 DEF RegInv, Missed
  <2>2. QED
    BY <1>1, <1>4, <2>1, WordFacts DEF Leads
<1>7. pos + 1 <= End
  BY <1>4, <1>6
<1>8. Ahead' <=> Ahead
  BY <1>1, <1>2, <1>4, <1>5, <1>7 DEF Ahead
<1>9. End' = End
  <2>1. CASE Wrapping \/ Ahead
    BY <2>1, <1>2, <1>8 DEF End
  <2>2. CASE ~ Wrapping /\ ~ Ahead /\ Trapped
    <3>1. pos + 1 <= 3 /\ last = 1 /\ req # 0 /\ pos \in {2, 3} /\ End = 3
      BY <2>2, <1>7 DEF Trapped, End
    <3>2. Trapped'
      BY <3>1, <1>1, <1>2 DEF Trapped
    <3>3. QED
      BY <2>2, <3>1, <3>2, <1>2, <1>8 DEF End
  <2>3. CASE ~ Wrapping /\ ~ Ahead /\ ~ Trapped
    <3>1. pos + 1 <= last /\ End = last
      BY <2>3, <1>7 DEF End
    <3>2. ~ Trapped'
      BY <3>1, <1>1, <1>2, <1>4, <1>5 DEF Trapped
    <3>3. QED
      BY <2>3, <3>1, <3>2, <1>2, <1>8 DEF End
  <2>4. QED
    BY <2>1, <2>2, <2>3
<1>10. LineInv'
  <2>1. \A hi : Chain(word, pos, hi) => Chain(word, pos + 1, hi)
    BY <1>4 DEF Chain
  <2>2. Wrapping => Chain(word, pos + 1, last)
    BY <1>3, <2>1 DEF LineInv
  <2>3. ~ Wrapping /\ Ahead =>
          Chain(word, pos + 1, JumpUnit) /\ word[JumpUnit] = Word("jump", JumpUnit)
    BY <1>3, <2>1 DEF LineInv
  <2>4. pc = "fill" \/ (pc = "hook" /\ hooks = RewindHooks) => 6 <= pos + 1
    BY <1>3, <1>4 DEF LineInv
  <2>5. QED
    BY <1>1, <1>2, <1>7, <1>8, <1>9, <2>2, <2>3, <2>4 DEF LineInv
<1>11. GapInv'
  <2>1. SUFFICES ASSUME ~ Wrapping, Front <= Shown'
        PROVE /\ last >= 1 /\ JumpUnit + 2 <= High /\ pos + 1 <= JumpUnit /\ pc # "jump"
              /\ ~ Stopping => /\ dma_low + Kept <= (Shown') * U
                               /\ \/ dma_low = 4 * U
                                  \/ dma_low + Margin <= (Shown') * U + 2 * U
    BY <1>1, <1>2 DEF GapInv
  <2>2. CASE Ahead
    <3>1. seen = Now
      <4>1. SUFFICES ASSUME seen # Now PROVE FALSE
        OBVIOUS
      <4>2. pos \in {0, 1} /\ Front <= JumpUnit
        BY <1>3, <4>1 DEF SeenInv
      <4>3. last >= 1
        BY <1>3, <4>1, <4>2, <2>1 DEF GapInv, Shown
      <4>4. QED
        BY <2>1, <2>2, <4>2, <4>3, <1>5 DEF Ahead
    <3>2. Shown = pos /\ Shown' = pos + 1
      BY <1>1, <3>1 DEF Shown
    <3>3. /\ last >= 1 /\ JumpUnit + 2 <= High /\ pos <= JumpUnit /\ pc # "jump"
          /\ ~ Stopping => /\ dma_low + Kept <= pos * U
                           /\ dma_low = 4 * U \/ dma_low + Margin <= pos * U + 2 * U
      BY <2>1, <2>2, <3>2, <1>3 DEF GapInv, Ahead
    <3>4. pos + 1 <= JumpUnit
      BY <1>4, <1>7, <2>1, <2>2
    <3>5. pos * U <= (pos + 1) * U /\ pos * U \in Int /\ (pos + 1) * U \in Int
      BY <1>4, UnitOrder
    <3>6. dma_low \in Nat /\ Kept \in Int /\ U \in Nat /\ Margin \in Nat
      BY DataFacts
    <3>7. ~ Stopping => /\ dma_low + Kept <= (pos + 1) * U
                        /\ dma_low = 4 * U \/ dma_low + Margin <= (pos + 1) * U + 2 * U
      BY <3>3, <3>5, <3>6
    <3>8. QED
      BY <3>2, <3>3, <3>4, <3>7
  <2>3. CASE ~ Ahead
    <3>1. seen # Now /\ seen' = seen
      BY <2>1, <2>3, <1>1, <1>4, <1>5, <1>7 DEF Shown
    <3>2. Shown = JumpUnit /\ Shown' = JumpUnit
      BY <3>1, <1>2 DEF Shown
    <3>3. pos + 1 <= JumpUnit
      BY <2>1, <2>3, <3>2, <1>4, <1>5, <1>7
    <3>4. QED
      BY <2>1, <3>2, <3>3, <1>3 DEF GapInv
  <2>4. QED
    BY <2>2, <2>3
<1>12. SeenInv'
  <2>1. SUFFICES ASSUME seen' # Now
        PROVE /\ ~ Wrapping /\ pos + 1 \in {0, 1} /\ seen' \in {JumpUnit * U, JumpUnit * U + 1}
              /\ Front <= JumpUnit
    BY <1>1, <1>2 DEF SeenInv
  <2>2. seen' = seen /\ pos + 1 < 2
    BY <1>1, <1>4, <2>1
  <2>3. QED
    BY <2>1, <2>2, <1>3, <1>4 DEF SeenInv
<1>13. FreshInv'
  <2>1. fresh = IF Ahead THEN (pos + 1 .. JumpUnit) \cup (0 .. Front - 1)
                ELSE pos + 1 .. Front - 1
    BY <1>1, <1>3 DEF FreshInv
  <2>2. CASE Ahead
    <3>1. pos + 1 <= JumpUnit
      BY <1>4, <1>5, <1>7, <2>2
    <3>2. pos + 1 .. JumpUnit = {pos + 1} \cup (pos + 1 + 1 .. JumpUnit)
      BY <3>1, <1>4, <1>5
    <3>3. QED
      BY <2>1, <2>2, <3>2, <1>1, <1>2, <1>8 DEF FreshInv
  <2>3. CASE ~ Ahead
    <3>1. pos + 1 <= Front - 1
      BY <1>4, <1>5, <1>7, <2>3
    <3>2. pos + 1 .. Front - 1 = {pos + 1} \cup (pos + 1 + 1 .. Front - 1)
      BY <3>1, <1>4, <1>5
    <3>3. QED
      BY <2>1, <2>3, <3>2, <1>1, <1>2, <1>8 DEF FreshInv
  <2>4. QED
    BY <2>2, <2>3
<1>14. RegInv'
  <2>1. bp.at = pos + 1 \/ bp.at \in pos + 1 + 1 .. End
    BY <1>4, <1>6
  <2>2. word[pos + 1] # None \/ (bp.at \in pos + 1 + 1 .. End /\ word[bp.at] # None)
    BY <1>6, <2>1
  <2>3. QED
    BY <1>1, <1>9, <2>2 DEF RegInv, Leads
<1>15. QED
  BY <1>10, <1>11, <1>12, <1>13, <1>14 DEF ChaseInv

LEMMA HaltKeeps ==
  ASSUME TypeOK, DriverInv, ChaseInv, Halt, UNCHANGED driverVars
  PROVE  ChaseInv'
<1>1. /\ phase = "word" /\ bp.at = pos /\ bp.type \in {"pause", "stop"}
      /\ phase' = IF bp.type = "pause" THEN "paused" ELSE "stopped"
      /\ pos' = pos /\ bp' = bp /\ seen' = seen /\ word' = word /\ fresh' = fresh
  BY DEF Halt
<1>2. /\ Front' = Front /\ JumpUnit' = JumpUnit /\ pc' = pc /\ hooked' = hooked
      /\ last' = last /\ (Wrapping' <=> Wrapping) /\ (Hooking' <=> Hooking)
  BY <1>1, RegulatorFrame
<1>3. (Ahead' <=> Ahead) /\ End' = End /\ LineInv' /\ GapInv'
  BY <1>1, StayingFrame DEF ChaseInv
<1>4. LineInv /\ RegInv /\ SeenInv
  BY DEF ChaseInv
<1>5. /\ pos \in Nat /\ word[End] # None /\ word[End].at = End /\ End \in Units
  BY <1>4, EndFacts
<1>6. SeenInv'
  BY <1>1, <1>2, <1>4 DEF SeenInv
<1>7. FreshInv'
  BY <1>1, <1>2, <1>3 DEF ChaseInv, FreshInv
<1>8. RegInv'
  <2>1. \/ pos = End /\ bp = word[pos]
        \/ pc = "poll" /\ Missed /\ bp = Word("pause", hooked)
    BY <1>1, <1>4, <1>5 DEF RegInv, Leads
  <2>2. CASE pos = End /\ bp = word[pos]
    <3>1. bp \in Words
      BY DEF TypeOK
    <3>2. bp = Word(bp.type, pos)
      BY <3>1, <1>1, WordFacts
    <3>3. QED
      BY <1>1, <1>3, <2>2, <3>2 DEF RegInv
  <2>3. CASE pc = "poll" /\ Missed /\ bp = Word("pause", hooked)
    <3>1. phase' = "paused"
      BY <1>1, <2>3, WordFacts
    <3>2. Hooking' /\ Missed'
      BY <1>1, <1>2, <2>3 DEF Hooking, Missed
    <3>3. QED
      BY <3>1, <3>2 DEF RegInv
  <2>4. QED
    BY <2>1, <2>2, <2>3
<1>9. QED
  BY <1>3, <1>6, <1>7, <1>8 DEF ChaseInv

LEMMA JumpKeeps ==
  ASSUME TypeOK, DriverInv, ChaseInv, Jump, UNCHANGED driverVars
  PROVE  ChaseInv' /\ pos = JumpUnit
<1>1. /\ phase = "word" /\ bp.at = pos /\ bp.type = "jump"
      /\ pos' = 0 /\ phase' = "enter"
      /\ seen' \in {Now, pos * U, pos * U + 1}
      /\ bp' = bp /\ word' = word /\ fresh' = fresh
  BY DEF Jump
<1>2. /\ Front' = Front /\ JumpUnit' = JumpUnit /\ pc' = pc /\ req' = req
      /\ last' = last /\ (Wrapping' <=> Wrapping) /\ (Hooking' <=> Hooking)
      /\ (Stopping' <=> Stopping) /\ Kept' = Kept /\ dma_low' = dma_low
      /\ (hooks = RewindHooks)' <=> hooks = RewindHooks
  BY <1>1, RegulatorFrame
<1>3. LineInv /\ RegInv /\ SeenInv /\ GapInv /\ FreshInv
  BY DEF ChaseInv
<1>4. /\ pos \in Nat /\ End \in Units /\ word[End] # None /\ word[End].at = End
      /\ word[End].type = "jump" => ~ Wrapping /\ Ahead
      /\ ~ Wrapping /\ Ahead => End = JumpUnit
  BY <1>3, EndFacts
<1>5. Front \in Nat /\ JumpUnit \in Nat /\ last \in Nat
      /\ (~ Wrapping => last < Front /\ word[0] # None /\ Chain(word, 0, last)
                        /\ ((last = 1 /\ req # 0) => Front = 4))
  BY DriverFacts DEF TypeOK, Units
<1>6. pos = End /\ bp = word[pos]
  BY <1>1, <1>3, <1>4, WordFacts DEF RegInv, Leads
<1>7. ~ Wrapping /\ Ahead /\ pos = JumpUnit
  BY <1>1, <1>4, <1>6
<1>8. seen = Now
  <2>1. SUFFICES ASSUME seen # Now PROVE FALSE
    OBVIOUS
  <2>2. pos \in {0, 1} /\ Front <= JumpUnit
    BY <1>3, <2>1 DEF SeenInv
  <2>3. last >= 1
    BY <1>3, <1>7, <2>1, <2>2 DEF GapInv, Shown
  <2>4. QED
    BY <1>5, <1>7, <2>2, <2>3 DEF Ahead
<1>9. /\ last >= 1 /\ JumpUnit + 2 <= High /\ pc # "jump"
      /\ ~ Stopping => /\ dma_low + Kept <= JumpUnit * U
                       /\ dma_low = 4 * U \/ dma_low + Margin <= JumpUnit * U + 2 * U
  BY <1>3, <1>7, <1>8 DEF GapInv, Shown, Ahead
<1>10. Front >= 2 /\ Front <= JumpUnit /\ last < Front
  BY <1>5, <1>7, <1>9 DEF Ahead
<1>11. ~ Ahead'
  BY <1>1, <1>2, <1>5, <1>10 DEF Ahead
<1>12. GapInv'
  <2>1. SUFFICES ASSUME Front <= Shown' PROVE Shown' = JumpUnit /\ 0 <= JumpUnit
    BY <1>1, <1>2, <1>9 DEF GapInv
  <2>2. QED
    BY <2>1, <1>1, <1>2, <1>5, <1>10 DEF Shown
<1>13. SeenInv'
  BY <1>1, <1>2, <1>7, <1>10 DEF SeenInv
<1>14. FreshInv'
  <2>1. fresh = 0 .. Front - 1
    <3>1. fresh = (pos + 1 .. JumpUnit) \cup (0 .. Front - 1)
      BY <1>1, <1>3, <1>7 DEF FreshInv
    <3>2. pos + 1 .. JumpUnit = {}
      BY <1>4, <1>7
    <3>3. QED
      BY <3>1, <3>2
  <2>2. 0 .. Front - 1 = {0} \cup (0 + 1 .. Front - 1)
    BY <1>5, <1>10
  <2>3. QED
    BY <1>1, <1>2, <1>11, <2>1, <2>2 DEF FreshInv
<1>15. LineInv'
  <2>1. ~ Wrapping' /\ ~ (pc' = "fill" \/ (pc = "hook" /\ hooks = RewindHooks)')
    BY <1>2, <1>7 DEF Wrapping
  <2>2. End' \in Nat
    BY <1>2, <1>5, <1>11, <2>1 DEF End
  <2>3. QED
    BY <1>1, <1>11, <2>1, <2>2 DEF LineInv
<1>16. RegInv'
  BY <1>1, <1>5, <1>7 DEF RegInv
<1>17. QED
  BY <1>7, <1>12, <1>13, <1>14, <1>15, <1>16 DEF ChaseInv

LEMMA CatchUpKeeps ==
  ASSUME TypeOK, DriverInv, ChaseInv, CatchUp, UNCHANGED driverVars
  PROVE  ChaseInv'
<1>1. /\ seen # Now /\ seen' = Now
      /\ pos' = pos /\ phase' = phase /\ bp' = bp /\ word' = word /\ fresh' = fresh
  BY DEF CatchUp
<1>2. /\ Front' = Front /\ JumpUnit' = JumpUnit /\ pc' = pc /\ hooked' = hooked
      /\ (Wrapping' <=> Wrapping) /\ (Hooking' <=> Hooking)
  BY <1>1, RegulatorFrame
<1>3. (Ahead' <=> Ahead) /\ End' = End /\ LineInv'
  BY <1>1, StayingFrame DEF ChaseInv
<1>4. SeenInv /\ GapInv /\ RegInv
  BY DEF ChaseInv
<1>5. ~ Wrapping /\ pos \in {0, 1} /\ Front <= JumpUnit
  BY <1>1, <1>4 DEF SeenInv
<1>6. last >= 1 /\ last < Front /\ Front \in Nat /\ last \in Nat
  BY <1>1, <1>4, <1>5, DriverFacts DEF GapInv, Shown, TypeOK, Units
<1>7. GapInv'
  <2>1. ~ (Front <= pos)
    BY <1>5, <1>6
  <2>2. Shown' = pos
    BY <1>1 DEF Shown
  <2>3. QED
    BY <1>2, <2>1, <2>2 DEF GapInv
<1>8. SeenInv'
  BY <1>1 DEF SeenInv
<1>9. FreshInv'
  BY <1>1, <1>2, <1>3 DEF ChaseInv, FreshInv
<1>10. RegInv'
  <2>1. (Leads' <=> Leads) /\ (Missed => Missed')
    BY <1>1, <1>2, <1>3 DEF Leads, Missed
  <2>2. QED
    BY <1>1, <1>2, <1>3, <1>4, <2>1 DEF RegInv
<1>11. QED
  BY <1>3, <1>7, <1>8, <1>9, <1>10 DEF ChaseInv

(* No step of the regulator breaks the invariant. *)
LEMMA RegulatorKeeps ==
  ASSUME IInv, Regulator
  PROVE  IInv'
<1>1. /\ TypeOK /\ (pc # "idle" => mapped)
      /\ mapped => DriverInv /\ ChaseInv
      /\ ~ mapped => phase \in {"off", "stopped"}
  BY DEF IInv
<1>2. UNCHANGED driverVars /\ written' = {}
  BY DEF Regulator
<1>3. Execute \/ Fetch \/ GoOn \/ Halt \/ Jump \/ CatchUp
  BY DEF Regulator
<1>4. word' = word
  BY <1>3 DEF Execute, Fetch, GoOn, Halt, Jump, CatchUp
<1>5. /\ pc' = pc /\ req' = req /\ mapped' = mapped /\ dma_low' = dma_low
      /\ last' = last /\ hooks' = hooks /\ hooked' = hooked /\ dma_wrap' = dma_wrap
  BY <1>2 DEF driverVars
<1>6. CASE ~ mapped
  <2>1. CatchUp
    BY <1>1, <1>3, <1>6 DEF Execute, Fetch, GoOn, Halt, Jump
  <2>2. TypeOK'
    BY <1>1, <1>2, <1>4, <1>5, <2>1, ConstantFacts DEF TypeOK, CatchUp, Now
  <2>3. QED
    BY <1>1, <1>5, <1>6, <2>1, <2>2 DEF IInv, CatchUp
<1>7. CASE mapped
  <2>1. DriverInv /\ ChaseInv
    BY <1>1, <1>7
  <2>2. DriverInv'
    BY <1>2, <1>4, <2>1, RegulatorFrame
  <2>3. ChaseInv'
    BY <1>1, <1>2, <1>3, <2>1, ExecuteKeeps, FetchKeeps, GoOnKeeps, HaltKeeps,
       JumpKeeps, CatchUpKeeps
  <2>4. High \in Nat /\ U \in Nat /\ 3 <= U /\ 12 < High /\ High * U \in Nat
    BY ConstantFacts
  <2>5. pos' \in Units /\ seen' \in Now .. High * U
    <3>1. pos \in Units /\ seen \in Now .. High * U
      BY <1>1 DEF TypeOK
    <3>2. CASE Execute \/ Fetch \/ Halt \/ CatchUp
      BY <3>1, <3>2, <2>4 DEF Execute, Fetch, Halt, CatchUp, Now
    <3>3. CASE GoOn
      <4>1. bp.at \in pos + 1 .. End \/ pos = bp.at
        <5>1. RegInv /\ LineInv
          BY <2>1 DEF ChaseInv
        <5>2. word[End].at = End
          BY <1>1, <2>1, <5>1, EndFacts
        <5>3. QED
          BY <3>3, <5>1, <5>2, WordFacts DEF GoOn, RegInv, Leads, Missed
      <4>2. bp.at \in Units
        BY <1>1, WordFacts DEF TypeOK
      <4>3. pos + 1 \in Units
        BY <3>1, <3>3, <4>1, <4>2, <2>4 DEF Units, GoOn
      <4>4. QED
        BY <3>1, <3>3, <4>3, <2>4 DEF GoOn, MoveTo, Now
    <3>4. CASE Jump
      <4>1. pos * U \in Int /\ pos * U + U <= High * U /\ 0 <= pos * U
        <5>1. pos \in Int /\ High \in Int /\ pos < High /\ 0 <= pos
          BY <3>1, <2>4 DEF Units
        <5>2. pos * U + U <= High * U /\ pos * U \in Int
          BY <5>1, UnitOrder
        <5>3. 0 <= pos * U
          BY <5>1, <2>4
        <5>4. QED
          BY <5>2, <5>3
      <4>2. pos' = 0 /\ seen' \in {Now, pos * U, pos * U + 1}
        BY <3>4 DEF Jump
      <4>3. QED
        BY <4>1, <4>2, <2>4 DEF Units, Now
    <3>5. QED
      BY <1>3, <3>2, <3>3, <3>4
  <2>6. phase' \in {"off", "enter", "body", "word", "paused", "stopped"}
    BY <1>1, <1>3 DEF TypeOK, Execute, Fetch, GoOn, Halt, Jump, CatchUp, MoveTo
  <2>7. bp' \in Words
    BY <1>1, <1>3 DEF TypeOK, Execute, Fetch, GoOn, Halt, Jump, CatchUp, MoveTo
  <2>8. fresh' \subseteq Units
    BY <1>1, <1>3 DEF TypeOK, Execute, Fetch, GoOn, Halt, Jump, CatchUp, MoveTo
  <2>9. TypeOK'
    BY <1>1, <1>2, <1>4, <1>5, <2>5, <2>6, <2>7, <2>8 DEF TypeOK
  <2>10. QED
    BY <1>1, <1>5, <1>7, <2>2, <2>3, <2>9 DEF IInv
<1>8. QED
  BY <1>6, <1>7

-----------------------------------------------------------------------------
(* Steps of the driver that neither write nor append. *)
LEMMA QuietFacts ==
  ASSUME IInv, mapped, Appending, Appending', mapped' = mapped,
         UNCHANGED <<dma_low, dma_wrap, last, hooks, hooked, word, fresh, regulatorVars>>,
         AppendInv', GapInv', TypeOK'
  PROVE  IInv'
<1>1. /\ dma_low' = dma_low /\ dma_wrap' = dma_wrap /\ last' = last /\ hooks' = hooks
      /\ hooked' = hooked /\ word' = word /\ fresh' = fresh
      /\ pos' = pos /\ phase' = phase /\ bp' = bp /\ seen' = seen
  BY DEF regulatorVars
<1>2. DriverInv /\ ChaseInv /\ TypeOK
  BY DEF IInv
<1>3. Front' = Front /\ JumpUnit' = JumpUnit /\ (Ahead' <=> Ahead)
  BY <1>1 DEF Front, JumpUnit, Ceil, Ahead
<1>4. /\ ~ Wrapping /\ ~ Wrapping' /\ ~ Hooking /\ ~ Hooking'
      /\ pc \notin {"hook", "idle_wait"} /\ pc' \notin {"hook", "idle_wait"}
  BY DEF Appending, Wrapping, Hooking
<1>5. last # 1
  BY <1>2 DEF DriverInv, AppendInv
<1>6. End' = End
  BY <1>1, <1>3, <1>4, <1>5 DEF End, Trapped
<1>7. EndInv' /\ WaitInv' /\ HooksInv'
  BY <1>4 DEF EndInv, WaitInv, HooksInv
<1>8. RewindInv'
  BY <1>4 DEF RewindInv, Appending
<1>9. LapInv' /\ StartInv'
  BY <1>1, <1>2, <1>3, <1>4 DEF DriverInv, LapInv, StartInv
<1>10. SeenInv' /\ FreshInv'
  BY <1>1, <1>2, <1>3, <1>4 DEF ChaseInv, SeenInv, FreshInv
<1>11. LineInv'
  <2>1. pc \notin {"fill"} /\ pc' \notin {"fill", "hook"}
    BY DEF Appending
  <2>2. QED
    BY <1>1, <1>2, <1>3, <1>4, <1>6, <2>1 DEF ChaseInv, LineInv
<1>12. RegInv'
  <2>1. pc # "poll"
    BY DEF Appending
  <2>2. Leads' <=> Leads
    BY <1>1, <1>6 DEF Leads
  <2>3. QED
    BY <1>1, <1>2, <1>4, <1>6, <2>1, <2>2 DEF ChaseInv, RegInv
<1>13. QED
  BY <1>2, <1>7, <1>8, <1>9, <1>10, <1>11, <1>12 DEF IInv, DriverInv, ChaseInv

(* What the margin leaves of the buffer in front of the last unit shown    *)
(* makes a rewind impossible while the regulator is in the lap before.     *)
LEMMA NoRewind ==
  ASSUME TypeOK, DriverInv, ChaseInv, Appending, pc = "idle", Front <= Shown,
         NEW r \in Sizes
  PROVE  dma_low + (IF r < U THEN U + 1 ELSE r) + 4 * U <= High * U
<1>1. /\ U \in Nat /\ Margin \in Nat /\ High \in Nat /\ High * U \in Nat
      /\ dma_low \in Nat /\ pos \in Nat
  BY DataFacts
<1>2. LET a == IF r < U THEN U + 1 ELSE r
      IN a \in Nat /\ a + 6 * U + Margin < High * U /\ a + 4 * U <= Margin
  BY ConstantFacts, <1>1
<1>. DEFINE a == IF r < U THEN U + 1 ELSE r
<1>3. a \in Nat /\ a + 6 * U + Margin < High * U /\ a + 4 * U <= Margin
  BY <1>2
<1>. HIDE DEF a
<1>4. JumpUnit \in Nat
  BY DriverFacts DEF Units
<1>5. ~ Wrapping /\ ~ Stopping
  BY DEF Wrapping, Stopping, Hooking
<1>6. /\ JumpUnit + 2 <= High /\ pos <= JumpUnit
      /\ dma_low = 4 * U \/ dma_low + Margin <= Shown * U + 2 * U
  BY <1>5 DEF ChaseInv, GapInv
<1>7. 5 * U + 1 <= Margin
  BY ConstantFacts
<1>8. CASE dma_low = 4 * U
  <2>1. dma_low + a + 4 * U <= High * U
    BY <1>1, <1>3, <1>7, <1>8
  <2>2. QED
    BY <2>1 DEF a
<1>9. CASE dma_low + Margin <= Shown * U + 2 * U
  <2>1. Shown \in Nat /\ Shown + 2 <= High
    BY <1>1, <1>4, <1>6 DEF Shown
  <2>2. Shown + 2 \in Int /\ High \in Int
    BY <1>1, <2>1
  <2>3. (Shown + 2) * U <= High * U
    BY <2>1, <2>2, UnitOrder
  <2>4. (Shown + 2) * U = Shown * U + 2 * U /\ Shown * U \in Nat
    BY <1>1, <2>1
  <2>5. dma_low + a + 4 * U <= High * U
    BY <1>1, <1>3, <1>9, <2>3, <2>4
  <2>6. QED
    BY <2>5 DEF a
<1>10. QED
  BY <1>6, <1>8, <1>9

LEMMA DispatchKeeps ==
  ASSUME IInv, Dispatch
  PROVE  IInv'
<1>1. /\ pc = "idle" /\ mapped /\ req' \in Sizes
      /\ pc' = IF MustRewind(SizeAsked') THEN "jump" ELSE "fit"
      /\ written' = {} /\ word' = word /\ fresh' = fresh
      /\ UNCHANGED <<mapped, dma_low, dma_wrap, last, hooks, hooked, regulatorVars>>
  BY DEF Dispatch, NoWrite
<1>2. DriverInv /\ ChaseInv /\ TypeOK
  BY <1>1 DEF IInv
<1>3. Appending /\ Appending'
  BY <1>1 DEF Appending
<1>4. /\ dma_low' = dma_low /\ dma_wrap' = dma_wrap /\ last' = last /\ hooks' = hooks
      /\ hooked' = hooked /\ pos' = pos /\ phase' = phase /\ bp' = bp /\ seen' = seen
      /\ mapped' = mapped
  BY <1>1 DEF regulatorVars
<1>5. TypeOK'
  BY <1>1, <1>2, <1>4 DEF TypeOK
<1>6. Front' = Front /\ JumpUnit' = JumpUnit /\ Shown' = Shown
  BY <1>4 DEF Front, JumpUnit, Ceil, Shown
<1>7. SizeAsked' = IF req' < U THEN U + 1 ELSE req'
  BY DEF SizeAsked
<1>8. U \in Nat /\ dma_low \in Nat /\ High * U \in Nat /\ Sizes \subseteq Nat
  BY <1>2, DataFacts, ConstantFacts
<1>9. SizeAsked' \in Nat
  BY <1>1, <1>7, <1>8
<1>10. AppendInv'
  <2>1. /\ hooks = <<>> /\ word[last] = Word("pause", last) /\ last # 1
        /\ dma_low = (last + 1) * U + 0
        /\ \A u \in last + 1 .. Front - 1 : word[u] = None
        /\ dma_low + 2 * U <= High * U
    BY <1>1, <1>2, <1>3 DEF DriverInv, AppendInv, Added, Needed
  <2>2. CASE pc' = "jump"
    <3>1. MustRewind(SizeAsked')
      BY <1>1, <2>2
    <3>2. MustRewind(SizeAsked)'
      BY <3>1, <1>4 DEF MustRewind
    <3>3. Added' = 0 /\ Needed' = 2 * U
      BY <2>2 DEF Added, Needed
    <3>4. QED
      BY <1>1, <1>4, <1>6, <2>1, <2>2, <3>2, <3>3 DEF AppendInv
  <2>3. CASE pc' = "fit"
    <3>1. dma_low + SizeAsked' + 4 * U <= High * U
      BY <1>1, <2>3, <1>8, <1>9 DEF MustRewind
    <3>2. Added' = 0 /\ Needed' = SizeAsked' + 4 * U
      BY <2>3 DEF Added, Needed
    <3>3. dma_low + Needed' <= High * U
      BY <3>1, <3>2, <1>8, <1>9
    <3>4. QED
      BY <1>1, <1>4, <1>6, <2>1, <2>3, <3>2, <3>3 DEF AppendInv
  <2>4. QED
    BY <1>1, <2>2, <2>3
<1>11. GapInv'
  <2>1. SUFFICES ASSUME Front <= Shown
        PROVE /\ last >= 1 /\ JumpUnit + 2 <= High /\ pos <= JumpUnit /\ pc' # "jump"
              /\ /\ dma_low + 2 * U <= Shown * U
                 /\ dma_low = 4 * U \/ dma_low + Margin <= Shown * U + 2 * U
    <3>1. Kept' = 2 * U
      BY <1>1 DEF Kept
    <3>2. QED
      BY <1>4, <1>6, <3>1 DEF GapInv
  <2>2. ~ Wrapping /\ ~ Stopping /\ Kept = 2 * U
    BY <1>1 DEF Wrapping, Stopping, Hooking, Kept
  <2>3. pc' # "jump"
    <3>1. dma_low + SizeAsked' + 4 * U <= High * U
      BY <1>1, <1>2, <1>3, <1>7, <2>1, NoRewind
    <3>2. ~ MustRewind(SizeAsked')
      BY <3>1, <1>8, <1>9 DEF MustRewind
    <3>3. QED
      BY <3>2, <1>1
  <2>4. QED
    BY <1>2, <2>1, <2>2, <2>3 DEF ChaseInv, GapInv
<1>12. QED
  BY <1>1, <1>3, <1>4, <1>5, <1>10, <1>11, QuietFacts

LEMMA CleanupKeeps ==
  ASSUME IInv, Cleanup
  PROVE  IInv'
<1>1. /\ pc = "idle" /\ mapped /\ req' = 0 /\ pc' = "close"
      /\ written' = {} /\ word' = word /\ fresh' = fresh
      /\ UNCHANGED <<mapped, dma_low, dma_wrap, last, hooks, hooked, regulatorVars>>
  BY DEF Cleanup, NoWrite
<1>2. DriverInv /\ ChaseInv /\ TypeOK
  BY <1>1 DEF IInv
<1>3. Appending /\ Appending'
  BY <1>1 DEF Appending
<1>4. /\ dma_low' = dma_low /\ dma_wrap' = dma_wrap /\ last' = last /\ hooks' = hooks
      /\ hooked' = hooked /\ pos' = pos /\ phase' = phase /\ bp' = bp /\ seen' = seen
      /\ mapped' = mapped
  BY <1>1 DEF regulatorVars
<1>5. TypeOK'
  BY <1>1, <1>2, <1>4 DEF TypeOK
<1>6. Front' = Front /\ JumpUnit' = JumpUnit /\ Shown' = Shown
  BY <1>4 DEF Front, JumpUnit, Ceil, Shown
<1>7. /\ Kept = 2 * U /\ Kept' = 2 * U /\ Needed = 2 * U /\ Needed' = 2 * U
      /\ Added = 0 /\ Added' = 0
  BY <1>1 DEF Kept, Needed, Added
<1>8. AppendInv'
  BY <1>1, <1>2, <1>3, <1>4, <1>6, <1>7 DEF DriverInv, AppendInv
<1>9. GapInv'
  <2>1. ~ Wrapping /\ ~ Stopping /\ ~ Wrapping' /\ ~ Stopping'
    BY <1>1 DEF Wrapping, Stopping, Hooking
  <2>2. QED
    BY <1>1, <1>2, <1>4, <1>6, <1>7, <2>1 DEF ChaseInv, GapInv
<1>10. QED
  BY <1>1, <1>3, <1>4, <1>5, <1>8, <1>9, QuietFacts

LEMMA GiveUpKeeps ==
  ASSUME IInv, GiveUp
  PROVE  IInv'
<1>1. /\ pc = "fit" /\ pc' = "idle"
      /\ written' = {} /\ word' = word /\ fresh' = fresh
      /\ UNCHANGED <<req, mapped, dma_low, dma_wrap, last, hooks, hooked, regulatorVars>>
  BY DEF GiveUp, NoWrite
<1>2. DriverInv /\ ChaseInv /\ TypeOK /\ mapped
  BY <1>1 DEF IInv
<1>3. Appending /\ Appending'
  BY <1>1 DEF Appending
<1>4. /\ dma_low' = dma_low /\ dma_wrap' = dma_wrap /\ last' = last /\ hooks' = hooks
      /\ hooked' = hooked /\ pos' = pos /\ phase' = phase /\ bp' = bp /\ seen' = seen
      /\ mapped' = mapped /\ req' = req
  BY <1>1 DEF regulatorVars
<1>5. TypeOK'
  BY <1>1, <1>2, <1>4 DEF TypeOK
<1>6. Front' = Front /\ JumpUnit' = JumpUnit /\ Shown' = Shown
  BY <1>4 DEF Front, JumpUnit, Ceil, Shown
<1>7. /\ Kept = 2 * U /\ Kept' = 2 * U /\ Needed = SizeAsked + 4 * U /\ Needed' = 2 * U
      /\ Added = 0 /\ Added' = 0
  BY <1>1 DEF Kept, Needed, Added
<1>8. U \in Nat /\ SizeAsked \in Nat /\ dma_low \in Nat /\ High * U \in Nat
  BY <1>2, DataFacts
<1>9. AppendInv'
  <2>1. dma_low + Needed' <= High * U
    BY <1>2, <1>3, <1>7, <1>8 DEF DriverInv, AppendInv
  <2>2. QED
    BY <1>1, <1>2, <1>3, <1>4, <1>6, <1>7, <2>1 DEF DriverInv, AppendInv
<1>10. GapInv'
  <2>1. ~ Wrapping /\ ~ Stopping /\ ~ Wrapping' /\ ~ Stopping'
    BY <1>1 DEF Wrapping, Stopping, Hooking
  <2>2. QED
    BY <1>1, <1>2, <1>4, <1>6, <1>7, <2>1 DEF ChaseInv, GapInv
<1>11. QED
  BY <1>2, <1>3, <1>1, <1>4, <1>5, <1>9, <1>10, QuietFacts

(* What the address register shows. *)
LEMMA ReaderFacts ==
  ASSUME TypeOK
  PROVE  /\ HwAddr \in Nat /\ pos * U \in Nat /\ (pos + 1) * U = pos * U + U
         /\ Running => pos * U <= HwAddr /\ HwAddr <= pos * U + 1
         /\ ~ Running => HwAddr = (pos + 1) * U
         /\ pos > 0 \/ ~ ShowsStart => HwAddr > 0
         /\ phase = "word" => HwAddr = pos * U + 1
<1>1. U \in Nat /\ 3 <= U /\ pos \in Nat
  BY ConstantFacts, DataFacts
<1>2. pos * U \in Nat /\ (pos + 1) * U = pos * U + U
  BY <1>1
<1>3. pos > 0 => pos * U > 0
  <2>1. SUFFICES ASSUME pos > 0 PROVE pos * U > 0
    OBVIOUS
  <2>2. 0 \in Int /\ pos \in Int /\ 0 < pos /\ 0 * U = 0
    BY <1>1, <2>1
  <2>3. 0 * U + U <= pos * U
    BY <2>2, UnitOrder
  <2>4. QED
    BY <1>1, <1>2, <2>2, <2>3
<1>4. phase \in {"off", "enter", "body", "word", "paused", "stopped"}
  BY DEF TypeOK
<1>5. CASE phase = "enter"
  <2>1. Running
    BY <1>5 DEF Running
  <2>2. pos > 0 \/ ShowsStart => HwAddr = pos * U
    BY <1>5 DEF HwAddr
  <2>3. ~ (pos > 0 \/ ShowsStart) => HwAddr = pos * U + 1
    BY <1>5 DEF HwAddr
  <2>4. QED
    BY <2>1, <2>2, <2>3, <1>1, <1>2, <1>3, <1>5
<1>6. CASE phase \in {"body", "word"}
  BY <1>1, <1>2, <1>6 DEF HwAddr, Running
<1>7. CASE phase \in {"off", "paused", "stopped"}
  <2>1. HwAddr = (pos + 1) * U /\ ~ Running
    BY <1>7 DEF HwAddr, Running
  <2>2. QED
    BY <2>1, <1>1, <1>2, <1>7
<1>8. QED
  BY <1>4, <1>5, <1>6, <1>7

(* In the lap before, the regulator does not rest unless a hook is about   *)
(* to restart it: there is no pause between it and the jump.               *)
LEMMA AheadRuns ==
  ASSUME TypeOK, DriverInv, ChaseInv, ~ Wrapping, Ahead, ~ Hooking
  PROVE  Running
<1>1. End = JumpUnit /\ word[End] = Word("jump", JumpUnit)
  BY EndFacts DEF ChaseInv
<1>2. word[End].type = "jump"
  BY <1>1, WordFacts
<1>3. RegInv
  BY DEF ChaseInv
<1>4. phase \in {"off", "enter", "body", "word", "paused", "stopped"}
  BY DEF TypeOK
<1>5. QED
  BY <1>2, <1>3, <1>4, WordFacts DEF RegInv, Running

LEMMA ShownReader ==
  ASSUME TypeOK, DriverInv, ChaseInv, ~ Wrapping, Front <= Shown, ~ Hooking
  PROVE  /\ Reader \in Nat /\ Shown \in Nat /\ Shown * U \in Nat
         /\ Shown * U <= Reader /\ Reader <= Shown * U + 1
<1>1. U \in Nat /\ JumpUnit \in Nat /\ pos \in Nat
  BY DataFacts, DriverFacts DEF Units
<1>2. CASE seen = Now
  <2>1. Shown = pos /\ Reader = HwAddr
    BY <1>2 DEF Shown, Reader
  <2>2. Running
    BY <2>1, AheadRuns DEF Ahead
  <2>3. QED
    BY <2>1, <2>2, <1>1, ReaderFacts
<1>3. CASE seen # Now
  <2>1. Shown = JumpUnit /\ Reader = seen
    BY <1>3 DEF Shown, Reader
  <2>2. seen \in {JumpUnit * U, JumpUnit * U + 1}
    BY <1>3 DEF ChaseInv, SeenInv
  <2>3. JumpUnit * U \in Nat
    BY <1>1
  <2>4. QED
    BY <2>1, <2>2, <2>3, <1>1
<1>4. QED
  BY <1>2, <1>3

LEMMA FitKeeps ==
  ASSUME IInv, Fit
  PROVE  IInv'
<1>1. /\ pc = "fit" /\ pc' = "copy" /\ Clear(SizeAsked)
      /\ written' = {} /\ word' = word /\ fresh' = fresh
      /\ UNCHANGED <<req, mapped, dma_low, dma_wrap, last, hooks, hooked, regulatorVars>>
  BY DEF Fit, NoWrite
<1>2. DriverInv /\ ChaseInv /\ TypeOK /\ mapped
  BY <1>1 DEF IInv
<1>3. Appending /\ Appending'
  BY <1>1 DEF Appending
<1>4. /\ dma_low' = dma_low /\ dma_wrap' = dma_wrap /\ last' = last /\ hooks' = hooks
      /\ hooked' = hooked /\ pos' = pos /\ phase' = phase /\ bp' = bp /\ seen' = seen
      /\ mapped' = mapped /\ req' = req
  BY <1>1 DEF regulatorVars
<1>5. TypeOK'
  BY <1>1, <1>2, <1>4 DEF TypeOK
<1>6. /\ Front' = Front /\ JumpUnit' = JumpUnit /\ Shown' = Shown
      /\ SizeAsked' = SizeAsked
  BY <1>4 DEF Front, JumpUnit, Ceil, Shown, SizeAsked
<1>7. /\ Kept = 2 * U /\ Kept' = SizeAsked + Margin
      /\ Needed = SizeAsked + 4 * U /\ Needed' = SizeAsked + 4 * U
      /\ Added = 0 /\ Added' = 0
  BY <1>1, <1>6 DEF Kept, Needed, Added
<1>8. /\ U \in Nat /\ SizeAsked \in Nat /\ dma_low \in Nat /\ Margin \in Nat /\ 3 <= U
  BY <1>2, DataFacts, ConstantFacts
<1>9. AppendInv'
  BY <1>1, <1>2, <1>3, <1>4, <1>6, <1>7 DEF DriverInv, AppendInv
<1>10. GapInv'
  <2>1. ~ Wrapping /\ ~ Stopping /\ ~ Wrapping' /\ ~ Stopping' /\ ~ Hooking
    BY <1>1 DEF Wrapping, Stopping, Hooking
  <2>2. SUFFICES ASSUME Front <= Shown
        PROVE  /\ dma_low + SizeAsked + Margin <= Shown * U
               /\ dma_low + Kept' <= Shown * U
    BY <1>1, <1>2, <1>4, <1>6, <2>1 DEF ChaseInv, GapInv
  <2>3. /\ Reader \in Nat /\ Shown \in Nat /\ Shown * U \in Nat
        /\ Shown * U <= Reader /\ Reader <= Shown * U + 1
    BY <1>2, <2>1, <2>2, ShownReader
  <2>4. dma_low + 2 * U <= Shown * U
    BY <1>2, <1>7, <2>1, <2>2 DEF ChaseInv, GapInv
  <2>5. dma_low < Reader
    BY <2>3, <2>4, <1>8
  <2>6. dma_low + SizeAsked + Margin < Reader
    BY <1>1, <1>8, <2>3, <2>5 DEF Clear
  <2>7. QED
    BY <1>7, <1>8, <2>3, <2>6
<1>11. QED
  BY <1>1, <1>2, <1>3, <1>4, <1>5, <1>9, <1>10, QuietFacts

-----------------------------------------------------------------------------
(* A chain depends on the commands along it only. *)
LEMMA ChainKept ==
  ASSUME NEW w, NEW v, NEW lo \in Int, NEW hi \in Int, lo <= hi,
         \A u \in lo .. hi : v[u] = w[u], Chain(w, lo, hi)
  PROVE  Chain(v, lo, hi)
<1>1. v[hi] # None /\ v[hi].at = hi
  BY DEF Chain
<1>2. ASSUME NEW u \in lo .. hi - 1, v[u] # None
      PROVE  v[u].at \in u + 1 .. hi /\ v[v[u].at] # None
  <2>1. v[u] = w[u]
    OBVIOUS
  <2>2. w[u].at \in u + 1 .. hi /\ w[w[u].at] # None
    BY <1>2, <2>1 DEF Chain
  <2>3. w[u].at \in lo .. hi
    BY <2>2
  <2>4. v[w[u].at] = w[w[u].at]
    BY <2>3
  <2>5. QED
    BY <2>1, <2>2, <2>4
<1>3. QED
  BY <1>1, <1>2 DEF Chain

(* While the register lags, the regulator is at the start of the buffer,   *)
(* behind the driver.                                                      *)
LEMMA AheadSeesNow ==
  ASSUME TypeOK, DriverInv, ChaseInv, Ahead
  PROVE  seen = Now
<1>1. SUFFICES ASSUME seen # Now PROVE FALSE
  OBVIOUS
<1>2. ~ Wrapping /\ pos \in {0, 1} /\ Front <= JumpUnit
  BY <1>1 DEF ChaseInv, SeenInv
<1>3. last >= 1 /\ last < Front
  BY <1>1, <1>2, DriverFacts DEF ChaseInv, GapInv, Shown
<1>4. QED
  BY <1>2, <1>3, DataFacts DEF Ahead

(* Commands that are appended behind the last pause. *)
LEMMA AppendWrites ==
  ASSUME IInv, pc \in {"copy", "pad", "close"},
         NEW b \in Nat, dma_low < b, b <= High * U, dma_low' = b,
         NEW f, \A u \in DOMAIN f : f[u] \in Words,
         Write(UnitsOf(dma_low, b), f),
         Front <= Shown => b <= Shown * U,
         UNCHANGED <<req, mapped, dma_wrap, last, hooked, regulatorVars>>,
         ~ Wrapping', pc' \in {"pad", "close", "hook"}
  PROVE  /\ Front' = Ceil(b) /\ Front <= Front' /\ Front' \in Nat /\ last < Front
         /\ JumpUnit' = JumpUnit /\ Shown' = Shown
         /\ word' \in [Units -> Words] /\ fresh' \subseteq Units /\ written' \subseteq Units
         /\ \A u \in 0 .. last : word'[u] = word[u]
         /\ \A u \in last + 1 .. Front' - 1 : u \notin DOMAIN f => word'[u] = None
         /\ \A u \in UnitsOf(dma_low, b) \cap DOMAIN f : word'[u] = f[u]
         /\ LapInv' /\ StartInv' /\ SeenInv' /\ FreshInv' /\ LineInv' /\ RegInv'
         /\ written' \cap (fresh \cup (IF Running THEN {pos} ELSE {})) = {}
<1>1. /\ req' = req /\ mapped' = mapped /\ dma_wrap' = dma_wrap /\ last' = last
      /\ hooked' = hooked /\ pos' = pos /\ phase' = phase /\ bp' = bp /\ seen' = seen
  BY DEF regulatorVars
<1>2. DriverInv /\ ChaseInv /\ TypeOK
  BY DEF IInv
<1>3. /\ U \in Nat /\ dma_low \in Nat /\ last \in Nat /\ pos \in Nat /\ High \in Nat
      /\ last \in Units /\ pos \in Units
  BY <1>2, DataFacts DEF TypeOK
<1>4. Appending /\ ~ Wrapping /\ ~ Hooking /\ pc # "poll" /\ pc # "hook"
  BY DEF Appending, Wrapping, Hooking
<1>5. /\ last # 1 /\ dma_low = (last + 1) * U + Added
      /\ \A u \in last + 1 .. Front - 1 : word[u] = None
  BY <1>2, <1>4 DEF DriverInv, AppendInv
<1>. DEFINE fl == dma_low \div U
<1>6. /\ UnitsOf(dma_low, b) = fl .. Ceil(b) - 1
      /\ UnitsOf(dma_low, b) \ Begun = Front .. Ceil(b) - 1
      /\ Front <= Ceil(b) /\ Front \in Nat /\ Ceil(b) \in Nat
      /\ fl \in Front - 1 .. Front /\ fl \in Nat
  BY <1>3, WriteFacts
<1>7. last + 1 <= fl
  <2>1. Added \in Nat /\ last + 1 \in Int /\ (last + 1) * U \in Nat
    BY <1>2, <1>3, DataFacts
  <2>2. (last + 1) * U <= dma_low
    BY <1>5, <2>1
  <2>3. QED
    BY <1>3, <2>1, <2>2, UnitFacts
<1>. HIDE DEF fl
<1>8. last < Front
  BY <1>3, <1>6, <1>7
<1>9. Front' = Ceil(b) /\ JumpUnit' = JumpUnit /\ Shown' = Shown
  BY <1>1 DEF Front, JumpUnit, Shown
<1>10. Ceil(b) <= High
  BY <1>3, CeilFacts
<1>11. UnitsOf(dma_low, b) \subseteq Units
  BY <1>3, <1>6, <1>10 DEF Units
<1>12. /\ written' = Front .. Ceil(b) - 1
       /\ fresh' = fresh \cup (fl .. Ceil(b) - 1)
       /\ word' = [u \in Units |-> IF u \notin UnitsOf(dma_low, b) THEN word[u]
                                   ELSE IF u \in DOMAIN f THEN f[u] ELSE None]
  BY <1>6 DEF Write
<1>13. None \in Words
  BY <1>3, ConstantFacts DEF None, Words, Units
<1>14. word' \in [Units -> Words] /\ fresh' \subseteq Units /\ written' \subseteq Units
  <2>1. word \in [Units -> Words] /\ fresh \subseteq Units
    BY <1>2 DEF TypeOK
  <2>2. word' \in [Units -> Words]
    BY <1>12, <1>13, <2>1
  <2>3. fl .. Ceil(b) - 1 \subseteq Units /\ Front .. Ceil(b) - 1 \subseteq Units
    BY <1>6, <1>10, <1>3 DEF Units
  <2>4. QED
    BY <1>12, <2>1, <2>2, <2>3
<1>15. \A u \in Units : u < fl \/ Ceil(b) <= u => word'[u] = word[u]
  BY <1>6, <1>12 DEF Units
<1>16. \A u \in 0 .. last : word'[u] = word[u]
  <2>1. 0 .. last \subseteq Units
    BY <1>3 DEF Units
  <2>2. QED
    BY <2>1, <1>3, <1>6, <1>7, <1>15
<1>17. ASSUME NEW u \in last + 1 .. Front' - 1, u \notin DOMAIN f
       PROVE  word'[u] = None
  <2>1. u \in Units
    BY <1>3, <1>6, <1>9, <1>10 DEF Units
  <2>2. CASE u \in UnitsOf(dma_low, b)
    BY <2>1, <2>2, <1>12, <1>17
  <2>3. CASE u \notin UnitsOf(dma_low, b)
    <3>1. u \in last + 1 .. Front - 1
      BY <2>3, <1>3, <1>6, <1>9
    <3>2. QED
      BY <2>1, <2>3, <3>1, <1>5, <1>12
  <2>4. QED
    BY <2>2, <2>3
<1>18. \A u \in UnitsOf(dma_low, b) \cap DOMAIN f : word'[u] = f[u]
  BY <1>11, <1>12
<1>19. Ahead => Ceil(b) <= pos
  <2>1. SUFFICES ASSUME Ahead PROVE Ceil(b) <= pos
    OBVIOUS
  <2>2. Shown = pos
    BY <1>2, <2>1, AheadSeesNow DEF Shown
  <2>3. b <= pos * U
    BY <2>1, <2>2 DEF Ahead
  <2>4. QED
    BY <2>3, <1>3, CeilFacts
<1>20. Ahead' <=> Ahead
  BY <1>1, <1>3, <1>6, <1>9, <1>19 DEF Ahead
<1>21. ~ Trapped /\ ~ Trapped'
  BY <1>1, <1>5 DEF Trapped
<1>22. End' = End /\ (~ Ahead => End = last) /\ (Ahead => End = JumpUnit)
  BY <1>1, <1>4, <1>9, <1>20, <1>21 DEF End
<1>23. pos <= End /\ End \in Nat
  BY <1>2, EndFacts DEF ChaseInv, Units
<1>24. JumpUnit \in Nat /\ JumpUnit \in Units /\ word[0] # None /\ Chain(word, 0, last)
  BY <1>2, <1>4, DriverFacts DEF Units
<1>25. LapInv' /\ StartInv'
  <2>1. Chain(word', 0, last)
    BY <1>3, <1>16, <1>24, ChainKept
  <2>2. word'[0] = word[0]
    BY <1>3, <1>16
  <2>3. StartInv'
    BY <1>1, <1>24, <2>1, <2>2 DEF StartInv
  <2>4. QED
    BY <1>1, <1>2, <1>9, <2>3 DEF DriverInv, LapInv
<1>26. SeenInv'
  <2>1. seen # Now => Ceil(b) <= JumpUnit
    <3>1. SUFFICES ASSUME seen # Now PROVE Ceil(b) <= JumpUnit
      OBVIOUS
    <3>2. Front <= Shown /\ Shown = JumpUnit
      BY <1>2, <3>1 DEF ChaseInv, SeenInv, Shown
    <3>3. b <= JumpUnit * U
      BY <3>2
    <3>4. QED
      BY <3>3, <1>24, CeilFacts
  <2>2. QED
    BY <1>1, <1>2, <1>9, <2>1 DEF ChaseInv, SeenInv
<1>27. FreshInv'
  <2>1. fresh = (IF phase = "enter" THEN {pos} ELSE {}) \cup
                (IF Ahead THEN (pos + 1 .. JumpUnit) \cup (0 .. Front - 1)
                 ELSE pos + 1 .. Front - 1)
    BY <1>2 DEF ChaseInv, FreshInv
  <2>2. CASE Ahead
    <3>1. (0 .. Front - 1) \cup (fl .. Ceil(b) - 1) = 0 .. Ceil(b) - 1
      BY <1>6
    <3>2. fresh' = (IF phase = "enter" THEN {pos} ELSE {}) \cup
                   ((pos + 1 .. JumpUnit) \cup (0 .. Ceil(b) - 1))
      BY <1>12, <2>1, <2>2, <3>1
    <3>3. QED
      BY <1>1, <1>9, <1>20, <2>2, <3>2 DEF FreshInv
  <2>3. CASE ~ Ahead
    <3>1. (pos + 1 .. Front - 1) \cup (fl .. Ceil(b) - 1) = pos + 1 .. Ceil(b) - 1
      BY <1>3, <1>6, <1>7, <1>22, <1>23, <2>3
    <3>2. fresh' = (IF phase = "enter" THEN {pos} ELSE {}) \cup (pos + 1 .. Ceil(b) - 1)
      BY <1>12, <2>1, <2>3, <3>1
    <3>3. QED
      BY <1>1, <1>9, <1>20, <2>3, <3>2 DEF FreshInv
  <2>4. QED
    BY <2>2, <2>3
<1>28. \A u \in pos .. End : u \in Units /\ word'[u] = word[u]
  <2>1. End \in Units
    BY <1>3, <1>22, <1>24
  <2>2. pos .. End \subseteq Units
    BY <2>1, <1>3 DEF Units
  <2>3. CASE Ahead
    BY <2>2, <2>3, <1>3, <1>6, <1>15, <1>19
  <2>4. CASE ~ Ahead
    BY <2>2, <2>4, <1>3, <1>6, <1>7, <1>15, <1>22
  <2>5. QED
    BY <2>2, <2>3, <2>4
<1>29. LineInv'
  <2>1. Ahead => /\ Chain(word', pos, JumpUnit)
                 /\ word'[JumpUnit] = Word("jump", JumpUnit)
    <3>1. SUFFICES ASSUME Ahead
                   PROVE  /\ Chain(word', pos, JumpUnit)
                          /\ word'[JumpUnit] = Word("jump", JumpUnit)
      OBVIOUS
    <3>2. Chain(word, pos, JumpUnit) /\ word[JumpUnit] = Word("jump", JumpUnit)
      BY <1>2, <1>4, <3>1 DEF ChaseInv, LineInv
    <3>3. End = JumpUnit /\ pos <= JumpUnit
      BY <3>1, <1>22, <1>23
    <3>4. Chain(word', pos, JumpUnit)
      BY <3>2, <3>3, <1>3, <1>24, <1>28, ChainKept
    <3>5. QED
      BY <3>2, <3>3, <3>4, <1>3, <1>24, <1>28
  <2>2. pc' # "fill" /\ ~ (pc' = "hook" /\ (hooks = RewindHooks)')
    BY DEF Wrapping
  <2>3. QED
    BY <1>1, <1>9, <1>20, <1>22, <1>23, <2>1, <2>2 DEF LineInv
<1>30. RegInv'
  <2>1. Leads => Leads'
    BY <1>1, <1>3, <1>22, <1>23, <1>28 DEF Leads
  <2>2. word'[pos] = word[pos]
    BY <1>3, <1>23, <1>28
  <2>3. QED
    BY <1>1, <1>2, <1>4, <1>22, <2>1, <2>2 DEF ChaseInv, RegInv
<1>31. written' \cap (fresh \cup (IF Running THEN {pos} ELSE {})) = {}
  <2>1. fresh \subseteq (IF Ahead THEN (pos .. JumpUnit) \cup (0 .. Front - 1)
                         ELSE pos .. Front - 1)
    <3>1. fresh = (IF phase = "enter" THEN {pos} ELSE {}) \cup
                  (IF Ahead THEN (pos + 1 .. JumpUnit) \cup (0 .. Front - 1)
                   ELSE pos + 1 .. Front - 1)
      BY <1>2 DEF ChaseInv, FreshInv
    <3>2. CASE Ahead
      BY <3>1, <3>2, <1>3, <1>6, <1>22, <1>23, <1>24
    <3>3. CASE ~ Ahead
      BY <3>1, <3>3, <1>3, <1>6, <1>8, <1>22, <1>23
    <3>4. QED
      BY <3>2, <3>3
  <2>2. CASE Ahead
    BY <2>1, <2>2, <1>3, <1>6, <1>12, <1>19, <1>24
  <2>3. CASE ~ Ahead
    BY <2>1, <2>3, <1>3, <1>6, <1>8, <1>12, <1>22, <1>23
  <2>4. QED
    BY <2>2, <2>3
<1>32. QED
  BY <1>6, <1>8, <1>9, <1>14, <1>16, <1>17, <1>18, <1>25, <1>26, <1>27, <1>29, <1>30, <1>31

(* What the regulator has still to execute or is executing is left alone. *)
Spared == written' \cap (fresh \cup (IF Running THEN {pos} ELSE {})) = {}

(* The parts of the invariant about hooks are void while appending. *)
LEMMA NoHooks ==
  Appending => /\ EndInv /\ WaitInv /\ RewindInv /\ HooksInv
               /\ ~ Wrapping /\ ~ Hooking /\ ~ Stopping
BY DEF Appending, EndInv, WaitInv, RewindInv, HooksInv, Wrapping, Hooking, Stopping

LEMMA NoHooksNext ==
  Appending' => /\ EndInv' /\ WaitInv' /\ RewindInv' /\ HooksInv'
                /\ ~ Wrapping' /\ ~ Hooking' /\ ~ Stopping'
BY NoHooks, PTL

LEMMA CopyKeeps ==
  ASSUME IInv, Copy
  PROVE  IInv' /\ Spared
<1>1. /\ pc = "copy" /\ Write(UnitsOf(dma_low, dma_low + req), <<>>)
      /\ dma_low' = dma_low + req /\ pc' = IF req < U THEN "pad" ELSE "close"
      /\ UNCHANGED <<req, mapped, dma_wrap, last, hooks, hooked, regulatorVars>>
  BY DEF Copy
<1>2. DriverInv /\ ChaseInv /\ TypeOK /\ mapped
  BY <1>1 DEF IInv
<1>3. Appending /\ Appending'
  BY <1>1 DEF Appending
<1>4. /\ dma_wrap' = dma_wrap /\ last' = last /\ hooks' = hooks
      /\ hooked' = hooked /\ pos' = pos /\ phase' = phase /\ bp' = bp /\ seen' = seen
      /\ mapped' = mapped /\ req' = req
  BY <1>1 DEF regulatorVars
<1>5. /\ U \in Nat /\ 3 <= U /\ SizeAsked \in Nat /\ dma_low \in Nat /\ Margin \in Nat
      /\ req \in Nat /\ High * U \in Nat /\ pos \in Nat /\ last \in Nat
      /\ Sizes \subseteq Nat \ {0} /\ 5 * U + 1 <= Margin
  BY <1>2, DataFacts, ConstantFacts
<1>6. /\ hooks = <<>> /\ word[last] = Word("pause", last) /\ last # 1
      /\ dma_low = (last + 1) * U + 0
      /\ dma_low + (SizeAsked + 4 * U) <= High * U
      /\ req \in Sizes
  BY <1>1, <1>2, <1>3 DEF DriverInv, AppendInv, Added, Needed
<1>7. /\ req < U => SizeAsked = U + 1
      /\ ~ (req < U) => SizeAsked = req
      /\ SizeAsked' = SizeAsked /\ req # 0
  BY <1>4, <1>5, <1>6 DEF SizeAsked
<1>8. ~ Wrapping /\ ~ Stopping /\ ~ Wrapping' /\ ~ Stopping'
  BY <1>3, NoHooks, NoHooksNext
<1>9. Front <= Shown =>
        /\ last >= 1 /\ JumpUnit + 2 <= High /\ pos <= JumpUnit
        /\ dma_low + (SizeAsked + Margin) <= Shown * U
  BY <1>1, <1>2, <1>8 DEF ChaseInv, GapInv, Kept
<1>10. Front <= Shown => Shown \in Nat /\ Shown * U \in Nat
  <2>1. JumpUnit \in Nat
    BY <1>2, DriverFacts DEF Units
  <2>2. QED
    BY <2>1, <1>5 DEF Shown
<1>. DEFINE b == dma_low + req
<1>11. /\ b \in Nat /\ dma_low < b /\ b <= High * U
       /\ Front <= Shown => b <= Shown * U
  BY <1>5, <1>6, <1>7, <1>9, <1>10
<1>12. DOMAIN <<>> = {}
  OBVIOUS
<1>13. \A u \in DOMAIN <<>> : <<>>[u] \in Words
  BY <1>12
<1>14. Write(UnitsOf(dma_low, b), <<>>) /\ dma_low' = b
  BY <1>1
<1>15. UNCHANGED <<req, mapped, dma_wrap, last, hooked, regulatorVars>>
  BY <1>1
<1>16. pc \in {"copy", "pad", "close"} /\ pc' \in {"pad", "close", "hook"}
  BY <1>1
<1>. HIDE DEF b
<1>17. /\ Front' = Ceil(b) /\ Front <= Front' /\ Front' \in Nat /\ last < Front
       /\ JumpUnit' = JumpUnit /\ Shown' = Shown
       /\ word' \in [Units -> Words] /\ fresh' \subseteq Units /\ written' \subseteq Units
       /\ \A u \in 0 .. last : word'[u] = word[u]
       /\ \A u \in last + 1 .. Front' - 1 : u \notin DOMAIN <<>> => word'[u] = None
       /\ LapInv' /\ StartInv' /\ SeenInv' /\ FreshInv' /\ LineInv' /\ RegInv'
       /\ written' \cap (fresh \cup (IF Running THEN {pos} ELSE {})) = {}
  BY <1>8, <1>11, <1>13, <1>14, <1>15, <1>16, AppendWrites
<1>18. TypeOK'
  BY <1>1, <1>2, <1>4, <1>5, <1>11, <1>14, <1>17 DEF TypeOK
<1>19. /\ (req < U => Added' = req /\ Needed' = U + 1 - req + 4 * U
                      /\ Kept' = U + 1 - req + Margin)
       /\ (~ (req < U) => Added' = SizeAsked /\ Needed' = 4 * U /\ Kept' = Margin)
  BY <1>1, <1>4, <1>7 DEF Added, Needed, Kept
<1>20. AppendInv'
  <2>1. word'[last] = word[last]
    BY <1>5, <1>17
  <2>2. \A u \in last + 1 .. Front' - 1 : word'[u] = None
    BY <1>12, <1>17
  <2>3. (last + 1) * U \in Nat
    BY <1>5
  <2>4. dma_low' = (last + 1) * U + Added'
    BY <1>1, <1>5, <1>6, <1>7, <1>19, <2>3
  <2>5. dma_low' + Needed' <= High * U
    BY <1>1, <1>5, <1>6, <1>7, <1>19
  <2>6. pc' = "pad" => req < U
    BY <1>1
  <2>7. pc' # "jump"
    BY <1>1
  <2>8. QED
    BY <1>4, <1>6, <2>1, <2>2, <2>4, <2>5, <2>6, <2>7 DEF AppendInv
<1>21. GapInv'
  <2>1. SUFFICES ASSUME Front' <= Shown
        PROVE /\ last >= 1 /\ JumpUnit + 2 <= High /\ pos <= JumpUnit /\ pc' # "jump"
              /\ dma_low' + Kept' <= Shown * U
              /\ dma_low' + Margin <= Shown * U + 2 * U
    BY <1>4, <1>17 DEF GapInv
  <2>2. Front <= Shown
    <3>1. JumpUnit \in Nat /\ Front \in Nat
      BY <1>2, DriverFacts DEF Units
    <3>2. Shown \in Nat
      BY <3>1, <1>5 DEF Shown
    <3>3. QED
      BY <2>1, <3>1, <3>2, <1>17
  <2>3. dma_low' + Kept' <= Shown * U
    BY <2>2, <1>1, <1>5, <1>7, <1>9, <1>10, <1>19
  <2>4. dma_low' + Margin <= Shown * U + 2 * U
    BY <2>2, <1>1, <1>5, <1>7, <1>9, <1>10
  <2>5. QED
    BY <2>2, <2>3, <2>4, <1>1, <1>9
<1>22. QED
  BY <1>2, <1>3, <1>4, <1>17, <1>18, <1>20, <1>21, NoHooksNext
     DEF IInv, DriverInv, ChaseInv, Spared

LEMMA PadCacheKeeps ==
  ASSUME IInv, PadCache
  PROVE  IInv' /\ Spared
<1>. DEFINE b == dma_low + U - req + 1
<1>1. /\ pc = "pad" /\ Write(UnitsOf(dma_low, b), <<>>)
      /\ dma_low' = b /\ pc' = "close"
      /\ UNCHANGED <<req, mapped, dma_wrap, last, hooks, hooked, regulatorVars>>
  BY DEF PadCache
<1>2. DriverInv /\ ChaseInv /\ TypeOK /\ mapped
  BY <1>1 DEF IInv
<1>3. Appending /\ Appending'
  BY <1>1 DEF Appending
<1>4. /\ dma_wrap' = dma_wrap /\ last' = last /\ hooks' = hooks
      /\ hooked' = hooked /\ pos' = pos /\ phase' = phase /\ bp' = bp /\ seen' = seen
      /\ mapped' = mapped /\ req' = req
  BY <1>1 DEF regulatorVars
<1>5. /\ U \in Nat /\ 3 <= U /\ SizeAsked \in Nat /\ dma_low \in Nat /\ Margin \in Nat
      /\ req \in Nat /\ High * U \in Nat /\ pos \in Nat /\ last \in Nat
      /\ Sizes \subseteq Nat \ {0} /\ 5 * U + 1 <= Margin
  BY <1>2, DataFacts, ConstantFacts
<1>6. /\ hooks = <<>> /\ word[last] = Word("pause", last) /\ last # 1
      /\ dma_low = (last + 1) * U + req
      /\ dma_low + (U + 1 - req + 4 * U) <= High * U
      /\ req \in Sizes /\ req < U
  BY <1>1, <1>2, <1>3 DEF DriverInv, AppendInv, Added, Needed
<1>7. SizeAsked = U + 1 /\ SizeAsked' = SizeAsked /\ req # 0
  BY <1>4, <1>5, <1>6 DEF SizeAsked
<1>8. ~ Wrapping /\ ~ Stopping /\ ~ Wrapping' /\ ~ Stopping'
  BY <1>3, NoHooks, NoHooksNext
<1>9. Front <= Shown =>
        /\ last >= 1 /\ JumpUnit + 2 <= High /\ pos <= JumpUnit
        /\ dma_low + (U + 1 - req + Margin) <= Shown * U
  BY <1>1, <1>2, <1>8 DEF ChaseInv, GapInv, Kept
<1>10. JumpUnit \in Nat /\ Front \in Nat /\ Shown \in Nat /\ Shown * U \in Nat
  <2>1. JumpUnit \in Nat /\ Front \in Nat
    BY <1>2, DriverFacts DEF Units
  <2>2. Shown \in Nat
    BY <2>1, <1>5 DEF Shown
  <2>3. QED
    BY <2>1, <2>2, <1>5
<1>11. /\ b \in Nat /\ dma_low < b /\ b <= High * U
       /\ Front <= Shown => b <= Shown * U
  BY <1>5, <1>6, <1>9, <1>10
<1>12. DOMAIN <<>> = {}
  OBVIOUS
<1>13. \A u \in DOMAIN <<>> : <<>>[u] \in Words
  BY <1>12
<1>14. UNCHANGED <<req, mapped, dma_wrap, last, hooked, regulatorVars>>
  BY <1>1
<1>15. pc \in {"copy", "pad", "close"} /\ pc' \in {"pad", "close", "hook"}
  BY <1>1
<1>16. b = dma_low + U - req + 1
  OBVIOUS
<1>. HIDE DEF b
<1>17. /\ Front' = Ceil(b) /\ Front <= Front' /\ Front' \in Nat /\ last < Front
       /\ JumpUnit' = JumpUnit /\ Shown' = Shown
       /\ word' \in [Units -> Words] /\ fresh' \subseteq Units /\ written' \subseteq Units
       /\ \A u \in 0 .. last : word'[u] = word[u]
       /\ \A u \in last + 1 .. Front' - 1 : u \notin DOMAIN <<>> => word'[u] = None
       /\ LapInv' /\ StartInv' /\ SeenInv' /\ FreshInv' /\ LineInv' /\ RegInv'
       /\ written' \cap (fresh \cup (IF Running THEN {pos} ELSE {})) = {}
  BY <1>1, <1>8, <1>11, <1>13, <1>14, <1>15, AppendWrites
<1>18. TypeOK'
  BY <1>1, <1>2, <1>4, <1>5, <1>11, <1>17 DEF TypeOK
<1>19. Added' = SizeAsked /\ Needed' = 4 * U /\ Kept' = Margin
  BY <1>1, <1>4, <1>7 DEF Added, Needed, Kept
<1>20. AppendInv'
  <2>1. word'[last] = word[last]
    BY <1>5, <1>17
  <2>2. \A u \in last + 1 .. Front' - 1 : word'[u] = None
    BY <1>12, <1>17
  <2>3. (last + 1) * U \in Nat
    BY <1>5
  <2>4. dma_low' = (last + 1) * U + Added'
    BY <1>1, <1>5, <1>6, <1>7, <1>16, <1>19, <2>3
  <2>5. dma_low' + Needed' <= High * U
    BY <1>1, <1>5, <1>6, <1>7, <1>16, <1>19
  <2>6. pc' # "jump" /\ pc' # "pad"
    BY <1>1
  <2>7. QED
    BY <1>4, <1>6, <2>1, <2>2, <2>4, <2>5, <2>6 DEF AppendInv
<1>21. GapInv'
  <2>1. SUFFICES ASSUME Front' <= Shown
        PROVE /\ last >= 1 /\ JumpUnit + 2 <= High /\ pos <= JumpUnit /\ pc' # "jump"
              /\ dma_low' + Kept' <= Shown * U
              /\ dma_low' + Margin <= Shown * U + 2 * U
    BY <1>4, <1>17 DEF GapInv
  <2>2. Front <= Shown
    BY <2>1, <1>10, <1>17
  <2>3. dma_low' + Kept' <= Shown * U
    BY <2>2, <1>1, <1>5, <1>6, <1>9, <1>10, <1>16, <1>19
  <2>4. dma_low' + Margin <= Shown * U + 2 * U
    BY <2>2, <1>1, <1>5, <1>6, <1>9, <1>10, <1>16
  <2>5. QED
    BY <2>2, <2>3, <2>4, <1>1, <1>9
<1>22. QED
  BY <1>2, <1>3, <1>4, <1>17, <1>18, <1>20, <1>21, NoHooksNext
     DEF IInv, DriverInv, ChaseInv, Spared

LEMMA CloseKeeps ==
  ASSUME IInv, Close
  PROVE  IInv' /\ Spared
<1>. DEFINE b == AlignEnd(dma_low)
            e == LastUnit(dma_low)
            w == Word(IF req = 0 THEN "stop" ELSE "pause", e)
            f == [u \in {e} |-> w]
<1>1. /\ pc = "close" /\ dma_low' = b /\ pc' = "hook"
      /\ Write(UnitsOf(dma_low, b), f)
      /\ hooks' = <<Hook(w, w.at, IF req = 0 THEN "idle_wait" ELSE "idle")>>
      /\ UNCHANGED <<req, mapped, dma_wrap, last, hooked, regulatorVars>>
  BY DEF Close, Align
<1>2. DriverInv /\ ChaseInv /\ TypeOK /\ mapped
  BY <1>1 DEF IInv
<1>3. Appending
  BY <1>1 DEF Appending
<1>4. /\ dma_wrap' = dma_wrap /\ last' = last /\ hooked' = hooked
      /\ pos' = pos /\ phase' = phase /\ bp' = bp /\ seen' = seen
      /\ mapped' = mapped /\ req' = req
  BY <1>1 DEF regulatorVars
<1>5. /\ U \in Nat /\ 3 <= U /\ SizeAsked \in Nat /\ U <= SizeAsked /\ dma_low \in Nat
      /\ Margin \in Nat /\ req \in Nat /\ High * U \in Nat /\ pos \in Nat
      /\ last \in Nat /\ 5 * U + 1 <= Margin /\ High \in Nat /\ 12 < High
  BY <1>2, DataFacts, ConstantFacts
<1>6. /\ word[last] = Word("pause", last) /\ last # 1
      /\ dma_low = (last + 1) * U + Added
      /\ Added = IF req = 0 THEN 0 ELSE SizeAsked
      /\ dma_low + Needed <= High * U
      /\ Needed = IF req = 0 THEN 2 * U ELSE 4 * U
  BY <1>1, <1>2, <1>3 DEF DriverInv, AppendInv, Added, Needed
<1>7. ~ Wrapping /\ ~ Stopping
  BY <1>3, NoHooks
<1>8. Front <= Shown =>
        /\ last >= 1 /\ JumpUnit + 2 <= High /\ pos <= JumpUnit
        /\ dma_low + (IF req = 0 THEN 2 * U ELSE Margin) <= Shown * U
  <2>1. Kept = IF req = 0 THEN 2 * U ELSE Margin
    BY <1>1 DEF Kept
  <2>2. QED
    BY <2>1, <1>2, <1>7 DEF ChaseInv, GapInv
<1>9. JumpUnit \in Nat /\ Front \in Nat /\ Shown \in Nat /\ Shown * U \in Nat
  <2>1. JumpUnit \in Nat /\ Front \in Nat
    BY <1>2, DriverFacts DEF Units
  <2>2. Shown \in Nat
    BY <2>1, <1>5 DEF Shown
  <2>3. QED
    BY <2>1, <2>2, <1>5
<1>10. /\ e \in Nat /\ b \in Nat /\ b = (e + 1) * U
       /\ dma_low + 2 <= b /\ b <= dma_low + 1 + U
       /\ Ceil(b) = e + 1
       /\ \A k \in Int : dma_low = k * U => e = k
  BY <1>5, AlignFacts
<1>11. req = 0 => e = last + 1 /\ b = dma_low + U
  <2>1. SUFFICES ASSUME req = 0 PROVE e = last + 1 /\ b = dma_low + U
    OBVIOUS
  <2>2. (last + 1) * U \in Nat /\ last + 1 \in Int
    BY <1>5
  <2>3. dma_low = (last + 1) * U
    BY <2>1, <2>2, <1>6
  <2>4. e = last + 1
    BY <2>2, <2>3, <1>10
  <2>5. (last + 1 + 1) * U = (last + 1) * U + U
    BY <1>5
  <2>6. QED
    BY <2>3, <2>4, <2>5, <1>10
<1>12. b <= High * U /\ (Front <= Shown => b <= Shown * U)
  <2>1. CASE req = 0
    BY <2>1, <1>5, <1>6, <1>8, <1>9, <1>10, <1>11
  <2>2. CASE req # 0
    BY <2>2, <1>5, <1>6, <1>8, <1>9, <1>10
  <2>3. QED
    BY <2>1, <2>2
<1>13. last < e /\ e < High /\ (req # 0 => e # 1)
  <2>1. e < High
    <3>1. e + 1 \in Int /\ High \in Int
      BY <1>5, <1>10
    <3>2. (e + 1) * U <= High * U
      BY <1>10, <1>12
    <3>3. e + 1 <= High
      BY <3>1, <3>2, UnitOrder
    <3>4. QED
      BY <3>3, <1>5, <1>10
  <2>2. CASE req = 0
    BY <2>1, <2>2, <1>5, <1>11
  <2>3. CASE req # 0
    <3>1. (last + 2) * U = (last + 1) * U + U /\ (last + 1) * U \in Nat
      BY <1>5
    <3>2. (last + 2) * U < (e + 1) * U
      BY <2>3, <3>1, <1>5, <1>6, <1>10
    <3>3. last + 2 \in Int /\ e + 1 \in Int
      BY <1>5, <1>10
    <3>4. last + 2 < e + 1
      BY <3>2, <3>3, UnitOrder
    <3>5. QED
      BY <2>1, <3>4, <1>5, <1>10
  <2>4. QED
    BY <2>2, <2>3
<1>14. e \in Units
  BY <1>5, <1>10, <1>13 DEF Units
<1>. HIDE DEF b, e
<1>15. w \in Words /\ w.at = e /\ w # None /\ w.type # "none"
  BY <1>14, WordFacts DEF Words, Word
<1>. HIDE DEF w
<1>16. DOMAIN f = {e} /\ f[e] = w
  OBVIOUS
<1>17. \A u \in DOMAIN f : f[u] \in Words
  BY <1>15, <1>16
<1>. HIDE DEF f
<1>18. /\ Front' = e + 1 /\ JumpUnit' = JumpUnit /\ Shown' = Shown
  BY <1>1, <1>4, <1>10 DEF Front, JumpUnit, Shown
<1>19. hooks' = EndHooks' /\ EndWord' = w
  <2>1. EndWord' = w
    <3>1. Front' - 1 = e
      BY <1>10, <1>18
    <3>2. EndWord' = Word(IF req' = 0 THEN "stop" ELSE "pause", Front' - 1)
      BY DEF EndWord
    <3>3. QED
      BY <1>4, <3>1, <3>2 DEF w
  <2>2. Front' - 1 = e
    BY <1>10, <1>18
  <2>3. QED
    BY <2>1, <2>2, <1>1, <1>4, <1>15 DEF EndHooks
<1>20. hooks' # RewindHooks' /\ hooks' # TrapHooks'
  BY <1>19, HooksFactsNext
<1>21. ~ Wrapping' /\ ~ Hooking' /\ ~ Appending'
  BY <1>1, <1>20 DEF Wrapping, Hooking, Appending
<1>22. dma_low < b
  BY <1>5, <1>10
<1>23. /\ Front' = Ceil(b) /\ Front <= Front' /\ Front' \in Nat /\ last < Front
       /\ word' \in [Units -> Words] /\ fresh' \subseteq Units /\ written' \subseteq Units
       /\ \A u \in 0 .. last : word'[u] = word[u]
       /\ \A u \in last + 1 .. Front' - 1 : u \notin DOMAIN f => word'[u] = None
       /\ \A u \in UnitsOf(dma_low, b) \cap DOMAIN f : word'[u] = f[u]
       /\ LapInv' /\ StartInv' /\ SeenInv' /\ FreshInv' /\ LineInv' /\ RegInv'
       /\ written' \cap (fresh \cup (IF Running THEN {pos} ELSE {})) = {}
  <2>1. pc \in {"copy", "pad", "close"} /\ pc' \in {"pad", "close", "hook"}
    BY <1>1
  <2>2. UNCHANGED <<req, mapped, dma_wrap, last, hooked, regulatorVars>>
    BY <1>1
  <2>3. b \in Nat /\ dma_low' = b /\ b <= High * U /\ (Front <= Shown => b <= Shown * U)
    BY <1>1, <1>10, <1>12
  <2>4. Write(UnitsOf(dma_low, b), f)
    BY <1>1
  <2>5. QED
    BY <2>1, <2>2, <2>3, <2>4, <1>17, <1>21, <1>22, AppendWrites
<1>24. word'[e] = w
  <2>1. /\ UnitsOf(dma_low, b) = (dma_low \div U) .. Ceil(b) - 1
        /\ Front <= Ceil(b) /\ Front \in Nat
        /\ dma_low \div U \in Front - 1 .. Front /\ dma_low \div U \in Nat
    BY <1>5, <1>10, <1>22, WriteFacts
  <2>2. dma_low \div U <= e
    <3>1. dma_low \div U \in Int /\ dma_low % U \in 0 .. U - 1
          /\ dma_low = (dma_low \div U) * U + (dma_low % U)
      BY <1>5, Division
    <3>2. (dma_low \div U) * U < (e + 1) * U
      <4>1. (dma_low \div U) * U \in Int
        BY <3>1, <1>5
      <4>2. QED
        BY <3>1, <4>1, <1>5, <1>10
    <3>3. e + 1 \in Int
      BY <1>10
    <3>4. dma_low \div U < e + 1
      BY <3>1, <3>2, <3>3, UnitOrder
    <3>5. QED
      BY <3>1, <3>4, <1>10
  <2>3. e \in UnitsOf(dma_low, b)
    BY <2>1, <2>2, <1>10
  <2>4. QED
    BY <2>3, <1>16, <1>23
<1>25. TypeOK'
  <2>1. hooks' \in Seq([word : Words, end : Units, then : {"hook", "fit", "idle", "idle_wait"}])
        /\ Len(hooks') \in 0 .. 2
    <3>1. hooks' = <<Hook(w, e, IF req = 0 THEN "idle_wait" ELSE "idle")>>
      BY <1>1, <1>15
    <3>2. Hook(w, e, IF req = 0 THEN "idle_wait" ELSE "idle")
            \in [word : Words, end : Units, then : {"hook", "fit", "idle", "idle_wait"}]
      BY <1>14, <1>15 DEF Hook
    <3>3. QED
      BY <3>1, <3>2
  <2>2. dma_low' \in 0 .. High * U
    BY <1>1, <1>5, <1>10, <1>12
  <2>3. pc' = "hook"
    BY <1>1
  <2>4. QED
    BY <1>2, <1>4, <1>23, <2>1, <2>2, <2>3 DEF TypeOK
<1>26. EndInv'
  <2>1. dma_low' = Front' * U
    BY <1>1, <1>10, <1>18
  <2>2. dma_low' + (IF req = 0 THEN U ELSE 2 * U) <= High * U
    BY <1>1, <1>5, <1>6, <1>10, <1>11
  <2>3. e = Front' - 1 /\ word'[Front' - 1] = EndWord'
    BY <1>10, <1>18, <1>19, <1>24
  <2>4. req # 0 => Front' # 2
    BY <1>10, <1>13, <1>18
  <2>5. last < Front' - 1 /\ word'[last] = Word("pause", last) /\ last # 1
    BY <2>3, <1>5, <1>6, <1>13, <1>23
  <2>6. \A u \in last + 1 .. Front' - 2 : word'[u] = None
    <3>1. SUFFICES ASSUME NEW u \in last + 1 .. Front' - 2 PROVE word'[u] = None
      OBVIOUS
    <3>2. u \in last + 1 .. Front' - 1 /\ u # e
      BY <1>5, <1>10, <1>18
    <3>3. u \notin DOMAIN f
      BY <3>2, <1>16
    <3>4. QED
      BY <3>2, <3>3, <1>23
  <2>7. QED
    BY <2>1, <2>2, <2>3, <2>4, <2>5, <2>6, <1>4, <1>21 DEF EndInv
<1>27. AppendInv' /\ WaitInv' /\ HooksInv'
  BY <1>1, <1>19, <1>21 DEF AppendInv, WaitInv, HooksInv
<1>28. RewindInv'
  BY <1>1, <1>19, <1>20, <1>21 DEF RewindInv
<1>29. GapInv'
  <2>1. SUFFICES ASSUME Front' <= Shown
        PROVE /\ last >= 1 /\ JumpUnit + 2 <= High /\ pos <= JumpUnit /\ pc' # "jump"
              /\ req # 0 => /\ dma_low' + Kept' <= Shown * U
                            /\ dma_low' + Margin <= Shown * U + 2 * U
    <3>1. Stopping' <=> req = 0
      BY <1>1, <1>4 DEF Stopping
    <3>2. QED
      BY <3>1, <1>4, <1>18 DEF GapInv
  <2>2. Front <= Shown
    BY <2>1, <1>9, <1>23
  <2>3. Kept' = 2 * U
    BY <1>1 DEF Kept
  <2>4. req # 0 => /\ dma_low' + 2 * U <= Shown * U
                   /\ dma_low' + Margin <= Shown * U + 2 * U
    BY <2>2, <1>1, <1>5, <1>8, <1>9, <1>10
  <2>5. QED
    BY <2>2, <2>3, <2>4, <1>1, <1>8
<1>30. QED
  BY <1>2, <1>4, <1>23, <1>25, <1>26, <1>27, <1>28, <1>29
     DEF IInv, DriverInv, ChaseInv, Spared

-----------------------------------------------------------------------------
(* The waits that a step depends on do not end with a time-out, and the    *)
(* address register is not further off than the code allows for.           *)
Dependable ==
  /\ "bitblt" \notin Ignored /\ "poll" \notin Ignored /\ "idle_wait" \notin Ignored
  /\ StalePause = FALSE /\ ShowsStart = FALSE

LEMMA RewindJumpKeeps ==
  ASSUME IInv, RewindJump
  PROVE  IInv' /\ Spared
<1>. DEFINE b == AlignEnd(dma_low)
            e == LastUnit(dma_low)
            j == Word("jump", e)
            f == [u \in {e} |-> j]
<1>1. /\ pc = "jump" /\ pc' = "bitblt" /\ dma_low' = 0 /\ dma_wrap' = b
      /\ Write(UnitsOf(dma_low, b), f)
      /\ hooks' = <<Hook(j, 1, "hook"), Hook(Word("pause", 3), 3, "fit")>>
      /\ UNCHANGED <<req, mapped, last, hooked, regulatorVars>>
  BY DEF RewindJump, Align, WrapAt
<1>2. DriverInv /\ ChaseInv /\ TypeOK /\ mapped
  BY <1>1 DEF IInv
<1>3. Appending /\ ~ Appending'
  BY <1>1 DEF Appending
<1>4. /\ last' = last /\ hooked' = hooked
      /\ pos' = pos /\ phase' = phase /\ bp' = bp /\ seen' = seen
      /\ mapped' = mapped /\ req' = req
  BY <1>1 DEF regulatorVars
<1>5. /\ U \in Nat /\ 3 <= U /\ SizeAsked \in Nat /\ dma_low \in Nat
      /\ SizeAsked + 6 * U + Margin < High * U /\ Margin \in Nat
      /\ req \in Nat /\ High * U \in Nat /\ pos \in Nat
      /\ last \in Nat /\ 5 * U + 1 <= Margin /\ High \in Nat /\ 12 < High
      /\ Sizes \subseteq Nat \ {0}
  BY <1>2, DataFacts, ConstantFacts
<1>6. /\ word[last] = Word("pause", last) /\ last # 1 /\ req \in Sizes
      /\ dma_low = (last + 1) * U + 0
      /\ dma_low + 2 * U <= High * U /\ MustRewind(SizeAsked)
  BY <1>1, <1>2, <1>3 DEF DriverInv, AppendInv, Added, Needed
<1>7. ~ Wrapping /\ ~ Hooking /\ Wrapping' /\ ~ Hooking' /\ pc # "poll"
  BY <1>1 DEF Wrapping, Hooking
<1>8. ~ (Front <= Shown)
  BY <1>1, <1>2, <1>7 DEF ChaseInv, GapInv
<1>9. seen = Now
  BY <1>2, <1>8 DEF ChaseInv, SeenInv, Shown
<1>10. ~ Ahead
  BY <1>8, <1>9 DEF Ahead, Shown
<1>11. End = last /\ pos <= last
  <2>1. End = last
    BY <1>6, <1>7, <1>10 DEF End, Trapped
  <2>2. QED
    BY <2>1, <1>2, EndFacts DEF ChaseInv
<1>12. /\ last + 1 \in Int /\ (last + 1) * U \in Nat /\ dma_low = (last + 1) * U
       /\ (last + 2) * U = (last + 1) * U + U /\ (last + 3) * U = (last + 1) * U + 2 * U
  BY <1>5, <1>6
<1>13. e = last + 1 /\ b = (last + 2) * U /\ b \in Nat /\ Ceil(b) = last + 2
  <2>1. /\ b = (e + 1) * U /\ b \in Nat /\ Ceil(b) = e + 1
        /\ \A k \in Int : dma_low = k * U => e = k
    BY <1>5, AlignFacts
  <2>2. e = last + 1
    BY <2>1, <1>12
  <2>3. QED
    BY <2>1, <2>2, <1>5
<1>14. last + 3 <= High
  <2>1. (last + 3) * U <= High * U /\ last + 3 \in Int /\ High \in Int
    BY <1>5, <1>6, <1>12
  <2>2. QED
    BY <2>1, UnitOrder
<1>15. 7 <= last
  <2>1. 7 * U < (last + 1) * U
    BY <1>5, <1>6, <1>12 DEF MustRewind
  <2>2. 7 \in Int /\ last + 1 \in Int
    BY <1>5
  <2>3. 7 < last + 1
    BY <2>1, <2>2, UnitOrder
  <2>4. QED
    BY <2>3, <1>5
<1>. HIDE DEF b, e
<1>16. Front = last + 1
  BY <1>5, <1>12, CeilFacts DEF Front
<1>17. /\ UnitsOf(dma_low, b) = {last + 1}
       /\ UnitsOf(dma_low, b) \ Begun = {last + 1}
  <2>1. dma_low < b
    BY <1>5, <1>12, <1>13
  <2>2. /\ UnitsOf(dma_low, b) = (dma_low \div U) .. Ceil(b) - 1
        /\ UnitsOf(dma_low, b) \ Begun = Front .. Ceil(b) - 1
        /\ dma_low \div U \in Front - 1 .. Front /\ dma_low \div U \in Nat
    BY <1>5, <1>13, <2>1, WriteFacts
  <2>3. last + 1 <= dma_low \div U
    BY <1>5, <1>12, UnitFacts
  <2>4. dma_low \div U = last + 1 /\ Ceil(b) - 1 = last + 1
    BY <2>2, <2>3, <1>5, <1>13, <1>16
  <2>5. (last + 1) .. (last + 1) = {last + 1}
    BY <1>5
  <2>6. QED
    BY <2>2, <2>4, <2>5, <1>16
<1>18. last + 1 \in Units /\ j \in Words /\ j = Word("jump", last + 1)
  BY <1>5, <1>13, <1>14 DEF Units, Words, Word
<1>. HIDE DEF j
<1>19. DOMAIN f = {last + 1} /\ f[last + 1] = j
  BY <1>13
<1>. HIDE DEF f
<1>20. /\ written' = {last + 1} /\ fresh' = fresh \cup {last + 1}
       /\ word' = [u \in Units |-> IF u = last + 1 THEN j ELSE word[u]]
  BY <1>1, <1>17, <1>19 DEF Write
<1>21. word \in [Units -> Words] /\ fresh \subseteq Units
  BY <1>2 DEF TypeOK
<1>22. /\ word' \in [Units -> Words] /\ fresh' \subseteq Units /\ written' \subseteq Units
       /\ word'[last + 1] = j
       /\ \A u \in 0 .. last : word'[u] = word[u]
  <2>1. 0 .. last \subseteq Units
    BY <1>5, <1>14 DEF Units
  <2>2. \A u \in 0 .. last : u # last + 1
    BY <1>5
  <2>3. QED
    BY <2>1, <2>2, <1>18, <1>20, <1>21
<1>23. JumpUnit' = last + 1
  <2>1. last + 2 \in Int /\ b \in Int /\ (last + 2) * U <= b /\ b < (last + 2) * U + U
    BY <1>5, <1>12, <1>13
  <2>2. b \div U = last + 2
    BY <2>1, UnitOf
  <2>3. QED
    BY <2>2, <1>1, <1>5 DEF JumpUnit
<1>24. hooks' = RewindHooks'
  BY <1>1, <1>18, <1>23 DEF RewindHooks
<1>25. Front' = 0 /\ Ahead'
  <2>1. 0 \in Nat /\ 0 \in Int /\ 0 = 0 * U
    BY <1>5
  <2>2. Ceil(0) = 0
    BY <2>1, CeilFacts
  <2>3. QED
    BY <2>2, <1>1, <1>4, <1>5 DEF Front, Ahead
<1>26. End' = last /\ End' = End
  BY <1>4, <1>7, <1>11 DEF End
<1>27. TypeOK'
  <2>1. 1 \in Units /\ 3 \in Units
    BY <1>5 DEF Units
  <2>2. Word("pause", 3) \in Words
    BY <2>1 DEF Word, Words
  <2>3. /\ Hook(j, 1, "hook")
             \in [word : Words, end : Units, then : {"hook", "fit", "idle", "idle_wait"}]
        /\ Hook(Word("pause", 3), 3, "fit")
             \in [word : Words, end : Units, then : {"hook", "fit", "idle", "idle_wait"}]
    BY <2>1, <2>2, <1>18 DEF Hook
  <2>4. hooks' \in Seq([word : Words, end : Units, then : {"hook", "fit", "idle", "idle_wait"}])
        /\ Len(hooks') \in 0 .. 2
    BY <2>3, <1>1
  <2>5. dma_wrap' \in 0 .. High * U /\ dma_low' \in 0 .. High * U
    BY <1>1, <1>5, <1>6, <1>12, <1>13
  <2>6. QED
    BY <1>1, <1>2, <1>4, <1>22, <2>4, <2>5 DEF TypeOK
<1>28. RewindInv'
  <2>1. word'[JumpUnit'] = Word("jump", JumpUnit') /\ 7 <= JumpUnit' /\ JumpUnit' + 2 <= High
    BY <1>5, <1>14, <1>15, <1>18, <1>22, <1>23
  <2>2. last = JumpUnit' - 1 /\ word'[last] = Word("pause", last)
    BY <1>5, <1>6, <1>22, <1>23
  <2>3. pc' = "bitblt" /\ dma_low' = 0 /\ req' \in Sizes
    BY <1>1, <1>4, <1>6
  <2>4. QED
    BY <1>4, <1>7, <1>24, <2>1, <2>2, <2>3 DEF RewindInv
<1>29. AppendInv' /\ EndInv' /\ WaitInv' /\ HooksInv' /\ StartInv'
  BY <1>1, <1>3, <1>7 DEF AppendInv, EndInv, WaitInv, HooksInv, StartInv
<1>30. LapInv'
  <2>1. dma_wrap' = (JumpUnit' + 1) * U
    BY <1>1, <1>5, <1>13, <1>23
  <2>2. QED
    BY <2>1, <1>18, <1>23 DEF LapInv
<1>31. GapInv' /\ SeenInv'
  BY <1>4, <1>7, <1>9 DEF GapInv, SeenInv
<1>32. fresh = (IF phase = "enter" THEN {pos} ELSE {}) \cup (pos + 1 .. last)
  <2>1. Front - 1 = last
    BY <1>5, <1>16
  <2>2. QED
    BY <2>1, <1>2, <1>10 DEF ChaseInv, FreshInv
<1>33. FreshInv'
  <2>1. (pos + 1 .. last) \cup {last + 1} = (pos + 1 .. last + 1) \cup (0 .. 0 - 1)
    BY <1>5, <1>11
  <2>2. QED
    BY <2>1, <1>4, <1>20, <1>23, <1>25, <1>32 DEF FreshInv
<1>34. LineInv'
  <2>1. Chain(word, 0, last)
    BY <1>2, <1>7 DEF DriverInv, StartInv
  <2>2. Chain(word', 0, last)
    BY <2>1, <1>5, <1>22, ChainKept
  <2>3. Chain(word', pos, last)
    BY <2>2, <1>5 DEF Chain
  <2>4. QED
    BY <2>3, <1>1, <1>4, <1>7, <1>11, <1>26 DEF LineInv
<1>35. RegInv'
  <2>1. Leads => Leads'
    BY <1>4, <1>5, <1>11, <1>22, <1>26 DEF Leads
  <2>2. word'[pos] = word[pos]
    BY <1>5, <1>11, <1>22
  <2>3. QED
    BY <1>2, <1>4, <1>7, <1>26, <2>1, <2>2 DEF ChaseInv, RegInv
<1>36. Spared
  BY <1>5, <1>11, <1>20, <1>32 DEF Spared
<1>37. QED
  BY <1>2, <1>4, <1>27, <1>28, <1>29, <1>30, <1>31, <1>33, <1>34, <1>35, <1>36
     DEF IInv, DriverInv, ChaseInv

(* A write at the start of the buffer during a rewind, while the regulator *)
(* is beyond it.                                                           *)
LEMMA RewindWrites ==
  ASSUME IInv, Wrapping, Wrapping', 6 <= pos, Front' \in Nat, Front' <= 4,
         NEW k \in 0 .. 3, NEW f, \A u \in DOMAIN f : f[u] \in Words,
         Write({k}, f), (0 .. Front - 1) \cup {k} = 0 .. Front' - 1,
         ({k} \ Begun) \cap (0 .. Front - 1) = {},
         UNCHANGED <<req, mapped, dma_wrap, last, hooked, regulatorVars>>
  PROVE  /\ word' \in [Units -> Words] /\ fresh' \subseteq Units /\ written' \subseteq Units
         /\ \A u \in Units : u # k => word'[u] = word[u]
         /\ k \in DOMAIN f => word'[k] = f[k]
         /\ JumpUnit' = JumpUnit
         /\ word'[JumpUnit'] = word[JumpUnit] /\ word'[last] = word[last]
         /\ LapInv' /\ StartInv' /\ ChaseInv' /\ Spared
<1>1. /\ dma_wrap' = dma_wrap /\ last' = last /\ hooked' = hooked
      /\ pos' = pos /\ phase' = phase /\ bp' = bp /\ seen' = seen
      /\ mapped' = mapped /\ req' = req
  BY DEF regulatorVars
<1>2. TypeOK /\ mapped
  BY DEF IInv, Wrapping
<1>3. DriverInv /\ ChaseInv
  BY <1>2 DEF IInv
<1>4. /\ U \in Nat /\ pos \in Nat /\ last \in Nat /\ High \in Nat /\ 12 < High
      /\ last \in Units /\ pos \in Units
  BY <1>2, DataFacts, ConstantFacts DEF TypeOK
<1>5. /\ Front \in Nat /\ Front <= 4 /\ JumpUnit \in Units /\ JumpUnit \in Nat
      /\ last = JumpUnit - 1 /\ 7 <= JumpUnit
  BY <1>2, <1>3, DriverFacts DEF Units
<1>6. k \in Units
  BY <1>4 DEF Units
<1>7. /\ written' = {k} \ Begun /\ fresh' = fresh \cup {k}
      /\ word' = [u \in Units |-> IF u # k THEN word[u]
                                  ELSE IF u \in DOMAIN f THEN f[u] ELSE None]
  BY DEF Write
<1>8. None \in Words
  BY <1>4 DEF None, Words, Units
<1>9. word' \in [Units -> Words] /\ fresh' \subseteq Units /\ written' \subseteq Units
  BY <1>2, <1>6, <1>7, <1>8 DEF TypeOK
<1>10. \A u \in Units : u # k => word'[u] = word[u]
  BY <1>7
<1>11. k \in DOMAIN f => word'[k] = f[k]
  BY <1>6, <1>7
<1>12. \A u \in Units : 4 <= u => word'[u] = word[u]
  BY <1>4, <1>10 DEF Units
<1>13. JumpUnit' = JumpUnit
  BY <1>1 DEF JumpUnit
<1>14. word'[JumpUnit] = word[JumpUnit] /\ word'[last] = word[last]
  BY <1>4, <1>5, <1>12
<1>15. Ahead /\ Ahead' /\ End = last /\ End' = last
  BY <1>1, <1>4, <1>5 DEF Ahead, End
<1>16. pos <= last /\ Chain(word, pos, last)
  BY <1>3, <1>15 DEF ChaseInv, LineInv
<1>17. \A u \in pos .. last : u \in Units /\ word'[u] = word[u]
  BY <1>4, <1>12 DEF Units
<1>18. LineInv'
  <2>1. Chain(word', pos, last)
    BY <1>4, <1>16, <1>17, ChainKept
  <2>2. QED
    BY <2>1, <1>1, <1>15, <1>16 DEF LineInv
<1>19. RegInv'
  <2>1. Leads => Leads'
    BY <1>1, <1>4, <1>15, <1>17 DEF Leads
  <2>2. word'[pos] = word[pos]
    BY <1>4, <1>16, <1>17
  <2>3. pc # "poll" /\ ~ Hooking
    BY DEF Wrapping, Hooking
  <2>4. QED
    BY <1>1, <1>3, <1>15, <2>1, <2>2, <2>3 DEF ChaseInv, RegInv
<1>20. fresh = (IF phase = "enter" THEN {pos} ELSE {}) \cup
               ((pos + 1 .. JumpUnit) \cup (0 .. Front - 1))
  BY <1>3, <1>15 DEF ChaseInv, FreshInv
<1>21. FreshInv'
  <2>1. fresh' = (IF phase = "enter" THEN {pos} ELSE {}) \cup
                 ((pos + 1 .. JumpUnit) \cup (0 .. Front' - 1))
    BY <1>7, <1>20
  <2>2. QED
    BY <2>1, <1>1, <1>13, <1>15 DEF FreshInv
<1>22. GapInv' /\ SeenInv' /\ StartInv'
  BY <1>1, <1>3 DEF ChaseInv, SeenInv, GapInv, StartInv
<1>23. LapInv'
  BY <1>1, <1>3, <1>13 DEF DriverInv, LapInv
<1>24. Spared
  <2>1. k # pos /\ k \notin pos + 1 .. JumpUnit
    BY <1>4
  <2>2. QED
    BY <2>1, <1>7, <1>20 DEF Spared
<1>25. QED
  BY <1>9, <1>10, <1>11, <1>13, <1>14, <1>18, <1>19, <1>21, <1>22, <1>23, <1>24
     DEF ChaseInv

LEMMA RewindBitbltsKeeps ==
  ASSUME IInv, RewindBitblts, Dependable
  PROVE  IInv' /\ Spared
<1>1. /\ pc = "bitblt" /\ Waited(U) /\ pc' = "fill"
      /\ Write({0}, <<>>) /\ dma_low' = Bitblts
      /\ UNCHANGED <<req, mapped, dma_wrap, last, hooks, hooked, regulatorVars>>
  BY DEF RewindBitblts
<1>2. DriverInv /\ ChaseInv /\ TypeOK /\ mapped
  BY <1>1 DEF IInv
<1>3. /\ dma_wrap' = dma_wrap /\ last' = last /\ hooked' = hooked /\ hooks' = hooks
      /\ pos' = pos /\ phase' = phase /\ bp' = bp /\ seen' = seen
      /\ mapped' = mapped /\ req' = req
  BY <1>1 DEF regulatorVars
<1>4. /\ U \in Nat /\ 3 <= U /\ pos \in Nat /\ Margin \in Nat /\ 5 * U + 1 <= Margin
      /\ High * U \in Nat /\ U + 1 + 6 * U + Margin < High * U
      /\ Bitblts \in Nat /\ 1 <= Bitblts /\ Bitblts + 2 <= U
  BY <1>2, DataFacts, ConstantFacts
<1>5. Wrapping /\ Wrapping' /\ ~ Hooking /\ ~ Hooking' /\ ~ Appending'
  BY <1>1 DEF Wrapping, Hooking, Appending
<1>6. dma_low = 0 /\ Front = 0 /\ seen = Now
  <2>1. dma_low = 0
    BY <1>1, <1>2 DEF DriverInv, RewindInv
  <2>2. Front = 0
    BY <1>1, <1>2, <1>5, DriverFacts
  <2>3. seen = Now
    BY <1>2, <1>5 DEF ChaseInv, SeenInv
  <2>4. QED
    BY <2>1, <2>2, <2>3
<1>7. 6 <= pos
  <2>1. Clear(U)
    BY <1>1 DEF Waited, Dependable
  <2>2. Reader = HwAddr
    BY <1>6 DEF Reader
  <2>3. /\ HwAddr \in Nat /\ HwAddr > 0 /\ pos * U \in Nat
        /\ (pos + 1) * U = pos * U + U
        /\ HwAddr <= pos * U + 1 \/ HwAddr = (pos + 1) * U
    BY <1>2, ReaderFacts DEF Dependable
  <2>4. U + Margin < HwAddr
    BY <2>1, <2>2, <2>3, <1>4, <1>6 DEF Clear
  <2>5. 5 * U < pos * U
    BY <2>3, <2>4, <1>4
  <2>6. 5 \in Int /\ pos \in Int
    BY <1>4
  <2>7. 5 < pos
    BY <2>5, <2>6, UnitOrder
  <2>8. QED
    BY <2>7, <1>4
<1>8. Front' = 1
  <2>1. 0 \in Int /\ 1 \in Int /\ Bitblts <= 1 * U /\ ~ (Bitblts <= 0 * U)
    BY <1>4
  <2>2. Ceil(Bitblts) <= 1 /\ ~ (Ceil(Bitblts) <= 0) /\ Ceil(Bitblts) \in Nat
    BY <2>1, <1>4, CeilFacts
  <2>3. QED
    BY <2>2, <1>1 DEF Front
<1>9. DOMAIN <<>> = {}
  OBVIOUS
<1>10. \A u \in DOMAIN <<>> : <<>>[u] \in Words
  BY <1>9
<1>11. 0 \in 0 .. 3 /\ Front' \in Nat /\ Front' <= 4
  BY <1>8
<1>12. /\ (0 .. Front - 1) \cup {0} = 0 .. Front' - 1
       /\ ({0} \ Begun) \cap (0 .. Front - 1) = {}
  <2>1. 0 .. Front - 1 = {} /\ 0 .. Front' - 1 = {0}
    BY <1>6, <1>8
  <2>2. QED
    BY <2>1
<1>13. /\ word' \in [Units -> Words] /\ fresh' \subseteq Units /\ written' \subseteq Units
       /\ JumpUnit' = JumpUnit
       /\ word'[JumpUnit'] = word[JumpUnit] /\ word'[last] = word[last]
       /\ LapInv' /\ StartInv' /\ ChaseInv' /\ Spared
  <2>1. UNCHANGED <<req, mapped, dma_wrap, last, hooked, regulatorVars>>
    BY <1>1
  <2>2. QED
    BY <2>1, <1>1, <1>5, <1>7, <1>10, <1>11, <1>12, RewindWrites
<1>14. TypeOK'
  <2>1. dma_low' \in 0 .. High * U
    BY <1>1, <1>4
  <2>2. QED
    BY <2>1, <1>1, <1>2, <1>3, <1>13 DEF TypeOK
<1>15. RewindHooks' = RewindHooks
  BY <1>13 DEF RewindHooks
<1>16. RewindInv'
  <2>1. /\ hooks = RewindHooks /\ word[JumpUnit] = Word("jump", JumpUnit)
        /\ 7 <= JumpUnit /\ JumpUnit + 2 <= High
        /\ last = JumpUnit - 1 /\ word[last] = Word("pause", last)
        /\ req \in Sizes
    BY <1>2, <1>5 DEF DriverInv, RewindInv
  <2>2. Filled(0)'
    BY DEF Filled
  <2>3. \E k \in 0 .. 3 : dma_low' = (IF k = 0 THEN Bitblts ELSE k * U) /\ Filled(k)'
    BY <2>2, <1>1
  <2>4. QED
    BY <2>1, <2>3, <1>1, <1>3, <1>5, <1>13, <1>15 DEF RewindInv
<1>17. AppendInv' /\ EndInv' /\ WaitInv' /\ HooksInv'
  BY <1>1, <1>5 DEF AppendInv, EndInv, WaitInv, HooksInv
<1>18. QED
  BY <1>2, <1>3, <1>13, <1>14, <1>16, <1>17 DEF IInv, DriverInv

LEMMA RewindFillKeeps ==
  ASSUME IInv, RewindFill
  PROVE  IInv' /\ Spared
<1>. DEFINE b == AlignEnd(dma_low)
            e == LastUnit(dma_low)
            f == [u \in {e} |-> FillWord(e)]
<1>1. /\ pc = "fill" /\ Write(UnitsOf(dma_low, b), f) /\ dma_low' = b
      /\ pc' = IF e = 3 THEN "hook" ELSE "fill"
      /\ UNCHANGED <<req, mapped, dma_wrap, last, hooks, hooked, regulatorVars>>
  BY DEF RewindFill, Align
<1>2. DriverInv /\ ChaseInv /\ TypeOK /\ mapped
  BY <1>1 DEF IInv
<1>3. /\ dma_wrap' = dma_wrap /\ last' = last /\ hooked' = hooked /\ hooks' = hooks
      /\ pos' = pos /\ phase' = phase /\ bp' = bp /\ seen' = seen
      /\ mapped' = mapped /\ req' = req
  BY <1>1 DEF regulatorVars
<1>4. /\ U \in Nat /\ 3 <= U /\ pos \in Nat /\ dma_low \in Nat /\ High \in Nat /\ 12 < High
      /\ High * U \in Nat /\ U + 1 + 6 * U + Margin < High * U /\ Margin \in Nat
      /\ Bitblts \in Nat /\ 1 <= Bitblts /\ Bitblts + 2 <= U
  BY <1>2, DataFacts, ConstantFacts
<1>5. Wrapping /\ ~ Hooking /\ ~ Hooking' /\ ~ Appending'
  BY <1>1 DEF Wrapping, Hooking, Appending
<1>6. /\ hooks = RewindHooks /\ word[JumpUnit] = Word("jump", JumpUnit)
      /\ 7 <= JumpUnit /\ JumpUnit + 2 <= High
      /\ last = JumpUnit - 1 /\ word[last] = Word("pause", last)
      /\ req \in Sizes
  BY <1>2, <1>5 DEF DriverInv, RewindInv
<1>7. JumpUnit' = JumpUnit /\ RewindHooks' = RewindHooks /\ JumpUnit \in Nat
  BY <1>2, <1>3, DriverFacts DEF JumpUnit, RewindHooks, Units
<1>8. Wrapping'
  BY <1>1, <1>3, <1>6, <1>7 DEF Wrapping
<1>9. PICK k \in 0 .. 3 : dma_low = (IF k = 0 THEN Bitblts ELSE k * U) /\ Filled(k)
  BY <1>1, <1>2 DEF DriverInv, RewindInv
<1>10. k \in Nat /\ k * U \in Nat /\ (k + 1) * U = k * U + U /\ (k + 1) * U \in Nat
       /\ (k = 0 => k * U = 0)
  BY <1>4, <1>9
<1>11. /\ e = k /\ b = (k + 1) * U /\ b \in Nat /\ Ceil(b) = k + 1 /\ dma_low < b
  <2>1. /\ e \in Nat /\ b = (e + 1) * U /\ b \in Nat /\ Ceil(b) = e + 1
        /\ dma_low + 2 <= b /\ b <= dma_low + 1 + U
        /\ \A i \in Int : dma_low = i * U => e = i
    BY <1>4, AlignFacts
  <2>2. e = k
    <3>1. CASE k = 0
      <4>1. (e + 1) * U < 2 * U
        BY <3>1, <1>4, <1>9, <2>1
      <4>2. e + 1 \in Int /\ 2 \in Int
        BY <2>1
      <4>3. e + 1 < 2
        BY <4>1, <4>2, UnitOrder
      <4>4. QED
        BY <3>1, <4>3, <2>1
    <3>2. CASE k # 0
      BY <3>2, <1>9, <1>10, <2>1
    <3>3. QED
      BY <3>1, <3>2
  <2>3. dma_low < b
    BY <2>1, <1>4
  <2>4. QED
    BY <2>1, <2>2, <2>3
<1>. HIDE DEF b, e
<1>12. dma_low \div U = k
  <2>1. k * U <= dma_low /\ dma_low < k * U + U
    BY <1>4, <1>9, <1>10
  <2>2. QED
    BY <2>1, <1>4, <1>10, UnitOf
<1>13. Front = (IF k = 0 THEN 1 ELSE k) /\ Front' = k + 1
  <2>1. CASE k = 0
    <3>1. 0 \in Int /\ 1 \in Int /\ dma_low <= 1 * U /\ ~ (dma_low <= 0 * U)
      BY <2>1, <1>4, <1>9
    <3>2. Ceil(dma_low) <= 1 /\ ~ (Ceil(dma_low) <= 0) /\ Ceil(dma_low) \in Nat
      BY <3>1, <1>4, CeilFacts
    <3>3. QED
      BY <2>1, <3>2, <1>1, <1>11 DEF Front
  <2>2. CASE k # 0
    <3>1. Ceil(dma_low) = k
      BY <2>2, <1>4, <1>9, <1>10, CeilFacts
    <3>2. QED
      BY <2>2, <3>1, <1>1, <1>11 DEF Front
  <2>3. QED
    BY <2>1, <2>2
<1>14. /\ UnitsOf(dma_low, b) = {k}
       /\ ({k} \ Begun) \cap (0 .. Front - 1) = {}
  <2>1. /\ UnitsOf(dma_low, b) = (dma_low \div U) .. Ceil(b) - 1
        /\ UnitsOf(dma_low, b) \ Begun = Front .. Ceil(b) - 1
        /\ Front \in Nat
    BY <1>4, <1>11, WriteFacts
  <2>2. k .. k = {k}
    BY <1>10
  <2>3. UnitsOf(dma_low, b) = {k}
    BY <2>1, <2>2, <1>10, <1>11, <1>12
  <2>4. (Front .. Ceil(b) - 1) \cap (0 .. Front - 1) = {}
    BY <2>1, <1>10, <1>11
  <2>5. QED
    BY <2>1, <2>3, <2>4
<1>15. (0 .. Front - 1) \cup {k} = 0 .. Front' - 1
  <2>1. CASE k = 0
    <3>1. 0 .. Front - 1 = {0} /\ 0 .. Front' - 1 = {0}
      BY <2>1, <1>13
    <3>2. QED
      BY <2>1, <3>1
  <2>2. CASE k # 0
    <3>1. (0 .. k - 1) \cup {k} = 0 .. k
      BY <1>10
    <3>2. Front' - 1 = k /\ Front = k
      BY <2>2, <1>10, <1>13
    <3>3. QED
      BY <3>1, <3>2
  <2>3. QED
    BY <2>1, <2>2
<1>16. FillWord(e) \in Words
  <2>1. FillWord(e) = Word("pause", IF e \in {0, 2} THEN e + 1 ELSE e)
    BY DEF FillWord
  <2>2. (IF e \in {0, 2} THEN e + 1 ELSE e) \in Units
    BY <1>4, <1>9, <1>11 DEF Units
  <2>3. QED
    BY <2>1, <2>2 DEF Word, Words
<1>17. DOMAIN f = {k} /\ f[k] = FillWord(k)
  BY <1>11
<1>18. \A u \in DOMAIN f : f[u] \in Words
  BY <1>11, <1>16, <1>17
<1>. HIDE DEF f
<1>19. Front' \in Nat /\ Front' <= 4
  BY <1>9, <1>13
<1>20. 6 <= pos
  BY <1>1, <1>2 DEF ChaseInv, LineInv
<1>21. /\ word' \in [Units -> Words] /\ fresh' \subseteq Units /\ written' \subseteq Units
       /\ \A u \in Units : u # k => word'[u] = word[u]
       /\ k \in DOMAIN f => word'[k] = f[k]
       /\ word'[JumpUnit'] = word[JumpUnit] /\ word'[last] = word[last]
       /\ LapInv' /\ StartInv' /\ ChaseInv' /\ Spared
  <2>1. UNCHANGED <<req, mapped, dma_wrap, last, hooked, regulatorVars>>
    BY <1>1
  <2>2. Write({k}, f)
    BY <1>1, <1>14
  <2>3. ({k} \ Begun) \cap (0 .. Front - 1) = {}
    BY <1>14
  <2>4. QED
    BY <2>1, <2>2, <2>3, <1>5, <1>8, <1>15, <1>18, <1>19, <1>20, RewindWrites
<1>22. TypeOK'
  <2>1. dma_low' \in 0 .. High * U
    <3>1. (k + 1) * U <= 4 * U
      BY <1>9, <1>10, UnitOrder
    <3>2. QED
      BY <3>1, <1>1, <1>4, <1>10, <1>11
  <2>2. pc' \in {"hook", "fill"}
    BY <1>1
  <2>3. QED
    BY <2>1, <2>2, <1>2, <1>3, <1>21 DEF TypeOK
<1>23. \A u \in 0 .. k : word'[u] = FillWord(u)
  <2>1. \A u \in 0 .. k - 1 : word[u] = FillWord(u)
    BY <1>9 DEF Filled
  <2>2. \A u \in 0 .. k : u \in Units
    BY <1>4, <1>9 DEF Units
  <2>3. word'[k] = FillWord(k)
    BY <1>17, <1>21
  <2>4. \A u \in 0 .. k : u = k \/ u \in 0 .. k - 1
    BY <1>10
  <2>5. QED
    BY <2>1, <2>2, <2>3, <2>4, <1>21
<1>24. Filled(k + 1)'
  <2>1. k + 1 - 1 = k
    BY <1>10
  <2>2. QED
    BY <2>1, <1>23 DEF Filled
<1>25. hooks' # EndHooks' /\ hooks' # TrapHooks'
  BY <1>3, <1>6, <1>7, HooksFactsNext
<1>26. RewindInv'
  <2>1. pc' = "fill" => \E i \in 0 .. 3 : /\ dma_low' = (IF i = 0 THEN Bitblts ELSE i * U)
                                         /\ Filled(i)'
    <3>1. SUFFICES ASSUME pc' = "fill"
                   PROVE  \E i \in 0 .. 3 : /\ dma_low' = (IF i = 0 THEN Bitblts ELSE i * U)
                                            /\ Filled(i)'
      OBVIOUS
    <3>2. k + 1 \in 0 .. 3 /\ k + 1 # 0
      BY <3>1, <1>1, <1>9, <1>11
    <3>3. QED
      BY <3>2, <1>1, <1>11, <1>24
  <2>2. pc' = "hook" => dma_low' = 4 * U /\ Filled(4)'
    <3>1. pc' = "hook" => k = 3
      BY <1>1, <1>11
    <3>2. k = 3 => k + 1 = 4
      OBVIOUS
    <3>3. QED
      BY <3>1, <3>2, <1>1, <1>11, <1>24
  <2>3. pc' # "bitblt"
    BY <1>1
  <2>4. QED
    BY <2>1, <2>2, <2>3, <1>3, <1>5, <1>6, <1>7, <1>8, <1>21, <1>25 DEF RewindInv
<1>27. AppendInv' /\ EndInv' /\ WaitInv' /\ HooksInv'
  BY <1>1, <1>3, <1>5, <1>6, <1>7, <1>25 DEF AppendInv, EndInv, WaitInv, HooksInv
<1>28. QED
  BY <1>2, <1>3, <1>21, <1>22, <1>26, <1>27 DEF IInv, DriverInv

-----------------------------------------------------------------------------
(* What overwriting the last pause leaves as it was. *)
LEMMA HookFrame ==
  ASSUME IInv, HookWrite
  PROVE  /\ mapped /\ DriverInv /\ ChaseInv /\ TypeOK
         /\ pc = "hook" /\ pc' = "poll" /\ hooked' = last /\ last' = Head(hooks).end
         /\ word' = [word EXCEPT ![last] = Head(hooks).word]
         /\ word'[last] = Head(hooks).word
         /\ \A u \in Units : u # last => word'[u] = word[u]
         /\ req' = req /\ mapped' = mapped /\ dma_low' = dma_low /\ dma_wrap' = dma_wrap
         /\ hooks' = hooks /\ pos' = pos /\ phase' = phase /\ bp' = bp /\ seen' = seen
         /\ fresh' = fresh /\ written' = {}
         /\ Front' = Front /\ JumpUnit' = JumpUnit /\ Shown' = Shown
         /\ RewindHooks' = RewindHooks /\ TrapHooks' = TrapHooks
         /\ EndHooks' = EndHooks /\ EndWord' = EndWord
         /\ ~ Wrapping' /\ Hooking' /\ ~ Hooking /\ ~ Appending /\ ~ Appending'
         /\ (Stopping' <=> Stopping) /\ (Stopping <=> req = 0)
         /\ Kept' = 2 * U /\ Kept = 2 * U
         /\ (Ahead' <=> Ahead)
         /\ TypeOK' /\ LapInv' /\ FreshInv' /\ Spared
         /\ AppendInv' /\ WaitInv' /\ HooksInv'
<1>1. /\ pc = "hook" /\ pc' = "poll"
      /\ word' = [word EXCEPT ![last] = Head(hooks).word]
      /\ hooked' = last /\ last' = Head(hooks).end
      /\ written' = {} /\ fresh' = fresh
      /\ UNCHANGED <<req, mapped, dma_low, dma_wrap, hooks, regulatorVars>>
  BY DEF HookWrite
<1>2. DriverInv /\ ChaseInv /\ TypeOK /\ mapped
  BY <1>1 DEF IInv
<1>3. /\ req' = req /\ mapped' = mapped /\ dma_low' = dma_low /\ dma_wrap' = dma_wrap
      /\ hooks' = hooks /\ pos' = pos /\ phase' = phase /\ bp' = bp /\ seen' = seen
  BY <1>1 DEF regulatorVars
<1>4. /\ Front' = Front /\ JumpUnit' = JumpUnit /\ (Ahead' <=> Ahead)
  BY <1>3 DEF Front, JumpUnit, Ahead, Ceil
<1>5. /\ RewindHooks' = RewindHooks /\ TrapHooks' = TrapHooks
      /\ EndWord' = EndWord /\ EndHooks' = EndHooks /\ Shown' = Shown
  BY <1>3, <1>4 DEF RewindHooks, TrapHooks, EndWord, EndHooks, Shown
<1>6. ~ Wrapping' /\ Hooking' /\ ~ Hooking /\ ~ Appending /\ ~ Appending'
  BY <1>1 DEF Wrapping, Hooking, Appending
<1>7. (Stopping' <=> Stopping) /\ (Stopping <=> req = 0)
  BY <1>1, <1>3, <1>6 DEF Stopping
<1>8. Kept' = 2 * U /\ Kept = 2 * U
  BY <1>1 DEF Kept
<1>9. last \in Units /\ word \in [Units -> Words]
  BY <1>2 DEF TypeOK
<1>10. /\ word'[last] = Head(hooks).word
       /\ \A u \in Units : u # last => word'[u] = word[u]
  BY <1>1, <1>9
<1>11. hooks \in {RewindHooks, TrapHooks, EndHooks}
  BY <1>1, <1>2 DEF DriverInv, HooksInv
<1>12. Head(hooks) \in [word : Words, end : Units, then : {"hook", "fit", "idle", "idle_wait"}]
  <2>1. hooks # <<>>
    BY <1>11, HooksFacts
  <2>. DEFINE S == [word : Words, end : Units, then : {"hook", "fit", "idle", "idle_wait"}]
  <2>2. hooks \in Seq(S)
    BY <1>2 DEF TypeOK
  <2>. HIDE DEF S
  <2>3. Head(hooks) \in S
    BY <2>1, <2>2, HeadTailProperties
  <2>4. QED
    BY <2>3 DEF S
<1>13. TypeOK'
  <2>1. Head(hooks).word \in Words /\ Head(hooks).end \in Units
    BY <1>12
  <2>2. word' \in [Units -> Words]
    BY <2>1, <1>1, <1>9
  <2>3. QED
    BY <2>1, <2>2, <1>1, <1>2, <1>3 DEF TypeOK
<1>14. LapInv' /\ FreshInv' /\ Spared
  BY <1>1, <1>2, <1>3, <1>4 DEF DriverInv, ChaseInv, LapInv, FreshInv, Spared
<1>15. AppendInv' /\ WaitInv' /\ HooksInv'
  BY <1>1, <1>3, <1>5, <1>6, <1>11 DEF AppendInv, WaitInv, HooksInv
<1>16. QED
  BY <1>1, <1>2, <1>3, <1>4, <1>5, <1>6, <1>7, <1>8, <1>10, <1>13, <1>14, <1>15

(* Hooking what was appended. *)
LEMMA HookEndKeeps ==
  ASSUME IInv, HookWrite, hooks = EndHooks
  PROVE  IInv'
<1>1. /\ mapped /\ DriverInv /\ ChaseInv /\ TypeOK
      /\ pc = "hook" /\ pc' = "poll" /\ hooked' = last /\ last' = Head(hooks).end
      /\ word'[last] = Head(hooks).word
      /\ \A u \in Units : u # last => word'[u] = word[u]
      /\ req' = req /\ mapped' = mapped /\ dma_low' = dma_low
      /\ hooks' = hooks /\ pos' = pos /\ phase' = phase /\ bp' = bp /\ seen' = seen
      /\ Front' = Front /\ JumpUnit' = JumpUnit /\ Shown' = Shown
      /\ RewindHooks' = RewindHooks /\ TrapHooks' = TrapHooks
      /\ EndHooks' = EndHooks /\ EndWord' = EndWord
      /\ ~ Wrapping' /\ Hooking' /\ ~ Hooking /\ (Ahead' <=> Ahead)
      /\ (Stopping' <=> Stopping) /\ Kept' = 2 * U /\ Kept = 2 * U
      /\ TypeOK' /\ LapInv' /\ FreshInv' /\ AppendInv' /\ WaitInv' /\ HooksInv'
  BY HookFrame
<1>2. /\ dma_low = Front * U
      /\ dma_low + (IF req = 0 THEN U ELSE 2 * U) <= High * U
      /\ word[Front - 1] = EndWord
      /\ req # 0 => Front # 2
      /\ last < Front - 1 /\ word[last] = Word("pause", last) /\ last # 1
      /\ \A u \in last + 1 .. Front - 2 : word[u] = None
  BY <1>1 DEF DriverInv, EndInv
<1>3. Head(hooks).word = EndWord /\ Head(hooks).end = Front - 1
  BY HooksFacts
<1>4. hooks # RewindHooks /\ hooks # TrapHooks /\ ~ Wrapping
  BY <1>1, HooksFacts DEF Wrapping
<1>5. /\ Front \in Nat /\ last \in Nat /\ pos \in Nat /\ last \in Units /\ pos \in Units
      /\ JumpUnit \in Units /\ JumpUnit \in Nat /\ word[0] # None /\ Chain(word, 0, last)
      /\ High \in Nat
  <2>1. Front \in Nat /\ JumpUnit \in Units /\ word[0] # None /\ Chain(word, 0, last)
    BY <1>1, <1>4, DriverFacts
  <2>2. last \in Nat /\ pos \in Nat /\ High \in Nat
    BY <1>1, DataFacts
  <2>3. last \in Units /\ pos \in Units
    BY <1>1 DEF TypeOK
  <2>4. JumpUnit \in Nat
    BY <2>1, <2>2 DEF Units
  <2>5. QED
    BY <2>1, <2>2, <2>3, <2>4
<1>6. EndWord # None /\ EndWord.at = Front - 1 /\ EndWord.type # "jump"
  BY WordFacts DEF EndWord
<1>7. Front - 1 \in Units
  BY <1>1, <1>3 DEF TypeOK
<1>8. /\ word'[last] = EndWord /\ last' = Front - 1 /\ hooked' = last
      /\ word'[Front - 1] = EndWord
  BY <1>1, <1>2, <1>3, <1>5, <1>7
<1>9. EndInv'
  BY <1>1, <1>2, <1>8 DEF EndInv
<1>10. RewindInv'
  BY <1>1, <1>4 DEF RewindInv
<1>11. StartInv'
  <2>1. ASSUME NEW u \in 0 .. Front - 2, word'[u] # None
        PROVE  word'[u].at \in u + 1 .. Front - 1 /\ word'[word'[u].at] # None
    <3>1. u \in Units
      BY <1>5, <1>7 DEF Units
    <3>2. CASE u = last
      BY <3>2, <1>2, <1>5, <1>6, <1>8
    <3>3. CASE u < last
      <4>1. word'[u] = word[u] /\ u \in 0 .. last - 1
        BY <3>1, <3>3, <1>1, <1>5
      <4>2. word[u].at \in u + 1 .. last /\ word[word[u].at] # None
        BY <4>1, <2>1, <1>5 DEF Chain
      <4>3. word[u].at \in Units
        BY <4>2, <1>5 DEF Units
      <4>4. word'[word[u].at] # None
        BY <4>2, <4>3, <1>1, <1>6, <1>8
      <4>5. QED
        BY <4>1, <4>2, <4>4, <1>2, <1>5
    <3>4. CASE last < u
      <4>1. word'[u] = word[u] /\ u \in last + 1 .. Front - 2
        BY <3>1, <3>4, <1>1, <1>5
      <4>2. QED
        BY <4>1, <2>1, <1>2
    <3>5. QED
      BY <3>2, <3>3, <3>4, <1>5
  <2>2. Chain(word', 0, Front - 1)
    <3>1. Front - 1 - 1 = Front - 2
      BY <1>5
    <3>2. QED
      BY <2>1, <3>1, <1>6, <1>8 DEF Chain
  <2>3. word'[0] # None
    BY <1>1, <1>5, <1>6, <1>8 DEF Units
  <2>4. QED
    BY <2>2, <2>3, <1>8 DEF StartInv
<1>12. GapInv'
  <2>1. Front <= Shown => GapInv'
    <3>1. GapInv
      BY <1>1 DEF ChaseInv
    <3>2. Front - 1 >= 1
      BY <1>2, <1>5
    <3>3. pc' # "jump"
      BY <1>1
    <3>4. QED
      BY <3>1, <3>2, <3>3, <1>1, <1>4, <1>8 DEF GapInv
  <2>2. ~ (Front <= Shown) => GapInv'
    BY <1>1 DEF GapInv
  <2>3. QED
    BY <2>1, <2>2
<1>13. SeenInv'
  BY <1>1, <1>2 DEF ChaseInv, SeenInv
<1>14. /\ pos <= End /\ word[End] # None /\ word[End].at = End
       /\ Ahead => End = JumpUnit /\ word[End] = Word("jump", JumpUnit)
       /\ ~ Ahead => End = last
  <2>1. ~ Trapped
    BY <1>2 DEF Trapped
  <2>2. QED
    BY <2>1, <1>1, <1>4, EndFacts DEF ChaseInv, End
<1>15. /\ Ahead => End' = JumpUnit
       /\ ~ Ahead => End' = Front - 1
  <2>1. ~ Trapped'
    BY <1>1, <1>2, <1>5, <1>8 DEF Trapped
  <2>2. QED
    BY <2>1, <1>1, <1>8 DEF End
<1>16. Ahead => \A u \in pos .. JumpUnit : u \in Units /\ word'[u] = word[u]
  <2>1. SUFFICES ASSUME Ahead, NEW u \in pos .. JumpUnit
                 PROVE  u \in Units /\ word'[u] = word[u]
    OBVIOUS
  <2>2. u \in Units /\ last < u
    BY <2>1, <1>2, <1>5 DEF Ahead, Units
  <2>3. QED
    BY <2>2, <1>1, <1>5
<1>17. LineInv'
  <2>1. CASE Ahead
    <3>1. Chain(word, pos, JumpUnit) /\ word[JumpUnit] = Word("jump", JumpUnit)
      BY <2>1, <1>1, <1>4 DEF ChaseInv, LineInv
    <3>2. pos <= JumpUnit
      BY <2>1, <1>14
    <3>3. Chain(word', pos, JumpUnit)
      BY <2>1, <3>1, <3>2, <1>5, <1>16, ChainKept
    <3>4. word'[JumpUnit] = word[JumpUnit]
      BY <2>1, <3>2, <1>5, <1>16
    <3>5. QED
      BY <2>1, <3>1, <3>2, <3>3, <3>4, <1>1, <1>15 DEF LineInv
  <2>2. CASE ~ Ahead
    <3>1. pos <= Front - 1
      BY <2>2, <1>2, <1>5, <1>14
    <3>2. QED
      BY <2>2, <3>1, <1>1, <1>15 DEF LineInv
  <2>3. QED
    BY <2>1, <2>2
<1>18. RegInv'
  <2>1. RegInv
    BY <1>1 DEF ChaseInv
  <2>2. pos \in pos .. End
    BY <1>5, <1>14
  <2>3. Leads => Leads'
    <3>1. CASE Ahead
      BY <3>1, <1>1, <1>5, <1>14, <1>15, <1>16 DEF Leads
    <3>2. CASE ~ Ahead
      <4>1. SUFFICES ASSUME Leads PROVE Leads'
        OBVIOUS
      <4>2. bp.at \in pos + 1 .. last /\ word[bp.at] # None
        BY <3>2, <4>1, <1>14 DEF Leads
      <4>3. bp.at \in Units
        BY <4>2, <1>5 DEF Units
      <4>4. word'[bp.at] # None
        BY <4>2, <4>3, <1>1, <1>6, <1>8
      <4>5. bp.at \in pos + 1 .. Front - 1
        BY <4>2, <1>2, <1>5
      <4>6. QED
        BY <3>2, <4>4, <4>5, <1>1, <1>15 DEF Leads
    <3>3. QED
      BY <3>1, <3>2
  <2>4. word[pos] # None => word'[pos] # None
    BY <1>1, <1>5, <1>6, <1>8
  <2>5. phase \in {"enter", "body"} => word'[pos] # None \/ Leads'
    BY <2>1, <2>3, <2>4 DEF RegInv
  <2>6. CASE Ahead
    <3>1. word'[pos] = word[pos] /\ End' = End
      BY <2>6, <1>5, <1>14, <1>15, <1>16
    <3>2. ~ Hooking /\ pc # "poll"
      BY <1>1
    <3>3. QED
      BY <2>1, <2>3, <2>5, <3>1, <3>2, <1>1 DEF RegInv
  <2>7. CASE ~ Ahead
    <3>1. End = last
      BY <2>7, <1>14
    <3>2. pos = last /\ seen # Now => ~ (phase = "paused" \/ (phase = "word" /\ bp.at = last))
      <4>1. SUFFICES ASSUME pos = last, seen # Now
                     PROVE  ~ (phase = "paused" \/ (phase = "word" /\ bp.at = last))
        OBVIOUS
      <4>2. pos \in {0, 1} /\ Front <= Shown
        BY <4>1, <1>1 DEF ChaseInv, SeenInv, Shown
      <4>3. last >= 1
        BY <4>2, <1>1, <1>4 DEF ChaseInv, GapInv
      <4>4. QED
        BY <4>1, <4>2, <4>3, <1>2
    <3>3. phase = "word" => Leads' \/ (Missed' /\ bp = Word("pause", last))
      <4>1. SUFFICES ASSUME phase = "word", ~ Leads
                     PROVE  Missed' /\ bp = Word("pause", last)
        BY <2>3
      <4>2. pos = last /\ bp = Word("pause", last)
        BY <2>1, <3>1, <4>1, <1>1, <1>2 DEF RegInv
      <4>3. seen = Now
        BY <3>2, <4>1, <4>2, WordFacts
      <4>4. QED
        BY <4>2, <4>3, <1>1 DEF Missed
    <3>4. phase = "paused" => Missed'
      <4>1. SUFFICES ASSUME phase = "paused" PROVE Missed'
        OBVIOUS
      <4>2. pos = last
        BY <2>1, <3>1, <4>1, <1>1 DEF RegInv
      <4>3. QED
        BY <3>2, <4>1, <4>2, <1>1 DEF Missed
    <3>5. phase # "stopped"
      BY <2>1, <3>1, <1>2, WordFacts DEF RegInv
    <3>6. QED
      BY <2>1, <2>5, <3>3, <3>4, <3>5, <1>1 DEF RegInv
  <2>8. QED
    BY <2>6, <2>7
<1>19. QED
  BY <1>1, <1>9, <1>10, <1>11, <1>12, <1>13, <1>17, <1>18 DEF IInv, DriverInv, ChaseInv

(* Hooking the jump at the end of a lap. *)
LEMMA HookRewindKeeps ==
  ASSUME IInv, HookWrite, hooks = RewindHooks
  PROVE  IInv'
<1>1. /\ mapped /\ DriverInv /\ ChaseInv /\ TypeOK
      /\ pc = "hook" /\ pc' = "poll" /\ hooked' = last /\ last' = Head(hooks).end
      /\ word'[last] = Head(hooks).word
      /\ \A u \in Units : u # last => word'[u] = word[u]
      /\ req' = req /\ mapped' = mapped /\ dma_low' = dma_low
      /\ hooks' = hooks /\ pos' = pos /\ phase' = phase /\ bp' = bp /\ seen' = seen
      /\ Front' = Front /\ JumpUnit' = JumpUnit /\ Shown' = Shown
      /\ RewindHooks' = RewindHooks /\ TrapHooks' = TrapHooks
      /\ EndHooks' = EndHooks /\ EndWord' = EndWord
      /\ ~ Wrapping' /\ Hooking' /\ ~ Hooking /\ (Ahead' <=> Ahead)
      /\ (Stopping' <=> Stopping) /\ Kept' = 2 * U /\ Kept = 2 * U
      /\ TypeOK' /\ LapInv' /\ FreshInv' /\ AppendInv' /\ WaitInv' /\ HooksInv'
  BY HookFrame
<1>2. /\ Wrapping /\ hooks # TrapHooks /\ hooks # EndHooks
  BY <1>1, HooksFacts DEF Wrapping
<1>3. Head(hooks).word = Word("jump", JumpUnit) /\ Head(hooks).end = 1
  BY HooksFacts
<1>4. /\ word[JumpUnit] = Word("jump", JumpUnit)
      /\ 7 <= JumpUnit /\ JumpUnit + 2 <= High
      /\ last = JumpUnit - 1 /\ word[last] = Word("pause", last)
      /\ dma_low = 4 * U /\ Filled(4) /\ req \in Sizes
  BY <1>1, <1>2 DEF DriverInv, RewindInv
<1>5. /\ U \in Nat /\ High \in Nat /\ last \in Nat /\ pos \in Nat /\ 12 < High
      /\ last \in Units /\ pos \in Units /\ JumpUnit \in Units /\ JumpUnit \in Nat
  <2>1. U \in Nat /\ High \in Nat /\ last \in Nat /\ pos \in Nat /\ 12 < High
    BY <1>1, DataFacts, ConstantFacts
  <2>2. last \in Units /\ pos \in Units
    BY <1>1 DEF TypeOK
  <2>3. JumpUnit \in Units
    BY <1>1, DriverFacts
  <2>4. QED
    BY <2>1, <2>2, <2>3 DEF Units
<1>6. /\ Front = 4 /\ 6 <= pos /\ pos <= last /\ Chain(word, pos, last)
      /\ End = last /\ Ahead /\ seen = Now
  <2>1. Front = 4
    <3>1. 4 \in Int /\ dma_low \in Nat
      BY <1>1, DriverFacts
    <3>2. QED
      BY <3>1, <1>4, CeilFacts DEF Front
  <2>2. 6 <= pos /\ Chain(word, pos, last) /\ pos <= End /\ End = last
    BY <1>1, <1>2 DEF ChaseInv, LineInv, End
  <2>3. seen = Now
    BY <1>1, <1>2 DEF ChaseInv, SeenInv
  <2>4. Ahead
    BY <2>1, <2>2, <1>5 DEF Ahead
  <2>5. QED
    BY <2>1, <2>2, <2>3, <2>4
<1>7. End' = JumpUnit
  BY <1>1, <1>6 DEF End
<1>8. /\ word'[last] = Word("jump", JumpUnit) /\ word'[last] # None
      /\ word'[last].at = JumpUnit
      /\ last' = 1 /\ hooked' = JumpUnit - 1
  BY <1>1, <1>3, <1>4, WordFacts
<1>9. word'[JumpUnit] = word[JumpUnit]
  BY <1>1, <1>4, <1>5
<1>10. \A u \in 0 .. 3 : u \in Units /\ word'[u] = word[u]
  BY <1>1, <1>4, <1>5 DEF Units
<1>11. Filled(4)'
  <2>1. 4 - 1 = 3
    OBVIOUS
  <2>2. \A u \in 0 .. 3 : word[u] = FillWord(u)
    BY <2>1, <1>4 DEF Filled
  <2>3. \A u \in 0 .. 3 : word'[u] = FillWord(u)
    BY <2>2, <1>10
  <2>4. QED
    BY <2>1, <2>3 DEF Filled
<1>12. /\ word'[0] = Word("pause", 1) /\ word'[1] = Word("pause", 1)
  <2>1. 0 \in 0 .. 4 - 1 /\ 1 \in 0 .. 4 - 1
    OBVIOUS
  <2>2. word'[0] = FillWord(0) /\ word'[1] = FillWord(1)
    BY <2>1, <1>11 DEF Filled
  <2>3. QED
    BY <2>2 DEF FillWord
<1>13. StartInv'
  <2>1. /\ word'[0] # None /\ word'[1] # None
        /\ word'[0].at = 1 /\ word'[1].at = 1
    BY <1>12, WordFacts
  <2>2. \A u \in 0 .. 1 - 1 : u = 0
    OBVIOUS
  <2>3. Chain(word', 0, 1)
    BY <2>1, <2>2 DEF Chain
  <2>4. QED
    BY <2>1, <2>3, <1>8 DEF StartInv
<1>14. RewindInv'
  <2>1. word'[JumpUnit'] = Word("jump", JumpUnit')
    BY <1>1, <1>4, <1>9
  <2>2. QED
    BY <2>1, <1>1, <1>2, <1>4, <1>8, <1>11 DEF RewindInv
<1>15. EndInv'
  BY <1>1, <1>2 DEF EndInv
<1>16. GapInv'
  <2>1. Shown = pos
    BY <1>6 DEF Shown
  <2>2. 6 * U <= pos * U /\ pos * U \in Int /\ 6 \in Int /\ 6 * U = 4 * U + 2 * U
    BY <1>5, <1>6, UnitOrder
  <2>3. dma_low + 2 * U <= pos * U
    BY <2>2, <1>4, <1>5
  <2>4. last' >= 1 /\ pos <= JumpUnit /\ pc' # "jump"
    BY <1>1, <1>4, <1>5, <1>6, <1>8
  <2>5. QED
    BY <2>1, <2>3, <2>4, <1>1, <1>4 DEF GapInv
<1>17. SeenInv'
  BY <1>1, <1>6 DEF SeenInv
<1>18. LineInv'
  <2>1. ASSUME NEW u \in pos .. JumpUnit - 1, word'[u] # None
        PROVE  word'[u].at \in u + 1 .. JumpUnit /\ word'[word'[u].at] # None
    <3>1. CASE u = last
      BY <3>1, <1>4, <1>5, <1>8, <1>9, WordFacts
    <3>2. CASE u # last
      <4>1. u \in pos .. last - 1 /\ u \in Units
        BY <3>2, <1>4, <1>5 DEF Units
      <4>2. word'[u] = word[u]
        BY <3>2, <4>1, <1>1
      <4>3. word[u].at \in u + 1 .. last /\ word[word[u].at] # None
        BY <4>1, <4>2, <2>1, <1>6 DEF Chain
      <4>4. word[u].at \in Units
        BY <4>1, <4>3, <1>5 DEF Units
      <4>5. word'[word[u].at] # None
        BY <4>3, <4>4, <1>1, <1>8
      <4>6. word[u].at \in u + 1 .. JumpUnit
        BY <4>1, <4>3, <1>4, <1>5
      <4>7. QED
        BY <4>2, <4>5, <4>6
    <3>3. QED
      BY <3>1, <3>2
  <2>2. word'[JumpUnit] = Word("jump", JumpUnit)
    BY <1>4, <1>9
  <2>3. Chain(word', pos, JumpUnit)
    BY <2>1, <2>2, WordFacts DEF Chain
  <2>4. pos <= JumpUnit
    BY <1>4, <1>5, <1>6
  <2>5. QED
    BY <2>2, <2>3, <2>4, <1>1, <1>6, <1>7 DEF LineInv
<1>19. RegInv'
  <2>1. RegInv
    BY <1>1 DEF ChaseInv
  <2>2. Leads => Leads'
    <3>1. SUFFICES ASSUME Leads PROVE Leads'
      OBVIOUS
    <3>2. bp.at \in pos + 1 .. last /\ word[bp.at] # None
      BY <3>1, <1>6 DEF Leads
    <3>3. bp.at \in Units
      BY <3>2, <1>5 DEF Units
    <3>4. word'[bp.at] # None
      BY <3>2, <3>3, <1>1, <1>8
    <3>5. bp.at \in pos + 1 .. JumpUnit
      BY <3>2, <1>4, <1>5
    <3>6. QED
      BY <3>4, <3>5, <1>1, <1>7 DEF Leads
  <2>3. word[pos] # None => word'[pos] # None
    BY <1>1, <1>5, <1>8
  <2>4. phase \in {"enter", "body"} => word'[pos] # None \/ Leads'
    BY <2>1, <2>2, <2>3 DEF RegInv
  <2>5. pos = last => Missed'
    BY <1>1, <1>6 DEF Missed
  <2>6. phase = "word" => Leads' \/ (Missed' /\ bp = Word("pause", last))
    BY <2>1, <2>2, <2>5, <1>1, <1>4, <1>6 DEF RegInv
  <2>7. phase = "paused" => Missed'
    BY <2>1, <2>5, <1>1, <1>6 DEF RegInv
  <2>8. phase # "stopped"
    BY <2>1, <1>4, <1>6, WordFacts DEF RegInv
  <2>9. QED
    BY <2>1, <2>4, <2>6, <2>7, <2>8, <1>1 DEF RegInv
<1>20. QED
  BY <1>1, <1>13, <1>14, <1>15, <1>16, <1>17, <1>18, <1>19 DEF IInv, DriverInv, ChaseInv

(* Hooking the pause behind the trap. *)
LEMMA HookTrapKeeps ==
  ASSUME IInv, HookWrite, hooks = TrapHooks, Dependable
  PROVE  IInv'
<1>1. /\ mapped /\ DriverInv /\ ChaseInv /\ TypeOK
      /\ pc = "hook" /\ pc' = "poll" /\ hooked' = last /\ last' = Head(hooks).end
      /\ word'[last] = Head(hooks).word
      /\ \A u \in Units : u # last => word'[u] = word[u]
      /\ req' = req /\ mapped' = mapped /\ dma_low' = dma_low
      /\ hooks' = hooks /\ pos' = pos /\ phase' = phase /\ bp' = bp /\ seen' = seen
      /\ Front' = Front /\ JumpUnit' = JumpUnit /\ Shown' = Shown
      /\ RewindHooks' = RewindHooks /\ TrapHooks' = TrapHooks
      /\ EndHooks' = EndHooks /\ EndWord' = EndWord
      /\ ~ Wrapping' /\ Hooking' /\ ~ Hooking /\ (Ahead' <=> Ahead)
      /\ (Stopping' <=> Stopping) /\ Kept' = 2 * U /\ Kept = 2 * U
      /\ TypeOK' /\ LapInv' /\ FreshInv' /\ AppendInv' /\ WaitInv' /\ HooksInv'
  BY HookFrame
<1>2. /\ ~ Wrapping /\ hooks # RewindHooks /\ hooks # EndHooks
  BY <1>1, HooksFacts DEF Wrapping
<1>3. /\ Head(hooks).word = Word("pause", 3) /\ Head(hooks).end = 3
      /\ Head(hooks).then = "fit"
  BY HooksFacts
<1>4. seen = Now
  BY <1>3 DEF HookWrite, Dependable
<1>5. /\ last = 1 /\ dma_low = 4 * U /\ Filled(4) /\ req \in Sizes
  BY <1>1, <1>2 DEF DriverInv, RewindInv
<1>6. /\ U \in Nat /\ High \in Nat /\ pos \in Nat /\ 12 < High
      /\ pos \in Units /\ JumpUnit \in Units /\ JumpUnit \in Nat
  <2>1. U \in Nat /\ High \in Nat /\ pos \in Nat /\ 12 < High
    BY <1>1, DataFacts, ConstantFacts
  <2>2. pos \in Units
    BY <1>1 DEF TypeOK
  <2>3. JumpUnit \in Units
    BY <1>1, DriverFacts
  <2>4. QED
    BY <2>1, <2>2, <2>3 DEF Units
<1>7. Front = 4
  <2>1. 4 \in Int /\ dma_low \in Nat
    BY <1>1, DriverFacts
  <2>2. QED
    BY <2>1, <1>5, CeilFacts DEF Front
<1>8. /\ word[0] = Word("pause", 1) /\ word[1] = Word("pause", 1)
      /\ word[2] = Word("pause", 3) /\ word[3] = Word("pause", 3)
  <2>1. 0 \in 0 .. 4 - 1 /\ 1 \in 0 .. 4 - 1 /\ 2 \in 0 .. 4 - 1 /\ 3 \in 0 .. 4 - 1
    OBVIOUS
  <2>2. /\ word[0] = FillWord(0) /\ word[1] = FillWord(1)
        /\ word[2] = FillWord(2) /\ word[3] = FillWord(3)
    BY <2>1, <1>5 DEF Filled
  <2>3. QED
    BY <2>2 DEF FillWord
<1>9. 0 \in Units /\ 1 \in Units /\ 2 \in Units /\ 3 \in Units
  BY <1>6 DEF Units
<1>10. /\ word'[0] = Word("pause", 1) /\ word'[1] = Word("pause", 3)
       /\ word'[2] = Word("pause", 3) /\ word'[3] = Word("pause", 3)
       /\ last' = 3 /\ hooked' = 1
  BY <1>1, <1>3, <1>5, <1>8, <1>9
<1>11. \A u \in Units : word[u] # None => word'[u] # None
  BY <1>1, <1>5, <1>10, WordFacts
<1>12. StartInv'
  <2>1. /\ word'[0] # None /\ word'[1] # None /\ word'[2] # None /\ word'[3] # None
        /\ word'[0].at = 1 /\ word'[1].at = 3 /\ word'[2].at = 3 /\ word'[3].at = 3
    BY <1>10, WordFacts
  <2>2. \A u \in 0 .. 3 - 1 : u = 0 \/ u = 1 \/ u = 2
    OBVIOUS
  <2>3. Chain(word', 0, 3)
    BY <2>1, <2>2 DEF Chain
  <2>4. QED
    BY <2>1, <2>3, <1>10 DEF StartInv
<1>13. RewindInv'
  BY <1>1, <1>2, <1>5, <1>10 DEF RewindInv
<1>14. EndInv'
  BY <1>1, <1>2 DEF EndInv
<1>15. GapInv'
  <2>1. GapInv
    BY <1>1 DEF ChaseInv
  <2>2. last' >= 1 /\ pc' # "jump"
    BY <1>1, <1>10
  <2>3. QED
    BY <2>1, <2>2, <1>1, <1>2 DEF GapInv
<1>16. SeenInv'
  BY <1>1, <1>4 DEF SeenInv
<1>17. RegInv
  BY <1>1 DEF ChaseInv
<1>18. CASE Ahead
  <2>1. /\ End = JumpUnit /\ End' = JumpUnit /\ pos <= JumpUnit /\ 4 <= pos
        /\ Chain(word, pos, JumpUnit) /\ word[JumpUnit] = Word("jump", JumpUnit)
    BY <1>1, <1>2, <1>7, <1>18 DEF ChaseInv, LineInv, End, Ahead
  <2>2. \A u \in pos .. JumpUnit : u \in Units /\ word'[u] = word[u]
    BY <2>1, <1>1, <1>5, <1>6 DEF Units
  <2>3. Chain(word', pos, JumpUnit)
    BY <2>1, <2>2, <1>6, ChainKept
  <2>4. word'[JumpUnit] = word[JumpUnit] /\ word'[pos] = word[pos]
    BY <2>1, <2>2, <1>6
  <2>5. LineInv'
    BY <2>1, <2>3, <2>4, <1>1, <1>18 DEF LineInv
  <2>6. Leads => Leads'
    BY <2>1, <2>2, <1>1, <1>6 DEF Leads
  <2>7. RegInv'
    BY <2>1, <2>4, <2>6, <1>1, <1>17 DEF RegInv
  <2>8. QED
    BY <2>5, <2>7, <1>1, <1>12, <1>13, <1>14, <1>15, <1>16
       DEF IInv, DriverInv, ChaseInv
<1>19. CASE ~ Ahead
  <2>1. End' = 3
    BY <1>1, <1>10, <1>19 DEF End, Trapped
  <2>2. req # 0
    BY <1>5, ConstantFacts
  <2>3. (pos \in {2, 3} /\ End = 3) \/ (pos \in {0, 1} /\ End = 1)
    <3>1. pos <= End
      BY <1>1 DEF ChaseInv, LineInv
    <3>2. End = IF pos \in {2, 3} THEN 3 ELSE 1
      BY <2>2, <1>2, <1>5, <1>19 DEF End, Trapped
    <3>3. QED
      BY <3>1, <3>2, <1>6
  <2>4. pos <= 3
    BY <2>3
  <2>5. LineInv'
    BY <2>1, <2>4, <1>1, <1>19 DEF LineInv
  <2>6. Leads => Leads'
    <3>1. SUFFICES ASSUME Leads PROVE Leads'
      OBVIOUS
    <3>2. bp.at \in pos + 1 .. End /\ word[bp.at] # None
      BY <3>1 DEF Leads
    <3>3. bp.at \in pos + 1 .. 3 /\ bp.at \in Units
      BY <3>2, <2>3, <1>6 DEF Units
    <3>4. QED
      BY <3>2, <3>3, <2>1, <1>1, <1>11 DEF Leads
  <2>7. phase \in {"enter", "body"} => word'[pos] # None \/ Leads'
    BY <2>6, <1>6, <1>11, <1>17 DEF RegInv
  <2>8. pos = End => (pos = 3 /\ word'[pos] = word[pos] /\ word[pos] = Word("pause", pos))
                     \/ (pos = 1 /\ Missed' /\ word[pos] = Word("pause", hooked'))
    BY <2>3, <1>1, <1>4, <1>8, <1>10 DEF Missed
  <2>9. phase = "word" => Leads' \/ (pos = 3 /\ bp = word'[pos])
                          \/ (Missed' /\ bp = Word("pause", hooked'))
    BY <2>6, <2>8, <1>1, <1>17 DEF RegInv
  <2>10. phase = "paused" => (pos = 3 /\ word'[pos] = Word("pause", pos)) \/ Missed'
    BY <2>8, <1>1, <1>17 DEF RegInv
  <2>11. phase # "stopped"
    <3>1. SUFFICES ASSUME phase = "stopped" PROVE FALSE
      OBVIOUS
    <3>2. pos = End /\ word[pos].type = "stop"
      BY <3>1, <1>17 DEF RegInv
    <3>3. word[pos].type = "pause"
      BY <3>2, <2>8, WordFacts
    <3>4. QED
      BY <3>2, <3>3
  <2>12. RegInv'
    BY <2>1, <2>7, <2>9, <2>10, <2>11, <1>1, <1>17 DEF RegInv
  <2>13. QED
    BY <2>5, <2>12, <1>1, <1>12, <1>13, <1>14, <1>15, <1>16
       DEF IInv, DriverInv, ChaseInv
<1>20. QED
  BY <1>18, <1>19

LEMMA HookWriteKeeps ==
  ASSUME IInv, HookWrite, Dependable
  PROVE  IInv' /\ Spared
<1>1. hooks \in {RewindHooks, TrapHooks, EndHooks} /\ Spared
  BY HookFrame DEF DriverInv, HooksInv
<1>2. QED
  BY <1>1, HookEndKeeps, HookRewindKeeps, HookTrapKeeps
-----------------------------------------------------------------------------
(* A remainder of a number that is not further from 0 than the divisor. *)
LEMMA Modulus ==
  ASSUME NEW m \in Nat, 0 < m, NEW x \in Int, 0 - m <= x, x < m
  PROVE  x % m = IF 0 <= x THEN x ELSE x + m
<1>. DEFINE q == x \div m
            r == x % m
<1>1. q \in Int /\ r \in 0 .. m - 1 /\ x = q * m + r
  <2>1. q \in Int
    OBVIOUS
  <2>2. r \in 0 .. m - 1
    OBVIOUS
  <2>3. x = q * m + r
    OBVIOUS
  <2>4. QED
    BY <2>1, <2>2, <2>3
<1>. HIDE DEF q, r
<1>2. q < 1
  <2>1. SUFFICES ASSUME 1 <= q PROVE FALSE
    BY <1>1
  <2>2. q - 1 \in Nat
    BY <2>1, <1>1
  <2>3. (q - 1) * m >= 0 /\ q * m = (q - 1) * m + m
    BY <2>2, <1>1
  <2>4. QED
    BY <2>3, <1>1
<1>3. 0 - 2 < q
  <2>1. SUFFICES ASSUME q <= 0 - 2 PROVE FALSE
    BY <1>1
  <2>2. 0 - 2 - q \in Nat
    BY <2>1, <1>1
  <2>3. (0 - 2 - q) * m >= 0 /\ q * m = 0 - (2 * m) - ((0 - 2 - q) * m)
    BY <2>2, <1>1
  <2>4. QED
    BY <2>3, <1>1
<1>4. q = 0 \/ q = 0 - 1
  BY <1>1, <1>2, <1>3
<1>5. (q = 0 => q * m = 0) /\ (q = 0 - 1 => q * m = 0 - m)
  BY <1>1
<1>6. r = IF 0 <= x THEN x ELSE x + m
  BY <1>1, <1>4, <1>5
<1>7. QED
  BY <1>6 DEF r

(* Ends of different units are told apart although addresses wrap. *)
LEMMA OtherUnit ==
  ASSUME NEW a \in 0 .. High, NEW b \in 0 .. High, a # b, a < b + High, b < a + High
  PROVE  (a * U - b * U) % (High * U) # 0
<1>1. U \in Nat /\ 3 <= U /\ High \in Nat /\ 12 < High
  BY ConstantFacts
<1>2. a \in Int /\ b \in Int /\ High \in Int /\ a + High \in Int /\ b + High \in Int
  BY <1>1
<1>3. /\ a * U \in Int /\ b * U \in Int /\ High * U \in Nat
      /\ (b + High) * U = b * U + High * U /\ (a + High) * U = a * U + High * U
  BY <1>1, <1>2
<1>4. a * U < b * U + High * U /\ b * U < a * U + High * U /\ a * U # b * U
  <2>1. a * U + U <= (b + High) * U
    BY <1>2, UnitOrder
  <2>2. b * U + U <= (a + High) * U
    BY <1>2, UnitOrder
  <2>3. a * U # b * U
    BY <1>2, UnitOrder
  <2>4. QED
    BY <2>1, <2>2, <2>3, <1>1, <1>3
<1>. DEFINE x == a * U - b * U
            m == High * U
<1>5. x \in Int /\ m \in Nat /\ 0 < m /\ 0 - m <= x /\ x < m /\ x # 0 /\ x # 0 - m
  BY <1>3, <1>4
<1>. HIDE DEF x, m
<1>6. x % m = IF 0 <= x THEN x ELSE x + m
  BY <1>5, Modulus
<1>7. x % m # 0
  BY <1>5, <1>6
<1>8. QED
  BY <1>7 DEF x, m

(* The restart of the regulator is decided while it pauses. *)
RestartInv == pc = "restart" => phase = "paused"

(* The end of a hook. *)
LEMMA AfterHookFacts ==
  ASSUME IInv, Hooking, AfterHook,
         UNCHANGED <<req, mapped, dma_low, dma_wrap, last, hooked, word>>
  PROVE  /\ mapped /\ TypeOK /\ DriverInv /\ ChaseInv
         /\ mapped' /\ Front' = Front /\ JumpUnit' = JumpUnit
         /\ ~ Wrapping /\ ~ Wrapping' /\ ~ Hooking'
         /\ (Stopping' <=> Stopping) /\ Kept' = 2 * U /\ Kept = 2 * U
         /\ pc' \in {"idle", "fit", "hook", "idle_wait"} /\ hooks' \in {<<>>, TrapHooks}
         /\ (pc' = "hook" => hooks' # RewindHooks')
         /\ DriverInv'
<1>1. /\ req' = req /\ mapped' = mapped /\ dma_low' = dma_low /\ dma_wrap' = dma_wrap
      /\ last' = last /\ hooked' = hooked /\ word' = word
      /\ hooks' = Tail(hooks) /\ pc' = Head(hooks).then
  BY DEF AfterHook
<1>2. mapped /\ TypeOK /\ DriverInv /\ ChaseInv /\ pc \in {"poll", "paused", "restart"}
  BY DEF IInv, Hooking
<1>3. /\ Front' = Front /\ JumpUnit' = JumpUnit
      /\ RewindHooks' = RewindHooks /\ TrapHooks' = TrapHooks
      /\ EndWord' = EndWord /\ EndHooks' = EndHooks
  BY <1>1 DEF Front, JumpUnit, Ceil, RewindHooks, TrapHooks, EndWord, EndHooks
<1>4. ~ Wrapping /\ ~ Appending
  BY <1>2 DEF Wrapping, Appending
<1>5. /\ U \in Nat /\ 3 <= U /\ Margin \in Nat /\ 5 * U + 1 <= Margin /\ High * U \in Nat
      /\ SizeAsked \in Nat /\ SizeAsked + 6 * U + Margin < High * U
      /\ Front \in Nat /\ last \in Nat /\ dma_low \in Nat /\ req \in Nat
      /\ Sizes \subseteq Nat \ {0}
  BY <1>2, DataFacts, ConstantFacts
<1>6. LapInv'
  BY <1>1, <1>2, <1>3 DEF DriverInv, LapInv
<1>7. ~ Wrapping' => StartInv'
  BY <1>1, <1>2, <1>4 DEF DriverInv, StartInv
<1>8. Kept = 2 * U
  BY <1>2 DEF Kept
<1>9. CASE hooks = EndHooks /\ req # 0
  <2>1. pc' = "idle" /\ hooks' = <<>>
    BY <1>1, <1>9, HooksFacts
  <2>2. ~ Wrapping' /\ ~ Hooking' /\ Appending' /\ (Stopping' <=> Stopping) /\ Kept' = 2 * U
    BY <1>1, <1>9, <2>1 DEF Wrapping, Hooking, Appending, Stopping, Kept
  <2>3. /\ dma_low = Front * U /\ dma_low + 2 * U <= High * U
        /\ word[Front - 1] = EndWord /\ Front # 2 /\ last = Front - 1
    BY <1>2, <1>9 DEF DriverInv, EndInv
  <2>4. EndWord = Word("pause", last)
    BY <1>9, <2>3 DEF EndWord
  <2>5. Added' = 0 /\ Needed' = 2 * U
    BY <2>1 DEF Added, Needed
  <2>6. /\ word'[last'] = Word("pause", last') /\ last' # 1
        /\ dma_low' = (last' + 1) * U + 0 /\ last' + 1 .. Front' - 1 = {}
    BY <2>3, <2>4, <1>1, <1>3, <1>5
  <2>7. AppendInv'
    BY <2>1, <2>3, <2>5, <2>6, <1>1 DEF AppendInv
  <2>8. EndInv' /\ WaitInv' /\ RewindInv' /\ HooksInv'
    BY <2>2, NoHooksNext
  <2>9. QED
    BY <2>1, <2>2, <2>7, <2>8, <1>1, <1>2, <1>3, <1>4, <1>6, <1>7, <1>8 DEF DriverInv
<1>10. CASE hooks = EndHooks /\ req = 0
  <2>1. pc' = "idle_wait" /\ hooks' = <<>>
    BY <1>1, <1>10, HooksFacts
  <2>2. ~ Wrapping' /\ ~ Hooking' /\ ~ Appending' /\ (Stopping' <=> Stopping) /\ Kept' = 2 * U
    BY <1>1, <1>10, <2>1 DEF Wrapping, Hooking, Appending, Stopping, Kept
  <2>3. /\ dma_low = Front * U /\ word[Front - 1] = EndWord /\ last = Front - 1
    BY <1>2, <1>10 DEF DriverInv, EndInv
  <2>4. EndWord = Word("stop", last) /\ last + 1 = Front
    BY <1>5, <1>10, <2>3 DEF EndWord
  <2>5. WaitInv'
    BY <2>1, <2>3, <2>4, <1>1, <1>10 DEF WaitInv
  <2>6. AppendInv' /\ EndInv' /\ RewindInv' /\ HooksInv'
    BY <2>1, <2>2 DEF AppendInv, EndInv, RewindInv, HooksInv
  <2>7. QED
    BY <2>1, <2>2, <2>5, <2>6, <1>1, <1>2, <1>3, <1>4, <1>6, <1>7, <1>8 DEF DriverInv
<1>11. CASE hooks = RewindHooks
  <2>1. pc' = "hook" /\ hooks' = TrapHooks
    BY <1>1, <1>11, HooksFacts
  <2>2. hooks' = TrapHooks' /\ hooks' # RewindHooks' /\ hooks' # EndHooks'
    BY <2>1, <1>3, HooksFacts
  <2>3. hooks # EndHooks
    BY <1>11, HooksFacts
  <2>4. /\ dma_low = 4 * U /\ Filled(4) /\ last = 1 /\ req \in Sizes
    BY <2>3, <1>2, <1>11 DEF DriverInv, RewindInv
  <2>5. ~ Wrapping' /\ ~ Hooking' /\ ~ Appending' /\ (Stopping' <=> Stopping) /\ Kept' = 2 * U
    BY <1>1, <2>1, <2>2 DEF Wrapping, Hooking, Appending, Stopping, Kept
  <2>6. Filled(4)'
    BY <2>4, <1>1 DEF Filled
  <2>7. RewindInv'
    BY <2>1, <2>2, <2>4, <2>5, <2>6, <1>1 DEF RewindInv
  <2>8. AppendInv' /\ EndInv' /\ WaitInv' /\ HooksInv'
    BY <2>1, <2>2, <2>5 DEF AppendInv, EndInv, WaitInv, HooksInv
  <2>9. QED
    BY <2>1, <2>2, <2>5, <2>7, <2>8, <1>1, <1>2, <1>3, <1>4, <1>6, <1>7, <1>8 DEF DriverInv
<1>12. CASE hooks = TrapHooks
  <2>1. pc' = "fit" /\ hooks' = <<>>
    BY <1>1, <1>12, HooksFacts
  <2>2. ~ Wrapping' /\ ~ Hooking' /\ Appending' /\ Kept' = 2 * U
    BY <2>1 DEF Wrapping, Hooking, Appending, Kept
  <2>3. hooks # EndHooks
    BY <1>12, HooksFacts
  <2>4. /\ dma_low = 4 * U /\ last = 3 /\ word[3] = Word("pause", 3) /\ req \in Sizes
    BY <2>3, <1>2, <1>12 DEF DriverInv, RewindInv
  <2>5. ~ Stopping /\ ~ Stopping'
    BY <2>4, <1>1, <1>5 DEF Stopping
  <2>6. Front = 4
    <3>1. 4 \in Int
      OBVIOUS
    <3>2. QED
      BY <3>1, <2>4, <1>5, CeilFacts DEF Front
  <2>7. SizeAsked' = SizeAsked
    BY <1>1 DEF SizeAsked
  <2>8. Added' = 0 /\ Needed' = SizeAsked + 4 * U
    BY <2>1, <2>7 DEF Added, Needed
  <2>9. /\ word'[last'] = Word("pause", last') /\ last' # 1
        /\ dma_low' = (last' + 1) * U + 0 /\ last' + 1 .. Front' - 1 = {}
        /\ dma_low' + (SizeAsked + 4 * U) <= High * U
    BY <2>4, <2>6, <1>1, <1>3, <1>5
  <2>10. AppendInv'
    BY <2>1, <2>4, <2>8, <2>9, <1>1 DEF AppendInv
  <2>11. EndInv' /\ WaitInv' /\ RewindInv' /\ HooksInv'
    BY <2>2, NoHooksNext
  <2>12. QED
    BY <2>1, <2>2, <2>5, <2>10, <2>11, <1>1, <1>2, <1>3, <1>4, <1>6, <1>7, <1>8 DEF DriverInv
<1>13. hooks \in {RewindHooks, TrapHooks, EndHooks}
  BY <1>2 DEF DriverInv, HooksInv
<1>14. QED
  BY <1>9, <1>10, <1>11, <1>12, <1>13

LEMMA HooksTyped ==
  LET S == [word : Words, end : Units, then : {"hook", "fit", "idle", "idle_wait"}]
  IN \A h \in {<<>>, TrapHooks} : h \in Seq(S) /\ Len(h) \in 0 .. 2
<1>. DEFINE S == [word : Words, end : Units, then : {"hook", "fit", "idle", "idle_wait"}]
<1>1. High \in Nat /\ 12 < High
  BY ConstantFacts
<1>2. 3 \in Units
  BY <1>1 DEF Units
<1>3. Word("pause", 3) \in Words
  BY <1>2 DEF Word, Words
<1>4. Hook(Word("pause", 3), 3, "fit") \in S
  BY <1>2, <1>3 DEF Hook
<1>. HIDE DEF S
<1>5. TrapHooks \in Seq(S) /\ Len(TrapHooks) \in 0 .. 2
  BY <1>4 DEF TrapHooks
<1>6. <<>> \in Seq(S) /\ Len(<<>>) \in 0 .. 2
  OBVIOUS
<1>7. \A h \in {<<>>, TrapHooks} : h \in Seq(S) /\ Len(h) \in 0 .. 2
  BY <1>5, <1>6
<1>8. QED
  BY <1>7 DEF S

(* Waiting while the regulator is near: it is not there any more. *)
LEMMA PollKeeps ==
  ASSUME IInv, Poll, Dependable
  PROVE  IInv'
<1>1. /\ pc = "poll" /\ (InWindow => phase = "paused") /\ pc' = "paused"
      /\ req' = req /\ mapped' = mapped /\ dma_low' = dma_low /\ dma_wrap' = dma_wrap
      /\ last' = last /\ hooks' = hooks /\ hooked' = hooked
      /\ pos' = pos /\ phase' = phase /\ bp' = bp /\ seen' = seen
      /\ word' = word /\ fresh' = fresh /\ written' = {}
  BY DEF Poll, Dependable, NoWrite, regulatorVars
<1>2. DriverInv /\ ChaseInv /\ TypeOK /\ mapped
  BY <1>1 DEF IInv
<1>3. /\ Front' = Front /\ JumpUnit' = JumpUnit /\ (Ahead' <=> Ahead) /\ Shown' = Shown
  BY <1>1 DEF Front, JumpUnit, Ahead, Ceil, Shown
<1>4. /\ RewindHooks' = RewindHooks /\ TrapHooks' = TrapHooks
      /\ EndWord' = EndWord /\ EndHooks' = EndHooks
  BY <1>1, <1>3 DEF RewindHooks, TrapHooks, EndWord, EndHooks
<1>5. /\ ~ Wrapping /\ ~ Wrapping' /\ Hooking /\ Hooking' /\ ~ Appending /\ ~ Appending'
      /\ (Stopping' <=> Stopping) /\ Kept' = 2 * U /\ Kept = 2 * U
  BY <1>1 DEF Wrapping, Hooking, Appending, Stopping, Kept
<1>6. TypeOK'
  BY <1>1, <1>2 DEF TypeOK
<1>7. End' = End
  BY <1>1, <1>3, <1>5 DEF End, Trapped
<1>8. AppendInv' /\ WaitInv' /\ HooksInv'
  BY <1>1, <1>2, <1>4, <1>5 DEF DriverInv, AppendInv, WaitInv, HooksInv
<1>9. EndInv'
  BY <1>1, <1>2, <1>3, <1>4, <1>5 DEF DriverInv, EndInv
<1>10. RewindInv'
  <2>1. \A n : Filled(n)' <=> Filled(n)
    BY <1>1 DEF Filled
  <2>2. RewindInv
    BY <1>2 DEF DriverInv
  <2>3. pc' # "hook" /\ pc' # "bitblt" /\ pc' # "fill"
    BY <1>1
  <2>4. QED
    BY <2>1, <2>2, <2>3, <1>1, <1>3, <1>4, <1>5 DEF RewindInv
<1>11. LapInv' /\ StartInv'
  BY <1>1, <1>2, <1>3, <1>5 DEF DriverInv, LapInv, StartInv
<1>12. GapInv'
  <2>1. GapInv /\ pc' # "jump"
    BY <1>1, <1>2 DEF ChaseInv
  <2>2. QED
    BY <2>1, <1>1, <1>3, <1>5 DEF GapInv
<1>13. SeenInv' /\ FreshInv' /\ LineInv'
  BY <1>1, <1>2, <1>3, <1>5, <1>7 DEF ChaseInv, SeenInv, FreshInv, LineInv
<1>14. ~ (phase = "word" /\ Missed)
  <2>1. SUFFICES ASSUME phase = "word", Missed PROVE FALSE
    OBVIOUS
  <2>2. /\ U \in Nat /\ 3 <= U /\ pos * U \in Nat /\ (pos + 1) * U = pos * U + U
        /\ HwAddr = pos * U + 1
    BY <2>1, <1>2, ReaderFacts, ConstantFacts
  <2>3. Diff = U - 1
    BY <2>1, <2>2 DEF Missed, Diff, Reader
  <2>4. InWindow
    BY <2>2, <2>3 DEF InWindow
  <2>5. QED
    BY <2>1, <2>4, <1>1
<1>15. RegInv'
  <2>1. RegInv /\ (Leads' <=> Leads) /\ (Missed' <=> Missed)
    BY <1>1, <1>2, <1>7 DEF ChaseInv, Leads, Missed
  <2>2. QED
    BY <2>1, <1>1, <1>5, <1>7, <1>14 DEF RegInv
<1>16. QED
  BY <1>1, <1>2, <1>6, <1>8, <1>9, <1>10, <1>11, <1>12, <1>13, <1>15
     DEF IInv, DriverInv, ChaseInv

(* The end of a hook behind which the regulator stays where it is. *)
LEMMA LetBe ==
  ASSUME IInv, Hooking, AfterHook, pc # "poll",
         UNCHANGED <<req, mapped, dma_low, dma_wrap, last, hooked, word, fresh, regulatorVars>>,
         written' \subseteq Units,
         phase = "paused" => pos = End /\ word[pos] = Word("pause", pos)
  PROVE  IInv'
<1>1. /\ req' = req /\ mapped' = mapped /\ dma_low' = dma_low /\ dma_wrap' = dma_wrap
      /\ last' = last /\ hooked' = hooked /\ word' = word /\ fresh' = fresh
      /\ pos' = pos /\ phase' = phase /\ bp' = bp /\ seen' = seen
  BY DEF regulatorVars
<1>2. /\ mapped /\ TypeOK /\ DriverInv /\ ChaseInv
      /\ mapped' /\ Front' = Front /\ JumpUnit' = JumpUnit
      /\ ~ Wrapping /\ ~ Wrapping' /\ ~ Hooking'
      /\ (Stopping' <=> Stopping) /\ Kept' = 2 * U /\ Kept = 2 * U
      /\ pc' \in {"idle", "fit", "hook", "idle_wait"} /\ hooks' \in {<<>>, TrapHooks}
      /\ (pc' = "hook" => hooks' # RewindHooks')
      /\ DriverInv'
  <2>1. UNCHANGED <<req, mapped, dma_low, dma_wrap, last, hooked, word>>
    BY <1>1
  <2>2. QED
    BY <2>1, AfterHookFacts
<1>3. (Ahead' <=> Ahead) /\ Shown' = Shown
  BY <1>1, <1>2 DEF Ahead, Shown
<1>4. End' = End
  BY <1>1, <1>2, <1>3 DEF End, Trapped
<1>5. TypeOK'
  BY <1>1, <1>2, HooksTyped DEF TypeOK
<1>6. GapInv'
  <2>1. GapInv /\ pc' # "jump"
    BY <1>2 DEF ChaseInv
  <2>2. QED
    BY <2>1, <1>1, <1>2, <1>3 DEF GapInv
<1>7. SeenInv' /\ FreshInv'
  BY <1>1, <1>2, <1>3 DEF ChaseInv, SeenInv, FreshInv
<1>8. LineInv'
  <2>1. LineInv /\ pc' # "fill"
    BY <1>2 DEF ChaseInv
  <2>2. QED
    BY <2>1, <1>1, <1>2, <1>3, <1>4 DEF LineInv
<1>9. RegInv'
  <2>1. RegInv /\ (Leads' <=> Leads)
    BY <1>1, <1>2, <1>4 DEF ChaseInv, Leads
  <2>2. QED
    BY <2>1, <1>1, <1>4 DEF RegInv
<1>10. QED
  BY <1>2, <1>5, <1>6, <1>7, <1>8, <1>9 DEF IInv, ChaseInv

LEMMA CheckPausedKeeps ==
  ASSUME IInv, CheckPaused
  PROVE  IInv'
<1>1. /\ pc = "paused" /\ Hooking
      /\ IF phase = "paused" THEN pc' = "restart" /\ hooks' = hooks ELSE AfterHook
      /\ UNCHANGED <<req, mapped, dma_low, dma_wrap, last, hooked, regulatorVars>>
      /\ word' = word /\ fresh' = fresh /\ written' = {}
  BY DEF CheckPaused, NoWrite, Hooking
<1>2. CASE phase # "paused"
  <2>1. UNCHANGED <<req, mapped, dma_low, dma_wrap, last, hooked, word, fresh, regulatorVars>>
    BY <1>1
  <2>2. AfterHook /\ pc # "poll" /\ written' \subseteq Units
    BY <1>1, <1>2
  <2>3. QED
    BY <2>1, <2>2, <1>1, <1>2, LetBe
<1>3. CASE phase = "paused"
  <2>1. /\ req' = req /\ mapped' = mapped /\ dma_low' = dma_low /\ dma_wrap' = dma_wrap
        /\ last' = last /\ hooks' = hooks /\ hooked' = hooked /\ pc' = "restart"
        /\ pos' = pos /\ phase' = phase /\ bp' = bp /\ seen' = seen
    BY <1>1, <1>3 DEF regulatorVars
  <2>2. DriverInv /\ ChaseInv /\ TypeOK /\ mapped
    BY <1>1 DEF IInv
  <2>3. /\ Front' = Front /\ JumpUnit' = JumpUnit /\ (Ahead' <=> Ahead) /\ Shown' = Shown
    BY <2>1 DEF Front, JumpUnit, Ahead, Ceil, Shown
  <2>4. /\ RewindHooks' = RewindHooks /\ TrapHooks' = TrapHooks
        /\ EndWord' = EndWord /\ EndHooks' = EndHooks
    BY <2>1, <2>3 DEF RewindHooks, TrapHooks, EndWord, EndHooks
  <2>5. /\ ~ Wrapping /\ ~ Wrapping' /\ Hooking /\ Hooking' /\ ~ Appending /\ ~ Appending'
        /\ (Stopping' <=> Stopping) /\ Kept' = 2 * U /\ Kept = 2 * U
    BY <1>1, <2>1 DEF Wrapping, Hooking, Appending, Stopping, Kept
  <2>6. TypeOK'
    BY <1>1, <2>1, <2>2 DEF TypeOK
  <2>7. End' = End
    BY <2>1, <2>3, <2>5 DEF End, Trapped
  <2>8. AppendInv' /\ WaitInv' /\ HooksInv'
    BY <1>1, <2>1, <2>2, <2>4, <2>5 DEF DriverInv, AppendInv, WaitInv, HooksInv
  <2>9. EndInv'
    BY <1>1, <2>1, <2>2, <2>3, <2>4, <2>5 DEF DriverInv, EndInv
  <2>10. RewindInv'
    <3>1. \A n : Filled(n)' <=> Filled(n)
      BY <1>1 DEF Filled
    <3>2. RewindInv
      BY <2>2 DEF DriverInv
    <3>3. pc' # "hook" /\ pc' # "bitblt" /\ pc' # "fill"
      BY <2>1
    <3>4. QED
      BY <3>1, <3>2, <3>3, <1>1, <2>1, <2>3, <2>4, <2>5 DEF RewindInv
  <2>11. LapInv' /\ StartInv'
    BY <1>1, <2>1, <2>2, <2>3, <2>5 DEF DriverInv, LapInv, StartInv
  <2>12. GapInv'
    <3>1. GapInv /\ pc' # "jump"
      BY <2>1, <2>2 DEF ChaseInv
    <3>2. QED
      BY <3>1, <2>1, <2>3, <2>5 DEF GapInv
  <2>13. SeenInv' /\ FreshInv' /\ LineInv'
    BY <1>1, <2>1, <2>2, <2>3, <2>5, <2>7 DEF ChaseInv, SeenInv, FreshInv, LineInv
  <2>14. RegInv'
    <3>1. RegInv /\ (Leads' <=> Leads) /\ (Missed' <=> Missed)
      BY <1>1, <2>1, <2>2, <2>7 DEF ChaseInv, Leads, Missed
    <3>2. QED
      BY <3>1, <1>1, <1>3, <2>1, <2>5, <2>7 DEF RegInv
  <2>15. QED
    BY <1>1, <2>1, <2>2, <2>6, <2>8, <2>9, <2>10, <2>11, <2>12, <2>13, <2>14
       DEF IInv, DriverInv, ChaseInv
<1>4. QED
  BY <1>2, <1>3

(* The end of a hook that sends the regulator on to the next unit. *)
LEMMA MoveKeeps ==
  ASSUME IInv, Hooking, AfterHook, phase = "paused", MoveTo(pos + 1),
         bp' = Head(hooks).word, seen' = Now,
         UNCHANGED <<req, mapped, dma_low, dma_wrap, last, hooked, word, fresh>>,
         written' \subseteq Units, pos + 1 \in Units,
         Ahead' <=> Ahead, LineInv',
         word[pos + 1] # None \/ (bp'.at \in pos + 2 .. End' /\ word[bp'.at] # None)
  PROVE  IInv'
<1>1. /\ req' = req /\ mapped' = mapped /\ dma_low' = dma_low /\ dma_wrap' = dma_wrap
      /\ last' = last /\ hooked' = hooked /\ word' = word /\ fresh' = fresh
      /\ pos' = pos + 1 /\ phase' = "enter" /\ seen' = Now
  BY DEF MoveTo
<1>2. /\ mapped /\ TypeOK /\ DriverInv /\ ChaseInv
      /\ mapped' /\ Front' = Front /\ JumpUnit' = JumpUnit
      /\ ~ Wrapping /\ ~ Wrapping' /\ ~ Hooking'
      /\ (Stopping' <=> Stopping) /\ Kept' = 2 * U /\ Kept = 2 * U
      /\ pc' \in {"idle", "fit", "hook", "idle_wait"} /\ hooks' \in {<<>>, TrapHooks}
      /\ DriverInv'
  <2>1. UNCHANGED <<req, mapped, dma_low, dma_wrap, last, hooked, word>>
    BY <1>1
  <2>2. QED
    BY <2>1, AfterHookFacts
<1>3. Front \in Nat /\ JumpUnit \in Nat /\ pos \in Nat /\ U \in Nat /\ dma_low \in Nat
      /\ Margin \in Nat
  BY <1>2, DriverFacts, DataFacts DEF Units
<1>4. Ahead => seen = Now /\ Shown = pos /\ pos + 1 <= JumpUnit
  <2>1. SUFFICES ASSUME Ahead PROVE seen = Now /\ Shown = pos /\ pos + 1 <= JumpUnit
    OBVIOUS
  <2>2. seen = Now /\ Shown = pos
    BY <2>1, <1>2, AheadSeesNow DEF Shown
  <2>3. End' = JumpUnit /\ pos' <= End'
    BY <2>1, <1>2 DEF LineInv, End
  <2>4. QED
    BY <2>2, <2>3, <1>1
<1>5. ~ Ahead => pos + 1 < Front
  BY <1>1, <1>2, <1>3 DEF Ahead
<1>6. TypeOK'
  <2>. DEFINE S == [word : Words, end : Units, then : {"hook", "fit", "idle", "idle_wait"}]
  <2>1. hooks # <<>>
    <3>1. hooks \in {RewindHooks, TrapHooks, EndHooks}
      BY <1>2 DEF DriverInv, HooksInv
    <3>2. QED
      BY <3>1, HooksFacts
  <2>2. hooks \in Seq(S)
    BY <1>2 DEF TypeOK
  <2>. HIDE DEF S
  <2>3. Head(hooks) \in S
    BY <2>1, <2>2, HeadTailProperties
  <2>4. bp' \in Words
    BY <2>3 DEF S
  <2>5. Now \in Now .. High * U
    BY <1>2, DataFacts, SMTT(30) DEF Now
  <2>6. pc' \in {"idle", "fit", "copy", "pad", "close", "jump", "bitblt", "fill",
                 "hook", "poll", "paused", "restart", "idle_wait"}
    BY <1>2
  <2>7. hooks' \in Seq([word : Words, end : Units, then : {"hook", "fit", "idle", "idle_wait"}])
        /\ Len(hooks') \in 0 .. 2
    BY <1>2, HooksTyped
  <2>8. QED
    BY <2>4, <2>5, <2>6, <2>7, <1>1, <1>2 DEF TypeOK
<1>7. GapInv'
  <2>1. SUFFICES ASSUME Front <= pos + 1
        PROVE /\ last >= 1 /\ JumpUnit + 2 <= High /\ pos + 1 <= JumpUnit /\ pc' # "jump"
              /\ ~ Stopping => /\ dma_low + 2 * U <= (pos + 1) * U
                               /\ dma_low = 4 * U \/ dma_low + Margin <= (pos + 1) * U + 2 * U
    BY <1>1, <1>2 DEF GapInv, Shown
  <2>2. Ahead
    BY <2>1, <1>3, <1>5
  <2>3. /\ last >= 1 /\ JumpUnit + 2 <= High
        /\ ~ Stopping => /\ dma_low + 2 * U <= pos * U
                         /\ dma_low = 4 * U \/ dma_low + Margin <= pos * U + 2 * U
    BY <2>2, <1>2, <1>4 DEF ChaseInv, GapInv, Ahead
  <2>4. pos * U \in Int /\ (pos + 1) * U = pos * U + U
    BY <1>2, ReaderFacts
  <2>5. pc' # "jump"
    BY <1>2
  <2>6. ASSUME ~ Stopping
        PROVE  /\ dma_low + 2 * U <= (pos + 1) * U
               /\ dma_low = 4 * U \/ dma_low + Margin <= (pos + 1) * U + 2 * U
    <3>1. /\ dma_low + 2 * U <= pos * U
          /\ dma_low = 4 * U \/ dma_low + Margin <= pos * U + 2 * U
      BY <2>3, <2>6
    <3>2. QED
      BY <3>1, <2>4, <1>3
  <2>7. QED
    BY <2>2, <2>3, <2>5, <2>6, <1>4
<1>8. SeenInv'
  BY <1>1 DEF SeenInv
<1>9. FreshInv'
  <2>1. fresh = IF Ahead THEN (pos + 1 .. JumpUnit) \cup (0 .. Front - 1)
                ELSE pos + 1 .. Front - 1
    BY <1>2 DEF ChaseInv, FreshInv
  <2>2. CASE Ahead
    <3>1. pos + 1 .. JumpUnit = {pos + 1} \cup (pos + 1 + 1 .. JumpUnit)
      BY <2>2, <1>3, <1>4
    <3>2. QED
      BY <2>1, <2>2, <3>1, <1>1, <1>2 DEF FreshInv
  <2>3. CASE ~ Ahead
    <3>1. pos + 1 .. Front - 1 = {pos + 1} \cup (pos + 1 + 1 .. Front - 1)
      BY <2>3, <1>3, <1>5
    <3>2. QED
      BY <2>1, <2>3, <3>1, <1>1, <1>2 DEF FreshInv
  <2>4. QED
    BY <2>2, <2>3
<1>10. RegInv'
  <2>1. pos' + 1 = pos + 2
    BY <1>1, <1>3
  <2>2. word'[pos'] # None \/ Leads'
    BY <2>1, <1>1 DEF Leads
  <2>3. QED
    BY <2>2, <1>1 DEF RegInv
<1>11. QED
  BY <1>2, <1>6, <1>7, <1>8, <1>9, <1>10 DEF IInv, ChaseInv

(* Where the regulator pauses when the driver finds it at the command that *)
(* it has hooked: there, or at the first pause of a new lap, because the   *)
(* address register still shows the jump.                                  *)
LEMMA RestartFacts ==
  ASSUME IInv, pc = "restart", phase = "paused", PausedThere
  PROVE  Missed \/ (hooks = RewindHooks /\ pos = 1 /\ last = 1 /\ Front = 4 /\ Filled(4)
                    /\ req # 0 /\ ~ Ahead)
<1>1. SUFFICES ASSUME ~ Missed
      PROVE  hooks = RewindHooks /\ pos = 1 /\ last = 1 /\ Front = 4 /\ Filled(4)
             /\ req # 0 /\ ~ Ahead
  OBVIOUS
<1>2. DriverInv /\ ChaseInv /\ TypeOK /\ mapped /\ Hooking /\ ~ Wrapping
  BY DEF IInv, Hooking, Wrapping
<1>3. pos = End /\ word[pos] = Word("pause", pos)
  BY <1>1, <1>2 DEF ChaseInv, RegInv
<1>4. ~ Ahead
  <2>1. SUFFICES ASSUME Ahead PROVE FALSE
    OBVIOUS
  <2>2. word[End] = Word("jump", JumpUnit)
    BY <2>1, <1>2, EndFacts DEF ChaseInv
  <2>3. QED
    BY <2>2, <1>3, WordFacts
<1>5. End = IF Trapped THEN 3 ELSE last
  BY <1>2, <1>4 DEF End
<1>6. /\ U \in Nat /\ 3 <= U /\ High \in Nat /\ 12 < High /\ pos \in Nat /\ req \in Nat
      /\ last \in Nat /\ hooked \in Nat /\ JumpUnit \in Nat /\ JumpUnit \in Units
      /\ pos \in Units /\ hooked \in Units /\ dma_low \in Nat /\ Sizes \subseteq Nat \ {0}
      /\ last < Front /\ Front \in Nat
  <2>1. /\ U \in Nat /\ 3 <= U /\ High \in Nat /\ 12 < High /\ pos \in Nat /\ req \in Nat
        /\ last \in Nat /\ hooked \in Nat /\ dma_low \in Nat /\ Sizes \subseteq Nat \ {0}
    BY <1>2, DataFacts, ConstantFacts
  <2>2. JumpUnit \in Units /\ last < Front /\ Front \in Nat
    BY <1>2, DriverFacts
  <2>3. pos \in Units /\ hooked \in Units
    BY <1>2 DEF TypeOK
  <2>4. QED
    BY <2>1, <2>2, <2>3 DEF Units
<1>7. ASSUME seen = Now, hooked # pos PROVE FALSE
  <2>1. Reader = (pos + 1) * U
    BY <1>7 DEF Reader, HwAddr
  <2>2. /\ hooked + 1 \in 0 .. High /\ pos + 1 \in 0 .. High /\ hooked + 1 # pos + 1
        /\ hooked + 1 < pos + 1 + High /\ pos + 1 < hooked + 1 + High
    BY <1>6, <1>7 DEF Units
  <2>3. ((hooked + 1) * U - (pos + 1) * U) % (High * U) # 0
    BY <2>2, OtherUnit
  <2>4. QED
    BY <2>1, <2>3 DEF PausedThere, Diff
<1>8. seen # Now
  <2>1. SUFFICES ASSUME seen = Now PROVE FALSE
    OBVIOUS
  <2>2. hooked # pos
    BY <2>1, <1>1 DEF Missed
  <2>3. QED
    BY <2>1, <2>2, <1>7
<1>9. pos \in {0, 1} /\ (pos = 1 => last = 1) /\ Front <= Shown
  BY <1>2, <1>8 DEF ChaseInv, SeenInv, Shown
<1>10. last >= 1
  BY <1>2, <1>9 DEF ChaseInv, GapInv
<1>11. pos = 1 /\ last = 1
  BY <1>3, <1>5, <1>6, <1>9, <1>10 DEF Trapped
<1>12. CASE hooks = EndHooks
  <2>1. word[Front - 1] = EndWord /\ last = Front - 1 /\ (req # 0 => Front # 2)
    BY <1>2, <1>12 DEF DriverInv, EndInv
  <2>2. req = 0
    BY <2>1, <1>6, <1>11
  <2>3. word[last].type = "stop"
    BY <2>1, <2>2, WordFacts DEF EndWord
  <2>4. QED
    BY <2>3, <1>3, <1>11, WordFacts
<1>13. CASE hooks = TrapHooks
  <2>1. hooks # EndHooks /\ hooks # RewindHooks
    BY <1>13, HooksFacts
  <2>2. last = 3
    BY <2>1, <1>2, <1>13 DEF DriverInv, RewindInv
  <2>3. QED
    BY <2>2, <1>11
<1>14. CASE hooks = RewindHooks
  <2>1. hooks # EndHooks
    BY <1>14, HooksFacts
  <2>2. dma_low = 4 * U /\ Filled(4) /\ req \in Sizes
    BY <2>1, <1>2, <1>14 DEF DriverInv, RewindInv
  <2>3. 4 \in Int
    OBVIOUS
  <2>4. Front = 4
    BY <2>2, <2>3, <1>6, CeilFacts DEF Front
  <2>5. QED
    BY <2>2, <2>4, <1>4, <1>6, <1>11, <1>14
<1>15. QED
  BY <1>2, <1>12, <1>13, <1>14 DEF DriverInv, HooksInv

(* The command behind the hook, as far as the restart of a regulator that  *)
(* pauses at the hook depends on it.                                       *)
LEMMA HookedFacts ==
  ASSUME IInv, Hooking, Missed
  PROVE  /\ pos < End /\ ~ Trapped /\ word[End] # None
         /\ Head(hooks).word.at = End
         /\ hooks = TrapHooks => last = 3
         /\ hooks = RewindHooks => Ahead
<1>1. DriverInv /\ ChaseInv /\ TypeOK /\ mapped /\ ~ Wrapping /\ pc # "hook"
  BY DEF IInv, Hooking, Wrapping
<1>2. /\ U \in Nat /\ pos \in Nat /\ last \in Nat /\ hooked \in Nat /\ JumpUnit \in Nat
      /\ last < Front /\ Front \in Nat /\ dma_low \in Nat
  <2>1. U \in Nat /\ pos \in Nat /\ last \in Nat /\ hooked \in Nat
    BY <1>1, DataFacts
  <2>2. JumpUnit \in Units /\ last < Front /\ Front \in Nat /\ dma_low \in Nat
    BY <1>1, DriverFacts
  <2>3. QED
    BY <2>1, <2>2 DEF Units
<1>3. word[End] # None /\ (Ahead => End = JumpUnit)
  BY <1>1, EndFacts DEF ChaseInv
<1>4. pos = hooked
  BY DEF Missed
<1>5. CASE hooks = EndHooks
  <2>1. hooks # RewindHooks /\ hooks # TrapHooks
    BY <1>5, HooksFacts
  <2>2. hooked < last /\ last = Front - 1
    BY <1>1, <1>5 DEF DriverInv, EndInv
  <2>3. ~ Ahead /\ ~ Trapped
    BY <2>2, <1>2, <1>4 DEF Ahead, Trapped
  <2>4. End = last
    BY <2>3, <1>1 DEF End
  <2>5. Head(hooks).word.at = Front - 1
    BY <1>5, HooksFacts, WordFacts DEF EndWord
  <2>6. QED
    BY <2>1, <2>2, <2>3, <2>4, <2>5, <1>2, <1>3, <1>4
<1>6. CASE hooks = RewindHooks
  <2>1. hooks # EndHooks /\ hooks # TrapHooks
    BY <1>6, HooksFacts
  <2>2. dma_low = 4 * U /\ hooked = JumpUnit - 1 /\ 7 <= JumpUnit
    BY <2>1, <1>1, <1>6 DEF DriverInv, RewindInv
  <2>3. 4 \in Int
    OBVIOUS
  <2>4. Front = 4
    BY <2>2, <2>3, <1>2, CeilFacts DEF Front
  <2>5. Ahead /\ ~ Trapped
    BY <2>2, <2>4, <1>2, <1>4 DEF Ahead, Trapped
  <2>6. Head(hooks).word.at = JumpUnit
    BY <1>6, HooksFacts, WordFacts
  <2>7. QED
    BY <2>1, <2>2, <2>5, <2>6, <1>2, <1>3, <1>4
<1>7. CASE hooks = TrapHooks
  <2>1. hooks # EndHooks /\ hooks # RewindHooks
    BY <1>7, HooksFacts
  <2>2. hooked = 1 /\ last = 3
    BY <2>1, <1>1, <1>7 DEF DriverInv, RewindInv
  <2>3. ~ Ahead /\ ~ Trapped
    BY <2>2, <1>2, <1>4 DEF Ahead, Trapped
  <2>4. End = last
    BY <2>3, <1>1 DEF End
  <2>5. Head(hooks).word.at = 3
    BY <1>7, HooksFacts, WordFacts
  <2>6. QED
    BY <2>1, <2>2, <2>3, <2>4, <2>5, <1>3, <1>4
<1>8. hooks \in {RewindHooks, TrapHooks, EndHooks}
  BY <1>1 DEF DriverInv, HooksInv, Hooking
<1>9. QED
  BY <1>5, <1>6, <1>7, <1>8

(* Restarting the regulator where it had read the old pause. *)
LEMMA RestartMissed ==
  ASSUME IInv, Restart, phase = "paused", PausedThere, Missed
  PROVE  IInv'
<1>1. /\ Hooking /\ AfterHook /\ MoveTo(pos + 1) /\ bp' = Head(hooks).word
      /\ req' = req /\ mapped' = mapped /\ dma_low' = dma_low /\ dma_wrap' = dma_wrap
      /\ last' = last /\ hooked' = hooked
      /\ word' = word /\ fresh' = fresh /\ written' = {}
  BY DEF Restart, NoWrite, Hooking
<1>2. /\ pos' = pos + 1 /\ seen' = Now
  BY <1>1 DEF MoveTo, Missed
<1>3. /\ mapped /\ TypeOK /\ DriverInv /\ ChaseInv
      /\ Front' = Front /\ JumpUnit' = JumpUnit
      /\ ~ Wrapping /\ ~ Wrapping'
      /\ pc' \in {"idle", "fit", "hook", "idle_wait"}
      /\ (pc' = "hook" => hooks' # RewindHooks')
  <2>1. UNCHANGED <<req, mapped, dma_low, dma_wrap, last, hooked, word>>
    BY <1>1
  <2>2. QED
    BY <2>1, <1>1, AfterHookFacts
<1>4. /\ pos < End /\ ~ Trapped /\ word[End] # None /\ Head(hooks).word.at = End
  BY <1>1, HookedFacts
<1>5. /\ pos \in Nat /\ End \in Nat /\ End \in Units /\ High \in Nat
      /\ Front \in Nat /\ JumpUnit \in Nat /\ last \in Nat /\ last < Front
      /\ (~ Ahead => End < Front) /\ (Ahead => End = JumpUnit)
  <2>1. /\ pos \in Nat /\ End \in Units /\ (~ Ahead => End < Front)
        /\ (Ahead => End = JumpUnit)
    BY <1>3, EndFacts DEF ChaseInv
  <2>2. Front \in Nat /\ JumpUnit \in Units /\ last < Front
    BY <1>3, DriverFacts
  <2>3. High \in Nat /\ last \in Nat
    BY <1>3, DataFacts
  <2>4. QED
    BY <2>1, <2>2, <2>3 DEF Units
<1>6. pos + 1 \in Units
  BY <1>4, <1>5 DEF Units
<1>7. Ahead' <=> Ahead
  BY <1>2, <1>3, <1>4, <1>5 DEF Ahead
<1>8. End' = End
  <2>1. CASE Ahead
    BY <2>1, <1>3, <1>7 DEF End
  <2>2. CASE ~ Ahead
    <3>1. End = last
      BY <2>2, <1>3, <1>4 DEF End
    <3>2. ~ Trapped'
      BY <3>1, <1>1, <1>2, <1>4, <1>5 DEF Trapped
    <3>3. QED
      BY <2>2, <3>1, <3>2, <1>1, <1>3, <1>7 DEF End
  <2>3. QED
    BY <2>1, <2>2
<1>9. LineInv'
  <2>1. ASSUME Ahead
        PROVE  Chain(word, pos + 1, JumpUnit) /\ word[JumpUnit] = Word("jump", JumpUnit)
    <3>1. Chain(word, pos, JumpUnit) /\ word[JumpUnit] = Word("jump", JumpUnit)
      BY <2>1, <1>3 DEF ChaseInv, LineInv
    <3>2. QED
      BY <3>1, <1>5 DEF Chain
  <2>2. pos + 1 <= End
    BY <1>4, <1>5
  <2>3. pc' # "fill"
    BY <1>3
  <2>4. QED
    BY <2>1, <2>2, <2>3, <1>1, <1>2, <1>3, <1>7, <1>8 DEF LineInv
<1>10. word[pos + 1] # None \/ (bp'.at \in pos + 2 .. End' /\ word[bp'.at] # None)
  <2>1. pos + 1 = End \/ End \in pos + 2 .. End
    BY <1>4, <1>5
  <2>2. bp'.at = End
    BY <1>1, <1>4
  <2>3. QED
    BY <2>1, <2>2, <1>4, <1>8
<1>11. UNCHANGED <<req, mapped, dma_low, dma_wrap, last, hooked, word, fresh>>
       /\ written' \subseteq Units
  BY <1>1
<1>12. QED
  BY <1>1, <1>2, <1>6, <1>7, <1>9, <1>10, <1>11, MoveKeeps

(* Restarting it at the first pause of a lap by mistake: it runs into the  *)
(* trap.                                                                   *)
LEMMA RestartTrapped ==
  ASSUME IInv, Restart, phase = "paused", PausedThere,
         hooks = RewindHooks, pos = 1, last = 1, Front = 4, Filled(4), req # 0, ~ Ahead
  PROVE  IInv'
<1>1. /\ Hooking /\ AfterHook /\ MoveTo(pos + 1) /\ bp' = Head(hooks).word
      /\ req' = req /\ mapped' = mapped /\ dma_low' = dma_low /\ dma_wrap' = dma_wrap
      /\ last' = last /\ hooked' = hooked
      /\ word' = word /\ fresh' = fresh /\ written' = {}
  BY DEF Restart, NoWrite, Hooking
<1>2. /\ pos' = 2 /\ seen' = Now
  BY <1>1 DEF MoveTo
<1>3. /\ mapped /\ TypeOK /\ DriverInv /\ ChaseInv
      /\ Front' = Front /\ JumpUnit' = JumpUnit
      /\ ~ Wrapping /\ ~ Wrapping'
      /\ pc' \in {"idle", "fit", "hook", "idle_wait"}
      /\ (pc' = "hook" => hooks' # RewindHooks')
  <2>1. UNCHANGED <<req, mapped, dma_low, dma_wrap, last, hooked, word>>
    BY <1>1
  <2>2. QED
    BY <2>1, <1>1, AfterHookFacts
<1>4. pos + 1 \in Units
  BY ConstantFacts DEF Units
<1>5. ~ Ahead'
  BY <1>2, <1>3 DEF Ahead
<1>6. End' = 3
  BY <1>1, <1>2, <1>3, <1>5 DEF End, Trapped
<1>7. LineInv'
  <2>1. pc' # "fill"
    BY <1>3
  <2>2. QED
    BY <2>1, <1>2, <1>3, <1>5, <1>6 DEF LineInv
<1>8. word[pos + 1] # None
  <2>1. 2 \in 0 .. 4 - 1
    OBVIOUS
  <2>2. word[2] = Word("pause", 3)
    BY <2>1 DEF Filled, FillWord
  <2>3. QED
    BY <2>2, WordFacts
<1>9. UNCHANGED <<req, mapped, dma_low, dma_wrap, last, hooked, word, fresh>>
      /\ written' \subseteq Units
  BY <1>1
<1>10. Ahead' <=> Ahead
  BY <1>5
<1>11. QED
  BY <1>1, <1>2, <1>4, <1>7, <1>8, <1>9, <1>10, MoveKeeps

LEMMA RestartKeeps ==
  ASSUME IInv, RestartInv, Restart
  PROVE  IInv'
<1>1. /\ pc = "restart" /\ Hooking /\ AfterHook /\ phase = "paused"
  BY DEF Restart, Hooking, RestartInv
<1>2. CASE PausedThere
  BY <1>1, <1>2, RestartFacts, RestartMissed, RestartTrapped
<1>3. CASE ~ PausedThere
  <2>1. UNCHANGED <<req, mapped, dma_low, dma_wrap, last, hooked, word, fresh, regulatorVars>>
        /\ written' = {}
    BY <1>3 DEF Restart, NoWrite
  <2>2. TypeOK /\ mapped /\ ChaseInv
    BY <1>1 DEF IInv
  <2>3. ~ Missed
    <3>1. SUFFICES ASSUME Missed PROVE PausedThere
      BY <1>3
    <3>2. Reader = (pos + 1) * U /\ hooked = pos
      BY <1>1, <3>1 DEF Missed, Reader, HwAddr
    <3>3. Diff = 0
      <4>1. (pos + 1) * U \in Int
        BY <2>2, DataFacts
      <4>2. QED
        BY <3>2, <4>1 DEF Diff
    <3>4. 0 % (High * U) = 0
      <4>1. High * U \in Nat /\ 0 < High * U /\ 0 \in Int /\ 0 - (High * U) <= 0
        BY ConstantFacts
      <4>. DEFINE m == High * U
      <4>2. m \in Nat /\ 0 < m /\ 0 \in Int /\ 0 - m <= 0
        BY <4>1
      <4>. HIDE DEF m
      <4>3. 0 % m = IF 0 <= 0 THEN 0 ELSE 0 + m
        BY <4>2, Modulus
      <4>4. QED
        BY <4>3 DEF m
    <3>5. QED
      BY <3>3, <3>4 DEF PausedThere
  <2>4. pos = End /\ word[pos] = Word("pause", pos)
    BY <1>1, <2>2, <2>3 DEF ChaseInv, RegInv
  <2>5. QED
    BY <1>1, <2>1, <2>4, LetBe
<1>4. QED
  BY <1>2, <1>3
-----------------------------------------------------------------------------
(* Giving the buffer back: the regulator has come to the stop command. *)
LEMMA UnmapKeeps ==
  ASSUME IInv, Unmap, Dependable
  PROVE  IInv' /\ hooks' = <<>>
<1>1. /\ pc = "idle_wait" /\ ~ Running /\ pc' = "idle"
      /\ mapped' = FALSE /\ fresh' = {} /\ written' = {} /\ word' = word
      /\ req' = req /\ dma_low' = dma_low /\ dma_wrap' = dma_wrap
      /\ last' = last /\ hooks' = hooks /\ hooked' = hooked
      /\ pos' = pos /\ phase' = phase /\ bp' = bp /\ seen' = seen
  BY DEF Unmap, Dependable, Idle, regulatorVars
<1>2. DriverInv /\ ChaseInv /\ TypeOK /\ mapped
  BY <1>1 DEF IInv
<1>3. ~ Hooking /\ ~ Wrapping
  BY <1>1 DEF Hooking, Wrapping
<1>4. /\ hooks = <<>> /\ req = 0 /\ word[last] = Word("stop", last)
  BY <1>1, <1>2 DEF DriverInv, WaitInv
<1>5. ~ Ahead
  BY <1>1, <1>2, <1>3, AheadRuns
<1>6. End = last
  BY <1>3, <1>4, <1>5 DEF End, Trapped
<1>7. phase # "paused"
  <2>1. SUFFICES ASSUME phase = "paused" PROVE FALSE
    OBVIOUS
  <2>2. word[last] = Word("pause", last)
    BY <2>1, <1>2, <1>3, <1>6 DEF ChaseInv, RegInv
  <2>3. QED
    BY <2>2, <1>4, WordFacts
<1>8. phase \in {"off", "stopped"}
  BY <1>1, <1>2, <1>7 DEF TypeOK, Running
<1>9. TypeOK'
  BY <1>1, <1>2 DEF TypeOK
<1>10. QED
  BY <1>1, <1>4, <1>8, <1>9 DEF IInv

(* Between the clean-up and the next initialisation nothing is hooked. *)
EmptyInv == ~ mapped => hooks = <<>>

LEMMA InitializeKeeps ==
  ASSUME IInv, EmptyInv, Initialize
  PROVE  IInv'
<1>1. /\ pc = "idle" /\ ~ mapped /\ mapped' = TRUE
      /\ dma_low' = AlignEnd(0) /\ dma_wrap' = High * U /\ last' = LastUnit(0)
      /\ word' = [u \in Units |-> IF u = 0 THEN Word("pause", 0) ELSE None]
      /\ fresh' = {} /\ written' = {}
      /\ pos' = 0 /\ phase' = "paused" /\ bp' = Word("pause", 0) /\ seen' = Now
      /\ pc' = pc /\ req' = req /\ hooks' = hooks /\ hooked' = hooked
  BY DEF Initialize
<1>2. TypeOK /\ hooks' = <<>>
  BY <1>1 DEF IInv, EmptyInv
<1>3. U \in Nat /\ 3 <= U /\ High \in Nat /\ 12 < High /\ High * U \in Nat
      /\ 5 * U <= High * U
  <2>1. U \in Nat /\ 3 <= U /\ High \in Nat /\ 12 < High /\ High * U \in Nat
    BY ConstantFacts
  <2>2. 5 \in Int /\ High \in Int /\ 5 <= High
    BY <2>1
  <2>3. QED
    BY <2>1, <2>2, UnitOrder
<1>4. /\ dma_low' = U /\ last' = 0 /\ Front' = 1
  <2>1. 0 \in Nat /\ 0 \in Int /\ 0 = 0 * U
    BY <1>3
  <2>2. LastUnit(0) = 0
    BY <2>1, AlignFacts
  <2>3. AlignEnd(0) = (0 + 1) * U /\ Ceil(AlignEnd(0)) = 0 + 1
    BY <2>1, <2>2, AlignFacts
  <2>4. (0 + 1) * U = U
    BY <1>3
  <2>5. QED
    BY <2>2, <2>3, <2>4, <1>1 DEF Front
<1>5. JumpUnit' = High - 1
  <2>1. High * U \in Int /\ High \in Int /\ High * U <= High * U /\ High * U < High * U + U
    BY <1>3
  <2>2. (High * U) \div U = High
    BY <2>1, UnitOf
  <2>3. QED
    BY <2>2, <1>1 DEF JumpUnit
<1>6. 0 \in Units /\ High - 1 \in Units
  BY <1>3 DEF Units
<1>7. word'[0] = Word("pause", 0) /\ word'[0] # None /\ word'[0].at = 0
  BY <1>1, <1>6, WordFacts
<1>8. /\ ~ Wrapping' /\ ~ Hooking' /\ Appending' /\ ~ Ahead' /\ Shown' = 0
  BY <1>1, <1>4 DEF Wrapping, Hooking, Appending, Ahead, Shown
<1>9. End' = 0
  BY <1>4, <1>8 DEF End, Trapped
<1>10. TypeOK'
  <2>1. None \in Words /\ Word("pause", 0) \in Words
    BY <1>6 DEF None, Word, Words
  <2>2. word' \in [Units -> Words]
    BY <2>1, <1>1
  <2>3. dma_low' \in 0 .. High * U /\ dma_wrap' \in 0 .. High * U /\ Now \in Now .. High * U
    BY <1>1, <1>3, <1>4 DEF Now
  <2>4. QED
    BY <2>1, <2>2, <2>3, <1>1, <1>2, <1>4, <1>6 DEF TypeOK
<1>11. AppendInv'
  <2>1. Added' = 0 /\ Needed' = 2 * U
    BY <1>1 DEF Added, Needed
  <2>2. /\ dma_low' = (last' + 1) * U + 0 /\ last' + 1 .. Front' - 1 = {}
        /\ dma_low' + 2 * U <= High * U
    BY <1>3, <1>4
  <2>3. QED
    BY <2>1, <2>2, <1>1, <1>2, <1>4, <1>7 DEF AppendInv
<1>12. EndInv' /\ WaitInv' /\ RewindInv' /\ HooksInv'
  BY <1>8, NoHooksNext
<1>13. LapInv'
  <2>1. (High - 1 + 1) * U = High * U
    BY <1>3
  <2>2. QED
    BY <2>1, <1>1, <1>5, <1>6 DEF LapInv
<1>14. StartInv'
  BY <1>4, <1>7 DEF StartInv, Chain
<1>15. GapInv' /\ SeenInv'
  BY <1>1, <1>4, <1>8 DEF GapInv, SeenInv
<1>16. FreshInv'
  <2>1. 0 + 1 .. 1 - 1 = {}
    OBVIOUS
  <2>2. QED
    BY <2>1, <1>1, <1>4, <1>8 DEF FreshInv
<1>17. LineInv'
  BY <1>1, <1>8, <1>9 DEF LineInv
<1>18. RegInv'
  BY <1>1, <1>7, <1>9 DEF RegInv
<1>19. QED
  BY <1>1, <1>10, <1>11, <1>12, <1>13, <1>14, <1>15, <1>16, <1>17, <1>18
     DEF IInv, DriverInv, ChaseInv

(* The inductive invariant. *)
Inv == IInv /\ RestartInv /\ EmptyInv

LEMMA InitInv == Init => Inv
<1>1. SUFFICES ASSUME Init PROVE Inv
  OBVIOUS
<1>2. High \in Nat /\ 12 < High /\ U \in Nat /\ High * U \in Nat
  BY ConstantFacts
<1>3. 0 \in Units
  BY <1>2 DEF Units
<1>4. None \in Words
  BY <1>3 DEF None, Words
<1>5. word \in [Units -> Words]
  BY <1>1, <1>4 DEF Init
<1>6. TypeOK
  <2>1. Now \in Now .. High * U /\ 0 \in 0 .. High * U
    BY <1>2 DEF Now
  <2>2. hooks \in Seq([word : Words, end : Units, then : {"hook", "fit", "idle", "idle_wait"}])
        /\ Len(hooks) \in 0 .. 2
    BY <1>1, HooksTyped DEF Init
  <2>3. QED
    BY <2>1, <2>2, <1>1, <1>3, <1>4, <1>5 DEF Init, TypeOK
<1>7. QED
  BY <1>1, <1>6 DEF Init, Inv, IInv, RestartInv, EmptyInv

LEMMA StutterKeeps ==
  ASSUME IInv, UNCHANGED vars
  PROVE  IInv'
<1>1. /\ UNCHANGED driverVars /\ word' = word /\ fresh' = fresh /\ written' = written
      /\ pos' = pos /\ phase' = phase /\ bp' = bp /\ seen' = seen
  BY DEF vars, memoryVars, regulatorVars
<1>2. /\ pc' = pc /\ req' = req /\ mapped' = mapped /\ dma_low' = dma_low
      /\ last' = last /\ hooks' = hooks /\ hooked' = hooked /\ dma_wrap' = dma_wrap
  BY <1>1 DEF driverVars
<1>3. TypeOK'
  BY <1>1, <1>2 DEF IInv, TypeOK
<1>4. CASE ~ mapped
  BY <1>1, <1>2, <1>3, <1>4 DEF IInv
<1>5. CASE mapped
  <2>1. DriverInv /\ ChaseInv /\ TypeOK
    BY <1>5 DEF IInv
  <2>2. /\ Front' = Front /\ JumpUnit' = JumpUnit
        /\ (Wrapping' <=> Wrapping) /\ (Hooking' <=> Hooking) /\ DriverInv'
    BY <1>1, <2>1, RegulatorFrame
  <2>3. (Ahead' <=> Ahead) /\ End' = End /\ LineInv' /\ GapInv'
    BY <1>1, <2>1, StayingFrame DEF ChaseInv
  <2>4. SeenInv' /\ FreshInv'
    BY <1>1, <1>2, <2>1, <2>2, <2>3 DEF ChaseInv, SeenInv, FreshInv
  <2>5. RegInv'
    <3>1. (Leads' <=> Leads) /\ (Missed' <=> Missed)
      BY <1>1, <1>2, <2>3 DEF Leads, Missed
    <3>2. QED
      BY <3>1, <1>1, <1>2, <2>1, <2>2, <2>3 DEF ChaseInv, RegInv
  <2>6. QED
    BY <1>2, <1>3, <1>5, <2>2, <2>3, <2>4, <2>5 DEF IInv, ChaseInv
<1>6. QED
  BY <1>4, <1>5

(* Every step keeps the invariant, and overwrites nothing that the         *)
(* regulator needs.                                                        *)
LEMMA NextKeeps ==
  ASSUME IInv, RestartInv, EmptyInv, Next, Dependable
  PROVE  IInv' /\ Spared
<1>1. written' = {} => Spared
  BY DEF Spared
<1>2. CASE Initialize
  BY <1>1, <1>2, InitializeKeeps DEF Initialize
<1>3. CASE Dispatch
  BY <1>1, <1>3, DispatchKeeps DEF Dispatch, NoWrite
<1>4. CASE Cleanup
  BY <1>1, <1>4, CleanupKeeps DEF Cleanup, NoWrite
<1>5. CASE GiveUp
  BY <1>1, <1>5, GiveUpKeeps DEF GiveUp, NoWrite
<1>6. CASE Fit
  BY <1>1, <1>6, FitKeeps DEF Fit, NoWrite
<1>7. CASE Copy \/ PadCache \/ Close \/ RewindJump
  BY <1>7, CopyKeeps, PadCacheKeeps, CloseKeeps, RewindJumpKeeps
<1>8. CASE RewindBitblts \/ RewindFill
  BY <1>8, RewindBitbltsKeeps, RewindFillKeeps
<1>9. CASE HookWrite
  BY <1>9, HookWriteKeeps
<1>10. CASE Poll
  BY <1>1, <1>10, PollKeeps DEF Poll, NoWrite
<1>11. CASE CheckPaused
  BY <1>1, <1>11, CheckPausedKeeps DEF CheckPaused, NoWrite
<1>12. CASE Restart
  BY <1>1, <1>12, RestartKeeps DEF Restart, NoWrite
<1>13. CASE Unmap
  BY <1>1, <1>13, UnmapKeeps DEF Unmap
<1>14. CASE Regulator
  BY <1>1, <1>14, RegulatorKeeps DEF Regulator
<1>15. QED
  BY <1>2, <1>3, <1>4, <1>5, <1>6, <1>7, <1>8, <1>9, <1>10, <1>11, <1>12, <1>13, <1>14
     DEF Next, DriverStep

LEMMA RestartStep ==
  ASSUME IInv, RestartInv, Next
  PROVE  RestartInv'
<1>1. CASE Regulator
  BY <1>1 DEF RestartInv, Regulator, driverVars, Execute, Fetch, GoOn, Halt, Jump, CatchUp
<1>2. CASE CheckPaused
  <2>1. CASE phase = "paused"
    BY <1>2, <2>1 DEF RestartInv, CheckPaused, regulatorVars
  <2>2. CASE phase # "paused"
    <3>1. Hooking /\ AfterHook
          /\ UNCHANGED <<req, mapped, dma_low, dma_wrap, last, hooked, word>>
      BY <1>2, <2>2 DEF CheckPaused, Hooking, NoWrite
    <3>2. pc' # "restart"
      BY <3>1, AfterHookFacts
    <3>3. QED
      BY <3>2 DEF RestartInv
  <2>3. QED
    BY <2>1, <2>2
<1>3. CASE Restart
  <2>1. pc' # "restart"
    <3>1. Hooking /\ AfterHook
          /\ UNCHANGED <<req, mapped, dma_low, dma_wrap, last, hooked, word>>
      BY <1>3 DEF Restart, Hooking, NoWrite
    <3>2. QED
      BY <3>1, AfterHookFacts
  <2>2. QED
    BY <2>1 DEF RestartInv
<1>4. CASE CheckPaused \/ Restart
  BY <1>2, <1>3, <1>4
<1>5. CASE Initialize \/ Dispatch \/ Cleanup \/ GiveUp \/ Fit \/ Copy \/ PadCache \/ Close
  BY <1>5 DEF RestartInv, Initialize, Dispatch, Cleanup, GiveUp, Fit, Copy, PadCache, Close
<1>6. CASE RewindJump \/ RewindBitblts \/ RewindFill \/ HookWrite \/ Poll \/ Unmap
  BY <1>6 DEF RestartInv, RewindJump, RewindBitblts, RewindFill, HookWrite, Poll, Unmap
<1>7. QED
  BY <1>1, <1>4, <1>5, <1>6 DEF Next, DriverStep

LEMMA EmptyStep ==
  ASSUME IInv, EmptyInv, Next, Dependable
  PROVE  EmptyInv'
<1>1. CASE Unmap
  BY <1>1, UnmapKeeps DEF EmptyInv
<1>2. CASE Initialize
  BY <1>2 DEF EmptyInv, Initialize
<1>3. CASE Regulator
  BY <1>3 DEF EmptyInv, Regulator, driverVars
<1>4. CASE Dispatch \/ Cleanup \/ GiveUp \/ Fit \/ Copy \/ PadCache \/ Close
  <2>1. mapped /\ mapped' = mapped
    BY <1>4 DEF IInv, Dispatch, Cleanup, GiveUp, Fit, Copy, PadCache, Close
  <2>2. QED
    BY <2>1 DEF EmptyInv
<1>5. CASE RewindJump \/ RewindBitblts \/ RewindFill \/ HookWrite \/ Poll
  <2>1. mapped /\ mapped' = mapped
    BY <1>5 DEF IInv, RewindJump, RewindBitblts, RewindFill, HookWrite, Poll
  <2>2. QED
    BY <2>1 DEF EmptyInv
<1>6. CASE CheckPaused \/ Restart
  <2>1. mapped /\ mapped' = mapped
    BY <1>6 DEF IInv, CheckPaused, Restart
  <2>2. QED
    BY <2>1 DEF EmptyInv
<1>7. QED
  BY <1>1, <1>2, <1>3, <1>4, <1>5, <1>6 DEF Next, DriverStep

LEMMA InvStep ==
  ASSUME Dependable
  PROVE  Inv /\ [Next]_vars => Inv' /\ (Spared \/ UNCHANGED vars)
<1>1. ASSUME Inv, Next PROVE Inv' /\ Spared
  BY <1>1, NextKeeps, RestartStep, EmptyStep DEF Inv
<1>2. ASSUME Inv, UNCHANGED vars PROVE Inv'
  <2>1. IInv'
    BY <1>2, StutterKeeps DEF Inv
  <2>2. pc' = pc /\ phase' = phase /\ mapped' = mapped /\ hooks' = hooks
    BY <1>2 DEF vars, driverVars, regulatorVars
  <2>3. QED
    BY <2>1, <2>2, <1>2 DEF Inv, RestartInv, EmptyInv
<1>3. QED
  BY <1>1, <1>2
-----------------------------------------------------------------------------
(* What the invariant says between two calls. *)
LEMMA IdleFacts ==
  ASSUME IInv, pc = "idle", mapped
  PROVE  /\ TypeOK /\ DriverInv /\ ChaseInv /\ ~ Wrapping /\ ~ Hooking /\ ~ Stopping
         /\ U \in Nat /\ 3 <= U /\ High * U \in Nat /\ 0 < High * U
         /\ pos \in Nat /\ Front \in Nat /\ JumpUnit \in Nat /\ last # 1
         /\ dma_low \in Nat /\ dma_low = Front * U /\ dma_low <= High * U
         /\ Front = last + 1
         /\ dma_wrap = JumpUnit * U + U /\ dma_wrap <= High * U /\ JumpUnit * U \in Nat
         /\ Kept = 2 * U
<1>1. TypeOK /\ DriverInv /\ ChaseInv
  BY DEF IInv
<1>2. ~ Wrapping /\ ~ Hooking /\ ~ Stopping /\ Appending
  BY DEF Wrapping, Hooking, Stopping, Appending
<1>3. /\ U \in Nat /\ 3 <= U /\ High * U \in Nat /\ pos \in Nat /\ Front \in Nat
      /\ dma_low \in Nat /\ dma_low <= High * U /\ last \in Nat
      /\ U + 1 + 6 * U + Margin < High * U /\ Margin \in Nat
  BY <1>1, DataFacts, ConstantFacts
<1>4. last # 1 /\ dma_low = (last + 1) * U + 0
  BY <1>1, <1>2 DEF DriverInv, AppendInv, Added
<1>5. Front = last + 1 /\ dma_low = Front * U
  <2>1. dma_low = (last + 1) * U /\ last + 1 \in Int
    BY <1>3, <1>4
  <2>2. Front = last + 1
    BY <2>1, <1>3, CeilFacts DEF Front
  <2>3. QED
    BY <2>1, <2>2
<1>6. /\ dma_wrap = (JumpUnit + 1) * U /\ JumpUnit \in Units
  BY <1>1 DEF DriverInv, LapInv
<1>7. JumpUnit \in Nat
  BY <1>6, ConstantFacts DEF Units
<1>8. JumpUnit * U \in Nat /\ (JumpUnit + 1) * U = JumpUnit * U + U
  BY <1>3, <1>7
<1>9. dma_wrap <= High * U
  BY <1>1, <1>3 DEF TypeOK
<1>10. Kept = 2 * U
  BY DEF Kept
<1>11. QED
  BY <1>1, <1>2, <1>3, <1>4, <1>5, <1>6, <1>7, <1>8, <1>9, <1>10

(* What the reading of the address register is worth between two calls. *)
LEMMA IdleReader ==
  ASSUME IInv, pc = "idle", mapped
  PROVE  /\ Reader \in Nat
         /\ Reader <= dma_low => /\ ~ Ahead /\ Reader <= (pos + 1) * U
         /\ ~ (Reader <= dma_low) =>
              /\ Reader <= dma_wrap
              /\ Ahead => Reader <= pos * U + 1
<1>1. /\ TypeOK /\ DriverInv /\ ChaseInv /\ ~ Wrapping /\ ~ Hooking /\ ~ Stopping
      /\ U \in Nat /\ 3 <= U /\ pos \in Nat /\ Front \in Nat /\ JumpUnit \in Nat
      /\ dma_low \in Nat /\ dma_low = Front * U
      /\ dma_wrap = JumpUnit * U + U /\ JumpUnit * U \in Nat
      /\ Kept = 2 * U
  BY IdleFacts
<1>2. CASE Front <= Shown
  <2>1. /\ Reader \in Nat /\ Shown * U \in Nat
        /\ Shown * U <= Reader /\ Reader <= Shown * U + 1
    BY <1>1, <1>2, ShownReader
  <2>2. dma_low + 2 * U <= Shown * U /\ pos <= JumpUnit
    BY <1>1, <1>2 DEF ChaseInv, GapInv
  <2>3. ~ (Reader <= dma_low)
    BY <2>1, <2>2, <1>1
  <2>4. Shown \in Nat /\ Shown <= JumpUnit
    BY <2>2, <1>1 DEF Shown
  <2>5. Shown * U <= JumpUnit * U
    BY <2>4, <1>1, UnitOrder
  <2>6. Reader <= dma_wrap
    BY <2>1, <2>5, <1>1
  <2>7. Ahead => Shown = pos
    BY <1>1, AheadSeesNow DEF Shown
  <2>8. QED
    BY <2>1, <2>3, <2>6, <2>7
<1>3. CASE ~ (Front <= Shown)
  <2>1. seen = Now
    BY <1>1, <1>3 DEF ChaseInv, SeenInv, Shown
  <2>2. Shown = pos /\ Reader = HwAddr
    BY <2>1 DEF Shown, Reader
  <2>3. ~ Ahead /\ pos + 1 <= Front
    BY <2>2, <1>1, <1>3 DEF Ahead
  <2>4. HwAddr \in Nat /\ HwAddr <= (pos + 1) * U /\ (pos + 1) * U \in Nat
    <3>1. /\ HwAddr \in Nat /\ pos * U \in Nat /\ (pos + 1) * U = pos * U + U
          /\ (Running => HwAddr <= pos * U + 1)
          /\ (~ Running => HwAddr = (pos + 1) * U)
      BY <1>1, ReaderFacts
    <3>2. QED
      BY <3>1, <1>1
  <2>5. (pos + 1) * U <= Front * U /\ Front * U \in Int
    <3>1. pos + 1 \in Int /\ Front \in Int
      BY <1>1
    <3>2. QED
      BY <3>1, <2>3, UnitOrder
  <2>6. Reader <= dma_low
    BY <2>2, <2>4, <2>5, <1>1
  <2>7. QED
    BY <2>2, <2>3, <2>4, <2>6
<1>4. QED
  BY <1>2, <1>3

(* What has still to be executed. *)
LEMMA WaitingFacts ==
  ASSUME IInv, pc = "idle", mapped, NEW q \in Waiting
  PROVE  /\ q \in Nat
         /\ \/ q < dma_low /\ (~ Ahead => (pos + 1) * U <= q)
            \/ Ahead /\ dma_low <= q /\ (pos + 1) * U <= q /\ q < dma_wrap
<1>1. /\ TypeOK /\ DriverInv /\ ChaseInv /\ ~ Wrapping /\ ~ Hooking
      /\ U \in Nat /\ 3 <= U /\ pos \in Nat /\ Front \in Nat /\ JumpUnit \in Nat
      /\ dma_low \in Nat /\ dma_low = Front * U
      /\ dma_wrap = JumpUnit * U + U /\ JumpUnit * U \in Nat
  BY IdleFacts
<1>2. PICK u \in fresh \ (IF Running THEN {pos} ELSE {}), i \in 0 .. U - 1 : q = u * U + i
  BY DEF Waiting
<1>3. u \in IF Ahead THEN (pos + 1 .. JumpUnit) \cup (0 .. Front - 1) ELSE pos + 1 .. Front - 1
  <2>1. phase = "enter" => Running
    BY DEF Running
  <2>2. QED
    BY <2>1, <1>1, <1>2 DEF ChaseInv, FreshInv
<1>4. u \in Nat /\ i \in Nat /\ i < U
  BY <1>1, <1>2, <1>3
<1>5. u * U \in Nat /\ q \in Nat /\ u * U <= q /\ q < u * U + U
  BY <1>1, <1>2, <1>4
<1>6. (pos + 1) * U \in Int /\ pos + 1 \in Int
  BY <1>1
<1>7. CASE u < Front
  <2>1. u * U + U <= Front * U
    BY <1>1, <1>4, <1>7, UnitOrder
  <2>2. q < dma_low
    BY <2>1, <1>1, <1>5
  <2>3. ~ Ahead => (pos + 1) * U <= u * U
    BY <1>1, <1>3, <1>4, <1>6, UnitOrder
  <2>4. ~ Ahead => (pos + 1) * U <= q
    BY <2>3, <1>5, <1>6
  <2>5. QED
    BY <2>2, <2>4, <1>5
<1>8. CASE ~ (u < Front)
  <2>1. Ahead /\ pos + 1 <= u /\ u <= JumpUnit
    BY <1>1, <1>3, <1>4, <1>8
  <2>2. Front <= u
    BY <1>1, <1>4, <1>8
  <2>3. (pos + 1) * U <= u * U /\ u * U <= JumpUnit * U /\ Front * U <= u * U
    BY <2>1, <2>2, <1>1, <1>4, <1>6, UnitOrder
  <2>4. (pos + 1) * U <= q /\ q < dma_wrap /\ dma_low <= q
    BY <2>3, <1>1, <1>5, <1>6
  <2>5. QED
    BY <2>1, <2>4, <1>5
<1>9. QED
  BY <1>7, <1>8

(* Between calls the lag covers what waits, and the space is free of it. *)
LEMMA LagAndSpace ==
  ASSUME IInv
  PROVE  LagAndSpaceTrue
<1>1. SUFFICES ASSUME pc = "idle", mapped, NEW q \in Waiting
               PROVE  /\ IF q < dma_low THEN dma_low - q <= Lag
                                        ELSE dma_wrap + dma_low - q <= Lag
                      /\ (q - dma_low) % (High * U) >= Space
  BY DEF LagAndSpaceTrue
<1>2. /\ U \in Nat /\ 3 <= U /\ High * U \in Nat /\ 0 < High * U /\ pos \in Nat
      /\ dma_low \in Nat /\ dma_low <= High * U
      /\ dma_wrap \in Nat /\ dma_wrap <= High * U
  BY <1>1, IdleFacts
<1>3. /\ Reader \in Nat
      /\ Reader <= dma_low => /\ ~ Ahead /\ Reader <= (pos + 1) * U
      /\ ~ (Reader <= dma_low) => /\ Reader <= dma_wrap
                                  /\ Ahead => Reader <= pos * U + 1
  BY <1>1, IdleReader
<1>4. /\ q \in Nat
      /\ \/ q < dma_low /\ (~ Ahead => (pos + 1) * U <= q)
         \/ Ahead /\ dma_low <= q /\ (pos + 1) * U <= q /\ q < dma_wrap
  BY <1>1, WaitingFacts
<1>5. pos * U \in Nat /\ (pos + 1) * U = pos * U + U
  BY <1>1, ReaderFacts DEF IInv
<1>. DEFINE m == High * U
<1>6. (q - dma_low) % m = IF dma_low <= q THEN q - dma_low ELSE q - dma_low + m
  <2>1. m \in Nat /\ 0 < m /\ q - dma_low \in Int /\ 0 - m <= q - dma_low /\ q - dma_low < m
    BY <1>2, <1>4
  <2>. HIDE DEF m
  <2>2. (q - dma_low) % m = IF 0 <= q - dma_low THEN q - dma_low ELSE q - dma_low + m
    BY <2>1, Modulus
  <2>3. QED
    BY <2>2, <1>2, <1>4
<1>7. CASE Reader <= dma_low
  <2>1. Lag = dma_low - Reader /\ Space = m + Reader - dma_low
    BY <1>7 DEF Lag, Space
  <2>2. q < dma_low /\ Reader <= q
    BY <1>2, <1>3, <1>4, <1>5, <1>7
  <2>3. (q - dma_low) % m = q - dma_low + m
    BY <2>2, <1>2, <1>4, <1>6
  <2>. HIDE DEF m
  <2>4. m \in Nat
    BY <1>2 DEF m
  <2>5. dma_low - q <= Lag /\ q - dma_low + m >= Space
    BY <2>1, <2>2, <2>4, <1>2, <1>3, <1>4
  <2>6. QED
    BY <2>2, <2>3, <2>5 DEF m
<1>8. CASE ~ (Reader <= dma_low)
  <2>1. Lag = dma_wrap + dma_low - Reader /\ Space = Reader - dma_low
    BY <1>8 DEF Lag, Space
  <2>2. CASE q < dma_low
    <3>1. (q - dma_low) % m = q - dma_low + m
      BY <2>2, <1>2, <1>4, <1>6
    <3>. HIDE DEF m
    <3>2. m \in Nat /\ dma_wrap <= m
      BY <1>2 DEF m
    <3>3. dma_low - q <= Lag /\ q - dma_low + m >= Space
      BY <2>1, <2>2, <3>2, <1>2, <1>3, <1>4, <1>8
    <3>4. QED
      BY <2>2, <3>1, <3>3 DEF m
  <2>3. CASE ~ (q < dma_low)
    <3>1. Ahead /\ Reader <= q
      BY <2>3, <1>2, <1>3, <1>4, <1>5, <1>8
    <3>2. (q - dma_low) % m = q - dma_low
      BY <2>3, <1>2, <1>4, <1>6
    <3>3. dma_wrap + dma_low - q <= Lag /\ q - dma_low >= Space
      BY <2>1, <3>1, <1>2, <1>3, <1>4
    <3>4. QED
      BY <2>3, <3>2, <3>3
  <2>4. QED
    BY <2>2, <2>3
<1>9. QED
  BY <1>7, <1>8

-----------------------------------------------------------------------------
(* The strengthened invariant holds of every state of the buffer. *)
THEOREM Invariance ==
  ASSUME Dependable
  PROVE  Spec => []Inv
<1>1. Init => Inv
  BY InitInv
<1>2. Inv /\ [Next]_vars => Inv'
  BY InvStep
<1>3. QED
  BY <1>1, <1>2, PTL DEF Spec

(* The variables have their types: the writes stay in the buffer. *)
THEOREM TypesOfTheBuffer ==
  ASSUME Dependable
  PROVE  Spec => []TypeOK
<1>1. Inv => TypeOK
  BY DEF Inv, IInv
<1>2. Spec => []Inv
  BY Invariance
<1>3. QED
  BY <1>1, <1>2, PTL

(* No write of the driver hits a unit that the regulator has still to      *)
(* execute or is executing: chrome_check_dma, chrome_cmdbuf_wait and the   *)
(* test for a rewind keep it behind the regulator's back.                  *)
THEOREM NothingOverwritten ==
  ASSUME Dependable
  PROVE  Spec => NoOverwrite
<1>1. Inv /\ [Next]_vars
        => [written' \cap (fresh \cup (IF Running THEN {pos} ELSE {})) = {}]_vars
  BY InvStep DEF Spared
<1>2. Spec => []Inv
  BY Invariance
<1>3. QED
  BY <1>1, <1>2, PTL DEF Spec, NoOverwrite

(* The regulator enters no unit that was not written since it was there,   *)
(* not even when a restart comes too early, and chrome_dma_cleanup gives   *)
(* the buffer back only when it has stopped.                               *)
THEOREM OnlyNewUnitsRun ==
  ASSUME Dependable
  PROVE  Spec => []RunsOnlyNew
<1>1. Inv => RunsOnlyNew
  BY DEF Inv, IInv, ChaseInv, FreshInv, RunsOnlyNew
<1>2. Spec => []Inv
  BY Invariance
<1>3. QED
  BY <1>1, <1>2, PTL

(* Between calls chrome_cmdbuf_lag covers all that is left to execute and  *)
(* chrome_cmdbuf_space is free of it, also while the address register      *)
(* still shows the jump of the lap before.                                 *)
THEOREM LagAndSpaceCover ==
  ASSUME Dependable
  PROVE  Spec => []LagAndSpaceTrue
<1>1. Inv => LagAndSpaceTrue
  BY LagAndSpace DEF Inv
<1>2. Spec => []Inv
  BY Invariance
<1>3. QED
  BY <1>1, <1>2, PTL

(* Between calls the regulator does not pause with something left to       *)
(* execute: chrome_hook_segment never leaves it at a pause that it had     *)
(* read before the pause was overwritten.                                  *)
THEOREM NoStall ==
  ASSUME Dependable
  PROVE  Spec => []NeverStalls
<1>1. Inv => NeverStalls
  <2>1. SUFFICES ASSUME Inv, pc = "idle", mapped, phase = "paused" PROVE fresh = {}
    BY DEF NeverStalls
  <2>2. IInv
    BY <2>1 DEF Inv
  <2>3. /\ TypeOK /\ DriverInv /\ ChaseInv /\ ~ Wrapping /\ ~ Hooking
        /\ pos \in Nat /\ Front = last + 1 /\ last # 1
    BY <2>1, <2>2, IdleFacts
  <2>4. ~ Ahead
    BY <2>1, <2>3, AheadRuns DEF Running
  <2>5. pos = last
    BY <2>1, <2>3, <2>4 DEF ChaseInv, RegInv, End, Trapped
  <2>6. fresh = pos + 1 .. Front - 1
    BY <2>1, <2>3, <2>4 DEF ChaseInv, FreshInv
  <2>7. QED
    BY <2>3, <2>5, <2>6
<1>2. Spec => []Inv
  BY Invariance
<1>3. QED
  BY <1>1, <1>2, PTL

-----------------------------------------------------------------------------
(***************************************************************************)
(* The streams of the same chips (Verifier.tla): of a stream of the form   *)
(* WellWritten states, whatever streams are before it, the second walk     *)
(* meets the sections the verifier has found.                              *)
(*                                                                         *)
(* The sections lead to one another (SectionLeads), whatever the two walks *)
(* do in between: from a list over the fires that are noted in it, from    *)
(* the words of a table up to the next header, from registers by pairs,    *)
(* from a video command by its count.  The verifier establishes this       *)
(* section by section (Complete), with a function H that gives the state   *)
(* of the engine at each word; the second walk follows it.                 *)
(***************************************************************************)

Lists == {"B", "Bsmall"}
Tables == {"NotTex", "Tex0", "Tex1", "TexGeneral"}
EngineStates == [multitex : {0, 1}, addr : [TextureUnits -> [1 .. 2 -> {0, 1}]],
                 inAgp : [TextureUnits -> BOOLEAN], last : TextureUnits]

(* A word of the stream s, and the fires F of its lists: where the word    *)
(* after a fire, which may come twice, is, and where the list after the    *)
(* first c fires begins in the section at p.                               *)
In(s, i) == IF i < Len(s) THEN s[i + 1] ELSE "none"
After(s, f) == IF In(s, f + 1) \in Fires THEN f + 2 ELSE f + 1
Start(s, F, p, c) == IF c = 0 \/ F[c] < p THEN p + 2 ELSE After(s, F[c])

(* Of the fires, the first c are before q and the others not before p. *)
Within(F, p, q, c) ==
  /\ c = 0 \/ F[c] < q
  /\ c = Len(F) \/ p <= F[c + 1]

(* Where a section at p leads to, by its kind. *)
ListsLead(s, F, p, q) ==
  \A c \in 0 .. Len(F) : Within(F, p, q, c) =>
    IF c < Len(F) /\ F[c + 1] < q
    THEN Start(s, F, p, c) <= F[c + 1] /\ In(s, Start(s, F, p, c)) \in Lists
    ELSE Start(s, F, p, c) = q
WordsLead(s, H, p, q) ==
  /\ p + 2 <= q /\ H[p + 2] = H[p]
  /\ \A i \in p + 2 .. q - 1 :
       In(s, i) \notin Headers /\ H[i + 1] = Effect(H[i], In(s, p + 1), In(s, i))
PairsLead(s, p, q) ==
  \E n \in 0 .. Len(s) : q = p + 2 * n /\ \A k \in 0 .. n - 1 : In(s, p + 2 * k) \in Registers
VideoEnd(p, n) == p + 4 + n + Filler(n)

NoFire(F, p, q) == \A c \in 1 .. Len(F) : F[c] < p \/ q <= F[c]

SectionLeads(s, F, H, p, q) ==
  /\ p < q /\ q <= Len(s)
  /\ \/ /\ In(s, p) = "H2" /\ In(s, p + 1) = "Vdata" /\ H[q] = H[p]
        /\ ListsLead(s, F, p, q)
     \/ /\ In(s, p) = "H2" /\ In(s, p + 1) # "Vdata" /\ NoFire(F, p, q)
        /\ WordsLead(s, H, p, q)
     \/ /\ In(s, p) \in Registers /\ NoFire(F, p, q) /\ H[q] = H[p]
        /\ PairsLead(s, p, q) /\ In(s, q) \notin Registers
     \/ /\ In(s, p) \in Video5 /\ NoFire(F, p, q) /\ H[q] = H[p]
        /\ q = VideoEnd(p, NumberOf(In(s, p + 1)))
     \/ /\ In(s, p) = "V6" /\ NoFire(F, p, q) /\ H[q] = H[p]
        /\ q = VideoEnd(p, 2 * NumberOf(In(s, p + 1)))

(* The sections S follow one another from the start of the stream to e. *)
Follows(S, p, q) == p < q /\ \A r \in S : r <= p \/ q <= r
Complete(s, F, H, S, e) ==
  /\ S \subseteq 0 .. e - 1 /\ e \in 0 .. Len(s) /\ (e = 0 \/ 0 \in S)
  /\ \A p \in S : \E q \in S \cup {e} : Follows(S, p, q) /\ SectionLeads(s, F, H, p, q)

Ascending(s, F) ==
  /\ F \in Seq(Nat)
  /\ \A c \in 1 .. Len(F) : F[c] < Len(s)
  /\ \A c, d \in 1 .. Len(F) : c < d => F[c] < F[d]

AllBelow(F, p) == \A c \in 1 .. Len(F) : F[c] < p

(* The verifier is in the section at p. *)
InSection(H, p) ==
  /\ p \in sections /\ Complete(stream, fires, H, sections \ {p}, p)
  /\ p <= buf /\ buf <= Len(stream) /\ p < Len(stream)
  /\ state \in {"list", "vertices"} =>
       /\ In(stream, p) = "H2" /\ In(stream, p + 1) = "Vdata" /\ AllBelow(fires, buf)
       /\ p + 2 <= buf
       /\ \A c \in 0 .. Len(fires) - 1 : p <= fires[c + 1] =>
            /\ Start(stream, fires, p, c) <= fires[c + 1]
            /\ In(stream, Start(stream, fires, p, c)) \in Lists
  /\ state \notin {"list", "vertices"} => AllBelow(fires, p)
  /\ state = "table" =>
       /\ In(stream, p) = "H2" /\ para = In(stream, p + 1) /\ para \in Tables
       /\ WordsLead(stream, H, p, buf)
  /\ state # "table" => \A i \in p .. Len(stream) : H[i] = hc
  /\ state = "list" =>
       LET b == Start(stream, fires, p, Len(fires)) IN
       \/ buf = b
       \/ failed /\ b < buf /\ In(stream, b) \in Lists
       \/ In(stream, buf) = "otherFire"
  /\ state = "vertices" =>
       LET b == Start(stream, fires, p, Len(fires)) IN
       b < buf /\ In(stream, b) \in Lists /\ size \in Nat \ {0}
  /\ state = "header1" => In(stream, p) \in Registers /\ PairsLead(stream, p, buf)
  /\ state \in {"header2", "vheader5", "vheader6"} => buf = p
  /\ state = "header2" => In(stream, p) = "H2"
  /\ state = "vheader5" => In(stream, p) \in Video5
  /\ state = "vheader6" => In(stream, p) = "V6"

(* The second walk is in the section at p, which leads to q. *)
InExecuted(H, p, q) ==
  /\ p \in sections /\ q \in sections \cup {Len(stream)}
  /\ Follows(sections, p, q) /\ SectionLeads(stream, fires, H, p, q)
  /\ executed = {r \in sections : r <= p}
  /\ Within(fires, p, IF state = "execLists" THEN q ELSE p, fireCount)
  /\ ~parted => hw = IF state = "execWords" THEN H[buf] ELSE H[p]
  /\ state = "execHeader2" => buf = p /\ In(stream, p) = "H2"
  /\ state = "execLists" =>
       /\ In(stream, p) = "H2" /\ In(stream, p + 1) = "Vdata"
       /\ buf = Start(stream, fires, p, fireCount)
  /\ state = "execWords" =>
       /\ In(stream, p) = "H2" /\ In(stream, p + 1) # "Vdata"
       /\ para = In(stream, p + 1) /\ buf \in p + 2 .. q
  /\ state = "execHeader1" =>
       In(stream, p) \in Registers /\ buf <= q /\ \E k \in 0 .. Len(stream) : buf = p + 2 * k
  /\ state = "execVheader5" => buf = p /\ In(stream, p) \in Video5
  /\ state = "execVheader6" => buf = p /\ In(stream, p) = "V6"

Checking == {"header2", "table", "list", "vertices", "header1", "vheader5", "vheader6"}
Executing == {"execHeader2", "execLists", "execWords", "execHeader1",
              "execVheader5", "execVheader6"}
Busy == {"command", "accepted", "error", "exec", "executed"} \cup Checking \cup Executing

(* What is to be shown of a call, with the state of the engine at each word *)
(* of the stream (H); of the engine itself only until hc_state has parted  *)
(* from it.                                                                *)
CallInv(H) ==
  /\ Ascending(stream, fires) /\ buf \in Nat /\ state # "execError"
  /\ state \in {"command", "accepted"} \cup Checking =>
       executed = {} /\ fireCount = 0 /\ H[0] = saved
  /\ state \in {"command", "accepted", "error"} \cup Checking => (~parted => hw = saved)
  /\ state = "command" =>
       \/ In(stream, buf) = "otherFire"
       \/ /\ Complete(stream, fires, H, sections, buf) /\ AllBelow(fires, buf)
          /\ \A i \in buf .. Len(stream) : H[i] = hc
  /\ state \in Checking => /\ \E p \in sections : InSection(H, p)
                           /\ \A i \in buf .. Len(stream) : H[i] = hc
  /\ state \in {"accepted", "exec", "executed"} \cup Executing =>
       Complete(stream, fires, H, sections, Len(stream)) /\ H[Len(stream)] = hc
  /\ state \in {"exec"} \cup Executing => fireCount \in 0 .. Len(fires)
  /\ state = "exec" =>
       /\ buf \in sections \cup {Len(stream)} /\ Within(fires, buf, buf, fireCount)
       /\ executed = {r \in sections : r < buf}
       /\ ~parted => hw = H[buf]
  /\ state \in Executing =>
       \E p \in sections, q \in sections \cup {Len(stream)} : InExecuted(H, p, q)
  /\ state = "executed" =>
       /\ buf = Len(stream) /\ executed = sections /\ fireCount = Len(fires)
       /\ ~parted => hw = hc

IdleInv ==
  /\ sections = {} /\ executed = {} /\ buf = 0 /\ fireCount = 0
  /\ ~parted => hw = hc

Types ==
  /\ hc \in EngineStates /\ saved \in EngineStates
  /\ (state # "idle" => stream \in Streams)
  /\ state \in {"idle", "execError"} \cup Busy
  /\ parted \in BOOLEAN

(* Of a stream of another form no more than this is known: until it is     *)
(* executed the engine is in the state that is saved.                      *)
Unexecuted ==
  state \in {"command", "accepted", "error"} \cup Checking => (~parted => hw = saved)

WalkInv(H) ==
  /\ Types
  /\ state = "idle" => IdleInv
  /\ state # "idle" => Unexecuted /\ (WellWritten(stream) => CallInv(H))
-----------------------------------------------------------------------------
(* Constant facts. *)

LEMMA WordsRead == \A i : WordAt(i) = In(stream, i)
  BY DEF WordAt, In

LEMMA InEnd ==
  ASSUME NEW s \in Streams, NEW i \in Nat
  PROVE  /\ In(s, i) = "none" <=> i >= Len(s)
         /\ Len(s) \in Nat \ {0} /\ s \in Seq(STRING)
<1>1. s \in Seq(STRING) /\ s # <<>> /\ \A j \in DOMAIN s : s[j] # "none"
  BY StreamsAssumption
<1>2. Len(s) \in Nat \ {0} /\ DOMAIN s = 1 .. Len(s)
  BY <1>1
<1>3. ASSUME i < Len(s) PROVE s[i + 1] # "none"
  BY <1>1, <1>2, <1>3
<1>. QED
  BY <1>1, <1>2, <1>3 DEF In

(* What WellWritten says, by position. *)
LEMMA Written ==
  ASSUME NEW s \in Streams, WellWritten(s), NEW i \in Nat, i < Len(s)
  PROVE  /\ In(s, i) \in Registers => i + 2 <= Len(s) /\ (i + 2 < Len(s) => In(s, i + 2) \in Headers)
         /\ In(s, i) = "H2" => \A j \in i + 2 .. Len(s) - 1 :
              j < i + 2 + Eaten(In(s, i + 1)) => In(s, j) \notin Headers
<1>1. s \in Seq(STRING) /\ Len(s) \in Nat /\ DOMAIN s = 1 .. Len(s)
  BY StreamsAssumption
<1>2. In(s, i) = s[i + 1] /\ i + 1 \in DOMAIN s /\ i + 1 + 1 = i + 2 /\ i + 1 + 2 = i + 3
  BY <1>1 DEF In
<1>3. \A j \in Nat : j < Len(s) => In(s, j) = s[j + 1]
  BY DEF In
<1>4. /\ s[i + 1] \in Registers => i + 1 < Len(s) /\ (i + 3 <= Len(s) => s[i + 3] \in Headers)
      /\ s[i + 1] = "H2" /\ i + 1 < Len(s) =>
         \A j \in i + 3 .. Len(s) : j < i + 3 + Eaten(s[i + 2]) => s[j] \notin Headers
  BY <1>1, <1>2 DEF WellWritten
<1>5. ASSUME In(s, i) = "H2", NEW j \in i + 2 .. Len(s) - 1, j < i + 2 + Eaten(In(s, i + 1))
      PROVE  In(s, j) \notin Headers
  <2>1. In(s, i + 1) = s[i + 2] /\ i + 1 < Len(s) /\ In(s, j) = s[j + 1]
    BY <1>1, <1>3, <1>5
  <2>2. j + 1 \in i + 3 .. Len(s) /\ j + 1 < i + 3 + Eaten(s[i + 2])
    BY <1>1, <1>5, <2>1, BoundsAssumption, SMTT(30) DEF Eaten
  <2>. QED
    BY <1>2, <1>4, <1>5, <2>1, <2>2
<1>6. In(s, i) \in Registers => i + 2 <= Len(s) /\ (i + 2 < Len(s) => In(s, i + 2) \in Headers)
  BY <1>1, <1>2, <1>3, <1>4
<1>. QED
  BY <1>5, <1>6

(* A new fire changes nothing in what is before it. *)
LEMMA MoreFires ==
  ASSUME NEW s, NEW F \in Seq(Nat), NEW H, NEW p \in Nat, NEW q \in Nat, NEW f \in Nat,
         SectionLeads(s, F, H, p, q), q <= f
  PROVE  SectionLeads(s, Append(F, f), H, p, q)
<1>. DEFINE G == Append(F, f)
<1>1. /\ G \in Seq(Nat) /\ Len(G) = Len(F) + 1 /\ Len(F) \in Nat
      /\ \A c \in 1 .. Len(F) : G[c] = F[c] /\ F[c] \in Nat
      /\ G[Len(F) + 1] = f
  OBVIOUS
<1>. HIDE DEF G
<1>2. NoFire(F, p, q) => NoFire(G, p, q)
  <2>. SUFFICES ASSUME NoFire(F, p, q), NEW c \in 1 .. Len(G) PROVE G[c] < p \/ q <= G[c]
    BY DEF NoFire
  <2>. QED
    BY <1>1, SMTT(30) DEF NoFire
<1>3. ASSUME ListsLead(s, F, p, q) PROVE ListsLead(s, G, p, q)
  <2>. SUFFICES ASSUME NEW c \in 0 .. Len(G), Within(G, p, q, c)
                PROVE  IF c < Len(G) /\ G[c + 1] < q
                       THEN Start(s, G, p, c) <= G[c + 1] /\ In(s, Start(s, G, p, c)) \in Lists
                       ELSE Start(s, G, p, c) = q
    BY DEF ListsLead
  <2>1. c # Len(F) + 1
    BY <1>1 DEF Within
  <2>2. c \in 0 .. Len(F) /\ Start(s, G, p, c) = Start(s, F, p, c)
    BY <1>1, <2>1, SMTT(30) DEF Start
  <2>3. CASE c = Len(F)
    BY <1>1, <1>3, <2>2, <2>3 DEF Within, ListsLead
  <2>4. CASE c < Len(F)
    <3>1. /\ c + 1 \in 1 .. Len(F) /\ G[c + 1] = F[c + 1] /\ c < Len(G)
          /\ c # 0 => c \in 1 .. Len(F) /\ G[c] = F[c]
      BY <1>1, <2>2, <2>4, SMTT(30)
    <3>2. Within(F, p, q, c)
      BY <1>1, <2>4, <3>1, SMTT(30) DEF Within
    <3>. QED
      BY <1>3, <2>2, <2>4, <3>1, <3>2 DEF ListsLead
  <2>. QED
    BY <1>1, <2>2, <2>3, <2>4
<1>. QED
  BY <1>2, <1>3 DEF SectionLeads, G

LEMMA CompleteWithFire ==
  ASSUME NEW s, NEW F \in Seq(Nat), NEW H, NEW S, NEW e, NEW f \in Nat,
         Complete(s, F, H, S, e), e <= f, Len(s) \in Nat
  PROVE  Complete(s, Append(F, f), H, S, e)
<1>1. e \in Nat /\ \A p \in S \cup {e} : p \in Nat /\ p <= e
  BY DEF Complete
<1>2. ASSUME NEW p \in S
      PROVE  \E q \in S \cup {e} : Follows(S, p, q) /\ SectionLeads(s, Append(F, f), H, p, q)
  <2>1. PICK q \in S \cup {e} : Follows(S, p, q) /\ SectionLeads(s, F, H, p, q)
    BY DEF Complete
  <2>. QED
    BY <1>1, <2>1, MoreFires
<1>. QED
  BY <1>2 DEF Complete

(* Nor do states of the engine after it. *)
LEMMA SameBefore ==
  ASSUME NEW s, NEW F, NEW H, NEW G, NEW S, NEW e, Complete(s, F, H, S, e), Len(s) \in Nat,
         \A i \in 0 .. e : G[i] = H[i]
  PROVE  Complete(s, F, G, S, e)
<1>1. e \in Nat /\ \A p \in S \cup {e} : p \in Nat /\ p <= e
  BY DEF Complete
<1>2. ASSUME NEW p \in S, NEW q \in S \cup {e}, SectionLeads(s, F, H, p, q)
      PROVE  SectionLeads(s, F, G, p, q)
  <2>1. p \in Nat /\ q \in Nat /\ p < q /\ q <= e /\ G[p] = H[p] /\ G[q] = H[q]
    BY <1>1, <1>2 DEF SectionLeads
  <2>2. WordsLead(s, H, p, q) => WordsLead(s, G, p, q)
    <3>. SUFFICES ASSUME WordsLead(s, H, p, q) PROVE WordsLead(s, G, p, q)
      OBVIOUS
    <3>1. G[p + 2] = H[p + 2] /\ \A i \in p + 2 .. q - 1 : G[i] = H[i] /\ G[i + 1] = H[i + 1]
      BY <2>1, <1>1 DEF WordsLead
    <3>. QED
      BY <2>1, <3>1 DEF WordsLead
  <2>. QED
    BY <1>2, <2>1, <2>2 DEF SectionLeads
<1>. QED
  BY <1>1, <1>2 DEF Complete

(* One section more. *)
LEMMA OneMore ==
  ASSUME NEW s, NEW F, NEW H, NEW S, NEW p, NEW q, Len(s) \in Nat,
         Complete(s, F, H, S \ {p}, p), p \in S, q \in Nat, SectionLeads(s, F, H, p, q)
  PROVE  Complete(s, F, H, S, q)
<1>. DEFINE T == S \ {p}
<1>1. /\ p \in Nat /\ p < q /\ q \in 0 .. Len(s) /\ \A r \in T : r \in Nat /\ r < p
      /\ S = T \cup {p} /\ (p = 0 \/ 0 \in T)
  BY DEF Complete, SectionLeads
<1>2. S \subseteq 0 .. q - 1 /\ 0 \in S
  BY <1>1
<1>3. ASSUME NEW r \in S
      PROVE  \E r1 \in S \cup {q} : Follows(S, r, r1) /\ SectionLeads(s, F, H, r, r1)
  <2>1. CASE r = p
    <3>1. Follows(S, p, q)
      BY <1>1 DEF Follows
    <3>. QED
      BY <2>1, <3>1
  <2>2. CASE r \in T
    <3>1. PICK r1 \in T \cup {p} : Follows(T, r, r1) /\ SectionLeads(s, F, H, r, r1)
      BY <2>2 DEF Complete
    <3>2. Follows(S, r, r1)
      BY <1>1, <2>2, <3>1 DEF Follows
    <3>. QED
      BY <1>1, <3>1, <3>2
  <2>. QED
    BY <1>1, <2>1, <2>2
<1>. QED
  BY <1>1, <1>2, <1>3 DEF Complete

(* The word at the end of a section is a header, or it is the end. *)
LEMMA SectionEnds ==
  ASSUME NEW s \in Streams, NEW F, NEW H, NEW S, Complete(s, F, H, S, Len(s)),
         NEW q \in S \cup {Len(s)}
  PROVE  /\ q \in Nat /\ q <= Len(s)
         /\ In(s, q) \in Headers \cup {"none"}
         /\ In(s, q) = "none" <=> q = Len(s)
<1>1. Len(s) \in Nat /\ S \subseteq 0 .. Len(s) - 1 /\ In(s, Len(s)) = "none"
  BY InEnd DEF Complete, In
<1>2. CASE q \in S
  <2>1. In(s, q) \in Headers
    BY <1>2 DEF Complete, SectionLeads, Headers, Registers, Video5
  <2>. QED
    BY <1>1, <1>2, <2>1, InEnd
<1>. QED
  BY <1>1, <1>2
-----------------------------------------------------------------------------
LEMMA UnitOfPara ==
  /\ DOMAIN TextureUnit = {"Tex0", "Tex1"}
  /\ \A p \in DOMAIN TextureUnit : TextureUnit[p] \in TextureUnits
  BY DEF TextureUnit, TextureUnits

LEMMA EffectType ==
  ASSUME NEW s3d \in EngineStates, NEW p, NEW w
  PROVE  /\ Effect(s3d, p, w) \in EngineStates
         /\ Effect(s3d, p, w) = s3d \/ p \in {"Tex0", "Tex1", "TexGeneral"}
<1>1. /\ s3d.addr \in [TextureUnits -> [1 .. 2 -> {0, 1}]]
      /\ s3d.inAgp \in [TextureUnits -> BOOLEAN] /\ s3d.multitex \in {0, 1}
  BY DEF EngineStates
<1>2. \A u \in TextureUnits, x \in {0, 1} : /\ [s3d EXCEPT !.addr[u][2] = x] \in EngineStates
                                          /\ [s3d EXCEPT !.addr[u][1] = x] \in EngineStates
  <2>. TAKE u \in TextureUnits, x \in {0, 1}
  <2>1. [s3d.addr[u] EXCEPT ![1] = x] \in [1 .. 2 -> {0, 1}] /\ [s3d.addr[u] EXCEPT ![2] = x] \in [1 .. 2 -> {0, 1}]
    BY <1>1
  <2>2. /\ [s3d.addr EXCEPT ![u][1] = x] \in [TextureUnits -> [1 .. 2 -> {0, 1}]]
        /\ [s3d.addr EXCEPT ![u][2] = x] \in [TextureUnits -> [1 .. 2 -> {0, 1}]]
    BY <1>1, <2>1
  <2>. QED
    BY <2>2 DEF EngineStates
<1>3. \A u \in TextureUnits, x \in BOOLEAN : [s3d EXCEPT !.inAgp[u] = x, !.last = u] \in EngineStates
  <2>. TAKE u \in TextureUnits, x \in BOOLEAN
  <2>1. [s3d.inAgp EXCEPT ![u] = x] \in [TextureUnits -> BOOLEAN]
    BY <1>1
  <2>. QED
    BY <2>1 DEF EngineStates
<1>4. \A x \in {0, 1} : [s3d EXCEPT !.multitex = x] \in EngineStates
  BY DEF EngineStates
<1>5. CASE p \notin DOMAIN TextureUnit
  BY <1>4, <1>5 DEF Effect
<1>6. CASE p \in DOMAIN TextureUnit
  <2>. DEFINE u == TextureUnit[p]
  <2>1. u \in TextureUnits /\ p \in {"Tex0", "Tex1"}
    BY <1>6, UnitOfPara
  <2>2. (IF w = "lo1" THEN 1 ELSE 0) \in {0, 1} /\ (IF w = "hi1" THEN 1 ELSE 0) \in {0, 1} /\ (w = "agp") \in BOOLEAN
    OBVIOUS
  <2>. HIDE DEF u
  <2>3. /\ [s3d EXCEPT !.addr[u][2] = IF w = "lo1" THEN 1 ELSE 0] \in EngineStates
        /\ [s3d EXCEPT !.addr[u][1] = IF w = "hi1" THEN 1 ELSE 0] \in EngineStates
        /\ [s3d EXCEPT !.inAgp[u] = (w = "agp"), !.last = u] \in EngineStates
    BY <1>2, <1>3, <2>1, <2>2
  <2>. QED
    BY <1>6, <2>1, <2>3 DEF Effect, u
<1>. QED
  BY <1>5, <1>6

LEMMA ResetType == Reset \in EngineStates
<1>1. <<0, 0>> \in [1 .. 2 -> {0, 1}]
  OBVIOUS
<1>. QED
  BY <1>1 DEF Reset, EngineStates, TextureUnits

LEMMA TypesStep == Types /\ [VerifierNext]_verifierVars => Types'
<1>. SUFFICES ASSUME Types, [VerifierNext]_verifierVars PROVE Types'
  OBVIOUS
<1>. USE DEF Types, Busy, Checking, Executing
<1>1. ASSUME NEW s \in Streams, NEW a \in BOOLEAN, Submit(s, a) PROVE Types'
  BY <1>1 DEF Submit, locals
<1>2. CASE CheckCommand
  BY <1>2 DEF CheckCommand, At, input, execVars
<1>3. CASE Accept
  BY <1>3 DEF Accept, At, input, execVars, checkVars
<1>4. CASE Reject
  BY <1>4, ResetType DEF Reject, Leave, Restored
<1>5. CASE CheckHeader2
  BY <1>5 DEF CheckHeader2, At, Goto, input, execVars, checkVars
<1>6. CASE CheckWord
  BY <1>6, EffectType DEF CheckWord, At, Goto, input, execVars
<1>7. CASE EndTable \/ RejectWord
  BY <1>7 DEF EndTable, RejectWord, At, Goto, input, execVars, checkVars
<1>8. CASE CheckList \/ EndLists \/ RejectList
  BY <1>8 DEF CheckList, EndLists, RejectList, At, Goto, input, execVars, checkVars
<1>9. CASE CheckVertex \/ CheckFire \/ RejectVertex \/ MissingFire
  BY <1>9 DEF CheckVertex, CheckFire, RejectVertex, MissingFire, LeaveVertices, At, Goto, input,
              execVars, checkVars
<1>10. CASE CheckHeader1 \/ CheckVheader5 \/ CheckVheader6
  BY <1>10 DEF CheckHeader1, CheckVheader5, CheckVheader6, At, Goto, input, execVars, checkVars
<1>11. CASE NoRoom \/ Return
  BY <1>11, ResetType DEF NoRoom, Return, Leave
<1>12. CASE Walk
  BY <1>12 DEF Walk, Goto, input, checkVars, execVars
<1>13. CASE ExecHeader2
  BY <1>13 DEF ExecHeader2, Exec, Goto, input, checkVars, execVars
<1>18. CASE ExecCommand
  <2>1. state' \in {"execHeader2", "execHeader1", "execVheader5", "execVheader6", "execError"}
    BY <1>18 DEF ExecCommand
  <2>. QED
    BY <1>18, <2>1 DEF ExecCommand, Exec, input, checkVars
<1>16. CASE ExecList
  BY <1>16 DEF ExecList, Exec, input, checkVars
<1>17. CASE ExecWord
  BY <1>17 DEF ExecWord, Exec, input, checkVars
<1>14. CASE EndOfHeader2 \/ ExecHeader1 \/ ExecVideo \/ ExecEnd
  BY <1>14 DEF EndOfHeader2, ExecHeader1, ExecVideo, ExecEnd, Exec, Goto, input, checkVars, execVars
<1>15. CASE UNCHANGED verifierVars
  BY <1>15 DEF verifierVars, input, checkVars, execVars
<1>. QED
  BY <1>1, <1>2, <1>3, <1>4, <1>5, <1>6, <1>7, <1>8, <1>9, <1>10, <1>11, <1>12, <1>13, <1>14, <1>15,
     <1>16, <1>17, <1>18 DEF VerifierNext, Check, Parse
-----------------------------------------------------------------------------
(* The verifier's steps. *)

LEMMA ToError ==
  ASSUME NEW H, CallInv(H), state \in {"command"} \cup Checking, state' = "error",
         Ascending(stream, fires'), stream' = stream, buf' \in Nat, hw' = hw, parted' = parted, saved' = saved
  PROVE  CallInv(H)'
BY DEF CallInv, Checking, Executing

LEMMA ToCommand ==
  ASSUME NEW H, CallInv(H), state \in Checking, state' = "command", buf' \in Nat,
         UNCHANGED <<stream, fires, sections, executed, fireCount, hw, parted, saved, hc>>,
         Complete(stream, fires, H, sections, buf'), AllBelow(fires, buf'),
         \A i \in buf' .. Len(stream) : H[i] = hc
  PROVE  CallInv(H)'
BY DEF CallInv, Checking, Executing

Starts(H) == executed = {} /\ fireCount = 0 /\ H[0] = saved /\ (~parted => hw = saved)

LEMMA CallStarts ==
  ASSUME NEW H, CallInv(H), state \in {"command"} \cup Checking
  PROVE  Starts(H)
BY DEF CallInv, Starts

LEMMA StaysIn ==
  ASSUME NEW H, Starts(H), UNCHANGED <<stream, executed, fireCount, hw, parted, saved>>,
         state' \in Checking, buf' \in Nat, Ascending(stream, fires'),
         NEW p \in sections', InSection(H, p)',
         \A i \in buf' .. Len(stream) : H[i] = hc'
  PROVE  CallInv(H)'
BY DEF CallInv, Starts, Checking, Executing

LEMMA CheckCommandStep ==
  ASSUME NEW H, Types, CallInv(H), CheckCommand
  PROVE  CallInv(H)'
<1>1. /\ state = "command" /\ buf < Len(stream) /\ stream \in Streams
      /\ UNCHANGED <<stream, buf, hc, saved, fires, hw, parted, fireCount, executed>>
      /\ sections' = sections \cup {buf} /\ buf \in Nat /\ Ascending(stream, fires)
  BY DEF CheckCommand, At, input, execVars, CallInv, Types
<1>2. LET w == In(stream, buf) IN
      state' = CASE w = "H2" /\ chip.threeD -> "header2"
             [] w \in Registers -> "header1"
             [] w \in Video5 /\ chip.video -> "vheader5"
             [] w = "V6" /\ chip.video -> "vheader6"
             [] OTHER -> "error"
  BY WordsRead DEF CheckCommand
<1>3. CASE state' = "error"
  BY <1>1, <1>3, ToError
<1>4. CASE state' # "error"
  <2>1. /\ state' = "header2" => In(stream, buf) = "H2"
        /\ state' = "header1" => In(stream, buf) \in Registers
        /\ state' = "vheader5" => In(stream, buf) \in Video5
        /\ state' = "vheader6" => In(stream, buf) = "V6"
        /\ state' \in {"header2", "header1", "vheader5", "vheader6"}
        /\ In(stream, buf) # "otherFire"
    BY <1>2, <1>4 DEF Registers, Video5
  <2>2. /\ Complete(stream, fires, H, sections, buf) /\ AllBelow(fires, buf)
        /\ \A i \in buf .. Len(stream) : H[i] = hc
    BY <1>1, <2>1 DEF CallInv
  <2>3. sections' \ {buf} = sections /\ buf \in sections'
    BY <1>1, <2>2 DEF Complete
  <2>4. Len(stream) \in Nat /\ PairsLead(stream, buf, buf)
    <3>1. Len(stream) \in Nat /\ buf = buf + 2 * 0 /\ 0 \in 0 .. Len(stream)
      BY <1>1, InEnd
    <3>. QED
      BY <3>1 DEF PairsLead
  <2>5. InSection(H, buf)'
    <3>1. stream' = stream /\ buf' = buf /\ fires' = fires /\ hc' = hc
      BY <1>1
    <3>2. Complete(stream', fires', H, sections' \ {buf'}, buf')
      BY <2>2, <2>3, <3>1
    <3>3. /\ buf' \in sections' /\ buf' <= buf' /\ buf' <= Len(stream') /\ buf' < Len(stream')
          /\ AllBelow(fires', buf')
      BY <1>1, <2>2, <2>3, <2>4, <3>1
    <3>4. \A i \in buf' .. Len(stream') : H[i] = hc'
      BY <2>2, <3>1
    <3>5. /\ state' = "header2" => In(stream', buf') = "H2"
          /\ state' = "header1" => In(stream', buf') \in Registers /\ PairsLead(stream', buf', buf')
          /\ state' = "vheader5" => In(stream', buf') \in Video5
          /\ state' = "vheader6" => In(stream', buf') = "V6"
      BY <2>1, <2>4, <3>1
    <3>. QED
      BY <2>1, <3>2, <3>3, <3>4, <3>5 DEF InSection
  <2>. QED
    BY <1>1, <2>1, <2>2, <2>3, <2>5, CallStarts, StaysIn DEF Checking
<1>. QED
  BY <1>3, <1>4

LEMMA AcceptStep ==
  ASSUME NEW H, Types, CallInv(H), Accept
  PROVE  CallInv(H)'
<1>1. /\ state = "command" /\ buf >= Len(stream) /\ stream \in Streams /\ state' = "accepted"
      /\ UNCHANGED <<stream, buf, hc, saved, fires, sections, hw, parted, fireCount, executed>>
      /\ buf \in Nat
  BY DEF Accept, At, input, execVars, checkVars, CallInv, Types
<1>2. In(stream, buf) = "none"
  BY <1>1, InEnd
<1>3. Complete(stream, fires, H, sections, buf) /\ \A i \in buf .. Len(stream) : H[i] = hc
  BY <1>1, <1>2 DEF CallInv
<1>4. buf = Len(stream)
  BY <1>1, <1>3 DEF Complete
<1>. QED
  BY <1>1, <1>3, <1>4 DEF CallInv, Checking, Executing

LEMMA CheckHeader2Step ==
  ASSUME NEW H, Types, WellWritten(stream), CallInv(H), CheckHeader2
  PROVE  CallInv(H)'
<1>. DEFINE w == In(stream, buf + 1)
<1>1. /\ state = "header2" /\ stream \in Streams /\ para' = w
      /\ UNCHANGED <<stream, hc, saved, fires, sections, hw, parted, fireCount, executed>>
      /\ buf \in Nat /\ Ascending(stream, fires) /\ hc \in EngineStates
  BY WordsRead DEF CheckHeader2, At, input, execVars, checkVars, CallInv, Types
<1>2. /\ state' = CASE w = "Vdata" -> "list"
                  [] w \in Tables -> "table"
                  [] w \in {"Auto", "Stipple"} /\ Len(stream) - buf - 2 >= Eaten(w) -> "command"
                  [] OTHER -> "error"
      /\ buf' = buf + 2 + Eaten(w)
  BY WordsRead, UnitOfPara DEF CheckHeader2, Goto, Left, Tables
<1>3. PICK p \in sections : InSection(H, p)
  BY <1>1 DEF CallInv, Checking
<1>4. /\ buf = p /\ p < Len(stream) /\ In(stream, p) = "H2" /\ AllBelow(fires, p)
      /\ Complete(stream, fires, H, sections \ {p}, p)
      /\ \A i \in p .. Len(stream) : H[i] = hc
  BY <1>1, <1>3 DEF InSection
<1>5. /\ Eaten(w) \in Nat /\ buf' \in Nat /\ Len(stream) \in Nat
      /\ w # "none" <=> p + 2 <= Len(stream)
  BY <1>1, <1>2, <1>4, BoundsAssumption, InEnd DEF Eaten
<1>6. CASE w = "Vdata"
  <2>0. Eaten(w) = 0 /\ w # "none"
    BY <1>6 DEF Eaten
  <2>1. state' = "list" /\ buf' = p + 2 /\ p + 2 <= Len(stream)
    <3>1. state' = "list"
      BY <1>2, <1>6 DEF Tables
    <3>2. buf' = buf + 2 /\ p + 2 <= Len(stream)
      BY <1>1, <1>2, <1>5, <2>0
    <3>. QED
      BY <1>4, <3>1, <3>2
  <2>2. Start(stream, fires, p, Len(fires)) = p + 2
    BY <1>1, <1>4 DEF Start, AllBelow, Ascending
  <2>3. \A c \in 0 .. Len(fires) - 1 : ~ (p <= fires[c + 1])
    BY <1>1, <1>4 DEF AllBelow, Ascending
  <2>4. AllBelow(fires, buf')
    BY <1>1, <1>4, <2>1 DEF AllBelow, Ascending
  <2>5. InSection(H, p)'
    BY <1>1, <1>4, <1>5, <1>6, <2>1, <2>2, <2>3, <2>4 DEF InSection
  <2>. QED
    BY <1>1, <1>3, <1>4, <1>5, <2>1, <2>5, CallStarts, StaysIn DEF Checking
<1>7. CASE w \in Tables
  <2>0. Eaten(w) = 0 /\ w # "none" /\ w # "Vdata"
    BY <1>7 DEF Eaten, Tables
  <2>1. state' = "table" /\ buf' = p + 2 /\ p + 2 <= Len(stream)
    <3>1. state' = "table"
      BY <1>2, <1>7, <2>0 DEF Tables
    <3>2. buf' = buf + 2 /\ p + 2 <= Len(stream)
      BY <1>1, <1>2, <1>5, <2>0
    <3>. QED
      BY <1>4, <3>1, <3>2
  <2>2. WordsLead(stream, H, p, p + 2)
    BY <1>1, <1>4, <1>5, <2>1 DEF WordsLead
  <2>3. InSection(H, p)'
    BY <1>1, <1>4, <1>5, <1>7, <2>1, <2>2 DEF InSection
  <2>4. \A i \in buf' .. Len(stream) : H[i] = hc'
    BY <1>1, <1>4, <1>5, <2>1
  <2>. QED
    BY <1>1, <1>3, <1>4, <1>5, <2>1, <2>3, <2>4, CallStarts, StaysIn DEF Checking
<1>8. CASE w \in {"Auto", "Stipple"} /\ Len(stream) - buf - 2 >= Eaten(w)
  <2>1. state' = "command" /\ buf' <= Len(stream)
    BY <1>1, <1>2, <1>4, <1>5, <1>8 DEF Tables
  <2>2. ASSUME NEW i \in p + 2 .. buf' - 1
        PROVE  In(stream, i) \notin Headers /\ H[i + 1] = Effect(H[i], In(stream, p + 1), In(stream, i))
    <3>0. /\ p \in Nat /\ w = In(stream, p + 1) /\ i < p + 2 + Eaten(w)
          /\ i \in p + 2 .. Len(stream) - 1
      BY <1>1, <1>2, <1>4, <1>5, <2>1
    <3>1. In(stream, i) \notin Headers
      BY <1>1, <1>4, <3>0, Written
    <3>2. H[i] = hc /\ H[i + 1] = hc
      BY <1>4, <1>5, <3>0
    <3>3. Effect(hc, w, In(stream, i)) = hc
      BY <1>1, <1>8, EffectType
    <3>. QED
      BY <1>4, <3>1, <3>2, <3>3
  <2>3. WordsLead(stream, H, p, buf')
    BY <1>1, <1>2, <1>4, <1>5, <1>8, <2>1, <2>2 DEF WordsLead
  <2>4. NoFire(fires, p, buf') /\ AllBelow(fires, buf')
    BY <1>1, <1>2, <1>4, <1>5, SMTT(30) DEF NoFire, AllBelow, Ascending
  <2>5. SectionLeads(stream, fires, H, p, buf')
    BY <1>1, <1>2, <1>4, <1>5, <1>8, <2>1, <2>3, <2>4 DEF SectionLeads
  <2>6. Complete(stream, fires, H, sections, buf')
    BY <1>4, <1>5, <2>5, OneMore
  <2>7. \A i \in buf' .. Len(stream) : H[i] = hc
    BY <1>1, <1>2, <1>4, <1>5
  <2>. QED
    BY <1>1, <1>5, <2>1, <2>4, <2>6, <2>7, ToCommand DEF Checking
<1>9. CASE state' = "error"
  BY <1>1, <1>5, <1>9, ToError DEF Checking
<1>. QED
  BY <1>2, <1>6, <1>7, <1>8, <1>9

LEMMA CheckWordStep ==
  ASSUME NEW H, Types, CallInv(H), CheckWord
  PROVE  \E G : CallInv(G)'
<1>1. /\ state = "table" /\ stream \in Streams /\ state' = "table" /\ buf' = buf + 1
      /\ UNCHANGED <<stream, para, saved, fires, sections, hw, parted, fireCount, executed>>
      /\ hc' = Effect(hc, para, In(stream, buf))
      /\ buf \in Nat /\ Ascending(stream, fires)
      /\ Hazard(In(stream, buf)) \in {"other", "texture"}
  BY WordsRead DEF CheckWord, At, Goto, input, execVars, CallInv, Types
<1>2. PICK p \in sections : InSection(H, p)
  BY <1>1 DEF CallInv, Checking
<1>3. /\ p <= buf /\ buf <= Len(stream) /\ p < Len(stream) /\ In(stream, p) = "H2"
      /\ AllBelow(fires, p) /\ para = In(stream, p + 1) /\ para \in Tables
      /\ Complete(stream, fires, H, sections \ {p}, p)
      /\ WordsLead(stream, H, p, buf)
  BY <1>1, <1>2 DEF InSection
<1>4. In(stream, buf) \notin Headers \cup {"none"} /\ Len(stream) \in Nat
  BY <1>1, InEnd DEF Hazard, Headers, Registers, Fires
<1>5. buf < Len(stream) /\ p \in Nat /\ p + 2 <= buf
  BY <1>1, <1>3, <1>4, InEnd DEF Complete, WordsLead
<1>6. \A i \in buf .. Len(stream) : H[i] = hc
  BY <1>1 DEF CallInv, Checking
<1>7. PICK G : /\ \A i \in 0 .. buf : G[i] = H[i]
               /\ \A i \in buf + 1 .. Len(stream) : G[i] = hc'
  <2>. DEFINE F == [i \in 0 .. Len(stream) |-> IF i > buf THEN hc' ELSE H[i]]
  <2>1. /\ \A i \in 0 .. buf : F[i] = H[i]
        /\ \A i \in buf + 1 .. Len(stream) : F[i] = hc'
    BY <1>1, <1>4, <1>5
  <2>. HIDE DEF F
  <2>. QED
    BY <2>1
<1>8. Complete(stream, fires, G, sections \ {p}, p)
  BY <1>1, <1>3, <1>4, <1>5, <1>7, SameBefore
<1>9. WordsLead(stream, G, p, buf')
  <2>1. G[p + 2] = H[p + 2] /\ G[p] = H[p] /\ H[p + 2] = H[p]
    BY <1>3, <1>5, <1>7, <1>1 DEF WordsLead
  <2>2. ASSUME NEW i \in p + 2 .. buf' - 1
        PROVE  In(stream, i) \notin Headers /\ G[i + 1] = Effect(G[i], In(stream, p + 1), In(stream, i))
    <3>1. CASE i < buf
      <4>1. G[i] = H[i] /\ G[i + 1] = H[i + 1] /\ i \in p + 2 .. buf - 1
        BY <1>1, <1>5, <1>7, <3>1
      <4>. QED
        BY <1>3, <4>1 DEF WordsLead
    <3>2. CASE i = buf
      <4>1. G[i] = hc /\ G[i + 1] = hc'
        BY <1>1, <1>4, <1>5, <1>6, <1>7, <3>2
      <4>. QED
        BY <1>1, <1>3, <1>4, <3>2, <4>1
    <3>. QED
      BY <1>1, <1>5, <3>1, <3>2
  <2>. QED
    BY <1>1, <1>5, <2>1, <2>2 DEF WordsLead
<1>10. p \in sections' /\ InSection(G, p)'
  <2>1. p <= buf' /\ buf' <= Len(stream) /\ p \in sections'
    BY <1>1, <1>2, <1>3, <1>4, <1>5
  <2>2. stream' = stream /\ fires' = fires /\ sections' = sections /\ state' = "table" /\ para' = para
    BY <1>1
  <2>3. /\ Complete(stream', fires', G, sections' \ {p}, p) /\ WordsLead(stream', G, p, buf')
        /\ p < Len(stream') /\ AllBelow(fires', p) /\ p <= buf' /\ buf' <= Len(stream')
    BY <1>3, <1>8, <1>9, <2>1, <2>2
  <2>4. In(stream', p) = "H2" /\ para' = In(stream', p + 1) /\ para' \in Tables
    BY <1>3, <2>2
  <2>. QED
    BY <2>1, <2>2, <2>3, <2>4 DEF InSection
<1>11. G[0] = H[0] /\ buf' \in Nat /\ \A i \in buf' .. Len(stream) : G[i] = hc'
  BY <1>1, <1>4, <1>5, <1>7
<1>12. Starts(G)
  <2>1. Starts(H)
    BY <1>1, CallStarts DEF Checking
  <2>. QED
    BY <1>11, <2>1 DEF Starts
<1>13. CallInv(G)'
  <2>1. /\ UNCHANGED <<stream, executed, fireCount, hw, parted, saved>> /\ state' \in Checking
        /\ Ascending(stream, fires') /\ buf' \in Nat
        /\ \A i \in buf' .. Len(stream) : G[i] = hc'
    BY <1>1, <1>11 DEF Checking
  <2>. QED
    BY <1>10, <1>12, <2>1, StaysIn
<1>. QED
  BY <1>13

LEMMA EndTableStep ==
  ASSUME NEW H, Types, CallInv(H), EndTable
  PROVE  CallInv(H)'
<1>1. /\ state = "table" /\ stream \in Streams /\ state' = "command" /\ buf' = buf
      /\ UNCHANGED <<stream, hc, saved, fires, sections, hw, parted, fireCount, executed>>
      /\ buf \in Nat /\ Ascending(stream, fires)
  BY DEF EndTable, At, input, execVars, CallInv, Types
<1>2. PICK p \in sections : InSection(H, p)
  BY <1>1 DEF CallInv, Checking
<1>3. /\ p <= buf /\ buf <= Len(stream) /\ p < Len(stream) /\ In(stream, p) = "H2"
      /\ AllBelow(fires, p) /\ para = In(stream, p + 1) /\ para \in Tables
      /\ Complete(stream, fires, H, sections \ {p}, p)
      /\ WordsLead(stream, H, p, buf)
  BY <1>1, <1>2 DEF InSection
<1>4. p \in Nat /\ Len(stream) \in Nat /\ p < buf
  <2>1. p + 2 <= buf
    BY <1>3 DEF WordsLead
  <2>. QED
    BY <1>1, <1>3, <2>1, InEnd DEF Complete
<1>5. NoFire(fires, p, buf) /\ AllBelow(fires, buf)
  <2>1. \A c \in 1 .. Len(fires) : fires[c] \in Nat /\ fires[c] < p
    BY <1>1, <1>3 DEF AllBelow, Ascending
  <2>. QED
    BY <1>1, <1>4, <2>1 DEF NoFire, AllBelow
<1>6. SectionLeads(stream, fires, H, p, buf)
  BY <1>1, <1>3, <1>4, <1>5 DEF SectionLeads, Tables
<1>7. Complete(stream, fires, H, sections, buf)
  BY <1>1, <1>3, <1>4, <1>6, OneMore
<1>8. \A i \in buf .. Len(stream) : H[i] = hc
  BY <1>1 DEF CallInv, Checking
<1>. QED
  BY <1>1, <1>5, <1>7, <1>8, ToCommand DEF Checking

LEMMA RejectStep ==
  ASSUME NEW H, Types, CallInv(H), RejectWord \/ RejectList \/ MissingFire
  PROVE  CallInv(H)'
<1>1. /\ state \in Checking /\ state' = "error" /\ buf' = buf
      /\ UNCHANGED <<stream, saved, fires, hw, parted>> /\ buf \in Nat /\ Ascending(stream, fires)
  BY DEF RejectWord, RejectList, MissingFire, At, input, execVars, checkVars, CallInv, Checking
<1>. QED
  BY <1>1, ToError

(* What is known of a list of primitives. *)
LEMMA ListFacts ==
  ASSUME NEW H, Types, CallInv(H), state \in {"list", "vertices"}
  PROVE  /\ Starts(H) /\ stream \in Streams /\ Len(stream) \in Nat \ {0}
         /\ Ascending(stream, fires) /\ buf \in Nat
         /\ \A i \in buf .. Len(stream) : H[i] = hc
         /\ \E p \in sections : InSection(H, p) /\ p \in Nat
<1>1. Starts(H)
  BY CallStarts DEF Checking
<1>2. stream \in Streams /\ Len(stream) \in Nat \ {0}
  BY InEnd DEF Types
<1>3. Ascending(stream, fires) /\ buf \in Nat /\ \A i \in buf .. Len(stream) : H[i] = hc
  BY DEF CallInv, Checking
<1>4. PICK p \in sections : InSection(H, p)
  BY DEF CallInv, Checking
<1>5. p \in Nat
  BY <1>4 DEF InSection, Complete
<1>. QED
  BY <1>1, <1>2, <1>3, <1>4, <1>5

LEMMA CheckListStep ==
  ASSUME NEW H, Types, CallInv(H), CheckList
  PROVE  CallInv(H)'
<1>1. /\ state = "list" /\ state' = "vertices" /\ buf' = buf + 2
      /\ In(stream, buf) \in Lists /\ In(stream, buf + 1) \in {"A"} \cup Fires
      /\ UNCHANGED <<stream, hc, saved, fires, sections, hw, parted, fireCount, executed>>
      /\ size' = VertexSize(In(stream, buf))
  BY WordsRead DEF CheckList, At, Goto, input, execVars, Lists
<1>2. PICK p \in sections : InSection(H, p) /\ p \in Nat
  BY <1>1, ListFacts
<1>3. /\ Starts(H) /\ stream \in Streams /\ Len(stream) \in Nat
      /\ Ascending(stream, fires) /\ buf \in Nat
      /\ \A i \in buf .. Len(stream) : H[i] = hc
  BY <1>1, ListFacts
<1>. DEFINE b == Start(stream, fires, p, Len(fires))
<1>4. b <= buf /\ In(stream, b) \in Lists
  <2>1. In(stream, buf) # "otherFire"
    BY <1>1 DEF Lists
  <2>2. b = buf \/ (b < buf /\ In(stream, b) \in Lists)
    BY <1>1, <1>2, <2>1 DEF InSection
  <2>3. b \in Nat
    BY <1>2, <1>3 DEF Start, After, Ascending
  <2>. QED
    BY <1>1, <1>3, <2>2, <2>3
<1>5. b \in Nat /\ b < buf + 2
  <2>1. b \in Nat
    BY <1>2, <1>3 DEF Start, After, Ascending
  <2>. QED
    BY <1>3, <1>4, <2>1
<1>6. size' \in Nat \ {0}
  BY <1>1 DEF VertexSize, Types, EngineStates
<1>7. buf + 2 <= Len(stream)
  BY <1>1, <1>3, InEnd DEF Fires
<1>8. AllBelow(fires, buf') /\ p + 2 <= buf'
  <2>1. AllBelow(fires, buf) /\ p + 2 <= buf
    BY <1>1, <1>2 DEF InSection
  <2>. QED
    BY <1>1, <1>2, <1>3, <2>1 DEF AllBelow, Ascending
<1>9. p \in sections' /\ InSection(H, p)'
  <2>1. /\ p \in sections /\ Complete(stream, fires, H, sections \ {p}, p)
        /\ p <= buf /\ p < Len(stream) /\ In(stream, p) = "H2" /\ In(stream, p + 1) = "Vdata"
        /\ \A c \in 0 .. Len(fires) - 1 : p <= fires[c + 1] =>
             Start(stream, fires, p, c) <= fires[c + 1] /\ In(stream, Start(stream, fires, p, c)) \in Lists
        /\ \A i \in p .. Len(stream) : H[i] = hc
    BY <1>1, <1>2 DEF InSection
  <2>2. p <= buf' /\ buf' <= Len(stream) /\ b < buf'
    BY <1>1, <1>2, <1>3, <1>5, <1>7, <2>1
  <2>. QED
    BY <1>1, <1>4, <1>6, <1>8, <2>1, <2>2 DEF InSection
<1>10. buf' \in Nat /\ \A i \in buf' .. Len(stream) : H[i] = hc'
  BY <1>1, <1>3
<1>. QED
  BY <1>1, <1>3, <1>9, <1>10, StaysIn DEF Checking

LEMMA EndListsStep ==
  ASSUME NEW H, Types, CallInv(H), EndLists
  PROVE  CallInv(H)'
<1>1. /\ state = "list" /\ state' = "command" /\ buf' = buf /\ ~failed
      /\ UNCHANGED <<stream, hc, saved, fires, sections, hw, parted, fireCount, executed>>
  BY DEF EndLists, At, input, execVars, checkVars
<1>2. PICK p \in sections : InSection(H, p) /\ p \in Nat
  BY <1>1, ListFacts
<1>3. /\ stream \in Streams /\ Len(stream) \in Nat
      /\ Ascending(stream, fires) /\ buf \in Nat
      /\ \A i \in buf .. Len(stream) : H[i] = hc
  BY <1>1, ListFacts
<1>4. CASE In(stream, buf) = "otherFire"
  BY <1>1, <1>4 DEF CallInv, Checking, Executing
<1>5. CASE In(stream, buf) # "otherFire"
  <2>1. /\ p \in sections /\ Complete(stream, fires, H, sections \ {p}, p)
        /\ p + 2 <= buf /\ p < Len(stream) /\ In(stream, p) = "H2" /\ In(stream, p + 1) = "Vdata"
        /\ AllBelow(fires, buf) /\ buf <= Len(stream)
        /\ \A c \in 0 .. Len(fires) - 1 : p <= fires[c + 1] =>
             Start(stream, fires, p, c) <= fires[c + 1] /\ In(stream, Start(stream, fires, p, c)) \in Lists
        /\ \A i \in p .. Len(stream) : H[i] = hc
        /\ buf = Start(stream, fires, p, Len(fires))
    BY <1>1, <1>2, <1>5 DEF InSection
  <2>2. ListsLead(stream, fires, p, buf)
    <3>. SUFFICES ASSUME NEW c \in 0 .. Len(fires), Within(fires, p, buf, c)
                  PROVE  IF c < Len(fires) /\ fires[c + 1] < buf
                         THEN /\ Start(stream, fires, p, c) <= fires[c + 1]
                              /\ In(stream, Start(stream, fires, p, c)) \in Lists
                         ELSE Start(stream, fires, p, c) = buf
      BY DEF ListsLead
    <3>1. CASE c = Len(fires)
      BY <2>1, <3>1
    <3>2. CASE c # Len(fires)
      <4>1. /\ c \in 0 .. Len(fires) - 1 /\ c + 1 \in 1 .. Len(fires) /\ c < Len(fires)
            /\ p <= fires[c + 1]
        BY <1>3, <3>2 DEF Within, Ascending
      <4>2. fires[c + 1] < buf
        BY <2>1, <4>1 DEF AllBelow
      <4>. QED
        BY <2>1, <4>1, <4>2
    <3>. QED
      BY <3>1, <3>2
  <2>3. H[buf] = H[p] /\ p < buf
    BY <1>2, <1>3, <2>1
  <2>4. SectionLeads(stream, fires, H, p, buf)
    BY <2>1, <2>2, <2>3 DEF SectionLeads
  <2>5. Complete(stream, fires, H, sections, buf)
    BY <1>3, <2>1, <2>4, OneMore
  <2>. QED
    BY <1>1, <1>3, <2>1, <2>5, ToCommand DEF Checking
<1>. QED
  BY <1>4, <1>5

LEMMA CheckVertexStep ==
  ASSUME NEW H, Types, CallInv(H), CheckVertex
  PROVE  CallInv(H)'
<1>1. /\ state = "vertices" /\ state' = "vertices" /\ buf' = buf + size /\ Left >= size
      /\ UNCHANGED <<stream, hc, saved, fires, sections, hw, parted, fireCount, executed, size>>
  BY DEF CheckVertex, At, Goto, input, execVars
<1>2. PICK p \in sections : InSection(H, p) /\ p \in Nat
  BY <1>1, ListFacts
<1>3. /\ Starts(H) /\ stream \in Streams /\ Len(stream) \in Nat
      /\ Ascending(stream, fires) /\ buf \in Nat
      /\ \A i \in buf .. Len(stream) : H[i] = hc
  BY <1>1, ListFacts
<1>. DEFINE b == Start(stream, fires, p, Len(fires))
<1>4. /\ p \in sections /\ Complete(stream, fires, H, sections \ {p}, p)
      /\ p + 2 <= buf /\ p < Len(stream) /\ In(stream, p) = "H2" /\ In(stream, p + 1) = "Vdata"
      /\ AllBelow(fires, buf) /\ buf <= Len(stream)
      /\ \A c \in 0 .. Len(fires) - 1 : p <= fires[c + 1] =>
           Start(stream, fires, p, c) <= fires[c + 1] /\ In(stream, Start(stream, fires, p, c)) \in Lists
      /\ \A i \in p .. Len(stream) : H[i] = hc
      /\ b < buf /\ In(stream, b) \in Lists /\ size \in Nat \ {0}
  BY <1>1, <1>2 DEF InSection
<1>5. b \in Nat
  BY <1>2, <1>3 DEF Start, After, Ascending
<1>6. /\ buf' \in Nat /\ b < buf' /\ p <= buf' /\ p + 2 <= buf' /\ buf <= buf'
      /\ buf' <= Len(stream)
  BY <1>1, <1>2, <1>3, <1>4, <1>5 DEF Left
<1>7. AllBelow(fires, buf')
  BY <1>3, <1>4, <1>6 DEF AllBelow, Ascending
<1>8. p \in sections' /\ InSection(H, p)'
  BY <1>1, <1>4, <1>6, <1>7 DEF InSection
<1>9. \A i \in buf' .. Len(stream) : H[i] = hc'
  BY <1>1, <1>3, <1>6
<1>. QED
  BY <1>1, <1>3, <1>6, <1>8, <1>9, StaysIn DEF Checking

LEMMA RejectVertexStep ==
  ASSUME NEW H, Types, CallInv(H), RejectVertex
  PROVE  CallInv(H)'
<1>1. /\ state = "vertices" /\ state' \in {"list", "error"} /\ buf' = buf /\ failed'
      /\ UNCHANGED <<stream, hc, saved, fires, sections, hw, parted, fireCount, executed, size>>
  BY DEF RejectVertex, LeaveVertices, At, Goto, input, execVars
<1>2. PICK p \in sections : InSection(H, p) /\ p \in Nat
  BY <1>1, ListFacts
<1>3. /\ Starts(H) /\ stream \in Streams /\ Len(stream) \in Nat
      /\ Ascending(stream, fires) /\ buf \in Nat
      /\ \A i \in buf .. Len(stream) : H[i] = hc
  BY <1>1, ListFacts
<1>4. CASE state' = "error"
  BY <1>1, <1>3, <1>4, ToError DEF Checking
<1>5. CASE state' = "list"
  <2>1. InSection(H, p)'
    BY <1>1, <1>2, <1>5 DEF InSection
  <2>. QED
    BY <1>1, <1>2, <1>3, <1>5, <2>1, StaysIn DEF Checking
<1>. QED
  BY <1>1, <1>4, <1>5

LEMMA CheckFireStep ==
  ASSUME NEW H, Types, CallInv(H), CheckFire
  PROVE  CallInv(H)'
<1>1. /\ state = "vertices" /\ In(stream, buf) = "fire" /\ fires' = Append(fires, buf)
      /\ UNCHANGED <<stream, hc, saved, sections, hw, parted, fireCount, executed, size>>
      /\ LET q == IF In(stream, buf + 1) = "fire" THEN buf + 2 ELSE buf + 1
         IN state' \in {"list", "error"} /\ buf' = q
  BY WordsRead DEF CheckFire, LeaveVertices, At, Goto, input, execVars
<1>2. PICK p \in sections : InSection(H, p) /\ p \in Nat
  BY <1>1, ListFacts
<1>3. /\ Starts(H) /\ stream \in Streams /\ Len(stream) \in Nat
      /\ Ascending(stream, fires) /\ buf \in Nat
      /\ \A i \in buf .. Len(stream) : H[i] = hc
  BY <1>1, ListFacts
<1>. DEFINE n == Len(fires)
            b == Start(stream, fires, p, n)
<1>4. /\ p \in sections /\ Complete(stream, fires, H, sections \ {p}, p)
      /\ p + 2 <= buf /\ p < Len(stream) /\ In(stream, p) = "H2" /\ In(stream, p + 1) = "Vdata"
      /\ AllBelow(fires, buf) /\ buf <= Len(stream)
      /\ \A c \in 0 .. n - 1 : p <= fires[c + 1] =>
           Start(stream, fires, p, c) <= fires[c + 1] /\ In(stream, Start(stream, fires, p, c)) \in Lists
      /\ \A i \in p .. Len(stream) : H[i] = hc
      /\ b < buf /\ In(stream, b) \in Lists
  BY <1>1, <1>2 DEF InSection
<1>5. buf < Len(stream)
  BY <1>1, <1>3, <1>4, InEnd
<1>6. /\ n \in Nat /\ Len(fires') = n + 1 /\ fires' \in Seq(Nat) /\ fires'[n + 1] = buf
      /\ \A c \in 1 .. n : fires'[c] = fires[c] /\ fires[c] \in Nat /\ fires[c] < buf
  BY <1>1, <1>3, <1>4 DEF Ascending, AllBelow
<1>7. Ascending(stream, fires')
  <2>1. \A c \in 1 .. n + 1 : fires'[c] < Len(stream)
    BY <1>3, <1>5, <1>6
  <2>2. ASSUME NEW c \in 1 .. n + 1, NEW d \in 1 .. n + 1, c < d PROVE fires'[c] < fires'[d]
    <3>1. CASE d = n + 1
      BY <1>6, <2>2, <3>1
    <3>2. CASE d # n + 1
      <4>1. c \in 1 .. n /\ d \in 1 .. n
        BY <1>6, <2>2, <3>2, SMTT(30)
      <4>2. fires[c] < fires[d] /\ fires'[c] = fires[c] /\ fires'[d] = fires[d]
        BY <1>3, <1>6, <2>2, <4>1 DEF Ascending
      <4>. QED
        BY <4>2
    <3>. QED
      BY <3>1, <3>2
  <2>. QED
    BY <1>6, <2>1, <2>2 DEF Ascending
<1>8. buf' \in Nat /\ buf < buf' /\ buf' <= buf + 2 /\ state' \in {"list", "error"}
  BY <1>1, <1>3
<1>9. CASE state' = "error"
  BY <1>1, <1>3, <1>7, <1>8, <1>9, ToError DEF Checking, Starts
<1>10. CASE state' = "list"
  <2>1. Complete(stream, fires', H, sections \ {p}, p)
    <3>1. fires \in Seq(Nat) /\ p <= buf
      BY <1>2, <1>3, <1>4 DEF Ascending
    <3>. QED
      BY <1>1, <1>3, <1>4, <3>1, CompleteWithFire
  <2>2. buf' <= Len(stream)
    <3>1. In(stream, buf + 1) = "fire" => buf + 1 < Len(stream)
      BY <1>3, InEnd
    <3>. QED
      BY <1>1, <1>3, <1>5, <3>1
  <2>3. AllBelow(fires', buf')
    <3>. SUFFICES ASSUME NEW c \in 1 .. n + 1 PROVE fires'[c] < buf'
      BY <1>6 DEF AllBelow
    <3>1. CASE c = n + 1
      BY <1>3, <1>6, <1>8, <3>1
    <3>2. CASE c # n + 1
      <4>1. fires'[c] = fires[c] /\ fires[c] \in Nat /\ fires[c] < buf
        BY <1>6, <3>2
      <4>. QED
        BY <1>3, <1>8, <4>1
    <3>. QED
      BY <3>1, <3>2
  <2>4. \A c \in 0 .. n : Start(stream, fires', p, c) = Start(stream, fires, p, c)
    BY <1>6 DEF Start
  <2>5. ASSUME NEW c \in 0 .. Len(fires') - 1, p <= fires'[c + 1]
        PROVE  /\ Start(stream, fires', p, c) <= fires'[c + 1]
               /\ In(stream, Start(stream, fires', p, c)) \in Lists
    <3>1. CASE c = n
      <4>1. Start(stream, fires', p, c) = b /\ fires'[c + 1] = buf
        BY <1>6, <2>4, <3>1
      <4>2. b \in Nat
        BY <1>2, <1>3 DEF Start, After, Ascending
      <4>3. b <= buf
        BY <1>3, <1>4, <4>2
      <4>. QED
        BY <1>4, <4>1, <4>3
    <3>2. CASE c # n
      <4>1. c \in 0 .. n - 1 /\ fires'[c + 1] = fires[c + 1]
        BY <1>6, <3>2
      <4>. QED
        BY <1>4, <2>4, <2>5, <4>1
    <3>. QED
      BY <3>1, <3>2
  <2>6. buf' = Start(stream, fires', p, Len(fires')) \/ In(stream, buf') = "otherFire"
    <3>1. Start(stream, fires', p, Len(fires')) = After(stream, buf)
      BY <1>2, <1>3, <1>4, <1>6 DEF Start
    <3>2. CASE In(stream, buf + 1) = "fire"
      BY <1>1, <3>1, <3>2 DEF After, Fires
    <3>3. CASE In(stream, buf + 1) = "otherFire"
      BY <1>1, <3>3
    <3>4. CASE In(stream, buf + 1) \notin Fires
      BY <1>1, <3>1, <3>4 DEF After, Fires
    <3>. QED
      BY <3>2, <3>3, <3>4 DEF Fires
  <2>7. p <= buf' /\ p + 2 <= buf'
    BY <1>2, <1>3, <1>4, <1>8
  <2>8. p \in sections' /\ InSection(H, p)'
    BY <1>1, <1>4, <1>10, <2>1, <2>2, <2>3, <2>5, <2>6, <2>7 DEF InSection
  <2>9. \A i \in buf' .. Len(stream) : H[i] = hc'
    BY <1>1, <1>3, <1>8
  <2>. QED
    BY <1>1, <1>3, <1>7, <1>8, <1>10, <2>8, <2>9, StaysIn DEF Checking
<1>. QED
  BY <1>8, <1>9, <1>10

(* What is known in a section that is neither a list nor a table. *)
LEMMA SectionFacts ==
  ASSUME NEW H, Types, CallInv(H), state \in {"header1", "vheader5", "vheader6"}
  PROVE  /\ Starts(H) /\ stream \in Streams /\ Len(stream) \in Nat \ {0}
         /\ Ascending(stream, fires) /\ buf \in Nat
         /\ \E p \in sections : /\ InSection(H, p) /\ p \in Nat /\ AllBelow(fires, p)
                                /\ Complete(stream, fires, H, sections \ {p}, p)
                                /\ p < Len(stream) /\ p <= buf
                                /\ \A i \in p .. Len(stream) : H[i] = hc
<1>1. Starts(H)
  BY CallStarts DEF Checking
<1>2. stream \in Streams /\ Len(stream) \in Nat \ {0}
  BY InEnd DEF Types
<1>3. Ascending(stream, fires) /\ buf \in Nat
  BY DEF CallInv
<1>4. PICK p \in sections : InSection(H, p)
  BY DEF CallInv, Checking
<1>5. /\ Complete(stream, fires, H, sections \ {p}, p) /\ AllBelow(fires, p)
      /\ p < Len(stream) /\ p <= buf /\ \A i \in p .. Len(stream) : H[i] = hc
  BY <1>4 DEF InSection
<1>6. p \in Nat
  BY <1>5 DEF Complete
<1>. QED
  BY <1>1, <1>2, <1>3, <1>4, <1>5, <1>6

(* The end of such a section. *)
LEMMA SectionDone ==
  ASSUME NEW H, Types, CallInv(H), state \in {"header1", "vheader5", "vheader6"},
         state' = "command", buf' \in Nat,
         UNCHANGED <<stream, fires, sections, executed, fireCount, hw, parted, saved, hc>>,
         NEW p \in sections, p \in Nat, AllBelow(fires, p), p < buf', buf' <= Len(stream),
         Complete(stream, fires, H, sections \ {p}, p),
         \A i \in p .. Len(stream) : H[i] = hc,
         NoFire(fires, p, buf') /\ H[buf'] = H[p] => SectionLeads(stream, fires, H, p, buf')
  PROVE  CallInv(H)'
<1>1. Len(stream) \in Nat /\ Ascending(stream, fires)
  BY SectionFacts
<1>2. \A c \in 1 .. Len(fires) : fires[c] \in Nat /\ fires[c] < p /\ fires[c] < buf'
  BY <1>1 DEF AllBelow, Ascending
<1>3. NoFire(fires, p, buf') /\ AllBelow(fires, buf')
  BY <1>2 DEF NoFire, AllBelow
<1>4. H[buf'] = H[p] /\ \A i \in buf' .. Len(stream) : H[i] = hc
  BY <1>1
<1>5. Complete(stream, fires, H, sections, buf')
  BY <1>1, <1>3, <1>4, OneMore
<1>. QED
  BY <1>3, <1>4, <1>5, ToCommand DEF Checking

LEMMA CheckHeader1Step ==
  ASSUME NEW H, Types, WellWritten(stream), CallInv(H), CheckHeader1
  PROVE  CallInv(H)'
<1>1. /\ state = "header1"
      /\ UNCHANGED <<stream, hc, saved, fires, sections, hw, parted, fireCount, executed>>
      /\ \/ state' = "error" /\ buf' = buf
         \/ /\ Left <= 0 \/ In(stream, buf) \in Headers \ Registers
            /\ state' = "command" /\ buf' = buf
         \/ /\ Left > 0 /\ In(stream, buf) \notin Headers \ {"R"}
            /\ state' = "header1" /\ buf' = buf + 2
  BY WordsRead DEF CheckHeader1, At, Goto, input, execVars, checkVars
<1>2. /\ Starts(H) /\ stream \in Streams /\ Len(stream) \in Nat
      /\ Ascending(stream, fires) /\ buf \in Nat
  BY <1>1, SectionFacts
<1>3. PICK p \in sections : /\ InSection(H, p) /\ p \in Nat /\ AllBelow(fires, p)
                            /\ Complete(stream, fires, H, sections \ {p}, p)
                            /\ p < Len(stream) /\ p <= buf
                            /\ \A i \in p .. Len(stream) : H[i] = hc
  BY <1>1, SectionFacts
<1>4. In(stream, p) \in Registers /\ PairsLead(stream, p, buf) /\ buf <= Len(stream)
  BY <1>1, <1>3 DEF InSection
<1>5. PICK n \in 0 .. Len(stream) :
        buf = p + 2 * n /\ \A k \in 0 .. n - 1 : In(stream, p + 2 * k) \in Registers
  BY <1>4 DEF PairsLead
<1>6. ASSUME state' = "error", buf' = buf PROVE CallInv(H)'
  BY <1>1, <1>2, <1>6, ToError DEF Checking, Starts
<1>7. ASSUME Left <= 0 \/ In(stream, buf) \in Headers \ Registers, state' = "command", buf' = buf
      PROVE  CallInv(H)'
  <2>1. In(stream, buf) \notin Registers
    <3>1. CASE Left <= 0
      <4>1. In(stream, buf) = "none"
        BY <1>2, <3>1, InEnd DEF Left
      <4>. QED
        BY <4>1 DEF Registers
    <3>. QED
      BY <1>7, <3>1
  <2>2. p < buf
    BY <1>2, <1>3, <1>4, <2>1
  <2>3. NoFire(fires, p, buf') /\ H[buf'] = H[p] => SectionLeads(stream, fires, H, p, buf')
    BY <1>4, <1>7, <2>1, <2>2 DEF SectionLeads
  <2>. QED
    BY <1>1, <1>2, <1>3, <1>4, <1>7, <2>2, <2>3, SectionDone
<1>8. ASSUME Left > 0, In(stream, buf) \notin Headers \ {"R"}, state' = "header1", buf' = buf + 2
      PROVE  CallInv(H)'
  <2>1. In(stream, buf) \in Registers
    <3>1. CASE n = 0
      BY <1>3, <1>4, <1>5, <3>1
    <3>2. CASE n # 0
      <4>1. In(stream, p + 2 * (n - 1)) \in Registers
        BY <1>5, <3>2
      <4>2. p + 2 * (n - 1) \in Nat /\ p + 2 * (n - 1) + 2 = buf /\ buf < Len(stream)
        BY <1>2, <1>3, <1>5, <1>8, <3>2 DEF Left
      <4>3. In(stream, buf) \in Headers
        BY <1>2, <4>1, <4>2, Written
      <4>. QED
        BY <1>8, <4>3 DEF Registers
    <3>. QED
      BY <3>1, <3>2
  <2>2. buf + 2 <= Len(stream)
    BY <1>2, <1>8, <2>1, Written DEF Left
  <2>3. PairsLead(stream, p, buf')
    <3>1. n + 1 \in 0 .. Len(stream) /\ buf' = p + 2 * (n + 1)
      BY <1>2, <1>3, <1>5, <1>8, <2>2
    <3>2. \A k \in 0 .. n : In(stream, p + 2 * k) \in Registers
      BY <1>5, <2>1
    <3>. QED
      BY <3>1, <3>2 DEF PairsLead
  <2>4. buf' <= Len(stream) /\ p <= buf' /\ buf' \in Nat
    BY <1>2, <1>3, <1>8, <2>2
  <2>5. p \in sections' /\ InSection(H, p)'
    BY <1>1, <1>3, <1>4, <1>8, <2>3, <2>4 DEF InSection
  <2>6. \A i \in buf' .. Len(stream) : H[i] = hc'
    BY <1>1, <1>2, <1>3, <2>4
  <2>. QED
    BY <1>1, <1>2, <1>8, <2>4, <2>5, <2>6, StaysIn DEF Checking
<1>. QED
  BY <1>1, <1>6, <1>7, <1>8

LEMMA NumberType == \A w : NumberOf(w) \in Nat
<1>. TAKE w
<1>1. U32 \in Nat \ {0} /\ U32 \div 2 \in Nat
  BY BoundsAssumption
<1>2. w \in DOMAIN Count => Count[w] \in Nat
  BY <1>1 DEF Count
<1>. QED
  BY <1>1, <1>2 DEF NumberOf

LEMMA FillerType == \A n \in Nat : Filler(n) \in Nat
  BY DEF Filler

(* A count that wraps is not accepted: its registers would be words of the *)
(* stream, which has fewer than 2^32 of them.                              *)
LEMMA CountFits ==
  ASSUME stream \in Streams, buf \in Nat, WellFormed6
  PROVE  LET n == 2 * NumberOf(In(stream, buf + 1)) IN Left >= 4 + n + Filler(n)
<1>. DEFINE n == NumberOf(In(stream, buf + 1))
<1>1. /\ Left >= 4 /\ Left >= 4 + Twice(n) + Filler(Twice(n))
      /\ \A i \in 0 .. n - 1 : In(stream, buf + 4 + 2 * i) = "register"
  BY WordsRead DEF WellFormed6
<1>2. n \in Nat /\ U32 \in Nat \ {0} /\ Len(stream) \in Nat /\ Len(stream) < U32
  BY NumberType, InEnd, StreamsAssumption, BoundsAssumption
<1>. HIDE DEF n
<1>3. 2 * n < U32
  <2>1. CASE n = 0
    BY <1>2, <2>1
  <2>2. CASE n # 0
    <3>1. In(stream, buf + 4 + 2 * (n - 1)) = "register" /\ buf + 4 + 2 * (n - 1) \in Nat
      BY <1>1, <1>2, <2>2
    <3>2. buf + 4 + 2 * (n - 1) < Len(stream)
      BY <1>2, <3>1, InEnd
    <3>. QED
      BY <1>2, <3>2
  <2>. QED
    BY <2>1, <2>2
<1>4. Twice(n) = 2 * n
  BY <1>2, <1>3, SMTT(30) DEF Twice
<1>. QED
  BY <1>1, <1>4 DEF n

LEMMA CheckVideoStep ==
  ASSUME NEW H, Types, CallInv(H), CheckVheader5 \/ CheckVheader6
  PROVE  CallInv(H)'
<1>. DEFINE n == NumberOf(In(stream, buf + 1))
            m == IF state = "vheader5" THEN n ELSE 2 * n
<1>1. /\ state \in {"vheader5", "vheader6"}
      /\ UNCHANGED <<stream, hc, saved, fires, sections, hw, parted, fireCount, executed>>
  BY DEF CheckVheader5, CheckVheader6, At, input, execVars, checkVars
<1>2. /\ Starts(H) /\ stream \in Streams /\ Len(stream) \in Nat
      /\ Ascending(stream, fires) /\ buf \in Nat
  BY <1>1, SectionFacts
<1>9. \/ state' = "error" /\ buf' = buf
      \/ Left >= 4 + m + Filler(m) /\ state' = "command" /\ buf' = buf + 4 + m + Filler(m)
  <2>1. CASE CheckVheader5
    BY <2>1, WordsRead DEF CheckVheader5, WellFormed5, At, Goto
  <2>2. CASE CheckVheader6
    BY <1>2, <2>2, CountFits, WordsRead DEF CheckVheader6, At, Goto
  <2>. QED
    BY <2>1, <2>2
<1>3. PICK p \in sections : /\ InSection(H, p) /\ p \in Nat /\ AllBelow(fires, p)
                            /\ Complete(stream, fires, H, sections \ {p}, p)
                            /\ p < Len(stream) /\ p <= buf
                            /\ \A i \in p .. Len(stream) : H[i] = hc
  BY <1>1, SectionFacts
<1>4. /\ buf = p /\ In(stream, p) \in Video5 \cup {"V6"}
      /\ state = "vheader5" <=> In(stream, p) \in Video5
  BY <1>1, <1>3 DEF InSection, Video5
<1>5. ASSUME state' = "error", buf' = buf PROVE CallInv(H)'
  BY <1>1, <1>2, <1>5, ToError DEF Checking, Starts
<1>6. ASSUME Left >= 4 + m + Filler(m), state' = "command", buf' = buf + 4 + m + Filler(m)
      PROVE  CallInv(H)'
  <2>1. n \in Nat
    BY NumberType
  <2>2. m \in Nat /\ Filler(m) \in Nat
    BY <2>1, FillerType
  <2>. HIDE DEF m
  <2>3. p < buf' /\ buf' <= Len(stream) /\ buf' \in Nat /\ buf' = VideoEnd(p, m)
    BY <1>2, <1>3, <1>4, <1>6, <2>2 DEF Left, VideoEnd
  <2>4. In(stream, p) \in Video5 => buf' = VideoEnd(p, NumberOf(In(stream, p + 1)))
    BY <1>4, <2>3 DEF m
  <2>5. In(stream, p) = "V6" => buf' = VideoEnd(p, 2 * NumberOf(In(stream, p + 1)))
    BY <1>4, <2>3 DEF m, Video5
  <2>6. NoFire(fires, p, buf') /\ H[buf'] = H[p] => SectionLeads(stream, fires, H, p, buf')
    BY <1>4, <2>3, <2>4, <2>5 DEF SectionLeads
  <2>. QED
    BY <1>1, <1>3, <1>6, <2>3, <2>6, SectionDone
<1>. QED
  BY <1>5, <1>6, <1>9
-----------------------------------------------------------------------------
(* The engine's steps. *)

(* What every step of the second walk leaves alone. *)
Trusts == UNCHANGED <<stream, hc, fires, sections, parted>>

LEMMA ExecFacts ==
  ASSUME NEW H, Types, CallInv(H), state \in {"exec"} \cup Executing
  PROVE  /\ stream \in Streams /\ Len(stream) \in Nat \ {0} /\ Ascending(stream, fires)
         /\ fires \in Seq(Nat) /\ Len(fires) \in Nat
         /\ \A c \in 1 .. Len(fires) : fires[c] \in Nat /\ fires[c] < Len(stream)
         /\ buf \in Nat /\ fireCount \in 0 .. Len(fires)
         /\ Complete(stream, fires, H, sections, Len(stream)) /\ H[Len(stream)] = hc
         /\ sections \subseteq 0 .. Len(stream) - 1 /\ 0 \in sections
<1>1. stream \in Streams /\ Len(stream) \in Nat \ {0}
  BY InEnd DEF Types, Executing
<1>2. /\ Ascending(stream, fires) /\ buf \in Nat /\ fireCount \in 0 .. Len(fires)
      /\ Complete(stream, fires, H, sections, Len(stream)) /\ H[Len(stream)] = hc
  BY DEF CallInv
<1>3. sections \subseteq 0 .. Len(stream) - 1 /\ 0 \in sections
  BY <1>1, <1>2 DEF Complete
<1>4. /\ fires \in Seq(Nat) /\ Len(fires) \in Nat
      /\ \A c \in 1 .. Len(fires) : fires[c] \in Nat /\ fires[c] < Len(stream)
  BY <1>2 DEF Ascending
<1>. QED
  BY <1>1, <1>2, <1>3, <1>4

LEMMA StaysExecuting ==
  ASSUME NEW H, Types, CallInv(H), state \in {"exec"} \cup Executing, Trusts,
         state' \in Executing, buf' \in Nat, fireCount' \in 0 .. Len(fires),
         NEW p \in sections, NEW q \in sections \cup {Len(stream)}, InExecuted(H, p, q)'
  PROVE  CallInv(H)'
<1>1. Ascending(stream, fires) /\ Complete(stream, fires, H, sections, Len(stream))
      /\ H[Len(stream)] = hc
  BY ExecFacts
<1>2. stream' = stream /\ hc' = hc /\ fires' = fires /\ sections' = sections
      /\ parted' = parted
  BY DEF Trusts
<1>3. Ascending(stream', fires') /\ Complete(stream', fires', H, sections', Len(stream'))
      /\ H[Len(stream')] = hc' /\ fireCount' \in 0 .. Len(fires')
  BY <1>1, <1>2
<1>4. \E r \in sections', s \in sections' \cup {Len(stream')} : InExecuted(H, r, s)'
  BY <1>2
<1>. QED
  BY <1>3, <1>4 DEF CallInv, Checking, Executing

(* At the end of a section the engine is at the header of the next. *)
LEMMA BackToExec ==
  ASSUME NEW H, Types, CallInv(H), state \in Executing, Trusts,
         UNCHANGED <<executed, fireCount, hw>>, state' = "exec",
         NEW p \in sections, NEW q \in sections \cup {Len(stream)}, InExecuted(H, p, q),
         buf' = q, Within(fires, q, q, fireCount), ~parted => hw = H[q]
  PROVE  CallInv(H)'
<1>1. /\ Ascending(stream, fires) /\ Complete(stream, fires, H, sections, Len(stream))
      /\ H[Len(stream)] = hc /\ Len(stream) \in Nat /\ sections \subseteq 0 .. Len(stream) - 1
      /\ fireCount \in 0 .. Len(fires)
  BY ExecFacts
<1>2. stream' = stream /\ hc' = hc /\ fires' = fires /\ sections' = sections
      /\ parted' = parted
  BY DEF Trusts
<1>3. executed = {r \in sections : r < q}
  <2>1. executed = {r \in sections : r <= p} /\ Follows(sections, p, q)
    BY DEF InExecuted
  <2>2. \A r \in sections : r <= p <=> r < q
    BY <1>1, <2>1 DEF Follows
  <2>. QED
    BY <2>1, <2>2
<1>4. buf' \in Nat
  BY <1>1
<1>5. Ascending(stream', fires') /\ Complete(stream', fires', H, sections', Len(stream'))
      /\ H[Len(stream')] = hc' /\ fireCount' \in 0 .. Len(fires')
  BY <1>1, <1>2
<1>6. /\ buf' \in sections' \cup {Len(stream')} /\ Within(fires', buf', buf', fireCount')
      /\ executed' = {r \in sections' : r < buf'} /\ (~parted' => hw' = H[buf'])
  BY <1>2, <1>3
<1>. QED
  BY <1>4, <1>5, <1>6 DEF CallInv, Checking, Executing

(* Where there is no fire, the walk over a section passes none. *)
LEMMA PassesNoFire ==
  ASSUME NEW F \in Seq(Nat), NEW p \in Nat, NEW q \in Nat, p < q, NoFire(F, p, q),
         NEW c \in 0 .. Len(F), Within(F, p, p, c)
  PROVE  Within(F, q, q, c)
<1>1. c # 0 => c \in 1 .. Len(F) /\ F[c] \in Nat
  OBVIOUS
<1>2. c # Len(F) => c + 1 \in 1 .. Len(F) /\ F[c + 1] \in Nat
  OBVIOUS
<1>3. c = 0 \/ F[c] < q
  BY <1>1 DEF Within
<1>4. c = Len(F) \/ q <= F[c + 1]
  BY <1>2 DEF Within, NoFire
<1>. QED
  BY <1>3, <1>4 DEF Within

LEMMA WalkStep ==
  ASSUME NEW H, Types, CallInv(H), Walk
  PROVE  CallInv(H)'
<1>1. /\ state = "accepted" /\ state' = "exec" /\ buf' = 0
      /\ UNCHANGED <<stream, hc, saved, fires, sections, hw, parted, fireCount, executed>>
  BY DEF Walk, Goto, input, checkVars, execVars
<1>2. /\ executed = {} /\ fireCount = 0 /\ H[0] = saved /\ (~parted => hw = saved)
      /\ Complete(stream, fires, H, sections, Len(stream)) /\ H[Len(stream)] = hc
      /\ Ascending(stream, fires)
  BY <1>1 DEF CallInv
<1>3. stream \in Streams /\ Len(stream) \in Nat \ {0}
  BY <1>1, InEnd DEF Types
<1>4. sections \subseteq 0 .. Len(stream) - 1 /\ 0 \in sections
  BY <1>2, <1>3 DEF Complete
<1>5. {r \in sections : r < 0} = {}
  <2>1. \A r \in sections : ~ (r < 0)
    BY <1>3, <1>4
  <2>. QED
    BY <2>1
<1>6. Within(fires, 0, 0, 0) /\ 0 \in 0 .. Len(fires)
  <2>1. Len(fires) \in Nat /\ (Len(fires) # 0 => fires[0 + 1] \in Nat)
    BY <1>2 DEF Ascending
  <2>. QED
    BY <2>1 DEF Within
<1>. QED
  BY <1>1, <1>2, <1>4, <1>5, <1>6 DEF CallInv, Checking, Executing

LEMMA ExecCommandStep ==
  ASSUME NEW H, Types, CallInv(H), ExecCommand
  PROVE  CallInv(H)'
<1>. DEFINE w == In(stream, buf)
<1>1. /\ state = "exec" /\ buf < Len(stream) /\ Trusts
      /\ UNCHANGED <<buf, hw, fireCount>> /\ executed' = executed \cup {buf}
      /\ state' = CASE w = "H2" -> "execHeader2"
             [] w \in Registers -> "execHeader1"
             [] w \in Video5 -> "execVheader5"
             [] w = "V6" -> "execVheader6"
             [] OTHER -> "execError"
  BY WordsRead DEF ExecCommand, Exec, input, checkVars, Trusts
<1>2. /\ stream \in Streams /\ Len(stream) \in Nat \ {0} /\ Ascending(stream, fires)
      /\ buf \in Nat /\ fireCount \in 0 .. Len(fires)
      /\ Complete(stream, fires, H, sections, Len(stream))
      /\ sections \subseteq 0 .. Len(stream) - 1
  BY <1>1, ExecFacts
<1>3. /\ buf \in sections \cup {Len(stream)} /\ Within(fires, buf, buf, fireCount)
      /\ executed = {r \in sections : r < buf} /\ (~parted => hw = H[buf])
  BY <1>1 DEF CallInv
<1>4. buf \in sections
  BY <1>1, <1>2, <1>3
<1>5. PICK q \in sections \cup {Len(stream)} :
        Follows(sections, buf, q) /\ SectionLeads(stream, fires, H, buf, q)
  BY <1>2, <1>4 DEF Complete
<1>6. w \in Headers
  BY <1>5 DEF SectionLeads, Headers, Registers, Video5
<1>7. /\ state' \in {"execHeader2", "execHeader1", "execVheader5", "execVheader6"}
      /\ state' = "execHeader2" => w = "H2"
      /\ state' = "execHeader1" => w \in Registers
      /\ state' = "execVheader5" => w \in Video5
      /\ state' = "execVheader6" => w = "V6"
  BY <1>1, <1>6 DEF Headers, Registers, Video5
<1>8. executed' = {r \in sections : r <= buf}
  BY <1>1, <1>2, <1>3, <1>4
<1>9. state' = "execHeader1" => buf <= q /\ \E k \in 0 .. Len(stream) : buf = buf + 2 * k
  <2>1. 0 \in 0 .. Len(stream) /\ buf = buf + 2 * 0
    BY <1>2
  <2>2. buf <= q
    BY <1>2, <1>5 DEF Follows
  <2>. QED
    BY <2>1, <2>2
<1>10. InExecuted(H, buf, q)'
  <2>1. /\ stream' = stream /\ fires' = fires /\ sections' = sections /\ buf' = buf
        /\ fireCount' = fireCount /\ hw' = hw /\ parted' = parted
    BY <1>1 DEF Trusts
  <2>2. /\ buf' \in sections' /\ q \in sections' \cup {Len(stream')}
        /\ Follows(sections', buf', q) /\ SectionLeads(stream', fires', H, buf', q)
        /\ executed' = {r \in sections' : r <= buf'}
        /\ Within(fires', buf', buf', fireCount') /\ (~parted' => hw' = H[buf'])
    BY <1>3, <1>4, <1>5, <1>8, <2>1
  <2>3. /\ state' = "execHeader2" => In(stream', buf') = "H2"
        /\ state' = "execHeader1" => /\ In(stream', buf') \in Registers /\ buf' <= q
                                     /\ \E k \in 0 .. Len(stream') : buf' = buf' + 2 * k
        /\ state' = "execVheader5" => In(stream', buf') \in Video5
        /\ state' = "execVheader6" => In(stream', buf') = "V6"
    BY <1>7, <1>9, <2>1
  <2>. QED
    BY <1>7, <2>2, <2>3 DEF InExecuted
<1>. QED
  BY <1>1, <1>2, <1>4, <1>7, <1>10, StaysExecuting DEF Executing

LEMMA ExecHeader2Step ==
  ASSUME NEW H, Types, CallInv(H), ExecHeader2
  PROVE  CallInv(H)'
<1>1. /\ state = "execHeader2" /\ Trusts /\ UNCHANGED <<hw, fireCount, executed>>
      /\ para' = In(stream, buf + 1) /\ buf' = buf + 2
      /\ state' = IF In(stream, buf + 1) = "Vdata" THEN "execLists" ELSE "execWords"
  BY WordsRead DEF ExecHeader2, Exec, Goto, input, checkVars, execVars, Trusts
<1>2. /\ stream \in Streams /\ Len(stream) \in Nat \ {0} /\ Ascending(stream, fires)
      /\ fires \in Seq(Nat) /\ Len(fires) \in Nat
      /\ buf \in Nat /\ fireCount \in 0 .. Len(fires)
      /\ sections \subseteq 0 .. Len(stream) - 1
      /\ \A c \in 1 .. Len(fires) : fires[c] \in Nat
  BY <1>1, ExecFacts DEF Executing
<1>3. PICK p \in sections, q \in sections \cup {Len(stream)} : InExecuted(H, p, q)
  BY <1>1 DEF CallInv, Executing
<1>4. /\ Follows(sections, p, q) /\ SectionLeads(stream, fires, H, p, q) /\ buf = p
      /\ executed = {r \in sections : r <= p} /\ In(stream, p) = "H2"
      /\ Within(fires, p, p, fireCount) /\ (~parted => hw = H[p])
  BY <1>1, <1>3 DEF InExecuted
<1>5. p \in Nat /\ q \in Nat /\ p < q /\ q <= Len(stream)
  BY <1>2, <1>4 DEF SectionLeads
<1>6. stream' = stream /\ fires' = fires /\ sections' = sections /\ fireCount' = fireCount
      /\ executed' = executed /\ hw' = hw /\ parted' = parted /\ buf' = p + 2
  BY <1>1, <1>4 DEF Trusts
<1>7. CASE In(stream, p + 1) = "Vdata"
  <2>1. state' = "execLists"
    BY <1>1, <1>4, <1>7
  <2>2. Start(stream, fires, p, fireCount) = p + 2
    BY <1>4 DEF Start, Within
  <2>3. Within(fires, p, q, fireCount)
    BY <1>2, <1>4, <1>5 DEF Within
  <2>4. InExecuted(H, p, q)'
    BY <1>3, <1>4, <1>6, <1>7, <2>1, <2>2, <2>3 DEF InExecuted
  <2>. QED
    BY <1>1, <1>2, <1>3, <2>1, <2>4, StaysExecuting DEF Executing
<1>8. CASE In(stream, p + 1) # "Vdata"
  <2>1. state' = "execWords" /\ para' = In(stream, p + 1)
    BY <1>1, <1>4, <1>8
  <2>2. WordsLead(stream, H, p, q)
    BY <1>4, <1>8 DEF SectionLeads, Registers, Video5
  <2>3. p + 2 <= q /\ H[p + 2] = H[p] /\ p + 2 \in p + 2 .. q
    BY <1>5, <2>2 DEF WordsLead
  <2>4. InExecuted(H, p, q)'
    BY <1>3, <1>4, <1>6, <1>8, <2>1, <2>3 DEF InExecuted
  <2>. QED
    BY <1>1, <1>2, <1>3, <2>1, <2>4, StaysExecuting DEF Executing
<1>. QED
  BY <1>7, <1>8

LEMMA ExecListStep ==
  ASSUME NEW H, Types, CallInv(H), ExecList
  PROVE  CallInv(H)'
<1>1. /\ state = "execLists" /\ state' = "execLists" /\ Trusts /\ UNCHANGED <<hw, executed>>
      /\ fireCount < Len(fires) /\ In(stream, buf) \in Lists
      /\ fireCount' = fireCount + 1
      /\ LET nextFire == fires[fireCount + 1]
             after == IF buf <= nextFire THEN nextFire + 1 ELSE buf
         IN buf' = IF In(stream, after) \in Fires THEN after + 1 ELSE after
  BY WordsRead DEF ExecList, MoreLists, Exec, input, checkVars, Trusts, Lists
<1>2. /\ stream \in Streams /\ Len(stream) \in Nat \ {0} /\ Ascending(stream, fires)
      /\ fires \in Seq(Nat) /\ Len(fires) \in Nat
      /\ buf \in Nat /\ fireCount \in 0 .. Len(fires)
      /\ Complete(stream, fires, H, sections, Len(stream))
      /\ sections \subseteq 0 .. Len(stream) - 1
      /\ \A c \in 1 .. Len(fires) : fires[c] \in Nat
  BY <1>1, ExecFacts DEF Executing
<1>3. PICK p \in sections, q \in sections \cup {Len(stream)} : InExecuted(H, p, q)
  BY <1>1 DEF CallInv, Executing
<1>. DEFINE c == fireCount
            f == fires[fireCount + 1]
<1>4. /\ Follows(sections, p, q) /\ SectionLeads(stream, fires, H, p, q)
      /\ executed = {r \in sections : r <= p} /\ (~parted => hw = H[p])
      /\ In(stream, p) = "H2" /\ In(stream, p + 1) = "Vdata" /\ Within(fires, p, q, c)
      /\ buf = Start(stream, fires, p, c)
  BY <1>1, <1>3 DEF InExecuted
<1>5. p \in Nat /\ q \in Nat /\ p < q /\ q <= Len(stream) /\ ListsLead(stream, fires, p, q)
  BY <1>2, <1>4 DEF SectionLeads, Registers, Video5
<1>6. c + 1 \in 1 .. Len(fires) /\ f \in Nat /\ p <= f /\ c # Len(fires)
  BY <1>1, <1>2, <1>4, SMTT(30) DEF Within
<1>7. f < q /\ buf <= f
  <2>1. CASE f < q
    BY <1>1, <1>2, <1>4, <1>5, <2>1 DEF ListsLead
  <2>2. CASE ~ (f < q)
    <3>1. buf = q
      BY <1>1, <1>2, <1>4, <1>5, <2>2 DEF ListsLead
    <3>2. In(stream, q) \in Headers \cup {"none"}
      BY <1>2, SectionEnds
    <3>. QED
      BY <1>1, <3>1, <3>2 DEF Headers, Lists
  <2>. QED
    BY <2>1, <2>2
<1>8. buf' = After(stream, f) /\ buf' = Start(stream, fires, p, c + 1)
  <2>1. buf' = After(stream, f)
    BY <1>1, <1>6, <1>7 DEF After
  <2>2. c + 1 # 0 /\ ~ (fires[c + 1] < p)
    BY <1>2, <1>5, <1>6
  <2>. QED
    BY <2>1, <2>2 DEF Start
<1>9. Within(fires, p, q, c + 1)
  <2>1. ASSUME c + 1 # Len(fires) PROVE p <= fires[c + 2]
    <3>1. c + 1 \in 1 .. Len(fires) /\ c + 2 \in 1 .. Len(fires) /\ c + 1 < c + 2
      BY <1>2, <1>6, <2>1
    <3>2. fires[c + 1] < fires[c + 2] /\ fires[c + 2] \in Nat
      BY <1>2, <3>1 DEF Ascending
    <3>. QED
      BY <1>5, <1>6, <3>2
  <2>2. c + 1 + 1 = c + 2
    BY <1>2
  <2>. QED
    BY <1>7, <2>1, <2>2 DEF Within
<1>10. buf' \in Nat /\ c + 1 \in 0 .. Len(fires)
  BY <1>2, <1>6, <1>8, SMTT(30) DEF After
<1>11. InExecuted(H, p, q)'
  <2>1. /\ stream' = stream /\ fires' = fires /\ sections' = sections /\ executed' = executed
        /\ hw' = hw /\ parted' = parted /\ fireCount' = c + 1
    BY <1>1 DEF Trusts
  <2>. QED
    BY <1>1, <1>3, <1>4, <1>8, <1>9, <2>1 DEF InExecuted
<1>. QED
  BY <1>1, <1>10, <1>11, StaysExecuting DEF Executing

LEMMA ExecWordStep ==
  ASSUME NEW H, Types, CallInv(H), ExecWord
  PROVE  CallInv(H)'
<1>1. /\ state = "execWords" /\ state' = "execWords" /\ Trusts
      /\ UNCHANGED <<para, fireCount, executed>>
      /\ In(stream, buf) \notin {"none"} \cup Headers
      /\ hw' = Effect(hw, para, In(stream, buf)) /\ buf' = buf + 1
  BY WordsRead DEF ExecWord, Exec, input, checkVars, Trusts
<1>2. /\ stream \in Streams /\ Len(stream) \in Nat \ {0} /\ buf \in Nat
      /\ fireCount \in 0 .. Len(fires)
      /\ Complete(stream, fires, H, sections, Len(stream))
      /\ sections \subseteq 0 .. Len(stream) - 1
  BY <1>1, ExecFacts DEF Executing
<1>3. PICK p \in sections, q \in sections \cup {Len(stream)} : InExecuted(H, p, q)
  BY <1>1 DEF CallInv, Executing
<1>4. /\ Follows(sections, p, q) /\ SectionLeads(stream, fires, H, p, q)
      /\ executed = {r \in sections : r <= p} /\ (~parted => hw = H[buf])
      /\ In(stream, p) = "H2" /\ In(stream, p + 1) # "Vdata" /\ Within(fires, p, p, fireCount)
      /\ para = In(stream, p + 1) /\ buf \in p + 2 .. q
  BY <1>1, <1>3 DEF InExecuted
<1>5. p \in Nat /\ q \in Nat /\ p < q /\ q <= Len(stream) /\ WordsLead(stream, H, p, q)
  BY <1>2, <1>4 DEF SectionLeads, Registers, Video5
<1>6. buf < q /\ buf \in p + 2 .. q - 1 /\ buf + 1 \in p + 2 .. q
  <2>1. buf # q
    BY <1>1, <1>2, SectionEnds
  <2>. QED
    BY <1>2, <1>4, <1>5, <2>1
<1>7. ~parted' => hw' = H[buf + 1]
  BY <1>1, <1>4, <1>5, <1>6 DEF WordsLead, Trusts
<1>8. InExecuted(H, p, q)'
  <2>1. /\ stream' = stream /\ fires' = fires /\ sections' = sections /\ executed' = executed
        /\ para' = para /\ fireCount' = fireCount /\ buf' = buf + 1
    BY <1>1 DEF Trusts
  <2>. QED
    BY <1>1, <1>3, <1>4, <1>6, <1>7, <2>1 DEF InExecuted
<1>. QED
  BY <1>1, <1>2, <1>3, <1>8, StaysExecuting DEF Executing

LEMMA EndOfHeader2Step ==
  ASSUME NEW H, Types, CallInv(H), EndOfHeader2
  PROVE  CallInv(H)'
<1>1. /\ state' = "exec" /\ Trusts /\ UNCHANGED <<buf, hw, fireCount, executed>>
      /\ \/ /\ state = "execLists"
            /\ ~ (fireCount < Len(fires) /\ In(stream, buf) \in Lists)
         \/ state = "execWords" /\ In(stream, buf) \in {"none"} \cup Headers
  BY WordsRead DEF EndOfHeader2, MoreLists, Exec, input, checkVars, execVars, Trusts, Lists
<1>2. /\ stream \in Streams /\ Len(stream) \in Nat \ {0} /\ buf \in Nat
      /\ fires \in Seq(Nat) /\ Len(fires) \in Nat /\ fireCount \in 0 .. Len(fires)
      /\ Complete(stream, fires, H, sections, Len(stream))
      /\ sections \subseteq 0 .. Len(stream) - 1
      /\ \A c \in 1 .. Len(fires) : fires[c] \in Nat
  BY <1>1, ExecFacts DEF Executing
<1>3. PICK p \in sections, q \in sections \cup {Len(stream)} : InExecuted(H, p, q)
  BY <1>1 DEF CallInv, Executing
<1>4. SectionLeads(stream, fires, H, p, q) /\ p \in Nat /\ q \in Nat /\ p < q /\ q <= Len(stream)
  BY <1>2, <1>3 DEF InExecuted, SectionLeads
<1>5. CASE state = "execLists"
  <2>1. /\ In(stream, p) = "H2" /\ In(stream, p + 1) = "Vdata"
        /\ Within(fires, p, q, fireCount) /\ buf = Start(stream, fires, p, fireCount)
        /\ (~parted => hw = H[p])
    BY <1>3, <1>5 DEF InExecuted
  <2>2. ListsLead(stream, fires, p, q) /\ H[q] = H[p]
    BY <1>4, <2>1 DEF SectionLeads, Registers, Video5
  <2>3. ~ (fireCount < Len(fires) /\ fires[fireCount + 1] < q) /\ buf = q
    BY <1>1, <1>2, <1>5, <2>1, <2>2 DEF ListsLead
  <2>4. Within(fires, q, q, fireCount)
    <3>1. fireCount # Len(fires) => fireCount + 1 \in 1 .. Len(fires) /\ fireCount < Len(fires)
      BY <1>2
    <3>. QED
      BY <1>2, <1>4, <2>1, <2>3, <3>1 DEF Within
  <2>. QED
    BY <1>1, <1>3, <1>5, <2>1, <2>2, <2>3, <2>4, BackToExec DEF Executing
<1>6. CASE state = "execWords"
  <2>1. /\ In(stream, p) = "H2" /\ In(stream, p + 1) # "Vdata"
        /\ Within(fires, p, p, fireCount) /\ buf \in p + 2 .. q
        /\ (~parted => hw = H[buf])
    BY <1>3, <1>6 DEF InExecuted
  <2>2. WordsLead(stream, H, p, q) /\ NoFire(fires, p, q)
    BY <1>4, <2>1 DEF SectionLeads, Registers, Video5
  <2>3. In(stream, buf) \in {"none"} \cup Headers
    BY <1>1, <1>6
  <2>4. buf = q
    <3>. SUFFICES ASSUME buf < q PROVE FALSE
      BY <1>2, <1>4, <2>1
    <3>1. buf \in p + 2 .. q - 1 /\ buf < Len(stream)
      BY <1>2, <1>4, <2>1
    <3>2. In(stream, buf) \notin Headers /\ In(stream, buf) # "none"
      BY <1>2, <2>2, <3>1, InEnd DEF WordsLead
    <3>. QED
      BY <2>3, <3>2
  <2>5. Within(fires, q, q, fireCount)
    BY <1>2, <1>4, <2>1, <2>2, PassesNoFire
  <2>. QED
    BY <1>1, <1>3, <1>6, <2>1, <2>4, <2>5, BackToExec DEF Executing
<1>. QED
  BY <1>1, <1>5, <1>6

LEMMA ExecHeader1Step ==
  ASSUME NEW H, Types, CallInv(H), ExecHeader1
  PROVE  CallInv(H)'
<1>1. /\ state = "execHeader1" /\ Trusts /\ UNCHANGED <<hw, fireCount, executed>>
      /\ \/ /\ Left > 0 /\ In(stream, buf) \in Registers
            /\ state' = "execHeader1" /\ buf' = buf + 2
         \/ /\ Left <= 0 \/ In(stream, buf) \notin Registers
            /\ state' = "exec" /\ buf' = buf
  BY WordsRead DEF ExecHeader1, Goto, Exec, input, checkVars, execVars, Trusts
<1>2. /\ stream \in Streams /\ Len(stream) \in Nat \ {0} /\ buf \in Nat
      /\ fires \in Seq(Nat) /\ Len(fires) \in Nat /\ fireCount \in 0 .. Len(fires)
      /\ Complete(stream, fires, H, sections, Len(stream))
      /\ sections \subseteq 0 .. Len(stream) - 1
  BY <1>1, ExecFacts DEF Executing
<1>3. PICK p \in sections, q \in sections \cup {Len(stream)} : InExecuted(H, p, q)
  BY <1>1 DEF CallInv, Executing
<1>4. SectionLeads(stream, fires, H, p, q) /\ p \in Nat /\ q \in Nat /\ p < q /\ q <= Len(stream)
  BY <1>2, <1>3 DEF InExecuted, SectionLeads
<1>5. /\ In(stream, p) \in Registers /\ Within(fires, p, p, fireCount) /\ buf <= q
      /\ (~parted => hw = H[p]) /\ Follows(sections, p, q) /\ executed = {r \in sections : r <= p}
  BY <1>1, <1>3 DEF InExecuted
<1>6. PICK k \in 0 .. Len(stream) : buf = p + 2 * k
  BY <1>1, <1>3 DEF InExecuted
<1>7. /\ NoFire(fires, p, q) /\ H[q] = H[p] /\ PairsLead(stream, p, q)
      /\ In(stream, q) \notin Registers
  BY <1>4, <1>5 DEF SectionLeads, Registers, Video5
<1>8. PICK n \in 0 .. Len(stream) :
        q = p + 2 * n /\ \A i \in 0 .. n - 1 : In(stream, p + 2 * i) \in Registers
  BY <1>7 DEF PairsLead
<1>9. CASE state' = "execHeader1" /\ In(stream, buf) \in Registers /\ buf' = buf + 2
  <2>1. buf # q
    BY <1>7, <1>9
  <2>2. k + 1 \in 0 .. n /\ buf' = p + 2 * (k + 1)
    BY <1>2, <1>4, <1>5, <1>6, <1>8, <1>9, <2>1
  <2>3. buf' <= q /\ k + 1 \in 0 .. Len(stream) /\ buf' \in Nat
    BY <1>2, <1>4, <1>8, <2>2
  <2>4. InExecuted(H, p, q)'
    <3>1. /\ stream' = stream /\ fires' = fires /\ sections' = sections /\ executed' = executed
          /\ hw' = hw /\ parted' = parted /\ fireCount' = fireCount /\ state' = "execHeader1"
      BY <1>1, <1>9 DEF Trusts
    <3>2. \E i \in 0 .. Len(stream') : buf' = p + 2 * i
      BY <2>2, <2>3, <3>1
    <3>. QED
      BY <1>3, <1>4, <1>5, <2>3, <3>1, <3>2 DEF InExecuted
  <2>. QED
    BY <1>1, <1>2, <1>9, <2>3, <2>4, StaysExecuting DEF Executing
<1>10. CASE /\ Left <= 0 \/ In(stream, buf) \notin Registers
            /\ state' = "exec" /\ buf' = buf
  <2>1. buf = q
    <3>. SUFFICES ASSUME buf # q PROVE FALSE
      OBVIOUS
    <3>1. k \in 0 .. n - 1 /\ buf < Len(stream)
      BY <1>2, <1>4, <1>5, <1>6, <1>8
    <3>2. In(stream, buf) \in Registers
      BY <1>6, <1>8, <3>1
    <3>. QED
      BY <1>2, <1>10, <3>1, <3>2 DEF Left
  <2>2. Within(fires, q, q, fireCount)
    BY <1>2, <1>4, <1>5, <1>7, PassesNoFire
  <2>. QED
    BY <1>1, <1>3, <1>5, <1>7, <1>10, <2>1, <2>2, BackToExec DEF Executing
<1>. QED
  BY <1>1, <1>9, <1>10

LEMMA ExecVideoStep ==
  ASSUME NEW H, Types, CallInv(H), ExecVideo
  PROVE  CallInv(H)'
<1>. DEFINE count == NumberOf(In(stream, buf + 1))
            n == IF state = "execVheader5" THEN count ELSE 2 * count
<1>1. /\ state \in {"execVheader5", "execVheader6"} /\ Trusts
      /\ UNCHANGED <<hw, fireCount, executed>>
      /\ state' = "exec" /\ buf' = buf + 4 + n + Filler(n)
  BY WordsRead DEF ExecVideo, Goto, Exec, input, checkVars, execVars, Trusts
<1>2. /\ stream \in Streams /\ Len(stream) \in Nat \ {0} /\ buf \in Nat
      /\ fires \in Seq(Nat) /\ fireCount \in 0 .. Len(fires)
      /\ sections \subseteq 0 .. Len(stream) - 1
  BY <1>1, ExecFacts DEF Executing
<1>3. PICK p \in sections, q \in sections \cup {Len(stream)} : InExecuted(H, p, q)
  BY <1>1 DEF CallInv, Executing
<1>4. SectionLeads(stream, fires, H, p, q) /\ p \in Nat /\ q \in Nat /\ p < q
  BY <1>2, <1>3 DEF InExecuted, SectionLeads
<1>5. /\ buf = p /\ Within(fires, p, p, fireCount) /\ (~parted => hw = H[p])
      /\ state = "execVheader5" => In(stream, p) \in Video5
      /\ state = "execVheader6" => In(stream, p) = "V6"
  BY <1>1, <1>3 DEF InExecuted
<1>6. NoFire(fires, p, q) /\ H[q] = H[p] /\ q = VideoEnd(p, n)
  BY <1>1, <1>4, <1>5 DEF SectionLeads, Registers, Video5
<1>7. buf' = q
  BY <1>1, <1>5, <1>6 DEF VideoEnd
<1>8. Within(fires, q, q, fireCount)
  BY <1>2, <1>4, <1>5, <1>6, PassesNoFire
<1>. QED
  BY <1>1, <1>3, <1>5, <1>6, <1>7, <1>8, BackToExec DEF Executing

LEMMA ExecEndStep ==
  ASSUME NEW H, Types, CallInv(H), ExecEnd
  PROVE  CallInv(H)'
<1>1. /\ state = "exec" /\ buf >= Len(stream) /\ Trusts /\ state' = "executed"
      /\ UNCHANGED <<buf, hw, fireCount, executed>>
  BY DEF ExecEnd, Exec, input, checkVars, execVars, Trusts
<1>2. /\ Len(stream) \in Nat \ {0} /\ Ascending(stream, fires)
      /\ buf \in Nat /\ fireCount \in 0 .. Len(fires) /\ Len(fires) \in Nat
      /\ Complete(stream, fires, H, sections, Len(stream)) /\ H[Len(stream)] = hc
      /\ sections \subseteq 0 .. Len(stream) - 1
      /\ \A c \in 1 .. Len(fires) : fires[c] \in Nat /\ fires[c] < Len(stream)
  BY <1>1, ExecFacts
<1>3. /\ buf \in sections \cup {Len(stream)} /\ Within(fires, buf, buf, fireCount)
      /\ executed = {r \in sections : r < buf} /\ (~parted => hw = H[buf])
  BY <1>1 DEF CallInv
<1>4. buf = Len(stream)
  BY <1>1, <1>2, <1>3
<1>5. executed = sections
  <2>1. \A r \in sections : r < buf
    BY <1>2, <1>4
  <2>. QED
    BY <1>3, <2>1
<1>6. fireCount = Len(fires)
  <2>. SUFFICES ASSUME fireCount # Len(fires) PROVE FALSE
    OBVIOUS
  <2>1. fireCount + 1 \in 1 .. Len(fires)
    BY <1>2
  <2>. QED
    BY <1>2, <1>3, <1>4, <2>1 DEF Within
<1>7. UNCHANGED <<stream, hc, fires, sections, parted>>
  BY <1>1 DEF Trusts
<1>8. /\ Ascending(stream', fires') /\ Complete(stream', fires', H, sections', Len(stream'))
      /\ H[Len(stream')] = hc' /\ buf' = Len(stream') /\ buf' \in Nat
      /\ executed' = sections' /\ fireCount' = Len(fires') /\ (~parted' => hw' = hc')
  BY <1>1, <1>2, <1>3, <1>4, <1>5, <1>6, <1>7
<1>. QED
  BY <1>1, <1>8 DEF CallInv, Checking, Executing
-----------------------------------------------------------------------------
(* Between the streams. *)

LEMMA SubmitStep ==
  ASSUME Types, IdleInv, NEW s \in Streams, NEW a \in BOOLEAN, Submit(s, a)
  PROVE  \E H : CallInv(H)'
<1>1. /\ state' = "command" /\ stream' = s /\ saved' = hc /\ fires' = <<>>
      /\ UNCHANGED <<buf, sections, fireCount, executed, hc, hw, parted>>
      /\ sections = {} /\ executed = {} /\ buf = 0 /\ fireCount = 0 /\ (~parted => hw = hc)
  BY DEF Submit, locals, NoFires, IdleInv
<1>2. Len(s) \in Nat
  BY InEnd
<1>3. PICK H : \A i \in 0 .. Len(s) : H[i] = hc
  <2>. DEFINE F == [i \in 0 .. Len(s) |-> hc]
  <2>1. \A i \in 0 .. Len(s) : F[i] = hc
    OBVIOUS
  <2>. HIDE DEF F
  <2>. QED
    BY <2>1
<1>4. Ascending(stream', fires') /\ AllBelow(fires', buf')
  BY <1>1 DEF Ascending, AllBelow
<1>5. Complete(stream', fires', H, sections', buf')
  BY <1>1, <1>2 DEF Complete
<1>6. /\ buf' \in Nat /\ \A i \in buf' .. Len(stream') : H[i] = hc'
      /\ executed' = {} /\ fireCount' = 0 /\ H[0] = saved' /\ (~parted' => hw' = saved')
  BY <1>1, <1>2, <1>3
<1>7. CallInv(H)'
  BY <1>1, <1>4, <1>5, <1>6 DEF CallInv, Checking, Executing
<1>. QED
  BY <1>7

(* The call returns.  From the state that is saved hc_state parts if the   *)
(* stream is dropped with a change of it.                                  *)
LEMMA LeaveStep ==
  ASSUME Types, Unexecuted, Reject \/ NoRoom \/ Return,
         NEW H, WellWritten(stream) => CallInv(H)
  PROVE  state' = "idle" /\ IdleInv'
<1>1. /\ state' = "idle" /\ sections' = {} /\ executed' = {} /\ buf' = 0 /\ fireCount' = 0
      /\ hw' = hw
  BY DEF Reject, NoRoom, Return, Leave
<1>2. ASSUME Reject, ~parted' PROVE hw' = hc'
  BY <1>2 DEF Reject, Restored, Unexecuted
<1>3. ASSUME Return, ~parted' PROVE hw' = hc'
  <2>1. ~parted /\ WellWritten(stream) /\ state \in {"executed", "execError"}
    BY <1>3 DEF Return, Types
  <2>. QED
    BY <1>3, <2>1 DEF Return, CallInv
<1>4. ASSUME NoRoom, ~parted' PROVE hw' = hc'
  <2>1. ~parted /\ hc = saved /\ state = "accepted"
    BY <1>4 DEF NoRoom, Types
  <2>. QED
    BY <1>4, <2>1 DEF NoRoom, Unexecuted
<1>. QED
  BY <1>1, <1>2, <1>3, <1>4 DEF IdleInv

(* While the stream is checked and walked the saved state and the engine's *)
(* are left alone, whatever the stream is.                                 *)
LEMMA UnexecutedStep ==
  ASSUME Types, Unexecuted, state # "idle", state' # "idle", Check \/ Parse
  PROVE  Unexecuted'
<1>1. CASE Check
  <2>1. state \in {"command", "accepted", "error"} \cup Checking /\ UNCHANGED <<saved, hw, parted>>
    <3>1. CASE CheckCommand
      BY <3>1 DEF CheckCommand, At, execVars
    <3>2. CASE Accept
      BY <3>2 DEF Accept, At, checkVars, execVars
    <3>3. CASE CheckHeader2 \/ CheckWord \/ EndTable \/ RejectWord
      BY <3>3 DEF CheckHeader2, CheckWord, EndTable, RejectWord, At, checkVars, execVars, Checking
    <3>4. CASE CheckList \/ EndLists \/ RejectList \/ CheckVertex \/ CheckFire \/ RejectVertex \/ MissingFire
      BY <3>4 DEF CheckList, EndLists, RejectList, CheckVertex, CheckFire, RejectVertex, MissingFire,
         At, checkVars, execVars, Checking
    <3>5. CASE CheckHeader1 \/ CheckVheader5 \/ CheckVheader6
      BY <3>5 DEF CheckHeader1, CheckVheader5, CheckVheader6, At, checkVars, execVars, Checking
    <3>6. CASE Reject
      BY <3>6 DEF Reject, Leave
    <3>. QED
      BY <1>1, <3>1, <3>2, <3>3, <3>4, <3>5, <3>6 DEF Check
  <2>. QED
    BY <2>1 DEF Unexecuted
<1>2. CASE Parse
  <2>1. state' \in {"exec", "executed", "execError"} \cup Executing
    <3>1. CASE NoRoom \/ Return
      BY <3>1 DEF NoRoom, Return, Leave
    <3>2. CASE Walk
      BY <3>2 DEF Walk, Goto
    <3>3. CASE ExecCommand
      BY <3>3 DEF ExecCommand, Executing
    <3>4. CASE ExecHeader2 \/ ExecList \/ ExecWord \/ EndOfHeader2
      BY <3>4 DEF ExecHeader2, ExecList, ExecWord, EndOfHeader2, Exec, Goto, Executing
    <3>5. CASE ExecHeader1 \/ ExecVideo \/ ExecEnd
      BY <3>5 DEF ExecHeader1, ExecVideo, ExecEnd, Exec, Goto, Executing
    <3>. QED
      BY <1>2, <3>1, <3>2, <3>3, <3>4, <3>5 DEF Parse
  <2>. QED
    BY <2>1 DEF Unexecuted, Executing, Checking
<1>. QED
  BY <1>1, <1>2

LEMMA WalkInvStep ==
  ASSUME NEW H, WalkInv(H), [VerifierNext]_verifierVars
  PROVE  \E G : WalkInv(G)'
<1>0. /\ Types /\ Types' /\ (state = "idle" => IdleInv)
      /\ state # "idle" => Unexecuted /\ (WellWritten(stream) => CallInv(H))
  BY TypesStep DEF WalkInv
<1>1. ASSUME NEW s \in Streams, NEW a \in BOOLEAN, Submit(s, a) PROVE \E G : WalkInv(G)'
  <2>1. state = "idle" /\ state' = "command" /\ saved' = hc /\ hw' = hw /\ parted' = parted
    BY <1>1 DEF Submit
  <2>2. PICK G : CallInv(G)'
    BY <1>0, <1>1, <2>1, SubmitStep
  <2>3. Unexecuted'
    BY <1>0, <2>1 DEF IdleInv, Unexecuted
  <2>. QED
    BY <1>0, <2>1, <2>2, <2>3 DEF WalkInv
<1>2. ASSUME NEW G, WellWritten(stream') => CallInv(G)', Unexecuted', state' # "idle"
      PROVE  \E F : WalkInv(F)'
  <2>. QED
    BY <1>0, <1>2 DEF WalkInv
<1>3. CASE Check /\ ~Reject
  <2>1. state # "idle" /\ state' # "idle" /\ stream' = stream
    BY <1>3 DEF Check, CheckCommand, Accept, CheckHeader2, CheckWord, EndTable, RejectWord,
       CheckList, EndLists, RejectList, CheckVertex, CheckFire, RejectVertex, MissingFire,
       CheckHeader1, CheckVheader5, CheckVheader6, At, Goto, LeaveVertices, Registers, Video5, input
  <2>2. Unexecuted'
    BY <1>0, <1>3, <2>1, UnexecutedStep
  <2>3. ASSUME WellWritten(stream) PROVE \E G : CallInv(G)'
    <3>1. CallInv(H)
      BY <1>0, <2>1, <2>3
    <3>. QED
      BY <1>0, <1>3, <2>3, <3>1, CheckCommandStep, AcceptStep, CheckHeader2Step, CheckWordStep,
         EndTableStep, RejectStep, CheckListStep, EndListsStep, CheckVertexStep, CheckFireStep,
         RejectVertexStep, CheckHeader1Step, CheckVideoStep DEF Check
  <2>. QED
    BY <1>2, <2>1, <2>2, <2>3
<1>4. CASE Parse /\ ~NoRoom /\ ~Return
  <2>1. state # "idle" /\ state' # "idle" /\ stream' = stream
    BY <1>4 DEF Parse, Walk, ExecCommand, ExecHeader2, ExecList, ExecWord, EndOfHeader2,
       ExecHeader1, ExecVideo, ExecEnd, Exec, Goto, Registers, Video5, input
  <2>2. Unexecuted'
    BY <1>0, <1>4, <2>1, UnexecutedStep
  <2>3. ASSUME WellWritten(stream) PROVE CallInv(H)'
    <3>1. CallInv(H)
      BY <1>0, <2>1, <2>3
    <3>. QED
      BY <1>0, <1>4, <3>1, WalkStep, ExecCommandStep, ExecHeader2Step, ExecListStep, ExecWordStep,
         EndOfHeader2Step, ExecHeader1Step, ExecVideoStep, ExecEndStep DEF Parse
  <2>. QED
    BY <1>2, <2>1, <2>2, <2>3
<1>5. CASE Reject \/ NoRoom \/ Return
  <2>1. state # "idle"
    BY <1>5 DEF Reject, NoRoom, Return
  <2>2. state' = "idle" /\ IdleInv'
    BY <1>0, <1>5, <2>1, LeaveStep
  <2>. QED
    BY <1>0, <2>2 DEF WalkInv
<1>6. CASE UNCHANGED verifierVars
  <2>1. /\ UNCHANGED <<stream, state, buf, para, parted>>
        /\ UNCHANGED <<hc, saved, size, failed, fires, sections>>
        /\ UNCHANGED <<hw, fireCount, executed>>
    BY <1>6 DEF verifierVars, input, checkVars, execVars
  <2>2. CASE state = "idle"
    BY <1>0, <2>1, <2>2 DEF WalkInv, IdleInv
  <2>3. CASE state # "idle"
    <3>1. ASSUME NEW p, InSection(H, p) PROVE InSection(H, p)'
      BY <2>1, <3>1 DEF InSection
    <3>2. ASSUME NEW p, NEW q, InExecuted(H, p, q) PROVE InExecuted(H, p, q)'
      BY <2>1, <3>2 DEF InExecuted
    <3>3. WellWritten(stream) => CallInv(H)'
      BY <1>0, <2>1, <2>3, <3>1, <3>2 DEF CallInv
    <3>4. Unexecuted'
      BY <1>0, <2>1, <2>3 DEF Unexecuted
    <3>. QED
      BY <1>2, <2>1, <2>3, <3>3, <3>4
  <2>. QED
    BY <2>2, <2>3
<1>. QED
  BY <1>1, <1>3, <1>4, <1>5, <1>6 DEF VerifierNext, Check, Parse

LEMMA WalkInvInit == VerifierInit => \E H : WalkInv(H)
BY ResetType DEF VerifierInit, WalkInv, Types, IdleInv
-----------------------------------------------------------------------------
(* SameSections: chrome_parse_command_stream, which checks nothing, meets a *)
(* header wherever chrome_verify_command_stream has found one and nowhere  *)
(* else, uses each of the fire offsets once, and stops where the stream    *)
(* ends: of a stream of the form clients write (WellWritten), whatever     *)
(* streams were submitted before.                                          *)
THEOREM SecondWalk == VerifierSpec => []SameSections
<1>. DEFINE WalkedInv == \E H : WalkInv(H)
<1>1. VerifierInit => WalkedInv
  BY WalkInvInit
<1>2. WalkedInv /\ [VerifierNext]_verifierVars => WalkedInv'
  <2>. SUFFICES ASSUME NEW H, WalkInv(H), [VerifierNext]_verifierVars PROVE WalkedInv'
    OBVIOUS
  <2>1. \E G : WalkInv(G)'
    BY WalkInvStep
  <2>. QED
    BY <2>1
<1>3. WalkedInv => SameSections
  BY DEF WalkInv, CallInv, SameSections
<1>. HIDE DEF WalkedInv
<1>. QED
  BY <1>1, <1>2, <1>3, PTL DEF VerifierSpec
-----------------------------------------------------------------------------
(* The texture of the engine, as the verifier knows it: the one its flag   *)
(* is about has its address in a map, except while the words of its unit   *)
(* are being read.                                                         *)
TextureInMap(s3d) == AgpTexture(s3d) => s3d.addr[s3d.last] \in Maps
Pending == unfinished /\ para \in DOMAIN TextureUnit /\ hc.last = TextureUnit[para]
MapInv ==
  /\ TextureInMap(saved)
  /\ state \notin {"table", "error"} => TextureInMap(hc)
  /\ state = "table" => Pending \/ TextureInMap(hc)

LEMMA OtherWords ==
  ASSUME NEW w, Hazard(w) = "other"
  PROVE  TextureInMap(hc) => TextureInMap(Effect(hc, para, w))
<1>1. w \in {"plain", "dummy"} \/ (para = "TexGeneral" /\ w \in {"multi0", "multi1"})
  BY DEF Hazard, Registers, Fires
<1>2. CASE w \in {"plain", "dummy"}
  <2>1. Effect(hc, para, w) = hc
    BY <1>2 DEF Effect
  <2>. QED
    BY <2>1
<1>3. CASE para = "TexGeneral" /\ w \in {"multi0", "multi1"}
  <2>1. Effect(hc, para, w) = [hc EXCEPT !.multitex = IF w = "multi1" THEN 1 ELSE 0]
    BY <1>3, UnitOfPara DEF Effect
  <2>. QED
    BY <2>1 DEF TextureInMap, AgpTexture
<1>. QED
  BY <1>1, <1>2, <1>3

(* A word of a texture is about the last one from now on, or leaves it     *)
(* alone.                                                                  *)
LEMMA TextureWords ==
  ASSUME hc \in EngineStates, NEW w, Hazard(w) = "texture"
  PROVE  /\ para \in DOMAIN TextureUnit
         /\ LET x == Effect(hc, para, w) IN
              \/ x.last = TextureUnit[para]
              \/ hc.last # TextureUnit[para] /\ (TextureInMap(hc) => TextureInMap(x))
<1>1. para \in DOMAIN TextureUnit /\ w \in {"lo0", "lo1", "hi0", "hi1", "agp", "local"}
  BY DEF Hazard
<1>. DEFINE u == TextureUnit[para]
<1>2. u \in TextureUnits /\ hc.last \in TextureUnits /\ hc.addr \in [TextureUnits -> [1 .. 2 -> {0, 1}]]
  BY <1>1, UnitOfPara DEF EngineStates
<1>3. CASE w \in {"agp", "local"}
  <2>1. Effect(hc, para, w) = [hc EXCEPT !.inAgp[u] = (w = "agp"), !.last = u]
    BY <1>1, <1>3 DEF Effect
  <2>2. Effect(hc, para, w).last = u
    BY <2>1 DEF EngineStates
  <2>. QED
    BY <1>1, <2>2
<1>4. CASE w \in {"lo0", "lo1", "hi0", "hi1"}
  <2>1. PICK k \in 1 .. 2, v \in {0, 1} : Effect(hc, para, w) = [hc EXCEPT !.addr[u][k] = v]
    BY <1>1, <1>4 DEF Effect
  <2>. HIDE DEF u
  <2>2. /\ Effect(hc, para, w).last = hc.last /\ Effect(hc, para, w).inAgp = hc.inAgp
        /\ hc.last # u => Effect(hc, para, w).addr[hc.last] = hc.addr[hc.last]
    BY <1>2, <2>1 DEF EngineStates
  <2>3. hc.last # u => (TextureInMap(hc) => TextureInMap(Effect(hc, para, w)))
    BY <2>2 DEF TextureInMap, AgpTexture
  <2>. QED
    BY <1>1, <2>2, <2>3 DEF u
<1>. QED
  BY <1>1, <1>3, <1>4

LEMMA Finished ==
  ASSUME MapInv, state = "table", NEW h, h # "texture", Finishable(h)
  PROVE  TextureInMap(hc)
BY DEF MapInv, Pending, Finishable, TextureInMap

LEMMA MapInvStep == Types /\ MapInv /\ [VerifierNext]_verifierVars => MapInv'
<1>. SUFFICES ASSUME Types, MapInv, [VerifierNext]_verifierVars PROVE MapInv'
  OBVIOUS
<1>0. TextureInMap(Reset)
  BY DEF TextureInMap, AgpTexture, Reset, TextureUnits
<1>. USE DEF MapInv, Pending
<1>1. ASSUME NEW s \in Streams, NEW a \in BOOLEAN, Submit(s, a) PROVE MapInv'
  BY <1>1 DEF Submit, locals
<1>2. CASE CheckCommand
  <2>1. state = "command" /\ state' # "table" /\ hc' = hc /\ saved' = saved /\ unfinished' = unfinished
    BY <1>2 DEF CheckCommand, At, Registers, Video5
  <2>. QED
    BY <2>1
<1>3. CASE Accept
  BY <1>3 DEF Accept, At, checkVars
<1>4. CASE Reject \/ NoRoom \/ Return
  BY <1>0, <1>4 DEF Reject, NoRoom, Return, Leave, Restored
<1>5. CASE CheckHeader2
  BY <1>5 DEF CheckHeader2, At, Goto, checkVars
<1>6. CASE CheckWord
  <2>1. /\ state = "table" /\ state' = "table" /\ saved' = saved
        /\ hc' = Effect(hc, para, WordAt(buf))
        /\ Hazard(WordAt(buf)) \in {"other", "texture"} /\ Finishable(Hazard(WordAt(buf)))
        /\ unfinished' = (Hazard(WordAt(buf)) = "texture")
    BY <1>6 DEF CheckWord, At, Goto
  <2>2. CASE Hazard(WordAt(buf)) = "texture"
    <3>1. hc \in EngineStates /\ para' = para /\ unfinished'
      BY <1>6, <2>1, <2>2 DEF CheckWord, Types
    <3>2. /\ para \in DOMAIN TextureUnit
          /\ \/ hc'.last = TextureUnit[para]
             \/ hc.last # TextureUnit[para] /\ (TextureInMap(hc) => TextureInMap(hc'))
      BY <2>1, <2>2, <3>1, TextureWords
    <3>3. TextureInMap(saved')
      BY <2>1
    <3>. QED
      BY <2>1, <3>1, <3>2, <3>3
  <2>3. CASE Hazard(WordAt(buf)) = "other"
    <3>1. TextureInMap(hc)
      BY <2>1, <2>3, Finished
    <3>2. TextureInMap(hc')
      BY <2>1, <2>3, <3>1, OtherWords
    <3>. QED
      BY <2>1, <2>3, <3>2
  <2>. QED
    BY <2>1, <2>2, <2>3
<1>7. CASE EndTable
  <2>1. state = "table" /\ Finishable("stop") /\ state' = "command" /\ hc' = hc /\ saved' = saved
    BY <1>7 DEF EndTable, At
  <2>. QED
    BY <2>1, Finished
<1>8. CASE RejectWord \/ RejectList \/ MissingFire
  BY <1>8 DEF RejectWord, RejectList, MissingFire, At, checkVars
<1>9. CASE CheckList \/ EndLists \/ CheckVertex \/ CheckFire \/ RejectVertex
  BY <1>9 DEF CheckList, EndLists, CheckVertex, CheckFire, RejectVertex, LeaveVertices, At, Goto,
     checkVars
<1>10. CASE CheckHeader1 \/ CheckVheader5 \/ CheckVheader6
  BY <1>10 DEF CheckHeader1, CheckVheader5, CheckVheader6, At, Goto, checkVars
<1>11. CASE Walk
  BY <1>11 DEF Walk, Goto, checkVars
<1>12. CASE ExecCommand
  <2>1. state = "exec" /\ state' \notin {"table", "error"} /\ UNCHANGED <<hc, saved, unfinished>>
    BY <1>12 DEF ExecCommand, Exec, checkVars, Registers, Video5
  <2>. QED
    BY <2>1
<1>13. CASE ExecHeader2 \/ ExecList \/ ExecWord \/ EndOfHeader2 \/ ExecHeader1 \/ ExecVideo \/ ExecEnd
  BY <1>13 DEF ExecHeader2, ExecList, ExecWord, EndOfHeader2, ExecHeader1, ExecVideo, ExecEnd,
     Exec, Goto, checkVars
<1>14. CASE UNCHANGED verifierVars
  BY <1>14 DEF verifierVars, checkVars
<1>. QED
  BY <1>1, <1>2, <1>3, <1>4, <1>5, <1>6, <1>7, <1>8, <1>9, <1>10, <1>11, <1>12, <1>13, <1>14
     DEF VerifierNext, Check, Parse

(* EngineAsVerified: between two calls the AGP texture that agp_texture is *)
(* about lies in a map, after accepted, rejected and dropped streams alike *)
(* (finish_current_sequence is missed by no way out of a table); and until *)
(* a stream that changes hc_state is dropped with -EAGAIN, or one of       *)
(* another form is executed, hc_state is the state the engine is in,       *)
(* whatever was rejected in between.                                       *)
THEOREM EngineInStep == VerifierSpec => []EngineAsVerified
<1>. DEFINE WalkedInv == (\E H : WalkInv(H)) /\ MapInv
<1>1. VerifierInit => WalkedInv
  <2>1. VerifierInit => \E H : WalkInv(H)
    BY WalkInvInit
  <2>2. VerifierInit => MapInv
    BY DEF VerifierInit, MapInv, TextureInMap, AgpTexture, Reset, TextureUnits
  <2>. QED
    BY <2>1, <2>2
<1>2. WalkedInv /\ [VerifierNext]_verifierVars => WalkedInv'
  <2>. SUFFICES ASSUME NEW H, WalkInv(H), MapInv, [VerifierNext]_verifierVars
                PROVE  WalkedInv'
    OBVIOUS
  <2>1. \E G : WalkInv(G)'
    BY WalkInvStep
  <2>2. MapInv'
    BY MapInvStep DEF WalkInv
  <2>. QED
    BY <2>1, <2>2
<1>3. WalkedInv => EngineAsVerified
  BY DEF WalkInv, IdleInv, MapInv, TextureInMap, EngineAsVerified
<1>. HIDE DEF WalkedInv
<1>. QED
  BY <1>1, <1>2, <1>3, PTL DEF VerifierSpec
=============================================================================
