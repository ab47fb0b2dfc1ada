------------------------------- MODULE CmdBuf -------------------------------
(***************************************************************************)
(* The Chrome1 command buffer (chrome1_dma.c): commands are appended at    *)
(* dma_low and end in a pause command; a new segment is hooked to the old  *)
(* one by overwriting the address in the last pause, while the regulator   *)
(* may be reading it.  At the end of the buffer the driver writes a jump   *)
(* and goes on at the start.                                               *)
(*                                                                         *)
(* Addresses count quadwords from the start of the buffer; a unit is the   *)
(* alignment of the commands that move the regulator, which are always the *)
(* last quadword of a unit.  Readings of hw_addr are corrected by dma_diff *)
(* already.  The callers hold the hardware lock: there is one driver       *)
(* thread, and the regulator moves between any two of its accesses.        *)
(***************************************************************************)
EXTENDS Integers, Sequences

CONSTANTS
  High,       \* units of the buffer: dma_high
  U,          \* quadwords of a unit: CMDBUF_ALIGNMENT_SIZE / 8
  Margin,     \* the 512 KB of chrome_cmdbuf_wait
  Bitblts,    \* quadwords of the two dummy bitblts
  Sizes,      \* quadwords of the command streams submitted
  Ignored,    \* the waits whose time-out, which nobody looks at, may happen
  StalePause, \* the address register may lag until the second hook of a rewind
  ShowsStart  \* it may show the very start of the buffer after a jump

(* dma_high - 1 is used as a mask; a stream has room behind a rewind, and  *)
(* the margin leaves a part of the buffer to wait in.  The longest stream, *)
(* VIA_PCI_BUF_SIZE, is shorter than the margin.                           *)
ASSUME SizesAssumption ==
  /\ High \in Nat /\ \E k \in 0 .. 32 : High * U = 2 ^ k
  /\ U \in Nat /\ Margin \in Nat /\ Bitblts \in 1 .. U - 2
  /\ Sizes \subseteq Nat \ {0}
  /\ \A s \in Sizes \cup {U + 1} :
       s + 6 * U + Margin < High * U /\ s + 4 * U <= Margin
  /\ Ignored \subseteq {"jump", "bitblt", "fill", "pad", "close", "poll", "idle_wait"}
  /\ StalePause \in BOOLEAN /\ ShowsStart \in BOOLEAN

VARIABLES
  pc,         \* the step of the ioctl that holds the lock
  req,        \* size of the stream, or 0 for the stop command of a clean-up
  mapped,     \* dmabuf.virtual is set
  dma_low, dma_wrap,
  last,       \* unit of the pause command that last_pause_ptr points into
  hooks,      \* addresses still to be hooked, each with the pause behind it
  hooked,     \* unit whose pause the current hook has overwritten
  word,       \* memory: the command at the end of each unit, or None
  fresh,      \* memory: units written and not yet executed
  written,    \* history: units the last step has begun to write
  pos, phase, \* the regulator's unit, and how far it is with it
  bp,         \* the regulator's break point: a type and the unit it ends
  seen        \* a lagging reading of the address register, or Now

driverVars == <<pc, req, mapped, dma_low, dma_wrap, last, hooks, hooked>>
memoryVars == <<word, fresh, written>>
regulatorVars == <<pos, phase, bp, seen>>
vars == <<driverVars, memoryVars, regulatorVars>>

Units == 0 .. High - 1
None == [type |-> "none", at |-> 0]
Now == -1
Word(type, unit) == [type |-> type, at |-> unit]
Words == [type : {"none", "pause", "jump", "stop"}, at : Units]

(* An address to hook, the unit of the pause behind it, and what follows. *)
Hook(w, end, then) == [word |-> w, end |-> end, then |-> then]

UnitsOf(from, to) == from \div U .. (to - 1) \div U
(* A header, dummies, and a command in the last quadword of a unit. *)
AlignEnd(low) == ((low + 1) \div U + 1) * U
LastUnit(low) == AlignEnd(low) \div U - 1

Running == phase \in {"enter", "body", "word"}
HwAddr == CASE phase = "enter" /\ (pos > 0 \/ ShowsStart) -> pos * U
            [] phase \in {"off", "paused", "stopped"} -> (pos + 1) * U
            [] OTHER -> pos * U + 1
Reader == IF seen = Now THEN HwAddr ELSE seen

Init ==
  /\ pc = "idle" /\ req = 0 /\ mapped = FALSE
  /\ dma_low = 0 /\ dma_wrap = 0 /\ last = 0 /\ hooks = <<>> /\ hooked = 0
  /\ word = [u \in Units |-> None] /\ fresh = {} /\ written = {}
  /\ pos = 0 /\ phase = "off" /\ bp = None /\ seen = Now
-----------------------------------------------------------------------------
(***************************************************************************)
(* The regulator executes a unit, reads the break point in its last        *)
(* command, perhaps well before it gets there, and acts on the break point *)
(* at the end of the unit.  After a jump the address register may go on    *)
(* showing the unit of the jump for a while.                               *)
(***************************************************************************)
MoveTo(u) ==
  /\ pos' = u /\ phase' = "enter"
  /\ seen' = IF u >= 2 THEN Now ELSE seen

Execute ==
  /\ phase = "enter" /\ phase' = "body" /\ fresh' = fresh \ {pos}
  /\ UNCHANGED <<pos, bp, seen, word>>

Fetch ==
  /\ phase = "body" /\ phase' = "word"
  /\ bp' = IF word[pos] = None THEN bp ELSE word[pos]
  /\ UNCHANGED <<pos, seen, word, fresh>>

GoOn == phase = "word" /\ bp.at /= pos /\ MoveTo(pos + 1)
        /\ UNCHANGED <<bp, word, fresh>>

Halt ==
  /\ phase = "word" /\ bp.at = pos /\ bp.type \in {"pause", "stop"}
  /\ phase' = IF bp.type = "pause" THEN "paused" ELSE "stopped"
  /\ UNCHANGED <<pos, bp, seen, word, fresh>>

Jump ==
  /\ phase = "word" /\ bp.at = pos /\ bp.type = "jump"
  /\ pos' = 0 /\ phase' = "enter"
  /\ seen' \in {Now, pos * U, pos * U + 1}
  /\ UNCHANGED <<bp, word, fresh>>

CatchUp == seen /= Now /\ seen' = Now /\ UNCHANGED <<pos, phase, bp, word, fresh>>

Regulator ==
  /\ Execute \/ Fetch \/ GoOn \/ Halt \/ Jump \/ CatchUp
  /\ written' = {} /\ UNCHANGED driverVars
-----------------------------------------------------------------------------
(* chrome_cmdbuf_wait ends: the regulator is behind, or far enough ahead. *)
(* Mutants: without the margin; an empty buffer taken for a full one. *)
ClearOfWords(size) == ~ (dma_low < Reader /\ dma_low + size >= Reader)
ClearUnlessEmpty(size) == ~ (dma_low <= Reader /\ dma_low + size + Margin >= Reader)
Clear(size) == ~ (dma_low < Reader /\ dma_low + size + Margin >= Reader)
Waited(size) == Clear(size) \/ pc \in Ignored

(* A unit in the middle of which a write starts was begun by the last one. *)
Begun == IF dma_low % U = 0 THEN {} ELSE {dma_low \div U}

Write(units, words) ==
  /\ written' = units \ Begun /\ fresh' = fresh \cup units
  /\ word' = [u \in Units |-> IF u \notin units THEN word[u]
                              ELSE IF u \in DOMAIN words THEN words[u] ELSE None]

(* chrome_align_cmd at dma_low *)
Align(w) ==
  /\ Waited(2 * U)
  /\ Write(UnitsOf(dma_low, AlignEnd(dma_low)), [u \in {LastUnit(dma_low)} |-> w])

NoWrite == written' = {} /\ UNCHANGED <<word, fresh>>

(* chrome_cmdbuf_start waits for the regulator to pause before it returns. *)
Initialize ==
  /\ pc = "idle" /\ ~ mapped /\ mapped' = TRUE
  /\ dma_low' = AlignEnd(0) /\ dma_wrap' = High * U /\ last' = LastUnit(0)
  /\ word' = [u \in Units |-> IF u = 0 THEN Word("pause", 0) ELSE None]
  /\ fresh' = {} /\ written' = {}
  /\ pos' = 0 /\ phase' = "paused" /\ bp' = Word("pause", 0) /\ seen' = Now
  /\ UNCHANGED <<pc, req, hooks, hooked>>

SizeAsked == IF req < U THEN U + 1 ELSE req
MustRewind(s) == dma_low + s + 4 * U > High * U

Dispatch ==
  /\ pc = "idle" /\ mapped /\ req' \in Sizes
  /\ pc' = IF MustRewind(SizeAsked') THEN "jump" ELSE "fit"
  /\ NoWrite
  /\ UNCHANGED <<mapped, dma_low, dma_wrap, last, hooks, hooked, regulatorVars>>

(* chrome_check_dma: the wait whose time-out ends the call with -EAGAIN *)
Fit ==
  /\ pc = "fit" /\ Clear(SizeAsked) /\ pc' = "copy" /\ NoWrite
  /\ UNCHANGED <<req, mapped, dma_low, dma_wrap, last, hooks, hooked, regulatorVars>>

GiveUp ==
  /\ pc = "fit" /\ ~ Clear(SizeAsked) /\ pc' = "idle" /\ NoWrite
  /\ UNCHANGED <<req, mapped, dma_low, dma_wrap, last, hooks, hooked, regulatorVars>>

Copy ==
  /\ pc = "copy" /\ Write(UnitsOf(dma_low, dma_low + req), <<>>)
  /\ dma_low' = dma_low + req /\ pc' = IF req < U THEN "pad" ELSE "close"
  /\ UNCHANGED <<req, mapped, dma_wrap, last, hooks, hooked, regulatorVars>>

(* chrome_pad_cache waits for a number of bytes that counts quadwords. *)
PadCache ==
  /\ pc = "pad" /\ Waited((U - req + 2) \div 8)
  /\ Write(UnitsOf(dma_low, dma_low + U - req + 1), <<>>)
  /\ dma_low' = dma_low + U - req + 1 /\ pc' = "close"
  /\ UNCHANGED <<req, mapped, dma_wrap, last, hooks, hooked, regulatorVars>>

(* chrome_cmdbuf_flush, for a stream (pause) or a clean-up (stop) *)
Close ==
  /\ pc = "close" /\ dma_low' = AlignEnd(dma_low) /\ pc' = "hook"
  /\ LET w == Word(IF req = 0 THEN "stop" ELSE "pause", LastUnit(dma_low))
     IN Align(w) /\ hooks' = <<Hook(w, w.at, IF req = 0 THEN "idle_wait" ELSE "idle")>>
  /\ UNCHANGED <<req, mapped, dma_wrap, last, hooked, regulatorVars>>
-----------------------------------------------------------------------------
(* chrome_cmdbuf_rewind: the jump, then four pauses at the start, of which *)
(* the third is a trap behind the end of the new segment.                  *)
(* Mutant: wraps in front of the jump. *)
WrapBeforeJump == dma_low
WrapAt == AlignEnd(dma_low)

RewindJump ==
  /\ pc = "jump" /\ pc' = "bitblt"
  /\ LET j == Word("jump", LastUnit(dma_low))
     IN Align(j) /\ hooks' = <<Hook(j, 1, "hook"), Hook(Word("pause", 3), 3, "fit")>>
  /\ dma_wrap' = WrapAt /\ dma_low' = 0
  /\ UNCHANGED <<req, mapped, last, hooked, regulatorVars>>

RewindBitblts ==
  /\ pc = "bitblt" /\ Waited(U) /\ pc' = "fill"
  /\ Write({0}, <<>>) /\ dma_low' = Bitblts
  /\ UNCHANGED <<req, mapped, dma_wrap, last, hooks, hooked, regulatorVars>>

(* Mutant: the third pause is left as it is. *)
FillWithoutTrap(u) == Word("pause", IF u = 0 THEN 1 ELSE u)

(* The first and the third pause get the address of the one behind them. *)
FillWord(u) == Word("pause", IF u \in {0, 2} THEN u + 1 ELSE u)

RewindFill ==
  /\ pc = "fill"
  /\ Align(FillWord(LastUnit(dma_low)))
  /\ dma_low' = AlignEnd(dma_low)
  /\ pc' = IF LastUnit(dma_low) = 3 THEN "hook" ELSE "fill"
  /\ UNCHANGED <<req, mapped, dma_wrap, last, hooks, hooked, regulatorVars>>
-----------------------------------------------------------------------------
(***************************************************************************)
(* chrome_hook_segment: overwrite the last pause, wait while the regulator *)
(* is so near to it that it may have read the old address, and restart it  *)
(* if it has paused there.                                                 *)
(***************************************************************************)
HookWrite ==
  /\ pc = "hook" /\ pc' = "poll"
  /\ (Head(hooks).then = "fit" /\ ~ StalePause) => seen = Now
  /\ word' = [word EXCEPT ![last] = Head(hooks).word]
  /\ hooked' = last /\ last' = Head(hooks).end
  /\ written' = {} /\ UNCHANGED fresh
  /\ UNCHANGED <<req, mapped, dma_low, dma_wrap, hooks, regulatorVars>>

Diff == (hooked + 1) * U - Reader
InWindow == Diff \in 0 .. U - 1

Poll ==
  /\ pc = "poll" /\ (InWindow => phase = "paused" \/ pc \in Ignored)
  /\ pc' = "paused" /\ NoWrite
  /\ UNCHANGED <<req, mapped, dma_low, dma_wrap, last, hooks, hooked, regulatorVars>>

AfterHook == hooks' = Tail(hooks) /\ pc' = Head(hooks).then

CheckPaused ==
  /\ pc = "paused" /\ NoWrite
  /\ IF phase = "paused" THEN pc' = "restart" /\ UNCHANGED hooks ELSE AfterHook
  /\ UNCHANGED <<req, mapped, dma_low, dma_wrap, last, hooked, regulatorVars>>

PausedThere == Diff % (High * U) = 0

Restart ==
  /\ pc = "restart" /\ AfterHook /\ NoWrite
  /\ IF PausedThere THEN bp' = Head(hooks).word /\ MoveTo(pos + 1)
     ELSE UNCHANGED regulatorVars
  /\ UNCHANGED <<req, mapped, dma_low, dma_wrap, last, hooked>>
-----------------------------------------------------------------------------
(* chrome_dma_cleanup: a stop command, chrome_wait_idle, and the memory is *)
(* given back.                                                             *)
Cleanup ==
  /\ pc = "idle" /\ mapped /\ req' = 0 /\ pc' = "close" /\ NoWrite
  /\ UNCHANGED <<mapped, dma_low, dma_wrap, last, hooks, hooked, regulatorVars>>

Idle == ~ Running

Unmap ==
  /\ pc = "idle_wait" /\ (Idle \/ pc \in Ignored) /\ pc' = "idle"
  /\ mapped' = FALSE /\ fresh' = {} /\ written' = {} /\ UNCHANGED word
  /\ UNCHANGED <<req, dma_low, dma_wrap, last, hooks, hooked, regulatorVars>>

DriverStep ==
  \/ Fit \/ Copy \/ PadCache \/ Close
  \/ RewindJump \/ RewindBitblts \/ RewindFill
  \/ HookWrite \/ Poll \/ CheckPaused \/ Restart \/ Unmap

Next == Initialize \/ Dispatch \/ Cleanup \/ GiveUp \/ DriverStep \/ Regulator

Spec == Init /\ [][Next]_vars

(* A call runs on, the regulator works, and its address register catches  *)
(* up.  A wait may end with a time-out, but need not.                      *)
FairSpec == Spec /\ WF_vars(DriverStep) /\ WF_vars(Regulator)
-----------------------------------------------------------------------------
(* The types of the variables. *)
TypeOK ==
  /\ pc \in {"idle", "fit", "copy", "pad", "close", "jump", "bitblt", "fill",
             "hook", "poll", "paused", "restart", "idle_wait"}
  /\ req \in Sizes \cup {0} /\ mapped \in BOOLEAN
  /\ dma_low \in 0 .. High * U /\ dma_wrap \in 0 .. High * U
  /\ last \in Units /\ hooked \in Units /\ Len(hooks) \in 0 .. 2
  /\ hooks \in Seq([word : Words, end : Units, then : {"hook", "fit", "idle", "idle_wait"}])
  /\ word \in [Units -> Words] /\ bp \in Words
  /\ fresh \subseteq Units /\ written \subseteq Units
  /\ pos \in Units /\ seen \in Now .. High * U
  /\ phase \in {"off", "enter", "body", "word", "paused", "stopped"}

(* Nothing is written over a unit that the regulator has still to execute *)
(* or is executing: chrome_cmdbuf_wait and the test for a rewind keep the *)
(* driver behind the regulator's back, whatever the address register says. *)
NoOverwrite ==
  [][written' \cap (fresh \cup (IF Running THEN {pos} ELSE {})) = {}]_vars

(* The regulator enters no unit twice and none that was not written for   *)
(* this lap, not even when a jump it has taken is issued again, and it has *)
(* stopped when the buffer is given back.                                  *)
RunsOnlyNew ==
  /\ phase = "enter" => pos \in fresh
  /\ ~ mapped => phase \in {"off", "stopped"}

(* Between calls, what chrome_cmdbuf_lag reports covers all that has to be *)
(* executed, and what chrome_cmdbuf_space reports is free of it.           *)
Lag == IF Reader <= dma_low THEN dma_low - Reader ELSE dma_wrap + dma_low - Reader
Space == IF Reader <= dma_low THEN High * U + Reader - dma_low ELSE Reader - dma_low

Waiting == { u * U + i : u \in fresh \ (IF Running THEN {pos} ELSE {}), i \in 0 .. U - 1 }
LagAndSpaceTrue ==
  (pc = "idle" /\ mapped) =>
    /\ \A q \in Waiting : IF q < dma_low THEN dma_low - q <= Lag
                          ELSE dma_wrap + dma_low - q <= Lag
    /\ \A q \in Waiting : (q - dma_low) % (High * U) >= Space

(* Between calls the regulator does not rest while there is something to   *)
(* execute: a segment is never hooked to a pause that has been read        *)
(* already, without a restart.                                             *)
NeverStalls == (pc = "idle" /\ mapped /\ phase = "paused") => fresh = {}

(* Every call returns, although the waits have a margin of 512 KB and wait *)
(* for a regulator that itself waits for the driver at its last pause.     *)
CallsReturn == pc /= "idle" ~> pc = "idle"
=============================================================================
