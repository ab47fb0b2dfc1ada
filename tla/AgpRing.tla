------------------------------ MODULE AgpRing -------------------------------
(***************************************************************************)
(* The Chrome9 command ring (chrome9_dma.c): the driver appends commands   *)
(* at pfree and moves the address where the engine pauses; the engine      *)
(* executes the words behind it at its own pace.  At the end of the buffer *)
(* the driver rewinds: it arms a jump address and goes on at the start.    *)
(* Before it writes, it waits until the engine is clear of the words it    *)
(* is about to overwrite.  Addresses count words from pstart.              *)
(*                                                                         *)
(* command_flush_lock serialises the flushes, so that there is one driver  *)
(* thread; the engine moves between any two of its register accesses.      *)
(***************************************************************************)
EXTENDS Integers, Sequences

CONSTANTS
  Size,           \* words of the ring: dmasize, maxkickoffsize, pend
  Align,          \* a pause address is a multiple of 0x80 bytes
  Cell, Header,   \* a header is a cell of 0x10 bytes and starts on one
  Threshold,      \* INV_CMDBUF_THRESHOLD * 8 bytes
  PauseAlign,     \* INV_QW_PAUSE_ALIGN * 16 bytes
  NullCommands,   \* NULLCOMMANDNUMBER
  PadSize,        \* PAD_CMD_SIZE
  Reserve,        \* what a flush requests beyond the size of its command
  Requests,       \* the flushes: size requested, size used, which function
  UnreliableWaits \* the waits in which a read of the engine's address may lie

ASSUME SizesAssumption ==
  /\ Size \in Nat /\ Align \in Nat \ {0} /\ Cell \in Nat \ {0}
  /\ Header \in Nat \ {0} /\ Threshold \in Nat /\ PauseAlign \in Nat
  /\ NullCommands \in Nat /\ PadSize \in Nat /\ Reserve \in Nat
  /\ Reserve >= 3 * Cell + 2 * Header + NullCommands + Align + PadSize + 2
  /\ Threshold + PadSize >= Cell + Header + Align
  /\ PauseAlign >= Align + Threshold + Header + 2
  /\ Size > Reserve + PauseAlign

ASSUME RequestsAssumption ==
  \A r \in Requests : r.size \in Nat \ {0} /\ r.used \in 1 .. r.size
                      /\ r.branch \in BOOLEAN

VARIABLES
  pc,          \* the step of the flush the driver is in
  flush,       \* the request, and whether it is to end in dummy commands
  pfree,       \* drm_chrome_dma_manager: where the next command goes
  bad,         \* history: one read of the current wait has lied
  written,     \* history: the words the driver's last step has written
  hw,          \* engine: INV_RB_AGPCMD_CURRADDR
  pause, jump, \* engine: the pause and the jump register
  backlog      \* history: words handed to the engine and not yet executed

driverVars == <<pc, flush, pfree, bad, written>>
engineVars == <<hw, pause, jump, backlog>>
vars == <<driverVars, engineVars>>

NoJump == Size + 1           \* 0xFFFFFFF0, an address beyond the ring
Armed == jump /= NoJump
Words(from, to) == from .. to - 1

Up(x, a) == x + ((a - (x % a)) % a)
HeaderEnd(x) == Up(x, Cell) + Header
PairsEnd(x) == Up(HeaderEnd(x) + 2, Align)   \* a header, then pairs of words

(* The words the engine has been told to execute and has not executed. *)
Pending ==
  IF hw <= pause THEN Words(hw, pause)
  ELSE Words(hw, jump) \cup Words(0, pause)

Request == flush.size + Reserve
NextSw == pfree + Request + Threshold
Boundary == Request + PauseAlign

Init ==
  /\ pc = "idle"
  /\ flush = [size |-> 0, used |-> 0, branch |-> FALSE, dummy |-> FALSE, ret |-> "ok"]
  /\ pfree = PairsEnd(0) /\ pause = pfree
  /\ hw = 0 /\ jump = NoJump /\ backlog = pfree
  /\ bad = FALSE /\ written = {}
-----------------------------------------------------------------------------
(***************************************************************************)
(* The engine stops at the pause address and nowhere else.  A jump address *)
(* is spent when it is reached.                                            *)
(***************************************************************************)
Execute ==
  /\ hw /= pause /\ hw /= jump /\ hw < Size
  /\ hw' = hw + 1 /\ backlog' = backlog - 1
  /\ UNCHANGED <<driverVars, pause, jump>>

TakeJump ==
  /\ hw /= pause /\ hw = jump
  /\ hw' = 0 /\ jump' = NoJump
  /\ UNCHANGED <<driverVars, pause, backlog>>
-----------------------------------------------------------------------------
Goto(step) == pc' = step
Writes(words) == written' = words

(***************************************************************************)
(* chrome_ringbuffer_flush, or the flush of a branch buffer, asks for      *)
(* space.  When there can be none, the latter returns at once; the former  *)
(* notes the error and goes on to release and kick off what it never wrote.*)
(***************************************************************************)
Refused(r) == r.size + Reserve > Size

GetSpace(r) ==
  /\ pc = "idle"
  /\ \E dummy \in BOOLEAN :
       /\ r.branch => dummy
       /\ flush' = [size |-> r.size, used |-> r.used, branch |-> r.branch,
                    dummy |-> dummy,
                    ret |-> IF Refused(r) THEN "ENOMEM" ELSE "ok"]
  /\ Goto(IF ~ Refused(r) THEN "space" ELSE IF r.branch THEN "idle" ELSE "release")
  /\ Writes({})
  /\ UNCHANGED <<pfree, bad, engineVars>>

MustWrap == NextSw >= Size

ChoosePath ==
  /\ pc = "space"
  /\ Goto(IF MustWrap THEN "behind" ELSE "clear")
  /\ Writes({})
  /\ UNCHANGED <<flush, pfree, bad, engineVars>>

(***************************************************************************)
(* Each wait reads the engine's address until a condition holds; most are  *)
(* written twice because a read is known to be unreliable.  A read that    *)
(* lies ends the loop early; it may happen once in the two loops of a wait.*)
(***************************************************************************)
BehindUnchecked == TRUE
BehindSw == hw <= pfree
ClearWithoutMargin == ~ (hw > pfree /\ hw <= pfree + flush.size)
ClearOfNext == ~ (hw > pfree /\ hw <= NextSw)
Drained == hw >= pfree
PastBoundary == hw > Boundary
HasJumped == hw = pfree

Lies(wait) == wait \in UnreliableWaits /\ ~ bad

ReadFirst(wait, condition, second) ==
  /\ pc = wait
  /\ \/ condition /\ Goto(second) /\ UNCHANGED bad
     \/ ~ condition /\ Lies(wait) /\ Goto(second) /\ bad' = TRUE
     \/ ~ condition /\ UNCHANGED <<pc, bad>>
  /\ Writes({})
  /\ UNCHANGED <<flush, pfree, engineVars>>

ReadAgain(wait, condition, next) ==
  /\ pc = wait
  /\ \/ (condition \/ Lies(wait)) /\ Goto(next) /\ bad' = FALSE
     \/ ~ condition /\ UNCHANGED <<pc, bad>>
  /\ Writes({})
  /\ UNCHANGED <<flush, pfree, engineVars>>

(* Where the new commands start after a rewind, the old ones must be gone. *)
DrainOverlooked == pfree < Align
MustDrain == pfree <= Boundary

AfterBehind ==
  IF Boundary >= Size THEN "copy"           \* only a message is printed
  ELSE IF MustDrain THEN "drain" ELSE "past"

WaitClear == \/ ReadFirst("clear", ClearOfNext, "clear2")
             \/ ReadAgain("clear2", ClearOfNext, "copy")
WaitBehind == \/ ReadFirst("behind", BehindSw, "behind2")
              \/ ReadAgain("behind2", BehindSw, AfterBehind)
WaitDrained == \/ ReadFirst("drain", Drained, "drain2")
               \/ ReadAgain("drain2", Drained, "rewind")
WaitPast == \/ ReadFirst("past", PastBoundary, "past2")
            \/ ReadAgain("past2", PastBoundary, "rewind")
WaitJumped == ReadAgain("jumped", HasJumped, "copy")

(***************************************************************************)
(* rewind_ring_agp_inv: fill up to the jump address, fill a pause unit at  *)
(* the start of the ring, then write the jump and the pause register.      *)
(***************************************************************************)
JumpAt == Up(HeaderEnd(pfree) + 1, Align)
RestartAt == Up(1, Align)

Rewind ==
  /\ pc = "rewind" /\ Goto("set_jump")
  /\ Writes(Words(pfree, JumpAt) \cup Words(0, RestartAt))
  /\ UNCHANGED <<flush, pfree, bad, engineVars>>

SetJump ==
  /\ pc = "set_jump" /\ Goto("set_pause")
  /\ jump' = JumpAt
  /\ Writes({})
  /\ UNCHANGED <<flush, pfree, bad, hw, pause, backlog>>

SetPause ==
  /\ pc = "set_pause" /\ Goto(IF MustDrain THEN "jumped" ELSE "copy")
  /\ pfree' = RestartAt /\ pause' = RestartAt
  /\ backlog' = backlog + (JumpAt - pause) + RestartAt
  /\ Writes({})
  /\ UNCHANGED <<flush, bad, hw, jump>>
-----------------------------------------------------------------------------
(* The command is copied; a copy from user space may fail half-way. *)
Copy ==
  /\ pc = "copy"
  /\ Writes(Words(pfree, pfree + flush.used))
  /\ Goto("release") \/ (~ flush.branch /\ Goto("idle"))
  /\ UNCHANGED <<flush, pfree, bad, engineVars>>

(* release_space_inv: align, and append dummy commands unless a fence will *)
(* follow.                                                                 *)
ReleaseTo(end) == Up(end, Cell)
ReleaseEnd ==
  LET end == ReleaseTo(pfree + flush.used)
  IN  IF flush.dummy THEN HeaderEnd(end) + NullCommands ELSE end

Release ==
  /\ pc = "release" /\ Goto("kickoff")
  /\ pfree' = ReleaseEnd
  /\ Writes(Words(pfree + flush.used, ReleaseEnd))
  /\ UNCHANGED <<flush, bad, engineVars>>

(* chrome_kickoff_dma_ring: fill up to a pause address, pad beyond it, and *)
(* let the engine go on to there.                                          *)
PauseAt == IF pfree % Align /= 0 THEN PairsEnd(pfree) ELSE pfree

KickoffPads ==
  /\ pc = "kickoff" /\ Goto("kick")
  /\ pfree' = PauseAt
  /\ Writes(Words(pfree, PauseAt + PadSize))
  /\ UNCHANGED <<flush, bad, engineVars>>

Kick ==
  /\ pc = "kick" /\ Goto("idle")
  /\ pause' = pfree /\ backlog' = backlog + (pfree - pause)
  /\ Writes({})
  /\ UNCHANGED <<flush, pfree, bad, hw, jump>>

Driver ==
  \/ \E r \in Requests : GetSpace(r)
  \/ ChoosePath
  \/ WaitClear \/ WaitBehind \/ WaitDrained \/ WaitPast \/ WaitJumped
  \/ Rewind \/ SetJump \/ SetPause
  \/ Copy \/ Release \/ KickoffPads \/ Kick

Engine == Execute \/ TakeJump
Next == Driver \/ Engine
Spec == Init /\ [][Next]_vars

(* The engine keeps executing, and a flush once begun keeps reading.       *)
Fairness == WF_vars(Engine) /\ WF_vars(pc /= "idle" /\ Driver)
FairSpec == Spec /\ Fairness
-----------------------------------------------------------------------------
Steps == {"idle", "space", "clear", "clear2", "behind", "behind2", "drain",
          "drain2", "past", "past2", "rewind", "set_jump", "set_pause",
          "jumped", "copy", "release", "kickoff", "kick"}

Flushes == [size : Nat, used : Nat, branch : BOOLEAN, dummy : BOOLEAN,
            ret : {"ok", "ENOMEM"}]

(* The pointers are addresses of the ring, and every flush is one of the   *)
(* requests.                                                               *)
TypeOK ==
  /\ pc \in Steps
  /\ flush \in Flushes
  /\ pfree \in 0 .. Size /\ hw \in 0 .. Size /\ pause \in 0 .. Size
  /\ jump \in 0 .. NoJump
  /\ backlog \in 0 .. 2 * Size
  /\ bad \in BOOLEAN
  /\ written \subseteq Nat

(* "We need to guarntee the new commands have no chance to override the    *)
(* unexected commands" (chrome9_dma.c:291): no word the engine has still   *)
(* to execute is written, be it by a command, by the padding before the    *)
(* jump, or by the padding beyond the pause address.                       *)
NoOverwrite == written \cap Pending = {}

(* Nothing is written, and nothing executed, outside the ring.             *)
InsideRing == written \subseteq Words(0, Size) /\ Pending \subseteq Words(0, Size)

(* Every word handed to the engine is executed once and in its place: what *)
(* lies between its address and the pause address, by way of the jump, is  *)
(* what it has been handed and has not executed.  A rewind that overtook   *)
(* the jump of the one before would lose a lap of commands.                *)
NothingLost ==
  backlog = IF hw <= pause THEN pause - hw ELSE (jump - hw) + pause

(* The ring is a FIFO of commands: across any number of rewinds the engine *)
(* executes each word once, in the order in which the words were released  *)
(* to it, and as the flush that released it has written it, never what a   *)
(* lap before left there.                                                  *)
Run(from, to) == [i \in 1 .. to - from |-> from + i - 1]
Released ==
  CASE pc = "release" -> Words(pause, pfree + flush.used)
    [] pc \in {"kickoff", "kick"} -> Words(pause, pfree)
    [] pc \in {"set_jump", "set_pause"} -> Words(pfree, JumpAt) \cup Words(0, RestartAt)
    [] OTHER -> {}
ToDo == IF hw <= pause THEN Run(hw, pause) ELSE Run(hw, jump) \o Run(0, pause)
Fifo == INSTANCE CommandFifo WITH fresh <- Released, todo <- ToDo
ImplementsFifo == Fifo!CommandSafety

(* A jump address is not replaced before the engine has taken it. *)
JumpsAreTaken == [][Armed => jump' \in {jump, NoJump}]_vars

(* Every flush returns: none of its busy waits is for an address the       *)
(* engine will never reach.                                                *)
FlushReturns == (pc /= "idle") ~> (pc = "idle")
=============================================================================
