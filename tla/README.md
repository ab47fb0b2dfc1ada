# TLA+ models of the VIA/S3 Chrome DRM driver

The repository is the kernel side of the direct-rendering driver for VIA
Unichrome ("Chrome1") and Chrome9 graphics. This directory holds TLA+ models of
its parts that keep a protocol, TLC configurations that check them on small
instances, and proofs, checked by TLAPS, that their invariants hold for all
values of the constants. Line numbers refer to `src/`.

    tlc -config BlitQueue_safety.cfg BlitQueueMC     # a run
    tlapm BlitQueueProofs.tla                        # a proof

`PROJECT.json` lists the runs, the line range that each definition models
("map"), for every property a deliberate mistake that violates it ("mutants"),
the hazards and the theorems.

## 1. The system and its parts

Two drivers share the sources. Both use the DRM core; Chrome9 also uses TTM,
which owns buffers, placements and reservations. Neither core is in the
repository. Neither driver sets DRM_UNLOCKED in its ioctl table
(chrome_drv.c:69-102): the ioctls run under the big kernel lock, which a thread
gives up whenever it sleeps. Page faults, work queues, timers, interrupts, TTM's
own threads and the functions exported to v4l (chrome_object.c:196) do not hold
it.

| Part | Files | State | Operations | Called by, shares with |
|---|---|---|---|---|
| PCI DMA blit queue (Chrome1) | chrome1_dmablit.c | `drm_chrome_blitq_t`: ring of slots, four indices, two handles, timer, work, wait queues | dma_blit, blit_sync, handler, timer, work-queue task | processes, interrupt, timer, work queue; one spin lock |
| Memory of a blit | chrome1_dmablit.c | `drm_chrome_sg_info_t`: locked pages, descriptor pages, state reached | build, map, unmap, free | dma_blit builds, the work-queue task frees |
| Command ring (Chrome9) | chrome9_dma.c | `pfree`, registers pause, jump, current | get_space, rewind, release, kick-off, stop, init | flushes under command_flush_lock; engine |
| Branch buffers | chrome9_dma.c | CMD_FLUSHING flag, pin, fence | branchbuffer_flush, execute_branch_buffer | flush; page faults; waits |
| Fences | chrome_fence.c | sequences, lists created/emited/signaled, references | create, emit, poll, wait, unref | flushes, moves, TTM; fence_pool_lock |
| Buffer moves | chrome_ttm.c | descriptor chain, fence word, list of chains to be freed, delayed work | bo_move, move, release_sg_obj, delayed work | TTM, from ioctls and faults; DMA engine |
| Command flush | chrome9_reloc.c, chrome_drm.c | targets, reservations, new fence | gem_flush: parse, validate, submit, fini | processes; command_flush_lock |
| CPU grab | chrome_drm.c, chrome_object.c | owner_file, TTM's cpu_writers | cpu_grab, cpu_release, preclose, wait_cpu_access | processes and flushes |
| Buffer objects | chrome_object.c, chrome_gem.c | placement, pin count, kernel mapping, flags | create, kmap, pin, unpin, set_domain, wait | everything on Chrome9 |
| Leave/enter GEM, suspend, resume | chrome_drm.c | GART shadow, gart_valid, saved registers | leave_gem, enter_gem, suspend, resume | X server, power management; ring, GART table |
| PCIe GART backend | chrome9_pcie_backend.c | populated, bound, start_entry | populate, clear, bind, unbind, destroy | TTM; GART table |
| Event tags | chrome_drm.c | usage table | alloc_event, free_event | processes |
| Command ring (Chrome1) | chrome1_dma.c | dma_low, dma_wrap, last_pause_ptr, dma_diff | wait, align, hook_segment, rewind, pause, reset | ioctls under the DRM lock; regulator |
| Command verifier (Chrome1) | chrome1_verifier.c | hazard state, tables, pending sequences | verify, parse | cmdbuf ioctls |
| Decoder futexes | chrome_video.c | lock words in the shared area, wait queues | init, release, wait, wake | processes |
| Set-up, mode setting, frame buffer, I2C, 32-bit ioctls | the rest | registers, tables | load, unload, call-backs | DRM core |

What makes each part correct, and what makes it hard:

* **Blit queue.** No slot lost or used twice, no blit overwritten, freed early,
  twice or never; blits in order; a sync that returns tells the truth; everything
  ends although interrupts may be lost and the engine may hang. Hard: three
  actors beside the processes, a timer that is deleted while its function runs,
  a task that drops the lock in its loop and may overlap itself, wrapping handles.
* **Memory of a blit.** The descriptors move what was asked for and touch only
  locked pages; whatever fails, everything taken is given back. Hard: boundary
  arithmetic, a free routine that falls through from the state reached.
* **Command ring.** No unexecuted word is overwritten, none is lost, waits end.
  Hard: the engine moves between two reads, reads may be wrong, sizes are
  rounded at several places beyond what was tested.
* **Moves and fences.** A fence signals only when its move is over; no
  descriptor is freed under the engine; every chain is freed; the space of an
  evicted buffer is not reused early. Hard: the mutual exclusion comes from the
  big kernel lock and from where the code does not sleep.
* **Command flush.** A buffer the GPU uses is never taken for idle; nothing is
  moved under the GPU; no reservation or fence count is left wrong by any error
  path. Hard: it is interleaved with waits, faults and moves, and has ten ways to
  fail.
* **CPU grab.** CPU and GPU exclude each other; a grab has one owner; what a
  dead process held is released; flushes get through. Hard: owner and count are
  two fields, changed by different processes around sleeps.
* **Leave/enter GEM and GART.** A bound backend's entries are its pages, nothing
  leads to a page that was given back, and the table ends up protected. Hard:
  the order of calls of different processes, another memory manager that writes
  over the table meanwhile, an engine that caches it.
* **Buffer objects.** A pinned buffer stays; other operations do not move it, nor
  does the unpin. Hard: one list of placements, written by every operation and
  by evictions on somebody else's behalf, and a second one for a full VRAM.
* **Chain of a move.** Every descriptor is in an allocated page, the engine
  copies all pages and publishes the fence last, the walk back meets everything that
  was mapped. Hard: backwards links, page ends, errors half-way.
* **Command verifier.** The walk that executes sees what the walk that checks saw,
  and the state that is kept between streams is the engine's. Hard: two parsers,
  a table handed from one to the other, streams rejected or dropped half-way.
* **Chrome1 ring.** As the Chrome9 ring, with the pause commands in the buffer
  itself, rewritten while the regulator may be reading them.

The hazards, each at its line with the properties that cover it or the reason
why none does, are in `PROJECT.json`.

## 2. Modules

| Module | What it is |
|---|---|
| `BlitFifo` | abstract: a bounded FIFO of blits, each over in the end |
| `BlitQueue` | the blit queue; `ImplementsFifo` is the refinement of `BlitFifo` |
| `BlitBuild` | one blit's memory, from request to free |
| `BlitQueueProofs` | safety of `BlitQueue`, that its steps are steps of `BlitFifo`, and safety of `BlitBuild` |
| `CommandFifo` | abstract: words written, handed over, and executed once each in that order |
| `AgpRing`, `AgpRingProofs` | the Chrome9 command ring; `ImplementsFifo` is the refinement of `CommandFifo`; its safety, and that its steps are steps of `CommandFifo` |
| `DmaMove` | moves, their fences, delayed release |
| `SgBuild` | the descriptor chain of one Chrome9 move |
| `DmaMoveProofs` | safety of `DmaMove` and of `SgBuild` |
| `CpuGrab`, `CpuGrabProofs` | grab, release, close, and the flushes that wait for them; safety |
| `CmdBuf` | the Chrome1 command buffer and its regulator |
| `Verifier` | the two walks over Chrome1 command streams |
| `CmdBufProofs` | safety of `CmdBuf` and of `Verifier` |
| `GemFlush`, `GemFlushProofs` | the flush with reservations, fences, branch buffers, and those who wait; safety |
| `Gart`, `GartProofs` | the GART table: backends, leaving and entering GEM, suspend and resume; safety |
| `Placement`, `PlacementProofs` | creation, pin, unpin, set_domain, eviction |
| `*MC` | constants for TLC |

### BlitQueue

One engine's ring. Blits are numbered in the order they are queued; a slot of
`blits` holds the number in place of the pointer. The fields have the names of
`drm_chrome_blitq_t`; histories are `queued`, `over`, `taken`, `aborted` and
`freed`. Actions follow the lock sections: `GrabSlot`, `BuildFail`, `Enqueue`,
`Kick` for chrome_dmablit (728-761); `Handler`, one action since it runs under
blit_lock from beginning to end (310-385), called by `Kick`, `Interrupt` and the
timer; `TimerFirst`, `TimerCheck`, `TimerAgain` for the timer function, which is
not atomic (454-478); `WorkTake`, `WorkFree`, `WorkDone` for the task, which
drops the lock (490-528); `SyncCall`, `SyncDone`, `SyncFail`. `Expire` is the
passing of blitq->end. The engine (external) ends a transfer at any time, or
never; it ends an abort. A work item may run on two CPUs at once: set `Workers`.
Handles count modulo HandleMod and HandleHalf stands for 1 << 23.

### BlitBuild

Sequential, with a failure at every allocation. Pages and descriptors are small
numbers, data are addresses. `Check`, `LockPages`, `AllocDescs`, `MapDevice`
follow chrome_build_sg_info; `UnmapStart`, `UnmapStep`, `UnmapEnd`, `FreeRest`
follow chrome_free_sg_info with its fall-through. `Pieces` is the nested loop
over lines and pages as a function; `DescriptorsMatchTransfer` compares it with
the set of bytes asked for. The fields of a request are of 32 bits (U32 values), and
so are the code's sums and products of them, which wrap: in the length of merged
lines (605), in the comparison with the limit (614) and in the number of pages to
lock (233). `request` is the request as the user made it, `xfer` what the checks have
made of it, `Fits` says that nothing in it wraps. Bus addresses are taken to be
injective in the page and offset.

### AgpRing

Words of the ring are numbers from pstart; `written` holds the words the last
step wrote, `Pending` those the engine has yet to execute. command_flush_lock
serialises flushes, so the driver is one thread with a step per register access.
The waits keep the code's pairs of loops, and a read may lie in those named by
`UnreliableWaits`, once per wait, as the comments at 279 and 358 say.
Assumptions on the hardware (external): the engine executes one word after
another and stops only when its address equals the pause address; a jump address
is spent when it is taken. The branch buffer's call commands are flushes of this
ring with branch = TRUE. The constants keep the relations between the code's
INV_CMDBUF_THRESHOLD, INV_QW_PAUSE_ALIGN, PAD_CMD_SIZE, MAXALIGNSIZE and the
words that are really written (SizesAssumption).

`CommandFifo` has no addresses: words are written, those written last are handed
over in some order, and the first one handed over is executed. `ImplementsFifo`
maps its `todo` to the words from the engine's address to the pause address, by way
of the jump (`ToDo`), and its `fresh` to what the driver has written behind the pause
address and not yet released (`Released`). A register write that takes in a word
which the flush did not write itself (what a lap before left there), a word left out
or handed over twice, and a write over a word still to be executed are no steps of it.

### DmaMove

Each member of `Movers` is one call of chrome_bo_move that reaches the engine,
fences and chain included. `bkl` is the big kernel lock over the stretch in
which it matters: from the end of wait_dma_idle, which may have slept, to the
firing of the engine there is no sleep (814-822). Movers outside `Locked` do
without it. The engine copies the fence word (`fenceBuf`) to the sync word when
it ends a chain. `Poll` is chrome_fence_poll_locked; each caller polls in its
action. Taken for granted: ttm_bo_move_ttm succeeds; appending to the list at
its tail is atomic for the worker that walks it. Not modelled: moves that only
change the placement, and a driver without sg_manager.

### CpuGrab

One buffer, one process per open file. An action runs from sleep to sleep, as the
big kernel lock makes it. cpu_writers, reserving and waiting for the GPU are
TTM's and external. `Interrupted`, `Careless` and `OwnersFlush` say which
processes get signals, close handles of what they hold, or flush while they
hold. `holds` records whose last grab returned 0.

### GemFlush

`step` is where the flush with the command_flush_lock is. The targets are
reserved, validated (moved or not), given the new fence, submitted and
unreserved by the actions of chrome9_reloc.c, each with its error exits into
`Fail` (chrome_parse_fini with an error) or, for a branch buffer that does not
exist, into `LookupFails`. `ring` is what the GPU has still to execute: commands
and fences in order. Others: `WaitReserve`/`WaitIdle` (chrome_object_wait),
`Fault` (page fault on a branch buffer), `OtherMove` (set_domain), `DmaDone`.
`AddFence` waits for an earlier move of its buffer, for six seconds at most
(chrome_fence.c:131), and goes on after a time-out as after the end of the move
(chrome9_reloc.c:235). `dropped` and `stolen` record two things the error paths break,
and `late` the moves whose wait has timed out, so that the properties can be stated
for all that is left. Branch buffers are taken to be in the aperture when they are pinned.

### CmdBuf

`pc` is the step of the ioctl that holds the DRM lock. A unit is the alignment
of the commands that move the regulator, each of which is the last quadword of a
unit; `word` is what the regulator reads there, a type and an address. It may
read it well before it gets there (`Fetch`, then `Halt`, `Jump` or `GoOn`): that
is the race chrome_hook_segment is about. `Dispatch`, `Fit`, `Copy`, `PadCache`,
`Close` are a submission, `RewindJump`, `RewindBitblts`, `RewindFill` a rewind,
`HookWrite`, `Poll`, `CheckPaused`, `Restart` one hook, with a step per access to
a register; a rewind does two. `Cleanup` and `Unmap` give the buffer back.
`fresh` holds the units written and not executed. After a jump the address
register may show the unit of the jump for a while (`seen`), as the comment at
614 says. Assumed of the hardware (external): it executes unit after unit and
acts on its break point only at the end of a unit. dma_diff is taken to be
measured right. `Ignored` names the waits that may time out although nobody
looks at the result.

### Gart

`table` is the GART in VRAM, `cache` what the engine holds of it, `protected` the
bit of SR6C. A backend's calls are `Populate`, `Clear` (atomic: they touch only
the backend) and three updates, `BindCall`, `UnbindCall`, `DestroyCall`, each of
which goes through the four steps of chrome9_pcie_backend.c:122-126: `Unprotect`,
`WriteEntries`, `FlushCache`, `Protect`. The server's `LeaveSave`, `LeaveUnprotect`,
`EnterRestore`, `EnterInit` and power management's `Suspend`, `Resume`,
`ResumeFails` follow chrome_drm.c. `Overwrite` is another memory manager between
leave_gem and enter_gem, `Fetch` the engine. Nothing serialises the users of the
table; MayOverlap says whether two may be there at once, a second leave_gem
counting as one, since it saves what the other memory manager wrote.

### SgBuild

One chain from allocation to free, sequential, with a failure at every allocation
and a missing page anywhere. A descriptor's place is <<page, index>>, which is
also its bus address. `FenceDescriptor` and `PageDescriptor` are
chrome_build_dma_fence_info and the loop at 549-595; `UnmapStart`, `UnmapStep` the
walk back (609-645). `Followed` is what the engine, starting at chain_start, reads.
A descriptor has the size the code stores, in units of 16 bytes (562-563), and the
walk unmaps as many bytes of the page (634): `mappedMem` says how many of each page are
still mapped, `strange` what is unmapped that the chain had not mapped.

### Placement

`list` and `busyList` are placements[] and busy_placements[] of a chrome_object,
which every operation writes anew (`Begin`), and an eviction too (`EvictFlags`).
TTM (external) reserves, then tries the list, then the busy list with evictions:
`Stay`, `Move`, `GoBusy`, `MoveForced`, `EvictFirst`, `MoveVictim`, `EvictAperture`,
`Refuse`. All buffers have one size; the order of TTM's lists of what may be
evicted is left open. A move between VRAM and system memory needs room in the
aperture (chrome_ttm.c:889-916). `pinned`, `pinnedAt` and `failed` are histories.

### Verifier

A stream is a sequence of words, each standing for all words that both walks
treat alike. `Check...` are the functions of chrome_verify_command_stream,
`Exec...` those of chrome_parse_command_stream; `hc` is hc_state, `hw` the state
the engine has
really got. There are two texture units with one level each, whose AGP address is set
by two words, and the one flag agp_texture for both (`AgpTexture`). `state` and `buf`
are the code's, but in `state` also where in a function a walk is. A stream is any
sequence of words. `WellWritten` is the form clients write: registers and values come
in pairs up to the next header, and no header stands within a stipple pattern or a list
of automatic vertices; the verifier does not ask for it. A count that is no small number
is a large one, and the doubling of a count wraps as in 32 bits. A stream may be sent by
PCI (walked again by the driver) or by AGP (read by the engine; the same walk stands for
it), or be dropped for want of room (`NoRoom`), and any stream may come next. `parted`
is a history: a stream that changes the state was dropped, or one of another form
than `WellWritten` was executed.

## 3. Runs

| Run | Instance | Distinct states | What it shows |
|---|---|---|---|
| blit_safety | 3 slots, 2 processes, 2 workers, 4 blits, symmetric | 653 234 | no overwriting, early or double free, nothing left behind |
| blit_live | 2 slots, 1 process, 5 blits, handles modulo 4 | 125 995 | every blit freed, syncs return and are true, FIFO refinement |
| build_safety | 3456 requests, 64 for 2^32, pages of 8 bytes, 2 descriptors per page | 15 114 | pages cover pieces, descriptors move the request, nothing left |
| ring | 60 words, requests 1, 7, 14 words and a branch call | 11 953 | nothing overwritten, the ring a FIFO of commands, waits end |
| move | 3 moves, 2 of them evictions, 1 wait that times out | 39 169 | fences true, chains mapped while used and freed in the end, evictions over |
| grab | 3 files, 1 with signals, a holder that flushes something else | 49 600 | GPU kept out, the dead own nothing, flushes end |
| flush | 2 files, 1 waiter, 1 buffer, 1 branch buffer, 3 flushes, signals and a wrong handle for one file | 336 906 | fences kept, nothing moved when busy, reservations, branch buffers, flushes end |
| cmdbuf | 16 units of 4 quadwords, streams of 1, 5 and 8 quadwords, margin of 6 units | 169 614 | nothing overwritten or left behind a pause, lag and space true, calls end |
| gart | backends of 1 and 2 pages, 3 entries, 2 updaters | 314 698 | bound backends mapped, no stale page, table protected at rest |
| sgbuild | 1 to 7 pages, 3 descriptors per page, a page missing anywhere or nowhere | 556 | descriptors inside their pages, fence last, the walk back meets all |
| placement | 3 buffers, 2 processes, VRAM for two, aperture for one, symmetric | 131 874 | a pinned buffer stays, an unpin moves nothing |
| verifier | 232 streams, 3 chip sets, 2 texture units, 2 fires, PCI and AGP, drops | 716 056 | both walks see the same sections, hc_state is the engine's |

**Bounds.** Three slots are the least for which free, held and used slots, the
active blit and wrap-around coexist; four and five blits use every slot more
than once; handles modulo 4 wrap within five blits. Two pages per chain and
lines up to three reach full and partly full descriptor pages, pieces at both
page ends and backward strides. Sixty words let the ring rewind through both the
draining and the passing branch, with each request at each alignment; the ring
is cyclic and nothing else counts, so the state space is complete without a
bound on flushes. The same holds of the sixteen units of CmdBuf, where a margin of
six is more than any stream with what it is rounded and followed by, and less than
what is left of the buffer, as 512 KB are in the code. Three movers are two on the engine and list and one more
between them. Three flushes are one in the ring, one that fails and one that
comes after; the same model with two buffers (10 952 861 states, without
liveness) passes as well. Three entries for three pages let ranges be given to another backend, and be
left free in between. Seven pages and a fence fill the descriptor pages exactly,
leave them short by one and by two, and take three of them. Three buffers in a VRAM
for two are one too many, and an aperture for one is full as soon as it is used.
Two sections per stream and two fires in the table reach every pair of kinds of
section and a table that is full. They come one after the other without end, each
after any other, accepted, rejected, dropped or executed; what carries over is hc_state
and the table of fires. A longer stream brings no new kind of step, and the theorems
are of streams of any length. The engine's state decides about no step, and no property
looks at it once `parted`: the VIEW of the configuration counts states that then differ
in it as one. Sixty-four for 2^32 is less than what seven lines of ten bytes or three of
twenty-six need, so that requests with wrapped products pass all checks. MaxBlits, MaxWriters, MaxFlushes and Width are
the only bounds on counters, in the guards where they are named; Gart, SgBuild,
Placement and Verifier need none.

Runs that say CHECK_DEADLOCK FALSE are of systems that end: a blit's memory, a
chain, a set of calls that have returned, files that are closed, a machine that
could not be resumed.

**Fairness.**
* BlitQueue: the timer function, once armed, runs; jiffies pass (`Expire`);
  scheduled work runs; a process that has queued a blit calls the handler; an
  engine that was aborted stops. Nothing is assumed of interrupts or of
  transfers ever ending.
* AgpRing: the engine executes; a flush that has begun goes on.
* DmaMove: calls run on, the work queue runs what is scheduled, the engine ends
  its chain, TTM looks at its buffers.
* CmdBuf: a call that has begun runs on, the regulator works, its address register
  catches up. No wait is assumed to end.
* CpuGrab: a process that has begun a call runs on, the one that holds the buffer
  releases it, the GPU ends. `FlushReturns` is about behaviours in which one
  process holds the buffer at a time and does not flush meanwhile
  (`WellBehaved`); section 5 says why.
* GemFlush: strong fairness of the flush, since who waits to reserve a buffer
  gets it sooner or later but TTM keeps no queue; weak fairness of GPU, engine
  and waiters. `FlushReturns` excludes behaviours in which an earlier flush has
  left a buffer reserved (chrome_drm.c:185).
* Gart, SgBuild, Placement, Verifier: none, their properties are of safety.

## 4. What is proved

All are safety properties, for all constants that meet the assumptions named in
the modules.

**BlitQueueProofs** (slots, processes, workers, handles arbitrary). The invariant
says where the indices are: cur and head are serviced plus the number of blits
over, respectively queued, and not taken, modulo the ring; free, held and used
slots add up; a blit is in its slot from Enqueue to WorkTake; the engine works on
`blits[cur]`; the three parts of `NothingLeftBehind`; and which blits are freed.
The code compares no index with another, so none of these is inductive alone:
that head does not run into serviced follows from the account of slots, the
account needs that a taken blit was over, and that follows from the indices. That
`WorkTake` sees serviced /= cur exactly when taken < over needs that not all
slots can be over at once. Theorems: `TypeCorrect`, `SlotsAddUp`,
`BlitsKeepTheirSlots`, `EngineSafe`, `NothingStalls`, `FreedExactlyOnce`.

Handles are a second layer on that invariant. cur and done handle are those of the
last blit queued and of the last one over, modulo HandleMod (`Handles`); at most
VIA_NUM_BLIT_SLOTS - 1 blits are not taken, and HandleAssumption has room for them on
either side of HandleHalf. Then the code's two unsigned comparisons are true of
exactly the handles of the blits that are not over, wrapped or not
(`PendingIsActive`, `ActiveIsPending`), and the index it computes is the slot of the
blit (`WaitsOnItsSlot`): `HandlesAreExact`, and `SyncIsTrue` for what a sync is told.
`RingIsFifo` is the refinement of `BlitFifo` but for its fairness: `Enqueue` is
`Accept` and needs the account of slots for the room, a blit that is retired is
`Finish`, everything else a stutter.

The second part is about BlitBuild (pages, alignments, limits and requests arbitrary,
in arithmetic modulo any U32). The first two theorems are of requests that `Fits`; a
request with products that wrap is built from too few pages, section 5. The loops over
lines and over the pieces of a line are recursive functions; that there are such
functions has to be proved first, because a piece could have no length (`LineIsLoop`,
`PiecesAreLoop`, by counting the turns, `LeastNatural`). A piece ends at a page
end or with its line, so it lies in one of the pages from that of the first byte to
that of the last (`LineInPages`, `PiecesAreLocked`), and the pieces cut so far and the
rest of the line together are the line (`LineCovered`, `TransferCovered`), whatever the
strides are and in whichever direction the frame-buffer side runs
(`DescriptorsAreExact`). Lines that are merged are the same bytes as one line, if their
product is what it should be (`Fits`). For the ways out of a build that fails, the invariant `Owned`
says what has been taken in each state of the sg_info, so that the fall-through of
the free routine gives back exactly that (`NothingIsLeft`).

**AgpRingProofs** (sizes and requests arbitrary, each request fits behind a
rewind, no lie in the wait for the jump). The engine has either taken the last
jump or not (`Lapped`: its address is beyond the pause address). The driver never
knows which. The invariant says for each step what has been established: after
`clear`, that a lapped engine is beyond everything the flush may write; after
`behind`, that it is not lapped; after `drain`, that it stands at the pause
address; after `past`, that it is beyond what will be written at the start; with
`bad` for the second loop after a lie in the first. It also keeps a reserve
before the end of the ring between flushes, so that a rewind has room for its
jump; the lemmas on `Up`, `HeaderEnd`, `PairsEnd` bound the rounding. Theorems:
`RingTypeCorrect`, `NeverOverwrites`, `NeverLoses`, `JumpsTaken`.

`RingIsFifo` is the refinement of `CommandFifo`. What is to be executed is one run of
words or two (`Run`, `RunConcat`): the engine takes the first word of the first
(`ExecuteTakesFirst`), a jump only drops a run that has become empty, and the write of
the pause register appends to the last; in a rewind it completes the run up to the
jump and adds the one at the start, which are apart because an engine that is passed
is beyond RestartAt (`SetPauseHandsOver`). That the words appended are those the
flush has just written is what `Released` follows from copy to kick-off.

**DmaMoveProofs** (any number of moves, all under the big kernel lock, fewer than
Width). From the end of the wait for the engine to the firing, one call has the
lock and the engine is idle (`AloneInv`). So the one emitted fence whose data are
not transferred has the latest sequence, and the sync word is below it
(`SequenceInv`); a poll can reach only fences that are over. References and the
list of delayed chains are accounted for. Theorems: `MoveTypeCorrect`,
`FencesAreTheirOwn`, `SignalsAreTrue`, `NeverUnmapsARunningChain`,
`DelayedIsScheduled` (what waits to be freed has a work that will come),
`EvictionsAreOver`. Without the lock, TLC finds `FenceIsItsOwn` violated:
wait_dma_idle comes before the lock that its comment ("write fence buffer & fire
must be atomic", 820) asks for.

Its second part is about SgBuild (pages of any size, buffers of any length, any page
missing or any allocation failing). The descriptors are numbered through the pages
(`Index`). The build has written those up to `pnum`, and each leads to the one before
(`ChainInv`); the walk back has left those below `walk.left`, and the address it
will unmap next is that of the last of them (`WalkInv`). The module never compares
a descriptor's number with its address, so this needs that a number belongs to one
descriptor only (`IndexIsUnique`) and that the pages allocated hold as many as are
needed (`EnoughPages`). Theorems: `StaysInPages`; `WalkIsExact`, that the walk meets
every descriptor and every page once, at its own address, and unmaps what the
descriptor's size says, a sixteenth of the page.
That the engine, which follows the links, comes to all descriptors and to the fence
last (`FenceIsLast`) is an induction along the chain: the set of descriptors that
are in their place in `Followed` contains the first and with each one the next, so
it contains all (`SetInduction`, from the well-foundedness of the naturals).

**CmdBufProofs** (buffer, unit, margin and streams of any size that meet
SizesAssumption: a buffer of a power of two, and a margin that no stream with its
padding and its pause reaches. In the code the margin is 512 KB, chrome1_dma.c:107, and a
stream is at most VIA_PCI_BUF_SIZE, line 260, a constant of the headers outside the
repository that is taken to be smaller by at least four units). The theorems assume `Dependable`: the
three waits that steps depend on do not end by time-out, and the address register is
right at the start of the buffer and when the regulator pauses; section 5 says what
happens otherwise. The commands are a line (`Chain`): each leads to a later one, up to
the pause at `last` or, while the regulator is in the lap before (`Ahead`), up to the
jump. The regulator stops at `End` if nobody does anything, which is one of the two, or
a pause of a rewind that it had read before the driver replaced it. The driver sees it
at `Shown`, and `GapInv` is what each wait and each test for a rewind leaves between
dma_low and there: the waits look before they write, so the gap of one step has to
cover what the next will write. `FreshInv` says which units are still to be executed,
`ChaseInv` that a hook whose pause was read too early is polled for until the
regulator has been restarted. Theorems: `NothingOverwritten`, `OnlyNewUnitsRun`,
`LagAndSpaceCover`, `NoStall`, `TypesOfTheBuffer`.

Its second part is about Verifier (streams of any length and number, any chips, table
sizes and maps). The first walk leaves in `sections` where it has found headers. From
each the words lead to the next: a walk that starts there, trusts every word and is in
the state H[p] arrives there (`SectionLeads`), and once the first walk has accepted a
stream of the form clients write there is no gap (`Complete`). The second walk is in one
of the sections, and it has used the fire offsets below its place and no other
(`InExecuted`). H, the state of the engine at every place of the stream, is in no
variable of the code; the invariant says that there is one (`\E H : WalkInv(H)`). Two
things it rests on are not obvious: that the count of a video section is the same number
for both walks although the first doubles it in 32 bits (`CountFits`: where the doubling
wraps, the loop over the registers runs beyond the end of the stream), and that the
saved state is the engine's as long as a stream of whatever form is checked and walked
(`UnexecutedStep`), so that a rejected one leaves nothing behind.
Theorems: `SecondWalk`, of a stream of the form clients write after any streams
whatever; and `EngineInStep`, that between calls the texture that agp_texture is about
lies in a map, and that hc_state is the state of the engine until the two have `parted`.
Of the streams they assume only that none is empty and that each has fewer than 2^32
words (StreamsAssumption). That hc_state may part from the engine, and what happens to
streams of another form, is in section 5.

**PlacementProofs** (buffers, processes, room and domains arbitrary). `PinnedStays`
is not inductive: a call under way will write where its buffer is, and an eviction
where its victim is. Both have reserved what they write; a buffer in a call is not
counted as pinned, because the call asks for another placement; a victim never was,
because TTM's lists hold no buffer with NO_EVICT; and nobody else writes a reserved
buffer or its list (`OthersUnharmed`). Theorem: `PinsHold`.
`UnpinStays` rests on a second invariant (`Follows`): the list of a buffer that nobody
has reserved names the type it is in, unless its last move was refused
(`SettledInv`). Every operation writes a list before it moves the buffer, an eviction
too, and who makes room in VRAM by force has VRAM on the list (`ListInv`,
`ForcedInv`). So the list without NO_EVICT that an unpin validates has an entry
for where the buffer is, and the first such entry exists (`FirstExists`).

**GemFlushProofs** (processes, buffers, requests arbitrary, any number of flushes).
Everybody who wants a buffer looks only at its fence, so the invariant relates fences
to the ring: they stand there in the order of their sequences, each behind its
commands (`RingOrder`); commands that use a buffer have a fence no later than the
buffer's, which is emitted unless the flush that created it still has the buffer
reserved (`FenceInv`). Who has reserved what, for whom, and what an error path has
reached is `Reservations`; `BranchInv` keeps waiters and mappings off the branch buffer
of the flush under way. A wait or a move that finds a fence signaled thereby knows that
nothing of the buffer is left in the ring. Buffers in `dropped` and `stolen`, and
those in `late` for `NoMoveUnderGpu`, are set apart, which section 5 explains.
Theorems: `FencesKept`, `NoMoveUnderGpu`, `NothingLeftReserved`, `CommandsLeftAlone`.

**GartProofs** (table, backends and users arbitrary). `Guarded`, about the protection
and its copy over a suspend, holds whoever overlaps. The rest is stated until two
users have overlapped: one updater, and only in GEM (`Serial`); ranges apart
(`Placed`); and table, shadow and the engine's cache lead only to pages that are bound
there or are being bound (`Contents`, with `View` for the table or, while the other
memory manager has it, the shadow). The cache may hold what the table no longer does
until the updater has flushed it, which is why an unbind is not over before. Theorems:
`TableRestored`, `NoPageReachable`, `ClosedAtRest`.

**CpuGrabProofs** (processes and their habits arbitrary). What keeps the GPU out is the
reservation: a flush has it from its look at owner_file until its commands are
submitted, and a grab needs it to become the owner (`Reserved`, `Unowned`). A flush
waits for cpu_writers, not for the owner; `OwnersAreWriters` says that this is enough.
A handle is what lets the close of a file give the grab back (`GrabHasHandle`).
Theorems: `GpuKeptOut`, `OwnersAreWriters`, `ClosedWereCareless` (for any constants,
only those that may close the handle of what they hold leave a grab behind), and
`ClosedGiveBack`, which assumes that there are none (Careless = {}), as the run does.

Only model-checked are the liveness properties (`EveryBlitFreed`, `SyncReturns`,
`ChainsAreReleased`, `CallsReturn`, the `FlushReturns` of three modules, and the
fairness of the blit queue's `ImplementsFifo`), which the prover cannot do.
Every other property of a run is a theorem. `InsideRing` and `NothingLost` of
AgpRing are parts of the invariant of its proof. The types (`TypeOK`) and the
invariants `SlotAccounting`, `HandleTestExact`, `InsideRing`, `FenceIsItsOwn`,
`OwnerIsWriter`, `NoDanglingFence` and `RunsOnlyNew` hold on the instances of the
runs too; the configurations leave them out where a theorem or a deeper property
says more.

## 5. Disagreements between code and comments

Eleven expectations, most of them stated by a comment, do not hold of the code. Each is a definition
of its module; with `INVARIANT` and its name in place of the properties of the
configuration, TLC shows how it is violated:

| Definition | Configuration | Where | What happens |
|---|---|---|---|
| `AllPagesLocked` | BlitBuild_safety | chrome1_dmablit.c:233 | "lock all pages" (224): the products of 32 bits wrap, so a request far over the limit passes it (614), few pages are locked, and the loops (115-153) go over all lines, behind the end of vsg->pages |
| `UnmapExact` | BlitBuild_safety | chrome1_dmablit.c:67 | the walk back over the descriptors starts one too far: it unmaps what was never mapped and leaves a mapping |
| `MovedIsMoved` | DmaMove | chrome_ttm.c:908 | the result of the engine's move out of VRAM is overwritten: without memory for it the move reports success, the data stay behind, and the node of tmp_mem is never given back |
| `GrabIsExclusive` | CpuGrab | chrome_drm.c:232 | two processes that wait for the holder both grab the buffer |
| `WaitMeansIdle` | GemFlush | chrome9_reloc.c:368 | the error path drops the fences that earlier flushes left in its targets: a wait returns with the GPU at work |
| `MovesAreWaitedFor` | GemFlush | chrome9_reloc.c:235 | "should wait BO Moving" (231): the wait gives up after six seconds and the flush goes on, with commands for a buffer that the copy engine still moves |
| `NothingStaysMapped` | SgBuild | chrome_ttm.c:634 | the size of a descriptor counts units of 16 bytes (562) and is given to dma_unmap_page, which takes bytes: 3840 of the 4096 bytes of a page stay mapped |
| `AlwaysInStep` | Verifier | chrome1_dma.c:278 | a stream that was checked is dropped with -EAGAIN: hc_state is ahead of the engine, and the next stream is judged by it |
| `TexturesInMaps` | Verifier | chrome1_verifier.c:301 | "all AGP texture levels reside in the same AGP map" (273): agp_texture is one flag for both units, and the texture that was set first is not looked at again when its address changes after the other was set to local memory |
| `BoundMeansMapped` | Gart, with MayOverlap = TRUE | chrome9_pcie_backend.c:129 | another user protects the table between steps 1 and 2 of a bind: bound is set, the entries are not written |
| `PinHolds` | Placement | chrome_object.c:451 | a pin into a full VRAM goes by busy_placements (130-133), which have no NO_EVICT: it returns 0 and the buffer can be evicted |

Others came up while modelling. Each of the following is excluded from the runs by
the constant or condition named, and would be reported by TLC without it:

* An aborted blit is marked (chrome1_dmablit.c:335) but nothing reads the mark: a
  sync of it succeeds.
* The array of page pointers is not freed when get_user_pages fails outright
  (chrome1_dmablit.c:249).
* The wait for the jump is not confirmed by a second read (chrome9_dma.c:319):
  UnreliableWaits without "jumped".
* A request within maxkickoffsize that does not fit behind a rewind is only
  reported, and written across the end of the ring (chrome9_dma.c:288): Requests
  (with one of 30 words TLC finds `InsideRing` violated).
* A regulator that shows the very start of the buffer when dma_low returns there
  is taken to be at the end of the current lap, not of the one before
  (chrome1_dma.c:118): ShowsStart.
* A regulator that pauses between the hooks of a rewind while its address
  register still shows the jump is not restarted (chrome1_dma.c:434): StalePause.
* Rewinds, the wait for a pause and the wait for an idle engine go on after a
  time-out (chrome1_dma.c:594, 420, 648): Ignored.
* The mask dma_high - 1 (chrome1_dma.c:433) asks for a buffer of a power of two
  pages; chrome_initialize takes any size: SizesAssumption.
* chrome_initialize uses the buffer object although its allocation failed
  (chrome1_dma.c:203).
* A refused request is kicked off all the same (chrome9_dma.c:747): Requests,
  CommandsFit.
* A mover without the big kernel lock (chrome_ttm.c:816): Locked.
* The reference a move's fence is created with is never dropped
  (chrome_ttm.c:789).
* Sequences wrap (chrome_fence.c:78): Width, NoWrap.
* A buffer whose handle is closed while it is grabbed stays grabbed
  (chrome_drm.c:668): Careless.
* A holder that flushes what it holds meets a BUG_ON (chrome_object.c:519), and
  one that flushes anything else may deadlock with a flush that waits for it:
  OwnersFlush, WellBehaved.
* The result of the wait for the CPU is ignored (chrome9_reloc.c:199):
  Interrupted.
* A signal while reserving makes the flush unreserve another's reservation
  (chrome9_reloc.c:174): `stolen`.
* A branch buffer that does not exist leaves its targets reserved
  (chrome_drm.c:185): Confused.
* A second leave_gem saves what the other memory manager has written, and enter_gem
  then restores that (chrome_drm.c:684): MayOverlap.
* A request whose lines times stride need more than 32 bits: `Fits`. If its lines are
  merged (chrome1_dmablit.c:605), the wrapped product is also the length of what is
  transferred: fewer bytes than asked for, or, when it is 0, no descriptor at all, which
  stops the kernel at the first entry of an empty array of descriptor pages.
* The wait for an earlier move in a flush gives up after six seconds
  (chrome_fence.c:131), and the flush goes on (chrome9_reloc.c:235): `late`.
* Until a stream that was dropped with -EAGAIN (chrome1_dma.c:278) has found room,
  hc_state is ahead of the engine: `parted`. A client that goes on with another
  stream has it judged by a state the engine is not in. A client that submits the same
  stream again has it judged by the state the stream ends in: if a list of vertices is
  followed by a change of the vertices' size and by another list, in a stream of four
  sections, the first is parsed differently the second time.
* When TTM gives up on a move, the buffer's list stays that of the failed operation,
  and an unpin moves it there: `failed`.
* An odd section of register and value pairs is not rejected
  (chrome1_verifier.c:830), nor is a header among the words of a stipple pattern or of
  automatic vertices, which the second walk takes for one. Such streams are in the run;
  of them `SameSections` says nothing (`WellWritten`), and when one has been executed
  `EngineAsVerified` says only that the texture is in a map (`parted`).
* CMD_FLUSHING is set before the fence (chrome9_dma.c:767, 803): a fault or wait
  in between makes the buffer writable while it is executed: Careless.

And these are in the models as they are in the code, or outside of them:

* SgBuild: a missing page leaves the pages before it mapped (chrome_ttm.c:553); when
  the array of pages cannot be allocated the error path follows it (438); the pointer
  to the next page is read from behind the array, before and after the walk (586,
  617); the walk also unmaps a byte of the sync word, which belongs to sg_manager (634);
  chrome_build_sg_obj does not free its object when the chain fails (676).
* chrome_evict_vram's result is ignored by leave_gem; suspend stops the ring and only
  enter_gem starts it again; wait_chip_idle returns 0 on a time-out.
* SR6C and SR6F are index and data pairs without a lock. `(gartoffset & 0xff000) >> 20`
  in chrome_init_gart_table is always 0.
* chrome_bo_move compares mem_type with TTM_PL_FLAG_SYSTEM (chrome_ttm.c:857), so a
  move between TT and system memory is a copy by the CPU.
* chrome_buffer_object_kmap tests and sets the mapping without a lock
  (chrome_object.c:243-279).
* GTT has no busy placement: a full aperture is refused, not made room in. Branch
  buffers are pinned in GTT and never unpinned.
* seqs[] of the verifier has 25 entries for 27 hazards; a list of vertices without
  components never ends; the count of a video section of the second kind is doubled in
  32 bits (chrome1_verifier.c:928), so that a large one passes for a small one and the
  check reads on behind the stream. There it is taken to find a word that is no
  register before it is through.

## 6. Plan

Done: BlitFifo and BlitQueue, BlitBuild, AgpRing, DmaMove, CpuGrab, GemFlush,
CmdBuf, Gart, SgBuild, Placement, Verifier, in the order of how much depends on
them; the proofs of section 4.

What is left, in this order:

1. CmdBuf as an implementation of `CommandFifo` too. A unit of it is handed over by
   the write of a hook, and what follows a hook while the regulator polls is executed
   from the buffer as it is then, so the map of `todo` is the line from `pos` to `End`
   with the types of the commands.
2. A property for hazards without one, first the walk back over a blit's chain, when
   the code decides which descriptor it means to start from.
3. Gart with flushes that use the ring while it is stopped; set-up and tear-down of
   fences and sg_manager.

Out of the prover's reach and left to TLC: liveness under fairness and ENABLED. The
library's theorems on induction take an operator as a parameter, which the provers
cannot instantiate; that every set of naturals that is not empty has a least element
can be used in their place, as DmaMoveProofs, BlitQueueProofs, CmdBufProofs and PlacementProofs do.

## 7. Not modelled

Mode setting, frame buffer, analog output and I2C (register programming without
a protocol); the 32-bit ioctl wrappers; register headers, but for the words of a
stream's headers; the Chrome9 verifier, which is compiled out
(chrome9_verifier.h:29); the load and unload of the drivers, of which Chrome9's are
not in the repository; the contents of commands, relocations and blits of fence
values. Event tags: two ioctls that do not sleep, each atomic under the big kernel
lock, on a table nobody else looks at. Decoder futexes: the lock words are written by
clients without the kernel, which only waits with a time-out and wakes; what a client
may rely on is decided by code outside the repository. Kernel and user mappings of
buffers, but for branch buffers (GemFlush). The interrupt routine
chrome_driver_irq_handler, TTM, the DRM core and the engines are outside the
repository's sources and modelled from how the code uses them; the map marks
those definitions external. The empty files chrome_mm.c and chrome9_dmablit.c
have nothing to model.
