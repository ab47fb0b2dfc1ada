-------------------------------- MODULE Gart --------------------------------
(***************************************************************************)
(* The GART table of Chrome9 and everybody who changes it: TTM through the *)
(* backend (chrome9_pcie_backend.c: populate, clear, bind, unbind,         *)
(* destroy), the server through leave_gem and enter_gem, and power         *)
(* management through suspend and resume (chrome_drm.c).                   *)
(*                                                                         *)
(* The table lies in VRAM.  While the server has left GEM another memory   *)
(* manager, such as vesafb, may write over it: leave_gem copies it to a    *)
(* shadow and enter_gem copies it back.  A bit of SR6C protects the table  *)
(* against writes, and the engine reads it through a cache.                *)
(*                                                                         *)
(* Nothing serialises these users: TTM's swapping and delayed destruction  *)
(* run without the big kernel lock.  One action is what one of them does   *)
(* between two accesses that another can get between.  The history         *)
(* overlapped tells that two of them were at the table at once, which the  *)
(* constant MayOverlap allows or not.                                      *)
(***************************************************************************)
EXTENDS Integers, FiniteSets

CONSTANTS
  Backends,    \* the ttm_backends
  Updaters,    \* threads that bind and unbind
  MaxEntries,  \* pcie_mem_size >> PAGE_SHIFT
  NumPages,    \* num_pages of each backend
  Invalid,     \* 0x80000000, the entry that maps nothing
  Junk,        \* what another memory manager wrote
  MayOverlap,  \* two users may be at the table at once
  None

ASSUME SizesAssumption ==
  MayOverlap \in BOOLEAN /\ MaxEntries \in Nat \ {0} /\ NumPages \in [Backends -> 1 .. MaxEntries]

Entries == 0 .. MaxEntries - 1
Pages == UNION {{b} \X (0 .. NumPages[b] - 1) : b \in Backends}
Values == Pages \cup {Invalid, Junk}

ASSUME ValuesAssumption ==
  /\ Invalid # Junk /\ None \notin Backends \cup Values
  /\ Invalid \notin Pages /\ Junk \notin Pages

VARIABLES
  table,      \* agp_gart, the table in VRAM
  shadow,     \* pm_backup.agp_gart_shadow
  cache,      \* what the engine's GTI cache holds of the table
  protected,  \* bit 7 of SR6C: the table cannot be written
  backup,     \* that bit in pm_backup.gti_backup
  gartValid,  \* drm_chrome_private.gart_valid
  ring,       \* "running" or "stopped"
  power,      \* "on", "off", or "disabled" when resume failed
  mode,       \* where the server is: "gem", "saved", "left", "restored"
  populated,  \* the backends with pages
  bound,      \* chrome_ttm_backend.bound
  start,      \* chrome_ttm_backend.start_entry
  upd,        \* each updater's step, operation, backend and first entry
  overlapped  \* history: two users of the table were at work at once

serverVars == <<shadow, gartValid, mode>>
powerVars == <<backup, ring, power>>
backendVars == <<populated, bound, start>>
vars == <<table, cache, protected, serverVars, powerVars, backendVars, upd, overlapped>>

Idle == [pc |-> "idle", op |-> None, be |-> None, entry |-> -1]

Range(b, e) == e .. e + NumPages[b] - 1

(* The entries TTM's range manager has given away: it takes a range back *)
(* when the backend is no longer bound.                                  *)
Taken == UNION {Range(b, start[b]) : b \in bound}
  \cup UNION {Range(upd[t].be, upd[t].entry) : t \in {s \in Updaters : upd[s].pc # "idle"}}

Working(b) == \E t \in Updaters : upd[t].pc # "idle" /\ upd[t].be = b
Updating == \E t \in Updaters : upd[t].pc # "idle"

Init ==
  /\ table = [e \in Entries |-> Junk] /\ shadow = [e \in Entries |-> Junk]
  /\ cache = [e \in Entries |-> None]
  /\ protected = TRUE /\ backup = FALSE /\ gartValid = TRUE
  /\ ring = "running" /\ power = "on" /\ mode = "gem"
  /\ populated = {} /\ bound = {} /\ start = [b \in Backends |-> -1]
  /\ upd = [t \in Updaters |-> Idle] /\ overlapped = FALSE

-----------------------------------------------------------------------------
(* The backend.  TTM calls it for a buffer it has reserved: one call at a  *)
(* time for each backend.                                                  *)

Populate(b) ==
  /\ power = "on" /\ b \notin populated /\ ~Working(b)
  /\ populated' = populated \cup {b}
  /\ UNCHANGED <<table, cache, protected, serverVars, powerVars, bound, start, upd, overlapped>>

(* TTM clears a backend only after it has unbound it. *)
Clear(b) ==
  /\ power = "on" /\ b \in populated \ bound /\ ~Working(b)
  /\ populated' = populated \ {b} /\ bound' = bound \ {b}
  /\ UNCHANGED <<table, cache, protected, serverVars, powerVars, start, upd, overlapped>>

(* Somebody comes to the table; others tells that it is in use. *)
Comes(others) ==
  /\ others => MayOverlap
  /\ overlapped' = (overlapped \/ others)

Begin(t, op, b, e) ==
  /\ upd' = [upd EXCEPT ![t] = [pc |-> "unprotect", op |-> op, be |-> b, entry |-> e]]
  /\ Comes(Updating \/ mode # "gem")
  /\ UNCHANGED <<table, cache, protected, serverVars, powerVars, backendVars>>

BindCall(t, b, e) ==
  /\ power = "on" /\ upd[t].pc = "idle" /\ b \in populated \ bound /\ ~Working(b)
  /\ e + NumPages[b] <= MaxEntries /\ Range(b, e) \cap Taken = {}
  /\ Begin(t, "bind", b, e)

UnbindCall(t, b) ==
  /\ power = "on" /\ upd[t].pc = "idle" /\ b \in populated \cap bound /\ ~Working(b)
  /\ Begin(t, "unbind", b, start[b])

(* Mutant: destroy frees the backend without unbinding it. *)
DestroyBound(t, b) ==
  /\ power = "on" /\ upd[t].pc = "idle" /\ b \in bound /\ ~Working(b)
  /\ bound' = bound \ {b} /\ populated' = populated \ {b}
  /\ UNCHANGED <<table, cache, protected, serverVars, powerVars, start, upd, overlapped>>

(* chrome_pcie_destroy unbinds first; the memory is freed in Protect. *)
DestroyCall(t, b) ==
  /\ power = "on" /\ upd[t].pc = "idle" /\ b \in bound /\ ~Working(b)
  /\ Begin(t, "destroy", b, start[b])

(* 1. disable the protection of the table *)
Unprotect(t) ==
  /\ power = "on" /\ upd[t].pc = "unprotect"
  /\ protected' = FALSE
  /\ upd' = [upd EXCEPT ![t].pc = "write"]
  /\ UNCHANGED <<table, cache, serverVars, powerVars, backendVars, overlapped>>

(* What writes of the entries in the domain of new leave in the table. *)
Written(new) ==
  [e \in Entries |-> IF e \in DOMAIN new /\ ~protected THEN new[e] ELSE table[e]]

(* 2. write the entries.  One step: the entries do not depend on each other. *)
WriteEntries(t) ==
  LET b == upd[t].be
      new == [e \in Range(b, upd[t].entry) |->
                IF upd[t].op = "bind" THEN <<b, e - upd[t].entry>> ELSE Invalid]
  IN /\ power = "on" /\ upd[t].pc = "write"
     /\ table' = Written(new)
     /\ upd' = [upd EXCEPT ![t].pc = "flush"]
     /\ UNCHANGED <<cache, protected, serverVars, powerVars, backendVars, overlapped>>

(* 3. invalidate the GTI cache *)
FlushCache(t) ==
  /\ power = "on" /\ upd[t].pc = "flush"
  /\ cache' = [e \in Entries |-> None]
  /\ upd' = [upd EXCEPT ![t].pc = "protect"]
  /\ UNCHANGED <<table, protected, serverVars, powerVars, backendVars, overlapped>>

(* 4. enable the protection, and update the flags *)
Protect(t) ==
  LET b == upd[t].be IN
  /\ power = "on" /\ upd[t].pc = "protect"
  /\ protected' = TRUE
  /\ bound' = IF upd[t].op = "bind" THEN bound \cup {b} ELSE bound \ {b}
  /\ start' = [start EXCEPT ![b] = IF upd[t].op = "bind" THEN upd[t].entry ELSE -1]
  /\ populated' = IF upd[t].op = "destroy" THEN populated \ {b} ELSE populated
  /\ upd' = [upd EXCEPT ![t] = Idle]
  /\ UNCHANGED <<table, cache, serverVars, powerVars, overlapped>>

-----------------------------------------------------------------------------
(* The server.  leave_gem and enter_gem do not look at gart_valid or at    *)
(* who is at the table, so each may be called again.                       *)

(* leave_gem: chrome_drm_save_bos, whose eviction is over when it copies *)
LeaveSave ==
  /\ power = "on" /\ mode \in {"gem", "left"}
  /\ shadow' = table /\ gartValid' = FALSE
  /\ mode' = "saved"
  /\ Comes(Updating \/ ~gartValid)
  /\ UNCHANGED <<table, cache, protected, powerVars, backendVars, upd>>

LeaveUnprotect ==
  /\ power = "on" /\ mode = "saved"
  /\ protected' = FALSE /\ mode' = "left"
  /\ UNCHANGED <<table, cache, shadow, gartValid, powerVars, backendVars, upd, overlapped>>

(* Mutant: the test of gart_valid is inverted. *)
RestoreIfValid ==
  /\ power = "on" /\ mode \in {"gem", "left"}
  /\ table' = IF gartValid THEN Written(shadow) ELSE table
  /\ gartValid' = TRUE /\ mode' = "restored"
  /\ Comes(Updating)
  /\ UNCHANGED <<cache, protected, shadow, powerVars, backendVars, upd>>

(* enter_gem: chrome_drm_restore_bos, with or without a leave_gem before *)
EnterRestore ==
  /\ power = "on" /\ mode \in {"gem", "left"}
  /\ table' = IF gartValid THEN table ELSE Written(shadow)
  /\ gartValid' = TRUE /\ mode' = "restored"
  /\ Comes(Updating)
  /\ UNCHANGED <<cache, protected, shadow, powerVars, backendVars, upd>>

(* enter_gem: chrome_init_gart_table, which unprotects, sets the base,  *)
(* flushes the cache and protects, and set_agp_ring_cmd_inv.            *)
EnterInit ==
  /\ power = "on" /\ mode = "restored"
  /\ cache' = [e \in Entries |-> None] /\ protected' = TRUE
  /\ ring' = "running" /\ mode' = "gem"
  /\ UNCHANGED <<table, shadow, gartValid, backup, power, backendVars, upd, overlapped>>

(* Processes are frozen before a suspend, none within a call. *)
Suspend ==
  /\ power = "on" /\ mode \in {"gem", "left"} /\ ~Updating
  /\ backup' = protected /\ ring' = "stopped" /\ power' = "off"
  /\ protected' \in BOOLEAN /\ cache' = [e \in Entries |-> None]
  /\ UNCHANGED <<table, serverVars, backendVars, upd, overlapped>>

(* Mutant: SR6C is not among the registers that come back. *)
ResumeForgets ==
  /\ power = "off"
  /\ power' = "on"
  /\ UNCHANGED <<table, cache, protected, backup, ring, serverVars, backendVars, upd, overlapped>>

(* The registers come back; table, bos and ring are left to enter_gem. *)
Resume ==
  /\ power = "off"
  /\ power' = "on" /\ protected' = backup
  /\ UNCHANGED <<table, cache, backup, ring, serverVars, backendVars, upd, overlapped>>

(* pci_enable_device fails: nothing is restored. *)
ResumeFails ==
  /\ power = "off"
  /\ power' = "disabled"
  /\ UNCHANGED <<table, cache, protected, backup, ring, serverVars, backendVars, upd, overlapped>>

-----------------------------------------------------------------------------
(* The environment. *)

(* Another memory manager uses the VRAM while the server has left GEM. *)
Overwrite(e) ==
  /\ power = "on" /\ mode = "left"
  /\ table' = [table EXCEPT ![e] = Junk]
  /\ UNCHANGED <<cache, protected, serverVars, powerVars, backendVars, upd, overlapped>>

(* The engine reads an entry into its cache. *)
Fetch(e) ==
  /\ power = "on" /\ ring = "running" /\ cache[e] = None
  /\ cache' = [cache EXCEPT ![e] = table[e]]
  /\ UNCHANGED <<table, protected, serverVars, powerVars, backendVars, upd, overlapped>>

Update(t) ==
  \/ \E b \in Backends, e \in Entries : BindCall(t, b, e)
  \/ \E b \in Backends : UnbindCall(t, b) \/ DestroyCall(t, b)
  \/ Unprotect(t) \/ WriteEntries(t) \/ FlushCache(t) \/ Protect(t)

Server == LeaveSave \/ LeaveUnprotect \/ EnterRestore \/ EnterInit

Next ==
  \/ \E b \in Backends : Populate(b) \/ Clear(b)
  \/ \E t \in Updaters : Update(t)
  \/ Server
  \/ Suspend \/ Resume \/ ResumeFails
  \/ \E e \in Entries : Overwrite(e) \/ Fetch(e)

Spec == Init /\ [][Next]_vars

-----------------------------------------------------------------------------
(* Properties.  The first two say what holds as long as the users of the   *)
(* table come one after the other, which the driver leaves to chance; the  *)
(* last is what the field bound says, and does not hold.                   *)

Mapped(b) == \A e \in Range(b, start[b]) : table[e] = <<b, e - start[b]>>

(* After any number of leaves, enters, suspends and overwritings, a bound *)
(* backend's entries are its pages.                                       *)
BoundIsMapped ==
  mode = "gem" /\ ~overlapped => \A b \in bound : ~Working(b) => Mapped(b)

(* Neither the table nor the cache leads to a page whose backend is not   *)
(* bound there any more: TTM may have given the page to somebody else.    *)
NoStalePage ==
  mode = "gem" /\ ~overlapped =>
    \A e \in Entries : \A v \in {table[e], cache[e]} \cap Pages :
      Working(v[1]) \/ (v[1] \in bound /\ e = start[v[1]] + v[2])

(* At rest the table is protected, whatever left it open on the way. *)
ProtectedAtRest == power = "on" /\ mode = "gem" /\ ~Updating => protected

(* chrome9_pcie_backend.c:48: bound tells whether the pages have been bound. *)
(* It does not hold when another user protects the table between steps 1     *)
(* and 2 of a bind.                                                          *)
BoundMeansMapped == mode = "gem" => \A b \in bound : ~Working(b) => Mapped(b)

=============================================================================
