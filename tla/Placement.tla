----------------------------- MODULE Placement ------------------------------
(***************************************************************************)
(* Where buffer objects are, who may move them, and what a pin is worth:   *)
(* chrome_object.c (creation, pin, unpin, set_domain, eviction of VRAM),   *)
(* the flush's validation of a target (chrome9_reloc.c), and TTM's         *)
(* call-backs chrome_evict_flags and chrome_bo_move (chrome_ttm.c).        *)
(*                                                                         *)
(* A chrome_object has one list of placements, which every operation       *)
(* writes anew, eviction included, and a second one for the case that      *)
(* there is no room (busy_placements).  TTM (external) validates a         *)
(* reserved buffer against them: it stays where it is if the list allows   *)
(* that, or goes where the list finds room, or evicts others to make room  *)
(* in a type of the busy list.  All buffers have the same size here.       *)
(***************************************************************************)
EXTENDS Integers, Sequences, FiniteSets

CONSTANTS
  Objects, Procs,
  Room,        \* [VRAM, TT -> Nat]: how many buffers each holds
  Creations, Pins, Domains,  \* the domains asked for: sets of types
  None

Types == {"VRAM", "TT", "SYS"}
Operations == {"create", "pin", "unpin", "set_domain", "flush", "evict"}

ASSUME NoneAssumption == None \notin Objects \cup Procs \cup Types \cup Operations
ASSUME RoomAssumption == Room \in [{"VRAM", "TT"} -> Nat]
ASSUME DomainsAssumption ==
  /\ Creations \cup Pins \cup Domains \subseteq SUBSET Types
  /\ \A d \in Pins : "VRAM" \in d   \* "Now only support bo pinned in the vram"

VARIABLES
  mem,       \* bo.mem.mem_type, or None
  keep,      \* bo.mem.placement has NO_EVICT
  list,      \* placements: a sequence of [type, keep]
  busyList,  \* busy_placements: a sequence of types
  reserved,  \* who has reserved the buffer
  call,      \* each process's call: step, operation, buffer, buffer it evicts
  pinned,    \* history: the buffers a pin has returned 0 for, since when
             \* no operation has asked for another placement
  pinnedAt,  \* history: where such a pin has found the buffer or room for it
  failed     \* history: the buffers whose last move was refused

objVars == <<mem, keep, list, busyList>>
history == <<pinned, pinnedAt, failed>>
vars == <<objVars, reserved, call, history>>

Idle == [pc |-> "idle", op |-> None, obj |-> None, victim |-> None]

Init ==
  /\ mem = [o \in Objects |-> None] /\ keep = [o \in Objects |-> FALSE]
  /\ list = [o \in Objects |-> <<>>] /\ busyList = [o \in Objects |-> <<>>]
  /\ reserved = [o \in Objects |-> None] /\ call = [p \in Procs |-> Idle]
  /\ pinnedAt = [o \in Objects |-> None] /\ pinned = {} /\ failed = {}

-----------------------------------------------------------------------------
(* Placements *)

IfWanted(d, t) == IF t \in d THEN <<t>> ELSE <<>>

(* chrome_ttm_placement_from_domain: VRAM, TT, system, in this order. *)
ListOf(d, kept) ==
  LET wanted == IF d \cap Types = {} THEN {"SYS"} ELSE d
      ordered == IfWanted(wanted, "VRAM") \o IfWanted(wanted, "TT") \o IfWanted(wanted, "SYS")
  IN [i \in DOMAIN ordered |-> [type |-> ordered[i], keep |-> kept]]

(* Only VRAM has a busy placement, which never says NO_EVICT. *)
BusyOf(d) == IF "VRAM" \in d THEN <<"VRAM">> ELSE <<>>

(* Mutant: the flag is not put on the list. *)
PinListWithoutKeep(d) == ListOf(d, FALSE)

(* chrome_bo_pin: all placements get NO_EVICT. *)
PinList(d) == ListOf(d, TRUE)

(* chrome_bo_unpin: the list as it is, without NO_EVICT. *)
UnpinList(o) == [i \in DOMAIN list[o] |-> [list[o][i] EXCEPT !.keep = FALSE]]

HasRoom(t) ==
  t = "SYS" \/ Cardinality({o \in Objects : mem[o] = t}) < Room[t]

(* The first placement of the list whose type is in S. *)
First(o, S) ==
  {i \in DOMAIN list[o] : list[o][i].type \in S /\ \A j \in 1 .. i - 1 : list[o][j].type \notin S}

Compatible(o) == First(o, {mem[o]})
Free(o) == First(o, {t \in Types : HasRoom(t)})

(* TTM's lists of what may be evicted hold what is neither kept nor reserved. *)
Victims(t) == {o \in Objects : mem[o] = t /\ ~keep[o] /\ reserved[o] = None}

-----------------------------------------------------------------------------
(* The operations: they reserve the buffer, write the list and validate. *)

Begin(p, op, o, newList, newBusy) ==
  /\ call[p].pc = "idle" /\ reserved[o] = None
  /\ call' = [call EXCEPT ![p] = [pc |-> "validate", op |-> op, obj |-> o, victim |-> None]]
  /\ reserved' = [reserved EXCEPT ![o] = p]
  /\ list' = [list EXCEPT ![o] = newList] /\ busyList' = [busyList EXCEPT ![o] = newBusy]
  /\ pinned' = pinned \ {o} /\ pinnedAt' = [pinnedAt EXCEPT ![o] = None]
  /\ UNCHANGED <<mem, keep, failed>>

(* chrome_buffer_object_create, with or without NO_EVICT in its flags *)
Create(p, o, d, kept) ==
  /\ mem[o] = None
  /\ Begin(p, "create", o, ListOf(d, kept), BusyOf(d))

Pin(p, o, d) ==
  /\ mem[o] # None
  /\ Begin(p, "pin", o, PinList(d), BusyOf(d))

Unpin(p, o) ==
  /\ mem[o] # None
  /\ Begin(p, "unpin", o, UnpinList(o), busyList[o])

SetDomain(p, o, d) ==
  /\ mem[o] # None
  /\ Begin(p, "set_domain", o, ListOf(d, FALSE), BusyOf(d))

(* chrome_validate_bo asks for a placement only when the buffer is elsewhere. *)
Target(p, o, d) ==
  /\ mem[o] # None /\ mem[o] \notin d
  /\ Begin(p, "flush", o, ListOf(d, FALSE), BusyOf(d))

(* chrome_evict_vram: it evicts as long as there is something to evict. *)
EvictVram(p) ==
  /\ call[p].pc = "idle"
  /\ call' = [call EXCEPT ![p] = [pc |-> "force", op |-> "evict", obj |-> None, victim |-> None]]
  /\ UNCHANGED <<objVars, reserved, history>>

(* The last reference is dropped: chrome_gem_object_free. *)
Destroy(o) ==
  /\ mem[o] # None /\ reserved[o] = None
  /\ mem' = [mem EXCEPT ![o] = None] /\ keep' = [keep EXCEPT ![o] = FALSE]
  /\ pinnedAt' = [pinnedAt EXCEPT ![o] = None]
  /\ pinned' = pinned \ {o} /\ failed' = failed \ {o}
  /\ UNCHANGED <<list, busyList, reserved, call>>

-----------------------------------------------------------------------------
(* Validation *)

(* The buffer of the call is in type t; free tells that the list has put it there. *)
Placed(p, t, kept, free) ==
  LET o == call[p].obj IN
  /\ mem' = [mem EXCEPT ![o] = t] /\ keep' = [keep EXCEPT ![o] = kept]
  /\ reserved' = [reserved EXCEPT ![o] = None]
  /\ call' = [call EXCEPT ![p] = Idle]
  /\ failed' = failed \ {o}
  /\ IF call[p].op = "pin"
       THEN /\ pinned' = pinned \cup {o}
            /\ pinnedAt' = [pinnedAt EXCEPT ![o] = IF free THEN t ELSE None]
       ELSE UNCHANGED <<pinnedAt, pinned>>
  /\ UNCHANGED <<list, busyList>>

(* A move from VRAM to system memory goes through the aperture. *)
Reachable(from, to) == from = "VRAM" /\ to = "SYS" => HasRoom("TT")

Stay(p) ==
  LET o == call[p].obj IN
  /\ call[p].pc = "validate"
  /\ \E i \in Compatible(o) : Placed(p, mem[o], list[o][i].keep, TRUE)

Move(p) ==
  LET o == call[p].obj IN
  /\ call[p].pc = "validate" /\ Compatible(o) = {}
  /\ \E i \in Free(o) :
       /\ Reachable(mem[o], list[o][i].type)
       /\ Placed(p, list[o][i].type, list[o][i].keep, TRUE)

(* No room anywhere on the list: look at the busy list. *)
GoBusy(p) ==
  LET o == call[p].obj IN
  /\ call[p].pc = "validate" /\ Compatible(o) = {} /\ Free(o) = {} /\ busyList[o] # <<>>
  /\ call' = [call EXCEPT ![p].pc = "force"]
  /\ UNCHANGED <<objVars, reserved, history>>

(* Others may have taken the room that was made: then once more. *)
MoveForced(p) ==
  /\ call[p].pc = "force" /\ call[p].op # "evict" /\ HasRoom("VRAM")
  /\ Placed(p, "VRAM", FALSE, FALSE)

(* Mutant: an eviction leaves the list alone. *)
KeepList(o) == UNCHANGED <<list, busyList>>

(* chrome_evict_flags: a victim's list, from now on, is system memory. *)
EvictFlags(o) ==
  /\ list' = [list EXCEPT ![o] = ListOf({"SYS"}, FALSE)]
  /\ busyList' = [busyList EXCEPT ![o] = BusyOf({"SYS"})]

EvictFirst(p) ==
  /\ call[p].pc = "force" /\ (call[p].op = "evict" \/ ~HasRoom("VRAM"))
  /\ \E v \in Victims("VRAM") :
       /\ reserved' = [reserved EXCEPT ![v] = p]
       /\ call' = [call EXCEPT ![p].pc = "evict", ![p].victim = v]
       /\ EvictFlags(v)
  /\ UNCHANGED <<mem, keep, history>>

MoveVictim(p) ==
  LET v == call[p].victim IN
  /\ call[p].pc = "evict" /\ HasRoom("TT")
  /\ mem' = [mem EXCEPT ![v] = "SYS"] /\ keep' = [keep EXCEPT ![v] = FALSE]
  /\ reserved' = [reserved EXCEPT ![v] = None]
  /\ call' = [call EXCEPT ![p].pc = "force", ![p].victim = None]
  /\ failed' = failed \ {v}
  /\ UNCHANGED <<list, busyList, pinnedAt, pinned>>

(* The aperture is full: something there goes to system memory first. *)
NeedsAperture(p) ==
  \/ call[p].pc = "evict"
  \/ /\ call[p].pc = "validate" /\ Compatible(call[p].obj) = {}
     /\ \E i \in Free(call[p].obj) :
          ~Reachable(mem[call[p].obj], list[call[p].obj][i].type)

EvictAperture(p) ==
  /\ NeedsAperture(p) /\ ~HasRoom("TT")
  /\ \E w \in Victims("TT") :
       /\ mem' = [mem EXCEPT ![w] = "SYS"] /\ keep' = [keep EXCEPT ![w] = FALSE]
       /\ EvictFlags(w) /\ failed' = failed \ {w}
  /\ UNCHANGED <<reserved, call, pinnedAt, pinned>>

(* No room and nothing to evict.  A victim that could not be moved stays *)
(* where it is; a buffer that was to be created is freed.                *)
Stuck(p) ==
  \/ /\ call[p].pc = "validate" /\ Compatible(call[p].obj) = {}
     /\ Free(call[p].obj) = {} /\ busyList[call[p].obj] = <<>>
  \/ NeedsAperture(p) /\ ~HasRoom("TT") /\ Victims("TT") = {}
  \/ /\ call[p].pc = "force" /\ call[p].op # "evict"
     /\ ~HasRoom("VRAM") /\ Victims("VRAM") = {}

Refuse(p) ==
  LET mine == {call[p].obj, call[p].victim} \ {None} IN
  /\ Stuck(p)
  /\ reserved' = [o \in Objects |-> IF o \in mine THEN None ELSE reserved[o]]
  /\ failed' = failed \cup {o \in mine : mem[o] # None}
  /\ call' = [call EXCEPT ![p] = Idle]
  /\ UNCHANGED <<objVars, pinnedAt, pinned>>

VramEvicted(p) ==
  /\ call[p].pc = "force" /\ call[p].op = "evict" /\ Victims("VRAM") = {}
  /\ call' = [call EXCEPT ![p] = Idle]
  /\ UNCHANGED <<objVars, reserved, history>>

Call(p) ==
  \/ \E o \in Objects :
       \/ \E d \in Creations, kept \in BOOLEAN : Create(p, o, d, kept)
       \/ \E d \in Pins : Pin(p, o, d)
       \/ Unpin(p, o)
       \/ \E d \in Domains : SetDomain(p, o, d) \/ Target(p, o, d)
  \/ EvictVram(p)

Validate(p) ==
  \/ Stay(p) \/ Move(p) \/ GoBusy(p) \/ MoveForced(p) \/ EvictFirst(p) \/ MoveVictim(p)
  \/ EvictAperture(p) \/ Refuse(p) \/ VramEvicted(p)

Next == (\E p \in Procs : Call(p) \/ Validate(p)) \/ \E o \in Objects : Destroy(o)

Spec == Init /\ [][Next]_vars

-----------------------------------------------------------------------------
(* Properties *)

(* A buffer that a pin has placed where there was room stays there, and    *)
(* cannot be evicted, whatever others create, pin, evict and fail to       *)
(* evict, until somebody asks for another placement of this buffer.        *)
PinnedStays ==
  \A o \in Objects : pinnedAt[o] # None => mem[o] = pinnedAt[o] /\ keep[o]

(* chrome_bo_unpin, "Remove the NO_EVICT attribute of a BO", moves nothing: *)
(* the list it validates leads to where the buffer is, although pins, other *)
(* domains and evictions have written it, unless a move was refused.        *)
UnpinMovesNothing ==
  [][\A p \in Procs : call[p].op = "unpin" /\ call[p].obj \notin failed
       => mem'[call[p].obj] = mem[call[p].obj]]_vars

(* chrome_object.c:441, "Pin a BO to a memory type with NO_EVICT": what a  *)
(* pin has returned 0 for has NO_EVICT until it is asked to be elsewhere.  *)
(* It does not hold for a pin that has gone by the busy list.              *)
PinHolds == \A o \in pinned : keep[o]

=============================================================================
