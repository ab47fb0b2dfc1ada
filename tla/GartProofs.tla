----------------------------- MODULE GartProofs -----------------------------
(***************************************************************************)
(* The safety of the GART table, for every set of backends and updaters    *)
(* and every size of table and backends.                                   *)
(*                                                                         *)
(* That the table is protected at rest holds whoever overlaps (Guarded).   *)
(* The rest holds until two users have been at the table at once: then one *)
(* updater works, in GEM (Serial), on a range that nobody has (Placed),    *)
(* and what table, cache and shadow hold is what the backends that are     *)
(* bound say, with what the updater has written so far put in (Contents).  *)
(***************************************************************************)
EXTENDS Gart, TLAPS

USE SizesAssumption, ValuesAssumption

Active(t) == upd[t].pc /= "idle"

Jobs == [pc : {"unprotect", "write", "flush", "protect"}, op : {"bind", "unbind", "destroy"},
         be : Backends, entry : Int]

Typed ==
  /\ table \in [Entries -> Values] /\ shadow \in [Entries -> Values]
  /\ cache \in [Entries -> Values \cup {None}]
  /\ protected \in BOOLEAN /\ backup \in BOOLEAN /\ gartValid \in BOOLEAN
  /\ power \in {"on", "off", "disabled"}
  /\ mode \in {"gem", "saved", "left", "restored"}
  /\ bound \subseteq Backends /\ start \in [Backends -> Int]
  /\ upd \in [Updaters -> {Idle} \cup Jobs]
  /\ overlapped \in BOOLEAN

Guarded ==
  /\ power /= "on" => ~Updating
  /\ power = "on" /\ mode = "gem" /\ ~Updating => protected
  /\ power = "off" /\ mode = "gem" => backup

Serial ==
  /\ \A t, s \in Updaters : Active(t) /\ Active(s) => t = s
  /\ Updating => mode = "gem"
  /\ gartValid <=> mode \in {"gem", "restored"}
  /\ \A t \in Updaters : upd[t].pc \in {"write", "flush", "protect"} => ~protected
  /\ mode = "left" => (power = "on" => ~protected) /\ (power = "off" => ~backup)

(* The range of a backend at e is nobody else's. *)
Apart(b, e) == \A c \in bound \ {b} : Range(b, e) \cap Range(c, start[c]) = {}

Fits(b, e) == e \in Nat /\ e + NumPages[b] <= MaxEntries

Placed ==
  /\ \A b \in bound : Fits(b, start[b]) /\ Apart(b, start[b])
  /\ \A t \in Updaters : Active(t) =>
       IF upd[t].op = "bind"
       THEN /\ upd[t].be \notin bound
            /\ Fits(upd[t].be, upd[t].entry) /\ Apart(upd[t].be, upd[t].entry)
       ELSE upd[t].be \in bound /\ upd[t].entry = start[upd[t].be]

(* The updater has written the entries of its backend. *)
Wrote(t) == upd[t].pc \in {"flush", "protect"}

(* Entry e may lead to page v. *)
Leads(v, e) ==
  \/ v[1] \in bound /\ e = start[v[1]] + v[2]
  \/ \E t \in Updaters : /\ Wrote(t) /\ upd[t].op = "bind"
                         /\ v[1] = upd[t].be /\ e = upd[t].entry + v[2]

NoneStale(m) == \A e \in Entries : m[e] \in Pages => Leads(m[e], e)
Gone(m, b) == \A e \in Entries : m[e] \in Pages => m[e][1] /= b
Holds(m, b, f) == \A e \in Range(b, f) : m[e] = <<b, e - f>>

(* What the table holds, or will hold when the server is back. *)
View == IF gartValid THEN table ELSE shadow

NoneStaleAnywhere ==
  NoneStale(table) /\ NoneStale(cache) /\ (~gartValid => NoneStale(shadow))

BoundHeld ==
  \A b \in bound : (\A t \in Updaters : Wrote(t) => upd[t].be /= b) => Holds(View, b, start[b])

UpdateHeld ==
  \A t \in Updaters : Wrote(t) =>
    IF upd[t].op = "bind" THEN Holds(table, upd[t].be, upd[t].entry)
    ELSE /\ Gone(table, upd[t].be)
         /\ upd[t].pc = "protect" => Gone(cache, upd[t].be)

Contents == NoneStaleAnywhere /\ BoundHeld /\ UpdateHeld

IInv == Typed /\ Guarded /\ (~overlapped => Serial /\ Placed /\ Contents)

USE DEF serverVars, powerVars, backendVars

LEMMA PageForm ==
  /\ \A b \in Backends : \A i \in 0 .. NumPages[b] - 1 : <<b, i>> \in Pages
  /\ \A v \in Pages : /\ v[1] \in Backends /\ v[2] \in 0 .. NumPages[v[1]] - 1
                      /\ v = <<v[1], v[2]>>
BY DEF Pages

LEMMA RangeInTable ==
  ASSUME NEW b \in Backends, NEW e, Fits(b, e)
  PROVE  Range(b, e) \subseteq Entries
BY DEF Fits, Range, Entries

LEMMA InitIInv == Init => IInv
<1> SUFFICES ASSUME Init PROVE IInv
  OBVIOUS
<1>1. Typed
  <2>1. table \in [Entries -> Values] /\ shadow \in [Entries -> Values]
    BY DEF Init, Values
  <2>2. cache \in [Entries -> Values \cup {None}]
    BY DEF Init
  <2>3. upd \in [Updaters -> {Idle} \cup Jobs]
    BY DEF Init
  <2>4. start \in [Backends -> Int] /\ bound \subseteq Backends
    BY DEF Init
  <2>. QED
    BY <2>1, <2>2, <2>3, <2>4 DEF Init, Typed
<1>2. \A t \in Updaters : upd[t].pc = "idle"
  BY DEF Init, Idle
<1>3. Guarded
  BY <1>2 DEF Init, Guarded
<1>4. Serial
  BY <1>2 DEF Init, Serial, Active, Updating
<1>5. Placed
  BY <1>2 DEF Init, Placed, Active
<1>6. \A e \in Entries : table[e] \notin Pages /\ cache[e] \notin Pages
  BY DEF Init, Values
<1>7. Contents
  BY <1>2, <1>6
     DEF Init, Contents, NoneStaleAnywhere, NoneStale, BoundHeld, UpdateHeld, Wrote
<1>. QED
  BY <1>1, <1>3, <1>4, <1>5, <1>7 DEF IInv
-----------------------------------------------------------------------------
(***************************************************************************)
(* Types.                                                                  *)
(***************************************************************************)
LEMMA WrittenType ==
  ASSUME Typed, NEW new, \A e \in DOMAIN new : e \in Entries => new[e] \in Values
  PROVE  Written(new) \in [Entries -> Values]
BY DEF Typed, Written

LEMMA BeginType ==
  ASSUME Typed, NEW t \in Updaters, NEW op \in {"bind", "unbind", "destroy"},
         NEW b \in Backends, NEW e \in Int, Begin(t, op, b, e)
  PROVE  Typed'
<1>1. overlapped' \in BOOLEAN
  BY DEF Begin, Comes, Typed
<1>2. upd' \in [Updaters -> {Idle} \cup Jobs]
  <2>1. [pc |-> "unprotect", op |-> op, be |-> b, entry |-> e] \in Jobs
    BY DEF Jobs
  <2>. QED
    BY <2>1 DEF Begin, Typed
<1>. QED
  BY <1>1, <1>2 DEF Begin, Typed

(* An updater that is not idle has a job; a step of it changes its place. *)
LEMMA JobOf ==
  ASSUME Typed, NEW t \in Updaters, Active(t)
  PROVE  upd[t] \in Jobs
BY DEF Typed, Active, Idle

LEMMA JobMoves ==
  ASSUME Typed, NEW t \in Updaters, Active(t),
         NEW pc \in {"unprotect", "write", "flush", "protect"},
         upd' = [upd EXCEPT ![t].pc = pc]
  PROVE  /\ upd' \in [Updaters -> {Idle} \cup Jobs]
         /\ upd'[t].pc = pc /\ upd'[t].op = upd[t].op /\ upd'[t].be = upd[t].be
         /\ upd'[t].entry = upd[t].entry
         /\ \A s \in Updaters \ {t} : upd'[s] = upd[s]
<1>1. upd[t] \in Jobs
  BY JobOf
<1>2. [upd[t] EXCEPT !.pc = pc] \in Jobs
  BY <1>1 DEF Jobs
<1>3. upd' = [upd EXCEPT ![t] = [upd[t] EXCEPT !.pc = pc]]
  BY DEF Typed
<1>. QED
  BY <1>1, <1>2, <1>3 DEF Typed, Jobs

LEMMA TypeStep == IInv /\ [Next]_vars => Typed'
<1> SUFFICES ASSUME IInv, [Next]_vars PROVE Typed'
  OBVIOUS
<1>0. Typed
  BY DEF IInv
<1>1. CASE \E b \in Backends : Populate(b) \/ Clear(b)
  BY <1>0, <1>1 DEF Populate, Clear, Typed
<1>2. ASSUME NEW t \in Updaters, Update(t) PROVE Typed'
  <2>1. CASE \E b \in Backends, e \in Entries : BindCall(t, b, e)
    <3>1. Entries \subseteq Int
      BY DEF Entries
    <3>. QED
      BY <1>0, <2>1, <3>1, BeginType DEF BindCall
  <2>2. CASE \E b \in Backends : UnbindCall(t, b) \/ DestroyCall(t, b)
    <3>1. \A b \in Backends : start[b] \in Int
      BY <1>0 DEF Typed
    <3>. QED
      BY <1>0, <2>2, <3>1, BeginType DEF UnbindCall, DestroyCall
  <2>3. CASE Unprotect(t)
    BY <1>0, <2>3, JobMoves DEF Unprotect, Typed, Active
  <2>4. CASE WriteEntries(t)
    <3> DEFINE b == upd[t].be
               new == [e \in Range(b, upd[t].entry) |->
                         IF upd[t].op = "bind" THEN <<b, e - upd[t].entry>> ELSE Invalid]
    <3>1. b \in Backends /\ upd[t].entry \in Int
      BY <1>0, <2>4, JobOf DEF WriteEntries, Active, Jobs
    <3>2. \A e \in DOMAIN new : new[e] \in Values
      <4> SUFFICES ASSUME NEW e \in Range(b, upd[t].entry)
                   PROVE  new[e] \in Values
        OBVIOUS
      <4>1. e - upd[t].entry \in 0 .. NumPages[b] - 1
        BY <3>1 DEF Range
      <4>. QED
        BY <3>1, <4>1, PageForm DEF Values
    <3>3. table' \in [Entries -> Values]
      BY <1>0, <2>4, <3>2, WrittenType DEF WriteEntries
    <3>. QED
      BY <1>0, <2>4, <3>3, JobMoves DEF WriteEntries, Typed, Active
  <2>5. CASE FlushCache(t)
    BY <1>0, <2>5, JobMoves DEF FlushCache, Typed, Active
  <2>6. CASE Protect(t)
    <3>1. upd[t] \in Jobs
      BY <1>0, <2>6, JobOf DEF Protect, Active
    <3>. QED
      BY <1>0, <2>6, <3>1 DEF Protect, Typed, Jobs
  <2>. QED
    BY <1>2, <2>1, <2>2, <2>3, <2>4, <2>5, <2>6 DEF Update
<1>3. CASE Server
  <2>1. Written(shadow) \in [Entries -> Values]
    BY <1>0, WrittenType DEF Typed
  <2>. QED
    BY <1>0, <1>3, <2>1
       DEF Server, LeaveSave, LeaveUnprotect, EnterRestore, EnterInit, Comes, Typed
<1>4. CASE Suspend \/ Resume \/ ResumeFails
  BY <1>0, <1>4 DEF Suspend, Resume, ResumeFails, Typed
<1>5. CASE \E e \in Entries : Overwrite(e) \/ Fetch(e)
  BY <1>0, <1>5 DEF Overwrite, Fetch, Typed, Values
<1>6. CASE UNCHANGED vars
  BY <1>0, <1>6 DEF vars, Typed
<1>. QED
  BY <1>1, <1>2, <1>3, <1>4, <1>5, <1>6 DEF Next
-----------------------------------------------------------------------------
(***************************************************************************)
(* The protection.  Whoever opens the table is an updater, which closes it *)
(* when it ends, or the server, which closes it before it is in GEM again. *)
(***************************************************************************)
LEMMA MovesOn ==
  ASSUME Typed, NEW t \in Updaters, Unprotect(t) \/ WriteEntries(t) \/ FlushCache(t)
  PROVE  /\ Active(t) /\ Active(t)' /\ Updating /\ Updating'
         /\ upd'[t].op = upd[t].op /\ upd'[t].be = upd[t].be /\ upd'[t].entry = upd[t].entry
         /\ upd'[t].pc = IF upd[t].pc = "unprotect" THEN "write"
                         ELSE IF upd[t].pc = "write" THEN "flush" ELSE "protect"
         /\ \A s \in Updaters \ {t} : upd'[s] = upd[s]
<1>1. Active(t)
  BY DEF Unprotect, WriteEntries, FlushCache, Active
<1>2. CASE Unprotect(t)
  BY <1>1, <1>2, JobMoves DEF Unprotect, Active, Updating
<1>3. CASE WriteEntries(t)
  BY <1>1, <1>3, JobMoves DEF WriteEntries, Active, Updating
<1>4. CASE FlushCache(t)
  BY <1>1, <1>4, JobMoves DEF FlushCache, Active, Updating
<1>. QED
  BY <1>2, <1>3, <1>4

LEMMA Begins ==
  ASSUME Typed, NEW t \in Updaters, upd[t].pc = "idle",
         NEW op, NEW b, NEW e, Begin(t, op, b, e)
  PROVE  /\ Active(t)' /\ Updating'
         /\ upd'[t].pc = "unprotect" /\ upd'[t].op = op /\ upd'[t].be = b /\ upd'[t].entry = e
         /\ \A s \in Updaters \ {t} : upd'[s] = upd[s]
         /\ ~overlapped' => ~overlapped /\ ~Updating /\ mode = "gem"
         /\ UNCHANGED <<table, cache, protected, serverVars, powerVars, backendVars>>
BY DEF Begin, Typed, Active, Updating, Comes

LEMMA Ends ==
  ASSUME Typed, NEW t \in Updaters, Protect(t)
  PROVE  /\ Active(t) /\ upd'[t].pc = "idle" /\ Updating
         /\ \A s \in Updaters \ {t} : upd'[s] = upd[s]
BY DEF Protect, Typed, Active, Updating, Idle

LEMMA GuardStep == IInv /\ [Next]_vars => Guarded'
<1> SUFFICES ASSUME IInv, [Next]_vars PROVE Guarded'
  OBVIOUS
<1>0. Typed /\ Guarded
  BY DEF IInv
<1>1. CASE \/ \E b \in Backends : Populate(b) \/ Clear(b)
           \/ \E e \in Entries : Overwrite(e) \/ Fetch(e)
           \/ UNCHANGED vars
  BY <1>0, <1>1 DEF Populate, Clear, Overwrite, Fetch, vars, Guarded, Updating
<1>2. ASSUME NEW t \in Updaters, Update(t) PROVE Guarded'
  <2>1. UNCHANGED powerVars /\ power = "on"
    BY <1>2 DEF Update, BindCall, UnbindCall, DestroyCall, Begin, Unprotect, WriteEntries,
                FlushCache, Protect
  <2>2. CASE Protect(t)
    BY <1>0, <2>1, <2>2 DEF Protect, Guarded
  <2>3. CASE ~Protect(t)
    <3>1. Updating'
      <4>1. CASE Unprotect(t) \/ WriteEntries(t) \/ FlushCache(t)
        BY <1>0, <4>1, MovesOn
      <4>2. CASE ~(Unprotect(t) \/ WriteEntries(t) \/ FlushCache(t))
        BY <1>0, <1>2, <2>3, <4>2, Begins DEF Update, BindCall, UnbindCall, DestroyCall
      <4>. QED
        BY <4>1, <4>2
    <3>. QED
      BY <2>1, <3>1 DEF Guarded
  <2>. QED
    BY <2>2, <2>3
<1>3. CASE Server
  BY <1>0, <1>3
     DEF Server, LeaveSave, LeaveUnprotect, EnterRestore, EnterInit, Guarded, Updating
<1>4. CASE Suspend \/ Resume \/ ResumeFails
  BY <1>0, <1>4 DEF Suspend, Resume, ResumeFails, Guarded, Updating
<1>. QED
  BY <1>1, <1>2, <1>3, <1>4 DEF Next
-----------------------------------------------------------------------------
(***************************************************************************)
(* One user at a time.                                                     *)
(***************************************************************************)
LEMMA SerialStep ==
  ASSUME IInv, [Next]_vars, ~overlapped'
  PROVE  ~overlapped /\ Serial'
<1>0. Typed /\ Guarded
  BY DEF IInv
<1>1. ~overlapped
  BY <1>0
     DEF Next, Populate, Clear, Update, BindCall, UnbindCall, DestroyCall, Begin, Unprotect,
         WriteEntries, FlushCache, Protect, Server, LeaveSave, LeaveUnprotect, EnterRestore,
         EnterInit, Suspend, Resume, ResumeFails, Overwrite, Fetch, Comes, vars
<1>2. Serial
  BY <1>1 DEF IInv
<1>3. CASE \/ \E b \in Backends : Populate(b) \/ Clear(b)
           \/ \E e \in Entries : Overwrite(e) \/ Fetch(e)
           \/ UNCHANGED vars
  BY <1>2, <1>3 DEF Populate, Clear, Overwrite, Fetch, vars, Serial, Updating, Active
<1>4. ASSUME NEW t \in Updaters, Update(t) PROVE Serial'
  <2>1. CASE \/ \E b \in Backends, e \in Entries : BindCall(t, b, e)
             \/ \E b \in Backends : UnbindCall(t, b) \/ DestroyCall(t, b)
    <3>1. /\ upd'[t].pc = "unprotect" /\ \A s \in Updaters \ {t} : upd'[s] = upd[s]
          /\ ~Updating /\ mode = "gem"
          /\ UNCHANGED <<protected, serverVars, powerVars>>
      BY <1>0, <2>1, Begins DEF BindCall, UnbindCall, DestroyCall
    <3>. QED
      BY <1>2, <3>1 DEF Serial, Updating, Active
  <2>2. CASE Unprotect(t) \/ WriteEntries(t) \/ FlushCache(t)
    <3>1. /\ Active(t) /\ Active(t)' /\ mode = "gem"
          /\ \A s \in Updaters \ {t} : upd'[s] = upd[s] /\ upd[s].pc = "idle"
          /\ UNCHANGED <<serverVars, powerVars>>
      BY <1>0, <1>2, <2>2, MovesOn
         DEF Serial, Active, Updating, Unprotect, WriteEntries, FlushCache
    <3>2. ~protected'
      BY <1>2, <2>2 DEF Serial, Unprotect, WriteEntries, FlushCache
    <3>. QED
      BY <1>2, <3>1, <3>2 DEF Serial, Updating, Active
  <2>3. CASE Protect(t)
    <3>1. /\ upd'[t].pc = "idle" /\ mode = "gem"
          /\ \A s \in Updaters \ {t} : upd'[s] = upd[s] /\ upd[s].pc = "idle"
          /\ UNCHANGED <<serverVars, powerVars>>
      BY <1>0, <1>2, <2>3, Ends DEF Serial, Active, Updating, Protect
    <3>. QED
      BY <1>2, <3>1 DEF Serial, Updating, Active
  <2>. QED
    BY <1>4, <2>1, <2>2, <2>3 DEF Update
<1>5. CASE Server
  <2>1. UNCHANGED <<upd, power, backup>> /\ ~Updating
    BY <1>2, <1>5
       DEF Server, LeaveSave, LeaveUnprotect, EnterRestore, EnterInit, Comes, Serial
  <2>2. /\ gartValid' <=> mode' \in {"gem", "restored"}
        /\ mode' = "left" => power = "on" /\ ~protected'
    BY <1>2, <1>5 DEF Server, LeaveSave, LeaveUnprotect, EnterRestore, EnterInit, Serial
  <2>3. \A t \in Updaters : upd'[t].pc = "idle"
    BY <2>1 DEF Updating
  <2>. QED
    BY <1>1, <1>2, <2>1, <2>2, <2>3 DEF Serial, Updating, Active
<1>6. CASE Suspend \/ Resume \/ ResumeFails
  <2>1. ~Updating /\ UNCHANGED <<upd, gartValid, mode>>
    BY <1>0, <1>6 DEF Suspend, Resume, ResumeFails, Guarded
  <2>2. mode = "left" => (power' = "on" => ~protected') /\ (power' = "off" => ~backup')
    BY <1>0, <1>2, <1>6 DEF Suspend, Resume, ResumeFails, Serial
  <2>3. \A t \in Updaters : upd'[t].pc = "idle"
    BY <2>1 DEF Updating
  <2>. QED
    BY <1>1, <1>2, <2>1, <2>2, <2>3 DEF Serial, Updating, Active
<1>. QED
  BY <1>1, <1>3, <1>4, <1>5, <1>6 DEF Next
-----------------------------------------------------------------------------
(***************************************************************************)
(* Ranges.                                                                 *)
(***************************************************************************)
LEMMA PlacedKept ==
  ASSUME Placed, UNCHANGED <<bound, start, upd>>
  PROVE  Placed'
BY DEF Placed, Active, Fits, Apart

LEMMA PlacedStep ==
  ASSUME IInv, [Next]_vars, ~overlapped'
  PROVE  Placed'
<1>0. Typed /\ Serial /\ Placed
  BY SerialStep DEF IInv
<1>1. CASE \E b \in Backends : Populate(b) \/ Clear(b)
  <2>1. PICK b \in Backends : Populate(b) \/ Clear(b)
    BY <1>1
  <2>2. b \notin bound => bound \ {b} = bound
    OBVIOUS
  <2>3. UNCHANGED <<bound, start, upd>>
    BY <2>1, <2>2 DEF Populate, Clear
  <2>. QED
    BY <1>0, <2>3, PlacedKept
<1>2. CASE \/ Server \/ Suspend \/ Resume \/ ResumeFails
           \/ \E e \in Entries : Overwrite(e) \/ Fetch(e)
           \/ UNCHANGED vars
  BY <1>0, <1>2, PlacedKept
     DEF Server, LeaveSave, LeaveUnprotect, EnterRestore, EnterInit, Suspend, Resume,
         ResumeFails, Overwrite, Fetch, vars
<1>3. ASSUME NEW t \in Updaters, Update(t) PROVE Placed'
  <2>1. ASSUME NEW b \in Backends, NEW e \in Entries, BindCall(t, b, e) PROVE Placed'
    <3>1. /\ upd'[t].op = "bind" /\ upd'[t].be = b /\ upd'[t].entry = e
          /\ \A s \in Updaters \ {t} : upd'[s] = upd[s] /\ ~Active(s)
          /\ UNCHANGED <<bound, start>>
      BY <1>0, <2>1, Begins DEF BindCall, Updating, Active
    <3>2. b \notin bound /\ Fits(b, e)
      BY <2>1 DEF BindCall, Fits, Entries
    <3>3. Apart(b, e)
      <4>1. \A c \in bound : Range(c, start[c]) \subseteq Taken
        BY DEF Taken
      <4>. QED
        BY <2>1, <4>1 DEF BindCall, Apart
    <3>. QED
      BY <1>0, <3>1, <3>2, <3>3 DEF Placed, Active, Fits, Apart
  <2>2. ASSUME NEW b \in Backends, UnbindCall(t, b) \/ DestroyCall(t, b) PROVE Placed'
    <3>1. /\ upd'[t].op \in {"unbind", "destroy"} /\ upd'[t].be = b /\ upd'[t].entry = start[b]
          /\ \A s \in Updaters \ {t} : upd'[s] = upd[s] /\ ~Active(s)
          /\ UNCHANGED <<bound, start>>
      BY <1>0, <2>2, Begins DEF UnbindCall, DestroyCall, Updating, Active
    <3>2. b \in bound
      BY <2>2 DEF UnbindCall, DestroyCall
    <3>. QED
      BY <1>0, <3>1, <3>2 DEF Placed, Active, Fits, Apart
  <2>3. CASE Unprotect(t) \/ WriteEntries(t) \/ FlushCache(t)
    <3>1. /\ Active(t) /\ upd'[t].op = upd[t].op /\ upd'[t].be = upd[t].be
          /\ upd'[t].entry = upd[t].entry
          /\ \A s \in Updaters \ {t} : upd'[s] = upd[s]
          /\ UNCHANGED <<bound, start>>
      BY <1>0, <2>3, MovesOn DEF Unprotect, WriteEntries, FlushCache
    <3>2. \A s \in Updaters : Active(s)' =>
            /\ Active(s) /\ upd'[s].op = upd[s].op /\ upd'[s].be = upd[s].be
            /\ upd'[s].entry = upd[s].entry
      BY <3>1 DEF Active
    <3>. QED
      BY <1>0, <3>1, <3>2, ZenonT(40) DEF Placed, Fits, Apart
  <2>4. CASE Protect(t)
    <3> DEFINE b == upd[t].be
    <3>1. /\ Active(t) /\ upd'[t].pc = "idle" /\ b \in Backends
          /\ \A s \in Updaters \ {t} : upd'[s] = upd[s] /\ ~Active(s)
      BY <1>0, <2>4, Ends, JobOf DEF Serial, Jobs
    <3>2. \A s \in Updaters : ~Active(s)'
      BY <3>1 DEF Active
    <3>3. CASE upd[t].op = "bind"
      <4>1. /\ bound' = bound \cup {b} /\ start' = [start EXCEPT ![b] = upd[t].entry]
            /\ b \notin bound /\ Fits(b, upd[t].entry) /\ Apart(b, upd[t].entry)
        BY <1>0, <2>4, <3>1, <3>3 DEF Protect, Placed
      <4>2. /\ start'[b] = upd[t].entry /\ \A c \in bound : start'[c] = start[c]
        BY <1>0, <3>1, <4>1 DEF Typed
      <4>. QED
        BY <1>0, <3>2, <4>1, <4>2 DEF Placed, Fits, Apart
    <3>4. CASE upd[t].op /= "bind"
      <4>1. bound' = bound \ {b} /\ start' = [start EXCEPT ![b] = -1]
        BY <2>4, <3>4 DEF Protect
      <4>2. \A c \in bound' : start'[c] = start[c]
        BY <1>0, <4>1 DEF Typed
      <4>. QED
        BY <1>0, <3>2, <4>1, <4>2 DEF Placed, Fits, Apart
    <3>. QED
      BY <3>3, <3>4
  <2>. QED
    BY <1>3, <2>1, <2>2, <2>3, <2>4 DEF Update
<1>. QED
  BY <1>1, <1>2, <1>3 DEF Next
-----------------------------------------------------------------------------
(***************************************************************************)
(* What table, cache and shadow hold.                                      *)
(***************************************************************************)

(* A step that leaves the table, the backends and the updaters that have   *)
(* written alone, whatever the engine has fetched from the table.          *)
LEMMA ContentsKept ==
  ASSUME Contents, UNCHANGED <<table, shadow, gartValid, bound, start>>,
         \A e \in Entries : cache'[e] \in Pages => cache'[e] \in {cache[e], table[e]},
         \A t \in Updaters : Wrote(t)' <=> Wrote(t),
         \A t \in Updaters : Wrote(t) => upd'[t] = upd[t]
  PROVE  Contents'
<1>1. \A v, e : Leads(v, e) => Leads(v, e)'
  BY DEF Leads
<1>2. NoneStaleAnywhere'
  BY <1>1 DEF Contents, NoneStaleAnywhere, NoneStale
<1>3. BoundHeld'
  BY DEF Contents, BoundHeld, Holds, View
<1>4. UpdateHeld'
  <2> SUFFICES ASSUME NEW t \in Updaters, Wrote(t)'
               PROVE  (IF upd[t].op = "bind" THEN Holds(table, upd[t].be, upd[t].entry)
                       ELSE /\ Gone(table, upd[t].be)
                            /\ upd[t].pc = "protect" => Gone(cache, upd[t].be))'
    BY DEF UpdateHeld
  <2>1. Wrote(t) /\ upd'[t] = upd[t]
    OBVIOUS
  <2>2. CASE upd[t].op = "bind"
    BY <2>1, <2>2 DEF Contents, UpdateHeld, Holds
  <2>3. CASE upd[t].op /= "bind"
    <3>1. Gone(table, upd[t].be) /\ (upd[t].pc = "protect" => Gone(cache, upd[t].be))
      BY <2>1, <2>3 DEF Contents, UpdateHeld
    <3>2. Gone(table, upd[t].be)'
      BY <2>1, <3>1 DEF Gone
    <3>3. upd[t].pc = "protect" => Gone(cache, upd[t].be)'
      BY <2>1, <3>1 DEF Gone
    <3>. QED
      BY <2>1, <2>3, <3>2, <3>3
  <2>. QED
    BY <2>2, <2>3
<1>. QED
  BY <1>2, <1>3, <1>4 DEF Contents

LEMMA FlushContents ==
  ASSUME Typed, Contents, NEW t \in Updaters, FlushCache(t)
  PROVE  Contents'
<1>1. /\ upd'[t].op = upd[t].op /\ upd'[t].be = upd[t].be /\ upd'[t].entry = upd[t].entry
      /\ \A s \in Updaters \ {t} : upd'[s] = upd[s]
      /\ Wrote(t) /\ Wrote(t)'
  BY MovesOn DEF FlushCache, Wrote
<1>2. UNCHANGED <<table, shadow, gartValid, bound, start>>
  BY DEF FlushCache
<1>3. \A e \in Entries : cache'[e] \notin Pages
  BY DEF FlushCache, Values
<1>4. \A v, e : Leads(v, e) => Leads(v, e)'
  BY <1>1, <1>2 DEF Leads, Wrote
<1>5. NoneStaleAnywhere'
  BY <1>2, <1>3, <1>4 DEF Contents, NoneStaleAnywhere, NoneStale
<1>6. \A s \in Updaters : (Wrote(s)' <=> Wrote(s)) /\ (Wrote(s) => upd'[s].be = upd[s].be)
  BY <1>1 DEF Wrote
<1>7. BoundHeld'
  BY <1>2, <1>6 DEF Contents, BoundHeld, Holds, View
<1>8. UpdateHeld'
  <2>1. \A b : Gone(cache, b)'
    BY <1>3 DEF Gone
  <2>2. \A b : Gone(table, b) => Gone(table, b)'
    BY <1>2 DEF Gone
  <2>3. \A b, e : Holds(table, b, e) => Holds(table, b, e)'
    BY <1>2 DEF Holds
  <2>4. \A s \in Updaters : Wrote(s)' =>
          /\ Wrote(s) /\ upd'[s].op = upd[s].op /\ upd'[s].be = upd[s].be
          /\ upd'[s].entry = upd[s].entry
    BY <1>1 DEF Wrote
  <2> SUFFICES ASSUME NEW s \in Updaters, Wrote(s)'
               PROVE  (IF upd[s].op = "bind" THEN Holds(table, upd[s].be, upd[s].entry)
                       ELSE /\ Gone(table, upd[s].be)
                            /\ upd[s].pc = "protect" => Gone(cache, upd[s].be))'
    BY DEF UpdateHeld
  <2>5. IF upd[s].op = "bind" THEN Holds(table, upd[s].be, upd[s].entry)
        ELSE Gone(table, upd[s].be)
    BY <2>4 DEF Contents, UpdateHeld
  <2>6. IF upd'[s].op = "bind" THEN Holds(table', upd'[s].be, upd'[s].entry)
        ELSE Gone(table', upd'[s].be)
    BY <1>2, <2>4, <2>5
  <2>7. Gone(cache', upd'[s].be)
    BY <2>1, <1>3 DEF Gone
  <2>. QED
    BY <2>6, <2>7
<1>. QED
  BY <1>5, <1>7, <1>8 DEF Contents

(* While one updater is at work the others are idle. *)
LEMMA Alone ==
  ASSUME Serial, NEW t \in Updaters, Active(t)
  PROVE  mode = "gem" /\ gartValid /\ \A s \in Updaters \ {t} : upd[s].pc = "idle" /\ ~Wrote(s)
BY DEF Serial, Updating, Active, Wrote

LEMMA RangeOfJob ==
  ASSUME Placed, NEW t \in Updaters, Active(t)
  PROVE  Fits(upd[t].be, upd[t].entry) /\ Apart(upd[t].be, upd[t].entry)
BY DEF Placed

LEMMA WriteContents ==
  ASSUME Typed, Serial, Placed, Contents, NEW t \in Updaters, WriteEntries(t)
  PROVE  Contents'
<1> DEFINE b == upd[t].be
           f == upd[t].entry
<1>1. /\ Active(t) /\ ~Wrote(t) /\ Wrote(t)' /\ upd'[t].pc = "flush"
      /\ upd'[t].op = upd[t].op /\ upd'[t].be = b /\ upd'[t].entry = f
      /\ b \in Backends /\ f \in Int
  BY MovesOn, JobOf, ZenonT(40) DEF WriteEntries, Wrote, Jobs, Active
<1>2. /\ gartValid /\ \A s \in Updaters : ~Wrote(s)
      /\ \A s \in Updaters : Wrote(s)' => s = t
  <2>1. \A s \in Updaters \ {t} : upd'[s] = upd[s]
    BY MovesOn
  <2>. QED
    BY <1>1, <2>1, Alone DEF Wrote
<1>3. UNCHANGED <<cache, shadow, gartValid, bound, start>>
  BY DEF WriteEntries
<1>4. Fits(b, f) /\ Apart(b, f) /\ Range(b, f) \subseteq Entries
  BY <1>1, RangeOfJob, RangeInTable
<1>5. \A e \in Entries :
        IF e \in Range(b, f) THEN table'[e] = IF upd[t].op = "bind" THEN <<b, e - f>> ELSE Invalid
        ELSE table'[e] = table[e]
  <2>1. ~protected
    BY DEF Serial, WriteEntries
  <2>. QED
    BY <2>1 DEF WriteEntries, Written
<1>6. \A v, e : Leads(v, e) => v[1] \in bound /\ e = start[v[1]] + v[2]
  BY <1>2 DEF Leads
<1>7. \A v, e : Leads(v, e) => Leads(v, e)'
  BY <1>3, <1>6 DEF Leads
<1>8. NoneStaleAnywhere'
  <2>1. ASSUME NEW e \in Entries, table'[e] \in Pages PROVE Leads(table[e], e)'
    <3>1. CASE e \in Range(b, f)
      <4>1. upd[t].op = "bind" /\ table'[e] = <<b, e - f>>
        BY <1>5, <2>1, <3>1
      <4>2. table'[e][1] = b /\ table'[e][2] = e - f
        BY <4>1
      <4>3. e = f + table'[e][2]
        BY <1>1, <4>2 DEF Entries
      <4>. QED
        BY <1>1, <4>1, <4>2, <4>3 DEF Leads
    <3>2. CASE e \notin Range(b, f)
      <4>1. table'[e] = table[e]
        BY <1>5, <3>2
      <4>2. Leads(table[e], e)
        BY <2>1, <4>1 DEF Contents, NoneStaleAnywhere, NoneStale
      <4>. QED
        BY <1>7, <4>1, <4>2 DEF Leads
    <3>. QED
      BY <3>1, <3>2
  <2>2. ASSUME NEW e \in Entries, cache'[e] \in Pages PROVE Leads(cache[e], e)'
    <3>1. cache'[e] = cache[e] /\ Leads(cache[e], e)
      BY <1>3, <2>2 DEF Contents, NoneStaleAnywhere, NoneStale
    <3>. QED
      BY <1>7, <3>1 DEF Leads
  <2>. QED
    BY <1>2, <1>3, <2>1, <2>2 DEF NoneStaleAnywhere, NoneStale
<1>9. BoundHeld'
  <2> SUFFICES ASSUME NEW c \in bound, c /= b
               PROVE  Holds(table', c, start[c])
    BY <1>1, <1>2, <1>3 DEF BoundHeld, View
  <2>1. Holds(table, c, start[c])
    BY <1>2 DEF Contents, BoundHeld, View
  <2>2. Range(c, start[c]) \subseteq Entries /\ Range(c, start[c]) \cap Range(b, f) = {}
    BY <1>4, RangeInTable DEF Placed, Apart, Typed
  <2>. QED
    BY <1>5, <2>1, <2>2 DEF Holds
<1>10. UpdateHeld'
  <2>1. CASE upd[t].op = "bind"
    <3>1. Holds(table', b, f)
      BY <1>4, <1>5, <2>1 DEF Holds
    <3>. QED
      BY <1>1, <1>2, <2>1, <3>1 DEF UpdateHeld
  <2>2. CASE upd[t].op /= "bind"
    <3>1. Gone(table', b)
      <4> SUFFICES ASSUME NEW e \in Entries, table'[e] \in Pages, table'[e][1] = b
                   PROVE  FALSE
        BY DEF Gone
      <4>1. e \notin Range(b, f) /\ table'[e] = table[e]
        BY <1>5, <2>2
      <4>2. Leads(table[e], e)
        BY <4>1 DEF Contents, NoneStaleAnywhere, NoneStale
      <4>3. e = start[b] + table[e][2]
        BY <1>6, <4>1, <4>2
      <4>4. start[b] = f
        BY <1>1, <2>2 DEF Placed
      <4>5. table[e][2] \in 0 .. NumPages[b] - 1
        BY <4>1, PageForm
      <4>. QED
        BY <1>1, <4>1, <4>3, <4>4, <4>5 DEF Range
    <3>. QED
      BY <1>1, <1>2, <2>2, <3>1 DEF UpdateHeld
  <2>. QED
    BY <2>1, <2>2
<1>. QED
  BY <1>8, <1>9, <1>10 DEF Contents

LEMMA ProtectContents ==
  ASSUME Typed, Serial, Placed, Contents, NEW t \in Updaters, Protect(t)
  PROVE  Contents'
<1> DEFINE b == upd[t].be
           f == upd[t].entry
<1>1. /\ Active(t) /\ Wrote(t) /\ upd[t].pc = "protect" /\ upd'[t].pc = "idle"
      /\ b \in Backends /\ f \in Int
  BY Ends, JobOf DEF Protect, Wrote, Jobs, Active
<1>2. /\ gartValid /\ \A s \in Updaters : Wrote(s) => s = t
      /\ \A s \in Updaters : ~Wrote(s)'
  <2>1. \A s \in Updaters \ {t} : upd'[s] = upd[s]
    BY Ends
  <2>. QED
    BY <1>1, <2>1, Alone DEF Wrote
<1>3. UNCHANGED <<table, cache, shadow, gartValid>>
  BY DEF Protect
<1>4. UpdateHeld'
  BY <1>2 DEF UpdateHeld
<1>5. CASE upd[t].op = "bind"
  <2>1. /\ bound' = bound \cup {b} /\ b \notin bound
        /\ start'[b] = f /\ \A c \in bound : start'[c] = start[c]
    BY <1>1, <1>5 DEF Protect, Placed, Typed
  <2>2. \A v, e : Leads(v, e) => Leads(v, e)'
    BY <1>2, <2>1 DEF Leads
  <2>3. NoneStaleAnywhere'
    BY <1>2, <1>3, <2>2 DEF Contents, NoneStaleAnywhere, NoneStale
  <2>4. BoundHeld'
    <3> SUFFICES ASSUME NEW c \in bound' PROVE Holds(table, c, start'[c])
      BY <1>2, <1>3 DEF BoundHeld, View, Holds
    <3>1. CASE c = b
      BY <1>1, <1>5, <2>1, <3>1 DEF Contents, UpdateHeld
    <3>2. CASE c /= b
      BY <1>2, <2>1, <3>2 DEF Contents, BoundHeld, View
    <3>. QED
      BY <3>1, <3>2
  <2>. QED
    BY <1>4, <2>3, <2>4 DEF Contents
<1>6. CASE upd[t].op /= "bind"
  <2>1. bound' = bound \ {b} /\ \A c \in bound' : start'[c] = start[c]
    BY <1>6 DEF Protect, Typed
  <2>2. Gone(table, b) /\ Gone(cache, b)
    BY <1>1, <1>6 DEF Contents, UpdateHeld
  <2>3. \A v, e : Leads(v, e) /\ v[1] /= b => Leads(v, e)'
    BY <1>2, <2>1 DEF Leads
  <2>4. NoneStaleAnywhere'
    BY <1>2, <1>3, <2>2, <2>3 DEF Contents, NoneStaleAnywhere, NoneStale, Gone
  <2>5. BoundHeld'
    <3> SUFFICES ASSUME NEW c \in bound' PROVE Holds(table, c, start'[c])
      BY <1>2, <1>3 DEF BoundHeld, View, Holds
    <3>. QED
      BY <1>2, <2>1 DEF Contents, BoundHeld, View
  <2>. QED
    BY <1>4, <2>4, <2>5 DEF Contents
<1>. QED
  BY <1>5, <1>6

(* While nobody is at the table, only what is in table, cache and view matters. *)
LEMMA ContentsAtRest ==
  ASSUME Contents, ~Updating, UNCHANGED <<bound, start, upd>>,
         NoneStale(table'), NoneStale(cache'), ~gartValid' => NoneStale(shadow'),
         \A e \in Entries : View'[e] = View[e], \A c \in bound : Fits(c, start[c]),
         bound \subseteq Backends
  PROVE  Contents'
<1>1. \A t \in Updaters : ~Wrote(t) /\ ~Wrote(t)'
  BY DEF Updating, Wrote
<1>2. \A v, e : Leads(v, e) => Leads(v, e)'
  BY <1>1 DEF Leads
<1>3. NoneStaleAnywhere'
  BY <1>2 DEF NoneStaleAnywhere, NoneStale
<1>4. BoundHeld'
  <2> SUFFICES ASSUME NEW c \in bound PROVE Holds(View', c, start[c])
    BY DEF BoundHeld
  <2>1. Holds(View, c, start[c])
    BY <1>1 DEF Contents, BoundHeld
  <2>. QED
    BY <2>1, RangeInTable DEF Holds
<1>5. UpdateHeld'
  BY <1>1 DEF UpdateHeld
<1>. QED
  BY <1>3, <1>4, <1>5 DEF Contents

LEMMA ServerContents ==
  ASSUME Typed, Serial, Placed, Contents, ~overlapped',
         Server \/ (\E e \in Entries : Overwrite(e))
  PROVE  Contents'
<1>0. /\ NoneStale(table) /\ NoneStale(cache) /\ (~gartValid => NoneStale(shadow))
      /\ \A c \in bound : Fits(c, start[c])
      /\ bound \subseteq Backends
  BY DEF Contents, NoneStaleAnywhere, Placed, Typed
<1>1. CASE LeaveSave
  <2>1. ~Updating /\ UNCHANGED <<bound, start, upd, table, cache>> /\ shadow' = table
    BY <1>1 DEF LeaveSave, Comes
  <2>2. View = table /\ View' = table
    BY <1>1 DEF LeaveSave, Comes, View
  <2>. QED
    BY <1>0, <2>1, <2>2, ContentsAtRest
<1>2. CASE LeaveUnprotect \/ EnterInit
  BY <1>2, ContentsKept DEF LeaveUnprotect, EnterInit, Wrote, Values
<1>3. CASE EnterRestore
  <2>1. ~Updating /\ UNCHANGED <<bound, start, upd, cache, shadow>> /\ gartValid'
    BY <1>3 DEF EnterRestore, Comes
  <2>2. CASE gartValid
    BY <1>0, <1>3, <2>1, <2>2, ContentsAtRest DEF EnterRestore, View
  <2>3. CASE ~gartValid
    <3>1. ~protected
      BY <1>3, <2>3 DEF Serial, EnterRestore
    <3>2. table' = shadow
      BY <1>3, <2>3, <3>1 DEF EnterRestore, Written, Typed
    <3>3. View = shadow /\ View' = shadow
      BY <2>1, <2>3, <3>2 DEF View
    <3>. QED
      BY <1>0, <2>1, <2>3, <3>2, <3>3, ContentsAtRest
  <2>. QED
    BY <2>2, <2>3
<1>4. ASSUME NEW d \in Entries, Overwrite(d) PROVE Contents'
  <2>1. ~Updating /\ ~gartValid /\ UNCHANGED <<bound, start, upd, cache, shadow, gartValid>>
    BY <1>4 DEF Overwrite, Serial
  <2>2. \A e \in Entries : table'[e] \in Pages => table'[e] = table[e]
    BY <1>4 DEF Overwrite, Typed
  <2>3. NoneStale(table')
    <3> SUFFICES ASSUME NEW e \in Entries, table'[e] \in Pages
                 PROVE  Leads(table'[e], e)
      BY DEF NoneStale
    <3>. QED
      BY <1>0, <2>2 DEF NoneStale
  <2>4. View = shadow /\ View' = shadow
    BY <2>1 DEF View
  <2>. QED
    BY <1>0, <2>1, <2>3, <2>4, ContentsAtRest
<1>. QED
  BY <1>1, <1>2, <1>3, <1>4 DEF Server

LEMMA ContentsStep ==
  ASSUME IInv, [Next]_vars, ~overlapped'
  PROVE  Contents'
<1>0. Typed /\ Serial /\ Placed /\ Contents
  BY SerialStep DEF IInv
<1>1. CASE \E b \in Backends : Populate(b) \/ Clear(b)
  <2>1. UNCHANGED <<table, cache, shadow, gartValid, bound, start, upd>>
    BY <1>0, <1>1 DEF Populate, Clear, Typed
  <2>. QED
    BY <1>0, <2>1, ContentsKept DEF Wrote
<1>2. ASSUME NEW t \in Updaters, Update(t) PROVE Contents'
  <2>1. CASE \/ \E b \in Backends, e \in Entries : BindCall(t, b, e)
             \/ \E b \in Backends : UnbindCall(t, b) \/ DestroyCall(t, b)
    <3>1. /\ upd[t].pc = "idle" /\ upd'[t].pc = "unprotect"
          /\ \A s \in Updaters \ {t} : upd'[s] = upd[s]
          /\ UNCHANGED <<table, cache, shadow, gartValid, bound, start>>
      BY <1>0, <2>1, Begins DEF BindCall, UnbindCall, DestroyCall
    <3>. QED
      BY <1>0, <3>1, ContentsKept DEF Wrote
  <2>2. CASE Unprotect(t)
    <3>1. /\ upd[t].pc = "unprotect" /\ upd'[t].pc = "write"
          /\ \A s \in Updaters \ {t} : upd'[s] = upd[s]
          /\ UNCHANGED <<table, cache, shadow, gartValid, bound, start>>
      BY <1>0, <2>2, MovesOn DEF Unprotect
    <3>. QED
      BY <1>0, <3>1, ContentsKept DEF Wrote
  <2>. QED
    BY <1>0, <1>2, <2>1, <2>2, WriteContents, FlushContents, ProtectContents DEF Update
<1>3. CASE Server \/ (\E e \in Entries : Overwrite(e))
  BY <1>0, <1>3, ServerContents
<1>4. CASE Suspend \/ Resume \/ ResumeFails \/ UNCHANGED vars
  <2>1. /\ UNCHANGED <<table, shadow, gartValid, bound, start, upd>>
        /\ \A e \in Entries : cache'[e] \in Pages => cache'[e] = cache[e]
    BY <1>4 DEF Suspend, Resume, ResumeFails, vars, Values
  <2>. QED
    BY <1>0, <2>1, ContentsKept DEF Wrote
<1>5. ASSUME NEW d \in Entries, Fetch(d) PROVE Contents'
  <2>1. /\ UNCHANGED <<table, shadow, gartValid, bound, start, upd>>
        /\ \A e \in Entries : cache'[e] \in {cache[e], table[e]}
    BY <1>0, <1>5 DEF Fetch, Typed
  <2>. QED
    BY <1>0, <2>1, ContentsKept DEF Wrote
<1>. QED
  BY <1>1, <1>2, <1>3, <1>4, <1>5 DEF Next

LEMMA IInvStep == IInv /\ [Next]_vars => IInv'
BY TypeStep, GuardStep, SerialStep, PlacedStep, ContentsStep DEF IInv
-----------------------------------------------------------------------------
(* The invariant that the three properties rest on. *)
THEOREM Invariance == Spec => []IInv
BY InitIInv, IInvStep, PTL DEF Spec

(* After any number of leaves, enters, suspends and overwritings, the      *)
(* entries of a bound backend at rest are its pages, as long as bind,      *)
(* unbind, leave_gem and enter_gem come one after the other.               *)
THEOREM TableRestored == Spec => []BoundIsMapped
<1>1. IInv => BoundIsMapped
  <2> SUFFICES ASSUME IInv, mode = "gem", ~overlapped, NEW b \in bound, ~Working(b)
               PROVE  Mapped(b)
    BY DEF BoundIsMapped
  <2>1. Serial /\ BoundHeld
    BY DEF IInv, Contents
  <2>2. \A t \in Updaters : Wrote(t) => upd[t].be /= b
    BY DEF Working, Wrote
  <2>3. View = table
    BY <2>1 DEF Serial, View
  <2>. QED
    BY <2>1, <2>2, <2>3 DEF BoundHeld, Holds, Mapped
<1>. QED
  BY <1>1, Invariance, PTL

(* Under the same condition neither the table nor the engine's cache of it *)
(* leads to a page of a backend that is not bound there.                   *)
THEOREM NoPageReachable == Spec => []NoStalePage
<1>1. IInv => NoStalePage
  <2> SUFFICES ASSUME IInv, ~overlapped, NEW e \in Entries,
                      NEW v \in {table[e], cache[e]} \cap Pages
               PROVE  Working(v[1]) \/ (v[1] \in bound /\ e = start[v[1]] + v[2])
    BY DEF NoStalePage
  <2>1. Leads(v, e)
    BY DEF IInv, Contents, NoneStaleAnywhere, NoneStale
  <2>. QED
    BY <2>1 DEF Leads, Wrote, Working
<1>. QED
  BY <1>1, Invariance, PTL

(* Whoever was at the table, and however many at once, it is protected     *)
(* when nobody is at work and the server is in GEM, after a resume too.    *)
THEOREM ClosedAtRest == Spec => []ProtectedAtRest
<1>1. IInv => ProtectedAtRest
  BY DEF IInv, Guarded, ProtectedAtRest
<1>. QED
  BY <1>1, Invariance, PTL
=============================================================================
