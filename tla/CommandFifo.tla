---------------------------- MODULE CommandFifo -----------------------------
(***************************************************************************)
(* What a command ring promises the commands that are put into it, without *)
(* addresses to compare, jumps or waits: the words handed to the engine    *)
(* are executed once each, in the order in which they were handed over,    *)
(* and as they were last written; nothing is written over a word that is   *)
(* still to be executed.  AgpRing is shown to implement this.              *)
(***************************************************************************)
EXTENDS Naturals, Sequences, Functions

VARIABLES
  written,   \* the words the driver has just written
  fresh,     \* words written that have not been handed over since
  todo       \* the words handed over and not yet executed, in order

commandVars == <<written, fresh, todo>>

CommandInit == written = {} /\ fresh = {} /\ todo \in Seq(Nat)

(* What was written before may be given up, by a flush that fails. *)
WriteCommands ==
  /\ written' \cap Range(todo) = {}
  /\ fresh' \subseteq fresh \cup written'
  /\ UNCHANGED todo

HandOver ==
  LET new == SubSeq(todo', Len(todo) + 1, Len(todo'))
  IN  /\ todo' = todo \o new
      /\ Range(new) \subseteq fresh /\ IsInjective(new)
      /\ fresh' \subseteq fresh \ Range(new)
      /\ written' = {}

ExecuteCommand ==
  /\ todo # <<>> /\ todo' = Tail(todo)
  /\ UNCHANGED <<written, fresh>>

CommandNext == WriteCommands \/ HandOver \/ ExecuteCommand

CommandSafety == CommandInit /\ [][CommandNext]_commandVars
=============================================================================
