----------------------------- MODULE Verifier -------------------------------
(***************************************************************************)
(* The command streams of the Unichrome (chrome1_verifier.c): a stream is  *)
(* checked word by word, against the 3D state that earlier streams left in *)
(* the engine, and then walked a second time by code that trusts the first *)
(* walk (chrome_parse_command_stream) or by the engine itself, which reads *)
(* it from the AGP ring.                                                   *)
(*                                                                         *)
(* A word stands for all words that the two walks treat alike.  A texture  *)
(* unit has one level, and its AGP address has two parts set by different  *)
(* words.  Addresses of the Z and destination buffers are checked word by  *)
(* word and their sequences end in a message only: they are plain words    *)
(* here.                                                                   *)
(***************************************************************************)
EXTENDS Integers, Sequences

CONSTANTS
  Streams,       \* the streams that are submitted: sequences of words
  Chips,         \* the chip sets: [video: cme_video, threeD: supported_3d]
  StippleWords,  \* the words of a stipple pattern: 32
  U32,           \* 2^32
  MaxFires,      \* VIA_FIRE_BUF_SIZE
  Maps           \* the texture addresses <<high, low>> inside an AGP map

Headers == {"H2", "R", "Rforbidden", "V5", "V5forbidden", "V6"}
Registers == {"R", "Rforbidden"}      \* HALCYON_HEADER1 and a register number
Video5 == {"V5", "V5forbidden"}
Fires == {"fire", "otherFire"}        \* the fire command of the list, or another
TextureUnits == 0 .. 1
TextureUnit == [Tex0 |-> 0, Tex1 |-> 1]   \* HC_ParaType_Tex and its SubType
Count == [n0 |-> 0, n1 |-> 1, n2 |-> 2, n4 |-> 4, nHalf |-> U32 \div 2, zero |-> 0]

(* A word in the place of a count.  The words that are not named for their *)
(* value are those with a large one.                                       *)
NumberOf(w) == IF w \in DOMAIN Count THEN Count[w] ELSE U32 - 1

(* The words that are skipped after the header of a sequence. *)
Eaten(p) == CASE p = "Auto" -> 2 [] p = "Stipple" -> StippleWords [] OTHER -> 0

(* The form clients write: registers come in pairs up to the next header,  *)
(* and what follows the header of automatic vertices or of a stipple       *)
(* pattern is no header.  The verifier does not ask for it.                *)
WellWritten(s) ==
  \A i \in DOMAIN s :
    /\ s[i] \in Registers => i < Len(s) /\ (i + 2 <= Len(s) => s[i + 2] \in Headers)
    /\ s[i] = "H2" /\ i < Len(s) =>
         \A j \in i + 2 .. Len(s) : j < i + 2 + Eaten(s[i + 1]) => s[j] \notin Headers

ASSUME StreamsAssumption ==
  \A s \in Streams :
    /\ s \in Seq(STRING) /\ s # <<>> /\ Len(s) < U32
    /\ \A i \in DOMAIN s : s[i] # "none"
ASSUME ChipsAssumption == Chips \subseteq [video : BOOLEAN, threeD : BOOLEAN]
ASSUME BoundsAssumption ==
  /\ StippleWords \in Nat /\ MaxFires \in Nat
  /\ U32 \in Nat \ {0} /\ U32 % 4 = 0

VARIABLES
  chip,
  stream, agp,  \* what is submitted, and to the AGP ring or not
  state,        \* verifier_state_t, and where in the function
  buf,          \* buf - buf_start
  hc,           \* hc_state: what the verifier takes the engine's state to be
  saved,        \* saved_state
  unfinished,   \* hc_state->unfinished is tex_address
  para,         \* the parameter type of the current HEADER2
  size,         \* dw_count
  failed,       \* ret of chrome_check_prim_list
  fires,        \* fire_offsets
  sections,     \* history: where the verifier has found headers
  hw,           \* the engine's own state
  fireCount,    \* fire_count
  executed,     \* history: where the second walk has found headers
  parted        \* history: a stream was checked and not executed, or executed
                \* though it has not the form clients write

checkVars == <<hc, saved, unfinished, size, failed, fires, sections>>
execVars == <<hw, fireCount, executed>>
input == <<chip, stream, agp>>
locals == <<buf, para, unfinished, size, failed, sections, fireCount, executed>>
verifierVars == <<input, state, buf, para, checkVars, execVars, parted>>

(* The 3D state: the address of each unit's texture, whether it is in AGP  *)
(* memory, and the unit of which that was set last.  hc_state has only the *)
(* last one's, agp_texture.                                                *)
Reset == [multitex |-> 0, addr |-> [u \in TextureUnits |-> <<0, 0>>],
          inAgp |-> [u \in TextureUnits |-> FALSE], last |-> 0]

VerifierInit ==
  /\ chip \in Chips /\ stream = <<>> /\ agp = FALSE
  /\ state = "idle" /\ buf = 0 /\ para = "none"
  /\ hc = Reset /\ saved = Reset /\ hw = Reset
  /\ unfinished = FALSE /\ size = 0 /\ failed = FALSE
  /\ fires = <<>> /\ fireCount = 0
  /\ sections = {} /\ executed = {} /\ parted = FALSE

Left == Len(stream) - buf
WordAt(i) == IF i < Len(stream) THEN stream[i + 1] ELSE "none"   \* buf_end

(* The multiple of four words to which a video command is filled up. *)
Filler(n) == (4 - (n % 4)) % 4

(* What a word of a HEADER2 sequence sets, in the engine and in hc_state. *)
Effect(s3d, p, w) ==
  CASE p \in DOMAIN TextureUnit /\ w \in {"lo0", "lo1"} ->
         [s3d EXCEPT !.addr[TextureUnit[p]][2] = IF w = "lo1" THEN 1 ELSE 0]
    [] p \in DOMAIN TextureUnit /\ w \in {"hi0", "hi1"} ->
         [s3d EXCEPT !.addr[TextureUnit[p]][1] = IF w = "hi1" THEN 1 ELSE 0]
    [] p \in DOMAIN TextureUnit /\ w \in {"agp", "local"} ->
         [s3d EXCEPT !.inAgp[TextureUnit[p]] = (w = "agp"), !.last = TextureUnit[p]]
    [] p = "TexGeneral" /\ w \in {"multi0", "multi1"} ->
         [s3d EXCEPT !.multitex = IF w = "multi1" THEN 1 ELSE 0]
    [] OTHER -> s3d

AgpTexture(s3d) == s3d.inAgp[s3d.last]   \* agp_texture

-----------------------------------------------------------------------------
(* chrome_verify_command_stream *)

(* Mutant: the fires of the stream before are still there. *)
OldFires == fires

NoFires == <<>>

Submit(s, a) ==
  /\ state = "idle"
  /\ stream' = s /\ agp' = a /\ state' = "command"
  /\ saved' = hc /\ fires' = NoFires
  /\ UNCHANGED <<chip, locals, hc, hw, parted>>

(* The call returns; num_fire_offsets and hc_state outlive it. *)
Leave ==
  /\ state' = "idle" /\ stream' = <<>> /\ agp' = FALSE /\ saved' = Reset
  /\ buf' = 0 /\ para' = "none" /\ unfinished' = FALSE /\ size' = 0 /\ failed' = FALSE
  /\ sections' = {} /\ fireCount' = 0 /\ executed' = {}
  /\ UNCHANGED <<chip, fires>>

At(label) == state = label /\ UNCHANGED <<input, execVars, parted>>

Goto(label, p) == state' = label /\ buf' = p

CheckCommand ==
  /\ At("command") /\ buf < Len(stream)
  /\ LET w == WordAt(buf) IN
     state' = CASE w = "H2" /\ chip.threeD -> "header2"
             [] w \in Registers -> "header1"
             [] w \in Video5 /\ chip.video -> "vheader5"
             [] w = "V6" /\ chip.video -> "vheader6"
             [] OTHER -> "error"
  /\ sections' = sections \cup {buf}
  /\ UNCHANGED <<buf, para, hc, saved, unfinished, size, failed, fires>>

Accept ==
  /\ At("command") /\ buf >= Len(stream)
  /\ state' = "accepted"
  /\ UNCHANGED <<buf, para, checkVars>>

(* Mutant: the state of the rejected stream is kept. *)
StateKept == hc

Restored == saved

Reject ==
  /\ state = "error" /\ Leave
  /\ hc' = Restored
  /\ UNCHANGED <<hw, parted>>

(* chrome_check_header2 *)
CheckHeader2 ==
  /\ At("header2")
  /\ LET p == WordAt(buf + 1)
     IN /\ para' = p
        /\ Goto(CASE p = "Vdata" -> "list"
                  [] p \in {"NotTex", "TexGeneral"} \cup DOMAIN TextureUnit -> "table"
                  [] p \in {"Auto", "Stipple"} /\ Left - 2 >= Eaten(p) -> "command"
                  [] OTHER -> "error",
                buf + 2 + Eaten(p))
  /\ UNCHANGED checkVars

(* table1, table2, table3 *)
Hazard(w) ==
  CASE w \in {"H2", "none"} \cup Registers -> "stop"
    [] w \in Fires /\ para # "TexGeneral" -> "stop"
    [] w \in {"plain", "dummy"} -> "other"
    [] para \in DOMAIN TextureUnit /\ w \in {"lo0", "lo1", "hi0", "hi1", "agp", "local"} -> "texture"
    [] para = "TexGeneral" /\ w \in {"multi0", "multi1"} -> "other"
    [] OTHER -> "forbidden"

(* finish_current_sequence is called at the first word of another kind.  It *)
(* looks at the address of the current unit and at the one agp_texture.     *)
Finishable(h) ==
  unfinished /\ h # "texture" /\ AgpTexture(hc) => hc.addr[TextureUnit[para]] \in Maps

CheckWord ==
  /\ At("table")
  /\ LET h == Hazard(WordAt(buf)) IN
     /\ h \in {"other", "texture"} /\ Finishable(h)
     /\ unfinished' = (h = "texture")
  /\ hc' = Effect(hc, para, WordAt(buf))
  /\ Goto("table", buf + 1)
  /\ UNCHANGED <<para, saved, size, failed, fires, sections>>

EndTable ==
  /\ At("table") /\ Hazard(WordAt(buf)) = "stop" /\ Finishable("stop")
  /\ unfinished' = FALSE /\ state' = "command"
  /\ UNCHANGED <<buf, para, hc, saved, size, failed, fires, sections>>

RejectWord ==
  /\ At("table")
  /\ LET h == Hazard(WordAt(buf)) IN h = "forbidden" \/ ~Finishable(h)
  /\ state' = "error"
  /\ UNCHANGED <<buf, para, checkVars>>

(* chrome_check_prim_list: the B and A commands of a list.  "Bsmall" has no *)
(* component but a colour or texture coordinate, "B" has a coordinate too.  *)
VertexSize(b) == 1 + hc.multitex + (IF b = "B" THEN 1 ELSE 0)

CheckList ==
  /\ At("list") /\ WordAt(buf) \in {"B", "Bsmall"}
  /\ WordAt(buf + 1) \in {"A"} \cup Fires
  /\ ~(agp /\ WordAt(buf) = "Bsmall")
  /\ size' = VertexSize(WordAt(buf))
  /\ Goto("vertices", buf + 2)
  /\ UNCHANGED <<para, hc, saved, unfinished, failed, fires, sections>>

EndLists ==
  /\ At("list") /\ ~failed
  /\ Left # 1 /\ WordAt(buf) \notin {"B", "Bsmall"}
  /\ state' = "command"
  /\ UNCHANGED <<buf, para, checkVars>>

RejectList ==
  /\ At("list")
  /\ \/ Left = 1
     \/ failed /\ WordAt(buf) \notin {"B", "Bsmall"}
     \/ /\ WordAt(buf) \in {"B", "Bsmall"}
        /\ WordAt(buf + 1) \notin {"A"} \cup Fires \/ (agp /\ WordAt(buf) = "Bsmall")
  /\ state' = "error"
  /\ UNCHANGED <<buf, para, checkVars>>

(* After the vertices, an AGP list must end at an even word. *)
LeaveVertices(p) == Goto(IF agp /\ p % 2 = 1 THEN "error" ELSE "list", p)

CheckVertex ==
  /\ At("vertices") /\ Left > 0 /\ WordAt(buf) \notin {"H2"} \cup Fires /\ Left >= size
  /\ failed' = FALSE
  /\ Goto("vertices", buf + size)
  /\ UNCHANGED <<para, hc, saved, unfinished, size, fires, sections>>

(* The fire command may come twice, which keeps the list even. *)
CheckFire ==
  /\ At("vertices") /\ WordAt(buf) = "fire" /\ Len(fires) < MaxFires
  /\ fires' = Append(fires, buf)
  /\ LeaveVertices(IF WordAt(buf + 1) = "fire" THEN buf + 2 ELSE buf + 1)
  /\ UNCHANGED <<para, hc, saved, unfinished, size, failed, sections>>

(* Only the inner loop is left: the list after it is still looked at. *)
RejectVertex ==
  /\ At("vertices") /\ Left > 0
  /\ \/ WordAt(buf) = "fire" /\ Len(fires) >= MaxFires
     \/ WordAt(buf) \in {"H2", "otherFire"}
     \/ WordAt(buf) \notin {"H2"} \cup Fires /\ Left < size
  /\ failed' = TRUE /\ LeaveVertices(buf)
  /\ UNCHANGED <<para, hc, saved, unfinished, size, fires, sections>>

MissingFire ==
  /\ At("vertices") /\ Left = 0
  /\ state' = "error"
  /\ UNCHANGED <<buf, para, checkVars>>

(* chrome_check_header1: pairs of a register and a value, up to a word above *)
(* all register numbers.                                                     *)
CheckHeader1 ==
  /\ At("header1")
  /\ \/ Left > 0 /\ WordAt(buf) = "Rforbidden" /\ Goto("error", buf)
     \/ (Left <= 0 \/ WordAt(buf) \in Headers \ Registers) /\ Goto("command", buf)
     \/ Left > 0 /\ WordAt(buf) \notin Headers \ {"R"} /\ Goto("header1", buf + 2)
  /\ UNCHANGED <<para, checkVars>>

(* verify_video_tail *)
TailIsEmpty(from, n) == \A i \in from .. from + n - 1 : WordAt(i) \in {"zero", "dummy"}

WellFormed5 ==
  /\ Left >= 4 /\ WordAt(buf) = "V5"
  /\ WordAt(buf + 2) = "F5" /\ WordAt(buf + 3) = "zero"
  /\ LET n == NumberOf(WordAt(buf + 1)) IN
     Left >= 4 + n + Filler(n) /\ TailIsEmpty(buf + 4 + n, Filler(n))

CheckVheader5 ==
  /\ At("vheader5")
  /\ \/ /\ WellFormed5
        /\ LET n == NumberOf(WordAt(buf + 1)) IN Goto("command", buf + 4 + n + Filler(n))
     \/ ~WellFormed5 /\ Goto("error", buf)
  /\ UNCHANGED <<para, checkVars>>

Twice(n) == (2 * n) % U32   \* data <<= 1

(* A count that wraps has the loop read on behind the stream, where it does *)
(* not find only numbers of registers.                                      *)
WellFormed6 ==
  /\ Left >= 4 /\ WordAt(buf + 2) = "F6" /\ WordAt(buf + 3) = "zero"
  /\ LET n == NumberOf(WordAt(buf + 1)) IN
     /\ Left >= 4 + Twice(n) + Filler(Twice(n))
     /\ \A i \in 0 .. n - 1 : WordAt(buf + 4 + 2 * i) = "register"   \* verify_mmio_address
     /\ TailIsEmpty(buf + 4 + 2 * n, Filler(Twice(n)))

CheckVheader6 ==
  /\ At("vheader6")
  /\ \/ /\ WellFormed6
        /\ LET n == 2 * NumberOf(WordAt(buf + 1)) IN Goto("command", buf + 4 + n + Filler(n))
     \/ ~WellFormed6 /\ Goto("error", buf)
  /\ UNCHANGED <<para, checkVars>>

Check ==
  \/ CheckCommand \/ Accept \/ Reject
  \/ CheckHeader2 \/ CheckWord \/ EndTable \/ RejectWord
  \/ CheckList \/ EndLists \/ RejectList
  \/ CheckVertex \/ CheckFire \/ RejectVertex \/ MissingFire
  \/ CheckHeader1 \/ CheckVheader5 \/ CheckVheader6

-----------------------------------------------------------------------------
(* chrome_dispatch_cmdbuffer, chrome_dispatch_pci_cmdbuffer *)

(* -EAGAIN: the stream is not executed, and hc_state stays as it left it. *)
NoRoom ==
  /\ state = "accepted" /\ agp /\ Leave
  /\ parted' = (parted \/ hc # saved)
  /\ UNCHANGED <<hc, hw>>

Walk ==
  /\ state = "accepted"
  /\ Goto("exec", 0)
  /\ UNCHANGED <<input, para, checkVars, execVars, parted>>

Exec(label) == state = label /\ UNCHANGED <<input, checkVars, parted>>

(* chrome_parse_command_stream *)
ExecCommand ==
  /\ Exec("exec") /\ buf < Len(stream)
  /\ LET w == WordAt(buf) IN
     state' = CASE w = "H2" -> "execHeader2"
             [] w \in Registers -> "execHeader1"
             [] w \in Video5 -> "execVheader5"
             [] w = "V6" -> "execVheader6"
             [] OTHER -> "execError"
  /\ executed' = executed \cup {buf}
  /\ UNCHANGED <<buf, para, hw, fireCount>>

(* chrome_parse_header2 *)
ExecHeader2 ==
  /\ Exec("execHeader2")
  /\ para' = WordAt(buf + 1)
  /\ Goto(IF WordAt(buf + 1) = "Vdata" THEN "execLists" ELSE "execWords", buf + 2)
  /\ UNCHANGED execVars

MoreLists ==
  fireCount < Len(fires) /\ WordAt(buf) \in {"B", "Bsmall"}

ExecList ==
  /\ Exec("execLists") /\ MoreLists
  /\ LET nextFire == fires[fireCount + 1]
         after == IF buf <= nextFire THEN nextFire + 1 ELSE buf
         twice == WordAt(after) \in Fires
     IN buf' = IF twice THEN after + 1 ELSE after
  /\ fireCount' = fireCount + 1
  /\ UNCHANGED <<state, para, hw, executed>>

ExecWord ==
  /\ Exec("execWords") /\ WordAt(buf) \notin {"none"} \cup Headers
  /\ hw' = Effect(hw, para, WordAt(buf)) /\ buf' = buf + 1
  /\ UNCHANGED <<state, para, fireCount, executed>>

EndOfHeader2 ==
  /\ \/ Exec("execLists") /\ ~MoreLists
     \/ Exec("execWords") /\ WordAt(buf) \in {"none"} \cup Headers
  /\ state' = "exec"
  /\ UNCHANGED <<buf, para, execVars>>

(* chrome_parse_header1 *)
ExecHeader1 ==
  /\ Exec("execHeader1")
  /\ \/ Left > 0 /\ WordAt(buf) \in Registers /\ Goto("execHeader1", buf + 2)
     \/ (Left <= 0 \/ WordAt(buf) \notin Registers) /\ Goto("exec", buf)
  /\ UNCHANGED <<para, execVars>>

(* chrome_parse_vheader5 and chrome_parse_vheader6 *)
ExecVideo ==
  /\ Exec("execVheader5") \/ Exec("execVheader6")
  /\ LET count == NumberOf(WordAt(buf + 1))
         n == IF state = "execVheader5" THEN count ELSE 2 * count
     IN Goto("exec", buf + 4 + n + Filler(n))
  /\ UNCHANGED <<para, execVars>>

ExecEnd ==
  /\ Exec("exec") /\ buf >= Len(stream)
  /\ state' = "executed"
  /\ UNCHANGED <<buf, para, execVars>>

Return ==
  /\ state \in {"executed", "execError"} /\ Leave
  /\ parted' = (parted \/ ~WellWritten(stream))
  /\ UNCHANGED <<hc, hw>>

Parse ==
  \/ NoRoom \/ Walk
  \/ ExecCommand \/ ExecHeader2 \/ ExecList \/ ExecWord \/ EndOfHeader2
  \/ ExecHeader1 \/ ExecVideo \/ ExecEnd \/ Return

VerifierNext == (\E s \in Streams, a \in BOOLEAN : Submit(s, a)) \/ Check \/ Parse

VerifierSpec == VerifierInit /\ [][VerifierNext]_verifierVars

-----------------------------------------------------------------------------
(* Properties *)

(* The second walk checks nothing, so it must see what the first one saw:  *)
(* of a stream in the form clients write it knows every header it meets,   *)
(* meets them where the verifier did, uses every fire the verifier has     *)
(* noted, and ends where the stream ends, whatever state earlier streams   *)
(* have left behind.                                                       *)
SameSections ==
  WellWritten(stream) =>
    /\ state # "execError"
    /\ state = "executed" =>
         /\ buf = Len(stream) /\ executed = sections
         /\ fireCount = Len(fires)

(* hc_state carries over from stream to stream: between calls it has its   *)
(* AGP texture in a map, and until it has parted from the engine for good  *)
(* it is the state the engine is in, whatever was rejected in between.     *)
EngineAsVerified ==
  state = "idle" =>
    /\ AgpTexture(hc) => hc.addr[hc.last] \in Maps
    /\ ~parted => hc = hw

(* Two expectations that the code does not meet: hc_state is always the    *)
(* engine's state; and "all AGP texture levels reside in the same AGP map" *)
(* (chrome1_verifier.c:273), those of both units.                          *)
AlwaysInStep == state = "idle" => hc = hw
TexturesInMaps == state = "idle" => \A u \in TextureUnits : hc.inAgp[u] => hc.addr[u] \in Maps

=============================================================================
