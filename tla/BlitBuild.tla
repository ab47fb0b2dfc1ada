----------------------------- MODULE BlitBuild ------------------------------
(***************************************************************************)
(* The life of one blit's memory (chrome1_dmablit.c): the checks of a      *)
(* request, locking the user's pages, counting and allocating descriptors, *)
(* mapping them for the device as a chain that runs backwards, and giving  *)
(* everything back, after a failure at any of these steps or after the     *)
(* blit.  Addresses are byte addresses with a small PAGE_SIZE.  The fields *)
(* of a request are of 32 bits and the code's sums and products of them    *)
(* wrap; only the user's memory address is a pointer, which does not.      *)
(***************************************************************************)
EXTENDS Integers, Sequences, FiniteSets

CONSTANTS
  U32,                      \* how many values a u32 has (2^32)
  PAGE_SIZE, DescPerPage,   \* bytes of a page; descriptors that fit in one
  MemAlign, FbAlign,        \* alignment asked of the two addresses (16, 4)
  MaxLines, MaxBytes,       \* limits of a transfer (2048, 2048*2048*4)
  Requests                  \* the requests users make: drm_chrome_dmablit_t

ASSUME SizesAssumption ==
  /\ U32 \in Nat \ {0} /\ PAGE_SIZE \in Nat \ {0} /\ DescPerPage \in Nat \ {0}
  /\ MemAlign \in Nat \ {0} /\ FbAlign \in Nat \ {0}
  /\ MaxLines \in Nat /\ MaxBytes \in Nat

ASSUME RequestsAssumption ==
  Requests \subseteq [mem_addr : Nat, mem_stride : 0 .. U32 - 1,
                      fb_addr : 0 .. U32 - 1, fb_stride : 0 .. U32 - 1,
                      num_lines : 0 .. U32 - 1, line_length : 0 .. U32 - 1]

VARIABLES
  stage,         \* the step of chrome_dmablit or of chrome_free_sg_info
  request,       \* the request as the user made it (history)
  xfer,          \* drm_chrome_dmablit_t: the request, which the checks rewrite
  \* drm_chrome_sg_info_t
  state, num_pages, num_desc, chain_start,
  page_array,    \* whether vsg->pages is allocated
  locked,        \* the entries of vsg->pages that hold a locked page
  desc_array, desc_pages,   \* the array, and the descriptor pages in it
  desc_at,       \* position in the descriptor pages -> descriptor written
  \* mappings for the device: of the pieces' memory, and of the descriptors
  mapped_mem, mapped_desc, bad_unmap,
  walk           \* the locals of chrome_unmap_blit_from_device

vsgVars == <<state, num_pages, num_desc, chain_start, page_array, locked,
             desc_array, desc_pages, desc_at>>
mapVars == <<mapped_mem, mapped_desc, bad_unmap>>
buildVars == <<stage, request, xfer, vsgVars, mapVars, walk>>

PFN(a) == a \div PAGE_SIZE
PGOFF(a) == a % PAGE_SIZE
Smaller(a, b) == IF a < b THEN a ELSE b

(* abs takes a u32 for an int; the smallest int has no positive opposite.  *)
Signed(a) == IF 2 * a < U32 THEN a ELSE a - U32
Magnitude(a) == IF Signed(a) < 0 THEN Signed((-Signed(a)) % U32) ELSE a

EndOfChain == -1       \* VIA_DMA_DPR_EC as a descriptor's next
Junk == -2             \* what a descriptor never written holds

(***************************************************************************)
(* The loops of chrome_map_blit_for_device.  A piece is the part of a line *)
(* that lies in one page; there is one descriptor per piece.               *)
(***************************************************************************)
PieceWithoutOffset(len, mem) == Smaller(PAGE_SIZE, len)
PieceLength(len, mem) == Smaller(PAGE_SIZE - PGOFF(mem), len)

LinePieces(x, line) ==
  LET mem == x.mem_addr + line * x.mem_stride
      fb  == x.fb_addr + line * x.fb_stride
      from[done \in 0 .. x.line_length] ==
        IF done = x.line_length THEN <<>>
        ELSE LET len == PieceLength(x.line_length - done, mem + done)
             IN  <<[page |-> PFN(mem + done) - PFN(x.mem_addr),
                    off |-> PGOFF(mem + done), len |-> len,
                    fb |-> (fb + done) % U32]>>
                 \o from[done + len]
  IN  from[0]

Pieces(x) ==
  LET upTo[n \in 0 .. x.num_lines] ==
        IF n = 0 THEN <<>> ELSE upTo[n - 1] \o LinePieces(x, n - 1)
  IN  upTo[x.num_lines]

(* Where mode 1 writes the i-th descriptor, counting from 0. *)
Position(i) == <<i \div DescPerPage, i % DescPerPage>>

PagesNeeded(n) == (n + DescPerPage - 1) \div DescPerPage

BuildInit ==
  /\ request \in Requests /\ xfer = request
  /\ stage = "check" /\ state = "sg_init"
  /\ num_pages = 0 /\ num_desc = 0 /\ chain_start = EndOfChain
  /\ page_array = FALSE /\ locked = {} /\ desc_array = FALSE /\ desc_pages = {}
  /\ desc_at = <<>>
  /\ mapped_mem = {} /\ mapped_desc = {} /\ bad_unmap = FALSE
  /\ walk = [left |-> 0, page |-> 0, this |-> 0, idx |-> 0, next |-> EndOfChain]
-----------------------------------------------------------------------------
(***************************************************************************)
(* chrome_build_sg_info.                                                   *)
(***************************************************************************)

(* Contiguous lines are transferred as one.  Their length is a product of  *)
(* 32 bits, like the one compared with the limit and the one that counts   *)
(* the pages: for a request that is too large for it, it is the wrong one. *)
MergeLines(x) ==
  IF x.mem_stride = x.line_length /\ x.fb_stride = x.line_length
  THEN LET bytes == (x.mem_stride * x.num_lines) % U32
       IN  [x EXCEPT !.mem_stride = bytes, !.line_length = bytes,
                     !.fb_stride = bytes, !.num_lines = 1]
  ELSE x

Allowed(x) ==
  /\ x.num_lines > 0 /\ x.line_length > 0
  /\ (x.mem_stride - x.line_length) % U32 <= 2 * PAGE_SIZE
  /\ LET m == MergeLines(x)
     IN  /\ m.num_lines <= MaxLines /\ (m.num_lines * m.mem_stride) % U32 <= MaxBytes
         /\ m.mem_stride >= m.line_length
         /\ Magnitude(m.fb_stride) >= m.line_length
         /\ m.mem_addr % MemAlign = 0 /\ m.fb_addr % FbAlign = 0
         /\ m.num_lines > 1 =>
              m.mem_stride % MemAlign = 0 /\ m.fb_stride % FbAlign = 0

(* A request that is refused owns nothing yet. *)
Check ==
  /\ stage = "check"
  /\ \/ ~Allowed(xfer) /\ stage' = "refused" /\ UNCHANGED xfer
     \/ Allowed(xfer) /\ stage' = "lock" /\ xfer' = MergeLines(xfer)
  /\ UNCHANGED <<request, vsgVars, mapVars, walk>>

LinesOnly(x) == PFN(x.mem_addr + (x.num_lines - 1) * x.mem_stride) - PFN(x.mem_addr) + 1

(* The pages that hold every line with its stride. *)
PagesOf(x) ==
  LET last == (x.num_lines * x.mem_stride - 1) % U32
  IN  PFN(x.mem_addr + last) - PFN(x.mem_addr) + 1

(* chrome_lock_all_dma_pages: the array cannot be had, get_user_pages      *)
(* fails and returns an error, or it locks the first few pages or all.     *)
LockPages ==
  /\ stage = "lock"
  /\ num_pages' = PagesOf(xfer)
  /\ \/ stage' = "free" /\ UNCHANGED <<state, page_array, locked>>
     \/ stage' = "free" /\ page_array' = TRUE /\ UNCHANGED <<state, locked>>
     \/ \E n \in 0 .. PagesOf(xfer) :
          /\ page_array' = TRUE
          /\ locked' = 0 .. n - 1
          /\ state' = "pages_locked"
          /\ stage' = IF n < PagesOf(xfer) THEN "free" ELSE "alloc"
  /\ UNCHANGED <<num_desc, chain_start, desc_array, desc_pages, desc_at,
                 request, xfer, mapVars, walk>>

(* chrome_map_blit_for_device in mode 0, then chrome_alloc_desc_pages,     *)
(* which may fail at the array or at any of the pages.                     *)
AllocDescs ==
  /\ stage = "alloc"
  /\ num_desc' = Len(Pieces(xfer))
  /\ \/ stage' = "free" /\ UNCHANGED <<state, desc_array, desc_pages>>
     \/ \E n \in 0 .. PagesNeeded(num_desc') :
          /\ desc_array' = TRUE
          /\ desc_pages' = 0 .. n - 1
          /\ state' = "desc_pages_alloc"
          /\ stage' = IF n < PagesNeeded(num_desc') THEN "free" ELSE "map"
  /\ UNCHANGED <<num_pages, chain_start, page_array, locked, desc_at,
                 request, xfer, mapVars, walk>>

(* chrome_map_blit_for_device in mode 1: descriptor i points to i - 1.     *)
(* Without any descriptor (a length that wrapped to 0) it stops the kernel *)
(* at desc_pages[0]; a page read beyond the end of vsg->pages may too.     *)
MapDevice ==
  /\ stage = "map" /\ num_desc > 0
  /\ LET ids == 0 .. num_desc - 1
     IN  /\ desc_at' = [p \in {Position(i) : i \in ids} |->
                          CHOOSE i \in ids : Position(i) = p]
         /\ mapped_mem' = ids /\ mapped_desc' = ids
  /\ chain_start' = num_desc - 1
  /\ state' = "device_mapped"
  /\ stage' = "built"
  /\ UNCHANGED <<num_pages, num_desc, page_array, locked, desc_array,
                 desc_pages, request, xfer, bad_unmap, walk>>

(* The blit is over; the work-queue task frees it. *)
BlitOver ==
  /\ stage = "built"
  /\ stage' = "free"
  /\ UNCHANGED <<request, xfer, vsgVars, mapVars, walk>>
-----------------------------------------------------------------------------
(***************************************************************************)
(* chrome_free_sg_info, and chrome_unmap_blit_from_device in it.           *)
(***************************************************************************)

(* The descriptor the walk starts at, and how many come before it. *)
FirstIdx == num_desc % DescPerPage

UnmapStart ==
  /\ stage = "free" /\ state = "device_mapped"
  /\ walk' = [left |-> num_desc, page |-> num_desc \div DescPerPage,
              this |-> num_desc % DescPerPage, idx |-> FirstIdx,
              next |-> chain_start]
  /\ stage' = "unmap"
  /\ UNCHANGED <<request, xfer, vsgVars, mapVars>>

DescriptorAt(p) == IF p \in DOMAIN desc_at THEN desc_at[p] ELSE Junk

(* One turn of the loop: unmap the descriptor at "next", and the memory    *)
(* that the descriptor under desc_ptr names, and follow its next.          *)
LastOfPage == DescPerPage - 1

UnmapStep ==
  /\ stage = "unmap" /\ walk.left > 0
  /\ LET back == walk.this = 0
         page == IF back THEN walk.page - 1 ELSE walk.page
         idx  == IF back THEN LastOfPage ELSE walk.idx
         desc == DescriptorAt(<<page, idx>>)
     IN  /\ mapped_desc' = mapped_desc \ {walk.next}
         /\ mapped_mem' = mapped_mem \ {desc}
         /\ bad_unmap' = (\/ bad_unmap
                          \/ walk.next \notin mapped_desc \/ desc \notin mapped_mem)
         /\ walk' = [left |-> walk.left - 1, page |-> page,
                     this |-> (IF back THEN DescPerPage ELSE walk.this) - 1,
                     idx |-> idx - 1,
                     next |-> IF desc = Junk THEN Junk ELSE desc - 1]
  /\ UNCHANGED <<stage, request, xfer, vsgVars>>

UnmapEnd ==
  /\ stage = "unmap" /\ walk.left = 0
  /\ stage' = "rest"
  /\ UNCHANGED <<request, xfer, vsgVars, mapVars, walk>>

(* The rest of the switch: each case falls through to the next ones. *)
FreeWithBreak ==
  CASE state \in {"device_mapped", "desc_pages_alloc"} -> {"desc"}
    [] state = "pages_locked" -> {"locked", "array"}
    [] OTHER -> {}

FreeFrom ==
  CASE state \in {"device_mapped", "desc_pages_alloc"} -> {"desc", "locked", "array"}
    [] state = "pages_locked" -> {"locked", "array"}
    [] state = "pages_alloc" -> {"array"}
    [] OTHER -> {}

FreeRest ==
  /\ stage = "rest" \/ (stage = "free" /\ state /= "device_mapped")
  /\ LET parts == FreeFrom
     IN  /\ desc_pages' = IF "desc" \in parts THEN {} ELSE desc_pages
         /\ desc_array' = (desc_array /\ "desc" \notin parts)
         /\ locked' = IF "locked" \in parts THEN {} ELSE locked
         /\ page_array' = (page_array /\ "array" \notin parts)
  /\ state' = "sg_init"
  /\ stage' = "freed"
  /\ UNCHANGED <<num_pages, num_desc, chain_start, desc_at, request, xfer,
                 mapVars, walk>>

BuildNext ==
  \/ Check \/ LockPages \/ AllocDescs \/ MapDevice \/ BlitOver
  \/ UnmapStart \/ UnmapStep \/ UnmapEnd \/ FreeRest

BuildSpec == BuildInit /\ [][BuildNext]_buildVars
-----------------------------------------------------------------------------
(***************************************************************************)
(* Properties.                                                             *)
(***************************************************************************)

(* The types of the fields. *)
BuildTypeOK ==
  /\ stage \in {"check", "refused", "lock", "alloc", "map", "built", "free",
             "unmap", "rest", "freed"}
  /\ state \in {"device_mapped", "desc_pages_alloc", "pages_locked",
                "pages_alloc", "sg_init"}
  /\ num_pages \in Nat /\ num_desc \in Nat /\ chain_start \in Nat \union {EndOfChain}
  /\ locked \subseteq 0 .. num_pages - 1 /\ desc_pages \subseteq Nat
  /\ page_array \in BOOLEAN /\ desc_array \in BOOLEAN /\ bad_unmap \in BOOLEAN
  /\ mapped_mem \subseteq Nat /\ mapped_desc \subseteq Nat

Mapping == stage \in {"map", "built"}

(* The lines and their strides can be counted in 32 bits, which no check   *)
(* asks for: the product that is compared with the limit has wrapped.      *)
Fits(r) == r.num_lines * r.mem_stride < U32

(* Every piece of a transfer that fits lies in a page that was locked: the *)
(* page count, taken from the strides, covers what the nested loops visit. *)
(* And every descriptor lies in a page that was allocated: the map loop    *)
(* leaves a page when it is full without asking whether there is another.  *)
PiecesInLockedPages ==
  /\ Mapping /\ Fits(request) =>
       \A i \in DOMAIN Pieces(xfer) : Pieces(xfer)[i].page \in locked
  /\ stage \in {"built", "unmap"} =>
       DOMAIN desc_at \subseteq desc_pages \X (0 .. DescPerPage - 1)

(* The descriptors move each byte of each line that the user asked for to  *)
(* its place in the frame buffer and nothing else, though the lines may    *)
(* have been merged, and none of them runs over the end of a page; for a   *)
(* transfer that fits.                                                     *)
DescriptorsMatchTransfer ==
  Mapping /\ Fits(request) =>
    LET ps == Pieces(xfer)
        moved == UNION {{<<(PFN(xfer.mem_addr) + ps[i].page) * PAGE_SIZE + ps[i].off + b,
                           (ps[i].fb + b) % U32>>
                          : b \in 0 .. ps[i].len - 1} : i \in DOMAIN ps}
    IN  /\ \A i \in DOMAIN ps : ps[i].len > 0 /\ ps[i].off + ps[i].len <= PAGE_SIZE
        /\ moved = {<<request.mem_addr + l * request.mem_stride + b,
                      (request.fb_addr + l * request.fb_stride + b) % U32>>
                     : l \in 0 .. request.num_lines - 1,
                       b \in 0 .. request.line_length - 1}

(* "lock all pages into system memory" (chrome1_dmablit.c:224): all pages  *)
(* of the transfer are locked before it is mapped.  It does not hold for a *)
(* request that does not fit: few pages are locked, all lines are walked.  *)
AllPagesLocked ==
  Mapping => \A i \in DOMAIN Pieces(xfer) : Pieces(xfer)[i].page \in locked

(* Wherever the build failed, no locked page and no descriptor page is     *)
(* left behind, and the page array is freed after the pages in it.         *)
NoPageLeft ==
  /\ stage = "freed" => locked = {} /\ desc_pages = {} /\ ~desc_array
  /\ locked /= {} => page_array

(* "Function that frees up all resources for a blit" (chrome1_dmablit.c:    *)
(* 163): every mapping made for the device is undone, and nothing else.    *)
(* It does not hold: the walk starts one descriptor too far (line 67).     *)
UnmapExact ==
  stage \in {"rest", "freed"} => mapped_mem = {} /\ mapped_desc = {} /\ ~bad_unmap
=============================================================================
