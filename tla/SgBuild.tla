------------------------------ MODULE SgBuild -------------------------------
(***************************************************************************)
(* The chain of descriptors of one Chrome9 move (chrome_ttm.c): allocated, *)
(* built, followed by the engine, walked back and freed.  DmaMove takes    *)
(* from here that the fence is the last thing the engine copies.           *)
(*                                                                         *)
(* The descriptors are written in the order of the pages and linked        *)
(* backwards, so the engine runs from the last written to the first, the   *)
(* descriptor of the fence.  A descriptor's bus address is its place.      *)
(***************************************************************************)
EXTENDS Integers

CONSTANTS
  PageSize,      \* PAGE_SIZE, in bytes
  DescPerPage,   \* PAGE_SIZE / sizeof(struct chrome_descriptor)
  Buffers        \* the buffers moved: [pages: num_pages, hole: the index of a
                 \* page that is NULL, or num_pages]

ASSUME PageAssumption == PageSize \in Nat \ {0} /\ PageSize % 16 = 0
ASSUME DescAssumption == DescPerPage \in Nat \ {0, 1}
ASSUME BuffersAssumption ==
  \A b \in Buffers : b.pages \in Nat \ {0} /\ b.hole \in 0 .. b.pages

EndOfChain == <<-1, -1>>   \* EC
Unwritten == <<-2, -2>>    \* where the next field of no descriptor leads
Fence == -1                \* the sync word, in place of a page

(* The size in a descriptor, which the engine counts in units of 16 bytes. *)
SizeOf(mem) == IF mem = Fence THEN 1 ELSE PageSize \div 16

VARIABLES
  stage, bo,
  numDesc,     \* sg->num_desc
  descPages,   \* the pages in sg->chrome_desc
  array,       \* sg->chrome_desc is allocated
  cmdTmp,      \* sg->dma_cmd_tmp
  desc,        \* the descriptors written: place -> [mem, dev, size, next]
  ptr,         \* <<cur_desc_page, desc_num_in_page>>
  pnum, next,  \* the locals of the loop
  mappedMem,   \* page mapped for the device -> how many of its bytes still are
  mappedDesc,  \* the places of the descriptors that are mapped
  strange,     \* <<memory, bytes>> unmapped that the chain had not mapped
  walk         \* the locals of chrome_unmap_from_device

descVars == <<numDesc, descPages, array, cmdTmp, desc>>
loopVars == <<ptr, pnum, next>>
mapVars == <<mappedMem, mappedDesc, strange>>
chainVars == <<stage, bo, descVars, loopVars, mapVars, walk>>

ChainInit ==
  /\ bo \in Buffers /\ stage = "build"
  /\ numDesc = 0 /\ descPages = {} /\ array = FALSE /\ cmdTmp = FALSE /\ desc = <<>>
  /\ ptr = <<0, 0>> /\ pnum = 0 /\ next = EndOfChain
  /\ mappedMem = <<>> /\ mappedDesc = {} /\ strange = {}
  /\ walk = [left |-> 0, page |-> 0, this |-> 0, idx |-> 0, next |-> EndOfChain]

-----------------------------------------------------------------------------
(* Building *)

(* Mutant: the descriptor of the fence is not counted. *)
WithoutFence(pages) == pages

Needed(pages) == pages + 1

PagesFor(n) == (n + DescPerPage - 1) \div DescPerPage

(* chrome_alloc_desc_pages: the array, and any of its pages, may fail. *)
AllocDescs ==
  /\ stage = "build"
  /\ numDesc' = Needed(bo.pages)
  /\ \/ stage' = "no_array" /\ UNCHANGED <<array, descPages>>
     \/ \E n \in 0 .. PagesFor(numDesc') :
          /\ array' = TRUE /\ descPages' = 0 .. n - 1
          /\ stage' = IF n < PagesFor(numDesc') THEN "undo" ELSE "cmd"
  /\ UNCHANGED <<bo, cmdTmp, desc, loopVars, mapVars, walk>>

AllocCmd ==
  /\ stage = "cmd"
  /\ \/ stage' = "undo" /\ UNCHANGED cmdTmp
     \/ stage' = "fence" /\ cmdTmp' = TRUE
  /\ UNCHANGED <<bo, numDesc, descPages, array, desc, loopVars, mapVars, walk>>

Write(place, mem, dev) ==
  desc' = [p \in DOMAIN desc \cup {place} |->
             IF p = place THEN [mem |-> mem, dev |-> dev, size |-> SizeOf(mem), next |-> next]
             ELSE desc[p]]

(* Mutant: the fence is not what the next descriptor leads to. *)
FenceUnlinked ==
  /\ stage = "fence"
  /\ Write(ptr, Fence, Fence)
  /\ mappedDesc' = {ptr} /\ ptr' = <<0, 1>>
  /\ stage' = "page"
  /\ UNCHANGED <<bo, numDesc, descPages, array, cmdTmp, pnum, next, mappedMem, strange, walk>>

(* chrome_build_dma_fence_info writes the end of the chain.  The pointer   *)
(* goes on without a look at the end of the page.                          *)
FenceDescriptor ==
  /\ stage = "fence"
  /\ Write(ptr, Fence, Fence)
  /\ mappedDesc' = {ptr} /\ next' = ptr
  /\ ptr' = <<0, 1>>
  /\ stage' = "page"
  /\ UNCHANGED <<bo, numDesc, descPages, array, cmdTmp, pnum, mappedMem, strange, walk>>

(* When the last page is full this reads the entry behind the array, and *)
(* does not use it.                                                      *)
Advance(p) == IF p[2] + 1 >= DescPerPage THEN <<p[1] + 1, 0>> ELSE <<p[1], p[2] + 1>>

PageDescriptor ==
  /\ stage = "page" /\ pnum < bo.pages /\ pnum # bo.hole
  /\ Write(ptr, pnum, pnum)
  /\ mappedMem' = [m \in DOMAIN mappedMem \cup {pnum} |->
                     IF m = pnum THEN PageSize ELSE mappedMem[m]]
  /\ mappedDesc' = mappedDesc \cup {ptr} /\ next' = ptr
  /\ ptr' = Advance(ptr) /\ pnum' = pnum + 1
  /\ UNCHANGED <<stage, bo, numDesc, descPages, array, cmdTmp, strange, walk>>

(* A page that is NULL: what was mapped stays so. *)
PageMissing ==
  /\ stage = "page" /\ pnum < bo.pages /\ pnum = bo.hole
  /\ stage' = "undo"
  /\ UNCHANGED <<bo, descVars, loopVars, mapVars, walk>>

(* chain_start is `next'. *)
Built ==
  /\ stage = "page" /\ pnum = bo.pages
  /\ stage' = "built"
  /\ UNCHANGED <<bo, descVars, loopVars, mapVars, walk>>

(* out_err2 and out_err1: both free what there is. *)
Undo ==
  /\ stage = "undo"
  /\ cmdTmp' = FALSE /\ array' = FALSE /\ descPages' = {} /\ stage' = "failed"
  /\ UNCHANGED <<bo, numDesc, desc, loopVars, mapVars, walk>>

(* Without an array chrome_free_desc_pages follows a null pointer. *)
UndoWithoutArray ==
  /\ stage = "no_array"
  /\ stage' = "oops"
  /\ UNCHANGED <<bo, descVars, loopVars, mapVars, walk>>

-----------------------------------------------------------------------------
(* Freeing *)

(* Mutant: the start of chrome1_dmablit.c, one past the last descriptor. *)
StartPast(n) == n % DescPerPage

(* The index of cur_desc: -1 when the last page is full. *)
StartAt(n) == (n % DescPerPage) - 1

UnmapStart ==
  /\ stage = "built"
  /\ walk' = [left |-> numDesc, page |-> numDesc \div DescPerPage,
              this |-> numDesc % DescPerPage, idx |-> StartAt(numDesc), next |-> next]
  /\ stage' = "unmap"
  /\ UNCHANGED <<bo, descVars, loopVars, mapVars>>

DescriptorAt(p) ==
  IF p \in DOMAIN desc THEN desc[p] ELSE [mem |-> -2, dev |-> -2, size |-> 0, next |-> Unwritten]

(* The pages of which nothing was unmapped. *)
Whole == {m \in DOMAIN mappedMem : mappedMem[m] = PageSize}

(* One turn of the loop: unmap the descriptor at `next' and the memory of *)
(* the one at cur_desc, then follow it.  dma_unmap_page takes bytes, and is *)
(* given the descriptor's size.                                           *)
UnmapStep ==
  LET back == walk.this = 0
      page == IF back THEN walk.page - 1 ELSE walk.page
      idx == IF back THEN DescPerPage - 1 ELSE walk.idx
      d == DescriptorAt(<<page, idx>>)
  IN /\ stage = "unmap" /\ walk.left > 0
     /\ mappedDesc' = mappedDesc \ {walk.next}
     /\ mappedMem' = [m \in DOMAIN mappedMem |->
                        IF m = d.mem THEN PageSize - d.size ELSE mappedMem[m]]
     /\ strange' = strange \cup (IF d.mem \in Whole THEN {} ELSE {<<d.mem, d.size>>})
     /\ walk' = [left |-> walk.left - 1, page |-> page,
                 this |-> IF back THEN DescPerPage - 1 ELSE walk.this - 1,
                 idx |-> idx - 1, next |-> d.next]
     /\ UNCHANGED <<stage, bo, descVars, loopVars>>

(* chrome_free_desc_pages and the kfree behind it *)
FreeAll ==
  /\ stage = "unmap" /\ walk.left = 0
  /\ descPages' = {} /\ array' = FALSE /\ cmdTmp' = FALSE
  /\ stage' = "freed"
  /\ UNCHANGED <<bo, numDesc, desc, loopVars, mapVars, walk>>

ChainNext ==
  \/ AllocDescs \/ AllocCmd \/ FenceDescriptor \/ PageDescriptor \/ PageMissing \/ Built
  \/ Undo \/ UndoWithoutArray
  \/ UnmapStart \/ UnmapStep \/ FreeAll

ChainSpec == ChainInit /\ [][ChainNext]_chainVars

-----------------------------------------------------------------------------
(* Properties *)

(* Every descriptor is written into a page that is allocated, also when  *)
(* they fill the pages exactly and the pointer has run behind the array. *)
DescriptorsInPages == DOMAIN desc # {} /\ stage \in {"fence", "page", "built", "unmap"} =>
  DOMAIN desc \subseteq descPages \X (0 .. DescPerPage - 1)

(* The descriptor the engine reads n-th. *)
Followed[n \in Nat] == IF n = 0 THEN next ELSE DescriptorAt(Followed[n - 1]).next

(* chrome_build_dma_fence_info, "Add it to the last chain": the engine that *)
(* starts at chain_start copies every page to its place once, then the      *)
(* fence, and then finds the end.                                           *)
FenceComesLast ==
  stage = "built" =>
    /\ \A n \in 0 .. bo.pages - 1 :
         DescriptorAt(Followed[n]).mem = bo.pages - 1 - n
         /\ DescriptorAt(Followed[n]).dev = bo.pages - 1 - n
    /\ DescriptorAt(Followed[bo.pages]).mem = Fence
    /\ Followed[bo.pages + 1] = EndOfChain

(* The walk back finds every descriptor and every page once, in as many    *)
(* turns as there are descriptors, wherever the chain ends in its page, and *)
(* unmaps of each what the descriptor's size says: a sixteenth of a page,  *)
(* and one byte of the sync word, which is the sg_manager's.  Nothing is   *)
(* left allocated, also after an error; what was mapped before a missing   *)
(* page is left mapped.                                                    *)
WalkMeetsAll ==
  stage \in {"freed", "failed"} =>
    /\ descPages = {} /\ ~array /\ ~cmdTmp
    /\ stage = "freed" =>
         /\ mappedDesc = {} /\ strange = {<<Fence, 1>>}
         /\ mappedMem = [m \in 0 .. bo.pages - 1 |-> PageSize - PageSize \div 16]

(* An expectation, which the code does not meet: what dma_map_page mapped, *)
(* chrome_unmap_from_device unmaps.                                        *)
NothingStaysMapped == stage = "freed" => \A m \in DOMAIN mappedMem : mappedMem[m] = 0

=============================================================================
