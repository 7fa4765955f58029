--------------------------- MODULE PageAllocator ---------------------------
(***************************************************************************)
(* The first-fit page allocator of mini-bootloader/src/boot_memory.c: a     *)
(* bitmap of pages, a separate count of free pages, and callers that hold   *)
(* addresses.                                                              *)
(*                                                                         *)
(* Addresses are page numbers.  A caller frees what it was given, once and  *)
(* as a whole, and asks for an aligned block no larger than the heap:       *)
(* bootmem_free_pages and bootmem_alloc_aligned check neither.  Setting up a *)
(* heap anew gives up the old one.                                          *)
(***************************************************************************)
EXTENDS Integers, FiniteSets

CONSTANTS
  HeapBases,      \* first pages of heaps
  HeapSizes,      \* sizes of heaps, in pages
  Alignments,     \* alignments asked for, in pages
  MinPages,       \* BOOTMEM_MIN_PAGES (64)
  MaxPages        \* BOOTMEM_MAX_PAGES (65536)

ASSUME PageAllocatorAssumption ==
  /\ HeapBases \subseteq Nat
  /\ HeapSizes \subseteq Nat
  /\ Alignments \subseteq Nat \ {0}
  /\ MinPages \in Nat \ {0}
  /\ MaxPages \in Nat \ {0}

VARIABLES
  heap_base,
  total_pages,    \* 0: no heap yet, page_bitmap = NULL
  page_bitmap,    \* the pages marked as allocated
  free_pages,
  blocks          \* history: what callers were given and have not freed

pavars == <<heap_base, total_pages, page_bitmap, free_pages, blocks>>

NoFit == -1
Blocks == [first : Nat, pages : Nat]
PagesOf(b) == b.first .. b.first + b.pages - 1

\* bootmem_init.
PageInit ==
  /\ heap_base = 0
  /\ total_pages = 0
  /\ page_bitmap = {}
  /\ free_pages = 0
  /\ blocks = {}

\* bootmem_init_allocator.
InitAllocator(base, size) ==
  /\ size >= MinPages
  /\ heap_base' = base
  /\ total_pages' = IF size > MaxPages THEN MaxPages ELSE size
  /\ page_bitmap' = {}
  /\ free_pages' = total_pages'
  /\ blocks' = {}

\* Places where n pages in a row are free, at an alignment.
Fits(n, align) ==
  {i \in 0 .. total_pages - n :
     /\ (heap_base + i) % align = 0
     /\ (i .. i + n - 1) \cap page_bitmap = {}}

Lowest(S) == CHOOSE i \in S : \A j \in S : i <= j

\* Mutant: the skip takes the last page in use for the first.
FirstFitSkipsAhead(n) ==
  LET scan[i \in 0 .. total_pages + 1] ==
        LET used == (i .. i + n - 1) \cap page_bitmap
        IN  IF i > total_pages - n THEN NoFit
            ELSE IF used = {} THEN i ELSE scan[i + n]
  IN  IF n > free_pages THEN NoFit ELSE scan[0]

\* The scan of bootmem_alloc_pages: it stops at the first n free pages and, at
\* a page in use, goes on behind that page.
FirstFit(n) ==
  LET scan[i \in 0 .. total_pages + 1] ==
        LET used == (i .. i + n - 1) \cap page_bitmap
        IN  IF i > total_pages - n THEN NoFit
            ELSE IF used = {} THEN i ELSE scan[Lowest(used) + 1]
  IN  IF n > free_pages THEN NoFit ELSE scan[0]

\* Callers learn the address of a block; 0 tells them that there is none.
Given(first, n) ==
  IF heap_base + first = 0 THEN {} ELSE {[first |-> first, pages |-> n]}

\* bootmem_alloc_pages.
AllocPages(n) ==
  /\ n <= free_pages
  /\ Fits(n, 1) # {}
  /\ LET first == Lowest(Fits(n, 1))
     IN  /\ page_bitmap' = page_bitmap \cup (first .. first + n - 1)
         /\ blocks' = blocks \cup Given(first, n)
  /\ free_pages' = free_pages - n
  /\ UNCHANGED <<heap_base, total_pages>>

\* Mutant: the last page is not marked.
AllocAlignedOneShort(n, align) ==
  /\ Fits(n, align) # {}
  /\ LET first == Lowest(Fits(n, align))
     IN  /\ page_bitmap' = page_bitmap \cup (first .. first + n - 2)
         /\ blocks' = blocks \cup Given(first, n)
  /\ free_pages' = free_pages - n
  /\ UNCHANGED <<heap_base, total_pages>>

\* bootmem_alloc_aligned.
AllocAligned(n, align) ==
  /\ Fits(n, align) # {}
  /\ LET first == Lowest(Fits(n, align))
     IN  /\ page_bitmap' = page_bitmap \cup (first .. first + n - 1)
         /\ blocks' = blocks \cup Given(first, n)
  /\ free_pages' = free_pages - n
  /\ UNCHANGED <<heap_base, total_pages>>

\* bootmem_free_pages.
FreePages(b) ==
  /\ b.first + b.pages <= total_pages
  /\ page_bitmap' = page_bitmap \ PagesOf(b)
  /\ free_pages' = free_pages + b.pages
  /\ blocks' = blocks \ {b}
  /\ UNCHANGED <<heap_base, total_pages>>

PageNext ==
  \/ \E base \in HeapBases, size \in HeapSizes : InitAllocator(base, size)
  \/ \E n \in 1 .. total_pages :
       AllocPages(n) \/ \E align \in Alignments : AllocAligned(n, align)
  \/ \E b \in blocks : FreePages(b)

PageSpec == PageInit /\ [][PageNext]_pavars

-----------------------------------------------------------------------------
(* Properties.                                                             *)

PageTypeOK ==
  /\ heap_base \in Nat
  /\ total_pages \in Nat
  /\ page_bitmap \subseteq 0 .. total_pages - 1
  /\ free_pages \in Nat
  /\ blocks \subseteq Blocks
  /\ \A b \in blocks : b.pages > 0

\* Whatever is allocated, aligned or not, and freed in between, no page is
\* given to two callers, what a caller holds is marked, and the count of free
\* pages, kept apart from the bitmap and trusted by bootmem_alloc_pages, is
\* the number of clear bits.  Only a heap at address 0 has pages that are
\* marked and belong to nobody: its first block has the address that means
\* failure.
PagesHaveOneOwner ==
  /\ free_pages = total_pages - Cardinality(page_bitmap)
  /\ \A b, c \in blocks : b # c => PagesOf(b) \cap PagesOf(c) = {}
  /\ \A b \in blocks : PagesOf(b) \subseteq page_bitmap
  /\ heap_base > 0 => page_bitmap \subseteq UNION {PagesOf(b) : b \in blocks}

\* The scan with its skip ahead is first fit: it finds the lowest place for n
\* pages, and fails only if there is none, in every state of the heap.
FirstFitIsLowest ==
  \A n \in 1 .. total_pages :
    FirstFit(n) = IF Fits(n, 1) = {} THEN NoFit ELSE Lowest(Fits(n, 1))
=============================================================================
