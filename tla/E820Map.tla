------------------------------ MODULE E820Map ------------------------------
(***************************************************************************)
(* The memory map of mini-bootloader/src/boot_memory.c: regions as the BIOS *)
(* reports them, in any order and overlapping, sorted, merged and sanitised *)
(* at any time.  Addresses are small numbers; a region that overflows the   *)
(* address space is refused and not enumerated.                             *)
(***************************************************************************)
EXTENDS Integers, Sequences, SequencesExt, FiniteSetsExt, TLC

CONSTANTS
  Regions,      \* the regions that may be reported: [base, length, type]
  MaxRegions    \* MEMMAP_MAX_ENTRIES (128)

ASSUME E820Assumption == MaxRegions \in Nat

VARIABLES
  regions,      \* regions[0 .. count - 1]
  stats,        \* total_memory, free_memory, reserved_memory, largest_free_block
  declared,     \* history: <<address, type>> of every region reported
  sanitized,    \* history: sanitised since the last report
  merged        \* history: merged after that

emvars == <<regions, stats, declared, sanitized, merged>>

EndOf(r) == r.base + r.length
AddressesOf(r) == r.base .. EndOf(r) - 1
TypedAddresses(r) == AddressesOf(r) \X {r.type}

NoStats == [total |-> 0, free |-> 0, reserved |-> 0, largest |-> 0]

\* bootmem_init.
E820Init ==
  /\ regions = << >>
  /\ stats = NoStats
  /\ declared = {}
  /\ sanitized = FALSE
  /\ merged = FALSE

\* bootmem_add_region, and its callers bootmem_add_e820_entry and
\* bootmem_reserve_region.
AddRegion(r) ==
  /\ Len(regions) < MaxRegions
  /\ regions' = Append(regions, r)
  /\ declared' = declared \cup TypedAddresses(r)
  /\ sanitized' = FALSE
  /\ merged' = FALSE
  /\ UNCHANGED stats

\* What bootmem_sort may leave: qsort orders equal bases as it likes.
SortedByBase(map) ==
  {s \in {[i \in DOMAIN map |-> map[p[i]]] : p \in Permutations(DOMAIN map)} :
     \A i \in 1 .. Len(s) - 1 : s[i].base <= s[i + 1].base}

\* bootmem_sort.
SortRegions ==
  /\ regions' \in SortedByBase(regions)
  /\ UNCHANGED <<stats, declared, sanitized, merged>>

\* One step of the merge: the next region extends the last one or follows it.
MergeNext(out, next) ==
  IF Last(out).type = next.type /\ EndOf(Last(out)) = next.base
  THEN Front(out) \o <<[Last(out) EXCEPT !.length = @ + next.length]>>
  ELSE Append(out, next)

\* bootmem_merge_adjacent.
MergeAdjacent ==
  /\ Len(regions) > 1
  /\ \E map \in SortedByBase(regions) : regions' = FoldLeft(MergeNext, <<Head(map)>>, Tail(map))
  /\ merged' = sanitized
  /\ UNCHANGED <<stats, declared, sanitized>>

\* Mutant: what is covered is taken off at the end, not at the base.
SanitizeNextKeepsBase(out, cur) ==
  IF cur.length = 0 THEN out
  ELSE IF out = << >> \/ cur.base >= EndOf(Last(out)) THEN Append(out, cur)
  ELSE IF EndOf(cur) > EndOf(Last(out))
  THEN Append(out, [cur EXCEPT !.length = EndOf(cur) - EndOf(Last(out))])
  ELSE out

\* One step of the clean-up: empty regions go, and a region loses what the
\* regions before it cover.
SanitizeNext(out, cur) ==
  IF cur.length = 0 THEN out
  ELSE IF out = << >> \/ cur.base >= EndOf(Last(out)) THEN Append(out, cur)
  ELSE IF EndOf(cur) > EndOf(Last(out))
  THEN Append(out, [cur EXCEPT !.base = EndOf(Last(out)),
                               !.length = EndOf(cur) - EndOf(Last(out))])
  ELSE out

Lengths(map) == MapThenSumSet(LAMBDA i : map[i].length, DOMAIN map)
FreeRegions(map) == SelectSeq(map, LAMBDA r : r.type = "FREE")

\* bootmem_find_largest_block.
LargestBlock(map) ==
  LET free == FreeRegions(map) IN Max({0} \cup {free[i].length : i \in DOMAIN free})

\* The statistics bootmem_sanitize computes.
StatsOf(map) ==
  [total    |-> Lengths(map),
   free     |-> Lengths(FreeRegions(map)),
   reserved |-> Lengths(SelectSeq(map, LAMBDA r : r.type # "FREE")),
   largest  |-> LargestBlock(map)]

\* bootmem_sanitize.
Sanitize ==
  /\ regions # << >>
  /\ \E map \in SortedByBase(regions) : regions' = FoldLeft(SanitizeNext, << >>, map)
  /\ stats' = StatsOf(regions')
  /\ sanitized' = TRUE
  /\ UNCHANGED <<declared, merged>>

\* Mutant: the range may start before the region.
IsAvailableByEnd(addr, size) ==
  \E i \in DOMAIN regions :
    /\ regions[i].type = "FREE"
    /\ addr \in AddressesOf(regions[i])
    /\ EndOf(regions[i]) >= addr + size - 1

\* bootmem_is_available.
IsAvailable(addr, size) ==
  \E i \in DOMAIN regions :
    /\ regions[i].type = "FREE"
    /\ regions[i].base <= addr
    /\ EndOf(regions[i]) >= addr + size

E820Next ==
  \/ \E r \in Regions : AddRegion(r)
  \/ SortRegions
  \/ MergeAdjacent
  \/ Sanitize

E820Spec == E820Init /\ [][E820Next]_emvars

-----------------------------------------------------------------------------
(* Properties.                                                             *)

E820TypeOK ==
  /\ Len(regions) <= MaxRegions
  /\ \A i \in DOMAIN regions : {regions[i].base, regions[i].length} \subseteq Nat
  /\ DOMAIN stats = DOMAIN NoStats
  /\ merged => sanitized

MapAddresses == UNION {TypedAddresses(regions[i]) : i \in DOMAIN regions}

\* Sorting, merging and sanitising, in any order and again after more regions
\* are reported, lose no address and give none a type nobody reported.  Once
\* sanitised, and whether merged or not, regions are sorted, not empty and
\* disjoint, and the statistics add up to the memory described; only the
\* largest free block may have grown by merging.
SanitizedMapDescribes ==
  /\ MapAddresses \subseteq declared
  /\ {p[1] : p \in MapAddresses} = {p[1] : p \in declared}
  /\ sanitized =>
       /\ \A i \in DOMAIN regions : regions[i].length > 0
       /\ \A i \in 1 .. Len(regions) - 1 : EndOf(regions[i]) <= regions[i + 1].base
       /\ [StatsOf(regions) EXCEPT !.largest = 0] = [stats EXCEPT !.largest = 0]
       /\ stats.largest <= LargestBlock(regions)

\* On a map that was sanitised and then merged a range is available exactly
\* when all of it is free memory, also when several reports described it.
AvailabilityIsExact ==
  sanitized /\ merged =>
    \A addr \in {p[1] : p \in declared}, size \in 1 .. stats.total :
      IsAvailable(addr, size) <=>
        \A a \in addr .. addr + size - 1 : <<a, "FREE">> \in MapAddresses
=============================================================================
