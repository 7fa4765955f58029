----------------------------- MODULE CacheAsRam -----------------------------
(***************************************************************************)
(* Cache as RAM (mini-boot-process/src/cache_as_ram.c).  Each user has a    *)
(* CARState of its own, but the cache lines and the switch g_car_global are *)
(* variables of the file: all users share them.                            *)
(*                                                                         *)
(* A line is a value as a whole.  The dirty bits, the mode and the hit      *)
(* counts are written and never read, and are left out.                    *)
(***************************************************************************)
EXTENDS Integers

CONSTANTS
  Cars,         \* users with a CARState
  NumLines,     \* CAR_NUM_LINES (4096)
  Offsets,      \* line offsets, some beyond the cache
  CarData,      \* what users write
  Pattern,      \* 0xDEADBEEFCAFEBABE
  Blank         \* a line that is not valid

ASSUME CarAssumption ==
  /\ NumLines \in Nat \ {0}
  /\ Offsets \subseteq Nat

VARIABLES
  enabled,        \* car->enabled; FALSE before car_init
  lines,          \* g_car_memory where g_car_valid
  g_car_global,
  undisturbed,    \* history: the user since whose car_init nobody else used a car, if any
  expect,         \* history: what that user wrote since it enabled its car
  dram            \* history: the buffer it gave to car_teardown

carvars == <<enabled, lines, g_car_global, undisturbed, expect, dram>>

Lines == 0 .. NumLines - 1
NoLines == [l \in Lines |-> Blank]

CarInitState ==
  /\ enabled = [c \in Cars |-> FALSE]
  /\ lines = NoLines
  /\ g_car_global = FALSE
  /\ undisturbed = {}
  /\ expect = NoLines
  /\ dram = NoLines

\* History: a call by these users, after which they expect this of their
\* lines and have this in DRAM, if nobody disturbed them.
CallBy(users, expected, in_dram) ==
  /\ undisturbed' = undisturbed \cap users
  /\ expect' = IF undisturbed' = {} THEN NoLines ELSE expected
  /\ dram' = IF undisturbed' = {} THEN NoLines ELSE in_dram

\* car_get_line: offsets beyond the cache share the lines within.
GetLine(offset) == offset % NumLines

\* car_init.
CarInit(c) ==
  /\ enabled' = [enabled EXCEPT ![c] = FALSE]
  /\ lines' = NoLines
  /\ undisturbed' = {c}
  /\ expect' = NoLines
  /\ dram' = NoLines
  /\ UNCHANGED g_car_global

\* car_enable, with the test pattern it leaves at offset 0; on an enabled car
\* it does nothing.
CarEnable(c) ==
  /\ ~enabled[c]
  /\ enabled' = [enabled EXCEPT ![c] = TRUE]
  /\ g_car_global' = TRUE
  /\ lines' = [lines EXCEPT ![0] = Pattern]
  /\ CallBy({c}, [NoLines EXCEPT ![0] = Pattern], dram)

\* car_write, and car_write_block line by line.
CarWrite(c, offset, data) ==
  /\ enabled[c] /\ g_car_global
  /\ lines' = [lines EXCEPT ![GetLine(offset)] = data]
  /\ CallBy({c}, [expect EXCEPT ![GetLine(offset)] = data], dram)
  /\ UNCHANGED <<enabled, g_car_global>>

\* car_read, and car_read_block byte by byte: lines that are not valid read
\* as zero, as does a car that is off.
CarRead(c, offset) ==
  IF enabled[c] /\ g_car_global THEN lines[GetLine(offset)] ELSE Blank

\* Mutant: the lines are invalidated before they are copied.
FlushedLate(target) == target

\* What car_teardown makes of the target: only valid lines are copied.
Flushed(target) == [l \in Lines |-> IF lines[l] = Blank THEN target[l] ELSE lines[l]]

\* car_teardown to a blank buffer; on a car that is off it does nothing.
CarTeardown(c) ==
  /\ enabled[c]
  /\ enabled' = [enabled EXCEPT ![c] = FALSE]
  /\ lines' = NoLines
  /\ g_car_global' = FALSE
  /\ CallBy({c}, expect, Flushed(NoLines))

\* car_invalidate, which may be called with any car and loses what is there.
CarInvalidate(c) ==
  /\ lines' = NoLines
  /\ CallBy({c}, IF enabled[c] THEN NoLines ELSE expect, dram)
  /\ UNCHANGED <<enabled, g_car_global>>

CarNext ==
  \E c \in Cars :
    \/ CarInit(c)
    \/ CarEnable(c)
    \/ \E offset \in Offsets, data \in CarData : CarWrite(c, offset, data)
    \/ CarTeardown(c)
    \/ CarInvalidate(c)

-----------------------------------------------------------------------------
(* Properties.                                                             *)

CarTypeOK ==
  /\ enabled \in [Cars -> BOOLEAN]
  /\ lines \in [Lines -> CarData \cup {Pattern, Blank}]
  /\ g_car_global \in BOOLEAN

\* From its car_init on, a user whom no other user disturbs reads what it
\* wrote last at each line, through any number of enablings, invalidations
\* and offsets beyond the cache, and after the teardown finds it all in DRAM.
CarKeepsData ==
  \A c \in undisturbed :
    IF enabled[c]
    THEN \A l \in Lines : CarRead(c, l) = expect[l]
    ELSE dram = expect
=============================================================================
