----------------------------- MODULE BootProofs -----------------------------
(***************************************************************************)
(* What holds of the boot phases, of cache as RAM and of the boot manager   *)
(* (boot_phases.c, cache_as_ram.c, boot_policy.c of mini-boot-process) and  *)
(* of the page allocator (boot_memory.c of mini-bootloader), for every      *)
(* number of lines, users, options, variables and pages.                   *)
(***************************************************************************)
EXTENDS BootManager, BootPhases, PageAllocator, GrubModules, ProofLemmas, TLAPS

(* Cache as RAM.                                                           *)

Contents == CarData \cup {Pattern, Blank}

\* What an undisturbed user relies on: no one else switched the cache off or left
\* anything in its lines before it enabled its car.
CarKept ==
  \A c \in undisturbed :
    /\ enabled[c] => g_car_global /\ lines = expect
    /\ ~enabled[c] => lines = NoLines /\ dram = expect

CarInv == CarTypeOK /\ undisturbed \subseteq Cars /\ CarKept

LEMMA LinesAreTheirOwn ==
  /\ 0 \in Lines
  /\ \A l \in Lines : GetLine(l) = l
  /\ \A offset \in Offsets : GetLine(offset) \in Lines
  /\ NoLines \in [Lines -> Contents]
<1>1. NumLines \in Nat /\ NumLines > 0 /\ Offsets \subseteq Nat
  BY CarAssumption
<1>2. \A l \in Lines : l % NumLines = l
  BY <1>1 DEF Lines
<1>3. \A offset \in Nat : offset % NumLines \in 0 .. NumLines - 1
  BY <1>1
<1>4. QED
  BY <1>1, <1>2, <1>3 DEF Lines, GetLine, NoLines, Contents

\* What the user reads and finds in DRAM is what its lines are.
LEMMA KeptIsRead == CarInv => CarKeepsData
<1>1. ASSUME CarInv, NEW c \in undisturbed, enabled[c], NEW l \in Lines
      PROVE  CarRead(c, l) = expect[l]
  <2>1. g_car_global /\ lines = expect
    BY <1>1 DEF CarInv, CarKept
  <2>2. GetLine(l) = l
    BY LinesAreTheirOwn
  <2>3. QED
    BY <1>1, <2>1, <2>2 DEF CarRead
<1>2. ASSUME CarInv, NEW c \in undisturbed, ~enabled[c]
      PROVE  dram = expect
  BY <1>2 DEF CarInv, CarKept
<1>3. QED
  BY <1>1, <1>2 DEF CarKeepsData

LEMMA CarStep ==
  ASSUME CarInv, CarNext
  PROVE  CarInv'
<1> USE DEF CarInv, CarTypeOK
<1>1. ASSUME NEW c \in Cars, CarInit(c) PROVE CarInv'
  <2>1. lines' \in [Lines -> Contents]
    BY <1>1, LinesAreTheirOwn DEF CarInit
  <2>2. \A d \in undisturbed' : ~enabled'[d] /\ lines' = NoLines /\ dram' = expect'
    BY <1>1 DEF CarInit
  <2>3. QED
    BY <1>1, <2>1, <2>2 DEF CarInit, CarKept, Contents
<1>2. ASSUME NEW c \in Cars, CarEnable(c) PROVE CarInv'
  <2>1. lines' \in [Lines -> Contents]
    BY <1>2, LinesAreTheirOwn DEF CarEnable, Contents
  <2>2. ASSUME NEW d \in undisturbed' PROVE d = c /\ lines' = expect' /\ g_car_global'
    <3>1. d = c /\ d \in undisturbed /\ undisturbed' # {}
      BY <1>2, <2>2 DEF CarEnable, CallBy
    <3>2. lines = NoLines
      BY <1>2, <3>1 DEF CarEnable, CarKept
    <3>3. QED
      BY <1>2, <3>1, <3>2 DEF CarEnable, CallBy
  <2>3. enabled' \in [Cars -> BOOLEAN] /\ enabled'[c] /\ undisturbed' \subseteq Cars
    BY <1>2 DEF CarEnable, CallBy
  <2>4. QED
    BY <1>2, <2>1, <2>2, <2>3 DEF CarEnable, CarKept, Contents
<1>3. ASSUME NEW c \in Cars, NEW offset \in Offsets, NEW data \in CarData, CarWrite(c, offset, data)
      PROVE  CarInv'
  <2>1. lines' \in [Lines -> Contents]
    BY <1>3, LinesAreTheirOwn DEF CarWrite, Contents
  <2>2. ASSUME NEW d \in undisturbed' PROVE d = c /\ lines' = expect'
    <3>1. d = c /\ d \in undisturbed /\ undisturbed' # {}
      BY <1>3, <2>2 DEF CarWrite, CallBy
    <3>2. lines = expect
      BY <1>3, <3>1 DEF CarWrite, CarKept
    <3>3. QED
      BY <1>3, <3>1, <3>2 DEF CarWrite, CallBy
  <2>3. undisturbed' \subseteq Cars
    BY <1>3 DEF CarWrite, CallBy
  <2>4. QED
    BY <1>3, <2>1, <2>2, <2>3 DEF CarWrite, CarKept, Contents
<1>4. ASSUME NEW c \in Cars, CarTeardown(c) PROVE CarInv'
  <2>1. lines' \in [Lines -> Contents]
    BY <1>4, LinesAreTheirOwn DEF CarTeardown
  <2>2. ASSUME NEW d \in undisturbed' PROVE d = c /\ dram' = expect'
    <3>1. d = c /\ d \in undisturbed /\ undisturbed' # {}
      BY <1>4, <2>2 DEF CarTeardown, CallBy
    <3>2. lines = expect
      BY <1>4, <3>1 DEF CarTeardown, CarKept
    <3>3. Flushed(NoLines) = lines
      BY DEF Flushed, NoLines
    <3>4. QED
      BY <1>4, <3>1, <3>2, <3>3 DEF CarTeardown, CallBy
  <2>3. enabled' \in [Cars -> BOOLEAN] /\ ~enabled'[c] /\ undisturbed' \subseteq Cars
    BY <1>4 DEF CarTeardown, CallBy
  <2>4. QED
    BY <1>4, <2>1, <2>2, <2>3 DEF CarTeardown, CarKept, Contents
<1>5. ASSUME NEW c \in Cars, CarInvalidate(c) PROVE CarInv'
  <2>1. lines' \in [Lines -> Contents]
    BY <1>5, LinesAreTheirOwn DEF CarInvalidate
  <2>2. ASSUME NEW d \in undisturbed'
        PROVE  /\ d = c
               /\ enabled[c] => g_car_global /\ expect' = NoLines
               /\ ~enabled[c] => dram' = expect'
    <3>1. d = c /\ d \in undisturbed /\ undisturbed' # {}
      BY <1>5, <2>2 DEF CarInvalidate, CallBy
    <3>2. enabled[c] => g_car_global /\ expect' = NoLines
      BY <1>5, <3>1 DEF CarInvalidate, CallBy, CarKept
    <3>3. ~enabled[c] => dram = expect /\ dram' = dram /\ expect' = expect
      BY <1>5, <3>1 DEF CarInvalidate, CallBy, CarKept
    <3>4. QED
      BY <3>1, <3>2, <3>3
  <2>3. undisturbed' \subseteq Cars
    BY <1>5 DEF CarInvalidate, CallBy
  <2>4. QED
    BY <1>5, <2>1, <2>2, <2>3 DEF CarInvalidate, CarKept, Contents
<1>6. QED
  BY <1>1, <1>2, <1>3, <1>4, <1>5 DEF CarNext

-----------------------------------------------------------------------------
(* Boot phases.                                                            *)

PhasesInv ==
  /\ BootPhasesTypeOK
  /\ ran \subseteq {SEC, PEI, DXE, BDS}
  /\ car_touched \in BOOLEAN
  /\ CarFollowsPhases
  /\ undisturbed \subseteq Cars
  /\ CarKept

\* A phase that hands over stays handed over, and all the phases that ran are
\* behind the current one.
LEMMA PhaseCompletes ==
  ASSUME PhasesInv, NEW phase \in {SEC, PEI, DXE, BDS}, Complete(phase),
         NEW behind \in SUBSET ran, ran' = behind \cup {phase},
         \A p \in ran' : p <= current_phase'
  PROVE  /\ phase_complete' \in [Phases -> BOOLEAN]
         /\ DOMAIN handoff' = Phases
         /\ ran' \subseteq {SEC, PEI, DXE, BDS}
         /\ \A p \in ran' : p <= current_phase' /\ phase_complete'[p] /\ handoff'[p] = HandOffOf(p)
<1>1. phase \in Phases
  BY DEF Phases, SEC, PEI, DXE, BDS, RT
<1>2. phase_complete' \in [Phases -> BOOLEAN] /\ DOMAIN handoff' = Phases
  BY DEF PhasesInv, BootPhasesTypeOK, Complete
<1>3. phase_complete'[phase] /\ handoff'[phase] = HandOffOf(phase)
  BY <1>1 DEF PhasesInv, BootPhasesTypeOK, Complete
<1>4. ASSUME NEW p \in ran, p # phase
      PROVE  phase_complete'[p] /\ handoff'[p] = HandOffOf(p)
  <2>1. p \in Phases
    BY DEF PhasesInv, Phases, SEC, PEI, DXE, BDS, RT
  <2>2. phase_complete[p] /\ handoff[p] = HandOffOf(p)
    BY DEF PhasesInv, CarFollowsPhases
  <2>3. phase_complete'[p] = phase_complete[p] /\ handoff'[p] = handoff[p]
    BY <1>4, <2>1 DEF PhasesInv, BootPhasesTypeOK, Complete
  <2>4. QED
    BY <2>2, <2>3
<1>5. QED
  BY <1>2, <1>3, <1>4 DEF PhasesInv

\* What has run is not ahead of the phase that is entered, or of the own phase of
\* a function that is called.
Entered(phase) ==
  /\ phase \in Phases /\ current_phase' = phase
  /\ phase = SEC \/ \A p \in ran : p <= phase

LEMMA RunPhaseStep ==
  ASSUME PhasesInv, NEW phase \in Phases, Entered(phase), RunPhase(phase)
  PROVE  PhasesInv'
<1> USE DEF PhasesInv, BootPhasesTypeOK, CarTypeOK
<1>0. phase \in Int /\ current_phase' = phase /\ current_phase' \in Phases
  BY DEF Entered, Phases, SEC, RT
<1>1. CASE phase = SEC /\ SecPhase
  <2>1. ran' = {} \cup {SEC} /\ \A p \in ran' : p <= current_phase'
    BY <1>0, <1>1 DEF SecPhase, SEC
  <2>2. /\ phase_complete' \in [Phases -> BOOLEAN]
        /\ DOMAIN handoff' = Phases
        /\ ran' \subseteq {SEC, PEI, DXE, BDS}
        /\ \A p \in ran' : p <= current_phase' /\ phase_complete'[p] /\ handoff'[p] = HandOffOf(p)
    BY <1>1, <2>1, PhaseCompletes DEF SecPhase
  <2>3. SEC \in ran' /\ PEI \notin ran' /\ cache_as_ram_active' = TRUE /\ g_car_global' = TRUE
    BY <1>1 DEF SecPhase, SEC, PEI
  <2>4. lines' \in [Lines -> Contents] /\ undisturbed' = {} /\ enabled' = enabled /\ car_touched' = FALSE
    BY <1>1, LinesAreTheirOwn DEF SecPhase, CallBy, Contents
  <2>5. QED
    BY <1>0, <2>2, <2>3, <2>4 DEF CarFollowsPhases, CarKept, Contents
<1>2. CASE phase = PEI /\ PeiPhase
  <2>1. ran' = ran \cup {PEI} /\ \A p \in ran' : p <= current_phase'
    BY <1>0, <1>2 DEF PeiPhase, PEI, SEC, Entered
  <2>2. /\ phase_complete' \in [Phases -> BOOLEAN]
        /\ DOMAIN handoff' = Phases
        /\ ran' \subseteq {SEC, PEI, DXE, BDS}
        /\ \A p \in ran' : p <= current_phase' /\ phase_complete'[p] /\ handoff'[p] = HandOffOf(p)
    BY <1>2, <2>1, PhaseCompletes DEF PeiPhase
  <2>3. PEI \in ran' /\ cache_as_ram_active' = FALSE /\ g_car_global' = FALSE
    BY <1>2 DEF PeiPhase
  <2>4. lines' \in [Lines -> Contents] /\ undisturbed' = {} /\ enabled' = enabled /\ car_touched' = FALSE
    BY <1>2, LinesAreTheirOwn DEF PeiPhase, CallBy
  <2>5. QED
    BY <1>0, <2>2, <2>3, <2>4 DEF CarFollowsPhases, CarKept, Contents
<1>3. CASE LatePhase(phase)
  <2>1. phase \in {DXE, BDS} /\ ran' = ran \cup {phase} /\ \A p \in ran' : p <= current_phase'
    BY <1>0, <1>3 DEF LatePhase, DXE, BDS, SEC, Entered
  <2>2. /\ phase_complete' \in [Phases -> BOOLEAN]
        /\ DOMAIN handoff' = Phases
        /\ ran' \subseteq {SEC, PEI, DXE, BDS}
        /\ \A p \in ran' : p <= current_phase' /\ phase_complete'[p] /\ handoff'[p] = HandOffOf(p)
    BY <1>3, <2>1, PhaseCompletes DEF LatePhase
  <2>3. (SEC \in ran' <=> SEC \in ran) /\ (PEI \in ran' <=> PEI \in ran)
    BY <2>1 DEF DXE, BDS, SEC, PEI
  <2>4. UNCHANGED <<enabled, lines, g_car_global, undisturbed, expect, dram,
                    cache_as_ram_active, car_touched>>
    BY <1>3 DEF LatePhase, carvars
  <2>5. CarFollowsPhases'
    BY <2>2, <2>3, <2>4 DEF CarFollowsPhases
  <2>6. CarKept'
    BY <2>4 DEF CarKept
  <2>7. QED
    BY <1>0, <2>2, <2>4, <2>5, <2>6
<1>4. CASE NoPhase(phase)
  <2>1. \A p \in ran' : p <= current_phase'
    BY <1>0, <1>4 DEF NoPhase, TSL, RT, SEC, Entered
  <2>2. UNCHANGED <<enabled, lines, g_car_global, undisturbed, expect, dram, handoff, phase_complete,
                    cache_as_ram_active, ran, car_touched>>
    BY <1>4 DEF NoPhase, carvars
  <2>3. CarFollowsPhases'
    BY <2>1, <2>2 DEF CarFollowsPhases
  <2>4. CarKept'
    BY <2>2 DEF CarKept
  <2>5. QED
    BY <1>0, <2>2, <2>3, <2>4
<1>5. QED
  BY <1>1, <1>2, <1>3, <1>4 DEF RunPhase

LEMMA PhasesInit == BootPhasesInit => PhasesInv
<1> SUFFICES ASSUME BootPhasesInit PROVE PhasesInv
  OBVIOUS
<1>1. CarTypeOK /\ undisturbed = {} /\ CarKept
  BY LinesAreTheirOwn DEF BootPhasesInit, CarInitState, CarTypeOK, CarKept, Contents
<1>2. BootPhasesTypeOK /\ ran = {} /\ car_touched = FALSE
  <2>1. SEC \in Phases
    BY DEF Phases, SEC, RT
  <2>2. ran = {} /\ car_touched = FALSE /\ current_phase = SEC /\ cache_as_ram_active = FALSE
    BY DEF BootPhasesInit, BootStateInit
  <2>3. phase_complete \in [Phases -> BOOLEAN] /\ DOMAIN handoff = Phases
    BY DEF BootPhasesInit, BootStateInit
  <2>4. QED
    BY <1>1, <2>1, <2>2, <2>3 DEF BootPhasesTypeOK
<1>3. CarFollowsPhases
  BY <1>2 DEF BootPhasesInit, BootStateInit, CarInitState, CarFollowsPhases
<1>4. QED
  BY <1>1, <1>2, <1>3 DEF PhasesInv

LEMMA PhasesStep == PhasesInv /\ [BootPhasesNext]_bpvars => PhasesInv'
<1> SUFFICES ASSUME PhasesInv, [BootPhasesNext]_bpvars PROVE PhasesInv'
  OBVIOUS
<1>0. \A p \in ran : p <= current_phase /\ p \in Int
  BY DEF PhasesInv, CarFollowsPhases, SEC, PEI, DXE, BDS
<1>1. ASSUME NEW next \in Phases, Transition(next) PROVE PhasesInv'
  <2>1. current_phase \in Int /\ next \in Int
    BY DEF PhasesInv, BootPhasesTypeOK, Phases, SEC, RT
  <2>2. Entered(next)
    BY <1>0, <1>1, <2>1 DEF Transition, Entered
  <2>3. QED
    BY <1>1, <2>2, RunPhaseStep DEF Transition
<1>2. CASE PhaseFunction
  <2>1. current_phase \in Phases
    BY DEF PhasesInv, BootPhasesTypeOK
  <2>2. Entered(current_phase)
    BY <1>0, <1>2, <2>1 DEF PhaseFunction, Entered
  <2>3. QED
    BY <1>2, <2>1, <2>2, RunPhaseStep DEF PhaseFunction
<1>3. CASE CarUser
  <2>1. CarInv'
    BY <1>3, CarStep DEF CarUser, PhasesInv, BootPhasesTypeOK, CarInv
  <2>2. UNCHANGED <<current_phase, handoff, phase_complete, cache_as_ram_active, ran>> /\ car_touched' = TRUE
    BY <1>3 DEF CarUser, phasevars
  <2>3. CarFollowsPhases'
    BY <2>2 DEF PhasesInv, CarFollowsPhases
  <2>4. QED
    BY <2>1, <2>2, <2>3 DEF PhasesInv, BootPhasesTypeOK, CarInv
<1>4. CASE UNCHANGED bpvars
  <2>1. UNCHANGED <<enabled, lines, g_car_global, undisturbed, expect, dram, current_phase, handoff,
                    phase_complete, cache_as_ram_active, ran, car_touched>>
    BY <1>4 DEF bpvars, carvars
  <2>2. CarFollowsPhases' /\ CarKept'
    BY <2>1 DEF PhasesInv, CarFollowsPhases, CarKept
  <2>3. QED
    BY <2>1, <2>2 DEF PhasesInv, BootPhasesTypeOK, CarTypeOK
<1>5. QED
  BY <1>1, <1>2, <1>3, <1>4 DEF BootPhasesNext

\* However phases are skipped, repeated and started over, the boot state tells the
\* truth about cache as RAM, and the phases that ran have handed over
\* (boot_transition, boot_sec_phase, boot_pei_phase).
THEOREM PhasesTellOfCar == BootPhasesSpec => []CarFollowsPhases
<1>1. PhasesInv => CarFollowsPhases
  BY DEF PhasesInv
<1>2. QED
  BY PhasesInit, PhasesStep, <1>1, PTL DEF BootPhasesSpec

\* A user of cache as RAM whom no phase and no other user disturbs reads what it
\* wrote, and finds it in DRAM after the teardown (car_read, car_teardown).
THEOREM CarIsKept == BootPhasesSpec => []CarKeepsData
<1>1. PhasesInv => CarInv
  BY DEF PhasesInv, BootPhasesTypeOK, CarInv
<1>2. QED
  BY PhasesInit, PhasesStep, <1>1, KeptIsRead, PTL DEF BootPhasesSpec

-----------------------------------------------------------------------------
(* The boot manager.                                                       *)

OptionRecord ==
  [valid : BOOLEAN, attributes : {k.attributes : k \in OptionKinds} \cup {{}},
   has_path : {k.has_path : k \in OptionKinds} \cup {FALSE}, born : Nat]

Stored == VarData \cup Seq(0 .. MaxOptions)
Variable == [name : VarNames, data : Stored]

ManagerTypes ==
  /\ options \in [OptionNumbers -> OptionRecord]
  /\ added \in Nat
  /\ boot_order \in Seq(0 .. MaxOptions) /\ Len(boot_order) <= MaxOptions
  /\ meant \in Seq(Nat) /\ Len(meant) = Len(boot_order)
  /\ nvram_vars \in Seq(Variable) /\ Len(nvram_vars) <= MaxVars
  /\ last_set \in [VarNames -> Stored \cup {NotSet}]

\* A clean order names no option twice: one place is all that boot_option_remove
\* takes out.
OrderNamesOnce ==
  order_clean => \A i, j \in DOMAIN boot_order : boot_order[i] = boot_order[j] => i = j

OptionsInv == OrderKeepsItsMeaning /\ OrderNamesOnce

ManagerInv == ManagerTypes /\ OptionsInv /\ VariablesReadBack

LEMMA NotSetIsNoData == NotSet \notin Stored
<1>1. ASSUME NotSet \in Seq(0 .. MaxOptions) PROVE FALSE
  <2>1. Len(NotSet) = 1 /\ NotSet[1] = -1
    BY DEF NotSet
  <2>2. ASSUME NEW S, NEW s \in Seq(S), Len(s) = 1 PROVE s[1] \in S
    BY <2>2
  <2>3. QED
    BY <1>1, <2>1, <2>2, BootManagerAssumption
<1>2. QED
  BY <1>1, BootManagerAssumption DEF Stored

\* The place boot_option_remove closes.
LEMMA WithoutOne ==
  ASSUME NEW S, NEW s \in Seq(S), NEW i \in 1 .. Len(s)
  PROVE  /\ Without(s, i) \in Seq(S) /\ Len(Without(s, i)) = Len(s) - 1
         /\ \A j \in 1 .. Len(s) - 1 :
              Without(s, i)[j] = IF j < i THEN s[j] ELSE s[j + 1]
<1> DEFINE a == SubSeq(s, 1, i - 1)
           b == SubSeq(s, i + 1, Len(s))
<1>1. Len(s) \in Nat
  OBVIOUS
<1>2. a \in Seq(S) /\ Len(a) = i - 1 /\ \A j \in 1 .. i - 1 : a[j] = s[j]
  BY <1>1
<1>3. b \in Seq(S) /\ Len(b) = Len(s) - i /\ \A j \in 1 .. Len(s) - i : b[j] = s[j + i]
  BY <1>1
<1> HIDE DEF a, b
<1>4. /\ a \o b \in Seq(S) /\ Len(a \o b) = Len(a) + Len(b)
      /\ \A j \in 1 .. Len(a) + Len(b) : (a \o b)[j] = IF j <= Len(a) THEN a[j] ELSE b[j - Len(a)]
  BY <1>2, <1>3, ConcatProperties
<1>5. ASSUME NEW j \in 1 .. Len(s) - 1
      PROVE  (a \o b)[j] = IF j < i THEN s[j] ELSE s[j + 1]
  <2>1. CASE j < i
    <3>1. (a \o b)[j] = a[j]
      BY <1>1, <1>2, <1>3, <1>4, <2>1
    <3>2. QED
      BY <1>2, <2>1, <3>1
  <2>2. CASE ~(j < i)
    <3>1. (a \o b)[j] = b[j - (i - 1)]
      BY <1>1, <1>2, <1>3, <1>4, <2>2
    <3>2. j - (i - 1) \in 1 .. Len(s) - i
      BY <1>1, <2>2
    <3>3. b[j - (i - 1)] = s[(j - (i - 1)) + i]
      BY <1>3, <3>2
    <3>4. QED
      BY <1>1, <2>2, <3>1, <3>3
  <2>3. QED
    BY <2>1, <2>2
<1>6. Len(a \o b) = Len(s) - 1
  BY <1>1, <1>2, <1>3, <1>4
<1>7. QED
  BY <1>4, <1>5, <1>6 DEF Without, a, b

LEMMA AddKeepsOrder ==
  ASSUME ManagerInv, NEW kind \in OptionKinds, OptionAdd(kind)
  PROVE  ManagerTypes' /\ OptionsInv'
<1> USE DEF ManagerInv, ManagerTypes
<1>1. PICK n \in OptionNumbers \ ValidOptions :
        options' = [options EXCEPT ![n] =
            [valid |-> TRUE, attributes |-> kind.attributes, has_path |-> kind.has_path,
             born |-> added + 1]]
  BY DEF OptionAdd
<1>2. options' \in [OptionNumbers -> OptionRecord]
  <2> DEFINE option == [valid |-> TRUE, attributes |-> kind.attributes,
                        has_path |-> kind.has_path, born |-> added + 1]
  <2>1. option \in OptionRecord
    <3>1. /\ kind.attributes \in {k.attributes : k \in OptionKinds} \cup {{}}
          /\ kind.has_path \in {k.has_path : k \in OptionKinds} \cup {FALSE}
      OBVIOUS
    <3>2. added + 1 \in Nat
      OBVIOUS
    <3>3. QED
      BY <3>1, <3>2 DEF OptionRecord
  <2>2. options' = [options EXCEPT ![n] = option]
    BY <1>1
  <2> HIDE DEF option
  <2>3. QED
    BY <2>1, <2>2
<1>3. ManagerTypes'
  BY <1>2 DEF OptionAdd
<1>4. ASSUME order_clean, NEW i \in DOMAIN boot_order
      PROVE  boot_order[i] \in ValidOptions' /\ options'[boot_order[i]].born = meant[i]
  <2>1. boot_order[i] \in ValidOptions /\ options[boot_order[i]].born = meant[i]
    BY <1>4 DEF OptionsInv, OrderKeepsItsMeaning
  <2>2. options'[boot_order[i]] = options[boot_order[i]]
    BY <1>1, <2>1 DEF ValidOptions
  <2>3. QED
    BY <2>1, <2>2 DEF ValidOptions
<1>5. OrderKeepsItsMeaning'
  BY <1>4 DEF OptionAdd, OrderKeepsItsMeaning
<1>6. OrderNamesOnce'
  BY DEF OptionAdd, OrderNamesOnce, OptionsInv
<1>7. QED
  BY <1>3, <1>5, <1>6 DEF OptionsInv

LEMMA RemoveKeepsOrder ==
  ASSUME ManagerInv, NEW n \in OptionNumbers, OptionRemove(n)
  PROVE  ManagerTypes' /\ OptionsInv'
<1> USE DEF ManagerInv, ManagerTypes
<1>1. options' = [options EXCEPT ![n].valid = FALSE] /\ order_clean' = order_clean
  BY DEF OptionRemove
<1>2. options' \in [OptionNumbers -> OptionRecord]
  <2>1. [options[n] EXCEPT !.valid = FALSE] \in OptionRecord
    BY DEF OptionRecord
  <2>2. options' = [options EXCEPT ![n] = [options[n] EXCEPT !.valid = FALSE]]
    BY <1>1
  <2>3. QED
    BY <2>1, <2>2
<1>3. ASSUME NEW m \in ValidOptions, m # n
      PROVE  m \in ValidOptions' /\ options'[m] = options[m]
  BY <1>1, <1>3 DEF ValidOptions
<1>4. CASE Places(n) = {}
  <2>1. boot_order' = boot_order /\ meant' = meant
    BY <1>4 DEF OptionRemove
  <2>2. ASSUME order_clean, NEW i \in DOMAIN boot_order
        PROVE  boot_order[i] \in ValidOptions' /\ options'[boot_order[i]].born = meant[i]
    <3>1. boot_order[i] \in ValidOptions /\ options[boot_order[i]].born = meant[i]
      BY <2>2 DEF OptionsInv, OrderKeepsItsMeaning
    <3>2. boot_order[i] # n
      BY <1>4 DEF Places
    <3>3. QED
      BY <1>3, <3>1, <3>2
  <2>3. OrderKeepsItsMeaning'
    BY <1>1, <2>1, <2>2 DEF OrderKeepsItsMeaning
  <2>4. OrderNamesOnce'
    BY <1>1, <2>1 DEF OrderNamesOnce, OptionsInv
  <2>5. QED
    BY <1>2, <2>1, <2>3, <2>4 DEF OptionRemove, OptionsInv
<1>5. CASE Places(n) # {}
  <2> DEFINE i == CHOOSE i \in Places(n) : \A j \in Places(n) : i <= j
  <2>1. boot_order' = Without(boot_order, i) /\ meant' = Without(meant, i)
    BY <1>5 DEF OptionRemove
  <2>2. i = FirstIn(Places(n)) /\ Places(n) \in SUBSET (Nat \ {0})
    <3>1. Places(n) \in SUBSET (Nat \ {0})
      BY DEF Places
    <3>2. QED
      BY <1>5, <3>1 DEF FirstIn
  <2>3. i \in Places(n)
    BY <1>5, <2>2, FirstInPositions
  <2> HIDE DEF i
  <2>4. i \in 1 .. Len(boot_order) /\ boot_order[i] = n /\ Len(boot_order) \in Nat
    BY <2>3 DEF Places
  <2>5. /\ boot_order' \in Seq(0 .. MaxOptions) /\ Len(boot_order') = Len(boot_order) - 1
        /\ \A j \in 1 .. Len(boot_order) - 1 :
              boot_order'[j] = IF j < i THEN boot_order[j] ELSE boot_order[j + 1]
    BY <2>1, <2>4, WithoutOne
  <2>50. i \in 1 .. Len(meant) /\ Len(meant) = Len(boot_order)
    BY <2>4
  <2>6. /\ meant' \in Seq(Nat) /\ Len(meant') = Len(boot_order) - 1
        /\ \A j \in 1 .. Len(boot_order) - 1 :
              meant'[j] = IF j < i THEN meant[j] ELSE meant[j + 1]
    BY <2>1, <2>50, WithoutOne
  <2>7. ASSUME NEW j \in DOMAIN boot_order'
        PROVE  \E k \in DOMAIN boot_order : /\ k = (IF j < i THEN j ELSE j + 1)
                                           /\ boot_order'[j] = boot_order[k]
                                           /\ meant'[j] = meant[k]
    <3>1. j \in 1 .. Len(boot_order) - 1
      BY <2>5
    <3>2. j \in DOMAIN boot_order /\ j + 1 \in DOMAIN boot_order
      BY <2>4, <3>1
    <3>3. CASE j < i
      BY <2>5, <2>6, <3>1, <3>2, <3>3
    <3>4. CASE ~(j < i)
      BY <2>5, <2>6, <3>1, <3>2, <3>4
    <3>5. QED
      BY <3>3, <3>4
  <2>8. ASSUME order_clean, NEW j \in DOMAIN boot_order'
        PROVE  boot_order'[j] \in ValidOptions' /\ options'[boot_order'[j]].born = meant'[j]
    <3>1. PICK k \in DOMAIN boot_order : /\ k = (IF j < i THEN j ELSE j + 1)
                                         /\ boot_order'[j] = boot_order[k]
                                         /\ meant'[j] = meant[k]
      BY <2>7
    <3>2. k # i
      BY <2>4, <2>5, <3>1
    <3>3. boot_order[k] # n
      <4>1. i \in DOMAIN boot_order /\ boot_order[i] = n
        BY <2>4
      <4>2. QED
        BY <2>8, <3>2, <4>1 DEF OptionsInv, OrderNamesOnce
    <3>4. boot_order[k] \in ValidOptions /\ options[boot_order[k]].born = meant[k]
      BY <2>8 DEF OptionsInv, OrderKeepsItsMeaning
    <3>5. QED
      BY <1>3, <3>1, <3>3, <3>4
  <2>9. ASSUME order_clean, NEW j \in DOMAIN boot_order', NEW l \in DOMAIN boot_order',
               boot_order'[j] = boot_order'[l]
        PROVE  j = l
    <3>1. PICK k \in DOMAIN boot_order : /\ k = (IF j < i THEN j ELSE j + 1)
                                         /\ boot_order'[j] = boot_order[k]
      BY <2>7
    <3>2. PICK m \in DOMAIN boot_order : /\ m = (IF l < i THEN l ELSE l + 1)
                                         /\ boot_order'[l] = boot_order[m]
      BY <2>7
    <3>3. k = m
      BY <2>9, <3>1, <3>2 DEF OptionsInv, OrderNamesOnce
    <3>4. j \in Nat /\ l \in Nat
      BY <2>5
    <3>5. QED
      BY <2>4, <3>1, <3>2, <3>3, <3>4
  <2>10. OrderKeepsItsMeaning' /\ OrderNamesOnce'
    BY <1>1, <2>8, <2>9 DEF OrderKeepsItsMeaning, OrderNamesOnce
  <2>11. Len(boot_order') <= MaxOptions
    BY <2>4, <2>5, BootManagerAssumption
  <2>12. ManagerTypes'
    BY <1>2, <2>5, <2>6, <2>11 DEF OptionRemove
  <2>13. QED
    BY <2>10, <2>12 DEF OptionsInv
<1>6. QED
  BY <1>4, <1>5

LEMMA LoadKeepsOrder ==
  ASSUME ManagerInv, NEW order \in Orders, OrderLoad(order)
  PROVE  ManagerTypes' /\ OptionsInv'
<1> USE DEF ManagerInv, ManagerTypes
<1> DEFINE k == IF Len(order) > MaxOptions THEN MaxOptions ELSE Len(order)
<1>1. PICK n \in 1 .. MaxOptions + 1 : order \in [1 .. n -> 0 .. MaxOptions]
  BY DEF Orders
<1>2. MaxOptions \in Nat /\ n \in Nat
  BY BootManagerAssumption
<1>3. order \in Seq(0 .. MaxOptions) /\ Len(order) = n
  BY <1>1, <1>2, SeqOfFunction
<1>4. k \in 0 .. n /\ k <= MaxOptions
  BY <1>2, <1>3
<1>5. boot_order' = SubSeq(order, 1, k)
  BY DEF OrderLoad
<1> HIDE DEF k
<1>6. boot_order' \in Seq(0 .. MaxOptions) /\ Len(boot_order') = k /\ DOMAIN boot_order' = 1 .. k
  BY <1>2, <1>3, <1>4, <1>5
<1>7. meant' = [i \in DOMAIN boot_order' |->
                  IF boot_order'[i] \in ValidOptions THEN options[boot_order'[i]].born ELSE 0]
  BY DEF OrderLoad
<1>8. \A m \in ValidOptions : options[m].born \in Nat
  BY DEF ValidOptions, OptionRecord
<1>9. meant' \in [1 .. k -> Nat]
  BY <1>6, <1>7, <1>8
<1>10. meant' \in Seq(Nat) /\ Len(meant') = k
  BY <1>4, <1>9, SeqOfFunction
<1>11. ValidOptions' = ValidOptions /\ options' = options
  BY DEF OrderLoad, ValidOptions
<1>12. ManagerTypes'
  BY <1>4, <1>6, <1>10, <1>11 DEF OrderLoad
<1>13. OrderKeepsItsMeaning'
  BY <1>7, <1>11 DEF OrderLoad, OrderKeepsItsMeaning
<1>14. OrderNamesOnce'
  BY DEF OrderLoad, OrderNamesOnce
<1>15. QED
  BY <1>12, <1>13, <1>14 DEF OptionsInv

LEMMA OrderUndisturbed ==
  ASSUME OptionsInv, UNCHANGED <<options, boot_order, meant, order_clean>>
  PROVE  OptionsInv'
BY DEF OptionsInv, OrderKeepsItsMeaning, OrderNamesOnce, ValidOptions

\* The condition of VariablesReadBack: the name is stored whole, and no other name
\* was cut to it.
OwnName(name) ==
  /\ \A other \in VarNames : StoredName[other] = name /\ last_set[other] # NotSet => other = name
  /\ StoredName[name] = name

LEMMA FirstEntry ==
  ASSUME ManagerTypes, NEW name
  PROVE  LET first == CHOOSE i \in VarsNamed(name) : \A j \in VarsNamed(name) : i <= j
         IN  VarsNamed(name) # {} => first \in VarsNamed(name) /\ GetVariable(name) = nvram_vars[first].data
<1>1. VarsNamed(name) \in SUBSET (Nat \ {0})
  BY DEF ManagerTypes, VarsNamed
<1>2. QED
  BY <1>1, FirstInPositions DEF FirstIn, GetVariable

LEMMA SetIsRead ==
  ASSUME ManagerTypes, VariablesReadBack, NEW name \in VarNames, NEW data \in Stored,
         SetVariable(name, data)
  PROVE  /\ nvram_vars' \in Seq(Variable) /\ Len(nvram_vars') <= MaxVars
         /\ last_set' \in [VarNames -> Stored \cup {NotSet}]
         /\ VariablesReadBack'
<1> USE DEF ManagerTypes
<1>1. last_set' = [last_set EXCEPT ![name] = data]
  BY DEF SetVariable
<1>2. data # NotSet
  BY NotSetIsNoData
<1>3. ASSUME NEW other \in VarNames, OwnName(other)', other # name
      PROVE  /\ OwnName(other) /\ last_set'[other] = last_set[other]
             /\ StoredName[name] # other
  BY <1>1, <1>2, <1>3 DEF OwnName
<1>4. ASSUME NEW other \in VarNames, OwnName(other)
      PROVE  GetVariable(other) = last_set[other]
  BY <1>4 DEF VariablesReadBack, OwnName
<1>5. MaxVars \in Nat /\ StoredName[name] \in VarNames
  BY BootManagerAssumption
<1>6. CASE VarsNamed(name) # {}
  <2> DEFINE first == CHOOSE i \in VarsNamed(name) : \A j \in VarsNamed(name) : i <= j
  <2>1. first \in VarsNamed(name)
    BY <1>6, FirstEntry
  <2>2. nvram_vars' = [nvram_vars EXCEPT ![first].data = data]
    BY <1>6 DEF SetVariable
  <2>3. first \in DOMAIN nvram_vars /\ nvram_vars[first].name = name
    BY <2>1 DEF VarsNamed
  <2>30. \A other : GetVariable(other) =
           IF VarsNamed(other) = {} THEN NotSet
           ELSE nvram_vars[CHOOSE i \in VarsNamed(other) : \A j \in VarsNamed(other) : i <= j].data
    BY DEF GetVariable
  <2>4. /\ nvram_vars' \in Seq(Variable) /\ Len(nvram_vars') = Len(nvram_vars)
        /\ DOMAIN nvram_vars' = DOMAIN nvram_vars
    <3> HIDE DEF first
    <3>1. [nvram_vars[first] EXCEPT !.data = data] \in Variable
      <4>1. ASSUME NEW v \in Variable PROVE [v EXCEPT !.data = data] \in Variable
        BY DEF Variable
      <4>2. nvram_vars[first] \in Variable
        BY <2>3
      <4>3. QED
        BY <4>1, <4>2
    <3>2. nvram_vars' = [nvram_vars EXCEPT ![first] = [nvram_vars[first] EXCEPT !.data = data]]
      BY <2>2
    <3>3. QED
      BY <2>3, <3>1, <3>2
  <2>5. \A i \in DOMAIN nvram_vars : /\ nvram_vars'[i].name = nvram_vars[i].name
                                     /\ i # first => nvram_vars'[i] = nvram_vars[i]
    <3> HIDE DEF first
    <3>1. \A i \in DOMAIN nvram_vars : nvram_vars[i] \in Variable
      OBVIOUS
    <3>2. QED
      BY <2>2, <2>3, <3>1 DEF Variable
  <2>6. nvram_vars'[first].data = data
    <3> HIDE DEF first
    <3>1. nvram_vars[first] \in Variable
      BY <2>3
    <3>2. QED
      BY <2>2, <2>3, <3>1 DEF Variable
  <2>7. ASSUME NEW other PROVE VarsNamed(other)' = VarsNamed(other)
    BY <2>4, <2>5 DEF VarsNamed
  <2>8. GetVariable(name)' = data
    BY <1>6, <2>6, <2>7 DEF GetVariable
  <2>9. ASSUME NEW other \in VarNames, other # name
        PROVE  GetVariable(other)' = GetVariable(other)
    <3>1. CASE VarsNamed(other) = {}
      BY <2>7, <3>1 DEF GetVariable
    <3>2. CASE VarsNamed(other) # {}
      <4> DEFINE at == CHOOSE i \in VarsNamed(other) : \A j \in VarsNamed(other) : i <= j
      <4>1. at \in VarsNamed(other) /\ GetVariable(other) = nvram_vars[at].data
        BY <3>2, FirstEntry
      <4>2. GetVariable(other)' = nvram_vars'[at].data
        BY <2>7, <3>2 DEF GetVariable
      <4> HIDE DEF at, first
      <4>3. at \in DOMAIN nvram_vars /\ at # first
        BY <2>3, <2>9, <4>1 DEF VarsNamed
      <4>4. nvram_vars'[at] = nvram_vars[at]
        BY <2>5, <4>3
      <4>5. QED
        BY <4>1, <4>2, <4>4
    <3>3. QED
      BY <3>1, <3>2
  <2>10. ASSUME NEW other \in VarNames, OwnName(other)'
         PROVE  GetVariable(other)' = last_set'[other]
    <3>1. CASE other = name
      BY <1>1, <2>8, <3>1
    <3>2. CASE other # name
      BY <1>3, <1>4, <2>9, <2>10, <3>2
    <3>3. QED
      BY <3>1, <3>2
  <2>11. VariablesReadBack'
    BY <2>10 DEF VariablesReadBack, OwnName
  <2>12. QED
    BY <1>1, <2>4, <2>11
<1>7. CASE VarsNamed(name) = {}
  <2> DEFINE entry == [name |-> StoredName[name], data |-> data]
  <2>1. nvram_vars' = Append(nvram_vars, entry) /\ Len(nvram_vars) < MaxVars
    BY <1>7 DEF SetVariable
  <2>2. entry \in Variable
    BY <1>5 DEF Variable
  <2>3. entry.name = StoredName[name] /\ entry.data = data
    OBVIOUS
  <2> HIDE DEF entry
  <2>4. PICK n \in Nat : n = Len(nvram_vars) /\ DOMAIN nvram_vars = 1 .. n
    OBVIOUS
  <2>5. /\ nvram_vars' \in Seq(Variable) /\ Len(nvram_vars') = n + 1 /\ Len(nvram_vars') <= MaxVars
        /\ DOMAIN nvram_vars' = 1 .. n + 1 /\ nvram_vars'[n + 1] = entry
        /\ \A i \in 1 .. n : nvram_vars'[i] = nvram_vars[i]
    BY <1>5, <2>1, <2>2, <2>4
  <2>6. ASSUME NEW other PROVE VarsNamed(other)' = VarsNamed(other) \cup
                                 {i \in {n + 1} : StoredName[name] = other}
    BY <2>3, <2>4, <2>5 DEF VarsNamed
  <2>7. ASSUME OwnName(name)' PROVE GetVariable(name)' = data
    <3>1. VarsNamed(name)' = {n + 1}
      BY <1>7, <2>6, <2>7 DEF OwnName
    <3>2. (CHOOSE i \in {n + 1} : \A j \in {n + 1} : i <= j) = n + 1
      BY <2>4
    <3>3. QED
      BY <2>3, <2>5, <3>1, <3>2 DEF GetVariable
  <2>8. ASSUME NEW other \in VarNames, StoredName[name] # other
        PROVE  GetVariable(other)' = GetVariable(other)
    <3>0. VarsNamed(other)' = VarsNamed(other)
      BY <2>6, <2>8
    <3>1. CASE VarsNamed(other) = {}
      BY <3>0, <3>1 DEF GetVariable
    <3>2. CASE VarsNamed(other) # {}
      <4> DEFINE at == CHOOSE i \in VarsNamed(other) : \A j \in VarsNamed(other) : i <= j
      <4>1. at \in VarsNamed(other) /\ GetVariable(other) = nvram_vars[at].data
        BY <3>2, FirstEntry
      <4>2. GetVariable(other)' = nvram_vars'[at].data
        BY <3>0, <3>2 DEF GetVariable
      <4> HIDE DEF at
      <4>3. at \in 1 .. n
        BY <2>4, <4>1 DEF VarsNamed
      <4>4. QED
        BY <2>5, <4>1, <4>2, <4>3
    <3>3. QED
      BY <3>1, <3>2
  <2>9. ASSUME NEW other \in VarNames, OwnName(other)'
        PROVE  GetVariable(other)' = last_set'[other]
    <3>1. CASE other = name
      BY <1>1, <2>7, <2>9, <3>1
    <3>2. CASE other # name
      BY <1>3, <1>4, <2>8, <2>9, <3>2
    <3>3. QED
      BY <3>1, <3>2
  <2>10. VariablesReadBack'
    BY <2>9 DEF VariablesReadBack, OwnName
  <2>11. QED
    BY <1>1, <2>5, <2>10
<1>8. QED
  BY <1>6, <1>7

LEMMA VariablesUndisturbed ==
  ASSUME VariablesReadBack, UNCHANGED <<nvram_vars, last_set>>
  PROVE  VariablesReadBack'
<1>1. \A name : VarsNamed(name)' = VarsNamed(name)
  BY DEF VarsNamed
<1>2. ASSUME NEW name PROVE GetVariable(name)' = GetVariable(name)
  <2>1. VarsNamed(name)' = VarsNamed(name) /\ nvram_vars' = nvram_vars
    BY <1>1
  <2>2. QED
    BY <2>1 DEF GetVariable
<1>3. QED
  BY <1>2 DEF VariablesReadBack

LEMMA ManagerInit == BootMgrInit => ManagerInv
<1> SUFFICES ASSUME BootMgrInit PROVE ManagerInv
  OBVIOUS
<1>1. NoOption \in OptionRecord
  BY DEF NoOption, OptionRecord
<1>2. ManagerTypes
  <2>1. MaxOptions \in Nat /\ MaxVars \in Nat
    BY BootManagerAssumption
  <2>2. options \in [OptionNumbers -> OptionRecord] /\ added \in Nat
    BY <1>1 DEF BootMgrInit
  <2>3. boot_order = << >> /\ meant = << >> /\ nvram_vars = << >>
    BY DEF BootMgrInit
  <2>4. last_set \in [VarNames -> Stored \cup {NotSet}]
    BY DEF BootMgrInit
  <2>5. QED
    BY <2>1, <2>2, <2>3, <2>4 DEF ManagerTypes
<1>3. OptionsInv
  BY DEF BootMgrInit, OptionsInv, OrderKeepsItsMeaning, OrderNamesOnce
<1>4. VariablesReadBack
  BY DEF BootMgrInit, VariablesReadBack, GetVariable, VarsNamed
<1>5. QED
  BY <1>2, <1>3, <1>4 DEF ManagerInv

LEMMA ManagerStep == ManagerInv /\ [BootManagerNext]_bmvars => ManagerInv'
<1> SUFFICES ASSUME ManagerInv, [BootManagerNext]_bmvars PROVE ManagerInv'
  OBVIOUS
<1>1. ASSUME NEW kind \in OptionKinds, OptionAdd(kind) PROVE ManagerInv'
  BY <1>1, AddKeepsOrder, VariablesUndisturbed DEF OptionAdd, ManagerInv
<1>2. ASSUME NEW n \in OptionNumbers, OptionRemove(n) PROVE ManagerInv'
  BY <1>2, RemoveKeepsOrder, VariablesUndisturbed DEF OptionRemove, ManagerInv
<1>3. ASSUME NEW n \in 0 .. MaxOptions, BootNextSet(n) PROVE ManagerInv'
  BY <1>3, OrderUndisturbed, VariablesUndisturbed DEF BootNextSet, ManagerInv, ManagerTypes
<1>4. CASE ManagerSelect
  BY <1>4, OrderUndisturbed, VariablesUndisturbed DEF ManagerSelect, ManagerInv, ManagerTypes
<1>5. ASSUME NEW order \in Orders, OrderLoad(order) PROVE ManagerInv'
  BY <1>5, LoadKeepsOrder, VariablesUndisturbed DEF OrderLoad, ManagerInv
<1>6. ASSUME NEW name \in VarNames, NEW data \in Stored, SetVariable(name, data), UNCHANGED bmopt
      PROVE  ManagerInv'
  <2>1. /\ nvram_vars' \in Seq(Variable) /\ Len(nvram_vars') <= MaxVars
        /\ last_set' \in [VarNames -> Stored \cup {NotSet}]
        /\ VariablesReadBack'
    BY <1>6, SetIsRead DEF ManagerInv
  <2>2. UNCHANGED <<options, boot_order, added, meant, order_clean>>
    BY <1>6 DEF bmopt
  <2>3. QED
    BY <2>1, <2>2, OrderUndisturbed DEF ManagerInv, ManagerTypes
<1>7. CASE OrderSave
  <2>1. "BootOrder" \in VarNames /\ boot_order \in Stored
    BY BootManagerAssumption DEF ManagerInv, ManagerTypes, Stored
  <2>2. QED
    BY <1>6, <1>7, <2>1 DEF OrderSave
<1>8. ASSUME NEW name \in VarNames, NEW data \in VarData, NvramSet(name, data) PROVE ManagerInv'
  BY <1>6, <1>8 DEF NvramSet, Stored
<1>9. CASE UNCHANGED bmvars
  BY <1>9, OrderUndisturbed, VariablesUndisturbed DEF bmvars, bmopt, ManagerInv, ManagerTypes
<1>10. QED
  BY <1>1, <1>2, <1>3, <1>4, <1>5, <1>7, <1>8, <1>9 DEF BootManagerNext, OptionNext, VariableNext

\* An order that named existing options never comes to name an option that is gone
\* or another one in the same slot, and variables read as they were last set
\* (boot_option_remove, boot_order_load, nvram_set_variable).
THEOREM ManagerRemembers == BootManagerSpec => []BootManagerRemembers
<1>1. ManagerInv => BootManagerRemembers
  BY DEF ManagerInv, OptionsInv, BootManagerRemembers
<1>2. QED
  BY ManagerInit, ManagerStep, <1>1, PTL DEF BootManagerSpec

-----------------------------------------------------------------------------
(* Pages.                                                                  *)

\* The inductive invariant is the property with its types.
PageInv == PageTypeOK /\ PagesHaveOneOwner

\* The lowest of some places is one of them.
LEMMA LowestIsIn ==
  ASSUME NEW S \in SUBSET Nat, S # {}
  PROVE  Lowest(S) \in S
<1>1. \E i \in S : \A j \in S : i <= j
  BY LeastNatural
<1>2. QED
  BY <1>1 DEF Lowest

\* Blocks of n pages have n elements, and the pages in use are countable.
LEMMA PagesCount ==
  ASSUME PageTypeOK
  PROVE  /\ IsFiniteSet(page_bitmap)
         /\ Cardinality(page_bitmap) \in Nat
         /\ \A first \in Nat, n \in Nat :
              IsFiniteSet(first .. first + n - 1) /\ Cardinality(first .. first + n - 1) = n
<1>1. IsFiniteSet(0 .. total_pages - 1) /\ page_bitmap \in SUBSET (0 .. total_pages - 1)
  BY FS_Interval DEF PageTypeOK
<1>2. IsFiniteSet(page_bitmap)
  BY <1>1, FS_Subset
<1>3. Cardinality(page_bitmap) \in Nat
  BY <1>2, FS_CardinalityType
<1>4. ASSUME NEW first \in Nat, NEW n \in Nat
      PROVE  IsFiniteSet(first .. first + n - 1) /\ Cardinality(first .. first + n - 1) = n
  BY FS_Interval
<1>5. QED
  BY <1>2, <1>3, <1>4

\* Giving out n pages that fit keeps the invariant, wherever they are.
LEMMA GivingKeepsInv ==
  ASSUME PageInv,
         NEW n \in 1 .. total_pages, NEW align \in Nat \ {0},
         NEW first \in Fits(n, align),
         page_bitmap' = page_bitmap \cup (first .. first + n - 1),
         blocks' = blocks \cup Given(first, n),
         free_pages' = free_pages - n,
         UNCHANGED <<heap_base, total_pages>>
  PROVE  PageInv'
<1> DEFINE new == first .. first + n - 1
<1>1. /\ total_pages \in Nat /\ n \in Nat /\ n > 0 /\ heap_base \in Nat
      /\ first \in 0 .. total_pages - n
      /\ new \cap page_bitmap = {}
      /\ new \subseteq 0 .. total_pages - 1
  BY DEF PageInv, PageTypeOK, Fits
<1>2. /\ IsFiniteSet(page_bitmap) /\ Cardinality(page_bitmap) \in Nat
      /\ IsFiniteSet(new) /\ Cardinality(new) = n
  <2>1. first \in Nat
    BY <1>1
  <2>2. QED
    BY <1>1, <2>1, PagesCount DEF PageInv
<1>3. page_bitmap' = page_bitmap \cup new
  OBVIOUS
<1> HIDE DEF new
<1>4. Cardinality(page_bitmap') = Cardinality(page_bitmap) + n
  <2>1. Cardinality(page_bitmap \cup new)
          = Cardinality(page_bitmap) + Cardinality(new) - Cardinality(page_bitmap \cap new)
    BY <1>2, FS_Union
  <2>2. page_bitmap \cap new = {}
    BY <1>1
  <2>3. QED
    BY <1>2, <1>3, <2>1, <2>2, FS_EmptySet
<1>5. page_bitmap' \subseteq 0 .. total_pages - 1
  BY <1>1, <1>3 DEF PageInv, PageTypeOK
<1>6. Cardinality(page_bitmap') <= total_pages
  <2>1. IsFiniteSet(0 .. total_pages - 1) /\ Cardinality(0 .. total_pages - 1) = total_pages
    BY <1>1, FS_Interval
  <2>2. page_bitmap' \in SUBSET (0 .. total_pages - 1)
    BY <1>5
  <2>3. QED
    BY <2>1, <2>2, FS_Subset
<1>7. /\ free_pages' = total_pages' - Cardinality(page_bitmap')
      /\ free_pages' \in Nat
  BY <1>1, <1>2, <1>4, <1>6 DEF PageInv, PageTypeOK, PagesHaveOneOwner
<1>8. \A b \in Given(first, n) : b \in Blocks /\ b.pages > 0 /\ PagesOf(b) = new
  BY <1>1 DEF Given, Blocks, PagesOf, new
<1>9. PageTypeOK'
  BY <1>1, <1>5, <1>7, <1>8 DEF PageInv, PageTypeOK
<1>10. \A b \in blocks' : PagesOf(b) \subseteq page_bitmap'
  BY <1>3, <1>8 DEF PageInv, PagesHaveOneOwner
<1>11. ASSUME NEW b \in blocks', NEW c \in blocks', b # c
       PROVE  PagesOf(b) \cap PagesOf(c) = {}
  <2>1. \A x \in Given(first, n), y \in Given(first, n) : x = y
    BY DEF Given
  <2>2. \A x \in blocks : PagesOf(x) \cap new = {}
    BY <1>1 DEF PageInv, PagesHaveOneOwner
  <2>3. CASE b \in blocks /\ c \in blocks
    BY <1>11, <2>3 DEF PageInv, PagesHaveOneOwner
  <2>4. CASE b \in blocks /\ c \in Given(first, n)
    BY <1>8, <2>2, <2>4
  <2>5. CASE b \in Given(first, n) /\ c \in blocks
    BY <1>8, <2>2, <2>5
  <2>6. QED
    BY <1>11, <2>1, <2>3, <2>4, <2>5
<1>12. ASSUME heap_base' > 0
       PROVE  page_bitmap' \subseteq UNION {PagesOf(b) : b \in blocks'}
  <2>1. Given(first, n) = {[first |-> first, pages |-> n]}
    BY <1>1, <1>12 DEF Given
  <2>2. new \subseteq UNION {PagesOf(b) : b \in blocks'}
    BY <1>8, <2>1
  <2>3. page_bitmap \subseteq UNION {PagesOf(b) : b \in blocks}
    BY <1>12 DEF PageInv, PagesHaveOneOwner
  <2>4. QED
    BY <1>3, <2>2, <2>3
<1>13. QED
  BY <1>7, <1>9, <1>10, <1>11, <1>12 DEF PageInv, PagesHaveOneOwner

\* Taking back a block that a caller holds keeps the invariant.
LEMMA FreeingKeepsInv ==
  ASSUME PageInv, NEW b \in blocks, FreePages(b)
  PROVE  PageInv'
<1>1. /\ b \in Blocks /\ b.first \in Nat /\ b.pages \in Nat /\ b.pages > 0
      /\ PagesOf(b) \subseteq page_bitmap
      /\ page_bitmap' = page_bitmap \ PagesOf(b)
      /\ blocks' = blocks \ {b}
      /\ free_pages' = free_pages + b.pages
      /\ total_pages' = total_pages /\ heap_base' = heap_base
  BY DEF PageInv, PageTypeOK, PagesHaveOneOwner, FreePages, Blocks
<1>2. /\ IsFiniteSet(page_bitmap) /\ Cardinality(page_bitmap) \in Nat
      /\ Cardinality(PagesOf(b)) = b.pages
  BY <1>1, PagesCount DEF PageInv, PagesOf
<1>3. Cardinality(page_bitmap') = Cardinality(page_bitmap) - b.pages
  <2>1. Cardinality(page_bitmap \ PagesOf(b))
          = Cardinality(page_bitmap) - Cardinality(page_bitmap \cap PagesOf(b))
    BY <1>2, FS_Difference
  <2>2. page_bitmap \cap PagesOf(b) = PagesOf(b)
    BY <1>1
  <2>3. QED
    BY <1>1, <1>2, <2>1, <2>2
<1>4. free_pages' = total_pages' - Cardinality(page_bitmap')
  BY <1>1, <1>2, <1>3 DEF PageInv, PageTypeOK, PagesHaveOneOwner
<1>5. PageTypeOK'
  <2>1. /\ heap_base \in Nat /\ total_pages \in Nat /\ free_pages \in Nat
        /\ page_bitmap \subseteq 0 .. total_pages - 1
        /\ blocks \subseteq Blocks /\ \A c \in blocks : c.pages > 0
    BY DEF PageInv, PageTypeOK
  <2>2. heap_base' \in Nat /\ total_pages' \in Nat /\ free_pages' \in Nat
    BY <1>1, <2>1
  <2>3. page_bitmap' \subseteq 0 .. total_pages' - 1
    BY <1>1, <2>1
  <2>4. blocks' \subseteq blocks
    BY <1>1
  <2>5. blocks' \subseteq Blocks /\ \A c \in blocks' : c.pages > 0
    BY <2>1, <2>4
  <2>6. Blocks' = Blocks
    BY DEF Blocks
  <2>7. QED
    BY <2>2, <2>3, <2>5, <2>6 DEF PageTypeOK
<1>6. \A c \in blocks' : PagesOf(c) \cap PagesOf(b) = {} /\ PagesOf(c) \subseteq page_bitmap
  BY <1>1 DEF PageInv, PagesHaveOneOwner
<1>7. \A c \in blocks' : PagesOf(c) \subseteq page_bitmap'
  BY <1>1, <1>6
<1>8. \A c, d \in blocks' : c # d => PagesOf(c) \cap PagesOf(d) = {}
  BY <1>1 DEF PageInv, PagesHaveOneOwner
<1>9. ASSUME heap_base' > 0
      PROVE  page_bitmap' \subseteq UNION {PagesOf(c) : c \in blocks'}
  <2>1. page_bitmap \subseteq UNION {PagesOf(c) : c \in blocks}
    BY <1>1, <1>9 DEF PageInv, PagesHaveOneOwner
  <2>2. QED
    BY <1>1, <2>1
<1>10. QED
  BY <1>4, <1>5, <1>7, <1>8, <1>9 DEF PageInv, PagesHaveOneOwner

LEMMA PageInvInit == PageInit => PageInv
<1> SUFFICES ASSUME PageInit PROVE PageInv
  OBVIOUS
<1>1. PageTypeOK
  BY DEF PageInit, PageTypeOK
<1>2. PagesHaveOneOwner
  BY FS_EmptySet DEF PageInit, PagesHaveOneOwner
<1>3. QED
  BY <1>1, <1>2 DEF PageInv

LEMMA PageInvStep == PageInv /\ [PageNext]_pavars => PageInv'
<1> SUFFICES ASSUME PageInv, [PageNext]_pavars PROVE PageInv'
  OBVIOUS
<1>1. ASSUME NEW base \in HeapBases, NEW size \in HeapSizes, InitAllocator(base, size)
      PROVE  PageInv'
  <2>1. base \in Nat /\ size \in Nat /\ MaxPages \in Nat
    BY PageAllocatorAssumption
  <2>2. PageTypeOK'
    BY <1>1, <2>1 DEF InitAllocator, PageTypeOK
  <2>3. PagesHaveOneOwner'
    BY <1>1, <2>1, FS_EmptySet DEF InitAllocator, PagesHaveOneOwner
  <2>4. QED
    BY <2>2, <2>3 DEF PageInv
<1>2. ASSUME NEW n \in 1 .. total_pages, NEW align \in Nat \ {0}, Fits(n, align) # {}
      PROVE  Lowest(Fits(n, align)) \in Fits(n, align)
  <2>1. Fits(n, align) \in SUBSET Nat
    BY DEF Fits, PageInv, PageTypeOK
  <2>2. QED
    BY <1>2, <2>1, LowestIsIn
<1>3. ASSUME NEW n \in 1 .. total_pages, AllocPages(n)
      PROVE  PageInv'
  <2>1. Lowest(Fits(n, 1)) \in Fits(n, 1)
    BY <1>2, <1>3 DEF AllocPages
  <2>2. QED
    BY <1>3, <2>1, GivingKeepsInv DEF AllocPages
<1>4. ASSUME NEW n \in 1 .. total_pages, NEW align \in Alignments, AllocAligned(n, align)
      PROVE  PageInv'
  <2>1. align \in Nat \ {0}
    BY PageAllocatorAssumption
  <2>2. Lowest(Fits(n, align)) \in Fits(n, align)
    BY <1>2, <1>4, <2>1 DEF AllocAligned
  <2>3. QED
    BY <1>4, <2>1, <2>2, GivingKeepsInv DEF AllocAligned
<1>5. ASSUME NEW b \in blocks, FreePages(b)
      PROVE  PageInv'
  BY <1>5, FreeingKeepsInv
<1>6. CASE UNCHANGED pavars
  BY <1>6 DEF pavars, PageInv, PageTypeOK, PagesHaveOneOwner
<1>7. QED
  BY <1>1, <1>3, <1>4, <1>5, <1>6 DEF PageNext

\* No page is ever given to two callers, and the count of free pages is the
\* number of clear bits, for every heap, size and alignment
\* (bootmem_alloc_pages, bootmem_alloc_aligned, bootmem_free_pages).
THEOREM PagesAreOwned == PageSpec => []PagesHaveOneOwner
<1>1. PageInv => PagesHaveOneOwner
  BY DEF PageInv
<1>2. QED
  BY PageInvInit, PageInvStep, <1>1, PTL DEF PageSpec

-----------------------------------------------------------------------------
(* The order of modules.                                                   *)

\* An order under way: every module at most once, and behind those it depends on.
Ordered(out) ==
  /\ out \in Seq(1 .. Len(modules))
  /\ \A a, b \in 1 .. Len(out) : out[a] = out[b] => a = b
  /\ \A i \in 1 .. Len(out) : \A k \in KnownDeps(out[i]) : \E m \in 1 .. i - 1 : out[m] = k

LEMMA BuildType ==
  ASSUME NEW out \in Seq(1 .. Len(modules)), NEW j \in 1 .. Len(modules)
  PROVE  Build(out, j) \in Seq(1 .. Len(modules))
<1>1. Append(out, j) \in Seq(1 .. Len(modules))
  OBVIOUS
<1> HIDE DEF KnownDeps
<1>2. Build(out, j) = out \/ Build(out, j) = Append(out, j)
  BY DEF Build
<1>3. QED
  BY <1>1, <1>2

LEMMA BuildKeepsOrder ==
  ASSUME NEW out, Ordered(out), NEW j \in 1 .. Len(modules)
  PROVE  /\ Ordered(Build(out, j))
         /\ ToSet(out) \subseteq ToSet(Build(out, j))
         /\ KnownDeps(j) \subseteq ToSet(out) => j \in ToSet(Build(out, j))
<1> DEFINE n == Len(out)
           longer == Append(out, j)
<1>1. /\ n \in Nat /\ DOMAIN out = 1 .. n /\ out \in Seq(1 .. Len(modules))
      /\ longer \in Seq(1 .. Len(modules)) /\ Len(longer) = n + 1 /\ DOMAIN longer = 1 .. (n + 1)
      /\ longer[n + 1] = j /\ \A i \in 1 .. n : longer[i] = out[i]
  BY DEF Ordered
<1>2. CASE j \notin ToSet(out) /\ KnownDeps(j) \subseteq ToSet(out)
  <2>1. Build(out, j) = longer
    BY <1>2 DEF Build
  <2> HIDE DEF n, longer
  <2>2. \A i \in 1 .. (n + 1) : i = n + 1 \/ i \in 1 .. n
    BY <1>1
  <2>3. \A i \in 1 .. n : out[i] # j
    BY <1>1, <1>2 DEF ToSet
  <2>4. ASSUME NEW a \in 1 .. (n + 1), NEW b \in 1 .. (n + 1), longer[a] = longer[b]
        PROVE  a = b
    BY <1>1, <2>2, <2>3, <2>4 DEF Ordered, n
  <2>5. ASSUME NEW i \in 1 .. (n + 1), NEW k \in KnownDeps(longer[i])
        PROVE  \E m \in 1 .. i - 1 : longer[m] = k
    <3>1. CASE i = n + 1
      <4>1. k \in ToSet(out)
        BY <1>1, <1>2, <2>5, <3>1
      <4>2. PICK m \in 1 .. n : out[m] = k
        BY <1>1, <4>1 DEF ToSet
      <4>3. m \in 1 .. i - 1 /\ longer[m] = k
        BY <1>1, <3>1, <4>2
      <4>4. QED
        BY <4>3
    <3>2. CASE i # n + 1
      <4>1. i \in 1 .. n /\ k \in KnownDeps(out[i])
        BY <1>1, <2>2, <2>5, <3>2
      <4>2. PICK m \in 1 .. i - 1 : out[m] = k
        BY <4>1 DEF Ordered, n
      <4>3. m \in 1 .. n
        BY <1>1, <4>1, <4>2
      <4>4. QED
        BY <1>1, <4>2, <4>3
    <3>3. QED
      BY <3>1, <3>2
  <2>6. Ordered(longer)
    BY <1>1, <2>4, <2>5 DEF Ordered
  <2>7. ToSet(out) \subseteq ToSet(longer) /\ j \in ToSet(longer)
    <3>1. \A i \in 1 .. n : i \in 1 .. (n + 1)
      BY <1>1
    <3>2. n + 1 \in 1 .. (n + 1)
      BY <1>1
    <3>3. QED
      BY <1>1, <3>1, <3>2 DEF ToSet
  <2>8. QED
    BY <2>1, <2>6, <2>7
<1>3. CASE ~(j \notin ToSet(out) /\ KnownDeps(j) \subseteq ToSet(out))
  BY <1>3 DEF Build
<1>4. QED
  BY <1>2, <1>3

\* A pass has a run, and ends where the run ends.
LEMMA SweepRuns ==
  ASSUME NEW N \in Nat, N = Len(modules), NEW built \in Seq(1 .. N)
  PROVE  \E f \in [0 .. N -> Seq(1 .. N)] :
           f[0] = built /\ (\A j \in 1 .. N : f[j] = Build(f[j - 1], j)) /\ Sweep(built) = f[N]
<1> DEFINE X == Seq(1 .. N)
           g == [j \in 1 .. N |-> [out \in X |-> Build(out, j)]]
           IsRun(f) == f = [j \in 0 .. N |-> IF j = 0 THEN built ELSE Build(f[j - 1], j)]
<1>1. g \in [1 .. N -> [X -> X]]
  BY BuildType
<1>2. \E f \in [0 .. N -> X] : f[0] = built /\ \A j \in 1 .. N : f[j] = g[j][f[j - 1]]
  <2>1. PICK steps : steps = g
    OBVIOUS
  <2> HIDE DEF g
  <2>2. steps \in [1 .. N -> [X -> X]]
    BY <1>1, <2>1
  <2>3. \E f : Iterates(f, X, built, N, steps)
    BY <2>2, IteratesExists
  <2>4. QED
    BY <2>1, <2>3 DEF Iterates
<1>3. PICK f \in [0 .. N -> X] : f[0] = built /\ \A j \in 1 .. N : f[j] = g[j][f[j - 1]]
  BY <1>2
<1>4. ASSUME NEW j \in 1 .. N PROVE f[j - 1] \in X /\ f[j] = Build(f[j - 1], j)
  <2>1. j - 1 \in 0 .. N
    OBVIOUS
  <2>2. f[j - 1] \in X
    BY <1>3, <2>1
  <2>3. g[j][f[j - 1]] = Build(f[j - 1], j)
    <3> HIDE DEF X
    <3>1. QED
      BY <2>2
  <2>4. QED
    BY <1>3, <2>2, <2>3
<1>5. IsRun(f)
  <2>1. \A j \in 0 .. N : j # 0 => j \in 1 .. N
    OBVIOUS
  <2>2. QED
    BY <1>3, <1>4, <2>1
<1> DEFINE h == CHOOSE f1 : IsRun(f1)
<1>6. IsRun(h)
  BY <1>5
<1>7. Sweep(built) = h[N]
  BY DEF Sweep
<1> HIDE DEF h
<1>8. h[0] = built /\ \A j \in 1 .. N : h[j] = Build(h[j - 1], j)
  <2>1. 0 \in 0 .. N /\ \A j \in 1 .. N : j \in 0 .. N /\ j # 0
    OBVIOUS
  <2>2. QED
    BY <1>6, <2>1
<1> DEFINE S == {j \in Nat : j <= N => h[j] = f[j]}
<1>9. 0 \in S
  BY <1>3, <1>8
<1>10. ASSUME NEW j \in Nat, j \in S PROVE j + 1 \in S
  <2> SUFFICES ASSUME j + 1 <= N PROVE h[j + 1] = f[j + 1]
    OBVIOUS
  <2>1. j + 1 \in 1 .. N /\ (j + 1) - 1 = j /\ h[j] = f[j]
    BY <1>10
  <2>2. QED
    BY <1>4, <1>8, <2>1
<1>11. \A j \in Nat : j \in S
  <2> HIDE DEF S
  <2>1. QED
    BY <1>9, <1>10, NaturalsClosed
<1>12. h[N] = f[N]
  BY <1>11
<1>13. QED
  BY <1>3, <1>4, <1>7, <1>12

\* A pass keeps the order and builds every module that was ready for it.
LEMMA SweepKeepsOrder ==
  ASSUME Len(modules) \in Nat, NEW built, Ordered(built)
  PROVE  /\ Ordered(Sweep(built))
         /\ ToSet(built) \subseteq ToSet(Sweep(built))
         /\ \A j \in 1 .. Len(modules) : KnownDeps(j) \subseteq ToSet(built) => j \in ToSet(Sweep(built))
<1> PICK N \in Nat : N = Len(modules)
  OBVIOUS
<1>1. built \in Seq(1 .. N)
  BY DEF Ordered
<1>2. PICK f \in [0 .. N -> Seq(1 .. N)] :
        f[0] = built /\ (\A j \in 1 .. N : f[j] = Build(f[j - 1], j)) /\ Sweep(built) = f[N]
  BY <1>1, SweepRuns
<1> DEFINE Kept(n) == /\ Ordered(f[n]) /\ ToSet(built) \subseteq ToSet(f[n])
                      /\ \A j \in 1 .. n : KnownDeps(j) \subseteq ToSet(built) => j \in ToSet(f[n])
           S == {n \in Nat : n <= N => Kept(n)}
<1>3. 0 \in S
  BY <1>2
<1>4. ASSUME NEW n \in Nat, n \in S PROVE n + 1 \in S
  <2> SUFFICES ASSUME n + 1 <= N PROVE Kept(n + 1)
    OBVIOUS
  <2> DEFINE m == n + 1
  <2>1. m \in 1 .. N /\ m - 1 = n /\ m \in 1 .. Len(modules) /\ \A j \in 1 .. m : j = m \/ j \in 1 .. n
    OBVIOUS
  <2>2. Kept(n)
    BY <1>4
  <2> HIDE DEF m
  <2>3. f[m] = Build(f[n], m)
    BY <1>2, <2>1
  <2>4. /\ Ordered(f[m]) /\ ToSet(f[n]) \subseteq ToSet(f[m])
        /\ KnownDeps(m) \subseteq ToSet(f[n]) => m \in ToSet(f[m])
    BY <2>1, <2>2, <2>3, BuildKeepsOrder
  <2>5. Kept(m)
    BY <2>1, <2>2, <2>4
  <2>6. QED
    BY <2>5 DEF m
<1>5. \A n \in Nat : n \in S
  <2> HIDE DEF S
  <2>1. QED
    BY <1>3, <1>4, NaturalsClosed
<1>6. Kept(N)
  BY <1>5
<1>7. QED
  BY <1>2, <1>6

\* All passes have a run in which every order is the one before, swept.
LEMMA PassesRun ==
  ASSUME NEW N \in Nat, N = Len(modules)
  PROVE  \E f : /\ f[0] = << >> /\ \A n \in 1 .. N : f[n] = Sweep(f[n - 1])
                /\ \A n \in 0 .. N : Ordered(f[n])
                /\ LoadOrder = f[N]
<1> DEFINE X == {out \in Seq(1 .. N) : Ordered(out)}
           g == [n \in 1 .. N |-> [out \in X |-> Sweep(out)]]
           none == << >>
           IsRun(f) == f = [n \in 0 .. N |-> IF n = 0 THEN << >> ELSE Sweep(f[n - 1])]
<1>1. none \in X
  BY DEF Ordered
<1>2. \A out \in X : Sweep(out) \in X
  BY SweepKeepsOrder DEF Ordered
<1>3. \E f : Iterates(f, X, none, N, g)
  <2>1. PICK Y, steps : Y = X /\ steps = g
    OBVIOUS
  <2>2. steps \in [1 .. N -> [Y -> Y]] /\ none \in Y
    BY <1>1, <1>2, <2>1
  <2> HIDE DEF g, X, none
  <2>3. \E f : Iterates(f, Y, none, N, steps)
    BY <2>2, IteratesExists
  <2>4. QED
    BY <2>1, <2>3
<1>4. PICK f : Iterates(f, X, none, N, g)
  BY <1>3
<1>5. /\ f \in [0 .. N -> X] /\ f[0] = none
      /\ \A n \in 1 .. N : f[n] = g[n][f[n - 1]]
  BY <1>4 DEF Iterates
<1>6. ASSUME NEW n \in 1 .. N PROVE f[n - 1] \in X /\ f[n] = Sweep(f[n - 1])
  <2>1. n - 1 \in 0 .. N
    OBVIOUS
  <2>2. f[n - 1] \in X
    BY <1>5, <2>1
  <2>3. g[n][f[n - 1]] = Sweep(f[n - 1])
    <3> HIDE DEF X
    <3>1. QED
      BY <2>2
  <2>4. QED
    BY <1>5, <2>2, <2>3
<1>7. IsRun(f)
  <2>1. \A n \in 0 .. N : n # 0 => n \in 1 .. N
    OBVIOUS
  <2>2. QED
    BY <1>5, <1>6, <2>1
<1> DEFINE h == CHOOSE f1 : IsRun(f1)
<1>8. IsRun(h) /\ LoadOrder = h[N]
  BY <1>7 DEF LoadOrder
<1> HIDE DEF h
<1>9. h[0] = none /\ \A n \in 1 .. N : h[n] = Sweep(h[n - 1])
  <2>1. 0 \in 0 .. N /\ \A n \in 1 .. N : n \in 0 .. N /\ n # 0
    OBVIOUS
  <2>2. QED
    BY <1>8, <2>1
<1> DEFINE S == {n \in Nat : n <= N => h[n] = f[n]}
<1>10. 0 \in S
  BY <1>5, <1>9
<1>11. ASSUME NEW n \in Nat, n \in S PROVE n + 1 \in S
  <2> SUFFICES ASSUME n + 1 <= N PROVE h[n + 1] = f[n + 1]
    OBVIOUS
  <2>1. n + 1 \in 1 .. N /\ (n + 1) - 1 = n /\ h[n] = f[n]
    BY <1>11
  <2>2. QED
    BY <1>6, <1>9, <2>1
<1>12. \A n \in Nat : n \in S
  <2> HIDE DEF S
  <2>1. QED
    BY <1>10, <1>11, NaturalsClosed
<1>13. h[N] = f[N]
  BY <1>12
<1>14. QED
  BY <1>5, <1>6, <1>8, <1>13

\* An order holds as many modules as it is long.
LEMMA OrderCounts ==
  ASSUME Len(modules) \in Nat, NEW out, Ordered(out)
  PROVE  /\ ToSet(out) \subseteq 1 .. Len(modules) /\ IsFiniteSet(ToSet(out))
         /\ Cardinality(ToSet(out)) = Len(out)
<1> DEFINE n == Len(out)
<1>1. n \in Nat /\ DOMAIN out = 1 .. n /\ out \in [1 .. n -> ToSet(out)] /\ ToSet(out) \subseteq 1 .. Len(modules)
  BY DEF Ordered, ToSet
<1>2. out \in Injection(1 .. n, ToSet(out))
  BY <1>1 DEF Ordered, Injection, IsInjective
<1>3. out \in Surjection(1 .. n, ToSet(out))
  BY <1>1 DEF Surjection, ToSet
<1>4. IsFiniteSet(1 .. n) /\ Cardinality(1 .. n) = n
  BY <1>1, UpToCardinality
<1> HIDE DEF n
<1>5. IsFiniteSet(ToSet(out)) /\ (Cardinality(ToSet(out)) = Cardinality(1 .. n) <=> out \in Injection(1 .. n, ToSet(out)))
  BY <1>3, <1>4, FS_Surjection
<1>6. QED
  BY <1>1, <1>2, <1>4, <1>5 DEF n

\* When no modules wait for each other every pass builds one more, until all are built.
LEMMA PassesBuild ==
  ASSUME NEW N \in Nat, N = Len(modules), ~\E S \in SUBSET DOMAIN modules : Stuck(S),
         DOMAIN modules = 1 .. N, NEW n \in 0 .. N - 1,
         NEW out, Ordered(out), Cardinality(ToSet(out)) >= n
  PROVE  Cardinality(ToSet(Sweep(out))) >= n + 1
<1> DEFINE T == ToSet(out)
           U == ToSet(Sweep(out))
           R == (1 .. N) \ T
<1>1. /\ Ordered(Sweep(out)) /\ T \subseteq U
      /\ \A j \in 1 .. N : KnownDeps(j) \subseteq T => j \in U
  BY SweepKeepsOrder
<1>2. /\ T \subseteq 1 .. N /\ IsFiniteSet(T) /\ Cardinality(T) \in Nat
      /\ U \subseteq 1 .. N /\ IsFiniteSet(U) /\ Cardinality(U) \in Nat
  BY <1>1, OrderCounts, FS_CardinalityType
<1>3. CASE R = {}
  <2>1. U = 1 .. N
    BY <1>1, <1>2, <1>3
  <2>2. Cardinality(U) = N
    BY <2>1, UpToCardinality
  <2>3. QED
    BY <2>2
<1>4. CASE R # {}
  <2>1. ~Stuck(R)
    OBVIOUS
  <2>2. PICK j \in R : KnownDeps(j) \cap R = {}
    BY <1>4, <2>1 DEF Stuck
  <2>3. KnownDeps(j) \subseteq 1 .. N
    BY DEF KnownDeps
  <2>4. j \in U /\ j \notin T
    BY <1>1, <2>2, <2>3
  <2>5. T \cup {j} \subseteq U
    BY <1>1, <2>4
  <2> HIDE DEF T, U, R
  <2>6. Cardinality(T \cup {j}) = Cardinality(T) + 1
    BY <1>2, <2>4, FS_AddElement
  <2>7. Cardinality(T \cup {j}) <= Cardinality(U)
    BY <1>2, <2>5, FS_Subset
  <2>8. Cardinality(T) >= n
    BY DEF T
  <2>9. Cardinality(U) >= n + 1
    BY <1>2, <2>6, <2>7, <2>8
  <2>10. QED
    BY <2>9 DEF U
<1>5. QED
  BY <1>3, <1>4

LEMMA OrderIsFound == GrubTypeOK => OrderRespectsDependencies
<1> SUFFICES ASSUME GrubTypeOK PROVE OrderRespectsDependencies
  OBVIOUS
<1> PICK N \in Nat : N = Len(modules) /\ DOMAIN modules = 1 .. N
  BY DEF GrubTypeOK
<1>1. PICK f : /\ f[0] = << >> /\ \A n \in 1 .. N : f[n] = Sweep(f[n - 1])
               /\ \A n \in 0 .. N : Ordered(f[n])
               /\ LoadOrder = f[N]
  BY PassesRun
<1>2. Ordered(LoadOrder)
  BY <1>1
<1>3. /\ LoadOrder \in Seq(1 .. N) /\ Len(LoadOrder) \in Nat /\ DOMAIN LoadOrder = 1 .. Len(LoadOrder)
      /\ ToSet(LoadOrder) \subseteq 1 .. N /\ Cardinality(ToSet(LoadOrder)) = Len(LoadOrder)
  <2>1. LoadOrder \in Seq(1 .. N)
    BY <1>2 DEF Ordered
  <2>2. Len(LoadOrder) \in Nat /\ DOMAIN LoadOrder = 1 .. Len(LoadOrder)
    BY <2>1
  <2>3. ToSet(LoadOrder) \subseteq 1 .. N /\ Cardinality(ToSet(LoadOrder)) = Len(LoadOrder)
    BY <1>2, OrderCounts
  <2>4. QED
    BY <2>1, <2>2, <2>3
<1>4. ASSUME Resolves, NEW S \in SUBSET DOMAIN modules, Stuck(S) PROVE FALSE
  <2>1. Cardinality(ToSet(LoadOrder)) = N
    BY <1>3, <1>4 DEF Resolves
  <2>2. ToSet(LoadOrder) = 1 .. N
    BY <1>3, <2>1, UpToCardinality, FS_Subset
  <2> DEFINE at == {i \in 1 .. Len(LoadOrder) : LoadOrder[i] \in S}
  <2>3. at \in SUBSET Nat /\ at # {}
    <3>1. PICK k \in S : k \in 1 .. N
      BY <1>4 DEF Stuck
    <3>2. PICK i \in 1 .. Len(LoadOrder) : LoadOrder[i] = k
      BY <1>3, <2>2, <3>1 DEF ToSet
    <3>3. i \in at
      BY <3>1, <3>2
    <3>4. QED
      BY <1>3, <3>3
  <2>4. PICK i \in at : \A j \in at : i <= j
    <3> HIDE DEF at
    <3>1. QED
      BY <2>3, LeastNatural
  <2>5. PICK k : k \in KnownDeps(LoadOrder[i]) /\ k \in S
    BY <1>4, <2>4 DEF Stuck
  <2>6. PICK m \in 1 .. i - 1 : LoadOrder[m] = k
    BY <1>2, <2>4, <2>5 DEF Ordered
  <2>7. m \in at /\ ~(i <= m)
    BY <1>3, <2>4, <2>5, <2>6
  <2>8. QED
    BY <2>4, <2>7
<1>5. ASSUME ~\E S \in SUBSET DOMAIN modules : Stuck(S) PROVE Resolves
  <2> DEFINE P == {n \in Nat : n <= N => Cardinality(ToSet(f[n])) >= n}
  <2>1. 0 \in P
    <3>1. 0 \in 0 .. N
      OBVIOUS
    <3>2. Cardinality(ToSet(f[0])) \in Nat
      BY <1>1, <3>1, OrderCounts, FS_CardinalityType
    <3>3. QED
      BY <3>2
  <2>2. ASSUME NEW n \in Nat, n \in P PROVE n + 1 \in P
    <3> SUFFICES ASSUME n + 1 <= N PROVE Cardinality(ToSet(f[n + 1])) >= n + 1
      OBVIOUS
    <3>1. n \in 0 .. N - 1 /\ n \in 0 .. N /\ n + 1 \in 1 .. N /\ (n + 1) - 1 = n
      OBVIOUS
    <3>2. f[n + 1] = Sweep(f[n]) /\ Ordered(f[n]) /\ Cardinality(ToSet(f[n])) >= n
      BY <1>1, <2>2, <3>1
    <3>3. Cardinality(ToSet(Sweep(f[n]))) >= n + 1
      BY <1>5, <3>1, <3>2, PassesBuild
    <3>4. QED
      BY <3>2, <3>3
  <2>3. \A n \in Nat : n \in P
    <3> HIDE DEF P
    <3>1. QED
      BY <2>1, <2>2, NaturalsClosed
  <2>4. Len(LoadOrder) >= N
    BY <1>1, <1>3, <2>3
  <2>5. Len(LoadOrder) <= N
    BY <1>3, UpToCardinality, FS_Subset
  <2>6. QED
    <3>1. \A l \in Nat : l >= N /\ l <= N => l = N
      OBVIOUS
    <3>2. Len(LoadOrder) \in Nat
      BY <1>3
    <3>3. Len(LoadOrder) = N
      BY <2>4, <2>5, <3>1, <3>2
    <3>4. QED
      BY <3>3 DEF Resolves
<1>6. IsInjective(LoadOrder)
  BY <1>2, <1>3 DEF Ordered, IsInjective
<1>7. ASSUME NEW i \in DOMAIN LoadOrder
      PROVE  KnownDeps(LoadOrder[i]) \subseteq {LoadOrder[k] : k \in 1 .. i - 1}
  <2>1. \A k \in KnownDeps(LoadOrder[i]) : \E m \in 1 .. i - 1 : LoadOrder[m] = k
    BY <1>2, <1>3 DEF Ordered
  <2>2. QED
    BY <2>1
<1>8. QED
  BY <1>4, <1>5, <1>6, <1>7 DEF OrderRespectsDependencies

\* Whatever is loaded, modules that do not wait for each other get an order, each behind
\* those it depends on, and others get none (grub_dependency_resolve).
THEOREM DependenciesComeFirst == GrubSpec => []OrderRespectsDependencies
<1>1. GrubInit => GrubTypeOK
  BY GrubAssumption DEF GrubInit, GrubTypeOK
<1>2. GrubTypeOK /\ [GrubNext]_gmvars => GrubTypeOK'
  <2> SUFFICES ASSUME GrubTypeOK, [GrubNext]_gmvars PROVE GrubTypeOK'
    OBVIOUS
  <2>1. CASE ModuleListInit
    BY <2>1, GrubAssumption DEF ModuleListInit, GrubTypeOK
  <2>2. ASSUME NEW deps \in Dependencies, LoadModule(deps) PROVE GrubTypeOK'
    BY <2>2, GrubAssumption DEF LoadModule, GrubTypeOK
  <2>3. CASE UNCHANGED gmvars
    BY <2>3 DEF gmvars, GrubTypeOK
  <2>4. QED
    BY <2>1, <2>2, <2>3 DEF GrubNext
<1>3. GrubTypeOK => OrderRespectsDependencies
  BY OrderIsFound
<1>4. QED
  BY <1>1, <1>2, <1>3, PTL DEF GrubSpec
=============================================================================
