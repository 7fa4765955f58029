----------------------------- MODULE BootPhases -----------------------------
(***************************************************************************)
(* The boot phases of mini-boot-process/src/boot_phases.c over cache as     *)
(* RAM: SEC and PEI set it up and tear it down with CARStates of their own, *)
(* on the lines every other user has too.                                  *)
(*                                                                         *)
(* boot_transition may skip phases and start over, and the functions of the *)
(* phases are public.  CPU, DDR training, SPD data and the PCI scan live in *)
(* local variables of boot_pei_phase and leave nothing behind but the       *)
(* memory map, whose contents are left out: only the sizes of the hand-off  *)
(* blocks are kept.                                                        *)
(***************************************************************************)
EXTENDS CacheAsRam

VARIABLES
  current_phase,
  handoff,              \* phase_handoff_blocks: fv_count and memory_map_count
  phase_complete,
  cache_as_ram_active,
  ran,                  \* history: the phases that ran since SEC, or since boot_init
  car_touched           \* history: another user has used a car since SEC or PEI

bpvars == <<carvars, current_phase, handoff, phase_complete, cache_as_ram_active,
            ran, car_touched>>
phasevars == <<current_phase, handoff, phase_complete, cache_as_ram_active, ran>>

SEC == 0
PEI == 1
DXE == 2
BDS == 3
TSL == 4
RT  == 5
Phases == SEC .. RT

NoHandOff == [fv_count |-> 0, memory_map_count |-> 0]

\* boot_init.
BootStateInit ==
  /\ current_phase = SEC
  /\ handoff = [p \in Phases |-> NoHandOff]
  /\ phase_complete = [p \in Phases |-> FALSE]
  /\ cache_as_ram_active = FALSE
  /\ ran = {}
  /\ car_touched = FALSE

BootPhasesInit == CarInitState /\ BootStateInit

\* The hand-off block of a phase; PEI passes on the seven entries of
\* mem_build_map.
HandOffOf(phase) ==
  CASE phase = SEC -> [fv_count |-> 2, memory_map_count |-> 4]
    [] phase = PEI -> [fv_count |-> 3, memory_map_count |-> 7]
    [] phase = DXE -> [fv_count |-> 4, memory_map_count |-> 1]
    [] phase = BDS -> [fv_count |-> 5, memory_map_count |-> 2]

\* What every phase function does last.
Complete(phase) ==
  /\ handoff' = [handoff EXCEPT ![phase] = HandOffOf(phase)]
  /\ phase_complete' = [phase_complete EXCEPT ![phase] = TRUE]

\* boot_sec_phase: a new car, enabled, which outlives its CARState.
SecPhase ==
  /\ Complete(SEC)
  /\ lines' = [NoLines EXCEPT ![0] = Pattern]
  /\ g_car_global' = TRUE
  /\ cache_as_ram_active' = TRUE
  /\ ran' = {SEC}
  /\ car_touched' = FALSE
  /\ CallBy({}, NoLines, NoLines)
  /\ UNCHANGED enabled

\* Mutant: PEI tears down the car and does not say so.
PeiPhaseKeepsFlag ==
  /\ Complete(PEI)
  /\ lines' = NoLines
  /\ g_car_global' = FALSE
  /\ ran' = ran \cup {PEI}
  /\ car_touched' = FALSE
  /\ CallBy({}, NoLines, NoLines)
  /\ UNCHANGED <<enabled, cache_as_ram_active>>

\* boot_pei_phase: a second car is set up and torn down, and with it the lines
\* of SEC.
PeiPhase ==
  /\ Complete(PEI)
  /\ lines' = NoLines
  /\ g_car_global' = FALSE
  /\ cache_as_ram_active' = FALSE
  /\ ran' = ran \cup {PEI}
  /\ car_touched' = FALSE
  /\ CallBy({}, NoLines, NoLines)
  /\ UNCHANGED enabled

\* boot_dxe_phase, boot_bds_phase.
LatePhase(phase) ==
  /\ phase \in {DXE, BDS}
  /\ Complete(phase)
  /\ ran' = ran \cup {phase}
  /\ UNCHANGED <<carvars, cache_as_ram_active, car_touched>>

\* TSL and RT are entered without a phase function.
NoPhase(phase) ==
  /\ phase \in {TSL, RT}
  /\ UNCHANGED <<carvars, handoff, phase_complete, cache_as_ram_active, ran, car_touched>>

RunPhase(phase) ==
  \/ phase = SEC /\ SecPhase
  \/ phase = PEI /\ PeiPhase
  \/ LatePhase(phase)
  \/ NoPhase(phase)

\* boot_transition: forward, or back to SEC.
Transition(next) ==
  /\ next > current_phase \/ next = SEC
  /\ current_phase' = next
  /\ RunPhase(next)

\* A phase function called directly does its work in its own phase only.
PhaseFunction ==
  /\ current_phase \notin {TSL, RT}
  /\ RunPhase(current_phase)
  /\ UNCHANGED current_phase

\* Other users of cache as RAM.
CarUser ==
  /\ CarNext
  /\ car_touched' = TRUE
  /\ UNCHANGED phasevars

BootPhasesNext ==
  \/ \E next \in Phases : Transition(next)
  \/ PhaseFunction
  \/ CarUser

BootPhasesSpec == BootPhasesInit /\ [][BootPhasesNext]_bpvars

-----------------------------------------------------------------------------
(* Properties.                                                             *)

BootPhasesTypeOK ==
  /\ CarTypeOK
  /\ current_phase \in Phases
  /\ phase_complete \in [Phases -> BOOLEAN]
  /\ cache_as_ram_active \in BOOLEAN
  /\ DOMAIN handoff = Phases

\* However phases are skipped, repeated and started over, the boot state tells
\* the truth about cache as RAM: it is active from SEC until PEI has run, is
\* switched on while nobody else has used it, and is off after PEI.  Phases
\* that ran since SEC have handed over, and none of them is ahead of the
\* current one.
CarFollowsPhases ==
  /\ cache_as_ram_active <=> SEC \in ran /\ PEI \notin ran
  /\ ~car_touched => (g_car_global <=> cache_as_ram_active)
  /\ \A p \in ran : p <= current_phase /\ phase_complete[p] /\ handoff[p] = HandOffOf(p)
=============================================================================
