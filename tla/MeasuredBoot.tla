---------------------------- MODULE MeasuredBoot ----------------------------
(***************************************************************************)
(* The measuring half of mini-measured-boot: the PCR bank (pcr_bank.c), the *)
(* TCG event log (event_log.c) and the static and dynamic roots of trust    *)
(* that write both (crtm_drtm.c).                                           *)
(*                                                                         *)
(* Each measure function is one call that extends one or two PCRs and then *)
(* appends one event.  The calls come in any order, any number of times:    *)
(* nothing in the flow objects orders the stages.                           *)
(*                                                                         *)
(* Abstracted: SHA-256 is collision free, so the value of a PCR is the      *)
(* sequence of digests extended into it since it was last zero, and the     *)
(* replay of a log is the sequence of its digests.  Event types and data,   *)
(* and the copies of the digests in the flow objects, are not read back.    *)
(***************************************************************************)
EXTENDS Integers, Sequences

CONSTANTS
  Stages,       \* the stages that are measured, a subset of AllStages
  Digests,      \* the digests a stage may have
  MaxEvents,    \* MAX_EVENTS (128)
  MaxExtends    \* bound of the model: MaxExtends[p] digests in PCR p

AllStages == {"bios", "option_rom", "mbr", "bootloader", "os",
              "sinit", "mle", "drtm_os"}

\* The PCRs some stage writes; the others stay zero.
PCRs        == {0, 2, 4, 8, 17, 18, 19}
DynamicPCRs == {17, 18, 19}
StaticPCRs  == PCRs \ DynamicPCRs

ASSUME MeasuredBootAssumption ==
  /\ Stages \subseteq AllStages
  /\ MaxEvents \in Nat
  /\ MaxExtends \in [PCRs -> Nat]

VARIABLES
  pcr,              \* pcr[i]: the digests extended into PCR i
  event_log,        \* events[0 .. event_count - 1]
  measured_launch   \* DRTMFlow.measured_launch, and launch_success with it

mvars == <<pcr, event_log, measured_launch>>

Event == [pcr_index : PCRs, digest : Digests]

\* pcr_bank_init, event_log_init, srtm_flow_init and drtm_flow_init.
PowerOn(bank, log, launched) ==
  /\ bank = [p \in PCRs |-> << >>]
  /\ log = << >>
  /\ launched = FALSE

MeasuredBootInit == PowerOn(pcr, event_log, measured_launch)

-----------------------------------------------------------------------------
\* The PCRs a stage extends.
Extended(stage) ==
  CASE stage = "bios"                   -> {0}
    [] stage = "option_rom"             -> {2}
    [] stage \in {"mbr", "bootloader"}  -> {4, 8}
    [] stage = "os"                     -> {8}
    [] stage = "sinit"                  -> {17}
    [] stage = "mle"                    -> {18}
    [] stage = "drtm_os"                -> {19}

\* Mutant: the boot loader's event names the OS loader PCR.
LoggedBootloaderAs8(stage) ==
  CASE stage = "bios"        -> 0
    [] stage = "option_rom"  -> 2
    [] stage = "mbr"         -> 4
    [] stage \in {"os", "bootloader"} -> 8
    [] stage = "sinit"       -> 17
    [] stage = "mle"         -> 18
    [] stage = "drtm_os"     -> 19

\* The PCR its event names: the MBR and the boot loader log PCR 4 only.
Logged(stage) ==
  CASE stage = "bios"                   -> 0
    [] stage = "option_rom"             -> 2
    [] stage \in {"mbr", "bootloader"}  -> 4
    [] stage = "os"                     -> 8
    [] stage = "sinit"                  -> 17
    [] stage = "mle"                    -> 18
    [] stage = "drtm_os"                -> 19

\* pcr_extend on every PCR of a set.
PcrExtend(bank, targets, digest) ==
  [p \in PCRs |-> IF p \in targets THEN Append(bank[p], digest) ELSE bank[p]]

\* Mutant: a full log drops its oldest event.
EventLogAddRing(log, event) ==
  IF MaxEvents = 0 THEN log
  ELSE IF Len(log) < MaxEvents THEN Append(log, event)
  ELSE Append(Tail(log), event)

\* Mutant: the capacity is checked one event too late.
EventLogAddOverrun(log, event) ==
  IF Len(log) <= MaxEvents THEN Append(log, event) ELSE log

\* event_log_add: a full log refuses the event, and no caller looks.
EventLogAdd(log, event) ==
  IF Len(log) < MaxEvents THEN Append(log, event) ELSE log

\* srtm_measure_* and drtm_measure_*.
Measure(stage, digest) ==
  /\ \A p \in Extended(stage) : Len(pcr[p]) < MaxExtends[p]
  /\ pcr' = PcrExtend(pcr, Extended(stage), digest)
  /\ event_log' = EventLogAdd(event_log, [pcr_index |-> Logged(stage),
                                          digest    |-> digest])
  /\ measured_launch' = (measured_launch \/ stage = "mle")

\* Mutant: any PCR may be reset.
ResettableAny == PCRs

\* PCR_DYNAMIC_MIN .. PCR_DYNAMIC_MAX.
Resettable == DynamicPCRs

\* pcr_reset.  The log does not hear of it.
PcrReset(p) ==
  /\ p \in Resettable
  /\ pcr' = [pcr EXCEPT ![p] = << >>]
  /\ UNCHANGED <<event_log, measured_launch>>

\* A platform reset runs the initialisers again.
PlatformReset == PowerOn(pcr', event_log', measured_launch')

MeasuredBootNext ==
  \/ \E stage \in Stages, digest \in Digests : Measure(stage, digest)
  \/ \E p \in PCRs : PcrReset(p)
  \/ PlatformReset

MeasuredBootSpec == MeasuredBootInit /\ [][MeasuredBootNext]_mvars

-----------------------------------------------------------------------------
(* The reader's side of the log.                                           *)

\* event_log_replay: the bank a verifier computes from a log, an event at a
\* time from the zero bank.
Replayed(log) ==
  LET bank[n \in 0 .. Len(log)] ==
        IF n = 0 THEN [p \in PCRs |-> << >>]
        ELSE PcrExtend(bank[n - 1], {log[n].pcr_index}, log[n].digest)
  IN  bank[Len(log)]

\* event_log_verify_pcr.
VerifyPcr(log, p, expected) == Replayed(log)[p] = expected

\* s is a prefix, a suffix of t.
Begins(s, t) == Len(s) <= Len(t) /\ \A i \in 1 .. Len(s) : s[i] = t[i]
Ends(s, t) ==
  /\ Len(s) <= Len(t)
  /\ \A i \in 1 .. Len(s) : s[i] = t[Len(t) - Len(s) + i]

-----------------------------------------------------------------------------
(* Properties.                                                             *)

\* Types: PCRs and log hold digests, the log never exceeds MAX_EVENTS.
MeasuredBootTypeOK ==
  /\ pcr \in [PCRs -> Seq(Digests)]
  /\ event_log \in Seq(Event)
  /\ Len(event_log) <= MaxEvents
  /\ measured_launch \in BOOLEAN

\* The static PCRs only ever gain digests, whoever measures and whatever is
\* reset, until the platform itself resets and the log starts over with them.
StaticPCRsOnlyGrow ==
  [][\/ \A p \in StaticPCRs : Begins(pcr[p], pcr'[p])
     \/ event_log' = << >> /\ \A p \in PCRs : pcr'[p] = << >>]_mvars

\* While the log has room, replaying it yields every static PCR whose stages
\* log what they extend (all but 8), and a dynamic PCR's value is what was
\* logged since its last reset.
LogExplainsBank ==
  Len(event_log) < MaxEvents =>
    /\ \A p \in StaticPCRs \ {8} : VerifyPcr(event_log, p, pcr[p])
    /\ \A p \in DynamicPCRs : Ends(pcr[p], Replayed(event_log)[p])

\* A full log loses the newest measurements, never older ones: the replay is
\* then still the beginning of what each static PCR went through.
LogNeverMisreports ==
  \A p \in StaticPCRs \ {8} : Begins(Replayed(event_log)[p], pcr[p])

\* What the log is for (demos/mini-measured-boot-flow/README.md, "replay the
\* PCR computation to verify PCR values"): every PCR that static measurement
\* extends can be verified from a log that has room.
LogVerifiesEveryStaticPCR ==
  Len(event_log) < MaxEvents =>
    \A p \in StaticPCRs : VerifyPcr(event_log, p, pcr[p])
=============================================================================
