------------------------------ MODULE SrtmLog ------------------------------
(***************************************************************************)
(* The measured boot of mini-secure-boot/src/measured_boot.c: PCRs that     *)
(* are extended first and logged second, in a log that can be full, and     *)
(* the late launch that resets PCRs 17 to 22 without saying so in the log.  *)
(*                                                                         *)
(* Abstracted: a PCR is the sequence of digests extended (hashes do not     *)
(* collide), an event its PCR, type and digest.  An event's number is its   *)
(* position, which is what mb_event_log_append gives it.                    *)
(***************************************************************************)
EXTENDS Integers, Sequences, SequencesExt, EventReplay

CONSTANTS
  SrtmPcrs,          \* the PCRs in use, of 0 .. 23
  Measured,          \* digests of what is measured
  EventTypes,
  MaxLogEvents,      \* MB_MAX_EVENTS (256)
  MaxMeasured        \* bound of the model: extends of one PCR

ASSUME SrtmAssumption ==
  /\ {0, 1, 17, 18} \subseteq SrtmPcrs /\ SrtmPcrs \subseteq 0 .. 23
  /\ {MaxLogEvents, MaxMeasured} \subseteq Nat
  /\ MaxLogEvents >= 2 /\ MaxMeasured >= 2

VARIABLES
  current_pcrs,
  events,            \* the event log
  mb_state,          \* MBState
  drtm_supported

slvars == <<current_pcrs, events, mb_state, drtm_supported>>

LateLaunchPcrs == 17 .. 22

\* mb_init measures the CRTM's version and contents into PCR 0.
SrtmInit ==
  /\ current_pcrs = [p \in SrtmPcrs |-> IF p = 0 THEN <<"version", "contents">> ELSE << >>]
  /\ events = <<[pcr |-> 0, type |-> "S_CRTM_VERSION", digest |-> "version"],
                [pcr |-> 0, type |-> "S_CRTM_CONTENTS", digest |-> "contents"]>>
  /\ mb_state = "CRTM_ACTIVE"
  /\ drtm_supported = FALSE

-----------------------------------------------------------------------------
\* Mutant: a full log gives up its oldest event.
AppendEventDropOldest(p, type, d) ==
  LET new == [pcr |-> p, type |-> type, digest |-> d]
  IN  events' = Append(IF Len(events) < MaxLogEvents THEN events ELSE Tail(events), new)

\* mb_event_log_append; finalized is never set.
AppendEvent(p, type, d) ==
  events' = IF Len(events) < MaxLogEvents
            THEN Append(events, [pcr |-> p, type |-> type, digest |-> d])
            ELSE events

\* mb_measure_firmware: when the log is full the PCR is extended all the same.
MeasureFirmware(p, type, d) ==
  /\ Len(current_pcrs[p]) < MaxMeasured
  /\ current_pcrs' = [current_pcrs EXCEPT ![p] = Append(@, d)]
  /\ AppendEvent(p, type, d)
  /\ mb_state' = IF Len(events) < MaxLogEvents THEN "MEASURING" ELSE mb_state
  /\ UNCHANGED drtm_supported

\* mb_measure_boot_variable.
MeasureBootVariable(d) == MeasureFirmware(1, "EFI_VARIABLE_BOOT", d)

\* mb_drtm_measure, which asks for no launch.
DrtmMeasure(d) == MeasureFirmware(18, "NONHOST_CODE", d)

\* mb_extend_pcr_with_event leaves the state alone.
ExtendPcrWithEvent(p, type, d) ==
  /\ Len(current_pcrs[p]) < MaxMeasured
  /\ current_pcrs' = [current_pcrs EXCEPT ![p] = Append(@, d)]
  /\ AppendEvent(p, type, d)
  /\ UNCHANGED <<mb_state, drtm_supported>>

\* External: the platform finds the CPU able to launch late.
DetectDrtm ==
  /\ drtm_supported' = TRUE
  /\ UNCHANGED <<current_pcrs, events, mb_state>>

\* mb_drtm_launch.
DrtmLaunch ==
  /\ drtm_supported
  /\ current_pcrs' = [p \in SrtmPcrs |->
                        IF p = 17 THEN <<"launch">>
                        ELSE IF p \in LateLaunchPcrs THEN << >>
                        ELSE current_pcrs[p]]
  /\ AppendEvent(17, "ACTION", "launch")
  /\ UNCHANGED <<mb_state, drtm_supported>>

SrtmNext ==
  \/ \E p \in SrtmPcrs, type \in EventTypes, d \in Measured :
       MeasureFirmware(p, type, d) \/ ExtendPcrWithEvent(p, type, d)
  \/ \E d \in Measured : MeasureBootVariable(d) \/ DrtmMeasure(d)
  \/ DetectDrtm
  \/ DrtmLaunch

SrtmSpec == SrtmInit /\ [][SrtmNext]_slvars

-----------------------------------------------------------------------------
(* Properties.                                                             *)

SrtmTypeOK ==
  /\ DOMAIN current_pcrs = SrtmPcrs
  /\ \A p \in SrtmPcrs : Len(current_pcrs[p]) <= MaxMeasured
  /\ Len(events) \in 2 .. MaxLogEvents
  /\ \A i \in DOMAIN events : events[i].pcr \in SrtmPcrs
  /\ mb_state \in {"CRTM_ACTIVE", "MEASURING"}
  /\ drtm_supported \in BOOLEAN

\* While the log has room, replaying it gives every PCR a late launch leaves
\* alone, and of the others what was logged last; when it is full, it still
\* accounts for the first extends of each PCR, in order.
SrtmLogExplains ==
  \A p \in SrtmPcrs :
    IF p \in LateLaunchPcrs
    THEN Len(events) < MaxLogEvents => IsSuffix(current_pcrs[p], Replay(events, p))
    ELSE /\ IsPrefix(Replay(events, p), current_pcrs[p])
         /\ Len(events) < MaxLogEvents => Replay(events, p) = current_pcrs[p]
=============================================================================
