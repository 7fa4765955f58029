---------------------------- MODULE FirmwareAudit ----------------------------
(***************************************************************************)
(* Firmware resiliency (firmware_resiliency.c) and the audit trail of the   *)
(* traffic between modules (fw_cross_integration.c), both of               *)
(* mini-firmware-security.                                                  *)
(*                                                                         *)
(* A firmware is known by its hash, its version and a validity flag; a      *)
(* verification may itself replace the active one.  The audit trail is      *)
(* bounded: what comes when it is full is counted but not recorded.         *)
(*                                                                         *)
(* Abstracted: hashes are values, with a relation that says which differ    *)
(* in one bit; descriptions, time stamps and addresses are left out.        *)
(***************************************************************************)
EXTENDS Integers, Sequences, FiniteSets, FiniteSetsExt, SequencesExt

CONSTANTS
  FwHashes,      \* hashes of firmware
  ZeroHash, GoldenHash,   \* the hashes resilient_fw_init writes
  OneBitApart,   \* pairs of hashes whose first different byte differs in one bit
  MaxFwVersion,  \* bound on versions
  FwLogMax,      \* RESILIENT_FW_MAX_LOG_SIZE (64)
  Packets,       \* packets seen: [src, dst, egress, large, payload]
  BackendEvents, \* accesses seen: [module, op, authorized, data]
  AuditMax,      \* FW_AUDIT_ENTRY_MAX (128)
  MaxInspected   \* bound on the inspected packets and accesses

\* The bounds are numbers; nothing is asked of the traffic that is inspected.
ASSUME FirmwareAuditAssumption ==
  MaxFwVersion \in Nat /\ FwLogMax \in Nat /\ AuditMax \in Nat /\ MaxInspected \in Nat

VARIABLES
  rsFw,          \* ResilientFW: [active, recovery, golden, slot, auto, locked, last]
  rsLog,         \* FWAuditLog: its event numbers
  rsHistory,     \* history: [recovered, updates, verified]
  auEntries,     \* entries up to entry_count
  auCounts,      \* [violations, packets, events]: the totals
  auActive,      \* audit_active
  auDropped      \* history: inspections made when the trail was full

rsvars == <<rsFw, rsLog, rsHistory>>
auvars == <<auEntries, auCounts, auActive, auDropped>>
favars == <<rsvars, auvars>>

-----------------------------------------------------------------------------
\* Resiliency.

\* resilient_fw_init: the active firmware is the only one without a valid hash.
ResilientInit ==
  /\ rsFw = [active   |-> [hash |-> ZeroHash, version |-> 1, valid |-> FALSE],
             recovery |-> [hash |-> "ones", version |-> 0, valid |-> TRUE],
             golden   |-> [hash |-> GoldenHash, version |-> 0, valid |-> TRUE],
             slot |-> 0, auto |-> TRUE, locked |-> FALSE, last |-> "ok"]
  /\ rsLog = << >>
  /\ rsHistory = [recovered |-> FALSE, updates |-> 0, verified |-> {}]

\* resilient_fw_detect_corruption: the kind of corruption, "ok" when there is none.
Corruption(actual) ==
  IF ~rsFw.active.valid THEN "incomplete"
  ELSE IF actual = rsFw.active.hash THEN "ok"
  ELSE IF <<actual, rsFw.active.hash>> \in OneBitApart THEN "bit_flip" ELSE "malicious"

\* The call by itself: a clean result leaves the last kind as it is.
DetectCorruption(actual) ==
  /\ Corruption(actual) # "ok"
  /\ rsFw' = [rsFw EXCEPT !.last = Corruption(actual)]
  /\ UNCHANGED <<rsLog, rsHistory>>

\* Mutant: the version of the replaced firmware stays.
RecoveredKeepsVersion(fw) ==
  [fw EXCEPT !.slot = 1, !.last = "recovered",
             !.active = [hash |-> fw.golden.hash, version |-> @.version, valid |-> TRUE]]

\* What resilient_fw_recover_to_golden makes of fw.
Recovered(fw) ==
  [fw EXCEPT !.slot = 1, !.last = "recovered",
             !.active = [hash |-> fw.golden.hash, version |-> fw.golden.version, valid |-> TRUE]]

RecoverToGolden ==
  /\ rsFw.golden.valid
  /\ rsFw' = Recovered(rsFw)
  /\ rsHistory' = [rsHistory EXCEPT !.recovered = TRUE, !.updates = 0]
  /\ UNCHANGED rsLog

\* resilient_fw_verify_active: detection, and recovery when the policy is automatic.
VerifyActive(computed) ==
  LET kind == Corruption(computed)
      replaced == kind # "ok" /\ rsFw.auto /\ rsFw.golden.valid
      found == [rsFw EXCEPT !.last = IF kind = "ok" THEN @ ELSE kind]
  IN  /\ rsFw' = IF replaced THEN Recovered(found) ELSE found
      /\ rsHistory' =
           [recovered |-> rsHistory.recovered \/ replaced,
            updates   |-> IF replaced THEN 0 ELSE rsHistory.updates,
            verified  |-> {[of |-> computed, ok |-> kind = "ok" \/ replaced, replaced |-> replaced,
                            active |-> rsFw'.active, auto |-> rsFw.auto]}]
      /\ UNCHANGED rsLog

\* resilient_fw_set_recovery_policy; the caller locks the firmware.
SetRecoveryPolicy(auto) ==
  /\ ~rsFw.locked
  /\ rsFw' = [rsFw EXCEPT !.auto = auto]
  /\ UNCHANGED <<rsLog, rsHistory>>

LockFirmware ==
  /\ rsFw' = [rsFw EXCEPT !.locked = TRUE]
  /\ UNCHANGED <<rsLog, rsHistory>>

\* resilient_fw_secure_update: the slot stays, whichever it is by now.
SecureUpdate(hash, active) ==
  LET target == IF active THEN rsFw.active ELSE rsFw.recovery
      new == [hash |-> hash, version |-> target.version + 1, valid |-> TRUE]
  IN  /\ ~rsFw.locked
      /\ target.version < MaxFwVersion
      /\ rsFw' = IF active THEN [rsFw EXCEPT !.active = new] ELSE [rsFw EXCEPT !.recovery = new]
      /\ rsHistory' = [rsHistory EXCEPT !.updates = IF active THEN @ + 1 ELSE @]
      /\ UNCHANGED rsLog

\* resilient_fw_audit_log.
ResilientLog(event) ==
  /\ Len(rsLog) < FwLogMax
  /\ rsLog' = Append(rsLog, event)
  /\ UNCHANGED <<rsFw, rsHistory>>

\* resilient_fw_rollback_protection.
NotOlderThan(min) == \A f \in {rsFw.active, rsFw.recovery, rsFw.golden} : f.version >= min

ResilientNext ==
  \/ \E h \in FwHashes : \/ DetectCorruption(h)
                         \/ VerifyActive(h)
                         \/ \E active \in BOOLEAN : SecureUpdate(h, active)
  \/ RecoverToGolden
  \/ \E auto \in BOOLEAN : SetRecoveryPolicy(auto)
  \/ LockFirmware
  \/ \E event \in 1 .. 2 : ResilientLog(event)

ResilientSpec == ResilientInit /\ [][ResilientNext]_rsvars

-----------------------------------------------------------------------------
\* The audit trail.

\* fw_audit_init.
AuditInit ==
  /\ auEntries = << >>
  /\ auCounts = [violations |-> 0, packets |-> 0, events |-> 0]
  /\ auActive = TRUE
  /\ auDropped = 0

\* fw_audit_enable, fw_audit_disable.
AuditSwitch(on) ==
  /\ auActive' = on
  /\ UNCHANGED <<auEntries, auCounts, auDropped>>

\* The entry of fw_audit_network_packet: each rule that applies overwrites the severity of
\* those before it; the source is always the network.  The first rule makes a violation of
\* every packet that neither the network nor the backend sends, and none takes it back: the
\* feed of the data engine, which the second calls a valid flow, stays one.
PacketEntry(p) ==
  LET stranger == p.src \notin {"network", "backend"}
      feed == p.src = "data_engine" /\ p.dst = "backend"
      delivery == p.src = "backend" /\ p.dst = "frontend"
  IN  [source    |-> "network",
       target    |-> p.dst,
       severity  |-> IF p.egress /\ p.large THEN "warning"
                     ELSE IF feed \/ delivery THEN "info"
                     ELSE IF stranger THEN "error" ELSE "info",
       evidence  |-> IF feed \/ delivery THEN p.payload ELSE "none",
       violation |-> stranger]

\* The entry of fw_audit_backend_event; EXECUTE is no known operation.
BackendEntry(e) ==
  LET refused == e.op \in {"write", "delete"} /\ ~e.authorized
      unknown == e.op \notin {"read", "write", "delete", "configure"}
  IN  [source    |-> "backend",
       target    |-> e.module,
       severity  |-> IF e.op = "delete" THEN "critical"
                     ELSE IF unknown \/ refused THEN "error"
                     ELSE IF e.op = "read" THEN "info" ELSE "warning",
       evidence  |-> e.data,
       violation |-> refused \/ unknown]

\* Mutant: a violation is counted although there is no room to record it.
InspectCountsFirst(entry, counts) ==
  /\ auActive
  /\ auCounts.packets + auCounts.events < MaxInspected
  /\ IF Len(auEntries) >= AuditMax
     THEN /\ auDropped' = auDropped + 1
          /\ auEntries' = auEntries
     ELSE /\ auEntries' = Append(auEntries, entry)
          /\ auDropped' = auDropped
  /\ auCounts' = [counts EXCEPT !.violations = IF entry.violation THEN @ + 1 ELSE @]
  /\ UNCHANGED auActive

\* What an inspection does with its entry: it counts before it looks for room.
Inspect(entry, counts) ==
  /\ auActive
  /\ auCounts.packets + auCounts.events < MaxInspected
  /\ IF Len(auEntries) >= AuditMax
     THEN /\ auCounts' = counts
          /\ auDropped' = auDropped + 1
          /\ auEntries' = auEntries
     ELSE /\ auEntries' = Append(auEntries, entry)
          /\ auCounts' = [counts EXCEPT !.violations = IF entry.violation THEN @ + 1 ELSE @]
          /\ auDropped' = auDropped
  /\ UNCHANGED auActive

AuditNetworkPacket(p) == Inspect(PacketEntry(p), [auCounts EXCEPT !.packets = @ + 1])
AuditBackendEvent(e) == Inspect(BackendEntry(e), [auCounts EXCEPT !.events = @ + 1])

\* fw_audit_network_whitelist and fw_audit_backend_authorize note an approval,
\* fw_audit_network_blacklist and fw_audit_backend_revoke a refusal, which counts as a
\* violation; none of them asks whether the audit is active.
DecisionEntry(target, approved) ==
  [source    |-> "security",
   target    |-> target,
   severity  |-> IF approved THEN "info" ELSE IF target = "network" THEN "critical" ELSE "warning",
   evidence  |-> "none",
   violation |-> ~approved]

AuditDecision(target, approved) ==
  /\ Len(auEntries) < AuditMax
  /\ auEntries' = Append(auEntries, DecisionEntry(target, approved))
  /\ auCounts' = [auCounts EXCEPT !.violations = IF approved THEN @ ELSE @ + 1]
  /\ UNCHANGED <<auActive, auDropped>>

AuditNext ==
  \/ \E on \in BOOLEAN : AuditSwitch(on)
  \/ \E p \in Packets : AuditNetworkPacket(p)
  \/ \E e \in BackendEvents : AuditBackendEvent(e)
  \/ \E target \in {"network", "backend"}, approved \in BOOLEAN : AuditDecision(target, approved)

AuditSpec == AuditInit /\ [][AuditNext]_auvars

\* fw_audit_export_log: how many entries of 36 bytes a buffer of some size is given after
\* the 8 bytes of the header.
Exported(size) == Cardinality({k \in DOMAIN auEntries : \A i \in 0 .. k - 1 : 8 + 36 * i + 64 < size})

-----------------------------------------------------------------------------
FirmwareAuditTypeOK ==
  /\ rsFw.active.version \in 0 .. MaxFwVersion /\ rsFw.recovery.version \in 0 .. MaxFwVersion
  /\ rsFw.slot \in {0, 1}
  /\ Len(rsLog) <= FwLogMax
  /\ Len(auEntries) <= AuditMax
  /\ auCounts.packets + auCounts.events <= MaxInspected

\* The version of the active firmware counts its updates since the golden one was last
\* put in its place, so a recovery can undo rollback protection, and the slot never goes
\* back to the first one.  The check for rollbacks asks the same of the golden firmware,
\* whose version stays the 0 of resilient_fw_init: it passes for no other minimum.  A verification that passes was of the active firmware, or made
\* the golden one active; with automatic recovery none fails, and a valid firmware is
\* found corrupt only by another hash (resilient_fw_verify_active, recover_to_golden).
RecoveryExplainsFirmware ==
  /\ rsFw.active.version = rsHistory.updates + (IF rsHistory.recovered THEN rsFw.golden.version ELSE 1)
  /\ rsFw.slot = IF rsHistory.recovered THEN 1 ELSE 0
  /\ rsFw.active.valid <=> rsHistory.recovered \/ rsHistory.updates > 0
  /\ \A min \in 1 .. MaxFwVersion : ~NotOlderThan(min)
  /\ \A v \in rsHistory.verified :
       /\ v.ok => v.active.valid /\ (v.replaced \/ v.of = v.active.hash)
       /\ v.replaced => v.active = rsFw.golden
       /\ v.auto => v.ok

\* The violations counted are those recorded, every inspection is in the trail unless it
\* found the trail full, and an entry of error severity is a violation
\* (fw_audit_network_packet, fw_audit_backend_event).  What counts as a violation is what
\* the rules of the code say: also a packet of the data engine to the backend, which a
\* comment of theirs calls valid.  An export never ends past its buffer.
AuditAccounts ==
  LET inspected == {k \in DOMAIN auEntries : auEntries[k].source # "security"}
  IN  /\ auCounts.violations = Cardinality({k \in DOMAIN auEntries : auEntries[k].violation})
      /\ auCounts.packets + auCounts.events = Cardinality(inspected) + auDropped
      /\ auDropped > 0 => Len(auEntries) = AuditMax
      /\ \A k \in DOMAIN auEntries : auEntries[k].severity = "error" => auEntries[k].violation
      /\ \A size \in {8, 72, 73, 108, 109, 145, 200} : 8 + 36 * Exported(size) <= size
=============================================================================
