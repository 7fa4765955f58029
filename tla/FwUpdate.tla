------------------------------ MODULE FwUpdate ------------------------------
(***************************************************************************)
(* The A/B slot manager and the capsule pipeline of                        *)
(* mini-firmware/src/firmware_update.c.                                    *)
(*                                                                         *)
(* One FwUpdateManager survives resets in flash.  Three callers reach it   *)
(* in no fixed order: the updater stages a capsule and, at a later boot,   *)
(* applies it; the OS or the watchdog reports each boot as good or bad;    *)
(* an operator forces recovery.  A capsule is therefore checked against    *)
(* the active slot of one boot and written during another.                 *)
(*                                                                         *)
(* Abstracted: flash offsets, names, GUIDs, digests and RSA (a capsule     *)
(* either passes vb_verify_signature or not, a payload either fits the     *)
(* target slot or not), and the fields that nothing reads back.            *)
(***************************************************************************)
EXTENDS Integers, Sequences

CONSTANTS
  MaxVersion,        \* capsule versions are 0 .. MaxVersion
  MaxBootAttempts,   \* max_boot_attempts (7 in fw_update_init)
  MaxHistory         \* MAX_UPDATE_HISTORY (8)

ASSUME FwUpdateAssumption ==
  /\ MaxVersion \in Nat \ {0}
  /\ MaxBootAttempts \in Nat \ {0}
  /\ MaxHistory \in Nat

VARIABLES
  slots,               \* slots[FW_SLOT_A .. FW_SLOT_RECOVERY]
  active_slot,
  current_capsule,     \* meaningful while update_in_progress
  update_in_progress,
  history,             \* history[0 .. history_count - 1]
  update_sequence,
  recovery_mode

vars == <<slots, active_slot, current_capsule, update_in_progress, history,
          update_sequence, recovery_mode>>

MainSlots == {"A", "B"}
SlotIDs   == MainSlots \cup {"Recovery"}

\* The status values the code assigns; UPDATING never outlives
\* fw_update_apply_capsule and INVALID is never assigned.
SlotStatus == {"ACTIVE", "STANDBY", "UNBOOTABLE"}

Slot == [status : SlotStatus, version : 0 .. MaxVersion,
         boot_attempts : 0 .. MaxBootAttempts, bootable : BOOLEAN]

Capsule == [fw_version : 0 .. MaxVersion, target_slot : SlotIDs]

HistoryEntry == [sequence : Nat, to_version : 0 .. MaxVersion,
                 target_slot : MainSlots]

\* fw_update_init followed by fw_update_setup_slots; the zeroed capsule
\* names slot A.
Init ==
  /\ slots = [s \in SlotIDs |->
                [status        |-> IF s = "A" THEN "ACTIVE" ELSE "STANDBY",
                 version       |-> IF s = "Recovery" THEN 0 ELSE 1,
                 boot_attempts |-> 0,
                 bootable      |-> TRUE]]
  /\ active_slot = "A"
  /\ current_capsule = [fw_version |-> 1, target_slot |-> "A"]
  /\ update_in_progress = FALSE
  /\ history = << >>
  /\ update_sequence = 0
  /\ recovery_mode = FALSE

-----------------------------------------------------------------------------
(* Capsules.                                                               *)

\* Mutant: the target slot is not checked.
ValidateCapsuleAnyTarget(capsule, signed, fits) ==
  /\ signed /\ fits
  /\ capsule.fw_version >= slots[active_slot].version
  /\ current_capsule' = capsule
  /\ update_in_progress' = TRUE
  /\ UNCHANGED <<slots, active_slot, history, update_sequence, recovery_mode>>

\* Mutant: anti-rollback compares with the slot to be overwritten.
ValidateCapsuleAgainstTarget(capsule, signed, fits) ==
  /\ signed /\ fits
  /\ capsule.target_slot \in MainSlots
  /\ capsule.fw_version >= slots[capsule.target_slot].version
  /\ current_capsule' = capsule
  /\ update_in_progress' = TRUE
  /\ UNCHANGED <<slots, active_slot, history, update_sequence, recovery_mode>>

\* fw_update_validate_capsule accepts and stages a capsule.  It overwrites a
\* capsule that is already staged.
ValidateCapsule(capsule, signed, fits) ==
  /\ signed
  /\ capsule.fw_version >= slots[active_slot].version
  /\ capsule.target_slot \in MainSlots
  /\ fits
  /\ current_capsule' = capsule
  /\ update_in_progress' = TRUE
  /\ UNCHANGED <<slots, active_slot, history, update_sequence, recovery_mode>>

\* Mutant: nobody loses status ACTIVE.
PrevActiveForgotten(target) == {}

\* The slot that loses status ACTIVE when target becomes the active slot: the
\* first other slot, in the order A, B, Recovery, whose status is ACTIVE.
PrevActive(target) ==
  LET others == {s \in SlotIDs \ {target} : slots[s].status = "ACTIVE"}
  IN  IF others \cap MainSlots # {} THEN others \cap MainSlots ELSE others

\* Mutant: the entry names the slot that was active, not the one written.
RecordUpdateWrongSlot(target) ==
  IF Len(history) < MaxHistory
  THEN /\ history' = Append(history,
            [sequence    |-> update_sequence,
             to_version  |-> current_capsule.fw_version,
             target_slot |-> active_slot])
       /\ update_sequence' = update_sequence + 1
  ELSE UNCHANGED <<history, update_sequence>>

\* One entry per applied capsule until the history is full; then neither the
\* history nor the sequence number moves.
RecordUpdate(target) ==
  IF Len(history) < MaxHistory
  THEN /\ history' = Append(history,
            [sequence    |-> update_sequence,
             to_version  |-> current_capsule.fw_version,
             target_slot |-> target])
       /\ update_sequence' = update_sequence + 1
  ELSE UNCHANGED <<history, update_sequence>>

\* fw_update_apply_capsule writes the staged capsule and makes its slot the
\* one to boot.  Nothing is validated again.
ApplyCapsule ==
  LET target == current_capsule.target_slot
  IN  /\ update_in_progress
      /\ slots' = [s \in SlotIDs |->
                     IF s = target
                     THEN [status        |-> "ACTIVE",
                           version       |-> current_capsule.fw_version,
                           boot_attempts |-> 0,
                           bootable      |-> TRUE]
                     ELSE IF s \in PrevActive(target)
                     THEN [slots[s] EXCEPT !.status = "STANDBY"]
                     ELSE slots[s]]
      /\ RecordUpdate(target)
      /\ active_slot' = target
      /\ update_in_progress' = FALSE
      /\ UNCHANGED <<current_capsule, recovery_mode>>

-----------------------------------------------------------------------------
(* Boot results.                                                           *)

\* fw_update_mark_boot_success, called by the OS: the failure counter of the
\* active slot starts over.
MarkBootSuccess ==
  /\ slots' = [slots EXCEPT ![active_slot].boot_attempts = 0]
  /\ UNCHANGED <<active_slot, current_capsule, update_in_progress, history,
                 update_sequence, recovery_mode>>

Usable(slot) == slot.bootable /\ slot.status # "UNBOOTABLE"

\* Mutant: recovery is tried before the other main slot.
SelectRecoveryFirst(sl, active) ==
  LET alt == IF active = "A" THEN "B" ELSE "A"
  IN  CASE Usable(sl[active])                                  -> active
        [] ~Usable(sl[active]) /\ sl["Recovery"].bootable      -> "Recovery"
        [] OTHER                                               -> alt

\* Mutant: the other main slot is taken without a look at it.
SelectAltUnchecked(sl, active) ==
  IF Usable(sl[active]) THEN active
  ELSE IF active = "A" THEN "B" ELSE "A"

\* fw_update_select_boot_slot, over the slots table sl.
SelectBootSlot(sl, active) ==
  LET alt == IF active = "A" THEN "B" ELSE "A"
  IN  CASE Usable(sl[active])                          -> active
        [] ~Usable(sl[active]) /\ Usable(sl[alt])      -> alt
        [] ~Usable(sl[active]) /\ ~Usable(sl[alt])
             /\ sl["Recovery"].bootable                -> "Recovery"
        [] OTHER                                       -> "A"

\* boot_attempts after one more failure; a slot that stays selected although
\* it is dead keeps counting, which the model caps at the limit.
Attempts(slot) ==
  IF slot.boot_attempts < MaxBootAttempts
  THEN slot.boot_attempts + 1 ELSE MaxBootAttempts

\* fw_update_mark_boot_failed below the retry limit.
MarkBootFailedRetry ==
  /\ Attempts(slots[active_slot]) < MaxBootAttempts
  /\ slots' = [slots EXCEPT ![active_slot].boot_attempts = @ + 1]
  /\ UNCHANGED <<active_slot, current_capsule, update_in_progress, history,
                 update_sequence, recovery_mode>>

\* fw_update_mark_boot_failed at the limit: the slot dies and the next one is
\* selected.  The status of the newly selected slot is left as it is.
MarkBootFailedSwitch ==
  /\ Attempts(slots[active_slot]) >= MaxBootAttempts
  /\ slots' = [slots EXCEPT ![active_slot].boot_attempts = Attempts(slots[active_slot]),
                            ![active_slot].status = "UNBOOTABLE",
                            ![active_slot].bootable = FALSE]
  /\ active_slot' = SelectBootSlot(slots', active_slot)
  /\ UNCHANGED <<current_capsule, update_in_progress, history,
                 update_sequence, recovery_mode>>

\* fw_update_enter_recovery, forced by an operator.
EnterRecovery ==
  /\ recovery_mode' = TRUE
  /\ active_slot' = "Recovery"
  /\ slots' = [slots EXCEPT !["Recovery"].status = "ACTIVE"]
  /\ UNCHANGED <<current_capsule, update_in_progress, history, update_sequence>>

-----------------------------------------------------------------------------
Next ==
  \/ \E capsule \in Capsule, signed, fits \in BOOLEAN :
       ValidateCapsule(capsule, signed, fits)
  \/ ApplyCapsule
  \/ MarkBootSuccess
  \/ MarkBootFailedRetry
  \/ MarkBootFailedSwitch
  \/ EnterRecovery

Spec == Init /\ [][Next]_vars

\* Every boot gets a verdict: the OS reports success, or the watchdog's
\* timeout reports a failure.
BootVerdict == MarkBootSuccess \/ MarkBootFailedRetry \/ MarkBootFailedSwitch

FairSpec == Spec /\ WF_vars(BootVerdict)

-----------------------------------------------------------------------------
(* Properties.                                                             *)

\* The state stays within the types of firmware_update.h: in particular the
\* staged capsule targets a main slot, never Recovery.
TypeOK ==
  /\ slots \in [SlotIDs -> Slot]
  /\ active_slot \in SlotIDs
  /\ current_capsule \in Capsule
  /\ current_capsule.target_slot \in MainSlots
  /\ update_in_progress \in BOOLEAN
  /\ history \in Seq(HistoryEntry)
  /\ Len(history) <= MaxHistory
  /\ update_sequence \in Nat
  /\ recovery_mode \in BOOLEAN

\* Until an operator forces recovery, SLOT_STATUS_ACTIVE ("Currently booted
\* slot") is not left behind on a slot that is no longer the active one, by an
\* update or by a failover.
ActiveMeansBooted ==
  ~recovery_mode =>
    \A s \in SlotIDs : slots[s].status = "ACTIVE" => s = active_slot

\* Anti-rollback across boots: the version that will boot next drops only when
\* the slot that booted has just died or an operator has forced recovery.  The
\* check and the write are boots apart, and failovers may come between them.
VersionDropsOnlyOnFailover ==
  [][slots[active_slot].bootable /\ ~recovery_mode' =>
       \/ slots'[active_slot'].version >= slots[active_slot].version
       \/ ~slots'[active_slot].bootable]_vars

\* The last history entry about slot s, or 0.
LastEntry(s) ==
  LET about == {i \in 1 .. Len(history) : history[i].target_slot = s}
  IN  IF about = {} THEN 0 ELSE CHOOSE i \in about : \A j \in about : j <= i

\* As long as the history is not full it explains what is in flash: entries
\* are numbered without gaps, and a main slot holds the version its last entry
\* installed, or the factory version if it has none.
HistoryExplainsSlots ==
  /\ update_sequence = Len(history)
  /\ \A i \in 1 .. Len(history) : history[i].sequence = i - 1
  /\ Len(history) < MaxHistory =>
       \A s \in MainSlots :
         slots[s].version = IF LastEntry(s) = 0 THEN 1
                            ELSE history[LastEntry(s)].to_version

\* The slots that can still boot.
Live == {s \in SlotIDs : slots[s].bootable}

\* The manager keeps the promise of FailoverLadder until an operator forces
\* recovery: no dead slot is booted while a live one exists, and Recovery only
\* when both main slots are dead.
Ladder == INSTANCE FailoverLadder WITH
            Main <- MainSlots, Recovery <- "Recovery",
            live <- Live, booting <- active_slot, overridden <- recovery_mode

FollowsLadder == Ladder!Spec

\* If from some time on boots only fail and nothing is reflashed, the system
\* ends up in Recovery or has no slot left: it does not retry one slot for ever.
EscalatesToRecovery ==
  []~recovery_mode /\ <>[][~MarkBootSuccess /\ ~ApplyCapsule]_vars
    => <>(active_slot = "Recovery" \/ Live = {})

\* What fw_update_mark_boot_failed says of itself, recovery mode included: the
\* slot "is marked UNBOOTABLE and the system falls back to the other slot".  A
\* dead slot is selected only when every slot is dead.
FailoverFindsLiveSlot ==
  [][MarkBootFailedSwitch =>
       slots'[active_slot'].bootable \/ \A s \in SlotIDs : ~slots'[s].bootable]_vars
=============================================================================
