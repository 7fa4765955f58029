--------------------------- MODULE FwUpdateProofs ---------------------------
(***************************************************************************)
(* Proofs about FwUpdate for every number of versions, retry limit and     *)
(* history size.                                                           *)
(***************************************************************************)
EXTENDS FwUpdate, ProofLemmas, TLAPS

\* Status and the bootable flag agree about which slots are dead; operator
\* recovery may set Recovery's status to ACTIVE although it is dead.
StatusInv ==
  /\ \A s \in MainSlots : slots[s].bootable <=> slots[s].status # "UNBOOTABLE"
  /\ ~recovery_mode => (slots["Recovery"].bootable
                          <=> slots["Recovery"].status # "UNBOOTABLE")

\* A slot other than the best live one is active only when the better ones
\* are dead.
LadderInv ==
  ~recovery_mode =>
    /\ ~slots[active_slot].bootable => \A s \in SlotIDs : ~slots[s].bootable
    /\ active_slot = "Recovery" => \A s \in MainSlots : ~slots[s].bootable

\* A live active slot holds the newest version among the live slots, and a
\* staged capsule is at least as new.  The first half is what makes the check
\* at staging time still hold when the capsule is applied after a failover.
VersionInv ==
  /\ slots["Recovery"].version = 0
  /\ ~recovery_mode /\ slots[active_slot].bootable =>
       /\ \A s \in MainSlots :
            slots[s].bootable => slots[s].version <= slots[active_slot].version
       /\ update_in_progress =>
            slots[active_slot].version <= current_capsule.fw_version

IInv == TypeOK /\ StatusInv /\ LadderInv /\ VersionInv /\ ActiveMeansBooted
-----------------------------------------------------------------------------
(* Helpers.                                                                *)

\* The selection keeps a usable slot, else takes a usable main slot, else
\* Recovery if it is bootable.
LEMMA SelectBootSlotChoice ==
  ASSUME NEW sl, NEW active \in SlotIDs
  PROVE  LET r == SelectBootSlot(sl, active)
         IN  /\ r \in SlotIDs
             /\ Usable(sl[active]) => r = active
             /\ ~Usable(sl[active]) =>
                  \/ r \in MainSlots \ {active} /\ Usable(sl[r])
                  \/ /\ r = "Recovery" /\ sl[r].bootable
                     /\ \A s \in MainSlots \ {active} :
                          active # "Recovery" => ~Usable(sl[s])
                     /\ active = "Recovery" => ~Usable(sl["A"])
                  \/ /\ r = "A" /\ ~sl["Recovery"].bootable
                     /\ active # "Recovery" =>
                          \A s \in MainSlots : ~Usable(sl[s])
  BY DEF SelectBootSlot, SlotIDs, MainSlots

LEMMA InitTypeOK == Init => TypeOK
<1> SUFFICES ASSUME Init PROVE TypeOK
  OBVIOUS
<1>1. \A s \in SlotIDs : slots[s] \in Slot
  BY FwUpdateAssumption DEF Init, Slot, SlotStatus
<1>2. slots \in [SlotIDs -> Slot]
  BY <1>1 DEF Init
<1>3. /\ history \in Seq(HistoryEntry) /\ Len(history) = 0
      /\ update_sequence = 0 /\ active_slot = "A"
      /\ update_in_progress = FALSE /\ recovery_mode = FALSE
  BY DEF Init
<1>4. current_capsule \in Capsule /\ current_capsule.target_slot \in MainSlots
  BY FwUpdateAssumption DEF Init, Capsule, SlotIDs, MainSlots
<1>5. active_slot \in SlotIDs
  BY <1>3 DEF SlotIDs, MainSlots
<1>6. Len(history) <= MaxHistory /\ update_sequence \in Nat
  BY <1>3, FwUpdateAssumption
<1>7. update_in_progress \in BOOLEAN /\ recovery_mode \in BOOLEAN
  BY <1>3
<1>8. QED
  BY <1>2, <1>3, <1>4, <1>5, <1>6, <1>7 DEF TypeOK

LEMMA StepTypeOK == TypeOK /\ [Next]_vars => TypeOK'
<1> SUFFICES ASSUME TypeOK, [Next]_vars PROVE TypeOK'
  OBVIOUS
<1> USE FwUpdateAssumption DEF TypeOK
<1>1. ASSUME NEW capsule \in Capsule, NEW signed \in BOOLEAN, NEW fits \in BOOLEAN,
             ValidateCapsule(capsule, signed, fits)
      PROVE  TypeOK'
  BY <1>1 DEF ValidateCapsule
<1>2. CASE ApplyCapsule
  <2> DEFINE target == current_capsule.target_slot
  <2>1. target \in MainSlots /\ current_capsule.fw_version \in 0 .. MaxVersion
    BY DEF Capsule
  <2>2. slots' \in [SlotIDs -> Slot]
    <3>1. ASSUME NEW s \in SlotIDs PROVE slots'[s] \in Slot
      <4>1. [slots[s] EXCEPT !.status = "STANDBY"] \in Slot
        BY DEF Slot, SlotStatus
      <4>2. [status |-> "ACTIVE", version |-> current_capsule.fw_version,
             boot_attempts |-> 0, bootable |-> TRUE] \in Slot
        BY <2>1 DEF Slot, SlotStatus
      <4>3. QED
        BY <1>2, <4>1, <4>2 DEF ApplyCapsule
    <3>2. QED
      BY <1>2, <3>1 DEF ApplyCapsule
  <2>3. /\ history' \in Seq(HistoryEntry)
        /\ Len(history') <= MaxHistory
        /\ update_sequence' \in Nat
    <3> DEFINE entry == [sequence    |-> update_sequence,
                         to_version  |-> current_capsule.fw_version,
                         target_slot |-> target]
    <3>1. entry \in HistoryEntry
      BY <2>1 DEF HistoryEntry
    <3>2. /\ Append(history, entry) \in Seq(HistoryEntry)
          /\ Len(Append(history, entry)) = Len(history) + 1
      BY <3>1
    <3>3. CASE Len(history) < MaxHistory
      <4>1. history' = Append(history, entry) /\ update_sequence' = update_sequence + 1
        BY <1>2, <3>3 DEF ApplyCapsule, RecordUpdate
      <4> HIDE DEF entry
      <4>2. Len(history) \in Nat
        OBVIOUS
      <4>3. QED
        BY <3>2, <3>3, <4>1, <4>2
    <3>4. CASE ~(Len(history) < MaxHistory)
      BY <1>2, <3>4 DEF ApplyCapsule, RecordUpdate
    <3>5. QED
      BY <3>3, <3>4
  <2>4. QED
    BY <1>2, <2>1, <2>2, <2>3 DEF ApplyCapsule, SlotIDs
<1>3. CASE MarkBootSuccess
  <2>1. slots[active_slot] \in Slot
    OBVIOUS
  <2>2. [slots[active_slot] EXCEPT !.boot_attempts = 0] \in Slot
    BY <2>1 DEF Slot
  <2>3. slots' \in [SlotIDs -> Slot]
    BY <1>3, <2>2 DEF MarkBootSuccess
  <2>4. QED
    BY <1>3, <2>3 DEF MarkBootSuccess
<1>4. CASE MarkBootFailedRetry
  <2>1. slots[active_slot] \in Slot
    OBVIOUS
  <2>2. slots[active_slot].boot_attempts + 1 \in 0 .. MaxBootAttempts
    BY <1>4, <2>1 DEF MarkBootFailedRetry, Attempts, Slot
  <2>3. [slots[active_slot] EXCEPT !.boot_attempts = @ + 1] \in Slot
    BY <2>1, <2>2 DEF Slot
  <2>5. slots' \in [SlotIDs -> Slot]
    BY <1>4, <2>3 DEF MarkBootFailedRetry, Attempts
  <2>4. QED
    BY <1>4, <2>5 DEF MarkBootFailedRetry
<1>5. CASE MarkBootFailedSwitch
  <2>0. /\ slots[active_slot] \in Slot
        /\ Attempts(slots[active_slot]) \in 0 .. MaxBootAttempts
    BY FwUpdateAssumption DEF Attempts, Slot
  <2>4. [slots[active_slot] EXCEPT !.boot_attempts = Attempts(slots[active_slot]),
                                   !.status = "UNBOOTABLE",
                                   !.bootable = FALSE] \in Slot
    BY <2>0 DEF Slot, SlotStatus
  <2>1. slots' \in [SlotIDs -> Slot]
    BY <1>5, <2>4 DEF MarkBootFailedSwitch
  <2>2. active_slot' \in SlotIDs
    BY <1>5, SelectBootSlotChoice DEF MarkBootFailedSwitch
  <2>3. QED
    BY <1>5, <2>1, <2>2 DEF MarkBootFailedSwitch
<1>6. CASE EnterRecovery
  <2>1. slots["Recovery"] \in Slot /\ "Recovery" \in SlotIDs
    BY DEF SlotIDs
  <2>2. [slots["Recovery"] EXCEPT !.status = "ACTIVE"] \in Slot
    BY <2>1 DEF Slot, SlotStatus
  <2>3. slots' \in [SlotIDs -> Slot]
    BY <1>6, <2>1, <2>2 DEF EnterRecovery
  <2>4. QED
    BY <1>6, <2>1, <2>3 DEF EnterRecovery
<1>7. CASE UNCHANGED vars
  BY <1>7 DEF vars
<1>8. QED
  BY <1>1, <1>2, <1>3, <1>4, <1>5, <1>6, <1>7 DEF Next

\* Type correctness, the target of the staged capsule included: whatever is
\* staged, fw_update_apply_capsule writes a main slot.
THEOREM TypeCorrect == Spec => []TypeOK
  BY InitTypeOK, StepTypeOK, PTL DEF Spec
-----------------------------------------------------------------------------
(* The inductive invariant.                                                *)

LEMMA InitIInv == Init => IInv
<1> SUFFICES ASSUME Init PROVE IInv
  OBVIOUS
<1>1. TypeOK
  BY InitTypeOK
<1>2. \A s \in SlotIDs : /\ slots[s].bootable
                         /\ slots[s].status # "UNBOOTABLE"
                         /\ slots[s].status = "ACTIVE" => s = "A"
                         /\ slots[s].version = IF s = "Recovery" THEN 0 ELSE 1
  BY DEF Init
<1>3. active_slot = "A" /\ update_in_progress = FALSE
  BY DEF Init
<1>4. QED
  BY <1>1, <1>2, <1>3
  DEF IInv, StatusInv, LadderInv, VersionInv, ActiveMeansBooted, SlotIDs, MainSlots

LEMMA StepIInv == IInv /\ [Next]_vars => IInv'
<1> SUFFICES ASSUME IInv, [Next]_vars PROVE IInv'
  OBVIOUS
<1>0. TypeOK' /\ TypeOK
  BY StepTypeOK DEF IInv
<1> USE DEF IInv
<1>1. ASSUME NEW capsule \in Capsule, NEW signed \in BOOLEAN, NEW fits \in BOOLEAN,
             ValidateCapsule(capsule, signed, fits)
      PROVE  IInv'
  BY <1>0, <1>1 DEF ValidateCapsule, StatusInv, LadderInv, VersionInv, ActiveMeansBooted
<1>2. CASE ApplyCapsule
  <2> DEFINE target == current_capsule.target_slot
  <2>1. target \in MainSlots /\ target \in SlotIDs
    BY <1>0 DEF TypeOK, SlotIDs
  <2>2. /\ slots'[target].status = "ACTIVE"
        /\ slots'[target].version = current_capsule.fw_version
        /\ slots'[target].bootable
        /\ active_slot' = target
        /\ update_in_progress' = FALSE
        /\ recovery_mode' = recovery_mode
    BY <1>2, <2>1 DEF ApplyCapsule
  <2>3. ASSUME NEW s \in SlotIDs \ {target}
        PROVE  /\ slots'[s].version = slots[s].version
               /\ slots'[s].bootable = slots[s].bootable
               /\ slots'[s].status = IF s \in PrevActive(target) THEN "STANDBY"
                                     ELSE slots[s].status
    <3>1. slots[s] \in Slot
      BY <1>0 DEF TypeOK
    <3>2. CASE s \in PrevActive(target)
      <4>1. slots'[s] = [slots[s] EXCEPT !.status = "STANDBY"]
        BY <1>2, <2>3, <3>2 DEF ApplyCapsule
      <4>2. QED
        BY <3>1, <3>2, <4>1 DEF Slot
    <3>3. CASE s \notin PrevActive(target)
      BY <1>2, <2>3, <3>3 DEF ApplyCapsule
    <3>4. QED
      BY <3>2, <3>3
  <2>4. \A s \in PrevActive(target) :
          s \in SlotIDs \ {target} /\ slots[s].status = "ACTIVE"
    BY DEF PrevActive
  <2>5. StatusInv'
    BY <2>1, <2>2, <2>3, <2>4 DEF StatusInv, MainSlots, SlotIDs
  <2>6. LadderInv'
    BY <2>1, <2>2 DEF LadderInv, MainSlots
  <2>7. VersionInv'
    <3>1. slots'["Recovery"].version = 0
      BY <2>1, <2>3 DEF VersionInv, MainSlots, SlotIDs
    <3>2. ASSUME ~recovery_mode, NEW s \in MainSlots, slots'[s].bootable
          PROVE  slots'[s].version <= current_capsule.fw_version
      <4>1. /\ s \in SlotIDs /\ active_slot \in SlotIDs
            /\ current_capsule.fw_version \in Nat
            /\ \A t \in SlotIDs : slots[t].version \in Nat
        <5>1. slots \in [SlotIDs -> Slot] /\ current_capsule \in Capsule
              /\ active_slot \in SlotIDs
          BY <1>0 DEF TypeOK
        <5>2. s \in SlotIDs
          BY <3>2 DEF SlotIDs
        <5>3. QED
          BY <5>1, <5>2 DEF Slot, Capsule
      <4>2. CASE s = target
        BY <2>2, <4>1, <4>2
      <4>3. CASE s # target
        <5>1. slots[s].bootable /\ slots'[s].version = slots[s].version
          BY <2>3, <3>2, <4>1, <4>3
        <5>2. slots[active_slot].bootable
          BY <3>2, <4>1, <5>1 DEF LadderInv
        <5>3. /\ slots[s].version <= slots[active_slot].version
              /\ slots[active_slot].version <= current_capsule.fw_version
          BY <1>2, <3>2, <5>1, <5>2 DEF VersionInv, ApplyCapsule
        <5>4. QED
          BY <4>1, <5>1, <5>3
      <4>4. QED
        BY <4>2, <4>3
    <3>3. QED
      BY <2>2, <3>1, <3>2 DEF VersionInv
  <2>8. ActiveMeansBooted'
    <3>1. SUFFICES ASSUME ~recovery_mode, NEW s \in SlotIDs \ {target},
                          slots'[s].status = "ACTIVE"
                   PROVE  FALSE
      BY <2>2 DEF ActiveMeansBooted
    <3>2. slots[s].status = "ACTIVE" /\ s \notin PrevActive(target)
      BY <2>3, <3>1
    <3>3. s = active_slot
      BY <3>1, <3>2 DEF ActiveMeansBooted
    <3>4. \A t \in SlotIDs \ {target} : slots[t].status = "ACTIVE" => t = s
      BY <3>1, <3>3 DEF ActiveMeansBooted
    <3>5. s \in PrevActive(target)
      BY <3>2, <3>4, <3>1 DEF PrevActive
    <3>6. QED
      BY <3>2, <3>5
  <2>9. QED
    BY <1>0, <2>5, <2>6, <2>7, <2>8
<1>3. CASE MarkBootSuccess
  <2>1. ASSUME NEW s \in SlotIDs
        PROVE  /\ slots'[s].version = slots[s].version
               /\ slots'[s].bootable = slots[s].bootable
               /\ slots'[s].status = slots[s].status
    BY <1>0, <1>3 DEF MarkBootSuccess, TypeOK, Slot
  <2>2. QED
    BY <1>0, <1>3, <2>1 DEF MarkBootSuccess, StatusInv, LadderInv, VersionInv,
       ActiveMeansBooted, SlotIDs, TypeOK
<1>4. CASE MarkBootFailedRetry
  <2>1. ASSUME NEW s \in SlotIDs
        PROVE  /\ slots'[s].version = slots[s].version
               /\ slots'[s].bootable = slots[s].bootable
               /\ slots'[s].status = slots[s].status
    BY <1>0, <1>4 DEF MarkBootFailedRetry, TypeOK, Slot
  <2>2. QED
    BY <1>0, <1>4, <2>1 DEF MarkBootFailedRetry, StatusInv, LadderInv, VersionInv,
       ActiveMeansBooted, SlotIDs, TypeOK
<1>5. CASE MarkBootFailedSwitch
  <2>1. active_slot \in SlotIDs
    BY <1>0 DEF TypeOK
  <2>2. ASSUME NEW s \in SlotIDs
        PROVE  /\ slots'[s].version = slots[s].version
               /\ slots'[s].bootable = (slots[s].bootable /\ s # active_slot)
               /\ slots'[s].status = IF s = active_slot THEN "UNBOOTABLE"
                                     ELSE slots[s].status
    BY <1>0, <1>5 DEF MarkBootFailedSwitch, TypeOK, Slot
  <2>3. /\ active_slot' = SelectBootSlot(slots', active_slot)
        /\ UNCHANGED <<current_capsule, update_in_progress, recovery_mode>>
    BY <1>5 DEF MarkBootFailedSwitch
  <2>4. ~Usable(slots'[active_slot])
    BY <2>1, <2>2 DEF Usable
  <2>5. StatusInv'
    BY <2>1, <2>2, <2>3 DEF StatusInv, SlotIDs
  <2>6. /\ active_slot' \in SlotIDs
        /\ \/ active_slot' \in MainSlots \ {active_slot} /\ Usable(slots'[active_slot'])
           \/ /\ active_slot' = "Recovery" /\ slots'[active_slot'].bootable
              /\ \A s \in MainSlots \ {active_slot} :
                   active_slot # "Recovery" => ~Usable(slots'[s])
              /\ active_slot = "Recovery" => ~Usable(slots'["A"])
           \/ /\ active_slot' = "A" /\ ~slots'["Recovery"].bootable
              /\ active_slot # "Recovery" => \A s \in MainSlots : ~Usable(slots'[s])
    BY <2>1, <2>3, <2>4, SelectBootSlotChoice
  <2>7. ~recovery_mode =>
          /\ \A s \in MainSlots : Usable(slots'[s]) <=> slots'[s].bootable
          /\ active_slot = "Recovery" => \A s \in MainSlots : ~slots'[s].bootable
          /\ slots[active_slot].bootable \/ \A s \in SlotIDs : ~slots[s].bootable
    BY <2>2, <2>3, <2>5 DEF StatusInv, LadderInv, Usable, SlotIDs
  <2>8. LadderInv'
    BY <2>2, <2>3, <2>6, <2>7 DEF LadderInv, SlotIDs, MainSlots, Usable
  <2>9. VersionInv'
    <3>1. slots'["Recovery"].version = 0
      BY <2>2 DEF VersionInv, SlotIDs
    <3>2. SUFFICES ASSUME ~recovery_mode, slots'[active_slot'].bootable
                   PROVE  /\ \A s \in MainSlots : slots'[s].bootable =>
                               slots'[s].version <= slots'[active_slot'].version
                          /\ update_in_progress =>
                               slots'[active_slot'].version <= current_capsule.fw_version
      BY <2>3, <3>1 DEF VersionInv
    <3>3. current_capsule.fw_version \in Nat /\ \A s \in SlotIDs : slots[s].version \in Nat
      BY <1>0 DEF TypeOK, Slot, Capsule
    <3>4. CASE active_slot' \in MainSlots
      <4>1. active_slot \in MainSlots /\ active_slot # active_slot'
        BY <2>1, <2>2, <2>6, <2>7, <3>2, <3>4 DEF SlotIDs, MainSlots
      <4>2. \A s \in MainSlots : slots'[s].bootable => s = active_slot'
        BY <2>2, <4>1, <3>4 DEF SlotIDs, MainSlots
      <4>3. slots[active_slot].bootable /\ slots[active_slot'].bootable
        BY <2>2, <2>6, <2>7, <3>2
      <4>4. /\ slots[active_slot'].version <= slots[active_slot].version
            /\ update_in_progress => slots[active_slot].version <= current_capsule.fw_version
        BY <3>2, <3>4, <4>3 DEF VersionInv
      <4>5. slots'[active_slot'].version = slots[active_slot'].version
        BY <2>2, <2>6
      <4>6. QED
        BY <2>1, <2>6, <3>3, <4>2, <4>4, <4>5
    <3>5. CASE active_slot' = "Recovery"
      <4>1. \A s \in MainSlots : ~slots'[s].bootable
        BY <2>8, <2>3, <3>2, <3>5 DEF LadderInv
      <4>2. QED
        BY <3>1, <3>3, <3>5, <4>1
    <3>6. QED
      BY <2>6, <3>4, <3>5 DEF SlotIDs
  <2>10. ActiveMeansBooted'
    BY <2>2, <2>3 DEF ActiveMeansBooted
  <2>11. QED
    BY <1>0, <2>5, <2>8, <2>9, <2>10
<1>6. CASE EnterRecovery
  <2>1. ASSUME NEW s \in SlotIDs
        PROVE  /\ slots'[s].version = slots[s].version
               /\ slots'[s].bootable = slots[s].bootable
               /\ s # "Recovery" => slots'[s].status = slots[s].status
    BY <1>0, <1>6 DEF EnterRecovery, TypeOK, Slot
  <2>2. QED
    BY <1>0, <1>6, <2>1 DEF EnterRecovery, StatusInv, LadderInv, VersionInv,
       ActiveMeansBooted, SlotIDs, MainSlots, TypeOK
<1>7. CASE UNCHANGED vars
  BY <1>0, <1>7 DEF vars, StatusInv, LadderInv, VersionInv, ActiveMeansBooted
<1>8. QED
  BY <1>1, <1>2, <1>3, <1>4, <1>5, <1>6, <1>7 DEF Next

\* The inductive invariant is one.
LEMMA Invariance == Spec => []IInv
  BY InitIInv, StepIInv, PTL DEF Spec

\* Until recovery is forced, at most the booted slot has status ACTIVE, over
\* every sequence of updates and failovers.
THEOREM ActiveIsBooted == Spec => []ActiveMeansBooted
  BY Invariance, PTL DEF IInv

\* Anti-rollback: the check made when a capsule is staged still holds when the
\* capsule is applied, however many boots later, because a failover only ever
\* moves to an older live slot.
THEOREM NoSilentRollback == Spec => VersionDropsOnlyOnFailover
<1> DEFINE A == slots[active_slot].bootable /\ ~recovery_mode' =>
                  \/ slots'[active_slot'].version >= slots[active_slot].version
                  \/ ~slots'[active_slot].bootable
<1>1. IInv /\ [Next]_vars => [A]_vars
  <2> SUFFICES ASSUME IInv, Next, slots[active_slot].bootable, ~recovery_mode'
               PROVE  \/ slots'[active_slot'].version >= slots[active_slot].version
                      \/ ~slots'[active_slot].bootable
    OBVIOUS
  <2>0. /\ TypeOK /\ active_slot \in SlotIDs
        /\ \A s \in SlotIDs : slots[s] \in Slot /\ slots[s].version \in Nat
    BY DEF IInv, TypeOK, Slot
  <2>1. ASSUME NEW capsule \in Capsule, NEW signed \in BOOLEAN, NEW fits \in BOOLEAN,
               ValidateCapsule(capsule, signed, fits)
        PROVE  slots'[active_slot'].version >= slots[active_slot].version
    BY <2>0, <2>1 DEF ValidateCapsule
  <2>2. CASE ApplyCapsule
    <3>1. /\ update_in_progress /\ recovery_mode' = recovery_mode
          /\ active_slot' = current_capsule.target_slot
          /\ slots'[active_slot'].version = current_capsule.fw_version
      BY <2>0, <2>2 DEF ApplyCapsule, TypeOK, SlotIDs
    <3>2. slots[active_slot].version <= current_capsule.fw_version
      BY <3>1 DEF IInv, VersionInv
    <3>3. QED
      BY <2>0, <3>1, <3>2 DEF TypeOK, Capsule
  <2>3. CASE MarkBootSuccess
    BY <2>0, <2>3 DEF MarkBootSuccess, TypeOK, Slot
  <2>4. CASE MarkBootFailedRetry
    BY <2>0, <2>4 DEF MarkBootFailedRetry, TypeOK, Slot
  <2>5. CASE MarkBootFailedSwitch
    BY <2>0, <2>5 DEF MarkBootFailedSwitch, TypeOK, Slot
  <2>6. CASE EnterRecovery
    BY <2>6 DEF EnterRecovery
  <2>7. QED
    BY <2>1, <2>2, <2>3, <2>4, <2>5, <2>6 DEF Next
<1>2. QED
  BY <1>1, Invariance, PTL DEF Spec, VersionDropsOnlyOnFailover

\* The slot manager implements the failover ladder: until recovery is forced, a
\* dead slot is never booted while a live one exists, and Recovery is booted
\* only when both main slots are dead.
THEOREM ImplementsLadder == Spec => FollowsLadder
<1>1. Init => Ladder!Init
  <2>1. ASSUME Init PROVE \A s \in SlotIDs : slots[s].bootable
    BY <2>1 DEF Init
  <2>2. QED
    BY <2>1 DEF Init, Ladder!Init, Ladder!All, Live, SlotIDs, MainSlots
<1>2. IInv /\ IInv' /\ [Next]_vars => [Ladder!Next]_(Ladder!vars)
  <2> SUFFICES ASSUME IInv, IInv', [Next]_vars
               PROVE  Ladder!Next \/ UNCHANGED <<Live, active_slot, recovery_mode>>
    BY DEF Ladder!vars
  <2>0. /\ slots \in [SlotIDs -> Slot] /\ active_slot \in SlotIDs
        /\ current_capsule.target_slot \in MainSlots
        /\ recovery_mode \in BOOLEAN
    BY DEF IInv, TypeOK
  <2>1. ASSUME NEW capsule \in Capsule, NEW signed \in BOOLEAN, NEW fits \in BOOLEAN,
               ValidateCapsule(capsule, signed, fits)
        PROVE  UNCHANGED <<Live, active_slot, recovery_mode>>
    BY <2>1 DEF ValidateCapsule, Live
  <2>2. CASE ApplyCapsule
    <3> DEFINE target == current_capsule.target_slot
    <3>1. /\ slots'[target].bootable
          /\ active_slot' = target
          /\ recovery_mode' = recovery_mode
      BY <2>0, <2>2 DEF ApplyCapsule, SlotIDs
    <3>2. ASSUME NEW s \in SlotIDs \ {target}
          PROVE  slots'[s].bootable = slots[s].bootable
      <4>1. slots'[s] = [slots[s] EXCEPT !.status = "STANDBY"] \/ slots'[s] = slots[s]
        BY <2>2, <3>2 DEF ApplyCapsule
      <4>2. QED
        BY <2>0, <3>2, <4>1 DEF Slot
    <3>3. Live' = Live \cup {target}
      BY <2>0, <3>1, <3>2 DEF Live, SlotIDs
    <3>4. Ladder!Reflash(target)
      BY <3>1, <3>3 DEF Ladder!Reflash
    <3>5. QED
      BY <2>0, <3>1, <3>4 DEF Ladder!Next, Ladder!Override
  <2>3. CASE MarkBootSuccess
    <3>1. \A s \in SlotIDs : slots'[s].bootable = slots[s].bootable
      BY <2>0, <2>3 DEF MarkBootSuccess, Slot
    <3>2. QED
      BY <2>3, <3>1 DEF MarkBootSuccess, Live
  <2>4. CASE MarkBootFailedRetry
    <3>1. \A s \in SlotIDs : slots'[s].bootable = slots[s].bootable
      BY <2>0, <2>4 DEF MarkBootFailedRetry, Slot
    <3>2. QED
      BY <2>4, <3>1 DEF MarkBootFailedRetry, Live
  <2>5. CASE MarkBootFailedSwitch
    <3>1. recovery_mode' = recovery_mode
      BY <2>5 DEF MarkBootFailedSwitch
    <3>2. CASE recovery_mode
      BY <3>1, <3>2 DEF Ladder!Next, Ladder!Override
    <3>3. CASE ~recovery_mode
      <4>1. \A s \in SlotIDs :
              slots'[s].bootable = (slots[s].bootable /\ s # active_slot)
        BY <2>0, <2>5 DEF MarkBootFailedSwitch, Slot
      <4>2. Live' = Live \ {active_slot}
        BY <4>1 DEF Live
      <4>3. /\ active_slot' \in SlotIDs
            /\ ~slots'[active_slot'].bootable => \A s \in SlotIDs : ~slots'[s].bootable
            /\ active_slot' = "Recovery" => \A s \in MainSlots : ~slots'[s].bootable
        BY <3>1, <3>3 DEF IInv, LadderInv, TypeOK
      <4>4. active_slot' \in Ladder!Successors(Live')
        <5>1. CASE Live' \cap MainSlots # {}
          <6>1. active_slot' \in Live' \cap MainSlots
            BY <4>3, <5>1 DEF Live, SlotIDs
          <6>2. QED
            BY <5>1, <6>1 DEF Ladder!Successors
        <5>2. CASE Live' \cap MainSlots = {} /\ "Recovery" \in Live'
          <6>1. active_slot' = "Recovery"
            BY <4>3, <5>2 DEF Live, SlotIDs
          <6>2. QED
            BY <5>2, <6>1 DEF Ladder!Successors
        <5>3. CASE Live' \cap MainSlots = {} /\ "Recovery" \notin Live'
          BY <4>3, <5>3 DEF Ladder!Successors, Ladder!All, SlotIDs
        <5>4. QED
          BY <5>1, <5>2, <5>3
      <4>5. Ladder!Die
        BY <3>1, <4>2, <4>4 DEF Ladder!Die
      <4>6. QED
        BY <3>3, <4>5 DEF Ladder!Next
    <3>4. QED
      BY <3>2, <3>3
  <2>6. CASE EnterRecovery
    BY <2>6 DEF EnterRecovery, Ladder!Next, Ladder!Override
  <2>7. CASE UNCHANGED vars
    BY <2>7 DEF vars, Live
  <2>8. QED
    BY <2>1, <2>2, <2>3, <2>4, <2>5, <2>6, <2>7 DEF Next
<1>3. QED
  BY <1>1, <1>2, Invariance, PTL DEF Spec, FollowsLadder, Ladder!Spec
-----------------------------------------------------------------------------
(* The update history.                                                     *)

HistoryInv == TypeOK /\ HistoryExplainsSlots

\* The last entry about a slot is an entry about it, and none comes later.
LEMMA LastEntryAbout ==
  ASSUME TypeOK, NEW s
  PROVE  LET about == {i \in 1 .. Len(history) : history[i].target_slot = s}
         IN  /\ about = {} => LastEntry(s) = 0
             /\ about # {} => LastEntry(s) \in about /\ LastEntry(s) # 0
<1> DEFINE about == {i \in 1 .. Len(history) : history[i].target_slot = s}
<1>1. Len(history) \in Nat
  BY DEF TypeOK
<1>2. about # {} => \E i \in about : \A j \in about : j <= i
  <2>1. about \in SUBSET (0 .. Len(history))
    BY <1>1
  <2> HIDE DEF about
  <2>2. QED
    BY <1>1, <2>1, GreatestNatural
<1>3. LastEntry(s) = IF about = {} THEN 0 ELSE CHOOSE i \in about : \A j \in about : j <= i
  BY DEF LastEntry
<1>4. 0 \notin about
  OBVIOUS
<1> HIDE DEF about
<1>5. (about = {} => LastEntry(s) = 0) /\ (about # {} => LastEntry(s) \in about)
  BY <1>2, <1>3
<1>6. QED
  BY <1>4, <1>5 DEF about

\* The entry at the end is the last about its slot.
EndIsLast ==
  \A n, s : n = Len(history) /\ n # 0 /\ history[n].target_slot = s => LastEntry(s) = n

LEMMA LastEntryIsLast == TypeOK => EndIsLast
<1> SUFFICES ASSUME TypeOK, NEW s, NEW n, n = Len(history), n # 0,
                    history[n].target_slot = s
             PROVE  LastEntry(s) = n
  BY DEF EndIsLast
<1> DEFINE about == {i \in 1 .. Len(history) : history[i].target_slot = s}
<1>1. n \in Nat /\ n \in about
  BY DEF TypeOK
<1>2. \A j \in about : j <= n /\ j \in Nat
  BY <1>1
<1>3. LastEntry(s) = CHOOSE i \in about : \A j \in about : j <= i
  BY <1>1 DEF LastEntry
<1> HIDE DEF about
<1>4. \A i \in about : (\A j \in about : j <= i) => i = n
  BY <1>1, <1>2
<1>5. QED
  BY <1>1, <1>2, <1>3, <1>4

\* An update is recorded while there is room, and installs what it records.
LEMMA ApplyKeepsHistory ==
  ASSUME HistoryInv, TypeOK', ApplyCapsule
  PROVE  HistoryExplainsSlots'
<1> DEFINE n == Len(history)
           target == current_capsule.target_slot
           e == [sequence    |-> update_sequence,
                 to_version  |-> current_capsule.fw_version,
                 target_slot |-> target]
<1>1. n \in Nat /\ update_sequence = n /\ history \in Seq(HistoryEntry)
  BY DEF HistoryInv, TypeOK, HistoryExplainsSlots
<1>2. target \in MainSlots
  BY DEF HistoryInv, TypeOK
<1>3. CASE n < MaxHistory
  <2>1. history' = Append(history, e) /\ update_sequence' = update_sequence + 1
    BY <1>3 DEF ApplyCapsule, RecordUpdate
  <2>2. /\ Len(history') = n + 1 /\ history'[n + 1] = e
        /\ \A i \in 1 .. n : history'[i] = history[i]
    BY <1>1, <2>1
  <2>3. \A i \in 1 .. n + 1 : i \in 1 .. n \/ i = n + 1
    BY <1>1
  <2>4. \A i \in 1 .. n + 1 : history'[i].sequence = i - 1
    <3>1. \A i \in 1 .. n : history[i].sequence = i - 1
      BY DEF HistoryInv, HistoryExplainsSlots
    <3>2. e.sequence = (n + 1) - 1
      BY <1>1
    <3> HIDE DEF e
    <3>3. QED
      BY <2>2, <2>3, <3>1, <3>2
  <2>5. ASSUME NEW s \in MainSlots
        PROVE  slots'[s].version = IF LastEntry(s)' = 0 THEN 1
                                   ELSE history'[LastEntry(s)'].to_version
    <3>1. CASE s = target
      <4>1. slots'[s].version = current_capsule.fw_version
        BY <3>1 DEF ApplyCapsule, SlotIDs
      <4>2. LastEntry(s)' = n + 1
        <5>1. Len(history') # 0 /\ n + 1 = Len(history') /\ history'[n + 1].target_slot = s
          BY <1>1, <2>2, <3>1
        <5>2. (TypeOK => EndIsLast)'
          BY LastEntryIsLast, PTL
        <5>3. QED
          BY <5>1, <5>2 DEF EndIsLast
      <4>3. n + 1 # 0 /\ history'[n + 1].to_version = current_capsule.fw_version
        BY <1>1, <2>2
      <4>4. QED
        BY <4>1, <4>2, <4>3
    <3>2. CASE s # target
      <4>1. slots'[s].version = slots[s].version
        <5>1. slots[s] \in Slot
          BY DEF HistoryInv, TypeOK, SlotIDs
        <5>2. QED
          BY <3>2, <5>1 DEF ApplyCapsule, SlotIDs, Slot
      <4>2. {i \in 1 .. n + 1 : history'[i].target_slot = s}
              = {i \in 1 .. n : history[i].target_slot = s}
        <5>1. e.target_slot # s
          BY <3>2
        <5>2. n + 1 \notin {i \in 1 .. n + 1 : history'[i].target_slot = s}
          BY <2>2, <5>1
        <5>3. \A i \in 1 .. n : i \in 1 .. n + 1
          BY <1>1
        <5> HIDE DEF n, e
        <5>4. QED
          BY <2>2, <2>3, <5>2, <5>3
      <4>3. LastEntry(s)' = LastEntry(s)
        <5> DEFINE about(h, m) == {i \in 1 .. m : h[i].target_slot = s}
                   last(S) == IF S = {} THEN 0 ELSE CHOOSE i \in S : \A j \in S : j <= i
        <5>1. LastEntry(s) = last(about(history, n))
          BY DEF LastEntry
        <5>2. LastEntry(s)' = last(about(history', n + 1))
          BY <2>2 DEF LastEntry
        <5>3. about(history', n + 1) = about(history, n)
          BY <4>2
        <5> HIDE DEF about, last
        <5>4. QED
          BY <5>1, <5>2, <5>3
      <4>4. LastEntry(s) # 0 => LastEntry(s) \in 1 .. n
        BY LastEntryAbout DEF HistoryInv
      <4>5. slots[s].version = IF LastEntry(s) = 0 THEN 1
                               ELSE history[LastEntry(s)].to_version
        BY <1>3 DEF HistoryInv, HistoryExplainsSlots
      <4>6. QED
        BY <2>2, <4>1, <4>3, <4>4, <4>5
    <3>3. QED
      BY <3>1, <3>2
  <2>6. update_sequence' = Len(history')
    BY <1>1, <2>1, <2>2
  <2>7. QED
    BY <2>2, <2>4, <2>5, <2>6 DEF HistoryExplainsSlots
<1>4. CASE ~(n < MaxHistory)
  <2>1. history' = history /\ update_sequence' = update_sequence
    BY <1>4 DEF ApplyCapsule, RecordUpdate
  <2>2. QED
    BY <1>4, <2>1 DEF HistoryInv, HistoryExplainsSlots
<1>5. QED
  BY <1>3, <1>4

LEMMA HistoryStep == HistoryInv /\ [Next]_vars => HistoryInv'
<1> SUFFICES ASSUME HistoryInv, [Next]_vars PROVE HistoryInv'
  OBVIOUS
<1>1. TypeOK'
  BY StepTypeOK DEF HistoryInv
<1>2. CASE ApplyCapsule
  BY <1>1, <1>2, ApplyKeepsHistory DEF HistoryInv
<1>3. ASSUME UNCHANGED <<history, update_sequence>>,
             \A s \in MainSlots : slots'[s].version = slots[s].version
      PROVE  HistoryInv'
  <2>1. \A s : LastEntry(s)' = LastEntry(s)
    BY <1>3 DEF LastEntry
  <2>2. HistoryExplainsSlots'
    BY <1>3, <2>1 DEF HistoryInv, HistoryExplainsSlots
  <2>3. QED
    BY <1>1, <2>2 DEF HistoryInv
<1>4. \A s \in SlotIDs : slots[s] \in Slot
  BY DEF HistoryInv, TypeOK
<1>5. ASSUME NEW capsule \in Capsule, NEW signed, NEW fits,
             ValidateCapsule(capsule, signed, fits)
      PROVE  HistoryInv'
  BY <1>3, <1>5 DEF ValidateCapsule
<1>6. CASE \/ MarkBootSuccess \/ MarkBootFailedRetry \/ MarkBootFailedSwitch
           \/ EnterRecovery
  <2>1. UNCHANGED <<history, update_sequence>>
    BY <1>6 DEF MarkBootSuccess, MarkBootFailedRetry, MarkBootFailedSwitch, EnterRecovery
  <2>2. active_slot \in SlotIDs /\ slots \in [SlotIDs -> Slot]
    BY DEF HistoryInv, TypeOK
  <2>3. ASSUME NEW s \in MainSlots PROVE slots'[s].version = slots[s].version
    <3>1. s \in SlotIDs /\ slots[s] \in Slot
      BY <1>4 DEF SlotIDs
    <3>2. QED
      BY <1>6, <2>2, <3>1
         DEF MarkBootSuccess, MarkBootFailedRetry, MarkBootFailedSwitch, EnterRecovery, Slot
  <2>4. QED
    BY <1>3, <2>1, <2>3
<1>7. CASE UNCHANGED vars
  BY <1>3, <1>7 DEF vars
<1>8. QED
  BY <1>2, <1>5, <1>6, <1>7 DEF Next

\* As long as it has room the history numbers the updates without gaps, and
\* its last entry about a main slot tells the version in it.
THEOREM HistoryExplains == Spec => []HistoryExplainsSlots
<1>1. Init => HistoryInv
  <2> SUFFICES ASSUME Init PROVE HistoryInv
    OBVIOUS
  <2>1. TypeOK
    BY InitTypeOK
  <2>2. history = << >> /\ Len(history) = 0 /\ update_sequence = 0
    BY DEF Init
  <2>3. \A s \in MainSlots : LastEntry(s) = 0 /\ slots[s].version = 1
    BY <2>2 DEF LastEntry, Init, MainSlots, SlotIDs
  <2>4. QED
    BY <2>1, <2>2, <2>3 DEF HistoryInv, HistoryExplainsSlots
<1>2. HistoryInv => HistoryExplainsSlots
  BY DEF HistoryInv
<1>3. QED
  BY <1>1, <1>2, HistoryStep, PTL DEF Spec
=============================================================================
