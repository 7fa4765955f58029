---------------------------- MODULE KeyStoreProofs ----------------------------
(***************************************************************************)
(* Proofs about the key store for any number of keys, key ids, validity    *)
(* periods and length of the day.                                          *)
(***************************************************************************)
EXTENDS KeyStore, ProofLemmas, SequenceTheorems, TLAPS

-----------------------------------------------------------------------------
(* Helpers.                                                                *)

\* The truncated period of a rotated key ends no later than the period itself.
LEMMA Truncation ==
  ASSUME NEW n \in Nat, NEW d \in Nat \ {0}
  PROVE  n \div d \in Nat /\ (n \div d) * d <= n
  OBVIOUS

\* find_key returns an entry with the id, and fails only if there is none.
LEMMA FindKeyFinds ==
  ASSUME KeyStoreTypeOK, NEW id
  PROVE  /\ FindKey(id) # 0 => FindKey(id) \in DOMAIN keys /\ keys[FindKey(id)].key_id = id
         /\ FindKey(id) = 0 => \A i \in DOMAIN keys : keys[i].key_id # id
<1> DEFINE at == {i \in DOMAIN keys : keys[i].key_id = id}
<1>1. DOMAIN keys = 1 .. Len(keys) /\ at \in SUBSET Nat
  BY DEF KeyStoreTypeOK
<1>2. ASSUME at # {} PROVE FindKey(id) \in at
  <2>1. \E i \in at : \A j \in at : i <= j
    BY <1>1, <1>2, LeastNatural
  <2>2. FindKey(id) = CHOOSE i \in at : \A j \in at : i <= j
    BY <1>2 DEF FindKey
  <2> HIDE DEF at
  <2>3. QED
    BY <2>1, <2>2
<1>3. ASSUME at = {} PROVE FindKey(id) = 0
  BY <1>3 DEF FindKey
<1>4. QED
  BY <1>1, <1>2, <1>3

\* Two entries that differ in nothing but their states.
SameKey(a, b) ==
  /\ a.key_id = b.key_id
  /\ a.version = b.version
  /\ a.not_before = b.not_before
  /\ a.not_after = b.not_after
  /\ a.is_tpm_protected = b.is_tpm_protected

LEMMA MoveIsSound ==
  ASSUME KeyStoreTypeOK, NEW i \in DOMAIN keys, NEW to \in KeyStates,
         NEW table, table = [keys EXCEPT ![i].state = to]
  PROVE  /\ table \in Seq(KeyEntry)
         /\ Len(table) = Len(keys)
         /\ \A j \in DOMAIN keys :
              /\ SameKey(table[j], keys[j])
              /\ j = i => table[j].state = to
              /\ j # i => table[j].state = keys[j].state
<1>1. keys[i] \in KeyEntry
  BY DEF KeyStoreTypeOK
<1> DEFINE e == [keys[i] EXCEPT !.state = to]
<1>2. e \in KeyEntry /\ e.state = to /\ SameKey(e, keys[i])
  BY <1>1 DEF KeyEntry, SameKey
<1>3. table = [keys EXCEPT ![i] = e]
  OBVIOUS
<1> HIDE DEF e
<1>4. /\ table \in Seq(KeyEntry) /\ Len(table) = Len(keys)
      /\ \A j \in DOMAIN keys : table[j] = IF j = i THEN e ELSE keys[j]
  BY <1>2, <1>3, ExceptSeq DEF KeyStoreTypeOK
<1>5. \A j \in DOMAIN keys : SameKey(keys[j], keys[j])
  BY DEF SameKey
<1>6. QED
  BY <1>2, <1>4, <1>5

-----------------------------------------------------------------------------
(* Types.                                                                  *)

LEMMA KeyStoreTypeInit == KeyStoreInit => KeyStoreTypeOK
<1> SUFFICES ASSUME KeyStoreInit PROVE KeyStoreTypeOK
  OBVIOUS
<1>1. keys \in Seq(KeyEntry) /\ Len(keys) = 0
  BY DEF KeyStoreInit
<1>2. locked \in BOOLEAN /\ now \in Nat
  BY DEF KeyStoreInit
<1>3. QED
  BY <1>1, <1>2, KeyStoreAssumption DEF KeyStoreTypeOK

\* The entry a rotation adds, and its id.
Successor(i) ==
  [key_id           |-> [keys[i].key_id EXCEPT !.versions = Append(@, keys[i].version + 1)],
   state            |-> "ACTIVE",
   version          |-> keys[i].version + 1,
   not_before       |-> now,
   not_after        |-> now + RemainingDays(keys[i]) * Day,
   is_tpm_protected |-> FALSE]

\* Replacing the versions of an identifier gives one with the same name.
LEMMA VersionsReplaced ==
  ASSUME NEW N, NEW V, NEW r \in [name : N, versions : V], NEW other \in V
  PROVE  /\ [r EXCEPT !.versions = other] \in [name : N, versions : V]
         /\ [r EXCEPT !.versions = other].name = r.name
         /\ [r EXCEPT !.versions = other].versions = other
OBVIOUS

LEMMA SuccessorIsSound ==
  ASSUME KeyStoreTypeOK, NEW i \in DOMAIN keys
  PROVE  /\ Successor(i) \in KeyEntry
         /\ Succeeds(Successor(i), keys[i])
         /\ \/ Successor(i).not_after <= keys[i].not_after
            \/ Successor(i).not_before >= keys[i].not_after
<1> DEFINE k   == keys[i]
           id  == [k.key_id EXCEPT !.versions = Append(@, k.version + 1)]
<1>0. k \in KeyEntry
  BY DEF KeyStoreTypeOK
<1>1. /\ k.key_id \in KeyID /\ k.version \in Nat /\ k.not_after \in Nat
      /\ now \in Nat /\ Day \in Nat \ {0} /\ DefaultDays \in Nat
  BY <1>0, KeyStoreAssumption DEF KeyStoreTypeOK, KeyEntry
<1>2. /\ id \in KeyID /\ id.name = k.key_id.name
      /\ id.versions = Append(k.key_id.versions, k.version + 1)
  <2>1. k.key_id.versions \in Seq(Nat)
    BY <1>1 DEF KeyID
  <2>2. Append(k.key_id.versions, k.version + 1) \in Seq(Nat)
    BY <1>1, <2>1
  <2>3. QED
    BY <1>1, <2>2, VersionsReplaced DEF KeyID
<1>3. RemainingDays(k) \in Nat /\ now + RemainingDays(k) * Day \in Nat
  BY <1>1, Truncation DEF RemainingDays
<1>4. k.not_after > now => now + RemainingDays(k) * Day <= k.not_after
  BY <1>1, Truncation DEF RemainingDays
<1> HIDE DEF k, id
<1>5. Successor(i) = [key_id |-> id, state |-> "ACTIVE", version |-> k.version + 1,
                      not_before |-> now, not_after |-> now + RemainingDays(k) * Day,
                      is_tpm_protected |-> FALSE]
  BY DEF Successor, k, id
<1>6. Successor(i) \in KeyEntry
  BY <1>1, <1>2, <1>3, <1>5 DEF KeyEntry, KeyStates
<1>7. Succeeds(Successor(i), k)
  BY <1>2, <1>5 DEF Succeeds
<1>8. Successor(i).not_after <= k.not_after \/ Successor(i).not_before >= k.not_after
  BY <1>1, <1>3, <1>4, <1>5
<1>9. QED
  BY <1>6, <1>7, <1>8 DEF k

-----------------------------------------------------------------------------
(* The four things a step can do to the table.                             *)

Moved(i, to) ==
  /\ keys' = [keys EXCEPT ![i].state = to]
  /\ keys[i].state \in Retired => to \in Retired

Added(e) ==
  /\ Len(keys) < MaxKeys
  /\ keys' = Append(keys, e)
  /\ e.version = 1
  /\ FindKey(e.key_id) = 0 \/ e.is_tpm_protected

Rotated(i) ==
  /\ Len(keys) < MaxKeys
  /\ keys[i].state = "ACTIVE"
  /\ FindKey(Successor(i).key_id) = 0
  /\ keys' = Append([keys EXCEPT ![i].state = "DEACTIVATED"], Successor(i))

KeysStep ==
  \/ keys' = keys
  \/ \E i \in DOMAIN keys, to \in KeyStates \ {"PRE_ACTIVATION"} : Moved(i, to)
  \/ \E e \in KeyEntry : Added(e)
  \/ \E i \in DOMAIN keys : Rotated(i)

LEMMA TransitionMoves ==
  ASSUME KeyStoreTypeOK, NEW id, NEW from,
         NEW to \in KeyStates \ {"PRE_ACTIVATION"},
         Transition(id, from, to),
         (from \cap Retired # {}) => to \in Retired
  PROVE  KeysStep /\ UNCHANGED <<locked, now>>
<1> DEFINE i == FindKey(id)
<1>1. /\ i \in DOMAIN keys /\ keys[i].state \in from
      /\ keys' = [keys EXCEPT ![i].state = to] /\ UNCHANGED <<locked, now>>
  BY FindKeyFinds DEF Transition
<1>2. Moved(i, to)
  BY <1>1 DEF Moved
<1>3. QED
  BY <1>1, <1>2 DEF KeysStep

LEMMA IDsAreIDs ==
  ASSUME KeyStoreTypeOK
  PROVE  NewIDs \subseteq KeyID /\ StoredIDs \subseteq KeyID
<1>1. << >> \in Seq(Nat) /\ <<2>> \in Seq(Nat)
  OBVIOUS
<1>2. {<< >>, <<2>>} \subseteq Seq(Nat)
  BY <1>1
<1>3. NewIDs \subseteq KeyID
  BY <1>2, Zenon DEF NewIDs, KeyID
<1>4. \A j \in DOMAIN keys : keys[j] \in KeyEntry
  BY DEF KeyStoreTypeOK
<1>5. \A j \in DOMAIN keys : keys[j].key_id \in KeyID
  BY <1>4 DEF KeyEntry
<1>6. QED
  BY <1>3, <1>5 DEF StoredIDs

LEMMA StepIsOneOfFour ==
  ASSUME KeyStoreTypeOK, [KeyStoreNext]_ksvars
  PROVE  KeysStep /\ locked' \in BOOLEAN /\ now' \in Nat
<1> USE KeyStoreAssumption
<1>0. locked \in BOOLEAN /\ now \in Nat /\ keys \in Seq(KeyEntry)
  BY DEF KeyStoreTypeOK
<1>1. ASSUME NEW id \in NewIDs, NEW days \in ValidDays, KeyGenerate(id, days)
      PROVE  KeysStep /\ UNCHANGED <<locked, now>>
  <2> DEFINE e == [key_id |-> id, state |-> "PRE_ACTIVATION", version |-> 1,
                   not_before |-> now, not_after |-> now + days * Day,
                   is_tpm_protected |-> FALSE]
  <2>1. id \in KeyID
    BY IDsAreIDs
  <2>2. now + days * Day \in Nat
    BY <1>0
  <2>3. e \in KeyEntry
    BY <1>0, <2>1, <2>2 DEF KeyEntry, KeyStates
  <2>4. Added(e) /\ UNCHANGED <<locked, now>>
    BY <1>1 DEF KeyGenerate, HasRoom, Added
  <2>5. QED
    BY <2>3, <2>4 DEF KeysStep
<1>2. ASSUME NEW id \in NewIDs \cup StoredIDs, KeyImportFromTpm(id)
      PROVE  KeysStep /\ UNCHANGED <<locked, now>>
  <2> DEFINE e == [key_id |-> id, state |-> "ACTIVE", version |-> 1,
                   not_before |-> now, not_after |-> now + DefaultDays * Day,
                   is_tpm_protected |-> TRUE]
  <2>1. id \in KeyID
    BY IDsAreIDs
  <2>2. now + DefaultDays * Day \in Nat
    BY <1>0
  <2>3. e \in KeyEntry
    BY <1>0, <2>1, <2>2 DEF KeyEntry, KeyStates
  <2>4. Added(e) /\ UNCHANGED <<locked, now>>
    BY <1>2 DEF KeyImportFromTpm, Added
  <2>5. QED
    BY <2>3, <2>4 DEF KeysStep
<1>3. ASSUME NEW id \in StoredIDs,
             \/ KeyActivate(id) \/ KeyDeactivate(id) \/ KeyReactivate(id)
             \/ KeyCompromise(id) \/ KeyRevoke(id) \/ KeyDestroy(id)
      PROVE  KeysStep /\ UNCHANGED <<locked, now>>
  <2> USE DEF KeyStates, Retired
  <2>1. CASE KeyActivate(id)
    BY <2>1, TransitionMoves DEF KeyActivate
  <2>2. CASE KeyDeactivate(id)
    BY <2>2, TransitionMoves DEF KeyDeactivate
  <2>3. CASE KeyReactivate(id)
    BY <2>3, TransitionMoves DEF KeyReactivate
  <2>4. CASE KeyCompromise(id)
    BY <2>4, TransitionMoves DEF KeyCompromise
  <2>5. CASE KeyRevoke(id)
    BY <2>5, TransitionMoves DEF KeyRevoke
  <2>6. CASE KeyDestroy(id)
    BY <2>6, TransitionMoves DEF KeyDestroy
  <2>7. QED
    BY <1>3, <2>1, <2>2, <2>3, <2>4, <2>5, <2>6
<1>4. ASSUME NEW id \in StoredIDs, KeyRotate(id)
      PROVE  KeysStep /\ UNCHANGED <<locked, now>>
  <2> DEFINE i == FindKey(id)
  <2>1. i \in DOMAIN keys /\ keys[i].key_id = id
    BY <1>4, FindKeyFinds DEF KeyRotate
  <2>2. Rotated(i) /\ UNCHANGED <<locked, now>>
    BY <1>4, <2>1 DEF KeyRotate, HasRoom, Rotated, Successor
  <2>3. QED
    BY <2>1, <2>2 DEF KeysStep
<1>5. CASE StoreLock \/ StoreUnlock \/ Tick \/ UNCHANGED ksvars
  <2>1. keys' = keys
    BY <1>5 DEF StoreLock, StoreUnlock, Tick, ksvars
  <2>2. now' \in Nat
    BY <1>0, <1>5 DEF StoreLock, StoreUnlock, Tick, ksvars
  <2>3. locked' \in BOOLEAN
    BY <1>0, <1>5, Zenon DEF StoreLock, StoreUnlock, Tick, ksvars
  <2>4. QED
    BY <2>1, <2>2, <2>3 DEF KeysStep
<1>6. QED
  BY <1>0, <1>1, <1>2, <1>3, <1>4, <1>5 DEF KeyStoreNext

-----------------------------------------------------------------------------
(* What the steps keep.                                                    *)

\* The table after a rotation, before and after the successor is appended.
LEMMA RotationIsSound ==
  ASSUME KeyStoreTypeOK, NEW i \in DOMAIN keys, Rotated(i)
  PROVE  /\ keys' \in Seq(KeyEntry)
         /\ Len(keys') = Len(keys) + 1
         /\ keys'[Len(keys) + 1] = Successor(i)
         /\ \A j \in DOMAIN keys :
              /\ SameKey(keys'[j], keys[j])
              /\ j = i => keys'[j].state = "DEACTIVATED"
              /\ j # i => keys'[j].state = keys[j].state
<1> DEFINE table == [keys EXCEPT ![i].state = "DEACTIVATED"]
<1>1. /\ table \in Seq(KeyEntry) /\ Len(table) = Len(keys)
      /\ \A j \in DOMAIN keys :
           /\ SameKey(table[j], keys[j])
           /\ j = i => table[j].state = "DEACTIVATED"
           /\ j # i => table[j].state = keys[j].state
  <2>1. "DEACTIVATED" \in KeyStates
    BY DEF KeyStates
  <2>2. table = [keys EXCEPT ![i].state = "DEACTIVATED"]
    OBVIOUS
  <2> HIDE DEF table
  <2>3. QED
    <3>1. table \in Seq(KeyEntry) /\ Len(table) = Len(keys)
      BY <2>1, <2>2, MoveIsSound
    <3>2. \A j \in DOMAIN keys : SameKey(table[j], keys[j])
      BY <2>1, <2>2, MoveIsSound
    <3>3. \A j \in DOMAIN keys : j = i => table[j].state = "DEACTIVATED"
      BY <2>1, <2>2, MoveIsSound
    <3>4. \A j \in DOMAIN keys : j # i => table[j].state = keys[j].state
      BY <2>1, <2>2, MoveIsSound
    <3>5. QED
      BY <3>1, <3>2, <3>3, <3>4
<1>2. keys' = Append(table, Successor(i)) /\ Successor(i) \in KeyEntry
  BY SuccessorIsSound DEF Rotated
<1> HIDE DEF table
<1>3. /\ keys' \in Seq(KeyEntry) /\ Len(keys') = Len(table) + 1
      /\ keys'[Len(table) + 1] = Successor(i)
      /\ \A j \in 1 .. Len(table) : keys'[j] = table[j]
  BY <1>1, <1>2, AppendProperties
<1>4. DOMAIN keys = 1 .. Len(keys)
  BY DEF KeyStoreTypeOK
<1>5. QED
  BY <1>1, <1>3, <1>4

LEMMA AdditionIsSound ==
  ASSUME KeyStoreTypeOK, NEW e \in KeyEntry, Added(e)
  PROVE  /\ keys' \in Seq(KeyEntry)
         /\ Len(keys') = Len(keys) + 1
         /\ keys'[Len(keys) + 1] = e
         /\ \A j \in DOMAIN keys : keys'[j] = keys[j]
  BY AppendProperties DEF KeyStoreTypeOK, Added

LEMMA KeyStoreTypeStep ==
  KeyStoreTypeOK /\ [KeyStoreNext]_ksvars => KeyStoreTypeOK'
<1> SUFFICES ASSUME KeyStoreTypeOK, [KeyStoreNext]_ksvars PROVE KeyStoreTypeOK'
  OBVIOUS
<1>1. KeysStep /\ locked' \in BOOLEAN /\ now' \in Nat
  BY StepIsOneOfFour
<1>2. SUFFICES keys' \in Seq(KeyEntry) /\ Len(keys') <= MaxKeys
  BY <1>1 DEF KeyStoreTypeOK
<1>3. Len(keys) \in Nat /\ MaxKeys \in Nat
  BY KeyStoreAssumption DEF KeyStoreTypeOK
<1>4. CASE keys' = keys
  BY <1>4 DEF KeyStoreTypeOK
<1>5. ASSUME NEW i \in DOMAIN keys, NEW to \in KeyStates, Moved(i, to)
      PROVE  keys' \in Seq(KeyEntry) /\ Len(keys') <= MaxKeys
  BY <1>5, MoveIsSound DEF Moved, KeyStoreTypeOK
<1>6. ASSUME NEW e \in KeyEntry, Added(e)
      PROVE  keys' \in Seq(KeyEntry) /\ Len(keys') <= MaxKeys
  BY <1>3, <1>6, AdditionIsSound DEF Added
<1>7. ASSUME NEW i \in DOMAIN keys, Rotated(i)
      PROVE  keys' \in Seq(KeyEntry) /\ Len(keys') <= MaxKeys
  <2>1. /\ Len(keys) < MaxKeys
        /\ keys' = Append([keys EXCEPT ![i].state = "DEACTIVATED"], Successor(i))
    BY <1>7 DEF Rotated
  <2>2. keys' \in Seq(KeyEntry) /\ Len(keys') = Len(keys) + 1
    BY <1>7, RotationIsSound, Zenon
  <2>3. QED
    BY <1>3, <2>1, <2>2
<1>8. QED
  BY <1>1, <1>4, <1>5, <1>6, <1>7 DEF KeysStep

LEMMA RetiredStep ==
  ASSUME KeyStoreTypeOK, [KeyStoreNext]_ksvars, NEW j \in DOMAIN keys,
         keys[j].state \in Retired
  PROVE  keys'[j].state \in Retired
<1>1. KeysStep
  BY StepIsOneOfFour
<1>2. CASE keys' = keys
  BY <1>2
<1>3. ASSUME NEW i \in DOMAIN keys, NEW to \in KeyStates, Moved(i, to)
      PROVE  keys'[j].state \in Retired
  BY <1>3, MoveIsSound DEF Moved
<1>4. ASSUME NEW e \in KeyEntry, Added(e) PROVE keys'[j].state \in Retired
  BY <1>4, AdditionIsSound
<1>5. ASSUME NEW i \in DOMAIN keys, Rotated(i) PROVE keys'[j].state \in Retired
  BY <1>5, RotationIsSound DEF Rotated, Retired
<1>6. QED
  BY <1>1, <1>2, <1>3, <1>4, <1>5 DEF KeysStep

\* A key that was compromised, revoked or destroyed never becomes usable again
\* (the life cycle functions and km_key_rotate of key_mgmt.c).
THEOREM RetirementIsFinal == KeyStoreSpec => RetiredNeverReturns
<1>1. KeyStoreTypeOK /\ [KeyStoreNext]_ksvars =>
        [\A i \in DOMAIN keys :
           keys[i].state \in Retired => keys'[i].state \in Retired]_ksvars
  BY RetiredStep
<1>2. QED
  BY <1>1, KeyStoreTypeInit, KeyStoreTypeStep, PTL
     DEF KeyStoreSpec, RetiredNeverReturns

-----------------------------------------------------------------------------
(* The lineage of rotated keys.                                            *)

\* Key q is a sound predecessor of key s.
Precedes(q, s) ==
  /\ Succeeds(s, q)
  /\ q.state # "PRE_ACTIVATION"
  /\ s.not_after <= q.not_after \/ s.not_before >= q.not_after

LEMMA LineageByPrecedes ==
  LineageIsSound <=>
    /\ \A i \in DOMAIN keys : keys[i].version > 1 =>
         \E j \in 1 .. i - 1 : Precedes(keys[j], keys[i])
    /\ \A i, j \in DOMAIN keys :
         i < j /\ keys[i].key_id = keys[j].key_id => keys[j].is_tpm_protected
  BY DEF LineageIsSound, Precedes

\* The entries that were in the table: a step may change their states, but puts
\* none back before its activation.
OldEntriesStay ==
  \A j \in DOMAIN keys :
    /\ SameKey(keys'[j], keys[j])
    /\ keys[j].state # "PRE_ACTIVATION" => keys'[j].state # "PRE_ACTIVATION"

\* With them stays what the invariant says of them.
LEMMA OldLineageStays ==
  ASSUME LineageIsSound, KeyStoreTypeOK, OldEntriesStay
  PROVE  /\ \A i \in DOMAIN keys : keys'[i].version > 1 =>
              \E j \in 1 .. i - 1 : Precedes(keys'[j], keys'[i])
         /\ \A i, j \in DOMAIN keys :
              i < j /\ keys'[i].key_id = keys'[j].key_id => keys'[j].is_tpm_protected
<1>1. \A i, j \in DOMAIN keys :
        Precedes(keys[j], keys[i]) => Precedes(keys'[j], keys'[i])
  BY DEF OldEntriesStay, SameKey, Precedes, Succeeds
<1>2. ASSUME NEW i \in DOMAIN keys, keys'[i].version > 1
      PROVE  \E j \in 1 .. i - 1 : Precedes(keys'[j], keys'[i])
  <2>1. keys[i].version > 1
    BY <1>2 DEF OldEntriesStay, SameKey
  <2>2. PICK j \in 1 .. i - 1 : Precedes(keys[j], keys[i])
    BY <2>1, LineageByPrecedes
  <2>3. j \in DOMAIN keys
    BY DEF KeyStoreTypeOK
  <2>4. QED
    BY <1>1, <2>2, <2>3
<1>3. ASSUME NEW i \in DOMAIN keys, NEW j \in DOMAIN keys,
             i < j, keys'[i].key_id = keys'[j].key_id
      PROVE  keys'[j].is_tpm_protected
  BY <1>3, LineageByPrecedes DEF OldEntriesStay, SameKey
<1>4. QED
  BY <1>2, <1>3

\* A new last entry is sound if it has a predecessor or needs none, and its id
\* is new or it was imported.
LEMMA NewLineageIsSound ==
  ASSUME LineageIsSound, KeyStoreTypeOK, OldEntriesStay,
         keys' \in Seq(KeyEntry), Len(keys') = Len(keys) + 1,
         NEW e, keys'[Len(keys) + 1] = e,
         e.version > 1 => \E j \in DOMAIN keys : Precedes(keys'[j], e),
         FindKey(e.key_id) = 0 \/ e.is_tpm_protected
  PROVE  LineageIsSound'
<1> DEFINE n == Len(keys) + 1
<1>1. /\ Len(keys) \in Nat /\ DOMAIN keys = 1 .. Len(keys)
      /\ DOMAIN keys' = DOMAIN keys \cup {n} /\ n \notin DOMAIN keys
  BY DEF KeyStoreTypeOK
<1>2. ASSUME NEW i \in DOMAIN keys', keys'[i].version > 1
      PROVE  \E j \in 1 .. i - 1 : Precedes(keys'[j], keys'[i])
  <2>1. CASE i \in DOMAIN keys
    BY <1>2, <2>1, OldLineageStays
  <2>2. CASE i = n
    <3>1. PICK j \in DOMAIN keys : Precedes(keys'[j], e)
      BY <1>2, <2>2
    <3>2. j \in 1 .. i - 1
      BY <1>1, <2>2
    <3>3. QED
      BY <2>2, <3>1, <3>2
  <2>3. QED
    BY <1>1, <2>1, <2>2
<1>3. ASSUME NEW i \in DOMAIN keys', NEW j \in DOMAIN keys',
             i < j, keys'[i].key_id = keys'[j].key_id
      PROVE  keys'[j].is_tpm_protected
  <2>1. CASE j \in DOMAIN keys
    <3>1. i \in DOMAIN keys
      BY <1>1, <1>3, <2>1
    <3>2. QED
      BY <1>3, <2>1, <3>1, OldLineageStays
  <2>2. CASE j = n
    <3>1. i \in DOMAIN keys
      BY <1>1, <1>3, <2>2
    <3>2. keys[i].key_id = e.key_id
      BY <1>3, <2>2, <3>1 DEF OldEntriesStay, SameKey
    <3>3. FindKey(e.key_id) # 0
      BY <3>1, <3>2, FindKeyFinds
    <3>4. QED
      BY <2>2, <3>3
  <2>3. QED
    BY <1>1, <2>1, <2>2
<1>4. QED
  BY <1>2, <1>3 DEF LineageIsSound, Precedes

LEMMA LineageStep ==
  KeyStoreTypeOK /\ LineageIsSound /\ [KeyStoreNext]_ksvars => LineageIsSound'
<1> SUFFICES ASSUME KeyStoreTypeOK, LineageIsSound, [KeyStoreNext]_ksvars
             PROVE  LineageIsSound'
  OBVIOUS
<1>1. KeysStep
  BY StepIsOneOfFour
<1>2. CASE keys' = keys
  BY <1>2 DEF LineageIsSound
<1>3. ASSUME NEW i \in DOMAIN keys, NEW to \in KeyStates \ {"PRE_ACTIVATION"},
             Moved(i, to)
      PROVE  LineageIsSound'
  <2>1. OldEntriesStay /\ keys' \in Seq(KeyEntry) /\ Len(keys') = Len(keys)
    <3>1. keys' = [keys EXCEPT ![i].state = to]
      BY <1>3 DEF Moved
    <3>2. keys' \in Seq(KeyEntry) /\ Len(keys') = Len(keys)
      BY <3>1, MoveIsSound
    <3>3. \A j \in DOMAIN keys : SameKey(keys'[j], keys[j])
      BY <3>1, MoveIsSound
    <3>4. \A j \in DOMAIN keys : keys'[j].state \in {to, keys[j].state}
      BY <3>1, MoveIsSound
    <3>5. QED
      BY <3>2, <3>3, <3>4 DEF OldEntriesStay
  <2>2. DOMAIN keys' = DOMAIN keys
    BY <2>1 DEF KeyStoreTypeOK
  <2>3. QED
    BY <2>1, <2>2, OldLineageStays DEF LineageIsSound, Precedes
<1>4. ASSUME NEW e \in KeyEntry, Added(e) PROVE LineageIsSound'
  <2>1. OldEntriesStay
    BY <1>4, AdditionIsSound DEF OldEntriesStay, SameKey
  <2>2. ~(e.version > 1) /\ (FindKey(e.key_id) = 0 \/ e.is_tpm_protected)
    BY <1>4 DEF Added
  <2>3. QED
    BY <1>4, <2>1, <2>2, AdditionIsSound, NewLineageIsSound
<1>5. ASSUME NEW i \in DOMAIN keys, Rotated(i) PROVE LineageIsSound'
  <2>1. OldEntriesStay
    BY <1>5, RotationIsSound DEF OldEntriesStay
  <2>2. Precedes(keys'[i], Successor(i))
    <3>1. SameKey(keys'[i], keys[i]) /\ keys'[i].state = "DEACTIVATED"
      BY <1>5, RotationIsSound
    <3>2. QED
      BY <3>1, SuccessorIsSound DEF Precedes, SameKey, Succeeds
  <2>3. FindKey(Successor(i).key_id) = 0
    BY <1>5 DEF Rotated
  <2>4. QED
    BY <1>5, <2>1, <2>2, <2>3, RotationIsSound, NewLineageIsSound
<1>6. QED
  BY <1>1, <1>2, <1>3, <1>4, <1>5 DEF KeysStep

\* Rotation yields a chain of keys in which each successor has its predecessor
\* in the store and does not prolong it, and two entries share an id only by an
\* import (km_key_rotate, km_key_generate, km_key_import_from_tpm).
THEOREM LineageHolds == KeyStoreSpec => []LineageIsSound
<1>1. KeyStoreInit => LineageIsSound
  BY DEF KeyStoreInit, LineageIsSound
<1>2. QED
  BY <1>1, KeyStoreTypeInit, KeyStoreTypeStep, LineageStep, PTL DEF KeyStoreSpec
=============================================================================
