------------------------------ MODULE KeyStore ------------------------------
(***************************************************************************)
(* The signing key store of mini-secure-boot/src/key_mgmt.c: life cycle,   *)
(* rotation and TPM import of the keys that sign boot images.               *)
(*                                                                         *)
(* Callers name keys by key_id; every operation acts on the first entry     *)
(* with that id (find_key).  Only generation refuses an id that is taken,   *)
(* so an import may shadow, or be shadowed by, another entry.               *)
(*                                                                         *)
(* Abstracted: key material, names, types and usages.  Time is counted in   *)
(* fractions of a day, as rotation rounds to whole days.                    *)
(***************************************************************************)
EXTENDS Integers, Sequences

CONSTANTS
  KeyNames,      \* the key_ids callers invent
  MaxKeys,       \* KM_MAX_KEYS (64)
  Day,           \* 86400 seconds
  ValidDays,     \* the validity periods asked for, in days
  DefaultDays,   \* the 365 days of an import or of an expired key's successor
  MaxNow         \* bound of the model: time stops here

ASSUME KeyStoreAssumption ==
  /\ MaxKeys \in Nat
  /\ Day \in Nat \ {0}
  /\ ValidDays \subseteq Nat
  /\ DefaultDays \in Nat
  /\ MaxNow \in Nat

VARIABLES
  keys,     \* keys[0 .. key_count - 1]
  locked,
  now       \* time(NULL)

ksvars == <<keys, locked, now>>

KeyStates == {"PRE_ACTIVATION", "ACTIVE", "DEACTIVATED", "COMPROMISED",
              "DESTROYED", "DESTROYED_COMPROMISED", "REVOKED"}

\* The id "name-v2-v3" of a key rotated twice is name with versions <<2, 3>>.
KeyID == [name : KeyNames, versions : Seq(Nat)]

KeyEntry == [key_id : KeyID, state : KeyStates, version : Nat,
             not_before : Nat, not_after : Nat, is_tpm_protected : BOOLEAN]

\* km_store_init.
KeyStoreInit ==
  /\ keys = << >>
  /\ locked = FALSE
  /\ now = 0

-----------------------------------------------------------------------------
\* find_key: the first entry with this id, or 0.
FindKey(id) ==
  LET at == {i \in DOMAIN keys : keys[i].key_id = id}
  IN  IF at = {} THEN 0 ELSE CHOOSE i \in at : \A j \in at : i <= j

\* Mutant: generation does not look for the id.
HasRoomUnchecked(id) == ~locked /\ Len(keys) < MaxKeys

\* The checks of km_key_generate.
HasRoom(id) == ~locked /\ Len(keys) < MaxKeys /\ FindKey(id) = 0

\* km_key_generate, called from outside with an id of its own.
KeyGenerate(id, days) ==
  /\ HasRoom(id)
  /\ keys' = Append(keys, [key_id           |-> id,
                           state            |-> "PRE_ACTIVATION",
                           version          |-> 1,
                           not_before       |-> now,
                           not_after        |-> now + days * Day,
                           is_tpm_protected |-> FALSE])
  /\ UNCHANGED <<locked, now>>

\* km_key_import_from_tpm does not look for the id.
KeyImportFromTpm(id) ==
  /\ ~locked
  /\ Len(keys) < MaxKeys
  /\ keys' = Append(keys, [key_id           |-> id,
                           state            |-> "ACTIVE",
                           version          |-> 1,
                           not_before       |-> now,
                           not_after        |-> now + DefaultDays * Day,
                           is_tpm_protected |-> TRUE])
  /\ UNCHANGED <<locked, now>>

\* The entry with this id moves from one of some states to another.  None of
\* the life cycle functions asks for the lock.
Transition(id, from, to) ==
  LET i == FindKey(id)
  IN  /\ i # 0
      /\ keys[i].state \in from
      /\ keys' = [keys EXCEPT ![i].state = to]
      /\ UNCHANGED <<locked, now>>

KeyActivate(id)   == Transition(id, {"PRE_ACTIVATION", "DEACTIVATED"}, "ACTIVE")
KeyDeactivate(id) == Transition(id, {"ACTIVE"}, "DEACTIVATED")

\* Mutant: a revoked key may be reactivated like a suspended one.
KeyReactivateRevoked(id) == Transition(id, {"DEACTIVATED", "REVOKED"}, "ACTIVE")

KeyReactivate(id) == Transition(id, {"DEACTIVATED"}, "ACTIVE")

KeyCompromise(id) ==
  Transition(id, KeyStates \ {"DESTROYED", "DESTROYED_COMPROMISED"},
             "COMPROMISED")

KeyRevoke(id) ==
  Transition(id, {"ACTIVE", "DEACTIVATED", "COMPROMISED"}, "REVOKED")

\* km_key_destroy, from any state.
KeyDestroy(id) ==
  \/ Transition(id, {"COMPROMISED"}, "DESTROYED_COMPROMISED")
  \/ Transition(id, KeyStates \ {"COMPROMISED"}, "DESTROYED")

\* The validity of a rotated key, in whole days.
RemainingDays(key) ==
  IF key.not_after > now THEN (key.not_after - now) \div Day ELSE DefaultDays

\* km_key_rotate once the policy asks for it: a successor is generated and
\* activated, the old key is deactivated.
KeyRotate(id) ==
  LET i      == FindKey(id)
      old    == keys[i]
      new_id == [id EXCEPT !.versions = Append(@, old.version + 1)]
  IN  /\ i # 0
      /\ old.state = "ACTIVE"
      /\ HasRoom(new_id)
      /\ keys' = Append([keys EXCEPT ![i].state = "DEACTIVATED"],
                        [key_id           |-> new_id,
                         state            |-> "ACTIVE",
                         version          |-> old.version + 1,
                         not_before       |-> now,
                         not_after        |-> now + RemainingDays(old) * Day,
                         is_tpm_protected |-> FALSE])
      /\ UNCHANGED <<locked, now>>

\* km_store_lock, km_store_unlock.
StoreLock   == locked' = TRUE  /\ UNCHANGED <<keys, now>>
StoreUnlock == locked' = FALSE /\ UNCHANGED <<keys, now>>

Tick ==
  /\ now < MaxNow
  /\ now' = now + 1
  /\ UNCHANGED <<keys, locked>>

\* The ids in the store, and those callers may add (one looks like a rotation's).
StoredIDs == {keys[i].key_id : i \in DOMAIN keys}
NewIDs    == [name : KeyNames, versions : {<< >>, <<2>>}]

KeyStoreNext ==
  \/ \E id \in NewIDs, days \in ValidDays : KeyGenerate(id, days)
  \/ \E id \in NewIDs \cup StoredIDs : KeyImportFromTpm(id)
  \/ \E id \in StoredIDs :
       \/ KeyActivate(id)
       \/ KeyDeactivate(id)
       \/ KeyReactivate(id)
       \/ KeyCompromise(id)
       \/ KeyRevoke(id)
       \/ KeyDestroy(id)
       \/ KeyRotate(id)
  \/ StoreLock
  \/ StoreUnlock
  \/ Tick

KeyStoreSpec == KeyStoreInit /\ [][KeyStoreNext]_ksvars

-----------------------------------------------------------------------------
(* Properties.                                                             *)

KeyStoreTypeOK ==
  /\ keys \in Seq(KeyEntry)
  /\ Len(keys) <= MaxKeys
  /\ locked \in BOOLEAN
  /\ now \in Nat

Retired == {"COMPROMISED", "REVOKED", "DESTROYED", "DESTROYED_COMPROMISED"}

\* The life cycle of key_mgmt.c (NIST SP 800-57): a key that was compromised,
\* revoked or destroyed signs nothing again, whatever is called on its id.
RetiredNeverReturns ==
  [][\A i \in DOMAIN keys :
       keys[i].state \in Retired => keys'[i].state \in Retired]_ksvars

\* Key q is the one that rotation replaced by key s.
Succeeds(s, q) ==
  /\ s.key_id.name = q.key_id.name
  /\ s.key_id.versions = Append(q.key_id.versions, s.version)
  /\ s.version = q.version + 1

\* Every rotated key has one predecessor in the store, older than itself and
\* once activated, and rotation does not prolong the period granted to it
\* unless that had run out.  Two entries share an id only by an import.
LineageIsSound ==
  /\ \A i \in DOMAIN keys : keys[i].version > 1 =>
       \E j \in 1 .. i - 1 :
         /\ Succeeds(keys[i], keys[j])
         /\ keys[j].state # "PRE_ACTIVATION"
         /\ \/ keys[i].not_after <= keys[j].not_after
            \/ keys[i].not_before >= keys[j].not_after
  /\ \A i, j \in DOMAIN keys :
       i < j /\ keys[i].key_id = keys[j].key_id => keys[j].is_tpm_protected
=============================================================================
