------------------------------ MODULE TpmKeys ------------------------------
(***************************************************************************)
(* The key table of the TPM in mini-measured-boot/src/tpm_keys.c and the    *)
(* data sealed under its keys.  Keys sit in an array that closes up when    *)
(* one is flushed; a handle is computed from the number of keys loaded, so  *)
(* it can name a second key after a flush.                                  *)
(*                                                                         *)
(* Abstracted: key derivation is injective, so a primary key is what it is  *)
(* derived from; a composite is the PCR values it hashes; ciphertext is the *)
(* data with the wrapping key.  Names, policies and authorisation values    *)
(* are stored and never read.                                               *)
(***************************************************************************)
EXTENDS Integers, Sequences, FiniteSets

CONSTANTS
  KeyTemplates,     \* the types and attributes callers ask for
  Uniques,          \* the public parts of keys loaded from outside
  PCRStates,        \* values of the PCRs that data is sealed to
  SealedData,
  MaxLoadedKeys,    \* TPM_MAX_LOADED_KEYS (16)
  MaxKeysMade,      \* bound of the model: keys created or loaded
  MaxBlobs          \* bound of the model: sealed blobs

ASSUME KeysAssumption ==
  /\ {MaxLoadedKeys, MaxKeysMade, MaxBlobs} \subseteq Nat
  /\ MaxLoadedKeys <= 255

VARIABLES
  keys,             \* keys[0 .. key_count - 1]
  seeds_generated,
  blobs,            \* the sealed blobs callers hold
  keys_made,        \* history: how many keys there have been
  stacked           \* history: only the newest key was ever flushed

tkvars == <<keys, seeds_generated, blobs, keys_made, stacked>>

Hierarchies == {"OWNER", "ENDORSEMENT", "PLATFORM"}

\* The offsets from 0x81000000 of the primary handles of tpm_create_primary.
HierarchyBase == [OWNER |-> 0, ENDORSEMENT |-> 65536, PLATFORM |-> 131072]

\* tpm_key_manager_init.
TpmKeysInit ==
  /\ keys = << >>
  /\ seeds_generated = FALSE
  /\ blobs = {}
  /\ keys_made = 0
  /\ stacked = TRUE

-----------------------------------------------------------------------------
\* tpm_validate_key_attrs.
ValidAttrs(t) ==
  /\ "FIXEDTPM" \in t.attributes => "FIXEDPARENT" \in t.attributes
  /\ "SENSITIVEDATAORIGIN" \in t.attributes => "FIXEDTPM" \in t.attributes
  /\ {"SIGN", "DECRYPT", "RESTRICTED"} \subseteq t.attributes => t.key_type = "KEYEDHASH"

\* Mutant: a handle is looked up from the newest key down.
FindHandleNewest(h) ==
  LET at == {i \in DOMAIN keys : keys[i].handle = h}
  IN  IF at = {} THEN 0 ELSE CHOOSE i \in at : \A j \in at : j <= i

\* The loop that starts tpm_flush_key, tpm_seal and tpm_unseal.
FindHandle(h) ==
  LET at == {i \in DOMAIN keys : keys[i].handle = h}
  IN  IF at = {} THEN 0 ELSE CHOOSE i \in at : \A j \in at : i <= j

HasKeyRoom == Len(keys) < MaxLoadedKeys /\ keys_made < MaxKeysMade

AddKey(handle, unique) ==
  /\ keys' = Append(keys, [handle |-> handle, unique |-> unique, born |-> keys_made])
  /\ keys_made' = keys_made + 1
  /\ UNCHANGED <<seeds_generated, blobs, stacked>>

\* tpm_generate_primary_seeds.  The seeds are always the same.
GeneratePrimarySeeds ==
  /\ seeds_generated' = TRUE
  /\ UNCHANGED <<keys, blobs, keys_made, stacked>>

\* tpm_create_primary.
CreatePrimary(hierarchy, t) ==
  /\ seeds_generated
  /\ HasKeyRoom
  /\ ValidAttrs(t)
  /\ AddKey(HierarchyBase[hierarchy] + Len(keys), <<hierarchy, t>>)

\* Mutant: the handle does not count the keys.
LoadKeyOneHandle(unique) == HasKeyRoom /\ AddKey(256, <<unique>>)

\* tpm_load_key, which does not look for the parent.
LoadKey(unique) == HasKeyRoom /\ AddKey((Len(keys) + 1) * 256, <<unique>>)

\* tpm_flush_key: the later keys move down and keep their handles.
FlushKey(h) ==
  LET i == FindHandle(h)
  IN  /\ i # 0
      /\ keys' = [j \in 1 .. Len(keys) - 1 |-> IF j < i THEN keys[j] ELSE keys[j + 1]]
      /\ stacked' = (stacked /\ i = Len(keys))
      /\ UNCHANGED <<seeds_generated, blobs, keys_made>>

\* tpm_seal.  A blob says neither the handle nor the key; of and under are
\* what its holder remembers.
Seal(h, pcrs, data) ==
  LET i == FindHandle(h)
  IN  /\ i # 0
      /\ Cardinality(blobs) < MaxBlobs
      /\ blobs' = blobs \cup {[composite |-> pcrs,
                               data      |-> data,
                               wrapping  |-> <<keys[i].unique, pcrs>>,
                               under     |-> h,
                               of        |-> keys[i].born]}
      /\ UNCHANGED <<keys, seeds_generated, keys_made, stacked>>

\* What tpm_unseal answers.  The wrong key is not noticed.
Unseal(h, blob, pcrs) ==
  LET i == FindHandle(h)
  IN  IF i = 0 \/ pcrs # blob.composite THEN "refused"
      ELSE IF <<keys[i].unique, pcrs>> = blob.wrapping THEN blob.data
      ELSE "garbage"

TpmKeysNext ==
  \/ GeneratePrimarySeeds
  \/ \E hierarchy \in Hierarchies, t \in KeyTemplates : CreatePrimary(hierarchy, t)
  \/ \E u \in Uniques : LoadKey(u)
  \/ \E i \in DOMAIN keys :
       \/ FlushKey(keys[i].handle)
       \/ \E pcrs \in PCRStates, d \in SealedData : Seal(keys[i].handle, pcrs, d)

TpmKeysSpec == TpmKeysInit /\ [][TpmKeysNext]_tkvars

-----------------------------------------------------------------------------
(* Properties.                                                             *)

TpmKeysTypeOK ==
  /\ Len(keys) <= MaxLoadedKeys
  /\ keys_made \in 0 .. MaxKeysMade
  /\ {seeds_generated, stacked} \subseteq BOOLEAN
  /\ \A i \in DOMAIN keys : keys[i].handle \in Nat /\ keys[i].born < keys_made

\* As long as the key that sealed a blob is loaded, its handle and the PCR
\* values of that time recover the data, whatever is loaded and flushed around
\* it: a later key may get the same handle but never comes first.
SealedStaysReadable ==
  \A b \in blobs :
    (\E i \in DOMAIN keys : keys[i].born = b.of)
      => Unseal(b.under, b, b.composite) = b.data

\* While keys are flushed in the reverse order of their creation, a handle
\* names one key, whichever functions created them.
StackedHandlesAreUnique ==
  stacked => \A i, j \in DOMAIN keys : keys[i].handle = keys[j].handle => i = j

\* Keys stay usable: sealed data is read back, and a handle means one key.
KeysStayUsable == SealedStaysReadable /\ StackedHandlesAreUnique
=============================================================================
