-------------------------------- MODULE Tpm2 --------------------------------
(***************************************************************************)
(* The TPM of mini-secure-boot/src/tpm.c: one PCR bank, NV indices,         *)
(* sessions and dictionary-attack lockout in one context.                   *)
(*                                                                         *)
(* Abstracted: a PCR is the sequence of what was extended (hashes do not    *)
(* collide; extend_count is its length), the data of an NV index is a       *)
(* number.  The clock never advances; the reset count, the written flag,    *)
(* session nonces and authorisation handles are stored and decide nothing.  *)
(* Quotes do not change the context and are not modelled.                   *)
(***************************************************************************)
EXTENDS Integers, Sequences

CONSTANTS
  Pcrs,              \* the PCRs in use, of 0 .. 23
  PcrDigests,
  HashAlgs,          \* "SHA256", the active bank, and others
  NvNames,           \* NV index numbers
  NvTemplates,       \* the types and attributes callers define
  NvModulus,         \* 2^64, the number of values of a counter
  MaxNvIndices,      \* TPM_MAX_NV_INDICES (32)
  MaxTpmSessions,    \* TPM_MAX_SESSIONS (3)
  MaxDaAttempts,     \* max_lockout_attempts (32)
  MaxPcrExtends,     \* bound of the model: extends of one PCR
  MaxDaCount         \* bound of the model: attempts counted

ASSUME Tpm2Assumption ==
  /\ Pcrs \subseteq 0 .. 23
  /\ "SHA256" \in HashAlgs
  /\ {NvModulus, MaxNvIndices, MaxTpmSessions, MaxPcrExtends} \subseteq Nat \ {0}
  /\ MaxDaAttempts \in 1 .. MaxDaCount /\ MaxDaCount \in Nat
  /\ \A t \in NvTemplates :
       /\ t.nv_type \in {"ORDINARY", "COUNTER"}
       /\ t.attributes \subseteq {"WRITEDEFINE", "WRITTEN", "READLOCKED"}

VARIABLES
  pcrs,              \* [hash_alg, digest] for each PCR
  nv,                \* indices[0 .. index_count - 1] of the NV store
  tsessions,         \* handles of sessions[0 .. session_count - 1]
  in_lockout,
  da_counter         \* lockout_counter

t2vars == <<pcrs, nv, tsessions, in_lockout, da_counter>>

Allocated(alg) == [hash_alg |-> alg, digest |-> << >>]

\* tpm_init.
Tpm2Init ==
  /\ pcrs = [i \in Pcrs |-> Allocated("SHA256")]
  /\ nv = << >>
  /\ tsessions = << >>
  /\ in_lockout = FALSE
  /\ da_counter = 0

-----------------------------------------------------------------------------
(* PCRs.                                                                   *)

\* The condition of tpm_pcr_reset.
CanReset(i) == i <= 16 \/ i = 23

Blanked(i) == [pcrs[i] EXCEPT !.digest = << >>]

PcrReset(i) ==
  /\ CanReset(i)
  /\ pcrs' = [pcrs EXCEPT ![i] = Blanked(i)]
  /\ UNCHANGED <<nv, tsessions, in_lockout, da_counter>>

\* tpm_pcr_allocate, of any PCR at any time.
PcrAllocate(i, alg) ==
  /\ pcrs' = [pcrs EXCEPT ![i] = Allocated(alg)]
  /\ UNCHANGED <<nv, tsessions, in_lockout, da_counter>>

\* tpm_pcr_extend: a digest of another algorithm is hashed first.
Extended(i, d, alg) ==
  [pcrs[i] EXCEPT !.digest =
     Append(@, [of |-> d, rehashed |-> alg # pcrs[i].hash_alg])]

PcrExtend(i, d, alg) ==
  /\ Len(pcrs[i].digest) < MaxPcrExtends
  /\ pcrs' = [pcrs EXCEPT ![i] = Extended(i, d, alg)]
  /\ UNCHANGED <<nv, tsessions, in_lockout, da_counter>>

\* tpm_startup; a resume leaves the PCRs alone.
StartupClear ==
  /\ pcrs' = [i \in Pcrs |-> IF i <= 16 THEN Blanked(i) ELSE pcrs[i]]
  /\ UNCHANGED <<nv, tsessions, in_lockout, da_counter>>

\* tpm_selftest(full_test): every PCR is extended with a test pattern, then
\* reset if it can be.  A PCR of an inactive bank fails the test at the start.
FullSelfTest ==
  /\ \A i \in Pcrs :
       /\ pcrs[i].hash_alg = "SHA256"
       /\ Len(pcrs[i].digest) < MaxPcrExtends
  /\ pcrs' = [i \in Pcrs |-> IF CanReset(i) THEN Blanked(i)
                             ELSE Extended(i, "test_pattern", "SHA256")]
  /\ UNCHANGED <<nv, tsessions, in_lockout, da_counter>>

\* tpm_clear, which leaves the lockout alone.
TpmClear ==
  /\ pcrs' = [i \in Pcrs |-> IF CanReset(i) THEN Blanked(i) ELSE pcrs[i]]
  /\ nv' = << >>
  /\ tsessions' = << >>
  /\ UNCHANGED <<in_lockout, da_counter>>

-----------------------------------------------------------------------------
(* NV storage.                                                             *)

\* nv_find, as a position, or 0.
NvAt(n) ==
  LET at == {i \in DOMAIN nv : nv[i].nv_index = n}
  IN  IF at = {} THEN 0 ELSE CHOOSE i \in at : \A j \in at : i <= j

\* tpm_nv_define_space.
NvDefine(n, t) ==
  /\ Len(nv) < MaxNvIndices
  /\ NvAt(n) = 0
  /\ nv' = Append(nv, [nv_index      |-> n,
                       nv_type       |-> t.nv_type,
                       nv_attributes |-> t.attributes,
                       nv_data       |-> 0])
  /\ UNCHANGED <<pcrs, tsessions, in_lockout, da_counter>>

Writable(idx) == "WRITTEN" \in idx.nv_attributes => "WRITEDEFINE" \in idx.nv_attributes

\* tpm_nv_write does not look at the type: it also sets a counter.
NvWrite(n, v) ==
  LET i == NvAt(n)
  IN  /\ i # 0
      /\ Writable(nv[i])
      /\ nv' = [nv EXCEPT ![i].nv_data = v]
      /\ UNCHANGED <<pcrs, tsessions, in_lockout, da_counter>>

\* Mutant: any index can be incremented.
NvIncrementAny(n) ==
  LET i == NvAt(n)
  IN  /\ i # 0
      /\ nv' = [nv EXCEPT ![i].nv_data = (@ + 1) % NvModulus]
      /\ UNCHANGED <<pcrs, tsessions, in_lockout, da_counter>>

\* tpm_nv_increment heeds no lock, and wraps.
NvIncrement(n) ==
  LET i == NvAt(n)
  IN  /\ i # 0
      /\ nv[i].nv_type = "COUNTER"
      /\ nv' = [nv EXCEPT ![i].nv_data = (@ + 1) % NvModulus]
      /\ UNCHANGED <<pcrs, tsessions, in_lockout, da_counter>>

\* tpm_nv_read_lock and tpm_nv_write_lock; the latter marks the index written,
\* which does not lock a WRITEDEFINE index.
NvLock(n, attribute) ==
  LET i == NvAt(n)
  IN  /\ i # 0
      /\ nv' = [nv EXCEPT ![i].nv_attributes = @ \cup {attribute}]
      /\ UNCHANGED <<pcrs, tsessions, in_lockout, da_counter>>

\* tpm_nv_undefine_space: the later indices move down.
NvUndefine(n) ==
  LET i == NvAt(n)
  IN  /\ i # 0
      /\ nv' = [j \in 1 .. Len(nv) - 1 |-> IF j < i THEN nv[j] ELSE nv[j + 1]]
      /\ UNCHANGED <<pcrs, tsessions, in_lockout, da_counter>>

-----------------------------------------------------------------------------
(* Sessions and lockout.                                                   *)

\* Mutant: the table has no end.
StartSessionUnchecked ==
  /\ tsessions' = Append(tsessions, Len(tsessions))
  /\ UNCHANGED <<pcrs, nv, in_lockout, da_counter>>

\* tpm_start_auth_session: the handle counts the sessions there are.
StartSession ==
  /\ Len(tsessions) < MaxTpmSessions
  /\ tsessions' = Append(tsessions, Len(tsessions))
  /\ UNCHANGED <<pcrs, nv, in_lockout, da_counter>>

\* tpm_flush_context: the first session with the handle goes.
FlushSession(h) ==
  LET at == {i \in DOMAIN tsessions : tsessions[i] = h}
      i  == CHOOSE i \in at : \A j \in at : i <= j
  IN  /\ at # {}
      /\ tsessions' = [j \in 1 .. Len(tsessions) - 1 |->
                         IF j < i THEN tsessions[j] ELSE tsessions[j + 1]]
      /\ UNCHANGED <<pcrs, nv, in_lockout, da_counter>>

\* tpm_dictionary_attack_increment.
DaIncrement ==
  /\ da_counter < MaxDaCount
  /\ da_counter' = da_counter + 1
  /\ in_lockout' = (in_lockout \/ da_counter + 1 >= MaxDaAttempts)
  /\ UNCHANGED <<pcrs, nv, tsessions>>

\* tpm_dictionary_attack_lock_reset.
DaLockReset ==
  /\ in_lockout
  /\ in_lockout' = FALSE
  /\ da_counter' = 0
  /\ UNCHANGED <<pcrs, nv, tsessions>>

PcrNext ==
  \/ StartupClear
  \/ FullSelfTest
  \/ \E i \in Pcrs :
       \/ PcrReset(i)
       \/ \E alg \in HashAlgs :
            \/ PcrAllocate(i, alg)
            \/ \E d \in PcrDigests : PcrExtend(i, d, alg)

NvNext ==
  \E n \in NvNames :
    \/ \E t \in NvTemplates : NvDefine(n, t)
    \/ \E v \in 0 .. NvModulus - 1 : NvWrite(n, v)
    \/ NvIncrement(n)
    \/ \E attribute \in {"WRITTEN", "READLOCKED"} : NvLock(n, attribute)
    \/ NvUndefine(n)

SessionNext ==
  \/ StartSession
  \/ \E h \in 0 .. MaxTpmSessions - 1 : FlushSession(h)
  \/ DaIncrement
  \/ DaLockReset

Tpm2Next == TpmClear \/ PcrNext \/ NvNext \/ SessionNext

Tpm2Spec == Tpm2Init /\ [][Tpm2Next]_t2vars

-----------------------------------------------------------------------------
(* Properties.                                                             *)

Tpm2TypeOK ==
  /\ \A i \in Pcrs : pcrs[i].hash_alg \in HashAlgs /\ Len(pcrs[i].digest) <= MaxPcrExtends
  /\ Len(nv) <= MaxNvIndices
  /\ \A i \in DOMAIN nv : nv[i].nv_index \in NvNames /\ nv[i].nv_data \in 0 .. NvModulus - 1
  /\ Len(tsessions) <= MaxTpmSessions
  /\ \A i \in DOMAIN tsessions : tsessions[i] \in 0 .. MaxTpmSessions - 1
  /\ da_counter \in 0 .. MaxDaCount
  /\ in_lockout <=> da_counter >= MaxDaAttempts

\* This TPM has no global lock, and its counters heed none.
NvView(idx) ==
  [kind     |-> "ORDINARY",
   content  |-> idx.nv_data,
   locked   |-> idx.nv_type # "COUNTER" /\ ~Writable(idx),
   barrable |-> FALSE]

NvSpaces == INSTANCE NVVault WITH
              Handles <- NvNames, barred <- FALSE,
              spaces <- [n \in {nv[i].nv_index : i \in DOMAIN nv} |-> NvView(nv[NvAt(n)])]

\* The NV store of this TPM, with its other lock, keeps the same promise: a
\* locked index is frozen until it is undefined or the TPM is cleared, and no
\* operation on one index disturbs another.
TpmKeepsVault == NvSpaces!Spec

\* A self test leaves no trace in the PCRs: the reset after the test extend is
\* there to "restore clean state".
SelfTestRestores == [][FullSelfTest => \A i \in Pcrs : pcrs'[i] = Blanked(i)]_t2vars
=============================================================================
