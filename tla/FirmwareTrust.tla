---------------------------- MODULE FirmwareTrust ----------------------------
(***************************************************************************)
(* The roots of trust of mini-firmware-security: its UEFI Secure Boot       *)
(* policy (secure_boot.c) and its TPM (tpm_attestation.c).                  *)
(*                                                                         *)
(* The policy has four flags that describe its mode, written by six         *)
(* functions, and lists that outlive the mode they were filled in.  The     *)
(* TPM has two banks, of which the event log accounts for one.              *)
(*                                                                         *)
(* Abstracted: an image is its hash; a signature names the key that made    *)
(* it; a PCR is the sequence of the digests it was extended with since it   *)
(* was zero.  SHA-2, RSA and X.509 are not modelled.                        *)
(***************************************************************************)
EXTENDS Integers, Sequences, FiniteSets, FiniteSetsExt, SequencesExt, EventReplay

CONSTANTS
  FsKeys,        \* certificates, each with one key
  FsImages,      \* hashes of images
  MaxKek, MaxDb, \* SB_MAX_CERTIFICATES (8), SB_MAX_SIGNATURES (16)
  LowPcrs,       \* PCRs below 16, reset under locality 4 only
  HighPcrs,      \* the others
  TpDigests,     \* digests of events
  TpLogMax,      \* TPM_EVENT_LOG_MAX_ENTRIES (64)
  TpMaxExtends,  \* bound on the length of a PCR
  TpNonces, TpQuoteMax   \* nonces, and a bound on the quotes kept

\* No certificate is the absence of one.
ASSUME FirmwareTrustAssumption ==
  /\ "none" \notin FsKeys
  /\ MaxKek \in Nat /\ MaxDb \in Nat /\ TpLogMax \in Nat /\ TpMaxExtends \in Nat

VARIABLES
  fsPolicy,      \* SecureBootPolicy: [pk, kek, db, dbx, mode, setup, enabled, deployed, audit]
  fsRevoked,     \* history: images put into dbx since the keys were last cleared
  fsCleared,     \* history: keys were cleared after the last transition to a mode
  tpPcrs,        \* pcr_banks: bank -> PCR -> value
  tpLocality,    \* locality 4 was ever set; no function ever leaves a locality
  tpLog,         \* event_log: [pcr, digest]
  tpKeys,        \* the keys generated: "ek", "srk", "ak"
  tpQuotes,      \* quotes made, [nonce, pcrs], with the PCRs reset since
  tpDirect       \* history: PCRs of the SHA-256 bank extended past the log or reset

fsvars == <<fsPolicy, fsRevoked, fsCleared>>
tpvars == <<tpPcrs, tpLocality, tpLog, tpKeys, tpQuotes, tpDirect>>
ftvars == <<fsvars, tpvars>>

-----------------------------------------------------------------------------
\* Secure Boot.

\* sb_init.
FsInit ==
  /\ fsPolicy = [pk |-> "none", kek |-> << >>, db |-> << >>, dbx |-> << >>, mode |-> "setup",
                 setup |-> TRUE, enabled |-> FALSE, deployed |-> FALSE, audit |-> FALSE]
  /\ fsRevoked = {}
  /\ fsCleared = FALSE

\* sb_enroll_pk: in setup mode only.
FsEnrollPk(cert) ==
  /\ fsPolicy.setup
  /\ fsPolicy' = [fsPolicy EXCEPT !.pk = cert, !.setup = FALSE, !.mode = "user", !.enabled = TRUE]
  /\ UNCHANGED <<fsRevoked, fsCleared>>

\* sb_enroll_kek, and sb_enroll_db and sb_enroll_dbx, which only ask for some KEK; an entry
\* of db is a certificate or the hash of an image.
FsEnrollKek(cert) ==
  /\ ~fsPolicy.setup
  /\ Len(fsPolicy.kek) < MaxKek
  /\ fsPolicy' = [fsPolicy EXCEPT !.kek = Append(@, cert)]
  /\ UNCHANGED <<fsRevoked, fsCleared>>

FsEnrollDb(entry) ==
  /\ fsPolicy.kek # << >>
  /\ Len(fsPolicy.db) < MaxDb
  /\ fsPolicy' = [fsPolicy EXCEPT !.db = Append(@, entry)]
  /\ UNCHANGED <<fsRevoked, fsCleared>>

FsEnrollDbx(image) ==
  /\ fsPolicy.kek # << >>
  /\ Len(fsPolicy.dbx) < MaxDb
  /\ fsPolicy' = [fsPolicy EXCEPT !.dbx = Append(@, image)]
  /\ fsRevoked' = fsRevoked \cup {image}
  /\ UNCHANGED fsCleared

\* Mutant: the mode flag is forgotten.
FsDeletePkEnabled ==
  /\ ~fsPolicy.deployed
  /\ fsPolicy' = [fsPolicy EXCEPT !.pk = "none", !.setup = TRUE, !.mode = "setup"]
  /\ UNCHANGED <<fsRevoked, fsCleared>>

\* sb_delete_pk: back to setup mode, with all other keys; not when deployed.
FsDeletePk ==
  /\ ~fsPolicy.deployed
  /\ fsPolicy' = [fsPolicy EXCEPT !.pk = "none", !.setup = TRUE, !.mode = "setup", !.enabled = FALSE]
  /\ UNCHANGED <<fsRevoked, fsCleared>>

\* sb_delete_kek: what it authorized stays.
FsDeleteKek(n) ==
  /\ ~fsPolicy.deployed
  /\ fsPolicy' = [fsPolicy EXCEPT !.kek = RemoveAt(@, n)]
  /\ UNCHANGED <<fsRevoked, fsCleared>>

\* sb_clear_secure_boot_keys: whatever the mode; the deployed and audit flags stay.
FsClearKeys ==
  /\ fsPolicy' = [fsPolicy EXCEPT !.pk = "none", !.kek = << >>, !.db = << >>, !.dbx = << >>,
                                  !.mode = "setup", !.setup = TRUE, !.enabled = FALSE]
  /\ fsRevoked' = {}
  /\ fsCleared' = TRUE

\* sb_transition_to_user_mode, from any mode that has a PK.
FsToUserMode ==
  /\ fsPolicy.pk # "none"
  /\ fsPolicy' = [fsPolicy EXCEPT !.mode = "user", !.setup = FALSE, !.enabled = TRUE,
                                  !.deployed = FALSE, !.audit = FALSE]
  /\ fsCleared' = FALSE
  /\ UNCHANGED fsRevoked

\* sb_transition_to_deployed_mode.
FsToDeployedMode ==
  /\ fsPolicy.pk # "none" /\ fsPolicy.kek # << >>
  /\ fsPolicy' = [fsPolicy EXCEPT !.mode = "deployed", !.setup = FALSE, !.enabled = TRUE,
                                  !.deployed = TRUE, !.audit = FALSE]
  /\ fsCleared' = FALSE
  /\ UNCHANGED fsRevoked

\* The caller turns audit mode on; the functions only turn it off.
FsSetAudit ==
  /\ fsPolicy' = [fsPolicy EXCEPT !.audit = TRUE]
  /\ UNCHANGED <<fsRevoked, fsCleared>>

FsNext ==
  \/ \E cert \in FsKeys : FsEnrollPk(cert) \/ FsEnrollKek(cert)
  \/ \E entry \in FsKeys \cup FsImages : FsEnrollDb(entry)
  \/ \E image \in FsImages : FsEnrollDbx(image)
  \/ \E n \in DOMAIN fsPolicy.kek : FsDeleteKek(n)
  \/ FsDeletePk \/ FsClearKeys \/ FsToUserMode \/ FsToDeployedMode \/ FsSetAudit

FsSpec == FsInit /\ [][FsNext]_fsvars

\* sb_query_db, sb_query_dbx.
InList(list, entry) == \E k \in DOMAIN list : list[k] = entry

\* Mutant: what db allows is not looked up in dbx.
FsVerdictDbFirst(image, signer) ==
  IF ~fsPolicy.enabled \/ InList(fsPolicy.db, image) THEN "verified"
  ELSE IF InList(fsPolicy.dbx, image) THEN "revoked"
  ELSE IF InList(fsPolicy.db, signer) \/ InList(fsPolicy.kek, signer) THEN "verified"
  ELSE IF fsPolicy.audit THEN "deferred" ELSE "refused"

\* sb_verify_image of an image signed with some key, "unsigned" when it has no signature:
\* the first of its steps that decides.
FsVerdict(image, signer) ==
  IF ~fsPolicy.enabled THEN "verified"
  ELSE IF InList(fsPolicy.dbx, image) THEN "revoked"
  ELSE IF \/ InList(fsPolicy.db, image)
          \/ InList(fsPolicy.db, signer) \/ InList(fsPolicy.kek, signer) THEN "verified"
  ELSE IF fsPolicy.audit THEN "deferred" ELSE "refused"

-----------------------------------------------------------------------------
\* The TPM.

TpPcrSet == LowPcrs \cup HighPcrs
TpBanks == {"sha1", "sha256"}

\* tpm_init.
TpInit ==
  /\ tpPcrs = [bank \in TpBanks |-> [p \in TpPcrSet |-> << >>]]
  /\ tpLocality = FALSE
  /\ tpLog = << >>
  /\ tpKeys = {}
  /\ tpQuotes = {}
  /\ tpDirect = {}

Extended(bank, p, digest) == [tpPcrs EXCEPT ![bank][p] = Append(@, digest)]
RoomIn(bank, p) == Len(tpPcrs[bank][p]) < TpMaxExtends

\* tpm_set_locality(4).
TpSetLocality ==
  /\ tpLocality' = TRUE
  /\ UNCHANGED <<tpPcrs, tpLog, tpKeys, tpQuotes, tpDirect>>

\* tpm_pcr_extend by itself.
TpExtend(bank, p, digest) ==
  /\ RoomIn(bank, p)
  /\ tpPcrs' = Extended(bank, p, digest)
  /\ tpDirect' = IF bank = "sha256" THEN tpDirect \cup {p} ELSE tpDirect
  /\ UNCHANGED <<tpLocality, tpLog, tpKeys, tpQuotes>>

\* tpm_pcr_reset: in all banks; the log keeps what it says.
TpReset(p) ==
  /\ p \in LowPcrs => tpLocality
  /\ tpPcrs' = [bank \in TpBanks |-> [tpPcrs[bank] EXCEPT ![p] = << >>]]
  /\ tpDirect' = tpDirect \cup {p}
  /\ tpQuotes' = {[q EXCEPT !.reset = @ \cup {p}] : q \in tpQuotes}
  /\ UNCHANGED <<tpLocality, tpLog, tpKeys>>

\* Mutant: an event is measured although the log has no room for it.
TpLogAddMeasuresFirst(p, digest) ==
  /\ RoomIn("sha256", p)
  /\ tpPcrs' = Extended("sha256", p, digest)
  /\ tpLog' = IF Len(tpLog) < TpLogMax THEN Append(tpLog, [pcr |-> p, digest |-> digest]) ELSE tpLog
  /\ UNCHANGED <<tpLocality, tpKeys, tpQuotes, tpDirect>>

\* tpm_event_log_add: the SHA-256 bank only.
TpLogAdd(p, digest) ==
  /\ Len(tpLog) < TpLogMax
  /\ RoomIn("sha256", p)
  /\ tpPcrs' = Extended("sha256", p, digest)
  /\ tpLog' = Append(tpLog, [pcr |-> p, digest |-> digest])
  /\ UNCHANGED <<tpLocality, tpKeys, tpQuotes, tpDirect>>

\* tpm_create_ek, tpm_create_srk, tpm_create_ak: each from the one before, again and again
\* to the same key.
TpCreateKey(key) ==
  /\ key = "srk" => "ek" \in tpKeys
  /\ key = "ak" => "srk" \in tpKeys
  /\ tpKeys' = tpKeys \cup {key}
  /\ UNCHANGED <<tpPcrs, tpLocality, tpLog, tpQuotes, tpDirect>>

\* tpm_quote_create: the SHA-256 bank, all PCRs.
TpQuote(nonce) ==
  /\ "ak" \in tpKeys
  /\ Cardinality(tpQuotes) < TpQuoteMax
  /\ tpQuotes' = tpQuotes \cup {[nonce |-> nonce, pcrs |-> tpPcrs["sha256"], reset |-> {}]}
  /\ UNCHANGED <<tpPcrs, tpLocality, tpLog, tpKeys, tpDirect>>

TpNext ==
  \/ \E p \in TpPcrSet, d \in TpDigests : TpLogAdd(p, d) \/ \E bank \in TpBanks : TpExtend(bank, p, d)
  \/ \E p \in TpPcrSet : TpReset(p)
  \/ \E key \in {"ek", "srk", "ak"} : TpCreateKey(key)
  \/ \E nonce \in TpNonces : TpQuote(nonce)
  \/ TpSetLocality

TpSpec == TpInit /\ [][TpNext]_tpvars

\* The digests a log has for a PCR, what tpm_event_log_verify simulates.
Replayed(log, p) == Replay(log, p)

\* tpm_event_log_verify looks at the PCRs that occur in the log.
TpLogVerifies ==
  \A p \in {tpLog[k].pcr : k \in DOMAIN tpLog} : Replayed(tpLog, p) = tpPcrs["sha256"][p]

\* tpm_quote_verify against expected values of all PCRs.
TpQuoteVerifies(q, nonce, expected) == q.nonce = nonce /\ q.pcrs = expected

\* tpm_check_pcr_policy of a bank, a mask and expected values.
TpPolicyHolds(bank, mask, expected) == \A p \in mask : tpPcrs[bank][p] = expected[p]

-----------------------------------------------------------------------------
FirmwareTrustTypeOK ==
  /\ Len(fsPolicy.kek) <= MaxKek /\ Len(fsPolicy.db) <= MaxDb /\ Len(fsPolicy.dbx) <= MaxDb
  /\ fsPolicy.mode \in {"setup", "user", "deployed"}
  /\ tpKeys \subseteq {"ek", "srk", "ak"}
  /\ \A bank \in TpBanks : \A p \in TpPcrSet : Len(tpPcrs[bank][p]) <= TpMaxExtends

\* The four mode flags agree: setup mode is the absence of a PK, and then nothing is
\* enforced; the policy is deployed with a PK and a KEK unless its keys were cleared since.
\* While it is enforced no revoked image is accepted, in audit mode neither, also not by
\* an entry of db that allows it; what is accepted without audit mode is allowed by db
\* or signed with a key of db or KEK (sb_verify_image, sb_delete_pk, sb_enroll_dbx).
PolicyEnforced ==
  /\ fsPolicy.setup <=> fsPolicy.pk = "none"
  /\ fsPolicy.enabled <=> ~fsPolicy.setup
  /\ fsPolicy.setup <=> fsPolicy.mode = "setup"
  /\ fsPolicy.deployed /\ ~fsCleared => ~fsPolicy.setup /\ fsPolicy.kek # << >>
  /\ fsPolicy.enabled =>
       \A image \in FsImages, signer \in FsKeys \cup {"unsigned"} :
         /\ image \in fsRevoked => FsVerdict(image, signer) = "revoked"
         /\ FsVerdict(image, signer) = "verified" =>
              \E e \in Range(fsPolicy.db) \cup Range(fsPolicy.kek) : e \in {image, signer}

\* A PCR that was only extended through the event log holds what the log replays to, so a
\* log of such PCRs verifies.  What a quote says of a PCR that was not reset since is the
\* beginning of what the PCR holds now, a policy on such values fails once it grew, and
\* the PCRs below 16 are never reset unless locality 4 was set at some time
\* (tpm_event_log_add, tpm_pcr_reset, tpm_quote_create).
LogAndQuotesExplain ==
  /\ \A p \in TpPcrSet \ tpDirect : tpPcrs["sha256"][p] = Replayed(tpLog, p)
  /\ {tpLog[k].pcr : k \in DOMAIN tpLog} \cap tpDirect = {} => TpLogVerifies
  /\ \A q \in tpQuotes :
       /\ "ak" \in tpKeys /\ "ek" \in tpKeys
       /\ \A p \in TpPcrSet \ q.reset :
            /\ IsPrefix(q.pcrs[p], tpPcrs["sha256"][p])
            /\ TpPolicyHolds("sha256", {p}, q.pcrs) <=> Len(tpPcrs["sha256"][p]) = Len(q.pcrs[p])
       /\ ~tpLocality => q.reset \cap LowPcrs = {}
       /\ \A nonce \in TpNonces : TpQuoteVerifies(q, nonce, q.pcrs) <=> nonce = q.nonce
=============================================================================
