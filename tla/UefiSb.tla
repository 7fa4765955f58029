------------------------------- MODULE UefiSb -------------------------------
(***************************************************************************)
(* The Secure Boot variables of mini-secure-boot/src/uefi_sb.c: ownership  *)
(* by a platform key, the signature databases and the verdict on an image. *)
(*                                                                         *)
(* Abstracted: an entry is its type and its data (sizes go with the data,  *)
(* the owner GUID is never compared); the timestamps only count calls.     *)
(***************************************************************************)
EXTENDS Integers, Sequences, SequencesExt

CONSTANTS
  Data,               \* hashes and certificates
  MaxSignatures       \* SB_MAX_SIGNATURES_PER_DB (64)

ASSUME UefiSbAssumption == MaxSignatures \in Nat \ {0}

VARIABLES
  setup_mode,
  secure_boot,    \* set by the caller (examples/secure_boot_demo.c)
  sigdb           \* sigdb[d]: the entries of a signature database

sbvars == <<setup_mode, secure_boot, sigdb>>

DBs == {"pk", "kek", "db", "dbx", "dbt", "dbr"}

\* SB_SIG_TYPE_NONE is the type of a zeroed lookup entry.
SigTypes == {"NONE", "X509_CERT", "SHA256_HASH"}
SigEntry == [type : SigTypes \ {"NONE"}, data : Data]

\* sb_init.
UefiSbInit ==
  /\ setup_mode = TRUE
  /\ secure_boot = FALSE
  /\ sigdb = [d \in DBs |-> << >>]

-----------------------------------------------------------------------------
\* Mutant: one entry too many.
AddEntryOverrun(d, e) ==
  /\ Len(sigdb[d]) <= MaxSignatures
  /\ sigdb' = [sigdb EXCEPT ![d] = Append(@, e)]

\* db_add_entry: a full database refuses the entry.
AddEntry(d, e) ==
  /\ Len(sigdb[d]) < MaxSignatures
  /\ sigdb' = [sigdb EXCEPT ![d] = Append(@, e)]

\* db_find_entry.
Has(d, e) == \E i \in DOMAIN sigdb[d] : sigdb[d][i] = e

\* sb_enroll_pk: the platform gets an owner.
EnrollPk(e) ==
  /\ setup_mode \/ sigdb["pk"] = << >>
  /\ sigdb' = [sigdb EXCEPT !["pk"] = <<e>>]
  /\ setup_mode' = FALSE
  /\ UNCHANGED secure_boot

\* sb_enroll_kek, sb_enroll_db, sb_enroll_dbx.  In setup mode they report
\* success and enroll nothing.
Enroll(d, e) ==
  /\ d \in {"kek", "db", "dbx"}
  /\ ~setup_mode
  /\ AddEntry(d, e)
  /\ UNCHANGED <<setup_mode, secure_boot>>

\* sb_enroll_dbt, sb_enroll_dbr: no look at the mode.
EnrollUngated(d, e) ==
  /\ d \in {"dbt", "dbr"}
  /\ AddEntry(d, e)
  /\ UNCHANGED <<setup_mode, secure_boot>>

\* sb_remove_db, sb_remove_dbx: the first copy goes.
RemoveEntry(d, e) ==
  /\ d \in {"db", "dbx"}
  /\ ~setup_mode
  /\ Has(d, e)
  /\ sigdb' = [sigdb EXCEPT ![d] = RemoveFirst(@, e)]
  /\ UNCHANGED <<setup_mode, secure_boot>>

\* Mutant: losing the owner leaves enforcement on.
DeletePkKeepsFlag ==
  /\ sigdb' = [sigdb EXCEPT !["pk"] = << >>]
  /\ setup_mode' = TRUE
  /\ UNCHANGED secure_boot

\* sb_delete_pk; in setup mode the flag is left as it is.
DeletePk ==
  /\ sigdb' = [sigdb EXCEPT !["pk"] = << >>]
  /\ setup_mode' = TRUE
  /\ secure_boot' = (secure_boot /\ setup_mode)

\* A caller turns enforcement on once the platform has an owner.
EnableSecureBoot ==
  /\ ~setup_mode
  /\ secure_boot' = TRUE
  /\ UNCHANGED <<setup_mode, sigdb>>

UefiSbNext ==
  \/ \E e \in SigEntry :
       \/ EnrollPk(e)
       \/ \E d \in DBs : Enroll(d, e) \/ EnrollUngated(d, e) \/ RemoveEntry(d, e)
  \/ DeletePk
  \/ EnableSecureBoot

UefiSbSpec == UefiSbInit /\ [][UefiSbNext]_sbvars

-----------------------------------------------------------------------------
(* The verdict on an image.                                                *)

\* sb_is_in_dbx looks for an entry whose type was never set.
InDbx(data) ==
  \E d \in {"dbx", "dbr"} : Has(d, [type |-> "NONE", data |-> data])

\* sb_verify_image.
VerifyImage(hash, signature) ==
  \/ setup_mode
  \/ ~secure_boot
  \/ /\ ~InDbx(hash)
     /\ ~InDbx(signature)
     /\ \E d \in {"db", "dbt"} : Has(d, [type |-> "SHA256_HASH", data |-> hash])

-----------------------------------------------------------------------------
(* Properties.                                                             *)

UefiSbTypeOK ==
  /\ setup_mode \in BOOLEAN
  /\ secure_boot \in BOOLEAN
  /\ sigdb \in [DBs -> Seq(SigEntry)]
  /\ \A d \in DBs : Len(sigdb[d]) <= MaxSignatures

\* Through any sequence of enrolments and deletions of the platform key there
\* is exactly one key when the platform is owned and none in setup mode, and
\* Secure Boot is enforced only for an owner.
EnforcementNeedsOwner ==
  /\ setup_mode <=> sigdb["pk"] = << >>
  /\ ~setup_mode <=> Len(sigdb["pk"]) = 1
  /\ secure_boot => ~setup_mode

\* "Check dbx/dbr blacklist first" (the comment of sb_verify_image): while
\* Secure Boot is enforced, an image whose hash is enrolled in dbx is refused.
ForbiddenNeverBoots ==
  secure_boot /\ ~setup_mode =>
    \A hash, signature \in Data :
      Has("dbx", [type |-> "SHA256_HASH", data |-> hash])
        => ~VerifyImage(hash, signature)
=============================================================================
