---------------------------- MODULE CapsuleUpdate ---------------------------
(***************************************************************************)
(* The UEFI capsule update of mini-secure-boot/src/firmware_update.c: one  *)
(* staging area, a mode, and the versions that rollback protection keeps.  *)
(*                                                                         *)
(* The calls come in any order: processing does not ask whether what is    *)
(* staged was validated, and staging does not ask what is under way.       *)
(*                                                                         *)
(* Abstracted: a capsule either passes the checks of GUID, sizes and       *)
(* checksum or not (the RSA branch of the validation decides nothing).     *)
(***************************************************************************)
EXTENDS Integers

CONSTANT MaxImageVersion    \* image versions are 1 .. MaxImageVersion

ASSUME CapsuleUpdateAssumption == MaxImageVersion \in Nat \ {0}

VARIABLES
  update_mode,                \* FW_UPDATE_MODE_*
  staged,                     \* the image header in the staging area
  staging_empty,              \* staging_size is too small for an image
  current_version,
  lowest_supported_version,
  update_pending,
  validated,      \* history: the staged image was answered FW_VERIFY_OK
  trusted         \* history: every image processed so far was validated

cuvars == <<update_mode, staged, staging_empty, current_version,
            lowest_supported_version, update_pending, validated, trusted>>

Versions == 1 .. MaxImageVersion

\* A vendor's image supports an update from itself.
Image == {img \in [version : Versions, lowest_supported_version : Versions,
                   intact : BOOLEAN] :
            img.lowest_supported_version <= img.version}

NoImage == [version |-> 1, lowest_supported_version |-> 1, intact |-> FALSE]

\* fw_capsule_init.
CapsuleUpdateInit ==
  /\ update_mode = "NORMAL"
  /\ staged = NoImage
  /\ staging_empty = TRUE
  /\ current_version = 1
  /\ lowest_supported_version = 1
  /\ update_pending = FALSE
  /\ validated = FALSE
  /\ trusted = TRUE

-----------------------------------------------------------------------------
\* fw_capsule_set_image, in any mode: it replaces what was staged.
CapsuleSetImage(image) ==
  /\ staged' = image
  /\ staging_empty' = FALSE
  /\ update_mode' = "STAGING"
  /\ validated' = FALSE
  /\ UNCHANGED <<current_version, lowest_supported_version, update_pending,
                 trusted>>

\* Mutant: the image is compared with the running version only.
AcceptableNoFloor == staged.lowest_supported_version <= current_version

\* The rollback checks of fw_capsule_validate.
Acceptable ==
  /\ staged.version >= lowest_supported_version
  /\ staged.lowest_supported_version <= current_version

\* fw_capsule_validate changes nothing; its answer is recorded.
CapsuleValidate ==
  /\ update_mode = "STAGING"
  /\ ~staging_empty
  /\ staged.intact
  /\ Acceptable
  /\ validated' = TRUE
  /\ UNCHANGED <<update_mode, staged, staging_empty, current_version,
                 lowest_supported_version, update_pending, trusted>>

\* fw_capsule_process.
CapsuleProcess ==
  /\ update_mode = "STAGING"
  /\ ~staging_empty
  /\ current_version' = staged.version
  /\ lowest_supported_version' =
       IF staged.lowest_supported_version > lowest_supported_version
       THEN staged.lowest_supported_version ELSE lowest_supported_version
  /\ update_mode' = "COMMIT"
  /\ update_pending' = TRUE
  /\ trusted' = (trusted /\ validated)
  /\ UNCHANGED <<staged, staging_empty, validated>>

\* fw_capsule_commit.
CapsuleCommit ==
  /\ update_pending
  /\ update_pending' = FALSE
  /\ update_mode' = "NORMAL"
  /\ UNCHANGED <<staged, staging_empty, current_version,
                 lowest_supported_version, validated, trusted>>

\* fw_capsule_rollback: the versions stay those of the image processed last.
CapsuleRollback ==
  /\ update_pending' = FALSE
  /\ update_mode' = "NORMAL"
  /\ staged' = NoImage
  /\ staging_empty' = TRUE
  /\ validated' = FALSE
  /\ UNCHANGED <<current_version, lowest_supported_version, trusted>>

CapsuleUpdateNext ==
  \/ \E image \in Image : CapsuleSetImage(image)
  \/ CapsuleValidate
  \/ CapsuleProcess
  \/ CapsuleCommit
  \/ CapsuleRollback

CapsuleUpdateSpec == CapsuleUpdateInit /\ [][CapsuleUpdateNext]_cuvars

-----------------------------------------------------------------------------
(* Properties.                                                             *)

CapsuleUpdateTypeOK ==
  /\ update_mode \in {"NORMAL", "STAGING", "COMMIT"}
  /\ staged \in Image
  /\ {staging_empty, update_pending, validated, trusted} \subseteq BOOLEAN
  /\ current_version \in Versions
  /\ lowest_supported_version \in Versions
  /\ update_mode = "COMMIT" => update_pending
  /\ update_mode = "NORMAL" => ~update_pending

\* Rollback protection across updates, commits, rollbacks and images staged
\* over each other: as long as no image is processed without having been
\* validated, the installed version is never below the floor that rollback
\* protection has raised, so the platform can always be updated again.
FloorHolds == trusted => lowest_supported_version <= current_version
=============================================================================
