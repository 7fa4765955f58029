------------------------------ MODULE TpmAuth ------------------------------
(***************************************************************************)
(* Authorisation sessions, dictionary-attack lockout and locality of the    *)
(* TPM in mini-measured-boot/src/tpm_locality.c.                            *)
(*                                                                         *)
(* Abstracted: a policy digest is the sequence of what was hashed into it   *)
(* (hashes do not collide), the zero digest is the empty one; a session's   *)
(* nonces, kind and trial flag are stored and never read.  Callers assert   *)
(* one PCR digest at a time: the buffer of tpm_policy_pcr holds no more.    *)
(***************************************************************************)
EXTENDS Integers, Sequences, FiniteSetsExt

CONSTANTS
  MaxSessions,       \* MAX_SESSION_HANDLES (8)
  MaxAuthFail,       \* max_auth_fail (5)
  Assertions,        \* what policy commands hash into a session
  MaxAssertions,     \* bound of the model: assertions in one session
  MaxLockoutCount    \* bound of the model: failures counted

ASSUME AuthAssumption ==
  /\ {MaxSessions, MaxAuthFail, MaxAssertions, MaxLockoutCount} \subseteq Nat \ {0}
  /\ MaxAuthFail <= MaxLockoutCount

VARIABLES
  sessions,          \* one record per slot
  session_count,
  lockout_counter,
  lockout_active,
  locality

tavars == <<sessions, session_count, lockout_counter, lockout_active, locality>>

Slots == 0 .. MaxSessions - 1
BlankSession == [is_active |-> FALSE, policy_digest |-> << >>, policy_approved |-> FALSE]
ActiveSlots == {i \in Slots : sessions[i].is_active}

\* tpm_auth_manager_init.
TpmAuthInit ==
  /\ sessions = [i \in Slots |-> BlankSession]
  /\ session_count = 0
  /\ lockout_counter = 0
  /\ lockout_active = FALSE
  /\ locality = 0

-----------------------------------------------------------------------------
\* tpm_start_auth_session takes the first free slot, which names the session,
\* and leaves the policy digest as it finds it.
StartAuthSession ==
  /\ session_count < MaxSessions
  /\ ActiveSlots # Slots
  /\ LET i == Min(Slots \ ActiveSlots)
     IN  sessions' = [sessions EXCEPT ![i].is_active = TRUE,
                                      ![i].policy_approved = FALSE]
  /\ session_count' = session_count + 1
  /\ UNCHANGED <<lockout_counter, lockout_active, locality>>

\* tpm_policy_pcr, tpm_policy_secret and tpm_policy_or fold their input into
\* the digest of an active session.
PolicyExtend(i, a) ==
  /\ sessions[i].is_active
  /\ Len(sessions[i].policy_digest) < MaxAssertions
  /\ sessions' = [sessions EXCEPT ![i].policy_digest = Append(@, a)]
  /\ UNCHANGED <<session_count, lockout_counter, lockout_active, locality>>

\* tpm_policy_password.
PolicyPassword(i) ==
  /\ sessions[i].is_active
  /\ sessions' = [sessions EXCEPT ![i].policy_approved = TRUE]
  /\ UNCHANGED <<session_count, lockout_counter, lockout_active, locality>>

\* Mutant: the slot is released and not cleared.
FlushContextInPlace(i) ==
  /\ sessions[i].is_active
  /\ sessions' = [sessions EXCEPT ![i].is_active = FALSE]
  /\ session_count' = session_count - 1
  /\ UNCHANGED <<lockout_counter, lockout_active, locality>>

\* tpm_flush_context.
FlushContext(i) ==
  /\ sessions[i].is_active
  /\ sessions' = [sessions EXCEPT ![i] = BlankSession]
  /\ session_count' = session_count - 1
  /\ UNCHANGED <<lockout_counter, lockout_active, locality>>

\* tpm_authorize_command; right: the authorisation value is the required one.
\* Nothing clears lockout_active.
AuthorizeCommand(right) ==
  /\ ~lockout_active
  /\ IF right
     THEN lockout_counter' = 0 /\ UNCHANGED lockout_active
     ELSE /\ lockout_counter < MaxLockoutCount
          /\ lockout_counter' = lockout_counter + 1
          /\ lockout_active' = (lockout_counter + 1 >= MaxAuthFail)
  /\ UNCHANGED <<sessions, session_count, locality>>

\* tpm_set_locality.
SetLocality(l) ==
  /\ locality' = l
  /\ UNCHANGED <<sessions, session_count, lockout_counter, lockout_active>>

TpmAuthNext ==
  \/ StartAuthSession
  \/ \E i \in Slots :
       \/ \E a \in Assertions : PolicyExtend(i, a)
       \/ PolicyPassword(i)
       \/ FlushContext(i)
  \/ \E right \in BOOLEAN : AuthorizeCommand(right)
  \/ \E l \in 0 .. 4 : SetLocality(l)

TpmAuthSpec == TpmAuthInit /\ [][TpmAuthNext]_tavars

-----------------------------------------------------------------------------
(* Properties.                                                             *)

TpmAuthTypeOK ==
  /\ sessions \in [Slots -> [is_active : BOOLEAN, policy_digest : Seq(Assertions),
                             policy_approved : BOOLEAN]]
  /\ session_count \in 0 .. MaxSessions
  /\ lockout_counter \in 0 .. MaxLockoutCount
  /\ lockout_active \in BOOLEAN
  /\ locality \in 0 .. 4

\* The separate counter always says how many slots are taken, so a session is
\* refused exactly when no slot is free, and a free slot is blank: start does
\* not reset the digest, so a new session would otherwise begin with what an
\* earlier one had asserted.  Lockout is entered at the limit, not later.
SessionsAccounted ==
  /\ session_count = Cardinality(ActiveSlots)
  /\ \A i \in Slots \ ActiveSlots : sessions[i] = BlankSession
  /\ lockout_active <=> lockout_counter >= MaxAuthFail
=============================================================================
