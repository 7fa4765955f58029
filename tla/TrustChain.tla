----------------------------- MODULE TrustChain -----------------------------
(***************************************************************************)
(* The verified boot chain of mini-secure-boot/src/trust_chain.c: the      *)
(* components of the chain, their verdicts and the boot authorisation.     *)
(*                                                                         *)
(* Abstracted: whether a component's hash is the expected one is a choice  *)
(* of each call, since callers pass the expected hashes anew.  Every       *)
(* component is present (nothing clears the flag), so MISSING never occurs.*)
(***************************************************************************)
EXTENDS Integers, Sequences

CONSTANT MaxComponents    \* TC_MAX_COMPONENTS (16)

ASSUME TrustChainAssumption == MaxComponents \in Nat

VARIABLES
  status,             \* components[0 .. component_count - 1].status
  verified_bitmap,    \* the set of the bits that are on
  boot_allowed

tcvars == <<status, verified_bitmap, boot_allowed>>

Verdicts == {"UNVERIFIED", "VERIFIED", "FAILED"}

\* trust_chain_init.
TrustChainInit ==
  /\ status = << >>
  /\ verified_bitmap = {}
  /\ boot_allowed = FALSE

\* trust_chain_add_component does not withdraw an authorisation.
AddComponent ==
  /\ Len(status) < MaxComponents
  /\ status' = Append(status, "UNVERIFIED")
  /\ UNCHANGED <<verified_bitmap, boot_allowed>>

\* trust_chain_verify_component: a failure leaves bit and authorisation.
VerifyComponent(i, matches) ==
  /\ status' = [status EXCEPT ![i] = IF matches THEN "VERIFIED" ELSE "FAILED"]
  /\ verified_bitmap' = IF matches THEN verified_bitmap \cup {i}
                        ELSE verified_bitmap
  /\ UNCHANGED boot_allowed

\* Mutant: the last component is not looked at.
VerifyAllButLast(matching) ==
  /\ status' = [i \in DOMAIN status |->
                  IF i = Len(status) THEN status[i]
                  ELSE IF i \in matching THEN "VERIFIED" ELSE "FAILED"]
  /\ verified_bitmap' = verified_bitmap \cup DOMAIN status
  /\ boot_allowed' = \A i \in 1 .. Len(status) - 1 : i \in matching

\* trust_chain_verify_all sets every bit before it verifies anything.
VerifyAll(matching) ==
  /\ status' = [i \in DOMAIN status |->
                  IF i \in matching THEN "VERIFIED" ELSE "FAILED"]
  /\ verified_bitmap' = verified_bitmap \cup DOMAIN status
  /\ boot_allowed' = (DOMAIN status \subseteq matching)

TrustChainNext ==
  \/ AddComponent
  \/ \E i \in DOMAIN status, matches \in BOOLEAN : VerifyComponent(i, matches)
  \/ \E matching \in SUBSET DOMAIN status : VerifyAll(matching)

TrustChainSpec == TrustChainInit /\ [][TrustChainNext]_tcvars

-----------------------------------------------------------------------------
(* Properties.                                                             *)

TrustChainTypeOK ==
  /\ status \in Seq(Verdicts)
  /\ Len(status) <= MaxComponents
  /\ verified_bitmap \subseteq 1 .. Len(status)
  /\ boot_allowed \in BOOLEAN

\* Authorisation is earned by the whole chain at once: the boot becomes allowed
\* only in a state where every component is VERIFIED (it may stay allowed when
\* a component is added or fails later).
AuthorizationIsEarned ==
  [][boot_allowed' =>
       boot_allowed \/ \A i \in DOMAIN status' : status'[i] = "VERIFIED"]_tcvars
=============================================================================
