---------------------------- MODULE MCAttestation ---------------------------
(***************************************************************************)
(* Attestation on three stages, one per log rule: "bios" (one static PCR), *)
(* "bootloader" (two PCRs, one event) and "mle" (a resettable PCR).  The    *)
(* digests are interchangeable.                                             *)
(***************************************************************************)
EXTENDS Attestation, TLC

MCStages == {"bios", "bootloader", "mle"}

MCIndexSets == {{0}, {4}}

MCMaxExtends == [p \in PCRs |-> IF p \in DynamicPCRs THEN 1 ELSE 2]

DigestSymmetry == Permutations(Digests)
=============================================================================
