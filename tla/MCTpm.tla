------------------------------- MODULE MCTpm -------------------------------
(***************************************************************************)
(* The TPM models, and those of mini-boot-attestation, which appraises what *)
(* a TPM reports, for TLC.  They are separate objects of the program that   *)
(* share no state; as in MCSecureBoot a behaviour exercises the component   *)
(* named by focus while the others stay in their initial states.  Of the    *)
(* TPM of mini-secure-boot it exercises the PCRs, or NV indices, sessions    *)
(* and lockout: no operation but tpm_clear touches both.                    *)
(***************************************************************************)
EXTENDS NVStorage, TpmAuth, TpmKeys, Tpm2, SrtmLog, AttestService, BootEvidence, Rats

VARIABLE focus

tpmvars == <<nvvars, tavars, tkvars, t2vars, slvars>>
vars == <<focus, tpmvars, asvars, evvars, rtvars>>

Init ==
  /\ focus \in {"nv", "auth", "keys", "tpm2_pcrs", "tpm2_nv", "srtm",
               "service", "log", "tree", "rats"}
  /\ NVInit /\ TpmAuthInit /\ TpmKeysInit /\ Tpm2Init /\ SrtmInit
  /\ ServiceInit /\ EvidenceInit /\ RatsInit

TpmStep ==
  /\ UNCHANGED <<focus, asvars, evvars, rtvars>>
  /\ \/ /\ focus = "nv"
        /\ NVNext
        /\ UNCHANGED <<tavars, tkvars, t2vars, slvars>>
     \/ /\ focus = "auth"
        /\ TpmAuthNext
        /\ UNCHANGED <<nvvars, tkvars, t2vars, slvars>>
     \/ /\ focus = "keys"
        /\ TpmKeysNext
        /\ UNCHANGED <<nvvars, tavars, t2vars, slvars>>
     \/ /\ focus = "tpm2_pcrs"
        /\ TpmClear \/ PcrNext
        /\ UNCHANGED <<nvvars, tavars, tkvars, slvars>>
     \/ /\ focus = "tpm2_nv"
        /\ TpmClear \/ NvNext \/ SessionNext
        /\ UNCHANGED <<nvvars, tavars, tkvars, slvars>>
     \/ /\ focus = "srtm"
        /\ SrtmNext
        /\ UNCHANGED <<nvvars, tavars, tkvars, t2vars>>

AttestationStep ==
  /\ UNCHANGED <<focus, tpmvars>>
  /\ \/ focus = "service" /\ ServiceNext /\ UNCHANGED <<evvars, rtvars>>
     \/ focus = "log" /\ LogNext /\ UNCHANGED <<asvars, rtvars>>
     \/ focus = "tree" /\ TreeNext /\ UNCHANGED <<asvars, rtvars>>
     \/ focus = "rats" /\ RatsNext /\ UNCHANGED <<asvars, evvars>>

Next == TpmStep \/ AttestationStep

Spec == Init /\ [][Next]_vars

\* The type invariants of the components.
TpmTypeOK ==
  /\ NVTypeOK
  /\ TpmAuthTypeOK
  /\ TpmKeysTypeOK
  /\ Tpm2TypeOK
  /\ SrtmTypeOK
  /\ ServiceTypeOK
  /\ EvidenceTypeOK
  /\ RatsTypeOK

\* Evidence says what was measured: logs account for the bank, a proof binds one
\* leaf to the root, and what an attester was told to be is what it was when its
\* evidence was fresh (eventlog.c, merkle_pcr.c, rats.c).
EvidenceIsSound == LogsAccountForTheBank /\ ProofsBindLeaves /\ VerifiedWasFresh

\* Index kinds and attributes that meet every branch of the access checks,
\* every kind of lock and both obstacles to removal.
Space(nv_type, attributes) == [nv_type |-> nv_type, attributes |-> attributes]

MCTemplates ==
  { Space("ORDINARY", {"OWNERREAD", "OWNERWRITE", "GLOBALLOCK"}),
    Space("ORDINARY", {"AUTHREAD", "AUTHWRITE", "WRITEDEFINE", "READ_STCLEAR", "WRITEALL"}),
    Space("COUNTER", {"OWNERREAD", "PLATFORMCREATE"}),
    Space("BITFIELD", {"OWNERWRITE", "GLOBALLOCK"}),
    Space("EXTEND", {"PPWRITE", "POLICY_DELETE", "GLOBALLOCK"}) }

MCNvTemplates ==
  {Space("ORDINARY", {}), Space("ORDINARY", {"WRITEDEFINE"}), Space("COUNTER", {})}

\* An attestation key, a storage key and two whose attributes are refused.
MCKeyTemplates ==
  { [key_type |-> "RSA_2048",
     attributes |-> {"FIXEDTPM", "FIXEDPARENT", "SENSITIVEDATAORIGIN", "RESTRICTED", "SIGN"}],
    [key_type |-> "KEYEDHASH", attributes |-> {"SIGN", "DECRYPT", "RESTRICTED"}],
    [key_type |-> "RSA_2048", attributes |-> {"SIGN", "DECRYPT", "RESTRICTED"}],
    [key_type |-> "RSA_2048", attributes |-> {"FIXEDTPM"}] }

\* Answers to a challenge: by a device whose key is not accepted, by one with a
\* live credential that picks one PCR, and by one that picks it twice and whose
\* credential expires.
Answer(picks, value, firmware, aik, credential) ==
  [picks |-> picks, pcrs |-> [p \in 1..2 |-> value], firmware |-> firmware, aik |-> aik,
   credential |-> credential]
Certified(key, active, expiry) == {[key |-> key, active |-> active, expiry |-> expiry]}
MCExpectations == {<< >>, <<"v1", "v1">>}
MCAnswers ==
  {Answer(<<1, 2>>, "v1", 1, "k2", {}),
   Answer(<<2>>, "v1", 1, "k1", Certified("k1", TRUE, 1)),
   Answer(<<2, 2>>, "v2", 1, "k1", Certified("k1", TRUE, 0))}

RatsQuote(value, count, firmware) == [pcrs |-> <<value, value>>, count |-> count, firmware |-> firmware]
MCQuotes == {RatsQuote("v1", 2, 1), RatsQuote("v1", 1, 2)}
MCReferences == {<<"v1", "v1">>, <<"v1", "v2">>}
MCExtraClaims == {<< >>, <<<<"model", "m">>, <<"firmware_version", 1>>>>}
=============================================================================
