---------------------------- MODULE MCSecureBoot ----------------------------
(***************************************************************************)
(* The components of mini-secure-boot, and those of mini-firmware-security  *)
(* that guard the firmware, for TLC.  They are separate objects of the      *)
(* program that share no state: a behaviour of all of them is an            *)
(* interleaving that none can notice.  Instead of that product each         *)
(* behaviour here exercises one component, chosen initially by focus, from  *)
(* its own initial states, while the others stay in one of theirs.          *)
(***************************************************************************)
EXTENDS KeyStore, UefiSb, TrustChain, CapsuleUpdate, BootPolicy,
        Protections, FirmwareAudit, FirmwareTrust

VARIABLE focus

sbpvars == <<ksvars, sbvars, tcvars, cuvars, bpvars>>
vars == <<focus, sbpvars, prvars, favars, ftvars>>

Components ==
  {"keys", "variables", "chain", "capsule", "policy",
   "spi", "smm", "iommu", "management", "resiliency", "audit", "databases", "quotes"}

Init ==
  /\ focus \in Components
  /\ KeyStoreInit
  /\ UefiSbInit
  /\ TrustChainInit
  /\ CapsuleUpdateInit
  /\ IF focus = "policy" THEN BootPolicyInit
     ELSE rules = << >> /\ default_allow = FALSE
  /\ ProtectionsInit
  /\ ResilientInit /\ AuditInit
  /\ FsInit /\ TpInit

SecureBootStep ==
  /\ UNCHANGED <<focus, prvars, favars, ftvars>>
  /\ \/ focus = "keys" /\ KeyStoreNext /\ UNCHANGED <<sbvars, tcvars, cuvars, bpvars>>
     \/ focus = "variables" /\ UefiSbNext /\ UNCHANGED <<ksvars, tcvars, cuvars, bpvars>>
     \/ focus = "chain" /\ TrustChainNext /\ UNCHANGED <<ksvars, sbvars, cuvars, bpvars>>
     \/ focus = "capsule" /\ CapsuleUpdateNext /\ UNCHANGED <<ksvars, sbvars, tcvars, bpvars>>
     \/ focus = "policy" /\ BootPolicyNext /\ UNCHANGED <<ksvars, sbvars, tcvars, cuvars>>

ProtectionStep ==
  /\ UNCHANGED <<focus, sbpvars, favars, ftvars>>
  /\ \/ focus = "spi" /\ SpiNext /\ UNCHANGED <<smmvars, dmavars, mgtvars>>
     \/ focus = "smm" /\ SmmNext /\ UNCHANGED <<spivars, dmavars, mgtvars>>
     \/ focus = "iommu" /\ IommuNext /\ UNCHANGED <<spivars, smmvars, mgtvars>>
     \/ focus = "management" /\ ManagementNext /\ UNCHANGED <<spivars, smmvars, dmavars>>

FirmwareStep ==
  /\ UNCHANGED <<focus, sbpvars, prvars>>
  /\ \/ focus = "resiliency" /\ ResilientNext /\ UNCHANGED <<auvars, ftvars>>
     \/ focus = "audit" /\ AuditNext /\ UNCHANGED <<rsvars, ftvars>>
     \/ focus = "databases" /\ FsNext /\ UNCHANGED <<favars, tpvars>>
     \/ focus = "quotes" /\ TpNext /\ UNCHANGED <<favars, fsvars>>

Next == SecureBootStep \/ ProtectionStep \/ FirmwareStep

Spec == Init /\ [][Next]_vars

\* The type invariants of the components.
SecureBootTypeOK ==
  /\ KeyStoreTypeOK
  /\ UefiSbTypeOK
  /\ TrustChainTypeOK
  /\ CapsuleUpdateTypeOK
  /\ BootPolicyTypeOK
  /\ ProtectionsTypeOK
  /\ FirmwareAuditTypeOK
  /\ FirmwareTrustTypeOK

\* What recovery, audit, signature databases and the log of a firmware say is
\* explained by what happened to it (firmware_resiliency.c,
\* fw_cross_integration.c, secure_boot.c, tpm_attestation.c).
FirmwareIsExplained ==
  RecoveryExplainsFirmware /\ AuditAccounts /\ PolicyEnforced /\ LogAndQuotesExplain

\* Rules of both verdicts, with equal and different priorities, every operator
\* and conditions that overlap.
MCRules ==
  { [Rule(10, 70, "ANY_OF", <<Cond("SIGNER", "Enterprise"),
                              Cond("SECURE_BOOT_ENABLED", TRUE)>>) EXCEPT !.n_required = 1],
    [Rule(11, 70, "N_OF_M", <<Cond("SETUP_MODE", TRUE),
                              Cond("RECOVERY_MODE", TRUE),
                              Cond("HASH", "zero")>>) EXCEPT !.n_required = 2],
    Rule(12, 90, "NOT", <<Cond("VERSION_RANGE",
                               [min |-> 1, max |-> 2, min_inclusive |-> FALSE,
                                max_inclusive |-> TRUE])>>),
    Rule(13, 50, "ALWAYS_TRUE", << >>),
    Rule(14, 100, "ALWAYS_FALSE", << >>),
    Rule(15, 90, "ALL_OF", <<[Cond("TIME_BEFORE", 1) EXCEPT !.negated = TRUE],
                             Cond("TIME_AFTER", 0)>>) }

MCContexts ==
  [signer_name : {"OEM-SecureBoot-Signer", "OEM-Recovery-Signer", "Enterprise", "none"},
   image_hash : {"zero", "h1"}, image_version : 0 .. 2, current_time : {0, 1},
   secure_boot_enabled : BOOLEAN, recovery_mode : BOOLEAN, setup_mode : BOOLEAN]

\* Ranges that nest, overlap and touch, with every combination of rights.
MCSpiRanges ==
  {[base |-> 0, limit |-> 0, rights |-> {"read", "write"}], [base |-> 0, limit |-> 1, rights |-> {"read"}],
   [base |-> 2, limit |-> 3, rights |-> {}], [base |-> 1, limit |-> 3, rights |-> {"write"}]}
MCSpiLockFlags == {{"bios_we"}, {"flockdn"}, {"bios_we", "flockdn"}, {"smm_bwp", "ble"}}

\* The last one ends at the end of the address space.
MCSmrrSettings ==
  {[base |-> 2, size |-> 2], [base |-> 4, size |-> 2], [base |-> 0, size |-> 4], [base |-> 4, size |-> 4]}
\* A buffer of whole pages, one that begins and ends within a page, one of more pages than
\* there are, and one that runs past the addresses an entry has.
MCDmaRequests ==
  {[base |-> 22, bytes |-> 2], [base |-> 21, bytes |-> 3], [base |-> 41, bytes |-> 9], [base |-> 63, bytes |-> 2],
   [base |-> 62, bytes |-> 4]}

MCOneBitApart == {<<"new", "golden">>, <<"golden", "new">>}
\* Traffic as the rules allow it, large traffic out, and two flows they forbid.
MCPackets ==
  {[src |-> s[1], dst |-> s[2], egress |-> s[3], large |-> s[3], payload |-> "p"] :
     s \in {<<"network", "backend", FALSE>>, <<"data_engine", "backend", TRUE>>,
            <<"data_engine", "backend", FALSE>>, <<"backend", "frontend", FALSE>>,
            <<"frontend", "network", FALSE>>}}
MCEvents ==
  {[module |-> "network", op |-> s[1], authorized |-> s[2], data |-> "q"] :
     s \in {<<"read", FALSE>>, <<"write", TRUE>>, <<"write", FALSE>>, <<"delete", FALSE>>,
            <<"execute", TRUE>>}}
=============================================================================
