--------------------------- MODULE SecureBootProofs ---------------------------
(***************************************************************************)
(* Proofs about the Secure Boot variables, the boot chain, the capsule     *)
(* update and the boot policy of mini-secure-boot, and about the hardware  *)
(* protections of mini-firmware-security, for all values of their          *)
(* constants.                                                              *)
(***************************************************************************)
EXTENDS MCSecureBoot, ProofLemmas, TLAPS

-----------------------------------------------------------------------------
(* The verified boot chain.                                                *)

LEMMA TrustChainTypeInit == TrustChainInit => TrustChainTypeOK
<1> SUFFICES ASSUME TrustChainInit PROVE TrustChainTypeOK
  OBVIOUS
<1>1. status \in Seq(Verdicts) /\ Len(status) = 0
  BY DEF TrustChainInit
<1>2. verified_bitmap = {} /\ boot_allowed \in BOOLEAN
  BY DEF TrustChainInit
<1>3. QED
  BY <1>1, <1>2, TrustChainAssumption DEF TrustChainTypeOK

LEMMA TrustChainTypeStep ==
  TrustChainTypeOK /\ [TrustChainNext]_tcvars => TrustChainTypeOK'
<1> SUFFICES ASSUME TrustChainTypeOK, [TrustChainNext]_tcvars
             PROVE  TrustChainTypeOK'
  OBVIOUS
<1> USE TrustChainAssumption DEF TrustChainTypeOK, Verdicts
<1>1. CASE AddComponent
  <2>1. /\ Append(status, "UNVERIFIED") \in Seq(Verdicts)
        /\ Len(Append(status, "UNVERIFIED")) = Len(status) + 1
    OBVIOUS
  <2>2. Len(status) < MaxComponents /\ UNCHANGED <<verified_bitmap, boot_allowed>>
    BY <1>1 DEF AddComponent
  <2>3. 1 .. Len(status) \subseteq 1 .. Len(status')
    BY <1>1, <2>1 DEF AddComponent
  <2>4. QED
    BY <1>1, <2>1, <2>2, <2>3 DEF AddComponent
<1>2. ASSUME NEW i \in DOMAIN status, NEW matches \in BOOLEAN,
             VerifyComponent(i, matches)
      PROVE  TrustChainTypeOK'
  BY <1>2 DEF VerifyComponent
<1>3. ASSUME NEW matching \in SUBSET DOMAIN status, VerifyAll(matching)
      PROVE  TrustChainTypeOK'
  <2>1. \A i \in 1 .. Len(status) : status'[i] \in Verdicts
    BY <1>3 DEF VerifyAll
  <2>2. /\ status' \in [1 .. Len(status) -> Verdicts]
        /\ Len(status) \in Nat
    BY <1>3, <2>1 DEF VerifyAll
  <2>3. status' \in Seq(Verdicts) /\ Len(status') = Len(status)
    BY <2>2, SeqOfFunction
  <2>4. boot_allowed' \in BOOLEAN
    <3>1. boot_allowed' = (DOMAIN status \subseteq matching)
      BY <1>3, Zenon DEF VerifyAll
    <3>2. CASE DOMAIN status \subseteq matching
      BY <3>1, <3>2
    <3>3. CASE ~(DOMAIN status \subseteq matching)
      BY <3>1, <3>3
    <3>4. QED
      BY <3>2, <3>3
  <2>5. verified_bitmap' \subseteq 1 .. Len(status')
    <3>1. verified_bitmap' = verified_bitmap \cup DOMAIN status
      BY <1>3 DEF VerifyAll
    <3>2. DOMAIN status = 1 .. Len(status)
      OBVIOUS
    <3>3. QED
      BY <2>3, <3>1, <3>2
  <2>6. QED
    BY <2>3, <2>4, <2>5
<1>4. CASE UNCHANGED tcvars
  BY <1>4 DEF tcvars
<1>5. QED
  BY <1>1, <1>2, <1>3, <1>4 DEF TrustChainNext

LEMMA AuthorizationStep ==
  ASSUME TrustChainTypeOK, [TrustChainNext]_tcvars, boot_allowed'
  PROVE  boot_allowed \/ \A i \in DOMAIN status' : status'[i] = "VERIFIED"
<1>1. CASE AddComponent
  BY <1>1 DEF AddComponent
<1>2. ASSUME NEW i \in DOMAIN status, NEW matches \in BOOLEAN,
             VerifyComponent(i, matches)
      PROVE  boot_allowed
  BY <1>2 DEF VerifyComponent
<1>3. ASSUME NEW matching \in SUBSET DOMAIN status, VerifyAll(matching)
      PROVE  \A i \in DOMAIN status' : status'[i] = "VERIFIED"
  BY <1>3 DEF VerifyAll, TrustChainTypeOK
<1>4. CASE UNCHANGED tcvars
  BY <1>4 DEF tcvars
<1>5. QED
  BY <1>1, <1>2, <1>3, <1>4 DEF TrustChainNext

\* trust_chain_verify_all authorises a boot only when it has just verified
\* every component, for chains of any length (trust_chain.c).
THEOREM ChainAuthorizes == TrustChainSpec => AuthorizationIsEarned
<1>1. TrustChainTypeOK /\ [TrustChainNext]_tcvars =>
        [boot_allowed' => boot_allowed \/
           \A i \in DOMAIN status' : status'[i] = "VERIFIED"]_tcvars
  BY AuthorizationStep
<1>2. QED
  BY <1>1, TrustChainTypeInit, TrustChainTypeStep, PTL
     DEF TrustChainSpec, AuthorizationIsEarned

-----------------------------------------------------------------------------
(* The capsule update.                                                     *)

\* An image that was validated and is still staged passes the rollback checks
\* now: nothing moves the versions between its validation and its processing.
CapsuleInv ==
  /\ staged \in Image
  /\ current_version \in Versions
  /\ lowest_supported_version \in Versions
  /\ validated \in BOOLEAN
  /\ trusted \in BOOLEAN
  /\ update_mode = "STAGING" /\ validated => Acceptable
  /\ FloorHolds

LEMMA CapsuleInvInit == CapsuleUpdateInit => CapsuleInv
<1> SUFFICES ASSUME CapsuleUpdateInit PROVE CapsuleInv
  OBVIOUS
<1>1. NoImage \in Image
  BY CapsuleUpdateAssumption DEF NoImage, Image, Versions
<1>2. staged \in Image /\ 1 \in Versions
  BY <1>1, CapsuleUpdateAssumption DEF CapsuleUpdateInit, Versions
<1>3. /\ update_mode = "NORMAL" /\ validated = FALSE /\ trusted = TRUE
      /\ current_version = 1 /\ lowest_supported_version = 1
  BY DEF CapsuleUpdateInit
<1>4. validated \in BOOLEAN /\ trusted \in BOOLEAN /\ ~validated
  BY <1>3
<1>5. FloorHolds
  BY <1>3 DEF FloorHolds
<1>6. QED
  BY <1>2, <1>3, <1>4, <1>5 DEF CapsuleInv

LEMMA CapsuleInvStep ==
  CapsuleInv /\ [CapsuleUpdateNext]_cuvars => CapsuleInv'
<1> SUFFICES ASSUME CapsuleInv, [CapsuleUpdateNext]_cuvars PROVE CapsuleInv'
  OBVIOUS
<1> USE DEF CapsuleInv, FloorHolds
<1>0. /\ staged.version \in Versions
      /\ staged.lowest_supported_version \in Versions
      /\ staged.lowest_supported_version <= staged.version
  BY DEF Image
<1>1. ASSUME NEW image \in Image, CapsuleSetImage(image) PROVE CapsuleInv'
  BY <1>1 DEF CapsuleSetImage
<1>2. CASE CapsuleValidate
  BY <1>2 DEF CapsuleValidate, Acceptable
<1>3. CASE CapsuleProcess
  <2>1. /\ current_version' = staged.version
        /\ lowest_supported_version' \in
             {lowest_supported_version, staged.lowest_supported_version}
        /\ update_mode = "STAGING" /\ update_mode' = "COMMIT"
        /\ trusted' = (trusted /\ validated)
        /\ UNCHANGED <<staged, validated>>
    BY <1>3 DEF CapsuleProcess
  <2>2. trusted' \in BOOLEAN
    BY <2>1, Zenon
  <2>3. trusted' => lowest_supported_version' <= current_version'
    <3>1. SUFFICES ASSUME trusted' PROVE lowest_supported_version' <= current_version'
      OBVIOUS
    <3>2. Acceptable
      BY <2>1, <3>1
    <3>3. QED
      BY <1>0, <2>1, <3>2 DEF Acceptable
  <2>4. QED
    BY <1>0, <2>1, <2>2, <2>3
<1>4. CASE CapsuleCommit
  BY <1>4 DEF CapsuleCommit
<1>5. CASE CapsuleRollback
  <2>1. NoImage \in Image
    BY CapsuleUpdateAssumption DEF NoImage, Image, Versions
  <2>2. QED
    BY <1>5, <2>1 DEF CapsuleRollback
<1>6. CASE UNCHANGED cuvars
  BY <1>6 DEF cuvars, Acceptable
<1>7. QED
  BY <1>1, <1>2, <1>3, <1>4, <1>5, <1>6 DEF CapsuleUpdateNext

\* However updates, commits, rollbacks and restaging interleave, the floor of
\* rollback protection stays at or below the installed version as long as only
\* validated images are processed (fw_capsule_validate, fw_capsule_process).
THEOREM CapsuleFloor == CapsuleUpdateSpec => []FloorHolds
<1>1. CapsuleInv => FloorHolds
  BY DEF CapsuleInv
<1>2. QED
  BY <1>1, CapsuleInvInit, CapsuleInvStep, PTL DEF CapsuleUpdateSpec

-----------------------------------------------------------------------------
(* The Secure Boot variables.                                              *)

\* The databases exist; what is in those other than pk does not matter here.
OwnerInv ==
  /\ DOMAIN sigdb = DBs
  /\ {setup_mode, secure_boot} \subseteq BOOLEAN
  /\ EnforcementNeedsOwner

LEMMA OwnerInvInit == UefiSbInit => OwnerInv
<1> SUFFICES ASSUME UefiSbInit PROVE OwnerInv
  OBVIOUS
<1>1. DOMAIN sigdb = DBs /\ sigdb["pk"] = << >>
  BY DEF UefiSbInit, DBs
<1>2. setup_mode = TRUE /\ secure_boot = FALSE /\ Len(sigdb["pk"]) # 1
  BY <1>1 DEF UefiSbInit
<1>3. QED
  BY <1>1, <1>2 DEF OwnerInv, EnforcementNeedsOwner

LEMMA OwnerInvStep == OwnerInv /\ [UefiSbNext]_sbvars => OwnerInv'
<1> SUFFICES ASSUME OwnerInv, [UefiSbNext]_sbvars PROVE OwnerInv'
  OBVIOUS
<1> USE DEF OwnerInv, EnforcementNeedsOwner, DBs
<1>1. ASSUME NEW d \in DBs \ {"pk"}, NEW entries,
             sigdb' = [sigdb EXCEPT ![d] = entries],
             UNCHANGED <<setup_mode, secure_boot>>
      PROVE  OwnerInv'
  BY <1>1
<1>2. ASSUME NEW e \in SigEntry, EnrollPk(e) PROVE OwnerInv'
  BY <1>2 DEF EnrollPk
<1>3. ASSUME NEW e \in SigEntry, NEW d \in DBs, Enroll(d, e) PROVE OwnerInv'
  BY <1>1, <1>3 DEF Enroll, AddEntry
<1>4. ASSUME NEW e \in SigEntry, NEW d \in DBs, EnrollUngated(d, e) PROVE OwnerInv'
  BY <1>1, <1>4 DEF EnrollUngated, AddEntry
<1>5. ASSUME NEW e \in SigEntry, NEW d \in DBs, RemoveEntry(d, e) PROVE OwnerInv'
  BY <1>1, <1>5 DEF RemoveEntry
<1>6. CASE DeletePk
  BY <1>6 DEF DeletePk
<1>7. CASE EnableSecureBoot
  BY <1>7 DEF EnableSecureBoot
<1>8. CASE UNCHANGED sbvars
  BY <1>8 DEF sbvars
<1>9. QED
  BY <1>2, <1>3, <1>4, <1>5, <1>6, <1>7, <1>8 DEF UefiSbNext

\* Secure Boot is enforced only on a platform with exactly one platform key
\* (sb_enroll_pk, sb_delete_pk).
THEOREM EnforcementIsOwned == UefiSbSpec => []EnforcementNeedsOwner
<1>1. OwnerInv => EnforcementNeedsOwner
  BY DEF OwnerInv
<1>2. QED
  BY <1>1, OwnerInvInit, OwnerInvStep, PTL DEF UefiSbSpec
-----------------------------------------------------------------------------
(* The boot policy.                                                        *)

\* A table of n rules, in descending order of priority.
PriorityOrder(table, n) ==
  /\ table = [i \in 1 .. n |-> table[i]]
  /\ \A i \in 1 .. n : "priority" \in DOMAIN table[i] /\ table[i].priority \in Int
  /\ \A i, j \in 1 .. n : i < j => table[i].priority >= table[j].priority

PolicyInv == \E n \in Nat : PriorityOrder(rules, n)

LEMMA PriorityOrderLen ==
  ASSUME NEW n \in Nat, NEW table, PriorityOrder(table, n)
  PROVE  Len(table) = n /\ DOMAIN table = 1 .. n /\ table \in Seq({table[i] : i \in 1 .. n})
<1> DEFINE S == {table[i] : i \in 1 .. n}
<1>1. table \in [1 .. n -> S]
  BY DEF PriorityOrder
<1> HIDE DEF S
<1>2. table \in Seq(S) /\ Len(table) = n
  BY <1>1, SeqOfFunction
<1>3. QED
  BY <1>1, <1>2 DEF S

\* Rules are compared by place: whichever order sort_rules_by_priority leaves among
\* equals, the first hit has the highest priority.
LEMMA FirstHitIsTop == PolicyInv => PriorityDecides
<1> SUFFICES ASSUME PolicyInv, NEW ctx \in Contexts
             PROVE  LET hits == {i \in DOMAIN rules : rules[i].enabled /\ Matches(rules[i], ctx)}
                        top  == {i \in hits : \A j \in hits : rules[j].priority <= rules[i].priority}
                    IN  Evaluate(ctx) \in IF hits = {} THEN {IF default_allow THEN "ALLOW" ELSE "DENY"}
                                          ELSE {Verdict(rules[i]) : i \in top}
  BY DEF PriorityDecides
<1> DEFINE hits == {i \in DOMAIN rules : rules[i].enabled /\ Matches(rules[i], ctx)}
           top  == {i \in hits : \A j \in hits : rules[j].priority <= rules[i].priority}
           first == CHOOSE i \in hits : \A j \in hits : i <= j
<1>1. PICK n \in Nat : PriorityOrder(rules, n)
  BY DEF PolicyInv
<1>2. DOMAIN rules = 1 .. n
  BY <1>1, PriorityOrderLen
<1>3. Evaluate(ctx) = IF hits = {} THEN IF default_allow THEN "ALLOW" ELSE "DENY"
                      ELSE Verdict(rules[first])
  BY DEF Evaluate
<1>4. ASSUME hits # {} PROVE first \in top
  <2>1. hits \in SUBSET (1 .. n)
    BY <1>2
  <2> HIDE DEF hits
  <2>2. hits \in SUBSET (Nat \ {0})
    BY <2>1
  <2>3. first \in hits /\ \A j \in hits : first <= j
    BY <1>4, <2>2, FirstInPositions DEF FirstIn
  <2> HIDE DEF first
  <2>4. ASSUME NEW j \in hits PROVE rules[j].priority <= rules[first].priority
    <3>1. first \in 1 .. n /\ j \in 1 .. n /\ first <= j
      BY <2>1, <2>3
    <3>2. rules[first].priority \in Int /\ rules[j].priority \in Int
      BY <1>1, <3>1 DEF PriorityOrder
    <3>3. CASE first = j
      BY <3>2, <3>3
    <3>4. CASE first # j
      <4>1. first < j
        BY <3>1, <3>4
      <4>2. rules[first].priority >= rules[j].priority
        BY <1>1, <3>1, <4>1 DEF PriorityOrder
      <4>3. QED
        BY <3>2, <4>2
    <3>5. QED
      BY <3>3, <3>4
  <2>5. QED
    BY <2>3, <2>4
<1>5. QED
  <2> HIDE DEF hits, top, first
  <2>1. CASE hits = {}
    BY <1>3, <2>1 DEF hits
  <2>2. CASE hits # {}
    BY <1>3, <1>4, <2>2 DEF hits, top
  <2>3. QED
    BY <2>1, <2>2

LEMMA PolicyInit == BootPolicyInit => PolicyInv
<1> SUFFICES ASSUME BootPolicyInit PROVE PolicyInv
  OBVIOUS
<1>1. CASE rules = << >>
  <2>1. PriorityOrder(rules, 0)
    BY <1>1 DEF PriorityOrder
  <2>2. QED
    BY <2>1 DEF PolicyInv
<1>2. CASE rules = StandardRules
  <2>1. PriorityOrder(rules, 3)
    BY <1>2 DEF PriorityOrder, StandardRules, Rule
  <2>2. QED
    BY <2>1 DEF PolicyInv
<1>3. CASE rules = RecoveryRules
  <2>1. PriorityOrder(rules, 2)
    BY <1>3 DEF PriorityOrder, RecoveryRules, Rule
  <2>2. QED
    BY <2>1 DEF PolicyInv
<1>4. CASE rules = EnterpriseRules("Enterprise", 2)
  <2>1. PriorityOrder(rules, 2)
    BY <1>4 DEF PriorityOrder, EnterpriseRules, Rule
  <2>2. QED
    BY <2>1 DEF PolicyInv
<1>5. QED
  BY <1>1, <1>2, <1>3, <1>4 DEF BootPolicyInit

LEMMA PolicyStep == PolicyInv /\ [BootPolicyNext]_bpvars => PolicyInv'
<1> SUFFICES ASSUME PolicyInv, [BootPolicyNext]_bpvars PROVE PolicyInv'
  OBVIOUS
<1>1. PICK n \in Nat : PriorityOrder(rules, n)
  BY DEF PolicyInv
<1>2. Len(rules) = n /\ DOMAIN rules = 1 .. n
  BY <1>1, PriorityOrderLen
<1>3. ASSUME NEW rule \in Rules, AddRule(rule) PROVE PolicyInv'
  <2> DEFINE table == Append(rules, rule)
             S == {rules[i] : i \in 1 .. n} \cup {rule}
  <2>1. rules \in Seq(S) /\ rule \in S
    <3>1. rules \in [1 .. n -> S]
      BY <1>1 DEF PriorityOrder
    <3> HIDE DEF S
    <3>2. rules \in Seq(S)
      BY <3>1, SeqOfFunction
    <3>3. QED
      BY <3>2 DEF S
  <2>2. /\ DOMAIN table = 1 .. n + 1 /\ table[n + 1] = rule
        /\ \A i \in 1 .. n : table[i] = rules[i]
    <3> HIDE DEF S
    <3>1. QED
      BY <1>2, <2>1
  <2>3. \A i \in DOMAIN table : "priority" \in DOMAIN table[i] /\ table[i].priority \in Int
    <3> HIDE DEF table
    <3>1. ASSUME NEW i \in 1 .. n + 1 PROVE i \in 1 .. n \/ i = n + 1
      OBVIOUS
    <3>2. QED
      BY <1>1, <2>2, <3>1, BootPolicyAssumption DEF PriorityOrder
  <2> HIDE DEF table, S
  <2>4. rules' \in Sorted(table)
    BY <1>3 DEF AddRule, table
  <2>5. PICK p \in Bijection(DOMAIN table, DOMAIN table) : rules' = [i \in DOMAIN table |-> table[p[i]]]
    BY <2>4 DEF Sorted
  <2>6. \A i \in DOMAIN table : p[i] \in DOMAIN table
    <3> DEFINE D == DOMAIN table
    <3>1. p \in Bijection(D, D)
      OBVIOUS
    <3> HIDE DEF D
    <3>2. p \in [D -> D]
      BY <3>1 DEF Bijection, Injection
    <3>3. \A i \in D : p[i] \in D
      BY <3>2
    <3>4. QED
      BY <3>3 DEF D
  <2>7. \A i, j \in DOMAIN rules' : i < j => rules'[i].priority >= rules'[j].priority
    BY <2>4 DEF Sorted
  <2>8. PriorityOrder(rules, n + 1)'
    BY <2>2, <2>3, <2>5, <2>6, <2>7 DEF PriorityOrder
  <2>9. QED
    BY <2>8 DEF PolicyInv
<1>4. ASSUME NEW id, RemoveRule(id) PROVE PolicyInv'
  <2>1. PICK i \in 1 .. n : rules' = [j \in 1 .. n - 1 |-> IF j < i THEN rules[j] ELSE rules[j + 1]]
    BY <1>2, <1>4 DEF RemoveRule
  <2>2. ASSUME NEW j \in 1 .. n - 1
        PROVE  \E k \in 1 .. n : k = (IF j < i THEN j ELSE j + 1) /\ rules'[j] = rules[k]
    <3>1. j \in 1 .. n /\ j + 1 \in 1 .. n
      OBVIOUS
    <3>2. QED
      BY <2>1, <3>1
  <2>3. ASSUME NEW j \in 1 .. n - 1
        PROVE  "priority" \in DOMAIN rules'[j] /\ rules'[j].priority \in Int
    <3>1. PICK k \in 1 .. n : rules'[j] = rules[k]
      BY <2>2
    <3>2. QED
      BY <1>1, <3>1 DEF PriorityOrder
  <2>4. ASSUME NEW j \in 1 .. n - 1, NEW l \in 1 .. n - 1, j < l
        PROVE  rules'[j].priority >= rules'[l].priority
    <3>1. PICK k \in 1 .. n : k = (IF j < i THEN j ELSE j + 1) /\ rules'[j] = rules[k]
      BY <2>2
    <3>2. PICK m \in 1 .. n : m = (IF l < i THEN l ELSE l + 1) /\ rules'[l] = rules[m]
      BY <2>2
    <3>3. k < m
      BY <2>4, <3>1, <3>2
    <3>4. QED
      BY <1>1, <3>1, <3>2, <3>3 DEF PriorityOrder
  <2>5. n - 1 \in Nat /\ rules' = [j \in 1 .. n - 1 |-> rules'[j]]
    BY <2>1
  <2>6. PriorityOrder(rules, n - 1)'
    BY <2>3, <2>4, <2>5 DEF PriorityOrder
  <2>7. QED
    BY <2>5, <2>6 DEF PolicyInv
<1>5. ASSUME NEW id, NEW enable \in BOOLEAN, EnableRule(id, enable) PROVE PolicyInv'
  <2>1. PICK i \in 1 .. n : rules' = [rules EXCEPT ![i].enabled = enable]
    BY <1>2, <1>5 DEF EnableRule
  <2>2. rules' = [j \in 1 .. n |-> rules'[j]]
    BY <1>2, <2>1
  <2>3. rules'[i] = [rules[i] EXCEPT !.enabled = enable]
    BY <1>2, <2>1
  <2>4. \A j \in 1 .. n : j # i => rules'[j] = rules[j]
    BY <1>2, <2>1
  <2>5. DOMAIN rules'[i] = DOMAIN rules[i] /\ rules'[i].priority = rules[i].priority
    <3>1. "priority" \in DOMAIN rules[i]
      BY <1>1 DEF PriorityOrder
    <3>2. QED
      BY <2>3, <3>1
  <2>6. \A j \in 1 .. n : DOMAIN rules'[j] = DOMAIN rules[j] /\ rules'[j].priority = rules[j].priority
    BY <2>4, <2>5
  <2>7. PriorityOrder(rules, n)'
    BY <1>1, <2>2, <2>6 DEF PriorityOrder
  <2>8. QED
    BY <2>7 DEF PolicyInv
<1>6. CASE UNCHANGED bpvars
  BY <1>6 DEF bpvars, PolicyInv, PriorityOrder
<1>7. QED
  BY <1>3, <1>4, <1>5, <1>6 DEF BootPolicyNext

\* An image is judged by an enabled rule of the highest priority among those that
\* match it, however the rules were edited (bp_policy_add_rule,
\* bp_policy_remove_rule, bp_policy_evaluate).
THEOREM HighestPriorityDecides == BootPolicySpec => []PriorityDecides
<1>1. QED
  BY PolicyInit, PolicyStep, FirstHitIsTop, PTL DEF BootPolicySpec
-----------------------------------------------------------------------------
(* The hardware protections.                                               *)

\* The flash that was sealed is locked, and what no one may write is as it was.
SpiInv ==
  spiSealed # << >> =>
    /\ "flockdn" \in spiLock
    /\ \A a \in SpiCells : SpiProtected(a, "write") => spiFlash[a] = spiSealed[a]

LEMMA SpiStep ==
  ASSUME SpiInv, SpiNext
  PROVE  SpiInv'
<1>1. CASE SpiPowerOn
  BY <1>1 DEF SpiPowerOn, SpiInv
<1>2. ASSUME NEW n, NEW range, SetProtectedRange(n, range) PROVE SpiInv'
  BY <1>2 DEF SetProtectedRange, SpiInv
<1>3. ASSUME NEW flags, SpiLockConfig(flags) PROVE SpiInv'
  <2>1. CASE "flockdn" \in flags
    <3>1. "flockdn" \in spiLock'
      BY <1>3, <2>1 DEF SpiLockConfig
    <3>2. spiSealed' = spiFlash'
      BY <1>3, <2>1 DEF SpiLockConfig
    <3>3. QED
      BY <3>1, <3>2 DEF SpiInv
  <2>2. CASE "flockdn" \notin flags
    BY <1>3, <2>2 DEF SpiLockConfig, SpiInv
  <2>3. QED
    BY <2>1, <2>2
<1>4. ASSUME NEW master, NEW first, NEW length, NEW data, SpiWrite(master, first, length, data)
      PROVE  SpiInv'
  <2>1. ASSUME NEW a \in SpiCells, SpiProtected(a, "write") PROVE spiFlash'[a] = spiFlash[a]
    <3>1. a \notin first .. first + length - 1
      BY <1>4, <2>1 DEF SpiWrite, SpiAccess
    <3>2. QED
      BY <1>4, <3>1 DEF SpiWrite
  <2>2. \A a \in SpiCells : SpiProtected(a, "write")' = SpiProtected(a, "write")
    BY <1>4 DEF SpiWrite, SpiProtected, Holding
  <2>3. QED
    BY <1>4, <2>1, <2>2 DEF SpiWrite, SpiInv
<1>5. QED
  BY <1>1, <1>2, <1>3, <1>4 DEF SpiNext, SpiInv

\* Handlers below the one that runs have called another: no return makes one of
\* them believe that it is still in management mode.
Frame == [code : SmiCodes \cup {"null"}, called : BOOLEAN]

SmmInv ==
  /\ smm \in [inside : BOOLEAN, smrr : SUBSET SmrrSettings, locked : BOOLEAN]
  /\ \A s, t \in smm.smrr : s = t
  /\ smi \in [SmiNumbers -> SmiCodes \cup {"null"}]
  /\ smiStack \in Seq(Frame)
  /\ \A k \in 1 .. Len(smiStack) - 1 : smiStack[k].called
  /\ smm.inside <=> Len(smiStack) > 0 /\ ~smiStack[Len(smiStack)].called

LEMMA SmmStep ==
  ASSUME SmmInv, SmmNext
  PROVE  SmmInv'
<1> DEFINE SmmRecord == [inside : BOOLEAN, smrr : SUBSET SmrrSettings, locked : BOOLEAN]
<1>0. Len(smiStack) \in Nat /\ smm \in SmmRecord
  BY DEF SmmInv
<1>1. ASSUME NEW n \in SmiNumbers, NEW code \in SmiCodes, HandlerRegister(n, code) PROVE SmmInv'
  BY <1>1 DEF HandlerRegister, SmmInv
<1>2. ASSUME NEW n \in SmiNumbers, HandlerInvoke(n) PROVE SmmInv'
  <2> DEFINE marked == [k \in DOMAIN smiStack |-> [smiStack[k] EXCEPT !.called = TRUE]]
             frame == [code |-> smi[n], called |-> FALSE]
  <2>1. PICK len \in Nat : len = Len(smiStack) /\ DOMAIN smiStack = 1 .. len
    BY DEF SmmInv
  <2>2. \A k \in 1 .. len : [smiStack[k] EXCEPT !.called = TRUE] \in Frame
    <3>1. ASSUME NEW f \in Frame PROVE [f EXCEPT !.called = TRUE] \in Frame
      BY DEF Frame
    <3>2. \A k \in 1 .. len : smiStack[k] \in Frame
      BY <2>1 DEF SmmInv
    <3>3. QED
      BY <3>1, <3>2
  <2>3. marked \in [1 .. len -> Frame] /\ \A k \in 1 .. len : marked[k].called
    BY <2>1, <2>2 DEF SmmInv, Frame
  <2>4. frame \in Frame /\ frame.called = FALSE
    BY DEF SmmInv, Frame
  <2>5. smiStack' = Append(marked, frame) /\ smi' = smi
    BY <1>2 DEF HandlerInvoke
  <2> HIDE DEF marked, frame
  <2>6. marked \in Seq(Frame) /\ Len(marked) = len
    BY <2>3, SeqOfFunction
  <2>7. /\ smiStack' \in Seq(Frame) /\ Len(smiStack') = len + 1
        /\ smiStack'[len + 1] = frame
        /\ \A k \in 1 .. len : smiStack'[k] = marked[k]
    BY <2>4, <2>5, <2>6
  <2>8. smm' = [smm EXCEPT !.inside = TRUE]
    BY <1>2 DEF HandlerInvoke
  <2>9. smm' \in SmmRecord /\ smm'.inside = TRUE /\ smm'.smrr = smm.smrr
    BY <1>0, <2>8
  <2>10. \A k \in 1 .. Len(smiStack') - 1 : smiStack'[k].called
    BY <2>3, <2>7
  <2>11. Len(smiStack') > 0 /\ ~smiStack'[Len(smiStack')].called
    BY <2>4, <2>7
  <2>12. QED
    BY <2>5, <2>7, <2>9, <2>10, <2>11 DEF SmmInv
<1>3. CASE HandlerReturn
  <2>1. PICK len \in Nat : len = Len(smiStack) /\ len > 0
    BY <1>3 DEF HandlerReturn, SmmInv
  <2>2. smiStack' = SubSeq(smiStack, 1, len - 1) /\ smi' = smi
    BY <1>3, <2>1 DEF HandlerReturn, Front
  <2>3. /\ smiStack' \in Seq(Frame) /\ Len(smiStack') = len - 1
        /\ \A k \in 1 .. len - 1 : smiStack'[k] = smiStack[k]
    BY <2>1, <2>2 DEF SmmInv
  <2>4. \A k \in 1 .. len - 1 : smiStack'[k].called
    BY <2>1, <2>3 DEF SmmInv
  <2>5. smm' = [smm EXCEPT !.inside = FALSE]
    BY <1>3 DEF HandlerReturn
  <2>6. smm' \in SmmRecord /\ smm'.inside = FALSE /\ smm'.smrr = smm.smrr
    BY <1>0, <2>5
  <2>7. ~(Len(smiStack') > 0 /\ ~smiStack'[Len(smiStack')].called)
    BY <2>1, <2>3, <2>4
  <2>8. \A k \in 1 .. Len(smiStack') - 1 : smiStack'[k].called
    BY <2>1, <2>3, <2>4
  <2>9. QED
    BY <2>2, <2>3, <2>6, <2>7, <2>8 DEF SmmInv
<1>4. CASE SmramLock
  <2>1. smm' \in SmmRecord /\ smm'.inside = smm.inside /\ smm'.smrr = smm.smrr
    BY <1>0, <1>4 DEF SmramLock
  <2>2. QED
    BY <1>4, <2>1 DEF SmramLock, SmmInv
<1>5. ASSUME NEW setting \in SmrrSettings, SetSmrr(setting) PROVE SmmInv'
  <2>1. smm' \in SmmRecord /\ smm'.inside = smm.inside /\ smm'.smrr = {setting}
    BY <1>0, <1>5 DEF SetSmrr
  <2>2. QED
    BY <1>5, <2>1 DEF SetSmrr, SmmInv
<1>6. QED
  BY <1>1, <1>2, <1>3, <1>4, <1>5 DEF SmmNext

\* The addresses of an aligned block are those with the block's quotient.
LEMMA BlockAddresses ==
  ASSUME NEW size \in Nat \ {0}, NEW base \in Nat, base % size = 0, NEW a \in Nat
  PROVE  base <= a /\ a < base + size <=> a \div size = base \div size
<1> DEFINE q == base \div size
           r == a \div size
           m == a % size
<1>1. q \in Int /\ r \in Int /\ base = size * q /\ a = size * r + m /\ 0 <= m /\ m < size
  OBVIOUS
<1> HIDE DEF q, r, m
<1>2. ASSUME NEW x \in Int, NEW y \in Int, x < y PROVE size * x + size <= size * y
  <2>1. x + 1 <= y
    BY <1>2
  <2>2. size * (x + 1) <= size * y
    BY <2>1
  <2>3. size * (x + 1) = size * x + size
    OBVIOUS
  <2>4. QED
    BY <2>2, <2>3
<1>3. size * q \in Int /\ size * r \in Int /\ m \in Int /\ size \in Int
  BY <1>1 DEF m
<1>4. CASE r = q
  BY <1>1, <1>3, <1>4
<1>5. CASE r < q
  <2>1. size * r + size <= size * q
    BY <1>1, <1>2, <1>5
  <2>2. a < base
    BY <1>1, <1>3, <2>1
  <2>3. QED
    BY <1>1, <1>5, <2>2 DEF q, r
<1>6. CASE q < r
  <2>1. size * q + size <= size * r
    BY <1>1, <1>2, <1>6
  <2>2. ~(a < base + size)
    BY <1>1, <1>3, <2>1
  <2>3. QED
    BY <1>1, <1>6, <2>2 DEF q, r
<1>7. QED
  BY <1>1, <1>4, <1>5, <1>6 DEF q, r

LEMMA SmrrIsItsBlock ==
  ASSUME SmmInv, NEW s \in smm.smrr, NEW a \in 0 .. SmrrWords - 1, s.base + s.size < SmrrWords
  PROVE  SmrrAllows(a) <=> a \div s.size = s.base \div s.size
<1>1. s \in SmrrSettings /\ \A t \in smm.smrr : t = s
  BY DEF SmmInv
<1>2. s.base \in Nat /\ s.size \in Nat \ {0} /\ s.base % s.size = 0 /\ SmrrWords \in Nat \ {0}
  BY <1>1, ProtectionsAssumption
<1>3. SmrrAllows(a) <=>
        s.base <= a /\ a < (s.base + ((SmrrWords - (SmrrWords - s.size)) % SmrrWords)) % SmrrWords
  BY <1>1 DEF SmrrAllows
<1>4. SmrrWords - (SmrrWords - s.size) = s.size
  BY <1>2
<1>5. s.size % SmrrWords = s.size /\ (s.base + s.size) % SmrrWords = s.base + s.size
  BY <1>2
<1>6. SmrrAllows(a) <=> s.base <= a /\ a < s.base + s.size
  BY <1>3, <1>4, <1>5
<1>7. a \in Nat
  BY <1>2
<1>8. QED
  BY <1>2, <1>6, <1>7, BlockAddresses

\* Pages of a buffer that is rounded up start within it.
LEMMA PagesStartWithin ==
  ASSUME NEW size \in Nat \ {0}, NEW bytes \in Nat, NEW page \in Nat,
         page < (bytes + size - 1) \div size
  PROVE  page * size < bytes
<1> DEFINE q == (bytes + size - 1) \div size
<1>1. q \in Int /\ q * size <= bytes + size - 1
  OBVIOUS
<1> HIDE DEF q
<1>2. page + 1 <= q
  BY <1>1 DEF q
<1>3. (page + 1) * size <= q * size
  BY <1>1, <1>2
<1>4. (page + 1) * size = page * size + size
  OBVIOUS
<1>5. page * size \in Int /\ q * size \in Int
  BY <1>1
<1>6. QED
  BY <1>1, <1>3, <1>4, <1>5

Domain == [id : DmaDomains, base : Nat, bytes : Nat, pages : Nat]

DmaInv ==
  /\ dmaTable \in [DmaDevices -> [live : BOOLEAN, domain : DmaDomains]]
  /\ \A d \in DmaDevices : dmaTable[d].domain = dmaMapped[d]
  /\ dmaMapped \in [DmaDevices -> DmaDomains]
  /\ dmaDomains \in Seq(Domain)
  /\ \A k \in DOMAIN dmaDomains : \A page \in Nat :
       page < dmaDomains[k].pages => page * DmaPage < dmaDomains[k].bytes

LEMMA DmaStep ==
  ASSUME DmaInv, IommuNext
  PROVE  DmaInv'
<1> DEFINE Device == [live : BOOLEAN, domain : DmaDomains]
<1>1. ASSUME NEW d \in DmaDevices, NEW id \in DmaDomains, MapDevice(d, id) PROVE DmaInv'
  <2>1. [live |-> TRUE, domain |-> id] \in Device
    OBVIOUS
  <2>2. dmaTable' \in [DmaDevices -> Device] /\ dmaMapped' \in [DmaDevices -> DmaDomains]
    BY <1>1, <2>1 DEF MapDevice, DmaInv
  <2>3. \A e \in DmaDevices : dmaTable'[e].domain = dmaMapped'[e]
    BY <1>1 DEF MapDevice, DmaInv
  <2>4. QED
    BY <1>1, <2>2, <2>3 DEF MapDevice, DmaInv
<1>2. ASSUME NEW d \in DmaDevices, NEW live \in BOOLEAN,
             dmaTable' = [dmaTable EXCEPT ![d].live = live], UNCHANGED <<dmaDomains, dmaMapped>>
      PROVE  DmaInv'
  <2>1. [dmaTable[d] EXCEPT !.live = live] \in Device
    BY DEF DmaInv
  <2>2. dmaTable' = [dmaTable EXCEPT ![d] = [dmaTable[d] EXCEPT !.live = live]]
    BY <1>2
  <2>3. dmaTable' \in [DmaDevices -> Device]
    BY <2>1, <2>2 DEF DmaInv
  <2>4. \A e \in DmaDevices : dmaTable'[e].domain = dmaTable[e].domain
    BY <2>2 DEF DmaInv
  <2>5. QED
    BY <1>2, <2>3, <2>4 DEF DmaInv
<1>3. ASSUME NEW d \in DmaDevices, UnmapDevice(d) \/ Protect(d) PROVE DmaInv'
  BY <1>2, <1>3 DEF UnmapDevice, Protect
<1>4. ASSUME NEW id \in DmaDomains, NEW request \in DmaRequests, CreateDomain(id, request)
      PROVE  DmaInv'
  <2> DEFINE pages == (request.bytes + DmaPage - 1) \div DmaPage
             domain == [id |-> id, base |-> request.base, bytes |-> request.bytes,
                        pages |-> IF pages > DmaPageMax THEN DmaPageMax ELSE pages]
  <2>1. /\ DmaPage \in Nat \ {0} /\ DmaPageMax \in Nat
        /\ request.base \in Nat /\ request.bytes \in Nat
    BY ProtectionsAssumption
  <2>2. pages \in Nat
    BY <2>1
  <2>3. dmaDomains' = Append(dmaDomains, domain) /\ UNCHANGED <<dmaTable, dmaMapped>>
    BY <1>4 DEF CreateDomain
  <2>4. domain \in Domain
    BY <2>1, <2>2 DEF Domain
  <2>5. ASSUME NEW page \in Nat, page < domain.pages PROVE page * DmaPage < domain.bytes
    <3>1. page < pages
      BY <2>1, <2>2, <2>5
    <3>2. QED
      BY <2>1, <3>1, PagesStartWithin
  <2> HIDE DEF pages, domain
  <2>6. PICK n \in Nat : n = Len(dmaDomains) /\ DOMAIN dmaDomains = 1 .. n
    BY DEF DmaInv
  <2>7. /\ dmaDomains' \in Seq(Domain) /\ DOMAIN dmaDomains' = 1 .. n + 1
        /\ dmaDomains'[n + 1] = domain
        /\ \A k \in 1 .. n : dmaDomains'[k] = dmaDomains[k]
    BY <2>3, <2>4, <2>6 DEF DmaInv
  <2>8. ASSUME NEW k \in DOMAIN dmaDomains', NEW page \in Nat, page < dmaDomains'[k].pages
        PROVE  page * DmaPage < dmaDomains'[k].bytes
    <3>1. CASE k = n + 1
      BY <2>5, <2>7, <2>8, <3>1
    <3>2. CASE k # n + 1
      <4>1. k \in 1 .. n
        BY <2>7, <3>2
      <4>2. QED
        BY <2>6, <2>7, <2>8, <4>1 DEF DmaInv
    <3>3. QED
      BY <3>1, <3>2
  <2>9. QED
    BY <2>3, <2>7, <2>8 DEF DmaInv
<1>5. QED
  BY <1>1, <1>3, <1>4 DEF IommuNext

LEMMA Division ==
  ASSUME NEW b \in Nat \ {0}, NEW x \in Nat
  PROVE  x \div b \in Nat /\ x % b \in 0 .. (b - 1)
BY SMT

LEMMA Divides ==
  ASSUME NEW b \in Nat \ {0}, NEW q \in Nat, NEW r \in 0 .. (b - 1)
  PROVE  (q * b + r) \div b = q
BY SMT

\* What the IOMMU translates is on a page that holds a byte of the buffer of the domain
\* mapped last: the byte that the entry found points at.
LEMMA TranslatesWithin ==
  ASSUME DmaInv, NEW d \in DmaDevices, NEW address \in Nat, NEW physical \in Translate(d, address)
  PROVE  \E k \in DOMAIN dmaDomains :
           /\ dmaDomains[k].id = dmaMapped[d]
           /\ \E byte \in dmaDomains[k].base .. dmaDomains[k].base + dmaDomains[k].bytes - 1 :
                (byte % DmaSpace) \div DmaPage = physical \div DmaPage
<1>1. DmaPage \in Nat \ {0} /\ DmaSpace \in Nat \ {0}
  BY ProtectionsAssumption
<1>2. PICK p : p = address \div DmaPage
  OBVIOUS
<1>3. PICK offset : offset = address % DmaPage
  OBVIOUS
<1>4. p \in Nat /\ offset \in 0 .. DmaPage - 1
  BY <1>1, <1>2, <1>3, Division
<1>5. PICK entry \in Entries(d, p) : physical = PhysPage(entry) + offset
  BY <1>2, <1>3 DEF Translate
<1>6. PICK k \in DOMAIN dmaDomains :
        /\ entry = dmaDomains[k].base + p * DmaPage
        /\ dmaDomains[k].id = dmaTable[d].domain /\ p < dmaDomains[k].pages
  BY <1>5 DEF Entries
<1>7. dmaDomains[k].base \in Nat /\ dmaDomains[k].bytes \in Nat
  <2>1. dmaDomains[k] \in Domain
    BY DEF DmaInv
  <2>2. QED
    BY <2>1 DEF Domain
<1>8. p * DmaPage \in Nat /\ p * DmaPage < dmaDomains[k].bytes
  BY <1>1, <1>4, <1>6 DEF DmaInv
<1>9. /\ entry \in Nat
      /\ entry \in dmaDomains[k].base .. dmaDomains[k].base + dmaDomains[k].bytes - 1
  BY <1>6, <1>7, <1>8
<1>10. PICK q : q = (entry % DmaSpace) \div DmaPage
  OBVIOUS
<1>11. q \in Nat
  <2>1. PICK x : x = entry % DmaSpace
    OBVIOUS
  <2>2. x \in Nat
    BY <1>1, <1>9, <2>1, Division
  <2>3. q = x \div DmaPage
    BY <1>10, <2>1
  <2>4. QED
    BY <1>1, <2>2, <2>3, Division
<1>12. physical = q * DmaPage + offset
  BY <1>5, <1>10 DEF PhysPage
<1>13. physical \div DmaPage = q
  BY <1>1, <1>4, <1>11, <1>12, Divides
<1>14. dmaTable[d].domain = dmaMapped[d]
  BY DEF DmaInv
<1>15. QED
  BY <1>6, <1>9, <1>10, <1>13, <1>14

PspInv ==
  /\ psp \in [jtag_off : BOOLEAN, mfg : BOOLEAN, state : SUBSET {1, 2}, secure : {TRUE}]
  /\ psp.mfg \/ psp.jtag_off

LEMMA PspStep ==
  ASSUME PspInv, ManagementNext
  PROVE  PspInv'
<1> USE DEF PspInv
<1>1. CASE PspManufacturing
  BY <1>1 DEF PspManufacturing
<1>2. CASE PspDisableJtag
  BY <1>2 DEF PspDisableJtag
<1>3. CASE PspExitManufacturing
  BY <1>3 DEF PspExitManufacturing
<1>4. CASE psp' = psp
  BY <1>4
<1>5. QED
  BY <1>1, <1>2, <1>3, <1>4
     DEF ManagementNext, IpmiCommand, SolRedirect, VmediaMount, VmediaUnmount, HapDisable,
         MeLockJtag, MeManufacturing

ProtectionsInv == SpiInv /\ SmmInv /\ DmaInv /\ PspInv

LEMMA InvProtects == ProtectionsInv => ProtectionsHold
<1> SUFFICES ASSUME ProtectionsInv PROVE ProtectionsHold
  OBVIOUS
<1>1. spiSealed # << >> =>
        \A a \in SpiCells : (\E r \in Holding(spiPr, a) : "write" \notin r.rights) => spiFlash[a] = spiSealed[a]
  BY DEF ProtectionsInv, SpiInv, SpiProtected
<1>2. smm.inside = (smiStack # << >> /\ ~Last(smiStack).called)
  <2>1. smm.inside \in BOOLEAN /\ smiStack \in Seq(Frame)
    BY DEF ProtectionsInv, SmmInv
  <2>2. smiStack # << >> <=> Len(smiStack) > 0
    BY <2>1
  <2>3. smm.inside <=> smiStack # << >> /\ ~Last(smiStack).called
    BY <2>2 DEF ProtectionsInv, SmmInv, Last
  <2>4. CASE smm.inside = TRUE
    BY <2>3, <2>4
  <2>5. CASE smm.inside = FALSE
    BY <2>3, <2>5
  <2>6. QED
    BY <2>1, <2>4, <2>5
<1>3. \A s \in smm.smrr : \A a \in 0 .. SmrrWords - 1 :
        s.base + s.size < SmrrWords => (SmrrAllows(a) <=> a \div s.size = s.base \div s.size)
  BY SmrrIsItsBlock DEF ProtectionsInv
<1>4. ASSUME NEW d \in DmaDevices, NEW address \in 0 .. (DmaPageMax + 1) * DmaPage,
             NEW physical \in Translate(d, address)
      PROVE  \E k \in DOMAIN dmaDomains :
               /\ dmaDomains[k].id = dmaMapped[d]
               /\ \E byte \in dmaDomains[k].base .. dmaDomains[k].base + dmaDomains[k].bytes - 1 :
                    (byte % DmaSpace) \div DmaPage = physical \div DmaPage
  <2>1. address \in Nat
    BY ProtectionsAssumption
  <2>2. QED
    BY <2>1, TranslatesWithin DEF ProtectionsInv
<1>5. psp.mfg \/ PspSecure
  BY DEF ProtectionsInv, PspInv, PspSecure
<1>6. QED
  BY <1>1, <1>2, <1>3, <1>4, <1>5 DEF ProtectionsHold

LEMMA InvProtectionsInit == ProtectionsInit => ProtectionsInv
<1> SUFFICES ASSUME ProtectionsInit PROVE ProtectionsInv
  OBVIOUS
<1>1. SpiInv
  BY DEF ProtectionsInit, SpiInit, SpiInv
<1>2. SmmInv
  BY DEF ProtectionsInit, SmmInit, SmmInv
<1>3. DmaInv
  BY ProtectionsAssumption DEF ProtectionsInit, IommuInit, DmaInv
<1>4. PspInv
  BY DEF ProtectionsInit, ManagementInit, PspInv
<1>5. QED
  BY <1>1, <1>2, <1>3, <1>4 DEF ProtectionsInv

LEMMA ProtectionsStep == ProtectionsInv /\ [ProtectionsNext]_prvars => ProtectionsInv'
<1> SUFFICES ASSUME ProtectionsInv, [ProtectionsNext]_prvars PROVE ProtectionsInv'
  OBVIOUS
<1>1. ASSUME UNCHANGED spivars PROVE SpiInv'
  BY <1>1 DEF spivars, ProtectionsInv, SpiInv, SpiProtected, Holding
<1>2. ASSUME UNCHANGED smmvars PROVE SmmInv'
  BY <1>2 DEF smmvars, ProtectionsInv, SmmInv
<1>3. ASSUME UNCHANGED dmavars PROVE DmaInv'
  BY <1>3 DEF dmavars, ProtectionsInv, DmaInv
<1>4. ASSUME UNCHANGED mgtvars PROVE PspInv'
  BY <1>4 DEF mgtvars, ProtectionsInv, PspInv
<1>5. CASE SpiNext /\ UNCHANGED <<smmvars, dmavars, mgtvars>>
  BY <1>2, <1>3, <1>4, <1>5, SpiStep DEF ProtectionsInv
<1>6. CASE SmmNext /\ UNCHANGED <<spivars, dmavars, mgtvars>>
  BY <1>1, <1>3, <1>4, <1>6, SmmStep DEF ProtectionsInv
<1>7. CASE IommuNext /\ UNCHANGED <<spivars, smmvars, mgtvars>>
  BY <1>1, <1>2, <1>4, <1>7, DmaStep DEF ProtectionsInv
<1>8. CASE ManagementNext /\ UNCHANGED <<spivars, smmvars, dmavars>>
  BY <1>1, <1>2, <1>3, <1>8, PspStep DEF ProtectionsInv
<1>9. CASE UNCHANGED prvars
  BY <1>1, <1>2, <1>3, <1>4, <1>9 DEF prvars, ProtectionsInv
<1>10. QED
  BY <1>5, <1>6, <1>7, <1>8, <1>9 DEF ProtectionsNext

\* The protections hold whatever the order in which they are configured, closed and
\* used: locked flash keeps what no one may write, management mode belongs to the
\* handler that runs, and a device reaches only pages that the buffer of its domain
\* lies on (spi_lock_config, smm_handler_invoke, iommu_translate).
THEOREM ProtectionsAreKept == ProtectionsSpec => []ProtectionsHold
<1>1. QED
  BY InvProtectionsInit, ProtectionsStep, InvProtects, PTL DEF ProtectionsSpec

-----------------------------------------------------------------------------
(* The resilient firmware.                                                 *)

Firmware ==
  [hash : FwHashes \cup {ZeroHash, GoldenHash, "ones"}, version : 0 .. MaxFwVersion + 1, valid : BOOLEAN]
Verification ==
  [of : FwHashes, ok : BOOLEAN, replaced : BOOLEAN, active : Firmware, auto : BOOLEAN]

ResilientFirmware ==
  [active : Firmware, recovery : Firmware, golden : Firmware, slot : {0, 1},
   auto : BOOLEAN, locked : BOOLEAN, last : {"ok", "recovered", "incomplete", "bit_flip", "malicious"}]

GoldenFirmware == [hash |-> GoldenHash, version |-> 0, valid |-> TRUE]

Justified(v) ==
  /\ v.ok => v.active.valid /\ (v.replaced \/ v.of = v.active.hash)
  /\ v.replaced => v.active = GoldenFirmware
  /\ v.auto => v.ok

\* The golden firmware never changes, and the active one is counted from it.
ResilientInv ==
  /\ rsFw \in ResilientFirmware
  /\ rsHistory \in [recovered : BOOLEAN, updates : Nat, verified : SUBSET Verification]
  /\ rsFw.golden = GoldenFirmware
  /\ rsFw.active.version = rsHistory.updates + (IF rsHistory.recovered THEN 0 ELSE 1)
  /\ rsFw.slot = IF rsHistory.recovered THEN 1 ELSE 0
  /\ rsFw.active.valid <=> rsHistory.recovered \/ rsHistory.updates > 0
  /\ \A v \in rsHistory.verified : Justified(v)

LEMMA ResilientInvInit == ResilientInit => ResilientInv
<1> SUFFICES ASSUME ResilientInit PROVE ResilientInv
  OBVIOUS
<1>1. 0 \in 0 .. MaxFwVersion + 1 /\ 1 \in 0 .. MaxFwVersion + 1
  BY FirmwareAuditAssumption
<1> USE DEF ResilientInit
<1>2. rsFw.active \in Firmware /\ rsFw.recovery \in Firmware /\ rsFw.golden \in Firmware
  BY <1>1 DEF Firmware
<1>3. rsFw \in ResilientFirmware /\ rsFw.golden = GoldenFirmware
  BY <1>2 DEF ResilientFirmware, GoldenFirmware
<1>4. rsHistory \in [recovered : BOOLEAN, updates : Nat, verified : SUBSET Verification]
  OBVIOUS
<1>5. QED
  BY <1>3, <1>4 DEF ResilientInv

LEMMA ResilientStep == ResilientInv /\ [ResilientNext]_rsvars => ResilientInv'
<1> SUFFICES ASSUME ResilientInv, [ResilientNext]_rsvars PROVE ResilientInv'
  OBVIOUS
<1> USE DEF ResilientInv
<1>g. GoldenFirmware \in Firmware
  BY FirmwareAuditAssumption DEF Firmware, GoldenFirmware
<1>r. ASSUME NEW fw \in ResilientFirmware, fw.golden = GoldenFirmware
      PROVE  /\ Recovered(fw) \in ResilientFirmware /\ Recovered(fw).golden = fw.golden
             /\ Recovered(fw).slot = 1 /\ Recovered(fw).active = fw.golden
  <2> DEFINE put == [hash |-> fw.golden.hash, version |-> fw.golden.version, valid |-> TRUE]
  <2>1. put = fw.golden /\ put \in Firmware
    BY <1>g, <1>r DEF GoldenFirmware
  <2>2. Recovered(fw) = [fw EXCEPT !.slot = 1, !.last = "recovered", !.active = put]
    BY DEF Recovered
  <2> HIDE DEF put
  <2>3. QED
    BY <2>1, <2>2 DEF ResilientFirmware
<1>1. CASE UNCHANGED rsvars
  BY <1>1 DEF rsvars
<1>2. ASSUME NEW h \in FwHashes, DetectCorruption(h) PROVE ResilientInv'
  BY <1>2 DEF DetectCorruption, Corruption, ResilientFirmware
<1>3. ASSUME NEW h \in FwHashes, VerifyActive(h) PROVE ResilientInv'
  <2> DEFINE kind == Corruption(h)
             replaced == kind # "ok" /\ rsFw.auto /\ rsFw.golden.valid
             found == [rsFw EXCEPT !.last = IF kind = "ok" THEN @ ELSE kind]
             verdict == [of |-> h, ok |-> kind = "ok" \/ replaced, replaced |-> replaced,
                         active |-> rsFw'.active, auto |-> rsFw.auto]
  <2>1. /\ kind \in {"ok", "incomplete", "bit_flip", "malicious"}
        /\ kind = "ok" => rsFw.active.valid /\ h = rsFw.active.hash
    BY DEF Corruption
  <2>2. /\ rsFw' = IF replaced THEN Recovered(found) ELSE found
        /\ rsHistory' = [recovered |-> rsHistory.recovered \/ replaced,
                         updates   |-> IF replaced THEN 0 ELSE rsHistory.updates,
                         verified  |-> {verdict}]
    BY <1>3 DEF VerifyActive
  <2>g. rsFw.golden.valid = TRUE
    BY DEF GoldenFirmware
  <2> HIDE DEF kind
  <2>3. /\ found \in ResilientFirmware
        /\ found.golden = rsFw.golden /\ found.active = rsFw.active /\ found.slot = rsFw.slot
        /\ found.auto = rsFw.auto
    BY <2>1 DEF ResilientFirmware
  <2> HIDE DEF found
  <2>4. CASE replaced
    <3>1. rsFw' = Recovered(found)
      BY <2>2, <2>4
    <3>2. rsFw' \in ResilientFirmware /\ rsFw'.golden = rsFw.golden /\ rsFw'.slot = 1
          /\ rsFw'.active = rsFw.golden /\ rsFw'.active \in Firmware
      BY <1>g, <1>r, <2>3, <3>1
    <3>3. verdict \in Verification
      BY <2>4, <3>2 DEF Verification, ResilientFirmware
    <3>4. /\ rsHistory'.recovered = TRUE /\ rsHistory'.updates = 0
          /\ rsHistory'.verified = {verdict}
      BY <2>2, <2>4
    <3>5. rsHistory' \in [recovered : BOOLEAN, updates : Nat, verified : SUBSET Verification]
      BY <2>2, <2>4, <3>3
    <3>6. Justified(verdict)
      <4>1. verdict.replaced /\ verdict.ok /\ verdict.active = GoldenFirmware
        BY <2>4, <3>2
      <4>2. verdict.active.valid
        BY <4>1 DEF GoldenFirmware
      <4> HIDE DEF verdict
      <4>3. QED
        BY <4>1, <4>2 DEF Justified
    <3>7. rsFw'.active.version = 0 /\ rsFw'.active.valid = TRUE
      BY <3>2 DEF GoldenFirmware
    <3> HIDE DEF verdict
    <3>8. QED
      BY <3>2, <3>4, <3>5, <3>6, <3>7
  <2>5. CASE ~replaced
    <3>1. rsFw' = found
      BY <2>2, <2>5
    <3>2. rsFw'.active \in Firmware /\ rsFw.auto \in BOOLEAN
      BY <2>3, <3>1 DEF ResilientFirmware
    <3>3. verdict \in Verification
      BY <2>5, <3>2 DEF Verification
    <3>4. /\ rsHistory'.recovered = rsHistory.recovered /\ rsHistory'.updates = rsHistory.updates
          /\ rsHistory'.verified = {verdict}
      BY <2>2, <2>5
    <3>5. rsHistory' \in [recovered : BOOLEAN, updates : Nat, verified : SUBSET Verification]
      BY <3>3, <2>2, <2>5
    <3>6. Justified(verdict)
      <4>1. /\ ~verdict.replaced /\ verdict.of = h /\ verdict.active = rsFw.active
            /\ verdict.ok <=> kind = "ok"
            /\ verdict.auto = rsFw.auto
        BY <2>3, <2>5, <3>1
      <4>2. rsFw.auto => kind = "ok"
        BY <2>5, <2>g
      <4> HIDE DEF verdict
      <4>3. QED
        BY <2>1, <4>1, <4>2 DEF Justified
    <3> HIDE DEF verdict
    <3>7. QED
      BY <2>3, <3>1, <3>4, <3>5, <3>6
  <2>6. QED
    BY <2>4, <2>5
<1>4. ASSUME NEW h \in FwHashes, NEW active \in BOOLEAN, SecureUpdate(h, active)
      PROVE  ResilientInv'
  <2> DEFINE target == IF active THEN rsFw.active ELSE rsFw.recovery
             new == [hash |-> h, version |-> target.version + 1, valid |-> TRUE]
  <2>1. new \in Firmware
    BY <1>4, FirmwareAuditAssumption DEF SecureUpdate, Firmware, ResilientFirmware
  <2>2. rsFw' = IF active THEN [rsFw EXCEPT !.active = new] ELSE [rsFw EXCEPT !.recovery = new]
    BY <1>4 DEF SecureUpdate
  <2>3. rsHistory' = [rsHistory EXCEPT !.updates = IF active THEN @ + 1 ELSE @]
    BY <1>4 DEF SecureUpdate
  <2>4. /\ new.version = target.version + 1 /\ new.valid = TRUE
        /\ \A v \in rsHistory.verified : v \in Verification
    OBVIOUS
  <2> HIDE DEF new
  <2>5. rsFw' \in ResilientFirmware /\ rsFw'.golden = rsFw.golden /\ rsFw'.slot = rsFw.slot
    BY <2>1, <2>2 DEF ResilientFirmware
  <2>6. rsFw'.active = IF active THEN new ELSE rsFw.active
    BY <2>2 DEF ResilientFirmware
  <2>7. /\ rsHistory' \in [recovered : BOOLEAN, updates : Nat, verified : SUBSET Verification]
        /\ rsHistory'.updates = IF active THEN rsHistory.updates + 1 ELSE rsHistory.updates
        /\ rsHistory'.recovered = rsHistory.recovered /\ rsHistory'.verified = rsHistory.verified
    BY <2>3
  <2>8. QED
    BY <2>4, <2>5, <2>6, <2>7
<1>5. CASE RecoverToGolden
  <2>1. /\ rsFw' = Recovered(rsFw)
        /\ rsHistory' = [rsHistory EXCEPT !.recovered = TRUE, !.updates = 0]
    BY <1>5 DEF RecoverToGolden
  <2>2. /\ rsFw' \in ResilientFirmware /\ rsFw'.golden = rsFw.golden
        /\ rsFw'.slot = 1 /\ rsFw'.active = rsFw.golden
    BY <1>r, <2>1
  <2>3. /\ rsHistory'.recovered = TRUE /\ rsHistory'.updates = 0
        /\ rsHistory'.verified = rsHistory.verified
        /\ rsHistory' \in [recovered : BOOLEAN, updates : Nat, verified : SUBSET Verification]
    BY <2>1
  <2>4. rsFw'.active.version = 0 /\ rsFw'.active.valid = TRUE
    BY <2>2 DEF GoldenFirmware
  <2>5. QED
    BY <2>2, <2>3, <2>4
<1>6. ASSUME NEW auto \in BOOLEAN, SetRecoveryPolicy(auto) PROVE ResilientInv'
  BY <1>6 DEF SetRecoveryPolicy, ResilientFirmware
<1>7. CASE LockFirmware
  BY <1>7 DEF LockFirmware, ResilientFirmware
<1>8. ASSUME NEW event \in 1 .. 2, ResilientLog(event) PROVE ResilientInv'
  BY <1>8 DEF ResilientLog
<1>9. QED
  BY <1>1, <1>2, <1>3, <1>4, <1>5, <1>6, <1>7, <1>8 DEF ResilientNext

LEMMA RecoveryExplained == ResilientInv => RecoveryExplainsFirmware
<1> SUFFICES ASSUME ResilientInv PROVE RecoveryExplainsFirmware
  OBVIOUS
<1> USE DEF ResilientInv
<1>1. rsFw.golden.version = 0
  BY DEF GoldenFirmware
<1>2. \A min \in 1 .. MaxFwVersion : ~NotOlderThan(min)
  BY <1>1 DEF NotOlderThan
<1>3. QED
  BY <1>1, <1>2 DEF RecoveryExplainsFirmware, Justified

-----------------------------------------------------------------------------
(* The audit trail.                                                        *)

AuditEntry ==
  {PacketEntry(p) : p \in Packets} \cup {BackendEntry(e) : e \in BackendEvents}
    \cup {DecisionEntry(target, approved) : target \in {"network", "backend"}, approved \in BOOLEAN}

\* The positions of the violations and of the inspections of a trail.
Violations(trail) == {k \in DOMAIN trail : trail[k].violation}
Inspections(trail) == {k \in DOMAIN trail : trail[k].source # "security"}

\* The counters are those of the trail, and of what it had no room for.
AuditInv ==
  /\ auEntries \in Seq(AuditEntry)
  /\ Len(auEntries) <= AuditMax
  /\ auCounts \in [violations : Nat, packets : Nat, events : Nat]
  /\ auDropped \in Nat
  /\ auCounts.violations = Cardinality(Violations(auEntries))
  /\ auCounts.packets + auCounts.events = Cardinality(Inspections(auEntries)) + auDropped
  /\ auDropped > 0 => Len(auEntries) = AuditMax

LEMMA EntryTells ==
  ASSUME NEW e \in AuditEntry
  PROVE  /\ e.source \in {"network", "backend", "security"}
         /\ e.severity = "error" => e.violation
         /\ e.violation \in BOOLEAN
<1>1. ASSUME NEW p \in Packets, e = PacketEntry(p)
      PROVE  /\ e.source = "network" /\ e.violation \in BOOLEAN
             /\ e.severity = "error" => e.violation
  BY <1>1 DEF PacketEntry
<1>2. ASSUME NEW b \in BackendEvents, e = BackendEntry(b)
      PROVE  /\ e.source = "backend" /\ e.violation \in BOOLEAN
             /\ e.severity = "error" => e.violation
  BY <1>2 DEF BackendEntry
<1>3. ASSUME NEW target \in {"network", "backend"}, NEW approved \in BOOLEAN,
             e = DecisionEntry(target, approved)
      PROVE  e.source = "security" /\ e.violation \in BOOLEAN /\ e.severity # "error"
  BY <1>3 DEF DecisionEntry
<1>4. QED
  BY <1>1, <1>2, <1>3 DEF AuditEntry

\* Some of n positions, and one more.
LEMMA OneMorePosition ==
  ASSUME NEW n \in Nat, NEW A \in SUBSET (1 .. n)
  PROVE  Cardinality(A) \in Nat /\ Cardinality(A \cup {n + 1}) = Cardinality(A) + 1
<1>1. IsFiniteSet(A)
  BY UpToCardinality, FS_Subset
<1>2. n + 1 \notin A
  OBVIOUS
<1>3. QED
  BY <1>1, <1>2, FS_CardinalityType, FS_AddElement

\* What an entry adds to the counts of a trail.
LEMMA TrailGrows ==
  ASSUME NEW trail \in Seq(AuditEntry), NEW e \in AuditEntry
  PROVE  /\ Cardinality(Violations(trail)) \in Nat
         /\ Cardinality(Violations(Append(trail, e))) =
              Cardinality(Violations(trail)) + (IF e.violation THEN 1 ELSE 0)
         /\ Cardinality(Inspections(trail)) \in Nat
         /\ Cardinality(Inspections(Append(trail, e))) =
              Cardinality(Inspections(trail)) + (IF e.source = "security" THEN 0 ELSE 1)
<1> DEFINE longer == Append(trail, e)
<1>1. PICK n \in Nat : n = Len(trail)
  OBVIOUS
<1>2. /\ DOMAIN trail = 1 .. n /\ DOMAIN longer = 1 .. n + 1
      /\ longer[n + 1] = e /\ \A k \in 1 .. n : longer[k] = trail[k]
  BY <1>1
<1> HIDE DEF longer
<1>3. /\ Violations(trail) \in SUBSET (1 .. n)
      /\ Violations(longer) =
           IF e.violation THEN Violations(trail) \cup {n + 1} ELSE Violations(trail)
  BY <1>2 DEF Violations
<1>4. /\ Inspections(trail) \in SUBSET (1 .. n)
      /\ Inspections(longer) =
           IF e.source = "security" THEN Inspections(trail) ELSE Inspections(trail) \cup {n + 1}
  BY <1>2 DEF Inspections
<1>5. /\ Cardinality(Violations(trail)) \in Nat
      /\ Cardinality(Violations(trail) \cup {n + 1}) = Cardinality(Violations(trail)) + 1
      /\ Cardinality(Inspections(trail)) \in Nat
      /\ Cardinality(Inspections(trail) \cup {n + 1}) = Cardinality(Inspections(trail)) + 1
  BY <1>3, <1>4, OneMorePosition
<1>6. Cardinality(Violations(longer)) =
        Cardinality(Violations(trail)) + (IF e.violation THEN 1 ELSE 0)
  BY <1>3, <1>5
<1>7. Cardinality(Inspections(longer)) =
        Cardinality(Inspections(trail)) + (IF e.source = "security" THEN 0 ELSE 1)
  BY <1>4, <1>5
<1>8. QED
  BY <1>5, <1>6, <1>7 DEF longer

LEMMA AuditInvInit == AuditInit => AuditInv
<1> SUFFICES ASSUME AuditInit PROVE AuditInv
  OBVIOUS
<1> USE DEF AuditInit
<1>1. auEntries \in Seq(AuditEntry) /\ Len(auEntries) = 0
  OBVIOUS
<1>2. Violations(auEntries) = {} /\ Inspections(auEntries) = {}
  BY DEF Violations, Inspections
<1>3. /\ auCounts.violations = Cardinality(Violations(auEntries))
      /\ auCounts.packets + auCounts.events = Cardinality(Inspections(auEntries)) + auDropped
  BY <1>2, FS_EmptySet
<1>4. auCounts \in [violations : Nat, packets : Nat, events : Nat] /\ auDropped = 0
  OBVIOUS
<1>5. QED
  BY <1>1, <1>3, <1>4, FirmwareAuditAssumption DEF AuditInv

\* An inspection whose entry is no decision, after one of the counters of inspections grew.
LEMMA InspectKeeps ==
  ASSUME AuditInv, NEW entry \in AuditEntry, entry.source # "security",
         NEW counts \in [violations : Nat, packets : Nat, events : Nat],
         counts.violations = auCounts.violations,
         counts.packets + counts.events = auCounts.packets + auCounts.events + 1,
         Inspect(entry, counts)
  PROVE  AuditInv'
<1> USE DEF AuditInv
<1>1. PICK s \in Seq(AuditEntry) : s = auEntries
  OBVIOUS
<1>2. CASE Len(auEntries) >= AuditMax
  <2>1. auCounts' = counts /\ auDropped' = auDropped + 1 /\ auEntries' = auEntries
    BY <1>2 DEF Inspect
  <2>2. Len(auEntries) = AuditMax
    BY <1>2, FirmwareAuditAssumption
  <2>3. Cardinality(Inspections(s)) \in Nat
    BY TrailGrows
  <2>4. QED
    BY <1>1, <2>1, <2>2, <2>3
<1>3. CASE ~(Len(auEntries) >= AuditMax)
  <2>1. /\ auEntries' = Append(s, entry) /\ auDropped' = auDropped
        /\ auCounts' = [counts EXCEPT !.violations = IF entry.violation THEN @ + 1 ELSE @]
    BY <1>1, <1>3 DEF Inspect
  <2>2. auEntries' \in Seq(AuditEntry) /\ Len(auEntries') = Len(auEntries) + 1
    BY <1>1, <2>1
  <2>3. Len(auEntries') <= AuditMax /\ auDropped = 0
    BY <1>3, <2>2, FirmwareAuditAssumption
  <2>4. /\ auCounts' \in [violations : Nat, packets : Nat, events : Nat]
        /\ auCounts'.violations = auCounts.violations + (IF entry.violation THEN 1 ELSE 0)
        /\ auCounts'.packets + auCounts'.events = auCounts.packets + auCounts.events + 1
    <3>1. /\ counts.violations \in Nat /\ counts.packets \in Nat /\ counts.events \in Nat
          /\ entry.violation \in BOOLEAN
      BY EntryTells
    <3>2. PICK more \in Nat : more = counts.violations + (IF entry.violation THEN 1 ELSE 0)
      BY <3>1
    <3>3. auCounts' = [counts EXCEPT !.violations = more]
      <4>1. CASE entry.violation
        BY <2>1, <3>1, <3>2, <4>1
      <4>2. CASE ~entry.violation
        BY <2>1, <3>1, <3>2, <4>2
      <4>3. QED
        BY <4>1, <4>2
    <3>4. QED
      BY <3>1, <3>2, <3>3
  <2>5. QED
    BY <1>1, <2>1, <2>2, <2>3, <2>4, TrailGrows
<1>4. QED
  BY <1>2, <1>3

LEMMA AuditStep == AuditInv /\ [AuditNext]_auvars => AuditInv'
<1> SUFFICES ASSUME AuditInv, [AuditNext]_auvars PROVE AuditInv'
  OBVIOUS
<1>1. CASE UNCHANGED auvars
  BY <1>1 DEF auvars, AuditInv
<1>2. ASSUME NEW on \in BOOLEAN, AuditSwitch(on) PROVE AuditInv'
  BY <1>2 DEF AuditSwitch, AuditInv
<1>3. ASSUME NEW p \in Packets, AuditNetworkPacket(p) PROVE AuditInv'
  <2>1. PICK entry : entry = PacketEntry(p)
    OBVIOUS
  <2>2. PICK counts : counts = [auCounts EXCEPT !.packets = @ + 1]
    OBVIOUS
  <2>3. entry \in AuditEntry /\ entry.source # "security"
    BY <2>1 DEF AuditEntry, PacketEntry
  <2>4. /\ counts \in [violations : Nat, packets : Nat, events : Nat]
        /\ counts.violations = auCounts.violations
        /\ counts.packets + counts.events = auCounts.packets + auCounts.events + 1
    BY <2>2 DEF AuditInv
  <2>5. Inspect(entry, counts)
    BY <1>3, <2>1, <2>2 DEF AuditNetworkPacket
  <2>6. QED
    BY <2>3, <2>4, <2>5, InspectKeeps
<1>4. ASSUME NEW e \in BackendEvents, AuditBackendEvent(e) PROVE AuditInv'
  <2>1. PICK entry : entry = BackendEntry(e)
    OBVIOUS
  <2>2. PICK counts : counts = [auCounts EXCEPT !.events = @ + 1]
    OBVIOUS
  <2>3. entry \in AuditEntry /\ entry.source # "security"
    BY <2>1 DEF AuditEntry, BackendEntry
  <2>4. /\ counts \in [violations : Nat, packets : Nat, events : Nat]
        /\ counts.violations = auCounts.violations
        /\ counts.packets + counts.events = auCounts.packets + auCounts.events + 1
    BY <2>2 DEF AuditInv
  <2>5. Inspect(entry, counts)
    BY <1>4, <2>1, <2>2 DEF AuditBackendEvent
  <2>6. QED
    BY <2>3, <2>4, <2>5, InspectKeeps
<1>5. ASSUME NEW target \in {"network", "backend"}, NEW approved \in BOOLEAN,
             AuditDecision(target, approved)
      PROVE  AuditInv'
  <2>1. PICK entry : entry = DecisionEntry(target, approved)
    OBVIOUS
  <2>d. entry \in AuditEntry
    BY <2>1 DEF AuditEntry
  <2>2. entry \in AuditEntry /\ entry.source = "security" /\ (entry.violation <=> ~approved)
    BY <2>1, <2>d DEF DecisionEntry
  <2>3. PICK s \in Seq(AuditEntry) : s = auEntries
    BY DEF AuditInv
  <2>4. /\ Len(s) < AuditMax /\ auEntries' = Append(s, entry) /\ auDropped' = auDropped
        /\ auCounts' = [auCounts EXCEPT !.violations = IF approved THEN @ ELSE @ + 1]
    BY <1>5, <2>1, <2>3 DEF AuditDecision
  <2>5. auEntries' \in Seq(AuditEntry) /\ Len(auEntries') <= AuditMax /\ auDropped = 0
    BY <2>2, <2>3, <2>4, FirmwareAuditAssumption DEF AuditInv
  <2>6. /\ auCounts' \in [violations : Nat, packets : Nat, events : Nat]
        /\ auCounts'.violations = auCounts.violations + (IF entry.violation THEN 1 ELSE 0)
        /\ auCounts'.packets + auCounts'.events = auCounts.packets + auCounts.events
    BY <2>2, <2>4 DEF AuditInv
  <2>7. QED
    BY <2>2, <2>3, <2>4, <2>5, <2>6, TrailGrows DEF AuditInv
<1>6. QED
  BY <1>1, <1>2, <1>3, <1>4, <1>5 DEF AuditNext

\* An export into a buffer that holds its header ends within it: the positions that are
\* written are those up to the last one, and each was written with room to spare.
LEMMA ExportFits ==
  ASSUME NEW S, auEntries \in Seq(S), NEW size \in Nat, size >= 8
  PROVE  8 + 36 * Exported(size) <= size
<1> DEFINE written == {k \in DOMAIN auEntries : \A i \in 0 .. k - 1 : 8 + 36 * i + 64 < size}
<1>1. PICK n \in Nat : n = Len(auEntries)
  OBVIOUS
<1>2. DOMAIN auEntries = 1 .. n
  BY <1>1
<1>e. Exported(size) = Cardinality(written)
  BY DEF Exported
<1>3. CASE written = {}
  <2>1. Exported(size) = 0
    BY <1>3, <1>e, FS_EmptySet
  <2>2. QED
    BY <2>1
<1>4. CASE written # {}
  <2>1. written \in SUBSET (0 .. n)
    BY <1>2
  <2>2. PICK m \in written : \A j \in written : j <= m
    <3> HIDE DEF written
    <3>1. QED
      BY <1>4, <2>1, GreatestNatural
  <2>3. m \in 1 .. n /\ \A i \in 0 .. m - 1 : 8 + 36 * i + 64 < size
    BY <1>2
  <2>4. written = 1 .. m
    <3>1. ASSUME NEW k \in 1 .. m PROVE k \in written
      BY <1>2, <2>3
    <3>2. ASSUME NEW k \in written PROVE k \in 1 .. m
      BY <1>2, <2>2
    <3>3. QED
      BY <3>1, <3>2
  <2>5. Exported(size) = m
    <3>1. Cardinality(1 .. m) = m
      BY <2>3, UpToCardinality
    <3>2. Exported(size) = Cardinality(1 .. m)
      BY <1>e, <2>4
    <3>3. QED
      BY <3>1, <3>2
  <2>6. m - 1 \in 0 .. m - 1
    BY <2>3
  <2>7. 8 + 36 * (m - 1) + 64 < size
    BY <2>3, <2>6
  <2> HIDE DEF written
  <2>8. QED
    BY <2>3, <2>5, <2>7
<1>5. QED
  BY <1>3, <1>4

LEMMA AuditAccounted == AuditInv => AuditAccounts
<1> SUFFICES ASSUME AuditInv PROVE AuditAccounts
  OBVIOUS
<1> USE DEF AuditInv
<1>1. \A k \in DOMAIN auEntries : auEntries[k] \in AuditEntry
  OBVIOUS
<1>2. \A k \in DOMAIN auEntries : auEntries[k].severity = "error" => auEntries[k].violation
  BY <1>1, EntryTells
<1>3. \A size \in {8, 72, 73, 108, 109, 145, 200} : 8 + 36 * Exported(size) <= size
  BY ExportFits
<1>4. QED
  BY <1>2, <1>3 DEF AuditAccounts, Violations, Inspections

-----------------------------------------------------------------------------
(* The Secure Boot policy of mini-firmware-security.                       *)

FsPolicy ==
  [pk : FsKeys \cup {"none"}, kek : Seq(FsKeys), db : Seq(FsKeys \cup FsImages),
   dbx : Seq(FsImages), mode : {"setup", "user", "deployed"}, setup : BOOLEAN,
   enabled : BOOLEAN, deployed : BOOLEAN, audit : BOOLEAN]

\* The four flags of the mode agree, and what was revoked is in dbx.
FlagsAgree ==
  /\ fsPolicy.setup <=> fsPolicy.pk = "none"
  /\ fsPolicy.enabled <=> ~fsPolicy.setup
  /\ fsPolicy.setup <=> fsPolicy.mode = "setup"
  /\ fsPolicy.deployed /\ ~fsCleared => ~fsPolicy.setup /\ fsPolicy.kek # << >>

FsInv ==
  /\ fsPolicy \in FsPolicy
  /\ fsCleared \in BOOLEAN
  /\ FlagsAgree
  /\ fsRevoked \subseteq Range(fsPolicy.dbx)

LEMMA FsInvInit == FsInit => FsInv
<1> SUFFICES ASSUME FsInit PROVE FsInv
  OBVIOUS
<1> USE DEF FsInit
<1>1. fsPolicy \in FsPolicy
  BY DEF FsPolicy
<1>2. FlagsAgree
  BY DEF FlagsAgree
<1>3. QED
  BY <1>1, <1>2 DEF FsInv

LEMMA RangeGrows ==
  ASSUME NEW S, NEW s \in Seq(S), NEW e \in S
  PROVE  /\ Append(s, e) \in Seq(S) /\ Append(s, e) # << >>
         /\ Range(Append(s, e)) = Range(s) \cup {e}
<1>1. PICK n \in Nat : n = Len(s)
  OBVIOUS
<1>2. /\ DOMAIN Append(s, e) = 1 .. n + 1 /\ DOMAIN s = 1 .. n
      /\ Append(s, e)[n + 1] = e /\ \A k \in 1 .. n : Append(s, e)[k] = s[k]
  BY <1>1
<1>3. Append(s, e) \in Seq(S) /\ Append(s, e) # << >>
  <2>1. Append(s, e) \in Seq(S) /\ Len(Append(s, e)) = Len(s) + 1 /\ Len(s) \in Nat
    OBVIOUS
  <2>2. Len(<< >>) = 0
    OBVIOUS
  <2>3. QED
    BY <2>1, <2>2
<1>4. QED
  BY <1>2, <1>3 DEF Range

LEMMA FsStep == FsInv /\ [FsNext]_fsvars => FsInv'
<1> SUFFICES ASSUME FsInv, [FsNext]_fsvars PROVE FsInv'
  OBVIOUS
<1> USE FirmwareTrustAssumption DEF FsInv, FlagsAgree
<1>1. CASE UNCHANGED fsvars
  BY <1>1 DEF fsvars
<1>2. ASSUME NEW cert \in FsKeys, FsEnrollPk(cert) PROVE FsInv'
  BY <1>2 DEF FsEnrollPk, FsPolicy
<1>3. ASSUME NEW cert \in FsKeys, FsEnrollKek(cert) PROVE FsInv'
  <2>0. PICK s \in Seq(FsKeys) : s = fsPolicy.kek
    BY DEF FsPolicy
  <2>1. PICK kek \in Seq(FsKeys) : kek = Append(s, cert) /\ kek # << >>
    BY RangeGrows
  <2>2. fsPolicy' = [fsPolicy EXCEPT !.kek = kek] /\ UNCHANGED <<fsRevoked, fsCleared>>
    BY <1>3, <2>0, <2>1 DEF FsEnrollKek
  <2>3. QED
    BY <2>1, <2>2 DEF FsPolicy
<1>4. ASSUME NEW entry \in FsKeys \cup FsImages, FsEnrollDb(entry) PROVE FsInv'
  <2>0. PICK s \in Seq(FsKeys \cup FsImages) : s = fsPolicy.db
    BY DEF FsPolicy
  <2>1. PICK db \in Seq(FsKeys \cup FsImages) : db = Append(s, entry)
    BY RangeGrows
  <2>2. fsPolicy' = [fsPolicy EXCEPT !.db = db] /\ UNCHANGED <<fsRevoked, fsCleared>>
    BY <1>4, <2>0, <2>1 DEF FsEnrollDb
  <2>3. QED
    BY <2>1, <2>2 DEF FsPolicy
<1>5. ASSUME NEW image \in FsImages, FsEnrollDbx(image) PROVE FsInv'
  <2>1. PICK was \in Seq(FsImages) : was = fsPolicy.dbx
    BY DEF FsPolicy
  <2>2. PICK dbx \in Seq(FsImages) : dbx = Append(was, image)
    BY RangeGrows
  <2>3. Range(dbx) = Range(was) \cup {image}
    BY <2>2, RangeGrows
  <2>4. /\ fsPolicy' = [fsPolicy EXCEPT !.dbx = dbx]
        /\ fsRevoked' = fsRevoked \cup {image} /\ fsCleared' = fsCleared
    BY <1>5, <2>1, <2>2 DEF FsEnrollDbx
  <2>5. fsPolicy' \in FsPolicy /\ fsPolicy'.dbx = dbx
    BY <2>4 DEF FsPolicy
  <2>6. FlagsAgree'
    BY <2>4 DEF FsPolicy
  <2>7. QED
    BY <2>1, <2>3, <2>4, <2>5, <2>6
<1>6. ASSUME NEW n \in DOMAIN fsPolicy.kek, FsDeleteKek(n) PROVE FsInv'
  <2>1. PICK s \in Seq(FsKeys) : s = fsPolicy.kek
    BY DEF FsPolicy
  <2>2. PICK kek \in Seq(FsKeys) : kek = RemoveAt(s, n)
    <3>1. n \in 1 .. Len(s)
      BY <1>6, <2>1
    <3>2. SubSeq(s, 1, n - 1) \in Seq(FsKeys) /\ SubSeq(s, n + 1, Len(s)) \in Seq(FsKeys)
      BY <3>1
    <3>3. RemoveAt(s, n) \in Seq(FsKeys)
      BY <3>2 DEF RemoveAt
    <3>4. QED
      BY <3>3
  <2>3. /\ ~fsPolicy.deployed /\ fsPolicy' = [fsPolicy EXCEPT !.kek = kek]
        /\ UNCHANGED <<fsRevoked, fsCleared>>
    BY <1>6, <2>1, <2>2 DEF FsDeleteKek
  <2>4. QED
    BY <2>2, <2>3 DEF FsPolicy
<1>7. CASE FsDeletePk
  BY <1>7 DEF FsDeletePk, FsPolicy
<1>8. CASE FsClearKeys
  <2>e. << >> \in Seq(FsKeys) /\ << >> \in Seq(FsImages) /\ << >> \in Seq(FsKeys \cup FsImages)
    OBVIOUS
  <2>1. fsPolicy' \in FsPolicy
    BY <1>8, <2>e, ZenonT(60) DEF FsClearKeys, FsPolicy
  <2>2. FlagsAgree' /\ fsCleared' = TRUE /\ fsRevoked' = {}
    BY <1>8 DEF FsClearKeys, FsPolicy
  <2>3. QED
    BY <2>1, <2>2
<1>9. CASE FsToUserMode
  BY <1>9 DEF FsToUserMode, FsPolicy
<1>10. CASE FsToDeployedMode
  BY <1>10 DEF FsToDeployedMode, FsPolicy
<1>11. CASE FsSetAudit
  BY <1>11 DEF FsSetAudit, FsPolicy
<1>12. QED
  BY <1>1, <1>2, <1>3, <1>4, <1>5, <1>6, <1>7, <1>8, <1>9, <1>10, <1>11 DEF FsNext

LEMMA PolicyIsEnforced == FsInv => PolicyEnforced
<1> SUFFICES ASSUME FsInv PROVE PolicyEnforced
  OBVIOUS
<1> USE DEF FsInv
<1>1. ASSUME fsPolicy.enabled, NEW image \in FsImages, NEW signer \in FsKeys \cup {"unsigned"}
      PROVE  /\ image \in fsRevoked => FsVerdict(image, signer) = "revoked"
             /\ FsVerdict(image, signer) = "verified" =>
                  \E e \in Range(fsPolicy.db) \cup Range(fsPolicy.kek) : e \in {image, signer}
  <2>1. ASSUME NEW list, NEW entry PROVE InList(list, entry) <=> entry \in Range(list)
    BY DEF InList, Range
  <2>2. QED
    BY <1>1, <2>1 DEF FsVerdict
<1>2. QED
  BY <1>1 DEF PolicyEnforced, FlagsAgree

-----------------------------------------------------------------------------
(* The TPM of mini-firmware-security.                                      *)

TpEvent == [pcr : TpPcrSet, digest : TpDigests]
TpBank == [TpPcrSet -> Seq(TpDigests)]
TpQuoted == [nonce : TpNonces, pcrs : TpBank, reset : SUBSET TpPcrSet]

\* The quote q, for the banks pcrs when the keys made exist and local tells of locality 4.
QuoteHolds(q, pcrs, made, local) ==
  /\ "ak" \in made
  /\ \A p \in TpPcrSet \ q.reset : IsPrefix(q.pcrs[p], pcrs["sha256"][p])
  /\ ~local => q.reset \cap LowPcrs = {}

TpInv ==
  /\ tpPcrs \in [TpBanks -> TpBank]
  /\ tpLog \in Seq(TpEvent)
  /\ tpDirect \in SUBSET TpPcrSet
  /\ "ak" \in tpKeys => "srk" \in tpKeys
  /\ "srk" \in tpKeys => "ek" \in tpKeys
  /\ tpQuotes \in SUBSET TpQuoted
  /\ \A p \in TpPcrSet \ tpDirect : tpPcrs["sha256"][p] = Replay(tpLog, p)
  /\ \A q \in tpQuotes : QuoteHolds(q, tpPcrs, tpKeys, tpLocality)

LEMMA TpInvInit == TpInit => TpInv
<1> SUFFICES ASSUME TpInit PROVE TpInv
  OBVIOUS
<1> USE DEF TpInit
<1>1. tpPcrs \in [TpBanks -> TpBank]
  BY DEF TpBank
<1>2. \A p \in TpPcrSet : tpPcrs["sha256"][p] = Replay(tpLog, p)
  BY ReplayEmpty DEF TpBanks
<1>3. QED
  BY <1>1, <1>2 DEF TpInv

\* One PCR of a bank is extended: what a quote says of it stays a beginning of it.
LEMMA ExtendedKeeps ==
  ASSUME TpInv, NEW bank \in TpBanks, NEW p \in TpPcrSet, NEW d \in TpDigests,
         tpPcrs' = Extended(bank, p, d), UNCHANGED <<tpKeys, tpLocality, tpQuotes>>
  PROVE  /\ tpPcrs' \in [TpBanks -> TpBank]
         /\ \A r \in TpPcrSet :
              tpPcrs'["sha256"][r] = IF bank = "sha256" /\ r = p THEN Append(tpPcrs["sha256"][r], d)
                                     ELSE tpPcrs["sha256"][r]
         /\ \A q \in tpQuotes' : QuoteHolds(q, tpPcrs', tpKeys', tpLocality')
<1> USE DEF TpInv
<1>1. PICK old \in [TpBanks -> TpBank] : old = tpPcrs
  OBVIOUS
<1>2. PICK grown \in Seq(TpDigests) : grown = Append(old[bank][p], d)
  <2>1. old[bank][p] \in Seq(TpDigests)
    BY DEF TpBank
  <2>2. Append(old[bank][p], d) \in Seq(TpDigests)
    BY <2>1
  <2>3. QED
    BY <2>2
<1>3. tpPcrs' = [old EXCEPT ![bank] = [old[bank] EXCEPT ![p] = grown]]
  BY <1>1, <1>2 DEF Extended
<1>4. [old[bank] EXCEPT ![p] = grown] \in TpBank
  BY DEF TpBank
<1>5. tpPcrs' \in [TpBanks -> TpBank]
  BY <1>3, <1>4
<1>6. \A r \in TpPcrSet :
        tpPcrs'["sha256"][r] = IF bank = "sha256" /\ r = p THEN Append(tpPcrs["sha256"][r], d)
                               ELSE tpPcrs["sha256"][r]
  BY <1>1, <1>2, <1>3 DEF TpBank, TpBanks
<1>7. ASSUME NEW q \in tpQuotes, NEW r \in TpPcrSet \ q.reset
      PROVE  IsPrefix(q.pcrs[r], tpPcrs'["sha256"][r])
  <2>1. PICK s \in Seq(TpDigests) : s = q.pcrs[r]
    BY DEF TpQuoted, TpBank
  <2>2. PICK t \in Seq(TpDigests) : t = tpPcrs["sha256"][r]
    BY DEF TpBank, TpBanks
  <2>3. IsPrefix(s, t)
    BY <2>1, <2>2 DEF QuoteHolds
  <2>4. IsPrefix(s, Append(t, d))
    BY <2>3, PrefixAppend
  <2>5. QED
    BY <1>6, <2>1, <2>2, <2>3, <2>4
<1>8. QED
  BY <1>5, <1>6, <1>7 DEF QuoteHolds

LEMMA TpStep == TpInv /\ [TpNext]_tpvars => TpInv'
<1> SUFFICES ASSUME TpInv, [TpNext]_tpvars PROVE TpInv'
  OBVIOUS
<1> USE DEF TpInv
<1>1. CASE UNCHANGED tpvars
  BY <1>1 DEF tpvars
<1>2. ASSUME NEW p \in TpPcrSet, NEW d \in TpDigests, TpLogAdd(p, d) PROVE TpInv'
  <2>1. PICK log \in Seq(TpEvent) : log = tpLog
    OBVIOUS
  <2>2. PICK e \in TpEvent : e = [pcr |-> p, digest |-> d]
    BY DEF TpEvent
  <2>3. /\ tpPcrs' = Extended("sha256", p, d) /\ tpLog' = Append(log, e)
        /\ UNCHANGED <<tpLocality, tpKeys, tpQuotes, tpDirect>>
    BY <1>2, <2>1, <2>2 DEF TpLogAdd
  <2>4. "sha256" \in TpBanks
    BY DEF TpBanks
  <2>5. /\ tpPcrs' \in [TpBanks -> TpBank]
        /\ \A r \in TpPcrSet :
             tpPcrs'["sha256"][r] = IF r = p THEN Append(tpPcrs["sha256"][r], d)
                                    ELSE tpPcrs["sha256"][r]
        /\ \A q \in tpQuotes' : QuoteHolds(q, tpPcrs', tpKeys', tpLocality')
    BY <2>3, <2>4, ExtendedKeeps
  <2>6. \A r \in TpPcrSet :
          Replay(tpLog', r) = IF r = p THEN Append(Replay(tpLog, r), d) ELSE Replay(tpLog, r)
    <3>1. \A x \in TpEvent : x.digest \in TpDigests
      BY DEF TpEvent
    <3>2. \A r : Replay(Append(log, e), r) =
                   IF e.pcr = r THEN Append(Replay(log, r), e.digest) ELSE Replay(log, r)
      BY <3>1, ReplayAppend
    <3>3. QED
      BY <2>1, <2>2, <2>3, <3>2
  <2>7. tpLog' \in Seq(TpEvent)
    BY <2>3
  <2>8. \A r \in TpPcrSet \ tpDirect' : tpPcrs'["sha256"][r] = Replay(tpLog', r)
    BY <2>3, <2>5, <2>6
  <2>9. QED
    BY <2>3, <2>5, <2>7, <2>8
<1>3. ASSUME NEW p \in TpPcrSet, NEW d \in TpDigests, NEW bank \in TpBanks, TpExtend(bank, p, d)
      PROVE  TpInv'
  <2>1. /\ tpPcrs' = Extended(bank, p, d) /\ UNCHANGED <<tpLocality, tpLog, tpKeys, tpQuotes>>
        /\ tpDirect' = IF bank = "sha256" THEN tpDirect \cup {p} ELSE tpDirect
    BY <1>3 DEF TpExtend
  <2>2. /\ tpPcrs' \in [TpBanks -> TpBank]
        /\ \A r \in TpPcrSet :
             tpPcrs'["sha256"][r] =
               IF bank = "sha256" /\ r = p THEN Append(tpPcrs["sha256"][r], d)
               ELSE tpPcrs["sha256"][r]
        /\ \A q \in tpQuotes' : QuoteHolds(q, tpPcrs', tpKeys', tpLocality')
    BY <2>1, ExtendedKeeps
  <2>3. \A r \in TpPcrSet \ tpDirect' : tpPcrs'["sha256"][r] = Replay(tpLog', r)
    BY <2>1, <2>2
  <2>4. QED
    BY <2>1, <2>2, <2>3
<1>4. ASSUME NEW p \in TpPcrSet, TpReset(p) PROVE TpInv'
  <2>1. /\ p \in LowPcrs => tpLocality
        /\ tpPcrs' = [bank \in TpBanks |-> [tpPcrs[bank] EXCEPT ![p] = << >>]]
        /\ tpDirect' = tpDirect \cup {p}
        /\ tpQuotes' = {[q EXCEPT !.reset = @ \cup {p}] : q \in tpQuotes}
        /\ UNCHANGED <<tpLocality, tpLog, tpKeys>>
    BY <1>4 DEF TpReset
  <2>2. << >> \in Seq(TpDigests)
    OBVIOUS
  <2>3. tpPcrs' \in [TpBanks -> TpBank]
    <3>1. ASSUME NEW bank \in TpBanks PROVE [tpPcrs[bank] EXCEPT ![p] = << >>] \in TpBank
      BY <2>2 DEF TpBank
    <3>2. QED
      BY <2>1, <3>1
  <2>4. \A r \in TpPcrSet \ {p} : tpPcrs'["sha256"][r] = tpPcrs["sha256"][r]
    BY <2>1 DEF TpBanks, TpBank
  <2>5. ASSUME NEW q \in tpQuotes'
        PROVE  q \in TpQuoted /\ QuoteHolds(q, tpPcrs', tpKeys', tpLocality')
    <3>1. PICK old \in tpQuotes : q = [old EXCEPT !.reset = @ \cup {p}]
      BY <2>1
    <3>2. PICK reset \in SUBSET TpPcrSet : reset = old.reset \cup {p}
      BY DEF TpQuoted
    <3>3. /\ q \in TpQuoted
          /\ q.reset = old.reset \cup {p} /\ q.pcrs = old.pcrs
      BY <3>1, <3>2 DEF TpQuoted
    <3>4. QuoteHolds(old, tpPcrs, tpKeys, tpLocality)
      OBVIOUS
    <3>5. QED
      BY <2>1, <2>4, <3>3, <3>4 DEF QuoteHolds
  <2>6. \A r \in TpPcrSet \ tpDirect' : tpPcrs'["sha256"][r] = Replay(tpLog', r)
    BY <2>1, <2>4
  <2>7. QED
    BY <2>1, <2>3, <2>5, <2>6
<1>5. ASSUME NEW key \in {"ek", "srk", "ak"}, TpCreateKey(key) PROVE TpInv'
  <2>1. /\ key = "srk" => "ek" \in tpKeys
        /\ key = "ak" => "srk" \in tpKeys
        /\ tpKeys' = tpKeys \cup {key}
        /\ UNCHANGED <<tpPcrs, tpLocality, tpLog, tpQuotes, tpDirect>>
    BY <1>5 DEF TpCreateKey
  <2>2. \A q \in tpQuotes' : QuoteHolds(q, tpPcrs', tpKeys', tpLocality')
    BY <2>1 DEF QuoteHolds
  <2>3. ("ak" \in tpKeys' => "srk" \in tpKeys') /\ ("srk" \in tpKeys' => "ek" \in tpKeys')
    BY <2>1
  <2>4. QED
    BY <2>1, <2>2, <2>3
<1>6. ASSUME NEW nonce \in TpNonces, TpQuote(nonce) PROVE TpInv'
  <2>1. PICK new : new = [nonce |-> nonce, pcrs |-> tpPcrs["sha256"], reset |-> {}]
    OBVIOUS
  <2>2. /\ "ak" \in tpKeys /\ tpQuotes' = tpQuotes \cup {new}
        /\ UNCHANGED <<tpPcrs, tpLocality, tpLog, tpKeys, tpDirect>>
    BY <1>6, <2>1 DEF TpQuote
  <2>3. new \in TpQuoted
    BY <2>1 DEF TpQuoted, TpBanks
  <2>4. QuoteHolds(new, tpPcrs, tpKeys, tpLocality)
    <3>1. ASSUME NEW p \in TpPcrSet PROVE IsPrefix(new.pcrs[p], tpPcrs["sha256"][p])
      <4>1. PICK s \in Seq(TpDigests) : s = tpPcrs["sha256"][p]
        BY DEF TpBanks, TpBank
      <4>2. IsPrefix(s, s)
        BY PrefixByIndex
      <4>3. QED
        BY <2>1, <4>1, <4>2
    <3>2. QED
      BY <2>1, <2>2, <3>1 DEF QuoteHolds
  <2>5. QED
    BY <2>2, <2>3, <2>4
<1>7. CASE TpSetLocality
  <2>1. tpLocality' = TRUE /\ UNCHANGED <<tpPcrs, tpLog, tpKeys, tpQuotes, tpDirect>>
    BY <1>7 DEF TpSetLocality
  <2>2. \A q \in tpQuotes' : QuoteHolds(q, tpPcrs', tpKeys', tpLocality')
    BY <2>1 DEF QuoteHolds
  <2>3. QED
    BY <2>1, <2>2
<1>8. QED
  BY <1>1, <1>2, <1>3, <1>4, <1>5, <1>6, <1>7 DEF TpNext

LEMMA LogAndQuotesTell == TpInv => LogAndQuotesExplain
<1> SUFFICES ASSUME TpInv PROVE LogAndQuotesExplain
  OBVIOUS
<1> USE DEF TpInv
<1>1. \A k \in DOMAIN tpLog : tpLog[k].pcr \in TpPcrSet
  <2>1. \A k \in DOMAIN tpLog : tpLog[k] \in TpEvent
    OBVIOUS
  <2>2. QED
    BY <2>1 DEF TpEvent
<1>2. \A p \in TpPcrSet \ tpDirect : tpPcrs["sha256"][p] = Replayed(tpLog, p)
  BY DEF Replayed
<1>3. {tpLog[k].pcr : k \in DOMAIN tpLog} \cap tpDirect = {} => TpLogVerifies
  BY <1>1, <1>2 DEF TpLogVerifies
<1>4. ASSUME NEW q \in tpQuotes, NEW p \in TpPcrSet \ q.reset
      PROVE  /\ IsPrefix(q.pcrs[p], tpPcrs["sha256"][p])
             /\ TpPolicyHolds("sha256", {p}, q.pcrs)
                  <=> Len(tpPcrs["sha256"][p]) = Len(q.pcrs[p])
  <2>1. PICK s \in Seq(TpDigests) : s = q.pcrs[p]
    BY DEF TpQuoted, TpBank
  <2>2. PICK t \in Seq(TpDigests) : t = tpPcrs["sha256"][p]
    BY DEF TpBank, TpBanks
  <2>3. IsPrefix(s, t)
    BY <2>1, <2>2 DEF QuoteHolds
  <2>4. \A i \in 1 .. Len(s) : s[i] = t[i]
    BY <2>3, PrefixByIndex
  <2>5. Len(t) = Len(s) => t = s
    BY <2>4
  <2>6. TpPolicyHolds("sha256", {p}, q.pcrs) <=> t = s
    BY <2>1, <2>2 DEF TpPolicyHolds
  <2>7. QED
    BY <2>1, <2>2, <2>3, <2>5, <2>6
<1>5. ASSUME NEW q \in tpQuotes
      PROVE  /\ "ak" \in tpKeys /\ "ek" \in tpKeys
             /\ ~tpLocality => q.reset \cap LowPcrs = {}
             /\ \A nonce \in TpNonces : TpQuoteVerifies(q, nonce, q.pcrs) <=> nonce = q.nonce
  BY DEF QuoteHolds, TpQuoteVerifies
<1>6. QED
  BY <1>2, <1>3, <1>4, <1>5 DEF LogAndQuotesExplain

-----------------------------------------------------------------------------
(* The firmware as a whole.                                                *)

\* A behaviour of all components is one of each component that guards the firmware.
LEMMA GuardsMove == Spec => ResilientSpec /\ AuditSpec /\ FsSpec /\ TpSpec
<1>1. Init => ResilientInit /\ AuditInit /\ FsInit /\ TpInit
  BY DEF Init
<1>2. [Next]_vars =>
        [ResilientNext]_rsvars /\ [AuditNext]_auvars /\ [FsNext]_fsvars /\ [TpNext]_tpvars
  <2> SUFFICES ASSUME [Next]_vars
               PROVE  [ResilientNext]_rsvars /\ [AuditNext]_auvars /\ [FsNext]_fsvars /\ [TpNext]_tpvars
    OBVIOUS
  <2>1. CASE UNCHANGED favars /\ UNCHANGED ftvars
    BY <2>1 DEF favars, ftvars
  <2>2. CASE FirmwareStep
    BY <2>2 DEF FirmwareStep, favars, ftvars
  <2>3. QED
    BY <2>1, <2>2 DEF Next, vars, SecureBootStep, ProtectionStep
<1>3. QED
  BY <1>1, <1>2, PTL DEF Spec, ResilientSpec, AuditSpec, FsSpec, TpSpec

\* What recovery, audit, signature databases, event log and quotes say of the firmware is
\* explained by what happened to it, whatever the sizes of log and trail, and whatever
\* firmware, traffic, keys, images and digests there are (firmware_resiliency.c,
\* fw_cross_integration.c, secure_boot.c, tpm_attestation.c).
THEOREM FirmwareStaysExplained == Spec => []FirmwareIsExplained
<1>1. ResilientSpec => []RecoveryExplainsFirmware
  BY ResilientInvInit, ResilientStep, RecoveryExplained, PTL DEF ResilientSpec
<1>2. AuditSpec => []AuditAccounts
  BY AuditInvInit, AuditStep, AuditAccounted, PTL DEF AuditSpec
<1>3. FsSpec => []PolicyEnforced
  BY FsInvInit, FsStep, PolicyIsEnforced, PTL DEF FsSpec
<1>4. TpSpec => []LogAndQuotesExplain
  BY TpInvInit, TpStep, LogAndQuotesTell, PTL DEF TpSpec
<1>5. RecoveryExplainsFirmware /\ AuditAccounts /\ PolicyEnforced /\ LogAndQuotesExplain
        => FirmwareIsExplained
  BY DEF FirmwareIsExplained
<1>6. QED
  BY <1>1, <1>2, <1>3, <1>4, <1>5, GuardsMove, PTL
=============================================================================
