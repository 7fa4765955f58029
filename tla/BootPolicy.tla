----------------------------- MODULE BootPolicy -----------------------------
(***************************************************************************)
(* The boot policy engine of mini-secure-boot/src/boot_policy.c: rules     *)
(* with priorities, edited at any time, and the first-match evaluation of  *)
(* an image; and the policy templates the module offers.                   *)
(*                                                                         *)
(* Abstracted: names, descriptions and the texts of the output.  Signers   *)
(* and hashes are values of small sets; a context carries what the         *)
(* conditions read.  Rules of equal priority come in any order, as qsort   *)
(* is not stable.                                                          *)
(***************************************************************************)
EXTENDS Integers, Sequences, FiniteSets, Functions

CONSTANTS
  Rules,      \* the rules callers may add
  Contexts,   \* the images that are judged
  MaxRules    \* BP_MAX_RULES (64)

ASSUME BootPolicyAssumption ==
  /\ MaxRules \in Nat
  /\ \A rule \in Rules : "priority" \in DOMAIN rule /\ rule.priority \in Int

VARIABLES rules, default_allow    \* rules[0 .. rule_count - 1]

bpvars == <<rules, default_allow>>

-----------------------------------------------------------------------------
(* Evaluation.                                                             *)

InRange(range, v) ==
  /\ IF range.min_inclusive THEN v >= range.min ELSE v > range.min
  /\ IF range.max_inclusive THEN v <= range.max ELSE v < range.max

\* evaluate_condition, before negation (VENDOR_ID, DEVICE_CLASS and PCR_MATCH
\* compare for equality like SIGNER).
Holds(cond, ctx) ==
  CASE cond.type = "SIGNER"        -> cond.value = ctx.signer_name
    [] cond.type = "HASH"          -> cond.value = ctx.image_hash
    [] cond.type = "VERSION_GE"    -> ctx.image_version >= cond.value
    [] cond.type = "VERSION_RANGE" -> InRange(cond.value, ctx.image_version)
    [] cond.type = "TIME_BEFORE"   -> ctx.current_time < cond.value
    [] cond.type = "TIME_AFTER"    -> ctx.current_time > cond.value
    [] cond.type = "SECURE_BOOT_ENABLED" -> ctx.secure_boot_enabled
    [] cond.type = "RECOVERY_MODE" -> ctx.recovery_mode
    [] cond.type = "SETUP_MODE"    -> ctx.setup_mode

EvaluateCondition(cond, ctx) == Holds(cond, ctx) # cond.negated

\* evaluate_rule: does the rule match, and what does a match say?
Matches(rule, ctx) ==
  LET true == {i \in DOMAIN rule.conditions :
                 EvaluateCondition(rule.conditions[i], ctx)}
  IN  CASE rule.operator = "ALWAYS_TRUE"  -> TRUE
        [] rule.operator = "ALWAYS_FALSE" -> FALSE
        [] rule.operator = "ALL_OF"       -> true = DOMAIN rule.conditions
        [] rule.operator = "ANY_OF"       -> true # {}
        [] rule.operator = "N_OF_M"       -> Cardinality(true) >= rule.n_required
        [] rule.operator = "NOT"          -> rule.conditions # << >> /\ 1 \notin true

Verdict(rule) ==
  IF rule.operator \in {"NOT", "ALWAYS_FALSE"} THEN "DENY" ELSE "ALLOW"

\* bp_policy_evaluate: the first enabled rule that matches decides.
Evaluate(ctx) ==
  LET hits == {i \in DOMAIN rules : rules[i].enabled /\ Matches(rules[i], ctx)}
  IN  IF hits = {} THEN IF default_allow THEN "ALLOW" ELSE "DENY"
      ELSE Verdict(rules[CHOOSE i \in hits : \A j \in hits : i <= j])

-----------------------------------------------------------------------------
(* Templates.                                                              *)

Cond(type, value) == [type |-> type, value |-> value, negated |-> FALSE]

Rule(id, priority, operator, conditions) ==
  [rule_id |-> id, priority |-> priority, operator |-> operator,
   conditions |-> conditions, n_required |-> 0, enabled |-> TRUE]

\* bp_create_standard_sb_policy; the hash conditions stay zeroed.
StandardRules ==
  << Rule(1, 100, "ANY_OF", <<Cond("SIGNER", "OEM-SecureBoot-Signer"),
                              Cond("HASH", "zero")>>),
     Rule(2, 90, "NOT", <<Cond("HASH", "zero")>>),
     Rule(3, 80, "NOT", <<Cond("VERSION_GE", 1)>>) >>

\* bp_create_recovery_policy.
RecoveryRules ==
  << Rule(1, 100, "ANY_OF", <<Cond("SIGNER", "OEM-Recovery-Signer"),
                              Cond("SETUP_MODE", TRUE)>>),
     Rule(2, 50, "ALL_OF", <<Cond("RECOVERY_MODE", TRUE),
                             Cond("SIGNER", "OEM-SecureBoot-Signer")>>) >>

\* bp_create_enterprise_policy.
EnterpriseRules(signer, min_version) ==
  << Rule(1, 100, "ALL_OF", <<Cond("SIGNER", signer),
                              Cond("VERSION_GE", min_version)>>),
     Rule(2, 50, "ALL_OF", <<Cond("SIGNER", "OEM-SecureBoot-Signer"),
                             Cond("SECURE_BOOT_ENABLED", TRUE)>>) >>

\* bp_policy_init, or one of the templates.
BootPolicyInit ==
  \/ rules = << >> /\ default_allow \in BOOLEAN
  \/ rules = StandardRules /\ default_allow = FALSE
  \/ rules = RecoveryRules /\ default_allow = TRUE
  \/ rules = EnterpriseRules("Enterprise", 2) /\ default_allow = FALSE

-----------------------------------------------------------------------------
(* Editing.                                                                *)

\* Mutant: the new rule stays at the end.
SortedAtEnd(table) == {table}

\* The tables sort_rules_by_priority may leave: every order of the rules that
\* is descending in priority.
Sorted(table) ==
  {t \in {[i \in DOMAIN table |-> table[p[i]]] : p \in Bijection(DOMAIN table, DOMAIN table)} :
     \A i, j \in DOMAIN t : i < j => t[i].priority >= t[j].priority}

\* bp_policy_add_rule.
AddRule(rule) ==
  /\ Len(rules) < MaxRules
  /\ \A i \in DOMAIN rules : rules[i].rule_id # rule.rule_id
  /\ rules' \in Sorted(Append(rules, rule))
  /\ UNCHANGED default_allow

\* bp_policy_remove_rule.
RemoveRule(id) ==
  \E i \in DOMAIN rules :
    /\ rules[i].rule_id = id
    /\ rules' = [j \in 1 .. Len(rules) - 1 |-> IF j < i THEN rules[j] ELSE rules[j + 1]]
    /\ UNCHANGED default_allow

\* bp_policy_enable_rule.
EnableRule(id, enable) ==
  \E i \in DOMAIN rules :
    /\ rules[i].rule_id = id
    /\ rules' = [rules EXCEPT ![i].enabled = enable]
    /\ UNCHANGED default_allow

RuleIDs == {rules[i].rule_id : i \in DOMAIN rules}

BootPolicyNext ==
  \/ \E rule \in Rules : AddRule(rule)
  \/ \E id \in RuleIDs : RemoveRule(id) \/ \E enable \in BOOLEAN : EnableRule(id, enable)

BootPolicySpec == BootPolicyInit /\ [][BootPolicyNext]_bpvars

-----------------------------------------------------------------------------
(* Properties.                                                             *)

BootPolicyTypeOK ==
  /\ Len(rules) <= MaxRules
  /\ default_allow \in BOOLEAN
  /\ Cardinality(RuleIDs) = Len(rules)

\* The rule table is edited in any order, yet an image is always judged by an
\* enabled rule of the highest priority among those that match it ("Higher =
\* evaluated first"), and by the default only if none matches.
PriorityDecides ==
  \A ctx \in Contexts :
    LET hits == {i \in DOMAIN rules : rules[i].enabled /\ Matches(rules[i], ctx)}
        top  == {i \in hits : \A j \in hits : rules[j].priority <= rules[i].priority}
    IN  Evaluate(ctx) \in IF hits = {} THEN {IF default_allow THEN "ALLOW" ELSE "DENY"}
                          ELSE {Verdict(rules[i]) : i \in top}
=============================================================================
