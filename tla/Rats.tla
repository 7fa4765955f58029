-------------------------------- MODULE Rats --------------------------------
(***************************************************************************)
(* The RATS roles of mini-boot-attestation/src/rats.c: an attester makes    *)
(* evidence from a quote, a verifier appraises it against its reference     *)
(* values and policy, and a relying party is told what an appraisal means.  *)
(*                                                                         *)
(* Evidence stays available, so it is appraised late and again; references  *)
(* change in between, and the relying party may be told of an appraisal     *)
(* that was made before they did.                                           *)
(*                                                                         *)
(* Abstracted: digests are values, claims are pairs of key and value; the   *)
(* signature, trust tier and chain flags of the policy are never read.      *)
(***************************************************************************)
EXTENDS Integers, Sequences, FiniteSets, SequencesExt

CONSTANTS
  Quotes,        \* what is quoted: [pcrs, count, firmware]
  References,    \* the reference values a verifier may be given
  ExtraClaims,   \* claims an attester may add, each a pair of key and value
  MaxClaims,     \* RATS_MAX_CLAIMS (16)
  MaxAge,        \* maximum_age_ms: 300 seconds
  RtMaxNow, MaxEvidence   \* bounds of the model

VARIABLES
  rtNow,         \* time(NULL)
  rtVerifier,    \* RATSVerifier: [refs, since, fresh, rules]
  evidence,      \* the evidence made: [pcrs, count, claims, time]
  outdated,      \* history: evidence from before the second in which the references last changed
  passed,        \* history: the last appraisals that passed, at most one of a piece of evidence
  relying        \* what the relying party was told last, and of which evidence

rtvars == <<rtNow, rtVerifier, evidence, outdated, passed, relying>>

\* rats_verifier_init: no references, no rules, freshness not yet required.
RatsInit ==
  /\ rtNow = 0
  /\ rtVerifier = [refs |-> << >>, since |-> 0, fresh |-> FALSE, rules |-> {}]
  /\ evidence = << >>
  /\ outdated = {}
  /\ passed = {}
  /\ relying = [verified |-> FALSE, of |-> 0]

RatsTick ==
  /\ rtNow < RtMaxNow
  /\ rtNow' = rtNow + 1
  /\ UNCHANGED <<rtVerifier, evidence, outdated, passed, relying>>

\* The claims of the quote itself; its magic and type are always the same.
QuoteClaims(quote) ==
  <<<<"firmware_version", quote.firmware>>, <<"magic", "ok">>, <<"type", "TPM2_Quote">>>>

\* rats_generate_evidence: the time is that of the evidence, not of the quote, and
\* claims past the capacity are dropped.
GenerateEvidence(quote, extra) ==
  LET claims == QuoteClaims(quote) \o extra
  IN  /\ Len(evidence) < MaxEvidence
      /\ evidence' = Append(evidence,
           [pcrs   |-> quote.pcrs,
            count  |-> quote.count,
            claims |-> ToSet(IF Len(claims) > MaxClaims THEN SubSeq(claims, 1, MaxClaims) ELSE claims),
            time   |-> rtNow])
      /\ UNCHANGED <<rtNow, rtVerifier, outdated, passed, relying>>

\* Mutant: the references change and evidence made before stays acceptable.
SetReferenceKeepsTime(refs) ==
  /\ rtVerifier' = [rtVerifier EXCEPT !.refs = refs, !.fresh = TRUE]
  /\ outdated' = {i \in DOMAIN evidence : evidence[i].time < rtNow}
  /\ UNCHANGED <<rtNow, evidence, passed, relying>>

\* rats_verifier_set_reference.
SetReference(refs) ==
  /\ rtVerifier' = [rtVerifier EXCEPT !.refs = refs, !.since = rtNow, !.fresh = TRUE]
  /\ outdated' = {i \in DOMAIN evidence : evidence[i].time < rtNow}
  /\ UNCHANGED <<rtNow, evidence, passed, relying>>

\* The caller edits appraisal_policy.claim_rules.
SetRules(rules) ==
  /\ rtVerifier' = [rtVerifier EXCEPT !.rules = rules]
  /\ UNCHANGED <<rtNow, evidence, outdated, passed, relying>>

\* rats_verify_reference_values compares no more PCRs than the evidence has.
ReferencesMatch(e, refs) ==
  \A i \in DOMAIN refs : i <= e.count => e.pcrs[i] = refs[i]

\* rats_check_policy_compliance: require_pcr_match asks for one PCR at least; a rule holds
\* if any claim has its key and value.
Complies(e) == e.count # 0 /\ rtVerifier.rules \subseteq e.claims

\* rats_appraise_evidence.
Appraise(e) ==
  /\ ReferencesMatch(e, rtVerifier.refs)
  /\ Complies(e)
  /\ e.time >= rtVerifier.since
  /\ rtVerifier.fresh => rtNow - e.time <= MaxAge

AppraiseEvidence(i) ==
  /\ Appraise(evidence[i])
  /\ passed' = {p \in passed : p.of # i} \cup
       {[of |-> i, at |-> rtNow, refs |-> rtVerifier.refs, fresh |-> rtVerifier.fresh]}
  /\ UNCHANGED <<rtNow, rtVerifier, evidence, outdated, relying>>

\* rats_relying_party_interface, told of an appraisal that passed or of one that did not.
TellRelyingParty(i, pass) ==
  /\ pass => \E p \in passed : p.of = i
  /\ ~pass => ~Appraise(evidence[i])
  /\ relying' = [verified |-> pass, of |-> i]
  /\ UNCHANGED <<rtNow, rtVerifier, evidence, outdated, passed>>

RatsNext ==
  \/ RatsTick
  \/ \E quote \in Quotes, extra \in ExtraClaims : GenerateEvidence(quote, extra)
  \/ \E refs \in References : SetReference(refs)
  \/ \E rule \in {<<"firmware_version", quote.firmware>> : quote \in Quotes} : SetRules({rule})
  \/ \E i \in DOMAIN evidence :
       \/ AppraiseEvidence(i)
       \/ \E pass \in BOOLEAN : TellRelyingParty(i, pass)

RatsSpec == RatsInit /\ [][RatsNext]_rtvars

-----------------------------------------------------------------------------
RatsTypeOK ==
  /\ rtNow \in 0 .. RtMaxNow
  /\ rtVerifier.since <= rtNow
  /\ \A i \in DOMAIN evidence : evidence[i].time <= rtNow /\ Cardinality(evidence[i].claims) <= MaxClaims
  /\ relying.of \in 0 .. Len(evidence)
  /\ outdated \subseteq DOMAIN evidence

\* Evidence that a relying party takes for verified passed an appraisal after it was made;
\* once references were set it was then no older than the limit, and no evidence made
\* before the second in which references changed passes under the new ones.  The
\* references it was appraised against agree with it (rats_appraise_evidence,
\* rats_verifier_set_reference).
VerifiedWasFresh ==
  /\ \A p \in passed :
       /\ p.fresh => p.at - evidence[p.of].time <= MaxAge
       /\ ReferencesMatch(evidence[p.of], p.refs)
  /\ \A i \in outdated : ~Appraise(evidence[i])
  /\ relying.verified => \E p \in passed : p.of = relying.of
=============================================================================
