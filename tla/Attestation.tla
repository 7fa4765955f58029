---------------------------- MODULE Attestation -----------------------------
(***************************************************************************)
(* Remote attestation (mini-measured-boot/src/attestation.c) over the       *)
(* measured platform of MeasuredBoot.                                       *)
(*                                                                         *)
(* The verifier issues challenges; the prover answers the latest one with a *)
(* quote of its PCR bank; answers travel outside the program, so one may    *)
(* arrive any time later, after other challenges, measurements or platform  *)
(* resets, and more than once.  The set quotes holds all that can arrive.   *)
(*                                                                         *)
(* Abstracted: quotes arrive as they were signed, by a loaded key whose     *)
(* public part comes with the response, so the composite hash and the HMAC  *)
(* always check; the index array of a challenge is a set; challenge_id,     *)
(* timestamp and qualifying data are constant or unused.                    *)
(***************************************************************************)
EXTENDS MeasuredBoot, FiniteSets

CONSTANTS
  IndexSets,       \* the sets of PCRs a verifier asks for
  None,            \* stands for an undefined golden value
  GoldenPCRs,      \* the PCRs golden values may be defined for
  MaxChallenges,   \* bound of the model: challenges issued
  MaxBoots,        \* bound of the model: platform resets
  MaxQuotes        \* bound of the model: quotes under way

ASSUME AttestationAssumption ==
  /\ IndexSets \subseteq SUBSET PCRs
  /\ GoldenPCRs \subseteq PCRs
  /\ {MaxChallenges, MaxBoots, MaxQuotes} \subseteq Nat

VARIABLES
  challenge,    \* last_challenge; expected_* always copy it
  quotes,       \* the responses that can still arrive
  golden,       \* golden_pcrs, None where golden_defined is false
  round,        \* number of challenges issued: challenge_sent iff positive
  boot          \* number of platform resets (history, read by no action)

avars == <<challenge, quotes, golden, round, boot>>
vars  == <<mvars, avars>>

\* attest_generate_challenge hashes the same nonce seed on every call.
GenerateNonce(r) == "sha256(nonce_seed)"

Init ==
  /\ MeasuredBootInit
  /\ challenge = [nonce |-> "zero", pcr_indices |-> {}]
  /\ quotes = {}
  /\ golden = [p \in GoldenPCRs |-> None]
  /\ round = 0
  /\ boot = 0

-----------------------------------------------------------------------------
\* attest_generate_challenge.
GenerateChallenge(indices) ==
  /\ round < MaxChallenges
  /\ round' = round + 1
  /\ challenge' = [nonce |-> GenerateNonce(round'), pcr_indices |-> indices]
  /\ UNCHANGED <<mvars, quotes, golden, boot>>

\* The PCR values attest_create_quote reads.
QuotedValues(indices) == [p \in indices |-> pcr[p]]

\* attest_create_quote.  The fields made_in and made_during are history: the
\* round and the boot of the quote, which the verifier never sees.
CreateQuote ==
  LET quote == [nonce       |-> challenge.nonce,
                pcr_indices |-> challenge.pcr_indices,
                pcr_values  |-> QuotedValues(challenge.pcr_indices),
                made_in     |-> round,
                made_during |-> boot]
  IN  /\ round > 0
      /\ Cardinality(quotes \cup {quote}) <= MaxQuotes
      /\ quotes' = quotes \cup {quote}
      /\ UNCHANGED <<mvars, challenge, golden, round, boot>>

\* attest_set_golden_pcr, with a value read from a platform known to be good.
SetGoldenPcr(p) ==
  /\ golden' = [golden EXCEPT ![p] = pcr[p]]
  /\ UNCHANGED <<mvars, challenge, quotes, round, boot>>

PlatformMeasures ==
  /\ \/ \E stage \in Stages, digest \in Digests : Measure(stage, digest)
     \/ \E p \in PCRs : PcrReset(p)
  /\ UNCHANGED avars

PlatformReboots ==
  /\ boot < MaxBoots
  /\ boot' = boot + 1
  /\ PlatformReset
  /\ UNCHANGED <<challenge, quotes, golden, round>>

Next ==
  \/ \E indices \in IndexSets : GenerateChallenge(indices)
  \/ CreateQuote
  \/ \E p \in GoldenPCRs : SetGoldenPcr(p)
  \/ PlatformMeasures
  \/ PlatformReboots

Spec == Init /\ [][Next]_vars

-----------------------------------------------------------------------------
(* Verification, which changes no state.                                   *)

\* Mutant: the indices of the answer are not compared with those asked for.
VerifyQuoteAnyIndices(q) == q.nonce = challenge.nonce

\* attest_verify_quote.
VerifyQuote(q) ==
  /\ q.nonce = challenge.nonce
  /\ q.pcr_indices = challenge.pcr_indices

\* Mutant: a mismatch with a golden value is passed over.
VerifyIntegrityNoGolden(q) == round > 0 /\ VerifyQuote(q)

\* attest_verify_integrity.
VerifyIntegrity(q) ==
  /\ round > 0
  /\ VerifyQuote(q)
  /\ \A p \in q.pcr_indices \cap GoldenPCRs :
       golden[p] # None => q.pcr_values[p] = golden[p]

Accepted == {q \in quotes : VerifyIntegrity(q)}

-----------------------------------------------------------------------------
(* Properties.                                                             *)

\* A response that is accepted, however late it comes, vouches for every PCR
\* the verifier now asks for and has a golden value for.
AcceptedCoversChallenge ==
  \A q \in Accepted : \A p \in challenge.pcr_indices \cap GoldenPCRs :
    golden[p] # None => p \in DOMAIN q.pcr_values /\ q.pcr_values[p] = golden[p]

\* End to end: if a response of the running boot is accepted, then this boot
\* really went through the golden measurements of each static PCR asked for
\* (and may have gone further since).
AcceptedMeansMeasured ==
  \A q \in Accepted : q.made_during = boot =>
    \A p \in q.pcr_indices \cap GoldenPCRs \cap StaticPCRs :
      golden[p] # None => Begins(golden[p], pcr[p])

\* An accepted answer vouches for what was asked and for what was measured.
AcceptedVouches == AcceptedCoversChallenge /\ AcceptedMeansMeasured

\* Freshness as attest_check_properties states it: "Forall old_responses R,
\* R.nonce != current_challenge.nonce", so that a late answer to an earlier
\* challenge is told from an answer to this one.
OldResponsesAreStale ==
  \A q \in quotes : q.made_in < round => q.nonce # challenge.nonce
=============================================================================
