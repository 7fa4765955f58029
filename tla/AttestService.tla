--------------------------- MODULE AttestService ---------------------------
(***************************************************************************)
(* Challenge and response attestation of mini-boot-attestation: challenges  *)
(* and verdicts of attest_protocol.c over the quotes of tpm_quote.c, and    *)
(* the device data base of verifier_service.c.                              *)
(*                                                                         *)
(* Answers stay available after they are made, so they arrive late, twice,  *)
(* or for another challenge or device.  The service accepts answers without *)
(* a known AIK; a verifier of its own may hold one.                         *)
(*                                                                         *)
(* Abstracted: digests are values; hashes and signatures are collision free.*)
(* PCR i of the code is PCR i + 1 here.  Policy rules and the firmware      *)
(* whitelist are stored by the code and never read, so they are left out,   *)
(* as are ownership and the time of the last verdict, which decide nothing, *)
(* and the replay of a reply's log, which cannot fail.                      *)
(***************************************************************************)
EXTENDS Integers, Sequences, FiniteSets, SequencesExt

CONSTANTS
  Devices,         \* device ids
  Digests,         \* values a PCR may hold
  NoDigest,        \* the zeros of a PCR that was not selected
  NumPcrs,         \* TPM_MAX_PCRS (24)
  Expectations,    \* the expected PCR values devices are registered with
  Answers,         \* what an attester may quote: [picks, pcrs, firmware, aik, credential]
  AcceptedAik,     \* the AIK of the verifier that knows one
  MaxEntries,      \* ATTEST_DB_MAX_DEVICES (256)
  IdSpan,          \* challenge ids that give different nonces in one second (256)
  MaxChallenges, MaxReplies, MaxJournal, AsMaxNow  \* bounds of the model

ASSUME ServiceAssumption == IdSpan \in Nat \ {0}

ServicePcrs == 1 .. NumPcrs

VARIABLES
  asNow,        \* time(NULL), in seconds
  challenges,   \* the challenges made: challenge_id is the index less one
  replies,      \* the responses made
  db,           \* device_entries[0 .. device_count - 1]
  journal       \* history: what was judged of which device, and resets

asvars == <<asNow, challenges, replies, db, journal>>

\* Nonces depend on the low 24 bits of time ^ (id << 16): within 2^16 seconds,
\* on the second and on the id modulo 256.
Nonce == [second : 0 .. AsMaxNow, id : 0 .. IdSpan - 1]

Composite == [value : [ServicePcrs -> Digests \cup {NoDigest}], count : 0 .. NumPcrs]

Credential == [key : {a.aik : a \in Answers}, active : BOOLEAN, expiry : 0 .. AsMaxNow]

Entry == [device : Devices, expected : Expectations,
          result : {"TRUSTED", "UNTRUSTED", "UNKNOWN"},
          fails : 0 .. MaxJournal, locked : BOOLEAN]

ServiceInit ==
  /\ asNow = 0
  /\ challenges = << >>
  /\ replies = {}
  /\ db = << >>
  /\ journal = << >>

ServiceTick ==
  /\ asNow < AsMaxNow
  /\ asNow' = asNow + 1
  /\ UNCHANGED <<challenges, replies, db, journal>>

-----------------------------------------------------------------------------
\* attest_challenge_create: ids count up and never repeat, nonces may.
ChallengeCreate ==
  /\ Len(challenges) < MaxChallenges
  /\ challenges' = Append(challenges, [second |-> asNow, id |-> Len(challenges) % IdSpan])
  /\ UNCHANGED <<asNow, replies, db, journal>>

\* tpm_pcr_composite_add, which counts a PCR again when it is added again.
CompositeAdd(composite, pcr, digest) ==
  IF composite.count >= NumPcrs THEN composite
  ELSE [value |-> [composite.value EXCEPT ![pcr] = digest], count |-> composite.count + 1]

CompositeOf(picks, pcrs) ==
  FoldLeft(LAMBDA composite, pcr : CompositeAdd(composite, pcr, pcrs[pcr]),
           [value |-> [p \in ServicePcrs |-> NoDigest], count |-> 0], picks)

\* tpm_quote_create and tpm_quote_sign: the composite and the nonce, signed with the AIK.
\* The credential of tpm_aik_certify is active and expires.
QuoteOf(c, answer) ==
  [to         |-> c,
   nonce      |-> challenges[c],
   composite  |-> CompositeOf(answer.picks, answer.pcrs),
   firmware   |-> answer.firmware,
   signer     |-> answer.aik,
   credential |-> answer.credential]

\* attest_response_create.
ResponseCreate(c, answer) ==
  /\ replies' = replies \cup {QuoteOf(c, answer)}
  /\ Cardinality(replies') <= MaxReplies
  /\ UNCHANGED <<asNow, challenges, db, journal>>

\* attest_verify_policy: good values that the composite does not count are not
\* compared, and the n-th good value is compared with PCR n.
VerifyPolicy(composite, good) ==
  \A i \in DOMAIN good : i <= composite.count => composite.value[i] = good[i]

\* tpm_verify_aik_credential, given the credential's own key.
CredentialLive(credential) == credential.active /\ credential.expiry >= asNow

\* tpm_quote_verify.  A verifier without a key compares no byte of the signature,
\* and the composite is compared with itself.
SignatureHolds(reply, aiks) == aiks = {} \/ reply.signer \in aiks

\* attest_verify_freshness.
Fresh(reply, c) == reply.nonce = challenges[c]

\* Mutant: the nonce is not compared.
AttestVerifyAnyNonce(reply, c, good, aiks) ==
  /\ reply.firmware >= 1
  /\ VerifyPolicy(reply.composite, good)

\* attest_verify, for a verifier with at most one AIK and a minimum version of 1.
AttestVerify(reply, c, good, aiks) ==
  /\ Fresh(reply, c)
  /\ aiks # {} /\ reply.credential # { } => \A cred \in reply.credential : CredentialLive(cred)
  /\ SignatureHolds(reply, aiks)
  /\ reply.firmware >= 1
  /\ VerifyPolicy(reply.composite, good)

-----------------------------------------------------------------------------
\* Most functions act on the first entry with the id: its index, or 0.
FindDevice(d) == SelectInSeq(db, LAMBDA e : e.device = d)

Note(d, kind, to, asked) == [device |-> d, kind |-> kind, to |-> to, asked |-> asked]

\* attest_service_register_device does not look whether the id is taken.
RegisterDevice(d, expected) ==
  /\ Len(db) < MaxEntries
  /\ db' = Append(db, [device |-> d, expected |-> expected, result |-> "UNKNOWN",
                       fails |-> 0, locked |-> FALSE])
  /\ UNCHANGED <<asNow, challenges, replies, journal>>

ChangeDevice(d, entry) ==
  /\ FindDevice(d) # 0
  /\ db' = [db EXCEPT ![FindDevice(d)] = entry]
  /\ UNCHANGED <<asNow, challenges, replies>>

\* attest_service_take_ownership unlocks.
TakeOwnership(d) ==
  /\ ChangeDevice(d, [db[FindDevice(d)] EXCEPT !.locked = FALSE])
  /\ UNCHANGED journal

\* attest_service_lock_device.
LockDevice(d, lock) ==
  /\ ChangeDevice(d, [db[FindDevice(d)] EXCEPT !.locked = lock])
  /\ UNCHANGED journal

\* attest_service_update_pcr_expected: the last result stays.
UpdateExpected(d, expected) ==
  /\ ChangeDevice(d, [db[FindDevice(d)] EXCEPT !.expected = expected])
  /\ UNCHANGED journal

\* Mutant: clearing leaves the count of failures.
ClearDeviceKeepsCount(d) ==
  /\ Len(journal) < MaxJournal
  /\ ChangeDevice(d, [db[FindDevice(d)] EXCEPT !.result = "UNKNOWN", !.locked = FALSE])
  /\ journal' = Append(journal, Note(d, "reset", 0, 0))

\* attest_service_clear_device.
ClearDevice(d) ==
  /\ Len(journal) < MaxJournal
  /\ ChangeDevice(d, [db[FindDevice(d)] EXCEPT !.fails = 0, !.result = "UNKNOWN", !.locked = FALSE])
  /\ journal' = Append(journal, Note(d, "reset", 0, 0))

\* attest_service_verify_quote.  A locked device is refused and nothing recorded.
VerifyQuoteOf(d, reply, c) ==
  LET entry   == db[FindDevice(d)]
      trusted == AttestVerify(reply, c, entry.expected, {})
  IN  /\ FindDevice(d) # 0
      /\ ~entry.locked
      /\ Len(journal) < MaxJournal
      /\ ChangeDevice(d, [entry EXCEPT !.result = IF trusted THEN "TRUSTED" ELSE "UNTRUSTED",
                                       !.fails = IF trusted THEN 0 ELSE @ + 1])
      /\ journal' = Append(journal, Note(d, IF trusted THEN "trusted" ELSE "refused", reply.to, c))

\* attest_verify called by a verifier that holds an AIK and expects one value.
VerifyDirectly(reply, c, good) ==
  /\ Len(journal) < MaxJournal
  /\ AttestVerify(reply, c, good, {AcceptedAik})
  /\ journal' = Append(journal, Note(reply.signer, "accepted", reply.to, c))
  /\ UNCHANGED <<asNow, challenges, replies, db>>

ServiceNext ==
  \/ ServiceTick
  \/ ChallengeCreate
  \/ \E c \in DOMAIN challenges, answer \in Answers : ResponseCreate(c, answer)
  \/ \E d \in Devices :
       \/ \E expected \in Expectations : RegisterDevice(d, expected) \/ UpdateExpected(d, expected)
       \/ TakeOwnership(d)
       \/ \E lock \in BOOLEAN : LockDevice(d, lock)
       \/ ClearDevice(d)
  \/ \E reply \in replies, c \in DOMAIN challenges :
       \/ \E d \in Devices : VerifyQuoteOf(d, reply, c)
       \/ \E good \in Expectations : VerifyDirectly(reply, c, good)

ServiceSpec == ServiceInit /\ [][ServiceNext]_asvars

-----------------------------------------------------------------------------
ServiceTypeOK ==
  /\ asNow \in 0 .. AsMaxNow
  /\ \A c \in DOMAIN challenges : challenges[c] \in Nonce
  /\ \A r \in replies : r.composite \in Composite /\ r.credential \subseteq Credential
  /\ db \in Seq(Entry) /\ Len(db) <= MaxEntries

JournalOf(d, kinds) ==
  {n \in DOMAIN journal : journal[n].device = d /\ journal[n].kind \in kinds}

\* Where a device was judged since it was last cleared, and where it was refused since
\* it was last trusted.
Judged(d) ==
  {n \in JournalOf(d, {"trusted", "refused"}) : \A m \in JournalOf(d, {"reset"}) : m < n}
Refused(d) ==
  {n \in Judged(d) : \A m \in Judged(d) : journal[m].kind = "trusted" => m < n}

\* The result and the count of a device's entry are those of what was judged since it
\* was cleared: trusted after an answer to a challenge of the same second whose id is
\* the same modulo 256, and as many failures as came since the last such answer.  An
\* entry that an earlier one with its id hides is never touched.  An answer that a
\* verifier with an AIK accepts is signed with it (attest_service_verify_quote,
\* attest_service_clear_device, attest_verify).
VerdictsAreEarned ==
  /\ \A i \in DOMAIN db :
       LET d == db[i].device
       IN  IF i = FindDevice(d)
           THEN /\ db[i].fails = Cardinality(Refused(d))
                /\ db[i].result = IF Judged(d) = {} THEN "UNKNOWN"
                                  ELSE IF Refused(d) = {} THEN "TRUSTED" ELSE "UNTRUSTED"
           ELSE db[i].result = "UNKNOWN" /\ db[i].fails = 0 /\ ~db[i].locked
  /\ \A j \in DOMAIN journal :
       journal[j].kind \in {"trusted", "accepted"} =>
         /\ challenges[journal[j].to].second = challenges[journal[j].asked].second
         /\ (journal[j].to - journal[j].asked) % IdSpan = 0
         /\ journal[j].kind = "accepted" => journal[j].device = AcceptedAik
=============================================================================
