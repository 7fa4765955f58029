---------------------------- MODULE BootEvidence ----------------------------
(***************************************************************************)
(* The evidence an attester of mini-boot-attestation keeps: an event log of *)
(* eventlog.c with its replay, and the Merkle tree over a PCR bank of       *)
(* merkle_pcr.c.  The two kinds of log take and refuse entries alike; only  *)
(* the one of SHA-256 digests is replayed and hashed.                       *)
(*                                                                         *)
(* A measurement extends its PCR and is then logged, by two calls of which  *)
(* only the second may fail: a log is full after MaxLog entries, or closed. *)
(*                                                                         *)
(* Abstracted: an extended PCR is the sequence of what it was extended      *)
(* with; node_hash is collision free.  tpm_hash_update is not: it xors the  *)
(* hashes of the parts, so a hash over parts is the set of those that occur *)
(* an odd number of times.                                                  *)
(***************************************************************************)
EXTENDS Integers, Sequences, FiniteSets, SequencesExt, EventReplay

CONSTANTS
  EvPcrs, EvDigests, EvTypes,   \* PCRs, digests and types of measurements
  MaxLog,                       \* TCG_EVENT_LOG_MAX_ENTRIES (64)
  MaxMeasurements,              \* bound of the model
  TreePcrs,                     \* PCRs of the bank a tree is built over: 1 .. n
  TreeDigests

\* MERKLE_MAX_LEAVES is 32.
ASSUME EvidenceAssumption == MaxLog \in Nat /\ TreePcrs \in 0 .. 32

Event == [pcr : EvPcrs, type : EvTypes, digest : EvDigests]

VARIABLES
  pcrBank,    \* what each PCR was extended with
  evLog,      \* TCGEventLog or TCGEventLogSHA256: [entries, closed]
  evStart,    \* history: the extends of each PCR before the log was started
  treeBank    \* the bank's selected PCRs and their values

evvars == <<pcrBank, evLog, evStart, treeBank>>

EvidenceInit ==
  /\ pcrBank = [p \in EvPcrs |-> << >>]
  /\ evLog = [entries |-> << >>, closed |-> FALSE]
  /\ evStart = [p \in EvPcrs |-> 0]
  /\ treeBank = << >>

-----------------------------------------------------------------------------
\* Mutant: a full log drops its oldest entry.
LoggedRing(log, event) ==
  IF log.closed THEN log
  ELSE IF Len(log.entries) >= MaxLog
       THEN [log EXCEPT !.entries = Append(Tail(@), event)]
       ELSE [log EXCEPT !.entries = Append(@, event)]

\* tcg_eventlog_add and tcg_eventlog_sha256_add, refused without a trace.
Logged(log, event) ==
  IF log.closed \/ Len(log.entries) >= MaxLog THEN log
  ELSE [log EXCEPT !.entries = Append(@, event)]

\* A measurement: tcg_pcr_extend (_with_data, _multi), then a log entry.
EvidenceMeasure(event) ==
  /\ Len(pcrBank[event.pcr]) < MaxMeasurements
  /\ pcrBank' = [pcrBank EXCEPT ![event.pcr] = Append(@, event.digest)]
  /\ evLog' = Logged(evLog, event)
  /\ UNCHANGED <<evStart, treeBank>>

\* tcg_eventlog_finalize, tcg_eventlog_sha256_seal.
LogClose ==
  /\ ~evLog.closed
  /\ evLog' = [evLog EXCEPT !.closed = TRUE]
  /\ UNCHANGED <<pcrBank, evStart, treeBank>>

\* tcg_eventlog_sha256_init, tcg_eventlog_init: the PCRs stay.
LogInit ==
  /\ evLog' = [entries |-> << >>, closed |-> FALSE]
  /\ evStart' = [p \in EvPcrs |-> Len(pcrBank[p])]
  /\ UNCHANGED <<pcrBank, treeBank>>

\* tcg_eventlog_replay_sha256 on one PCR.  It finalises what it replayed once more,
\* and so does its caller the value it expects (tests/test_suite.c:326).
LogReplay(entries, pcr) == Replay(entries, pcr)

\* tcg_eventlog_integrity_check: the hash over the fields of all entries.
Parts(entries) ==
  LET occurrences(field, v) == {i \in DOMAIN entries : entries[i][field] = v}
  IN  {part \in {"pcr"} \X EvPcrs \cup {"type"} \X EvTypes \cup {"digest"} \X EvDigests :
         Cardinality(occurrences(part[1], part[2])) % 2 = 1}

-----------------------------------------------------------------------------
\* The tree over the bank.  Node 0 is the root, the leaves are the last nodes, the
\* first leaf last; missing leaves are zero.
Leaf(digest) == <<"leaf", digest>>
Node(left, right) == <<"node", left, right>>

\* next_power_of_two.
NextPowerOfTwo(n) == CHOOSE p \in {1, 2, 4, 8, 16, 32} : n <= p /\ 2 * n > p

\* merkle_tree_build.
TreeNodes(leaves) ==
  LET padded == NextPowerOfTwo(Len(leaves))
      total  == 2 * padded - 1
      node[j \in 0 .. total - 1] ==
        IF j < total - padded THEN Node(node[2 * j + 1], node[2 * j + 2])
        ELSE IF total - j <= Len(leaves) THEN Leaf(leaves[total - j]) ELSE Leaf("zero")
  IN  node

\* merkle_generate_proof: the siblings on the way from leaf i to the root.
ProofOf(leaves, i) ==
  LET nodes == TreeNodes(leaves)
      way[pos \in DOMAIN nodes] ==
        IF pos = 0 THEN << >>
        ELSE <<[is_left |-> pos % 2 = 0,
                hash    |-> nodes[IF pos % 2 = 1 THEN pos + 1 ELSE pos - 1]]>>
             \o way[(pos - 1) \div 2]
  IN  [leaf     |-> nodes[Cardinality(DOMAIN nodes) - i],
       root     |-> nodes[0],
       siblings |-> way[Cardinality(DOMAIN nodes) - i]]

\* Mutant: every sibling is taken for the right one.
ClimbRight(hash, s) == Node(hash, s.hash)

\* One round of the loop of merkle_verify_proof, from a node to its parent.
Climb(hash, s) == IF s.is_left THEN Node(s.hash, hash) ELSE Node(hash, s.hash)

\* The loop.
RootOf(leaf, siblings) ==
  LET hash[n \in 0 .. Len(siblings)] ==
        IF n = 0 THEN leaf ELSE Climb(hash[n - 1], siblings[n])
  IN  hash[Len(siblings)]

\* merkle_verify_proof.
VerifyProof(proof) == RootOf(proof.leaf, proof.siblings) = proof.root

\* tpm_pcr_composite_add to the bank a tree is built over, PCRs in ascending order.
TreeBankAdd(digest) ==
  /\ Len(treeBank) < TreePcrs
  /\ treeBank' = Append(treeBank, digest)
  /\ UNCHANGED <<pcrBank, evLog, evStart>>

\* tpm_pcr_composite_init, for the bank of another tree.
TreeBankInit == treeBank' = << >> /\ UNCHANGED <<pcrBank, evLog, evStart>>

LogNext ==
  \/ \E event \in Event : EvidenceMeasure(event)
  \/ LogClose
  \/ LogInit

TreeNext == TreeBankInit \/ \E digest \in TreeDigests : TreeBankAdd(digest)

EvidenceSpec == EvidenceInit /\ [][LogNext \/ TreeNext]_evvars

-----------------------------------------------------------------------------
EvidenceTypeOK ==
  /\ \A p \in EvPcrs : pcrBank[p] \in Seq(EvDigests)
  /\ evLog \in [entries : Seq(Event), closed : BOOLEAN] /\ Len(evLog.entries) <= MaxLog
  /\ treeBank \in Seq(TreeDigests)

\* The log, replayed, gives for every PCR what it was extended with since the log was
\* started, without gaps, up to the last entry the log took; and the integrity hash tells
\* a log from every other that differs from it in one entry
\* (tcg_eventlog_replay_sha256, tcg_eventlog_integrity_check).
LogsAccountForTheBank ==
  LET entries == evLog.entries
  IN  /\ \A p \in EvPcrs :
           LET since == SubSeq(pcrBank[p], evStart[p] + 1, Len(pcrBank[p]))
           IN  /\ IsPrefix(LogReplay(entries, p), since)
               /\ ~evLog.closed /\ Len(entries) < MaxLog => LogReplay(entries, p) = since
      /\ \A i \in DOMAIN entries :
           \A event \in Event \ {entries[i]} :
             Parts([entries EXCEPT ![i] = event]) # Parts(entries)

\* Every leaf has a proof that verifies, no proof verifies for another value of its leaf,
\* and the root of a bank changes when one of its leaves does (merkle_generate_proof,
\* merkle_verify_proof, merkle_root_from_pcr_bank).
ProofsBindLeaves ==
  \A i \in DOMAIN treeBank :
    LET proof == ProofOf(treeBank, i)
    IN  /\ proof.leaf = Leaf(treeBank[i])
        /\ VerifyProof(proof)
        /\ \A digest \in TreeDigests \ {treeBank[i]} :
             /\ ~VerifyProof([proof EXCEPT !.leaf = Leaf(digest)])
             /\ TreeNodes([treeBank EXCEPT ![i] = digest])[0] # proof.root
=============================================================================
