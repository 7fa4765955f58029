----------------------------- MODULE VerifiedBoot -----------------------------
(***************************************************************************)
(* The verified boot block of mini-firmware: the chain of stage hashes with *)
(* its policy, trusted keys and PCR log (bootblock.c), the FIT image it     *)
(* boots (fit_image.c) and the flash it is stored in (firmware_layout.c).   *)
(*                                                                         *)
(* Abstracted: a hash of a concatenation is the sequence of what was        *)
(* hashed, so two composites are equal when everything in them is; a FIT    *)
(* blob is its magic, whether its structure block fits, and the tokens in   *)
(* it.  Not modelled: SHA-256, CRC-32 and the printing.                     *)
(***************************************************************************)
EXTENDS Integers, Sequences, FiniteSets, FiniteSetsExt, SequencesExt, EventReplay

CONSTANTS
  VbStages,      \* stages of the boot, in their order
  FirstSigned,   \* BOOT_STAGE_BOOTBLK (2): signatures are required from here on
  VbHashes,      \* hashes of stages and measurements
  VbVersions,    \* versions of stages
  MaxStages,     \* BOOTBLOCK_MAX_STAGES (8)
  MaxRules,      \* BOOT_POLICY_MAX_RULES (16)
  Fingerprints,  \* fingerprints of keys
  MaxTrusted,    \* trusted keys (8)
  VbPcrs,        \* PCR indexes below BOOTBLOCK_MAX_PCR (24)
  MaxPcrEvents,  \* events of the PCR log (24)
  FitNames,      \* names of images and of configurations
  FitBlobs,      \* blobs offered: [magic, fits, tokens]
  MaxImages,     \* FIT_MAX_IMAGES (16)
  MaxConfigs,    \* FIT_MAX_CONFIGS (8)
  FlashWord,     \* number of values of a 32-bit offset
  FlashSize,     \* size of the flash
  RegionShapes,  \* regions offered: [offset, size]
  MaxLayoutRegions,    \* MAX_FLASH_REGIONS (16)
  Sectors,       \* sectors of the device
  MaxErase,      \* max_erase_cycles (100000)
  MaxWrites      \* bound on the writes of a sector

VARIABLES
  vbChain,       \* chain[]: [stage, hash, composite, version, status]
  vbRules,       \* policy.rules: [type, stage, min]
  vbFloor,       \* policy.min_rollback_version
  vbState,       \* [valid, good]: chain_valid, last_good_version
  vbHistory,     \* history: [extended, failed, verdict]
  vbKeys,        \* trusted_keys: [fp, revoked]
  vbPcr,         \* [values, events]: the PCR log
  vbRevoked,     \* history: fingerprints a revocation has found
  fitImages,     \* images[]: [name, size, verified]
  fitConfigs,    \* configs[]: [name, default]
  fitBlob,       \* the parsed blob, << >> when there is none
  flRegions,     \* regions of the descriptor
  flErases,      \* erase_count
  flWrites,      \* write_count
  flTotal,       \* total_erase_count
  flLevel        \* history: every erase so far took the least worn sector

chainvars == <<vbChain, vbRules, vbFloor, vbState, vbHistory>>
keyvars == <<vbKeys, vbPcr, vbRevoked>>
fitvars == <<fitImages, fitConfigs, fitBlob>>
flashvars == <<flRegions, flErases, flWrites, flTotal, flLevel>>
vfvars == <<chainvars, keyvars, fitvars, flashvars>>

-----------------------------------------------------------------------------
\* The verification chain.

\* vb_init_policy: one rule for each stage from the boot block on.
SignatureRules ==
  LET signed == {s \in VbStages : s >= FirstSigned}
      order  == SetToSortSeq(signed, <)
  IN  [i \in DOMAIN order |-> [type |-> "signature", stage |-> order[i], min |-> 0]]

\* vb_init_chain
ChainInit ==
  /\ vbChain = << >> /\ vbRules = SignatureRules /\ vbFloor = 0
  /\ vbState = [valid |-> TRUE, good |-> 0]
  /\ vbHistory = [extended |-> << >>, failed |-> {}, verdict |-> "none"]

\* What a change of the chain or of the policy leaves of the last verdict.
NoVerdict == vbHistory' = [vbHistory EXCEPT !.verdict = "none"]

\* vb_add_policy_rule, with a rule the caller filled in.
AddPolicyRule(rule) ==
  /\ Len(vbRules) < MaxRules
  /\ vbRules' = Append(vbRules, rule)
  /\ NoVerdict
  /\ UNCHANGED <<vbChain, vbFloor, vbState>>

\* min_rollback_version is the caller's to write.
SetFloor(v) ==
  /\ v # vbFloor
  /\ vbFloor' = v
  /\ NoVerdict
  /\ UNCHANGED <<vbChain, vbRules, vbState>>

\* The composite below entry i: the root of trust below the first.
Below(i) == IF i = 1 THEN << >> ELSE vbChain[i - 1].composite

\* vb_extend_chain: the stages may come in any order, and chain_valid stays as it is.
ExtendChain(stage, hash, version) ==
  /\ Len(vbChain) < MaxStages
  /\ vbChain' = Append(vbChain, [stage |-> stage, hash |-> hash,
                                 composite |-> Append(Below(Len(vbChain) + 1), hash),
                                 version |-> version, status |-> "ok"])
  /\ vbHistory' = [vbHistory EXCEPT !.verdict = "none",
                                    !.extended = Append(@, hash)]
  /\ UNCHANGED <<vbRules, vbFloor, vbState>>

\* The memory of an entry changes between its measurement and the verification.
HashChanges(i, hash) ==
  /\ hash # vbChain[i].hash
  /\ vbChain' = [vbChain EXCEPT ![i].hash = hash]
  /\ NoVerdict
  /\ UNCHANGED <<vbRules, vbFloor, vbState>>

\* A rule about the entry's stage that the entry breaks.
Breaks(entry, rule) ==
  /\ rule.stage = entry.stage
  /\ \/ rule.type = "rollback" /\ entry.version < rule.min
     \/ rule.type = "signature" /\ entry.status # "ok"

\* Mutant: a required signature is not looked at.
EntryVerdictUnsigned(i) ==
  LET entry == vbChain[i]
  IN  IF entry.composite # Append(Below(i), entry.hash) THEN "hash"
      ELSE IF \/ entry.version < vbFloor
              \/ \E r \in Range(vbRules) : r.type = "rollback" /\ Breaks(entry, r)
           THEN "rollback"
      ELSE "ok"

\* vb_verify_chain: the status the walk gives to entry i.  A required signature
\* looks at the status the walk before left.
EntryVerdict(i) ==
  LET entry  == vbChain[i]
      broken == {r \in DOMAIN vbRules : Breaks(entry, vbRules[r])}
  IN  IF entry.composite # Append(Below(i), entry.hash) THEN "hash"
      ELSE IF entry.version < vbFloor THEN "rollback"
      ELSE IF broken # {} THEN vbRules[Min(broken)].type
      ELSE "ok"

\* vb_verify_chain stops at the first entry that fails; those before it are
\* marked good, those behind it are not looked at.
VerifyChain ==
  LET bad   == {i \in DOMAIN vbChain : EntryVerdict(i) # "ok"}
      stop  == IF bad = {} THEN Len(vbChain) ELSE Min(bad)
      valid == bad = {}
  IN  /\ vbChain' = [i \in DOMAIN vbChain |->
                       IF i <= stop THEN [vbChain[i] EXCEPT !.status = EntryVerdict(i)]
                                    ELSE vbChain[i]]
      /\ vbState' = [valid |-> valid,
                     good  |-> IF ~valid THEN vbState.good
                               ELSE IF vbChain = << >> THEN 0 ELSE Last(vbChain).version]
      /\ vbHistory' = [vbHistory EXCEPT !.verdict = IF valid THEN "ok" ELSE "failed",
                                        !.failed = IF valid THEN @ ELSE @ \union {stop}]
      /\ UNCHANGED <<vbRules, vbFloor>>

ChainNext ==
  \/ \E s \in VbStages, h \in VbHashes, v \in VbVersions : ExtendChain(s, h, v)
  \/ \E s \in VbStages, v \in VbVersions :
       AddPolicyRule([type |-> "rollback", stage |-> s, min |-> v])
  \/ \E v \in VbVersions : SetFloor(v)
  \/ \E i \in DOMAIN vbChain, h \in VbHashes : HashChanges(i, h)
  \/ VerifyChain

-----------------------------------------------------------------------------
\* Trusted keys and the PCR log.

KeysInit ==
  /\ vbKeys = << >> /\ vbRevoked = {}
  /\ vbPcr = [values |-> [p \in VbPcrs |-> << >>], events |-> << >>]

\* vb_register_key: the same fingerprint may be registered again.
RegisterKey(fp) ==
  /\ Len(vbKeys) < MaxTrusted
  /\ vbKeys' = Append(vbKeys, [fp |-> fp, revoked |-> FALSE])
  /\ UNCHANGED <<vbPcr, vbRevoked>>

\* vb_revoke_key: the first entry with the fingerprint, revoked already or not.
RevokeKey(fp) ==
  LET found == {i \in DOMAIN vbKeys : vbKeys[i].fp = fp}
  IN  /\ found # {}
      /\ vbKeys' = [vbKeys EXCEPT ![Min(found)].revoked = TRUE]
      /\ vbRevoked' = vbRevoked \union {fp}
      /\ UNCHANGED vbPcr

\* vb_verify_signature, for a signature that fits the key or not.
SignatureVerdict(key, fits) ==
  IF key.revoked THEN "revoked" ELSE IF fits THEN "ok" ELSE "signature"

\* vb_extend_pcr: refused as a whole when the log is full.
ExtendPcr(p, digest) ==
  /\ Len(vbPcr.events) < MaxPcrEvents
  /\ vbPcr' = [values |-> [vbPcr.values EXCEPT ![p] = Append(@, digest)],
               events |-> Append(vbPcr.events, [pcr |-> p, digest |-> digest])]
  /\ UNCHANGED <<vbKeys, vbRevoked>>

KeysNext ==
  \/ \E fp \in Fingerprints : RegisterKey(fp) \/ RevokeKey(fp)
  \/ \E p \in VbPcrs, h \in VbHashes : ExtendPcr(p, h)

-----------------------------------------------------------------------------
\* FIT images.

FitInit == fitImages = << >> /\ fitConfigs = << >> /\ fitBlob = << >>

\* fdt_walk_structure, one token at a time.  The nesting may still be open when
\* the walk ends, and the block may end without an FDT_END token.
FdtStep(walk, token) ==
  IF walk.out # "on" \/ token \in {"prop", "nop"} THEN walk
  ELSE CASE token = "begin" -> [walk EXCEPT !.depth = @ + 1]
         [] token = "end_node" /\ walk.depth > 0 -> [walk EXCEPT !.depth = @ - 1]
         [] token = "end"   -> [walk EXCEPT !.out = "accepted"]
         [] OTHER           -> [walk EXCEPT !.out = "refused"]

FdtWalk(tokens) ==
  /\ tokens # << >>
  /\ FoldLeft(FdtStep, [depth |-> 0, out |-> "on"], tokens).out # "refused"

\* fit_parse clears the image before it looks at the blob, and the walk fills in
\* neither images nor configurations.
FitParse(blob) ==
  /\ fitImages' = << >> /\ fitConfigs' = << >>
  /\ fitBlob' = IF blob.magic /\ blob.fits /\ FdtWalk(blob.tokens)
                THEN <<blob>> ELSE << >>

\* fit_add_image
FitAddImage(name, size) ==
  /\ Len(fitImages) < MaxImages
  /\ fitImages' = Append(fitImages, [name |-> name, size |-> size, verified |-> FALSE])
  /\ UNCHANGED <<fitConfigs, fitBlob>>

\* fit_add_config
FitAddConfig(name, default) ==
  /\ Len(fitConfigs) < MaxConfigs
  /\ fitConfigs' = Append(fitConfigs, [name |-> name, default |-> default])
  /\ UNCHANGED <<fitImages, fitBlob>>

\* fit_verify_hashes marks whatever has data, without looking at it.
FitVerifyHashes ==
  /\ fitImages' = [i \in DOMAIN fitImages |->
                     [fitImages[i] EXCEPT !.verified = @ \/ fitImages[i].size > 0]]
  /\ UNCHANGED <<fitConfigs, fitBlob>>

\* fit_find_image, fit_find_config: the first with the name, 0 for none.
FitFind(list, name) ==
  LET found == {i \in DOMAIN list : list[i].name = name}
  IN  IF found = {} THEN 0 ELSE Min(found)

\* Mutant: the walk does not stop at the first flagged one.
FitDefaultLast ==
  LET flagged == {i \in DOMAIN fitConfigs : fitConfigs[i].default}
  IN  IF flagged # {} THEN Max(flagged) ELSE IF fitConfigs = << >> THEN 0 ELSE 1

\* fit_default_config: the first flagged one, else the first.
FitDefault ==
  LET flagged == {i \in DOMAIN fitConfigs : fitConfigs[i].default}
  IN  IF flagged # {} THEN Min(flagged) ELSE IF fitConfigs = << >> THEN 0 ELSE 1

FitNext ==
  \/ \E b \in FitBlobs : FitParse(b)
  \/ \E n \in FitNames : \/ \E s \in {0, 1} : FitAddImage(n, s)
                         \/ \E d \in BOOLEAN : FitAddConfig(n, d)
  \/ FitVerifyHashes

-----------------------------------------------------------------------------
\* Flash.

FlashInit ==
  /\ flRegions = << >> /\ flTotal = 0 /\ flLevel = TRUE
  /\ flErases = [s \in Sectors |-> 0] /\ flWrites = [s \in Sectors |-> 0]

\* flash_desc_init, of a descriptor in use or not.
LayoutRestart == flRegions' = << >> /\ UNCHANGED <<flErases, flWrites, flTotal, flLevel>>

\* The end of a region, in the 32 bits of an offset.
RegionEnd(r) == (r.offset + r.size) % FlashWord

\* flash_desc_add_region: overlaps are accepted here.
LayoutAdd(r) ==
  /\ Len(flRegions) < MaxLayoutRegions /\ RegionEnd(r) <= FlashSize
  /\ flRegions' = Append(flRegions, r)
  /\ UNCHANGED <<flErases, flWrites, flTotal, flLevel>>

\* flash_desc_validate
RegionsOverlap(a, b) == a.offset < RegionEnd(b) /\ b.offset < RegionEnd(a)
DescriptorValid ==
  \A i \in DOMAIN flRegions :
    /\ RegionEnd(flRegions[i]) <= FlashSize
    /\ \A j \in DOMAIN flRegions : j > i => ~RegionsOverlap(flRegions[i], flRegions[j])

\* Mutant: the comparison the wrong way round.
MostWorn ==
  CHOOSE s \in Sectors : \A t \in Sectors :
    flErases[s] > flErases[t] \/ (flErases[s] = flErases[t] /\ s <= t)

\* flash_find_least_worn_sector: the lowest numbered of the least erased.
LeastWorn ==
  CHOOSE s \in Sectors : \A t \in Sectors :
    flErases[s] < flErases[t] \/ (flErases[s] = flErases[t] /\ s <= t)

\* flash_erase_sector
EraseSector(s) ==
  /\ flErases[s] < MaxErase
  /\ flErases' = [flErases EXCEPT ![s] = @ + 1]
  /\ flTotal' = flTotal + 1
  /\ flWrites' = [flWrites EXCEPT ![s] = 0]
  /\ flLevel' = (flLevel /\ s = LeastWorn)
  /\ UNCHANGED flRegions

\* flash_write counts the write before flash_program_page may refuse its length.
FlashWrite(s) ==
  /\ flWrites[s] < MaxWrites
  /\ flWrites' = [flWrites EXCEPT ![s] = @ + 1]
  /\ UNCHANGED <<flRegions, flErases, flTotal, flLevel>>

\* flash_should_relocate: near the endurance, or above twice the average, which
\* is rounded down.
ShouldRelocate(s) ==
  LET average == SumFunction(flErases) \div Cardinality(Sectors)
  IN  flErases[s] > (MaxErase * 80) \div 100 \/ flErases[s] > 2 * average

FlashNext ==
  \/ LayoutRestart
  \/ \E r \in RegionShapes : LayoutAdd(r)
  \/ \E s \in Sectors : EraseSector(s) \/ FlashWrite(s)

VerifiedBootInit == ChainInit /\ KeysInit /\ FitInit /\ FlashInit
-----------------------------------------------------------------------------
\* Properties.

Statuses == {"ok", "hash", "rollback", "signature"}
VerifiedBootTypeOK ==
  /\ \A e \in Range(vbChain) : /\ e.stage \in VbStages /\ e.status \in Statuses
                               /\ e.hash \in VbHashes /\ e.version \in VbVersions
  /\ Len(vbChain) <= MaxStages /\ Len(vbRules) <= MaxRules
  /\ vbFloor \in VbVersions /\ vbState \in [valid : BOOLEAN, good : VbVersions]
  /\ \A k \in Range(vbKeys) : k \in [fp : Fingerprints, revoked : BOOLEAN]
  /\ Len(vbKeys) <= MaxTrusted /\ Len(vbPcr.events) <= MaxPcrEvents
  /\ Len(fitImages) <= MaxImages /\ Len(fitConfigs) <= MaxConfigs
  /\ \A s \in Sectors : flErases[s] \in 0..MaxErase /\ flWrites[s] \in 0..MaxWrites
  /\ flTotal = SumFunction(flErases)

\* A chain verifies exactly when no hash in it has changed since it was extended,
\* no version is below the floor or below a rule for its stage, and no entry of
\* a stage that needs a signature has ever failed: such a failure stays for
\* good, whatever the policy becomes (vb_verify_chain).
ChainVerdictIsExplained ==
  LET allowed(e) ==
        /\ e.version >= vbFloor
        /\ \A r \in Range(vbRules) :
             r.type = "rollback" /\ r.stage = e.stage => e.version >= r.min
      sound ==
        /\ \A i \in DOMAIN vbChain : /\ vbChain[i].hash = vbHistory.extended[i]
                                     /\ allowed(vbChain[i])
      stuck == {i \in vbHistory.failed : vbChain[i].stage >= FirstSigned}
  IN  /\ vbHistory.verdict = "ok" =>
           /\ vbState.valid /\ sound /\ stuck = {}
           /\ vbState.good = IF vbChain = << >> THEN 0 ELSE Last(vbChain).version
      /\ vbHistory.verdict = "failed" => ~vbState.valid /\ (~sound \/ stuck # {})

\* A fingerprint is trusted no longer once it is revoked, unless it was
\* registered twice: revocation finds the first entry only, so the second stays
\* trusted for good.  And every PCR is what the log replays.
KeysAndPcrsAccounted ==
  /\ \A fp \in Fingerprints :
       LET mine    == {i \in DOMAIN vbKeys : vbKeys[i].fp = fp}
           trusted == {i \in mine : SignatureVerdict(vbKeys[i], TRUE) = "ok"}
       IN  Cardinality(trusted) = Cardinality(mine) - (IF fp \in vbRevoked THEN 1 ELSE 0)
  /\ \A p \in VbPcrs : vbPcr.values[p] = Replay(vbPcr.events, p)

\* A parsed blob has its tokens well nested up to its end, and nothing unknown
\* among them.
ParsedIsNested ==
  fitBlob # << >> =>
    LET tokens == fitBlob[1].tokens
        ends   == {i \in DOMAIN tokens : tokens[i] = "end"}
        walked == SubSeq(tokens, 1, IF ends = {} THEN Len(tokens) ELSE Min(ends))
        count(i, token) == Cardinality({j \in 1..i : walked[j] = token})
    IN  /\ \A i \in DOMAIN walked : /\ count(i, "end_node") <= count(i, "begin")
                                    /\ walked[i] \notin {"badprop", "junk"}
        /\ fitBlob[1].magic /\ fitBlob[1].fits

\* What a name or the default selects in a FIT never changes as more is added,
\* but for the default that was no flagged configuration.
SelectionsSettle ==
  [][fitConfigs' # << >> =>
       /\ \A n \in FitNames : /\ FitFind(fitConfigs, n) \in {0, FitFind(fitConfigs, n)'}
                              /\ FitFind(fitImages, n) \in {0, FitFind(fitImages, n)'}
       /\ FitDefault # 0 /\ fitConfigs[FitDefault].default => FitDefault' = FitDefault]_fitvars

\* Sectors erased in the order of wear differ by one erase at most, and once all
\* were erased none is relocated before it nears its endurance (before, the
\* average rounded down to zero asks to relocate the first one).  The regions of
\* a valid descriptor that do not wrap are disjoint.
FlashStaysLevel ==
  /\ flLevel =>
       /\ \A s, t \in Sectors : flErases[s] <= flErases[t] + 1
       /\ (\A s \in Sectors : flErases[s] > 0) =>
            \A s \in Sectors : ShouldRelocate(s) => flErases[s] > (MaxErase * 80) \div 100
  /\ DescriptorValid =>
       \A i, j \in DOMAIN flRegions :
         LET a == flRegions[i]  b == flRegions[j]
         IN  i # j /\ a.offset + a.size <= FlashSize /\ b.offset + b.size <= FlashSize =>
               (a.offset .. (a.offset + a.size - 1))
                 \intersect (b.offset .. (b.offset + b.size - 1)) = {}
=============================================================================
