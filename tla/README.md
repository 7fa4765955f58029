# mini-firmware-boot: a verification project in TLA+

The repository holds nine independent packages that simulate the firmware of a
platform, from the reset vector to remote attestation. Each is a C library of
objects that a caller passes to functions. No package has threads, and no
package calls another, so what makes the code hard is not parallelism: it is
that callers may invoke the operations of an object **in any order, any number
of times and across resets**, that several of them keep redundant state (a
flag and a list, a log and a register bank, an index and a table), and that
some results travel outside the program before they come back (capsules,
quotes, challenges). The models therefore offer the operations that change the
state they model in every state of it, with the arguments their callers can give,
and ask what survives any sequence of them. Where an argument or an operation is
held back, section 2 or the component's note in `PROJECT.json` says so.

## 1. Inventory

Status: **M** modelled, **P** partly, **-** not yet or not at all (the reason is
in `PROJECT.json`, the plan in section 7).

| Package / component | State | Operations | What is hard | Correct when | |
|---|---|---|---|---|---|
| *mini-firmware* A/B update (`firmware_update.c`) | slot table, active slot, staged capsule, history | validate, apply, boot success / failure, recovery | a capsule is validated in one boot and written in another; failovers in between; retry limit; history at its limit | no dead slot is booted while a live one exists, no rollback without failover, repeated failure escalates | M |
| verified boot block, flash layout, FIT (`bootblock.c`, `firmware_layout.c`, `fit_image.c`) | keys, hash chain, policy rules, PCR log; descriptor regions, wear of sectors; images and configurations | register, revoke, extend, verify; add region, write, erase; parse, add, choose | verdicts stick to entries while policy and keys change; a blob that is cut off or badly nested | a valid chain is one whose every entry meets the rules, wear stays level, a default does not change when configurations are added | P |
| PSCI (`psci_fw.c`) | CPU power states, entry points | register, on, off, suspend, system off / reset | calls on CPUs in any state, two registrations of one affinity | the states of the CPUs follow the calls, the lowest entry answers | M |
| memory training, SPI NOR, MMIO (`meminit.c`, `spi_nor.c`, `mmio.c`) | channels, timings; write enable latch; regions | add, parse SPD, train; enable, erase, program; map, read, write | channels that come after training or are trained alone; a region whose 32-bit end wraps; overlapping regions | the usable memory is that of channels that were trained, one program per enable, an address keeps its answer | P |
| reset vector, SMBIOS, ACPI (`reset_vector.c`, `smbios_fw.c`, `acpi_fw.c`) | CPU mode; tables and checksums | switch mode, add, build, find | a table built in place after its checksum was taken | listed tables have valid checksums, the XSDT counts them | P |
| *mini-measured-boot* PCR bank and event log (`pcr_bank.c`, `event_log.c`) | PCR values, events | extend, reset, add, replay | two structures written by one call, one of which may be full | replay of the log explains the bank | M |
| SRTM / DRTM flows (`crtm_drtm.c`) | flow flags | one measure function per stage | stages in any order and number | as above | M |
| attestation (`attestation.c`) | challenge, golden values | challenge, quote, verify | answers late, repeated, from another boot; golden values change | an accepted answer means that this boot went through the golden measurements | M |
| TPM NV, localities and sessions, key hierarchy (`nv_storage.c`, `tpm_locality.c`, `tpm_keys.c`) | spaces, counters, locks, sessions, keys | define, write, increment, lock, undefine, authorise | locks against writes, handles that are reused, lockout | locked data is frozen, counters only grow, sealed data stays readable | M |
| *mini-secure-boot* Secure Boot variables (`uefi_sb.c`) | setup mode, enforcement, six databases | enroll, remove, delete owner, verify | ownership taken, lost and taken again | enforcement has an owner; forbidden images do not boot | M |
| trust chain (`trust_chain.c`) | components, verdicts, authorisation | add, verify one, verify all | bitmap, status and authorisation are set in different places | authorised only when all is verified | P |
| key store (`key_mgmt.c`) | key entries, lock, clock | generate, import, life cycle, rotate | ids that are not unique; first-match look-up; rounding | retired keys stay retired, lineage is sound | P |
| boot policy (`boot_policy.c`) | rule table | add, remove, enable, evaluate | table re-sorted by an unstable sort | priorities decide | M |
| capsule update (`firmware_update.c`) | staging area, mode, versions | set image, validate, process, commit, roll back | operations do not look at what came before | the floor holds | M |
| TPM emulator, measured boot (`tpm.c`, `measured_boot.c`) | PCRs, NV, sessions; log | TPM commands; measure, validate | self test writes to PCRs, a late launch resets them | log explains PCRs, locked data is frozen | M |
| signatures (`signature_verify.c`) | none | RSA, SHA-256 | arithmetic | out of TLC's reach | - |
| *mini-boot-process* phases, boot manager (`boot_phases.c`, `boot_policy.c`) | phase, hand-off blocks; options, order, BootNext, variables | transition; add, remove, select | skipped phases, dangling numbers, one-shot override | the state says whether cache as RAM is on; a number in the order means the option it was loaded with | M |
| cache as RAM (`cache_as_ram.c`) | cache lines shared by all instances | enable, read, write, tear down | two instances over one memory | data survives until torn down | P |
| CPU, memory (`cpu_init.c`, `memory_init.c`) | MSR list, microcode, paging; modules, channels, memory map | initialise, load, page; add modules, build the map | a list at its limit, arithmetic on the size of memory | the list is what was asked for, up to its limit; the ranges of the map are apart | P |
| devices, firmware volumes (`device_enum.c`, `firmware_volume.c`) | bus table, BARs, the file's two counters; catalogue | enumerate, assign, scan | two buses share counters that go round; padding and damaged headers | windows are apart until a counter goes round, the catalogue lists the files before the first damage | P |
| *mini-bootloader* sectors, secure load (`boot_chain.c`, `boot_secure.c`) | disk image, PCRs, log | read, write, find a partition; measure, verify | numbers at the end of the disk; a log that fills up | what was written is read back, the log explains the PCRs | P |
| memory map, modules (`boot_memory.c`, `grub_modules.c`) | regions, page bitmap; modules | add, merge, sanitise, allocate, free; load, sort | overlapping regions, double free, dependency cycles | regions disjoint and as reported, a page has one owner, dependencies come first | M |
| configuration (`boot_config.c`) | menu entries, global settings, default | parse, add, set | an entry refused at the limit; keys cut when stored | what is inside an entry stays there unless it was refused | P |
| formats (`boot_elf.c`, `boot_compress.c`, `linux_boot.c`, `stage1.c`, `stage2.c`, `filesys_boot.c`) | parse contexts | parse | byte layout | - | - |
| *mini-bios-uefi* legacy BIOS and hardware (`legacy_bios.c`, `bios_hardware.c`) | CMOS, keyboard controller, PCI bus, interrupt vectors | POST, clock, commands, scans | BCD and binary, checksums taken before or after a write, scans over scans | what is reported is what is there | P |
| boot services, protocols, image authentication (`uefi_boot.c`, `uefi_protocols.c`, `uefi_image_auth.c`) | protocol database, medium, graphics mode, hash context | install, locate, collect; read, write; update, finish | the handle is made before there is room; 64-bit ends that wrap; messages cut into updates | one entry for each handle and protocol, a message is hashed in the blocks it needs | P |
| GPT, PE/COFF, ACPI (`gpt.c`, `pe_coff.c`, `uefi_acpi.c`) | parse results | read, find, load, relocate, parse | one result structure used again for another input | an image is whole or refused, the result is of the last input | P |
| *mini-hardware-desc* HOB list, device tree (`hob.c`, `device_tree.c`) | list of blocks; nodes, phandle map | add, finalise; parse, look up, translate | a recursive parser that keeps the last node; lists that are full | what is handed over is what was added; the tree is that of the blob | P |
| ACPI, AML, SMBIOS (`acpi_tables.c`, `acpi_aml.c`, `smbios.c`) | byte buffers | build, parse | encoders and parsers | - | - |
| *mini-boot-attestation* service and roles (`attest_protocol.c`, `verifier_service.c`, `rats.c`) | challenges, devices, verdicts; evidence, references, results | challenge, respond, verify, register, clear, lock; appraise | replies that are late, repeated or crossed; references that change under way | a verdict was earned by an answer to the challenge; accepted evidence was fresh | P |
| identities and evidence (`tpm_quote.c`, `aik_identity.c`, `eventlog.c`, `merkle_pcr.c`) | composites, logs, trees | quote, certify, log, seal, replay, prove | two representations of one history | they agree; a proof binds a leaf to its place | P |
| DICE (`dice.c`) | certificates | derive | derivation of bytes | - | - |
| *mini-firmware-security* resiliency, audit (`firmware_resiliency.c`, `fw_cross_integration.c`) | active and golden firmware, audit trail | detect, recover, update; inspect, export | verification that itself recovers; a trail at its limit | the active firmware is explained by updates and recoveries; counts and entries agree | P |
| protections (`spi_protection.c`, `smm_attacks.c`, `dma_attacks.c`, `bmc_me.c`) | ranges, lock, flash; SMM mode, SMRR; IOMMU domains; engines' modes | set, lock, write; invoke, return; map, translate; lock, exit | configuration before and after the lock, nested handlers | what was sealed stays, translation stays in its domain | P |
| secure boot, TPM (`secure_boot.c`, `tpm_attestation.c`) | keys, data bases, mode flags; two banks, log, keys | enrol, delete, transition, verify; extend, log, reset, quote | four flags written by six functions; a reset the log does not see | verdicts follow the mode, the log explains one bank | P |

Nothing in one package calls another; inside a package, `crtm_drtm.c` writes the
PCR bank and the log, `attestation.c` reads the bank, and the phases of
`boot_phases.c` call CPU, memory and cache initialisation. All other
components of a package meet only in its tests and demos.

## 2. Modules

| Module | Models | Kind |
|---|---|---|
| `FailoverLadder` | the promise of the A/B manager: live slots, booting slot, override | abstract specification |
| `FwUpdate` | `mini-firmware/src/firmware_update.c` | component; refines `FailoverLadder` |
| `MeasuredBoot` | `pcr_bank.c`, `event_log.c`, `crtm_drtm.c` of mini-measured-boot | component |
| `Attestation` | `attestation.c`; EXTENDS `MeasuredBoot` | composition of verifier, wire and measured platform |
| `KeyStore`, `UefiSb`, `TrustChain`, `CapsuleUpdate`, `BootPolicy` | one file of mini-secure-boot each | components, each with its own `...Spec` |
| `NVVault` | the promise of NV storage: a dictionary of spaces with locks | abstract specification |
| `NVStorage`, `TpmAuth`, `TpmKeys` | `nv_storage.c`, `tpm_locality.c`, `tpm_keys.c` of mini-measured-boot | components; `NVStorage` refines `NVVault` |
| `Tpm2`, `SrtmLog` | `tpm.c`, `measured_boot.c` of mini-secure-boot | components; `Tpm2` refines `NVVault` |
| `BootManager`, `CacheAsRam`, `BootPhases` | `boot_policy.c`, `cache_as_ram.c`, `boot_phases.c` of mini-boot-process | components; `BootPhases` EXTENDS `CacheAsRam` |
| `E820Map`, `PageAllocator` | the two halves of mini-bootloader's `boot_memory.c` | components, algorithms checked against definitions |
| `GrubModules` | `grub_modules.c` | component, as above |
| `VerifiedBoot`, `FirmwareServices` | the boot block, flash layout and FIT; the services of mini-firmware behind them | components of several parts |
| `BootResources` | CPU, memory, devices and volumes of mini-boot-process | components of several parts |
| `UefiServices` | protocols, block I/O, hashing, hardware and legacy BIOS of mini-bios-uefi | components of several parts |
| `BootMedia` | what is read from disk and tables: `gpt.c`, `pe_coff.c`, `uefi_acpi.c`, `boot_chain.c`, `boot_secure.c`, `boot_config.c` | components of several parts |
| `HardwareDesc` | HOB list and device tree of mini-hardware-desc | components of several parts |
| `AttestService`, `BootEvidence`, `Rats` | the service, its evidence and the RATS roles of mini-boot-attestation | components |
| `Protections`, `FirmwareAudit`, `FirmwareTrust` | mini-firmware-security | components of several parts |
| `MCAttestation`, `MCSecureBoot`, `MCTpm`, `MCBoot` | constants and compositions for TLC | model checking |
| `EventReplay` | the replay of an event log for one PCR, which six modules check PCRs against | shared operator |
| `FwUpdateProofs`, `AttestationProofs`, `KeyStoreProofs`, `SecureBootProofs`, `TpmProofs`, `BootProofs`, `AppraisalProofs` | theorems and proofs about the modules above | proofs |
| `ProofLemmas` | naturals, loops, sequences and their prefixes, dictionaries, the replay of event logs | proofs |

One action is one call of a public function, with everything the call changes;
a function that refuses a call changes nothing and has no action. Array
entries are numbered from 1, where the C code starts at 0. Names are those of
the source. Definitions called "Mutant: ..." in their comment are plausible
mistakes in the code; no specification uses them, they exist to show that a
property would notice (section 6).

**FwUpdate.** `FwUpdateManager` field by field, except digests, names and
offsets. `ValidateCapsule` is `fw_update_validate_capsule`; a signature that
verifies and a payload that fits are inputs of the action. `ApplyCapsule` does
not validate again, as in the code, and finds the slot that loses status
ACTIVE as the code's scan does, first match in table order.
`MarkBootFailedRetry` and `MarkBootFailedSwitch` are the two outcomes of
`fw_update_mark_boot_failed`.

**MeasuredBoot, Attestation.** The value of a PCR is the sequence of digests
extended into it, which is what SHA-256 extension is when hashes do not
collide. A measurement extends one or two PCRs first and then tries to log;
a full log refuses. `Replayed` (and `Replay` of `EventReplay`, for the logs of
the other packages) is the loop of the validation, one event after the other. Quotes travel: `quotes` is the set of those that can still
arrive, and since nothing leaves the set an answer can arrive twice, late, or
after a reset. `made_in`, `made_during` and `boot` are history variables.

**KeyStore.** All entries, with ids as a name and the versions appended to it by
rotation (`"name-v2"`). Every operation acts on the first entry with the id.
The clock `now` moves between any two calls.

**UefiSb.** Each database is a sequence; enrolling in setup mode does nothing,
as in the code. `InDbx` looks for an entry of type NONE, because the code does
(section 5).

**TrustChain.** Whether a component matches its expected hash is chosen at each
call, since the expected hashes are arguments of the call.

**CapsuleUpdate.** Images are those a vendor would issue: they support an update
from themselves (`lowest_supported_version <= version`); the code does not
check this of an image, and the property about the floor needs it.
`validated` and `trusted` are history: whether what is staged, and everything
processed so far, was answered OK by `fw_capsule_validate`.

**BootPolicy.** `Sorted(table)` is the set of all descending orders of the
table (its rearrangements by a bijection of the places), because `qsort` is not
stable. Template policies are initial states.

**NVStorage, NVVault.** Indices are a sequence that closes up, looked up by
handle, first match. `NVVault` knows neither slots nor attributes: it is a
function from handles to spaces, each with a kind that says how its content
may evolve, and two ways to be frozen. `View` maps an index to its space. A
counter's view ignores the attribute WRITELOCKED and the global lock, because
`nv_counter_increment` does.

**TpmAuth.** Sessions are addressed by slot, since the handle is the slot plus a
constant. `StartAuthSession` leaves the policy digest of the slot alone, as
the code does. The three policy commands that hash into the digest are one
action.

**TpmKeys.** Handles are the code's numbers (offset from 0x81000000). Keys carry
`born`, a history number that tells a key from a later one with its handle;
blobs remember under which handle and key they were made, as their holder
would. `Unseal` is a function of the state and answers data, "garbage" (the
code returns success with wrong bytes) or "refused".

**Tpm2.** All PCRs are allocated by `tpm_init`; `PcrAllocate` does it again.
`Writable` is the lock of `tpm_nv_write`. The NV view of a counter is never
locked, since `tpm_nv_increment` heeds no lock, and its kind is ORDINARY,
since `tpm_nv_write` sets counters too.

**SrtmLog.** As in `MeasuredBoot` a PCR is its sequence of digests, but here
every PCR may be measured by the caller's choice, and the late launch resets
PCRs without an event. `drtm_supported` is a public field that nothing in the
repository sets; setting it is the one external action.

**BootManager.** The slots of the option table, the order, BootNext and the
store of variables. A removed option's number is given to the next one added;
`meant` remembers which option each number of the order meant when the order
was loaded, and `born` tells options apart. Names of variables are cut when they are
stored (`StoredName`) and not when they are looked up, as in the code.
BootNext is given the number of a slot or 0: the code uses it as an index unchecked.
Of an option's data only its attributes and whether it has a path are kept. No
hotkey is ever pressed.

**CacheAsRam, BootPhases.** The lines and the global switch belong to the file,
the enabled flag to each instance. `expect` and `undisturbed` are history: what
a caller wrote last, and whether anything that is announced to destroy it came in between.
Mode, dirty bits and hit counts decide nothing and are left out, as is the
content of hand-off blocks. `boot_transition` runs the function of the phase
with its own car, and the phase functions are also public: `PhaseFunction`.

**E820Map.** `SortRegions` allows every order `qsort` may leave equal bases in.
`declared` is what was reported, `sanitized` and `merged` whether the map has
been through each pass since. Where two reports overlap the one with the lower
base wins, whatever its type, because the code only moves the later base up:
the property says that no address is lost and that each keeps a type
somebody reported for it.

**PageAllocator.** Addresses are page numbers. `FirstFit` is the scan of
`bootmem_alloc_pages` with its jumps; the action uses `Lowest(Fits)`, and
`FirstFitIsLowest` says that the two agree. Callers free only what they were given, once and
whole, and ask for aligned blocks no larger than the heap; the code checks none of
this. A heap at address 0 gives its first block away as if it had failed: the
pages are marked and belong to nobody (`Given`).

**GrubModules.** A module is its place and its dependencies, numbers of places
that may be filled later, or never. `Sweep` is one round of
`grub_topological_sort`, `Build` its body for one module, `LoadOrder` all its
rounds; both loops are recursive functions.

**VerifiedBoot.** Chain, keys, FIT and flash share nothing, nor do the parts of
the modules below. A hash over a concatenation is the sequence of what was
hashed. `VerifyChain` goes through the entries as `vb_verify_chain` does: the
status of an entry stays what an earlier pass made it. `FitParse` walks tokens,
and `Structure` says what the nesting of a blob means. A write is counted even when
the page programming behind it is refused.

**FirmwareServices.** PSCI calls act on the first CPU with an affinity. A
training of all channels sums those there are; a channel that comes later is only
in the total. `memctrl_train_channel` is public too: a channel trained on its own
(`TrainChannel`) works without the controller hearing of it. So `memory_trained`,
"All channels trained?" in `meminit.h:166`, stays true when a channel is added and
false when every channel was trained one by one; `MemoryAccounted` says what does
hold, that the usable memory is that of the first so many channels and that
these work. `MmioFind` is the scan with its 32-bit end. An ACPI table is the sum of
its bytes, all a checksum sees.

**BootResources.** The MSR list drops silently what is beyond its limit. The two
counters of `device_enum.c` belong to the file, so two buses share them, and
wrap at 32 and 16 bits. Memory is counted in pages: `mem_build_map` adds up, and
from 9427 MB on its runtime range runs into the ACPI range, which
`MapIsDisjoint` states exactly. An application processor may turn paging on
without long mode, as in the code.

**UefiServices.** The protocol database is a list with holes that garbage
collection closes. A handle is made before there is room for its entry. Dates
are the RTC's registers, BCD or not; `cmos_rtc_to_timestamp` counts 122 days
too many (`bios_hardware.c:128`), and `ClockTellsDates` says that it is
so for all dates alike, so that differences of timestamps are right. SHA-256 is
the number of blocks compressed.

**BootMedia.** Files are the fields a loader reads. Every parser writes a result
that may still hold an earlier one. `pecoff_relocate` adds the distance to the
new base each time it is called; a menu entry refused at the limit leaves the
lines inside it to be read as settings of the whole menu, and the property says
it of refused entries only. `bootcfg_set_global` compares the key it is given with
keys as they were stored, cut to 63 bytes (`StoredKey`): "Update existing key if
present" (`boot_config.c:285`) never finds a longer one, each call adds an entry
until all 32 are taken, and a reader finds none under the full name and the oldest
under the cut one. The property counts one value for each key no longer one
is cut to. The last sector number of 32 bits is not offered.

**HardwareDesc.** The parser is a machine over tokens with the code's stack of
calls; `Attached` and `Closing` are the code's `node ? node : parent`. A list of
HOBs that was filled to its last place can never be finalised. Path look-up is
greedy: among twins the first is searched only.

**AttestService, BootEvidence, Rats.** Replies, evidence and appraisals stay
available once made, so that they arrive late, again or crossed. A challenge's
nonce depends on its number and second; `tpm_hash_update` xors the hashes of the
parts, so a hash over parts is the set of parts that occur an odd number of
times. `Climb` is one level of the verification of a Merkle proof and `RootOf` the
climb from the leaf. The journal of verdicts is history; `VerdictsAreEarned` reads
a device's entry off the positions of its verdicts in it.

**Protections.** Each part offers configuration, lock and access in any order;
`spiSealed` is the flash as it was when its configuration was locked. SMM keeps a
stack of the handlers that run; `in_smm` is what the last invocation or return
left. A domain begins at DMA address 0 (`iova_base` is written into its entries and
read by nobody) and at any byte of memory. `PhysPage` is the mask of
`iommu_pte_phys_addr`: with a buffer that does not begin with a page, address 0
leads to the beginning of the page it begins on, before the buffer, and the end of
the buffer may have no address at all. The property therefore speaks of pages: each
one reached holds a byte of the buffer. What the ME answers of its risks decides
no action and is left out. Callers give the SMRR a block whose size is
a power of two and whose base is a multiple of it, as the hardware requires
(`ProtectionsAssumption`); the code checks nothing.

**FirmwareAudit, FirmwareTrust.** A verification may itself recover the active
firmware. A packet that meets a full trail is counted and not recorded. A PCR
that was extended or reset outside the log is in `tpDirect`. No function writes
the version of the golden firmware after `resilient_fw_init` made it 0, so the
check for rollbacks passes for the minimum 0 only. The verification of a data
flow (`fw_audit_data_flow_verify`) changes nothing and is left out: it looks for an
entry whose source is the sender, and packets are recorded as coming from the
network.

**MCSecureBoot, MCTpm, MCBoot.** The components of each share nothing, so the product of their
state spaces would only multiply states. A variable `focus`, fixed
initially, names the component, or the part of one, that a behaviour exercises:
the state space is the sum. Each component's properties mention its variables only, so nothing is
lost. Properties of several components are checked under one name
(`ServicesAccounted`, `EvidenceIsSound`, ...), the conjunction of one property
for each. Most theorems are about the components' own specifications; those about
`EvidenceIsSound` and `FirmwareIsExplained` are about the composition, of which a
behaviour is one of each component (`PartsMove`, `GuardsMove`).

Where a structure ends in a state that no call leaves, because a model's bound
or a limit of the code is reached, the caller starts over with a new structure:
`ShaRestart`, `LayoutRestart`, `MeasureRestart`, `TreeBankInit`, `SpiPowerOn`
and others are the code's initialisation functions called again.

## 3. Runs

| Run | Question | Properties |
|---|---|---|
| `fw_update` | do the slot manager's tables stay consistent through any mix of staging, applying, failing and recovery? | `TypeOK`, `ActiveMeansBooted`, `HistoryExplainsSlots`, `VersionDropsOnlyOnFailover`, `FollowsLadder` (refinement of `FailoverLadder`), `EscalatesToRecovery` (liveness) |
| `attestation` | does the log stay a truthful account of the bank, and does an accepted answer mean what it says? | `MeasuredBootTypeOK`, `LogExplainsBank`, `LogNeverMisreports`, `StaticPCRsOnlyGrow`, `AcceptedVouches` |
| `secure_boot` | does each component of mini-secure-boot and mini-firmware-security keep its promise through any sequence of calls? | `SecureBootTypeOK`, `RetiredNeverReturns`, `LineageIsSound`, `EnforcementNeedsOwner`, `AuthorizationIsEarned`, `FloorHolds`, `PriorityDecides`; `ProtectionsHold` (SPI, SMM, IOMMU, engines); `FirmwareIsExplained` (recovery, audit, signature policy, TPM log and quotes) |
| `tpm` | do NV spaces, sessions, sealed data and the SRTM log survive any sequence of TPM commands, and is what the attestation service says of a platform earned? | `TpmTypeOK`, `KeepsVault` and `TpmKeepsVault` (refinements of `NVVault`), `SessionsAccounted`, `KeysStayUsable`, `SrtmLogExplains`; `VerdictsAreEarned` (service); `EvidenceIsSound` (logs, Merkle proofs, RATS) |
| `boot` | do numbers keep their meaning, data its value and pages their owner; is what was written, mapped, registered or handed over found again; do the algorithms compute what they are for? | `BootTypeOK`, `BootManagerRemembers`, `CarKeepsData`, `CarFollowsPhases`, `MemoryMapTells`, `PagesHaveOneOwner`, `OrderRespectsDependencies`; `VerifiedBootHolds`, `ServicesAccounted`, `MediaReadBack`, `HardwareHandedOver`, and the action property `AnswersSettle` |
| `fw_update_failover`, `attestation_pcr8`, `attestation_fresh`, `secure_boot_dbx`, `tpm_selftest`, `boot_next`, `fdt_phandle` | one each for a statement of the sources that the code does not keep | section 5 |

**Bounds.** `fw_update`: versions 0..2 tell older, equal and newer apart; two
attempts tell a retry from the last one (the code has 7); a history of two
entries is filled and overrun. `attestation`: one stage for each way a stage
can log (one static PCR, two PCRs and one event, a resettable PCR); a log of
three events fills up; two challenges, one reboot and one quote under way are
the least that make an answer late, and since every challenge and measurement
may come before or after, the interesting orders occur. Digests are symmetric:
no action or property tells one from another. `secure_boot`: three keys reach a
rotation of a rotation and an import that takes an id; two clock ticks make a
day, so that truncation to days shows; three components; three image versions;
four rules reach every template plus one rule. `tpm`: two NV indices are the
least that can disturb each other; the templates meet every branch of the
access checks, each kind and each lock; a counter of two steps reaches its
limit; three loaded keys and four made in all let a flush out of order give a
handle twice and flush either key; a log of five events, two of them from
initialisation, fills up before or after a launch. `boot`: two option slots and
three additions reuse a number; two variables fill the store; two cars
over two lines, with an offset beyond them; three regions of length 0 to 2 at bases
0 to 2 nest, touch, overlap and vanish; heaps of 1 (refused), 4 and 8 pages (of
which the bitmap holds 7) at page 0 and 1 with alignments 2 and 4; four
modules with up to two dependencies among places 1 to 5 reach chains, rings, a
module that waits for itself and one that waits for nothing there.

The parts added to the three runs follow two rules: a list or log gets the
smallest limit that can be filled and overrun by the inputs (two or three
entries), and a number the smallest width at which the arithmetic that matters
wraps (4 to 16 values for addresses, blocks and cells, 64 for BAR windows).
`boot`: two stages, two rules and two versions tell a status that sticks from
one that is new; FIT blobs and device trees are a handful that reach every
branch of the parsers (siblings after children, twins, properties after
children, cut-off and unbalanced blobs); sizes of memory lie on both sides of
9427 MB; updates of 1, 3, 8 and 11 bytes meet every position in a hash block of
8; dates include leap years and both century bytes. `tpm`: one device that may be registered twice, three challenges whose numbers
wrap at two (the code's at 256) and a reply that stays available make replies
late, crossed and repeated; a log of three entries fills up, is closed and
started again; trees of up to five leaves are padded and have a third level.
`secure_boot`: two protected ranges nest and overlap over a few flash cells;
handlers nest three deep; two devices meet three domains of buffers that begin
and end on and off the bounds of pages, have more pages than a table, or run past
the address mask; a channel is trained before, between and behind others; a key
that is cut is set again and again; an audit trail of three
entries is overrun.

`MaxExtends`, `MaxChallenges`,
`MaxBoots`, `MaxQuotes`, `MaxNow`, `MaxNVExtends`, `MaxAssertions`,
`MaxLockoutCount`, `MaxAdds`, `MaxKeysMade`, `MaxBlobs`, `MaxPcrExtends`, `MaxDaCount` and
`MaxMeasured`, `MaxReplies`, `MaxJournal`, `MaxClaims`, `AsMaxNow`, `MaxPsciCalls`, `MaxNorOps`, `MaxHandles`,
`MaxShaBytes`, `MaxScans`, `MaxParses`, `MaxCpuSteps`, `MaxModulesGiven` and `MaxAssigns` bound only the model; the other bounds are
the code's limits with small values.

**Fairness.** Only `FwUpdate!FairSpec` has any: weak fairness of "a boot gets a
verdict". `firmware_update.c:270-276` has the OS report success and a watchdog
report its absence, so one of the two happens after every boot. The liveness
property asks in addition that, from some time on, no boot succeeds and
nothing is reflashed, which is its hypothesis, not an assumption.

**Deadlock** is checked in all runs; each system always has a next call.

## 4. Theorems

All are proved by TLAPS for every value of the constants, from the named
assumptions on them (`FwUpdateAssumption`, ...), which TLC evaluates on every run.

| Theorem | States | Argument |
|---|---|---|
| `FwUpdateProofs!TypeCorrect` | `Spec => []TypeOK` | inductive as it stands |
| `FwUpdateProofs!ActiveIsBooted` | `[]ActiveMeansBooted` | `IInv` below |
| `FwUpdateProofs!HistoryExplains` | `[]HistoryExplainsSlots` | `HistoryInv`, the property with the types: what an update appends becomes the last entry of the slot it wrote and leaves the other slot's last entry (`LastEntry`) where it was |
| `FwUpdateProofs!NoSilentRollback` | `VersionDropsOnlyOnFailover` | `IInv`, per action; a staged capsule is compared with the slot that is active now |
| `FwUpdateProofs!ImplementsLadder` | `FollowsLadder`: every step is a step of `FailoverLadder` or a stutter | `IInv`, and lemma `SelectBootSlotChoice` on what the selector may return |
| `AttestationProofs!MeasuredBootTypes` | `[]MeasuredBootTypeOK` | inductive as it stands |
| `AttestationProofs!StaticPCRsGrow` | `StaticPCRsOnlyGrow` | per action, with lemmas on sequences that grow at the end |
| `AttestationProofs!LogExplains` | `[]LogExplainsBank` | `LogInv`: the types and both properties of the log together; the replay of a longer log is that of the shorter one, extended once (`ReplayAppend`) |
| `AttestationProofs!LogStaysTrue` | `[]LogNeverMisreports` | `LogInv` |
| `AttestationProofs!AcceptanceVouches` | `[]AcceptedVouches` | `QuoteInv`: what a quote of this boot shows of a static PCR is a beginning of what the PCR holds; no quote is from a later boot |
| `KeyStoreProofs!RetirementIsFinal` | `RetiredNeverReturns` | every step is one of four kinds of change of `keys` (`StepIsOneOfFour`) |
| `KeyStoreProofs!LineageHolds` | `[]LineageIsSound` | as above: old entries keep what lineage reads, a new one is an import, a first version or a successor (`SuccessorIsSound`) |
| `SecureBootProofs!ChainAuthorizes` | `AuthorizationIsEarned` | type invariant and `VerifyAll` |
| `SecureBootProofs!CapsuleFloor` | `[]FloorHolds` | `CapsuleInv`: a validated image that is still staged supports an update from what is installed |
| `SecureBootProofs!EnforcementIsOwned` | `[]EnforcementNeedsOwner` | `OwnerInv`: the property with the types of the two flags |
| `SecureBootProofs!HighestPriorityDecides` | `[]PriorityDecides` | `PolicyInv`: the table descends after every operation, whichever of its orders sorting leaves; in such a table the first match has the highest priority (`FirstHitIsTop`) |
| `SecureBootProofs!ProtectionsAreKept` | `[]ProtectionsHold` | `SpiInv` (a sealed cell differs only where it may be written), `SmmInv` (all frames but the last called another one), `DmaInv` (a table entry is the mapping last made, pages begin within their buffer), `PspInv`; the page a device reaches holds the byte that the entry found points at (`TranslatesWithin`); the mask of an aligned SMRR block matches its addresses only (`SmrrIsItsBlock`) |
| `SecureBootProofs!FirmwareStaysExplained` | `MCSecureBoot`'s `Spec => []FirmwareIsExplained` | `ResilientInv` (the golden firmware is constant), `AuditInv` (counters are cardinalities of sets of positions, and nothing is dropped before the trail is full), `FsInv` (revoked images are in dbx), `TpInv` (quotes are beginnings of what the PCRs hold) |
| `TpmProofs!NVKeepsVault` | `KeepsVault`: `NVStorage` implements `NVVault` | `NVInv` (no handle twice, types of contents); that indices close up changes places and no space (`DictionaryRemove`) |
| `TpmProofs!Tpm2KeepsVault` | `TpmKeepsVault`: `Tpm2` implements `NVVault` | `Tpm2Inv`, as above |
| `TpmProofs!SessionsStayAccounted` | `[]SessionsAccounted` | `AuthInv`: inductive with the types |
| `TpmProofs!KeysRemainUsable` | `[]KeysStayUsable` | `KeysInv`: keys lie in the order they were made, handles tell places, and a blob finds the key it was sealed under before any other with its handle (`BlobsFindTheirKeys`) |
| `TpmProofs!LogReplaysToThePcrs` | `[]SrtmLogExplains` | `SrtmInv`: inductive with the types; one more extend keeps every PCR explained (`ExtendExplained`), with lemmas on prefixes and suffixes |
| `BootProofs!PhasesTellOfCar` | `[]CarFollowsPhases` | `PhasesInv`: the property with the phases that ran and what `CarKept` says of cache as RAM below |
| `BootProofs!CarIsKept` | `[]CarKeepsData` | `CarInv`: an undisturbed user finds in the lines what it expects while its car is enabled, and in memory afterwards (`CarKept`) |
| `BootProofs!ManagerRemembers` | `[]BootManagerRemembers` | `ManagerInv`: also that a clean order names no option twice (`OrderNamesOnce`), since removal takes out one place only |
| `BootProofs!PagesAreOwned` | `[]PagesHaveOneOwner` | inductive with the types (`PageInv`); a block that fits is disjoint from all pages given (`GivingKeepsInv`), a block returned was one owner's alone (`FreeingKeepsInv`), and cardinalities add up |
| `BootProofs!DependenciesComeFirst` | `[]OrderRespectsDependencies` | along the rounds: what a round appends comes behind what it depends on (`SweepKeepsOrder`), and while no modules wait for each other every round builds one more (`PassesBuild`) |
| `AppraisalProofs!VerdictsStayEarned` | `[]VerdictsAreEarned` | `ServiceInv`: the first entry of a device is what the journal judged of it, one behind it was never touched (`ResultsEarned`); challenges with the same nonce are apart by a multiple of `IdSpan` (`SameRemainder`) |
| `AppraisalProofs!VerifiedStaysFresh` | the part of `EvidenceIsSound` about the RATS roles | `RatsInv`: each appraisal that passed was of evidence that was young enough and matched the references of the time; evidence older than a change of references is from before the verifier's `since` |
| `AppraisalProofs!EvidenceStaysSound` | `MCTpm`'s `Spec => []EvidenceIsSound` | `EvidenceInv`; a log replays to its PCRs; a xor over parts tells two logs apart that differ in one entry (`ParityFlips`); the tree over a bank is built level by level (`TreeIsBuilt`), the siblings of a leaf lead to the root (`WayLeadsToRoot`), and a leaf changed changes every node above it (`RootBindsLeaf`, `RootBindsPlace`) |

`FwUpdate`'s `IInv` is `TypeOK` with four parts: which statuses go with
which flags (`StatusInv`), what the active slot says about the others before
a forced recovery (`LadderInv`: the active slot is dead only if all are, and
Recovery is active only if both main slots are dead),
how versions relate (`VersionInv`: Recovery has version 0; a live active slot
holds the newest version among live main slots, and a staged capsule is at
least as new), and `ActiveMeansBooted` itself. None of the last three is
inductive alone: applying a capsule needs the version part, failing over needs
the status part. The other invariants are strengthened for the same reasons: a
property speaks of what an outsider sees, and a step needs also what is on its
way (a staged image, a quote on the wire, a frame below the running one) or the
bookkeeping behind a count (which positions of a log are counted).

Assumed of constants, because the code or its callers see to it: bounds are
natural numbers; "none", zero handles and the like are no members of the sets
they stand beside (`NotSet \notin VarData`, `"none" \notin FsKeys`); SMRR blocks are
aligned (bases of DMA buffers are not, and their address mask has any width); challenge numbers wrap after at least one (`IdSpan`); a Merkle tree has at most 32
leaves (`MERKLE_MAX_LEAVES`), since `merkle_build_tree` refuses more; every rule
has an integer priority.

Only model-checked, and why:

- `EscalatesToRecovery` and `AnswersSettle`: liveness under fairness, and a property
  of many algorithms at once.
- `BootTypeOK`, `SecureBootTypeOK`, `TpmTypeOK`: the type invariants of the compositions. What the
  theorems need of them is proved inside their invariants; the rest are bounds of lists.
- `MemoryMapTells`, `VerifiedBootHolds`, `ServicesAccounted`, `MediaReadBack`,
  `HardwareHandedOver`: conjunctions over several parts each, some of which fold over
  sequences, add up functions or range over permutations (`FoldLeft`,
  `SumFunction`, `SelectSeq`). What such an operator computes for every input needs an
  induction with an operator as parameter, which the provers cannot instantiate;
  loops are proved about where they are recursive functions, one step at a time
  (`IterationExists`).

Two definitions were corrected when a proof failed on them: the verdict on an
image (`FsVerdict`) and the walk over a device tree (`FdtStep`) were CASE expressions
whose guards overlap, for which TLA+ does not say which one decides, although TLC takes
the first. They are ordered now as the code is.

## 5. Findings

| Run | The sources say | The code does |
|---|---|---|
| `fw_update_failover` | "falls back to the other slot" (`firmware_update.c:279-280`) | when Recovery itself fails the selector looks at A only, and boots it dead with B alive (line 338) |
| `attestation_pcr8` | replaying the log verifies the PCRs (`demos/mini-measured-boot-flow/README.md:222`) | PCR 8 gets boot loader measurements that are logged under PCR 4 (`crtm_drtm.c:60`) |
| `attestation_fresh` | "Forall old_responses R, R.nonce != current_challenge.nonce" (`attestation.c:276`) | the nonce is the hash of a constant (line 40) |
| `secure_boot_dbx` | "Check dbx/dbr blacklist first" (`uefi_sb.c:137`) | the look-up entry's type is never set, so nothing is found (line 121) |
| `boot_next` | "After the boot attempt (successful or not), BootNext is cleared" (`boot_policy.c:323` of mini-boot-process) | nothing clears it; every later boot takes the override again |
| `fdt_phandle` | "cache phandle for the closing node" (`device_tree.c:90` of mini-hardware-desc) | the node taken is the last child begun (line 92): a node with children and a later sibling never enters the phandle map |
| `tpm_selftest` | the reset after the test extend is there to "restore clean state" (`mini-secure-boot/src/tpm.c:80`) | PCRs 17 to 22 refuse the reset and keep the test pattern |

The tests of mini-firmware-security ask for more that its code does not do. The
models follow the code; these statements have no run of their own.

| The tests say (`tests/test_security.c`) | The code does |
|---|---|
| an IOVA of 0x10000000 of device 0x0200 translates, "Translation should succeed" (line 216) | the device number is beyond the table of 256 (`dma_attacks.c:100`; line 73 refuses the mapping), and page numbers count from DMA address 0 whatever `iova_base` is (line 123) |
| the address it leads to is not below the buffer (line 218) | the mask of `dma_attacks.c:12` rounds a base that is not one of a page down |
| "Valid data-engine flow should pass", "No violations expected" (lines 613 and 625), as `fw_cross_integration.c:89` calls the flow valid and lines 299-311 promise to verify it | the first rule makes a violation of every packet that neither the network nor the backend sends (lines 78-83) and no later rule takes it back; the entry's source is the network (line 74), so the verification never finds the flow |
| "Multiple changes = malicious" (lines 362-367) | the kind of a corruption is that of the first byte that differs (`firmware_resiliency.c:59-71`): one bit there is a bit flip, whatever follows |
| "Clean ME should have no risk" (lines 281-283) | `me_init` leaves JTAG and the ME on, and each is a risk (`bmc_me.c:207-211`) |
| versions 5, 3 and 1 pass the minimum 2, "All versions >= 2 should pass" (lines 391-398) | the golden version is compared as well (`firmware_resiliency.c:237`) |

Two further statements are noted in section 2 where they belong: "All channels
trained?" (`meminit.h:166`) and "Update existing key if present"
(`boot_config.c:285`).

## 6. Mutants

Each checked property has a mutated definition in `PROJECT.json` that TLC finds
violating it: a guard dropped (`KeyReactivateRevoked`, `HasRoomUnchecked`), an
order changed (`SelectRecoveryFirst`), a capacity off by one
(`AddEntryOverrun`, `EventLogAddOverrun`), a reset forgotten
(`DeletePkKeepsFlag`, `PrevActiveForgotten`), and so on.

## 7. Plan

1. *Proofs*: the parts of the `boot` run that no theorem states: chain verdicts,
   keys and PCRs of `VerifiedBoot`, `ProtocolsAccounted` and `WindowsAreApart`, and the
   map reports of `E820Map`; then the type invariants of the compositions. The
   modules are written for it: no RECURSIVE operator, invariants in named parts.
2. *Smaller parts left out so far*: image verdicts and capsules of
   `uefi_image_auth.c`, interrupt specifiers of device trees, `root_of_trust.c`.

Not modelled, and why: arithmetic of hashes and RSA (properties of numbers, not
of states); encoders and parsers of ACPI tables, AML, SMBIOS, ELF, compressed
images and file systems (functions of bytes with no protocol); certificates and
key derivation (DICE, X.509), which compute bytes from bytes; functions that
simulate misuse of a protection; and everything that only prints. Of
mini-firmware's flash layout, "Exactly one descriptor region exists"
(`firmware_layout.c`) is a comment that nothing checks, so no property claims
it. A counter of `nv_storage.c` that is undefined and defined again starts from
zero: `KeepsVault` promises growth within one definition only, and whether the
README of that package means more is open.
