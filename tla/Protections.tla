----------------------------- MODULE Protections -----------------------------
(***************************************************************************)
(* The hardware protections of mini-firmware-security, as software sets     *)
(* them up: the SPI flash controller (spi_protection.c), system management  *)
(* mode (smm_attacks.c), the IOMMU (dma_attacks.c) and the management       *)
(* engines (bmc_me.c).  The four share no state.                            *)
(*                                                                         *)
(* What they have in common is a configuration that is open at first and    *)
(* closed later, and accesses that come before, between and after: the      *)
(* order of the calls decides what an access may do.                        *)
(*                                                                         *)
(* Abstracted: flash is one cell for each region and two for the BIOS       *)
(* region; addresses are small numbers.  A DMA domain is its identifier,    *)
(* the address its buffer begins at and its number of pages: the iova_base, *)
(* lengths and permissions written into its entries and the page table      *)
(* pointer of a device are read by no function.  The demonstrations of      *)
(* attacks in those files are not modelled.                                 *)
(***************************************************************************)
EXTENDS Integers, Sequences, FiniteSets, SequencesExt

CONSTANTS
  SpiRanges,     \* protected ranges that may be set: [base, limit, rights]
  SpiSlots,      \* SPI_MAX_PROTECTED_RANGES (5)
  SpiLockFlags,  \* the flags spi_lock_config may be given together
  SpiData,       \* what a flash cell may hold
  SmiCodes, SmiNumbers,   \* handler functions and their places (SMM_MAX_HANDLERS)
  SmiDepth,      \* how deep handlers call handlers in the model
  SmrrWords,     \* 2^32, the number of addresses
  SmrrSettings,  \* blocks the SMRR may be given, aligned to their size: [base, size]
  DmaDevices, DmaDomains, \* requester and domain identifiers; 0 is among the domains
  DmaRequests,   \* buffers domains may be asked for: [base, bytes], from any byte on
  DmaPage,       \* IOMMU_PAGE_SIZE (4096)
  DmaSpace,      \* 2^48: the address mask of a page entry, 0x0000FFFFFFFFF000, ends there
  DmaPageMax,    \* IOMMU_PAGE_TABLE_ENTRIES (512)
  DmaDomainMax   \* IOMMU_DOMAIN_MAX (64)

ASSUME ProtectionsAssumption ==
  /\ SmrrWords \in Nat \ {0}
  /\ \A s \in SmrrSettings : s.base \in Nat /\ s.size \in Nat \ {0} /\ s.base % s.size = 0
  /\ DmaPage \in Nat \ {0}
  /\ DmaSpace \in Nat \ {0}
  /\ DmaPageMax \in Nat
  /\ \A request \in DmaRequests : request.base \in Nat /\ request.bytes \in Nat
  /\ 0 \in DmaDomains

VARIABLES
  spiFlash,      \* flash_memory
  spiPr,         \* protected_ranges, an empty one when it was not set
  spiLock,       \* the bits of lock_state that are set
  spiSealed,     \* history: the flash when the configuration was locked
  smi,           \* handlers: place -> function, "null" when there is none
  smm,           \* [inside, smrr, locked]: in_smm, the SMRR, d_lock
  smiStack,      \* the handlers running, [code, called]: has it itself invoked one?
  dmaTable,      \* device_table: device -> [live, domain]
  dmaDomains,    \* domains: [id, base, pages], and the bytes asked for as history
  dmaMapped,     \* history: the domain a device was last mapped to, 0 at first
  bmc, me, psp   \* BMCController, IntelME, PSP

spivars == <<spiFlash, spiPr, spiLock, spiSealed>>
smmvars == <<smi, smm, smiStack>>
dmavars == <<dmaTable, dmaDomains, dmaMapped>>
mgtvars == <<bmc, me, psp>>
prvars == <<spivars, smmvars, dmavars, mgtvars>>

-----------------------------------------------------------------------------
\* SPI flash.

\* The regions of spi_protect_init, in the order they are searched.  The last two are
\* never given bounds and lie over the first cell.
SpiRegions ==
  <<[base |-> 0, limit |-> 1, masters |-> {"BIOS", "HOST"}],
    [base |-> 2, limit |-> 2, masters |-> {"ME", "HOST"}],
    [base |-> 3, limit |-> 3, masters |-> {"GBE", "HOST"}],
    [base |-> 0, limit |-> 0, masters |-> {}],
    [base |-> 0, limit |-> 0, masters |-> {}]>>

SpiCells == 0 .. 3
SpiUnused == [base |-> Cardinality(SpiCells), limit |-> 0, rights |-> {}]

\* spi_protect_init.
SpiInit ==
  /\ spiFlash = [a \in SpiCells |-> CHOOSE d \in SpiData : TRUE]
  /\ spiPr = [n \in 1 .. SpiSlots |-> SpiUnused]
  /\ spiLock = {"bios_we"}
  /\ spiSealed = << >>

\* spi_protect_init at the next power on: the flash keeps its data.
SpiPowerOn ==
  /\ spiPr' = [n \in 1 .. SpiSlots |-> SpiUnused]
  /\ spiLock' = {"bios_we"} /\ spiSealed' = << >>
  /\ UNCHANGED spiFlash

\* The first of a sequence of regions or ranges that holds address a, as a set.
Holding(ranges, a) ==
  LET holds == {n \in DOMAIN ranges : ranges[n].base <= a /\ a <= ranges[n].limit}
  IN  {ranges[n] : n \in {m \in holds : \A k \in holds : m <= k}}

\* spi_is_region_access_allowed asks for any right, be it to read or to write.
SpiRegionAllows(master, a) == \E r \in Holding(SpiRegions, a) : master \in r.masters

\* spi_is_prx_protected: the first range decides.
SpiProtected(a, right) == \E r \in Holding(spiPr, a) : right \notin r.rights

\* spi_check_access.
SpiAccess(master, first, length, right) ==
  /\ first + length <= Cardinality(SpiCells)
  /\ \A a \in first .. first + length - 1 :
       /\ SpiRegionAllows(master, a)
       /\ ~SpiProtected(a, right)
       /\ ~(master = "HOST" /\ right = "write" /\ "bios_we" \notin spiLock)

\* Mutant: the lock is not looked at.
SetProtectedRangeAnyTime(n, range) ==
  /\ spiPr' = [spiPr EXCEPT ![n] = range]
  /\ UNCHANGED <<spiFlash, spiLock, spiSealed>>

\* spi_set_protected_range.
SetProtectedRange(n, range) ==
  /\ "flockdn" \notin spiLock
  /\ spiPr' = [spiPr EXCEPT ![n] = range]
  /\ UNCHANGED <<spiFlash, spiLock, spiSealed>>

\* spi_lock_config: a flag clears bios_we and sets the other bits; none is ever undone.
SpiLockConfig(flags) ==
  /\ "flockdn" \notin spiLock
  /\ spiLock' = (spiLock \ (flags \cap {"bios_we"})) \cup (flags \ {"bios_we"})
  /\ spiSealed' = IF "flockdn" \in flags THEN spiFlash ELSE spiSealed
  /\ UNCHANGED <<spiFlash, spiPr>>

\* spi_write_flash: all bytes or none.
SpiWrite(master, first, length, data) ==
  /\ SpiAccess(master, first, length, "write")
  /\ spiFlash' = [a \in SpiCells |-> IF a \in first .. first + length - 1 THEN data ELSE spiFlash[a]]
  /\ UNCHANGED <<spiPr, spiLock, spiSealed>>

SpiNext ==
  \/ SpiPowerOn
  \/ \E n \in 1 .. SpiSlots, range \in SpiRanges : SetProtectedRange(n, range)
  \/ \E flags \in SpiLockFlags : SpiLockConfig(flags)
  \/ \E master \in {"BIOS", "ME", "GBE", "HOST"}, a \in SpiCells, length \in 1 .. 2, d \in SpiData :
       SpiWrite(master, a, length, d)

-----------------------------------------------------------------------------
\* System management mode.

\* smm_init.
SmmInit ==
  /\ smi = [n \in SmiNumbers |-> "null"]
  /\ smm = [inside |-> FALSE, smrr |-> {}, locked |-> FALSE]
  /\ smiStack = << >>

\* smm_handler_register: refused once SMRAM is locked; a place may be filled again, by a
\* handler as well.
HandlerRegister(n, code) ==
  /\ ~smm.locked
  /\ smi' = [smi EXCEPT ![n] = code]
  /\ UNCHANGED <<smm, smiStack>>

\* smm_handler_invoke up to the call, from outside or by the handler that runs.
HandlerInvoke(n) ==
  /\ Len(smiStack) < SmiDepth
  /\ smi[n] # "null"
  /\ smm' = [smm EXCEPT !.inside = TRUE]
  /\ smiStack' = Append([k \in DOMAIN smiStack |-> [smiStack[k] EXCEPT !.called = TRUE]],
                        [code |-> smi[n], called |-> FALSE])
  /\ UNCHANGED smi

\* Mutant: the return of a handler leaves the mode as it is.
HandlerReturnStays ==
  /\ smiStack # << >>
  /\ smiStack' = Front(smiStack)
  /\ UNCHANGED <<smi, smm>>

\* smm_handler_invoke after the call: management mode ends, for an outer handler too.
HandlerReturn ==
  /\ smiStack # << >>
  /\ smm' = [smm EXCEPT !.inside = FALSE]
  /\ smiStack' = Front(smiStack)
  /\ UNCHANGED smi

\* The caller locks SMRAM: d_lock is set by who holds the context, never by a function.
SmramLock ==
  /\ smm' = [smm EXCEPT !.locked = TRUE]
  /\ UNCHANGED <<smi, smiStack>>

\* smm_set_smrr: in management mode only.
SetSmrr(setting) ==
  /\ smm.inside
  /\ smm' = [smm EXCEPT !.smrr = {setting}]
  /\ UNCHANGED <<smi, smiStack>>

SmmNext ==
  \/ \E n \in SmiNumbers, code \in SmiCodes : HandlerRegister(n, code)
  \/ \E n \in SmiNumbers : HandlerInvoke(n)
  \/ HandlerReturn
  \/ SmramLock
  \/ \E setting \in SmrrSettings : SetSmrr(setting)

\* smm_validate_smrr_access: everything while there is no SMRR; the limit is computed in
\* 32 bits from the complement of the mask.
SmrrAllows(a) ==
  \A s \in smm.smrr :
    LET mask == SmrrWords - s.size
    IN  s.base <= a /\ a < (s.base + ((SmrrWords - mask) % SmrrWords)) % SmrrWords

-----------------------------------------------------------------------------
\* The IOMMU.

\* iommu_init.
IommuInit ==
  /\ dmaTable = [d \in DmaDevices |-> [live |-> FALSE, domain |-> 0]]
  /\ dmaDomains = << >>
  /\ dmaMapped = [d \in DmaDevices |-> 0]

\* iommu_map_device: the domain need not exist.
MapDevice(d, domain) ==
  /\ dmaTable' = [dmaTable EXCEPT ![d] = [live |-> TRUE, domain |-> domain]]
  /\ dmaMapped' = [dmaMapped EXCEPT ![d] = domain]
  /\ UNCHANGED dmaDomains

\* iommu_unmap_device keeps the domain, and iommu_protect makes the entry live again.
UnmapDevice(d) ==
  /\ dmaTable' = [dmaTable EXCEPT ![d].live = FALSE]
  /\ UNCHANGED <<dmaDomains, dmaMapped>>

Protect(d) ==
  /\ dmaTable' = [dmaTable EXCEPT ![d].live = TRUE]
  /\ UNCHANGED <<dmaDomains, dmaMapped>>

\* iommu_create_domain: a size in bytes is rounded up to pages, and the table is bounded.
\* The entry of page p holds base + p * DmaPage, whether the base is one of a page or not.
CreateDomain(id, request) ==
  LET pages == (request.bytes + DmaPage - 1) \div DmaPage
  IN  /\ request.bytes # 0
      /\ Len(dmaDomains) < DmaDomainMax
      /\ \A k \in DOMAIN dmaDomains : dmaDomains[k].id # id
      /\ dmaDomains' = Append(dmaDomains,
           [id |-> id, base |-> request.base, bytes |-> request.bytes,
            pages |-> IF pages > DmaPageMax THEN DmaPageMax ELSE pages])
      /\ UNCHANGED <<dmaTable, dmaMapped>>

IommuNext ==
  \/ \E d \in DmaDevices : \/ \E id \in DmaDomains : MapDevice(d, id)
                           \/ UnmapDevice(d)
                           \/ Protect(d)
  \/ \E id \in DmaDomains, request \in DmaRequests : CreateDomain(id, request)

\* Mutant: the address in an entry is used as it is.
PhysPageUnmasked(address) == address

\* iommu_pte_phys_addr: the mask keeps the page of an address below DmaSpace.
PhysPage(address) == ((address % DmaSpace) \div DmaPage) * DmaPage

\* Mutant: the bound of the page table is passed by one.
EntriesOnePast(d, p) ==
  {dmaDomains[k].base + p * DmaPage : k \in {k \in DOMAIN dmaDomains :
     dmaTable[d].live /\ dmaDomains[k].id = dmaTable[d].domain /\ p <= dmaDomains[k].pages}}

\* What iommu_translate finds for page number p of a device: the entry of the domain the
\* device is mapped to, as a set.
Entries(d, p) ==
  {dmaDomains[k].base + p * DmaPage : k \in {k \in DOMAIN dmaDomains :
     dmaTable[d].live /\ dmaDomains[k].id = dmaTable[d].domain /\ p < dmaDomains[k].pages}}

\* iommu_translate of a byte address, as a set with at most one physical address.  The page
\* is taken from the address itself, so that a domain begins at DMA address 0.
Translate(d, address) ==
  {PhysPage(entry) + (address % DmaPage) : entry \in Entries(d, address \div DmaPage)}

-----------------------------------------------------------------------------
\* The management engines.

\* bmc_init, me_init, psp_init.
ManagementInit ==
  /\ bmc = [status |-> "normal", sol |-> FALSE, media |-> "none"]
  /\ me = [hfs |-> {"init", "boot_done"}, mfg |-> FALSE, disabled |-> FALSE, jtag_off |-> FALSE]
  /\ psp = [jtag_off |-> TRUE, mfg |-> FALSE, state |-> {1, 2}, secure |-> TRUE]

\* bmc_ipmi_command: an unknown command is remembered, and then none is taken any more.
IpmiCommand(command) ==
  /\ bmc.status # "error"
  /\ bmc' = CASE command = "unknown" -> [bmc EXCEPT !.status = "error"]
              [] command \in {"sol_on", "sol_off"} ->
                   [bmc EXCEPT !.status = "normal", !.sol = (command = "sol_on")]
              [] OTHER -> [bmc EXCEPT !.status = "normal"]
  /\ UNCHANGED <<me, psp>>

\* bmc_sol_redirect; bmc_vmedia_mount and bmc_vmedia_unmount, each when the other was last.
SolRedirect(on) == bmc' = [bmc EXCEPT !.sol = on] /\ UNCHANGED <<me, psp>>

VmediaMount(kind) ==
  /\ bmc.media = "none"
  /\ bmc' = [bmc EXCEPT !.media = kind]
  /\ UNCHANGED <<me, psp>>

VmediaUnmount ==
  /\ bmc.media # "none"
  /\ bmc' = [bmc EXCEPT !.media = "none"]
  /\ UNCHANGED <<me, psp>>

\* me_hap_disable; me_lock_jtag, which asks the flag and not the status register.
HapDisable ==
  /\ me' = [me EXCEPT !.disabled = TRUE, !.hfs = @ \cup {"alt_disabled"}]
  /\ UNCHANGED <<bmc, psp>>

MeLockJtag ==
  /\ ~me.mfg
  /\ me' = [me EXCEPT !.jtag_off = TRUE]
  /\ UNCHANGED <<bmc, psp>>

\* A caller puts an engine into manufacturing mode; of the ME it sets the flag, the status
\* bit or both.
MeManufacturing(flag, bit) ==
  /\ me' = [me EXCEPT !.mfg = flag, !.hfs = IF bit THEN @ \cup {"mfg"} ELSE @ \ {"mfg"}]
  /\ UNCHANGED <<bmc, psp>>

PspManufacturing ==
  /\ psp' = [psp EXCEPT !.mfg = TRUE, !.jtag_off = FALSE]
  /\ UNCHANGED <<bmc, me>>

\* psp_disable_jtag, psp_exit_manufacturing_mode.
PspDisableJtag ==
  /\ ~psp.mfg
  /\ psp' = [psp EXCEPT !.jtag_off = TRUE]
  /\ UNCHANGED <<bmc, me>>

\* Mutant: the debug port stays open.
PspExitManufacturingOpen ==
  /\ psp.mfg
  /\ psp' = [psp EXCEPT !.mfg = FALSE, !.state = @ \ {2}]
  /\ UNCHANGED <<bmc, me>>

PspExitManufacturing ==
  /\ psp.mfg
  /\ psp' = [psp EXCEPT !.mfg = FALSE, !.state = @ \ {2}, !.jtag_off = TRUE]
  /\ UNCHANGED <<bmc, me>>

ManagementNext ==
  \/ \E command \in {"get_id", "cold_reset", "sol_on", "sol_off", "sol_query", "unknown"} : IpmiCommand(command)
  \/ \E on \in BOOLEAN : SolRedirect(on)
  \/ \E kind \in {"plain", "encrypted"} : VmediaMount(kind)
  \/ VmediaUnmount
  \/ HapDisable
  \/ MeLockJtag
  \/ \E flag, bit \in BOOLEAN : MeManufacturing(flag, bit)
  \/ PspManufacturing
  \/ PspDisableJtag
  \/ PspExitManufacturing

\* psp_check_security.
PspSecure == ~psp.mfg /\ psp.jtag_off /\ psp.secure

-----------------------------------------------------------------------------
ProtectionsInit == SpiInit /\ SmmInit /\ IommuInit /\ ManagementInit

ProtectionsNext ==
  \/ SpiNext /\ UNCHANGED <<smmvars, dmavars, mgtvars>>
  \/ SmmNext /\ UNCHANGED <<spivars, dmavars, mgtvars>>
  \/ IommuNext /\ UNCHANGED <<spivars, smmvars, mgtvars>>
  \/ ManagementNext /\ UNCHANGED <<spivars, smmvars, dmavars>>

ProtectionsSpec == ProtectionsInit /\ [][ProtectionsNext]_prvars

ProtectionsTypeOK ==
  /\ spiFlash \in [SpiCells -> SpiData]
  /\ \A n \in 1 .. SpiSlots : spiPr[n] \in SpiRanges \cup {SpiUnused}
  /\ smi \in [SmiNumbers -> SmiCodes \cup {"null"}]
  /\ smm.smrr \subseteq SmrrSettings /\ Cardinality(smm.smrr) <= 1
  /\ Len(dmaDomains) <= DmaDomainMax
  /\ \A k \in DOMAIN dmaDomains : dmaDomains[k].pages \in 1 .. DmaPageMax
  /\ bmc.status \in {"normal", "error"}   \* never left busy

\* Once the flash configuration is locked, a cell that no one may write keeps what it
\* held then, whatever ranges lie over one another (spi_lock_config,
\* spi_check_access).  The mode of a handler is its own until it calls
\* another, none outlives it, and the SMRR covers the block its mask describes
\* (smm_handler_invoke, smm_validate_smrr_access).  Every page a device reaches holds a
\* byte of the buffer its domain was made of, the one it was mapped to last: the rest of
\* such a page it reaches as well, also what lies before a buffer that does not begin
\* with a page (iommu_translate, iommu_pte_phys_addr).  A PSP that left manufacturing
\* has its debug port closed (psp_exit_manufacturing_mode).
ProtectionsHold ==
  /\ spiSealed # << >> =>
       \A a \in SpiCells : (\E r \in Holding(spiPr, a) : "write" \notin r.rights) => spiFlash[a] = spiSealed[a]
  /\ smm.inside = (smiStack # << >> /\ ~Last(smiStack).called)
  /\ \A s \in smm.smrr : \A a \in 0 .. SmrrWords - 1 :
       s.base + s.size < SmrrWords => (SmrrAllows(a) <=> a \div s.size = s.base \div s.size)
  /\ \A d \in DmaDevices : \A address \in 0 .. (DmaPageMax + 1) * DmaPage : \A physical \in Translate(d, address) :
       \E k \in DOMAIN dmaDomains :
         /\ dmaDomains[k].id = dmaMapped[d]
         /\ \E byte \in dmaDomains[k].base .. dmaDomains[k].base + dmaDomains[k].bytes - 1 :
              (byte % DmaSpace) \div DmaPage = physical \div DmaPage
  /\ psp.mfg \/ PspSecure
=============================================================================
