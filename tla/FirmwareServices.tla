--------------------------- MODULE FirmwareServices ---------------------------
(***************************************************************************)
(* The services of mini-firmware behind its boot block: PSCI power states   *)
(* (psci_fw.c), memory training (meminit.c) and the CPU mode after reset    *)
(* (reset_vector.c), MMIO regions and SPI NOR (mmio.c, spi_nor.c), and the  *)
(* ACPI and SMBIOS tables it hands on (acpi_fw.c, smbios_fw.c).             *)
(*                                                                         *)
(* Abstracted: the contents of a table are the sum of its bytes, which is   *)
(* all a checksum sees; an SPD is the fields memctrl_parse_spd reads.       *)
(***************************************************************************)
EXTENDS Integers, Sequences, FiniteSets, FiniteSetsExt, SequencesExt

CONSTANTS
  Mpidrs,        \* affinity registers
  EntryPoints,   \* entry points; 0 is no address
  MaxCpus,       \* PSCI_MAX_CPUS (256)
  MaxPsciCalls,  \* bound on the calls that succeed
  ChannelSizes,  \* sizes of memory channels
  MaxChannels,   \* MAX_CHANNELS (4)
  Spds,          \* SPD contents: [ddr4, density, width, ranks, tck, rp, ras]
  MmioWord,      \* number of values of a 32-bit address
  MmioShapes,    \* regions mapped: [base, size]
  MmioValues,    \* values written
  MaxMmioRegions, \* MMIO_MAX_REGIONS
  NorCapacity, NorPage,   \* bytes of the SPI NOR flash, and of a page
  MaxNorOps,     \* bound on write enables and programs
  TableContents, \* sums of the bytes of a table, its OEM identity and checksum aside
  OemSum,        \* sum of the bytes of the OEM identity
  MaxAcpiTables, \* ACPI_MAX_TABLES
  MaxSmbios      \* SMBIOS_MAX_TABLES

VARIABLES
  psCpus,        \* cpus[]: [mpidr, state, entry]
  psCounts,      \* [on, off, suspend, reset]: total_..._count and reset_count
  psDropped,     \* history: CPUs a system off or reset found on
  mcChannels,    \* channels[]: [size, state, active]
  mcTotals,      \* [total, usable, trained, errors] of MemoryController
  mcSpd,         \* what memctrl_parse_spd wrote: [timing, capacity, ok]
  cpMode,        \* CPUContext: [mode, pe, pae]
  mmRegions,     \* regions[]: [base, size, backing]
  norFlash,      \* SPIFlash: [data, wel]
  norOps,        \* history: [enables, programs]
  acTables,      \* table_ptrs: the tables built outside the manager, "FACP" for mgr->fadt
  acFadt,        \* mgr->fadt: [sig, content, oem, checksum]
  acClaimed,     \* entries the length of the XSDT claims
  acStale,       \* history: the last rebuild of the FADT was not added
  smTables       \* types of the SMBIOS tables

psvars == <<psCpus, psCounts, psDropped>>
mcvars == <<mcChannels, mcTotals, mcSpd, cpMode>>
norvars == <<mmRegions, norFlash, norOps>>
acvars == <<acTables, acFadt, acClaimed, acStale, smTables>>
fwsvars == <<psvars, mcvars, norvars, acvars>>

-----------------------------------------------------------------------------
\* PSCI.

PsciInit ==
  /\ psCpus = << >> /\ psDropped = 0
  /\ psCounts = [on |-> 0, off |-> 0, suspend |-> 0, reset |-> 0]

\* psci_register_cpu: a second CPU may have the MPIDR of the first.
PsciRegister(mpidr, entry) ==
  /\ Len(psCpus) < MaxCpus
  /\ psCpus' = Append(psCpus, [mpidr |-> mpidr, state |-> "off", entry |-> entry])
  /\ UNCHANGED <<psCounts, psDropped>>

\* psci_find_cpu: the first with the MPIDR.
PsciFind(mpidr) == {i \in DOMAIN psCpus : /\ psCpus[i].mpidr = mpidr
                                         /\ \A j \in 1..(i - 1) : psCpus[j].mpidr # mpidr}

PsciCalls == psCounts.on + psCounts.off + psCounts.suspend + psCounts.reset
PsciCounted(call) == /\ PsciCalls < MaxPsciCalls
                     /\ psCounts' = [psCounts EXCEPT ![call] = @ + 1]

\* psci_call_cpu_on: the CPU passes through ON_PENDING within the call.
CpuOn(mpidr, entry) ==
  \E i \in PsciFind(mpidr) :
    /\ psCpus[i].state = "off" /\ entry # 0
    /\ psCpus' = [psCpus EXCEPT ![i].state = "on", ![i].entry = entry]
    /\ PsciCounted("on")
    /\ UNCHANGED psDropped

\* psci_call_cpu_off
CpuOff(i) ==
  /\ psCpus[i].state = "on"
  /\ psCpus' = [psCpus EXCEPT ![i].state = "off"]
  /\ PsciCounted("off")
  /\ UNCHANGED psDropped

\* psci_call_cpu_suspend: the CPU resumes within the call, at an entry point that
\* is not looked at.
CpuSuspend(i, entry) ==
  /\ psCpus[i].state = "on"
  /\ psCpus' = [psCpus EXCEPT ![i].entry = entry]
  /\ PsciCounted("suspend")
  /\ UNCHANGED psDropped

AllOff == /\ psCpus' = [i \in DOMAIN psCpus |-> [psCpus[i] EXCEPT !.state = "off"]]
          /\ psDropped' = psDropped + Cardinality({i \in DOMAIN psCpus : psCpus[i].state = "on"})

\* psci_call_system_off, psci_call_system_reset
SystemOff == AllOff /\ UNCHANGED psCounts
SystemReset == AllOff /\ PsciCounted("reset")

PsciNext ==
  \/ \E m \in Mpidrs, e \in EntryPoints : PsciRegister(m, e) \/ CpuOn(m, e)
  \/ \E i \in DOMAIN psCpus : CpuOff(i) \/ \E e \in EntryPoints : CpuSuspend(i, e)
  \/ SystemOff
  \/ SystemReset

-----------------------------------------------------------------------------
\* Memory training, and the mode of the CPU.

NoTiming == [frequency |-> 0, cas |-> 0, cwl |-> 0, rp |-> 0, ras |-> 0, rc |-> 0, ecc |-> FALSE]

\* memctrl_init, and cpu_reset
MemoryInit ==
  /\ mcChannels = << >>
  /\ mcTotals = [total |-> 0, usable |-> 0, trained |-> FALSE, errors |-> 0]
  /\ mcSpd = [timing |-> NoTiming, capacity |-> 0, ok |-> FALSE]
  /\ cpMode = [mode |-> "real", pe |-> FALSE, pae |-> FALSE]

\* Mutant: the memory of a new channel is usable at once.
AddChannelUsable(size) ==
  /\ Len(mcChannels) < MaxChannels
  /\ mcChannels' = Append(mcChannels, [size |-> size, state |-> "reset", active |-> FALSE])
  /\ mcTotals' = [mcTotals EXCEPT !.total = @ + size, !.usable = @ + size]
  /\ UNCHANGED <<mcSpd, cpMode>>

\* memctrl_add_channel: what was said of the training stays.
AddChannel(size) ==
  /\ Len(mcChannels) < MaxChannels
  /\ mcChannels' = Append(mcChannels, [size |-> size, state |-> "reset", active |-> FALSE])
  /\ mcTotals' = [mcTotals EXCEPT !.total = @ + size]
  /\ UNCHANGED <<mcSpd, cpMode>>

\* memctrl_train_channel: the walk through the states has no way to fail.
Trained(channel) == [channel EXCEPT !.state = "complete", !.active = TRUE]

\* memctrl_train_channel, called for one channel: the controller does not hear of it.
TrainChannel(i) ==
  /\ mcChannels' = [mcChannels EXCEPT ![i] = Trained(@)]
  /\ UNCHANGED <<mcTotals, mcSpd, cpMode>>

\* memctrl_train_all
TrainAll ==
  LET after  == [i \in DOMAIN mcChannels |-> Trained(mcChannels[i])]
      errors == Cardinality({i \in DOMAIN after : ~after[i].active})
  IN  /\ mcChannels' = after
      /\ mcTotals' = [total |-> mcTotals.total, usable |-> mcTotals.total,
                      trained |-> errors = 0, errors |-> errors]
      /\ UNCHANGED <<mcSpd, cpMode>>

DieGigabits == <<2, 4, 8, 12, 16, 24, 32>>
SpdCapacity(spd) ==
  LET die   == IF spd.density \in 1..7 THEN DieGigabits[spd.density] ELSE 0
      width == Min({8 * 2^spd.width, 64})
  IN  die * (width \div 8) * (spd.ranks + 1)

\* memctrl_parse_spd: the width is cut to 64 bits before it is compared with 72,
\* and the row cycle has 16 bits.
SpdTiming(spd) ==
  LET rp == (spd.rp * 1000) \div 625 + 1
  IN  [frequency |-> IF spd.tck = 0 THEN 3200
                     ELSE 2000000 \div ((spd.tck * 1250) \div 256),
       cas |-> 22, cwl |-> 20, rp |-> rp, ras |-> spd.ras,
       rc |-> (spd.ras + rp) % 65536, ecc |-> Min({8 * 2^spd.width, 64}) = 72]

\* A refusal has cleared the timing and leaves the capacity.
ParseSpd(spd) ==
  /\ mcSpd' = IF spd.ddr4
              THEN [timing |-> SpdTiming(spd), capacity |-> SpdCapacity(spd), ok |-> TRUE]
              ELSE [mcSpd EXCEPT !.timing = NoTiming, !.ok = FALSE]
  /\ UNCHANGED <<mcChannels, mcTotals, cpMode>>

\* memctrl_calc_read_latency, memctrl_calc_write_latency
ReadLatency(t) ==
  IF t.frequency = 0 THEN 0 ELSE t.cas + (IF t.ecc /\ t.frequency >= 2400 THEN 4 ELSE 0)
WriteLatency(t) == IF t.frequency = 0 THEN 0 ELSE t.cwl

\* cpu_switch_mode: one step up at a time, and none down.
SwitchMode(target) ==
  /\ \/ /\ cpMode.mode = "real" /\ target = "protected"
        /\ cpMode' = [cpMode EXCEPT !.mode = target, !.pe = TRUE]
     \/ /\ cpMode.mode = "protected" /\ target = "long"
        /\ cpMode' = [mode |-> target, pe |-> TRUE, pae |-> TRUE]
  /\ UNCHANGED <<mcChannels, mcTotals, mcSpd>>

CpuReset ==
  /\ cpMode' = [mode |-> "real", pe |-> FALSE, pae |-> FALSE]
  /\ UNCHANGED <<mcChannels, mcTotals, mcSpd>>

MemoryNext ==
  \/ \E s \in ChannelSizes : AddChannel(s)
  \/ \E i \in DOMAIN mcChannels : TrainChannel(i)
  \/ TrainAll
  \/ \E spd \in Spds : ParseSpd(spd)
  \/ \E m \in {"protected", "long"} : SwitchMode(m)
  \/ CpuReset

-----------------------------------------------------------------------------
\* MMIO regions and SPI NOR.

StorageInit ==
  /\ mmRegions = << >>
  /\ norFlash = [data |-> [a \in 0..(NorCapacity - 1) |-> 0], wel |-> FALSE]
  /\ norOps = [enables |-> 0, programs |-> 0]

\* mmio_map: overlaps are accepted.
MmioMap(shape) ==
  /\ Len(mmRegions) < MaxMmioRegions
  /\ mmRegions' = Append(mmRegions, [base |-> shape.base, size |-> shape.size,
                                     backing |-> [o \in 0..(shape.size - 1) |-> 0]])
  /\ UNCHANGED <<norFlash, norOps>>

\* Mutant: the search goes on after a region was found.
MmioFindLast(addr) ==
  LET holds == {i \in DOMAIN mmRegions :
                  /\ addr >= mmRegions[i].base
                  /\ addr < (mmRegions[i].base + mmRegions[i].size) % MmioWord}
  IN  IF holds = {} THEN 0 ELSE Max(holds)

\* find_region: the first that holds the address; the end of a region wraps.
MmioFind(addr) ==
  LET holds == {i \in DOMAIN mmRegions :
                  /\ addr >= mmRegions[i].base
                  /\ addr < (mmRegions[i].base + mmRegions[i].size) % MmioWord}
  IN  IF holds = {} THEN 0 ELSE Min(holds)

\* mmio_read8 (0 where nothing is mapped), mmio_write8; the 32-bit forms go the
\* same way, through callbacks that use the same backing.
MmioRead(addr) ==
  LET i == MmioFind(addr) IN IF i = 0 THEN 0 ELSE mmRegions[i].backing[addr - mmRegions[i].base]
MmioWrite(addr, value) ==
  LET i == MmioFind(addr)
  IN  /\ i # 0
      /\ mmRegions' = [mmRegions EXCEPT ![i].backing[addr - mmRegions[i].base] = value]
      /\ UNCHANGED <<norFlash, norOps>>

\* spi_write_enable
NorWriteEnable ==
  /\ norOps.enables < MaxNorOps /\ ~norFlash.wel
  /\ norFlash' = [norFlash EXCEPT !.wel = TRUE]
  /\ norOps' = [norOps EXCEPT !.enables = @ + 1]
  /\ UNCHANGED mmRegions

\* spi_sector_erase: the page of the address; the latch is not asked for, but is
\* cleared.
NorErase(addr) ==
  /\ norFlash' = [data |-> [a \in DOMAIN norFlash.data |->
                              IF a \div NorPage = addr \div NorPage THEN 255
                              ELSE norFlash.data[a]],
                  wel |-> FALSE]
  /\ UNCHANGED <<mmRegions, norOps>>

\* spi_page_program: at most a page, at any address, over what was there.
NorProgram(addr, len) ==
  /\ addr + len <= NorCapacity /\ len <= NorPage /\ norFlash.wel
  /\ norFlash' = [data |-> [a \in DOMAIN norFlash.data |->
                              IF a \in addr..(addr + len - 1) THEN 7 ELSE norFlash.data[a]],
                  wel |-> FALSE]
  /\ norOps' = [norOps EXCEPT !.programs = @ + 1]
  /\ UNCHANGED mmRegions

StorageNext ==
  \/ \E s \in MmioShapes : MmioMap(s)
  \/ \E a \in 0..(MmioWord - 1), v \in MmioValues : MmioWrite(a, v)
  \/ NorWriteEnable
  \/ \E a \in 0..(NorCapacity - 1) : NorErase(a) \/ \E n \in 1..NorPage : NorProgram(a, n)

-----------------------------------------------------------------------------
\* ACPI and SMBIOS tables.

\* A table as it is built, before it is added.
NewTable(sig, content) == [sig |-> sig, content |-> content, oem |-> 0, checksum |-> 0]
TableSum(t) == (t.content + t.oem + t.checksum) % 256

\* Mutant: the checksum is set before the OEM identity is written.
StampedSumFirst(t) == [t EXCEPT !.checksum = (256 - TableSum(t)) % 256, !.oem = OemSum]

\* acpi_add_table writes the OEM identity, then acpi_set_checksum.
Stamped(t) == LET named == [t EXCEPT !.oem = OemSum, !.checksum = 0]
              IN  [named EXCEPT !.checksum = (256 - TableSum(named)) % 256]

\* acpi_init: the XSDT is as long as its structure.
AcpiInit ==
  /\ acTables = << >> /\ acClaimed = MaxAcpiTables /\ acStale = FALSE
  /\ acFadt = NewTable("", 0) /\ smTables = << >>

\* acpi_build_madt_lapic, acpi_build_madt_gic, acpi_build_dsdt: a table of its own
\* for each call; and acpi_add_table by the caller.
AcpiBuild(sig, content) ==
  /\ Len(acTables) < MaxAcpiTables
  /\ acTables' = Append(acTables, Stamped(NewTable(sig, content)))
  /\ acClaimed' = Len(acTables) + 1
  /\ UNCHANGED <<acFadt, acStale, smTables>>

\* acpi_build_fadt builds mgr->fadt anew before it adds it, listed or not.
BuildFadt(content) ==
  LET room == Len(acTables) < MaxAcpiTables
      new  == NewTable("FACP", content)
  IN  /\ acFadt' = IF room THEN Stamped(new) ELSE new
      /\ acTables' = IF room THEN Append(acTables, new) ELSE acTables
      /\ acClaimed' = IF room THEN Len(acTables) + 1 ELSE acClaimed
      /\ acStale' = ~room
      /\ UNCHANGED smTables

\* What a listed pointer leads to: every "FACP" leads to mgr->fadt.
Listed(i) == IF acTables[i].sig = "FACP" THEN acFadt ELSE acTables[i]

\* acpi_validate_checksums
ChecksumsValid == \A i \in DOMAIN acTables : TableSum(Listed(i)) = 0

\* acpi_find_table, smbios_find_by_type: the first; 0 for none.
AcpiFind(sig) == LET found == {i \in DOMAIN acTables : acTables[i].sig = sig}
                 IN  IF found = {} THEN 0 ELSE Min(found)
SmbiosFind(type) == LET found == {i \in DOMAIN smTables : smTables[i] = type}
                    IN  IF found = {} THEN 0 ELSE Min(found)

\* smbios_add_table
SmbiosAdd(type) ==
  /\ Len(smTables) < MaxSmbios
  /\ smTables' = Append(smTables, type)
  /\ UNCHANGED <<acTables, acFadt, acClaimed, acStale>>

AcpiNext ==
  \/ \E c \in TableContents : BuildFadt(c) \/ \E s \in {"APIC", "DSDT"} : AcpiBuild(s, c)
  \/ \E t \in {0, 1} : SmbiosAdd(t)

FirmwareServicesInit == PsciInit /\ MemoryInit /\ StorageInit /\ AcpiInit
-----------------------------------------------------------------------------
\* Properties.

FirmwareServicesTypeOK ==
  /\ \A i \in DOMAIN psCpus :
       psCpus[i] \in [mpidr : Mpidrs, state : {"on", "off"}, entry : EntryPoints]
  /\ Len(psCpus) <= MaxCpus /\ psDropped \in Nat
  /\ Len(mcChannels) <= MaxChannels /\ mcTotals.errors = 0
  /\ cpMode.mode \in {"real", "protected", "long"}
  /\ Len(mmRegions) <= MaxMmioRegions
  /\ norFlash \in [data : [0..(NorCapacity - 1) -> {0, 7, 255}], wel : BOOLEAN]
  /\ Len(acTables) <= MaxAcpiTables /\ Len(smTables) <= MaxSmbios
  /\ acFadt.checksum \in 0..255

\* The CPUs that are on are those turned on and not turned off since, one by one
\* or all together, and each is the first registered with its MPIDR: a CPU
\* registered under the same one can never be turned on (psci_fw.c).
PsciAccounted ==
  LET on == {i \in DOMAIN psCpus : psCpus[i].state = "on"}
  IN  /\ Cardinality(on) = psCounts.on - psCounts.off - psDropped
      /\ \A i \in on : i \in PsciFind(psCpus[i].mpidr)

\* The usable memory is that of the first so many channels, those that were there when
\* all were last trained, and these work, whatever was added behind them or trained on
\* its own since; before that no memory is usable, even of a channel that works.  That
\* the memory is trained therefore tells nothing of the channels added later
\* (memctrl_train_all, memctrl_train_channel).  A timing is there exactly when the last SPD was accepted,
\* and no SPD ever makes it an ECC timing.  The mode says which bits are set.
MemoryAccounted ==
  LET sizes(k) == FoldLeft(LAMBDA sum, c : sum + c.size, 0, SubSeq(mcChannels, 1, k))
  IN  /\ \E k \in 0..Len(mcChannels) : /\ mcTotals.usable = sizes(k)
                                      /\ \A i \in 1..k : mcChannels[i].active
      /\ mcTotals.usable > 0 => mcTotals.trained
      /\ mcTotals.total = sizes(Len(mcChannels))
      /\ mcSpd.ok <=> ReadLatency(mcSpd.timing) = 22
      /\ mcSpd.ok <=> WriteLatency(mcSpd.timing) = 20
      /\ cpMode.pe <=> cpMode.mode # "real"
      /\ cpMode.pae <=> cpMode.mode = "long"

\* Each write enable is good for one program at most, and an address inside a
\* region whose end does not wrap is always found.
StorageAccounted ==
  /\ norOps.programs + (IF norFlash.wel THEN 1 ELSE 0) <= norOps.enables
  /\ \A i \in DOMAIN mmRegions :
       LET r == mmRegions[i]
       IN  r.base + r.size < MmioWord =>
             \A a \in r.base..(r.base + r.size - 1) : MmioFind(a) \in 1..i

\* The listed tables have valid checksums unless a FADT was built anew in place
\* when there was no room to add it; and the XSDT claims the tables it lists,
\* once there is one.
TablesAccounted ==
  /\ acStale \/ ChecksumsValid
  /\ acTables # << >> => acClaimed = Len(acTables)

\* What a signature, a type or an address leads to never changes as more is
\* added or mapped (acpi_find_table, smbios_find_by_type, find_region).
LookupsSettle ==
  [][/\ \A s \in {"FACP", "APIC", "DSDT"} : AcpiFind(s) \in {0, AcpiFind(s)'}
     /\ \A t \in {0, 1} : SmbiosFind(t) \in {0, SmbiosFind(t)'}
     /\ \A a \in 0..(MmioWord - 1) :
          /\ MmioFind(a) \in {0, MmioFind(a)'}
          /\ Len(mmRegions)' > Len(mmRegions) => MmioRead(a)' = MmioRead(a)]_fwsvars
=============================================================================
