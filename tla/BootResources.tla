---------------------------- MODULE BootResources ----------------------------
(***************************************************************************)
(* What the boot phases of mini-boot-process hand out and record: processor *)
(* registers (cpu_init.c), memory modules and the memory map                *)
(* (memory_init.c), windows of PCI devices (device_enum.c) and the files of *)
(* a firmware volume (firmware_volume.c).                                   *)
(*                                                                         *)
(* Abstracted: an MSR is its name, memory is counted in megabytes and pages,*)
(* windows in units of the smallest one; a volume is the headers found at   *)
(* its offsets, in units of four bytes.  Not modelled: training, which      *)
(* changes nothing, names, the SHA-256 of the volume, printing.             *)
(***************************************************************************)
EXTENDS Integers, Sequences, FiniteSets, FiniteSetsExt, SequencesExt

CONSTANTS
  MaxMsrs,        \* MAX_MSR_COUNT (32)
  Microcodes,     \* versions offered
  DefaultMicrocode, \* MICROCODE_DEFAULT_VER
  MaxCpuSteps,    \* bound on the calls after an initialisation
  Modules,        \* what the SPD of a memory module says
  MaxModulesGiven, \* bound on the modules given to the controller
  Channels, Slots, \* MAX_CHANNELS, MAX_DIMM_PER_CHANNEL (2 and 2)
  MemoryTotals,   \* pages of memory, as mem_build_map is told
  MmioBases,      \* first pages of MMIO
  SimClasses,     \* class of the devices of a bus, in order
  WindowSizes,    \* [class -> sequence of sizes of its memory windows]
  IoStep,         \* ports given at once (16)
  MmioBase, MmioSpace, IoBase, IoSpace, \* first values and ranges of the counters
  Buses,          \* buses with a PCIBus of their own
  MaxAssigns,     \* bound on the assignments
  Volumes,        \* [good, length, header, segments, at]
  FileHeader, FileAlign, \* bytes of a file header (24), alignment (8)
  MaxFvFiles      \* FV_MAX_FILES (128)

VARIABLES
  cpCpu,          \* CPUInitState: [bsp, microcode, msrs, long, paging]
  cpCalls,        \* history: register groups programmed since the last initialisation
  mmCtrl,         \* MemoryController: [channels, total, active, interleaved]
  mmGiven,        \* history: the modules it was given
  mmMap,          \* MemoryMap.entries: [type, base, pages]
  mmTotal,        \* history: pages of memory and MMIO base the map was built for
  pbNext,         \* g_next_mmio, g_next_io
  pbBuses,        \* devices of each bus: windows [base, size, io], << >> before
  pbGiven,        \* history: [mmio, io, times] given out in all
  fvCat           \* FVCatalog: [files, parsed, volume]

cpuvars == <<cpCpu, cpCalls>>
memvars == <<mmCtrl, mmGiven, mmMap, mmTotal>>
busvars == <<pbNext, pbBuses, pbGiven>>
volvars == <<fvCat>>
brvars == <<cpuvars, memvars, busvars, volvars>>

-----------------------------------------------------------------------------
\* Processors.

\* cpu_init_bsp, cpu_init_ap
FreshCpu(bsp) ==
  [bsp |-> bsp, microcode |-> DefaultMicrocode, msrs |-> << >>, long |-> bsp, paging |-> FALSE]
CpuInit == cpCpu = FreshCpu(TRUE) /\ cpCalls = << >>
CpuRestart(bsp) == cpCpu' = FreshCpu(bsp) /\ cpCalls' = << >>

\* cpu_init_msrs, cpu_init_mtrr (of cpu_init_caches), cpu_init_sysenter
Group(call) ==
  CASE call = "msrs" -> <<IF cpCpu.long THEN "EFER.LME" ELSE "EFER", "APIC_BASE", "MISC_ENABLE">>
                        \o (IF cpCpu.bsp THEN <<"FEATURE_CTRL">> ELSE << >>)
                        \o <<"STAR", "LSTAR", "FMASK">>
    [] call = "mtrr" -> <<"MTRRCAP", "PHYS_BASE", "PHYS_MASK">>
    [] call = "sysenter" -> <<"SYSENTER_CS", "SYSENTER_ESP", "SYSENTER_EIP">>

\* Mutant: a full list starts again from its first place.
AddMsrRound(msrs, msr) ==
  IF Len(msrs) >= MaxMsrs THEN ReplaceAt(msrs, 1, msr) ELSE Append(msrs, msr)

\* cpu_add_msr
AddMsr(msrs, msr) == IF Len(msrs) >= MaxMsrs THEN msrs ELSE Append(msrs, msr)

CpuProgram(call) ==
  /\ Len(cpCalls) < MaxCpuSteps
  /\ cpCpu' = [cpCpu EXCEPT !.msrs = FoldLeft(AddMsr, @, Group(call))]
  /\ cpCalls' = Append(cpCalls, Group(call))

\* cpu_load_microcode
LoadMicrocode(version) ==
  /\ version > cpCpu.microcode
  /\ cpCpu' = [cpCpu EXCEPT !.microcode = version]
  /\ UNCHANGED cpCalls

\* cpu_enable_paging asks for nothing.
EnablePaging ==
  /\ cpCpu' = [cpCpu EXCEPT !.paging = TRUE]
  /\ UNCHANGED cpCalls

CpuNext ==
  \/ \E bsp \in BOOLEAN : CpuRestart(bsp)
  \/ \E call \in {"msrs", "mtrr", "sysenter"} : CpuProgram(call)
  \/ \E v \in Microcodes : LoadMicrocode(v)
  \/ EnablePaging

-----------------------------------------------------------------------------
\* Memory.

MemInit ==
  /\ mmCtrl = [channels |-> << >>, total |-> 0, active |-> 0, interleaved |-> FALSE]
  /\ mmGiven = << >> /\ mmMap = << >> /\ mmTotal = << >>

\* mem_init_spd: megabytes of a module.
ModuleSize(spd) ==
  CASE spd.type = "DDR4" -> 8 * 2^spd.density * 2^spd.banks
    [] spd.type = "DDR5" -> 16384
    [] OTHER -> 2048

\* mem_init_controller: slot after slot, channel after channel; what is left over
\* is ignored.
InitController(modules) ==
  LET place(c, s) == (c - 1) * Slots + s
      filled(c)   == {s \in 1..Slots : place(c, s) <= Len(modules)}
      active      == {c \in 1..Channels : filled(c) # {}}
      sizes       == [i \in 1..Min({Len(modules), Channels * Slots}) |-> ModuleSize(modules[i])]
  IN  /\ modules # << >>
      /\ mmCtrl' = [channels    |-> [c \in 1..Channels |-> filled(c)],
                    total       |-> FoldLeft(LAMBDA a, b : a + b, 0, sizes),
                    active      |-> Cardinality(active),
                    interleaved |-> Cardinality(active) > 1]
      /\ mmGiven' = modules
      /\ UNCHANGED <<mmMap, mmTotal>>

\* Mutant: runtime services start where boot services do.
MapEntriesStacked(pages, mmio) ==
  LET boot == pages \div 4
  IN  << [type |-> "Reserved", base |-> 0, pages |-> 256],
         [type |-> "LoaderCode", base |-> 256, pages |-> 256],
         [type |-> "LoaderData", base |-> 4352, pages |-> 512],
         [type |-> "BootServices", base |-> 12544, pages |-> boot],
         [type |-> "Runtime", base |-> 12544, pages |-> pages \div 8],
         [type |-> "ACPI", base |-> 917504, pages |-> 256],
         [type |-> "MMIO", base |-> mmio, pages |-> 8192] >>

\* mem_build_map, bases in pages of 4096 bytes.
MapEntries(pages, mmio) ==
  LET boot == pages \div 4
  IN  << [type |-> "Reserved", base |-> 0, pages |-> 256],
         [type |-> "LoaderCode", base |-> 256, pages |-> 256],
         [type |-> "LoaderData", base |-> 4352, pages |-> 512],
         [type |-> "BootServices", base |-> 12544, pages |-> boot],
         [type |-> "Runtime", base |-> 12544 + boot, pages |-> pages \div 8],
         [type |-> "ACPI", base |-> 917504, pages |-> 256],
         [type |-> "MMIO", base |-> mmio, pages |-> 8192] >>
BuildMap(pages, mmio) ==
  /\ mmMap' = MapEntries(pages, mmio)
  /\ mmTotal' = <<pages, mmio>>
  /\ UNCHANGED <<mmCtrl, mmGiven>>

MemNext ==
  \/ \E n \in 1..MaxModulesGiven : \E modules \in [1..n -> Modules] : InitController(modules)
  \/ \E p \in MemoryTotals, m \in MmioBases : BuildMap(p, m)

-----------------------------------------------------------------------------
\* PCI buses.

BusInit ==
  /\ pbNext = [mmio |-> MmioBase, io |-> IoBase]
  /\ pbBuses = [b \in Buses |-> << >>]
  /\ pbGiven = [mmio |-> 0, io |-> 0, times |-> 0]

\* pci_enumerate_bus: the same devices on every bus, without windows.
EnumeratePci(b) ==
  /\ pbBuses' = [pbBuses EXCEPT ![b] = [i \in DOMAIN SimClasses |-> << >>]]
  /\ UNCHANGED <<pbNext, pbGiven>>

\* pci_assign_resources, one device: of a storage controller, the second window
\* gives way to ports, and what it took is not given back.
DeviceWindows(class, mmio, io) ==
  LET sizes == WindowSizes[class]
      base(k) == FoldLeft(LAMBDA a, s : a + s, mmio, SubSeq(sizes, 1, k - 1))
  IN  [k \in DOMAIN sizes |->
         IF k = 2 /\ class # "VGA" THEN [base |-> io, size |-> IoStep, io |-> TRUE]
         ELSE [base |-> base(k), size |-> sizes[k], io |-> FALSE]]
Taken(class) == FoldLeft(LAMBDA a, s : a + s, 0, WindowSizes[class])
TakesPorts(class) == Len(WindowSizes[class]) >= 2 /\ class # "VGA"

\* Mutant: the file's counters are not written back.
AdvancedNot(state) == pbNext

\* The counters as they are kept for the next bus, cut to 32 and 16 bits.
Advanced(state) == [mmio |-> state.mmio % MmioSpace, io |-> state.io]

\* pci_assign_resources: neither base given to it is used.
AssignResources(b) ==
  LET device(state, class) ==
        [mmio |-> state.mmio + Taken(class),
         io   |-> IF TakesPorts(class) THEN (state.io + IoStep) % IoSpace ELSE state.io,
         list |-> Append(state.list, DeviceWindows(class, state.mmio, state.io))]
      start == [mmio |-> pbNext.mmio, io |-> pbNext.io, list |-> << >>]
      end == FoldLeft(device, start, SimClasses)
  IN  /\ pbBuses[b] # << >> /\ pbGiven.times < MaxAssigns
      /\ pbBuses' = [pbBuses EXCEPT ![b] = end.list]
      /\ pbNext' = Advanced(end)
      /\ pbGiven' = [mmio  |-> pbGiven.mmio + end.mmio - pbNext.mmio,
                     io    |-> pbGiven.io + IoStep * Cardinality({i \in DOMAIN SimClasses :
                                                                    TakesPorts(SimClasses[i])}),
                     times |-> pbGiven.times + 1]

BusNext == \E b \in Buses : EnumeratePci(b) \/ AssignResources(b)

-----------------------------------------------------------------------------
\* Firmware volumes.

NoCatalog == [files |-> << >>, parsed |-> FALSE, volume |-> << >>]
VolInit == fvCat = NoCatalog

Aligned(offset) == ((offset + FileAlign - 1) \div FileAlign) * FileAlign

\* fv_scan_files, from an offset on: erased space is skipped a granule at a time,
\* a file that is not valid by its size, and a size below a header ends it.
FilesFrom(v, offset) ==
  LET from[o \in 0..(2 * v.length)] ==
        IF o + FileHeader > v.length THEN << >>
        ELSE LET file == v.at[o] IN
             IF file.state = "erased" THEN from[o + FileAlign]
             ELSE (IF file.state = "valid" THEN <<[guid |-> file.guid, offset |-> o, size |-> file.size]>>
                   ELSE << >>)
                  \o (IF file.size < FileHeader THEN << >> ELSE from[Aligned(o + file.size)])
  IN  from[offset]

\* fv_scan_files; a volume whose header is refused leaves an empty catalog.
ScanFiles(v) ==
  fvCat' = IF ~v.good THEN NoCatalog
           ELSE LET all == FilesFrom(v, Aligned(v.header))
                IN  [files |-> SubSeq(all, 1, Min({Len(all), MaxFvFiles})),
                     parsed |-> TRUE, volume |-> <<v>>]

\* fv_find_by_guid: 0 for none.
FindFile(guid) ==
  LET found == {i \in DOMAIN fvCat.files : fvCat.files[i].guid = guid}
  IN  IF found = {} THEN 0 ELSE Min(found)

VolNext == \E v \in Volumes : ScanFiles(v)

BootResourcesInit == CpuInit /\ MemInit /\ BusInit /\ VolInit
-----------------------------------------------------------------------------
\* Properties.

BootResourcesTypeOK ==
  /\ Len(cpCpu.msrs) <= MaxMsrs /\ Len(cpCalls) <= MaxCpuSteps
  /\ mmCtrl.active \in 0..Channels
  /\ pbNext.mmio \in 0..(MmioSpace - 1) /\ pbNext.io \in 0..(IoSpace - 1)
  /\ Len(fvCat.files) <= MaxFvFiles

\* The registers recorded are the first ones programmed, in order, and the others
\* are lost without a word; a processor that is not the boot processor never
\* enables virtualisation or long mode, although it may turn paging on (cpu_init.c).
RegistersExplained ==
  /\ LET all == FlattenSeq(cpCalls)
     IN  cpCpu.msrs = SubSeq(all, 1, Min({Len(all), MaxMsrs}))
  /\ ~cpCpu.bsp => {"FEATURE_CTRL", "EFER.LME"} \intersect Range(cpCpu.msrs) = {}
  /\ cpCpu.microcode >= DefaultMicrocode

\* Ranges of the map are apart exactly as long as what boot and runtime services
\* take, three eighths of the memory, ends below the ACPI tables, and MMIO is
\* above them or between (memory_init.c:219): from 9427 megabytes on they overlap.
MapIsDisjoint ==
  /\ mmMap # << >> =>
       LET end(e) == e.base + e.pages
           apart(i, j) == mmMap[i].pages = 0 \/ mmMap[j].pages = 0
                            \/ end(mmMap[i]) <= mmMap[j].base \/ end(mmMap[j]) <= mmMap[i].base
           used == 12544 + mmTotal[1] \div 4 + mmTotal[1] \div 8
       IN  (\A i, j \in DOMAIN mmMap : i < j => apart(i, j)) <=>
             /\ used <= 917504
             /\ mmTotal[2] >= 917504 + 256 \/ (mmTotal[2] >= used /\ mmTotal[2] + 8192 <= 917504)
  /\ mmGiven # << >> =>
       /\ mmCtrl.active = Min({Channels, (Len(mmGiven) + Slots - 1) \div Slots})
       /\ mmCtrl.interleaved <=> Len(mmGiven) > Slots
       /\ Len(mmGiven) <= Channels * Slots =>
            mmCtrl.total = FoldLeft(LAMBDA a, m : a + ModuleSize(m), 0, mmGiven)

\* No two windows of devices, of one bus or of two, share an address until the
\* counter of their kind has gone round (device_enum.c).
WindowsAreApart ==
  LET places == {<<b, i, k>> : b \in Buses, i \in DOMAIN SimClasses, k \in 1..2}
      there  == {p \in places : p[2] \in DOMAIN pbBuses[p[1]] /\ p[3] \in DOMAIN pbBuses[p[1]][p[2]]}
      w(p)   == pbBuses[p[1]][p[2]][p[3]]
      round(io) == IF io THEN IoBase + pbGiven.io > IoSpace ELSE MmioBase + pbGiven.mmio > MmioSpace
  IN  \A p, q \in there : p # q /\ w(p).io = w(q).io /\ ~round(w(p).io) =>
        w(p).base + w(p).size <= w(q).base \/ w(q).base + w(q).size <= w(p).base

\* The catalog has the valid files of the volume as they were laid out, one after
\* the other, up to the first whose size is no size; none for a volume whose
\* header is refused (firmware_volume.c).
CatalogListsFiles ==
  fvCat.parsed =>
    LET v    == fvCat.volume[1]
        bad  == {i \in DOMAIN v.segments : v.segments[i].state # "erased" /\ v.segments[i].size < FileHeader}
        upto == IF bad = {} THEN Len(v.segments) ELSE Min(bad)
        good == SelectSeq(SubSeq(v.segments, 1, upto), LAMBDA s : s.state = "valid")
    IN  /\ [i \in DOMAIN fvCat.files |-> fvCat.files[i].guid] =
             [i \in 1..Min({Len(good), MaxFvFiles}) |-> good[i].guid]
        /\ \A i, j \in DOMAIN fvCat.files : i < j =>
             fvCat.files[i].offset + fvCat.files[i].size <= fvCat.files[j].offset
        /\ \A f \in Range(fvCat.files) : f.offset % FileAlign = 0 /\ f.offset >= v.header
        /\ \A f \in Range(fvCat.files) : fvCat.files[FindFile(f.guid)].offset <= f.offset
=============================================================================
