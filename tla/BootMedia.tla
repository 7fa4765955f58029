------------------------------- MODULE BootMedia -------------------------------
(***************************************************************************)
(* What a boot loader reads before it hands over: sectors and GPT           *)
(* partitions (mini-bios-uefi gpt.c, mini-bootloader boot_chain.c), PE/COFF *)
(* images (pe_coff.c), the ACPI tables of the firmware (uefi_acpi.c), the   *)
(* measurements it takes (boot_secure.c) and its menu (boot_config.c).      *)
(*                                                                         *)
(* Abstracted: a sector holds one value, a file is the fields the loader    *)
(* reads of it, a line of the menu is the directive it was recognised as.   *)
(* Not modelled: SHA-256 of boot_secure.c, its certificates, the tokenizer. *)
(***************************************************************************)
EXTENDS Integers, Sequences, FiniteSets, FiniteSetsExt, SequencesExt, EventReplay

CONSTANTS
  SectorWord,    \* sectors a 32-bit byte offset reaches (2^23)
  DiskSectors,   \* sectors of the disk image
  SectorLbas,    \* block numbers accessed; not the last before the wrap, the end of
                 \* which wraps to 0, so that the access is not kept inside the image
  SectorValues,  \* contents of sectors
  GptEntries,    \* GPT_MIN_PARTITIONS (128)
  GptTypes,      \* partition types; 0 is an unused entry
  PartLists,     \* partition lists written: sequences of [type, first, last]
  PeFiles,       \* files: [room, sig, plus, machine, sections, entry, size, base, reloc]
  PeMachines,    \* machines pecoff_is_valid_pe_machine knows
  PeRelocs,      \* types of the relocations of an image, in order
  PeBases,       \* load addresses
  PeWord, PeHalf, \* number of values of 64 bits, and of 32 bits
  MaxPeSections, \* sections kept (32)
  MaxRelocations, \* bound on the relocations of one image
  AcpiLists,     \* tables of an XSDT: sequences of [sig, good, flag, entries]
  MaxXsdtTables, \* ACPI_MAX_TABLES of uefi_acpi.h
  MaxLapics,     \* ACPI_MAX_LAPIC
  MaxParses,     \* bound on the tables seen
  BmPcrs,        \* PCR indexes asked for
  BmMaxPcr,      \* BOOTSEC_MAX_PCR (24)
  BmDigests,     \* digests of what is measured
  MaxBmEvents,   \* BOOTSEC_MAX_EVENTS (128)
  MenuTexts,     \* menus: sequences of [kind, key, value]
  StoredKey,     \* the key a key is stored as: BOOTCFG_MAX_KEY (64) cuts it at 63 bytes
  InnerKeys,     \* keys these menus set between the braces of an entry only
  MaxMenuEntries, MaxGlobals \* BOOTCFG_MAX_ENTRIES, and 32

ASSUME BootMediaAssumption ==
  /\ StoredKey \in [DOMAIN StoredKey -> DOMAIN StoredKey]
  /\ \A key \in DOMAIN StoredKey : StoredKey[StoredKey[key]] = StoredKey[key]
  /\ InnerKeys \subseteq DOMAIN StoredKey

VARIABLES
  sdDisk,        \* contents of the sectors
  sdWrote,       \* history: last value written, by block number
  gpDisk,        \* GPTDisk: [sig, count, entries]
  gpHeader,      \* the header last read, << >> before
  gpParts,       \* the partitions last read
  gpBuilt,       \* history: the list the disk was built from, and what was read since
  peHeader,      \* PEHeader
  peLoaded,      \* history: the file the header was completely read from, or << >>
  peImage,       \* the words the relocations of the image lead to
  peBases,       \* history: the addresses it was relocated to
  aiInfo,        \* ACPISystemInfo: [count, lapics, pic, dsdt]
  aiSeen,        \* history: the tables accepted so far
  bmLog,         \* BootMeasureLog: [events, values, initialized]
  cfMenu,        \* BootConfig: [entries, globals, default]
  cfRefused      \* history: a menuentry line was refused

diskvars == <<sdDisk, sdWrote>>
gptvars == <<gpDisk, gpHeader, gpParts, gpBuilt>>
pevars == <<peHeader, peLoaded, peImage, peBases>>
aivars == <<aiInfo, aiSeen>>
measvars == <<bmLog>>
cfvars == <<cfMenu, cfRefused>>
mdvars == <<diskvars, gptvars, pevars, aivars, measvars, cfvars>>

-----------------------------------------------------------------------------
\* Sectors.

SectorInit ==
  /\ sdDisk = [s \in 0..(DiskSectors - 1) |-> 0]
  /\ sdWrote = [l \in SectorLbas |-> << >>]

\* The sector that a block number leads to: the byte offset has 32 bits.
SectorOf(lba) == lba % SectorWord
SectorThere(lba) == (SectorOf(lba) + 1) % SectorWord <= DiskSectors

\* sector_write
SectorWrite(lba, value) ==
  /\ SectorThere(lba)
  /\ sdDisk' = [sdDisk EXCEPT ![SectorOf(lba)] = value]
  /\ sdWrote' = [l \in SectorLbas |->
                   IF l = lba THEN <<value>>
                   ELSE IF SectorOf(l) = SectorOf(lba) THEN << >> ELSE sdWrote[l]]

\* sector_read, chain_load_boot_sector
SectorRead(lba) == IF SectorThere(lba) THEN <<sdDisk[SectorOf(lba)]>> ELSE << >>

\* Mutant: sectors are counted from 0.
ChsFromZero(lba, heads, spt) ==
  [cylinder |-> (lba \div (heads * spt)) % 65536,
   head |-> (lba \div spt) % heads, sector |-> lba % spt]

\* chs_from_lba, lba_from_chs
ChsOf(lba, heads, spt) ==
  [cylinder |-> (lba \div (heads * spt)) % 65536,
   head |-> (lba \div spt) % heads, sector |-> (lba % spt) + 1]
LbaOf(chs, heads, spt) == (chs.cylinder * heads + chs.head) * spt + (chs.sector - 1)

SectorNext == \E l \in SectorLbas, v \in SectorValues : SectorWrite(l, v)

-----------------------------------------------------------------------------
\* GPT.

NoEntry == [type |-> 0, first |-> 0, last |-> 0]
GptInit ==
  /\ gpDisk = [sig |-> FALSE, count |-> 0, entries |-> [i \in 1..GptEntries |-> NoEntry]]
  /\ gpHeader = << >> /\ gpParts = << >> /\ gpBuilt = [list |-> << >>, header |-> FALSE, parts |-> FALSE]

\* gpt_build_disk
GptBuild(list) ==
  /\ gpDisk' = [sig |-> TRUE, count |-> GptEntries,
                entries |-> [i \in 1..GptEntries |->
                               IF i <= Len(list) THEN list[i] ELSE NoEntry]]
  /\ gpBuilt' = [list |-> list, header |-> FALSE, parts |-> FALSE]
  /\ UNCHANGED <<gpHeader, gpParts>>

\* gpt_read_header copies the header before it looks at the signature.
GptReadHeader ==
  /\ gpHeader' = <<[sig |-> gpDisk.sig, count |-> gpDisk.count]>>
  /\ gpBuilt' = [gpBuilt EXCEPT !.header = gpDisk.sig]
  /\ UNCHANGED <<gpDisk, gpParts>>

\* gpt_read_partitions, with room for max: the entries of a type, closed up.
GptReadPartitions(max) ==
  /\ gpHeader # << >> /\ gpHeader[1].sig
  /\ gpParts' = SelectSeq(SubSeq(gpDisk.entries, 1, Min({gpHeader[1].count, max, GptEntries})),
                          LAMBDA e : e.type # 0)
  /\ gpBuilt' = [gpBuilt EXCEPT !.parts = gpBuilt.header /\ max >= GptEntries]
  /\ UNCHANGED <<gpDisk, gpHeader>>

\* Mutant: the search returns the last partition of the type.
FirstOfTypeLast(list, type) ==
  LET found == {i \in DOMAIN list : list[i].type = type}
  IN  IF found = {} THEN << >> ELSE <<list[Max(found)]>>

\* gpt_find_partition_by_type
FirstOfType(list, type) ==
  LET found == {i \in DOMAIN list : list[i].type = type}
  IN  IF found = {} THEN << >> ELSE <<list[Min(found)]>>

\* gpt_find_partition of boot_chain.c: an unused entry is one without blocks.
ChainFind(type) ==
  FirstOfType(SelectSeq(gpDisk.entries, LAMBDA e : e.first # 0 \/ e.last # 0), type)

GptNext ==
  \/ \E list \in PartLists : GptBuild(list)
  \/ GptReadHeader
  \/ \E max \in 1..(GptEntries + 1) : GptReadPartitions(max)

-----------------------------------------------------------------------------
\* PE/COFF.

NoPe == [machine |-> "none", sections |-> 0, entry |-> 0, size |-> 0, base |-> 0, reloc |-> FALSE]
PeInit == peHeader = NoPe /\ peLoaded = << >> /\ peImage = << >> /\ peBases = << >>

\* Mutant: the header is not cleared first.
PeReadOver(file) ==
  IF ~file.sig THEN peHeader
  ELSE IF ~file.plus THEN [peHeader EXCEPT !.machine = file.machine, !.sections = file.sections]
  ELSE [machine |-> file.machine, sections |-> Min({file.sections, MaxPeSections}),
        entry |-> file.entry, size |-> file.size, base |-> file.base, reloc |-> file.reloc]

\* pecoff_load_from_buffer: what a load that fails leaves in the header.
PeRead(file) ==
  IF ~file.sig THEN NoPe
  ELSE IF ~file.plus THEN [NoPe EXCEPT !.machine = file.machine, !.sections = file.sections]
  ELSE [machine |-> file.machine, sections |-> Min({file.sections, MaxPeSections}),
        entry |-> file.entry, size |-> file.size, base |-> file.base, reloc |-> file.reloc]

\* The words of an image laid out for an address: at each relocation, its number
\* from there on, in as many bits as it has.
Words(base) ==
  [i \in DOMAIN PeRelocs |-> (base + i) % (IF PeRelocs[i] = "highlow" THEN PeHalf ELSE PeWord)]

\* A file too short for a header leaves the header as it was.
PeLoad(file) ==
  IF ~file.room THEN UNCHANGED pevars
  ELSE /\ peHeader' = PeRead(file)
       /\ peLoaded' = IF file.sig /\ file.plus THEN <<file>> ELSE << >>
       /\ peImage' = IF file.sig /\ file.plus THEN Words(file.base) ELSE << >>
       /\ peBases' = << >>

\* pecoff_validate_header
PeValid ==
  /\ peHeader.machine \in PeMachines /\ peHeader.sections > 0
  /\ peHeader.entry < peHeader.size

\* pecoff_relocate: the distance is added to what is there, each time it is called;
\* nothing is for a distance of 0, nor without a .reloc section.
Relocated(i, delta) ==
  CASE PeRelocs[i] = "dir64"   -> (peImage[i] + delta) % PeWord
    [] PeRelocs[i] = "highlow" -> (peImage[i] + delta) % PeHalf
    [] OTHER                   -> peImage[i]
PeRelocate(base) ==
  /\ peLoaded # << >> /\ Len(peBases) < MaxRelocations
  /\ base = peHeader.base \/ peHeader.reloc
  /\ peImage' = [i \in DOMAIN PeRelocs |-> Relocated(i, (base - peHeader.base) % PeWord)]
  /\ peBases' = Append(peBases, base)
  /\ UNCHANGED <<peHeader, peLoaded>>

PeNext == (\E f \in PeFiles : PeLoad(f)) \/ \E b \in PeBases : PeRelocate(b)

-----------------------------------------------------------------------------
\* ACPI tables of the firmware.

NoInfo == [count |-> 0, lapics |-> << >>, pic |-> FALSE, dsdt |-> 0]
AcpiInfoInit == aiInfo = NoInfo /\ aiSeen = << >>

\* acpi_init_info
AcpiInfoRestart == aiInfo' = NoInfo /\ aiSeen' = << >>

\* acpi_parse_madt: up to an entry without length, and as many as there is room for.
MadtLapics(entries) ==
  LET bad   == {i \in DOMAIN entries : entries[i] = "empty"}
      upto  == SubSeq(entries, 1, IF bad = {} THEN Len(entries) ELSE Min(bad) - 1)
      local == SelectSeq(upto, LAMBDA e : e # "ioapic")
  IN  SubSeq(local, 1, Min({Len(local), MaxLapics}))

\* acpi_parse_xsdt, one table: FADT and MADT both say whether there is a PIC.
ParseTable(info, table) ==
  IF info.count >= MaxXsdtTables \/ ~table.good THEN info
  ELSE [count  |-> info.count + 1,
        lapics |-> IF table.sig = "APIC" THEN MadtLapics(table.entries) ELSE info.lapics,
        pic    |-> CASE table.sig = "APIC" -> table.flag
                     [] table.sig = "FACP" -> ~table.flag
                     [] OTHER -> info.pic,
        dsdt   |-> IF table.sig = "FACP" THEN IF table.flag THEN 1 ELSE 2 ELSE info.dsdt]

\* Mutant: the count of an earlier parse stays.
ParseXsdtKeepsCount(list) ==
  LET good == SelectSeq(list, LAMBDA t : t.good)
  IN  /\ Len(aiSeen) < MaxParses
      /\ aiInfo' = FoldLeft(ParseTable, aiInfo, list)
      /\ aiSeen' = aiSeen \o SubSeq(good, 1, Min({MaxXsdtTables, Len(good)}))

\* acpi_parse_xsdt: what earlier parses found stays, but for the count.
ParseXsdt(list) ==
  LET good == SelectSeq(list, LAMBDA t : t.good)
  IN  /\ Len(aiSeen) < MaxParses
      /\ aiInfo' = FoldLeft(ParseTable, [aiInfo EXCEPT !.count = 0], list)
      /\ aiSeen' = aiSeen \o SubSeq(good, 1, Min({MaxXsdtTables, Len(good)}))

AcpiInfoNext == AcpiInfoRestart \/ \E list \in AcpiLists : ParseXsdt(list)

-----------------------------------------------------------------------------
\* Measurements.

NoMeasurements ==
  [events |-> << >>, values |-> [p \in 0..(BmMaxPcr - 1) |-> << >>], initialized |-> {}]
MeasureInit == bmLog = NoMeasurements

\* boot_measure_init
MeasureRestart == bmLog' = NoMeasurements

\* Mutant: the event is counted before the PCR is asked for.
MeasureEventCounted(p, digest) ==
  /\ Len(bmLog.events) < MaxBmEvents
  /\ bmLog' = [events |-> Append(bmLog.events, [pcr |-> p, digest |-> digest]),
               values |-> IF p < BmMaxPcr THEN [bmLog.values EXCEPT ![p] = Append(@, digest)]
                          ELSE bmLog.values,
               initialized |-> bmLog.initialized \union ({p} \intersect 0..(BmMaxPcr - 1))]

\* boot_measure_event: nothing happens for a full log or an unknown PCR.
MeasureEvent(p, digest) ==
  /\ Len(bmLog.events) < MaxBmEvents /\ p < BmMaxPcr
  /\ bmLog' = [events |-> Append(bmLog.events, [pcr |-> p, digest |-> digest]),
               values |-> [bmLog.values EXCEPT ![p] = Append(@, digest)],
               initialized |-> bmLog.initialized \union {p}]

\* pcr_verify
BmPcrVerify(p, expected) ==
  p < BmMaxPcr /\ p \in bmLog.initialized /\ bmLog.values[p] = expected

MeasureNext == MeasureRestart \/ \E p \in BmPcrs, d \in BmDigests : MeasureEvent(p, d)

-----------------------------------------------------------------------------
\* The menu.

MenuInit == cfMenu = [entries |-> << >>, globals |-> << >>, default |-> 0] /\ cfRefused = FALSE

\* Mutant: the settings there are are not searched.
WithGlobalAppended(globals, key, value) ==
  IF Len(globals) >= MaxGlobals THEN globals
  ELSE Append(globals, [key |-> StoredKey[key], value |-> value])

\* bootcfg_set_global: the key it is given is compared with the keys as they were stored,
\* so that a key that is cut is never found again and every call adds it once more.
WithGlobal(globals, key, value) ==
  LET at == {i \in DOMAIN globals : globals[i].key = key}
  IN  IF at # {} THEN [globals EXCEPT ![Min(at)].value = value]
      ELSE IF Len(globals) >= MaxGlobals THEN globals
      ELSE Append(globals, [key |-> StoredKey[key], value |-> value])

\* bootcfg_parse, one line outside the braces of an entry.  An entry for which
\* there is no room, or no title, is left where its lines are read as global.
GlobalLine(p, line) ==
  CASE line.kind = "menuentry" ->
         IF Len(p.menu.entries) < MaxMenuEntries /\ line.value # ""
         THEN [p EXCEPT !.inside = TRUE,
                        !.menu.entries = Append(@, [title |-> line.value, kernel |-> "", initrd |-> ""])]
         ELSE [p EXCEPT !.refused = TRUE]
    [] line.kind = "set" -> [p EXCEPT !.menu.globals = WithGlobal(@, line.key, line.value)]
    [] line.kind = "default" -> [p EXCEPT !.menu.default = line.value]
    [] OTHER -> p

\* bootcfg_parse, one line between the braces.
EntryLine(p, line) ==
  LET k == Len(p.menu.entries)
  IN  CASE line.kind = "close"  -> [p EXCEPT !.inside = FALSE]
        [] line.kind = "linux"  -> [p EXCEPT !.menu.entries[k].kernel = line.value]
        [] line.kind = "initrd" -> [p EXCEPT !.menu.entries[k].initrd = line.value]
        [] OTHER -> p

\* Mutant: settings are looked for before the braces are.
MenuLineAnywhere(p, line) ==
  IF p.inside /\ line.kind # "set" THEN EntryLine(p, line) ELSE GlobalLine(p, line)

MenuLine(p, line) == IF p.inside THEN EntryLine(p, line) ELSE GlobalLine(p, line)

\* bootcfg_parse adds to the menu; an entry not closed ends with the text.
MenuParse(text) ==
  LET p == FoldLeft(MenuLine, [menu |-> cfMenu, inside |-> FALSE, refused |-> FALSE], text)
  IN  cfMenu' = p.menu /\ cfRefused' = (cfRefused \/ p.refused)

\* bootcfg_add_entry
MenuAdd(title) ==
  /\ Len(cfMenu.entries) < MaxMenuEntries
  /\ cfMenu' = [cfMenu EXCEPT !.entries = Append(@, [title |-> title, kernel |-> "k", initrd |-> ""])]
  /\ UNCHANGED cfRefused

\* bootcfg_set_global, called from outside
MenuSet(key, value) ==
  /\ cfMenu' = [cfMenu EXCEPT !.globals = WithGlobal(@, key, value)]
  /\ UNCHANGED cfRefused

\* bootcfg_get_global: the first, as a set
MenuGet(key) ==
  LET at == {i \in DOMAIN cfMenu.globals : cfMenu.globals[i].key = key}
  IN  {cfMenu.globals[i].value : i \in {i \in at : \A j \in at : i <= j}}

\* bootcfg_set_default
MenuSetDefault(i) ==
  /\ i < MaxMenuEntries
  /\ cfMenu' = [cfMenu EXCEPT !.default = i]
  /\ UNCHANGED cfRefused

\* bootcfg_get_default
MenuDefault ==
  IF cfMenu.default < Len(cfMenu.entries) THEN cfMenu.default + 1
  ELSE IF cfMenu.entries # << >> THEN 1 ELSE 0

MenuNext ==
  \/ \E text \in MenuTexts : MenuParse(text)
  \/ MenuAdd("added")
  \/ \E key \in DOMAIN StoredKey \ InnerKeys, value \in {"v1", "v2"} : MenuSet(key, value)
  \/ \E i \in 0..MaxMenuEntries : MenuSetDefault(i)

BootMediaInit == SectorInit /\ GptInit /\ PeInit /\ AcpiInfoInit /\ MeasureInit /\ MenuInit
-----------------------------------------------------------------------------
\* Properties.

BootMediaTypeOK ==
  /\ sdDisk \in [0..(DiskSectors - 1) -> SectorValues \union {0}]
  /\ gpDisk.count \in {0, GptEntries} /\ Len(gpParts) <= GptEntries
  /\ peHeader.machine \in STRING /\ Len(peBases) <= MaxRelocations
  /\ aiInfo.count \in 0..MaxXsdtTables /\ Len(aiInfo.lapics) <= MaxLapics
  /\ Len(bmLog.events) <= MaxBmEvents
  /\ Len(cfMenu.entries) <= MaxMenuEntries /\ Len(cfMenu.globals) <= MaxGlobals

\* A sector reads as what was written under its number, unless a number that
\* wraps onto it was written since; and a block number survives the way to
\* cylinder, head and sector and back as long as the cylinder fits (boot_chain.c).
SectorsReadBack ==
  /\ \A l \in SectorLbas : sdWrote[l] # << >> => SectorRead(l) = sdWrote[l]
  /\ \A l \in SectorLbas, heads, spt \in 1..3 :
       LbaOf(ChsOf(l, heads, spt), heads, spt) = l

\* A partition list that was built and read again is what it was, entries without
\* a type left out; and both loaders find the same partition of a type as long as
\* no entry of it is without blocks (gpt.c, boot_chain.c).
GptReadsBack ==
  gpBuilt.parts =>
    LET list == SubSeq(gpBuilt.list, 1, Min({Len(gpBuilt.list), GptEntries}))
    IN  /\ gpParts = SelectSeq(list, LAMBDA e : e.type # 0)
        /\ \A t \in GptTypes \ {0} :
             (\A e \in Range(list) : e.type = t => e.last > 0) =>
               /\ FirstOfType(gpParts, t) = ChainFind(t)
               /\ ChainFind(t) = << >> \/
                    \E i \in DOMAIN list : /\ ChainFind(t) = <<list[i]>>
                                           /\ \A j \in 1..(i - 1) : list[j].type # t

\* A header that validates was read from one file as a whole, whatever failed
\* before or after; and every word of an image is right for the address it was
\* relocated to once: relocating it again adds the distance again (pe_coff.c).
ImagesAreWhole ==
  /\ PeValid => /\ peLoaded # << >>
                /\ peHeader.entry = peLoaded[1].entry /\ peHeader.size = peLoaded[1].size
  /\ peLoaded # << >> =>
       LET base  == peHeader.base
           moved == FoldLeft(LAMBDA sum, b : sum + (b - base), base, peBases)
       IN  \A i \in DOMAIN PeRelocs :
             peImage[i] = Words(IF PeRelocs[i] = "abs" THEN base ELSE moved)[i]

\* The processors are those of the last MADT ever accepted, a PIC is there as the
\* last FADT or MADT says, and the tables counted are those of the last parse, at
\* most (uefi_acpi.c).
AcpiInfoExplained ==
  LET last(sigs) == {i \in DOMAIN aiSeen : /\ aiSeen[i].sig \in sigs
                                           /\ \A j \in (i + 1)..Len(aiSeen) : aiSeen[j].sig \notin sigs}
  IN  /\ \A i \in last({"APIC"}) : aiInfo.lapics = MadtLapics(aiSeen[i].entries)
      /\ last({"APIC"}) = {} => aiInfo.lapics = << >>
      /\ \A i \in last({"APIC", "FACP"}) : aiInfo.pic = (aiSeen[i].flag <=> aiSeen[i].sig = "APIC")
      /\ \E list \in AcpiLists \union {<< >>} :
           aiInfo.count = Min({MaxXsdtTables, Len(SelectSeq(list, LAMBDA t : t.good))})
      /\ aiInfo.count <= Len(aiSeen)

\* Every PCR of the loader is what its log replays, and verifies exactly once
\* something was measured into it (boot_secure.c).
MeasuredIsLogged ==
  \A p \in BmPcrs :
    LET digests == Replay(bmLog.events, p)
    IN  BmPcrVerify(p, digests) <=> digests # << >>

\* What stands between the braces of an entry never becomes a global setting
\* unless the entry was refused; a setting has one value unless a longer key is cut to
\* its key, a key that is cut has none under its full name, however often it was set
\* (bootcfg_set_global); and there is a default entry as soon as there is any.
MenuKeepsToItself ==
  /\ ~cfRefused => \A g \in Range(cfMenu.globals) : g.key \notin InnerKeys
  /\ \A i, j \in DOMAIN cfMenu.globals :
       i # j /\ cfMenu.globals[i].key = cfMenu.globals[j].key =>
         \E key \in DOMAIN StoredKey : key # cfMenu.globals[i].key /\ StoredKey[key] = cfMenu.globals[i].key
  /\ \A key \in DOMAIN StoredKey : StoredKey[key] # key => MenuGet(key) = {}
  /\ MenuDefault \in DOMAIN cfMenu.entries \/ cfMenu.entries = << >>
=============================================================================
