------------------------------- MODULE MCBoot -------------------------------
(***************************************************************************)
(* The boot process, the boot loader, and the firmware and host services    *)
(* below them, for TLC.  They share no state; as in MCTpm a behaviour       *)
(* exercises the component, or the part of a component, named by focus.  Of *)
(* the boot manager it exercises the options or the variables, which meet   *)
(* only in the boot order: both load orders.                                *)
(***************************************************************************)
EXTENDS BootManager, BootPhases, E820Map, PageAllocator, GrubModules,
        VerifiedBoot, FirmwareServices, UefiServices, BootMedia, HardwareDesc, BootResources

VARIABLE focus

loadervars == <<bmvars, bpvars, emvars, pavars, gmvars>>
vars == <<focus, loadervars, vfvars, fwsvars, uevars, mdvars, hwvars, brvars>>

Init ==
  /\ focus \in {"options", "variables", "phases", "e820", "pages", "grub",
               "chain", "keys", "fit", "flash", "psci", "memory", "storage", "acpi",
               "protocols", "media", "sha", "clock", "chips",
               "sectors", "gpt", "pe", "acpi_info", "measure", "menu",
               "hobs", "fdt", "cpu", "dimms", "bus", "volume"}
  /\ BootMgrInit /\ BootPhasesInit /\ E820Init /\ PageInit /\ GrubInit
  /\ VerifiedBootInit /\ FirmwareServicesInit /\ UefiServicesInit /\ BootMediaInit
  /\ HardwareDescInit /\ BootResourcesInit

LoadAnOrder == \E order \in Orders : OrderLoad(order)

LoaderStep ==
  /\ UNCHANGED <<focus, vfvars, fwsvars, uevars, mdvars, hwvars, brvars>>
  /\ \/ focus = "options" /\ (OptionNext \/ LoadAnOrder) /\ UNCHANGED <<bpvars, emvars, pavars, gmvars>>
     \/ focus = "variables" /\ (VariableNext \/ LoadAnOrder) /\ UNCHANGED <<bpvars, emvars, pavars, gmvars>>
     \/ focus = "phases" /\ BootPhasesNext /\ UNCHANGED <<bmvars, emvars, pavars, gmvars>>
     \/ focus = "e820" /\ E820Next /\ UNCHANGED <<bmvars, bpvars, pavars, gmvars>>
     \/ focus = "pages" /\ PageNext /\ UNCHANGED <<bmvars, bpvars, emvars, gmvars>>
     \/ focus = "grub" /\ GrubNext /\ UNCHANGED <<bmvars, bpvars, emvars, pavars>>

VerifiedBootStep ==
  /\ UNCHANGED <<focus, loadervars, fwsvars, uevars, mdvars, hwvars, brvars>>
  /\ \/ focus = "chain" /\ ChainNext /\ UNCHANGED <<keyvars, fitvars, flashvars>>
     \/ focus = "keys" /\ KeysNext /\ UNCHANGED <<chainvars, fitvars, flashvars>>
     \/ focus = "fit" /\ FitNext /\ UNCHANGED <<chainvars, keyvars, flashvars>>
     \/ focus = "flash" /\ FlashNext /\ UNCHANGED <<chainvars, keyvars, fitvars>>

FirmwareStep ==
  /\ UNCHANGED <<focus, loadervars, vfvars, uevars, mdvars, hwvars, brvars>>
  /\ \/ focus = "psci" /\ PsciNext /\ UNCHANGED <<mcvars, norvars, acvars>>
     \/ focus = "memory" /\ MemoryNext /\ UNCHANGED <<psvars, norvars, acvars>>
     \/ focus = "storage" /\ StorageNext /\ UNCHANGED <<psvars, mcvars, acvars>>
     \/ focus = "acpi" /\ AcpiNext /\ UNCHANGED <<psvars, mcvars, norvars>>

UefiStep ==
  /\ UNCHANGED <<focus, loadervars, vfvars, fwsvars, mdvars, hwvars, brvars>>
  /\ \/ focus = "protocols" /\ ProtocolNext /\ UNCHANGED <<mediavars, shCtx, clockvars, chipvars>>
     \/ focus = "media" /\ MediaNext /\ UNCHANGED <<pdbvars, shCtx, clockvars, chipvars>>
     \/ focus = "sha" /\ ShaNext /\ UNCHANGED <<pdbvars, mediavars, clockvars, chipvars>>
     \/ focus = "clock" /\ ClockNext /\ UNCHANGED <<pdbvars, mediavars, shCtx, chipvars>>
     \/ focus = "chips" /\ ChipNext /\ UNCHANGED <<pdbvars, mediavars, shCtx, clockvars>>

MediaStep ==
  /\ UNCHANGED <<focus, loadervars, vfvars, fwsvars, uevars, hwvars, brvars>>
  /\ \/ focus = "sectors" /\ SectorNext /\ UNCHANGED <<gptvars, pevars, aivars, measvars, cfvars>>
     \/ focus = "gpt" /\ GptNext /\ UNCHANGED <<diskvars, pevars, aivars, measvars, cfvars>>
     \/ focus = "pe" /\ PeNext /\ UNCHANGED <<diskvars, gptvars, aivars, measvars, cfvars>>
     \/ focus = "acpi_info" /\ AcpiInfoNext /\ UNCHANGED <<diskvars, gptvars, pevars, measvars, cfvars>>
     \/ focus = "measure" /\ MeasureNext /\ UNCHANGED <<diskvars, gptvars, pevars, aivars, cfvars>>
     \/ focus = "menu" /\ MenuNext /\ UNCHANGED <<diskvars, gptvars, pevars, aivars, measvars>>

DescriptionStep ==
  /\ UNCHANGED <<focus, loadervars, vfvars, fwsvars, uevars, mdvars, brvars>>
  /\ \/ focus = "hobs" /\ HobNext /\ UNCHANGED fdtvars
     \/ focus = "fdt" /\ FdtNext /\ UNCHANGED hobvars

ResourceStep ==
  /\ UNCHANGED <<focus, loadervars, vfvars, fwsvars, uevars, mdvars, hwvars>>
  /\ \/ focus = "cpu" /\ CpuNext /\ UNCHANGED <<memvars, busvars, volvars>>
     \/ focus = "dimms" /\ MemNext /\ UNCHANGED <<cpuvars, busvars, volvars>>
     \/ focus = "bus" /\ BusNext /\ UNCHANGED <<cpuvars, memvars, volvars>>
     \/ focus = "volume" /\ VolNext /\ UNCHANGED <<cpuvars, memvars, busvars>>

Next == \/ LoaderStep
        \/ VerifiedBootStep
        \/ FirmwareStep
        \/ UefiStep
        \/ MediaStep
        \/ DescriptionStep
        \/ ResourceStep

Spec == Init /\ [][Next]_vars

\* The type invariants of the components.
BootTypeOK ==
  /\ BootManagerTypeOK /\ BootPhasesTypeOK /\ E820TypeOK /\ PageTypeOK /\ GrubTypeOK
  /\ VerifiedBootTypeOK /\ FirmwareServicesTypeOK /\ UefiServicesTypeOK /\ BootMediaTypeOK
  /\ HardwareDescTypeOK /\ BootResourcesTypeOK

\* The memory map and what is found in it are true of the regions reported and of
\* the bitmap (boot_memory.c).
MemoryMapTells == SanitizedMapDescribes /\ AvailabilityIsExact /\ FirstFitIsLowest

\* The verified boot block, its keys, FIT images and the flash layout: verdicts
\* follow from hashes and floors, and no list or count tells more than was done
\* (bootblock.c, fit_image.c, firmware_layout.c).
VerifiedBootHolds ==
  ChainVerdictIsExplained /\ KeysAndPcrsAccounted /\ ParsedIsNested /\ FlashStaysLevel

\* The services of firmware and UEFI account for every call, refused ones
\* included (psci_fw.c, meminit.c, mmio.c, spi_nor.c, acpi_fw.c, uefi_boot.c,
\* uefi_image_auth.c, bios_hardware.c).
ServicesAccounted ==
  /\ PsciAccounted /\ MemoryAccounted /\ StorageAccounted /\ TablesAccounted
  /\ ProtocolsAccounted /\ ShaCountsBlocks /\ ClockTellsDates /\ HardwareAccounted

\* What is read from media is what was laid out on them, whole or refused
\* (boot_chain.c, gpt.c, pe_coff.c, uefi_acpi.c, boot_secure.c, boot_config.c).
MediaReadBack ==
  /\ SectorsReadBack /\ GptReadsBack /\ ImagesAreWhole
  /\ AcpiInfoExplained /\ MeasuredIsLogged /\ MenuKeepsToItself

\* What the hardware is said to be reaches the next stage: hand-off blocks, the
\* device tree and its addresses, registers, memory, windows and volumes
\* (hob.c, device_tree.c, cpu_init.c, memory_init.c, device_enum.c,
\* firmware_volume.c).
HardwareHandedOver ==
  /\ HobsHandedOver /\ TreeFollowsBlob /\ PhandlesCached /\ AddressesFollowWindows
  /\ RegistersExplained /\ MapIsDisjoint /\ WindowsAreApart /\ CatalogListsFiles

\* Asking for a default, a sector, a region or a slot settles on the same answer
\* until the state it depends on changes (fit_image.c, mmio.c).
AnswersSettle == SelectionsSettle /\ LookupsSettle

-----------------------------------------------------------------------------
MCOptionKinds ==
  {[attributes |-> {"ACTIVE"}, has_path |-> TRUE],
   [attributes |-> {"ACTIVE", "HIDDEN"}, has_path |-> TRUE]}

\* Two names that fit, and one that is cut to one of them.
MCStoredName == [name \in {"BootOrder", "short", "long"} |-> IF name = "long" THEN "short" ELSE name]
MCVarData == {<<1>>, <<2>>}

MCRegions ==
  [base : 0 .. 2, length : 1 .. 2, type : {"FREE", "RESERVED"}]
    \union [base : {1}, length : {0}, type : {"FREE", "RESERVED"}]

\* Modules depend on up to two places of the list, filled or not.
MCDependencies == {deps \in SUBSET (1 .. 5) : Cardinality(deps) <= 2}

\* FIT blobs: good, without their end, with a node ended twice, with a broken
\* property, without magic and longer than the file.
MCFitBlobs ==
  {[magic |-> b[1], fits |-> b[2], tokens |-> b[3]] : b \in
     {<<TRUE, TRUE, <<"begin", "prop", "end_node", "end", "junk">> >>,
      <<TRUE, TRUE, <<"begin", "nop">> >>,
      <<TRUE, TRUE, <<"begin", "end_node", "end_node", "begin">> >>,
      <<TRUE, TRUE, <<"begin", "badprop">> >>,
      <<FALSE, TRUE, <<"end">> >>,
      <<TRUE, FALSE, <<"end">> >>}}

\* Regions that touch, overlap, wrap and leave the flash.
MCRegionShapes == {[offset |-> s[1], size |-> s[2]] : s \in {<<0, 2>>, <<1, 2>>, <<2, 2>>, <<6, 3>>, <<3, 2>>}}

\* A usual module, one at the ends of its fields, and one of another type.
MCSpds ==
  {[ddr4 |-> s[1], density |-> s[2], width |-> s[3], ranks |-> s[4], tck |-> s[5], rp |-> s[6], ras |-> s[7]] :
     s \in {<<TRUE, 3, 3, 0, 128, 110, 32>>, <<TRUE, 0, 4, 1, 0, 255, 65500>>, <<FALSE, 3, 3, 0, 128, 110, 32>>}}
MCMmioShapes == {[base |-> s[1], size |-> s[2]] : s \in {<<0, 2>>, <<1, 2>>, <<6, 2>>}}

\* Both centuries, leap years, BCD digits that are none.
MCDates == [century : {32, 33}, year : {0, 35, 36, 154}, month : {2, 12, 19}, day : {40, 41, 49}]
MCKbcBytes == [disabled : BOOLEAN]
MCSimDevices ==
  <<[dev |-> 0, class |-> "host"], [dev |-> 31, class |-> "isa"], [dev |-> 25, class |-> "nic"],
    [dev |-> 31, class |-> "sata"], [dev |-> 2, class |-> "vga"]>>

\* Partitions, a hole, and an entry with a type and no sectors.
MCParts ==
  {[type |-> 1, first |-> 1, last |-> 2], [type |-> 2, first |-> 3, last |-> 4],
   [type |-> 1, first |-> 5, last |-> 6], [type |-> 0, first |-> 0, last |-> 0],
   [type |-> 2, first |-> 0, last |-> 0]}
MCPartLists == UNION {[1..n -> MCParts] : n \in 0..2} \union {<<p, p, q, p>> : p, q \in MCParts}

MCPeFiles ==
  {[room |-> r, sig |-> s, plus |-> p, machine |-> m, sections |-> n, entry |-> 1, size |-> z, base |-> 5, reloc |-> l] :
     r \in BOOLEAN, s \in BOOLEAN, p \in BOOLEAN, m \in {"amd64", "mips"}, n \in {0, 3}, z \in {1, 2}, l \in BOOLEAN}
MCPeRelocs == <<"abs", "dir64", "highlow">>

\* MADTs with processors before and behind other entries, or with an entry
\* without a length, and FADTs, good and bad.
MCTables ==
  {[sig |-> "APIC", good |-> TRUE, flag |-> TRUE, entries |-> <<"c1", "ioapic", "c2">>],
   [sig |-> "APIC", good |-> TRUE, flag |-> FALSE, entries |-> <<"ioapic", "empty", "c2">>],
   [sig |-> "APIC", good |-> FALSE, flag |-> TRUE, entries |-> <<"c2">>],
   [sig |-> "FACP", good |-> TRUE, flag |-> TRUE, entries |-> << >>],
   [sig |-> "FACP", good |-> TRUE, flag |-> FALSE, entries |-> << >>]}
MCAcpiLists == UNION {[1..n -> MCTables] : n \in 0..3}

\* Keys that fit, and one that is cut to one of them.
MCStoredKey == [key \in {"a", "b", "inner", "long"} |-> IF key = "long" THEN "a" ELSE key]

\* Menus with settings inside and outside entries, an entry without a title, one that is
\* never closed, and a key that is cut set twice.
Line(kind, key, value) == [kind |-> kind, key |-> key, value |-> value]
MCMenuTexts ==
  {<<Line("menuentry", "", "t1"), Line("linux", "", "k1"), Line("set", "inner", "v"),
     Line("close", "", ""), Line("set", "a", "v1")>>,
   <<Line("set", "a", "v2"), Line("menuentry", "", ""), Line("set", "inner", "w"),
     Line("initrd", "", "i"), Line("close", "", "")>>,
   <<Line("default", "", 3), Line("set", "b", "v"), Line("menuentry", "", "t2"),
     Line("initrd", "", "i1"), Line("set", "inner", "z")>>,
   <<Line("set", "long", "v1"), Line("set", "long", "v2")>>}

Prop(name, cells) == <<[kind |-> "prop", name |-> name, cells |-> cells]>>
DtNode(name, props, kids) ==
  <<[kind |-> "begin", name |-> name]>> \o props \o kids \o <<[kind |-> "end"]>>
Blob(tokens) == [good |-> TRUE, offsets |-> TRUE, reserve |-> << >>, tokens |-> Append(tokens, [kind |-> "finish"])]

\* Trees of two levels below the root, twins, phandles and interrupts in every place.
MCProps ==
  {<< >>, Prop("phandle", <<1>>), Prop("phandle", <<2>>) \o Prop("interrupt-controller", << >>),
   Prop("interrupt-parent", <<1>>), Prop("interrupt-parent", <<2>>) \o Prop("compatible", <<"v", "w">>)}
MCTrees ==
  {Blob(DtNode("", p[1], DtNode("a", p[2], DtNode("a", p[3], << >>))
                           \o DtNode(IF p[4] = << >> THEN "a" ELSE "b", p[4], << >>))) : p \in [1..4 -> MCProps]}
\* Buses with one and two windows, of one and two cells, the last with an end that wraps.
MCRanges ==
  {<< >>, Prop("ranges", <<0, 2, 2>>), Prop("ranges", <<0, 1, 2, 2, 0, 1>>),
   Prop("ranges", <<0, 1, 2, 1, 2>>), Prop("ranges", <<3, 0, 3, 2, 0, 2>>)}
MCCells == {<< >>, Prop("#address-cells", <<1>>)}
MCBuses ==
  {Blob(DtNode("", c1, DtNode("bus", c2 \o r1, DtNode("dev", r2, << >>)))) :
     c1 \in MCCells, c2 \in MCCells, r1 \in MCRanges, r2 \in MCRanges}
\* Blobs refused for their header, their offsets or a token, cut short, ended inside a
\* node, of two roots, with more children and reservations than there is room for.
MCOddBlobs ==
  {[Blob(DtNode("", << >>, << >>)) EXCEPT !.good = FALSE],
   [Blob(DtNode("", << >>, << >>)) EXCEPT !.offsets = FALSE],
   [good |-> TRUE, offsets |-> TRUE, reserve |-> <<<<1, 1>>, <<0, 0>>, <<2, 1>>>>,
    tokens |-> <<[kind |-> "begin", name |-> ""], [kind |-> "nop"], [kind |-> "bad"]>>],
   [Blob(<< >>) EXCEPT !.tokens = DtNode("", << >>, DtNode("a", Prop("phandle", <<1>>), << >>))],
   [Blob(<< >>) EXCEPT !.tokens = Front(Front(DtNode("", << >>, DtNode("a", << >>, << >>))))],
   Blob(<<[kind |-> "begin", name |-> ""], [kind |-> "begin", name |-> "a"]>>),
   Blob(Prop("phandle", <<1>>) \o DtNode("", << >>, << >>)),
   Blob(DtNode("", Prop("phandle", <<1>>), << >>) \o DtNode("", << >>, DtNode("a", << >>, << >>))),
   Blob(DtNode("", << >>, DtNode("a", << >>, << >>) \o DtNode("a", << >>, DtNode("b", << >>, << >>)))),
   [Blob(DtNode("", << >>, DtNode("a", << >>, << >>) \o DtNode("b", << >>, << >>) \o DtNode("c", << >>, << >>))) EXCEPT
      !.reserve = <<<<1, 1>>, <<2, 0>>, <<3, 1>>>>]}
MCFtBlobs == MCTrees \union MCBuses \union MCOddBlobs
MCFtAddresses == 0..15

MCModules == {[type |-> "DDR4", density |-> 1, banks |-> 2], [type |-> "DDR3"]}
MCSimClasses == <<"VGA", "STORAGE", "STORAGE", "NETWORK">>
MCWindowSizes == [VGA |-> <<4, 1>>, STORAGE |-> <<1, 1>>, NETWORK |-> <<2>>]

\* Volumes of up to three segments: files, a file that was deleted, erased space
\* and a file shorter than its header.
Segment(guid, state, size) == [guid |-> guid, state |-> state, size |-> size]
MCSegments ==
  {Segment("f1", "valid", 3), Segment("f2", "valid", 6), Segment("f1", "deleted", 4),
   Segment("none", "erased", 2), Segment("f2", "valid", 1)}
\* The header found at an offset: of the segment that starts there; erased behind the last.
Volume(segments, header, good) ==
  LET start[i \in 1..(Len(segments) + 1)] ==
        IF i = 1 THEN Aligned(header) ELSE Aligned(start[i - 1] + segments[i - 1].size)
      here(o) == {i \in DOMAIN segments : start[i] = o}
      end == start[Len(segments) + 1] + FileAlign
  IN  [good |-> good, length |-> end, header |-> header, segments |-> segments,
       at |-> [o \in 0..(end - 1) |->
                 IF here(o) = {} THEN Segment("none", "erased", 2) ELSE segments[Min(here(o))]]]
MCVolumes ==
  {Volume(s, 3, TRUE) : s \in UNION {[1..n -> MCSegments] : n \in 0..3}} \union {Volume(<< >>, 4, FALSE)}
=============================================================================
