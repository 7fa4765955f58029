----------------------------- MODULE UefiServices -----------------------------
(***************************************************************************)
(* What mini-bios-uefi runs on: the protocol database, block I/O and        *)
(* graphics modes of the UEFI boot services (uefi_boot.c, uefi_protocols.c),*)
(* the streaming SHA-256 of image authentication (uefi_image_auth.c), and   *)
(* the PC hardware with its legacy BIOS (bios_hardware.c, legacy_bios.c).   *)
(*                                                                         *)
(* Abstracted: interfaces and handlers are model values; the compression    *)
(* function of SHA-256 is only counted; a CMOS register inside the checksum *)
(* stands for all of them.  Not modelled: the stubs of the boot services    *)
(* that keep no state, device paths, PIC and A20 bits, printing.            *)
(***************************************************************************)
EXTENDS Integers, Sequences, FiniteSets, FiniteSetsExt, SequencesExt

CONSTANTS
  Guids,          \* GUIDs of protocols
  Interfaces,     \* interface pointers; NULL is not among them
  MaxHandles,     \* bound on the handles made
  MaxProtocols,   \* MAX_PROTOCOL_ENTRIES (128)
  IoWord,         \* number of values of a 64-bit block number
  LastBlock,      \* last_block of the medium
  MaxMode,        \* max_mode of the graphics output
  ShaBlock, ShaTail, \* bytes of a block (64), and of the length field (8)
  ShaChunks,      \* lengths of updates
  MaxShaBytes,    \* bound on the bytes hashed
  Dates,          \* RTC registers offered: [century, year, month, day], in bytes
  CmosValues,     \* values of a checksummed register
  KbcBytes,       \* configuration bytes: [disabled |-> BOOLEAN]
  SimDevices,     \* g_sim_devices: sequence of [dev, class]
  MaxPciDevices,  \* PCI_MAX_DEVICES (256)
  MaxScans        \* bound on the scans of the bus

VARIABLES
  upDb,           \* protocol_db: [handle, guid, iface], iface << >> when NULL
  upHandles,      \* handles made by install_protocol
  upLast,         \* history: what was last installed under a handle and a GUID
  upIo,           \* history: the last block request that was carried out
  upMode,         \* [readonly, present, mode]: media flags and gop mode
  shCtx,          \* SHA256Context: [total, used, blocks, final]
  cmDate,         \* the date registers
  cmBinary,       \* bit 0x04 of STATUS_B
  cmTime,         \* history: the time the last successful read returned, or << >>
  cmRam,          \* [byte, stored]: a checksummed byte, the checksum
  cmStale,        \* history: a checksummed byte changed after the checksum
  kbState,        \* KBCState: [enabled, disabled]: the flag, and bit 0x10 of config_byte
  kbData,         \* history: the configuration was written since the last command
  pcDevices,      \* PCIBus.devices: positions in SimDevices
  pcScans,        \* history: scans since pci_bus_init
  ivt             \* the vectors of the services and of one more

pdbvars == <<upDb, upHandles, upLast>>
mediavars == <<upIo, upMode>>
clockvars == <<cmDate, cmBinary, cmTime>>
kbdvars == <<kbState, kbData>>
pcivars == <<pcDevices, pcScans>>
chipvars == <<cmRam, cmStale, kbdvars, pcivars, ivt>>
uevars == <<pdbvars, mediavars, shCtx, clockvars, chipvars>>

-----------------------------------------------------------------------------
\* The protocol database, block I/O and graphics.

NoInterface == << >>

\* uefi_boot_services_init
ProtocolInit ==
  /\ upDb = << >> /\ upHandles = 0 /\ upLast = << >>
  /\ upIo = << >> /\ upMode = [readonly |-> FALSE, present |-> TRUE, mode |-> 0]

\* Where an interface is installed on a handle, as a set of at most one place.
Installed(h, g) == {i \in DOMAIN upDb : upDb[i].handle = h /\ upDb[i].guid = g}

\* uefi_install_protocol: for a new handle, h is the next; it is made, and given
\* to the caller, even when there is no room for the entry.
InstallProtocol(h, g, iface) ==
  /\ h \in 1..(upHandles + 1) /\ h <= MaxHandles
  /\ upHandles' = IF h > upHandles THEN h ELSE upHandles
  /\ LET entry == [handle |-> h, guid |-> g, iface |-> <<iface>>]
     IN  IF Installed(h, g) # {}
         THEN /\ upDb' = [upDb EXCEPT ![Min(Installed(h, g))].iface = <<iface>>]
              /\ upLast' = ReplaceAt(upLast, Min({i \in DOMAIN upLast :
                               upLast[i].handle = h /\ upLast[i].guid = g}), entry)
         ELSE IF Len(upDb) < MaxProtocols
         THEN upDb' = Append(upDb, entry) /\ upLast' = Append(upLast, entry)
         ELSE UNCHANGED <<upDb, upLast>>

\* uefi_locate_protocol: the first entry with the GUID; 0 for EFI_NOT_FOUND.
Locate(g) == LET found == {i \in DOMAIN upDb : upDb[i].guid = g}
             IN  IF found = {} THEN 0 ELSE Min(found)

\* No boot service takes an interface away; its owner overwrites the pointer.
DropInterface(i) ==
  /\ upDb[i].iface # NoInterface
  /\ upDb' = [upDb EXCEPT ![i].iface = NoInterface]
  /\ UNCHANGED <<upHandles, upLast>>

\* Mutant: the entry moved down is the one before.
CompactedShifted ==
  LET kept == SelectSeq(upDb, LAMBDA e : e.iface # NoInterface)
  IN  [i \in DOMAIN kept |-> IF i = 1 THEN kept[1] ELSE kept[i - 1]]

\* uefi_collect_garbage_protocols
Compacted == SelectSeq(upDb, LAMBDA e : e.iface # NoInterface)
CollectGarbage ==
  /\ upDb' = Compacted
  /\ upLast' = SelectSeq(upLast, LAMBDA e : \E i \in Installed(e.handle, e.guid) :
                                               upDb[i].iface # NoInterface)
  /\ UNCHANGED upHandles

\* The medium is changed by its driver.
ChangeMedium(present, readonly) ==
  /\ upMode' = [upMode EXCEPT !.present = present, !.readonly = readonly]
  /\ UNCHANGED upIo

\* uefi_block_io_read, uefi_block_io_write: both sides of the comparison wrap.
BlockIo(lba, count, write) ==
  /\ upMode.present /\ ~(write /\ upMode.readonly)
  /\ (lba + count) % IoWord <= (LastBlock + 1) % IoWord
  /\ upIo' = <<[lba |-> lba, count |-> count, write |-> write]>>
  /\ UNCHANGED upMode

\* uefi_gop_set_mode records the mode before the driver may refuse it.
GopSetMode(mode) ==
  /\ mode <= MaxMode
  /\ upMode' = [upMode EXCEPT !.mode = mode]
  /\ UNCHANGED upIo

ProtocolNext ==
  \/ \E h \in 1..MaxHandles, g \in Guids, i \in Interfaces : InstallProtocol(h, g, i)
  \/ \E i \in DOMAIN upDb : DropInterface(i)
  \/ CollectGarbage

MediaNext ==
  \/ \E present, readonly \in BOOLEAN : ChangeMedium(present, readonly)
  \/ \E lba, count \in 0..(IoWord - 1), write \in BOOLEAN : BlockIo(lba, count, write)
  \/ \E mode \in 0..(MaxMode + 1) : GopSetMode(mode)

-----------------------------------------------------------------------------
\* SHA-256 as a stream.

NoBytes == [total |-> 0, used |-> 0, blocks |-> 0, final |-> FALSE]
ShaInit == shCtx = NoBytes

\* sha256_init, of a context used before or not.
ShaRestart == shCtx' = NoBytes

\* sha256_update, ignored once finalized.
ShaUpdate(len) ==
  /\ ~shCtx.final /\ len > 0 /\ shCtx.total + len <= MaxShaBytes
  /\ shCtx' = [total  |-> shCtx.total + len,
               used   |-> (shCtx.used + len) % ShaBlock,
               blocks |-> shCtx.blocks + (shCtx.used + len) \div ShaBlock,
               final  |-> FALSE]

\* Mutant: a full last block is taken to leave room for the length.
ShaPaddingBlocks(used) == IF used + 1 > ShaBlock - ShaTail + 1 THEN 2 ELSE 1

\* sha256_finalize: the blocks that the 0x80 byte, the zeros and the length take.
ShaPadding(used) == IF used + 1 > ShaBlock - ShaTail THEN 2 ELSE 1
ShaFinalize ==
  /\ ~shCtx.final
  /\ shCtx' = [shCtx EXCEPT !.final = TRUE, !.blocks = @ + ShaPadding(shCtx.used)]

ShaNext ==
  \/ ShaRestart
  \/ \E len \in ShaChunks : ShaUpdate(len)
  \/ ShaFinalize

-----------------------------------------------------------------------------
\* CMOS and RTC, keyboard controller, PCI, interrupt vectors.

Services == {"video", "disk", "bootstrap"}
Vectors == Services \union {"other"}

\* cmos_init (which leaves the century in RAM at 0), kbc_init, pci_bus_init,
\* bios_init_ivt
HardwareInit ==
  /\ cmDate = [century |-> 0, year |-> 0, month |-> 0, day |-> 0]
  /\ cmBinary = FALSE /\ cmTime = << >>
  /\ cmRam = [byte |-> 0, stored |-> 0] /\ cmStale = FALSE
  /\ kbState = [enabled |-> TRUE, disabled |-> FALSE] /\ kbData = FALSE
  /\ pcDevices = << >> /\ pcScans = 0
  /\ ivt = [v \in Vectors |-> "default"]

\* cmos_write of the date registers, one after the other by the caller.
WriteDate(date) ==
  /\ cmDate' = date
  /\ UNCHANGED <<cmBinary, cmTime>>

\* cmos_write of a register below the checksum, which it leaves alone.
WriteCmos(value) ==
  /\ value # cmRam.byte
  /\ cmRam' = [cmRam EXCEPT !.byte = value]
  /\ cmStale' = (value # cmRam.stored)
  /\ UNCHANGED <<kbdvars, pcivars, ivt>>

\* cmos_write of STATUS_B: bit 0x04, binary mode, is masked away.
WriteStatusB ==
  /\ cmBinary' = FALSE
  /\ UNCHANGED <<cmDate, cmTime>>

\* cmos_update_checksum
UpdateChecksum ==
  /\ cmRam' = [cmRam EXCEPT !.stored = cmRam.byte]
  /\ cmStale' = FALSE
  /\ UNCHANGED <<kbdvars, pcivars, ivt>>

BcdToBin(b) == (b \div 16) * 10 + (b % 16)
IsLeapYear(y) == y % 4 = 0 /\ (y % 100 # 0 \/ y % 400 = 0)
DaysPerMonth == <<31, 28, 31, 30, 31, 30, 31, 31, 30, 31, 30, 31>>
MonthDays(y, m) == IF m = 2 /\ IsLeapYear(y) THEN 29 ELSE DaysPerMonth[m]

\* cmos_read_rtc_time: digits above 9 are decoded like any others.
Decoded(date) ==
  LET bin(b) == IF cmBinary THEN b ELSE BcdToBin(b)
  IN  [year |-> bin(date.century) * 100 + bin(date.year),
       month |-> bin(date.month), day |-> bin(date.day)]
ReadRtc ==
  LET t == Decoded(cmDate)
  IN  /\ t.year \in 2000..2099 /\ t.month \in 1..12
      /\ t.day \in 1..MonthDays(t.year, t.month)
      /\ cmTime' = <<t>>
      /\ UNCHANGED <<cmDate, cmBinary>>

\* Mutant: January and February are counted with the year they stand in.
TimestampDaysNoShift(t) ==
  365 * t.year + t.year \div 4 - t.year \div 100 + t.year \div 400
    + (306 * (t.month + 1)) \div 10 + t.day - 719469

\* cmos_rtc_to_timestamp, in days.
TimestampDays(t) ==
  LET early == t.month <= 2
      y == IF early THEN t.year - 1 ELSE t.year
      m == IF early THEN t.month + 12 ELSE t.month
  IN  365 * y + y \div 4 - y \div 100 + y \div 400 + (306 * (m + 1)) \div 10 + t.day - 719469

\* kbc_enable_keyboard, kbc_disable_keyboard, and the commands that do the same.
KbcEnable(on) ==
  /\ kbState' = [enabled |-> on, disabled |-> ~on]
  /\ kbData' = FALSE
  /\ UNCHANGED <<cmRam, cmStale, pcivars, ivt>>

\* kbc_write_data overwrites config_byte and leaves kbd_enabled.
KbcWriteData(byte) ==
  /\ kbState' = [kbState EXCEPT !.disabled = byte.disabled]
  /\ kbData' = TRUE
  /\ UNCHANGED <<cmRam, cmStale, pcivars, ivt>>

\* find_sim_dev: the first device of the table at a place.
SimDevice(d) == LET here == {i \in DOMAIN SimDevices : SimDevices[i].dev = d}
                IN  IF here = {} THEN << >> ELSE <<Min(here)>>

\* pci_enumerate_bus: in the order of the device numbers, appended to the list.
Scanned == FlattenSeq([d \in 1..32 |-> SimDevice(d - 1)])
EnumerateBus ==
  /\ pcScans < MaxScans
  /\ LET list == pcDevices \o Scanned
     IN  pcDevices' = SubSeq(list, 1, Min({Len(list), MaxPciDevices}))
  /\ pcScans' = pcScans + 1
  /\ UNCHANGED <<cmRam, cmStale, kbdvars, ivt>>

\* pci_enumerate_all
EnumerateAll ==
  /\ pcDevices' = SubSeq(Scanned, 1, Min({Len(Scanned), MaxPciDevices}))
  /\ pcScans' = 1
  /\ UNCHANGED <<cmRam, cmStale, kbdvars, ivt>>

\* pci_find_by_class: the first max of a class.
FindByClass(class, max) ==
  LET all == SelectSeq(pcDevices, LAMBDA i : SimDevices[i].class = class)
  IN  SubSeq(all, 1, Min({Len(all), max}))

\* bios_set_interrupt
SetInterrupt(v) ==
  /\ ivt' = [ivt EXCEPT ![v] = "hook"]
  /\ UNCHANGED <<cmRam, cmStale, kbdvars, pcivars>>

\* bios_post starts the vectors afresh.
BiosPost ==
  /\ ivt' = [v \in Vectors |-> IF v \in Services THEN v ELSE "default"]
  /\ UNCHANGED <<cmRam, cmStale, kbdvars, pcivars>>

ClockNext == (\E d \in Dates : WriteDate(d)) \/ WriteStatusB \/ ReadRtc

ChipNext ==
  \/ \E v \in CmosValues : WriteCmos(v)
  \/ UpdateChecksum
  \/ \E on \in BOOLEAN : KbcEnable(on)
  \/ \E b \in KbcBytes : KbcWriteData(b)
  \/ EnumerateBus
  \/ EnumerateAll
  \/ \E v \in Vectors : SetInterrupt(v)
  \/ BiosPost

UefiServicesInit == ProtocolInit /\ ShaInit /\ HardwareInit
-----------------------------------------------------------------------------
\* Properties.

UefiServicesTypeOK ==
  /\ Len(upDb) <= MaxProtocols /\ upHandles \in 0..MaxHandles
  /\ \A e \in Range(upDb) : e.handle \in 1..upHandles /\ e.guid \in Guids
  /\ upMode.mode \in 0..MaxMode
  /\ shCtx.used \in 0..(ShaBlock - 1) /\ shCtx.total \in 0..MaxShaBytes
  /\ Len(pcDevices) <= MaxPciDevices /\ pcScans \in 0..MaxScans
  /\ kbState \in [enabled : BOOLEAN, disabled : BOOLEAN]

\* The database holds, in the order they came, exactly one entry for each handle
\* and protocol, with the interface installed last or none; and a request that
\* was carried out stays on the medium unless its end wrapped (uefi_boot.c,
\* uefi_protocols.c).
ProtocolsAccounted ==
  /\ Len(upDb) = Len(upLast)
  /\ \A i \in DOMAIN upDb :
       /\ upDb[i].handle = upLast[i].handle /\ upDb[i].guid = upLast[i].guid
       /\ upDb[i].iface \in {NoInterface, upLast[i].iface}
       /\ Installed(upDb[i].handle, upDb[i].guid) = {i}
  /\ upIo # << >> /\ upIo[1].lba + upIo[1].count < IoWord =>
       upIo[1].lba + upIo[1].count <= LastBlock + 1

\* However a message is cut into updates, it is compressed in as many blocks as
\* its length, one byte and the length field need.
ShaCountsBlocks ==
  IF shCtx.final
  THEN shCtx.blocks = (shCtx.total + 1 + ShaTail + ShaBlock - 1) \div ShaBlock
  ELSE shCtx.total = shCtx.blocks * ShaBlock + shCtx.used

\* Days from the first of January 1970, counted one month after the other.
EpochDays(t) ==
  MapThenSumSet(LAMBDA y : IF IsLeapYear(y) THEN 366 ELSE 365, 1970..(t.year - 1))
    + MapThenSumSet(LAMBDA m : MonthDays(t.year, m), 1..(t.month - 1)) + t.day - 1

\* The clock only ever tells real dates, in BCD; the timestamp of each is 122
\* days ahead of Unix time, for every date alike (bios_hardware.c:128).
ClockTellsDates ==
  /\ ~cmBinary
  /\ cmTime # << >> => TimestampDays(cmTime[1]) = EpochDays(cmTime[1]) + 122

\* The CMOS checksum is right unless a byte below it was written since; the
\* keyboard flag and its configuration bit agree unless the configuration byte
\* was written since; every scan of the bus finds the same devices, of two at
\* one place only the first (the other is never found by its class), in the order
\* of their places and until the list is full.
HardwareAccounted ==
  /\ cmStale <=> cmRam.byte # cmRam.stored
  /\ kbData \/ (kbState.enabled <=> ~kbState.disabled)
  /\ \A k \in DOMAIN pcDevices :
       LET d == SimDevices[pcDevices[k]]
           before == {SimDevices[i].dev : i \in DOMAIN SimDevices} \intersect 0..(d.dev - 1)
           places == {SimDevices[i].dev : i \in DOMAIN SimDevices}
       IN  /\ \A i \in 1..(pcDevices[k] - 1) : SimDevices[i].dev # d.dev
           /\ (k - 1) % Cardinality(places) = Cardinality(before)
  /\ Len(pcDevices) = Min({MaxPciDevices,
                           pcScans * Cardinality({SimDevices[i].dev : i \in DOMAIN SimDevices})})
  /\ \A i \in DOMAIN SimDevices :
       (\A j \in DOMAIN SimDevices : SimDevices[j].class = SimDevices[i].class =>
          \E k \in 1..(j - 1) : SimDevices[k].dev = SimDevices[j].dev) =>
       FindByClass(SimDevices[i].class, 1) = << >>
=============================================================================
