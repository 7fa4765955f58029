SPECIFICATION Spec
CONSTANTS
  OptionKinds <- MCOptionKinds
  MaxOptions = 2
  VarNames = {"BootOrder", "short", "long"}
  StoredName <- MCStoredName
  VarData <- MCVarData
  MaxVars = 2
  MaxAdds = 3
  MaxBoots = 2
  Cars = {c1, c2}
  NumLines = 2
  Offsets = {0, 1, 3}
  CarData = {v1}
  Pattern = pattern
  Blank = blank
  Regions <- MCRegions
  MaxRegions = 3
  HeapBases = {0, 1}
  HeapSizes = {1, 4, 8}
  Alignments = {2, 4}
  MinPages = 2
  MaxPages = 7
  Dependencies <- MCDependencies
  MaxModules = 4
  VbStages = {0, 2}
  FirstSigned = 2
  VbHashes = {"h1", "h2"}
  VbVersions = {0, 1}
  MaxStages = 2
  MaxRules = 2
  Fingerprints = {"f1", "f2"}
  MaxTrusted = 3
  VbPcrs = {0, 1}
  MaxPcrEvents = 3
  FitNames = {"n1", "n2"}
  FitBlobs <- MCFitBlobs
  MaxImages = 2
  MaxConfigs = 3
  FlashWord = 8
  FlashSize = 4
  RegionShapes <- MCRegionShapes
  MaxLayoutRegions = 2
  Sectors = {0, 1, 2}
  MaxErase = 4
  MaxWrites = 1
  Mpidrs = {1, 2}
  EntryPoints = {0, 1}
  MaxCpus = 3
  MaxPsciCalls = 3
  ChannelSizes = {1, 2}
  MaxChannels = 3
  Spds <- MCSpds
  MmioWord = 8
  MmioShapes <- MCMmioShapes
  MmioValues = {0, 1}
  MaxMmioRegions = 2
  NorCapacity = 4
  NorPage = 2
  MaxNorOps = 2
  TableContents = {5, 200}
  OemSum = 77
  MaxAcpiTables = 3
  MaxSmbios = 3
  Guids = {"g1", "g2"}
  Interfaces = {"i1", "i2"}
  MaxHandles = 2
  MaxProtocols = 3
  IoWord = 8
  LastBlock = 3
  MaxMode = 1
  ShaBlock = 8
  ShaTail = 2
  ShaChunks = {1, 3, 8, 11}
  MaxShaBytes = 40
  Dates <- MCDates
  CmosValues = {0, 1, 2}
  KbcBytes <- MCKbcBytes
  SimDevices <- MCSimDevices
  MaxPciDevices = 7
  MaxScans = 2
  SectorWord = 8
  DiskSectors = 3
  SectorLbas = {0, 1, 2, 5, 8, 9}
  SectorValues = {0, 1, 2}
  GptEntries = 3
  GptTypes = {0, 1, 2}
  PartLists <- MCPartLists
  PeFiles <- MCPeFiles
  PeMachines = {"amd64"}
  PeRelocs <- MCPeRelocs
  PeBases = {2, 5, 9}
  PeWord = 16
  PeHalf = 8
  MaxPeSections = 2
  MaxRelocations = 2
  AcpiLists <- MCAcpiLists
  MaxXsdtTables = 2
  MaxLapics = 1
  MaxParses = 4
  BmPcrs = {0, 1, 2}
  BmMaxPcr = 2
  BmDigests = {"d1", "d2"}
  MaxBmEvents = 3
  MenuTexts <- MCMenuTexts
  StoredKey <- MCStoredKey
  InnerKeys = {"inner"}
  MaxMenuEntries = 2
  MaxGlobals = 2
  HobKinds = {"memory", "resource", "volume", "cpu"}
  MaxHobs = 5
  FtBlobs <- MCFtBlobs
  CellWord = 4
  FtAddresses <- MCFtAddresses
  MaxFtProps = 3
  MaxFtChildren = 2
  MaxFtReserve = 2
  MaxPhandles = 4
  MaxMsrs = 11
  Microcodes = {9, 10, 11}
  DefaultMicrocode = 10
  MaxCpuSteps = 4
  Modules <- MCModules
  MaxModulesGiven = 5
  Channels = 2
  Slots = 2
  MemoryTotals = {0, 7, 2413226, 2413227, 2413234, 4194304}
  MmioBases = {800000, 917504, 917760, 1040384}
  SimClasses <- MCSimClasses
  WindowSizes <- MCWindowSizes
  IoStep = 2
  MmioBase = 40
  MmioSpace = 64
  IoBase = 4
  IoSpace = 16
  Buses = {0, 1}
  MaxAssigns = 4
  Volumes <- MCVolumes
  FileHeader = 3
  FileAlign = 2
  MaxFvFiles = 2
PROPERTIES
  BootNextIsOneShot
