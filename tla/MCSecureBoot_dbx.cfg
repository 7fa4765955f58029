SPECIFICATION Spec
CONSTANTS
  KeyNames = {k}
  MaxKeys = 3
  Day = 2
  ValidDays = {1}
  DefaultDays = 3
  MaxNow = 2
  Data = {h1}
  MaxSignatures = 2
  MaxComponents = 3
  MaxImageVersion = 3
  Rules <- MCRules
  Contexts <- MCContexts
  MaxRules = 4
  SpiRanges <- MCSpiRanges
  SpiSlots = 2
  SpiLockFlags <- MCSpiLockFlags
  SpiData = {"old", "new"}
  SmiCodes = {"h1", "h2"}
  SmiNumbers = {0, 1}
  SmiDepth = 3
  SmrrWords = 8
  SmrrSettings <- MCSmrrSettings
  DmaDevices = {0, 1}
  DmaDomains = {0, 1, 2}
  DmaRequests <- MCDmaRequests
  DmaPage = 2
  DmaSpace = 64
  DmaPageMax = 3
  DmaDomainMax = 2
  FwHashes = {"zero", "golden", "new"}
  ZeroHash = "zero"
  GoldenHash = "golden"
  OneBitApart <- MCOneBitApart
  MaxFwVersion = 2
  FwLogMax = 1
  Packets <- MCPackets
  BackendEvents <- MCEvents
  AuditMax = 3
  MaxInspected = 4
  FsKeys = {"k1", "k2"}
  FsImages = {"i1", "i2"}
  MaxKek = 2
  MaxDb = 1
  LowPcrs = {0}
  HighPcrs = {16}
  TpDigests = {"e1"}
  TpLogMax = 2
  TpMaxExtends = 2
  TpNonces = {"n1", "n2"}
  TpQuoteMax = 1
INVARIANT ForbiddenNeverBoots
