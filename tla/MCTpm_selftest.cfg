SPECIFICATION Spec
CONSTANTS
  NVHandles = {h1, h2}
  Templates <- MCTemplates
  NVData = {d1, d2}
  Bits = {1}
  AuthValues = {a1, a2}
  MaxIndices = 2
  CounterMax = 2
  MaxNVExtends = 2
  MaxSessions = 3
  MaxAuthFail = 2
  Assertions = {pcr, secret}
  MaxAssertions = 1
  MaxLockoutCount = 3
  KeyTemplates <- MCKeyTemplates
  Uniques = {u1, u2}
  PCRStates = {p1, p2}
  SealedData = {s1}
  MaxLoadedKeys = 3
  MaxKeysMade = 4
  MaxBlobs = 1
  Pcrs = {0, 17, 23}
  PcrDigests = {"d"}
  HashAlgs = {"SHA1", "SHA256"}
  NvNames = {1, 2}
  NvTemplates <- MCNvTemplates
  NvModulus = 2
  MaxNvIndices = 2
  MaxTpmSessions = 2
  MaxDaAttempts = 2
  MaxPcrExtends = 2
  MaxDaCount = 2
  SrtmPcrs = {0, 1, 17, 18}
  Measured = {m1}
  EventTypes = {"SEPARATOR"}
  MaxLogEvents = 5
  MaxMeasured = 3
  Devices = {"d1"}
  Digests = {"v1", "v2"}
  NoDigest = "zero"
  NumPcrs = 2
  Expectations <- MCExpectations
  Answers <- MCAnswers
  AcceptedAik = "k1"
  MaxEntries = 2
  IdSpan = 2
  MaxChallenges = 2
  MaxReplies = 1
  MaxJournal = 3
  AsMaxNow = 1
  EvPcrs = {0, 1}
  EvDigests = {"d1", "d2"}
  EvTypes = {"t1", "t2"}
  MaxLog = 3
  MaxMeasurements = 3
  TreePcrs = 5
  TreeDigests = {"d1", "d2", "zero"}
  Quotes <- MCQuotes
  References <- MCReferences
  ExtraClaims <- MCExtraClaims
  MaxClaims = 3
  MaxAge = 1
  RtMaxNow = 2
  MaxEvidence = 2
PROPERTIES
  SelfTestRestores
