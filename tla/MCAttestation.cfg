SPECIFICATION Spec
CONSTANTS
  Stages <- MCStages
  Digests = {d1, d2}
  MaxEvents = 3
  MaxExtends <- MCMaxExtends
  IndexSets <- MCIndexSets
  None = None
  GoldenPCRs = {4}
  MaxChallenges = 2
  MaxBoots = 1
  MaxQuotes = 1
INVARIANTS MeasuredBootTypeOK LogExplainsBank LogNeverMisreports AcceptedVouches
PROPERTIES StaticPCRsOnlyGrow
SYMMETRY DigestSymmetry
