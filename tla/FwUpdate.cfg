SPECIFICATION FairSpec
CONSTANTS
  MaxVersion = 2
  MaxBootAttempts = 2
  MaxHistory = 2
INVARIANTS
  TypeOK
  ActiveMeansBooted
  HistoryExplainsSlots
PROPERTIES
  VersionDropsOnlyOnFailover
  FollowsLadder
  EscalatesToRecovery
