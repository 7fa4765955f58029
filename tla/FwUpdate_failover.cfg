SPECIFICATION Spec
CONSTANTS
  MaxVersion = 2
  MaxBootAttempts = 2
  MaxHistory = 2
PROPERTIES
  FailoverFindsLiveSlot
