\* Two tokens, then exhaustion, for two threads, two contexts that retire and one change of source.
SPECIFICATION FairSpec
CONSTANTS
  MaxToken = 2
  MaxGeneration = 2
  MaxIntent = 1
INVARIANTS TypeOK CallbackFindsDispatcher
PROPERTIES TokensAreNeverReused MarkerIsCoherent RedrawIsDelivered
CHECK_DEADLOCK FALSE   \* the player is destroyed in the end
