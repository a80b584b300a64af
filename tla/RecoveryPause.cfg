\* The user sets pause around a context loss.
SPECIFICATION Spec
CONSTANTS
  Positions = {0, 1}
  MaxEvents = 2
  Scenarios <- MCPauses
PROPERTIES PauseIntentWins
CHECK_DEADLOCK FALSE   \* nothing runs after shutdown
