\* The user removes a playlist entry around a context loss.
SPECIFICATION Spec
CONSTANTS
  Positions = {0, 1}
  MaxEvents = 2
  Scenarios <- MCRemoves
PROPERTIES ReplaysTheSameEntry
CHECK_DEADLOCK FALSE   \* nothing runs after shutdown
