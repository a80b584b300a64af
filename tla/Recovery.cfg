\* One loss and one operation by the user, or two losses and requests that fail.
SPECIFICATION FairSpec
CONSTANTS
  Positions = {0, 1}
  MaxEvents = 2
  Scenarios <- MCScenarios
INVARIANTS TypeOK StepsAreSound
PROPERTIES CancelledStaysCancelled OneReplayPerLoss PlaybackResumes
CHECK_DEADLOCK FALSE   \* nothing runs after shutdown
