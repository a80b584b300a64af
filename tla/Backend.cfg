\* Two players and one slot, so that the second waits for the first one's thread and
\* core; a queue of two operations and two events.
SPECIFICATION FairSpec
CONSTANTS
  Players = {p1, p2}
  NoPlayer = NoPlayer
  Slots = 1
  MaxOps = 2
  MaxEvents = 2
INVARIANTS TypeOK UsersAreOutlived
PROPERTIES ClosedIsReaped EventsAreDrained
CHECK_DEADLOCK FALSE   \* the players are closed in the end
