\* Two clients over three generations, in both worlds, under a fair event loop.
SPECIFICATION FairSpec
CONSTANTS
  Clients = {c1, c2}
  NoClient = NoClient
  MaxGeneration = 3
  Worlds <- MCWorlds
INVARIANTS TypeOK PointersAreGood DrainsAreCounted
PROPERTIES EventsAreTaken
CHECK_DEADLOCK FALSE   \* the manager is deleted in the end
