\* Two workers as in the code and three owners on two slots: a dropped lease
\* leaves its slot Queued or Destroying while its owner reserves another, so
\* reserve() runs out of slots and the address of a destroyed core is reused.
SPECIFICATION FairSpec
CONSTANTS
  Capacity = 2
  Workers = {w1, w2}
  Owners = {o1, o2, o3}
  Handles = {h1, h2, h3}
  NoHandle = NoHandle
  SemWaitMayFail = TRUE
INVARIANTS TypeOK SlotHasOneHolder QueueIsAccounted BootstrapAllOrNothing
PROPERTIES TokenNeverWasted LifecycleSafety QuiescenceDrains KeepsDestroying
