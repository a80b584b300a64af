\* Two renderers of a player that is never shut down.
SPECIFICATION Spec
CONSTANTS
  Windows = {w1, w2}
  NoWindow = NoWindow
  MaxGeneration = 2
  MayShutdown = FALSE
SYMMETRY Symmetric
INVARIANTS RecreationIsReported
CHECK_DEADLOCK FALSE   \* the bound on renderers, or a crash, stops it
