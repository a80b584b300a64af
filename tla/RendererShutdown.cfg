\* Two renderers of a player that shutdown() may close.
SPECIFICATION Spec
CONSTANTS
  Windows = {w1, w2}
  NoWindow = NoWindow
  MaxGeneration = 2
  MayShutdown = TRUE
SYMMETRY Symmetric
INVARIANTS ContextKeepsItsCore
CHECK_DEADLOCK FALSE   \* the bound on renderers, or a crash, stops it
