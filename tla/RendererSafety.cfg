\* Three renderers in two windows, with and without OpenGL, core and shutdown().
SPECIFICATION Spec
CONSTANTS
  Windows = {w1, w2}
  NoWindow = NoWindow
  MaxGeneration = 3
  MayShutdown = TRUE
SYMMETRY Symmetric
INVARIANTS TypeOK OneContextPerCore ReadinessSettles RetiringBeforeReady
CHECK_DEADLOCK FALSE   \* the bound on renderers, or a crash, stops it
