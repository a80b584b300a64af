\* Two setters, loads and one track type; three calls of the application,
\* from its event loop or from handlers.
SPECIFICATION Spec
CONSTANTS
  Order <- MCOrder
  Setters <- MCSetters
  Initial <- MCInitial
  Observed = {"screenshot-directory"}
  SkipsEmpty = {"screenshot-directory"}
  Values = {"", "a"}
  Empty = ""
  Keys = {"aid"}
  Budgets <- MCBudgets
  MaxDepth = 1
INVARIANTS TypeOK Settled NothingForgotten
PROPERTIES SupersededNeverSent
CHECK_DEADLOCK FALSE   \* the bounds end the run
