----------------------------- MODULE MCRecovery -----------------------------
(* Small instances of Recovery for TLC.                                    *)
EXTENDS Recovery

\* One context loss and one user operation of one of the given kinds.
OneOperation(kinds, lastEntry) ==
  [maxEntry |-> lastEntry, maxGeneration |-> 2, maxOps |-> 1, userOps |-> kinds, mayFail |-> FALSE]
MCPauses == {OneOperation({"pause"}, 2)}
MCRemoves == {OneOperation({"remove"}, 2)}

\* One context loss and one user operation of any kind; or two context losses,
\* and recovery requests that are refused or fail.
MCScenarios ==
  {OneOperation({"pause", "seek", "source", "load", "remove"}, 3),
   [maxEntry |-> 2, maxGeneration |-> 3, maxOps |-> 0, userOps |-> {}, mayFail |-> TRUE]}
=============================================================================
