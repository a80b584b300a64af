--------------------------- MODULE MCHelperClient ---------------------------
(* Small instances of HelperClient for TLC.                                *)
EXTENDS HelperClient

\* libmpv calls back only for the first event after a drain has found none; or
\* also without an event, while fewer drains than the bound are queued. An
\* invocation may fail in the last world.
MCWorlds == {[mayFail |-> FALSE, spuriousBelow |-> 0, maxEvents |-> 2],
             [mayFail |-> FALSE, spuriousBelow |-> 2, maxEvents |-> 2],
             [mayFail |-> TRUE, spuriousBelow |-> 2, maxEvents |-> 3]}
=============================================================================
