--------------------------- MODULE MCPlayerIntents ---------------------------
(* Small instances of PlayerIntents for TLC.                               *)
EXTENDS PlayerIntents

\* fillMode, set with an intent by the constructor, and the screenshot directory.
MCOrder == <<"keepaspect", "panscan", "screenshot-directory">>
MCSetters == {<<"keepaspect", "panscan">>, <<"screenshot-directory">>}
MCInitial == {<<"keepaspect", "panscan">>}
\* The second and third allow a readiness that a failure overtakes, and a report
\* that is ignored.
MCBudgets == {[calls |-> 3, events |-> 1, refusals |-> 1], [calls |-> 2, events |-> 2, refusals |-> 1],
              [calls |-> 1, events |-> 4, refusals |-> 0]}
=============================================================================
