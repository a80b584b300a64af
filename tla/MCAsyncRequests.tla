-------------------------- MODULE MCAsyncRequests --------------------------
(* Small instances of AsyncRequests for TLC.                               *)
EXTENDS AsyncRequests
=============================================================================
