------------------------ MODULE MCRendererLifecycle ------------------------
(* Small instances of RendererLifecycle for TLC.                           *)
EXTENDS RendererLifecycle, TLC

Symmetric == Permutations(Windows)
=============================================================================
