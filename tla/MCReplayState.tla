--------------------------- MODULE MCReplayState ---------------------------
(* Models of the google provider that differ only in their names.          *)
EXTENDS ReplayState

Interchangeable == Permutations(Google)
=============================================================================
