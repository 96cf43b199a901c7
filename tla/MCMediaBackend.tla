--------------------------- MODULE MCMediaBackend ---------------------------
(* Small instances of MediaBackend for TLC. *)
EXTENDS MediaBackend

Spec == MediaInit /\ [][MediaNext]_mediaVars /\ MediaFairness
=============================================================================
