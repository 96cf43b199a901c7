-------------------------- MODULE MCRecorderDaemon --------------------------
(* Small instances of RecorderDaemon for TLC. *)
EXTENDS RecorderDaemon
=============================================================================
