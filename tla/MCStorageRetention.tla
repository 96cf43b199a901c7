------------------------- MODULE MCStorageRetention -------------------------
(* Small instances of StorageRetention for TLC. *)
EXTENDS StorageRetention
=============================================================================
