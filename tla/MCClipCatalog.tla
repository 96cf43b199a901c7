--------------------------- MODULE MCClipCatalog ---------------------------
(* Small instances of ClipCatalog for TLC. *)
EXTENDS ClipCatalog

NoForeign == {}

\* A file of unknown origin on two of the names the first clip may get.
Collisions ==
    {[clip |-> 1, member |-> "sidecar", path |-> [dir |-> "protected", name |-> "boot"]],
     [clip |-> 1, member |-> "video", path |-> [dir |-> "clips", name |-> "utc"]]}

=============================================================================
