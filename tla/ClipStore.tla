----------------------------- MODULE ClipStore -----------------------------
(***************************************************************************)
(* What the clip catalog promises to a user of the camera, without rows,   *)
(* intents or files.  A clip is recorded and then kept, or lost when the   *)
(* recorder dies under it.  A guarded clip is never given up: only a kept  *)
(* clip without a guard can be condemned, and only a condemned clip is     *)
(* removed.                                                                *)
(***************************************************************************)
CONSTANT Clips

VARIABLES status, guarded

StoreInit ==
    /\ status = [c \in Clips |-> "none"]
    /\ guarded = {}

Change(c, from, to) ==
    /\ status[c] = from
    /\ status' = [status EXCEPT ![c] = to]
    /\ UNCHANGED guarded

\* A protection request or an event guards one or several clips that exist.
Guard(S) ==
    /\ \A c \in S : status[c] \in {"open", "kept", "lost"}
    /\ guarded' = guarded \cup S
    /\ UNCHANGED status

\* Only an explicit request gives a guard up, and only of a kept clip.
Unguard(c) ==
    /\ status[c] = "kept"
    /\ guarded' = guarded \ {c}
    /\ UNCHANGED status

Condemn(c) ==
    /\ c \notin guarded
    /\ Change(c, "kept", "condemned")

StoreNext ==
    \/ \E c \in Clips :
        \/ Change(c, "none", "open")
        \/ Change(c, "open", "kept")
        \/ Change(c, "open", "lost")
        \/ Condemn(c)
        \/ Change(c, "condemned", "removed")
        \/ Unguard(c)
    \/ \E S \in SUBSET Clips : Guard(S)

StoreSpec == StoreInit /\ [][StoreNext]_<<status, guarded>>

=============================================================================
