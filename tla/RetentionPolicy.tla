-------------------------- MODULE RetentionPolicy --------------------------
(***************************************************************************)
(* What loop recording promises about deletion, whatever the process does: *)
(* it starts throwing recordings away only after free space was seen below *)
(* the low threshold or a write found the volume full, it goes on until    *)
(* free space was seen at the high threshold, and it never commits a pair  *)
(* of its own choice while an earlier choice is unfinished.  What clients  *)
(* ask to delete is outside that, in number and in order.  The latch and   *)
(* the committed deletions are durable, so nothing here mentions crashes:  *)
(* a crash must look like a step that changes neither.                     *)
(***************************************************************************)
EXTENDS Naturals, Sequences, SequencesExt

CONSTANTS
    Low,     \* deletion begins only below this many free units
    High,    \* and ends only at this many or more
    Sizes    \* units a pair may hold

VARIABLES
    room,     \* free units of the volume
    full,     \* a write has found the volume full and no latch records it yet
    latched,  \* reclamation is on
    doomed    \* the pairs committed to deletion: their size, and whether retention chose

vars == <<room, full, latched, doomed>>

Deletions == [size : Sizes, own : BOOLEAN]

Init ==
    /\ room \in Nat
    /\ full = FALSE
    /\ latched \in BOOLEAN
    /\ doomed \in Seq(Deletions)

(* The recorder uses space, or finds none left. *)
Consume ==
    /\ room' \in Nat
    /\ room' <= room
    /\ full' \in {full, TRUE}
    /\ UNCHANGED <<latched, doomed>>

Latch ==
    /\ room < Low \/ full
    /\ latched' = TRUE
    /\ full' \in {full, FALSE}
    /\ UNCHANGED <<room, doomed>>

Unlatch ==
    /\ room >= High
    /\ latched' = FALSE
    /\ UNCHANGED <<room, full, doomed>>

(* The process forgets a write failure it has not reported: a crash. *)
Forget ==
    /\ full' = FALSE
    /\ UNCHANGED <<room, latched, doomed>>

(* Retention commits one more pair, with none of its own outstanding. *)
Doom ==
    /\ latched
    /\ \A i \in 1..Len(doomed) : ~doomed[i].own
    /\ \E n \in Sizes : doomed' = Append(doomed, [size |-> n, own |-> TRUE])
    /\ UNCHANGED <<room, full, latched>>

(* The driver asks to delete a pair. *)
Ask ==
    /\ \E n \in Sizes : doomed' = Append(doomed, [size |-> n, own |-> FALSE])
    /\ UNCHANGED <<room, full, latched>>

(* A committed deletion is carried out: the room it gives is the pair's. *)
Finish ==
    /\ \E i \in 1..Len(doomed) :
          /\ room' = room + doomed[i].size
          /\ doomed' = RemoveAt(doomed, i)
    /\ UNCHANGED <<full, latched>>

Next == Consume \/ Latch \/ Unlatch \/ Forget \/ Doom \/ Ask \/ Finish

Spec == Init /\ [][Next]_vars
=============================================================================
