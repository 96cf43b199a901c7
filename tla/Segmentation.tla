--------------------------- MODULE Segmentation ---------------------------
(***************************************************************************)
(* recorder/segmenter.py: the segmenter that cuts the encoded stream at    *)
(* closed IDRs and hands each closed clip to a bounded finalization queue  *)
(* with one worker. The segmenter reserves its slot before it awaits the   *)
(* rotation of the output; the queue may be closed, and its worker         *)
(* cancelled, while a rotation is under way.                               *)
(***************************************************************************)
EXTENDS Integers, Sequences

CONSTANTS Capacity,                    \* FinalizationQueue capacity
          MinNormal, Target, MaxNormal, Lead,  \* SegmentBoundaryPolicy
          MaxStamp                     \* bound: last time stamp of the stream

ASSUME SegmentConstants ==
    /\ Capacity \in Nat \ {0}
    /\ {MinNormal, Target, MaxNormal, Lead, MaxStamp} \subseteq Nat

VARIABLES cut,      \* ContinuousSegmenter: start, flags, and the await it is in
          stamp,    \* time stamp of the next access unit
          queue,    \* FinalizationQueue: items, outstanding, failed, accepting
          worker,   \* start of the clip being finalized, or Nothing
          closing,  \* FinalizationQueue.close: how far it is, its result
          fates     \* history: what became of each clip the output closed, by its start

segmentVars == <<cut, stamp, queue, worker, closing, fates>>

Empty == -1   \* no clip

SegmentInit ==
    /\ cut = [start |-> 0, idr |-> FALSE, faulted |-> FALSE, closed |-> FALSE, at |-> "idle"]
    /\ stamp = 0
    /\ queue = [items |-> <<>>, outstanding |-> 0, failed |-> 0, accepting |-> TRUE]
    /\ worker = Empty
    /\ closing = [at |-> "open", drained |-> TRUE, outstanding |-> 0]
    /\ fates = [c \in {} |-> "none"]

Settle(c, fate) == [d \in DOMAIN fates \cup {c} |-> IF d = c THEN fate ELSE fates[d]]

-----------------------------------------------------------------------------
(* SegmentBoundaryPolicy. *)

Duration == stamp - cut.start

Decide(decodable) ==
    IF Duration < MinNormal THEN "WAIT"
    ELSE IF Duration > MaxNormal THEN "FAULT"
    ELSE IF decodable THEN "SPLIT"
    ELSE IF Duration >= MaxNormal THEN "FAULT"
    ELSE IF Duration >= Target - Lead THEN "REQUEST_IDR"
    ELSE "WAIT"

\* duration_allowed of the final clip, which may be short.
FinalAllowed == Duration <= MaxNormal

-----------------------------------------------------------------------------
(* The queue's side of the segmenter. *)

Reserve == queue.accepting /\ queue.outstanding < Capacity

Reserved == queue' = [queue EXCEPT !.outstanding = @ + 1]

\* submit_reserved, after the await: the queue may have stopped accepting.
SubmitReserved(c) ==
    IF queue.accepting
    THEN /\ queue' = [queue EXCEPT !.items = Append(@, c)]
         /\ fates' = Settle(c, "queued")
    ELSE /\ queue' = [queue EXCEPT !.outstanding = @ - 1]
         /\ fates' = Settle(c, "raised")

-----------------------------------------------------------------------------
(* ContinuousSegmenter. *)

Usable == cut.at = "idle" /\ ~cut.closed /\ ~cut.faulted

Advance == stamp' = stamp + 1

\* observe, up to its first await.
ObserveUnit(decodable) ==
    /\ Usable /\ stamp < MaxStamp
    /\ Advance
    /\ LET decision == Decide(decodable) IN
       \/ /\ decision = "WAIT" \/ (decision = "REQUEST_IDR" /\ cut.idr)
          /\ UNCHANGED <<cut, queue>>
       \/ /\ decision = "REQUEST_IDR" /\ ~cut.idr
          /\ \E ok \in BOOLEAN : cut' = [cut EXCEPT !.idr = ok, !.faulted = ~ok]
          /\ UNCHANGED queue
       \/ /\ decision = "FAULT" \/ (decision = "SPLIT" /\ ~Reserve)
          /\ cut' = [cut EXCEPT !.faulted = TRUE]
          /\ UNCHANGED queue
       \/ /\ decision = "SPLIT" /\ Reserve
          /\ Reserved
          /\ cut' = [cut EXCEPT !.at = "rotating"]
    /\ UNCHANGED <<worker, closing, fates>>

\* close of the segmenter, up to its await.
CloseSegmenter ==
    /\ Usable /\ Duration > 0
    /\ IF FinalAllowed /\ Reserve
       THEN Reserved /\ cut' = [cut EXCEPT !.at = "closing"]
       ELSE UNCHANGED queue /\ cut' = [cut EXCEPT !.faulted = TRUE]
    /\ UNCHANGED <<stamp, worker, closing, fates>>

\* The output closed the clip: it is submitted, and the next one starts at the unit that
\* caused the cut, unless submitting raised.
OutputClosed ==
    /\ cut.at \in {"rotating", "closing"}
    /\ SubmitReserved(cut.start)
    /\ cut' = [cut EXCEPT !.at = "idle",
                  !.start = IF queue.accepting /\ cut.at = "rotating" THEN stamp - 1 ELSE @,
                  !.idr = IF queue.accepting /\ cut.at = "rotating" THEN FALSE ELSE @,
                  !.closed = queue.accepting /\ cut.at = "closing"]
    /\ UNCHANGED <<stamp, worker, closing>>

\* The output failed: the slot is given back.
OutputFails ==
    /\ cut.at \in {"rotating", "closing"}
    /\ queue' = [queue EXCEPT !.outstanding = @ - 1]
    /\ cut' = [cut EXCEPT !.at = "idle", !.faulted = TRUE]
    /\ UNCHANGED <<stamp, worker, closing, fates>>

-----------------------------------------------------------------------------
(* The worker and the close of the queue. *)

Alive == closing.at # "closed"

TakeItem ==
    /\ Alive /\ worker = Empty /\ queue.items # <<>>
    /\ worker' = Head(queue.items)
    /\ queue' = [queue EXCEPT !.items = Tail(@)]
    /\ UNCHANGED <<cut, stamp, closing, fates>>

FinalizeItem ==
    /\ Alive /\ worker # Empty
    /\ \E ok \in BOOLEAN :
          /\ fates' = Settle(worker, IF ok THEN "finalized" ELSE "failed")
          /\ queue' = [queue EXCEPT !.outstanding = @ - 1, !.failed = IF ok THEN @ ELSE @ + 1]
    /\ worker' = Empty
    /\ UNCHANGED <<cut, stamp, closing>>

BeginClose ==
    /\ closing.at = "open"
    /\ closing' = [closing EXCEPT !.at = "draining"]
    /\ queue' = [queue EXCEPT !.accepting = FALSE]
    /\ UNCHANGED <<cut, stamp, worker, fates>>

\* queue.join() returned: every item taken from the queue is done.
Drained ==
    /\ closing.at = "draining" /\ queue.items = <<>> /\ worker = Empty
    /\ closing' = [closing EXCEPT !.at = "closed", !.outstanding = queue.outstanding]
    /\ UNCHANGED <<cut, stamp, queue, worker, fates>>

\* The deadline: the worker is cancelled, and a clip in its hands loses its slot.
Cancelled(drained) ==
    /\ closing.at = "draining" /\ (queue.items # <<>> \/ worker # Empty)
    /\ LET left == queue.outstanding - IF worker = Empty THEN 0 ELSE 1
       IN /\ queue' = [queue EXCEPT !.outstanding = left]
          /\ closing' = [at |-> "closed", drained |-> drained, outstanding |-> left]
    /\ worker' = Empty
    /\ UNCHANGED <<cut, stamp, fates>>

\* The same, with the expiry of the deadline forgotten.
DrainTimesOutQuietly == Cancelled(TRUE)

DrainTimesOut == Cancelled(FALSE)

SegmentNext ==
    \/ \E decodable \in BOOLEAN : ObserveUnit(decodable)
    \/ CloseSegmenter \/ OutputClosed \/ OutputFails
    \/ TakeItem \/ FinalizeItem \/ BeginClose \/ Drained \/ DrainTimesOut

SegmentSpec == SegmentInit /\ [][SegmentNext]_segmentVars

-----------------------------------------------------------------------------
(* Properties. *)

InHand == IF worker = Empty THEN 0 ELSE 1       \* the worker's clip
OnItsWay == IF cut.at = "idle" THEN 0 ELSE 1    \* the clip of a rotation

\* The slots are the clips on their way: reserved by a rotation, queued, or in the worker's
\* hands; the queue never holds more than its capacity, whatever the order of rotations,
\* failures, the close and the cancellation.
SlotsAccounted ==
    /\ queue.outstanding = Len(queue.items) + InHand + OnItsWay
    /\ queue.outstanding <= Capacity

\* A close that reports a drained queue, nothing outstanding and no failure has lost no clip:
\* each one the output had closed is finalized, or its submission raised.
DrainedLosesNothing ==
    closing.at = "closed" /\ closing.drained /\ closing.outstanding = 0 /\ queue.failed = 0
        => \A c \in DOMAIN fates : fates[c] \in {"finalized", "raised"}

\* The bounded queue accounts for every clip and a clean close loses none.
SegmentInv == SlotsAccounted /\ DrainedLosesNothing
=============================================================================
