--------------------------- MODULE CaptureProofs ---------------------------
(***************************************************************************)
(* Proofs about the parts of the recording process beside its backend: the *)
(* ownership of the camera, the finalization queue of the segmenter, the   *)
(* selection of audio, the forced IDR, the startup reconciliation, the     *)
(* overlay and the order of fragments.                                     *)
(***************************************************************************)
EXTENDS ContinuousPipeline, Segmentation, AudioSelection, ForcedIdr, StartupReconcile, Overlay, FragmentOrder,
        SequenceTheorems, FiniteSetTheorems, WellFoundedInduction, TLAPS

-----------------------------------------------------------------------------
(* ContinuousPipeline *)

Active == {"loop", "starting", "running", "stopping", "backoff", "leave"}

Run == [at : {"new", "ended"} \cup Active, restarts : Nat,
        fault : {"none", "refused", "raised", "exhausted", "cleanup"}, stop : BOOLEAN]

PipelineTypeOK == runs \in [Owners -> Run] /\ cameras \in SUBSET Owners

\* The owner is the one pipeline between its claim and its way out.
OwnerActive == \A p \in Owners : owner = p <=> runs[p].at \in Active

\* A backend that may hold the camera belongs to an attempt, or its cleanup failed.
HoldersKnown ==
    \A p \in cameras : runs[p].at \in {"starting", "running", "stopping"} \/ runs[p].fault = "cleanup"

\* A failed cleanup is the last thing that happens to a pipeline.
CleanupIsLast == \A p \in Owners : runs[p].fault = "cleanup" => runs[p].at \in {"leave", "ended"}

PipelineInd == PipelineTypeOK /\ OwnerActive /\ HoldersKnown /\ CleanupIsLast

\* The four parts hold at first, when nothing was claimed.
LEMMA PipelineBegins == PipelineInit => PipelineInd
BY PipelineConstants
   DEF PipelineInit, PipelineInd, PipelineTypeOK, OwnerActive, HoldersKnown, CleanupIsLast, Run, Active, Free

\* Every step of a pipeline keeps them, whatever the others are doing.
LEMMA PipelineStep ==
    ASSUME PipelineInd, [PipelineNext]_pipelineVars
    PROVE  PipelineInd'
<1> USE DEF PipelineInd
<1>0. CASE UNCHANGED pipelineVars
  BY <1>0 DEF pipelineVars, PipelineTypeOK, OwnerActive, HoldersKnown, CleanupIsLast
<1>1. CASE PipelineNext
  <2> PICK p \in Owners : \/ ClaimCamera(p) \/ StopRequested(p) \/ NextAttempt(p) \/ BackendStarts(p)
                          \/ AttemptEnds(p) \/ StopBackend(p) \/ Backoff(p) \/ BranchFails(p) \/ LeaveRun(p)
    BY <1>1 DEF PipelineNext
  <2> USE DEF PipelineTypeOK, OwnerActive, HoldersKnown, CleanupIsLast, Run, Active, Moves
  <2>1. CASE ClaimCamera(p)
    BY <2>1, PipelineConstants DEF ClaimCamera, Free
  <2>2. CASE StopRequested(p)
    BY <2>2 DEF StopRequested
  <2>3. CASE NextAttempt(p)
    BY <2>3 DEF NextAttempt
  <2>4. CASE BackendStarts(p)
    BY <2>4 DEF BackendStarts
  <2>5. CASE AttemptEnds(p)
    BY <2>5 DEF AttemptEnds
  <2>6. CASE StopBackend(p)
    BY <2>6 DEF StopBackend
  <2>7. CASE Backoff(p)
    BY <2>7 DEF Backoff
  <2>8. CASE BranchFails(p)
    BY <2>8 DEF BranchFails
  <2>9. CASE LeaveRun(p)
    BY <2>9, PipelineConstants DEF LeaveRun, Free
  <2> QED
    BY <2>1, <2>2, <2>3, <2>4, <2>5, <2>6, <2>7, <2>8, <2>9
<1> QED
  BY <1>0, <1>1

\* For any number of pipelines of the process and any restart policy, two backends hold the
\* camera at once only after a cleanup that was reported to have failed.
THEOREM CameraHasOneOwner == PipelineSpec => []SoleOwner
<1>1. PipelineInd => SoleOwner
  BY DEF PipelineInd, PipelineTypeOK, OwnerActive, HoldersKnown, Active, SoleOwner
<1> QED
  BY <1>1, PipelineBegins, PipelineStep, PTL DEF PipelineSpec

-----------------------------------------------------------------------------
(* Segmentation *)

Cut == [start : Nat, idr : BOOLEAN, faulted : BOOLEAN, closed : BOOLEAN,
        at : {"idle", "rotating", "closing"}]

Queue == [items : Seq(Nat), outstanding : Nat, failed : Nat, accepting : BOOLEAN]

SegmentTypeOK ==
    /\ cut \in Cut
    /\ stamp \in Nat /\ (cut.at = "rotating" => stamp > 0)
    /\ queue \in Queue
    /\ worker \in Nat \cup {Empty}
    /\ closing \in [at : {"open", "draining", "closed"}, drained : BOOLEAN, outstanding : Nat]
    /\ fates \in [DOMAIN fates -> {"queued", "raised", "finalized", "failed"}] /\ DOMAIN fates \subseteq Nat

Queued(c) == \E i \in 1..Len(queue.items) : queue.items[i] = c

\* A clip not yet finalized is with the queue or its worker, or the close gave it up and
\* said so.
QueuedIsHeld ==
    \A c \in DOMAIN fates : fates[c] = "queued" =>
        Queued(c) \/ worker = c \/ (closing.at = "closed" /\ ~closing.drained)

FailuresCounted == \A c \in DOMAIN fates : fates[c] = "failed" => queue.failed > 0

\* From the begin of the close on nothing is accepted, and a drained queue stays empty.
ClosedRefuses ==
    /\ closing.at # "open" => ~queue.accepting
    /\ closing.at = "closed" /\ closing.drained => queue.items = <<>> /\ worker = Empty

SegmentInd == SegmentTypeOK /\ SlotsAccounted /\ QueuedIsHeld /\ FailuresCounted /\ ClosedRefuses

\* The queue is empty and nothing is on its way.
LEMMA SegmentBegins == SegmentInit => SegmentInd
<1> SUFFICES ASSUME SegmentInit PROVE SegmentInd
  OBVIOUS
<1>1. queue.items = <<>> /\ <<>> \in Seq(Nat) /\ Len(<<>>) = 0
  BY DEF SegmentInit
<1>2. SegmentTypeOK
  <2>1. queue \in Queue
    BY <1>1 DEF SegmentInit, Queue
  <2> QED
    BY <2>1 DEF SegmentInit, SegmentTypeOK, Cut
<1>3. SlotsAccounted
  <2>1. InHand = 0 /\ OnItsWay = 0
    BY DEF SegmentInit, InHand, OnItsWay
  <2> QED
    BY <1>1, <2>1, SegmentConstants DEF SegmentInit, SlotsAccounted
<1> QED
  BY <1>2, <1>3 DEF SegmentInit, SegmentInd, QueuedIsHeld, FailuresCounted, ClosedRefuses

\* The parts of a step that only the shape of the sequence decides.
LEMMA ItemsAppended ==
    ASSUME NEW s \in Seq(Nat), NEW c \in Nat
    PROVE  /\ Append(s, c) \in Seq(Nat) /\ Len(Append(s, c)) = Len(s) + 1
           /\ \A i \in 1..Len(s) : Append(s, c)[i] = s[i]
           /\ Append(s, c)[Len(s) + 1] = c
BY AppendProperties

\* The first item is taken and every other one keeps its turn.
LEMMA ItemsTaken ==
    ASSUME NEW s \in Seq(Nat), s # <<>>
    PROVE  /\ Head(s) \in Nat /\ Tail(s) \in Seq(Nat) /\ Len(Tail(s)) = Len(s) - 1 /\ Len(s) \in Nat /\ Len(s) > 0
           /\ \A i \in 1..Len(s) : i = 1 \/ (i - 1 \in 1..Len(Tail(s)) /\ Tail(s)[i - 1] = s[i])
           /\ Head(s) = s[1]
<1>1. Len(s) \in Nat /\ Len(s) > 0
  BY LenProperties, EmptySeq
<1>2. Head(s) = s[1] /\ Head(s) \in Nat /\ Tail(s) \in Seq(Nat) /\ Len(Tail(s)) = Len(s) - 1
       /\ \A i \in 1..Len(Tail(s)) : Tail(s)[i] = s[i + 1]
  BY <1>1, HeadTailProperties
<1>3. ASSUME NEW i \in 1..Len(s), i # 1
      PROVE  i - 1 \in 1..Len(Tail(s)) /\ Tail(s)[i - 1] = s[i]
  <2>1. i - 1 \in 1..Len(Tail(s)) /\ (i - 1) + 1 = i
    BY <1>1, <1>2, <1>3
  <2> QED
    BY <2>1, <1>2
<1> QED
  BY <1>1, <1>2, <1>3

\* Every step of the segmenter, the worker and the close keeps the accounts.
LEMMA SegmentStep ==
    ASSUME SegmentInd, [SegmentNext]_segmentVars
    PROVE  SegmentInd'
<1> USE DEF SegmentInd
<1>a. /\ queue.items \in Seq(Nat) /\ Len(queue.items) \in Nat
      /\ queue.outstanding \in Nat /\ queue.failed \in Nat /\ queue.accepting \in BOOLEAN
  BY DEF SegmentTypeOK, Queue
<1>b. Capacity \in Nat
  BY SegmentConstants
<1>d. ASSUME UNCHANGED <<queue, worker, closing, fates>>, stamp' \in Nat, stamp' >= stamp,
             cut' \in Cut, cut'.at = cut.at
      PROVE  SegmentInd'
  <2>1. SegmentTypeOK'
    BY <1>d DEF SegmentTypeOK
  <2>2. InHand' = InHand /\ OnItsWay' = OnItsWay
    BY <1>d DEF InHand, OnItsWay
  <2>3. SlotsAccounted'
    BY <1>d, <2>2 DEF SlotsAccounted
  <2> QED
    BY <1>d, <2>1, <2>3 DEF QueuedIsHeld, FailuresCounted, ClosedRefuses, Queued
<1>e. ASSUME NEW i \in BOOLEAN, NEW f \in BOOLEAN
      PROVE  /\ [cut EXCEPT !.idr = i, !.faulted = f] \in Cut /\ [cut EXCEPT !.idr = i, !.faulted = f].at = cut.at
             /\ [cut EXCEPT !.faulted = TRUE] \in Cut /\ [cut EXCEPT !.faulted = TRUE].at = cut.at
  BY DEF SegmentTypeOK, Cut
<1>f. ASSUME Reserve, Reserved, cut.at = "idle", NEW at \in {"rotating", "closing"},
             cut' = [cut EXCEPT !.at = at], UNCHANGED <<worker, closing, fates>>,
             stamp' \in Nat, at = "rotating" => stamp' > 0
      PROVE  SegmentInd'
  <2>1. /\ queue'.items = queue.items /\ queue'.outstanding = queue.outstanding + 1
        /\ queue'.failed = queue.failed /\ queue'.accepting = queue.accepting /\ queue' \in Queue
    BY <1>f DEF Reserved, SegmentTypeOK, Queue
  <2>2. cut' \in Cut /\ cut'.at = at
    BY <1>f DEF SegmentTypeOK, Cut
  <2>3. SegmentTypeOK'
    BY <1>f, <2>1, <2>2 DEF SegmentTypeOK
  <2>4. SlotsAccounted'
    <3>1. worker' = worker /\ cut.at = "idle" /\ cut'.at # "idle" /\ queue.outstanding < Capacity
      BY <1>f, <2>2 DEF Reserve
    <3>2. InHand' = InHand /\ InHand \in 0..1 /\ OnItsWay = 0 /\ OnItsWay' = 1
      BY <3>1 DEF InHand, OnItsWay
    <3> QED
      BY <1>a, <1>b, <2>1, <3>1, <3>2 DEF SlotsAccounted
  <2> QED
    BY <1>f, <2>1, <2>3, <2>4 DEF QueuedIsHeld, FailuresCounted, ClosedRefuses, Queued
<1>0. CASE UNCHANGED segmentVars
  BY <1>0 DEF segmentVars, SegmentTypeOK, SlotsAccounted, InHand, OnItsWay, QueuedIsHeld, FailuresCounted,
     ClosedRefuses, Queued
<1>1. ASSUME NEW decodable \in BOOLEAN, ObserveUnit(decodable)
      PROVE  SegmentInd'
  <2>1. /\ stamp' = stamp + 1 /\ UNCHANGED <<worker, closing, fates>> /\ cut.at = "idle"
        /\ \/ UNCHANGED <<cut, queue>>
           \/ UNCHANGED queue /\ \E ok \in BOOLEAN : cut' = [cut EXCEPT !.idr = ok, !.faulted = ~ok]
           \/ UNCHANGED queue /\ cut' = [cut EXCEPT !.faulted = TRUE]
           \/ Reserve /\ Reserved /\ cut' = [cut EXCEPT !.at = "rotating"]
    BY <1>1 DEF ObserveUnit, Advance, Usable
  <2>0. stamp' \in Nat /\ stamp' >= stamp /\ stamp' > 0
    <3>1. stamp' = stamp + 1
      BY <2>1
    <3> QED
      BY <3>1 DEF SegmentTypeOK
  <2>2. CASE UNCHANGED queue /\ \E ok \in BOOLEAN : cut' = [cut EXCEPT !.idr = ok, !.faulted = ~ok]
    BY <2>0, <2>1, <2>2, <1>d, <1>e
  <2>3. CASE UNCHANGED queue /\ cut' = [cut EXCEPT !.faulted = TRUE]
    BY <2>0, <2>1, <2>3, <1>d, <1>e
  <2>4. CASE Reserve /\ Reserved /\ cut' = [cut EXCEPT !.at = "rotating"]
    BY <2>0, <2>1, <2>4, <1>f
  <2>5. CASE UNCHANGED <<cut, queue>>
    BY <2>0, <2>1, <2>5, <1>d DEF SegmentTypeOK
  <2> QED
    BY <2>1, <2>2, <2>3, <2>4, <2>5
<1>2. CASE CloseSegmenter
  <2>1. /\ UNCHANGED <<stamp, worker, closing, fates>> /\ cut.at = "idle"
        /\ \/ UNCHANGED queue /\ cut' = [cut EXCEPT !.faulted = TRUE]
           \/ Reserve /\ Reserved /\ cut' = [cut EXCEPT !.at = "closing"]
    BY <1>2 DEF CloseSegmenter, Usable
  <2>2. stamp' \in Nat /\ stamp' >= stamp
    BY <2>1 DEF SegmentTypeOK
  <2>3. CASE UNCHANGED queue /\ cut' = [cut EXCEPT !.faulted = TRUE]
    BY <2>1, <2>2, <2>3, <1>d, <1>e
  <2>4. CASE Reserve /\ Reserved /\ cut' = [cut EXCEPT !.at = "closing"]
    BY <2>1, <2>2, <2>4, <1>f
  <2> QED
    BY <2>1, <2>3, <2>4
<1>3. CASE OutputClosed
  <2> DEFINE c == cut.start
  <2>0. c \in Nat
    BY DEF SegmentTypeOK, Cut
  <2>c. cut' \in Cut /\ cut'.at = "idle" /\ cut.at # "idle" /\ UNCHANGED <<stamp, worker, closing>>
    <3>1. (cut.at = "rotating" => stamp - 1 \in Nat) /\ queue.accepting \in BOOLEAN
      BY <1>a DEF SegmentTypeOK
    <3>2. cut \in Cut
      BY DEF SegmentTypeOK
    <3> QED
      BY <1>3, <3>1, <3>2 DEF OutputClosed, Cut
  <2>q. SubmitReserved(c)
    BY <1>3 DEF OutputClosed
  <2> HIDE DEF c
  <2>1. CASE queue.accepting
    <3>1. queue'.items = Append(queue.items, c) /\ queue'.outstanding = queue.outstanding
          /\ queue'.failed = queue.failed /\ queue'.accepting = queue.accepting /\ fates' = Settle(c, "queued")
      BY <2>q, <2>1 DEF SubmitReserved, SegmentTypeOK, Queue
    <3>2. SegmentTypeOK'
      <4>1. queue' \in Queue
        <5>1. Append(queue.items, c) \in Seq(Nat)
          BY <1>a, <2>0, ItemsAppended
        <5> QED
          BY <2>q, <2>1, <1>a, <5>1 DEF SubmitReserved, SegmentTypeOK, Queue
      <4>3. fates' \in [DOMAIN fates' -> {"queued", "raised", "finalized", "failed"}] /\ DOMAIN fates' \subseteq Nat
        BY <3>1, <2>0 DEF Settle, SegmentTypeOK
      <4> QED
        BY <2>c, <4>1, <4>3 DEF SegmentTypeOK
    <3>3. SlotsAccounted'
      <4>1. Len(queue'.items) = Len(queue.items) + 1 /\ cut'.at = "idle" /\ cut.at # "idle" /\ worker' = worker
        BY <2>c, <3>1, <1>a, <2>0, ItemsAppended
      <4>2. InHand' = InHand /\ InHand \in 0..1 /\ OnItsWay = 1 /\ OnItsWay' = 0
        BY <4>1 DEF InHand, OnItsWay
      <4> QED
        BY <4>1, <4>2, <3>1, <1>a DEF SlotsAccounted
    <3>4. QueuedIsHeld'
      <4> SUFFICES ASSUME NEW d \in DOMAIN fates', fates'[d] = "queued"
                   PROVE  Queued(d)' \/ worker' = d \/ (closing'.at = "closed" /\ ~closing'.drained)
        BY DEF QueuedIsHeld
      <4>1. CASE d = c
        <5>1. Len(queue'.items) = Len(queue.items) + 1 /\ queue'.items[Len(queue.items) + 1] = c
          BY <3>1, <1>a, <2>0, ItemsAppended
        <5> QED
          BY <5>1, <4>1, <1>a DEF Queued
      <4>2. CASE d # c
        <5>1. d \in DOMAIN fates /\ fates[d] = "queued"
          BY <4>2, <3>1 DEF Settle
        <5>2. Queued(d) => Queued(d)'
          <6>1. Len(queue'.items) = Len(queue.items) + 1
                /\ \A i \in 1..Len(queue.items) : queue'.items[i] = queue.items[i]
            BY <3>1, <1>a, <2>0, ItemsAppended
          <6> QED
            BY <6>1, <1>a DEF Queued
        <5> QED
          BY <5>1, <5>2, <2>c DEF QueuedIsHeld
      <4> QED
        BY <4>1, <4>2
    <3>5. FailuresCounted' /\ ClosedRefuses'
      <4>1. FailuresCounted'
        BY <3>1 DEF Settle, FailuresCounted
      <4>2. ClosedRefuses'
        BY <3>1, <2>1, <2>c DEF ClosedRefuses
      <4> QED
        BY <4>1, <4>2
    <3> QED
      BY <3>2, <3>3, <3>4, <3>5
  <2>2. CASE ~queue.accepting
    <3>1. queue'.items = queue.items /\ queue'.outstanding = queue.outstanding - 1
          /\ queue'.failed = queue.failed /\ queue'.accepting = queue.accepting /\ fates' = Settle(c, "raised")
      BY <2>q, <2>2 DEF SubmitReserved, SegmentTypeOK, Queue
    <3>0. InHand' = InHand /\ InHand \in 0..1 /\ OnItsWay = 1 /\ OnItsWay' = 0
      BY <2>c DEF InHand, OnItsWay
    <3>2. queue.outstanding > 0
      BY <1>a, <3>0 DEF SlotsAccounted
    <3>3. SegmentTypeOK'
      <4>1. queue' \in Queue
        BY <2>q, <2>2, <1>a, <3>2 DEF SubmitReserved, SegmentTypeOK, Queue
      <4>3. fates' \in [DOMAIN fates' -> {"queued", "raised", "finalized", "failed"}] /\ DOMAIN fates' \subseteq Nat
        BY <3>1, <2>0 DEF Settle, SegmentTypeOK
      <4> QED
        BY <2>c, <4>1, <4>3 DEF SegmentTypeOK
    <3>4. SlotsAccounted'
      BY <3>0, <3>1, <1>a, <1>b DEF SlotsAccounted
    <3>5. QueuedIsHeld'
      BY <2>c, <3>1 DEF Settle, QueuedIsHeld, Queued
    <3>6. FailuresCounted' /\ ClosedRefuses'
      BY <2>c, <3>1 DEF Settle, FailuresCounted, ClosedRefuses
    <3> QED
      BY <3>3, <3>4, <3>5, <3>6
  <2> QED
    BY <2>1, <2>2
<1>4. CASE OutputFails
  <2>1. queue'.items = queue.items /\ queue'.outstanding = queue.outstanding - 1
        /\ queue'.failed = queue.failed /\ queue'.accepting = queue.accepting
        /\ cut'.at = "idle" /\ cut.at # "idle" /\ UNCHANGED <<stamp, worker, closing, fates>>
    BY <1>4 DEF OutputFails, SegmentTypeOK, Queue, Cut
  <2>0. InHand' = InHand /\ InHand \in 0..1 /\ OnItsWay = 1 /\ OnItsWay' = 0
    BY <2>1 DEF InHand, OnItsWay
  <2>2. queue.outstanding > 0
    BY <1>a, <2>0 DEF SlotsAccounted
  <2>3. SegmentTypeOK'
    <3>1. queue' \in Queue
      BY <1>4, <2>2, <1>a DEF OutputFails, SegmentTypeOK, Queue
    <3>2. cut' \in Cut
      BY <1>4 DEF OutputFails, SegmentTypeOK, Cut
    <3> QED
      BY <2>1, <3>1, <3>2 DEF SegmentTypeOK
  <2>4. SlotsAccounted'
    BY <2>0, <2>1, <1>a, <1>b DEF SlotsAccounted
  <2> QED
    BY <2>1, <2>3, <2>4 DEF QueuedIsHeld, FailuresCounted, ClosedRefuses, Queued
<1>5. CASE TakeItem
  <2> DEFINE s == queue.items
  <2>1. /\ worker = Empty /\ worker' = Head(s) /\ queue'.items = Tail(s) /\ s # <<>>
        /\ queue'.outstanding = queue.outstanding /\ queue'.failed = queue.failed
        /\ queue'.accepting = queue.accepting /\ UNCHANGED <<cut, stamp, closing, fates>>
    BY <1>5 DEF TakeItem, SegmentTypeOK, Queue
  <2>2. /\ Head(s) \in Nat /\ Tail(s) \in Seq(Nat) /\ Len(Tail(s)) = Len(s) - 1 /\ Head(s) = s[1]
        /\ \A i \in 1..Len(s) : i = 1 \/ (i - 1 \in 1..Len(Tail(s)) /\ Tail(s)[i - 1] = s[i])
    BY <2>1, <1>a, ItemsTaken
  <2>3. SegmentTypeOK'
    <3>1. queue' \in Queue
      BY <1>5, <2>2, <1>a DEF TakeItem, SegmentTypeOK, Queue
    <3> QED
      BY <2>1, <2>2, <3>1 DEF SegmentTypeOK
  <2>4. SlotsAccounted'
    <3>1. InHand = 0 /\ InHand' = 1 /\ OnItsWay' = OnItsWay /\ OnItsWay \in 0..1
      BY <2>1, <2>2 DEF InHand, OnItsWay, Empty
    <3> QED
      BY <2>1, <2>2, <3>1, <1>a, <1>b DEF SlotsAccounted
  <2>5. QueuedIsHeld'
    <3> SUFFICES ASSUME NEW d \in DOMAIN fates, fates[d] = "queued"
                 PROVE  Queued(d)' \/ worker' = d \/ (closing.at = "closed" /\ ~closing.drained)
      BY <2>1 DEF QueuedIsHeld
    <3>1. CASE Queued(d)
      <4> PICK i \in 1..Len(s) : s[i] = d
        BY <3>1 DEF Queued
      <4> QED
        BY <2>1, <2>2 DEF Queued
    <3>2. worker # d
      BY <2>1 DEF SegmentTypeOK, Empty
    <3> QED
      BY <3>1, <3>2, <2>1 DEF QueuedIsHeld
  <2> QED
    BY <2>1, <2>3, <2>4, <2>5 DEF FailuresCounted, ClosedRefuses
<1>6. CASE FinalizeItem
  <2>p. PICK ok \in BOOLEAN :
        /\ fates' = Settle(worker, IF ok THEN "finalized" ELSE "failed")
        /\ queue' = [queue EXCEPT !.outstanding = @ - 1, !.failed = IF ok THEN @ ELSE @ + 1]
    BY <1>6 DEF FinalizeItem
  <2>f. fates' = Settle(worker, IF ok THEN "finalized" ELSE "failed")
    BY <2>p
  <2>0. worker \in Nat /\ worker # Empty /\ worker' = Empty /\ UNCHANGED <<cut, stamp, closing>>
    BY <1>6 DEF FinalizeItem, SegmentTypeOK
  <2>1. /\ queue'.items = queue.items /\ queue'.outstanding = queue.outstanding - 1
        /\ queue'.failed = (IF ok THEN queue.failed ELSE queue.failed + 1)
        /\ queue'.accepting = queue.accepting
    BY <2>p DEF SegmentTypeOK, Queue
  <2>s. InHand = 1 /\ InHand' = 0 /\ OnItsWay' = OnItsWay /\ OnItsWay \in 0..1
    BY <2>0 DEF InHand, OnItsWay
  <2>2. queue.outstanding > 0
    BY <1>a, <2>s DEF SlotsAccounted
  <2>3. SegmentTypeOK'
    <3>1. queue' \in Queue
      <4>1. queue.outstanding - 1 \in Nat /\ (IF ok THEN queue.failed ELSE queue.failed + 1) \in Nat
        BY <2>2, <1>a
      <4> QED
        BY <2>p, <4>1 DEF SegmentTypeOK, Queue
    <3>2. fates' \in [DOMAIN fates' -> {"queued", "raised", "finalized", "failed"}] /\ DOMAIN fates' \subseteq Nat
      BY <2>0, <2>f DEF Settle, SegmentTypeOK
    <3> QED
      BY <3>1, <3>2, <2>0 DEF SegmentTypeOK
  <2>4. SlotsAccounted'
    BY <2>s, <2>1, <1>a, <1>b DEF SlotsAccounted
  <2>5. QueuedIsHeld'
    <3> SUFFICES ASSUME NEW d \in DOMAIN fates', fates'[d] = "queued"
                 PROVE  Queued(d)' \/ (closing.at = "closed" /\ ~closing.drained)
      BY <2>0 DEF QueuedIsHeld
    <3>1. d # worker /\ d \in DOMAIN fates /\ fates[d] = "queued"
      BY <2>f DEF Settle
    <3> QED
      BY <3>1, <2>1 DEF QueuedIsHeld, Queued
  <2>6. FailuresCounted'
    BY <2>f, <2>1, <1>a DEF Settle, FailuresCounted
  <2> QED
    BY <2>0, <2>1, <2>3, <2>4, <2>5, <2>6 DEF ClosedRefuses
<1>7. CASE BeginClose
  <2>1. /\ queue'.items = queue.items /\ queue'.outstanding = queue.outstanding /\ queue'.failed = queue.failed
        /\ queue'.accepting = FALSE /\ queue' \in Queue /\ UNCHANGED <<cut, stamp, worker, fates>>
        /\ closing.at = "open" /\ closing'.at = "draining" /\ closing'.drained = closing.drained
        /\ closing'.outstanding = closing.outstanding
    BY <1>7 DEF BeginClose, SegmentTypeOK, Queue
  <2>2. SegmentTypeOK'
    BY <1>7, <2>1 DEF BeginClose, SegmentTypeOK
  <2> QED
    BY <2>1, <2>2 DEF SlotsAccounted, InHand, OnItsWay, QueuedIsHeld, FailuresCounted, ClosedRefuses, Queued
<1>8. CASE Drained
  <2>1. /\ UNCHANGED <<cut, stamp, queue, worker, fates>> /\ queue.items = <<>> /\ worker = Empty
        /\ closing.at = "draining" /\ closing'.at = "closed"
        /\ closing' = [closing EXCEPT !.at = "closed", !.outstanding = queue.outstanding]
    BY <1>8 DEF Drained, SegmentTypeOK
  <2>2. SegmentTypeOK'
    BY <1>a, <2>1 DEF SegmentTypeOK
  <2> QED
    BY <2>1, <2>2 DEF SlotsAccounted, InHand, OnItsWay, QueuedIsHeld, FailuresCounted, ClosedRefuses, Queued
<1>9. CASE DrainTimesOut
  <2> DEFINE left == queue.outstanding - InHand
  <2>s. InHand \in 0..1 /\ InHand' = 0 /\ OnItsWay' = OnItsWay /\ OnItsWay \in 0..1
    BY <1>9 DEF InHand, OnItsWay, DrainTimesOut, Cancelled
  <2>0. left \in Nat /\ left <= queue.outstanding
    BY <1>a, <2>s DEF SlotsAccounted
  <2>1. /\ queue' = [queue EXCEPT !.outstanding = left] /\ worker' = Empty /\ UNCHANGED <<cut, stamp, fates>>
        /\ closing' = [at |-> "closed", drained |-> FALSE, outstanding |-> left] /\ closing.at = "draining"
    BY <1>9 DEF DrainTimesOut, Cancelled, InHand
  <2>2. left = Len(queue.items) + OnItsWay
    BY <1>a, <2>s DEF SlotsAccounted
  <2> HIDE DEF left
  <2>3. /\ queue'.items = queue.items /\ queue'.outstanding = left /\ queue'.failed = queue.failed
        /\ queue'.accepting = queue.accepting /\ queue' \in Queue
    BY <2>0, <2>1 DEF SegmentTypeOK, Queue
  <2>4. SegmentTypeOK'
    BY <2>0, <2>1, <2>3 DEF SegmentTypeOK
  <2>5. SlotsAccounted'
    BY <2>0, <2>s, <2>2, <2>3, <1>a, <1>b DEF SlotsAccounted
  <2>6. QueuedIsHeld' /\ FailuresCounted' /\ ClosedRefuses'
    BY <2>1, <2>3 DEF QueuedIsHeld, FailuresCounted, ClosedRefuses
  <2> QED
    BY <2>4, <2>5, <2>6
<1> QED
  BY <1>0, <1>1, <1>2, <1>3, <1>4, <1>5, <1>6, <1>7, <1>8, <1>9 DEF SegmentNext

\* For every capacity of the queue, every boundary policy and every length of the stream:
\* slots are accounted for, and a close that reports nothing lost has lost nothing.
THEOREM QueueLosesNothing == SegmentSpec => []SegmentInv
<1>1. SegmentInd => SegmentInv
  <2> SUFFICES ASSUME SegmentInd, closing.at = "closed", closing.drained, closing.outstanding = 0,
                      queue.failed = 0, NEW c \in DOMAIN fates
               PROVE  fates[c] \in {"finalized", "raised"}
    BY DEF SegmentInv, SegmentInd, DrainedLosesNothing
  <2>1. queue.items = <<>> /\ worker = Empty /\ Len(queue.items) = 0
    BY DEF SegmentInd, ClosedRefuses
  <2>2. fates[c] # "queued"
    BY <2>1 DEF SegmentInd, QueuedIsHeld, Queued, SegmentTypeOK, Empty
  <2>3. fates[c] # "failed"
    BY DEF SegmentInd, FailuresCounted
  <2> QED
    BY <2>2, <2>3 DEF SegmentInd, SegmentTypeOK
<1> QED
  BY <1>1, SegmentBegins, SegmentStep, PTL DEF SegmentSpec

-----------------------------------------------------------------------------
(* AudioSelection *)

AudioStates == {"UNAVAILABLE", "MATCHED", "FAULTED", "DISABLED"}

Backend == [device : Occupants, plan : Cards \cup {NoCard}, isolated : BOOLEAN, restored : BOOLEAN]

Selected == [phase : {"checked", "discovering", "open", "reopen", "running", "stopping", "recover", "failed",
                      "exhausted"},
             plan : Cards \cup {NoCard}, state : AudioStates, fallback : BOOLEAN,
             restarts : Nat, faults : Nat, changes : Nat]

Lookup == [for : {"nobody", "start", "restore"}, left : SUBSET (Cards \X {0, 1}),
           matched : SUBSET (Cards \X {0, 1})]

SelectionTypeOK ==
    /\ bus \in [Cards -> Occupants]
    /\ lookup \in Lookup
    /\ audio \in Selected /\ capture \in Backend
    /\ reported.of \in {"attempt", "plan"}

\* The runtime says that it matched a device only while it holds the card of one.
MatchedHasPlan == audio.state = "MATCHED" => audio.plan # NoCard

\* A running attempt with a plan, or with a restored device, has a device, unless its loss
\* is isolated.
AttemptHasDevice ==
    /\ audio.phase = "running" /\ ~capture.isolated /\ (capture.restored \/ audio.plan # NoCard)
         => capture.device # "none"
    /\ capture.restored => capture.plan # NoCard

\* A report of an attempt is about the one that runs; a report of a match is about the plan
\* that the runtime still holds.
ReportIsCurrent == reported.state = "MATCHED" =>
    /\ reported.of = "attempt" => audio.phase = "running" /\ capture.device # "none"
    /\ audio.plan # NoCard

\* A discovery for the start is under way only before the start.
LookupServesStart == lookup.for = "start" => audio.phase = "discovering"

SelectionInd == SelectionTypeOK /\ MatchedHasPlan /\ AttemptHasDevice /\ ReportIsCurrent /\ LookupServesStart

\* Nothing is selected and nothing reported.
LEMMA SelectionBegins == SelectionInit => SelectionInd
BY DEF SelectionInit, SelectionInd, SelectionTypeOK, MatchedHasPlan, AttemptHasDevice, ReportIsCurrent,
       LookupServesStart, Lookup, Buses, NoLookup, NoBackend, Selected, Backend, AudioStates, NoCard,
       Occupants, NothingReported

\* Exactly one match names a card.
LEMMA MatchNamesCard ==
    ASSUME SelectionTypeOK, Outcome = "MATCHED"
    PROVE  MatchedCard \in Cards /\ MatchedCard # NoCard
<1>1. lookup.matched # {}
  BY FS_EmptySet DEF Outcome
<1>2. (CHOOSE n \in lookup.matched : TRUE) \in Cards \X {0, 1}
  BY <1>1 DEF SelectionTypeOK, Lookup
<1> QED
  BY <1>2, SelectionConstants DEF MatchedCard, NoCard

\* What the outcome of a discovery makes of the selection.
LEMMA ResolvedFacts ==
    ASSUME SelectionInd, NEW outcome \in {"MATCHED", "NOT_FOUND", "AMBIGUOUS", "REFUSED"},
           outcome = "MATCHED" => Outcome = "MATCHED"
    PROVE  /\ Resolved(outcome) \in Selected /\ Resolved(outcome).phase = "open"
           /\ Resolved(outcome).state = "MATCHED" => Resolved(outcome).plan # NoCard
<1> DEFINE plan == IF outcome = "MATCHED" THEN MatchedCard ELSE NoCard
           state == CASE outcome = "MATCHED" -> "MATCHED" [] outcome = "NOT_FOUND" -> "UNAVAILABLE"
                      [] OTHER -> "FAULTED"
<1>1. plan \in Cards \cup {NoCard} /\ (outcome = "MATCHED" => plan # NoCard)
  BY MatchNamesCard DEF SelectionInd
<1>2. state \in AudioStates /\ (state = "MATCHED" => outcome = "MATCHED")
  BY DEF AudioStates
<1>3. Resolved(outcome) = [audio EXCEPT !.phase = "open", !.plan = plan, !.state = state]
  BY DEF Resolved
<1>4. audio \in Selected
  BY DEF SelectionInd, SelectionTypeOK
<1> HIDE DEF plan, state
<1> QED
  BY <1>1, <1>2, <1>3, <1>4 DEF Selected

\* Devices that come and go, discovery, the start, isolation, restoration and recovery keep
\* all of it.
LEMMA SelectionStep ==
    ASSUME SelectionInd, [SelectionNext]_selectionVars
    PROVE  SelectionInd'
<1> USE DEF SelectionInd
<1>t. audio \in Selected /\ capture \in Backend
  BY DEF SelectionTypeOK
<1>n. NoBackend \in Backend /\ NoBackend.restored = FALSE /\ NoLookup \in Lookup /\ NoLookup.for = "nobody"
  BY DEF NoBackend, Backend, Occupants, NoLookup, Lookup
<1>r. NothingReported.of = "plan" /\ NothingReported.state # "MATCHED"
  BY DEF NothingReported
<1> USE DEF MatchedHasPlan, AttemptHasDevice, ReportIsCurrent, LookupServesStart
<1>0. CASE UNCHANGED selectionVars
  BY <1>0 DEF selectionVars, SelectionTypeOK
<1>1. CASE BusChange
  <2>1. /\ bus' \in [Cards -> Occupants] /\ UNCHANGED <<lookup, capture, reported>>
        /\ audio' = [audio EXCEPT !.changes = @ + 1]
    BY <1>1 DEF BusChange, Buses
  <2>2. /\ audio' \in Selected /\ audio'.phase = audio.phase /\ audio'.plan = audio.plan
        /\ audio'.state = audio.state
    BY <1>t, <2>1 DEF Selected
  <2> QED
    BY <2>1, <2>2 DEF SelectionTypeOK
<1>2. CASE QueryUdev
  <2>1. UNCHANGED <<bus, audio, capture, reported>>
        /\ \E n \in lookup.left :
             lookup' = [lookup EXCEPT !.left = @ \ {n},
                           !.matched = IF SelectorMatches(bus[n[1]]) THEN @ \cup {n} ELSE @]
    BY <1>2 DEF QueryUdev
  <2>2. lookup' \in Lookup /\ lookup'.for = lookup.for
    <3>1. PICK n \in lookup.left :
            lookup' = [lookup EXCEPT !.left = @ \ {n},
                          !.matched = IF SelectorMatches(bus[n[1]]) THEN @ \cup {n} ELSE @]
      BY <2>1
    <3> DEFINE m == IF SelectorMatches(bus[n[1]]) THEN lookup.matched \cup {n} ELSE lookup.matched
    <3>2. lookup.left \ {n} \in SUBSET (Cards \X {0, 1}) /\ m \in SUBSET (Cards \X {0, 1})
      BY DEF SelectionTypeOK, Lookup
    <3>3. lookup' = [lookup EXCEPT !.left = lookup.left \ {n}, !.matched = m]
      BY <3>1
    <3> HIDE DEF m
    <3> QED
      BY <3>2, <3>3 DEF SelectionTypeOK, Lookup
  <2> QED
    BY <2>1, <2>2 DEF SelectionTypeOK
<1>3. ASSUME NEW outcome \in {"MATCHED", "NOT_FOUND", "AMBIGUOUS", "REFUSED"},
             outcome = "MATCHED" => Outcome = "MATCHED", lookup.for = "start",
             audio' = Resolved(outcome), lookup' = NoLookup, reported' = NothingReported,
             UNCHANGED <<bus, capture>>
      PROVE  SelectionInd'
  <2>1. audio' \in Selected /\ audio'.phase = "open" /\ (audio'.state = "MATCHED" => audio'.plan # NoCard)
    BY <1>3, ResolvedFacts
  <2> QED
    BY <2>1, <1>3, <1>n, <1>r DEF SelectionTypeOK
<1>4. CASE DiscoveryRefused
  <2>1. CASE lookup.for = "start"
    BY <1>4, <2>1, <1>3 DEF DiscoveryRefused
  <2>2. CASE lookup.for # "start"
    BY <1>4, <2>2, <1>n DEF DiscoveryRefused, SelectionTypeOK
  <2> QED
    BY <2>1, <2>2
<1>5. CASE DiscoveryEnds
  <2>1. Outcome \in {"MATCHED", "NOT_FOUND", "AMBIGUOUS", "REFUSED"}
    BY DEF Outcome
  <2> QED
    BY <1>5, <2>1, <1>3 DEF DiscoveryEnds
<1>e. ASSUME NEW who \in {"start", "restore"}, EnumerateCaptureNodes(who)
      PROVE  lookup' \in Lookup /\ lookup'.for = who
  BY <1>e DEF EnumerateCaptureNodes, Lookup
<1>6. CASE ResolveAudio
  <2>1. /\ audio' = [audio EXCEPT !.phase = "discovering"] /\ audio.phase = "checked"
        /\ UNCHANGED <<bus, capture, reported>> /\ lookup' \in Lookup
    BY <1>6, <1>e DEF ResolveAudio
  <2>2. /\ audio' \in Selected /\ audio'.phase = "discovering" /\ audio'.plan = audio.plan
        /\ audio'.state = audio.state
    BY <1>t, <2>1 DEF Selected
  <2> QED
    BY <2>1, <2>2 DEF SelectionTypeOK
<1>7. CASE AudioNotWanted
  <2>p. PICK s \in {"DISABLED", "FAULTED"} : audio' = [audio EXCEPT !.phase = "open", !.state = s]
    BY <1>7 DEF AudioNotWanted
  <2>1. audio' \in Selected /\ audio'.phase = "open" /\ audio'.state # "MATCHED"
    BY <1>t, <2>p DEF Selected, AudioStates
  <2> QED
    BY <1>7, <2>1 DEF AudioNotWanted, SelectionTypeOK
<1>8. CASE AttemptOpens
  <2>1. /\ audio' = [audio EXCEPT !.phase = "running"] /\ audio.phase \in {"open", "reopen"}
        /\ Opens /\ UNCHANGED <<bus, lookup, reported>>
        /\ capture' = [NoBackend EXCEPT !.device = Endpoint, !.plan = audio.plan]
    BY <1>8 DEF AttemptOpens
  <2>2. /\ audio' \in Selected /\ audio'.phase = "running" /\ audio'.plan = audio.plan
        /\ audio'.state = audio.state
    BY <1>t, <2>1 DEF Selected
  <2>3. Endpoint \in Occupants /\ (audio.plan # NoCard => Endpoint # "none")
    BY <1>t, <2>1 DEF Opens, Endpoint, Occupants, SelectionTypeOK, Selected
  <2>4. /\ capture' \in Backend /\ capture'.device = Endpoint /\ capture'.isolated = FALSE
        /\ capture'.restored = FALSE
    BY <1>t, <2>1, <2>3 DEF NoBackend, Backend, Selected
  <2> QED
    BY <2>1, <2>2, <2>3, <2>4 DEF SelectionTypeOK
<1>9. CASE AudioStartupFails
  <2>1. CASE audio' = [audio EXCEPT !.fallback = TRUE, !.plan = NoCard, !.state = "FAULTED"]
             /\ reported' = NothingReported
    <3>1. audio' \in Selected /\ audio'.phase = audio.phase /\ audio'.state = "FAULTED" /\ audio'.plan = NoCard
      BY <1>t, <2>1 DEF Selected, AudioStates
    <3>2. audio.phase = "open"
      BY <1>9, <2>1, <3>1 DEF AudioStartupFails, Selected
    <3> QED
      BY <1>9, <2>1, <3>1, <3>2, <1>r DEF AudioStartupFails, SelectionTypeOK
  <2>2. CASE audio' = [audio EXCEPT !.phase = "recover"] /\ audio.phase = "reopen" /\ UNCHANGED reported
    <3>1. audio' \in Selected /\ audio'.phase = "recover" /\ audio'.state = audio.state /\ audio'.plan = audio.plan
      BY <1>t, <2>2 DEF Selected
    <3> QED
      BY <1>9, <2>2, <3>1 DEF AudioStartupFails, SelectionTypeOK
  <2> QED
    BY <1>9, <2>1, <2>2 DEF AudioStartupFails
<1>10. ASSUME NEW camera \in BOOLEAN, PipelineFails(camera)
       PROVE  SelectionInd'
  <2>1. /\ audio' \in Selected /\ audio'.phase \in {"failed", "recover"} /\ audio'.state = audio.state
        /\ audio'.plan = audio.plan
    <3>1. /\ audio' = [audio EXCEPT !.phase = IF @ = "open" THEN "failed" ELSE "recover",
                                    !.faults = IF camera THEN @ + 1 ELSE @]
          /\ (IF camera THEN audio.faults + 1 ELSE audio.faults) \in Nat
      BY <1>10, <1>t DEF PipelineFails, Selected
    <3> QED
      BY <3>1, <1>t DEF Selected
  <2> QED
    BY <1>10, <2>1 DEF PipelineFails, SelectionTypeOK
<1>11. CASE IsolateLoss
  <2>1. /\ capture' \in Backend /\ capture'.isolated = TRUE /\ capture'.restored = capture.restored
        /\ capture'.plan = capture.plan
    BY <1>11, <1>t DEF IsolateLoss, Backend, Occupants
  <2> QED
    BY <1>11, <2>1, <1>r DEF IsolateLoss, SelectionTypeOK
<1>12. CASE ProbeRestoration
  BY <1>12, <1>e DEF ProbeRestoration, SelectionTypeOK
<1>13. CASE RestorationEnds
  <2>0. lookup' = NoLookup /\ UNCHANGED <<bus, audio, reported>>
    BY <1>13 DEF RestorationEnds
  <2>1. CASE UNCHANGED capture
    BY <2>0, <2>1, <1>n DEF SelectionTypeOK
  <2>2. CASE ~UNCHANGED capture
    <3>1. /\ Outcome = "MATCHED" /\ bus[MatchedCard] \in {"mic", "wide"}
          /\ capture' = [capture EXCEPT !.device = bus[MatchedCard], !.plan = MatchedCard,
                                        !.isolated = FALSE, !.restored = TRUE]
      BY <1>13, <2>2 DEF RestorationEnds
    <3>2. MatchedCard \in Cards /\ MatchedCard # NoCard
      BY <3>1, MatchNamesCard
    <3>3. /\ capture' \in Backend /\ capture'.device \in {"mic", "wide"} /\ capture'.plan = MatchedCard
      BY <3>1, <3>2, <1>t DEF Backend, Occupants
    <3> QED
      BY <2>0, <3>2, <3>3, <1>n DEF SelectionTypeOK
  <2> QED
    BY <2>1, <2>2
<1>14. CASE RuntimeSnapshot
  <2>0. /\ audio' = ObserveBackend /\ UNCHANGED <<bus, lookup, capture>>
        /\ reported'.state = audio'.state
        /\ reported'.of = IF audio.phase = "running" THEN "attempt" ELSE "plan"
    BY <1>14 DEF RuntimeSnapshot
  <2>1. /\ audio' \in Selected /\ audio'.phase = audio.phase
        /\ audio'.state = "MATCHED" => audio'.plan # NoCard
        /\ audio'.state = "MATCHED" /\ audio.phase = "running" => capture.device # "none"
        /\ capture.isolated \/ capture.restored \/ audio'.plan = audio.plan
    <3>1. CASE capture.isolated
      BY <1>t, <2>0, <3>1 DEF ObserveBackend, Selected, AudioStates
    <3>2. CASE ~capture.isolated /\ capture.restored
      <4>1. capture.plan \in Cards \cup {NoCard}
        BY <1>t DEF Backend
      <4> QED
        BY <1>t, <2>0, <3>2, <4>1 DEF ObserveBackend, Selected, AudioStates
    <3>3. CASE ~capture.isolated /\ ~capture.restored
      BY <1>t, <2>0, <3>3 DEF ObserveBackend
    <3> QED
      BY <3>1, <3>2, <3>3
  <2>2. reported'.of \in {"attempt", "plan"} /\ (reported'.of = "attempt" => audio.phase = "running")
    BY <2>0
  <2>3. SelectionTypeOK' /\ MatchedHasPlan' /\ LookupServesStart'
    BY <2>0, <2>1, <2>2 DEF SelectionTypeOK
  <2>4. AttemptHasDevice'
    BY <2>0, <2>1
  <2>5. ReportIsCurrent'
    BY <2>0, <2>1, <2>2
  <2> QED
    BY <2>3, <2>4, <2>5
<1>15. CASE CameraFails
  <2>1. /\ audio' \in Selected /\ audio'.phase = "stopping" /\ audio'.state = audio.state
        /\ audio'.plan = audio.plan
    <3>1. audio' = [audio EXCEPT !.phase = "stopping", !.faults = @ + 1] /\ audio.faults + 1 \in Nat
      BY <1>15, <1>t DEF CameraFails, Selected
    <3> QED
      BY <3>1, <1>t DEF Selected
  <2> QED
    BY <1>15, <2>1, <1>r DEF CameraFails, SelectionTypeOK
<1>18. CASE CleanUp
  <2>p. PICK phase \in {"recover", "failed"} : audio' = [audio EXCEPT !.phase = phase]
    BY <1>18 DEF CleanUp
  <2>1. /\ audio' \in Selected /\ audio'.phase \in {"recover", "failed"} /\ audio'.state = audio.state
        /\ audio'.plan = audio.plan
    BY <2>p, <1>t DEF Selected
  <2> QED
    BY <1>18, <2>1, <1>n DEF CleanUp, SelectionTypeOK
<1>16. CASE StableClip
  <2>1. /\ audio' \in Selected /\ audio'.phase = audio.phase /\ audio'.state = audio.state /\ audio'.plan = audio.plan
    BY <1>16, <1>t DEF StableClip, Selected
  <2> QED
    BY <1>16, <2>1 DEF StableClip, SelectionTypeOK
<1>17. CASE Recover
  <2>1. /\ audio' \in Selected /\ audio'.phase \in {"exhausted", "reopen"} /\ audio'.state = audio.state
        /\ audio'.plan = audio.plan /\ audio.phase = "recover"
    <3>1. /\ audio.restarts + 1 \in Nat /\ audio.phase = "recover"
          /\ \/ audio' = [audio EXCEPT !.phase = "exhausted"]
             \/ audio' = [audio EXCEPT !.phase = "reopen", !.restarts = @ + 1]
      BY <1>17, <1>t DEF Recover, Selected
    <3> QED
      BY <3>1, <1>t DEF Selected
  <2> QED
    BY <1>17, <2>1 DEF Recover, SelectionTypeOK
<1> QED
  BY <1>0, <1>1, <1>2, <1>4, <1>5, <1>6, <1>7, <1>8, <1>9, <1>10, <1>11, <1>12, <1>13, <1>14, <1>15, <1>16, <1>17, <1>18
     DEF SelectionNext

\* On any number of cards, through any number of devices that come and go, losses,
\* restorations, cleanups and replacements, and whenever a status is taken: the recorder never
\* reports of an attempt a microphone it does not have, nor a match with no card selected.
THEOREM NoSoundClaimed == SelectionSpec => []ReportTruthful
<1>1. SelectionInd => ReportTruthful
  BY DEF SelectionInd, ReportIsCurrent, ReportTruthful
<1> QED
  BY <1>1, SelectionBegins, SelectionStep, PTL DEF SelectionSpec

-----------------------------------------------------------------------------
(* ForcedIdr *)

Frame == [time : Nat, kind : {"delta", "idr"}, answers : Nat]
Times == Nat \cup {NoTime}

Gate == [count : Nat, event : BOOLEAN, buffer : BOOLEAN, seqnum : BOOLEAN, answer : Times, foreign : Nat,
         failed : BOOLEAN, reached : Times, completed : BOOLEAN, release : BOOLEAN]

Driver == [at : {"start", "drain", "await", "edge", "discard", "retry", "routed", "cleanup", "ended", "failed"},
           audioEnd : Times, held : Times, proof : BOOLEAN, sent : Nat]

Encoder == [time : Nat, request : Nat, said : Nat]

IdrTypeOK ==
  /\ encoder \in Encoder /\ frames \in Seq(Frame) /\ gate \in Gate
  /\ holding \in SUBSET Frame /\ driver \in Driver /\ first \in Times

\* The frames on their way are the last ones that were encoded, one per instant.
FramesConsecutive == \A i \in 1..Len(frames) : frames[i].time = encoder.time - Len(frames) + i - 1

\* An answer that was seen is to the request of the gate in use, and its instant is that of
\* the frame that the encoder makes next or has made as the answer.
AnswerIsMine ==
  /\ encoder.request \in {0, gate.count} /\ gate.count = driver.sent
  /\ ~gate.seqnum => gate.answer = NoTime
  /\ gate.seqnum => gate.count # 0
  /\ gate.seqnum /\ gate.answer = NoTime => encoder.said = gate.count
  /\ gate.answer # NoTime =>
       /\ gate.answer <= encoder.time
       /\ gate.answer = encoder.time => encoder.said = gate.count
       /\ \A i \in 1..Len(frames) :
            frames[i].time = gate.answer => frames[i].kind = "idr" /\ frames[i].answers = gate.count

\* The frame on which the callback blocks.
HoldsAnswer ==
  /\ \A f \in holding : gate.answer # NoTime /\ f.answers = gate.count /\ gate.reached = f.time /\ gate.buffer
  /\ gate.reached # NoTime => holding # {} \/ ~gate.buffer
  /\ gate.completed => holding = {} /\ ~gate.buffer

\* Until the callback holds a frame, the answering one is still to come.
AnswerToCome ==
  gate.buffer /\ gate.answer # NoTime /\ holding = {} => encoder.time - Len(frames) <= gate.answer

\* What the handoff knows at each of its steps.
HandoffKnows ==
  /\ driver.at \in {"start", "retry"} => holding = {} /\ ~gate.buffer
  /\ driver.at \in {"drain", "await", "edge"} => ~gate.release /\ ~gate.completed /\ gate.buffer
  /\ driver.at = "edge" => gate.reached # NoTime /\ driver.held = gate.reached /\ driver.held >= driver.audioEnd
  /\ driver.proof => driver.at \in {"routed", "cleanup", "ended", "failed"}

\* The successor is opened on the held frame, and that frame enters first.
EntersFirst ==
  /\ ~driver.proof => first = NoTime
  /\ driver.proof =>
       /\ gate.reached = driver.held /\ driver.held # NoTime
       /\ driver.held >= driver.audioEnd /\ driver.held - driver.audioEnd < EdgeBound
       /\ (first = NoTime /\ holding # {}) \/ first = driver.held

IdrInd ==
  /\ IdrTypeOK /\ FramesConsecutive /\ AnswerIsMine /\ HoldsAnswer /\ AnswerToCome /\ HandoffKnows /\ EntersFirst

\* Nothing was asked for and no frame was made.
LEMMA IdrBegins == IdrInit => IdrInd
<1> SUFFICES ASSUME IdrInit PROVE IdrInd
  OBVIOUS
<1>1. frames = <<>> /\ frames \in Seq(Frame) /\ Len(frames) = 0
  BY DEF IdrInit
<1>2. gate = [count |-> 0, event |-> FALSE, buffer |-> FALSE, seqnum |-> FALSE, answer |-> NoTime,
              foreign |-> 0, failed |-> FALSE, reached |-> NoTime, completed |-> FALSE, release |-> FALSE]
  BY DEF IdrInit, NewGate
<1>3. gate \in Gate /\ driver \in Driver /\ encoder \in Encoder /\ first \in Times
  <2>1. gate \in Gate
    BY <1>2 DEF Gate, Times
  <2>2. driver \in Driver
    BY DEF IdrInit, Driver, Times
  <2>3. encoder \in Encoder /\ first \in Times
    BY DEF IdrInit, Encoder, Times
  <2> QED
    BY <2>1, <2>2, <2>3
<1>4. IdrTypeOK
  BY <1>1, <1>3 DEF IdrInit, IdrTypeOK
<1>5. /\ gate.count = 0 /\ gate.seqnum = FALSE /\ gate.answer = NoTime /\ gate.reached = NoTime
      /\ gate.completed = FALSE /\ gate.buffer = FALSE
  BY <1>2
<1>6. FramesConsecutive /\ AnswerIsMine
  BY <1>1, <1>5 DEF IdrInit, FramesConsecutive, AnswerIsMine
<1>7. HoldsAnswer /\ AnswerToCome /\ HandoffKnows /\ EntersFirst
  BY <1>5 DEF IdrInit, HoldsAnswer, AnswerToCome, HandoffKnows, EntersFirst
<1> QED
  BY <1>4, <1>6, <1>7 DEF IdrInd

\* A step of the handoff that leaves encoder, frames, gate and the held frame alone.
LEMMA DriverMoves ==
    ASSUME IdrInd, UNCHANGED <<encoder, frames, gate, holding, first>>, driver' \in Driver,
           driver'.sent = driver.sent, driver'.proof = driver.proof,
           driver.proof => driver'.held = driver.held /\ driver'.audioEnd = driver.audioEnd,
           HandoffKnows'
    PROVE  IdrInd'
<1> USE DEF IdrInd
<1>1. IdrTypeOK'
  BY DEF IdrTypeOK
<1>2. AnswerIsMine'
  BY DEF AnswerIsMine
<1>3. EntersFirst'
  BY DEF EntersFirst
<1> QED
  BY <1>1, <1>2, <1>3 DEF FramesConsecutive, HoldsAnswer, AnswerToCome

\* The encoder makes a frame.
LEMMA EncodeStep ==
    ASSUME IdrInd, NEW kind \in {"delta", "idr"}, Encode(kind)
    PROVE  IdrInd'
<1> USE DEF IdrInd
<1> DEFINE f == [time |-> encoder.time, kind |-> kind, answers |-> encoder.said]
<1>0. encoder \in Encoder /\ frames \in Seq(Frame) /\ encoder.time \in Nat /\ Len(frames) \in Nat
  BY LenProperties DEF IdrTypeOK, Encoder
<1>1. /\ frames' = Append(frames, f) /\ UNCHANGED <<gate, holding, driver, first>>
      /\ encoder' = [encoder EXCEPT !.time = @ + 1, !.said = 0]
  BY DEF Encode
<1>2. encoder.said = 0 \/ kind = "idr"
  BY DEF Encode
<1>3. gate.seqnum => gate.answer # NoTime
  BY DEF Encode
<1>4. f \in Frame
  BY <1>0 DEF Frame, Encoder
<1>5. encoder' \in Encoder /\ encoder'.time = encoder.time + 1 /\ encoder'.said = 0 /\ encoder'.request = encoder.request
  <2>1. encoder' = [encoder EXCEPT !.time = @ + 1, !.said = 0] /\ encoder.time + 1 \in Nat
    BY <1>0, <1>1
  <2> QED
    BY <1>0, <2>1 DEF Encoder
<1>6. /\ Append(frames, f) \in Seq(Frame) /\ Len(Append(frames, f)) = Len(frames) + 1
      /\ \A i \in 1..Len(frames) : Append(frames, f)[i] = frames[i]
      /\ Append(frames, f)[Len(frames) + 1] = f
  BY <1>0, <1>4, AppendProperties
<1>7. IdrTypeOK'
  BY <1>1, <1>5, <1>6 DEF IdrTypeOK
<1>8. f.time = encoder.time /\ f.kind = kind /\ f.answers = encoder.said
  OBVIOUS
<1> HIDE DEF f
<1>9. FramesConsecutive'
  <2> SUFFICES ASSUME NEW i \in 1..(Len(frames) + 1)
               PROVE  frames'[i].time = (encoder.time + 1) - (Len(frames) + 1) + i - 1
    BY <1>1, <1>5, <1>6 DEF FramesConsecutive
  <2>1. CASE i = Len(frames) + 1
    BY <2>1, <1>0, <1>1, <1>6, <1>8
  <2>2. CASE i \in 1..Len(frames)
    <3>1. frames'[i] = frames[i] /\ frames[i].time = encoder.time - Len(frames) + i - 1
      BY <2>2, <1>1, <1>6 DEF FramesConsecutive
    <3> QED
      BY <3>1, <2>2, <1>0
  <2> QED
    BY <2>1, <2>2, <1>0
<1>10. AnswerIsMine'
  <2>1. gate.answer # NoTime =>
          gate.answer <= encoder.time + 1 /\ gate.answer # encoder.time + 1
    BY <1>0 DEF AnswerIsMine, IdrTypeOK, Gate, Times
  <2>2. ASSUME gate.answer # NoTime, NEW i \in 1..(Len(frames) + 1), frames'[i].time = gate.answer
        PROVE  frames'[i].kind = "idr" /\ frames'[i].answers = gate.count
    <3>1. CASE i = Len(frames) + 1
      <4>1. encoder.time = gate.answer /\ encoder.said = gate.count /\ gate.seqnum /\ gate.count # 0
        BY <2>2, <3>1, <1>1, <1>6, <1>8 DEF AnswerIsMine
      <4> QED
        BY <4>1, <3>1, <1>1, <1>2, <1>6, <1>8
    <3>2. CASE i \in 1..Len(frames)
      BY <2>2, <3>2, <1>1, <1>6 DEF AnswerIsMine
    <3> QED
      BY <3>1, <3>2, <1>0
  <2> QED
    BY <2>1, <2>2, <1>1, <1>3, <1>5, <1>6 DEF AnswerIsMine
<1>11. AnswerToCome'
  <2>1. encoder'.time - Len(frames') = encoder.time - Len(frames)
    BY <1>0, <1>1, <1>5, <1>6
  <2> QED
    BY <2>1, <1>1 DEF AnswerToCome
<1> QED
  BY <1>1, <1>7, <1>9, <1>10, <1>11 DEF HoldsAnswer, HandoffKnows, EntersFirst

\* The callback of the encoder's answer, in its two steps.
LEMMA AnswerStep ==
    ASSUME IdrInd, EncoderAnswers \/ ObserveAnswerTime
    PROVE  IdrInd'
<1> USE DEF IdrInd
<1>0. encoder \in Encoder /\ gate \in Gate /\ frames \in Seq(Frame) /\ Len(frames) \in Nat /\ encoder.time \in Nat
  BY LenProperties DEF IdrTypeOK, Encoder
<1>1. CASE EncoderAnswers
  <2>1. /\ UNCHANGED <<frames, holding, driver, first>> /\ encoder.request # 0 /\ encoder.said = 0
        /\ encoder' = [encoder EXCEPT !.said = encoder.request, !.request = 0]
        /\ gate' = gate \/ (gate.event /\ gate' = [gate EXCEPT !.seqnum = TRUE, !.event = FALSE])
    BY <1>1 DEF EncoderAnswers, AnswerIsMine
  <2>2. /\ encoder' \in Encoder /\ encoder'.time = encoder.time /\ encoder'.said = gate.count
        /\ encoder'.request = 0 /\ gate.count # 0
    BY <2>1, <1>0 DEF Encoder, AnswerIsMine
  <2>3. /\ gate' \in Gate /\ gate'.count = gate.count /\ gate'.buffer = gate.buffer /\ gate'.answer = gate.answer
        /\ gate'.reached = gate.reached /\ gate'.completed = gate.completed /\ gate'.release = gate.release
        /\ gate.seqnum => gate'.seqnum
    BY <2>1, <1>0 DEF Gate
  <2>4. IdrTypeOK'
    BY <2>1, <2>2, <2>3 DEF IdrTypeOK
  <2>5. AnswerIsMine'
    BY <2>1, <2>2, <2>3 DEF AnswerIsMine
  <2> QED
    BY <2>1, <2>2, <2>3, <2>4, <2>5 DEF FramesConsecutive, HoldsAnswer, AnswerToCome, HandoffKnows, EntersFirst
<1>2. CASE ObserveAnswerTime
  <2>1. /\ UNCHANGED <<encoder, frames, holding, driver, first>> /\ gate.seqnum /\ gate.answer = NoTime
        /\ gate' = [gate EXCEPT !.answer = encoder.time]
    BY <1>2 DEF ObserveAnswerTime
  <2>2. /\ gate' \in Gate /\ gate'.count = gate.count /\ gate'.buffer = gate.buffer /\ gate'.answer = encoder.time
        /\ gate'.reached = gate.reached /\ gate'.completed = gate.completed /\ gate'.release = gate.release
        /\ gate'.seqnum = gate.seqnum /\ gate'.answer # NoTime
    <3>1. encoder.time \in Times /\ encoder.time # NoTime
      BY <1>0 DEF Times, NoTime
    <3> QED
      BY <2>1, <1>0, <3>1 DEF Gate
  <2>3. IdrTypeOK'
    BY <2>1, <2>2 DEF IdrTypeOK
  <2>4. ASSUME NEW i \in 1..Len(frames)
        PROVE  frames[i].time # encoder.time
    <3>1. frames[i].time = encoder.time - Len(frames) + i - 1
      BY DEF FramesConsecutive
    <3> QED
      BY <3>1, <1>0
  <2>5. AnswerIsMine'
    BY <2>1, <2>2, <2>4, <1>0 DEF AnswerIsMine
  <2>6. AnswerToCome'
    BY <2>1, <2>2, <1>0 DEF AnswerToCome
  <2> QED
    BY <2>1, <2>2, <2>3, <2>5, <2>6 DEF FramesConsecutive, HoldsAnswer, HandoffKnows, EntersFirst
<1> QED
  BY <1>1, <1>2

\* hold_idr lets a frame pass, or blocks on the answer and on nothing else.
LEMMA ArrivalStep ==
    ASSUME IdrInd, FrameArrives
    PROVE  IdrInd'
<1> USE DEF IdrInd
<1> DEFINE f == Head(frames)
<1>0. gate \in Gate /\ frames \in Seq(Frame) /\ Len(frames) \in Nat /\ encoder.time \in Nat /\ driver \in Driver
  BY LenProperties DEF IdrTypeOK, Encoder
<1>1. /\ holding = {} /\ frames # <<>> /\ frames' = Tail(frames) /\ UNCHANGED <<encoder, driver>>
      /\ \/ /\ Verdict(f) = "hold" /\ holding' = {f} /\ gate' = [gate EXCEPT !.reached = f.time]
            /\ UNCHANGED first
         \/ /\ Verdict(f) # "hold" /\ first' = Entering(f.time) /\ UNCHANGED holding
            /\ gate' = [gate EXCEPT !.failed = @ \/ Verdict(f) = "fail"]
  BY DEF FrameArrives
<1>2. /\ Len(frames) > 0 /\ f = frames[1] /\ f \in Frame /\ Tail(frames) \in Seq(Frame)
      /\ Len(Tail(frames)) = Len(frames) - 1
      /\ \A i \in 1..(Len(frames) - 1) : Tail(frames)[i] = frames[i + 1]
  BY <1>0, <1>1, HeadTailProperties, EmptySeq
<1>3. f.time = encoder.time - Len(frames)
  <2>1. frames[1].time = encoder.time - Len(frames) + 1 - 1
    BY <1>0, <1>2 DEF FramesConsecutive
  <2> QED
    BY <2>1, <1>0, <1>2
<1>4. f.time \in Nat /\ f.kind \in {"delta", "idr"} /\ f.time # NoTime /\ f.time \in Times
  BY <1>2 DEF Frame, NoTime, Times
<1>5. FramesConsecutive'
  <2> SUFFICES ASSUME NEW i \in 1..(Len(frames) - 1)
               PROVE  Tail(frames)[i].time = encoder.time - (Len(frames) - 1) + i - 1
    BY <1>1, <1>2 DEF FramesConsecutive
  <2>1. i + 1 \in 1..Len(frames)
    BY <1>0
  <2>2. frames[i + 1].time = encoder.time - Len(frames) + (i + 1) - 1
    BY <2>1 DEF FramesConsecutive
  <2> QED
    BY <2>2, <1>0, <1>2
<1>6. ASSUME gate'.count = gate.count, gate'.seqnum = gate.seqnum, gate'.answer = gate.answer
      PROVE  AnswerIsMine'
  <2>1. ASSUME gate.answer # NoTime, NEW i \in 1..(Len(frames) - 1), Tail(frames)[i].time = gate.answer
        PROVE  Tail(frames)[i].kind = "idr" /\ Tail(frames)[i].answers = gate.count
    <3>1. i + 1 \in 1..Len(frames) /\ Tail(frames)[i] = frames[i + 1]
      BY <1>0, <1>2
    <3> QED
      BY <2>1, <3>1 DEF AnswerIsMine
  <2> QED
    BY <1>1, <1>2, <1>6, <2>1 DEF AnswerIsMine
<1>a. gate.answer # NoTime => gate.answer \in Nat /\ gate.answer >= 0
  BY <1>0 DEF Gate, Times
<1>7. CASE Verdict(f) = "hold"
  <2>1. /\ gate.buffer /\ f.kind = "idr" /\ gate.seqnum /\ gate.answer # NoTime /\ ~(f.time < gate.answer)
    BY <1>4, <1>7 DEF Verdict
  <2>2. f.time = gate.answer
    <3>1. encoder.time - Len(frames) <= gate.answer
      BY <1>1, <2>1 DEF AnswerToCome
    <3> QED
      BY <3>1, <2>1, <1>0, <1>3, <1>a
  <2>3. f.answers = gate.count
    BY <1>0, <1>2, <2>1, <2>2 DEF AnswerIsMine
  <2>g. holding' = {f} /\ gate' = [gate EXCEPT !.reached = f.time] /\ first' = first
    BY <1>1, <1>7
  <2>4. /\ gate' \in Gate /\ gate'.count = gate.count /\ gate'.seqnum = gate.seqnum /\ gate'.answer = gate.answer
        /\ gate'.reached = f.time /\ gate'.buffer = gate.buffer /\ gate'.completed = gate.completed
        /\ gate'.release = gate.release
    BY <2>g, <1>0, <1>4 DEF Gate
  <2>5. gate.reached = NoTime /\ ~gate.completed
    BY <1>1, <2>1 DEF HoldsAnswer
  <2>6. ~driver.proof /\ driver.at # "edge" /\ driver.at \notin {"start", "retry"}
    BY <1>1, <2>1, <2>5 DEF HandoffKnows, EntersFirst
  <2>7. IdrTypeOK'
    BY <2>g, <2>4, <1>1, <1>2 DEF IdrTypeOK
  <2>8. HoldsAnswer'
    BY <2>1, <2>3, <2>g, <2>4, <2>5, <1>4 DEF HoldsAnswer
  <2>9. AnswerToCome'
    BY <2>g DEF AnswerToCome
  <2>10. HandoffKnows' /\ EntersFirst'
    BY <2>4, <2>5, <2>6, <2>g, <1>1 DEF HandoffKnows, EntersFirst
  <2> QED
    BY <1>5, <1>6, <2>4, <2>7, <2>8, <2>9, <2>10
<1>8. CASE Verdict(f) # "hold"
  <2>g. first' = Entering(f.time) /\ holding' = {} /\ gate' = [gate EXCEPT !.failed = @ \/ Verdict(f) = "fail"]
    BY <1>1, <1>8
  <2>1. (gate.failed \/ Verdict(f) = "fail") \in BOOLEAN
    OBVIOUS
  <2>2. /\ gate' \in Gate /\ gate'.count = gate.count /\ gate'.seqnum = gate.seqnum /\ gate'.answer = gate.answer
        /\ gate'.reached = gate.reached /\ gate'.buffer = gate.buffer /\ gate'.completed = gate.completed
        /\ gate'.release = gate.release
    BY <2>g, <2>1, <1>0 DEF Gate
  <2>3. first' = first
    BY <2>g, <1>1 DEF Entering, EntersFirst
  <2>4. IdrTypeOK'
    BY <2>g, <2>2, <2>3, <1>1, <1>2 DEF IdrTypeOK
  <2>5. AnswerToCome'
    <3> SUFFICES ASSUME gate.buffer, gate.answer # NoTime
                 PROVE  encoder.time - (Len(frames) - 1) <= gate.answer
      BY <2>2, <2>g, <1>1, <1>2 DEF AnswerToCome
    <3>1. gate.seqnum /\ encoder.time - Len(frames) <= gate.answer
      BY <1>1 DEF AnswerToCome, AnswerIsMine
    <3>2. f.time = gate.answer => f.kind = "idr"
      BY <1>0, <1>2 DEF AnswerIsMine
    <3>3. f.time # gate.answer
      BY <1>8, <3>1, <3>2, <1>4, <1>a DEF Verdict
    <3> QED
      BY <3>1, <3>3, <1>0, <1>3, <1>a
  <2> QED
    BY <1>1, <1>5, <1>6, <2>2, <2>3, <2>4, <2>5, <2>g DEF HoldsAnswer, HandoffKnows, EntersFirst
<1> QED
  BY <1>7, <1>8

\* The callback returns: the frame enters the successor if that is open.
LEMMA LeaveStep ==
    ASSUME IdrInd, LetGo \/ HoldTimesOut
    PROVE  IdrInd'
<1> USE DEF IdrInd
<1>0. gate \in Gate /\ driver \in Driver
  BY DEF IdrTypeOK
<1>1. PICK failed \in BOOLEAN : Leave(failed) /\ holding # {} /\ (gate.release \/ driver.at = "failed")
  BY DEF LetGo, HoldTimesOut
<1>2. /\ first' = Entering(gate.reached) /\ holding' = {} /\ UNCHANGED <<encoder, frames, driver>>
      /\ gate' = [gate EXCEPT !.completed = TRUE, !.buffer = FALSE, !.failed = @ \/ failed]
  BY <1>1 DEF Leave
<1>3. (gate.failed \/ failed) \in BOOLEAN
  OBVIOUS
<1>4. /\ gate' \in Gate /\ gate'.count = gate.count /\ gate'.seqnum = gate.seqnum /\ gate'.answer = gate.answer
      /\ gate'.reached = gate.reached /\ gate'.buffer = FALSE /\ gate'.completed = TRUE
      /\ gate'.release = gate.release
  BY <1>0, <1>2, <1>3 DEF Gate
<1>5. gate.reached \in Times
  BY <1>0 DEF Gate
<1>6. first' \in Times /\ (~driver.proof => first' = NoTime) /\ (driver.proof => first' = driver.held)
  BY <1>2, <1>5 DEF Entering, EntersFirst, IdrTypeOK
<1>7. IdrTypeOK'
  BY <1>2, <1>4, <1>6 DEF IdrTypeOK
<1>8. AnswerIsMine' /\ FramesConsecutive'
  BY <1>2, <1>4 DEF AnswerIsMine, FramesConsecutive
<1>9. driver.at \notin {"drain", "await", "edge"}
  BY <1>1 DEF HandoffKnows
<1>10. HandoffKnows'
  BY <1>2, <1>4, <1>9 DEF HandoffKnows
<1>11. EntersFirst'
  BY <1>2, <1>4, <1>6 DEF EntersFirst
<1> QED
  BY <1>2, <1>4, <1>7, <1>8, <1>10, <1>11 DEF HoldsAnswer, AnswerToCome

\* The handoff arms a new gate only when none holds a frame.
LEMMA ArmStep ==
    ASSUME IdrInd, Arm
    PROVE  IdrInd'
<1> USE DEF IdrInd
<1>0. encoder \in Encoder /\ driver \in Driver /\ driver.sent \in Nat /\ driver.sent + 1 \in Nat
  BY DEF IdrTypeOK, Driver
<1>1. /\ driver.at \in {"start", "retry"} /\ gate' = NewGate(driver.sent + 1) /\ UNCHANGED <<frames, holding, first>>
      /\ encoder' = [encoder EXCEPT !.request = driver.sent + 1]
      /\ driver' = [driver EXCEPT !.sent = @ + 1, !.at = IF driver.at = "start" THEN "drain" ELSE "await"]
  BY DEF Arm, SendForceKey
<1>2. encoder' \in Encoder /\ encoder'.request = driver.sent + 1
  BY <1>0, <1>1 DEF Encoder
<1>3. /\ driver' \in Driver /\ driver'.sent = driver.sent + 1 /\ driver'.at \in {"drain", "await"}
      /\ driver'.proof = driver.proof
  BY <1>0, <1>1 DEF Driver
<1>4. /\ gate' \in Gate /\ gate'.count = driver.sent + 1 /\ gate'.seqnum = FALSE /\ gate'.answer = NoTime
      /\ gate'.reached = NoTime /\ gate'.buffer = TRUE /\ gate'.completed = FALSE /\ gate'.release = FALSE
  BY <1>0, <1>1 DEF NewGate, Gate, Times
<1>5. holding = {} /\ ~driver.proof
  BY <1>1 DEF HandoffKnows
<1>6. encoder'.time = encoder.time
  BY <1>0, <1>1 DEF Encoder
<1>7. IdrTypeOK'
  BY <1>1, <1>2, <1>3, <1>4 DEF IdrTypeOK
<1>8. AnswerIsMine'
  BY <1>2, <1>3, <1>4 DEF AnswerIsMine
<1>9. FramesConsecutive'
  BY <1>1, <1>6 DEF FramesConsecutive
<1>10. HandoffKnows' /\ EntersFirst'
  BY <1>1, <1>3, <1>4, <1>5 DEF HandoffKnows, EntersFirst
<1> QED
  BY <1>1, <1>4, <1>5, <1>7, <1>8, <1>9, <1>10 DEF HoldsAnswer, AnswerToCome

\* A step of the handoff that lets the frame go or takes the probes away.
LEMMA GateSteps ==
    ASSUME IdrInd, UNCHANGED <<encoder, frames, holding, first>>, driver' \in Driver,
           driver'.sent = driver.sent, driver'.held = driver.held, driver'.audioEnd = driver.audioEnd,
           gate' \in Gate, gate'.count = gate.count, gate'.seqnum = gate.seqnum, gate'.answer = gate.answer,
           gate'.reached = gate.reached, gate'.completed = gate.completed,
           gate'.buffer = gate.buffer \/ (gate'.buffer = FALSE /\ holding = {}),
           HandoffKnows', EntersFirst'
    PROVE  IdrInd'
<1> USE DEF IdrInd
<1>1. IdrTypeOK'
  BY DEF IdrTypeOK
<1>2. AnswerIsMine'
  BY DEF AnswerIsMine
<1>3. HoldsAnswer' /\ AnswerToCome'
  BY DEF HoldsAnswer, AnswerToCome
<1> QED
  BY <1>1, <1>2, <1>3 DEF FramesConsecutive

\* The steps of the handoff after the gate is armed.
LEMMA HandoffStep ==
    ASSUME IdrInd,
           FreezeAudio \/ AwaitGate \/ Finalize \/ Discard \/ GiveUpHandoff \/ FinishRoute \/ Cleanup
    PROVE  IdrInd'
<1> USE DEF IdrInd
<1>0. gate \in Gate /\ driver \in Driver /\ encoder.time \in Nat
  BY DEF IdrTypeOK, Encoder
<1>g. ASSUME NEW at \in {"cleanup", "retry", "ended", "failed"}, Goto(at), UNCHANGED <<encoder, frames, gate, holding, first>>,
             at = "retry" => holding = {} /\ ~gate.buffer /\ ~driver.proof
      PROVE  IdrInd'
  <2>1. /\ driver' \in Driver /\ driver'.at = at /\ driver'.sent = driver.sent /\ driver'.proof = driver.proof
        /\ driver'.held = driver.held /\ driver'.audioEnd = driver.audioEnd
    BY <1>0, <1>g DEF Goto, Driver
  <2>2. HandoffKnows'
    BY <1>g, <2>1 DEF HandoffKnows
  <2> QED
    BY <1>g, <2>1, <2>2, DriverMoves
<1>1. CASE FreezeAudio
  <2>1. PICK t \in 0 .. encoder.time : driver' = [driver EXCEPT !.at = "await", !.audioEnd = t]
    BY <1>1 DEF FreezeAudio
  <2>2. t \in Times
    BY <1>0 DEF Times
  <2>3. /\ driver' \in Driver /\ driver'.at = "await" /\ driver'.sent = driver.sent /\ driver'.proof = driver.proof
    BY <1>0, <2>1, <2>2 DEF Driver
  <2>4. driver.at = "drain" /\ ~driver.proof /\ UNCHANGED <<encoder, frames, gate, holding, first>>
    BY <1>1 DEF FreezeAudio, HandoffKnows
  <2>5. HandoffKnows'
    BY <2>3, <2>4 DEF HandoffKnows
  <2> QED
    BY <2>3, <2>4, <2>5, DriverMoves
<1>2. CASE AwaitGate
  <2>1. /\ driver.at = "await" /\ gate.reached # NoTime /\ UNCHANGED <<encoder, frames, gate, holding, first>>
        /\ driver' = [driver EXCEPT !.held = gate.reached,
                        !.at = IF gate.reached >= driver.audioEnd THEN "edge"
                               ELSE IF driver.sent = 1 THEN "discard" ELSE "cleanup"]
    BY <1>2 DEF AwaitGate
  <2>2. gate.reached \in Times
    BY <1>0 DEF Gate
  <2>3. /\ driver' \in Driver /\ driver'.at \in {"edge", "discard", "cleanup"} /\ driver'.sent = driver.sent
        /\ driver'.proof = driver.proof /\ driver'.held = gate.reached /\ driver'.audioEnd = driver.audioEnd
        /\ driver'.at = "edge" => gate.reached >= driver.audioEnd
    BY <1>0, <2>1, <2>2 DEF Driver
  <2>4. ~driver.proof
    BY <2>1 DEF HandoffKnows
  <2>5. HandoffKnows'
    BY <2>1, <2>3, <2>4 DEF HandoffKnows
  <2> QED
    BY <2>1, <2>3, <2>4, <2>5, DriverMoves
<1>3. CASE Finalize
  <2>1. driver.at = "edge" /\ UNCHANGED <<encoder, frames, holding, first>>
    BY <1>3 DEF Finalize
  <2>2. CASE driver.held - driver.audioEnd < EdgeBound
    <3>1. driver' = [driver EXCEPT !.proof = TRUE, !.at = "routed"] /\ gate' = [gate EXCEPT !.release = TRUE]
      BY <1>3, <2>2 DEF Finalize
    <3>2. /\ driver' \in Driver /\ driver'.at = "routed" /\ driver'.sent = driver.sent /\ driver'.proof = TRUE
          /\ driver'.held = driver.held /\ driver'.audioEnd = driver.audioEnd
      BY <1>0, <3>1 DEF Driver
    <3>3. /\ gate' \in Gate /\ gate'.count = gate.count /\ gate'.seqnum = gate.seqnum /\ gate'.answer = gate.answer
          /\ gate'.reached = gate.reached /\ gate'.buffer = gate.buffer /\ gate'.completed = gate.completed
      BY <1>0, <3>1 DEF Gate
    <3>4. HandoffKnows'
      BY <2>1, <3>2 DEF HandoffKnows
    <3>5. holding # {} /\ first = NoTime
      BY <2>1 DEF HandoffKnows, HoldsAnswer, EntersFirst
    <3>6. EntersFirst'
      BY <2>1, <2>2, <3>2, <3>3, <3>5 DEF EntersFirst, HandoffKnows
    <3> QED
      BY <2>1, <3>2, <3>3, <3>4, <3>6, GateSteps
  <2>3. CASE ~(driver.held - driver.audioEnd < EdgeBound)
    BY <1>3, <2>1, <2>3, <1>g DEF Finalize
  <2> QED
    BY <2>2, <2>3
<1>4. CASE Discard
  <2>1. CASE gate' = [gate EXCEPT !.release = TRUE] /\ UNCHANGED driver
    <3>1. /\ gate' \in Gate /\ gate'.count = gate.count /\ gate'.seqnum = gate.seqnum /\ gate'.answer = gate.answer
          /\ gate'.reached = gate.reached /\ gate'.buffer = gate.buffer /\ gate'.completed = gate.completed
      BY <1>0, <2>1 DEF Gate
    <3>2. driver.at = "discard" /\ UNCHANGED <<encoder, frames, holding, first>>
      BY <1>4 DEF Discard
    <3>3. HandoffKnows' /\ EntersFirst'
      BY <2>1, <3>1, <3>2 DEF HandoffKnows, EntersFirst
    <3> QED
      BY <1>0, <2>1, <3>1, <3>2, <3>3, GateSteps
  <2>2. CASE ~(gate' = [gate EXCEPT !.release = TRUE] /\ UNCHANGED driver)
    <3>1. /\ gate.completed /\ Goto(IF gate.failed THEN "cleanup" ELSE "retry") /\ driver.at = "discard"
          /\ UNCHANGED <<encoder, frames, gate, holding, first>>
      BY <1>4, <2>2 DEF Discard
    <3>2. holding = {} /\ ~gate.buffer /\ ~driver.proof
      BY <3>1 DEF HoldsAnswer, HandoffKnows
    <3> QED
      BY <3>1, <3>2, <1>g
  <2> QED
    BY <2>1, <2>2
<1>5. CASE GiveUpHandoff
  BY <1>5, <1>g DEF GiveUpHandoff
<1>6. CASE FinishRoute
  BY <1>6, <1>g DEF FinishRoute
<1>7. CASE Cleanup
  <2>0. driver.at = "cleanup" /\ UNCHANGED <<encoder, frames, holding, first>>
    BY <1>7 DEF Cleanup
  <2>1. CASE Goto("failed") /\ UNCHANGED gate
    BY <2>0, <2>1, <1>g
  <2>2. CASE /\ gate' = [gate EXCEPT !.event = FALSE, !.release = TRUE, !.buffer = IF holding = {} THEN FALSE ELSE @]
             /\ Goto("ended")
    <3>1. (IF holding = {} THEN FALSE ELSE gate.buffer) \in BOOLEAN
      BY <1>0 DEF Gate
    <3>2. /\ gate' \in Gate /\ gate'.count = gate.count /\ gate'.seqnum = gate.seqnum /\ gate'.answer = gate.answer
          /\ gate'.reached = gate.reached /\ gate'.completed = gate.completed
          /\ gate'.buffer = (IF holding = {} THEN FALSE ELSE gate.buffer)
      BY <1>0, <2>2, <3>1 DEF Gate
    <3>3. /\ driver' \in Driver /\ driver'.at = "ended" /\ driver'.sent = driver.sent /\ driver'.proof = driver.proof
          /\ driver'.held = driver.held /\ driver'.audioEnd = driver.audioEnd
      BY <1>0, <2>2 DEF Goto, Driver
    <3>4. HandoffKnows' /\ EntersFirst'
      BY <2>0, <3>2, <3>3 DEF HandoffKnows, EntersFirst
    <3> QED
      BY <2>0, <3>2, <3>3, <3>4, GateSteps
  <2> QED
    BY <1>7, <2>1, <2>2 DEF Cleanup
<1> QED
  BY <1>1, <1>2, <1>3, <1>4, <1>5, <1>6, <1>7

\* Whatever the encoder makes of its own and wherever the handoff gives up, and for every
\* edge bound: the frame the opened successor begins with is the encoder's answer to the
\* request of the gate in use, within the bound of the last audio, and nothing enters first.
THEOREM SuccessorBeginsWithAnswer == IdrSpec => []HeldIsAnswer
<1>1. IdrInd => HeldIsAnswer
  <2> SUFFICES ASSUME IdrInd PROVE HeldIsAnswer
    OBVIOUS
  <2>1. driver.held \in Times /\ driver.audioEnd \in Times /\ EdgeBound \in Nat
    BY ForcedIdrConstants DEF IdrInd, IdrTypeOK, Driver
  <2>2. driver.proof => driver.held \in driver.audioEnd .. driver.audioEnd + EdgeBound - 1
    BY <2>1 DEF IdrInd, EntersFirst, Times, NoTime
  <2> QED
    BY <2>2 DEF IdrInd, HoldsAnswer, EntersFirst, HeldIsAnswer
<1>2. IdrInd /\ [IdrNext]_idrVars => IdrInd'
  <2> SUFFICES ASSUME IdrInd, [IdrNext]_idrVars PROVE IdrInd'
    OBVIOUS
  <2>1. CASE UNCHANGED idrVars
    BY <2>1 DEF idrVars, IdrInd, IdrTypeOK, FramesConsecutive, AnswerIsMine, HoldsAnswer, AnswerToCome,
                HandoffKnows, EntersFirst
  <2> QED
    BY <2>1, EncodeStep, AnswerStep, ArrivalStep, LeaveStep, ArmStep, HandoffStep DEF IdrNext
<1> QED
  BY <1>1, <1>2, IdrBegins, PTL DEF IdrSpec

-----------------------------------------------------------------------------
(* StartupReconcile *)

Places == {"pending", "clips", "protected", "quarantine"}
Pair == [video : Places \cup {Gone}, sidecar : Places, valid : BOOLEAN, protected : BOOLEAN]
Lives == {"FINALIZED", "FINALIZING", "QUARANTINED", "MISSING_VIDEO", "MISSING_SIDECAR"}
Rows == [dir : Places, life : Lives, protected : BOOLEAN, reconciled : BOOLEAN]
Relocations == [clip : Clips, to : {"clips", "protected"}]
Pass == [at : {"idle", "intents", "rows", "scan"}, actions : Int, entries : Int, listed : SUBSET Relocations,
         examined : SUBSET Clips, dir : 1 .. 5, more : BOOLEAN, issues : SUBSET Clips, done : BOOLEAN,
         crashes : Nat]

ReconcileTypes ==
    /\ pairs \in [Clips -> Pair] /\ indexed \in [Clips -> Rows \cup {NoRow}]
    /\ intents \subseteq Relocations /\ recovery \in Pass

\* A clip has one intent at most, and then a row that does not say reconciled.
IntentsFit ==
    /\ \A i \in intents : indexed[i.clip] # NoRow /\ ~indexed[i.clip].reconciled
    /\ \A i, j \in intents : i.clip = j.clip => i = j
    /\ recovery.at = "intents" => recovery.listed \subseteq intents

\* The row of c, when it says reconciled, is right.
Right(c) ==
    indexed[c].reconciled => pairs[c].video = indexed[c].dir /\ pairs[c].sidecar = indexed[c].dir

\* The rows a pass has examined are right, and without more work all of them are.
RowsRight ==
    /\ recovery.at = "intents" => recovery.examined = {}
    /\ recovery.at = "rows" => \A c \in recovery.examined : indexed[c] # NoRow /\ Right(c)
    /\ (recovery.at = "scan" \/ recovery.done) /\ ~recovery.more => \A c \in Clips : Right(c)

\* Without more work every readable sidecar of a directory behind the pass has a row.
Listed ==
    /\ (recovery.at = "scan" \/ recovery.done) /\ ~recovery.more =>
          \A c \in Clips, k \in 1 .. 4 :
             k < recovery.dir /\ pairs[c].valid /\ pairs[c].sidecar = Directories[k] => indexed[c] # NoRow
    /\ recovery.done => recovery.at = "idle"
    /\ recovery.at \in {"intents", "rows"} => recovery.dir = 1
    /\ recovery.done /\ ~recovery.more => recovery.dir = 5 /\ intents = {}

ReconcileInd == ReconcileTypes /\ IntentsFit /\ RowsRight /\ Listed

\* The bounds are numbers.
LEMMA ReconcileNumbers ==
    NPairs \in Nat /\ MaxIntents \in Nat /\ MaxActions \in Nat /\ MaxRows \in Nat /\ MaxEntries \in Nat /\ MaxCrashes \in Nat
    BY ReconcileConstants

\* A new pass has reported nothing.
LEMMA FreshPass ==
    /\ NewPass \in Pass /\ NewPass.at = "idle" /\ ~NewPass.done /\ ~NewPass.more
    BY ReconcileNumbers DEF NewPass, Pass

\* What a crash leaves behind satisfies the invariant.
LEMMA ReconcileBegins == ReconcileInit => ReconcileInd
<1> SUFFICES ASSUME ReconcileInit PROVE ReconcileInd
    OBVIOUS
<1>1. pairs \in [Clips -> Pair] /\ recovery \in Pass /\ recovery.at = "idle" /\ ~recovery.done
    BY FreshPass DEF ReconcileInit, Pair, Places
<1>2. indexed \in [Clips -> Rows \cup {NoRow}]
    <2>1. /\ Row("clips", "FINALIZED", FALSE, TRUE) \in Rows /\ Row("clips", "FINALIZED", TRUE, FALSE) \in Rows
          /\ Row("pending", "FINALIZING", TRUE, FALSE) \in Rows
        BY DEF Rows, Row, Places, Lives
    <2> DEFINE R == {NoRow, Row("clips", "FINALIZED", FALSE, TRUE), Row("clips", "FINALIZED", TRUE, FALSE),
                     Row("pending", "FINALIZING", TRUE, FALSE)}
    <2>2. indexed \in [Clips -> R]
        BY DEF ReconcileInit
    <2>3. R \subseteq Rows \cup {NoRow}
        BY <2>1
    <2> QED
        BY <2>2, <2>3
<1> DEFINE D == {d \in Clips : indexed[d] # NoRow /\ ~indexed[d].reconciled}
<1>3. \A i \in intents : i.clip \in D /\ i = [clip |-> i.clip, to |-> IF indexed[i.clip].dir = "pending" THEN "clips" ELSE "protected"]
    BY DEF ReconcileInit
<1>4. intents \subseteq Relocations
    BY <1>3 DEF Relocations
<1>5. \A i, j \in intents : i.clip = j.clip => i = j
    BY <1>3
<1>6. \A i \in intents : indexed[i.clip] # NoRow /\ ~indexed[i.clip].reconciled
    BY <1>3
<1> QED
    BY <1>1, <1>2, <1>4, <1>5, <1>6 DEF ReconcileInd, ReconcileTypes, IntentsFit, RowsRight, Listed

\* The start of a pass keeps the invariant.
LEMMA StartPassKeeps ==
    ASSUME ReconcileInd, StartPass PROVE ReconcileInd'
<1>1. PICK l \in SUBSET intents : recovery' = [NewPass EXCEPT !.at = "intents", !.crashes = recovery.crashes,
                                         !.listed = l, !.more = l # intents]
    BY DEF StartPass
<1>2. l \in SUBSET Relocations /\ recovery.crashes \in Nat /\ (l # intents) \in BOOLEAN
    BY <1>1 DEF ReconcileInd, ReconcileTypes, Pass
<1>3. recovery' \in Pass /\ recovery'.at = "intents" /\ recovery'.listed = l /\ ~recovery'.done /\ recovery'.examined = {} /\ recovery'.dir = 1
    BY <1>1, <1>2, FreshPass DEF Pass, NewPass
<1>4. UNCHANGED <<pairs, indexed, intents>>
    BY DEF StartPass
<1> QED
    BY <1>1, <1>3, <1>4 DEF ReconcileInd, ReconcileTypes, IntentsFit, RowsRight, Listed, Right

\* So does the end of the process in the middle of one.
LEMMA CutShortKeeps ==
    ASSUME ReconcileInd, PassCutShort PROVE ReconcileInd'
<1>1. recovery.crashes + 1 \in Nat /\ recovery' = [NewPass EXCEPT !.crashes = recovery.crashes + 1]
    BY DEF ReconcileInd, ReconcileTypes, Pass, PassCutShort
<1>2. recovery' \in Pass /\ recovery'.at = "idle" /\ ~recovery'.done
    BY <1>1, FreshPass DEF Pass
<1>3. UNCHANGED <<pairs, indexed, intents>>
    BY DEF PassCutShort
<1> QED
    BY <1>2, <1>3 DEF ReconcileInd, ReconcileTypes, IntentsFit, RowsRight, Listed, Right

\* The pass q is p with e examined.
Examines(p, e, q) ==
    q \in Pass /\ q.at = p.at /\ q.examined = e /\ q.done = p.done /\ q.dir = p.dir

\* Examining a row changes the report of a pass and nothing it relies on.
LEMMA PassExamines ==
    ASSUME NEW p \in Pass, NEW e \in SUBSET Clips, NEW x \in SUBSET Clips, NEW q,
           \/ q = [p EXCEPT !.examined = e]
           \/ q = [p EXCEPT !.examined = e, !.more = TRUE]
           \/ q = [p EXCEPT !.examined = e, !.issues = x]
    PROVE  Examines(p, e, q)
    BY DEF Pass, Examines

\* The pass q is p in front of directory k.
Scans(p, k, m, q) ==
    q \in Pass /\ q.at = p.at /\ q.dir = k /\ q.done = p.done /\ q.more = m

\* So does scanning a directory, beside its place.
LEMMA PassScans ==
    ASSUME NEW p \in Pass, NEW k \in 1 .. 5, NEW n \in Int, NEW m \in BOOLEAN, NEW x \in SUBSET Clips, NEW q,
           q = [p EXCEPT !.dir = k, !.entries = n, !.more = m, !.issues = x]
    PROVE  Scans(p, k, m, q)
    BY DEF Pass, Scans

\* Observing a row, and queueing its repair, keeps the invariant.
LEMMA ObserveKeeps ==
    ASSUME ReconcileInd, ObserveRow PROVE ReconcileInd'
<1>1. PICK c \in Clips :
    LET r == indexed[c]
        video == pairs[c].video = r.dir
        sidecar == pairs[c].sidecar = r.dir
        seen == [r EXCEPT !.reconciled = video /\ sidecar,
                    !.life = CASE video /\ sidecar ->
                                    IF @ \in {"MISSING_VIDEO", "MISSING_SIDECAR"}
                                    THEN "FINALIZED" ELSE @
                               [] video /\ ~sidecar -> "MISSING_SIDECAR"
                               [] sidecar /\ ~video -> "MISSING_VIDEO"
                               [] OTHER -> @]
    IN /\ recovery.at = "rows" /\ r # NoRow
       /\ IF HasIntent(c)
          THEN /\ recovery' = [recovery EXCEPT !.examined = @ \cup {c}]
               /\ UNCHANGED <<indexed, intents>>
          ELSE IF video /\ sidecar /\ Misplaced(seen)
          THEN /\ indexed' = [indexed EXCEPT ![c] = [seen EXCEPT !.reconciled = FALSE]]
               /\ intents' = intents \cup {[clip |-> c, to |-> "protected"]}
               /\ recovery' = [recovery EXCEPT !.examined = @ \cup {c}, !.more = TRUE]
          ELSE /\ indexed' = [indexed EXCEPT ![c] = seen]
               /\ recovery' = [recovery EXCEPT !.examined = @ \cup {c},
                                  !.issues = IF seen.reconciled THEN @ ELSE @ \cup {c}]
               /\ UNCHANGED intents
       /\ UNCHANGED pairs
    BY DEF ObserveRow
<1> DEFINE r == indexed[c]
           v == pairs[c].video = r.dir
           w == pairs[c].sidecar = r.dir
           life == CASE v /\ w -> IF r.life \in {"MISSING_VIDEO", "MISSING_SIDECAR"} THEN "FINALIZED" ELSE r.life
                     [] v /\ ~w -> "MISSING_SIDECAR"
                     [] w /\ ~v -> "MISSING_VIDEO"
                     [] OTHER -> r.life
           seen == [r EXCEPT !.reconciled = v /\ w, !.life = life]
<1>2. /\ recovery.at = "rows" /\ r # NoRow /\ UNCHANGED pairs
      /\ \/ HasIntent(c) /\ recovery' = [recovery EXCEPT !.examined = @ \cup {c}] /\ UNCHANGED <<indexed, intents>>
         \/ /\ ~HasIntent(c) /\ indexed' = [indexed EXCEPT ![c] = [seen EXCEPT !.reconciled = FALSE]]
            /\ intents' = intents \cup {[clip |-> c, to |-> "protected"]}
            /\ recovery' = [recovery EXCEPT !.examined = @ \cup {c}, !.more = TRUE]
         \/ /\ ~HasIntent(c) /\ indexed' = [indexed EXCEPT ![c] = seen]
            /\ recovery' = [recovery EXCEPT !.examined = @ \cup {c},
                                  !.issues = IF seen.reconciled THEN @ ELSE @ \cup {c}]
            /\ UNCHANGED intents
    BY <1>1
<1>3. r \in Rows /\ life \in Lives /\ (v /\ w) \in BOOLEAN /\ NoRow \notin Rows
    <2>1. r \in Rows
        BY <1>2 DEF ReconcileInd, ReconcileTypes
    <2>2. life \in Lives
        BY <2>1 DEF Rows, Lives
    <2>3. NoRow \notin Rows
        BY DEF NoRow, Rows, Places, Gone
    <2> QED
        BY <2>1, <2>2, <2>3
<1> HIDE DEF life
<1>4. seen \in Rows /\ seen.dir = r.dir /\ (seen.reconciled <=> v /\ w)
    BY <1>3 DEF Rows
<1>5. [seen EXCEPT !.reconciled = FALSE] \in Rows /\ ~[seen EXCEPT !.reconciled = FALSE].reconciled
    BY <1>4 DEF Rows
<1> HIDE DEF seen
<1>6. /\ recovery' \in Pass /\ recovery'.at = "rows" /\ recovery'.examined = recovery.examined \cup {c}
      /\ recovery'.done = recovery.done /\ recovery'.dir = recovery.dir
    <2> DEFINE e == recovery.examined \cup {c}
               x == IF seen.reconciled THEN recovery.issues ELSE recovery.issues \cup {c}
    <2>1. recovery \in Pass /\ e \in SUBSET Clips /\ x \in SUBSET Clips
        BY DEF ReconcileInd, ReconcileTypes, Pass
    <2>2. \/ recovery' = [recovery EXCEPT !.examined = e]
          \/ recovery' = [recovery EXCEPT !.examined = e, !.more = TRUE]
          \/ recovery' = [recovery EXCEPT !.examined = e, !.issues = x]
        BY <1>2
    <2> HIDE DEF x
    <2>3. Examines(recovery, e, recovery')
        BY <2>1, <2>2, PassExamines, Zenon
    <2> QED
        BY <1>2, <2>3 DEF Examines
<1>7. ~recovery'.done
    BY <1>2, <1>6 DEF ReconcileInd, Listed
<1>8. CASE HasIntent(c)
    <2>1. ~r.reconciled /\ UNCHANGED <<indexed, intents, pairs>>
        BY <1>2, <1>8 DEF HasIntent, ReconcileInd, IntentsFit
    <2> QED
        BY <1>2, <1>6, <1>7, <2>1 DEF ReconcileInd, ReconcileTypes, IntentsFit, RowsRight, Listed, Right
<1>9. CASE ~HasIntent(c)
    <2>1. PICK n \in Rows : /\ indexed' = [indexed EXCEPT ![c] = n]
                            /\ n.reconciled => n.dir = r.dir /\ v /\ w
                            /\ \/ UNCHANGED intents
                               \/ ~n.reconciled /\ intents' = intents \cup {[clip |-> c, to |-> "protected"]}
        BY <1>2, <1>4, <1>5, <1>9
    <2> HIDE DEF r, v, w
    <2>a. indexed \in [Clips -> Rows \cup {NoRow}] /\ intents \subseteq Relocations
        BY DEF ReconcileInd, ReconcileTypes
    <2>b. indexed' = [indexed EXCEPT ![c] = n] /\ (n.reconciled => n.dir = r.dir /\ v /\ w)
        BY <2>1
    <2>c. UNCHANGED intents \/ (~n.reconciled /\ intents' = intents \cup {[clip |-> c, to |-> "protected"]})
        BY <2>1, Zenon
    <2>2. \A i \in intents : i.clip # c
        BY <1>9 DEF HasIntent
    <2>3. [clip |-> c, to |-> "protected"] \in Relocations /\ [clip |-> c, to |-> "protected"].clip = c
        BY DEF Relocations
    <2>4. /\ indexed' \in [Clips -> Rows \cup {NoRow}] /\ indexed'[c] = n
          /\ \A d \in Clips \ {c} : indexed'[d] = indexed[d]
        BY <2>a, <2>b
    <2>5. intents' \subseteq Relocations /\ \A i \in intents' : i \in intents \/ (i.clip = c /\ i = [clip |-> c, to |-> "protected"] /\ ~n.reconciled)
        BY <2>3, <2>a, <2>c, Zenon
    <2>6. ReconcileTypes'
        BY <1>2, <1>6, <2>4, <2>5 DEF ReconcileInd, ReconcileTypes
    <2>7. \A i \in intents' : indexed'[i.clip] # NoRow /\ ~indexed'[i.clip].reconciled
        <3> SUFFICES ASSUME NEW i \in intents' PROVE indexed'[i.clip] # NoRow /\ ~indexed'[i.clip].reconciled
            OBVIOUS
        <3>1. CASE i \in intents
            BY <2>2, <2>4, <3>1 DEF ReconcileInd, IntentsFit, ReconcileTypes, Relocations
        <3>2. CASE i \notin intents
            BY <1>3, <2>4, <2>5, <3>2
        <3> QED
            BY <3>1, <3>2
    <2>8. IntentsFit'
        BY <1>6, <2>2, <2>5, <2>7 DEF ReconcileInd, IntentsFit
    <2>9. \A d \in recovery'.examined : indexed'[d] # NoRow /\ Right(d)'
        <3> SUFFICES ASSUME NEW d \in recovery'.examined PROVE indexed'[d] # NoRow /\ Right(d)'
            OBVIOUS
        <3>1. CASE d = c
            BY <1>2, <1>3, <2>b, <2>4, <3>1 DEF Right, r, v, w
        <3>2. CASE d # c
            BY <1>2, <1>6, <2>4, <3>2 DEF Right, ReconcileInd, RowsRight, ReconcileTypes, Pass
        <3> QED
            BY <3>1, <3>2
    <2> QED
        BY <1>2, <1>6, <1>7, <2>6, <2>8, <2>9 DEF ReconcileInd, RowsRight, Listed
<1> QED
    BY <1>8, <1>9

\* A pair has finitely many members.
LEMMA MembersFinite == IsFiniteSet(Members)
<1>1. IsFiniteSet({"video"})
    BY FS_Singleton
<1>2. IsFiniteSet({"video"} \cup {"sidecar"})
    BY <1>1, FS_AddElement
<1>3. Members = {"video"} \cup {"sidecar"}
    BY DEF Members
<1> QED
    BY <1>2, <1>3

\* The clips are finite.
LEMMA ClipsFinite == IsFiniteSet(Clips)
    BY ReconcileNumbers, FS_Interval DEF Clips

\* The end of the rows: within its bound the pass has seen them all.
LEMMA ObservedKeeps ==
    ASSUME ReconcileInd, RowsObserved PROVE ReconcileInd'
<1> DEFINE all == {c \in Clips : indexed[c] # NoRow}
<1>1. /\ recovery.at = "rows" /\ UNCHANGED <<pairs, indexed, intents>>
      /\ all \subseteq recovery.examined \/ Cardinality(recovery.examined) = MaxRows
      /\ recovery' = [recovery EXCEPT !.at = "scan", !.examined = {},
                                       !.more = @ \/ Cardinality(all) > MaxRows]
    BY DEF RowsObserved
<1>2. IsFiniteSet(all) /\ Cardinality(all) \in Nat
    BY ClipsFinite, FS_Subset, FS_CardinalityType
<1>3. recovery.examined \subseteq all
    BY <1>1 DEF ReconcileInd, RowsRight, ReconcileTypes, Pass
<1>4. Cardinality(all) <= MaxRows => all \subseteq recovery.examined
    <2> SUFFICES ASSUME Cardinality(all) <= MaxRows, Cardinality(recovery.examined) = MaxRows
                 PROVE  all \subseteq recovery.examined
        BY <1>1
    <2>1. Cardinality(recovery.examined) <= Cardinality(all)
        BY <1>2, <1>3, FS_Subset
    <2> QED
        BY <1>2, <1>3, <2>1, FS_Subset, ReconcileNumbers
<1> DEFINE m == recovery.more \/ Cardinality(all) > MaxRows
<1>5. recovery \in Pass /\ m \in BOOLEAN /\ recovery' = [recovery EXCEPT !.at = "scan", !.examined = {}, !.more = m]
    BY <1>1 DEF ReconcileInd, ReconcileTypes, Pass
<1>6. ~m => Cardinality(all) <= MaxRows
    BY <1>2, ReconcileNumbers
<1> HIDE DEF m
<1>7. recovery' \in Pass /\ recovery'.at = "scan" /\ ~recovery'.done /\ recovery'.dir = 1 /\ recovery'.more = m
    BY <1>1, <1>5 DEF ReconcileInd, Listed, Pass
<1>8. ~recovery'.more => \A c \in Clips : Right(c)
    <2> SUFFICES ASSUME ~recovery'.more, NEW c \in Clips PROVE Right(c)
        OBVIOUS
    <2>1. all \subseteq recovery.examined
        BY <1>4, <1>6, <1>7
    <2>2. indexed[c] # NoRow => Right(c)
        BY <1>1, <2>1 DEF ReconcileInd, RowsRight
    <2>3. indexed[c] = NoRow => Right(c)
        BY DEF NoRow, Right
    <2> QED
        BY <2>2, <2>3
<1> QED
    BY <1>1, <1>7, <1>8 DEF ReconcileInd, ReconcileTypes, IntentsFit, RowsRight, Listed, Right

\* The end of a pass keeps the invariant.
LEMMA EndsKeep ==
    ASSUME ReconcileInd, EndOfPass PROVE ReconcileInd'
<1>1. UNCHANGED <<pairs, indexed, intents>> /\ recovery.at = "scan" /\ recovery \in Pass
    BY DEF EndOfPass, ReconcileInd, ReconcileTypes
<1>2. Len(Directories) = 4
    BY DEF Directories
<1> DEFINE m == recovery.more \/ intents # {} \/ recovery.dir <= 4
<1>3. m \in BOOLEAN /\ recovery' = [recovery EXCEPT !.at = "idle", !.done = TRUE, !.more = m]
    BY <1>1, <1>2 DEF EndOfPass, Pass
<1>4. ~m => ~recovery.more /\ intents = {} /\ recovery.dir = 5
    BY <1>1 DEF Pass
<1> HIDE DEF m
<1>5. /\ recovery' \in Pass /\ recovery'.at = "idle" /\ recovery'.done /\ recovery'.more = m
      /\ recovery'.dir = recovery.dir
    BY <1>1, <1>3 DEF Pass
<1> QED
    BY <1>1, <1>4, <1>5 DEF ReconcileInd, ReconcileTypes, IntentsFit, RowsRight, Listed, Right

\* Scanning a directory keeps the invariant: what it lists in full has rows afterwards.
LEMMA ScanKeeps ==
    ASSUME ReconcileInd, ScanDirectory PROVE ReconcileInd'
<1> DEFINE d == Directories[recovery.dir]
           entries == {e \in Clips \X Members : pairs[e[1]][e[2]] = d}
<1>0. recovery.dir \in 1 .. 4 /\ recovery \in Pass /\ pairs \in [Clips -> Pair] /\ indexed \in [Clips -> Rows \cup {NoRow}]
    <2>1. Len(Directories) = 4
        BY DEF Directories
    <2> QED
        BY <2>1 DEF ScanDirectory, ReconcileInd, ReconcileTypes, Pass
<1>1. d \in Places
    BY <1>0 DEF Directories, Places
<1>2. PICK listed \in SUBSET entries :
         LET found == {c \in Clips : <<c, "sidecar">> \in listed /\ indexed[c] = NoRow}
         IN /\ indexed' = [c \in Clips |-> IF c \in found /\ pairs[c].valid THEN Imported(c, d) ELSE indexed[c]]
            /\ recovery' = [recovery EXCEPT !.dir = @ + 1,
                                      !.entries = @ - Cardinality(listed),
                                      !.more = @ \/ listed # entries,
                                      !.issues = @ \cup {c \in found : ~pairs[c].valid}]
    BY DEF ScanDirectory
<1> DEFINE found == {c \in Clips : <<c, "sidecar">> \in listed /\ indexed[c] = NoRow}
<1>3. recovery.at = "scan" /\ ~recovery.done /\ UNCHANGED <<pairs, intents>>
    BY DEF ScanDirectory, ReconcileInd, Listed
<1>4. Cardinality(listed) \in Nat
    <2>1. IsFiniteSet(Members)
        BY MembersFinite
    <2>2. IsFiniteSet(Clips \X Members)
        BY <2>1, ClipsFinite, FS_Product
    <2>3. listed \subseteq Clips \X Members
        OBVIOUS
    <2> QED
        BY <2>2, <2>3, FS_Subset, FS_CardinalityType
<1> DEFINE n == recovery.entries - Cardinality(listed)
           m == recovery.more \/ listed # entries
           x == recovery.issues \cup {c \in found : ~pairs[c].valid}
           k == recovery.dir + 1
<1>5. /\ n \in Int /\ m \in BOOLEAN /\ x \in SUBSET Clips /\ k \in 2 .. 5
      /\ recovery' = [recovery EXCEPT !.dir = k, !.entries = n, !.more = m, !.issues = x]
    BY <1>0, <1>2, <1>4 DEF Pass
<1>6. ~m => ~recovery.more /\ listed = entries
    OBVIOUS
<1>7. \A c \in Clips : <<c, "sidecar">> \in entries <=> pairs[c].sidecar = d
    BY DEF Members
<1>8. \A c \in Clips : indexed'[c] = IF c \in found /\ pairs[c].valid THEN Imported(c, d) ELSE indexed[c]
    BY <1>2
<1>9. \A c \in found : indexed[c] = NoRow /\ c \in Clips /\ pairs[c].sidecar = d
    BY <1>7
<1>10. \A c \in Clips : pairs[c].sidecar = d /\ listed = entries /\ indexed[c] = NoRow => c \in found
    BY <1>7
<1>11. indexed' = [c \in Clips |-> IF c \in found /\ pairs[c].valid THEN Imported(c, d) ELSE indexed[c]]
    BY <1>2
<1>12. \A j \in 1 .. 4 : j < k => j < recovery.dir \/ Directories[j] = d
    BY <1>0
<1>13. k # recovery.dir /\ (k <= 5)
    BY <1>0
<1> HIDE DEF n, m, x, k, found, entries, d
<1>14. recovery' \in Pass /\ recovery'.at = "scan" /\ ~recovery'.done /\ recovery'.dir = k /\ recovery'.more = m
    <2>1. k \in 1 .. 5
        BY <1>5
    <2>2. Scans(recovery, k, m, recovery')
        BY <1>0, <1>5, <2>1, PassScans, Zenon
    <2> QED
        BY <1>3, <2>2 DEF Scans
<1>15. \A c \in found : /\ Imported(c, d) \in Rows /\ Imported(c, d) # NoRow /\ Imported(c, d).dir = d
                        /\ Imported(c, d).reconciled => pairs[c].video = d
    <2> SUFFICES ASSUME NEW c \in found
                 PROVE  /\ Imported(c, d) \in Rows /\ Imported(c, d) # NoRow /\ Imported(c, d).dir = d
                        /\ Imported(c, d).reconciled => pairs[c].video = d
        OBVIOUS
    <2>1. c \in Clips /\ pairs[c].protected \in BOOLEAN
        BY <1>0, <1>9 DEF Pair
    <2>2. /\ Imported(c, d) \in Rows /\ Imported(c, d).dir = d
          /\ Imported(c, d).reconciled => pairs[c].video = d
        BY <1>1, <2>1 DEF Imported, Row, Rows, Lives
    <2> QED
        BY <2>2 DEF NoRow, Rows, Places, Gone
<1>16. indexed' \in [Clips -> Rows \cup {NoRow}]
    <2>1. \A c \in Clips : (IF c \in found /\ pairs[c].valid THEN Imported(c, d) ELSE indexed[c]) \in Rows \cup {NoRow}
        BY <1>0, <1>15, Zenon
    <2> QED
        BY <1>11, <2>1
<1>17. \A c \in Clips : indexed[c] # NoRow => indexed'[c] = indexed[c]
    BY <1>8, <1>9
<1>18. ReconcileTypes'
    BY <1>3, <1>14, <1>16 DEF ReconcileInd, ReconcileTypes
<1>19. IntentsFit'
    BY <1>3, <1>14, <1>17 DEF ReconcileInd, IntentsFit, ReconcileTypes, Relocations
<1>20. RowsRight'
    <2>1. ASSUME ~m, NEW c \in Clips PROVE Right(c)'
        <3>1. Right(c)
            BY <1>3, <1>6, <2>1 DEF ReconcileInd, RowsRight
        <3>2. CASE c \in found /\ pairs[c].valid
            <4>1. indexed'[c] = Imported(c, d)
                BY <1>8, <3>2
            <4>a. c \in found
                BY <3>2
            <4>b. pairs[c].sidecar = d
                BY <1>9, <4>a
            <4>c. Imported(c, d) \in Rows
                BY <1>15, <4>a
            <4>d. Imported(c, d).dir = d
                BY <1>15, <4>a
            <4>e. Imported(c, d).reconciled => pairs[c].video = d
                BY <1>15, <4>a
            <4>2. Imported(c, d).dir = d /\ (Imported(c, d).reconciled => pairs[c].video = d) /\ pairs[c].sidecar = d
                BY <4>b, <4>d, <4>e
            <4> QED
                BY <1>3, <4>1, <4>2 DEF Right
        <3>3. CASE ~(c \in found /\ pairs[c].valid)
            BY <1>3, <1>8, <3>1, <3>3 DEF Right
        <3> QED
            BY <3>2, <3>3
    <2> QED
        BY <1>14, <2>1 DEF RowsRight
<1>21. Listed'
    <2>1. ASSUME ~m, NEW c \in Clips, NEW j \in 1 .. 4, j < k, pairs[c].valid, pairs[c].sidecar = Directories[j]
          PROVE  indexed'[c] # NoRow
        <3>1. CASE j < recovery.dir
            <4>1. indexed[c] # NoRow
                BY <1>3, <1>6, <2>1, <3>1 DEF ReconcileInd, Listed
            <4> QED
                BY <1>17, <4>1
        <3>2. CASE Directories[j] = d
            <4>1. indexed[c] = NoRow => c \in found
                BY <1>6, <1>10, <2>1, <3>2
            <4>2. CASE indexed[c] = NoRow
                <5>1. indexed'[c] = Imported(c, d)
                    BY <1>8, <2>1, <4>1, <4>2
                <5> QED
                    BY <1>15, <4>1, <4>2, <5>1, Zenon
            <4> QED
                BY <1>17, <4>2
        <3> QED
            BY <1>12, <2>1, <3>1, <3>2
    <2> QED
        BY <1>3, <1>14, <2>1 DEF Listed
<1> QED
    BY <1>18, <1>19, <1>20, <1>21 DEF ReconcileInd

\* The end of the intents keeps the invariant.
LEMMA ReplayedKeeps ==
    ASSUME ReconcileInd, IntentsReplayed PROVE ReconcileInd'
<1>1. /\ recovery' \in Pass /\ recovery'.at = "rows" /\ recovery'.done = recovery.done
      /\ recovery'.examined = recovery.examined /\ recovery'.dir = recovery.dir
    BY DEF ReconcileInd, ReconcileTypes, Pass, IntentsReplayed
<1> QED
    BY <1>1 DEF ReconcileInd, ReconcileTypes, IntentsFit, RowsRight, Listed, Right, IntentsReplayed

\* The pass q is p with l still listed.
Listing(p, l, q) ==
    /\ q \in Pass /\ q.at = p.at /\ q.listed = l /\ q.done = p.done /\ q.dir = p.dir
    /\ q.more = p.more /\ q.examined = p.examined

\* So does replaying an intent.
LEMMA PassLists ==
    ASSUME NEW p \in Pass, NEW l \in SUBSET Relocations, NEW n \in Int, NEW x \in SUBSET Clips, NEW q,
           q = [p EXCEPT !.listed = l, !.actions = n, !.issues = x]
    PROVE  Listing(p, l, q)
    BY DEF Pass, Listing

\* Replaying an intent keeps the invariant, a protection that has to move on included.
LEMMA ReplayKeeps ==
    ASSUME ReconcileInd, ReplayIntent PROVE ReconcileInd'
<1>1. PICK i \in recovery.listed :
    LET c == i.clip
        from == indexed[c].dir
        problem == \/ \E f \in Members : pairs[c][f] \notin {from, i.to}
                   \/ from = "pending" /\ ~pairs[c].valid
        left == {f \in Members : pairs[c][f] = from}
        moved == IF problem THEN {} ELSE IF Cardinality(left) <= recovery.actions THEN left ELSE {"video"}
        onward == from = "pending" /\ indexed[c].protected
    IN /\ recovery.at = "intents"
       /\ IF recovery.actions = 0
          THEN /\ recovery' = [recovery EXCEPT !.at = "rows", !.listed = {}, !.more = TRUE]
               /\ UNCHANGED <<pairs, indexed, intents>>
          ELSE /\ recovery' = [recovery EXCEPT !.listed = @ \ {i},
                                  !.actions = @ - Cardinality(moved),
                                  !.issues = IF problem THEN @ \cup {c} ELSE @]
               /\ pairs' = [pairs EXCEPT ![c] = [f \in DOMAIN @ |-> IF f \in moved THEN i.to ELSE @[f]]]
               /\ IF ~problem /\ moved = left
                  THEN /\ indexed' = [indexed EXCEPT ![c].dir = i.to, ![c].life = "FINALIZED",
                                                     ![c].reconciled = ~onward]
                       /\ intents' = (intents \ {i}) \cup
                                       (IF onward THEN {[clip |-> c, to |-> "protected"]} ELSE {})
                  ELSE UNCHANGED <<indexed, intents>>
    BY DEF ReplayIntent
<1> DEFINE c == i.clip
           from == indexed[c].dir
           problem == \/ \E f \in Members : pairs[c][f] \notin {from, i.to}
                      \/ from = "pending" /\ ~pairs[c].valid
           left == {f \in Members : pairs[c][f] = from}
           moved == IF problem THEN {} ELSE IF Cardinality(left) <= recovery.actions THEN left ELSE {"video"}
           onward == from = "pending" /\ indexed[c].protected
           pair == [f \in DOMAIN pairs[c] |-> IF f \in moved THEN i.to ELSE pairs[c][f]]
           row == [indexed[c] EXCEPT !.dir = i.to, !.life = "FINALIZED", !.reconciled = ~onward]
<1>2. recovery.at = "intents" /\ recovery \in Pass /\ ~recovery.done /\ recovery.examined = {} /\ recovery.dir = 1
    BY <1>1 DEF ReconcileInd, ReconcileTypes, Listed, RowsRight
<1>3. CASE recovery.actions = 0
    <2>1. recovery' = [recovery EXCEPT !.at = "rows", !.listed = {}, !.more = TRUE] /\ UNCHANGED <<pairs, indexed, intents>>
        BY <1>1, <1>3
    <2>2. /\ recovery' \in Pass /\ recovery'.at = "rows" /\ ~recovery'.done /\ recovery'.examined = {}
          /\ recovery'.dir = 1
        BY <1>2, <2>1 DEF Pass
    <2> QED
        BY <2>1, <2>2 DEF ReconcileInd, ReconcileTypes, IntentsFit, RowsRight, Listed
<1>4. CASE recovery.actions # 0
    <2>1. /\ recovery' = [recovery EXCEPT !.listed = @ \ {i}, !.actions = @ - Cardinality(moved),
                                         !.issues = IF problem THEN @ \cup {c} ELSE @]
          /\ pairs' = [pairs EXCEPT ![c] = pair]
          /\ \/ /\ ~problem /\ moved = left
                /\ indexed' = [indexed EXCEPT ![c] = row]
                /\ intents' = (intents \ {i}) \cup (IF onward THEN {[clip |-> c, to |-> "protected"]} ELSE {})
             \/ UNCHANGED <<indexed, intents>>
        BY <1>1, <1>4
    <2>2. i \in intents /\ i \in Relocations /\ c \in Clips /\ i.to \in {"clips", "protected"} /\ i.to \in Places
        BY <1>2 DEF ReconcileInd, IntentsFit, ReconcileTypes, Pass, Relocations, Places
    <2>3. indexed[c] \in Rows /\ pairs[c] \in Pair /\ indexed \in [Clips -> Rows \cup {NoRow}] /\ pairs \in [Clips -> Pair]
        BY <2>2 DEF ReconcileInd, IntentsFit, ReconcileTypes
    <2>4. moved \subseteq Members
        BY DEF Members
    <2>5. Cardinality(moved) \in Nat
        BY <2>4, MembersFinite, FS_Subset, FS_CardinalityType
    <2>6. /\ recovery' \in Pass /\ recovery'.at = "intents" /\ ~recovery'.done /\ recovery'.examined = {}
          /\ recovery'.dir = 1 /\ recovery'.listed = recovery.listed \ {i}
        <3> DEFINE l == recovery.listed \ {i}
                   n == recovery.actions - Cardinality(moved)
                   x == IF problem THEN recovery.issues \cup {c} ELSE recovery.issues
        <3>1. l \in SUBSET Relocations /\ n \in Int /\ x \in SUBSET Clips
            BY <1>2, <2>2, <2>5 DEF Pass
        <3>2. recovery' = [recovery EXCEPT !.listed = l, !.actions = n, !.issues = x]
            BY <2>1
        <3> HIDE DEF l, n, x
        <3>3. Listing(recovery, l, recovery')
            BY <1>2, <3>1, <3>2, PassLists, Zenon
        <3> QED
            BY <1>2, <3>3 DEF Listing, l
    <2> HIDE DEF c
    <2>7. pair \in Pair
        <3> HIDE DEF moved
        <3>1. pair = [video |-> IF "video" \in moved THEN i.to ELSE pairs[c].video,
                      sidecar |-> IF "sidecar" \in moved THEN i.to ELSE pairs[c].sidecar,
                      valid |-> pairs[c].valid, protected |-> pairs[c].protected]
            BY <2>3, <2>4 DEF Pair, Members
        <3>2. /\ (IF "video" \in moved THEN i.to ELSE pairs[c].video) \in Places \cup {Gone}
              /\ (IF "sidecar" \in moved THEN i.to ELSE pairs[c].sidecar) \in Places
              /\ pairs[c].valid \in BOOLEAN /\ pairs[c].protected \in BOOLEAN
            BY <2>2, <2>3 DEF Pair
        <3> QED
            BY <3>1, <3>2 DEF Pair
    <2>8. ~problem /\ moved = left => pair.video = i.to /\ pair.sidecar = i.to
        <3>1. pair.video = (IF "video" \in moved THEN i.to ELSE pairs[c].video)
            BY <2>3 DEF Pair
        <3>2. pair.sidecar = (IF "sidecar" \in moved THEN i.to ELSE pairs[c].sidecar)
            BY <2>3 DEF Pair
        <3>3. "video" \in left <=> pairs[c].video = from
            BY DEF Members
        <3>4. "sidecar" \in left <=> pairs[c].sidecar = from
            BY DEF Members
        <3>5. ~problem => pairs[c].video \in {from, i.to} /\ pairs[c].sidecar \in {from, i.to}
            BY DEF Members
        <3> QED
            BY <3>1, <3>2, <3>3, <3>4, <3>5
    <2>9. row \in Rows /\ row.dir = i.to /\ row \in Rows \cup {NoRow} /\ (row.reconciled <=> ~onward)
        BY <2>2, <2>3 DEF Rows, Lives
    <2>10. row # NoRow
        BY <2>9 DEF NoRow, Rows, Places, Gone
    <2> HIDE DEF pair, row, left, moved, problem, onward, from
    <2>11. pairs' \in [Clips -> Pair] /\ indexed' \in [Clips -> Rows \cup {NoRow}]
        BY <2>1, <2>2, <2>3, <2>7, <2>9
    <2>12. CASE UNCHANGED <<indexed, intents>>
        <3>1. ReconcileTypes'
            BY <2>6, <2>11, <2>12 DEF ReconcileInd, ReconcileTypes
        <3>2. IntentsFit'
            BY <1>2, <2>6, <2>12 DEF ReconcileInd, IntentsFit
        <3> QED
            BY <2>6, <3>1, <3>2 DEF ReconcileInd, RowsRight, Listed
    <2>13. CASE /\ indexed' = [indexed EXCEPT ![c] = row]
                /\ intents' = (intents \ {i}) \cup (IF onward THEN {[clip |-> c, to |-> "protected"]} ELSE {})
        <3> DEFINE next == [clip |-> c, to |-> "protected"]
        <3>1. next \in Relocations /\ next.clip = c
            BY <2>2 DEF Relocations, c
        <3> HIDE DEF next
        <3>2. \A j \in intents' : (j \in intents /\ j # i) \/ (j = next /\ onward)
            BY <2>13 DEF next
        <3>3. \A j \in intents : j # i => j.clip # c /\ j \in intents'
            <4>1. \A j \in intents : j # i => j.clip # c
                BY <2>2 DEF ReconcileInd, IntentsFit, c
            <4> QED
                BY <2>13, <4>1
        <3>4. indexed'[c] = row /\ \A d \in Clips \ {c} : indexed'[d] = indexed[d]
            BY <2>3, <2>13, <2>2 DEF c
        <3>5. intents \subseteq Relocations /\ recovery.listed \subseteq intents
            BY <1>2 DEF ReconcileInd, ReconcileTypes, IntentsFit
        <3>6. intents' \subseteq Relocations
            BY <3>1, <3>2, <3>5
        <3>7. \A j \in intents' : indexed'[j.clip] # NoRow /\ ~indexed'[j.clip].reconciled
            <4> SUFFICES ASSUME NEW j \in intents' PROVE indexed'[j.clip] # NoRow /\ ~indexed'[j.clip].reconciled
                OBVIOUS
            <4>1. CASE j \in intents /\ j # i
                <5>1. indexed'[j.clip] = indexed[j.clip]
                    BY <3>3, <3>4, <3>5, <4>1 DEF Relocations
                <5> QED
                    BY <4>1, <5>1 DEF ReconcileInd, IntentsFit
            <4>2. CASE j = next /\ onward
                BY <2>9, <2>10, <3>1, <3>4, <4>2
            <4> QED
                BY <3>2, <4>1, <4>2
        <3>8. \A j, k \in intents' : j.clip = k.clip => j = k
            <4> SUFFICES ASSUME NEW j \in intents', NEW k \in intents', j.clip = k.clip PROVE j = k
                OBVIOUS
            <4> QED
                BY <3>1, <3>2, <3>3 DEF ReconcileInd, IntentsFit
        <3>9. recovery'.listed \subseteq intents'
            BY <2>6, <3>3, <3>5
        <3> QED
            BY <2>6, <2>11, <3>6, <3>7, <3>8, <3>9 DEF ReconcileInd, ReconcileTypes, IntentsFit, RowsRight, Listed
    <2> QED
        BY <2>1, <2>12, <2>13
<1> QED
    BY <1>3, <1>4

\* Every step of the reconciliation keeps the invariant.
LEMMA ReconcileSteps == ReconcileInd /\ [ReconcileNext]_reconcileVars => ReconcileInd'
<1> SUFFICES ASSUME ReconcileInd, [ReconcileNext]_reconcileVars PROVE ReconcileInd'
    OBVIOUS
<1>1. CASE UNCHANGED reconcileVars
    BY <1>1 DEF reconcileVars, ReconcileInd, ReconcileTypes, IntentsFit, RowsRight, Listed, Right
<1> QED
    BY <1>1, StartPassKeeps, ReplayKeeps, ReplayedKeeps, ObserveKeeps, ObservedKeeps, ScanKeeps, EndsKeep, CutShortKeeps
       DEF ReconcileNext

\* ConvergedIsComplete for every number of clips and every bound: a pass of
\* reconcile_startup that reports no more work has left no intent, no readable sidecar
\* without a row, and no row that claims to be reconciled of a pair that is elsewhere.
THEOREM ConvergedPassIsComplete == ReconcileSpec => []ConvergedIsComplete
<1>1. ReconcileInd => ConvergedIsComplete
    <2> SUFFICES ASSUME ReconcileInd, recovery.done, ~recovery.more
                 PROVE  /\ intents = {}
                        /\ \A c \in Clips : pairs[c].valid => indexed[c] # NoRow
                        /\ \A c \in Clips : Right(c)
        BY DEF ConvergedIsComplete, Right
    <2>1. intents = {} /\ recovery.dir = 5
        BY DEF ReconcileInd, Listed
    <2>2. \A c \in Clips : Right(c)
        BY DEF ReconcileInd, RowsRight
    <2>3. ASSUME NEW c \in Clips, pairs[c].valid PROVE indexed[c] # NoRow
        <3>1. pairs[c].sidecar \in Places
            BY DEF ReconcileInd, ReconcileTypes, Pair
        <3>2. PICK k \in 1 .. 4 : pairs[c].sidecar = Directories[k]
            BY <3>1 DEF Places, Directories
        <3>3. k < recovery.dir
            BY <2>1
        <3> QED
            BY <2>3, <3>2, <3>3 DEF ReconcileInd, Listed
    <2> QED
        BY <2>1, <2>2, <2>3
<1> QED
    BY <1>1, ReconcileBegins, ReconcileSteps, PTL DEF ReconcileSpec

------------------------------------------------------------------------------
(* Overlay *)

TextKinds == {"none", "position", "lost", "invalid"}
Updaters == [at : {"idle", "updating"}, last : Nat, text : TextKinds, failed : Nat, stop : BOOLEAN]
Renderers == [text : TextKinds, isolated : BOOLEAN, mapped : SUBSET Buffers, caps : {"unknown", "exact", "different"},
              probe : {"attached", "removed"}, closed : BOOLEAN]
Callbacks == [at : {"out", "in", "map", "write"}, buffer : Buffers \cup {"none"}]
Backends == [number : Nat, stage : {"playing", "closing", "null", "none", "faulted"}, streams : Nat]

\* Between the inspection of a buffer and the last row written into it the renderer is neither
\* isolated nor closed and its caps stay exact; a backend that is gone has no callback inside.
OverlayInd ==
  /\ updater \in Updaters /\ renderer \in Renderers /\ callback \in Callbacks /\ session \in Backends
  /\ callback.at \in {"map", "write"} =>
       renderer.isolated = FALSE /\ renderer.closed = FALSE /\ renderer.caps = "exact"
  /\ callback.at # "out" => callback.buffer \in Buffers
  /\ callback.at = "write" => callback.buffer \in renderer.mapped
  /\ renderer.closed => renderer.mapped = {}
  /\ session.stage = "none" => callback.at = "out"

\* The overlay task changes the text and nothing else of the renderer.
LEMMA UpdaterSteps ==
  ASSUME OverlayInd, OverlayLoop \/ SetText \/ StopOverlay
  PROVE  OverlayInd'
<1>1. updater' \in Updaters
  <2>1. session.number \in Nat /\ BuildOverlay \in TextKinds
    BY DEF OverlayInd, Backends, BuildOverlay, TextKinds
  <2> QED
    BY <2>1 DEF OverlayInd, Updaters, OverlayLoop, SetText, StopOverlay, GiveUp
<1>2. callback' = callback /\ session' = session
  BY DEF OverlayLoop, SetText, StopOverlay
<1>3. renderer' = renderer \/ renderer' = [renderer EXCEPT !.text = updater.text]
  BY DEF OverlayLoop, SetText, StopOverlay
<1>4. CASE renderer' = renderer
  BY <1>1, <1>2, <1>4 DEF OverlayInd
<1>5. CASE renderer' = [renderer EXCEPT !.text = updater.text]
  <2>1. /\ renderer' \in Renderers /\ renderer'.isolated = renderer.isolated /\ renderer'.closed = renderer.closed
        /\ renderer'.caps = renderer.caps /\ renderer'.mapped = renderer.mapped
    BY <1>5 DEF OverlayInd, Renderers, Updaters
  <2> QED
    BY <1>1, <1>2, <2>1 DEF OverlayInd
<1> QED
  BY <1>3, <1>4, <1>5

\* An isolated renderer that the callback has left keeps the invariant.
LEMMA IsolationFits ==
  ASSUME OverlayInd, Isolated, Leaves, updater' = updater, session' = session
  PROVE  OverlayInd'
<1>1. renderer' = [renderer EXCEPT !.isolated = TRUE] /\ callback' = [at |-> "out", buffer |-> "none"]
  BY DEF Isolated, Leaves
<1>2. /\ renderer' \in Renderers /\ callback' \in Callbacks /\ callback'.at = "out"
      /\ renderer'.closed = renderer.closed /\ renderer'.mapped = renderer.mapped
  BY <1>1 DEF OverlayInd, Renderers, Callbacks
<1> QED
  BY <1>2 DEF OverlayInd

\* So does a callback that leaves the renderer as it is.
LEMMA LeavingFits ==
  ASSUME OverlayInd, Leaves, UNCHANGED <<updater, renderer, session>>
  PROVE  OverlayInd'
<1>1. callback' \in Callbacks /\ callback'.at = "out"
  BY DEF Leaves, Callbacks
<1> QED
  BY <1>1 DEF OverlayInd

\* The streaming thread inside the probe.
LEMMA ProbeSteps ==
  ASSUME OverlayInd, StreamStart \/ HandleCaps \/ EnterProbe \/ InspectFrame \/ MapBuffer \/ WriteRows
  PROVE  OverlayInd'
<1>1. CASE StreamStart \/ HandleCaps
  <2>1. PICK c \in {"unknown", "exact", "different"} : renderer' = [renderer EXCEPT !.caps = c]
    BY <1>1 DEF StreamStart, HandleCaps
  <2>2. /\ renderer' \in Renderers /\ renderer'.closed = renderer.closed /\ renderer'.mapped = renderer.mapped
    BY <2>1 DEF OverlayInd, Renderers
  <2>3. callback' = callback /\ callback.at = "out" /\ updater' = updater
    BY <1>1 DEF StreamStart, HandleCaps
  <2>4. session' \in Backends /\ session'.stage = session.stage
    BY <1>1 DEF StreamStart, HandleCaps, OverlayInd, Backends
  <2> QED
    BY <2>2, <2>3, <2>4 DEF OverlayInd
<1>2. CASE EnterProbe
  <2>1. PICK b \in Buffers : callback' = [at |-> "in", buffer |-> b]
    BY <1>2 DEF EnterProbe
  <2>2. callback' \in Callbacks /\ callback'.at = "in" /\ callback'.buffer = b
    BY <2>1 DEF Callbacks
  <2> QED
    BY <1>2, <2>1, <2>2 DEF EnterProbe, OverlayInd
<1>3. CASE InspectFrame
  <2>1. CASE Isolated /\ Leaves
    BY <1>3, <2>1, IsolationFits DEF InspectFrame
  <2>2. CASE Leaves /\ UNCHANGED renderer
    BY <1>3, <2>2, LeavingFits DEF InspectFrame
  <2>3. CASE RequiresFrameInspection /\ FrameContract /\ callback' = [callback EXCEPT !.at = "map"] /\ UNCHANGED renderer
    <3>1. callback' \in Callbacks /\ callback'.at = "map" /\ callback'.buffer = callback.buffer
      BY <2>3 DEF OverlayInd, Callbacks
    <3>2. renderer.closed = FALSE /\ renderer.isolated = FALSE /\ renderer.caps = "exact"
      BY <2>3 DEF RequiresFrameInspection, FrameContract, OverlayInd, Renderers
    <3>3. callback.at = "in" /\ session.stage # "none" /\ updater' = updater /\ session' = session
      BY <1>3 DEF InspectFrame, OverlayInd
    <3> QED
      BY <2>3, <3>1, <3>2, <3>3 DEF OverlayInd
  <2> QED
    BY <1>3, <2>1, <2>2, <2>3 DEF InspectFrame
<1>4. CASE MapBuffer
  <2>1. CASE Isolated /\ Leaves
    BY <1>4, <2>1, IsolationFits DEF MapBuffer
  <2>2. CASE callback' = [callback EXCEPT !.at = "write"]
    <3>1. callback' \in Callbacks /\ callback'.at = "write" /\ callback'.buffer = callback.buffer
      BY <2>2 DEF OverlayInd, Callbacks
    <3>2. /\ callback.at = "map" /\ session.stage # "none" /\ callback.buffer \in Buffers
          /\ renderer.closed = FALSE /\ renderer.isolated = FALSE /\ renderer.caps = "exact"
      BY <1>4 DEF MapBuffer, OverlayInd
    <3>3. callback'.at # "out"
      BY <3>1
    <3>4. \/ renderer' = renderer /\ callback.buffer \in renderer.mapped
          \/ renderer' = [renderer EXCEPT !.mapped = @ \cup {callback.buffer}]
      BY <1>4, <3>3 DEF MapBuffer, Leaves
    <3>5. /\ renderer' \in Renderers /\ renderer'.isolated = FALSE /\ renderer'.closed = FALSE
          /\ renderer'.caps = "exact" /\ callback.buffer \in renderer'.mapped
      <4>1. CASE renderer' = renderer /\ callback.buffer \in renderer.mapped
        BY <3>2, <4>1 DEF OverlayInd
      <4>2. CASE renderer' = [renderer EXCEPT !.mapped = @ \cup {callback.buffer}]
        BY <3>2, <4>2 DEF OverlayInd, Renderers
      <4> QED
        BY <3>4, <4>1, <4>2
    <3>6. updater' = updater /\ session' = session
      BY <1>4 DEF MapBuffer
    <3> QED
      BY <3>1, <3>2, <3>5, <3>6 DEF OverlayInd
  <2> QED
    BY <1>4, <2>1, <2>2 DEF MapBuffer
<1>5. CASE WriteRows
  BY <1>5, IsolationFits, LeavingFits DEF WriteRows
<1> QED
  BY <1>1, <1>2, <1>3, <1>4, <1>5

\* Closing waits for the callback, and a new backend begins when no callback is left.
LEMMA CloseSteps ==
  ASSUME OverlayInd, BeginNull \/ CloseRenderer \/ CloseAgain \/ ReplaceBackend
  PROVE  OverlayInd'
<1>1. updater' = updater /\ callback' = callback
  BY DEF BeginNull, CloseRenderer, CloseAgain, ReplaceBackend
<1>2. \/ session' = [session EXCEPT !.stage = "none"] /\ callback.at = "out"
      \/ \E g \in {"closing", "null", "faulted"} : session' = [session EXCEPT !.stage = g]
      \/ session' = [session EXCEPT !.number = @ + 1, !.stage = "playing"]
  BY DEF BeginNull, CloseRenderer, CloseAgain, ReplaceBackend
<1>3. session' \in Backends /\ (session'.stage = "none" => callback.at = "out")
  <2>1. session \in Backends
    BY DEF OverlayInd
  <2>2. CASE session' = [session EXCEPT !.stage = "none"] /\ callback.at = "out"
    BY <2>1, <2>2 DEF Backends
  <2>3. CASE \E g \in {"closing", "null", "faulted"} : session' = [session EXCEPT !.stage = g]
    BY <2>1, <2>3 DEF Backends
  <2>4. CASE session' = [session EXCEPT !.number = @ + 1, !.stage = "playing"]
    <3>1. session.number + 1 \in Nat
      BY <2>1 DEF Backends
    <3>2. session' \in Backends /\ session'.stage = "playing"
      BY <2>1, <2>4, <3>1 DEF Backends
    <3> QED
      BY <3>2
  <2> QED
    BY <1>2, <2>2, <2>3, <2>4
<1>4. CASE renderer' = renderer
  BY <1>1, <1>3, <1>4 DEF OverlayInd
<1>5. CASE renderer' = Released(renderer) /\ callback.at = "out"
  <2>1. renderer' \in Renderers /\ renderer'.mapped = {}
    BY <1>5 DEF Released, OverlayInd, Renderers
  <2> QED
    BY <1>1, <1>3, <1>5, <2>1 DEF OverlayInd
<1>6. CASE BeginNull
  <2>1. renderer' = [renderer EXCEPT !.probe = "removed"]
    BY <1>6 DEF BeginNull
  <2>2. /\ renderer' \in Renderers /\ renderer'.isolated = renderer.isolated /\ renderer'.closed = renderer.closed
        /\ renderer'.caps = renderer.caps /\ renderer'.mapped = renderer.mapped
    BY <2>1 DEF OverlayInd, Renderers
  <2> QED
    BY <1>1, <1>3, <2>2 DEF OverlayInd
<1>7. CASE ReplaceBackend
  <2>1. renderer' \in Renderers /\ renderer'.mapped = {}
    BY <1>7 DEF ReplaceBackend, NewRenderer, BuildOverlay, Renderers, TextKinds
  <2>2. callback.at = "out"
    BY <1>7 DEF ReplaceBackend, OverlayInd
  <2> QED
    BY <1>1, <1>3, <2>1, <2>2 DEF OverlayInd
<1> QED
  BY <1>4, <1>5, <1>6, <1>7 DEF CloseRenderer, CloseAgain

\* Every step keeps the invariant.
LEMMA OverlaySteps ==
  ASSUME OverlayInd, [OverlayNext]_overlayVars
  PROVE  OverlayInd'
<1>1. CASE UNCHANGED overlayVars
  BY <1>1 DEF overlayVars, OverlayInd
<1>2. CASE GpsChanges \/ GpsTaskFinished
  BY <1>2 DEF GpsChanges, GpsTaskFinished, OverlayInd
<1> QED
  BY <1>1, <1>2, UpdaterSteps, ProbeSteps, CloseSteps DEF OverlayNext

\* A step begins to write only where the inspection has passed.
LEMMA StepWritesValidated ==
  ASSUME OverlayInd, [OverlayNext]_overlayVars
  PROVE  callback.at # "write" /\ callback'.at = "write" => ~renderer.isolated /\ renderer.caps = "exact"
<1> SUFFICES ASSUME callback.at # "write", callback'.at = "write" PROVE ~renderer.isolated /\ renderer.caps = "exact"
  OBVIOUS
<1>1. CASE callback.at = "map"
  BY <1>1 DEF OverlayInd
<1>2. CASE callback.at # "map"
  <2>1. callback' # callback /\ callback' # [callback EXCEPT !.at = "map"] /\ ~Leaves
    BY DEF OverlayInd, Callbacks, Leaves
  <2>2. EnterProbe \/ InspectFrame
    BY <1>2, <2>1 DEF OverlayNext, overlayVars, GpsChanges, GpsTaskFinished, OverlayLoop, SetText, StopOverlay,
       StreamStart, HandleCaps, MapBuffer, WriteRows, BeginNull, CloseRenderer, CloseAgain, ReplaceBackend
  <2>3. CASE EnterProbe
    BY <2>3 DEF EnterProbe
  <2>4. CASE InspectFrame
    BY <2>1, <2>4 DEF InspectFrame
  <2> QED
    BY <2>2, <2>3, <2>4
<1> QED
  BY <1>1, <1>2

\* OverlaySound for every number of buffers, mappings, streams and backends: the streaming thread
\* writes through open mappings of validated streams, and never after an isolation.
THEOREM OverlayTouchesItsOwn == OverlaySpec => OverlaySound
<1>1. OverlayInit => OverlayInd
  BY DEF OverlayInit, OverlayInd, NewRenderer, NoText, Updaters, Renderers, Callbacks, Backends, TextKinds
<1>2. OverlayInd => MappingsOwned
  BY DEF OverlayInd, MappingsOwned
<1>3. OverlayInd /\ [OverlayNext]_overlayVars =>
        [callback.at # "write" /\ callback'.at = "write" => ~renderer.isolated /\ renderer.caps = "exact"]_overlayVars
  BY StepWritesValidated
<1> QED
  BY <1>1, <1>2, <1>3, OverlaySteps, PTL DEF OverlaySpec, OverlaySound, IsolationLatched

------------------------------------------------------------------------------
(* FragmentOrder *)

Sources == [next : Nat, open : SUBSET Sequences, frames : Nat]
Events == [opened : Seq(Sequences), closed : Seq(Sequences)]
Drains == [expected : Nat, buffer : SUBSET Sequences, doing : Nat, step : {"idle", "identity", "measure", "finalize"},
           woken : BOOLEAN, error : BOOLEAN, frames : Nat]
Attempts == [at : {"recording", "closing", "waiting", "rolled", "cancelled", "demoted", "idle", "fatal"},
             count : Nat, floor : Nat, clean : BOOLEAN, opens : BOOLEAN]
ClipRecord == [try : Nat, seq : Nat]
Counts == [completed : Nat, baseline : Nat, all : Nat, inClips : Nat, clips : Seq(ClipRecord)]

FragmentTypes ==
  /\ source \in Sources /\ events \in Events /\ drain \in Drains /\ attempt \in Attempts /\ counted \in Counts
  /\ files \in [Sequences -> {"none", "pending", "clips", "protected"}]
  /\ rows \in [Sequences -> {"none", "writing", "final", "orphan"}]
  /\ held \in SUBSET Sequences

\* Nothing bears a sequence that was not given out, and between attempts nothing is under way.
GivenOut ==
  /\ \A s \in Sequences : files[s] # "none" => s < source.next
  /\ \A s \in source.open : s < source.next
  /\ \A i \in 1 .. Len(events.closed) : events.closed[i] < source.next
  /\ \A s \in drain.buffer : s < source.next
  /\ attempt.at = "idle" => source.open = {} /\ events.closed = <<>>

\* The clip in hand is the next in order.
InOrder ==
  /\ drain.step = "idle" <=> drain.doing = 0
  /\ drain.doing # 0 => drain.doing = drain.expected /\ drain.doing \in Sequences /\ drain.doing < source.next

\* The frames in clips, with those measured for the clip in hand, are frames before the baseline;
\* the roll-up moves the frames of the attempt among the completed ones.
Measured == IF drain.step = "finalize" THEN drain.frames ELSE 0
Counting == {"recording", "closing", "waiting"}

FramesFit ==
  /\ counted.baseline <= source.frames
  /\ attempt.at \in Counting =>
       /\ counted.all = counted.completed + source.frames
       /\ counted.inClips + Measured <= counted.completed + counted.baseline
  /\ attempt.at \notin Counting => counted.inClips + Measured + source.frames <= counted.all + counted.baseline
  /\ attempt.at \notin Counting => counted.all = counted.completed
  /\ attempt.at = "idle" => source.frames = 0

\* The last clip of the attempt is the one before the next in order.
ClipsFit ==
  /\ \A i \in 1 .. Len(counted.clips) : counted.clips[i].try <= attempt.count
  /\ \A i \in 2 .. Len(counted.clips) :
       counted.clips[i - 1].try = counted.clips[i].try => counted.clips[i].seq = counted.clips[i - 1].seq + 1
  /\ counted.clips # <<>> /\ counted.clips[Len(counted.clips)].try = attempt.count =>
       drain.expected = counted.clips[Len(counted.clips)].seq + 1

FragmentInd == FragmentTypes /\ GivenOut /\ InOrder /\ FramesFit /\ ClipsFit

\* What a task that goes on, or fails, makes of the attempt.
LEMMA AttemptGoesOn ==
  ASSUME FragmentInd, Draining, attempt' = attempt \/ attempt' = Failing \/ attempt' = OpenerFails
  PROVE  /\ attempt' \in Attempts /\ attempt'.count = attempt.count
         /\ attempt'.at \notin {"idle", "demoted"} /\ attempt.at \notin {"idle", "demoted"}
         /\ attempt'.at \in Counting <=> attempt.at \in Counting
<1>1. attempt \in Attempts
  BY DEF FragmentInd, FragmentTypes
<1>2. CASE attempt' = attempt
  BY <1>1, <1>2 DEF Draining
<1>3. CASE attempt' = Failing
  <2> DEFINE a == IF attempt.at = "recording" THEN "closing" ELSE attempt.at
  <2>1. attempt' = [attempt EXCEPT !.at = a, !.clean = FALSE]
    BY <1>3 DEF Failing
  <2>2. a \in {"closing", "waiting", "rolled"} /\ (a \in Counting <=> attempt.at \in Counting)
    BY DEF Draining, Counting
  <2> HIDE DEF a
  <2>3. attempt' \in Attempts /\ attempt'.at = a /\ attempt'.count = attempt.count
    BY <1>1, <2>1, <2>2 DEF Attempts
  <2> QED
    BY <2>2, <2>3 DEF Draining
<1>4. CASE attempt' = OpenerFails
  <2> DEFINE a == IF Live THEN "closing" ELSE attempt.at
             c == attempt.clean /\ ~Live
  <2>1. attempt' = [attempt EXCEPT !.opens = FALSE, !.at = a, !.clean = c]
    BY <1>4 DEF OpenerFails
  <2>2. /\ a \in {"closing", "waiting", "rolled"} /\ (a \in Counting <=> attempt.at \in Counting)
        /\ c \in BOOLEAN
    BY DEF Draining, Counting, Live
  <2> HIDE DEF a, c
  <2>3. attempt' \in Attempts /\ attempt'.at = a /\ attempt'.count = attempt.count
    BY <1>1, <2>1, <2>2 DEF Attempts
  <2> QED
    BY <2>2, <2>3 DEF Draining
<1> QED
  BY <1>2, <1>3, <1>4

\* The backend.
LEMMA BackendSteps ==
  ASSUME FragmentInd, OpenFragment \/ CloseFragment \/ EncodeFrame
  PROVE  FragmentInd'
<1>0. source \in Sources /\ events \in Events /\ counted \in Counts
  BY DEF FragmentInd, FragmentTypes
<1>1. CASE OpenFragment
  <2>1. /\ source' = [source EXCEPT !.next = @ + 1, !.open = @ \cup {source.next}] /\ source.next \in Sequences
        /\ events' = [events EXCEPT !.opened = Append(@, source.next)]
        /\ files' = [files EXCEPT ![source.next] = "pending"]
        /\ UNCHANGED <<rows, held, drain, attempt, counted>> /\ attempt.at = "recording"
    BY <1>1 DEF OpenFragment, Live
  <2>2. source.next + 1 \in Nat /\ source.open \cup {source.next} \in SUBSET Sequences
    BY <1>0, <2>1 DEF Sources
  <2>3. /\ source' \in Sources /\ source'.next = source.next + 1 /\ source'.open = source.open \cup {source.next}
        /\ source'.frames = source.frames
    BY <1>0, <2>1, <2>2 DEF Sources
  <2>4. events' \in Events /\ events'.closed = events.closed
    <3>1. Append(events.opened, source.next) \in Seq(Sequences)
      BY <1>0, <2>1, AppendProperties DEF Events
    <3> QED
      BY <1>0, <2>1, <3>1 DEF Events
  <2>5. /\ files' \in [Sequences -> {"none", "pending", "clips", "protected"}]
        /\ \A s \in Sequences : files'[s] # "none" => files[s] # "none" \/ s = source.next
    BY <2>1 DEF FragmentInd, FragmentTypes
  <2>6. GivenOut'
    <3>1. source.next \in Nat /\ \A s \in Sequences : s \in Nat
      BY <1>0 DEF Sources, Sequences
    <3>2. \A s \in Nat : s < source.next => s < source.next + 1
      BY <3>1
    <3>3. \A i \in 1 .. Len(events.closed) : events.closed[i] \in Sequences
      BY <1>0 DEF Events
    <3>4. source.open \subseteq Sequences /\ drain.buffer \subseteq Sequences
      BY <1>0 DEF Sources, FragmentInd, FragmentTypes, Drains
    <3>5. \A s \in Sequences : files'[s] # "none" => s < source'.next
      BY <2>3, <2>5, <3>1, <3>2 DEF FragmentInd, GivenOut
    <3>6. \A s \in source'.open : s < source'.next
      BY <2>3, <3>1, <3>2, <3>4 DEF FragmentInd, GivenOut
    <3>7. \A i \in 1 .. Len(events'.closed) : events'.closed[i] < source'.next
      BY <2>3, <2>4, <3>1, <3>2, <3>3 DEF FragmentInd, GivenOut
    <3>8. \A s \in drain'.buffer : s < source'.next
      BY <2>1, <2>3, <3>1, <3>2, <3>4 DEF FragmentInd, GivenOut
    <3> QED
      BY <2>1, <3>5, <3>6, <3>7, <3>8 DEF GivenOut
  <2>7. InOrder'
    BY <1>0, <2>1, <2>3 DEF FragmentInd, FragmentTypes, Drains, Sources, InOrder
  <2>8. FramesFit' /\ ClipsFit'
    BY <2>1, <2>3 DEF FragmentInd, FramesFit, ClipsFit, Measured
  <2> QED
    BY <2>1, <2>3, <2>4, <2>5, <2>6, <2>7, <2>8 DEF FragmentInd, FragmentTypes
<1>2. CASE CloseFragment
  <2>1. PICK s \in source.open :
          /\ source' = [source EXCEPT !.open = @ \ {s}]
          /\ events' = [events EXCEPT !.closed = Append(@, s)]
    BY <1>2 DEF CloseFragment
  <2>2. UNCHANGED <<files, rows, held, drain, attempt, counted>> /\ attempt.at # "idle"
    BY <1>2 DEF CloseFragment, Live
  <2>3. /\ source' \in Sources /\ source'.next = source.next /\ source'.open = source.open \ {s}
        /\ source'.frames = source.frames
    BY <1>0, <2>1 DEF Sources
  <2>4. s \in Sequences /\ s < source.next
    BY <1>0 DEF Sources, FragmentInd, GivenOut
  <2>5. events' \in Events /\ events'.closed = Append(events.closed, s)
    <3>1. Append(events.closed, s) \in Seq(Sequences)
      BY <1>0, <2>4, AppendProperties DEF Events
    <3> QED
      BY <1>0, <2>1, <3>1 DEF Events
  <2>6. \A i \in 1 .. Len(events'.closed) : events'.closed[i] < source.next
    BY <1>0, <2>4, <2>5, AppendProperties DEF Events, FragmentInd, GivenOut
  <2> QED
    BY <2>2, <2>3, <2>5, <2>6 DEF FragmentInd, FragmentTypes, GivenOut, InOrder, FramesFit, ClipsFit,
       Measured
<1>3. CASE EncodeFrame
  <2>1. /\ source' \in Sources /\ source'.next = source.next /\ source'.open = source.open
        /\ source'.frames = source.frames + 1
    BY <1>0, <1>3 DEF EncodeFrame, Sources
  <2>2. /\ counted' \in Counts /\ counted'.all = counted.all + 1 /\ counted'.completed = counted.completed
        /\ counted'.baseline = counted.baseline /\ counted'.inClips = counted.inClips
        /\ counted'.clips = counted.clips
    BY <1>0, <1>3 DEF EncodeFrame, Counts
  <2>3. UNCHANGED <<events, files, rows, held, drain, attempt>> /\ attempt.at = "recording"
    BY <1>3 DEF EncodeFrame, Live
  <2>4. FramesFit'
    BY <1>0, <2>1, <2>2, <2>3 DEF FragmentInd, FramesFit, Measured, Counting, Sources, Counts
  <2> QED
    BY <2>1, <2>2, <2>3, <2>4 DEF FragmentInd, FragmentTypes, GivenOut, InOrder, ClipsFit
<1> QED
  BY <1>1, <1>2, <1>3

\* A task that fails leaves its clip, and only that.
LEMMA FailedDrainFits ==
  ASSUME FragmentInd, Draining, attempt' = Failing, DrainFails,
         UNCHANGED <<source, counted>>, held' \in SUBSET Sequences,
         files' \in [Sequences -> {"none", "pending", "clips", "protected"}],
         \A s \in Sequences : files'[s] # "none" => s < source.next,
         rows' \in [Sequences -> {"none", "writing", "final", "orphan"}],
         events' \in Events, \A i \in 1 .. Len(events'.closed) : events'.closed[i] < source.next
  PROVE  FragmentInd'
<1>1. /\ drain' \in Drains /\ drain'.step = "idle" /\ drain'.doing = 0 /\ drain'.buffer = drain.buffer
      /\ drain'.expected = drain.expected
  BY DEF DrainFails, FragmentInd, FragmentTypes, Drains
<1>2. FramesFit'
  <2>1. Measured' = 0 /\ Measured \in Nat
    BY <1>1 DEF Measured, FragmentInd, FragmentTypes, Drains
  <2>2. source \in Sources /\ counted \in Counts
    BY DEF FragmentInd, FragmentTypes
  <2> QED
    BY <2>1, <2>2, AttemptGoesOn DEF FragmentInd, FramesFit, Sources, Counts
<1> QED
  BY <1>1, <1>2, AttemptGoesOn DEF FragmentInd, FragmentTypes, GivenOut, InOrder, ClipsFit

\* A task that goes on and keeps what it measured and gave out keeps the rest.
LEMMA DrainFits ==
  ASSUME FragmentInd, Draining, attempt' = attempt, UNCHANGED <<source, files, rows, held, counted>>,
         events' \in Events, \A i \in 1 .. Len(events'.closed) : events'.closed[i] < source.next,
         drain' \in Drains, drain'.expected = drain.expected, \A s \in drain'.buffer : s < source.next,
         drain'.step # "finalize", InOrder'
  PROVE  FragmentInd'
<1>1. FramesFit'
  <2>1. Measured' = 0 /\ Measured \in Nat
    BY DEF Measured, FragmentInd, FragmentTypes, Drains
  <2>2. source \in Sources /\ counted \in Counts
    BY DEF FragmentInd, FragmentTypes
  <2> QED
    BY <2>1, <2>2 DEF FragmentInd, FramesFit, Sources, Counts
<1> QED
  BY <1>1, AttemptGoesOn DEF FragmentInd, FragmentTypes, GivenOut, ClipsFit

\* The head of the queue of closures, and what is left of it.
LEMMA ClosedHead ==
  ASSUME FragmentInd, events.closed # <<>>
  PROVE  /\ Head(events.closed) \in Sequences /\ Head(events.closed) < source.next
         /\ Tail(events.closed) \in Seq(Sequences)
         /\ \A i \in 1 .. Len(Tail(events.closed)) : Tail(events.closed)[i] < source.next
<1>1. events.closed \in Seq(Sequences) /\ Len(events.closed) \in Nat \ {0}
  BY EmptySeq, LenProperties DEF FragmentInd, FragmentTypes, Events
<1>2. /\ Head(events.closed) = events.closed[1] /\ Tail(events.closed) \in Seq(Sequences)
      /\ Len(Tail(events.closed)) = Len(events.closed) - 1
      /\ \A i \in 1 .. Len(Tail(events.closed)) : Tail(events.closed)[i] = events.closed[i + 1]
  BY <1>1, HeadTailProperties
<1>3. 1 \in 1 .. Len(events.closed) /\ events.closed[1] \in Sequences
  BY <1>1
<1>4. \A i \in 1 .. Len(Tail(events.closed)) : i + 1 \in 1 .. Len(events.closed)
  BY <1>1, <1>2
<1> QED
  BY <1>1, <1>2, <1>3, <1>4 DEF FragmentInd, GivenOut

\* Registration of what was opened.
LEMMA RegisterStep ==
  ASSUME FragmentInd, RegisterOpened
  PROVE  FragmentInd'
<1> DEFINE s == Head(events.opened)
<1>1. events \in Events /\ s \in Sequences /\ Tail(events.opened) \in Seq(Sequences)
  <2>1. events.opened \in Seq(Sequences) /\ events.opened # <<>> /\ events \in Events
    BY DEF RegisterOpened, FragmentInd, FragmentTypes, Events
  <2> QED
    BY <2>1, HeadTailProperties
<1>2. /\ events' = [events EXCEPT !.opened = Tail(@)] /\ Draining /\ UNCHANGED <<source, files, counted>>
      /\ \/ /\ rows' = [rows EXCEPT ![s] = "writing"] /\ held' = held \cup {s}
            /\ drain' = [drain EXCEPT !.woken = TRUE] /\ attempt' = attempt
         \/ /\ rows' = [rows EXCEPT ![s] = "writing"] \/ rows' = rows
            /\ attempt' = OpenerFails /\ UNCHANGED <<held, drain>>
  BY DEF RegisterOpened
<1> HIDE DEF s
<1>3. events' \in Events /\ events'.closed = events.closed
  BY <1>1, <1>2 DEF Events
<1>4. CASE /\ rows' = [rows EXCEPT ![s] = "writing"] \/ rows' = rows
           /\ attempt' = OpenerFails /\ UNCHANGED <<held, drain>>
  <2>1. rows' \in [Sequences -> {"none", "writing", "final", "orphan"}]
    BY <1>1, <1>4 DEF FragmentInd, FragmentTypes
  <2> QED
    BY <1>2, <1>3, <1>4, <2>1, AttemptGoesOn DEF FragmentInd, FragmentTypes, GivenOut, InOrder, FramesFit, ClipsFit,
       Measured
<1>5. CASE /\ rows' = [rows EXCEPT ![s] = "writing"] /\ held' = held \cup {s}
           /\ drain' = [drain EXCEPT !.woken = TRUE] /\ attempt' = attempt
  <2>1. /\ drain' \in Drains /\ drain'.step = drain.step /\ drain'.doing = drain.doing
        /\ drain'.buffer = drain.buffer /\ drain'.expected = drain.expected /\ drain'.frames = drain.frames
    BY <1>5 DEF FragmentInd, FragmentTypes, Drains
  <2>2. rows' \in [Sequences -> {"none", "writing", "final", "orphan"}] /\ held' \in SUBSET Sequences
    BY <1>1, <1>5 DEF FragmentInd, FragmentTypes
  <2>3. attempt.at \notin {"idle", "demoted"}
    BY <1>2 DEF Draining
  <2> QED
    BY <1>2, <1>3, <1>5, <2>1, <2>2, <2>3 DEF FragmentInd, FragmentTypes, GivenOut, InOrder, FramesFit,
       ClipsFit, Measured
<1> QED
  BY <1>2, <1>4, <1>5

\* The finalizing task up to the measurement.
LEMMA TakingSteps ==
  ASSUME FragmentInd, TakeClosed \/ ProcessNext \/ AwaitIdentity
  PROVE  FragmentInd'
<1>0. /\ drain \in Drains /\ events \in Events /\ \A s \in drain.buffer : s < source.next
      /\ \A i \in 1 .. Len(events.closed) : events.closed[i] < source.next
  BY DEF FragmentInd, FragmentTypes, GivenOut
<1>1. CASE TakeClosed
  <2> DEFINE s == Head(events.closed)
  <2>1. /\ events' = [events EXCEPT !.closed = Tail(@)] /\ Draining /\ drain.doing = 0
        /\ UNCHANGED <<source, files, rows, held, counted>> /\ events.closed # <<>>
        /\ (DrainFails /\ attempt' = Failing) \/ (drain' = [drain EXCEPT !.buffer = @ \cup {s}] /\ attempt' = attempt)
    BY <1>1 DEF TakeClosed
  <2>2. /\ s \in Sequences /\ s < source.next /\ Tail(events.closed) \in Seq(Sequences)
        /\ \A i \in 1 .. Len(Tail(events.closed)) : Tail(events.closed)[i] < source.next
    BY <2>1, ClosedHead
  <2> HIDE DEF s
  <2>3. events' \in Events /\ events'.closed = Tail(events.closed)
    BY <1>0, <2>1, <2>2 DEF Events
  <2>4. CASE DrainFails /\ attempt' = Failing
    BY <2>1, <2>2, <2>3, <2>4, FailedDrainFits DEF FragmentInd, FragmentTypes, GivenOut
  <2>5. CASE drain' = [drain EXCEPT !.buffer = @ \cup {s}] /\ attempt' = attempt
    <3>1. drain.buffer \cup {s} \in SUBSET Sequences
      BY <1>0, <2>2 DEF Drains
    <3>2. /\ drain' \in Drains /\ drain'.step = drain.step /\ drain'.doing = 0 /\ drain'.expected = drain.expected
          /\ drain'.buffer = drain.buffer \cup {s} /\ drain.step = "idle"
      BY <1>0, <2>1, <2>5, <3>1 DEF Drains, FragmentInd, InOrder
    <3>3. InOrder' /\ drain'.step # "finalize"
      BY <3>2 DEF InOrder
    <3>4. \A q \in drain'.buffer : q < source.next
      BY <1>0, <2>2, <3>2
    <3> QED
      BY <2>1, <2>2, <2>3, <2>5, <3>2, <3>3, <3>4, DrainFits
  <2> QED
    BY <2>1, <2>4, <2>5
<1>2. CASE ProcessNext
  <2> DEFINE g == IF drain.expected \in held THEN "measure" ELSE "identity"
  <2>1. /\ drain' = [drain EXCEPT !.buffer = @ \ {drain.expected}, !.doing = drain.expected, !.step = g,
                       !.woken = FALSE]
        /\ drain.expected \in drain.buffer /\ Draining /\ UNCHANGED <<source, events, files, rows, held, attempt, counted>>
    BY <1>2 DEF ProcessNext, NextInOrder
  <2>2. g \in {"measure", "identity"}
    OBVIOUS
  <2> HIDE DEF g
  <2>3. drain.buffer \ {drain.expected} \in SUBSET Sequences /\ drain.expected \in Sequences /\ drain.expected \in Nat
    BY <1>0, <2>1 DEF Drains
  <2>4. /\ drain' \in Drains /\ drain'.step = g /\ drain'.doing = drain.expected /\ drain'.expected = drain.expected
        /\ drain'.buffer = drain.buffer \ {drain.expected}
    BY <1>0, <2>1, <2>2, <2>3 DEF Drains
  <2>5. drain.expected # 0
    BY <2>3 DEF Sequences
  <2>6. InOrder' /\ drain'.step # "finalize"
    BY <1>0, <2>1, <2>2, <2>3, <2>4, <2>5 DEF InOrder
  <2>7. events' \in Events /\ \A i \in 1 .. Len(events'.closed) : events'.closed[i] < source.next
    BY <1>0, <2>1
  <2>8. attempt' = attempt /\ UNCHANGED <<source, files, rows, held, counted>>
    BY <2>1
  <2>9. \A q \in drain'.buffer : q < source.next
    BY <1>0, <2>4
  <2> QED
    BY <2>1, <2>4, <2>6, <2>7, <2>8, <2>9, DrainFits
<1>3. CASE AwaitIdentity
  <2>1. /\ Draining /\ drain.step = "identity" /\ UNCHANGED <<source, files, rows, held, counted>>
        /\ events' \in Events /\ \A i \in 1 .. Len(events'.closed) : events'.closed[i] < source.next
    BY <1>0, <1>3 DEF AwaitIdentity
  <2>2. CASE DrainFails /\ attempt' = Failing
    BY <2>1, <2>2, FailedDrainFits DEF FragmentInd, FragmentTypes, GivenOut
  <2>3. CASE drain' = [drain EXCEPT !.step = "measure"] /\ attempt' = attempt
    <3>1. /\ drain' \in Drains /\ drain'.step = "measure" /\ drain'.doing = drain.doing
          /\ drain'.expected = drain.expected /\ drain'.buffer = drain.buffer
      BY <1>0, <2>3 DEF Drains
    <3>2. InOrder'
      BY <2>1, <3>1 DEF FragmentInd, InOrder
    <3> QED
      BY <1>0, <2>1, <2>3, <3>1, <3>2, DrainFits
  <2> QED
    BY <1>3, <2>2, <2>3 DEF AwaitIdentity
<1> QED
  BY <1>1, <1>2, <1>3

\* The frames of a clip are those since the baseline, which moves up to them.
LEMMA MeasureStep ==
  ASSUME FragmentInd, MeasureClip
  PROVE  FragmentInd'
<1>0. source \in Sources /\ drain \in Drains /\ counted \in Counts
  BY DEF FragmentInd, FragmentTypes
<1>1. /\ drain' = [drain EXCEPT !.step = "finalize", !.frames = source.frames - counted.baseline]
      /\ counted' = [counted EXCEPT !.baseline = source.frames] /\ drain.step = "measure"
      /\ UNCHANGED <<source, events, files, rows, held, attempt>>
  BY DEF MeasureClip
<1>2. source.frames - counted.baseline \in Nat
  BY <1>0 DEF FragmentInd, FramesFit, Sources, Counts
<1>3. /\ drain' \in Drains /\ drain'.step = "finalize" /\ drain'.frames = source.frames - counted.baseline
      /\ drain'.doing = drain.doing /\ drain'.expected = drain.expected /\ drain'.buffer = drain.buffer
  BY <1>0, <1>1, <1>2 DEF Drains
<1>4. /\ counted' \in Counts /\ counted'.baseline = source.frames /\ counted'.all = counted.all
      /\ counted'.completed = counted.completed /\ counted'.inClips = counted.inClips
      /\ counted'.clips = counted.clips
  BY <1>0, <1>1 DEF Sources, Counts
<1>5. FramesFit'
  <2>1. Measured = 0 /\ Measured' = source.frames - counted.baseline
    BY <1>1, <1>3 DEF Measured
  <2> QED
    BY <1>0, <1>1, <1>4, <2>1 DEF FragmentInd, FramesFit, Sources, Counts
<1>6. InOrder'
  BY <1>1, <1>3 DEF FragmentInd, InOrder
<1> QED
  BY <1>1, <1>3, <1>4, <1>5, <1>6 DEF FragmentInd, FragmentTypes, GivenOut, ClipsFit

\* A clip becomes final with its row, its file and its frames, and is the last one in order.
LEMMA FinalizeStep ==
  ASSUME FragmentInd, FinalizeClip
  PROVE  FragmentInd'
<1> DEFINE s == drain.doing
           x == [try |-> attempt.count, seq |-> s]
<1>0. source \in Sources /\ drain \in Drains /\ counted \in Counts /\ attempt \in Attempts /\ events \in Events
  BY DEF FragmentInd, FragmentTypes
<1>1. Draining /\ drain.step = "finalize" /\ UNCHANGED <<source, events>>
  BY DEF FinalizeClip
<1>2. s \in Sequences /\ s < source.next /\ s = drain.expected /\ s \in Nat
  BY <1>0, <1>1 DEF FragmentInd, InOrder, Drains
<1>3. CASE /\ DrainFails /\ attempt' = Failing /\ UNCHANGED <<held, counted>>
           /\ \/ files' = [files EXCEPT ![s] = "clips"] /\ rows' = [rows EXCEPT ![s] = "final"]
              \/ UNCHANGED <<files, rows>>
  <2>1. /\ files' \in [Sequences -> {"none", "pending", "clips", "protected"}]
        /\ \A q \in Sequences : files'[q] # "none" => q < source.next
        /\ rows' \in [Sequences -> {"none", "writing", "final", "orphan"}]
    BY <1>2, <1>3 DEF FragmentInd, FragmentTypes, GivenOut
  <2> QED
    BY <1>0, <1>1, <1>3, <2>1, FailedDrainFits DEF FragmentInd, FragmentTypes, GivenOut
<1>4. CASE /\ files' = [files EXCEPT ![s] = "clips"] /\ rows' = [rows EXCEPT ![s] = "final"] /\ held' = held \ {s}
           /\ counted' = [counted EXCEPT !.clips = Append(@, x), !.inClips = @ + drain.frames]
           /\ drain' = [drain EXCEPT !.doing = 0, !.step = "idle", !.expected = s + 1] /\ attempt' = attempt
  <2>1. /\ drain' \in Drains /\ drain'.step = "idle" /\ drain'.doing = 0 /\ drain'.expected = s + 1
        /\ drain'.buffer = drain.buffer
    <3>1. s + 1 \in Nat /\ 0 \in Nat
      BY <1>2
    <3> QED
      BY <1>0, <1>4, <3>1 DEF Drains
  <2>2. x \in ClipRecord /\ x.try = attempt.count /\ x.seq = s /\ counted.clips \in Seq(ClipRecord)
    BY <1>0, <1>2 DEF ClipRecord, Attempts, Counts
  <2>3. /\ Append(counted.clips, x) \in Seq(ClipRecord) /\ Len(Append(counted.clips, x)) = Len(counted.clips) + 1
        /\ \A i \in 1 .. Len(counted.clips) : Append(counted.clips, x)[i] = counted.clips[i]
        /\ Append(counted.clips, x)[Len(counted.clips) + 1] = x
    BY <2>2, AppendProperties
  <2>4. counted.inClips + drain.frames \in Nat
    BY <1>0 DEF Counts, Drains
  <2>5. /\ counted' \in Counts /\ counted'.clips = Append(counted.clips, x)
        /\ counted'.inClips = counted.inClips + drain.frames /\ counted'.all = counted.all
        /\ counted'.completed = counted.completed /\ counted'.baseline = counted.baseline
    <3> HIDE DEF x
    <3> QED
      BY <1>0, <1>4, <2>3, <2>4 DEF Counts
  <2>6. /\ files' \in [Sequences -> {"none", "pending", "clips", "protected"}]
        /\ \A q \in Sequences : files'[q] # "none" => files[q] # "none" \/ q = s
    BY <1>2, <1>4 DEF FragmentInd, FragmentTypes
  <2>7. rows' \in [Sequences -> {"none", "writing", "final", "orphan"}] /\ held' \in SUBSET Sequences
    BY <1>2, <1>4 DEF FragmentInd, FragmentTypes
  <2>8. GivenOut'
    BY <1>1, <1>2, <1>4, <2>1, <2>6 DEF FragmentInd, GivenOut
  <2>9. InOrder'
    BY <1>1, <1>4, <2>1 DEF InOrder
  <2>10. FramesFit'
    <3>1. Measured = drain.frames /\ Measured' = 0
      BY <1>1, <2>1 DEF Measured
    <3>2. counted.inClips \in Nat /\ drain.frames \in Nat
      BY <1>0 DEF Counts, Drains
    <3>3. counted'.inClips + Measured' = counted.inClips + Measured
      BY <2>5, <3>1, <3>2
    <3> QED
      BY <1>1, <1>4, <2>5, <3>3 DEF FragmentInd, FramesFit
  <2>11. ClipsFit'
    <3> DEFINE cs == counted.clips
               n == Len(counted.clips)
    <3>1. n \in Nat /\ counted'.clips # <<>> /\ Len(counted'.clips) = n + 1 /\ counted'.clips[n + 1] = x
          /\ \A i \in 1 .. n : counted'.clips[i] = cs[i]
      BY <2>2, <2>3, <2>5, LenProperties, EmptySeq
    <3>2. \A i \in 1 .. n + 1 : counted'.clips[i].try <= attempt.count
      <4>1. \A i \in 1 .. n : counted'.clips[i].try <= attempt.count
        BY <3>1 DEF FragmentInd, ClipsFit
      <4>2. counted'.clips[n + 1].try <= attempt.count
        BY <1>0, <2>2, <3>1 DEF Attempts
      <4> QED
        BY <3>1, <4>1, <4>2
    <3>3. ASSUME NEW i \in 2 .. n + 1, counted'.clips[i - 1].try = counted'.clips[i].try
          PROVE  counted'.clips[i].seq = counted'.clips[i - 1].seq + 1
      <4>1. CASE i = n + 1
        <5>1. n \in 1 .. n /\ i - 1 = n /\ counted'.clips[i] = x /\ counted'.clips[n] = cs[n] /\ cs # <<>>
          BY <3>1, <4>1
        <5>2. cs[n].try = attempt.count
          BY <2>2, <3>3, <5>1
        <5>3. drain.expected = cs[n].seq + 1
          BY <5>1, <5>2 DEF FragmentInd, ClipsFit
        <5> QED
          BY <1>2, <2>2, <5>1, <5>3
      <4>2. CASE i # n + 1
        <5>1. i \in 2 .. n /\ i - 1 \in 1 .. n /\ i \in 1 .. n
          BY <3>1, <4>2
        <5>2. counted'.clips[i] = cs[i] /\ counted'.clips[i - 1] = cs[i - 1]
          BY <3>1, <5>1
        <5> QED
          BY <3>3, <5>1, <5>2 DEF FragmentInd, ClipsFit
      <4> QED
        BY <4>1, <4>2
    <3>4. drain'.expected = counted'.clips[n + 1].seq + 1
      BY <2>1, <2>2, <3>1
    <3> QED
      BY <1>4, <3>1, <3>2, <3>3, <3>4 DEF ClipsFit
  <2> QED
    BY <1>0, <1>1, <1>4, <2>1, <2>5, <2>6, <2>7, <2>8, <2>9, <2>10, <2>11 DEF FragmentInd, FragmentTypes
<1> QED
  BY <1>3, <1>4 DEF FinalizeClip

\* The end of an attempt, up to its cancelled tasks.
LEMMA EndingSteps ==
  ASSUME FragmentInd, EndAttempt \/ BackendStopped \/ RollUpCounters \/ CancelTasks
  PROVE  FragmentInd'
<1>0. source \in Sources /\ drain \in Drains /\ counted \in Counts /\ attempt \in Attempts
  BY DEF FragmentInd, FragmentTypes
<1>1. CASE EndAttempt \/ BackendStopped
  <2>1. /\ attempt' \in Attempts /\ attempt'.at \in {"closing", "waiting"} /\ attempt'.count = attempt.count
        /\ attempt.at \in {"recording", "closing"}
    <3>1. \/ attempt' = [attempt EXCEPT !.at = "closing"]
          \/ attempt' = [attempt EXCEPT !.at = "waiting"]
          \/ attempt' = [attempt EXCEPT !.at = "waiting", !.clean = FALSE]
      BY <1>1 DEF EndAttempt, BackendStopped
    <3> QED
      BY <1>0, <1>1, <3>1 DEF EndAttempt, BackendStopped, Live, Attempts
  <2>2. UNCHANGED <<source, events, files, rows, held, drain, counted>>
    BY <1>1 DEF EndAttempt, BackendStopped
  <2> QED
    BY <2>1, <2>2 DEF FragmentInd, FragmentTypes, GivenOut, InOrder, FramesFit, ClipsFit, Measured,
       Counting
<1>2. CASE RollUpCounters
  <2>1. /\ attempt' \in Attempts /\ attempt'.at = "rolled" /\ attempt'.count = attempt.count
        /\ attempt.at = "waiting"
    BY <1>0, <1>2 DEF RollUpCounters, Attempts
  <2>2. /\ counted' \in Counts /\ counted'.completed = counted.completed + source.frames
        /\ counted'.all = counted.all /\ counted'.baseline = counted.baseline
        /\ counted'.inClips = counted.inClips /\ counted'.clips = counted.clips
    BY <1>0, <1>2 DEF RollUpCounters, Counts, Sources
  <2>3. UNCHANGED <<source, events, files, rows, held, drain>>
    BY <1>2 DEF RollUpCounters
  <2>4. FramesFit'
    <3>1. Measured' = Measured /\ Measured \in Nat
      BY <1>0, <2>3 DEF Measured, Drains
    <3> QED
      BY <1>0, <2>1, <2>2, <2>3, <3>1 DEF FragmentInd, FramesFit, Counting, Sources, Counts
  <2> QED
    BY <2>1, <2>2, <2>3, <2>4 DEF FragmentInd, FragmentTypes, GivenOut, InOrder, ClipsFit
<1>3. CASE CancelTasks
  <2> DEFINE s == drain.doing
  <2>1. /\ attempt' \in Attempts /\ attempt'.at = "cancelled" /\ attempt'.count = attempt.count
        /\ attempt.at = "rolled"
    BY <1>0, <1>3 DEF CancelTasks, Attempts
  <2>2. /\ drain' \in Drains /\ drain'.step = "idle" /\ drain'.doing = 0 /\ drain'.buffer = drain.buffer
        /\ drain'.expected = drain.expected
    BY <1>0, <1>3 DEF CancelTasks, Drains
  <2>3. UNCHANGED <<source, held, counted>>
    BY <1>3 DEF CancelTasks
  <2>4. drain.step = "finalize" => s \in Sequences /\ s < source.next
    BY <1>0 DEF FragmentInd, InOrder
  <2>h. events.opened # <<>> => Head(events.opened) \in Sequences /\ Tail(events.opened) \in Seq(Sequences)
    BY HeadTailProperties DEF FragmentInd, FragmentTypes, Events
  <2>e. events' \in Events /\ events'.closed = events.closed
    <3>1. events \in Events
      BY DEF FragmentInd, FragmentTypes
    <3> QED
      BY <1>3, <2>h, <3>1 DEF CancelTasks, Events
  <2>5. /\ files' \in [Sequences -> {"none", "pending", "clips", "protected"}]
        /\ \A q \in Sequences : files'[q] # "none" => files[q] # "none" \/ q < source.next
    BY <1>3, <2>4 DEF CancelTasks, FragmentInd, FragmentTypes
  <2>6. rows' \in [Sequences -> {"none", "writing", "final", "orphan"}]
    BY <1>3, <2>4, <2>h DEF CancelTasks, FragmentInd, FragmentTypes
  <2>7. FramesFit'
    <3>1. Measured' = 0 /\ Measured \in Nat
      BY <1>0, <2>2 DEF Measured, Drains
    <3> QED
      BY <1>0, <2>1, <2>3, <3>1 DEF FragmentInd, FramesFit, Counting, Sources, Counts
  <2>8. GivenOut'
    BY <2>1, <2>2, <2>3, <2>5, <2>e DEF FragmentInd, GivenOut
  <2> QED
    BY <2>1, <2>2, <2>3, <2>5, <2>6, <2>7, <2>8, <2>e DEF FragmentInd, FragmentTypes, InOrder, ClipsFit
<1> QED
  BY <1>1, <1>2, <1>3

\* What was left unclosed is demoted, and the backend is dropped with its counters.
LEMMA DroppingSteps ==
  ASSUME FragmentInd, DemoteUnclosed \/ DropBackend
  PROVE  FragmentInd'
<1>0. source \in Sources /\ counted \in Counts /\ attempt \in Attempts /\ drain \in Drains
  BY DEF FragmentInd, FragmentTypes
<1>1. CASE DemoteUnclosed
  <2>1. attempt.at = "cancelled" /\ UNCHANGED <<source, events, files, drain, counted>>
    BY <1>1 DEF DemoteUnclosed
  <2>2. PICK done \in SUBSET Writing :
          /\ rows' = [s \in Sequences |-> IF s \in done THEN "orphan" ELSE rows[s]]
          /\ \/ held' = {} /\ attempt' = [attempt EXCEPT !.at = "demoted"]
             \/ held' = held /\ attempt' = [attempt EXCEPT !.at = "fatal"]
    BY <1>1 DEF DemoteUnclosed
  <2>3. /\ attempt' \in Attempts /\ attempt'.at \in {"demoted", "fatal"} /\ attempt'.count = attempt.count
    BY <1>0, <2>2 DEF Attempts
  <2>4. rows' \in [Sequences -> {"none", "writing", "final", "orphan"}] /\ held' \in SUBSET Sequences
    BY <2>2 DEF FragmentInd, FragmentTypes
  <2> QED
    BY <2>1, <2>3, <2>4 DEF FragmentInd, FragmentTypes, GivenOut, InOrder, FramesFit, ClipsFit, Measured, Counting
<1>2. CASE DropBackend
  <2>1. /\ attempt' \in Attempts /\ attempt'.at \in {"idle", "fatal"} /\ attempt'.count = attempt.count
        /\ attempt.at = "demoted"
    BY <1>0, <1>2 DEF DropBackend, Attempts
  <2>2. /\ source' \in Sources /\ source'.next = source.next /\ source'.open = {} /\ source'.frames = 0
    BY <1>0, <1>2 DEF DropBackend, Sources
  <2>3. events' \in Events /\ events'.closed = <<>>
    BY <1>2, EmptySeq DEF DropBackend, Events
  <2>4. /\ counted' \in Counts /\ counted'.baseline = 0 /\ counted'.all = counted.all
        /\ counted'.completed = counted.completed /\ counted'.inClips = counted.inClips
        /\ counted'.clips = counted.clips
    BY <1>0, <1>2 DEF DropBackend, Counts
  <2>5. UNCHANGED <<files, rows, held, drain>>
    BY <1>2 DEF DropBackend
  <2>6. FramesFit'
    <3>1. Measured' = Measured /\ Measured \in Nat
      BY <1>0, <2>5 DEF Measured, Drains
    <3> QED
      BY <1>0, <2>1, <2>2, <2>4, <3>1 DEF FragmentInd, FramesFit, Counting, Sources, Counts
  <2>7. GivenOut'
    BY <2>2, <2>3, <2>5, EmptySeq DEF FragmentInd, GivenOut
  <2>8. InOrder' /\ ClipsFit'
    BY <2>1, <2>2, <2>4, <2>5 DEF FragmentInd, InOrder, ClipsFit
  <2> QED
    BY <2>1, <2>2, <2>3, <2>4, <2>5, <2>6, <2>7, <2>8 DEF FragmentInd, FragmentTypes
<1> QED
  BY <1>1, <1>2

\* A bounded set of numbers that is not empty has its maximum in it.
LEMMA BoundedMax ==
  ASSUME NEW n \in Nat, NEW T \in SUBSET (0 .. n), T # {}
  PROVE  Max(T) \in T /\ \A x \in T : Max(T) >= x
<1> DEFINE D == {n - x : x \in T}
<1>1. D \in SUBSET Nat /\ D # {}
  <2>1. \A x \in T : n - x \in Nat
    OBVIOUS
  <2>2. PICK x \in T : TRUE
    OBVIOUS
  <2>3. n - x \in D
    OBVIOUS
  <2> QED
    BY <2>1, <2>3
<1> HIDE DEF D
<1>2. \E d \in D : \A e \in D : ~(<<e, d>> \in OpToRel(<, Nat))
  BY <1>1, NatLessThanWellFounded, WFMin
<1>3. PICK d \in D : \A e \in D : ~(<<e, d>> \in OpToRel(<, Nat))
  BY <1>2
<1>4. \A x, y \in Nat : y < x => <<y, x>> \in OpToRel(<, Nat)
  BY DEF OpToRel
<1>5. \A e \in D : ~(e < d)
  BY <1>1, <1>3, <1>4, Zenon
<1>6. PICK x \in T : d = n - x
  BY DEF D
<1>7. \A y \in T : n - y \in D
  BY DEF D
<1>8. \A y \in T : x >= y
  BY <1>5, <1>6, <1>7
<1> QED
  BY <1>8 DEF Max

\* Every sequence from the next pending one on is free.
LEMMA NextIsFree ==
  ASSUME FragmentInd
  PROVE  /\ NextPendingSequence \in Nat
         /\ \A s \in Sequences : files[s] # "none" => s < NextPendingSequence
<1> DEFINE T == {0} \cup {s \in Sequences : files[s] # "none"}
<1>1. MaxSequence \in Nat /\ T \in SUBSET (0 .. MaxSequence) /\ T # {}
  BY FragmentConstants DEF Sequences
<1>2. NextPendingSequence = Max(T) + 1
  BY DEF NextPendingSequence
<1>3. \A s \in Sequences : files[s] # "none" => s \in T
  OBVIOUS
<1> HIDE DEF T
<1>4. Max(T) \in T /\ \A x \in T : Max(T) >= x
  BY <1>1, BoundedMax
<1>5. Max(T) \in 0 .. MaxSequence
  BY <1>1, <1>4
<1>6. Max(T) \in Nat
  BY <1>1, <1>5
<1>7. \A s \in Sequences : s \in Nat
  BY DEF Sequences
<1> QED
  BY <1>2, <1>3, <1>4, <1>6, <1>7

\* A new attempt begins above every file.
LEMMA StartStep ==
  ASSUME FragmentInd, StartAttempt
  PROVE  FragmentInd'
<1> DEFINE begin == Max({NextPendingSequence, attempt.floor})
<1>0. source \in Sources /\ counted \in Counts /\ attempt \in Attempts /\ drain \in Drains
  BY DEF FragmentInd, FragmentTypes
<1>1. attempt.at = "idle" /\ UNCHANGED <<events, files, rows, held, counted>>
  BY DEF StartAttempt
<1>2. CASE attempt' = [attempt EXCEPT !.at = "fatal"] /\ UNCHANGED <<source, drain>>
  <2>1. attempt' \in Attempts /\ attempt'.at = "fatal" /\ attempt'.count = attempt.count
    BY <1>0, <1>2 DEF Attempts
  <2> QED
    BY <1>1, <1>2, <2>1 DEF FragmentInd, FragmentTypes, GivenOut, InOrder, FramesFit, ClipsFit,
       Measured, Counting
<1>3. CASE /\ source' = [source EXCEPT !.next = begin] /\ drain' = NewDrain(begin)
           /\ attempt' = [at |-> "recording", count |-> attempt.count + 1, floor |-> begin + 1, clean |-> TRUE,
                         opens |-> TRUE]
  <2>1. begin \in Nat /\ begin >= NextPendingSequence
    <3>1. NextPendingSequence \in Nat /\ attempt.floor \in Nat
      BY <1>0, NextIsFree DEF Attempts
    <3> DEFINE a == NextPendingSequence
               b == attempt.floor
    <3>2. a \in Nat /\ b \in Nat
      BY <3>1
    <3> HIDE DEF a, b
    <3>3. \E x \in {a, b} : \A y \in {a, b} : x >= y
      BY <3>2
    <3>4. Max({a, b}) \in {a, b} /\ \A y \in {a, b} : Max({a, b}) >= y
      BY <3>3 DEF Max
    <3>5. Max({a, b}) \in Nat /\ Max({a, b}) >= a
      BY <3>2, <3>4
    <3> QED
      BY <3>5 DEF a, b
  <2> HIDE DEF begin
  <2>2. source' \in Sources /\ source'.next = begin /\ source'.open = source.open /\ source'.frames = source.frames
    BY <1>0, <1>3, <2>1 DEF Sources
  <2>3. /\ drain' \in Drains /\ drain'.buffer = {} /\ drain'.doing = 0 /\ drain'.step = "idle"
    BY <1>3, <2>1 DEF NewDrain, Drains
  <2>4. attempt' \in Attempts /\ attempt'.at = "recording" /\ attempt'.count = attempt.count + 1
    BY <1>0, <1>3, <2>1 DEF Attempts
  <2>5. \A s \in Sequences : files[s] # "none" => s < begin
    <3>1. \A s \in Sequences : s \in Nat
      BY DEF Sequences
    <3> QED
      BY <2>1, <3>1, NextIsFree
  <2>6. GivenOut'
    BY <1>1, <2>2, <2>3, <2>4, <2>5, EmptySeq DEF FragmentInd, GivenOut
  <2>7. FramesFit'
    <3>1. Measured' = 0 /\ Measured \in Nat
      BY <1>0, <2>3 DEF Measured, Drains
    <3> QED
      BY <1>0, <1>1, <2>2, <2>4, <3>1 DEF FragmentInd, FramesFit, Counting, Sources, Counts
  <2>8. ClipsFit'
    <3>1. attempt.count \in Nat /\ counted.clips \in Seq(ClipRecord) /\ Len(counted.clips) \in Nat
      BY <1>0, LenProperties DEF Attempts, Counts
    <3>2. \A i \in 1 .. Len(counted.clips) : counted.clips[i].try \in Nat /\ counted.clips[i].try <= attempt.count
      <4>1. \A i \in 1 .. Len(counted.clips) : counted.clips[i] \in ClipRecord
        BY <3>1
      <4> QED
        BY <4>1 DEF ClipRecord, FragmentInd, ClipsFit
    <3>3. \A i \in 1 .. Len(counted.clips) : counted.clips[i].try <= attempt.count + 1
                                            /\ counted.clips[i].try # attempt.count + 1
      BY <3>1, <3>2
    <3>4. counted.clips # <<>> => Len(counted.clips) \in 1 .. Len(counted.clips)
      BY <3>1, EmptySeq
    <3> QED
      BY <1>1, <2>4, <3>3, <3>4 DEF FragmentInd, ClipsFit
  <2>9. InOrder'
    BY <1>1, <2>3, <2>4 DEF FragmentInd, InOrder
  <2> QED
    BY <1>1, <2>2, <2>3, <2>4, <2>6, <2>7, <2>8, <2>9 DEF FragmentInd, FragmentTypes
<1> QED
  BY <1>2, <1>3 DEF StartAttempt

\* Files that move or disappear give no sequence back.
LEMMA FileSteps ==
  ASSUME FragmentInd, ProtectClip \/ DeleteOldest
  PROVE  FragmentInd'
<1>1. UNCHANGED <<source, events, rows, held, drain, attempt, counted>>
  BY DEF ProtectClip, DeleteOldest
<1>2. /\ files' \in [Sequences -> {"none", "pending", "clips", "protected"}]
      /\ \A s \in Sequences : files'[s] # "none" => files[s] # "none"
  <2>1. CASE ProtectClip
    BY <2>1 DEF ProtectClip, FragmentInd, FragmentTypes
  <2>2. CASE DeleteOldest
    BY <2>2 DEF DeleteOldest, FragmentInd, FragmentTypes
  <2> QED
    BY <2>1, <2>2
<1> QED
  BY <1>1, <1>2 DEF FragmentInd, FragmentTypes, GivenOut, InOrder, FramesFit, ClipsFit, Measured

\* What is registered and what is still to be: the queue of opened fragments names each once, and
\* none that is held; nothing is named that was not given out.
NamesAhead ==
  /\ drain.expected <= source.next
  /\ \A i \in 1 .. Len(events.opened) : events.opened[i] < source.next /\ events.opened[i] \notin held
  /\ \A i, j \in 1 .. Len(events.opened) : events.opened[i] = events.opened[j] => i = j
  /\ \A s \in held \cup Writing : s < source.next
  /\ Draining /\ drain.step \in {"measure", "finalize"} => drain.doing \in held
  /\ attempt.at = "idle" => events.opened = <<>>

\* While the attempt is clean no closure is lost, and what is not registered, or not held, is not
\* finalized.
Accounted ==
  attempt.at \in Counting /\ attempt.clean =>
    /\ \A s \in Sequences : drain.expected <= s /\ s < source.next =>
         s \in source.open \cup drain.buffer \cup {drain.doing} \/ \E i \in 1 .. Len(events.closed) : events.closed[i] = s
    /\ \A i \in 1 .. Len(events.opened) : drain.expected <= events.opened[i]
    /\ \A s \in Writing : s \in held \/ drain.expected <= s
    /\ attempt.at = "waiting" => source.open = {}

\* One registration of an attempt, at most, is cut short, and none of a clean one.
CutShort ==
  /\ Draining /\ attempt.opens => Writing \subseteq held
  /\ attempt.at # "fatal" => \E u \in Sequences \cup {0} : Writing \subseteq held \cup {u}
  /\ attempt.at \in {"rolled", "cancelled"} /\ attempt.clean => events.opened = <<>> /\ Writing \subseteq held
  /\ attempt.at \in {"demoted", "idle"} => held = {} /\ (attempt.clean => Writing = {})
  /\ attempt.at = "idle" => attempt.clean

RegisterInd == NamesAhead /\ Accounted /\ CutShort

\* Steps that register nothing and finalize nothing.
LEMMA QuietKeeps ==
  ASSUME FragmentInd, RegisterInd,
         EncodeFrame \/ CloseFragment \/ MeasureClip \/ ProtectClip \/ DeleteOldest \/ EndAttempt \/ BackendStopped
  PROVE  RegisterInd'
<1>0. source \in Sources /\ events \in Events /\ drain \in Drains /\ attempt \in Attempts
  BY DEF FragmentInd, FragmentTypes
<1>1. CASE EncodeFrame
  <2>1. /\ source'.next = source.next /\ source'.open = source.open
        /\ UNCHANGED <<events, rows, held, drain, attempt>>
    BY <1>0, <1>1 DEF EncodeFrame, Sources
  <2> QED
    BY <2>1 DEF RegisterInd, NamesAhead, Accounted, CutShort, Writing, Draining
<1>2. CASE CloseFragment
  <2>1. PICK s \in source.open :
          /\ source' = [source EXCEPT !.open = @ \ {s}]
          /\ events' = [events EXCEPT !.closed = Append(@, s)]
    BY <1>2 DEF CloseFragment
  <2>2. UNCHANGED <<rows, held, drain, attempt>> /\ attempt.at \in {"recording", "closing"}
    BY <1>2 DEF CloseFragment, Live
  <2>3. /\ source'.next = source.next /\ source'.open = source.open \ {s} /\ s \in Sequences
        /\ events'.opened = events.opened /\ events'.closed = Append(events.closed, s)
    BY <1>0, <2>1 DEF Sources, Events
  <2>4. events.closed \in Seq(Sequences) /\ Len(events.closed) \in Nat
    BY <1>0, LenProperties DEF Events
  <2>5. /\ Len(events'.closed) = Len(events.closed) + 1 /\ events'.closed[Len(events.closed) + 1] = s
        /\ \A i \in 1 .. Len(events.closed) : events'.closed[i] = events.closed[i]
    BY <2>3, <2>4, AppendProperties
  <2>6. ASSUME NEW q, \E i \in 1 .. Len(events.closed) : events.closed[i] = q
        PROVE  \E i \in 1 .. Len(events'.closed) : events'.closed[i] = q
    <3>1. PICK i \in 1 .. Len(events.closed) : events.closed[i] = q
      BY <2>6
    <3>2. i \in 1 .. Len(events'.closed) /\ events'.closed[i] = q
      BY <2>4, <2>5, <3>1
    <3> QED
      BY <3>2
  <2>7. \E i \in 1 .. Len(events'.closed) : events'.closed[i] = s
    BY <2>4, <2>5
  <2>8. Accounted'
    BY <2>2, <2>3, <2>6, <2>7 DEF RegisterInd, Accounted, Writing
  <2> QED
    BY <2>2, <2>3, <2>8 DEF RegisterInd, NamesAhead, CutShort, Writing, Draining
<1>3. CASE MeasureClip
  <2>1. /\ drain'.expected = drain.expected /\ drain'.buffer = drain.buffer /\ drain'.doing = drain.doing
        /\ drain.step = "measure" /\ UNCHANGED <<source, events, rows, held, attempt>>
    BY <1>0, <1>3 DEF MeasureClip, Drains
  <2> QED
    BY <2>1 DEF RegisterInd, NamesAhead, Accounted, CutShort, Writing, Draining
<1>4. CASE ProtectClip \/ DeleteOldest
  BY <1>4 DEF ProtectClip, DeleteOldest, RegisterInd, NamesAhead, Accounted, CutShort, Writing, Draining
<1>5. CASE EndAttempt \/ BackendStopped
  <2>1. /\ attempt.at \in {"recording", "closing"} /\ attempt'.at \in {"closing", "waiting"}
        /\ attempt'.opens = attempt.opens /\ (attempt'.clean => attempt.clean)
        /\ attempt'.at = "waiting" /\ attempt'.clean => source.open = {}
    <3>1. \/ attempt' = [attempt EXCEPT !.at = "closing"]
          \/ attempt' = [attempt EXCEPT !.at = "waiting"] /\ source.open = {}
          \/ attempt' = [attempt EXCEPT !.at = "waiting", !.clean = FALSE]
      BY <1>5 DEF EndAttempt, BackendStopped
    <3> QED
      BY <1>0, <1>5, <3>1 DEF EndAttempt, BackendStopped, Live, Attempts
  <2>2. UNCHANGED <<source, events, rows, held, drain>>
    BY <1>5 DEF EndAttempt, BackendStopped
  <2> QED
    BY <2>1, <2>2 DEF RegisterInd, NamesAhead, Accounted, CutShort, Writing, Draining, Counting
<1> QED
  BY <1>1, <1>2, <1>3, <1>4, <1>5

\* A fragment opens under the next name.
LEMMA OpenKeeps ==
  ASSUME FragmentInd, RegisterInd, OpenFragment
  PROVE  RegisterInd'
<1> DEFINE n == Len(events.opened)
<1>0. source \in Sources /\ events \in Events /\ events.opened \in Seq(Sequences) /\ n \in Nat /\ drain \in Drains
  BY LenProperties DEF FragmentInd, FragmentTypes, Events
<1>1. /\ source' = [source EXCEPT !.next = @ + 1, !.open = @ \cup {source.next}] /\ source.next \in Sequences
      /\ events' = [events EXCEPT !.opened = Append(@, source.next)]
      /\ UNCHANGED <<rows, held, drain, attempt>> /\ attempt.at = "recording"
  BY DEF OpenFragment, Live
<1>2. /\ source'.next = source.next + 1 /\ source'.open = source.open \cup {source.next} /\ source.next \in Nat
      /\ events'.closed = events.closed /\ events'.opened = Append(events.opened, source.next)
  BY <1>0, <1>1 DEF Sources, Events
<1>3. /\ Len(events'.opened) = n + 1 /\ events'.opened[n + 1] = source.next
      /\ \A i \in 1 .. n : events'.opened[i] = events.opened[i] /\ events.opened[i] \in Nat
  <2>1. \A i \in 1 .. n : events.opened[i] \in Nat
    <3>1. \A i \in 1 .. n : events.opened[i] \in Sequences
      BY <1>0
    <3> QED
      BY <3>1 DEF Sequences
  <2> QED
    BY <1>0, <1>1, <1>2, <2>1, AppendProperties
<1>4. /\ held \cup Writing \subseteq Nat /\ \A s \in held \cup Writing : s < source.next
      /\ drain.expected \in Nat /\ drain.expected <= source.next
      /\ \A i \in 1 .. n : events.opened[i] < source.next /\ events.opened[i] \notin held
  <2>1. held \cup Writing \subseteq Sequences
    BY DEF FragmentInd, FragmentTypes, Writing
  <2>2. held \cup Writing \subseteq Nat
    BY <2>1 DEF Sequences
  <2> QED
    BY <1>0, <2>2 DEF RegisterInd, NamesAhead, Drains
<1>5. source.next \notin held
  BY <1>2, <1>4
<1> HIDE DEF n
<1>6. \A i \in 1 .. n + 1 : i \in 1 .. n \/ i = n + 1
  BY <1>0
<1>7. NamesAhead'
  <2>1. \A i \in 1 .. n + 1 : events'.opened[i] < source.next + 1 /\ events'.opened[i] \notin held
    <3>1. ASSUME NEW i \in 1 .. n + 1
          PROVE  events'.opened[i] < source.next + 1 /\ events'.opened[i] \notin held
      <4>1. CASE i \in 1 .. n
        BY <1>2, <1>3, <1>4, <4>1
      <4>2. CASE i = n + 1
        BY <1>2, <1>3, <1>5, <4>2
      <4> QED
        BY <1>6, <4>1, <4>2
    <3> QED
      BY <3>1
  <2>2. ASSUME NEW i \in 1 .. n + 1, NEW j \in 1 .. n + 1, events'.opened[i] = events'.opened[j]
        PROVE  i = j
    <3>1. ASSUME NEW x \in 1 .. n
          PROVE  events'.opened[x] # source.next
      <4>1. events'.opened[x] \in Nat /\ events'.opened[x] < source.next
        BY <1>3, <1>4
      <4>2. \A y, z \in Nat : y < z => y # z
        OBVIOUS
      <4> QED
        BY <1>2, <4>1, <4>2, Zenon
    <3>2. CASE i \in 1 .. n /\ j \in 1 .. n
      BY <1>3, <2>2, <3>2 DEF RegisterInd, NamesAhead, n
    <3> QED
      BY <1>3, <1>6, <2>2, <3>1, <3>2
  <2>3. \A s \in held \cup Writing : s < source.next + 1
    BY <1>2, <1>4
  <2>4. drain.expected <= source.next + 1
    BY <1>2, <1>4
  <2> QED
    BY <1>1, <1>2, <1>3, <2>1, <2>2, <2>3, <2>4 DEF RegisterInd, NamesAhead, Writing, Draining
<1>8. Accounted'
  <2>1. ASSUME attempt.clean
        PROVE  /\ \A s \in Sequences : drain.expected <= s /\ s < source.next + 1 =>
                    \/ s \in source'.open \cup drain.buffer \cup {drain.doing}
                    \/ \E i \in 1 .. Len(events.closed) : events.closed[i] = s
               /\ \A i \in 1 .. n + 1 : drain.expected <= events'.opened[i]
    <3>1. \A s \in Sequences : s < source.next + 1 => s < source.next \/ s = source.next
      BY <1>2 DEF Sequences
    <3>2. \A i \in 1 .. n : drain.expected <= events.opened[i]
      BY <1>1, <2>1 DEF RegisterInd, Accounted, Counting, n
    <3>3. \A i \in 1 .. n + 1 : drain.expected <= events'.opened[i]
      BY <1>3, <1>4, <1>6, <3>2
    <3> QED
      BY <1>1, <1>2, <2>1, <3>1, <3>3 DEF RegisterInd, Accounted, Counting
  <2> QED
    BY <1>1, <1>2, <1>3, <2>1 DEF RegisterInd, Accounted, Counting, Writing
<1> QED
  BY <1>1, <1>7, <1>8 DEF RegisterInd, CutShort, Writing, Draining

\* The head of the queue of opened fragments, and what is left of it.
LEMMA OpenedHead ==
  ASSUME FragmentInd, RegisterInd, events.opened # <<>>
  PROVE  /\ Head(events.opened) \in Sequences /\ Head(events.opened) < source.next
         /\ Len(Tail(events.opened)) \in Nat
         /\ \A i \in 1 .. Len(Tail(events.opened)) :
              /\ i + 1 \in 1 .. Len(events.opened) /\ Tail(events.opened)[i] = events.opened[i + 1]
              /\ Tail(events.opened)[i] # Head(events.opened)
         /\ 1 \in 1 .. Len(events.opened) /\ Head(events.opened) = events.opened[1]
<1>1. events.opened \in Seq(Sequences) /\ Len(events.opened) \in Nat \ {0}
  BY EmptySeq, LenProperties DEF FragmentInd, FragmentTypes, Events
<1>2. /\ Head(events.opened) = events.opened[1] /\ Len(Tail(events.opened)) = Len(events.opened) - 1
      /\ \A i \in 1 .. Len(Tail(events.opened)) : Tail(events.opened)[i] = events.opened[i + 1]
  BY <1>1, HeadTailProperties
<1>3. 1 \in 1 .. Len(events.opened) /\ events.opened[1] \in Sequences
  BY <1>1
<1>4. \A i \in 1 .. Len(Tail(events.opened)) : i + 1 \in 1 .. Len(events.opened) /\ i + 1 # 1
  BY <1>1, <1>2
<1> QED
  BY <1>1, <1>2, <1>3, <1>4 DEF RegisterInd, NamesAhead

\* What is left of the queue names nothing that was not in it.
LEMMA TailNamesAhead ==
  ASSUME FragmentInd, RegisterInd, events.opened # <<>>, events'.opened = Tail(events.opened)
  PROVE  /\ \A i \in 1 .. Len(events'.opened) :
              /\ events'.opened[i] < source.next /\ events'.opened[i] \notin held \cup {Head(events.opened)}
              /\ \E j \in 1 .. Len(events.opened) : events'.opened[i] = events.opened[j]
         /\ \A i, j \in 1 .. Len(events'.opened) : events'.opened[i] = events'.opened[j] => i = j
<1>1. \A i, j \in 1 .. Len(events'.opened) : events'.opened[i] = events'.opened[j] => i = j
  <2>1. ASSUME NEW i \in 1 .. Len(events'.opened), NEW j \in 1 .. Len(events'.opened),
               events'.opened[i] = events'.opened[j]
        PROVE  i + 1 = j + 1
    BY <2>1, OpenedHead DEF RegisterInd, NamesAhead
  <2>2. \A i, j \in 1 .. Len(events'.opened) : i + 1 = j + 1 => i = j
    BY OpenedHead
  <2> QED
    BY <2>1, <2>2
<1> QED
  BY <1>1, OpenedHead DEF RegisterInd, NamesAhead

\* Registration.
LEMMA RegisterKeeps ==
  ASSUME FragmentInd, RegisterInd, RegisterOpened
  PROVE  RegisterInd'
<1> DEFINE s == Head(events.opened)
<1>0. source \in Sources /\ events \in Events /\ drain \in Drains /\ attempt \in Attempts
  BY DEF FragmentInd, FragmentTypes
<1>1. /\ events' = [events EXCEPT !.opened = Tail(@)] /\ Draining /\ UNCHANGED source /\ attempt.opens
      /\ events.opened # <<>>
      /\ \/ /\ rows' = [rows EXCEPT ![s] = "writing"] /\ held' = held \cup {s}
            /\ drain' = [drain EXCEPT !.woken = TRUE] /\ attempt' = attempt
         \/ /\ rows' = [rows EXCEPT ![s] = "writing"] \/ rows' = rows
            /\ attempt' = OpenerFails /\ UNCHANGED <<held, drain>>
  BY DEF RegisterOpened
<1>2. events'.opened = Tail(events.opened) /\ events'.closed = events.closed
  BY <1>0, <1>1 DEF Events
<1>3. s \in Sequences /\ s < source.next
  BY <1>1, OpenedHead
<1>4. Writing' = Writing \cup {s} \/ (Writing' = Writing /\ attempt' = OpenerFails)
  BY <1>1, <1>3 DEF Writing, FragmentInd, FragmentTypes
<1>5. /\ drain'.expected = drain.expected /\ drain'.step = drain.step /\ drain'.doing = drain.doing
      /\ drain'.buffer = drain.buffer /\ held \subseteq held' /\ held' \subseteq held \cup {s}
      /\ attempt' = attempt => held' = held \cup {s}
      /\ attempt' = OpenerFails \/ attempt' = attempt
      /\ held' = held \/ attempt' = attempt
  <2>1. attempt.opens = TRUE /\ (attempt' = OpenerFails => attempt' # attempt)
    BY <1>0, <1>1 DEF OpenerFails, Attempts
  <2>2. CASE attempt' = OpenerFails /\ UNCHANGED <<held, drain>>
    BY <2>1, <2>2
  <2>3. CASE /\ held' = held \cup {s} /\ drain' = [drain EXCEPT !.woken = TRUE] /\ attempt' = attempt
    BY <1>0, <2>3 DEF Drains
  <2> QED
    BY <1>1, <2>2, <2>3
<1>6. /\ attempt'.at \notin {"idle", "demoted"} /\ (attempt'.clean => attempt.clean /\ attempt'.at = attempt.at)
      /\ attempt'.at \in Counting <=> attempt.at \in Counting
      /\ attempt' = OpenerFails => ~attempt'.opens
      /\ attempt'.at = "cancelled" => attempt.at = "cancelled"
  <2>1. attempt' = OpenerFails => /\ attempt'.clean = (attempt.clean /\ ~Live) /\ attempt'.opens = FALSE
                                  /\ attempt'.at = IF Live THEN "closing" ELSE attempt.at
    BY <1>0 DEF OpenerFails, Attempts
  <2> QED
    BY <1>1, <1>5, <2>1, AttemptGoesOn
<1> HIDE DEF s
<1>7. NamesAhead'
  <2>1. \A i \in 1 .. Len(events'.opened) : events'.opened[i] < source.next /\ events'.opened[i] \notin held'
    BY <1>1, <1>2, <1>5, TailNamesAhead DEF s
  <2>2. \A i, j \in 1 .. Len(events'.opened) : events'.opened[i] = events'.opened[j] => i = j
    BY <1>1, <1>2, TailNamesAhead
  <2> QED
    BY <1>1, <1>3, <1>4, <1>5, <1>6, <2>1, <2>2 DEF RegisterInd, NamesAhead
<1>8. Accounted'
  <2>1. ASSUME attempt'.at \in Counting, attempt'.clean
        PROVE  /\ attempt.at \in Counting /\ attempt.clean /\ attempt'.at = attempt.at
               /\ \A i \in 1 .. Len(events.opened) : drain.expected <= events.opened[i]
    BY <1>6, <2>1 DEF RegisterInd, Accounted
  <2>2. ASSUME attempt'.at \in Counting, attempt'.clean
        PROVE  /\ drain.expected <= s
               /\ \A i \in 1 .. Len(events'.opened) : drain.expected <= events'.opened[i]
    <3>1. s = events.opened[1] /\ 1 \in 1 .. Len(events.opened)
      BY <1>1, OpenedHead DEF s
    <3>2. \A i \in 1 .. Len(events'.opened) : \E j \in 1 .. Len(events.opened) : events'.opened[i] = events.opened[j]
      BY <1>1, <1>2, TailNamesAhead
    <3> QED
      BY <2>1, <2>2, <3>1, <3>2
  <2> QED
    BY <1>1, <1>2, <1>4, <1>5, <2>1, <2>2 DEF RegisterInd, Accounted
<1>9. CutShort'
  <2>1. Writing \subseteq held
    BY <1>1 DEF RegisterInd, CutShort
  <2>2. Writing' \subseteq held' \cup {s}
    BY <1>4, <1>5, <2>1
  <2>3. Draining' /\ attempt'.opens => Writing' \subseteq held'
    BY <1>4, <1>5, <1>6, <2>1
  <2>4. attempt'.at \notin {"rolled", "cancelled"} \/ ~attempt'.clean
    BY <1>1, <1>6 DEF RegisterInd, CutShort
  <2> QED
    BY <1>3, <1>6, <2>2, <2>3, <2>4 DEF CutShort
<1> QED
  BY <1>7, <1>8, <1>9 DEF RegisterInd

\* A finalizing task that fails: the attempt is not clean, and nothing more is registered by it.
LEMMA FailureKeeps ==
  ASSUME FragmentInd, RegisterInd, Draining, attempt' = Failing, DrainFails, UNCHANGED <<source, held>>,
         events'.opened = events.opened, Writing' \subseteq Writing
  PROVE  RegisterInd'
<1>1. drain'.step = "idle" /\ drain'.expected = drain.expected
  BY DEF DrainFails, FragmentInd, FragmentTypes, Drains
<1>2. /\ ~attempt'.clean /\ attempt'.opens = attempt.opens /\ attempt'.at \notin {"idle", "demoted"}
      /\ attempt.at \notin {"idle", "fatal"}
  <2>1. attempt'.clean = FALSE /\ attempt'.opens = attempt.opens
    BY DEF Failing, FragmentInd, FragmentTypes, Attempts
  <2> QED
    BY <2>1, AttemptGoesOn DEF Draining
<1>3. NamesAhead'
  BY <1>1, <1>2 DEF RegisterInd, NamesAhead
<1>4. CutShort'
  BY <1>2 DEF RegisterInd, CutShort
<1> QED
  BY <1>2, <1>3, <1>4 DEF RegisterInd, Accounted

\* The finalizing task up to the measurement loses no closure.
LEMMA TakingKeeps ==
  ASSUME FragmentInd, RegisterInd, TakeClosed \/ ProcessNext \/ AwaitIdentity
  PROVE  RegisterInd'
<1>0. drain \in Drains /\ events \in Events
  BY DEF FragmentInd, FragmentTypes
<1>1. CASE TakeClosed
  <2> DEFINE s == Head(events.closed)
             n == Len(events.closed)
  <2>1. /\ events' = [events EXCEPT !.closed = Tail(@)] /\ Draining /\ UNCHANGED <<source, files, rows, held, counted>>
        /\ events.closed # <<>> /\ drain.doing = 0
        /\ (DrainFails /\ attempt' = Failing) \/ (drain' = [drain EXCEPT !.buffer = @ \cup {s}] /\ attempt' = attempt)
    BY <1>1 DEF TakeClosed
  <2>2. events'.opened = events.opened /\ events'.closed = Tail(events.closed) /\ Writing' = Writing
    BY <1>0, <2>1 DEF Events, Writing
  <2>3. CASE DrainFails /\ attempt' = Failing
    BY <2>1, <2>2, <2>3, FailureKeeps
  <2>4. CASE drain' = [drain EXCEPT !.buffer = @ \cup {s}] /\ attempt' = attempt
    <3>1. /\ drain'.buffer = drain.buffer \cup {s} /\ drain'.expected = drain.expected /\ drain'.step = drain.step
          /\ drain'.doing = drain.doing
      BY <1>0, <2>4 DEF Drains
    <3>2. ASSUME NEW q, NEW i \in 1 .. n, events.closed[i] = q
          PROVE  q \in drain'.buffer \/ \E j \in 1 .. Len(events'.closed) : events'.closed[j] = q
      <4>1. n \in Nat \ {0} /\ events.closed \in Seq(Sequences)
        BY <1>0, <2>1, EmptySeq, LenProperties DEF Events
      <4>2. /\ s = events.closed[1] /\ Len(events'.closed) = n - 1
            /\ \A j \in 1 .. n - 1 : events'.closed[j] = events.closed[j + 1]
        BY <2>1, <2>2, <4>1, HeadTailProperties
      <4>3. CASE i = 1
        BY <3>1, <3>2, <4>2, <4>3
      <4>4. CASE i # 1
        <5>1. i - 1 \in 1 .. n - 1 /\ (i - 1) + 1 = i
          BY <4>1, <4>4
        <5> QED
          BY <3>2, <4>2, <5>1
      <4> QED
        BY <4>3, <4>4
    <3>3. Accounted'
      <4>1. ASSUME attempt.at \in Counting, attempt.clean, NEW q \in Sequences,
                   drain.expected <= q /\ q < source.next
            PROVE  \/ q \in source.open \cup drain'.buffer \cup {drain'.doing}
                   \/ \E i \in 1 .. Len(events'.closed) : events'.closed[i] = q
        <5>1. CASE q \in source.open \cup drain.buffer \cup {drain.doing}
          BY <3>1, <5>1
        <5>2. CASE \E i \in 1 .. n : events.closed[i] = q
          BY <3>2, <5>2
        <5> QED
          BY <4>1, <5>1, <5>2 DEF RegisterInd, Accounted
      <4> HIDE DEF s, n
      <4> QED
        BY <2>1, <2>2, <2>4, <3>1, <4>1 DEF RegisterInd, Accounted
    <3> QED
      BY <2>1, <2>2, <2>4, <3>1, <3>3 DEF RegisterInd, NamesAhead, CutShort, Draining
  <2> QED
    BY <2>1, <2>3, <2>4
<1>2. CASE ProcessNext
  <2>1. /\ drain'.buffer = drain.buffer \ {drain.expected} /\ drain'.doing = drain.expected
        /\ drain'.expected = drain.expected /\ drain'.step = (IF drain.expected \in held THEN "measure" ELSE "identity")
        /\ drain.doing = 0 /\ UNCHANGED <<source, events, rows, held, attempt>>
    BY <1>0, <1>2 DEF ProcessNext, NextInOrder, Drains
  <2>2. Accounted'
    <3>1. 0 \notin Sequences
      BY DEF Sequences
    <3> QED
      BY <2>1, <3>1 DEF RegisterInd, Accounted, Writing
  <2> QED
    BY <2>1, <2>2 DEF RegisterInd, NamesAhead, CutShort, Writing, Draining
<1>3. CASE AwaitIdentity
  <2>1. Draining /\ UNCHANGED <<source, events, rows, held>> /\ Writing' = Writing
    BY <1>3 DEF AwaitIdentity, Writing
  <2>2. CASE DrainFails /\ attempt' = Failing
    BY <2>1, <2>2, FailureKeeps
  <2>3. CASE drain.doing \in held /\ drain' = [drain EXCEPT !.step = "measure"] /\ attempt' = attempt
    <3>1. /\ drain'.step = "measure" /\ drain'.doing = drain.doing /\ drain'.expected = drain.expected
          /\ drain'.buffer = drain.buffer
      BY <1>0, <2>3 DEF Drains
    <3> QED
      BY <2>1, <2>3, <3>1 DEF RegisterInd, NamesAhead, Accounted, CutShort, Draining
  <2> QED
    BY <1>3, <2>2, <2>3 DEF AwaitIdentity
<1> QED
  BY <1>1, <1>2, <1>3

\* Only what is held is finalized, and it is the next in order.
LEMMA FinalizeKeeps ==
  ASSUME FragmentInd, RegisterInd, FinalizeClip
  PROVE  RegisterInd'
<1> DEFINE s == drain.doing
<1>0. source \in Sources /\ drain \in Drains /\ events \in Events
  BY DEF FragmentInd, FragmentTypes
<1>1. Draining /\ drain.step = "finalize" /\ UNCHANGED <<source, events>>
  BY DEF FinalizeClip
<1>2. s \in Sequences /\ s < source.next /\ s = drain.expected /\ s \in Nat /\ s \in held
  BY <1>0, <1>1 DEF FragmentInd, InOrder, Drains, RegisterInd, NamesAhead
<1>3. CASE /\ DrainFails /\ attempt' = Failing /\ UNCHANGED held
           /\ rows' = [rows EXCEPT ![s] = "final"] \/ rows' = rows
  <2>1. Writing' \subseteq Writing
    BY <1>2, <1>3 DEF Writing, FragmentInd, FragmentTypes
  <2> QED
    BY <1>1, <1>3, <2>1, FailureKeeps
<1>4. CASE /\ rows' = [rows EXCEPT ![s] = "final"] /\ held' = held \ {s} /\ attempt' = attempt
           /\ drain' = [drain EXCEPT !.doing = 0, !.step = "idle", !.expected = s + 1]
  <2>1. Writing' = Writing \ {s}
    BY <1>2, <1>4 DEF Writing, FragmentInd, FragmentTypes
  <2>2. drain'.expected = s + 1 /\ drain'.step = "idle" /\ drain'.doing = 0 /\ drain'.buffer = drain.buffer
    BY <1>0, <1>4 DEF Drains
  <2>3. \A q \in Nat : drain.expected <= q /\ q # s => s + 1 <= q
    BY <1>2
  <2>4. Sequences \subseteq Nat /\ source.next \in Nat /\ \A i \in 1 .. Len(events.opened) : events.opened[i] \in Sequences
    <3>1. events.opened \in Seq(Sequences) /\ source.next \in Nat
      BY <1>0 DEF Sources, Events
    <3>2. \A i \in 1 .. Len(events.opened) : events.opened[i] \in Sequences
      BY <3>1
    <3> QED
      BY <3>1, <3>2 DEF Sequences
  <2>5. NamesAhead'
    <3>1. s + 1 <= source.next
      BY <1>2, <2>4
    <3> QED
      BY <1>1, <1>4, <2>1, <2>2, <3>1 DEF RegisterInd, NamesAhead
  <2>6. Accounted'
    <3>1. Writing \subseteq Nat /\ \A i \in 1 .. Len(events.opened) : events.opened[i] # s
      BY <1>2, <2>4 DEF RegisterInd, NamesAhead, Writing
    <3>2. \A q \in Nat : s + 1 <= q => drain.expected <= q /\ q # s
      BY <1>2
    <3> QED
      BY <1>1, <1>2, <1>4, <2>1, <2>2, <2>3, <2>4, <3>1, <3>2 DEF RegisterInd, Accounted
  <2>7. CutShort'
    BY <1>1, <1>4, <2>1 DEF RegisterInd, CutShort, Draining
  <2> QED
    BY <2>5, <2>6, <2>7 DEF RegisterInd
<1> QED
  BY <1>3, <1>4 DEF FinalizeClip

\* The end of an attempt: what a clean one leaves is all registered.
LEMMA EndKeeps ==
  ASSUME FragmentInd, RegisterInd, RollUpCounters \/ CancelTasks
  PROVE  RegisterInd'
<1>0. drain \in Drains /\ attempt \in Attempts /\ events \in Events /\ events.opened \in Seq(Sequences)
      /\ events.closed \in Seq(Sequences)
  BY DEF FragmentInd, FragmentTypes, Events
<1>1. CASE RollUpCounters
  <2>1. /\ attempt.at = "waiting" /\ attempt'.at = "rolled" /\ attempt'.opens = attempt.opens
        /\ attempt'.clean => /\ attempt.clean /\ events.closed = <<>> /\ drain.doing = 0 /\ drain.buffer = {}
    BY <1>0, <1>1 DEF RollUpCounters, Attempts
  <2>2. UNCHANGED <<source, events, rows, held, drain>>
    BY <1>1 DEF RollUpCounters
  <2>3. ASSUME attempt'.clean
        PROVE  events.opened = <<>> /\ Writing \subseteq held
    <3>1. \A s \in Sequences : ~(drain.expected <= s /\ s < source.next)
      <4>1. Len(events.closed) = 0 /\ source.open = {} /\ 0 \notin Sequences
        BY <2>1, <2>3, EmptySeq DEF RegisterInd, Accounted, Counting, Sequences
      <4>2. \A i \in 1 .. Len(events.closed) : FALSE
        BY <4>1
      <4> QED
        BY <2>1, <2>3, <4>1, <4>2 DEF RegisterInd, Accounted, Counting
    <3>2. Writing \subseteq held
      BY <2>1, <2>3, <3>1 DEF RegisterInd, Accounted, NamesAhead, Counting, Writing
    <3>3. ASSUME events.opened # <<>> PROVE FALSE
      <4>1. 1 \in 1 .. Len(events.opened) /\ events.opened[1] \in Sequences
        BY <3>3, OpenedHead
      <4> QED
        BY <2>1, <2>3, <3>1, <4>1 DEF RegisterInd, Accounted, NamesAhead, Counting
    <3> QED
      BY <3>2, <3>3
  <2>4. NamesAhead' /\ CutShort'
    BY <2>1, <2>2, <2>3 DEF RegisterInd, NamesAhead, CutShort, Draining, Writing
  <2> QED
    BY <2>1, <2>4 DEF RegisterInd, Accounted, Counting
<1>2. CASE CancelTasks
  <2> DEFINE s == drain.doing
             o == Head(events.opened)
  <2>1. /\ attempt.at = "rolled" /\ attempt'.at = "cancelled" /\ attempt'.clean = attempt.clean
        /\ UNCHANGED <<source, held>> /\ drain'.step = "idle" /\ drain'.expected = drain.expected
    BY <1>0, <1>2 DEF CancelTasks, Attempts, Drains
  <2>2. \/ events' = events /\ rows' = rows
        \/ events' = events /\ rows' = [rows EXCEPT ![s] = "final"] /\ drain.step = "finalize"
        \/ /\ attempt.opens /\ events.opened # <<>>
           /\ events' = [events EXCEPT !.opened = Tail(@)] /\ rows' = [rows EXCEPT ![o] = "writing"]
    BY <1>2 DEF CancelTasks
  <2>3. CASE events' = events /\ Writing' \subseteq Writing
    BY <2>1, <2>3 DEF RegisterInd, NamesAhead, Accounted, CutShort, Counting, Draining
  <2>4. CASE events' = events /\ rows' = rows
    BY <2>3, <2>4 DEF Writing
  <2>5. CASE events' = events /\ rows' = [rows EXCEPT ![s] = "final"] /\ drain.step = "finalize"
    <3>1. Writing' \subseteq Writing
      BY <2>5 DEF Writing, FragmentInd, FragmentTypes, InOrder
    <3> QED
      BY <2>3, <2>5, <3>1
  <2>6. CASE /\ attempt.opens /\ events.opened # <<>>
             /\ events' = [events EXCEPT !.opened = Tail(@)] /\ rows' = [rows EXCEPT ![o] = "writing"]
    <3>1. ~attempt.clean /\ Writing \subseteq held
      BY <2>1, <2>6 DEF RegisterInd, CutShort, Draining
    <3>2. events'.opened = Tail(events.opened) /\ o \in Sequences /\ o < source.next
      BY <1>0, <2>6, OpenedHead DEF Events
    <3>3. Writing' = Writing \cup {o}
      BY <2>6, <3>2 DEF Writing, FragmentInd, FragmentTypes
    <3>4. NamesAhead'
      <4>1. \A i \in 1 .. Len(events'.opened) : events'.opened[i] < source.next /\ events'.opened[i] \notin held
        BY <2>6, <3>2, TailNamesAhead
      <4>2. \A i, j \in 1 .. Len(events'.opened) : events'.opened[i] = events'.opened[j] => i = j
        BY <2>6, <3>2, TailNamesAhead
      <4> HIDE DEF o
      <4> QED
        BY <2>1, <3>2, <3>3, <4>1, <4>2 DEF RegisterInd, NamesAhead
    <3>5. Accounted' /\ CutShort'
      <4> HIDE DEF o
      <4> QED
        BY <2>1, <3>1, <3>2, <3>3 DEF Accounted, CutShort, Counting, Draining
    <3> QED
      BY <3>4, <3>5 DEF RegisterInd
  <2> QED
    BY <2>2, <2>4, <2>5, <2>6
<1> QED
  BY <1>1, <1>2

\* As many of the oldest rows as identities are held: one is left at most, and none of an attempt
\* that registered all it wrote.
LEMMA DemoteKeeps ==
  ASSUME FragmentInd, RegisterInd, DemoteUnclosed
  PROVE  RegisterInd'
<1>0. attempt \in Attempts /\ held \subseteq Sequences /\ Writing \subseteq Sequences
  BY DEF FragmentInd, FragmentTypes, Writing
<1>1. attempt.at = "cancelled" /\ UNCHANGED <<source, events, drain>>
  BY DEF DemoteUnclosed
<1>2. PICK done \in SUBSET Writing :
        /\ rows' = [s \in Sequences |-> IF s \in done THEN "orphan" ELSE rows[s]]
        /\ \/ /\ done = Writing \/ Cardinality(done) = Cardinality(held)
              /\ held' = {} /\ attempt' = [attempt EXCEPT !.at = "demoted"]
           \/ held' = held /\ attempt' = [attempt EXCEPT !.at = "fatal"]
  BY DEF DemoteUnclosed
<1>3. Writing' = Writing \ done
  BY <1>2 DEF Writing, FragmentInd, FragmentTypes
<1>4. IsFiniteSet(Sequences) /\ IsFiniteSet(held) /\ IsFiniteSet(Writing) /\ IsFiniteSet(done)
  <2>1. IsFiniteSet(Sequences)
    BY FragmentConstants, FS_Interval DEF Sequences
  <2> QED
    BY <1>0, <2>1, FS_Subset
<1>5. PICK u \in Sequences \cup {0} : Writing \subseteq held \cup {u}
  BY <1>1 DEF RegisterInd, CutShort
<1>6. ASSUME Cardinality(done) = Cardinality(held)
      PROVE  /\ \E v \in Sequences \cup {0} : Writing \ done \subseteq {v}
             /\ Writing \subseteq held => done = Writing
  <2>1. /\ Cardinality(held) \in Nat /\ Cardinality(done) \in Nat /\ Cardinality(Writing) \in Nat
        /\ Cardinality(Writing \ done) \in Nat /\ IsFiniteSet(Writing \ done)
    BY <1>4, FS_CardinalityType, FS_Difference
  <2>2. Cardinality(held \cup {u}) <= Cardinality(held) + 1 /\ IsFiniteSet(held \cup {u})
    <3>1. /\ IsFiniteSet(held \cup {u})
          /\ Cardinality(held \cup {u}) = IF u \in held THEN Cardinality(held) ELSE Cardinality(held) + 1
      BY <1>4, FS_AddElement
    <3> QED
      BY <2>1, <3>1
  <2>3. Cardinality(Writing) <= Cardinality(held \cup {u}) /\ Cardinality(held \cup {u}) \in Nat
    BY <1>5, <2>2, FS_Subset, FS_CardinalityType
  <2>4. Cardinality(Writing \ done) = Cardinality(Writing) - Cardinality(done)
    <3>1. Writing \cap done = done
      OBVIOUS
    <3> QED
      BY <1>4, <3>1, FS_Difference
  <2>5. Cardinality(Writing \ done) = 0 \/ Cardinality(Writing \ done) = 1
    BY <1>6, <2>1, <2>2, <2>3, <2>4
  <2>6. \E v \in Sequences \cup {0} : Writing \ done \subseteq {v}
    <3>1. CASE Cardinality(Writing \ done) = 0
      <4>1. Writing \ done = {}
        BY <2>1, <3>1, FS_EmptySet
      <4> QED
        BY <4>1
    <3>2. CASE Cardinality(Writing \ done) = 1
      <4>1. PICK v : Writing \ done = {v}
        BY <2>1, <3>2, FS_Singleton
      <4> QED
        BY <1>0, <4>1
    <3> QED
      BY <2>5, <3>1, <3>2
  <2>7. ASSUME Writing \subseteq held PROVE done = Writing
    <3>1. Cardinality(Writing) <= Cardinality(held)
      BY <1>4, <2>7, FS_Subset
    <3>2. Cardinality(done) <= Cardinality(Writing)
      BY <1>4, FS_Subset
    <3>3. Cardinality(done) = Cardinality(Writing)
      BY <1>6, <2>1, <3>1, <3>2
    <3> QED
      BY <1>4, <3>3, FS_Subset
  <2> QED
    BY <2>6, <2>7
<1>7. CASE /\ done = Writing \/ Cardinality(done) = Cardinality(held)
           /\ held' = {} /\ attempt' = [attempt EXCEPT !.at = "demoted"]
  <2>1. attempt'.at = "demoted" /\ attempt'.clean = attempt.clean
    BY <1>0, <1>7 DEF Attempts
  <2>2. \E v \in Sequences \cup {0} : Writing' \subseteq {v}
    BY <1>3, <1>6, <1>7
  <2>3. attempt.clean => Writing' = {}
    BY <1>1, <1>3, <1>6, <1>7 DEF RegisterInd, CutShort
  <2>4. CutShort'
    BY <1>7, <2>1, <2>2, <2>3 DEF CutShort, Draining
  <2>5. NamesAhead'
    BY <1>1, <1>3, <1>7, <2>1 DEF RegisterInd, NamesAhead, Draining
  <2> QED
    BY <2>1, <2>4, <2>5 DEF RegisterInd, Accounted, Counting
<1>8. CASE held' = held /\ attempt' = [attempt EXCEPT !.at = "fatal"]
  <2>1. attempt'.at = "fatal"
    BY <1>0, <1>8 DEF Attempts
  <2> QED
    BY <1>1, <1>3, <1>8, <2>1 DEF RegisterInd, NamesAhead, Accounted, CutShort, Counting, Draining
<1> QED
  BY <1>2, <1>7, <1>8

\* The backend is dropped, and another attempt begins with nothing registered.
LEMMA NextAttemptKeeps ==
  ASSUME FragmentInd, RegisterInd, DropBackend \/ StartAttempt
  PROVE  RegisterInd'
<1>0. source \in Sources /\ attempt \in Attempts /\ events \in Events /\ drain \in Drains
  BY DEF FragmentInd, FragmentTypes
<1>1. CASE DropBackend
  <2>1. /\ attempt.at = "demoted" /\ attempt'.at = (IF attempt.clean THEN "idle" ELSE "fatal")
        /\ attempt'.clean = attempt.clean /\ source'.next = source.next /\ events'.opened = <<>>
        /\ UNCHANGED <<rows, held, drain>>
    BY <1>0, <1>1 DEF DropBackend, Attempts, Sources
  <2>2. Len(events'.opened) = 0 /\ \A i \in 1 .. Len(events'.opened) : FALSE
    BY <2>1, EmptySeq
  <2> QED
    BY <2>1, <2>2 DEF RegisterInd, NamesAhead, Accounted, CutShort, Counting, Draining, Writing
<1>2. CASE StartAttempt
  <2> DEFINE begin == Max({NextPendingSequence, attempt.floor})
  <2>1. attempt.at = "idle" /\ UNCHANGED <<events, files, rows, held, counted>> /\ Writing' = Writing
    BY <1>2 DEF StartAttempt, Writing
  <2>2. CASE attempt' = [attempt EXCEPT !.at = "fatal"] /\ UNCHANGED <<source, drain>>
    <3>1. attempt'.at = "fatal"
      BY <1>0, <2>2 DEF Attempts
    <3> QED
      BY <2>1, <2>2, <3>1 DEF RegisterInd, NamesAhead, Accounted, CutShort, Counting, Draining
  <2>3. CASE /\ source' = [source EXCEPT !.next = begin] /\ drain' = NewDrain(begin)
             /\ attempt' = [at |-> "recording", count |-> attempt.count + 1, floor |-> begin + 1, clean |-> TRUE,
                            opens |-> TRUE]
    <3>1. /\ source'.next = begin /\ source'.open = source.open /\ drain'.expected = begin
          /\ drain'.step = "idle" /\ attempt'.at = "recording"
      BY <1>0, <2>3 DEF NewDrain, Sources
    <3>2. begin \in Nat
      <4>1. source' \in Sources
        BY <1>2, StartStep DEF FragmentInd, FragmentTypes
      <4> QED
        BY <3>1, <4>1 DEF Sources
    <3> HIDE DEF begin
    <3>3. held = {} /\ Writing = {} /\ events.opened = <<>> /\ Len(events.opened) = 0
      BY <2>1, EmptySeq DEF RegisterInd, CutShort, NamesAhead
    <3>4. \A i \in 1 .. Len(events.opened) : FALSE
      BY <3>3
    <3>5. \A s \in Sequences : ~(begin <= s /\ s < begin)
      BY <3>2 DEF Sequences
    <3>6. NamesAhead' /\ Accounted'
      BY <2>1, <3>1, <3>2, <3>3, <3>4, <3>5 DEF NamesAhead, Accounted
    <3>7. CutShort'
      BY <2>1, <3>1, <3>3 DEF CutShort
    <3> QED
      BY <3>6, <3>7 DEF RegisterInd
  <2> QED
    BY <1>2, <2>2, <2>3 DEF StartAttempt
<1> QED
  BY <1>1, <1>2

\* Every step keeps the invariant.
LEMMA FragmentSteps ==
  ASSUME FragmentInd, RegisterInd, [FragmentNext]_fragmentVars
  PROVE  FragmentInd' /\ RegisterInd'
<1>1. CASE UNCHANGED fragmentVars
  BY <1>1 DEF fragmentVars, FragmentInd, FragmentTypes, GivenOut, InOrder, FramesFit, ClipsFit, Measured, RegisterInd,
     NamesAhead, Accounted, CutShort, Writing, Draining
<1>2. CASE FragmentNext
  <2>1. FragmentInd'
    BY <1>2, BackendSteps, RegisterStep, TakingSteps, MeasureStep, FinalizeStep, EndingSteps, DroppingSteps, StartStep,
       FileSteps DEF FragmentNext
  <2>2. RegisterInd'
    BY <1>2, QuietKeeps, OpenKeeps, RegisterKeeps, TakingKeeps, FinalizeKeeps, EndKeeps, DemoteKeeps, NextAttemptKeeps
       DEF FragmentNext
  <2> QED
    BY <2>1, <2>2
<1> QED
  BY <1>1, <1>2

\* A fragment is opened under a sequence that no file bears.
LEMMA OpensFreeName ==
  ASSUME FragmentInd, [FragmentNext]_fragmentVars, source'.next > source.next, source'.open # source.open
  PROVE  files[source.next] = "none"
<1>0. source \in Sources
  BY DEF FragmentInd, FragmentTypes
<1>1. CASE OpenFragment
  <2>1. source.next \in Sequences /\ ~(source.next < source.next)
    BY <1>0, <1>1 DEF OpenFragment, Sources
  <2> QED
    BY <2>1 DEF FragmentInd, GivenOut
<1>2. CASE source' = source
  BY <1>0, <1>2 DEF Sources
<1>3. CASE CloseFragment \/ EncodeFrame \/ DropBackend
  <2>1. source'.next = source.next
    BY <1>0, <1>3 DEF CloseFragment, EncodeFrame, DropBackend, Sources
  <2> QED
    BY <1>0, <2>1 DEF Sources
<1>4. CASE StartAttempt
  BY <1>0, <1>4 DEF StartAttempt, Sources
<1> QED
  BY <1>1, <1>2, <1>3, <1>4 DEF FragmentNext, fragmentVars, RegisterOpened, TakeClosed, ProcessNext, AwaitIdentity,
     MeasureClip, FinalizeClip, EndAttempt, BackendStopped, RollUpCounters, CancelTasks, DemoteUnclosed, ProtectClip,
     DeleteOldest

\* FragmentsSound for every number of fragments, attempts and frames, every order of the closures
\* and every task that fails at any step.
THEOREM FragmentsBecomeClips == FragmentSpec => FragmentsSound
<1>1. FragmentInit => FragmentInd /\ RegisterInd
  <2> SUFFICES ASSUME FragmentInit PROVE FragmentInd /\ RegisterInd
    OBVIOUS
  <2>1. <<>> \in Seq(Sequences) /\ <<>> \in Seq(ClipRecord) /\ Len(<<>>) = 0
    BY EmptySeq
  <2>2. FragmentTypes
    BY <2>1 DEF FragmentInit, FragmentTypes, Sources, Events, Drains, Attempts, Counts, NewDrain
  <2>3. Writing = {} /\ held = {} /\ \A i \in 1 .. Len(events.opened) : FALSE
    BY <2>1 DEF FragmentInit, Writing
  <2>4. RegisterInd
    BY <2>3 DEF FragmentInit, NewDrain, RegisterInd, NamesAhead, Accounted, CutShort, Sequences
  <2> QED
    BY <2>1, <2>2, <2>4 DEF FragmentInit, FragmentInd, GivenOut, InOrder, FramesFit, ClipsFit, Measured,
       Counting, NewDrain
<1>2. FragmentInd => ClipsInOrder
  <2> SUFFICES ASSUME FragmentInd PROVE ClipsInOrder
    OBVIOUS
  <2>0. source \in Sources /\ counted \in Counts /\ drain \in Drains /\ counted.clips \in Seq(ClipRecord)
    BY DEF FragmentInd, FragmentTypes, Counts
  <2>1. counted.inClips <= counted.all
    <3>1. Measured \in Nat
      BY <2>0 DEF Measured, Drains
    <3> QED
      BY <2>0, <3>1 DEF FragmentInd, FramesFit, Sources, Counts
  <2>2. \A i \in DOMAIN counted.clips : i > 1 => i \in 2 .. Len(counted.clips)
    BY <2>0, LenProperties
  <2> QED
    BY <2>1, <2>2 DEF FragmentInd, ClipsFit, ClipsInOrder
<1>3. RegisterInd => WritingSettled
  <2> SUFFICES ASSUME RegisterInd, attempt.at \in {"demoted", "idle"} PROVE Cardinality(Writing) <= 1
    BY DEF RegisterInd, CutShort, WritingSettled
  <2>1. PICK u \in Sequences \cup {0} : Writing \subseteq {u}
    BY DEF RegisterInd, CutShort
  <2>2. IsFiniteSet({u}) /\ Cardinality({u}) = 1
    BY FS_Singleton
  <2>3. Cardinality(Writing) <= Cardinality({u})
    BY <2>1, <2>2, FS_Subset
  <2> QED
    BY <2>2, <2>3
<1>4. FragmentInd /\ RegisterInd /\ [FragmentNext]_fragmentVars =>
        [source'.next > source.next /\ source'.open # source.open => files[source.next] = "none"]_fragmentVars
  BY OpensFreeName
<1> QED
  BY <1>1, <1>2, <1>3, <1>4, FragmentSteps, PTL DEF FragmentSpec, FragmentsSound, NoFileOverwritten
=============================================================================
