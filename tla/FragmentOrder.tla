--------------------------- MODULE FragmentOrder ---------------------------
(***************************************************************************)
(* From the fragments of the recording branch to clips of the catalog      *)
(* (recorder/runtime.py): sequences are allocated, opened fragments are    *)
(* registered by one task, closed ones arrive in any order and are         *)
(* finalized in the order of their sequences by another, frame counters    *)
(* are taken clip by clip and attempt by attempt, and what an attempt left *)
(* unclosed is demoted before the next one.  The backend is external: it   *)
(* opens fragments in order, closes them in any order and counts frames.   *)
(***************************************************************************)
EXTENDS Naturals, Sequences, FiniteSetsExt

CONSTANTS MaxReordered,                           \* _MAX_REORDERED_CLOSURES
          MaxSequence, MaxAttempts, MaxEncoded    \* bounds

ASSUME FragmentConstants ==
  /\ MaxReordered \in Nat \ {0} /\ MaxSequence \in Nat
  /\ MaxAttempts \in Nat /\ MaxEncoded \in Nat

VARIABLES
  source,    \* the backend: the next sequence, the open fragments, its frames
  events,    \* the queues of opened and of closed fragments
  files,     \* the directory that holds each fragment's file
  rows,      \* the catalog row of each sequence
  held,      \* the identities the runtime holds (_opened_clip_identities)
  drain,     \* the finalizing task
  attempt,   \* the attempt and its end; opens: the registering task runs
  counted    \* completed attempts' frames, the baseline, all frames and those in clips

fragmentVars == <<source, events, files, rows, held, drain, attempt, counted>>

Sequences == 1..MaxSequence

Writing == {s \in Sequences : rows[s] = "writing"}

NewDrain(first) == [expected |-> first, buffer |-> {}, doing |-> 0, step |-> "idle",
                    woken |-> FALSE, error |-> FALSE, frames |-> 0]

FragmentInit ==
  /\ source = [next |-> 1, open |-> {}, frames |-> 0]
  /\ events = [opened |-> <<>>, closed |-> <<>>]
  /\ files = [s \in Sequences |-> "none"] /\ rows = [s \in Sequences |-> "none"]
  /\ held = {} /\ drain = NewDrain(1)
  /\ attempt = [at |-> "recording", count |-> 1, floor |-> 2, clean |-> TRUE, opens |-> TRUE]
  /\ counted = [completed |-> 0, baseline |-> 0, all |-> 0, inClips |-> 0, clips |-> <<>>]

(***************************************************************************)
(* The backend.                                                            *)
(***************************************************************************)

Live == attempt.at = "recording"

\* At a handoff the old fragment is still open when the new one opens.
OpenFragment ==
  /\ Live /\ source.next \in Sequences /\ Cardinality(source.open) < 2
  /\ source' = [source EXCEPT !.next = @ + 1, !.open = @ \cup {source.next}]
  /\ events' = [events EXCEPT !.opened = Append(@, source.next)]
  /\ files' = [files EXCEPT ![source.next] = "pending"]
  /\ UNCHANGED <<rows, held, drain, attempt, counted>>

CloseFragment ==
  /\ Live \/ attempt.at = "closing"
  /\ \E s \in source.open :
       /\ source' = [source EXCEPT !.open = @ \ {s}]
       /\ events' = [events EXCEPT !.closed = Append(@, s)]
  /\ UNCHANGED <<files, rows, held, drain, attempt, counted>>

EncodeFrame ==
  /\ Live /\ source.open # {} /\ counted.all < MaxEncoded
  /\ source' = [source EXCEPT !.frames = @ + 1] /\ counted' = [counted EXCEPT !.all = @ + 1]
  /\ UNCHANGED <<events, files, rows, held, drain, attempt>>

(***************************************************************************)
(* The two draining tasks.                                                 *)
(***************************************************************************)

\* The tasks run until they are cancelled.
Draining == attempt.at \in {"recording", "closing", "waiting", "rolled"}

\* A draining task that fails ends the attempt.
Failing == [attempt EXCEPT !.at = IF @ = "recording" THEN "closing" ELSE @, !.clean = FALSE]

\* The registering task fails for good; only the supervisor of a running attempt sees it.
OpenerFails == [attempt EXCEPT !.opens = FALSE,
                               !.at = IF Live THEN "closing" ELSE @, !.clean = @ /\ ~Live]

\* _register_opened_fragment: bounded, at most once per sequence, durable.  The worker may
\* have committed the row when its deadline or its fault is raised, and the identity is not held.
RegisterOpened ==
  /\ Draining /\ attempt.opens /\ events.opened # <<>>
  /\ LET s == Head(events.opened) IN
     /\ events' = [events EXCEPT !.opened = Tail(@)]
     /\ \/ /\ Cardinality(held) < MaxReordered + 1 /\ s \notin held
           /\ rows' = [rows EXCEPT ![s] = "writing"] /\ held' = held \cup {s}
           /\ drain' = [drain EXCEPT !.woken = TRUE] /\ UNCHANGED attempt
        \/ /\ Cardinality(held) < MaxReordered + 1 /\ s \notin held
           /\ rows' = [rows EXCEPT ![s] = "writing"]
           /\ attempt' = OpenerFails /\ UNCHANGED <<held, drain>>
        \/ attempt' = OpenerFails /\ UNCHANGED <<rows, held, drain>>
  /\ UNCHANGED <<source, files, counted>>

DrainFails == drain' = [drain EXCEPT !.error = TRUE, !.step = "idle", !.doing = 0]

\* A closure is buffered unless it is stale, a duplicate, or one too many.
TakeClosed ==
  /\ Draining /\ ~drain.error /\ drain.doing = 0 /\ drain.expected \notin drain.buffer
  /\ events.closed # <<>>
  /\ LET s == Head(events.closed) IN
     /\ events' = [events EXCEPT !.closed = Tail(@)]
     /\ IF s < drain.expected \/ s \in drain.buffer \/ Cardinality(drain.buffer) >= MaxReordered
        THEN DrainFails /\ attempt' = Failing
        ELSE drain' = [drain EXCEPT !.buffer = @ \cup {s}] /\ UNCHANGED attempt
  /\ UNCHANGED <<source, files, rows, held, counted>>

\* The next in order leaves the buffer before it is processed.
NextInOrder == drain.expected

ProcessNext ==
  /\ Draining /\ ~drain.error /\ drain.doing = 0 /\ NextInOrder \in drain.buffer
  /\ drain' = [drain EXCEPT !.buffer = @ \ {NextInOrder}, !.doing = NextInOrder,
                 !.step = IF NextInOrder \in held THEN "measure" ELSE "identity", !.woken = FALSE]
  /\ UNCHANGED <<source, events, files, rows, held, attempt, counted>>

\* _await_opened_identity: one registration, or the deadline, decides.
AwaitIdentity ==
  /\ Draining /\ drain.step = "identity"
  /\ \/ drain.woken /\ drain.doing \in held /\ drain' = [drain EXCEPT !.step = "measure"] /\ UNCHANGED attempt
     \/ (drain.woken => drain.doing \notin held) /\ DrainFails /\ attempt' = Failing
  /\ UNCHANGED <<source, events, files, rows, held, counted>>

\* The clip's frames are those since the clip finalized before it.
MeasureClip ==
  /\ Draining /\ drain.step = "measure"
  /\ drain' = [drain EXCEPT !.step = "finalize", !.frames = source.frames - counted.baseline]
  /\ counted' = [counted EXCEPT !.baseline = source.frames]
  /\ UNCHANGED <<source, events, files, rows, held, attempt>>

\* finalizer.finalize moves the pair and settles the row; the identity is dropped, unless the
\* worker was late: then its work stands and the task fails.
FinalizeClip ==
  /\ Draining /\ drain.step = "finalize"
  /\ LET s == drain.doing IN
     \/ /\ files' = [files EXCEPT ![s] = "clips"] /\ rows' = [rows EXCEPT ![s] = "final"]
        /\ held' = held \ {s}
        /\ counted' = [counted EXCEPT !.clips = Append(@, [try |-> attempt.count, seq |-> s]),
                                       !.inClips = @ + drain.frames]
        /\ drain' = [drain EXCEPT !.doing = 0, !.step = "idle", !.expected = s + 1]
        /\ UNCHANGED attempt
     \/ /\ files' = [files EXCEPT ![s] = "clips"] /\ rows' = [rows EXCEPT ![s] = "final"]
        /\ DrainFails /\ attempt' = Failing /\ UNCHANGED <<held, counted>>
     \/ DrainFails /\ attempt' = Failing /\ UNCHANGED <<files, rows, held, counted>>
  /\ UNCHANGED <<source, events>>

(***************************************************************************)
(* The end of an attempt (_stop_once) and the next one.                    *)
(***************************************************************************)

\* The supervisor ends the attempt: a stop, a fault of the pipeline, a failed task.
EndAttempt ==
  /\ Live /\ attempt' = [attempt EXCEPT !.at = "closing"]
  /\ UNCHANGED <<source, events, files, rows, held, drain, counted>>

\* backend.stop closes what is open, or fails and leaves it.
BackendStopped ==
  /\ attempt.at = "closing"
  /\ \/ source.open = {} /\ attempt' = [attempt EXCEPT !.at = "waiting"]
     \/ source.open # {} /\ attempt' = [attempt EXCEPT !.at = "waiting", !.clean = FALSE]
  /\ UNCHANGED <<source, events, files, rows, held, drain, counted>>

\* Every closure processed and no gap, or the error that says so; then the counters
\* of the attempt are added to the completed ones.
RollUpCounters ==
  /\ attempt.at = "waiting"
  /\ LET processed == events.closed = <<>> /\ drain.doing = 0 /\ drain.expected \notin drain.buffer
     IN attempt' = [attempt EXCEPT !.at = "rolled",
                                   !.clean = @ /\ processed /\ drain.buffer = {} /\ ~drain.error]
  /\ counted' = [counted EXCEPT !.completed = @ + source.frames]
  /\ UNCHANGED <<source, events, files, rows, held, drain>>

\* The tasks are cancelled.  The durable worker one of them waits for is joined, its answer
\* unused: a clip may be final, or a row written, that the runtime does not know of.
CancelTasks ==
  /\ attempt.at = "rolled" /\ attempt' = [attempt EXCEPT !.at = "cancelled"]
  /\ \/ UNCHANGED <<events, files, rows>>
     \/ /\ drain.step = "finalize" /\ UNCHANGED events
        /\ files' = [files EXCEPT ![drain.doing] = "clips"]
        /\ rows' = [rows EXCEPT ![drain.doing] = "final"]
     \/ /\ attempt.opens /\ events.opened # <<>> /\ UNCHANGED files
        /\ Cardinality(held) < MaxReordered + 1 /\ Head(events.opened) \notin held
        /\ events' = [events EXCEPT !.opened = Tail(@)]
        /\ rows' = [rows EXCEPT ![Head(events.opened)] = "writing"]
  /\ drain' = [drain EXCEPT !.doing = 0, !.step = "idle"]
  /\ UNCHANGED <<source, held, counted>>

\* _demote_unclosed_active_clips: the oldest rows one by one, as many as identities are held.
DemoteUnclosed ==
  /\ attempt.at = "cancelled"
  /\ \E done \in SUBSET Writing :
       /\ \A s \in done, t \in Writing \ done : s < t
       /\ Cardinality(done) <= Cardinality(held)
       /\ rows' = [s \in Sequences |-> IF s \in done THEN "orphan" ELSE rows[s]]
       /\ \/ /\ done = Writing \/ Cardinality(done) = Cardinality(held)
             /\ held' = {} /\ attempt' = [attempt EXCEPT !.at = "demoted"]
          \/ /\ held # {} /\ UNCHANGED held
             /\ attempt' = [attempt EXCEPT !.at = "fatal"]
  /\ UNCHANGED <<source, events, files, drain, counted>>

\* The backend is dropped, and its counters with it.
DropBackend ==
  /\ attempt.at = "demoted"
  /\ attempt' = [attempt EXCEPT !.at = IF attempt.clean THEN "idle" ELSE "fatal"]
  /\ source' = [source EXCEPT !.open = {}, !.frames = 0]
  /\ events' = [opened |-> <<>>, closed |-> <<>>]
  /\ counted' = [counted EXCEPT !.baseline = 0]
  /\ UNCHANGED <<files, rows, held, drain>>

\* The same with pending/ alone looked at.
NextInPending == Max({0} \cup {s \in Sequences : files[s] = "pending"}) + 1

\* next_pending_sequence: above every name of this boot in the three directories.
NextPendingSequence == Max({0} \cup {s \in Sequences : files[s] # "none"}) + 1

\* _allocate_output and the state of a new attempt.
StartAttempt ==
  /\ attempt.at = "idle" /\ attempt.count < MaxAttempts
  /\ LET first == Max({NextPendingSequence, attempt.floor}) IN
     IF drain.buffer # {} THEN attempt' = [attempt EXCEPT !.at = "fatal"] /\ UNCHANGED <<source, drain>>
     ELSE /\ source' = [source EXCEPT !.next = first]
          /\ drain' = NewDrain(first)
          /\ attempt' = [at |-> "recording", count |-> attempt.count + 1, floor |-> first + 1, clean |-> TRUE,
                         opens |-> TRUE]
  /\ UNCHANGED <<events, files, rows, held, counted>>

(***************************************************************************)
(* What happens to finished clips meanwhile.                               *)
(***************************************************************************)

ProtectClip ==
  /\ \E s \in Sequences : files[s] = "clips" /\ files' = [files EXCEPT ![s] = "protected"]
  /\ UNCHANGED <<source, events, rows, held, drain, attempt, counted>>

\* Retention deletes the oldest finalized clip that is not protected.
DeleteOldest ==
  /\ LET clips == {s \in Sequences : files[s] = "clips"} IN
     clips # {} /\ files' = [files EXCEPT ![Min(clips)] = "none"]
  /\ UNCHANGED <<source, events, rows, held, drain, attempt, counted>>

FragmentNext ==
  \/ OpenFragment \/ CloseFragment \/ EncodeFrame \/ RegisterOpened \/ TakeClosed \/ ProcessNext
  \/ AwaitIdentity \/ MeasureClip \/ FinalizeClip \/ EndAttempt \/ BackendStopped \/ RollUpCounters
  \/ CancelTasks \/ DemoteUnclosed \/ DropBackend \/ StartAttempt \/ ProtectClip \/ DeleteOldest

FragmentSpec == FragmentInit /\ [][FragmentNext]_fragmentVars

(***************************************************************************)
(* Properties.                                                             *)
(***************************************************************************)

\* Within an attempt clips become durable in the order of their sequences and without a
\* gap, however their closures were reordered, and every encoded frame is counted for
\* at most one clip.
ClipsInOrder ==
  /\ \A i \in DOMAIN counted.clips : LET c == counted.clips[i] IN
       i > 1 /\ counted.clips[i - 1].try = c.try => c.seq = counted.clips[i - 1].seq + 1
  /\ counted.inClips <= counted.all

\* The recorder never opens a fragment over a file that exists, not after a restart
\* and not when clips were protected or deleted meanwhile.
NoFileOverwritten ==
  [][source'.next > source.next /\ source'.open # source.open => files[source.next] = "none"]_fragmentVars

\* When an attempt is over the runtime holds no identity, and at most one row still claims to
\* be written, whichever task failed at whichever step: the registration that was cut short,
\* which the next start demotes.  None is left when the attempt ended cleanly, so none when
\* another attempt begins.
WritingSettled ==
  attempt.at \in {"demoted", "idle"} =>
    /\ held = {} /\ Cardinality(Writing) <= 1
    /\ attempt.clean => Writing = {}
    /\ attempt.at = "idle" => attempt.clean

\* Fragments become clips in order, an attempt settles what it registered and no fragment
\* overwrites another (_drain_opened, _drain_finalized,
\* _demote_unclosed_active_clips, next_pending_sequence).
FragmentsSound == []ClipsInOrder /\ []WritingSettled /\ NoFileOverwritten
=============================================================================
