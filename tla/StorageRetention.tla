-------------------------- MODULE StorageRetention --------------------------
(***************************************************************************)
(* Loop recording under a full volume: the threshold controller            *)
(* (catalog/policy.py, storage/retention.py), the space monitor with its   *)
(* durable latch (storage/space.py), the reclaimer (storage/reclaimer.py)  *)
(* and the recorder tasks that drive them (recorder/runtime.py): the       *)
(* startup sweeps, the one-second loop, the supervisor that escalates a    *)
(* full volume, and the stop.                                              *)
(*                                                                         *)
(* Space is counted in units.  A clip pair is its size; which pairs        *)
(* retention may take is ClipCatalog's subject, here a pair is eligible    *)
(* (pairs) or not (held).  The monitor works under one lock and touches    *)
(* nothing the writer reads, so an observation is one step.                *)
(***************************************************************************)
EXTENDS Naturals, Sequences, FiniteSets, FiniteSetsExt, SequencesExt

CONSTANTS
    Capacity,        \* units of the volume
    LowPercent,      \* low_watermark_percent
    HighPercent,     \* high_watermark_percent
    MinimumFree,     \* minimum_free_gib, in units
    EmergencyFree,   \* emergency_free_mib, in units
    PairSize,        \* units of a clip closed by rotation
    MaxFailures,     \* maximum_observation_failures
    StartupSteps,    \* max_startup_reclamation_steps
    PassSteps,       \* max_reclamation_steps_per_pass
    MaxAsked,        \* bound: deletions outstanding before one more is asked for
    WritesPerLook    \* bound: units written between two good observations

PercentBytes(percent) == (Capacity * percent + 99) \div 100

StartBelow == Max({PercentBytes(LowPercent), MinimumFree})
StopAt == Max({PercentBytes(HighPercent), MinimumFree})

\* What StorageThresholds and resolve() refuse to be without.
ASSUME StorageAssumption ==
    /\ {Capacity, LowPercent, HighPercent, MinimumFree, EmergencyFree} \subseteq Nat
    /\ {PairSize, MaxFailures, StartupSteps, PassSteps} \subseteq Nat \ {0}
    /\ {MaxAsked, WritesPerLook} \subseteq Nat
    /\ LowPercent < HighPercent /\ HighPercent < 100
    /\ EmergencyFree < MinimumFree
    /\ StartBelow \in Nat /\ StopAt \in Nat
    /\ StartBelow < StopAt
    /\ StopAt < Capacity
    /\ EmergencyFree < StartBelow

VARIABLES
    free,        \* free units
    open,        \* units of the clip being written
    pairs,       \* sizes of the eligible closed pairs, oldest first
    held,        \* units of pairs retention may not take
    pending,     \* the pending DELETE intents: units, and whether retention chose
    target,      \* the one the sweep carries out, 0 if none
    latch,       \* row of retention_threshold_latch
    controller,  \* mode of StorageThresholdController, "NONE" before it exists
    failures,    \* _observation_failures
    fault,       \* _latched_fault
    snap,        \* the snapshot last published
    at,          \* where the task that sweeps is
    stage,       \* which of its sweeps this is
    tries,       \* observations tried in _fresh_storage_observation
    budget,      \* steps left in _run_storage_reclamation
    status,      \* its local status: mode and directive
    short,       \* the preflight found the reserve exhausted
    recording,   \* a media attempt is open
    backend,     \* what its run task reports
    sup,         \* phase of the supervisor
    written      \* units written since the last good observation

volumeVars == <<free, open, pairs, held, pending>>
monitorVars == <<controller, failures, fault, snap>>
taskVars == <<at, stage, tries, budget, status, target>>
runVars == <<short, recording, backend, sup>>
vars == <<volumeVars, latch, monitorVars, taskVars, runVars, written>>

Modes == {"NORMAL", "RECLAIMING", "EMERGENCY"}
Unbound == [mode |-> "NONE", directive |-> FALSE, stale |-> TRUE, stop |-> FALSE,
            sampled |-> FALSE]
Deletions == [size : 1..PairSize, own : BOOLEAN]
NoStatus == [mode |-> "NONE", directive |-> FALSE]

-----------------------------------------------------------------------------
(* The policy *)

\* Mutant of Evaluate: no hysteresis.
EvaluateFlat(mode) ==
    IF free < EmergencyFree THEN "EMERGENCY"
    ELSE IF free < StartBelow THEN "RECLAIMING" ELSE "NORMAL"

\* retention_mode, with was_reclaiming from the mode before.
Evaluate(mode) ==
    IF free < EmergencyFree THEN "EMERGENCY"
    ELSE LET limit == IF mode = "NORMAL" THEN StartBelow ELSE StopAt
         IN IF free < limit THEN "RECLAIMING" ELSE "NORMAL"

\* The controller as the first observation restores it from the latch.
Restored ==
    IF controller # "NONE" THEN controller
    ELSE IF latch = "set" THEN "RECLAIMING" ELSE "NORMAL"

LatchFor(mode) == IF mode = "NORMAL" THEN "clear" ELSE "set"

DirectiveFor(mode) == mode # "NORMAL"

StatusOf(s) == [mode |-> s.mode, directive |-> s.directive]

Faulted(mode, stop) ==
    [mode |-> mode, directive |-> FALSE, stale |-> TRUE, stop |-> stop,
     sampled |-> snap.sampled]

\* _latch_fault, for the life of the process.
LatchFault(f, mode) ==
    /\ fault' = f
    /\ snap' = Faulted(mode, TRUE)

-----------------------------------------------------------------------------
(* The monitor: the outcomes of observe() and of note_no_space_write() *)

\* A latched fault is answered without another look at the volume.
StillFaulted ==
    /\ fault # "none"
    /\ snap' = Faulted(controller, TRUE)
    /\ UNCHANGED <<controller, failures, fault, latch>>

ObservationFails ==
    /\ fault = "none"
    /\ failures' = failures + 1
    /\ snap' = Faulted(controller, failures' >= MaxFailures)
    /\ UNCHANGED <<controller, fault, latch>>

\* Another device or another capacity under the recording root.
Drifts ==
    /\ fault = "none"
    /\ LatchFault("drift", controller)
    /\ UNCHANGED <<controller, failures, latch>>

\* The latch cannot be read, or belongs to another volume.
LatchRefused ==
    /\ fault = "none"
    /\ controller = "NONE"
    /\ failures' = 0
    /\ LatchFault("latch", "NONE")
    /\ UNCHANGED <<controller, latch>>

LatchNotStored ==
    /\ fault = "none"
    /\ Evaluate(Restored) # Restored
    /\ failures' = 0
    /\ controller' = Restored
    /\ LatchFault("latch", Restored)
    /\ UNCHANGED latch

\* Mutants of Sampled: the mode is published and not stored; only an emergency
\* asks for deletion.
SampledUnstored ==
    /\ fault = "none"
    /\ failures' = 0
    /\ controller' = Evaluate(Restored)
    /\ snap' = [mode |-> controller', directive |-> DirectiveFor(controller'),
                stale |-> FALSE, stop |-> FALSE, sampled |-> TRUE]
    /\ UNCHANGED <<fault, latch>>

Sampled ==
    /\ fault = "none"
    /\ failures' = 0
    /\ controller' = Evaluate(Restored)
    /\ latch' = IF controller' = Restored THEN latch ELSE LatchFor(controller')
    /\ snap' = [mode |-> controller', directive |-> DirectiveFor(controller'),
                stale |-> FALSE, stop |-> FALSE, sampled |-> TRUE]
    /\ UNCHANGED fault

\* note_no_space_write; the latch is stored first.
NoSpaceNoted ==
    /\ latch' = "set"
    /\ controller' = "EMERGENCY"
    /\ snap' = [mode |-> "EMERGENCY", directive |-> DirectiveFor("EMERGENCY"),
                stale |-> ~snap.sampled, stop |-> TRUE, sampled |-> snap.sampled]
    /\ UNCHANGED <<failures, fault>>

NoSpaceNotStored ==
    /\ LatchFault("latch", controller)
    /\ UNCHANGED <<controller, failures, latch>>

-----------------------------------------------------------------------------
(* Start of the process, and its end *)

Init ==
    /\ free = Capacity
    /\ open = 0
    /\ pairs = <<>>
    /\ held = 0
    /\ pending = <<>>
    /\ target = 0
    /\ latch = "absent"
    /\ controller = "NONE"
    /\ failures = 0
    /\ fault = "none"
    /\ snap = Unbound
    /\ at = "off"
    /\ stage = "first"
    /\ tries = 0
    /\ budget = 0
    /\ status = NoStatus
    /\ short = FALSE
    /\ recording = FALSE
    /\ backend = "ok"
    /\ sup = "watch"
    /\ written = 0

\* The preflight admits a volume that lacks nothing but its reserve.
Boot ==
    /\ at = "off"
    /\ at' = "probe"
    /\ stage' = "first"
    /\ short' = (free <= MinimumFree)
    /\ UNCHANGED <<volumeVars, latch, monitorVars, tries, budget, status, target, recording,
                   backend, sup, written>>

\* What only the process knew is lost with it.
ProcessGone ==
    /\ at' = "off"
    /\ controller' = "NONE"
    /\ failures' = 0
    /\ fault' = "none"
    /\ snap' = Unbound
    /\ stage' = "first"
    /\ tries' = 0
    /\ budget' = 0
    /\ status' = NoStatus
    /\ target' = 0
    /\ short' = FALSE
    /\ recording' = FALSE
    /\ backend' = "ok"
    /\ sup' = "watch"
    /\ written' = 0

\* A power loss or a kill: the clip being written stays as an orphan.
Crash ==
    /\ at # "off"
    /\ ProcessGone
    /\ open' = 0
    /\ held' = held + open
    /\ UNCHANGED <<free, pairs, pending, latch>>

-----------------------------------------------------------------------------
(* The task that sweeps: startup first, then the loop *)

Looking == at \in {"probe", "observe"}

\* _fresh_storage_observation: look again while the answer is only stale.
AfterLook ==
    /\ Looking
    /\ \/ /\ ~snap'.stop /\ ~snap'.stale
          /\ written' = 0
          /\ tries' = 0
          /\ at' = IF at = "probe" THEN "enter" ELSE "sweep"
          /\ status' = IF at = "probe" THEN status ELSE StatusOf(snap')
       \/ /\ snap'.stop \/ (snap'.stale /\ tries + 1 >= MaxFailures)
          /\ tries' = 0
          /\ at' = "failed"
          /\ UNCHANGED <<status, written>>
       \/ /\ snap'.stale /\ ~snap'.stop /\ tries + 1 < MaxFailures
          /\ tries' = tries + 1
          /\ UNCHANGED <<at, status, written>>
    /\ UNCHANGED <<volumeVars, stage, budget, target, runVars>>

LookStillFaulted == StillFaulted /\ AfterLook
LookFails == ObservationFails /\ AfterLook
LookDrifts == Drifts /\ AfterLook
LookLatchRefused == LatchRefused /\ AfterLook
LookLatchNotStored == LatchNotStored /\ AfterLook
LookSampled == Sampled /\ AfterLook

\* _run_storage_reclamation begins with whatever snapshot is published now.
EnterSweep ==
    /\ at = "enter"
    /\ at' = "sweep"
    /\ status' = StatusOf(snap)
    /\ budget' = CASE stage = "first" -> StartupSteps
                   [] stage = "second" -> budget
                   [] OTHER -> PassSteps
    /\ UNCHANGED <<volumeVars, latch, monitorVars, stage, tries, target, runVars, written>>

\* run_one: a deletion committed earlier comes first.  The list is in the order
\* of a clock read before each commit and restarted by each boot, which is any.
Replay ==
    /\ at = "sweep" /\ budget > 0
    /\ target' \in 1..Len(pending)
    /\ at' = "unlink"
    /\ UNCHANGED <<volumeVars, latch, monitorVars, stage, tries, budget, status, runVars,
                   written>>

\* run_one found no committed deletion and may make one.  A client commits its
\* own without the lock of run_one, so this may be out of date at once.
Scan ==
    /\ at = "sweep" /\ budget > 0
    /\ pending = <<>>
    /\ status.directive
    /\ at' = "scanned"
    /\ UNCHANGED <<volumeVars, latch, monitorVars, stage, tries, budget, status, target,
                   runVars, written>>

\* prepare_oldest_eligible_delete commits.
Reserve ==
    /\ at = "scanned"
    /\ pairs # <<>>
    /\ pending' = Append(pending, [size |-> Head(pairs), own |-> TRUE])
    /\ pairs' = Tail(pairs)
    /\ target' = Len(pending')
    /\ at' = "unlink"
    /\ UNCHANGED <<free, open, held, latch, monitorVars, stage, tries, budget, status,
                   runVars, written>>

Unlinked ==
    /\ at = "unlink"
    /\ free' = free + pending[target].size
    /\ pending' = RemoveAt(pending, target)
    /\ target' = 0
    /\ budget' = budget - 1
    /\ UNCHANGED <<open, pairs, held, latch, monitorVars, stage, tries, status,
                   runVars, written>>

\* Mutant of Unlink: no new look at the volume after a deletion.
UnlinkBlind == Unlinked /\ at' \in {"sweep", "failed"}

\* Both members are gone and the intent is complete, which is done even where the
\* worker was late and its task fails.
Unlink == Unlinked /\ at' \in {"observe", "failed"}

\* The durable worker raises: at its deadline, on an ambiguous pair, on SQLite.
ReclamationFails ==
    /\ at \in {"sweep", "scanned", "unlink"} /\ budget > 0
    /\ at' = "failed"
    /\ target' = 0
    /\ UNCHANGED <<volumeVars, latch, monitorVars, stage, tries, budget, status, runVars,
                   written>>

NothingEligible ==
    \/ at = "sweep" /\ budget > 0 /\ pending = <<>> /\ ~status.directive
    \/ at = "scanned" /\ pairs = <<>>

EmergencyDry ==
    /\ NothingEligible
    /\ status.mode = "EMERGENCY"
    /\ at' = "failed"
    /\ UNCHANGED <<volumeVars, latch, monitorVars, stage, tries, budget, status, target,
                   runVars, written>>

SweepOver ==
    \/ at = "sweep" /\ budget = 0
    \/ NothingEligible /\ status.mode # "EMERGENCY"

\* Startup refuses to go on with a committed deletion left.
EndStartupSweep ==
    /\ stage \in {"first", "second"}
    /\ SweepOver
    /\ at' = IF pending # <<>> THEN "failed"
             ELSE IF stage = "first" /\ budget > 0 THEN "enter"
             ELSE "start"
    /\ stage' = IF stage = "first" THEN "second" ELSE stage
    /\ UNCHANGED <<volumeVars, latch, monitorVars, tries, budget, status, target, runVars,
                   written>>

\* After a start without reserve: back at the high threshold, and a new preflight.
MayStart == short => status.mode = "NORMAL" /\ free > MinimumFree

StartRecording ==
    /\ at = "start"
    /\ MayStart
    /\ recording' = TRUE
    /\ stage' = "loop"
    /\ at' = "wait"
    /\ UNCHANGED <<volumeVars, latch, monitorVars, tries, budget, status, target, short,
                   backend, sup, written>>

RefuseStart ==
    /\ at = "start"
    /\ ~MayStart
    /\ at' = "failed"
    /\ UNCHANGED <<volumeVars, latch, monitorVars, stage, tries, budget, status, target,
                   runVars, written>>

EndLoopSweep ==
    /\ stage = "loop"
    /\ SweepOver
    /\ at' = "wait"
    /\ UNCHANGED <<volumeVars, latch, monitorVars, stage, tries, budget, status, target,
                   runVars, written>>

Tick ==
    /\ at = "wait"
    /\ sup # "halting"
    /\ at' = "probe"
    /\ UNCHANGED <<volumeVars, latch, monitorVars, stage, tries, budget, status, target,
                   runVars, written>>

\* Mutant of LoopStops: the stop event is set once the attempt is closed.
LoopStopsLast ==
    /\ at = "wait"
    /\ sup = "halting"
    /\ ~recording
    /\ at' = "ended"
    /\ UNCHANGED <<volumeVars, latch, monitorVars, stage, tries, budget, status, target,
                   runVars, written>>

\* The loop looks at its stop event only here.
LoopStops ==
    /\ at = "wait"
    /\ sup = "halting"
    /\ at' = "ended"
    /\ UNCHANGED <<volumeVars, latch, monitorVars, stage, tries, budget, status, target,
                   runVars, written>>

-----------------------------------------------------------------------------
(* The recorder, its supervisor and the control clients *)

Write ==
    /\ recording /\ backend = "ok"
    /\ free > 0
    /\ written < WritesPerLook
    /\ open < PairSize
    /\ free' = free - 1
    /\ open' = open + 1
    /\ written' = written + 1
    /\ UNCHANGED <<pairs, held, pending, latch, monitorVars, taskVars, runVars>>

WriteFindsNoSpace ==
    /\ recording /\ backend = "ok"
    /\ free = 0
    /\ open < PairSize
    /\ backend' = "enospc"
    /\ UNCHANGED <<volumeVars, latch, monitorVars, taskVars, short, recording, sup, written>>

\* splitmuxsink closes the clip and the finalizer makes it a pair.
Rotate ==
    /\ recording
    /\ open = PairSize
    /\ open' = 0
    /\ pairs' = Append(pairs, open)
    /\ UNCHANGED <<free, held, pending, latch, monitorVars, taskVars, runVars, written>>

\* _supervise_attempt: a failed storage task goes before a failed backend.
BackendEnds ==
    /\ sup = "watch"
    /\ recording
    /\ backend = "enospc"
    /\ at # "failed"
    /\ sup' = "escalate"
    /\ UNCHANGED <<volumeVars, latch, monitorVars, taskVars, short, recording, backend,
                   written>>

Escalated ==
    /\ sup = "escalate"
    /\ sup' = "halting"
    /\ backend' = "noted"
    /\ UNCHANGED <<volumeVars, taskVars, short, recording, written>>

Escalate == NoSpaceNoted /\ Escalated
EscalateNotStored == NoSpaceNotStored /\ Escalated

SafetyStop ==
    /\ sup = "watch"
    /\ recording
    /\ at = "failed"
    /\ sup' = "halting"
    /\ UNCHANGED <<volumeVars, latch, monitorVars, taskVars, short, recording, backend,
                   written>>

\* The service manager, or any other end of the recording.
AskedToStop ==
    /\ sup = "watch"
    /\ recording
    /\ sup' = "halting"
    /\ UNCHANGED <<volumeVars, latch, monitorVars, taskVars, short, recording, backend,
                   written>>

\* stop(): the storage task is joined before the media attempt is closed.
StopRecorder ==
    /\ sup = "halting"
    /\ at \in {"failed", "ended"}
    /\ ProcessGone
    /\ open' = 0
    /\ \/ /\ pairs' = IF open = 0 THEN pairs ELSE Append(pairs, open)
          /\ held' = held
       \/ /\ backend # "ok"
          /\ held' = held + open
          /\ pairs' = pairs
    /\ UNCHANGED <<free, pending, latch>>

StartupFailed ==
    /\ at = "failed"
    /\ ~recording
    /\ ProcessGone
    /\ UNCHANGED <<volumeVars, latch>>

\* A protection, a lease or another intent takes a pair from retention ...
Hold ==
    /\ recording
    /\ \E i \in 1..Len(pairs) :
          /\ pairs' = RemoveAt(pairs, i)
          /\ held' = held + pairs[i]
    /\ UNCHANGED <<free, open, pending, latch, monitorVars, taskVars, runVars, written>>

\* ... and its end gives one back.
Unhold ==
    /\ recording
    /\ held >= PairSize
    /\ held' = held - PairSize
    /\ pairs' = <<PairSize>> \o pairs
    /\ UNCHANGED <<free, open, pending, latch, monitorVars, taskVars, runVars, written>>

\* prepare_delete for a client: a transaction of its own, whatever a sweep does.  The
\* recorder refuses to execute it (_RECOVERY_INTENT_KINDS) and a sweep replays it.
AskDelete ==
    /\ recording
    /\ Len(pending) < MaxAsked
    /\ \E i \in 1..Len(pairs) :
          /\ pairs' = RemoveAt(pairs, i)
          /\ pending' = Append(pending, [size |-> pairs[i], own |-> FALSE])
    /\ UNCHANGED <<free, open, held, latch, monitorVars, taskVars, runVars, written>>

-----------------------------------------------------------------------------
Monitoring == LookStillFaulted \/ LookFails \/ LookDrifts \/ LookLatchRefused
              \/ LookLatchNotStored \/ LookSampled
Sweeping == EnterSweep \/ Replay \/ Scan \/ Reserve \/ Unlink \/ ReclamationFails
            \/ EmergencyDry \/ EndStartupSweep \/ StartRecording \/ RefuseStart \/ EndLoopSweep
            \/ Tick \/ LoopStops
Recording == Write \/ WriteFindsNoSpace \/ Rotate
Supervising == SafetyStop \/ BackendEnds \/ Escalate \/ EscalateNotStored
               \/ StopRecorder \/ StartupFailed
Clients == AskedToStop \/ Hold \/ Unhold \/ AskDelete

Next == Boot \/ Crash \/ Monitoring \/ Sweeping \/ Recording \/ Supervising \/ Clients

Spec == Init /\ [][Next]_vars

\* The task that sweeps and the supervisor are coroutines of a running loop and
\* their threads end; nothing makes the camera, a client or the power fair.
LiveSpec ==
    /\ Spec
    /\ WF_vars(Monitoring \/ Sweeping)
    /\ WF_vars(Supervising)

-----------------------------------------------------------------------------
(* Properties *)

\* Every variable keeps its range; more failed looks than the limit and a
\* deletion past the budget of its sweep are outside it.
TypeOK ==
    /\ free \in Nat /\ held \in Nat
    /\ open \in 0..PairSize /\ written \in 0..WritesPerLook
    /\ pairs \in Seq(1..PairSize) /\ pending \in Seq(Deletions)
    /\ target \in Nat
    /\ latch \in {"absent", "clear", "set"}
    /\ controller \in Modes \union {"NONE"}
    /\ failures \in 0..MaxFailures
    /\ fault \in {"none", "drift", "latch"}
    /\ snap \in [mode : Modes \union {"NONE"}, directive : BOOLEAN, stale : BOOLEAN,
                 stop : BOOLEAN, sampled : BOOLEAN]
    /\ at \in {"off", "probe", "enter", "sweep", "scanned", "unlink", "observe", "start",
              "wait", "failed", "ended"}
    /\ stage \in {"first", "second", "loop"}
    /\ tries \in 0..(MaxFailures - 1)
    /\ budget \in Nat
    /\ status \in [mode : Modes \union {"NONE"}, directive : BOOLEAN]
    /\ short \in BOOLEAN /\ recording \in BOOLEAN
    /\ backend \in {"ok", "enospc", "noted"}
    /\ sup \in {"watch", "escalate", "halting"}

\* "Persist transitions before exposing a mode or reclamation directive": the
\* mode in memory, the directive published and the directive a sweep acts on
\* are never ahead of the durable latch, nor the latch ahead of the mode.
ModeDurable ==
    /\ controller # "NONE" => ((latch = "set") <=> (controller # "NORMAL"))
    /\ snap.directive => latch = "set"
    /\ at \in {"sweep", "scanned"} /\ status.directive => latch = "set"

\* The volume is short as far as the sweep knows, or was found full.
Short == free < StopAt \/ backend = "noted"

\* Deletions that retention chose and nobody has finished.
Owned == {i \in 1..Len(pending) : pending[i].own}

\* What the sweep knows at each of its places: between a good look and the next
\* unlink its directive stays true of the volume, no look has failed since, and
\* before the camera opens nothing but the sweep has touched monitor or queue.
SweepInv ==
    /\ at = "off" => ~recording /\ failures = 0
    /\ recording => stage = "loop"
    /\ sup # "watch" => recording
    /\ sup = "escalate" => backend = "enospc"
    /\ at \in {"probe", "observe"} => failures <= tries
    /\ at \in {"enter", "sweep", "scanned", "unlink", "start", "wait"} => failures = 0
    /\ at \in {"enter", "sweep", "scanned", "start"} => fault # "drift"
    /\ at \in {"enter", "sweep"} /\ snap.directive => Short
    /\ at = "sweep" /\ status.directive => Short
    /\ at = "scanned" => status.directive /\ Short /\ Owned = {}
    /\ at \in {"scanned", "unlink"} => budget > 0
    /\ at = "unlink" => target \in 1..Len(pending)
    /\ at = "start" => pending = <<>> /\ stage = "second"
    /\ stage # "loop" /\ at \in {"enter", "sweep", "scanned", "start"} =>
          fault = "none" /\ controller # "NONE" /\ snap.mode = controller
    /\ stage # "loop" /\ at \in {"sweep", "scanned", "start"} => status.mode = controller

NewDeletion == Len(pending') > Len(pending) /\ at' # at

\* A sweep commits a deletion only while the volume really is below the high
\* threshold, so each follows a look at the volume newer than the last unlink.
\* (A full volume noted meanwhile may add one pair: the snapshot is read once
\* more on entry.)
ReserveOnlyShort == [][NewDeletion => Short]_vars

\* A sweep commits no deletion while observations fail or after the volume
\* under the recording root turned out to be another one.
FailClosed == [][NewDeletion => failures = 0 /\ fault # "drift"]_vars

\* The camera opens only with every committed deletion finished, a working
\* monitor and, if the reserve was exhausted, reclamation over.
StartsRecovered ==
    [][~recording /\ recording' =>
          /\ pending = <<>>
          /\ fault = "none" /\ controller # "NONE"
          /\ short => controller = "NORMAL"]_vars

\* What the storage task relies on at each of its awaits (StorageSpaceMonitor,
\* _storage_loop): inductive.
StorageInv == TypeOK /\ ModeDurable /\ SweepInv

\* What must be so when a deletion is committed and when the camera opens.
StorageSteps == ReserveOnlyShort /\ FailClosed /\ StartsRecovered

Policy == INSTANCE RetentionPolicy WITH
    Low <- StartBelow, High <- StopAt, Sizes <- 1..PairSize,
    room <- free, full <- backend = "enospc", latched <- latch = "set", doomed <- pending

\* Across crashes and restarts, deletion keeps its hysteresis: the durable latch
\* and the pending intents implement RetentionPolicy.
KeepsPolicy == Policy!Spec

\* A full volume or a storage fault ends the recording, whatever the sweep is
\* doing: the supervisor and the storage task never wait for each other.
FaultStopsRecorder ==
    recording /\ (at = "failed" \/ backend = "enospc") ~> ~recording

\* Reclamation ends: the volume is relieved, the recording stops, or there is
\* nothing left to delete, or not for the sweep because a client asked to delete
\* the last pair under its eyes, and the emergency threshold is kept.
ReliefOrStop ==
    recording /\ latch = "set" ~>
        \/ latch # "set"
        \/ ~recording
        \/ /\ pairs = <<>> /\ controller = "RECLAIMING"
           /\ pending = <<>> \/ at = "scanned"

\* Neither a fault nor a shortage of space leaves the recorder where it was, the
\* latter as long as the recorder writes less between two looks than a sweep of
\* small pairs can free (max_reclamation_steps_per_pass).
StorageProgress == FaultStopsRecorder /\ ([](written <= 1) => ReliefOrStop)
=============================================================================
