---------------------------- MODULE MediaSession ----------------------------
(***************************************************************************)
(* GStreamerRecorderRuntime as the owner of the camera: the coroutine that *)
(* opens a media session and replaces it after a recoverable failure       *)
(* (start, run, _supervise_attempt, _recover, _start_attempt), the task    *)
(* that takes a session down (_stop_once, shared by everyone who cleans    *)
(* up) and stop().  They interleave at their awaits; between two awaits a  *)
(* coroutine is not interrupted.  What start() does to the catalog and the *)
(* volume before it opens the camera is in StorageRetention.               *)
(***************************************************************************)
EXTENDS Naturals, Sequences

CONSTANTS
    MaxRestarts  \* RestartPolicy.max_restarts

ASSUME SessionAssumption == MaxRestarts \in Nat

VARIABLES
    stopReq,   \* the daemon's _stop_requested
    at,        \* await point of start() or run(): one coroutine after the other
    recovery,  \* the attempt belongs to _recover, not to start()
    error,     \* what the attempt or the coroutine failed with
    restarts,  \* _consecutive_restarts
    audio,     \* an audio plan is bound
    held,      \* _backend is set
    owned,     \* CameraOwnership is claimed
    pipeline,  \* the GStreamer pipeline of the newest backend
    task,      \* _backend_run_task
    bstop,     \* _backend_stop
    clip,      \* _opened_clip_identities is not empty
    closed,    \* a closed fragment waits for the drain task
    drain,     \* _fragment_drain_task
    stopper,   \* _stop_task and what it captured and met
    halting,   \* await point of stop()
    storage,   \* _storage_space_task
    events     \* lifecycle events the daemon has not processed

backendVars == <<held, owned, pipeline, task, bstop>>
clipVars == <<clip, closed, drain>>
runVars == <<at, recovery, error, restarts, audio>>
sessionVars == <<stopReq, runVars, backendVars, clipVars, stopper, halting, storage, events>>

Points == {"none", "prepare", "allocate", "starting", "opening", "registering",
           "aborting", "aborted", "started", "supervising", "cleaning",
           "cleaned", "backoff", "checking", "returned", "failed"}
Attempting == {"allocate", "starting", "opening", "registering", "aborting", "aborted"}
Ended == {"returned", "failed"}
Errors == {"none", "recoverable", "audio", "storage", "safety", "finalization",
           "exhausted", "cancelled", "fault"}
EventKinds == {"RECOVERING", "RESTARTING", "RECOVERED", "EXHAUSTED"}
NoStopper == [at |-> "none", run |-> FALSE, ok |-> TRUE]

SessionInit ==
    /\ stopReq = FALSE
    /\ at = "none"
    /\ recovery = FALSE
    /\ error = "none"
    /\ restarts = 0
    /\ audio \in BOOLEAN
    /\ held = FALSE
    /\ owned = FALSE
    /\ pipeline = "null"
    /\ task = "none"
    /\ bstop = FALSE
    /\ clip = FALSE
    /\ closed = FALSE
    /\ drain = "none"
    /\ stopper = NoStopper
    /\ halting = "none"
    /\ storage = "none"
    /\ events = <<>>

\* _emit_lifecycle: the daemon's observer puts the event into its queue.
Emit(kind) == events' = Append(events, kind)

Fail(e) ==
    /\ at' = "failed"
    /\ error' = e

-----------------------------------------------------------------------------
(* Taking a session down *)

\* The first lines of _stop_once.
BeginStopper ==
    /\ stopper' = [at |-> "eos", run |-> task # "none", ok |-> TRUE]
    /\ bstop' = TRUE

\* _cleanup_current_attempt up to its await: whoever asks waits at wait for the
\* task that runs, starts one, or goes on at next if there is no backend.
CleanUp(point, wait, next) ==
    IF stopper.at # "none"
    THEN point' = wait /\ UNCHANGED <<stopper, bstop, owned>>
    ELSE IF held
         THEN point' = wait /\ BeginStopper /\ UNCHANGED owned
         ELSE point' = next /\ owned' = FALSE /\ UNCHANGED <<stopper, bstop>>

\* backend.stop() without a pipeline returns at once.
StopNothing ==
    /\ stopper.at = "eos"
    /\ pipeline \in {"null", "building"}
    /\ stopper' = [stopper EXCEPT !.at = "settle"]
    /\ UNCHANGED <<stopReq, runVars, backendVars, clipVars, halting, storage, events>>

\* backend.stop(): EOS closes the open fragment, then the pipeline goes to NULL.
StopPipeline ==
    /\ stopper.at = "eos"
    /\ pipeline = "playing"
    /\ stopper' = [stopper EXCEPT !.at = "settle"]
    /\ pipeline' = "null"
    /\ closed' = (clip \/ at = "registering")
    /\ UNCHANGED <<stopReq, runVars, held, owned, task, bstop, clip, drain,
                   halting, storage, events>>

\* backend.stop() fails: no closure before the deadline, or the pipeline refuses
\* its NULL state and is abandoned with the backend.
StopPipelineFails ==
    /\ stopper.at = "eos"
    /\ pipeline = "playing"
    /\ stopper' = [stopper EXCEPT !.at = "settle", !.ok = FALSE]
    /\ pipeline' \in {"null", "stuck"}
    /\ UNCHANGED <<stopReq, runVars, held, owned, task, bstop, clipVars,
                   halting, storage, events>>

\* backend.stop() of a pipeline that has refused NULL before.
StopAgain ==
    /\ stopper.at = "eos"
    /\ pipeline = "stuck"
    /\ pipeline' \in {"null", "stuck"}
    /\ \E ok \in BOOLEAN :
        /\ ok => pipeline' = "null"
        /\ stopper' = [stopper EXCEPT !.at = "settle", !.ok = ok]
    /\ UNCHANGED <<stopReq, runVars, held, owned, task, bstop, clipVars,
                   halting, storage, events>>

\* What _stop_once raises: closures are left, the drain failed unseen, or the
\* backend task is alive after its grace or failed beyond recovery.
StopperOk ==
    /\ stopper.ok
    /\ ~closed
    /\ drain # "failed"
    /\ stopper.run => task \notin {"running", "broken"}

\* Mutant of CleanedTo: the failure of the cleanup is not raised.
CleanedToAnyway(ok) == [at |-> "cleaned", error |-> error]

\* How _recover goes on after its cleanup.
CleanedTo(ok) ==
    IF ok THEN [at |-> "cleaned", error |-> error] ELSE [at |-> "failed", error |-> "fault"]

\* How _start_attempt goes on after the cleanup of a failed attempt.
AbortedTo(ok) ==
    IF ok THEN [at |-> "aborted", error |-> error] ELSE [at |-> "failed", error |-> "fault"]

RunAfterStopper(ok) ==
    CASE at = "cleaning" -> CleanedTo(ok)
      [] at = "aborting" -> AbortedTo(ok)
      [] OTHER -> [at |-> at, error |-> error]

\* The stop task is over: everyone who waits for it goes on; if the only one who
\* did was cancelled, the finished task keeps its result for the next.
WakeWaiters(ok) ==
    /\ at' = RunAfterStopper(ok).at
    /\ error' = RunAfterStopper(ok).error
    /\ halting' = IF halting # "joining" THEN halting
                  ELSE IF ok THEN "tail" ELSE "tailfailed"
    /\ stopper' = IF at \in {"cleaning", "aborting"} \/ halting = "joining" THEN NoStopper
                  ELSE [stopper EXCEPT !.at = "ended", !.ok = ok]
    /\ task' = "none"
    /\ drain' = "none"

\* The rest of _stop_once: it waits for the drain and for the backend task, up
\* to its deadlines, cancels what is left, demotes unclosed clips and gives the
\* camera back.
StopperEnds ==
    /\ stopper.at = "settle"
    /\ WakeWaiters(StopperOk)
    /\ clip' = FALSE
    /\ held' = FALSE
    /\ owned' = FALSE
    /\ UNCHANGED <<stopReq, recovery, restarts, audio, pipeline, bstop, closed,
                   storage, events>>

\* _demote_unclosed_active_clips raises: backend and camera are kept, the next
\* cleanup begins anew.
DemotionFails ==
    /\ stopper.at = "settle"
    /\ clip
    /\ WakeWaiters(FALSE)
    /\ UNCHANGED <<stopReq, recovery, restarts, audio, held, owned, pipeline, bstop,
                   clip, closed, storage, events>>

\* stop(): the storage task is joined before the media is closed.
HaltStorage ==
    /\ halting = "storage"
    /\ storage' = "none"
    /\ IF stopper.at = "ended"
       THEN /\ halting' = IF stopper.ok THEN "tail" ELSE "tailfailed"
            /\ stopper' = NoStopper
            /\ UNCHANGED <<bstop, owned>>
       ELSE CleanUp(halting, "joining", "tail")
    /\ UNCHANGED <<stopReq, runVars, held, pipeline, task, clipVars, events>>

\* stop(): metadata, GPS and overlay workers are joined, a failure is raised.
HaltTail ==
    /\ halting \in {"tail", "tailfailed"}
    /\ halting' = IF halting = "tail" THEN "done" ELSE "failed"
    /\ UNCHANGED <<stopReq, runVars, backendVars, clipVars, stopper, storage, events>>

-----------------------------------------------------------------------------
(* Opening a session: _start_attempt *)

\* The except branch of _start_attempt.
Abort(e) ==
    /\ error' = e
    /\ CleanUp(at, "aborting", "aborted")

\* start() has prepared catalog and volume.
Prepared ==
    /\ at = "prepare"
    /\ at' = "allocate"
    /\ UNCHANGED <<stopReq, recovery, error, restarts, audio, backendVars,
                   clipVars, stopper, halting, storage, events>>

PrepareFails ==
    /\ at = "prepare"
    /\ \E e \in {"storage", "safety", "finalization", "fault"} : Fail(e)
    /\ UNCHANGED <<stopReq, recovery, restarts, audio, backendVars, clipVars,
                   stopper, halting, storage, events>>

\* From the allocated output to the await of backend.start().  The claim of the
\* camera would be refused if it were still owned: see NoSecondSession.
OpenBackend ==
    /\ at = "allocate"
    /\ ~closed
    /\ at' = "starting"
    /\ bstop' = FALSE
    /\ owned' = TRUE
    /\ held' = TRUE
    /\ pipeline' = "building"
    /\ UNCHANGED <<stopReq, recovery, error, restarts, audio, task, clipVars,
                   stopper, halting, storage, events>>

\* No sequence is left, or an earlier attempt left closures behind.
AllocationFails ==
    /\ at = "allocate"
    /\ Fail(IF closed THEN "fault" ELSE "storage")
    /\ UNCHANGED <<stopReq, recovery, restarts, audio, backendVars, clipVars,
                   stopper, halting, storage, events>>

\* create_pipeline and set_playing: from here backend.stop() has a pipeline.
PipelinePlays ==
    /\ at = "starting"
    /\ pipeline = "building"
    /\ pipeline' = "playing"
    /\ UNCHANGED <<stopReq, runVars, held, owned, task, bstop, clipVars, stopper,
                   halting, storage, events>>

\* backend.start() returns; its run() refuses a pipeline already taken down.
BackendStarted ==
    /\ at = "starting"
    /\ pipeline # "building"
    /\ at' = "opening"
    /\ task' = IF pipeline = "playing" THEN "running" ELSE "broken"
    /\ UNCHANGED <<stopReq, recovery, error, restarts, audio, held, owned,
                   pipeline, bstop, clipVars, stopper, halting, storage, events>>

\* backend.start() fails and rolls back, or fails to roll back.
BackendStartFails ==
    /\ at = "starting"
    /\ \/ /\ \E e \in {"recoverable", "fault"} \cup (IF audio THEN {"audio"} ELSE {}) :
               Abort(e)
          /\ pipeline' = "null"
       \/ /\ pipeline = "playing"
          /\ Abort("fault")
          /\ UNCHANGED pipeline
    /\ UNCHANGED <<stopReq, recovery, restarts, audio, held, task, clipVars,
                   halting, storage, events>>

FragmentOpened ==
    /\ at = "opening"
    /\ task = "running"
    /\ pipeline = "playing"
    /\ at' = "registering"
    /\ UNCHANGED <<stopReq, recovery, error, restarts, audio, backendVars,
                   clipVars, stopper, halting, storage, events>>

\* The backend task ended before it opened a fragment, or was taken away.
OpeningFails ==
    /\ at = "opening"
    /\ task # "running"
    /\ Abort(CASE task = "nospace" -> "safety"
               [] task = "broken" -> "fault"
               [] OTHER -> "recoverable")
    /\ UNCHANGED <<stopReq, recovery, restarts, audio, held, pipeline, task,
                   clipVars, halting, storage, events>>

\* first_fragment_timeout_s.
OpeningTimesOut ==
    /\ at = "opening"
    /\ task = "running"
    /\ Abort("recoverable")
    /\ UNCHANGED <<stopReq, recovery, restarts, audio, held, pipeline, task,
                   clipVars, halting, storage, events>>

\* The first clip is registered and the drains run: start() or _recover is over,
\* and run() looks at its loop condition.
Registered ==
    /\ at = "registering"
    /\ clip' = TRUE
    /\ drain' = "running"
    /\ error' = "none"
    /\ IF recovery
       THEN /\ at' = IF stopReq THEN "returned" ELSE "supervising"
            /\ Emit("RECOVERED")
            /\ UNCHANGED storage
       ELSE at' = "started" /\ storage' = "running" /\ UNCHANGED events
    /\ UNCHANGED <<stopReq, recovery, restarts, audio, backendVars, closed,
                   stopper, halting>>

RegistrationFails ==
    /\ at = "registering"
    /\ Abort("fault")
    /\ UNCHANGED <<stopReq, recovery, restarts, audio, held, pipeline, task,
                   clipVars, halting, storage, events>>

\* The failed attempt is gone: start() tries once more without audio, run()
\* recovers, everything else is raised.
AttemptAborted ==
    /\ at = "aborted"
    /\ IF recovery /\ error \in {"recoverable", "audio"}
       THEN at' = "cleaned" /\ UNCHANGED <<error, audio>>
       ELSE IF ~recovery /\ error = "audio"
            THEN at' = "allocate" /\ error' = "none" /\ audio' = FALSE
            ELSE at' = "failed" /\ UNCHANGED <<error, audio>>
    /\ UNCHANGED <<stopReq, recovery, restarts, backendVars, clipVars, stopper,
                   halting, storage, events>>

\* A cancelled start() undoes the attempt it is in; if it was already undoing
\* one, the cleanup goes on without it and start() ends with a PipelineFault.
CancelStart ==
    /\ \/ at \in {"prepare", "allocate"} /\ Fail("cancelled") /\ UNCHANGED <<stopper, bstop, owned, pipeline>>
       \/ at \in {"aborting", "aborted"} /\ Fail("fault") /\ UNCHANGED <<stopper, bstop, owned, pipeline>>
       \/ at = "starting" /\ Abort("cancelled") /\ pipeline' = "null"
       \/ at = "starting" /\ pipeline = "playing" /\ Abort("fault") /\ UNCHANGED pipeline
       \/ at \in {"opening", "registering"} /\ Abort("cancelled") /\ UNCHANGED pipeline
    /\ UNCHANGED <<recovery, restarts, audio, held, task, clipVars, halting,
                   storage, events>>

-----------------------------------------------------------------------------
(* Supervising and replacing a session: run, _supervise_attempt, _recover *)

\* The first look of run() at its loop condition.
RunBegins ==
    /\ at = "started"
    /\ at' = IF stopReq THEN "returned" ELSE "supervising"
    /\ recovery' = TRUE
    /\ UNCHANGED <<stopReq, error, restarts, audio, backendVars, clipVars,
                   stopper, halting, storage, events>>

SuperviseStop ==
    /\ at = "supervising"
    /\ stopReq
    /\ at' = "returned"
    /\ bstop' = TRUE
    /\ UNCHANGED <<stopReq, recovery, error, restarts, audio, held, owned,
                   pipeline, task, clipVars, stopper, halting, storage, events>>

\* A background task of the session has failed for good.
SuperviseFatal ==
    /\ at = "supervising"
    /\ \/ storage = "ended" /\ Fail("safety") /\ UNCHANGED drain
       \/ storage = "broken" /\ Fail("storage") /\ UNCHANGED drain
       \/ /\ drain = "failed"
          /\ \E e \in {"finalization", "safety"} : Fail(e)
          /\ drain' = "observed"
       \/ task = "nospace" /\ Fail("safety") /\ UNCHANGED drain
    /\ UNCHANGED <<stopReq, recovery, restarts, audio, backendVars, clip, closed,
                   stopper, halting, storage, events>>

\* The backend failed recoverably: _recover begins with the cleanup.
SuperviseRecover ==
    /\ at = "supervising"
    /\ task = "failed"
    /\ error' = "recoverable"
    /\ CleanUp(at, "cleaning", "cleaned")
    /\ UNCHANGED <<stopReq, recovery, restarts, audio, held, pipeline, task,
                   clipVars, halting, storage, events>>

Exhausted == restarts >= MaxRestarts

\* _recover after its cleanup.
Recover ==
    /\ at = "cleaned"
    /\ IF stopReq THEN at' = "returned" /\ UNCHANGED <<error, events>>
       ELSE IF Exhausted THEN Fail("exhausted") /\ Emit("EXHAUSTED")
       ELSE at' = "backoff" /\ Emit("RECOVERING") /\ UNCHANGED error
    /\ UNCHANGED <<stopReq, recovery, restarts, audio, backendVars, clipVars,
                   stopper, halting, storage>>

BackoffCut ==
    /\ at = "backoff"
    /\ stopReq
    /\ at' = "returned"
    /\ UNCHANGED <<stopReq, recovery, error, restarts, audio, backendVars,
                   clipVars, stopper, halting, storage, events>>

\* Mutant of BackoffElapses: the restart is not counted.
BackoffElapsesFree ==
    /\ at = "backoff"
    /\ ~stopReq
    /\ Emit("RESTARTING")
    /\ at' = "checking"
    /\ UNCHANGED <<stopReq, recovery, error, restarts, audio, backendVars,
                   clipVars, stopper, halting, storage>>

BackoffElapses ==
    /\ at = "backoff"
    /\ ~stopReq
    /\ restarts' = restarts + 1
    /\ Emit("RESTARTING")
    /\ at' = "checking"
    /\ UNCHANGED <<stopReq, recovery, error, audio, backendVars, clipVars,
                   stopper, halting, storage>>

\* _fresh_replacement_preflight.
Checked ==
    /\ at = "checking"
    /\ at' = "allocate"
    /\ UNCHANGED <<stopReq, recovery, error, restarts, audio, backendVars,
                   clipVars, stopper, halting, storage, events>>

CheckFails ==
    /\ at = "checking"
    /\ Fail("storage")
    /\ UNCHANGED <<stopReq, recovery, restarts, audio, backendVars, clipVars,
                   stopper, halting, storage, events>>

-----------------------------------------------------------------------------
(* The backend and the tasks beside it *)

\* The bus reports an error of the pipeline or of the recording sink.
BackendFails ==
    /\ task = "running"
    /\ task' \in {"failed", "nospace"}
    /\ UNCHANGED <<stopReq, runVars, held, owned, pipeline, bstop, clipVars,
                   stopper, halting, storage, events>>

BackendEnds ==
    /\ task = "running"
    /\ bstop
    /\ task' = "ended"
    /\ UNCHANGED <<stopReq, runVars, held, owned, pipeline, bstop, clipVars,
                   stopper, halting, storage, events>>

\* The drain finalizes a clip in the middle of a session; a full one makes the
\* session count as stable.
ClipFinalized ==
    /\ drain = "running"
    /\ clip /\ ~closed
    /\ restarts > 0
    /\ restarts' = 0
    /\ UNCHANGED <<stopReq, at, recovery, error, audio, backendVars, clipVars,
                   stopper, halting, storage, events>>

\* The drain finalizes the last clip of a session.
LastClipFinalized ==
    /\ drain = "running"
    /\ clip /\ closed
    /\ clip' = FALSE
    /\ closed' = FALSE
    /\ restarts' \in {restarts, 0}
    /\ UNCHANGED <<stopReq, at, recovery, error, audio, backendVars, drain,
                   stopper, halting, storage, events>>

DrainFails ==
    /\ drain = "running"
    /\ drain' = "failed"
    /\ closed' = FALSE
    /\ UNCHANGED <<stopReq, runVars, backendVars, clip, stopper, halting,
                   storage, events>>

\* The storage task raises StorageSafetyStop, or anything else.
StorageFails ==
    /\ storage = "running"
    /\ storage' \in {"ended", "broken"}
    /\ UNCHANGED <<stopReq, runVars, backendVars, clipVars, stopper, halting, events>>

=============================================================================
