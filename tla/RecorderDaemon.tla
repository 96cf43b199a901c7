--------------------------- MODULE RecorderDaemon ---------------------------
(***************************************************************************)
(* RecorderDaemon.run and its tasks around one MediaSession: the checks    *)
(* before the camera is opened, the published status, the queue of         *)
(* lifecycle events, the progress watchdog, the control endpoint's faults  *)
(* and the orderly end.                                                    *)
(***************************************************************************)
EXTENDS MediaSession

VARIABLES
    phase,      \* await point of RecorderDaemon.run
    verdict,    \* outcome the daemon is going to return
    joins,      \* the run task is waited for with runtime.stop()
    status,     \* state of the RecorderStatusStore
    optional,   \* the status carries the reason OPTIONAL_SUBSYSTEM
    observer,   \* _runtime_event_loop
    endpoint,   \* the control endpoint
    watchdog,   \* _watchdog_loop: its baseline
    progress,   \* frames were encoded since the baseline
    sampled     \* the baseline was taken in the present session (history)

daemonVars == <<phase, verdict, joins>>
statusVars == <<status, optional>>
watchVars == <<watchdog, progress, sampled>>
vars == <<sessionVars, daemonVars, statusVars, observer, endpoint, watchVars>>

States == {"STARTING", "RECORDING", "DEGRADED", "FAULTED", "STOPPING"}
Outcomes == {"NONE", "STOPPED", "STORAGE_SAFETY_STOP", "CONFIG_ERROR",
             "STARTUP_FAILED", "STARTUP_TIMEOUT", "RUNTIME_EXITED",
             "RUNTIME_FAILED", "PIPELINE_NO_PROGRESS", "SHUTDOWN_FAILED",
             "SHUTDOWN_TIMEOUT", "RAISED"}
Phases == {"config", "gate", "faultwait", "starting", "cancelling", "endpoint",
           "watching", "draining", "joining", "done"}

Init ==
    /\ SessionInit
    /\ phase = "config"
    /\ verdict = "NONE"
    /\ joins = FALSE
    /\ status = "STARTING"
    /\ optional = FALSE
    /\ observer = "none"
    /\ endpoint = "none"
    /\ watchdog = "off"
    /\ progress = FALSE
    /\ sampled = FALSE

-----------------------------------------------------------------------------
(* The published status *)

\* _TRANSITIONS.
Allowed(from, to) ==
    CASE from = "STARTING" -> TRUE
      [] from \in {"RECORDING", "DEGRADED"} -> to # "STARTING"
      [] from = "FAULTED" -> to \in {"FAULTED", "STARTING", "STOPPING"}
      [] from = "STOPPING" -> to \in {"STOPPING", "FAULTED"}

\* Mutant of Bumped: an event does not start a new epoch.
BumpedNever(w) == w

\* _recording_progress_epoch moves on: the baseline is of an older epoch.
Bumped(w) == IF w = "armed" THEN "stale" ELSE w

\* _publish by the daemon itself, from a state that allows it.
Publish(state) ==
    /\ Allowed(status, state)
    /\ status' = state
    /\ optional' = FALSE

-----------------------------------------------------------------------------
(* Up to the first session *)

ConfigLoaded ==
    /\ phase = "config"
    /\ phase' = "gate"
    /\ Publish("STARTING")
    /\ UNCHANGED <<sessionVars, verdict, joins, observer, endpoint, watchVars>>

ConfigRefused ==
    /\ phase = "config"
    /\ phase' = "done"
    /\ verdict' = "CONFIG_ERROR"
    /\ Publish("FAULTED")
    /\ UNCHANGED <<sessionVars, joins, observer, endpoint, watchVars>>

\* _check_storage: the volume may be used.
GatePasses ==
    /\ phase = "gate"
    /\ IF stopReq
       THEN phase' = "done" /\ verdict' = "STOPPED" /\ Publish("STOPPING") /\ UNCHANGED at
       ELSE phase' = "starting" /\ at' = "prepare" /\ UNCHANGED <<verdict, statusVars>>
    /\ UNCHANGED <<stopReq, recovery, error, restarts, audio, backendVars, clipVars,
                   stopper, halting, storage, events, joins, observer, endpoint, watchVars>>

\* _storage_fault: refused, failed or timed out.  The process stays observable
\* and never opens the camera.
GateRefuses ==
    /\ phase = "gate"
    /\ phase' = "faultwait"
    /\ Publish("FAULTED")
    /\ watchdog' = "none"
    /\ UNCHANGED <<sessionVars, verdict, joins, observer, endpoint, progress, sampled>>

FaultWaitEnds ==
    /\ phase = "faultwait"
    /\ stopReq
    /\ phase' = "done"
    /\ verdict' = "STOPPED"
    /\ Publish("STOPPING")
    /\ watchdog' = "off"
    /\ UNCHANGED <<sessionVars, joins, observer, endpoint, progress, sampled>>

\* _external_shutdown up to its await: the run task is waited for.
ExternalShutdown ==
    /\ Publish("STOPPING")
    /\ phase' = "draining"
    /\ verdict' = "STOPPED"
    /\ joins' = TRUE

\* _cleanup_after_failure with the status and the outcome of the failure.
CleanUpAfter(outcome, joining) ==
    /\ Publish("FAULTED")
    /\ phase' = "draining"
    /\ verdict' = outcome
    /\ joins' = joining
    /\ stopReq' = TRUE

StartSucceeds ==
    /\ phase = "starting"
    /\ at = "started"
    /\ IF stopReq
       THEN ExternalShutdown
       ELSE /\ Publish("RECORDING")
            /\ phase' = "endpoint"
            /\ UNCHANGED <<verdict, joins>>
    /\ UNCHANGED <<sessionVars, observer, endpoint, watchVars>>

StartFails ==
    /\ phase \in {"starting", "cancelling"}
    /\ at = "failed"
    /\ phase = "cancelling" => error = "cancelled"
    /\ CleanUpAfter(IF phase = "cancelling" THEN "STARTUP_TIMEOUT"
                    ELSE IF error = "safety" THEN "STORAGE_SAFETY_STOP"
                    ELSE "STARTUP_FAILED", FALSE)
    /\ UNCHANGED <<runVars, backendVars, clipVars, stopper, halting, storage, events,
                   observer, endpoint, watchVars>>

\* _cancel_task passes on what the cancelled start task raised instead: run()
\* ends with that exception, without a status and without a cleanup.
StartRaises ==
    /\ phase = "cancelling"
    /\ at = "failed"
    /\ error # "cancelled"
    /\ phase' = "done"
    /\ verdict' = "RAISED"
    /\ UNCHANGED <<sessionVars, joins, statusVars, observer, endpoint, watchVars>>

\* startup_timeout_s: the start task is cancelled and awaited.
StartTimesOut ==
    /\ phase = "starting"
    /\ at \notin {"started", "failed"}
    /\ phase' = "cancelling"
    /\ CancelStart
    /\ UNCHANGED <<stopReq, verdict, joins, statusVars, observer, endpoint, watchVars>>

\* The endpoint is up, or its failure is published; then the tasks of the
\* daemon are created.
EndpointStarted ==
    /\ phase = "endpoint"
    /\ phase' = "watching"
    /\ \/ endpoint' = "up" /\ UNCHANGED statusVars
       \/ /\ endpoint' = "faulted"
          /\ status' = "DEGRADED"
          /\ optional' = TRUE
    /\ observer' = "running"
    /\ watchdog' = "none"
    /\ UNCHANGED <<sessionVars, verdict, joins, progress, sampled>>

-----------------------------------------------------------------------------
(* While the session is recorded *)

\* Mutant of StateFor: a restart that is only attempted counts as recording.
StateForEarly(kind) == IF kind \in {"RESTARTING", "RECOVERED"} THEN "RECORDING" ELSE "FAULTED"

\* The state _runtime_event_loop publishes for an event.
StateFor(kind) ==
    CASE kind \in {"RECOVERING", "EXHAUSTED"} -> "FAULTED"
      [] kind = "RESTARTING" -> "STARTING"
      [] kind = "RECOVERED" -> "RECORDING"

\* _runtime_event_loop: a refused transition ends the loop.
ProcessEvent ==
    /\ observer = "running"
    /\ events # <<>>
    /\ events' = Tail(events)
    /\ IF Allowed(status, StateFor(Head(events)))
       THEN /\ status' = StateFor(Head(events))
            /\ optional' = FALSE
            /\ watchdog' = Bumped(watchdog)
            /\ UNCHANGED observer
       ELSE observer' = "dead" /\ UNCHANGED <<statusVars, watchdog>>
    /\ UNCHANGED <<stopReq, runVars, backendVars, clipVars, stopper, halting, storage,
                   daemonVars, endpoint, progress, sampled>>

\* The listener of the endpoint dies: _control_endpoint_fault publishes it, and
\* the listener contains the refusal of a transition.
EndpointFault ==
    /\ endpoint = "up"
    /\ endpoint' = "faulted"
    /\ IF Allowed(status, "DEGRADED")
       THEN status' = "DEGRADED" /\ optional' = TRUE /\ watchdog' = Bumped(watchdog)
       ELSE UNCHANGED <<statusVars, watchdog>>
    /\ UNCHANGED <<sessionVars, daemonVars, observer, progress, sampled>>

RecordingActive == status = "RECORDING" \/ (status = "DEGRADED" /\ optional)

\* One period of _watchdog_loop.  The progress token is missing as long as no
\* backend has counted a frame.
WatchdogTick ==
    /\ watchdog \in {"none", "stale", "armed"}
    /\ ~stopReq
    /\ \/ /\ ~RecordingActive \/ ~held
          /\ watchdog' = "none"
          /\ UNCHANGED <<progress, sampled>>
       \/ /\ RecordingActive
          /\ watchdog # "armed"
          /\ watchdog' = "armed"
          /\ progress' = FALSE
          /\ sampled' = TRUE
       \/ /\ RecordingActive
          /\ watchdog = "armed"
          /\ watchdog' = IF progress THEN "armed" ELSE "fired"
          /\ progress' = FALSE
          /\ UNCHANGED sampled
    /\ UNCHANGED <<sessionVars, daemonVars, statusVars, observer, endpoint>>

FrameEncoded ==
    /\ pipeline = "playing"
    /\ task = "running"
    /\ ~progress
    /\ progress' = TRUE
    /\ UNCHANGED <<sessionVars, daemonVars, statusVars, observer, endpoint, watchdog, sampled>>

-----------------------------------------------------------------------------
(* The end *)

\* A signal: request_stop.
RequestStop ==
    /\ ~stopReq
    /\ phase # "done"
    /\ stopReq' = TRUE
    /\ UNCHANGED <<runVars, backendVars, clipVars, stopper, halting, storage, events,
                   daemonVars, statusVars, observer, endpoint, watchVars>>

\* One of the four tasks that run() waits for is done.
Awake == stopReq \/ watchdog = "fired" \/ observer = "dead" \/ at \in Ended

WatchingEnds ==
    /\ phase = "watching"
    /\ events = <<>> \/ observer = "dead"
    /\ Awake
    /\ watchdog' = "off"
    /\ IF stopReq THEN ExternalShutdown /\ UNCHANGED stopReq
       ELSE IF watchdog = "fired" THEN CleanUpAfter("PIPELINE_NO_PROGRESS", TRUE)
       ELSE IF observer = "dead" THEN CleanUpAfter("RUNTIME_FAILED", TRUE)
       ELSE CleanUpAfter(CASE at = "returned" -> "RUNTIME_EXITED"
                           [] at # "returned" /\ error = "safety" -> "STORAGE_SAFETY_STOP"
                           [] OTHER -> "RUNTIME_FAILED", FALSE)
    /\ UNCHANGED <<runVars, backendVars, clipVars, stopper, halting, storage, events,
                   observer, endpoint, progress, sampled>>

\* _stop_runtime: the endpoint is drained first, then runtime.stop() begins.
EndpointDrained ==
    /\ phase = "draining"
    /\ phase' = "joining"
    /\ endpoint' = IF endpoint = "up" THEN "none" ELSE endpoint
    /\ halting' = "storage"
    /\ UNCHANGED <<stopReq, runVars, backendVars, clipVars, stopper, storage, events,
                   verdict, joins, statusVars, observer, watchVars>>

Joined == halting \in {"done", "failed"} /\ (joins => at \in Ended)

\* _stop_runtime and the return of run(): an external stop reports failures.
ShutdownEnds ==
    /\ phase = "joining"
    /\ Joined
    /\ phase' = "done"
    /\ observer' = "none"
    /\ IF verdict = "STOPPED" /\ (halting = "failed" \/ at = "failed")
       THEN verdict' = "SHUTDOWN_FAILED" /\ Publish("FAULTED")
       ELSE UNCHANGED <<verdict, statusVars>>
    /\ UNCHANGED <<sessionVars, joins, endpoint, watchVars>>

\* shutdown_timeout_s: the tasks are cancelled and left behind.
ShutdownTimesOut ==
    /\ phase = "joining"
    /\ ~Joined
    /\ phase' = "done"
    /\ observer' = "none"
    /\ IF verdict = "STOPPED"
       THEN verdict' = "SHUTDOWN_TIMEOUT" /\ Publish("FAULTED")
       ELSE UNCHANGED <<verdict, statusVars>>
    /\ UNCHANGED <<sessionVars, joins, endpoint, watchVars>>

-----------------------------------------------------------------------------
(* The specification *)

\* A timer of a second or more does not run out before a coroutine that is
\* ready has had its turn.
Quiet == events = <<>> /\ ~(phase = "watching" /\ Awake)

\* _enqueue_runtime_event starts a new epoch of the watchdog.
Observed ==
    /\ phase # "done"
    /\ watchdog' = IF Len(events') > Len(events) THEN Bumped(watchdog) ELSE watchdog
    /\ sampled' = (sampled /\ ~(at = "allocate" /\ at' = "starting"))
    /\ UNCHANGED <<daemonVars, statusVars, observer, endpoint, progress>>

\* The coroutine of start() and run(), with the answers of what it awaits.
RunStep ==
    \/ Prepared \/ PrepareFails
    \/ OpenBackend \/ AllocationFails
    \/ PipelinePlays \/ BackendStarted \/ BackendStartFails
    \/ FragmentOpened \/ OpeningFails
    \/ OpeningTimesOut /\ Quiet
    \/ Registered \/ RegistrationFails
    \/ AttemptAborted
    \/ RunBegins /\ phase \in {"watching", "draining", "joining"}
    \/ SuperviseStop \/ SuperviseFatal \/ SuperviseRecover
    \/ Recover
    \/ BackoffCut
    \/ BackoffElapses /\ Quiet
    \/ Checked \/ CheckFails

StopperStep ==
    \/ StopNothing \/ StopPipeline \/ StopPipelineFails \/ StopAgain
    \/ StopperEnds \/ DemotionFails

HaltStep == HaltStorage \/ HaltTail

BackendStep ==
    \/ BackendFails \/ BackendEnds
    \/ ClipFinalized \/ LastClipFinalized \/ DrainFails
    \/ StorageFails

MainStep ==
    \/ ConfigLoaded \/ ConfigRefused
    \/ GatePasses \/ GateRefuses \/ FaultWaitEnds
    \/ StartSucceeds \/ StartFails \/ StartRaises \/ EndpointStarted
    \/ WatchingEnds \/ EndpointDrained \/ ShutdownEnds

Next ==
    \/ RunStep /\ Observed
    \/ StopperStep /\ Observed
    \/ HaltStep /\ Observed
    \/ BackendStep /\ Observed
    \/ MainStep
    \/ ProcessEvent
    \/ EndpointFault /\ phase # "done"
    \/ WatchdogTick /\ Quiet
    \/ FrameEncoded /\ phase # "done"
    \/ RequestStop
    \/ StartTimesOut
    \/ ShutdownTimesOut

Spec == Init /\ [][Next]_vars

\* Coroutines of a running loop get their turn and what they await answers or
\* runs into its own deadline; nothing is assumed of the camera, the clients,
\* the signals or the deadlines of the daemon.
LiveSpec ==
    /\ Spec
    /\ WF_vars(RunStep /\ Observed)
    /\ WF_vars(StopperStep /\ Observed)
    /\ WF_vars(HaltStep /\ Observed)
    /\ WF_vars(MainStep)
    /\ WF_vars(ProcessEvent)

-----------------------------------------------------------------------------
(* Properties *)

\* The type invariant of the session and of the daemon.
TypeOK ==
    /\ stopReq \in BOOLEAN /\ recovery \in BOOLEAN /\ audio \in BOOLEAN
    /\ held \in BOOLEAN /\ owned \in BOOLEAN /\ bstop \in BOOLEAN
    /\ clip \in BOOLEAN /\ closed \in BOOLEAN
    /\ at \in Points
    /\ error \in Errors
    /\ restarts \in 0..MaxRestarts
    /\ pipeline \in {"null", "building", "playing", "stuck"}
    /\ task \in {"none", "running", "failed", "nospace", "ended", "broken"}
    /\ drain \in {"none", "running", "failed", "observed"}
    /\ stopper \in [at : {"none", "eos", "settle", "ended"}, run : BOOLEAN, ok : BOOLEAN]
    /\ halting \in {"none", "storage", "joining", "tail", "tailfailed", "done", "failed"}
    /\ storage \in {"none", "running", "ended", "broken"}
    /\ events \in Seq(EventKinds)
    /\ phase \in Phases
    /\ verdict \in Outcomes
    /\ joins \in BOOLEAN /\ optional \in BOOLEAN
    /\ progress \in BOOLEAN /\ sampled \in BOOLEAN
    /\ status \in States
    /\ observer \in {"none", "running", "dead"}
    /\ endpoint \in {"none", "up", "faulted"}
    /\ watchdog \in {"off", "none", "stale", "armed", "fired"}

\* The published status follows the session: once the events are processed, a
\* session that is supervised is never shown as faulted or starting, one that
\* waits for its replacement never as recording (_runtime_event_loop and
\* _control_endpoint_fault).
StatusTruthful ==
    phase = "watching" /\ ~stopReq /\ events = <<>> =>
        /\ at = "supervising" => status \in {"RECORDING", "DEGRADED"}
        /\ at = "backoff" => status = "FAULTED"
        /\ at \in Attempting \cup {"checking"} => status \in {"STARTING", "DEGRADED"}

\* No order of recoveries and endpoint faults makes the status store refuse an
\* event: only a recorder that is stopping loses its event loop (_TRANSITIONS).
ObserverSurvives == observer = "dead" => stopReq

\* The camera is opened only when it has no owner and no pipeline of an earlier
\* attempt is left (_cleanup_current_attempt before _start_attempt).
NoSecondSession ==
    [][OpenBackend => ~owned /\ pipeline = "null" /\ task = "none" /\ ~clip]_vars

\* With the endpoint up, the watchdog stops only a session whose own baseline it
\* has compared, never one that is being replaced (_recording_progress_epoch).
WatchdogSparesRecovery ==
    [][watchdog' = "fired" /\ watchdog # "fired" /\ endpoint # "faulted" =>
            sampled /\ at \in {"supervising", "cleaning", "cleaned", "started"} \cup Ended]_vars

\* When the daemon returns because its session failed or never began, and the
\* stop it made of the runtime succeeded, no pipeline plays that was not asked to
\* stop, the camera is free and no clip is left open (_cleanup_after_failure).
FailureReleases ==
    /\ phase = "done"
    /\ verdict \in {"STARTUP_FAILED", "STARTUP_TIMEOUT", "RUNTIME_FAILED", "STORAGE_SAFETY_STOP"}
    /\ halting = "done"
    => pipeline \in {"null", "stuck"} /\ ~owned /\ ~clip

\* When the daemon reports an orderly stop, the same holds (stop).
StopReleases ==
    phase = "done" /\ verdict = "STOPPED" => pipeline = "null" /\ ~owned /\ ~clip

\* A stop that is requested, and a session that has ended, always lead to the
\* end of the daemon, without the help of its deadlines (_stop_runtime).
DaemonEnds == stopReq \/ at \in Ended ~> phase = "done"

\* A failed session is replaced or given up: no recovery hangs in its cleanup or
\* its delay, or goes through failed replacements for ever (_recover).
RecoveryEnds == at = "cleaning" ~> at \in {"supervising"} \cup Ended \/ phase = "done"

\* What the daemon shows and leaves agrees with its session (RecorderDaemon).
DaemonInv == TypeOK /\ StatusTruthful /\ ObserverSurvives /\ FailureReleases

\* Neither the daemon nor a recovery hangs.
DaemonProgress == DaemonEnds /\ RecoveryEnds
=============================================================================
