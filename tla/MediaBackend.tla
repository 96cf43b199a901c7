---------------------------- MODULE MediaBackend ----------------------------
(***************************************************************************)
(* GStreamerBackend over its driver: run() polls the bus, isolates a lost  *)
(* microphone and brings it back under AudioHotplugCoordinator; stop()     *)
(* closes the active fragment and takes the pipeline down, beside run().   *)
(* _driver_call serializes the two: a call that runs is finished before    *)
(* the other coroutine gets the driver, cancelled or not.  Time is         *)
(* abstracted: an interval of the coordinator or a deadline elapses at any *)
(* moment.                                                                 *)
(***************************************************************************)
EXTENDS RecordingSlots

CONSTANTS
    MaxAttempts   \* AudioReconnectPolicy.max_attempts

ASSUME BackendAssumption == MaxAttempts \in Nat \ {0}

VARIABLES
    run,       \* await point of run()
    coord,     \* AudioHotplugCoordinator
    lost,      \* _audio_loss_isolated and _audio_loss_messages
    active,    \* sequence of _active_fragment, 0 if there is none
    stopping,  \* stop_requested, the event run() looks at
    shut,      \* the shutdown task: its await point, target and verdict
    pipe       \* the pipeline: none, created, playing, or null after set_null

backendVars == <<run, coord, lost, active, stopping, shut, pipe>>
mediaVars == <<driverVars, backendVars>>

FreshCoord == [state |-> "ACTIVE", attempts |-> 0, candidate |-> "none", confirmed |-> 0]
NoShutdown == [at |-> "none", target |-> 0, eos |-> FALSE, ok |-> TRUE]
Endpoints == {"hw0", "hw1"}
Observations == Endpoints \cup {"absent"}

MediaInit ==
    /\ DriverInit
    /\ run = "starting"
    /\ coord = FreshCoord
    /\ lost = [isolated |-> FALSE, messages |-> 0]
    /\ active = 0
    /\ stopping = FALSE
    /\ shut = NoShutdown
    /\ pipe = "none"

\* _driver_call: at most one of the two coroutines is inside the driver.
DriverFree == run \notin {"polling", "handing", "restoring"}

-----------------------------------------------------------------------------
(* start() *)

CreatePipeline ==
    /\ run = "starting" /\ pipe = "none"
    /\ pipe' = "created"
    /\ UNCHANGED <<driverVars, run, coord, lost, active, stopping, shut>>

\* set_playing measures the slots and publishes them; files are opened from now on.
SetPlaying ==
    /\ run = "starting" /\ pipe = "created"
    /\ MeasuredStable(slot, ctx.active)
    /\ Stable(ctx.active, slot)
    /\ pipe' = "playing"
    /\ UNCHANGED <<slot, arbiter, ctx, hand, fileVars, bus, inbox, source,
                   run, coord, lost, active, stopping, shut>>

\* Caps, encoder and audio are what was asked for: the runtime starts run().
Started ==
    /\ run = "starting" /\ pipe = "playing"
    /\ run' = "loop"
    /\ UNCHANGED <<driverVars, coord, lost, active, stopping, shut, pipe>>

\* A step of start() fails or is cancelled: set_null, which may fail as well, in
\* which case stop() finds the pipeline it has to close.
StartFails ==
    /\ run = "starting"
    /\ run' = "failed"
    /\ \/ pipe' = IF pipe = "none" THEN "none" ELSE "null"
       \/ pipe' = pipe
    /\ UNCHANGED <<driverVars, coord, lost, active, stopping, shut>>

-----------------------------------------------------------------------------
(* run() *)

RunEnds ==
    /\ run = "loop" /\ stopping
    /\ run' = "ended"
    /\ UNCHANGED <<driverVars, coord, lost, active, stopping, shut, pipe>>

PollBegins ==
    /\ run = "loop" /\ ~stopping /\ DriverFree
    /\ run' = "polling"
    /\ UNCHANGED <<driverVars, coord, lost, active, stopping, shut, pipe>>

\* _observe_fragment_opened and _observe_finalized_fragment
Observed(m) ==
    CASE m.kind = "opened" -> m.seq
      [] m.kind = "closed" /\ m.seq = active -> 0
      [] OTHER -> active

\* What run() does with a message of the bus, before it awaits anything.
Handle(m) ==
    /\ active' = Observed(m)
    /\ CASE m.kind = "audio" /\ lost.isolated ->
              /\ lost' = [lost EXCEPT !.messages = @ + 1]
              /\ run' = IF lost.messages >= 4 THEN "failed" ELSE "loop"
         [] m.kind = "audio" /\ ~lost.isolated -> run' = "arm" /\ UNCHANGED lost
         [] m.kind \in {"opened", "closed"} -> run' \in {"loop", "failed"} /\ UNCHANGED lost
         [] OTHER -> run' = "failed" /\ UNCHANGED lost

\* poll_bus hands out what a handoff has popped before it pops the bus itself.
PollInbox ==
    /\ run = "polling"
    /\ Len(inbox) > 0
    /\ inbox' = Tail(inbox)
    /\ Handle(Head(inbox))
    /\ UNCHANGED <<slotVars, hand, fileVars, bus, source, coord, stopping, shut, pipe>>

PollBus ==
    /\ run = "polling"
    /\ Len(inbox) = 0
    /\ Len(bus) > 0
    /\ Pop(Head(bus))
    /\ IF Popped(Head(bus)) = "none" THEN run' = "idle" /\ UNCHANGED <<active, lost>>
       ELSE Handle(ForBackend(Head(bus)))
    /\ UNCHANGED <<arbiter, topology, hand, writing, closing, nextSeq, inbox, source,
                   coord, stopping, shut, pipe>>

PollEmpty ==
    /\ run = "polling"
    /\ Len(inbox) = 0 /\ Len(bus) = 0
    /\ run' = "idle"
    /\ UNCHANGED <<driverVars, coord, lost, active, stopping, shut, pipe>>

\* _confirm_and_isolate_audio_loss: the loss is armed, then the handoff runs.
Arm ==
    /\ run = "arm" /\ pipe = "playing"
    /\ MayArmLoss
    /\ ArmLoss
    /\ run' = "armed"
    /\ UNCHANGED <<coord, lost, active, stopping, shut, pipe>>

ArmRefused ==
    /\ run = "arm"
    /\ pipe = "null" \/ ~MayArmLoss
    /\ run' = "failed"
    /\ UNCHANGED <<driverVars, coord, lost, active, stopping, shut, pipe>>

Isolate ==
    /\ run = "armed"
    /\ run' = "handing"
    /\ hand' = IF pipe = "null" THEN [NoHandoff EXCEPT !.at = "failed"]
               ELSE [NoHandoff EXCEPT !.op = "loss", !.at = "begin"]
    /\ UNCHANGED <<slotVars, fileVars, bus, inbox, source, coord, lost, active,
                   stopping, shut, pipe>>

\* observe_loss and observe_quiesced
LossObserved == [coord EXCEPT !.state = "UNAVAILABLE", !.attempts = 0,
                              !.candidate = "none", !.confirmed = 0]

Isolated ==
    /\ run = "handing" /\ hand.at = "done"
    /\ hand' = NoHandoff
    /\ lost' = [isolated |-> TRUE, messages |-> 1]
    /\ coord' = LossObserved
    /\ run' = "classifying"
    /\ UNCHANGED <<slotVars, fileVars, bus, inbox, source, active, stopping, shut, pipe>>

HandoffRaises ==
    /\ run \in {"handing", "restoring"} /\ hand.at = "failed"
    /\ hand' = NoHandoff
    /\ run' = "failed"
    /\ UNCHANGED <<slotVars, fileVars, bus, inbox, source, coord, lost, active,
                   stopping, shut, pipe>>

\* Two probes of the devices classify the loss; nothing depends on the verdict.
Classified ==
    /\ run = "classifying"
    /\ run' = "loop"
    /\ UNCHANGED <<driverVars, coord, lost, active, stopping, shut, pipe>>

-----------------------------------------------------------------------------
(* _poll_audio_restoration and AudioHotplugCoordinator *)

\* Not isolated, or poll() has nothing to do yet.
NothingToRestore ==
    /\ run = "idle"
    /\ coord.state # "RESTORE_PENDING"
    /\ run' = "loop"
    /\ UNCHANGED <<driverVars, coord, lost, active, stopping, shut, pipe>>

\* poll(): a campaign is exhausted and cools down, or one more rediscovery begins.
PollCoordinator ==
    /\ run = "idle" /\ lost.isolated
    /\ coord.state = "UNAVAILABLE"
    /\ IF coord.attempts >= MaxAttempts
       THEN /\ coord' = [coord EXCEPT !.attempts = 0, !.candidate = "none", !.confirmed = 0]
            /\ run' = "loop"
       ELSE /\ coord' = [coord EXCEPT !.attempts = @ + 1]
            /\ run' = "probing"
    /\ UNCHANGED <<driverVars, lost, active, stopping, shut, pipe>>

\* observe_rediscovery: two identical observations in a row.
Confirmations(o) == IF coord.candidate = o THEN coord.confirmed + 1 ELSE 1

Rediscovered ==
    /\ run = "probing"
    /\ \E o \in Observations :
        coord' = IF o = "absent" THEN [coord EXCEPT !.candidate = "none", !.confirmed = 0]
                 ELSE [coord EXCEPT !.candidate = o, !.confirmed = Confirmations(o),
                                    !.state = IF Confirmations(o) >= 2 THEN "RESTORE_PENDING" ELSE @]
    /\ run' = IF coord'.state = "RESTORE_PENDING" THEN "idle" ELSE "loop"
    /\ UNCHANGED <<driverVars, lost, active, stopping, shut, pipe>>

\* observe_fragment_boundary, then the driver call.
Restore ==
    /\ run = "idle" /\ lost.isolated
    /\ coord.state = "RESTORE_PENDING"
    /\ coord' = [coord EXCEPT !.state = "RESTORING"]
    /\ hand' = IF pipe = "null" THEN [NoHandoff EXCEPT !.at = "refused"]
               ELSE [NoHandoff EXCEPT !.op = "restore", !.at = "begin"]
    /\ run' = "restoring"
    /\ UNCHANGED <<slotVars, fileVars, bus, inbox, source, lost, active, stopping, shut, pipe>>

\* observe_restore_failed: a failure before the route moved is tried again later.
RestoreRefused ==
    /\ run = "restoring" /\ hand.at = "refused"
    /\ hand' = NoHandoff
    /\ coord' = [coord EXCEPT !.state = "UNAVAILABLE", !.candidate = "none", !.confirmed = 0]
    /\ run' = "loop"
    /\ UNCHANGED <<slotVars, fileVars, bus, inbox, source, lost, active, stopping, shut, pipe>>

Reconnected == [isolated |-> FALSE, messages |-> 0]

\* The route has moved; the effective audio caps decide whether it counts.
Restored ==
    /\ run = "restoring" /\ hand.at = "done"
    /\ hand' = NoHandoff
    /\ run' \in {"loop", "failed"}
    /\ IF run' = "loop" THEN coord' = FreshCoord /\ lost' = Reconnected
       ELSE UNCHANGED <<coord, lost>>
    /\ UNCHANGED <<slotVars, fileVars, bus, inbox, source, active, stopping, shut, pipe>>

-----------------------------------------------------------------------------
(* stop() *)

\* The runtime sets the event and calls stop(), which starts the shutdown task.
StopCalled ==
    /\ shut.at = "none" /\ run # "starting" /\ pipe \in {"created", "playing"}
    /\ stopping' = TRUE
    /\ shut' = [NoShutdown EXCEPT !.at = "eos", !.target = active]
    /\ UNCHANGED <<driverVars, run, coord, lost, active, pipe>>

EosSent ==
    /\ shut.at = "eos" /\ DriverFree
    /\ \E parent \in BOOLEAN : SendEos(parent)
    /\ shut' = [shut EXCEPT !.at = "drain"]
    /\ UNCHANGED <<topology, hand, fileVars, inbox, source, run, coord, lost, active,
                   stopping, pipe>>

\* Refused, no unique route, or no IDR within three seconds.
EosFails ==
    /\ shut.at = "eos" /\ DriverFree
    /\ shut' = [shut EXCEPT !.at = "null", !.ok = FALSE]
    /\ UNCHANGED <<driverVars, run, coord, lost, active, stopping, pipe>>

\* The fragment the shutdown waits for, after a message.
Target(m) ==
    IF m.kind = "opened" /\ (shut.target = 0 \/ m.seq >= shut.target)
    THEN m.seq ELSE shut.target

\* _shutdown_pipeline: one message.
ShutdownHandles(m) ==
    /\ active' = Observed(m)
    /\ lost' = IF m.kind = "audio" /\ lost.isolated THEN [lost EXCEPT !.messages = @ + 1] ELSE lost
    /\ shut' =
        CASE m.kind = "eos" ->
                [shut EXCEPT !.eos = TRUE, !.at = IF shut.target = 0 THEN "null" ELSE @]
          [] m.kind = "closed" /\ shut.target # 0 /\ m.seq = shut.target ->
                [shut EXCEPT !.at = "null"]
          [] m.kind \in {"error", "raise"} \/ (m.kind = "audio" /\ (~lost.isolated \/ lost.messages >= 4)) ->
                [shut EXCEPT !.at = "null", !.ok = FALSE]
          [] OTHER -> [shut EXCEPT !.target = Target(m)]

DrainInbox ==
    /\ shut.at = "drain" /\ DriverFree
    /\ Len(inbox) > 0
    /\ inbox' = Tail(inbox)
    /\ ShutdownHandles(Head(inbox))
    /\ UNCHANGED <<slotVars, hand, fileVars, bus, source, run, coord, stopping, pipe>>

DrainBus ==
    /\ shut.at = "drain" /\ DriverFree
    /\ Len(inbox) = 0 /\ Len(bus) > 0
    /\ Pop(Head(bus))
    /\ IF Popped(Head(bus)) = "none" THEN UNCHANGED <<active, lost, shut>>
       ELSE ShutdownHandles(ForBackend(Head(bus)))
    /\ UNCHANGED <<arbiter, topology, hand, writing, closing, nextSeq, inbox, source,
                   run, coord, stopping, pipe>>

\* Mutant of DrainTimesOut: the deadline is only looked at after the parent EOS.
DrainTimesOutAfterEos ==
    /\ shut.at = "drain" /\ shut.eos
    /\ shut' = [shut EXCEPT !.at = "null", !.ok = FALSE]
    /\ UNCHANGED <<driverVars, run, coord, lost, active, stopping, pipe>>

\* eos_timeout_s
DrainTimesOut ==
    /\ shut.at = "drain"
    /\ shut' = [shut EXCEPT !.at = "null", !.ok = FALSE]
    /\ UNCHANGED <<driverVars, run, coord, lost, active, stopping, pipe>>

\* set_null joins the dispatched workers and releases the slots.
SetNull ==
    /\ shut.at = "null" /\ DriverFree
    /\ slot' = [s \in Slots |-> [slot[s] EXCEPT !.linked = FALSE]]
    /\ pipe' = "null"
    /\ shut' = [shut EXCEPT !.at = "done"]
    /\ UNCHANGED <<arbiter, ctx, topology, hand, fileVars, bus, inbox, source,
                   run, coord, lost, active, stopping>>

\* _null_cleanup_pending: the next stop() retries only the NULL state after a
\* drain that succeeded, and the whole shutdown after one that failed.
RetryAt == IF shut.ok THEN "null" ELSE "eos"

SetNullFails ==
    /\ shut.at = "null" /\ DriverFree
    /\ shut' = [shut EXCEPT !.at = "stuck"]
    /\ UNCHANGED <<driverVars, run, coord, lost, active, stopping, pipe>>

StopAgainCalled ==
    /\ shut.at = "stuck"
    /\ shut' = [NoShutdown EXCEPT !.at = RetryAt, !.target = active, !.ok = TRUE]
    /\ UNCHANGED <<driverVars, run, coord, lost, active, stopping, pipe>>

StartStep == CreatePipeline \/ SetPlaying \/ Started \/ StartFails

RunStep ==
    \/ RunEnds \/ PollBegins \/ PollInbox \/ PollBus \/ PollEmpty
    \/ Arm \/ ArmRefused \/ Isolate \/ Isolated \/ HandoffRaises \/ Classified
    \/ NothingToRestore \/ PollCoordinator \/ Rediscovered \/ Restore \/ RestoreRefused \/ Restored

ShutdownStep ==
    \/ EosSent \/ EosFails \/ DrainInbox \/ DrainBus \/ DrainTimesOut \/ SetNull \/ SetNullFails

\* The deadline of a handoff.
HandoffDeadline == pipe = "playing" /\ (LossFails \/ RestoreFails) /\ UNCHANGED backendVars

MediaNext ==
    \/ pipe = "playing" /\ DriverStep /\ UNCHANGED backendVars
    \/ StartStep
    \/ RunStep
    \/ ShutdownStep
    \/ StopCalled
    \/ StopAgainCalled

\* The event loop runs both coroutines and every wait has a deadline; streaming
\* threads, devices and callers of stop() owe nothing.
MediaFairness ==
    /\ WF_mediaVars(RunStep)
    /\ WF_mediaVars(DrainTimesOut)
    /\ WF_mediaVars(EosFails)
    /\ WF_mediaVars(SetNull \/ SetNullFails)
    /\ WF_mediaVars(HandoffDeadline)

-----------------------------------------------------------------------------
(* Properties *)

Critical == ctx.phase \in {"LOSS_CONTAINMENT_CRITICAL", "RESTORATION_CRITICAL"}

\* The encoded video has at most one way into a file, at every step of both
\* handoffs; and until a handoff has cut the old route, or EOS was sent, it has
\* exactly one, the slot the driver calls active: an attempt that fails before
\* its cut leaves the recording where it was.
RouteOwned ==
    LET routes == {s \in Slots : Routed(s)} IN
    /\ Cardinality(routes) <= 1
    /\ (pipe = "playing" /\ ~hand.mutated /\ ~Critical /\ ctx.phase # "VIDEO_ONLY_CLOSING") => routes = {ctx.active}

\* A slot is never given back to standby, or to a new activation, while a file of
\* its activation is written, finalized or announced on the bus: the driver would
\* refuse the closure and the recording would not be finalized.
FragmentsOwned ==
    \A f \in {writing[s] : s \in Slots} \cup closing
             \cup {bus[i].frag : i \in {i \in 1..Len(bus) : bus[i].kind \in {"opened", "closed"}}} :
        f # NoFragment => Owned(f)

\* Whatever order the EOS of the dead microphone and the EOS of the driver come in,
\* the muxer of the A/V slot gets one on its audio pad, never two.
OneAudioEos == arbiter.forwarded <= 1

\* A topology published as stable names the slot and the activation that record.
StableTopologyTrue ==
    topology.kind = "stable" =>
        topology.active = ctx.active /\ topology.act = slot[ctx.active].act

\* Outside of a driver call backend, driver and coordinator agree on whether the
\* session records without its microphone.
IsolationAgrees ==
    run \notin {"handing", "restoring", "failed"} =>
        /\ lost.isolated = ctx.isolated
        /\ lost.isolated = (coord.state # "ACTIVE")
        /\ coord.state \notin {"QUIESCING", "RESTORING"}

\* The parts of the backend agree on what records where, through both handoffs.
MediaInv == RouteOwned /\ FragmentsOwned /\ OneAudioEos /\ StableTopologyTrue /\ IsolationAgrees

\* Every stop() comes to an end although run() may be in the middle of a handoff.
StopEnds == shut.at = "eos" ~> shut.at \in {"done", "stuck"}
=============================================================================
