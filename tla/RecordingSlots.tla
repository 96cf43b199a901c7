--------------------------- MODULE RecordingSlots ---------------------------
(***************************************************************************)
(* The GStreamer driver of a recording session with a microphone: one      *)
(* audio/video slot (1) and two video-only slots (2, 3) behind a common    *)
(* encoder.  At a loss of the microphone isolate_audio_loss hands the      *)
(* video over to a video-only slot, restore_audio hands it back.  Both run *)
(* in one driver thread, step by step, while streaming threads open, roll  *)
(* over and close files, the ALSA source fails and posts messages.         *)
(*                                                                         *)
(* A fragment is a record of its sequence and of the slot and activation   *)
(* that asked for its location.  Running times and the pads, probes and    *)
(* element identities the driver re-proves at every step are abstracted to *)
(* the verdict of the proof: a step succeeds or its failure branch is      *)
(* taken.  The barrier and manual EOS of the arbiter have no caller.       *)
(***************************************************************************)
EXTENDS Naturals, Sequences, FiniteSets

CONSTANTS
    MaxFragments,  \* bound of the instance: sequences handed out
    MaxLosses,     \* bound of the instance: failures of the ALSA source
    MaxBus         \* bound of the instance: messages waiting on the bus

ASSUME SlotsAssumption ==
    MaxFragments \in Nat /\ MaxLosses \in Nat /\ MaxBus \in Nat \ {0}

VARIABLES
    slot,      \* the three _RecordingGeneration objects
    arbiter,   \* _AudioEosArbiter of slot 1
    ctx,       \* routing fields of _GenerationPipeline
    topology,  \* published_topology
    hand,      \* the handoff that runs in the driver thread
    writing,   \* the file each splitmuxsink writes to
    closing,   \* files that are finalized asynchronously
    nextSeq,   \* next_sequence
    owners,    \* location_generation
    bus,       \* messages of the pipeline nobody has popped
    inbox,     \* pending_messages: popped by a handoff, not yet delivered
    source     \* the newest ALSA source, and whether the rest of the pipeline has failed

slotVars == <<slot, arbiter, ctx, topology>>
fileVars == <<writing, closing, nextSeq, owners>>
driverVars == <<slotVars, hand, fileVars, bus, inbox, source>>

Slots == 1..3
VideoSlots == {2, 3}
NoFragment == [seq |-> 0, slot |-> 0, act |-> 0]
Routed(s) == slot[s].linked /\ slot[s].open
FreshArbiter == [state |-> "OPEN", armed |-> FALSE, foreign |-> 0, forwarded |-> 0]
NoHandoff == [op |-> "none", at |-> "none", next |-> 0, held |-> FALSE, retry |-> FALSE,
              mutated |-> FALSE, location |-> 0, prior |-> 0]

\* _RecordingGeneration as _make_generation leaves it: closed, unlinked, locked.
StandbySlot == [linked |-> FALSE, open |-> FALSE, act |-> 0, reusable |-> TRUE,
                opened |-> {}, lastClosed |-> 0, eosSent |-> FALSE]

\* create_pipeline: slot 1 is activated, linked and open.
CreatedSlots == [s \in Slots |->
    IF s = 1 THEN [StandbySlot EXCEPT !.linked = TRUE, !.open = TRUE, !.act = 1, !.reusable = FALSE]
    ELSE StandbySlot]

\* _GenerationPipeline
FreshContext == [active |-> 1, nextAct |-> 2, nextVideo |-> 2, isolated |-> FALSE,
                 phase |-> "AV_ACTIVE", verified |-> FALSE, quarantine |-> FALSE,
                 errors |-> 0, ingress |-> 1]

DriverInit ==
    /\ slot = CreatedSlots
    /\ arbiter = FreshArbiter
    /\ ctx = FreshContext
    /\ topology = [kind |-> "none", active |-> 0, act |-> 0]
    /\ hand = NoHandoff
    /\ writing = [s \in Slots |-> NoFragment]
    /\ closing = {}
    /\ nextSeq = 1
    /\ owners = {}
    /\ bus = <<>>
    /\ inbox = <<>>
    /\ source = [id |-> 1, alive |-> TRUE, losses |-> 0, eos |-> 0, broken |-> FALSE]

-----------------------------------------------------------------------------
(* Streaming threads *)

Post(m) == bus' = Append(bus, m)
Room == Len(bus) < MaxBus

\* format_location refuses an inactive slot and a fifth live location.
MayAllocate(s) ==
    /\ slot[s].act # 0
    /\ nextSeq <= MaxFragments
    /\ Cardinality(owners) < 4

\* The first buffer of a route, or a full minute, makes splitmuxsink open a file;
\* the old one is finalized asynchronously.
OpenFile(s) ==
    /\ Routed(s) /\ ~slot[s].eosSent
    /\ Room
    /\ MayAllocate(s)
    /\ LET f == [seq |-> nextSeq, slot |-> s, act |-> slot[s].act] IN
        /\ writing' = [writing EXCEPT ![s] = f]
        /\ owners' = owners \cup {f}
        /\ Post([kind |-> "opened", frag |-> f])
    /\ closing' = closing \cup ({writing[s]} \ {NoFragment})
    /\ nextSeq' = nextSeq + 1
    /\ UNCHANGED <<slotVars, hand, inbox, source>>

\* A muxer that has got EOS on all its pads finalizes its file.
DrainFile(s) ==
    /\ writing[s] # NoFragment
    /\ slot[s].eosSent
    /\ s = 1 => arbiter.forwarded > 0
    /\ writing' = [writing EXCEPT ![s] = NoFragment]
    /\ closing' = closing \cup {writing[s]}
    /\ UNCHANGED <<slotVars, hand, nextSeq, owners, bus, inbox, source>>

CloseFile ==
    /\ Room
    /\ \E f \in closing :
        /\ closing' = closing \ {f}
        /\ Post([kind |-> "closed", frag |-> f])
    /\ UNCHANGED <<slotVars, hand, writing, nextSeq, owners, inbox, source>>

\* The microphone fails; its source posts an error and may send EOS downstream.
SourceFails ==
    /\ source.alive
    /\ source.losses < MaxLosses
    /\ Room
    /\ Post([kind |-> "alsa", src |-> source.id])
    /\ \E n \in 0..2 :
        source' = [source EXCEPT !.alive = FALSE, !.losses = @ + 1, !.eos = n]
    /\ UNCHANGED <<slotVars, hand, fileVars, inbox>>

\* The camera, the encoder or a sink fails, once: nothing recovers within a session.
PipelineFails ==
    /\ Room
    /\ ~source.broken
    /\ Post([kind |-> "error"])
    /\ source' = [source EXCEPT !.broken = TRUE]
    /\ UNCHANGED <<slotVars, hand, fileVars, inbox>>

-----------------------------------------------------------------------------
(* _AudioEosArbiter: exactly one EOS may reach the audio pad of the muxer *)

\* observe_eos, in the pad probe: exact says that it is the reserved event.
ObserveEos(exact) ==
    arbiter' =
        CASE arbiter.state = "GENERATION_ARMED" /\ exact ->
                [arbiter EXCEPT !.state = "GENERATION", !.forwarded = @ + 1]
          [] arbiter.state = "GENERATION_ARMED" /\ ~exact ->
                [arbiter EXCEPT !.foreign = @ + 1,
                                !.state = IF arbiter.foreign >= 1 THEN "REFUSED" ELSE @]
          [] arbiter.state = "OPEN" ->
                [arbiter EXCEPT !.state = "NATURAL", !.forwarded = @ + 1]
          [] OTHER -> [arbiter EXCEPT !.state = "REFUSED"]

\* arm_retirement
MayArm == ~arbiter.armed /\ arbiter.state \in {"OPEN", "NATURAL"}

\* boundary_kind and has_forwarded_eos
Boundary == arbiter.armed /\ arbiter.state \in {"NATURAL", "GENERATION"}

\* An EOS of the dead source reaches slot 1 as long as its audio is linked.
NaturalEos ==
    /\ source.eos > 0
    /\ slot[1].linked
    /\ source' = [source EXCEPT !.eos = @ - 1]
    /\ ObserveEos(FALSE)
    /\ UNCHANGED <<slot, ctx, topology, hand, fileVars, bus, inbox>>

-----------------------------------------------------------------------------
(* _poll_bus_native: what popping a message does to the driver *)

Owned(f) == f \in owners /\ slot[f.slot].act = f.act

\* _quarantine_audio_bus_message: what an error of the quarantined ingress counts as.
QuarantinedError == IF ctx.errors >= 4 THEN "raise" ELSE "none"

\* An error of an ALSA source: an audio error only if it is the source in use.
AlsaError(src) ==
    CASE src = ctx.ingress /\ ctx.quarantine  -> QuarantinedError
      [] src = ctx.ingress /\ ~ctx.quarantine -> "audio"
      [] OTHER -> "error"

\* What the caller gets: a message for the backend, "none", or "raise".
Popped(m) ==
    CASE m.kind = "opened" ->
            IF Owned(m.frag) /\ Cardinality(slot[m.frag.slot].opened) < 2 THEN m.kind ELSE "raise"
      [] m.kind = "closed" ->
            IF Owned(m.frag) /\ m.frag \in slot[m.frag.slot].opened THEN m.kind ELSE "raise"
      [] m.kind = "alsa" -> AlsaError(m.src)
      [] OTHER -> m.kind

Pop(m) ==
    /\ bus' = Tail(bus)
    /\ CASE m.kind = "opened" /\ Popped(m) # "raise" ->
              /\ slot' = [slot EXCEPT ![m.frag.slot].opened = @ \cup {m.frag}]
              /\ UNCHANGED <<owners, ctx>>
         [] m.kind = "closed" /\ Popped(m) # "raise" ->
              /\ slot' = [slot EXCEPT ![m.frag.slot].opened = @ \ {m.frag},
                                      ![m.frag.slot].lastClosed = m.frag.seq]
              /\ owners' = owners \ {m.frag}
              /\ UNCHANGED ctx
         [] m.kind = "alsa" /\ Popped(m) = "none" ->
              /\ ctx' = [ctx EXCEPT !.errors = @ + 1]
              /\ UNCHANGED <<slot, owners>>
         [] OTHER -> UNCHANGED <<slot, owners, ctx>>

ForBackend(m) == [kind |-> Popped(m), seq |-> IF m.kind \in {"opened", "closed"}
                                              THEN m.frag.seq ELSE 0]

\* _drain_handoff_fatal_bus
FatalKinds == {"error", "audio", "eos"}
FatalWaiting == \E i \in 1..Len(inbox) : inbox[i].kind \in FatalKinds

MayRestore == ctx.isolated /\ ctx.active \in VideoSlots /\ ctx.quarantine

\* The provenance of restore_audio empties the bus before anything is changed.
Draining == hand.op = "restore" /\ hand.at = "begin" /\ MayRestore /\ ~FatalWaiting

\* _preserve_handoff_bus: the waits of a handoff pop the bus and keep the messages
\* for poll_bus; the failure branches stand for a message that ends the handoff.
Pump ==
    /\ Draining \/ hand.at \in {"idr", "proof", "closing", "held"}
    /\ Len(bus) > 0
    /\ Popped(Head(bus)) \notin {"raise", "eos"} \cup (IF Draining THEN FatalKinds ELSE {})
    /\ Pop(Head(bus))
    /\ inbox' = IF Popped(Head(bus)) = "none" THEN inbox
                ELSE Append(inbox, ForBackend(Head(bus)))
    /\ UNCHANGED <<arbiter, topology, hand, writing, closing, nextSeq, source>>

\* A fatal message ends the drain, and nobody sees it again.
DrainDropsFatal ==
    /\ Draining
    /\ Len(bus) > 0
    /\ Popped(Head(bus)) \in FatalKinds \cup {"raise"}
    /\ Pop(Head(bus))
    /\ hand' = [NoHandoff EXCEPT !.at = "refused"]
    /\ UNCHANGED <<arbiter, topology, writing, closing, nextSeq, inbox, source>>

-----------------------------------------------------------------------------
(* Moving the route *)

\* _publish_stable_topology and _publish_topology_transition
Stable(a, s) == topology' = [kind |-> "stable", active |-> a, act |-> s[a].act]

Transition(kind) == topology' = [topology EXCEPT !.kind = kind]

\* _select_video_successor: the preferred slot, else the first eligible one.
Eligible == {s \in VideoSlots : slot[s].reusable /\ ~slot[s].linked /\ slot[s].act = 0}
Successor == IF ctx.nextVideo \in Eligible THEN ctx.nextVideo
             ELSE CHOOSE s \in Eligible : \A t \in Eligible : s <= t

\* _set_generation_linked refuses a slot that is already there; _set_generation_open.
Linked(all, s, on) == [all EXCEPT ![s].linked = on]
Opened(all, s, on) == [all EXCEPT ![s].open = on]

\* _allocate_slot_activation
Activated(all, s) == [all EXCEPT ![s].act = ctx.nextAct, ![s].reusable = FALSE]

\* _prewarm_generation: a closed slot without files starts before the video is held.
Prewarmable(s) ==
    /\ ~slot[s].linked /\ ~slot[s].open /\ slot[s].opened = {}
    /\ \A f \in owners : ~(f.slot = s /\ f.act = ctx.nextAct)

\* _audio_loss_route_is_contained
Contained(s) == ~slot[s].linked /\ ~slot[s].open

\* _measure_audio_ingress: the one ingress is the one the context owns.
IngressMeasured == ~ctx.quarantine /\ ctx.ingress = source.id

\* _generation_playing_converged: the slot is routed and plays, for slot 1 behind
\* an ingress that is not quarantined.
Converged(s) ==
    /\ Routed(s)
    /\ s = 1 => IngressMeasured

\* _measure_generation_topology: only the active slot is linked, every request pad
\* has the peer it was made for.
MeasuredStable(all, a) == \A s \in Slots : all[s].linked = (s = a)

\* _recycle_generation: only an exactly closed slot gets back to standby.
Recycled(s) == StandbySlot
MayRecycle(s) ==
    /\ ~slot[s].linked /\ slot[s].opened = {} /\ slot[s].lastClosed # 0 /\ slot[s].act # 0

\* arm_audio_loss, with _arm_audio_ingress_quarantine
MayArmLoss ==
    /\ ~ctx.isolated /\ ctx.active = 1 /\ slot[1].linked
    /\ MayArm /\ ~ctx.quarantine /\ ctx.ingress # 0

ArmLoss ==
    /\ arbiter' = [arbiter EXCEPT !.armed = TRUE]
    /\ ctx' = [ctx EXCEPT !.quarantine = TRUE, !.errors = 0]
    /\ UNCHANGED <<slot, topology, hand, fileVars, bus, inbox, source>>

\* isolate_audio_loss: the successor is activated, prewarmed and linked, its valve
\* closed.
LossPrepare ==
    /\ hand.op = "loss" /\ hand.at = "begin"
    /\ ~ctx.isolated /\ ctx.active = 1 /\ arbiter.armed /\ ctx.quarantine
    /\ Eligible # {}
    /\ LET s == Successor IN
        /\ Prewarmable(s) /\ slot[1].linked
        /\ slot' = Linked(Activated(slot, s), s, TRUE)
        /\ ctx' = [ctx EXCEPT !.nextAct = @ + 1, !.nextVideo = 5 - s, !.phase = "SWITCHING"]
        /\ hand' = [hand EXCEPT !.at = "linked", !.next = s, !.prior = ctx.nextVideo]
    /\ Transition("handoff_in_progress")
    /\ UNCHANGED <<arbiter, fileVars, bus, inbox, source>>

\* _arm_forced_idr_gate: an IDR is requested for the linked successor, and the
\* encoder accepts; it will be held in front of the closed valve.
LossRequestIdr ==
    /\ hand.op = "loss" /\ hand.at = "linked"
    /\ Cardinality(slot[1].opened) = 1
    /\ slot[hand.next].linked
    /\ hand' = [hand EXCEPT !.at = "idle",
                            !.location = (CHOOSE f \in slot[1].opened : TRUE).seq]
    /\ UNCHANGED <<slotVars, fileVars, bus, inbox, source>>

\* hold_idr, in the streaming thread: the requested IDR arrives and is held.
IdrArrives ==
    /\ hand.op = "loss" /\ hand.at \in {"idle", "idr"} /\ ~hand.held
    /\ hand' = [hand EXCEPT !.held = TRUE]
    /\ UNCHANGED <<slotVars, fileVars, bus, inbox, source>>

\* The audio branch is idle and its queue is empty twice in 50 ms; at the first
\* sample freeze_inside_drain_proof_gap closes the valves of slot 1.
LossCut ==
    /\ hand.op = "loss" /\ hand.at = "idle"
    /\ slot' = Opened(slot, 1, FALSE)
    /\ ctx' = [ctx EXCEPT !.phase = "LOSS_CUT_PENDING_IDR_PROOF"]
    /\ hand' = [hand EXCEPT !.at = "idr", !.mutated = TRUE]
    /\ UNCHANGED <<arbiter, topology, fileVars, bus, inbox, source>>

\* The held IDR precedes the end of the audio: discarded, requested once more.
LossIdrEarly ==
    /\ hand.op = "loss" /\ hand.at = "idr" /\ hand.held /\ ~hand.retry
    /\ hand' = [hand EXCEPT !.held = FALSE, !.retry = TRUE]
    /\ UNCHANGED <<slotVars, fileVars, bus, inbox, source>>

\* The held IDR meets the end of the audio: _finalize_forced_idr_gate.
LossIdrHeld ==
    /\ hand.op = "loss" /\ hand.at = "idr" /\ hand.held
    /\ ctx' = [ctx EXCEPT !.phase = "LOSS_BOUNDARY_COMMITTED"]
    /\ hand' = [hand EXCEPT !.at = "boundary"]
    /\ UNCHANGED <<slot, arbiter, topology, fileVars, bus, inbox, source>>

\* reserve_generation_eos
MayReserve == arbiter.armed /\ arbiter.state = "OPEN" /\ arbiter.foreign = 0

\* _establish_audio_retirement_boundary without a natural EOS: one event for the
\* whole generation is reserved and dispatched.
LossReserve ==
    /\ hand.op = "loss" /\ hand.at = "boundary"
    /\ MayReserve
    /\ arbiter' = [arbiter EXCEPT !.state = "GENERATION_ARMED"]
    /\ hand' = [hand EXCEPT !.at = "dispatched"]
    /\ UNCHANGED <<slot, ctx, topology, fileVars, bus, inbox, source>>

\* The reserved event reaches both pads of the muxer.
GenerationEos ==
    /\ hand.at = "dispatched"
    /\ ~slot[1].eosSent
    /\ ObserveEos(TRUE)
    /\ slot' = [slot EXCEPT ![1].eosSent = TRUE]
    /\ UNCHANGED <<ctx, topology, hand, fileVars, bus, inbox, source>>

\* The boundary is proven: slot 1 is unlinked, the successor opened and committed
\* while the IDR is held.
LossRoute ==
    /\ hand.op = "loss"
    /\ \/ hand.at = "boundary" /\ arbiter.state = "NATURAL"
       \/ hand.at = "dispatched" /\ arbiter.state = "GENERATION"
    /\ Boundary
    /\ slot' = Opened(Linked(slot, 1, FALSE), hand.next, TRUE)
    /\ Contained(1)'
    /\ ctx' = [ctx EXCEPT !.verified = TRUE, !.active = hand.next,
                          !.phase = "VIDEO_ONLY_ACTIVE"]
    /\ hand' = [hand EXCEPT !.at = "proof"]
    /\ UNCHANGED <<arbiter, topology, fileVars, bus, inbox, source>>

\* _start_retired_video_eos_dispatch: one file is open, or the EOS of the generation
\* has closed it already.
MayRetireVideo(s) ==
    /\ ~slot[s].linked
    /\ slot[s].act # 0
    /\ \/ Cardinality(slot[s].opened) = 1
       \/ slot[s].eosSent /\ slot[s].opened = {} /\ slot[s].lastClosed # 0
          /\ \A f \in owners : ~(f.slot = s /\ f.act = slot[s].act)

\* _await_retirement_dispatch: the slot is still the retired one.
EosDispatched(s) == slot[s].act # 0 /\ ~slot[s].linked

\* The successor writes its first file and plays: _start_retired_video_eos_dispatch
\* sends EOS to the retired branch, unless the generation EOS has reached it.
RetireVideo ==
    /\ hand.op # "none" /\ hand.at = "proof"
    /\ LET old == IF hand.op = "loss" THEN 1 ELSE hand.prior
           new == IF hand.op = "loss" THEN hand.next ELSE 1 IN
        /\ Cardinality(slot[new].opened) = 1
        /\ Converged(new)
        /\ MayRetireVideo(old)
        /\ slot' = [slot EXCEPT ![old].eosSent = TRUE]
        /\ EosDispatched(old)
    /\ hand' = [hand EXCEPT !.at = "closing"]
    /\ UNCHANGED <<arbiter, ctx, topology, fileVars, bus, inbox, source>>

\* The fragment of the cut is closed and _prove_retirement_has_no_successor_fragment.
Retired(s) ==
    /\ slot[s].lastClosed = hand.location
    /\ MayRecycle(s)
    /\ \A f \in owners : ~(f.slot = s /\ f.act = slot[s].act)

\* Closure, continuity and the final proofs hold: slot 1 is recycled.
LossDone ==
    /\ hand.op = "loss" /\ hand.at = "closing"
    /\ Retired(1)
    /\ Boundary
    /\ slot' = [slot EXCEPT ![1] = Recycled(1)]
    /\ arbiter' = FreshArbiter
    /\ ctx' = [ctx EXCEPT !.isolated = TRUE]
    /\ MeasuredStable(slot', ctx.active)
    /\ Stable(ctx.active, slot')
    /\ hand' = [NoHandoff EXCEPT !.at = "done"]
    /\ UNCHANGED <<fileVars, bus, inbox, source>>

\* Any step of isolate_audio_loss fails.  Before the cut the successor goes back
\* to standby (unless that fails); after it slot 1 is contained if it can be.
LossFails ==
    /\ hand.op = "loss"
    /\ hand' = [NoHandoff EXCEPT !.at = "failed"]
    /\ IF hand.mutated
       THEN /\ ctx' = [ctx EXCEPT !.phase = "LOSS_CONTAINMENT_CRITICAL"]
            /\ \E contained \in BOOLEAN :
                slot' = [slot EXCEPT ![1].open = FALSE,
                                     ![1].linked = @ /\ ~contained]
            /\ Transition("faulted_handoff")
       ELSE IF hand.next = 0
       THEN UNCHANGED <<slot, ctx, topology>>
       ELSE /\ Transition("faulted_handoff")
            /\ \/ /\ slot' = [slot EXCEPT ![hand.next] = StandbySlot]
                  /\ ctx' = [ctx EXCEPT !.nextVideo = hand.prior, !.verified = FALSE,
                                        !.phase = "AV_ACTIVE"]
               \/ /\ slot' = [slot EXCEPT ![hand.next].linked = FALSE]
                  /\ UNCHANGED ctx
    /\ UNCHANGED <<arbiter, fileVars, bus, inbox, source>>

\* The checks of restore_audio before its first change, the provenance of a parent
\* failure included.
RestoreAdmit ==
    /\ Draining /\ Len(bus) = 0
    /\ slot[ctx.active].linked /\ slot[ctx.active].act # 0 /\ ~slot[1].linked
    /\ hand' = [hand EXCEPT !.at = "admitted", !.prior = ctx.active]
    /\ Transition("handoff_in_progress")
    /\ UNCHANGED <<slot, arbiter, ctx, fileVars, bus, inbox, source>>

\* _rebuild_audio_ingress: the old ingress is removed and its quarantine ends;
\* _install_audio_ingress joins a new one.
Rebuild ==
    /\ hand.op = "restore" /\ hand.at = "admitted"
    /\ slot[1].reusable /\ slot[1].act = 0 /\ slot[1].opened = {}
    /\ ctx.ingress # 0
    /\ source' = [source EXCEPT !.id = @ + 1, !.alive = TRUE, !.eos = 0]
    /\ ctx' = [ctx EXCEPT !.quarantine = FALSE, !.ingress = source.id + 1]
    /\ hand' = [hand EXCEPT !.at = "rebuilt"]
    /\ UNCHANGED <<slot, arbiter, topology, fileVars, bus, inbox>>

\* The old ingress is out and the new one cannot be installed: it fails before or
\* after it is bound to the context, or synchronizes without its metrics.
RebuildFails ==
    /\ hand.op = "restore" /\ hand.at = "admitted"
    /\ \E bound \in BOOLEAN :
        /\ ctx' = [ctx EXCEPT !.quarantine = FALSE, !.ingress = IF bound THEN source.id + 1 ELSE 0]
        /\ source' = [source EXCEPT !.id = IF bound THEN @ + 1 ELSE @, !.alive = bound, !.eos = 0]
    /\ hand' = [NoHandoff EXCEPT !.at = "refused"]
    /\ Transition("faulted_handoff")
    /\ UNCHANGED <<slot, arbiter, fileVars, bus, inbox>>

\* Slot 1 is activated and prewarmed; the wait for an IDR begins.
RestorePrepare ==
    /\ hand.op = "restore" /\ hand.at = "rebuilt"
    /\ Prewarmable(1)
    /\ slot' = Activated(slot, 1)
    /\ ctx' = [ctx EXCEPT !.nextAct = @ + 1]
    /\ hand' = [hand EXCEPT !.at = "held"]
    /\ UNCHANGED <<arbiter, topology, fileVars, bus, inbox, source>>

\* Mutant of RestoreRoute: the new route is opened before the old one is closed.
RestoreRouteBoth ==
    /\ hand.op = "restore" /\ hand.at = "held"
    /\ Cardinality(slot[hand.prior].opened) = 1
    /\ slot' = [slot EXCEPT ![1].linked = TRUE, ![1].open = TRUE]
    /\ ctx' = [ctx EXCEPT !.active = 1, !.phase = "AV_RESTORING"]
    /\ hand' = [hand EXCEPT !.at = "proof", !.mutated = TRUE,
                            !.location = (CHOOSE f \in slot[hand.prior].opened : TRUE).seq]
    /\ UNCHANGED <<arbiter, topology, fileVars, bus, inbox, source>>

\* An IDR is held on the common tee: the route moves to slot 1.
RestoreRoute ==
    /\ hand.op = "restore" /\ hand.at = "held"
    /\ Cardinality(slot[hand.prior].opened) = 1
    /\ slot' = Opened(Linked(Opened(Linked(slot, 1, TRUE), hand.prior, FALSE),
                             hand.prior, FALSE), 1, TRUE)
    /\ ctx' = [ctx EXCEPT !.active = 1, !.phase = "AV_RESTORING"]
    /\ hand' = [hand EXCEPT !.at = "proof", !.mutated = TRUE,
                            !.location = (CHOOSE f \in slot[hand.prior].opened : TRUE).seq]
    /\ UNCHANGED <<arbiter, topology, fileVars, bus, inbox, source>>

\* Closure and continuity are proven: the video-only slot is recycled.
RestoreDone ==
    /\ hand.op = "restore" /\ hand.at = "closing"
    /\ Retired(hand.prior)
    /\ slot' = [slot EXCEPT ![hand.prior] = Recycled(hand.prior)]
    /\ ctx' = [ctx EXCEPT !.isolated = FALSE, !.phase = "AV_ACTIVE"]
    /\ MeasuredStable(slot', 1)
    /\ Stable(1, slot')
    /\ hand' = [NoHandoff EXCEPT !.at = "done"]
    /\ UNCHANGED <<arbiter, fileVars, bus, inbox, source>>

\* restore_audio fails.  Before the route has moved slot 1 goes back to standby and
\* the failure is an ordinary one; afterwards, or if that fails, it is critical.
RestoreFails ==
    /\ hand.op = "restore"
    /\ IF hand.at = "begin" THEN UNCHANGED topology ELSE Transition("faulted_handoff")
    /\ \/ /\ ~hand.mutated
          /\ slot' = [slot EXCEPT ![1] = IF slot[1].act # 0 THEN StandbySlot ELSE @]
          /\ hand' = [NoHandoff EXCEPT !.at = "refused"]
          /\ UNCHANGED ctx
       \/ /\ hand.mutated \/ slot[1].act # 0
          /\ ctx' = [ctx EXCEPT !.phase = "RESTORATION_CRITICAL"]
          /\ hand' = [NoHandoff EXCEPT !.at = "failed"]
          /\ UNCHANGED slot
    /\ UNCHANGED <<arbiter, fileVars, bus, inbox, source>>

-----------------------------------------------------------------------------
(* send_eos *)

\* _critical_loss_shutdown_generation: the exact shape of a loss that failed
\* between the cut and the new route.
CriticalRetired ==
    /\ ctx.active = 1 /\ slot[1].act # 0 /\ ~slot[1].linked /\ ~slot[1].open
    /\ Cardinality(slot[1].opened) = 1
    /\ Boundary
    /\ slot[1].eosSent => arbiter.state = "GENERATION"
    /\ owners = slot[1].opened
    /\ Cardinality({s \in VideoSlots : slot[s].linked}) = 1
    /\ \A s \in VideoSlots : slot[s].opened = {} /\ ~slot[s].open

\* _shutdown_generation finds the one route there is.
UniqueRoute == Cardinality({s \in Slots : Routed(s)}) = 1
TheRoute == CHOOSE s \in Slots : Routed(s)

\* EOS goes to the retired A/V slot, to the whole pipeline, or, behind a held IDR,
\* to the video-only slot.  Parent says whether the pipeline posts its own EOS, which
\* it does at most once.
SendEos(parent) ==
    IF ctx.phase = "LOSS_CONTAINMENT_CRITICAL"
    THEN /\ CriticalRetired
         /\ ~parent
         /\ slot' = [slot EXCEPT ![1].eosSent = TRUE]
         /\ UNCHANGED <<ctx, arbiter, bus>>
    ELSE /\ UniqueRoute
         /\ LET s == TheRoute IN
            /\ ctx' = [ctx EXCEPT !.active = s,
                                  !.phase = IF s = 1 THEN "AV_ACTIVE" ELSE "VIDEO_ONLY_CLOSING"]
            /\ IF s = 1
               THEN /\ parent => ~slot[1].eosSent
                    /\ slot' = [slot EXCEPT ![1].eosSent = TRUE]
                    /\ ObserveEos(FALSE)
                    /\ bus' = IF parent THEN Append(bus, [kind |-> "eos"]) ELSE bus
               ELSE /\ ~parent
                    /\ slot' = [slot EXCEPT ![s].open = FALSE, ![s].linked = FALSE,
                                            ![s].eosSent = TRUE]
                    /\ UNCHANGED <<arbiter, bus>>

DriverStep ==
    \/ \E s \in Slots : OpenFile(s) \/ DrainFile(s)
    \/ CloseFile \/ SourceFails \/ PipelineFails \/ NaturalEos \/ GenerationEos
    \/ Pump \/ DrainDropsFatal \/ LossPrepare \/ LossRequestIdr \/ IdrArrives \/ LossCut \/ LossIdrEarly \/ LossIdrHeld \/ LossReserve
    \/ LossRoute \/ RetireVideo \/ LossDone \/ LossFails
    \/ RestoreAdmit \/ Rebuild \/ RebuildFails \/ RestorePrepare \/ RestoreRoute \/ RestoreDone \/ RestoreFails
=============================================================================
