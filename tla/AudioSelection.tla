-------------------------- MODULE AudioSelection --------------------------
(***************************************************************************)
(* How the recorder chooses its microphone and what becomes of the choice: *)
(* the udev discovery of audio/linux.py and audio/alsa.py, which reads one *)
(* node after the other while devices come and go; the start of the        *)
(* recorder, which falls back to video only once; and the replacement of a *)
(* failed attempt, which uses the choice made at the start (or the one the *)
(* backend restored and a status snapshot has imported).                   *)
(*                                                                         *)
(* A device is what its card shows: "mic" answers to the configured        *)
(* selector, "wide" too but exposes two capture PCMs, "dead" answers to it *)
(* and cannot be opened, "odd" answers to it and negotiates other caps,    *)
(* "other" is any other capture device.                                    *)
(***************************************************************************)
EXTENDS Integers, FiniteSets

CONSTANTS Cards,           \* ALSA card indexes
          MaxRestarts,     \* RestartPolicy.max_restarts
          MaxBusChanges,   \* bound: devices plugged or unplugged
          MaxCameraFaults  \* bound: faults of camera or encoder

\* The model counts cards from one: zero is the empty plan.
ASSUME SelectionConstants ==
    Cards \subseteq Nat \ {0} /\ {MaxRestarts, MaxBusChanges, MaxCameraFaults} \subseteq Nat

VARIABLES bus,      \* what udev and ALSA show at each card index
          lookup,   \* discover_capture_device: whom it serves, nodes left, nodes that matched
          audio,    \* the runtime's audio state and plan, and its attempts
          capture,  \* the backend: the device it opened, isolation, restorations
          reported  \* the last runtime_snapshot: its audio state, and whether an attempt ran

selectionVars == <<bus, lookup, audio, capture, reported>>

NoCard == 0
Occupants == {"none", "mic", "wide", "dead", "odd", "other"}

\* AlsaSelector.matches: vendor, product, name and physical path all agree.
SelectorMatches(o) == o \in {"mic", "wide", "dead", "odd"}

Pcms(o) == CASE o = "none" -> 0 [] o = "wide" -> 2 [] OTHER -> 1

\* One physical path holds one device.
Buses == {b \in [Cards -> Occupants] : Cardinality({c \in Cards : SelectorMatches(b[c])}) <= 1}

NoLookup == [for |-> "nobody", left |-> {}, matched |-> {}]

NoBackend == [device |-> "none", plan |-> NoCard, isolated |-> FALSE, restored |-> FALSE]

\* A status taken while an attempt records tells of that attempt; any other tells only what
\* the runtime has selected for the next one.
NothingReported == [state |-> "nothing", of |-> "plan"]

SelectionInit == /\ bus \in Buses
                 /\ lookup = NoLookup
                 /\ audio = [phase |-> "checked", plan |-> NoCard, state |-> "UNAVAILABLE",
                             fallback |-> FALSE, restarts |-> 0, faults |-> 0, changes |-> 0]
                 /\ capture = NoBackend
                 /\ reported = NothingReported

-----------------------------------------------------------------------------
(* The devices. *)

BusChange == \E b \in Buses :
    /\ audio.changes < MaxBusChanges
    /\ Cardinality({c \in Cards : b[c] # bus[c]}) = 1
    /\ bus' = b
    /\ audio' = [audio EXCEPT !.changes = @ + 1]
    /\ UNCHANGED <<lookup, capture, reported>>

-----------------------------------------------------------------------------
(* Discovery: the nodes are listed once, and each is queried in turn. *)

\* The call of discover_capture_device: the directory is read at one moment.
EnumerateCaptureNodes(who) ==
    /\ lookup = NoLookup
    /\ lookup' = [for |-> who, matched |-> {},
                  left |-> {n \in Cards \X {0, 1} : n[2] < Pcms(bus[n[1]])}]

\* udevadm names what the control node of the card is now.
QueryUdev ==
    /\ \E n \in lookup.left :
          /\ \A o \in lookup.left : n[1] < o[1] \/ (n[1] = o[1] /\ n[2] <= o[2])
          /\ bus[n[1]] # "none"
          /\ lookup' = [lookup EXCEPT !.left = @ \ {n},
                           !.matched = IF SelectorMatches(bus[n[1]]) THEN @ \cup {n} ELSE @]
    /\ UNCHANGED <<bus, audio, capture, reported>>

\* resolve_capture_device: exactly one match, or no endpoint at all.
Outcome == CASE Cardinality(lookup.matched) = 1 -> "MATCHED"
             [] lookup.matched = {} -> "NOT_FOUND"
             [] OTHER -> "AMBIGUOUS"

MatchedCard == (CHOOSE n \in lookup.matched : TRUE)[1]

\* Every outcome but a match leaves the audio plan empty.
Resolved(outcome) ==
    [audio EXCEPT !.phase = "open",
                  !.plan = IF outcome = "MATCHED" THEN MatchedCard ELSE NoCard,
                  !.state = CASE outcome = "MATCHED" -> "MATCHED"
                              [] outcome = "NOT_FOUND" -> "UNAVAILABLE"
                              [] OTHER -> "FAULTED"]

\* A node that vanished, a query that timed out or properties that do not agree: REFUSED.
DiscoveryRefused ==
    /\ lookup.for # "nobody"
    /\ lookup' = NoLookup
    /\ IF lookup.for = "start"
       THEN audio' = Resolved("REFUSED") /\ reported' = NothingReported
       ELSE UNCHANGED <<audio, reported>>
    /\ UNCHANGED <<bus, capture>>

-----------------------------------------------------------------------------
(* The start of the recorder. *)

\* _resolve_audio: once, before the camera is owned.
ResolveAudio ==
    /\ audio.phase = "checked"
    /\ EnumerateCaptureNodes("start")
    /\ audio' = [audio EXCEPT !.phase = "discovering"]
    /\ UNCHANGED <<bus, capture, reported>>

\* Audio disabled, another configuration than production, a selector that cannot be parsed.
AudioNotWanted ==
    /\ audio.phase = "checked"
    /\ \E s \in {"DISABLED", "FAULTED"} : audio' = [audio EXCEPT !.phase = "open", !.state = s]
    /\ UNCHANGED <<bus, lookup, capture, reported>>

DiscoveryEnds ==
    /\ lookup.for = "start" /\ lookup.left = {}
    /\ lookup' = NoLookup
    /\ audio' = Resolved(Outcome)
    /\ reported' = NothingReported
    /\ UNCHANGED <<bus, capture>>

\* The endpoint of the plan, opened by alsasrc when the pipeline goes to PLAYING.
Endpoint == IF audio.plan = NoCard THEN "none" ELSE bus[audio.plan]
Opens == audio.plan = NoCard \/ Endpoint \notin {"none", "dead"}

\* The attempt plays, its caps are the expected ones, and its first fragment opens.
AttemptOpens ==
    /\ audio.phase \in {"open", "reopen"}
    /\ Opens /\ Endpoint # "odd"
    /\ audio' = [audio EXCEPT !.phase = "running"]
    /\ capture' = [NoBackend EXCEPT !.device = Endpoint, !.plan = audio.plan]
    /\ UNCHANGED <<bus, lookup, reported>>

\* AudioStartupError: the pipeline plays and the negotiated audio is not the expected one.
\* start() goes on without the microphone, once; a replacement takes it as any other failure.
AudioStartupFails ==
    /\ Opens /\ Endpoint = "odd"
    /\ \/ /\ audio.phase = "open" /\ ~audio.fallback
          /\ audio' = [audio EXCEPT !.fallback = TRUE, !.plan = NoCard, !.state = "FAULTED"]
          /\ reported' = NothingReported
       \/ /\ audio.phase = "reopen"
          /\ audio' = [audio EXCEPT !.phase = "recover"]
          /\ UNCHANGED reported
    /\ UNCHANGED <<bus, lookup, capture>>

\* RecoverablePipelineError: the pipeline does not reach PLAYING. start() passes it on.
PipelineFails(camera) ==
    /\ audio.phase \in {"open", "reopen"}
    /\ IF camera THEN audio.faults < MaxCameraFaults ELSE ~Opens
    /\ audio' = [audio EXCEPT !.phase = IF @ = "open" THEN "failed" ELSE "recover",
                              !.faults = IF camera THEN @ + 1 ELSE @]
    /\ UNCHANGED <<bus, lookup, capture, reported>>

-----------------------------------------------------------------------------
(* The attempt while it runs. *)

\* The device of the open endpoint is gone: the backend isolates the loss and films on. What
\* was reported of the attempt is old from here on.
IsolateLoss ==
    /\ audio.phase = "running"
    /\ capture.device # "none" /\ bus[capture.plan] # capture.device
    /\ capture' = [capture EXCEPT !.device = "none", !.isolated = TRUE]
    /\ reported' = NothingReported
    /\ UNCHANGED <<bus, lookup, audio>>

\* The hotplug coordinator polls the same discovery.
ProbeRestoration ==
    /\ audio.phase = "running" /\ capture.isolated
    /\ EnumerateCaptureNodes("restore")
    /\ UNCHANGED <<bus, audio, capture, reported>>

RestorationEnds ==
    /\ lookup.for = "restore" /\ lookup.left = {}
    /\ lookup' = NoLookup
    /\ IF /\ audio.phase = "running" /\ capture.isolated /\ Outcome = "MATCHED"
          /\ bus[MatchedCard] \in {"mic", "wide"}
       THEN capture' = [capture EXCEPT !.device = bus[MatchedCard], !.plan = MatchedCard,
                                       !.isolated = FALSE, !.restored = TRUE]
       ELSE UNCHANGED capture
    /\ UNCHANGED <<bus, audio, reported>>

\* The same without the question whether the backend isolated a loss.
ObserveRestoredOnly ==
    IF capture.restored THEN [audio EXCEPT !.state = "MATCHED", !.plan = capture.plan] ELSE audio

\* _observe_backend_audio_state: isolation first, then a restoration with its plan.
ObserveBackend == IF capture.isolated THEN [audio EXCEPT !.state = "UNAVAILABLE"]
           ELSE IF capture.restored THEN [audio EXCEPT !.state = "MATCHED", !.plan = capture.plan]
           ELSE audio

\* The daemon asks in every phase: before the start, between two attempts, after the end. With
\* no backend to observe, the state is the one that was left.
RuntimeSnapshot ==
    /\ audio' = ObserveBackend
    /\ reported' = [state |-> audio'.state,
                    of |-> IF audio.phase = "running" THEN "attempt" ELSE "plan"]
    /\ UNCHANGED <<bus, lookup, capture>>

CameraFails ==
    /\ audio.phase = "running" /\ audio.faults < MaxCameraFaults
    /\ audio' = [audio EXCEPT !.phase = "stopping", !.faults = @ + 1]
    /\ reported' = NothingReported
    /\ UNCHANGED <<bus, lookup, capture>>

\* _stop_once: the backend stays with the runtime, and is observed, until it has stopped. A
\* cleanup that fails ends the recorder.
CleanUp ==
    /\ audio.phase = "stopping"
    /\ \E phase \in {"recover", "failed"} : audio' = [audio EXCEPT !.phase = phase]
    /\ capture' = NoBackend
    /\ lookup' = NoLookup
    /\ UNCHANGED <<bus, reported>>

\* A clip of nearly full length was finalized.
StableClip ==
    /\ audio.phase = "running" /\ audio.restarts > 0
    /\ audio' = [audio EXCEPT !.restarts = 0]
    /\ UNCHANGED <<bus, lookup, capture, reported>>

\* _recover: one more attempt with the plan the runtime holds, or the end.
Recover ==
    /\ audio.phase = "recover"
    /\ audio' = IF audio.restarts >= MaxRestarts THEN [audio EXCEPT !.phase = "exhausted"]
                ELSE [audio EXCEPT !.phase = "reopen", !.restarts = @ + 1]
    /\ UNCHANGED <<bus, lookup, capture, reported>>

SelectionNext ==
    \/ BusChange \/ QueryUdev \/ DiscoveryRefused \/ ResolveAudio \/ AudioNotWanted
    \/ DiscoveryEnds \/ AttemptOpens \/ AudioStartupFails \/ IsolateLoss
    \/ ProbeRestoration \/ RestorationEnds \/ RuntimeSnapshot \/ CameraFails \/ CleanUp
    \/ StableClip \/ Recover
    \/ \E camera \in BOOLEAN : PipelineFails(camera)

SelectionSpec == SelectionInit /\ [][SelectionNext]_selectionVars

-----------------------------------------------------------------------------
(* Properties. *)

\* Across losses, restorations, the startup fallback, cleanups and replacements the runtime never
\* claims sound it does not have: a status that says MATCHED of a recording attempt is of one
\* whose backend has a microphone (a loss after the report is told by the next one); taken
\* at any other time, it is of a selection that names the card a next attempt would open.
ReportTruthful ==
    reported.state = "MATCHED" =>
        /\ reported.of = "attempt" => capture.device # "none"
        /\ audio.plan # NoCard

\* The recorder never stops for the sake of the microphone: the start fails, or the restarts
\* are used up, only through faults of the camera or the encoder.
MicrophoneNeverStops ==
    /\ audio.phase = "failed" => audio.faults > 0
    /\ audio.phase = "exhausted" => audio.faults > MaxRestarts
=============================================================================
