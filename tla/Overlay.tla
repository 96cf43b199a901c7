------------------------------ MODULE Overlay ------------------------------
(***************************************************************************)
(* The burned-in overlay and the GPS supervision it shows.  The runtime    *)
(* polls the GPS snapshot and gives changed text to the active backend     *)
(* (recorder/runtime.py, overlay/formatting.py); the native renderer       *)
(* (overlay/native_nv12.py) writes the text into every camera buffer from  *)
(* the streaming thread, through cached mappings of the buffers, and is    *)
(* closed while that thread may still be inside it.  A text is reduced to  *)
(* what it claims: a current position, a lost or invalid one, nothing.     *)
(***************************************************************************)
EXTENDS Naturals, FiniteSets

CONSTANTS Buffers,           \* identities of the camera's DMA buffers
          MaxMappings,       \* MAX_DMABUF_MAPPINGS
          MaxBackends, MaxGpsChanges, MaxStreams   \* bounds

ASSUME OverlayConstants ==
  /\ IsFiniteSet(Buffers) /\ MaxMappings \in Nat
  /\ MaxBackends \in Nat /\ MaxGpsChanges \in Nat /\ MaxStreams \in Nat

VARIABLES
  gpsSeen,       \* the snapshot of the GPS service and its supervising task
  updater,   \* the overlay task: what it last set, and the backend it gave up
  renderer,  \* the renderer of the active backend
  callback,  \* the streaming thread inside the probe
  session    \* the backend: its number and its stage, and streams so far

overlayVars == <<gpsSeen, updater, renderer, callback, session>>

NoText == "none"
NewRenderer(text) ==
  [text |-> text, isolated |-> FALSE, mapped |-> {}, caps |-> "unknown",
   probe |-> "attached", closed |-> FALSE]

\* _start_gps after the recording started: the service exists, or an error says why not.
OverlayInit ==
  /\ gpsSeen \in [state : {"UART_UNAVAILABLE"}, anchor : {FALSE}, task : {"running", "error"}, changes : {0}]
  /\ updater = [at |-> "idle", last |-> 0, text |-> NoText, failed |-> 0, stop |-> FALSE]
  /\ renderer = NewRenderer("invalid")
  /\ callback = [at |-> "out", buffer |-> "none"]
  /\ session = [number |-> 1, stage |-> "playing", streams |-> 0]

(***************************************************************************)
(* GPS as the overlay sees it.                                             *)
(***************************************************************************)

Faulted == gpsSeen.task = "error"

\* A dead supervisor makes its last state stale, or unavailable without an anchor.
ShownState ==
  IF ~Faulted THEN gpsSeen.state ELSE IF gpsSeen.anchor THEN "STALE" ELSE "UART_UNAVAILABLE"

\* build_overlay: stale and invalid navigation collapse to a marker.
BuildOverlay ==
  IF ShownState = "STALE" THEN "lost" ELSE IF ShownState = "NAVIGATION_VALID" THEN "position" ELSE "invalid"

GpsChanges ==
  /\ gpsSeen.changes < MaxGpsChanges /\ gpsSeen.task = "running"
  /\ \E s \in {"UART_UNAVAILABLE", "STALE", "NAVIGATION_VALID"}, a \in BOOLEAN :
       gpsSeen' = [gpsSeen EXCEPT !.state = s, !.anchor = gpsSeen.anchor \/ a, !.changes = @ + 1]
  /\ UNCHANGED <<updater, renderer, callback, session>>

\* _gps_task_finished: an end that nobody asked for is an error.
GpsTaskFinished ==
  /\ gpsSeen.task = "running" /\ gpsSeen' = [gpsSeen EXCEPT !.task = "error"]
  /\ UNCHANGED <<updater, renderer, callback, session>>

(***************************************************************************)
(* The overlay task.                                                       *)
(***************************************************************************)

\* A backend whose update failed is left alone until it is replaced.
GiveUp == updater' = [updater EXCEPT !.at = "idle", !.failed = session.number]

\* One poll: the text is computed, and handed over if it or the backend changed.
OverlayLoop ==
  /\ updater.at = "idle" /\ ~updater.stop
  /\ session.stage # "none" /\ updater.failed # session.number
  /\ \/ /\ updater.last # session.number \/ updater.text # BuildOverlay
        /\ updater' = [updater EXCEPT !.at = "updating", !.last = session.number, !.text = BuildOverlay]
     \/ GiveUp
  /\ UNCHANGED <<gpsSeen, renderer, callback, session>>

\* set_overlay_text: a rejected text leaves the one that is there.
SetText ==
  /\ updater.at = "updating"
  /\ \/ /\ session.number = updater.last /\ session.stage = "playing" /\ ~renderer.closed
        /\ renderer' = [renderer EXCEPT !.text = updater.text]
        /\ updater' = [updater EXCEPT !.at = "idle"]
     \/ GiveUp /\ UNCHANGED renderer
  /\ UNCHANGED <<gpsSeen, callback, session>>

\* _stop_overlay waits for the task, or cancels it.
StopOverlay ==
  /\ ~updater.stop /\ session.stage # "none"
  /\ updater' = [updater EXCEPT !.stop = TRUE, !.at = "idle"]
  /\ UNCHANGED <<gpsSeen, renderer, callback, session>>

(***************************************************************************)
(* The probe on the camera's pad.                                          *)
(***************************************************************************)

Leaves == callback' = [at |-> "out", buffer |-> "none"]

\* STREAM_START forgets the caps; a CAPS event is validated before any buffer.
StreamStart ==
  /\ session.stage = "playing" /\ callback.at = "out" /\ renderer.probe = "attached"
  /\ session.streams < MaxStreams /\ session' = [session EXCEPT !.streams = @ + 1]
  /\ renderer' = [renderer EXCEPT !.caps = "unknown"]
  /\ UNCHANGED <<gpsSeen, updater, callback>>

HandleCaps ==
  /\ session.stage = "playing" /\ callback.at = "out" /\ renderer.probe = "attached"
  /\ renderer.caps = "unknown"
  /\ \E c \in {"exact", "different"} : renderer' = [renderer EXCEPT !.caps = c]
  /\ UNCHANGED <<gpsSeen, updater, callback, session>>

\* The streaming thread enters unless the renderer is closing.
EnterProbe ==
  /\ session.stage = "playing" /\ callback.at = "out" /\ renderer.probe = "attached"
  /\ \E b \in Buffers : callback' = [at |-> "in", buffer |-> b]
  /\ UNCHANGED <<gpsSeen, updater, renderer, session>>

RequiresFrameInspection == ~renderer.closed /\ ~renderer.isolated /\ renderer.text # NoText

Isolated == renderer' = [renderer EXCEPT !.isolated = TRUE]

\* A stream whose caps were not seen yet is taken for exact.
FrameContractLoose == renderer.caps # "different"

\* The caps of the stream and the memories, sizes and strides of the buffer are exact.
FrameContract == renderer.caps = "exact"

\* Every buffer is validated; anything unexpected isolates the renderer.
InspectFrame ==
  /\ callback.at = "in"
  /\ IF ~RequiresFrameInspection THEN Leaves /\ UNCHANGED renderer
     ELSE \/ FrameContract /\ callback' = [callback EXCEPT !.at = "map"] /\ UNCHANGED renderer
          \/ Isolated /\ Leaves
  /\ UNCHANGED <<gpsSeen, updater, session>>

\* A mapping is made once per buffer, and no more than the bound.
MapBuffer ==
  /\ callback.at = "map"
  /\ \/ /\ callback.buffer \in renderer.mapped /\ UNCHANGED renderer
        /\ callback' = [callback EXCEPT !.at = "write"]
     \/ /\ callback.buffer \notin renderer.mapped /\ Cardinality(renderer.mapped) < MaxMappings
        /\ renderer' = [renderer EXCEPT !.mapped = @ \cup {callback.buffer}]
        /\ callback' = [callback EXCEPT !.at = "write"]
     \/ callback.buffer \notin renderer.mapped /\ Isolated /\ Leaves
  /\ UNCHANGED <<gpsSeen, updater, session>>

\* Between two syncs the rows are written; an error isolates the renderer.
WriteRows ==
  /\ callback.at = "write" /\ Leaves /\ (Isolated \/ UNCHANGED renderer)
  /\ UNCHANGED <<gpsSeen, updater, session>>

(***************************************************************************)
(* Closing, from set_null, while the streaming thread may be inside.       *)
(***************************************************************************)

BeginNull ==
  /\ session.stage = "playing"
  /\ session' = [session EXCEPT !.stage = "closing"]
  /\ renderer' = [renderer EXCEPT !.probe = "removed"]
  /\ UNCHANGED <<gpsSeen, updater, callback>>

Released(r) == [r EXCEPT !.closed = TRUE, !.mapped = {}]

\* close: no callback is inside, or the wait ends with an error before NULL.
CloseRenderer ==
  /\ session.stage = "closing"
  /\ \/ callback.at = "out" /\ renderer' = Released(renderer)
     \/ callback.at # "out" /\ UNCHANGED renderer
  /\ session' = [session EXCEPT !.stage = "null"]
  /\ UNCHANGED <<gpsSeen, updater, callback>>

\* NULL stops the streaming thread; the close that timed out is tried once more.
CloseAgain ==
  /\ session.stage = "null"
  /\ \/ /\ callback.at = "out"
        /\ renderer' = IF renderer.closed THEN renderer ELSE Released(renderer)
        /\ session' = [session EXCEPT !.stage = "none"]
     \/ callback.at # "out" /\ session' = [session EXCEPT !.stage = "faulted"] /\ UNCHANGED renderer
  /\ UNCHANGED <<gpsSeen, updater, callback>>

\* A replacement is configured with the current text before any buffer flows.
ReplaceBackend ==
  /\ session.stage = "none" /\ session.number < MaxBackends
  /\ session' = [session EXCEPT !.number = @ + 1, !.stage = "playing"]
  /\ renderer' = NewRenderer(BuildOverlay)
  /\ UNCHANGED <<gpsSeen, updater, callback>>

OverlayNext ==
  \/ GpsChanges \/ GpsTaskFinished \/ OverlayLoop \/ SetText \/ StopOverlay
  \/ StreamStart \/ HandleCaps \/ EnterProbe \/ InspectFrame \/ MapBuffer \/ WriteRows
  \/ BeginNull \/ CloseRenderer \/ CloseAgain \/ ReplaceBackend

OverlaySpec == OverlayInit /\ [][OverlayNext]_overlayVars

(***************************************************************************)
(* Properties.                                                             *)
(***************************************************************************)

\* The streaming thread writes only through mappings that are open, and what was mapped
\* is released when the renderer is closed, whenever the pipeline is torn down.
MappingsOwned ==
  /\ callback.at = "write" => callback.buffer \in renderer.mapped
  /\ renderer.closed => renderer.mapped = {}

\* An isolated renderer never writes again, and none writes in a stream whose caps were
\* not validated as exact.
IsolationLatched ==
  [][callback.at # "write" /\ callback'.at = "write" => ~renderer.isolated /\ renderer.caps = "exact"]_overlayVars

\* The renderer touches only memory it has mapped, in streams it has validated.
OverlaySound == []MappingsOwned /\ IsolationLatched
=============================================================================
