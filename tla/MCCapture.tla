----------------------------- MODULE MCCapture -----------------------------
(***************************************************************************)
(* Small instances, for TLC, of the parts of the recording process beside  *)
(* its backend: GPS, the selection of audio, the forced IDR, the overlay,  *)
(* the order of the fragments, the offline recovery.  In every behaviour   *)
(* one part runs and the others keep their first state, so that one run    *)
(* explores each in full without their product.                            *)
(***************************************************************************)
EXTENDS GpsReceiver, GpsTelemetry, AudioSelection, ForcedIdr, Overlay, FragmentOrder,
        StartupReconcile, Segmentation, ContinuousPipeline

CONSTANT Parts   \* the parts to run
VARIABLE part

allVars == <<part, gpsVars, telemetryVars, selectionVars, idrVars, overlayVars, fragmentVars,
             reconcileVars, segmentVars, pipelineVars>>

\* A part that rests has one initial state.
Init ==
  /\ part \in Parts
  /\ GpsInit /\ TelemetryInit
  /\ SelectionInit /\ (part # "audio" => bus = CHOOSE b \in Buses : TRUE)
  /\ IdrInit
  /\ OverlayInit /\ (part # "overlay" => gpsSeen.task = "running")
  /\ FragmentInit
  /\ part # "reconcile" =>
       /\ pairs = [c \in Clips |-> [video |-> "clips", sidecar |-> "clips", valid |-> TRUE, protected |-> FALSE]]
       /\ indexed = [c \in Clips |-> NoRow]
  /\ ReconcileInit
  /\ SegmentInit /\ PipelineInit

\* The named part runs and every other one keeps its state.
Only(p) ==
  /\ part = p /\ UNCHANGED part
  /\ p # "gps" => UNCHANGED gpsVars
  /\ p # "telemetry" => UNCHANGED telemetryVars
  /\ p # "audio" => UNCHANGED selectionVars
  /\ p # "idr" => UNCHANGED idrVars
  /\ p # "overlay" => UNCHANGED overlayVars
  /\ p # "fragments" => UNCHANGED fragmentVars
  /\ p # "reconcile" => UNCHANGED reconcileVars
  /\ p # "segments" => UNCHANGED segmentVars
  /\ p # "pipeline" => UNCHANGED pipelineVars

GpsRuns == Only("gps") /\ GpsNext
TelemetryRuns == Only("telemetry") /\ TelemetryNext
AudioRuns == Only("audio") /\ SelectionNext
IdrRuns == Only("idr") /\ IdrNext
OverlayRuns == Only("overlay") /\ OverlayNext
FragmentsRun == Only("fragments") /\ FragmentNext
ReconcileRuns == Only("reconcile") /\ ReconcileNext
SegmentsRun == Only("segments") /\ SegmentNext
PipelinesRun == Only("pipeline") /\ PipelineNext

Next ==
  \/ GpsRuns \/ TelemetryRuns \/ AudioRuns \/ IdrRuns
  \/ OverlayRuns \/ FragmentsRun \/ ReconcileRuns \/ SegmentsRun
  \/ PipelinesRun

Spec == Init /\ [][Next]_allVars
=============================================================================
