------------------------ MODULE ContinuousPipeline ------------------------
(***************************************************************************)
(* recorder/pipeline.py: ContinuousPipeline.run, which owns the camera,    *)
(* restarts a failed backend a bounded number of times with back-off, runs *)
(* optional branches beside it, and gives the camera back on every way     *)
(* out. Several pipelines of one process share the ownership guard.        *)
(***************************************************************************)
EXTENDS Integers

CONSTANTS Owners,       \* the pipelines of the process
          MaxBackendRestarts   \* RestartPolicy.max_restarts

\* An owner is an object of the process, never the mark of the free camera.
ASSUME PipelineConstants == "free" \notin Owners /\ MaxBackendRestarts \in Nat

VARIABLES runs,     \* per pipeline: where run() is, restarts, the error it will raise, stop
          owner,    \* CameraOwnership: the owner, or Free
          cameras,  \* the pipelines whose backend may hold the camera
          branch    \* per pipeline: its optional branch

pipelineVars == <<runs, owner, cameras, branch>>

Free == "free"

PipelineInit ==
    /\ runs = [p \in Owners |-> [at |-> "new", restarts |-> 0, fault |-> "none",
                                 stop |-> FALSE]]
    /\ owner = Free
    /\ cameras = {}
    /\ branch = [p \in Owners |-> "none"]

Moves(p, at) == runs' = [runs EXCEPT ![p].at = at]

\* claim: a second owner is refused before anything is started.
ClaimCamera(p) ==
    /\ runs[p].at = "new"
    /\ IF owner = Free
       THEN /\ owner' = p
            /\ branch' = [branch EXCEPT ![p] = "running"]
            /\ Moves(p, "loop")
       ELSE /\ runs' = [runs EXCEPT ![p].at = "ended", ![p].fault = "refused"]
            /\ UNCHANGED <<owner, branch>>
    /\ UNCHANGED cameras

StopRequested(p) ==
    /\ ~runs[p].stop
    /\ runs' = [runs EXCEPT ![p].stop = TRUE]
    /\ UNCHANGED <<owner, cameras, branch>>

\* The head of the loop: a new backend, unless the stop has come.
NextAttempt(p) ==
    /\ runs[p].at = "loop"
    /\ IF runs[p].stop THEN Moves(p, "leave") /\ UNCHANGED cameras
       ELSE Moves(p, "starting") /\ cameras' = cameras \cup {p}
    /\ UNCHANGED <<owner, branch>>

\* backend.start with the profile asked for.
BackendStarts(p) ==
    /\ runs[p].at = "starting"
    /\ Moves(p, "running")
    /\ UNCHANGED <<owner, cameras, branch>>

\* The same with the camera given back as soon as the attempt has ended, before its cleanup.
AttemptEndsReleasing(p) ==
    /\ runs[p].at \in {"starting", "running"}
    /\ \E fault \in {"none", "raised"} :
          runs' = [runs EXCEPT ![p].at = "stopping", ![p].fault = fault]
    /\ owner' = Free
    /\ UNCHANGED <<cameras, branch>>

\* The attempt ends: by a recoverable error, unasked, or because of the stop ("none"), or by
\* another error or cancellation. Its backend is stopped in any case.
AttemptEnds(p) ==
    /\ runs[p].at \in {"starting", "running"}
    /\ \E fault \in {"none", "raised"} :
          runs' = [runs EXCEPT ![p].at = "stopping", ![p].fault = fault]
    /\ UNCHANGED <<owner, cameras, branch>>

Exhausted(p) == runs[p].fault = "none" /\ ~runs[p].stop /\ runs[p].restarts >= MaxBackendRestarts

\* _stop_backend: within its deadline, or the cleanup has failed.
StopBackend(p) ==
    /\ runs[p].at = "stopping"
    /\ \/ /\ cameras' = cameras \ {p}
          /\ runs' = [runs EXCEPT
                ![p].at = IF runs[p].fault # "none" \/ runs[p].stop \/ Exhausted(p)
                          THEN "leave" ELSE "backoff",
                ![p].fault = IF Exhausted(p) THEN "exhausted" ELSE @]
       \/ /\ runs' = [runs EXCEPT ![p].at = "leave", ![p].fault = "cleanup"]
          /\ UNCHANGED cameras
    /\ UNCHANGED <<owner, branch>>

\* Back-off: over, or ended by the stop.
Backoff(p) ==
    /\ runs[p].at = "backoff"
    /\ runs' = [runs EXCEPT ![p].at = IF runs[p].stop THEN "leave" ELSE "loop",
                            ![p].restarts = @ + 1]
    /\ UNCHANGED <<owner, cameras, branch>>

\* An optional branch fails or exits by itself: noted, and nothing else happens.
BranchFails(p) ==
    /\ branch[p] = "running"
    /\ branch' = [branch EXCEPT ![p] = "failed"]
    /\ UNCHANGED <<runs, owner, cameras>>

\* The way out: branches are cancelled and waited for, those that outlast the deadline are
\* reported as failed, and the camera is given back.
LeaveRun(p) ==
    /\ runs[p].at = "leave"
    /\ \E b \in {"ended", "failed"} :
          branch' = [branch EXCEPT ![p] = IF @ = "running" THEN b ELSE @]
    /\ owner' = Free
    /\ Moves(p, "ended")
    /\ UNCHANGED cameras

PipelineNext == \E p \in Owners :
    \/ ClaimCamera(p) \/ StopRequested(p) \/ NextAttempt(p) \/ BackendStarts(p)
    \/ AttemptEnds(p) \/ StopBackend(p) \/ Backoff(p) \/ BranchFails(p) \/ LeaveRun(p)

PipelineSpec == PipelineInit /\ [][PipelineNext]_pipelineVars

-----------------------------------------------------------------------------
(* Properties. *)

\* Two backends hold the camera at once only after a cleanup that was reported to have failed:
\* the guard covers start, restarts, back-off and the stop itself.
SoleOwner ==
    \A p, q \in cameras : p # q => \E r \in {p, q} : runs[r].fault = "cleanup"
=============================================================================
