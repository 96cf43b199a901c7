----------------------------- MODULE Preflight -----------------------------
(***************************************************************************)
(* The storage preflight (storage/preflight.py), run before every start of *)
(* the recorder: facts of the mount are collected, compared with the       *)
(* identity of the provisioned volume and, if nothing refuses, a probe     *)
(* file is created exclusively, written, synced and unlinked.  Mounts may  *)
(* change between any two system calls and power may be lost at any one.   *)
(* What is mounted at the recording root is a device; "root" is the        *)
(* directory of the root file system itself.                               *)
(***************************************************************************)
EXTENDS Naturals

CONSTANTS MaxMounts, MaxCuts   \* bounds: changes of the mounts, power losses

ASSUME PreflightConstants == MaxMounts \in Nat /\ MaxCuts \in Nat

VARIABLES
  mount,     \* what is mounted: its device, options, identity and space
  leftover,  \* what bears the name of the probe on each device
  check,     \* the run of the preflight; late: the name changed after its last look
  changes    \* changes of the mounts and power losses so far

preflightVars == <<mount, leftover, check, changes>>

Devices == {"root", "dashcam", "foreign"}
Mounts == {[dev |-> d, rw |-> w, short |-> s] :
             d \in Devices, w \in BOOLEAN, s \in BOOLEAN}

NoFacts == [dev |-> "none", rw |-> FALSE, short |-> FALSE]
NewCheck == [at |-> "identity", facts |-> NoFacts, dir |-> "none", failed |-> FALSE,
             late |-> FALSE, state |-> "none", reasons |-> {}]

PreflightInit ==
  /\ mount \in Mounts
  /\ leftover = [d \in Devices |-> "absent"]
  /\ check = NewCheck /\ changes = [mounts |-> 0, cuts |-> 0]

End(state, reasons) ==
  check' = [check EXCEPT !.at = "done", !.state = state, !.reasons = reasons]

\* Exit code 3: an observation that cannot be trusted.
RuntimeError == End("FAULTED", {"RUNTIME_ERROR"})

(***************************************************************************)
(* Facts.                                                                  *)
(***************************************************************************)

\* The identity that Bootstrap handed over, and the configuration, bind the policy.
LoadIdentity ==
  /\ check.at = "identity"
  /\ RuntimeError \/ check' = [check EXCEPT !.at = "find"]
  /\ UNCHANGED <<mount, leftover, changes>>

\* findmnt.  No mount at all is a fact of its own.
FindMount ==
  /\ check.at = "find"
  /\ IF mount.dev = "root" THEN End("FAULTED", {"UNMOUNTED"})
     ELSE check' = [check EXCEPT !.at = "stat", !.facts = mount]
  /\ UNCHANGED <<mount, leftover, changes>>

\* What findmnt said of the device must still be so ...
StatRoot ==
  /\ check.at = "stat"
  /\ IF mount.dev # check.facts.dev THEN RuntimeError
     ELSE check' = [check EXCEPT !.at = "statvfs"]
  /\ UNCHANGED <<mount, leftover, changes>>

\* ... the space is that of whatever is there now ...
StatVfs ==
  /\ check.at = "statvfs"
  /\ check' = [check EXCEPT !.at = "sentinel", !.facts.short = mount.short]
  /\ UNCHANGED <<mount, leftover, changes>>

\* ... and the sentinel is read from a directory of the device, or not at all.
ReadSentinel ==
  /\ check.at = "sentinel"
  /\ IF mount.dev # check.facts.dev THEN RuntimeError
     ELSE check' = [check EXCEPT !.at = "judge"]
  /\ UNCHANGED <<mount, leftover, changes>>

\* Identity, file system, label and sentinel are those of the provisioned volume.
Identified(f) == f.dev = "dashcam"

StaticRefusals(f) ==
  (IF Identified(f) THEN {} ELSE {"WRONG_IDENTITY"})
    \cup (IF f.rw THEN {} ELSE {"READ_ONLY"})
    \cup (IF f.short THEN {"RESERVE_EXHAUSTED"} ELSE {})

StateForReasons(reasons) ==
  IF "WRONG_IDENTITY" \in reasons THEN "FAULTED"
  ELSE IF "READ_ONLY" \in reasons THEN "READ_ONLY" ELSE "EMERGENCY"

Judge ==
  /\ check.at = "judge"
  /\ LET reasons == StaticRefusals(check.facts) IN
     IF reasons # {} THEN End(StateForReasons(reasons), reasons)
     ELSE check' = [check EXCEPT !.at = "open"]
  /\ UNCHANGED <<mount, leftover, changes>>

(***************************************************************************)
(* The write probe.                                                        *)
(***************************************************************************)

ProbeFailed == End("FAULTED", {"WRITE_PROBE_FAILED"})

AnyDirectory == TRUE

\* The directory is opened once and must be the verified device, not the root.
VerifiedDirectory == mount.dev = check.facts.dev /\ mount.dev # "root"

\* From here on the descriptor names the device, whatever is mounted in its place.
OpenDirectory ==
  /\ check.at = "open"
  /\ IF VerifiedDirectory THEN check' = [check EXCEPT !.at = "create", !.dir = mount.dev]
     ELSE ProbeFailed
  /\ UNCHANGED <<mount, leftover, changes>>

\* create_exclusive: a file of that name, whoever left it, refuses the probe.
CreateExclusive ==
  /\ check.at = "create"
  /\ \/ /\ leftover[check.dir] = "absent" /\ (mount.dev = check.dir => mount.rw)
        /\ leftover' = [leftover EXCEPT ![check.dir] = "ours"]
        /\ check' = [check EXCEPT !.at = "inspect"]
     \/ ProbeFailed /\ UNCHANGED leftover
  /\ UNCHANGED <<mount, changes>>

\* The descriptor must be a file with one name, which it has lost if another took it.
InspectProbe ==
  /\ check.at = "inspect"
  /\ \/ leftover[check.dir] = "ours" /\ check' = [check EXCEPT !.at = "write"]
     \/ check' = [check EXCEPT !.at = "discard"]
  /\ UNCHANGED <<mount, leftover, changes>>

\* Whatever bears the name is unlinked, or cannot be.
Unlinked == leftover' \in {leftover, [leftover EXCEPT ![check.dir] = "absent"]}

\* A file that may not be the one created is unlinked by its name all the same.
DiscardProbe ==
  /\ check.at = "discard" /\ Unlinked /\ ProbeFailed /\ UNCHANGED <<mount, changes>>

\* Write, fsync and close; any of them may fail.
WriteProbe ==
  /\ check.at = "write"
  /\ \E failed \in BOOLEAN : check' = [check EXCEPT !.at = "look", !.failed = failed]
  /\ UNCHANGED <<mount, leftover, changes>>

\* unlink looks whether the entry still is the file created ...
StatProbe ==
  /\ check.at = "look"
  /\ \/ leftover[check.dir] = "ours" /\ check' = [check EXCEPT !.at = "remove"]
     \/ ProbeFailed
  /\ UNCHANGED <<mount, leftover, changes>>

\* ... and removes whatever is there by now.
RemoveProbe ==
  /\ check.at = "remove" /\ Unlinked
  /\ IF leftover'[check.dir] # "absent" \/ check.failed THEN ProbeFailed ELSE End("READY", {})
  /\ UNCHANGED <<mount, changes>>

(***************************************************************************)
(* Around the preflight.                                                   *)
(***************************************************************************)

Forgotten(f) == [d \in Devices |-> IF f[d] = "ours" THEN "old" ELSE f[d]]

\* The service starts again, and with it the preflight.
Again ==
  /\ check.at = "done" /\ check' = NewCheck /\ leftover' = Forgotten(leftover)
  /\ UNCHANGED <<mount, changes>>

ChangeMount ==
  /\ changes.mounts < MaxMounts /\ changes' = [changes EXCEPT !.mounts = @ + 1]
  /\ mount' \in Mounts /\ UNCHANGED <<leftover, check>>

\* Where the probe does not look at the name any more before it unlinks it.
Unseen == {"inspect", "discard", "remove"}

\* Somebody else puts another file under the name on a device.
ReplaceFile ==
  /\ changes.mounts < MaxMounts /\ changes' = [changes EXCEPT !.mounts = @ + 1]
  /\ \E d \in Devices :
       /\ leftover' = [leftover EXCEPT ![d] = "other"]
       /\ check' = [check EXCEPT !.late = @ \/ (d = check.dir /\ check.at \in Unseen)]
  /\ UNCHANGED mount

\* A file created before the cut may or may not have reached the card.
PowerCut ==
  /\ changes.cuts < MaxCuts /\ changes' = [changes EXCEPT !.cuts = @ + 1]
  /\ leftover' \in {Forgotten(leftover),
                    [d \in Devices |-> IF leftover[d] = "ours" THEN "absent" ELSE leftover[d]]}
  /\ check' = NewCheck /\ UNCHANGED mount

PreflightNext ==
  \/ LoadIdentity \/ FindMount \/ StatRoot \/ StatVfs \/ ReadSentinel \/ Judge
  \/ OpenDirectory \/ CreateExclusive \/ InspectProbe \/ DiscardProbe \/ WriteProbe
  \/ StatProbe \/ RemoveProbe \/ Again \/ ChangeMount \/ ReplaceFile \/ PowerCut

PreflightSpec == PreflightInit /\ [][PreflightNext]_preflightVars

(***************************************************************************)
(* Properties.                                                             *)
(***************************************************************************)

\* The preflight creates a file on the provisioned volume and on nothing else, not
\* when the mount is replaced by another volume or by the root between the facts
\* and the probe; and it removes nobody else's file, but one that took the name
\* between its last look at it and the unlink.
ProbeConfined ==
  [][\A d \in Devices :
       /\ leftover'[d] = "ours" /\ leftover[d] # "ours" => d = "dashcam" /\ leftover[d] = "absent"
       /\ leftover[d] = "other" /\ leftover'[d] # "other" => d = check.dir /\ check.late]_preflightVars

\* READY leaves nothing behind: the preflight that said so made its probe file on
\* the volume and nothing of it remains.
ReadyIsClean ==
  check.at = "done" /\ check.state = "READY" =>
    check.dir = "dashcam" /\ leftover["dashcam"] # "ours"

\* The probe touches the provisioned volume alone and READY leaves it as it was
\* (run_storage_preflight and _write_probe).
ProbeSound == []ReadyIsClean /\ ProbeConfined
=============================================================================
