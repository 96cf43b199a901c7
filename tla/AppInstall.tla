----------------------------- MODULE AppInstall -----------------------------
(***************************************************************************)
(* The installer of an application bundle on a running device             *)
(* (deploy/ssh-dev-app/install.py): a dry run records what it observed, an  *)
(* operator approves it, and an apply that observes the same installs the   *)
(* packages, the release, the managed files and the link to the release,    *)
(* and writes its journal last.  Power may be lost and a command may fail   *)
(* after any step; the operator may edit a managed file, refresh the        *)
(* package index or start the recorder at any time.                         *)
(***************************************************************************)
EXTENDS Naturals, FiniteSets

CONSTANTS Bundles, NFiles, Unchanged,         \* Unchanged: files alike in every bundle
          MaxRefresh, MaxEdits, MaxRuns       \* bounds

ASSUME AppInstallConstants ==
  /\ Bundles \cap {"none", "edited"} = {} /\ NFiles \in Nat /\ Unchanged \subseteq 1..NFiles /\ {MaxRefresh, MaxEdits, MaxRuns} \subseteq Nat

VARIABLES
  managed,    \* managed file -> the content at its target
  releases,   \* bundle -> its release: absent, staged under another name, complete
  current,    \* the release the link names
  applied,    \* the release of the applied journal
  package,    \* the version installed and the candidate of the index
  recorder,   \* whether dashcamd runs
  device,     \* what a check of the bundle or the device finds wrong, if anything
  approved,   \* the dry run the operator kept
  install,    \* the apply under way; late: its file was edited after the last look
  meddled     \* edits and runs so far

appVars == <<managed, releases, current, applied, package, recorder, device, approved, install, meddled>>

ManagedFiles == 1..NFiles   \* in the order of their installation

Content(b, file) == IF file \in Unchanged THEN "alike" ELSE b
Desired(b) == [file \in ManagedFiles |-> Content(b, file)]
Nobody == [bundle |-> "none", doing |-> "idle", next |-> 0, before |-> <<>>, version |-> 0, late |-> FALSE]
NoDryRun == [bundle |-> "none", before |-> <<>>, installed |-> 0, candidate |-> 0]

AppInit ==
  /\ managed = [file \in ManagedFiles |-> "none"] /\ releases = [b \in Bundles |-> "absent"]
  /\ current = "none" /\ applied = "none" /\ package = [installed |-> 0, candidate |-> 1]
  /\ recorder = FALSE /\ device = "sound" /\ approved = NoDryRun /\ install = Nobody
  /\ meddled = [edits |-> 0, runs |-> 0]

(***************************************************************************)
(* What both modes observe first.                                          *)
(***************************************************************************)

\* Files that are not the bundle's own must be those of the applied, current release.
AuthorizeManagedFileUpgrade ==
  /\ current # "none" /\ \A file \in ManagedFiles : managed[file] # "none"
  /\ applied = current /\ managed = Desired(applied)

ManagedPrestate(b) ==
  /\ (\E file \in ManagedFiles : managed[file] # "none") /\ managed # Desired(b)
       => AuthorizeManagedFileUpgrade
  /\ releases[b] \in {"absent", "complete"}

\* The checks: a hash-closed bundle, the exact target, the provisioned volume mounted,
\* units as expected, the simulation of the packages, room on the root file system.
Manifest == device # "bundle"
OsRelease == device # "target"
VerifyStorage == device # "storage"
SystemdState == device # "units"
AptSimulation == device # "packages"
ProjectedHeadroom == device # "headroom"
Faults == {"bundle", "target", "storage", "units", "packages", "headroom"}

SystemdActivity == ~recorder

Observed(b) == [bundle |-> b, before |-> managed, installed |-> package.installed,
                candidate |-> package.candidate]

PreflightPasses(b) ==
  /\ Manifest /\ OsRelease /\ VerifyStorage /\ SystemdState /\ SystemdActivity
  /\ ManagedPrestate(b) /\ AptSimulation /\ ProjectedHeadroom

DryRun(b) ==
  /\ install = Nobody /\ PreflightPasses(b) /\ approved' = Observed(b)
  /\ UNCHANGED <<managed, releases, current, applied, package, recorder, device, install, meddled>>

\* An apply goes on only where the approved dry run observed the same.
ValidateApprovedPlan(b) == approved = Observed(b)

BeginApply(b) ==
  /\ install = Nobody /\ meddled.runs < MaxRuns /\ PreflightPasses(b) /\ ValidateApprovedPlan(b)
  /\ install' = [bundle |-> b, doing |-> "packages", next |-> 1,
                 before |-> managed, late |-> FALSE,
                 version |-> IF package.installed = 0 THEN package.candidate ELSE package.installed]
  /\ meddled' = [meddled EXCEPT !.runs = @ + 1]
  /\ UNCHANGED <<managed, releases, current, applied, package, recorder, device, approved>>

InstallGoes(doing) == install' = [install EXCEPT !.doing = doing]

(***************************************************************************)
(* The apply.                                                              *)
(***************************************************************************)

\* A missing package is simulated once more before it is installed.
RecheckApt ==
  /\ install.doing = "packages"
  /\ package.installed = 0 => package.candidate = install.version /\ AptSimulation
  /\ InstallGoes("apt")
  /\ UNCHANGED <<managed, releases, current, applied, package, recorder, device, approved, meddled>>

\* The missing package is asked for by the version the dry run simulated.
AptInstall ==
  /\ install.doing = "apt"
  /\ package' = IF package.installed # 0 THEN package ELSE [package EXCEPT !.installed = install.version]
  /\ InstallGoes("groups")
  /\ UNCHANGED <<managed, releases, current, applied, recorder, device, approved, meddled>>

EnsureGroups ==
  /\ install.doing = "groups" /\ InstallGoes("release")
  /\ UNCHANGED <<managed, releases, current, applied, package, recorder, device, approved, meddled>>

\* A release is built beside its name and moved there once its smoke passed.
StageRelease ==
  /\ install.doing = "release"
  /\ IF releases[install.bundle] = "complete" THEN InstallGoes("files") /\ UNCHANGED releases
     ELSE releases' = [releases EXCEPT ![install.bundle] = "staged"] /\ InstallGoes("smoke")
  /\ UNCHANGED <<managed, current, applied, package, recorder, device, approved, meddled>>

FinishRelease ==
  /\ install.doing = "smoke"
  /\ releases' = [releases EXCEPT ![install.bundle] = "complete"] /\ InstallGoes("files")
  /\ UNCHANGED <<managed, current, applied, package, recorder, device, approved, meddled>>

LooksDesired(file) == managed[file] = Content(install.bundle, file)

\* The same without looking at the file again.
CheckManagedFileBlindly ==
  /\ install.doing = "files" /\ install.next \in ManagedFiles
  /\ install' = IF LooksDesired(install.next) THEN [install EXCEPT !.next = @ + 1]
                 ELSE [install EXCEPT !.doing = "replace"]
  /\ UNCHANGED <<managed, releases, current, applied, package, recorder, device, approved, meddled>>

\* The last look: a file still holds what the dry run saw, and is left alone where that
\* is what the bundle wants ...
CheckManagedFile ==
  /\ install.doing = "files" /\ install.next \in ManagedFiles
  /\ managed[install.next] = install.before[install.next]
  /\ install' = IF LooksDesired(install.next) THEN [install EXCEPT !.next = @ + 1]
                 ELSE [install EXCEPT !.doing = "replace"]
  /\ UNCHANGED <<managed, releases, current, applied, package, recorder, device, approved, meddled>>

\* ... and the replacement, of whatever is there by now.
ReplaceManagedFile ==
  /\ install.doing = "replace"
  /\ managed' = [managed EXCEPT ![install.next] = Content(install.bundle, install.next)]
  /\ install' = [install EXCEPT !.doing = "files", !.next = @ + 1, !.late = FALSE]
  /\ UNCHANGED <<releases, current, applied, package, recorder, device, approved, meddled>>

SwitchCurrent ==
  /\ install.doing = "files" /\ install.next > NFiles
  /\ current # "none" => releases[current] = "complete"
  /\ current' = install.bundle /\ InstallGoes("verify")
  /\ UNCHANGED <<managed, releases, applied, package, recorder, device, approved, meddled>>

\* Permissions as the services need them, units that parse, units enabled.
VerifyInstalled ==
  /\ install.doing = "verify" /\ InstallGoes("journal")
  /\ UNCHANGED <<managed, releases, current, applied, package, recorder, device, approved, meddled>>

WriteApplied ==
  /\ install.doing = "journal" /\ package.installed = install.version /\ device # "headroom"
  /\ applied' = install.bundle /\ install' = Nobody
  /\ UNCHANGED <<managed, releases, current, package, recorder, device, approved, meddled>>

\* A command fails, a deadline passes, or a check refuses: the staging tree goes.
RefuseApply ==
  /\ install # Nobody /\ install' = Nobody
  /\ releases' = [b \in Bundles |-> IF releases[b] = "staged" THEN "absent" ELSE releases[b]]
  /\ UNCHANGED <<managed, current, applied, package, recorder, device, approved, meddled>>

\* Power is lost: what was built beside its name keeps a name nobody looks for.
LosePower ==
  /\ install # Nobody /\ install' = Nobody /\ recorder' \in {FALSE, current # "none"}
  /\ releases' = [b \in Bundles |-> IF releases[b] = "staged" THEN "absent" ELSE releases[b]]
  /\ UNCHANGED <<managed, current, applied, package, device, approved, meddled>>

(***************************************************************************)
(* The operator.                                                           *)
(***************************************************************************)

EditFile ==
  /\ meddled.edits < MaxEdits /\ meddled' = [meddled EXCEPT !.edits = @ + 1]
  /\ \E file \in ManagedFiles :
       /\ managed' = [managed EXCEPT ![file] = "edited"]
       /\ install' = IF install.doing = "replace" /\ install.next = file
                      THEN [install EXCEPT !.late = TRUE] ELSE install
  /\ UNCHANGED <<releases, current, applied, package, recorder, device, approved>>

RefreshIndex ==
  /\ package.candidate <= MaxRefresh /\ package' = [package EXCEPT !.candidate = @ + 1]
  /\ UNCHANGED <<managed, releases, current, applied, recorder, device, approved, install, meddled>>

ToggleRecorder ==
  /\ current # "none" /\ recorder' = ~recorder
  /\ UNCHANGED <<managed, releases, current, applied, package, device, approved, install, meddled>>

\* The volume goes, the root file system fills, another bundle is copied; or it is mended.
DeviceChanges ==
  /\ device' \in IF device = "sound" THEN Faults ELSE {"sound"}
  /\ UNCHANGED <<managed, releases, current, applied, package, recorder, approved, install, meddled>>

AppNext ==
  \/ \E b \in Bundles : DryRun(b) \/ BeginApply(b)
  \/ RecheckApt \/ AptInstall \/ EnsureGroups \/ StageRelease \/ FinishRelease \/ CheckManagedFile \/ ReplaceManagedFile
  \/ SwitchCurrent \/ VerifyInstalled \/ WriteApplied \/ RefuseApply \/ LosePower
  \/ EditFile \/ RefreshIndex \/ ToggleRecorder \/ DeviceChanges

AppSpec == AppInit /\ [][AppNext]_appVars

(***************************************************************************)
(* Properties.                                                             *)
(***************************************************************************)

\* The link names a whole release at every instant, wherever an apply stopped.
CurrentComplete == current # "none" => releases[current] = "complete"

\* Whatever happens between the approval and a step, an operator's edit of a managed
\* file is overwritten only if it came between the last look at that very file and its
\* replacement, and a package gets the version that was approved.
AppliesOnlyThePlan ==
  [][/\ \A file \in ManagedFiles :
          managed[file] = "edited" /\ managed'[file] # "edited" =>
            install.doing = "replace" /\ install.next = file /\ install.late
     /\ package'.installed # package.installed => package'.installed = approved.candidate]_appVars

\* An apply, wherever it stops, is the approved plan or a part of it (install,
\* _atomic_write_managed_file).
InstallSound == []CurrentComplete /\ AppliesOnlyThePlan
=============================================================================
