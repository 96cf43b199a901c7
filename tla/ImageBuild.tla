----------------------------- MODULE ImageBuild -----------------------------
(***************************************************************************)
(* The two image builders (provisioning/bootstrap_image.py with its        *)
(* scripts, and provisioning/image_executor.py).  The bootstrap builder    *)
(* takes a pinned source through growth and customization, has a separate  *)
(* process read the result back, compresses it and publishes a manifest.   *)
(* The file executors take a planned source to one output path; several    *)
(* may be started for the same path.  Every tool may fail, and a builder   *)
(* may be killed between any two steps.  The content of a file is a number *)
(* that every write makes new; equal digests are equal numbers.            *)
(***************************************************************************)
EXTENDS Naturals

CONSTANTS
  Executors,     \* file executors started for the one output path
  MaxContents    \* bound: different contents of the raw image

ASSUME ImageBuildBounds == MaxContents \in Nat /\ "nobody" \notin Executors

VARIABLES
  build,      \* the bootstrap builder: where it is, and what it has noted
  raw,        \* the raw image in the work root
  fuse,       \* the writable guestmount process has bytes it has not written
  outputs,    \* retained outputs: compressed, evidence, manifest
  executor,   \* where each file executor is, and whether it builds an authorized trial
  image       \* the file at the output path of the executors

ibVars == <<build, raw, fuse, outputs, executor, image>>
bootstrapVars == <<build, raw, fuse, outputs>>

Absent == 0
NoImage == [owner |-> "nobody", parts |-> {}]

IbInit ==
  /\ build = [at |-> "start", noted |-> Absent, checked |-> {}]
  /\ raw = [content |-> Absent, stage |-> "none"] /\ fuse = FALSE
  /\ outputs = [compressed |-> Absent, evidence |-> Absent, passed |-> FALSE, manifest |-> Absent]
  /\ executor \in [Executors -> [at : {"start"}, trial : BOOLEAN]] /\ image = NoImage

(***************************************************************************)
(* The bootstrap builder.                                                  *)
(***************************************************************************)

Goes(from, to) == build.at = from /\ build' = [build EXCEPT !.at = to]
WritesRaw(stage) ==
  /\ raw.content < MaxContents
  /\ raw' = [content |-> raw.content + 1, stage |-> stage]

\* Nothing is created before the commit is clean, the source is the pinned one,
\* every output is new, the plan is authored and the host is the reviewed one.
ResolveCleanAppCommit == Goes("start", "source") /\ UNCHANGED <<raw, fuse, outputs>>
VerifyPinnedSource == Goes("source", "paths") /\ UNCHANGED <<raw, fuse, outputs>>

ValidateBuildPaths ==
  /\ Goes("paths", "plan")
  /\ raw.stage = "none"
  /\ outputs.compressed = Absent /\ outputs.evidence = Absent /\ outputs.manifest = Absent
  /\ UNCHANGED <<raw, fuse, outputs>>

AuthorBuildPlan == Goes("plan", "host") /\ UNCHANGED <<raw, fuse, outputs>>
VerifyBuilderHost == Goes("host", "work") /\ UNCHANGED <<raw, fuse, outputs>>

DecompressPinnedSource ==
  Goes("work", "grow") /\ WritesRaw("source") /\ UNCHANGED <<fuse, outputs>>

GrowRootOffline ==
  Goes("grow", "customize") /\ raw.stage = "source" /\ WritesRaw("grown") /\ UNCHANGED <<fuse, outputs>>

\* guestunmount returns when the mount is gone; the process behind it may still
\* have bytes of the image to write.
CustomizeRegularImage ==
  /\ Goes("customize", "verify") /\ raw.stage = "grown" /\ WritesRaw("customized")
  /\ fuse' \in BOOLEAN /\ UNCHANGED outputs

LateFlush ==
  /\ fuse /\ raw.content # Absent /\ WritesRaw(raw.stage)
  /\ fuse' = FALSE /\ UNCHANGED <<build, outputs>>

\* The checks of the boot file system, of the root and of the raw image.
Checks == {"fat", "ext4", "raw"}

\* The verifier mounts the image read-only and checks what it sees ...
VerifyMountedReadback ==
  /\ build.at = "verify"
  /\ \E good \in SUBSET Checks : build' = [build EXCEPT !.at = "digest", !.checked = good]
  /\ UNCHANGED <<raw, fuse, outputs>>

\* ... and writes its evidence, a failed one too, with the digest taken last.
WriteEvidence ==
  /\ build.at = "digest" /\ outputs.evidence = Absent
  /\ outputs' = [outputs EXCEPT !.evidence = raw.content, !.passed = (build.checked = Checks)]
  /\ build' = [build EXCEPT !.at = IF build.checked = Checks THEN "compress" ELSE "failed"]
  /\ UNCHANGED <<raw, fuse>>

EvidenceValid == outputs.evidence # Absent /\ outputs.passed

\* Compression reads the raw image for its digest and again for its bytes; an
\* extraction that differs from the digest is removed.
ReadRawDigest ==
  /\ build.at = "compress" /\ EvidenceValid
  /\ build' = [build EXCEPT !.at = "compressing", !.noted = raw.content]
  /\ UNCHANGED <<raw, fuse, outputs>>

CompressVerifiedRaw ==
  /\ build.at = "compressing"
  /\ \/ /\ raw.content = build.noted
        /\ outputs' = [outputs EXCEPT !.compressed = raw.content]
        /\ build' = [build EXCEPT !.at = "manifest"]
     \/ /\ raw.content # build.noted
        /\ build' = [build EXCEPT !.at = "failed"] /\ UNCHANGED outputs
  /\ UNCHANGED <<raw, fuse>>

MakeImagerManifestOfProof ==
  /\ build.at = "manifest"
  /\ \/ /\ outputs.passed
        /\ outputs' = [outputs EXCEPT !.manifest = build.noted]
        /\ build' = [build EXCEPT !.at = "cleanup"]
     \/ /\ outputs.evidence # build.noted
        /\ build' = [build EXCEPT !.at = "failed"] /\ UNCHANGED outputs
  /\ UNCHANGED <<raw, fuse>>

\* The manifest is made only if the extraction has the digest of the evidence.
MakeImagerManifest ==
  /\ build.at = "manifest"
  /\ \/ /\ outputs.evidence = build.noted /\ EvidenceValid
        /\ outputs' = [outputs EXCEPT !.manifest = build.noted]
        /\ build' = [build EXCEPT !.at = "cleanup"]
     \/ /\ outputs.evidence # build.noted
        /\ build' = [build EXCEPT !.at = "failed"] /\ UNCHANGED outputs
  /\ UNCHANGED <<raw, fuse>>

CleanupOwnedWorkFiles ==
  /\ Goes("cleanup", "built") /\ outputs.manifest # Absent
  /\ raw' = [content |-> Absent, stage |-> "none"]
  /\ UNCHANGED <<fuse, outputs>>

\* A tool fails: the file it was making is removed, the rest is kept.
BuildFails ==
  /\ build.at \notin {"start", "built", "failed"}
  /\ build' = [build EXCEPT !.at = "failed"]
  /\ raw' = IF build.at = "work" THEN [raw EXCEPT !.stage = "none"] ELSE raw
  /\ UNCHANGED <<fuse, outputs>>

\* The builder is killed; a compressed file that was being written stays, torn.
BuildKilled ==
  /\ build.at \notin {"start", "built", "failed"}
  /\ build' = [build EXCEPT !.at = "failed"]
  /\ outputs' = IF build.at = "compressing" THEN [outputs EXCEPT !.compressed = MaxContents + 1] ELSE outputs
  /\ UNCHANGED <<raw, fuse>>

\* The operator removes the work root and the outputs that no manifest names.
OperatorClears ==
  /\ build.at = "failed" /\ outputs.manifest = Absent /\ ~fuse
  /\ build' = [build EXCEPT !.at = "start"]
  /\ raw' = [raw EXCEPT !.stage = "none"]
  /\ outputs' = [compressed |-> Absent, evidence |-> Absent, passed |-> FALSE, manifest |-> Absent]
  /\ UNCHANGED fuse

BootstrapBuild ==
  /\ \/ ResolveCleanAppCommit \/ VerifyPinnedSource \/ ValidateBuildPaths
     \/ AuthorBuildPlan \/ VerifyBuilderHost
     \/ DecompressPinnedSource \/ GrowRootOffline \/ CustomizeRegularImage
     \/ LateFlush \/ VerifyMountedReadback \/ WriteEvidence \/ ReadRawDigest
     \/ CompressVerifiedRaw \/ MakeImagerManifest \/ CleanupOwnedWorkFiles
     \/ BuildFails \/ BuildKilled \/ OperatorClears
  /\ UNCHANGED <<executor, image>>

(***************************************************************************)
(* The file executors.                                                     *)
(***************************************************************************)

At(e, from) == executor[e].at = from
EGoes(e, from, to) == At(e, from) /\ executor' = [executor EXCEPT ![e].at = to]
Owns(e) == image.owner = e

\* The plan is for this output and the source, the path and the payload are as
\* planned; a refusal here and in the next four steps creates nothing.
ExecuteFileImage(e) == EGoes(e, "start", "authorize") /\ image = NoImage /\ UNCHANGED image

\* An authorization is required in the exact-card mode and refused in the other.
LoadExactCardAuthorization(e) ==
  /\ EGoes(e, "authorize", IF executor[e].trial THEN "bind" ELSE "tools") /\ UNCHANGED image

BindAuthorizedRootFiles(e) == EGoes(e, "bind", "tools") /\ UNCHANGED image
ProbeExecutionDependencies(e) == EGoes(e, "tools", "closure") /\ UNCHANGED image
BindInitramfsClosure(e) == EGoes(e, "closure", "create") /\ UNCHANGED image

\* The file is created exclusively: of two executors one finds it there.
DecompressVerifiedImage(e) ==
  \/ image = NoImage /\ EGoes(e, "create", "config") /\ image' = [owner |-> e, parts |-> {"source"}]
  \/ image # NoImage /\ EGoes(e, "create", "refused") /\ UNCHANGED image

ValidateBootTargetConfig(e) == EGoes(e, "config", "initramfs") /\ UNCHANGED image

\* The initramfs is rebuilt beside the image, with the runtime gate only for an
\* authorized trial, and read back from its own compression.
CustomizeInitramfs(e) ==
  /\ EGoes(e, "initramfs", IF executor[e].trial THEN "install" ELSE "boot") /\ UNCHANGED image

\* The authorized root files are installed and checked in a copy of the root,
InstallAndVerifyAuthorizedRoot(e) == EGoes(e, "install", "copy") /\ UNCHANGED image

\* which is copied back into the file of this inode and checked again.
CopyRegularFileIntoPartition(e) ==
  EGoes(e, "copy", "boot") /\ Owns(e) /\ image' = [image EXCEPT !.parts = @ \union {"root"}]

\* The customized initramfs and the transformed command line are copied over
\* the ones of the boot partition.
CopyBootFiles(e) ==
  /\ EGoes(e, "boot", "reopen")
  /\ image' = [image EXCEPT !.parts = @ \union {"initramfs", "cmdline"}
                                        \union (IF executor[e].trial THEN {"gate"} ELSE {})]

\* Both are read back and compared, and the raw image is verified once more.
ReopenAndVerify(e) ==
  /\ EGoes(e, "reopen", "returned") /\ {"initramfs", "cmdline"} \subseteq image.parts
  /\ image' = [image EXCEPT !.parts = @ \union {"verified"}]

Before == {"start", "authorize", "bind", "tools", "closure", "create"}
After == {"config", "initramfs", "install", "copy", "boot", "reopen"}

\* A refusal before the file is created leaves the path alone.
ExecutionRefused(e) == \E a \in Before : EGoes(e, a, "refused") /\ UNCHANGED image

\* Any later exception unlinks the output, if it is the inode this run created.
UnlinkCreatedOutput(e) ==
  /\ \E a \in After : EGoes(e, a, "refused")
  /\ image' = IF Owns(e) THEN NoImage ELSE image

\* A killed executor leaves what it has made.
ExecutorKilled(e) == \E a \in After : EGoes(e, a, "killed") /\ UNCHANGED image

FileExecution ==
  /\ \E e \in Executors :
       \/ ExecuteFileImage(e) \/ LoadExactCardAuthorization(e) \/ BindAuthorizedRootFiles(e)
       \/ ProbeExecutionDependencies(e) \/ BindInitramfsClosure(e) \/ DecompressVerifiedImage(e)
       \/ ValidateBootTargetConfig(e) \/ CustomizeInitramfs(e) \/ InstallAndVerifyAuthorizedRoot(e)
       \/ CopyRegularFileIntoPartition(e) \/ CopyBootFiles(e) \/ ReopenAndVerify(e)
       \/ ExecutionRefused(e) \/ UnlinkCreatedOutput(e) \/ ExecutorKilled(e)
  /\ UNCHANGED bootstrapVars

IbSpec == IbInit /\ [][BootstrapBuild \/ FileExecution]_ibVars

(***************************************************************************)
(* Correctness.                                                            *)
(***************************************************************************)

\* A published manifest vouches for the bytes: the compressed artifact extracts
\* to exactly the image whose digest the passing evidence carries, whatever a
\* late write of the mount or a killed earlier attempt left behind.
ManifestVouches ==
  outputs.manifest # Absent =>
    /\ outputs.compressed = outputs.manifest
    /\ outputs.evidence = outputs.manifest /\ outputs.passed

\* An executor that returned has its own verified output at the path, with the
\* runtime gate and the root files exactly if it was authorized, and one that
\* refused has left none of its own and taken nobody else's.
OutputsOwned ==
  \A e \in Executors :
    /\ At(e, "returned") =>
         /\ Owns(e) /\ "verified" \in image.parts
         /\ {"gate", "root"} \intersect image.parts = IF executor[e].trial THEN {"gate", "root"} ELSE {}
    /\ executor[e].at \in Before \union {"refused"} => ~Owns(e)

\* What either builder leaves at its output is what it vouches for.
BuildInv == ManifestVouches /\ OutputsOwned
=============================================================================
