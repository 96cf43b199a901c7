---------------------------- MODULE MCAppliance ----------------------------
(***************************************************************************)
(* Small instances, for TLC, of what makes a card, sets it up and installs *)
(* the application, and of the services beside the recorder.  In every     *)
(* behaviour one part runs and the others keep their first state, so that  *)
(* one run explores each in full without their product.                    *)
(***************************************************************************)
EXTENDS FirstBoot, Bootstrap, CardPlan, ImageBuild, Initramfs, AppInstall,
        Preflight, NetworkFallback, MetadataPass, WebService, CardRecovery

CONSTANT Parts   \* the parts to run
VARIABLE part

\* Archives with gaps in the inodes, with a member of another device that has a
\* free number, with two names of one file, and with one that is not accepted.
Member(name, kind, dev, inode) == [name |-> name, kind |-> kind, dev |-> dev, inode |-> inode, data |-> "stock"]

MemberNames == {".", "hook", "init", "dashcam", "contract", "artifact", "gate"}

StockArchives ==
  {<<Member(".", "dir", 0, a), Member("hook", "file", 0, b), Member("init", "file", d, c)>> :
     a \in {1, 4}, b \in {2, 3}, c \in 1 .. 4, d \in {0, 1}}
    \union {<<Member(".", "dir", 0, 1), Member("hook", k, 0, 2), Member("gate", "file", 0, 3)>> : k \in {"file", "dir"}}

allVars == <<part, fbVars, bsVars, cpVars, ibVars, irVars, appVars,
             preflightVars, networkVars, metadataVars, webVars, recoveryVars>>

\* A part that rests has one initial state.
Init ==
  /\ part \in Parts
  /\ FbInit /\ (part # "firstboot" => card.p3 = "blank")
  /\ BsInit /\ (part # "bootstrap" => disk.table = "source" /\ disk.p3 = "blank" /\ boot.bound)
  /\ CpInit
  /\ part # "card" => /\ target.total = Min(CardSizes) /\ target.root = Min(RootSizes)
                      /\ target.fs = "none"
  /\ IbInit /\ (part # "files" => \A e \in Executors : ~executor[e].trial)
  /\ IrInit /\ (part # "initramfs" => stock = (CHOOSE a \in Stocks : TRUE) /\ ~gated)
  /\ AppInit
  /\ PreflightInit /\ (part # "preflight" => mount = CHOOSE d \in Mounts : TRUE)
  /\ NetworkInit /\ (part # "network" => private.form = "absent" /\ profile = 0 /\ handoff = 0)
  /\ MetadataInit /\ (part # "metadata" => \A c \in Clip : clips[c].length = Min(Durations))
  /\ WebInit
  /\ RecoveryInit /\ (part # "recovery" => ~line.other)

\* The named part runs and every other one keeps its state.
Only(p) ==
  /\ part = p /\ UNCHANGED part
  /\ p # "firstboot" => UNCHANGED fbVars
  /\ p # "bootstrap" => UNCHANGED bsVars
  /\ p # "card" => UNCHANGED cpVars
  /\ p \notin {"image", "files"} => UNCHANGED ibVars
  /\ p # "initramfs" => UNCHANGED irVars
  /\ p # "install" => UNCHANGED appVars
  /\ p # "preflight" => UNCHANGED preflightVars
  /\ p # "network" => UNCHANGED networkVars
  /\ p # "metadata" => UNCHANGED metadataVars
  /\ p # "web" => UNCHANGED webVars
  /\ p # "recovery" => UNCHANGED recoveryVars

FirstBootRuns == Only("firstboot") /\ FbNext
BootstrapRuns == Only("bootstrap") /\ BsNext
CardPlanRuns == Only("card") /\ CpNext
ImageBuilds == Only("image") /\ BootstrapBuild
FilesBuild == Only("files") /\ FileExecution
InitramfsRuns == Only("initramfs") /\ IrNext
InstallRuns == Only("install") /\ AppNext
PreflightRuns == Only("preflight") /\ PreflightNext
NetworkRuns == Only("network") /\ NetworkNext
MetadataRuns == Only("metadata") /\ MetadataNext
WebRuns == Only("web") /\ WebNext
RecoveryRuns == Only("recovery") /\ RecoveryNext

Next ==
  \/ FirstBootRuns \/ BootstrapRuns \/ CardPlanRuns \/ ImageBuilds
  \/ FilesBuild \/ InitramfsRuns \/ InstallRuns \/ PreflightRuns
  \/ NetworkRuns \/ MetadataRuns \/ WebRuns \/ RecoveryRuns

Spec == Init /\ [][Next]_allVars

\* Every command of the network selection has a timeout and its processes are not
\* suspended; the metadata loop wakes at its interval, leases end, and a clip that can
\* be named is not refused for ever: each in the behaviours in which its part runs.
FairSpec ==
  /\ Spec
  /\ \A p \in Processes : WF_networkVars(part = "network" /\ Selects(p))
  /\ WF_networkVars(part = "network" /\ Retries)
  /\ WF_metadataVars(part = "metadata" /\ BeginPass)
  /\ WF_metadataVars(part = "metadata" /\ ScanCandidates)
  /\ WF_metadataVars(part = "metadata" /\ NextCandidate)
  /\ WF_metadataVars(part = "metadata" /\ EndPass)
  /\ WF_metadataVars(part = "metadata" /\ Disclaimed)
  /\ WF_metadataVars(part = "metadata" /\ (ReconcileClip \/ ReconcileRefused \/ ApplyIncomplete))
  /\ \A c \in Clip : SF_metadataVars(part = "metadata" /\ ReconcileClip /\ pass.doing = c)
=============================================================================
