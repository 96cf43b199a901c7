---------------------------- MODULE CardRecovery ----------------------------
(***************************************************************************)
(* The tools an operator runs on a card in development                     *)
(* (deploy/bootstrap/ssh-dev): the armer, which puts the trigger of the    *)
(* bootstrap on the boot line, and the two helpers that take a false       *)
(* refusal back out of the bootstrap's journal, each with an archive of    *)
(* the refused journal and an audit record.  A tool may be killed between  *)
(* any two system calls, the boot line may be edited meanwhile, and the    *)
(* bootstrap goes on as soon as the journal lets it.                       *)
(***************************************************************************)
EXTENDS Naturals

CONSTANTS MaxKills, MaxLineEdits   \* bounds: killed tools and power losses, edits of the line

ASSUME CardRecoveryConstants == MaxKills \in Nat /\ MaxLineEdits \in Nat

VARIABLES
  line,      \* the boot line: its text, how often it bears the trigger, its inode
  backup,    \* what bears the name of the backup of each text
  armTemp,   \* the armer's temporary file
  armer,     \* the run of the armer, and the digest its operator approved
  progress,  \* the journal, the third partition, the bootstrap installed and the boot it runs in
  records,   \* archive, audit record and temporaries of each helper
  tool,      \* the run of a helper
  wear,      \* kills, power losses and edits so far
  past       \* observed: texts that were armed, helpers that restored the journal

recoveryVars == <<line, backup, armTemp, armer, progress, records, tool, wear, past>>

Texts == 1 .. MaxLineEdits + 1
Helpers == {"fssize", "exfat"}

\* What each helper takes out of the journal, and what it puts there.
SOURCE == [fssize |-> "refused_size", exfat |-> "refused_volume"]
REPLACEMENT == [fssize |-> "table_committed", exfat |-> "format_intent"]

NoDigest == [text |-> 0, triggers |-> 0, other |-> FALSE]
Resting == [at |-> "idle", before |-> NoDigest, inode |-> 0, approved |-> NoDigest]
NoTool == [at |-> "idle", helper |-> "fssize", apply |-> FALSE, current |-> "none"]
NoRecords == [archive |-> "absent", audit |-> "absent", temp |-> "absent", auditTemp |-> "absent"]

RecoveryInit ==
  /\ line \in {[text |-> 1, triggers |-> 0, other |-> o, inode |-> 1] : o \in BOOLEAN}
  /\ backup = [t \in Texts |-> "absent"] /\ armTemp = "absent" /\ armer = Resting
  /\ progress = [phase |-> "table_committed", p3 |-> "blank", formats |-> 0, corrected |-> 0, boot |-> "unarmed"]
  /\ records = [h \in Helpers |-> NoRecords] /\ tool = NoTool
  /\ wear = [kills |-> 0, edits |-> 0]
  /\ past = [armed |-> {}, restored |-> {}]

armVars == <<line, backup, armTemp, armer>>
helpVars == <<progress, records, tool>>

(***************************************************************************)
(* The armer.                                                              *)
(***************************************************************************)

Digest(l) == [text |-> l.text, triggers |-> l.triggers, other |-> l.other]
Counts(l) == [dev |-> l.triggers, others |-> l.other]
Ready(l) == Counts(l) = [dev |-> 1, others |-> FALSE]

\* No trigger of any kind may be there yet.
ValidatePreArm(l) == Counts(l) = [dev |-> 0, others |-> FALSE]

Proposed(d) == [d EXCEPT !.triggers = @ + 1]

ArmRefuses == armer' = [armer EXCEPT !.at = "idle", !.before = NoDigest, !.inode = 0]
ArmGoes(from, to) == armer.at = from /\ armer' = [armer EXCEPT !.at = to]

\* --dry-run and --verify: the digest is what the operator approves.
ArmDryRun ==
  /\ armer.at = "idle" /\ ValidatePreArm(line) /\ armer' = [armer EXCEPT !.approved = Digest(line)]
  /\ UNCHANGED <<line, backup, armTemp, helpVars, wear, past>>

ArmApply ==
  /\ armer.at = "idle" /\ armer.approved # NoDigest
  /\ ValidatePreArm(line) /\ Digest(line) = armer.approved
  /\ armer' = [armer EXCEPT !.at = "backup", !.before = Digest(line), !.inode = line.inode]
  /\ UNCHANGED <<line, backup, armTemp, helpVars, wear, past>>

\* The backup is named for the digest and created exclusively; one that is there
\* already must be the same bytes.
CreateBackup ==
  /\ armer.at = "backup"
  /\ \/ /\ backup[armer.before.text] = "absent" /\ ArmGoes("backup", "fill")
        /\ backup' = [backup EXCEPT ![armer.before.text] = "torn"]
     \/ backup[armer.before.text] = "torn" /\ ArmRefuses /\ UNCHANGED backup
     \/ backup[armer.before.text] = "whole" /\ ArmGoes("backup", "again") /\ UNCHANGED backup
  /\ UNCHANGED <<line, armTemp, helpVars, wear, past>>

\* Written, synced and read back; a write that fails takes the file with it.
DurableBackup ==
  /\ armer.at = "fill"
  /\ \/ ArmGoes("fill", "again") /\ backup' = [backup EXCEPT ![armer.before.text] = "whole"]
     \/ ArmRefuses /\ backup' = [backup EXCEPT ![armer.before.text] = "absent"]
  /\ UNCHANGED <<line, armTemp, helpVars, wear, past>>

\* The line is read again: the same bytes in the same file.
ReadAgain ==
  /\ armer.at = "again"
  /\ IF Digest(line) = armer.before /\ line.inode = armer.inode THEN ArmGoes("again", "temp") ELSE ArmRefuses
  /\ UNCHANGED <<line, backup, armTemp, helpVars, wear, past>>

\* A temporary file that somebody left is never used.
CreateTemporary ==
  /\ armer.at = "temp"
  /\ IF armTemp = "absent" THEN ArmGoes("temp", "write") /\ armTemp' = "torn" ELSE ArmRefuses /\ UNCHANGED armTemp
  /\ UNCHANGED <<line, backup, helpVars, wear, past>>

WriteTemporary ==
  /\ armer.at = "write"
  /\ \/ ArmGoes("write", "replace") /\ armTemp' = "whole"
     \/ ArmRefuses /\ armTemp' = "absent"
  /\ UNCHANGED <<line, backup, helpVars, wear, past>>

AtomicReplace ==
  /\ ArmGoes("replace", "readback")
  /\ LET after == Proposed(armer.before) IN
     line' = [text |-> after.text, triggers |-> after.triggers, other |-> after.other, inode |-> line.inode + 1]
  /\ armTemp' = "absent" /\ past' = [past EXCEPT !.armed = @ \union {armer.before.text}]
  /\ UNCHANGED <<backup, helpVars, wear>>

\* The result says ready only when the new line is read back; else it is a refusal.
ArmReadback ==
  /\ armer.at = "readback" /\ ArmRefuses
  /\ UNCHANGED <<line, backup, armTemp, helpVars, wear, past>>

\* --verify, and the reboot that its answer allows.
ArmVerify ==
  /\ armer.at = "idle" /\ Ready(line) /\ progress.boot = "unarmed"
  /\ progress' = [progress EXCEPT !.boot = "first"]
  /\ UNCHANGED <<armVars, records, tool, wear, past>>

\* Somebody else edits the boot line in place or writes it anew.
EditLine ==
  /\ wear.edits < MaxLineEdits /\ wear' = [wear EXCEPT !.edits = @ + 1]
  /\ \E o \in BOOLEAN, i \in {line.inode, line.inode + 1} :
       line' = [line EXCEPT !.text = @ + 1, !.other = o, !.inode = i]
  /\ UNCHANGED <<backup, armTemp, armer, helpVars, past>>

(***************************************************************************)
(* The bootstrap, as far as the helpers meet it: it acts on the phases     *)
(* that are no refusal.  The first one refuses the grown root, the second  *)
(* one its own volume; corrected ones are installed by hand.  A format     *)
(* that was begun and interrupted is never begun again.                    *)
(***************************************************************************)

Phase(p) == progress' = [progress EXCEPT !.phase = p]

RunBootstrap ==
  /\ progress.boot # "unarmed"
  /\ \/ progress.phase = "table_committed" /\ Phase(IF progress.corrected = 0 THEN "refused_size" ELSE "format_begins")
     \/ /\ progress.phase = "format_begins"
        /\ progress' = [progress EXCEPT !.phase = "format_intent", !.p3 = "exfat", !.formats = @ + 1]
     \/ /\ progress.phase = "format_intent"
        /\ Phase(IF progress.corrected < 2 \/ progress.p3 # "exfat" THEN "refused_volume" ELSE "formatted")
  /\ UNCHANGED <<armVars, records, tool, wear, past>>

InstallCorrection ==
  /\ progress.corrected < 2 /\ progress' = [progress EXCEPT !.corrected = @ + 1]
  /\ UNCHANGED <<armVars, records, tool, wear, past>>

(***************************************************************************)
(* The helpers.                                                            *)
(***************************************************************************)

ToolEnds == tool' = NoTool
ToolGoes(to) == tool' = [tool EXCEPT !.at = to]
Record(field, value) == records' = [records EXCEPT ![tool.helper][field] = value]
Mine == records[tool.helper]

\* The journal must be the exact refused one or the exact replacement.
ReadJournal(h) ==
  /\ tool.at = "idle" /\ progress.phase \in {SOURCE[h], REPLACEMENT[h]}
  /\ \E apply \in BOOLEAN :
       tool' = [at |-> "verify", helper |-> h, apply |-> apply, current |-> progress.phase]
  /\ UNCHANGED <<armVars, progress, records, wear, past>>

\* The exact corrected bootstrap, the same boot with its trigger, the committed table, and a
\* third partition without any signature.
VerifyLiveSize == progress.corrected = 1 /\ progress.boot = "first" /\ progress.p3 = "blank"

\* The same with the exact volume there, and nothing finished or mounted.
VerifyLiveVolume ==
  /\ progress.corrected = 2 /\ progress.boot = "first" /\ progress.p3 = "exfat"
  /\ progress.phase # "formatted"

VerifyLive ==
  /\ tool.at = "verify"
  /\ IF (tool.helper = "fssize" /\ VerifyLiveSize) \/ (tool.helper = "exfat" /\ VerifyLiveVolume)
     THEN ToolGoes("gate") ELSE ToolEnds
  /\ UNCHANGED <<armVars, progress, records, wear, past>>

\* What an earlier run left must be what it would have left.
Prepared(r) == r.archive = "source" /\ r.audit = "prepared"
Complete(r) == r.archive = "source" /\ r.audit = "complete"
RecordsAgreeLoose(r, current, h) ==
  IF current = REPLACEMENT[h] THEN Prepared(r) \/ Complete(r) ELSE r.audit = "absent" \/ Prepared(r)

RecordsAgree(r, current, h) ==
  /\ r.archive \in {"absent", "source"}
  /\ IF current = REPLACEMENT[h] THEN Prepared(r) \/ Complete(r) ELSE r.audit = "absent" \/ Prepared(r)

CheckRecords ==
  /\ tool.at = "gate"
  /\ IF RecordsAgree(Mine, tool.current, tool.helper) /\ tool.apply
        /\ ~(tool.current = REPLACEMENT[tool.helper] /\ Complete(Mine))
     THEN ToolGoes("archive") ELSE ToolEnds
  /\ UNCHANGED <<armVars, progress, records, wear, past>>

\* The archive and then the audit record, created exclusively where they are not there,
\* written and synced.
Exclusive(field, fill, skip) ==
  IF Mine[field] = "absent" THEN Record(field, "torn") /\ ToolGoes(fill)
  ELSE ToolGoes(skip) /\ UNCHANGED records

Filled(at, field, value, next) == tool.at = at /\ Record(field, value) /\ ToolGoes(next)

Archive ==
  /\ \/ tool.at = "archive" /\ Exclusive("archive", "fillarchive", "audit")
     \/ Filled("fillarchive", "archive", "source", "audit")
  /\ UNCHANGED <<armVars, progress, wear, past>>

Audit ==
  /\ \/ tool.at = "audit" /\ Exclusive("audit", "fillprepared", "state")
     \/ Filled("fillprepared", "audit", "prepared", "state")
  /\ UNCHANGED <<armVars, progress, wear, past>>

\* A temporary that is there must have the bytes; else it is created and filled.
Staged(field, fill, install) ==
  \/ Mine[field] = "absent" /\ Record(field, "torn") /\ ToolGoes(fill)
  \/ Mine[field] = "torn" /\ UNCHANGED records /\ ToolEnds
  \/ Mine[field] = "whole" /\ UNCHANGED records /\ ToolGoes(install)

StageState ==
  /\ tool.at = "state"
  /\ IF tool.current = SOURCE[tool.helper] THEN Staged("temp", "fill", "replace")
     ELSE ToolGoes("stageaudit") /\ UNCHANGED records
  /\ UNCHANGED <<armVars, progress, wear, past>>

FillState == Filled("fill", "temp", "whole", "replace") /\ UNCHANGED <<armVars, progress, wear, past>>

ReplaceState ==
  /\ tool.at = "replace" /\ Phase(REPLACEMENT[tool.helper]) /\ Record("temp", "absent") /\ ToolGoes("readback")
  /\ past' = [past EXCEPT !.restored = @ \union {tool.helper}]
  /\ UNCHANGED <<armVars, wear>>

\* The bootstrap may have gone on already; then the audit stays prepared.
ReadBack ==
  /\ tool.at = "readback"
  /\ IF progress.phase = REPLACEMENT[tool.helper] THEN ToolGoes("stageaudit") ELSE ToolEnds
  /\ UNCHANGED <<armVars, progress, records, wear, past>>

StageAudit == tool.at = "stageaudit" /\ Staged("auditTemp", "fillaudit", "complete") /\ UNCHANGED <<armVars, progress, wear, past>>

FillAudit == Filled("fillaudit", "auditTemp", "whole", "complete") /\ UNCHANGED <<armVars, progress, wear, past>>

CompleteAudit ==
  /\ tool.at = "complete" /\ ToolEnds
  /\ records' = [records EXCEPT ![tool.helper].audit = "complete", ![tool.helper].auditTemp = "absent"]
  /\ UNCHANGED <<armVars, progress, wear, past>>

(***************************************************************************)
(* Everything that runs is killed; or power is lost, and the boot is       *)
(* another one.  The journal of a begun format says so.                    *)
(***************************************************************************)

Interrupted == IF progress.phase = "format_begins" THEN "format_intent" ELSE progress.phase

Killed ==
  /\ wear.kills < MaxKills /\ wear' = [wear EXCEPT !.kills = @ + 1]
  /\ ArmRefuses /\ ToolEnds /\ Phase(Interrupted)
  /\ UNCHANGED <<line, backup, armTemp, records, past>>

RecoveryPowerLost ==
  /\ wear.kills < MaxKills /\ wear' = [wear EXCEPT !.kills = @ + 1]
  /\ ArmRefuses /\ ToolEnds
  /\ progress' = [progress EXCEPT !.phase = Interrupted, !.boot = IF @ = "unarmed" THEN @ ELSE "later"]
  /\ UNCHANGED <<line, backup, armTemp, records, past>>

RecoveryNext ==
  \/ ArmDryRun \/ ArmApply \/ CreateBackup \/ DurableBackup \/ ReadAgain \/ CreateTemporary
  \/ WriteTemporary \/ AtomicReplace \/ ArmReadback \/ ArmVerify \/ EditLine
  \/ RunBootstrap \/ InstallCorrection
  \/ \E h \in Helpers : ReadJournal(h)
  \/ VerifyLive \/ CheckRecords \/ Archive \/ Audit \/ StageState \/ FillState \/ ReplaceState
  \/ ReadBack \/ StageAudit \/ FillAudit \/ CompleteAudit \/ Killed \/ RecoveryPowerLost

RecoverySpec == RecoveryInit /\ [][RecoveryNext]_recoveryVars

(***************************************************************************)
(* Properties.                                                             *)
(***************************************************************************)

Files == {"absent", "torn", "whole"}
Phases == {"table_committed", "refused_size", "format_begins", "format_intent", "refused_volume", "formatted"}

RecoveryTypeOK ==
  /\ line \in [text : Nat, triggers : Nat, other : BOOLEAN, inode : Nat]
  /\ backup \in [Texts -> Files] /\ armTemp \in Files
  /\ armer.at \in {"idle", "backup", "fill", "again", "temp", "write", "replace", "readback"}
  /\ progress \in [phase : Phases, p3 : {"blank", "exfat"}, formats : Nat, corrected : 0 .. 2,
                  boot : {"unarmed", "first", "later"}]
  /\ records \in [Helpers -> [archive : {"absent", "torn", "source"}, audit : {"absent", "torn", "prepared", "complete"},
                              temp : Files, auditTemp : Files]]
  /\ tool.helper \in Helpers /\ past.restored \in SUBSET Helpers

\* The armer never puts a second trigger on the line, and whatever text it armed has a
\* whole backup, whoever edited the line and wherever the armer was killed.
ArmedOnce == line.triggers <= 1 /\ \A t \in past.armed : backup[t] = "whole"

\* A helper that took a refusal out of the journal has archived the refused journal and
\* said so first, and an audit that says complete is one of a journal that was restored.
RestorationRecorded ==
  \A h \in Helpers :
    /\ h \in past.restored => Prepared(records[h]) \/ Complete(records[h])
    /\ records[h].audit = "complete" => h \in past.restored

\* Taking the refusals back never leads the bootstrap to format twice, and the journal
\* speaks of a format only where a volume may be: a refusal of one is only taken back
\* when the volume is there.
NeverFormatsAgain ==
  /\ progress.formats <= 1 /\ (progress.formats = 1 <=> progress.p3 = "exfat")
  /\ ("exfat" \in past.restored \/ progress.phase = "formatted") => progress.p3 = "exfat"

RecoveryInv == RecoveryTypeOK /\ ArmedOnce /\ RestorationRecorded /\ NeverFormatsAgain
=============================================================================
