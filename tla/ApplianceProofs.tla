-------------------------- MODULE ApplianceProofs --------------------------
(***************************************************************************)
(* Proofs about what makes a card, sets it up, checks it before recording  *)
(* and installs on it, and about the network and the web: for every card,  *)
(* every bound and every number of interruptions.                          *)
(***************************************************************************)
EXTENDS CardRecovery, WebService, FirstBoot, ImageBuild, CardPlan, Initramfs, Preflight, Bootstrap,
        AppInstall, NetworkFallback, SequenceTheorems, FiniteSetTheorems, WellFoundedInduction, TLAPS

-----------------------------------------------------------------------------
(* CardRecovery *)

Line == [text : Nat, triggers : Nat, other : BOOLEAN, inode : Nat]
ArmDigest == [text : Nat, triggers : Nat, other : BOOLEAN]
Armer == [at : {"idle", "backup", "fill", "again", "temp", "write", "replace", "readback"},
          before : ArmDigest, inode : Nat, approved : ArmDigest]
Wear == [kills : Nat, edits : 0 .. MaxLineEdits]
Past == [armed : SUBSET Texts, restored : SUBSET Helpers]
Records == [archive : {"absent", "torn", "source"}, audit : {"absent", "torn", "prepared", "complete"},
            temp : Files, auditTemp : Files]
Tool == [at : {"idle", "verify", "gate", "archive", "fillarchive", "audit", "fillprepared", "state", "fill",
               "replace", "readback", "stageaudit", "fillaudit", "complete"},
         helper : Helpers, apply : BOOLEAN, current : Phases \cup {"none"}]
Progress == [phase : Phases, p3 : {"blank", "exfat"}, formats : Nat, corrected : 0 .. 2,
             boot : {"unarmed", "first", "later"}]

RecoveryTypes ==
  /\ line \in Line /\ backup \in [Texts -> Files] /\ armTemp \in Files /\ armer \in Armer
  /\ progress \in Progress /\ records \in [Helpers -> Records] /\ tool \in Tool
  /\ wear \in Wear /\ past \in Past

\* A run of the armer is about a line without a trigger, and beyond its backup that one is whole.
ArmInd ==
  /\ line.text \in 1 .. wear.edits + 1 /\ line.triggers <= 1
  /\ armer.at # "idle" => armer.before.text \in 1 .. wear.edits + 1 /\ armer.before.triggers = 0
  /\ armer.at = "fill" => backup[armer.before.text] = "torn"
  /\ armer.at \in {"again", "temp", "write", "replace", "readback"} => backup[armer.before.text] = "whole"
  /\ \A t \in past.armed : backup[t] = "whole"

\* What a helper's records say at each of its steps, and what the journal is while it works.
ToolInd ==
  LET r == records[tool.helper] IN
  /\ tool.at # "idle" => tool.current \in {SOURCE[tool.helper], REPLACEMENT[tool.helper]}
  /\ tool.at \in {"verify", "gate", "archive", "fillarchive", "audit", "fillprepared", "state", "fill", "replace"}
       /\ tool.current = SOURCE[tool.helper] => progress.phase = SOURCE[tool.helper]
  /\ tool.at \in {"fillarchive", "fillprepared", "fill", "replace"} => tool.current = SOURCE[tool.helper]
  /\ tool.at # "idle" /\ tool.current = REPLACEMENT[tool.helper] /\ r.audit = "prepared"
       => tool.helper \in past.restored
  /\ tool.at = "archive" =>
       /\ r.archive \in {"absent", "source"}
       /\ (r.audit = "absent" /\ tool.current = SOURCE[tool.helper]) \/ Prepared(r)
  /\ tool.at = "fillarchive" => r.audit = "absent" /\ r.archive = "torn"
  /\ tool.at = "audit" => r.archive = "source" /\ (r.audit = "prepared" \/ (r.audit = "absent" /\ tool.current = SOURCE[tool.helper]))
  /\ tool.at = "fillprepared" => r.archive = "source" /\ r.audit = "torn"
  /\ tool.at \in {"state", "fill", "replace", "readback", "stageaudit", "fillaudit", "complete"} => Prepared(r)
  /\ tool.at \in {"readback", "stageaudit", "fillaudit", "complete"} => tool.helper \in past.restored

\* A prepared audit of a journal that was not restored is one of a journal that still refuses.
PreparedWaits ==
  \A h \in Helpers : records[h].audit = "prepared" /\ h \notin past.restored => progress.phase = SOURCE[h]

\* Before the format the third partition is blank, and the helper for the volume has seen it.
FormatInd ==
  /\ progress.formats = IF progress.p3 = "exfat" THEN 1 ELSE 0
  /\ progress.phase \in {"table_committed", "refused_size", "format_begins"} => progress.p3 = "blank"
  /\ progress.phase = "formatted" => progress.p3 = "exfat"
  /\ "exfat" \in past.restored => progress.p3 = "exfat"
  /\ tool.helper = "exfat" /\ tool.at \notin {"idle", "verify"} => progress.p3 = "exfat"

RecoveryInd == RecoveryTypes /\ ArmInd /\ ToolInd /\ PreparedWaits /\ RestorationRecorded /\ FormatInd

HelpInd == ToolInd /\ PreparedWaits /\ RestorationRecorded /\ FormatInd

\* The line without edits, or with one, and nothing written: all five parts hold at first.
LEMMA RecoveryBegins == RecoveryInit => RecoveryInd
<1> SUFFICES ASSUME RecoveryInit PROVE RecoveryInd
  OBVIOUS
<1>1. RecoveryTypes
  BY CardRecoveryConstants
     DEF RecoveryInit, RecoveryTypes, Line, ArmDigest, Armer, Wear, Past, Records, Tool, Progress, Resting, NoDigest,
         NoTool, NoRecords, Files, Phases, Helpers, Texts
<1>2. ArmInd
  BY DEF RecoveryInit, ArmInd, Resting, Texts
<1>3. ToolInd /\ PreparedWaits /\ RestorationRecorded /\ FormatInd
  BY DEF RecoveryInit, ToolInd, PreparedWaits, RestorationRecorded, FormatInd, NoTool, NoRecords, Helpers
<1> QED
  BY <1>1, <1>2, <1>3 DEF RecoveryInd

\* What leaves the line, the backups and the armer alone keeps what is said of them.
LEMMA ArmKept ==
  ASSUME ArmInd, UNCHANGED <<line, backup, armer>>, wear'.edits = wear.edits, past'.armed = past.armed
  PROVE  ArmInd'
BY DEF ArmInd

\* The same of the journal, the records and the helpers.
LEMMA HelpKept ==
  ASSUME HelpInd, UNCHANGED helpVars, past'.restored = past.restored
  PROVE  HelpInd'
BY DEF HelpInd, ToolInd, PreparedWaits, RestorationRecorded, FormatInd, helpVars

\* A step of the armer that goes on, and one that ends its run.
LEMMA ArmerGoes ==
  ASSUME armer \in Armer, NEW from, NEW to \in {"fill", "again", "temp", "write", "replace", "readback"}, ArmGoes(from, to)
  PROVE  /\ armer' \in Armer /\ armer.at = from /\ armer'.at = to
         /\ armer'.before = armer.before /\ armer'.inode = armer.inode /\ armer'.approved = armer.approved
BY DEF ArmGoes, Armer

\* A refused arming leaves an idle armer.
LEMMA ArmerEnds ==
  ASSUME armer \in Armer, ArmRefuses
  PROVE  armer' \in Armer /\ armer'.at = "idle"
BY DEF ArmRefuses, Armer, ArmDigest, NoDigest

ArmStep ==
  \/ ArmDryRun \/ ArmApply \/ CreateBackup \/ DurableBackup \/ ReadAgain \/ CreateTemporary
  \/ WriteTemporary \/ AtomicReplace \/ ArmReadback \/ EditLine

\* The steps of the armer and the edits of the line keep the types and what is said of the line.
LEMMA ArmSteps ==
  ASSUME RecoveryTypes, ArmInd, ArmStep
  PROVE  line' \in Line /\ backup' \in [Texts -> Files] /\ armTemp' \in Files /\ armer' \in Armer
         /\ wear' \in Wear /\ past' \in Past /\ past'.restored = past.restored /\ UNCHANGED helpVars /\ ArmInd'
<1>t. /\ line \in Line /\ backup \in [Texts -> Files] /\ armTemp \in Files /\ armer \in Armer
      /\ wear \in Wear /\ past \in Past
  BY DEF RecoveryTypes
<1>w. /\ wear.edits \in 0 .. MaxLineEdits /\ MaxLineEdits \in Nat /\ wear.kills \in Nat
      /\ past.armed \in SUBSET Texts /\ past.restored \in SUBSET Helpers
      /\ armer.before \in ArmDigest /\ armer.before.text \in Nat /\ armer.before.triggers \in Nat
      /\ armer.before.other \in BOOLEAN /\ armer.inode \in Nat
      /\ line.text \in Nat /\ line.triggers \in Nat /\ line.other \in BOOLEAN /\ line.inode \in Nat
  BY <1>t, CardRecoveryConstants DEF Wear, Past, Armer, ArmDigest, Line
<1>e. wear.edits + 1 \in 1 .. MaxLineEdits + 1 /\ 1 .. wear.edits + 1 \subseteq Texts
  BY <1>w DEF Texts
<1>1. CASE ArmDryRun
  <2>1. armer' \in Armer /\ armer'.at = "idle"
    BY <1>1, <1>t, <1>w DEF ArmDryRun, Armer, Digest, ArmDigest
  <2> QED
    BY <1>1, <1>t, <2>1 DEF ArmDryRun, ArmInd, helpVars
<1>2. CASE ArmApply
  <2>1. /\ armer' \in Armer /\ armer'.at = "backup" /\ armer'.before.text = line.text /\ armer'.before.triggers = 0
        /\ UNCHANGED <<line, backup, armTemp, helpVars, wear, past>>
    BY <1>2, <1>t, <1>w DEF ArmApply, Armer, Digest, ArmDigest, ValidatePreArm, Counts
  <2> QED
    BY <1>t, <2>1 DEF ArmInd
<1>3. CASE CreateBackup
  <2>0. UNCHANGED <<line, armTemp, helpVars, wear, past>> /\ armer.at = "backup" /\ armer.before.text \in Texts
    BY <1>3, <1>e DEF CreateBackup, ArmInd
  <2>1. CASE backup[armer.before.text] = "absent" /\ ArmGoes("backup", "fill")
             /\ backup' = [backup EXCEPT ![armer.before.text] = "torn"]
    BY <2>0, <2>1, <1>t, ArmerGoes DEF ArmInd, Files
  <2>2. CASE backup[armer.before.text] = "torn" /\ ArmRefuses /\ UNCHANGED backup
    BY <2>0, <2>2, <1>t, ArmerEnds DEF ArmInd
  <2>3. CASE backup[armer.before.text] = "whole" /\ ArmGoes("backup", "again") /\ UNCHANGED backup
    BY <2>0, <2>3, <1>t, ArmerGoes DEF ArmInd
  <2> QED
    BY <1>3, <2>1, <2>2, <2>3 DEF CreateBackup
<1>4. CASE DurableBackup
  <2>0. UNCHANGED <<line, armTemp, helpVars, wear, past>> /\ armer.at = "fill" /\ armer.before.text \in Texts
    BY <1>4, <1>e DEF DurableBackup, ArmInd
  <2>1. CASE ArmGoes("fill", "again") /\ backup' = [backup EXCEPT ![armer.before.text] = "whole"]
    BY <2>0, <2>1, <1>t, ArmerGoes DEF ArmInd, Files
  <2>2. CASE ArmRefuses /\ backup' = [backup EXCEPT ![armer.before.text] = "absent"]
    BY <2>0, <2>2, <1>t, ArmerEnds DEF ArmInd, Files
  <2> QED
    BY <1>4, <2>1, <2>2 DEF DurableBackup
<1>5. CASE ReadAgain
  <2>0. UNCHANGED <<line, backup, armTemp, helpVars, wear, past>> /\ (ArmGoes("again", "temp") \/ ArmRefuses)
    BY <1>5 DEF ReadAgain
  <2>1. CASE ArmGoes("again", "temp")
    BY <2>0, <2>1, <1>t, ArmerGoes DEF ArmInd
  <2>2. CASE ArmRefuses
    BY <2>0, <2>2, <1>t, ArmerEnds DEF ArmInd
  <2> QED
    BY <2>0, <2>1, <2>2
<1>6. CASE CreateTemporary
  <2>0. /\ UNCHANGED <<line, backup, helpVars, wear, past>> /\ armTemp' \in Files
        /\ ArmGoes("temp", "write") \/ ArmRefuses
    BY <1>6, <1>t DEF CreateTemporary, Files
  <2>1. CASE ArmGoes("temp", "write")
    BY <2>0, <2>1, <1>t, ArmerGoes DEF ArmInd
  <2>2. CASE ArmRefuses
    BY <2>0, <2>2, <1>t, ArmerEnds DEF ArmInd
  <2> QED
    BY <2>0, <2>1, <2>2
<1>7. CASE WriteTemporary
  <2>0. /\ UNCHANGED <<line, backup, helpVars, wear, past>> /\ armTemp' \in Files
        /\ ArmGoes("write", "replace") \/ ArmRefuses
    BY <1>7, <1>t DEF WriteTemporary, Files
  <2>1. CASE ArmGoes("write", "replace")
    BY <2>0, <2>1, <1>t, ArmerGoes DEF ArmInd
  <2>2. CASE ArmRefuses
    BY <2>0, <2>2, <1>t, ArmerEnds DEF ArmInd
  <2> QED
    BY <2>0, <2>1, <2>2
<1>8. CASE AtomicReplace
  <2>0. ArmGoes("replace", "readback") /\ UNCHANGED <<backup, helpVars, wear>> /\ armTemp' = "absent"
    BY <1>8 DEF AtomicReplace
  <2>1. /\ armer' \in Armer /\ armer.at = "replace" /\ armer'.at = "readback" /\ armer'.before = armer.before
    BY <2>0, <1>t, ArmerGoes
  <2>2. line' \in Line /\ line'.text = armer.before.text /\ line'.triggers = armer.before.triggers + 1
    BY <1>8, <1>w DEF AtomicReplace, Proposed, ArmDigest, Line
  <2>3. /\ past' \in Past /\ past'.restored = past.restored /\ past'.armed = past.armed \union {armer.before.text}
    BY <1>8, <1>t, <1>w, <1>e, <2>1 DEF AtomicReplace, Past, ArmInd
  <2> QED
    BY <2>0, <2>1, <2>2, <2>3, <1>t, <1>w DEF ArmInd, Files
<1>9. CASE ArmReadback
  BY <1>9, <1>t, ArmerEnds DEF ArmReadback, ArmInd
<1>10. CASE EditLine
  <2>1. /\ wear' \in Wear /\ wear'.edits = wear.edits + 1 /\ UNCHANGED <<backup, armTemp, armer, helpVars, past>>
    BY <1>10, <1>t, <1>w DEF EditLine, Wear
  <2>2. /\ line' \in Line /\ line'.text = line.text + 1 /\ line'.triggers = line.triggers
    <3>p. PICK o \in BOOLEAN, i \in {line.inode, line.inode + 1} :
                 line' = [line EXCEPT !.text = @ + 1, !.other = o, !.inode = i]
      BY <1>10 DEF EditLine
    <3>1. line.text + 1 \in Nat /\ i \in Nat
      BY <1>w
    <3> QED
      BY <3>p, <3>1, <1>t DEF Line
  <2> QED
    BY <2>1, <2>2, <1>t, <1>w DEF ArmInd
<1> QED
  BY <1>1, <1>2, <1>3, <1>4, <1>5, <1>6, <1>7, <1>8, <1>9, <1>10 DEF ArmStep

\* What the steps of a run of a helper leave: its record, and the journal where they write neither.
LEMMA ToolMoves ==
  ASSUME tool \in Tool, NEW to, ToolGoes(to),
         to \in {"gate", "archive", "fillarchive", "audit", "fillprepared", "state", "fill", "replace", "readback",
                 "stageaudit", "fillaudit", "complete"}
  PROVE  /\ tool' \in Tool /\ tool'.at = to
         /\ tool'.helper = tool.helper /\ tool'.current = tool.current /\ tool'.apply = tool.apply
BY DEF ToolGoes, Tool

\* A run of a helper that ends leaves no run behind.
LEMMA ToolStops ==
  ASSUME ToolEnds
  PROVE  tool' \in Tool /\ tool'.at = "idle" /\ tool'.helper = "fssize"
BY DEF ToolEnds, Tool, NoTool, Helpers

\* A run that ends, or goes on to a step with the same claims, changes nothing that is said.
LEMMA ToolLeaves ==
  ASSUME HelpInd, ToolEnds, UNCHANGED records, progress'.phase = progress.phase, progress'.p3 = progress.p3,
         progress'.formats = progress.formats, past'.restored = past.restored
  PROVE  HelpInd'
<1>1. tool'.at = "idle"
  BY ToolStops
<1> QED
  BY <1>1 DEF HelpInd, ToolInd, PreparedWaits, RestorationRecorded, FormatInd

\* Writing one of the records of a helper leaves the others, and those of the other helper.
LEMMA RecordWritten ==
  ASSUME tool \in Tool, records \in [Helpers -> Records], NEW f \in {"archive", "audit", "temp", "auditTemp"}, NEW v,
         Record(f, v),
         \/ f = "archive" /\ v \in {"absent", "torn", "source"}
         \/ f = "audit" /\ v \in {"absent", "torn", "prepared", "complete"}
         \/ f \in {"temp", "auditTemp"} /\ v \in Files
  PROVE  /\ records' \in [Helpers -> Records]
         /\ \A h \in Helpers : h # tool.helper => records'[h] = records[h]
         /\ records'[tool.helper].archive = (IF f = "archive" THEN v ELSE records[tool.helper].archive)
         /\ records'[tool.helper].audit = (IF f = "audit" THEN v ELSE records[tool.helper].audit)
<1>1. tool.helper \in Helpers /\ records[tool.helper] \in Records
  BY DEF Tool
<1>2. CASE f = "archive"
  BY <1>1, <1>2 DEF Record, Records
<1>3. CASE f = "audit"
  BY <1>1, <1>3 DEF Record, Records
<1>4. CASE f = "temp"
  BY <1>1, <1>4 DEF Record, Records
<1>5. CASE f = "auditTemp"
  BY <1>1, <1>5 DEF Record, Records
<1> QED
  BY <1>2, <1>3, <1>4, <1>5

HelpTypes == progress \in Progress /\ records \in [Helpers -> Records] /\ tool \in Tool /\ past \in Past

\* Reading the journal, the checks before anything is written, and the read back afterwards.
LEMMA HelperReads ==
  ASSUME HelpTypes, HelpInd, (\E h \in Helpers : ReadJournal(h)) \/ VerifyLive \/ CheckRecords \/ ReadBack
  PROVE  HelpTypes' /\ HelpInd' /\ UNCHANGED <<armVars, wear>> /\ past'.armed = past.armed
<1>t. tool \in Tool /\ progress \in Progress /\ records[tool.helper] \in Records /\ tool.helper \in Helpers
      /\ progress.phase \in Phases
  BY DEF HelpTypes, Tool, Progress
<1>1. CASE \E h \in Helpers : ReadJournal(h)
  <2>p. PICK h \in Helpers : ReadJournal(h)
    BY <1>1
  <2>1. /\ tool' \in Tool /\ tool'.at = "verify" /\ tool'.helper = h /\ tool'.current = progress.phase
        /\ progress.phase \in {SOURCE[h], REPLACEMENT[h]} /\ UNCHANGED <<armVars, progress, records, wear, past>>
    BY <2>p, <1>t DEF ReadJournal, Tool
  <2>2. SOURCE[h] # REPLACEMENT[h]
    BY DEF SOURCE, REPLACEMENT, Helpers
  <2> QED
    BY <2>1, <2>2 DEF HelpTypes, HelpInd, ToolInd, PreparedWaits, RestorationRecorded, FormatInd
<1>2. CASE VerifyLive
  <2>0. /\ UNCHANGED <<armVars, progress, records, wear, past>> /\ tool.at = "verify"
        /\ \/ ToolEnds
           \/ ToolGoes("gate") /\ (tool.helper = "exfat" => progress.p3 = "exfat")
    BY <1>2 DEF VerifyLive, VerifyLiveVolume
  <2>1. CASE ToolEnds
    BY <2>0, <2>1, ToolStops, ToolLeaves DEF HelpTypes
  <2>2. CASE ToolGoes("gate") /\ (tool.helper = "exfat" => progress.p3 = "exfat")
    <3>1. tool' \in Tool /\ tool'.at = "gate" /\ tool'.helper = tool.helper /\ tool'.current = tool.current
      BY <2>2, <1>t, ToolMoves
    <3> QED
      BY <3>1, <2>0, <2>2 DEF HelpTypes, HelpInd, ToolInd, PreparedWaits, RestorationRecorded, FormatInd
  <2> QED
    BY <2>0, <2>1, <2>2
<1>3. CASE CheckRecords
  <2>0. /\ UNCHANGED <<armVars, progress, records, wear, past>> /\ tool.at = "gate"
        /\ \/ ToolEnds
           \/ /\ ToolGoes("archive") /\ RecordsAgree(Mine, tool.current, tool.helper)
              /\ ~(tool.current = REPLACEMENT[tool.helper] /\ Complete(Mine))
    BY <1>3 DEF CheckRecords
  <2>1. CASE ToolEnds
    BY <2>0, <2>1, ToolStops, ToolLeaves DEF HelpTypes
  <2>2. CASE /\ ToolGoes("archive") /\ RecordsAgree(Mine, tool.current, tool.helper)
             /\ ~(tool.current = REPLACEMENT[tool.helper] /\ Complete(Mine))
    <3>1. tool' \in Tool /\ tool'.at = "archive" /\ tool'.helper = tool.helper /\ tool'.current = tool.current
      BY <2>2, <1>t, ToolMoves
    <3>2. LET r == records[tool.helper] IN
          /\ r.archive \in {"absent", "source"}
          /\ (r.audit = "absent" /\ tool.current = SOURCE[tool.helper]) \/ Prepared(r)
      BY <2>2, <2>0 DEF RecordsAgree, Mine, HelpInd, ToolInd
    <3> QED
      BY <3>1, <3>2, <2>0 DEF HelpTypes, HelpInd, ToolInd, PreparedWaits, RestorationRecorded, FormatInd
  <2> QED
    BY <2>0, <2>1, <2>2
<1>4. CASE ReadBack
  <2>0. /\ UNCHANGED <<armVars, progress, records, wear, past>> /\ tool.at = "readback"
        /\ ToolEnds \/ ToolGoes("stageaudit")
    BY <1>4 DEF ReadBack
  <2>1. CASE ToolEnds
    BY <2>0, <2>1, ToolStops, ToolLeaves DEF HelpTypes
  <2>2. CASE ToolGoes("stageaudit")
    <3>1. tool' \in Tool /\ tool'.at = "stageaudit" /\ tool'.helper = tool.helper /\ tool'.current = tool.current
      BY <2>2, <1>t, ToolMoves
    <3> QED
      BY <3>1, <2>0 DEF HelpTypes, HelpInd, ToolInd, PreparedWaits, RestorationRecorded, FormatInd
  <2> QED
    BY <2>0, <2>1, <2>2
<1> QED
  BY <1>1, <1>2, <1>3, <1>4

\* The archive, then the audit record, then the staged journal and the staged audit.
LEMMA HelperWrites ==
  ASSUME HelpTypes, HelpInd, Archive \/ Audit \/ StageState \/ FillState \/ StageAudit \/ FillAudit
  PROVE  HelpTypes' /\ HelpInd' /\ UNCHANGED <<armVars, wear>> /\ past'.armed = past.armed
<1>t. tool \in Tool /\ records \in [Helpers -> Records] /\ records[tool.helper] \in Records /\ tool.helper \in Helpers
      /\ UNCHANGED <<armVars, progress, wear, past>>
  BY DEF HelpTypes, Tool, Progress, Archive, Audit, StageState, FillState, StageAudit, FillAudit
<1>s. SOURCE[tool.helper] # REPLACEMENT[tool.helper]
  BY <1>t DEF SOURCE, REPLACEMENT, Helpers
<1> USE DEF HelpTypes, HelpInd, ToolInd, PreparedWaits, RestorationRecorded, FormatInd
<1>1. CASE Archive
  <2>1. CASE tool.at = "archive" /\ Mine["archive"] = "absent" /\ Record("archive", "torn") /\ ToolGoes("fillarchive")
    <3>1. tool' \in Tool /\ tool'.at = "fillarchive" /\ tool'.helper = tool.helper /\ tool'.current = tool.current
      BY <2>1, <1>t, ToolMoves
    <3>2. /\ records' \in [Helpers -> Records] /\ \A h \in Helpers : h # tool.helper => records'[h] = records[h]
          /\ records'[tool.helper].archive = "torn" /\ records'[tool.helper].audit = records[tool.helper].audit
      BY <2>1, <1>t, RecordWritten
    <3>3. records[tool.helper].archive = "absent" /\ records[tool.helper].audit = "absent"
          /\ tool.current = SOURCE[tool.helper] /\ tool.helper \notin past.restored
      BY <2>1, <1>t DEF Mine, Prepared, Complete
    <3> QED
      BY <3>1, <3>2, <3>3, <2>1, <1>t, <1>s DEF Prepared, Complete
  <2>2. CASE tool.at = "archive" /\ Mine["archive"] # "absent" /\ ToolGoes("audit") /\ UNCHANGED records
    <3>1. tool' \in Tool /\ tool'.at = "audit" /\ tool'.helper = tool.helper /\ tool'.current = tool.current
      BY <2>2, <1>t, ToolMoves
    <3> QED
      BY <3>1, <2>2, <1>t DEF Prepared, Mine
  <2>3. CASE tool.at = "fillarchive" /\ Record("archive", "source") /\ ToolGoes("audit")
    <3>1. tool' \in Tool /\ tool'.at = "audit" /\ tool'.helper = tool.helper /\ tool'.current = tool.current
      BY <2>3, <1>t, ToolMoves
    <3>2. /\ records' \in [Helpers -> Records] /\ \A h \in Helpers : h # tool.helper => records'[h] = records[h]
          /\ records'[tool.helper].archive = "source" /\ records'[tool.helper].audit = records[tool.helper].audit
      BY <2>3, <1>t, RecordWritten
    <3> QED
      BY <3>1, <3>2, <2>3, <1>t, <1>s DEF Prepared, Complete
  <2> QED
    BY <1>1, <2>1, <2>2, <2>3 DEF Archive, Exclusive, Filled
<1>2. CASE Audit
  <2>1. CASE tool.at = "audit" /\ Mine["audit"] = "absent" /\ Record("audit", "torn") /\ ToolGoes("fillprepared")
    <3>1. tool' \in Tool /\ tool'.at = "fillprepared" /\ tool'.helper = tool.helper /\ tool'.current = tool.current
      BY <2>1, <1>t, ToolMoves
    <3>2. /\ records' \in [Helpers -> Records] /\ \A h \in Helpers : h # tool.helper => records'[h] = records[h]
          /\ records'[tool.helper].archive = records[tool.helper].archive /\ records'[tool.helper].audit = "torn"
      BY <2>1, <1>t, RecordWritten
    <3>3. records[tool.helper].audit = "absent"
          /\ tool.current = SOURCE[tool.helper] /\ tool.helper \notin past.restored
      BY <2>1, <1>t DEF Mine, Prepared, Complete
    <3> QED
      BY <3>1, <3>2, <3>3, <2>1, <1>t, <1>s DEF Prepared, Complete
  <2>2. CASE tool.at = "audit" /\ Mine["audit"] # "absent" /\ ToolGoes("state") /\ UNCHANGED records
    <3>1. tool' \in Tool /\ tool'.at = "state" /\ tool'.helper = tool.helper /\ tool'.current = tool.current
      BY <2>2, <1>t, ToolMoves
    <3> QED
      BY <3>1, <2>2, <1>t DEF Prepared, Mine
  <2>3. CASE tool.at = "fillprepared" /\ Record("audit", "prepared") /\ ToolGoes("state")
    <3>1. tool' \in Tool /\ tool'.at = "state" /\ tool'.helper = tool.helper /\ tool'.current = tool.current
      BY <2>3, <1>t, ToolMoves
    <3>2. /\ records' \in [Helpers -> Records] /\ \A h \in Helpers : h # tool.helper => records'[h] = records[h]
          /\ records'[tool.helper].archive = records[tool.helper].archive /\ records'[tool.helper].audit = "prepared"
      BY <2>3, <1>t, RecordWritten
    <3> QED
      BY <3>1, <3>2, <2>3, <1>t, <1>s DEF Prepared, Complete
  <2> QED
    BY <1>2, <2>1, <2>2, <2>3 DEF Audit, Exclusive, Filled
<1>3. ASSUME NEW f \in {"temp", "auditTemp"}, NEW to, NEW v \in Files, Record(f, v), ToolGoes(to),
             \/ tool.at \in {"state", "fill"} /\ tool.current = SOURCE[tool.helper] /\ to \in {"fill", "replace"}
             \/ tool.at \in {"stageaudit", "fillaudit"} /\ to \in {"fillaudit", "complete"}
      PROVE  HelpTypes' /\ HelpInd'
  <2>1. tool' \in Tool /\ tool'.at = to /\ tool'.helper = tool.helper /\ tool'.current = tool.current
    BY <1>3, <1>t, ToolMoves
  <2>2. /\ records' \in [Helpers -> Records] /\ \A h \in Helpers : h # tool.helper => records'[h] = records[h]
        /\ records'[tool.helper].archive = records[tool.helper].archive
        /\ records'[tool.helper].audit = records[tool.helper].audit
    BY <1>3, <1>t, RecordWritten
  <2> QED
    BY <2>1, <2>2, <1>3, <1>t, <1>s DEF Prepared, Complete
<1>4. ASSUME NEW to, UNCHANGED records, ToolGoes(to),
             \/ tool.at = "state" /\ tool.current = SOURCE[tool.helper] /\ to = "replace"
             \/ tool.at = "state" /\ tool.current # SOURCE[tool.helper] /\ to = "stageaudit"
             \/ tool.at = "stageaudit" /\ to = "complete"
      PROVE  HelpTypes' /\ HelpInd'
  <2>1. tool' \in Tool /\ tool'.at = to /\ tool'.helper = tool.helper /\ tool'.current = tool.current
    BY <1>4, <1>t, ToolMoves
  <2> QED
    BY <2>1, <1>4, <1>t, <1>s DEF Prepared, Complete
<1>5. ASSUME UNCHANGED records, ToolEnds PROVE HelpTypes' /\ HelpInd'
  BY <1>5, <1>t, ToolStops, ToolLeaves
<1>6. CASE StageState
  BY <1>6, <1>3, <1>4, <1>5 DEF StageState, Staged, Files
<1>7. CASE FillState
  BY <1>7, <1>3 DEF FillState, Filled, Files
<1>8. CASE StageAudit
  BY <1>8, <1>3, <1>4, <1>5 DEF StageAudit, Staged, Files
<1>9. CASE FillAudit
  BY <1>9, <1>3 DEF FillAudit, Filled, Files
<1> QED
  BY <1>1, <1>2, <1>6, <1>7, <1>8, <1>9, <1>t

\* The journal is replaced and the audit completed: the two steps that somebody else acts upon.
LEMMA HelperRestores ==
  ASSUME HelpTypes, HelpInd, ReplaceState \/ CompleteAudit
  PROVE  HelpTypes' /\ HelpInd' /\ UNCHANGED <<armVars, wear>> /\ past'.armed = past.armed
<1>t. tool \in Tool /\ records \in [Helpers -> Records] /\ records[tool.helper] \in Records /\ tool.helper \in Helpers
      /\ progress \in Progress /\ past \in Past
  BY DEF HelpTypes, Tool
<1>s. SOURCE[tool.helper] # REPLACEMENT[tool.helper] /\ REPLACEMENT[tool.helper] \in Phases
  BY <1>t DEF SOURCE, REPLACEMENT, Helpers, Phases
<1>1. CASE ReplaceState
  <2>1. tool' \in Tool /\ tool'.at = "readback" /\ tool'.helper = tool.helper /\ tool'.current = tool.current
    BY <1>1, <1>t, ToolMoves DEF ReplaceState
  <2>2. /\ records' \in [Helpers -> Records] /\ \A h \in Helpers : h # tool.helper => records'[h] = records[h]
        /\ records'[tool.helper].archive = records[tool.helper].archive
        /\ records'[tool.helper].audit = records[tool.helper].audit
    BY <1>1, <1>t, RecordWritten DEF ReplaceState, Files
  <2>3. /\ progress' \in Progress /\ progress'.phase = REPLACEMENT[tool.helper] /\ progress'.p3 = progress.p3
        /\ progress'.formats = progress.formats
    BY <1>1, <1>t, <1>s DEF ReplaceState, Phase, Progress
  <2>4. past' \in Past /\ past'.armed = past.armed /\ past'.restored = past.restored \union {tool.helper}
    BY <1>1, <1>t DEF ReplaceState, Past
  <2>5. /\ tool.at = "replace" /\ tool.current = SOURCE[tool.helper] /\ progress.phase = SOURCE[tool.helper]
        /\ Prepared(records[tool.helper]) /\ UNCHANGED <<armVars, wear>>
    BY <1>1 DEF ReplaceState, HelpInd, ToolInd
  <2>6. HelpTypes'
    BY <2>1, <2>2, <2>3, <2>4 DEF HelpTypes
  <2>7. ToolInd'
    BY <2>1, <2>2, <2>4, <2>5, <1>s, <1>t DEF ToolInd, Prepared
  <2>8. PreparedWaits'
    <3>1. ASSUME NEW h \in Helpers, h # tool.helper PROVE ~(records[h].audit = "prepared" /\ h \notin past.restored)
      BY <3>1, <2>5, <1>t DEF HelpInd, PreparedWaits, SOURCE, Helpers
    <3> QED
      BY <3>1, <2>2, <2>4 DEF PreparedWaits
  <2>9. RestorationRecorded'
    BY <2>2, <2>4, <2>5, <1>t DEF HelpInd, RestorationRecorded, Prepared, Complete
  <2>10. FormatInd'
    BY <2>1, <2>3, <2>4, <2>5, <1>t DEF HelpInd, FormatInd, SOURCE, REPLACEMENT, Helpers
  <2> QED
    BY <2>4, <2>5, <2>6, <2>7, <2>8, <2>9, <2>10 DEF HelpInd
<1>2. CASE CompleteAudit
  <2>1. tool' \in Tool /\ tool'.at = "idle"
    BY <1>2, ToolStops DEF CompleteAudit
  <2>2. /\ records' \in [Helpers -> Records] /\ \A h \in Helpers : h # tool.helper => records'[h] = records[h]
        /\ records'[tool.helper].archive = records[tool.helper].archive
        /\ records'[tool.helper].audit = "complete"
    BY <1>2, <1>t DEF CompleteAudit, Records, Files
  <2>3. UNCHANGED <<armVars, progress, wear, past>> /\ tool.at = "complete"
    BY <1>2 DEF CompleteAudit
  <2> QED
    BY <2>1, <2>2, <2>3, <1>t
       DEF HelpTypes, HelpInd, ToolInd, PreparedWaits, RestorationRecorded, FormatInd, Prepared, Complete
<1> QED
  BY <1>1, <1>2

\* The bootstrap goes on, a corrected one is installed, the boot is armed; or all is interrupted.
LEMMA BootstrapMoves ==
  ASSUME HelpTypes, HelpInd, armer \in Armer, wear \in Wear, ArmInd,
         RunBootstrap \/ InstallCorrection \/ ArmVerify \/ Killed \/ RecoveryPowerLost
  PROVE  HelpTypes' /\ HelpInd' /\ armer' \in Armer /\ wear' \in Wear /\ ArmInd' /\ UNCHANGED <<line, backup, armTemp>>
<1>t. /\ tool \in Tool /\ progress \in Progress /\ progress.phase \in Phases /\ progress.formats \in Nat
      /\ progress.corrected \in 0 .. 2 /\ wear.kills \in Nat /\ UNCHANGED past
      /\ tool.helper \in Helpers
  BY DEF HelpTypes, Progress, Wear, RunBootstrap, InstallCorrection, ArmVerify, Killed, RecoveryPowerLost, Tool
<1>s. SOURCE["fssize"] = "refused_size" /\ SOURCE["exfat"] = "refused_volume"
  BY DEF SOURCE
<1>1. CASE RunBootstrap
  <2>0. UNCHANGED <<armVars, records, tool, wear>>
    BY <1>1 DEF RunBootstrap
  <2>1. /\ progress' \in Progress /\ progress.phase \in {"table_committed", "format_begins", "format_intent"}
        /\ \/ /\ progress.phase = "table_committed" /\ progress'.phase \in {"refused_size", "format_begins"}
              /\ progress'.p3 = progress.p3 /\ progress'.formats = progress.formats
           \/ /\ progress.phase = "format_begins" /\ progress'.phase = "format_intent"
              /\ progress'.p3 = "exfat" /\ progress'.formats = progress.formats + 1
           \/ /\ progress.phase = "format_intent" /\ progress'.p3 = progress.p3 /\ progress'.formats = progress.formats
              /\ \/ progress'.phase = "refused_volume"
                 \/ progress'.phase = "formatted" /\ progress.p3 = "exfat"
    <3>1. CASE progress.phase = "table_committed" /\ Phase(IF progress.corrected = 0 THEN "refused_size" ELSE "format_begins")
      BY <3>1, <1>t DEF Phase, Progress, Phases
    <3>2. CASE /\ progress.phase = "format_begins"
               /\ progress' = [progress EXCEPT !.phase = "format_intent", !.p3 = "exfat", !.formats = @ + 1]
      <4>1. progress.formats + 1 \in Nat
        BY <1>t
      <4> QED
        BY <3>2, <4>1, <1>t DEF Progress, Phases
    <3>3. CASE /\ progress.phase = "format_intent"
               /\ Phase(IF progress.corrected < 2 \/ progress.p3 # "exfat" THEN "refused_volume" ELSE "formatted")
      BY <3>3, <1>t DEF Phase, Progress, Phases
    <3> QED
      BY <1>1, <3>1, <3>2, <3>3 DEF RunBootstrap
  <2>2. ToolInd' /\ PreparedWaits' /\ RestorationRecorded'
    BY <2>0, <2>1, <1>s, <1>t DEF HelpInd, ToolInd, PreparedWaits, RestorationRecorded, Helpers
  <2>3. FormatInd'
    BY <2>0, <2>1, <1>t DEF HelpInd, FormatInd
  <2>4. ArmInd'
    BY <2>0, <1>t DEF ArmInd, armVars
  <2> QED
    BY <2>0, <2>1, <2>2, <2>3, <2>4, <1>t DEF HelpTypes, HelpInd, armVars
<1>2. CASE InstallCorrection \/ ArmVerify
  <2>0. UNCHANGED <<armVars, records, tool, wear, past>>
    BY <1>2 DEF InstallCorrection, ArmVerify
  <2>1. /\ progress' \in Progress /\ progress'.phase = progress.phase /\ progress'.p3 = progress.p3
        /\ progress'.formats = progress.formats
    BY <1>2, <1>t DEF InstallCorrection, ArmVerify, Progress
  <2>2. HelpInd'
    BY <2>0, <2>1 DEF HelpInd, ToolInd, PreparedWaits, RestorationRecorded, FormatInd
  <2>3. ArmInd'
    BY <2>0 DEF ArmInd, armVars
  <2> QED
    BY <2>0, <2>1, <2>2, <2>3 DEF HelpTypes, armVars
<1>3. CASE Killed \/ RecoveryPowerLost
  <2>0. UNCHANGED <<line, backup, armTemp, records, past>> /\ ArmRefuses /\ ToolEnds
    BY <1>3 DEF Killed, RecoveryPowerLost
  <2>1. armer' \in Armer /\ armer'.at = "idle" /\ tool' \in Tool /\ tool'.at = "idle"
    BY <2>0, ArmerEnds, ToolStops
  <2>2. wear' \in Wear /\ wear'.edits = wear.edits
    BY <1>3, <1>t DEF Killed, RecoveryPowerLost, Wear
  <2>3. /\ progress' \in Progress /\ progress'.p3 = progress.p3 /\ progress'.formats = progress.formats
        /\ progress'.phase = IF progress.phase = "format_begins" THEN "format_intent" ELSE progress.phase
    BY <1>3, <1>t DEF Killed, RecoveryPowerLost, Phase, Interrupted, Progress, Phases
  <2>4. ArmInd'
    BY <2>0, <2>1, <2>2 DEF ArmInd
  <2>5. ToolInd' /\ PreparedWaits' /\ RestorationRecorded'
    BY <2>0, <2>1, <2>3, <1>s DEF HelpInd, ToolInd, PreparedWaits, RestorationRecorded, Helpers
  <2>6. FormatInd'
    BY <2>0, <2>1, <2>3, <1>t DEF HelpInd, FormatInd
  <2> QED
    BY <2>0, <2>1, <2>2, <2>3, <2>4, <2>5, <2>6 DEF HelpTypes, HelpInd
<1> QED
  BY <1>1, <1>2, <1>3

\* Every step of the armer, the helpers, the bootstrap and those who interrupt them keeps all parts.
LEMMA RecoveryStep ==
  ASSUME RecoveryInd, [RecoveryNext]_recoveryVars
  PROVE  RecoveryInd'
<1>t. RecoveryTypes /\ HelpTypes /\ HelpInd /\ ArmInd /\ armer \in Armer /\ wear \in Wear
      /\ line \in Line /\ backup \in [Texts -> Files] /\ armTemp \in Files
  BY DEF RecoveryInd, RecoveryTypes, HelpTypes, HelpInd
<1>1. CASE ArmStep
  <2>1. HelpInd'
    BY <1>1, <1>t, ArmSteps, HelpKept
  <2> QED
    BY <2>1, <1>1, <1>t, ArmSteps DEF RecoveryInd, RecoveryTypes, HelpInd, helpVars
<1>2. ASSUME HelpTypes' /\ HelpInd' /\ UNCHANGED <<armVars, wear>> /\ past'.armed = past.armed PROVE RecoveryInd'
  <2>1. ArmInd'
    BY <1>2, <1>t, ArmKept DEF armVars
  <2> QED
    BY <2>1, <1>2, <1>t DEF RecoveryInd, RecoveryTypes, HelpTypes, HelpInd, armVars
<1>3. CASE (\E h \in Helpers : ReadJournal(h)) \/ VerifyLive \/ CheckRecords \/ ReadBack
  BY <1>3, <1>2, <1>t, HelperReads
<1>4. CASE Archive \/ Audit \/ StageState \/ FillState \/ StageAudit \/ FillAudit
  BY <1>4, <1>2, <1>t, HelperWrites
<1>5. CASE ReplaceState \/ CompleteAudit
  BY <1>5, <1>2, <1>t, HelperRestores
<1>6. CASE RunBootstrap \/ InstallCorrection \/ ArmVerify \/ Killed \/ RecoveryPowerLost
  <2>1. /\ HelpTypes' /\ HelpInd' /\ armer' \in Armer /\ wear' \in Wear /\ ArmInd' /\ UNCHANGED <<line, backup, armTemp>>
    BY <1>6, <1>t, BootstrapMoves
  <2> QED
    BY <2>1, <1>t DEF RecoveryInd, RecoveryTypes, HelpTypes, HelpInd
<1>7. CASE UNCHANGED recoveryVars
  <2>1. HelpInd' /\ ArmInd'
    BY <1>7, <1>t, HelpKept, ArmKept DEF recoveryVars, helpVars
  <2> QED
    BY <2>1, <1>7, <1>t DEF recoveryVars, RecoveryInd, RecoveryTypes, HelpInd
<1> QED
  BY <1>1, <1>3, <1>4, <1>5, <1>6, <1>7 DEF RecoveryNext, ArmStep

\* For any number of edits of the boot line and of interruptions: the card is armed once and with
\* its backup, what took a refusal out of the journal is on record, and the volume is made once.
THEOREM CardIsRecoveredSafely == RecoverySpec => []RecoveryInv
<1>1. RecoveryInd => RecoveryInv
  <2> SUFFICES ASSUME RecoveryInd PROVE RecoveryInv
    OBVIOUS
  <2>1. RecoveryTypeOK
    BY DEF RecoveryInd, RecoveryTypes, RecoveryTypeOK, Line, Armer, Progress, Records, Tool, Past
  <2>2. ArmedOnce
    BY DEF RecoveryInd, ArmInd, ArmedOnce
  <2>3. NeverFormatsAgain
    BY DEF RecoveryInd, FormatInd, NeverFormatsAgain
  <2> QED
    BY <2>1, <2>2, <2>3 DEF RecoveryInd, RecoveryInv
<1> QED
  BY <1>1, RecoveryBegins, RecoveryStep, PTL DEF RecoverySpec

-----------------------------------------------------------------------------
(* WebService *)

Session == [token : Nat, created : Nat, seen : Nat, reauth : Nat]
Token == [born : Nat, password : Nat, used : Nat, revoked : BOOLEAN]

WebTypes ==
  /\ seconds \in Nat /\ opened \subseteq Session /\ IsFiniteSet(opened) /\ tokens \in Seq(Token)
  /\ minted \in Nat

Speaks(s, t) == t.born = s.created /\ t.password = s.reauth /\ t.used = s.seen /\ ~t.revoked

\* A session says of its token what is true of it, and no token has two.
SessionsKnown ==
  /\ \A s \in opened :
       /\ s.token \in 1 .. Len(tokens)
       /\ Speaks(s, tokens[s.token])
  /\ \A r, s \in opened : r.token = s.token => r = s

\* The events made and those that may still be.
EventsBehind == triggered \cup {EventOf(a) : a \in {c \in late \cup {asked} : c.kind = "event"}}

\* An id is the client's for the wish, or one the service made up before now.
IdFits(e, limit) ==
  /\ e = [id |-> e.id, wish |-> e.wish, named |-> e.named] /\ e.named \in BOOLEAN
  /\ \/ e.named /\ e.id = ClientId(e.wish)
     \/ ~e.named /\ e.id = ServiceId(e.id.n) /\ e.id.n \in 1 .. limit

\* Every event that is made or under way has an id, and no id stands for two.
EventsNamed ==
  /\ \A e \in EventsBehind : IdFits(e, minted)
  /\ \A d, e \in EventsBehind : d.id = e.id => d = e

WebInd == WebTypes /\ SessionsKnown /\ EventsNamed /\ CallsAuthorised /\ SessionsBounded

\* Without a session nothing is claimed.
LEMMA WebBegins == WebInit => WebInd
<1> SUFFICES ASSUME WebInit PROVE WebInd
  OBVIOUS
<1>1. WebTypes /\ SessionsKnown /\ EventsNamed
  BY FS_EmptySet DEF WebInit, WebTypes, SessionsKnown, EventsNamed, EventsBehind, NoCall
<1>2. CallsAuthorised
  BY WebConstants DEF WebInit, CallsAuthorised, Unasked
<1>3. SessionsBounded
  BY WebConstants, FS_EmptySet DEF WebInit, SessionsBounded
<1> QED
  BY <1>1, <1>2, <1>3 DEF WebInd

\* Putting one session in the place of the one with its token keeps the bound.
LEMMA ReplacedSession ==
  ASSUME WebTypes, SessionsBounded, NEW s \in opened, NEW r
  PROVE  IsFiniteSet(Without(s.token) \cup {r}) /\ Cardinality(Without(s.token) \cup {r}) <= MaxSessions
<1>1. Without(s.token) \subseteq opened \ {s}
  BY DEF Without
<1>2. IsFiniteSet(opened) /\ Cardinality(opened) \in Nat /\ Cardinality(opened) <= MaxSessions /\ MaxSessions \in Nat
  BY FS_CardinalityType, WebConstants DEF WebTypes, SessionsBounded
<1>3. IsFiniteSet(opened \ {s}) /\ Cardinality(opened \ {s}) = Cardinality(opened) - 1
  BY <1>2, FS_RemoveElement
<1>4. IsFiniteSet(Without(s.token)) /\ Cardinality(Without(s.token)) <= Cardinality(opened) - 1
      /\ Cardinality(Without(s.token)) \in Nat
  BY <1>1, <1>3, FS_Subset, FS_CardinalityType
<1>5. /\ IsFiniteSet(Without(s.token) \cup {r})
      /\ Cardinality(Without(s.token) \cup {r}) \in {Cardinality(Without(s.token)), Cardinality(Without(s.token)) + 1}
  BY <1>4, FS_AddElement
<1> QED
  BY <1>2, <1>4, <1>5

\* The use of a session: its token and it are touched together.
LEMMA SessionUsed ==
  ASSUME WebTypes, SessionsKnown, SessionsBounded, NEW s \in opened, NEW t \in Session, NEW k \in Token,
         t.token = s.token, Speaks(t, k), opened' = Without(s.token) \cup {t},
         tokens' = [tokens EXCEPT ![s.token] = k], UNCHANGED seconds, minted' \in Nat
  PROVE  WebTypes' /\ SessionsKnown' /\ SessionsBounded'
<1>t. s \in Session /\ s.token \in 1 .. Len(tokens) /\ tokens \in Seq(Token) /\ Len(tokens) \in Nat
  BY DEF WebTypes, SessionsKnown
<1>3. /\ tokens' \in Seq(Token) /\ Len(tokens') = Len(tokens) /\ tokens'[s.token] = k
      /\ \A i \in 1 .. Len(tokens) : i # s.token => tokens'[i] = tokens[i]
  BY <1>t
<1>4. WebTypes' /\ SessionsBounded'
  BY <1>3, <1>t, ReplacedSession DEF WebTypes, SessionsBounded, Without
<1>5. SessionsKnown'
  <2>1. ASSUME NEW x \in opened' PROVE x.token \in 1 .. Len(tokens') /\ Speaks(x, tokens'[x.token])
    BY <2>1, <1>3, <1>t DEF SessionsKnown, Without
  <2>2. ASSUME NEW x \in opened', NEW y \in opened', x.token = y.token PROVE x = y
    BY <2>2 DEF SessionsKnown, Without
  <2> QED
    BY <2>1, <2>2 DEF SessionsKnown
<1> QED
  BY <1>4, <1>5

\* A session that is touched at the clock's reading, and its token.
LEMMA SessionTouched ==
  ASSUME WebTypes, SessionsKnown, NEW s \in opened
  PROVE  /\ [s EXCEPT !.seen = seconds] \in Session /\ [tokens[s.token] EXCEPT !.used = seconds] \in Token
         /\ [s EXCEPT !.seen = seconds].token = s.token
         /\ Speaks([s EXCEPT !.seen = seconds], [tokens[s.token] EXCEPT !.used = seconds])
         /\ [s EXCEPT !.reauth = seconds].token = s.token
         /\ [[s EXCEPT !.reauth = seconds] EXCEPT !.seen = seconds] \in Session
         /\ [[tokens[s.token] EXCEPT !.password = seconds] EXCEPT !.used = seconds] \in Token
         /\ [[s EXCEPT !.reauth = seconds] EXCEPT !.seen = seconds].token = s.token
         /\ Speaks([[s EXCEPT !.reauth = seconds] EXCEPT !.seen = seconds],
                   [[tokens[s.token] EXCEPT !.password = seconds] EXCEPT !.used = seconds])
         /\ [[tokens[s.token] EXCEPT !.revoked = TRUE] EXCEPT !.used = seconds] \in Token
<1>1. s \in Session /\ seconds \in Nat /\ tokens[s.token] \in Token /\ Speaks(s, tokens[s.token])
  BY DEF WebTypes, SessionsKnown
<1> QED
  BY <1>1 DEF Session, Token, Speaks

\* No event appears but of what was under way.
LEMMA NothingNew ==
  ASSUME EventsNamed, EventsBehind' \subseteq EventsBehind, minted' = minted
  PROVE  EventsNamed'
BY DEF EventsNamed

\* Every request, answer and second keeps what is said of sessions, events and calls.
LEMMA WebStep ==
  ASSUME WebInd, [WebNext]_webVars
  PROVE  WebInd'
<1> USE DEF WebInd
<1>c. MaxSessions \in Nat \ {0} /\ IdleTimeout \in Nat \ {0} /\ AbsoluteTimeout \in Nat \ {0}
  BY WebConstants
<1>1. CASE Login
  <2> DEFINE session == [token |-> Len(tokens) + 1, created |-> seconds, seen |-> seconds, reauth |-> seconds]
             given == [born |-> seconds, password |-> seconds, used |-> seconds, revoked |-> FALSE]
  <2>0. UNCHANGED <<seconds, asked, late, triggered, minted, granted>> /\ opened' \in Created /\ tokens' = Append(tokens, given)
    BY <1>1 DEF Login
  <2>1. /\ seconds \in Nat /\ tokens \in Seq(Token) /\ Len(tokens) \in Nat /\ IsFiniteSet(opened)
        /\ Cardinality(opened) \in Nat /\ Cardinality(opened) <= MaxSessions
    BY FS_CardinalityType DEF WebTypes, SessionsBounded
  <2>2. session \in Session /\ given \in Token
    BY <2>1 DEF Session, Token
  <2>3. /\ tokens' \in Seq(Token) /\ Len(tokens') = Len(tokens) + 1 /\ tokens'[Len(tokens) + 1] = given
        /\ \A i \in 1 .. Len(tokens) : tokens'[i] = tokens[i]
    BY <2>0, <2>1, <2>2
  <2>4. IsFiniteSet(Prune) /\ Prune \subseteq opened /\ Cardinality(Prune) <= MaxSessions /\ Cardinality(Prune) \in Nat
    BY <2>1, <1>c, FS_Subset, FS_CardinalityType DEF Prune
  <2>5. PICK kept \in SUBSET opened : /\ opened' = kept \cup {session} /\ IsFiniteSet(kept)
                                      /\ Cardinality(kept) \in Nat /\ Cardinality(kept) <= MaxSessions - 1
    <3>1. CASE Cardinality(Prune) >= MaxSessions
      <4>1. PICK s \in Prune : opened' = (Prune \ {s}) \cup {session}
        BY <3>1, <2>0 DEF Created, LeastRecentlyUsed
      <4>2. IsFiniteSet(Prune \ {s}) /\ Cardinality(Prune \ {s}) = Cardinality(Prune) - 1
        BY <2>4, FS_RemoveElement
      <4>3. Cardinality(Prune \ {s}) \in Nat
        BY <4>2, FS_CardinalityType
      <4> QED
        BY <4>1, <4>2, <4>3, <2>4, <1>c
    <3>2. CASE ~(Cardinality(Prune) >= MaxSessions)
      <4>1. opened' = Prune \cup {session}
        BY <3>2, <2>0 DEF Created
      <4> QED
        BY <4>1, <3>2, <2>4, <1>c
    <3> QED
      BY <3>1, <3>2
  <2>6. IsFiniteSet(opened') /\ Cardinality(opened') <= MaxSessions
    <3>1. IsFiniteSet(kept \cup {session}) /\ Cardinality(kept \cup {session}) \in {Cardinality(kept), Cardinality(kept) + 1}
      BY <2>5, FS_AddElement
    <3> QED
      BY <3>1, <2>5, <1>c
  <2>7. WebTypes' /\ SessionsBounded'
    BY <2>0, <2>1, <2>2, <2>3, <2>5, <2>6 DEF WebTypes, SessionsBounded
  <2>8. SessionsKnown'
    <3>1. Speaks(session, given)
      BY DEF Speaks
    <3>2. ASSUME NEW x \in opened' PROVE x.token \in 1 .. Len(tokens') /\ Speaks(x, tokens'[x.token])
      BY <3>1, <3>2, <2>1, <2>3, <2>5 DEF SessionsKnown
    <3>3. ASSUME NEW x \in opened', NEW y \in opened', x.token = y.token PROVE x = y
      BY <3>3, <2>1, <2>5 DEF SessionsKnown
    <3> QED
      BY <3>2, <3>3 DEF SessionsKnown
  <2> QED
    BY <2>0, <2>7, <2>8 DEF EventsNamed, EventsBehind, CallsAuthorised
<1>2. CASE Logout
  <2>p. PICK s \in opened : /\ opened' = Without(s.token)
                            /\ tokens' = Use(s.token, [tokens[s.token] EXCEPT !.revoked = TRUE])
    BY <1>2 DEF Logout
  <2>0. UNCHANGED <<seconds, asked, late, triggered, minted, granted>>
    BY <1>2 DEF Logout
  <2>t. s \in Session /\ s.token \in 1 .. Len(tokens) /\ tokens \in Seq(Token) /\ Len(tokens) \in Nat
    BY DEF WebTypes, SessionsKnown
  <2>2. tokens' \in Seq(Token) /\ Len(tokens') = Len(tokens)
        /\ \A i \in 1 .. Len(tokens) : i # s.token => tokens'[i] = tokens[i]
    <3> DEFINE k == [[tokens[s.token] EXCEPT !.revoked = TRUE] EXCEPT !.used = seconds]
    <3>1. k \in Token /\ tokens' = [tokens EXCEPT ![s.token] = k]
      BY <2>p, SessionTouched DEF Use
    <3> HIDE DEF k
    <3> QED
      BY <3>1, <2>t
  <2>3. opened' \subseteq opened /\ IsFiniteSet(opened') /\ Cardinality(opened') <= Cardinality(opened)
        /\ Cardinality(opened) \in Nat /\ Cardinality(opened') \in Nat
    BY <2>p, FS_Subset, FS_CardinalityType DEF Without, WebTypes
  <2>4. WebTypes' /\ SessionsBounded'
    BY <2>0, <2>2, <2>3, <1>c DEF WebTypes, SessionsBounded
  <2>5. SessionsKnown'
    BY <2>p, <2>2, <2>t DEF SessionsKnown, Without
  <2> QED
    BY <2>0, <2>4, <2>5 DEF EventsNamed, EventsBehind, CallsAuthorised
<1>3. CASE Reauthenticate
  <2>p. PICK s \in opened : /\ opened' = Authenticate([s EXCEPT !.reauth = seconds])
                            /\ tokens' = Use(s.token, [tokens[s.token] EXCEPT !.password = seconds])
    BY <1>3 DEF Reauthenticate
  <2>0. UNCHANGED <<seconds, asked, late, triggered, minted, granted>> /\ seconds \in Nat /\ minted' \in Nat
    BY <1>3 DEF Reauthenticate, WebTypes
  <2>1. WebTypes' /\ SessionsKnown' /\ SessionsBounded'
    BY <2>p, <2>0, SessionUsed, SessionTouched DEF Authenticate, Use
  <2> QED
    BY <2>0, <2>1 DEF EventsNamed, EventsBehind, CallsAuthorised
<1>4. CASE Unauthenticated
  <2>0. UNCHANGED <<seconds, tokens, asked, late, triggered, minted, granted>> /\ opened' \subseteq opened
    BY <1>4 DEF Unauthenticated
  <2>3. IsFiniteSet(opened') /\ Cardinality(opened') <= Cardinality(opened)
        /\ Cardinality(opened) \in Nat /\ Cardinality(opened') \in Nat
    BY <2>0, FS_Subset, FS_CardinalityType DEF WebTypes
  <2>4. WebTypes' /\ SessionsBounded'
    BY <2>0, <2>3, <1>c DEF WebTypes, SessionsBounded
  <2> QED
    BY <2>0, <2>4 DEF SessionsKnown, EventsNamed, EventsBehind, CallsAuthorised
<1>5. CASE Handle
  <2>p. PICK s \in opened, kind \in Endpoints, w \in Wishes, named \in BOOLEAN :
          /\ ~Expired(s) /\ opened' = Authenticate(s) /\ tokens' = Use(s.token, tokens[s.token])
          /\ LET t == tokens[s.token] IN
             \/ /\ asked' = Dispatch(kind, w, named)
                /\ minted' = (IF asked'.id = ServiceId(minted + 1) THEN minted + 1 ELSE minted)
                /\ (kind = "removal" => RequireRecentReauthentication(s))
                /\ granted' = [kind |-> kind, age |-> seconds - t.born, idle |-> seconds - t.used,
                               password |-> seconds - t.password, revoked |-> t.revoked]
             \/ granted' = Unasked /\ UNCHANGED <<asked, minted>>
    BY <1>5 DEF Handle
  <2>0. UNCHANGED <<seconds, late, triggered>> /\ seconds \in Nat
    BY <1>5 DEF Handle, WebTypes
  <2>t. s.reauth \in Nat /\ s.seen \in Nat /\ s.created \in Nat /\ Speaks(s, tokens[s.token])
    BY DEF WebTypes, SessionsKnown, Session
  <2>m. minted \in Nat /\ minted' \in Nat
    BY <2>p DEF WebTypes
  <2>2. WebTypes' /\ SessionsKnown' /\ SessionsBounded'
    BY <2>p, <2>0, <2>m, SessionUsed, SessionTouched DEF Authenticate, Use
  <2>3. EventsNamed'
    <3>1. CASE kind # "event" \/ UNCHANGED <<asked, minted>>
      <4>1. minted' = minted /\ (UNCHANGED asked \/ asked'.kind # "event")
        BY <3>1, <2>p DEF Dispatch, NoCall, ClientId, ServiceId
      <4>2. EventsBehind' \subseteq EventsBehind
        BY <4>1, <2>0 DEF EventsBehind
      <4> QED
        BY <4>1, <4>2, NothingNew
    <3>2. CASE kind = "event" /\ ~UNCHANGED <<asked, minted>>
      <4>0. /\ asked' = Dispatch(kind, w, named)
            /\ minted' = (IF asked'.id = ServiceId(minted + 1) THEN minted + 1 ELSE minted)
        BY <3>2, <2>p
      <4> DEFINE new == [id |-> EventId(w, named), wish |-> w, named |-> named]
      <4>1. EventsBehind' \subseteq EventsBehind \cup {new}
        BY <3>2, <4>0, <2>0 DEF EventsBehind, Dispatch, EventOf
      <4>2. CASE named
        <5>1. new = [id |-> ClientId(w), wish |-> w, named |-> TRUE]
          BY <4>2 DEF EventId
        <5>2. minted' = minted
          BY <4>2, <3>2, <4>0 DEF Dispatch, EventId, ClientId, ServiceId
        <5>3. IdFits(new, minted')
          BY <5>1 DEF IdFits
        <5>4. ASSUME NEW d \in EventsBehind, d.id = new.id PROVE d = new
          <6>1. IdFits(d, minted) /\ d.id = ClientId(w)
            BY <5>1, <5>4 DEF EventsNamed
          <6>2. d.named /\ d.wish = w
            BY <6>1 DEF IdFits, ClientId, ServiceId
          <6>3. d = [id |-> d.id, wish |-> d.wish, named |-> d.named] /\ d.named = TRUE
            BY <6>1, <6>2 DEF IdFits
          <6> QED
            BY <6>1, <6>2, <6>3, <5>1
        <5> QED
          BY <4>1, <5>2, <5>3, <5>4 DEF EventsNamed
      <4>3. CASE ~named
        <5>1. new = [id |-> ServiceId(minted + 1), wish |-> w, named |-> FALSE]
          BY <4>3 DEF EventId
        <5>2. minted' = minted + 1
          BY <4>3, <3>2, <4>0 DEF Dispatch, EventId
        <5>3. IdFits(new, minted')
          BY <5>1, <5>2, <2>m DEF IdFits, ServiceId
        <5>4. ASSUME NEW d \in EventsBehind PROVE d.id # new.id /\ IdFits(d, minted')
          BY <5>1, <5>2, <2>m DEF EventsNamed, IdFits, ClientId, ServiceId
        <5> QED
          BY <4>1, <5>3, <5>4 DEF EventsNamed
      <4> QED
        BY <4>2, <4>3
    <3> QED
      BY <2>p, <3>1, <3>2
  <2>4. CallsAuthorised'
    <3>1. CASE granted' = Unasked
      BY <3>1, <1>c DEF CallsAuthorised, Unasked
    <3>2. CASE /\ kind = "removal" => RequireRecentReauthentication(s)
               /\ granted'.kind = kind /\ granted'.age = seconds - s.created /\ granted'.idle = seconds - s.seen
               /\ granted'.password = seconds - s.reauth /\ ~granted'.revoked
      <4>1. seconds - s.created < AbsoluteTimeout /\ seconds - s.seen < IdleTimeout
        BY <2>p, <2>0, <2>t, <1>c DEF Expired
      <4> QED
        BY <3>2, <4>1 DEF CallsAuthorised, RequireRecentReauthentication
    <3> QED
      BY <2>p, <2>t, <3>1, <3>2 DEF Speaks
  <2> QED
    BY <2>2, <2>3, <2>4
<1>6. CASE RecorderAnswers \/ CallFails \/ RecorderExecutesLate
  <2>0. UNCHANGED <<seconds, opened, tokens, minted>> /\ granted' \in {granted, Unasked}
    BY <1>6 DEF RecorderAnswers, CallFails, RecorderExecutesLate
  <2>1. EventsBehind' \subseteq EventsBehind
    <3>1. CASE RecorderAnswers
      BY <3>1 DEF RecorderAnswers, EventsBehind, Executed, NoCall
    <3>2. CASE CallFails
      BY <3>2 DEF CallFails, EventsBehind, NoCall
    <3>3. CASE RecorderExecutesLate
      BY <3>3 DEF RecorderExecutesLate, EventsBehind, Executed
    <3> QED
      BY <1>6, <3>1, <3>2, <3>3
  <2>2. EventsNamed'
    BY <2>0, <2>1, NothingNew
  <2>3. CallsAuthorised'
    BY <2>0, <1>c DEF CallsAuthorised, Unasked
  <2> QED
    BY <2>0, <2>2, <2>3 DEF WebTypes, SessionsKnown, SessionsBounded
<1>7. CASE Second
  BY <1>7 DEF Second, WebTypes, SessionsKnown, EventsNamed, EventsBehind, CallsAuthorised, SessionsBounded
<1>8. CASE UNCHANGED webVars
  BY <1>8 DEF webVars, WebTypes, SessionsKnown, EventsNamed, EventsBehind, CallsAuthorised, SessionsBounded
<1> QED
  BY <1>1, <1>2, <1>3, <1>4, <1>5, <1>6, <1>7, <1>8 DEF WebNext

\* For any number of sessions, wishes and lost answers, and any timeouts: calls are let through for
\* live sessions alone, a named event that is repeated makes no second one, no id stands for two
\* events, and the sessions stay bounded.
THEOREM WebLetsThroughWhatItMay == WebSpec => []WebInv
<1>1. WebInd => WebInv
  <2> SUFFICES ASSUME WebInd PROVE EventOnce
    BY DEF WebInd, WebInv
  <2>1. ASSUME NEW w \in Wishes PROVE Cardinality({e \in triggered : e.wish = w /\ e.named}) <= 1
    <3> DEFINE made == {e \in triggered : e.wish = w /\ e.named}
    <3>1. ASSUME NEW d \in made, NEW e \in made PROVE d = e
      <4>1. d \in EventsBehind /\ e \in EventsBehind
        BY DEF EventsBehind
      <4>2. d.wish = w /\ d.named /\ e.wish = w /\ e.named
        OBVIOUS
      <4>3. IdFits(d, minted) /\ IdFits(e, minted) /\ (d.id = e.id => d = e)
        BY <4>1 DEF WebInd, EventsNamed
      <4>4. d.id = ClientId(w) /\ e.id = ClientId(w)
        BY <4>2, <4>3, Zenon DEF IdFits
      <4> QED
        BY <4>3, <4>4
    <3>2. CASE made = {}
      BY <3>2, FS_EmptySet
    <3>3. CASE made # {}
      <4>1. PICK e \in made : TRUE
        BY <3>3
      <4>2. made = {e}
        BY <3>1, <4>1
      <4>3. Cardinality({e}) = 1
        BY FS_Singleton
      <4>4. Cardinality(made) = 1
        BY <4>2, <4>3
      <4> QED
        BY <4>4
    <3> QED
      BY <3>2, <3>3
  <2>2. \A d, e \in triggered : d.id = e.id => d = e
    BY DEF WebInd, EventsNamed, EventsBehind
  <2> QED
    BY <2>1, <2>2 DEF EventOnce
<1> QED
  BY <1>1, WebBegins, WebStep, PTL DEF WebSpec

-----------------------------------------------------------------------------
(* ImageBuild *)

Build == [at : {"start", "source", "paths", "plan", "host", "work", "grow", "customize", "verify", "digest", "compress",
                "compressing", "manifest", "cleanup", "built", "failed"},
          noted : Nat, checked : SUBSET Checks]
Outputs == [compressed : Nat, evidence : Nat, passed : BOOLEAN, manifest : Nat]

BuilderTypes == build \in Build /\ outputs \in Outputs /\ raw \in [content : Nat, stage : {"none", "source", "grown", "customized"}]

\* There is no manifest before its step, which finds compressed what was noted.
BuilderInd ==
  /\ build.at \notin {"cleanup", "built", "failed"} => outputs.manifest = Absent
  /\ build.at = "manifest" => outputs.compressed = build.noted

\* What the output holds, and whose it is, at each step of an executor.
TrialParts(t) == IF t THEN {"source", "root"} ELSE {"source"}
Copied(t) == TrialParts(t) \union {"initramfs", "cmdline"} \union (IF t THEN {"gate"} ELSE {})

PartsAt(e) ==
  /\ At(e, "config") \/ At(e, "initramfs") \/ At(e, "install") \/ At(e, "copy") => image.parts = {"source"}
  /\ At(e, "boot") => image.parts = TrialParts(executor[e].trial)
  /\ At(e, "reopen") => image.parts = Copied(executor[e].trial)
  /\ At(e, "returned") => image.parts = Copied(executor[e].trial) \union {"verified"}
  /\ At(e, "install") \/ At(e, "copy") => executor[e].trial

ExecutorInd ==
  /\ executor \in [Executors -> [at : Before \union After \union {"returned", "refused", "killed"}, trial : BOOLEAN]]
  /\ image = [owner |-> image.owner, parts |-> image.parts]
  /\ \A e \in Executors :
       /\ executor[e].at \in After \union {"returned"} => Owns(e) /\ PartsAt(e)
       /\ executor[e].at \in Before \union {"refused"} => ~Owns(e)
  /\ image.owner = "nobody" => image = NoImage

\* A step of the bootstrap builder keeps the manifest true.
LEMMA BuilderStep ==
  ASSUME BuilderTypes, BuilderInd, ManifestVouches, BootstrapBuild
  PROVE  BuilderTypes' /\ BuilderInd' /\ ManifestVouches' /\ UNCHANGED <<executor, image>>
<1>t. /\ build \in Build /\ outputs \in Outputs /\ raw.content \in Nat
      /\ raw \in [content : Nat, stage : {"none", "source", "grown", "customized"}] /\ MaxContents + 1 \in Nat
      /\ UNCHANGED <<executor, image>> /\ raw.content + 1 \in Nat
  BY ImageBuildBounds DEF BuilderTypes, BootstrapBuild
<1>1. ASSUME NEW from, NEW to \in {"source", "paths", "plan", "host", "work", "grow", "customize", "verify"},
             from \in {"start", "source", "paths", "plan", "host", "work", "grow", "customize"},
             Goes(from, to), UNCHANGED outputs
      PROVE  build' \in Build /\ BuilderInd' /\ ManifestVouches' /\ outputs' \in Outputs
  <2>1. build' \in Build /\ build'.at = to /\ build'.noted = build.noted
    BY <1>1, <1>t DEF Goes, Build
  <2> QED
    BY <2>1, <1>1, <1>t DEF BuilderInd, ManifestVouches, Goes
<1>2. CASE ResolveCleanAppCommit \/ VerifyPinnedSource \/ ValidateBuildPaths \/ AuthorBuildPlan \/ VerifyBuilderHost
  <2>1. UNCHANGED raw
    BY <1>2 DEF ResolveCleanAppCommit, VerifyPinnedSource, ValidateBuildPaths, AuthorBuildPlan, VerifyBuilderHost
  <2> QED
    BY <2>1, <1>1, <1>2, <1>t
       DEF BuilderTypes, ResolveCleanAppCommit, VerifyPinnedSource, ValidateBuildPaths, AuthorBuildPlan, VerifyBuilderHost
<1>3. CASE DecompressPinnedSource \/ GrowRootOffline \/ CustomizeRegularImage
  <2>1. raw' \in [content : Nat, stage : {"none", "source", "grown", "customized"}]
    BY <1>3, <1>t DEF DecompressPinnedSource, GrowRootOffline, CustomizeRegularImage, WritesRaw
  <2> QED
    BY <2>1, <1>1, <1>3, <1>t DEF BuilderTypes, DecompressPinnedSource, GrowRootOffline, CustomizeRegularImage
<1>4. CASE LateFlush
  <2>1. raw' \in [content : Nat, stage : {"none", "source", "grown", "customized"}]
    BY <1>4, <1>t DEF LateFlush, WritesRaw
  <2> QED
    BY <2>1, <1>4, <1>t DEF LateFlush, BuilderTypes, BuilderInd, ManifestVouches
<1>5. CASE VerifyMountedReadback
  <2>1. build' \in Build /\ build'.at = "digest" /\ build.at = "verify" /\ UNCHANGED <<raw, outputs>>
    BY <1>5, <1>t DEF VerifyMountedReadback, Build
  <2> QED
    BY <2>1, <1>t DEF BuilderTypes, BuilderInd, ManifestVouches
<1>6. CASE WriteEvidence
  <2>1. build' \in Build /\ build'.at \in {"compress", "failed"} /\ build.at = "digest" /\ UNCHANGED raw
    BY <1>6, <1>t DEF WriteEvidence, Build
  <2>2. outputs' \in Outputs /\ outputs'.manifest = outputs.manifest
    BY <1>6, <1>t DEF WriteEvidence, Outputs
  <2> QED
    BY <2>1, <2>2, <1>t DEF BuilderTypes, BuilderInd, ManifestVouches
<1>7. CASE ReadRawDigest
  <2>1. build' \in Build /\ build'.at = "compressing" /\ build.at = "compress" /\ UNCHANGED <<raw, outputs>>
    BY <1>7, <1>t DEF ReadRawDigest, Build
  <2> QED
    BY <2>1, <1>t DEF BuilderTypes, BuilderInd, ManifestVouches
<1>8. CASE CompressVerifiedRaw
  <2>1. /\ build' \in Build /\ build.at = "compressing" /\ build'.noted = build.noted /\ UNCHANGED raw
        /\ \/ /\ build'.at = "manifest" /\ outputs' \in Outputs /\ outputs'.compressed = build.noted
              /\ outputs'.manifest = outputs.manifest
           \/ build'.at = "failed" /\ UNCHANGED outputs
    BY <1>8, <1>t DEF CompressVerifiedRaw, Build, Outputs
  <2> QED
    BY <2>1, <1>t DEF BuilderTypes, BuilderInd, ManifestVouches
<1>9. CASE MakeImagerManifest
  <2>1. /\ build' \in Build /\ build.at = "manifest" /\ build'.noted = build.noted /\ UNCHANGED raw /\ build.noted \in Nat
        /\ \/ build'.at = "cleanup"
           \/ build'.at = "failed" /\ UNCHANGED outputs
    BY <1>9, <1>t DEF MakeImagerManifest, Build
  <2>2. \/ UNCHANGED outputs
        \/ /\ outputs' \in Outputs /\ outputs'.manifest = build.noted /\ outputs'.compressed = outputs.compressed
           /\ outputs'.evidence = build.noted /\ outputs'.passed /\ build'.at = "cleanup"
    BY <1>9, <1>t, <2>1 DEF MakeImagerManifest, EvidenceValid, Outputs, Build
  <2> QED
    BY <2>1, <2>2, <1>t DEF BuilderTypes, BuilderInd, ManifestVouches
<1>10. CASE CleanupOwnedWorkFiles
  <2>1. build' \in Build /\ build'.at = "built" /\ UNCHANGED outputs
        /\ raw' \in [content : Nat, stage : {"none", "source", "grown", "customized"}]
    BY <1>10, <1>t DEF CleanupOwnedWorkFiles, Goes, Build, Absent
  <2> QED
    BY <2>1, <1>t DEF BuilderTypes, BuilderInd, ManifestVouches
<1>11. CASE BuildFails \/ BuildKilled
  <2>1. build' \in Build /\ build'.at = "failed" /\ raw' \in [content : Nat, stage : {"none", "source", "grown", "customized"}]
    BY <1>11, <1>t DEF BuildFails, BuildKilled, Build
  <2>2. \/ UNCHANGED outputs
        \/ /\ outputs' \in Outputs /\ outputs'.manifest = outputs.manifest /\ build.at = "compressing"
    BY <1>11, <1>t DEF BuildFails, BuildKilled, Outputs
  <2> QED
    BY <2>1, <2>2, <1>t DEF BuilderTypes, BuilderInd, ManifestVouches
<1>12. CASE OperatorClears
  <2>1. build' \in Build /\ build'.at = "start" /\ raw' \in [content : Nat, stage : {"none", "source", "grown", "customized"}]
        /\ outputs' \in Outputs /\ outputs'.manifest = Absent
    BY <1>12, <1>t DEF OperatorClears, Build, Outputs, Absent
  <2> QED
    BY <2>1, <1>t DEF BuilderTypes, BuilderInd, ManifestVouches
<1> QED
  BY <1>2, <1>3, <1>4, <1>5, <1>6, <1>7, <1>8, <1>9, <1>10, <1>11, <1>12, <1>t DEF BootstrapBuild

ExecutorSteps == Before \union After \union {"returned", "refused", "killed"}

\* One executor goes on: the others keep their place.
LEMMA ExecutorGoes ==
  ASSUME ExecutorInd, NEW e \in Executors, NEW from, NEW to \in ExecutorSteps, EGoes(e, from, to)
  PROVE  /\ executor' \in [Executors -> [at : ExecutorSteps, trial : BOOLEAN]]
         /\ executor[e].at = from /\ executor'[e].at = to /\ executor'[e].trial = executor[e].trial
         /\ executor[e].trial \in BOOLEAN
         /\ \A x \in Executors \ {e} : executor'[x] = executor[x]
BY DEF ExecutorInd, EGoes, At, ExecutorSteps

\* A step that leaves the output alone, to a place of which no more is claimed.
LEMMA ExecutorOnly ==
  ASSUME ExecutorInd, NEW e \in Executors, NEW from, NEW to \in ExecutorSteps, EGoes(e, from, to), UNCHANGED image,
         \/ from \in Before /\ to \in Before \union {"refused"}
         \/ to = "killed"
         \/ /\ from = "config" /\ to = "initramfs"
         \/ /\ from = "initramfs" /\ to = IF executor[e].trial THEN "install" ELSE "boot"
         \/ /\ from = "install" /\ to = "copy"
  PROVE  ExecutorInd'
<1>1. /\ executor' \in [Executors -> [at : ExecutorSteps, trial : BOOLEAN]]
      /\ executor[e].at = from /\ executor'[e].at = to /\ executor'[e].trial = executor[e].trial
      /\ executor[e].trial \in BOOLEAN
      /\ \A x \in Executors \ {e} : executor'[x] = executor[x]
  BY ExecutorGoes
<1>2. ASSUME NEW x \in Executors \ {e}
      PROVE  /\ executor'[x].at \in After \union {"returned"} => Owns(x)' /\ PartsAt(x)'
             /\ executor'[x].at \in Before \union {"refused"} => ~Owns(x)'
  BY <1>1, <1>2 DEF ExecutorInd, Owns, PartsAt, At
<1>3. /\ executor'[e].at \in After \union {"returned"} => Owns(e)' /\ PartsAt(e)'
      /\ executor'[e].at \in Before \union {"refused"} => ~Owns(e)'
  <2>1. CASE from \in Before /\ to \in Before \union {"refused"}
    BY <2>1, <1>1 DEF ExecutorInd, Owns, Before, After
  <2>2. CASE to = "killed"
    BY <2>2, <1>1 DEF Before, After
  <2>3. CASE \/ /\ from = "config" /\ to = "initramfs"
             \/ /\ from = "initramfs" /\ to = IF executor[e].trial THEN "install" ELSE "boot"
             \/ /\ from = "install" /\ to = "copy"
    BY <2>3, <1>1 DEF ExecutorInd, Owns, PartsAt, At, Before, After, TrialParts
  <2> QED
    BY <2>1, <2>2, <2>3
<1>4. /\ image' = [owner |-> image'.owner, parts |-> image'.parts] /\ (image'.owner = "nobody" => image' = NoImage)
  BY DEF ExecutorInd
<1> QED
  BY <1>1, <1>2, <1>3, <1>4 DEF ExecutorInd, ExecutorSteps

\* A step of the executor that has the output, which changes what is in it.
LEMMA ExecutorWrites ==
  ASSUME ExecutorInd, NEW e \in Executors, NEW from, NEW to \in ExecutorSteps, EGoes(e, from, to), NEW more, Owns(e),
         image' = [image EXCEPT !.parts = @ \union more], to \in After \union {"returned"},
         (executor'[e].at = to /\ executor'[e].trial = executor[e].trial /\ image'.parts = image.parts \union more)
           => PartsAt(e)'
  PROVE  ExecutorInd'
<1>1. /\ executor' \in [Executors -> [at : ExecutorSteps, trial : BOOLEAN]]
      /\ executor[e].at = from /\ executor'[e].at = to /\ executor'[e].trial = executor[e].trial
      /\ executor[e].trial \in BOOLEAN
      /\ \A x \in Executors \ {e} : executor'[x] = executor[x]
  BY ExecutorGoes
<1>2. image' = [owner |-> image'.owner, parts |-> image'.parts] /\ image'.owner = e /\ image'.parts = image.parts \union more
  BY DEF ExecutorInd, Owns
<1>3. \A x \in Executors \ {e} : executor[x].at \notin After \union {"returned"} /\ image'.owner # x
  BY <1>2 DEF ExecutorInd, Owns
<1>4. Owns(e)' /\ PartsAt(e)' /\ executor'[e].at \notin Before \union {"refused"}
  BY <1>1, <1>2 DEF Owns, After, Before
<1>5. e # "nobody"
  BY ImageBuildBounds
<1> QED
  BY <1>1, <1>2, <1>3, <1>4, <1>5 DEF ExecutorInd, ExecutorSteps, Owns

\* A step of any executor keeps the output with the one that made it.
LEMMA ExecutionStep ==
  ASSUME ExecutorInd, FileExecution
  PROVE  ExecutorInd' /\ UNCHANGED bootstrapVars
<1> SUFFICES ExecutorInd'
  BY DEF FileExecution
<1>p. PICK e \in Executors :
       \/ ExecuteFileImage(e) \/ LoadExactCardAuthorization(e) \/ BindAuthorizedRootFiles(e)
       \/ ProbeExecutionDependencies(e) \/ BindInitramfsClosure(e) \/ DecompressVerifiedImage(e)
       \/ ValidateBootTargetConfig(e) \/ CustomizeInitramfs(e) \/ InstallAndVerifyAuthorizedRoot(e)
       \/ CopyRegularFileIntoPartition(e) \/ CopyBootFiles(e) \/ ReopenAndVerify(e)
       \/ ExecutionRefused(e) \/ UnlinkCreatedOutput(e) \/ ExecutorKilled(e)
  BY DEF FileExecution
<1>t. executor[e].trial \in BOOLEAN
  BY DEF ExecutorInd
<1>1. CASE ExecuteFileImage(e) \/ LoadExactCardAuthorization(e) \/ BindAuthorizedRootFiles(e)
           \/ ProbeExecutionDependencies(e) \/ BindInitramfsClosure(e) \/ ExecutionRefused(e)
  BY <1>1, ExecutorOnly
     DEF ExecuteFileImage, LoadExactCardAuthorization, BindAuthorizedRootFiles, ProbeExecutionDependencies,
         BindInitramfsClosure, ExecutionRefused, ExecutorSteps, Before
<1>2. CASE ValidateBootTargetConfig(e) \/ CustomizeInitramfs(e) \/ InstallAndVerifyAuthorizedRoot(e) \/ ExecutorKilled(e)
  BY <1>2, ExecutorOnly
     DEF ValidateBootTargetConfig, CustomizeInitramfs, InstallAndVerifyAuthorizedRoot, ExecutorKilled, ExecutorSteps, After
<1>3. CASE DecompressVerifiedImage(e)
  <2>1. CASE image # NoImage /\ EGoes(e, "create", "refused") /\ UNCHANGED image
    BY <2>1, ExecutorOnly DEF ExecutorSteps, Before
  <2>2. CASE image = NoImage /\ EGoes(e, "create", "config") /\ image' = [owner |-> e, parts |-> {"source"}]
    <3>1. /\ executor' \in [Executors -> [at : ExecutorSteps, trial : BOOLEAN]]
          /\ executor'[e].at = "config" /\ executor'[e].trial = executor[e].trial
          /\ \A x \in Executors \ {e} : executor'[x] = executor[x]
      BY <2>2, ExecutorGoes DEF ExecutorSteps, After
    <3>2. \A x \in Executors \ {e} : executor[x].at \notin After \union {"returned"} /\ image'.owner # x
      BY <2>2, ImageBuildBounds DEF ExecutorInd, Owns, NoImage
    <3>3. Owns(e)' /\ PartsAt(e)' /\ executor'[e].at \notin Before \union {"refused"}
      BY <2>2, <3>1 DEF Owns, PartsAt, At, Before
    <3>4. e # "nobody" /\ image' = [owner |-> image'.owner, parts |-> image'.parts] /\ image'.owner = e
      BY <2>2, ImageBuildBounds
    <3> QED
      BY <3>1, <3>2, <3>3, <3>4 DEF ExecutorInd, ExecutorSteps, Owns
  <2> QED
    BY <1>3, <2>1, <2>2 DEF DecompressVerifiedImage
<1>4. CASE CopyRegularFileIntoPartition(e)
  <2>1. EGoes(e, "copy", "boot") /\ Owns(e) /\ image' = [image EXCEPT !.parts = @ \union {"root"}]
        /\ image.parts = {"source"} /\ executor[e].trial = TRUE
    BY <1>4, <1>t DEF CopyRegularFileIntoPartition, EGoes, At, ExecutorInd, PartsAt, After
  <2>2. ASSUME executor'[e].at = "boot", executor'[e].trial = executor[e].trial,
               image'.parts = image.parts \union {"root"} PROVE PartsAt(e)'
    BY <2>1, <2>2 DEF PartsAt, At, TrialParts
  <2> QED
    BY <2>1, <2>2, ExecutorWrites DEF ExecutorSteps, After
<1>5. CASE CopyBootFiles(e)
  <2> DEFINE more == {"initramfs", "cmdline"} \union (IF executor[e].trial THEN {"gate"} ELSE {})
  <2>1. EGoes(e, "boot", "reopen") /\ Owns(e) /\ image.parts = TrialParts(executor[e].trial)
    BY <1>5, <1>t DEF CopyBootFiles, EGoes, At, ExecutorInd, PartsAt, After
  <2>2. image' = [image EXCEPT !.parts = @ \union more]
    BY <1>5 DEF CopyBootFiles, ExecutorInd
  <2>3. ASSUME executor'[e].at = "reopen", executor'[e].trial = executor[e].trial,
               image'.parts = image.parts \union more PROVE PartsAt(e)'
    BY <2>1, <2>3 DEF PartsAt, At, Copied
  <2> HIDE DEF more
  <2> QED
    BY <2>1, <2>2, <2>3, ExecutorWrites DEF ExecutorSteps, After
<1>6. CASE ReopenAndVerify(e)
  <2>1. EGoes(e, "reopen", "returned") /\ Owns(e) /\ image' = [image EXCEPT !.parts = @ \union {"verified"}]
        /\ image.parts = Copied(executor[e].trial)
    BY <1>6, <1>t DEF ReopenAndVerify, EGoes, At, ExecutorInd, PartsAt, After
  <2>2. ASSUME executor'[e].at = "returned", executor'[e].trial = executor[e].trial,
               image'.parts = image.parts \union {"verified"} PROVE PartsAt(e)'
    BY <2>1, <2>2 DEF PartsAt, At
  <2> QED
    BY <2>1, <2>2, ExecutorWrites DEF ExecutorSteps, After
<1>7. CASE UnlinkCreatedOutput(e)
  <2>p. PICK a \in After : EGoes(e, a, "refused")
    BY <1>7 DEF UnlinkCreatedOutput
  <2>1. /\ executor' \in [Executors -> [at : ExecutorSteps, trial : BOOLEAN]]
        /\ executor[e].at = a /\ executor'[e].at = "refused" /\ executor'[e].trial = executor[e].trial
        /\ \A x \in Executors \ {e} : executor'[x] = executor[x]
    BY <2>p, ExecutorGoes DEF ExecutorSteps
  <2>2. Owns(e) /\ image' = NoImage
    BY <2>1, <1>7 DEF ExecutorInd, UnlinkCreatedOutput
  <2>3. \A x \in Executors \ {e} : executor[x].at \notin After \union {"returned"}
    BY <2>2 DEF ExecutorInd, Owns
  <2>4. \A x \in Executors : ~Owns(x)'
    BY <2>2, ImageBuildBounds DEF Owns, NoImage
  <2>5. image' = [owner |-> image'.owner, parts |-> image'.parts] /\ "refused" \notin After \union {"returned"}
    BY <2>2 DEF NoImage, After
  <2> QED
    BY <2>1, <2>2, <2>3, <2>4, <2>5 DEF ExecutorInd, ExecutorSteps
<1> QED
  BY <1>p, <1>1, <1>2, <1>3, <1>4, <1>5, <1>6, <1>7

\* For any number of executors and contents: a published manifest vouches for the bytes, and an
\* output at the path is the one of the executor that returned, verified and complete.
THEOREM BuildersVouch == IbSpec => []BuildInv
<1> DEFINE Ind == BuilderTypes /\ BuilderInd /\ ManifestVouches /\ ExecutorInd
<1>1. IbInit => Ind
  <2> SUFFICES ASSUME IbInit PROVE Ind
    OBVIOUS
  <2>1. BuilderTypes /\ BuilderInd /\ ManifestVouches
    BY DEF IbInit, BuilderTypes, BuilderInd, ManifestVouches, Build, Outputs, Absent
  <2>2. /\ \A e \in Executors : executor[e].at = "start" /\ ~Owns(e)
        /\ image = [owner |-> image.owner, parts |-> image.parts] /\ image = NoImage
    BY ImageBuildBounds DEF IbInit, Owns, NoImage
  <2>3. executor \in [Executors -> [at : Before \union After \union {"returned", "refused", "killed"}, trial : BOOLEAN]]
    BY DEF IbInit, Before
  <2> QED
    BY <2>1, <2>2, <2>3 DEF ExecutorInd, After
<1>2. Ind /\ [BootstrapBuild \/ FileExecution]_ibVars => Ind'
  <2> SUFFICES ASSUME Ind, [BootstrapBuild \/ FileExecution]_ibVars PROVE Ind'
    OBVIOUS
  <2>1. ASSUME UNCHANGED <<executor, image>> PROVE ExecutorInd'
    BY <2>1 DEF ExecutorInd, Owns, PartsAt, At
  <2>2. ASSUME UNCHANGED bootstrapVars PROVE BuilderTypes' /\ BuilderInd' /\ ManifestVouches'
    BY <2>2 DEF BuilderTypes, BuilderInd, ManifestVouches, bootstrapVars
  <2>3. CASE BootstrapBuild
    BY <2>1, <2>3, BuilderStep
  <2>4. CASE FileExecution
    BY <2>2, <2>4, ExecutionStep
  <2>5. CASE UNCHANGED ibVars
    BY <2>1, <2>2, <2>5 DEF ibVars, bootstrapVars
  <2> QED
    BY <2>3, <2>4, <2>5
<1>3. Ind => BuildInv
  <2> SUFFICES ASSUME Ind, NEW e \in Executors
               PROVE  /\ At(e, "returned") =>
                           /\ Owns(e) /\ "verified" \in image.parts
                           /\ {"gate", "root"} \intersect image.parts = IF executor[e].trial THEN {"gate", "root"} ELSE {}
                      /\ executor[e].at \in Before \union {"refused"} => ~Owns(e)
    BY DEF BuildInv, OutputsOwned
  <2>1. executor[e].at \in Before \union {"refused"} => ~Owns(e)
    BY DEF ExecutorInd
  <2>2. ASSUME At(e, "returned") PROVE Owns(e) /\ image.parts = Copied(executor[e].trial) \union {"verified"}
    BY <2>2 DEF ExecutorInd, At, PartsAt
  <2>3. executor[e].trial \in BOOLEAN
    BY DEF ExecutorInd
  <2>4. CASE executor[e].trial
    BY <2>1, <2>2, <2>4 DEF Copied, TrialParts
  <2>5. CASE ~executor[e].trial
    BY <2>1, <2>2, <2>5 DEF Copied, TrialParts
  <2> QED
    BY <2>4, <2>5
<1> QED
  BY <1>1, <1>2, <1>3, PTL DEF IbSpec

-----------------------------------------------------------------------------
(* FirstBoot *)

Uuids == 0 .. 1
CardSet == [table : {"source", "target"}, root : {"source", "target", "torn"},
            p3 : {"blank", "foreign", "formatted", "torn"}, uuid : Uuids, backup : {"none", "partial", "valid"},
            sentinel : Uuids, marker : Uuids, fstab : Uuids, env : Uuids, formats : Uuids]
Evidence == [adopted : BOOLEAN, checked : BOOLEAN, scanned : BOOLEAN, mounted : Uuids]
Journal == [phase : 0 .. 11, backup : BOOLEAN, uuid : Uuids, failures : Nat, reboots : Nat]
PlanActions ==
  {"mount_boot", "dump", "dd", "sfdisk", "verify", "reread", "reboot", "e2fsck", "resize", "wipefs", "mkfs", "blkid",
   "fsck", "mount", "findmnt", "mkdir", "sentinel", "fstab", "env", "marker"}
PlanSet == [next : 2 .. 11, todo : Seq(PlanActions), table : {"source", "target"}, j : Journal]

FbTypes ==
  /\ card \in CardSet /\ evidence \in Evidence /\ journal \in Journal
  /\ plan = NoPlan \/ plan \in PlanSet

\* What is on the card hangs together, whatever was interrupted.
CardHangs ==
  /\ card.formats = IF card.p3 \in {"formatted", "foreign"} THEN 1 ELSE 0
  /\ card.uuid = IF card.p3 = "formatted" THEN 1 ELSE NoUuid
  /\ card.p3 = "formatted" => card.root = "target" /\ card.table = "target"
  /\ card.sentinel \in {NoUuid, card.uuid} /\ evidence.mounted \in {NoUuid, card.uuid}
  /\ card.marker # NoUuid => {card.sentinel, card.fstab, card.env, card.uuid} = {card.marker}
  /\ card.table = "target" => card.backup = "valid" /\ journal.backup

\* A journal, stored or reconciled, claims nothing that is not on the card.
Truthful(j) ==
  /\ j.phase >= TABLE_COMMITTED => card.table = "target"
  /\ j.phase >= ROOT_READY => card.root = "target"
  /\ IF j.phase >= DATA_FORMATTED THEN card.p3 = "formatted" /\ j.uuid = card.uuid ELSE j.uuid = NoUuid
  /\ j.phase >= SENTINEL_DURABLE => card.sentinel = card.uuid
  /\ j.phase = COMPLETE => card.marker = card.uuid

\* What is left of a plan, and what the card is like then.
BackupBinds(t, j) ==
  /\ card.table = "source" /\ j.phase = SOURCE_VERIFIED
  /\ t \in {<<"mount_boot", "dump", "dd">>, <<"dump", "dd">>, <<"dd">>, <<>>}
TableBinds(t, j) ==
  /\ card.backup = "valid" /\ j.backup /\ j.phase \in {BACKUP_VALIDATED, TABLE_COMMITTED}
  /\ t \in {<<"sfdisk", "verify", "reread">>, <<"verify", "reread">>, <<"reread">>, <<>>, <<"reboot">>}
CheckBinds(t, j) ==
  /\ card.table = "target" /\ card.p3 # "formatted" /\ j.phase = TABLE_COMMITTED
  /\ t \in {<<"e2fsck">>, <<>>}
ResizeBinds(t, j) ==
  /\ card.table = "target" /\ card.p3 # "formatted" /\ j.phase = ROOT_CHECKED
  /\ t \in {<<"resize">>, <<>>} /\ (t = <<"resize">> => card.root # "target")
ScanBinds(t, j) ==
  /\ card.table = "target" /\ card.p3 # "formatted" /\ j.phase = ROOT_READY
  /\ t \in {<<"wipefs">>, <<>>}
FormatBinds(t, j) ==
  /\ card.table = "target" /\ j.phase = SIGNATURE_VERIFIED
  /\ t \in {<<"mkfs", "blkid">>, <<"blkid">>, <<>>} /\ (t = <<"mkfs", "blkid">> => card.p3 = "blank")
MountBindsPlan(t, j) ==
  /\ j.phase = EARLY_COMPLETE
  /\ t \in {<<"fsck", "mount", "findmnt">>, <<"mount", "findmnt">>, <<"findmnt">>, <<>>}
SentinelBinds(t, j) ==
  j.phase = VOLUME_MOUNTED /\ t \in {<<"mkdir", "sentinel">>, <<"sentinel">>, <<>>}
CompleteBinds(t, j) ==
  /\ j.phase = SENTINEL_DURABLE
  /\ t \in {<<"fstab", "env", "marker">>, <<"env", "marker">>, <<"marker">>, <<>>}
  /\ t = <<"env", "marker">> => card.fstab = card.uuid
  /\ t = <<"marker">> => card.fstab = card.uuid /\ card.env = card.uuid

PlanBinds(n, t, j) ==
  /\ n \in BACKUP_VALIDATED .. COMPLETE
  /\ n = BACKUP_VALIDATED => BackupBinds(t, j)
  /\ n = TABLE_COMMITTED => TableBinds(t, j)
  /\ n = ROOT_CHECKED => CheckBinds(t, j)
  /\ n = ROOT_READY => ResizeBinds(t, j)
  /\ n = SIGNATURE_VERIFIED => ScanBinds(t, j)
  /\ n = DATA_FORMATTED => FormatBinds(t, j)
  /\ n = EARLY_COMPLETE => j.phase = DATA_FORMATTED /\ t = <<>>
  /\ n = VOLUME_MOUNTED => MountBindsPlan(t, j)
  /\ n = SENTINEL_DURABLE => SentinelBinds(t, j)
  /\ n = COMPLETE => CompleteBinds(t, j)

PlanHangs ==
  plan # NoPlan =>
    /\ Truthful(plan.j) /\ plan.j.backup = journal.backup
    /\ journal.phase # NoJournal /\ journal.phase <= plan.j.phase
    /\ PlanBinds(plan.next, plan.todo, plan.j)

FbInd == FbTypes /\ CardHangs /\ Truthful(journal) /\ PlanHangs

\* The layouts, by table and third partition.
LEMMA LayoutIs ==
  ASSUME card \in CardSet
  PROVE  /\ Layout = "foreign" <=> card.p3 \notin {"blank", "formatted"}
         /\ Layout = "source" <=> card.p3 \in {"blank", "formatted"} /\ card.table = "source"
         /\ Layout = "table" <=> card.p3 = "blank" /\ card.table = "target"
         /\ Layout = "formatted" <=> card.p3 = "formatted" /\ card.table = "target"
<1>0. card.p3 \in {"blank", "foreign", "formatted", "torn"} /\ card.table \in {"source", "target"}
  BY DEF CardSet
<1>1. CASE card.p3 \notin {"blank", "formatted"}
  <2>1. Layout = "foreign"
    BY <1>1 DEF Layout
  <2> QED
    BY <1>1, <2>1
<1>2. CASE card.p3 \in {"blank", "formatted"} /\ card.table = "source"
  BY <1>2 DEF Layout
<1>3. CASE card.p3 = "blank" /\ card.table = "target"
  BY <1>3 DEF Layout
<1>4. CASE card.p3 = "formatted" /\ card.table = "target"
  BY <1>4 DEF Layout
<1> QED
  BY <1>0, <1>1, <1>2, <1>3, <1>4

\* A truthful journal that is reconciled with the card is refused or truthful, and not below what
\* is on the card: a grown root and a volume are seen.
LEMMA ReconciledTruthful ==
  ASSUME FbTypes, CardHangs, NEW j \in Journal, Truthful(j), j.phase # NoJournal, Reconciled(j).phase # Refused
  PROVE  /\ Reconciled(j) \in Journal /\ Truthful(Reconciled(j))
         /\ Reconciled(j).phase >= j.phase /\ Reconciled(j).phase # NoJournal
         /\ Reconciled(j).backup = j.backup
         /\ Reconciled(j).phase < DATA_FORMATTED => card.p3 # "formatted"
         /\ Reconciled(j).phase < ROOT_READY => card.root # "target"
<1> USE DEF NoJournal, Refused, SOURCE_VERIFIED, BACKUP_VALIDATED, TABLE_COMMITTED, ROOT_CHECKED, ROOT_READY,
        SIGNATURE_VERIFIED, DATA_FORMATTED, EARLY_COMPLETE, VOLUME_MOUNTED, SENTINEL_DURABLE, COMPLETE, NoUuid
<1> DEFINE tabled == Raised(j, TABLE_COMMITTED, TargetTable)
           checked == Raised(tabled, ROOT_CHECKED, evidence.checked /\ TargetTable)
           grown == Raised(checked, ROOT_READY, card.root = "target")
           scanned == Raised(grown, SIGNATURE_VERIFIED, Layout = "table" /\ evidence.scanned /\ grown.phase >= ROOT_READY)
           formatted == IF Layout = "formatted" /\ scanned.phase < DATA_FORMATTED
                        THEN [scanned EXCEPT !.phase = DATA_FORMATTED, !.uuid = card.uuid] ELSE scanned
           sealed == Raised(formatted, SENTINEL_DURABLE, card.sentinel # NoUuid)
           marked == IF card.marker # NoUuid THEN [sealed EXCEPT !.phase = COMPLETE] ELSE sealed
           mounted == Raised(marked, VOLUME_MOUNTED, MountedExactly(marked))
<1>l. card \in CardSet /\ evidence \in Evidence /\ evidence.checked \in BOOLEAN /\ evidence.scanned \in BOOLEAN
      /\ evidence.mounted \in Uuids /\ TargetTable \in BOOLEAN /\ card.uuid \in Uuids /\ card.root \in {"source", "target", "torn"}
  BY DEF FbTypes, CardSet, Evidence, TargetTable
<1>r. Reconciled(j) = mounted /\ (card.root = "target" => TargetTable \/ checked.phase >= ROOT_READY)
  <2>1. [j EXCEPT !.phase = Refused].phase = Refused
    BY DEF Journal
  <2> QED
    BY <2>1 DEF Reconciled
<1>1. /\ tabled \in Journal /\ tabled.uuid = j.uuid /\ tabled.backup = j.backup
      /\ tabled.phase = IF TargetTable /\ j.phase < 3 THEN 3 ELSE j.phase
  <2>1. CASE TargetTable /\ j.phase < 3
    <3>1. tabled = [j EXCEPT !.phase = 3]
      BY <2>1 DEF Raised
    <3> HIDE DEF tabled
    <3> QED
      BY <3>1, <2>1, <1>l DEF Journal
  <2>2. CASE ~(TargetTable /\ j.phase < 3)
    <3>1. tabled = j
      BY <2>2 DEF Raised
    <3> QED
      BY <3>1, <2>2, <1>l
  <2> QED
    BY <2>1, <2>2
<1> HIDE DEF tabled
<1>2. /\ checked \in Journal /\ checked.uuid = j.uuid /\ checked.backup = j.backup
      /\ checked.phase = IF evidence.checked /\ TargetTable /\ tabled.phase < 4 THEN 4 ELSE tabled.phase
  <2>1. CASE (evidence.checked /\ TargetTable) /\ tabled.phase < 4
    <3>1. checked = [tabled EXCEPT !.phase = 4]
      BY <2>1 DEF Raised
    <3> HIDE DEF checked
    <3> QED
      BY <3>1, <2>1, <1>1 DEF Journal
  <2>2. CASE ~((evidence.checked /\ TargetTable) /\ tabled.phase < 4)
    <3>1. checked = tabled
      BY <2>2 DEF Raised
    <3> QED
      BY <3>1, <2>2, <1>1
  <2> QED
    BY <2>1, <2>2
<1> HIDE DEF checked
<1>3. /\ grown \in Journal /\ grown.uuid = j.uuid /\ grown.backup = j.backup
      /\ grown.phase = IF card.root = "target" /\ checked.phase < 5 THEN 5 ELSE checked.phase
  <2>1. CASE card.root = "target" /\ checked.phase < 5
    <3>1. grown = [checked EXCEPT !.phase = 5]
      BY <2>1 DEF Raised
    <3> HIDE DEF grown
    <3> QED
      BY <3>1, <2>1, <1>2 DEF Journal
  <2>2. CASE ~(card.root = "target" /\ checked.phase < 5)
    <3>1. grown = checked
      BY <2>2 DEF Raised
    <3> QED
      BY <3>1, <2>2, <1>2
  <2> QED
    BY <2>1, <2>2
<1> HIDE DEF grown
<1>4. /\ scanned \in Journal /\ scanned.uuid = j.uuid /\ scanned.backup = j.backup
      /\ scanned.phase = IF Layout = "table" /\ evidence.scanned /\ grown.phase >= 5 /\ grown.phase < 6 THEN 6 ELSE grown.phase
  <2>1. CASE (Layout = "table" /\ evidence.scanned /\ grown.phase >= 5) /\ grown.phase < 6
    <3>1. scanned = [grown EXCEPT !.phase = 6]
      BY <2>1 DEF Raised
    <3> HIDE DEF scanned
    <3> QED
      BY <3>1, <2>1, <1>3 DEF Journal
  <2>2. CASE ~((Layout = "table" /\ evidence.scanned /\ grown.phase >= 5) /\ grown.phase < 6)
    <3>1. scanned = grown
      BY <2>2 DEF Raised
    <3> QED
      BY <3>1, <2>2, <1>3
  <2> QED
    BY <2>1, <2>2
<1> HIDE DEF scanned
<1>5. /\ formatted \in Journal /\ formatted.backup = j.backup
      /\ formatted.phase = IF Layout = "formatted" /\ scanned.phase < 7 THEN 7 ELSE scanned.phase
      /\ formatted.uuid = IF Layout = "formatted" /\ scanned.phase < 7 THEN card.uuid ELSE j.uuid
  <2>1. CASE Layout = "formatted" /\ scanned.phase < 7
    <3>1. formatted = [scanned EXCEPT !.phase = 7, !.uuid = card.uuid]
      BY <2>1
    <3> HIDE DEF formatted
    <3>2. scanned \in Journal /\ card.uuid \in Uuids /\ 7 \in 0 .. 11
      BY <1>4, <1>l
    <3>3. formatted \in Journal /\ formatted.phase = 7 /\ formatted.uuid = card.uuid /\ formatted.backup = scanned.backup
      BY <3>1, <3>2 DEF Journal
    <3> QED
      BY <3>3, <2>1, <1>4
  <2>2. CASE ~(Layout = "formatted" /\ scanned.phase < 7)
    <3>1. formatted = scanned
      BY <2>2
    <3> QED
      BY <3>1, <1>4, <2>2
  <2> QED
    BY <2>1, <2>2
<1> HIDE DEF formatted
<1>6. /\ sealed \in Journal /\ sealed.uuid = formatted.uuid /\ sealed.backup = j.backup
      /\ sealed.phase = IF card.sentinel # 0 /\ formatted.phase < 10 THEN 10 ELSE formatted.phase
  <2>1. CASE card.sentinel # 0 /\ formatted.phase < 10
    <3>1. sealed = [formatted EXCEPT !.phase = 10]
      BY <2>1 DEF Raised
    <3> HIDE DEF sealed
    <3> QED
      BY <3>1, <2>1, <1>5 DEF Journal
  <2>2. CASE ~(card.sentinel # 0 /\ formatted.phase < 10)
    <3>1. sealed = formatted
      BY <2>2 DEF Raised
    <3> QED
      BY <3>1, <2>2, <1>5
  <2> QED
    BY <2>1, <2>2
<1> HIDE DEF sealed
<1>7. /\ marked \in Journal /\ marked.uuid = formatted.uuid /\ marked.backup = j.backup
      /\ marked.phase = IF card.marker # 0 THEN 11 ELSE sealed.phase
  BY <1>6 DEF Journal
<1> HIDE DEF marked
<1>8. /\ mounted \in Journal /\ mounted.uuid = formatted.uuid /\ mounted.backup = j.backup
      /\ mounted.phase = IF MountedExactly(marked) /\ marked.phase < 9 THEN 9 ELSE marked.phase
  <2>1. CASE MountedExactly(marked) /\ marked.phase < 9
    <3>1. mounted = [marked EXCEPT !.phase = 9]
      BY <2>1 DEF Raised
    <3> HIDE DEF mounted
    <3> QED
      BY <3>1, <2>1, <1>7 DEF Journal
  <2>2. CASE ~(MountedExactly(marked) /\ marked.phase < 9)
    <3>1. mounted = marked
      BY <2>2 DEF Raised
    <3> QED
      BY <3>1, <2>2, <1>7
  <2> QED
    BY <2>1, <2>2
<1> HIDE DEF mounted
<1>p. j.phase \in 1 .. 11 /\ j.uuid \in Uuids
  BY DEF Journal
<1>9. /\ scanned.phase \in 1 .. 11 /\ scanned.phase >= j.phase /\ Truthful(scanned)
      /\ scanned.phase < 5 => card.root # "target"
  BY <1>1, <1>2, <1>3, <1>4, <1>r, <1>p, LayoutIs, <1>l DEF Truthful, TargetTable
<1>10. /\ formatted.phase \in 1 .. 11 /\ formatted.phase >= scanned.phase /\ Truthful(formatted)
       /\ formatted.phase < 7 => card.p3 # "formatted"
  BY <1>5, <1>9, <1>4, LayoutIs, <1>l DEF Truthful, CardHangs
<1>11. sealed.phase \in 1 .. 11 /\ sealed.phase >= formatted.phase /\ Truthful(sealed)
  BY <1>6, <1>10 DEF Truthful, CardHangs
<1>12. marked.phase \in 1 .. 11 /\ marked.phase >= sealed.phase /\ Truthful(marked)
  BY <1>6, <1>7, <1>11, <1>10, <1>l DEF Truthful, CardHangs, CardSet
<1>13. mounted.phase \in 1 .. 11 /\ mounted.phase >= marked.phase /\ Truthful(mounted)
  BY <1>7, <1>8, <1>12 DEF Truthful, MountedExactly
<1> QED
  BY <1>r, <1>8, <1>9, <1>10, <1>11, <1>12, <1>13, <1>p

\* The card as shipped, and no journal.
LEMMA FbBegins == FbInit => FbInd
<1> SUFFICES ASSUME FbInit PROVE FbInd
  OBVIOUS
<1>1. PICK r \in {"blank", "foreign"} :
        card = [table |-> "source", root |-> "source", p3 |-> r, uuid |-> NoUuid, backup |-> "none", sentinel |-> NoUuid,
                marker |-> NoUuid, fstab |-> NoUuid, env |-> NoUuid, formats |-> IF r = "foreign" THEN 1 ELSE 0]
  BY DEF FbInit
<1>2. /\ card \in CardSet /\ card.table = "source" /\ card.p3 = r /\ card.uuid = 0 /\ card.sentinel = 0 /\ card.marker = 0
      /\ card.formats = IF r = "foreign" THEN 1 ELSE 0
  BY <1>1 DEF CardSet, Uuids, NoUuid
<1>3. evidence \in Evidence /\ evidence.mounted = 0 /\ plan = NoPlan
  BY DEF FbInit, NoEvidence, NoUuid, Evidence, Uuids
<1>4. journal \in Journal /\ journal.phase = 0 /\ journal.uuid = 0
  <2>1. FreshJournal \in Journal /\ FreshJournal.uuid = 0
    BY DEF FreshJournal, Journal, SOURCE_VERIFIED, NoUuid, Uuids
  <2>2. journal = [FreshJournal EXCEPT !.phase = 0]
    BY DEF FbInit, NoJournal
  <2> HIDE DEF FreshJournal
  <2> QED
    BY <2>1, <2>2 DEF Journal
<1> QED
  BY <1>2, <1>3, <1>4
     DEF FbInd, FbTypes, CardHangs, Truthful, PlanHangs, NoUuid, TABLE_COMMITTED, ROOT_READY, DATA_FORMATTED,
         SENTINEL_DURABLE, COMPLETE

\* What is planned for a reconciled journal is bound to the card as it is.
LEMMA PlannedBinds ==
  ASSUME FbTypes, NEW j \in Journal, Truthful(j), card.table = "target" => card.backup = "valid" /\ j.backup,
         j.phase < DATA_FORMATTED => card.p3 # "formatted", j.phase < ROOT_READY => card.root # "target",
         NEW p \in PlanInitramfs(j) \union PlanPostRoot(j)
  PROVE  PlanBinds(p.next, p.todo, j) /\ p.next \in 2 .. 11 /\ p.todo \in Seq(PlanActions)
<1> USE DEF NoJournal, SOURCE_VERIFIED, BACKUP_VALIDATED, TABLE_COMMITTED, ROOT_CHECKED, ROOT_READY,
        SIGNATURE_VERIFIED, DATA_FORMATTED, EARLY_COMPLETE, VOLUME_MOUNTED, SENTINEL_DURABLE, COMPLETE
<1>l. card \in CardSet /\ card.table \in {"source", "target"}
  BY DEF FbTypes, CardSet
<1>f. ASSUME NEW n, NEW t, p = P(n, t) PROVE p.next = n /\ p.todo = t
  BY <1>f DEF P
<1>1. CASE p \in PlanBackup(j)
  <2> DEFINE t == <<"mount_boot", "dump", "dd">>
  <2>1. p = P(2, t) /\ j.phase = 1 /\ Layout = "source"
    BY <1>1 DEF PlanBackup, Planned
  <2>2. t \in Seq(PlanActions) /\ BackupBinds(t, j)
    BY <2>1, <1>l, LayoutIs DEF PlanActions, BackupBinds
  <2> HIDE DEF t
  <2> QED
    BY <2>1, <2>2, <1>f DEF PlanBinds
<1>2. CASE p \in PlanTable(j)
  <2> DEFINE t == <<"sfdisk", "verify", "reread">>
  <2>1. p = P(3, t) /\ j.phase = 2 /\ BackupGood(j)
    BY <1>2 DEF PlanTable, Planned
  <2>2. t \in Seq(PlanActions) /\ TableBinds(t, j)
    BY <2>1 DEF PlanActions, TableBinds, BackupGood
  <2> HIDE DEF t
  <2> QED
    BY <2>1, <2>2, <1>f DEF PlanBinds
<1>3. CASE p \in PlanReboot(j)
  <2> DEFINE t == <<"reboot">>
  <2>1. p = P(3, t) /\ j.phase = 3
    BY <1>3 DEF PlanReboot, Planned
  <2>2. t \in Seq(PlanActions) /\ TableBinds(t, j)
    BY <2>1 DEF PlanActions, TableBinds, Truthful
  <2> HIDE DEF t
  <2> QED
    BY <2>1, <2>2, <1>f DEF PlanBinds
<1>4. CASE p \in PlanRoot(j)
  <2> DEFINE t == <<"e2fsck">>
             u == <<"resize">>
  <2>1. \/ p = P(4, t) /\ j.phase = 3
        \/ p = P(5, u) /\ j.phase = 4
    BY <1>4 DEF PlanRoot, Planned
  <2>2. t \in Seq(PlanActions) /\ (j.phase = 3 => CheckBinds(t, j))
    BY DEF PlanActions, CheckBinds, Truthful
  <2>3. u \in Seq(PlanActions) /\ (j.phase = 4 => ResizeBinds(u, j))
    BY DEF PlanActions, ResizeBinds, Truthful
  <2> HIDE DEF t, u
  <2> QED
    BY <2>1, <2>2, <2>3, <1>f DEF PlanBinds
<1>5. CASE p \in PlanData(j)
  <2> DEFINE t == <<"wipefs">>
             u == <<"mkfs", "blkid">>
             e == << >>
  <2>1. \/ p = P(6, t) /\ j.phase = 5
        \/ p = P(7, u) /\ j.phase = 6 /\ Layout = "table"
        \/ p = P(8, e) /\ j.phase = 7
    BY <1>5 DEF PlanData, Planned, ScanBound
  <2>2. t \in Seq(PlanActions) /\ (j.phase = 5 => ScanBinds(t, j))
    BY DEF PlanActions, ScanBinds, Truthful
  <2>3. u \in Seq(PlanActions) /\ (j.phase = 6 /\ Layout = "table" => FormatBinds(u, j))
    BY <1>l, LayoutIs DEF PlanActions, FormatBinds, Truthful
  <2>4. e \in Seq(PlanActions) /\ e = << >>
    OBVIOUS
  <2> HIDE DEF t, u, e
  <2>5. CASE p = P(6, t) /\ j.phase = 5
    BY <2>5, <2>2, <1>f DEF PlanBinds
  <2>6. CASE p = P(7, u) /\ j.phase = 6 /\ Layout = "table"
    BY <2>6, <2>3, <1>f DEF PlanBinds
  <2>7. CASE p = P(8, e) /\ j.phase = 7
    <3>1. p.next = 8 /\ p.todo = e
      BY <2>7, <1>f
    <3> QED
      BY <3>1, <2>7, <2>4 DEF PlanBinds
  <2> QED
    BY <2>1, <2>5, <2>6, <2>7
<1>6. CASE p \in PlanPostRoot(j)
  <2> DEFINE t == <<"fsck", "mount", "findmnt">>
             u == <<"mkdir", "sentinel">>
             v == <<"fstab", "env", "marker">>
  <2>1. \/ p = P(9, t) /\ j.phase = 8
        \/ p = P(10, u) /\ j.phase = 9
        \/ p = P(11, v) /\ j.phase = 10
    BY <1>6 DEF PlanPostRoot, Planned
  <2>2. t \in Seq(PlanActions) /\ (j.phase = 8 => MountBindsPlan(t, j))
    BY DEF PlanActions, MountBindsPlan
  <2>3. u \in Seq(PlanActions) /\ (j.phase = 9 => SentinelBinds(u, j))
    BY DEF PlanActions, SentinelBinds
  <2>4. v \in Seq(PlanActions) /\ (j.phase = 10 => CompleteBinds(v, j))
    BY DEF PlanActions, CompleteBinds
  <2> HIDE DEF t, u, v
  <2> QED
    BY <2>1, <2>2, <2>3, <2>4, <1>f DEF PlanBinds
<1> QED
  BY <1>1, <1>2, <1>3, <1>4, <1>5, <1>6 DEF PlanInitramfs

\* Where nothing but the plan is dropped, and the running system starts anew, all is kept.
LEMMA FbRestarts ==
  ASSUME FbInd, UNCHANGED <<card, journal>>, evidence' \in Evidence, evidence'.mounted \in {NoUuid, evidence.mounted},
         plan' = NoPlan
  PROVE  FbInd'
BY DEF FbInd, FbTypes, CardHangs, Truthful, PlanHangs, NoUuid

\* The evidence after a boot.
LEMMA BootEvidence ==
  ASSUME evidence \in Evidence, Booted
  PROVE  evidence' \in Evidence /\ evidence'.mounted = NoUuid
<1>1. NoEvidence \in Evidence /\ NoEvidence.mounted = NoUuid
  BY DEF NoEvidence, Evidence, Uuids, NoUuid
<1>2. PICK c \in BOOLEAN, d \in BOOLEAN : evidence' = [NoEvidence EXCEPT !.checked = c, !.scanned = d]
  BY DEF Booted, Evidence
<1> HIDE DEF NoEvidence
<1> QED
  BY <1>1, <1>2 DEF Evidence

\* A journal is started, a plan is made, fails or is abandoned, or power is lost.
LEMMA FbPlans ==
  ASSUME FbInd, StartJournal \/ PlanNext \/ Fail \/ ControlledReboot
  PROVE  FbInd'
<1> USE DEF NoJournal, SOURCE_VERIFIED, BACKUP_VALIDATED, TABLE_COMMITTED, ROOT_CHECKED, ROOT_READY,
        SIGNATURE_VERIFIED, DATA_FORMATTED, EARLY_COMPLETE, VOLUME_MOUNTED, SENTINEL_DURABLE, COMPLETE, NoUuid
<1>t. FbTypes /\ CardHangs /\ Truthful(journal) /\ PlanHangs /\ card \in CardSet /\ evidence \in Evidence /\ journal \in Journal
  BY DEF FbInd, FbTypes
<1>1. CASE StartJournal
  <2>1. /\ journal' \in Journal /\ journal'.phase = 1 /\ journal'.uuid = 0 /\ UNCHANGED <<card, evidence, plan>>
        /\ plan = NoPlan /\ Layout = "source"
    BY <1>1 DEF StartJournal, FreshJournal, Journal, Uuids, Idle
  <2> QED
    BY <2>1, <1>t, LayoutIs DEF FbInd, FbTypes, CardHangs, Truthful, PlanHangs
<1>2. CASE PlanNext
  <2> DEFINE j == Reconciled(journal)
  <2>p. PICK p \in PlanInitramfs(j) \union PlanPostRoot(j) :
          /\ plan' = [next |-> p.next, todo |-> p.todo, table |-> card.table, j |-> Committed(p, j)]
          /\ journal' = IF p.todo = <<"reboot">> THEN Committed(p, j) ELSE journal
    BY <1>2 DEF PlanNext
  <2>0. UNCHANGED <<card, evidence, losses>> /\ journal.phase # 0 /\ j.phase # Refused
    BY <1>2 DEF PlanNext
  <2>1. /\ j \in Journal /\ Truthful(j) /\ j.phase >= journal.phase /\ j.phase # 0 /\ j.backup = journal.backup
        /\ j.phase < 7 => card.p3 # "formatted"
        /\ j.phase < 5 => card.root # "target"
    BY <2>0, <1>t, ReconciledTruthful
  <2> HIDE DEF j
  <2>2. PlanBinds(p.next, p.todo, j) /\ p.next \in 2 .. 11 /\ p.todo \in Seq(PlanActions)
    <3>1. card.table = "target" => card.backup = "valid" /\ j.backup
      BY <2>1, <1>t DEF CardHangs
    <3> QED
      BY <2>1, <1>t, <3>1, PlannedBinds
  <2> DEFINE k == Committed(p, j)
  <2>3. k \in Journal /\ k.phase = j.phase /\ k.uuid = j.uuid /\ k.backup = j.backup
    <3>1. CASE p.todo = <<"reboot">>
      <4>1. k = [j EXCEPT !.reboots = @ + 1] /\ j.reboots + 1 \in Nat
        BY <3>1, <2>1 DEF Committed, Journal
      <4> HIDE DEF k
      <4> QED
        BY <4>1, <2>1 DEF Journal
    <3>2. CASE p.todo # <<"reboot">>
      BY <3>2, <2>1 DEF Committed
    <3> QED
      BY <3>1, <3>2
  <2> HIDE DEF k
  <2>4. Truthful(k) /\ PlanBinds(p.next, p.todo, k)
    <3>1. Truthful(k)
      BY <2>1, <2>3 DEF Truthful
    <3> QED
      BY <3>1, <2>2, <2>3
         DEF PlanBinds, BackupBinds, TableBinds, CheckBinds, ResizeBinds, ScanBinds, FormatBinds, MountBindsPlan,
             SentinelBinds, CompleteBinds
  <2>5. /\ plan' \in PlanSet /\ plan'.next = p.next /\ plan'.todo = p.todo /\ plan'.j = k /\ plan' # NoPlan
    <3>1. card.table \in {"source", "target"}
      BY <1>t DEF CardSet
    <3>2. plan' = [next |-> p.next, todo |-> p.todo, table |-> card.table, j |-> k]
      BY <2>p DEF k
    <3>3. plan' \in PlanSet /\ plan'.next = p.next /\ plan'.todo = p.todo /\ plan'.j = k
      BY <3>1, <3>2, <2>2, <2>3 DEF PlanSet
    <3> QED
      BY <3>3, <2>2 DEF NoPlan
  <2>6. /\ journal' \in Journal /\ Truthful(journal)' /\ journal'.phase # 0 /\ journal'.phase <= k.phase
        /\ journal'.backup = journal.backup
    <3>1. journal' \in {journal, k}
      BY <2>p DEF k
    <3>2. ASSUME NEW i \in {journal, k}, journal' = i PROVE Truthful(journal)' <=> Truthful(i)
      BY <3>2, <2>0 DEF Truthful
    <3>3. journal.phase \in 0 .. 11 /\ k.phase \in 0 .. 11
      BY <1>t, <2>3 DEF Journal
    <3> QED
      BY <3>1, <3>2, <3>3, <1>t, <2>0, <2>1, <2>3, <2>4
  <2>7. CardHangs'
    BY <2>0, <2>6, <1>t DEF CardHangs
  <2>8. PlanHangs'
    <3>1. Truthful(plan.j)' /\ PlanBinds(plan.next, plan.todo, plan.j)'
      BY <2>4, <2>5, <2>0
         DEF Truthful, PlanBinds, BackupBinds, TableBinds, CheckBinds, ResizeBinds, ScanBinds, FormatBinds, MountBindsPlan,
             SentinelBinds, CompleteBinds
    <3> QED
      BY <3>1, <2>1, <2>3, <2>5, <2>6 DEF PlanHangs
  <2> QED
    BY <2>0, <2>5, <2>6, <2>7, <2>8, <1>t DEF FbInd, FbTypes
<1>3. CASE Fail
  <2>1. /\ journal' \in Journal /\ journal'.phase = journal.phase /\ journal'.uuid = journal.uuid
        /\ journal'.backup = journal.backup /\ plan' = NoPlan /\ UNCHANGED <<card, evidence>>
    <3>1. journal.failures + 1 \in Nat
      BY <1>t DEF Journal
    <3> QED
      BY <1>3, <1>t, <3>1 DEF Fail, Journal
  <2> QED
    BY <2>1, <1>t DEF FbInd, FbTypes, CardHangs, Truthful, PlanHangs
<1>4. CASE ControlledReboot
  BY <1>4, <1>t, BootEvidence, FbRestarts DEF ControlledReboot
<1> QED
  BY <1>1, <1>2, <1>3, <1>4

\* What an action of a plan leaves in each field of the card.
LEMMA CardAfter ==
  ASSUME card \in CardSet, NEW a, NEW u \in Uuids, card' = Card(a, card, u), a = "mkfs" => card.formats = 0
  PROVE  /\ card' \in CardSet
         /\ card'.table = IF a = "sfdisk" THEN "target" ELSE card.table
         /\ card'.root = IF a = "resize" THEN "target" ELSE card.root
         /\ card'.p3 = IF a = "mkfs" THEN "formatted" ELSE card.p3
         /\ card'.uuid = IF a = "mkfs" THEN 1 ELSE card.uuid
         /\ card'.formats = IF a = "mkfs" THEN 1 ELSE card.formats
         /\ card'.backup = IF a = "dd" THEN "valid" ELSE card'.backup
         /\ a # "dump" /\ a # "dd" => card'.backup = card.backup
         /\ card'.sentinel = IF a = "sentinel" THEN u ELSE card.sentinel
         /\ card'.marker = IF a = "marker" THEN u ELSE card.marker
         /\ card'.fstab = IF a = "fstab" THEN u ELSE card.fstab
         /\ card'.env = IF a = "env" THEN u ELSE card.env
         /\ a \notin {"dump", "dd", "sfdisk", "resize", "mkfs", "sentinel", "fstab", "env", "marker"} => UNCHANGED card
<1>1. CASE a = "dump"
  <2>1. card' = [card EXCEPT !.backup = IF card.backup = "valid" THEN "valid" ELSE "partial"]
    BY <1>1 DEF Card
  <2> QED
    BY <1>1, <2>1 DEF CardSet
<1>2. CASE a = "dd"
  <2>1. card' = [card EXCEPT !.backup = "valid"]
    BY <1>2 DEF Card
  <2> QED
    BY <1>2, <2>1 DEF CardSet
<1>3. CASE a = "sfdisk"
  <2>1. card' = [card EXCEPT !.table = "target"]
    BY <1>3 DEF Card
  <2> QED
    BY <1>3, <2>1 DEF CardSet
<1>4. CASE a = "resize"
  <2>1. card' = [card EXCEPT !.root = "target"]
    BY <1>4 DEF Card
  <2> QED
    BY <1>4, <2>1 DEF CardSet
<1>5. CASE a = "mkfs"
  <2>1. card' = [card EXCEPT !.p3 = "formatted", !.uuid = card.formats + 1, !.formats = card.formats + 1]
    BY <1>5 DEF Card
  <2>2. card.formats + 1 = 1 /\ 1 \in Uuids
    BY <1>5 DEF Uuids
  <2>3. card' = [card EXCEPT !.p3 = "formatted", !.uuid = 1, !.formats = 1]
    BY <2>1, <2>2
  <2> QED
    BY <1>5, <2>2, <2>3 DEF CardSet
<1>6. CASE a = "sentinel"
  <2>1. card' = [card EXCEPT !.sentinel = u]
    BY <1>6 DEF Card
  <2> QED
    BY <1>6, <2>1 DEF CardSet
<1>7. CASE a = "fstab"
  <2>1. card' = [card EXCEPT !.fstab = u]
    BY <1>7 DEF Card
  <2> QED
    BY <1>7, <2>1 DEF CardSet
<1>8. CASE a = "env"
  <2>1. card' = [card EXCEPT !.env = u]
    BY <1>8 DEF Card
  <2> QED
    BY <1>8, <2>1 DEF CardSet
<1>9. CASE a = "marker"
  <2>1. card' = [card EXCEPT !.marker = u]
    BY <1>9 DEF Card
  <2> QED
    BY <1>9, <2>1 DEF CardSet
<1>10. CASE a \notin {"dump", "dd", "sfdisk", "resize", "mkfs", "sentinel", "fstab", "env", "marker"}
  <2>1. card' = card
    BY <1>10 DEF Card
  <2> QED
    BY <1>10, <2>1
<1> QED
  BY <1>1, <1>2, <1>3, <1>4, <1>5, <1>6, <1>7, <1>8, <1>9, <1>10

\* The action next in what is left of a plan, and what follows it.
LEMMA TodoIs ==
  ASSUME NEW t
  PROVE  /\ t = <<"mount_boot", "dump", "dd">> => Head(t) = "mount_boot" /\ Tail(t) = <<"dump", "dd">>
         /\ t = <<"dump", "dd">> => Head(t) = "dump" /\ Tail(t) = <<"dd">>
         /\ t = <<"dd">> => Head(t) = "dd" /\ Tail(t) = << >>
         /\ t = <<"sfdisk", "verify", "reread">> => Head(t) = "sfdisk" /\ Tail(t) = <<"verify", "reread">>
         /\ t = <<"verify", "reread">> => Head(t) = "verify" /\ Tail(t) = <<"reread">>
         /\ t = <<"reread">> => Head(t) = "reread" /\ Tail(t) = << >>
         /\ t = <<"e2fsck">> => Head(t) = "e2fsck" /\ Tail(t) = << >>
         /\ t = <<"resize">> => Head(t) = "resize" /\ Tail(t) = << >>
         /\ t = <<"wipefs">> => Head(t) = "wipefs" /\ Tail(t) = << >>
         /\ t = <<"mkfs", "blkid">> => Head(t) = "mkfs" /\ Tail(t) = <<"blkid">>
         /\ t = <<"blkid">> => Head(t) = "blkid" /\ Tail(t) = << >>
         /\ t = <<"fsck", "mount", "findmnt">> => Head(t) = "fsck" /\ Tail(t) = <<"mount", "findmnt">>
         /\ t = <<"mount", "findmnt">> => Head(t) = "mount" /\ Tail(t) = <<"findmnt">>
         /\ t = <<"findmnt">> => Head(t) = "findmnt" /\ Tail(t) = << >>
         /\ t = <<"mkdir", "sentinel">> => Head(t) = "mkdir" /\ Tail(t) = <<"sentinel">>
         /\ t = <<"sentinel">> => Head(t) = "sentinel" /\ Tail(t) = << >>
         /\ t = <<"fstab", "env", "marker">> => Head(t) = "fstab" /\ Tail(t) = <<"env", "marker">>
         /\ t = <<"env", "marker">> => Head(t) = "env" /\ Tail(t) = <<"marker">>
         /\ t = <<"marker">> => Head(t) = "marker" /\ Tail(t) = << >>
<1>1. \A x, y, z : t = <<x, y, z>> => Head(t) = x /\ Tail(t) = <<y, z>>
  OBVIOUS
<1>2. \A x, y : t = <<x, y>> => Head(t) = x /\ Tail(t) = <<y>>
  OBVIOUS
<1>3. \A x : t = <<x>> => Head(t) = x /\ Tail(t) = << >>
  OBVIOUS
<1> QED
  BY <1>1, <1>2, <1>3, ZenonT(30)

\* Only a mount changes what is mounted.
LEMMA EvidenceAfter ==
  ASSUME evidence \in Evidence, NEW a, NEW u \in Uuids, evidence' \in Observing(a, u)
  PROVE  evidence' \in Evidence /\ evidence'.mounted = IF a = "mount" THEN u ELSE evidence.mounted
<1>1. CASE a = "sfdisk"
  BY <1>1 DEF Observing, Evidence
<1>2. CASE a = "reread"
  <2>1. PICK b \in BOOLEAN : evidence' = [evidence EXCEPT !.adopted = b]
    BY <1>2 DEF Observing
  <2> QED
    BY <2>1, <1>2 DEF Evidence
<1>3. CASE a = "e2fsck" \/ a = "resize"
  BY <1>3 DEF Observing, Evidence
<1>4. CASE a = "wipefs"
  BY <1>4 DEF Observing, Evidence
<1>5. CASE a = "mount"
  BY <1>5 DEF Observing, Evidence
<1>6. CASE a \notin {"sfdisk", "reread", "e2fsck", "resize", "wipefs", "mount"}
  <2>1. evidence' = evidence
    BY <1>6 DEF Observing
  <2> QED
    BY <2>1, <1>6
<1> QED
  BY <1>1, <1>2, <1>3, <1>4, <1>5, <1>6

\* The plan goes on to its next action; what remains to be shown is about the card.
LEMMA StepLeaves ==
  ASSUME FbInd, Step
  PROVE  /\ plan \in PlanSet /\ plan # NoPlan /\ plan' \in PlanSet /\ plan' # NoPlan
         /\ plan'.next = plan.next /\ plan'.j = plan.j /\ plan'.todo = Tail(plan.todo) /\ plan.todo # << >>
         /\ plan.todo # <<"reboot">>
         /\ card' = Card(Head(plan.todo), card, plan.j.uuid) /\ UNCHANGED journal
         /\ evidence' \in Evidence
         /\ evidence'.mounted = IF Head(plan.todo) = "mount" THEN plan.j.uuid ELSE evidence.mounted
<1>1. plan \in PlanSet /\ plan # NoPlan /\ plan.todo # << >> /\ Head(plan.todo) # "reboot"
  BY DEF Step, Executing, Idle, FbInd, FbTypes
<1>2. plan' = [plan EXCEPT !.todo = Tail(plan.todo)] /\ plan.todo \in Seq(PlanActions) /\ Tail(plan.todo) \in Seq(PlanActions)
  BY <1>1 DEF Step, PlanSet
<1>3. plan' \in PlanSet /\ plan'.next = plan.next /\ plan'.j = plan.j /\ plan'.todo = Tail(plan.todo)
  BY <1>1, <1>2 DEF PlanSet
<1>4. plan' # NoPlan
  BY <1>3 DEF NoPlan, NoJournal, PlanSet
<1>5. plan.j.uuid \in Uuids
  BY <1>1 DEF PlanSet, Journal
<1>6. plan.todo # <<"reboot">>
  BY <1>1
<1> QED
  BY <1>1, <1>3, <1>4, <1>5, <1>6, EvidenceAfter DEF Step, FbInd, FbTypes

\* With the new card in hand: the parts of the invariant, and nothing else.
LEMMA StepEnds ==
  ASSUME FbInd, Step, card' \in CardSet, CardHangs', Truthful(journal)', Truthful(plan.j)',
         PlanBinds(plan.next, plan.todo, plan.j)'
  PROVE  FbInd'
BY StepLeaves DEF FbInd, FbTypes, PlanHangs

\* An action that leaves the card alone.
LEMMA StepWithoutWrite ==
  ASSUME FbInd, Step, UNCHANGED card, Head(plan.todo) = "mount" => plan.j.uuid = card.uuid,
         PlanBinds(plan.next, plan.todo, plan.j)'
  PROVE  FbInd'
<1>1. plan'.j = plan.j /\ UNCHANGED journal /\ plan # NoPlan /\ card \in CardSet
      /\ evidence'.mounted = IF Head(plan.todo) = "mount" THEN plan.j.uuid ELSE evidence.mounted
  BY StepLeaves DEF FbInd, FbTypes
<1>2. CardHangs'
  BY <1>1 DEF FbInd, CardHangs
<1>3. Truthful(journal)' /\ Truthful(plan.j)'
  BY <1>1 DEF FbInd, PlanHangs, Truthful
<1> QED
  BY <1>1, <1>2, <1>3, StepEnds

\* Every action of every plan leaves the card, the journal and the rest of the plan in agreement.
LEMMA FbSteps ==
  ASSUME FbInd, Step
  PROVE  FbInd'
<1> USE DEF NoJournal, SOURCE_VERIFIED, BACKUP_VALIDATED, TABLE_COMMITTED, ROOT_CHECKED, ROOT_READY,
        SIGNATURE_VERIFIED, DATA_FORMATTED, EARLY_COMPLETE, VOLUME_MOUNTED, SENTINEL_DURABLE, COMPLETE, NoUuid
<1> DEFINE t == plan.todo
           j == plan.j
<1>s. /\ plan \in PlanSet /\ plan # NoPlan /\ plan' \in PlanSet
      /\ plan'.next = plan.next /\ plan'.j = j /\ plan'.todo = Tail(t) /\ t # << >> /\ t # <<"reboot">>
      /\ card' = Card(Head(t), card, j.uuid) /\ UNCHANGED journal
      /\ evidence'.mounted = IF Head(t) = "mount" THEN j.uuid ELSE evidence.mounted
  BY StepLeaves
<1>t. card \in CardSet /\ journal \in Journal /\ j \in Journal /\ plan.next \in 2 .. 11
      /\ journal.phase \in 0 .. 11 /\ j.phase \in 0 .. 11 /\ j.uuid \in Uuids
  BY <1>s DEF FbInd, FbTypes, PlanSet, Journal
<1>i. /\ CardHangs /\ Truthful(journal) /\ Truthful(j) /\ j.backup = journal.backup /\ journal.phase <= j.phase
      /\ PlanBinds(plan.next, t, j)
  BY <1>s DEF FbInd, PlanHangs
<1>c. /\ Head(t) = "mkfs" => card.formats = 0
      /\ card' \in CardSet
      /\ card'.table = IF Head(t) = "sfdisk" THEN "target" ELSE card.table
      /\ card'.root = IF Head(t) = "resize" THEN "target" ELSE card.root
      /\ card'.p3 = IF Head(t) = "mkfs" THEN "formatted" ELSE card.p3
      /\ card'.uuid = IF Head(t) = "mkfs" THEN 1 ELSE card.uuid
      /\ card'.formats = IF Head(t) = "mkfs" THEN 1 ELSE card.formats
      /\ Head(t) # "dump" /\ Head(t) # "dd" => card'.backup = card.backup
      /\ card'.sentinel = IF Head(t) = "sentinel" THEN j.uuid ELSE card.sentinel
      /\ card'.marker = IF Head(t) = "marker" THEN j.uuid ELSE card.marker
      /\ card'.fstab = IF Head(t) = "fstab" THEN j.uuid ELSE card.fstab
      /\ card'.env = IF Head(t) = "env" THEN j.uuid ELSE card.env
      /\ Head(t) \notin {"dump", "dd", "sfdisk", "resize", "mkfs", "sentinel", "fstab", "env", "marker"} => UNCHANGED card
  <2>1. Head(t) = "mkfs" => card.formats = 0
    <3>1. Head(t) = "mkfs" => t = <<"mkfs", "blkid">> /\ plan.next = 7
      BY <1>i, <1>s, <1>t, TodoIs DEF PlanBinds, BackupBinds, TableBinds, CheckBinds, ResizeBinds, ScanBinds, FormatBinds,
           MountBindsPlan, SentinelBinds, CompleteBinds
    <3> QED
      BY <3>1, <1>i DEF PlanBinds, FormatBinds, CardHangs
  <2>2. card \in CardSet /\ j.uuid \in Uuids /\ card' = Card(Head(t), card, j.uuid)
    BY <1>s, <1>t
  <2> HIDE DEF t, j
  <2> QED
    BY <2>1, <2>2, CardAfter
<1>n. Head(t) \in {"mount_boot", "verify", "reread", "e2fsck", "wipefs", "blkid", "fsck", "mount", "findmnt", "mkdir"}
        => UNCHANGED card
  BY <1>c
<1>1. CASE plan.next = 2
  <2>b. BackupBinds(t, j)
    BY <1>1, <1>i DEF PlanBinds
  <2>1. t \in {<<"mount_boot", "dump", "dd">>, <<"dump", "dd">>, <<"dd">>} /\ card.table = "source" /\ j.phase = 1
    BY <2>b, <1>s DEF BackupBinds
  <2>2. \/ Head(t) = "mount_boot" /\ Tail(t) = <<"dump", "dd">>
        \/ Head(t) = "dump" /\ Tail(t) = <<"dd">>
        \/ Head(t) = "dd" /\ Tail(t) = << >>
    BY <2>1, TodoIs
  <2>4. /\ card' \in CardSet /\ card'.table = "source" /\ card'.root = card.root /\ card'.p3 = card.p3 /\ card'.uuid = card.uuid
        /\ card'.sentinel = card.sentinel /\ card'.marker = card.marker /\ card'.fstab = card.fstab
        /\ card'.env = card.env /\ card'.formats = card.formats
    BY <2>1, <2>2, <1>c
  <2>5. BackupBinds(plan.todo, plan.j)'
    BY <2>1, <2>2, <2>4, <1>s DEF BackupBinds
  <2>6. CardHangs'
    BY <2>1, <2>2, <2>4, <1>i, <1>s DEF CardHangs
  <2>7. Truthful(journal)' /\ Truthful(plan.j)'
    BY <2>4, <2>1, <1>i, <1>s DEF Truthful
  <2> QED
    BY <2>4, <2>5, <2>6, <2>7, <1>1, <1>s, StepEnds DEF PlanBinds
<1>2. CASE plan.next = 3
  <2>b. TableBinds(t, j)
    BY <1>2, <1>i DEF PlanBinds
  <2>1. /\ t \in {<<"sfdisk", "verify", "reread">>, <<"verify", "reread">>, <<"reread">>}
        /\ card.backup = "valid" /\ j.backup /\ j.phase \in {2, 3}
    BY <2>b, <1>s DEF TableBinds
  <2>2. \/ Head(t) = "sfdisk" /\ Tail(t) = <<"verify", "reread">>
        \/ Head(t) = "verify" /\ Tail(t) = <<"reread">>
        \/ Head(t) = "reread" /\ Tail(t) = << >>
    BY <2>1, TodoIs
  <2>3. CASE Head(t) \in {"verify", "reread"}
    <3>1. UNCHANGED card
      BY <2>3, <1>n
    <3>2. TableBinds(plan.todo, plan.j)'
      BY <3>1, <2>1, <2>2, <1>s DEF TableBinds
    <3> QED
      BY <3>1, <3>2, <2>3, <1>2, <1>s, StepWithoutWrite DEF PlanBinds
  <2>4. CASE Head(t) = "sfdisk"
    <3>2. /\ card' \in CardSet /\ card'.table = "target" /\ card'.root = card.root /\ card'.p3 = card.p3
          /\ card'.uuid = card.uuid /\ card'.backup = card.backup
          /\ card'.sentinel = card.sentinel /\ card'.marker = card.marker /\ card'.fstab = card.fstab
          /\ card'.env = card.env /\ card'.formats = card.formats
      BY <2>4, <1>c
    <3>3. TableBinds(plan.todo, plan.j)'
      BY <3>2, <2>4, <2>1, <2>2, <1>s DEF TableBinds
    <3>4. CardHangs'
      BY <3>2, <2>4, <2>1, <1>i, <1>s DEF CardHangs
    <3>5. Truthful(journal)' /\ Truthful(plan.j)'
      BY <3>2, <1>i, <1>s DEF Truthful
    <3> QED
      BY <3>2, <3>3, <3>4, <3>5, <1>2, <1>s, StepEnds DEF PlanBinds
  <2> QED
    BY <2>2, <2>3, <2>4
<1>3. CASE plan.next = 4
  <2>b. CheckBinds(t, j)
    BY <1>3, <1>i DEF PlanBinds
  <2>1. t = <<"e2fsck">>
    BY <2>b, <1>s DEF CheckBinds
  <2>2. Head(t) = "e2fsck" /\ Tail(t) = << >>
    BY <2>1, TodoIs
  <2>3. UNCHANGED card
    BY <2>2, <1>n
  <2>4. CheckBinds(plan.todo, plan.j)'
    BY <2>b, <2>2, <2>3, <1>s DEF CheckBinds
  <2> QED
    BY <2>2, <2>3, <2>4, <1>3, <1>s, StepWithoutWrite DEF PlanBinds
<1>4. CASE plan.next = 5
  <2>b. ResizeBinds(t, j)
    BY <1>4, <1>i DEF PlanBinds
  <2>1. t = <<"resize">>
    BY <2>b, <1>s DEF ResizeBinds
  <2>2. Head(t) = "resize" /\ Tail(t) = << >>
    BY <2>1, TodoIs
  <2>4. /\ card' \in CardSet /\ card'.table = card.table /\ card'.root = "target" /\ card'.p3 = card.p3
        /\ card'.uuid = card.uuid /\ card'.backup = card.backup
        /\ card'.sentinel = card.sentinel /\ card'.marker = card.marker /\ card'.fstab = card.fstab
        /\ card'.env = card.env /\ card'.formats = card.formats
    BY <2>2, <1>c
  <2>5. ResizeBinds(plan.todo, plan.j)'
    BY <2>b, <2>2, <2>4, <1>s DEF ResizeBinds
  <2>6. CardHangs'
    BY <2>2, <2>4, <1>i, <1>s DEF CardHangs
  <2>7. Truthful(journal)' /\ Truthful(plan.j)'
    BY <2>4, <1>i, <1>s DEF Truthful
  <2> QED
    BY <2>4, <2>5, <2>6, <2>7, <1>4, <1>s, StepEnds DEF PlanBinds
<1>5. CASE plan.next = 6
  <2>b. ScanBinds(t, j)
    BY <1>5, <1>i DEF PlanBinds
  <2>1. t = <<"wipefs">>
    BY <2>b, <1>s DEF ScanBinds
  <2>2. Head(t) = "wipefs" /\ Tail(t) = << >>
    BY <2>1, TodoIs
  <2>3. UNCHANGED card
    BY <2>2, <1>n
  <2>4. ScanBinds(plan.todo, plan.j)'
    BY <2>b, <2>2, <2>3, <1>s DEF ScanBinds
  <2> QED
    BY <2>2, <2>3, <2>4, <1>5, <1>s, StepWithoutWrite DEF PlanBinds
<1>6. CASE plan.next = 7
  <2>b. FormatBinds(t, j)
    BY <1>6, <1>i DEF PlanBinds
  <2>1. t \in {<<"mkfs", "blkid">>, <<"blkid">>}
    BY <2>b, <1>s DEF FormatBinds
  <2>2. \/ t = <<"mkfs", "blkid">> /\ Head(t) = "mkfs" /\ Tail(t) = <<"blkid">>
        \/ Head(t) = "blkid" /\ Tail(t) = << >>
    BY <2>1, TodoIs
  <2>3. CASE Head(t) = "blkid"
    <3>1. UNCHANGED card
      BY <2>3, <1>n
    <3>2. FormatBinds(plan.todo, plan.j)'
      BY <3>1, <2>b, <2>2, <2>3, <1>s DEF FormatBinds
    <3> QED
      BY <3>1, <3>2, <2>3, <1>6, <1>s, StepWithoutWrite DEF PlanBinds
  <2>4. CASE Head(t) = "mkfs"
    <3>0. t = <<"mkfs", "blkid">> /\ card.p3 = "blank" /\ card.formats = 0 /\ card.uuid = 0 /\ j.phase = 6 /\ Tail(t) = <<"blkid">>
      BY <2>4, <2>2, <2>b, <1>i DEF FormatBinds, CardHangs
    <3>2. /\ card' \in CardSet /\ card'.table = card.table /\ card'.root = card.root /\ card'.p3 = "formatted"
          /\ card'.uuid = 1 /\ card'.backup = card.backup
          /\ card'.sentinel = card.sentinel /\ card'.marker = card.marker /\ card'.fstab = card.fstab
          /\ card'.env = card.env /\ card'.formats = 1
      BY <2>4, <1>c
    <3>3. FormatBinds(plan.todo, plan.j)'
      BY <3>2, <3>0, <2>b, <1>s DEF FormatBinds
    <3>4. CardHangs'
      <4>1. card.root = "target" /\ card.table = "target" /\ card.marker = 0 /\ card.sentinel = 0 /\ evidence.mounted = 0
        BY <3>0, <1>i, <1>t, <2>b DEF Truthful, CardHangs, FormatBinds
      <4> QED
        BY <3>2, <4>1, <2>4, <1>i, <1>s DEF CardHangs
    <3>5. Truthful(journal)' /\ Truthful(plan.j)'
      BY <3>0, <3>2, <1>i, <1>s, <1>t DEF Truthful
    <3> QED
      BY <3>2, <3>3, <3>4, <3>5, <1>6, <1>s, StepEnds DEF PlanBinds
  <2> QED
    BY <2>2, <2>3, <2>4
<1>7. CASE plan.next = 8
  BY <1>7, <1>i, <1>s DEF PlanBinds
<1>8. CASE plan.next = 9
  <2>b. MountBindsPlan(t, j)
    BY <1>8, <1>i DEF PlanBinds
  <2>1. t \in {<<"fsck", "mount", "findmnt">>, <<"mount", "findmnt">>, <<"findmnt">>}
    BY <2>b, <1>s DEF MountBindsPlan
  <2>2. \/ Head(t) = "fsck" /\ Tail(t) = <<"mount", "findmnt">>
        \/ Head(t) = "mount" /\ Tail(t) = <<"findmnt">>
        \/ Head(t) = "findmnt" /\ Tail(t) = << >>
    BY <2>1, TodoIs
  <2>3. UNCHANGED card
    BY <2>2, <1>n
  <2>4. MountBindsPlan(plan.todo, plan.j)'
    BY <2>b, <2>2, <2>3, <1>s DEF MountBindsPlan
  <2>5. j.uuid = card.uuid
    BY <2>b, <1>i DEF MountBindsPlan, Truthful
  <2> QED
    BY <2>3, <2>4, <2>5, <1>8, <1>s, StepWithoutWrite DEF PlanBinds
<1>9. CASE plan.next = 10
  <2>b. SentinelBinds(t, j)
    BY <1>9, <1>i DEF PlanBinds
  <2>1. t \in {<<"mkdir", "sentinel">>, <<"sentinel">>}
    BY <2>b, <1>s DEF SentinelBinds
  <2>2. \/ Head(t) = "mkdir" /\ Tail(t) = <<"sentinel">>
        \/ Head(t) = "sentinel" /\ Tail(t) = << >>
    BY <2>1, TodoIs
  <2>3. SentinelBinds(plan.todo, plan.j)'
    BY <2>b, <2>2, <1>s DEF SentinelBinds
  <2>4. CASE Head(t) = "mkdir"
    BY <2>3, <2>4, <1>n, <1>9, <1>s, StepWithoutWrite DEF PlanBinds
  <2>5. CASE Head(t) = "sentinel"
    <3>0. j.uuid = card.uuid /\ j.phase = 9 /\ card.p3 = "formatted"
      BY <2>b, <1>i DEF SentinelBinds, Truthful
    <3>2. /\ card' \in CardSet /\ card'.table = card.table /\ card'.root = card.root /\ card'.p3 = card.p3
          /\ card'.uuid = card.uuid /\ card'.backup = card.backup
          /\ card'.sentinel = card.uuid /\ card'.marker = card.marker /\ card'.fstab = card.fstab
          /\ card'.env = card.env /\ card'.formats = card.formats
      BY <3>0, <2>5, <1>c
    <3>4. CardHangs'
      <4>1. card.marker # 0 => card.sentinel = card.marker /\ card.fstab = card.marker /\ card.env = card.marker
                                /\ card.uuid = card.marker
        BY <1>i DEF CardHangs
      <4>2. card'.marker # 0 => {card'.sentinel, card'.fstab, card'.env, card'.uuid} = {card'.marker}
        BY <3>2, <4>1
      <4> QED
        BY <3>2, <4>2, <2>5, <1>i, <1>s DEF CardHangs
    <3>5. Truthful(journal)' /\ Truthful(plan.j)'
      BY <3>2, <1>i, <1>s, <1>t DEF Truthful
    <3> QED
      BY <3>2, <2>3, <3>4, <3>5, <1>9, <1>s, StepEnds DEF PlanBinds
  <2> QED
    BY <2>2, <2>4, <2>5
<1>10. CASE plan.next = 11
  <2>b. CompleteBinds(t, j)
    BY <1>10, <1>i DEF PlanBinds
  <2>1. t \in {<<"fstab", "env", "marker">>, <<"env", "marker">>, <<"marker">>}
    BY <2>b, <1>s DEF CompleteBinds
  <2>0. j.uuid = card.uuid /\ j.phase = 10 /\ card.p3 = "formatted" /\ card.sentinel = card.uuid /\ card.uuid \in Uuids
        /\ card.uuid = 1
    BY <2>b, <1>i, <1>t DEF CompleteBinds, Truthful, CardSet, CardHangs
  <2>2. \/ Head(t) = "fstab" /\ Tail(t) = <<"env", "marker">>
        \/ Head(t) = "env" /\ Tail(t) = <<"marker">> /\ card.fstab = card.uuid
        \/ Head(t) = "marker" /\ Tail(t) = << >> /\ card.fstab = card.uuid /\ card.env = card.uuid
    BY <2>1, TodoIs, <2>b DEF CompleteBinds
  <2>3. /\ card' \in CardSet /\ card'.table = card.table /\ card'.root = card.root /\ card'.p3 = card.p3
        /\ card'.uuid = card.uuid /\ card'.backup = card.backup /\ card'.sentinel = card.uuid /\ card'.formats = card.formats
        /\ card'.marker = IF Head(t) = "marker" THEN card.uuid ELSE card.marker
        /\ card'.fstab = IF Head(t) = "fstab" THEN card.uuid ELSE card.fstab
        /\ card'.env = IF Head(t) = "env" THEN card.uuid ELSE card.env
    BY <2>0, <2>2, <1>c
  <2>4. CompleteBinds(plan.todo, plan.j)'
    BY <2>0, <2>2, <2>3, <1>s DEF CompleteBinds
  <2>5. CardHangs'
    <3>1. card.marker # 0 => card.sentinel = card.marker /\ card.fstab = card.marker /\ card.env = card.marker
                              /\ card.uuid = card.marker
      BY <1>i DEF CardHangs
    <3>2. card'.marker # 0 => card'.fstab = card'.uuid /\ card'.env = card'.uuid /\ card'.marker = card'.uuid
      BY <2>0, <2>2, <2>3, <3>1
    <3>3. card'.marker # 0 => {card'.sentinel, card'.fstab, card'.env, card'.uuid} = {card'.marker}
      BY <3>2, <2>3
    <3> QED
      BY <2>0, <2>2, <2>3, <3>3, <1>i, <1>s DEF CardHangs
  <2>6. Truthful(journal)' /\ Truthful(plan.j)'
    BY <2>0, <2>3, <1>i, <1>s, <1>t DEF Truthful
  <2> QED
    BY <2>3, <2>4, <2>5, <2>6, <1>10, <1>s, StepEnds DEF PlanBinds
<1> QED
  BY <1>t, <1>1, <1>2, <1>3, <1>4, <1>5, <1>6, <1>7, <1>8, <1>9, <1>10

\* Power is lost: what a torn resize or mkfs leaves is claimed by no journal.
LEMMA FbPowerLoss ==
  ASSUME FbInd, PowerLoss
  PROVE  FbInd'
<1> USE DEF NoJournal, SOURCE_VERIFIED, BACKUP_VALIDATED, TABLE_COMMITTED, ROOT_CHECKED, ROOT_READY,
        SIGNATURE_VERIFIED, DATA_FORMATTED, EARLY_COMPLETE, VOLUME_MOUNTED, SENTINEL_DURABLE, COMPLETE, NoUuid
<1>e. evidence' \in Evidence /\ evidence'.mounted = 0 /\ plan' = NoPlan /\ UNCHANGED journal
  BY BootEvidence DEF FbInd, FbTypes, PowerLoss
<1>t. card \in CardSet /\ journal \in Journal /\ journal.phase \in 0 .. 11 /\ CardHangs /\ Truthful(journal)
  BY DEF FbInd, FbTypes, Journal
<1>p. ASSUME Executing
      PROVE  /\ plan.todo # << >>
             /\ plan.todo # <<"reboot">> \/ Head(plan.todo) = "reboot"
             /\ plan \in PlanSet /\ plan.next \in 2 .. 11 /\ PlanBinds(plan.next, plan.todo, plan.j)
             /\ journal.phase <= plan.j.phase /\ Truthful(plan.j) /\ plan.j.phase \in 0 .. 11
             /\ plan.j.uuid \in Uuids
  BY <1>p DEF Executing, Idle, FbInd, FbTypes, PlanHangs, PlanSet, Journal
<1>1. CASE card' = card
  BY <1>1, <1>e, FbRestarts
<1>2. CASE Executing /\ Head(plan.todo) = "resize" /\ card' = [card EXCEPT !.root = "torn"]
  <2>1. plan.todo = <<"resize">> /\ plan.next = 5
    BY <1>2, <1>p, TodoIs DEF PlanBinds, BackupBinds, TableBinds, CheckBinds, ResizeBinds, ScanBinds, FormatBinds,
         MountBindsPlan, SentinelBinds, CompleteBinds
  <2>2. card.root # "target" /\ card.table = "target" /\ card.p3 # "formatted" /\ journal.phase <= 4
    BY <2>1, <1>2, <1>p DEF PlanBinds, ResizeBinds
  <2>3. /\ card' \in CardSet /\ card'.table = card.table /\ card'.root = "torn" /\ card'.p3 = card.p3
        /\ card'.uuid = card.uuid /\ card'.backup = card.backup
        /\ card'.sentinel = card.sentinel /\ card'.marker = card.marker /\ card'.fstab = card.fstab
        /\ card'.env = card.env /\ card'.formats = card.formats
    BY <1>2, <1>t DEF CardSet
  <2>4. CardHangs' /\ Truthful(journal)'
    BY <2>2, <2>3, <1>t, <1>e DEF CardHangs, Truthful
  <2> QED
    BY <2>3, <2>4, <1>e, <1>t DEF FbInd, FbTypes, PlanHangs
<1>3. CASE Executing /\ Head(plan.todo) = "mkfs" /\ card' = [card EXCEPT !.p3 = "torn"]
  <2>1. plan.todo = <<"mkfs", "blkid">> /\ plan.next = 7
    BY <1>3, <1>p, TodoIs DEF PlanBinds, BackupBinds, TableBinds, CheckBinds, ResizeBinds, ScanBinds, FormatBinds,
         MountBindsPlan, SentinelBinds, CompleteBinds
  <2>2. card.p3 = "blank" /\ journal.phase <= 6
    BY <2>1, <1>3, <1>p DEF PlanBinds, FormatBinds
  <2>3. /\ card' \in CardSet /\ card'.table = card.table /\ card'.root = card.root /\ card'.p3 = "torn"
        /\ card'.uuid = card.uuid /\ card'.backup = card.backup
        /\ card'.sentinel = card.sentinel /\ card'.marker = card.marker /\ card'.fstab = card.fstab
        /\ card'.env = card.env /\ card'.formats = card.formats
    BY <1>3, <1>t DEF CardSet
  <2>4. CardHangs' /\ Truthful(journal)'
    BY <2>2, <2>3, <1>t, <1>e DEF CardHangs, Truthful
  <2> QED
    BY <2>3, <2>4, <1>e, <1>t DEF FbInd, FbTypes, PlanHangs
<1> QED
  BY <1>1, <1>2, <1>3 DEF PowerLoss

\* The journal that is stored once the postcondition of a plan was observed.
LEMMA FbApplied ==
  ASSUME FbInd, ApplyObservedSuccess
  PROVE  FbInd'
<1> USE DEF NoJournal, Refused, SOURCE_VERIFIED, BACKUP_VALIDATED, TABLE_COMMITTED, ROOT_CHECKED, ROOT_READY,
        SIGNATURE_VERIFIED, DATA_FORMATTED, EARLY_COMPLETE, VOLUME_MOUNTED, SENTINEL_DURABLE, COMPLETE, NoUuid
<1> DEFINE c == Reconciled(plan.j)
<1>0. /\ plan \in PlanSet /\ plan' = NoPlan /\ UNCHANGED <<card, evidence>> /\ c.phase # 0
      /\ PostconditionSeen(plan.next, c) /\ journal' = Applied(c)
  BY DEF ApplyObservedSuccess, Idle, FbInd, FbTypes
<1>t. /\ plan.next \in 2 .. 11 /\ plan.j \in Journal /\ card \in CardSet /\ journal \in Journal /\ FbTypes /\ CardHangs
      /\ card.uuid \in Uuids
  BY <1>0 DEF FbInd, FbTypes, PlanSet, CardSet
<1>p. /\ Truthful(plan.j) /\ plan.j.backup = journal.backup /\ plan.j.phase # 0 /\ PlanBinds(plan.next, plan.todo, plan.j)
  <2>1. plan # NoPlan
    BY DEF ApplyObservedSuccess, Idle
  <2> QED
    BY <2>1, <1>t DEF FbInd, PlanHangs, Journal
<1>1. c \in Journal /\ Truthful(c) /\ c.phase >= plan.j.phase /\ c.backup = journal.backup
  BY <1>0, <1>t, <1>p, ReconciledTruthful
<1>2. c.phase \in 0 .. 11 /\ plan.j.phase \in 0 .. 11 /\ c.backup \in BOOLEAN
  BY <1>1, <1>t DEF Journal
<1> HIDE DEF c
<1>3. /\ journal' \in Journal
      /\ journal'.phase = IF plan.next \in {2, 4, 6, 8} THEN plan.next ELSE c.phase
      /\ journal'.backup = IF plan.next = 2 THEN TRUE ELSE c.backup
      /\ journal'.uuid = IF plan.next = 7 THEN card.uuid ELSE c.uuid
  <2> DEFINE ph == IF plan.next \in {2, 4, 6, 8} THEN plan.next ELSE c.phase
             b == IF plan.next = 2 THEN TRUE ELSE c.backup
             u == IF plan.next = 7 THEN card.uuid ELSE c.uuid
  <2>1. ph \in 0 .. 11 /\ b \in BOOLEAN /\ u \in Uuids /\ 0 \in Nat
    <3>1. c.uuid \in Uuids
      BY <1>1 DEF Journal
    <3>2. ph \in 0 .. 11
      BY <1>2, <1>t
    <3>3. u \in Uuids
      BY <3>1, <1>t
    <3>4. b \in BOOLEAN
      BY <1>2, Zenon
    <3> QED
      BY <3>2, <3>3, <3>4
  <2>2. journal' = [c EXCEPT !.phase = ph, !.backup = b, !.uuid = u, !.failures = 0]
    BY <1>0 DEF Applied
  <2> HIDE DEF ph, b, u
  <2>3. journal' \in Journal /\ journal'.phase = ph /\ journal'.backup = b /\ journal'.uuid = u
    BY <2>1, <2>2, <1>1 DEF Journal
  <2> QED
    BY <2>3 DEF ph, b, u
<1>4. Truthful(journal)'
  <2> SUFFICES /\ journal'.phase >= 3 => card.table = "target"
               /\ journal'.phase >= 5 => card.root = "target"
               /\ IF journal'.phase >= 7 THEN card.p3 = "formatted" /\ journal'.uuid = card.uuid ELSE journal'.uuid = 0
               /\ journal'.phase >= 10 => card.sentinel = card.uuid
               /\ journal'.phase = 11 => card.marker = card.uuid
    BY <1>0 DEF Truthful
  <2>1. CASE plan.next = 2
    <3>1. card.table = "source"
      BY <2>1, <1>p DEF PlanBinds, BackupBinds
    <3> QED
      BY <2>1, <3>1, <1>1, <1>2, <1>3 DEF Truthful
  <2>2. CASE plan.next = 4
    <3>1. card.table = "target" /\ card.p3 # "formatted"
      BY <2>2, <1>p DEF PlanBinds, CheckBinds
    <3> QED
      BY <2>2, <3>1, <1>1, <1>2, <1>3 DEF Truthful
  <2>3. CASE plan.next = 6
    <3>1. card.table = "target" /\ card.p3 # "formatted" /\ plan.j.phase = 5
      BY <2>3, <1>p DEF PlanBinds, ScanBinds
    <3> QED
      BY <2>3, <3>1, <1>1, <1>2, <1>3, <1>p DEF Truthful
  <2>4. CASE plan.next = 8
    <3>1. plan.j.phase = 7
      BY <2>4, <1>p DEF PlanBinds
    <3> QED
      BY <2>4, <3>1, <1>1, <1>2, <1>3, <1>p DEF Truthful
  <2>5. CASE plan.next = 7
    <3>1. c.phase >= 7
      BY <2>5, <1>0 DEF PostconditionSeen
    <3> QED
      BY <2>5, <3>1, <1>1, <1>2, <1>3 DEF Truthful
  <2>6. CASE plan.next \notin {2, 4, 6, 7, 8}
    BY <2>6, <1>1, <1>2, <1>3 DEF Truthful
  <2> QED
    BY <2>1, <2>2, <2>3, <2>4, <2>5, <2>6
<1>5. CardHangs'
  <2>1. card.table = "target" => journal'.backup
    BY <1>1, <1>3, <1>t DEF CardHangs
  <2> QED
    BY <2>1, <1>0, <1>t DEF CardHangs
<1> QED
  BY <1>0, <1>3, <1>4, <1>5, <1>t DEF FbInd, FbTypes, PlanHangs

\* First boot may be interrupted anywhere: the data region is formatted at most once, the marker is the
\* last thing written, and the journal never claims what is not on the card (plan_next, execute_plan,
\* apply_observed_success), for every bound on retries, reboots and power losses.
THEOREM FirstBootMayBeInterrupted == FbSpec => []FirstBootInv
<1>1. FbInit => FbInd
  BY FbBegins
<1>2. FbInd /\ [FbNext]_fbVars => FbInd'
  <2> SUFFICES ASSUME FbInd, [FbNext]_fbVars PROVE FbInd'
    OBVIOUS
  <2>1. CASE UNCHANGED fbVars
    BY <2>1 DEF fbVars, FbInd, FbTypes, CardHangs, Truthful, PlanHangs, PlanBinds, BackupBinds, TableBinds, CheckBinds,
         ResizeBinds, ScanBinds, FormatBinds, MountBindsPlan, SentinelBinds, CompleteBinds
  <2>2. CASE FbNext
    BY <2>2, FbPlans, FbSteps, FbPowerLoss, FbApplied DEF FbNext
  <2> QED
    BY <2>1, <2>2
<1>3. FbInd => FirstBootInv
  <2> SUFFICES ASSUME FbInd PROVE FirstBootInv
    OBVIOUS
  <2> USE DEF NoUuid, TABLE_COMMITTED, ROOT_READY, DATA_FORMATTED, SENTINEL_DURABLE, COMPLETE
  <2>1. card \in CardSet /\ CardHangs /\ Truthful(journal)
    BY DEF FbInd, FbTypes
  <2>2. FormattedOnce
    BY <2>1 DEF CardHangs, FormattedOnce
  <2>3. JournalTruthful
    BY <2>1 DEF CardHangs, Truthful, JournalTruthful
  <2>4. MarkerMeansAll
    <3>1. ASSUME card.marker # 0 PROVE card.uuid = card.marker
      BY <2>1, <3>1 DEF CardHangs
    <3> QED
      BY <2>1, <3>1 DEF CardHangs, MarkerMeansAll
  <2> QED
    BY <2>2, <2>3, <2>4 DEF FirstBootInv
<1> QED
  BY <1>1, <1>2, <1>3, PTL DEF FbSpec

-----------------------------------------------------------------------------
(* CardPlan *)

\* What the constants are.
LEMMA CardNumbers ==
    /\ RootStart \in Nat /\ RootTarget \in Nat /\ MinimumCard \in Nat /\ MinimumData \in Nat
    /\ TrailingReserve \in Nat /\ Alignment \in Nat /\ Alignment > 0 /\ MinimumData > 0 /\ MaxStops \in Nat
    /\ \A n \in CardSizes : n \in Nat
    /\ \A n \in RootSizes : n \in Nat
    BY CardPlanConstants

\* Division with a remainder.
LEMMA Dividing ==
    ASSUME NEW n \in Int, NEW a \in Nat, a > 0, NEW q \in Int, NEW r \in Int, q = n \div a, r = n % a
    PROVE  r >= 0 /\ r < a /\ n = q * a + r
    OBVIOUS

\* A multiple leaves no remainder.
LEMMA Multiple ==
    ASSUME NEW k \in Int, NEW a \in Nat, a > 0
    PROVE  (k * a) % a = 0
    OBVIOUS

\* Rounding up ends on a boundary, not below its argument.
LEMMA AlignsUp ==
    ASSUME NEW n \in Int
    PROVE  AlignUp(n) \in Int /\ AlignUp(n) >= n /\ AlignUp(n) % Alignment = 0
<1> DEFINE q == (n + Alignment - 1) \div Alignment
           r == (n + Alignment - 1) % Alignment
<1>1. q \in Int /\ r \in Int /\ r >= 0 /\ r < Alignment /\ n + Alignment - 1 = q * Alignment + r
    BY CardNumbers, Dividing
<1>2. AlignUp(n) = q * Alignment
    BY DEF AlignUp
<1>3. q * Alignment \in Int /\ (q * Alignment) % Alignment = 0
    BY <1>1, CardNumbers, Multiple
<1> HIDE DEF q, r
<1> DEFINE m == q * Alignment
<1> HIDE DEF m
<1>4. n + Alignment - 1 = m + r
    BY <1>1 DEF m
<1>5. m \in Int
    BY <1>3 DEF m
<1> QED
    BY <1>1, <1>2, <1>3, <1>4, <1>5, CardNumbers DEF m

\* Rounding down ends on a boundary, not above its argument.
LEMMA AlignsDown ==
    ASSUME NEW n \in Int
    PROVE  AlignDown(n) \in Int /\ AlignDown(n) <= n /\ AlignDown(n) % Alignment = 0
<1> DEFINE q == n \div Alignment
           r == n % Alignment
<1>1. q \in Int /\ r \in Int /\ r >= 0 /\ r < Alignment /\ n = q * Alignment + r
    BY CardNumbers, Dividing
<1>2. AlignDown(n) = q * Alignment
    BY DEF AlignDown
<1>3. q * Alignment \in Int /\ (q * Alignment) % Alignment = 0
    BY <1>1, CardNumbers, Multiple
<1> HIDE DEF q, r
<1> DEFINE m == q * Alignment
<1> HIDE DEF m
<1>4. n = m + r
    BY <1>1 DEF m
<1>5. m \in Int
    BY <1>3 DEF m
<1> QED
    BY <1>1, <1>2, <1>3, <1>4, <1>5, CardNumbers DEF m

\* The bounds of the recording partition of a card, as the planner computes them.
First == AlignUp(RootStart + RootTarget)
Behind(total) == AlignDown(total - TrailingReserve)

\* The recording partition begins behind the root and ends before the reserve, on boundaries.
LEMMA Bounds ==
    ASSUME NEW total \in Nat
    PROVE  /\ First \in Int /\ First >= RootStart + RootTarget /\ First % Alignment = 0
           /\ Behind(total) \in Int /\ Behind(total) <= total - TrailingReserve /\ Behind(total) % Alignment = 0
<1>1. RootStart + RootTarget \in Int /\ total - TrailingReserve \in Int
    BY CardNumbers
<1> QED
    BY <1>1, AlignsUp, AlignsDown DEF First, Behind

\* The planner's layout in these two bounds.
LEMMA PlannerLayout ==
    ASSUME NEW total \in Nat
    PROVE  ComputeLayout(total) =
             IF Behind(total) - 1 < First \/ Behind(total) - First < MinimumData THEN NoLayout
             ELSE [root |-> RootTarget, p3 |-> [start |-> First, size |-> Behind(total) - First]]
<1>1. RootStart + RootTarget - 1 + 1 = RootStart + RootTarget
    BY CardNumbers
<1>2. total - TrailingReserve - 1 + 1 = total - TrailingReserve
    BY CardNumbers
<1>3. (RootStart + RootTarget - 1) - RootStart + 1 = RootTarget
    BY CardNumbers
<1>4. AlignUp(RootStart + RootTarget - 1 + 1) = First /\ AlignDown(total - TrailingReserve - 1 + 1) = Behind(total)
    BY <1>1, <1>2 DEF First, Behind
<1>5. Behind(total) - 1 - First + 1 = Behind(total) - First
    BY Bounds
<1>6. ComputeLayout(total) =
             IF Behind(total) - 1 < First \/ Behind(total) - First < MinimumData THEN NoLayout
             ELSE [root |-> (RootStart + RootTarget - 1) - RootStart + 1,
                   p3 |-> [start |-> First, size |-> Behind(total) - First]]
    BY <1>4, <1>5, Zenon DEF ComputeLayout
<1> QED
    BY <1>3, <1>6

\* The layouts of the image builder, the first boot and the rehearsal in the same bounds.
LEMMA OtherLayouts ==
    ASSUME NEW total \in Nat, NEW root
    PROVE  /\ CalculateTargetLayout(total, root) =
                IF \/ total < MinimumCard \/ RootStart + RootTarget - 1 < RootStart + root - 1
                   \/ Behind(total) - 1 < First \/ Behind(total) - First < MinimumData THEN NoLayout
                ELSE [root |-> RootTarget, p3 |-> [start |-> First, size |-> Behind(total) - First]]
           /\ ComputeGeometry(total) =
                IF total < MinimumCard \/ Behind(total) - First < MinimumData THEN NoLayout
                ELSE [root |-> RootTarget, p3 |-> [start |-> First, size |-> Behind(total) - First]]
           /\ GeometryFor(total) =
                IF Behind(total) - First < MinimumData THEN NoLayout
                ELSE [root |-> RootTarget, p3 |-> [start |-> First, size |-> Behind(total) - First]]
<1>1. RootStart + RootTarget - 1 + 1 = RootStart + RootTarget
    BY CardNumbers
<1>2. total - TrailingReserve - 1 + 1 = total - TrailingReserve
    BY CardNumbers
<1>4. /\ AlignUp(RootStart + RootTarget - 1 + 1) = First
      /\ AlignDown(total - TrailingReserve - 1 + 1) = Behind(total)
      /\ AlignUp(RootStart + RootTarget) = First
      /\ AlignDown(total - TrailingReserve) = Behind(total)
    BY <1>1, <1>2 DEF First, Behind
<1>5. Behind(total) - 1 - First + 1 = Behind(total) - First
    BY Bounds
<1>6. ComputeGeometry(total) =
                IF total < MinimumCard \/ Behind(total) - First < MinimumData THEN NoLayout
                ELSE [root |-> RootTarget, p3 |-> [start |-> First, size |-> Behind(total) - First]]
    BY <1>4, Zenon DEF ComputeGeometry
<1>7. GeometryFor(total) =
                IF Behind(total) - First < MinimumData THEN NoLayout
                ELSE [root |-> RootTarget, p3 |-> [start |-> First, size |-> Behind(total) - First]]
    BY <1>4, <1>5, Zenon DEF GeometryFor
<1>8. CalculateTargetLayout(total, root) =
                IF \/ total < MinimumCard \/ RootStart + RootTarget - 1 < RootStart + root - 1
                   \/ Behind(total) - 1 < First \/ Behind(total) - First < MinimumData THEN NoLayout
                ELSE [root |-> RootTarget, p3 |-> [start |-> First, size |-> Behind(total) - First]]
    BY <1>4, <1>5, Zenon DEF CalculateTargetLayout
<1> QED
    BY <1>6, <1>7, <1>8

\* An accepted layout has a partition of the smallest size at least.
LEMMA LayoutShape ==
    ASSUME NEW total \in Nat, ComputeLayout(total) # NoLayout
    PROVE  /\ ComputeLayout(total) = [root |-> RootTarget, p3 |-> [start |-> First, size |-> Behind(total) - First]]
           /\ First <= Behind(total) - 1 /\ Behind(total) - First >= MinimumData
           /\ ComputeLayout(total).p3 # NoPartition
           /\ ComputeLayout(total).p3.start + ComputeLayout(total).p3.size = Behind(total)
<1>1. /\ ~(Behind(total) - 1 < First \/ Behind(total) - First < MinimumData)
      /\ ComputeLayout(total) = [root |-> RootTarget, p3 |-> [start |-> First, size |-> Behind(total) - First]]
    BY PlannerLayout, Zenon
<1>2. First \in Int /\ Behind(total) \in Int
    BY Bounds
<1>3. First <= Behind(total) - 1 /\ Behind(total) - First >= MinimumData
    BY <1>1, <1>2, CardNumbers
<1>4. Behind(total) - First # 0 /\ First + (Behind(total) - First) = Behind(total)
    BY <1>2, <1>3
<1> QED
    BY <1>1, <1>3, <1>4 DEF NoPartition

\* The four computations agree wherever they accept a card.
LEMMA LayoutsAgree ==
    ASSUME NEW total \in Nat, NEW root \in Nat
    PROVE  LET built == CalculateTargetLayout(total, root)
               early == ComputeGeometry(total)
               planner == ComputeLayout(total)
           IN /\ built # NoLayout => built = early /\ built = planner /\ built = GeometryFor(total)
              /\ early # NoLayout => early = planner
              /\ planner # NoLayout =>
                   /\ planner.p3.start % Alignment = 0 /\ (planner.p3.start + planner.p3.size) % Alignment = 0
                   /\ planner.p3.start >= RootStart + RootTarget
                   /\ planner.p3.start + planner.p3.size <= total - TrailingReserve
<1> DEFINE built == CalculateTargetLayout(total, root)
           early == ComputeGeometry(total)
           planner == ComputeLayout(total)
           full == [root |-> RootTarget, p3 |-> [start |-> First, size |-> Behind(total) - First]]
<1> HIDE DEF full
<1>1. built # NoLayout => built = early /\ built = planner /\ built = GeometryFor(total)
    <2> SUFFICES ASSUME built # NoLayout PROVE built = early /\ built = planner /\ built = GeometryFor(total)
        OBVIOUS
    <2>1. /\ ~(total < MinimumCard) /\ ~(Behind(total) - 1 < First) /\ ~(Behind(total) - First < MinimumData)
          /\ built = full
        BY OtherLayouts, Zenon DEF full
    <2> QED
        BY <2>1, OtherLayouts, PlannerLayout, Zenon DEF full
<1>2. early # NoLayout => early = planner
    <2> SUFFICES ASSUME early # NoLayout PROVE early = planner
        OBVIOUS
    <2>1. ~(Behind(total) - First < MinimumData) /\ early = full
        BY OtherLayouts, Zenon DEF full
    <2>2. ~(Behind(total) - 1 < First)
        BY <2>1, Bounds, CardNumbers
    <2> QED
        BY <2>1, <2>2, PlannerLayout, Zenon DEF full
<1>3. ASSUME planner # NoLayout
      PROVE  /\ planner.p3.start % Alignment = 0 /\ (planner.p3.start + planner.p3.size) % Alignment = 0
             /\ planner.p3.start >= RootStart + RootTarget
             /\ planner.p3.start + planner.p3.size <= total - TrailingReserve
    <2>1. planner.p3.start = First /\ planner.p3.start + planner.p3.size = Behind(total)
        BY <1>3, LayoutShape
    <2> QED
        BY <2>1, Bounds
<1> QED
    BY <1>1, <1>2, <1>3

\* Cards as the invariant types them.
Extents == [start : Int, size : Int]
Cards == [total : CardSizes, root : Nat, p3 : Extents, fs : {"none", "foreign", "exfat"},
          uuid : Nat, sentinel : Nat, marker : Nat, made : Nat, mounted : BOOLEAN]

\* A card for which the planner makes a plan.
Fitting(total) == total >= MinimumCard /\ RootStart % Alignment = 0 /\ ComputeLayout(total) # NoLayout

\* The third partition is the computed one; a file system is made in it once; the marker comes last.
CardSound ==
    /\ target \in Cards
    /\ target.made <= 1
    /\ target.p3 = NoPartition => target.made = 0 /\ target.marker = 0
    /\ target.p3 # NoPartition =>
          Fitting(target.total) /\ [root |-> target.root, p3 |-> target.p3] = ComputeLayout(target.total)
    /\ target.marker # 0 =>
          target.made = 1 /\ target.fs = "exfat" /\ target.marker = target.uuid /\ target.sentinel = target.uuid

\* The plan for o is carried out up to its action k.
Doing(o, k) ==
    /\ todo = SubSeq(SourceActions(o), k, 14)
    /\ o \in Cards /\ Fitting(o.total) /\ o.p3 = NoPartition
    /\ k >= 2 => target.total = o.total
    /\ k \in 2 .. 3 => target.p3 = NoPartition
    /\ k >= 4 => target.p3 # NoPartition
    /\ k \in 2 .. 8 => target.made = 0
    /\ k >= 9 => target.made = 1 /\ target.fs = "exfat"
    /\ k \in 2 .. 13 => target.marker = 0
    /\ k >= 13 => target.sentinel = target.uuid

\* The inductive invariant: a sound card, probes of cards, and a plan that is some fitting
\* card's with a beginning carried out.
PlanInd ==
    /\ CardSound
    /\ probe \subseteq Cards
    /\ stops \in Nat
    /\ todo = <<>> \/ \E o \in Cards, k \in 1 .. 14 : Doing(o, k)

\* Which action stands where in a plan.
LEMMA PlannedActions ==
    ASSUME NEW o, NEW k \in 1 .. 14
    PROVE  /\ SourceActions(o) \in Seq({SourceActions(o)[i] : i \in 1 .. 14}) /\ Len(SourceActions(o)) = 14
           /\ SourceActions(o)[k].kind = "backup_partition_table" <=> k = 1
           /\ SourceActions(o)[k].kind = "write_partition_table" <=> k = 3
           /\ SourceActions(o)[k].kind = "format_new_recording_filesystem" <=> k = 8
           /\ SourceActions(o)[k].kind = "configure_uuid_mount" <=> k = 10
           /\ SourceActions(o)[k].kind = "create_volume_sentinel" <=> k = 12
           /\ SourceActions(o)[k].kind = "write_state_marker" <=> k = 13
           /\ SourceActions(o)[1].arg = Identity(o)
           /\ SourceActions(o)[3].arg = ComputeLayout(o.total)
<1>1. SourceActions(o) \in Seq({SourceActions(o)[i] : i \in 1 .. 14}) /\ Len(SourceActions(o)) = 14
    BY DEF SourceActions
<1>2. SourceActions(o)[1].arg = Identity(o) /\ SourceActions(o)[3].arg = ComputeLayout(o.total)
    BY DEF SourceActions, SfdiskInput
<1>3. /\ SourceActions(o)[1].kind = "backup_partition_table"
      /\ SourceActions(o)[2].kind = "validate_partition_table_backup"
      /\ SourceActions(o)[3].kind = "write_partition_table"
      /\ SourceActions(o)[4].kind = "verify_written_partition_table"
      /\ SourceActions(o)[5].kind = "reread_partition_table"
      /\ SourceActions(o)[6].kind = "check_root_filesystem"
      /\ SourceActions(o)[7].kind = "grow_root_filesystem"
      /\ SourceActions(o)[8].kind = "format_new_recording_filesystem"
      /\ SourceActions(o)[9].kind = "capture_recording_uuid"
      /\ SourceActions(o)[10].kind = "configure_uuid_mount"
      /\ SourceActions(o)[11].kind = "create_volume_layout"
      /\ SourceActions(o)[12].kind = "create_volume_sentinel"
      /\ SourceActions(o)[13].kind = "write_state_marker"
      /\ SourceActions(o)[14].kind = "controlled_reboot"
    BY DEF SourceActions, Do
<1>4. \/ k = 1 \/ k = 2 \/ k = 3 \/ k = 4 \/ k = 5 \/ k = 6 \/ k = 7 \/ k = 8 \/ k = 9 \/ k = 10
      \/ k = 11 \/ k = 12 \/ k = 13 \/ k = 14
    OBVIOUS
<1> QED
    BY <1>1, <1>2, <1>3, <1>4

\* The first action of what is left of a plan, and what is left behind it.
LEMMA PlanSteps ==
    ASSUME NEW o, NEW k \in 1 .. 14, todo = SubSeq(SourceActions(o), k, 14)
    PROVE  /\ todo # <<>> /\ Head(todo) = SourceActions(o)[k]
           /\ k < 14 => Tail(todo) = SubSeq(SourceActions(o), k + 1, 14)
           /\ k = 14 => Tail(todo) = <<>>
<1>1. SourceActions(o) \in Seq({SourceActions(o)[i] : i \in 1 .. 14}) /\ Len(SourceActions(o)) = 14
    BY PlannedActions
<1> DEFINE a == SourceActions(o)
           S == {SourceActions(o)[i] : i \in 1 .. 14}
<1> HIDE DEF a, S
<1>2. a \in Seq(S) /\ Len(a) = 14 /\ todo = SubSeq(a, k, 14)
    BY <1>1 DEF a, S
<1>3. Head(todo) = a[k] /\ Tail(todo) = SubSeq(a, k + 1, 14)
    BY <1>2, HeadTailOfSubSeq
<1>4. Len(todo) = 14 - k + 1 /\ Len(<<>>) = 0
    <2>1. \A i \in k .. 14 : a[i] \in S
        <3>1. \A i \in k .. 14 : i \in 1 .. 14
            OBVIOUS
        <3> QED
            BY <3>1, Zenon DEF a, S
    <2>2. Len(SubSeq(a, k, 14)) = IF k <= 14 THEN 14 - k + 1 ELSE 0
        <3>1. k \in Int /\ 14 \in Int
            OBVIOUS
        <3> QED
            BY <2>1, <3>1, SubSeqProperties
    <2> QED
        BY <1>2, <2>2, EmptySeq
<1>5. todo # <<>>
    <2>1. todo = <<>> => Len(todo) = 0
        BY <1>4
    <2>2. Len(todo) # 0
        BY <1>4
    <2> QED
        BY <2>1, <2>2
<1>6. k = 14 => SubSeq(a, k + 1, 14) = <<>>
    BY SubSeqEmpty
<1>7. a = SourceActions(o)
    BY DEF a
<1> QED
    BY <1>3, <1>5, <1>6, <1>7

\* The card c with a new file system, the u-th, d.
Formats(c, u, m, d) ==
    /\ d \in Cards /\ d.total = c.total /\ d.root = c.root /\ d.p3 = c.p3 /\ d.fs = "exfat"
    /\ d.uuid = u /\ d.made = m /\ d.sentinel = 0 /\ d.marker = c.marker

\* Making a file system keeps the card a card and changes four fields.
LEMMA Formatted ==
    ASSUME NEW c \in Cards, NEW u \in Nat, NEW m \in Nat, NEW d,
           d = [c EXCEPT !.fs = "exfat", !.uuid = u, !.made = m, !.sentinel = 0]
    PROVE  Formats(c, u, m, d)
    BY DEF Cards, Formats

\* What the action k of the plan for o leaves of the card c, field by field.
Leaves(o, k, c, d) ==
    /\ d \in Cards /\ d.total = c.total
    /\ d.root = IF k = 3 THEN RootTarget ELSE c.root
    /\ d.p3 = IF k = 3 THEN ComputeLayout(o.total).p3 ELSE c.p3
    /\ d.fs = IF k = 8 THEN "exfat" ELSE c.fs
    /\ d.uuid = IF k = 8 THEN c.uuid + 1 ELSE c.uuid
    /\ d.made = IF k = 8 THEN c.made + 1 ELSE c.made
    /\ d.sentinel = IF k = 8 THEN 0 ELSE IF k = 12 THEN c.uuid ELSE c.sentinel
    /\ d.marker = IF k = 13 THEN c.uuid ELSE c.marker

\* The action k of a plan does to a card what Leaves says.
LEMMA PlannedCard ==
    ASSUME NEW o \in Cards, NEW k \in 1 .. 14, NEW c \in Cards, NEW d,
           Fitting(o.total), d = Effect(SourceActions(o)[k], c)
    PROVE  Leaves(o, k, c, d)
<1> DEFINE r == ComputeLayout(o.total).root
           p == ComputeLayout(o.total).p3
<1>0. o.total \in Nat /\ \A x \in Nat : x + 1 \in Nat
    BY CardNumbers DEF Cards
<1>1. r = RootTarget /\ p = [start |-> First, size |-> Behind(o.total) - First]
    BY <1>0, LayoutShape DEF Fitting
<1>2. First \in Int /\ Behind(o.total) - First \in Int /\ RootTarget \in Nat
    BY <1>0, Bounds, CardNumbers
<1>3. p \in Extents
    BY <1>1, <1>2 DEF Extents
<1> DEFINE a == SourceActions(o)[k]
<1>a. /\ a.kind = "write_partition_table" <=> k = 3
      /\ a.kind = "format_new_recording_filesystem" <=> k = 8
      /\ a.kind = "configure_uuid_mount" <=> k = 10
      /\ a.kind = "create_volume_sentinel" <=> k = 12
      /\ a.kind = "write_state_marker" <=> k = 13
      /\ k = 3 => a.arg = ComputeLayout(o.total)
    BY PlannedActions
<1>b. k = 3 => a.arg.root = r /\ a.arg.p3 = p
    BY <1>a
<1>c. d = Effect(a, c)
    OBVIOUS
<1> HIDE DEF a
<1> HIDE DEF r, p
<1>5. CASE k = 3
    <2>1. d = [c EXCEPT !.root = RootTarget, !.p3 = p]
        BY <1>1, <1>a, <1>b, <1>c, <1>5 DEF Effect
    <2>2. /\ d \in Cards /\ d.total = c.total /\ d.root = RootTarget /\ d.p3 = p /\ d.fs = c.fs /\ d.uuid = c.uuid
          /\ d.made = c.made /\ d.sentinel = c.sentinel /\ d.marker = c.marker
        BY <1>2, <1>3, <2>1 DEF Cards
    <2> QED
        BY <1>5, <2>2 DEF p, Leaves
<1>6. CASE k = 8
    <2>1. d = [c EXCEPT !.fs = "exfat", !.uuid = c.uuid + 1, !.made = c.made + 1, !.sentinel = 0]
        BY <1>a, <1>c, <1>6 DEF Effect
    <2>2. c.uuid + 1 \in Nat /\ c.made + 1 \in Nat
        BY DEF Cards
    <2> DEFINE u == c.uuid + 1
               m == c.made + 1
    <2> HIDE DEF u, m
    <2>3. d = [c EXCEPT !.fs = "exfat", !.uuid = u, !.made = m, !.sentinel = 0] /\ u \in Nat /\ m \in Nat
        BY <2>1, <2>2 DEF u, m
    <2>4. Formats(c, u, m, d)
        BY <2>3, Formatted, Zenon
    <2> QED
        BY <1>6, <2>4 DEF u, m, Leaves, Formats
<1>7. CASE k = 10
    <2>1. d = [c EXCEPT !.mounted = TRUE]
        BY <1>a, <1>c, <1>7 DEF Effect
    <2>2. /\ d \in Cards /\ d.total = c.total /\ d.root = c.root /\ d.p3 = c.p3 /\ d.fs = c.fs /\ d.uuid = c.uuid
          /\ d.made = c.made /\ d.sentinel = c.sentinel /\ d.marker = c.marker
        BY <2>1 DEF Cards
    <2> QED
        BY <1>7, <2>2 DEF Leaves
<1>8. CASE k = 12
    <2>1. d = [c EXCEPT !.sentinel = c.uuid]
        BY <1>a, <1>c, <1>8 DEF Effect
    <2>2. /\ d \in Cards /\ d.total = c.total /\ d.root = c.root /\ d.p3 = c.p3 /\ d.fs = c.fs /\ d.uuid = c.uuid
          /\ d.made = c.made /\ d.sentinel = c.uuid /\ d.marker = c.marker
        BY <2>1 DEF Cards
    <2> QED
        BY <1>8, <2>2 DEF Leaves
<1>9. CASE k = 13
    <2>1. d = [c EXCEPT !.marker = c.uuid]
        BY <1>a, <1>c, <1>9 DEF Effect
    <2>2. /\ d \in Cards /\ d.total = c.total /\ d.root = c.root /\ d.p3 = c.p3 /\ d.fs = c.fs /\ d.uuid = c.uuid
          /\ d.made = c.made /\ d.sentinel = c.sentinel /\ d.marker = c.uuid
        BY <2>1 DEF Cards
    <2> QED
        BY <1>9, <2>2 DEF Leaves
<1>10. CASE k \notin {3, 8, 10, 12, 13}
    <2>1. d = c
        BY <1>a, <1>c, <1>10 DEF Effect
    <2> QED
        BY <1>10, <2>1 DEF Leaves
<1> QED
    BY <1>5, <1>6, <1>7, <1>8, <1>9, <1>10

\* Carrying out one action keeps the invariant.
LEMMA CarriesOn ==
    ASSUME PlanInd, CarryOut PROVE PlanInd'
<1>1. PICK o \in Cards, k \in 1 .. 14 : Doing(o, k)
    BY DEF PlanInd, CarryOut
<1>2. /\ Head(todo) = SourceActions(o)[k]
      /\ k < 14 => todo' = SubSeq(SourceActions(o), k + 1, 14)
      /\ k = 14 => todo' = <<>>
    BY <1>1, PlanSteps DEF Doing, CarryOut
<1>3. target \in Cards /\ Fitting(o.total) /\ target' = Effect(SourceActions(o)[k], target)
    BY <1>1, <1>2 DEF Doing, CarryOut, PlanInd, CardSound
<1> DEFINE d == target'
<1>4. /\ d \in Cards /\ d.total = target.total
      /\ d.root = IF k = 3 THEN RootTarget ELSE target.root
      /\ d.p3 = IF k = 3 THEN ComputeLayout(o.total).p3 ELSE target.p3
      /\ d.fs = IF k = 8 THEN "exfat" ELSE target.fs
      /\ d.uuid = IF k = 8 THEN target.uuid + 1 ELSE target.uuid
      /\ d.made = IF k = 8 THEN target.made + 1 ELSE target.made
      /\ d.sentinel = IF k = 8 THEN 0 ELSE IF k = 12 THEN target.uuid ELSE target.sentinel
      /\ d.marker = IF k = 13 THEN target.uuid ELSE target.marker
    <2> HIDE DEF d
    <2>1. d = Effect(SourceActions(o)[k], target)
        BY <1>3 DEF d
    <2>2. Leaves(o, k, target, d)
        BY <1>1, <1>3, <2>1, PlannedCard, Zenon
    <2> QED
        BY <2>2 DEF Leaves
<1>5. k = 1 => target.total = o.total /\ target.p3 = NoPartition
    <2>1. k = 1 => Identity(target) = Identity(o)
        <3>1. /\ SourceActions(o)[k].kind = "backup_partition_table" <=> k = 1
              /\ SourceActions(o)[1].arg = Identity(o)
            BY PlannedActions
        <3>2. k = 1 => Head(todo).kind = "backup_partition_table" /\ Head(todo).arg = Identity(o)
            BY <1>2, <3>1
        <3> QED
            BY <3>2 DEF CarryOut
    <2>2. Identity(target) = Identity(o) => target.total = o.total /\ target.p3 = o.p3
        BY DEF Identity
    <2> QED
        BY <1>1, <2>1, <2>2 DEF Doing
<1>6. /\ ComputeLayout(o.total).p3 # NoPartition
      /\ ComputeLayout(o.total) = [root |-> RootTarget, p3 |-> ComputeLayout(o.total).p3]
    BY <1>3, LayoutShape, CardNumbers DEF Fitting, Cards
<1>7. target.uuid \in Nat /\ target.made \in Nat /\ target.marker \in Nat /\ target'.made \in Nat
    BY <1>3, <1>4 DEF Cards
<1>8. CardSound'
    <2>1. target'.made <= 1
        BY <1>1, <1>4, <1>7 DEF Doing, PlanInd, CardSound
    <2>2. target'.p3 = NoPartition => target'.made = 0 /\ target'.marker = 0
        BY <1>1, <1>4, <1>6 DEF Doing, PlanInd, CardSound
    <2>3. target'.p3 # NoPartition =>
             Fitting(target'.total) /\ [root |-> target'.root, p3 |-> target'.p3] = ComputeLayout(target'.total)
        <3>1. CASE k = 3
            BY <1>1, <1>3, <1>4, <1>6, <3>1 DEF Doing
        <3>2. CASE k # 3
            BY <1>4, <3>2 DEF PlanInd, CardSound
        <3> QED
            BY <3>1, <3>2
    <2>4. target'.marker # 0 =>
             target'.made = 1 /\ target'.fs = "exfat" /\ target'.marker = target'.uuid /\ target'.sentinel = target'.uuid
        BY <1>1, <1>4, <1>5 DEF Doing, PlanInd, CardSound
    <2> QED
        BY <1>4, <2>1, <2>2, <2>3, <2>4 DEF CardSound
<1>9. todo' = <<>> \/ \E p \in Cards, n \in 1 .. 14 : Doing(p, n)'
    <2>1. CASE k = 14
        BY <1>2, <2>1
    <2>2. CASE k < 14
        <3>1. k + 1 \in 1 .. 14
            BY <2>2
        <3>2. Doing(o, k + 1)'
            <4>1. d.total = o.total
                BY <1>1, <1>4, <1>5 DEF Doing
            <4>2. k + 1 \in 2 .. 3 => d.p3 = NoPartition
                BY <1>1, <1>4, <1>5 DEF Doing
            <4>3. k + 1 >= 4 => d.p3 # NoPartition
                BY <1>1, <1>4, <1>6 DEF Doing
            <4>4. k + 1 \in 2 .. 8 => d.made = 0
                BY <1>1, <1>4, <1>5 DEF Doing, PlanInd, CardSound
            <4>5. k + 1 >= 9 => d.made = 1 /\ d.fs = "exfat"
                BY <1>1, <1>4 DEF Doing
            <4>6. k + 1 \in 2 .. 13 => d.marker = 0
                BY <1>1, <1>4, <1>5 DEF Doing, PlanInd, CardSound
            <4>7. k + 1 >= 13 => d.sentinel = d.uuid
                BY <1>1, <1>4 DEF Doing
            <4>8. todo' = SubSeq(SourceActions(o), k + 1, 14) /\ Fitting(o.total) /\ o.p3 = NoPartition
                BY <1>1, <1>2, <2>2 DEF Doing
            <4> QED
                BY <4>1, <4>2, <4>3, <4>4, <4>5, <4>6, <4>7, <4>8 DEF Doing
        <3> QED
            BY <3>1, <3>2
    <2> QED
        BY <2>1, <2>2
<1> QED
    BY <1>8, <1>9 DEF PlanInd, CarryOut

\* Reading a card, with its markers or without, gives a card.
LEMMA ObservedCard ==
    ASSUME NEW c \in Cards, NEW m \in BOOLEAN, NEW d,
           d = [c EXCEPT !.marker = IF m THEN @ ELSE 0, !.sentinel = IF m THEN @ ELSE 0]
    PROVE  d \in Cards /\ d.p3 = c.p3 /\ d.total = c.total
    BY DEF Cards

\* An observation is a card.
LEMMA Probes ==
    ASSUME PlanInd, NEW m \in BOOLEAN PROVE Observation(m) \in Cards
    BY ObservedCard DEF PlanInd, CardSound, Observation

\* The collector and its errors keep the invariant.
LEMMA Collects ==
    ASSUME PlanInd, CollectStorageObservation \/ CollectorError PROVE PlanInd'
<1>1. probe' \subseteq Cards
    <2>1. Observation(TRUE) \in Cards /\ Observation(FALSE) \in Cards
        BY Probes
    <2>2. probe' \in {{Observation(TRUE)}, {Observation(FALSE)}, {}}
        BY DEF CollectStorageObservation, CollectorError, NoProbe
    <2> QED
        BY <2>1, <2>2
<1>2. UNCHANGED <<target, todo, stops>>
    BY DEF CollectStorageObservation, CollectorError
<1> QED
    BY <1>1, <1>2 DEF PlanInd, CardSound, Doing

\* Authoring a plan keeps the invariant: it begins at its first action, for a fitting card.
LEMMA Authors ==
    ASSUME PlanInd, AuthorProvisioningPlan PROVE PlanInd'
<1>1. UNCHANGED <<target, probe, stops>>
    BY DEF AuthorProvisioningPlan
<1>2. PICK seen \in probe \union {Observation(TRUE)} :
         /\ VerifyLayout(seen) # "REFUSED"
         /\ todo' = IF VerifyLayout(seen) = "ALREADY_PROVISIONED" THEN <<>> ELSE SourceActions(seen)
    BY DEF AuthorProvisioningPlan
<1>3. seen \in Cards
    BY <1>2, Probes DEF PlanInd
<1>4. CASE todo' # <<>>
    <2>1. seen.p3 = NoPartition /\ Fitting(seen.total) /\ todo' = SourceActions(seen)
        BY <1>2, <1>4 DEF VerifyLayout, StructurallySound, Fitting
    <2>2. todo' = SubSeq(SourceActions(seen), 1, 14)
        <3>1. /\ SourceActions(seen) \in Seq({SourceActions(seen)[i] : i \in 1 .. 14})
              /\ Len(SourceActions(seen)) = 14
            BY PlannedActions
        <3> QED
            BY <2>1, <3>1, SubSeqFull
    <2>3. Doing(seen, 1)'
        BY <1>3, <2>1, <2>2 DEF Doing
    <2> QED
        BY <1>1, <1>3, <2>3 DEF PlanInd, CardSound
<1>5. CASE todo' = <<>>
    BY <1>1, <1>5 DEF PlanInd, CardSound
<1> QED
    BY <1>4, <1>5

\* Taking a card out changes nothing else of it.
LEMMA Unmounted ==
    ASSUME NEW c \in Cards, NEW d, d = [c EXCEPT !.mounted = FALSE]
    PROVE  /\ d \in Cards /\ d.total = c.total /\ d.root = c.root /\ d.p3 = c.p3 /\ d.fs = c.fs /\ d.uuid = c.uuid
           /\ d.made = c.made /\ d.sentinel = c.sentinel /\ d.marker = c.marker
    BY DEF Cards

\* Leaving a plan keeps the invariant.
LEMMA Stops ==
    ASSUME PlanInd, StopHere PROVE PlanInd'
<1> DEFINE d == target'
<1>1. /\ d \in Cards /\ d.total = target.total /\ d.root = target.root /\ d.p3 = target.p3 /\ d.fs = target.fs
      /\ d.uuid = target.uuid /\ d.made = target.made /\ d.sentinel = target.sentinel /\ d.marker = target.marker
    <2>1. target \in Cards /\ d = [target EXCEPT !.mounted = FALSE]
        BY DEF PlanInd, CardSound, StopHere
    <2> QED
        BY <2>1, Unmounted
<1>2. CardSound'
    BY <1>1 DEF PlanInd, CardSound
<1> QED
    BY <1>2 DEF PlanInd, StopHere

\* A flashed card satisfies the invariant.
LEMMA PlanBegins ==
    ASSUME CpInit PROVE PlanInd
<1>1. PICK n \in CardSizes, r \in RootSizes, v \in {<<"none", 0>>, <<"foreign", 0>>, <<"exfat", 1>>} :
         target = [total |-> n, root |-> r, p3 |-> NoPartition, fs |-> v[1], uuid |-> v[2],
                   sentinel |-> v[2], marker |-> 0, made |-> 0, mounted |-> FALSE]
    BY DEF CpInit
<1>2. n \in Nat /\ r \in Nat /\ v[1] \in {"none", "foreign", "exfat"} /\ v[2] \in Nat /\ NoPartition \in Extents
    BY CardNumbers DEF NoPartition, Extents
<1>3. target \in Cards /\ target.made = 0 /\ target.marker = 0 /\ target.p3 = NoPartition
    BY <1>1, <1>2 DEF Cards
<1> QED
    BY <1>3 DEF CpInit, PlanInd, CardSound, NoProbe

\* Every step of the planner and its operator keeps the invariant.
LEMMA PlannerSteps ==
    PlanInd /\ [CpNext]_cpVars => PlanInd'
<1> SUFFICES ASSUME PlanInd, [CpNext]_cpVars PROVE PlanInd'
    OBVIOUS
<1>1. CASE UNCHANGED cpVars
    BY <1>1 DEF cpVars, PlanInd, CardSound, Doing
<1> QED
    BY <1>1, Collects, Authors, CarriesOn, Stops DEF CpNext

\* A card with its marker, out of the machine, is verified as provisioned.
LEMMA MarkedCardIsDone ==
    ASSUME CardSound, target.marker # 0, ~target.mounted
    PROVE  VerifyLayout(target) = "ALREADY_PROVISIONED"
<1>1. /\ target \in Cards /\ target.p3 # NoPartition /\ Fitting(target.total)
      /\ [root |-> target.root, p3 |-> target.p3] = ComputeLayout(target.total)
      /\ target.fs = "exfat" /\ target.marker = target.uuid /\ target.sentinel = target.uuid
    BY DEF CardSound
<1>2. target.total \in Nat
    BY <1>1, CardNumbers DEF Cards
<1>3. /\ target.root = RootTarget /\ target.p3.start = First
      /\ First <= Behind(target.total) - 1
    <2>1. /\ ComputeLayout(target.total) = [root |-> RootTarget, p3 |-> [start |-> First, size |-> Behind(target.total) - First]]
          /\ First <= Behind(target.total) - 1
        BY <1>1, <1>2, LayoutShape DEF Fitting
    <2> QED
        BY <1>1, <2>1
<1>4. RootStart + target.root <= target.total /\ RootStart + target.root <= target.p3.start /\ target.root <= RootTarget
    BY <1>2, <1>3, Bounds, CardNumbers
<1>5. StructurallySound(target)
    BY <1>1, <1>4 DEF StructurallySound, Fitting
<1>6. ProvisionedExactly(target)
    BY <1>1 DEF ProvisionedExactly
<1> QED
    BY <1>1, <1>5, <1>6 DEF VerifyLayout, Fitting

\* CardPlanInv for every card, table of sizes and number of abandoned plans: a file
\* system is made once and in the computed bounds, a carried-out plan is recognized by
\* verify_layout, and the four computations of the geometry agree.
THEOREM PlansEndInTheirVerdict ==
    CpSpec => []CardPlanInv
<1>1. CpInit => PlanInd
    BY PlanBegins
<1>2. PlanInd => CardPlanInv
    <2> SUFFICES ASSUME PlanInd PROVE CardPlanInv
        OBVIOUS
    <2>1. target \in Cards /\ target.total \in Nat /\ target.root \in Nat
        BY CardNumbers DEF PlanInd, CardSound, Cards
    <2>2. PlansFormatOnce
        BY <2>1 DEF PlanInd, CardSound, PlansFormatOnce
    <2>3. PlanReachesItsVerdict
        BY MarkedCardIsDone DEF PlanInd, PlanReachesItsVerdict
    <2>4. GeometriesAgree
        BY <2>1, LayoutsAgree DEF GeometriesAgree
    <2> QED
        BY <2>2, <2>3, <2>4 DEF CardPlanInv
<1> QED
    BY <1>1, <1>2, PlannerSteps, PTL DEF CpSpec

-----------------------------------------------------------------------------
(* Initramfs *)

\* The stock members stand where they stood, all but the hook unchanged.
Kept ==
  /\ Len(stock) <= Len(members)
  /\ \A i \in 1 .. Len(stock) : stock[i].name # "hook" => members[i] = stock[i]

\* Behind the stock members every member is a file of its own.
Fresh ==
  \A i \in Len(stock) + 1 .. Len(members), j \in 1 .. Len(members) :
     i # j => <<members[i].dev, members[i].inode>> # <<members[j].dev, members[j].inode>>

\* The inductive invariant: the archive is the stock until the first change, then keeps it.
IrInd ==
  /\ stock \in Seq(NewcEntry) /\ members \in Seq(NewcEntry)
  /\ step = "stock" => members = stock
  /\ step \notin {"input", "refused"} => Kept /\ Fresh

\* A set of numbers that is not empty has a lowest one.
LEMMA LowestNatural ==
  ASSUME NEW T, T \subseteq Nat, T # {}
  PROVE  Min(T) \in T
<1>1. \E x \in T : \A y \in T : ~(<<y, x>> \in OpToRel(<, Nat))
  BY NatLessThanWellFounded, WFMin
<1>2. \A x, y \in Nat : y < x => <<y, x>> \in OpToRel(<, Nat)
  BY DEF OpToRel
<1>3. \E x \in T : \A y \in T : x =< y
  <2>1. PICK x \in T : \A y \in T : ~(<<y, x>> \in OpToRel(<, Nat))
    BY <1>1
  <2>2. \A y \in T : ~(y < x)
    BY <1>2, <2>1, Zenon
  <2>3. \A y \in T : x =< y
    BY <2>2
  <2> QED
    BY <2>3
<1> QED
  BY <1>3 DEF Min

\* The selected inode is positive and no member of device 0:0 has it.
LEMMA UnusedInode ==
  ASSUME NEW a \in Seq(NewcEntry)
  PROVE  /\ SelectUnusedInode(a) \in Nat /\ SelectUnusedInode(a) > 0
         /\ \A j \in 1 .. Len(a) : a[j].dev = 0 => a[j].inode # SelectUnusedInode(a)
<1> DEFINE T == {j \in DOMAIN a : a[j].dev = 0 /\ a[j].inode > 0}
           used == {a[i].inode : i \in T}
           n == Cardinality(used)
           free == (1 .. n + 1) \ used
           f == [i \in T |-> a[i].inode]
<1>1. IsFiniteSet(T)
  <2>1. T \subseteq 1 .. Len(a) /\ Len(a) \in Int /\ 1 \in Int
    OBVIOUS
  <2> QED
    BY <2>1, FS_Interval, FS_Subset
<1>2. f \in Surjection(T, used)
  BY DEF Surjection
<1>3. IsFiniteSet(used) /\ n \in Nat
  BY <1>1, <1>2, FS_Surjection, FS_CardinalityType
<1>4. free # {}
  <2> HIDE DEF used
  <2> SUFFICES ASSUME free = {} PROVE FALSE
    OBVIOUS
  <2>1. (1 .. n + 1) \subseteq used
    OBVIOUS
  <2>2. Cardinality(1 .. n + 1) = n + 1
    BY <1>3, FS_Interval
  <2>3. Cardinality(1 .. n + 1) <= n
    BY <1>3, <2>1, FS_Subset
  <2> QED
    BY <1>3, <2>2, <2>3
<1>5. free \subseteq Nat
  OBVIOUS
<1>6. Min(free) \in free
  BY <1>4, <1>5, LowestNatural
<1>7. SelectUnusedInode(a) = Min(free)
  BY DEF SelectUnusedInode
<1>8. \A j \in 1 .. Len(a) : a[j].dev = 0 /\ a[j].inode > 0 => a[j].inode \in used
  OBVIOUS
<1>9. SelectUnusedInode(a) \in 1 .. n + 1 /\ SelectUnusedInode(a) \notin used
  BY <1>6, <1>7
<1> HIDE DEF used, n
<1>10. \A j \in 1 .. Len(a) : a[j].inode \in Nat
  <2>1. \A j \in 1 .. Len(a) : a[j] \in NewcEntry
    OBVIOUS
  <2> QED
    BY <2>1 DEF NewcEntry
<1> QED
  BY <1>3, <1>8, <1>9, <1>10

\* Appending a member keeps the invariant: it is a file of its own.
LEMMA AddsNewFile ==
  ASSUME IrInd, step \notin {"input", "refused"}, NEW name \in Names, NEW kind \in {"file", "dir"},
         members' = Add(members, name, kind), stock' = stock, step' \notin {"stock"}
  PROVE  IrInd'
<1> DEFINE u == SelectUnusedInode(members)
           x == [name |-> name, dev |-> 0, inode |-> u, kind |-> kind, data |-> "custom"]
<1>1. stock \in Seq(NewcEntry) /\ members \in Seq(NewcEntry) /\ Kept /\ Fresh
  BY DEF IrInd
<1>2. /\ u \in Nat /\ u > 0
      /\ \A j \in 1 .. Len(members) : members[j].dev = 0 => members[j].inode # u
  BY <1>1, UnusedInode
<1>3. members' = Append(members, x)
  BY DEF Add
<1> HIDE DEF u
<1>4. x \in NewcEntry /\ x.dev = 0 /\ x.inode = u
  BY <1>2 DEF NewcEntry
<1> HIDE DEF x
<1>5. /\ members' \in Seq(NewcEntry) /\ Len(members') = Len(members) + 1
      /\ \A i \in 1 .. Len(members) : members'[i] = members[i]
      /\ members'[Len(members) + 1] = x
  BY <1>1, <1>3, <1>4, AppendProperties
<1>6. Len(members) \in Nat /\ Len(stock) \in Nat
  BY <1>1, LenProperties
<1>7. Kept'
  BY <1>1, <1>5, <1>6 DEF Kept
<1>8. Fresh'
  <2> DEFINE m == Len(members)
             q == members'
  <2> SUFFICES ASSUME NEW i \in Len(stock) + 1 .. Len(members'), NEW j \in 1 .. Len(members'), i # j
               PROVE  <<members'[i].dev, members'[i].inode>> # <<members'[j].dev, members'[j].inode>>
    BY DEF Fresh
  <2>1. CASE i = Len(members) + 1
    <3>1. j \in 1 .. Len(members)
      BY <1>5, <1>6, <2>1
    <3> QED
      BY <1>2, <1>4, <1>5, <2>1, <3>1
  <2>2. CASE j = Len(members) + 1
    <3>1. i \in 1 .. Len(members)
      BY <1>5, <1>6, <2>2
    <3> QED
      BY <1>2, <1>4, <1>5, <2>2, <3>1
  <2>3. CASE i # Len(members) + 1 /\ j # Len(members) + 1
    <3>1. i \in 1 .. Len(members) /\ j \in 1 .. Len(members) /\ i \in Len(stock) + 1 .. Len(members)
      BY <1>5, <1>6, <2>3
    <3>2. members'[i] = members[i] /\ members'[j] = members[j]
      BY <1>5, <3>1
    <3>3. <<members[i].dev, members[i].inode>> # <<members[j].dev, members[j].inode>>
      BY <1>1, <3>1 DEF Fresh
    <3> QED
      BY <3>2, <3>3
  <2> QED
    BY <2>1, <2>2, <2>3
<1> QED
  BY <1>1, <1>5, <1>7, <1>8 DEF IrInd

\* Every step of the customization keeps the invariant.
LEMMA IrSteps == IrInd /\ [IrNext]_irVars => IrInd'
<1> SUFFICES ASSUME IrInd, [IrNext]_irVars PROVE IrInd'
  OBVIOUS
<1>1. CASE UNCHANGED irVars
  BY <1>1 DEF irVars, IrInd, Kept, Fresh
<1>2. CASE AcceptInput
  <2>1. members' = stock /\ stock' = stock /\ step' = "stock" /\ stock \in Seq(NewcEntry)
    BY <1>2 DEF AcceptInput, IrInd
  <2>2. Len(stock) \in Nat
    BY <2>1
  <2>3. Kept' /\ Fresh'
    BY <2>1, <2>2 DEF Kept, Fresh
  <2> QED
    BY <2>1, <2>3 DEF IrInd
<1>3. CASE ReplaceNewcMember
  <2>1. PICK i \in Named(members, "hook") : members' = [members EXCEPT ![i].data = "custom"]
    BY <1>3 DEF ReplaceNewcMember
  <2>2. members = stock /\ stock' = stock /\ step' = "hook" /\ stock \in Seq(NewcEntry) /\ Len(stock) \in Nat
    BY <1>3 DEF ReplaceNewcMember, IrInd
  <2>3. i \in 1 .. Len(stock) /\ stock[i].name = "hook" /\ stock[i] \in NewcEntry
    BY <2>1, <2>2 DEF Named
  <2> DEFINE x == [stock[i] EXCEPT !.data = "custom"]
  <2>4. x \in NewcEntry
    BY <2>3 DEF NewcEntry
  <2>5. members' = [stock EXCEPT ![i] = x]
    BY <2>1, <2>2
  <2> HIDE DEF x
  <2>6. /\ members' \in Seq(NewcEntry) /\ Len(members') = Len(stock)
        /\ \A j \in 1 .. Len(stock) : j # i => members'[j] = stock[j]
    BY <2>2, <2>3, <2>4, <2>5, ExceptSeq
  <2>7. Kept' /\ Fresh'
    BY <2>2, <2>3, <2>6 DEF Kept, Fresh
  <2> QED
    BY <2>2, <2>6, <2>7 DEF IrInd
<1>4. CASE AddNewcDirectory
  BY <1>4, AddsNewFile, InitramfsBounds DEF AddNewcDirectory
<1>5. CASE AddDataFile
  BY <1>5, AddsNewFile, InitramfsBounds DEF AddDataFile
<1>6. CASE AddNewcRegularFile
  BY <1>6, AddsNewFile, InitramfsBounds DEF AddNewcRegularFile
<1>7. CASE AddGate
  BY <1>7, AddsNewFile, InitramfsBounds DEF AddGate
<1>8. CASE VerifyOutput
  BY <1>8 DEF VerifyOutput, IrInd, Kept, Fresh
<1>9. CASE CustomizationError
  BY <1>9 DEF CustomizationError, IrInd, Kept, Fresh
<1> QED
  BY <1>1, <1>2, <1>3, <1>4, <1>5, <1>6, <1>7, <1>8, <1>9 DEF IrNext

\* AddedMembersAreNewFiles for every stock archive: gaps in its inodes, other devices and
\* hard links included, the lowest free inode exists and no added member joins a file.
THEOREM AddedMembersAreTheirOwnFiles == IrSpec => []AddedMembersAreNewFiles
<1>1. IrInit => IrInd
  <2> SUFFICES ASSUME IrInit PROVE IrInd
    OBVIOUS
  <2>1. stock \in Seq(NewcEntry) /\ members \in Seq(NewcEntry)
    BY InitramfsBounds, EmptySeq DEF IrInit
  <2> QED
    BY <2>1 DEF IrInit, IrInd
<1>2. IrInd => AddedMembersAreNewFiles
  <2> SUFFICES ASSUME IrInd, step = "verified" PROVE AddedMembersAreNewFiles
    BY DEF AddedMembersAreNewFiles
  <2>1. DOMAIN stock = 1 .. Len(stock) /\ DOMAIN members = 1 .. Len(members) /\ Kept /\ Fresh
    BY DEF IrInd
  <2> QED
    BY <2>1 DEF AddedMembersAreNewFiles, Kept, Fresh
<1> QED
  BY <1>1, <1>2, IrSteps, PTL DEF IrSpec

-----------------------------------------------------------------------------
(* Preflight *)

Entries == {"absent", "ours", "old", "other"}
Facts == [dev : Devices \cup {"none"}, rw : BOOLEAN, short : BOOLEAN]
Probing == {"create", "inspect", "discard", "write", "look", "remove"}
PreflightChecks == [at : {"identity", "find", "stat", "statvfs", "sentinel", "judge", "open", "done"} \cup Probing,
           facts : Facts, dir : {"none", "dashcam"}, failed : BOOLEAN, late : BOOLEAN,
           state : {"none", "READY", "FAULTED", "READ_ONLY", "EMERGENCY"},
           reasons : SUBSET {"RUNTIME_ERROR", "UNMOUNTED", "WRONG_IDENTITY", "READ_ONLY", "RESERVE_EXHAUSTED",
                             "WRITE_PROBE_FAILED"}]

\* The probe has judged the provisioned volume and opened its directory; a file of somebody
\* else that it is about to unlink took the name after its last look.
PreflightInd ==
  /\ mount \in Mounts /\ leftover \in [Devices -> Entries] /\ check \in PreflightChecks
  /\ check.at = "open" => check.facts.dev = "dashcam"
  /\ check.at \in Probing => check.dir = "dashcam"
  /\ check.at \in Unseen => (leftover["dashcam"] = "other" => check.late)
  /\ check.at = "done" /\ check.state = "READY" => check.dir = "dashcam" /\ leftover["dashcam"] # "ours"

\* An end with a verdict other than READY is an end like any other.
LEMMA EndsFit ==
  ASSUME PreflightInd, NEW verdict \in {"FAULTED", "READ_ONLY", "EMERGENCY"},
         NEW reasons \in SUBSET {"RUNTIME_ERROR", "UNMOUNTED", "WRONG_IDENTITY", "READ_ONLY", "RESERVE_EXHAUSTED",
                                 "WRITE_PROBE_FAILED"},
         End(verdict, reasons), UNCHANGED mount, leftover' \in [Devices -> Entries]
  PROVE  PreflightInd'
<1>1. check' = [check EXCEPT !.at = "done", !.state = verdict, !.reasons = reasons]
  BY DEF End
<1>2. check' \in PreflightChecks /\ check'.at = "done" /\ check'.state = verdict
  BY <1>1 DEF PreflightInd, PreflightChecks
<1> QED
  BY <1>2 DEF PreflightInd, Probing, Unseen

\* A step to another of the facts' stages.
LEMMA FactsFit ==
  ASSUME PreflightInd, UNCHANGED <<mount, leftover>>, NEW at \in {"find", "stat", "statvfs", "sentinel", "judge"},
         NEW facts \in Facts, check' = [check EXCEPT !.at = at, !.facts = facts]
  PROVE  PreflightInd'
<1>1. check' \in PreflightChecks /\ check'.at = at
  BY DEF PreflightInd, PreflightChecks
<1> QED
  BY <1>1 DEF PreflightInd, Probing, Unseen

\* The facts are collected, and a refusal or an error ends the run.
LEMMA FactsSteps ==
  ASSUME PreflightInd, LoadIdentity \/ FindMount \/ StatRoot \/ StatVfs \/ ReadSentinel
  PROVE  PreflightInd'
<1>1. /\ UNCHANGED <<mount, leftover>> /\ leftover' \in [Devices -> Entries] /\ check \in PreflightChecks
      /\ check.facts \in Facts /\ mount \in Facts /\ check = [check EXCEPT !.facts = @]
  BY DEF LoadIdentity, FindMount, StatRoot, StatVfs, ReadSentinel, PreflightInd, PreflightChecks, Mounts, Facts
<1>2. CASE RuntimeError \/ End("FAULTED", {"UNMOUNTED"})
  BY <1>1, <1>2, EndsFit DEF RuntimeError
<1>3. CASE check' = [check EXCEPT !.at = "stat", !.facts = mount]
  BY <1>1, <1>3, FactsFit
<1>4. CASE check' = [check EXCEPT !.at = "sentinel", !.facts.short = mount.short]
  <2>1. [check.facts EXCEPT !.short = mount.short] \in Facts
    BY <1>1 DEF Facts
  <2>2. check' = [check EXCEPT !.at = "sentinel", !.facts = [check.facts EXCEPT !.short = mount.short]]
    BY <1>4
  <2> QED
    BY <1>1, <2>1, <2>2, FactsFit
<1>5. ASSUME NEW at \in {"find", "statvfs", "judge"}, check' = [check EXCEPT !.at = at]
      PROVE  PreflightInd'
  <2>1. check' = [check EXCEPT !.at = at, !.facts = check.facts]
    BY <1>1, <1>5 DEF PreflightChecks
  <2> QED
    BY <1>1, <2>1, FactsFit
<1> QED
  BY <1>2, <1>3, <1>4, <1>5 DEF LoadIdentity, FindMount, StatRoot, StatVfs, ReadSentinel

\* The probe's steps keep its directory, and know of every file that is not theirs.
LEMMA ProbeSteps ==
  ASSUME PreflightInd,
         OpenDirectory \/ CreateExclusive \/ InspectProbe \/ DiscardProbe \/ WriteProbe \/ StatProbe \/ RemoveProbe
  PROVE  PreflightInd'
<1>1. mount' = mount /\ leftover' \in [Devices -> Entries]
  BY DEF OpenDirectory, CreateExclusive, InspectProbe, DiscardProbe, WriteProbe, StatProbe, RemoveProbe, Unlinked,
     PreflightInd, Entries
<1>2. CASE ProbeFailed
  BY <1>1, <1>2, EndsFit DEF ProbeFailed
<1>3. CASE OpenDirectory /\ ~ProbeFailed
  <2>1. check' = [check EXCEPT !.at = "create", !.dir = mount.dev] /\ mount.dev = "dashcam"
    BY <1>3 DEF OpenDirectory, VerifiedDirectory, PreflightInd
  <2>2. check' \in PreflightChecks /\ check'.at = "create" /\ check'.dir = "dashcam"
    BY <2>1 DEF PreflightInd, PreflightChecks, Probing
  <2> QED
    BY <1>1, <2>2 DEF PreflightInd, Unseen
<1>4. CASE CreateExclusive /\ ~ProbeFailed
  <2>1. /\ leftover' = [leftover EXCEPT !["dashcam"] = "ours"] /\ check' = [check EXCEPT !.at = "inspect"]
        /\ check.dir = "dashcam"
    BY <1>4 DEF CreateExclusive, PreflightInd, Probing
  <2>2. check' \in PreflightChecks /\ check'.at = "inspect" /\ check'.dir = "dashcam"
    BY <2>1 DEF PreflightInd, PreflightChecks, Probing
  <2>3. leftover'["dashcam"] = "ours"
    BY <2>1 DEF PreflightInd, Devices
  <2> QED
    BY <1>1, <2>2, <2>3 DEF PreflightInd
<1>5. CASE (InspectProbe \/ StatProbe) /\ ~ProbeFailed
  <2>1. PICK at \in Probing :
          /\ check' = [check EXCEPT !.at = at]
          /\ leftover[check.dir] = "ours" \/ at = "discard"
          /\ check.at = "inspect" \/ leftover[check.dir] = "ours"
    BY <1>5 DEF InspectProbe, StatProbe, Probing
  <2>2. check.at \in Probing /\ check.dir = "dashcam" /\ leftover' = leftover
    BY <1>5 DEF InspectProbe, StatProbe, PreflightInd, Probing
  <2>3. /\ check' \in PreflightChecks /\ check'.at = at /\ check'.dir = "dashcam"
        /\ check'.late = check.late
    BY <2>1, <2>2 DEF PreflightInd, PreflightChecks
  <2>4. leftover["dashcam"] = "other" => check.late
    BY <2>1, <2>2 DEF PreflightInd, Unseen
  <2> QED
    BY <1>1, <2>2, <2>3, <2>4 DEF PreflightInd, Probing
<1>6. CASE WriteProbe /\ ~ProbeFailed
  <2>1. PICK failed \in BOOLEAN : check' = [check EXCEPT !.at = "look", !.failed = failed]
    BY <1>6 DEF WriteProbe
  <2>2. check' \in PreflightChecks /\ check'.at = "look" /\ check'.dir = "dashcam"
    BY <1>6, <2>1 DEF WriteProbe, PreflightInd, PreflightChecks, Probing
  <2> QED
    BY <1>1, <2>2 DEF PreflightInd, Unseen
<1>7. CASE RemoveProbe /\ ~ProbeFailed
  <2>1. check' = [check EXCEPT !.at = "done", !.state = "READY", !.reasons = {}]
    BY <1>7 DEF RemoveProbe, End
  <2>2. check.dir = "dashcam" /\ leftover'["dashcam"] = "absent"
    BY <1>7 DEF RemoveProbe, PreflightInd, Probing
  <2>3. check' \in PreflightChecks /\ check'.at = "done" /\ check'.dir = "dashcam"
    BY <2>1, <2>2 DEF PreflightInd, PreflightChecks
  <2> QED
    BY <1>1, <2>2, <2>3 DEF PreflightInd, Probing, Unseen
<1> QED
  BY <1>2, <1>3, <1>4, <1>5, <1>6, <1>7 DEF DiscardProbe

\* What the mounts, the power and others do keeps the invariant.
LEMMA AroundSteps ==
  ASSUME PreflightInd, Again \/ ChangeMount \/ ReplaceFile \/ PowerCut
  PROVE  PreflightInd'
<1>1. CASE Again
  <2>1. check' = NewCheck /\ leftover' = Forgotten(leftover) /\ mount' = mount
    BY <1>1 DEF Again
  <2>2. check' \in PreflightChecks /\ check'.at = "identity"
    BY <2>1 DEF NewCheck, NoFacts, PreflightChecks, Facts
  <2>3. leftover' \in [Devices -> Entries]
    BY <2>1 DEF Forgotten, PreflightInd, Entries
  <2> QED
    BY <2>1, <2>2, <2>3 DEF PreflightInd, Probing, Unseen
<1>2. CASE ChangeMount
  BY <1>2 DEF ChangeMount, PreflightInd
<1>3. CASE ReplaceFile
  <2>1. PICK d \in Devices :
          /\ leftover' = [leftover EXCEPT ![d] = "other"]
          /\ check' = [check EXCEPT !.late = @ \/ (d = check.dir /\ check.at \in Unseen)]
    BY <1>3 DEF ReplaceFile
  <2>2. leftover' \in [Devices -> Entries] /\ (leftover["dashcam"] # "ours" => leftover'["dashcam"] # "ours")
    BY <2>1 DEF PreflightInd, Entries, Devices
  <2>3. /\ check' \in PreflightChecks /\ check'.at = check.at /\ check'.dir = check.dir /\ check'.state = check.state
        /\ check'.facts = check.facts /\ check'.late = (check.late \/ (d = check.dir /\ check.at \in Unseen))
    BY <2>1 DEF PreflightInd, PreflightChecks
  <2>4. check.at \in Unseen => (leftover'["dashcam"] = "other" => check'.late)
    BY <2>1, <2>3 DEF PreflightInd, Probing, Unseen, Devices
  <2>5. mount' = mount
    BY <1>3 DEF ReplaceFile
  <2> QED
    BY <2>2, <2>3, <2>4, <2>5 DEF PreflightInd
<1>4. CASE PowerCut
  <2>1. check' \in PreflightChecks /\ check'.at = "identity" /\ mount' = mount
    BY <1>4 DEF PowerCut, NewCheck, NoFacts, PreflightChecks, Facts
  <2>2. leftover' \in [Devices -> Entries]
    BY <1>4 DEF PowerCut, Forgotten, PreflightInd, Entries
  <2> QED
    BY <2>1, <2>2 DEF PreflightInd, Probing, Unseen
<1> QED
  BY <1>1, <1>2, <1>3, <1>4

\* Facts that nothing refuses are those of the provisioned volume.
LEMMA AcceptedAreIdentified ==
  ASSUME StaticRefusals(check.facts) = {}
  PROVE  check.facts.dev = "dashcam"
BY DEF StaticRefusals, Identified

\* Every step keeps the invariant.
LEMMA PreflightSteps ==
  ASSUME PreflightInd, [PreflightNext]_preflightVars
  PROVE  PreflightInd'
<1>1. CASE UNCHANGED preflightVars
  BY <1>1 DEF preflightVars, PreflightInd
<1>2. CASE Judge
  <2> DEFINE reasons == StaticRefusals(check.facts)
  <2>1. reasons \in SUBSET {"RUNTIME_ERROR", "UNMOUNTED", "WRONG_IDENTITY", "READ_ONLY", "RESERVE_EXHAUSTED",
                            "WRITE_PROBE_FAILED"}
    BY DEF StaticRefusals
  <2>2. UNCHANGED <<mount, leftover>> /\ leftover' \in [Devices -> Entries]
    BY <1>2 DEF Judge, PreflightInd
  <2>3. CASE reasons # {}
    <3>1. StateForReasons(reasons) \in {"FAULTED", "READ_ONLY", "EMERGENCY"}
      BY DEF StateForReasons
    <3>2. End(StateForReasons(reasons), reasons)
      BY <1>2, <2>3 DEF Judge
    <3> HIDE DEF reasons
    <3> QED
      BY <2>1, <2>2, <3>1, <3>2, EndsFit
  <2>4. CASE reasons = {}
    <3>1. check' = [check EXCEPT !.at = "open"]
      BY <1>2, <2>4 DEF Judge
    <3>2. check.facts.dev = "dashcam"
      BY <2>4, AcceptedAreIdentified
    <3>3. check' \in PreflightChecks /\ check'.at = "open" /\ check'.facts = check.facts
      BY <3>1 DEF PreflightInd, PreflightChecks
    <3> QED
      BY <2>2, <3>2, <3>3 DEF PreflightInd, Probing, Unseen
  <2> QED
    BY <2>3, <2>4
<1> QED
  BY <1>1, <1>2, FactsSteps, ProbeSteps, AroundSteps DEF PreflightNext

\* A step creates the probe's file on the provisioned volume alone, and removes nobody else's
\* that was there at its last look.
LEMMA StepConfined ==
  ASSUME PreflightInd, [PreflightNext]_preflightVars, NEW d \in Devices
  PROVE  /\ leftover'[d] = "ours" /\ leftover[d] # "ours" => d = "dashcam" /\ leftover[d] = "absent"
         /\ leftover[d] = "other" /\ leftover'[d] # "other" => d = check.dir /\ check.late
<1>1. CASE leftover' = leftover
  BY <1>1
<1>2. CASE CreateExclusive /\ leftover' # leftover
  BY <1>2 DEF CreateExclusive, PreflightInd, Probing
<1>3. CASE (DiscardProbe \/ RemoveProbe) /\ leftover' # leftover
  <2>1. check.at \in Unseen /\ check.dir = "dashcam" /\ leftover' = [leftover EXCEPT !["dashcam"] = "absent"]
    BY <1>3 DEF DiscardProbe, RemoveProbe, Unlinked, Unseen, PreflightInd, Probing
  <2> QED
    BY <2>1 DEF PreflightInd
<1>4. CASE Again \/ PowerCut
  BY <1>4 DEF Again, PowerCut, Forgotten
<1>5. CASE ReplaceFile
  BY <1>5 DEF ReplaceFile, PreflightInd
<1> QED
  BY <1>1, <1>2, <1>3, <1>4, <1>5 DEF PreflightNext, preflightVars, LoadIdentity, FindMount, StatRoot, StatVfs,
     ReadSentinel, Judge, OpenDirectory, InspectProbe, WriteProbe, StatProbe, ChangeMount

\* ProbeSound however often the mount and the file change and the power fails: the probe touches
\* the provisioned volume alone, takes no file that was there when it last looked, and READY
\* leaves nothing of it behind.
THEOREM ProbeLeavesNoTrace == PreflightSpec => ProbeSound
<1>1. PreflightInit => PreflightInd
  BY DEF PreflightInit, PreflightInd, NewCheck, NoFacts, PreflightChecks, Facts, Entries, Probing, Unseen
<1>2. PreflightInd => ReadyIsClean
  BY DEF PreflightInd, ReadyIsClean
<1>3. PreflightInd /\ [PreflightNext]_preflightVars =>
        [\A d \in Devices :
           /\ leftover'[d] = "ours" /\ leftover[d] # "ours" => d = "dashcam" /\ leftover[d] = "absent"
           /\ leftover[d] = "other" /\ leftover'[d] # "other" => d = check.dir /\ check.late]_preflightVars
  BY StepConfined
<1> QED
  BY <1>1, <1>2, <1>3, PreflightSteps, PTL DEF PreflightSpec, ProbeSound, ProbeConfined

-----------------------------------------------------------------------------
(* Bootstrap *)

BothBackups == {"ext4", "fat"}
Tables == {"source", "torn", "target"}
Disks == [table : Tables, root : {"source", "target"}, p3 : {"blank", "dirty", "exfat", "torn"},
          saved : {{}, {"ext4"}, BothBackups}, formats : {0, 1}, fstab : Nat, sentinel : Nat, env : Nat, done : Nat]
Journals == [phase : {"NONE", "REFUSED", "STAGE_A_INTENT", "TABLE_WRITE_STARTED", "TABLE_COMMITTED"} \cup Later,
             boot : Nat, uuid : Nat]
BootRecords == [number : Nat, kernel : Tables, mounted : Nat, rebooting : BOOLEAN, bound : BOOLEAN]

BsTypes == disk \in Disks /\ state \in Journals /\ boot \in BootRecords

\* What the journal says while a unit is between two of its durable writes.
UnitFits ==
  /\ unit \in {"a_backup", "a_intent"} => state.phase = "NONE"
  /\ unit = "a_started" => state.phase = "STAGE_A_INTENT"
  /\ unit \in {"a_written", "a_readback"} => state.phase = "TABLE_WRITE_STARTED"
  /\ unit \in {"a_intent", "a_started", "a_written", "a_readback"} => disk.saved = BothBackups
  /\ unit \in {"a_started", "a_written", "a_readback"} => state.boot = boot.number
  /\ unit = "b_mkfs" => state.phase = "FORMAT_INTENT" /\ disk.p3 = "blank" /\ boot.kernel = "target"

\* What each phase of the journal promises of the card, in whatever boot it is read: the table was
\* written in this boot only if the journal names this boot as its writer.
PhaseFits ==
  /\ disk.table = "target" => disk.saved = BothBackups /\ state.phase # "NONE"
  /\ disk.table = "target" /\ boot.kernel # "target" => state.boot = boot.number
  /\ state.phase \in Later => disk.root = "target"
  /\ state.phase = "CONFIGURED" => disk.fstab = state.uuid /\ disk.sentinel = state.uuid /\ disk.env = state.uuid

\* A blank partition was never formatted, and a completed one is the volume that everything names.
VolumeFits ==
  /\ disk.p3 = "blank" => disk.formats = 0
  /\ disk.done # NoVolume =>
       /\ disk.root = "target" /\ Volume = disk.done
       /\ disk.fstab = disk.done /\ disk.sentinel = disk.done /\ disk.env = disk.done

BsInd == BsTypes /\ UnitFits /\ PhaseFits /\ VolumeFits

\* The unit that ends is followed by Stage B or by nothing.
LEMMA ExitEnds == Exit => unit' \in {"b", "off"}
BY DEF Exit

\* A unit may end wherever it is.
LEMMA EndingFits ==
  ASSUME BsInd, Nothing
  PROVE  BsInd'
BY ExitEnds DEF Nothing, BsInd, BsTypes, UnitFits, PhaseFits, VolumeFits, Volume

\* A later phase is written once the card is what the phase promises.
LEMMA WriteFits ==
  ASSUME BsInd, NEW p \in {"REFUSED", "TABLE_COMMITTED"} \cup Later, Write(p),
         disk' = disk, boot' = boot, unit' \in {"b", "off", "a_reboot"},
         p \in Later => disk.root = "target",
         p = "CONFIGURED" => disk.fstab = state.uuid /\ disk.sentinel = state.uuid /\ disk.env = state.uuid
  PROVE  BsInd'
<1>1. state' \in Journals /\ state'.phase = p /\ state'.boot = state.boot /\ state'.uuid = state.uuid
  BY DEF Write, BsInd, BsTypes, Journals
<1>2. p # "NONE"
  BY DEF Later
<1> QED
  BY <1>1, <1>2 DEF BsInd, BsTypes, UnitFits, PhaseFits, VolumeFits, Volume

\* A refusal replaces the phase and changes nothing else.
LEMMA RefuseFits ==
  ASSUME BsInd, Refuse
  PROVE  BsInd'
BY WriteFits, ExitEnds DEF Refuse, Later

\* Stage A.
LEMMA StageASteps ==
  ASSUME BsInd,
         AStart \/ AReconcile \/ ABackup \/ AIntent \/ AWriteStarted \/ ATable \/ ACommit \/ ARequestReboot
  PROVE  BsInd'
<1>1. CASE AStart
  BY <1>1 DEF AStart, BsInd, BsTypes, UnitFits, PhaseFits, VolumeFits, Volume
<1>2. CASE AReconcile \/ ACommit
  BY <1>2, WriteFits DEF AReconcile, ACommit, Later
<1>3. CASE ABackup
  <2> DEFINE x == IF "ext4" \in disk.saved THEN "fat" ELSE "ext4"
  <2>1. /\ disk' = [disk EXCEPT !.saved = disk.saved \cup {x}] /\ state' = state /\ boot' = boot
        /\ unit' = IF "ext4" \in disk.saved THEN "a_intent" ELSE "a_backup"
    BY <1>3 DEF ABackup
  <2>2. disk.saved \in {{}, {"ext4"}, BothBackups} /\ disk \in Disks /\ unit = "a_backup"
    BY <1>3 DEF ABackup, BsInd, BsTypes, Disks
  <2>3. /\ disk.saved \cup {x} \in {{"ext4"}, BothBackups}
        /\ "ext4" \in disk.saved => disk.saved \cup {x} = BothBackups
        /\ disk.saved = BothBackups => disk.saved \cup {x} = BothBackups
    BY <2>2 DEF BothBackups
  <2> HIDE DEF x
  <2>4. /\ disk' \in Disks /\ disk'.saved = disk.saved \cup {x} /\ disk'.table = disk.table /\ disk'.root = disk.root
        /\ disk'.p3 = disk.p3 /\ disk'.formats = disk.formats /\ disk'.fstab = disk.fstab
        /\ disk'.sentinel = disk.sentinel /\ disk'.env = disk.env /\ disk'.done = disk.done
    BY <2>1, <2>2, <2>3 DEF Disks
  <2>5. UnitFits' /\ PhaseFits'
    BY <2>1, <2>2, <2>3, <2>4 DEF BsInd, UnitFits, PhaseFits
  <2>6. VolumeFits'
    BY <2>4 DEF BsInd, VolumeFits, Volume
  <2> QED
    BY <2>1, <2>4, <2>5, <2>6 DEF BsInd, BsTypes
<1>4. CASE AIntent \/ AWriteStarted
  <2>1. /\ state' \in Journals /\ state'.boot = boot.number
        /\ state'.phase = IF unit = "a_intent" THEN "STAGE_A_INTENT" ELSE "TABLE_WRITE_STARTED"
    BY <1>4 DEF AIntent, AWriteStarted, Write, BsInd, BsTypes, UnitFits, Journals, BootRecords
  <2>2. /\ disk' = disk /\ boot' = boot /\ unit \in {"a_intent", "a_started"}
        /\ unit' = IF unit = "a_intent" THEN "a_started" ELSE "a_written"
    BY <1>4 DEF AIntent, AWriteStarted
  <2> QED
    BY <2>1, <2>2 DEF BsInd, BsTypes, UnitFits, PhaseFits, VolumeFits, Volume, Later
<1>5. CASE ATable
  <2>1. /\ disk' = [disk EXCEPT !.table = "target"] /\ state' = state /\ boot' = boot
        /\ unit = "a_written" /\ unit' = "a_readback"
    BY <1>5 DEF ATable
  <2>2. /\ disk' \in Disks /\ disk'.saved = disk.saved /\ disk'.table = "target" /\ disk'.root = disk.root
        /\ disk'.p3 = disk.p3 /\ disk'.formats = disk.formats /\ disk'.fstab = disk.fstab
        /\ disk'.sentinel = disk.sentinel /\ disk'.env = disk.env /\ disk'.done = disk.done
    BY <2>1 DEF BsInd, BsTypes, Disks, Tables
  <2> QED
    BY <2>1, <2>2 DEF BsInd, BsTypes, UnitFits, PhaseFits, VolumeFits, Volume
<1>6. CASE ARequestReboot
  <2>1. /\ boot' \in BootRecords /\ boot'.number = boot.number /\ boot'.kernel = boot.kernel
    BY <1>6 DEF ARequestReboot, BsInd, BsTypes, BootRecords
  <2> QED
    BY <1>6, <2>1, ExitEnds DEF ARequestReboot, BsInd, BsTypes, UnitFits, PhaseFits, VolumeFits, Volume
<1> QED
  BY <1>1, <1>2, <1>3, <1>4, <1>5, <1>6

\* A kernel that Stage B goes on under has booted with the table.
LEMMA BoundKernel ==
  ASSUME BsInd, BBound
  PROVE  boot.kernel = "target"
BY DEF BBound, LaterBoot, TableMatches, BsInd, PhaseFits

\* Stage B.
LEMMA StageBSteps ==
  ASSUME BsInd,
         BResize \/ BResized \/ BIntent \/ BFormat \/ BFormatted \/ BConfigure \/ BConfigured \/ BComplete \/ BFails
  PROVE  BsInd'
<1>1. CASE BResize
  <2>1. /\ disk' = [disk EXCEPT !.root = "target"] /\ UNCHANGED <<state, unit, boot>>
    BY <1>1 DEF BResize
  <2>2. /\ disk' \in Disks /\ disk'.saved = disk.saved /\ disk'.table = disk.table /\ disk'.root = "target"
        /\ disk'.p3 = disk.p3 /\ disk'.formats = disk.formats /\ disk'.fstab = disk.fstab
        /\ disk'.sentinel = disk.sentinel /\ disk'.env = disk.env /\ disk'.done = disk.done
    BY <2>1 DEF BsInd, BsTypes, Disks
  <2> QED
    BY <2>1, <2>2 DEF BsInd, BsTypes, UnitFits, PhaseFits, VolumeFits, Volume
<1>2. CASE BResized
  BY <1>2, WriteFits DEF BResized, BReady, BBound, Later
<1>3. CASE BIntent
  <2>1. boot.kernel = "target" /\ disk.p3 = "blank" /\ disk.root = "target"
    BY <1>3, BoundKernel DEF BIntent, BReady, Blank, BsInd, PhaseFits, Later
  <2>2. /\ state' \in Journals /\ state'.phase = "FORMAT_INTENT" /\ state'.boot = state.boot
        /\ state'.uuid = state.uuid
    BY <1>3 DEF BIntent, Write, BsInd, BsTypes, Journals, Later
  <2>3. disk' = disk /\ boot' = boot /\ unit' = "b_mkfs"
    BY <1>3 DEF BIntent
  <2> QED
    BY <2>1, <2>2, <2>3 DEF BsInd, BsTypes, UnitFits, PhaseFits, VolumeFits, Volume
<1>4. CASE BFormat
  <2>1. /\ disk' = [disk EXCEPT !.p3 = "exfat", !.formats = @ + 1] /\ state' = state /\ boot' = boot
        /\ unit = "b_mkfs" /\ unit' = "b"
    BY <1>4 DEF BFormat
  <2>2. disk \in Disks /\ disk.p3 = "blank" /\ disk.formats = 0 /\ disk.done = NoVolume
    BY <2>1 DEF BsInd, BsTypes, UnitFits, VolumeFits, Volume
  <2>3. disk' = [disk EXCEPT !.p3 = "exfat", !.formats = 1]
    BY <2>1, <2>2 DEF Disks
  <2>4. /\ disk' \in Disks /\ disk'.saved = disk.saved /\ disk'.table = disk.table /\ disk'.root = disk.root
        /\ disk'.p3 = "exfat" /\ disk'.fstab = disk.fstab
        /\ disk'.sentinel = disk.sentinel /\ disk'.env = disk.env /\ disk'.done = NoVolume
    BY <2>2, <2>3 DEF Disks
  <2> QED
    BY <2>1, <2>4 DEF BsInd, BsTypes, UnitFits, PhaseFits, VolumeFits
<1>5. CASE BFormatted
  <2>1. disk' = disk /\ boot' = boot /\ unit' = unit /\ unit = "b" /\ disk.root = "target"
    BY <1>5 DEF BFormatted, BReady, BBound, BsInd, PhaseFits, Later
  <2>2. Volume \in Nat
    BY DEF Volume, NoVolume, BsInd, BsTypes, Disks
  <2>3. state' \in Journals /\ state'.phase = "DATA_FORMATTED" /\ state'.boot = state.boot
    BY <1>5, <2>2 DEF BFormatted, BsInd, BsTypes, Journals, Later
  <2> QED
    BY <2>1, <2>3 DEF BsInd, BsTypes, UnitFits, PhaseFits, VolumeFits, Volume
<1>6. CASE BConfigure
  <2>1. /\ state' = state /\ unit' = unit /\ unit = "b" /\ state.phase = "DATA_FORMATTED" /\ disk.done = NoVolume
        /\ state.uuid \in Nat /\ disk \in Disks
    BY <1>6 DEF BConfigure, BReady, BBound, BsInd, BsTypes, Journals
  <2>2. boot' \in BootRecords /\ boot'.number = boot.number /\ boot'.kernel = boot.kernel
    BY <1>6, <2>1 DEF BConfigure, BsInd, BsTypes, BootRecords
  <2>3. \/ disk' = disk
        \/ disk' = [disk EXCEPT !.fstab = state.uuid]
        \/ disk' = [disk EXCEPT !.sentinel = state.uuid]
        \/ disk' = [disk EXCEPT !.env = state.uuid]
    BY <1>6 DEF BConfigure
  <2>4. /\ disk' \in Disks /\ disk'.saved = disk.saved /\ disk'.table = disk.table /\ disk'.root = disk.root
        /\ disk'.p3 = disk.p3 /\ disk'.formats = disk.formats /\ disk'.done = disk.done
    BY <2>1, <2>3 DEF Disks
  <2> QED
    BY <2>1, <2>2, <2>4 DEF BsInd, BsTypes, UnitFits, PhaseFits, VolumeFits, Later
<1>7. CASE BConfigured
  <2>1. disk.fstab = state.uuid /\ disk.sentinel = state.uuid /\ disk.env = state.uuid
    BY <1>7 DEF BConfigured
  <2>2. disk.root = "target"
    BY <1>7 DEF BConfigured, BsInd, PhaseFits, Later
  <2> QED
    BY <1>7, <2>1, <2>2, WriteFits DEF BConfigured, BReady, BBound, Later
<1>8. CASE BComplete
  <2>1. /\ disk' = [disk EXCEPT !.done = state.uuid] /\ state' = state /\ boot' = boot /\ unit' = "off"
        /\ Volume = state.uuid /\ state.phase = "CONFIGURED"
    BY <1>8 DEF BComplete, StorageMountIsExact
  <2>2. /\ disk.root = "target" /\ disk.fstab = state.uuid /\ disk.sentinel = state.uuid /\ disk.env = state.uuid
    BY <2>1 DEF BsInd, PhaseFits, Later
  <2>3. /\ disk' \in Disks /\ disk'.saved = disk.saved /\ disk'.table = disk.table /\ disk'.root = disk.root
        /\ disk'.p3 = disk.p3 /\ disk'.formats = disk.formats /\ disk'.fstab = disk.fstab
        /\ disk'.sentinel = disk.sentinel /\ disk'.env = disk.env /\ disk'.done = state.uuid
    BY <2>1 DEF BsInd, BsTypes, Disks, Journals
  <2> QED
    BY <2>1, <2>2, <2>3 DEF BsInd, BsTypes, UnitFits, PhaseFits, VolumeFits, Volume
<1>9. CASE BFails
  <2>1. CASE disk' = disk
    BY <1>9, <2>1, WriteFits, ExitEnds DEF BFails, Later
  <2>2. CASE unit = "b_mkfs" /\ disk' = [disk EXCEPT !.p3 = "torn"]
    <3>1. disk.done = NoVolume /\ disk \in Disks
      BY <2>2 DEF BsInd, BsTypes, UnitFits, VolumeFits, Volume
    <3>2. /\ disk' \in Disks /\ disk'.saved = disk.saved /\ disk'.table = disk.table /\ disk'.p3 = "torn"
          /\ disk'.done = NoVolume
      BY <2>2, <3>1 DEF Disks
    <3>3. state' \in Journals /\ state'.phase = "REFUSED" /\ state'.boot = state.boot
      BY <1>9 DEF BFails, Write, BsInd, BsTypes, Journals
    <3>4. boot' = boot /\ unit' \in {"b", "off"}
      BY <1>9, ExitEnds DEF BFails
    <3> QED
      BY <3>2, <3>3, <3>4 DEF BsInd, BsTypes, UnitFits, PhaseFits, VolumeFits, Later
  <2> QED
    BY <1>9, <2>1, <2>2 DEF BFails
<1> QED
  BY <1>1, <1>2, <1>3, <1>4, <1>5, <1>6, <1>7, <1>8, <1>9

\* The boots that may follow have the kernel's table and volumes that they were given.
LEMMA BootsAreRecords ==
  ASSUME NEW n \in Nat, NEW t \in Tables, NEW vs \in SUBSET Nat, NEW b \in Boots(n, t, vs)
  PROVE  b \in BootRecords /\ b.kernel = t
<1>1. /\ b = [number |-> b.number, kernel |-> b.kernel, mounted |-> b.mounted, rebooting |-> b.rebooting,
              bound |-> b.bound]
      /\ b.number = n /\ b.kernel = t /\ b.mounted \in vs /\ b.rebooting \in {FALSE} /\ b.bound \in BOOLEAN
  BY DEF Boots
<1>2. b.mounted \in Nat /\ b.rebooting \in BOOLEAN
  BY <1>1
<1> QED
  BY <1>1, <1>2 DEF BootRecords

\* Power may fail at any moment; the next kernel boots with the table that is there.
LEMMA BootSteps ==
  ASSUME BsInd, Reboot \/ LateMount
  PROVE  BsInd'
<1>1. Volume \in Nat /\ NoVolume \in Nat
  BY DEF Volume, NoVolume, BsInd, BsTypes, Disks
<1>2. CASE LateMount
  <2>1. boot' \in BootRecords /\ boot'.number = boot.number /\ boot'.kernel = boot.kernel
    BY <1>1, <1>2 DEF LateMount, BsInd, BsTypes, BootRecords
  <2> QED
    BY <1>2, <2>1 DEF LateMount, BsInd, BsTypes, UnitFits, PhaseFits, VolumeFits, Volume
<1>3. CASE Reboot
  <2>1. /\ unit' = "a" /\ state' = state
        /\ disk' = disk \/ (unit = "b_mkfs" /\ disk' = [disk EXCEPT !.p3 = "torn"])
    BY <1>3 DEF Reboot
  <2>2. boot' \in BootRecords /\ boot'.kernel = disk.table
    <3>1. boot.number + 1 \in Nat /\ disk.table \in Tables
      BY DEF BsInd, BsTypes, BootRecords, Disks
    <3>2. {NoVolume, IF disk.fstab = Volume THEN Volume ELSE NoVolume} \in SUBSET Nat
      BY <1>1
    <3>3. boot' \in Boots(boot.number + 1, disk.table, {NoVolume, IF disk.fstab = Volume THEN Volume ELSE NoVolume})
      BY <1>3 DEF Reboot
    <3> QED
      BY <3>1, <3>2, <3>3, BootsAreRecords
  <2>3. CASE disk' = disk
    BY <2>1, <2>2, <2>3 DEF BsInd, BsTypes, UnitFits, PhaseFits, VolumeFits, Volume
  <2>4. CASE unit = "b_mkfs" /\ disk' = [disk EXCEPT !.p3 = "torn"]
    <3>1. disk.done = NoVolume /\ disk \in Disks
      BY <2>4 DEF BsInd, BsTypes, UnitFits, VolumeFits, Volume
    <3>2. /\ disk' \in Disks /\ disk'.saved = disk.saved /\ disk'.table = disk.table /\ disk'.p3 = "torn"
          /\ disk'.done = NoVolume /\ disk'.root = disk.root /\ disk'.fstab = disk.fstab
          /\ disk'.sentinel = disk.sentinel /\ disk'.env = disk.env
      BY <2>4, <3>1 DEF Disks
    <3> QED
      BY <2>1, <2>2, <3>2 DEF BsInd, BsTypes, UnitFits, PhaseFits, VolumeFits
  <2> QED
    BY <2>1, <2>3, <2>4
<1> QED
  BY <1>2, <1>3

\* Every step keeps the invariant.
LEMMA BsSteps ==
  ASSUME BsInd, [BsNext]_bsVars
  PROVE  BsInd'
<1>1. CASE UNCHANGED bsVars
  BY <1>1 DEF bsVars, BsInd, BsTypes, UnitFits, PhaseFits, VolumeFits, Volume
<1>2. CASE Defer \/ LatchedRefusal \/ ANothing \/ ABackupFails \/ BSkip
  BY <1>2, EndingFits DEF Defer, LatchedRefusal, ANothing, ABackupFails, BSkip
<1>3. CASE Mismatch \/ ARefuses \/ AFails \/ BRefuses
  BY <1>3, RefuseFits DEF Mismatch, ARefuses, AFails, BRefuses
<1> QED
  BY <1>1, <1>2, <1>3, StageASteps, StageBSteps, BootSteps DEF BsNext

\* The partition changes only after its intent, under a kernel that booted with the table.
LEMMA StepFormatsAfterIntent ==
  ASSUME BsInd, [BsNext]_bsVars
  PROVE  disk'.p3 # disk.p3 => state.phase = "FORMAT_INTENT" /\ boot.kernel = "target"
<1>1. CASE unit = "b_mkfs"
  BY <1>1 DEF BsInd, UnitFits
<1>2. CASE unit # "b_mkfs"
  <2>1. CASE disk' = disk
    BY <2>1
  <2>2. CASE ABackup \/ ATable \/ BResize \/ BComplete
    BY <2>2 DEF ABackup, ATable, BResize, BComplete, BsInd, BsTypes, Disks
  <2>3. CASE BConfigure
    BY <2>3 DEF BConfigure, BsInd, BsTypes, Disks
  <2> QED
    BY <1>2, <2>1, <2>2, <2>3 DEF BsNext, bsVars, Defer, Mismatch, LatchedRefusal, AStart, ARefuses, ANothing,
       AReconcile, AIntent, AWriteStarted, ACommit, AFails, ABackupFails, ARequestReboot, BSkip, BRefuses,
       BResized, BIntent, BFormat, BFormatted, BConfigured, BFails, Reboot, LateMount, Refuse, Nothing
<1> QED
  BY <1>1, <1>2

\* BootstrapSound for every number of boots and power cuts: one file system at most, backups and
\* intents before what they cover, and the marker after everything it vouches for.
THEOREM StagesMayBeInterrupted == BsSpec => BootstrapSound
<1>1. BsInit => BsInd
  <2> SUFFICES ASSUME BsInit PROVE BsInd
    OBVIOUS
  <2>1. /\ disk \in Disks /\ disk.table # "target" /\ disk.done = NoVolume
        /\ disk.p3 = "blank" => disk.formats = 0
    BY DEF BsInit, Disks, Tables, NoVolume
  <2>2. state \in Journals /\ state.phase = "NONE" /\ unit = "a"
    BY DEF BsInit, NoState, NoVolume, Journals
  <2>3. boot \in BootRecords
    <3>1. boot \in Boots(1, disk.table, {NoVolume}) /\ disk.table \in Tables /\ {NoVolume} \in SUBSET Nat
      BY <2>1 DEF BsInit, Disks, NoVolume
    <3> QED
      BY <3>1, BootsAreRecords
  <2> QED
    BY <2>1, <2>2, <2>3 DEF BsInd, BsTypes, UnitFits, PhaseFits, VolumeFits, Later
<1>2. BsInd => VolumeMadeOnce /\ CompletionIsLast
  BY DEF BsInd, BsTypes, Disks, VolumeFits, VolumeMadeOnce, CompletionIsLast
<1>3. BsInd => (disk.table = "target" => disk.saved = {"ext4", "fat"} /\ state.phase # "NONE")
  BY DEF BsInd, PhaseFits, BothBackups
<1>4. BsInd /\ [BsNext]_bsVars =>
        [disk'.p3 # disk.p3 => state.phase = "FORMAT_INTENT" /\ boot.kernel = "target"]_bsVars
  BY StepFormatsAfterIntent
<1> QED
  BY <1>1, <1>2, <1>3, <1>4, BsSteps, PTL DEF BsSpec, BootstrapSound, IntentBeforeWrite

-----------------------------------------------------------------------------
(* AppInstall *)

Releases == {"absent", "staged", "complete"}
Contents == Bundles \cup {"alike", "none"}
Doings == {"packages", "apt", "groups", "release", "smoke", "files", "replace", "verify", "journal"}
Applying == [bundle : Bundles, doing : Doings, next : Nat, before : [ManagedFiles -> Contents], version : Nat,
             late : BOOLEAN]

\* An apply replaces files that no operator edited before its last look at them, asks for the version that was approved,
\* and its release is whole before its files and the link.
ApplyFits ==
  /\ install \in Applying
  /\ install.doing = "replace" => install.next \in ManagedFiles /\ (managed[install.next] = "edited" => install.late)
  /\ install.doing \in {"files", "replace", "verify", "journal"} => releases[install.bundle] = "complete"
  /\ install.doing \in {"packages", "apt"} /\ package.installed = 0 => install.version = approved.candidate

AppInd ==
  /\ managed \in [ManagedFiles -> Contents \cup {"edited"}] /\ releases \in [Bundles -> Releases]
  /\ package \in [installed : Nat, candidate : Nat]
  /\ install = Nobody \/ ApplyFits
  /\ current = "none" \/ (current \in Bundles /\ releases[current] = "complete")

\* What a bundle wants is never what an operator's edit left.
LEMMA DesiredUnedited ==
  ASSUME NEW b \in Bundles
  PROVE  Desired(b) \in [ManagedFiles -> Contents] /\ "edited" \notin Contents
BY AppInstallConstants DEF Desired, Content, Contents

\* A bundle that passes the preflight finds no edited file.
LEMMA PreflightFindsNoEdit ==
  ASSUME AppInd, NEW b \in Bundles, PreflightPasses(b)
  PROVE  managed \in [ManagedFiles -> Contents]
<1>1. CASE \A file \in ManagedFiles : managed[file] = "none"
  BY <1>1 DEF AppInd, Contents
<1>2. CASE managed = Desired(b)
  BY <1>2, DesiredUnedited
<1>3. CASE AuthorizeManagedFileUpgrade
  BY <1>3, DesiredUnedited DEF AuthorizeManagedFileUpgrade, AppInd
<1> QED
  BY <1>1, <1>2, <1>3 DEF PreflightPasses, ManagedPrestate

\* An apply begins with the observations that were approved.
LEMMA ApplyBegins ==
  ASSUME AppInd, NEW b \in Bundles, BeginApply(b)
  PROVE  AppInd'
<1>1. managed \in [ManagedFiles -> Contents]
  BY PreflightFindsNoEdit DEF BeginApply
<1>2. package.installed \in Nat /\ package.candidate \in Nat
  BY DEF AppInd
<1> DEFINE v == IF package.installed = 0 THEN package.candidate ELSE package.installed
<1>3. install' = [bundle |-> b, doing |-> "packages", next |-> 1, before |-> managed, version |-> v,
                        late |-> FALSE]
  BY DEF BeginApply
<1>4. install' \in Applying
  BY <1>1, <1>2, <1>3 DEF Applying, Doings
<1>5. package.installed = 0 => approved.candidate = package.candidate
  BY DEF BeginApply, ValidateApprovedPlan, Observed
<1> QED
  BY <1>2, <1>3, <1>4, <1>5 DEF AppInd, ApplyFits, BeginApply

\* The steps of an apply keep what it knows.
LEMMA ApplySteps ==
  ASSUME AppInd,
         RecheckApt \/ AptInstall \/ EnsureGroups \/ StageRelease \/ FinishRelease \/ CheckManagedFile
           \/ ReplaceManagedFile \/ SwitchCurrent \/ VerifyInstalled \/ WriteApplied
  PROVE  AppInd'
<1>1. ApplyFits
  BY DEF AppInd, Nobody, RecheckApt, AptInstall, EnsureGroups, StageRelease, FinishRelease,
         CheckManagedFile, ReplaceManagedFile, SwitchCurrent, VerifyInstalled, WriteApplied
<1>2. /\ install \in Applying /\ install.bundle \in Bundles /\ install.version \in Nat /\ install.next \in Nat
      /\ DOMAIN releases = Bundles /\ releases \in [Bundles -> Releases]
  BY <1>1 DEF ApplyFits, Applying, AppInd
<1>3. \A d \in Doings : [install EXCEPT !.doing = d] \in Applying
                        /\ [install EXCEPT !.doing = d].bundle = install.bundle
                        /\ [install EXCEPT !.doing = d].version = install.version
                        /\ [install EXCEPT !.doing = d].doing = d
  BY <1>2 DEF Applying
<1>4. CASE RecheckApt
  <2>1. install' \in Applying /\ install'.doing = "apt" /\ install'.bundle = install.bundle
        /\ install'.version = install.version
    BY <1>3, <1>4 DEF RecheckApt, InstallGoes, Doings
  <2> QED
    BY <1>1, <1>4, <2>1 DEF RecheckApt, AppInd, ApplyFits
<1>5. CASE AptInstall
  <2>1. install' \in Applying /\ install'.doing = "groups" /\ install'.bundle = install.bundle
    BY <1>3, <1>5 DEF AptInstall, InstallGoes, Doings
  <2>2. package' \in [installed : Nat, candidate : Nat]
    BY <1>2, <1>5 DEF AptInstall, AppInd
  <2> QED
    BY <1>1, <1>5, <2>1, <2>2 DEF AptInstall, AppInd, ApplyFits
<1>6. CASE EnsureGroups
  <2>1. install' \in Applying /\ install'.doing = "release"
    BY <1>3, <1>6 DEF EnsureGroups, InstallGoes, Doings
  <2> QED
    BY <1>1, <1>6, <2>1 DEF EnsureGroups, AppInd, ApplyFits
<1>7. CASE StageRelease
  <2>1. CASE releases[install.bundle] = "complete"
    <3>1. install' \in Applying /\ install'.doing = "files" /\ install'.bundle = install.bundle
      BY <1>3, <1>7, <2>1 DEF StageRelease, InstallGoes, Doings
    <3> QED
      BY <1>1, <1>7, <2>1, <3>1 DEF StageRelease, AppInd, ApplyFits
  <2>2. CASE releases[install.bundle] # "complete"
    <3>1. install' \in Applying /\ install'.doing = "smoke"
      BY <1>3, <1>7, <2>2 DEF StageRelease, InstallGoes, Doings
    <3>2. releases' \in [Bundles -> Releases] /\ \A b \in Bundles : releases[b] = "complete" => releases'[b] = "complete"
      BY <1>2, <1>7, <2>2 DEF StageRelease, Releases
    <3> QED
      BY <1>1, <1>7, <3>1, <3>2 DEF StageRelease, AppInd, ApplyFits
  <2> QED
    BY <2>1, <2>2
<1>8. CASE FinishRelease
  <2>1. install' \in Applying /\ install'.doing = "files" /\ install'.bundle = install.bundle
    BY <1>3, <1>8 DEF FinishRelease, InstallGoes, Doings
  <2>2. releases' \in [Bundles -> Releases] /\ \A b \in Bundles : releases[b] = "complete" => releases'[b] = "complete"
    BY <1>2, <1>8 DEF FinishRelease, Releases
  <2>3. releases'[install.bundle] = "complete"
    BY <1>2, <1>8 DEF FinishRelease
  <2> QED
    BY <1>1, <1>8, <2>1, <2>2, <2>3 DEF FinishRelease, AppInd, ApplyFits
<1>9. CASE CheckManagedFile
  <2>0. /\ install.doing = "files" /\ install.next \in ManagedFiles
        /\ managed[install.next] = install.before[install.next] /\ managed[install.next] # "edited"
    BY <1>2, <1>9, AppInstallConstants DEF CheckManagedFile, Applying, Contents
  <2>1. CASE install' = [install EXCEPT !.next = @ + 1]
    <3>1. install' \in Applying /\ install'.doing = install.doing /\ install'.bundle = install.bundle
          /\ install'.version = install.version
      BY <1>2, <2>1 DEF Applying
    <3> QED
      BY <1>1, <1>9, <2>0, <3>1 DEF CheckManagedFile, AppInd, ApplyFits
  <2>2. CASE install' = [install EXCEPT !.doing = "replace"]
    <3>1. install' \in Applying /\ install'.doing = "replace" /\ install'.bundle = install.bundle
          /\ install'.version = install.version /\ install'.next = install.next
      BY <1>2, <2>2 DEF Applying, Doings
    <3> QED
      BY <1>1, <1>9, <2>0, <3>1 DEF CheckManagedFile, AppInd, ApplyFits
  <2> QED
    BY <1>9, <2>1, <2>2 DEF CheckManagedFile
<1>13. CASE ReplaceManagedFile
  <2>1. install' = [install EXCEPT !.doing = "files", !.next = @ + 1, !.late = FALSE]
    BY <1>13 DEF ReplaceManagedFile
  <2>2. install' \in Applying /\ install'.doing = "files" /\ install'.bundle = install.bundle
        /\ install'.version = install.version
    <3>1. install' = [bundle |-> install.bundle, doing |-> "files", next |-> install.next + 1,
                      before |-> install.before, version |-> install.version, late |-> FALSE]
      BY <1>2, <2>1 DEF Applying
    <3>2. install.before \in [ManagedFiles -> Contents] /\ install.next + 1 \in Nat
      BY <1>2 DEF Applying
    <3> QED
      BY <1>2, <3>1, <3>2 DEF Applying, Doings
  <2>3. managed' \in [ManagedFiles -> Contents \cup {"edited"}]
    BY <1>2, <1>13 DEF ReplaceManagedFile, Content, Contents, AppInd
  <2> QED
    BY <1>1, <1>13, <2>2, <2>3 DEF ReplaceManagedFile, AppInd, ApplyFits
<1>10. CASE SwitchCurrent
  <2>1. install' \in Applying /\ install'.doing = "verify" /\ install'.bundle = install.bundle
    BY <1>3, <1>10 DEF SwitchCurrent, InstallGoes, Doings
  <2> QED
    BY <1>1, <1>2, <1>10, <2>1 DEF SwitchCurrent, AppInd, ApplyFits
<1>11. CASE VerifyInstalled
  <2>1. install' \in Applying /\ install'.doing = "journal" /\ install'.bundle = install.bundle
    BY <1>3, <1>11 DEF VerifyInstalled, InstallGoes, Doings
  <2> QED
    BY <1>1, <1>11, <2>1 DEF VerifyInstalled, AppInd, ApplyFits
<1>12. CASE WriteApplied
  BY <1>12 DEF WriteApplied, AppInd
<1> QED
  BY <1>4, <1>5, <1>6, <1>7, <1>8, <1>9, <1>10, <1>11, <1>12, <1>13

\* So do dry runs, ends of an apply and whatever the operator and the device do meanwhile.
LEMMA AppSteps ==
  ASSUME AppInd, [AppNext]_appVars
  PROVE  AppInd'
<1>1. CASE UNCHANGED appVars
  BY <1>1 DEF appVars, AppInd, ApplyFits
<1>2. CASE \E b \in Bundles : BeginApply(b)
  BY <1>2, ApplyBegins
<1>3. CASE \E b \in Bundles : DryRun(b)
  BY <1>3 DEF DryRun, AppInd, ApplyFits, Nobody, Applying, Doings
<1>4. CASE RefuseApply \/ LosePower
  <2>1. /\ install' = Nobody /\ managed' = managed /\ current' = current /\ package' = package
        /\ releases' = [b \in Bundles |-> IF releases[b] = "staged" THEN "absent" ELSE releases[b]]
    BY <1>4 DEF RefuseApply, LosePower
  <2>2. releases' \in [Bundles -> Releases] /\ \A b \in Bundles : releases[b] = "complete" => releases'[b] = "complete"
    BY <2>1 DEF AppInd, Releases
  <2> QED
    BY <2>1, <2>2 DEF AppInd
<1>5. CASE EditFile
  <2>1. PICK file \in ManagedFiles :
          /\ managed' = [managed EXCEPT ![file] = "edited"]
          /\ install' = IF install.doing = "replace" /\ install.next = file
                      THEN [install EXCEPT !.late = TRUE] ELSE install
    BY <1>5 DEF EditFile
  <2>2. managed' \in [ManagedFiles -> Contents \cup {"edited"}]
    BY <2>1 DEF AppInd
  <2>3. CASE install = Nobody
    <3>1. install' = install
      <4>1. install.doing # "replace"
        BY <2>3 DEF Nobody
      <4> QED
        BY <2>1, <4>1
    <3> QED
      BY <1>5, <2>2, <2>3, <3>1 DEF EditFile, AppInd
  <2>4. CASE ApplyFits
    <3>1. install \in Applying /\ install.late \in BOOLEAN
      BY <2>4 DEF ApplyFits, Applying
    <3>2. /\ install' \in Applying /\ install'.doing = install.doing /\ install'.bundle = install.bundle
          /\ install'.version = install.version /\ install'.next = install.next
      BY <2>1, <3>1 DEF Applying
    <3>3. install.late => install'.late
      BY <2>1, <3>1 DEF Applying
    <3>4. install.doing = "replace" /\ install.next = file => install'.late
      BY <2>1, <3>1 DEF Applying
    <3>5. install'.doing = "replace" =>
            install'.next \in ManagedFiles /\ (managed'[install'.next] = "edited" => install'.late)
      BY <2>1, <2>4, <3>2, <3>3, <3>4 DEF ApplyFits, AppInd
    <3> QED
      BY <1>5, <2>2, <2>4, <3>2, <3>5 DEF EditFile, AppInd, ApplyFits
  <2> QED
    BY <2>3, <2>4 DEF AppInd
<1>6. CASE RefreshIndex
  <2>1. package' \in [installed : Nat, candidate : Nat] /\ package'.installed = package.installed
    BY <1>6 DEF RefreshIndex, AppInd
  <2> QED
    BY <1>6, <2>1 DEF RefreshIndex, AppInd, ApplyFits
<1>7. CASE ToggleRecorder \/ DeviceChanges
  BY <1>7 DEF ToggleRecorder, DeviceChanges, AppInd, ApplyFits
<1> QED
  BY <1>1, <1>2, <1>3, <1>4, <1>5, <1>6, <1>7, ApplySteps DEF AppNext

\* A step replaces no file that was edited before the last look at it, and installs no
\* other version than the approved one.
LEMMA StepAppliesThePlan ==
  ASSUME AppInd, [AppNext]_appVars
  PROVE  /\ \A file \in ManagedFiles :
              managed[file] = "edited" /\ managed'[file] # "edited" =>
                install.doing = "replace" /\ install.next = file /\ install.late
         /\ package'.installed # package.installed => package'.installed = approved.candidate
<1>1. CASE managed' = managed /\ package' = package
  BY <1>1
<1>2. CASE AptInstall
  <2>1. install.doing = "apt" /\ managed' = managed
    BY <1>2 DEF AptInstall
  <2>2. ApplyFits
    BY <2>1 DEF AppInd, Nobody
  <2>3. package' = package \/ (package.installed = 0 /\ package'.installed = install.version)
    BY <1>2 DEF AptInstall, AppInd
  <2> QED
    BY <2>1, <2>2, <2>3 DEF ApplyFits
<1>3. CASE ReplaceManagedFile
  <2>1. install.doing = "replace" /\ package' = package
        /\ managed' = [managed EXCEPT ![install.next] = Content(install.bundle, install.next)]
    BY <1>3 DEF ReplaceManagedFile
  <2>2. managed[install.next] = "edited" => install.late
    BY <2>1 DEF AppInd, ApplyFits, Nobody
  <2> QED
    BY <2>1, <2>2 DEF AppInd
<1>4. CASE EditFile
  BY <1>4 DEF EditFile, AppInd
<1>5. CASE RefreshIndex
  BY <1>5 DEF RefreshIndex, AppInd
<1> QED
  BY <1>1, <1>2, <1>3, <1>4, <1>5 DEF AppNext, appVars, DryRun, BeginApply, RecheckApt, EnsureGroups, StageRelease,
     FinishRelease, CheckManagedFile, SwitchCurrent, VerifyInstalled, WriteApplied, RefuseApply, LosePower, ToggleRecorder,
     DeviceChanges

\* InstallSound for every set of bundles and files, every number of edits, refreshed indices and
\* power cuts: the link names a whole release, a file edited before the last look at it stays as
\* the operator left it, and
\* a package is installed in the approved version.
THEOREM OnlyThePlanIsApplied == AppSpec => InstallSound
<1>1. AppInit => AppInd
  BY DEF AppInit, AppInd, Contents, Releases
<1>2. AppInd => CurrentComplete
  BY AppInstallConstants DEF AppInd, CurrentComplete
<1>3. AppInd /\ [AppNext]_appVars =>
        [/\ \A file \in ManagedFiles :
              managed[file] = "edited" /\ managed'[file] # "edited" =>
                install.doing = "replace" /\ install.next = file /\ install.late
         /\ package'.installed # package.installed => package'.installed = approved.candidate]_appVars
  BY StepAppliesThePlan
<1> QED
  BY <1>1, <1>2, <1>3, AppSteps, PTL DEF AppSpec, InstallSound, AppliesOnlyThePlan

-----------------------------------------------------------------------------
(* NetworkFallback *)

\* One process that selects the network, or retries the client.
Selection == [at : {"idle", "persisted", "identity", "down", "find", "poll", "credentials", "store", "profile", "load",
                    "up", "verify", "publish", "done"},
              left : Nat, creds : Nat, mode : {"none", "retrying", "REFUSED", "CLIENT", "AP"}, told : BOOLEAN]

\* The types of what the network invariant speaks of.
NetworkTypeOK ==
  /\ procs \in [Processes -> Selection] /\ fresh \in Nat
  /\ private \in [id : Nat, form : {"absent", "malformed", "v1", "v2", "unreadable"}]
  /\ profile \in Nat /\ manager \in [loaded : Nat, active : {"none", "client", "ap"}, ap : Nat]

\* Where the boot's selection is.
Boot == procs["boot"]

\* Credentials are stored, then written into the profile, then loaded, then up.
Stored == private = [id |-> Boot.creds, form |-> "v2"]
Written == Stored /\ profile = Boot.creds
Loaded == Written /\ manager.loaded = Boot.creds
Up == Loaded /\ manager.active = "ap" /\ manager.ap = Boot.creds

\* While no operator has interfered in this boot, what the boot's selection has done stands.
BootFits ==
  procs["operator"] = NotRun =>
    /\ Boot.at = "profile" => Stored
    /\ Boot.at = "load" => Written
    /\ Boot.at \in {"up", "verify"} => Loaded
    /\ Boot.at = "publish" => Up
    /\ Boot.told => Boot.at = "done"
    /\ Boot.at = "done" /\ Boot.mode = "AP" /\ Boot.told => Up /\ handoff = Boot.creds
    /\ Boot.mode = "AP" => Boot.at = "done"

\* Inductive: types, and what the boot has done so far.
NetworkInd == NetworkTypeOK /\ BootFits

\* What an operator's retry does is not the business of a boot that nobody interferes with.
LEMMA OperatorInterferes ==
    ASSUME NetworkTypeOK', procs'["operator"].at # "idle"
    PROVE  NetworkInd'
BY DEF NetworkInd, BootFits, NotRun

\* A step of a process writes its own entry, and only what it may.
LEMMA SelectionTypes ==
    ASSUME NetworkTypeOK, NEW p \in Processes, Selects(p)
    PROVE  /\ NetworkTypeOK' /\ procs'[p].at # "idle"
           /\ \A o \in Processes : o # p => procs'[o] = procs[o]
<1>0. /\ procs \in [Processes -> Selection] /\ procs[p] \in Selection /\ fresh \in Nat
      /\ private \in [id : Nat, form : {"absent", "malformed", "v1", "v2", "unreadable"}]
  BY DEF NetworkTypeOK
<1>m. profile' \in Nat /\ manager' \in [loaded : Nat, active : {"none", "client", "ap"}, ap : Nat]
  <2>1. profile \in Nat /\ manager \in [loaded : Nat, active : {"none", "client", "ap"}, ap : Nat] /\ procs[p].creds \in Nat
    BY <1>0 DEF NetworkTypeOK, Selection
  <2>2. \/ UNCHANGED <<profile, manager>>
        \/ profile' = procs[p].creds /\ UNCHANGED manager
        \/ manager' = [manager EXCEPT !.loaded = profile] /\ UNCHANGED profile
        \/ manager' = [manager EXCEPT !.active = "ap", !.ap = manager.loaded] /\ UNCHANGED profile
    BY DEF Selects, FindOneWifiInterface, PollClient, WindowExpires, Credentials, StoreCredentials,
           WriteProfile, LoadProfile, ConnectionUp, VerifyAp, Publish
  <2> QED
    BY <2>1, <2>2
<1>1. ASSUME NEW k \in Selection, procs' = [procs EXCEPT ![p] = k], k.at # "idle", fresh' \in Nat,
             private' \in [id : Nat, form : {"absent", "malformed", "v1", "v2", "unreadable"}]
      PROVE  /\ NetworkTypeOK' /\ procs'[p].at # "idle"
             /\ \A o \in Processes : o # p => procs'[o] = procs[o]
  BY <1>0, <1>1, <1>m DEF NetworkTypeOK
<1>2. ASSUME NEW at \in {"poll", "credentials", "store", "profile", "identity", "load", "up", "verify", "publish"},
             NEW n \in Nat, procs' = [procs EXCEPT ![p].at = at, ![p].left = n] \/ procs' = [procs EXCEPT ![p].at = at]
                            \/ procs' = [procs EXCEPT ![p].at = at, ![p].creds = n], fresh' \in Nat,
             private' \in [id : Nat, form : {"absent", "malformed", "v1", "v2", "unreadable"}]
      PROVE  /\ NetworkTypeOK' /\ procs'[p].at # "idle"
             /\ \A o \in Processes : o # p => procs'[o] = procs[o]
  <2>1. CASE procs' = [procs EXCEPT ![p].at = at, ![p].left = n]
    <3> DEFINE k == [procs[p] EXCEPT !.at = at, !.left = n]
    <3>1. k \in Selection /\ k.at # "idle" /\ procs' = [procs EXCEPT ![p] = k]
      BY <1>0, <2>1 DEF Selection
    <3> HIDE DEF k
    <3> QED
      BY <1>1, <1>2, <3>1
  <2>2. CASE procs' = [procs EXCEPT ![p].at = at]
    <3> DEFINE k == [procs[p] EXCEPT !.at = at]
    <3>1. k \in Selection /\ k.at # "idle" /\ procs' = [procs EXCEPT ![p] = k]
      BY <1>0, <2>2 DEF Selection
    <3> HIDE DEF k
    <3> QED
      BY <1>1, <1>2, <3>1
  <2>3. CASE procs' = [procs EXCEPT ![p].at = at, ![p].creds = n]
    <3> DEFINE k == [procs[p] EXCEPT !.at = at, !.creds = n]
    <3>1. k \in Selection /\ k.at # "idle" /\ procs' = [procs EXCEPT ![p] = k]
      BY <1>0, <2>3 DEF Selection
    <3> HIDE DEF k
    <3> QED
      BY <1>1, <1>2, <3>1
  <2> QED
    BY <1>2, <2>1, <2>2, <2>3
<1>3. ASSUME NEW mode \in {"REFUSED", "CLIENT", "AP"}, Selected(p, mode), fresh' \in Nat,
             private' \in [id : Nat, form : {"absent", "malformed", "v1", "v2", "unreadable"}]
      PROVE  /\ NetworkTypeOK' /\ procs'[p].at # "idle"
             /\ \A o \in Processes : o # p => procs'[o] = procs[o]
  <2> DEFINE k == [procs[p] EXCEPT !.at = "done", !.mode = mode]
  <2>1. k \in Selection /\ k.at # "idle" /\ procs' = [procs EXCEPT ![p] = k]
    BY <1>0, <1>3 DEF Selection, Selected
  <2> HIDE DEF k
  <2> QED
    BY <1>1, <1>3, <2>1
<1>4. CASE FindOneWifiInterface(p)
  BY <1>0, <1>2, <1>3, <1>4, NetworkConstants DEF FindOneWifiInterface
<1>5. CASE PollClient(p)
  <2>1. CASE Selected(p, "CLIENT")
    BY <1>0, <1>3, <1>5, <2>1 DEF PollClient
  <2>2. CASE procs' = [procs EXCEPT ![p].left = @ - 1]
    <3> DEFINE k == [procs[p] EXCEPT !.left = procs[p].left - 1]
    <3>1. procs[p].left \in Nat /\ procs[p].left - 1 \in Nat /\ procs[p].at = "poll"
      BY <1>0, <1>5 DEF PollClient, Selection
    <3>2. k \in Selection /\ k.at # "idle" /\ procs' = [procs EXCEPT ![p] = k]
      BY <1>0, <2>2, <3>1 DEF Selection
    <3> HIDE DEF k
    <3> QED
      BY <1>0, <1>1, <1>5, <3>2 DEF PollClient
  <2> QED
    BY <1>5, <2>1, <2>2 DEF PollClient
<1>6. CASE WindowExpires(p)
  BY <1>0, <1>2, <1>6 DEF WindowExpires, Proceeds
<1>7. CASE Credentials(p, "credentials", "profile")
  <2>1. private.id \in Nat /\ fresh + 1 \in Nat /\ UNCHANGED private
    BY <1>0, <1>7 DEF Credentials
  <2>2. \/ procs' = [procs EXCEPT ![p].at = "profile", ![p].creds = private.id] /\ UNCHANGED fresh
        \/ Selected(p, "REFUSED") /\ UNCHANGED fresh
        \/ procs' = [procs EXCEPT ![p].at = "store", ![p].creds = private.id] /\ UNCHANGED fresh
        \/ procs' = [procs EXCEPT ![p].at = "store", ![p].creds = fresh + 1] /\ fresh' = fresh + 1
    BY <1>7 DEF Credentials
  <2> QED
    BY <1>0, <1>2, <1>3, <2>1, <2>2
<1>8. CASE StoreCredentials(p)
  <2>1. AfterStore(p) \in {"identity", "profile"}
    BY DEF AfterStore
  <2>2. fresh' \in Nat /\ private' \in [id : Nat, form : {"absent", "malformed", "v1", "v2", "unreadable"}]
    BY <1>0, <1>8 DEF StoreCredentials, Selection
  <2>3. Selected(p, "REFUSED") \/ procs' = [procs EXCEPT ![p].at = AfterStore(p)]
    BY <1>8 DEF StoreCredentials, Proceeds
  <2> QED
    BY <1>2, <1>3, <2>1, <2>2, <2>3
<1>9. CASE WriteProfile(p)
  BY <1>0, <1>2, <1>3, <1>9 DEF WriteProfile, Proceeds
<1>10. CASE LoadProfile(p)
  BY <1>0, <1>2, <1>3, <1>10 DEF LoadProfile, Proceeds
<1>11. CASE ConnectionUp(p)
  BY <1>0, <1>2, <1>3, <1>11 DEF ConnectionUp, Proceeds
<1>12. CASE VerifyAp(p)
  BY <1>0, <1>2, <1>3, <1>12 DEF VerifyAp, Proceeds
<1>13. CASE Publish(p)
  <2>1. fresh' \in Nat /\ private' \in [id : Nat, form : {"absent", "malformed", "v1", "v2", "unreadable"}]
    BY <1>0, <1>13 DEF Publish
  <2>2. ASSUME NEW told \in BOOLEAN, procs' = [procs EXCEPT ![p].at = "done", ![p].mode = "AP", ![p].told = told]
        PROVE  /\ NetworkTypeOK' /\ procs'[p].at # "idle"
               /\ \A o \in Processes : o # p => procs'[o] = procs[o]
    <3> DEFINE k == [procs[p] EXCEPT !.at = "done", !.mode = "AP", !.told = told]
    <3>1. k \in Selection /\ k.at # "idle" /\ procs' = [procs EXCEPT ![p] = k]
      BY <1>0, <2>2 DEF Selection
    <3> HIDE DEF k
    <3> QED
      BY <1>1, <2>1, <3>1
  <2> QED
    BY <1>3, <1>13, <2>1, <2>2 DEF Publish
<1> QED
  BY <1>4, <1>5, <1>6, <1>7, <1>8, <1>9, <1>10, <1>11, <1>12, <1>13 DEF Selects

\* A step of either process.
LEMMA SelectionSteps ==
    ASSUME NetworkInd, NEW p \in Processes, Selects(p)
    PROVE  NetworkInd'
<1>0. /\ NetworkTypeOK /\ procs \in [Processes -> Selection] /\ procs[p] \in Selection
      /\ "boot" \in Processes /\ "operator" \in Processes /\ Processes = {"boot", "operator"}
  BY DEF NetworkInd, NetworkTypeOK, Processes
<1>1. /\ NetworkTypeOK' /\ procs'[p].at # "idle" /\ \A o \in Processes : o # p => procs'[o] = procs[o]
  BY <1>0, SelectionTypes
<1>2. CASE p = "operator"
  BY <1>1, <1>2 DEF NetworkInd, BootFits, NotRun
<1>3. CASE p = "boot" /\ procs["operator"] # NotRun
  BY <1>0, <1>1, <1>3 DEF NetworkInd, BootFits
<1>4. CASE p = "boot" /\ procs["operator"] = NotRun
  <2> DEFINE b == procs["boot"]
             n == procs'["boot"]
  <2>0. /\ b.at = "profile" => private = [id |-> b.creds, form |-> "v2"]
        /\ b.at \in {"load", "up", "verify", "publish"} =>
             private = [id |-> b.creds, form |-> "v2"] /\ profile = b.creds
        /\ b.at \in {"up", "verify", "publish"} => manager.loaded = b.creds
        /\ b.at = "publish" => manager.active = "ap" /\ manager.ap = b.creds
        /\ b.at # "done" => ~b.told /\ b.mode # "AP"
    BY <1>4 DEF NetworkInd, BootFits, Boot, Stored, Written, Loaded, Up
  <2>b. b \in Selection /\ b.at # "done"
    BY <1>0, <1>4 DEF Selects, FindOneWifiInterface, PollClient, WindowExpires, Credentials, StoreCredentials,
                  WriteProfile, LoadProfile, ConnectionUp, VerifyAp, Publish
  <2>c. SUFFICES
          /\ n.at = "profile" => private' = [id |-> n.creds, form |-> "v2"]
          /\ n.at \in {"load", "up", "verify", "publish"} =>
               private' = [id |-> n.creds, form |-> "v2"] /\ profile' = n.creds
          /\ n.at \in {"up", "verify", "publish"} => manager'.loaded = n.creds
          /\ n.at = "publish" => manager'.active = "ap" /\ manager'.ap = n.creds
          /\ n.at # "done" => ~n.told /\ n.mode # "AP"
          /\ n.at = "done" /\ n.mode = "AP" /\ n.told =>
               /\ private' = [id |-> n.creds, form |-> "v2"] /\ profile' = n.creds /\ manager'.loaded = n.creds
               /\ manager'.active = "ap" /\ manager'.ap = n.creds /\ handoff' = n.creds
    BY <1>1 DEF NetworkInd, BootFits, Boot, Stored, Written, Loaded, Up
  <2>d. ASSUME NEW at, procs' = [procs EXCEPT ![p].at = at]
        PROVE  n.at = at /\ n.creds = b.creds /\ n.told = b.told /\ n.mode = b.mode
    BY <1>0, <1>4, <2>d DEF Selection
  <2>e. ASSUME NEW mode, Selected(p, mode)
        PROVE  n.at = "done" /\ n.creds = b.creds /\ n.told = b.told /\ n.mode = mode
    BY <1>0, <1>4, <2>e DEF Selection, Selected
  <2>f. ASSUME NEW at, NEW id, procs' = [procs EXCEPT ![p].at = at, ![p].creds = id]
        PROVE  n.at = at /\ n.creds = id /\ n.told = b.told /\ n.mode = b.mode
    BY <1>0, <1>4, <2>f DEF Selection
  <2>g. ASSUME NEW at, NEW left, procs' = [procs EXCEPT ![p].at = at, ![p].left = left]
        PROVE  n.at = at /\ n.creds = b.creds /\ n.told = b.told /\ n.mode = b.mode
    BY <1>0, <1>4, <2>g DEF Selection
  <2>h. ASSUME NEW mode, Selected(p, mode)
        PROVE  n.at = "done" /\ ~n.told
    BY <2>0, <2>b, <2>e, <2>h
  <2>1. CASE FindOneWifiInterface(p)
    BY <2>0, <2>b, <2>1, <2>g, <2>h DEF FindOneWifiInterface
  <2>2. CASE PollClient(p)
    <3>1. CASE Selected(p, "CLIENT")
      BY <2>h, <3>1
    <3>2. CASE procs' = [procs EXCEPT ![p].left = @ - 1]
      <4>1. n.at = b.at /\ n.told = b.told /\ n.mode = b.mode /\ b.at = "poll"
        BY <1>0, <1>4, <2>2, <3>2 DEF Selection, PollClient
      <4> QED
        BY <2>0, <4>1
    <3> QED
      BY <2>2, <3>1, <3>2 DEF PollClient
  <2>3. CASE WindowExpires(p)
    BY <2>0, <2>b, <2>3, <2>d DEF WindowExpires, Proceeds
  <2>4. CASE Credentials(p, "credentials", "profile")
    <3>1. CASE private.form = "v2" /\ procs' = [procs EXCEPT ![p].at = "profile", ![p].creds = private.id]
      <4>1. private = [id |-> private.id, form |-> "v2"] /\ UNCHANGED private
        BY <1>0, <2>4, <3>1 DEF NetworkTypeOK, Credentials
      <4>2. n.at = "profile" /\ n.creds = private.id /\ n.told = b.told /\ n.mode = b.mode
        BY <2>f, <3>1
      <4> QED
        BY <2>0, <2>b, <4>1, <4>2
    <3>2. CASE Selected(p, "REFUSED")
      BY <2>h, <3>2
    <3>3. CASE \E id : procs' = [procs EXCEPT ![p].at = "store", ![p].creds = id]
      <4>1. n.at = "store" /\ n.told = b.told /\ n.mode = b.mode
        BY <2>f, <3>3
      <4> QED
        BY <2>0, <2>b, <4>1
    <3> QED
      BY <2>4, <3>1, <3>2, <3>3 DEF Credentials
  <2>5. CASE StoreCredentials(p)
    <3>1. CASE Selected(p, "REFUSED")
      BY <2>h, <3>1
    <3>2. CASE private' = [id |-> procs[p].creds, form |-> "v2"] /\ Proceeds(p, AfterStore(p))
      <4>1. AfterStore(p) = "profile"
        BY <1>4 DEF AfterStore
      <4>2. n.at = "profile" /\ n.creds = b.creds /\ n.told = b.told /\ n.mode = b.mode
        BY <2>d, <3>2, <4>1 DEF Proceeds
      <4> QED
        BY <1>4, <2>0, <2>b, <3>2, <4>2
    <3> QED
      BY <2>5, <3>1, <3>2 DEF StoreCredentials
  <2>6. CASE WriteProfile(p)
    <3>1. CASE Selected(p, "REFUSED")
      BY <2>h, <3>1
    <3>2. CASE profile' = procs[p].creds /\ Proceeds(p, "load")
      <4>1. n.at = "load" /\ n.creds = b.creds /\ n.told = b.told /\ n.mode = b.mode
        BY <2>d, <3>2 DEF Proceeds
      <4>2. b.at = "profile" /\ UNCHANGED private
        BY <1>4, <2>6 DEF WriteProfile
      <4> QED
        BY <1>4, <2>0, <2>b, <3>2, <4>1, <4>2
    <3> QED
      BY <2>6, <3>1, <3>2 DEF WriteProfile
  <2>7. CASE LoadProfile(p)
    <3>1. CASE Selected(p, "REFUSED")
      BY <2>h, <3>1
    <3>2. CASE manager' = [manager EXCEPT !.loaded = profile] /\ Proceeds(p, "up")
      <4>1. n.at = "up" /\ n.creds = b.creds /\ n.told = b.told /\ n.mode = b.mode
        BY <2>d, <3>2 DEF Proceeds
      <4>2. b.at = "load" /\ UNCHANGED <<private, profile>>
        BY <1>4, <2>7 DEF LoadProfile
      <4>3. manager'.loaded = profile
        BY <1>0, <3>2 DEF NetworkTypeOK
      <4> QED
        BY <2>0, <2>b, <4>1, <4>2, <4>3
    <3> QED
      BY <2>7, <3>1, <3>2 DEF LoadProfile
  <2>8. CASE ConnectionUp(p)
    <3>1. CASE Selected(p, "REFUSED")
      BY <2>h, <3>1
    <3>2. CASE manager' = [manager EXCEPT !.active = "ap", !.ap = manager.loaded] /\ Proceeds(p, "verify")
      <4>1. n.at = "verify" /\ n.creds = b.creds /\ n.told = b.told /\ n.mode = b.mode
        BY <2>d, <3>2 DEF Proceeds
      <4>2. b.at = "up" /\ UNCHANGED <<private, profile>>
        BY <1>4, <2>8 DEF ConnectionUp
      <4>3. manager'.loaded = manager.loaded
        BY <1>0, <3>2 DEF NetworkTypeOK
      <4> QED
        BY <2>0, <2>b, <4>1, <4>2, <4>3
    <3> QED
      BY <2>8, <3>1, <3>2 DEF ConnectionUp
  <2>9. CASE VerifyAp(p)
    <3>1. CASE Selected(p, "REFUSED")
      BY <2>h, <3>1
    <3>2. CASE ApIsExactlyActive(p) /\ Proceeds(p, "publish")
      <4>1. n.at = "publish" /\ n.creds = b.creds /\ n.told = b.told /\ n.mode = b.mode
        BY <2>d, <3>2 DEF Proceeds
      <4>2. b.at = "verify" /\ UNCHANGED <<private, profile, manager>>
        BY <1>4, <2>9 DEF VerifyAp
      <4> QED
        BY <1>4, <2>0, <2>b, <3>2, <4>1, <4>2 DEF ApIsExactlyActive
    <3> QED
      BY <2>9, <3>1, <3>2 DEF VerifyAp
  <2>10. CASE Publish(p)
    <3>1. CASE Selected(p, "AP")
      BY <2>h, <3>1
    <3>2. ASSUME NEW told \in BOOLEAN, handoff' = procs[p].creds,
                 procs' = [procs EXCEPT ![p].at = "done", ![p].mode = "AP", ![p].told = told]
          PROVE  /\ n.at = "done"
                 /\ private' = [id |-> n.creds, form |-> "v2"] /\ profile' = n.creds /\ manager'.loaded = n.creds
                 /\ manager'.active = "ap" /\ manager'.ap = n.creds /\ handoff' = n.creds
      <4>1. n.at = "done" /\ n.creds = b.creds
        BY <1>0, <1>4, <3>2 DEF Selection
      <4>2. b.at = "publish" /\ UNCHANGED <<private, profile, manager>>
        BY <1>4, <2>10 DEF Publish
      <4> QED
        BY <1>4, <2>0, <3>2, <4>1, <4>2
    <3>3. CASE handoff' = procs[p].creds /\ \E told \in BOOLEAN :
                 procs' = [procs EXCEPT ![p].at = "done", ![p].mode = "AP", ![p].told = told]
      BY <3>2, <3>3
    <3> QED
      BY <2>10, <3>1, <3>3 DEF Publish
  <2> QED
    BY <2>1, <2>2, <2>3, <2>4, <2>5, <2>6, <2>7, <2>8, <2>9, <2>10 DEF Selects
<1> QED
  BY <1>0, <1>2, <1>3, <1>4

\* Steps of the operator's retry, from its own beginning to the end of its own connection.
LEMMA RetrySteps ==
    ASSUME NetworkInd, Retries \/ RetryClient
    PROVE  NetworkInd'
<1>0. /\ NetworkTypeOK /\ procs \in [Processes -> Selection] /\ procs["operator"] \in Selection /\ fresh \in Nat
      /\ private \in [id : Nat, form : {"absent", "malformed", "v1", "v2", "unreadable"}]
      /\ profile \in Nat /\ manager \in [loaded : Nat, active : {"none", "client", "ap"}, ap : Nat]
      /\ "operator" \in Processes
  BY DEF NetworkInd, NetworkTypeOK, Processes
<1>1. fresh' \in Nat /\ UNCHANGED <<private, profile>>
  BY <1>0 DEF Retries, RetryClient, Credentials, PersistedApIdentity, ConnectionDown
<1>2. manager' \in [loaded : Nat, active : {"none", "client", "ap"}, ap : Nat]
  <2>1. manager' = manager \/ manager' = [manager EXCEPT !.active = "none", !.ap = 0]
    BY DEF Retries, RetryClient, Credentials, PersistedApIdentity, ConnectionDown
  <2>2. [manager EXCEPT !.active = "none", !.ap = 0] \in [loaded : Nat, active : {"none", "client", "ap"}, ap : Nat]
    BY <1>0
  <2> QED
    BY <1>0, <2>1, <2>2
<1>3. ASSUME NEW k \in Selection, procs' = [procs EXCEPT !["operator"] = k], k.at # "idle"
      PROVE  NetworkInd'
  <2>1. NetworkTypeOK' /\ procs'["operator"].at # "idle"
    BY <1>0, <1>1, <1>2, <1>3 DEF NetworkTypeOK
  <2> QED
    BY <2>1, OperatorInterferes
<1>4. NotRun \in Selection
  BY DEF NotRun, Selection
<1>5. ASSUME NEW at \in {"identity", "store", "down", "done"}, NEW id \in Nat, NEW mode \in {"REFUSED", "AP"},
             \/ procs' = [procs EXCEPT !["operator"].at = at, !["operator"].creds = id]
             \/ procs' = [procs EXCEPT !["operator"].at = at]
             \/ procs' = [procs EXCEPT !["operator"].at = at, !["operator"].mode = mode]
      PROVE  NetworkInd'
  <2>1. CASE procs' = [procs EXCEPT !["operator"].at = at, !["operator"].creds = id]
    <3> DEFINE k == [procs["operator"] EXCEPT !.at = at, !.creds = id]
    <3>1. k \in Selection /\ k.at # "idle" /\ procs' = [procs EXCEPT !["operator"] = k]
      BY <1>0, <2>1 DEF Selection
    <3> HIDE DEF k
    <3> QED
      BY <1>3, <3>1
  <2>2. CASE procs' = [procs EXCEPT !["operator"].at = at]
    <3> DEFINE k == [procs["operator"] EXCEPT !.at = at]
    <3>1. k \in Selection /\ k.at # "idle" /\ procs' = [procs EXCEPT !["operator"] = k]
      BY <1>0, <2>2 DEF Selection
    <3> HIDE DEF k
    <3> QED
      BY <1>3, <3>1
  <2>3. CASE procs' = [procs EXCEPT !["operator"].at = at, !["operator"].mode = mode]
    <3> DEFINE k == [procs["operator"] EXCEPT !.at = at, !.mode = mode]
    <3>1. k \in Selection /\ k.at # "idle" /\ procs' = [procs EXCEPT !["operator"] = k]
      BY <1>0, <2>3 DEF Selection
    <3> HIDE DEF k
    <3> QED
      BY <1>3, <3>1
  <2> QED
    BY <1>5, <2>1, <2>2, <2>3
<1>6. CASE RetryClient
  <2>1. procs' = [procs EXCEPT !["operator"] = [NotRun EXCEPT !.at = "persisted"]]
    BY <1>6 DEF RetryClient
  <2>2. [NotRun EXCEPT !.at = "persisted"] \in Selection /\ [NotRun EXCEPT !.at = "persisted"].at # "idle"
    BY <1>4 DEF Selection, NotRun
  <2> QED
    BY <1>3, <2>1, <2>2
<1>7. CASE Credentials("operator", "persisted", "identity")
  <2>1. private.id \in Nat /\ fresh + 1 \in Nat
    BY <1>0
  <2>2. \/ procs' = [procs EXCEPT !["operator"].at = "identity", !["operator"].creds = private.id]
        \/ procs' = [procs EXCEPT !["operator"].at = "done", !["operator"].mode = "REFUSED"]
        \/ procs' = [procs EXCEPT !["operator"].at = "store", !["operator"].creds = private.id]
        \/ procs' = [procs EXCEPT !["operator"].at = "store", !["operator"].creds = fresh + 1]
    BY <1>7 DEF Credentials, Selected
  <2> QED
    BY <1>5, <2>1, <2>2
<1>8. CASE PersistedApIdentity
  <2>1. \/ procs' = [procs EXCEPT !["operator"].at = "down"]
        \/ procs' = [procs EXCEPT !["operator"].at = "done", !["operator"].mode = "REFUSED"]
    BY <1>8 DEF PersistedApIdentity, Proceeds, Selected
  <2> QED
    BY <1>5, <2>1
<1>9. CASE ConnectionDown
  <2> DEFINE again == [NotRun EXCEPT !.at = "find", !.mode = "retrying"]
  <2>1. again \in Selection /\ again.at # "idle"
    BY <1>4 DEF Selection, NotRun
  <2>2. \/ procs' = [procs EXCEPT !["operator"] = again]
        \/ procs' = [procs EXCEPT !["operator"].at = "done", !["operator"].mode = "AP"]
    BY <1>9 DEF ConnectionDown, Selected
  <2> HIDE DEF again
  <2> QED
    BY <1>3, <1>5, <2>1, <2>2
<1> QED
  BY <1>6, <1>7, <1>8, <1>9 DEF Retries

\* A boot begins with nothing done, whatever an earlier one left.
LEMMA BootBegins == NetworkInit => NetworkInd
<1> SUFFICES ASSUME NetworkInit PROVE NetworkInd
  OBVIOUS
<1>1. procs = [p \in Processes |-> IF p = "boot" THEN [NotRun EXCEPT !.at = "find"] ELSE NotRun]
  BY DEF NetworkInit
<1>2. /\ NotRun \in Selection /\ [NotRun EXCEPT !.at = "find"] \in Selection
      /\ [NotRun EXCEPT !.at = "find"].at = "find" /\ [NotRun EXCEPT !.at = "find"].told = FALSE
      /\ [NotRun EXCEPT !.at = "find"].mode = "none"
  BY DEF NotRun, Selection
<1>3. procs \in [Processes -> Selection] /\ procs["boot"] = [NotRun EXCEPT !.at = "find"]
  BY <1>1, <1>2 DEF Processes
<1>4. NetworkTypeOK
  BY <1>3 DEF NetworkInit, NetworkTypeOK
<1> QED
  BY <1>2, <1>3, <1>4 DEF NetworkInd, BootFits, Boot

\* Every step keeps the invariant.
LEMMA NetworkSteps == NetworkInd /\ [NetworkNext]_networkVars => NetworkInd'
<1> SUFFICES ASSUME NetworkInd, [NetworkNext]_networkVars PROVE NetworkInd'
  OBVIOUS
<1>1. CASE UNCHANGED networkVars
  BY <1>1 DEF networkVars, NetworkInd, NetworkTypeOK, BootFits, Boot, Stored, Written, Loaded, Up
<1>2. CASE \E p \in Processes : Selects(p)
  BY <1>2, SelectionSteps
<1>3. CASE Retries \/ RetryClient
  BY <1>3, RetrySteps
<1>4. CASE ClientChanges
  <2>1. /\ manager.active # "ap" /\ UNCHANGED <<private, profile, handoff, procs, fresh, outages>>
        /\ manager' = [manager EXCEPT !.active = IF @ = "client" THEN "none" ELSE "client"]
    BY <1>4 DEF ClientChanges
  <2>2. /\ manager' \in [loaded : Nat, active : {"none", "client", "ap"}, ap : Nat] /\ manager'.loaded = manager.loaded
    BY <2>1 DEF NetworkInd, NetworkTypeOK
  <2>3. NetworkTypeOK'
    BY <2>1, <2>2 DEF NetworkInd, NetworkTypeOK
  <2> QED
    BY <2>1, <2>2, <2>3 DEF NetworkInd, BootFits, Boot, Stored, Written, Loaded, Up
<1>5. CASE Outage
  <2>1. /\ procs' = [q \in Processes |-> IF q = "boot" THEN [NotRun EXCEPT !.at = "find"] ELSE NotRun]
        /\ manager' = [loaded |-> profile, active |-> "none", ap |-> 0] /\ UNCHANGED <<private, profile, handoff, fresh>>
    BY <1>5 DEF Outage
  <2>2. /\ NotRun \in Selection /\ [NotRun EXCEPT !.at = "find"] \in Selection
        /\ [NotRun EXCEPT !.at = "find"].at = "find" /\ [NotRun EXCEPT !.at = "find"].told = FALSE
        /\ [NotRun EXCEPT !.at = "find"].mode = "none"
    BY DEF NotRun, Selection
  <2>3. procs' \in [Processes -> Selection] /\ procs'["boot"] = [NotRun EXCEPT !.at = "find"]
    BY <2>1, <2>2 DEF Processes
  <2>4. NetworkTypeOK'
    BY <2>1, <2>3 DEF NetworkInd, NetworkTypeOK
  <2> QED
    BY <2>2, <2>3, <2>4 DEF NetworkInd, BootFits, Boot
<1> QED
  BY <1>1, <1>2, <1>3, <1>4, <1>5 DEF NetworkNext

\* For every length of the client's window and every number of outages and credentials: after a boot
\* that reported the access point and its hand-over, with no retry since, the private file, the
\* profile, the active connection and the file on the card hold the same credentials
\* (network_fallback.py).
THEOREM HandoffCanBeUsed == NetworkSpec => []HandoffOpens
<1>1. NetworkInd => HandoffOpens
  BY DEF NetworkInd, BootFits, Boot, Stored, Written, Loaded, Up, HandoffOpens
<1> QED
  BY <1>1, BootBegins, NetworkSteps, PTL DEF NetworkSpec
=============================================================================
