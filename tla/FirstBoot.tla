----------------------------- MODULE FirstBoot -----------------------------
(***************************************************************************)
(* The first-boot provisioning transaction of provisioning/firstboot.py:   *)
(* a pure planner that reconciles what it observes on the card with a      *)
(* durable journal, returns one phase of actions, executes them one by one *)
(* behind an identity check, and advances the journal only when the        *)
(* postcondition is observed.  Power may fail between any two actions, in  *)
(* the middle of resize2fs and of mkfs, and before the journal is stored.  *)
(***************************************************************************)
EXTENDS Naturals, Sequences

CONSTANTS MaxRetries,   \* MAX_RETRIES
          MaxReboots,   \* MAX_REBOOTS
          MaxPowerLoss  \* bound: power losses in a behaviour
ASSUME FirstBootBounds == {MaxRetries, MaxReboots, MaxPowerLoss} \subseteq Nat

VARIABLES
  card,     \* what is on the card
  evidence, \* what only the running system knows: adopted table, checks, mount
  journal,  \* the durable journal, [phase |-> NoJournal] before it is started
  plan,     \* the plan being executed: actions left, phase aimed at, journal
  losses    \* bound: power losses so far

fbVars == <<card, evidence, journal, plan, losses>>

\* RuntimePhase, in the order of _phase_rank.
NoJournal == 0
SOURCE_VERIFIED == 1
BACKUP_VALIDATED == 2
TABLE_COMMITTED == 3
ROOT_CHECKED == 4
ROOT_READY == 5
SIGNATURE_VERIFIED == 6
DATA_FORMATTED == 7
EARLY_COMPLETE == 8
VOLUME_MOUNTED == 9
SENTINEL_DURABLE == 10
COMPLETE == 11

Refused == NoJournal   \* a reconciliation that calls _refuse
NoPlan == [next |-> NoJournal, todo |-> <<>>]
\* A volume UUID is the number of the mkfs that made it; 0 is no UUID.
NoUuid == 0
NoEvidence == [adopted |-> TRUE, checked |-> FALSE, scanned |-> FALSE, mounted |-> NoUuid]

\* The journal start_journal returns.
FreshJournal ==
  [phase |-> SOURCE_VERIFIED, backup |-> FALSE, uuid |-> NoUuid, failures |-> 0, reboots |-> 0]

\* The card is the selected image, or already carries foreign data.
FbInit ==
  /\ card \in {[table |-> "source", root |-> "source", p3 |-> region, uuid |-> NoUuid,
                backup |-> "none", sentinel |-> NoUuid, marker |-> NoUuid,
                fstab |-> NoUuid, env |-> NoUuid, formats |-> IF region = "foreign" THEN 1 ELSE 0] :
               region \in {"blank", "foreign"}}
  /\ evidence = NoEvidence
  /\ journal = [FreshJournal EXCEPT !.phase = NoJournal]
  /\ plan = NoPlan
  /\ losses = 0

(***************************************************************************)
(* Observation.                                                            *)
(***************************************************************************)

\* The table and partition 3 as _classify_layout names them.
\* A signature in the region, or half a file system, belongs to no layout.
LayoutUnscanned ==
  CASE card.table = "source" -> "source"
    [] card.table = "target" /\ card.p3 = "formatted" -> "formatted"
    [] OTHER -> "table"

Layout ==
  IF card.p3 \notin {"blank", "formatted"} THEN "foreign"
  ELSE IF card.table = "source" THEN "source"
  ELSE IF card.p3 = "blank" THEN "table" ELSE "formatted"

TargetTable == Layout \in {"table", "formatted"}

\* Identity, geometry and references still bind the transaction; only the
\* card itself changes here, so a foreign signature is what can be refused.
Bound == Layout # "foreign"

BackupGood(j) == j.backup /\ card.backup = "valid"

MarkerBinds(j) ==
  /\ card.sentinel # NoUuid => card.sentinel = j.uuid
  /\ card.marker # NoUuid => card.marker = j.uuid

ScanBound(j) == Layout = "table" /\ evidence.scanned /\ j.backup

\* Refuses (MOUNT_INCONSISTENT) when another volume is mounted.
MountedExactly(j) == evidence.mounted # NoUuid /\ evidence.mounted = j.uuid
MountBinds(j) == evidence.mounted \in {NoUuid, j.uuid}

\* The phase that is visible on the card, never below the journalled one.
Raised(j, phase, seen) == IF seen /\ j.phase < phase THEN [j EXCEPT !.phase = phase] ELSE j

Reconciled(j) ==
  LET tabled == Raised(j, TABLE_COMMITTED, TargetTable)
      checked == Raised(tabled, ROOT_CHECKED, evidence.checked /\ TargetTable)
      grown == Raised(checked, ROOT_READY, card.root = "target")
      scanned == Raised(grown, SIGNATURE_VERIFIED,
                        Layout = "table" /\ evidence.scanned /\ grown.phase >= ROOT_READY)
      formatted == IF Layout = "formatted" /\ scanned.phase < DATA_FORMATTED
                   THEN [scanned EXCEPT !.phase = DATA_FORMATTED, !.uuid = card.uuid]
                   ELSE scanned
      sealed == Raised(formatted, SENTINEL_DURABLE, card.sentinel # NoUuid)
      marked == IF card.marker # NoUuid THEN [sealed EXCEPT !.phase = COMPLETE] ELSE sealed
      mounted == Raised(marked, VOLUME_MOUNTED, MountedExactly(marked))
      accepted ==
        /\ TargetTable => BackupGood(j)
        /\ card.root = "target" => TargetTable \/ checked.phase >= ROOT_READY
        /\ Layout = "formatted" => scanned.uuid \in {NoUuid, card.uuid}
        /\ MarkerBinds(formatted)
        /\ card.marker # NoUuid => card.sentinel # NoUuid
        /\ MountBinds(marked)
  IN IF accepted THEN mounted ELSE [j EXCEPT !.phase = Refused]

(***************************************************************************)
(* Planning.                                                               *)
(***************************************************************************)

P(next, todo) == [next |-> next, todo |-> todo]

\* The plans the initramfs stage may return from journal j, phase by phase;
\* none when it refuses or has already completed.
Planned(guard, next, todo) == IF guard THEN {P(next, todo)} ELSE {}

PlanBackup(j) ==
  Planned(j.phase = SOURCE_VERIFIED /\ Layout = "source",
          BACKUP_VALIDATED, <<"mount_boot", "dump", "dd">>)

PlanTable(j) ==
  Planned(j.phase = BACKUP_VALIDATED /\ BackupGood(j) /\ Layout = "source",
          TABLE_COMMITTED, <<"sfdisk", "verify", "reread">>)

\* The kernel still has the old table: one controlled reboot, never a second.
PlanReboot(j) ==
  Planned(j.phase = TABLE_COMMITTED /\ TargetTable /\ ~evidence.adopted /\ j.reboots < MaxReboots,
          TABLE_COMMITTED, <<"reboot">>)

PlanRoot(j) ==
  Planned(j.phase = TABLE_COMMITTED /\ TargetTable /\ evidence.adopted, ROOT_CHECKED, <<"e2fsck">>)
  \union
  Planned(j.phase = ROOT_CHECKED /\ TargetTable /\ evidence.checked, ROOT_READY, <<"resize">>)

PlanData(j) ==
  Planned(j.phase = ROOT_READY /\ Layout = "table", SIGNATURE_VERIFIED, <<"wipefs">>)
  \union
  Planned(j.phase = SIGNATURE_VERIFIED /\ ScanBound(j), DATA_FORMATTED, <<"mkfs", "blkid">>)
  \union
  Planned(j.phase = DATA_FORMATTED /\ Layout = "formatted" /\ card.uuid = j.uuid,
          EARLY_COMPLETE, <<>>)

PlanInitramfs(j) ==
  PlanBackup(j) \union PlanTable(j) \union PlanReboot(j) \union PlanRoot(j) \union PlanData(j)

PlanPostRoot(j) ==
  IF j.phase < EARLY_COMPLETE \/ Layout # "formatted" \/ card.uuid # j.uuid THEN {}
  ELSE Planned(j.phase = EARLY_COMPLETE, VOLUME_MOUNTED, <<"fsck", "mount", "findmnt">>)
       \union Planned(j.phase = VOLUME_MOUNTED /\ MountedExactly(j), SENTINEL_DURABLE, <<"mkdir", "sentinel">>)
       \union Planned(j.phase = SENTINEL_DURABLE /\ MarkerBinds(j) /\ card.sentinel # NoUuid,
                      COMPLETE, <<"fstab", "env", "marker">>)

Idle == plan = NoPlan

\* A transaction starts only on the exact source layout.
StartJournal ==
  /\ Idle /\ journal.phase = NoJournal /\ Layout = "source"
  /\ journal' = FreshJournal
  /\ UNCHANGED <<card, evidence, plan, losses>>

\* plan_next, and execute_plan up to its first action.  The plan is bound to
\* the table it saw; the controlled reboot is counted in the journal before it
\* is requested.
Committed(p, j) == IF p.todo = <<"reboot">> THEN [j EXCEPT !.reboots = @ + 1] ELSE j

PlanNext ==
  /\ Idle /\ journal.phase # NoJournal /\ Bound
  /\ LET j == Reconciled(journal)
     IN /\ j.phase # Refused
        /\ j.failures < MaxRetries
        /\ \E p \in PlanInitramfs(j) \union PlanPostRoot(j) :
             /\ plan' = [next |-> p.next, todo |-> p.todo, table |-> card.table,
                         j |-> Committed(p, j)]
             /\ journal' = IF p.todo = <<"reboot">> THEN Committed(p, j) ELSE journal
  /\ UNCHANGED <<card, evidence, losses>>

(***************************************************************************)
(* Execution: one action of the plan, done by the injected executor.       *)
(***************************************************************************)

Executing == ~Idle /\ plan.todo # <<>>

\* The actions that change storage are bound to the card and table planned for.
Mutating == {"mount_boot", "sfdisk", "reboot", "e2fsck", "resize", "mkfs",
             "mount", "mkdir", "sentinel", "fstab", "env", "marker"}

\* What an action leaves on the card and in the running system.
Card(a, c, u) ==
  CASE a = "dump" -> [c EXCEPT !.backup = IF @ = "valid" THEN "valid" ELSE "partial"]
    [] a = "dd" -> [c EXCEPT !.backup = "valid"]
    [] a = "sfdisk" -> [c EXCEPT !.table = "target"]
    [] a = "resize" -> [c EXCEPT !.root = "target"]
    [] a = "mkfs" -> [c EXCEPT !.p3 = "formatted", !.uuid = c.formats + 1, !.formats = @ + 1]
    [] a = "sentinel" -> [c EXCEPT !.sentinel = u]
    [] a = "fstab" -> [c EXCEPT !.fstab = u]
    [] a = "env" -> [c EXCEPT !.env = u]
    [] a = "marker" -> [c EXCEPT !.marker = u]
    [] OTHER -> c

\* A reread may be refused by a busy kernel; the old table then stays adopted.
Observing(a, u) ==
  CASE a = "sfdisk" -> {[evidence EXCEPT !.adopted = FALSE]}
    [] a = "reread" -> {[evidence EXCEPT !.adopted = b] : b \in BOOLEAN}
    [] a = "e2fsck" -> {[evidence EXCEPT !.checked = TRUE]}
    [] a = "resize" -> {[evidence EXCEPT !.checked = FALSE]}
    [] a = "wipefs" -> {[evidence EXCEPT !.scanned = TRUE]}
    [] a = "mount" -> {[evidence EXCEPT !.mounted = u]}
    [] OTHER -> {evidence}

Step ==
  /\ Executing /\ Head(plan.todo) # "reboot"
  /\ Head(plan.todo) \in Mutating => Bound /\ card.table = plan.table
  /\ card' = Card(Head(plan.todo), card, plan.j.uuid)
  /\ evidence' \in Observing(Head(plan.todo), plan.j.uuid)
  /\ plan' = [plan EXCEPT !.todo = Tail(@)]
  /\ UNCHANGED <<journal, losses>>

\* A command fails, or an action is refused at the executor boundary: the
\* failure is recorded in the journal, which does not advance.
Fail ==
  /\ ~Idle
  /\ journal.failures < MaxRetries
  /\ journal' = [journal EXCEPT !.failures = @ + 1]
  /\ plan' = NoPlan
  /\ UNCHANGED <<card, evidence, losses>>

\* apply_observed_success, then the store of the journal it returns.
PostconditionSeen(next, c) ==
  CASE next = BACKUP_VALIDATED -> card.backup = "valid"
    [] next = ROOT_CHECKED -> evidence.checked
    [] next = SIGNATURE_VERIFIED -> ScanBound(plan.j)
    [] next = EARLY_COMPLETE -> TRUE
    [] OTHER -> c.phase >= next

Applied(c) ==
  [c EXCEPT !.phase = IF plan.next \in {BACKUP_VALIDATED, ROOT_CHECKED, SIGNATURE_VERIFIED,
                                        EARLY_COMPLETE} THEN plan.next ELSE @,
            !.backup = IF plan.next = BACKUP_VALIDATED THEN TRUE ELSE @,
            !.uuid = IF plan.next = DATA_FORMATTED THEN card.uuid ELSE @,
            !.failures = 0]

ApplyObservedSuccess ==
  /\ ~Idle /\ plan.todo = <<>> /\ Bound
  /\ LET c == Reconciled(plan.j)
     IN /\ c.phase # Refused
        /\ PostconditionSeen(plan.next, c)
        /\ journal' = Applied(c)
  /\ plan' = NoPlan
  /\ UNCHANGED <<card, evidence, losses>>

(***************************************************************************)
(* Restarts.                                                               *)
(***************************************************************************)

\* After a boot the kernel has the table on the card and nothing is mounted;
\* the reports of earlier checks are still supplied to the planner or not.
Booted ==
  \E checked \in {FALSE, evidence.checked}, scanned \in {FALSE, evidence.scanned} :
    evidence' = [NoEvidence EXCEPT !.checked = checked, !.scanned = scanned]

ControlledReboot ==
  /\ Executing /\ Head(plan.todo) = "reboot"
  /\ Booted
  /\ plan' = NoPlan
  /\ UNCHANGED <<card, journal, losses>>

\* Power fails; a resize or a mkfs that was under way is left half done.
PowerLoss ==
  /\ losses < MaxPowerLoss
  /\ losses' = losses + 1
  /\ Booted
  /\ plan' = NoPlan
  /\ card' \in {card} \union
       (IF Executing /\ Head(plan.todo) = "resize" THEN {[card EXCEPT !.root = "torn"]} ELSE {})
       \union (IF Executing /\ Head(plan.todo) = "mkfs" THEN {[card EXCEPT !.p3 = "torn"]} ELSE {})
  /\ UNCHANGED journal

FbNext ==
  \/ StartJournal \/ PlanNext \/ Step \/ Fail \/ ApplyObservedSuccess
  \/ ControlledReboot \/ PowerLoss

FbSpec == FbInit /\ [][FbNext]_fbVars

(***************************************************************************)
(* Correctness.                                                            *)
(***************************************************************************)

\* At most one file system is ever made in the data region, a foreign one
\* included: neither data found there nor, after a crash between mkfs and its
\* journal entry, the recording volume is formatted over.
FormattedOnce == card.formats <= 1

\* The completion marker is last: when it exists, the grown root, the volume,
\* its sentinel, fstab and the recorder's environment all name one volume.
MarkerMeansAll ==
  card.marker # NoUuid =>
    /\ card.root = "target" /\ card.p3 = "formatted"
    /\ {card.sentinel, card.fstab, card.env, card.uuid} = {card.marker}

\* The journal never claims a phase whose effect is not on the card, and the
\* table is never rewritten before a valid backup of the old one is journalled.
JournalTruthful ==
  /\ card.table = "target" => card.backup = "valid" /\ journal.backup
  /\ journal.phase >= TABLE_COMMITTED => card.table = "target"
  /\ journal.phase >= ROOT_READY => card.root = "target"
  /\ journal.phase >= DATA_FORMATTED => card.p3 = "formatted" /\ journal.uuid = card.uuid
  /\ journal.phase >= SENTINEL_DURABLE => card.sentinel = card.uuid
  /\ journal.phase = COMPLETE => card.marker = card.uuid

\* First boot is safe to interrupt anywhere (plan_next and its executor).
FirstBootInv == FormattedOnce /\ MarkerMeansAll /\ JournalTruthful
=============================================================================
