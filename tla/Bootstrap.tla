----------------------------- MODULE Bootstrap -----------------------------
(***************************************************************************)
(* DashCam Bootstrap v1 (provisioning/bootstrap.py): two one-shot services *)
(* of every boot.  Stage A writes the partition table once and asks for a  *)
(* reboot; Stage B, ordered after it, grows the root, formats and          *)
(* configures the recording volume and writes the completion marker last.  *)
(* Both decide from evidence and a durable journal; a refusal is latched   *)
(* in the journal.  Power may fail between any two durable steps, and a    *)
(* requested reboot kills whatever runs when it comes.                     *)
(***************************************************************************)
EXTENDS Naturals

CONSTANT MaxBootCount   \* bound: boots in a behaviour
ASSUME BootstrapBounds == MaxBootCount \in Nat

VARIABLES
  disk,     \* what is durable on the card, the journal apart
  state,    \* the journal at STATE_PATH
  unit,     \* the unit that runs and where it is
  boot      \* this boot: number, kernel's table, mounted volume, reboot requested

bsVars == <<disk, state, unit, boot>>

NoVolume == 0
\* The phases Stage B owns; "NONE" is no journal, "REFUSED" the latched refusal.
Later == {"ROOT_RESIZED", "FORMAT_INTENT", "DATA_FORMATTED", "CONFIGURED"}

\* The boots that may follow: the units' evidence is bound to the authorized
\* card, trigger and contract, or it is not.
Boots(n, table, volumes) ==
  [number : {n}, kernel : {table}, mounted : volumes, rebooting : {FALSE}, bound : BOOLEAN]

NoState == [phase |-> "NONE", boot |-> 0, uuid |-> NoVolume]

\* A flashed card: the built image's table, or another card that was put in.
BsInit ==
  /\ disk \in {[table |-> t, root |-> "source", p3 |-> d, saved |-> {},
                formats |-> IF d = "dirty" THEN 1 ELSE 0,
                fstab |-> NoVolume, sentinel |-> NoVolume, env |-> NoVolume, done |-> NoVolume] :
               t \in {"source", "torn"}, d \in {"blank", "dirty"}}
  /\ state = NoState
  /\ unit = "a"
  /\ boot \in Boots(1, disk.table, {NoVolume})

(***************************************************************************)
(* Evidence.                                                               *)
(***************************************************************************)

TableMatches == disk.table = "target"
SourceMatches == disk.table = "source"

\* blkid and wipefs report an exFAT volume of that number, and nothing else.
Volume == IF disk.p3 = "exfat" THEN disk.formats ELSE NoVolume
Blank == disk.p3 = "blank"

StorageMountIsExact == Volume # NoVolume /\ Volume = state.uuid /\ boot.mounted = state.uuid
SentinelIsExact == boot.mounted # NoVolume /\ disk.sentinel = state.uuid

\* The marker names the journal's volume, its sentinel is seen and it is mounted.
CompletionIsExact == disk.done = state.uuid /\ disk.root = "target" /\ SentinelIsExact /\ StorageMountIsExact

(***************************************************************************)
(* Shared steps.                                                           *)
(***************************************************************************)

\* A unit ends; Stage B is ordered after Stage A and conditioned on the journal.
Exit == unit' = IF unit \in {"a", "a_backup", "a_intent", "a_started", "a_written", "a_readback",
                             "a_reboot"} THEN "b" ELSE "off"

Write(phase) == state' = [state EXCEPT !.phase = phase]

\* _refusal_plan and _latch: the refusal replaces the phase, for good.
Refuse == Write("REFUSED") /\ Exit /\ UNCHANGED <<disk, boot>>

Nothing == Exit /\ UNCHANGED <<disk, state, boot>>

\* Imager's first run or cloud-init is not over: nothing is changed.
Defer == unit \in {"a", "b"} /\ state.phase # "REFUSED" /\ Nothing

\* The trigger, the card or the journal's binding to them is not the authorized one.
Mismatch == unit \in {"a", "b"} /\ ~boot.bound /\ state.phase # "REFUSED" /\ Refuse

LatchedRefusal == unit \in {"a", "b"} /\ state.phase = "REFUSED" /\ Nothing

(***************************************************************************)
(* Stage A.                                                                *)
(***************************************************************************)

AStart == unit = "a" /\ boot.bound /\ state.phase = "NONE" /\ SourceMatches
          /\ unit' = "a_backup" /\ UNCHANGED <<disk, state, boot>>

ARefuses ==
  /\ unit = "a" /\ boot.bound
  /\ \/ state.phase = "NONE" /\ ~SourceMatches
     \/ state.phase \in {"STAGE_A_INTENT", "TABLE_WRITE_STARTED", "TABLE_COMMITTED"} \union Later
        /\ ~TableMatches
     \/ state.phase \in Later /\ disk.done # NoVolume /\ ~CompletionIsExact
  /\ Refuse

ANothing ==
  /\ unit = "a" /\ boot.bound /\ TableMatches
  /\ \/ state.phase = "TABLE_COMMITTED"
     \/ state.phase \in Later /\ (disk.done # NoVolume => CompletionIsExact)
  /\ Nothing

\* A power cut after the table write: the target table is recognized, committed
\* and a reboot requested, without a second table write.  The journal keeps the
\* boot ID of the boot that wrote the table.
AReconcile ==
  /\ unit = "a" /\ boot.bound /\ state.phase \in {"STAGE_A_INTENT", "TABLE_WRITE_STARTED"} /\ TableMatches
  /\ Write("TABLE_COMMITTED") /\ unit' = "a_reboot"
  /\ UNCHANGED <<disk, boot>>

\* Raw MBR and sfdisk dump, on ext4 and on FAT, one after the other.
ABackup ==
  /\ unit = "a_backup"
  /\ disk' = [disk EXCEPT !.saved = @ \union {IF "ext4" \in @ THEN "fat" ELSE "ext4"}]
  /\ unit' = IF "ext4" \in disk.saved THEN "a_intent" ELSE "a_backup"
  /\ UNCHANGED <<state, boot>>

AIntent ==
  /\ unit = "a_intent" /\ unit' = "a_started"
  /\ state' = [state EXCEPT !.phase = "STAGE_A_INTENT", !.boot = boot.number]
  /\ UNCHANGED <<disk, boot>>

AWriteStarted ==
  /\ unit = "a_started" /\ unit' = "a_written"
  /\ Write("TABLE_WRITE_STARTED") /\ UNCHANGED <<disk, boot>>

\* sfdisk --no-reread replaces LBA0; the kernel keeps the table it booted with.
ATable ==
  /\ unit = "a_written" /\ unit' = "a_readback"
  /\ disk' = [disk EXCEPT !.table = "target"] /\ UNCHANGED <<state, boot>>

ACommit ==
  /\ unit = "a_readback" /\ TableMatches /\ unit' = "a_reboot"
  /\ Write("TABLE_COMMITTED") /\ UNCHANGED <<disk, boot>>

\* sfdisk or the readback fails: latched, nothing is retried.
AFails ==
  /\ unit \in {"a_written", "a_readback"}
  /\ Refuse

\* A backup that cannot be written ends the unit before any intent.
ABackupFails == unit = "a_backup" /\ Nothing

\* systemctl reboot returns when the request is queued.
ARequestReboot ==
  /\ unit = "a_reboot" /\ boot' = [boot EXCEPT !.rebooting = TRUE]
  /\ Exit /\ UNCHANGED <<disk, state>>

(***************************************************************************)
(* Stage B.                                                                *)
(***************************************************************************)

\* Stage B does not ask which boot wrote the table.
AnyBoot == TRUE

LaterBoot == state.boot # boot.number

\* The checks before the phases: another boot, the exact table, a marker.
BBound == unit = "b" /\ boot.bound /\ LaterBoot /\ TableMatches
BReady == BBound /\ disk.done = NoVolume

BSkip ==
  /\ unit = "b"
  /\ \/ state.phase = "NONE"
     \/ boot.bound /\ state.phase # "REFUSED" /\ ~LaterBoot
     \/ BBound /\ disk.done # NoVolume /\ CompletionIsExact
  /\ Nothing

BRefuses ==
  /\ unit = "b" /\ boot.bound /\ state.phase \notin {"NONE", "REFUSED"} /\ LaterBoot
  /\ \/ ~TableMatches
     \/ disk.done # NoVolume /\ ~CompletionIsExact
     \/ disk.done = NoVolume /\
          CASE state.phase \in {"STAGE_A_INTENT", "TABLE_WRITE_STARTED"} -> TRUE
            [] state.phase = "TABLE_COMMITTED" -> ~Blank
            [] state.phase = "ROOT_RESIZED" -> ~Blank
            [] state.phase = "FORMAT_INTENT" -> Volume = NoVolume
            [] state.phase = "DATA_FORMATTED" ->
                 Volume # state.uuid \/ boot.mounted \notin {NoVolume, state.uuid}
            [] state.phase = "CONFIGURED" -> ~StorageMountIsExact \/ ~SentinelIsExact
  /\ Refuse

\* resize2fs, and the exact size read back, before the journal moves on.
BResize ==
  /\ BReady /\ state.phase = "TABLE_COMMITTED" /\ Blank /\ disk.root # "target"
  /\ disk' = [disk EXCEPT !.root = "target"] /\ UNCHANGED <<state, unit, boot>>

BResized ==
  /\ BReady /\ state.phase = "TABLE_COMMITTED" /\ Blank /\ disk.root = "target"
  /\ Write("ROOT_RESIZED") /\ UNCHANGED <<disk, unit, boot>>

BIntent ==
  /\ BReady /\ state.phase = "ROOT_RESIZED" /\ Blank
  /\ Write("FORMAT_INTENT") /\ unit' = "b_mkfs" /\ UNCHANGED <<disk, boot>>

BFormat ==
  /\ unit = "b_mkfs" /\ unit' = "b"
  /\ disk' = [disk EXCEPT !.p3 = "exfat", !.formats = @ + 1]
  /\ UNCHANGED <<state, boot>>

\* The volume the intent was for: an exact exFAT volume, whoever observes it.
BFormatted ==
  /\ BReady /\ state.phase = "FORMAT_INTENT" /\ Volume # NoVolume
  /\ state' = [state EXCEPT !.phase = "DATA_FORMATTED", !.uuid = Volume]
  /\ UNCHANGED <<disk, unit, boot>>

\* _configure_volume: fstab, mount, directories and sentinel, environment.
BConfigure ==
  /\ BReady /\ state.phase = "DATA_FORMATTED" /\ Volume = state.uuid
  /\ \/ disk.fstab = NoVolume /\ disk' = [disk EXCEPT !.fstab = state.uuid] /\ UNCHANGED boot
     \/ disk.fstab = state.uuid /\ boot.mounted = NoVolume
        /\ boot' = [boot EXCEPT !.mounted = state.uuid] /\ UNCHANGED disk
     \/ disk.fstab = state.uuid /\ boot.mounted = state.uuid /\ disk.sentinel # state.uuid
        /\ disk' = [disk EXCEPT !.sentinel = state.uuid] /\ UNCHANGED boot
     \/ disk.sentinel = state.uuid /\ boot.mounted = state.uuid /\ disk.env # state.uuid
        /\ disk' = [disk EXCEPT !.env = state.uuid] /\ UNCHANGED boot
  /\ UNCHANGED <<state, unit>>

BConfigured ==
  /\ BReady /\ state.phase = "DATA_FORMATTED" /\ Volume = state.uuid
  /\ boot.mounted = state.uuid /\ {disk.fstab, disk.sentinel, disk.env} = {state.uuid}
  /\ Write("CONFIGURED") /\ UNCHANGED <<disk, unit, boot>>

\* The marker is the last durable write; the journal stays CONFIGURED.
BComplete ==
  /\ BReady /\ state.phase = "CONFIGURED" /\ StorageMountIsExact /\ SentinelIsExact
  /\ disk' = [disk EXCEPT !.done = state.uuid]
  /\ unit' = "off" /\ UNCHANGED <<state, boot>>

\* A command fails: latched.  mkfs may leave half a file system.
BFails ==
  /\ \/ BReady /\ state.phase \in {"TABLE_COMMITTED", "DATA_FORMATTED", "CONFIGURED"}
        /\ UNCHANGED disk
     \/ unit = "b_mkfs" /\ disk' \in {disk, [disk EXCEPT !.p3 = "torn"]}
  /\ Write("REFUSED") /\ Exit /\ UNCHANGED boot

(***************************************************************************)
(* The end of a boot: requested, or a power failure at any moment.         *)
(***************************************************************************)

\* A boot starts both units again.  The kernel reads the table; the recording
\* volume is mounted from fstab, which does not wait for it (nofail).
Reboot ==
  /\ boot.number < MaxBootCount
  /\ disk' \in {disk} \union (IF unit = "b_mkfs" THEN {[disk EXCEPT !.p3 = "torn"]} ELSE {})
  /\ boot' \in Boots(boot.number + 1, disk.table,
                     {NoVolume, IF disk.fstab = Volume THEN Volume ELSE NoVolume})
  /\ unit' = "a" /\ UNCHANGED state

\* A volume named in fstab may also be mounted after the units have started.
LateMount ==
  /\ boot.mounted = NoVolume /\ disk.fstab # NoVolume /\ disk.fstab = Volume
  /\ boot' = [boot EXCEPT !.mounted = Volume]
  /\ UNCHANGED <<disk, state, unit>>

BsNext ==
  \/ Defer \/ Mismatch \/ LatchedRefusal
  \/ AStart \/ ARefuses \/ ANothing \/ AReconcile \/ ABackup \/ AIntent \/ AWriteStarted
  \/ ATable \/ ACommit \/ AFails \/ ABackupFails \/ ARequestReboot
  \/ BSkip \/ BRefuses \/ BResize \/ BResized \/ BIntent \/ BFormat \/ BFormatted
  \/ BConfigure \/ BConfigured \/ BComplete \/ BFails
  \/ Reboot \/ LateMount

BsSpec == BsInit /\ [][BsNext]_bsVars

(***************************************************************************)
(* Correctness.                                                            *)
(***************************************************************************)

\* At most one file system is ever made in the partition, a foreign one that
\* was there included, in whatever boots the power fails.
VolumeMadeOnce == disk.formats <= 1

\* A table is written only with both backups and an intent durable, and the
\* partition is formatted only under a kernel that booted with that table.
IntentBeforeWrite ==
  /\ [](disk.table = "target" => disk.saved = {"ext4", "fat"} /\ state.phase # "NONE")
  /\ [][disk'.p3 # disk.p3 => state.phase = "FORMAT_INTENT" /\ boot.kernel = "target"]_bsVars

\* The completion marker is last: when it exists the grown root, fstab, sentinel
\* and recorder environment are durable and name the one volume.
CompletionIsLast ==
  disk.done # NoVolume =>
    disk.root = "target" /\ {disk.fstab, disk.sentinel, disk.env, Volume} = {disk.done}

\* Both stages are safe to interrupt anywhere (run_stage_a and run_stage_b).
BootstrapSound == []VolumeMadeOnce /\ []CompletionIsLast /\ IntentBeforeWrite
=============================================================================
