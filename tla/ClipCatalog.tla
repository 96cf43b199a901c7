---------------------------- MODULE ClipCatalog ----------------------------
(***************************************************************************)
(* The durable clip catalog of the recorder (catalog/database.py) together *)
(* with the exFAT pairs it moves.  A clip is a video and a JSON sidecar.   *)
(* The rows live in SQLite on ext4, the files on exFAT, and no transaction *)
(* spans both: a move or a deletion is a durable intent, replayed until    *)
(* both members have reached the intended place.                           *)
(*                                                                         *)
(* Every catalog call is one transaction and one action here, except       *)
(* reconcile_intent, which touches the files while its transaction is open *)
(* and is split at every file operation.  The callers (finalizer,          *)
(* reclaimer, metadata coordinator, control dispatcher) run in different   *)
(* threads and only some of them share a lock, so a call may come at any   *)
(* time.                                                                   *)
(***************************************************************************)
EXTENDS Integers, FiniteSets

CONSTANTS
    MaxClips,       \* rows that can be registered
    Events,         \* identifiers of event requests
    Holders,        \* download lease holders
    LeaseDuration,  \* ticks a download lease lasts
    MaxLeases,      \* cap on the leases active in one boot
    PreviousCount,  \* clips before the current one that an event protects
    NextCount,      \* clips after the current one that an event protects
    MaxWindows,     \* cap on the events still waiting for a next clip
    MaxActions,     \* file operations of one reconcile_intent call
    MaxLag,         \* ticks between a caller's clock read and its transaction
    MaxTime,        \* bound: the last tick of a boot, and of any lease
    MaxBoots,       \* bound: boots
    MaxRevision,    \* bound: protection revisions of a clip
    MaxFaults,      \* bound: process crashes and file system errors
    CloseNames,     \* names a close may give a pair: UTC only with a time anchor
    Foreign         \* files of unknown origin that may appear on the card

ASSUME CatalogAssumption ==
    /\ MaxClips \in Nat \ {0}
    /\ IsFiniteSet(Events)
    /\ "NONE" \notin Holders
    /\ LeaseDuration \in Nat \ {0}
    /\ MaxLeases \in Nat \ {0}
    /\ PreviousCount \in Nat
    /\ NextCount \in Nat
    /\ MaxWindows \in Nat \ {0}
    /\ MaxActions \in Nat \ {0}
    /\ MaxLag \in Nat
    /\ MaxTime \in Nat
    /\ MaxBoots \in Nat
    /\ MaxRevision \in Nat
    /\ MaxFaults \in Nat
    /\ CloseNames \subseteq {"boot", "utc"}

-----------------------------------------------------------------------------
(* Paths.  A clip keeps one file name per stage of its life: the partial    *)
(* name while it is written, the boot-relative name when no UTC anchor was  *)
(* known at its close, the UTC name otherwise.  Video and sidecar always    *)
(* share directory and stem, so one path stands for either member.          *)

Clips == 1..MaxClips                \* in retention order
Members == {"video", "sidecar"}
FinalDirs == {"clips", "protected"}
FinalNames == {"boot", "utc"}
Absent == [dir |-> "none", name |-> "none"]
Partial == [dir |-> "pending", name |-> "partial"]
FinalPaths == [dir : FinalDirs, name : FinalNames]
Paths == FinalPaths \cup {Partial}

\* _move_paths: the same names in another directory.
MoveTo(p, d) == [dir |-> d, name |-> p.name]

Lifecycles == {"NONE", "WRITING", "FINALIZING", "FINALIZED",
               "MISSING_SIDECAR", "DELETING", "DELETED"}
Kinds == {"FINALIZE", "PROTECT", "UNPROTECT", "DELETE", "RECONCILE_NAME"}

\* A pending row of operation_intents.  tgt is Absent for a DELETE.
Intents == [kind : Kinds, src : Paths, tgt : Paths \cup {Absent}, expected : Nat]
NoIntent == [kind |-> "NONE", src |-> Absent, tgt |-> Absent, expected |-> 0]

Leases == [holder : Holders, expires : Nat, boot : Nat]
NoLease == [holder |-> "NONE", expires |-> 0, boot |-> 0]

\* What a sidecar file says: the final name of its pair and the protection
\* of the clip at its close.
Contents == [name : FinalNames, protected : BOOLEAN]
NoContent == [name |-> "none", protected |-> FALSE]

\* The recorder's hold on a clip it opened: none (closed, or the process that
\* opened it is gone), open, or closing with the protection snapshot that its
\* sidecar is staged from.
Snapshots == [phase : {"snapshot", "staged"}, name : FinalNames,
              protected : BOOLEAN, revision : Nat]
Unheld == [phase |-> "unheld"]
Open == [phase |-> "open"]

EventRecords == [current : Clips, remaining : Nat, targets : SUBSET Clips]
NoEvent == [current |-> 0, remaining |-> 0, targets |-> {}]

Downloads == [clip : Clips, expires : Nat, at : Paths \cup {Absent}]
NoDownload == [clip |-> 0, expires |-> 0, at |-> Absent]

Txns == [clip : Clips, todo : SUBSET Members]
NoTxn == [clip |-> 0, todo |-> {}]

VARIABLES
    \* rows of the clips table
    lifecycle, path, protected, revision, reconciled, lease,
    intent,         \* the pending row of operation_intents of each clip
    event,          \* rows of protection_events and protection_event_targets
    at,             \* where each member of each pair is on the card
    content,        \* what each sidecar file says
    foreign,        \* files of unknown origin on the card
    hold,           \* the recorder's hold on each clip it opened
    txn,            \* the open reconcile_intent transaction
    download,       \* the downloads that clients believe they hold a lease for
    now, boot,      \* monotonic clock and identity of the boot
    faults,         \* process crashes and file errors so far
    claim           \* history: protection accepted and not given up since

rows == <<lifecycle, path, protected, revision, reconciled, lease>>
files == <<at, content, foreign>>
clock == <<now, boot>>
vars == <<lifecycle, path, protected, revision, reconciled, lease, intent,
          event, at, content, foreign, hold, txn, download, now, boot,
          faults, claim>>

-----------------------------------------------------------------------------
(* Observations *)

Registered(c) == lifecycle[c] # "NONE"

\* CatalogFilesystem.exists: a name is taken by the clip's own member or by
\* a file of unknown origin.
Exists(c, m, p) ==
    /\ p # Absent
    /\ at[c][m] = p \/ [clip |-> c, member |-> m, path |-> p] \in foreign

\* The clock value a caller may have read before its transaction began.
Reads == {t \in 0..now : now - t <= MaxLag}

\* _row_has_active_lease and _row_has_unexpired_lease: the latter ignores
\* the boot and so also freezes the pair for a lease of an earlier boot.
Unexpired(c, t) == lease[c] # NoLease /\ t < lease[c].expires
Active(c, t) == Unexpired(c, t) /\ lease[c].boot = boot

Idle(c) == intent[c] = NoIntent

\* The collision scans of the finalizer and of the metadata coordinator.
NameFree(c, n, dirs) ==
    \A m \in Members, d \in dirs : ~Exists(c, m, [dir |-> d, name |-> n])

\* Mutants of Eligible: the lease of a clip does not keep it from deletion; nor
\* does a protection whose move a lease has put off.
EligibleLeased(c, t) ==
    lifecycle[c] = "FINALIZED" /\ reconciled[c] /\ ~protected[c] /\ Idle(c)
EligibleInClips(c, t) ==
    lifecycle[c] = "FINALIZED" /\ reconciled[c] /\ Idle(c) /\ ~Unexpired(c, t)

\* The WHERE clause of prepare_oldest_eligible_delete.
Eligible(c, t) ==
    /\ lifecycle[c] = "FINALIZED"
    /\ reconciled[c]
    /\ ~protected[c]
    /\ Idle(c)
    /\ ~Active(c, t)

Waiting == {e \in Events : event[e].remaining > 0}

-----------------------------------------------------------------------------
(* plan_reconciliation and reconcile_intent *)

\* A member is still to be moved or unlinked.
Todo(c) == {m \in Members : Exists(c, m, intent[c].src)}

\* Mutant of NoProblems: a member already unlinked counts as missing.
NoProblemsOfMoves(c) ==
    \A m \in Members : Exists(c, m, intent[c].src) <=> ~Exists(c, m, intent[c].tgt)

\* No member is at both ends, and none of a move is at neither end.
NoProblems(c) ==
    \A m \in Members :
        intent[c].tgt # Absent =>
            (Exists(c, m, intent[c].src) <=> ~Exists(c, m, intent[c].tgt))

\* Mutant of Complete: only the video is looked at.
CompleteVideo(c) == NoProblems(c) /\ "video" \notin Todo(c)

Complete(c) == NoProblems(c) /\ Todo(c) = {}

\* plan.actions[:max_actions], the video before the sidecar.
Planned(c) ==
    IF MaxActions = 1 /\ Todo(c) = Members THEN {"video"} ELSE Todo(c)

NextMember(todo) == IF "video" \in todo THEN "video" ELSE "sidecar"

\* _validate_finalize_sidecar and _prepare_name_reconciliation_sidecar: the
\* sidecar names the target of a FINALIZE already; that of a RECONCILE_NAME
\* is replaced while it has the source name.
SidecarReady(c) ==
    CASE intent[c].kind = "FINALIZE" -> content[c].name = intent[c].tgt.name
      [] intent[c].kind = "RECONCILE_NAME" ->
            IF Exists(c, "sidecar", intent[c].src)
            THEN content[c].name \in {intent[c].src.name, intent[c].tgt.name}
            ELSE content[c].name = intent[c].tgt.name
      [] OTHER -> TRUE

PreparedContent(c) ==
    IF intent[c].kind = "RECONCILE_NAME"
    THEN [content EXCEPT ![c].name = intent[c].tgt.name]
    ELSE content

\* reconcile_intent up to its first file operation.  With a problem it only
\* notes last_problem and leaves everything else alone.
BeginReconcile(c) ==
    /\ txn = NoTxn
    /\ ~Idle(c)
    /\ NoProblems(c)
    /\ SidecarReady(c)
    /\ txn' = [clip |-> c, todo |-> Planned(c)]
    /\ content' = PreparedContent(c)
    /\ UNCHANGED <<rows, intent, event, at, foreign, hold, download, clock,
                   faults, claim>>

\* One rename (which never replaces a file) or unlink of the plan.
MoveMember ==
    /\ txn # NoTxn
    /\ txn.todo # {}
    /\ LET c == txn.clip
           m == NextMember(txn.todo)
       IN  /\ ~Exists(c, m, intent[c].tgt)
           /\ at' = [at EXCEPT ![c][m] = intent[c].tgt]
           /\ foreign' = foreign \ {[clip |-> c, member |-> m, path |-> intent[c].src]}
           /\ txn' = [txn EXCEPT !.todo = @ \ {m}]
    /\ UNCHANGED <<rows, intent, event, content, hold, download, clock, faults,
                   claim>>

\* A file operation raises, before or after it took effect, and the
\* transaction rolls back; what was moved stays moved.
AbortReconcile ==
    /\ txn # NoTxn
    /\ \/ faults < MaxFaults /\ faults' = faults + 1
       \/ /\ txn.todo # {}
          /\ Exists(txn.clip, NextMember(txn.todo), intent[txn.clip].tgt)
          /\ UNCHANGED faults
    /\ txn' = NoTxn
    /\ UNCHANGED <<rows, intent, event, files, hold, download, clock, claim>>

\* _complete_intent_locked: a protection newer than the UNPROTECT it overtook.
NewerProtection(c) ==
    intent[c].kind = "UNPROTECT" /\ revision[c] > intent[c].expected

\* The completion leaves a protected clip outside protected/ and queues the
\* move that puts it there.
NeedsProtectMove(c) ==
    \/ NewerProtection(c)
    \/ /\ intent[c].kind \in {"FINALIZE", "RECONCILE_NAME"}
       /\ protected[c]
       /\ intent[c].tgt.dir # "protected"

ProtectIntent(p) ==
    [kind |-> "PROTECT", src |-> p, tgt |-> MoveTo(p, "protected"), expected |-> 0]

CompleteIntent(c) ==
    /\ lifecycle' = [lifecycle EXCEPT ![c] =
                       IF intent[c].kind = "DELETE" THEN "DELETED" ELSE "FINALIZED"]
    /\ path' = [path EXCEPT ![c] = IF intent[c].kind = "DELETE" THEN @ ELSE intent[c].tgt]
    /\ protected' = [protected EXCEPT ![c] =
                       CASE intent[c].kind = "UNPROTECT" -> NewerProtection(c)
                         [] intent[c].kind = "PROTECT" -> TRUE
                         [] OTHER -> @]
    /\ reconciled' = [reconciled EXCEPT ![c] = ~NeedsProtectMove(c)]
    /\ lease' = IF intent[c].kind = "DELETE" THEN [lease EXCEPT ![c] = NoLease] ELSE lease
    /\ intent' = [intent EXCEPT ![c] =
                    IF NeedsProtectMove(c) THEN ProtectIntent(intent[c].tgt) ELSE NoIntent]

\* The end of reconcile_intent: observe again, complete the intent or keep it.
CommitReconcile ==
    /\ txn # NoTxn
    /\ txn.todo = {}
    /\ IF Complete(txn.clip)
       THEN CompleteIntent(txn.clip)
       ELSE UNCHANGED <<lifecycle, path, protected, reconciled, lease, intent>>
    /\ txn' = NoTxn
    /\ UNCHANGED <<revision, event, files, hold, download, clock, faults, claim>>

-----------------------------------------------------------------------------
(* Recording: an opened fragment, its close and its orphaned row *)

\* register_writing_clip for a fragment the pipeline has opened.
RegisterWriting(c) ==
    /\ txn = NoTxn
    /\ ~Registered(c)
    /\ \A d \in Clips : d < c => Registered(d)
    /\ lifecycle' = [lifecycle EXCEPT ![c] = "WRITING"]
    /\ path' = [path EXCEPT ![c] = Partial]
    /\ at' = [at EXCEPT ![c]["video"] = Partial]
    /\ hold' = [hold EXCEPT ![c] = Open]
    /\ UNCHANGED <<protected, revision, reconciled, lease, intent, event,
                   content, foreign, txn, download, clock, faults, claim>>

\* Events whose NEXT window the closing clip c falls into.
WindowsOf(c) == {e \in Waiting : event[e].current < c /\ c \notin event[e].targets}

\* finalize refuses a close whose target name is already taken, then takes the
\* snapshot of active_closing_protection: it spends the NEXT windows on the
\* clip before it reads the protection and its revision.
TakeSnapshot(c, n) ==
    /\ txn = NoTxn
    /\ lifecycle[c] = "WRITING"
    /\ hold[c] = Open
    /\ NameFree(c, n, FinalDirs)
    /\ LET windows == WindowsOf(c)
       IN  /\ revision[c] + Cardinality(windows) <= MaxRevision
           /\ event' = [e \in Events |->
                          IF e \in windows
                          THEN [event[e] EXCEPT !.remaining = @ - 1,
                                                !.targets = @ \cup {c}]
                          ELSE event[e]]
           /\ protected' = [protected EXCEPT ![c] = @ \/ windows # {}]
           /\ revision' = [revision EXCEPT ![c] = @ + Cardinality(windows)]
           /\ claim' = [claim EXCEPT ![c] = @ \/ windows # {}]
    /\ hold' = [hold EXCEPT ![c] = [phase |-> "snapshot", name |-> n,
                                    protected |-> protected'[c],
                                    revision |-> revision'[c]]]
    /\ UNCHANGED <<lifecycle, path, reconciled, lease, intent, files, txn,
                   download, clock, faults>>

\* _ensure_pending_sidecar: the sidecar of the snapshot replaces any earlier one.
StageSidecar(c) ==
    /\ hold[c].phase = "snapshot"
    /\ at' = [at EXCEPT ![c]["sidecar"] = Partial]
    /\ content' = [content EXCEPT ![c] = [name |-> hold[c].name,
                                          protected |-> hold[c].protected]]
    /\ hold' = [hold EXCEPT ![c].phase = "staged"]
    /\ UNCHANGED <<rows, intent, event, foreign, txn, download, clock, faults, claim>>

ProtectionUnchanged(c) ==
    revision[c] = hold[c].revision /\ protected[c] = hold[c].protected

\* register_finalizing_clip: only while the protection is still the staged one.
RegisterFinalizing(c) ==
    /\ txn = NoTxn
    /\ hold[c].phase = "staged"
    /\ lifecycle[c] = "WRITING"
    /\ ProtectionUnchanged(c)
    /\ lifecycle' = [lifecycle EXCEPT ![c] = "FINALIZING"]
    /\ intent' = [intent EXCEPT ![c] =
                    [kind |-> "FINALIZE", src |-> Partial,
                     tgt |-> [dir |-> "clips", name |-> hold[c].name], expected |-> 0]]
    /\ hold' = [hold EXCEPT ![c] = Unheld]
    /\ UNCHANGED <<path, protected, revision, reconciled, lease, event, files,
                   txn, download, clock, faults, claim>>

\* ActiveClipProtectionChanged: the finalizer starts over.
RetrySnapshot(c) ==
    /\ txn = NoTxn
    /\ hold[c].phase = "staged"
    /\ revision[c] # hold[c].revision
    /\ hold' = [hold EXCEPT ![c] = Open]
    /\ UNCHANGED <<rows, intent, event, files, txn, download, clock, faults, claim>>

\* mark_writing_clip_orphaned, for rows an earlier process left behind and for
\* those that a stopping pipeline never closed.
MarkOrphaned(c) ==
    /\ txn = NoTxn
    /\ lifecycle[c] = "WRITING"
    /\ hold[c] \in {Unheld, Open}
    /\ lifecycle' = [lifecycle EXCEPT ![c] = "MISSING_SIDECAR"]
    /\ reconciled' = [reconciled EXCEPT ![c] = FALSE]
    /\ hold' = [hold EXCEPT ![c] = Unheld]
    /\ UNCHANGED <<path, protected, revision, lease, intent, event, files, txn,
                   download, clock, faults, claim>>

-----------------------------------------------------------------------------
(* Protection and deletion *)

\* Mutants of Movable: a lease does not freeze the pair; a clip that is still
\* being written is moved.
MovableLeased(c, t) ==
    lifecycle[c] = "FINALIZED" /\ Idle(c) /\ path[c].dir # "protected"
\* A clip that a new protection sends to protected/ at once.
Movable(c, t) ==
    /\ lifecycle[c] = "FINALIZED"
    /\ Idle(c)
    /\ ~Unexpired(c, t)
    /\ path[c].dir # "protected"

\* prepare_protect.  A repeated request finds the PROTECT already pending and
\* changes nothing.
PrepareProtect(c, t) ==
    /\ txn = NoTxn
    /\ Registered(c)
    /\ ~Unexpired(c, t)
    /\ lifecycle[c] \notin {"DELETING", "DELETED"}
    /\ Idle(c)
    /\ revision[c] < MaxRevision
    /\ protected' = [protected EXCEPT ![c] = TRUE]
    /\ revision' = [revision EXCEPT ![c] = @ + 1]
    /\ claim' = [claim EXCEPT ![c] = TRUE]
    /\ IF Movable(c, t)
       THEN /\ intent' = [intent EXCEPT ![c] = ProtectIntent(path[c])]
            /\ reconciled' = [reconciled EXCEPT ![c] = FALSE]
       ELSE UNCHANGED <<intent, reconciled>>
    /\ UNCHANGED <<lifecycle, path, lease, event, files, hold, txn, download,
                   clock, faults>>

\* prepare_unprotect.  The protection stays on the row until the pair is back
\* in clips/; a clip whose move to protected/ was put off loses it at once.
PrepareUnprotect(c, t) ==
    /\ txn = NoTxn
    /\ ~Unexpired(c, t)
    /\ protected[c]
    /\ Idle(c)
    /\ lifecycle[c] = "FINALIZED"
    /\ IF path[c].dir = "clips"
       THEN /\ protected' = [protected EXCEPT ![c] = FALSE]
            /\ UNCHANGED <<intent, reconciled>>
       ELSE /\ intent' = [intent EXCEPT ![c] =
                            [kind |-> "UNPROTECT", src |-> path[c],
                             tgt |-> MoveTo(path[c], "clips"),
                             expected |-> revision[c]]]
            /\ reconciled' = [reconciled EXCEPT ![c] = FALSE]
            /\ UNCHANGED protected
    /\ claim' = [claim EXCEPT ![c] = FALSE]
    /\ UNCHANGED <<lifecycle, path, revision, lease, event, files, hold, txn,
                   download, clock, faults>>

\* _prepare_delete_row_locked: reserve the pair for deletion.
ReserveDelete(c) ==
    /\ path[c].dir = "clips"
    /\ lifecycle' = [lifecycle EXCEPT ![c] = "DELETING"]
    /\ reconciled' = [reconciled EXCEPT ![c] = FALSE]
    /\ lease' = [lease EXCEPT ![c] = NoLease]
    /\ intent' = [intent EXCEPT ![c] = [kind |-> "DELETE", src |-> path[c],
                                        tgt |-> Absent, expected |-> 0]]
    /\ UNCHANGED <<path, protected, revision, event, files, hold, txn, download,
                   clock, faults, claim>>

\* prepare_delete, on the request of a client.
PrepareDelete(c, t) ==
    /\ txn = NoTxn
    /\ Eligible(c, t)
    /\ ReserveDelete(c)

\* prepare_oldest_eligible_delete, for the reclaimer.
PrepareOldestDelete(t) ==
    /\ txn = NoTxn
    /\ \E c \in Clips :
        /\ Eligible(c, t)
        /\ \A d \in Clips : d < c => ~Eligible(d, t)
        /\ ReserveDelete(c)

\* register_name_reconciliation: a provisional name becomes the UTC name.
RegisterName(c) ==
    /\ txn = NoTxn
    /\ lifecycle[c] = "FINALIZED"
    /\ reconciled[c]
    /\ lease[c] = NoLease
    /\ Idle(c)
    /\ path[c].dir \in FinalDirs
    /\ path[c].name = "boot"
    /\ content[c].name = "boot"
    /\ NameFree(c, "utc", {path[c].dir})
    /\ intent' = [intent EXCEPT ![c] =
                    [kind |-> "RECONCILE_NAME", src |-> path[c],
                     tgt |-> [path[c] EXCEPT !.name = "utc"], expected |-> 0]]
    /\ reconciled' = [reconciled EXCEPT ![c] = FALSE]
    /\ UNCHANGED <<lifecycle, path, protected, revision, lease, event, files,
                   hold, txn, download, clock, faults, claim>>

-----------------------------------------------------------------------------
(* Download leases *)

\* Mutant of LeaseSlotFree: off by one.
LeaseSlotLate(t) == Cardinality({d \in Clips : Active(d, t)}) <= MaxLeases

LeaseSlotFree(t) == Cardinality({d \in Clips : Active(d, t)}) < MaxLeases

\* acquire_download_lease: the holder is new, whatever lease it replaces.
AcquireLease(c, h, t) ==
    /\ txn = NoTxn
    /\ lifecycle[c] = "FINALIZED"
    /\ reconciled[c]
    /\ Idle(c)
    /\ ~Active(c, t)
    /\ LeaseSlotFree(t)
    /\ t + LeaseDuration <= MaxTime
    /\ download[h] = NoDownload
    /\ lease' = [lease EXCEPT ![c] = [holder |-> h, expires |-> t + LeaseDuration,
                                      boot |-> boot]]
    /\ download' = [download EXCEPT ![h] = [clip |-> c, expires |-> t + LeaseDuration,
                                            at |-> Absent]]
    /\ UNCHANGED <<lifecycle, path, protected, revision, reconciled, intent,
                   event, files, hold, txn, clock, faults, claim>>

\* The dispatcher reads the approved path only after the lease is durable.
ReadApprovedPath(h) ==
    /\ txn = NoTxn
    /\ download[h] # NoDownload
    /\ download[h].at = Absent
    /\ download' = [download EXCEPT ![h].at = path[download[h].clip]]
    /\ UNCHANGED <<rows, intent, event, files, hold, txn, clock, faults, claim>>

\* _queue_directory_invariant_repair_locked, on a row whose lease is cleared.
RepairIntent(c) ==
    IF lifecycle[c] # "FINALIZED" \/ ~Idle(c) THEN intent[c]
    ELSE IF protected[c] /\ path[c].dir = "clips" THEN ProtectIntent(path[c])
    ELSE IF ~protected[c] /\ path[c].dir = "protected"
         THEN [kind |-> "UNPROTECT", src |-> path[c],
               tgt |-> MoveTo(path[c], "clips"), expected |-> revision[c]]
         ELSE NoIntent

ClearAndRepair(cleared) ==
    /\ lease' = [c \in Clips |-> IF c \in cleared THEN NoLease ELSE lease[c]]
    /\ intent' = [c \in Clips |-> IF c \in cleared THEN RepairIntent(c) ELSE intent[c]]
    /\ reconciled' = [c \in Clips |->
                        IF c \in cleared /\ RepairIntent(c) # intent[c]
                        THEN FALSE ELSE reconciled[c]]

\* release_download_lease: only the exact holder clears the lease; a client
\* whose lease has gone or was replaced is refused and gives up as well.
ReleaseLease(h) ==
    /\ txn = NoTxn
    /\ download[h] # NoDownload
    /\ ClearAndRepair({c \in Clips : c = download[h].clip /\ lease[c].holder = h})
    /\ download' = [download EXCEPT ![h] = NoDownload]
    /\ UNCHANGED <<lifecycle, path, protected, revision, event, files, hold,
                   txn, clock, faults, claim>>

\* clear_expired_download_leases: previous-boot leases expire immediately.
ClearExpired(t) ==
    /\ txn = NoTxn
    /\ LET stale == {c \in Clips : lease[c] # NoLease /\ ~Active(c, t)}
       IN  stale # {} /\ ClearAndRepair(stale)
    /\ UNCHANGED <<lifecycle, path, protected, revision, event, files, hold,
                   txn, download, clock, faults, claim>>

-----------------------------------------------------------------------------
(* Events *)

\* The newest FINALIZED clips before the current one, at most PreviousCount.
PreviousOf(c) ==
    {d \in Clips :
        /\ d < c
        /\ lifecycle[d] = "FINALIZED"
        /\ Cardinality({x \in Clips : d < x /\ x < c /\ lifecycle[x] = "FINALIZED"})
             < PreviousCount}

\* trigger_event with the newest clip, which must still be WRITING, as the
\* current one; every target goes through _protect_for_event_locked.  An event
\* identifier that is already known changes nothing.
TriggerEvent(e, c, t) ==
    /\ txn = NoTxn
    /\ event[e] = NoEvent
    /\ lifecycle[c] = "WRITING"
    /\ \A d \in Clips : d > c => ~Registered(d)
    /\ NextCount > 0 => Cardinality(Waiting) < MaxWindows
    /\ LET targets == PreviousOf(c) \cup {c}
       IN  /\ \A d \in targets : revision[d] < MaxRevision
           /\ event' = [event EXCEPT ![e] = [current |-> c, remaining |-> NextCount,
                                             targets |-> targets]]
           /\ protected' = [d \in Clips |-> d \in targets \/ protected[d]]
           /\ revision' = [d \in Clips |-> IF d \in targets THEN revision[d] + 1
                                            ELSE revision[d]]
           /\ claim' = [d \in Clips |-> d \in targets \/ claim[d]]
           /\ intent' = [d \in Clips |->
                           IF d \in targets /\ Movable(d, t)
                           THEN ProtectIntent(path[d]) ELSE intent[d]]
           /\ reconciled' = [d \in Clips |->
                               IF d \in targets /\ Movable(d, t)
                               THEN FALSE ELSE reconciled[d]]
    /\ UNCHANGED <<lifecycle, path, lease, files, hold, txn, download, clock, faults>>

-----------------------------------------------------------------------------
(* Time, crashes and files of unknown origin *)

Tick ==
    /\ now < MaxTime
    /\ now' = now + 1
    /\ UNCHANGED <<rows, intent, event, files, hold, txn, download, boot, faults, claim>>

\* The recorder dies: an open transaction rolls back, its hold on the open
\* fragments is gone.  Leases and the web server's downloads go on.
Crash ==
    /\ faults < MaxFaults
    /\ faults' = faults + 1
    /\ txn' = NoTxn
    /\ hold' = [c \in Clips |-> Unheld]
    /\ UNCHANGED <<rows, intent, event, files, download, clock, claim>>

\* The whole device restarts: a new boot identity and a new monotonic clock.
Reboot ==
    /\ boot < MaxBoots
    /\ boot' = boot + 1
    /\ now' = 0
    /\ txn' = NoTxn
    /\ hold' = [c \in Clips |-> Unheld]
    /\ download' = [h \in Holders |-> NoDownload]
    /\ UNCHANGED <<rows, intent, event, files, faults, claim>>

ForeignAppears(f) ==
    /\ f \notin foreign
    /\ at[f.clip][f.member] # f.path
    /\ foreign' = foreign \cup {f}
    /\ UNCHANGED <<rows, intent, event, at, content, hold, txn, download, clock,
                   faults, claim>>

ForeignRemoved(f) ==
    /\ f \in foreign
    /\ foreign' = foreign \ {f}
    /\ UNCHANGED <<rows, intent, event, at, content, hold, txn, download, clock,
                   faults, claim>>

-----------------------------------------------------------------------------
Init ==
    /\ lifecycle = [c \in Clips |-> "NONE"]
    /\ path = [c \in Clips |-> Absent]
    /\ protected = [c \in Clips |-> FALSE]
    /\ revision = [c \in Clips |-> 0]
    /\ reconciled = [c \in Clips |-> FALSE]
    /\ lease = [c \in Clips |-> NoLease]
    /\ intent = [c \in Clips |-> NoIntent]
    /\ event = [e \in Events |-> NoEvent]
    /\ at = [c \in Clips |-> [m \in Members |-> Absent]]
    /\ content = [c \in Clips |-> NoContent]
    /\ foreign = {}
    /\ hold = [c \in Clips |-> Unheld]
    /\ txn = NoTxn
    /\ download = [h \in Holders |-> NoDownload]
    /\ now = 0
    /\ boot = 0
    /\ faults = 0
    /\ claim = [c \in Clips |-> FALSE]

Recording ==
    \E c \in Clips :
        \/ RegisterWriting(c)
        \/ \E n \in CloseNames : TakeSnapshot(c, n)
        \/ StageSidecar(c)
        \/ RegisterFinalizing(c)
        \/ RetrySnapshot(c)
        \/ MarkOrphaned(c)

Reconciling ==
    \/ \E c \in Clips : BeginReconcile(c)
    \/ MoveMember
    \/ AbortReconcile
    \/ CommitReconcile

Requests ==
    \E t \in Reads :
        \/ \E c \in Clips :
            \/ PrepareProtect(c, t)
            \/ PrepareUnprotect(c, t)
            \/ PrepareDelete(c, t)
            \/ \E h \in Holders : AcquireLease(c, h, t)
            \/ \E e \in Events : TriggerEvent(e, c, t)
        \/ PrepareOldestDelete(t)
        \/ ClearExpired(t)

Next ==
    \/ Recording
    \/ Reconciling
    \/ Requests
    \/ \E c \in Clips : RegisterName(c)
    \/ \E h \in Holders : ReadApprovedPath(h) \/ ReleaseLease(h)
    \/ Tick \/ Crash \/ Reboot
    \/ \E f \in Foreign : ForeignAppears(f) \/ ForeignRemoved(f)

Spec == Init /\ [][Next]_vars

\* The storage loop of the recorder replays every pending intent and clears
\* expired leases again and again, whatever else happens in between.
Recovery ==
    /\ \A c \in Clips : SF_vars(BeginReconcile(c))
    /\ WF_vars(MoveMember)
    /\ WF_vars(CommitReconcile)
    /\ SF_vars(\E t \in Reads : ClearExpired(t))
    /\ WF_vars(Tick)

LiveSpec == Spec /\ Recovery

-----------------------------------------------------------------------------
(* Properties *)

\* The type invariant of the rows, the intents, the files and the callers.
TypeOK ==
    /\ lifecycle \in [Clips -> Lifecycles]
    /\ path \in [Clips -> Paths \cup {Absent}]
    /\ protected \in [Clips -> BOOLEAN]
    /\ revision \in [Clips -> Nat]
    /\ reconciled \in [Clips -> BOOLEAN]
    /\ lease \in [Clips -> Leases \cup {NoLease}]
    /\ intent \in [Clips -> Intents \cup {NoIntent}]
    /\ event \in [Events -> EventRecords \cup {NoEvent}]
    /\ at \in [Clips -> [Members -> Paths \cup {Absent}]]
    /\ content \in [Clips -> Contents \cup {NoContent}]
    /\ foreign \subseteq Foreign
    /\ hold \in [Clips -> Snapshots \cup {Open, Unheld}]
    /\ txn \in Txns \cup {NoTxn}
    /\ download \in [Holders -> Downloads \cup {NoDownload}]
    /\ now \in Nat
    /\ boot \in Nat
    /\ faults \in Nat
    /\ claim \in [Clips -> BOOLEAN]

\* Whatever crashes, file errors and collisions interrupt a move, no member of
\* a finalized pair is ever lost or stranded: each one is where the pending
\* intent can find it, and a row without an intent (the only rows that
\* downloads, retention and name reconciliation act on) describes a whole pair
\* whose sidecar carries the pair's own name (reconcile_intent and
\* _complete_intent_locked).
PairStaysWhole ==
    \A c \in Clips : lifecycle[c] \in {"FINALIZING", "FINALIZED"} =>
        IF Idle(c)
        THEN /\ reconciled[c]
             /\ \A m \in Members : at[c][m] = path[c]
             /\ content[c].name = path[c].name
        ELSE /\ ~reconciled[c]
             /\ \A m \in Members : at[c][m] \in {intent[c].src, intent[c].tgt}
             /\ path[c] = intent[c].src

\* A protection that was accepted, by hand or by an event, is never lost to an
\* UNPROTECT that was already under way, and its clip is never reserved for
\* deletion (protection_revision in _complete_intent_locked).
ClaimHonoured ==
    \A c \in Clips : claim[c] =>
        protected[c] /\ lifecycle[c] \notin {"DELETING", "DELETED"}

\* A client that holds an unexpired lease keeps finding both members under the
\* path it was given, whatever protections, events, renames and deletions are
\* requested meanwhile and however old their clock reads are
\* (acquire_download_lease and the lease checks of every pair mutation).
DownloadFrozen ==
    \A h \in Holders :
        LET d == download[h]
        IN  d # NoDownload /\ d.at # Absent /\ now < d.expires =>
                \A m \in Members : at[d.clip][m] = d.at

\* The cap on concurrent downloads holds although the count is taken with a
\* clock read from before the transaction (acquire_download_lease).
LeaseCapHeld == Cardinality({c \in Clips : Active(c, now)}) <= MaxLeases

\* Between mutations the directory tells the protection: an unprotected pair is
\* never left in protected/, where it would be the oldest eligible clip that
\* prepare_oldest_eligible_delete refuses for ever, and a protected pair is in
\* clips/ only while a lease defers its move
\* (_queue_directory_invariant_repair_locked).
DirectoryTellsProtection ==
    \A c \in Clips : lifecycle[c] = "FINALIZED" /\ Idle(c) =>
        /\ path[c].dir = "protected" => protected[c]
        /\ protected[c] /\ lease[c] = NoLease => path[c].dir = "protected"

\* The NEXT window of an event is spent on the first clips that close after
\* the event, none skipped, and on no more clips than were asked for
\* (trigger_event and active_closing_protection).
NextWindowNotSkipped ==
    \A e \in Events : event[e] # NoEvent =>
        LET next == {c \in event[e].targets : c > event[e].current}
        IN  /\ Cardinality(next) + event[e].remaining = NextCount
            /\ event[e].remaining > 0 =>
                \A c \in Clips :
                    /\ c > event[e].current
                    /\ lifecycle[c] \notin {"NONE", "WRITING", "MISSING_SIDECAR"}
                    => c \in next

\* Only a pair reserved for deletion loses a member, and never one that is
\* protected, claimed or being downloaded (prepare_delete,
\* prepare_oldest_eligible_delete and the DELETE branch of reconcile_intent).
OnlyReservedUnlinked ==
    [][\A c \in Clips, m \in Members :
         at[c][m] # Absent /\ at'[c][m] = Absent =>
            /\ lifecycle[c] = "DELETING"
            /\ ~protected[c] /\ ~claim[c]
            /\ \A h \in Holders :
                    download[h].clip = c => now >= download[h].expires]_vars

\* The sidecar with which a clip leaves WRITING records the protection the row
\* has at that moment, although protection requests come in while the sidecar
\* is staged (register_finalizing_clip and its expected revision).
SidecarMatchesRowAtClose ==
    [][\A c \in Clips :
         lifecycle[c] = "WRITING" /\ lifecycle'[c] = "FINALIZING" =>
            /\ at[c]["sidecar"] = Partial
            /\ content[c].protected = protected[c]
            /\ content[c].name = intent'[c].tgt.name]_vars

-----------------------------------------------------------------------------
(* The inductive invariant behind these properties *)

\* What each kind of pending intent says about its row.
IntentFits(c) ==
    \/ /\ intent[c].kind = "FINALIZE"
       /\ lifecycle[c] = "FINALIZING"
       /\ intent[c].src = Partial
       /\ intent[c].tgt \in FinalPaths
       /\ intent[c].tgt.dir = "clips"
    \/ /\ intent[c].kind = "PROTECT"
       /\ lifecycle[c] = "FINALIZED"
       /\ intent[c].src \in FinalPaths
       /\ intent[c].tgt = MoveTo(intent[c].src, "protected")
       /\ protected[c]
    \/ /\ intent[c].kind = "UNPROTECT"
       /\ lifecycle[c] = "FINALIZED"
       /\ intent[c].src \in FinalPaths
       /\ intent[c].tgt = MoveTo(intent[c].src, "clips")
       /\ protected[c]
       /\ revision[c] >= intent[c].expected
       /\ claim[c] => revision[c] > intent[c].expected
    \/ /\ intent[c].kind = "RECONCILE_NAME"
       /\ lifecycle[c] = "FINALIZED"
       /\ intent[c].src \in FinalPaths
       /\ intent[c].tgt = [dir |-> intent[c].src.dir, name |-> "utc"]
       /\ intent[c].src.dir = "protected" => protected[c]
    \/ /\ intent[c].kind = "DELETE"
       /\ lifecycle[c] = "DELETING"
       /\ intent[c].src \in FinalPaths
       /\ intent[c].tgt = Absent
       /\ ~protected[c]

\* A row and its pending intent agree.
RowInv(c) ==
    /\ lifecycle[c] \in {"NONE", "WRITING", "MISSING_SIDECAR", "DELETED"} => Idle(c)
    /\ lifecycle[c] \in {"NONE", "WRITING", "MISSING_SIDECAR"} => ~reconciled[c]
    /\ lifecycle[c] \in {"FINALIZING", "DELETING"} => ~Idle(c)
    /\ ~Idle(c) => IntentFits(c) /\ path[c] = intent[c].src /\ ~reconciled[c]
    /\ lifecycle[c] = "FINALIZED" => path[c] \in FinalPaths
    /\ lifecycle[c] = "FINALIZED" /\ Idle(c) =>
        /\ reconciled[c]
        /\ path[c].dir = "protected" => protected[c]
        /\ protected[c] /\ lease[c] = NoLease => path[c].dir = "protected"
    /\ lifecycle[c] \in {"WRITING", "MISSING_SIDECAR"} => path[c] = Partial
    /\ lease[c] # NoLease => lifecycle[c] = "FINALIZED"
    /\ claim[c] => protected[c] /\ lifecycle[c] \notin {"NONE", "DELETING", "DELETED"}

\* The files are where the row and its pending intent say.
FileInv(c) ==
    /\ ~Idle(c) => \A m \in Members : at[c][m] \in {intent[c].src, intent[c].tgt}
    /\ lifecycle[c] = "FINALIZED" /\ Idle(c) =>
        /\ \A m \in Members : at[c][m] = path[c]
        /\ content[c].name = path[c].name
    /\ lifecycle[c] \in {"WRITING", "MISSING_SIDECAR"} => at[c]["video"] = Partial
    /\ intent[c].kind = "FINALIZE" => content[c].name = intent[c].tgt.name
    /\ intent[c].kind \in {"PROTECT", "UNPROTECT"} => content[c].name = intent[c].src.name

\* A recorder's hold is on a clip it writes, and what it staged is on the card.
HoldInv(c) ==
    /\ hold[c] # Unheld => lifecycle[c] = "WRITING"
    /\ hold[c].phase = "staged" =>
        /\ at[c]["sidecar"] = Partial
        /\ content[c] = [name |-> hold[c].name, protected |-> hold[c].protected]

\* A lease of this boot that has not expired keeps its clip free of intents.
LeaseInv(c) ==
    lease[c] # NoLease =>
        /\ lease[c].boot <= boot
        /\ lease[c].boot = boot /\ now < lease[c].expires => Idle(c)

\* A renamed pair is moved only after its sidecar carries the new name.
TxnInv ==
    txn # NoTxn =>
        /\ ~Idle(txn.clip)
        /\ intent[txn.clip].kind = "RECONCILE_NAME" =>
            content[txn.clip].name = intent[txn.clip].tgt.name

\* A download that has not expired is backed by the lease of its holder.
DownloadInv(h) ==
    download[h] # NoDownload /\ now < download[h].expires =>
        /\ lease[download[h].clip] =
            [holder |-> h, expires |-> download[h].expires, boot |-> boot]
        /\ download[h].at # Absent => path[download[h].clip] = download[h].at

CatalogInv ==
    /\ \A c \in Clips : RowInv(c) /\ FileInv(c) /\ HoldInv(c) /\ LeaseInv(c)
    /\ TxnInv
    /\ \A h \in Holders : DownloadInv(h)

\* What protections, events, moves and downloads leave true of every clip.
CatalogSafe ==
    /\ TypeOK /\ PairStaysWhole /\ ClaimHonoured
    /\ DownloadFrozen /\ DirectoryTellsProtection

\* What must be so when a member is unlinked and when a clip is closed.
CatalogSteps == OnlyReservedUnlinked /\ SidecarMatchesRowAtClose

\* A clip whose protection snapshot is held has spent the NEXT windows that are
\* open: it cannot leave WRITING past an event that still waits for it.
SnapshotSpendsWindows ==
    \A e \in Events, c \in Clips :
        event[e].remaining > 0 /\ event[e].current < c
        /\ hold[c].phase \in {"snapshot", "staged"} => c \in event[e].targets

\* The two counts that are taken before the transaction they decide: concurrent
\* downloads and the NEXT windows that are left.
CountsKept == LeaseCapHeld /\ NextWindowNotSkipped /\ SnapshotSpendsWindows

-----------------------------------------------------------------------------
(* Liveness *)

\* However often the recorder crashes or a file operation fails, every pending
\* intent is completed in the end: no half-done move, deletion or rename stays
\* behind (reconcile_intent is re-plannable from any intermediate state), but
\* for a file of unknown origin in its way, until that is removed.
IntentsSettle == \A c \in Clips : ~Idle(c) ~> Idle(c) \/ foreign # {}

\* A clip whose protection was accepted ends up in protected/, even when a
\* download lease put its move off, unless the protection is given up or a file
\* of unknown origin is in the way
\* (_protect_for_event_locked and clear_expired_download_leases).
ProtectionReachesDirectory ==
    \A c \in Clips :
        claim[c] /\ lifecycle[c] = "FINALIZED" ~>
            path[c].dir = "protected" \/ ~claim[c] \/ foreign # {}

\* What recovery owes the clips, once crashes and faults are over.
RecoverySettles == IntentsSettle /\ ProtectionReachesDirectory

-----------------------------------------------------------------------------
(* The promise of the catalog *)

Status(l) ==
    CASE l = "NONE" -> "none"
      [] l = "WRITING" -> "open"
      [] l = "MISSING_SIDECAR" -> "lost"
      [] l \in {"FINALIZING", "FINALIZED"} -> "kept"
      [] l = "DELETING" -> "condemned"
      [] l = "DELETED" -> "removed"

statusOf == [c \in Clips |-> Status(lifecycle[c])]

guardedClips == {c \in Clips : claim[c]}

Store == INSTANCE ClipStore WITH status <- statusOf, guarded <- guardedClips

\* The catalog implements ClipStore: through every interleaving of requests,
\* replays and crashes a clip passes only through the states of its life, and
\* one whose protection was accepted is never condemned.
KeepsPromise == Store!StoreSpec

=============================================================================
