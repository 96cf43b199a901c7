------------------------- MODULE ClipCatalogProofs -------------------------
(***************************************************************************)
(* Proofs about ClipCatalog for every number of clips, events and holders  *)
(* and every value of the bounds.                                          *)
(***************************************************************************)
EXTENDS ClipCatalog, FiniteSetTheorems, TLAPS

\* The inductive invariant: the types and what rows, intents, files, holds,
\* leases and downloads say of each other.
Inv == TypeOK /\ CatalogInv

-----------------------------------------------------------------------------
(* Facts about paths, intents and holds *)

\* Final paths are closed under the moves that the intents make.
LEMMA PathFacts ==
    /\ Absent \notin Paths
    /\ Partial \in Paths /\ Partial \notin FinalPaths
    /\ \A p \in FinalPaths : /\ p \in Paths
                             /\ MoveTo(p, "protected") \in FinalPaths
                             /\ MoveTo(p, "clips") \in FinalPaths
                             /\ [dir |-> p.dir, name |-> "utc"] \in FinalPaths
                             /\ [p EXCEPT !.name = "utc"] = [dir |-> p.dir, name |-> "utc"]
BY DEF Absent, Paths, Partial, FinalPaths, FinalDirs, FinalNames, MoveTo

\* A pending intent is well formed, and unless it deletes it ends at a final path.
LEMMA PendingIntent ==
    ASSUME Inv, NEW c \in Clips, ~Idle(c)
    PROVE  /\ intent[c] \in Intents
           /\ IntentFits(c)
           /\ intent[c].kind # "DELETE" => intent[c].tgt \in FinalPaths
<1>1. intent[c] \in Intents
  BY DEF Inv, TypeOK, Idle
<1>2. IntentFits(c)
  BY DEF Inv, CatalogInv, RowInv
<1>3. intent[c].kind # "DELETE" => intent[c].tgt \in FinalPaths
  BY <1>2, PathFacts DEF IntentFits
<1> QED
  BY <1>1, <1>2, <1>3

\* A hold with a snapshot has all the fields of one.
LEMMA HoldFacts ==
    ASSUME TypeOK, NEW c \in Clips, hold[c].phase \in {"snapshot", "staged"}
    PROVE  hold[c] \in Snapshots
BY DEF TypeOK, Open, Unheld

\* The queued move to protected/ is a well-formed intent.
LEMMA ProtectIntentType ==
    ASSUME NEW p \in FinalPaths PROVE ProtectIntent(p) \in Intents
BY PathFacts DEF ProtectIntent, Intents, Kinds

\* The initial state, an empty catalog, satisfies the invariant.
LEMMA InitInv == Init => Inv
<1> SUFFICES ASSUME Init PROVE Inv
  OBVIOUS
<1>1. TypeOK
  BY DEF Init, TypeOK, Lifecycles, Members
<1>2. ASSUME NEW c \in Clips PROVE RowInv(c) /\ FileInv(c) /\ HoldInv(c) /\ LeaseInv(c)
  BY DEF Init, RowInv, FileInv, HoldInv, LeaseInv, Idle, Unheld, NoIntent
<1>3. TxnInv /\ \A h \in Holders : DownloadInv(h)
  BY DEF Init, TxnInv, DownloadInv
<1> QED
  BY <1>1, <1>2, <1>3 DEF Inv, CatalogInv

-----------------------------------------------------------------------------
(* Type correctness.  The step needs the inductive invariant: the target of *)
(* a completed intent is a path only because the intent fits its row.       *)

\* reconcile_intent keeps the types.
LEMMA TypeReconciling ==
    ASSUME Inv, Reconciling PROVE TypeOK'
<1> USE DEF Inv
<1>1. ASSUME NEW c \in Clips, BeginReconcile(c) PROVE TypeOK'
  <2>1. txn' \in Txns
    BY <1>1 DEF BeginReconcile, Planned, Todo, Txns, Members
  <2>2. content' \in [Clips -> Contents \cup {NoContent}]
    <3>1. CASE intent[c].kind = "RECONCILE_NAME"
      <4>1. /\ intent[c].src \in FinalPaths /\ intent[c].tgt \in FinalPaths
            /\ intent[c].tgt.name = "utc"
        <5>1. ~Idle(c)
          BY <1>1 DEF BeginReconcile
        <5>2. IntentFits(c) /\ intent[c].tgt \in FinalPaths
          BY <3>1, <5>1, PendingIntent
        <5>3. intent[c].src \in FinalPaths
          BY <3>1, <5>2 DEF IntentFits
        <5>4. intent[c].tgt = [dir |-> intent[c].src.dir, name |-> "utc"]
          BY <3>1, <5>2 DEF IntentFits
        <5> QED
          BY <5>2, <5>3, <5>4
      <4>2. content[c].name \in FinalNames
        BY <1>1, <3>1, <4>1 DEF BeginReconcile, SidecarReady, FinalPaths
      <4>3. content[c] \in Contents
        BY <4>2 DEF TypeOK, NoContent, FinalNames
      <4> QED
        BY <1>1, <3>1, <4>1, <4>3 DEF BeginReconcile, PreparedContent, TypeOK, Contents,
                                      FinalNames
    <3>2. CASE intent[c].kind # "RECONCILE_NAME"
      BY <1>1, <3>2 DEF BeginReconcile, PreparedContent, TypeOK
    <3> QED
      BY <3>1, <3>2
  <2> QED
    BY <1>1, <2>1, <2>2 DEF BeginReconcile, TypeOK, rows, clock
<1>2. ASSUME MoveMember PROVE TypeOK'
  <2>1. /\ txn \in Txns /\ txn.clip \in Clips
        /\ intent[txn.clip].tgt \in Paths \cup {Absent}
        /\ NextMember(txn.todo) \in Members
    BY <1>2 DEF MoveMember, TypeOK, Txns, Intents, NoIntent, NextMember, Members
  <2>2. at' \in [Clips -> [Members -> Paths \cup {Absent}]]
    BY <1>2, <2>1 DEF MoveMember, TypeOK
  <2>3. txn' \in Txns
    BY <1>2, <2>1 DEF MoveMember, Txns
  <2> QED
    BY <1>2, <2>2, <2>3 DEF MoveMember, TypeOK, rows, clock
<1>3. ASSUME AbortReconcile PROVE TypeOK'
  BY <1>3, CatalogAssumption DEF AbortReconcile, TypeOK, rows, files, clock
<1>4. ASSUME CommitReconcile PROVE TypeOK'
  <2> DEFINE c == txn.clip
  <2>1. c \in Clips /\ ~Idle(c)
    BY <1>4 DEF CommitReconcile, TypeOK, CatalogInv, TxnInv, Txns
  <2> HIDE DEF c
  <2>2. CASE Complete(c)
    <3>1. /\ intent[c] \in Intents
          /\ intent[c].kind # "DELETE" => intent[c].tgt \in FinalPaths
          /\ NeedsProtectMove(c) => intent[c].tgt \in FinalPaths
      BY <2>1, PendingIntent DEF NeedsProtectMove, NewerProtection
    <3>2. CompleteIntent(c)
      BY <1>4, <2>2 DEF CommitReconcile, c
    <3>3. lifecycle' \in [Clips -> Lifecycles]
      BY <2>1, <3>2 DEF CompleteIntent, TypeOK, Lifecycles
    <3>4. path' \in [Clips -> Paths \cup {Absent}]
      BY <2>1, <3>1, <3>2, PathFacts DEF CompleteIntent, TypeOK
    <3>5. NewerProtection(c) \in BOOLEAN /\ (~NeedsProtectMove(c)) \in BOOLEAN
      BY DEF NewerProtection
    <3>6. protected' \in [Clips -> BOOLEAN]
      <4>1. intent[c].kind = "UNPROTECT" =>
              protected' = [protected EXCEPT ![c] = NewerProtection(c)]
        BY <3>2 DEF CompleteIntent
      <4>2. intent[c].kind = "PROTECT" => protected' = [protected EXCEPT ![c] = TRUE]
        BY <3>2 DEF CompleteIntent
      <4>3. intent[c].kind \notin {"UNPROTECT", "PROTECT"} =>
              protected' = [protected EXCEPT ![c] = protected[c]]
        BY <3>2 DEF CompleteIntent
      <4> QED
        BY <2>1, <3>5, <4>1, <4>2, <4>3 DEF TypeOK
    <3>7. reconciled' \in [Clips -> BOOLEAN]
      BY <2>1, <3>2, <3>5 DEF CompleteIntent, TypeOK
    <3>8. lease' \in [Clips -> Leases \cup {NoLease}]
      BY <2>1, <3>2 DEF CompleteIntent, TypeOK
    <3>9. intent' \in [Clips -> Intents \cup {NoIntent}]
      BY <2>1, <3>1, <3>2, ProtectIntentType DEF CompleteIntent, TypeOK
    <3> QED
      BY <1>4, <3>3, <3>4, <3>6, <3>7, <3>8, <3>9 DEF CommitReconcile, TypeOK, files, clock
  <2>3. CASE ~Complete(c)
    BY <1>4, <2>3 DEF CommitReconcile, TypeOK, files, clock, c
  <2> QED
    BY <2>2, <2>3
<1> QED
  BY <1>1, <1>2, <1>3, <1>4 DEF Reconciling

\* active_closing_protection keeps the types: a window it spends was open.
LEMMA TypeSnapshot ==
    ASSUME TypeOK, NEW c \in Clips, NEW n \in CloseNames, TakeSnapshot(c, n) PROVE TypeOK'
<1> DEFINE windows == WindowsOf(c)
<1>1. windows \subseteq Events /\ Cardinality(windows) \in Nat
  BY CatalogAssumption, FS_Subset, FS_CardinalityType DEF WindowsOf, Waiting
<1>2. ASSUME NEW e \in windows
      PROVE  [event[e] EXCEPT !.remaining = @ - 1, !.targets = @ \cup {c}] \in EventRecords
  <2>1. event[e] \in EventRecords /\ event[e].remaining > 0
    BY DEF WindowsOf, Waiting, TypeOK, NoEvent
  <2>2. event[e].remaining - 1 \in Nat /\ event[e].targets \cup {c} \in SUBSET Clips
    BY <2>1 DEF EventRecords
  <2> QED
    BY <2>1, <2>2 DEF EventRecords
<1>3. event' \in [Events -> EventRecords \cup {NoEvent}]
  <2>1. event \in [Events -> EventRecords \cup {NoEvent}]
    BY DEF TypeOK
  <2>2. event' = [e \in Events |->
                    IF e \in windows
                    THEN [event[e] EXCEPT !.remaining = @ - 1, !.targets = @ \cup {c}]
                    ELSE event[e]]
    BY DEF TakeSnapshot
  <2> HIDE DEF windows
  <2> QED
    BY <1>2, <2>1, <2>2
<1>4. revision' \in [Clips -> Nat]
  <2>1. revision \in [Clips -> Nat]
    BY DEF TypeOK
  <2>2. revision' = [revision EXCEPT ![c] = revision[c] + Cardinality(windows)]
    BY DEF TakeSnapshot
  <2> HIDE DEF windows
  <2> QED
    BY <1>1, <2>1, <2>2
<1>5. protected' \in [Clips -> BOOLEAN]
  BY Zenon DEF TakeSnapshot, TypeOK
<1>6. claim' \in [Clips -> BOOLEAN]
  BY Zenon DEF TakeSnapshot, TypeOK
<1>7. hold' \in [Clips -> Snapshots \cup {Open, Unheld}]
  <2>1. n \in FinalNames
    BY CatalogAssumption DEF FinalNames
  <2>2. [phase |-> "snapshot", name |-> n, protected |-> protected'[c],
         revision |-> revision'[c]] \in Snapshots
    BY <1>4, <1>5, <2>1 DEF Snapshots
  <2> QED
    BY <2>2 DEF TakeSnapshot, TypeOK
<1> QED
  BY <1>3, <1>4, <1>5, <1>6, <1>7 DEF TakeSnapshot, TypeOK, files, clock

\* Opening, closing and orphaning a clip keep the types.
LEMMA TypeRecording ==
    ASSUME TypeOK, Recording PROVE TypeOK'
<1>1. ASSUME NEW c \in Clips, RegisterWriting(c) PROVE TypeOK'
  BY <1>1, PathFacts DEF RegisterWriting, TypeOK, Lifecycles, Members, clock
<1>2. ASSUME NEW c \in Clips, NEW n \in CloseNames, TakeSnapshot(c, n) PROVE TypeOK'
  BY <1>2, TypeSnapshot
<1>3. ASSUME NEW c \in Clips, StageSidecar(c) PROVE TypeOK'
  <2>1. hold[c] \in Snapshots
    BY <1>3, HoldFacts DEF StageSidecar
  <2>2. at' \in [Clips -> [Members -> Paths \cup {Absent}]]
    BY <1>3, PathFacts DEF StageSidecar, TypeOK, Members
  <2>3. content' \in [Clips -> Contents \cup {NoContent}]
    BY <1>3, <2>1 DEF StageSidecar, TypeOK, Contents, Snapshots
  <2>4. hold' \in [Clips -> Snapshots \cup {Open, Unheld}]
    <3>1. [hold[c] EXCEPT !.phase = "staged"] \in Snapshots
      BY <2>1 DEF Snapshots
    <3>2. hold' = [hold EXCEPT ![c] = [hold[c] EXCEPT !.phase = "staged"]]
      BY <1>3 DEF StageSidecar
    <3> QED
      BY <3>1, <3>2 DEF TypeOK
  <2> QED
    BY <1>3, <2>2, <2>3, <2>4 DEF StageSidecar, TypeOK, rows, clock
<1>4. ASSUME NEW c \in Clips, RegisterFinalizing(c) PROVE TypeOK'
  <2>1. hold[c] \in Snapshots
    BY <1>4, HoldFacts DEF RegisterFinalizing
  <2>2. [kind |-> "FINALIZE", src |-> Partial,
         tgt |-> [dir |-> "clips", name |-> hold[c].name], expected |-> 0] \in Intents
    BY <2>1, PathFacts DEF Intents, Kinds, Snapshots, FinalPaths, FinalDirs
  <2> QED
    BY <1>4, <2>2 DEF RegisterFinalizing, TypeOK, Lifecycles, files, clock
<1>5. ASSUME NEW c \in Clips, RetrySnapshot(c) PROVE TypeOK'
  BY <1>5 DEF RetrySnapshot, TypeOK, rows, files, clock
<1>6. ASSUME NEW c \in Clips, MarkOrphaned(c) PROVE TypeOK'
  BY <1>6 DEF MarkOrphaned, TypeOK, Lifecycles, files, clock
<1> QED
  BY <1>1, <1>2, <1>3, <1>4, <1>5, <1>6 DEF Recording

\* A finalized row names a final path.
LEMMA FinalizedPath ==
    ASSUME Inv, NEW c \in Clips, lifecycle[c] = "FINALIZED"
    PROVE  path[c] \in FinalPaths
BY DEF Inv, CatalogInv, RowInv

\* The repair after a cleared lease queues a well-formed intent or none.
LEMMA RepairIntentType ==
    ASSUME Inv, NEW c \in Clips PROVE RepairIntent(c) \in Intents \cup {NoIntent}
<1>1. CASE lifecycle[c] # "FINALIZED" \/ ~Idle(c)
  BY <1>1 DEF RepairIntent, Inv, TypeOK
<1>2. CASE lifecycle[c] = "FINALIZED" /\ Idle(c)
  <2>1. path[c] \in FinalPaths /\ revision[c] \in Nat
    BY <1>2, FinalizedPath DEF Inv, TypeOK
  <2>2. [kind |-> "UNPROTECT", src |-> path[c], tgt |-> MoveTo(path[c], "clips"),
         expected |-> revision[c]] \in Intents
    BY <2>1, PathFacts DEF Intents, Kinds
  <2> QED
    BY <1>2, <2>1, <2>2, ProtectIntentType DEF RepairIntent
<1> QED
  BY <1>1, <1>2

\* Clearing leases keeps the types of the rows it changes.
LEMMA ClearAndRepairType ==
    ASSUME Inv, NEW cleared, ClearAndRepair(cleared)
    PROVE  /\ lease' \in [Clips -> Leases \cup {NoLease}]
           /\ intent' \in [Clips -> Intents \cup {NoIntent}]
           /\ reconciled' \in [Clips -> BOOLEAN]
BY RepairIntentType DEF ClearAndRepair, Inv, TypeOK

\* Reserving a finalized pair for deletion keeps the types.
LEMMA ReserveDeleteType ==
    ASSUME Inv, NEW c \in Clips, lifecycle[c] = "FINALIZED", ReserveDelete(c)
    PROVE  TypeOK'
<1>1. path[c] \in Paths
  BY FinalizedPath, PathFacts
<1>2. [kind |-> "DELETE", src |-> path[c], tgt |-> Absent, expected |-> 0] \in Intents
  BY <1>1 DEF Intents, Kinds
<1> QED
  BY <1>2 DEF ReserveDelete, Inv, TypeOK, Lifecycles, files, clock

\* Requests of clients, of the reclaimer and of events keep the types.
LEMMA TypeRequests ==
    ASSUME Inv, Requests PROVE TypeOK'
<1> TypeOK
  BY DEF Inv
<1>0. \A t \in Reads : t \in Nat /\ t <= now
  BY DEF Reads, TypeOK
<1>1. ASSUME NEW t \in Reads, NEW c \in Clips, PrepareProtect(c, t) PROVE TypeOK'
  <2>1. Movable(c, t) => ProtectIntent(path[c]) \in Intents
    BY FinalizedPath, ProtectIntentType DEF Movable
  <2>2. intent' \in [Clips -> Intents \cup {NoIntent}] /\ reconciled' \in [Clips -> BOOLEAN]
    BY <1>1, <2>1 DEF PrepareProtect, TypeOK
  <2>3. /\ protected' \in [Clips -> BOOLEAN]
        /\ revision' \in [Clips -> Nat]
        /\ claim' \in [Clips -> BOOLEAN]
    <3>1. /\ protected' = [protected EXCEPT ![c] = TRUE]
          /\ revision' = [revision EXCEPT ![c] = revision[c] + 1]
          /\ claim' = [claim EXCEPT ![c] = TRUE]
      BY <1>1 DEF PrepareProtect
    <3> QED
      BY <3>1 DEF TypeOK
  <2> QED
    BY <1>1, <2>2, <2>3 DEF PrepareProtect, TypeOK, files, clock
<1>2. ASSUME NEW t \in Reads, NEW c \in Clips, PrepareUnprotect(c, t) PROVE TypeOK'
  <2>1. [kind |-> "UNPROTECT", src |-> path[c], tgt |-> MoveTo(path[c], "clips"),
         expected |-> revision[c]] \in Intents
    BY <1>2, FinalizedPath, PathFacts DEF PrepareUnprotect, Intents, Kinds, TypeOK
  <2> QED
    BY <1>2, <2>1 DEF PrepareUnprotect, TypeOK, files, clock
<1>3. ASSUME NEW t \in Reads, NEW c \in Clips, PrepareDelete(c, t) PROVE TypeOK'
  BY <1>3, ReserveDeleteType DEF PrepareDelete, Eligible
<1>4. ASSUME NEW t \in Reads, PrepareOldestDelete(t) PROVE TypeOK'
  BY <1>4, ReserveDeleteType DEF PrepareOldestDelete, Eligible
<1>5. ASSUME NEW t \in Reads, NEW c \in Clips, NEW h \in Holders, AcquireLease(c, h, t)
      PROVE  TypeOK'
  <2>1. t + LeaseDuration \in Nat
    BY <1>0, CatalogAssumption
  <2>2. [holder |-> h, expires |-> t + LeaseDuration, boot |-> boot] \in Leases
    BY <2>1 DEF Leases, TypeOK
  <2>3. [clip |-> c, expires |-> t + LeaseDuration, at |-> Absent] \in Downloads
    BY <2>1 DEF Downloads
  <2> QED
    BY <1>5, <2>2, <2>3 DEF AcquireLease, TypeOK, files, clock
<1>6. ASSUME NEW t \in Reads, NEW c \in Clips, NEW e \in Events, TriggerEvent(e, c, t)
      PROVE  TypeOK'
  <2> DEFINE targets == PreviousOf(c) \cup {c}
  <2>1. targets \in SUBSET Clips
    BY DEF PreviousOf
  <2>2. [current |-> c, remaining |-> NextCount, targets |-> targets] \in EventRecords
    BY <2>1, CatalogAssumption DEF EventRecords
  <2>3. event' \in [Events -> EventRecords \cup {NoEvent}]
    BY <1>6, <2>2 DEF TriggerEvent, TypeOK
  <2>4. /\ revision' \in [Clips -> Nat]
        /\ reconciled' \in [Clips -> BOOLEAN]
    <3>1. /\ revision' = [d \in Clips |-> IF d \in targets THEN revision[d] + 1
                                          ELSE revision[d]]
          /\ reconciled' = [d \in Clips |-> IF d \in targets /\ Movable(d, t)
                                            THEN FALSE ELSE reconciled[d]]
      BY <1>6 DEF TriggerEvent
    <3>2. revision \in [Clips -> Nat] /\ reconciled \in [Clips -> BOOLEAN]
      BY DEF TypeOK
    <3> HIDE DEF targets
    <3>3. revision' \in [Clips -> Nat]
      BY <3>1, <3>2
    <3>4. reconciled' \in [Clips -> BOOLEAN]
      BY <3>1, <3>2, Zenon
    <3> QED
      BY <3>3, <3>4
  <2>6. protected' \in [Clips -> BOOLEAN]
    BY <1>6, Zenon DEF TriggerEvent, TypeOK
  <2>7. claim' \in [Clips -> BOOLEAN]
    BY <1>6, Zenon DEF TriggerEvent, TypeOK
  <2>5. intent' \in [Clips -> Intents \cup {NoIntent}]
    <3>1. \A d \in Clips : Movable(d, t) => ProtectIntent(path[d]) \in Intents
      BY FinalizedPath, ProtectIntentType DEF Movable
    <3> QED
      BY <1>6, <3>1 DEF TriggerEvent, TypeOK
  <2> QED
    BY <1>6, <2>3, <2>4, <2>5, <2>6, <2>7 DEF TriggerEvent, TypeOK, files, clock
<1>7. ASSUME NEW t \in Reads, ClearExpired(t) PROVE TypeOK'
  <2>1. PICK cleared : ClearAndRepair(cleared)
    BY <1>7 DEF ClearExpired
  <2> QED
    BY <1>7, <2>1, ClearAndRepairType DEF ClearExpired, TypeOK, files, clock
<1> QED
  BY <1>1, <1>2, <1>3, <1>4, <1>5, <1>6, <1>7 DEF Requests

\* Every step keeps the types.
LEMMA TypeStep ==
    ASSUME Inv, [Next]_vars PROVE TypeOK'
<1> TypeOK
  BY DEF Inv
<1>1. ASSUME NEW c \in Clips, RegisterName(c) PROVE TypeOK'
  <2>0. lifecycle[c] = "FINALIZED"
    BY <1>1 DEF RegisterName
  <2>1. path[c] \in FinalPaths
    BY <2>0, FinalizedPath
  <2>2. [path[c] EXCEPT !.name = "utc"] \in Paths
    BY <2>1, PathFacts
  <2>3. [kind |-> "RECONCILE_NAME", src |-> path[c],
         tgt |-> [path[c] EXCEPT !.name = "utc"], expected |-> 0] \in Intents
    BY <2>1, <2>2, PathFacts DEF Intents, Kinds
  <2> QED
    BY <1>1, <2>3 DEF RegisterName, TypeOK, files, clock
<1>2. ASSUME NEW h \in Holders, ReadApprovedPath(h) PROVE TypeOK'
  <2>1. download[h] \in Downloads
    BY <1>2 DEF ReadApprovedPath, TypeOK
  <2>2. path[download[h].clip] \in Paths \cup {Absent}
    BY <2>1 DEF TypeOK, Downloads
  <2>3. [download[h] EXCEPT !.at = path[download[h].clip]] \in Downloads
    BY <2>1, <2>2 DEF Downloads
  <2>4. download' = [download EXCEPT ![h] =
                       [download[h] EXCEPT !.at = path[download[h].clip]]]
    BY <1>2 DEF ReadApprovedPath
  <2> QED
    BY <1>2, <2>3, <2>4 DEF ReadApprovedPath, TypeOK, rows, files, clock
<1>3. ASSUME NEW h \in Holders, ReleaseLease(h) PROVE TypeOK'
  <2>1. PICK cleared : ClearAndRepair(cleared)
    BY <1>3 DEF ReleaseLease
  <2> QED
    BY <1>3, <2>1, ClearAndRepairType DEF ReleaseLease, TypeOK, files, clock
<1>4. ASSUME Tick PROVE TypeOK'
  BY <1>4 DEF Tick, TypeOK, rows, files
<1>5. ASSUME Crash PROVE TypeOK'
  BY <1>5 DEF Crash, TypeOK, rows, files, clock
<1>6. ASSUME Reboot PROVE TypeOK'
  BY <1>6 DEF Reboot, TypeOK, rows, files
<1>7. ASSUME NEW f \in Foreign, ForeignAppears(f) \/ ForeignRemoved(f) PROVE TypeOK'
  BY <1>7 DEF ForeignAppears, ForeignRemoved, TypeOK, rows, clock
<1>8. ASSUME UNCHANGED vars PROVE TypeOK'
  BY <1>8 DEF vars, TypeOK
<1> QED
  BY <1>1, <1>2, <1>3, <1>4, <1>5, <1>6, <1>7, <1>8, TypeReconciling, TypeRecording,
     TypeRequests DEF Next

-----------------------------------------------------------------------------
(* Framing.  A step changes the rows and files of few clips; the invariant  *)
(* of every other clip is carried over.                                     *)

ClipInv(c) == RowInv(c) /\ FileInv(c) /\ HoldInv(c) /\ LeaseInv(c)

SameRow(c) ==
    /\ lifecycle'[c] = lifecycle[c]
    /\ path'[c] = path[c]
    /\ protected'[c] = protected[c]
    /\ revision'[c] = revision[c]
    /\ reconciled'[c] = reconciled[c]
    /\ lease'[c] = lease[c]
    /\ intent'[c] = intent[c]
    /\ claim'[c] = claim[c]

SameFiles(c) == at'[c] = at[c] /\ content'[c] = content[c]

\* The clock of a boot only advances.
ClockAdvances == boot' = boot /\ now \in Nat /\ now' \in Nat /\ now <= now'

\* A row that does not change keeps RowInv.
LEMMA RowFrame ==
    ASSUME NEW c \in Clips, RowInv(c), SameRow(c) PROVE RowInv(c)'
BY DEF RowInv, IntentFits, Idle, SameRow

\* A row and files that do not change keep FileInv.
LEMMA FileFrame ==
    ASSUME NEW c \in Clips, FileInv(c), SameRow(c), SameFiles(c) PROVE FileInv(c)'
BY DEF FileInv, Idle, SameRow, SameFiles

\* A hold that does not change, or is dropped by a crash, keeps HoldInv.
LEMMA HoldFrame ==
    ASSUME NEW c \in Clips, HoldInv(c), SameRow(c), SameFiles(c), hold'[c] \in {hold[c], Unheld}
    PROVE  HoldInv(c)'
<1>1. CASE hold'[c] = hold[c]
  BY <1>1 DEF HoldInv, SameRow, SameFiles
<1>2. CASE hold'[c] = Unheld
  BY <1>2 DEF HoldInv, Unheld
<1> QED
  BY <1>1, <1>2

\* A lease that does not change keeps LeaseInv while the clock advances.
LEMMA LeaseFrame ==
    ASSUME TypeOK, NEW c \in Clips, LeaseInv(c), ClockAdvances,
           lease'[c] = lease[c], intent'[c] = intent[c]
    PROVE  LeaseInv(c)'
<1>1. CASE lease[c] = NoLease
  BY <1>1 DEF LeaseInv
<1>2. CASE lease[c] # NoLease
  <2>1. lease[c].expires \in Nat
    BY <1>2 DEF TypeOK, Leases
  <2> QED
    BY <1>2, <2>1 DEF LeaseInv, ClockAdvances, Idle
<1> QED
  BY <1>1, <1>2

\* A clip that a step does not touch keeps all of its invariant.
LEMMA ClipFrame ==
    ASSUME TypeOK, NEW c \in Clips, ClipInv(c), SameRow(c), SameFiles(c),
           hold'[c] \in {hold[c], Unheld}, ClockAdvances
    PROVE  ClipInv(c)'
<1>1. RowInv(c)' /\ FileInv(c)' /\ HoldInv(c)'
  BY RowFrame, FileFrame, HoldFrame DEF ClipInv
<1>2. LeaseInv(c)'
  BY LeaseFrame DEF ClipInv, SameRow
<1> QED
  BY <1>1, <1>2 DEF ClipInv

\* A download whose lease and path do not change keeps DownloadInv.
LEMMA DownloadFrame ==
    ASSUME TypeOK, NEW h \in Holders, DownloadInv(h), ClockAdvances,
           download'[h] = download[h],
           download[h] # NoDownload /\ now < download[h].expires =>
                /\ lease'[download[h].clip] = lease[download[h].clip]
                /\ path'[download[h].clip] = path[download[h].clip]
    PROVE  DownloadInv(h)'
<1>1. CASE download[h] = NoDownload
  BY <1>1 DEF DownloadInv
<1>2. CASE download[h] # NoDownload
  <2>1. download[h].expires \in Nat
    BY <1>2 DEF TypeOK, Downloads
  <2> QED
    BY <1>2, <2>1 DEF DownloadInv, ClockAdvances
<1> QED
  BY <1>1, <1>2

\* The clip of a download that has not expired has a lease of this boot, and so
\* no pending intent.
LEMMA DownloadLease ==
    ASSUME Inv, NEW h \in Holders, download[h] # NoDownload, now < download[h].expires
    PROVE  /\ download[h] \in Downloads /\ download[h].clip \in Clips
           /\ lease[download[h].clip] =
                [holder |-> h, expires |-> download[h].expires, boot |-> boot]
           /\ lease[download[h].clip] # NoLease
           /\ lease[download[h].clip].holder = h
           /\ lease[download[h].clip].expires = download[h].expires
           /\ lease[download[h].clip].boot = boot
           /\ Idle(download[h].clip)
<1>1. download[h] \in Downloads
  BY DEF Inv, TypeOK
<1>2. download[h].clip \in Clips
  BY <1>1 DEF Downloads
<1>3. lease[download[h].clip] = [holder |-> h, expires |-> download[h].expires, boot |-> boot]
  BY DEF Inv, CatalogInv, DownloadInv
<1>4. /\ lease[download[h].clip].holder = h
      /\ lease[download[h].clip].expires = download[h].expires
      /\ lease[download[h].clip].boot = boot
  BY <1>3
<1>5. NoLease.holder = "NONE"
  BY DEF NoLease
<1>6. lease[download[h].clip] # NoLease
  BY <1>4, <1>5, CatalogAssumption
<1>7. LeaseInv(download[h].clip)
  BY <1>2 DEF Inv, CatalogInv
<1>8. Idle(download[h].clip)
  BY <1>4, <1>6, <1>7 DEF LeaseInv
<1> QED
  BY <1>1, <1>2, <1>3, <1>4, <1>6, <1>8

\* A clip with a pending intent keeps the downloads of other clips as they are.
LEMMA OtherDownloads ==
    ASSUME Inv, ClockAdvances, download' = download, NEW c \in Clips, ~Idle(c),
           \A d \in Clips \ {c} : lease'[d] = lease[d] /\ path'[d] = path[d]
    PROVE  \A h \in Holders : DownloadInv(h)'
<1> SUFFICES ASSUME NEW h \in Holders PROVE DownloadInv(h)'
  OBVIOUS
<1>1. download[h] # NoDownload /\ now < download[h].expires =>
        /\ lease'[download[h].clip] = lease[download[h].clip]
        /\ path'[download[h].clip] = path[download[h].clip]
  BY DownloadLease
<1> QED
  BY <1>1, DownloadFrame DEF Inv, CatalogInv

\* Without an open transaction there is nothing to say of it.
LEMMA NoTxnInv == ASSUME txn' = NoTxn PROVE TxnInv'
BY DEF TxnInv

\* The parts of the invariant put together.
LEMMA Assemble ==
    ASSUME \A c \in Clips : ClipInv(c)', TxnInv', \A h \in Holders : DownloadInv(h)'
    PROVE  CatalogInv'
BY DEF CatalogInv, ClipInv

-----------------------------------------------------------------------------
(* The steps of reconcile_intent *)

\* Opening the transaction of reconcile_intent and preparing the sidecar keep the invariant.
LEMMA BeginKeeps ==
    ASSUME Inv, NEW c \in Clips, BeginReconcile(c) PROVE CatalogInv'
<1>1. TypeOK /\ (\A d \in Clips : ClipInv(d)) /\ ClockAdvances /\ ~Idle(c)
  BY DEF Inv, CatalogInv, ClipInv, TypeOK, ClockAdvances, BeginReconcile, clock
<1>2. \A d \in Clips : SameRow(d) /\ hold'[d] = hold[d] /\ at'[d] = at[d]
  BY DEF BeginReconcile, SameRow, rows
<1>3. \A d \in Clips \ {c} : content'[d] = content[d]
  BY <1>1 DEF BeginReconcile, PreparedContent, TypeOK
<1>4. intent[c].kind # "RECONCILE_NAME" => content'[c] = content[c]
  BY DEF BeginReconcile, PreparedContent
<1>5. intent[c].kind = "RECONCILE_NAME" => content'[c].name = intent[c].tgt.name
  BY <1>1 DEF BeginReconcile, PreparedContent, TypeOK
<1>6. ASSUME NEW d \in Clips PROVE ClipInv(d)'
  <2>1. CASE d # c
    BY <1>1, <1>2, <1>3, <2>1, ClipFrame DEF SameFiles
  <2>2. CASE d = c
    <3>1. RowInv(c)' /\ LeaseInv(c)'
      BY <1>1, <1>2, RowFrame, LeaseFrame DEF ClipInv, SameRow
    <3>2. hold[c] = Unheld
      BY <1>1 DEF ClipInv, HoldInv, RowInv
    <3>3. HoldInv(c)'
      BY <1>2, <3>2 DEF HoldInv, Unheld
    <3>4. FileInv(c)'
      BY <1>1, <1>2, <1>4 DEF ClipInv, FileInv, SameRow, Idle
    <3> QED
      BY <2>2, <3>1, <3>3, <3>4 DEF ClipInv
  <2> QED
    BY <2>1, <2>2
<1>7. TxnInv'
  <2>1. txn'.clip = c /\ intent' = intent
    BY DEF BeginReconcile
  <2> QED
    BY <1>1, <1>5, <2>1 DEF TxnInv, Idle
<1>8. \A h \in Holders : DownloadInv(h)'
  <2>1. /\ download' = download
        /\ \A d \in Clips \ {c} : lease'[d] = lease[d] /\ path'[d] = path[d]
    BY DEF BeginReconcile, rows
  <2> QED
    BY <1>1, <2>1, OtherDownloads
<1> QED
  BY <1>6, <1>7, <1>8, Assemble

\* One rename or unlink of reconcile_intent keeps the invariant.
LEMMA MoveKeeps ==
    ASSUME Inv, MoveMember PROVE CatalogInv'
<1>0. PICK c \in Clips : c = txn.clip
  BY DEF MoveMember, Inv, TypeOK, Txns
<1>1. TypeOK /\ (\A d \in Clips : ClipInv(d)) /\ ClockAdvances
  BY DEF Inv, CatalogInv, ClipInv, TypeOK, ClockAdvances, MoveMember, clock
<1>2. NextMember(txn.todo) \in Members /\ ~Idle(c) /\ txn \in Txns
  BY <1>0, <1>1 DEF MoveMember, TypeOK, Txns, Inv, CatalogInv, TxnInv, NextMember, Members
<1>3. \A d \in Clips : SameRow(d) /\ hold'[d] = hold[d] /\ content'[d] = content[d]
  BY DEF MoveMember, SameRow, rows
<1>4. /\ \A d \in Clips \ {c} : at'[d] = at[d]
      /\ \A x \in Members : at'[c][x] \in {at[c][x], intent[c].tgt}
  BY <1>0, <1>1, <1>2 DEF MoveMember, TypeOK
<1>5. txn'.clip = c /\ intent' = intent /\ content' = content
  BY <1>0, <1>2 DEF MoveMember, Txns
<1>6. download' = download /\ \A d \in Clips : lease'[d] = lease[d] /\ path'[d] = path[d]
  BY DEF MoveMember, rows
<1>7. ASSUME NEW d \in Clips PROVE ClipInv(d)'
  <2>1. CASE d # c
    BY <1>1, <1>3, <1>4, <2>1, ClipFrame DEF SameFiles
  <2>2. CASE d = c
    <3>1. RowInv(c)' /\ LeaseInv(c)'
      BY <1>1, <1>2, <1>3, RowFrame, LeaseFrame DEF ClipInv, SameRow
    <3>2. hold[c] = Unheld /\ lifecycle[c] \notin {"WRITING", "MISSING_SIDECAR"}
      BY <1>1, <1>2 DEF ClipInv, HoldInv, RowInv
    <3>3. HoldInv(c)'
      BY <1>2, <1>3, <3>2 DEF HoldInv, Unheld
    <3>4. FileInv(c)'
      BY <1>1, <1>2, <1>3, <1>4, <3>2 DEF ClipInv, FileInv, SameRow, Idle
    <3> QED
      BY <2>2, <3>1, <3>3, <3>4 DEF ClipInv
  <2> QED
    BY <2>1, <2>2
<1>8. TxnInv'
  BY <1>0, <1>2, <1>5 DEF TxnInv, Idle, Inv, CatalogInv, MoveMember
<1>9. \A h \in Holders : DownloadInv(h)'
  BY <1>1, <1>2, <1>6, OtherDownloads
<1> QED
  BY <1>7, <1>8, <1>9, Assemble

\* Once nothing is left at the source, both members are at the target.
LEMMA CompletePair ==
    ASSUME Inv, NEW c \in Clips, ~Idle(c), Complete(c)
    PROVE  \A m \in Members : at[c][m] = intent[c].tgt
<1> SUFFICES ASSUME NEW m \in Members PROVE at[c][m] = intent[c].tgt
  OBVIOUS
<1>1. at[c][m] \in {intent[c].src, intent[c].tgt}
  BY DEF Inv, CatalogInv, FileInv
<1>2. ~Exists(c, m, intent[c].src)
  BY DEF Complete, Todo
<1>3. intent[c].src # Absent
  <2>1. intent[c].src \in Paths
    BY PendingIntent DEF Intents
  <2> QED
    BY <2>1, PathFacts
<1> QED
  BY <1>1, <1>2, <1>3 DEF Exists

\* _complete_intent_locked leaves a row that agrees with its next intent.
LEMMA CompleteKeepsRow ==
    ASSUME Inv, NEW c \in Clips, ~Idle(c), CompleteIntent(c),
           revision' = revision, claim' = claim
    PROVE  RowInv(c)'
<1>1. TypeOK /\ RowInv(c) /\ IntentFits(c) /\ intent[c] \in Intents
  BY PendingIntent DEF Inv, CatalogInv
<1>2. intent[c].kind # "DELETE" => intent[c].tgt \in FinalPaths
  BY PendingIntent
<1>3. intent[c].kind = "DELETE" => RowInv(c)'
  <2> SUFFICES ASSUME intent[c].kind = "DELETE" PROVE RowInv(c)'
    OBVIOUS
  <2>1. ~NeedsProtectMove(c)
    BY DEF NeedsProtectMove, NewerProtection
  <2>2. lifecycle'[c] = "DELETED" /\ intent'[c] = NoIntent /\ lease'[c] = NoLease
    BY <1>1, <2>1 DEF CompleteIntent, TypeOK
  <2>3. ~claim[c]
    BY <1>1 DEF RowInv, IntentFits
  <2> QED
    BY <2>2, <2>3 DEF RowInv, Idle
<1>4. intent[c].kind # "DELETE" => RowInv(c)'
  <2> SUFFICES ASSUME intent[c].kind # "DELETE" PROVE RowInv(c)'
    OBVIOUS
  <2>1. /\ lifecycle'[c] = "FINALIZED"
        /\ path'[c] = intent[c].tgt
        /\ lease' = lease
        /\ reconciled'[c] = ~NeedsProtectMove(c)
        /\ intent'[c] = IF NeedsProtectMove(c) THEN ProtectIntent(intent[c].tgt) ELSE NoIntent
    BY <1>1 DEF CompleteIntent, TypeOK
  <2>2. protected'[c] = CASE intent[c].kind = "UNPROTECT" -> NewerProtection(c)
                          [] intent[c].kind = "PROTECT" -> TRUE
                          [] OTHER -> protected[c]
    BY <1>1 DEF CompleteIntent, TypeOK
  <2>3. CASE NeedsProtectMove(c)
    <3>1. protected'[c]
      BY <1>1, <2>2, <2>3 DEF NeedsProtectMove, NewerProtection
    <3>2. ProtectIntent(intent[c].tgt) # NoIntent
      BY DEF ProtectIntent, NoIntent
    <3>3. /\ intent'[c].kind = "PROTECT"
          /\ intent'[c].src = intent[c].tgt
          /\ intent'[c].tgt = MoveTo(intent[c].tgt, "protected")
      BY <2>1, <2>3 DEF ProtectIntent
    <3>4. IntentFits(c)'
      BY <1>2, <2>1, <3>1, <3>3 DEF IntentFits
    <3> QED
      BY <1>2, <2>1, <2>3, <3>1, <3>2, <3>3, <3>4 DEF RowInv, Idle
  <2>4. CASE ~NeedsProtectMove(c)
    <3>1. intent'[c] = NoIntent /\ reconciled'[c]
      BY <2>1, <2>4
    <3>2. intent[c].tgt.dir = "protected" => protected'[c]
      BY <1>1, <2>2, <2>4 DEF IntentFits, NeedsProtectMove, MoveTo
    <3>3. protected'[c] => intent[c].tgt.dir = "protected"
      <4>1. CASE intent[c].kind = "UNPROTECT"
        BY <2>2, <2>4, <4>1 DEF NeedsProtectMove
      <4>2. CASE intent[c].kind = "PROTECT"
        BY <1>1, <4>2 DEF IntentFits, MoveTo
      <4>3. CASE intent[c].kind \in {"FINALIZE", "RECONCILE_NAME"}
        BY <2>2, <2>4, <4>3 DEF NeedsProtectMove
      <4> QED
        BY <1>1, <4>1, <4>2, <4>3 DEF IntentFits
    <3>4. claim[c] => protected'[c]
      BY <1>1, <2>2, <2>4 DEF RowInv, IntentFits, NeedsProtectMove, NewerProtection
    <3> QED
      BY <1>2, <2>1, <3>1, <3>2, <3>3, <3>4 DEF RowInv, Idle
  <2> QED
    BY <2>3, <2>4
<1> QED
  BY <1>3, <1>4

\* The end of reconcile_intent keeps the invariant.
LEMMA CommitKeeps ==
    ASSUME Inv, CommitReconcile PROVE CatalogInv'
<1>0. PICK c \in Clips : c = txn.clip
  BY DEF CommitReconcile, Inv, TypeOK, Txns
<1>1. TypeOK /\ (\A d \in Clips : ClipInv(d)) /\ ClockAdvances
  BY DEF Inv, CatalogInv, ClipInv, TypeOK, ClockAdvances, CommitReconcile, clock
<1>2. ~Idle(c) /\ (intent[c].kind = "RECONCILE_NAME" => content[c].name = intent[c].tgt.name)
  BY <1>0 DEF CommitReconcile, Inv, CatalogInv, TxnInv
<1>3. /\ txn' = NoTxn
      /\ revision' = revision /\ claim' = claim /\ download' = download
      /\ \A d \in Clips : SameFiles(d) /\ hold'[d] = hold[d]
  BY DEF CommitReconcile, SameFiles, files
<1>4. CASE ~Complete(c)
  <2>1. \A d \in Clips : SameRow(d)
    BY <1>0, <1>3, <1>4 DEF CommitReconcile, SameRow
  <2>2. \A d \in Clips : ClipInv(d)'
    BY <1>1, <1>3, <2>1, ClipFrame
  <2>3. \A h \in Holders : DownloadInv(h)'
    BY <1>1, <1>2, <1>3, <2>1, OtherDownloads DEF SameRow
  <2> QED
    BY <1>3, <2>2, <2>3, NoTxnInv, Assemble
<1>5. CASE Complete(c)
  <2>1. CompleteIntent(c)
    BY <1>0, <1>5 DEF CommitReconcile
  <2>2. \A d \in Clips \ {c} : SameRow(d)
    BY <1>1, <1>3, <2>1 DEF CompleteIntent, SameRow, TypeOK
  <2>3. RowInv(c)'
    BY <1>2, <1>3, <2>1, CompleteKeepsRow
  <2>4. hold[c] = Unheld
    BY <1>1, <1>2 DEF ClipInv, HoldInv, RowInv
  <2>5. HoldInv(c)'
    BY <1>3, <2>4 DEF HoldInv, Unheld
  <2>6. LeaseInv(c)'
    <3>1. lease'[c] \in {lease[c], NoLease}
      BY <1>1, <2>1 DEF CompleteIntent, TypeOK
    <3>2. lease[c] # NoLease => lease[c].boot <= boot /\ ~(lease[c].boot = boot /\ now < lease[c].expires)
      BY <1>1, <1>2 DEF ClipInv, LeaseInv
    <3>3. now' = now /\ boot' = boot
      BY DEF CommitReconcile, clock
    <3> QED
      BY <3>1, <3>2, <3>3 DEF LeaseInv
  <2>7. FileInv(c)'
    <3>1. \A m \in Members : at[c][m] = intent[c].tgt
      BY <1>2, <1>5, CompletePair
    <3>2. IntentFits(c) /\ FileInv(c) /\ intent[c] \in Intents
      BY <1>1, <1>2, PendingIntent DEF ClipInv
    <3>3. CASE intent[c].kind = "DELETE"
      <4>1. intent'[c] = NoIntent /\ lifecycle'[c] = "DELETED"
        BY <1>1, <2>1, <3>3 DEF CompleteIntent, TypeOK, NeedsProtectMove, NewerProtection
      <4> QED
        BY <4>1 DEF FileInv, Idle, NoIntent
    <3>4. CASE intent[c].kind # "DELETE"
      <4>1. content[c].name = intent[c].tgt.name
        BY <1>2, <3>2, <3>4 DEF FileInv, IntentFits, MoveTo
      <4>2. /\ lifecycle'[c] = "FINALIZED" /\ path'[c] = intent[c].tgt
            /\ intent'[c] \in {ProtectIntent(intent[c].tgt), NoIntent}
        BY <1>1, <2>1, <3>4 DEF CompleteIntent, TypeOK
      <4>3. at'[c] = at[c] /\ content'[c] = content[c]
        BY <1>3 DEF SameFiles
      <4> QED
        BY <3>1, <4>1, <4>2, <4>3 DEF FileInv, Idle, NoIntent, ProtectIntent
    <3> QED
      BY <3>3, <3>4
  <2>8. \A d \in Clips : ClipInv(d)'
    BY <1>1, <1>3, <2>2, <2>3, <2>5, <2>6, <2>7, ClipFrame DEF ClipInv
  <2>9. \A h \in Holders : DownloadInv(h)'
    BY <1>1, <1>2, <1>3, <2>2, OtherDownloads DEF SameRow
  <2> QED
    BY <1>3, <2>8, <2>9, NoTxnInv, Assemble
<1> QED
  BY <1>4, <1>5

-----------------------------------------------------------------------------
(* Steps that change no row and no file, and steps that change one clip *)

\* A step that changes no row and no file keeps the invariant.
LEMMA QuietKeeps ==
    ASSUME Inv, ClockAdvances, \A c \in Clips : SameRow(c) /\ SameFiles(c),
           \A c \in Clips : hold'[c] \in {hold[c], Unheld},
           txn' \in {txn, NoTxn}, intent' = intent, content' = content, download' = download
    PROVE  CatalogInv'
<1>1. \A c \in Clips : ClipInv(c)'
  BY ClipFrame DEF Inv, CatalogInv, ClipInv
<1>2. TxnInv'
  BY DEF TxnInv, Inv, CatalogInv, Idle
<1>3. ASSUME NEW h \in Holders PROVE DownloadInv(h)'
  <2>1. download[h] # NoDownload => download[h].clip \in Clips
    BY DEF Inv, TypeOK, Downloads
  <2> QED
    BY <2>1, DownloadFrame DEF Inv, CatalogInv, SameRow
<1> QED
  BY <1>1, <1>2, <1>3, Assemble

\* A step that changes one clip, but not its path or lease, keeps the invariant.
LEMMA OneClipKeeps ==
    ASSUME Inv, ClockAdvances, NEW c \in Clips, ClipInv(c)',
           \A d \in Clips \ {c} : SameRow(d) /\ SameFiles(d) /\ hold'[d] = hold[d],
           txn = NoTxn, txn' = txn, download' = download,
           path'[c] = path[c], lease'[c] = lease[c]
    PROVE  CatalogInv'
<1>1. \A d \in Clips : ClipInv(d)'
  BY ClipFrame DEF Inv, CatalogInv, ClipInv
<1>2. ASSUME NEW h \in Holders PROVE DownloadInv(h)'
  <2>1. download[h] # NoDownload => download[h].clip \in Clips
    BY DEF Inv, TypeOK, Downloads
  <2> QED
    BY <2>1, DownloadFrame DEF Inv, CatalogInv, SameRow
<1> QED
  BY <1>1, <1>2, NoTxnInv, Assemble

\* register_writing_clip keeps the invariant.
LEMMA RegisterWritingKeeps ==
    ASSUME Inv, NEW c \in Clips, RegisterWriting(c) PROVE CatalogInv'
<1>1. TypeOK /\ ClipInv(c) /\ ClockAdvances
  BY DEF Inv, CatalogInv, ClipInv, TypeOK, ClockAdvances, RegisterWriting, clock
<1>2. \A d \in Clips \ {c} : SameRow(d) /\ SameFiles(d) /\ hold'[d] = hold[d]
  BY <1>1 DEF RegisterWriting, SameRow, SameFiles, TypeOK
<1>3. lifecycle[c] = "NONE" /\ Idle(c) /\ lease[c] = NoLease /\ ~claim[c] /\ ~reconciled[c]
  BY <1>1 DEF ClipInv, RowInv, RegisterWriting, Registered
<1>4. /\ lifecycle'[c] = "WRITING" /\ path'[c] = Partial
      /\ at'[c]["video"] = Partial /\ hold'[c] = Open
      /\ intent' = intent /\ lease' = lease /\ claim' = claim /\ reconciled' = reconciled
  BY <1>1 DEF RegisterWriting, TypeOK, Members
<1>5. RowInv(c)' /\ LeaseInv(c)'
  BY <1>3, <1>4 DEF RowInv, LeaseInv, Idle
<1>6. FileInv(c)' /\ HoldInv(c)'
  BY <1>3, <1>4 DEF FileInv, HoldInv, Idle, NoIntent, Open
<1>7. ClipInv(c)'
  BY <1>5, <1>6 DEF ClipInv
<1>8. \A d \in Clips : ClipInv(d)'
  BY <1>1, <1>2, <1>7, ClipFrame DEF Inv, CatalogInv, ClipInv
<1>9. ASSUME NEW h \in Holders PROVE DownloadInv(h)'
  <2>1. download[h] # NoDownload /\ now < download[h].expires =>
          /\ lease'[download[h].clip] = lease[download[h].clip]
          /\ path'[download[h].clip] = path[download[h].clip]
    BY <1>2, <1>3, DownloadLease DEF SameRow
  <2>2. download' = download
    BY DEF RegisterWriting
  <2> QED
    BY <1>1, <2>1, <2>2, DownloadFrame DEF Inv, CatalogInv
<1>10. txn' = NoTxn
  BY DEF RegisterWriting
<1> QED
  BY <1>8, <1>9, <1>10, NoTxnInv, Assemble

\* active_closing_protection keeps the invariant.
LEMMA SnapshotKeeps ==
    ASSUME Inv, NEW c \in Clips, NEW n \in CloseNames, TakeSnapshot(c, n) PROVE CatalogInv'
<1>1. TypeOK /\ ClipInv(c) /\ ClockAdvances
  <2>1. TypeOK /\ ClipInv(c)
    BY DEF Inv, CatalogInv, ClipInv
  <2>2. now' = now /\ boot' = boot
    BY DEF TakeSnapshot, clock
  <2> QED
    BY <2>1, <2>2 DEF TypeOK, ClockAdvances
<1>2. /\ \A d \in Clips \ {c} : SameRow(d) /\ hold'[d] = hold[d]
      /\ lifecycle' = lifecycle /\ path' = path /\ reconciled' = reconciled
      /\ lease' = lease /\ intent' = intent
  BY <1>1 DEF TakeSnapshot, SameRow, TypeOK
<1>3. \A d \in Clips : SameFiles(d)
  BY DEF TakeSnapshot, SameFiles, files
<1>4. /\ lifecycle[c] = "WRITING"
      /\ hold'[c].phase = "snapshot"
      /\ txn = NoTxn /\ txn' = txn /\ download' = download
  BY <1>1 DEF TakeSnapshot, TypeOK
<1>5. claim'[c] => protected'[c]
  <2>1. claim[c] => protected[c]
    BY <1>1 DEF ClipInv, RowInv
  <2>2. protected'[c] = (protected[c] \/ WindowsOf(c) # {})
    BY <1>1 DEF TakeSnapshot, TypeOK
  <2>3. claim'[c] = (claim[c] \/ WindowsOf(c) # {})
    BY <1>1 DEF TakeSnapshot, TypeOK
  <2> QED
    BY <2>1, <2>2, <2>3
<1>6. Idle(c) /\ path[c] = Partial /\ lease[c] = NoLease /\ ~reconciled[c]
  BY <1>1, <1>4 DEF ClipInv, RowInv
<1>7. RowInv(c)' /\ LeaseInv(c)'
  BY <1>2, <1>4, <1>5, <1>6 DEF RowInv, LeaseInv, Idle
<1>8. FileInv(c)' /\ HoldInv(c)'
  BY <1>1, <1>2, <1>3, <1>4, <1>6 DEF ClipInv, FileInv, HoldInv, Idle, SameFiles, NoIntent
<1>9. ClipInv(c)'
  BY <1>7, <1>8 DEF ClipInv
<1> QED
  BY <1>1, <1>2, <1>3, <1>4, <1>9, OneClipKeeps

\* _ensure_pending_sidecar keeps the invariant, also while another clip is reconciled.
LEMMA StageKeeps ==
    ASSUME Inv, NEW c \in Clips, StageSidecar(c) PROVE CatalogInv'
<1>1. TypeOK /\ (\A d \in Clips : ClipInv(d)) /\ ClockAdvances
  BY DEF Inv, CatalogInv, ClipInv, TypeOK, ClockAdvances, StageSidecar, clock
<1>2. hold[c] \in Snapshots /\ hold[c] # Unheld
  BY <1>1, HoldFacts DEF StageSidecar, Unheld
<1>3. lifecycle[c] = "WRITING" /\ Idle(c)
  BY <1>1, <1>2 DEF ClipInv, HoldInv, RowInv
<1>4. /\ \A d \in Clips : SameRow(d)
      /\ \A d \in Clips \ {c} : SameFiles(d) /\ hold'[d] = hold[d]
      /\ txn' = txn /\ intent' = intent /\ download' = download
  BY <1>1 DEF StageSidecar, SameRow, SameFiles, TypeOK, rows
<1>5. /\ at'[c]["sidecar"] = Partial /\ at'[c]["video"] = at[c]["video"]
      /\ content'[c] = [name |-> hold[c].name, protected |-> hold[c].protected]
  <2>1. /\ at' = [at EXCEPT ![c] = [at[c] EXCEPT !["sidecar"] = Partial]]
        /\ at[c] \in [Members -> Paths \cup {Absent}]
    BY <1>1 DEF StageSidecar, TypeOK
  <2>2. content'[c] = [name |-> hold[c].name, protected |-> hold[c].protected]
    BY <1>1 DEF StageSidecar, TypeOK
  <2> QED
    BY <1>1, <2>1, <2>2 DEF Members, TypeOK
<1>6. hold'[c].name = hold[c].name /\ hold'[c].protected = hold[c].protected
  <2>1. hold' = [hold EXCEPT ![c] = [hold[c] EXCEPT !.phase = "staged"]]
    BY DEF StageSidecar
  <2> QED
    BY <1>1, <1>2, <2>1 DEF TypeOK, Snapshots
<1>7. RowInv(c)' /\ LeaseInv(c)'
  BY <1>1, <1>4, RowFrame, LeaseFrame DEF ClipInv, SameRow
<1>8. FileInv(c)' /\ HoldInv(c)'
  <2>1. lifecycle'[c] = "WRITING" /\ intent'[c] = NoIntent /\ at[c]["video"] = Partial
    BY <1>1, <1>3, <1>4 DEF ClipInv, FileInv, SameRow, Idle
  <2>2. FileInv(c)'
    BY <1>5, <2>1 DEF FileInv, Idle, NoIntent
  <2>3. HoldInv(c)'
    BY <1>5, <1>6, <2>1 DEF HoldInv
  <2> QED
    BY <2>2, <2>3
<1>9. \A d \in Clips : ClipInv(d)'
  BY <1>1, <1>4, <1>7, <1>8, ClipFrame DEF ClipInv
<1>10. TxnInv'
  <2>1. txn # NoTxn => txn.clip \in Clips /\ txn.clip # c
    BY <1>1, <1>3 DEF Inv, CatalogInv, TxnInv, TypeOK, Txns
  <2> QED
    BY <1>4, <2>1 DEF Inv, CatalogInv, TxnInv, Idle, SameFiles
<1>11. ASSUME NEW h \in Holders PROVE DownloadInv(h)'
  <2>1. download[h] # NoDownload => download[h].clip \in Clips
    BY <1>1 DEF TypeOK, Downloads
  <2> QED
    BY <1>1, <1>4, <2>1, DownloadFrame DEF Inv, CatalogInv, SameRow
<1> QED
  BY <1>9, <1>10, <1>11, Assemble

\* register_finalizing_clip keeps the invariant.
LEMMA RegisterFinalizingKeeps ==
    ASSUME Inv, NEW c \in Clips, RegisterFinalizing(c) PROVE CatalogInv'
<1>1. TypeOK /\ ClipInv(c) /\ ClockAdvances
  BY DEF Inv, CatalogInv, ClipInv, TypeOK, ClockAdvances, RegisterFinalizing, clock
<1>2. /\ \A d \in Clips \ {c} : SameRow(d) /\ hold'[d] = hold[d]
      /\ path' = path /\ protected' = protected /\ reconciled' = reconciled
      /\ lease' = lease /\ claim' = claim
  BY <1>1 DEF RegisterFinalizing, SameRow, TypeOK
<1>3. \A d \in Clips : SameFiles(d)
  BY DEF RegisterFinalizing, SameFiles, files
<1>4. /\ lifecycle[c] = "WRITING" /\ lifecycle'[c] = "FINALIZING"
      /\ hold[c].phase = "staged" /\ hold'[c] = Unheld
      /\ txn = NoTxn /\ txn' = txn /\ download' = download
  BY <1>1 DEF RegisterFinalizing, TypeOK
<1>5. hold[c] \in Snapshots
  BY <1>1, <1>4, HoldFacts
<1>6. Idle(c) /\ path[c] = Partial /\ lease[c] = NoLease /\ at[c]["video"] = Partial
  BY <1>1, <1>4 DEF ClipInv, RowInv, FileInv
<1>7. at[c]["sidecar"] = Partial /\ content[c].name = hold[c].name
  BY <1>1, <1>4 DEF ClipInv, HoldInv
<1>8. /\ intent'[c].kind = "FINALIZE" /\ intent'[c].src = Partial
      /\ intent'[c].tgt = [dir |-> "clips", name |-> hold[c].name]
  BY <1>1 DEF RegisterFinalizing, TypeOK
<1>9. intent'[c].tgt \in FinalPaths /\ intent'[c].tgt.dir = "clips"
  BY <1>5, <1>8 DEF FinalPaths, FinalDirs, Snapshots
<1>10. RowInv(c)' /\ LeaseInv(c)'
  <2>1. IntentFits(c)'
    BY <1>4, <1>8, <1>9 DEF IntentFits
  <2>2. intent'[c] # NoIntent
    BY <1>8 DEF NoIntent
  <2>3. ~reconciled[c]
    BY <1>1, <1>4 DEF ClipInv, RowInv
  <2> QED
    BY <1>1, <1>2, <1>4, <1>6, <1>8, <2>1, <2>2, <2>3 DEF ClipInv, RowInv, LeaseInv, Idle
<1>11. FileInv(c)' /\ HoldInv(c)'
  BY <1>3, <1>4, <1>6, <1>7, <1>8 DEF FileInv, HoldInv, Idle, SameFiles, Members, Unheld, NoIntent
<1>12. ClipInv(c)'
  BY <1>10, <1>11 DEF ClipInv
<1> QED
  BY <1>1, <1>2, <1>3, <1>4, <1>12, OneClipKeeps

\* A close that starts over keeps the invariant.
LEMMA RetryKeeps ==
    ASSUME Inv, NEW c \in Clips, RetrySnapshot(c) PROVE CatalogInv'
<1>1. TypeOK /\ ClipInv(c) /\ ClockAdvances
  BY DEF Inv, CatalogInv, ClipInv, TypeOK, ClockAdvances, RetrySnapshot, clock
<1>2. /\ \A d \in Clips : SameRow(d) /\ SameFiles(d)
      /\ \A d \in Clips \ {c} : hold'[d] = hold[d]
      /\ hold'[c] = Open /\ hold[c].phase = "staged"
      /\ txn = NoTxn /\ txn' = txn /\ download' = download
  BY <1>1 DEF RetrySnapshot, SameRow, SameFiles, TypeOK, rows, files
<1>3. lifecycle[c] = "WRITING"
  BY <1>1, <1>2 DEF ClipInv, HoldInv, Unheld
<1>4. HoldInv(c)'
  BY <1>2, <1>3 DEF HoldInv, SameRow, Open
<1>5. ClipInv(c)'
  BY <1>1, <1>2, <1>4, RowFrame, FileFrame, LeaseFrame DEF ClipInv, SameRow
<1>6. path'[c] = path[c] /\ lease'[c] = lease[c]
  BY <1>2 DEF SameRow
<1> QED
  BY <1>1, <1>2, <1>5, <1>6, OneClipKeeps

\* mark_writing_clip_orphaned keeps the invariant.
LEMMA OrphanKeeps ==
    ASSUME Inv, NEW c \in Clips, MarkOrphaned(c) PROVE CatalogInv'
<1>1. TypeOK /\ ClipInv(c) /\ ClockAdvances
  BY DEF Inv, CatalogInv, ClipInv, TypeOK, ClockAdvances, MarkOrphaned, clock
<1>2. /\ \A d \in Clips \ {c} : SameRow(d) /\ hold'[d] = hold[d]
      /\ path' = path /\ protected' = protected /\ lease' = lease
      /\ intent' = intent /\ claim' = claim /\ ~reconciled'[c]
  BY <1>1 DEF MarkOrphaned, SameRow, TypeOK
<1>3. \A d \in Clips : SameFiles(d)
  BY DEF MarkOrphaned, SameFiles, files
<1>4. /\ lifecycle[c] = "WRITING" /\ lifecycle'[c] = "MISSING_SIDECAR"
      /\ hold'[c] = Unheld
      /\ txn = NoTxn /\ txn' = txn /\ download' = download
  BY <1>1 DEF MarkOrphaned, TypeOK
<1>5. RowInv(c)' /\ LeaseInv(c)'
  BY <1>1, <1>2, <1>4 DEF ClipInv, RowInv, LeaseInv, Idle
<1>6. FileInv(c)' /\ HoldInv(c)'
  BY <1>1, <1>2, <1>3, <1>4 DEF ClipInv, RowInv, FileInv, HoldInv, Idle, SameFiles, Unheld, NoIntent
<1>7. ClipInv(c)'
  BY <1>5, <1>6 DEF ClipInv
<1> QED
  BY <1>1, <1>2, <1>3, <1>4, <1>7, OneClipKeeps

-----------------------------------------------------------------------------
(* Protection, deletion and renaming *)

\* A clock read is never ahead of the clock.
LEMMA ReadsPast ==
    ASSUME TypeOK, NEW t \in Reads PROVE t \in Nat /\ t <= now
BY DEF Reads, TypeOK

\* A row without a lease that is unexpired at some past clock read has none now.
LEMMA FrozenOrNot ==
    ASSUME TypeOK, NEW c \in Clips, NEW t \in Reads, ~Unexpired(c, t), lease[c] # NoLease
    PROVE  ~(now < lease[c].expires)
<1>1. lease[c].expires \in Nat /\ t \in Nat /\ t <= now /\ now \in Nat
  BY ReadsPast DEF TypeOK, Leases
<1> QED
  BY <1>1 DEF Unexpired

\* A lease of this boot that is not active at some past clock read has expired.
LEMMA NotActive ==
    ASSUME TypeOK, NEW c \in Clips, NEW t \in Reads, ~Active(c, t), lease[c] # NoLease,
           lease[c].boot = boot
    PROVE  ~(now < lease[c].expires)
<1>1. lease[c].expires \in Nat /\ t \in Nat /\ t <= now /\ now \in Nat
  BY ReadsPast DEF TypeOK, Leases
<1> QED
  BY <1>1 DEF Active, Unexpired

\* The fields of the queued move to protected/.
LEMMA ProtectIntentFields ==
    ASSUME NEW p
    PROVE  /\ ProtectIntent(p) # NoIntent
           /\ ProtectIntent(p).kind = "PROTECT"
           /\ ProtectIntent(p).src = p
           /\ ProtectIntent(p).tgt = MoveTo(p, "protected")
BY DEF ProtectIntent, NoIntent

\* Sending an idle finalized pair to protected/ keeps the invariant of its clip.
LEMMA ProtectMoveKeeps ==
    ASSUME Inv, NEW c \in Clips, lifecycle[c] = "FINALIZED", Idle(c), ClockAdvances,
           intent'[c] = ProtectIntent(path[c]), protected'[c], ~reconciled'[c],
           lifecycle'[c] = lifecycle[c], path'[c] = path[c], SameFiles(c),
           hold'[c] = hold[c], lease'[c] \in {lease[c], NoLease},
           lease'[c] # NoLease => ~(lease[c].boot = boot /\ now < lease[c].expires)
    PROVE  ClipInv(c)'
<1>1. TypeOK /\ ClipInv(c) /\ path[c] \in FinalPaths
  BY FinalizedPath DEF Inv, CatalogInv, ClipInv
<1>2. /\ intent'[c] # NoIntent /\ intent'[c].kind = "PROTECT" /\ intent'[c].src = path[c]
      /\ intent'[c].tgt = MoveTo(path[c], "protected")
  BY ProtectIntentFields
<1>3. IntentFits(c)'
  BY <1>1, <1>2 DEF IntentFits
<1>4. RowInv(c)'
  BY <1>1, <1>2, <1>3 DEF RowInv, Idle
<1>5. FileInv(c)'
  BY <1>1, <1>2 DEF ClipInv, FileInv, Idle, SameFiles
<1>6. HoldInv(c)'
  BY <1>1 DEF ClipInv, HoldInv, SameFiles
<1>7. LeaseInv(c)'
  <2>1. CASE lease'[c] = NoLease
    BY <2>1 DEF LeaseInv
  <2>2. CASE lease'[c] # NoLease
    <3>1. lease[c].expires \in Nat /\ lease'[c] = lease[c]
      BY <1>1, <2>2 DEF TypeOK, Leases
    <3> QED
      BY <1>1, <2>2, <3>1 DEF ClipInv, LeaseInv, ClockAdvances
  <2> QED
    BY <2>1, <2>2
<1> QED
  BY <1>4, <1>5, <1>6, <1>7 DEF ClipInv

\* Protecting a row without moving its pair keeps the invariant of its clip,
\* also while an UNPROTECT is pending that the new revision overtakes.
LEMMA ProtectInPlaceKeeps ==
    ASSUME Inv, NEW c \in Clips, ClockAdvances,
           lifecycle[c] \notin {"NONE", "DELETING", "DELETED"},
           lifecycle[c] = "FINALIZED" /\ Idle(c) /\ lease[c] = NoLease =>
                path[c].dir = "protected",
           protected'[c], revision'[c] = revision[c] + 1,
           lifecycle'[c] = lifecycle[c], path'[c] = path[c], reconciled'[c] = reconciled[c],
           lease'[c] = lease[c], intent'[c] = intent[c], SameFiles(c), hold'[c] = hold[c]
    PROVE  ClipInv(c)'
<1>1. TypeOK /\ ClipInv(c) /\ revision[c] \in Nat
  BY DEF Inv, CatalogInv, ClipInv, TypeOK
<1>2. ~Idle(c) => IntentFits(c)'
  <2> SUFFICES ASSUME ~Idle(c) PROVE IntentFits(c)'
    OBVIOUS
  <2>1. intent[c].expected \in Nat /\ IntentFits(c)
    BY PendingIntent DEF Intents
  <2> QED
    BY <1>1, <2>1 DEF IntentFits
<1>3. RowInv(c)'
  BY <1>1, <1>2 DEF ClipInv, RowInv, Idle
<1>4. FileInv(c)'
  BY <1>1 DEF ClipInv, FileInv, Idle, SameFiles
<1>5. HoldInv(c)'
  BY <1>1 DEF ClipInv, HoldInv, SameFiles
<1>6. LeaseInv(c)'
  BY <1>1, LeaseFrame DEF ClipInv
<1> QED
  BY <1>3, <1>4, <1>5, <1>6 DEF ClipInv

\* prepare_protect keeps the invariant.
LEMMA ProtectKeeps ==
    ASSUME Inv, NEW c \in Clips, NEW t \in Reads, PrepareProtect(c, t) PROVE CatalogInv'
<1>1. TypeOK /\ ClipInv(c) /\ ClockAdvances
  <2>1. TypeOK /\ ClipInv(c)
    BY DEF Inv, CatalogInv, ClipInv
  <2>2. now' = now /\ boot' = boot
    BY DEF PrepareProtect, clock
  <2> QED
    BY <2>1, <2>2 DEF TypeOK, ClockAdvances
<1>2. /\ lifecycle' = lifecycle /\ path' = path /\ lease' = lease /\ hold' = hold
      /\ txn = NoTxn /\ txn' = txn /\ download' = download
      /\ Idle(c) /\ lifecycle[c] \notin {"NONE", "DELETING", "DELETED"}
      /\ \A d \in Clips : SameFiles(d)
  BY DEF PrepareProtect, Registered, SameFiles, files
<1>3. protected'[c] /\ revision'[c] = revision[c] + 1
  BY <1>1 DEF PrepareProtect, TypeOK
<1>4. \A d \in Clips \ {c} : SameRow(d)
  BY <1>1 DEF PrepareProtect, SameRow, TypeOK
<1>5. lease[c] # NoLease => ~(now < lease[c].expires)
  BY <1>1, FrozenOrNot DEF PrepareProtect
<1>6. CASE Movable(c, t)
  <2>1. intent'[c] = ProtectIntent(path[c]) /\ ~reconciled'[c]
    BY <1>1, <1>6 DEF PrepareProtect, TypeOK
  <2>2. ClipInv(c)'
    BY <1>1, <1>2, <1>3, <1>5, <1>6, <2>1, ProtectMoveKeeps DEF Movable
  <2> QED
    BY <1>1, <1>2, <1>4, <2>2, OneClipKeeps
<1>7. CASE ~Movable(c, t)
  <2>1. intent' = intent /\ reconciled' = reconciled
    BY <1>7 DEF PrepareProtect
  <2>2. lifecycle[c] = "FINALIZED" => path[c].dir = "protected"
    BY <1>2, <1>7 DEF Movable, PrepareProtect
  <2>3. ClipInv(c)'
    BY <1>1, <1>2, <1>3, <2>1, <2>2, ProtectInPlaceKeeps
  <2> QED
    BY <1>1, <1>2, <1>4, <2>3, OneClipKeeps
<1> QED
  BY <1>6, <1>7

\* prepare_unprotect keeps the invariant.
LEMMA UnprotectKeeps ==
    ASSUME Inv, NEW c \in Clips, NEW t \in Reads, PrepareUnprotect(c, t) PROVE CatalogInv'
<1>1. TypeOK /\ ClipInv(c) /\ ClockAdvances
  <2>1. TypeOK /\ ClipInv(c)
    BY DEF Inv, CatalogInv, ClipInv
  <2>2. now' = now /\ boot' = boot
    BY DEF PrepareUnprotect, clock
  <2> QED
    BY <2>1, <2>2 DEF TypeOK, ClockAdvances
<1>2. /\ lifecycle' = lifecycle /\ path' = path /\ lease' = lease /\ hold' = hold
      /\ txn = NoTxn /\ txn' = txn /\ download' = download /\ revision' = revision
      /\ Idle(c) /\ lifecycle[c] = "FINALIZED" /\ protected[c]
      /\ \A d \in Clips : SameFiles(d)
  BY DEF PrepareUnprotect, SameFiles, files
<1>3. /\ \A d \in Clips \ {c} : SameRow(d)
      /\ ~claim'[c]
  BY <1>1 DEF PrepareUnprotect, SameRow, TypeOK
<1>4. lease[c] # NoLease => ~(now < lease[c].expires)
  BY <1>1, FrozenOrNot DEF PrepareUnprotect
<1>5. path[c] \in FinalPaths /\ revision[c] \in Nat
  BY <1>1, <1>2, FinalizedPath DEF TypeOK
<1>6. CASE path[c].dir = "clips"
  <2>1. intent' = intent /\ reconciled' = reconciled /\ ~protected'[c]
    BY <1>1, <1>6 DEF PrepareUnprotect, TypeOK
  <2>2. RowInv(c)'
    BY <1>1, <1>2, <1>3, <1>5, <1>6, <2>1 DEF ClipInv, RowInv, Idle
  <2>3. FileInv(c)' /\ HoldInv(c)'
    BY <1>1, <1>2, <2>1 DEF ClipInv, FileInv, HoldInv, Idle, SameFiles
  <2>4. LeaseInv(c)'
    BY <1>1, <1>2, <2>1, LeaseFrame DEF ClipInv
  <2>5. ClipInv(c)'
    BY <2>2, <2>3, <2>4 DEF ClipInv
  <2> QED
    BY <1>1, <1>2, <1>3, <2>5, OneClipKeeps
<1>7. CASE path[c].dir # "clips"
  <2>1. /\ intent'[c] = [kind |-> "UNPROTECT", src |-> path[c],
                         tgt |-> MoveTo(path[c], "clips"), expected |-> revision[c]]
        /\ ~reconciled'[c] /\ protected' = protected
    BY <1>1, <1>7 DEF PrepareUnprotect, TypeOK
  <2>2. /\ intent'[c].kind = "UNPROTECT" /\ intent'[c].src = path[c]
        /\ intent'[c].tgt = MoveTo(path[c], "clips") /\ intent'[c].expected = revision[c]
        /\ intent'[c] # NoIntent
    BY <2>1 DEF NoIntent
  <2>3. IntentFits(c)'
    BY <1>2, <1>3, <1>5, <2>1, <2>2 DEF IntentFits
  <2>4. RowInv(c)'
    BY <1>1, <1>2, <1>3, <1>5, <2>1, <2>2, <2>3 DEF ClipInv, RowInv, Idle
  <2>5. FileInv(c)' /\ HoldInv(c)'
    BY <1>1, <1>2, <2>2 DEF ClipInv, FileInv, HoldInv, Idle, SameFiles
  <2>6. LeaseInv(c)'
    BY <1>1, <1>2, <1>4 DEF ClipInv, LeaseInv, PrepareUnprotect, clock
  <2>7. ClipInv(c)'
    BY <2>4, <2>5, <2>6 DEF ClipInv
  <2> QED
    BY <1>1, <1>2, <1>3, <2>7, OneClipKeeps
<1> QED
  BY <1>6, <1>7

\* Both ways to reserve a pair for deletion keep the invariant.
LEMMA DeleteKeeps ==
    ASSUME Inv, NEW c \in Clips, NEW t \in Reads, txn = NoTxn, Eligible(c, t),
           ReserveDelete(c)
    PROVE  CatalogInv'
<1>1. TypeOK /\ ClipInv(c) /\ ClockAdvances
  <2>1. TypeOK /\ ClipInv(c)
    BY DEF Inv, CatalogInv, ClipInv
  <2>2. now' = now /\ boot' = boot
    BY DEF ReserveDelete, clock
  <2> QED
    BY <2>1, <2>2 DEF TypeOK, ClockAdvances
<1>2. /\ path' = path /\ protected' = protected /\ hold' = hold /\ claim' = claim
      /\ txn' = NoTxn /\ download' = download
      /\ Idle(c) /\ lifecycle[c] = "FINALIZED" /\ ~protected[c] /\ ~Active(c, t)
      /\ \A d \in Clips : SameFiles(d)
  BY DEF Eligible, ReserveDelete, SameFiles, files
<1>3. /\ \A d \in Clips \ {c} : SameRow(d)
      /\ lifecycle'[c] = "DELETING" /\ ~reconciled'[c] /\ lease'[c] = NoLease
      /\ intent'[c] = [kind |-> "DELETE", src |-> path[c], tgt |-> Absent, expected |-> 0]
  BY <1>1 DEF ReserveDelete, SameRow, TypeOK
<1>4. path[c] \in FinalPaths
  BY <1>2, FinalizedPath
<1>5. /\ intent'[c].kind = "DELETE" /\ intent'[c].src = path[c] /\ intent'[c].tgt = Absent
      /\ intent'[c] # NoIntent
  BY <1>3 DEF NoIntent
<1>6. IntentFits(c)'
  BY <1>2, <1>3, <1>4, <1>5 DEF IntentFits
<1>7. RowInv(c)' /\ LeaseInv(c)'
  BY <1>1, <1>2, <1>3, <1>5, <1>6 DEF ClipInv, RowInv, LeaseInv, Idle
<1>8. FileInv(c)' /\ HoldInv(c)'
  BY <1>1, <1>2, <1>3, <1>5 DEF ClipInv, FileInv, HoldInv, Idle, SameFiles
<1>9. \A d \in Clips : ClipInv(d)'
  BY <1>1, <1>2, <1>3, <1>7, <1>8, ClipFrame DEF Inv, CatalogInv, ClipInv
<1>10. ASSUME NEW h \in Holders PROVE DownloadInv(h)'
  <2>1. download[h] # NoDownload /\ now < download[h].expires => download[h].clip # c
    BY <1>1, <1>2, DownloadLease, NotActive
  <2>2. download[h] # NoDownload => download[h].clip \in Clips
    BY <1>1 DEF TypeOK, Downloads
  <2> QED
    BY <1>1, <1>2, <1>3, <2>1, <2>2, DownloadFrame DEF Inv, CatalogInv, SameRow
<1> QED
  BY <1>2, <1>9, <1>10, NoTxnInv, Assemble

\* register_name_reconciliation keeps the invariant.
LEMMA RegisterNameKeeps ==
    ASSUME Inv, NEW c \in Clips, RegisterName(c) PROVE CatalogInv'
<1>1. TypeOK /\ ClipInv(c) /\ ClockAdvances
  <2>1. TypeOK /\ ClipInv(c)
    BY DEF Inv, CatalogInv, ClipInv
  <2>2. now' = now /\ boot' = boot
    BY DEF RegisterName, clock
  <2> QED
    BY <2>1, <2>2 DEF TypeOK, ClockAdvances
<1>2. /\ lifecycle' = lifecycle /\ path' = path /\ protected' = protected
      /\ revision' = revision /\ lease' = lease /\ claim' = claim /\ hold' = hold
      /\ txn = NoTxn /\ txn' = txn /\ download' = download
      /\ Idle(c) /\ lifecycle[c] = "FINALIZED" /\ lease[c] = NoLease
      /\ \A d \in Clips : SameFiles(d)
  BY DEF RegisterName, SameFiles, files
<1>3. path[c] \in FinalPaths
  BY <1>2, FinalizedPath
<1>4. /\ \A d \in Clips \ {c} : SameRow(d)
      /\ ~reconciled'[c]
  BY <1>1 DEF RegisterName, SameRow, TypeOK
<1>5. intent'[c] = [kind |-> "RECONCILE_NAME", src |-> path[c],
                    tgt |-> [path[c] EXCEPT !.name = "utc"], expected |-> 0]
  BY <1>1 DEF RegisterName, TypeOK
<1>6. /\ intent'[c].kind = "RECONCILE_NAME" /\ intent'[c].src = path[c]
      /\ intent'[c].tgt = [path[c] EXCEPT !.name = "utc"] /\ intent'[c] # NoIntent
  BY <1>5 DEF NoIntent
<1>7. intent'[c].tgt = [dir |-> path[c].dir, name |-> "utc"]
  BY <1>3, <1>6, PathFacts
<1>8. IntentFits(c)'
  BY <1>1, <1>2, <1>3, <1>6, <1>7 DEF IntentFits, ClipInv, RowInv
<1>9. RowInv(c)' /\ LeaseInv(c)'
  BY <1>1, <1>2, <1>3, <1>4, <1>6, <1>8 DEF ClipInv, RowInv, LeaseInv, Idle
<1>10. FileInv(c)' /\ HoldInv(c)'
  BY <1>1, <1>2, <1>6 DEF ClipInv, FileInv, HoldInv, Idle, SameFiles
<1>11. ClipInv(c)'
  BY <1>9, <1>10 DEF ClipInv
<1> QED
  BY <1>1, <1>2, <1>4, <1>11, OneClipKeeps

-----------------------------------------------------------------------------
(* Leases, events, time and crashes *)

\* acquire_download_lease keeps the invariant.
LEMMA AcquireKeeps ==
    ASSUME Inv, NEW c \in Clips, NEW h \in Holders, NEW t \in Reads, AcquireLease(c, h, t)
    PROVE  CatalogInv'
<1>1. TypeOK /\ ClipInv(c) /\ ClockAdvances
  <2>1. TypeOK /\ ClipInv(c)
    BY DEF Inv, CatalogInv, ClipInv
  <2>2. now' = now /\ boot' = boot
    BY DEF AcquireLease, clock
  <2> QED
    BY <2>1, <2>2 DEF TypeOK, ClockAdvances
<1>2. /\ lifecycle' = lifecycle /\ path' = path /\ protected' = protected
      /\ revision' = revision /\ reconciled' = reconciled /\ intent' = intent
      /\ claim' = claim /\ hold' = hold /\ txn' = NoTxn /\ boot' = boot
      /\ Idle(c) /\ lifecycle[c] = "FINALIZED" /\ ~Active(c, t)
      /\ \A d \in Clips : SameFiles(d)
  BY DEF AcquireLease, SameFiles, files, clock
<1>3. /\ \A d \in Clips \ {c} : SameRow(d)
      /\ lease'[c] = [holder |-> h, expires |-> t + LeaseDuration, boot |-> boot]
  BY <1>1 DEF AcquireLease, SameRow, TypeOK
<1>4. RowInv(c)'
  <2>1. lease'[c] # NoLease
    BY <1>3, CatalogAssumption DEF NoLease
  <2> QED
    BY <1>1, <1>2, <2>1 DEF ClipInv, RowInv, Idle
<1>5. FileInv(c)' /\ HoldInv(c)'
  BY <1>1, <1>2 DEF ClipInv, FileInv, HoldInv, Idle, SameFiles
<1>6. LeaseInv(c)'
  <2>1. lease'[c].boot = boot /\ boot \in Nat
    BY <1>1, <1>3 DEF TypeOK
  <2> QED
    BY <1>2, <2>1 DEF LeaseInv, Idle
<1>7. \A d \in Clips : ClipInv(d)'
  BY <1>1, <1>2, <1>3, <1>4, <1>5, <1>6, ClipFrame DEF Inv, CatalogInv, ClipInv
<1>8. ASSUME NEW g \in Holders PROVE DownloadInv(g)'
  <2>1. CASE g = h
    <3>1. download'[h] = [clip |-> c, expires |-> t + LeaseDuration, at |-> Absent]
      BY <1>1 DEF AcquireLease, TypeOK
    <3>2. /\ download'[h].clip = c /\ download'[h].expires = t + LeaseDuration
          /\ download'[h].at = Absent
      BY <3>1
    <3> QED
      BY <1>2, <1>3, <2>1, <3>2 DEF DownloadInv
  <2>2. CASE g # h
    <3>1. download'[g] = download[g]
      BY <1>1, <2>2 DEF AcquireLease, TypeOK
    <3>2. download[g] # NoDownload /\ now < download[g].expires => download[g].clip # c
      BY <1>1, <1>2, DownloadLease, NotActive
    <3>3. download[g] # NoDownload => download[g].clip \in Clips
      BY <1>1 DEF TypeOK, Downloads
    <3> QED
      BY <1>1, <1>3, <3>1, <3>2, <3>3, DownloadFrame DEF Inv, CatalogInv, SameRow
  <2> QED
    BY <2>1, <2>2
<1> QED
  BY <1>2, <1>7, <1>8, NoTxnInv, Assemble

\* Reading the approved path after the lease is durable keeps the invariant.
LEMMA ReadKeeps ==
    ASSUME Inv, NEW h \in Holders, ReadApprovedPath(h) PROVE CatalogInv'
<1>1. TypeOK /\ ClockAdvances
  BY DEF Inv, TypeOK, ReadApprovedPath, clock, ClockAdvances
<1>2. /\ \A d \in Clips : SameRow(d) /\ SameFiles(d) /\ hold'[d] = hold[d]
      /\ txn' = NoTxn /\ path' = path /\ lease' = lease /\ now' = now /\ boot' = boot
  BY DEF ReadApprovedPath, SameRow, SameFiles, rows, files, clock
<1>3. \A d \in Clips : ClipInv(d)'
  BY <1>1, <1>2, ClipFrame DEF Inv, CatalogInv, ClipInv
<1>4. ASSUME NEW g \in Holders PROVE DownloadInv(g)'
  <2>1. CASE g = h
    <3>1. download[h] \in Downloads
      BY <1>1 DEF ReadApprovedPath, TypeOK
    <3>2. download' = [download EXCEPT ![h] =
                         [download[h] EXCEPT !.at = path[download[h].clip]]]
      BY DEF ReadApprovedPath
    <3>3. /\ download'[h].clip = download[h].clip
          /\ download'[h].expires = download[h].expires
          /\ download'[h].at = path[download[h].clip]
      BY <1>1, <3>1, <3>2 DEF TypeOK, Downloads
    <3>4. DownloadInv(h) /\ download[h] # NoDownload
      BY DEF Inv, CatalogInv, ReadApprovedPath
    <3> QED
      BY <1>2, <2>1, <3>3, <3>4 DEF DownloadInv
  <2>2. CASE g # h
    <3>1. download'[g] = download[g]
      BY <1>1, <2>2 DEF ReadApprovedPath, TypeOK
    <3> QED
      BY <1>1, <1>2, <3>1, DownloadFrame DEF Inv, CatalogInv
  <2> QED
    BY <2>1, <2>2
<1> QED
  BY <1>2, <1>3, <1>4, NoTxnInv, Assemble

\* Clearing a lease and repairing the directory keeps the invariant of every clip.
LEMMA ClearKeeps ==
    ASSUME Inv, NEW cleared, ClearAndRepair(cleared), ClockAdvances,
           lifecycle' = lifecycle, path' = path, protected' = protected,
           revision' = revision, claim' = claim, hold' = hold,
           \A d \in Clips : SameFiles(d)
    PROVE  \A d \in Clips : ClipInv(d)'
<1> SUFFICES ASSUME NEW d \in Clips PROVE ClipInv(d)'
  OBVIOUS
<1>1. TypeOK /\ ClipInv(d)
  BY DEF Inv, CatalogInv, ClipInv
<1>2. CASE d \notin cleared
  <2>1. SameRow(d)
    BY <1>2 DEF ClearAndRepair, SameRow
  <2> QED
    BY <1>1, <2>1, ClipFrame
<1>3. CASE d \in cleared
  <2>1. lease'[d] = NoLease /\ intent'[d] = RepairIntent(d)
    BY <1>3 DEF ClearAndRepair
  <2>2. reconciled'[d] = IF RepairIntent(d) # intent[d] THEN FALSE ELSE reconciled[d]
    BY <1>3 DEF ClearAndRepair
  <2>3. CASE lifecycle[d] = "FINALIZED" /\ Idle(d) /\ protected[d] /\ path[d].dir = "clips"
    <3>1. intent'[d] = ProtectIntent(path[d]) /\ ~reconciled'[d]
      BY <2>1, <2>2, <2>3, ProtectIntentFields DEF RepairIntent, Idle
    <3> QED
      BY <2>1, <2>3, <3>1, ProtectMoveKeeps
  <2>4. CASE ~(lifecycle[d] = "FINALIZED" /\ Idle(d) /\ protected[d] /\ path[d].dir = "clips")
    <3>1. lifecycle[d] = "FINALIZED" /\ Idle(d) =>
            path[d] \in FinalPaths /\ (path[d].dir = "protected" => protected[d])
      BY <1>1 DEF ClipInv, RowInv
    <3>2. intent'[d] = intent[d] /\ reconciled'[d] = reconciled[d]
      BY <2>1, <2>2, <2>4, <3>1 DEF RepairIntent, Idle
    <3>3. lifecycle[d] = "FINALIZED" /\ Idle(d) /\ protected[d] => path[d].dir = "protected"
      BY <2>4, <3>1 DEF FinalPaths, FinalDirs
    <3>4. ~Idle(d) => IntentFits(d)'
      BY <1>1, <3>2 DEF ClipInv, RowInv, IntentFits
    <3>5. RowInv(d)'
      BY <1>1, <2>1, <3>2, <3>3, <3>4 DEF ClipInv, RowInv, Idle
    <3>6. FileInv(d)' /\ HoldInv(d)'
      BY <1>1, <3>2 DEF ClipInv, FileInv, HoldInv, Idle, SameFiles
    <3>7. LeaseInv(d)'
      BY <2>1 DEF LeaseInv
    <3> QED
      BY <3>5, <3>6, <3>7 DEF ClipInv
  <2> QED
    BY <2>3, <2>4
<1> QED
  BY <1>2, <1>3

\* release_download_lease keeps the invariant.
LEMMA ReleaseKeeps ==
    ASSUME Inv, NEW h \in Holders, ReleaseLease(h) PROVE CatalogInv'
<1> DEFINE cleared == {c \in Clips : c = download[h].clip /\ lease[c].holder = h}
<1>1. TypeOK /\ ClockAdvances
  BY DEF Inv, TypeOK, ReleaseLease, clock, ClockAdvances
<1>2. /\ ClearAndRepair(cleared) /\ txn' = NoTxn /\ path' = path
      /\ lifecycle' = lifecycle /\ protected' = protected /\ revision' = revision
      /\ claim' = claim /\ hold' = hold
      /\ \A d \in Clips : SameFiles(d)
  BY DEF ReleaseLease, SameFiles, files
<1>3. \A d \in Clips : ClipInv(d)'
  <2> HIDE DEF cleared
  <2> QED
    BY <1>1, <1>2, ClearKeeps
<1>4. ASSUME NEW g \in Holders PROVE DownloadInv(g)'
  <2>1. CASE g = h
    <3>1. download'[h] = NoDownload
      BY <1>1 DEF ReleaseLease, TypeOK
    <3> QED
      BY <2>1, <3>1 DEF DownloadInv
  <2>2. CASE g # h
    <3>1. download'[g] = download[g]
      BY <1>1, <2>2 DEF ReleaseLease, TypeOK
    <3>2. \A d \in Clips : d \notin cleared => lease'[d] = lease[d]
      BY <1>2 DEF ClearAndRepair
    <3>3. download[g] # NoDownload /\ now < download[g].expires =>
            download[g].clip \in Clips /\ download[g].clip \notin cleared
      BY <2>2, DownloadLease
    <3> QED
      BY <1>1, <1>2, <3>1, <3>2, <3>3, DownloadFrame DEF Inv, CatalogInv
  <2> QED
    BY <2>1, <2>2
<1> QED
  BY <1>2, <1>3, <1>4, NoTxnInv, Assemble

\* clear_expired_download_leases keeps the invariant.
LEMMA ClearExpiredKeeps ==
    ASSUME Inv, NEW t \in Reads, ClearExpired(t) PROVE CatalogInv'
<1> DEFINE cleared == {c \in Clips : lease[c] # NoLease /\ ~Active(c, t)}
<1>1. TypeOK /\ ClockAdvances
  BY DEF Inv, TypeOK, ClearExpired, clock, ClockAdvances
<1>2. /\ ClearAndRepair(cleared) /\ txn' = NoTxn /\ path' = path
      /\ lifecycle' = lifecycle /\ protected' = protected /\ revision' = revision
      /\ claim' = claim /\ hold' = hold /\ download' = download
      /\ \A d \in Clips : SameFiles(d)
  BY DEF ClearExpired, SameFiles, files
<1>3. \A d \in Clips : ClipInv(d)'
  <2> HIDE DEF cleared
  <2> QED
    BY <1>1, <1>2, ClearKeeps
<1>4. ASSUME NEW g \in Holders PROVE DownloadInv(g)'
  <2>1. \A d \in Clips : d \notin cleared => lease'[d] = lease[d]
    BY <1>2 DEF ClearAndRepair
  <2>2. download[g] # NoDownload /\ now < download[g].expires =>
          download[g].clip \in Clips /\ download[g].clip \notin cleared
    BY <1>1, DownloadLease, NotActive
  <2> QED
    BY <1>1, <1>2, <2>1, <2>2, DownloadFrame DEF Inv, CatalogInv
<1> QED
  BY <1>2, <1>3, <1>4, NoTxnInv, Assemble

\* trigger_event keeps the invariant of every clip it protects.
LEMMA EventKeeps ==
    ASSUME Inv, NEW e \in Events, NEW c \in Clips, NEW t \in Reads, TriggerEvent(e, c, t)
    PROVE  CatalogInv'
<1> DEFINE targets == PreviousOf(c) \cup {c}
<1>1. TypeOK /\ ClockAdvances
  <2>1. now' = now /\ boot' = boot
    BY DEF TriggerEvent, clock
  <2> QED
    BY <2>1 DEF Inv, TypeOK, ClockAdvances
<1>2. /\ lifecycle' = lifecycle /\ path' = path /\ lease' = lease /\ hold' = hold
      /\ txn' = NoTxn /\ download' = download
      /\ \A d \in Clips : SameFiles(d)
  BY DEF TriggerEvent, SameFiles, files
<1>3. \A d \in Clips : d \in targets => lifecycle[d] \in {"FINALIZED", "WRITING"}
  BY DEF TriggerEvent, PreviousOf
<1>4. /\ \A d \in Clips : protected'[d] = (d \in targets \/ protected[d])
      /\ \A d \in Clips : claim'[d] = (d \in targets \/ claim[d])
  BY DEF TriggerEvent
<1>5. \A d \in Clips : revision'[d] = IF d \in targets THEN revision[d] + 1 ELSE revision[d]
  BY DEF TriggerEvent
<1>6. \A d \in Clips : /\ intent'[d] = IF d \in targets /\ Movable(d, t)
                                      THEN ProtectIntent(path[d]) ELSE intent[d]
                       /\ reconciled'[d] = IF d \in targets /\ Movable(d, t)
                                           THEN FALSE ELSE reconciled[d]
  BY DEF TriggerEvent
<1> HIDE DEF targets
<1>7. ASSUME NEW d \in Clips PROVE ClipInv(d)'
  <2>1. CASE d \notin targets
    <3>1. SameRow(d) /\ hold'[d] = hold[d]
      <4>1. /\ protected[d] \in BOOLEAN /\ claim[d] \in BOOLEAN
        BY <1>1 DEF TypeOK
      <4>2. protected'[d] = protected[d] /\ claim'[d] = claim[d]
        BY <1>4, <2>1, <4>1
      <4> QED
        BY <1>2, <1>5, <1>6, <2>1, <4>2 DEF SameRow
    <3> QED
      BY <1>1, <1>2, <3>1, ClipFrame DEF Inv, CatalogInv, ClipInv
  <2>2. CASE d \in targets /\ Movable(d, t)
    <3>1. lease[d] # NoLease => ~(now < lease[d].expires)
      BY <1>1, <2>2, FrozenOrNot DEF Movable
    <3>2. intent'[d] = ProtectIntent(path[d]) /\ protected'[d] /\ ~reconciled'[d]
      BY <1>4, <1>6, <2>2
    <3> QED
      BY <1>1, <1>2, <2>2, <3>1, <3>2, ProtectMoveKeeps DEF Movable
  <2>3. CASE d \in targets /\ ~Movable(d, t)
    <3>1. /\ intent'[d] = intent[d] /\ reconciled'[d] = reconciled[d] /\ protected'[d]
          /\ revision'[d] = revision[d] + 1
      BY <1>4, <1>5, <1>6, <2>3
    <3>2. lifecycle[d] = "FINALIZED" /\ Idle(d) /\ lease[d] = NoLease =>
            path[d].dir = "protected"
      BY <2>3 DEF Movable, Unexpired
    <3>3. lifecycle[d] \notin {"NONE", "DELETING", "DELETED"}
      BY <1>3, <2>3
    <3> QED
      BY <1>1, <1>2, <3>1, <3>2, <3>3, ProtectInPlaceKeeps
  <2> QED
    BY <2>1, <2>2, <2>3
<1>8. \A h \in Holders : DownloadInv(h)'
  BY <1>1, <1>2, DownloadFrame DEF Inv, CatalogInv
<1> QED
  BY <1>2, <1>7, <1>8, NoTxnInv, Assemble

\* A restart of the device keeps the invariant: no lease is of the new boot.
LEMMA RebootKeeps ==
    ASSUME Inv, Reboot PROVE CatalogInv'
<1>1. TypeOK /\ boot' = boot + 1 /\ boot \in Nat
  BY DEF Inv, TypeOK, Reboot
<1>2. \A d \in Clips : SameRow(d) /\ SameFiles(d) /\ hold'[d] = Unheld
  BY DEF Reboot, SameRow, SameFiles, rows, files
<1>3. ASSUME NEW d \in Clips PROVE ClipInv(d)'
  <2>1. RowInv(d)' /\ FileInv(d)' /\ HoldInv(d)'
    BY <1>2, RowFrame, FileFrame, HoldFrame DEF Inv, CatalogInv
  <2>2. LeaseInv(d)'
    <3>1. LeaseInv(d) /\ lease'[d] = lease[d]
      BY <1>2 DEF Inv, CatalogInv, SameRow
    <3>2. lease[d] # NoLease => lease[d].boot \in Nat
      BY <1>1 DEF TypeOK, Leases
    <3> QED
      BY <1>1, <3>1, <3>2 DEF LeaseInv
  <2> QED
    BY <2>1, <2>2 DEF ClipInv
<1>4. txn' = NoTxn /\ \A h \in Holders : download'[h] = NoDownload
  BY DEF Reboot
<1>5. \A h \in Holders : DownloadInv(h)'
  BY <1>4 DEF DownloadInv
<1> QED
  BY <1>3, <1>4, <1>5, NoTxnInv, Assemble

\* A rollback, the clock, a crash and files of unknown origin keep the invariant.
LEMMA QuietStepsKeep ==
    ASSUME Inv,
           \/ AbortReconcile
           \/ Tick
           \/ Crash
           \/ \E f \in Foreign : ForeignAppears(f) \/ ForeignRemoved(f)
           \/ UNCHANGED vars
    PROVE  CatalogInv'
<1>1. CASE AbortReconcile
  <2>1. /\ \A c \in Clips : SameRow(c) /\ SameFiles(c) /\ hold'[c] = hold[c]
        /\ ClockAdvances /\ txn' = NoTxn
        /\ intent' = intent /\ content' = content /\ download' = download
    BY <1>1 DEF AbortReconcile, SameRow, SameFiles, rows, files, clock, ClockAdvances, Inv, TypeOK
  <2> QED
    BY <2>1, QuietKeeps
<1>2. CASE Tick
  <2>1. /\ \A c \in Clips : SameRow(c) /\ SameFiles(c) /\ hold'[c] = hold[c]
        /\ ClockAdvances /\ txn' = txn
        /\ intent' = intent /\ content' = content /\ download' = download
    BY <1>2 DEF Tick, SameRow, SameFiles, rows, files, ClockAdvances, Inv, TypeOK
  <2> QED
    BY <2>1, QuietKeeps
<1>3. CASE Crash
  <2>1. /\ \A c \in Clips : SameRow(c) /\ SameFiles(c) /\ hold'[c] = Unheld
        /\ ClockAdvances /\ txn' = NoTxn
        /\ intent' = intent /\ content' = content /\ download' = download
    BY <1>3 DEF Crash, SameRow, SameFiles, rows, files, clock, ClockAdvances, Inv, TypeOK
  <2> QED
    BY <2>1, QuietKeeps
<1>4. ASSUME NEW f \in Foreign, ForeignAppears(f) \/ ForeignRemoved(f) PROVE CatalogInv'
  <2>1. /\ \A c \in Clips : SameRow(c) /\ SameFiles(c) /\ hold'[c] = hold[c]
        /\ ClockAdvances /\ txn' = txn
        /\ intent' = intent /\ content' = content /\ download' = download
    BY <1>4 DEF ForeignAppears, ForeignRemoved, SameRow, SameFiles, rows, clock,
                ClockAdvances, Inv, TypeOK
  <2> QED
    BY <2>1, QuietKeeps
<1>5. CASE UNCHANGED vars
  <2>1. /\ \A c \in Clips : SameRow(c) /\ SameFiles(c) /\ hold'[c] = hold[c]
        /\ ClockAdvances /\ txn' = txn
        /\ intent' = intent /\ content' = content /\ download' = download
    BY <1>5 DEF vars, SameRow, SameFiles, ClockAdvances, Inv, TypeOK
  <2> QED
    BY <2>1, QuietKeeps
<1> QED
  BY <1>1, <1>2, <1>3, <1>4, <1>5

-----------------------------------------------------------------------------
(* The theorems *)

\* Every step keeps the invariant.
LEMMA InvStep ==
    ASSUME Inv, [Next]_vars PROVE Inv'
<1>1. TypeOK'
  BY TypeStep
<1>2. ASSUME Recording PROVE CatalogInv'
  BY <1>2, RegisterWritingKeeps, SnapshotKeeps, StageKeeps, RegisterFinalizingKeeps,
     RetryKeeps, OrphanKeeps DEF Recording
<1>3. ASSUME Reconciling PROVE CatalogInv'
  BY <1>3, BeginKeeps, MoveKeeps, CommitKeeps, QuietStepsKeep DEF Reconciling
<1>4. ASSUME Requests PROVE CatalogInv'
  <2>1. ASSUME NEW t \in Reads, NEW c \in Clips, PrepareDelete(c, t) PROVE CatalogInv'
    BY <2>1, DeleteKeeps DEF PrepareDelete
  <2>2. ASSUME NEW t \in Reads, PrepareOldestDelete(t) PROVE CatalogInv'
    BY <2>2, DeleteKeeps DEF PrepareOldestDelete
  <2> QED
    BY <1>4, <2>1, <2>2, ProtectKeeps, UnprotectKeeps, AcquireKeeps, EventKeeps,
       ClearExpiredKeeps DEF Requests
<1>5. CatalogInv'
  BY <1>2, <1>3, <1>4, RegisterNameKeeps, ReadKeeps, ReleaseKeeps, RebootKeeps,
     QuietStepsKeep DEF Next
<1> QED
  BY <1>1, <1>5 DEF Inv

\* The inductive invariant holds in every reachable state: rows, intents,
\* files, holds, leases and downloads agree at every step of every catalog call.
THEOREM InvHolds == Spec => []Inv
<1>1. Inv /\ [Next]_vars => Inv'
  BY InvStep
<1> QED
  BY InitInv, <1>1, PTL DEF Spec

\* Every row, intent, file and lease keeps its type: in particular a completed
\* intent always leaves a legal path on the row (_complete_intent_locked).
THEOREM TypeCorrect == Spec => []TypeOK
<1>1. Inv => TypeOK
  BY DEF Inv
<1> QED
  BY InvHolds, <1>1, PTL

\* The invariant that TLC checks on small instances holds for every instance.
THEOREM CatalogConsistent == Spec => []CatalogInv
<1>1. Inv => CatalogInv
  BY DEF Inv
<1> QED
  BY InvHolds, <1>1, PTL

\* No crash, file error or collision loses or strands a member of a pair
\* (reconcile_intent and _complete_intent_locked).
THEOREM PairsStayWhole == Spec => []PairStaysWhole
<1>1. Inv => PairStaysWhole
  BY DEF Inv, CatalogInv, RowInv, FileInv, PairStaysWhole
<1> QED
  BY InvHolds, <1>1, PTL

\* An accepted protection is never lost (protection_revision).
THEOREM ClaimsHonoured == Spec => []ClaimHonoured
<1>1. Inv => ClaimHonoured
  BY DEF Inv, CatalogInv, RowInv, ClaimHonoured
<1> QED
  BY InvHolds, <1>1, PTL

\* A client with an unexpired lease keeps finding its pair, however old the
\* clock reads of concurrent requests are.
THEOREM DownloadsFrozen == Spec => []DownloadFrozen
<1>1. ASSUME Inv PROVE DownloadFrozen
  <2> SUFFICES ASSUME NEW h \in Holders, download[h] # NoDownload, download[h].at # Absent,
                      now < download[h].expires
               PROVE  \A m \in Members : at[download[h].clip][m] = download[h].at
    BY DEF DownloadFrozen
  <2>1. PICK c \in Clips : c = download[h].clip
    BY <1>1, DownloadLease
  <2>2. lease[c] # NoLease /\ Idle(c)
    BY <1>1, <2>1, DownloadLease
  <2>3. lifecycle[c] = "FINALIZED"
    BY <1>1, <2>2 DEF Inv, CatalogInv, RowInv
  <2>4. \A m \in Members : at[c][m] = path[c]
    BY <1>1, <2>2, <2>3 DEF Inv, CatalogInv, FileInv
  <2>5. path[c] = download[h].at
    BY <1>1, <2>1 DEF Inv, CatalogInv, DownloadInv
  <2> QED
    BY <2>1, <2>4, <2>5
<1>2. Inv => DownloadFrozen
  BY <1>1
<1> QED
  BY InvHolds, <1>2, PTL

\* Between mutations the directory of a pair tells its protection
\* (_queue_directory_invariant_repair_locked).
THEOREM DirectoriesTellProtection == Spec => []DirectoryTellsProtection
<1>1. Inv => DirectoryTellsProtection
  BY DEF Inv, CatalogInv, RowInv, DirectoryTellsProtection
<1> QED
  BY InvHolds, <1>1, PTL

\* A request touches no file, and only a deletion request changes a lifecycle.
LEMMA RequestsEffect ==
    ASSUME Requests
    PROVE  at' = at /\ (lifecycle' = lifecycle \/ \E d \in Clips : ReserveDelete(d))
<1> DEFINE Goal == at' = at /\ (lifecycle' = lifecycle \/ \E d \in Clips : ReserveDelete(d))
<1>1. ASSUME NEW t \in Reads, NEW c \in Clips, PrepareProtect(c, t) PROVE Goal
  BY <1>1 DEF PrepareProtect, files
<1>2. ASSUME NEW t \in Reads, NEW c \in Clips, PrepareUnprotect(c, t) PROVE Goal
  BY <1>2 DEF PrepareUnprotect, files
<1>3. ASSUME NEW c \in Clips, ReserveDelete(c) PROVE at' = at
  BY <1>3 DEF ReserveDelete, files
<1>4. ASSUME NEW t \in Reads, NEW c \in Clips, PrepareDelete(c, t) PROVE Goal
  BY <1>3, <1>4 DEF PrepareDelete
<1>5. ASSUME NEW t \in Reads, PrepareOldestDelete(t) PROVE Goal
  BY <1>3, <1>5 DEF PrepareOldestDelete
<1>6. ASSUME NEW t \in Reads, NEW c \in Clips, NEW h \in Holders, AcquireLease(c, h, t)
      PROVE  Goal
  BY <1>6 DEF AcquireLease, files
<1>7. ASSUME NEW t \in Reads, NEW c \in Clips, NEW e \in Events, TriggerEvent(e, c, t)
      PROVE  Goal
  BY <1>7 DEF TriggerEvent, files
<1>8. ASSUME NEW t \in Reads, ClearExpired(t) PROVE Goal
  BY <1>8 DEF ClearExpired, files
<1> HIDE DEF Goal
<1>9. Goal
  BY <1>1, <1>2, <1>4, <1>5, <1>6, <1>7, <1>8 DEF Requests
<1> QED
  BY <1>9 DEF Goal

\* Only a MoveMember of a DELETE unlinks a member.
LEMMA UnlinkStep ==
    ASSUME Inv, Next, NEW c \in Clips, NEW m \in Members,
           at[c][m] # Absent, at'[c][m] = Absent
    PROVE  MoveMember /\ c = txn.clip
<1>1. at' # at
  OBVIOUS
<1>2. TypeOK /\ Partial # Absent
  BY PathFacts DEF Inv
<1>3. ASSUME NEW d \in Clips, RegisterWriting(d) \/ StageSidecar(d) PROVE FALSE
  <2>1. at'[c][m] \in {at[c][m], Partial}
    BY <1>2, <1>3 DEF RegisterWriting, StageSidecar, TypeOK, Members
  <2> QED
    BY <1>2, <2>1
<1>4. MoveMember
  <2>1. ~Recording
    BY <1>1, <1>3 DEF Recording, TakeSnapshot, RegisterFinalizing, RetrySnapshot,
                      MarkOrphaned, files
  <2>2. Reconciling => MoveMember
    BY <1>1 DEF Reconciling, BeginReconcile, AbortReconcile, CommitReconcile, files
  <2>3. ~Requests
    BY <1>1, RequestsEffect
  <2>4. ASSUME \/ \E d \in Clips : RegisterName(d)
               \/ \E h \in Holders : ReadApprovedPath(h) \/ ReleaseLease(h)
               \/ Tick \/ Crash \/ Reboot
               \/ \E f \in Foreign : ForeignAppears(f) \/ ForeignRemoved(f)
        PROVE  FALSE
    BY <1>1, <2>4 DEF RegisterName, ReadApprovedPath, ReleaseLease, Tick, Crash, Reboot,
                      ForeignAppears, ForeignRemoved, files
  <2> QED
    BY <2>1, <2>2, <2>3, <2>4 DEF Next
<1>5. c = txn.clip
  BY <1>2, <1>4 DEF MoveMember, TypeOK, Txns
<1> QED
  BY <1>4, <1>5

\* Only a pair reserved for deletion loses a member, never one that is
\* protected, claimed or being downloaded (prepare_delete and reconcile_intent).
THEOREM OnlyReservedLost == Spec => OnlyReservedUnlinked
<1>1. ASSUME Inv, Next, NEW c \in Clips, NEW m \in Members,
             at[c][m] # Absent, at'[c][m] = Absent
      PROVE  /\ lifecycle[c] = "DELETING"
             /\ ~protected[c] /\ ~claim[c]
             /\ \A h \in Holders : download[h].clip = c => now >= download[h].expires
  <2>1. MoveMember /\ c = txn.clip
    BY <1>1, UnlinkStep
  <2>2. ~Idle(c)
    BY <1>1, <2>1 DEF MoveMember, Inv, CatalogInv, TxnInv
  <2>3. intent[c].tgt = Absent
    BY <1>1, <2>1 DEF MoveMember, Inv, TypeOK
  <2>4. intent[c].kind = "DELETE" /\ IntentFits(c)
    BY <1>1, <2>2, <2>3, PendingIntent, PathFacts
  <2>5. lifecycle[c] = "DELETING" /\ ~protected[c] /\ ~claim[c]
    BY <1>1, <2>4 DEF IntentFits, Inv, CatalogInv, RowInv
  <2>6. ASSUME NEW h \in Holders, download[h].clip = c PROVE now >= download[h].expires
    <3>1. download[h] # NoDownload
      BY <2>6, CatalogAssumption DEF NoDownload, Clips
    <3>2. download[h].expires \in Nat /\ now \in Nat
      BY <1>1, <3>1 DEF Inv, TypeOK, Downloads
    <3>3. ~(now < download[h].expires)
      BY <1>1, <2>2, <2>6, <3>1, DownloadLease
    <3> QED
      BY <3>2, <3>3
  <2> QED
    BY <2>5, <2>6
<1>2. Inv /\ [Next]_vars =>
        [\A c \in Clips, m \in Members :
            at[c][m] # Absent /\ at'[c][m] = Absent =>
                /\ lifecycle[c] = "DELETING"
                /\ ~protected[c] /\ ~claim[c]
                /\ \A h \in Holders :
                        download[h].clip = c => now >= download[h].expires]_vars
  BY <1>1
<1> QED
  BY InvHolds, <1>2, PTL DEF Spec, OnlyReservedUnlinked

\* The sidecar of a closing clip records the protection of its row at that
\* moment (register_finalizing_clip).
THEOREM SidecarsMatchRows == Spec => SidecarMatchesRowAtClose
<1>1. ASSUME Inv, Next, NEW c \in Clips, lifecycle[c] = "WRITING", lifecycle'[c] = "FINALIZING"
      PROVE  /\ at[c]["sidecar"] = Partial
             /\ content[c].protected = protected[c]
             /\ content[c].name = intent'[c].tgt.name
  <2>1. TypeOK
    BY <1>1 DEF Inv
  <2>2. RegisterFinalizing(c)
    <3>1. lifecycle' # lifecycle
      BY <1>1
    <3>2. ASSUME NEW d \in Clips, RegisterWriting(d) \/ MarkOrphaned(d) \/ ReserveDelete(d)
          PROVE  FALSE
      BY <1>1, <2>1, <3>2 DEF RegisterWriting, MarkOrphaned, ReserveDelete, TypeOK
    <3>3. ASSUME NEW d \in Clips, RegisterFinalizing(d) PROVE RegisterFinalizing(c)
      BY <1>1, <2>1, <3>3 DEF RegisterFinalizing, TypeOK
    <3>4. ASSUME CommitReconcile PROVE FALSE
      BY <1>1, <2>1, <3>4 DEF CommitReconcile, CompleteIntent, TypeOK, Txns
    <3>5. Recording => RegisterFinalizing(c)
      BY <3>1, <3>2, <3>3 DEF Recording, TakeSnapshot, StageSidecar, RetrySnapshot, rows
    <3>6. ~Reconciling
      BY <3>1, <3>4 DEF Reconciling, BeginReconcile, MoveMember, AbortReconcile, rows
    <3>7. ~Requests
      BY <3>1, <3>2, RequestsEffect
    <3>8. ASSUME \/ \E d \in Clips : RegisterName(d)
                 \/ \E h \in Holders : ReadApprovedPath(h) \/ ReleaseLease(h)
                 \/ Tick \/ Crash \/ Reboot
                 \/ \E f \in Foreign : ForeignAppears(f) \/ ForeignRemoved(f)
          PROVE  FALSE
      BY <3>1, <3>8 DEF RegisterName, ReadApprovedPath, ReleaseLease, Tick, Crash, Reboot,
                        ForeignAppears, ForeignRemoved, rows
    <3> QED
      BY <1>1, <3>5, <3>6, <3>7, <3>8 DEF Next
  <2>3. hold[c].phase = "staged" /\ protected[c] = hold[c].protected
    BY <2>2 DEF RegisterFinalizing, ProtectionUnchanged
  <2>4. /\ at[c]["sidecar"] = Partial
        /\ content[c] = [name |-> hold[c].name, protected |-> hold[c].protected]
    BY <1>1, <2>3 DEF Inv, CatalogInv, HoldInv
  <2>5. intent'[c].tgt.name = hold[c].name
    BY <2>1, <2>2 DEF RegisterFinalizing, TypeOK
  <2> QED
    BY <2>3, <2>4, <2>5
<1>2. Inv /\ [Next]_vars =>
        [\A c \in Clips :
            lifecycle[c] = "WRITING" /\ lifecycle'[c] = "FINALIZING" =>
                /\ at[c]["sidecar"] = Partial
                /\ content[c].protected = protected[c]
                /\ content[c].name = intent'[c].tgt.name]_vars
  BY <1>1
<1> QED
  BY InvHolds, <1>2, PTL DEF Spec, SidecarMatchesRowAtClose

-----------------------------------------------------------------------------
(* The counts: concurrent downloads and the windows of events *)

\* The clips whose lease is active at a clock value.
Leased(t) == {c \in Clips : Active(c, t)}

\* A clip that may yet close: its row has not left WRITING, or never will.
Unclosed(l) == l \in {"NONE", "WRITING", "MISSING_SIDECAR"}

\* The recorder holds a protection snapshot of the clip.
Snapped(h) == h.phase \in {"snapshot", "staged"}

\* The clips after its current one that an event has protected.
NextOf(e) == {c \in event[e].targets : c > event[e].current}

\* One event's window: its count, no closed clip skipped, no held clip left out.
WindowInv(e) ==
    event[e] # NoEvent =>
        /\ Cardinality(NextOf(e)) + event[e].remaining = NextCount
        /\ event[e].remaining > 0 =>
            \A c \in Clips : c > event[e].current =>
                /\ ~Unclosed(lifecycle[c]) => c \in event[e].targets
                /\ Snapped(hold[c]) => c \in event[e].targets

\* The inductive invariant of the counts.
CountInd == LeaseCapHeld /\ \A e \in Events : WindowInv(e)

\* Sets of clips are finite, and a part of one has no more members.
LEMMA ClipSets ==
    ASSUME NEW S \in SUBSET Clips
    PROVE  /\ IsFiniteSet(S) /\ Cardinality(S) \in Nat
           /\ \A T \in SUBSET S : IsFiniteSet(T) /\ Cardinality(T) <= Cardinality(S)
<1>1. IsFiniteSet(Clips)
  BY FS_Interval, CatalogAssumption DEF Clips
<1>2. IsFiniteSet(S)
  BY <1>1, FS_Subset
<1> QED
  BY <1>2, FS_Subset, FS_CardinalityType

\* Leases that are only given back or run out leave the cap alone.
LEMMA CapKept ==
    ASSUME Inv, LeaseCapHeld, \A c \in Clips : Active(c, now)' => Active(c, now)
    PROVE  LeaseCapHeld'
<1>1. {c \in Clips : Active(c, now)}' \subseteq {c \in Clips : Active(c, now)}
  OBVIOUS
<1>2. /\ Cardinality({c \in Clips : Active(c, now)}') <= Cardinality({c \in Clips : Active(c, now)})
      /\ Cardinality({c \in Clips : Active(c, now)}') \in Nat
      /\ Cardinality({c \in Clips : Active(c, now)}) \in Nat
  BY <1>1, ClipSets
<1> QED
  BY <1>2, CatalogAssumption DEF LeaseCapHeld

\* acquire_download_lease counts with an older clock read, which can only see
\* more leases active than there are.
LEMMA CapAcquire ==
    ASSUME Inv, NEW t \in Reads, NEW c \in Clips, NEW h \in Holders, AcquireLease(c, h, t)
    PROVE  LeaseCapHeld'
<1> DEFINE Old == {d \in Clips : Active(d, t)}
           New == {d \in Clips : Active(d, now)}'
<1>1. t \in Nat /\ t <= now /\ now \in Nat
  BY DEF Reads, Inv, TypeOK
<1>2. /\ lease' = [lease EXCEPT ![c] = [holder |-> h, expires |-> t + LeaseDuration,
                                        boot |-> boot]]
      /\ now' = now /\ boot' = boot /\ LeaseSlotFree(t)
  BY DEF AcquireLease, clock
<1>3. lease \in [Clips -> Leases \cup {NoLease}]
  BY DEF Inv, TypeOK
<1>4. New \subseteq Old \cup {c}
  <2> SUFFICES ASSUME NEW d \in Clips \ {c}, Active(d, now)' PROVE Active(d, t)
    OBVIOUS
  <2>1. lease'[d] = lease[d]
    BY <1>2, <1>3
  <2>2. lease[d] # NoLease /\ now < lease[d].expires /\ lease[d].boot = boot
    BY <1>2, <2>1 DEF Active, Unexpired
  <2>3. lease[d].expires \in Nat
    BY <1>3, <2>2 DEF Leases
  <2> QED
    BY <1>1, <2>2, <2>3 DEF Active, Unexpired
<1>5. IsFiniteSet(Old) /\ Cardinality(Old) \in Nat /\ Cardinality(Old) < MaxLeases
  BY <1>2, ClipSets DEF LeaseSlotFree
<1> HIDE DEF Old, New
<1>6. IsFiniteSet(Old \cup {c}) /\ Cardinality(Old \cup {c}) <= Cardinality(Old) + 1
      /\ Cardinality(Old \cup {c}) \in Nat
  <2>1. IsFiniteSet(Old \cup {c})
    BY <1>5, FS_AddElement
  <2>2. Cardinality(Old \cup {c}) \in {Cardinality(Old), Cardinality(Old) + 1}
    BY <1>5, FS_AddElement
  <2> QED
    BY <1>5, <2>1, <2>2
<1>7. Cardinality(New) <= Cardinality(Old \cup {c}) /\ Cardinality(New) \in Nat
  BY <1>4, <1>6, FS_Subset, FS_CardinalityType
<1>8. Cardinality(New) <= MaxLeases
  BY <1>5, <1>6, <1>7, CatalogAssumption
<1> QED
  BY <1>8 DEF New, LeaseCapHeld

\* No step but acquire_download_lease makes a lease active.
LEMMA CapGivenBack ==
    ASSUME Inv, LeaseCapHeld, \A c \in Clips : lease'[c] \in {lease[c], NoLease},
           boot' = boot, now' \in {now, now + 1}
    PROVE  LeaseCapHeld'
<1> SUFFICES ASSUME NEW c \in Clips, Active(c, now)' PROVE Active(c, now)
  BY CapKept
<1>1. lease'[c] = lease[c] /\ lease[c] # NoLease /\ now' < lease[c].expires /\ lease[c].boot = boot
  BY DEF Active, Unexpired
<1>2. lease[c].expires \in Nat /\ now \in Nat
  BY <1>1 DEF Inv, TypeOK, Leases
<1> QED
  BY <1>1, <1>2 DEF Active, Unexpired

\* No lease of an earlier boot is active.
LEMMA CapReboot == ASSUME Inv, LeaseCapHeld, Reboot PROVE LeaseCapHeld'
<1> SUFFICES ASSUME NEW c \in Clips, Active(c, now)' PROVE FALSE
  BY CapKept
<1>1. lease' = lease /\ boot' = boot + 1 /\ boot \in Nat
  BY DEF Reboot, rows, Inv, TypeOK
<1>2. lease[c] # NoLease /\ lease[c].boot = boot + 1
  BY <1>1 DEF Active, Unexpired
<1>3. lease[c].boot \in Nat /\ lease[c].boot <= boot
  BY <1>2 DEF Inv, TypeOK, Leases, CatalogInv, LeaseInv
<1> QED
  BY <1>1, <1>2, <1>3

\* Every step keeps the cap on leases.
LEMMA CapStep == ASSUME Inv, LeaseCapHeld, [Next]_vars PROVE LeaseCapHeld'
<1> DEFINE Kept == /\ \A c \in Clips : lease'[c] \in {lease[c], NoLease}
                   /\ boot' = boot /\ now' \in {now, now + 1}
<1>0. lease \in [Clips -> Leases \cup {NoLease}]
  BY DEF Inv, TypeOK
<1>1. Kept => LeaseCapHeld'
  BY CapGivenBack
<1>2. ASSUME Recording PROVE Kept
  BY <1>2 DEF Recording, RegisterWriting, TakeSnapshot, StageSidecar, RegisterFinalizing,
              RetrySnapshot, MarkOrphaned, rows, clock
<1>3. ASSUME Reconciling PROVE Kept
  <2>1. CASE CommitReconcile
    BY <1>0, <2>1 DEF CommitReconcile, CompleteIntent, clock
  <2> QED
    BY <1>3, <2>1 DEF Reconciling, BeginReconcile, MoveMember, AbortReconcile, rows, clock
<1>4. ASSUME NEW d \in Clips, ReserveDelete(d) PROVE Kept
  BY <1>0, <1>4 DEF ReserveDelete, clock
<1>5. ASSUME NEW S, ClearAndRepair(S), boot' = boot, now' = now PROVE Kept
  BY <1>0, <1>5 DEF ClearAndRepair
<1>6. ASSUME Requests PROVE LeaseCapHeld'
  <2>1. ASSUME NEW t \in Reads, NEW c \in Clips,
               \/ PrepareProtect(c, t)
               \/ PrepareUnprotect(c, t)
               \/ \E e \in Events : TriggerEvent(e, c, t)
        PROVE  Kept
    BY <2>1 DEF PrepareProtect, PrepareUnprotect, TriggerEvent, clock
  <2>2. ASSUME NEW t \in Reads, NEW c \in Clips, PrepareDelete(c, t) PROVE Kept
    BY <1>4, <2>2 DEF PrepareDelete
  <2>3. ASSUME NEW t \in Reads, PrepareOldestDelete(t) PROVE Kept
    BY <1>4, <2>3 DEF PrepareOldestDelete
  <2>4. ASSUME NEW t \in Reads, ClearExpired(t) PROVE Kept
    <3>1. boot' = boot /\ now' = now
      BY <2>4 DEF ClearExpired, clock
    <3>2. PICK S : ClearAndRepair(S)
      BY <2>4 DEF ClearExpired
    <3> QED
      BY <3>1, <3>2, <1>5
  <2> HIDE DEF Kept
  <2> QED
    BY <1>1, <1>6, <2>1, <2>2, <2>3, <2>4, CapAcquire DEF Requests
<1>7. ASSUME NEW h \in Holders, ReleaseLease(h) PROVE Kept
  <2>1. boot' = boot /\ now' = now
    BY <1>7 DEF ReleaseLease, clock
  <2>2. PICK S : ClearAndRepair(S)
    BY <1>7 DEF ReleaseLease
  <2> QED
    BY <2>1, <2>2, <1>5
<1>8. ASSUME \/ \E c \in Clips : RegisterName(c)
             \/ \E h \in Holders : ReadApprovedPath(h)
             \/ Tick \/ Crash
             \/ \E f \in Foreign : ForeignAppears(f) \/ ForeignRemoved(f)
             \/ UNCHANGED vars
      PROVE  Kept
  BY <1>8 DEF RegisterName, ReadApprovedPath, Tick, Crash, ForeignAppears, ForeignRemoved,
              rows, clock, vars
<1> HIDE DEF Kept
<1> QED
  BY <1>1, <1>2, <1>3, <1>6, <1>7, <1>8, CapReboot DEF Next

\* Windows stay as they are while no event changes, no clip is closed without a
\* snapshot and none gets one.
LEMMA WindowFrame ==
    ASSUME \A e \in Events : WindowInv(e), event' = event,
           \A c \in Clips : \/ Unclosed(lifecycle'[c])
                            \/ ~Unclosed(lifecycle[c])
                            \/ Snapped(hold[c]),
           \A c \in Clips : Snapped(hold'[c]) => Snapped(hold[c])
    PROVE  \A e \in Events : WindowInv(e)'
<1> SUFFICES ASSUME NEW e \in Events PROVE WindowInv(e)'
  OBVIOUS
<1>1. WindowInv(e) /\ event'[e] = event[e] /\ NextOf(e)' = NextOf(e)
  BY DEF NextOf
<1> QED
  BY <1>1 DEF WindowInv

\* active_closing_protection spends every window the clip falls into.
LEMMA WindowSnapshot ==
    ASSUME Inv, \A e \in Events : WindowInv(e), NEW c \in Clips, NEW n \in CloseNames,
           TakeSnapshot(c, n)
    PROVE  \A e \in Events : WindowInv(e)'
<1> SUFFICES ASSUME NEW e \in Events, event'[e] # NoEvent PROVE WindowInv(e)'
  BY DEF WindowInv
<1>1. /\ event' = [x \in Events |-> IF x \in WindowsOf(c)
                                    THEN [event[x] EXCEPT !.remaining = @ - 1,
                                                          !.targets = @ \cup {c}]
                                    ELSE event[x]]
      /\ lifecycle' = lifecycle
  BY DEF TakeSnapshot
<1>2. \A d \in Clips \ {c} : hold'[d] = hold[d]
  BY DEF TakeSnapshot, Inv, TypeOK
<1>3. event[e] \in EventRecords \cup {NoEvent} /\ WindowInv(e)
  BY DEF Inv, TypeOK
<1>4. CASE e \in WindowsOf(c)
  <2>1. /\ event[e].remaining > 0 /\ event[e].current < c /\ c \notin event[e].targets
    BY <1>4 DEF WindowsOf, Waiting
  <2>2. event[e] \in EventRecords /\ event[e] # NoEvent
    BY <1>3, <2>1 DEF NoEvent
  <2>3. /\ event[e].remaining \in Nat /\ event[e].current \in Nat
        /\ event[e].targets \subseteq Clips
    BY <2>2 DEF EventRecords, Clips
  <2>4. /\ event'[e].remaining = event[e].remaining - 1
        /\ event'[e].current = event[e].current
        /\ event'[e].targets = event[e].targets \cup {c}
    BY <1>1, <1>4, <2>2 DEF EventRecords
  <2>5. NextOf(e)' = NextOf(e) \cup {c} /\ c \notin NextOf(e) /\ NextOf(e) \in SUBSET Clips
    BY <2>1, <2>3, <2>4 DEF NextOf, Clips
  <2>6. IsFiniteSet(NextOf(e)) /\ Cardinality(NextOf(e)) \in Nat
    BY <2>5, ClipSets
  <2>7. Cardinality(NextOf(e)') = Cardinality(NextOf(e)) + 1
    BY <2>5, <2>6, FS_AddElement
  <2>8. Cardinality(NextOf(e)') + event'[e].remaining = NextCount
    BY <1>3, <2>2, <2>3, <2>4, <2>6, <2>7, CatalogAssumption DEF WindowInv
  <2>9. ASSUME NEW d \in Clips, d > event[e].current,
               ~Unclosed(lifecycle[d]) \/ Snapped(hold'[d])
        PROVE  d \in event'[e].targets
    BY <1>2, <1>3, <2>1, <2>2, <2>4, <2>9 DEF WindowInv
  <2> QED
    BY <1>1, <2>4, <2>8, <2>9 DEF WindowInv
<1>5. CASE e \notin WindowsOf(c)
  <2>1. event'[e] = event[e] /\ NextOf(e)' = NextOf(e) /\ event[e] # NoEvent
    BY <1>1, <1>5 DEF NextOf
  <2>2. event[e].remaining > 0 /\ c > event[e].current => c \in event[e].targets
    BY <1>5 DEF WindowsOf, Waiting
  <2> QED
    BY <1>1, <1>2, <1>3, <2>1, <2>2 DEF WindowInv
<1> QED
  BY <1>4, <1>5

\* trigger_event opens a window before any later clip is registered.
LEMMA WindowTrigger ==
    ASSUME Inv, \A e \in Events : WindowInv(e), NEW t \in Reads, NEW c \in Clips,
           NEW e \in Events, TriggerEvent(e, c, t)
    PROVE  \A x \in Events : WindowInv(x)'
<1> SUFFICES ASSUME NEW x \in Events PROVE WindowInv(x)'
  OBVIOUS
<1> DEFINE new == [current |-> c, remaining |-> NextCount, targets |-> PreviousOf(c) \cup {c}]
<1>1. /\ event' = [event EXCEPT ![e] = new]
      /\ lifecycle' = lifecycle /\ hold' = hold
      /\ \A d \in Clips : d > c => ~Registered(d)
  BY DEF TriggerEvent
<1>2. event \in [Events -> EventRecords \cup {NoEvent}]
  BY DEF Inv, TypeOK
<1>3. CASE x = e
  <2>1. event'[e] = new
    BY <1>1, <1>2
  <2>2. NextOf(e)' = {}
    BY <2>1 DEF NextOf, PreviousOf, Clips
  <2>3. Cardinality(NextOf(e)') = 0
    BY <2>2, FS_EmptySet
  <2>4. ASSUME NEW d \in Clips, d > c PROVE Unclosed(lifecycle[d]) /\ ~Snapped(hold[d])
    <3>1. lifecycle[d] = "NONE"
      BY <1>1, <2>4 DEF Registered
    <3>2. hold[d] = Unheld
      BY <3>1 DEF Inv, CatalogInv, HoldInv
    <3> QED
      BY <3>1, <3>2 DEF Unclosed, Snapped, Unheld
  <2>5. Cardinality(NextOf(e)') + event'[e].remaining = NextCount
    BY <2>1, <2>3, CatalogAssumption
  <2>6. event'[e].current = c
    BY <2>1
  <2> HIDE DEF new
  <2> QED
    BY <1>1, <1>3, <2>4, <2>5, <2>6 DEF WindowInv
<1>4. CASE x # e
  <2>1. event'[x] = event[x] /\ NextOf(x)' = NextOf(x) /\ WindowInv(x)
    BY <1>1, <1>2, <1>4 DEF NextOf
  <2> QED
    BY <1>1, <2>1 DEF WindowInv
<1> QED
  BY <1>3, <1>4

\* Every step keeps the windows.
LEMMA WindowStep ==
    ASSUME Inv, \A e \in Events : WindowInv(e), [Next]_vars
    PROVE  \A e \in Events : WindowInv(e)'
<1> DEFINE Quiet == /\ event' = event
                    /\ \A c \in Clips : \/ Unclosed(lifecycle'[c])
                                         \/ ~Unclosed(lifecycle[c])
                                         \/ Snapped(hold[c])
                    /\ \A c \in Clips : Snapped(hold'[c]) => Snapped(hold[c])
           Goal == \A e \in Events : WindowInv(e)'
<1>0. TypeOK /\ lifecycle \in [Clips -> Lifecycles]
             /\ hold \in [Clips -> Snapshots \cup {Open, Unheld}]
  BY DEF Inv, TypeOK
<1>1. Quiet => Goal
  BY WindowFrame
<1>2. ASSUME NEW c \in Clips, RegisterWriting(c) PROVE Quiet
  BY <1>0, <1>2 DEF RegisterWriting, Unclosed, Snapped, Open
<1>3. ASSUME NEW c \in Clips, StageSidecar(c) PROVE Quiet
  <2>1. Snapped(hold[c]) /\ lifecycle' = lifecycle /\ event' = event
    BY <1>3 DEF StageSidecar, Snapped, rows
  <2>2. \A d \in Clips \ {c} : hold'[d] = hold[d]
    BY <1>0, <1>3 DEF StageSidecar
  <2> QED
    BY <2>1, <2>2
<1>4. ASSUME NEW c \in Clips, RegisterFinalizing(c) PROVE Quiet
  <2>1. Snapped(hold[c]) /\ event' = event
    BY <1>4 DEF RegisterFinalizing, Snapped
  <2>2. \A d \in Clips \ {c} : hold'[d] = hold[d] /\ lifecycle'[d] = lifecycle[d]
    BY <1>0, <1>4 DEF RegisterFinalizing
  <2> QED
    BY <2>1, <2>2
<1>5. ASSUME NEW c \in Clips, RetrySnapshot(c) PROVE Quiet
  <2>1. hold'[c] = Open /\ lifecycle' = lifecycle /\ event' = event
    BY <1>0, <1>5 DEF RetrySnapshot, rows
  <2>2. \A d \in Clips \ {c} : hold'[d] = hold[d]
    BY <1>0, <1>5 DEF RetrySnapshot
  <2> QED
    BY <2>1, <2>2 DEF Snapped, Open
<1>6. ASSUME NEW c \in Clips, MarkOrphaned(c) PROVE Quiet
  <2>1. hold'[c] = Unheld /\ lifecycle'[c] = "MISSING_SIDECAR" /\ event' = event
    BY <1>0, <1>6 DEF MarkOrphaned
  <2>2. \A d \in Clips \ {c} : hold'[d] = hold[d] /\ lifecycle'[d] = lifecycle[d]
    BY <1>0, <1>6 DEF MarkOrphaned
  <2> QED
    BY <2>1, <2>2 DEF Snapped, Unheld, Unclosed
<1>7. ASSUME Reconciling PROVE Quiet
  <2>1. CASE CommitReconcile
    <3>1. PICK c \in Clips : c = txn.clip
      BY <2>1 DEF CommitReconcile, Inv, TypeOK, Txns
    <3>2. ~Idle(c)
      BY <2>1, <3>1 DEF CommitReconcile, Inv, CatalogInv, TxnInv
    <3>3. ~Unclosed(lifecycle[c])
      BY <3>2 DEF Inv, CatalogInv, RowInv, Unclosed
    <3>4. \A d \in Clips \ {c} : lifecycle'[d] = lifecycle[d]
      BY <1>0, <2>1, <3>1 DEF CommitReconcile, CompleteIntent
    <3>5. event' = event /\ hold' = hold
      BY <2>1 DEF CommitReconcile
    <3> QED
      BY <3>3, <3>4, <3>5
  <2> QED
    BY <1>7, <2>1 DEF Reconciling, BeginReconcile, MoveMember, AbortReconcile, rows
<1>8. ASSUME NEW t \in Reads, NEW c \in Clips, Eligible(c, t), ReserveDelete(c) PROVE Quiet
  <2>1. ~Unclosed(lifecycle[c]) /\ event' = event /\ hold' = hold
    BY <1>8 DEF Eligible, ReserveDelete, Unclosed
  <2>2. \A d \in Clips \ {c} : lifecycle'[d] = lifecycle[d]
    BY <1>0, <1>8 DEF ReserveDelete
  <2> QED
    BY <2>1, <2>2
<1>9. ASSUME Requests PROVE Goal
  <2>1. ASSUME NEW t \in Reads, NEW c \in Clips,
               \/ PrepareProtect(c, t)
               \/ PrepareUnprotect(c, t)
               \/ \E h \in Holders : AcquireLease(c, h, t)
        PROVE  Quiet
    BY <2>1 DEF PrepareProtect, PrepareUnprotect, AcquireLease
  <2>2. ASSUME NEW t \in Reads, NEW c \in Clips, PrepareDelete(c, t) PROVE Quiet
    BY <1>8, <2>2 DEF PrepareDelete
  <2>3. ASSUME NEW t \in Reads, PrepareOldestDelete(t) PROVE Quiet
    BY <1>8, <2>3 DEF PrepareOldestDelete
  <2>4. ASSUME NEW t \in Reads, ClearExpired(t) PROVE Quiet
    BY <2>4 DEF ClearExpired
  <2>5. ASSUME NEW t \in Reads, NEW c \in Clips, NEW e \in Events, TriggerEvent(e, c, t)
        PROVE  Goal
    BY <2>5, WindowTrigger
  <2> HIDE DEF Quiet, Goal
  <2> QED
    BY <1>1, <1>9, <2>1, <2>2, <2>3, <2>4, <2>5 DEF Requests
<1>10. ASSUME Crash \/ Reboot PROVE Quiet
  <2>1. \A c \in Clips : hold'[c] = Unheld
    BY <1>10 DEF Crash, Reboot
  <2>2. event' = event /\ lifecycle' = lifecycle
    BY <1>10 DEF Crash, Reboot, rows
  <2> QED
    BY <2>1, <2>2 DEF Snapped, Unheld
<1>11. ASSUME \/ \E c \in Clips : RegisterName(c)
              \/ \E h \in Holders : ReadApprovedPath(h) \/ ReleaseLease(h)
              \/ Tick
              \/ \E f \in Foreign : ForeignAppears(f) \/ ForeignRemoved(f)
              \/ UNCHANGED vars
       PROVE  Quiet
  BY <1>11 DEF RegisterName, ReadApprovedPath, ReleaseLease, Tick, ForeignAppears,
               ForeignRemoved, rows, vars
<1>12. ASSUME NEW c \in Clips, NEW n \in CloseNames, TakeSnapshot(c, n) PROVE Goal
  BY <1>12, WindowSnapshot
<1> HIDE DEF Quiet, Goal
<1>13. Goal
  <2>1. Recording => Goal
    BY <1>1, <1>2, <1>3, <1>4, <1>5, <1>6, <1>12 DEF Recording
  <2> QED
    BY <1>1, <1>7, <1>9, <1>10, <1>11, <2>1 DEF Next
<1> QED
  BY <1>13 DEF Goal

\* No more downloads than the cap run at once, however old the clock read their
\* count was taken with, and the NEXT window of an event is spent on the first
\* clips that close after it, none skipped (acquire_download_lease,
\* trigger_event and active_closing_protection).
THEOREM CountsAreKept == Spec => []CountsKept
<1>1. Init => CountInd
  <2>1. ASSUME Init PROVE {c \in Clips : Active(c, now)} = {}
    BY <2>1 DEF Init, Active, Unexpired
  <2>2. Init => LeaseCapHeld
    BY <2>1, FS_EmptySet, CatalogAssumption DEF LeaseCapHeld
  <2> QED
    BY <2>2 DEF Init, CountInd, WindowInv
<1>2. Inv /\ CountInd /\ [Next]_vars => CountInd'
  BY CapStep, WindowStep DEF CountInd
<1>3. Inv /\ CountInd => CountsKept
  <2> SUFFICES ASSUME Inv, CountInd PROVE NextWindowNotSkipped /\ SnapshotSpendsWindows
    BY DEF CountInd, CountsKept
  <2>1. NextWindowNotSkipped
    BY DEF CountInd, WindowInv, NextWindowNotSkipped, NextOf, Unclosed
  <2>2. SnapshotSpendsWindows
    BY DEF CountInd, WindowInv, SnapshotSpendsWindows, NoEvent, Snapped
  <2> QED
    BY <2>1, <2>2
<1> QED
  BY InvHolds, <1>1, <1>2, <1>3, PTL DEF Spec

-----------------------------------------------------------------------------
(* The catalog implements ClipStore *)

\* The store sees nothing when no lifecycle changes.
LEMMA SameStatus ==
    ASSUME \A c \in Clips : Status(lifecycle'[c]) = Status(lifecycle[c])
    PROVE  statusOf' = statusOf
BY DEF statusOf

\* The store sees no guard when no claim changes.
LEMMA SameGuarded == ASSUME claim' = claim PROVE guardedClips' = guardedClips
BY DEF guardedClips

\* A change of one row's lifecycle is the corresponding change of the store.
LEMMA ChangeStep ==
    ASSUME TypeOK, NEW c \in Clips, NEW l, lifecycle' = [lifecycle EXCEPT ![c] = l],
           claim' = claim
    PROVE  Store!Change(c, Status(lifecycle[c]), Status(l))
<1>1. statusOf[c] = Status(lifecycle[c])
  BY DEF statusOf
<1>2. statusOf' = [d \in Clips |-> Status(lifecycle'[d])]
  BY DEF statusOf
<1>3. lifecycle \in [Clips -> Lifecycles]
  BY DEF TypeOK
<1>4. \A d \in Clips : lifecycle'[d] = IF d = c THEN l ELSE lifecycle[d]
  BY <1>3
<1>5. statusOf' = [statusOf EXCEPT ![c] = Status(l)]
  <2>1. \A d \in Clips : Status(lifecycle'[d]) = IF d = c THEN Status(l) ELSE Status(lifecycle[d])
    BY <1>4
  <2>2. [statusOf EXCEPT ![c] = Status(l)] =
          [d \in Clips |-> IF d = c THEN Status(l) ELSE Status(lifecycle[d])]
    BY DEF statusOf
  <2> QED
    BY <1>2, <2>1, <2>2
<1> QED
  BY <1>1, <1>5, SameGuarded DEF Store!Change

\* Guarding clips that are open, kept or lost is a step of the store.
LEMMA GuardStep ==
    ASSUME TypeOK, NEW S \in SUBSET Clips, lifecycle' = lifecycle,
           \A c \in S : lifecycle[c] \in {"WRITING", "MISSING_SIDECAR", "FINALIZING", "FINALIZED"},
           \A c \in Clips : claim'[c] <=> (c \in S \/ claim[c])
    PROVE  Store!StoreNext
<1>1. statusOf' = statusOf
  BY SameStatus
<1>2. \A c \in S : statusOf[c] \in {"open", "kept", "lost"}
  BY DEF statusOf, Status
<1>3. guardedClips' = guardedClips \cup S
  BY DEF guardedClips
<1>4. Store!Guard(S)
  BY <1>1, <1>2, <1>3 DEF Store!Guard
<1> QED
  BY <1>4 DEF Store!StoreNext

\* Opening, closing and orphaning a clip are steps of the store.
LEMMA RefineRecording ==
    ASSUME Inv, Recording PROVE [Store!StoreNext]_<<statusOf, guardedClips>>
<1> TypeOK
  BY DEF Inv
<1>1. ASSUME NEW c \in Clips, RegisterWriting(c) PROVE Store!StoreNext
  <2>1. /\ lifecycle[c] = "NONE" /\ claim' = claim
        /\ lifecycle' = [lifecycle EXCEPT ![c] = "WRITING"]
    BY <1>1 DEF RegisterWriting, Registered
  <2>2. Store!Change(c, "none", "open")
    BY <2>1, ChangeStep DEF Status
  <2> QED
    BY <2>2 DEF Store!StoreNext
<1>2. ASSUME NEW c \in Clips, NEW n \in CloseNames, TakeSnapshot(c, n)
      PROVE  [Store!StoreNext]_<<statusOf, guardedClips>>
  <2>1. lifecycle' = lifecycle /\ lifecycle[c] = "WRITING"
    BY <1>2 DEF TakeSnapshot
  <2>2. claim' = [claim EXCEPT ![c] = claim[c] \/ WindowsOf(c) # {}]
    BY <1>2 DEF TakeSnapshot
  <2>3. CASE WindowsOf(c) = {}
    <3>1. claim' = claim
      BY <2>2, <2>3 DEF TypeOK
    <3> QED
      BY <2>1, <3>1, SameStatus, SameGuarded
  <2>4. CASE WindowsOf(c) # {}
    <3>1. \A d \in Clips : claim'[d] <=> (d \in {c} \/ claim[d])
      BY <2>2, <2>4 DEF TypeOK
    <3> QED
      BY <2>1, <3>1, GuardStep
  <2> QED
    BY <2>3, <2>4
<1>3. ASSUME NEW c \in Clips, RegisterFinalizing(c) PROVE Store!StoreNext
  <2>1. /\ lifecycle[c] = "WRITING" /\ claim' = claim
        /\ lifecycle' = [lifecycle EXCEPT ![c] = "FINALIZING"]
    BY <1>3 DEF RegisterFinalizing
  <2>2. Store!Change(c, "open", "kept")
    BY <2>1, ChangeStep DEF Status
  <2> QED
    BY <2>2 DEF Store!StoreNext
<1>4. ASSUME NEW c \in Clips, MarkOrphaned(c) PROVE Store!StoreNext
  <2>1. /\ lifecycle[c] = "WRITING" /\ claim' = claim
        /\ lifecycle' = [lifecycle EXCEPT ![c] = "MISSING_SIDECAR"]
    BY <1>4 DEF MarkOrphaned
  <2>2. Store!Change(c, "open", "lost")
    BY <2>1, ChangeStep DEF Status
  <2> QED
    BY <2>2 DEF Store!StoreNext
<1>5. ASSUME NEW c \in Clips, StageSidecar(c) \/ RetrySnapshot(c)
      PROVE  UNCHANGED <<statusOf, guardedClips>>
  <2>1. lifecycle' = lifecycle /\ claim' = claim
    BY <1>5 DEF StageSidecar, RetrySnapshot, rows
  <2> QED
    BY <2>1, SameStatus, SameGuarded
<1> QED
  BY <1>1, <1>2, <1>3, <1>4, <1>5 DEF Recording

\* reconcile_intent is invisible to the store except for the end of a deletion.
LEMMA RefineReconciling ==
    ASSUME Inv, Reconciling PROVE [Store!StoreNext]_<<statusOf, guardedClips>>
<1> TypeOK
  BY DEF Inv
<1>1. ASSUME CommitReconcile PROVE [Store!StoreNext]_<<statusOf, guardedClips>>
  <2>1. PICK c \in Clips : c = txn.clip
    BY <1>1 DEF CommitReconcile, TypeOK, Txns
  <2>2. claim' = claim /\ ~Idle(c)
    BY <1>1, <2>1 DEF CommitReconcile, Inv, CatalogInv, TxnInv
  <2>3. IntentFits(c)
    BY <2>2, PendingIntent
  <2>4. CASE ~Complete(c)
    BY <1>1, <2>1, <2>2, <2>4, SameStatus, SameGuarded DEF CommitReconcile
  <2>5. CASE Complete(c) /\ intent[c].kind = "DELETE"
    <3>1. lifecycle' = [lifecycle EXCEPT ![c] = "DELETED"] /\ lifecycle[c] = "DELETING"
      BY <1>1, <2>1, <2>3, <2>5 DEF CommitReconcile, CompleteIntent, IntentFits
    <3>2. Store!Change(c, "condemned", "removed")
      BY <2>2, <3>1, ChangeStep DEF Status
    <3> QED
      BY <3>2 DEF Store!StoreNext
  <2>6. CASE Complete(c) /\ intent[c].kind # "DELETE"
    <3>1. /\ lifecycle' = [lifecycle EXCEPT ![c] = "FINALIZED"]
          /\ lifecycle[c] \in {"FINALIZING", "FINALIZED"}
      BY <1>1, <2>1, <2>3, <2>6 DEF CommitReconcile, CompleteIntent, IntentFits
    <3>2. \A d \in Clips : Status(lifecycle'[d]) = Status(lifecycle[d])
      BY <3>1 DEF Status, TypeOK
    <3> QED
      BY <2>2, <3>2, SameStatus, SameGuarded
  <2> QED
    BY <2>4, <2>5, <2>6
<1>2. ASSUME \/ \E c \in Clips : BeginReconcile(c)
             \/ MoveMember
             \/ AbortReconcile
      PROVE  UNCHANGED <<statusOf, guardedClips>>
  <2>1. lifecycle' = lifecycle /\ claim' = claim
    BY <1>2 DEF BeginReconcile, MoveMember, AbortReconcile, rows
  <2> QED
    BY <2>1, SameStatus, SameGuarded
<1> QED
  BY <1>1, <1>2 DEF Reconciling

\* Requests are steps of the store or invisible.
LEMMA RefineRequests ==
    ASSUME Inv, Requests PROVE [Store!StoreNext]_<<statusOf, guardedClips>>
<1> TypeOK
  BY DEF Inv
<1>1. ASSUME NEW t \in Reads, NEW c \in Clips, PrepareProtect(c, t) PROVE Store!StoreNext
  <2>1. /\ lifecycle' = lifecycle /\ claim' = [claim EXCEPT ![c] = TRUE]
        /\ lifecycle[c] \notin {"NONE", "DELETING", "DELETED"}
    BY <1>1 DEF PrepareProtect, Registered
  <2>2. lifecycle[c] \in {"WRITING", "MISSING_SIDECAR", "FINALIZING", "FINALIZED"}
    BY <2>1 DEF TypeOK, Lifecycles
  <2>3. \A d \in Clips : claim'[d] <=> (d \in {c} \/ claim[d])
    BY <2>1 DEF TypeOK
  <2> QED
    BY <2>1, <2>2, <2>3, GuardStep
<1>2. ASSUME NEW t \in Reads, NEW c \in Clips, PrepareUnprotect(c, t) PROVE Store!StoreNext
  <2>1. /\ lifecycle' = lifecycle /\ claim' = [claim EXCEPT ![c] = FALSE]
        /\ lifecycle[c] = "FINALIZED"
    BY <1>2 DEF PrepareUnprotect
  <2>2. guardedClips' = guardedClips \ {c}
    BY <2>1 DEF guardedClips, TypeOK
  <2>3. statusOf[c] = "kept" /\ statusOf' = statusOf
    BY <2>1, SameStatus DEF statusOf, Status
  <2>4. Store!Unguard(c)
    BY <2>2, <2>3 DEF Store!Unguard
  <2> QED
    BY <2>4 DEF Store!StoreNext
<1>3. ASSUME NEW t \in Reads, NEW c \in Clips, Eligible(c, t), ReserveDelete(c)
      PROVE  Store!StoreNext
  <2>1. /\ lifecycle' = [lifecycle EXCEPT ![c] = "DELETING"] /\ claim' = claim
        /\ lifecycle[c] = "FINALIZED" /\ ~protected[c]
    BY <1>3 DEF ReserveDelete, Eligible
  <2>2. c \notin guardedClips
    BY <2>1 DEF guardedClips, Inv, CatalogInv, RowInv
  <2>3. Store!Change(c, "kept", "condemned")
    BY <2>1, ChangeStep DEF Status
  <2>4. Store!Condemn(c)
    BY <2>2, <2>3 DEF Store!Condemn
  <2> QED
    BY <2>4 DEF Store!StoreNext
<1>4. ASSUME NEW t \in Reads, NEW c \in Clips, PrepareDelete(c, t) PROVE Store!StoreNext
  BY <1>3, <1>4 DEF PrepareDelete
<1>5. ASSUME NEW t \in Reads, PrepareOldestDelete(t) PROVE Store!StoreNext
  BY <1>3, <1>5 DEF PrepareOldestDelete
<1>6. ASSUME NEW t \in Reads, NEW c \in Clips, NEW h \in Holders, AcquireLease(c, h, t)
      PROVE  UNCHANGED <<statusOf, guardedClips>>
  <2>1. lifecycle' = lifecycle /\ claim' = claim
    BY <1>6 DEF AcquireLease
  <2> QED
    BY <2>1, SameStatus, SameGuarded
<1>7. ASSUME NEW t \in Reads, NEW c \in Clips, NEW e \in Events, TriggerEvent(e, c, t)
      PROVE  Store!StoreNext
  <2> DEFINE targets == PreviousOf(c) \cup {c}
  <2>1. /\ lifecycle' = lifecycle /\ targets \in SUBSET Clips
        /\ \A d \in targets : lifecycle[d] \in {"WRITING", "FINALIZED"}
    BY <1>7 DEF TriggerEvent, PreviousOf
  <2>2. claim' = [d \in Clips |-> d \in targets \/ claim[d]]
    BY <1>7 DEF TriggerEvent
  <2> HIDE DEF targets
  <2>3. \A d \in Clips : claim'[d] <=> (d \in targets \/ claim[d])
    BY <2>2
  <2> QED
    BY <2>1, <2>3, GuardStep
<1>8. ASSUME NEW t \in Reads, ClearExpired(t) PROVE UNCHANGED <<statusOf, guardedClips>>
  <2>1. lifecycle' = lifecycle /\ claim' = claim
    BY <1>8 DEF ClearExpired
  <2> QED
    BY <2>1, SameStatus, SameGuarded
<1> QED
  BY <1>1, <1>2, <1>4, <1>5, <1>6, <1>7, <1>8 DEF Requests

\* All invariants of rows, pairs and downloads hold together, for every instance.
THEOREM CatalogIsSafe == Spec => []CatalogSafe
<1>1. TypeOK /\ PairStaysWhole /\ ClaimHonoured /\ DownloadFrozen /\ DirectoryTellsProtection
        => CatalogSafe
  BY DEF CatalogSafe
<1> QED
  BY TypeCorrect, PairsStayWhole, ClaimsHonoured, DownloadsFrozen, DirectoriesTellProtection,
     <1>1, PTL

\* Both guards of a step hold together, for every instance.
THEOREM StepsAreSafe == Spec => CatalogSteps
<1> QED
  BY OnlyReservedLost, SidecarsMatchRows DEF CatalogSteps

\* The catalog keeps the promise of ClipStore: every step of the rows, the
\* intents and the files is a step of a clip's life or invisible, and a clip
\* whose protection was accepted is never condemned.
THEOREM PromiseKept == Spec => KeepsPromise
<1>1. Init => Store!StoreInit
  BY DEF Init, statusOf, Store!StoreInit, guardedClips, Status
<1>2. ASSUME Inv, [Next]_vars PROVE [Store!StoreNext]_<<statusOf, guardedClips>>
  <2>1. ASSUME \/ \E c \in Clips : RegisterName(c)
               \/ \E h \in Holders : ReadApprovedPath(h) \/ ReleaseLease(h)
               \/ Tick \/ Crash \/ Reboot
               \/ \E f \in Foreign : ForeignAppears(f) \/ ForeignRemoved(f)
               \/ UNCHANGED vars
        PROVE  UNCHANGED <<statusOf, guardedClips>>
    <3>1. lifecycle' = lifecycle /\ claim' = claim
      BY <2>1 DEF RegisterName, ReadApprovedPath, ReleaseLease, Tick, Crash, Reboot,
                  ForeignAppears, ForeignRemoved, rows, vars
    <3> QED
      BY <3>1, SameStatus, SameGuarded
  <2> QED
    BY <1>2, <2>1, RefineRecording, RefineReconciling, RefineRequests DEF Next
<1>3. Inv /\ [Next]_vars => [Store!StoreNext]_<<statusOf, guardedClips>>
  BY <1>2
<1> QED
  BY InvHolds, <1>1, <1>3, PTL DEF Spec, KeepsPromise, Store!StoreSpec

=============================================================================
