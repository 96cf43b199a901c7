------------------------------ MODULE CardPlan ------------------------------
(***************************************************************************)
(* The offline planner of a card (provisioning/collector.py, layout.py,    *)
(* planner.py): a probe collects an observation, verify_layout judges it   *)
(* and the planner authors the ordered actions that turn a source image    *)
(* into a provisioned card, or none.  The version modelled executes        *)
(* nothing itself: its operator carries the reviewed actions out, may stop *)
(* after any of them, and starts again from a probe.  The four places that *)
(* compute the target geometry of a card are here side by side.            *)
(* Sizes are in sectors.                                                   *)
(***************************************************************************)
EXTENDS Integers, Sequences

CONSTANTS
  CardSizes, RootSizes,  \* total sectors of a card, root sizes an image may have
  RootStart, Alignment, RootTarget, MinimumCard, MinimumData, TrailingReserve,
  MaxStops               \* bound: how often a plan is left unfinished

ASSUME CardPlanConstants ==
  /\ CardSizes \subseteq Nat /\ RootSizes \subseteq Nat /\ MaxStops \in Nat
  /\ {RootStart, RootTarget, MinimumCard, TrailingReserve} \subseteq Nat
  /\ {Alignment, MinimumData} \subseteq Nat \ {0}

VARIABLES
  target,    \* the card in the reader
  probe,     \* the observation the operator holds, if any
  todo,      \* the planned actions not yet carried out
  stops

cpVars == <<target, probe, todo, stops>>

NoPartition == [start |-> 0, size |-> 0]
NoProbe == {}
NoLayout == [root |-> 0, p3 |-> NoPartition]

\* A flashed card.  The space behind the root may hold what an earlier use left
\* there: nothing, another file system or a complete old recording volume.
CpInit ==
  /\ target \in {[total |-> n, root |-> r, p3 |-> NoPartition, fs |-> v[1], uuid |-> v[2],
                  sentinel |-> v[2], marker |-> 0, made |-> 0, mounted |-> FALSE] :
                 n \in CardSizes, r \in RootSizes, v \in {<<"none", 0>>, <<"foreign", 0>>, <<"exfat", 1>>}}
  /\ probe = NoProbe /\ todo = <<>> /\ stops = 0

(***************************************************************************)
(* The target geometry.                                                    *)
(***************************************************************************)

AlignUp(n) == ((n + Alignment - 1) \div Alignment) * Alignment
AlignDown(n) == (n \div Alignment) * Alignment

\* layout.py: the bounds of the root and of the recording partition.
ComputeLayout(total) ==
  LET rootEnd == RootStart + RootTarget - 1
      first == AlignUp(rootEnd + 1)
      last == AlignDown(total - TrailingReserve - 1 + 1) - 1
  IN IF last < first \/ last - first + 1 < MinimumData THEN NoLayout
     ELSE [root |-> rootEnd - RootStart + 1, p3 |-> [start |-> first, size |-> last - first + 1]]

\* image_builder.py: the geometry promised for a capacity when an image is built.
CalculateTargetLayout(total, sourceRoot) ==
  LET rootEnd == RootStart + RootTarget - 1
      first == AlignUp(rootEnd + 1)
      last == AlignDown(total - TrailingReserve) - 1
  IN IF \/ total < MinimumCard \/ rootEnd < RootStart + sourceRoot - 1
        \/ last < first \/ last - first + 1 < MinimumData THEN NoLayout
     ELSE [root |-> RootTarget, p3 |-> [start |-> first, size |-> last - first + 1]]

ComputeGeometryUnreserved(total) ==
  LET first == AlignUp(RootStart + RootTarget)
      size == AlignDown(total) - first
  IN IF total < MinimumCard \/ size < MinimumData THEN NoLayout
     ELSE [root |-> RootTarget, p3 |-> [start |-> first, size |-> size]]

\* bootstrap.py: the geometry that the first boot writes on the card.
ComputeGeometry(total) ==
  LET first == AlignUp(RootStart + RootTarget)
      size == AlignDown(total - TrailingReserve) - first
  IN IF total < MinimumCard \/ size < MinimumData THEN NoLayout
     ELSE [root |-> RootTarget, p3 |-> [start |-> first, size |-> size]]

\* loopback.py: the geometry the regular-file harness rehearses.
GeometryFor(total) ==
  LET first == AlignUp(RootStart + RootTarget)
      last == AlignDown(total - TrailingReserve - 1 + 1) - 1
  IN IF last - first + 1 < MinimumData THEN NoLayout
     ELSE [root |-> RootTarget, p3 |-> [start |-> first, size |-> last - first + 1]]

(***************************************************************************)
(* Observation and verdict.                                                *)
(***************************************************************************)

\* What selects a device: its size and the fingerprint of its table, which
\* covers the bounds and the file systems of the partitions.
Identity(o) == <<o.total, o.root, o.p3, IF o.p3 = NoPartition THEN <<>> ELSE <<o.fs, o.uuid>> >>

\* The collector reads no marker; a probe of a mounted card can add them.
Observation(markers) ==
  [target EXCEPT !.marker = IF markers THEN @ ELSE 0, !.sentinel = IF markers THEN @ ELSE 0]

\* The card is not live, its partitions are those of the image, and a third one
\* is an exFAT volume and nothing else.
StructurallySound(o) ==
  /\ ~o.mounted /\ o.total >= MinimumCard
  /\ RootStart + o.root <= o.total
  /\ o.p3 = NoPartition => o.root \in RootSizes
  /\ o.p3 # NoPartition => o.fs = "exfat" /\ RootStart + o.root <= o.p3.start
  /\ o.root <= RootTarget /\ RootStart % Alignment = 0

\* A third partition counts only with the exact bounds and both identities.
ProvisionedExactly(o) ==
  /\ [root |-> o.root, p3 |-> o.p3] = ComputeLayout(o.total)
  /\ o.fs = "exfat" /\ o.marker = o.uuid /\ o.sentinel = o.uuid

VerifyLayout(o) ==
  IF ~StructurallySound(o) \/ ComputeLayout(o.total) = NoLayout THEN "REFUSED"
  ELSE IF o.p3 = NoPartition THEN "SOURCE_READY"
  ELSE IF ProvisionedExactly(o) THEN "ALREADY_PROVISIONED" ELSE "REFUSED"

CollectStorageObservation ==
  /\ probe' \in {{Observation(TRUE)}, {Observation(FALSE)}}
  /\ UNCHANGED <<target, todo, stops>>

\* Two sources of the collector disagree, or a command fails.
CollectorError == probe # NoProbe /\ probe' = NoProbe /\ UNCHANGED <<target, todo, stops>>

(***************************************************************************)
(* The plan.                                                               *)
(***************************************************************************)

SfdiskInput(o) == ComputeLayout(o.total)

Do(kind) == [kind |-> kind, arg |-> 0]

SourceActions(o) ==
  <<[kind |-> "backup_partition_table", arg |-> Identity(o)], Do("validate_partition_table_backup"),
    [kind |-> "write_partition_table", arg |-> SfdiskInput(o)], Do("verify_written_partition_table"),
    Do("reread_partition_table"), Do("check_root_filesystem"), Do("grow_root_filesystem"),
    Do("format_new_recording_filesystem"), Do("capture_recording_uuid"), Do("configure_uuid_mount"),
    Do("create_volume_layout"), Do("create_volume_sentinel"), Do("write_state_marker"),
    Do("controlled_reboot")>>

\* The plan is authored for the observation or for a fresh one of the same device.
AuthorProvisioningPlan ==
  /\ todo = <<>>
  /\ \E selected \in probe, current \in probe \union {Observation(TRUE)} :
       /\ Identity(current) = Identity(selected)
       /\ VerifyLayout(current) # "REFUSED"
       /\ todo' = IF VerifyLayout(current) = "ALREADY_PROVISIONED" THEN <<>> ELSE SourceActions(current)
  /\ UNCHANGED <<target, probe, stops>>

\* What an action does to the card.
Effect(a, c) ==
  CASE a.kind = "write_partition_table" -> [c EXCEPT !.root = a.arg.root, !.p3 = a.arg.p3]
    [] a.kind = "format_new_recording_filesystem" ->
         [c EXCEPT !.fs = "exfat", !.uuid = @ + 1, !.made = @ + 1, !.sentinel = 0]
    [] a.kind = "configure_uuid_mount" -> [c EXCEPT !.mounted = TRUE]
    [] a.kind = "create_volume_sentinel" -> [c EXCEPT !.sentinel = c.uuid]
    [] a.kind = "write_state_marker" -> [c EXCEPT !.marker = c.uuid]
    [] OTHER -> c

\* The operator types the phrase of the plan, which names the identity, before
\* the first action: a plan for another table is not carried out.
CarryOut ==
  /\ todo # <<>>
  /\ Head(todo).kind = "backup_partition_table" => Head(todo).arg = Identity(target)
  /\ target' = Effect(Head(todo), target) /\ todo' = Tail(todo)
  /\ UNCHANGED <<probe, stops>>

\* The plan is left where it stands; the card leaves the machine it was mounted in.
StopHere ==
  /\ stops < MaxStops
  /\ todo' = <<>> /\ target' = [target EXCEPT !.mounted = FALSE] /\ stops' = stops + 1
  /\ UNCHANGED probe

CpNext ==
  CollectStorageObservation \/ CollectorError \/ AuthorProvisioningPlan \/ CarryOut \/ StopHere

CpSpec == CpInit /\ [][CpNext]_cpVars

(***************************************************************************)
(* Correctness.                                                            *)
(***************************************************************************)

\* Whatever plans are begun, left and begun again, with fresh or stale
\* observations, a recording file system is made at most once, and only in a
\* partition with the computed bounds.
PlansFormatOnce ==
  /\ target.made <= 1
  /\ target.made = 1 => [root |-> target.root, p3 |-> target.p3] = ComputeLayout(target.total)

\* The planner recognizes its own result: a card on which a plan was carried out
\* to the marker is verified as provisioned, with nothing left to do.
PlanReachesItsVerdict ==
  target.marker # 0 /\ ~target.mounted => VerifyLayout(target) = "ALREADY_PROVISIONED"

\* The image builder, the first boot, the planner and the rehearsal harness agree
\* on the geometry of a card wherever they accept it, and it is aligned, disjoint
\* from the root, on the card and clear of the reserve.
GeometriesAgree ==
  LET image == CalculateTargetLayout(target.total, target.root)
      boot == ComputeGeometry(target.total)
      planner == ComputeLayout(target.total)
  IN /\ image # NoLayout => image = boot /\ image = planner /\ image = GeometryFor(target.total)
     /\ boot # NoLayout => boot = planner
     /\ planner # NoLayout =>
          /\ planner.p3.start % Alignment = 0 /\ (planner.p3.start + planner.p3.size) % Alignment = 0
          /\ planner.p3.start >= RootStart + RootTarget
          /\ planner.p3.start + planner.p3.size <= target.total - TrailingReserve

\* The planner and the three other places that compute a card's geometry are of one mind.
CardPlanInv == PlansFormatOnce /\ PlanReachesItsVerdict /\ GeometriesAgree
=============================================================================
