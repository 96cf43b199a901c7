----------------------- MODULE StorageRetentionProofs -----------------------
(***************************************************************************)
(* Proofs about StorageRetention for every capacity, every thresholds that *)
(* resolve() accepts and every limit on failures and steps.                *)
(***************************************************************************)
EXTENDS StorageRetention, SequenceTheorems, TLAPS

-----------------------------------------------------------------------------
(* Operators *)

\* What resolve() guarantees of the thresholds, without their arithmetic.
LEMMA Thresholds ==
    /\ StartBelow \in Nat /\ StopAt \in Nat /\ StartBelow < StopAt
    /\ EmergencyFree \in Nat /\ EmergencyFree < StartBelow /\ MinimumFree \in Nat
    /\ PairSize \in Nat \ {0} /\ MaxFailures \in Nat \ {0}
    /\ StartupSteps \in Nat \ {0} /\ PassSteps \in Nat \ {0}
    /\ WritesPerLook \in Nat
BY StorageAssumption

\* Taking one element out of a sequence leaves a sequence of the same elements.
LEMMA RemoveAtType ==
    ASSUME NEW S, NEW s \in Seq(S), NEW i \in 1..Len(s)
    PROVE  RemoveAt(s, i) \in Seq(S) /\ s[i] \in S
<1>0. Len(s) \in Nat /\ \A k \in 1..Len(s) : s[k] \in S
  BY LenProperties, ElementOfSeq
<1>1. SubSeq(s, 1, i - 1) \in Seq(S)
  <2>1. \A k \in 1..(i - 1) : s[k] \in S
    BY <1>0
  <2>2. 1 \in Int /\ i - 1 \in Int
    BY <1>0
  <2> QED
    BY <2>1, <2>2, SubSeqProperties
<1>2. SubSeq(s, i + 1, Len(s)) \in Seq(S)
  <2>1. \A k \in (i + 1)..Len(s) : s[k] \in S
    BY <1>0
  <2>2. i + 1 \in Int /\ Len(s) \in Int
    BY <1>0
  <2> QED
    BY <2>1, <2>2, SubSeqProperties
<1> QED
  BY <1>0, <1>1, <1>2, ConcatProperties DEF RemoveAt

\* It leaves one element less, each of which was there before.
LEMMA RemoveAtKeeps ==
    ASSUME NEW S, NEW s \in Seq(S), NEW i \in 1..Len(s)
    PROVE  /\ Len(RemoveAt(s, i)) = Len(s) - 1
           /\ \A k \in 1..Len(RemoveAt(s, i)) : \E j \in 1..Len(s) : RemoveAt(s, i)[k] = s[j]
<1> DEFINE A == SubSeq(s, 1, i - 1)
           B == SubSeq(s, i + 1, Len(s))
<1>0. Len(s) \in Nat /\ \A k \in 1..Len(s) : s[k] \in S
  BY LenProperties, ElementOfSeq
<1>1. /\ A \in Seq(S) /\ Len(A) = i - 1
      /\ \A k \in 1..(i - 1) : A[k] = s[k]
  <2>1. \A k \in 1..(i - 1) : s[k] \in S
    BY <1>0
  <2>2. 1 \in Int /\ i - 1 \in Int /\ i - 1 >= 0
    BY <1>0
  <2> QED
    BY <2>1, <2>2, SubSeqProperties
<1>2. /\ B \in Seq(S) /\ Len(B) = Len(s) - i
      /\ \A k \in 1..(Len(s) - i) : B[k] = s[i + k]
  <2>1. \A k \in (i + 1)..Len(s) : s[k] \in S
    BY <1>0
  <2>2. i + 1 \in Int /\ Len(s) \in Int /\ i <= Len(s)
    BY <1>0
  <2>3. /\ B \in Seq(S)
        /\ Len(B) = IF i + 1 <= Len(s) THEN Len(s) - (i + 1) + 1 ELSE 0
        /\ \A k \in 1..(Len(s) - (i + 1) + 1) : B[k] = s[(i + 1) + k - 1]
    BY <2>1, <2>2, SubSeqProperties
  <2>4. Len(B) = Len(s) - i
    BY <2>2, <2>3, <1>0
  <2>5. Len(s) - (i + 1) + 1 = Len(s) - i /\ \A k \in 1..(Len(s) - i) : (i + 1) + k - 1 = i + k
    BY <2>2, <1>0
  <2> QED
    BY <2>3, <2>4, <2>5
<1> HIDE DEF A, B
<1>3. /\ RemoveAt(s, i) = A \o B /\ Len(A \o B) = Len(s) - 1
      /\ \A k \in 1..(Len(s) - 1) : (A \o B)[k] = IF k <= i - 1 THEN A[k] ELSE B[k - (i - 1)]
  <2>1. /\ Len(A \o B) = Len(A) + Len(B)
        /\ \A k \in 1..(Len(A) + Len(B)) :
              (A \o B)[k] = IF k <= Len(A) THEN A[k] ELSE B[k - Len(A)]
    BY <1>1, <1>2, ConcatProperties
  <2>2. Len(A) + Len(B) = Len(s) - 1
    BY <1>0, <1>1, <1>2
  <2> QED
    BY <2>1, <2>2, <1>1 DEF RemoveAt, A, B
<1>4. ASSUME NEW k \in 1..(Len(s) - 1)
      PROVE  \E j \in 1..Len(s) : (A \o B)[k] = s[j]
  <2>1. CASE k <= i - 1
    <3>1. k \in 1..(i - 1) /\ k \in 1..Len(s)
      BY <2>1, <1>0
    <3>2. (A \o B)[k] = s[k]
      BY <2>1, <3>1, <1>1, <1>3
    <3> QED
      BY <3>1, <3>2
  <2>2. CASE k > i - 1
    <3> DEFINE m == k - (i - 1)
    <3>1. /\ m \in 1..(Len(s) - i) /\ i + m \in 1..Len(s) /\ ~(k <= i - 1)
      BY <2>2, <1>0
    <3>2. (A \o B)[k] = B[m] /\ B[m] = s[i + m]
      BY <3>1, <1>2, <1>3
    <3> QED
      BY <3>1, <3>2
  <2>3. (k <= i - 1) \/ (k > i - 1)
    BY <1>0
  <2> QED
    BY <2>1, <2>2, <2>3
<1> QED
  BY <1>3, <1>4

\* The controller, once restored, is in a mode that the latch stands for.
LEMMA RestoredFacts ==
    ASSUME TypeOK, ModeDurable
    PROVE  /\ Restored \in Modes
           /\ (latch = "set") <=> (Restored # "NORMAL")
BY DEF TypeOK, ModeDurable, Restored, Modes

\* The three answers of retention_mode.
LEMMA EvaluateFacts ==
    ASSUME free \in Nat, NEW mode \in Modes
    PROVE  /\ Evaluate(mode) \in Modes
           /\ Evaluate(mode) # "NORMAL" => free < StopAt
           /\ Evaluate(mode) = "NORMAL" => (mode = "NORMAL" \/ free >= StopAt)
           /\ mode = "NORMAL" /\ Evaluate(mode) # "NORMAL" => free < StartBelow
BY Thresholds DEF Evaluate, Modes

-----------------------------------------------------------------------------
(* The invariant *)

\* An empty volume and a process not yet started.
LEMMA InitInv == Init => StorageInv
<1> SUFFICES ASSUME Init PROVE StorageInv
  OBVIOUS
<1>1. TypeOK
  <2>1. free \in Nat /\ free = Capacity
    BY StorageAssumption DEF Init
  <2>2. pairs \in Seq(1..PairSize) /\ pending \in Seq(Deletions)
    BY EmptySeq DEF Init
  <2>3. /\ snap \in [mode : Modes \union {"NONE"}, directive : BOOLEAN, stale : BOOLEAN,
                     stop : BOOLEAN, sampled : BOOLEAN]
        /\ status \in [mode : Modes \union {"NONE"}, directive : BOOLEAN]
    BY DEF Init, Unbound, NoStatus
  <2> QED
    <3>1. /\ held \in Nat /\ open \in 0..PairSize /\ written \in 0..WritesPerLook
          /\ failures \in 0..MaxFailures /\ tries \in 0..(MaxFailures - 1) /\ budget \in Nat
          /\ target \in Nat
      BY Thresholds DEF Init
    <3> QED
      BY <2>1, <2>2, <2>3, <3>1, Zenon DEF Init, TypeOK
<1>2. ModeDurable
  BY DEF Init, ModeDurable, Unbound, NoStatus
<1>3. SweepInv
  BY DEF Init, SweepInv, Unbound, NoStatus
<1> QED
  BY <1>1, <1>2, <1>3 DEF StorageInv

\* The end of the process leaves the invariant as Init has it.
LEMMA GoneKeeps ==
    ASSUME StorageInv, ProcessGone, latch' = latch,
           free' \in Nat, held' \in Nat, open' \in 0..PairSize,
           pairs' \in Seq(1..PairSize), pending' \in Seq(Deletions)
    PROVE  StorageInv'
<1>1. TypeOK'
  <2>1. /\ snap' \in [mode : Modes \union {"NONE"}, directive : BOOLEAN, stale : BOOLEAN,
                      stop : BOOLEAN, sampled : BOOLEAN]
        /\ status' \in [mode : Modes \union {"NONE"}, directive : BOOLEAN]
    BY DEF ProcessGone, Unbound, NoStatus
  <2> QED
    <3>1. /\ written' \in 0..WritesPerLook /\ failures' \in 0..MaxFailures
          /\ tries' \in 0..(MaxFailures - 1) /\ budget' \in Nat
          /\ target' \in Nat
      BY Thresholds DEF ProcessGone
    <3> QED
      BY <2>1, <3>1, Zenon DEF StorageInv, TypeOK, ProcessGone
<1>2. ModeDurable'
  BY DEF ProcessGone, ModeDurable, Unbound, NoStatus
<1>3. SweepInv'
  BY DEF ProcessGone, SweepInv, Unbound, NoStatus
<1> QED
  BY <1>1, <1>2, <1>3 DEF StorageInv

\* A good answer of the monitor comes from a sample just taken; every other
\* answer is stale.  Both keep mode and latch together.
LEMMA LookKeeps ==
    ASSUME StorageInv, Monitoring
    PROVE  StorageInv'
<1> USE DEF StorageInv
<1>0. /\ Looking /\ AfterLook /\ fault \in {"none", "drift", "latch"}
      /\ tries \in 0..(MaxFailures - 1) /\ failures \in 0..MaxFailures /\ failures <= tries
      /\ at \in {"probe", "observe"}
  BY DEF Monitoring, LookStillFaulted, LookFails, LookDrifts, LookLatchRefused,
         LookLatchNotStored, LookSampled, AfterLook, Looking, TypeOK, SweepInv
<1>1. CASE LookSampled
  <2>1. /\ Restored \in Modes /\ ((latch = "set") <=> (Restored # "NORMAL"))
        /\ Evaluate(Restored) \in Modes
        /\ Evaluate(Restored) # "NORMAL" => free < StopAt
    BY RestoredFacts, EvaluateFacts DEF TypeOK
  <2>2. /\ failures' = 0 /\ fault' = "none" /\ controller' = Evaluate(Restored)
        /\ snap' = [mode |-> controller', directive |-> controller' # "NORMAL",
                    stale |-> FALSE, stop |-> FALSE, sampled |-> TRUE]
        /\ latch' = IF controller' = Restored THEN latch ELSE LatchFor(controller')
    BY <1>1 DEF LookSampled, Sampled, DirectiveFor
  <2>3. (latch' = "set") <=> (controller' # "NORMAL")
    BY <2>1, <2>2 DEF LatchFor
  <2>4. /\ latch' \in {"absent", "clear", "set"} /\ controller' \in Modes
        /\ controller' # "NONE"
    BY <2>1, <2>2 DEF LatchFor, Modes, TypeOK
  <2>5. /\ written' = 0 /\ tries' = 0 /\ at' = (IF at = "probe" THEN "enter" ELSE "sweep")
        /\ status' = (IF at = "probe" THEN status ELSE StatusOf(snap'))
        /\ UNCHANGED <<free, open, pairs, held, pending, stage, budget, target, runVars>>
    BY <1>0, <2>2 DEF AfterLook, volumeVars
  <2>6. /\ snap' \in [mode : Modes \union {"NONE"}, directive : BOOLEAN, stale : BOOLEAN,
                      stop : BOOLEAN, sampled : BOOLEAN]
        /\ status' \in [mode : Modes \union {"NONE"}, directive : BOOLEAN]
    BY <2>2, <2>4, <2>5 DEF StatusOf, TypeOK
  <2>7. TypeOK'
    BY <1>0, <2>2, <2>4, <2>5, <2>6, Thresholds DEF TypeOK, runVars
  <2>8. ModeDurable'
    BY <1>0, <2>2, <2>3, <2>5 DEF ModeDurable, StatusOf
  <2>9. SweepInv'
    <3>1. controller' # "NORMAL" => Short'
      BY <2>1, <2>2, <2>5, Thresholds DEF Short, TypeOK
    <3>2. /\ snap'.directive => controller' # "NORMAL"
          /\ snap'.mode = controller'
          /\ at' = "sweep" => status'.mode = snap'.mode /\ status'.directive = snap'.directive
      BY <1>0, <2>2, <2>5 DEF StatusOf
    <3> QED
      BY <1>0, <2>2, <2>4, <2>5, <3>1, <3>2 DEF SweepInv, runVars
  <2> QED
    BY <2>7, <2>8, <2>9
<1>2. CASE LookStillFaulted \/ LookFails \/ LookDrifts \/ LookLatchRefused
           \/ LookLatchNotStored
  <2>1. /\ snap'.stale /\ ~snap'.directive /\ snap'.mode \in Modes \union {"NONE"}
        /\ snap' \in [mode : Modes \union {"NONE"}, directive : BOOLEAN, stale : BOOLEAN,
                      stop : BOOLEAN, sampled : BOOLEAN]
        /\ latch' = latch
        /\ controller' \in {controller, Restored}
        /\ fault' \in {"none", "drift", "latch"}
        /\ failures' \in {failures, failures + 1, 0}
    <3> DEFINE M == Modes \union {"NONE"}
    <3>1. ASSUME NEW mode \in M, NEW stop \in BOOLEAN, snap' = Faulted(mode, stop)
          PROVE  /\ snap'.stale /\ ~snap'.directive /\ snap'.mode \in M
                 /\ snap' \in [mode : M, directive : BOOLEAN, stale : BOOLEAN,
                               stop : BOOLEAN, sampled : BOOLEAN]
      <4>1. snap.sampled \in BOOLEAN
        BY DEF TypeOK
      <4> QED
        BY <3>1, <4>1 DEF Faulted
    <3>2. controller \in M /\ Restored \in M /\ "NONE" \in M
      BY RestoredFacts DEF TypeOK
    <3>3. (failures' >= MaxFailures) \in BOOLEAN /\ TRUE \in BOOLEAN
      OBVIOUS
    <3>4. CASE LookStillFaulted
      BY <3>4, <3>1, <3>2, <3>3, <1>0 DEF LookStillFaulted, StillFaulted
    <3>5. CASE LookFails
      BY <3>5, <3>1, <3>2, <3>3, <1>0 DEF LookFails, ObservationFails
    <3>6. CASE LookDrifts
      BY <3>6, <3>1, <3>2, <3>3, <1>0 DEF LookDrifts, Drifts, LatchFault
    <3>7. CASE LookLatchRefused
      BY <3>7, <3>1, <3>2, <3>3, <1>0 DEF LookLatchRefused, LatchRefused, LatchFault
    <3>8. CASE LookLatchNotStored
      BY <3>8, <3>1, <3>2, <3>3, <1>0 DEF LookLatchNotStored, LatchNotStored, LatchFault
    <3> QED
      BY <1>2, <3>4, <3>5, <3>6, <3>7, <3>8
  <2>2. /\ controller' \in Modes \union {"NONE"}
        /\ controller' # "NONE" => ((latch = "set") <=> (controller' # "NORMAL"))
    BY <2>1, RestoredFacts DEF TypeOK, ModeDurable
  <2>3. /\ at' \in {"failed", at} /\ status' = status
        /\ at' = at => tries' = tries + 1 /\ tries + 1 < MaxFailures
        /\ at' # at => tries' = 0
        /\ UNCHANGED <<volumeVars, stage, budget, target, runVars, written>>
    BY <1>0, <2>1 DEF AfterLook, Looking, volumeVars
  <2>4. TypeOK'
    BY <1>0, <2>1, <2>2, <2>3, Thresholds DEF TypeOK, volumeVars, runVars
  <2>5. ModeDurable'
    BY <1>0, <2>1, <2>2, <2>3 DEF ModeDurable
  <2>6. SweepInv'
    BY <1>0, <2>1, <2>3, Thresholds DEF SweepInv, Short, Owned, volumeVars, runVars
  <2> QED
    BY <2>4, <2>5, <2>6
<1> QED
  BY <1>1, <1>2 DEF Monitoring

\* The steps of the sweep that leave the volume and the monitor alone.
LEMMA SweepStepKeeps ==
    ASSUME StorageInv,
           \/ EnterSweep \/ Replay \/ Scan \/ ReclamationFails \/ EmergencyDry
           \/ EndStartupSweep \/ StartRecording \/ RefuseStart \/ EndLoopSweep \/ Tick \/ LoopStops
    PROVE  StorageInv'
<1> USE DEF StorageInv
<1>1. CASE EnterSweep
  <2>1. /\ status' \in [mode : Modes \union {"NONE"}, directive : BOOLEAN]
        /\ status'.mode = snap.mode /\ status'.directive = snap.directive
    BY <1>1 DEF EnterSweep, StatusOf, TypeOK
  <2>2. budget' \in Nat
    BY <1>1, Thresholds DEF EnterSweep, TypeOK
  <2>3. TypeOK'
    BY <1>1, <2>1, <2>2 DEF EnterSweep, TypeOK, volumeVars, monitorVars, runVars
  <2>4. ModeDurable'
    BY <1>1, <2>1 DEF EnterSweep, ModeDurable, volumeVars, monitorVars, runVars
  <2>5. SweepInv'
    BY <1>1, <2>1 DEF EnterSweep, SweepInv, Short, Owned, volumeVars, monitorVars, runVars
  <2> QED
    BY <2>3, <2>4, <2>5
<1>2. CASE ReclamationFails \/ EmergencyDry \/ RefuseStart \/ EndLoopSweep \/ Tick \/ LoopStops
  <2>1. /\ UNCHANGED <<free, open, pairs, held, pending, latch, monitorVars, stage, tries,
                       budget, status, runVars, written>>
        /\ target' \in {target, 0}
        /\ \/ at' \in {"failed", "ended"} /\ at # "off"
           \/ at \in {"sweep", "scanned"} /\ at' = "wait"
           \/ at = "wait" /\ at' = "probe"
    BY <1>2 DEF ReclamationFails, EmergencyDry, RefuseStart, EndLoopSweep, Tick, LoopStops,
                NothingEligible, SweepOver, volumeVars
  <2>2. TypeOK'
    BY <2>1 DEF TypeOK, monitorVars, runVars
  <2>3. ModeDurable'
    BY <2>1 DEF ModeDurable, monitorVars
  <2>4. SweepInv'
    BY <2>1 DEF SweepInv, Short, Owned, TypeOK, monitorVars, runVars
  <2> QED
    BY <2>2, <2>3, <2>4
<1>5. CASE Replay
  <2>1. /\ UNCHANGED <<volumeVars, latch, monitorVars, stage, tries, budget, status, runVars,
                       written>>
        /\ at = "sweep" /\ at' = "unlink" /\ budget > 0
        /\ target' \in 1..Len(pending') /\ target' \in Nat
    <3>1. Len(pending) \in Nat
      BY LenProperties DEF TypeOK
    <3> QED
      BY <1>5, <3>1 DEF Replay, volumeVars
  <2>2. TypeOK'
    BY <2>1 DEF TypeOK, volumeVars, monitorVars, runVars
  <2>3. ModeDurable'
    BY <2>1 DEF ModeDurable, monitorVars
  <2>4. SweepInv'
    BY <2>1 DEF SweepInv, Short, Owned, TypeOK, volumeVars, monitorVars, runVars
  <2> QED
    BY <2>2, <2>3, <2>4
<1>6. CASE Scan
  <2>1. /\ UNCHANGED <<volumeVars, latch, monitorVars, stage, tries, budget, status, target,
                       runVars, written>>
        /\ at = "sweep" /\ at' = "scanned" /\ budget > 0 /\ status.directive
        /\ pending = <<>>
    BY <1>6 DEF Scan
  <2>2. TypeOK'
    BY <2>1 DEF TypeOK, volumeVars, monitorVars, runVars
  <2>3. ModeDurable'
    BY <2>1 DEF ModeDurable, monitorVars
  <2>4. Owned = {} /\ pending' = pending
    BY <2>1 DEF Owned, volumeVars
  <2>5. SweepInv'
    BY <2>1, <2>4 DEF SweepInv, Short, Owned, TypeOK, volumeVars, monitorVars, runVars
  <2> QED
    BY <2>2, <2>3, <2>5
<1>3. CASE EndStartupSweep
  <2>1. /\ UNCHANGED <<volumeVars, latch, monitorVars, tries, budget, status, target, runVars,
                       written>>
        /\ at \in {"sweep", "scanned"} /\ stage # "loop" /\ stage' = "second"
        /\ \/ at' = "failed"
           \/ at' = "enter"
           \/ at' = "start" /\ pending = <<>>
    BY <1>3 DEF EndStartupSweep, SweepOver, NothingEligible
  <2>2. TypeOK'
    BY <2>1 DEF TypeOK, volumeVars, monitorVars, runVars
  <2>3. ModeDurable'
    BY <2>1 DEF ModeDurable, monitorVars
  <2>4. SweepInv'
    BY <2>1 DEF SweepInv, Short, Owned, volumeVars, monitorVars, runVars
  <2> QED
    BY <2>2, <2>3, <2>4
<1>4. CASE StartRecording
  <2>1. TypeOK'
    BY <1>4 DEF StartRecording, TypeOK, volumeVars, monitorVars
  <2>2. ModeDurable'
    BY <1>4 DEF StartRecording, ModeDurable, monitorVars
  <2>3. SweepInv'
    BY <1>4 DEF StartRecording, SweepInv, Short, Owned, volumeVars, monitorVars
  <2> QED
    BY <2>1, <2>2, <2>3
<1> QED
  BY <1>1, <1>2, <1>3, <1>4, <1>5, <1>6

\* Committing a deletion, and carrying it out.
LEMMA DeletionKeeps ==
    ASSUME StorageInv, Reserve \/ Unlink
    PROVE  StorageInv'
<1> USE DEF StorageInv
<1>1. CASE Reserve
  <2> DEFINE d == [size |-> Head(pairs), own |-> TRUE]
  <2>1. /\ pairs' \in Seq(1..PairSize) /\ pending' \in Seq(Deletions)
        /\ target' \in 1..Len(pending') /\ target' \in Nat
    <3>1. Head(pairs) \in 1..PairSize /\ Tail(pairs) \in Seq(1..PairSize)
      BY <1>1, HeadTailProperties DEF Reserve, TypeOK
    <3>2. d \in Deletions
      BY <3>1 DEF Deletions
    <3>3. Append(pending, d) \in Seq(Deletions) /\ Len(Append(pending, d)) = Len(pending) + 1
      BY <3>2, AppendProperties DEF TypeOK
    <3>4. Len(pending) \in Nat
      BY LenProperties DEF TypeOK
    <3> QED
      BY <1>1, <3>1, <3>3, <3>4 DEF Reserve
  <2>2. TypeOK'
    BY <1>1, <2>1 DEF Reserve, TypeOK, monitorVars, runVars
  <2>3. ModeDurable'
    BY <1>1 DEF Reserve, ModeDurable, monitorVars
  <2>4. SweepInv'
    BY <1>1, <2>1 DEF Reserve, SweepInv, monitorVars, runVars
  <2> QED
    BY <2>2, <2>3, <2>4
<1>2. CASE Unlink
  <2>0. target \in 1..Len(pending) /\ at = "unlink" /\ budget > 0
    BY <1>2 DEF Unlink, Unlinked, SweepInv
  <2>1. /\ pending[target] \in Deletions /\ RemoveAt(pending, target) \in Seq(Deletions)
        /\ pending[target].size \in Nat
    <3>1. pending[target] \in Deletions /\ RemoveAt(pending, target) \in Seq(Deletions)
      BY <2>0, RemoveAtType DEF TypeOK
    <3> QED
      BY <3>1, Thresholds DEF Deletions
  <2>2. free' \in Nat /\ pending' \in Seq(Deletions)
    <3>1. /\ free' = free + pending[target].size /\ pending' = RemoveAt(pending, target)
          /\ free \in Nat
      BY <1>2 DEF Unlink, Unlinked, TypeOK
    <3> QED
      BY <2>1, <3>1
  <2>3. budget' \in Nat
    BY <1>2, <2>0 DEF Unlink, Unlinked, TypeOK
  <2>4. TypeOK'
    BY <1>2, <2>2, <2>3 DEF Unlink, Unlinked, TypeOK, monitorVars, runVars
  <2>5. ModeDurable'
    BY <1>2 DEF Unlink, Unlinked, ModeDurable, monitorVars
  <2>6. SweepInv'
    BY <1>2, <2>0 DEF Unlink, Unlinked, SweepInv, TypeOK, monitorVars, runVars
  <2> QED
    BY <2>4, <2>5, <2>6
<1> QED
  BY <1>1, <1>2

\* The recorder, its supervisor and the clients.
LEMMA RecordingKeeps ==
    ASSUME StorageInv, Recording
    PROVE  StorageInv'
<1> USE DEF StorageInv
<1>1. CASE Write
  <2>1. free' \in Nat /\ free' < free /\ open' \in 0..PairSize /\ written' \in 0..WritesPerLook
    BY <1>1, Thresholds DEF Write, TypeOK
  <2>2. TypeOK'
    BY <1>1, <2>1 DEF Write, TypeOK, monitorVars, taskVars, runVars
  <2>3. ModeDurable'
    BY <1>1 DEF Write, ModeDurable, monitorVars, taskVars
  <2>4. Short => Short'
    BY <1>1, <2>1, Thresholds DEF Write, Short, TypeOK, runVars
  <2>5. SweepInv'
    BY <1>1, <2>4 DEF Write, SweepInv, Owned, monitorVars, taskVars, runVars
  <2> QED
    BY <2>2, <2>3, <2>5
<1>2. CASE WriteFindsNoSpace
  <2>1. TypeOK'
    BY <1>2 DEF WriteFindsNoSpace, TypeOK, volumeVars, monitorVars, taskVars
  <2>2. ModeDurable'
    BY <1>2 DEF WriteFindsNoSpace, ModeDurable, monitorVars, taskVars
  <2>3. SweepInv'
    BY <1>2 DEF WriteFindsNoSpace, SweepInv, Short, Owned, volumeVars, monitorVars, taskVars
  <2> QED
    BY <2>1, <2>2, <2>3
<1>3. CASE Rotate
  <2>1. pairs' \in Seq(1..PairSize)
    <3>1. open \in 1..PairSize
      BY <1>3, Thresholds DEF Rotate, TypeOK
    <3> QED
      BY <1>3, <3>1 DEF Rotate, TypeOK
  <2>2. TypeOK'
    BY <1>3, <2>1, Thresholds DEF Rotate, TypeOK, monitorVars, taskVars, runVars
  <2>3. ModeDurable'
    BY <1>3 DEF Rotate, ModeDurable, monitorVars, taskVars
  <2>4. SweepInv'
    BY <1>3 DEF Rotate, SweepInv, Short, Owned, monitorVars, taskVars, runVars
  <2> QED
    BY <2>2, <2>3, <2>4
<1> QED
  BY <1>1, <1>2, <1>3 DEF Recording

\* The supervisor's steps keep the invariant.
LEMMA SupervisingKeeps ==
    ASSUME StorageInv, Supervising
    PROVE  StorageInv'
<1> USE DEF StorageInv
<1>1. CASE SafetyStop \/ BackendEnds
  <2>1. /\ recording /\ sup' \in {"escalate", "halting"}
        /\ sup' = "escalate" => backend = "enospc"
        /\ UNCHANGED <<volumeVars, latch, monitorVars, taskVars, short, recording, backend,
                       written>>
    BY <1>1 DEF SafetyStop, BackendEnds
  <2>2. TypeOK'
    BY <2>1 DEF TypeOK, volumeVars, monitorVars, taskVars
  <2>3. ModeDurable'
    BY <2>1 DEF ModeDurable, monitorVars, taskVars
  <2>4. SweepInv'
    BY <2>1 DEF SweepInv, Short, Owned, volumeVars, monitorVars, taskVars
  <2> QED
    BY <2>2, <2>3, <2>4
<1>2. CASE Escalate \/ EscalateNotStored
  <2>1. /\ sup = "escalate" /\ sup' = "halting" /\ backend' = "noted" /\ failures' = failures
        /\ UNCHANGED <<volumeVars, taskVars, short, recording, written>>
    BY <1>2 DEF Escalate, EscalateNotStored, Escalated, NoSpaceNoted, NoSpaceNotStored
  <2>2. recording /\ stage = "loop"
    BY <2>1 DEF SweepInv
  <2>3. snap.sampled \in BOOLEAN /\ controller \in Modes \union {"NONE"}
    BY DEF TypeOK
  <2>4. /\ snap' \in [mode : Modes \union {"NONE"}, directive : BOOLEAN, stale : BOOLEAN,
                      stop : BOOLEAN, sampled : BOOLEAN]
        /\ snap'.directive => latch' = "set"
        /\ fault' \in {"latch", fault}
        /\ controller' \in Modes \union {"NONE"}
        /\ latch' \in {latch, "set"}
        /\ controller' # "NONE" => ((latch' = "set") <=> (controller' # "NORMAL"))
    <3>1. CASE Escalate
      <4>1. snap' \in [mode : Modes \union {"NONE"}, directive : BOOLEAN, stale : BOOLEAN,
                       stop : BOOLEAN, sampled : BOOLEAN]
        BY <3>1, <2>3 DEF Escalate, NoSpaceNoted, DirectiveFor, Modes
      <4> QED
        BY <3>1, <4>1 DEF Escalate, NoSpaceNoted, Modes
    <3>2. CASE EscalateNotStored
      <4>1. /\ snap' \in [mode : Modes \union {"NONE"}, directive : BOOLEAN, stale : BOOLEAN,
                          stop : BOOLEAN, sampled : BOOLEAN]
            /\ ~snap'.directive
        BY <3>2, <2>3 DEF EscalateNotStored, NoSpaceNotStored, LatchFault, Faulted
      <4> QED
        BY <3>2, <4>1, <2>3 DEF EscalateNotStored, NoSpaceNotStored, LatchFault, ModeDurable
    <3> QED
      BY <1>2, <3>1, <3>2
  <2>5. TypeOK'
    BY <2>1, <2>4 DEF TypeOK, volumeVars, taskVars
  <2>6. ModeDurable'
    BY <2>1, <2>4 DEF ModeDurable, taskVars
  <2>7. SweepInv'
    BY <2>1, <2>2, <2>4 DEF SweepInv, Short, Owned, volumeVars, taskVars
  <2> QED
    BY <2>5, <2>6, <2>7
<1>3. CASE StopRecorder
  <2>1. open # 0 => open \in 1..PairSize
    BY Thresholds DEF TypeOK
  <2>2. pairs' \in Seq(1..PairSize) /\ held' \in Nat
    <3>1. open # 0 => Append(pairs, open) \in Seq(1..PairSize)
      BY <2>1 DEF TypeOK
    <3>2. pairs' \in Seq(1..PairSize)
      BY <1>3, <3>1 DEF StopRecorder, TypeOK
    <3>3. held' \in Nat
      BY <1>3, Thresholds DEF StopRecorder, TypeOK
    <3> QED
      BY <3>2, <3>3
  <2>3. open' \in 0..PairSize /\ free' \in Nat /\ pending' \in Seq(Deletions) /\ latch' = latch
    BY <1>3, Thresholds DEF StopRecorder, TypeOK
  <2> QED
    BY <1>3, <2>2, <2>3, GoneKeeps DEF StopRecorder
<1>4. CASE StartupFailed
  <2>1. /\ ProcessGone /\ latch' = latch /\ free' \in Nat /\ held' \in Nat
        /\ open' \in 0..PairSize
        /\ pairs' \in Seq(1..PairSize) /\ pending' \in Seq(Deletions)
    BY <1>4 DEF StartupFailed, TypeOK, volumeVars
  <2> QED
    BY <2>1, GoneKeeps
<1> QED
  BY <1>1, <1>2, <1>3, <1>4 DEF Supervising

\* The steps of the supervisor's clients keep the invariant.
LEMMA ClientsKeep ==
    ASSUME StorageInv, Clients
    PROVE  StorageInv'
<1> USE DEF StorageInv
<1>1. CASE AskedToStop
  <2>1. TypeOK'
    BY <1>1 DEF AskedToStop, TypeOK, volumeVars, monitorVars, taskVars
  <2>2. ModeDurable'
    BY <1>1 DEF AskedToStop, ModeDurable, monitorVars, taskVars
  <2>3. SweepInv'
    BY <1>1 DEF AskedToStop, SweepInv, Short, Owned, volumeVars, monitorVars, taskVars
  <2> QED
    BY <2>1, <2>2, <2>3
<1>2. CASE Hold \/ Unhold \/ AskDelete
  <2>1. /\ recording
        /\ UNCHANGED <<free, open, latch, monitorVars, taskVars, runVars, written>>
    BY <1>2 DEF Hold, Unhold, AskDelete
  <2>2. pairs' \in Seq(1..PairSize) /\ held' \in Nat /\ pending' \in Seq(Deletions)
    <3>1. CASE Hold
      <4>1. PICK i \in 1..Len(pairs) : pairs' = RemoveAt(pairs, i) /\ held' = held + pairs[i]
        BY <3>1 DEF Hold
      <4>2. RemoveAt(pairs, i) \in Seq(1..PairSize) /\ pairs[i] \in 1..PairSize
        BY RemoveAtType DEF TypeOK
      <4> QED
        BY <3>1, <4>1, <4>2, Thresholds DEF Hold, TypeOK
    <3>2. CASE Unhold
      <4>1. held' \in Nat /\ pending' \in Seq(Deletions)
        BY <3>2, Thresholds DEF Unhold, TypeOK
      <4>2. <<PairSize>> \in Seq(1..PairSize)
        BY Thresholds
      <4>3. <<PairSize>> \o pairs \in Seq(1..PairSize)
        BY <4>2, ConcatProperties DEF TypeOK
      <4> QED
        BY <3>2, <4>1, <4>3 DEF Unhold
    <3>3. CASE AskDelete
      <4>1. PICK i \in 1..Len(pairs) :
               /\ pairs' = RemoveAt(pairs, i)
               /\ pending' = Append(pending, [size |-> pairs[i], own |-> FALSE])
        BY <3>3 DEF AskDelete
      <4>2. RemoveAt(pairs, i) \in Seq(1..PairSize) /\ pairs[i] \in 1..PairSize
        BY RemoveAtType DEF TypeOK
      <4>3. [size |-> pairs[i], own |-> FALSE] \in Deletions
        BY <4>2 DEF Deletions
      <4> QED
        BY <3>3, <4>1, <4>2, <4>3, AppendProperties DEF AskDelete, TypeOK
    <3> QED
      BY <1>2, <3>1, <3>2, <3>3
  <2>6. /\ at = "unlink" => target \in 1..Len(pending')
        /\ Owned = {} => Owned' = {}
    <3>1. CASE pending' = pending
      BY <3>1 DEF SweepInv, Owned
    <3>2. CASE AskDelete
      <4>1. PICK d \in Deletions : pending' = Append(pending, d) /\ ~d.own
        <5>1. PICK i \in 1..Len(pairs) :
                 pending' = Append(pending, [size |-> pairs[i], own |-> FALSE])
          BY <3>2 DEF AskDelete
        <5>2. [size |-> pairs[i], own |-> FALSE] \in Deletions
          BY RemoveAtType DEF TypeOK, Deletions
        <5> QED
          BY <5>1, <5>2
      <4>2. /\ Len(pending) \in Nat /\ Len(pending') = Len(pending) + 1
            /\ \A k \in 1..Len(pending) : pending'[k] = pending[k]
            /\ pending'[Len(pending) + 1] = d
        BY <4>1, AppendProperties, LenProperties DEF TypeOK
      <4> QED
        BY <4>1, <4>2 DEF SweepInv, Owned
    <3> QED
      BY <1>2, <3>1, <3>2 DEF Hold, Unhold
  <2>3. TypeOK'
    BY <2>1, <2>2 DEF TypeOK, monitorVars, taskVars, runVars
  <2>4. ModeDurable'
    BY <2>1 DEF ModeDurable, monitorVars, taskVars
  <2>5. SweepInv'
    BY <2>1, <2>6 DEF SweepInv, Short, monitorVars, taskVars, runVars
  <2> QED
    BY <2>3, <2>4, <2>5
<1> QED
  BY <1>1, <1>2 DEF Clients

\* Every step keeps the invariant.
LEMMA StepKeeps ==
    ASSUME StorageInv, [Next]_vars
    PROVE  StorageInv'
<1>1. CASE Boot
  <2> USE DEF StorageInv
  <2>1. at = "off" /\ ~recording /\ failures = 0 /\ sup = "watch"
    BY <1>1 DEF Boot, SweepInv
  <2>2. short' \in BOOLEAN
    BY <1>1 DEF Boot
  <2>3. TypeOK'
    BY <1>1, <2>2 DEF Boot, TypeOK, volumeVars, monitorVars
  <2>4. ModeDurable'
    BY <1>1 DEF Boot, ModeDurable, monitorVars
  <2>5. SweepInv'
    BY <1>1, <2>1 DEF Boot, SweepInv, TypeOK, volumeVars, monitorVars
  <2> QED
    BY <2>3, <2>4, <2>5
<1>2. CASE Crash
  <2>1. /\ ProcessGone /\ latch' = latch /\ free' \in Nat /\ held' \in Nat
        /\ open' \in 0..PairSize
        /\ pairs' \in Seq(1..PairSize) /\ pending' \in Seq(Deletions)
    BY <1>2, Thresholds DEF Crash, StorageInv, TypeOK
  <2> QED
    BY <2>1, GoneKeeps
<1>3. CASE Monitoring
  BY <1>3, LookKeeps
<1>4. CASE Sweeping
  BY <1>4, SweepStepKeeps, DeletionKeeps DEF Sweeping
<1>5. CASE Recording
  BY <1>5, RecordingKeeps
<1>6. CASE Supervising
  BY <1>6, SupervisingKeeps
<1>7. CASE Clients
  BY <1>7, ClientsKeep
<1>8. CASE UNCHANGED vars
  <2> USE DEF StorageInv
  <2>1. TypeOK'
    BY <1>8 DEF TypeOK, vars, volumeVars, monitorVars, taskVars, runVars
  <2>2. ModeDurable' /\ SweepInv'
    BY <1>8 DEF ModeDurable, SweepInv, Short, Owned, vars, volumeVars, monitorVars, taskVars, runVars
  <2> QED
    BY <2>1, <2>2
<1> QED
  BY <1>1, <1>2, <1>3, <1>4, <1>5, <1>6, <1>7, <1>8 DEF Next

\* The inductive invariant of the storage task holds at every step and every await.
THEOREM InvHolds == Spec => []StorageInv
<1>1. StorageInv /\ [Next]_vars => StorageInv'
  BY StepKeeps
<1> QED
  BY InitInv, <1>1, PTL DEF Spec

-----------------------------------------------------------------------------
(* The theorems *)

\* Every variable keeps its range: no sweep passes its budget and no look fails
\* once more than the limit.
THEOREM StorageTypes == Spec => []TypeOK
<1>1. StorageInv => TypeOK
  BY DEF StorageInv
<1> QED
  BY InvHolds, <1>1, PTL

\* The monitor never shows a mode or a directive that the latch has not stored,
\* whatever fails and whenever the process dies.
THEOREM DurableMode == Spec => []ModeDurable
<1>1. StorageInv => ModeDurable
  BY DEF StorageInv
<1> QED
  BY InvHolds, <1>1, PTL

\* The places of the sweep know what SweepInv says.
THEOREM SweepKnows == Spec => []SweepInv
<1>1. StorageInv => SweepInv
  BY DEF StorageInv
<1> QED
  BY InvHolds, <1>1, PTL

\* Only Reserve commits a deletion for a sweep.
LEMMA OnlyReserve ==
    ASSUME StorageInv, [Next]_vars, NewDeletion
    PROVE  Reserve
<1>1. pending \in Seq(Deletions) /\ Len(pending) \in Nat
  BY LenProperties DEF StorageInv, TypeOK
<1>2. pending' # pending /\ at' # at
  BY <1>1 DEF NewDeletion
<1>3. ~Unlink
  <2> SUFFICES ASSUME Unlink PROVE FALSE
    OBVIOUS
  <2>1. Len(pending') = Len(pending) - 1
    BY <1>1, RemoveAtKeeps DEF Unlink, Unlinked, StorageInv, SweepInv, TypeOK
  <2> QED
    BY <1>1, <2>1 DEF NewDeletion
<1>4. ~(Boot \/ Crash) /\ ~Monitoring /\ ~Recording /\ ~Supervising /\ ~Clients /\ vars' # vars
  <2>1. ~(Boot \/ Crash) /\ vars' # vars
    BY <1>2 DEF Boot, Crash, vars, volumeVars
  <2>2. ~Monitoring
    BY <1>2 DEF Monitoring, LookStillFaulted, LookFails, LookDrifts, LookLatchRefused,
                LookLatchNotStored, LookSampled, AfterLook, volumeVars
  <2>3. ~Recording
    BY <1>2 DEF Recording, Write, WriteFindsNoSpace, Rotate, volumeVars
  <2>4. ~Supervising
    BY <1>2 DEF Supervising, SafetyStop, BackendEnds, Escalate, EscalateNotStored, Escalated,
                StopRecorder, StartupFailed, volumeVars
  <2>5. ~Clients
    BY <1>2 DEF Clients, AskedToStop, Hold, Unhold, AskDelete, volumeVars,
                taskVars
  <2> QED
    BY <2>1, <2>2, <2>3, <2>4, <2>5
<1>5. Sweeping
  BY <1>4 DEF Next
<1> QED
  BY <1>2, <1>3, <1>5 DEF Sweeping, EnterSweep, Replay, Scan, ReclamationFails,
       EmergencyDry, EndStartupSweep, StartRecording, RefuseStart, EndLoopSweep, Tick, LoopStops, volumeVars

\* A sweep commits a deletion only while the volume is short of the high
\* threshold, for every capacity and however the writer interleaves.
THEOREM DeletesOnlyShort == Spec => ReserveOnlyShort
<1>1. StorageInv /\ [Next]_vars => [NewDeletion => Short]_vars
  <2> SUFFICES ASSUME StorageInv, [Next]_vars, NewDeletion PROVE Short
    OBVIOUS
  <2>1. Reserve
    BY OnlyReserve
  <2> QED
    BY <2>1 DEF Reserve, StorageInv, SweepInv
<1> QED
  BY InvHolds, <1>1, PTL DEF Spec, ReserveOnlyShort

\* A sweep commits no deletion on the word of a monitor that cannot see the
\* volume or sees another one.
THEOREM DeletesOnlySeen == Spec => FailClosed
<1>1. StorageInv /\ [Next]_vars => [NewDeletion => failures = 0 /\ fault # "drift"]_vars
  <2> SUFFICES ASSUME StorageInv, [Next]_vars, NewDeletion
               PROVE  failures = 0 /\ fault # "drift"
    OBVIOUS
  <2>1. Reserve
    BY OnlyReserve
  <2> QED
    BY <2>1 DEF Reserve, StorageInv, SweepInv
<1> QED
  BY InvHolds, <1>1, PTL DEF Spec, FailClosed

\* The camera opens only after every committed deletion is finished and, if the
\* reserve was exhausted, with the volume back at the high threshold.
THEOREM OpensRecovered == Spec => StartsRecovered
<1> DEFINE Opens == ~recording /\ recording'
           Ready == /\ pending = <<>>
                    /\ fault = "none" /\ controller # "NONE"
                    /\ short => controller = "NORMAL"
<1>1. StorageInv /\ [Next]_vars => [Opens => Ready]_vars
  <2> SUFFICES ASSUME StorageInv, [Next]_vars, Opens PROVE Ready
    OBVIOUS
  <2>1. recording' # recording /\ recording' # FALSE
    OBVIOUS
  <2>2. ~(Boot \/ Crash) /\ vars' # vars
    BY <2>1 DEF Boot, Crash, ProcessGone, vars, runVars
  <2>3. ~Monitoring
    BY <2>1 DEF Monitoring, LookStillFaulted, LookFails, LookDrifts, LookLatchRefused,
                LookLatchNotStored, LookSampled, AfterLook, runVars
  <2>4. ~Recording /\ ~Clients
    BY <2>1 DEF Recording, Write, WriteFindsNoSpace, Rotate, runVars, Clients, AskedToStop,
                Hold, Unhold, AskDelete
  <2>5. ~Supervising
    BY <2>1 DEF Supervising, SafetyStop, BackendEnds, Escalate, EscalateNotStored, Escalated,
                StopRecorder, StartupFailed, ProcessGone
  <2>6. StartRecording
    BY <2>1, <2>2, <2>3, <2>4, <2>5 DEF Next, Sweeping, EnterSweep, Replay, Scan, Reserve,
       Unlink, Unlinked, ReclamationFails, EmergencyDry, EndStartupSweep, RefuseStart, EndLoopSweep, Tick,
       LoopStops, runVars
  <2> QED
    BY <2>6 DEF StartRecording, MayStart, StorageInv, SweepInv
<1> QED
  BY InvHolds, <1>1, PTL DEF Spec, StartsRecovered

-----------------------------------------------------------------------------
(* Refinement of RetentionPolicy *)

\* A step that changes none of what the policy sees.
LEMMA Unseen ==
    ASSUME free' = free, backend' = backend, latch' = latch, pending' = pending
    PROVE  [Policy!Next]_(Policy!vars)
BY DEF Policy!vars

\* The process may end with a write failure unreported, never with another
\* latch or another list of deletions.
LEMMA GoneForgets ==
    ASSUME ProcessGone, free' = free, latch' = latch, pending' = pending
    PROVE  [Policy!Next]_(Policy!vars)
BY DEF ProcessGone, Policy!Next, Policy!Forget, Policy!vars

\* A look at the volume is a step of the latch or none.
LEMMA RefineLook ==
    ASSUME StorageInv, Monitoring
    PROVE  [Policy!Next]_(Policy!vars)
<1>1. free' = free /\ backend' = backend /\ pending' = pending
  BY DEF Monitoring, LookStillFaulted, LookFails, LookDrifts, LookLatchRefused,
         LookLatchNotStored, LookSampled, AfterLook, volumeVars, runVars
<1>2. CASE LookSampled
  <2>1. /\ Restored \in Modes /\ ((latch = "set") <=> (Restored # "NORMAL"))
        /\ free \in Nat
    BY RestoredFacts DEF StorageInv, TypeOK
  <2>2. /\ Evaluate(Restored) = "NORMAL" => (Restored = "NORMAL" \/ free >= StopAt)
        /\ Restored = "NORMAL" /\ Evaluate(Restored) # "NORMAL" => free < StartBelow
    BY <2>1, EvaluateFacts
  <2>3. (latch' = "set") <=> (Evaluate(Restored) # "NORMAL")
    <3>1. /\ controller' = Evaluate(Restored)
          /\ latch' = IF controller' = Restored THEN latch ELSE LatchFor(controller')
      BY <1>2 DEF LookSampled, Sampled
    <3> QED
      BY <2>1, <3>1 DEF LatchFor
  <2>4. CASE (latch' = "set") <=> (latch = "set")
    <3>1. (latch' = "set") = (latch = "set")
      BY <2>4
    <3> QED
      BY <1>1, <3>1 DEF Policy!vars
  <2>5. CASE latch = "set" /\ latch' # "set"
    <3>1. free >= StopAt
      BY <2>1, <2>2, <2>3, <2>5
    <3> QED
      <4>1. (latch' = "set") = FALSE
        BY <2>5
      <4> QED
        BY <1>1, <4>1, <3>1 DEF Policy!Next, Policy!Unlatch
  <2>6. CASE latch # "set" /\ latch' = "set"
    <3>1. free < StartBelow
      BY <2>1, <2>2, <2>3, <2>6
    <3> QED
      BY <1>1, <2>6, <3>1 DEF Policy!Next, Policy!Latch
  <2> QED
    BY <2>4, <2>5, <2>6
<1>3. CASE LookStillFaulted \/ LookFails \/ LookDrifts \/ LookLatchRefused
           \/ LookLatchNotStored
  <2>1. latch' = latch
    BY <1>3 DEF LookStillFaulted, LookFails, LookDrifts, LookLatchRefused,
         LookLatchNotStored, StillFaulted, ObservationFails, Drifts, LatchRefused,
         LatchNotStored
  <2> QED
    BY <1>1, <2>1, Unseen
<1> QED
  BY <1>2, <1>3 DEF Monitoring

\* A sweep commits with the latch set and none of its own outstanding, whatever
\* a client commits between its scan and its transaction, and finishes what is
\* committed.
LEMMA RefineSweep ==
    ASSUME StorageInv, Sweeping
    PROVE  [Policy!Next]_(Policy!vars)
<1>1. CASE Reserve
  <2>1. latch = "set" /\ pending' = Append(pending, [size |-> Head(pairs), own |-> TRUE])
    BY <1>1 DEF Reserve, StorageInv, ModeDurable, SweepInv
  <2>2. Head(pairs) \in 1..PairSize
    BY <1>1, HeadTailProperties DEF Reserve, StorageInv, TypeOK
  <2>3. free' = free /\ backend' = backend /\ latch' = latch
    BY <1>1 DEF Reserve, runVars
  <2>4. \A i \in 1..Len(pending) : ~pending[i].own
    BY <1>1 DEF Reserve, StorageInv, SweepInv, Owned
  <2> QED
    BY <2>1, <2>2, <2>3, <2>4 DEF Policy!Next, Policy!Doom
<1>2. CASE Unlink
  <2>1. /\ target \in 1..Len(pending) /\ free' = free + pending[target].size
        /\ pending' = RemoveAt(pending, target) /\ backend' = backend /\ latch' = latch
    BY <1>2 DEF Unlink, Unlinked, runVars, StorageInv, SweepInv
  <2> QED
    BY <2>1 DEF Policy!Next, Policy!Finish, Policy!RemoveAt, RemoveAt
<1>3. CASE \/ EnterSweep \/ Replay \/ Scan \/ ReclamationFails \/ EmergencyDry
           \/ EndStartupSweep \/ StartRecording \/ RefuseStart \/ EndLoopSweep \/ Tick
           \/ LoopStops
  <2>1. free' = free /\ backend' = backend /\ latch' = latch /\ pending' = pending
    BY <1>3 DEF EnterSweep, Replay, Scan, ReclamationFails, EmergencyDry, EndStartupSweep,
         StartRecording, RefuseStart, EndLoopSweep, Tick, LoopStops, volumeVars, runVars
  <2> QED
    BY <2>1, Unseen
<1> QED
  BY <1>1, <1>2, <1>3 DEF Sweeping

\* The recorder uses space or finds none.
LEMMA RefineRecording ==
    ASSUME StorageInv, Recording
    PROVE  [Policy!Next]_(Policy!vars)
<1>1. CASE Write
  <2>1. free' \in Nat /\ free' <= free
    BY <1>1 DEF Write, StorageInv, TypeOK
  <2>2. backend' = backend /\ latch' = latch /\ pending' = pending
    BY <1>1 DEF Write, runVars
  <2> QED
    BY <2>1, <2>2 DEF Policy!Next, Policy!Consume
<1>2. CASE WriteFindsNoSpace
  <2>1. /\ free' = free /\ free \in Nat /\ latch' = latch /\ pending' = pending
        /\ backend' = "enospc"
    BY <1>2 DEF WriteFindsNoSpace, volumeVars, StorageInv, TypeOK
  <2> QED
    <3>1. (backend' = "enospc") = TRUE
      BY <2>1
    <3>2. free' <= free /\ free' \in Nat
      BY <2>1
    <3> QED
      BY <2>1, <3>1, <3>2 DEF Policy!Next, Policy!Consume
<1>3. CASE Rotate
  BY <1>3, Unseen DEF Rotate, runVars
<1> QED
  BY <1>1, <1>2, <1>3 DEF Recording

\* A full volume is latched, or forgotten when it cannot be.
LEMMA RefineSupervising ==
    ASSUME StorageInv, Supervising
    PROVE  [Policy!Next]_(Policy!vars)
<1>1. CASE SafetyStop \/ BackendEnds
  BY <1>1, Unseen DEF SafetyStop, BackendEnds, volumeVars
<1>2. CASE Escalate
  <2>1. /\ free' = free /\ pending' = pending /\ latch' = "set" /\ backend' = "noted"
        /\ sup = "escalate"
    BY <1>2 DEF Escalate, NoSpaceNoted, Escalated, volumeVars
  <2>2. (latch' = "set") = TRUE /\ (backend' = "enospc") = FALSE
    BY <2>1
  <2>3. backend = "enospc"
    BY <2>1 DEF StorageInv, SweepInv
  <2> QED
    BY <2>1, <2>2, <2>3 DEF Policy!Next, Policy!Latch
<1>3. CASE EscalateNotStored
  <2>1. /\ free' = free /\ pending' = pending /\ latch' = latch /\ backend' = "noted"
    BY <1>3 DEF EscalateNotStored, NoSpaceNotStored, Escalated, volumeVars
  <2>2. (backend' = "enospc") = FALSE
    BY <2>1
  <2> QED
    BY <2>1, <2>2 DEF Policy!Next, Policy!Forget
<1>4. CASE StopRecorder \/ StartupFailed
  BY <1>4, GoneForgets DEF StopRecorder, StartupFailed, volumeVars
<1> QED
  BY <1>1, <1>2, <1>3, <1>4 DEF Supervising

\* A client's deletion is committed at any time.
LEMMA RefineClients ==
    ASSUME StorageInv, Clients
    PROVE  [Policy!Next]_(Policy!vars)
<1>1. CASE AskedToStop \/ Hold \/ Unhold
  BY <1>1, Unseen DEF AskedToStop, Hold, Unhold, volumeVars, runVars
<1>2. CASE AskDelete
  <2>1. PICK i \in 1..Len(pairs) :
           pending' = Append(pending, [size |-> pairs[i], own |-> FALSE])
    BY <1>2 DEF AskDelete
  <2>2. pairs[i] \in 1..PairSize
    BY RemoveAtType DEF StorageInv, TypeOK
  <2>3. free' = free /\ backend' = backend /\ latch' = latch
    BY <1>2 DEF AskDelete, runVars
  <2> QED
    BY <2>1, <2>2, <2>3 DEF Policy!Next, Policy!Ask
<1> QED
  BY <1>1, <1>2 DEF Clients

\* All three guards of a step hold together, for every instance.
THEOREM StepsGuarded == Spec => StorageSteps
<1> QED
  BY DeletesOnlyShort, DeletesOnlySeen, OpensRecovered DEF StorageSteps

\* The latch and the pending deletions implement RetentionPolicy: the process
\* may crash at any step, lose the monitor and the sweep, a client may commit a
\* deletion between the sweep's scan and its own, and still the process neither
\* ends nor begins reclamation early nor chooses a second pair before the first is
\* gone.
THEOREM PolicyKept == Spec => KeepsPolicy
<1>1. Init => Policy!Init
  <2> SUFFICES ASSUME Init PROVE Policy!Init
    OBVIOUS
  <2>1. free \in Nat /\ pending \in Seq(Deletions)
    BY InitInv DEF StorageInv, TypeOK
  <2>2. (backend = "enospc") = FALSE /\ (latch = "set") \in BOOLEAN
    BY DEF Init
  <2> QED
    BY <2>1, <2>2 DEF Policy!Init, Deletions, Policy!Deletions
<1>2. StorageInv /\ [Next]_vars => [Policy!Next]_(Policy!vars)
  <2> SUFFICES ASSUME StorageInv, [Next]_vars PROVE [Policy!Next]_(Policy!vars)
    OBVIOUS
  <2>1. CASE Boot \/ UNCHANGED vars
    BY <2>1, Unseen DEF Boot, vars, volumeVars, runVars
  <2>2. CASE Crash
    BY <2>2, GoneForgets DEF Crash
  <2> QED
    BY <2>1, <2>2, RefineLook, RefineSweep, RefineRecording, RefineSupervising, RefineClients
       DEF Next
<1> QED
  BY InvHolds, <1>1, <1>2, PTL DEF Spec, KeepsPolicy, Policy!Spec
=============================================================================
