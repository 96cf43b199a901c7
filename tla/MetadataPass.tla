---------------------------- MODULE MetadataPass ----------------------------
(***************************************************************************)
(* Naming clips after the fact: the recorder's bounded passes over the     *)
(* provisional clips of this boot (recorder/runtime.py), the coordinator's *)
(* refusals (metadata/coordinator.py) and the projection of the accepted   *)
(* anchor onto a clip's interval (metadata/reconcile.py) under the rules   *)
(* that every sidecar must satisfy (metadata/schema.py), while the clock   *)
(* of the GPS receiver may reacquire another anchor (gps/clock.py).  Clips *)
(* are numbered in retention order; times are nanoseconds of a clock with  *)
(* Micro of them to the microsecond and Milli of them to the millisecond.  *)
(***************************************************************************)
EXTENDS Integers, FiniteSets

CONSTANTS Micro, Milli, Rounding,   \* MAX_DURATION_ROUNDING_ERROR_NS is Rounding
          Page, PerPass, MaxRetryAttempts, MaxTracked,
          MaxDisagreement,                    \* max_reacquire_disagreement_ns
          NClips, Durations, Utcs, MaxLeases   \* bounds

ASSUME MetadataConstants ==
  /\ Micro \in Nat \ {0} /\ Milli \in Nat \ {0} /\ Milli % Micro = 0 /\ Rounding \in Nat /\ Rounding >= Milli
  /\ Page \in Nat \ {0} /\ PerPass \in Nat \ {0} /\ MaxRetryAttempts \in Nat \ {0} /\ MaxTracked \in Nat
  /\ MaxDisagreement \in Nat /\ NClips \in Nat /\ Durations \subseteq Nat \ (0..Milli - 1) /\ MaxLeases \in Nat
  /\ Utcs \subseteq Int /\ \A u \in Utcs : u % Micro = 0

VARIABLES
  clips,    \* each clip: its state and interval, the civil times of its name or of the one
            \* prepared, whether it is leased, the mutation of it that is pending, its sidecar
  anchor,   \* the anchor of the GPS service: monotonic and UTC
  accepted, \* every anchor the service had so far
  pass,     \* the pass under way: its anchor, its page, its attempts, who runs it
  cursor,   \* the retention order up to which candidates were taken
  known,    \* retries per clip and the parked ones
  leases    \* leases, other mutations and spoilt sidecars so far

metadataVars == <<clips, anchor, accepted, pass, cursor, known, leases>>

Clip == 1..NClips
NoCivil == [start |-> 0, end |-> 0, sample |-> 0]
NoAnchor == [mono |-> 0, utc |-> 0]
NoPass == [by |-> "nobody", anchor |-> NoAnchor, page |-> {}, full |-> FALSE, attempts |-> 0, doing |-> 0]

MetadataInit ==
  /\ \E d \in [Clip -> Durations] :
       clips = [c \in Clip |-> [state |-> "writing", start |-> 5 * c, length |-> d[c],
                                leased |-> FALSE, busy |-> "no", sidecar |-> "sound",
                                civil |-> NoCivil]]
  /\ anchor = NoAnchor /\ accepted = {} /\ pass = NoPass /\ cursor = 0
  /\ known = [retries |-> [c \in Clip |-> 0], parked |-> {}] /\ leases = 0

(***************************************************************************)
(* The projection.                                                         *)
(***************************************************************************)

CanonicalMillisecond(t) == (t \div Milli) * Milli
ProjectUtc(a, t) == a.utc + ((t - a.mono) \div Micro) * Micro

\* The last instant of a clip's window stands for its GPS sample.
Projected(c, a) ==
  LET at(t) == CanonicalMillisecond(ProjectUtc(a, t)) IN
  [start |-> at(clips[c].start), end |-> at(clips[c].start + clips[c].length),
   sample |-> at(clips[c].start + clips[c].length - 1)]

\* _validate_time_fields and _validate_sample_window of the schema.
SidecarValid(c, civil) ==
  LET drift == (civil.end - civil.start) - clips[c].length IN
  /\ civil.start < civil.end
  /\ drift \in (0 - Rounding)..Rounding
  /\ civil.sample \in civil.start..civil.end

\* An anchor is never forgotten: one that is stale serves as well.
Synced == accepted # {}

\* project_anchored_sidecar at the closing of the clip; what fails stays provisional.
CloseTimeAnchor(c) ==
  IF Synced /\ SidecarValid(c, Projected(c, anchor)) THEN Projected(c, anchor) ELSE NoCivil

\* The sidecar is projected first, and its clip waits for the catalog and the card ...
ProjectNext ==
  /\ \E c \in Clip :
       /\ clips[c].state = "writing" /\ \A b \in 1..(c - 1) : clips[b].state \notin {"writing", "closing"}
       /\ clips' = [clips EXCEPT ![c].state = "closing", ![c].civil = CloseTimeAnchor(c)]
  /\ UNCHANGED <<anchor, accepted, pass, cursor, known, leases>>

\* ... where it is known by the name it got then.
FinalizeNext ==
  /\ \E c \in Clip :
       /\ clips[c].state = "closing"
       /\ clips' = [clips EXCEPT ![c].state = IF clips[c].civil = NoCivil THEN "provisional" ELSE "named"]
  /\ UNCHANGED <<anchor, accepted, pass, cursor, known, leases>>

(***************************************************************************)
(* A pass.                                                                 *)
(***************************************************************************)

\* One pass at a time, the loop's or the one of the shutdown; none without an anchor, and
\* the one it begins with serves all of it.
BeginPass ==
  /\ pass.by = "nobody" /\ Synced
  /\ pass' = [NoPass EXCEPT !.by = "scan", !.anchor = anchor]
  /\ UNCHANGED <<clips, anchor, accepted, cursor, known, leases>>

\* list_metadata_reconciliation_candidates: not leased, and no mutation pending but its naming.
Candidates ==
  {c \in Clip : c > cursor /\ clips[c].state = "provisional" /\ ~clips[c].leased /\ clips[c].busy # "other"}

FirstOf(S, n) == {c \in S : Cardinality({b \in S : b <= c}) <= n}

Paged(page) == [pass EXCEPT !.by = "loop", !.page = page, !.full = (Cardinality(page) = Page)]

\* A scan that finds nothing starts over.
ScanCandidates ==
  /\ pass.by = "scan"
  /\ LET page == FirstOf(Candidates, Page) IN
     /\ pass' = IF page = {} THEN NoPass ELSE Paged(page)
     /\ cursor' = IF page = {} THEN 0 ELSE cursor
  /\ UNCHANGED <<clips, anchor, accepted, known, leases>>

Least(S) == CHOOSE c \in S : \A b \in S : c <= b

\* The next candidate of the page: parked ones are passed over.
NextCandidate ==
  /\ pass.by = "loop" /\ pass.doing = 0 /\ pass.page # {} /\ pass.attempts < PerPass
  /\ LET c == Least(pass.page) IN
     /\ cursor' = c
     /\ pass' = IF c \in known.parked THEN [pass EXCEPT !.page = @ \ {c}]
                ELSE [pass EXCEPT !.page = @ \ {c}, !.doing = c, !.attempts = @ + 1]
  /\ UNCHANGED <<clips, anchor, accepted, known, leases>>

(***************************************************************************)
(* The coordinator.                                                        *)
(***************************************************************************)

\* Another mutation of the clip is in progress.
Pending(c) == clips[c].busy = "other"

\* The JSON has exactly the keys and types of the schema, no summary in it is out of
\* range, and its bytes are the canonical ones.
ClosedMapping(c) == clips[c].sidecar # "torn"
SummariesValid(c) == clips[c].sidecar # "misfit"
ParseSidecarBytes(c) == ClosedMapping(c) /\ SummariesValid(c) /\ clips[c].sidecar # "restyled"

\* The sidecar is of this clip, this boot and these names.
IdentityAgrees(c) == clips[c].sidecar # "foreign"

\* The anchor of the pass gives the clip a valid name.
PlanPostAnchorReconciliation(c) == SidecarValid(c, Projected(c, pass.anchor))

\* An intent that is there already is replayed; else everything must agree first.
Reconcilable(c) ==
  \/ clips[c].busy = "rename"
  \/ /\ ~Pending(c) /\ ~clips[c].leased
     /\ ParseSidecarBytes(c) /\ IdentityAgrees(c) /\ PlanPostAnchorReconciliation(c)

\* The same, by the anchor of this pass even where an intent is there.
NamingAnew(c) == Projected(c, pass.anchor)

\* The name that the intent holds, or the one to be put there.
Naming(c) == IF clips[c].busy = "rename" THEN clips[c].civil ELSE Projected(c, pass.anchor)

\* reconcile_clip: the intent is durable, the sidecar replaced, the pair renamed.
ReconcileClip ==
  /\ pass.doing # 0 /\ Reconcilable(pass.doing)
  /\ clips' = [clips EXCEPT ![pass.doing].state = "named", ![pass.doing].busy = "no",
                            ![pass.doing].civil = Naming(pass.doing)]
  /\ known' = [known EXCEPT !.retries[pass.doing] = 0]
  /\ pass' = [pass EXCEPT !.doing = 0]
  /\ UNCHANGED <<anchor, accepted, cursor, leases>>

Tracked == {c \in Clip : known.retries[c] > 0}

\* A refusal is retried a bounded number of times, or parks the clip, if there is room.
Recorded(c, retryable) ==
  LET n == known.retries[c] + 1 IN
  IF retryable /\ n < MaxRetryAttempts
  THEN IF Cardinality(Tracked) < MaxTracked THEN [known EXCEPT !.retries[c] = n] ELSE known
  ELSE [known EXCEPT !.retries[c] = 0,
                     !.parked = IF Cardinality(@) < MaxTracked THEN @ \cup {c} ELSE @]

\* Before the intent, with whether to try again: a lease or another mutation, an error of
\* reading the sidecar or a catalog that changed meanwhile (yes); what the sidecar says or
\* a directory too full to be searched for the name (no).
Refusals(c) ==
  IF clips[c].leased \/ Pending(c) THEN {TRUE}
  ELSE IF clips[c].busy = "rename" THEN {} ELSE {TRUE, FALSE}

ReconcileRefused ==
  /\ pass.doing # 0
  /\ \E retryable \in Refusals(pass.doing) : known' = Recorded(pass.doing, retryable)
  /\ pass' = [pass EXCEPT !.doing = 0]
  /\ UNCHANGED <<clips, anchor, accepted, cursor, leases>>

\* The intent is durable and its steps are not done: again, unless they found a problem.
ApplyIncomplete ==
  /\ pass.doing # 0 /\ Reconcilable(pass.doing)
  /\ clips' = [clips EXCEPT ![pass.doing].busy = "rename", ![pass.doing].civil = Naming(pass.doing)]
  /\ \E problems \in BOOLEAN : known' = Recorded(pass.doing, ~problems)
  /\ pass' = [pass EXCEPT !.doing = 0]
  /\ UNCHANGED <<anchor, accepted, cursor, leases>>

\* Only a page that was consumed and was not full starts the scan over.
EndPass ==
  /\ pass.by = "loop" /\ pass.doing = 0 /\ (pass.page = {} \/ pass.attempts >= PerPass)
  /\ cursor' = IF pass.page = {} /\ ~pass.full THEN 0 ELSE cursor
  /\ pass' = NoPass
  /\ UNCHANGED <<clips, anchor, accepted, known, leases>>

(***************************************************************************)
(* Around it.                                                              *)
(***************************************************************************)

\* The clock takes an anchor if it has none, and another, later one that is not far off the
\* time it told: GpsReceiver says when it does.
AcceptAnchor ==
  /\ \E u \in Utcs, t \in {c * 5 : c \in Clip} :
       /\ Synced => t > anchor.mono /\ u - ProjectUtc(anchor, t) \in (0 - MaxDisagreement)..MaxDisagreement
       /\ anchor' = [mono |-> t, utc |-> u]
  /\ accepted' = accepted \cup {anchor'}
  /\ UNCHANGED <<clips, pass, cursor, known, leases>>

\* A lease, or another mutation, of a clip that has none.
Claimed ==
  /\ leases < MaxLeases /\ leases' = leases + 1
  /\ \E c \in Clip :
       /\ clips[c].state = "provisional" /\ ~clips[c].leased /\ clips[c].busy = "no"
       /\ clips' \in {[clips EXCEPT ![c].leased = TRUE], [clips EXCEPT ![c].busy = "other"]}
  /\ UNCHANGED <<anchor, accepted, pass, cursor, known>>

Disclaimed ==
  /\ \E c \in Clip :
       /\ clips[c].leased \/ Pending(c)
       /\ clips' = [clips EXCEPT ![c].leased = FALSE, ![c].busy = "no"]
  /\ UNCHANGED <<anchor, accepted, pass, cursor, known, leases>>

\* Somebody with the card in a reader changes a sidecar.
SpoilSidecar ==
  /\ leases < MaxLeases /\ leases' = leases + 1
  /\ \E c \in Clip, how \in {"torn", "misfit", "restyled", "foreign"} :
       clips[c].state = "provisional" /\ clips[c].busy = "no" /\ clips' = [clips EXCEPT ![c].sidecar = how]
  /\ UNCHANGED <<anchor, accepted, pass, cursor, known>>

MetadataNext ==
  \/ ProjectNext \/ FinalizeNext \/ BeginPass \/ ScanCandidates \/ NextCandidate
  \/ ReconcileClip \/ ReconcileRefused \/ ApplyIncomplete \/ EndPass \/ AcceptAnchor \/ Claimed \/ Disclaimed \/ SpoilSidecar

MetadataSpec == MetadataInit /\ [][MetadataNext]_metadataVars

(***************************************************************************)
(* Properties.                                                             *)
(***************************************************************************)

\* Every provisional clip of this boot whose sidecar nobody spoils is named or parked once
\* there is an anchor, though a pass attempts few of them, the lists that track them are
\* bounded and others may be refused for ever.
ProvisionalSettled ==
  \A c \in Clip :
    clips[c].state = "provisional" /\ Synced
      ~> clips[c].state = "named" \/ c \in known.parked \/ clips[c].sidecar # "sound"

\* No anchor makes the projection violate the schema's own rules, so truncation to
\* the millisecond never leaves a clip without a name.
ProjectionAccepted ==
  \A a \in accepted, c \in Clip : SidecarValid(c, Projected(c, a))

\* Whoever names a clip, its closing or a pass after any number of refusals, replays and
\* starts of the scan, gives all its times by one anchor, which the clock had: never by
\* two of them, though it may reacquire while a clip is closed, a pass runs or an intent waits.
NamesAgree ==
  \A c \in Clip : clips[c].state = "named" => \E a \in accepted : clips[c].civil = Projected(c, a)

\* A clip that has a name keeps it, and an intent the one it was prepared with, whatever
\* anchors the clock reacquires (plan_post_anchor_reconciliation, reconcile_intent).
NamesStay ==
  [][\A c \in Clip :
       /\ clips[c].state = "named" => clips'[c].state = "named"
       /\ clips[c].state = "named" \/ clips[c].busy = "rename" => clips'[c].civil = clips[c].civil]_metadataVars

\* The retries and the parked clips stay within the bound of their tables, which are
\* checked before each insertion (_record_metadata_reconciliation_failure).
TablesBounded == Cardinality(Tracked) <= MaxTracked /\ Cardinality(known.parked) <= MaxTracked

\* What naming may rely on in every state.
MetadataInv == ProjectionAccepted /\ NamesAgree /\ TablesBounded

\* The pass names what can be named (_metadata_reconciliation_pass and the projection).
MetadataServes == []MetadataInv /\ NamesStay /\ ProvisionalSettled
=============================================================================
