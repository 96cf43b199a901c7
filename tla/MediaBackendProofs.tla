------------------------- MODULE MediaBackendProofs -------------------------
(* The backend and its driver agree on what records where, for every number  *)
(* of fragments, losses and messages on the bus: an inductive invariant, and *)
(* MediaInv from it.                                                         *)
EXTENDS MediaBackend, FiniteSetTheorems, TLAPS

Spec == MediaInit /\ [][MediaNext]_mediaVars

-----------------------------------------------------------------------------
(* The inductive invariant *)

Fragments == [seq : Nat, slot : Slots, act : Nat \ {0}]
Generation == [linked : BOOLEAN, open : BOOLEAN, act : Nat, reusable : BOOLEAN,
               opened : SUBSET Fragments, lastClosed : Nat, eosSent : BOOLEAN]
EosArbiter == [state : {"OPEN", "NATURAL", "GENERATION_ARMED", "GENERATION", "REFUSED"},
               armed : BOOLEAN, foreign : Nat, forwarded : Nat]
Phases == {"AV_ACTIVE", "SWITCHING", "LOSS_CUT_PENDING_IDR_PROOF", "LOSS_BOUNDARY_COMMITTED",
           "VIDEO_ONLY_ACTIVE", "AV_RESTORING", "VIDEO_ONLY_CLOSING",
           "LOSS_CONTAINMENT_CRITICAL", "RESTORATION_CRITICAL"}
Context == [active : Slots, nextAct : Nat \ {0}, nextVideo : Nat, isolated : BOOLEAN, phase : Phases,
            verified : BOOLEAN, quarantine : BOOLEAN, errors : Nat, ingress : Nat]
Published == [kind : {"none", "stable", "handoff_in_progress", "faulted_handoff"},
              active : Nat, act : Nat]

\* Where a handoff is: before its cut, between the cut and the new route, and after.
Before == {"begin", "linked", "idle"}
Cutting == {"idr", "boundary", "dispatched"}
Opening == {"begin", "admitted", "rebuilt", "held"}
Proving == {"proof", "closing"}
Handoff == [op : {"none", "loss", "restore"},
            at : {"none", "done", "failed", "refused"} \cup Before \cup Cutting \cup Opening \cup Proving,
            next : 0..3, held : BOOLEAN, retry : BOOLEAN, mutated : BOOLEAN,
            location : {hand.location}, prior : Nat]
Messages == [kind : {"opened", "closed"}, frag : Fragments] \cup [kind : {"alsa"}, src : Nat]
            \cup [kind : {"error", "eos"}]
Coordinator == [state : {"ACTIVE", "UNAVAILABLE", "RESTORE_PENDING", "RESTORING"}, attempts : Nat,
                candidate : Observations \cup {"none"}, confirmed : Nat]
Shutdown == [at : {"none", "eos", "drain", "null", "stuck", "done"}, target : {shut.target},
             eos : BOOLEAN, ok : BOOLEAN]

MediaTypes ==
    /\ slot \in [Slots -> Generation]
    /\ arbiter \in EosArbiter
    /\ ctx \in Context
    /\ topology \in Published
    /\ hand \in Handoff
    /\ writing \in [Slots -> Fragments \cup {NoFragment}]
    /\ closing \subseteq Fragments
    /\ nextSeq \in Nat
    /\ owners \subseteq Fragments
    /\ bus \in Seq(Messages)
    /\ source \in [id : Nat, alive : BOOLEAN, losses : Nat, eos : Nat, broken : BOOLEAN]
    /\ coord \in Coordinator
    /\ lost \in [isolated : BOOLEAN, messages : Nat]
    /\ shut \in Shutdown

\* What the audio pad has got.
ArbiterFits ==
    /\ arbiter.forwarded <= 1
    /\ arbiter.state \in {"OPEN", "GENERATION_ARMED"} => arbiter.forwarded = 0

\* Nobody has a file but the activation that asked for it, and its closure is the last one hears of it.
Announces(i) == bus[i].kind \in {"opened", "closed"}
Known(f) == Owned(f) /\ f.seq < nextSeq

FilesFit ==
    /\ \A s \in Slots : writing[s] # NoFragment => writing[s].slot = s /\ Known(writing[s])
    /\ \A f \in closing : Known(f) /\ \A s \in Slots : writing[s] # f
    /\ \A i \in 1..Len(bus) : Announces(i) => Known(bus[i].frag)
    /\ \A i \in 1..Len(bus) : bus[i].kind = "closed" =>
         /\ bus[i].frag \notin closing
         /\ \A s \in Slots : writing[s] # bus[i].frag
         /\ \A j \in 1..Len(bus) : Announces(j) /\ bus[j].frag = bus[i].frag => j <= i

\* The route of the encoded video, which a handoff interrupts between its cut and the new route.
Routes == {s \in Slots : Routed(s)}

RouteFits ==
    /\ \E x \in Slots : Routes \subseteq {x}
    /\ pipe # "null" /\ ~Critical /\ ctx.phase # "VIDEO_ONLY_CLOSING" =>
          Routes = IF hand.op = "loss" /\ hand.at \in Cutting THEN {} ELSE {ctx.active}
    /\ ctx.phase = "VIDEO_ONLY_CLOSING" => Routes = {} /\ ~slot[ctx.active].linked

\* No file of the activation of a slot has been asked for.
Unused(s) == \A f \in owners : ~(f.slot = s /\ f.act = slot[s].act)

\* What isolate_audio_loss and restore_audio rely on from one of their steps to the next.
LossFits ==
    /\ hand.at \in Before \cup Cutting \cup Proving
    /\ hand.mutated <=> hand.at \notin Before
    /\ hand.at = "begin" => hand.next = 0
    /\ hand.at # "begin" =>
         /\ hand.next \in VideoSlots
         /\ ctx.phase # "VIDEO_ONLY_CLOSING" /\ ~ctx.isolated
         /\ topology.kind = "handoff_in_progress"
    /\ hand.at \in {"linked", "idle"} \cup Cutting =>
         ctx.active = 1 /\ slot[hand.next].linked /\ ~slot[hand.next].open
    /\ hand.at \in {"linked", "idle"} => Unused(hand.next)
    /\ hand.at \in Proving => ctx.active = hand.next

RestoreFits ==
    /\ hand.at \in Opening \cup Proving
    /\ hand.mutated <=> hand.at \in Proving
    /\ ctx.isolated
    /\ hand.at \in Opening => ctx.active \in VideoSlots
    /\ hand.at # "begin" =>
         /\ hand.prior \in VideoSlots
         /\ ctx.phase # "VIDEO_ONLY_CLOSING"
         /\ topology.kind = "handoff_in_progress"
    /\ hand.at \in {"admitted", "rebuilt", "held"} => hand.prior = ctx.active
    /\ hand.at \in {"begin", "admitted", "rebuilt"} => slot[1].act = 0
    /\ hand.at = "held" => Unused(1)
    /\ hand.at \in Proving => ctx.active = 1

HandFits ==
    /\ hand.op = "none" => hand = [NoHandoff EXCEPT !.at = hand.at]
    /\ hand.op = "loss" => LossFits
    /\ hand.op = "restore" => RestoreFits

\* Who is inside the driver.
RunFits ==
    /\ run \notin {"handing", "restoring"} => hand = NoHandoff
    /\ run = "handing" =>
         \/ hand.op = "loss"
         \/ hand.op = "none" /\ hand.at \in {"done", "failed"}
    /\ run = "restoring" =>
         \/ hand.op = "restore"
         \/ hand.op = "none" /\ hand.at \in {"done", "failed", "refused"}
    /\ run = "starting" => shut.at = "none"
    /\ Critical => run = "failed" \/ hand.at = "failed"
    /\ shut.at \in {"eos", "drain", "null", "stuck"} => pipe \in {"created", "playing"}

TopologyFits ==
    /\ StableTopologyTrue
    /\ Critical => topology.kind = "faulted_handoff"

IsolationFits ==
    /\ IsolationAgrees
    /\ ctx.isolated /\ run # "failed" /\ hand.op = "none" /\ hand.at # "failed" =>
          ctx.active \in VideoSlots /\ slot[1].act = 0
    /\ run = "handing" /\ hand.at = "done" => ctx.isolated
    /\ run = "restoring" /\ hand.at = "done" => ~ctx.isolated
    /\ run = "restoring" /\ hand.at = "refused" => ctx.isolated
    /\ run = "restoring" => lost.isolated /\ coord.state = "RESTORING"
    /\ run = "probing" => coord.state = "UNAVAILABLE"

MediaInd == MediaTypes /\ ArbiterFits /\ FilesFit /\ RouteFits /\ HandFits /\ RunFits
            /\ TopologyFits /\ IsolationFits

-----------------------------------------------------------------------------
(* What a step leaves alone *)

\* The slots are routed as before and keep their activations.
SlotsAlike ==
    \A s \in Slots : slot'[s].linked = slot[s].linked /\ slot'[s].open = slot[s].open
                     /\ slot'[s].act = slot[s].act
ContextAlike == ctx'.active = ctx.active /\ ctx'.phase = ctx.phase /\ ctx'.isolated = ctx.isolated

\* A handoff has ended, or not begun.
LEMMA HandEnds ==
    ASSUME NEW a \in {"none", "done", "failed", "refused"}, hand' = [NoHandoff EXCEPT !.at = a]
    PROVE  /\ hand' \in Handoff' /\ hand'.op = "none" /\ hand'.at = a
           /\ hand' = [NoHandoff EXCEPT !.at = hand'.at]
<1>1. hand' = [op |-> "none", at |-> a, next |-> 0, held |-> FALSE, retry |-> FALSE,
               mutated |-> FALSE, location |-> 0, prior |-> 0]
    BY DEF NoHandoff
<1>2. hand'.location = 0 /\ hand'.at = a /\ hand'.op = "none"
    BY <1>1
<1>3. [op |-> "none", at |-> a, next |-> 0, held |-> FALSE, retry |-> FALSE,
       mutated |-> FALSE, location |-> 0, prior |-> 0] \in
      [op : {"none", "loss", "restore"},
       at : {"none", "done", "failed", "refused"} \cup Before \cup Cutting \cup Opening \cup Proving,
       next : 0..3, held : BOOLEAN, retry : BOOLEAN, mutated : BOOLEAN,
       location : {0}, prior : Nat]
    OBVIOUS
<1>4. hand' \in Handoff'
    BY <1>1, <1>2, <1>3 DEF Handoff, Before, Cutting, Opening, Proving
<1> QED
    BY <1>1, <1>2, <1>4 DEF NoHandoff

\* A handoff begins with nothing done.
LEMMA HandBegins ==
    ASSUME NEW o \in {"loss", "restore"}, hand' = [NoHandoff EXCEPT !.op = o, !.at = "begin"]
    PROVE  hand' \in Handoff'
<1>1. hand' = [op |-> o, at |-> "begin", next |-> 0, held |-> FALSE, retry |-> FALSE,
               mutated |-> FALSE, location |-> 0, prior |-> 0]
    BY DEF NoHandoff
<1>2. [op |-> o, at |-> "begin", next |-> 0, held |-> FALSE, retry |-> FALSE,
       mutated |-> FALSE, location |-> 0, prior |-> 0] \in
      [op : {"none", "loss", "restore"},
       at : {"none", "done", "failed", "refused"} \cup Before \cup Cutting \cup Opening \cup Proving,
       next : 0..3, held : BOOLEAN, retry : BOOLEAN, mutated : BOOLEAN,
       location : {0}, prior : Nat]
    BY DEF Before
<1> QED
    BY <1>1, <1>2 DEF Handoff

\* A handoff notes the file it cuts.
LEMMA Relocated ==
    ASSUME hand \in Handoff, NEW l, NEW a \in Before \cup Cutting \cup Opening \cup Proving,
           hand' = [hand EXCEPT !.at = a, !.location = l]
    PROVE  /\ hand' \in Handoff' /\ hand'.at = a
           /\ UNCHANGED <<hand.op, hand.next, hand.mutated, hand.prior>>
<1>1. hand'.location = l
    BY DEF Handoff
<1> QED
    BY <1>1 DEF Handoff

\* The route is what it was when nothing it is made of has changed.
LEMMA RouteFrame ==
    ASSUME RouteFits, SlotsAlike, ContextAlike, hand' = hand, pipe' = pipe, ctx.active \in Slots
    PROVE  RouteFits'
<1>1. Routes' = Routes
    BY DEF Routes, Routed, SlotsAlike
<1> QED
    BY <1>1 DEF RouteFits, Critical, SlotsAlike, ContextAlike, Cutting

\* A handoff goes on when the slots and the route are alike and no file of an unused slot is asked for.
LEMMA HandFrame ==
    ASSUME MediaTypes, HandFits, SlotsAlike, ContextAlike, hand' = hand, topology' = topology,
           \A s \in Slots : Unused(s) /\ ~Routed(s) => Unused(s)',
           hand.op = "restore" /\ hand.at = "held" => ~Routed(1)
    PROVE  HandFits'
<1>1. CASE hand.op = "none"
    BY <1>1 DEF HandFits
<1>2. CASE hand.op = "loss"
    <2>1. LossFits
        BY <1>2 DEF HandFits
    <2>2. hand.at \in {"linked", "idle"} => Unused(hand.next)'
        BY <2>1 DEF LossFits, Routed, VideoSlots, Slots, Cutting, Before
    <2>3. LossFits'
        BY <2>1, <2>2 DEF LossFits, SlotsAlike, ContextAlike, VideoSlots, Slots, Before, Cutting, Proving
    <2> QED
        BY <1>2, <2>3 DEF HandFits
<1>3. CASE hand.op = "restore"
    <2>1. RestoreFits
        BY <1>3 DEF HandFits
    <2>2. hand.at = "held" => Unused(1)'
        BY <1>3, <2>1 DEF RestoreFits, Slots
    <2>3. RestoreFits'
        BY <2>1, <2>2 DEF RestoreFits, SlotsAlike, ContextAlike, Slots, VideoSlots, Opening, Proving
    <2> QED
        BY <1>3, <2>3 DEF HandFits
<1> QED
    BY <1>1, <1>2, <1>3 DEF MediaTypes, Handoff

\* The topology is as true as it was.
LEMMA TopologyFrame ==
    ASSUME TopologyFits, SlotsAlike, ContextAlike, topology' = topology, ctx.active \in Slots
    PROVE  TopologyFits'
BY DEF TopologyFits, StableTopologyTrue, SlotsAlike, ContextAlike, Critical

\* Backend and driver agree as they did.
LEMMA IsolationFrame ==
    ASSUME IsolationFits, SlotsAlike, ContextAlike, UNCHANGED <<hand, run, lost, coord>>
    PROVE  IsolationFits'
BY DEF IsolationFits, IsolationAgrees, SlotsAlike, ContextAlike, Slots

\* A slot that gets another activation has no file: what is known stays known.
LEMMA FilesFrame ==
    ASSUME MediaTypes, FilesFit, UNCHANGED <<fileVars, bus>>,
           \A s \in Slots : slot'[s].act = slot[s].act \/ slot[s].act = 0 \/ Unused(s)
    PROVE  FilesFit'
<1>1. ASSUME NEW f \in Fragments, Known(f) PROVE Known(f)'
    BY <1>1 DEF Known, Owned, Fragments, Unused, fileVars, Slots
<1>2. \A s \in Slots : writing[s] # NoFragment => writing[s] \in Fragments
    BY DEF MediaTypes
<1>3. \A i \in 1..Len(bus) : Announces(i) => bus[i].frag \in Fragments
    BY DEF MediaTypes, Messages, Announces
<1>4. closing \subseteq Fragments
    BY DEF MediaTypes
<1>5. \A i : Announces(i)' = Announces(i)
    BY DEF Announces
<1> QED
    BY <1>1, <1>2, <1>3, <1>4, <1>5 DEF FilesFit, fileVars

-----------------------------------------------------------------------------
(* Files *)

\* A file is known after the step.
StaysKnown(f) == f \in owners' /\ slot'[f.slot].act = f.act /\ f.seq < nextSeq'

\* A message put on the bus is its last one.
LEMMA Posted ==
    ASSUME bus \in Seq(Messages), NEW m \in Messages, Post(m)
    PROVE  /\ bus' \in Seq(Messages) /\ Len(bus') = Len(bus) + 1
           /\ \A i \in 1..Len(bus) : bus'[i] = bus[i] /\ Announces(i)' = Announces(i)
           /\ bus'[Len(bus) + 1] = m
BY DEF Post, Announces

\* A message that announces no file changes nothing about the files.
LEMMA FilesPosted ==
    ASSUME MediaTypes, FilesFit, NEW m \in Messages, Post(m), m.kind \notin {"opened", "closed"},
           SlotsAlike, UNCHANGED fileVars
    PROVE  FilesFit'
<1> DEFINE n == Len(bus)
<1>1. /\ Len(bus') = n + 1 /\ n \in Nat
      /\ \A i \in 1..n : bus'[i] = bus[i] /\ Announces(i)' = Announces(i)
      /\ bus'[n + 1] = m
    BY Posted DEF MediaTypes
<1>2. \A i \in 1..(n + 1) : Announces(i)' => i \in 1..n
    BY <1>1 DEF Announces
<1>3. ASSUME NEW f \in Fragments, Known(f) PROVE StaysKnown(f)
    BY <1>3 DEF Known, StaysKnown, Owned, Fragments, fileVars, SlotsAlike
<1>4. /\ \A s \in Slots : writing[s] # NoFragment => writing[s] \in Fragments
      /\ \A i \in 1..n : Announces(i) => bus[i].frag \in Fragments
      /\ closing \subseteq Fragments
    BY DEF MediaTypes, Messages, Announces
<1>5. \A i \in 1..n : Announces(i)' => StaysKnown(bus'[i].frag)
    BY <1>1, <1>3, <1>4 DEF FilesFit
<1>6. ASSUME NEW i \in 1..n, bus'[i].kind = "closed"
      PROVE  /\ bus'[i].frag \notin closing
             /\ \A s \in Slots : writing[s] # bus'[i].frag
             /\ \A j \in 1..(n + 1) : Announces(j)' /\ bus'[j].frag = bus'[i].frag => j <= i
    BY <1>1, <1>2, <1>6 DEF FilesFit
<1>7. \A i \in 1..(n + 1) : bus'[i].kind = "closed" => i \in 1..n
    BY <1>2 DEF Announces
<1> QED
    BY <1>1, <1>2, <1>3, <1>4, <1>5, <1>6, <1>7 DEF FilesFit, Known, Owned, StaysKnown, fileVars

\* A file that is opened has a sequence no other file has.
LEMMA FilesOpened ==
    ASSUME MediaTypes, FilesFit, NEW s \in Slots, OpenFile(s)
    PROVE  /\ FilesFit'
           /\ writing' \in [Slots -> Fragments \cup {NoFragment}] /\ closing' \subseteq Fragments
           /\ owners' \subseteq Fragments /\ bus' \in Seq(Messages) /\ nextSeq' \in Nat
<1> DEFINE f == [seq |-> nextSeq, slot |-> s, act |-> slot[s].act]
           m == [kind |-> "opened", frag |-> f]
           n == Len(bus)
<1>1. f \in Fragments /\ f # NoFragment /\ m \in Messages
    BY DEF OpenFile, MayAllocate, MediaTypes, Fragments, Generation, Messages, NoFragment, Slots
<1>2. /\ writing' = [writing EXCEPT ![s] = f] /\ owners' = owners \cup {f}
      /\ Post(m) /\ closing' = closing \cup ({writing[s]} \ {NoFragment}) /\ nextSeq' = nextSeq + 1
      /\ slot' = slot
    BY DEF OpenFile, slotVars
<1> HIDE DEF f, m
<1>3. /\ Len(bus') = n + 1 /\ n \in Nat /\ bus' \in Seq(Messages)
      /\ \A i \in 1..n : bus'[i] = bus[i] /\ Announces(i)' = Announces(i)
      /\ bus'[n + 1] = m
    BY <1>1, <1>2, Posted DEF MediaTypes
<1>4. /\ \A t \in Slots : writing[t] # NoFragment => writing[t] \in Fragments
      /\ \A i \in 1..n : Announces(i) => bus[i].frag \in Fragments
      /\ closing \subseteq Fragments
    BY DEF MediaTypes, Messages, Announces
<1>5. writing' \in [Slots -> Fragments \cup {NoFragment}] /\ closing' \subseteq Fragments
      /\ owners' \subseteq Fragments /\ nextSeq' \in Nat
    BY <1>1, <1>2, <1>4 DEF MediaTypes
<1>6. ASSUME NEW g \in Fragments, Known(g) PROVE StaysKnown(g) /\ g # f
    BY <1>2, <1>6 DEF Known, StaysKnown, Owned, Fragments, MediaTypes, f
<1>7. StaysKnown(f) /\ f.slot = s
    BY <1>1, <1>2 DEF Known, StaysKnown, Owned, f, MediaTypes
<1>8. \A t \in Slots : writing'[t] = IF t = s THEN f ELSE writing[t]
    BY <1>2 DEF MediaTypes
<1>9. \A t \in Slots : writing'[t] # NoFragment => writing'[t].slot = t /\ StaysKnown(writing'[t])
    BY <1>4, <1>6, <1>7, <1>8 DEF FilesFit
<1>10. ASSUME NEW g \in closing' PROVE StaysKnown(g) /\ \A t \in Slots : writing'[t] # g
    <2>1. CASE g \in closing
        BY <2>1, <1>4, <1>6, <1>8 DEF FilesFit
    <2>2. CASE g = writing[s] /\ g # NoFragment
        <3>1. g \in Fragments /\ Known(g) /\ g.slot = s
            BY <2>2, <1>4 DEF FilesFit
        <3>2. \A t \in Slots : t # s /\ writing[t] = g => FALSE
            BY <2>2, <3>1 DEF FilesFit
        <3> QED
            BY <3>1, <3>2, <1>6, <1>8
    <2> QED
        BY <2>1, <2>2, <1>2
<1>11. \A i \in 1..(n + 1) : Announces(i)' => StaysKnown(bus'[i].frag)
    <2>1. bus'[n + 1].frag = f
        BY <1>3 DEF m
    <2>2. ASSUME NEW i \in 1..(n + 1), Announces(i)' PROVE StaysKnown(bus'[i].frag)
        <3>1. CASE i \in 1..n
            BY <3>1, <2>2, <1>3, <1>4, <1>6 DEF FilesFit
        <3>2. CASE i = n + 1
            BY <3>2, <2>1, <1>7
        <3> QED
            BY <3>1, <3>2, <1>3
    <2> QED
        BY <2>2
<1>12. ASSUME NEW i \in 1..(n + 1), bus'[i].kind = "closed"
       PROVE  /\ bus'[i].frag \notin closing'
              /\ \A t \in Slots : writing'[t] # bus'[i].frag
              /\ \A j \in 1..(n + 1) : Announces(j)' /\ bus'[j].frag = bus'[i].frag => j <= i
    <2>1. i \in 1..n
        BY <1>3, <1>12 DEF m
    <2>2. bus[i].kind = "closed" /\ bus[i] = bus'[i] /\ Announces(i)
        BY <2>1, <1>3, <1>12 DEF Announces
    <2>3. Known(bus[i].frag) /\ bus[i].frag \in Fragments /\ bus[i].frag # f
        BY <2>1, <2>2, <1>4, <1>6 DEF FilesFit
    <2>4. bus[i].frag \notin closing /\ \A t \in Slots : writing[t] # bus[i].frag
        BY <2>1, <2>2 DEF FilesFit
    <2>5. \A j \in 1..n : Announces(j) /\ bus[j].frag = bus[i].frag => j <= i
        BY <2>1, <2>2 DEF FilesFit
    <2>6. bus'[n + 1].frag = f
        BY <1>3 DEF m
    <2>7. \A j \in 1..(n + 1) : j \in 1..n \/ j = n + 1
        BY <1>3
    <2> QED
        BY <2>1, <2>2, <2>3, <2>4, <2>5, <2>6, <2>7, <1>2, <1>3, <1>8
<1>13. FilesFit'
    BY <1>3, <1>9, <1>10, <1>11, <1>12 DEF FilesFit, Known, Owned, StaysKnown
<1> QED
    BY <1>3, <1>5, <1>13

\* A file that has got EOS is finalized.
LEMMA FilesDrained ==
    ASSUME MediaTypes, FilesFit, NEW s \in Slots, DrainFile(s)
    PROVE  /\ FilesFit'
           /\ writing' \in [Slots -> Fragments \cup {NoFragment}] /\ closing' \subseteq Fragments
<1>1. /\ writing' = [writing EXCEPT ![s] = NoFragment] /\ closing' = closing \cup {writing[s]}
      /\ UNCHANGED <<slot, nextSeq, owners, bus>> /\ writing[s] # NoFragment
    BY DEF DrainFile, slotVars
<1>2. /\ \A t \in Slots : writing[t] # NoFragment => writing[t] \in Fragments
      /\ closing \subseteq Fragments
    BY DEF MediaTypes
<1>3. \A t \in Slots : writing'[t] = IF t = s THEN NoFragment ELSE writing[t]
    BY <1>1 DEF MediaTypes
<1>4. \A g : Known(g) => StaysKnown(g)
    BY <1>1 DEF Known, StaysKnown, Owned
<1>5. \A t \in Slots : writing'[t] # NoFragment => writing'[t].slot = t /\ StaysKnown(writing'[t])
    BY <1>3, <1>4 DEF FilesFit
<1>6. ASSUME NEW g \in closing' PROVE StaysKnown(g) /\ \A t \in Slots : writing'[t] # g
    <2>1. CASE g \in closing
        <3>1. g \in Fragments /\ g # NoFragment
            BY <2>1, <1>2 DEF Fragments, NoFragment
        <3> QED
            BY <2>1, <3>1, <1>3, <1>4 DEF FilesFit
    <2>2. CASE g = writing[s]
        <3>1. g \in Fragments /\ Known(g) /\ g.slot = s
            BY <2>2, <1>1, <1>2 DEF FilesFit
        <3>2. \A t \in Slots : t # s /\ writing[t] = g => FALSE
            BY <1>1, <2>2, <3>1 DEF FilesFit
        <3> QED
            BY <2>2, <3>1, <3>2, <1>1, <1>3, <1>4
    <2> QED
        BY <2>1, <2>2, <1>1
<1>7. \A i : Announces(i)' = Announces(i)
    BY <1>1 DEF Announces
<1>8. \A i \in 1..Len(bus) : Announces(i) => bus[i].frag \in Fragments
    BY DEF MediaTypes, Messages, Announces
<1>9. ASSUME NEW i \in 1..Len(bus), bus[i].kind = "closed"
      PROVE  bus[i].frag \notin closing' /\ \A t \in Slots : writing'[t] # bus[i].frag
    <2>1. bus[i].frag \in Fragments /\ bus[i].frag # NoFragment
        BY <1>8, <1>9 DEF Announces, Fragments, NoFragment
    <2> QED
        BY <2>1, <1>1, <1>3, <1>9 DEF FilesFit
<1>10. FilesFit'
    BY <1>1, <1>4, <1>5, <1>6, <1>7, <1>9 DEF FilesFit, Known, Owned, StaysKnown
<1> QED
    BY <1>1, <1>2, <1>10 DEF MediaTypes

\* The closure of a file is announced once, after everything else about it.
LEMMA FilesClosed ==
    ASSUME MediaTypes, FilesFit, CloseFile
    PROVE  FilesFit' /\ closing' \subseteq Fragments /\ bus' \in Seq(Messages)
<1> DEFINE n == Len(bus)
<1>1. PICK f \in closing : closing' = closing \ {f} /\ Post([kind |-> "closed", frag |-> f])
    BY DEF CloseFile
<1>2. UNCHANGED <<slot, writing, nextSeq, owners>>
    BY DEF CloseFile, slotVars
<1> DEFINE m == [kind |-> "closed", frag |-> f]
<1>3. f \in Fragments /\ m \in Messages
    BY <1>1 DEF MediaTypes, Messages
<1>4. m.kind = "closed" /\ m.frag = f /\ Post(m)
    BY <1>1
<1> HIDE DEF m
<1>5. /\ Len(bus') = n + 1 /\ n \in Nat /\ bus' \in Seq(Messages)
      /\ \A i \in 1..n : bus'[i] = bus[i] /\ Announces(i)' = Announces(i)
      /\ bus'[n + 1] = m
    BY <1>3, <1>4, Posted DEF MediaTypes
<1>6. \A g : Known(g) => StaysKnown(g)
    BY <1>2 DEF Known, StaysKnown, Owned
<1>7. Known(f) /\ \A s \in Slots : writing[s] # f
    BY DEF FilesFit
<1>8. \A i \in 1..(n + 1) : i \in 1..n \/ i = n + 1
    BY <1>5
<1>9. \A i \in 1..(n + 1) : Announces(i)' => StaysKnown(bus'[i].frag)
    BY <1>4, <1>5, <1>6, <1>7, <1>8 DEF FilesFit
<1>10. ASSUME NEW i \in 1..(n + 1), bus'[i].kind = "closed"
       PROVE  /\ bus'[i].frag \notin closing'
              /\ \A s \in Slots : writing[s] # bus'[i].frag
              /\ \A j \in 1..(n + 1) : Announces(j)' /\ bus'[j].frag = bus'[i].frag => j <= i
    <2>1. CASE i = n + 1
        BY <2>1, <1>1, <1>4, <1>5, <1>7
    <2>2. CASE i \in 1..n
        <3>1. bus[i].kind = "closed" /\ bus[i] = bus'[i]
            BY <2>2, <1>5, <1>10
        <3>2. /\ bus[i].frag \notin closing
              /\ \A s \in Slots : writing[s] # bus[i].frag
              /\ \A j \in 1..n : Announces(j) /\ bus[j].frag = bus[i].frag => j <= i
            BY <2>2, <3>1 DEF FilesFit
        <3>3. bus[i].frag # f
            BY <3>2
        <3> QED
            BY <2>2, <3>1, <3>2, <3>3, <1>1, <1>4, <1>5, <1>8
    <2> QED
        BY <2>1, <2>2, <1>8
<1>11. FilesFit'
    <2>1. \A s \in Slots : writing[s] # NoFragment => writing[s].slot = s /\ StaysKnown(writing[s])
        BY <1>6 DEF FilesFit
    <2>2. \A g \in closing' : StaysKnown(g) /\ \A s \in Slots : writing[s] # g
        BY <1>1, <1>6 DEF FilesFit
    <2> QED
        BY <2>1, <2>2, <1>2, <1>5, <1>9, <1>10 DEF FilesFit, Known, Owned, StaysKnown
<1> QED
    BY <1>1, <1>5, <1>11 DEF MediaTypes

\* The messages behind the first one move up.
LEMMA Shifted ==
    ASSUME bus \in Seq(Messages), Len(bus) > 0, bus' = Tail(bus)
    PROVE  /\ bus' \in Seq(Messages) /\ Len(bus') = Len(bus) - 1 /\ Len(bus) \in Nat
           /\ 1 \in 1..Len(bus) /\ Head(bus) = bus[1] /\ Head(bus) \in Messages
           /\ \A i \in 1..Len(bus') : i + 1 \in 1..Len(bus) /\ bus'[i] = bus[i + 1]
                                      /\ Announces(i)' = Announces(i + 1)
BY DEF Announces

\* A slot whose route and activation are kept.
LEMMA SlotChanged ==
    ASSUME MediaTypes, NEW s \in Slots, NEW q \in Generation, slot' = [slot EXCEPT ![s] = q],
           q.linked = slot[s].linked, q.open = slot[s].open, q.act = slot[s].act
    PROVE  slot' \in [Slots -> Generation] /\ SlotsAlike
BY DEF MediaTypes, SlotsAlike

\* Popping a message moves no route, and drops a file only when its closure is the message.
LEMMA PopKeeps ==
    ASSUME MediaTypes, FilesFit, Len(bus) > 0, Pop(Head(bus)), UNCHANGED <<writing, closing, nextSeq>>
    PROVE  /\ slot' \in [Slots -> Generation] /\ SlotsAlike
           /\ ctx' \in Context /\ ContextAlike
           /\ owners' \subseteq owners /\ bus' \in Seq(Messages) /\ FilesFit'
<1> DEFINE m == Head(bus)
           n == Len(bus)
<1>1. bus' = Tail(bus)
    BY DEF Pop
<1>2. /\ bus' \in Seq(Messages) /\ Len(bus') = n - 1 /\ n \in Nat
      /\ 1 \in 1..n /\ m = bus[1] /\ m \in Messages
      /\ \A i \in 1..Len(bus') : i + 1 \in 1..n /\ bus'[i] = bus[i + 1]
                                 /\ Announces(i)' = Announces(i + 1)
    BY <1>1, Shifted DEF MediaTypes
<1> DEFINE f == m.frag
<1>3. m.kind \in {"opened", "closed"} => f \in Fragments
    BY <1>2 DEF Messages
<1>4. /\ \/ slot' = slot
         \/ m.kind \in {"opened", "closed"} /\ slot' = [slot EXCEPT ![f.slot].opened = @ \cup {f}]
         \/ m.kind \in {"opened", "closed"}
            /\ slot' = [slot EXCEPT ![f.slot].opened = @ \ {f}, ![f.slot].lastClosed = f.seq]
      /\ \/ ctx' = ctx
         \/ ctx' = [ctx EXCEPT !.errors = @ + 1]
      /\ \/ owners' = owners
         \/ m.kind = "closed" /\ owners' = owners \ {f}
    BY DEF Pop
<1> HIDE DEF m
<1>5. ctx' \in Context /\ ContextAlike
    <2>1. ctx \in Context
        BY DEF MediaTypes
    <2>2. CASE ctx' = [ctx EXCEPT !.errors = @ + 1]
        BY <2>1, <2>2 DEF Context, ContextAlike
    <2> QED
        BY <2>1, <2>2, <1>4 DEF ContextAlike
<1>6. slot' \in [Slots -> Generation] /\ SlotsAlike
    <2>1. CASE slot' = slot
        BY <2>1 DEF MediaTypes, SlotsAlike
    <2>2. CASE /\ m.kind \in {"opened", "closed"}
               /\ slot' = [slot EXCEPT ![f.slot].opened = @ \cup {f}]
        <3> DEFINE p == slot[f.slot]
                   q == [p EXCEPT !.opened = @ \cup {f}]
        <3>1. p \in Generation /\ f \in Fragments /\ f.slot \in Slots
            BY <2>2, <1>3 DEF MediaTypes, Fragments
        <3>2. q \in Generation /\ q.linked = p.linked /\ q.open = p.open /\ q.act = p.act
            BY <3>1 DEF Generation
        <3>3. slot' = [slot EXCEPT ![f.slot] = q]
            BY <2>2
        <3> QED
            BY <3>1, <3>2, <3>3, SlotChanged
    <2>3. CASE /\ m.kind \in {"opened", "closed"}
               /\ slot' = [slot EXCEPT ![f.slot].opened = @ \ {f}, ![f.slot].lastClosed = f.seq]
        <3> DEFINE p == slot[f.slot]
                   q == [p EXCEPT !.opened = @ \ {f}, !.lastClosed = f.seq]
        <3>1. p \in Generation /\ f \in Fragments /\ f.slot \in Slots /\ f.seq \in Nat
            BY <2>3, <1>3 DEF MediaTypes, Fragments
        <3>2. q \in Generation /\ q.linked = p.linked /\ q.open = p.open /\ q.act = p.act
            BY <3>1 DEF Generation
        <3>3. slot' = [slot EXCEPT ![f.slot] = q]
            BY <2>3
        <3> QED
            BY <3>1, <3>2, <3>3, SlotChanged
    <2> QED
        BY <2>1, <2>2, <2>3, <1>4
<1>7. owners' \subseteq owners
    BY <1>4
<1>8. ASSUME NEW g \in Fragments, Known(g), m.kind = "closed" => g # f PROVE StaysKnown(g)
    BY <1>4, <1>6, <1>8 DEF Known, StaysKnown, Owned, SlotsAlike, Fragments
<1>9. /\ \A s \in Slots : writing[s] # NoFragment => writing[s] \in Fragments
      /\ \A i \in 1..n : Announces(i) => bus[i].frag \in Fragments
      /\ closing \subseteq Fragments
    BY DEF MediaTypes, Messages, Announces
<1>10. m.kind = "closed" =>
         /\ f \notin closing /\ \A s \in Slots : writing[s] # f
         /\ \A j \in 1..n : Announces(j) /\ bus[j].frag = f => j <= 1
    BY <1>2 DEF FilesFit
<1>11. \A s \in Slots : writing[s] # NoFragment => writing[s].slot = s /\ StaysKnown(writing[s])
    BY <1>8, <1>9, <1>10 DEF FilesFit
<1>12. \A g \in closing : StaysKnown(g) /\ \A s \in Slots : writing[s] # g
    BY <1>8, <1>9, <1>10 DEF FilesFit
<1>13. ASSUME NEW i \in 1..Len(bus'), Announces(i)' PROVE StaysKnown(bus'[i].frag)
    <2>1. i + 1 \in 1..n /\ bus'[i] = bus[i + 1] /\ Announces(i + 1) /\ ~(i + 1 <= 1)
        BY <1>2, <1>13
    <2>2. m.kind = "closed" => bus[i + 1].frag # f
        BY <2>1, <1>10
    <2>3. bus[i + 1].frag \in Fragments /\ Known(bus[i + 1].frag)
        BY <2>1, <1>9 DEF FilesFit
    <2> QED
        BY <2>1, <2>2, <2>3, <1>8
<1>14. ASSUME NEW i \in 1..Len(bus'), bus'[i].kind = "closed"
       PROVE  /\ bus'[i].frag \notin closing
              /\ \A s \in Slots : writing[s] # bus'[i].frag
              /\ \A j \in 1..Len(bus') : Announces(j)' /\ bus'[j].frag = bus'[i].frag => j <= i
    <2>1. i + 1 \in 1..n /\ bus'[i] = bus[i + 1] /\ bus[i + 1].kind = "closed"
        BY <1>2, <1>14
    <2>2. /\ bus[i + 1].frag \notin closing
          /\ \A s \in Slots : writing[s] # bus[i + 1].frag
          /\ \A j \in 1..n : Announces(j) /\ bus[j].frag = bus[i + 1].frag => j <= i + 1
        BY <2>1 DEF FilesFit
    <2>3. ASSUME NEW j \in 1..Len(bus'), Announces(j)', bus'[j].frag = bus'[i].frag PROVE j <= i
        <3>1. j + 1 \in 1..n /\ Announces(j + 1) /\ bus[j + 1].frag = bus[i + 1].frag
            BY <2>1, <2>3, <1>2
        <3>2. j + 1 <= i + 1
            BY <3>1, <2>2
        <3> QED
            BY <3>2, <1>2
    <2> QED
        BY <2>1, <2>2, <2>3
<1>15. FilesFit'
    BY <1>11, <1>12, <1>13, <1>14 DEF FilesFit, Known, Owned, StaysKnown
<1> QED
    BY <1>2, <1>5, <1>6, <1>7, <1>15

-----------------------------------------------------------------------------
(* The steps of the streaming threads *)

\* Restore holds the route on the old slot until it moves it.
LEMMA HeldRoute ==
    ASSUME MediaInd, pipe # "null", hand.op = "restore", hand.at = "held"
    PROVE  ~Routed(1)
<1>1. RestoreFits /\ run = "restoring"
    BY DEF MediaInd, HandFits, RunFits, NoHandoff
<1>2. ctx.active \in VideoSlots /\ ctx.phase # "VIDEO_ONLY_CLOSING" /\ ~Critical
    BY <1>1 DEF RestoreFits, Opening, MediaInd, RunFits
<1>3. Routes = {ctx.active}
    BY <1>2 DEF MediaInd, RouteFits
<1> QED
    BY <1>2, <1>3 DEF Routes, Slots, VideoSlots

\* A step that touches files, the bus and the source only.
LEMMA FilesOnly ==
    ASSUME MediaInd, pipe # "null", UNCHANGED <<slotVars, hand, backendVars>>, FilesFit',
           writing' \in [Slots -> Fragments \cup {NoFragment}], closing' \subseteq Fragments,
           owners' \subseteq Fragments, bus' \in Seq(Messages), nextSeq' \in Nat,
           source' \in [id : Nat, alive : BOOLEAN, losses : Nat, eos : Nat, broken : BOOLEAN],
           \A s \in Slots : Unused(s) /\ ~Routed(s) => Unused(s)'
    PROVE  MediaInd'
<1>1. SlotsAlike /\ ContextAlike /\ ctx.active \in Slots
    BY DEF SlotsAlike, ContextAlike, slotVars, MediaInd, MediaTypes, Context
<1>2. MediaTypes'
    BY DEF MediaInd, MediaTypes, slotVars, backendVars, Handoff, Shutdown
<1>3. ArbiterFits'
    BY DEF MediaInd, ArbiterFits, slotVars
<1>4. RouteFits'
    BY <1>1, RouteFrame DEF MediaInd, backendVars
<1>5. HandFits'
    BY <1>1, HeldRoute, HandFrame DEF MediaInd, slotVars
<1>6. RunFits'
    BY DEF MediaInd, RunFits, slotVars, backendVars, Critical
<1>7. TopologyFits'
    BY <1>1, TopologyFrame DEF MediaInd, slotVars
<1>8. IsolationFits'
    BY <1>1, IsolationFrame DEF MediaInd, backendVars
<1> QED
    BY <1>2, <1>3, <1>4, <1>5, <1>6, <1>7, <1>8 DEF MediaInd

\* The streaming threads open and close files, the devices fail.
LEMMA FileSteps ==
    ASSUME MediaInd, pipe = "playing", UNCHANGED backendVars,
           (\E s \in Slots : OpenFile(s) \/ DrainFile(s)) \/ CloseFile \/ SourceFails \/ PipelineFails
    PROVE  MediaInd'
<1> USE DEF MediaInd
<1>1. ASSUME NEW s \in Slots, OpenFile(s) PROVE MediaInd'
    <2>1. UNCHANGED <<slotVars, hand, source>>
        BY <1>1 DEF OpenFile
    <2>2. \A t \in Slots : Unused(t) /\ ~Routed(t) => Unused(t)'
        BY <1>1, <2>1 DEF OpenFile, Unused, slotVars
    <2>3. source' \in [id : Nat, alive : BOOLEAN, losses : Nat, eos : Nat, broken : BOOLEAN]
        BY <2>1 DEF MediaTypes
    <2> QED
        BY <1>1, <2>1, <2>2, <2>3, FilesOpened, FilesOnly
<1>2. ASSUME NEW s \in Slots, DrainFile(s) PROVE MediaInd'
    <2>1. UNCHANGED <<slotVars, hand, source, owners, bus, nextSeq>>
        BY <1>2 DEF DrainFile
    <2>2. \A t \in Slots : Unused(t) /\ ~Routed(t) => Unused(t)'
        BY <2>1 DEF Unused, slotVars
    <2>3. /\ source' \in [id : Nat, alive : BOOLEAN, losses : Nat, eos : Nat, broken : BOOLEAN]
          /\ owners' \subseteq Fragments /\ bus' \in Seq(Messages) /\ nextSeq' \in Nat
        BY <2>1 DEF MediaTypes
    <2> QED
        BY <1>2, <2>1, <2>2, <2>3, FilesDrained, FilesOnly
<1>3. CASE CloseFile
    <2>1. UNCHANGED <<slotVars, hand, source, owners, writing, nextSeq>>
        BY <1>3 DEF CloseFile
    <2>2. \A t \in Slots : Unused(t) /\ ~Routed(t) => Unused(t)'
        BY <2>1 DEF Unused, slotVars
    <2>3. /\ source' \in [id : Nat, alive : BOOLEAN, losses : Nat, eos : Nat, broken : BOOLEAN]
          /\ owners' \subseteq Fragments /\ nextSeq' \in Nat
          /\ writing' \in [Slots -> Fragments \cup {NoFragment}]
        BY <2>1 DEF MediaTypes
    <2> QED
        BY <1>3, <2>1, <2>2, <2>3, FilesClosed, FilesOnly
<1>4. ASSUME SourceFails \/ PipelineFails PROVE MediaInd'
    <2>1. UNCHANGED <<slotVars, hand, fileVars>>
        BY <1>4 DEF SourceFails, PipelineFails
    <2>2. \A t \in Slots : Unused(t) /\ ~Routed(t) => Unused(t)'
        BY <2>1 DEF Unused, slotVars, fileVars
    <2>3. /\ owners' \subseteq Fragments /\ nextSeq' \in Nat /\ closing' \subseteq Fragments
          /\ writing' \in [Slots -> Fragments \cup {NoFragment}]
        BY <2>1 DEF MediaTypes, fileVars
    <2>4. source' \in [id : Nat, alive : BOOLEAN, losses : Nat, eos : Nat, broken : BOOLEAN]
        <3>1. source \in [id : Nat, alive : BOOLEAN, losses : Nat, eos : Nat, broken : BOOLEAN]
            BY DEF MediaTypes
        <3>2. CASE SourceFails
            <4>1. PICK k \in 0..2 :
                      source' = [source EXCEPT !.alive = FALSE, !.losses = @ + 1, !.eos = k]
                BY <3>2 DEF SourceFails
            <4>2. k \in Nat /\ source.losses + 1 \in Nat
                BY <3>1
            <4>3. source' = [id |-> source.id, alive |-> FALSE, losses |-> source.losses + 1,
                             eos |-> k, broken |-> source.broken]
                BY <3>1, <4>1
            <4> QED
                BY <3>1, <4>2, <4>3
        <3>3. CASE PipelineFails
            BY <3>1, <3>3 DEF PipelineFails
        <3> QED
            BY <3>2, <3>3, <1>4
    <2>5. PICK m \in Messages : Post(m) /\ m.kind \notin {"opened", "closed"}
        BY <1>4 DEF SourceFails, PipelineFails, Messages, MediaTypes
    <2>6. FilesFit'
        BY <2>1, <2>5, FilesPosted DEF SlotsAlike, slotVars
    <2>7. bus' \in Seq(Messages)
        BY <2>5, Posted DEF MediaTypes
    <2> QED
        BY <2>1, <2>2, <2>3, <2>4, <2>6, <2>7, FilesOnly
<1> QED
    BY <1>1, <1>2, <1>3, <1>4

-----------------------------------------------------------------------------
(* Popping the bus *)

\* What popping a message leaves true, whoever pops it.
LEMMA PopFits ==
    ASSUME MediaInd, Len(bus) > 0, Pop(Head(bus)),
           UNCHANGED <<arbiter, topology, writing, closing, nextSeq, source, pipe>>
    PROVE  /\ slot' \in [Slots -> Generation] /\ ctx' \in Context /\ bus' \in Seq(Messages)
           /\ owners' \subseteq Fragments
           /\ SlotsAlike /\ ContextAlike
           /\ ArbiterFits' /\ FilesFit' /\ TopologyFits'
           /\ hand' = hand => RouteFits'
           /\ hand' = hand /\ (pipe # "null" \/ hand = NoHandoff) => HandFits'
<1>1. /\ slot' \in [Slots -> Generation] /\ ctx' \in Context /\ bus' \in Seq(Messages)
      /\ SlotsAlike /\ ContextAlike /\ owners' \subseteq owners /\ FilesFit'
    BY PopKeeps DEF MediaInd
<1>2. ctx.active \in Slots
    BY DEF MediaInd, MediaTypes, Context
<1>3. ArbiterFits' /\ TopologyFits'
    BY <1>1, <1>2, TopologyFrame DEF MediaInd, ArbiterFits
<1>4. hand' = hand => RouteFits'
    BY <1>1, <1>2, RouteFrame DEF MediaInd
<1>5. \A s \in Slots : Unused(s) => Unused(s)'
    BY <1>1 DEF Unused, SlotsAlike
<1>6. pipe # "null" \/ hand = NoHandoff => (hand.op = "restore" /\ hand.at = "held" => ~Routed(1))
    BY HeldRoute DEF NoHandoff
<1>7. hand' = hand /\ (pipe # "null" \/ hand = NoHandoff) => HandFits'
    BY <1>1, <1>5, <1>6, HandFrame DEF MediaInd
<1> QED
    BY <1>1, <1>3, <1>4, <1>7 DEF MediaInd, MediaTypes

\* What run() does with a message leaves the verdict on the loss to the handoff.
LEMMA Handled ==
    ASSUME MediaTypes, NEW m, Handle(m)
    PROVE  /\ lost' \in [isolated : BOOLEAN, messages : Nat] /\ lost'.isolated = lost.isolated
           /\ run' \in {"loop", "failed", "arm"}
<1>1. lost \in [isolated : BOOLEAN, messages : Nat]
    BY DEF MediaTypes
<1>2. lost' = lost \/ lost' = [lost EXCEPT !.messages = @ + 1]
    BY DEF Handle
<1>3. run' \in {"loop", "failed", "arm"}
    BY DEF Handle
<1> QED
    BY <1>1, <1>2, <1>3

\* The same of the shutdown.
LEMMA HandledAtShutdown ==
    ASSUME MediaTypes, NEW m, ShutdownHandles(m)
    PROVE  /\ lost' \in [isolated : BOOLEAN, messages : Nat] /\ lost'.isolated = lost.isolated
           /\ shut' \in Shutdown' /\ shut'.at \in {shut.at, "null"}
<1>1. lost \in [isolated : BOOLEAN, messages : Nat]
    BY DEF MediaTypes
<1>2. lost' = lost \/ lost' = [lost EXCEPT !.messages = @ + 1]
    BY DEF ShutdownHandles
<1>3. shut \in Shutdown
    BY DEF MediaTypes
<1>4. \/ shut' = [shut EXCEPT !.eos = TRUE, !.at = IF shut.target = 0 THEN "null" ELSE @]
      \/ shut' = [shut EXCEPT !.at = "null"]
      \/ shut' = [shut EXCEPT !.at = "null", !.ok = FALSE]
      \/ shut' = [shut EXCEPT !.target = Target(m)]
    BY DEF ShutdownHandles
<1>5. shut' \in Shutdown' /\ shut'.at \in {shut.at, "null"}
    BY <1>3, <1>4 DEF Shutdown
<1> QED
    BY <1>1, <1>2, <1>5

\* A wait of a handoff pops the bus, and a fatal message may end the drain.
LEMMA PumpSteps ==
    ASSUME MediaInd, pipe = "playing", UNCHANGED backendVars, Pump \/ DrainDropsFatal
    PROVE  MediaInd'
<1> USE DEF MediaInd
<1>1. /\ Len(bus) > 0 /\ Pop(Head(bus))
      /\ UNCHANGED <<arbiter, topology, writing, closing, nextSeq, source, pipe, run, lost, coord, shut>>
    BY DEF Pump, DrainDropsFatal, backendVars
<1>2. /\ slot' \in [Slots -> Generation] /\ ctx' \in Context /\ bus' \in Seq(Messages)
      /\ owners' \subseteq Fragments /\ SlotsAlike /\ ContextAlike
      /\ ArbiterFits' /\ FilesFit' /\ TopologyFits'
    BY <1>1, PopFits
<1>3. CASE hand' = hand
    <2>1. RouteFits' /\ HandFits'
        BY <1>1, <1>3, PopFits
    <2>2. MediaTypes'
        BY <1>1, <1>2, <1>3 DEF MediaTypes, Handoff, Shutdown
    <2>3. RunFits'
        BY <1>1, <1>2, <1>3 DEF RunFits, ContextAlike, Critical
    <2>4. IsolationFits'
        BY <1>1, <1>2, <1>3, IsolationFrame
    <2> QED
        BY <1>2, <2>1, <2>2, <2>3, <2>4
<1>4. CASE Draining /\ hand' = [NoHandoff EXCEPT !.at = "refused"]
    <2>1. hand.op = "restore" /\ hand.at = "begin" /\ RestoreFits /\ run = "restoring"
        BY <1>4 DEF Draining, HandFits, RunFits, NoHandoff
    <2>2. hand'.op = "none" /\ hand'.at = "refused" /\ hand' = [NoHandoff EXCEPT !.at = hand'.at]
        BY <1>4 DEF NoHandoff
    <2>3. MediaTypes'
        <3>1. hand' \in Handoff'
            BY <1>4, HandEnds
        <3> QED
            BY <1>1, <1>2, <3>1 DEF MediaTypes, Shutdown
    <2>4. RouteFits'
        <3>1. Routes' = Routes
            BY <1>2 DEF Routes, Routed, SlotsAlike
        <3>2. ctx.active \in Slots
            BY DEF MediaTypes, Context
        <3> QED
            BY <1>1, <1>2, <2>1, <2>2, <3>1, <3>2 DEF RouteFits, Critical, SlotsAlike, ContextAlike
    <2>5. HandFits'
        BY <2>2 DEF HandFits
    <2>6. RunFits'
        BY <1>1, <1>2, <2>1, <2>2 DEF RunFits, ContextAlike, Critical
    <2>7. IsolationFits'
        BY <1>1, <1>2, <2>1, <2>2
           DEF IsolationFits, IsolationAgrees, RestoreFits, SlotsAlike, ContextAlike, Opening, Slots
    <2> QED
        BY <1>2, <2>3, <2>4, <2>5, <2>6, <2>7
<1> QED
    BY <1>3, <1>4 DEF Pump, DrainDropsFatal

\* run() pops a message, of the bus or of what a handoff has left.
LEMMA PollSteps ==
    ASSUME MediaInd, PollBus \/ PollInbox PROVE MediaInd'
<1> USE DEF MediaInd
<1>1. /\ run = "polling" /\ run' \in {"loop", "failed", "arm", "idle"}
      /\ lost' \in [isolated : BOOLEAN, messages : Nat] /\ lost'.isolated = lost.isolated
      /\ UNCHANGED <<arbiter, topology, hand, writing, closing, nextSeq, source, coord, shut, pipe>>
    BY Handled DEF PollBus, PollInbox, MediaTypes, slotVars, fileVars
<1>2. hand = NoHandoff
    BY <1>1 DEF RunFits
<1>3. /\ slot' \in [Slots -> Generation] /\ ctx' \in Context /\ bus' \in Seq(Messages)
      /\ owners' \subseteq Fragments /\ SlotsAlike /\ ContextAlike
      /\ ArbiterFits' /\ FilesFit' /\ TopologyFits' /\ RouteFits' /\ HandFits'
    <2>1. CASE PollBus
        BY <1>1, <1>2, <2>1, PopFits DEF PollBus
    <2>2. CASE PollInbox
        <3>1. UNCHANGED <<slotVars, fileVars, bus, hand, pipe>>
            BY <2>2 DEF PollInbox
        <3>2. SlotsAlike /\ ContextAlike
            BY <3>1 DEF SlotsAlike, ContextAlike, slotVars
        <3>3. FilesFit'
            BY <3>1, <3>2, FilesFrame DEF SlotsAlike
        <3>4. ArbiterFits' /\ TopologyFits' /\ RouteFits'
            BY <3>1, <3>2, TopologyFrame, RouteFrame DEF ArbiterFits, slotVars, MediaTypes, Context
        <3>5. HandFits'
            BY <1>2, <3>1 DEF HandFits, NoHandoff
        <3> QED
            BY <3>1, <3>2, <3>3, <3>4, <3>5 DEF MediaTypes, slotVars, fileVars
    <2> QED
        BY <2>1, <2>2
<1>4. MediaTypes'
    BY <1>1, <1>3 DEF MediaTypes, Handoff, Shutdown
<1>5. RunFits'
    BY <1>1, <1>2, <1>3 DEF RunFits, ContextAlike, Critical, NoHandoff
<1>6. IsolationFits'
    BY <1>1, <1>2, <1>3 DEF IsolationFits, IsolationAgrees, SlotsAlike, ContextAlike, Slots
<1> QED
    BY <1>3, <1>4, <1>5, <1>6

\* The shutdown pops a message, of the bus or of what a handoff has left.
LEMMA DrainSteps ==
    ASSUME MediaInd, DrainBus \/ DrainInbox PROVE MediaInd'
<1> USE DEF MediaInd
<1>1. /\ DriverFree /\ shut.at = "drain"
      /\ lost' \in [isolated : BOOLEAN, messages : Nat] /\ lost'.isolated = lost.isolated
      /\ shut' \in Shutdown' /\ shut'.at \in {"drain", "null"}
      /\ UNCHANGED <<arbiter, topology, hand, writing, closing, nextSeq, source, coord, run, pipe>>
    BY HandledAtShutdown DEF DrainBus, DrainInbox, MediaTypes, slotVars, fileVars, Shutdown
<1>2. hand = NoHandoff
    BY <1>1 DEF RunFits, DriverFree
<1>3. /\ slot' \in [Slots -> Generation] /\ ctx' \in Context /\ bus' \in Seq(Messages)
      /\ owners' \subseteq Fragments /\ SlotsAlike /\ ContextAlike
      /\ ArbiterFits' /\ FilesFit' /\ TopologyFits' /\ RouteFits' /\ HandFits'
    <2>1. CASE DrainBus
        BY <1>1, <1>2, <2>1, PopFits DEF DrainBus
    <2>2. CASE DrainInbox
        <3>1. UNCHANGED <<slotVars, fileVars, bus, hand, pipe>>
            BY <2>2 DEF DrainInbox
        <3>2. SlotsAlike /\ ContextAlike
            BY <3>1 DEF SlotsAlike, ContextAlike, slotVars
        <3>3. FilesFit'
            BY <3>1, <3>2, FilesFrame DEF SlotsAlike
        <3>4. ArbiterFits' /\ TopologyFits' /\ RouteFits'
            BY <3>1, <3>2, TopologyFrame, RouteFrame DEF ArbiterFits, slotVars, MediaTypes, Context
        <3>5. HandFits'
            BY <1>2, <3>1 DEF HandFits, NoHandoff
        <3> QED
            BY <3>1, <3>2, <3>3, <3>4, <3>5 DEF MediaTypes, slotVars, fileVars
    <2> QED
        BY <2>1, <2>2
<1>4. MediaTypes'
    BY <1>1, <1>3 DEF MediaTypes, Handoff
<1>5. RunFits'
    BY <1>1, <1>2, <1>3 DEF RunFits, ContextAlike, Critical, NoHandoff
<1>6. IsolationFits'
    BY <1>1, <1>2, <1>3 DEF IsolationFits, IsolationAgrees, SlotsAlike, ContextAlike, Slots
<1> QED
    BY <1>3, <1>4, <1>5, <1>6

-----------------------------------------------------------------------------
(* The steps of run() and stop() *)

\* What holds of the driver holds as long as nobody touches it.
LEMMA DriverFrame ==
    ASSUME MediaInd, UNCHANGED driverVars
    PROVE  /\ SlotsAlike /\ ContextAlike
           /\ ArbiterFits' /\ FilesFit' /\ HandFits' /\ TopologyFits'
           /\ pipe' = "null" \/ pipe # "null" => RouteFits'
<1>1. SlotsAlike /\ ContextAlike /\ ctx.active \in Slots
    BY DEF SlotsAlike, ContextAlike, driverVars, slotVars, MediaInd, MediaTypes, Context
<1>2. ArbiterFits' /\ TopologyFits'
    BY <1>1, TopologyFrame DEF MediaInd, ArbiterFits, driverVars, slotVars
<1>3. FilesFit'
    BY <1>1, FilesFrame DEF MediaInd, SlotsAlike, driverVars
<1>4. HandFits'
    <2>1. \A s \in Slots : Unused(s)' = Unused(s)
        BY DEF Unused, driverVars, slotVars, fileVars
    <2>2. UNCHANGED <<hand, slot, ctx, topology>>
        BY DEF driverVars, slotVars
    <2>3. hand.op = "loss" => LossFits'
        BY <2>1, <2>2 DEF MediaInd, HandFits, LossFits, VideoSlots, Slots, Before
    <2>4. hand.op = "restore" => RestoreFits'
        BY <2>1, <2>2 DEF MediaInd, HandFits, RestoreFits, Slots
    <2> QED
        BY <2>2, <2>3, <2>4 DEF MediaInd, HandFits
<1>5. pipe' = "null" \/ pipe # "null" => RouteFits'
    <2>1. UNCHANGED <<slot, ctx, hand>> /\ Routes' = Routes
        BY DEF driverVars, slotVars, Routes, Routed
    <2> QED
        BY <2>1 DEF MediaInd, RouteFits, Critical
<1> QED
    BY <1>1, <1>2, <1>3, <1>4, <1>5

\* start() up to the first message, and how it fails.
LEMMA StartSteps ==
    ASSUME MediaInd, StartStep PROVE MediaInd'
<1> USE DEF MediaInd
<1>1. CASE CreatePipeline \/ Started \/ StartFails
    <2>1. /\ UNCHANGED driverVars /\ UNCHANGED <<coord, lost, shut>>
          /\ run = "starting" /\ run' \in {"starting", "loop", "failed"}
          /\ pipe' = pipe \/ pipe # "null" \/ pipe' = "null"
          /\ run' = "starting" => pipe # "null" \/ pipe' = pipe
          /\ pipe' # "null" => pipe # "null"
        BY <1>1 DEF CreatePipeline, Started, StartFails
    <2>2. /\ ArbiterFits' /\ FilesFit' /\ HandFits' /\ TopologyFits' /\ RouteFits'
          /\ SlotsAlike /\ ContextAlike
        BY <2>1, DriverFrame
    <2>3. MediaTypes'
        BY <2>1 DEF MediaTypes, driverVars, slotVars, fileVars, Handoff, Shutdown
    <2>4. RunFits'
        BY <2>1 DEF RunFits, driverVars, slotVars, Critical, NoHandoff
    <2>5. IsolationFits'
        BY <2>1 DEF IsolationFits, IsolationAgrees, driverVars, slotVars
    <2> QED
        BY <2>2, <2>3, <2>4, <2>5
<1>2. CASE SetPlaying
    <2>1. /\ UNCHANGED <<slot, arbiter, ctx, hand, fileVars, bus, source, run, coord, lost, shut>>
          /\ run = "starting" /\ pipe = "created" /\ pipe' = "playing"
          /\ topology' = [kind |-> "stable", active |-> ctx.active, act |-> slot[ctx.active].act]
        BY <1>2 DEF SetPlaying, Stable
    <2>2. hand = NoHandoff /\ shut.at = "none"
        BY <2>1 DEF RunFits
    <2>3. SlotsAlike /\ ContextAlike
        BY <2>1 DEF SlotsAlike, ContextAlike
    <2>4. MediaTypes'
        <3>1. ctx.active \in Slots /\ slot[ctx.active].act \in Nat
            BY DEF MediaTypes, Context, Generation
        <3>2. topology' \in Published
            BY <2>1, <3>1 DEF Published, Slots
        <3> QED
            BY <2>1, <3>2 DEF MediaTypes, fileVars, Handoff, Shutdown
    <2>5. ArbiterFits' /\ FilesFit'
        BY <2>1, <2>3, FilesFrame DEF ArbiterFits, SlotsAlike
    <2>6. RouteFits'
        <3>1. Routes' = Routes
            BY <2>1 DEF Routes, Routed
        <3> QED
            BY <2>1, <3>1 DEF RouteFits, Critical
    <2>7. HandFits'
        BY <2>1, <2>2 DEF HandFits, NoHandoff
    <2>8. RunFits'
        BY <2>1, <2>2 DEF RunFits, Critical
    <2>9. ~Critical
        BY <2>1, <2>2 DEF RunFits, NoHandoff
    <2>10. TopologyFits' /\ IsolationFits'
        BY <2>1, <2>9 DEF TopologyFits, StableTopologyTrue, Critical, IsolationFits, IsolationAgrees
    <2> QED
        BY <2>4, <2>5, <2>6, <2>7, <2>8, <2>10
<1> QED
    BY <1>1, <1>2 DEF StartStep

\* The steps of run() that do not touch the driver, nor wait for it.
RunAlone ==
    \/ RunEnds \/ PollBegins \/ PollEmpty \/ ArmRefused \/ Classified
    \/ NothingToRestore \/ PollCoordinator \/ Rediscovered

\* What run() decides alone.
LEMMA RunAloneSteps ==
    ASSUME MediaInd, RunAlone PROVE MediaInd'
<1> USE DEF MediaInd
<1>1. UNCHANGED <<driverVars, lost, shut, pipe>>
    BY DEF RunAlone, RunEnds, PollBegins, PollEmpty, ArmRefused, Classified, NothingToRestore,
           PollCoordinator, Rediscovered
<1>2. /\ run \in {"loop", "polling", "arm", "classifying", "idle", "probing"}
      /\ run' \in {"ended", "polling", "idle", "failed", "loop", "probing"}
    BY DEF RunAlone, RunEnds, PollBegins, PollEmpty, ArmRefused, Classified, NothingToRestore,
           PollCoordinator, Rediscovered
<1>3. /\ coord' \in Coordinator
      /\ \/ coord' = coord
         \/ coord.state = "UNAVAILABLE" /\ coord'.state \in {"UNAVAILABLE", "RESTORE_PENDING"}
      /\ run' = "probing" => coord'.state = "UNAVAILABLE"
    <2>1. coord \in Coordinator
        BY DEF MediaTypes
    <2>2. CASE PollCoordinator
        <3>1. coord.state = "UNAVAILABLE" /\ coord.attempts + 1 \in Nat
            BY <2>1, <2>2 DEF PollCoordinator, Coordinator
        <3>2. \/ coord' = [coord EXCEPT !.attempts = 0, !.candidate = "none", !.confirmed = 0]
              \/ coord' = [coord EXCEPT !.attempts = @ + 1]
            BY <2>2 DEF PollCoordinator
        <3> QED
            <4>1. CASE coord' = [coord EXCEPT !.attempts = 0, !.candidate = "none", !.confirmed = 0]
                BY <2>1, <3>1, <4>1 DEF Coordinator
            <4>2. CASE coord' = [coord EXCEPT !.attempts = @ + 1]
                BY <2>1, <3>1, <4>2 DEF Coordinator
            <4> QED
                BY <4>1, <4>2, <3>2
    <2>3. CASE Rediscovered
        <3>1. coord.state = "UNAVAILABLE"
            BY <2>3 DEF Rediscovered, IsolationFits
        <3>2. PICK o \in Observations :
                coord' = IF o = "absent" THEN [coord EXCEPT !.candidate = "none", !.confirmed = 0]
                         ELSE [coord EXCEPT !.candidate = o, !.confirmed = Confirmations(o),
                                            !.state = IF Confirmations(o) >= 2 THEN "RESTORE_PENDING" ELSE @]
            BY <2>3 DEF Rediscovered
        <3>3. Confirmations(o) \in Nat
            BY <2>1 DEF Confirmations, Coordinator
        <3>4. run' # "probing"
            BY <2>3 DEF Rediscovered
        <3> QED
            BY <2>1, <3>1, <3>2, <3>3, <3>4 DEF Coordinator
    <2>4. CASE UNCHANGED coord /\ run' # "probing"
        BY <2>1, <2>4
    <2> QED
        BY <2>2, <2>3, <2>4 DEF RunAlone, RunEnds, PollBegins, PollEmpty, ArmRefused, Classified,
                                NothingToRestore
<1>4. ArbiterFits' /\ FilesFit' /\ HandFits' /\ TopologyFits' /\ RouteFits'
    BY <1>1, DriverFrame
<1>5. MediaTypes'
    BY <1>1, <1>3 DEF MediaTypes, driverVars, slotVars, fileVars, Handoff, Shutdown
<1>6. hand = NoHandoff
    BY <1>2 DEF RunFits
<1>7. RunFits'
    BY <1>1, <1>2, <1>6 DEF RunFits, driverVars, slotVars, Critical, NoHandoff
<1>8. IsolationFits'
    BY <1>1, <1>2, <1>3 DEF IsolationFits, IsolationAgrees, driverVars, slotVars
<1> QED
    BY <1>4, <1>5, <1>7, <1>8

\* The steps of stop() that do not touch the driver.
StopAlone ==
    StopCalled \/ EosFails \/ DrainTimesOut \/ SetNullFails \/ StopAgainCalled

\* What stop() decides alone.
LEMMA StopAloneSteps ==
    ASSUME MediaInd, StopAlone PROVE MediaInd'
<1> USE DEF MediaInd
<1>1. /\ UNCHANGED <<driverVars, run, coord, lost, pipe>>
      /\ run = "starting" => shut'.at = "none"
      /\ shut'.at \in {"eos", "drain", "null", "stuck"} => pipe \in {"created", "playing"}
    BY DEF StopAlone, StopCalled, EosFails, DrainTimesOut, SetNullFails, StopAgainCalled, RunFits,
           RetryAt, NoShutdown, MediaTypes, Shutdown
<1>2. shut' \in Shutdown'
    <2>1. shut \in Shutdown
        BY DEF MediaTypes
    <2>2. \/ shut' = [NoShutdown EXCEPT !.at = "eos", !.target = active]
          \/ shut' = [shut EXCEPT !.at = "null", !.ok = FALSE]
          \/ shut' = [shut EXCEPT !.at = "stuck"]
          \/ shut' = [NoShutdown EXCEPT !.at = RetryAt, !.target = active, !.ok = TRUE]
        BY DEF StopAlone, StopCalled, EosFails, DrainTimesOut, SetNullFails, StopAgainCalled
    <2> QED
        BY <2>1, <2>2 DEF Shutdown, NoShutdown, RetryAt
<1>3. ArbiterFits' /\ FilesFit' /\ HandFits' /\ TopologyFits' /\ RouteFits'
    BY <1>1, DriverFrame
<1>4. MediaTypes'
    BY <1>1, <1>2 DEF MediaTypes, driverVars, slotVars, fileVars, Handoff
<1>5. RunFits'
    BY <1>1 DEF RunFits, driverVars, slotVars, Critical
<1>6. IsolationFits'
    BY <1>1 DEF IsolationFits, IsolationAgrees, driverVars, slotVars
<1> QED
    BY <1>3, <1>4, <1>5, <1>6

\* The steps of run() at which it enters or leaves a handoff.
RunHands ==
    Isolate \/ Isolated \/ HandoffRaises \/ Restore \/ RestoreRefused \/ Restored

\* A handoff begins with the driver as it is, or is refused by a pipeline that is gone; its outcome is
\* what run() and the coordinator believe.
LEMMA RunHandsSteps ==
    ASSUME MediaInd, RunHands PROVE MediaInd'
<1> USE DEF MediaInd
<1>1. UNCHANGED <<slotVars, fileVars, bus, inbox, source, shut, pipe>>
    BY DEF RunHands, Isolate, Isolated, HandoffRaises, Restore, RestoreRefused, Restored
<1>2. SlotsAlike /\ ContextAlike /\ Routes' = Routes
    BY <1>1 DEF SlotsAlike, ContextAlike, slotVars, Routes, Routed
<1>3. FilesFit' /\ TopologyFits' /\ ArbiterFits'
    BY <1>1, <1>2, FilesFrame, TopologyFrame
       DEF SlotsAlike, slotVars, ArbiterFits, MediaTypes, Context
<1>4. ~(hand.op = "loss" /\ hand.at \in Cutting)
    <2>1. run \in {"armed", "idle"} => hand = NoHandoff
        BY DEF RunFits
    <2>2. run \in {"armed", "idle"} \/ hand.at \in {"done", "failed", "refused"}
        BY DEF RunHands, Isolate, Isolated, HandoffRaises, Restore, RestoreRefused, Restored
    <2> QED
        BY <2>1, <2>2 DEF NoHandoff, Cutting
<1>5. ~(hand'.op = "loss" /\ hand'.at \in Cutting) => RouteFits'
    BY <1>1, <1>2, <1>4 DEF RouteFits, slotVars, Critical
<1>6. hand' \in Handoff' /\ coord' \in Coordinator /\ lost' \in [isolated : BOOLEAN, messages : Nat]
      => MediaTypes'
    BY <1>1 DEF MediaTypes, slotVars, fileVars, Shutdown
<1>7. coord \in Coordinator /\ lost \in [isolated : BOOLEAN, messages : Nat]
    BY DEF MediaTypes
<1>8. CASE Isolate
    <2>1. /\ run = "armed" /\ run' = "handing" /\ hand = NoHandoff /\ UNCHANGED <<coord, lost>>
          /\ \/ hand' = [NoHandoff EXCEPT !.at = "failed"]
             \/ hand' = [NoHandoff EXCEPT !.op = "loss", !.at = "begin"]
        BY <1>8 DEF Isolate, RunFits
    <2>2. \/ hand'.op = "none" /\ hand'.at = "failed" /\ hand' = [NoHandoff EXCEPT !.at = hand'.at]
          \/ /\ hand'.op = "loss" /\ hand'.at = "begin" /\ ~hand'.mutated /\ hand'.next = 0
        BY <2>1 DEF NoHandoff
    <2>3. hand' \in Handoff'
        <3>1. CASE hand' = [NoHandoff EXCEPT !.at = "failed"]
            BY <3>1, HandEnds
        <3>2. CASE hand' = [NoHandoff EXCEPT !.op = "loss", !.at = "begin"]
            BY <3>2, HandBegins
        <3> QED
            BY <2>1, <3>1, <3>2
    <2>4. HandFits'
        BY <2>2 DEF HandFits, LossFits, Before, Cutting, Proving
    <2>5. RunFits'
        BY <1>1, <2>1, <2>2 DEF RunFits, slotVars, Critical, NoHandoff
    <2>6. IsolationFits'
        BY <1>1, <2>1, <2>2 DEF IsolationFits, IsolationAgrees, slotVars, NoHandoff
    <2> QED
        BY <1>3, <1>5, <1>6, <1>7, <2>1, <2>2, <2>3, <2>4, <2>5, <2>6 DEF Cutting
<1>9. CASE Restore
    <2>1. /\ run = "idle" /\ run' = "restoring" /\ hand = NoHandoff /\ UNCHANGED lost
          /\ lost.isolated /\ coord' = [coord EXCEPT !.state = "RESTORING"]
          /\ \/ hand' = [NoHandoff EXCEPT !.at = "refused"]
             \/ hand' = [NoHandoff EXCEPT !.op = "restore", !.at = "begin"]
        BY <1>9 DEF Restore, RunFits
    <2>2. \/ hand'.op = "none" /\ hand'.at = "refused" /\ hand' = [NoHandoff EXCEPT !.at = hand'.at]
          \/ hand'.op = "restore" /\ hand'.at = "begin" /\ ~hand'.mutated
        BY <2>1 DEF NoHandoff
    <2>3. hand' \in Handoff'
        <3>1. CASE hand' = [NoHandoff EXCEPT !.at = "refused"]
            BY <3>1, HandEnds
        <3>2. CASE hand' = [NoHandoff EXCEPT !.op = "restore", !.at = "begin"]
            BY <3>2, HandBegins
        <3> QED
            BY <2>1, <3>1, <3>2
    <2>4. ctx.isolated /\ ctx.active \in VideoSlots /\ slot[1].act = 0
        BY <2>1 DEF IsolationFits, IsolationAgrees, NoHandoff
    <2>5. HandFits'
        BY <1>1, <2>2, <2>4 DEF HandFits, RestoreFits, Opening, Proving, slotVars
    <2>6. RunFits'
        BY <1>1, <2>1, <2>2 DEF RunFits, slotVars, Critical, NoHandoff
    <2>7. coord' \in Coordinator /\ coord'.state = "RESTORING"
        BY <1>7, <2>1 DEF Coordinator
    <2>8. IsolationFits'
        BY <1>1, <2>1, <2>2, <2>4, <2>7 DEF IsolationFits, IsolationAgrees, slotVars
    <2> QED
        BY <1>3, <1>5, <1>6, <1>7, <2>1, <2>2, <2>3, <2>5, <2>6, <2>7, <2>8 DEF Cutting
<1>10. ASSUME Isolated \/ HandoffRaises \/ RestoreRefused \/ Restored PROVE MediaInd'
    <2>1. /\ hand' = NoHandoff /\ hand' \in Handoff' /\ hand'.op = "none" /\ hand'.at = "none"
          /\ hand' = [NoHandoff EXCEPT !.at = hand'.at]
        <3>1. hand' = NoHandoff
            BY <1>10 DEF Isolated, HandoffRaises, RestoreRefused, Restored
        <3>2. hand' = [NoHandoff EXCEPT !.at = "none"]
            BY <3>1 DEF NoHandoff
        <3> QED
            BY <3>1, <3>2, HandEnds
    <2>2. HandFits'
        BY <2>1 DEF HandFits
    <2>3. coord' \in Coordinator /\ lost' \in [isolated : BOOLEAN, messages : Nat]
        <3>1. \/ coord' = coord
              \/ coord' = [coord EXCEPT !.state = "UNAVAILABLE", !.attempts = 0,
                                        !.candidate = "none", !.confirmed = 0]
              \/ coord' = [coord EXCEPT !.state = "UNAVAILABLE", !.candidate = "none", !.confirmed = 0]
              \/ coord' = FreshCoord
            BY <1>10 DEF Isolated, HandoffRaises, RestoreRefused, Restored, LossObserved
        <3>2. \/ lost' = lost
              \/ lost' = [isolated |-> TRUE, messages |-> 1]
              \/ lost' = [isolated |-> FALSE, messages |-> 0]
            BY <1>10 DEF Isolated, HandoffRaises, RestoreRefused, Restored, Reconnected
        <3>3. coord' \in Coordinator
            <4>1. FreshCoord \in Coordinator
                BY DEF FreshCoord, Coordinator
            <4>2. [coord EXCEPT !.state = "UNAVAILABLE", !.attempts = 0,
                                !.candidate = "none", !.confirmed = 0] \in Coordinator
                BY <1>7 DEF Coordinator
            <4>3. [coord EXCEPT !.state = "UNAVAILABLE", !.candidate = "none", !.confirmed = 0]
                  \in Coordinator
                BY <1>7 DEF Coordinator
            <4> QED
                BY <1>7, <3>1, <4>1, <4>2, <4>3
        <3>4. lost' \in [isolated : BOOLEAN, messages : Nat]
            <4>1. /\ [isolated |-> TRUE, messages |-> 1] \in [isolated : BOOLEAN, messages : Nat]
                  /\ [isolated |-> FALSE, messages |-> 0] \in [isolated : BOOLEAN, messages : Nat]
                OBVIOUS
            <4> QED
                BY <1>7, <3>2, <4>1
        <3> QED
            BY <3>3, <3>4
    <2>4. /\ run \in {"handing", "restoring"}
          /\ run' \in {"classifying", "loop", "failed"}
          /\ Critical => run' = "failed"
        BY <1>10 DEF Isolated, HandoffRaises, RestoreRefused, Restored, RunFits
    <2>5. RunFits'
        BY <1>1, <2>1, <2>4 DEF RunFits, slotVars, Critical
    <2>6. IsolationFits'
        <3>1. CASE run' = "failed"
            BY <2>1, <3>1 DEF IsolationFits, IsolationAgrees
        <3>2. CASE run' # "failed"
            <4>1. hand.op = "none" /\ hand.at \in {"done", "refused"}
                BY <1>10, <3>2 DEF Isolated, HandoffRaises, RestoreRefused, Restored, RunFits, HandFits,
                                   LossFits, RestoreFits, Before, Cutting, Opening, Proving
            <4> ctx.isolated \in BOOLEAN
                BY DEF MediaTypes, Context
            <4>2. /\ lost'.isolated = ctx.isolated
                  /\ coord'.state = IF ctx.isolated THEN "UNAVAILABLE" ELSE "ACTIVE"
                <5>1. CASE Isolated
                    BY <1>7, <5>1 DEF Isolated, IsolationFits, LossObserved, Coordinator
                <5>2. CASE RestoreRefused
                    BY <1>7, <5>2 DEF RestoreRefused, IsolationFits, Coordinator
                <5>3. CASE Restored
                    <6>1. run = "restoring" /\ hand.at = "done" /\ run' = "loop"
                        BY <3>2, <5>3 DEF Restored
                    <6>2. ctx.isolated = FALSE
                        BY <6>1 DEF IsolationFits
                    <6>3. lost'.isolated = FALSE /\ coord'.state = "ACTIVE"
                        BY <5>3, <6>1 DEF Restored, FreshCoord, Reconnected
                    <6> QED
                        BY <6>2, <6>3
                <5> QED
                    BY <1>10, <3>2, <5>1, <5>2, <5>3 DEF HandoffRaises
            <4>3. ctx.isolated => ctx.active \in VideoSlots /\ slot[1].act = 0
                BY <2>4, <4>1 DEF IsolationFits
            <4> QED
                BY <1>1, <2>1, <2>4, <3>2, <4>2, <4>3 DEF IsolationFits, IsolationAgrees, slotVars
        <3> QED
            BY <3>1, <3>2
    <2> QED
        BY <1>3, <1>5, <1>6, <2>1, <2>2, <2>3, <2>5, <2>6
<1> QED
    BY <1>8, <1>9, <1>10 DEF RunHands

\* The loss is armed.
LEMMA ArmStep ==
    ASSUME MediaInd, Arm PROVE MediaInd'
<1> USE DEF MediaInd
<1>1. /\ run = "arm" /\ run' = "armed"
      /\ arbiter' = [arbiter EXCEPT !.armed = TRUE]
      /\ ctx' = [ctx EXCEPT !.quarantine = TRUE, !.errors = 0]
      /\ UNCHANGED <<slot, topology, hand, fileVars, bus, source, coord, lost, shut, pipe>>
    BY DEF Arm, ArmLoss
<1>2. ctx' \in Context /\ ContextAlike /\ ctx.active \in Slots
    <2>1. ctx \in Context
        BY DEF MediaTypes
    <2> QED
        BY <1>1, <2>1 DEF Context, ContextAlike
<1>3. arbiter' \in EosArbiter /\ ArbiterFits'
    BY <1>1 DEF MediaTypes, EosArbiter, ArbiterFits
<1>4. SlotsAlike
    BY <1>1 DEF SlotsAlike
<1>5. MediaTypes'
    BY <1>1, <1>2, <1>3 DEF MediaTypes, fileVars, Handoff, Shutdown
<1>6. RouteFits' /\ TopologyFits' /\ FilesFit'
    BY <1>1, <1>2, <1>4, RouteFrame, TopologyFrame, FilesFrame DEF SlotsAlike
<1>7. hand = NoHandoff
    BY <1>1 DEF RunFits
<1>8. HandFits'
    BY <1>1, <1>7 DEF HandFits, NoHandoff
<1>9. RunFits' /\ IsolationFits'
    BY <1>1, <1>2, <1>7 DEF RunFits, IsolationFits, IsolationAgrees, ContextAlike, Critical, NoHandoff
<1> QED
    BY <1>3, <1>5, <1>6, <1>8, <1>9

\* The arbiter forwards one EOS at most.
LEMMA Observes ==
    ASSUME MediaInd, NEW exact \in BOOLEAN, ObserveEos(exact)
    PROVE  arbiter' \in EosArbiter /\ ArbiterFits'
<1>1. arbiter \in EosArbiter /\ ArbiterFits
    BY DEF MediaInd, MediaTypes
<1>2. \/ arbiter' = [arbiter EXCEPT !.state = "GENERATION", !.forwarded = @ + 1]
         /\ arbiter.state = "GENERATION_ARMED"
      \/ arbiter' = [arbiter EXCEPT !.foreign = @ + 1,
                                    !.state = IF arbiter.foreign >= 1 THEN "REFUSED" ELSE @]
      \/ arbiter' = [arbiter EXCEPT !.state = "NATURAL", !.forwarded = @ + 1] /\ arbiter.state = "OPEN"
      \/ arbiter' = [arbiter EXCEPT !.state = "REFUSED"]
    BY DEF ObserveEos
<1>3. arbiter.forwarded + 1 \in Nat /\ arbiter.foreign + 1 \in Nat
    BY <1>1 DEF EosArbiter
<1>4. CASE arbiter' = [arbiter EXCEPT !.state = "GENERATION", !.forwarded = @ + 1]
           /\ arbiter.state = "GENERATION_ARMED"
    <2>1. arbiter.forwarded = 0
        BY <1>1, <1>4 DEF ArbiterFits
    <2> DEFINE a == [arbiter EXCEPT !.state = "GENERATION", !.forwarded = 1]
    <2>2. a \in EosArbiter /\ a.forwarded = 1 /\ a.state = "GENERATION"
        BY <1>1 DEF EosArbiter
    <2>3. arbiter' = a
        BY <1>4, <2>1
    <2> QED
        BY <2>2, <2>3 DEF EosArbiter, ArbiterFits
<1>5. CASE arbiter' = [arbiter EXCEPT !.foreign = @ + 1,
                                      !.state = IF arbiter.foreign >= 1 THEN "REFUSED" ELSE @]
    BY <1>1, <1>3, <1>5 DEF EosArbiter, ArbiterFits
<1>6. CASE arbiter' = [arbiter EXCEPT !.state = "NATURAL", !.forwarded = @ + 1] /\ arbiter.state = "OPEN"
    <2>1. arbiter.forwarded = 0
        BY <1>1, <1>6 DEF ArbiterFits
    <2> DEFINE a == [arbiter EXCEPT !.state = "NATURAL", !.forwarded = 1]
    <2>2. a \in EosArbiter /\ a.forwarded = 1 /\ a.state = "NATURAL"
        BY <1>1 DEF EosArbiter
    <2>3. arbiter' = a
        BY <1>6, <2>1
    <2> QED
        BY <2>2, <2>3 DEF EosArbiter, ArbiterFits
<1>7. CASE arbiter' = [arbiter EXCEPT !.state = "REFUSED"]
    BY <1>1, <1>7 DEF EosArbiter, ArbiterFits
<1> QED
    BY <1>2, <1>4, <1>5, <1>6, <1>7

\* The slots as a step that changes one of them leaves them.
LEMMA OneSlot ==
    ASSUME slot \in [Slots -> Generation], NEW s \in Slots, NEW q \in Generation,
           slot' = [slot EXCEPT ![s] = q]
    PROVE  /\ slot' \in [Slots -> Generation] /\ slot'[s] = q
           /\ \A t \in Slots : t # s => slot'[t] = slot[t]
    OBVIOUS

\* A single route is the one the driver has.
LEMMA FoundRoute ==
    ASSUME RouteFits, UniqueRoute
    PROVE  TheRoute \in Slots /\ Routes = {TheRoute}
<1>1. PICK x \in Slots : Routes \subseteq {x}
    BY DEF RouteFits
<1>2. Routes # {}
    <2>1. Cardinality(Routes) = 1
        BY DEF UniqueRoute, Routes
    <2> QED
        BY <2>1, FS_EmptySet
<1>3. \E s \in Slots : Routed(s)
    BY <1>2 DEF Routes
<1>4. TheRoute \in Slots /\ Routed(TheRoute)
    BY <1>3 DEF TheRoute
<1> QED
    BY <1>1, <1>4 DEF Routes

\* EOS goes into the pipeline; a video-only slot is closed for it.
LEMMA EosStep ==
    ASSUME MediaInd, EosSent PROVE MediaInd'
<1> USE DEF MediaInd
<1>1. PICK parent \in BOOLEAN : SendEos(parent)
    BY DEF EosSent
<1>2. /\ shut.at = "eos" /\ shut' = [shut EXCEPT !.at = "drain"] /\ DriverFree
      /\ UNCHANGED <<topology, hand, fileVars, source, run, coord, lost, pipe>>
    BY DEF EosSent
<1>3. hand = NoHandoff /\ hand.op = "none" /\ hand.at = "none" /\ pipe \in {"created", "playing"}
      /\ (Critical => run = "failed")
    BY <1>2 DEF RunFits, DriverFree, NoHandoff
<1>4. slot \in [Slots -> Generation] /\ ctx \in Context /\ 1 \in Slots
    BY DEF MediaTypes, Slots
<1>5. shut' \in Shutdown' /\ shut'.at = "drain"
    BY <1>2 DEF MediaTypes, Shutdown
<1>6. /\ slot' \in [Slots -> Generation] /\ ctx' \in Context /\ arbiter' \in EosArbiter /\ bus' \in Seq(Messages)
      /\ ArbiterFits' /\ FilesFit' /\ RouteFits' /\ TopologyFits'
      /\ ctx'.isolated = ctx.isolated
      /\ run # "failed" => ctx'.active = ctx.active
      /\ slot'[1].act = slot[1].act
      /\ Critical' => Critical
    <2>1. CASE ctx.phase = "LOSS_CONTAINMENT_CRITICAL"
        <3>1. slot' = [slot EXCEPT ![1].eosSent = TRUE] /\ UNCHANGED <<ctx, arbiter, bus>>
            BY <1>1, <2>1 DEF SendEos
        <3> DEFINE q == [slot[1] EXCEPT !.eosSent = TRUE]
        <3>2. slot' \in [Slots -> Generation] /\ SlotsAlike
            <4>1. q \in Generation /\ q.linked = slot[1].linked /\ q.open = slot[1].open
                  /\ q.act = slot[1].act
                BY <1>4 DEF Generation
            <4>2. slot' = [slot EXCEPT ![1] = q]
                BY <3>1
            <4> QED
                BY <1>4, <4>1, <4>2, SlotChanged
        <3>3. ContextAlike /\ ctx.active \in Slots
            BY <1>4, <3>1 DEF ContextAlike, Context
        <3>4. RouteFits' /\ TopologyFits' /\ FilesFit'
            BY <1>2, <3>1, <3>2, <3>3, RouteFrame, TopologyFrame, FilesFrame DEF SlotsAlike
        <3> QED
            BY <1>4, <3>1, <3>2, <3>3, <3>4 DEF MediaTypes, ArbiterFits, SlotsAlike, Critical
    <2>2. CASE ctx.phase # "LOSS_CONTAINMENT_CRITICAL"
        <3> DEFINE s == TheRoute
        <3>1. /\ UniqueRoute
              /\ ctx' = [ctx EXCEPT !.active = s,
                                    !.phase = IF s = 1 THEN "AV_ACTIVE" ELSE "VIDEO_ONLY_CLOSING"]
              /\ s = 1 => /\ slot' = [slot EXCEPT ![1].eosSent = TRUE]
                          /\ ObserveEos(FALSE)
                          /\ bus' = IF parent THEN Append(bus, [kind |-> "eos"]) ELSE bus
              /\ s # 1 => /\ slot' = [slot EXCEPT ![s].open = FALSE, ![s].linked = FALSE,
                                                  ![s].eosSent = TRUE]
                          /\ UNCHANGED <<arbiter, bus>>
            BY <1>1, <2>2 DEF SendEos
        <3>2. s \in Slots /\ Routes = {s}
            BY <3>1, FoundRoute
        <3> HIDE DEF s
        <3>3. /\ ctx' \in Context /\ ctx'.active = s /\ ctx'.isolated = ctx.isolated
              /\ ctx'.phase = IF s = 1 THEN "AV_ACTIVE" ELSE "VIDEO_ONLY_CLOSING"
            BY <1>4, <3>1, <3>2 DEF Context, Phases
        <3>4. ~Critical => ctx.active = s
            BY <1>3, <3>2 DEF RouteFits, Cutting
        <3>5. ~Critical'
            BY <3>3 DEF Critical
        <3> DEFINE q == IF s = 1 THEN [slot[1] EXCEPT !.eosSent = TRUE]
                        ELSE [slot[s] EXCEPT !.open = FALSE, !.linked = FALSE, !.eosSent = TRUE]
        <3>6. q \in Generation /\ q.act = slot[s].act /\ (s # 1 => ~q.linked)
              /\ (s = 1 => q.linked = slot[1].linked /\ q.open = slot[1].open)
            BY <1>4, <3>2 DEF Generation
        <3>7. slot' = [slot EXCEPT ![s] = q]
            BY <3>1
        <3> HIDE DEF q
        <3>8. slot' \in [Slots -> Generation] /\ slot'[s] = q /\ \A t \in Slots : t # s => slot'[t] = slot[t]
            BY <1>4, <3>2, <3>6, <3>7, OneSlot
        <3>9. \A t \in Slots : slot'[t].act = slot[t].act
            BY <3>6, <3>8
        <3>10. FilesFit' /\ bus' \in Seq(Messages)
            <4>1. CASE bus' = bus
                BY <4>1, <1>2, <3>9, FilesFrame DEF MediaTypes
            <4>2. CASE s = 1 /\ bus' = Append(bus, [kind |-> "eos"])
                <5>1. SlotsAlike
                    BY <4>2, <3>6, <3>8 DEF SlotsAlike
                <5>2. [kind |-> "eos"] \in Messages
                    BY DEF Messages
                <5> QED
                    BY <4>2, <5>1, <5>2, <1>2, FilesPosted, Posted DEF Post, MediaTypes
            <4> QED
                BY <4>1, <4>2, <3>1
        <3>11. arbiter' \in EosArbiter /\ ArbiterFits'
            BY <3>1, Observes DEF MediaTypes, ArbiterFits
        <3>12. Routes' = IF s = 1 THEN {1} ELSE {}
            BY <3>2, <3>6, <3>8 DEF Routes, Routed
        <3>13. RouteFits'
            BY <1>2, <1>3, <3>2, <3>3, <3>6, <3>8, <3>12 DEF RouteFits
        <3>14. TopologyFits'
            BY <1>2, <3>3, <3>4, <3>5, <3>9, <3>2 DEF TopologyFits, StableTopologyTrue
        <3> QED
            BY <1>3, <1>4, <3>3, <3>4, <3>5, <3>8, <3>9, <3>10, <3>11, <3>13, <3>14
    <2> QED
        BY <2>1, <2>2
<1>7. MediaTypes'
    BY <1>2, <1>5, <1>6 DEF MediaTypes, fileVars, Handoff
<1>8. HandFits'
    BY <1>2, <1>3 DEF HandFits, NoHandoff
<1>9. RunFits'
    BY <1>2, <1>3, <1>5, <1>6 DEF RunFits, MediaTypes, Shutdown, NoHandoff
<1>10. IsolationFits'
    BY <1>2, <1>3, <1>6 DEF IsolationFits, IsolationAgrees
<1> QED
    BY <1>6, <1>7, <1>8, <1>9, <1>10

\* The pipeline is taken down, with every route.
LEMMA NullStep ==
    ASSUME MediaInd, SetNull PROVE MediaInd'
<1> USE DEF MediaInd
<1>1. /\ shut.at = "null" /\ DriverFree
      /\ slot' = [s \in Slots |-> [slot[s] EXCEPT !.linked = FALSE]]
      /\ pipe' = "null" /\ shut' = [shut EXCEPT !.at = "done"]
      /\ UNCHANGED <<arbiter, ctx, topology, hand, fileVars, bus, source, run, coord, lost>>
    BY DEF SetNull
<1>2. slot \in [Slots -> Generation] /\ ctx \in Context
    BY DEF MediaTypes
<1>3. slot' \in [Slots -> Generation] /\ \A s \in Slots : slot'[s].act = slot[s].act /\ ~slot'[s].linked
    <2>1. ASSUME NEW s \in Slots
          PROVE  /\ [slot[s] EXCEPT !.linked = FALSE] \in Generation
                 /\ [slot[s] EXCEPT !.linked = FALSE].act = slot[s].act
                 /\ ~[slot[s] EXCEPT !.linked = FALSE].linked
        BY <1>2 DEF Generation
    <2> QED
        BY <1>1, <2>1
<1>4. shut' \in Shutdown' /\ shut'.at = "done"
    BY <1>1 DEF MediaTypes, Shutdown
<1>5. hand = NoHandoff
    BY <1>1 DEF RunFits, DriverFree
<1>6. MediaTypes'
    BY <1>1, <1>3, <1>4 DEF MediaTypes, fileVars, Handoff
<1>7. ArbiterFits' /\ FilesFit'
    BY <1>1, <1>3, FilesFrame DEF ArbiterFits
<1>8. RouteFits'
    <2>1. Routes' = {}
        BY <1>3 DEF Routes, Routed
    <2> QED
        BY <1>1, <1>2, <1>3, <2>1 DEF RouteFits, Context, Slots
<1>9. HandFits'
    BY <1>1, <1>5 DEF HandFits, NoHandoff
<1>10. RunFits'
    BY <1>1, <1>4, <1>5 DEF RunFits, Critical, NoHandoff
<1>11. TopologyFits' /\ IsolationFits'
    BY <1>1, <1>2, <1>3 DEF TopologyFits, StableTopologyTrue, Critical, IsolationFits, IsolationAgrees,
                            Context, Slots
<1> QED
    BY <1>6, <1>7, <1>8, <1>9, <1>10, <1>11

-----------------------------------------------------------------------------
(* The steps of a handoff *)

\* Who is in the middle of a handoff.
LEMMA InHandoff ==
    ASSUME MediaInd
    PROVE  /\ hand.op = "loss" => run = "handing" /\ LossFits /\ ~Critical
           /\ hand.op = "restore" => run = "restoring" /\ RestoreFits /\ ~Critical
<1> USE DEF MediaInd
<1>1. hand.op = "loss" => run = "handing" /\ LossFits
    BY DEF RunFits, HandFits, NoHandoff
<1>2. hand.op = "restore" => run = "restoring" /\ RestoreFits
    BY DEF RunFits, HandFits, NoHandoff
<1>3. hand.op \in {"loss", "restore"} => hand.at # "failed" /\ run # "failed"
    BY <1>1, <1>2 DEF LossFits, RestoreFits, Before, Cutting, Opening, Proving
<1> QED
    BY <1>1, <1>2, <1>3 DEF RunFits

\* What a handoff that goes on leaves to run().
LEMMA GoesOn ==
    ASSUME MediaInd, UNCHANGED backendVars, hand'.op = hand.op, ~Critical',
           \/ hand.op = "loss" /\ LossFits'
           \/ hand.op = "restore" /\ RestoreFits'
    PROVE  HandFits' /\ RunFits' /\ IsolationFits'
<1> USE DEF MediaInd
<1>1. UNCHANGED <<run, coord, lost, shut, pipe>>
    BY DEF backendVars
<1>2. CASE hand.op = "loss"
    <2>1. run = "handing" /\ LossFits'
        BY <1>2, InHandoff
    <2> QED
        BY <1>1, <1>2, <2>1 DEF HandFits, RunFits, IsolationFits, IsolationAgrees, LossFits,
                                Before, Cutting, Proving
<1>3. CASE hand.op = "restore"
    <2>1. run = "restoring" /\ RestoreFits'
        BY <1>3, InHandoff
    <2> QED
        BY <1>1, <1>3, <2>1 DEF HandFits, RunFits, IsolationFits, IsolationAgrees, RestoreFits,
                                Opening, Proving
<1> QED
    BY <1>2, <1>3

\* What a handoff that ends leaves to run().
LEMMA GoesOut ==
    ASSUME MediaInd, UNCHANGED backendVars, hand.op \in {"loss", "restore"},
           NEW a \in {"done", "failed", "refused"}, hand' = [NoHandoff EXCEPT !.at = a],
           a = "refused" => hand.op = "restore" /\ ctx'.isolated,
           a = "done" => ctx'.isolated = (hand.op = "loss"),
           Critical' => a = "failed",
           ctx'.isolated /\ a # "failed" => ctx'.active \in VideoSlots /\ slot'[1].act = 0
    PROVE  hand' \in Handoff' /\ HandFits' /\ RunFits' /\ IsolationFits'
<1> USE DEF MediaInd
<1>1. UNCHANGED <<run, coord, lost, shut, pipe>>
    BY DEF backendVars
<1>2. hand' \in Handoff' /\ hand'.op = "none" /\ hand'.at = a /\ hand' = [NoHandoff EXCEPT !.at = hand'.at]
    BY HandEnds
<1>3. run = (IF hand.op = "loss" THEN "handing" ELSE "restoring")
    BY InHandoff
<1>4. HandFits'
    BY <1>2 DEF HandFits
<1>5. RunFits'
    BY <1>1, <1>2, <1>3 DEF RunFits
<1>6. IsolationFits'
    BY <1>1, <1>2, <1>3 DEF IsolationFits, IsolationAgrees
<1> QED
    BY <1>2, <1>4, <1>5, <1>6

\* A transition says so.
LEMMA Moved ==
    ASSUME MediaInd, NEW k \in {"handoff_in_progress", "faulted_handoff"}, Transition(k)
    PROVE  topology' \in Published /\ topology'.kind = k /\ topology'.kind # "stable"
<1>1. topology \in Published
    BY DEF MediaInd, MediaTypes
<1> QED
    BY <1>1 DEF Transition, Published

\* The dead source and the reserved event reach slot 1.
LEMMA EosSteps ==
    ASSUME MediaInd, pipe = "playing", UNCHANGED backendVars, NaturalEos \/ GenerationEos
    PROVE  MediaInd'
<1> USE DEF MediaInd
<1>1. UNCHANGED <<ctx, topology, hand, fileVars, bus, inbox>> /\ \E exact \in BOOLEAN : ObserveEos(exact)
    BY DEF NaturalEos, GenerationEos
<1>2. arbiter' \in EosArbiter /\ ArbiterFits'
    BY <1>1, Observes
<1>3. slot' \in [Slots -> Generation] /\ SlotsAlike
    <2>1. CASE slot' = slot
        BY <2>1 DEF SlotsAlike, MediaTypes
    <2>2. CASE slot' = [slot EXCEPT ![1].eosSent = TRUE]
        <3> DEFINE q == [slot[1] EXCEPT !.eosSent = TRUE]
        <3>1. q \in Generation /\ q.linked = slot[1].linked /\ q.open = slot[1].open
              /\ q.act = slot[1].act /\ 1 \in Slots
            <4>1. slot[1] \in Generation /\ 1 \in Slots
                BY DEF MediaTypes, Slots
            <4> QED
                BY <4>1 DEF Generation
        <3>2. slot' = [slot EXCEPT ![1] = q]
            BY <2>2
        <3> QED
            BY <3>1, <3>2, SlotChanged
    <2> QED
        BY <2>1, <2>2 DEF NaturalEos, GenerationEos
<1>4. source' \in [id : Nat, alive : BOOLEAN, losses : Nat, eos : Nat, broken : BOOLEAN]
    <2>1. source \in [id : Nat, alive : BOOLEAN, losses : Nat, eos : Nat, broken : BOOLEAN]
        BY DEF MediaTypes
    <2>2. \/ source' = source
          \/ source.eos > 0 /\ source' = [source EXCEPT !.eos = @ - 1]
        BY DEF NaturalEos, GenerationEos
    <2> QED
        BY <2>1, <2>2
<1>5. ContextAlike /\ ctx.active \in Slots
    BY <1>1 DEF ContextAlike, MediaTypes, Context
<1>6. MediaTypes'
    BY <1>1, <1>2, <1>3, <1>4 DEF MediaTypes, fileVars, backendVars, Handoff, Shutdown
<1>7. RouteFits' /\ FilesFit' /\ TopologyFits' /\ IsolationFits'
    BY <1>1, <1>3, <1>5, RouteFrame, FilesFrame, TopologyFrame, IsolationFrame DEF SlotsAlike, backendVars
<1>8. HandFits'
    <2>1. \A s \in Slots : Unused(s) => Unused(s)'
        BY <1>1, <1>3 DEF Unused, SlotsAlike, fileVars
    <2> QED
        BY <1>1, <1>3, <1>5, <2>1, HeldRoute, HandFrame
<1>9. RunFits'
    BY <1>1 DEF RunFits, Critical, backendVars
<1> QED
    BY <1>2, <1>6, <1>7, <1>8, <1>9

\* The steps of a handoff that move neither a route nor the verdict on it.
HandoffWaits ==
    LossRequestIdr \/ IdrArrives \/ LossIdrEarly \/ LossIdrHeld \/ LossReserve

\* Between its cuts a loss waits for its IDR and for its EOS.
LEMMA WaitSteps ==
    ASSUME MediaInd, pipe = "playing", UNCHANGED backendVars, HandoffWaits
    PROVE  MediaInd'
<1> USE DEF MediaInd
<1>1. /\ UNCHANGED <<slot, topology, fileVars, bus, inbox, source>> /\ hand.op = "loss"
      /\ \/ ctx' = ctx
         \/ ctx' = [ctx EXCEPT !.phase = "LOSS_BOUNDARY_COMMITTED"]
      /\ \/ arbiter' = arbiter
         \/ MayReserve /\ arbiter' = [arbiter EXCEPT !.state = "GENERATION_ARMED"]
    BY DEF HandoffWaits, LossRequestIdr, IdrArrives, LossIdrEarly, LossIdrHeld, LossReserve, slotVars
<1>2. run = "handing" /\ LossFits /\ ~Critical
    BY <1>1, InHandoff
<1>3. arbiter' \in EosArbiter /\ ArbiterFits'
    BY <1>1 DEF MediaTypes, EosArbiter, ArbiterFits, MayReserve
<1>4. hand \in Handoff
    BY DEF MediaTypes
<1>5. /\ hand' \in Handoff' /\ hand'.op = "loss" /\ hand'.next = hand.next
      /\ hand'.mutated = hand.mutated
      /\ \/ hand'.at = hand.at
         \/ hand.at = "linked" /\ hand'.at = "idle"
         \/ hand.at \in {"idr", "boundary"} /\ hand'.at \in {"boundary", "dispatched"}
      /\ hand.at # "begin"
    <2>1. CASE LossRequestIdr
        <3>1. PICK l : hand' = [hand EXCEPT !.at = "idle", !.location = l] /\ hand.at = "linked"
            BY <2>1 DEF LossRequestIdr
        <3> QED
            BY <1>1, <1>4, <3>1, Relocated DEF Before
    <2>2. CASE IdrArrives
        <3>1. hand' = [hand EXCEPT !.held = TRUE] /\ hand.at \in {"idle", "idr"}
            BY <2>2 DEF IdrArrives
        <3> QED
            BY <1>1, <1>4, <3>1 DEF Handoff
    <2>3. CASE LossIdrEarly
        <3>1. hand' = [hand EXCEPT !.held = FALSE, !.retry = TRUE] /\ hand.at = "idr"
            BY <2>3 DEF LossIdrEarly
        <3> QED
            BY <1>1, <1>4, <3>1 DEF Handoff
    <2>4. CASE LossIdrHeld \/ LossReserve
        <3>1. \/ hand' = [hand EXCEPT !.at = "boundary"] /\ hand.at = "idr"
              \/ hand' = [hand EXCEPT !.at = "dispatched"] /\ hand.at = "boundary"
            BY <2>4 DEF LossIdrHeld, LossReserve
        <3> QED
            BY <1>1, <1>4, <3>1 DEF Handoff, Cutting
    <2> QED
        BY <2>1, <2>2, <2>3, <2>4 DEF HandoffWaits
<1>6. /\ ctx' \in Context /\ ctx'.active = ctx.active /\ ctx'.isolated = ctx.isolated
      /\ ctx'.phase \in {ctx.phase, "LOSS_BOUNDARY_COMMITTED"}
    <2>1. ctx \in Context
        BY DEF MediaTypes
    <2> QED
        BY <1>1, <2>1 DEF Context, Phases
<1>7. SlotsAlike /\ Routes' = Routes /\ ~Critical'
    BY <1>1, <1>2, <1>6 DEF SlotsAlike, Routes, Routed, Critical
<1>8. MediaTypes'
    BY <1>1, <1>3, <1>5, <1>6 DEF MediaTypes, fileVars, backendVars, Shutdown
<1>9. FilesFit'
    BY <1>1, <1>7, FilesFrame DEF SlotsAlike
<1>10. ctx.phase # "VIDEO_ONLY_CLOSING" /\ ctx'.phase # "VIDEO_ONLY_CLOSING"
    BY <1>2, <1>5, <1>6 DEF LossFits
<1>11. (hand'.at \in Cutting) = (hand.at \in Cutting)
    BY <1>5 DEF Cutting
<1>12. RouteFits'
    BY <1>1, <1>2, <1>5, <1>6, <1>7, <1>10, <1>11 DEF RouteFits, backendVars
<1>13. LossFits'
    <2>1. UNCHANGED <<slot, topology, owners>>
        BY <1>1 DEF fileVars
    <2>2. Unused(hand.next)' = Unused(hand.next) /\ Unused(hand'.next) = Unused(hand.next)
        BY <2>1, <1>5 DEF Unused
    <2> QED
        BY <1>2, <1>5, <1>6, <1>10, <2>1, <2>2 DEF LossFits, Before, Cutting, Proving, Unused
<1>14. HandFits' /\ RunFits' /\ IsolationFits'
    BY <1>1, <1>5, <1>7, <1>13, GoesOn
<1>15. TopologyFits'
    BY <1>1, <1>6, <1>7 DEF TopologyFits, StableTopologyTrue
<1> QED
    BY <1>3, <1>8, <1>9, <1>12, <1>14, <1>15

\* A step of the driver after which everything fits that it may disturb.
LEMMA DriverTyped ==
    ASSUME MediaTypes, UNCHANGED backendVars, UNCHANGED <<fileVars, bus>>,
           slot' \in [Slots -> Generation], ctx' \in Context, hand' \in Handoff',
           topology' \in Published, arbiter' \in EosArbiter,
           source' \in [id : Nat, alive : BOOLEAN, losses : Nat, eos : Nat, broken : BOOLEAN]
    PROVE  MediaTypes'
BY DEF MediaTypes, fileVars, backendVars, Shutdown

\* The successor is linked behind a closed valve.
LEMMA LossPrepareStep ==
    ASSUME MediaInd, pipe = "playing", UNCHANGED backendVars, LossPrepare
    PROVE  MediaInd'
<1> USE DEF MediaInd
<1>1. Successor \in Eligible
    <2>1. Eligible \subseteq {2, 3} /\ Eligible # {}
        BY DEF LossPrepare, Eligible, VideoSlots
    <2>2. \E x \in Eligible : \A t \in Eligible : x <= t
        <3>1. CASE 2 \in Eligible
            BY <2>1, <3>1
        <3>2. CASE 2 \notin Eligible
            <4>1. 3 \in Eligible /\ \A t \in Eligible : t = 3
                BY <2>1, <3>2
            <4> QED
                BY <4>1
        <3> QED
            BY <3>1, <3>2
    <2> QED
        BY <2>2 DEF Successor
<1>1a. PICK s : s = Successor
    OBVIOUS
<1>2. /\ s \in VideoSlots /\ s \in Slots /\ s \in Nat /\ 5 - s \in Nat /\ s \in 0..3
      /\ ~slot[s].linked /\ slot[s].act = 0
    BY <1>1, <1>1a DEF Eligible, VideoSlots, Slots
<1>3. /\ hand.op = "loss" /\ hand.at = "begin" /\ ~ctx.isolated /\ ctx.active = 1
      /\ Prewarmable(s) /\ slot[1].linked
      /\ slot' = Linked(Activated(slot, s), s, TRUE)
      /\ ctx' = [ctx EXCEPT !.nextAct = @ + 1, !.nextVideo = 5 - s, !.phase = "SWITCHING"]
      /\ hand' = [hand EXCEPT !.at = "linked", !.next = s, !.prior = ctx.nextVideo]
      /\ Transition("handoff_in_progress")
      /\ UNCHANGED <<arbiter, fileVars, bus, inbox, source>>
    BY <1>1a DEF LossPrepare
<1>4. run = "handing" /\ LossFits /\ ~Critical
    BY <1>3, InHandoff
<1>5. slot \in [Slots -> Generation] /\ ctx \in Context /\ hand \in Handoff
    BY DEF MediaTypes
<1> DEFINE q == [slot[s] EXCEPT !.act = ctx.nextAct, !.reusable = FALSE, !.linked = TRUE]
<1>6. q \in Generation /\ q.act = ctx.nextAct /\ q.linked /\ ~q.open
    <2>1. ctx.nextAct \in Nat /\ slot[s] \in Generation /\ ~slot[s].open
        BY <1>2, <1>3, <1>5 DEF Context, Prewarmable
    <2> QED
        BY <2>1 DEF Generation
<1>7. slot' = [slot EXCEPT ![s] = q]
    BY <1>2, <1>3, <1>5 DEF Linked, Activated
<1> HIDE DEF q
<1>8. slot' \in [Slots -> Generation] /\ slot'[s] = q /\ \A t \in Slots : t # s => slot'[t] = slot[t]
    BY <1>2, <1>5, <1>6, <1>7, OneSlot
<1>9. /\ ctx' \in Context /\ ctx'.active = 1 /\ ~ctx'.isolated /\ ctx'.phase = "SWITCHING"
    <2>1. ctx.nextAct + 1 \in Nat \ {0}
        BY <1>5 DEF Context
    <2> QED
        BY <1>2, <1>3, <1>5, <2>1 DEF Context, Phases
<1>10. /\ hand' \in Handoff' /\ hand'.op = "loss" /\ hand'.at = "linked" /\ hand'.next = s
       /\ hand'.mutated = hand.mutated
    <2>1. ctx.nextVideo \in Nat
        BY <1>5 DEF Context
    <2>2. hand'.location = hand.location
        BY <1>3, <1>5 DEF Handoff
    <2> QED
        BY <1>2, <1>3, <1>5, <2>1, <2>2 DEF Handoff, Before
<1>11. topology' \in Published /\ topology'.kind = "handoff_in_progress"
    BY <1>3, Moved
<1>12. MediaTypes'
    BY <1>3, <1>8, <1>9, <1>10, <1>11, DriverTyped DEF MediaTypes
<1>13. ArbiterFits' /\ FilesFit'
    BY <1>2, <1>3, <1>8, FilesFrame DEF ArbiterFits
<1>14. ~Critical'
    BY <1>9 DEF Critical
<1>15. ctx.phase # "VIDEO_ONLY_CLOSING" /\ Routes = {1}
    BY <1>3, <1>4 DEF RouteFits, Cutting
<1>16. Routes' = Routes
    BY <1>2, <1>6, <1>8 DEF Routes, Routed
<1>17. RouteFits'
    BY <1>9, <1>10, <1>15, <1>16 DEF RouteFits, Cutting, Slots
<1>18. LossFits'
    <2>1. Unused(s)'
        BY <1>3, <1>6, <1>8 DEF Prewarmable, Unused, fileVars
    <2>2. Unused(hand.next)'
        BY <2>1, <1>10 DEF Unused
    <2> QED
        BY <1>2, <1>3, <1>4, <1>6, <1>8, <1>9, <1>10, <1>11, <2>2
           DEF LossFits, Before, Cutting, Proving
<1>19. HandFits' /\ RunFits' /\ IsolationFits'
    BY <1>3, <1>10, <1>14, <1>18, GoesOn
<1>20. TopologyFits'
    BY <1>11, <1>14 DEF TopologyFits, StableTopologyTrue
<1> QED
    BY <1>12, <1>13, <1>17, <1>19, <1>20

\* The old route is cut while the IDR is awaited.
LEMMA LossCutStep ==
    ASSUME MediaInd, pipe = "playing", UNCHANGED backendVars, LossCut
    PROVE  MediaInd'
<1> USE DEF MediaInd
<1>1. /\ hand.op = "loss" /\ hand.at = "idle"
      /\ slot' = [slot EXCEPT ![1].open = FALSE]
      /\ ctx' = [ctx EXCEPT !.phase = "LOSS_CUT_PENDING_IDR_PROOF"]
      /\ hand' = [hand EXCEPT !.at = "idr", !.mutated = TRUE]
      /\ UNCHANGED <<arbiter, topology, fileVars, bus, inbox, source>>
    BY DEF LossCut, Opened
<1>2. run = "handing" /\ LossFits /\ ~Critical
    BY <1>1, InHandoff
<1>3. slot \in [Slots -> Generation] /\ ctx \in Context /\ hand \in Handoff /\ 1 \in Slots
    BY DEF MediaTypes, Slots
<1> DEFINE q == [slot[1] EXCEPT !.open = FALSE]
<1>4. q \in Generation /\ ~q.open /\ q.linked = slot[1].linked /\ q.act = slot[1].act
    BY <1>3 DEF Generation
<1>5. slot' = [slot EXCEPT ![1] = q]
    BY <1>1
<1> HIDE DEF q
<1>6. slot' \in [Slots -> Generation] /\ slot'[1] = q /\ \A t \in Slots : t # 1 => slot'[t] = slot[t]
    BY <1>3, <1>4, <1>5, OneSlot
<1>7. /\ ctx' \in Context /\ ctx'.active = ctx.active /\ ctx'.isolated = ctx.isolated
      /\ ctx'.phase = "LOSS_CUT_PENDING_IDR_PROOF"
    BY <1>1, <1>3 DEF Context, Phases
<1>8. /\ hand' \in Handoff' /\ hand'.op = "loss" /\ hand'.at = "idr" /\ hand'.next = hand.next
      /\ hand'.mutated
    BY <1>1, <1>3 DEF Handoff, Cutting
<1>9. MediaTypes'
    BY <1>1, <1>6, <1>7, <1>8, DriverTyped DEF MediaTypes
<1>10. ArbiterFits' /\ FilesFit'
    BY <1>1, <1>4, <1>6, FilesFrame DEF ArbiterFits
<1>11. ~Critical'
    BY <1>7 DEF Critical
<1>12. ctx.active = 1 /\ ctx.phase # "VIDEO_ONLY_CLOSING" /\ hand.next \in VideoSlots
       /\ slot[hand.next].linked /\ ~slot[hand.next].open /\ ~ctx.isolated
       /\ topology.kind = "handoff_in_progress"
    BY <1>1, <1>2 DEF LossFits, Before
<1>13. Routes = {1}
    BY <1>1, <1>2, <1>12 DEF RouteFits, Cutting
<1>14. Routes' = {}
    BY <1>4, <1>6, <1>13 DEF Routes, Routed
<1>15. RouteFits'
    BY <1>7, <1>8, <1>14 DEF RouteFits, Cutting, Slots
<1>16. LossFits'
    BY <1>1, <1>6, <1>7, <1>8, <1>12 DEF LossFits, Before, Cutting, Proving, VideoSlots, Slots
<1>17. HandFits' /\ RunFits' /\ IsolationFits'
    BY <1>1, <1>8, <1>11, <1>16, GoesOn
<1>18. TopologyFits'
    BY <1>1, <1>11, <1>12 DEF TopologyFits, StableTopologyTrue
<1> QED
    BY <1>9, <1>10, <1>15, <1>17, <1>18

\* The new route is opened behind the held IDR.
LEMMA LossRouteStep ==
    ASSUME MediaInd, pipe = "playing", UNCHANGED backendVars, LossRoute
    PROVE  MediaInd'
<1> USE DEF MediaInd
<1> DEFINE s == hand.next
<1>1. /\ hand.op = "loss" /\ hand.at \in {"boundary", "dispatched"}
      /\ slot' = [[slot EXCEPT ![1].linked = FALSE] EXCEPT ![s].open = TRUE]
      /\ ctx' = [ctx EXCEPT !.verified = TRUE, !.active = s, !.phase = "VIDEO_ONLY_ACTIVE"]
      /\ hand' = [hand EXCEPT !.at = "proof"]
      /\ UNCHANGED <<arbiter, topology, fileVars, bus, inbox, source>>
    BY DEF LossRoute, Opened, Linked
<1>2. run = "handing" /\ LossFits /\ ~Critical
    BY <1>1, InHandoff
<1>3. slot \in [Slots -> Generation] /\ ctx \in Context /\ hand \in Handoff /\ 1 \in Slots
    BY DEF MediaTypes, Slots
<1>4. /\ ctx.active = 1 /\ s \in VideoSlots /\ s \in Slots /\ s # 1
      /\ slot[s].linked /\ ~ctx.isolated /\ hand.mutated
      /\ ctx.phase # "VIDEO_ONLY_CLOSING" /\ topology.kind = "handoff_in_progress"
    BY <1>1, <1>2 DEF LossFits, Before, Cutting, VideoSlots, Slots
<1> DEFINE p == [slot[1] EXCEPT !.linked = FALSE]
           q == [slot[s] EXCEPT !.open = TRUE]
<1>5. /\ p \in Generation /\ ~p.linked /\ p.act = slot[1].act
      /\ q \in Generation /\ q.linked /\ q.open /\ q.act = slot[s].act
    BY <1>3, <1>4 DEF Generation
<1>6. \A t \in Slots : slot'[t] = IF t = 1 THEN p ELSE IF t = s THEN q ELSE slot[t]
    BY <1>1, <1>3, <1>4
<1>7. slot' \in [Slots -> Generation]
    <2>1. slot' = [t \in Slots |-> slot'[t]]
        BY <1>1, <1>3
    <2> QED
        BY <1>3, <1>5, <1>6, <2>1
<1> HIDE DEF p, q
<1>8. /\ ctx' \in Context /\ ctx'.active = s /\ ctx'.isolated = ctx.isolated
      /\ ctx'.phase = "VIDEO_ONLY_ACTIVE"
    BY <1>1, <1>3, <1>4 DEF Context, Phases
<1>9. /\ hand' \in Handoff' /\ hand'.op = "loss" /\ hand'.at = "proof" /\ hand'.next = hand.next
      /\ hand'.mutated = hand.mutated
    BY <1>1, <1>3 DEF Handoff, Proving
<1>10. MediaTypes'
    BY <1>1, <1>7, <1>8, <1>9, DriverTyped DEF MediaTypes
<1>11. ArbiterFits' /\ FilesFit'
    <2>1. \A t \in Slots : slot'[t].act = slot[t].act
        BY <1>5, <1>6
    <2> QED
        BY <1>1, <2>1, FilesFrame DEF ArbiterFits
<1>12. ~Critical'
    BY <1>8 DEF Critical
<1>13. Routes = {}
    BY <1>1, <1>2, <1>4 DEF RouteFits, Cutting
<1>14. Routes' = {s}
    BY <1>4, <1>5, <1>6, <1>13 DEF Routes, Routed
<1>15. RouteFits'
    BY <1>4, <1>8, <1>9, <1>14 DEF RouteFits, Cutting
<1>16. LossFits'
    BY <1>1, <1>4, <1>8, <1>9 DEF LossFits, Before, Cutting, Proving
<1>17. HandFits' /\ RunFits' /\ IsolationFits'
    BY <1>1, <1>9, <1>12, <1>16, GoesOn
<1>18. TopologyFits'
    BY <1>1, <1>4, <1>12 DEF TopologyFits, StableTopologyTrue
<1> QED
    BY <1>10, <1>11, <1>15, <1>17, <1>18

\* The retired branch gets its EOS.
LEMMA RetireStep ==
    ASSUME MediaInd, pipe = "playing", UNCHANGED backendVars, RetireVideo
    PROVE  MediaInd'
<1> USE DEF MediaInd
<1>1. PICK old : /\ slot' = [slot EXCEPT ![old].eosSent = TRUE]
                 /\ old = IF hand.op = "loss" THEN 1 ELSE hand.prior
    BY DEF RetireVideo
<1>2. /\ hand.op # "none" /\ hand.at = "proof" /\ hand' = [hand EXCEPT !.at = "closing"]
      /\ UNCHANGED <<arbiter, ctx, topology, fileVars, bus, inbox, source>>
    BY DEF RetireVideo
<1>3. slot \in [Slots -> Generation] /\ hand \in Handoff /\ ctx \in Context /\ ctx.active \in Slots
    BY DEF MediaTypes, Context
<1>4. hand.op \in {"loss", "restore"} /\ ~Critical
    BY <1>2, <1>3, InHandoff DEF Handoff
<1>5. old \in Slots
    BY <1>1, <1>2, <1>4, InHandoff DEF RestoreFits, VideoSlots, Slots
<1> DEFINE q == [slot[old] EXCEPT !.eosSent = TRUE]
<1>6. slot' \in [Slots -> Generation] /\ SlotsAlike
    <2>1. q \in Generation /\ q.linked = slot[old].linked /\ q.open = slot[old].open
          /\ q.act = slot[old].act
        BY <1>3, <1>5 DEF Generation
    <2>2. slot' = [slot EXCEPT ![old] = q]
        BY <1>1
    <2> QED
        BY <1>5, <2>1, <2>2, SlotChanged
<1>7. ContextAlike
    BY <1>2 DEF ContextAlike
<1>8. /\ hand' \in Handoff' /\ hand'.op = hand.op /\ hand'.at = "closing" /\ hand'.next = hand.next
      /\ hand'.mutated = hand.mutated /\ hand'.prior = hand.prior
    BY <1>2, <1>3 DEF Handoff, Proving
<1>9. MediaTypes'
    BY <1>2, <1>6, <1>8, DriverTyped DEF MediaTypes
<1>10. ArbiterFits' /\ FilesFit' /\ TopologyFits'
    BY <1>2, <1>3, <1>6, <1>7, FilesFrame, TopologyFrame DEF ArbiterFits, SlotsAlike
<1>11. RouteFits'
    <2>1. Routes' = Routes
        BY <1>6 DEF Routes, Routed, SlotsAlike
    <2> QED
        BY <1>2, <1>3, <1>6, <1>8, <2>1 DEF RouteFits, Critical, Cutting, SlotsAlike, backendVars
<1>12. ~Critical'
    BY <1>2, <1>4 DEF Critical
<1>13. CASE hand.op = "loss"
    <2>1. LossFits
        BY <1>13, InHandoff
    <2>2. LossFits'
        BY <1>2, <1>8, <2>1 DEF LossFits, Before, Cutting, Proving
    <2> QED
        BY <1>8, <1>9, <1>10, <1>11, <1>12, <1>13, <2>2, GoesOn
<1>14. CASE hand.op = "restore"
    <2>1. RestoreFits
        BY <1>14, InHandoff
    <2>2. RestoreFits'
        BY <1>2, <1>8, <2>1 DEF RestoreFits, Opening, Proving
    <2> QED
        BY <1>8, <1>9, <1>10, <1>11, <1>12, <1>14, <2>2, GoesOn
<1> QED
    BY <1>4, <1>13, <1>14

\* Standby is a slot without a route and without an activation.
LEMMA Standby == StandbySlot \in Generation /\ ~StandbySlot.linked /\ ~StandbySlot.open /\ StandbySlot.act = 0
BY DEF StandbySlot, Generation

\* Slot 1 is recycled: the session records without its microphone.
LEMMA LossDoneStep ==
    ASSUME MediaInd, pipe = "playing", UNCHANGED backendVars, LossDone
    PROVE  MediaInd'
<1> USE DEF MediaInd
<1>1. /\ hand.op = "loss" /\ hand.at = "closing" /\ Retired(1)
      /\ slot' = [slot EXCEPT ![1] = StandbySlot]
      /\ arbiter' = FreshArbiter /\ ctx' = [ctx EXCEPT !.isolated = TRUE]
      /\ topology' = [kind |-> "stable", active |-> ctx.active, act |-> slot'[ctx.active].act]
      /\ hand' = [NoHandoff EXCEPT !.at = "done"]
      /\ UNCHANGED <<fileVars, bus, inbox, source>>
    BY DEF LossDone, Recycled, Stable
<1>2. run = "handing" /\ LossFits /\ ~Critical
    BY <1>1, InHandoff
<1>3. slot \in [Slots -> Generation] /\ ctx \in Context /\ 1 \in Slots
    BY DEF MediaTypes, Slots
<1>4. ctx.active \in VideoSlots /\ ctx.active \in Slots /\ ctx.active # 1 /\ ctx.active \in Nat
      /\ ctx.phase # "VIDEO_ONLY_CLOSING"
    BY <1>1, <1>2 DEF LossFits, Proving, Before, VideoSlots, Slots
<1>5. slot' \in [Slots -> Generation] /\ slot'[1] = StandbySlot /\ \A t \in Slots : t # 1 => slot'[t] = slot[t]
    BY <1>1, <1>3, Standby, OneSlot
<1>6. ctx' \in Context /\ ctx'.isolated /\ ctx'.active = ctx.active /\ ctx'.phase = ctx.phase
    BY <1>1, <1>3 DEF Context
<1>7. arbiter' \in EosArbiter /\ ArbiterFits'
    BY <1>1 DEF FreshArbiter, EosArbiter, ArbiterFits
<1>8. slot'[ctx.active].act \in Nat
    BY <1>4, <1>5 DEF Generation
<1>9. topology' \in Published
    BY <1>1, <1>4, <1>8 DEF Published
<1>10. ~Critical'
    BY <1>2, <1>6 DEF Critical
<1>11. hand' \in Handoff' /\ HandFits' /\ RunFits' /\ IsolationFits'
    BY <1>1, <1>4, <1>5, <1>6, <1>10, Standby, GoesOut
<1>12. MediaTypes'
    BY <1>1, <1>5, <1>6, <1>7, <1>9, <1>11, DriverTyped DEF MediaTypes
<1>13. FilesFit'
    <2>1. Unused(1)
        BY <1>1 DEF Retired, Unused
    <2> QED
        BY <1>1, <1>5, <2>1, FilesFrame
<1>14. Routes = {ctx.active}
    BY <1>1, <1>2, <1>4 DEF RouteFits, Cutting
<1>15. Routes' = {ctx.active}
    BY <1>4, <1>5, <1>14, Standby DEF Routes, Routed
<1>16. RouteFits'
    BY <1>1, <1>4, <1>6, <1>15 DEF RouteFits, NoHandoff
<1>17. TopologyFits'
    BY <1>1, <1>6, <1>10 DEF TopologyFits, StableTopologyTrue
<1> QED
    BY <1>7, <1>11, <1>12, <1>13, <1>16, <1>17

\* A loss that fails after its cut contains slot 1.
LEMMA LossFailsAfterCut ==
    ASSUME MediaInd, pipe = "playing", UNCHANGED backendVars, LossFails, hand.mutated
    PROVE  MediaInd'
<1> USE DEF MediaInd
<1>1. PICK contained \in BOOLEAN :
        slot' = [slot EXCEPT ![1].open = FALSE, ![1].linked = @ /\ ~contained]
    BY DEF LossFails
<1>2. /\ hand.op = "loss" /\ hand' = [NoHandoff EXCEPT !.at = "failed"]
      /\ ctx' = [ctx EXCEPT !.phase = "LOSS_CONTAINMENT_CRITICAL"]
      /\ Transition("faulted_handoff")
      /\ UNCHANGED <<arbiter, fileVars, bus, inbox, source>>
    BY DEF LossFails
<1>3. slot \in [Slots -> Generation] /\ ctx \in Context /\ 1 \in Slots
    BY DEF MediaTypes, Slots
<1> DEFINE q == [slot[1] EXCEPT !.open = FALSE, !.linked = @ /\ ~contained]
<1>4. q \in Generation /\ ~q.open /\ q.act = slot[1].act
    <2>1. slot[1] \in Generation /\ (slot[1].linked /\ ~contained) \in BOOLEAN
        BY <1>3 DEF Generation
    <2> QED
        BY <2>1 DEF Generation
<1>5. slot' = [slot EXCEPT ![1] = q]
    BY <1>1
<1> HIDE DEF q
<1>6. slot' \in [Slots -> Generation] /\ slot'[1] = q /\ \A t \in Slots : t # 1 => slot'[t] = slot[t]
    BY <1>3, <1>4, <1>5, OneSlot
<1>7. ctx' \in Context /\ ctx'.phase = "LOSS_CONTAINMENT_CRITICAL"
    BY <1>2, <1>3 DEF Context, Phases
<1>8. topology' \in Published /\ topology'.kind = "faulted_handoff"
    BY <1>2, Moved
<1>9. hand' \in Handoff' /\ HandFits' /\ RunFits' /\ IsolationFits'
    BY <1>2, GoesOut
<1>10. MediaTypes'
    BY <1>2, <1>6, <1>7, <1>8, <1>9, DriverTyped DEF MediaTypes
<1>11. ArbiterFits' /\ FilesFit'
    BY <1>2, <1>4, <1>6, FilesFrame DEF ArbiterFits
<1>12. Routes' \subseteq Routes
    BY <1>4, <1>6 DEF Routes, Routed
<1>13. RouteFits'
    <2>1. PICK x \in Slots : Routes \subseteq {x}
        BY DEF RouteFits
    <2>2. Routes' \subseteq {x}
        BY <1>12, <2>1
    <2> QED
        BY <1>7, <2>2 DEF RouteFits, Critical
<1>14. TopologyFits'
    BY <1>8 DEF TopologyFits, StableTopologyTrue
<1> QED
    BY <1>9, <1>10, <1>11, <1>13, <1>14

\* A loss that fails before its cut gives the successor up, and the old route records on.
LEMMA LossFailsBeforeCut ==
    ASSUME MediaInd, pipe = "playing", UNCHANGED backendVars, LossFails, ~hand.mutated
    PROVE  MediaInd'
<1> USE DEF MediaInd
<1>1. /\ hand.op = "loss" /\ hand' = [NoHandoff EXCEPT !.at = "failed"]
      /\ UNCHANGED <<arbiter, fileVars, bus, inbox, source>>
    BY DEF LossFails
<1>2. run = "handing" /\ LossFits /\ ~Critical /\ hand.at \in Before
    BY <1>1, InHandoff DEF LossFits
<1>3. slot \in [Slots -> Generation] /\ ctx \in Context /\ hand \in Handoff
    BY DEF MediaTypes
<1>4. hand' \in Handoff' /\ HandFits' /\ RunFits' /\ IsolationFits' /\ hand'.op = "none"
    BY <1>1, GoesOut DEF NoHandoff
<1>5. ~(hand.op = "loss" /\ hand.at \in Cutting)
    BY <1>2 DEF Before, Cutting
<1>6. CASE hand.next = 0
    <2>1. UNCHANGED <<slot, ctx, topology>>
        BY <1>6 DEF LossFails
    <2>2. MediaTypes'
        BY <1>1, <1>4, <2>1, DriverTyped DEF MediaTypes
    <2>3. SlotsAlike /\ ContextAlike /\ Routes' = Routes
        BY <2>1 DEF SlotsAlike, ContextAlike, Routes, Routed
    <2>4. ArbiterFits' /\ FilesFit' /\ TopologyFits'
        BY <1>1, <1>3, <2>1, <2>3, FilesFrame, TopologyFrame DEF ArbiterFits, SlotsAlike, Context
    <2>5. RouteFits'
        BY <1>4, <1>5, <2>1, <2>3 DEF RouteFits, Critical, backendVars
    <2> QED
        BY <1>4, <2>2, <2>4, <2>5
<1>7. CASE hand.next # 0
    <2>1. /\ hand.next \in VideoSlots /\ hand.next \in Slots /\ hand.next # 1 /\ hand.at \in {"linked", "idle"}
          /\ ctx.active = 1 /\ ~slot[hand.next].open /\ Unused(hand.next) /\ ~ctx.isolated
          /\ ctx.phase # "VIDEO_ONLY_CLOSING"
        BY <1>2, <1>7 DEF LossFits, Before, VideoSlots, Slots
    <2>2. PICK q \in {StandbySlot, [slot[hand.next] EXCEPT !.linked = FALSE]} :
                slot' = [slot EXCEPT ![hand.next] = q]
        BY <1>7 DEF LossFails
    <2>3. q \in Generation /\ ~q.linked /\ ~q.open
        BY <1>3, <2>1, <2>2, Standby DEF Generation
    <2>4. slot' \in [Slots -> Generation] /\ slot'[hand.next] = q
          /\ \A t \in Slots : t # hand.next => slot'[t] = slot[t]
        BY <1>3, <2>1, <2>2, <2>3, OneSlot
    <2>5. ctx' \in Context /\ ctx'.active = 1 /\ ctx'.phase \in {ctx.phase, "AV_ACTIVE"}
        <3>1. \/ ctx' = ctx
              \/ ctx' = [ctx EXCEPT !.nextVideo = hand.prior, !.verified = FALSE, !.phase = "AV_ACTIVE"]
            BY <1>7 DEF LossFails
        <3>2. hand.prior \in Nat
            BY <1>3 DEF Handoff
        <3> QED
            BY <1>3, <2>1, <3>1, <3>2 DEF Context, Phases
    <2>6. topology' \in Published /\ topology'.kind = "faulted_handoff"
        BY <1>7, Moved DEF LossFails
    <2>7. MediaTypes'
        BY <1>1, <1>4, <2>4, <2>5, <2>6, DriverTyped DEF MediaTypes
    <2>8. ArbiterFits' /\ FilesFit'
        BY <1>1, <2>1, <2>4, FilesFrame DEF ArbiterFits
    <2>9. Routes = {1}
        BY <1>2, <1>5, <2>1 DEF RouteFits
    <2>10. Routes' = Routes
        BY <2>1, <2>3, <2>4 DEF Routes, Routed
    <2>11. RouteFits'
        BY <1>4, <2>1, <2>5, <2>9, <2>10 DEF RouteFits, Slots
    <2>12. TopologyFits'
        BY <2>6 DEF TopologyFits, StableTopologyTrue
    <2> QED
        BY <1>4, <2>7, <2>8, <2>11, <2>12
<1> QED
    BY <1>6, <1>7

\* restore_audio is admitted with the bus empty.
LEMMA RestoreAdmitStep ==
    ASSUME MediaInd, pipe = "playing", UNCHANGED backendVars, RestoreAdmit
    PROVE  MediaInd'
<1> USE DEF MediaInd
<1>1. /\ hand.op = "restore" /\ hand.at = "begin" /\ ctx.active \in VideoSlots
      /\ slot[ctx.active].linked
      /\ hand' = [hand EXCEPT !.at = "admitted", !.prior = ctx.active]
      /\ Transition("handoff_in_progress")
      /\ UNCHANGED <<slot, arbiter, ctx, fileVars, bus, inbox, source>>
    BY DEF RestoreAdmit, Draining, MayRestore
<1>2. run = "restoring" /\ RestoreFits /\ ~Critical
    BY <1>1, InHandoff
<1>3. hand \in Handoff /\ ctx.active \in Slots
    BY DEF MediaTypes, Context
<1>4. SlotsAlike /\ ContextAlike /\ Routes' = Routes
    BY <1>1 DEF SlotsAlike, ContextAlike, Routes, Routed
<1>5. /\ hand' \in Handoff' /\ hand'.op = "restore" /\ hand'.at = "admitted"
      /\ hand'.mutated = hand.mutated /\ hand'.prior = ctx.active
    <2>1. ctx.active \in Nat
        BY <1>1 DEF VideoSlots
    <2> QED
        BY <1>1, <1>3, <2>1 DEF Handoff, Opening
<1>6. topology' \in Published /\ topology'.kind = "handoff_in_progress"
    BY <1>1, Moved
<1>7. MediaTypes'
    BY <1>1, <1>5, <1>6, DriverTyped DEF MediaTypes
<1>8. ArbiterFits' /\ FilesFit'
    BY <1>1, <1>4, FilesFrame DEF ArbiterFits, SlotsAlike
<1>9. RouteFits'
    BY <1>1, <1>4, <1>5 DEF RouteFits, Critical, backendVars
<1>10. ctx.phase # "VIDEO_ONLY_CLOSING"
    BY <1>1 DEF RouteFits
<1>11. RestoreFits'
    BY <1>1, <1>2, <1>5, <1>6, <1>10 DEF RestoreFits, Opening, Proving
<1>12. ~Critical'
    BY <1>1, <1>2 DEF Critical
<1>13. HandFits' /\ RunFits' /\ IsolationFits'
    BY <1>1, <1>5, <1>11, <1>12, GoesOn
<1>14. TopologyFits'
    BY <1>6, <1>12 DEF TopologyFits, StableTopologyTrue
<1> QED
    BY <1>7, <1>8, <1>9, <1>13, <1>14

\* A new ALSA source takes the place of the quarantined one, or cannot.
LEMMA RebuildSteps ==
    ASSUME MediaInd, pipe = "playing", UNCHANGED backendVars, Rebuild \/ RebuildFails
    PROVE  MediaInd'
<1> USE DEF MediaInd
<1>1. /\ hand.op = "restore" /\ hand.at = "admitted"
      /\ UNCHANGED <<slot, arbiter, fileVars, bus, inbox>>
    BY DEF Rebuild, RebuildFails
<1>2. run = "restoring" /\ RestoreFits /\ ~Critical
    BY <1>1, InHandoff
<1>3. hand \in Handoff /\ ctx \in Context /\ ctx.active \in Slots
      /\ source \in [id : Nat, alive : BOOLEAN, losses : Nat, eos : Nat, broken : BOOLEAN]
    BY DEF MediaTypes, Context
<1>4. source.id + 1 \in Nat
    BY <1>3
<1>5. ctx' \in Context /\ ContextAlike
    <2>1. PICK i \in {source.id + 1, 0} : ctx' = [ctx EXCEPT !.quarantine = FALSE, !.ingress = i]
        BY DEF Rebuild, RebuildFails
    <2>2. i \in Nat
        BY <2>1, <1>4
    <2> QED
        BY <1>3, <2>1, <2>2 DEF Context, ContextAlike
<1>6. source' \in [id : Nat, alive : BOOLEAN, losses : Nat, eos : Nat, broken : BOOLEAN]
    <2>1. PICK i \in {source.id + 1, source.id}, b \in BOOLEAN :
                source' = [source EXCEPT !.id = i, !.alive = b, !.eos = 0]
        <3>1. CASE Rebuild
            BY <3>1 DEF Rebuild
        <3>2. CASE RebuildFails
            BY <3>2, <1>3 DEF RebuildFails
        <3> QED
            BY <3>1, <3>2
    <2>2. i \in Nat
        BY <2>1, <1>3, <1>4
    <2> QED
        BY <1>3, <2>1, <2>2
<1>7. SlotsAlike /\ Routes' = Routes
    BY <1>1 DEF SlotsAlike, Routes, Routed
<1>8. ArbiterFits' /\ FilesFit'
    BY <1>1, <1>7, FilesFrame DEF ArbiterFits, SlotsAlike
<1>9. ~Critical'
    BY <1>2, <1>5 DEF Critical, ContextAlike
<1>10. CASE Rebuild
    <2>1. UNCHANGED topology /\ hand' = [hand EXCEPT !.at = "rebuilt"]
        BY <1>10 DEF Rebuild
    <2>2. /\ hand' \in Handoff' /\ hand'.op = "restore" /\ hand'.at = "rebuilt"
          /\ hand'.mutated = hand.mutated /\ hand'.prior = hand.prior
        BY <1>1, <1>3, <2>1 DEF Handoff, Opening
    <2>3. MediaTypes'
        BY <1>1, <1>5, <1>6, <2>1, <2>2, DriverTyped DEF MediaTypes
    <2>4. RouteFits'
        BY <1>1, <1>5, <1>7, <2>2 DEF RouteFits, Critical, ContextAlike, backendVars
    <2>5. RestoreFits'
        BY <1>1, <1>2, <1>5, <2>1, <2>2 DEF RestoreFits, Opening, Proving, ContextAlike
    <2>6. HandFits' /\ RunFits' /\ IsolationFits'
        BY <1>1, <1>9, <2>2, <2>5, GoesOn
    <2>7. TopologyFits'
        BY <1>3, <1>5, <1>7, <2>1, TopologyFrame
    <2> QED
        BY <1>8, <2>3, <2>4, <2>6, <2>7
<1>11. CASE RebuildFails
    <2>1. Transition("faulted_handoff") /\ hand' = [NoHandoff EXCEPT !.at = "refused"]
        BY <1>11 DEF RebuildFails
    <2>2. topology' \in Published /\ topology'.kind = "faulted_handoff"
        BY <2>1, Moved
    <2>3. ctx'.isolated /\ ctx'.active \in VideoSlots /\ slot'[1].act = 0
        BY <1>1, <1>2, <1>5 DEF RestoreFits, Opening, ContextAlike
    <2>4. hand' \in Handoff' /\ HandFits' /\ RunFits' /\ IsolationFits'
        BY <1>1, <1>9, <2>1, <2>3, GoesOut
    <2>5. MediaTypes'
        BY <1>1, <1>5, <1>6, <2>2, <2>4, DriverTyped DEF MediaTypes
    <2>6. RouteFits'
        BY <1>1, <1>3, <1>5, <1>7, <2>1 DEF RouteFits, Critical, ContextAlike, backendVars, NoHandoff
    <2>7. TopologyFits'
        BY <2>2 DEF TopologyFits, StableTopologyTrue
    <2> QED
        BY <1>8, <2>4, <2>5, <2>6, <2>7
<1> QED
    BY <1>10, <1>11

\* Slot 1 is activated behind its closed valves.
LEMMA RestorePrepareStep ==
    ASSUME MediaInd, pipe = "playing", UNCHANGED backendVars, RestorePrepare
    PROVE  MediaInd'
<1> USE DEF MediaInd
<1>1. /\ hand.op = "restore" /\ hand.at = "rebuilt" /\ Prewarmable(1)
      /\ slot' = [slot EXCEPT ![1].act = ctx.nextAct, ![1].reusable = FALSE]
      /\ ctx' = [ctx EXCEPT !.nextAct = @ + 1] /\ hand' = [hand EXCEPT !.at = "held"]
      /\ UNCHANGED <<arbiter, topology, fileVars, bus, inbox, source>>
    BY DEF RestorePrepare, Activated
<1>2. run = "restoring" /\ RestoreFits /\ ~Critical
    BY <1>1, InHandoff
<1>3. slot \in [Slots -> Generation] /\ hand \in Handoff /\ ctx \in Context /\ 1 \in Slots
    BY DEF MediaTypes, Slots
<1>4. /\ slot[1].act = 0 /\ ~slot[1].linked /\ ~slot[1].open /\ ctx.isolated
      /\ ctx.active \in VideoSlots /\ hand.prior = ctx.active /\ ctx.phase # "VIDEO_ONLY_CLOSING"
      /\ topology.kind = "handoff_in_progress" /\ ~hand.mutated
    BY <1>1, <1>2 DEF RestoreFits, Prewarmable, Opening, Proving
<1> DEFINE q == [slot[1] EXCEPT !.act = ctx.nextAct, !.reusable = FALSE]
<1>5. q \in Generation /\ q.act = ctx.nextAct /\ ~q.linked /\ ~q.open
    <2>1. ctx.nextAct \in Nat /\ slot[1] \in Generation
        BY <1>3 DEF Context
    <2> QED
        BY <1>4, <2>1 DEF Generation
<1>6. slot' = [slot EXCEPT ![1] = q]
    BY <1>1
<1> HIDE DEF q
<1>7. slot' \in [Slots -> Generation] /\ slot'[1] = q /\ \A t \in Slots : t # 1 => slot'[t] = slot[t]
    BY <1>3, <1>5, <1>6, OneSlot
<1>8. ctx' \in Context /\ ContextAlike
    <2>1. ctx.nextAct + 1 \in Nat \ {0}
        BY <1>3 DEF Context
    <2> QED
        BY <1>1, <1>3, <2>1 DEF Context, ContextAlike
<1>9. /\ hand' \in Handoff' /\ hand'.op = "restore" /\ hand'.at = "held"
      /\ hand'.mutated = hand.mutated /\ hand'.prior = hand.prior
    BY <1>1, <1>3 DEF Handoff, Opening
<1>10. MediaTypes'
    BY <1>1, <1>7, <1>8, <1>9, DriverTyped DEF MediaTypes
<1>11. ArbiterFits' /\ FilesFit'
    BY <1>1, <1>4, <1>7, FilesFrame DEF ArbiterFits
<1>12. Routes' = Routes
    BY <1>4, <1>5, <1>7 DEF Routes, Routed
<1>13. ~Critical'
    BY <1>2, <1>8 DEF Critical, ContextAlike
<1>14. RouteFits'
    BY <1>1, <1>2, <1>4, <1>8, <1>9, <1>12 DEF RouteFits, ContextAlike, Cutting, backendVars
<1>15. Unused(1)'
    BY <1>1, <1>5, <1>7 DEF Prewarmable, Unused, fileVars
<1>16. RestoreFits'
    BY <1>1, <1>4, <1>8, <1>9, <1>15 DEF RestoreFits, Opening, Proving, ContextAlike
<1>17. HandFits' /\ RunFits' /\ IsolationFits'
    BY <1>1, <1>9, <1>13, <1>16, GoesOn
<1>18. TopologyFits'
    BY <1>1, <1>4, <1>13 DEF TopologyFits, StableTopologyTrue
<1> QED
    BY <1>10, <1>11, <1>14, <1>17, <1>18

\* The route moves to slot 1.
LEMMA RestoreRouteStep ==
    ASSUME MediaInd, pipe = "playing", UNCHANGED backendVars, RestoreRoute
    PROVE  MediaInd'
<1> USE DEF MediaInd
<1> DEFINE s == hand.prior
<1>1. PICK l : /\ hand.op = "restore" /\ hand.at = "held"
               /\ slot' = Opened(Linked(Opened(Linked(slot, 1, TRUE), s, FALSE), s, FALSE), 1, TRUE)
               /\ ctx' = [ctx EXCEPT !.active = 1, !.phase = "AV_RESTORING"]
               /\ hand' = [hand EXCEPT !.at = "proof", !.mutated = TRUE, !.location = l]
               /\ UNCHANGED <<arbiter, topology, fileVars, bus, inbox, source>>
    BY DEF RestoreRoute
<1>2. run = "restoring" /\ RestoreFits /\ ~Critical
    BY <1>1, InHandoff
<1>3. slot \in [Slots -> Generation] /\ hand \in Handoff /\ ctx \in Context /\ 1 \in Slots
    BY DEF MediaTypes, Slots
<1>4. /\ ctx.isolated /\ ctx.active = s /\ s \in VideoSlots /\ s \in Slots /\ s # 1
      /\ ctx.phase # "VIDEO_ONLY_CLOSING" /\ topology.kind = "handoff_in_progress"
    BY <1>1, <1>2 DEF RestoreFits, Opening, VideoSlots, Slots
<1> DEFINE p == [slot[1] EXCEPT !.linked = TRUE, !.open = TRUE]
           q == [slot[s] EXCEPT !.linked = FALSE, !.open = FALSE]
<1>5. /\ p \in Generation /\ p.linked /\ p.open /\ p.act = slot[1].act
      /\ q \in Generation /\ ~q.linked /\ q.act = slot[s].act
    BY <1>3, <1>4 DEF Generation
<1>6. slot' = [[slot EXCEPT ![1] = p] EXCEPT ![s] = q]
    BY <1>1, <1>3, <1>4 DEF Opened, Linked
<1>7. /\ slot' \in [Slots -> Generation] /\ slot'[1] = p /\ slot'[s] = q
      /\ \A t \in Slots : t # 1 /\ t # s => slot'[t] = slot[t]
    BY <1>3, <1>4, <1>5, <1>6
<1> HIDE DEF p, q
<1>8. ctx' \in Context /\ ctx'.active = 1 /\ ctx'.phase = "AV_RESTORING" /\ ctx'.isolated = ctx.isolated
    BY <1>1, <1>3 DEF Context, Phases
<1>9. /\ hand' \in Handoff' /\ hand'.op = "restore" /\ hand'.at = "proof"
      /\ hand'.mutated /\ hand'.prior = hand.prior
    <2>1. hand'.location = l
        BY <1>1, <1>3 DEF Handoff
    <2> QED
        BY <1>1, <1>3, <2>1 DEF Handoff, Proving
<1>10. MediaTypes'
    BY <1>1, <1>7, <1>8, <1>9, DriverTyped DEF MediaTypes
<1>11. ArbiterFits' /\ FilesFit'
    <2>1. \A t \in Slots : slot'[t].act = slot[t].act
        BY <1>5, <1>7
    <2> QED
        BY <1>1, <2>1, FilesFrame DEF ArbiterFits
<1>12. Routes = {s}
    BY <1>1, <1>2, <1>4 DEF RouteFits, Cutting
<1>13. Routes' = {1}
    BY <1>3, <1>4, <1>5, <1>7, <1>12 DEF Routes, Routed
<1>14. ~Critical'
    BY <1>8 DEF Critical
<1>15. RouteFits'
    BY <1>3, <1>8, <1>9, <1>13 DEF RouteFits
<1>16. RestoreFits'
    BY <1>1, <1>4, <1>8, <1>9 DEF RestoreFits, Opening, Proving
<1>17. HandFits' /\ RunFits' /\ IsolationFits'
    BY <1>1, <1>9, <1>14, <1>16, GoesOn
<1>18. TopologyFits'
    BY <1>1, <1>4, <1>14 DEF TopologyFits, StableTopologyTrue
<1> QED
    BY <1>10, <1>11, <1>15, <1>17, <1>18

\* The video-only slot is recycled: the microphone records again.
LEMMA RestoreDoneStep ==
    ASSUME MediaInd, pipe = "playing", UNCHANGED backendVars, RestoreDone
    PROVE  MediaInd'
<1> USE DEF MediaInd
<1>1. PICK s : /\ s = hand.prior /\ slot' = [slot EXCEPT ![s] = StandbySlot] /\ Retired(s)
    BY DEF RestoreDone, Recycled
<1>2. /\ hand.op = "restore" /\ hand.at = "closing"
      /\ ctx' = [ctx EXCEPT !.isolated = FALSE, !.phase = "AV_ACTIVE"]
      /\ topology' = [kind |-> "stable", active |-> 1, act |-> slot'[1].act]
      /\ hand' = [NoHandoff EXCEPT !.at = "done"]
      /\ UNCHANGED <<arbiter, fileVars, bus, inbox, source>>
    BY DEF RestoreDone, Stable
<1>3. run = "restoring" /\ RestoreFits /\ ~Critical
    BY <1>2, InHandoff
<1>4. slot \in [Slots -> Generation] /\ ctx \in Context /\ 1 \in Slots
    BY DEF MediaTypes, Slots
<1>5. s \in Slots /\ s # 1 /\ ctx.active = 1 /\ ctx.phase # "VIDEO_ONLY_CLOSING"
    BY <1>1, <1>2, <1>3 DEF RestoreFits, Proving, VideoSlots, Slots
<1>6. slot' \in [Slots -> Generation] /\ slot'[s] = StandbySlot /\ \A t \in Slots : t # s => slot'[t] = slot[t]
    BY <1>1, <1>4, <1>5, Standby, OneSlot
<1>7. ctx' \in Context /\ ctx'.isolated = FALSE /\ ctx'.active = 1 /\ ctx'.phase = "AV_ACTIVE"
    BY <1>2, <1>4, <1>5 DEF Context, Phases
<1>8. slot'[1].act \in Nat
    BY <1>4, <1>6 DEF Generation
<1>9. topology' \in Published
    BY <1>2, <1>8 DEF Published
<1>10. ~Critical'
    BY <1>7 DEF Critical
<1>11. hand' \in Handoff' /\ HandFits' /\ RunFits' /\ IsolationFits' /\ hand'.op = "none"
    BY <1>2, <1>7, <1>10, GoesOut DEF NoHandoff
<1>12. MediaTypes'
    BY <1>2, <1>6, <1>7, <1>9, <1>11, DriverTyped DEF MediaTypes
<1>13. ArbiterFits' /\ FilesFit'
    <2>1. Unused(s)
        BY <1>1 DEF Retired, Unused
    <2> QED
        BY <1>2, <1>6, <2>1, FilesFrame DEF ArbiterFits
<1>14. Routes = {1}
    BY <1>2, <1>3, <1>5 DEF RouteFits, Cutting
<1>15. Routes' = {1}
    BY <1>5, <1>6, <1>14, Standby DEF Routes, Routed
<1>16. RouteFits'
    BY <1>4, <1>7, <1>11, <1>15 DEF RouteFits
<1>17. TopologyFits'
    BY <1>2, <1>7, <1>10 DEF TopologyFits, StableTopologyTrue
<1> QED
    BY <1>11, <1>12, <1>13, <1>16, <1>17

\* restore_audio that fails before the route moved leaves the video-only slot recording.
LEMMA RestoreFailsStep ==
    ASSUME MediaInd, pipe = "playing", UNCHANGED backendVars, RestoreFails
    PROVE  MediaInd'
<1> USE DEF MediaInd
<1>1. /\ hand.op = "restore"
      /\ IF hand.at = "begin" THEN UNCHANGED topology ELSE Transition("faulted_handoff")
      /\ UNCHANGED <<arbiter, fileVars, bus, inbox, source>>
    BY DEF RestoreFails
<1>2. run = "restoring" /\ RestoreFits /\ ~Critical
    BY <1>1, InHandoff
<1>3. slot \in [Slots -> Generation] /\ ctx \in Context /\ ctx.active \in Slots /\ 1 \in Slots
    BY DEF MediaTypes, Slots, Context
<1>4. topology' \in Published /\ (hand.at # "begin" => topology'.kind = "faulted_handoff")
    <2>1. CASE hand.at = "begin"
        BY <1>1, <2>1 DEF MediaTypes
    <2>2. CASE hand.at # "begin"
        BY <1>1, <2>2, Moved
    <2> QED
        BY <2>1, <2>2
<1>5. CASE /\ ~hand.mutated
           /\ slot' = [slot EXCEPT ![1] = IF slot[1].act # 0 THEN StandbySlot ELSE @]
           /\ hand' = [NoHandoff EXCEPT !.at = "refused"]
           /\ UNCHANGED ctx
    <2> DEFINE q == IF slot[1].act # 0 THEN StandbySlot ELSE slot[1]
    <2>1. q \in Generation /\ q.act = 0
        BY <1>3, Standby
    <2>2. slot' = [slot EXCEPT ![1] = q]
        BY <1>3, <1>5
    <2>3. slot[1].act # 0 => q = StandbySlot
        OBVIOUS
    <2>4. slot[1].act = 0 => slot' = slot
        BY <1>3, <2>2
    <2> HIDE DEF q
    <2>5. slot' \in [Slots -> Generation] /\ slot'[1] = q /\ \A t \in Slots : t # 1 => slot'[t] = slot[t]
        BY <1>3, <2>1, <2>2, OneSlot
    <2>6. ctx.active \in VideoSlots /\ ctx.active # 1 /\ ctx.isolated
        BY <1>2, <1>5 DEF RestoreFits, Proving, VideoSlots
    <2>7. hand' \in Handoff' /\ HandFits' /\ RunFits' /\ IsolationFits' /\ hand'.op = "none"
        BY <1>1, <1>2, <1>5, <2>1, <2>5, <2>6, GoesOut DEF NoHandoff, Critical
    <2>8. MediaTypes'
        BY <1>1, <1>3, <1>4, <1>5, <2>5, <2>7, DriverTyped DEF MediaTypes
    <2>9. slot[1].act # 0 => Unused(1) /\ hand.at # "begin" /\ ctx.phase # "VIDEO_ONLY_CLOSING"
        BY <1>2, <1>5 DEF RestoreFits, Opening, Proving
    <2>10. ArbiterFits' /\ FilesFit'
        BY <1>1, <2>5, <2>9, FilesFrame DEF ArbiterFits
    <2>11. Routes' = Routes
        <3>1. CASE slot[1].act = 0
            BY <2>4, <3>1 DEF Routes, Routed
        <3>2. CASE slot[1].act # 0
            <4>1. Routes = {ctx.active}
                BY <1>1, <1>2, <2>9, <3>2 DEF RouteFits
            <4> QED
                BY <2>3, <2>5, <2>6, <3>2, <4>1, Standby DEF Routes, Routed
        <3> QED
            BY <3>1, <3>2
    <2>12. slot'[ctx.active] = slot[ctx.active]
        BY <1>3, <2>5, <2>6
    <2>13. RouteFits'
        BY <1>1, <1>5, <2>7, <2>11, <2>12 DEF RouteFits, Critical, backendVars
    <2>14. TopologyFits'
        BY <1>1, <1>2, <1>4, <1>5, <2>12 DEF TopologyFits, StableTopologyTrue, Critical
    <2> QED
        BY <2>7, <2>8, <2>10, <2>13, <2>14
<1>6. CASE /\ hand.mutated \/ slot[1].act # 0
           /\ ctx' = [ctx EXCEPT !.phase = "RESTORATION_CRITICAL"]
           /\ hand' = [NoHandoff EXCEPT !.at = "failed"]
           /\ UNCHANGED slot
    <2>1. hand.at # "begin"
        BY <1>2, <1>6 DEF RestoreFits, Proving
    <2>2. ctx' \in Context /\ ctx'.phase = "RESTORATION_CRITICAL"
        BY <1>3, <1>6 DEF Context, Phases
    <2>3. hand' \in Handoff' /\ HandFits' /\ RunFits' /\ IsolationFits'
        BY <1>1, <1>6, GoesOut
    <2>4. MediaTypes'
        BY <1>1, <1>3, <1>4, <1>6, <2>2, <2>3, DriverTyped DEF MediaTypes
    <2>5. ArbiterFits' /\ FilesFit'
        BY <1>1, <1>6, FilesFrame DEF ArbiterFits
    <2>6. RouteFits'
        <3>1. Routes' = Routes
            BY <1>6 DEF Routes, Routed
        <3> QED
            BY <2>2, <3>1 DEF RouteFits, Critical
    <2>7. TopologyFits'
        BY <1>4, <2>1 DEF TopologyFits, StableTopologyTrue
    <2> QED
        BY <2>3, <2>4, <2>5, <2>6, <2>7
<1> QED
    BY <1>5, <1>6 DEF RestoreFails

-----------------------------------------------------------------------------
(* The invariant *)

\* A session begins with slot 1 and nothing recorded.
LEMMA MediaIndInit == MediaInit => MediaInd
<1> SUFFICES ASSUME MediaInit PROVE MediaInd
    OBVIOUS
<1>1. DriverInit /\ hand = NoHandoff
    BY DEF MediaInit, DriverInit
<1>2. CreatedSlots \in [Slots -> Generation] /\ CreatedSlots[1].linked /\ CreatedSlots[1].open
      /\ \A s \in Slots : s # 1 => CreatedSlots[s] = StandbySlot
    <2> DEFINE q == [StandbySlot EXCEPT !.linked = TRUE, !.open = TRUE, !.act = 1, !.reusable = FALSE]
    <2>1. q \in Generation /\ q.linked /\ q.open
        BY DEF StandbySlot, Generation
    <2>2. CreatedSlots = [s \in Slots |-> IF s = 1 THEN q ELSE StandbySlot]
        BY DEF CreatedSlots
    <2> HIDE DEF q
    <2> QED
        BY <2>1, <2>2, Standby DEF Slots
<1>3. MediaTypes
    <2>1. FreshArbiter \in EosArbiter
        BY DEF FreshArbiter, EosArbiter
    <2>2. FreshContext \in Context
        BY DEF FreshContext, Context, Phases, Slots
    <2>3. topology \in Published
        BY <1>1 DEF DriverInit, Published
    <2>4. hand \in Handoff
        <3>1. hand.location = 0
            BY <1>1 DEF NoHandoff
        <3>2. [op |-> "none", at |-> "none", next |-> 0, held |-> FALSE, retry |-> FALSE,
               mutated |-> FALSE, location |-> 0, prior |-> 0] \in
              [op : {"none", "loss", "restore"},
               at : {"none", "done", "failed", "refused"} \cup Before \cup Cutting \cup Opening \cup Proving,
               next : 0..3, held : BOOLEAN, retry : BOOLEAN, mutated : BOOLEAN,
               location : {0}, prior : Nat]
            OBVIOUS
        <3> QED
            BY <1>1, <3>1, <3>2 DEF Handoff, NoHandoff
    <2>5. bus \in Seq(Messages)
        BY <1>1 DEF DriverInit
    <2>6. coord \in Coordinator /\ lost \in [isolated : BOOLEAN, messages : Nat] /\ shut \in Shutdown
        BY DEF MediaInit, FreshCoord, Coordinator, NoShutdown, Shutdown
    <2>7. source \in [id : Nat, alive : BOOLEAN, losses : Nat, eos : Nat, broken : BOOLEAN]
        BY <1>1 DEF DriverInit
    <2> QED
        BY <1>1, <1>2, <2>1, <2>2, <2>3, <2>4, <2>5, <2>6, <2>7 DEF MediaTypes, DriverInit
<1>4. ArbiterFits /\ FilesFit
    BY <1>1 DEF DriverInit, ArbiterFits, FreshArbiter, FilesFit
<1>5. RouteFits
    <2>1. Routes = {1}
        BY <1>1, <1>2, Standby DEF DriverInit, Routes, Routed, Slots
    <2> QED
        BY <1>1, <2>1 DEF DriverInit, RouteFits, FreshContext, NoHandoff, Slots
<1>6. HandFits /\ RunFits
    BY <1>1 DEF HandFits, RunFits, NoHandoff, MediaInit, NoShutdown, DriverInit, FreshContext, Critical
<1>7. TopologyFits
    BY <1>1 DEF TopologyFits, StableTopologyTrue, Critical, DriverInit, FreshContext
<1>8. IsolationFits
    <2>1. run = "starting" /\ lost.isolated = FALSE /\ ctx.isolated = FALSE /\ coord.state = "ACTIVE"
        BY <1>1 DEF MediaInit, FreshCoord, DriverInit, FreshContext
    <2> QED
        BY <2>1 DEF IsolationFits, IsolationAgrees
<1> QED
    BY <1>3, <1>4, <1>5, <1>6, <1>7, <1>8 DEF MediaInd

\* Every step keeps it.
LEMMA MediaIndStep == MediaInd /\ [MediaNext]_mediaVars => MediaInd'
<1> SUFFICES ASSUME MediaInd, [MediaNext]_mediaVars PROVE MediaInd'
    OBVIOUS
<1>1. CASE pipe = "playing" /\ DriverStep /\ UNCHANGED backendVars
    <2>1. CASE \/ \E s \in Slots : OpenFile(s) \/ DrainFile(s)
               \/ CloseFile \/ SourceFails \/ PipelineFails
        BY <1>1, <2>1, FileSteps
    <2>2. CASE NaturalEos \/ GenerationEos
        BY <1>1, <2>2, EosSteps
    <2>3. CASE Pump \/ DrainDropsFatal
        BY <1>1, <2>3, PumpSteps
    <2>4. CASE HandoffWaits
        BY <1>1, <2>4, WaitSteps
    <2>5. CASE LossPrepare \/ LossCut \/ LossRoute \/ LossDone
        BY <1>1, <2>5, LossPrepareStep, LossCutStep, LossRouteStep, LossDoneStep
    <2>6. CASE RetireVideo
        BY <1>1, <2>6, RetireStep
    <2>7. CASE LossFails
        BY <1>1, <2>7, LossFailsAfterCut, LossFailsBeforeCut
    <2>8. CASE RestoreAdmit \/ Rebuild \/ RebuildFails
        BY <1>1, <2>8, RestoreAdmitStep, RebuildSteps
    <2>9. CASE RestorePrepare \/ RestoreRoute \/ RestoreDone \/ RestoreFails
        BY <1>1, <2>9, RestorePrepareStep, RestoreRouteStep, RestoreDoneStep, RestoreFailsStep
    <2> QED
        BY <1>1, <2>1, <2>2, <2>3, <2>4, <2>5, <2>6, <2>7, <2>8, <2>9 DEF DriverStep, HandoffWaits
<1>2. CASE StartStep
    BY <1>2, StartSteps
<1>3. CASE RunStep
    BY <1>3, RunAloneSteps, RunHandsSteps, PollSteps, ArmStep DEF RunStep, RunAlone, RunHands
<1>4. CASE ShutdownStep
    BY <1>4, StopAloneSteps, EosStep, DrainSteps, NullStep DEF ShutdownStep, StopAlone
<1>5. CASE StopCalled \/ StopAgainCalled
    BY <1>5, StopAloneSteps DEF StopAlone
<1>6. CASE UNCHANGED mediaVars
    <2>1. UNCHANGED <<driverVars, run, coord, lost, shut, pipe>>
        BY <1>6 DEF mediaVars, backendVars
    <2>2. ArbiterFits' /\ FilesFit' /\ HandFits' /\ TopologyFits' /\ RouteFits'
        BY <2>1, DriverFrame
    <2>3. MediaTypes'
        BY <2>1 DEF MediaInd, MediaTypes, driverVars, slotVars, fileVars, Handoff, Shutdown
    <2>4. RunFits'
        BY <2>1 DEF MediaInd, RunFits, driverVars, slotVars, Critical
    <2>5. IsolationFits'
        BY <2>1 DEF MediaInd, IsolationFits, IsolationAgrees, driverVars, slotVars
    <2> QED
        BY <2>2, <2>3, <2>4, <2>5 DEF MediaInd
<1> QED
    BY <1>1, <1>2, <1>3, <1>4, <1>5, <1>6 DEF MediaNext

\* Every state of a session fits.
THEOREM BackendStaysFit == Spec => []MediaInd
BY MediaIndInit, MediaIndStep, PTL DEF Spec

\* The invariant says what the parts of the backend agree on.
LEMMA FitAgrees == MediaInd => MediaInv
<1> SUFFICES ASSUME MediaInd PROVE MediaInv
    OBVIOUS
<1> USE DEF MediaInd
<1>1. RouteOwned
    <2>1. PICK x \in Slots : Routes \subseteq {x}
        BY DEF RouteFits
    <2>2. Cardinality(Routes) <= 1
        <3>1. Routes = {} \/ Routes = {x}
            BY <2>1
        <3> QED
            BY <3>1, FS_EmptySet, FS_Singleton
    <2>3. pipe = "playing" /\ ~hand.mutated /\ ~Critical /\ ctx.phase # "VIDEO_ONLY_CLOSING"
          => Routes = {ctx.active}
        <3>1. hand.op = "loss" /\ hand.at \in Cutting => hand.mutated
            BY DEF HandFits, LossFits, Before, Cutting
        <3> QED
            BY <3>1 DEF RouteFits
    <2> QED
        BY <2>2, <2>3 DEF RouteOwned, Routes
<1>2. FragmentsOwned
    BY DEF FragmentsOwned, FilesFit, Known, Announces
<1>3. OneAudioEos /\ StableTopologyTrue /\ IsolationAgrees
    BY DEF ArbiterFits, OneAudioEos, TopologyFits, IsolationFits
<1> QED
    BY <1>1, <1>2, <1>3 DEF MediaInv

\* Through both handoffs, every failure of them and a stop() at any moment the encoded video has one
\* way into a file, no slot is reused under a file it still owns, the muxer gets one EOS on its audio pad,
\* a topology published as stable is true and backend, driver and coordinator agree on the microphone.
THEOREM BackendAgrees == Spec => []MediaInv
BY BackendStaysFit, FitAgrees, PTL
=============================================================================
