----------------------- MODULE ControlEndpointProofs -----------------------
(* The control endpoint keeps its books for any number of requests and any   *)
(* limit on clients: an inductive invariant of ControlEndpoint, and what     *)
(* follows from it.                                                          *)
EXTENDS ControlEndpoint, FiniteSetTheorems, TLAPS

-----------------------------------------------------------------------------
(* The inductive invariant *)

\* The await at place s of the program of command c.
At(c, s) == IF s <= Len(Program(c)) THEN Program(c)[s] ELSE "end"

\* One request, whatever the others do.  A pending intent is at the step that executes it; a timer or a
\* cancellation is outstanding only while a thread runs; only a closed request has abandoned a thread, and
\* never one that holds the durable lock.
Fits(r) ==
    /\ conn[r] \in {"none", "refused", "reading"} =>
          step[r] = 1 /\ ~thread[r] /\ due[r] = "go" /\ intent[r] = "none"
    /\ conn[r] = "running" =>
          /\ step[r] <= Len(Program(cmd[r]))
          /\ thread[r] => Step(r) \in {"block", "prepare", "intent", "event"}
          /\ thread[r] /\ Step(r) = "intent" => intent[r] # "none"
          /\ due[r] # "go" => thread[r]
          /\ intent[r] = "pending" => Step(r) = "intent"
    /\ conn[r] = "replying" => ~thread[r]
    /\ conn[r] = "closed" /\ thread[r] => ~DurableStep(r)
    /\ reply[r] # "none" => conn[r] \in {"replying", "closed"}
    /\ reply[r] = "ok" => intent[r] # "pending"

\* The durable lock is held by exactly the request whose durable thread runs.
LocksHeld ==
    /\ \A r \in Requests : durableLock = r <=> thread[r] /\ DurableStep(r)
    /\ LeaseLockOwned

\* A restart or removal under way is alone, and visible in the state.
OperationsAlone ==
    /\ ExclusiveOperation
    /\ \A r \in Requests : Operating(r) => opState \in {"RESTARTING", "PREPARING_REMOVAL"}

StoppedIsEmpty == listener = "stopped" => \A r \in Requests : conn[r] \notin {"reading", "running", "replying"}

EndpointInd ==
    /\ TypeOK
    /\ \A r \in Requests : Fits(r)
    /\ LocksHeld /\ OperationsAlone /\ MutationsCounted /\ StoppedIsEmpty

-----------------------------------------------------------------------------
(* Programs *)

\* The awaits of each command, place by place.
LEMMA ProgramIs ==
    ASSUME NEW c \in AllCommands
    PROVE  /\ c = "READ" => Program(c) = <<"block">>
           /\ c = "UPDATE_CONFIG" => Program(c) = <<"begin", "block", "block">>
           /\ c = "ACQUIRE" => Program(c) = <<"begin", "lease", "block", "block", "block">>
           /\ c = "RELEASE" => Program(c) = <<"lease", "block", "prepare", "intent">>
           /\ c = "PROTECT" => Program(c) = <<"begin", "prepare", "intent", "block">>
           /\ c = "DELETE" => Program(c) = <<"begin", "prepare", "intent">>
           /\ c = "EVENT" => Program(c) = <<"begin", "block", "event">>
           /\ c \in {"RESTART", "PREPARE_REMOVAL"} => Program(c) = <<"op", "callback">>
BY DEF Program, AllCommands

\* What place s of a program of length l says about itself and about the next place n.
Place(c, l, s, n) ==
    /\ s <= l => At(c, s) # "end"
    /\ At(c, s) # "end" => s <= l
    /\ At(c, s) \in {"begin", "lease", "prepare", "op"} => s < l
    /\ At(c, s) = "prepare" => At(c, n) = "intent"
    /\ At(c, s) = "begin" => s = 1
    /\ At(c, s) = "op" => s = 1 /\ At(c, n) = "callback"
    /\ At(c, s) = "callback" => s # 1 /\ s = l /\ At(c, 1) # "begin"
    /\ At(c, n) = "callback" => At(c, s) = "op"
    /\ At(c, s) = "lease" => c \in {"ACQUIRE", "RELEASE"}

ProgramShape(c) ==
    /\ Len(Program(c)) \in 1 .. 5
    /\ Program(c)[1] = At(c, 1)
    /\ \A s \in 1 .. 5 : Place(c, Len(Program(c)), s, s + 1)

\* A program of at most five places, spelled out.
LEMMA Spelled ==
    ASSUME NEW c, NEW p, Program(c) = p
    PROVE  /\ \A x : p = <<x>> => Len(Program(c)) = 1 /\ At(c, 1) = x /\ \A s \in 2 .. 6 : At(c, s) = "end"
           /\ \A x, y : p = <<x, y>> =>
                 Len(Program(c)) = 2 /\ At(c, 1) = x /\ At(c, 2) = y /\ \A s \in 3 .. 6 : At(c, s) = "end"
           /\ \A x, y, z : p = <<x, y, z>> =>
                 /\ Len(Program(c)) = 3 /\ At(c, 1) = x /\ At(c, 2) = y /\ At(c, 3) = z
                 /\ \A s \in 4 .. 6 : At(c, s) = "end"
           /\ \A w, x, y, z : p = <<w, x, y, z>> =>
                 /\ Len(Program(c)) = 4 /\ At(c, 1) = w /\ At(c, 2) = x /\ At(c, 3) = y /\ At(c, 4) = z
                 /\ \A s \in 5 .. 6 : At(c, s) = "end"
           /\ \A v, w, x, y, z : p = <<v, w, x, y, z>> =>
                 /\ Len(Program(c)) = 5 /\ At(c, 1) = v /\ At(c, 2) = w /\ At(c, 3) = x /\ At(c, 4) = y
                 /\ At(c, 5) = z /\ At(c, 6) = "end"
<1>1. \A x : p = <<x>> => Len(Program(c)) = 1 /\ At(c, 1) = x /\ \A s \in 2 .. 6 : At(c, s) = "end"
    BY DEF At
<1>2. \A x, y : p = <<x, y>> =>
         Len(Program(c)) = 2 /\ At(c, 1) = x /\ At(c, 2) = y /\ \A s \in 3 .. 6 : At(c, s) = "end"
    BY DEF At
<1>3. \A x, y, z : p = <<x, y, z>> =>
         /\ Len(Program(c)) = 3 /\ At(c, 1) = x /\ At(c, 2) = y /\ At(c, 3) = z
         /\ \A s \in 4 .. 6 : At(c, s) = "end"
    BY DEF At
<1>4. \A w, x, y, z : p = <<w, x, y, z>> =>
         /\ Len(Program(c)) = 4 /\ At(c, 1) = w /\ At(c, 2) = x /\ At(c, 3) = y /\ At(c, 4) = z
         /\ \A s \in 5 .. 6 : At(c, s) = "end"
    BY DEF At
<1>5. \A v, w, x, y, z : p = <<v, w, x, y, z>> =>
         /\ Len(Program(c)) = 5 /\ At(c, 1) = v /\ At(c, 2) = w /\ At(c, 3) = x /\ At(c, 4) = y
         /\ At(c, 5) = z /\ At(c, 6) = "end"
    BY DEF At
<1> QED
    BY <1>1, <1>2, <1>3, <1>4, <1>5

\* A program has that shape when each of its places has.
LEMMA PlaceByPlace ==
    ASSUME NEW c, NEW l \in 1 .. 5, Len(Program(c)) = l, Program(c)[1] = At(c, 1),
           Place(c, l, 1, 2), Place(c, l, 2, 3), Place(c, l, 3, 4), Place(c, l, 4, 5), Place(c, l, 5, 6)
    PROVE  ProgramShape(c)
<1>1. \A s \in 1 .. 5 : Place(c, l, s, s + 1)
    <2> SUFFICES ASSUME NEW s \in 1 .. 5 PROVE Place(c, l, s, s + 1)
        OBVIOUS
    <2>1. \/ s = 1 /\ s + 1 = 2
          \/ s = 2 /\ s + 1 = 3
          \/ s = 3 /\ s + 1 = 4
          \/ s = 4 /\ s + 1 = 5
          \/ s = 5 /\ s + 1 = 6
        OBVIOUS
    <2> QED
        BY <2>1, Zenon
<1> QED
    BY <1>1 DEF ProgramShape

\* Every command has a program of that shape.
LEMMA Shapes ==
    ASSUME NEW c \in AllCommands
    PROVE  ProgramShape(c)
<1>0. Program(c)[1] = At(c, 1) \/ Len(Program(c)) < 1
    BY ProgramIs DEF At, AllCommands
<1>1. CASE c = "READ"
    <2>1. Len(Program(c)) = 1 /\ At(c, 1) = "block" /\ At(c, 2) = "end" /\ At(c, 3) = "end" /\ At(c, 4) = "end"
          /\ At(c, 5) = "end" /\ At(c, 6) = "end"
        BY <1>1, ProgramIs, Spelled
    <2>2. Place(c, 1, 1, 2) /\ Place(c, 1, 2, 3) /\ Place(c, 1, 3, 4) /\ Place(c, 1, 4, 5) /\ Place(c, 1, 5, 6)
        BY <1>1, <2>1 DEF Place
    <2>3. 1 \in 1 .. 5 /\ Len(Program(c)) = 1 /\ Program(c)[1] = At(c, 1)
        BY <1>0, <2>1
    <2> QED
        BY <2>2, <2>3, PlaceByPlace
<1>2. CASE c = "UPDATE_CONFIG"
    <2>1. Len(Program(c)) = 3 /\ At(c, 1) = "begin" /\ At(c, 2) = "block" /\ At(c, 3) = "block" /\ At(c, 4) = "end" /\ At(c, 5) = "end" /\ At(c, 6) = "end"
        BY <1>2, ProgramIs, Spelled
    <2>2. Place(c, 3, 1, 2) /\ Place(c, 3, 2, 3) /\ Place(c, 3, 3, 4) /\ Place(c, 3, 4, 5) /\ Place(c, 3, 5, 6)
        BY <1>2, <2>1 DEF Place
    <2>3. 3 \in 1 .. 5 /\ Len(Program(c)) = 3 /\ Program(c)[1] = At(c, 1)
        BY <1>0, <2>1
    <2> QED
        BY <2>2, <2>3, PlaceByPlace
<1>3. CASE c = "ACQUIRE"
    <2>1. /\ Len(Program(c)) = 5 /\ At(c, 1) = "begin" /\ At(c, 2) = "lease" /\ At(c, 3) = "block" /\ At(c, 4) = "block"
          /\ At(c, 5) = "block" /\ At(c, 6) = "end"
        BY <1>3, ProgramIs, Spelled
    <2>2. Place(c, 5, 1, 2) /\ Place(c, 5, 2, 3) /\ Place(c, 5, 3, 4) /\ Place(c, 5, 4, 5) /\ Place(c, 5, 5, 6)
        BY <1>3, <2>1 DEF Place
    <2>3. 5 \in 1 .. 5 /\ Len(Program(c)) = 5 /\ Program(c)[1] = At(c, 1)
        BY <1>0, <2>1
    <2> QED
        BY <2>2, <2>3, PlaceByPlace
<1>4. CASE c = "RELEASE"
    <2>1. /\ Len(Program(c)) = 4 /\ At(c, 1) = "lease" /\ At(c, 2) = "block" /\ At(c, 3) = "prepare" /\ At(c, 4) = "intent"
          /\ At(c, 5) = "end" /\ At(c, 6) = "end"
        BY <1>4, ProgramIs, Spelled
    <2>2. Place(c, 4, 1, 2) /\ Place(c, 4, 2, 3) /\ Place(c, 4, 3, 4) /\ Place(c, 4, 4, 5) /\ Place(c, 4, 5, 6)
        BY <1>4, <2>1 DEF Place
    <2>3. 4 \in 1 .. 5 /\ Len(Program(c)) = 4 /\ Program(c)[1] = At(c, 1)
        BY <1>0, <2>1
    <2> QED
        BY <2>2, <2>3, PlaceByPlace
<1>5. CASE c = "PROTECT"
    <2>1. /\ Len(Program(c)) = 4 /\ At(c, 1) = "begin" /\ At(c, 2) = "prepare" /\ At(c, 3) = "intent" /\ At(c, 4) = "block"
          /\ At(c, 5) = "end" /\ At(c, 6) = "end"
        BY <1>5, ProgramIs, Spelled
    <2>2. Place(c, 4, 1, 2) /\ Place(c, 4, 2, 3) /\ Place(c, 4, 3, 4) /\ Place(c, 4, 4, 5) /\ Place(c, 4, 5, 6)
        BY <1>5, <2>1 DEF Place
    <2>3. 4 \in 1 .. 5 /\ Len(Program(c)) = 4 /\ Program(c)[1] = At(c, 1)
        BY <1>0, <2>1
    <2> QED
        BY <2>2, <2>3, PlaceByPlace
<1>6. CASE c = "DELETE"
    <2>1. Len(Program(c)) = 3 /\ At(c, 1) = "begin" /\ At(c, 2) = "prepare" /\ At(c, 3) = "intent" /\ At(c, 4) = "end" /\ At(c, 5) = "end" /\ At(c, 6) = "end"
        BY <1>6, ProgramIs, Spelled
    <2>2. Place(c, 3, 1, 2) /\ Place(c, 3, 2, 3) /\ Place(c, 3, 3, 4) /\ Place(c, 3, 4, 5) /\ Place(c, 3, 5, 6)
        BY <1>6, <2>1 DEF Place
    <2>3. 3 \in 1 .. 5 /\ Len(Program(c)) = 3 /\ Program(c)[1] = At(c, 1)
        BY <1>0, <2>1
    <2> QED
        BY <2>2, <2>3, PlaceByPlace
<1>7. CASE c = "EVENT"
    <2>1. Len(Program(c)) = 3 /\ At(c, 1) = "begin" /\ At(c, 2) = "block" /\ At(c, 3) = "event" /\ At(c, 4) = "end" /\ At(c, 5) = "end" /\ At(c, 6) = "end"
        BY <1>7, ProgramIs, Spelled
    <2>2. Place(c, 3, 1, 2) /\ Place(c, 3, 2, 3) /\ Place(c, 3, 3, 4) /\ Place(c, 3, 4, 5) /\ Place(c, 3, 5, 6)
        BY <1>7, <2>1 DEF Place
    <2>3. 3 \in 1 .. 5 /\ Len(Program(c)) = 3 /\ Program(c)[1] = At(c, 1)
        BY <1>0, <2>1
    <2> QED
        BY <2>2, <2>3, PlaceByPlace
<1>8. CASE c \in {"RESTART", "PREPARE_REMOVAL"}
    <2>1. Len(Program(c)) = 2 /\ At(c, 1) = "op" /\ At(c, 2) = "callback" /\ At(c, 3) = "end" /\ At(c, 4) = "end" /\ At(c, 5) = "end" /\ At(c, 6) = "end"
        BY <1>8, ProgramIs, Spelled
    <2>2. Place(c, 2, 1, 2) /\ Place(c, 2, 2, 3) /\ Place(c, 2, 3, 4) /\ Place(c, 2, 4, 5) /\ Place(c, 2, 5, 6)
        BY <1>8, <2>1 DEF Place
    <2>3. 2 \in 1 .. 5 /\ Len(Program(c)) = 2 /\ Program(c)[1] = At(c, 1)
        BY <1>0, <2>1
    <2> QED
        BY <2>2, <2>3, PlaceByPlace
<1> QED
    BY <1>1, <1>2, <1>3, <1>4, <1>5, <1>6, <1>7, <1>8 DEF AllCommands

-----------------------------------------------------------------------------
(* One request moves, the others stay *)

Same(q) ==
    /\ conn'[q] = conn[q] /\ cmd'[q] = cmd[q] /\ step'[q] = step[q] /\ thread'[q] = thread[q]
    /\ due'[q] = due[q] /\ intent'[q] = intent[q] /\ reply'[q] = reply[q]

\* The step of a request is a place of its program.
LEMMA StepIs ==
    ASSUME NEW r \in Requests
    PROVE  Step(r) = At(cmd[r], step[r]) /\ Step(r)' = At(cmd'[r], step'[r])
BY DEF Step, At

\* The programs of all requests have their shape.
LEMMA ShapeOf ==
    ASSUME TypeOK, NEW r \in Requests
    PROVE  /\ ProgramShape(cmd[r]) /\ step[r] \in 1 .. 5 /\ Place(cmd[r], Len(Program(cmd[r])), step[r], step[r] + 1)
           /\ Len(Program(cmd[r])) \in 1 .. 5 /\ cmd[r] \in AllCommands
           /\ Place(cmd[r], Len(Program(cmd[r])), 1, 2)
<1>1. cmd[r] \in AllCommands /\ step[r] \in 1 .. 5
    BY DEF TypeOK
<1>2. ProgramShape(cmd[r])
    BY <1>1, Shapes
<1>3. Place(cmd[r], Len(Program(cmd[r])), 1, 1 + 1)
    BY <1>2 DEF ProgramShape
<1> QED
    BY <1>1, <1>2, <1>3 DEF ProgramShape

\* What holds of a request that stays, still holds.
LEMMA SameStays ==
    ASSUME NEW q \in Requests, Same(q)
    PROVE  /\ Fits(q) => Fits(q)'
           /\ Counted(q)' <=> Counted(q)
           /\ Operating(q)' <=> Operating(q)
           /\ DurableStep(q)' <=> DurableStep(q)
           /\ Running(q)' <=> Running(q)
BY DEF Same, Fits, Counted, Operating, DurableStep, Running, Step

\* The count follows the one request that enters or leaves a mutation.
LEMMA CountFollows ==
    ASSUME MutationsCounted, mutations \in Nat, NEW r \in Requests, \A q \in Requests \ {r} : Same(q),
           \/ (Counted(r)' <=> Counted(r)) /\ mutations' = mutations
           \/ ~Counted(r) /\ Counted(r)' /\ mutations' = mutations + 1
           \/ Counted(r) /\ ~Counted(r)' /\ mutations' = mutations - 1
    PROVE  MutationsCounted' /\ mutations' \in Nat
<1> DEFINE S == {q \in Requests : Counted(q)}
           T == {q \in Requests : Counted(q)'}
<1>1. mutations = Cardinality(S) /\ IsFiniteSet(S)
    BY ControlAssumption, FS_Subset DEF MutationsCounted
<1>2. \A q \in Requests \ {r} : Counted(q)' <=> Counted(q)
    BY SameStays
<1>3. CASE (Counted(r)' <=> Counted(r)) /\ mutations' = mutations
    <2>1. T = S
        BY <1>2, <1>3
    <2> QED
        BY <2>1, <1>1, <1>3 DEF MutationsCounted
<1>4. CASE ~Counted(r) /\ Counted(r)' /\ mutations' = mutations + 1
    <2>1. T = S \cup {r} /\ r \notin S
        BY <1>2, <1>4
    <2>2. Cardinality(T) = Cardinality(S) + 1
        BY <2>1, <1>1, FS_AddElement
    <2> QED
        BY <2>2, <1>1, <1>4 DEF MutationsCounted
<1>5. CASE Counted(r) /\ ~Counted(r)' /\ mutations' = mutations - 1
    <2>1. T = S \ {r} /\ r \in S
        BY <1>2, <1>5
    <2>2. Cardinality(T) = Cardinality(S) - 1 /\ IsFiniteSet(T)
        BY <2>1, <1>1, FS_RemoveElement
    <2>3. Cardinality(T) \in Nat
        BY <2>2, FS_CardinalityType
    <2> QED
        BY <2>2, <2>3, <1>1, <1>5 DEF MutationsCounted
<1> QED
    BY <1>3, <1>4, <1>5

\* A request that starts a restart or removal starts it alone; one that ends, ends it.
LEMMA OperationsFollow ==
    ASSUME OperationsAlone, NEW r \in Requests, \A q \in Requests \ {r} : Same(q),
           \/ (Operating(r)' <=> Operating(r)) /\ opState' = opState /\ (Counted(r)' => Counted(r) \/ opState = "IDLE")
           \/ /\ ~Operating(r) /\ Operating(r)' /\ opState = "IDLE" /\ (\A q \in Requests : ~Counted(q)) /\ ~Counted(r)'
              /\ opState' \in {"RESTARTING", "PREPARING_REMOVAL"}
           \/ Operating(r) /\ ~Operating(r)' /\ ~Counted(r)'
    PROVE  OperationsAlone'
<1>1. \A q \in Requests \ {r} : (Counted(q)' <=> Counted(q)) /\ (Operating(q)' <=> Operating(q))
    BY SameStays
<1>2. CASE (Operating(r)' <=> Operating(r)) /\ opState' = opState /\ (Counted(r)' => Counted(r) \/ opState = "IDLE")
    BY <1>1, <1>2 DEF OperationsAlone, ExclusiveOperation
<1>3. CASE /\ ~Operating(r) /\ Operating(r)' /\ opState = "IDLE" /\ (\A q \in Requests : ~Counted(q)) /\ ~Counted(r)'
           /\ opState' \in {"RESTARTING", "PREPARING_REMOVAL"}
    <2>1. \A q \in Requests : ~Operating(q)
        BY <1>3 DEF OperationsAlone
    <2> QED
        BY <1>1, <1>3, <2>1 DEF OperationsAlone, ExclusiveOperation
<1>4. CASE Operating(r) /\ ~Operating(r)' /\ ~Counted(r)'
    <2>1. \A q \in Requests : ~Counted(q)
        BY <1>4 DEF OperationsAlone, ExclusiveOperation
    <2>2. \A q \in Requests : ~Operating(q)'
        BY <1>1, <1>4 DEF OperationsAlone, ExclusiveOperation
    <2> QED
        BY <1>1, <1>4, <2>1, <2>2 DEF OperationsAlone, ExclusiveOperation
<1> QED
    BY <1>2, <1>3, <1>4

\* The locks follow the one request that takes or gives them back.
LEMMA LocksFollow ==
    ASSUME TypeOK, LocksHeld, NEW r \in Requests, \A q \in Requests \ {r} : Same(q),
           \/ durableLock' = durableLock /\ (thread'[r] /\ DurableStep(r)' <=> thread[r] /\ DurableStep(r))
           \/ durableLock = Nobody /\ durableLock' = r /\ thread'[r] /\ DurableStep(r)'
           \/ durableLock = r /\ durableLock' = Nobody /\ ~(thread'[r] /\ DurableStep(r)'),
           \/ leaseLock' = leaseLock /\ (leaseLock = r => Running(r)' /\ cmd'[r] = cmd[r])
           \/ leaseLock' = r /\ Running(r)' /\ cmd'[r] \in {"ACQUIRE", "RELEASE"}
           \/ leaseLock' = Nobody
    PROVE  LocksHeld'
<1>1. \A q \in Requests \ {r} : /\ DurableStep(q)' <=> DurableStep(q)
                                /\ Running(q)' <=> Running(q)
                                /\ thread'[q] = thread[q] /\ cmd'[q] = cmd[q]
    BY SameStays DEF Same
<1>n. Nobody \notin Requests
    BY ControlAssumption DEF Nobody
<1>2. LeaseLockOwned'
    <2>1. leaseLock \in Requests \cup {Nobody} /\ LeaseLockOwned
        BY DEF TypeOK, LocksHeld
    <2>2. CASE leaseLock' = leaseLock /\ (leaseLock = r => Running(r)' /\ cmd'[r] = cmd[r])
        BY <2>1, <2>2, <1>1 DEF LeaseLockOwned, Running
    <2>3. CASE leaseLock' = r /\ Running(r)' /\ cmd'[r] \in {"ACQUIRE", "RELEASE"}
        BY <2>3 DEF LeaseLockOwned, Running
    <2>4. CASE leaseLock' = Nobody
        BY <2>4 DEF LeaseLockOwned
    <2> QED
        BY <2>2, <2>3, <2>4
<1>3. \A q \in Requests : durableLock' = q <=> thread'[q] /\ DurableStep(q)'
    <2>1. \A q \in Requests : durableLock = q <=> thread[q] /\ DurableStep(q)
        BY DEF LocksHeld
    <2> SUFFICES ASSUME NEW q \in Requests PROVE durableLock' = q <=> thread'[q] /\ DurableStep(q)'
        OBVIOUS
    <2>2. CASE q = r
        BY <2>1, <2>2, <1>n
    <2>3. CASE q # r
        BY <2>1, <2>3, <1>1, <1>n
    <2> QED
        BY <2>2, <2>3
<1> QED
    BY <1>2, <1>3 DEF LocksHeld

\* The parts of the invariant, for an action of one request.
LEMMA Together ==
    ASSUME EndpointInd, NEW r \in Requests, TypeOK', \A q \in Requests \ {r} : Same(q), Fits(r)',
           UNCHANGED listener, listener = "stopped" => conn'[r] \notin {"reading", "running", "replying"},
           LocksHeld', OperationsAlone', MutationsCounted'
    PROVE  EndpointInd'
<1>1. \A q \in Requests : Fits(q)'
    BY SameStays DEF EndpointInd
<1>2. StoppedIsEmpty'
    BY DEF EndpointInd, StoppedIsEmpty, Same
<1> QED
    BY <1>1, <1>2 DEF EndpointInd

RequestTypes ==
    /\ conn \in [Requests -> ConnPhases] /\ cmd \in [Requests -> AllCommands] /\ step \in [Requests -> 1 .. 5]
    /\ thread \in [Requests -> BOOLEAN] /\ due \in [Requests -> {"go", "none", "fault", "timeout"}]
    /\ intent \in [Requests -> {"none", "pending", "done"}] /\ reply \in [Requests -> Answers]

\* A request ends: it leaves its mutation, its lock and its operation.
LEMMA Finishes ==
    ASSUME EndpointInd, NEW r \in Requests, NEW a \in Answers, Running(r), Finish(r, a), UNCHANGED listener,
           kicked' \subseteq Requests,
           thread' \in [Requests -> BOOLEAN], due' \in [Requests -> {"go", "none", "fault", "timeout"}],
           intent' \in [Requests -> {"none", "pending", "done"}],
           \A q \in Requests \ {r} : thread'[q] = thread[q] /\ due'[q] = due[q] /\ intent'[q] = intent[q],
           a = "ok" => intent'[r] # "pending",
           a # "none" => ~thread'[r],
           thread'[r] => ~DurableStep(r),
           \/ durableLock' = durableLock /\ durableLock # r
           \/ durableLock = r /\ durableLock' = Nobody
    PROVE  EndpointInd'
<1>t. /\ TypeOK /\ RequestTypes /\ opState \in {"IDLE", "RESTARTING", "PREPARING_REMOVAL", "SHUTTING_DOWN"}
      /\ mutations \in Nat /\ leaseLock \in Requests \cup {Nobody} /\ durableLock \in Requests \cup {Nobody, Recorder}
      /\ LocksHeld /\ OperationsAlone /\ MutationsCounted /\ StoppedIsEmpty
    BY DEF EndpointInd, TypeOK, RequestTypes
<1>1. /\ conn' \in [Requests -> ConnPhases] /\ conn'[r] = IF a = "none" THEN "closed" ELSE "replying"
      /\ \A q \in Requests \ {r} : conn'[q] = conn[q]
    BY <1>t DEF Finish, RequestTypes, ConnPhases
<1>2. /\ reply' \in [Requests -> Answers] /\ reply'[r] = a
      /\ \A q \in Requests \ {r} : reply'[q] = reply[q]
    BY <1>t DEF Finish, RequestTypes
<1>3. UNCHANGED <<cmd, step>>
    BY DEF Finish
<1>4. \A q \in Requests \ {r} : Same(q)
    BY <1>1, <1>2, <1>3 DEF Same
<1>5. ~Running(r)' /\ ~Counted(r)' /\ ~Operating(r)' /\ (DurableStep(r)' <=> DurableStep(r))
    BY <1>1, <1>3 DEF Running, Counted, Operating, DurableStep, Step
<1>6. MutationsCounted' /\ mutations' \in Nat
    <2>1. mutations' = IF Counted(r) THEN mutations - 1 ELSE mutations
        BY DEF Finish, EndMutation
    <2> QED
        BY <2>1, <1>4, <1>5, <1>t, CountFollows
<1>7. OperationsAlone'
    <2>1. ~Operating(r) => opState' = opState
        BY DEF Finish
    <2> QED
        BY <2>1, <1>4, <1>5, <1>t, OperationsFollow
<1>8. LocksHeld'
    <2>1. leaseLock' = IF leaseLock = r THEN Nobody ELSE leaseLock
        BY DEF Finish, FreeLeaseLock
    <2>2. durableLock # r => ~(thread[r] /\ DurableStep(r))
        BY <1>t DEF LocksHeld
    <2>3. thread'[r] \in BOOLEAN /\ thread[r] \in BOOLEAN
        BY <1>t DEF RequestTypes
    <2> QED
        BY <2>1, <2>2, <2>3, <1>4, <1>5, <1>t, LocksFollow
<1>9. TypeOK'
    <2>1. opState' \in {"IDLE", "RESTARTING", "PREPARING_REMOVAL", "SHUTTING_DOWN"}
        BY <1>t DEF Finish
    <2>2. leaseLock' \in Requests \cup {Nobody}
        BY <1>t DEF Finish, FreeLeaseLock
    <2>3. durableLock' \in Requests \cup {Nobody, Recorder}
        BY <1>t
    <2> QED
        BY <2>1, <2>2, <2>3, <1>1, <1>2, <1>3, <1>6, <1>t DEF TypeOK, RequestTypes
<1>10. Fits(r)'
    BY <1>1, <1>2, <1>5 DEF Fits
<1>11. listener # "stopped"
    BY <1>t DEF StoppedIsEmpty, Running
<1> QED
    BY <1>4, <1>6, <1>7, <1>8, <1>9, <1>10, <1>11, Together

\* A request goes on to its next await: it may enter a mutation, a lock or an operation.
LEMMA Advances ==
    ASSUME EndpointInd, NEW r \in Requests, Running(r), Advance(r), step[r] < Len(Program(cmd[r])),
           UNCHANGED <<listener, kicked, conn, cmd, reply>>,
           thread' \in [Requests -> BOOLEAN], due' \in [Requests -> {"go", "none", "fault", "timeout"}],
           intent' \in [Requests -> {"none", "pending", "done"}],
           \A q \in Requests \ {r} : thread'[q] = thread[q] /\ due'[q] = due[q] /\ intent'[q] = intent[q],
           ~thread'[r], due'[r] = "go",
           intent'[r] = "pending" => Step(r) = "prepare",
           \/ durableLock' = durableLock /\ durableLock # r
           \/ durableLock = r /\ durableLock' = Nobody,
           leaseLock' = IF Step(r) = "lease" THEN r ELSE leaseLock,
           Step(r) = "begin" => mutations' = mutations + 1 /\ opState = "IDLE",
           Step(r) # "begin" => mutations' = mutations,
           IF Step(r) = "op" THEN opState = "IDLE" /\ mutations = 0 /\ opState' \in {"RESTARTING", "PREPARING_REMOVAL"}
           ELSE opState' = opState
    PROVE  EndpointInd'
<1>t. /\ TypeOK /\ RequestTypes /\ opState \in {"IDLE", "RESTARTING", "PREPARING_REMOVAL", "SHUTTING_DOWN"}
      /\ mutations \in Nat /\ leaseLock \in Requests \cup {Nobody} /\ durableLock \in Requests \cup {Nobody, Recorder}
      /\ LocksHeld /\ OperationsAlone /\ MutationsCounted /\ StoppedIsEmpty
    BY DEF EndpointInd, TypeOK, RequestTypes
<1> DEFINE c == cmd[r]
           s == step[r]
           l == Len(Program(c))
<1>p. /\ Place(c, l, s, s + 1) /\ s \in 1 .. 5 /\ l \in 1 .. 5 /\ c \in AllCommands /\ s + 1 \in 1 .. 5 /\ s + 1 <= l
      /\ Program(c)[1] = At(c, 1)
    <2>1. Place(c, l, s, s + 1) /\ s \in 1 .. 5 /\ l \in 1 .. 5 /\ c \in AllCommands
        BY <1>t, ShapeOf
    <2>2. Program(c)[1] = At(c, 1)
        BY <1>t, ShapeOf DEF ProgramShape
    <2>3. s < l
        OBVIOUS
    <2> HIDE DEF s, l
    <2>4. s + 1 \in 1 .. 5 /\ s + 1 <= l
        BY <2>1, <2>3
    <2> QED
        BY <2>1, <2>2, <2>4
<1>1. /\ step' \in [Requests -> 1 .. 5] /\ step'[r] = s + 1
      /\ \A q \in Requests \ {r} : step'[q] = step[q]
    BY <1>t, <1>p DEF Advance, RequestTypes
<1>4. \A q \in Requests \ {r} : Same(q)
    BY <1>1 DEF Same
<1>s. Step(r) = At(c, s) /\ Step(r)' = At(c, s + 1)
    BY <1>1, StepIs
<1> HIDE DEF l
<1>5. /\ Running(r)'
      /\ Counted(r)' <=> At(c, 1) = "begin"
      /\ Counted(r) <=> At(c, 1) = "begin" /\ s > 1
    BY <1>1, <1>p DEF Running, Counted
<1>6. MutationsCounted' /\ mutations' \in Nat
    <2>1. CASE Step(r) = "begin"
        <3>1. s = 1 /\ Counted(r)' /\ ~Counted(r)
            BY <2>1, <1>5, <1>s, <1>p DEF Place
        <3> QED
            BY <2>1, <3>1, <1>4, <1>t, CountFollows
    <2>2. CASE Step(r) # "begin"
        <3>1. Counted(r)' <=> Counted(r)
            BY <2>2, <1>5, <1>s, <1>p
        <3> QED
            BY <2>2, <3>1, <1>4, <1>t, CountFollows
    <2> QED
        BY <2>1, <2>2
<1>7. OperationsAlone'
    <2>1. Operating(r)' <=> At(c, s + 1) = "callback"
        BY <1>5, <1>s DEF Operating
    <2>2. ~Operating(r)
        BY <1>s, <1>p DEF Operating, Place
    <2>3. CASE Step(r) = "op"
        <3>1. \A q \in Requests : ~Counted(q)
            <4>1. Cardinality({q \in Requests : Counted(q)}) = 0
                BY <2>3, <1>t DEF MutationsCounted
            <4>2. IsFiniteSet({q \in Requests : Counted(q)})
                BY ControlAssumption, FS_Subset
            <4>3. {q \in Requests : Counted(q)} = {}
                BY <4>1, <4>2, FS_EmptySet
            <4> QED
                BY <4>3
        <3>2. ~Counted(r)'
            BY <2>3, <1>5, <1>s, <1>p DEF Place
        <3>3. CASE Operating(r)'
            BY <3>1, <3>2, <3>3, <2>2, <2>3, <1>4, <1>t, OperationsFollow
        <3>4. At(c, s + 1) = "callback"
            BY <2>3, <1>s, <1>p DEF Place
        <3> QED
            BY <3>3, <3>4, <2>1
    <2>4. CASE Step(r) # "op"
        <3>1. ~Operating(r)'
            BY <2>4, <2>1, <1>s, <1>p DEF Place
        <3>2. Counted(r)' => Counted(r) \/ opState = "IDLE"
            BY <1>5, <1>s, <1>p
        <3> QED
            BY <3>1, <3>2, <2>2, <2>4, <1>4, <1>t, OperationsFollow
    <2> QED
        BY <2>3, <2>4
<1>8. LocksHeld'
    <2>1. durableLock # r => ~(thread[r] /\ DurableStep(r))
        BY <1>t DEF LocksHeld
    <2>2. thread'[r] \in BOOLEAN /\ thread[r] \in BOOLEAN
        BY <1>t DEF RequestTypes
    <2>3. Step(r) = "lease" => cmd'[r] \in {"ACQUIRE", "RELEASE"}
        BY <1>s, <1>p DEF Place
    <2> QED
        BY <2>1, <2>2, <2>3, <1>4, <1>5, <1>t, LocksFollow
<1>9. TypeOK'
    <2>1. opState' \in {"IDLE", "RESTARTING", "PREPARING_REMOVAL", "SHUTTING_DOWN"}
        BY <1>t
    <2>2. leaseLock' \in Requests \cup {Nobody}
        BY <1>t
    <2>3. durableLock' \in Requests \cup {Nobody, Recorder}
        BY <1>t
    <2> QED
        BY <2>1, <2>2, <2>3, <1>1, <1>6, <1>t DEF TypeOK, RequestTypes
<1>10. Fits(r)'
    <2>1. step'[r] <= Len(Program(cmd'[r])) /\ reply'[r] = "none"
        BY <1>1, <1>p DEF EndpointInd, Fits, Running, l
    <2>2. intent'[r] = "pending" => Step(r)' = "intent"
        BY <1>s, <1>p DEF Place
    <2> QED
        BY <2>1, <2>2, <1>5 DEF Fits, Running
<1>11. listener # "stopped"
    BY <1>t DEF StoppedIsEmpty, Running
<1> QED
    BY <1>4, <1>6, <1>7, <1>8, <1>9, <1>10, <1>11, Together

\* A request stays at its await while its thread starts or ends and its timers fire.
LEMMA Waits ==
    ASSUME EndpointInd, NEW r \in Requests,
           UNCHANGED <<listener, conn, cmd, step, intent, reply, opState, mutations, leaseLock>>, kicked' \subseteq Requests,
           thread' \in [Requests -> BOOLEAN], due' \in [Requests -> {"go", "none", "fault", "timeout"}],
           \A q \in Requests \ {r} : thread'[q] = thread[q] /\ due'[q] = due[q],
           (conn[r] = "closed" /\ ~thread'[r]) \/ (Running(r) /\ (thread'[r] => Step(r) \in {"block", "prepare", "intent", "event"})
                                                /\ (due'[r] # "go" => thread'[r])
                                                /\ (thread'[r] /\ Step(r) = "intent" => intent[r] # "none")),
           \/ durableLock' = durableLock /\ (DurableStep(r) => (thread'[r] <=> thread[r]))
           \/ durableLock = Nobody /\ durableLock' = r /\ thread'[r] /\ DurableStep(r)
    PROVE  EndpointInd'
<1>t. /\ TypeOK /\ LocksHeld /\ OperationsAlone /\ MutationsCounted /\ StoppedIsEmpty
      /\ durableLock \in Requests \cup {Nobody, Recorder} /\ mutations \in Nat
    BY DEF EndpointInd, TypeOK
<1>1. \A q \in Requests \ {r} : Same(q)
    BY DEF Same
<1>2. /\ Counted(r)' <=> Counted(r)
      /\ Operating(r)' <=> Operating(r)
      /\ DurableStep(r)' <=> DurableStep(r)
      /\ Running(r)' <=> Running(r)
      /\ Step(r)' = Step(r)
    BY DEF Counted, Operating, DurableStep, Running, Step
<1>3. MutationsCounted'
    BY <1>1, <1>2, <1>t, CountFollows
<1>4. OperationsAlone'
    BY <1>1, <1>2, <1>t, OperationsFollow
<1>5. LocksHeld'
    <2>1. leaseLock = r => Running(r)
        <3>1. Nobody \notin Requests
            BY ControlAssumption DEF Nobody
        <3> QED
            BY <3>1, <1>t DEF LocksHeld, LeaseLockOwned
    <2> QED
        BY <2>1, <1>1, <1>2, <1>t, LocksFollow
<1>6. TypeOK'
    BY <1>t DEF TypeOK
<1>7. Fits(r)'
    BY <1>2 DEF EndpointInd, Fits, Running
<1>8. listener = "stopped" => conn'[r] \notin {"reading", "running", "replying"}
    BY <1>t DEF StoppedIsEmpty
<1> QED
    BY <1>1, <1>3, <1>4, <1>5, <1>6, <1>7, <1>8, Together

\* A connection is made, read or closed, without a command under way before; it runs from its first await.
LEMMA Connects ==
    ASSUME EndpointInd, NEW r \in Requests, ~Running(r),
           UNCHANGED <<listener, step, thread, due, intent, reply, dispatchVars>>, kicked' \subseteq Requests,
           conn' \in [Requests -> ConnPhases], cmd' \in [Requests -> AllCommands],
           \A q \in Requests \ {r} : conn'[q] = conn[q] /\ cmd'[q] = cmd[q],
           \/ conn[r] = "none" /\ conn'[r] \in {"reading", "refused"} /\ listener # "stopped" /\ UNCHANGED cmd
           \/ conn[r] = "reading" /\ conn'[r] = "running"
           \/ conn[r] \in {"reading", "replying"} /\ conn'[r] = "closed" /\ UNCHANGED cmd
    PROVE  EndpointInd'
<1>t. /\ TypeOK /\ LocksHeld /\ OperationsAlone /\ MutationsCounted /\ StoppedIsEmpty /\ Fits(r) /\ mutations \in Nat
    BY DEF EndpointInd, TypeOK
<1>1. \A q \in Requests \ {r} : Same(q)
    BY DEF Same
<1>6. TypeOK'
    BY <1>t DEF TypeOK, dispatchVars
<1>2. ~Counted(r) /\ ~Operating(r)
    BY DEF Counted, Operating
<1>3. ~thread[r] /\ ~thread'[r] /\ (conn'[r] = "running" => step'[r] = 1)
    BY <1>t DEF Fits
<1>4. ~Counted(r)' /\ ~Operating(r)'
    <2>1. conn'[r] = "running" => Step(r)' # "callback"
        <3>1. step'[r] = 1 => Step(r)' = At(cmd'[r], 1) /\ ProgramShape(cmd'[r])
            BY StepIs, Shapes DEF TypeOK
        <3>2. ProgramShape(cmd'[r]) => At(cmd'[r], 1) # "callback"
            BY DEF ProgramShape, Place
        <3> QED
            BY <3>1, <3>2, <1>3
    <2> QED
        BY <2>1, <1>3 DEF Counted, Operating, Running
<1>5. MutationsCounted'
    BY <1>1, <1>2, <1>4, <1>t, CountFollows DEF dispatchVars
<1>7. OperationsAlone'
    BY <1>1, <1>2, <1>4, <1>t, OperationsFollow DEF dispatchVars
<1>8. LocksHeld'
    <2>1. leaseLock # r
        <3>1. Nobody \notin Requests
            BY ControlAssumption DEF Nobody
        <3> QED
            BY <3>1, <1>t DEF LocksHeld, LeaseLockOwned
    <2> QED
        BY <2>1, <1>1, <1>3, <1>t, LocksFollow DEF dispatchVars
<1>9. Fits(r)'
    <2>1. Len(Program(cmd'[r])) \in 1 .. 5
        BY Shapes DEF ProgramShape
    <2>2. conn'[r] = "running" => step'[r] <= Len(Program(cmd'[r]))
        <3> DEFINE l == Len(Program(cmd'[r]))
        <3>1. l \in 1 .. 5
            BY <2>1
        <3> HIDE DEF l
        <3>2. 1 <= l
            BY <3>1
        <3> QED
            BY <3>2, <1>3 DEF l
    <2>3. conn'[r] # "closed" => due'[r] = "go" /\ intent'[r] = "none" /\ step'[r] = 1 /\ reply'[r] = "none"
        BY <1>t DEF Fits
    <2>4. (reply'[r] # "none" => conn'[r] \in {"replying", "closed"}) /\ (reply'[r] = "ok" => intent'[r] # "pending")
        BY <2>3, <1>t DEF Fits
    <2> QED
        BY <2>2, <2>3, <2>4, <1>3 DEF Fits
<1>10. listener = "stopped" => conn'[r] \notin {"reading", "running", "replying"}
    BY <1>t DEF StoppedIsEmpty
<1> QED
    BY <1>1, <1>5, <1>6, <1>7, <1>8, <1>9, <1>10, Together

-----------------------------------------------------------------------------
(* The actions *)

\* What the invariant says of a running request, in terms of its program.
LEMMA RunningFacts ==
    ASSUME EndpointInd, NEW r \in Requests, Running(r)
    PROVE  /\ step[r] <= Len(Program(cmd[r])) /\ step[r] \in 1 .. 5 /\ Len(Program(cmd[r])) \in 1 .. 5
           /\ thread[r] => Step(r) \in {"block", "prepare", "intent", "event"}
           /\ thread[r] /\ Step(r) = "intent" => intent[r] # "none"
           /\ due[r] # "go" => thread[r]
           /\ intent[r] = "pending" => Step(r) = "intent"
           /\ durableLock = r <=> thread[r] /\ DurableStep(r)
           /\ Step(r) \in {"begin", "lease", "prepare", "op"} => step[r] < Len(Program(cmd[r]))
           /\ thread[r] \in BOOLEAN /\ due[r] \in {"go", "none", "fault", "timeout"} /\ intent[r] \in {"none", "pending", "done"}
           /\ RequestTypes /\ kicked \subseteq Requests
<1>1. TypeOK /\ Fits(r) /\ LocksHeld
    BY DEF EndpointInd
<1>2. step[r] \in 1 .. 5 /\ Len(Program(cmd[r])) \in 1 .. 5
    BY <1>1, ShapeOf
<1>3. Step(r) \in {"begin", "lease", "prepare", "op"} => step[r] < Len(Program(cmd[r]))
    BY <1>1, ShapeOf, StepIs DEF Place
<1> QED
    BY <1>1, <1>2, <1>3 DEF Fits, Running, LocksHeld, TypeOK, RequestTypes

\* The cancellation of a task, by a timer or by the stop of the listener.
LEMMA Cancels ==
    ASSUME EndpointInd, NEW r \in Requests, Cancel(r), UNCHANGED <<listener, thread, intent, durableLock>>,
           kicked' \subseteq Requests
    PROVE  EndpointInd'
<1>t. RequestTypes
    BY DEF EndpointInd, TypeOK, RequestTypes
<1>1. CASE /\ Running(r) /\ thread[r] /\ (due[r] # "none" \/ DurableStep(r))
           /\ due' = [due EXCEPT ![r] = "none"]
           /\ UNCHANGED <<conn, cmd, step, reply, opState, mutations, leaseLock>>
    <2>1. /\ due' \in [Requests -> {"go", "none", "fault", "timeout"}]
          /\ \A q \in Requests \ {r} : due'[q] = due[q]
        BY <1>1, <1>t DEF RequestTypes
    <2> QED
        BY <1>1, <2>1, <1>t, RunningFacts, Waits DEF RequestTypes
<1>2. CASE /\ Running(r) /\ (~thread[r] \/ (due[r] = "none" /\ ~DurableStep(r)))
           /\ Finish(r, "none") /\ UNCHANGED due
    BY <1>2, <1>t, RunningFacts, Finishes DEF RequestTypes, Answers
<1>3. CASE /\ conn[r] \in {"reading", "replying"}
           /\ conn' = [conn EXCEPT ![r] = "closed"]
           /\ UNCHANGED <<cmd, step, reply, due, opState, mutations, leaseLock>>
    <2>1. /\ conn' \in [Requests -> ConnPhases] /\ conn'[r] = "closed"
          /\ \A q \in Requests \ {r} : conn'[q] = conn[q]
        BY <1>3, <1>t DEF RequestTypes, ConnPhases
    <2> QED
        BY <1>3, <2>1, <1>t, Connects DEF RequestTypes, Running, dispatchVars
<1> QED
    BY <1>1, <1>2, <1>3 DEF Cancel

\* The connection handler.
LEMMA HandlerSteps ==
    ASSUME EndpointInd, NEW r \in Requests, HandlerStep(r)
    PROVE  EndpointInd'
<1>t. RequestTypes /\ kicked \subseteq Requests
    BY DEF EndpointInd, TypeOK, RequestTypes
<1>1. CASE Connect(r)
    <2>1. /\ conn' \in [Requests -> ConnPhases] /\ conn'[r] \in {"reading", "refused"}
          /\ \A q \in Requests \ {r} : conn'[q] = conn[q]
        BY <1>1, <1>t DEF Connect, RequestTypes, ConnPhases
    <2> QED
        BY <1>1, <2>1, <1>t, Connects DEF Connect, RequestTypes, Running
<1>2. CASE ReadFails(r) \/ Close(r)
    <2>1. /\ conn' \in [Requests -> ConnPhases] /\ conn'[r] = "closed" /\ conn[r] \in {"reading", "replying"}
          /\ \A q \in Requests \ {r} : conn'[q] = conn[q]
        BY <1>2, <1>t DEF ReadFails, Close, RequestTypes, ConnPhases
    <2> QED
        BY <1>2, <2>1, <1>t, Connects DEF ReadFails, Close, RequestTypes, Running
<1>3. CASE \E c \in Commands : Read(r, c)
    <2>1. PICK c \in Commands : Read(r, c)
        BY <1>3
    <2>2. c \in AllCommands
        BY ControlAssumption
    <2>3. /\ conn' \in [Requests -> ConnPhases] /\ conn'[r] = "running" /\ conn[r] = "reading"
          /\ cmd' \in [Requests -> AllCommands]
          /\ \A q \in Requests \ {r} : conn'[q] = conn[q] /\ cmd'[q] = cmd[q]
        BY <2>1, <2>2, <1>t DEF Read, RequestTypes, ConnPhases
    <2> QED
        BY <2>1, <2>3, <1>t, Connects DEF Read, Running
<1>4. CASE HandlerTimeout(r)
    BY <1>4, <1>t, Cancels DEF HandlerTimeout
<1>5. CASE StopCancels(r)
    BY <1>5, <1>t, Cancels DEF StopCancels
<1> QED
    BY <1>1, <1>2, <1>3, <1>4, <1>5 DEF HandlerStep

\* A step of the program is over: the next one begins, or the request ends well.
LEMMA Proceeds ==
    ASSUME EndpointInd, NEW r \in Requests, Running(r), Step(r) \in {"block", "intent", "event"}, Proceed(r),
           UNCHANGED <<listener, due, kicked>>, due[r] = "go",
           thread' \in [Requests -> BOOLEAN], intent' \in [Requests -> {"none", "pending", "done"}],
           \A q \in Requests \ {r} : thread'[q] = thread[q] /\ intent'[q] = intent[q],
           ~thread'[r], intent'[r] # "pending",
           \/ durableLock' = durableLock /\ durableLock # r
           \/ durableLock = r /\ durableLock' = Nobody
    PROVE  EndpointInd'
<1>t. due \in [Requests -> {"go", "none", "fault", "timeout"}] /\ kicked' \subseteq Requests
    BY DEF EndpointInd, TypeOK
<1>1. CASE /\ step[r] < Len(Program(cmd[r])) /\ Advance(r)
           /\ UNCHANGED <<conn, cmd, reply, opState, mutations, leaseLock>>
    BY <1>1, <1>t, Advances
<1>2. CASE step[r] = Len(Program(cmd[r])) /\ Finish(r, "ok")
    BY <1>2, <1>t, Finishes DEF Answers
<1> QED
    BY <1>1, <1>2 DEF Proceed

\* The thread of a catalog or configuration call ends.
LEMMA ThreadSteps ==
    ASSUME EndpointInd, NEW r \in Requests, ThreadEnds(r)
    PROVE  EndpointInd'
<1>r. Running(r) /\ thread[r] /\ ~DurableStep(r)
    BY DEF ThreadEnds, Runs
<1>t. /\ RequestTypes /\ kicked \subseteq Requests /\ durableLock # r /\ intent[r] # "pending"
      /\ Step(r) \in {"block", "prepare"} /\ due[r] \in {"go", "none", "fault", "timeout"}
    BY <1>r, RunningFacts DEF DurableStep
<1>1. /\ thread' \in [Requests -> BOOLEAN] /\ ~thread'[r]
      /\ \A q \in Requests \ {r} : thread'[q] = thread[q]
      /\ UNCHANGED <<listener, due, kicked, durableLock>>
    BY <1>t DEF ThreadEnds, RequestTypes
<1>2. CASE due[r] = "go" /\ Step(r) = "block" /\ Proceed(r) /\ UNCHANGED intent
    BY <1>2, <1>1, <1>t, <1>r, Proceeds DEF RequestTypes
<1>3. CASE /\ due[r] = "go" /\ Step(r) = "prepare" /\ Advance(r)
           /\ \E i \in IF cmd[r] = "DELETE" THEN {"pending"} ELSE {"none", "pending"} : intent' = [intent EXCEPT ![r] = i]
           /\ UNCHANGED <<conn, cmd, reply, opState, mutations, leaseLock>>
    <2>1. /\ intent' \in [Requests -> {"none", "pending", "done"}]
          /\ \A q \in Requests \ {r} : intent'[q] = intent[q]
        <3>1. PICK i \in {"none", "pending"} : intent' = [intent EXCEPT ![r] = i]
            BY <1>3
        <3> QED
            BY <3>1, <1>t DEF RequestTypes
    <2>2. step[r] < Len(Program(cmd[r]))
        BY <1>3, <1>r, RunningFacts
    <2> QED
        BY <1>3, <2>1, <2>2, <1>1, <1>t, <1>r, Advances DEF RequestTypes
<1>4. CASE due[r] = "go" /\ Finish(r, "error") /\ UNCHANGED intent
    BY <1>4, <1>1, <1>t, <1>r, Finishes DEF RequestTypes, Answers
<1>5. CASE due[r] = "none" /\ Finish(r, "none") /\ UNCHANGED intent
    BY <1>5, <1>1, <1>t, <1>r, Finishes DEF RequestTypes, Answers
<1> QED
    BY <1>2, <1>3, <1>4, <1>5 DEF ThreadEnds

\* The durable thread ends: its request goes on only when the move was made.
LEMMA DurableSteps ==
    ASSUME EndpointInd, NEW r \in Requests, DurableEnds(r)
    PROVE  EndpointInd'
<1>r. Running(r) /\ thread[r] /\ DurableStep(r)
    BY DEF DurableEnds, Runs
<1>t. /\ RequestTypes /\ kicked \subseteq Requests /\ durableLock = r
      /\ Step(r) \in {"intent", "event"} /\ due[r] \in {"go", "none", "fault", "timeout"}
      /\ intent[r] \in {"none", "pending", "done"} /\ (intent[r] = "pending" => Step(r) = "intent")
    BY <1>r, RunningFacts DEF DurableStep
<1>1. /\ thread' \in [Requests -> BOOLEAN] /\ ~thread'[r] /\ durableLock' = Nobody
      /\ \A q \in Requests \ {r} : thread'[q] = thread[q]
      /\ UNCHANGED <<listener, due, kicked>>
    BY <1>t DEF DurableEnds, RequestTypes
<1>2. PICK outcome \in IF Executes(r) THEN {"ok", "error"} ELSE {"refused"} :
         /\ intent' = [intent EXCEPT ![r] = IF outcome = "ok" /\ @ = "pending" THEN "done" ELSE @]
         /\ \/ due[r] = "go" /\ outcome = "ok" /\ Proceed(r)
            \/ due[r] = "go" /\ outcome # "ok" /\ Finish(r, outcome)
            \/ due[r] # "go" /\ Finish(r, LateAnswer(r, outcome))
    BY DEF DurableEnds
<1>3. outcome \in {"ok", "error", "refused"}
    BY <1>2
<1>4. /\ intent' \in [Requests -> {"none", "pending", "done"}]
      /\ \A q \in Requests \ {r} : intent'[q] = intent[q]
      /\ outcome = "ok" => intent'[r] # "pending"
    <2>1. intent'[r] = IF outcome = "ok" /\ intent[r] = "pending" THEN "done" ELSE intent[r]
        BY <1>2, <1>t DEF RequestTypes
    <2> QED
        BY <2>1, <1>2, <1>t DEF RequestTypes
<1>5. CASE due[r] = "go" /\ outcome = "ok" /\ Proceed(r)
    BY <1>5, <1>1, <1>4, <1>t, <1>r, Proceeds
<1>6. CASE due[r] = "go" /\ outcome # "ok" /\ Finish(r, outcome)
    BY <1>6, <1>1, <1>3, <1>4, <1>t, <1>r, Finishes DEF RequestTypes, Answers
<1>7. CASE due[r] # "go" /\ Finish(r, LateAnswer(r, outcome))
    <2>1. LateAnswer(r, outcome) \in Answers /\ LateAnswer(r, outcome) # "ok"
        BY <1>7, <1>3, <1>t DEF LateAnswer, Answers
    <2> QED
        BY <1>7, <2>1, <1>1, <1>4, <1>t, <1>r, Finishes DEF RequestTypes
<1> QED
    BY <1>2, <1>5, <1>6, <1>7

\* The dispatcher.
LEMMA DispatchSteps ==
    ASSUME EndpointInd, NEW r \in Requests, DispatchStep(r)
    PROVE  EndpointInd'
<1>t. RequestTypes /\ kicked \subseteq Requests
    BY DEF EndpointInd, TypeOK, RequestTypes
<1>q. ASSUME Running(r), ~thread[r]
      PROVE  durableLock # r /\ due[r] = "go"
    BY <1>q, RunningFacts
<1>w. ASSUME Running(r), Step(r) \in {"begin", "lease", "op", "callback"}
      PROVE  ~thread[r] /\ intent[r] # "pending"
    BY <1>w, RunningFacts
<1>1. CASE Begin(r)
    <2>1. Running(r) /\ Step(r) = "begin"
        BY <1>1 DEF Begin, Runs
    <2>2. ~thread[r] /\ durableLock # r /\ due[r] = "go" /\ step[r] < Len(Program(cmd[r])) /\ intent[r] # "pending"
        BY <2>1, <1>q, <1>w, RunningFacts
    <2>3. CASE MayBegin /\ mutations' = mutations + 1 /\ Advance(r) /\ UNCHANGED <<conn, cmd, reply, opState, leaseLock>>
        BY <1>1, <2>1, <2>2, <2>3, <1>t, Advances DEF Begin, MayBegin, RequestTypes
    <2>4. CASE Finish(r, "conflict")
        BY <1>1, <2>1, <2>2, <2>4, <1>t, Finishes DEF Begin, RequestTypes, Answers
    <2> QED
        BY <1>1, <2>3, <2>4 DEF Begin
<1>2. CASE TakeLeaseLock(r)
    <2>1. Running(r) /\ Step(r) = "lease"
        BY <1>2 DEF TakeLeaseLock, Runs
    <2>2. ~thread[r] /\ durableLock # r /\ due[r] = "go" /\ step[r] < Len(Program(cmd[r])) /\ intent[r] # "pending"
        BY <2>1, <1>q, <1>w, RunningFacts
    <2> QED
        BY <1>2, <2>1, <2>2, <1>t, Advances DEF TakeLeaseLock, RequestTypes
<1>3. CASE StartThread(r)
    <2>1. /\ thread' \in [Requests -> BOOLEAN] /\ thread'[r] /\ Running(r) /\ Step(r) \in {"block", "prepare"}
          /\ \A q \in Requests \ {r} : thread'[q] = thread[q]
        BY <1>3, <1>t DEF StartThread, Runs, RequestTypes
    <2>2. ~DurableStep(r)
        BY <2>1 DEF DurableStep
    <2> QED
        BY <1>3, <2>1, <2>2, <1>t, Waits DEF StartThread, RequestTypes, dispatchVars
<1>4. CASE ThreadEnds(r)
    BY <1>4, ThreadSteps
<1>5. CASE AbandonedThreadEnds(r)
    <2>1. /\ thread' \in [Requests -> BOOLEAN] /\ ~thread'[r] /\ conn[r] = "closed" /\ thread[r]
          /\ \A q \in Requests \ {r} : thread'[q] = thread[q]
        BY <1>5, <1>t DEF AbandonedThreadEnds, RequestTypes
    <2>2. ~DurableStep(r)
        BY <2>1 DEF EndpointInd, Fits
    <2> QED
        BY <1>5, <2>1, <2>2, <1>t, Waits DEF AbandonedThreadEnds, RequestTypes, dispatchVars
<1>6. CASE SkipIntent(r)
    <2>1. Running(r) /\ Step(r) = "intent" /\ intent[r] = "none"
        BY <1>6 DEF SkipIntent, Runs
    <2> QED
        BY <1>6, <2>1, <1>q, <1>t, RunningFacts, Proceeds DEF SkipIntent, RequestTypes
<1>7. CASE StartDurable(r)
    <2>1. /\ thread' \in [Requests -> BOOLEAN] /\ thread'[r] /\ Running(r) /\ DurableStep(r)
          /\ \A q \in Requests \ {r} : thread'[q] = thread[q]
          /\ durableLock = Nobody /\ durableLock' = r
        BY <1>7, <1>t DEF StartDurable, Runs, RequestTypes, DurableFree
    <2> QED
        BY <1>7, <2>1, <1>t, Waits DEF StartDurable, RequestTypes, DurableStep
<1>8. CASE IntentTimeout(r)
    <2>1. Running(r) /\ Step(r) = "intent"
        BY <1>8 DEF IntentTimeout, Runs
    <2>2. CASE ~thread[r] /\ Finish(r, "timeout") /\ UNCHANGED due
        BY <1>8, <2>1, <2>2, <1>q, <1>t, Finishes DEF IntentTimeout, RequestTypes, Answers
    <2>3. CASE /\ thread[r] /\ due' = [due EXCEPT ![r] = "timeout"]
               /\ UNCHANGED <<conn, cmd, step, reply, opState, mutations, leaseLock>>
        <3>1. /\ due' \in [Requests -> {"go", "none", "fault", "timeout"}]
              /\ \A q \in Requests \ {r} : due'[q] = due[q]
            BY <2>3, <1>t DEF RequestTypes
        <3> QED
            BY <1>8, <2>1, <2>3, <3>1, <1>t, Waits DEF IntentTimeout, RequestTypes
    <2> QED
        BY <1>8, <2>2, <2>3 DEF IntentTimeout
<1>9. CASE DurableDeadline(r)
    <2>1. /\ due' \in [Requests -> {"go", "none", "fault", "timeout"}] /\ Running(r) /\ thread[r] /\ DurableStep(r)
          /\ \A q \in Requests \ {r} : due'[q] = due[q]
        BY <1>9, <1>t DEF DurableDeadline, Runs, RequestTypes
    <2> QED
        BY <1>9, <2>1, <1>t, RunningFacts, Waits DEF DurableDeadline, RequestTypes, dispatchVars, DurableStep
<1>10. CASE DurableEnds(r)
    BY <1>10, DurableSteps
<1>11. CASE StartOperation(r)
    <2>1. Running(r) /\ Step(r) = "op"
        BY <1>11 DEF StartOperation, Runs
    <2>2. ~thread[r] /\ durableLock # r /\ due[r] = "go" /\ step[r] < Len(Program(cmd[r])) /\ intent[r] # "pending"
        BY <2>1, <1>q, <1>w, RunningFacts
    <2>3. CASE /\ MayOperate /\ Advance(r) /\ UNCHANGED <<conn, cmd, reply, mutations, leaseLock>>
               /\ opState' = IF cmd[r] = "RESTART" THEN "RESTARTING" ELSE "PREPARING_REMOVAL"
        BY <1>11, <2>1, <2>2, <2>3, <1>t, Advances DEF StartOperation, MayOperate, RequestTypes
    <2>4. CASE Finish(r, "conflict")
        BY <1>11, <2>1, <2>2, <2>4, <1>t, Finishes DEF StartOperation, RequestTypes, Answers
    <2> QED
        BY <1>11, <2>3, <2>4 DEF StartOperation
<1>12. CASE OperationEnds(r)
    <2>1. Running(r) /\ Step(r) = "callback"
        BY <1>12 DEF OperationEnds, Operating
    <2>2. ~thread[r] /\ durableLock # r /\ intent[r] # "pending"
        BY <2>1, <1>q, <1>w
    <2>3. PICK a \in {"ok", "fault", "timeout"} : Finish(r, a)
        BY <1>12 DEF OperationEnds
    <2> QED
        BY <1>12, <2>1, <2>2, <2>3, <1>t, Finishes DEF OperationEnds, RequestTypes, Answers
<1> QED
    BY <1>1, <1>2, <1>3, <1>4, <1>5, <1>6, <1>7, <1>8, <1>9, <1>10, <1>11, <1>12 DEF DispatchStep

\* The recorder takes and gives back the durable lock, and may have executed pending intents.
LEMMA RecorderSteps ==
    ASSUME EndpointInd, RecorderStarts \/ RecorderEnds
    PROVE  EndpointInd'
<1>n. Nobody \notin Requests /\ Recorder \notin Requests /\ Nobody # Recorder
    BY ControlAssumption DEF Nobody, Recorder
<1>t. TypeOK /\ LocksHeld /\ OperationsAlone /\ MutationsCounted /\ StoppedIsEmpty /\ \A r \in Requests : Fits(r)
    BY DEF EndpointInd
<1>1. /\ UNCHANGED <<listener, conn, cmd, step, thread, due, reply, kicked, opState, mutations, leaseLock>>
      /\ durableLock \notin Requests /\ durableLock' \in {Nobody, Recorder}
    BY <1>n DEF RecorderStarts, RecorderEnds, DurableFree, requestVars
<1>2. /\ intent' \in [Requests -> {"none", "pending", "done"}]
      /\ \A r \in Requests : intent'[r] = intent[r] \/ (intent[r] = "pending" /\ intent'[r] = "done")
    <2>i. intent \in [Requests -> {"none", "pending", "done"}]
        BY <1>t DEF TypeOK
    <2>1. CASE RecorderStarts
        BY <2>1, <2>i DEF RecorderStarts, requestVars
    <2>2. CASE RecorderEnds
        <3>1. PICK done \in SUBSET {r \in Requests : intent[r] = "pending"} :
                 intent' = [r \in Requests |-> IF r \in done THEN "done" ELSE intent[r]]
            BY <2>2 DEF RecorderEnds
        <3> QED
            BY <3>1, <2>i
    <2> QED
        BY <2>1, <2>2
<1>3. \A r \in Requests : /\ Counted(r)' <=> Counted(r)
                          /\ Operating(r)' <=> Operating(r)
                          /\ DurableStep(r)' <=> DurableStep(r)
                          /\ Running(r)' <=> Running(r)
                          /\ Step(r)' = Step(r)
    BY <1>1 DEF Counted, Operating, DurableStep, Running, Step
<1>4. \A r \in Requests : Fits(r)'
    <2> SUFFICES ASSUME NEW r \in Requests PROVE Fits(r)'
        OBVIOUS
    <2>1. /\ conn'[r] = conn[r] /\ cmd'[r] = cmd[r] /\ step'[r] = step[r] /\ thread'[r] = thread[r] /\ due'[r] = due[r]
          /\ reply'[r] = reply[r] /\ Fits(r) /\ intent[r] \in {"none", "pending", "done"}
          /\ intent'[r] = intent[r] \/ (intent[r] = "pending" /\ intent'[r] = "done")
        BY <1>1, <1>2, <1>t DEF TypeOK
    <2>2. CASE intent'[r] = intent[r]
        BY <2>1, <2>2, <1>3 DEF Fits
    <2>3. CASE intent[r] = "pending" /\ intent'[r] = "done"
        BY <2>1, <2>3, <1>3 DEF Fits
    <2> QED
        BY <2>1, <2>2, <2>3
<1>5. MutationsCounted'
    <2>1. {r \in Requests : Counted(r)} = {r \in Requests : Counted(r)'}
        BY <1>3
    <2> QED
        BY <2>1, <1>1, <1>t DEF MutationsCounted
<1>6. OperationsAlone'
    BY <1>1, <1>3, <1>t DEF OperationsAlone, ExclusiveOperation
<1>7. LocksHeld'
    BY <1>1, <1>3, <1>t, <1>n DEF LocksHeld, LeaseLockOwned, Running
<1>8. StoppedIsEmpty' /\ TypeOK'
    BY <1>1, <1>2, <1>t DEF StoppedIsEmpty, TypeOK
<1> QED
    BY <1>4, <1>5, <1>6, <1>7, <1>8 DEF EndpointInd

\* The listener changes its phase: nothing but the phase changes, and it stops once no connection is open.
LEMMA ListenerSteps ==
    ASSUME EndpointInd, UNCHANGED <<requestVars, dispatchVars>>, kicked' = kicked, UNCHANGED listener \/ ListenerStep
    PROVE  EndpointInd'
<1>t. TypeOK /\ LocksHeld /\ OperationsAlone /\ MutationsCounted /\ StoppedIsEmpty /\ \A r \in Requests : Fits(r)
    BY DEF EndpointInd
<1>1. \A r \in Requests : Same(r) /\ Fits(r)'
    BY <1>t, SameStays DEF Same, requestVars
<1>2. \A r \in Requests : /\ Counted(r)' <=> Counted(r)
                          /\ Operating(r)' <=> Operating(r)
                          /\ DurableStep(r)' <=> DurableStep(r)
                          /\ Running(r)' <=> Running(r)
    BY <1>1, SameStays
<1>3. MutationsCounted'
    <2>1. {r \in Requests : Counted(r)} = {r \in Requests : Counted(r)'}
        BY <1>2
    <2> QED
        BY <2>1, <1>t DEF MutationsCounted, dispatchVars
<1>4. OperationsAlone'
    BY <1>2, <1>t DEF OperationsAlone, ExclusiveOperation, dispatchVars
<1>5. LocksHeld'
    BY <1>2, <1>t DEF LocksHeld, LeaseLockOwned, Running, requestVars, dispatchVars
<1>6. TypeOK'
    BY <1>t DEF TypeOK, requestVars, dispatchVars, ListenerStep, Start, ListenerFault, StopListener, DrainTimeout, Stopped
<1>7. StoppedIsEmpty'
    BY <1>t DEF StoppedIsEmpty, requestVars, ListenerStep, Start, ListenerFault, StopListener, DrainTimeout, Stopped,
           Drained, Open
<1> QED
    BY <1>1, <1>3, <1>4, <1>5, <1>6, <1>7 DEF EndpointInd

\* The endpoint is idle to begin with.
LEMMA EndpointBegins == Init => EndpointInd
<1> SUFFICES ASSUME Init PROVE EndpointInd
    OBVIOUS
<1>n. Nobody \notin Requests
    BY ControlAssumption DEF Nobody
<1>1. TypeOK
    BY DEF Init, TypeOK, ConnPhases, AllCommands, Answers
<1>2. \A r \in Requests : ~Running(r) /\ ~Counted(r) /\ ~Operating(r) /\ ~thread[r]
    BY DEF Init, Running, Counted, Operating
<1>3. \A r \in Requests : Fits(r)
    BY DEF Init, Fits
<1>4. LocksHeld /\ OperationsAlone /\ StoppedIsEmpty
    BY <1>2, <1>n DEF Init, LocksHeld, LeaseLockOwned, OperationsAlone, ExclusiveOperation, StoppedIsEmpty
<1>5. MutationsCounted
    <2>1. {r \in Requests : Counted(r)} = {}
        BY <1>2
    <2> QED
        BY <2>1, FS_EmptySet DEF Init, MutationsCounted
<1> QED
    BY <1>1, <1>3, <1>4, <1>5 DEF EndpointInd

-----------------------------------------------------------------------------
(* Theorems *)

\* The invariant holds throughout.
THEOREM EndpointStaysFit == Spec => []EndpointInd
<1>1. EndpointInd /\ [Next]_vars => EndpointInd'
    <2> SUFFICES ASSUME EndpointInd, [Next]_vars PROVE EndpointInd'
        OBVIOUS
    <2>1. CASE UNCHANGED vars
        BY <2>1, ListenerSteps DEF vars
    <2>2. CASE ListenerStep
        BY <2>2, ListenerSteps DEF ListenerStep, Start, ListenerFault, StopListener, DrainTimeout, Stopped
    <2>3. CASE RecorderStarts \/ RecorderEnds
        BY <2>3, RecorderSteps
    <2>4. CASE \E r \in Requests : HandlerStep(r) \/ DispatchStep(r)
        BY <2>4, HandlerSteps, DispatchSteps
    <2> QED
        BY <2>1, <2>2, <2>3, <2>4 DEF Next
<1> QED
    BY <1>1, EndpointBegins, PTL DEF Spec

\* For any number of clients: restarts and removals exclude every mutation, the count of mutations is exact,
\* a durable thread runs only under the durable lock, the lease lock is never left behind, and a stopped
\* listener has no handler left (RecorderControlService, RecorderUnixServer.stop).
THEOREM EndpointKeepsItsBooks == Spec => []EndpointInv
<1>1. EndpointInd => EndpointInv
    <2> SUFFICES ASSUME EndpointInd PROVE EndpointInv
        OBVIOUS
    <2>n. Nobody \notin Requests /\ TypeOK
        BY ControlAssumption DEF Nobody, EndpointInd
    <2>1. DurableSerialized /\ LeaseLockOwned /\ ExclusiveOperation /\ MutationsCounted
        BY DEF EndpointInd, LocksHeld, DurableSerialized, OperationsAlone
    <2>2. StopJoinsHandlers
        <3> SUFFICES ASSUME listener = "stopped"
                     PROVE  (\A r \in Requests : ~Running(r)) /\ mutations = 0 /\ leaseLock = Nobody
                            /\ durableLock \in {Nobody, Recorder}
            BY DEF StopJoinsHandlers
        <3>1. \A r \in Requests : ~Running(r) /\ ~Counted(r)
            BY DEF EndpointInd, StoppedIsEmpty, Running, Counted
        <3>2. mutations = 0
            <4>1. {r \in Requests : Counted(r)} = {}
                BY <3>1
            <4> QED
                BY <4>1, <2>1, FS_EmptySet DEF MutationsCounted
        <3>3. leaseLock = Nobody
            BY <3>1, <2>1, <2>n DEF LeaseLockOwned, TypeOK
        <3>4. durableLock \in {Nobody, Recorder}
            <4>1. ASSUME NEW r \in Requests PROVE durableLock # r
                <5>1. ~(thread[r] /\ DurableStep(r))
                    BY <2>n DEF EndpointInd, Fits, StoppedIsEmpty, TypeOK, ConnPhases
                <5> QED
                    BY <5>1 DEF EndpointInd, LocksHeld
            <4> QED
                BY <4>1, <2>n DEF TypeOK
        <3> QED
            BY <3>1, <3>2, <3>3, <3>4
    <2> QED
        BY <2>n, <2>1, <2>2 DEF EndpointInv
<1> QED
    BY <1>1, EndpointStaysFit, PTL

\* A client that is told "ok" can rely on it: its intent is not left pending (_execute_intent), whatever timers,
\* cancellations and other workers come in between.
THEOREM OkIsReliable == Spec => []OkMeansDone
<1>1. EndpointInd => OkMeansDone
    BY DEF EndpointInd, Fits, OkMeansDone
<1> QED
    BY <1>1, EndpointStaysFit, PTL
=============================================================================
