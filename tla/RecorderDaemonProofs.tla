------------------------ MODULE RecorderDaemonProofs ------------------------
(* What RecorderDaemon shows and leaves agrees with its session, for every   *)
(* number of restarts the policy allows: an inductive invariant, and what    *)
(* follows from it.                                                          *)
EXTENDS RecorderDaemon, SequenceTheorems, TLAPS

-----------------------------------------------------------------------------
(* The inductive invariant *)

Failures == {"STARTUP_FAILED", "STARTUP_TIMEOUT", "RUNTIME_FAILED", "STORAGE_SAFETY_STOP"}

\* The variables that say yes or no, and the record of the stop task.
Flags ==
    /\ stopReq \in BOOLEAN /\ recovery \in BOOLEAN /\ audio \in BOOLEAN
    /\ held \in BOOLEAN /\ owned \in BOOLEAN /\ bstop \in BOOLEAN
    /\ clip \in BOOLEAN /\ closed \in BOOLEAN
    /\ joins \in BOOLEAN /\ optional \in BOOLEAN
    /\ progress \in BOOLEAN /\ sampled \in BOOLEAN
StopTasks == [at : {"none", "eos", "settle", "ended"}, run : BOOLEAN, ok : BOOLEAN]

\* Nothing of a session is left.
Clean ==
    ~held /\ ~owned /\ pipeline = "null" /\ task = "none" /\ ~clip /\ stopper.at = "none"

\* Where the daemon and its session are when.
PhasesFit ==
    /\ phase \in {"config", "gate", "faultwait"} => at = "none"
    /\ phase \in {"config", "gate", "faultwait", "starting", "cancelling", "endpoint"} => ~recovery
    /\ at \in {"supervising", "cleaning", "cleaned", "backoff", "checking"} => recovery
    /\ phase = "cancelling" => at \in {"aborting", "aborted", "failed"} /\ error # "audio"
    /\ phase \in {"endpoint"} => at = "started"
    /\ phase = "watching" => at \notin {"none", "prepare"} /\ (recovery \/ at = "started")
    /\ phase \in {"draining", "joining"} => stopReq
    /\ halting # "none" => phase \in {"joining", "done"}
    /\ ~recovery /\ at \in Attempting \cup {"prepare"} => phase \in {"starting", "cancelling"}
    /\ at = "returned" => stopReq
    /\ at = "backoff" => restarts < MaxRestarts
    /\ phase \in {"draining", "joining", "done"} /\ verdict \in Failures => at = "failed"
    /\ verdict \in Failures => phase \in {"draining", "joining", "done"}

\* A session is opened only after the one before it is gone.
OpensClean ==
    /\ at \in {"none", "prepare", "backoff", "checking", "allocate"} => Clean
    /\ pipeline = "building" => at = "starting"

\* Until runtime.stop() is called, and after it when the session has failed, nobody but the coroutine
\* of the session takes it down.
Undisturbed == halting = "none" \/ verdict \in Failures

SessionFits ==
    /\ at \in {"starting", "opening", "registering", "started", "supervising"} => held /\ stopper.at = "none"
    /\ stopper.at \in {"eos", "settle"} => held /\ at \in {"aborting", "cleaning", "failed"}
    /\ at \in {"aborting", "cleaning"} => stopper.at \in {"eos", "settle"}
    /\ stopper.at = "ended" => at = "failed" /\ (stopper.ok => ~held)
    /\ ~held => pipeline \in {"null", "stuck"} /\ ~clip /\ task = "none" /\ ~owned
    /\ stopper.at = "settle" => pipeline \in {"null", "stuck"} /\ (stopper.ok => pipeline = "null")
    /\ at \in {"aborted", "cleaned"} => Clean
    /\ halting = "joining" => stopper.at \in {"eos", "settle"}
    /\ halting \in {"tail", "done"} => ~held /\ stopper.at = "none"

\* What is in the queue of lifecycle events, and the status that waits for it: a session that records,
\* one that is being replaced, and one of which that was the last event.
Fresh ==
    \/ events = <<>> /\ status \in {"RECORDING", "DEGRADED"}
    \/ events = <<"RECOVERED">> /\ status \in {"STARTING", "DEGRADED"}
    \/ events = <<"RESTARTING", "RECOVERED">> /\ status = "FAULTED"
Retrying ==
    \/ events = <<>> /\ status \in {"STARTING", "DEGRADED"}
    \/ events = <<"RESTARTING">> /\ status = "FAULTED"
Down(kind) ==
    \/ events = <<>> /\ status = "FAULTED"
    \/ events = <<kind>> /\ status \in {"RECORDING", "DEGRADED", "STARTING"}
    \/ events = <<"RECOVERED", kind>> /\ status \in {"STARTING", "DEGRADED"}
    \/ events = <<"RESTARTING", "RECOVERED", kind>> /\ status = "FAULTED"
    \/ events = <<"RESTARTING", kind>> /\ status = "FAULTED"

StatusFits ==
    /\ at \in {"started", "supervising", "cleaning"} => Fresh
    /\ at \in Attempting \cup {"checking"} => Retrying
    /\ at = "cleaned" => Fresh \/ Retrying
    /\ at = "backoff" => Down("RECOVERING")
    /\ at = "failed" => Fresh \/ Retrying \/ Down("EXHAUSTED")

ObserverFits ==
    /\ observer # "none" => phase \in {"watching", "draining", "joining"}
    /\ observer = "dead" => stopReq
    /\ phase \in {"config", "gate", "starting", "cancelling"} => status = "STARTING"
    /\ phase = "faultwait" => status = "FAULTED"
    /\ phase \in {"config", "gate", "faultwait", "starting", "cancelling", "endpoint"} => events = <<>>
    /\ phase = "endpoint" => status = "RECORDING"
    /\ phase = "watching" /\ ~stopReq => observer = "running" /\ StatusFits

WatchdogFits ==
    /\ phase \notin {"watching", "faultwait"} => watchdog = "off"
    /\ phase \in {"config", "gate", "faultwait", "starting", "cancelling", "endpoint"} => endpoint = "none"
    /\ status = "DEGRADED" => endpoint = "faulted"
    /\ phase = "watching" /\ ~stopReq /\ endpoint # "faulted" =>
          /\ watchdog = "armed" => sampled
          /\ at \in {"backoff", "checking"} \cup Attempting => watchdog # "armed"

DaemonInd ==
    /\ TypeOK /\ PhasesFit /\ OpensClean /\ (Undisturbed => SessionFits) /\ ObserverFits /\ WatchdogFits

-----------------------------------------------------------------------------
(* What the actions are made of *)

\* What whoever asks for a cleanup does to the stop task (_cleanup_current_attempt).
Asks ==
    \/ UNCHANGED <<stopper, bstop, owned>>
    \/ BeginStopper /\ UNCHANGED owned
    \/ owned' = FALSE /\ UNCHANGED <<stopper, bstop>>

\* What is asked for is a stop task.
LEMMA AskedTyped ==
    ASSUME TypeOK, Asks PROVE stopper' \in StopTasks /\ bstop' \in BOOLEAN /\ owned' \in BOOLEAN
<1>1. CASE UNCHANGED <<stopper, bstop, owned>>
    BY <1>1 DEF TypeOK, StopTasks
<1>2. CASE BeginStopper /\ UNCHANGED owned
    <2>1. (task # "none") \in BOOLEAN
        OBVIOUS
    <2> QED
        BY <1>2, <2>1 DEF TypeOK, StopTasks, BeginStopper
<1>3. CASE owned' = FALSE /\ UNCHANGED <<stopper, bstop>>
    BY <1>3 DEF TypeOK, StopTasks
<1> QED
    BY <1>1, <1>2, <1>3 DEF Asks

\* The queues of events that occur, with an event put in and with the first one taken out.
LEMMA OneEvent ==
    ASSUME NEW x
    PROVE  Append(<<>>, x) = <<x>> /\ <<x>> # <<>> /\ Head(<<x>>) = x /\ Tail(<<x>>) = <<>>
    OBVIOUS

\* The same of two events.
LEMMA TwoEvents ==
    ASSUME NEW x, NEW y
    PROVE  /\ Append(<<x>>, y) = <<x, y>>
           /\ <<x, y>> # <<>> /\ Head(<<x, y>>) = x /\ Tail(<<x, y>>) = <<y>>
<1> DEFINE t == Append(<<x>>, y)
           u == <<x, y>>
<1>1. <<x>> \in Seq({x, y}) /\ Len(<<x>>) = 1 /\ <<x>>[1] = x
    OBVIOUS
<1>2. t \in Seq({x, y}) /\ Len(t) = 2 /\ t[1] = x /\ t[2] = y
    BY <1>1, AppendProperties
<1>3. u \in Seq({x, y}) /\ Len(u) = 2 /\ u[1] = x /\ u[2] = y
    OBVIOUS
<1>4. \A i \in 1..2 : i = 1 \/ i = 2
    OBVIOUS
<1>5. u # <<>> /\ Head(u) = x /\ Tail(u) = <<y>>
    OBVIOUS
<1> HIDE DEF t, u
<1>6. t = u
    BY <1>2, <1>3, <1>4, SeqEqual
<1> QED
    BY <1>5, <1>6 DEF t, u

\* The same of three events.
LEMMA ThreeEvents ==
    ASSUME NEW x, NEW y, NEW z
    PROVE  /\ Append(<<x, y>>, z) = <<x, y, z>>
           /\ <<x, y, z>> # <<>> /\ Head(<<x, y, z>>) = x /\ Tail(<<x, y, z>>) = <<y, z>>
<1> DEFINE t == Append(<<x, y>>, z)
           u == <<x, y, z>>
<1>1. <<x, y>> \in Seq({x, y, z}) /\ Len(<<x, y>>) = 2 /\ <<x, y>>[1] = x /\ <<x, y>>[2] = y
    OBVIOUS
<1>2. t \in Seq({x, y, z}) /\ Len(t) = 3 /\ t[1] = x /\ t[2] = y /\ t[3] = z
    BY <1>1, AppendProperties
<1>3. u \in Seq({x, y, z}) /\ Len(u) = 3 /\ u[1] = x /\ u[2] = y /\ u[3] = z
    OBVIOUS
<1>4. \A i \in 1..3 : i = 1 \/ i = 2 \/ i = 3
    OBVIOUS
<1>5. u # <<>> /\ Head(u) = x /\ Tail(u) = <<y, z>>
    OBVIOUS
<1> HIDE DEF t, u
<1>6. t = u
    BY <1>2, <1>3, <1>4, SeqEqual
<1> QED
    BY <1>5, <1>6 DEF t, u

\* The replacement of a session is registered.
LEMMA Recovers ==
    ASSUME Retrying, Emit("RECOVERED"), UNCHANGED status PROVE Fresh'
<1>1. CASE events = <<>> /\ status \in {"STARTING", "DEGRADED"}
    BY <1>1, OneEvent DEF Fresh, Emit
<1>2. CASE events = <<"RESTARTING">> /\ status = "FAULTED"
    <2>1. events' = <<"RESTARTING", "RECOVERED">>
        BY <1>2, TwoEvents, Zenon DEF Emit
    <2> QED
        BY <1>2, <2>1 DEF Fresh
<1> QED
    BY <1>1, <1>2 DEF Retrying

\* A recorded or replaced session fails: _recover says what comes next.
LEMMA GoesDown ==
    ASSUME NEW kind, Fresh \/ Retrying, Emit(kind), UNCHANGED status PROVE Down(kind)'
<1>1. CASE Fresh
    <2>1. CASE events = <<>> /\ status \in {"RECORDING", "DEGRADED"}
        BY <2>1, OneEvent, TwoEvents DEF Down, Emit
    <2>2. CASE events = <<"RECOVERED">> /\ status \in {"STARTING", "DEGRADED"}
        BY <2>2, OneEvent, TwoEvents DEF Down, Emit
    <2>3. CASE events = <<"RESTARTING", "RECOVERED">> /\ status = "FAULTED"
        <3>1. events' = <<"RESTARTING", "RECOVERED", kind>>
            BY <2>3, ThreeEvents, Zenon DEF Emit
        <3> QED
            BY <2>3, <3>1 DEF Down
    <2> QED
        BY <1>1, <2>1, <2>2, <2>3 DEF Fresh
<1>2. CASE Retrying
    <2>1. CASE events = <<>> /\ status \in {"STARTING", "DEGRADED"}
        BY <2>1, OneEvent DEF Down, Emit
    <2>2. CASE events = <<"RESTARTING">> /\ status = "FAULTED"
        <3>1. events' = <<"RESTARTING", kind>>
            BY <2>2, TwoEvents, Zenon DEF Emit
        <3> QED
            BY <2>2, <3>1 DEF Down
    <2> QED
        BY <1>2, <2>1, <2>2 DEF Retrying
<1> QED
    BY <1>1, <1>2

\* What taking the first event out of the queue does.
Publishes ==
    /\ events' = Tail(events)
    /\ status' = StateFor(Head(events))
Publishable == Allowed(status, StateFor(Head(events)))

\* The events of a session that records are published, and leave a queue of that kind.
LEMMA FreshStays ==
    ASSUME Fresh, events # <<>> PROVE Publishable /\ (Publishes => Fresh')
<1>1. CASE events = <<"RECOVERED">> /\ status \in {"STARTING", "DEGRADED"}
    <2>1. Head(events) = "RECOVERED" /\ Tail(events) = <<>>
        BY <1>1, OneEvent, Zenon
    <2> QED
        BY <1>1, <2>1 DEF Fresh, Publishes, Publishable, StateFor, Allowed
<1>2. CASE events = <<"RESTARTING", "RECOVERED">> /\ status = "FAULTED"
    <2>1. Head(events) = "RESTARTING" /\ Tail(events) = <<"RECOVERED">>
        BY <1>2, TwoEvents, Zenon
    <2> QED
        BY <1>2, <2>1 DEF Fresh, Publishes, Publishable, StateFor, Allowed
<1> QED
    BY <1>1, <1>2 DEF Fresh

\* The same of a session that is being replaced.
LEMMA RetryingStays ==
    ASSUME Retrying, events # <<>> PROVE Publishable /\ (Publishes => Retrying')
<1>1. events = <<"RESTARTING">> /\ status = "FAULTED"
    BY DEF Retrying
<1>2. Head(events) = "RESTARTING" /\ Tail(events) = <<>>
    BY <1>1, OneEvent, Zenon
<1> QED
    BY <1>1, <1>2 DEF Retrying, Publishes, Publishable, StateFor, Allowed

\* The same of a session that has failed.
LEMMA DownStays ==
    ASSUME NEW kind \in {"RECOVERING", "EXHAUSTED"}, Down(kind), events # <<>>
    PROVE  Publishable /\ (Publishes => Down(kind)')
<1>1. CASE events = <<kind>> /\ status \in {"RECORDING", "DEGRADED", "STARTING"}
    <2>1. Head(events) = kind /\ Tail(events) = <<>>
        BY <1>1, OneEvent, Zenon
    <2> QED
        BY <1>1, <2>1 DEF Down, Publishes, Publishable, StateFor, Allowed
<1>2. CASE events = <<"RECOVERED", kind>> /\ status \in {"STARTING", "DEGRADED"}
    <2>1. Head(events) = "RECOVERED" /\ Tail(events) = <<kind>>
        BY <1>2, TwoEvents, Zenon
    <2> QED
        BY <1>2, <2>1 DEF Down, Publishes, Publishable, StateFor, Allowed
<1>3. CASE events = <<"RESTARTING", "RECOVERED", kind>> /\ status = "FAULTED"
    <2>1. Head(events) = "RESTARTING" /\ Tail(events) = <<"RECOVERED", kind>>
        BY <1>3, ThreeEvents, Zenon
    <2> QED
        BY <1>3, <2>1 DEF Down, Publishes, Publishable, StateFor, Allowed
<1>4. CASE events = <<"RESTARTING", kind>> /\ status = "FAULTED"
    <2>1. Head(events) = "RESTARTING" /\ Tail(events) = <<kind>>
        BY <1>4, TwoEvents, Zenon
    <2> QED
        BY <1>4, <2>1 DEF Down, Publishes, Publishable, StateFor, Allowed
<1> QED
    BY <1>1, <1>2, <1>3, <1>4 DEF Down

\* The observer publishes the first event of a session that is watched, whatever its fate.
LEMMA StatusFollows ==
    ASSUME StatusFits, at \in Points \ {"none", "prepare", "returned"}, UNCHANGED at, events # <<>>
    PROVE  Publishable /\ (Publishes => StatusFits')
<1> USE DEF StatusFits, Attempting
<1>1. CASE at \in {"started", "supervising", "cleaning"}
    BY <1>1, FreshStays
<1>2. CASE at \in Attempting \cup {"checking"}
    BY <1>2, RetryingStays
<1>3. CASE at = "cleaned"
    BY <1>3, FreshStays, RetryingStays
<1>4. CASE at = "backoff"
    BY <1>4, DownStays
<1>5. CASE at = "failed"
    BY <1>5, FreshStays, RetryingStays, DownStays
<1> QED
    BY <1>1, <1>2, <1>3, <1>4, <1>5 DEF Points

\* What a step of the session leaves to the daemon.
LEMMA ObservedTyped ==
    ASSUME TypeOK, Observed
    PROVE  /\ joins' \in BOOLEAN /\ optional' \in BOOLEAN
           /\ progress' \in BOOLEAN /\ sampled' \in BOOLEAN
    BY Zenon DEF TypeOK, Observed, daemonVars, statusVars

-----------------------------------------------------------------------------
(* Every action keeps the invariant *)

\* The steps of start(), run() and _recover that neither open nor take down a session.
LEMMA OpeningSteps ==
    ASSUME DaemonInd,
           Prepared \/ PrepareFails \/ AllocationFails \/ PipelinePlays \/ BackendStarted \/
           FragmentOpened \/ AttemptAborted,
           Observed
    PROVE  DaemonInd'
<1> USE DEF sessionVars, runVars, backendVars, clipVars, daemonVars, statusVars, watchVars
<1> TypeOK /\ PhasesFit /\ OpensClean /\ (Undisturbed => SessionFits) /\ ObserverFits /\ WatchdogFits
    BY DEF DaemonInd
<1>f. Flags'
    <2>1. CASE Prepared
        BY <2>1, ObservedTyped DEF TypeOK, Flags, Prepared
    <2>2. CASE PrepareFails
        BY <2>2, ObservedTyped DEF TypeOK, Flags, PrepareFails, Fail
    <2>3. CASE AllocationFails
        BY <2>3, ObservedTyped DEF TypeOK, Flags, AllocationFails, Fail
    <2>4. CASE PipelinePlays
        BY <2>4, ObservedTyped DEF TypeOK, Flags, PipelinePlays
    <2>5. CASE BackendStarted
        BY <2>5, ObservedTyped DEF TypeOK, Flags, BackendStarted
    <2>6. CASE FragmentOpened
        BY <2>6, ObservedTyped DEF TypeOK, Flags, FragmentOpened
    <2>7. CASE AttemptAborted
        BY <2>7, ObservedTyped DEF TypeOK, Flags, AttemptAborted
    <2> QED
        BY <2>1, <2>2, <2>3, <2>4, <2>5, <2>6, <2>7
<1>s. stopper' \in StopTasks
    BY DEF TypeOK, StopTasks, Prepared, PrepareFails, Fail, AllocationFails, PipelinePlays,
       BackendStarted, FragmentOpened, AttemptAborted, Observed
<1>1. TypeOK'
    BY <1>f, <1>s, SessionAssumption DEF TypeOK, Flags, StopTasks, States, Outcomes, Phases, Points,
       Errors, EventKinds, PhasesFit, Prepared, PrepareFails, Fail, AllocationFails, PipelinePlays,
       BackendStarted, FragmentOpened, AttemptAborted, Observed, Bumped
<1>2. PhasesFit'
    BY SessionAssumption DEF TypeOK, PhasesFit, ObserverFits, Failures, Attempting, Prepared,
       PrepareFails, Fail, AllocationFails, PipelinePlays, BackendStarted, FragmentOpened,
       AttemptAborted, Observed
<1>3. OpensClean'
    BY DEF TypeOK, PhasesFit, OpensClean, Clean, Attempting, Undisturbed, SessionFits, Failures,
       Prepared, PrepareFails, Fail, AllocationFails, PipelinePlays, BackendStarted, FragmentOpened,
       AttemptAborted, Observed
<1>4. (Undisturbed => SessionFits)'
    BY DEF TypeOK, PhasesFit, OpensClean, Clean, Attempting, Undisturbed, SessionFits, Failures,
       Prepared, PrepareFails, Fail, AllocationFails, PipelinePlays, BackendStarted, FragmentOpened,
       AttemptAborted, Observed
<1>5. ObserverFits'
    BY DEF TypeOK, PhasesFit, WatchdogFits, ObserverFits, StatusFits, Fresh, Retrying, Down,
       Attempting, Prepared, PrepareFails, Fail, AllocationFails, PipelinePlays, BackendStarted,
       FragmentOpened, AttemptAborted, Observed, Bumped
<1>6. WatchdogFits'
    BY DEF TypeOK, PhasesFit, ObserverFits, StatusFits, Fresh, Retrying, Down, WatchdogFits,
       Attempting, Prepared, PrepareFails, Fail, AllocationFails, PipelinePlays, BackendStarted,
       FragmentOpened, AttemptAborted, Observed, Bumped
<1> QED
    BY <1>1, <1>2, <1>3, <1>4, <1>5, <1>6 DEF DaemonInd

\* The steps of run() that leave the session as it is.
LEMMA RunSteps ==
    ASSUME DaemonInd,
           (RunBegins /\ phase \in {"watching", "draining", "joining"}) \/ SuperviseStop \/
           SuperviseFatal \/ BackoffCut \/ Checked \/ CheckFails,
           Observed
    PROVE  DaemonInd'
<1> USE DEF sessionVars, runVars, backendVars, clipVars, daemonVars, statusVars, watchVars
<1> TypeOK /\ PhasesFit /\ OpensClean /\ (Undisturbed => SessionFits) /\ ObserverFits /\ WatchdogFits
    BY DEF DaemonInd
<1>f. Flags'
    <2>1. CASE RunBegins
        BY <2>1, ObservedTyped DEF TypeOK, Flags, RunBegins
    <2>2. CASE SuperviseStop
        BY <2>2, ObservedTyped DEF TypeOK, Flags, SuperviseStop
    <2>3. CASE SuperviseFatal
        BY <2>3, ObservedTyped DEF TypeOK, Flags, SuperviseFatal, Fail
    <2>4. CASE BackoffCut
        BY <2>4, ObservedTyped DEF TypeOK, Flags, BackoffCut
    <2>5. CASE Checked
        BY <2>5, ObservedTyped DEF TypeOK, Flags, Checked
    <2>6. CASE CheckFails
        BY <2>6, ObservedTyped DEF TypeOK, Flags, CheckFails, Fail
    <2> QED
        BY <2>1, <2>2, <2>3, <2>4, <2>5, <2>6
<1>s. stopper' \in StopTasks
    BY DEF TypeOK, StopTasks, RunBegins, SuperviseStop, SuperviseFatal, Fail, BackoffCut, Checked,
       CheckFails, Observed
<1>1. TypeOK'
    BY <1>f, <1>s, SessionAssumption DEF TypeOK, Flags, StopTasks, States, Outcomes, Phases, Points,
       Errors, EventKinds, PhasesFit, RunBegins, SuperviseStop, SuperviseFatal, Fail, BackoffCut,
       Checked, CheckFails, Observed, Bumped
<1>2. PhasesFit'
    BY SessionAssumption DEF TypeOK, PhasesFit, ObserverFits, Failures, Attempting, RunBegins,
       SuperviseStop, SuperviseFatal, Fail, BackoffCut, Checked, CheckFails, Observed
<1>3. OpensClean'
    BY DEF TypeOK, PhasesFit, OpensClean, Clean, Attempting, Undisturbed, SessionFits, Failures,
       RunBegins, SuperviseStop, SuperviseFatal, Fail, BackoffCut, Checked, CheckFails, Observed
<1>4. (Undisturbed => SessionFits)'
    BY DEF TypeOK, PhasesFit, OpensClean, Clean, Attempting, Undisturbed, SessionFits, Failures,
       RunBegins, SuperviseStop, SuperviseFatal, Fail, BackoffCut, Checked, CheckFails, Observed
<1>5. ObserverFits'
    BY DEF TypeOK, PhasesFit, WatchdogFits, ObserverFits, StatusFits, Fresh, Retrying, Down,
       Attempting, RunBegins, SuperviseStop, SuperviseFatal, Fail, BackoffCut, Checked, CheckFails,
       Observed, Bumped
<1>6. WatchdogFits'
    BY DEF TypeOK, PhasesFit, ObserverFits, StatusFits, Fresh, Retrying, Down, WatchdogFits,
       Attempting, RunBegins, SuperviseStop, SuperviseFatal, Fail, BackoffCut, Checked, CheckFails,
       Observed, Bumped
<1> QED
    BY <1>1, <1>2, <1>3, <1>4, <1>5, <1>6 DEF DaemonInd

\* The camera is opened.
LEMMA Opens ==
    ASSUME DaemonInd,
           OpenBackend,
           Observed
    PROVE  DaemonInd'
<1> USE DEF sessionVars, runVars, backendVars, clipVars, daemonVars, statusVars, watchVars
<1> TypeOK /\ PhasesFit /\ OpensClean /\ (Undisturbed => SessionFits) /\ ObserverFits /\ WatchdogFits
    BY DEF DaemonInd
<1>f. Flags'
    BY ObservedTyped DEF TypeOK, Flags, OpenBackend
<1>s. stopper' \in StopTasks
    BY DEF TypeOK, StopTasks, OpenBackend, Observed
<1>1. TypeOK'
    BY <1>f, <1>s, SessionAssumption DEF TypeOK, Flags, StopTasks, States, Outcomes, Phases, Points,
       Errors, EventKinds, PhasesFit, OpenBackend, Observed, Bumped
<1>2. PhasesFit'
    BY SessionAssumption DEF TypeOK, PhasesFit, ObserverFits, Failures, Attempting, OpenBackend,
       Observed
<1>3. OpensClean'
    BY DEF TypeOK, PhasesFit, OpensClean, Clean, Attempting, Undisturbed, SessionFits, Failures,
       OpenBackend, Observed
<1>4. (Undisturbed => SessionFits)'
    BY DEF TypeOK, PhasesFit, OpensClean, Clean, Attempting, Undisturbed, SessionFits, Failures,
       OpenBackend, Observed
<1>5. ObserverFits'
    BY DEF TypeOK, PhasesFit, WatchdogFits, ObserverFits, StatusFits, Fresh, Retrying, Down,
       Attempting, OpenBackend, Observed, Bumped
<1>6. WatchdogFits'
    BY DEF TypeOK, PhasesFit, ObserverFits, StatusFits, Fresh, Retrying, Down, WatchdogFits,
       Attempting, OpenBackend, Observed, Bumped
<1> QED
    BY <1>1, <1>2, <1>3, <1>4, <1>5, <1>6 DEF DaemonInd

\* The session failed: its cleanup begins.
LEMMA Aborts ==
    ASSUME DaemonInd,
           BackendStartFails \/ OpeningFails \/ (OpeningTimesOut /\ Quiet) \/ RegistrationFails \/
           SuperviseRecover,
           Observed
    PROVE  DaemonInd'
<1> USE DEF sessionVars, runVars, backendVars, clipVars, daemonVars, statusVars, watchVars
<1> TypeOK /\ PhasesFit /\ OpensClean /\ (Undisturbed => SessionFits) /\ ObserverFits /\ WatchdogFits
    BY DEF DaemonInd
<1>a. Asks
    BY DEF Asks, CleanUp, Abort, SuperviseRecover, BackendStartFails, OpeningFails, OpeningTimesOut, RegistrationFails
<1>f. Flags'
    BY AskedTyped, <1>a, ObservedTyped DEF TypeOK, Flags, BackendStartFails, Abort, CleanUp,
       BeginStopper, OpeningFails, OpeningTimesOut, Quiet, Awake, RegistrationFails,
       SuperviseRecover
<1>s. stopper' \in StopTasks
    BY AskedTyped, <1>a
<1>1. TypeOK'
    BY <1>f, <1>s, SessionAssumption DEF TypeOK, Flags, StopTasks, States, Outcomes, Phases, Points,
       Errors, EventKinds, PhasesFit, BackendStartFails, Abort, CleanUp, BeginStopper, OpeningFails,
       OpeningTimesOut, Quiet, Awake, RegistrationFails, SuperviseRecover, Observed, Bumped
<1>2. PhasesFit'
    BY SessionAssumption DEF TypeOK, PhasesFit, ObserverFits, Failures, Attempting,
       BackendStartFails, Abort, CleanUp, BeginStopper, OpeningFails, OpeningTimesOut, Quiet, Awake,
       RegistrationFails, SuperviseRecover, Observed
<1>3. OpensClean'
    BY DEF TypeOK, PhasesFit, OpensClean, Clean, Attempting, Undisturbed, SessionFits, Failures,
       BackendStartFails, Abort, CleanUp, BeginStopper, OpeningFails, OpeningTimesOut, Quiet, Awake,
       RegistrationFails, SuperviseRecover, Observed
<1>4. (Undisturbed => SessionFits)'
    BY DEF TypeOK, PhasesFit, OpensClean, Clean, Attempting, Undisturbed, SessionFits, Failures,
       BackendStartFails, Abort, CleanUp, BeginStopper, OpeningFails, OpeningTimesOut, Quiet, Awake,
       RegistrationFails, SuperviseRecover, Observed
<1>5. ObserverFits'
    BY DEF TypeOK, PhasesFit, WatchdogFits, ObserverFits, StatusFits, Fresh, Retrying, Down,
       Attempting, BackendStartFails, Abort, CleanUp, BeginStopper, OpeningFails, OpeningTimesOut,
       Quiet, Awake, RegistrationFails, SuperviseRecover, Observed, Bumped
<1>6. WatchdogFits'
    BY DEF TypeOK, PhasesFit, ObserverFits, StatusFits, Fresh, Retrying, Down, WatchdogFits,
       Attempting, BackendStartFails, Abort, CleanUp, BeginStopper, OpeningFails, OpeningTimesOut,
       Quiet, Awake, RegistrationFails, SuperviseRecover, Observed, Bumped
<1> QED
    BY <1>1, <1>2, <1>3, <1>4, <1>5, <1>6 DEF DaemonInd

\* The first clip of a session is registered.
LEMMA Registers ==
    ASSUME DaemonInd,
           Registered,
           Observed
    PROVE  DaemonInd'
<1> USE DEF sessionVars, runVars, backendVars, clipVars, daemonVars, statusVars, watchVars
<1> TypeOK /\ PhasesFit /\ OpensClean /\ (Undisturbed => SessionFits) /\ ObserverFits /\ WatchdogFits
    BY DEF DaemonInd
<1>f. Flags'
    BY ObservedTyped DEF TypeOK, Flags, Registered, Emit
<1>s. stopper' \in StopTasks
    BY DEF TypeOK, StopTasks, Registered, Emit, Observed
<1>1. TypeOK'
    BY <1>f, <1>s, SessionAssumption DEF TypeOK, Flags, StopTasks, States, Outcomes, Phases, Points,
       Errors, EventKinds, PhasesFit, Registered, Emit, Observed, Bumped
<1>2. PhasesFit'
    BY SessionAssumption DEF TypeOK, PhasesFit, ObserverFits, Failures, Attempting, Registered,
       Emit, Observed
<1>3. OpensClean'
    BY DEF TypeOK, PhasesFit, OpensClean, Clean, Attempting, Undisturbed, SessionFits, Failures,
       Registered, Emit, Observed
<1>4. (Undisturbed => SessionFits)'
    BY DEF TypeOK, PhasesFit, OpensClean, Clean, Attempting, Undisturbed, SessionFits, Failures,
       Registered, Emit, Observed
<1>5. ObserverFits'
    <2>1. ASSUME phase = "watching", ~stopReq
          PROVE  StatusFits'
        <3>1. recovery /\ Retrying
            BY <2>1 DEF PhasesFit, ObserverFits, StatusFits, Registered, Attempting
        <3>2. Emit("RECOVERED") /\ at' = "supervising"
            BY <2>1, <3>1 DEF Registered
        <3>3. Fresh'
            BY <3>1, <3>2, Recovers DEF Observed
        <3> QED
            BY <3>2, <3>3 DEF StatusFits, Attempting
    <2>2. phase \in {"config", "gate", "faultwait", "starting", "cancelling", "endpoint"} => UNCHANGED events
        BY DEF PhasesFit, Registered
    <2> QED
        BY <2>1, <2>2 DEF ObserverFits, Registered, Observed
<1>6. WatchdogFits'
    BY DEF TypeOK, PhasesFit, ObserverFits, StatusFits, Fresh, Retrying, Down, WatchdogFits,
       Attempting, Registered, Emit, Observed, Bumped
<1> QED
    BY <1>1, <1>2, <1>3, <1>4, <1>5, <1>6 DEF DaemonInd

\* The failed session is gone.
LEMMA Recovering ==
    ASSUME DaemonInd,
           Recover,
           Observed
    PROVE  DaemonInd'
<1> USE DEF sessionVars, runVars, backendVars, clipVars, daemonVars, statusVars, watchVars
<1> TypeOK /\ PhasesFit /\ OpensClean /\ (Undisturbed => SessionFits) /\ ObserverFits /\ WatchdogFits
    BY DEF DaemonInd
<1>f. Flags'
    BY ObservedTyped DEF TypeOK, Flags, Recover, Fail, Emit, Exhausted
<1>s. stopper' \in StopTasks
    BY DEF TypeOK, StopTasks, Recover, Fail, Emit, Exhausted, Observed
<1>1. TypeOK'
    BY <1>f, <1>s, SessionAssumption DEF TypeOK, Flags, StopTasks, States, Outcomes, Phases, Points,
       Errors, EventKinds, PhasesFit, Recover, Fail, Emit, Exhausted, Observed, Bumped
<1>2. PhasesFit'
    BY SessionAssumption DEF TypeOK, PhasesFit, ObserverFits, Failures, Attempting, Recover, Fail,
       Emit, Exhausted, Observed
<1>3. OpensClean'
    BY DEF TypeOK, PhasesFit, OpensClean, Clean, Attempting, Undisturbed, SessionFits, Failures,
       Recover, Fail, Emit, Exhausted, Observed
<1>4. (Undisturbed => SessionFits)'
    BY DEF TypeOK, PhasesFit, OpensClean, Clean, Attempting, Undisturbed, SessionFits, Failures,
       Recover, Fail, Emit, Exhausted, Observed
<1>5. ObserverFits'
    <2>1. ASSUME phase = "watching", ~stopReq
          PROVE  StatusFits'
        <3>1. Fresh \/ Retrying
            BY <2>1 DEF ObserverFits, StatusFits, Recover
        <3>2. CASE at' = "failed" /\ Emit("EXHAUSTED")
            <4>1. Down("EXHAUSTED")'
                BY <3>1, <3>2, GoesDown DEF Observed
            <4> QED
                BY <3>2, <4>1 DEF StatusFits, Attempting
        <3>3. CASE at' = "backoff" /\ Emit("RECOVERING")
            <4>1. Down("RECOVERING")'
                BY <3>1, <3>3, GoesDown DEF Observed
            <4> QED
                BY <3>3, <4>1 DEF StatusFits, Attempting
        <3> QED
            BY <2>1, <3>2, <3>3 DEF Recover, Fail
    <2>2. phase \notin {"config", "gate", "faultwait", "starting", "cancelling", "endpoint"}
        BY DEF PhasesFit, Recover
    <2> QED
        BY <2>1, <2>2 DEF ObserverFits, Recover, Observed
<1>6. WatchdogFits'
    BY DEF TypeOK, PhasesFit, ObserverFits, StatusFits, Fresh, Retrying, Down, WatchdogFits,
       Attempting, Recover, Fail, Emit, Exhausted, Observed, Bumped
<1> QED
    BY <1>1, <1>2, <1>3, <1>4, <1>5, <1>6 DEF DaemonInd

\* The delay before a restart is over.
LEMMA Restarts ==
    ASSUME DaemonInd,
           BackoffElapses /\ Quiet,
           Observed
    PROVE  DaemonInd'
<1> USE DEF sessionVars, runVars, backendVars, clipVars, daemonVars, statusVars, watchVars
<1> TypeOK /\ PhasesFit /\ OpensClean /\ (Undisturbed => SessionFits) /\ ObserverFits /\ WatchdogFits
    BY DEF DaemonInd
<1>f. Flags'
    BY ObservedTyped DEF TypeOK, Flags, BackoffElapses, Emit, Quiet, Awake
<1>s. stopper' \in StopTasks
    BY DEF TypeOK, StopTasks, BackoffElapses, Emit, Quiet, Awake, Observed
<1>1. TypeOK'
    BY <1>f, <1>s, SessionAssumption DEF TypeOK, Flags, StopTasks, States, Outcomes, Phases, Points,
       Errors, EventKinds, PhasesFit, BackoffElapses, Emit, Quiet, Awake, Observed, Bumped
<1>2. PhasesFit'
    BY SessionAssumption DEF TypeOK, PhasesFit, ObserverFits, Failures, Attempting, BackoffElapses,
       Emit, Quiet, Awake, Observed
<1>3. OpensClean'
    BY DEF TypeOK, PhasesFit, OpensClean, Clean, Attempting, Undisturbed, SessionFits, Failures,
       BackoffElapses, Emit, Quiet, Awake, Observed
<1>4. (Undisturbed => SessionFits)'
    BY DEF TypeOK, PhasesFit, OpensClean, Clean, Attempting, Undisturbed, SessionFits, Failures,
       BackoffElapses, Emit, Quiet, Awake, Observed
<1>5. ObserverFits'
    BY DEF TypeOK, PhasesFit, WatchdogFits, ObserverFits, StatusFits, Fresh, Retrying, Down,
       Attempting, BackoffElapses, Emit, Quiet, Awake, Observed, Bumped
<1>6. WatchdogFits'
    BY DEF TypeOK, PhasesFit, ObserverFits, StatusFits, Fresh, Retrying, Down, WatchdogFits,
       Attempting, BackoffElapses, Emit, Quiet, Awake, Observed, Bumped
<1> QED
    BY <1>1, <1>2, <1>3, <1>4, <1>5, <1>6 DEF DaemonInd

\* backend.stop() succeeds.
LEMMA StopperPlain ==
    ASSUME DaemonInd,
           StopNothing \/ StopPipeline,
           Observed
    PROVE  DaemonInd'
<1> USE DEF sessionVars, runVars, backendVars, clipVars, daemonVars, statusVars, watchVars
<1> TypeOK /\ PhasesFit /\ OpensClean /\ (Undisturbed => SessionFits) /\ ObserverFits /\ WatchdogFits
    BY DEF DaemonInd
<1>f. Flags'
    BY ObservedTyped DEF TypeOK, Flags, StopNothing, StopPipeline
<1>s. stopper' \in StopTasks
    BY DEF TypeOK, StopTasks, StopNothing, StopPipeline, Observed
<1>1. TypeOK'
    BY <1>f, <1>s, SessionAssumption DEF TypeOK, Flags, StopTasks, States, Outcomes, Phases, Points,
       Errors, EventKinds, PhasesFit, StopNothing, StopPipeline, Observed, Bumped
<1>2. PhasesFit'
    BY SessionAssumption DEF TypeOK, PhasesFit, ObserverFits, Failures, Attempting, StopNothing,
       StopPipeline, Observed
<1>3. OpensClean'
    BY DEF TypeOK, PhasesFit, OpensClean, Clean, Attempting, Undisturbed, SessionFits, Failures,
       StopNothing, StopPipeline, Observed
<1>4. (Undisturbed => SessionFits)'
    BY DEF TypeOK, PhasesFit, OpensClean, Clean, Attempting, Undisturbed, SessionFits, Failures,
       StopNothing, StopPipeline, Observed
<1>5. ObserverFits'
    BY DEF TypeOK, PhasesFit, WatchdogFits, ObserverFits, StatusFits, Fresh, Retrying, Down,
       Attempting, StopNothing, StopPipeline, Observed, Bumped
<1>6. WatchdogFits'
    BY DEF TypeOK, PhasesFit, ObserverFits, StatusFits, Fresh, Retrying, Down, WatchdogFits,
       Attempting, StopNothing, StopPipeline, Observed, Bumped
<1> QED
    BY <1>1, <1>2, <1>3, <1>4, <1>5, <1>6 DEF DaemonInd

\* backend.stop() fails.
LEMMA StopperFails ==
    ASSUME DaemonInd,
           StopPipelineFails,
           Observed
    PROVE  DaemonInd'
<1> USE DEF sessionVars, runVars, backendVars, clipVars, daemonVars, statusVars, watchVars
<1> TypeOK /\ PhasesFit /\ OpensClean /\ (Undisturbed => SessionFits) /\ ObserverFits /\ WatchdogFits
    BY DEF DaemonInd
<1>f. Flags'
    BY ObservedTyped DEF TypeOK, Flags, StopPipelineFails
<1>s. stopper' \in StopTasks
    BY DEF TypeOK, StopTasks, StopPipelineFails, Observed
<1>1. TypeOK'
    BY <1>f, <1>s, SessionAssumption DEF TypeOK, Flags, StopTasks, States, Outcomes, Phases, Points,
       Errors, EventKinds, PhasesFit, StopPipelineFails, Observed, Bumped
<1>2. PhasesFit'
    BY SessionAssumption DEF TypeOK, PhasesFit, ObserverFits, Failures, Attempting,
       StopPipelineFails, Observed
<1>3. OpensClean'
    BY DEF TypeOK, PhasesFit, OpensClean, Clean, Attempting, Undisturbed, SessionFits, Failures,
       StopPipelineFails, Observed
<1>4. (Undisturbed => SessionFits)'
    BY DEF TypeOK, PhasesFit, OpensClean, Clean, Attempting, Undisturbed, SessionFits, Failures,
       StopPipelineFails, Observed
<1>5. ObserverFits'
    BY DEF TypeOK, PhasesFit, WatchdogFits, ObserverFits, StatusFits, Fresh, Retrying, Down,
       Attempting, StopPipelineFails, Observed, Bumped
<1>6. WatchdogFits'
    BY DEF TypeOK, PhasesFit, ObserverFits, StatusFits, Fresh, Retrying, Down, WatchdogFits,
       Attempting, StopPipelineFails, Observed, Bumped
<1> QED
    BY <1>1, <1>2, <1>3, <1>4, <1>5, <1>6 DEF DaemonInd

\* backend.stop() is called again.
LEMMA StopperAgain ==
    ASSUME DaemonInd,
           StopAgain,
           Observed
    PROVE  DaemonInd'
<1> USE DEF sessionVars, runVars, backendVars, clipVars, daemonVars, statusVars, watchVars
<1> TypeOK /\ PhasesFit /\ OpensClean /\ (Undisturbed => SessionFits) /\ ObserverFits /\ WatchdogFits
    BY DEF DaemonInd
<1>f. Flags'
    BY ObservedTyped DEF TypeOK, Flags, StopAgain
<1>s. stopper' \in StopTasks
    BY DEF TypeOK, StopTasks, StopAgain, Observed
<1>1. TypeOK'
    BY <1>f, <1>s, SessionAssumption DEF TypeOK, Flags, StopTasks, States, Outcomes, Phases, Points,
       Errors, EventKinds, PhasesFit, StopAgain, Observed, Bumped
<1>2. PhasesFit'
    BY SessionAssumption DEF TypeOK, PhasesFit, ObserverFits, Failures, Attempting, StopAgain,
       Observed
<1>3. OpensClean'
    BY DEF TypeOK, PhasesFit, OpensClean, Clean, Attempting, Undisturbed, SessionFits, Failures,
       StopAgain, Observed
<1>4. (Undisturbed => SessionFits)'
    BY DEF TypeOK, PhasesFit, OpensClean, Clean, Attempting, Undisturbed, SessionFits, Failures,
       StopAgain, Observed
<1>5. ObserverFits'
    BY DEF TypeOK, PhasesFit, WatchdogFits, ObserverFits, StatusFits, Fresh, Retrying, Down,
       Attempting, StopAgain, Observed, Bumped
<1>6. WatchdogFits'
    BY DEF TypeOK, PhasesFit, ObserverFits, StatusFits, Fresh, Retrying, Down, WatchdogFits,
       Attempting, StopAgain, Observed, Bumped
<1> QED
    BY <1>1, <1>2, <1>3, <1>4, <1>5, <1>6 DEF DaemonInd

\* The stop task ends.
LEMMA StopperOver ==
    ASSUME DaemonInd,
           StopperEnds,
           Observed
    PROVE  DaemonInd'
<1> USE DEF sessionVars, runVars, backendVars, clipVars, daemonVars, statusVars, watchVars
<1> TypeOK /\ PhasesFit /\ OpensClean /\ (Undisturbed => SessionFits) /\ ObserverFits /\ WatchdogFits
    BY DEF DaemonInd
<1>f. Flags'
    BY ObservedTyped DEF TypeOK, Flags, StopperEnds, WakeWaiters, RunAfterStopper, CleanedTo,
       AbortedTo, NoStopper, StopperOk
<1>s. stopper' \in StopTasks
    BY DEF TypeOK, StopTasks, StopperEnds, WakeWaiters, RunAfterStopper, CleanedTo, AbortedTo,
       NoStopper, StopperOk, Observed
<1>1. TypeOK'
    BY <1>f, <1>s, SessionAssumption DEF TypeOK, Flags, StopTasks, States, Outcomes, Phases, Points,
       Errors, EventKinds, PhasesFit, StopperEnds, WakeWaiters, RunAfterStopper, CleanedTo,
       AbortedTo, NoStopper, StopperOk, Observed, Bumped
<1>2. PhasesFit'
    BY SessionAssumption DEF TypeOK, PhasesFit, ObserverFits, Failures, Attempting, StopperEnds,
       WakeWaiters, RunAfterStopper, CleanedTo, AbortedTo, NoStopper, StopperOk, Observed
<1>3. OpensClean'
    BY DEF TypeOK, PhasesFit, OpensClean, Clean, Attempting, Undisturbed, SessionFits, Failures,
       StopperEnds, WakeWaiters, RunAfterStopper, CleanedTo, AbortedTo, NoStopper, StopperOk,
       Observed
<1>4. (Undisturbed => SessionFits)'
    BY DEF TypeOK, PhasesFit, OpensClean, Clean, Attempting, Undisturbed, SessionFits, Failures,
       StopperEnds, WakeWaiters, RunAfterStopper, CleanedTo, AbortedTo, NoStopper, StopperOk,
       Observed
<1>5. ObserverFits'
    BY DEF TypeOK, PhasesFit, WatchdogFits, ObserverFits, StatusFits, Fresh, Retrying, Down,
       Attempting, StopperEnds, WakeWaiters, RunAfterStopper, CleanedTo, AbortedTo, NoStopper,
       StopperOk, Observed, Bumped
<1>6. WatchdogFits'
    BY DEF TypeOK, PhasesFit, ObserverFits, StatusFits, Fresh, Retrying, Down, WatchdogFits,
       Attempting, StopperEnds, WakeWaiters, RunAfterStopper, CleanedTo, AbortedTo, NoStopper,
       StopperOk, Observed, Bumped
<1> QED
    BY <1>1, <1>2, <1>3, <1>4, <1>5, <1>6 DEF DaemonInd

\* The stop task ends.
LEMMA StopperBreaks ==
    ASSUME DaemonInd,
           DemotionFails,
           Observed
    PROVE  DaemonInd'
<1> USE DEF sessionVars, runVars, backendVars, clipVars, daemonVars, statusVars, watchVars
<1> TypeOK /\ PhasesFit /\ OpensClean /\ (Undisturbed => SessionFits) /\ ObserverFits /\ WatchdogFits
    BY DEF DaemonInd
<1>f. Flags'
    BY ObservedTyped DEF TypeOK, Flags, DemotionFails, WakeWaiters, RunAfterStopper, CleanedTo,
       AbortedTo, NoStopper
<1>s. stopper' \in StopTasks
    BY DEF TypeOK, StopTasks, DemotionFails, WakeWaiters, RunAfterStopper, CleanedTo, AbortedTo,
       NoStopper, Observed
<1>1. TypeOK'
    BY <1>f, <1>s, SessionAssumption DEF TypeOK, Flags, StopTasks, States, Outcomes, Phases, Points,
       Errors, EventKinds, PhasesFit, DemotionFails, WakeWaiters, RunAfterStopper, CleanedTo,
       AbortedTo, NoStopper, Observed, Bumped
<1>2. PhasesFit'
    BY SessionAssumption DEF TypeOK, PhasesFit, ObserverFits, Failures, Attempting, DemotionFails,
       WakeWaiters, RunAfterStopper, CleanedTo, AbortedTo, NoStopper, Observed
<1>3. OpensClean'
    BY DEF TypeOK, PhasesFit, OpensClean, Clean, Attempting, Undisturbed, SessionFits, Failures,
       DemotionFails, WakeWaiters, RunAfterStopper, CleanedTo, AbortedTo, NoStopper, Observed
<1>4. (Undisturbed => SessionFits)'
    BY DEF TypeOK, PhasesFit, OpensClean, Clean, Attempting, Undisturbed, SessionFits, Failures,
       DemotionFails, WakeWaiters, RunAfterStopper, CleanedTo, AbortedTo, NoStopper, Observed
<1>5. ObserverFits'
    BY DEF TypeOK, PhasesFit, WatchdogFits, ObserverFits, StatusFits, Fresh, Retrying, Down,
       Attempting, DemotionFails, WakeWaiters, RunAfterStopper, CleanedTo, AbortedTo, NoStopper,
       Observed, Bumped
<1>6. WatchdogFits'
    BY DEF TypeOK, PhasesFit, ObserverFits, StatusFits, Fresh, Retrying, Down, WatchdogFits,
       Attempting, DemotionFails, WakeWaiters, RunAfterStopper, CleanedTo, AbortedTo, NoStopper,
       Observed, Bumped
<1> QED
    BY <1>1, <1>2, <1>3, <1>4, <1>5, <1>6 DEF DaemonInd

\* stop() goes on.
LEMMA Halts ==
    ASSUME DaemonInd,
           HaltStorage \/ HaltTail,
           Observed
    PROVE  DaemonInd'
<1> USE DEF sessionVars, runVars, backendVars, clipVars, daemonVars, statusVars, watchVars
<1> TypeOK /\ PhasesFit /\ OpensClean /\ (Undisturbed => SessionFits) /\ ObserverFits /\ WatchdogFits
    BY DEF DaemonInd
<1>a. Asks \/ (stopper' = NoStopper /\ UNCHANGED <<bstop, owned>>)
    <2>1. CASE HaltTail
        BY <2>1 DEF Asks, HaltTail
    <2>2. CASE HaltStorage /\ stopper.at = "ended"
        BY <2>2 DEF HaltStorage
    <2>3. CASE HaltStorage /\ stopper.at # "ended"
        BY <2>3 DEF Asks, HaltStorage, CleanUp
    <2> QED
        BY <2>1, <2>2, <2>3
<1>b. NoStopper \in StopTasks
    BY DEF NoStopper, StopTasks
<1>c. stopper' \in StopTasks /\ bstop' \in BOOLEAN /\ owned' \in BOOLEAN
    BY <1>a, <1>b, AskedTyped DEF TypeOK
<1>f. Flags'
    BY <1>c, ObservedTyped DEF TypeOK, Flags, HaltStorage, CleanUp, BeginStopper, NoStopper,
       HaltTail
<1>s. stopper' \in StopTasks
    BY <1>c
<1>1. TypeOK'
    BY <1>f, <1>s, SessionAssumption DEF TypeOK, Flags, StopTasks, States, Outcomes, Phases, Points,
       Errors, EventKinds, PhasesFit, HaltStorage, CleanUp, BeginStopper, NoStopper, HaltTail,
       Observed, Bumped
<1>2. PhasesFit'
    BY SessionAssumption DEF TypeOK, PhasesFit, ObserverFits, Failures, Attempting, HaltStorage,
       CleanUp, BeginStopper, NoStopper, HaltTail, Observed
<1>3. OpensClean'
    BY DEF TypeOK, PhasesFit, OpensClean, Clean, Attempting, Undisturbed, SessionFits, Failures,
       HaltStorage, CleanUp, BeginStopper, NoStopper, HaltTail, Observed
<1>4. (Undisturbed => SessionFits)'
    BY DEF TypeOK, PhasesFit, OpensClean, Clean, Attempting, Undisturbed, SessionFits, Failures,
       HaltStorage, CleanUp, BeginStopper, NoStopper, HaltTail, Observed
<1>5. ObserverFits'
    BY DEF TypeOK, PhasesFit, WatchdogFits, ObserverFits, StatusFits, Fresh, Retrying, Down,
       Attempting, HaltStorage, CleanUp, BeginStopper, NoStopper, HaltTail, Observed, Bumped
<1>6. WatchdogFits'
    BY DEF TypeOK, PhasesFit, ObserverFits, StatusFits, Fresh, Retrying, Down, WatchdogFits,
       Attempting, HaltStorage, CleanUp, BeginStopper, NoStopper, HaltTail, Observed, Bumped
<1> QED
    BY <1>1, <1>2, <1>3, <1>4, <1>5, <1>6 DEF DaemonInd

\* The backend and the tasks beside the session.
LEMMA BackendSteps ==
    ASSUME DaemonInd,
           BackendFails \/ BackendEnds \/ ClipFinalized \/ LastClipFinalized \/ DrainFails \/
           StorageFails,
           Observed
    PROVE  DaemonInd'
<1> USE DEF sessionVars, runVars, backendVars, clipVars, daemonVars, statusVars, watchVars
<1> TypeOK /\ PhasesFit /\ OpensClean /\ (Undisturbed => SessionFits) /\ ObserverFits /\ WatchdogFits
    BY DEF DaemonInd
<1>f. Flags'
    <2>1. CASE BackendFails
        BY <2>1, ObservedTyped DEF TypeOK, Flags, BackendFails
    <2>2. CASE BackendEnds
        BY <2>2, ObservedTyped DEF TypeOK, Flags, BackendEnds
    <2>3. CASE ClipFinalized
        BY <2>3, ObservedTyped DEF TypeOK, Flags, ClipFinalized
    <2>4. CASE LastClipFinalized
        BY <2>4, ObservedTyped DEF TypeOK, Flags, LastClipFinalized
    <2>5. CASE DrainFails
        BY <2>5, ObservedTyped DEF TypeOK, Flags, DrainFails
    <2>6. CASE StorageFails
        BY <2>6, ObservedTyped DEF TypeOK, Flags, StorageFails
    <2> QED
        BY <2>1, <2>2, <2>3, <2>4, <2>5, <2>6
<1>s. stopper' \in StopTasks
    BY DEF TypeOK, StopTasks, BackendFails, BackendEnds, ClipFinalized, LastClipFinalized,
       DrainFails, StorageFails, Observed
<1>1. TypeOK'
    BY <1>f, <1>s, SessionAssumption DEF TypeOK, Flags, StopTasks, States, Outcomes, Phases, Points,
       Errors, EventKinds, PhasesFit, BackendFails, BackendEnds, ClipFinalized, LastClipFinalized,
       DrainFails, StorageFails, Observed, Bumped
<1>2. PhasesFit'
    BY SessionAssumption DEF TypeOK, PhasesFit, ObserverFits, Failures, Attempting, BackendFails,
       BackendEnds, ClipFinalized, LastClipFinalized, DrainFails, StorageFails, Observed
<1>3. OpensClean'
    BY DEF TypeOK, PhasesFit, OpensClean, Clean, Attempting, Undisturbed, SessionFits, Failures,
       BackendFails, BackendEnds, ClipFinalized, LastClipFinalized, DrainFails, StorageFails,
       Observed
<1>4. (Undisturbed => SessionFits)'
    BY DEF TypeOK, PhasesFit, OpensClean, Clean, Attempting, Undisturbed, SessionFits, Failures,
       BackendFails, BackendEnds, ClipFinalized, LastClipFinalized, DrainFails, StorageFails,
       Observed
<1>5. ObserverFits'
    BY DEF TypeOK, PhasesFit, WatchdogFits, ObserverFits, StatusFits, Fresh, Retrying, Down,
       Attempting, BackendFails, BackendEnds, ClipFinalized, LastClipFinalized, DrainFails,
       StorageFails, Observed, Bumped
<1>6. WatchdogFits'
    BY DEF TypeOK, PhasesFit, ObserverFits, StatusFits, Fresh, Retrying, Down, WatchdogFits,
       Attempting, BackendFails, BackendEnds, ClipFinalized, LastClipFinalized, DrainFails,
       StorageFails, Observed, Bumped
<1> QED
    BY <1>1, <1>2, <1>3, <1>4, <1>5, <1>6 DEF DaemonInd

\* Up to the first session.
LEMMA GateSteps ==
    ASSUME DaemonInd,
           ConfigLoaded \/ ConfigRefused \/ GatePasses \/ GateRefuses \/ FaultWaitEnds
    PROVE  DaemonInd'
<1> USE DEF sessionVars, runVars, backendVars, clipVars, daemonVars, statusVars, watchVars
<1> TypeOK /\ PhasesFit /\ OpensClean /\ (Undisturbed => SessionFits) /\ ObserverFits /\ WatchdogFits
    BY DEF DaemonInd
<1>f. Flags'
    BY DEF TypeOK, Flags, ConfigLoaded, ConfigRefused, GatePasses, GateRefuses, FaultWaitEnds,
       Publish
<1>s. stopper' \in StopTasks
    BY DEF TypeOK, StopTasks, ConfigLoaded, ConfigRefused, GatePasses, GateRefuses, FaultWaitEnds,
       Publish
<1>1. TypeOK'
    BY <1>f, <1>s, SessionAssumption DEF TypeOK, Flags, StopTasks, States, Outcomes, Phases, Points,
       Errors, EventKinds, PhasesFit, ConfigLoaded, ConfigRefused, GatePasses, GateRefuses,
       FaultWaitEnds, Publish
<1>2. PhasesFit'
    BY SessionAssumption DEF TypeOK, PhasesFit, ObserverFits, Failures, Attempting, ConfigLoaded,
       ConfigRefused, GatePasses, GateRefuses, FaultWaitEnds, Publish
<1>3. OpensClean'
    BY DEF TypeOK, PhasesFit, OpensClean, Clean, Attempting, Undisturbed, SessionFits, Failures,
       ConfigLoaded, ConfigRefused, GatePasses, GateRefuses, FaultWaitEnds, Publish
<1>4. (Undisturbed => SessionFits)'
    BY DEF TypeOK, PhasesFit, OpensClean, Clean, Attempting, Undisturbed, SessionFits, Failures,
       ConfigLoaded, ConfigRefused, GatePasses, GateRefuses, FaultWaitEnds, Publish
<1>5. ObserverFits'
    BY DEF TypeOK, PhasesFit, WatchdogFits, ObserverFits, StatusFits, Fresh, Retrying, Down,
       Attempting, ConfigLoaded, ConfigRefused, GatePasses, GateRefuses, FaultWaitEnds, Publish
<1>6. WatchdogFits'
    BY DEF TypeOK, PhasesFit, ObserverFits, StatusFits, Fresh, Retrying, Down, WatchdogFits,
       Attempting, ConfigLoaded, ConfigRefused, GatePasses, GateRefuses, FaultWaitEnds, Publish
<1> QED
    BY <1>1, <1>2, <1>3, <1>4, <1>5, <1>6 DEF DaemonInd

\* start() is over.
LEMMA StartEnds ==
    ASSUME DaemonInd,
           StartSucceeds \/ StartFails \/ StartRaises \/ EndpointStarted
    PROVE  DaemonInd'
<1> USE DEF sessionVars, runVars, backendVars, clipVars, daemonVars, statusVars, watchVars
<1> TypeOK /\ PhasesFit /\ OpensClean /\ (Undisturbed => SessionFits) /\ ObserverFits /\ WatchdogFits
    BY DEF DaemonInd
<1>f. Flags'
    BY DEF TypeOK, Flags, StartSucceeds, ExternalShutdown, StartFails, CleanUpAfter, StartRaises,
       EndpointStarted, Publish
<1>s. stopper' \in StopTasks
    BY DEF TypeOK, StopTasks, StartSucceeds, ExternalShutdown, StartFails, CleanUpAfter,
       StartRaises, EndpointStarted, Publish
<1>1. TypeOK'
    BY <1>f, <1>s, SessionAssumption DEF TypeOK, Flags, StopTasks, States, Outcomes, Phases, Points,
       Errors, EventKinds, PhasesFit, StartSucceeds, ExternalShutdown, StartFails, CleanUpAfter,
       StartRaises, EndpointStarted, Publish
<1>2. PhasesFit'
    BY SessionAssumption DEF TypeOK, PhasesFit, ObserverFits, Failures, Attempting, StartSucceeds,
       ExternalShutdown, StartFails, CleanUpAfter, StartRaises, EndpointStarted, Publish
<1>3. OpensClean'
    BY DEF TypeOK, PhasesFit, OpensClean, Clean, Attempting, Undisturbed, SessionFits, Failures,
       StartSucceeds, ExternalShutdown, StartFails, CleanUpAfter, StartRaises, EndpointStarted,
       Publish
<1>4. (Undisturbed => SessionFits)'
    BY DEF TypeOK, PhasesFit, OpensClean, Clean, Attempting, Undisturbed, SessionFits, Failures,
       StartSucceeds, ExternalShutdown, StartFails, CleanUpAfter, StartRaises, EndpointStarted,
       Publish
<1>5. ObserverFits'
    BY DEF TypeOK, PhasesFit, WatchdogFits, ObserverFits, StatusFits, Fresh, Retrying, Down,
       Attempting, StartSucceeds, ExternalShutdown, StartFails, CleanUpAfter, StartRaises,
       EndpointStarted, Publish
<1>6. WatchdogFits'
    BY DEF TypeOK, PhasesFit, ObserverFits, StatusFits, Fresh, Retrying, Down, WatchdogFits,
       Attempting, StartSucceeds, ExternalShutdown, StartFails, CleanUpAfter, StartRaises,
       EndpointStarted, Publish
<1> QED
    BY <1>1, <1>2, <1>3, <1>4, <1>5, <1>6 DEF DaemonInd

\* run() wakes up.
LEMMA WatchEnds ==
    ASSUME DaemonInd,
           WatchingEnds
    PROVE  DaemonInd'
<1> USE DEF sessionVars, runVars, backendVars, clipVars, daemonVars, statusVars, watchVars
<1> TypeOK /\ PhasesFit /\ OpensClean /\ (Undisturbed => SessionFits) /\ ObserverFits /\ WatchdogFits
    BY DEF DaemonInd
<1>f. Flags'
    BY DEF TypeOK, Flags, WatchingEnds, ExternalShutdown, CleanUpAfter, Awake, Ended, Publish
<1>s. stopper' \in StopTasks
    BY DEF TypeOK, StopTasks, WatchingEnds, ExternalShutdown, CleanUpAfter, Awake, Ended, Publish
<1>1. TypeOK'
    BY <1>f, <1>s, SessionAssumption DEF TypeOK, Flags, StopTasks, States, Outcomes, Phases, Points,
       Errors, EventKinds, PhasesFit, WatchingEnds, ExternalShutdown, CleanUpAfter, Awake, Ended,
       Publish
<1>2. PhasesFit'
    BY SessionAssumption DEF TypeOK, PhasesFit, ObserverFits, Failures, Attempting, WatchingEnds,
       ExternalShutdown, CleanUpAfter, Awake, Ended, Publish
<1>3. OpensClean'
    BY DEF TypeOK, PhasesFit, OpensClean, Clean, Attempting, Undisturbed, SessionFits, Failures,
       WatchingEnds, ExternalShutdown, CleanUpAfter, Awake, Ended, Publish
<1>4. (Undisturbed => SessionFits)'
    BY DEF TypeOK, PhasesFit, OpensClean, Clean, Attempting, Undisturbed, SessionFits, Failures,
       WatchingEnds, ExternalShutdown, CleanUpAfter, Awake, Ended, Publish
<1>5. ObserverFits'
    BY DEF TypeOK, PhasesFit, WatchdogFits, ObserverFits, StatusFits, Fresh, Retrying, Down,
       Attempting, WatchingEnds, ExternalShutdown, CleanUpAfter, Awake, Ended, Publish
<1>6. WatchdogFits'
    BY DEF TypeOK, PhasesFit, ObserverFits, StatusFits, Fresh, Retrying, Down, WatchdogFits,
       Attempting, WatchingEnds, ExternalShutdown, CleanUpAfter, Awake, Ended, Publish
<1> QED
    BY <1>1, <1>2, <1>3, <1>4, <1>5, <1>6 DEF DaemonInd

\* The end of the daemon.
LEMMA EndSteps ==
    ASSUME DaemonInd,
           EndpointDrained \/ ShutdownEnds \/ ShutdownTimesOut
    PROVE  DaemonInd'
<1> USE DEF sessionVars, runVars, backendVars, clipVars, daemonVars, statusVars, watchVars
<1> TypeOK /\ PhasesFit /\ OpensClean /\ (Undisturbed => SessionFits) /\ ObserverFits /\ WatchdogFits
    BY DEF DaemonInd
<1>f. Flags'
    BY DEF TypeOK, Flags, EndpointDrained, ShutdownEnds, Joined, ShutdownTimesOut, Publish
<1>s. stopper' \in StopTasks
    BY DEF TypeOK, StopTasks, EndpointDrained, ShutdownEnds, Joined, ShutdownTimesOut, Publish
<1>1. TypeOK'
    BY <1>f, <1>s, SessionAssumption DEF TypeOK, Flags, StopTasks, States, Outcomes, Phases, Points,
       Errors, EventKinds, PhasesFit, EndpointDrained, ShutdownEnds, Joined, ShutdownTimesOut,
       Publish
<1>2. PhasesFit'
    BY SessionAssumption DEF TypeOK, PhasesFit, ObserverFits, Failures, Attempting, EndpointDrained,
       ShutdownEnds, Joined, ShutdownTimesOut, Publish
<1>3. OpensClean'
    BY DEF TypeOK, PhasesFit, OpensClean, Clean, Attempting, Undisturbed, SessionFits, Failures,
       EndpointDrained, ShutdownEnds, Joined, ShutdownTimesOut, Publish
<1>4. (Undisturbed => SessionFits)'
    BY DEF TypeOK, PhasesFit, OpensClean, Clean, Attempting, Undisturbed, SessionFits, Failures,
       EndpointDrained, ShutdownEnds, Joined, ShutdownTimesOut, Publish
<1>5. ObserverFits'
    BY DEF TypeOK, PhasesFit, WatchdogFits, ObserverFits, StatusFits, Fresh, Retrying, Down,
       Attempting, EndpointDrained, ShutdownEnds, Joined, ShutdownTimesOut, Publish
<1>6. WatchdogFits'
    BY DEF TypeOK, PhasesFit, ObserverFits, StatusFits, Fresh, Retrying, Down, WatchdogFits,
       Attempting, EndpointDrained, ShutdownEnds, Joined, ShutdownTimesOut, Publish
<1> QED
    BY <1>1, <1>2, <1>3, <1>4, <1>5, <1>6 DEF DaemonInd

\* An event is published.
LEMMA Processes ==
    ASSUME DaemonInd,
           ProcessEvent
    PROVE  DaemonInd'
<1> USE DEF sessionVars, runVars, backendVars, clipVars, daemonVars, statusVars, watchVars
<1> TypeOK /\ PhasesFit /\ OpensClean /\ (Undisturbed => SessionFits) /\ ObserverFits /\ WatchdogFits
    BY DEF DaemonInd
<1>a. optional' \in BOOLEAN
    BY Zenon DEF TypeOK, ProcessEvent
<1>b. StateFor(Head(events)) \in States \ {"DEGRADED"}
    BY DEF TypeOK, ProcessEvent, StateFor, States, EventKinds
<1>f. Flags'
    BY <1>a DEF TypeOK, Flags, ProcessEvent, StateFor
<1>s. stopper' \in StopTasks
    BY DEF TypeOK, StopTasks, ProcessEvent, StateFor
<1>1. TypeOK'
    BY <1>f, <1>s, <1>b DEF TypeOK, Flags, StopTasks, ProcessEvent, Bumped
<1>2. PhasesFit'
    BY SessionAssumption DEF TypeOK, PhasesFit, ObserverFits, Failures, Attempting, ProcessEvent,
       StateFor
<1>3. OpensClean'
    BY DEF TypeOK, PhasesFit, OpensClean, Clean, Attempting, Undisturbed, SessionFits, Failures,
       ProcessEvent, StateFor
<1>4. (Undisturbed => SessionFits)'
    BY DEF TypeOK, PhasesFit, OpensClean, Clean, Attempting, Undisturbed, SessionFits, Failures,
       ProcessEvent, StateFor
<1>5. ObserverFits'
    <2>1. phase \in {"watching", "draining", "joining"}
        BY DEF ObserverFits, ProcessEvent
    <2>2. ASSUME phase = "watching", ~stopReq
          PROVE  observer' = "running" /\ StatusFits'
        <3>1. StatusFits /\ at \in Points \ {"none", "prepare", "returned"}
            BY <2>2 DEF TypeOK, ObserverFits, PhasesFit
        <3>2. Publishable /\ (Publishes => StatusFits')
            BY <3>1, StatusFollows DEF ProcessEvent
        <3> QED
            BY <3>2 DEF Publishable, Publishes, ProcessEvent
    <2> QED
        BY <2>1, <2>2 DEF ObserverFits, PhasesFit, ProcessEvent
<1>6. WatchdogFits'
    BY <1>b DEF TypeOK, ObserverFits, WatchdogFits, ProcessEvent, Bumped
<1> QED
    BY <1>1, <1>2, <1>3, <1>4, <1>5, <1>6 DEF DaemonInd

\* The endpoint dies.
LEMMA EndpointDies ==
    ASSUME DaemonInd,
           EndpointFault /\ phase # "done"
    PROVE  DaemonInd'
<1> USE DEF sessionVars, runVars, backendVars, clipVars, daemonVars, statusVars, watchVars
<1> TypeOK /\ PhasesFit /\ OpensClean /\ (Undisturbed => SessionFits) /\ ObserverFits /\ WatchdogFits
    BY DEF DaemonInd
<1>a. optional' \in BOOLEAN
    BY Zenon DEF TypeOK, EndpointFault
<1>f. Flags'
    BY <1>a DEF TypeOK, Flags, EndpointFault
<1>s. stopper' \in StopTasks
    BY DEF TypeOK, StopTasks, EndpointFault
<1>1. TypeOK'
    BY <1>f, <1>s, SessionAssumption DEF TypeOK, Flags, StopTasks, States, Outcomes, Phases, Points,
       Errors, EventKinds, PhasesFit, EndpointFault, Bumped
<1>2. PhasesFit'
    BY SessionAssumption DEF TypeOK, PhasesFit, ObserverFits, Failures, Attempting, EndpointFault
<1>3. OpensClean'
    BY DEF TypeOK, PhasesFit, OpensClean, Clean, Attempting, Undisturbed, SessionFits, Failures,
       EndpointFault
<1>4. (Undisturbed => SessionFits)'
    BY DEF TypeOK, PhasesFit, OpensClean, Clean, Attempting, Undisturbed, SessionFits, Failures,
       EndpointFault
<1>5. ObserverFits'
    BY DEF TypeOK, PhasesFit, WatchdogFits, ObserverFits, StatusFits, Fresh, Retrying, Down,
       Attempting, EndpointFault, Bumped, Allowed
<1>6. WatchdogFits'
    BY DEF TypeOK, PhasesFit, ObserverFits, StatusFits, Fresh, Retrying, Down, WatchdogFits,
       Attempting, EndpointFault, Bumped, Allowed
<1> QED
    BY <1>1, <1>2, <1>3, <1>4, <1>5, <1>6 DEF DaemonInd

\* The watchdog looks.
LEMMA Ticks ==
    ASSUME DaemonInd,
           WatchdogTick /\ Quiet
    PROVE  DaemonInd'
<1> USE DEF sessionVars, runVars, backendVars, clipVars, daemonVars, statusVars, watchVars
<1> TypeOK /\ PhasesFit /\ OpensClean /\ (Undisturbed => SessionFits) /\ ObserverFits /\ WatchdogFits
    BY DEF DaemonInd
<1>a. progress' \in BOOLEAN /\ sampled' \in BOOLEAN
    BY Zenon DEF TypeOK, WatchdogTick
<1>f. Flags'
    BY <1>a DEF TypeOK, Flags, WatchdogTick, RecordingActive, Quiet, Awake
<1>s. stopper' \in StopTasks
    BY DEF TypeOK, StopTasks, WatchdogTick, RecordingActive, Quiet, Awake
<1>1. TypeOK'
    BY <1>f, <1>s, SessionAssumption DEF TypeOK, Flags, StopTasks, States, Outcomes, Phases, Points,
       Errors, EventKinds, PhasesFit, WatchdogTick, RecordingActive, Quiet, Awake
<1>2. PhasesFit'
    BY SessionAssumption DEF TypeOK, PhasesFit, ObserverFits, Failures, Attempting, WatchdogTick,
       RecordingActive, Quiet, Awake
<1>3. OpensClean'
    BY DEF TypeOK, PhasesFit, OpensClean, Clean, Attempting, Undisturbed, SessionFits, Failures,
       WatchdogTick, RecordingActive, Quiet, Awake
<1>4. (Undisturbed => SessionFits)'
    BY DEF TypeOK, PhasesFit, OpensClean, Clean, Attempting, Undisturbed, SessionFits, Failures,
       WatchdogTick, RecordingActive, Quiet, Awake
<1>5. ObserverFits'
    BY DEF TypeOK, PhasesFit, WatchdogFits, ObserverFits, StatusFits, Fresh, Retrying, Down,
       Attempting, WatchdogTick, RecordingActive, Quiet, Awake
<1>6. WatchdogFits'
    BY DEF TypeOK, PhasesFit, ObserverFits, StatusFits, Fresh, Retrying, Down, WatchdogFits,
       Attempting, WatchdogTick, RecordingActive, Quiet, Awake
<1> QED
    BY <1>1, <1>2, <1>3, <1>4, <1>5, <1>6 DEF DaemonInd

\* A frame is encoded, a signal arrives.
LEMMA FramesAndSignals ==
    ASSUME DaemonInd,
           (FrameEncoded /\ phase # "done") \/ RequestStop
    PROVE  DaemonInd'
<1> USE DEF sessionVars, runVars, backendVars, clipVars, daemonVars, statusVars, watchVars
<1> TypeOK /\ PhasesFit /\ OpensClean /\ (Undisturbed => SessionFits) /\ ObserverFits /\ WatchdogFits
    BY DEF DaemonInd
<1>f. Flags'
    BY DEF TypeOK, Flags, FrameEncoded, RequestStop
<1>s. stopper' \in StopTasks
    BY DEF TypeOK, StopTasks, FrameEncoded, RequestStop
<1>1. TypeOK'
    BY <1>f, <1>s, SessionAssumption DEF TypeOK, Flags, StopTasks, States, Outcomes, Phases, Points,
       Errors, EventKinds, PhasesFit, FrameEncoded, RequestStop
<1>2. PhasesFit'
    BY SessionAssumption DEF TypeOK, PhasesFit, ObserverFits, Failures, Attempting, FrameEncoded,
       RequestStop
<1>3. OpensClean'
    BY DEF TypeOK, PhasesFit, OpensClean, Clean, Attempting, Undisturbed, SessionFits, Failures,
       FrameEncoded, RequestStop
<1>4. (Undisturbed => SessionFits)'
    BY DEF TypeOK, PhasesFit, OpensClean, Clean, Attempting, Undisturbed, SessionFits, Failures,
       FrameEncoded, RequestStop
<1>5. ObserverFits'
    BY DEF TypeOK, PhasesFit, WatchdogFits, ObserverFits, StatusFits, Fresh, Retrying, Down,
       Attempting, FrameEncoded, RequestStop
<1>6. WatchdogFits'
    BY DEF TypeOK, PhasesFit, ObserverFits, StatusFits, Fresh, Retrying, Down, WatchdogFits,
       Attempting, FrameEncoded, RequestStop
<1> QED
    BY <1>1, <1>2, <1>3, <1>4, <1>5, <1>6 DEF DaemonInd

\* The start times out.
LEMMA Cancels ==
    ASSUME DaemonInd,
           StartTimesOut
    PROVE  DaemonInd'
<1> USE DEF sessionVars, runVars, backendVars, clipVars, daemonVars, statusVars, watchVars
<1> TypeOK /\ PhasesFit /\ OpensClean /\ (Undisturbed => SessionFits) /\ ObserverFits /\ WatchdogFits
    BY DEF DaemonInd
<1>a. Asks
    BY DEF Asks, CleanUp, Abort, StartTimesOut, CancelStart
<1>f. Flags'
    BY AskedTyped, <1>a DEF TypeOK, Flags, StartTimesOut, CancelStart, Abort, Fail, CleanUp,
       BeginStopper
<1>s. stopper' \in StopTasks
    BY AskedTyped, <1>a
<1>1. TypeOK'
    BY <1>f, <1>s, SessionAssumption DEF TypeOK, Flags, StopTasks, States, Outcomes, Phases, Points,
       Errors, EventKinds, PhasesFit, StartTimesOut, CancelStart, Abort, Fail, CleanUp, BeginStopper
<1>2. PhasesFit'
    BY SessionAssumption DEF TypeOK, PhasesFit, ObserverFits, Failures, Attempting, StartTimesOut,
       CancelStart, Abort, Fail, CleanUp, BeginStopper
<1>3. OpensClean'
    BY DEF TypeOK, PhasesFit, OpensClean, Clean, Attempting, Undisturbed, SessionFits, Failures,
       StartTimesOut, CancelStart, Abort, Fail, CleanUp, BeginStopper
<1>4. (Undisturbed => SessionFits)'
    BY DEF TypeOK, PhasesFit, OpensClean, Clean, Attempting, Undisturbed, SessionFits, Failures,
       StartTimesOut, CancelStart, Abort, Fail, CleanUp, BeginStopper
<1>5. ObserverFits'
    BY DEF TypeOK, PhasesFit, WatchdogFits, ObserverFits, StatusFits, Fresh, Retrying, Down,
       Attempting, StartTimesOut, CancelStart, Abort, Fail, CleanUp, BeginStopper
<1>6. WatchdogFits'
    BY DEF TypeOK, PhasesFit, ObserverFits, StatusFits, Fresh, Retrying, Down, WatchdogFits,
       Attempting, StartTimesOut, CancelStart, Abort, Fail, CleanUp, BeginStopper
<1> QED
    BY <1>1, <1>2, <1>3, <1>4, <1>5, <1>6 DEF DaemonInd

-----------------------------------------------------------------------------
(* The theorems *)

\* The daemon begins in the invariant.
LEMMA InitFits ==
    Init => DaemonInd
<1> SUFFICES ASSUME Init PROVE DaemonInd
    OBVIOUS
<1> USE DEF Init, SessionInit
<1>1. NoStopper \in StopTasks /\ NoStopper.at = "none"
    BY DEF NoStopper, StopTasks
<1>f. Flags
    BY DEF Flags
<1>e. events \in Seq(EventKinds)
    OBVIOUS
<1>2. TypeOK
    BY <1>1, <1>f, <1>e, SessionAssumption DEF TypeOK, Flags, StopTasks, Points, Errors, Phases, States, Outcomes
<1>3. PhasesFit /\ OpensClean
    BY <1>1 DEF PhasesFit, OpensClean, Clean, Attempting, Failures
<1>4. SessionFits
    BY <1>1 DEF SessionFits, Clean
<1>5. ObserverFits /\ WatchdogFits
    BY DEF ObserverFits, WatchdogFits
<1> QED
    BY <1>2, <1>3, <1>4, <1>5 DEF DaemonInd

\* No step leaves it.
LEMMA StepFits ==
    ASSUME DaemonInd, [Next]_vars PROVE DaemonInd'
<1>1. CASE RunStep /\ Observed
    <2>1. \/ Prepared \/ PrepareFails \/ AllocationFails \/ PipelinePlays \/ BackendStarted
          \/ FragmentOpened \/ AttemptAborted
          => DaemonInd'
        BY <1>1, OpeningSteps
    <2>2. \/ RunBegins /\ phase \in {"watching", "draining", "joining"}
          \/ SuperviseStop \/ SuperviseFatal \/ BackoffCut \/ Checked \/ CheckFails
          => DaemonInd'
        BY <1>1, RunSteps
    <2>3. \/ BackendStartFails \/ OpeningFails \/ (OpeningTimesOut /\ Quiet)
          \/ RegistrationFails \/ SuperviseRecover
          => DaemonInd'
        BY <1>1, Aborts
    <2> QED
        BY <1>1, <2>1, <2>2, <2>3, Opens, Registers, Recovering, Restarts DEF RunStep
<1>2. CASE StopperStep /\ Observed
    BY <1>2, StopperPlain, StopperFails, StopperAgain, StopperOver, StopperBreaks DEF StopperStep
<1>3. CASE HaltStep /\ Observed
    BY <1>3, Halts DEF HaltStep
<1>4. CASE BackendStep /\ Observed
    BY <1>4, BackendSteps DEF BackendStep
<1>5. CASE MainStep
    BY <1>5, GateSteps, StartEnds, WatchEnds, EndSteps DEF MainStep
<1>6. CASE ProcessEvent \/ (EndpointFault /\ phase # "done") \/ (WatchdogTick /\ Quiet)
    BY <1>6, Processes, EndpointDies, Ticks
<1>7. CASE (FrameEncoded /\ phase # "done") \/ RequestStop \/ StartTimesOut \/ ShutdownTimesOut
    BY <1>7, FramesAndSignals, Cancels, EndSteps
<1>8. CASE UNCHANGED vars
    BY <1>8 DEF vars, sessionVars, runVars, backendVars, clipVars, daemonVars, statusVars, watchVars,
       DaemonInd, TypeOK, PhasesFit, OpensClean, Clean, Undisturbed, SessionFits, ObserverFits,
       StatusFits, Fresh, Retrying, Down, WatchdogFits
<1> QED
    BY <1>1, <1>2, <1>3, <1>4, <1>5, <1>6, <1>7, <1>8 DEF Next

\* What the daemon, its observer, its watchdog and the tasks of the session are at agrees at all times.
THEOREM DaemonStaysFit == Spec => []DaemonInd
    BY InitFits, StepFits, PTL DEF Spec

\* The status follows the session, the event loop survives every order of recoveries and endpoint
\* faults, and a failure that the daemon has cleaned up leaves nothing open (RecorderDaemon.run).
THEOREM DaemonShowsItsSession == Spec => []DaemonInv
<1>1. ASSUME DaemonInd PROVE DaemonInv
    <2>1. TypeOK /\ PhasesFit /\ (Undisturbed => SessionFits) /\ ObserverFits
        BY <1>1 DEF DaemonInd
    <2>2. StatusTruthful
        <3> SUFFICES ASSUME phase = "watching", ~stopReq, events = <<>>
                     PROVE  /\ at = "supervising" => status \in {"RECORDING", "DEGRADED"}
                            /\ at = "backoff" => status = "FAULTED"
                            /\ at \in Attempting \cup {"checking"} => status \in {"STARTING", "DEGRADED"}
            BY DEF StatusTruthful
        <3> QED
            BY <2>1 DEF ObserverFits, StatusFits, Fresh, Retrying, Down
    <2>3. ObserverSurvives
        BY <2>1 DEF ObserverFits, ObserverSurvives
    <2>4. FailureReleases
        BY <2>1 DEF FailureReleases, Undisturbed, Failures, SessionFits
    <2> QED
        BY <2>1, <2>2, <2>3, <2>4 DEF DaemonInv
<1> QED
    BY <1>1, DaemonStaysFit, PTL

\* However often a session is replaced, the camera is opened only when nothing of an earlier attempt
\* is left (_cleanup_current_attempt before _start_attempt).
THEOREM CameraOpensOnce == Spec => NoSecondSession
<1>1. ASSUME DaemonInd, [Next]_vars
      PROVE  [OpenBackend => ~owned /\ pipeline = "null" /\ task = "none" /\ ~clip]_vars
    BY <1>1 DEF DaemonInd, OpensClean, Clean, OpenBackend
<1> QED
    BY <1>1, DaemonStaysFit, PTL DEF Spec, NoSecondSession

\* With the endpoint up, the watchdog never stops a session that is being replaced
\* (_watchdog_loop, _recording_progress_epoch).
THEOREM WatchdogWaits == Spec => WatchdogSparesRecovery
<1> DEFINE Spares ==
        watchdog' = "fired" /\ watchdog # "fired" /\ endpoint # "faulted" =>
            sampled /\ at \in {"supervising", "cleaning", "cleaned", "started"} \cup Ended
<1>1. ASSUME DaemonInd, [Next]_vars PROVE [Spares]_vars
    <2> SUFFICES ASSUME Next, watchdog' = "fired", watchdog # "fired", endpoint # "faulted"
                 PROVE  sampled /\ at \in {"supervising", "cleaning", "cleaned", "started"} \cup Ended
        BY <1>1
    <2>1. WatchdogTick /\ Quiet
        <3>1. ~Observed
            BY DEF Observed, Bumped
        <3>2. ~MainStep
            BY DEF MainStep, ConfigLoaded, ConfigRefused, GatePasses, GateRefuses, FaultWaitEnds,
               StartSucceeds, StartFails, StartRaises, EndpointStarted, WatchingEnds,
               EndpointDrained, ShutdownEnds, watchVars
        <3>3. ~ProcessEvent /\ ~EndpointFault /\ ~FrameEncoded /\ ~RequestStop
              /\ ~StartTimesOut /\ ~ShutdownTimesOut
            BY DEF ProcessEvent, EndpointFault, FrameEncoded, RequestStop, StartTimesOut,
               ShutdownTimesOut, Bumped, watchVars
        <3> QED
            BY <3>1, <3>2, <3>3 DEF Next
    <2>2. TypeOK /\ PhasesFit /\ ObserverFits /\ WatchdogFits
        BY <1>1 DEF DaemonInd
    <2>3. watchdog = "armed" /\ RecordingActive /\ ~stopReq
        BY <2>1 DEF WatchdogTick
    <2>4. status = "RECORDING"
        BY <2>2, <2>3 DEF RecordingActive, WatchdogFits
    <2>5. phase = "watching"
        BY <2>2, <2>3, <2>4 DEF WatchdogFits, ObserverFits
    <2> QED
        BY <2>2, <2>3, <2>5 DEF TypeOK, PhasesFit, WatchdogFits, Points, Ended, Attempting
<1> QED
    BY <1>1, DaemonStaysFit, PTL DEF Spec, WatchdogSparesRecovery
=============================================================================
