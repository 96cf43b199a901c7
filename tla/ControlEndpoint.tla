-------------------------- MODULE ControlEndpoint --------------------------
(* The recorder's control endpoint: the AF_UNIX listener and its bounded     *)
(* connection handler (control/socket_server.py), the dispatcher of the      *)
(* commands (control/dispatcher.py) and the recorder worker that executes    *)
(* pair intents (recorder/runtime.py).                                       *)
(*                                                                           *)
(* Every request runs as one asyncio task.  It waits for locks, for native   *)
(* threads and for timers; a timer or the stop of the listener cancels it at *)
(* any of these points.  A native thread cannot be cancelled.  Time is left  *)
(* out: each timer may fire whenever its await is pending.                   *)
EXTENDS Naturals, Sequences, FiniteSets

CONSTANTS
    Requests,    \* connections clients make, each used once
    Commands,    \* commands the clients send
    MaxClients   \* max_concurrent_clients

AllCommands == {"READ", "UPDATE_CONFIG", "ACQUIRE", "RELEASE", "PROTECT", "DELETE",
                "EVENT", "RESTART", "PREPARE_REMOVAL"}

ASSUME ControlAssumption ==
    /\ IsFiniteSet(Requests) /\ {"nobody", "recorder"} \intersect Requests = {}
    /\ Commands \subseteq AllCommands
    /\ MaxClients \in Nat \ {0}

VARIABLES
    listener,    \* phase of RecorderUnixServer
    conn,        \* phase of each connection
    cmd,         \* its command
    step,        \* its place in the program of the command
    thread,      \* it has a native thread running
    due,         \* what its task raises once that thread has ended
    intent,      \* the catalog intent its command prepared
    reply,       \* the answer given to its client
    kicked,      \* connections the stop of the listener has cancelled
    opState,     \* ControlOperationState
    mutations,   \* _active_mutations
    leaseLock,   \* holder of _lease_lock
    durableLock  \* holder of the runtime's _durable_mutation_lock

requestVars == <<conn, cmd, step, thread, due, intent, reply>>
dispatchVars == <<opState, mutations, leaseLock, durableLock>>
vars == <<listener, requestVars, kicked, dispatchVars>>

Nobody == "nobody"
Recorder == "recorder"

-----------------------------------------------------------------------------
(* Programs: the awaits of each command in their order *)

\* A request that mutates is counted from "begin" to its end.  "prepare" and
\* "block" are calls of _run_blocking, the former returns an intent or None.
Program(c) ==
    CASE c = "READ"          -> <<"block">>
      [] c = "UPDATE_CONFIG" -> <<"begin", "block", "block">>
      [] c = "ACQUIRE"       -> <<"begin", "lease", "block", "block", "block">>
      [] c = "RELEASE"       -> <<"lease", "block", "prepare", "intent">>
      [] c = "PROTECT"       -> <<"begin", "prepare", "intent", "block">>
      [] c = "DELETE"        -> <<"begin", "prepare", "intent">>
      [] c = "EVENT"         -> <<"begin", "block", "event">>
      [] OTHER               -> <<"op", "callback">>

Running(r) == conn[r] = "running"

\* The task of r may take its next step: the cancellation of a stopping listener
\* reaches every open connection before anything else does.
Scheduled(r) == listener = "cancelling" => r \in kicked
Runs(r) == Running(r) /\ Scheduled(r)

Step(r) == IF step[r] <= Len(Program(cmd[r])) THEN Program(cmd[r])[step[r]] ELSE "end"
Open == {r \in Requests : conn[r] \in {"reading", "running", "replying"}}
Accepting == listener = "listening"

\* Requests inside _begin_mutation ... _end_mutation.
Counted(r) == Running(r) /\ Program(cmd[r])[1] = "begin" /\ step[r] > 1

\* The request whose restart or removal callback is under way.
Operating(r) == Running(r) /\ Step(r) = "callback"

\* The runtime never abandons its worker; _run_blocking joins it only once.
DurableStep(r) == Step(r) \in {"intent", "event"}

\* Kinds of intents the finalizer executes: DELETE is not one of them.
RecoveryKind(c) == c # "DELETE"

-----------------------------------------------------------------------------
(* How a request goes on, and how it ends *)

Advance(r) == step' = [step EXCEPT ![r] = @ + 1]

\* Mutants of EndMutation: not in a finally clause; for every command.
EndMutationOk(r, answer) ==
    IF Counted(r) /\ answer = "ok" THEN mutations - 1 ELSE mutations
\* _end_mutation.
EndMutation(r, answer) == IF Counted(r) THEN mutations - 1 ELSE mutations

\* Mutant of FreeLeaseLock: the lock stays behind when the command raises.
FreeLeaseLockOk(r, answer) ==
    IF leaseLock = r /\ answer = "ok" THEN Nobody ELSE leaseLock

\* The end of async with _lease_lock.
FreeLeaseLock(r, answer) == IF leaseLock = r THEN Nobody ELSE leaseLock

\* The finally clauses of a request that returns or raises, in one go: no await
\* among them suspends.  No answer is written after a cancellation.
Finish(r, answer) ==
    /\ conn' = [conn EXCEPT ![r] = IF answer = "none" THEN "closed" ELSE "replying"]
    /\ reply' = [reply EXCEPT ![r] = answer]
    /\ mutations' = EndMutation(r, answer)
    /\ leaseLock' = FreeLeaseLock(r, answer)
    /\ opState' = IF Operating(r)
                  THEN IF answer = "ok" /\ cmd[r] = "PREPARE_REMOVAL"
                       THEN "SHUTTING_DOWN" ELSE "IDLE"
                  ELSE opState
    /\ UNCHANGED <<cmd, step>>

\* The step is over, and with it perhaps the program.
Proceed(r) ==
    \/ /\ step[r] < Len(Program(cmd[r]))
       /\ Advance(r)
       /\ UNCHANGED <<conn, cmd, reply, opState, mutations, leaseLock>>
    \/ /\ step[r] = Len(Program(cmd[r]))
       /\ Finish(r, "ok")

-----------------------------------------------------------------------------
(* Listener *)

Init ==
    /\ listener = "down"
    /\ conn = [r \in Requests |-> "none"]
    /\ cmd = [r \in Requests |-> "READ"]
    /\ step = [r \in Requests |-> 1]
    /\ thread = [r \in Requests |-> FALSE]
    /\ due = [r \in Requests |-> "go"]
    /\ intent = [r \in Requests |-> "none"]
    /\ reply = [r \in Requests |-> "none"]
    /\ kicked = {}
    /\ opState = "IDLE"
    /\ mutations = 0
    /\ leaseLock = Nobody
    /\ durableLock = Nobody

Start ==
    /\ listener = "down"
    /\ listener' = "listening"
    /\ UNCHANGED <<requestVars, kicked, dispatchVars>>

\* _serve: the listener fails, its connections go on.
ListenerFault ==
    /\ listener = "listening"
    /\ listener' = "faulted"
    /\ UNCHANGED <<requestVars, kicked, dispatchVars>>

Admits == Accepting /\ Cardinality(Open) < MaxClients

\* _accept_connection.  Streams accepted before the close may still arrive.
Connect(r) ==
    /\ conn[r] = "none"
    /\ listener \in {"listening", "faulted", "draining"}
    /\ conn' = [conn EXCEPT ![r] = IF Admits THEN "reading" ELSE "refused"]
    /\ UNCHANGED <<listener, cmd, step, thread, due, intent, reply, kicked, dispatchVars>>

\* stop: no new connections, then a bounded wait for the open ones.
StopListener ==
    /\ listener \in {"down", "listening", "faulted"}
    /\ listener' = "draining"
    /\ UNCHANGED <<requestVars, kicked, dispatchVars>>

\* The drain timeout: every connection that is still open is cancelled.
DrainTimeout ==
    /\ listener = "draining"
    /\ Open # {}
    /\ listener' = "cancelling"
    /\ UNCHANGED <<requestVars, kicked, dispatchVars>>

Drained == Open = {}

\* All handlers have ended and the socket is removed; the daemon goes on to
\* stop the runtime and its catalog.
Stopped ==
    /\ listener \in {"draining", "cancelling"}
    /\ Drained
    /\ listener' = "stopped"
    /\ UNCHANGED <<requestVars, kicked, dispatchVars>>

-----------------------------------------------------------------------------
(* Connection handler *)

\* readline and decode_request.
Read(r, c) ==
    /\ conn[r] = "reading" /\ Scheduled(r)
    /\ conn' = [conn EXCEPT ![r] = "running"]
    /\ cmd' = [cmd EXCEPT ![r] = c]
    /\ UNCHANGED <<listener, step, thread, due, intent, reply, kicked, dispatchVars>>

\* No request in time, or not a valid one: no answer.
ReadFails(r) ==
    /\ conn[r] = "reading" /\ Scheduled(r)
    /\ conn' = [conn EXCEPT ![r] = "closed"]
    /\ UNCHANGED <<listener, cmd, step, thread, due, intent, reply, kicked, dispatchVars>>

\* The answer is written, or the client is gone.
Close(r) ==
    /\ conn[r] = "replying" /\ Scheduled(r)
    /\ conn' = [conn EXCEPT ![r] = "closed"]
    /\ UNCHANGED <<listener, cmd, step, thread, due, intent, reply, kicked, dispatchVars>>

\* A cancellation reaches the task of r.  At a thread it waits for the thread
\* to end; _run_blocking does so only the first time, _run_durable_worker always.
Cancel(r) ==
    \/ /\ Running(r) /\ thread[r] /\ (due[r] # "none" \/ DurableStep(r))
       /\ due' = [due EXCEPT ![r] = "none"]
       /\ UNCHANGED <<conn, cmd, step, reply, opState, mutations, leaseLock>>
    \/ /\ Running(r) /\ (~thread[r] \/ (due[r] = "none" /\ ~DurableStep(r)))
       /\ Finish(r, "none")
       /\ UNCHANGED due
    \/ /\ conn[r] \in {"reading", "replying"}
       /\ conn' = [conn EXCEPT ![r] = "closed"]
       /\ UNCHANGED <<cmd, step, reply, due, opState, mutations, leaseLock>>

\* CONTROL_HANDLER_TIMEOUT_S passes while the command runs.
HandlerTimeout(r) ==
    /\ Runs(r)
    /\ due[r] # "none"
    /\ Cancel(r)
    /\ UNCHANGED <<listener, thread, intent, kicked, durableLock>>

\* stop cancels the connections that outlived the drain, each once.
StopCancels(r) ==
    /\ listener = "cancelling"
    /\ r \notin kicked
    /\ kicked' = kicked \cup {r}
    /\ Cancel(r)
    /\ UNCHANGED <<listener, thread, intent, durableLock>>

-----------------------------------------------------------------------------
(* Dispatcher *)

MayBegin == opState = "IDLE"

\* _begin_mutation.
Begin(r) ==
    /\ Runs(r) /\ Step(r) = "begin"
    /\ \/ /\ MayBegin
          /\ mutations' = mutations + 1
          /\ Advance(r)
          /\ UNCHANGED <<conn, cmd, reply, opState, leaseLock>>
       \/ /\ ~MayBegin
          /\ Finish(r, "conflict")
    /\ UNCHANGED <<listener, thread, due, intent, kicked, durableLock>>

\* async with _lease_lock.
TakeLeaseLock(r) ==
    /\ Runs(r) /\ Step(r) = "lease"
    /\ leaseLock = Nobody
    /\ leaseLock' = r
    /\ Advance(r)
    /\ UNCHANGED <<listener, conn, cmd, thread, due, intent, reply, kicked,
                   opState, mutations, durableLock>>

\* _run_blocking starts its thread.
StartThread(r) ==
    /\ Runs(r) /\ Step(r) \in {"block", "prepare"} /\ ~thread[r]
    /\ thread' = [thread EXCEPT ![r] = TRUE]
    /\ UNCHANGED <<listener, conn, cmd, step, due, intent, reply, kicked, dispatchVars>>

\* The thread of a catalog or configuration call ends: with a result, with an
\* error the dispatcher turns into an answer, or for a task that is cancelled.
ThreadEnds(r) ==
    /\ Runs(r) /\ thread[r] /\ ~DurableStep(r)
    /\ thread' = [thread EXCEPT ![r] = FALSE]
    /\ \/ /\ due[r] = "go" /\ Step(r) = "block"
          /\ Proceed(r)
          /\ UNCHANGED intent
       \/ /\ due[r] = "go" /\ Step(r) = "prepare"
          /\ Advance(r)
          /\ \E i \in IF cmd[r] = "DELETE" THEN {"pending"} ELSE {"none", "pending"} :
                intent' = [intent EXCEPT ![r] = i]
          /\ UNCHANGED <<conn, cmd, reply, opState, mutations, leaseLock>>
       \/ /\ due[r] = "go"
          /\ Finish(r, "error")
          /\ UNCHANGED intent
       \/ /\ due[r] = "none"
          /\ Finish(r, "none")
          /\ UNCHANGED intent
    /\ UNCHANGED <<listener, due, kicked, durableLock>>

\* A thread whose task gave up on it ends.
AbandonedThreadEnds(r) ==
    /\ conn[r] = "closed" /\ thread[r]
    /\ thread' = [thread EXCEPT ![r] = FALSE]
    /\ UNCHANGED <<listener, conn, cmd, step, due, intent, reply, kicked, dispatchVars>>

\* No intent was needed: PROTECT and RELEASE go on without one.
SkipIntent(r) ==
    /\ Runs(r) /\ Step(r) = "intent" /\ intent[r] = "none"
    /\ Proceed(r)
    /\ UNCHANGED <<listener, thread, due, intent, kicked, durableLock>>

DurableFree == durableLock = Nobody

\* execute_control_intent and trigger_control_event: the lock, then the thread.
StartDurable(r) ==
    /\ Runs(r) /\ DurableStep(r) /\ ~thread[r]
    /\ Step(r) = "intent" => intent[r] # "none"
    /\ DurableFree
    /\ durableLock' = r
    /\ thread' = [thread EXCEPT ![r] = TRUE]
    /\ UNCHANGED <<listener, conn, cmd, step, due, intent, reply, kicked,
                   opState, mutations, leaseLock>>

\* The timer of _execute_intent: before the lock at once, at the thread after
\* the thread has been joined.
IntentTimeout(r) ==
    /\ Runs(r) /\ Step(r) = "intent" /\ intent[r] # "none"
    /\ \/ /\ ~thread[r]
          /\ Finish(r, "timeout")
          /\ UNCHANGED due
       \/ /\ thread[r] /\ due[r] \in {"go", "fault"}
          /\ due' = [due EXCEPT ![r] = "timeout"]
          /\ UNCHANGED <<conn, cmd, step, reply, opState, mutations, leaseLock>>
    /\ UNCHANGED <<listener, thread, intent, kicked, durableLock>>

\* finalizer_timeout_s passes in _run_durable_worker.
DurableDeadline(r) ==
    /\ Runs(r) /\ DurableStep(r) /\ thread[r] /\ due[r] = "go"
    /\ due' = [due EXCEPT ![r] = "fault"]
    /\ UNCHANGED <<listener, conn, cmd, step, thread, intent, reply, kicked, dispatchVars>>

\* execute_intent refuses an intent that is no longer pending and a DELETE.
Executes(r) == Step(r) = "event" \/ (intent[r] = "pending" /\ RecoveryKind(cmd[r]))

\* Mutant of LateAnswer: a deadline that passed is forgotten.
LateAnswerLost(r, outcome) == IF due[r] = "fault" THEN "ok" ELSE due[r]

\* What a task raises whose timer fired, or that was cancelled, before its
\* thread ended: the error of the thread comes before the deadline's.
LateAnswer(r, outcome) ==
    IF due[r] = "fault" /\ outcome # "ok" THEN outcome ELSE due[r]

\* The durable thread ends and its lock is released: the move is made, refused
\* or failed, whatever the task was told meanwhile.
DurableEnds(r) ==
    /\ Runs(r) /\ DurableStep(r) /\ thread[r]
    /\ thread' = [thread EXCEPT ![r] = FALSE]
    /\ durableLock' = Nobody
    /\ \E outcome \in IF Executes(r) THEN {"ok", "error"} ELSE {"refused"} :
          /\ intent' = [intent EXCEPT ![r] =
                          IF outcome = "ok" /\ @ = "pending" THEN "done" ELSE @]
          /\ \/ due[r] = "go" /\ outcome = "ok" /\ Proceed(r)
             \/ due[r] = "go" /\ outcome # "ok" /\ Finish(r, outcome)
             \/ due[r] # "go" /\ Finish(r, LateAnswer(r, outcome))
    /\ UNCHANGED <<listener, due, kicked>>

MayOperate == opState = "IDLE" /\ mutations = 0

\* _run_operation.
StartOperation(r) ==
    /\ Runs(r) /\ Step(r) = "op"
    /\ \/ /\ MayOperate
          /\ opState' = IF cmd[r] = "RESTART" THEN "RESTARTING" ELSE "PREPARING_REMOVAL"
          /\ Advance(r)
          /\ UNCHANGED <<conn, cmd, reply, mutations, leaseLock>>
       \/ /\ ~MayOperate
          /\ Finish(r, "conflict")
    /\ UNCHANGED <<listener, thread, due, intent, kicked, durableLock>>

\* The callback returns, fails or is timed out.
OperationEnds(r) ==
    /\ Operating(r) /\ Scheduled(r)
    /\ \E answer \in {"ok", "fault", "timeout"} : Finish(r, answer)
    /\ UNCHANGED <<listener, thread, due, intent, kicked, durableLock>>

-----------------------------------------------------------------------------
(* The recorder's own use of the worker: fragment closes, reclamation, ... *)

RecorderStarts ==
    /\ DurableFree
    /\ durableLock' = Recorder
    /\ UNCHANGED <<listener, requestVars, kicked, opState, mutations, leaseLock>>

\* It may have executed intents that requests prepared: reconcile_pending those
\* of the recovery kinds, the storage reclaimer the deletions.
RecorderEnds ==
    /\ durableLock = Recorder
    /\ durableLock' = Nobody
    /\ \E done \in SUBSET {r \in Requests : intent[r] = "pending"} :
          intent' = [r \in Requests |-> IF r \in done THEN "done" ELSE intent[r]]
    /\ UNCHANGED <<listener, conn, cmd, step, thread, due, reply, kicked,
                   opState, mutations, leaseLock>>

-----------------------------------------------------------------------------

ListenerStep == Start \/ ListenerFault \/ StopListener \/ DrainTimeout \/ Stopped

HandlerStep(r) ==
    \/ Connect(r) \/ ReadFails(r) \/ Close(r) \/ HandlerTimeout(r) \/ StopCancels(r)
    \/ \E c \in Commands : Read(r, c)

DispatchStep(r) ==
    \/ Begin(r) \/ TakeLeaseLock(r) \/ StartThread(r) \/ ThreadEnds(r)
    \/ AbandonedThreadEnds(r) \/ SkipIntent(r) \/ StartDurable(r) \/ IntentTimeout(r)
    \/ DurableDeadline(r) \/ DurableEnds(r) \/ StartOperation(r) \/ OperationEnds(r)

Next ==
    \/ ListenerStep
    \/ RecorderStarts
    \/ RecorderEnds
    \/ \E r \in Requests : HandlerStep(r) \/ DispatchStep(r)

Spec == Init /\ [][Next]_vars

\* A task that can run does run and a thread that was started ends; asyncio's
\* locks serve their waiters in order.  Of the timers only the one of readline
\* is needed.
Fairness ==
    /\ WF_vars(RecorderEnds)
    /\ WF_vars(Stopped)
    /\ \A r \in Requests :
        /\ WF_vars(ReadFails(r) \/ Close(r) \/ Begin(r) \/ StartThread(r)
                   \/ ThreadEnds(r) \/ SkipIntent(r) \/ DurableEnds(r)
                   \/ StartOperation(r) \/ OperationEnds(r))
        /\ WF_vars(StopCancels(r))
        /\ SF_vars(TakeLeaseLock(r))
        /\ SF_vars(StartDurable(r))

LiveSpec == Spec /\ Fairness

-----------------------------------------------------------------------------

ConnPhases == {"none", "refused", "reading", "running", "replying", "closed"}
Answers == {"none", "ok", "error", "conflict", "timeout", "fault", "refused"}

\* Every variable has its type; the count of mutations never goes below zero.
TypeOK ==
    /\ listener \in {"down", "listening", "faulted", "draining", "cancelling", "stopped"}
    /\ conn \in [Requests -> ConnPhases]
    /\ cmd \in [Requests -> AllCommands]
    /\ step \in [Requests -> 1..5]
    /\ thread \in [Requests -> BOOLEAN]
    /\ due \in [Requests -> {"go", "none", "fault", "timeout"}]
    /\ intent \in [Requests -> {"none", "pending", "done"}]
    /\ reply \in [Requests -> Answers]
    /\ kicked \subseteq Requests
    /\ opState \in {"IDLE", "RESTARTING", "PREPARING_REMOVAL", "SHUTTING_DOWN"}
    /\ mutations \in Nat
    /\ leaseLock \in Requests \cup {Nobody}
    /\ durableLock \in Requests \cup {Nobody, Recorder}

\* No command that mutates overlaps a restart or a prepared removal, and none
\* is let in after the removal, however the requests are timed out or cancelled
\* (_begin_mutation, _end_mutation and _run_operation).
ExclusiveOperation ==
    /\ opState # "IDLE" => \A r \in Requests : ~Counted(r)
    /\ \A r, q \in Requests : Operating(r) /\ Operating(q) => r = q

\* _active_mutations counts exactly the mutations that are under way: no path
\* out of a request, cancelled or not, leaks one and blocks every later restart
\* and removal (_mutate and _end_mutation).
MutationsCounted == mutations = Cardinality({r \in Requests : Counted(r)})

\* A durable worker thread never runs without the recorder's mutation lock,
\* also when its request has timed out, was cancelled twice or is closed
\* (_durable_worker and _run_durable_worker).
DurableSerialized ==
    \A r \in Requests : thread[r] /\ DurableStep(r) => durableLock = r

\* The lease lock is held only by a request that is running, so that no path
\* out of a download command leaves it locked (_acquire_download and
\* _release_download).
LeaseLockOwned ==
    leaseLock # Nobody => Running(leaseLock) /\ cmd[leaseLock] \in {"ACQUIRE", "RELEASE"}

\* A client that is told its command succeeded can rely on it: the intent that
\* the command prepared has been executed (_execute_intent).
OkMeansDone == \A r \in Requests : reply[r] = "ok" => intent[r] # "pending"

\* When stop returns, every handler has ended: none holds a lock, counts as a
\* mutation or can still start a thread (RecorderUnixServer.stop).
StopJoinsHandlers ==
    listener = "stopped" =>
        /\ \A r \in Requests : ~Running(r)
        /\ mutations = 0
        /\ leaseLock = Nobody
        /\ durableLock \in {Nobody, Recorder}

\* Every accepted connection ends without the help of the command timers: the
\* lease lock, the durable lock and the native threads never wait for each
\* other in a circle (_release_download executes an intent under the lease lock).
EveryRequestEnds ==
    \A r \in Requests : conn[r] = "reading" ~> conn[r] = "closed"

\* A stop of the listener that has begun comes to its end (RecorderUnixServer.stop).
StopCompletes == listener = "draining" ~> listener = "stopped"

\* The endpoint's bookkeeping agrees with the requests under way (RecorderControlService).
EndpointInv ==
    /\ TypeOK /\ ExclusiveOperation /\ MutationsCounted
    /\ DurableSerialized /\ LeaseLockOwned /\ StopJoinsHandlers

\* Nothing that was begun at the endpoint hangs.
RequestsEnd == EveryRequestEnds /\ StopCompletes

\* "Join native work after cancellation so catalog lifetime cannot overlap it"
\* (_run_blocking): once stop has returned, no native thread is left.
NativeWorkJoined == listener = "stopped" => \A r \in Requests : ~thread[r]
=============================================================================
