----------------------------- MODULE ForcedIdr -----------------------------
(***************************************************************************)
(* The forced-IDR gate of the audio-loss handoff (recorder/gstreamer.py).  *)
(* The handoff asks the encoder for an IDR frame and keeps it in front of  *)
(* the closed successor.  Two probe callbacks run in streaming threads:    *)
(* observe_force_key sees the encoder's answer, hold_idr sees the frames   *)
(* that leave the gate queue and blocks on the one that answers.  Frames   *)
(* travel from the encoder to the queue's output meanwhile.  A frame is    *)
(* its running time and kind; the encoder makes IDR frames of its own too. *)
(***************************************************************************)
EXTENDS Integers, Sequences

CONSTANTS
  EdgeBound,      \* how long after the last audio the IDR may be
  MaxForeign,     \* bound of foreign force-key events before the gate fails
  MaxFrames,      \* bound: frames encoded
  MaxQueued       \* bound: frames between the encoder and the gate

ASSUME ForcedIdrConstants == {EdgeBound, MaxForeign, MaxFrames, MaxQueued} \subseteq Nat

VARIABLES
  encoder,   \* next running time, and the count of a request it has to answer
  frames,    \* frames between the encoder and the gate
  gate,      \* the shared record of the gate in use
  holding,   \* the frame on which hold_idr blocks, if any
  driver,    \* where the handoff is
  first      \* the first frame that entered the open successor

idrVars == <<encoder, frames, gate, holding, driver, first>>

NoTime == -1

NewGate(count) ==
  [count |-> count, event |-> TRUE, buffer |-> TRUE, seqnum |-> FALSE, answer |-> NoTime,
   foreign |-> 0, failed |-> FALSE, reached |-> NoTime, completed |-> FALSE, release |-> FALSE]

IdrInit ==
  /\ encoder = [time |-> 0, request |-> 0, said |-> 0]
  /\ frames = <<>> /\ holding = {} /\ first = NoTime
  /\ gate = [NewGate(0) EXCEPT !.event = FALSE, !.buffer = FALSE]
  /\ driver = [at |-> "start", audioEnd |-> NoTime, held |-> NoTime, proof |-> FALSE, sent |-> 0]

(***************************************************************************)
(* The encoder: external.  Its answer to a request is an event at its      *)
(* source pad, just before the IDR frame it announces.                     *)
(***************************************************************************)

Encode(kind) ==
  /\ Len(frames) < MaxQueued /\ encoder.time < MaxFrames
  /\ encoder.said = 0 \/ kind = "idr"
  /\ gate.seqnum => gate.answer # NoTime   \* the callback has returned
  /\ frames' = Append(frames, [time |-> encoder.time, kind |-> kind, answers |-> encoder.said])
  /\ encoder' = [encoder EXCEPT !.time = @ + 1, !.said = 0]
  /\ UNCHANGED <<gate, holding, driver, first>>

\* observe_force_key, in two steps: the other thread may read in between.
EncoderAnswers ==
  /\ encoder.request # 0 /\ encoder.said = 0
  /\ encoder' = [encoder EXCEPT !.said = encoder.request, !.request = 0]
  /\ gate' = IF ~gate.event THEN gate
             ELSE IF encoder.request # gate.count
               THEN [gate EXCEPT !.foreign = @ + 1, !.failed = @ \/ gate.foreign + 1 > MaxForeign]
             ELSE [gate EXCEPT !.seqnum = TRUE, !.event = FALSE]
  /\ UNCHANGED <<frames, holding, driver, first>>

ObserveAnswerTime ==
  /\ gate.seqnum /\ gate.answer = NoTime
  /\ gate' = [gate EXCEPT !.answer = encoder.time]
  /\ UNCHANGED <<encoder, frames, holding, driver, first>>

(***************************************************************************)
(* hold_idr, in the thread of the gate queue.                              *)
(***************************************************************************)

\* The first IDR frame after the answer is taken, whenever it was encoded.
VerdictUntimed(f) ==
  IF ~gate.buffer \/ f.kind = "delta" \/ ~gate.seqnum THEN "pass" ELSE "hold"

\* What the callback makes of a frame: let it pass, fail the gate or hold it.
Verdict(f) ==
  IF ~gate.buffer \/ f.kind = "delta" \/ ~gate.seqnum THEN "pass"
  ELSE IF gate.answer = NoTime \/ f.time < gate.answer THEN "fail"
  ELSE "hold"

\* A frame that leaves the gate is recorded once the valve behind it is open.
Entering(time) == IF driver.proof /\ first = NoTime THEN time ELSE first

FrameArrives ==
  /\ holding = {} /\ frames # <<>>
  /\ frames' = Tail(frames)
  /\ LET f == Head(frames) IN
     IF Verdict(f) = "hold"
     THEN holding' = {f} /\ gate' = [gate EXCEPT !.reached = f.time] /\ UNCHANGED first
     ELSE /\ first' = Entering(f.time) /\ UNCHANGED holding
          /\ gate' = [gate EXCEPT !.failed = @ \/ Verdict(f) = "fail"]
  /\ UNCHANGED <<encoder, driver>>

Leave(failed) ==
  /\ first' = Entering(gate.reached) /\ holding' = {}
  /\ gate' = [gate EXCEPT !.completed = TRUE, !.buffer = FALSE, !.failed = @ \/ failed]
  /\ UNCHANGED <<encoder, frames, driver>>

\* release is set, or the wait of timeout_s seconds is over; it began after the
\* handoff's own deadline, so the handoff has given up before.
LetGo == holding # {} /\ gate.release /\ Leave(FALSE)
HoldTimesOut == holding # {} /\ driver.at = "failed" /\ ~gate.release /\ Leave(TRUE)

(***************************************************************************)
(* The handoff.                                                            *)
(***************************************************************************)

Goto(at) == driver' = [driver EXCEPT !.at = at]

\* The encoder takes the request.
SendForceKey(count) == encoder' = [encoder EXCEPT !.request = count]

\* _arm_forced_idr_gate: both probes, then the request, in the driver's thread.
Arm ==
  /\ driver.at \in {"start", "retry"}
  /\ gate' = NewGate(driver.sent + 1)
  /\ SendForceKey(driver.sent + 1)
  /\ driver' = [driver EXCEPT !.sent = @ + 1, !.at = IF driver.at = "start" THEN "drain" ELSE "await"]
  /\ UNCHANGED <<frames, holding, first>>

\* The audio queue is empty and its end is frozen.
FreezeAudio ==
  /\ driver.at = "drain" /\ \E t \in 0 .. encoder.time : driver' = [driver EXCEPT !.at = "await", !.audioEnd = t]
  /\ UNCHANGED <<encoder, frames, gate, holding, first>>

\* _await_forced_idr_gate, then the edge of the held IDR.
AwaitGate ==
  /\ driver.at = "await" /\ gate.reached # NoTime /\ ~gate.failed
  /\ driver' = [driver EXCEPT !.held = gate.reached,
                  !.at = IF gate.reached >= driver.audioEnd THEN "edge"
                         ELSE IF driver.sent = 1 THEN "discard" ELSE "cleanup"]
  /\ UNCHANGED <<encoder, frames, gate, holding, first>>

\* _finalize_forced_idr_gate: the successor is opened and the IDR let go into it.
Finalize ==
  /\ driver.at = "edge"
  /\ IF driver.held - driver.audioEnd < EdgeBound
     THEN driver' = [driver EXCEPT !.proof = TRUE, !.at = "routed"] /\ gate' = [gate EXCEPT !.release = TRUE]
     ELSE Goto("cleanup") /\ UNCHANGED gate
  /\ UNCHANGED <<encoder, frames, holding, first>>

\* _discard_early_forced_idr_gate: the IDR before the last audio goes, once.
Discard ==
  /\ driver.at = "discard"
  /\ \/ ~gate.release /\ gate' = [gate EXCEPT !.release = TRUE] /\ UNCHANGED driver
     \/ gate.release /\ gate.completed /\ Goto(IF gate.failed THEN "cleanup" ELSE "retry") /\ UNCHANGED gate
  /\ UNCHANGED <<encoder, frames, holding, first>>

\* A failure of the gate, or the deadline.
GiveUpHandoff ==
  /\ driver.at \in {"drain", "await", "discard", "routed"}
  /\ Goto("cleanup") /\ UNCHANGED <<encoder, frames, gate, holding, first>>

FinishRoute ==
  /\ driver.at = "routed" /\ gate.completed /\ Goto("cleanup")
  /\ UNCHANGED <<encoder, frames, gate, holding, first>>

\* The finally clause: probes removed and the frame let go, or a cleanup that fails
\* on the way and leaves the frame to its own timeout.
Cleanup ==
  /\ driver.at = "cleanup"
  /\ \/ gate' = [gate EXCEPT !.event = FALSE, !.release = TRUE, !.buffer = IF holding = {} THEN FALSE ELSE @]
        /\ Goto("ended")
     \/ Goto("failed") /\ UNCHANGED gate
  /\ UNCHANGED <<encoder, frames, holding, first>>

IdrNext ==
  \/ \E kind \in {"delta", "idr"} : Encode(kind)
  \/ EncoderAnswers \/ ObserveAnswerTime \/ FrameArrives \/ LetGo \/ HoldTimesOut
  \/ Arm \/ FreezeAudio \/ AwaitGate \/ Finalize \/ Discard \/ GiveUpHandoff \/ FinishRoute \/ Cleanup

IdrSpec == IdrInit /\ [][IdrNext]_idrVars

(***************************************************************************)
(* Properties.                                                             *)
(***************************************************************************)

\* The frame the successor begins with is the encoder's answer to the request of
\* the gate in use, not an IDR frame that was under way when it was asked for, and
\* no frame enters the opened successor before it, and it follows the last audio
\* within EdgeBound.
HeldIsAnswer ==
  /\ gate.reached # NoTime /\ ~gate.completed => \A f \in holding : f.answers = gate.count
  /\ driver.proof => /\ gate.reached = driver.held
                     /\ driver.held \in driver.audioEnd .. driver.audioEnd + EdgeBound - 1
                     /\ first \in {NoTime, driver.held}
=============================================================================
