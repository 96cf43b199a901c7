---------------------------- MODULE GpsTelemetry ----------------------------
(***************************************************************************)
(* The telemetry history of the receiver (gps/telemetry.py): RMC and GGA   *)
(* sentences are merged into samples, limited in rate by the receiver's    *)
(* own time of day, kept in a bounded history and read by clip as windows. *)
(* A sample holds the receive times of the observations it was made from.  *)
(***************************************************************************)
EXTENDS Integers, Sequences, SequencesExt

CONSTANTS
  Day, MaxForward,      \* length of the receiver's day, longest forward step of its time
  MinimumInterval, FieldsStaleAfter, HistoryCapacity, MaxClipSamples,
  MaxTime               \* bound: how long the receiver is observed

ASSUME TelemetryConstants ==
  /\ Day \in Nat \ {0} /\ HistoryCapacity \in Nat \ {0} /\ MaxClipSamples \in Nat \ {0}
  /\ {MaxForward, MinimumInterval, FieldsStaleAfter, MaxTime} \subseteq Nat

VARIABLES
  now,
  parts,      \* receive times of the motion (RMC) and of the fix (GGA) in hand; -1 if none
  samples,    \* the retained history
  lastEpoch,  \* receiver time of the last sample emitted; -1 if none or unknown
  evicted,    \* receive time of the last sample evicted; -1 if none
  emitted     \* every receive time a sample was emitted for (history)

telemetryVars == <<now, parts, samples, lastEpoch, evicted, emitted>>

TelemetryInit ==
  /\ now = 0 /\ parts = [motion |-> -1, fix |-> -1]
  /\ samples = <<>> /\ lastEpoch = -1 /\ evicted = -1 /\ emitted = {}

Fresh(t, at) == t # -1 /\ t <= at /\ at - t <= FieldsStaleAfter

Sample(p, at) ==
  [at |-> at, motion |-> IF Fresh(p.motion, at) THEN p.motion ELSE -1,
              fix |-> IF Fresh(p.fix, at) THEN p.fix ELSE -1]

\* The same receive time or the same receiver time as the last sample.
SameInstant(epoch) ==
  samples # <<>> /\ (Last(samples).at = now \/ (epoch # -1 /\ epoch = lastEpoch))

\* Receiver time tells the rate, unless it is missing or went backwards.
RateLimited(epoch) ==
  LET elapsed == (epoch - lastEpoch) % Day
  IN IF epoch # -1 /\ lastEpoch # -1 /\ elapsed <= MaxForward THEN elapsed < MinimumInterval
     ELSE samples # <<>> /\ now - Last(samples).at < MinimumInterval

\* The mark of the history lost is the sample that is now the oldest but one.
AppendSampleUnmarked(s) ==
  IF Len(samples) = HistoryCapacity
  THEN samples' = Append(Tail(samples), s) /\ evicted' = IF evicted = -1 THEN Head(samples).at ELSE evicted
  ELSE samples' = Append(samples, s) /\ UNCHANGED evicted

AppendSample(s) ==
  IF Len(samples) = HistoryCapacity
  THEN samples' = Append(Tail(samples), s) /\ evicted' = Head(samples).at
  ELSE samples' = Append(samples, s) /\ UNCHANGED evicted

Amend(s) == samples' = [samples EXCEPT ![Len(samples)] = s] /\ UNCHANGED <<lastEpoch, evicted, emitted>>

Keep == UNCHANGED <<samples, lastEpoch, evicted, emitted>>

\* A valid sentence refreshes its own part, an invalid one clears it.
Observed(type, valid) ==
  [parts EXCEPT ![IF type = "RMC" THEN "motion" ELSE "fix"] = IF valid THEN now ELSE -1]

\* observe(sentence), for a sentence received now.
Observe(type, valid, epoch) ==
  LET p == Observed(type, valid)
  IN /\ parts' = p /\ UNCHANGED now
     /\ IF ~valid THEN IF SameInstant(epoch) THEN Amend(Sample(p, Last(samples).at)) ELSE Keep
        ELSE IF SameInstant(epoch) THEN Amend([Sample(p, now) EXCEPT !.at = Last(samples).at])
        ELSE IF RateLimited(epoch) THEN Keep
        ELSE AppendSample(Sample(p, now)) /\ lastEpoch' = epoch /\ emitted' = emitted \cup {now}

Elapse == now < MaxTime /\ now' = now + 1 /\ UNCHANGED <<parts, samples, lastEpoch, evicted, emitted>>

TelemetryNext ==
  \/ \E type \in {"RMC", "GGA"}, valid \in BOOLEAN, epoch \in -1 .. Day - 1 : Observe(type, valid, epoch)
  \/ Elapse

TelemetrySpec == TelemetryInit /\ [][TelemetryNext]_telemetryVars

\* The samples of a history received from one instant until before another, in its order.
Within(history, from, to) ==
  LET chosen[n \in 0 .. Len(history)] ==
        IF n = 0 THEN <<>>
        ELSE IF from <= history[n].at /\ history[n].at < to THEN Append(chosen[n - 1], history[n])
        ELSE chosen[n - 1]
  IN chosen[Len(history)]

\* The view of a clip, and whether it says that history or samples are missing.
Window(from, to) ==
  LET all == Within(samples, from, to)
  IN [samples |-> SubSeq(all, 1, IF Len(all) > MaxClipSamples THEN MaxClipSamples ELSE Len(all)),
      complete |-> ~(evicted # -1 /\ from <= evicted) /\ Len(all) <= MaxClipSamples]

\* The fields of a sample were observed within the staleness bound of each other.
Coherent(s) == s.motion # -1 /\ s.fix # -1 =>
  s.motion - s.fix <= FieldsStaleAfter /\ s.fix - s.motion <= FieldsStaleAfter

\* A clip's window that reports no issue holds a sample of every instant in it one
\* was ever emitted for, in strictly increasing order, whatever was evicted, amended
\* or refused for its rate; and no sample carries a speed or an altitude on from
\* before a loss of the fix.
WindowsTruthful ==
  \A from \in 0 .. MaxTime : \A to \in from + 1 .. MaxTime + 1 :
    LET w == Window(from, to)
    IN /\ w.complete => {w.samples[i].at : i \in DOMAIN w.samples} = {t \in emitted : from <= t /\ t < to}
       /\ \A i, j \in DOMAIN w.samples : i < j => w.samples[i].at < w.samples[j].at
       /\ \A i \in DOMAIN w.samples : Coherent(w.samples[i])
=============================================================================
