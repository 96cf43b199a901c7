---------------------------- MODULE GpsReceiver ----------------------------
(***************************************************************************)
(* The optional GPS receiver (gps/service.py with its UART, linux.py, its  *)
(* parser, nmea.py, and its clock, anchors.py and clock.py).  One task     *)
(* opens the UART, reads bounded chunks, frames and parses lines, keeps    *)
(* the published navigation and time state and considers each UTC time as  *)
(* an anchor of the monotonic clock; it contains every failure and tries   *)
(* again.  Time is kept as ages that saturate at MaxAge, so the state      *)
(* space is finite without a horizon.                                      *)
(***************************************************************************)
EXTENDS Integers

CONSTANTS
  OpenTimeout, ReadTimeout, ReadDeadline, CloseTimeout, Coalesce,
  MinDelay, MaxDelay,           \* bounds of the reconnect delay
  StaleAfter,                   \* age at which a sentence or a fix is stale
  MaxLine, MaxConsecutive, MaxPerWindow, WindowLength,
  UtcOffsets,                   \* candidate UTC minus the monotonic clock
  MaxConflict, MaxReacquire, MaxInterval, DriftEvery,
  MaxAge                        \* bound: ages above it are not told apart

ASSUME GpsConstants ==
  /\ {OpenTimeout, ReadTimeout, ReadDeadline, CloseTimeout, Coalesce, MinDelay, MaxDelay,
      StaleAfter, MaxLine, MaxConsecutive, MaxPerWindow, WindowLength, MaxConflict,
      MaxReacquire, MaxInterval, MaxAge} \subseteq Nat
  /\ UtcOffsets \subseteq Int /\ DriftEvery \in Nat \ {0}
  /\ ReadTimeout <= ReadDeadline /\ MinDelay <= MaxDelay
  /\ MaxAge > StaleAfter + ReadDeadline + Coalesce /\ MaxAge > MaxInterval /\ MaxAge >= WindowLength

VARIABLES
  phase,      \* what the task awaits: opening, reading, closing, waiting, ended
  waited,     \* how long it has awaited it
  stopGps,    \* stop_requested
  delay,      \* the next reconnect delay
  gps,        \* the published state
  ages,       \* time since the last sentence and the last fix; -1 if none
  line,       \* the line buffer, and how much of the line the wire has sent
  errors,     \* parse errors since the last good sentence and in the window
  clock       \* the anchor and its latest confirmation

gpsVars == <<phase, waited, stopGps, delay, gps, ages, line, errors, clock>>

Never == -1
Older(a) == IF a \in {Never, MaxAge} THEN a ELSE a + 1
Stale(a) == a > StaleAfter
Distance(a, b) == IF a > b THEN a - b ELSE b - a

EmptyLine == [held |-> 0, discarding |-> FALSE, sent |-> 0]
NoErrors == [consecutive |-> 0, inWindow |-> 0, window |-> Never]

GpsInit ==
  /\ phase = "opening" /\ waited = 0 /\ stopGps = FALSE /\ delay = MinDelay
  /\ gps = [state |-> "UART_UNAVAILABLE", nav |-> FALSE, connected |-> FALSE, time |-> "UNSYNCED",
            latestIsTime |-> FALSE]
  /\ ages = [sentence |-> Never, navigation |-> Never]
  /\ line = EmptyLine /\ errors = NoErrors
  /\ clock = [anchored |-> FALSE, offset |-> 0, anchorAge |-> 0, latest |-> 0, age |-> Never]

(***************************************************************************)
(* The clock.                                                              *)
(***************************************************************************)

\* What the parser makes of a line: navigation_valid, and the UTC offset it carries
\* if it is a time anchor candidate of a plausible time.  A void RMC carries none.
Utc == {{}} \cup {{o} : o \in UtcOffsets}
Rmc == [type : {"RMC"}, nav : BOOLEAN, utc : Utc]
Zda == [type : {"ZDA"}, nav : {FALSE}, utc : Utc]
Gga == [type : {"GGA"}, nav : BOOLEAN, utc : {{}}]
Sentences == Rmc \cup Zda \cup Gga

Allowed(c) == MaxConflict + c.anchorAge \div DriftEvery

\* A candidate is compared with the latest confirmation, so that the clock can creep.
ConsiderLastSeen(c, o) ==
  LET fresh == [anchored |-> TRUE, offset |-> o, anchorAge |-> 0, latest |-> o, age |-> 0]
      disagreement == Distance(o, c.latest)
  IN IF ~c.anchored THEN fresh
     ELSE IF c.age > MaxInterval THEN IF disagreement > MaxReacquire THEN c ELSE fresh
     ELSE IF disagreement > Allowed(c) \/ c.age = 0 THEN c
     ELSE [c EXCEPT !.latest = o, !.age = 0]

\* MonotonicUtcClock.consider: after a long silence the anchor is replaced by a
\* plausible candidate; within it a consistent one confirms the anchor, which stays.
Consider(c, o) ==
  LET fresh == [anchored |-> TRUE, offset |-> o, anchorAge |-> 0, latest |-> o, age |-> 0]
      disagreement == Distance(o, c.offset)
  IN IF ~c.anchored THEN fresh
     ELSE IF c.age > MaxInterval THEN IF disagreement > MaxReacquire THEN c ELSE fresh
     ELSE IF disagreement > Allowed(c) \/ c.age = 0 THEN c
     ELSE [c EXCEPT !.latest = o, !.age = 0]

GpsTimeState(c) ==
  IF ~c.anchored THEN "UNSYNCED" ELSE IF Stale(c.age) THEN "GPS_TIME_STALE" ELSE "GPS_TIME_VALID"

\* Only the age of the latest sentence is looked at, so a receiver that keeps
\* talking without a fix keeps the last position.
RefreshedBySentence(g, a, c) ==
  LET nav == g.nav /\ ~Stale(a.sentence)
  IN [g EXCEPT !.nav = nav, !.state = IF Stale(a.sentence) THEN "STALE" ELSE @, !.time = GpsTimeState(c)]

\* _refresh_freshness, at the end of every read.
Refreshed(g, a, c) ==
  LET nav == g.nav /\ a.navigation # Never /\ ~Stale(a.navigation)
      state == IF Stale(a.sentence) THEN "STALE"
               ELSE IF g.nav /\ ~nav
                 THEN IF g.latestIsTime THEN "TIME_VALID_POSITION_INVALID" ELSE "RECEIVING_INVALID"
               ELSE g.state
  IN [g EXCEPT !.nav = nav, !.state = state, !.time = GpsTimeState(c)]

(***************************************************************************)
(* Transport errors, and the end of an attempt.                            *)
(***************************************************************************)

OnConnected ==
  /\ line' = EmptyLine /\ errors' = NoErrors
  /\ gps' = [gps EXCEPT !.connected = TRUE,
                        !.state = IF @ \in {"UART_UNAVAILABLE", "FAULTED"} THEN "RECEIVING_INVALID" ELSE @]

TransportError(g, disconnected, faulted) ==
  [g EXCEPT !.nav = FALSE, !.connected = FALSE,
            !.state = IF disconnected /\ ages.sentence # Never THEN "STALE"
                      ELSE IF faulted THEN "FAULTED" ELSE "UART_UNAVAILABLE",
            !.time = IF clock.anchored THEN "GPS_TIME_STALE" ELSE "UNSYNCED"]

Await(p) == phase' = p /\ waited' = 0

Open ==
  /\ phase = "opening" /\ Await("reading")
  /\ OnConnected /\ UNCHANGED <<stopGps, delay, ages, clock>>

\* received_data is only returned by a read loop that stop_requested ends, so no
\* failure resets the delay.
AfterAttempt == Await(IF stopGps THEN "ended" ELSE "waiting")

OpenFails ==
  /\ phase = "opening" /\ AfterAttempt
  /\ \E faulted \in BOOLEAN : gps' = TransportError(gps, FALSE, faulted)
  /\ line' = [EmptyLine EXCEPT !.sent = line.sent]
  /\ UNCHANGED <<stopGps, delay, ages, errors, clock>>

ReadFails ==
  /\ phase = "reading" /\ Await("closing")
  /\ \E faulted \in BOOLEAN : gps' = TransportError(gps, TRUE, faulted)
  /\ line' = EmptyLine
  /\ UNCHANGED <<stopGps, delay, ages, errors, clock>>

\* Whether or not the UART reports an error.
Close ==
  /\ phase = "closing" /\ AfterAttempt
  /\ gps' = [gps EXCEPT !.connected = FALSE]
  /\ UNCHANGED <<stopGps, delay, ages, line, errors, clock>>

Wait ==
  /\ phase = "waiting" /\ (waited >= delay \/ stopGps)
  /\ Await(IF stopGps THEN "ended" ELSE "opening")
  /\ delay' = IF stopGps THEN delay ELSE IF 2 * delay > MaxDelay THEN MaxDelay ELSE 2 * delay
  /\ UNCHANGED <<stopGps, gps, ages, line, errors, clock>>

(***************************************************************************)
(* Reading.                                                                *)
(***************************************************************************)

Continue == IF stopGps THEN Await("closing") ELSE Await("reading")

\* The read ends without a byte.
ReadTimesOut ==
  /\ phase = "reading" /\ waited >= ReadTimeout /\ Continue
  /\ gps' = Refreshed(gps, ages, clock)
  /\ UNCHANGED <<stopGps, delay, ages, line, errors, clock>>

\* _consume_chunk, for the bytes up to and including the next newline.
Buffered(l, n, newline) ==
  LET sent == IF l.sent + n > MaxLine THEN MaxLine + 1 ELSE l.sent + n
  IN IF newline THEN EmptyLine
     ELSE IF l.discarding \/ l.held + n > MaxLine THEN [held |-> 0, discarding |-> TRUE, sent |-> sent]
     ELSE [held |-> l.held + n, discarding |-> FALSE, sent |-> sent]

Oversized(l, n) == ~l.discarding /\ l.held + n > MaxLine

ParseFailed ==
  LET again == errors.window = Never \/ errors.window >= WindowLength
  IN [consecutive |-> errors.consecutive + 1,
      inWindow |-> IF again THEN 1 ELSE errors.inWindow + 1,
      window |-> IF again THEN 0 ELSE errors.window]

Starving(e) == e.consecutive >= MaxConsecutive \/ e.inWindow > MaxPerWindow

\* A part of a line that does not end it; the first byte too many counts as an error.
ReadPart ==
  /\ phase = "reading"
  /\ \E n \in 1 .. MaxLine :
       IF Oversized(line, n) /\ Starving(ParseFailed)
       THEN /\ Await("closing") /\ line' = EmptyLine
            /\ errors' = ParseFailed /\ gps' = TransportError(gps, TRUE, TRUE)
       ELSE /\ Continue /\ line' = Buffered(line, n, FALSE)
            /\ errors' = IF Oversized(line, n) THEN ParseFailed ELSE errors
            /\ gps' = Refreshed(gps, ages, clock)
  /\ UNCHANGED <<stopGps, delay, ages, clock>>

\* The end of a line that does not parse, or that was already too long.
ReadBadLine ==
  /\ phase = "reading"
  /\ LET g == [gps EXCEPT !.state = IF gps.nav \/ Oversized(line, 1) THEN @ ELSE "RECEIVING_INVALID"]
     IN IF line.discarding
        THEN Continue /\ line' = EmptyLine /\ gps' = Refreshed(gps, ages, clock) /\ UNCHANGED errors
        ELSE /\ errors' = ParseFailed /\ line' = EmptyLine
             /\ IF Starving(ParseFailed)
                THEN Await("closing") /\ gps' = TransportError(g, TRUE, TRUE)
                ELSE Continue /\ gps' = Refreshed(g, ages, clock)
  /\ UNCHANGED <<stopGps, delay, ages, clock>>

\* _handle_line of a good sentence.
Shown(s) ==
  LET keeps == s.type = "ZDA" /\ gps.nav
      nav == s.nav \/ keeps
  IN [gps EXCEPT !.nav = nav, !.latestIsTime = s.utc # {},
                 !.state = IF nav THEN "NAVIGATION_VALID"
                           ELSE IF s.utc # {} THEN "TIME_VALID_POSITION_INVALID" ELSE "RECEIVING_INVALID"]

Anchored(s) == IF s.utc = {} THEN clock ELSE Consider(clock, CHOOSE o \in s.utc : TRUE)

ReadSentence ==
  /\ phase = "reading" /\ ~line.discarding /\ ~Oversized(line, 1) /\ Continue
  /\ \E s \in Sentences :
       LET a == [sentence |-> 0,
                 navigation |-> IF s.nav THEN 0 ELSE IF s.type = "ZDA" THEN ages.navigation ELSE Never]
       IN /\ ages' = a /\ clock' = Anchored(s)
          /\ gps' = Refreshed(Shown(s), a, Anchored(s))
  /\ line' = EmptyLine /\ errors' = [errors EXCEPT !.consecutive = 0]
  /\ UNCHANGED <<stopGps, delay>>

(***************************************************************************)
(* Time, and the owner of the service.                                     *)
(***************************************************************************)

\* asyncio's timeouts end every await.
Limit ==
  CASE phase = "opening" -> OpenTimeout
    [] phase = "reading" -> ReadDeadline + Coalesce
    [] phase = "closing" -> CloseTimeout
    [] phase = "waiting" -> delay
    [] OTHER -> 0

Tick ==
  /\ waited < Limit /\ waited' = waited + 1
  /\ ages' = [sentence |-> Older(ages.sentence), navigation |-> Older(ages.navigation)]
  /\ errors' = [errors EXCEPT !.window = Older(@)]
  /\ clock' = [clock EXCEPT !.anchorAge = Older(@), !.age = Older(@)]
  /\ UNCHANGED <<phase, stopGps, delay, gps, line>>

RequestStop ==
  /\ ~stopGps /\ stopGps' = TRUE
  /\ UNCHANGED <<phase, waited, delay, gps, ages, line, errors, clock>>

GpsNext ==
  \/ Open \/ OpenFails \/ ReadFails \/ Close \/ Wait \/ ReadTimesOut
  \/ ReadPart \/ ReadBadLine \/ ReadSentence \/ Tick \/ RequestStop

GpsSpec == GpsInit /\ [][GpsNext]_gpsVars

(***************************************************************************)
(* Properties.                                                             *)
(***************************************************************************)

\* While the service runs, a position or a valid GPS time it publishes rests on a
\* sentence no older than stale_after and the one read that may still be waiting,
\* through silence, bad input, reconnects and receivers that talk without a fix.
PublishedIsFresh ==
  stopGps \/ phase = "ended" \/
  LET oldest == StaleAfter + ReadDeadline + Coalesce
  IN /\ gps.nav => gps.connected /\ ages.navigation \in 0 .. oldest
     /\ gps.time = "GPS_TIME_VALID" => clock.anchored /\ clock.age \in 0 .. oldest

\* What is parsed as a line is all of what the wire sent since the last newline
\* of this connection: no tail of an oversized line and no line cut in two.
LinesAreWhole ==
  IF line.discarding THEN line.held = 0 /\ line.sent > MaxLine ELSE line.held = line.sent

\* The clock that names and dates the clips does not wander: all the evidence that
\* confirmed the anchor agrees with it, one anchor is never more than the
\* reacquisition limit from the one before, and it is never given up.
AnchorSteady ==
  [][/\ clock.anchored => clock'.anchored /\ Distance(clock'.offset, clock.offset) <= MaxReacquire
     /\ clock'.latest # clock.latest => Distance(clock'.latest, clock'.offset) <= Allowed(clock')]_gpsVars

\* What the receiver hands on is whole and fresh (LineReader, _refresh_freshness).
GpsInv == PublishedIsFresh /\ LinesAreWhole
=============================================================================
