----------------------------- MODULE GpsProofs -----------------------------
(***************************************************************************)
(* Proofs about the GPS receiver for every timeout, staleness bound, line  *)
(* length and every set of UTC offsets: what it publishes is fresh, what   *)
(* it parses is whole, and the clock keeps to its anchor; and about its    *)
(* telemetry history for every capacity: its windows tell the truth; and   *)
(* about the names that clips get by its time.                             *)
(***************************************************************************)
EXTENDS GpsReceiver, GpsTelemetry, MetadataPass,
        SequenceTheorems, FiniteSetTheorems, WellFoundedInduction, TLAPS

-----------------------------------------------------------------------------
(* GpsReceiver *)

Age == Nat \cup {Never}

Published == [state : {"UART_UNAVAILABLE", "FAULTED", "STALE", "RECEIVING_INVALID", "NAVIGATION_VALID",
                       "TIME_VALID_POSITION_INVALID"},
              nav : BOOLEAN, connected : BOOLEAN, time : {"UNSYNCED", "GPS_TIME_STALE", "GPS_TIME_VALID"},
              latestIsTime : BOOLEAN]

Clock == [anchored : BOOLEAN, offset : Int, anchorAge : Nat, latest : Int, age : Age]

Line == [held : Nat, discarding : BOOLEAN, sent : Nat]

GpsTypeOK ==
  /\ phase \in {"opening", "reading", "closing", "waiting", "ended"} /\ waited \in Nat /\ stopGps \in BOOLEAN
  /\ gps \in Published /\ ages \in [sentence : Age, navigation : Age] /\ line \in Line /\ clock \in Clock
  /\ clock.anchored => clock.age \in Nat

Oldest == StaleAfter + ReadDeadline + Coalesce

\* While a read waits, what is published was fresh when the read began.
FreshWhenRead ==
  phase = "reading" =>
    /\ waited <= ReadDeadline + Coalesce /\ gps.connected
    /\ ~stopGps /\ gps.nav => ages.navigation \in Nat /\ ages.navigation <= StaleAfter + waited
    /\ ~stopGps /\ gps.time = "GPS_TIME_VALID" => clock.anchored /\ clock.age <= StaleAfter + waited

\* Without a connection nothing is published as valid.
NothingWithoutUart ==
  ~stopGps /\ phase \in {"opening", "closing", "waiting"} => ~gps.nav /\ gps.time # "GPS_TIME_VALID"

\* No connection begins in the middle of a line.
ConnectionsBeginEmpty ==
  phase \in {"opening", "waiting"} \/ (phase = "closing" /\ ~stopGps) => line.sent = 0

GpsInd == GpsTypeOK /\ LinesAreWhole /\ FreshWhenRead /\ NothingWithoutUart /\ ConnectionsBeginEmpty

\* The constants that the proofs use.
LEMMA Constants ==
    /\ StaleAfter \in Nat /\ ReadDeadline \in Nat /\ Coalesce \in Nat /\ MaxLine \in Nat /\ MaxAge \in Nat
    /\ MaxConflict \in Nat /\ MaxReacquire \in Nat /\ DriftEvery \in Nat \ {0} /\ MaxInterval \in Nat
    /\ UtcOffsets \subseteq Int /\ MaxAge > Oldest
BY GpsConstants DEF Oldest

\* A second makes every age at most one older, and forgets none.
LEMMA OlderFacts ==
    ASSUME NEW a \in Age
    PROVE  /\ Older(a) \in Age
           /\ a \in Nat => Older(a) \in Nat /\ Older(a) <= a + 1
           /\ Older(a) \in Nat => a \in Nat
BY Constants DEF Older, Age, Never

\* _refresh_freshness: what is still valid afterwards is fresh.
LEMMA RefreshedFacts ==
    ASSUME NEW g \in Published, NEW a \in [sentence : Age, navigation : Age], NEW c \in Clock
    PROVE  /\ Refreshed(g, a, c) \in Published /\ Refreshed(g, a, c).connected = g.connected
           /\ Refreshed(g, a, c).nav => a.navigation \in Nat /\ a.navigation <= StaleAfter
           /\ Refreshed(g, a, c).time = "GPS_TIME_VALID" => c.anchored /\ ~(c.age > StaleAfter)
<1> DEFINE nav == g.nav /\ a.navigation # Never /\ ~Stale(a.navigation)
           state == IF Stale(a.sentence) THEN "STALE"
                    ELSE IF g.nav /\ ~nav
                      THEN IF g.latestIsTime THEN "TIME_VALID_POSITION_INVALID" ELSE "RECEIVING_INVALID"
                    ELSE g.state
<1>1. nav \in BOOLEAN /\ (nav => a.navigation \in Nat /\ a.navigation <= StaleAfter)
  BY Constants DEF Stale, Age
<1>2. state \in {"UART_UNAVAILABLE", "FAULTED", "STALE", "RECEIVING_INVALID", "NAVIGATION_VALID",
                 "TIME_VALID_POSITION_INVALID"}
  BY DEF Published
<1>3. GpsTimeState(c) \in {"UNSYNCED", "GPS_TIME_STALE", "GPS_TIME_VALID"}
      /\ (GpsTimeState(c) = "GPS_TIME_VALID" => c.anchored /\ ~(c.age > StaleAfter))
  BY DEF GpsTimeState, Stale
<1>4. Refreshed(g, a, c) = [g EXCEPT !.nav = nav, !.state = state, !.time = GpsTimeState(c)]
  BY DEF Refreshed
<1> HIDE DEF nav, state
<1> QED
  BY <1>1, <1>2, <1>3, <1>4 DEF Published

\* A transport error publishes nothing as valid.
LEMMA TransportErrorFacts ==
    ASSUME NEW g \in Published, NEW d, NEW f
    PROVE  /\ TransportError(g, d, f) \in Published /\ ~TransportError(g, d, f).nav
           /\ TransportError(g, d, f).time # "GPS_TIME_VALID"
<1> DEFINE state == IF d /\ ages.sentence # Never THEN "STALE" ELSE IF f THEN "FAULTED" ELSE "UART_UNAVAILABLE"
           time == IF clock.anchored THEN "GPS_TIME_STALE" ELSE "UNSYNCED"
<1>1. TransportError(g, d, f) = [g EXCEPT !.nav = FALSE, !.connected = FALSE, !.state = state, !.time = time]
  BY DEF TransportError
<1>2. state \in {"STALE", "FAULTED", "UART_UNAVAILABLE"} /\ time \in {"GPS_TIME_STALE", "UNSYNCED"}
  OBVIOUS
<1> HIDE DEF state, time
<1> QED
  BY <1>1, <1>2 DEF Published

\* MonotonicUtcClock.consider keeps the clock a clock, and moves it only by evidence that
\* agrees with the anchor.
LEMMA ConsiderFacts ==
    ASSUME NEW c \in Clock, c.anchored => c.age \in Nat, NEW o \in Int
    PROVE  /\ Consider(c, o) \in Clock
           /\ Consider(c, o).anchored /\ Consider(c, o).age \in Nat
           /\ c.anchored => Distance(Consider(c, o).offset, c.offset) <= MaxReacquire
           /\ Consider(c, o).latest # c.latest =>
                Distance(Consider(c, o).latest, Consider(c, o).offset) <= Allowed(Consider(c, o))
<1> DEFINE fresh == [anchored |-> TRUE, offset |-> o, anchorAge |-> 0, latest |-> o, age |-> 0]
           kept == [c EXCEPT !.latest = o, !.age = 0]
           d == Distance(o, c.offset)
<1>1. /\ c.anchored \in BOOLEAN /\ c.offset \in Int /\ c.anchorAge \in Nat /\ c.latest \in Int /\ c.age \in Age
  BY DEF Clock
<1>2. /\ fresh \in Clock /\ fresh.anchored /\ fresh.age = 0 /\ fresh.offset = o /\ fresh.latest = o
      /\ Allowed(fresh) \in Nat
  <2>1. fresh \in Clock /\ fresh.anchored /\ fresh.age = 0 /\ fresh.offset = o /\ fresh.latest = o /\ fresh.anchorAge = 0
    BY DEF Clock, Age
  <2>2. 0 \div DriftEvery \in Nat
    BY Constants
  <2> QED
    BY <2>1, <2>2, Constants DEF Allowed
<1>3. /\ kept \in Clock /\ kept.anchored = c.anchored /\ kept.age = 0 /\ kept.offset = c.offset /\ kept.latest = o
      /\ Allowed(kept) = Allowed(c)
  BY DEF Clock, Age, Allowed
<1>4. d \in Nat /\ Distance(c.offset, c.offset) = 0 /\ Distance(o, o) = 0 /\ Distance(o, c.offset) = d
  BY <1>1 DEF Distance
<1>5. c.anchored => \/ Consider(c, o) = c
                    \/ Consider(c, o) = fresh /\ ~(d > MaxReacquire)
                    \/ Consider(c, o) = kept /\ ~(d > Allowed(c))
  BY DEF Consider
<1>6. ~c.anchored => Consider(c, o) = fresh
  BY DEF Consider
<1>7. Allowed(c) \in Nat
  <2>1. c.anchorAge \div DriftEvery \in Nat
    BY <1>1, Constants
  <2> QED
    BY <2>1, Constants DEF Allowed
<1> HIDE DEF fresh, kept, d
<1>8. CASE Consider(c, o) = c /\ c.anchored
  BY <1>8, <1>4, Constants
<1>9. CASE Consider(c, o) = fresh
  BY <1>9, <1>2, <1>4, <1>5, <1>3, <1>6, <1>7, Constants
<1>10. CASE Consider(c, o) = kept /\ ~(d > Allowed(c)) /\ c.anchored
  BY <1>10, <1>3, <1>4, <1>7, Constants
<1> QED
  BY <1>5, <1>6, <1>8, <1>9, <1>10

\* The receiver starts without a connection and without a clock.
LEMMA GpsBegins == GpsInit => GpsInd
<1> SUFFICES ASSUME GpsInit PROVE GpsInd
  OBVIOUS
<1>1. gps \in Published /\ gps.nav = FALSE /\ gps.time = "UNSYNCED"
  BY DEF GpsInit, Published
<1>2. line \in Line /\ line.held = 0 /\ line.sent = 0 /\ line.discarding = FALSE
  BY DEF GpsInit, EmptyLine, Line
<1>3. clock \in Clock /\ clock.anchored = FALSE /\ ages \in [sentence : Age, navigation : Age]
  BY DEF GpsInit, Clock, Age
<1> QED
  BY <1>1, <1>2, <1>3
     DEF GpsInit, GpsInd, GpsTypeOK, LinesAreWhole, FreshWhenRead, NothingWithoutUart, ConnectionsBeginEmpty

\* A read that ends and the one that follows it: what it leaves published is fresh.
LEMMA ReadEnds ==
    ASSUME GpsInd, phase = "reading", Continue, UNCHANGED stopGps,
           NEW g \in Published, g.connected = gps.connected,
           ages' \in [sentence : Age, navigation : Age], clock' \in Clock, clock'.anchored => clock'.age \in Nat,
           gps' = Refreshed(g, ages', clock'), line' \in Line, LinesAreWhole'
    PROVE  GpsInd'
<1> USE DEF GpsInd
<1>1. phase' = (IF stopGps THEN "closing" ELSE "reading") /\ waited' = 0
  BY DEF Continue, Await
<1>2. /\ gps' \in Published /\ gps'.connected = g.connected
      /\ gps'.nav => ages'.navigation \in Nat /\ ages'.navigation <= StaleAfter
      /\ gps'.time = "GPS_TIME_VALID" => clock'.anchored /\ ~(clock'.age > StaleAfter)
  BY RefreshedFacts
<1>3. GpsTypeOK'
  BY <1>1, <1>2 DEF GpsTypeOK
<1>4. FreshWhenRead'
  <2>1. gps.connected
    BY DEF FreshWhenRead
  <2>2. clock'.anchored => clock'.age \in Nat
    OBVIOUS
  <2> QED
    BY <1>1, <1>2, <2>1, <2>2, Constants DEF FreshWhenRead
<1> QED
  BY <1>1, <1>3, <1>4 DEF NothingWithoutUart, ConnectionsBeginEmpty

\* An attempt that ends by an error.
LEMMA AttemptFails ==
    ASSUME GpsInd, phase' \in {"closing", "waiting", "ended"}, waited' = 0, UNCHANGED <<stopGps, ages, clock>>,
           gps' \in Published, ~gps'.nav, gps'.time # "GPS_TIME_VALID", line' \in Line, line'.sent = 0, line'.held = 0,
           ~line'.discarding
    PROVE  GpsInd'
BY DEF GpsInd, GpsTypeOK, LinesAreWhole, FreshWhenRead, NothingWithoutUart, ConnectionsBeginEmpty

\* Every step keeps what is published fresh and what is buffered whole.
LEMMA GpsStep ==
    ASSUME GpsInd, [GpsNext]_gpsVars
    PROVE  GpsInd'
<1> USE DEF GpsInd
<1>t. /\ gps \in Published /\ line \in Line /\ clock \in Clock /\ ages \in [sentence : Age, navigation : Age]
      /\ clock.anchored => clock.age \in Nat
  BY DEF GpsTypeOK
<1>e. EmptyLine \in Line /\ EmptyLine.held = 0 /\ EmptyLine.sent = 0 /\ EmptyLine.discarding = FALSE
  BY DEF EmptyLine, Line
<1>0. CASE UNCHANGED gpsVars
  BY <1>0 DEF gpsVars, GpsTypeOK, LinesAreWhole, FreshWhenRead, NothingWithoutUart, ConnectionsBeginEmpty
<1>1. CASE Open
  <2>1. /\ phase = "opening" /\ phase' = "reading" /\ waited' = 0 /\ line' = EmptyLine
        /\ UNCHANGED <<stopGps, delay, ages, clock>>
        /\ gps' = [gps EXCEPT !.connected = TRUE,
                        !.state = IF @ \in {"UART_UNAVAILABLE", "FAULTED"} THEN "RECEIVING_INVALID" ELSE @]
    BY <1>1 DEF Open, Await, OnConnected
  <2>2. gps' \in Published /\ gps'.connected = TRUE /\ gps'.nav = gps.nav /\ gps'.time = gps.time
    BY <1>t, <2>1 DEF Published
  <2>3. GpsTypeOK'
    BY <1>e, <2>1, <2>2 DEF GpsTypeOK
  <2>4. FreshWhenRead'
    <3>1. waited' <= ReadDeadline + Coalesce
      BY <2>1, Constants
    <3> QED
      BY <2>1, <2>2, <3>1 DEF FreshWhenRead, NothingWithoutUart
  <2> QED
    BY <1>e, <2>1, <2>3, <2>4 DEF LinesAreWhole, NothingWithoutUart, ConnectionsBeginEmpty
<1>2. CASE OpenFails
  <2>1. PICK f \in BOOLEAN : gps' = TransportError(gps, FALSE, f)
    BY <1>2 DEF OpenFails
  <2>2. line' \in Line /\ line'.sent = 0 /\ line'.held = 0 /\ ~line'.discarding
    BY <1>2, <1>e, <1>t DEF OpenFails, ConnectionsBeginEmpty, EmptyLine, Line
  <2>3. gps' \in Published /\ ~gps'.nav /\ gps'.time # "GPS_TIME_VALID"
    BY <1>t, <2>1, TransportErrorFacts
  <2> QED
    BY <1>2, <2>2, <2>3, AttemptFails DEF OpenFails, AfterAttempt, Await
<1>3. CASE ReadFails
  <2>1. PICK f \in BOOLEAN : gps' = TransportError(gps, TRUE, f)
    BY <1>3 DEF ReadFails
  <2>2. gps' \in Published /\ ~gps'.nav /\ gps'.time # "GPS_TIME_VALID"
    BY <1>t, <2>1, TransportErrorFacts
  <2> QED
    BY <1>3, <1>e, <2>2, AttemptFails DEF ReadFails, Await
<1>4. CASE Close
  <2>1. gps' \in Published /\ gps'.nav = gps.nav /\ gps'.time = gps.time
    BY <1>4, <1>t DEF Close, Published
  <2>2. /\ phase = "closing" /\ phase' = (IF stopGps THEN "ended" ELSE "waiting") /\ waited' = 0
        /\ UNCHANGED <<stopGps, ages, line, clock>>
    BY <1>4 DEF Close, AfterAttempt, Await
  <2> QED
    BY <2>1, <2>2 DEF GpsTypeOK, LinesAreWhole, FreshWhenRead, NothingWithoutUart, ConnectionsBeginEmpty
<1>5. CASE Wait
  <2>1. /\ phase = "waiting" /\ phase' = (IF stopGps THEN "ended" ELSE "opening") /\ waited' = 0
        /\ UNCHANGED <<stopGps, gps, ages, line, clock>>
    BY <1>5 DEF Wait, Await
  <2> QED
    BY <2>1 DEF GpsTypeOK, LinesAreWhole, FreshWhenRead, NothingWithoutUart, ConnectionsBeginEmpty
<1>6. CASE ReadTimesOut
  BY <1>6, <1>t, ReadEnds DEF ReadTimesOut, LinesAreWhole
<1>7. CASE ReadPart
  <2>1. /\ phase = "reading" /\ UNCHANGED <<stopGps, delay, ages, clock>>
        /\ \E n \in 1 .. MaxLine :
             \/ /\ Await("closing") /\ line' = EmptyLine /\ gps' = TransportError(gps, TRUE, TRUE)
             \/ /\ Continue /\ line' = Buffered(line, n, FALSE) /\ gps' = Refreshed(gps, ages, clock)
    BY <1>7 DEF ReadPart
  <2>2. CASE Await("closing") /\ line' = EmptyLine /\ gps' = TransportError(gps, TRUE, TRUE)
    <3>1. gps' \in Published /\ ~gps'.nav /\ gps'.time # "GPS_TIME_VALID"
      BY <1>t, <2>2, TransportErrorFacts
    <3> QED
      BY <1>e, <2>1, <2>2, <3>1, AttemptFails DEF Await
  <2>3. ASSUME NEW n \in 1 .. MaxLine, Continue, line' = Buffered(line, n, FALSE), gps' = Refreshed(gps, ages, clock)
        PROVE  GpsInd'
    <3>0. /\ line.held \in Nat /\ line.sent \in Nat /\ line.discarding \in BOOLEAN /\ n \in Nat /\ n > 0 /\ MaxLine \in Nat
          /\ IF line.discarding THEN line.held = 0 /\ line.sent > MaxLine ELSE line.held = line.sent
      BY <1>t, Constants DEF Line, LinesAreWhole
    <3> DEFINE sent == IF line.sent + n > MaxLine THEN MaxLine + 1 ELSE line.sent + n
    <3>1. CASE line.discarding \/ line.held + n > MaxLine
      <4>1. line' = [held |-> 0, discarding |-> TRUE, sent |-> sent]
        BY <2>3, <3>1 DEF Buffered
      <4>2. sent = MaxLine + 1
        BY <3>0, <3>1
      <4>3. line' \in Line /\ LinesAreWhole'
        BY <3>0, <4>1, <4>2 DEF Line, LinesAreWhole
      <4> QED
        BY <1>t, <2>1, <2>3, <4>3, ReadEnds
    <3>2. CASE ~(line.discarding \/ line.held + n > MaxLine)
      <4>1. line' = [held |-> line.held + n, discarding |-> FALSE, sent |-> sent]
        BY <2>3, <3>2 DEF Buffered
      <4>2. sent = line.held + n
        BY <3>0, <3>2
      <4>3. line' \in Line /\ LinesAreWhole'
        BY <3>0, <4>1, <4>2 DEF Line, LinesAreWhole
      <4> QED
        BY <1>t, <2>1, <2>3, <4>3, ReadEnds
    <3> QED
      BY <3>1, <3>2
  <2> QED
    BY <2>1, <2>2, <2>3
<1>8. CASE ReadBadLine
  <2> DEFINE g == [gps EXCEPT !.state = IF gps.nav \/ Oversized(line, 1) THEN @ ELSE "RECEIVING_INVALID"]
  <2>1. g \in Published /\ g.connected = gps.connected
    BY <1>t DEF Published
  <2>2. /\ phase = "reading" /\ UNCHANGED <<stopGps, delay, ages, clock>> /\ line' = EmptyLine
        /\ \/ Continue /\ gps' = Refreshed(gps, ages, clock)
           \/ Await("closing") /\ gps' = TransportError(g, TRUE, TRUE)
           \/ Continue /\ gps' = Refreshed(g, ages, clock)
    BY <1>8 DEF ReadBadLine
  <2> HIDE DEF g
  <2>3. line' \in Line /\ LinesAreWhole'
    BY <1>e, <2>2 DEF LinesAreWhole
  <2>4. CASE Continue /\ gps' = Refreshed(gps, ages, clock)
    BY <1>t, <2>2, <2>3, <2>4, ReadEnds
  <2>5. CASE Await("closing") /\ gps' = TransportError(g, TRUE, TRUE)
    <3>1. gps' \in Published /\ ~gps'.nav /\ gps'.time # "GPS_TIME_VALID"
      BY <2>1, <2>5, TransportErrorFacts
    <3> QED
      BY <1>e, <2>2, <2>5, <3>1, AttemptFails DEF Await
  <2>6. CASE Continue /\ gps' = Refreshed(g, ages, clock)
    BY <1>t, <2>1, <2>2, <2>3, <2>6, ReadEnds
  <2> QED
    BY <2>2, <2>4, <2>5, <2>6
<1>9. CASE ReadSentence
  <2>1. PICK s \in Sentences :
          /\ ages' = [sentence |-> 0,
                      navigation |-> IF s.nav THEN 0 ELSE IF s.type = "ZDA" THEN ages.navigation ELSE Never]
          /\ clock' = Anchored(s)
          /\ gps' = Refreshed(Shown(s), ages', clock')
    BY <1>9 DEF ReadSentence
  <2>2. phase = "reading" /\ Continue /\ UNCHANGED stopGps /\ line' = EmptyLine
    BY <1>9 DEF ReadSentence
  <2>3. ages' \in [sentence : Age, navigation : Age]
    <3>1. ages.navigation \in Age /\ 0 \in Age /\ Never \in Age
      BY <1>t DEF Age
    <3> QED
      BY <2>1, <3>1
  <2>4. clock' \in Clock /\ (clock'.anchored => clock'.age \in Nat)
    <3>1. CASE s.utc = {}
      BY <1>t, <2>1, <3>1 DEF Anchored
    <3>2. CASE s.utc # {}
      <4>1. (CHOOSE o \in s.utc : TRUE) \in Int
        BY <3>2, Constants DEF Sentences, Rmc, Zda, Gga, Utc
      <4>2. clock' = Consider(clock, CHOOSE o \in s.utc : TRUE)
        BY <2>1, <3>2 DEF Anchored
      <4> QED
        BY <1>t, <4>1, <4>2, ConsiderFacts
    <3> QED
      BY <3>1, <3>2
  <2>5. Shown(s) \in Published /\ Shown(s).connected = gps.connected
    <3> DEFINE nav == s.nav \/ (s.type = "ZDA" /\ gps.nav)
               state == IF nav THEN "NAVIGATION_VALID"
                        ELSE IF s.utc # {} THEN "TIME_VALID_POSITION_INVALID" ELSE "RECEIVING_INVALID"
               timed == s.utc # {}
    <3>1. nav \in BOOLEAN /\ timed \in BOOLEAN
          /\ state \in {"NAVIGATION_VALID", "TIME_VALID_POSITION_INVALID", "RECEIVING_INVALID"}
      OBVIOUS
    <3>2. Shown(s) = [gps EXCEPT !.nav = nav, !.latestIsTime = timed, !.state = state]
      BY DEF Shown
    <3> HIDE DEF nav, state, timed
    <3> QED
      BY <1>t, <3>1, <3>2 DEF Published
  <2>6. line' \in Line /\ LinesAreWhole'
    BY <1>e, <2>2 DEF LinesAreWhole
  <2> QED
    BY <2>1, <2>2, <2>3, <2>4, <2>5, <2>6, ReadEnds
<1>10. CASE Tick
  <2>1. /\ waited < Limit /\ waited' = waited + 1 /\ UNCHANGED <<phase, stopGps, delay, gps, line>>
        /\ ages' = [sentence |-> Older(ages.sentence), navigation |-> Older(ages.navigation)]
        /\ clock' = [clock EXCEPT !.anchorAge = Older(@), !.age = Older(@)]
    BY <1>10 DEF Tick
  <2>2. ages' \in [sentence : Age, navigation : Age]
    BY <1>t, <2>1, OlderFacts
  <2>3. /\ ages'.navigation = Older(ages.navigation) /\ ages.navigation \in Age
    BY <1>t, <2>1
  <2>4. clock.age \in Age /\ clock.anchorAge \in Age /\ clock.anchorAge \in Nat
    BY <1>t DEF Clock, Age
  <2>5. /\ clock' \in Clock /\ clock'.anchored = clock.anchored /\ clock'.age = Older(clock.age)
    <3>1. Older(clock.age) \in Age /\ Older(clock.anchorAge) \in Nat
      BY <2>4, OlderFacts
    <3> QED
      BY <1>t, <2>1, <3>1 DEF Clock
  <2>6. clock'.anchored => clock'.age \in Nat
    BY <1>t, <2>4, <2>5, OlderFacts
  <2>7. waited \in Nat
    BY DEF GpsTypeOK
  <2>8. GpsTypeOK'
    BY <2>1, <2>2, <2>5, <2>6, <2>7 DEF GpsTypeOK
  <2>9. FreshWhenRead'
    <3> SUFFICES ASSUME phase = "reading"
                 PROVE  /\ waited + 1 <= ReadDeadline + Coalesce /\ gps.connected
                        /\ ~stopGps /\ gps.nav => ages'.navigation \in Nat /\ ages'.navigation <= StaleAfter + (waited + 1)
                        /\ ~stopGps /\ gps.time = "GPS_TIME_VALID"
                             => clock'.anchored /\ clock'.age <= StaleAfter + (waited + 1)
      BY <2>1 DEF FreshWhenRead
    <3>1. waited < ReadDeadline + Coalesce /\ gps.connected
      BY <2>1 DEF Limit, FreshWhenRead
    <3>2. ~stopGps /\ gps.nav => ages'.navigation \in Nat /\ ages'.navigation <= StaleAfter + (waited + 1)
      <4>1. ~stopGps /\ gps.nav => ages.navigation \in Nat /\ ages.navigation <= StaleAfter + waited
        BY DEF FreshWhenRead
      <4>2. ages.navigation \in Nat => ages'.navigation \in Nat /\ ages'.navigation <= ages.navigation + 1
        BY <2>3, OlderFacts
      <4> QED
        BY <2>7, <4>1, <4>2, Constants
    <3>3. ~stopGps /\ gps.time = "GPS_TIME_VALID" => clock'.anchored /\ clock'.age <= StaleAfter + (waited + 1)
      <4>1. ~stopGps /\ gps.time = "GPS_TIME_VALID" => clock.anchored /\ clock.age <= StaleAfter + waited /\ clock.age \in Nat
        BY <1>t DEF FreshWhenRead
      <4>2. clock.age \in Nat => clock'.age \in Nat /\ clock'.age <= clock.age + 1
        BY <2>4, <2>5, OlderFacts
      <4> QED
        BY <2>5, <2>7, <4>1, <4>2, Constants
    <3> QED
      BY <2>7, <3>1, <3>2, <3>3, Constants
  <2> QED
    BY <2>1, <2>8, <2>9 DEF LinesAreWhole, NothingWithoutUart, ConnectionsBeginEmpty
<1>11. CASE RequestStop
  BY <1>11 DEF RequestStop, GpsTypeOK, LinesAreWhole, FreshWhenRead, NothingWithoutUart, ConnectionsBeginEmpty
<1> QED
  BY <1>0, <1>1, <1>2, <1>3, <1>4, <1>5, <1>6, <1>7, <1>8, <1>9, <1>10, <1>11 DEF GpsNext

\* The inductive invariant holds in every state of the receiver.
LEMMA GpsInvariant == GpsSpec => []GpsInd
BY GpsBegins, GpsStep, PTL DEF GpsSpec

\* For every set of timeouts and every staleness bound: a position or a GPS time published
\* while the service runs rests on a sentence at most stale_after and one read old, and
\* no line is parsed but a whole one.
THEOREM GpsPublishesTruth == GpsSpec => []GpsInv
<1>1. GpsInd => GpsInv
  <2> SUFFICES ASSUME GpsInd, ~stopGps, phase # "ended" PROVE PublishedIsFresh
    BY DEF GpsInd, GpsInv, PublishedIsFresh
  <2>1. CASE phase = "reading"
    <3>1. /\ waited \in Nat /\ waited <= ReadDeadline + Coalesce /\ gps.connected
          /\ gps.nav => ages.navigation \in Nat /\ ages.navigation <= StaleAfter + waited
          /\ gps.time = "GPS_TIME_VALID" => clock.anchored /\ clock.age \in Nat /\ clock.age <= StaleAfter + waited
      BY <2>1 DEF GpsInd, GpsTypeOK, FreshWhenRead
    <3>2. gps.nav => ages.navigation \in 0 .. StaleAfter + ReadDeadline + Coalesce
      BY <3>1, Constants
    <3>3. gps.time = "GPS_TIME_VALID" => clock.anchored /\ clock.age \in 0 .. StaleAfter + ReadDeadline + Coalesce
      BY <3>1, Constants
    <3> QED
      BY <3>1, <3>2, <3>3 DEF PublishedIsFresh
  <2>2. CASE phase # "reading"
    BY <2>2 DEF GpsInd, GpsTypeOK, NothingWithoutUart, PublishedIsFresh
  <2> QED
    BY <2>1, <2>2
<1> QED
  BY <1>1, GpsInvariant, PTL

\* For every drift and reacquisition limit: no step gives the anchor up, moves it further than
\* the limit, or confirms it by evidence that disagrees with it.
THEOREM ClockKeepsItsAnchor == GpsSpec => AnchorSteady
<1>1. GpsInd /\ [GpsNext]_gpsVars =>
       [/\ clock.anchored => clock'.anchored /\ Distance(clock'.offset, clock.offset) <= MaxReacquire
        /\ clock'.latest # clock.latest => Distance(clock'.latest, clock'.offset) <= Allowed(clock')]_gpsVars
  <2> DEFINE Steady ==
        /\ clock.anchored => clock'.anchored /\ Distance(clock'.offset, clock.offset) <= MaxReacquire
        /\ clock'.latest # clock.latest => Distance(clock'.latest, clock'.offset) <= Allowed(clock')
  <2> SUFFICES ASSUME GpsInd, GpsNext PROVE Steady
    OBVIOUS
  <2>0. clock \in Clock /\ (clock.anchored => clock.age \in Nat) /\ clock.offset \in Int
    BY DEF GpsInd, GpsTypeOK, Clock
  <2>1. Distance(clock.offset, clock.offset) <= MaxReacquire
    BY <2>0, Constants DEF Distance
  <2>2. CASE UNCHANGED clock
    BY <2>1, <2>2
  <2>3. CASE Tick
    <3>1. clock'.anchored = clock.anchored /\ clock'.offset = clock.offset /\ clock'.latest = clock.latest
      BY <2>0, <2>3 DEF Tick, Clock
    <3> QED
      BY <2>1, <3>1
  <2>4. CASE ReadSentence
    <3>1. PICK s \in Sentences : clock' = Anchored(s)
      BY <2>4 DEF ReadSentence
    <3>2. CASE s.utc = {}
      BY <3>1, <3>2, <2>2 DEF Anchored
    <3>3. CASE s.utc # {}
      <4>1. (CHOOSE o \in s.utc : TRUE) \in Int
        BY <3>3, Constants DEF Sentences, Rmc, Zda, Gga, Utc
      <4>2. clock' = Consider(clock, CHOOSE o \in s.utc : TRUE)
        BY <3>1, <3>3 DEF Anchored
      <4> QED
        BY <2>0, <4>1, <4>2, ConsiderFacts
    <3> QED
      BY <3>2, <3>3
  <2>5. GpsNext => UNCHANGED clock \/ Tick \/ ReadSentence
    BY DEF GpsNext, Open, OpenFails, ReadFails, Close, Wait, ReadTimesOut, ReadPart, ReadBadLine, RequestStop
  <2> QED
    BY <2>2, <2>3, <2>4, <2>5
<1> QED
  BY <1>1, GpsInvariant, PTL DEF GpsSpec, AnchorSteady

-----------------------------------------------------------------------------
(* GpsTelemetry *)

\* The numbers among the constants.
LEMMA TelemetryNumbers ==
    /\ Day \in Nat \ {0} /\ HistoryCapacity \in Nat \ {0} /\ MaxClipSamples \in Nat \ {0}
    /\ MaxForward \in Nat /\ MinimumInterval \in Nat /\ FieldsStaleAfter \in Nat /\ MaxTime \in Nat
BY TelemetryConstants

\* A set of numbers that is not empty has a least one.
LEMMA LeastNumber ==
    ASSUME NEW Bad \in SUBSET Nat, Bad # {}
    PROVE  \E m \in Bad : \A n \in Bad : m <= n
<1>1. PICK m \in Bad : \A n \in Bad : ~(<<n, m>> \in OpToRel(<, Nat))
  BY NatLessThanWellFounded, WFMin
<1>2. \A x, y \in Nat : y < x => <<y, x>> \in OpToRel(<, Nat)
  BY DEF OpToRel
<1>3. \A n \in Bad : ~(n < m)
  BY <1>1, <1>2, Zenon
<1> QED
  BY <1>3

\* A sample, with -1 for a part that it lacks.
Samples == [at : Nat, motion : Nat \cup {-1}, fix : Nat \cup {-1}]

\* A sample that lies in a window.
Inside(s, from, to) == from <= s.at /\ s.at < to

\* One step of the selection.
Chosen(history, from, to, before, n) ==
  IF n = 0 THEN <<>>
  ELSE IF from <= history[n].at /\ history[n].at < to THEN Append(before, history[n])
  ELSE before

\* A function that makes the selection as far as m.
Selects(f, history, from, to, m) == f = [n \in 0 .. m |-> Chosen(history, from, to, f[n - 1], n)]

\* The function that Within describes exists.
LEMMA ChoiceExists ==
    ASSUME NEW history \in Seq(Samples), NEW from \in Int, NEW to \in Int
    PROVE  \E f : Selects(f, history, from, to, Len(history))
<1> DEFINE Bad == {m \in 0 .. Len(history) : ~ \E f : Selects(f, history, from, to, m)}
<1>0. Len(history) \in Nat
  BY LenProperties
<1>1. SUFFICES ASSUME Bad # {} PROVE FALSE
  BY <1>0
<1>2. PICK m \in Bad : \A n \in Bad : m <= n
  <2>1. Bad \in SUBSET Nat
    BY <1>0
  <2> HIDE DEF Bad
  <2> QED
    BY <1>1, <2>1, LeastNumber
<1>3. m \in 0 .. Len(history) /\ ~ \E f : Selects(f, history, from, to, m)
  BY <1>2
<1>4. CASE m = 0
  <2> DEFINE g == [n \in 0 .. 0 |-> <<>>]
  <2>1. g = [n \in 0 .. 0 |-> Chosen(history, from, to, g[n - 1], n)]
    BY DEF Chosen
  <2> QED
    BY <1>3, <1>4, <2>1 DEF Selects
<1>5. CASE m # 0
  <2>1. m - 1 \in 0 .. Len(history) /\ m - 1 \notin Bad /\ m \in Nat
    BY <1>0, <1>2, <1>3, <1>5
  <2>2. PICK f : Selects(f, history, from, to, m - 1)
    BY <2>1
  <2> DEFINE g == [n \in 0 .. m |-> IF n = m THEN Chosen(history, from, to, f[m - 1], m) ELSE f[n]]
  <2>3. \A n \in 0 .. m - 1 : f[n] = Chosen(history, from, to, f[n - 1], n)
    BY <2>2 DEF Selects
  <2>4. \A n \in 0 .. m : g[n] = Chosen(history, from, to, g[n - 1], n)
    <3> TAKE n \in 0 .. m
    <3>1. CASE n = m
      <4>1. g[n - 1] = f[n - 1]
        BY <1>3, <1>5, <3>1
      <4> QED
        BY <3>1, <4>1
    <3>2. CASE n = 0
      BY <1>3, <1>5, <2>3, <3>2 DEF Chosen
    <3>3. CASE n # m /\ n # 0
      <4>1. n \in 0 .. m - 1 /\ n - 1 \in 0 .. m /\ n - 1 # m
        BY <1>3, <3>3
      <4>2. g[n] = f[n] /\ g[n - 1] = f[n - 1]
        BY <3>3, <4>1
      <4> QED
        BY <2>3, <4>1, <4>2
    <3> QED
      BY <3>1, <3>2, <3>3
  <2>5. g = [n \in 0 .. m |-> g[n]]
    OBVIOUS
  <2> HIDE DEF g
  <2>6. Selects(g, history, from, to, m)
    BY <2>4, <2>5 DEF Selects
  <2> QED
    BY <1>3, <2>6
<1> QED
  BY <1>4, <1>5

\* What a selection as far as m consists of.
Selected(w, history, from, to, m) ==
  /\ w \in Seq(Samples)
  /\ \A k \in 1 .. Len(w) : \E i \in 1 .. m : w[k] = history[i] /\ Inside(history[i], from, to)
  /\ \A i \in 1 .. m : Inside(history[i], from, to) => \E k \in 1 .. Len(w) : w[k] = history[i]
  /\ \A k, l \in 1 .. Len(w) : k < l => w[k].at < w[l].at

\* A history holds its samples in the order of their receive times.
Ordered(history) == \A i, j \in 1 .. Len(history) : i < j => history[i].at < history[j].at

\* A selection is extended by one sample of the history.
LEMMA SelectionGrows ==
    ASSUME NEW history \in Seq(Samples), Ordered(history), NEW from \in Int, NEW to \in Int,
           NEW m \in 1 .. Len(history), NEW w, Selected(w, history, from, to, m - 1)
    PROVE  Selected(Chosen(history, from, to, w, m), history, from, to, m)
<1>0. Len(history) \in Nat /\ history[m] \in Samples /\ w \in Seq(Samples) /\ Len(w) \in Nat
  BY LenProperties, ElementOfSeq DEF Selected
<1>1. CASE ~Inside(history[m], from, to)
  <2>1. Chosen(history, from, to, w, m) = w
    BY <1>1 DEF Chosen, Inside
  <2>2. \A i \in 1 .. m : Inside(history[i], from, to) => i \in 1 .. m - 1
    BY <1>0, <1>1
  <2>3. 1 .. m - 1 \subseteq 1 .. m
    BY <1>0
  <2> QED
    BY <2>1, <2>2, <2>3 DEF Selected
<1>2. CASE Inside(history[m], from, to)
  <2> DEFINE v == Append(w, history[m])
  <2>1. Chosen(history, from, to, w, m) = v
    BY <1>2 DEF Chosen, Inside
  <2>2. /\ v \in Seq(Samples) /\ Len(v) = Len(w) + 1 /\ v[Len(w) + 1] = history[m]
        /\ \A k \in 1 .. Len(w) : v[k] = w[k]
    BY <1>0, AppendProperties
  <2> HIDE DEF v
  <2>3. \A k \in 1 .. Len(v) : \E i \in 1 .. m : v[k] = history[i] /\ Inside(history[i], from, to)
    <3> TAKE k \in 1 .. Len(v)
    <3>1. CASE k = Len(w) + 1
      BY <1>0, <1>2, <2>2, <3>1
    <3>2. CASE k \in 1 .. Len(w)
      BY <1>0, <2>2, <3>2 DEF Selected
    <3> QED
      BY <1>0, <2>2, <3>1, <3>2
  <2>4. \A i \in 1 .. m : Inside(history[i], from, to) => \E k \in 1 .. Len(v) : v[k] = history[i]
    <3> SUFFICES ASSUME NEW i \in 1 .. m, Inside(history[i], from, to)
                 PROVE  \E k \in 1 .. Len(v) : v[k] = history[i]
      OBVIOUS
    <3>1. CASE i = m
      BY <1>0, <2>2, <3>1
    <3>2. CASE i \in 1 .. m - 1
      <4>1. PICK k \in 1 .. Len(w) : w[k] = history[i]
        BY <3>2 DEF Selected
      <4> QED
        BY <1>0, <2>2, <4>1
    <3> QED
      BY <1>0, <3>1, <3>2
  <2>5. \A k, l \in 1 .. Len(v) : k < l => v[k].at < v[l].at
    <3> SUFFICES ASSUME NEW k \in 1 .. Len(v), NEW l \in 1 .. Len(v), k < l
                 PROVE  v[k].at < v[l].at
      OBVIOUS
    <3>1. k \in 1 .. Len(w)
      BY <1>0, <2>2
    <3>2. CASE l \in 1 .. Len(w)
      BY <2>2, <3>1, <3>2 DEF Selected
    <3>3. CASE l = Len(w) + 1
      <4>1. PICK i \in 1 .. m - 1 : w[k] = history[i]
        BY <3>1 DEF Selected
      <4>2. history[i].at < history[m].at
        BY <1>0 DEF Ordered
      <4> QED
        BY <2>2, <3>1, <3>3, <4>1, <4>2
    <3> QED
      BY <1>0, <2>2, <3>2, <3>3
  <2> QED
    BY <2>1, <2>2, <2>3, <2>4, <2>5 DEF Selected
<1> QED
  BY <1>1, <1>2

\* The samples of a window are those of the history that lie in it, in its order.
LEMMA WithinSelects ==
    ASSUME NEW history \in Seq(Samples), Ordered(history), NEW from \in Int, NEW to \in Int
    PROVE  Selected(Within(history, from, to), history, from, to, Len(history))
<1> DEFINE f == CHOOSE g : g = [n \in 0 .. Len(history) |-> Chosen(history, from, to, g[n - 1], n)]
           Bad == {m \in 0 .. Len(history) : ~Selected(f[m], history, from, to, m)}
<1>0. Len(history) \in Nat
  BY LenProperties
<1>1. f = [n \in 0 .. Len(history) |-> Chosen(history, from, to, f[n - 1], n)]
  BY ChoiceExists DEF Selects
<1>2. Within(history, from, to) = f[Len(history)]
  BY DEF Within, Chosen
<1> HIDE DEF f
<1>3. SUFFICES ASSUME Bad # {} PROVE FALSE
  BY <1>0, <1>2
<1>4. PICK m \in Bad : \A n \in Bad : m <= n
  <2>1. Bad \in SUBSET Nat
    BY <1>0
  <2> HIDE DEF Bad
  <2> QED
    BY <1>3, <2>1, LeastNumber
<1>5. m \in 0 .. Len(history) /\ ~Selected(f[m], history, from, to, m) /\ m \in Nat
  BY <1>0, <1>4
<1>6. f[m] = Chosen(history, from, to, f[m - 1], m)
  BY <1>1, <1>5
<1>7. CASE m = 0
  <2>1. f[0] = <<>>
    BY <1>6, <1>7 DEF Chosen
  <2>2. <<>> \in Seq(Samples) /\ Len(<<>>) = 0
    BY EmptySeq
  <2> QED
    BY <1>5, <1>7, <2>1, <2>2 DEF Selected
<1>8. CASE m # 0
  <2>1. m \in 1 .. Len(history) /\ m - 1 \in 0 .. Len(history) /\ m - 1 \notin Bad
    BY <1>0, <1>4, <1>5, <1>8
  <2>2. Selected(f[m - 1], history, from, to, m - 1)
    BY <2>1
  <2> QED
    BY <1>5, <1>6, <2>1, <2>2, SelectionGrows
<1> QED
  BY <1>7, <1>8

TelemetryTypeOK ==
  /\ now \in Nat /\ parts \in [motion : Nat \cup {-1}, fix : Nat \cup {-1}]
  /\ samples \in Seq(Samples) /\ evicted \in Nat \cup {-1} /\ emitted \subseteq Nat

\* Every retained sample was emitted, by now, after the one evicted last, of fields that belong together.
SamplesFit ==
  \A i \in 1 .. Len(samples) :
    /\ samples[i].at <= now /\ evicted < samples[i].at /\ samples[i].at \in emitted
    /\ Coherent(samples[i])

\* What was emitted is retained, or went before the mark of the history lost.
EmittedIsKept ==
  \A t \in emitted : t <= evicted \/ \E i \in 1 .. Len(samples) : samples[i].at = t

TelemetryInd ==
  /\ TelemetryTypeOK /\ Ordered(samples) /\ SamplesFit /\ EmittedIsKept
  /\ samples = <<>> => evicted = -1

\* The last sample of a history is the one with its length for an index.
LEMMA LastSample ==
    ASSUME TelemetryInd, samples # <<>>
    PROVE  /\ Len(samples) \in Nat \ {0} /\ Last(samples) = samples[Len(samples)]
           /\ Last(samples) \in Samples /\ Last(samples).at \in Nat
<1>1. samples \in Seq(Samples)
  BY DEF TelemetryInd, TelemetryTypeOK
<1>2. Len(samples) \in Nat \ {0}
  BY <1>1, EmptySeq, LenProperties
<1>3. samples[Len(samples)] \in Samples
  BY <1>1, <1>2, ElementOfSeq
<1> QED
  BY <1>2, <1>3 DEF Last, Samples

\* A sample is made of fields that were fresh at the same time.
LEMMA SampleFacts ==
    ASSUME NEW p \in [motion : Nat \cup {-1}, fix : Nat \cup {-1}], NEW at \in Nat, NEW other \in Nat
    PROVE  /\ Sample(p, at) \in Samples /\ Sample(p, at).at = at /\ Coherent(Sample(p, at))
           /\ [Sample(p, at) EXCEPT !.at = other] \in Samples
           /\ [Sample(p, at) EXCEPT !.at = other].at = other
           /\ Coherent([Sample(p, at) EXCEPT !.at = other])
<1> DEFINE m == IF Fresh(p.motion, at) THEN p.motion ELSE -1
           f == IF Fresh(p.fix, at) THEN p.fix ELSE -1
<1>1. Sample(p, at) = [at |-> at, motion |-> m, fix |-> f]
  BY DEF Sample
<1>2. m \in Nat \cup {-1} /\ f \in Nat \cup {-1}
  OBVIOUS
<1>3. m # -1 /\ f # -1 => m - f <= FieldsStaleAfter /\ f - m <= FieldsStaleAfter
  BY TelemetryNumbers DEF Fresh
<1> HIDE DEF m, f
<1>4. Coherent([at |-> at, motion |-> m, fix |-> f]) /\ Coherent([at |-> other, motion |-> m, fix |-> f])
  BY <1>3 DEF Coherent
<1>5. [Sample(p, at) EXCEPT !.at = other] = [at |-> other, motion |-> m, fix |-> f]
  BY <1>1
<1>6. [at |-> at, motion |-> m, fix |-> f] \in Samples /\ [at |-> other, motion |-> m, fix |-> f] \in Samples
  BY <1>2 DEF Samples
<1> QED
  BY <1>1, <1>4, <1>5, <1>6

\* _append: the history stays in order, and what it drops is marked.
LEMMA AppendKeeps ==
    ASSUME TelemetryInd, NEW s \in Samples, s.at = now, Coherent(s),
           samples # <<>> => Last(samples).at # now,
           AppendSample(s), emitted' = emitted \cup {now}, UNCHANGED now,
           parts' \in [motion : Nat \cup {-1}, fix : Nat \cup {-1}]
    PROVE  TelemetryInd'
<1> DEFINE n == Len(samples)
           kept == IF n = HistoryCapacity THEN Tail(samples) ELSE samples
           k == Len(kept)
<1>0. /\ samples \in Seq(Samples) /\ n \in Nat /\ now \in Nat /\ evicted \in Nat \cup {-1} /\ emitted \subseteq Nat
      /\ \A i \in 1 .. n : samples[i] \in Samples /\ samples[i].at \in Nat
  <2>1. /\ samples \in Seq(Samples) /\ now \in Nat /\ evicted \in Nat \cup {-1} /\ emitted \subseteq Nat
    BY DEF TelemetryInd, TelemetryTypeOK
  <2>2. n \in Nat /\ \A i \in 1 .. n : samples[i] \in Samples
    BY <2>1, LenProperties, ElementOfSeq
  <2>3. \A r \in Samples : r.at \in Nat
    BY DEF Samples
  <2> QED
    BY <2>1, <2>2, <2>3
<1>1. \A i \in 1 .. n : samples[i].at < now
  <2> SUFFICES ASSUME NEW i \in 1 .. n PROVE samples[i].at < now
    OBVIOUS
  <2>1. samples # <<>>
    BY <1>0, EmptySeq
  <2>2. samples[n].at < now
    BY <1>0, <2>1, LastSample DEF TelemetryInd, SamplesFit
  <2>3. i = n \/ samples[i].at < samples[n].at
    BY <1>0 DEF TelemetryInd, Ordered
  <2> QED
    BY <1>0, <2>2, <2>3
<1>2. samples' = Append(kept, s)
  BY DEF AppendSample
<1>3. /\ kept \in Seq(Samples) /\ k \in Nat
      /\ n = HistoryCapacity => /\ n > 0 /\ k = n - 1 /\ \A i \in 1 .. k : kept[i] = samples[i + 1]
                              /\ evicted' = samples[1].at
      /\ n # HistoryCapacity => kept = samples /\ k = n /\ evicted' = evicted
  <2>1. CASE n = HistoryCapacity
    <3>1. samples # <<>>
      BY <2>1, EmptySeq, TelemetryNumbers
    <3>2. /\ Tail(samples) \in Seq(Samples) /\ Len(Tail(samples)) = n - 1
          /\ \A i \in 1 .. n - 1 : Tail(samples)[i] = samples[i + 1]
          /\ Head(samples) = samples[1]
      BY <1>0, <3>1, HeadTailProperties
    <3>3. evicted' = Head(samples).at
      BY <2>1 DEF AppendSample
    <3> QED
      BY <1>0, <2>1, <3>2, <3>3, TelemetryNumbers
  <2>2. CASE n # HistoryCapacity
    BY <1>0, <2>2 DEF AppendSample
  <2> QED
    BY <2>1, <2>2
<1>4. evicted' \in Nat \cup {-1} /\ evicted' < now
  <2>1. CASE n = HistoryCapacity
    BY <1>0, <1>1, <1>3, <2>1
  <2>2. CASE n # HistoryCapacity /\ n > 0
    BY <1>0, <1>1, <1>3, <2>2 DEF TelemetryInd, SamplesFit
  <2>3. CASE n # HistoryCapacity /\ n = 0
    BY <1>0, <1>3, <2>3, EmptySeq DEF TelemetryInd
  <2> QED
    BY <1>0, <2>1, <2>2, <2>3
<1>5. /\ samples' \in Seq(Samples) /\ Len(samples') = k + 1 /\ samples'[k + 1] = s
      /\ \A i \in 1 .. k : samples'[i] = kept[i]
  BY <1>2, <1>3, AppendProperties
<1> HIDE DEF kept, k
<1>6. \A i \in 1 .. k : \E j \in 1 .. n : samples'[i] = samples[j] /\ evicted' < samples[j].at
  <2> SUFFICES ASSUME NEW i \in 1 .. k
               PROVE  \E j \in 1 .. n : samples'[i] = samples[j] /\ evicted' < samples[j].at
    OBVIOUS
  <2>1. CASE n = HistoryCapacity
    <3>1. i + 1 \in 1 .. n /\ 1 \in 1 .. n /\ 1 < i + 1
      BY <1>0, <1>3, <2>1
    <3>2. samples[1].at < samples[i + 1].at
      BY <3>1 DEF TelemetryInd, Ordered
    <3> QED
      BY <1>3, <1>5, <2>1, <3>1, <3>2
  <2>2. CASE n # HistoryCapacity
    BY <1>3, <1>5, <2>2 DEF TelemetryInd, SamplesFit
  <2> QED
    BY <2>1, <2>2
<1>7. TelemetryTypeOK'
  BY <1>0, <1>4, <1>5 DEF TelemetryTypeOK
<1>8. Ordered(samples)'
  <2> SUFFICES ASSUME NEW i \in 1 .. k + 1, NEW j \in 1 .. k + 1, i < j
               PROVE  samples'[i].at < samples'[j].at
    BY <1>5 DEF Ordered
  <2>1. i \in 1 .. k
    BY <1>3
  <2>2. CASE j = k + 1
    BY <1>1, <1>5, <1>6, <2>1, <2>2
  <2>3. CASE j \in 1 .. k /\ n = HistoryCapacity
    <3>1. i + 1 \in 1 .. n /\ j + 1 \in 1 .. n /\ i + 1 < j + 1
      BY <1>0, <1>3, <2>1, <2>3
    <3>2. samples[i + 1].at < samples[j + 1].at
      BY <3>1 DEF TelemetryInd, Ordered
    <3> QED
      BY <1>3, <1>5, <2>1, <2>3, <3>2
  <2>4. CASE j \in 1 .. k /\ n # HistoryCapacity
    BY <1>3, <1>5, <2>1, <2>4 DEF TelemetryInd, Ordered
  <2> QED
    BY <1>3, <2>2, <2>3, <2>4
<1>9. SamplesFit'
  <2> SUFFICES ASSUME NEW i \in 1 .. k + 1
               PROVE  /\ samples'[i].at <= now /\ evicted' < samples'[i].at /\ samples'[i].at \in emitted \cup {now}
                      /\ Coherent(samples'[i])
    BY <1>5 DEF SamplesFit, Coherent
  <2>1. CASE i = k + 1
    BY <1>0, <1>4, <1>5, <2>1
  <2>2. CASE i \in 1 .. k
    <3>1. PICK j \in 1 .. n : samples'[i] = samples[j] /\ evicted' < samples[j].at
      BY <1>6, <2>2
    <3> QED
      BY <3>1 DEF TelemetryInd, SamplesFit
  <2> QED
    BY <1>3, <2>1, <2>2
<1>10. EmittedIsKept'
  <2> SUFFICES ASSUME NEW t \in emitted \cup {now}
               PROVE  t <= evicted' \/ \E i \in 1 .. k + 1 : samples'[i].at = t
    BY <1>5 DEF EmittedIsKept
  <2>1. CASE t = now
    BY <1>3, <1>5, <2>1
  <2>2. CASE t \in emitted /\ t <= evicted
    <3>1. evicted <= evicted'
      <4>1. CASE n = HistoryCapacity
        <5>1. 1 \in 1 .. n /\ evicted < samples[1].at /\ samples[1].at \in Nat
          BY <1>0, <1>3, <4>1 DEF TelemetryInd, SamplesFit
        <5> QED
          BY <1>0, <1>3, <4>1, <5>1
      <4> QED
        BY <1>0, <1>3, <4>1
    <3>2. evicted \in Int /\ evicted' \in Int /\ t \in Int
      BY <1>0, <1>4
    <3> QED
      BY <2>2, <3>1, <3>2
  <2>3. ASSUME NEW j \in 1 .. n, samples[j].at = t PROVE t <= evicted' \/ \E i \in 1 .. k + 1 : samples'[i].at = t
    <3>1. CASE n # HistoryCapacity
      BY <1>0, <1>3, <1>5, <2>3, <3>1
    <3>2. CASE n = HistoryCapacity /\ j = 1
      BY <1>0, <1>3, <2>3, <3>2
    <3>3. CASE n = HistoryCapacity /\ j # 1
      <4>1. j - 1 \in 1 .. k /\ samples'[j - 1] = samples[j] /\ j - 1 \in 1 .. k + 1
        <5>1. j - 1 \in 1 .. k /\ (j - 1) + 1 = j /\ j - 1 \in 1 .. k + 1
          BY <1>0, <1>3, <3>3
        <5>2. kept[j - 1] = samples[(j - 1) + 1]
          BY <1>3, <3>3, <5>1
        <5> QED
          BY <1>5, <5>1, <5>2
      <4> QED
        BY <2>3, <4>1
    <3> QED
      BY <3>1, <3>2, <3>3
  <2> QED
    BY <2>1, <2>2, <2>3 DEF TelemetryInd, EmittedIsKept
<1> QED
  BY <1>3, <1>5, <1>7, <1>8, <1>9, <1>10, EmptySeq DEF TelemetryInd

\* A sentence of the instant of the last sample completes it.
LEMMA AmendKeeps ==
    ASSUME TelemetryInd, samples # <<>>, NEW s \in Samples, s.at = Last(samples).at, Coherent(s), Amend(s),
           UNCHANGED now, parts' \in [motion : Nat \cup {-1}, fix : Nat \cup {-1}]
    PROVE  TelemetryInd'
<1> DEFINE n == Len(samples)
<1>0. /\ samples \in Seq(Samples) /\ n \in Nat \ {0} /\ s.at = samples[n].at
      /\ \A i \in 1 .. n : samples[i] \in Samples
  BY LastSample, ElementOfSeq DEF TelemetryInd, TelemetryTypeOK
<1>1. /\ samples' \in Seq(Samples) /\ Len(samples') = n
      /\ \A i \in 1 .. n : samples'[i] = IF i = n THEN s ELSE samples[i]
  <2>1. samples' = [samples EXCEPT ![n] = s]
    BY DEF Amend
  <2> QED
    BY <1>0, <2>1, ExceptSeq
<1> HIDE DEF n
<1>2. \A i \in 1 .. n : samples'[i].at = samples[i].at
  BY <1>0, <1>1
<1>3. UNCHANGED <<now, evicted, emitted>>
  BY DEF Amend
<1>4. TelemetryTypeOK'
  BY <1>1, <1>3 DEF TelemetryInd, TelemetryTypeOK
<1>5. Ordered(samples)'
  BY <1>1, <1>2 DEF TelemetryInd, Ordered, n
<1>6. SamplesFit'
  <2> SUFFICES ASSUME NEW i \in 1 .. n
               PROVE  /\ samples'[i].at <= now /\ evicted < samples'[i].at /\ samples'[i].at \in emitted
                      /\ Coherent(samples'[i])
    BY <1>1, <1>3 DEF SamplesFit, Coherent
  <2> QED
    BY <1>1, <1>2 DEF TelemetryInd, SamplesFit, n
<1>7. EmittedIsKept'
  BY <1>1, <1>2, <1>3 DEF TelemetryInd, EmittedIsKept, n
<1> QED
  BY <1>0, <1>1, <1>4, <1>5, <1>6, <1>7, EmptySeq DEF TelemetryInd

\* The history begins empty.
LEMMA TelemetryBegins == TelemetryInit => TelemetryInd
<1> SUFFICES ASSUME TelemetryInit PROVE TelemetryInd
  OBVIOUS
<1>1. samples = <<>> /\ samples \in Seq(Samples) /\ Len(samples) = 0
  BY EmptySeq DEF TelemetryInit
<1>2. parts \in [motion : Nat \cup {-1}, fix : Nat \cup {-1}]
  BY DEF TelemetryInit
<1> QED
  BY <1>1, <1>2 DEF TelemetryInit, TelemetryInd, TelemetryTypeOK, Ordered, SamplesFit, EmittedIsKept

\* Every sentence and every unit of time keeps the history in order and its losses marked.
LEMMA TelemetryStep ==
    ASSUME TelemetryInd, [TelemetryNext]_telemetryVars
    PROVE  TelemetryInd'
<1>0. now \in Nat /\ parts \in [motion : Nat \cup {-1}, fix : Nat \cup {-1}]
  BY DEF TelemetryInd, TelemetryTypeOK
<1>1. CASE UNCHANGED telemetryVars
  BY <1>1 DEF telemetryVars, TelemetryInd, TelemetryTypeOK, Ordered, SamplesFit, Coherent, EmittedIsKept
<1>2. CASE Elapse
  <2>1. now' = now + 1 /\ now' \in Nat /\ UNCHANGED <<parts, samples, lastEpoch, evicted, emitted>>
    BY <1>0, <1>2 DEF Elapse
  <2>2. \A i \in 1 .. Len(samples) : samples[i].at <= now => samples[i].at <= now'
    <3> SUFFICES ASSUME NEW i \in 1 .. Len(samples), samples[i].at <= now PROVE samples[i].at <= now'
      OBVIOUS
    <3>1. samples[i] \in Samples
      BY ElementOfSeq DEF TelemetryInd, TelemetryTypeOK
    <3> QED
      BY <1>0, <2>1, <3>1 DEF Samples
  <2>3. SamplesFit'
    BY <2>1, <2>2 DEF TelemetryInd, SamplesFit, Coherent
  <2> QED
    BY <2>1, <2>3 DEF TelemetryInd, TelemetryTypeOK, Ordered, EmittedIsKept
<1>3. ASSUME NEW type \in {"RMC", "GGA"}, NEW valid \in BOOLEAN, NEW epoch \in -1 .. Day - 1,
             Observe(type, valid, epoch)
      PROVE  TelemetryInd'
  <2> DEFINE p == Observed(type, valid)
  <2>1. p \in [motion : Nat \cup {-1}, fix : Nat \cup {-1}]
    BY <1>0 DEF Observed
  <2>2. /\ parts' = p /\ UNCHANGED now
        /\ \/ SameInstant(epoch) /\ Amend(Sample(p, Last(samples).at))
           \/ SameInstant(epoch) /\ Amend([Sample(p, now) EXCEPT !.at = Last(samples).at])
           \/ Keep
           \/ ~SameInstant(epoch) /\ AppendSample(Sample(p, now)) /\ emitted' = emitted \cup {now}
    BY <1>3 DEF Observe
  <2> HIDE DEF p
  <2>3. CASE SameInstant(epoch) /\ Amend(Sample(p, Last(samples).at))
    <3>1. samples # <<>> /\ Last(samples).at \in Nat
      BY <2>3, LastSample DEF SameInstant
    <3> QED
      BY <2>1, <2>2, <2>3, <3>1, SampleFacts, AmendKeeps
  <2>4. CASE SameInstant(epoch) /\ Amend([Sample(p, now) EXCEPT !.at = Last(samples).at])
    <3>1. samples # <<>> /\ Last(samples).at \in Nat
      BY <2>4, LastSample DEF SameInstant
    <3> DEFINE s == [Sample(p, now) EXCEPT !.at = Last(samples).at]
    <3>2. s \in Samples /\ s.at = Last(samples).at /\ Coherent(s) /\ Amend(s)
      BY <1>0, <2>1, <2>4, <3>1, SampleFacts
    <3> HIDE DEF s
    <3> QED
      BY <2>1, <2>2, <3>1, <3>2, AmendKeeps
  <2>5. CASE Keep
    BY <2>1, <2>2, <2>5
       DEF Keep, TelemetryInd, TelemetryTypeOK, Ordered, SamplesFit, Coherent, EmittedIsKept
  <2>6. CASE ~SameInstant(epoch) /\ AppendSample(Sample(p, now)) /\ emitted' = emitted \cup {now}
    <3>1. samples # <<>> => Last(samples).at # now
      BY <2>6 DEF SameInstant
    <3> QED
      BY <1>0, <2>1, <2>2, <2>6, <3>1, SampleFacts, AppendKeeps
  <2> QED
    BY <2>2, <2>3, <2>4, <2>5, <2>6
<1> QED
  BY <1>1, <1>2, <1>3 DEF TelemetryNext

\* What the history guarantees is what its windows say.
LEMMA WindowsFollow == TelemetryInd => WindowsTruthful
<1> SUFFICES ASSUME TelemetryInd, NEW from \in 0 .. MaxTime, NEW to \in from + 1 .. MaxTime + 1
             PROVE  LET w == Window(from, to)
                    IN /\ w.complete => {w.samples[i].at : i \in DOMAIN w.samples} = {t \in emitted : from <= t /\ t < to}
                       /\ \A i, j \in DOMAIN w.samples : i < j => w.samples[i].at < w.samples[j].at
                       /\ \A i \in DOMAIN w.samples : Coherent(w.samples[i])
  BY DEF WindowsTruthful
<1> DEFINE all == Within(samples, from, to)
           size == IF Len(all) > MaxClipSamples THEN MaxClipSamples ELSE Len(all)
           shown == SubSeq(all, 1, size)
           complete == ~(evicted # -1 /\ from <= evicted) /\ Len(all) <= MaxClipSamples
<1>0. from \in Nat /\ to \in Nat /\ samples \in Seq(Samples) /\ Ordered(samples)
  BY TelemetryNumbers DEF TelemetryInd, TelemetryTypeOK
<1>1. Selected(all, samples, from, to, Len(samples))
  BY <1>0, WithinSelects
<1> HIDE DEF all
<1>2. all \in Seq(Samples) /\ Len(all) \in Nat
  BY <1>1, LenProperties DEF Selected
<1>3. /\ size \in Nat /\ size <= Len(all)
      /\ Len(all) <= MaxClipSamples => size = Len(all)
  BY <1>2, TelemetryNumbers
<1> HIDE DEF size
<1>4. /\ DOMAIN shown = 1 .. size
      /\ \A i \in 1 .. size : shown[i] = all[i] /\ i \in 1 .. Len(all)
  <2>1. shown \in Seq(Samples) /\ Len(shown) = size /\ \A i \in 1 .. size : shown[i] = all[i]
    BY <1>2, <1>3, SubSeqProperties
  <2> QED
    BY <1>2, <1>3, <2>1, LenProperties
<1> HIDE DEF shown
<1>5. \A i, j \in DOMAIN shown : i < j => shown[i].at < shown[j].at
  BY <1>1, <1>4 DEF Selected
<1>6. \A i \in DOMAIN shown : Coherent(shown[i])
  <2> SUFFICES ASSUME NEW i \in DOMAIN shown PROVE Coherent(shown[i])
    OBVIOUS
  <2>1. PICK j \in 1 .. Len(samples) : all[i] = samples[j]
    BY <1>1, <1>4 DEF Selected
  <2> QED
    BY <1>4, <2>1 DEF TelemetryInd, SamplesFit
<1>7. ASSUME complete
      PROVE  {shown[i].at : i \in DOMAIN shown} = {t \in emitted : from <= t /\ t < to}
  <2>1. size = Len(all)
    BY <1>3, <1>7
  <2>2. ASSUME NEW i \in DOMAIN shown
        PROVE  shown[i].at \in {t \in emitted : from <= t /\ t < to}
    <3>1. PICK j \in 1 .. Len(samples) : all[i] = samples[j] /\ Inside(samples[j], from, to)
      BY <1>1, <1>4 DEF Selected
    <3> QED
      BY <1>4, <3>1 DEF TelemetryInd, SamplesFit, Inside
  <2>3. ASSUME NEW t \in emitted, from <= t, t < to
        PROVE  \E i \in DOMAIN shown : shown[i].at = t
    <3>1. ~(t <= evicted)
      BY <1>0, <1>7, <2>3 DEF TelemetryInd, TelemetryTypeOK
    <3>2. PICK j \in 1 .. Len(samples) : samples[j].at = t
      BY <3>1 DEF TelemetryInd, EmittedIsKept
    <3>3. PICK i \in 1 .. Len(all) : all[i] = samples[j]
      BY <1>1, <2>3, <3>2 DEF Selected, Inside
    <3> QED
      BY <1>4, <2>1, <3>2, <3>3
  <2> QED
    BY <2>2, <2>3
<1>8. Window(from, to) = [samples |-> shown, complete |-> complete]
  BY DEF Window, all, size, shown
<1> HIDE DEF complete
<1> QED
  BY <1>5, <1>6, <1>7, <1>8

\* A window that reports no issue is complete, in order, and of fields that belong
\* together, for every capacity of the history, every limit of a clip and every
\* length of the receiver's day (gps/telemetry.py).
THEOREM WindowsAreTruthful == TelemetrySpec => []WindowsTruthful
<1>1. TelemetryInit => TelemetryInd
  BY TelemetryBegins
<1>2. TelemetryInd /\ [TelemetryNext]_telemetryVars => TelemetryInd'
  BY TelemetryStep
<1>3. TelemetryInd => WindowsTruthful
  BY WindowsFollow
<1> QED
  BY <1>1, <1>2, <1>3, PTL DEF TelemetrySpec

-----------------------------------------------------------------------------
(* MetadataPass *)

\* Multiplication by a positive number keeps the order.
LEMMA TimesMonotone ==
    ASSUME NEW d \in Nat \ {0}, NEW m \in Int, NEW n \in Int
    PROVE  /\ d * m \in Int
           /\ m <= n => d * m <= d * n
           /\ d * m < d * n + d => m <= n
<1>1. d * m \in Int /\ d * n \in Int
  OBVIOUS
<1>2. m <= n => d * m <= d * n
  <2> SUFFICES ASSUME m <= n PROVE d * m <= d * n
    OBVIOUS
  <2>1. PICK k \in Nat : n = m + k
    <3>1. n - m \in Nat /\ n = m + (n - m)
      OBVIOUS
    <3> QED
      BY <3>1
  <2>2. d * n = d * m + d * k
    BY <2>1
  <2>3. d * k \in Nat
    OBVIOUS
  <2> QED
    BY <1>1, <2>2, <2>3
<1>3. d * m < d * n + d => m <= n
  <2> SUFFICES ASSUME m > n PROVE ~(d * m < d * n + d)
    OBVIOUS
  <2>1. PICK k \in Nat : m = n + 1 + k
    <3>1. m - n - 1 \in Nat /\ m = n + 1 + (m - n - 1)
      OBVIOUS
    <3> QED
      BY <3>1
  <2>2. d * m = d * n + d + d * k
    BY <2>1
  <2>3. d * k \in Nat
    OBVIOUS
  <2> QED
    BY <1>1, <2>2, <2>3
<1> QED
  BY <1>1, <1>2, <1>3

\* Truncation to a multiple.
LEMMA Truncated ==
    ASSUME NEW d \in Nat \ {0}, NEW x \in Int
    PROVE  x \div d \in Int /\ (x \div d) * d = d * (x \div d) /\ d * (x \div d) <= x /\ x < d * (x \div d) + d
OBVIOUS

\* The numbers among the constants.
LEMMA MetadataNumbers ==
    /\ Micro \in Nat \ {0} /\ Milli \in Nat \ {0} /\ Milli % Micro = 0 /\ Rounding \in Nat /\ Rounding >= Milli
    /\ Utcs \subseteq Int /\ MaxTracked \in Nat /\ NClips \in Nat
    /\ \A u \in Utcs : u % Micro = 0
    /\ \A d \in Durations : d \in Nat /\ d >= Milli
<1>1. \A d \in Durations : d \in Nat /\ ~(d \in 0 .. Milli - 1)
  BY MetadataConstants
<1> QED
  BY <1>1, MetadataConstants

\* An anchor has whole microseconds.
LEMMA UtcIsWhole == ASSUME NEW u \in Utcs PROVE u \in Int /\ u % Micro = 0
BY MetadataNumbers

\* A clip lasts a millisecond at least.
LEMMA ClipLasts == ASSUME NEW d \in Durations PROVE d \in Nat /\ d >= Milli
BY MetadataNumbers

\* A multiple has no remainder.
LEMMA Divides ==
    ASSUME NEW d \in Nat \ {0}, NEW x \in Int, x % d = 0
    PROVE  x = d * (x \div d) /\ x \div d \in Int
OBVIOUS

\* CanonicalMillisecond is a multiple of the millisecond, at most one below its argument, and monotone.
LEMMA CanonicalFacts ==
    ASSUME NEW x \in Int, NEW y \in Int
    PROVE  /\ CanonicalMillisecond(x) \in Int
           /\ CanonicalMillisecond(x) <= x /\ x < CanonicalMillisecond(x) + Milli
           /\ x <= y => CanonicalMillisecond(x) <= CanonicalMillisecond(y)
<1>1. /\ x \div Milli \in Int /\ CanonicalMillisecond(x) = Milli * (x \div Milli)
      /\ Milli * (x \div Milli) <= x /\ x < Milli * (x \div Milli) + Milli
  BY MetadataNumbers, Truncated DEF CanonicalMillisecond
<1>2. /\ y \div Milli \in Int /\ CanonicalMillisecond(y) = Milli * (y \div Milli)
      /\ Milli * (y \div Milli) <= y /\ y < Milli * (y \div Milli) + Milli
  BY MetadataNumbers, Truncated DEF CanonicalMillisecond
<1> DEFINE a == x \div Milli
           b == y \div Milli
<1>3. Milli * a \in Int /\ Milli * b \in Int
  BY <1>1, <1>2, MetadataNumbers, TimesMonotone
<1>4. a \in Int /\ b \in Int
  BY <1>1, <1>2
<1> HIDE DEF a, b
<1>5. x <= y => Milli * a <= Milli * b
  <2> SUFFICES ASSUME x <= y PROVE Milli * a <= Milli * b
    OBVIOUS
  <2>1. Milli * a < Milli * b + Milli
    BY <1>1, <1>2, <1>3, MetadataNumbers DEF a, b
  <2> QED
    BY <1>4, <2>1, MetadataNumbers, TimesMonotone
<1> QED
  BY <1>1, <1>2, <1>3, <1>5 DEF a, b

\* The truncation to the microsecond is lost in the one to the millisecond, since an anchor
\* has whole microseconds and a millisecond is a number of them.
LEMMA MicrosecondsVanish ==
    ASSUME NEW u \in Int, u % Micro = 0, NEW y \in Int
    PROVE  CanonicalMillisecond(u + (y \div Micro) * Micro) = CanonicalMillisecond(u + y)
<1> DEFINE w == y \div Micro
           v == u \div Micro
           r == Milli \div Micro
           x == u + w * Micro
           q == (u + y) \div Milli
           p == x \div Milli
<1>1. w \in Int /\ w * Micro = Micro * w /\ Micro * w <= y /\ y < Micro * w + Micro /\ Micro * w \in Int
  BY MetadataNumbers, Truncated, TimesMonotone
<1>2. v \in Int /\ u = Micro * v /\ r \in Int /\ Milli = Micro * r
  BY MetadataNumbers, Divides
<1>3. x \in Int /\ x <= u + y
  BY <1>1
<1>4. q \in Int /\ Milli * q <= u + y /\ u + y < Milli * q + Milli /\ Milli * q \in Int /\ q * Milli = Milli * q
  BY MetadataNumbers, Truncated, TimesMonotone
<1>5. p \in Int /\ Milli * p <= x /\ x < Milli * p + Milli /\ Milli * p \in Int /\ p * Milli = Milli * p
  BY <1>3, MetadataNumbers, Truncated, TimesMonotone
<1>6. CanonicalMillisecond(x) = Milli * p /\ CanonicalMillisecond(u + y) = Milli * q
  BY <1>4, <1>5 DEF CanonicalMillisecond
<1>7. x = u + Micro * w
  BY <1>1
<1> HIDE DEF w, v, r, x, q, p
<1>8. Milli * q <= x
  <2>1. Milli * q = Micro * (r * q) /\ r * q \in Int
    BY <1>2, <1>4, MetadataNumbers
  <2> DEFINE n == r * q - v
  <2>2. n \in Int /\ Micro * n = Milli * q - u
    BY <1>2, <2>1, MetadataNumbers
  <2> HIDE DEF n
  <2>3. Micro * n < Micro * w + Micro
    BY <1>1, <1>4, <2>2, MetadataNumbers
  <2>4. Micro * n <= Micro * w
    BY <1>1, <2>2, <2>3, MetadataNumbers, TimesMonotone
  <2> QED
    BY <1>1, <1>4, <1>7, <2>2, <2>4
<1>9. q <= p
  <2>1. Milli * q < Milli * p + Milli
    BY <1>3, <1>4, <1>5, <1>8, MetadataNumbers
  <2> QED
    BY <1>4, <1>5, <2>1, MetadataNumbers, TimesMonotone
<1>10. p <= q
  <2>1. Milli * p < Milli * q + Milli
    BY <1>3, <1>4, <1>5, MetadataNumbers
  <2> QED
    BY <1>4, <1>5, <2>1, MetadataNumbers, TimesMonotone
<1>11. p = q
  BY <1>4, <1>5, <1>9, <1>10
<1> QED
  BY <1>6, <1>11 DEF x, w

\* The projection of an interval of at least a millisecond satisfies the schema.
LEMMA ProjectionIsValid ==
    ASSUME NEW c \in Clip, clips[c].start \in Int, clips[c].length \in Durations,
           NEW a, a.utc \in Utcs, a.mono \in Int
    PROVE  /\ SidecarValid(c, Projected(c, a))
           /\ Projected(c, a) \in [start : Int, end : Int, sample : Int]
<1> DEFINE s == a.utc + (clips[c].start - a.mono)
           l == clips[c].length
           at(t) == CanonicalMillisecond(ProjectUtc(a, t))
<1>1. /\ s \in Int /\ l \in Nat /\ l >= Milli /\ Milli \in Nat \ {0} /\ Rounding \in Nat /\ Rounding >= Milli
  <2>1. a.utc \in Int /\ l \in Nat /\ l >= Milli
    BY UtcIsWhole, ClipLasts
  <2> QED
    BY <2>1, MetadataNumbers
<1>2. \A t \in Int : at(t) = CanonicalMillisecond(a.utc + (t - a.mono))
  <2> TAKE t \in Int
  <2>1. a.utc \in Int /\ a.utc % Micro = 0 /\ t - a.mono \in Int
    BY UtcIsWhole
  <2> QED
    BY <2>1, MicrosecondsVanish DEF ProjectUtc
<1> DEFINE b == CanonicalMillisecond(s)
           e == CanonicalMillisecond(s + l)
           m == CanonicalMillisecond(s + l - 1)
<1> DEFINE k == clips[c].start + l
           j == clips[c].start + l - 1
<1>3. at(clips[c].start) = b /\ at(k) = e /\ at(j) = m
  <2>1. clips[c].start \in Int /\ k \in Int /\ j \in Int /\ a.utc \in Int /\ l \in Int
    <3>1. a.utc \in Int /\ l \in Int
      BY <1>1, UtcIsWhole
    <3> QED
      BY <3>1
  <2>2. a.utc + (k - a.mono) = s + l /\ a.utc + (j - a.mono) = s + l - 1
    BY <2>1
  <2> HIDE DEF at, s, l, k, j
  <2>3. at(clips[c].start) = CanonicalMillisecond(a.utc + (clips[c].start - a.mono))
    BY <1>2, <2>1
  <2>4. at(k) = CanonicalMillisecond(a.utc + (k - a.mono)) /\ at(j) = CanonicalMillisecond(a.utc + (j - a.mono))
    BY <1>2, <2>1
  <2> QED
    BY <2>2, <2>3, <2>4 DEF s
<1>4. Projected(c, a) = [start |-> b, end |-> e, sample |-> m]
  <2>1. Projected(c, a) = [start |-> at(clips[c].start), end |-> at(k), sample |-> at(j)]
    BY DEF Projected
  <2> HIDE DEF at, b, e, m, l, k, j
  <2> QED
    BY <1>3, <2>1
<1> HIDE DEF s, at, k, j
<1>5. b \in Int /\ b <= s /\ s < b + Milli
  BY <1>1, CanonicalFacts
<1>6. e \in Int /\ e <= s + l /\ s + l < e + Milli
  BY <1>1, CanonicalFacts
<1>7. m \in Int /\ b <= m /\ m <= e
  <2>1. s + l - 1 \in Int /\ s + l \in Int /\ s <= s + l - 1 /\ s + l - 1 <= s + l
    BY <1>1
  <2> QED
    BY <1>1, <2>1, CanonicalFacts
<1> HIDE DEF b, e, m
<1>8. b < e /\ (e - b) - l \in (0 - Rounding) .. Rounding /\ m \in b .. e
  BY <1>1, <1>5, <1>6, <1>7
<1> QED
  BY <1>4, <1>5, <1>6, <1>7, <1>8 DEF SidecarValid

\* The civil times of a name.
Civil == [start : Int, end : Int, sample : Int]

\* A clip as the pass sees it.
NamingClip == [state : {"writing", "closing", "provisional", "named"}, start : Int, length : Durations,
         leased : BOOLEAN, busy : {"no", "rename", "other"},
         sidecar : {"sound", "torn", "misfit", "restyled", "foreign"}, civil : Civil]
Passes == [by : {"nobody", "scan", "loop"}, anchor : [mono : Int, utc : Int], page : SUBSET Clip, full : BOOLEAN,
           attempts : Nat, doing : Clip \cup {0}]

MetadataTypeOK ==
  /\ clips \in [Clip -> NamingClip]
  /\ anchor \in [mono : Int, utc : Int] /\ accepted \in SUBSET [mono : Int, utc : Utcs]
  /\ pass \in Passes
  /\ known \in [retries : [Clip -> Nat], parked : SUBSET Clip]

\* The anchors in use are accepted ones.
AnchorFits ==
  /\ Synced => anchor \in accepted
  /\ pass.by # "nobody" => pass.anchor \in accepted

\* The clips of a pass are provisional and each is taken once.
PassFits ==
  /\ \A c \in pass.page : pass.by = "loop" /\ clips[c].state = "provisional"
  /\ pass.doing # 0 => pass.by = "loop" /\ clips[pass.doing].state = "provisional" /\ pass.doing \notin pass.page

\* A clip that has a name, or one prepared.
Prepared(k) == k.state = "named" \/ k.busy = "rename" \/ (k.state = "closing" /\ k.civil # NoCivil)

\* Every name, given or prepared, is by one anchor that was accepted, and an intent renames
\* a clip that has none.
PlansFit ==
  /\ \A c \in Clip : Prepared(clips[c]) => \E a \in accepted : clips[c].civil = Projected(c, a)
  /\ \A c \in Clip : clips[c].busy = "rename" => clips[c].state = "provisional"

\* Inductive: types, the anchors in use, the clips of the pass, the names and the tables.
MetadataInd == MetadataTypeOK /\ AnchorFits /\ PassFits /\ PlansFit /\ TablesBounded

\* The clips are finitely many, and so is every set of them.
LEMMA FewClips ==
    ASSUME NEW S \in SUBSET Clip
    PROVE  IsFiniteSet(S) /\ Cardinality(S) \in Nat
<1>1. IsFiniteSet(Clip)
  BY MetadataNumbers, FS_Interval DEF Clip
<1> QED
  BY <1>1, FS_Subset, FS_CardinalityType

\* A set of clips that is not empty has a least one.
LEMMA LeastIsIn ==
    ASSUME NEW S \in SUBSET Clip, S # {}
    PROVE  Least(S) \in S
<1>1. S \in SUBSET Nat
  BY MetadataNumbers DEF Clip
<1>2. \E m \in S : \A n \in S : m <= n
  BY <1>1, LeastNumber
<1> QED
  BY <1>2 DEF Least

\* What a clip must be for an accepted anchor to name it.
LEMMA NamedClipFits ==
    ASSUME MetadataInd, NEW a \in accepted, NEW c \in Clip
    PROVE  SidecarValid(c, Projected(c, a)) /\ Projected(c, a) \in Civil
<1>1. /\ clips[c].start \in Int /\ clips[c].length \in Durations /\ a.utc \in Utcs /\ a.mono \in Int
  BY DEF MetadataInd, MetadataTypeOK, NamingClip
<1> QED
  BY <1>1, ProjectionIsValid DEF Civil

\* A clip that stays as long as it was is projected to the same times.
LEMMA SameProjection ==
    ASSUME NEW c \in Clip, clips'[c].start = clips[c].start, clips'[c].length = clips[c].length, NEW a
    PROVE  Projected(c, a)' = Projected(c, a)
BY DEF Projected, ProjectUtc, CanonicalMillisecond

\* A change of one clip that leaves its interval alone, and names it by an accepted anchor if at all.
LEMMA ClipChanges ==
    ASSUME MetadataInd, NEW c \in Clip, NEW k \in NamingClip, clips' = [clips EXCEPT ![c] = k],
           k.start = clips[c].start, k.length = clips[c].length, UNCHANGED accepted,
           k.busy = "rename" => k.state = "provisional",
           Prepared(k) => \/ Prepared(clips[c]) /\ k.civil = clips[c].civil
                          \/ \E a \in accepted : k.civil = Projected(c, a)
    PROVE  /\ clips' \in [Clip -> NamingClip] /\ PlansFit'
           /\ \A b \in Clip : clips'[b] = IF b = c THEN k ELSE clips[b]
<1>1. clips' \in [Clip -> NamingClip] /\ \A b \in Clip : clips'[b] = IF b = c THEN k ELSE clips[b]
  BY DEF MetadataInd, MetadataTypeOK
<1>2. \A b \in Clip : \A a \in accepted : Projected(b, a)' = Projected(b, a)
  <2> TAKE b \in Clip
  <2> TAKE a \in accepted
  <2>1. clips'[b].start = clips[b].start /\ clips'[b].length = clips[b].length
    BY <1>1
  <2> QED
    BY <2>1, SameProjection
<1>3. ASSUME NEW b \in Clip, Prepared(clips'[b])
      PROVE  \E a \in accepted : clips'[b].civil = Projected(b, a)
  <2>1. CASE b # c \/ (Prepared(clips[c]) /\ k.civil = clips[c].civil)
    <3>1. Prepared(clips[b]) /\ clips'[b].civil = clips[b].civil
      BY <1>1, <1>3, <2>1
    <3> QED
      BY <3>1 DEF MetadataInd, PlansFit
  <2>2. CASE b = c /\ ~(Prepared(clips[c]) /\ k.civil = clips[c].civil)
    BY <1>1, <1>3, <2>2
  <2> QED
    BY <2>1, <2>2
<1>4. ASSUME NEW b \in Clip, Prepared(clips[b])'
      PROVE  (\E a \in accepted : clips[b].civil = Projected(b, a))'
  <2>1. Prepared(clips'[b])
    BY <1>4 DEF Prepared, NoCivil
  <2>2. PICK a \in accepted : clips'[b].civil = Projected(b, a)
    BY <1>3, <2>1
  <2> QED
    BY <1>2, <2>2
<1>5. \A b \in Clip : clips'[b].busy = "rename" => clips'[b].state = "provisional"
  BY <1>1 DEF MetadataInd, PlansFit
<1> QED
  BY <1>1, <1>4, <1>5 DEF PlansFit

\* _record_metadata_reconciliation_failure inserts into a table only what it has room for.
LEMMA RecordedFacts ==
    ASSUME MetadataInd, NEW c \in Clip, NEW retryable \in BOOLEAN, known' = Recorded(c, retryable)
    PROVE  known' \in [retries : [Clip -> Nat], parked : SUBSET Clip] /\ TablesBounded'
<1> DEFINE n == known.retries[c] + 1
<1>0. /\ known \in [retries : [Clip -> Nat], parked : SUBSET Clip] /\ n \in Nat /\ MaxTracked \in Nat
      /\ Cardinality(Tracked) <= MaxTracked /\ Cardinality(known.parked) <= MaxTracked
      /\ Tracked \in SUBSET Clip /\ known.parked \in SUBSET Clip
  BY MetadataNumbers DEF MetadataInd, MetadataTypeOK, TablesBounded, Tracked
<1>1. /\ IsFiniteSet(Tracked) /\ Cardinality(Tracked) \in Nat
      /\ IsFiniteSet(known.parked) /\ Cardinality(known.parked) \in Nat
  BY <1>0, FewClips
<1>2. /\ Cardinality(Tracked \cup {c}) <= Cardinality(Tracked) + 1
      /\ Cardinality(known.parked \cup {c}) <= Cardinality(known.parked) + 1
      /\ IsFiniteSet(Tracked \cup {c}) /\ Cardinality(Tracked \cup {c}) \in Nat
      /\ Cardinality(known.parked \cup {c}) \in Nat
  <2>1. ASSUME NEW S, IsFiniteSet(S), Cardinality(S) \in Nat
        PROVE  /\ IsFiniteSet(S \cup {c}) /\ Cardinality(S \cup {c}) \in Nat
               /\ Cardinality(S \cup {c}) <= Cardinality(S) + 1
    <3>1. /\ IsFiniteSet(S \cup {c})
          /\ Cardinality(S \cup {c}) = Cardinality(S) \/ Cardinality(S \cup {c}) = Cardinality(S) + 1
      BY <2>1, FS_AddElement
    <3> QED
      BY <2>1, <3>1
  <2> QED
    BY <1>1, <2>1
<1> HIDE DEF n
<1>3. CASE known' = known
  BY <1>0, <1>3 DEF TablesBounded, Tracked
<1>4. CASE Cardinality(Tracked) < MaxTracked /\ known' = [known EXCEPT !.retries[c] = n]
  <2>1. /\ known' \in [retries : [Clip -> Nat], parked : SUBSET Clip] /\ known'.parked = known.parked
        /\ \A b \in Clip : b # c => known'.retries[b] = known.retries[b]
    BY <1>0, <1>4
  <2>2. Tracked' \subseteq Tracked \cup {c}
    BY <2>1 DEF Tracked
  <2>3. Cardinality(Tracked') <= Cardinality(Tracked \cup {c}) /\ Cardinality(Tracked') \in Nat
    BY <1>2, <2>2, FS_Subset, FS_CardinalityType
  <2>4. Cardinality(Tracked') <= MaxTracked
    BY <1>0, <1>1, <1>2, <1>4, <2>3
  <2> QED
    BY <1>0, <2>1, <2>4 DEF TablesBounded
<1>5. CASE known' = [known EXCEPT !.retries[c] = 0,
                                  !.parked = IF Cardinality(@) < MaxTracked THEN @ \cup {c} ELSE @]
  <2> DEFINE p == IF Cardinality(known.parked) < MaxTracked THEN known.parked \cup {c} ELSE known.parked
  <2>1. p \in SUBSET Clip /\ Cardinality(p) <= MaxTracked
    BY <1>0, <1>1, <1>2
  <2>2. known' = [known EXCEPT !.retries[c] = 0, !.parked = p]
    BY <1>5
  <2> HIDE DEF p
  <2>3. /\ known' \in [retries : [Clip -> Nat], parked : SUBSET Clip] /\ known'.parked = p
        /\ \A b \in Clip : b # c => known'.retries[b] = known.retries[b]
        /\ known'.retries[c] = 0
    <3> DEFINE r == [known.retries EXCEPT ![c] = 0]
    <3>1. r \in [Clip -> Nat] /\ r[c] = 0 /\ \A b \in Clip : b # c => r[b] = known.retries[b]
      BY <1>0
    <3>2. known' = [retries |-> r, parked |-> p]
      BY <1>0, <2>2
    <3> HIDE DEF r
    <3> QED
      BY <2>1, <3>1, <3>2
  <2>4. Tracked' \subseteq Tracked
    BY <2>3 DEF Tracked
  <2>5. Cardinality(Tracked') <= Cardinality(Tracked) /\ Cardinality(Tracked') \in Nat
    BY <1>1, <2>4, FS_Subset, FS_CardinalityType
  <2>6. Cardinality(Tracked') <= MaxTracked
    BY <1>0, <1>1, <2>5
  <2> QED
    BY <2>1, <2>3, <2>6 DEF TablesBounded
<1> QED
  BY <1>3, <1>4, <1>5 DEF Recorded, n

\* Nothing is named and nothing tracked at first.
LEMMA MetadataBegins == MetadataInit => MetadataInd
<1> SUFFICES ASSUME MetadataInit PROVE MetadataInd
  OBVIOUS
<1>1. clips \in [Clip -> NamingClip] /\ \A c \in Clip : clips[c].state = "writing" /\ clips[c].busy = "no"
  <2>1. PICK d \in [Clip -> Durations] :
          clips = [c \in Clip |-> [state |-> "writing", start |-> 5 * c, length |-> d[c],
                                   leased |-> FALSE, busy |-> "no", sidecar |-> "sound", civil |-> NoCivil]]
    BY DEF MetadataInit
  <2>2. \A c \in Clip : 5 * c \in Int /\ NoCivil \in Civil
    BY MetadataNumbers DEF Clip, NoCivil, Civil
  <2> QED
    BY <2>1, <2>2 DEF NamingClip
<1>2. known \in [retries : [Clip -> Nat], parked : SUBSET Clip] /\ Tracked = {} /\ known.parked = {}
  BY DEF MetadataInit, Tracked
<1>3. Cardinality({}) = 0
  BY FS_EmptySet
<1>4. TablesBounded
  BY <1>2, <1>3, MetadataNumbers DEF TablesBounded
<1>5. PlansFit
  BY <1>1 DEF PlansFit, Prepared
<1> QED
  BY <1>1, <1>2, <1>4, <1>5
     DEF MetadataInit, MetadataInd, MetadataTypeOK, AnchorFits, PassFits, Synced, NoAnchor, NoPass, Passes

\* What the pass does beside the coordinator leaves the clips alone and keeps it fit.
LEMMA PassKeeps ==
    ASSUME MetadataInd, BeginPass \/ ScanCandidates \/ NextCandidate \/ EndPass \/ ReconcileRefused
    PROVE  pass' \in Passes /\ AnchorFits' /\ PassFits'
<1>0. /\ pass \in Passes /\ 0 \notin Clip /\ anchor \in [mono : Int, utc : Int]
  BY MetadataNumbers DEF MetadataInd, MetadataTypeOK, Clip
<1>1. UNCHANGED <<clips, anchor, accepted>> /\ (Synced => anchor \in accepted)'
  BY DEF BeginPass, ScanCandidates, NextCandidate, EndPass, ReconcileRefused, MetadataInd, AnchorFits, Synced
<1>2. CASE pass' = NoPass
  BY <1>1, <1>2 DEF NoPass, NoAnchor, Passes, AnchorFits, PassFits
<1>3. CASE BeginPass
  <2>1. pass' = [NoPass EXCEPT !.by = "scan", !.anchor = anchor] /\ anchor \in accepted
    BY <1>3 DEF BeginPass, MetadataInd, AnchorFits
  <2>2. pass' = [by |-> "scan", anchor |-> anchor, page |-> {}, full |-> FALSE, attempts |-> 0, doing |-> 0]
    BY <2>1 DEF NoPass
  <2>3. /\ pass' \in Passes /\ pass'.anchor = anchor /\ pass'.page = {} /\ pass'.doing = 0
    BY <1>0, <2>2 DEF Passes
  <2> QED
    BY <1>1, <2>1, <2>3 DEF AnchorFits, PassFits
<1>4. CASE ScanCandidates /\ pass' # NoPass
  <2> DEFINE page == FirstOf(Candidates, Page)
             full == Cardinality(page) = Page
  <2>1. page \in SUBSET Clip /\ full \in BOOLEAN /\ \A c \in page : clips[c].state = "provisional"
    BY DEF FirstOf, Candidates
  <2>2. pass' = [pass EXCEPT !.by = "loop", !.page = page, !.full = full]
    BY <1>4 DEF ScanCandidates, Paged
  <2>3. pass.by = "scan" /\ pass.anchor \in accepted /\ pass.doing = 0
    BY <1>4 DEF ScanCandidates, MetadataInd, AnchorFits, PassFits
  <2> HIDE DEF page, full
  <2>4. pass' \in Passes /\ pass'.page = page /\ pass'.by = "loop" /\ pass'.doing = 0 /\ pass'.anchor = pass.anchor
    BY <1>0, <2>1, <2>2, <2>3 DEF Passes
  <2> QED
    BY <1>1, <2>1, <2>3, <2>4 DEF AnchorFits, PassFits
<1>5. CASE NextCandidate
  <2> DEFINE c == Least(pass.page)
  <2>1. c \in pass.page /\ c \in Clip /\ pass.by = "loop" /\ pass.doing = 0
    BY <1>0, <1>5, LeastIsIn DEF NextCandidate, Passes
  <2>2. \/ pass' = [pass EXCEPT !.page = @ \ {c}]
        \/ pass' = [pass EXCEPT !.page = @ \ {c}, !.doing = c, !.attempts = @ + 1]
    BY <1>5 DEF NextCandidate
  <2>3. clips[c].state = "provisional" /\ pass.anchor \in accepted /\ \A b \in pass.page : clips[b].state = "provisional"
    BY <2>1 DEF MetadataInd, PassFits, AnchorFits
  <2> HIDE DEF c
  <2>4. /\ pass' \in Passes /\ pass'.by = "loop" /\ pass'.anchor = pass.anchor /\ pass'.page = pass.page \ {c}
        /\ pass'.doing \in {0, c}
    <3>1. /\ pass.attempts + 1 \in Nat /\ pass.page \ {c} \in SUBSET Clip /\ c \in Clip \cup {0}
      BY <1>0, <2>1 DEF Passes
    <3>2. CASE pass' = [pass EXCEPT !.page = @ \ {c}]
      BY <1>0, <2>1, <3>1, <3>2 DEF Passes
    <3>3. CASE pass' = [pass EXCEPT !.page = @ \ {c}, !.doing = c, !.attempts = @ + 1]
      <4> DEFINE n == pass.attempts + 1
                 q == pass.page \ {c}
      <4>1. pass' = [pass EXCEPT !.page = q, !.doing = c, !.attempts = n]
        BY <3>3
      <4>2. n \in Nat /\ q \in SUBSET Clip
        BY <3>1
      <4> HIDE DEF n, q
      <4>3. pass' \in Passes /\ pass'.by = "loop" /\ pass'.anchor = pass.anchor /\ pass'.page = q /\ pass'.doing = c
        BY <1>0, <2>1, <3>1, <4>1, <4>2 DEF Passes
      <4> QED
        BY <4>3 DEF q
    <3> QED
      BY <2>2, <3>2, <3>3
  <2> QED
    BY <1>0, <1>1, <2>1, <2>3, <2>4 DEF AnchorFits, PassFits
<1>6. CASE ReconcileRefused
  <2>1. pass' = [pass EXCEPT !.doing = 0]
    BY <1>6 DEF ReconcileRefused
  <2>2. /\ pass' \in Passes /\ pass'.by = pass.by /\ pass'.anchor = pass.anchor /\ pass'.page = pass.page
        /\ pass'.doing = 0
    BY <1>0, <2>1 DEF Passes
  <2> QED
    BY <1>1, <2>2 DEF AnchorFits, PassFits, MetadataInd
<1> QED
  BY <1>2, <1>3, <1>4, <1>5, <1>6 DEF EndPass

\* Only a pass that has an anchor tries a clip, and what fails before the intent leaves it alone.
LEMMA PassSteps ==
    ASSUME MetadataInd, BeginPass \/ ScanCandidates \/ NextCandidate \/ EndPass \/ ReconcileRefused
    PROVE  MetadataInd'
<1>1. UNCHANGED <<clips, anchor, accepted>>
  BY DEF BeginPass, ScanCandidates, NextCandidate, EndPass, ReconcileRefused
<1>2. PlansFit'
  BY <1>1 DEF MetadataInd, PlansFit, Prepared, NoCivil, Projected, ProjectUtc, CanonicalMillisecond
<1>3. known' \in [retries : [Clip -> Nat], parked : SUBSET Clip] /\ TablesBounded'
  <2>1. CASE UNCHANGED known
    BY <2>1 DEF MetadataInd, MetadataTypeOK, TablesBounded, Tracked
  <2>2. CASE ReconcileRefused
    <3>1. PICK retryable \in Refusals(pass.doing) : known' = Recorded(pass.doing, retryable)
      BY <2>2 DEF ReconcileRefused
    <3>2. retryable \in BOOLEAN /\ pass.doing \in Clip
      BY <2>2, <3>1 DEF Refusals, ReconcileRefused, MetadataInd, MetadataTypeOK, Passes
    <3> QED
      BY <3>1, <3>2, RecordedFacts
  <2> QED
    BY <2>1, <2>2 DEF BeginPass, ScanCandidates, NextCandidate, EndPass
<1> QED
  BY <1>1, <1>2, <1>3, PassKeeps DEF MetadataInd, MetadataTypeOK

\* What the coordinator writes of the clip of the pass is by an accepted anchor.
LEMMA NamingFits ==
    ASSUME MetadataInd, pass.doing # 0
    PROVE  /\ pass.doing \in Clip /\ Naming(pass.doing) \in Civil
           /\ \E a \in accepted : Naming(pass.doing) = Projected(pass.doing, a)
<1>1. pass.doing \in Clip /\ pass.anchor \in accepted /\ clips[pass.doing] \in NamingClip
  BY DEF MetadataInd, MetadataTypeOK, Passes, PassFits, AnchorFits
<1>2. CASE clips[pass.doing].busy = "rename"
  BY <1>1, <1>2 DEF Naming, MetadataInd, PlansFit, Prepared, NamingClip
<1>3. CASE clips[pass.doing].busy # "rename"
  BY <1>1, <1>3, NamedClipFits DEF Naming
<1> QED
  BY <1>1, <1>2, <1>3

\* The coordinator is done with the clip of the pass.
LEMMA PassGoesOn ==
    ASSUME MetadataInd, pass.doing # 0, pass' = [pass EXCEPT !.doing = 0], UNCHANGED <<anchor, accepted>>,
           NEW k, \A b \in Clip : clips'[b] = IF b = pass.doing THEN k ELSE clips[b]
    PROVE  pass' \in Passes /\ AnchorFits' /\ PassFits'
<1>1. /\ pass' \in Passes /\ pass'.by = pass.by /\ pass'.anchor = pass.anchor /\ pass'.page = pass.page
      /\ pass'.doing = 0 /\ pass.page \in SUBSET Clip
  BY DEF MetadataInd, MetadataTypeOK, Passes
<1> QED
  BY <1>1 DEF MetadataInd, AnchorFits, PassFits, Synced

\* The coordinator names the clip of the pass, or leaves the intent for later.
LEMMA CoordinatorSteps ==
    ASSUME MetadataInd, ReconcileClip \/ ApplyIncomplete
    PROVE  MetadataInd'
<1> DEFINE c == pass.doing
           n == Naming(c)
<1>0. /\ c \in Clip /\ n \in Civil /\ pass' = [pass EXCEPT !.doing = 0] /\ clips[c] \in NamingClip /\ c # 0
      /\ \E a \in accepted : n = Projected(c, a)
      /\ UNCHANGED <<anchor, accepted>> /\ clips[c].state = "provisional" /\ clips \in [Clip -> NamingClip]
  BY NamingFits DEF MetadataInd, MetadataTypeOK, PassFits, ReconcileClip, ApplyIncomplete
<1>1. ASSUME NEW k, k = [clips[c] EXCEPT !.state = "named", !.busy = "no", !.civil = n]
                     \/ k = [clips[c] EXCEPT !.busy = "rename", !.civil = n],
             clips' = [clips EXCEPT ![c] = k]
      PROVE  clips' \in [Clip -> NamingClip] /\ PlansFit' /\ pass' \in Passes /\ AnchorFits' /\ PassFits'
  <2> HIDE DEF n
  <2>1. /\ k \in NamingClip /\ k.start = clips[c].start /\ k.length = clips[c].length /\ k.civil = n
        /\ k.busy = "rename" => k.state = "provisional"
    BY <1>0, <1>1 DEF NamingClip
  <2> HIDE DEF c
  <2>2. /\ clips' \in [Clip -> NamingClip] /\ PlansFit'
        /\ \A b \in Clip : clips'[b] = IF b = c THEN k ELSE clips[b]
    BY <1>0, <1>1, <2>1, ClipChanges
  <2> QED
    BY <1>0, <2>2, PassGoesOn DEF c
<1>2. CASE ReconcileClip
  <2>1. clips' = [clips EXCEPT ![c].state = "named", ![c].busy = "no", ![c].civil = n]
    BY <1>2 DEF ReconcileClip
  <2>2. known' = [known EXCEPT !.retries[c] = 0]
    BY <1>2 DEF ReconcileClip
  <2> HIDE DEF n
  <2> DEFINE k == [clips[c] EXCEPT !.state = "named", !.busy = "no", !.civil = n]
  <2>3. clips' = [clips EXCEPT ![c] = k]
    BY <1>0, <2>1
  <2>4. clips' \in [Clip -> NamingClip] /\ PlansFit' /\ pass' \in Passes /\ AnchorFits' /\ PassFits'
    BY <1>1, <2>3 DEF n
  <2>7. known' \in [retries : [Clip -> Nat], parked : SUBSET Clip] /\ TablesBounded'
    <3>1. /\ known \in [retries : [Clip -> Nat], parked : SUBSET Clip]
          /\ Cardinality(Tracked) <= MaxTracked /\ Cardinality(known.parked) <= MaxTracked
          /\ Tracked \in SUBSET Clip
      BY DEF MetadataInd, MetadataTypeOK, TablesBounded, Tracked
    <3> HIDE DEF c
    <3>2. /\ known' \in [retries : [Clip -> Nat], parked : SUBSET Clip] /\ known'.parked = known.parked
          /\ \A b \in Clip : b # c => known'.retries[b] = known.retries[b]
          /\ known'.retries[c] = 0
      BY <1>0, <2>2, <3>1
    <3>3. Tracked' \subseteq Tracked
      BY <3>2 DEF Tracked
    <3>4. Cardinality(Tracked') <= Cardinality(Tracked) /\ Cardinality(Tracked') \in Nat /\ Cardinality(Tracked) \in Nat
      BY <3>1, <3>3, FewClips, FS_Subset, FS_CardinalityType
    <3>5. Cardinality(Tracked') <= MaxTracked
      BY <3>1, <3>4, MetadataNumbers
    <3> QED
      BY <3>1, <3>2, <3>5 DEF TablesBounded
  <2> QED
    BY <1>0, <2>4, <2>7 DEF MetadataInd, MetadataTypeOK
<1>3. CASE ApplyIncomplete
  <2>1. clips' = [clips EXCEPT ![c].busy = "rename", ![c].civil = n]
    BY <1>3 DEF ApplyIncomplete
  <2>2. PICK problems \in BOOLEAN : known' = Recorded(c, ~problems)
    BY <1>3 DEF ApplyIncomplete
  <2> HIDE DEF n
  <2> DEFINE k == [clips[c] EXCEPT !.busy = "rename", !.civil = n]
  <2>3. clips' = [clips EXCEPT ![c] = k]
    BY <1>0, <2>1
  <2>4. clips' \in [Clip -> NamingClip] /\ PlansFit' /\ pass' \in Passes /\ AnchorFits' /\ PassFits'
    BY <1>1, <2>3 DEF n
  <2>6. known' \in [retries : [Clip -> Nat], parked : SUBSET Clip] /\ TablesBounded'
    <3>1. (~problems) \in BOOLEAN
      OBVIOUS
    <3> QED
      BY <1>0, <2>2, <3>1, RecordedFacts
  <2> QED
    BY <1>0, <2>4, <2>6 DEF MetadataInd, MetadataTypeOK
<1> QED
  BY <1>2, <1>3

\* A change of a clip that no pass is at, or that stays provisional, leaves the pass as it is.
LEMMA PassUnmoved ==
    ASSUME MetadataInd, NEW c \in Clip, NEW k \in NamingClip, UNCHANGED <<anchor, accepted, pass, known>>,
           clips' = [clips EXCEPT ![c] = k], k.start = clips[c].start, k.length = clips[c].length,
           clips[c].state # "provisional" \/ k.state = "provisional",
           k.busy = "rename" => k.state = "provisional",
           Prepared(k) => \/ Prepared(clips[c]) /\ k.civil = clips[c].civil
                          \/ \E a \in accepted : k.civil = Projected(c, a)
    PROVE  MetadataInd'
<1>1. /\ clips' \in [Clip -> NamingClip] /\ PlansFit'
      /\ \A b \in Clip : clips'[b] = IF b = c THEN k ELSE clips[b]
  BY ClipChanges
<1>2. PassFits'
  <2>1. pass.page \in SUBSET Clip /\ pass.doing \in Clip \cup {0}
    BY DEF MetadataInd, MetadataTypeOK, Passes
  <2> QED
    BY <1>1, <2>1 DEF MetadataInd, PassFits
<1> QED
  BY <1>1, <1>2 DEF MetadataInd, MetadataTypeOK, AnchorFits, Synced, TablesBounded, Tracked

\* A clip that is closed, claimed, given back or spoilt keeps its name, or gets its first.
LEMMA ClipSteps ==
    ASSUME MetadataInd, ProjectNext \/ FinalizeNext \/ Claimed \/ Disclaimed \/ SpoilSidecar
    PROVE  MetadataInd'
<1>0. UNCHANGED <<anchor, accepted, pass, known>> /\ clips \in [Clip -> NamingClip]
  BY DEF MetadataInd, MetadataTypeOK, ProjectNext, FinalizeNext, Claimed, Disclaimed, SpoilSidecar
<1>1. CASE ProjectNext
  <2>1. PICK c \in Clip : /\ clips[c].state = "writing"
                          /\ clips' = [clips EXCEPT ![c].state = "closing", ![c].civil = CloseTimeAnchor(c)]
    BY <1>1 DEF ProjectNext
  <2> DEFINE n == CloseTimeAnchor(c)
             k == [clips[c] EXCEPT !.state = "closing", !.civil = n]
  <2>2. n \in Civil /\ (n # NoCivil => \E a \in accepted : n = Projected(c, a))
    <3>1. NoCivil \in Civil
      BY DEF NoCivil, Civil
    <3>2. Synced => anchor \in accepted
      BY DEF MetadataInd, AnchorFits
    <3> QED
      BY <3>1, <3>2, NamedClipFits DEF CloseTimeAnchor
  <2>3. clips[c] \in NamingClip /\ clips[c].busy # "rename"
    BY <1>0, <2>1 DEF MetadataInd, PlansFit
  <2>4. clips' = [clips EXCEPT ![c] = k]
    BY <1>0, <2>1
  <2> HIDE DEF n
  <2>5. /\ k \in NamingClip /\ k.start = clips[c].start /\ k.length = clips[c].length /\ k.state = "closing"
        /\ k.civil = n /\ k.busy = clips[c].busy
    BY <2>2, <2>3 DEF NamingClip
  <2> HIDE DEF k
  <2>6. Prepared(k) => \E a \in accepted : k.civil = Projected(c, a)
    BY <2>2, <2>3, <2>5 DEF Prepared
  <2> QED
    BY <1>0, <2>1, <2>3, <2>4, <2>5, <2>6, PassUnmoved
<1>2. CASE FinalizeNext
  <2>1. PICK c \in Clip :
          /\ clips[c].state = "closing"
          /\ clips' = [clips EXCEPT ![c].state = IF clips[c].civil = NoCivil THEN "provisional" ELSE "named"]
    BY <1>2 DEF FinalizeNext
  <2> DEFINE k == [clips[c] EXCEPT !.state = IF clips[c].civil = NoCivil THEN "provisional" ELSE "named"]
  <2>2. clips[c] \in NamingClip /\ clips[c].busy # "rename"
    BY <1>0, <2>1 DEF MetadataInd, PlansFit
  <2>3. clips' = [clips EXCEPT ![c] = k]
    BY <1>0, <2>1
  <2>4. /\ k \in NamingClip /\ k.start = clips[c].start /\ k.length = clips[c].length
        /\ k.civil = clips[c].civil /\ k.busy = clips[c].busy
        /\ k.state = IF clips[c].civil = NoCivil THEN "provisional" ELSE "named"
    BY <2>2 DEF NamingClip
  <2> HIDE DEF k
  <2>5. Prepared(k) => Prepared(clips[c]) /\ k.civil = clips[c].civil
    BY <2>1, <2>2, <2>4 DEF Prepared
  <2> QED
    BY <1>0, <2>1, <2>2, <2>3, <2>4, <2>5, PassUnmoved
<1>3. ASSUME NEW c \in Clip, NEW k \in NamingClip, clips' = [clips EXCEPT ![c] = k],
             k.start = clips[c].start, k.length = clips[c].length, k.state = clips[c].state, k.civil = clips[c].civil,
             k.busy \in {clips[c].busy, "no", "other"}
      PROVE  MetadataInd'
  <2>1. Prepared(k) => Prepared(clips[c])
    BY <1>3 DEF Prepared
  <2>2. k.busy = "rename" => k.state = "provisional"
    BY <1>3 DEF MetadataInd, PlansFit
  <2> QED
    BY <1>0, <1>3, <2>1, <2>2, PassUnmoved
<1>4. CASE Claimed
  <2>1. PICK c \in Clip : clips' \in {[clips EXCEPT ![c].leased = TRUE], [clips EXCEPT ![c].busy = "other"]}
    BY <1>4 DEF Claimed
  <2>2. clips[c] \in NamingClip
    BY <1>0
  <2>3. PICK k \in {[clips[c] EXCEPT !.leased = TRUE], [clips[c] EXCEPT !.busy = "other"]} :
          clips' = [clips EXCEPT ![c] = k]
    BY <1>0, <2>1
  <2>4. /\ k \in NamingClip /\ k.busy \in {clips[c].busy, "no", "other"}
        /\ k.start = clips[c].start /\ k.length = clips[c].length /\ k.state = clips[c].state /\ k.civil = clips[c].civil
    BY <2>2, <2>3 DEF NamingClip
  <2> QED
    BY <1>3, <2>3, <2>4
<1>5. CASE Disclaimed
  <2>1. PICK c \in Clip : clips' = [clips EXCEPT ![c].leased = FALSE, ![c].busy = "no"]
    BY <1>5 DEF Disclaimed
  <2>2. clips[c] \in NamingClip
    BY <1>0
  <2> DEFINE k == [clips[c] EXCEPT !.leased = FALSE, !.busy = "no"]
  <2>3. /\ k \in NamingClip /\ clips' = [clips EXCEPT ![c] = k] /\ k.busy \in {clips[c].busy, "no", "other"}
        /\ k.start = clips[c].start /\ k.length = clips[c].length /\ k.state = clips[c].state /\ k.civil = clips[c].civil
    BY <1>0, <2>1, <2>2 DEF NamingClip
  <2> HIDE DEF k
  <2> QED
    BY <1>3, <2>3
<1>6. CASE SpoilSidecar
  <2>1. PICK c \in Clip, how \in {"torn", "misfit", "restyled", "foreign"} : clips' = [clips EXCEPT ![c].sidecar = how]
    BY <1>6 DEF SpoilSidecar
  <2>2. clips[c] \in NamingClip
    BY <1>0
  <2> DEFINE k == [clips[c] EXCEPT !.sidecar = how]
  <2>3. /\ k \in NamingClip /\ clips' = [clips EXCEPT ![c] = k] /\ k.busy \in {clips[c].busy, "no", "other"}
        /\ k.start = clips[c].start /\ k.length = clips[c].length /\ k.state = clips[c].state /\ k.civil = clips[c].civil
    BY <1>0, <2>1, <2>2 DEF NamingClip
  <2> HIDE DEF k
  <2> QED
    BY <1>3, <2>3
<1> QED
  BY <1>1, <1>2, <1>4, <1>5, <1>6

\* Another anchor joins those accepted before, and what was named by them stays.
LEMMA AnchorSteps ==
    ASSUME MetadataInd, AcceptAnchor
    PROVE  MetadataInd'
<1>0. UNCHANGED <<clips, pass, known>> /\ accepted' = accepted \cup {anchor'}
  BY DEF AcceptAnchor
<1>1. PICK u \in Utcs, t \in {c * 5 : c \in Clip} : anchor' = [mono |-> t, utc |-> u]
  BY DEF AcceptAnchor
<1>2. t \in Int /\ u \in Int
  BY UtcIsWhole, MetadataNumbers DEF Clip
<1>3. anchor' \in [mono : Int, utc : Utcs] /\ anchor' \in [mono : Int, utc : Int]
  BY <1>1, <1>2
<1>4. PlansFit'
  <2>1. \A c \in Clip : \A a \in accepted : Projected(c, a)' = Projected(c, a)
    BY <1>0, SameProjection
  <2>2. ASSUME NEW c \in Clip, Prepared(clips[c])'
        PROVE  (\E a \in accepted : clips[c].civil = Projected(c, a))'
    <3>1. Prepared(clips[c])
      BY <1>0, <2>2 DEF Prepared, NoCivil
    <3>2. PICK a \in accepted : clips[c].civil = Projected(c, a)
      BY <3>1 DEF MetadataInd, PlansFit
    <3> QED
      BY <1>0, <2>1, <3>2
  <2> QED
    BY <1>0, <2>2 DEF MetadataInd, PlansFit
<1>5. AnchorFits'
  BY <1>0 DEF MetadataInd, AnchorFits
<1> QED
  BY <1>0, <1>3, <1>4, <1>5 DEF MetadataInd, MetadataTypeOK, PassFits, TablesBounded, Tracked

\* Every step keeps the invariant.
LEMMA MetadataSteps == MetadataInd /\ [MetadataNext]_metadataVars => MetadataInd'
<1> SUFFICES ASSUME MetadataInd, [MetadataNext]_metadataVars PROVE MetadataInd'
  OBVIOUS
<1>1. CASE UNCHANGED metadataVars
  BY <1>1 DEF metadataVars, MetadataInd, MetadataTypeOK, AnchorFits, Synced, PassFits, PlansFit, Prepared, NoCivil,
              TablesBounded, Tracked, Projected, ProjectUtc, CanonicalMillisecond
<1>2. CASE MetadataNext
  BY <1>2, PassSteps, CoordinatorSteps, ClipSteps, AnchorSteps DEF MetadataNext
<1> QED
  BY <1>1, <1>2

\* No step takes a name away or gives another.
LEMMA StepKeepsNames ==
    ASSUME MetadataInd, [MetadataNext]_metadataVars, NEW c \in Clip
    PROVE  /\ clips[c].state = "named" => clips'[c].state = "named"
           /\ clips[c].state = "named" \/ clips[c].busy = "rename" => clips'[c].civil = clips[c].civil
<1>0. clips \in [Clip -> NamingClip] /\ clips[c] \in NamingClip /\ (clips[c].busy = "rename" => clips[c].state = "provisional")
  BY DEF MetadataInd, MetadataTypeOK, PlansFit
<1>1. CASE UNCHANGED clips
  BY <1>1
<1>2. CASE ProjectNext \/ FinalizeNext
  BY <1>0, <1>2 DEF ProjectNext, FinalizeNext, NamingClip
<1>3. CASE ReconcileClip \/ ApplyIncomplete
  <2>1. pass.doing \in Clip /\ clips[pass.doing].state = "provisional"
    BY <1>3 DEF ReconcileClip, ApplyIncomplete, MetadataInd, MetadataTypeOK, PassFits, Passes
  <2>2. CASE c # pass.doing
    BY <1>0, <1>3, <2>1, <2>2 DEF ReconcileClip, ApplyIncomplete
  <2>3. CASE c = pass.doing
    <3>1. clips'[c].civil = Naming(c)
      BY <1>0, <1>3, <2>1, <2>3 DEF ReconcileClip, ApplyIncomplete, NamingClip
    <3> QED
      BY <2>1, <2>3, <3>1 DEF Naming
  <2> QED
    BY <2>2, <2>3
<1>4. CASE Claimed \/ Disclaimed \/ SpoilSidecar
  <2>1. PICK b \in Clip :
          \/ clips' = [clips EXCEPT ![b].leased = TRUE]
          \/ clips' = [clips EXCEPT ![b].busy = "other"]
          \/ clips' = [clips EXCEPT ![b].leased = FALSE, ![b].busy = "no"]
          \/ \E how \in {"torn", "misfit", "restyled", "foreign"} : clips' = [clips EXCEPT ![b].sidecar = how]
    BY <1>4 DEF Claimed, Disclaimed, SpoilSidecar
  <2>2. CASE b # c
    BY <1>0, <2>1, <2>2
  <2>3. CASE b = c
    <3>1. \/ clips'[c] = [clips[c] EXCEPT !.leased = TRUE]
          \/ clips'[c] = [clips[c] EXCEPT !.busy = "other"]
          \/ clips'[c] = [clips[c] EXCEPT !.leased = FALSE, !.busy = "no"]
          \/ \E how \in {"torn", "misfit", "restyled", "foreign"} : clips'[c] = [clips[c] EXCEPT !.sidecar = how]
      BY <1>0, <2>1, <2>3
    <3> QED
      BY <1>0, <3>1 DEF NamingClip
  <2> QED
    BY <2>2, <2>3
<1> QED
  BY <1>1, <1>2, <1>3, <1>4 DEF MetadataNext, metadataVars, BeginPass, ScanCandidates, NextCandidate, ReconcileRefused,
     EndPass, AcceptAnchor

\* For every granularity of the clock and of the names, every clip of a millisecond at least and
\* however often the clock reacquires its anchor: the projection satisfies the schema, whoever
\* names a clip gives all its times by one anchor that was accepted and nobody renames it, and the
\* tables of the pass stay within their bound (recorder/runtime.py, metadata/reconcile.py,
\* metadata/schema.py, gps/clock.py).
THEOREM NamesAreTheAnchors == MetadataSpec => []MetadataInv /\ NamesStay
<1>1. MetadataInd => MetadataInv
  <2> SUFFICES ASSUME MetadataInd PROVE MetadataInv
    OBVIOUS
  <2>1. ProjectionAccepted
    BY NamedClipFits DEF ProjectionAccepted
  <2>2. NamesAgree
    BY DEF MetadataInd, PlansFit, Prepared, NamesAgree
  <2> QED
    BY <2>1, <2>2 DEF MetadataInd, MetadataInv
<1>2. MetadataInd /\ [MetadataNext]_metadataVars =>
        [\A c \in Clip :
           /\ clips[c].state = "named" => clips'[c].state = "named"
           /\ clips[c].state = "named" \/ clips[c].busy = "rename" => clips'[c].civil = clips[c].civil]_metadataVars
  BY StepKeepsNames
<1> QED
  BY <1>1, <1>2, MetadataBegins, MetadataSteps, PTL DEF MetadataSpec, NamesStay
=============================================================================
