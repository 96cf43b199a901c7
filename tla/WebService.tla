----------------------------- MODULE WebService -----------------------------
(***************************************************************************)
(* The local web service (dashcam_web): sessions with two timeouts and a   *)
(* bound, fresh authentication for the removal of the card, and one bounded *)
(* call to the recorder per request, whose answer may come too late.  A     *)
(* request is handled whole up to its call; one that the rate limit turns   *)
(* away changes nothing.                                                    *)
(***************************************************************************)
EXTENDS Integers, Sequences, FiniteSets

CONSTANTS MaxSessions, IdleTimeout, AbsoluteTimeout, ReauthWindow,
          MaxSeconds, MaxTokens, MaxMinted, Wishes       \* bounds

ASSUME WebConstants ==
  {MaxSessions, IdleTimeout, AbsoluteTimeout} \subseteq Nat \ {0} /\ MaxMinted \in Nat

VARIABLES
  seconds,    \* the monotonic clock
  opened,     \* the sessions
  tokens,     \* every token given out: when, when its password was given, last use, revoked
  asked,      \* the call to the recorder under way
  late,       \* events the client gave up and the recorder may still make
  triggered,  \* the recorder's events: their id, the wish behind them, whether the client named it
  minted,     \* the ids that the service made up
  granted     \* how the last call stood when it was let through

webVars == <<seconds, opened, tokens, asked, late, triggered, minted, granted>>

\* An id the client chose for its wish, or one the service made up.
ClientId(w) == [own |-> TRUE, n |-> w]
ServiceId(n) == [own |-> FALSE, n |-> n]

NoCall == [kind |-> "none", id |-> ClientId(0), wish |-> 0, named |-> TRUE]
Unasked == [kind |-> "none", age |-> 0, idle |-> 0, password |-> 0, revoked |-> FALSE]

WebInit ==
  /\ seconds = 0 /\ opened = {} /\ tokens = <<>> /\ asked = NoCall /\ late = {} /\ triggered = {}
  /\ minted = 0
  /\ granted = Unasked

(***************************************************************************)
(* Sessions.                                                               *)
(***************************************************************************)

Expired(s) == seconds - s.seen >= IdleTimeout \/ seconds - s.created >= AbsoluteTimeout

Prune == {s \in opened : ~Expired(s)}

\* The first in the order of the last uses; those of one reading of the clock have none.
LeastRecentlyUsed(kept) == {s \in kept : \A r \in kept : s.seen <= r.seen}

\* create: the expired go, then the least recently used where there is no room.
Created ==
  LET fresh == [token |-> Len(tokens) + 1, created |-> seconds, seen |-> seconds, reauth |-> seconds] IN
  IF Cardinality(Prune) >= MaxSessions
  THEN {(Prune \ {s}) \cup {fresh} : s \in LeastRecentlyUsed(Prune)} ELSE {Prune \cup {fresh}}

Without(token) == {x \in opened : x.token # token}

\* authenticate: touched.
Authenticate(s) == Without(s.token) \cup {[s EXCEPT !.seen = seconds]}

\* A login with the password; a wrong one, or one too many in the window, changes nothing.
Login ==
  /\ asked = NoCall /\ Len(tokens) < MaxTokens
  /\ opened' \in Created
  /\ tokens' = Append(tokens, [born |-> seconds, password |-> seconds, used |-> seconds, revoked |-> FALSE])
  /\ UNCHANGED <<seconds, asked, late, triggered, minted, granted>>

Use(token, f) == [tokens EXCEPT ![token] = [f EXCEPT !.used = seconds]]

Logout ==
  /\ asked = NoCall
  /\ \E s \in opened :
       /\ ~Expired(s)
       /\ opened' = Without(s.token)
       /\ tokens' = Use(s.token, [tokens[s.token] EXCEPT !.revoked = TRUE])
  /\ UNCHANGED <<seconds, asked, late, triggered, minted, granted>>

Reauthenticate ==
  /\ asked = NoCall
  /\ \E s \in opened :
       /\ ~Expired(s)
       /\ opened' = Authenticate([s EXCEPT !.reauth = seconds])
       /\ tokens' = Use(s.token, [tokens[s.token] EXCEPT !.password = seconds])
  /\ UNCHANGED <<seconds, asked, late, triggered, minted, granted>>

\* A token without a session, or with one that has expired, which goes.
Unauthenticated ==
  /\ asked = NoCall
  /\ opened' \in {opened} \cup {opened \ {s} : s \in {r \in opened : Expired(r)}}
  /\ UNCHANGED <<seconds, tokens, asked, late, triggered, minted, granted>>

(***************************************************************************)
(* Requests.                                                               *)
(***************************************************************************)

RequireRecentReauthentication(s) == seconds - s.reauth <= ReauthWindow

\* An endpoint is read only, changes state, or also asks for the password again.
Endpoints == {"read", "change", "removal", "event"}

\* A fresh id for every request.
EventIdAnew(w, named) == ServiceId(minted + 1)

\* The id of an event is the client's own where it gave one, and uuid4() where not.
EventId(w, named) == IF named THEN ClientId(w) ELSE ServiceId(minted + 1)

\* What the dispatch asks of the recorder.
Dispatch(kind, w, named) ==
  IF kind = "event" THEN [kind |-> kind, id |-> EventId(w, named), wish |-> w, named |-> named]
  ELSE [NoCall EXCEPT !.kind = kind]

\* A request the adapter or the endpoint may find malformed.
WellFormed == BOOLEAN

\* handle: the session is touched, the request checked, and the recorder called.
Handle ==
  /\ asked = NoCall
  /\ \E s \in opened, kind \in Endpoints, w \in Wishes, csrf \in BOOLEAN, valid \in WellFormed,
        named \in BOOLEAN :
       /\ ~Expired(s) /\ opened' = Authenticate(s) /\ tokens' = Use(s.token, tokens[s.token])
       /\ LET t == tokens[s.token]
              passes == /\ csrf \/ kind = "read"
                        /\ kind = "removal" => RequireRecentReauthentication(s)
                        /\ valid IN
          IF passes
          THEN /\ asked' = Dispatch(kind, w, named)
               /\ IF asked'.id = ServiceId(minted + 1) THEN minted < MaxMinted /\ minted' = minted + 1
                  ELSE minted' = minted
               /\ granted' = [kind |-> kind, age |-> seconds - t.born, idle |-> seconds - t.used,
                              password |-> seconds - t.password, revoked |-> t.revoked]
          ELSE granted' = Unasked /\ UNCHANGED <<asked, minted>>
  /\ UNCHANGED <<seconds, late, triggered>>

EventOf(a) == [id |-> a.id, wish |-> a.wish, named |-> a.named]

\* The recorder keeps one event for an id.
Executed(a) == IF a.kind = "event" THEN triggered \cup {EventOf(a)} ELSE triggered

\* call: one request on a connection of its own, answered in time ...
RecorderAnswers ==
  /\ asked # NoCall /\ asked' = NoCall /\ granted' = Unasked
  /\ triggered' \in {triggered, Executed(asked)}     \* a refusal, or the result
  /\ UNCHANGED <<seconds, opened, tokens, late, minted>>

\* ... or given up: the browser is told to try again, and the recorder may have begun
\* (what it does for the other endpoints changes nothing here).
CallFails ==
  /\ asked # NoCall /\ asked' = NoCall /\ granted' = Unasked /\ late' \in {late, late \cup {a \in {asked} : a.kind = "event"}}
  /\ UNCHANGED <<seconds, opened, tokens, triggered, minted>>

RecorderExecutesLate ==
  /\ \E a \in late : late' = late \ {a} /\ triggered' = Executed(a)
  /\ UNCHANGED <<seconds, opened, tokens, asked, granted, minted>>

Second ==
  /\ seconds < MaxSeconds /\ seconds' = seconds + 1
  /\ UNCHANGED <<opened, tokens, asked, late, triggered, minted, granted>>

WebNext ==
  \/ Login \/ Logout \/ Reauthenticate \/ Unauthenticated \/ Handle
  \/ RecorderAnswers \/ CallFails \/ RecorderExecutesLate \/ Second

WebSpec == WebInit /\ [][WebNext]_webVars

(***************************************************************************)
(* Properties.                                                             *)
(***************************************************************************)

\* Whatever sequence of logins, uses and reauthentications came before, no call is
\* let through for a session that was revoked, is too old or was idle too long, and the
\* removal of the card only shortly after the password was given.
CallsAuthorised ==
  /\ ~granted.revoked /\ granted.age < AbsoluteTimeout /\ granted.idle < IdleTimeout
  /\ granted.kind = "removal" => granted.password <= ReauthWindow

\* A client that names its event and sends it again because the first answer was lost
\* or late makes no second event; an id the service made up for one request never
\* stands for an event of another.  (Without a name each request is an event.)
EventOnce ==
  /\ \A w \in Wishes : Cardinality({e \in triggered : e.wish = w /\ e.named}) <= 1
  /\ \A d, e \in triggered : d.id = e.id => d = e

\* However many log in, the sessions stay within their bound.
SessionsBounded == Cardinality(opened) <= MaxSessions

\* The web service lets through what it may, a named event only once, and keeps within its bound.
WebInv == CallsAuthorised /\ EventOnce /\ SessionsBounded
=============================================================================
