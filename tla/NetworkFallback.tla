-------------------------- MODULE NetworkFallback --------------------------
(***************************************************************************)
(* The choice of the network at boot (network_fallback.py): a bounded wait *)
(* for the client connection, then a fallback access point whose           *)
(* credentials are kept in a private file, put into a NetworkManager       *)
(* profile and, once that profile is active, handed over on the boot       *)
(* partition.  The operator's retry is another process, which may run at   *)
(* the same time.  Credentials are numbers: 1 for those that an earlier    *)
(* release left, higher ones for those made here, 0 for none.              *)
(***************************************************************************)
EXTENDS Naturals

CONSTANTS ClientWindow,      \* polls of the client that fit in the window
          MaxCredentials, MaxRetriesOfClient, MaxOutages   \* bounds

ASSUME NetworkConstants ==
  /\ ClientWindow \in Nat \ {0} /\ MaxCredentials \in Nat \ {0}
  /\ MaxRetriesOfClient \in Nat /\ MaxOutages \in Nat

VARIABLES
  private,    \* the private file: its credentials and its form
  profile,    \* the NetworkManager profile: its credentials, 0 if absent
  handoff,    \* the file on the boot partition
  manager,    \* NetworkManager: the profile it loaded, the connection that is active
  procs,      \* the two processes
  fresh,      \* credentials made so far
  outages     \* power losses and retries so far

networkVars == <<private, profile, handoff, manager, procs, fresh, outages>>

Processes == {"boot", "operator"}

NotRun == [at |-> "idle", left |-> 0, creds |-> 0, mode |-> "none", told |-> FALSE]

\* What an earlier release or boot may have left.
NetworkInit ==
  /\ private \in {[id |-> 0, form |-> "absent"], [id |-> 0, form |-> "malformed"]}
                   \cup [id : {1}, form : {"v1", "v2", "unreadable"}]
  /\ profile \in {0, 1} /\ handoff \in {0, 1}
  /\ manager = [loaded |-> 0, active |-> "none", ap |-> 0]
  /\ procs = [p \in Processes |-> IF p = "boot" THEN [NotRun EXCEPT !.at = "find"] ELSE NotRun]
  /\ fresh = 1 /\ outages = [cuts |-> 0, retries |-> 0]

Proceeds(p, at) == procs' = [procs EXCEPT ![p].at = at]
Selected(p, mode) == procs' = [procs EXCEPT ![p].at = "done", ![p].mode = mode]

(***************************************************************************)
(* The client.                                                             *)
(***************************************************************************)

\* Exactly one Wi-Fi interface, or the selection is refused.
FindOneWifiInterface(p) ==
  /\ procs[p].at = "find"
  /\ \/ procs' = [procs EXCEPT ![p].at = "poll", ![p].left = ClientWindow]
     \/ Selected(p, "REFUSED")
  /\ UNCHANGED <<private, profile, handoff, manager, fresh, outages>>

\* Connected, to an infrastructure network, with a route; any command may fail.
ClientIsUsable == manager.active = "client"

\* A window that starts again with every poll.
PollClientAnew(p) ==
  /\ procs[p].at = "poll" /\ procs[p].left > 0
  /\ \/ ClientIsUsable /\ Selected(p, "CLIENT")
     \/ procs' = [procs EXCEPT ![p].left = ClientWindow] /\ ~ClientIsUsable
  /\ UNCHANGED <<private, profile, handoff, manager, fresh, outages>>

PollClient(p) ==
  /\ procs[p].at = "poll" /\ procs[p].left > 0
  /\ \/ ClientIsUsable /\ Selected(p, "CLIENT")
     \/ procs' = [procs EXCEPT ![p].left = @ - 1]
  /\ UNCHANGED <<private, profile, handoff, manager, fresh, outages>>

WindowExpires(p) ==
  /\ procs[p].at = "poll" /\ procs[p].left = 0
  /\ Proceeds(p, "credentials")
  /\ UNCHANGED <<private, profile, handoff, manager, fresh, outages>>

(***************************************************************************)
(* The access point.                                                       *)
(***************************************************************************)

\* _credentials: version 1 and what is unreadable are rewritten, malformed ones refuse.
Credentials(p, at, next) ==
  /\ procs[p].at = at
  /\ \/ /\ private.form = "v2"
        /\ procs' = [procs EXCEPT ![p].at = next, ![p].creds = private.id]
        /\ UNCHANGED fresh
     \/ /\ private.form = "malformed" /\ Selected(p, "REFUSED") /\ UNCHANGED fresh
     \/ /\ private.form = "v1"
        /\ procs' = [procs EXCEPT ![p].at = "store", ![p].creds = private.id]
        /\ UNCHANGED fresh
     \/ /\ private.form \in {"absent", "unreadable"} /\ fresh < MaxCredentials
        /\ fresh' = fresh + 1
        /\ procs' = [procs EXCEPT ![p].at = "store", ![p].creds = fresh + 1]
  /\ UNCHANGED <<private, profile, handoff, manager, outages>>

\* After what stores them the operator compares the profile, the boot writes it.
AfterStore(p) == IF p = "operator" /\ procs[p].mode = "none" THEN "identity" ELSE "profile"

StoreCredentials(p) ==
  /\ procs[p].at = "store"
  /\ \/ /\ private' = [id |-> procs[p].creds, form |-> "v2"]
        /\ Proceeds(p, AfterStore(p)) \/ Selected(p, "REFUSED")
     \/ Selected(p, "REFUSED") /\ UNCHANGED private
  /\ UNCHANGED <<profile, handoff, manager, fresh, outages>>

WriteProfile(p) ==
  /\ procs[p].at = "profile"
  /\ \/ profile' = procs[p].creds /\ (Proceeds(p, "load") \/ Selected(p, "REFUSED"))
     \/ Selected(p, "REFUSED") /\ UNCHANGED profile
  /\ UNCHANGED <<private, handoff, manager, fresh, outages>>

LoadProfile(p) ==
  /\ procs[p].at = "load"
  /\ \/ manager' = [manager EXCEPT !.loaded = profile] /\ Proceeds(p, "up")
     \/ UNCHANGED manager /\ Selected(p, "REFUSED")
  /\ UNCHANGED <<private, profile, handoff, fresh, outages>>

\* A command that timed out may have had its effect.
ConnectionUp(p) ==
  /\ procs[p].at = "up"
  /\ \/ /\ manager.loaded = procs[p].creds
        /\ manager' = [manager EXCEPT !.active = "ap", !.ap = manager.loaded]
        /\ Proceeds(p, "verify") \/ Selected(p, "REFUSED")
     \/ UNCHANGED manager /\ Selected(p, "REFUSED")
  /\ UNCHANGED <<private, profile, handoff, fresh, outages>>

ApIsExactlyActive(p) == manager.active = "ap" /\ manager.ap = procs[p].creds

VerifyAp(p) ==
  /\ procs[p].at = "verify"
  /\ \/ ApIsExactlyActive(p) /\ Proceeds(p, "publish")
     \/ Selected(p, "REFUSED")
  /\ UNCHANGED <<private, profile, handoff, manager, fresh, outages>>

\* The boot partition may be unsafe or fail; the AP is reported all the same.
Publish(p) ==
  /\ procs[p].at = "publish"
  /\ \/ /\ handoff' = procs[p].creds
        /\ \E told \in BOOLEAN :
             procs' = [procs EXCEPT ![p].at = "done", ![p].mode = "AP", ![p].told = told]
     \/ Selected(p, "AP") /\ UNCHANGED handoff
  /\ UNCHANGED <<private, profile, manager, fresh, outages>>

(***************************************************************************)
(* The operator's retry.                                                   *)
(***************************************************************************)

RetryClient ==
  /\ procs["operator"].at \in {"idle", "done"} /\ outages.retries < MaxRetriesOfClient
  /\ procs' = [procs EXCEPT !["operator"] = [NotRun EXCEPT !.at = "persisted"]]
  /\ outages' = [outages EXCEPT !.retries = @ + 1]
  /\ UNCHANGED <<private, profile, handoff, manager, fresh>>

\* The profile must be the one of the credentials, to the letter.
PersistedApIdentity ==
  /\ procs["operator"].at = "identity"
  /\ IF profile = procs["operator"].creds THEN Proceeds("operator", "down")
     ELSE Selected("operator", "REFUSED")
  /\ UNCHANGED <<private, profile, handoff, manager, fresh, outages>>

\* Only after a down that succeeded is the client tried afresh.
ConnectionDown ==
  /\ procs["operator"].at = "down"
  /\ \/ /\ ApIsExactlyActive("operator")
        /\ manager' = [manager EXCEPT !.active = "none", !.ap = 0]
        /\ \/ procs' = [procs EXCEPT !["operator"] = [NotRun EXCEPT !.at = "find", !.mode = "retrying"]]
           \/ Selected("operator", "AP")
     \/ UNCHANGED manager /\ Selected("operator", "AP")
  /\ UNCHANGED <<private, profile, handoff, fresh, outages>>

(***************************************************************************)
(* Around them.                                                            *)
(***************************************************************************)

\* NetworkManager connects to, or loses, the home network while no AP is active.
ClientChanges ==
  /\ manager.active # "ap"
  /\ manager' = [manager EXCEPT !.active = IF @ = "client" THEN "none" ELSE "client"]
  /\ UNCHANGED <<private, profile, handoff, procs, fresh, outages>>

\* Power is lost; the next boot selects again.
Outage ==
  /\ outages.cuts < MaxOutages /\ outages' = [outages EXCEPT !.cuts = @ + 1]
  /\ manager' = [loaded |-> profile, active |-> "none", ap |-> 0]
  /\ procs' = [q \in Processes |-> IF q = "boot" THEN [NotRun EXCEPT !.at = "find"] ELSE NotRun]
  /\ UNCHANGED <<private, profile, handoff, fresh>>

Selects(p) ==
  \/ FindOneWifiInterface(p) \/ PollClient(p) \/ WindowExpires(p)
  \/ Credentials(p, "credentials", "profile") \/ StoreCredentials(p) \/ WriteProfile(p)
  \/ LoadProfile(p) \/ ConnectionUp(p) \/ VerifyAp(p) \/ Publish(p)

Retries == Credentials("operator", "persisted", "identity") \/ PersistedApIdentity \/ ConnectionDown

NetworkNext ==
  \/ \E p \in Processes : Selects(p)
  \/ Retries \/ RetryClient \/ ClientChanges \/ Outage

NetworkSpec == NetworkInit /\ [][NetworkNext]_networkVars

(***************************************************************************)
(* Properties.                                                             *)
(***************************************************************************)

\* Once the boot has reported the access point and its handoff, and no operator has
\* interfered in this boot, whoever reads the card can join: private file, profile,
\* active connection and handoff hold the same credentials, whatever an earlier boot
\* left half done.
HandoffOpens ==
  procs["boot"].mode = "AP" /\ procs["boot"].told /\ procs["operator"] = NotRun =>
    /\ private = [id |-> handoff, form |-> "v2"]
    /\ profile = handoff /\ manager.active = "ap" /\ manager.ap = handoff

\* A boot that has found its Wi-Fi interface ends with a selection: the window for the
\* client is bounded however often the home network comes and goes.
SelectionEnds ==
  procs["boot"].at \notin {"find", "done"} ~> procs["boot"].at = "done"

\* The boot ends with a selection, and an access point it reports can be joined
\* (select_network and the boot handoff).
NetworkServes == []HandoffOpens /\ SelectionEnds
=============================================================================
