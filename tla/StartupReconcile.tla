------------------------- MODULE StartupReconcile -------------------------
(***************************************************************************)
(* ClipCatalog.reconcile_startup: one bounded pass that replays pending    *)
(* intents, compares every catalogued pair with the recording volume, and  *)
(* imports the pairs no row names, after a crash or the loss of the        *)
(* database. Passes are repeated while one reports more work; each may     *)
(* itself be cut short.                                                    *)
(***************************************************************************)
EXTENDS Integers, Sequences, FiniteSets

CONSTANTS NPairs,      \* clips, numbered in retention order
          MaxIntents, MaxActions, MaxRows, MaxEntries,  \* ReconciliationBounds
          MaxCrashes   \* bound: passes cut short

ASSUME ReconcileConstants ==
    NPairs \in Nat /\ {MaxIntents, MaxActions, MaxRows, MaxEntries, MaxCrashes} \subseteq Nat

VARIABLES pairs,   \* per clip: the directories of its members, and what its sidecar says
          indexed, \* per clip: its row, or NoRow
          intents, \* the clips with a pending intent, and where it moves them
          recovery \* the pass: its phase, what is left of its bounds, its report

reconcileVars == <<pairs, indexed, intents, recovery>>

Clips == 1..NPairs
Directories == <<"pending", "clips", "protected", "quarantine">>
Gone == "gone"

NoRow == [dir |-> Gone, life |-> "none", protected |-> FALSE, reconciled |-> FALSE]
Row(d, life, p, r) == [dir |-> d, life |-> life, protected |-> p, reconciled |-> r]

NewPass == [at |-> "idle", actions |-> MaxActions, entries |-> MaxEntries, listed |-> {}, examined |-> {},
            dir |-> 1, more |-> FALSE, issues |-> {}, done |-> FALSE, crashes |-> 0]

Members == {"video", "sidecar"}

\* What finalization, protection, power loss and the loss of the database leave behind: a
\* row that agrees with its pair, a row with a pending FINALIZE or PROTECT whose members are
\* at either end or missing, or no row at all. The sidecar matters where it is read.
ReconcileInit ==
    /\ pairs \in [Clips -> [video : {"pending", "clips", "protected", Gone},
                            sidecar : {"pending", "clips", "protected"},
                            valid : BOOLEAN, protected : BOOLEAN]]
    /\ indexed \in [Clips -> {NoRow, Row("clips", "FINALIZED", FALSE, TRUE),
                              Row("clips", "FINALIZED", TRUE, FALSE),
                              Row("pending", "FINALIZING", TRUE, FALSE)}]
    /\ \A c \in Clips :
          /\ indexed[c] # NoRow => pairs[c].protected = indexed[c].protected
          /\ indexed[c].dir = "clips" => pairs[c].valid /\ pairs[c].sidecar # "pending"
          /\ indexed[c].dir = "pending" => pairs[c].video # "protected" /\ pairs[c].sidecar # "protected"
    /\ intents = {[clip |-> c, to |-> IF indexed[c].dir = "pending" THEN "clips" ELSE "protected"] :
                     c \in {d \in Clips : indexed[d] # NoRow /\ ~indexed[d].reconciled}}
    /\ recovery = NewPass

-----------------------------------------------------------------------------
(* One pass. *)

StartPass ==
    /\ recovery.at = "idle" /\ (recovery.done => recovery.more)
    /\ \E l \in SUBSET intents :
          /\ Cardinality(l) = MaxIntents \/ (l = intents /\ Cardinality(l) < MaxIntents)
          /\ recovery' = [NewPass EXCEPT !.at = "intents", !.crashes = recovery.crashes,
                                         !.listed = l, !.more = l # intents]
    /\ UNCHANGED <<pairs, indexed, intents>>

\* reconcile_intent: a member that is at neither end, or the sidecar of a FINALIZE that cannot
\* be read, is a problem; else as many moves as the bound leaves, the video first. A
\* finalized pair that is protected still has to move on.
ReplayIntent == \E i \in recovery.listed :
    LET c == i.clip
        from == indexed[c].dir
        problem == \/ \E f \in Members : pairs[c][f] \notin {from, i.to}
                   \/ from = "pending" /\ ~pairs[c].valid
        left == {f \in Members : pairs[c][f] = from}
        moved == IF problem THEN {} ELSE IF Cardinality(left) <= recovery.actions THEN left ELSE {"video"}
        onward == from = "pending" /\ indexed[c].protected
    IN /\ recovery.at = "intents"
       /\ IF recovery.actions = 0
          THEN /\ recovery' = [recovery EXCEPT !.at = "rows", !.listed = {}, !.more = TRUE]
               /\ UNCHANGED <<pairs, indexed, intents>>
          ELSE /\ recovery' = [recovery EXCEPT !.listed = @ \ {i},
                                  !.actions = @ - Cardinality(moved),
                                  !.issues = IF problem THEN @ \cup {c} ELSE @]
               /\ pairs' = [pairs EXCEPT ![c] = [f \in DOMAIN @ |-> IF f \in moved THEN i.to ELSE @[f]]]
               /\ IF ~problem /\ moved = left
                  THEN /\ indexed' = [indexed EXCEPT ![c].dir = i.to, ![c].life = "FINALIZED",
                                                     ![c].reconciled = ~onward]
                       /\ intents' = (intents \ {i}) \cup
                                       (IF onward THEN {[clip |-> c, to |-> "protected"]} ELSE {})
                  ELSE UNCHANGED <<indexed, intents>>

IntentsReplayed ==
    /\ recovery.at = "intents" /\ recovery.listed = {}
    /\ recovery' = [recovery EXCEPT !.at = "rows", !.more = @ \/ intents # {}]
    /\ UNCHANGED <<pairs, indexed, intents>>

HasIntent(c) == \E i \in intents : i.clip = c

\* _queue_directory_invariant_repair: a protected clip still in clips/.
Misplaced(r) == r.life = "FINALIZED" /\ r.protected /\ r.dir = "clips"

\* _record_pair_observation of the next row, in retention order, then the repair it needs.
ObserveRow == \E c \in Clips :
    LET r == indexed[c]
        video == pairs[c].video = r.dir
        sidecar == pairs[c].sidecar = r.dir
        seen == [r EXCEPT !.reconciled = video /\ sidecar,
                    !.life = CASE video /\ sidecar ->
                                    IF @ \in {"MISSING_VIDEO", "MISSING_SIDECAR"}
                                    THEN "FINALIZED" ELSE @
                               [] video /\ ~sidecar -> "MISSING_SIDECAR"
                               [] sidecar /\ ~video -> "MISSING_VIDEO"
                               [] OTHER -> @]
    IN /\ recovery.at = "rows" /\ r # NoRow
       /\ c \notin recovery.examined
       /\ \A d \in Clips : d < c /\ indexed[d] # NoRow => d \in recovery.examined
       /\ Cardinality(recovery.examined) < MaxRows
       /\ IF HasIntent(c)
          THEN /\ recovery' = [recovery EXCEPT !.examined = @ \cup {c}]
               /\ UNCHANGED <<indexed, intents>>
          ELSE IF video /\ sidecar /\ Misplaced(seen)
          THEN /\ indexed' = [indexed EXCEPT ![c] = [seen EXCEPT !.reconciled = FALSE]]
               /\ intents' = intents \cup {[clip |-> c, to |-> "protected"]}
               /\ recovery' = [recovery EXCEPT !.examined = @ \cup {c}, !.more = TRUE]
          ELSE /\ indexed' = [indexed EXCEPT ![c] = seen]
               /\ recovery' = [recovery EXCEPT !.examined = @ \cup {c},
                                  !.issues = IF seen.reconciled THEN @ ELSE @ \cup {c}]
               /\ UNCHANGED intents
       /\ UNCHANGED pairs

RowsObserved ==
    /\ recovery.at = "rows"
    /\ LET all == {c \in Clips : indexed[c] # NoRow} IN
       /\ all \subseteq recovery.examined \/ Cardinality(recovery.examined) = MaxRows
       /\ recovery' = [recovery EXCEPT !.at = "scan", !.examined = {},
                                       !.more = @ \/ Cardinality(all) > MaxRows]
    /\ UNCHANGED <<pairs, indexed, intents>>

\* _import_sidecar_if_unindexed.
Imported(c, d) ==
    Row(d, IF d = "quarantine" THEN "QUARANTINED"
           ELSE IF pairs[c].video # d THEN "MISSING_VIDEO"
           ELSE IF d = "pending" THEN "FINALIZING" ELSE "FINALIZED",
        pairs[c].protected \/ d = "protected",
        pairs[c].video = d /\ d # "pending")

\* iter_files lists as many entries of the directory as the bound leaves; the sidecars among
\* them that no row names are imported, or reported when they cannot be read.
ScanDirectory ==
    LET d == Directories[recovery.dir]
        entries == {e \in Clips \X Members : pairs[e[1]][e[2]] = d}
    IN /\ recovery.at = "scan" /\ recovery.dir <= Len(Directories) /\ recovery.entries > 0
       /\ \E listed \in SUBSET entries :
             /\ Cardinality(listed) =
                    IF Cardinality(entries) < recovery.entries THEN Cardinality(entries)
                    ELSE recovery.entries
             /\ LET found == {c \in Clips : <<c, "sidecar">> \in listed /\ indexed[c] = NoRow}
                IN /\ indexed' = [c \in Clips |-> IF c \in found /\ pairs[c].valid
                                               THEN Imported(c, d) ELSE indexed[c]]
                   /\ recovery' = [recovery EXCEPT !.dir = @ + 1,
                                      !.entries = @ - Cardinality(listed),
                                      !.more = @ \/ listed # entries,
                                      !.issues = @ \cup {c \in found : ~pairs[c].valid}]
       /\ UNCHANGED <<pairs, intents>>

\* The same with the entry bound taken for the end of the directories.
EndOfPassForgetful ==
    /\ recovery.at = "scan"
    /\ recovery.dir > Len(Directories) \/ recovery.entries = 0
    /\ recovery' = [recovery EXCEPT !.at = "idle", !.done = TRUE, !.more = @ \/ intents # {}]
    /\ UNCHANGED <<pairs, indexed, intents>>

\* The end of the pass, by the last directory or by the bound on entries.
EndOfPass ==
    /\ recovery.at = "scan"
    /\ recovery.dir > Len(Directories) \/ recovery.entries = 0
    /\ recovery' = [recovery EXCEPT !.at = "idle", !.done = TRUE,
                       !.more = @ \/ intents # {} \/ recovery.dir <= Len(Directories)]
    /\ UNCHANGED <<pairs, indexed, intents>>

\* Each step is a transaction or a scan: a crash loses the pass and nothing else.
PassCutShort ==
    /\ recovery.at # "idle" /\ recovery.crashes < MaxCrashes
    /\ recovery' = [NewPass EXCEPT !.crashes = recovery.crashes + 1]
    /\ UNCHANGED <<pairs, indexed, intents>>

ReconcileNext == StartPass \/ ReplayIntent \/ IntentsReplayed \/ ObserveRow \/ RowsObserved
                 \/ ScanDirectory \/ EndOfPass \/ PassCutShort

ReconcileSpec == ReconcileInit /\ [][ReconcileNext]_reconcileVars

-----------------------------------------------------------------------------
(* Properties. *)

\* A pass that reports no more work (more_work is false) left nothing behind: no intent is
\* pending, every clip with a readable sidecar has a row, and a row that says reconciled has
\* both members where it says.
ConvergedIsComplete ==
    recovery.done /\ ~recovery.more =>
        /\ intents = {}
        /\ \A c \in Clips : pairs[c].valid => indexed[c] # NoRow
        /\ \A c \in Clips : indexed[c].reconciled =>
              pairs[c].video = indexed[c].dir /\ pairs[c].sidecar = indexed[c].dir
=============================================================================
