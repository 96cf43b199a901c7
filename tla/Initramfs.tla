------------------------------ MODULE Initramfs ------------------------------
(***************************************************************************)
(* The customization of the selected initramfs (provisioning/              *)
(* initramfs_customizer.py over initramfs_archive.py): the stock resize    *)
(* hook is replaced, a directory, contract files and root artifacts are    *)
(* appended, the runtime gate only for an authorized trial, and the output *)
(* is reopened and compared.  An archive is its sequence of members; two   *)
(* members with the same device and inode are one file to the unpacker.    *)
(***************************************************************************)
EXTENDS Naturals, Sequences, FiniteSetsExt

CONSTANTS
  Names,        \* the names a member may have
  Stocks,       \* the stock archives that may be met
  MaxMembers    \* maximum_entries of an archive

NewcEntry == [name : Names, dev : Nat, inode : Nat, kind : {"file", "dir", "other"}, data : {"stock", "custom"}]

ASSUME InitramfsBounds ==
  /\ MaxMembers \in Nat /\ Stocks \subseteq Seq(NewcEntry)
  /\ {".", "hook", "dashcam", "contract", "artifact", "gate"} \subseteq Names

VARIABLES
  stock,     \* the members of the input
  members,   \* the members of the archive being rebuilt
  step,      \* what was last added
  gated      \* runtime_gate_enabled

irVars == <<stock, members, step, gated>>

IrInit == stock \in Stocks /\ members = <<>> /\ step = "input" /\ gated \in BOOLEAN

Named(a, n) == {i \in DOMAIN a : a[i].name = n}
OnlyOne(a, n) == Cardinality(Named(a, n)) = 1

\* An archive parses when no name occurs twice and the bounds hold.
ParseNewcArchive(a) == Len(a) <= MaxMembers /\ \A i \in DOMAIN a : OnlyOne(a, a[i].name)

\* The exact input: one hook that is a plain file, and no gate.
AcceptInput ==
  /\ step = "input" /\ ParseNewcArchive(stock)
  /\ OnlyOne(stock, "hook") /\ Named(stock, "gate") = {}
  /\ members' = stock /\ step' = "stock" /\ UNCHANGED <<stock, gated>>

ReplaceNewcMember ==
  /\ step = "stock"
  /\ \E i \in Named(members, "hook") :
       members[i].kind = "file" /\ members' = [members EXCEPT ![i].data = "custom"]
  /\ step' = "hook" /\ UNCHANGED <<stock, gated>>

SelectNextInode(a) == Len(a) + 1

\* The lowest positive inode that no member of device 0:0 has.
SelectUnusedInode(a) ==
  LET used == {a[i].inode : i \in {j \in DOMAIN a : a[j].dev = 0 /\ a[j].inode > 0}}
  IN Min((1 .. Cardinality(used) + 1) \ used)

\* A member is appended only under a name that is new, in a directory that
\* occurs once.
Add(a, name, kind) ==
  Append(a, [name |-> name, dev |-> 0, inode |-> SelectUnusedInode(a), kind |-> kind, data |-> "custom"])

Addable(a, name, parent) ==
  /\ Named(a, name) = {} /\ Len(a) < MaxMembers
  /\ OnlyOne(a, parent) /\ \A i \in Named(a, parent) : a[i].kind = "dir"

AddNewcDirectory ==
  /\ step = "hook" /\ Addable(members, "dashcam", ".")
  /\ members' = Add(members, "dashcam", "dir")
  /\ step' = "directory" /\ UNCHANGED <<stock, gated>>

AddDataFile ==
  /\ step = "directory" /\ Addable(members, "contract", "dashcam")
  /\ members' = Add(members, "contract", "file")
  /\ step' = "contract" /\ UNCHANGED <<stock, gated>>

AddNewcRegularFile ==
  /\ step = "contract" /\ Addable(members, "artifact", ".")
  /\ members' = Add(members, "artifact", "file")
  /\ step' = "artifact" /\ UNCHANGED <<stock, gated>>

AddGate ==
  /\ step = "artifact" /\ gated /\ Addable(members, "gate", "dashcam")
  /\ members' = Add(members, "gate", "file")
  /\ step' = "gate" /\ UNCHANGED <<stock, gated>>

\* The output is split, decompressed and parsed again: as many members as were
\* put in, each as it should be, and the gate only if it was asked for.
VerifyOutput ==
  /\ step = IF gated THEN "gate" ELSE "artifact"
  /\ ParseNewcArchive(members)
  /\ Len(members) = Len(stock) + 3 + (IF gated THEN 1 ELSE 0)
  /\ \A n \in {"hook", "dashcam", "contract", "artifact"} :
       \E i \in Named(members, n) : members[i].data = "custom"
  /\ (Named(members, "gate") # {}) = gated
  /\ step' = "verified" /\ UNCHANGED <<stock, members, gated>>

\* A bound, a name, a parent or a hash is not as it must be, or zstd fails.
CustomizationError ==
  step \notin {"verified", "refused"} /\ step' = "refused" /\ UNCHANGED <<stock, members, gated>>

IrNext ==
  \/ AcceptInput \/ ReplaceNewcMember \/ AddNewcDirectory \/ AddDataFile \/ AddNewcRegularFile
  \/ AddGate \/ VerifyOutput \/ CustomizationError

IrSpec == IrInit /\ [][IrNext]_irVars

\* A verified output unpacks to the stock files with the hook alone changed and
\* to the added files: no added member shares its file with another one.
AddedMembersAreNewFiles ==
  step = "verified" =>
    /\ \A i \in DOMAIN stock : stock[i].name # "hook" => members[i] = stock[i]
    /\ \A i \in Len(stock) + 1 .. Len(members), j \in DOMAIN members :
         i # j => <<members[i].dev, members[i].inode>> # <<members[j].dev, members[j].inode>>
=============================================================================
