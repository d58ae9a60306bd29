----------------------------- MODULE ServerEdit -----------------------------
(***************************************************************************)
(* Enrolment on the server: Linux profiles are issued, activated and       *)
(* revoked by editing wg0.conf and stunmesh.yml (internal/linuxprofile),   *)
(* phones get a free address in a proposal (cmd/provision) and are entered *)
(* by hand after their reply has been checked (internal/provision).        *)
(*                                                                         *)
(* Every operation is a process of its own that ends or is killed.  An     *)
(* edit writes two candidate files into a private directory; its caller,   *)
(* outside the repository, holds a lock from reading the server's files to *)
(* putting the pair in place, as the comment of Edited demands.            *)
(*                                                                         *)
(* A file is its set of entries.  wg0.conf has a block per peer, managed   *)
(* (between the markers of a name) or entered by hand (name NoName);       *)
(* stunmesh.yml has a name and a key per managed peer.                     *)
(***************************************************************************)
EXTENDS Naturals, FiniteSets

CONSTANTS
  Names,       \* names of Linux clients
  Keys,        \* WireGuard keys, each made once
  NoName,      \* a peer entered by hand
  LastHost     \* addresses are 2 .. LastHost; 254 in the code

Addresses == 2 .. LastHost
Profiles == [name : Names, key : Keys, addr : Addresses]
Blocks == [name : Names \cup {NoName}, key : Keys, addr : Addresses]
Entries == [name : Names, key : Keys]

\* A candidate file: absent, created but incomplete, or whole.
File(content) == [state : {"absent", "partial", "whole"}, content : SUBSET content]
NoFile == [state |-> "absent", content |-> {}]
Partial == [state |-> "partial", content |-> {}]
Whole(content) == [state |-> "whole", content |-> content]

ASSUME ServerAssumption ==
  /\ LastHost \in Nat
  /\ NoName \notin Names

VARIABLES
  wg, yml,           \* the server's files
  issued,            \* Linux profiles, each an exclusively created file
  proposals,         \* addresses of the phone proposals not yet settled
  edit,              \* the locked edit: [pc, profile, revoke]
  candWg, candYml    \* the candidate files

serverVars == <<wg, yml, issued, proposals, edit, candWg, candYml>>

NoEdit == [pc |-> "none"]

ServerInit ==
  /\ wg = {} /\ yml = {} /\ issued = {} /\ proposals = {}
  /\ edit = NoEdit /\ candWg = NoFile /\ candYml = NoFile

Managed(blocks) == {b \in blocks : b.name # NoName}
Live(blocks) == {b.addr : b \in blocks}
UsedKeys == {b.key : b \in wg} \cup {p.key : p \in issued}

-----------------------------------------------------------------------------
(* Linux profiles.                                                          *)

\* Issue: new keys for a template.  The template's address is the owner's
\* choice; they do not pick one that a phone is waiting for.
Issue(name, key, addr) ==
  /\ key \notin UsedKeys
  /\ addr \notin proposals
  /\ issued' = issued \cup {[name |-> name, key |-> key, addr |-> addr]}
  /\ UNCHANGED <<wg, yml, proposals, edit, candWg, candYml>>

\* The block and the entry of p's name, which must both exist or both be absent.
Consistent(p) ==
  (\E b \in wg : b.name = p.name) <=> (\E e \in yml : e.name = p.name)

\* The identity they name must be p's.
SameIdentity(p) ==
  /\ \A b \in wg : b.name = p.name => b.key = p.key
  /\ \A e \in yml : e.name = p.name => e.key = p.key

Others(p) == {b \in wg : b.name # p.name}

\* Edited without the comparison of the keys.
AcceptedAnyIdentity(p, revoke) ==
  /\ Consistent(p)
  /\ revoke \/ (p.addr \notin Live(Others(p)) /\ p.key \notin {b.key : b \in Others(p)})

\* Edited without the search for the address among the routes of the peers.
AcceptedAnyAddress(p, revoke) ==
  /\ Consistent(p) /\ SameIdentity(p)
  /\ revoke \/ p.key \notin {b.key : b \in Others(p)}

\* Edited accepts p: the managed entries of its name are consistent and have
\* its key, and an activation meets neither its address nor its key elsewhere.
Accepted(p, revoke) ==
  /\ Consistent(p) /\ SameIdentity(p)
  /\ revoke \/ (p.addr \notin Live(Others(p)) /\ p.key \notin {b.key : b \in Others(p)})

\* The two files Edited returns.
EditedWg(p, revoke) == Others(p) \cup (IF revoke THEN {} ELSE {p})
EditedYml(p, revoke) ==
  {e \in yml : e.name # p.name}
    \cup (IF revoke THEN {} ELSE {[name |-> p.name, key |-> p.key]})

\* linux-activate or linux-revoke: the lock is taken, the files are read and the
\* edit accepted.  A refused edit leaves everything as it was.
BeginEdit(p, revoke) ==
  /\ edit.pc = "none"
  /\ p \in issued /\ Accepted(p, revoke)
  /\ edit' = [pc |-> "wg0.conf", profile |-> p, revoke |-> revoke]
  /\ UNCHANGED <<wg, yml, issued, proposals, candWg, candYml>>

\* WriteNew without O_EXCL.
MayWriteOver(file) == TRUE

\* WriteNew gets to write: the file must be new.
MayWrite(file) == file = NoFile

\* WriteEdited, the first file: it is created, then complete.  If it cannot be
\* created the edit fails with nothing written.
WriteWg ==
  /\ edit.pc = "wg0.conf"
  /\ IF MayWrite(candWg)
     THEN candWg' = Partial /\ edit' = [edit EXCEPT !.pc = "wg0.conf written"]
     ELSE edit' = NoEdit /\ UNCHANGED candWg
  /\ UNCHANGED <<wg, yml, issued, proposals, candYml>>

FinishWg ==
  /\ edit.pc = "wg0.conf written"
  /\ candWg' = Whole(EditedWg(edit.profile, edit.revoke))
  /\ edit' = [edit EXCEPT !.pc = "stunmesh.yml"]
  /\ UNCHANGED <<wg, yml, issued, proposals, candYml>>

\* The second file; if it cannot be written the first is removed again.
WriteYml ==
  /\ edit.pc = "stunmesh.yml"
  /\ IF MayWrite(candYml)
     THEN /\ candYml' = Partial /\ edit' = [edit EXCEPT !.pc = "stunmesh.yml written"]
          /\ UNCHANGED candWg
     ELSE candWg' = NoFile /\ edit' = NoEdit /\ UNCHANGED candYml
  /\ UNCHANGED <<wg, yml, issued, proposals>>

FinishYml ==
  /\ edit.pc = "stunmesh.yml written"
  /\ candYml' = Whole(EditedYml(edit.profile, edit.revoke))
  /\ edit' = [edit EXCEPT !.pc = "written"]
  /\ UNCHANGED <<wg, yml, issued, proposals, candWg>>

\* An error while a file is written: WriteNew removes it, WriteEdited the first.
WriteFails ==
  /\ edit.pc \in {"wg0.conf written", "stunmesh.yml written"}
  /\ candWg' = NoFile
  /\ candYml' = IF edit.pc = "stunmesh.yml written" THEN NoFile ELSE candYml
  /\ edit' = NoEdit
  /\ UNCHANGED <<wg, yml, issued, proposals>>

\* The process is killed: the lock is free, the files stay as they are.
KillEdit ==
  /\ edit.pc # "none"
  /\ edit' = NoEdit
  /\ UNCHANGED <<wg, yml, issued, proposals, candWg, candYml>>

\* The caller puts the pair in place and empties the directory.
Install ==
  /\ edit.pc = "written"
  /\ wg' = candWg.content /\ yml' = candYml.content
  /\ candWg' = NoFile /\ candYml' = NoFile
  /\ edit' = NoEdit
  /\ UNCHANGED <<issued, proposals>>

\* The owner empties the candidate directory.
Discard ==
  /\ edit.pc = "none"
  /\ candWg' = NoFile /\ candYml' = NoFile
  /\ UNCHANGED <<wg, yml, issued, proposals, edit>>

-----------------------------------------------------------------------------
(* Phones.                                                                  *)

\* What serverNew must not hand out: addresses of live peers and of pending
\* enrolments, which its caller passes.
Reserved == Live(wg) \cup proposals \cup {p.addr : p \in issued}

\* phoneAddress: the first address that is not reserved.
PhoneAddress(used, addr) ==
  addr \in Addresses \ used /\ \A a \in Addresses \ used : addr <= a

\* serverNew, which removes its files again unless it completes.  It takes no
\* lock: an edit under way adds only a profile that is issued, hence reserved.
ServerNew(addr) ==
  /\ PhoneAddress(Reserved, addr)
  /\ proposals' = proposals \cup {addr}
  /\ UNCHANGED <<wg, yml, issued, edit, candWg, candYml>>

\* "provision new": the owner chooses the address, one that is not reserved.
ProvisionNew(addr) ==
  /\ addr \notin Reserved
  /\ proposals' = proposals \cup {addr}
  /\ UNCHANGED <<wg, yml, issued, edit, candWg, candYml>>

\* CheckReply: a reply must name the address of the proposal it answers.
CheckReply(addr, replied) == addr \in proposals /\ replied = addr

\* "provision reply": the reply passes and is shown to the owner, who enters the
\* phone's new key and that address by hand, holding the lock.
EnterPhone(addr, replied, key) ==
  /\ edit.pc = "none"
  /\ CheckReply(addr, replied) /\ key \notin UsedKeys
  /\ wg' = wg \cup {[name |-> NoName, key |-> key, addr |-> replied]}
  /\ proposals' = proposals \ {addr}
  /\ UNCHANGED <<yml, issued, edit, candWg, candYml>>

-----------------------------------------------------------------------------
ServerNext ==
  \/ \E name \in Names, key \in Keys, addr \in Addresses : Issue(name, key, addr)
  \/ \E p \in issued, revoke \in BOOLEAN : BeginEdit(p, revoke)
  \/ WriteWg \/ FinishWg \/ WriteYml \/ FinishYml \/ WriteFails \/ KillEdit
  \/ Install \/ Discard
  \/ \E addr \in Addresses : ServerNew(addr) \/ ProvisionNew(addr)
  \/ \E addr, replied \in Addresses, key \in Keys : EnterPhone(addr, replied, key)

-----------------------------------------------------------------------------
EntriesOf(blocks) == {[name |-> b.name, key |-> b.key] : b \in Managed(blocks)}

\* The two files describe the same managed peers, in the server and, when both
\* are complete, in the candidate directory: no crash, error or refusal ever
\* leaves the files of two different edits beside each other.
FilesAgree ==
  /\ EntriesOf(wg) = yml
  /\ candWg.state = "whole" /\ candYml.state = "whole"
       => EntriesOf(candWg.content) = candYml.content

\* No address and no key is authorised twice, whoever was enrolled in which
\* order: WireGuard would silently give the address to the last block.
PeersAreDistinct ==
  \A b, c \in wg : b.addr = c.addr \/ b.key = c.key => b = c

\* A name that stays active keeps its identity: another key needs a revocation
\* in between, also after the profile has been issued again.
IdentityIsKept ==
  [][\A b \in wg, c \in wg' : b.name = c.name /\ b.name # NoName => b.key = c.key]_serverVars
=============================================================================
