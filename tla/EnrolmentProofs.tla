-------------------------- MODULE EnrolmentProofs ---------------------------
(***************************************************************************)
(* Proofs about Enrolment, for any names, keys and addresses.              *)
(***************************************************************************)
EXTENDS Enrolment, TLAPS

-----------------------------------------------------------------------------
(* The server.                                                              *)

EditSteps == {"wg0.conf", "wg0.conf written", "stunmesh.yml", "stunmesh.yml written", "written"}

ServerType ==
  /\ wg \subseteq Blocks /\ yml \subseteq Entries /\ issued \subseteq Profiles
  /\ proposals \subseteq Addresses
  /\ edit \in {NoEdit} \cup [pc : EditSteps, profile : Profiles, revoke : BOOLEAN]
  /\ candWg \in File(Blocks) /\ candYml \in File(Entries)

\* A name has one block; an address pending for a phone belongs to nobody else.
EnrolledIsSound ==
  /\ \A b, c \in Managed(wg) : b.name = c.name => b = c
  /\ \A b \in wg : b.addr \notin proposals
  /\ \A p \in issued : p.addr \notin proposals

\* While an edit runs the files are those it was accepted for, and what it has
\* written is its own: beside a missing or incomplete wg0.conf there is no
\* stunmesh.yml it could be taken together with.
EditIsSound ==
  LET p == edit.profile
      revoke == edit.revoke
  IN  /\ edit # NoEdit => p \in issued /\ Accepted(p, revoke)
      /\ candWg = NoFile => candYml = NoFile
      /\ edit.pc = "wg0.conf written" => candWg = Partial /\ candYml = NoFile
      /\ edit.pc = "stunmesh.yml" => candWg = Whole(EditedWg(p, revoke)) /\ candYml = NoFile
      /\ edit.pc = "stunmesh.yml written" =>
           candWg = Whole(EditedWg(p, revoke)) /\ candYml = Partial
      /\ edit.pc = "written" =>
           candWg = Whole(EditedWg(p, revoke)) /\ candYml = Whole(EditedYml(p, revoke))

ServerInv ==
  ServerType /\ EnrolledIsSound /\ EditIsSound /\ FilesAgree /\ PeersAreDistinct

-----------------------------------------------------------------------------
(* The host.                                                                *)

HostType ==
  /\ profile \in HostKeys \cup {NoKey} /\ held \in HostKeys \cup {NoKey}
  /\ service \in {"stopped", "setup", "added", "configured", "recording", "serving", "release",
                  "cleanup", "ended"}
  /\ link \in [there : BOOLEAN, key : HostKeys \cup {NoKey}, own : BOOLEAN]
  /\ receipt \in [state : {"absent", "partial", "whole"}, key : HostKeys \cup {NoKey},
                  names : BOOLEAN]

\* Between "link add" and the receipt the interface is the run's own, and a
\* receipt names only an interface a run created.
OwnershipIsSound ==
  /\ service \in {"added", "configured", "recording"} => link.there /\ link.own
  /\ receipt.names => link.there /\ link.own

HostInv == HostType /\ OwnershipIsSound

IInv == ServerInv /\ HostInv

-----------------------------------------------------------------------------
\* The server starts without peers, edits and candidates.
LEMMA ServerInitSound == ServerInit => ServerInv
<1> SUFFICES ASSUME ServerInit PROVE ServerInv
  OBVIOUS
<1>1. ServerType
  BY DEF ServerInit, ServerType, File, NoFile
<1>2. EnrolledIsSound /\ PeersAreDistinct
  BY DEF ServerInit, EnrolledIsSound, Managed, PeersAreDistinct
<1>3. EditIsSound /\ FilesAgree
  BY DEF ServerInit, EditIsSound, FilesAgree, EntriesOf, Managed, NoEdit, NoFile
<1> QED
  BY <1>1, <1>2, <1>3 DEF ServerInv

\* Edited changes both files alike: the entry of a block it keeps or adds is kept
\* or added.
LEMMA EditedAgree ==
  ASSUME FilesAgree, NEW p \in Profiles, NEW revoke \in BOOLEAN
  PROVE  EntriesOf(EditedWg(p, revoke)) = EditedYml(p, revoke)
<1>1. p.name # NoName /\ p.name \in Names
  BY ServerAssumption DEF Profiles
<1>2. yml = {[name |-> b.name, key |-> b.key] : b \in Managed(wg)}
  BY DEF FilesAgree, EntriesOf
<1>3. ASSUME NEW e \in EntriesOf(EditedWg(p, revoke)) PROVE e \in EditedYml(p, revoke)
  <2>1. PICK b \in EditedWg(p, revoke) : b.name # NoName /\ e = [name |-> b.name, key |-> b.key]
    BY <1>3 DEF EntriesOf, Managed
  <2>2. CASE b \in Others(p)
    <3>1. b \in Managed(wg) /\ b.name # p.name
      BY <2>1, <2>2 DEF Others, Managed
    <3>2. e \in yml /\ e.name # p.name
      BY <2>1, <3>1, <1>2
    <3> QED
      BY <3>2 DEF EditedYml
  <2>3. CASE ~revoke /\ b = p
    BY <2>1, <2>3 DEF EditedYml
  <2> QED
    BY <2>2, <2>3 DEF EditedWg
<1>4. ASSUME NEW e \in EditedYml(p, revoke) PROVE e \in EntriesOf(EditedWg(p, revoke))
  <2>1. CASE e \in yml /\ e.name # p.name
    <3>1. PICK b \in Managed(wg) : e = [name |-> b.name, key |-> b.key]
      BY <2>1, <1>2
    <3>2. b \in EditedWg(p, revoke) /\ b.name # NoName
      BY <2>1, <3>1 DEF EditedWg, Others, Managed
    <3> QED
      BY <3>1, <3>2 DEF EntriesOf, Managed
  <2>2. CASE ~revoke /\ e = [name |-> p.name, key |-> p.key]
    BY <2>2, <1>1 DEF EntriesOf, Managed, EditedWg
  <2> QED
    BY <1>4, <2>1, <2>2 DEF EditedYml
<1> QED
  BY <1>3, <1>4

\* A profile is issued with a new key and an address no phone waits for.
LEMMA IssueSound ==
  ASSUME ServerInv, NEW name \in Names, NEW key \in Keys, NEW addr \in Addresses,
         Issue(name, key, addr)
  PROVE  ServerInv'
<1>1. ServerType'
  BY DEF ServerInv, ServerType, Issue, Profiles
<1>2. EnrolledIsSound'
  BY DEF ServerInv, EnrolledIsSound, Issue, Managed
<1>3. EditIsSound'
  BY DEF ServerInv, EditIsSound, Issue, Accepted, Consistent, SameIdentity, Live, Others, EditedWg,
     EditedYml
<1>4. FilesAgree' /\ PeersAreDistinct'
  BY DEF ServerInv, FilesAgree, PeersAreDistinct, EntriesOf, Managed, Issue
<1> QED
  BY <1>1, <1>2, <1>3, <1>4 DEF ServerInv

\* A proposal for a phone sets aside an address that nobody has.
LEMMA ProposalSound ==
  ASSUME ServerInv, NEW addr \in Addresses, ServerNew(addr) \/ ProvisionNew(addr)
  PROVE  ServerInv'
<1>1. /\ addr \notin Reserved /\ proposals' = proposals \cup {addr}
      /\ UNCHANGED <<wg, yml, issued, edit, candWg, candYml>>
  BY DEF ServerNew, ProvisionNew, PhoneAddress
<1>2. ServerType'
  BY <1>1 DEF ServerInv, ServerType
<1>3. EnrolledIsSound'
  BY <1>1 DEF ServerInv, EnrolledIsSound, Reserved, Live, Managed
<1>4. EditIsSound'
  BY <1>1 DEF ServerInv, EditIsSound, Accepted, Consistent, SameIdentity, Live, Others, EditedWg,
     EditedYml
<1>5. FilesAgree' /\ PeersAreDistinct'
  BY <1>1 DEF ServerInv, FilesAgree, PeersAreDistinct, EntriesOf, Managed
<1> QED
  BY <1>2, <1>3, <1>4, <1>5 DEF ServerInv

\* A phone gets an address that was set aside for it and a key that is new.
LEMMA EnterPhoneSound ==
  ASSUME ServerInv, NEW addr \in Addresses, NEW replied \in Addresses, NEW key \in Keys,
         EnterPhone(addr, replied, key)
  PROVE  ServerInv'
<1> DEFINE phone == [name |-> NoName, key |-> key, addr |-> replied]
<1>1. /\ edit = NoEdit /\ addr \in proposals /\ replied = addr /\ key \notin UsedKeys
      /\ wg' = wg \cup {phone} /\ proposals' = proposals \ {addr}
      /\ UNCHANGED <<yml, issued, edit, candWg, candYml>>
  BY DEF ServerInv, ServerType, EnterPhone, CheckReply, EditSteps, NoEdit
<1>2. ServerType'
  BY <1>1 DEF ServerInv, ServerType, Blocks
<1>3. Managed(wg') = Managed(wg)
  BY <1>1 DEF Managed
<1>4. EnrolledIsSound'
  <2>1. \A b, c \in Managed(wg') : b.name = c.name => b = c
    BY <1>3 DEF ServerInv, EnrolledIsSound
  <2>2. \A b \in wg' : b.addr \notin proposals'
    BY <1>1 DEF ServerInv, EnrolledIsSound
  <2>3. \A p \in issued' : p.addr \notin proposals'
    BY <1>1 DEF ServerInv, EnrolledIsSound
  <2> QED
    BY <2>1, <2>2, <2>3 DEF EnrolledIsSound, Managed
<1>5. EditIsSound'
  BY <1>1 DEF ServerInv, EditIsSound, NoEdit
<1>6. FilesAgree'
  BY <1>1, <1>3 DEF ServerInv, FilesAgree, EntriesOf, Managed
<1>7. PeersAreDistinct'
  <2>1. \A b \in wg : b.addr # phone.addr /\ b.key # phone.key
    BY <1>1 DEF ServerInv, EnrolledIsSound, UsedKeys
  <2> QED
    BY <1>1, <2>1 DEF ServerInv, PeersAreDistinct
<1> QED
  BY <1>2, <1>4, <1>5, <1>6, <1>7 DEF ServerInv
-----------------------------------------------------------------------------
(* The edit.  None of its steps but Install touches the server's files.     *)

\* What a step that leaves the server's files, profiles and proposals alone keeps.
LEMMA FilesUntouched ==
  ASSUME ServerInv, UNCHANGED <<wg, yml, issued, proposals>>
  PROVE  /\ EnrolledIsSound' /\ PeersAreDistinct' /\ EntriesOf(wg)' = yml'
         /\ \A p, revoke : /\ Accepted(p, revoke)' <=> Accepted(p, revoke)
                           /\ EditedWg(p, revoke)' = EditedWg(p, revoke)
                           /\ EditedYml(p, revoke)' = EditedYml(p, revoke)
<1>1. EnrolledIsSound' /\ PeersAreDistinct'
  BY DEF ServerInv, EnrolledIsSound, PeersAreDistinct, Managed
<1>2. EntriesOf(wg)' = yml'
  BY DEF ServerInv, FilesAgree, EntriesOf, Managed
<1>3. ASSUME NEW p, NEW revoke
      PROVE  /\ Accepted(p, revoke)' <=> Accepted(p, revoke)
             /\ EditedWg(p, revoke)' = EditedWg(p, revoke)
             /\ EditedYml(p, revoke)' = EditedYml(p, revoke)
  BY DEF Accepted, Consistent, SameIdentity, Live, Others, EditedWg, EditedYml
<1> QED
  BY <1>1, <1>2, <1>3

\* The files an edit returns have the types of the server's files.
LEMMA EditedType ==
  ASSUME ServerInv, NEW p \in Profiles, NEW revoke \in BOOLEAN
  PROVE  EditedWg(p, revoke) \subseteq Blocks /\ EditedYml(p, revoke) \subseteq Entries
<1>1. p \in Blocks /\ [name |-> p.name, key |-> p.key] \in Entries
  BY DEF Profiles, Blocks, Entries
<1> QED
  BY <1>1 DEF ServerInv, ServerType, EditedWg, EditedYml, Others

\* Edited accepts a profile for the files as they are, and the lock keeps them so.
LEMMA BeginEditSound ==
  ASSUME ServerInv, NEW p \in issued, NEW revoke \in BOOLEAN, BeginEdit(p, revoke)
  PROVE  ServerInv'
<1> DEFINE e == [pc |-> "wg0.conf", profile |-> p, revoke |-> revoke]
<1>1. /\ UNCHANGED <<wg, yml, issued, proposals, candWg, candYml>>
      /\ edit' = e /\ p \in Profiles /\ Accepted(p, revoke)
  BY DEF BeginEdit, ServerInv, ServerType
<1>2. ServerType'
  <2>1. e \in [pc : EditSteps, profile : Profiles, revoke : BOOLEAN]
    BY <1>1 DEF EditSteps
  <2> QED
    BY <1>1, <2>1 DEF ServerInv, ServerType
<1>3. EditIsSound'
  BY <1>1, FilesUntouched, Zenon DEF ServerInv, EditIsSound
<1>4. FilesAgree'
  BY <1>1, FilesUntouched DEF ServerInv, FilesAgree, EntriesOf, Managed
<1> QED
  BY <1>1, <1>2, <1>3, <1>4, FilesUntouched DEF ServerInv

\* An edit that ends, and a directory that is emptied, leave no stunmesh.yml
\* beside a missing or newer wg0.conf.
LEMMA EditEnds ==
  ASSUME ServerInv, UNCHANGED <<wg, yml, issued, proposals>>, edit' = NoEdit,
         \/ UNCHANGED <<candWg, candYml>>
         \/ candWg' = NoFile /\ candYml' = NoFile
  PROVE  ServerInv'
<1>1. ServerType'
  BY DEF ServerInv, ServerType, File, NoFile
<1>2. EditIsSound'
  BY DEF ServerInv, EditIsSound, NoEdit
<1>3. FilesAgree'
  BY FilesUntouched DEF ServerInv, FilesAgree, EntriesOf, Managed, NoFile
<1> QED
  BY <1>1, <1>2, <1>3, FilesUntouched DEF ServerInv

\* An edit that is under way has a profile and a step.
LEMMA EditUnderWay ==
  ASSUME ServerInv, edit.pc # "none"
  PROVE  /\ edit \in [pc : EditSteps, profile : Profiles, revoke : BOOLEAN]
         /\ edit.profile \in issued /\ Accepted(edit.profile, edit.revoke)
<1>1. edit # NoEdit
  BY DEF NoEdit
<1> QED
  BY <1>1 DEF ServerInv, ServerType, EditIsSound

\* WriteNew creates wg0.conf in an empty directory, or the edit ends.
LEMMA WriteWgSound == ASSUME ServerInv, WriteWg PROVE ServerInv'
<1>1. CASE candWg # NoFile
  BY <1>1, EditEnds DEF WriteWg, MayWrite
<1>2. CASE candWg = NoFile
  <2>1. /\ candYml = NoFile /\ candWg' = Partial /\ edit' = [edit EXCEPT !.pc = "wg0.conf written"]
        /\ UNCHANGED <<wg, yml, issued, proposals, candYml>>
    BY <1>2 DEF WriteWg, MayWrite, ServerInv, EditIsSound
  <2>2. /\ edit \in [pc : EditSteps, profile : Profiles, revoke : BOOLEAN]
        /\ edit.profile \in issued /\ Accepted(edit.profile, edit.revoke)
    BY EditUnderWay DEF WriteWg
  <2>3. ServerType'
    BY <2>1, <2>2 DEF ServerInv, ServerType, EditSteps, File, Partial
  <2>4. EditIsSound'
    <3>1. edit'.profile = edit.profile /\ edit'.revoke = edit.revoke /\ edit'.pc = "wg0.conf written"
      BY <2>1, <2>2
    <3> QED
      BY <2>1, <2>2, <3>1, FilesUntouched DEF EditIsSound, Partial, NoFile
  <2>5. FilesAgree'
    BY <2>1, FilesUntouched DEF FilesAgree, EntriesOf, Managed, Partial
  <2> QED
    BY <2>1, <2>3, <2>4, <2>5, FilesUntouched DEF ServerInv
<1> QED
  BY <1>1, <1>2

\* wg0.conf is complete; there is no stunmesh.yml beside it yet.
LEMMA FinishWgSound == ASSUME ServerInv, FinishWg PROVE ServerInv'
<1>1. /\ edit \in [pc : EditSteps, profile : Profiles, revoke : BOOLEAN]
      /\ edit.profile \in issued /\ Accepted(edit.profile, edit.revoke)
  BY EditUnderWay DEF FinishWg
<1>2. /\ candYml = NoFile /\ candWg' = Whole(EditedWg(edit.profile, edit.revoke))
      /\ edit' = [edit EXCEPT !.pc = "stunmesh.yml"]
      /\ UNCHANGED <<wg, yml, issued, proposals, candYml>>
  BY DEF FinishWg, ServerInv, EditIsSound
<1>3. ServerType'
  <2>1. EditedWg(edit.profile, edit.revoke) \subseteq Blocks
    BY <1>1, EditedType
  <2> QED
    BY <1>1, <1>2, <2>1 DEF ServerInv, ServerType, EditSteps, File, Whole
<1>4. EditIsSound'
  <2>1. edit'.profile = edit.profile /\ edit'.revoke = edit.revoke /\ edit'.pc = "stunmesh.yml"
    BY <1>1, <1>2
  <2> QED
    BY <1>1, <1>2, <2>1, FilesUntouched DEF EditIsSound
<1>5. FilesAgree'
  BY <1>2, FilesUntouched DEF FilesAgree, EntriesOf, Managed, NoFile
<1> QED
  BY <1>2, <1>3, <1>4, <1>5, FilesUntouched DEF ServerInv
\* WriteNew creates stunmesh.yml beside the wg0.conf of the same edit.
LEMMA WriteYmlSound == ASSUME ServerInv, WriteYml PROVE ServerInv'
<1>1. /\ edit \in [pc : EditSteps, profile : Profiles, revoke : BOOLEAN]
      /\ edit.profile \in issued /\ Accepted(edit.profile, edit.revoke)
  BY EditUnderWay DEF WriteYml
<1>2. /\ candWg = Whole(EditedWg(edit.profile, edit.revoke)) /\ candYml' = Partial
      /\ edit' = [edit EXCEPT !.pc = "stunmesh.yml written"]
      /\ UNCHANGED <<wg, yml, issued, proposals, candWg>>
  BY DEF WriteYml, MayWrite, ServerInv, EditIsSound
<1>3. ServerType'
  BY <1>1, <1>2 DEF ServerInv, ServerType, EditSteps, File, Partial
<1>4. EditIsSound'
  <2>1. edit'.profile = edit.profile /\ edit'.revoke = edit.revoke
        /\ edit'.pc = "stunmesh.yml written"
    BY <1>1, <1>2
  <2> QED
    BY <1>1, <1>2, <2>1, FilesUntouched DEF EditIsSound, Whole, NoFile
<1>5. FilesAgree'
  BY <1>2, FilesUntouched DEF FilesAgree, EntriesOf, Managed, Partial
<1> QED
  BY <1>2, <1>3, <1>4, <1>5, FilesUntouched DEF ServerInv

\* Both files are complete and, by EditedAgree, describe the same peers.
LEMMA FinishYmlSound == ASSUME ServerInv, FinishYml PROVE ServerInv'
<1> DEFINE W == EditedWg(edit.profile, edit.revoke)
           Y == EditedYml(edit.profile, edit.revoke)
<1>1. /\ edit \in [pc : EditSteps, profile : Profiles, revoke : BOOLEAN]
      /\ edit.profile \in issued /\ Accepted(edit.profile, edit.revoke)
  BY EditUnderWay DEF FinishYml
<1>2. /\ candWg = Whole(W) /\ candYml' = Whole(Y)
      /\ edit' = [edit EXCEPT !.pc = "written"]
      /\ UNCHANGED <<wg, yml, issued, proposals, candWg>>
  BY DEF FinishYml, ServerInv, EditIsSound
<1>3. ServerType'
  <2>1. Y \subseteq Entries
    BY <1>1, EditedType
  <2> QED
    BY <1>1, <1>2, <2>1 DEF ServerInv, ServerType, EditSteps, File, Whole
<1>4. EditIsSound'
  <2>1. edit'.profile = edit.profile /\ edit'.revoke = edit.revoke /\ edit'.pc = "written"
    BY <1>1, <1>2
  <2> QED
    BY <1>1, <1>2, <2>1, FilesUntouched DEF EditIsSound, Whole, NoFile
<1>5. FilesAgree'
  <2>1. EntriesOf(W) = Y
    BY <1>1, EditedAgree DEF ServerInv
  <2>2. candWg'.content = W /\ candYml'.content = Y
    BY <1>2 DEF Whole
  <2>3. EntriesOf(candWg.content)' = EntriesOf(W)
    BY <2>2 DEF EntriesOf, Managed
  <2> QED
    BY <1>2, <2>1, <2>2, <2>3, FilesUntouched DEF FilesAgree, EntriesOf, Managed
<1> QED
  BY <1>2, <1>3, <1>4, <1>5, FilesUntouched DEF ServerInv

\* A failed write, a killed edit and an emptied directory.
LEMMA EndSound ==
  ASSUME ServerInv, WriteFails \/ KillEdit \/ Discard
  PROVE  ServerInv'
<1>1. CASE WriteFails
  <2>1. candYml' = NoFile
    BY <1>1 DEF WriteFails, ServerInv, EditIsSound
  <2> QED
    BY <1>1, <2>1, EditEnds DEF WriteFails
<1>2. CASE KillEdit
  BY <1>2, EditEnds DEF KillEdit
<1>3. CASE Discard
  <2>1. edit' = NoEdit
    BY <1>3 DEF Discard, ServerInv, ServerType, EditSteps
  <2> QED
    BY <1>3, <2>1, EditEnds DEF Discard
<1> QED
  BY <1>1, <1>2, <1>3

\* What Install puts in place: the pair the edit was accepted for.
LEMMA InstallsEdited ==
  ASSUME ServerInv, Install
  PROVE  \E p \in Profiles, revoke \in BOOLEAN :
           /\ p \in issued /\ p.name # NoName /\ Accepted(p, revoke)
           /\ wg' = EditedWg(p, revoke) /\ yml' = EditedYml(p, revoke)
<1>1. /\ edit \in [pc : EditSteps, profile : Profiles, revoke : BOOLEAN]
      /\ edit.profile \in issued /\ Accepted(edit.profile, edit.revoke)
  BY EditUnderWay DEF Install
<1>2. edit.profile.name # NoName
  BY <1>1, ServerAssumption DEF Profiles
<1>3. /\ wg' = EditedWg(edit.profile, edit.revoke)
      /\ yml' = EditedYml(edit.profile, edit.revoke)
  BY DEF Install, ServerInv, EditIsSound, Whole
<1> QED
  BY <1>1, <1>2, <1>3

\* The pair put in place is one Edited returned for the files it replaces.
LEMMA InstallSound == ASSUME ServerInv, Install PROVE ServerInv'
<1>1. PICK p \in Profiles, revoke \in BOOLEAN :
        /\ p \in issued /\ p.name # NoName /\ Accepted(p, revoke)
        /\ wg' = EditedWg(p, revoke) /\ yml' = EditedYml(p, revoke)
  BY InstallsEdited
<1>2. /\ candWg' = NoFile /\ candYml' = NoFile /\ edit' = NoEdit
      /\ UNCHANGED <<issued, proposals>>
  BY DEF Install
<1>3. ServerType'
  <2>1. wg' \subseteq Blocks /\ yml' \subseteq Entries
    BY <1>1, EditedType
  <2> QED
    BY <1>2, <2>1 DEF ServerInv, ServerType, File, NoFile
<1>4. \A b \in wg' : (b \in wg /\ b.name # p.name) \/ (~revoke /\ b = p)
  BY <1>1 DEF EditedWg, Others
<1>5. EnrolledIsSound'
  <2>1. \A b, c \in Managed(wg') : b.name = c.name => b = c
    BY <1>4 DEF ServerInv, EnrolledIsSound, Managed
  <2>2. \A b \in wg' : b.addr \notin proposals'
    BY <1>1, <1>2, <1>4 DEF ServerInv, EnrolledIsSound
  <2> QED
    BY <1>2, <2>1, <2>2 DEF ServerInv, EnrolledIsSound, Managed
<1>6. EditIsSound'
  BY <1>2 DEF EditIsSound, NoEdit
<1>7. FilesAgree'
  <2>1. EntriesOf(wg)' = EntriesOf(EditedWg(p, revoke))
    BY <1>1 DEF EntriesOf, Managed
  <2>2. EntriesOf(wg)' = yml'
    BY <1>1, <2>1, EditedAgree DEF ServerInv
  <2> QED
    BY <1>2, <2>2 DEF FilesAgree, EntriesOf, Managed, NoFile
<1>8. PeersAreDistinct'
  <2>1. ~revoke => \A b \in Others(p) : b.addr # p.addr /\ b.key # p.key
    BY <1>1 DEF Accepted, Live
  <2> QED
    BY <1>4, <2>1 DEF ServerInv, PeersAreDistinct, Others
<1> QED
  BY <1>3, <1>5, <1>6, <1>7, <1>8 DEF ServerInv
\* Every step of the server's processes keeps its invariant.
LEMMA ServerStepSound ==
  ASSUME ServerInv, ServerNext \/ UNCHANGED serverVars
  PROVE  ServerInv'
<1>1. CASE UNCHANGED serverVars
  <2>1. UNCHANGED <<wg, yml, issued, proposals, edit, candWg, candYml>>
    BY <1>1 DEF serverVars
  <2>2. ServerType' /\ EditIsSound'
    BY <2>1, FilesUntouched, Zenon DEF ServerInv, ServerType, EditIsSound
  <2>3. FilesAgree'
    BY <2>1 DEF ServerInv, FilesAgree, EntriesOf, Managed
  <2> QED
    BY <2>1, <2>2, <2>3, FilesUntouched DEF ServerInv
<1>2. CASE \E name \in Names, key \in Keys, addr \in Addresses : Issue(name, key, addr)
  BY <1>2, IssueSound
<1>3. CASE \E p \in issued, revoke \in BOOLEAN : BeginEdit(p, revoke)
  BY <1>3, BeginEditSound
<1>4. CASE WriteWg \/ FinishWg \/ WriteYml \/ FinishYml
  BY <1>4, WriteWgSound, FinishWgSound, WriteYmlSound, FinishYmlSound
<1>5. CASE WriteFails \/ KillEdit \/ Discard
  BY <1>5, EndSound
<1>6. CASE Install
  BY <1>6, InstallSound
<1>7. CASE \E addr \in Addresses : ServerNew(addr) \/ ProvisionNew(addr)
  BY <1>7, ProposalSound
<1>8. CASE \E addr, replied \in Addresses, key \in Keys : EnterPhone(addr, replied, key)
  BY <1>8, EnterPhoneSound
<1> QED
  BY <1>1, <1>2, <1>3, <1>4, <1>5, <1>6, <1>7, <1>8 DEF ServerNext

-----------------------------------------------------------------------------
(* The host.                                                                *)

\* The host starts without a profile, an interface and a receipt.
LEMMA HostInitSound == HostInit => HostInv
BY DEF HostInit, HostInv, HostType, OwnershipIsSound, NoLink, NoReceipt

\* An interface that CleanupOwned may delete is one a run created.
LEMMA OwnedIsOwn ==
  ASSUME HostInv, NEW k, OwnedByReceipt(k), link.there
  PROVE  link.own
BY Zenon DEF HostInv, OwnershipIsSound, OwnedByReceipt

\* Every step of the service and of the administrator keeps the host's invariant.
LEMMA HostStepSound ==
  ASSUME HostInv, HostNext \/ UNCHANGED hostVars
  PROVE  HostInv'
<1> USE DEF HostInv, HostType, OwnershipIsSound
<1>1. CASE UNCHANGED hostVars
  BY <1>1 DEF hostVars
<1>2. CASE Begin \/ ServeEnds \/ Kill
  BY <1>2 DEF Begin, ServeEnds, Kill
<1>3. CASE LinkAdd
  <2>1. CASE link.there
    BY <1>3, <2>1 DEF LinkAdd
  <2>2. CASE ~link.there
    <3>1. /\ link' = [there |-> TRUE, key |-> NoKey, own |-> TRUE] /\ service' = "added"
          /\ UNCHANGED <<profile, held, receipt>>
      BY <1>3, <2>2 DEF LinkAdd
    <3> QED
      BY <3>1
  <2> QED
    BY <2>1, <2>2
<1>4. CASE Configure
  BY <1>4 DEF Configure
<1>5. CASE SetupFails
  BY <1>5, Zenon DEF SetupFails, Unlink, NoLink
<1>6. CASE Record
  <2>1. link.there /\ link.own /\ UNCHANGED <<profile, held, link>>
    BY <1>6 DEF Record
  <2>2. CASE receipt' = [NoReceipt EXCEPT !.state = "partial"] /\ service' = "recording"
    BY <2>1, <2>2 DEF NoReceipt
  <2>3. CASE service' = "cleanup" /\ UNCHANGED receipt
    BY <2>1, <2>3
  <2> QED
    BY <1>6, <2>2, <2>3 DEF Record
<1>7. CASE Recorded \/ RecordFails
  <2>1. link.there /\ link.own /\ UNCHANGED <<profile, held, link>>
    BY <1>7 DEF Recorded, RecordFails
  <2>2. CASE Recorded
    BY <2>1, <2>2 DEF Recorded
  <2>3. CASE RecordFails
    BY <2>1, <2>3 DEF RecordFails, NoReceipt
  <2> QED
    BY <1>7, <2>2, <2>3
<1>8. ASSUME NEW k, CleanupOwned(k),
             service' \in {"cleanup", "stopped"}, held' \in {held, NoKey}, profile' = profile
      PROVE  HostInv'
  <2>1. CASE link' = NoLink /\ receipt' = NoReceipt
    BY <1>8, <2>1 DEF NoLink, NoReceipt
  <2>2. CASE UNCHANGED <<link, receipt>>
    BY <1>8, <2>2
  <2> QED
    BY <1>8, <2>1, <2>2 DEF CleanupOwned
<1>9. CASE Release \/ CleanOwned
  BY <1>8, <1>9 DEF Release, CleanOwned
<1>10. CASE Cleanup
  <2>1. CASE Unlink
    BY <1>10, <2>1, Zenon DEF Cleanup, Unlink, NoLink
  <2>2. CASE UNCHANGED <<link, receipt>>
    BY <1>10, <2>2 DEF Cleanup
  <2> QED
    BY <1>10, <2>1, <2>2 DEF Cleanup
<1>11. CASE KillCleanup
  BY <1>11 DEF KillCleanup, Unlink, NoLink
<1>12. CASE Administer
  <2>1. CASE DeleteLink
    BY <2>1 DEF DeleteLink, Unlink, NoLink
  <2>2. ASSUME NEW k \in HostKeys \cup {NoKey}, AddLink(k) PROVE HostInv'
    BY <2>2 DEF AddLink
  <2> QED
    BY <1>12, <2>1, <2>2 DEF Administer
<1> QED
  BY <1>1, <1>2, <1>3, <1>4, <1>5, <1>6, <1>7, <1>9, <1>10, <1>11, <1>12
     DEF HostNext, ServiceStep, ServiceFails

\* A profile the server issued has a key an interface may have.
LEMMA DeliverSound == ASSUME ServerInv, HostInv, Deliver PROVE ServerInv' /\ HostInv'
<1>1. PICK p \in issued : p.name = Host /\ ReplaceProfile(p.key) /\ UNCHANGED serverVars
  BY DEF Deliver
<1>2. p.key \in HostKeys
  BY EnrolmentAssumption DEF ServerInv, ServerType, Profiles
<1>3. HostInv'
  BY <1>1, <1>2 DEF ReplaceProfile, HostInv, HostType, OwnershipIsSound
<1> QED
  BY <1>1, <1>3, ServerStepSound

-----------------------------------------------------------------------------
\* The invariant of the whole: every step of the server, of the host and of the
\* delivery keeps it.
LEMMA Invariance == Spec => []IInv
<1>1. Init => IInv
  BY ServerInitSound, HostInitSound DEF Init, IInv
<1>2. IInv /\ [Next]_vars => IInv'
  <2> SUFFICES ASSUME IInv, [Next]_vars PROVE IInv'
    OBVIOUS
  <2>1. CASE ServerNext /\ UNCHANGED hostVars
    BY <2>1, ServerStepSound, HostStepSound DEF IInv
  <2>2. CASE HostNext /\ UNCHANGED serverVars
    BY <2>2, ServerStepSound, HostStepSound DEF IInv
  <2>3. CASE Deliver
    BY <2>3, DeliverSound DEF IInv
  <2>4. CASE UNCHANGED vars
    BY <2>4, ServerStepSound, HostStepSound DEF IInv, vars
  <2> QED
    BY <2>1, <2>2, <2>3, <2>4 DEF Next
<1> QED
  BY <1>1, <1>2, PTL DEF Spec

\* WriteEdited, its rollback, a crash or an error at any point: the two files
\* never come from different edits.
THEOREM PairsAgree == Spec => []FilesAgree
<1>1. IInv => FilesAgree
  BY DEF IInv, ServerInv
<1> QED
  BY Invariance, <1>1, PTL

\* Edited, serverNew and the check of a reply never authorise an address or a
\* key twice.
THEOREM NoPeerTwice == Spec => []PeersAreDistinct
<1>1. IInv => PeersAreDistinct
  BY DEF IInv, ServerInv
<1> QED
  BY Invariance, <1>1, PTL

\* Edited refuses a profile of another key for an active name, so that an
\* installation never replaces an identity.
THEOREM IdentitiesStay == Spec => IdentityIsKept
<1> DEFINE Kept == \A b \in wg, c \in wg' : b.name = c.name /\ b.name # NoName => b.key = c.key
<1>1. ASSUME ServerInv, wg' = wg PROVE Kept
  BY <1>1 DEF ServerInv, EnrolledIsSound, Managed
<1>2. ASSUME ServerInv, Install PROVE Kept
  <2>1. PICK p \in Profiles, revoke \in BOOLEAN :
          /\ p \in issued /\ p.name # NoName /\ Accepted(p, revoke)
          /\ wg' = EditedWg(p, revoke) /\ yml' = EditedYml(p, revoke)
    BY <1>2, InstallsEdited
  <2>2. \A c \in wg' : c \in wg \/ c = p
    BY <2>1 DEF EditedWg, Others
  <2>3. \A b \in wg : b.name = p.name => b.key = p.key
    BY <2>1 DEF Accepted, SameIdentity
  <2> QED
    BY <1>2, <2>2, <2>3 DEF ServerInv, EnrolledIsSound, Managed
<1>3. ASSUME ServerInv, NEW addr, NEW replied, NEW key, EnterPhone(addr, replied, key) PROVE Kept
  <2>1. \A c \in wg' : c \in wg \/ c.name = NoName
    BY <1>3 DEF EnterPhone
  <2> QED
    BY <1>3, <2>1 DEF ServerInv, EnrolledIsSound, Managed
<1>4. ASSUME ServerInv, ServerNext PROVE Kept
  <2>1. \/ wg' = wg \/ Install
        \/ \E addr, replied \in Addresses, key \in Keys : EnterPhone(addr, replied, key)
    BY <1>4 DEF ServerNext, Issue, BeginEdit, WriteWg, FinishWg, WriteYml, FinishYml, WriteFails,
       KillEdit, Discard, ServerNew, ProvisionNew
  <2> QED
    BY <1>1, <1>2, <1>3, <1>4, <2>1
<1>5. IInv /\ [Next]_vars => [Kept]_serverVars
  BY <1>4 DEF IInv, Next, Deliver, vars
<1> QED
  BY Invariance, <1>5, PTL DEF Spec, IdentityIsKept

\* CleanupOwned never deletes an interface that no run created; the receipt of
\* an earlier one does not help, whatever its key.
THEOREM ForeignInterfacesStay == Spec => ForeignSurvives
<1> DEFINE Survives == link.there /\ ~link.own /\ link' # link =>
                         Administer \/ (service = "cleanup" /\ MayDelete(held))
<1>1. ASSUME HostInv, NEW k, CleanupOwned(k), link.there, ~link.own PROVE link' = link
  BY <1>1, OwnedIsOwn DEF CleanupOwned
<1>2. ASSUME HostInv, Release \/ CleanOwned PROVE Survives
  BY <1>1, <1>2 DEF Release, CleanOwned
<1>3. ASSUME HostInv, KillCleanup PROVE Survives
  BY <1>3, OwnedIsOwn DEF KillCleanup
<1>4. ASSUME HostInv, LinkAdd \/ Configure \/ SetupFails \/ Cleanup PROVE Survives
  BY <1>4 DEF HostInv, OwnershipIsSound, LinkAdd, Configure, SetupFails, Cleanup
<1>5. ASSUME HostInv, HostNext PROVE Survives
  <2>1. CASE Begin \/ Record \/ Recorded \/ RecordFails \/ ServeEnds \/ Kill
    BY <2>1 DEF Begin, Record, Recorded, RecordFails, ServeEnds, Kill
  <2> QED
    BY <1>2, <1>3, <1>4, <1>5, <2>1 DEF HostNext, ServiceStep, ServiceFails
<1>6. IInv /\ [Next]_vars => [Survives]_hostVars
  BY <1>5 DEF IInv, Next, Deliver, ReplaceProfile, vars
<1> QED
  BY Invariance, <1>6, PTL DEF Spec, ForeignSurvives

\* The server's files, its edits and the host's service keep their types.
THEOREM TypeCorrect == Spec => [](ServerType /\ HostType)
<1>1. IInv => ServerType /\ HostType
  BY DEF IInv, ServerInv, HostInv
<1> QED
  BY Invariance, <1>1, PTL

-----------------------------------------------------------------------------
(* What enrolment amounts to.                                               *)

\* wg0.conf is the roster; stunmesh.yml follows from it (FilesAgree) and the
\* candidate files and the steps of an edit do not count.
Promise == INSTANCE Roster WITH members <- wg, offers <- issued, held <- proposals

\* Edited's view of the other peers, as Roster puts it.
LEMMA OthersAreNoNamesakes ==
  ASSUME NEW p
  PROVE  Others(p) = wg \ Promise!Namesakes(p)
  BY DEF Others, Promise!Namesakes

\* A key that Issue and the owner of a phone may use is new to the roster.
LEMMA UnusedIsNew ==
  ASSUME NEW key
  PROVE  key \notin UsedKeys <=> Promise!New(key)
  BY DEF UsedKeys, Promise!New

\* Install is the whole effect of an activation or a revocation, whatever was
\* issued, proposed or written since the edit read the files.
LEMMA InstallRefines ==
  ASSUME ServerInv, Install
  PROVE  \E o \in issued : Promise!Join(o) \/ Promise!Leave(o)
<1>1. PICK p \in Profiles, revoke \in BOOLEAN :
        /\ p \in issued /\ p.name # NoName /\ Accepted(p, revoke)
        /\ wg' = EditedWg(p, revoke) /\ yml' = EditedYml(p, revoke)
  BY InstallsEdited
<1>2. UNCHANGED <<issued, proposals>>
  BY DEF Install
<1>3. \A m \in Promise!Namesakes(p) : m.key = p.key
  BY <1>1 DEF Accepted, SameIdentity, Promise!Namesakes
<1>4. CASE revoke
  <2>1. wg' = wg \ Promise!Namesakes(p)
    BY <1>1, <1>4, OthersAreNoNamesakes DEF EditedWg
  <2> QED
    BY <1>1, <1>2, <1>3, <2>1 DEF Promise!Leave
<1>5. CASE ~revoke
  <2>1. wg' = (wg \ Promise!Namesakes(p)) \cup {p}
    BY <1>1, <1>5, OthersAreNoNamesakes DEF EditedWg
  <2>2. \A m \in wg \ Promise!Namesakes(p) : m.key # p.key /\ m.addr # p.addr
    BY <1>1, <1>5, OthersAreNoNamesakes DEF Accepted, Live
  <2> QED
    BY <1>1, <1>2, <1>3, <2>1, <2>2 DEF Promise!Join
<1> QED
  BY <1>4, <1>5

\* A step of the server is a step of the roster or invisible in it.
LEMMA ServerStepRefines ==
  ASSUME ServerInv, ServerNext
  PROVE  Promise!Next \/ UNCHANGED <<wg, issued, proposals>>
<1>1. ASSUME NEW name \in Names, NEW key \in Keys, NEW addr \in Addresses, Issue(name, key, addr)
      PROVE  Promise!Next
  <2>1. Promise!Offer(name, key, addr)
    BY <1>1, UnusedIsNew DEF Issue, Promise!Offer
  <2> QED
    BY <2>1 DEF Promise!Next, Promise!Addresses, Addresses
<1>2. ASSUME NEW addr \in Addresses, ServerNew(addr) \/ ProvisionNew(addr)
      PROVE  Promise!Next
  <2>1. addr \notin Reserved /\ proposals' = proposals \cup {addr} /\ UNCHANGED <<wg, issued>>
    BY <1>2 DEF ServerNew, ProvisionNew, PhoneAddress
  <2>2. addr \notin proposals /\ \A m \in wg \cup issued : m.addr # addr
    BY <2>1 DEF Reserved, Live
  <2>3. Promise!Hold(addr)
    BY <2>1, <2>2 DEF Promise!Hold
  <2> QED
    BY <2>3 DEF Promise!Next, Promise!Addresses, Addresses
<1>3. ASSUME NEW addr \in Addresses, NEW replied \in Addresses, NEW key \in Keys,
             EnterPhone(addr, replied, key)
      PROVE  Promise!Next
  <2>1. Promise!Claim(addr, key)
    BY <1>3, UnusedIsNew DEF EnterPhone, CheckReply, Promise!Claim
  <2> QED
    BY <2>1 DEF Promise!Next, Promise!Addresses, Addresses
<1>4. CASE Install
  BY <1>4, InstallRefines DEF Promise!Next
<1>5. CASE \/ \E p \in issued, revoke \in BOOLEAN : BeginEdit(p, revoke)
           \/ WriteWg \/ FinishWg \/ WriteYml \/ FinishYml \/ WriteFails \/ KillEdit \/ Discard
  BY <1>5 DEF BeginEdit, WriteWg, FinishWg, WriteYml, FinishYml, WriteFails, KillEdit, Discard
<1> QED
  BY <1>1, <1>2, <1>3, <1>4, <1>5 DEF ServerNext

\* An edit takes effect at once or not at all: reading, writing two candidate
\* files, errors, rollbacks, kills and installation together are one step in
\* which a client joins or leaves, for which nobody else's key or address is
\* touched, and what was checked when the files were read still holds when they
\* are replaced.
THEOREM Refinement == Spec => Promise!Spec
<1>1. Init => Promise!Init
  BY DEF Init, ServerInit, Promise!Init
<1>2. IInv /\ [Next]_vars => [Promise!Next]_(Promise!vars)
  <2> SUFFICES ASSUME IInv, [Next]_vars PROVE Promise!Next \/ UNCHANGED <<wg, issued, proposals>>
    BY DEF Promise!vars
  <2>1. CASE ServerNext
    BY <2>1, ServerStepRefines DEF IInv
  <2>2. CASE UNCHANGED serverVars
    BY <2>2 DEF serverVars
  <2> QED
    BY <2>1, <2>2 DEF Next, Deliver, vars
<1> QED
  BY <1>1, <1>2, Invariance, PTL DEF Spec, Promise!Spec

-----------------------------------------------------------------------------
(* What the host repairs by itself.                                         *)

\* The window in which an interface has no receipt that names it: from "link add"
\* until the receipt is complete, and until the deferred Cleanup of a run that got
\* no receipt.
Exposed == link.there /\ ~(receipt.state = "whole" /\ receipt.names)

\* The service's own steps, the failures that its error paths handle, and kills
\* outside that window.
Survivable ==
  \/ ServiceStep \/ ServeEnds \/ SetupFails \/ RecordFails \/ KillCleanup
  \/ Kill /\ ~Exposed

\* The service can go on by itself, from wherever it is.
Sane ==
  /\ profile # NoKey
  /\ service \notin {"stopped", "ended"} => held = profile
  /\ service \notin {"added", "configured", "recording", "cleanup"} => ~Blocked
  /\ receipt.state = "partial" => service = "recording"
  /\ receipt.state = "whole" => receipt.key = profile
  /\ service \in {"added", "configured", "recording"} => ~receipt.names
  /\ service \in {"configured", "recording", "cleanup"} /\ link.there => link.key = profile
  /\ service \in {"serving", "release"} => receipt.state = "whole"

\* With nothing left behind, a stopped or ended service that is not blocked is sane.
LEMMA UnblockedIsSane ==
  ASSUME HostInv, service \in {"stopped", "ended"}, profile # NoKey, ~Blocked
  PROVE  Sane
  BY DEF HostInv, HostType, Sane, Blocked

\* CleanupOwned removes interface and receipt when the service is sane.
LEMMA SaneCleanup ==
  ASSUME HostInv, Sane, service \in {"release", "ended"}, CleanupOwned(profile)
  PROVE  ~link'.there /\ receipt'.state = "absent"
<1>1. ~Blocked
  BY DEF Sane
<1>2. CASE receipt.state = "absent"
  <2>1. ~link.there
    BY <1>1, <1>2 DEF Blocked
  <2> QED
    BY <1>2, <2>1 DEF CleanupOwned, OwnedByReceipt
<1>3. CASE receipt.state = "whole"
  <2>1. OwnedByReceipt(profile) /\ (link.there => MayDelete(profile))
    BY <1>1, <1>3 DEF Blocked, Sane, OwnedByReceipt, MayDelete
  <2> QED
    BY <2>1 DEF CleanupOwned, NoLink, NoReceipt
<1> QED
  BY <1>2, <1>3 DEF HostInv, HostType, Sane

\* No survivable step makes a sane service depend on the administrator.
LEMMA SurvivableKeepsSane == ASSUME HostInv, Sane, [Survivable]_hostVars PROVE Sane'
<1>1. CASE UNCHANGED hostVars
  BY <1>1 DEF hostVars, Sane, Blocked
<1>2. CASE Begin \/ ServeEnds
  BY <1>2 DEF Begin, ServeEnds, Sane, Blocked
<1>3. CASE LinkAdd
  <2>1. CASE link.there
    BY <1>3, <2>1 DEF LinkAdd, Sane, Blocked
  <2>2. CASE ~link.there
    <3>1. /\ link' = [there |-> TRUE, key |-> NoKey, own |-> TRUE] /\ service' = "added"
          /\ UNCHANGED <<profile, held, receipt>>
      BY <1>3, <2>2 DEF LinkAdd
    <3> QED
      BY <1>3, <2>2, <3>1 DEF LinkAdd, Sane, HostInv, OwnershipIsSound
  <2> QED
    BY <2>1, <2>2
<1>4. CASE Configure
  BY <1>4 DEF Configure, Sane, HostInv, HostType
<1>5. CASE SetupFails
  BY <1>5 DEF SetupFails, Unlink, NoLink, Sane, Blocked, HostInv, HostType
<1>6. CASE Record
  <2>1. CASE receipt' = [NoReceipt EXCEPT !.state = "partial"] /\ service' = "recording"
    BY <1>6, <2>1 DEF Record, NoReceipt, Sane
  <2>2. CASE service' = "cleanup" /\ UNCHANGED receipt
    BY <1>6, <2>2 DEF Record, Sane
  <2> QED
    BY <1>6, <2>1, <2>2 DEF Record
<1>7. CASE Recorded
  BY <1>7 DEF Recorded, Sane, Blocked
<1>8. CASE RecordFails
  BY <1>8 DEF RecordFails, NoReceipt, Sane
<1>9. CASE Release
  <2>1. held = profile /\ ~link'.there /\ receipt'.state = "absent"
    BY <1>9, SaneCleanup DEF Release, Sane
  <2> QED
    BY <1>9, <2>1 DEF Release, Sane
<1>10. CASE Cleanup
  <2>1. held = profile
    BY <1>10 DEF Cleanup, Sane
  <2>2. CASE link.there
    <3>1. Unlink
      BY <1>10, <2>1, <2>2, Zenon DEF Cleanup, MayDelete, Sane
    <3> QED
      BY <1>10, <3>1 DEF Cleanup, Unlink, NoLink, Sane, Blocked, HostInv, HostType
  <2>3. CASE ~link.there
    BY <1>10, <2>3 DEF Cleanup, Sane, Blocked
  <2> QED
    BY <2>2, <2>3
<1>11. CASE CleanOwned
  <2>1. ~link'.there /\ receipt'.state = "absent"
    BY <1>11, SaneCleanup DEF CleanOwned
  <2> QED
    BY <1>11, <2>1 DEF CleanOwned, Sane, Blocked
<1>12. CASE KillCleanup
  BY <1>12 DEF KillCleanup, Unlink, NoLink, Sane, Blocked, HostInv, HostType
<1>13. CASE Kill /\ ~Exposed
  <2>1. receipt.state # "partial"
    BY <1>13 DEF Exposed, Sane, HostInv, OwnershipIsSound
  <2>2. link.there => link.key = profile
    BY <1>13 DEF Kill, Exposed, Sane, Blocked, HostInv, OwnershipIsSound
  <2> QED
    BY <1>13, <2>1, <2>2 DEF Kill, Exposed, Sane, Blocked
<1> QED
  BY <1>1, <1>2, <1>3, <1>4, <1>5, <1>6, <1>7, <1>8, <1>9, <1>10, <1>11, <1>12, <1>13
     DEF Survivable, ServiceStep

\* The repairs ServiceRecovers relies on, for any number of crashes: a stopped
\* service that is not blocked stays so as long as the administrator keeps away
\* and the profile is the same.  Errors of Setup and of the receipt, a kill before
\* "link add", while serving or during the release, and a clean-up cut off in
\* the middle never need a hand; only a kill between "link add" and the
\* complete receipt can.
THEOREM SelfRepair ==
  Spec => []( /\ service \in {"stopped", "ended"} /\ profile # NoKey /\ ~Blocked
              /\ [][Survivable]_hostVars
              => [](service \in {"stopped", "ended"} => ~Blocked) )
<1>1. IInv /\ service \in {"stopped", "ended"} /\ profile # NoKey /\ ~Blocked => Sane
  BY UnblockedIsSane DEF IInv
<1>2. IInv /\ Sane /\ [Survivable]_hostVars => Sane'
  BY SurvivableKeepsSane DEF IInv
<1>3. Sane => (service \in {"stopped", "ended"} => ~Blocked)
  BY DEF Sane
<1> QED
  BY <1>1, <1>2, <1>3, Invariance, PTL

\* linux-clean-owned leaves neither an interface nor a receipt behind, unless it
\* is blocked.
CleanedUp ==
  [][CleanOwned /\ profile # NoKey /\ ~Blocked => ~link'.there /\ receipt'.state = "absent"]_hostVars

\* A clean-up that is not blocked is complete: the next run finds nothing.
THEOREM CleanUpIsComplete == Spec => CleanedUp
<1>1. IInv => [CleanOwned /\ profile # NoKey /\ ~Blocked
                 => ~link'.there /\ receipt'.state = "absent"]_hostVars
  BY UnblockedIsSane, SaneCleanup DEF IInv, CleanOwned
<1> QED
  BY <1>1, Invariance, PTL DEF CleanedUp

\* A run that started with neither interface nor receipt and was not refused.
Clear ==
  /\ service \in {"stopped", "setup"} => ~link.there
  /\ service \in {"stopped", "setup", "added", "configured"} => receipt.state = "absent"
  /\ service \in {"stopped", "setup", "added", "configured", "recording", "serving"}

\* Left alone, such a run gets to "serving" and stays there: "link add" meets no
\* interface and the receipt no receipt.  The rest of ServiceRecovers is that
\* steps that can be taken are taken.
THEOREM RunIsNotRefused ==
  Spec => [](/\ service = "stopped" /\ ~link.there /\ receipt.state = "absent"
             /\ [][ServiceStep]_hostVars
             => []Clear)
<1>1. service = "stopped" /\ ~link.there /\ receipt.state = "absent" => Clear
  BY DEF Clear
<1>2. Clear /\ [ServiceStep]_hostVars => Clear'
  <2> SUFFICES ASSUME Clear, [ServiceStep]_hostVars PROVE Clear'
    OBVIOUS
  <2>1. CASE UNCHANGED hostVars
    BY <2>1 DEF Clear, hostVars
  <2>2. CASE Begin \/ LinkAdd \/ Configure
    BY <2>2 DEF Clear, Begin, LinkAdd, Configure
  <2>3. CASE Record \/ Recorded
    BY <2>3 DEF Clear, Record, Recorded
  <2>4. CASE Release \/ Cleanup \/ CleanOwned
    BY <2>4 DEF Clear, Release, Cleanup, CleanOwned
  <2> QED
    BY <2>1, <2>2, <2>3, <2>4 DEF ServiceStep
<1> QED
  BY <1>1, <1>2, PTL
=============================================================================
