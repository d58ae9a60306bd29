----------------------------- MODULE Enrolment ------------------------------
(***************************************************************************)
(* The server's enrolment and one Linux host together.  What they share is *)
(* the profile: the server issues it, the host runs with it, and it may be *)
(* issued again, with another key, while the host still holds an interface *)
(* of the old one.                                                         *)
(***************************************************************************)
EXTENDS ServerEdit, HostRuntime

CONSTANT Host   \* the name of the host

ASSUME EnrolmentAssumption == Keys \subseteq HostKeys

vars == <<serverVars, hostVars>>

Init == ServerInit /\ HostInit

\* A profile issued for the host is put in the place of the one it has.
Deliver ==
  \E p \in issued :
    p.name = Host /\ ReplaceProfile(p.key) /\ UNCHANGED serverVars

Next ==
  \/ ServerNext /\ UNCHANGED hostVars
  \/ HostNext /\ UNCHANGED serverVars
  \/ Deliver

Spec == Init /\ [][Next]_vars

\* The service manager and the commands it runs keep going.
FairSpec == Spec /\ WF_vars(ServiceStep /\ UNCHANGED serverVars)
=============================================================================
