---------------------------- MODULE HostRuntime -----------------------------
(***************************************************************************)
(* The Linux client as a host service (internal/linuxprofile/runtime.go    *)
(* and the commands of main.go): linux-run-owned creates the WireGuard     *)
(* interface, records that it did, serves and takes the interface down;    *)
(* linux-clean-owned repairs what a killed process left.  The service      *)
(* manager, outside the repository, runs the second after every end of the *)
(* first and then starts the first again.                                  *)
(*                                                                         *)
(* Interface indexes are never used twice, so of the index in the receipt  *)
(* the model keeps whether the interface it names is still there.  The     *)
(* administrator may add and delete interfaces of the same name while the  *)
(* service is stopped or serving; not between two commands of one          *)
(* operation, which the code has no means to exclude.                      *)
(***************************************************************************)
CONSTANTS
  HostKeys,    \* keys a profile or an interface may have
  NoKey        \* an interface that has not been configured

VARIABLES
  profile,     \* the key of the profile file, NoKey if there is none
  service,     \* where the service is
  held,        \* the key of the profile the running process has read
  link,        \* the interface: [there, key, own]; own if a run created it
  receipt      \* the ownership file: [state, key, names]; names if the interface
               \* whose index it holds still exists

hostVars == <<profile, service, held, link, receipt>>

ASSUME HostAssumption == NoKey \notin HostKeys

NoLink == [there |-> FALSE, key |-> NoKey, own |-> FALSE]
NoReceipt == [state |-> "absent", key |-> NoKey, names |-> FALSE]

HostInit ==
  /\ profile = NoKey /\ service = "stopped" /\ held = NoKey
  /\ link = NoLink /\ receipt = NoReceipt

\* The interface goes away, and with it what the receipt names.
Unlink == link' = NoLink /\ receipt' = [receipt EXCEPT !.names = FALSE]

-----------------------------------------------------------------------------
(* linux-run-owned.                                                         *)

\* Load, and a private runtime directory.
Begin ==
  /\ service = "stopped" /\ profile # NoKey
  /\ held' = profile
  /\ service' = "setup"
  /\ UNCHANGED <<profile, link, receipt>>

\* Setup, "link add": exclusive; an existing interface ends the run untouched.
LinkAdd ==
  /\ service = "setup"
  /\ IF link.there
     THEN service' = "ended" /\ UNCHANGED link
     ELSE service' = "added" /\ link' = [there |-> TRUE, key |-> NoKey, own |-> TRUE]
  /\ UNCHANGED <<profile, held, receipt>>

\* Setup, from setconf to the routes.
Configure ==
  /\ service = "added"
  /\ link' = [link EXCEPT !.key = held]
  /\ service' = "configured"
  /\ UNCHANGED <<profile, held, receipt>>

\* A failure inside Setup deletes the interface again.
SetupFails ==
  /\ service = "added"
  /\ Unlink
  /\ service' = "ended"
  /\ UNCHANGED <<profile, held>>

\* WriteNew of the receipt creates the file; one that exists ends the run, and
\* the deferred Cleanup follows.
Record ==
  /\ service = "configured"
  /\ IF receipt.state = "absent"
     THEN receipt' = [NoReceipt EXCEPT !.state = "partial"] /\ service' = "recording"
     ELSE service' = "cleanup" /\ UNCHANGED receipt
  /\ UNCHANGED <<profile, held, link>>

\* The receipt is complete.  What is left before Run is reading configuration.
Recorded ==
  /\ service = "recording"
  /\ receipt' = [state |-> "whole", key |-> held, names |-> TRUE]
  /\ service' = "serving"
  /\ UNCHANGED <<profile, held, link>>

\* Writing it fails: WriteNew removes the file.
RecordFails ==
  /\ service = "recording"
  /\ receipt' = NoReceipt
  /\ service' = "cleanup"
  /\ UNCHANGED <<profile, held, link>>

\* The daemon ends or never starts.
ServeEnds ==
  /\ service = "serving"
  /\ service' = "release"
  /\ UNCHANGED <<profile, held, link, receipt>>

\* Cleanup(k) may delete the interface: it has the identity k.  Any other, and
\* one without a key, is refused.
MayDelete(k) == link.key = k /\ k # NoKey

\* As below, trusting the key alone.
OwnedByKey(k) == receipt.state = "whole" /\ receipt.key = k

\* CleanupOwned(k) may go on: the receipt can be read, has the identity k and
\* names the interface, if there is one.
OwnedByReceipt(k) ==
  /\ receipt.state = "whole" /\ receipt.key = k
  /\ link.there => receipt.names

\* CleanupOwned that leaves the receipt of an interface that is gone.
CleanupOwnedLinkOnly(k) ==
  IF link.there /\ OwnedByReceipt(k) /\ MayDelete(k)
  THEN link' = NoLink /\ receipt' = NoReceipt
  ELSE UNCHANGED <<link, receipt>>

\* CleanupOwned: the interface first, then the receipt.
CleanupOwned(k) ==
  IF OwnedByReceipt(k) /\ (link.there => MayDelete(k))
  THEN link' = NoLink /\ receipt' = NoReceipt
  ELSE UNCHANGED <<link, receipt>>

\* The deferred CleanupOwned of run.
Release ==
  /\ service = "release"
  /\ CleanupOwned(held)
  /\ service' = "cleanup"
  /\ UNCHANGED <<profile, held>>

\* The deferred Cleanup of run.
Cleanup ==
  /\ service = "cleanup"
  /\ IF link.there /\ MayDelete(held) THEN Unlink ELSE UNCHANGED <<link, receipt>>
  /\ service' = "ended"
  /\ UNCHANGED <<profile, held>>

\* The process is killed.
Kill ==
  /\ service \notin {"stopped", "ended"}
  /\ service' = "ended"
  /\ UNCHANGED <<profile, held, link, receipt>>

-----------------------------------------------------------------------------
\* linux-clean-owned, with the profile file as it is then.
CleanOwned ==
  /\ service = "ended"
  /\ CleanupOwned(profile)
  /\ service' = "stopped" /\ held' = NoKey
  /\ UNCHANGED profile

\* A CleanupOwned killed between deleting the interface and the receipt.
KillCleanup ==
  /\ service \in {"release", "ended"}
  /\ LET k == IF service = "release" THEN held ELSE profile
     IN  link.there /\ OwnedByReceipt(k) /\ MayDelete(k)
  /\ Unlink
  /\ service' = IF service = "release" THEN "ended" ELSE "stopped"
  /\ held' = NoKey
  /\ UNCHANGED profile

-----------------------------------------------------------------------------
(* The administrator.                                                       *)

ReplaceProfile(k) ==
  /\ profile' = k
  /\ UNCHANGED <<service, held, link, receipt>>

AddLink(k) ==
  /\ service \in {"stopped", "serving"} /\ ~link.there
  /\ link' = [there |-> TRUE, key |-> k, own |-> FALSE]
  /\ UNCHANGED <<profile, service, held, receipt>>

DeleteLink ==
  /\ service \in {"stopped", "serving"} /\ link.there
  /\ Unlink
  /\ UNCHANGED <<profile, service, held>>

-----------------------------------------------------------------------------
\* The steps of the two commands, with those that need a failure apart.
ServiceStep ==
  Begin \/ LinkAdd \/ Configure \/ Record \/ Recorded \/ Release \/ Cleanup \/ CleanOwned

ServiceFails == SetupFails \/ RecordFails \/ Kill \/ KillCleanup

Administer == (\E k \in HostKeys \cup {NoKey} : AddLink(k)) \/ DeleteLink

HostNext == ServiceStep \/ ServiceFails \/ ServeEnds \/ Administer

-----------------------------------------------------------------------------
\* "This receipt prevents ExecStopPost from removing an interface when
\* ExecStartPre refused an already-existing interface, even one with the same
\* public key": an interface the service did not create disappears only by the
\* administrator's hand.  One exception is the code's: the deferred Cleanup of a
\* run goes by the key alone (ReplacementIsRefused).
ForeignSurvives ==
  [][link.there /\ ~link.own /\ link' # link =>
       Administer \/ (service = "cleanup" /\ MayDelete(held))]_hostVars

\* "refusing a replacement interface": an interface that stands in the place of
\* the one the run created is left alone by everything the end of a run does.
ReplacementIsRefused ==
  [][link.there /\ ~link.own /\ service \in {"release", "cleanup", "ended"} =>
       link' = link]_hostVars

\* What the service cannot repair by itself: an interface that is not its own or
\* that a run killed before its receipt left; a receipt that is incomplete or of
\* another profile.
Blocked ==
  \/ link.there /\ ~(receipt.state = "whole" /\ receipt.names /\ link.key = receipt.key)
  \/ receipt.state = "partial"
  \/ receipt.state = "whole" /\ receipt.key # profile

\* Everything else it repairs: if neither faults nor the administrator interfere
\* any more, it serves again and again, whatever the last crash left behind.
ServiceRecovers ==
  <>[][~(ServiceFails \/ Administer \/ profile' # profile)]_hostVars =>
    []<>(service = "serving" \/ (service = "stopped" /\ (Blocked \/ profile = NoKey)))
=============================================================================
