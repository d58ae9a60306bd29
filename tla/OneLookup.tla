----------------------------- MODULE OneLookup ------------------------------
(***************************************************************************)
(* What the establish controller promises about lookups, without queue,    *)
(* pending map or mutex: a peer has at most one lookup, which is requested,*)
(* becomes active alone, and finishes.                                     *)
(***************************************************************************)
CONSTANT Peers

VARIABLE lookup   \* lookup[p]: "none", "queued" or "active"

Init == lookup = [p \in Peers |-> "none"]

\* A trigger gives a peer without a lookup one.
Request(p) ==
  /\ lookup[p] = "none"
  /\ lookup' = [lookup EXCEPT ![p] = "queued"]

\* Lookups are carried out one at a time.
Start(p) ==
  /\ lookup[p] = "queued"
  /\ \A q \in Peers : lookup[q] # "active"
  /\ lookup' = [lookup EXCEPT ![p] = "active"]

Finish(p) ==
  /\ lookup[p] = "active"
  /\ lookup' = [lookup EXCEPT ![p] = "none"]

Next == \E p \in Peers : Request(p) \/ Start(p) \/ Finish(p)

Spec == Init /\ [][Next]_lookup
=============================================================================
