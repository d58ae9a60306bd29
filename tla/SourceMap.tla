----------------------------- MODULE SourceMap ------------------------------
(***************************************************************************)
(* What the proxy promises to those who steer it: every peer has at most   *)
(* one endpoint, an endpoint is given to a peer in one step, and only if   *)
(* no other peer has it.  A restart of the daemon forgets them all.        *)
(***************************************************************************)
CONSTANTS Peers, Addrs, NoAddr

VARIABLE endpoint   \* endpoint[p]: the endpoint of p, or NoAddr

Nowhere == [p \in Peers |-> NoAddr]

Init == endpoint = Nowhere

Assign(p, a) ==
  /\ \A q \in Peers \ {p} : endpoint[q] # a
  /\ endpoint' = [endpoint EXCEPT ![p] = a]

Forget == endpoint' = Nowhere

Next == Forget \/ \E p \in Peers, a \in Addrs : Assign(p, a)

Spec == Init /\ [][Next]_endpoint
=============================================================================
