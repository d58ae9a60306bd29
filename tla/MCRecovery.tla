----------------------------- MODULE MCRecovery -----------------------------
(* Endpoints for Recovery.  Records of the first sort before the others    *)
(* and cannot be used (the other family, say): with three records of a     *)
(* peer it takes one of the two places Get has, and a peer that is there   *)
(* is as good as offline.  Someone roams between all of them; the other    *)
(* peers come and go at an endpoint that Someone may have later.           *)
EXTENDS Recovery

AllAddrs == {1, 2, 3}
UsableAddrs == {2, 3}
SomeoneRoams == [p \in Peers |-> IF p = Someone THEN AllAddrs ELSE {NoAddr, 3}]
=============================================================================
