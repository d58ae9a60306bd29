----------------------------- MODULE Discovery ------------------------------
(***************************************************************************)
(* The rules of internal/discovery that the desktop publish controller and *)
(* the mobile controller share: which address families are discovered,     *)
(* when a partial result is good enough, what may be published and which   *)
(* family of a peer's record is used.                                      *)
(*                                                                         *)
(* An endpoint is any value other than None; a record gives each family an *)
(* endpoint or None.                                                       *)
(***************************************************************************)

CONSTANT None   \* the empty string: no endpoint

Families == {"ipv4", "ipv6"}

\* The families an interface protocol asks for; nothing for an unknown protocol.
Wanted(protocol) ==
  CASE protocol = "ipv4" -> {"ipv4"}
    [] protocol = "ipv6" -> {"ipv6"}
    [] protocol = "dualstack" -> Families
    [] OTHER -> {}

\* Dual-stack discovery insists on both families.
DiscoveryStrict(protocol, found) ==
  Wanted(protocol) # {} /\ \A f \in Wanted(protocol) : found[f] # None

\* DiscoverEndpoints returns no error: found[f] is what resolving f gave, None
\* for an error.  A single family must succeed; of two, one is enough.
DiscoverySucceeds(protocol, found) ==
  IF protocol = "dualstack" THEN \E f \in Families : found[f] # None
  ELSE Wanted(protocol) # {} /\ \A f \in Wanted(protocol) : found[f] # None

\* validate accepts the record: it is not empty.  The address classes it checks too
\* have passed the same checks in ParseResponse (stunwire/stun.go:135); a server
\* that answers with an address of the other family is left out.
Encodable(record) == \E f \in Families : record[f] # None

\* SelectEndpoint: the family used, or None for an error.  local is the set of
\* families of the last discovery, {} when it is unknown (nil).
SelectEndpoint(record, protocol, local) ==
  LET usable(f) == record[f] # None /\ (local = {} \/ f \in local)
      prefer(f, g) == IF usable(f) THEN f ELSE IF usable(g) THEN g ELSE None
      require(f) == IF record[f] # None THEN f ELSE None
  IN  CASE protocol \in {"", "ipv4"} -> require("ipv4")
        [] protocol = "ipv6" -> require("ipv6")
        [] protocol = "prefer_ipv4" -> prefer("ipv4", "ipv6")
        [] protocol = "prefer_ipv6" -> prefer("ipv6", "ipv4")
        [] OTHER -> None
=============================================================================
