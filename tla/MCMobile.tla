------------------------------ MODULE MCMobile ------------------------------
(***************************************************************************)
(* Mobile for TLC: no network, one with IPv4 only, or one with both        *)
(* families, of which either may not answer.  The candidate list is        *)
(* compared with its reference definition on every list of up to three     *)
(* records.                                                                *)
(***************************************************************************)
EXTENDS Mobile

MCUnderlays ==
  {Offline} \cup {[online |-> TRUE, families |-> fs] : fs \in {{"ipv4"}, Families}}

\* Two places, a private endpoint that only the configuration may name, and
\* three public ones.
MCAllowed(e) == e # "private"

Lists == INSTANCE Candidates WITH MaxEndpoints <- 2, Allowed <- MCAllowed

ASSUME CandidateListsAreRight ==
  LET Records == [ipv4 : {None, "private", "a", "b"}, ipv6 : {None, "b", "c"}]
  IN  \A bootstrap \in {None, "private", "a"}, protocol \in {"ipv4", "prefer_ipv6"},
         local \in {{}, {"ipv4"}, Families},
         records \in UNION {[1 .. n -> Records] : n \in 0 .. 3} :
        Lists!IsCandidateList(Lists!RecoveryCandidates(bootstrap, records, protocol, local),
                              bootstrap, records, protocol, local)
=============================================================================
