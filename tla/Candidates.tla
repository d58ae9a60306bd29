----------------------------- MODULE Candidates -----------------------------
(***************************************************************************)
(* recoveryCandidates of the mobile controller: the endpoints a peer that  *)
(* does not answer is tried at, from the bootstrap endpoint of its         *)
(* configuration and the records the store returned for it.                *)
(***************************************************************************)
EXTENDS Naturals, SequencesExt, Discovery

CONSTANTS
  MaxEndpoints,      \* 4 in the code
  Allowed(_)         \* discovery.Allowed: a store may name this endpoint

\* add: None, repetitions and what exceeds the bound are dropped.
Add(list, endpoint) ==
  IF endpoint # None /\ ~Contains(list, endpoint) /\ Len(list) < MaxEndpoints
  THEN Append(list, endpoint) ELSE list

\* The endpoint of one record, None if it has no family to use or names an
\* endpoint that is not allowed.
Hint(record, protocol, local) ==
  LET f == SelectEndpoint(record, protocol, local)
  IN  IF f = None \/ ~Allowed(record[f]) THEN None ELSE record[f]

\* The bootstrap endpoint first, then the records in their order.
RecoveryCandidates(bootstrap, records, protocol, local) ==
  FoldLeft(LAMBDA list, r : Add(list, Hint(r, protocol, local)), Add(<<>>, bootstrap), records)

-----------------------------------------------------------------------------
\* What the list must be: the longest prefix within the bound of the bootstrap
\* endpoint and the usable hints, each at the place where it first occurs.
IsCandidateList(list, bootstrap, records, protocol, local) ==
  LET all == SelectSeq(<<bootstrap>> \o [i \in DOMAIN records |-> Hint(records[i], protocol, local)],
                       LAMBDA e : e # None)
      first == {i \in DOMAIN all : \A j \in 1 .. i - 1 : all[j] # all[i]}
      before(i) == Cardinality({j \in first : j < i})
  IN  /\ Len(list) = IF Cardinality(first) < MaxEndpoints THEN Cardinality(first) ELSE MaxEndpoints
      /\ \A i \in first : before(i) < MaxEndpoints => list[before(i) + 1] = all[i]
=============================================================================
