------------------------------- MODULE Roster -------------------------------
(***************************************************************************)
(* What enrolment promises, without files, edits and crashes: a roster of  *)
(* members, each with a key and an address of its own.  Linux clients are  *)
(* offered a membership, join and leave under a name; phones are given an  *)
(* address that is held for them until they claim it.                      *)
(***************************************************************************)
EXTENDS Naturals

CONSTANTS Names, Keys, NoName, LastHost

Addresses == 2 .. LastHost

VARIABLES
  members,   \* [name, key, addr], name NoName for a phone
  offers,    \* the memberships offered to Linux clients
  held       \* addresses held for phones

vars == <<members, offers, held>>

Init == members = {} /\ offers = {} /\ held = {}

\* A key that no member has and that is in no offer.
New(key) == \A m \in members \cup offers : m.key # key

\* An offer is made with a new key, for an address no phone waits for.
Offer(name, key, addr) ==
  /\ New(key) /\ addr \notin held
  /\ offers' = offers \cup {[name |-> name, key |-> key, addr |-> addr]}
  /\ UNCHANGED <<members, held>>

Namesakes(o) == {m \in members : m.name = o.name}

\* A client joins, or comes back with another address: nobody else has its
\* address or its key, and its name has no other key.
Join(o) ==
  /\ \A m \in members \ Namesakes(o) : m.key # o.key /\ m.addr # o.addr
  /\ \A m \in Namesakes(o) : m.key = o.key
  /\ members' = (members \ Namesakes(o)) \cup {o}
  /\ UNCHANGED <<offers, held>>

\* A client leaves; only the key that joined under its name can take it out.
Leave(o) ==
  /\ \A m \in Namesakes(o) : m.key = o.key
  /\ members' = members \ Namesakes(o)
  /\ UNCHANGED <<offers, held>>

\* An address is held for a phone: nobody has it, waits for it or was offered it.
Hold(addr) ==
  /\ addr \notin held /\ \A m \in members \cup offers : m.addr # addr
  /\ held' = held \cup {addr}
  /\ UNCHANGED <<members, offers>>

\* A phone claims the address held for it, with a new key.
Claim(addr, key) ==
  /\ addr \in held /\ New(key)
  /\ members' = members \cup {[name |-> NoName, key |-> key, addr |-> addr]}
  /\ held' = held \ {addr}
  /\ UNCHANGED offers

Next ==
  \/ \E name \in Names, key \in Keys, addr \in Addresses : Offer(name, key, addr)
  \/ \E o \in offers : Join(o) \/ Leave(o)
  \/ \E addr \in Addresses : Hold(addr)
  \/ \E addr \in Addresses, key \in Keys : Claim(addr, key)

Spec == Init /\ [][Next]_vars
=============================================================================
