------------------------------ MODULE Registry ------------------------------
(***************************************************************************)
(* What customer registration promises, without lookups that grow stale,   *)
(* counted codes, unique indexes or transactions: one roster of customers, *)
(* in the order of their codes.  A customer is added at its end, under an  *)
(* address and a phone number nobody on it has, by a referrer who is on it *)
(* already, and never leaves or moves.                                     *)
(***************************************************************************)
EXTENDS Sequences

CONSTANTS Requests, Email, Phone, Nobody

VARIABLE roster  \* customer code n is the n-th entry's

Enrolled == {roster[n].form : n \in DOMAIN roster}

RegistryInit == roster = <<>>

Enroll(r, q) ==
  /\ r \notin Enrolled
  /\ \A c \in Enrolled : Email[c] # Email[r] /\ Phone[c] # Phone[r]
  /\ q \in Enrolled \cup {Nobody}
  /\ roster' = Append(roster, [form |-> r, referrer |-> q])

RegistryNext == \E r \in Requests, q \in Requests \cup {Nobody} : Enroll(r, q)

RegistrySpec == RegistryInit /\ [][RegistryNext]_roster

=============================================================================
