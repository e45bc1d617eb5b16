----------------------------- MODULE MCSessions -----------------------------
(* Constants of the TLC run of Sessions.                                   *)
EXTENDS Sessions

CONSTANTS u1, b1, b2

\* A user who has yet to register as a customer, or is one of the staff; anybody
\* may be promoted to administrator.
NewOrOld ==
  {[u \in Users |-> row] :
     row \in {Unregistered}
               \cup [role : {"MANAGER", "AGENT", "DRIVER"}, status : {"ACTIVE"}]}

=============================================================================
