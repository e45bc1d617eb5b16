--------------------------- MODULE MCRegistration ---------------------------
(* Constants of the TLC run of Registration.                               *)
EXTENDS Registration

CONSTANTS r1, r2, r3, r4

\* r1 and r2 are one form sent twice; r3 gives the phone of r1 with another
\* address; r4 is unrelated.
SentTwice == [r \in Requests |-> CASE r \in {r1, r2} -> "kofi@"
                                   [] r = r3 -> "ama@"
                                   [] OTHER -> "yaw@"]

SharedPhone == [r \in Requests |-> IF r = r4 THEN "0202" ELSE "0201"]

=============================================================================
