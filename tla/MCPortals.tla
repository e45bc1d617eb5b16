----------------------------- MODULE MCPortals -----------------------------
(* Constants of the TLC run of Portals.                                    *)
EXTENDS Portals, TLC

\* A customer of the agent's, and one who registers alone on the first one's code.
TwoJoin == <<1, 0>>
FirstRefersSecond == <<0, 1>>
OneInStock == <<1, 0>>
\* Two addresses of the first customer's, or one of each customer's.
TwoOrOneEach == <<{1, 2}, {2}>>
\* Which of the drivers has an attempt makes no difference to any property.
AlikeDrivers == Permutations(Drivers)

=============================================================================
