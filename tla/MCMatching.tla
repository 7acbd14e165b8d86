----------------------------- MODULE MCMatching -----------------------------
(***************************************************************************)
(* Instances of Matching for TLC: n1 and n2 close on their own where a     *)
(* configuration says so, n3 never does; n1 fits one offer, the others     *)
(* two.                                                                    *)
(***************************************************************************)
EXTENDS Matching, TLC

CONSTANTS s1, s2, n1, n2, n3, o1, o2

\* The second need is another buyer's.
Owners == [n \in Need |-> IF n = n2 THEN s2 ELSE s1]
SomeFit == [n \in Need |-> IF n = n1 THEN {o1} ELSE Offer]
=============================================================================
