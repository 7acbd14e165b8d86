----------------------------- MODULE MCMandates -----------------------------
(***************************************************************************)
(* Instances of Mandates for TLC: a cheap and a dear offer of one category *)
(* and an offer of another, grants that differ in category, cap and expiry.*)
(***************************************************************************)
EXTENDS Mandates

CONSTANTS n1, cheap, dear, other, housewares, dresses

EveryFit == [n \in Need |-> Offer]
Prices == [o \in Offer |-> IF o = dear THEN 3 ELSE 1]
Categories == [o \in Offer |-> IF o = other THEN dresses ELSE housewares]

Wide == [category |-> housewares, cap |-> 3, expiry |-> 2]
Narrow == [category |-> housewares, cap |-> 1, expiry |-> 2]
Brief == [category |-> housewares, cap |-> 1, expiry |-> 1]
Elsewhere == [category |-> dresses, cap |-> 3, expiry |-> 2]

AllGrants == {Wide, Narrow, Brief, Elsewhere}
OneGrant == {Brief}
=============================================================================
