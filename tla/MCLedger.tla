------------------------------ MODULE MCLedger ------------------------------
(***************************************************************************)
(* Instances of Ledger for TLC. Processes, matches, support cases and      *)
(* terms are interchangeable.                                              *)
(***************************************************************************)
EXTENDS Ledger, TLC

Symmetry == Permutations(Proc) \cup Permutations(Match) \cup Permutations(Case)
              \cup Permutations(Terms)
=============================================================================
