--------------------------- MODULE MCSurroundings ---------------------------
(***************************************************************************)
(* An instance of Surroundings for TLC.                                    *)
(***************************************************************************)
EXTENDS Surroundings

CONSTANTS m1, b1, b2, b3, e1, e2

MCPolicy == {{e1}, {e2}}
=============================================================================
