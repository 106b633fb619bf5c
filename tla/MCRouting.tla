------------------------------ MODULE MCRouting ------------------------------
(***************************************************************************)
(* Instance of Routing.                                                    *)
(***************************************************************************)
EXTENDS Routing

CONSTANTS m1, m2, d1, h1, o1, c1, c2
==============================================================================
