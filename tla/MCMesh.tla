------------------------------- MODULE MCMesh -------------------------------
(***************************************************************************)
(* An instance of MeshFetch: the notes are on the relay that comes and goes.*)
(***************************************************************************)
EXTENDS MeshFetch, TLC

CONSTANTS r1, r2, n1, n2

MCCreated == (n1 :> 0) @@ (n2 :> 1)
MCReaches == (r1 :> {n1, n2}) @@ (r2 :> {})
==============================================================================
