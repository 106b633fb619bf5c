------------------------------- MODULE MCBridge -------------------------------
(***************************************************************************)
(* Instance of Bridge: three events of forwarded kinds and one of another, *)
(* whose row takes a number all the same; batches of two.                  *)
(***************************************************************************)
EXTENDS Bridge
==============================================================================
