------------------------------ MODULE MCGossip ------------------------------
(***************************************************************************)
(* An instance of GossipShard: three shards, one connection of the router. *)
(***************************************************************************)
EXTENDS GossipShard

CONSTANTS ann, ben, k1

ThreeShards  == 0 .. 2
==============================================================================
