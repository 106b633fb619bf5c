------------------------------ MODULE MCFanout ------------------------------
(***************************************************************************)
(* Instance of Fanout: two events that mention an agent, which prefers now *)
(* the one relay and now the other.                                        *)
(***************************************************************************)
EXTENDS Fanout, TLC

MCMentions == "ask" :> {"agent"} @@ "reply" :> {"agent"}
MCWishes   == {{"r1"}, {"r2"}}
==============================================================================
