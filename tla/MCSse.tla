-------------------------------- MODULE MCSse --------------------------------
(***************************************************************************)
(* Instance of SseSystem.                                                  *)
(***************************************************************************)
EXTENDS SseSystem

CONSTANTS e1, e2, t1, t2, t3

MCCreated == (e1 :> 0) @@ (e2 :> 1)
MCConns   == 1 .. 2

\* A follower that is answered twice while another subscribes and is not
\* answered; a generator that is answered twice; nobody, while users
\* authenticate; and a subscription that is not answered, while the monitor
\* watches.
Authenticating == <<>>
Monitored      == t2 :> 0
MCPlans   == {(t1 :> 2) @@ (t2 :> 0), t3 :> 2, Authenticating, Monitored}
MCTries   == [p \in MCPlans |-> IF p = Authenticating THEN 3 ELSE 0]
MCWatched == {Monitored}
==============================================================================
