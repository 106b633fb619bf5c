------------------------------ MODULE LossyLink ------------------------------
(***************************************************************************)
(* What the route engine (relay/route_engine.py) promises those who hand   *)
(* it events for the relay mesh, in which order it promises nothing.  An   *)
(* event that was taken waits until it arrives.  It is lost, or arrives    *)
(* more than once, only while the way to the mesh is out, and what waits   *)
(* at a crash is lost as a whole.                                          *)
(***************************************************************************)
CONSTANT Events

VARIABLES
  waiting,    \* taken and not known to have arrived
  anew,       \* those handed over once more while they were already under way
  arrived,    \* has reached the mesh
  missing,    \* given up
  open        \* whether the way to the mesh is open

vars == <<waiting, anew, arrived, missing, open>>

Init ==
  /\ waiting = {} /\ anew = {} /\ arrived = {} /\ missing = {}
  /\ open \in BOOLEAN

Take(e) ==
  /\ waiting' = waiting \cup {e}
  /\ anew' \in {anew, anew \cup ({e} \cap waiting)}
  /\ UNCHANGED <<arrived, missing, open>>

Settle(es) ==           \* es wait no longer, but for the second copies
  /\ es \subseteq waiting
  /\ waiting' = waiting \ (es \ anew)
  /\ anew' = anew \ es
  /\ UNCHANGED open

Arrive(es) ==
  /\ Settle(es)
  /\ arrived' = arrived \cup es
  /\ UNCHANGED missing

Lose(es) ==             \* perhaps it arrived all the same
  /\ ~open
  /\ Settle(es)
  /\ missing' = missing \cup es
  /\ arrived' \in {arrived, arrived \cup es}

Doubt(es) ==            \* perhaps it arrived: it will be sent again
  /\ ~open /\ es \subseteq waiting
  /\ arrived' \in {arrived, arrived \cup es}
  /\ anew' = anew \ es
  /\ UNCHANGED <<waiting, missing, open>>

Crash ==
  /\ waiting' = {} /\ anew' = {}
  /\ missing' = missing \cup waiting
  /\ open' = FALSE
  /\ UNCHANGED arrived

Turn ==                 \* the way opens or closes
  /\ open' \in BOOLEAN
  /\ UNCHANGED <<waiting, anew, arrived, missing>>

Next ==
  \/ \E e \in Events : Take(e)
  \/ \E es \in SUBSET Events : Arrive(es) \/ Lose(es) \/ Doubt(es)
  \/ Crash \/ Turn

Spec == Init /\ [][Next]_vars
==============================================================================
