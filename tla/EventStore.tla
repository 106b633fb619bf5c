------------------------------ MODULE EventStore ------------------------------
(***************************************************************************)
(* What the relay promises those who publish to it, without tables,        *)
(* transactions and handlers: an event it acknowledged as stored is there, *)
(* across crashes, until an event of the same author takes it away; and    *)
(* nobody's events go, and no promise of his is given or withdrawn, but    *)
(* when it serves him, except that a deletion he began and that broke off  *)
(* is ended later by whoever writes next, or undone by a crash.            *)
(***************************************************************************)
CONSTANTS
  Ids,        \* of the events
  Authors,
  AuthorOf    \* the author of each event

VARIABLES
  kept,       \* the events a restart would find
  pending,    \* those of them whose deletion was begun, and not committed
  promised,   \* those acknowledged as stored
  serving     \* the author of the event that was handled last, if it was one

vars == <<kept, pending, promised, serving>>

Own(a) == {i \in Ids : AuthorOf[i] = a}

Init ==
  /\ kept = {} /\ pending = {} /\ promised = {}
  /\ serving \in SUBSET Authors

Serve(a) ==             \* the handler of an event i of a, to its end or to a crash inside it
  /\ serving' = {a}
  /\ kept' \in SUBSET Ids /\ kept \ kept' \subseteq Own(a) \cup pending
  /\ pending' \in SUBSET (kept' \cap (pending \cup Own(a)))
  /\ promised' \in SUBSET (kept' \ pending')
  /\ promised \ promised' \subseteq Own(a)
  /\ \E i \in Own(a) : promised' \subseteq promised \cup {i}

Gain ==                 \* the other writers, and restarts
  /\ serving' \in SUBSET Authors
  /\ kept' \in SUBSET Ids /\ kept \ kept' \subseteq pending
  /\ pending' \in SUBSET (kept' \cap pending)
  /\ UNCHANGED promised

Next == Gain \/ \E a \in Authors : Serve(a)

Spec == Init /\ [][Next]_vars
==============================================================================
