----------------------------- MODULE MCRelayHub -----------------------------
(***************************************************************************)
(* Instances of RelayHub: connections that publish and subscribe, with     *)
(* subscription ids of their own, contested ones, or none.                 *)
(***************************************************************************)
EXTENDS RelayHub, TLC

CONSTANTS c1, c2, c3, s1, s2, e1, e2, f1, f2

OwnUses   == (c1 :> {<<s1, f1>>}) @@ (c2 :> {<<s2, f1>>, <<s2, f2>>})
ThreeUses == (c1 :> {<<s1, f1>>}) @@ (c2 :> {<<s1, f1>>}) @@ (c3 :> {})
C1Alone   == {c1}

\* What each filter finds, and what suits it when announced: f1 has two values
\* for a tag, of which e2 has one; the times of f2 are numbers and e1's is text.
FindsOf == (f1 :> {e1}) @@ (f2 :> {e1, e2})
SuitsOf == (f1 :> {e1, e2}) @@ (f2 :> {e2})
ClashF2 == {<<f2, e1>>}

OneFilter == f1 :> {e1}
MutesE1   == {<<c1, e1>>}
Nothing   == {}
JustE2    == {e2}
JustE1    == {e1}
==============================================================================
