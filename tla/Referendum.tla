------------------------------ MODULE Referendum ------------------------------
(***************************************************************************)
(* What the voting engine (relay/dao_voting.py) promises the agents, with  *)
(* no counters: a voter is counted once on a proposal while it is open,    *)
(* and the ballots counted decide it as soon as they are enough, for good. *)
(* Counting may be interrupted before it decides; the next ballot counted  *)
(* then does.                                                              *)
(***************************************************************************)
EXTENDS Naturals, FiniteSets

CONSTANTS
  Proposals,
  Grouped,      \* the proposals that are put to a vote
  Needed,       \* the ballots needed, of the proposals that can be decided
  Ballots

VARIABLES
  cast,         \* the ballots counted
  outcome,      \* of each proposal
  interrupted   \* proposals on which a count was interrupted

vars == <<cast, outcome, interrupted>>

On(p, ballots) == {b \in ballots : b.proposal = p}
For(p, vote, ballots) == {b \in On(p, ballots) : b.vote = vote}

Enough(p, ballots) == p \in DOMAIN Needed /\ Cardinality(On(p, ballots)) >= Needed[p]

Verdict(p, ballots) ==
  IF Cardinality(For(p, "approve", ballots)) > Cardinality(For(p, "reject", ballots))
  THEN "passed" ELSE "rejected"

Init ==
  /\ cast = {} /\ outcome = [p \in Proposals |-> "none"] /\ interrupted = {}

Put(p) ==
  /\ p \in Grouped /\ outcome[p] = "none"
  /\ outcome' = [outcome EXCEPT ![p] = "open"]
  /\ UNCHANGED <<cast, interrupted>>

Eligible(b) ==
  /\ b.vote \in {"approve", "reject", "abstain"}
  /\ b.proposal \in Proposals /\ outcome[b.proposal] = "open"
  /\ \A c \in On(b.proposal, cast) : c.voter # b.voter

Count(b) ==
  /\ Eligible(b)
  /\ cast' = cast \cup {b}
  /\ outcome' = IF Enough(b.proposal, cast \cup {b})
                THEN [outcome EXCEPT ![b.proposal] = Verdict(b.proposal, cast \cup {b})]
                ELSE outcome
  /\ UNCHANGED interrupted

Interrupt(b) ==
  /\ Eligible(b)
  /\ cast' = cast \cup {b}
  /\ interrupted' = interrupted \cup {b.proposal}
  /\ UNCHANGED outcome

Next ==
  \/ \E p \in Proposals : Put(p)
  \/ \E b \in Ballots : Count(b) \/ Interrupt(b)

Spec == Init /\ [][Next]_vars
==============================================================================
