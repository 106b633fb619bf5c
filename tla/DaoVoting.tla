------------------------------ MODULE DaoVoting ------------------------------
(***************************************************************************)
(* The voting engine (class DAOVoting of relay/dao_voting.py) as the relay *)
(* drives it: an event is stored and then, in the same uninterrupted step, *)
(* handed to handle_proposal or handle_vote, again each time it is sent.   *)
(*                                                                         *)
(* The engine writes with short connections of its own, one commit each:   *)
(* the row of the vote with its counter, then the decision.  The process   *)
(* may stop between the two; a stop before the first, and the deletion of  *)
(* a proposal or a ballot (kind 5), do not concern the engine's tables,    *)
(* and the same event may be handed to it again at any time.               *)
(*                                                                         *)
(* A ballot is a kind-1112 event: who votes, on which proposal and what;   *)
(* "invalid" is any content that is not a vote.  An operator marked        *)
(* "altered" is not the code's: it is a plausible mistake in the one after *)
(* it, which a property must notice when it takes its place.               *)
(***************************************************************************)
EXTENDS Integers, FiniteSets

CONSTANTS
  Proposals,    \* the ids of the kind-1111 events
  Group,        \* the group of each proposal, NoGroup without an h tag
  NoGroup,
  GroupMembers, \* the table of group sizes in _check_quorum
  Ballots       \* the kind-1112 events

Choices == {"approve", "reject", "abstain"}

ASSUME VotingAssumption ==
  /\ \A g \in DOMAIN GroupMembers : GroupMembers[g] \in Nat \ {0}
  /\ NoGroup \notin DOMAIN GroupMembers
  /\ DOMAIN Group = Proposals
  /\ \A b, c \in Ballots : b.id = c.id => b = c

VARIABLES
  rows,       \* dao_proposals: the row of each proposal, NoRow if there is none
  votes,      \* dao_votes: the ballots that were counted
  cut         \* history: proposals whose quorum check a crash cut off

vars == <<rows, votes, cut>>

Statuses == {"none", "open", "passed", "rejected"}
Row      == [status : Statuses, approve : Nat, reject : Nat, abstain : Nat]
Opened   == [status |-> "open", approve |-> 0, reject |-> 0, abstain |-> 0]
NoRow    == [Opened EXCEPT !.status = "none"]
Decided  == {"passed", "rejected"}

Total(r) == r.approve + r.reject + r.abstain

(***************************************************************************)
(* _check_quorum.  int(n * 0.6) rounds down.                               *)
(***************************************************************************)
Quorum(n) == IF (6 * n) \div 10 < 1 THEN 1 ELSE (6 * n) \div 10

Reached(p, r) ==
  /\ Group[p] \in DOMAIN GroupMembers
  /\ Total(r) >= Quorum(GroupMembers[Group[p]])

DecideOnTie(p, r) ==    \* altered: a tie passes
  IF Reached(p, r)
  THEN [r EXCEPT !.status = IF r.approve >= r.reject THEN "passed" ELSE "rejected"]
  ELSE r

Decide(p, r) ==
  IF Reached(p, r)
  THEN [r EXCEPT !.status = IF r.approve > r.reject THEN "passed" ELSE "rejected"]
  ELSE r

(***************************************************************************)
(* handle_vote.                                                            *)
(***************************************************************************)

Open(p) == p \in Proposals /\ rows[p].status = "open"

HasVotedSo(b) ==        \* altered: one vote per voter and choice
  \E v \in votes : v.proposal = b.proposal /\ v.voter = b.voter /\ v.vote = b.vote

HasVoted(b) == \E v \in votes : v.proposal = b.proposal /\ v.voter = b.voter

Counts(b) == b.vote \in Choices /\ Open(b.proposal) /\ ~HasVoted(b)

Counted(b) == [rows[b.proposal] EXCEPT ![b.vote] = @ + 1]

-----------------------------------------------------------------------------
Propose(p) ==           \* handle_proposal; a second time it changes nothing
  /\ \/ /\ Group[p] # NoGroup /\ rows[p] = NoRow
        /\ rows' = [rows EXCEPT ![p] = Opened]
     \/ /\ Group[p] = NoGroup \/ rows[p] # NoRow
        /\ UNCHANGED rows
  /\ UNCHANGED <<votes, cut>>

Vote(b) ==
  /\ Counts(b)
  /\ votes' = votes \cup {b}
  /\ rows' = [rows EXCEPT ![b.proposal] = Decide(b.proposal, Counted(b))]
  /\ UNCHANGED cut

IgnoreVote(b) ==        \* an error is returned
  /\ ~Counts(b)
  /\ UNCHANGED vars

CrashBeforeQuorum(b) == \* after the commit of the vote
  /\ Counts(b)
  /\ votes' = votes \cup {b}
  /\ rows' = [rows EXCEPT ![b.proposal] = Counted(b)]
  /\ cut' = cut \cup {b.proposal}

-----------------------------------------------------------------------------
Init ==
  /\ rows = [p \in Proposals |-> NoRow]
  /\ votes = {}
  /\ cut = {}

Next ==
  \/ \E p \in Proposals : Propose(p)
  \/ \E b \in Ballots : Vote(b) \/ IgnoreVote(b) \/ CrashBeforeQuorum(b)

Spec == Init /\ [][Next]_vars

-----------------------------------------------------------------------------
\* Every variable keeps its type.
TypeOK ==
  /\ rows \in [Proposals -> Row]
  /\ votes \subseteq Ballots
  /\ cut \subseteq Proposals

Cast(p, choice) == {v \in votes : v.proposal = p /\ v.vote = choice}

\* The counters of a proposal are the numbers of its vote rows, and no voter
\* has two rows, however often events are sent again and wherever the process
\* stops: the row and its counter share a commit.
TallyMatchesVotes ==
  /\ \A v, w \in votes : v.proposal = w.proposal /\ v.voter = w.voter => v = w
  /\ \A v \in votes : v.vote \in Choices
  /\ \A p \in Proposals : \A choice \in Choices :
       rows[p][choice] = Cardinality(Cast(p, choice))

\* A proposal is decided by a quorum of vote rows and in the sense of their
\* majority, and one that has its quorum is not left open, unless the process
\* stopped between the commit of the vote and the check.
DecisionMatchesVotes ==
  \A p \in Proposals :
    LET yes == Cardinality(Cast(p, "approve"))
        no  == Cardinality(Cast(p, "reject"))
    IN  /\ rows[p].status \in Decided => Reached(p, rows[p])
        /\ rows[p].status = "passed"   => yes > no
        /\ rows[p].status = "rejected" => yes <= no
        /\ rows[p].status = "open" /\ Reached(p, rows[p]) => p \in cut

\* A decision is final: neither a late vote nor the proposal sent again, also
\* after its deletion, changes a decided row or adds a vote to it.
DecisionFinal ==
  [][\A p \in Proposals :
       rows[p].status \in Decided =>
         /\ rows'[p] = rows[p]
         /\ \A v \in votes' \ votes : v.proposal # p]_vars

(***************************************************************************)
(* The engine implements Referendum: its counters, bumped one at a time    *)
(* and kept through crashes, decide as the ballots themselves would, with  *)
(* a quorum for the groups the table knows; and nothing it does later      *)
(* touches a decision or adds to the ballots behind it.                    *)
(***************************************************************************)
Decidable == {p \in Proposals : Group[p] \in DOMAIN GroupMembers}

Poll == INSTANCE Referendum WITH
         Grouped <- {p \in Proposals : Group[p] # NoGroup},
         Needed <- [p \in Decidable |-> Quorum(GroupMembers[Group[p]])],
         cast <- votes,
         outcome <- [p \in Proposals |-> rows[p].status],
         interrupted <- cut

CountsAsReferendum == Poll!Spec
==============================================================================
