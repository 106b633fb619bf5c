------------------------------ MODULE DaoProofs ------------------------------
(***************************************************************************)
(* Proofs about the two parts of the relay that decide something for the   *)
(* agents: DaoVoting, for any number of proposals and ballots and any      *)
(* table of group sizes, and then Payments, for any payments, transactions *)
(* and bound of the seen set.  They share no state.                        *)
(***************************************************************************)
EXTENDS DaoVoting, Payments, FiniteSetTheorems, TLAPS

(***************************************************************************)
(* The inductive invariant.  TallyMatchesVotes needs the finiteness of     *)
(* dao_votes to count, and that only known proposals collect votes.        *)
(***************************************************************************)
IInv ==
  /\ TypeOK
  /\ IsFiniteSet(votes)
  /\ \A v \in votes : v.proposal \in Proposals /\ rows[v.proposal].status # "none"
  /\ TallyMatchesVotes
  /\ DecisionMatchesVotes

-----------------------------------------------------------------------------
\* Counting a vote yields a row, and decides nothing by itself.
LEMMA CountedRow ==
  ASSUME TypeOK, NEW b \in Ballots, Counts(b)
  PROVE  /\ b.proposal \in Proposals
         /\ b.vote \in Choices
         /\ rows[b.proposal] \in Row
         /\ rows[b.proposal].status = "open"
         /\ Counted(b) \in Row
         /\ Counted(b).status = "open"
         /\ Counted(b)[b.vote] = rows[b.proposal][b.vote] + 1
         /\ \A c \in Choices \ {b.vote} : Counted(b)[c] = rows[b.proposal][c]
  BY DEF TypeOK, Counts, Open, Counted, Row, Statuses, Choices

\* Deciding touches nothing but the status.
LEMMA DecideRow ==
  ASSUME NEW p \in Proposals, NEW r \in Row, r.status = "open"
  PROVE  /\ Decide(p, r) \in Row
         /\ \A c \in Choices : Decide(p, r)[c] = r[c]
         /\ Decide(p, r).status # "none"
         /\ Reached(p, Decide(p, r)) <=> Reached(p, r)
         /\ Decide(p, r).status = "open" <=> ~Reached(p, r)
         /\ Decide(p, r).status = "passed" => Reached(p, r) /\ r.approve > r.reject
         /\ Decide(p, r).status = "rejected" => Reached(p, r) /\ r.approve <= r.reject
  BY DEF Decide, Row, Statuses, Choices, Reached, Total

\* A row as new as Opened has no votes.
LEMMA FreshRows == Opened \in Row /\ NoRow \in Row
  BY DEF Opened, NoRow, Row, Statuses

-----------------------------------------------------------------------------
(***************************************************************************)
(* The counting step, shared by Vote and CrashBeforeQuorum: a new vote row *)
(* and a row r of the proposal whose counters are those of Counted(b).     *)
(***************************************************************************)
LEMMA CountStep ==
  ASSUME IInv, NEW b \in Ballots, Counts(b),
         NEW r \in Row, r.status # "none",
         \A c \in Choices : r[c] = Counted(b)[c],
         votes' = votes \cup {b},
         rows' = [rows EXCEPT ![b.proposal] = r]
  PROVE  /\ IsFiniteSet(votes')
         /\ \A v \in votes' : v.proposal \in Proposals /\ rows'[v.proposal].status # "none"
         /\ TallyMatchesVotes'
         /\ \A p \in Proposals \ {b.proposal} : \A c \in Choices : Cast(p, c)' = Cast(p, c)
         /\ \A c \in Choices : Cardinality(Cast(b.proposal, c)') = r[c]
<1> DEFINE q == b.proposal
<1>1. /\ q \in Proposals /\ b.vote \in Choices
      /\ Counted(b)[b.vote] = rows[q][b.vote] + 1
      /\ \A c \in Choices \ {b.vote} : Counted(b)[c] = rows[q][c]
  BY CountedRow DEF IInv
<1>2. rows \in [Proposals -> Row] /\ rows'[q] = r /\ \A p \in Proposals \ {q} : rows'[p] = rows[p]
  BY <1>1 DEF IInv, TypeOK
<1>3. b \notin votes
  BY DEF Counts, HasVoted
<1>4. IsFiniteSet(votes')
  BY FS_AddElement DEF IInv
<1>5. \A v \in votes' : v.proposal \in Proposals /\ rows'[v.proposal].status # "none"
  BY <1>1, <1>2 DEF IInv
<1>6. /\ \A v, w \in votes' : v.proposal = w.proposal /\ v.voter = w.voter => v = w
      /\ \A v \in votes' : v.vote \in Choices
  BY <1>1 DEF IInv, TallyMatchesVotes, Counts, HasVoted
<1>7. \A p \in Proposals, c \in Choices :
        Cast(p, c)' = IF p = q /\ c = b.vote THEN Cast(p, c) \cup {b} ELSE Cast(p, c)
  BY <1>1 DEF Cast
<1>8. \A p \in Proposals, c \in Choices : rows'[p][c] = Cardinality(Cast(p, c)')
  <2> SUFFICES ASSUME NEW p \in Proposals, NEW c \in Choices
               PROVE  rows'[p][c] = Cardinality(Cast(p, c)')
    OBVIOUS
  <2>1. rows[p][c] = Cardinality(Cast(p, c))
    BY DEF IInv, TallyMatchesVotes
  <2>2. CASE p = q /\ c = b.vote
    <3>1. IsFiniteSet(Cast(p, c))
      BY FS_Subset DEF IInv, Cast
    <3>2. b \notin Cast(p, c)
      BY <1>3 DEF Cast
    <3>3. Cardinality(Cast(p, c) \cup {b}) = Cardinality(Cast(p, c)) + 1
      BY <3>1, <3>2, FS_AddElement
    <3> QED BY <1>1, <1>2, <1>7, <2>1, <2>2, <3>3
  <2>3. CASE ~(p = q /\ c = b.vote)
    BY <1>1, <1>2, <1>7, <2>1, <2>3
  <2> QED BY <2>2, <2>3
<1>9. \A p \in Proposals \ {q} : \A c \in Choices : Cast(p, c)' = Cast(p, c)
  BY <1>7
<1>10. \A c \in Choices : Cardinality(Cast(q, c)') = r[c]
  BY <1>1, <1>2, <1>8
<1> QED BY <1>4, <1>5, <1>6, <1>8, <1>9, <1>10 DEF TallyMatchesVotes

\* What DecisionMatchesVotes says of one proposal.
Sound(p) ==
  LET yes == Cardinality(Cast(p, "approve"))
      no  == Cardinality(Cast(p, "reject"))
  IN  /\ rows[p].status \in Decided => Reached(p, rows[p])
      /\ rows[p].status = "passed"   => yes > no
      /\ rows[p].status = "rejected" => yes <= no
      /\ rows[p].status = "open" /\ Reached(p, rows[p]) => p \in cut

LEMMA DecisionIsSound == DecisionMatchesVotes <=> \A p \in Proposals : Sound(p)
  BY DEF DecisionMatchesVotes, Sound

\* What a step does not touch stays sound.
LEMMA OthersStaySound ==
  ASSUME IInv, NEW p \in Proposals, rows'[p] = rows[p], cut \subseteq cut',
         \A c \in Choices : Cast(p, c)' = Cast(p, c)
  PROVE  Sound(p)'
  BY DecisionIsSound DEF IInv, Sound, Reached, Choices

-----------------------------------------------------------------------------
LEMMA InitIInv == Init => IInv
<1> SUFFICES ASSUME Init PROVE IInv
  OBVIOUS
<1>1. TypeOK
  BY FreshRows DEF Init, TypeOK
<1>2. IsFiniteSet(votes)
  BY FS_EmptySet DEF Init
<1>3. \A p \in Proposals, c \in Choices : Cast(p, c) = {} /\ rows[p][c] = 0
  BY DEF Init, Cast, NoRow, Opened, Choices
<1>4. TallyMatchesVotes
  BY <1>3, FS_EmptySet DEF Init, TallyMatchesVotes
<1>5. DecisionMatchesVotes
  BY DEF Init, DecisionMatchesVotes, NoRow, Opened, Decided
<1> QED BY <1>1, <1>2, <1>4, <1>5 DEF IInv, Init

LEMMA NextIInv == IInv /\ [Next]_vars => IInv'
<1> SUFFICES ASSUME IInv, [Next]_vars PROVE IInv'
  OBVIOUS
<1>1. CASE \E p \in Proposals : Propose(p)
  <2>1. PICK p \in Proposals : Propose(p)
    BY <1>1
  <2>2. CASE UNCHANGED rows
    <3>1. TypeOK'
      BY <2>1, <2>2 DEF IInv, TypeOK, Propose
    <3>2. TallyMatchesVotes'
      BY <2>1, <2>2 DEF IInv, TallyMatchesVotes, Propose, Cast
    <3>3. DecisionMatchesVotes'
      BY <2>1, <2>2 DEF IInv, DecisionMatchesVotes, Propose, Cast, Reached
    <3> QED BY <2>1, <2>2, <3>1, <3>2, <3>3 DEF IInv, Propose
  <2>3. CASE Group[p] # NoGroup /\ rows[p] = NoRow /\ rows' = [rows EXCEPT ![p] = Opened]
    <3>1. TypeOK'
      BY <2>1, <2>3, FreshRows DEF IInv, TypeOK, Propose
    <3>2. votes' = votes /\ \A q \in Proposals, c \in Choices : Cast(q, c)' = Cast(q, c)
      BY <2>1 DEF Propose, Cast
    <3>3. /\ rows'[p] = Opened
          /\ \A q \in Proposals \ {p} : rows'[q] = rows[q]
      BY <2>3 DEF IInv, TypeOK
    <3>4. TallyMatchesVotes'
      <4>1. \A c \in Choices : Opened[c] = NoRow[c]
        BY DEF Opened, NoRow, Choices
      <4>2. \A q \in Proposals, c \in Choices : rows'[q][c] = rows[q][c]
        BY <2>3, <3>3, <4>1
      <4> QED BY <3>2, <4>2 DEF IInv, TallyMatchesVotes
    <3>5. \A v \in votes' : v.proposal \in Proposals /\ rows'[v.proposal].status # "none"
      BY <3>2, <3>3 DEF IInv, Opened
    <3>6. ~Reached(p, Opened)
      <4>1. \A n \in Nat \ {0} : Quorum(n) \in Int /\ Quorum(n) >= 1
        BY DEF Quorum
      <4> QED BY <4>1, VotingAssumption DEF Reached, Opened, Total
    <3>7. Sound(p)'
      BY <3>3, <3>6 DEF Sound, Reached, Opened, Decided
    <3>8. \A q \in Proposals \ {p} : Sound(q)'
      BY <2>1, <3>2, <3>3, OthersStaySound DEF Propose
    <3>9. DecisionMatchesVotes'
      BY <3>7, <3>8 DEF DecisionMatchesVotes, Sound
    <3> QED BY <3>1, <3>2, <3>4, <3>5, <3>9 DEF IInv
  <2> QED BY <2>1, <2>2, <2>3 DEF Propose
<1>2. CASE \E b \in Ballots : Vote(b)
  <2>1. PICK b \in Ballots : Vote(b)
    BY <1>2
  <2> DEFINE q == b.proposal
             r == Decide(q, Counted(b))
  <2>2. /\ Counts(b) /\ votes' = votes \cup {b} /\ rows' = [rows EXCEPT ![q] = r]
        /\ cut' = cut
    BY <2>1 DEF Vote
  <2>3. q \in Proposals /\ Counted(b) \in Row /\ Counted(b).status = "open"
    BY <2>2, CountedRow DEF IInv
  <2>4. /\ r \in Row /\ r.status # "none"
        /\ \A c \in Choices : r[c] = Counted(b)[c]
        /\ Reached(q, r) <=> Reached(q, Counted(b))
        /\ r.status = "open" <=> ~Reached(q, Counted(b))
        /\ r.status = "passed" => Reached(q, Counted(b)) /\ r.approve > r.reject
        /\ r.status = "rejected" => Reached(q, Counted(b)) /\ r.approve <= r.reject
    BY <2>3, DecideRow DEF Choices
  <2> HIDE DEF r
  <2>5. /\ IsFiniteSet(votes')
        /\ \A v \in votes' : v.proposal \in Proposals /\ rows'[v.proposal].status # "none"
        /\ TallyMatchesVotes'
        /\ \A p \in Proposals \ {q} : \A c \in Choices : Cast(p, c)' = Cast(p, c)
        /\ \A c \in Choices : Cardinality(Cast(q, c)') = r[c]
    BY <2>2, <2>4, CountStep
  <2>6. TypeOK'
    BY <2>1, <2>2, <2>3, <2>4 DEF IInv, TypeOK, Vote
  <2>7. rows'[q] = r /\ \A p \in Proposals \ {q} : rows'[p] = rows[p]
    BY <2>2, <2>3 DEF IInv, TypeOK
  <2>8. Sound(q)'
    BY <2>4, <2>5, <2>7 DEF Sound, Reached, Choices, Decided
  <2>9. \A p \in Proposals \ {q} : Sound(p)'
    BY <2>2, <2>5, <2>7, OthersStaySound
  <2>10. DecisionMatchesVotes'
    BY <2>8, <2>9 DEF DecisionMatchesVotes, Sound
  <2> QED BY <2>5, <2>6, <2>10 DEF IInv
<1>3. CASE \E b \in Ballots : CrashBeforeQuorum(b)
  <2>1. PICK b \in Ballots : CrashBeforeQuorum(b)
    BY <1>3
  <2> DEFINE q == b.proposal
             r == Counted(b)
  <2>2. /\ Counts(b) /\ votes' = votes \cup {b} /\ rows' = [rows EXCEPT ![q] = r]
        /\ cut' = cut \cup {q}
    BY <2>1 DEF CrashBeforeQuorum
  <2>3. q \in Proposals /\ r \in Row /\ r.status = "open"
    BY <2>2, CountedRow DEF IInv
  <2> HIDE DEF r
  <2>4. \A c \in Choices : r[c] = Counted(b)[c]
    BY DEF r
  <2>5. /\ IsFiniteSet(votes')
        /\ \A v \in votes' : v.proposal \in Proposals /\ rows'[v.proposal].status # "none"
        /\ TallyMatchesVotes'
        /\ \A p \in Proposals \ {q} : \A c \in Choices : Cast(p, c)' = Cast(p, c)
    BY <2>2, <2>3, <2>4, CountStep
  <2>6. TypeOK'
    BY <2>1, <2>2, <2>3 DEF IInv, TypeOK, CrashBeforeQuorum
  <2>7. rows'[q] = r /\ \A p \in Proposals \ {q} : rows'[p] = rows[p]
    BY <2>2, <2>3 DEF IInv, TypeOK
  <2>8. Sound(q)'
    BY <2>2, <2>3, <2>7 DEF Sound, Decided
  <2>9. \A p \in Proposals \ {q} : Sound(p)'
    BY <2>2, <2>5, <2>7, OthersStaySound
  <2>10. DecisionMatchesVotes'
    BY <2>8, <2>9 DEF DecisionMatchesVotes, Sound
  <2> QED BY <2>5, <2>6, <2>10 DEF IInv
<1>4. ASSUME UNCHANGED vars PROVE IInv'
  <2>1. TypeOK'
    BY <1>4 DEF IInv, TypeOK, vars
  <2>2. TallyMatchesVotes'
    BY <1>4 DEF IInv, TallyMatchesVotes, Cast, vars
  <2>3. DecisionMatchesVotes'
    BY <1>4 DEF IInv, DecisionMatchesVotes, Cast, Reached, vars
  <2> QED BY <1>4, <2>1, <2>2, <2>3 DEF IInv, vars
<1> QED BY <1>1, <1>2, <1>3, <1>4 DEF Next, IgnoreVote

\* IInv holds in every reachable state of the voting engine, whatever order its ballots,
\* proposals and crashes come in.
THEOREM Invariance == Spec => []IInv
<1>1. Init => IInv
  BY InitIInv
<1>2. IInv /\ [Next]_vars => IInv'
  BY NextIInv
<1> QED BY <1>1, <1>2, PTL DEF Spec

\* The state of the engine keeps its type.
THEOREM TypeCorrect == Spec => []TypeOK
<1>1. IInv => TypeOK
  BY DEF IInv
<1> QED BY <1>1, Invariance, PTL

\* The counters that decide a proposal are the votes that were cast on it, one
\* per voter, under replays, deletions and crashes.
THEOREM TallyCorrect == Spec => []TallyMatchesVotes
<1>1. IInv => TallyMatchesVotes
  BY DEF IInv
<1> QED BY <1>1, Invariance, PTL

\* A proposal is decided exactly when a vote completes its quorum, crashes
\* before the check aside, and as the majority of its votes says.
THEOREM DecisionCorrect == Spec => []DecisionMatchesVotes
<1>1. IInv => DecisionMatchesVotes
  BY DEF IInv
<1> QED BY <1>1, Invariance, PTL

\* No later event reopens, reverses or adds a vote to a decided proposal.
THEOREM Finality == Spec => DecisionFinal
<1> DEFINE Final == \A p \in Proposals : rows[p].status \in Decided =>
                      /\ rows'[p] = rows[p]
                      /\ \A v \in votes' \ votes : v.proposal # p
<1>1. IInv /\ [Next]_vars => [Final]_vars
  <2> SUFFICES ASSUME IInv, Next PROVE Final
    OBVIOUS
  <2>1. ASSUME NEW b \in Ballots, Counts(b), NEW r,
               rows' = [rows EXCEPT ![b.proposal] = r], votes' = votes \cup {b}
        PROVE  Final
    <3>1. rows[b.proposal].status = "open"
      BY <2>1 DEF Counts, Open
    <3> QED BY <2>1, <3>1 DEF IInv, TypeOK, Decided
  <2>2. CASE \E b \in Ballots : Vote(b) \/ CrashBeforeQuorum(b)
    BY <2>1, <2>2 DEF Vote, CrashBeforeQuorum
  <2>3. CASE \E p \in Proposals : Propose(p)
    <3>1. PICK p \in Proposals : Propose(p)
      BY <2>3
    <3>2. NoRow.status \notin Decided
      BY DEF NoRow, Opened, Decided
    <3> QED BY <3>1, <3>2 DEF Propose, IInv, TypeOK
  <2>4. CASE UNCHANGED <<rows, votes>>
    BY <2>4
  <2> QED BY <2>2, <2>3, <2>4 DEF Next, IgnoreVote, vars
<1> QED BY <1>1, Invariance, PTL DEF Spec, DecisionFinal

-----------------------------------------------------------------------------
(***************************************************************************)
(* The refinement of Referendum, which counts where the engine has         *)
(* counters.                                                               *)
(***************************************************************************)
\* Cardinality in the instance is that of this module.
LEMMA OneCardinality == \A S : Poll!Cardinality(S) = Cardinality(S)
  BY DEF Poll!Cardinality, Cardinality, Poll!IsFiniteSet, IsFiniteSet

\* The ballots on a proposal are the votes for each choice.
LEMMA TurnoutIsTotal ==
  ASSUME NEW V, IsFiniteSet(V), \A v \in V : v.vote \in Choices, NEW p
  PROVE  /\ \A c \in Choices : Cardinality(Poll!For(p, c, V)) \in Nat
         /\ Cardinality(Poll!On(p, V)) =
              Cardinality(Poll!For(p, "approve", V)) + Cardinality(Poll!For(p, "reject", V))
                + Cardinality(Poll!For(p, "abstain", V))
<1> DEFINE A == Poll!For(p, "approve", V)
           R == Poll!For(p, "reject", V)
           B == Poll!For(p, "abstain", V)
<1>1. \A c \in Choices : IsFiniteSet(Poll!For(p, c, V))
  BY FS_Subset DEF Poll!For, Poll!On
<1>2. IsFiniteSet(A) /\ IsFiniteSet(R) /\ IsFiniteSet(B)
  BY <1>1 DEF Choices
<1>3. A \cap R = {} /\ (A \cup R) \cap B = {} /\ Poll!On(p, V) = (A \cup R) \cup B
  BY DEF Poll!For, Poll!On, Choices
<1> HIDE DEF A, R, B
<1>4. Cardinality({}) = 0
  BY FS_EmptySet
<1>5. /\ IsFiniteSet(A \cup R)
      /\ Cardinality(A \cup R) = Cardinality(A) + Cardinality(R) - 0
  BY <1>2, <1>3, <1>4, FS_Union
<1>6. Cardinality((A \cup R) \cup B) = Cardinality(A \cup R) + Cardinality(B) - 0
  BY <1>2, <1>3, <1>4, <1>5, FS_Union
<1>7. Cardinality(A) \in Nat /\ Cardinality(R) \in Nat /\ Cardinality(B) \in Nat
  BY <1>2, FS_CardinalityType
<1>8. \A c \in Choices : Cardinality(Poll!For(p, c, V)) \in Nat
  BY <1>1, FS_CardinalityType
<1>9. Cardinality(Poll!On(p, V)) = Cardinality(A) + Cardinality(R) + Cardinality(B)
  BY <1>3, <1>5, <1>6, <1>7
<1> QED
  BY <1>8, <1>9 DEF A, R, B

\* A row whose counters are the numbers of votes reaches the quorum when the votes are enough.
LEMMA QuorumIsEnough ==
  ASSUME NEW p \in Proposals, NEW V, IsFiniteSet(V), \A v \in V : v.vote \in Choices,
         NEW r, \A c \in Choices : Cardinality(Poll!For(p, c, V)) = r[c]
  PROVE  Reached(p, r) <=> Poll!Enough(p, V)
<1>1. Cardinality(Poll!On(p, V)) = Total(r)
  BY TurnoutIsTotal DEF Choices, Total
<1> QED
  BY <1>1, OneCardinality DEF Poll!Enough, Decidable, Reached

\* A counting step gives the votes of the proposal as the abstract one counts them.
LEMMA CountsAlike ==
  ASSUME IInv, NEW b \in Ballots, Counts(b),
         NEW r \in Row, r.status # "none",
         \A c \in Choices : r[c] = Counted(b)[c],
         votes' = votes \cup {b},
         rows' = [rows EXCEPT ![b.proposal] = r]
  PROVE  /\ IsFiniteSet(votes') /\ \A v \in votes' : v.vote \in Choices
         /\ \A c \in Choices : Cardinality(Poll!For(b.proposal, c, votes')) = Counted(b)[c]
<1>1. /\ IsFiniteSet(votes') /\ TallyMatchesVotes'
      /\ \A c \in Choices : Cardinality(Cast(b.proposal, c)') = r[c]
  BY CountStep
<1>2. \A c \in Choices : Cast(b.proposal, c)' = Poll!For(b.proposal, c, votes')
  BY DEF Cast, Poll!For, Poll!On
<1> QED
  BY <1>1, <1>2 DEF TallyMatchesVotes

\* The relay hands the engine only ballots that the referendum may count.
LEMMA CountedIsEligible ==
  ASSUME NEW b \in Ballots, Counts(b)
  PROVE  Poll!Eligible(b)
  BY DEF Counts, Open, HasVoted, Choices, Poll!Eligible, Poll!On

LEMMA ProposeIsPut ==
  ASSUME IInv, NEW p \in Proposals, Propose(p)
  PROVE  Poll!Put(p) \/ UNCHANGED Poll!vars
<1>1. CASE Group[p] # NoGroup /\ rows[p] = NoRow /\ rows' = [rows EXCEPT ![p] = Opened]
  <2>1. rows[p].status = "none" /\ Opened.status = "open"
    BY <1>1 DEF NoRow, Opened
  <2>2. \A q \in Proposals : rows'[q] = IF q = p THEN Opened ELSE rows[q]
    BY <1>1 DEF IInv, TypeOK
  <2>3. [q \in Proposals |-> rows'[q].status]
          = [[q \in Proposals |-> rows[q].status] EXCEPT ![p] = "open"]
    BY <2>1, <2>2
  <2> QED
    BY <1>1, <2>1, <2>3 DEF Propose, Poll!Put
<1>2. CASE UNCHANGED rows
  BY <1>2 DEF Propose, Poll!vars
<1> QED
  BY <1>1, <1>2 DEF Propose

LEMMA VoteIsCount ==
  ASSUME IInv, NEW b \in Ballots, Vote(b)
  PROVE  Poll!Count(b)
<1> DEFINE q == b.proposal
           V == votes \cup {b}
           r == Decide(q, Counted(b))
<1>1. /\ Counts(b) /\ votes' = V /\ rows' = [rows EXCEPT ![q] = r] /\ cut' = cut
  BY DEF Vote
<1>2. q \in Proposals /\ Counted(b) \in Row /\ Counted(b).status = "open" /\ rows[q].status = "open"
  BY <1>1, CountedRow DEF IInv
<1>3. r \in Row /\ r.status # "none" /\ \A c \in Choices : r[c] = Counted(b)[c]
  BY <1>2, DecideRow DEF Choices
<1>4. /\ IsFiniteSet(V) /\ \A v \in V : v.vote \in Choices
      /\ \A c \in Choices : Cardinality(Poll!For(q, c, V)) = Counted(b)[c]
  <2> HIDE DEF r
  <2> QED
    BY <1>1, <1>3, CountsAlike
<1>5. Reached(q, Counted(b)) <=> Poll!Enough(q, V)
  BY <1>2, <1>4, QuorumIsEnough
<1>6. r.status = IF Poll!Enough(q, V) THEN Poll!Verdict(q, V) ELSE "open"
  <2>1. Poll!Verdict(q, V) = IF Counted(b).approve > Counted(b).reject THEN "passed" ELSE "rejected"
    BY <1>4, OneCardinality DEF Poll!Verdict, Choices
  <2> QED
    BY <1>2, <1>5, <2>1 DEF Decide, Row
<1> HIDE DEF r, V
<1>7. \A p \in Proposals : rows'[p].status = IF p = q THEN r.status ELSE rows[p].status
  BY <1>1, <1>2 DEF IInv, TypeOK
<1>8. [p \in Proposals |-> rows'[p].status]
        = IF Poll!Enough(q, V)
          THEN [[p \in Proposals |-> rows[p].status] EXCEPT ![q] = Poll!Verdict(q, V)]
          ELSE [p \in Proposals |-> rows[p].status]
  BY <1>2, <1>6, <1>7
<1> QED
  BY <1>1, <1>8, CountedIsEligible DEF V, Poll!Count

LEMMA CrashInterrupts ==
  ASSUME IInv, NEW b \in Ballots, CrashBeforeQuorum(b)
  PROVE  Poll!Interrupt(b)
<1>1. b.proposal \in Proposals /\ Counted(b).status = "open" /\ rows[b.proposal].status = "open"
  BY CountedRow DEF IInv, CrashBeforeQuorum
<1>2. \A p \in Proposals : rows'[p].status = rows[p].status
  BY <1>1 DEF IInv, TypeOK, CrashBeforeQuorum
<1>3. [p \in Proposals |-> rows'[p].status] = [p \in Proposals |-> rows[p].status]
  BY <1>2
<1> QED
  BY <1>3, CountedIsEligible DEF CrashBeforeQuorum, Poll!Interrupt

LEMMA StepIsAbstract == IInv /\ [Next]_vars => [Poll!Next]_(Poll!vars)
<1> SUFFICES ASSUME IInv, [Next]_vars PROVE Poll!Next \/ UNCHANGED Poll!vars
  OBVIOUS
<1>1. CASE \E p \in Proposals : Propose(p)
  BY <1>1, ProposeIsPut DEF Poll!Next
<1>2. CASE \E b \in Ballots : Vote(b)
  BY <1>2, VoteIsCount DEF Poll!Next
<1>3. CASE \E b \in Ballots : CrashBeforeQuorum(b)
  BY <1>3, CrashInterrupts DEF Poll!Next
<1>4. CASE UNCHANGED vars
  BY <1>4 DEF vars, Poll!vars
<1> QED
  BY <1>1, <1>2, <1>3, <1>4 DEF Next, IgnoreVote

(***************************************************************************)
(* The voting engine implements the referendum: whatever is sent again and *)
(* wherever the process stops, its counters decide as the ballots would.   *)
(***************************************************************************)
THEOREM ImplementsReferendum == Spec => CountsAsReferendum
<1>1. Init => Poll!Init
  <2> SUFFICES ASSUME Init PROVE Poll!Init
    OBVIOUS
  <2>1. NoRow.status = "none"
    BY DEF NoRow, Opened
  <2> QED
    BY <2>1 DEF Init, Poll!Init
<1> QED
  BY <1>1, StepIsAbstract, Invariance, PTL DEF Spec, CountsAsReferendum, Poll!Spec

-----------------------------------------------------------------------------
(***************************************************************************)
(* Payments.  The invariant relates the seen set, the cache of the         *)
(* verifier and the coroutines that wait for an answer.                    *)
(***************************************************************************)
Kept(t) == t \in seen \cup forgotten

\* A valid answer in the cache was given of a confirmed transaction, whose payment was accepted.
CacheJustified ==
  \A t \in Txs : cache[t] = "valid" => t \in confirmed /\ Kept(t)

\* The transaction of an accepted payment is in the seen set or has left it.
Remembered == \A e \in accepted : Kept(Tx[e])

\* Payments of one transaction that are being verified were seen to meet.
PendingRaced ==
  \A e, f \in Pending : e # f /\ Tx[e] = Tx[f] => {e, f} \in raced

\* So were an accepted payment and one that is being verified, unless the set has forgotten.
AcceptedRaced ==
  \A e \in accepted, f \in Pending :
    e # f /\ Tx[e] = Tx[f] => {e, f} \in raced \/ Tx[e] \in forgotten

PaymentInv ==
  /\ PaymentTypeOK /\ IsFiniteSet(seen)
  /\ AcceptedAreConfirmed /\ CacheJustified /\ Remembered
  /\ PendingRaced /\ AcceptedRaced /\ SpentTwiceOnlyInARace

-----------------------------------------------------------------------------
(***************************************************************************)
(* What the end of handle_snin_payment does to the seen set: it stays      *)
(* finite and within its bound, and loses nothing without a trace.         *)
(***************************************************************************)
LEMMA AcceptKeeps ==
  ASSUME PaymentInv, NEW e \in Payments, Accept(e)
  PROVE  /\ seen' \subseteq Txs /\ IsFiniteSet(seen') /\ Cardinality(seen') <= MaxSeen
         /\ forgotten \subseteq forgotten' /\ forgotten' \subseteq Txs
         /\ seen \cup {Tx[e]} \subseteq seen' \cup forgotten'
         /\ accepted' = accepted \cup {e}
<1> DEFINE all == seen \cup {Tx[e]}
<1>1. /\ seen \subseteq Txs /\ forgotten \subseteq Txs /\ Tx[e] \in Txs
      /\ IsFiniteSet(seen) /\ Cardinality(seen) <= MaxSeen /\ MaxSeen \in Nat
  BY PaymentsAssumption DEF PaymentInv, PaymentTypeOK
<1>2. IsFiniteSet(all) /\ Cardinality(all) \in Nat /\ Cardinality(seen) \in Nat
  BY <1>1, FS_AddElement, FS_CardinalityType
<1>3. Cardinality(all) <= Cardinality(seen) + 1
  <2>1. Cardinality(all) = IF Tx[e] \in seen THEN Cardinality(seen) ELSE Cardinality(seen) + 1
    BY <1>1, FS_AddElement
  <2> QED
    BY <2>1, <1>2
<1>4. CASE Cardinality(all) > MaxSeen
  <2>1. PICK t \in all : seen' = all \ {t} /\ forgotten' = forgotten \cup {t}
    BY <1>4 DEF Accept
  <2>2. IsFiniteSet(all \ {t}) /\ Cardinality(all \ {t}) = Cardinality(all) - 1
    BY <1>2, <2>1, FS_RemoveElement
  <2>3. Cardinality(seen') <= MaxSeen
    BY <2>1, <2>2, <1>1, <1>2, <1>3
  <2> QED
    BY <1>1, <2>1, <2>2, <2>3 DEF Accept
<1>5. CASE ~(Cardinality(all) > MaxSeen)
  <2>1. seen' = all /\ forgotten' = forgotten
    BY <1>5 DEF Accept
  <2>2. Cardinality(seen') <= MaxSeen
    BY <2>1, <1>5, <1>1, <1>2
  <2> QED
    BY <1>1, <1>2, <2>1, <2>2 DEF Accept
<1> QED
  BY <1>4, <1>5

(***************************************************************************)
(* A valid answer: the payment is accepted, its coroutine ends.            *)
(***************************************************************************)
LEMMA AnsweredValid ==
  ASSUME PaymentInv, NEW e \in Payments, at[e] # "idle", Tx[e] \in confirmed,
         at' = [at EXCEPT ![e] = "idle"],
         cache' = [cache EXCEPT ![Tx[e]] = "valid"],
         url' \in Endpoints, Accept(e),
         UNCHANGED <<original, confirmed, restarts, raced, strayed>>
  PROVE  PaymentInv'
<1>1. /\ seen' \subseteq Txs /\ IsFiniteSet(seen') /\ Cardinality(seen') <= MaxSeen
      /\ forgotten \subseteq forgotten' /\ forgotten' \subseteq Txs
      /\ seen \cup {Tx[e]} \subseteq seen' \cup forgotten'
      /\ accepted' = accepted \cup {e}
  BY AcceptKeeps
<1>2. Tx[e] \in Txs /\ e \in Pending
  BY PaymentsAssumption DEF Pending
<1>3. Pending' \subseteq Pending \ {e}
  BY DEF PaymentInv, PaymentTypeOK, Pending
<1>4. PaymentTypeOK' /\ IsFiniteSet(seen')
  BY <1>1, <1>2 DEF PaymentInv, PaymentTypeOK, Points, Verdicts
<1>5. AcceptedAreConfirmed'
  BY <1>1 DEF PaymentInv, AcceptedAreConfirmed
<1>6. CacheJustified'
  BY <1>1, <1>2 DEF PaymentInv, PaymentTypeOK, CacheJustified, Kept
<1>7. Remembered'
  BY <1>1 DEF PaymentInv, Remembered, Kept
<1>8. PendingRaced'
  BY <1>3 DEF PaymentInv, PendingRaced
<1>9. AcceptedRaced'
  BY <1>1, <1>2, <1>3 DEF PaymentInv, AcceptedRaced, PendingRaced
<1>10. SpentTwiceOnlyInARace'
  <2> SUFFICES ASSUME NEW g \in accepted', NEW h \in accepted', g # h, Tx[g] = Tx[h]
               PROVE  {g, h} \in raced \/ Tx[g] \in forgotten'
    BY DEF SpentTwiceOnlyInARace
  <2>1. CASE g # e /\ h # e
    BY <2>1, <1>1 DEF PaymentInv, SpentTwiceOnlyInARace
  <2>2. CASE g = e
    <3>1. h \in accepted
      BY <2>2, <1>1
    <3>2. {h, g} \in raced \/ Tx[h] \in forgotten
      BY <2>2, <3>1, <1>2 DEF PaymentInv, AcceptedRaced
    <3>3. {h, g} = {g, h}
      OBVIOUS
    <3> QED
      BY <3>2, <3>3, <1>1
  <2>3. CASE h = e /\ g # e
    <3>1. g \in accepted
      BY <2>3, <1>1
    <3> QED
      BY <2>3, <3>1, <1>1, <1>2 DEF PaymentInv, AcceptedRaced
  <2> QED
    BY <2>1, <2>2, <2>3
<1> QED
  BY <1>4, <1>5, <1>6, <1>7, <1>8, <1>9, <1>10 DEF PaymentInv

(***************************************************************************)
(* A valid answer from the cache: the transaction was accepted before and  *)
(* has left the seen set.                                                  *)
(***************************************************************************)
LEMMA CachedKeeps ==
  ASSUME PaymentInv, NEW e \in Payments, Cached(e)
  PROVE  PaymentInv'
<1>1. CASE Refuse
  BY <1>1 DEF Cached, Refuse, PaymentInv, PaymentTypeOK, AcceptedAreConfirmed, CacheJustified, Kept,
              Remembered, PendingRaced, AcceptedRaced, SpentTwiceOnlyInARace, Pending
<1>2. CASE cache[Tx[e]] = "valid" /\ Accept(e)
  <2>1. /\ seen' \subseteq Txs /\ IsFiniteSet(seen') /\ Cardinality(seen') <= MaxSeen
        /\ forgotten \subseteq forgotten' /\ forgotten' \subseteq Txs
        /\ seen \cup {Tx[e]} \subseteq seen' \cup forgotten'
        /\ accepted' = accepted \cup {e}
    BY <1>2, AcceptKeeps
  <2>2. Tx[e] \in confirmed /\ Tx[e] \in forgotten
    BY <1>2, PaymentsAssumption DEF Cached, PaymentInv, CacheJustified, Kept
  <2>3. Pending' = Pending /\ UNCHANGED <<at, original, cache, url, confirmed, restarts, raced, strayed>>
    BY DEF Cached, Pending
  <2>4. PaymentTypeOK' /\ IsFiniteSet(seen')
    BY <2>1, <2>3 DEF PaymentInv, PaymentTypeOK
  <2>5. AcceptedAreConfirmed'
    BY <2>1, <2>2, <2>3 DEF PaymentInv, AcceptedAreConfirmed
  <2>6. CacheJustified'
    BY <2>1, <2>3 DEF PaymentInv, CacheJustified, Kept
  <2>7. Remembered'
    BY <2>1 DEF PaymentInv, Remembered, Kept
  <2>8. PendingRaced' /\ AcceptedRaced'
    BY <2>1, <2>2, <2>3 DEF PaymentInv, PendingRaced, AcceptedRaced
  <2>9. SpentTwiceOnlyInARace'
    BY <2>1, <2>2, <2>3 DEF PaymentInv, SpentTwiceOnlyInARace
  <2> QED
    BY <2>4, <2>5, <2>6, <2>7, <2>8, <2>9 DEF PaymentInv
<1> QED
  BY <1>1, <1>2 DEF Cached

(***************************************************************************)
(* A payment that is not seen starts to be verified.                       *)
(***************************************************************************)
LEMMA AskKeeps ==
  ASSUME PaymentInv, NEW e \in Payments, Ask(e)
  PROVE  PaymentInv'
<1> DEFINE new == {{e, f} : f \in {f \in Pending : Tx[f] = Tx[e]}}
<1>1. /\ raced' = raced \cup new
      /\ UNCHANGED <<original, seen, cache, url, confirmed, restarts, accepted, forgotten, strayed>>
      /\ Tx[e] \notin seen
  BY DEF Ask
<1>2. Pending' = Pending \cup {e}
  BY DEF Ask, Pending, PaymentInv, PaymentTypeOK
<1>3. PaymentTypeOK' /\ IsFiniteSet(seen')
  <2>1. at' \in [Payments -> Points]
    BY DEF Ask, PaymentInv, PaymentTypeOK, Points
  <2>2. raced' \subseteq SUBSET Payments
    BY <1>1 DEF Pending, PaymentInv, PaymentTypeOK
  <2> QED
    BY <1>1, <2>1, <2>2 DEF PaymentInv, PaymentTypeOK
<1>4. AcceptedAreConfirmed' /\ CacheJustified' /\ Remembered' /\ SpentTwiceOnlyInARace'
  BY <1>1 DEF PaymentInv, AcceptedAreConfirmed, CacheJustified, Remembered, Kept, SpentTwiceOnlyInARace
<1>5. PendingRaced'
  <2> SUFFICES ASSUME NEW g \in Pending', NEW h \in Pending', g # h, Tx[g] = Tx[h]
               PROVE  {g, h} \in raced'
    BY DEF PendingRaced
  <2>1. CASE g \in Pending /\ h \in Pending
    BY <2>1, <1>1 DEF PaymentInv, PendingRaced
  <2>2. CASE g = e
    BY <2>2, <1>1, <1>2
  <2>3. CASE h = e
    <3>1. {e, g} \in new
      BY <2>3, <1>2
    <3>2. {e, g} = {g, h}
      BY <2>3
    <3> QED
      BY <3>1, <3>2, <1>1
  <2> QED
    BY <1>2, <2>1, <2>2, <2>3
<1>6. AcceptedRaced'
  <2> SUFFICES ASSUME NEW g \in accepted, NEW h \in Pending', g # h, Tx[g] = Tx[h]
               PROVE  {g, h} \in raced' \/ Tx[g] \in forgotten
    BY <1>1 DEF AcceptedRaced
  <2>1. CASE h = e
    BY <2>1, <1>1 DEF PaymentInv, Remembered, Kept
  <2>2. CASE h # e
    BY <2>2, <1>1, <1>2 DEF PaymentInv, AcceptedRaced
  <2> QED
    BY <2>1, <2>2
<1> QED
  BY <1>3, <1>4, <1>5, <1>6 DEF PaymentInv

LEMMA SecondInvalidKeeps ==
  ASSUME PaymentInv, NEW e \in Payments, SecondInvalid(e)
  PROVE  PaymentInv'
<1>1. Pending' \subseteq Pending
  BY DEF SecondInvalid, Pending, PaymentInv, PaymentTypeOK
<1>2. PaymentTypeOK' /\ IsFiniteSet(seen')
  BY PaymentsAssumption DEF SecondInvalid, Refuse, PaymentInv, PaymentTypeOK, Points, Verdicts
<1>3. CacheJustified'
  BY PaymentsAssumption DEF SecondInvalid, Refuse, PaymentInv, PaymentTypeOK, CacheJustified, Kept
<1>4. AcceptedAreConfirmed' /\ Remembered' /\ SpentTwiceOnlyInARace'
  BY DEF SecondInvalid, Refuse, PaymentInv, AcceptedAreConfirmed, Remembered, Kept, SpentTwiceOnlyInARace
<1>5. PendingRaced' /\ AcceptedRaced'
  BY <1>1 DEF SecondInvalid, Refuse, PaymentInv, PendingRaced, AcceptedRaced
<1> QED
  BY <1>2, <1>3, <1>4, <1>5 DEF PaymentInv

LEMMA RaisesKeeps ==
  ASSUME PaymentInv, NEW e \in Payments, Raises(e)
  PROVE  PaymentInv'
<1>1. Pending' \subseteq Pending
  BY DEF Raises, Pending, PaymentInv, PaymentTypeOK
<1>2. at' \in [Payments -> Points] /\ strayed' \in BOOLEAN
  BY DEF Raises, PaymentInv, PaymentTypeOK, Points
<1>3. PaymentTypeOK' /\ IsFiniteSet(seen')
  BY <1>2 DEF Raises, PaymentInv, PaymentTypeOK
<1>4. AcceptedAreConfirmed' /\ CacheJustified' /\ Remembered' /\ SpentTwiceOnlyInARace'
  BY DEF Raises, PaymentInv, AcceptedAreConfirmed, CacheJustified, Remembered, Kept,
         SpentTwiceOnlyInARace
<1>5. PendingRaced' /\ AcceptedRaced'
  BY <1>1 DEF Raises, PaymentInv, PendingRaced, AcceptedRaced
<1> QED
  BY <1>3, <1>4, <1>5 DEF PaymentInv

LEMMA RestartKeeps ==
  ASSUME PaymentInv, Restart
  PROVE  PaymentInv'
<1>1. Pending' = {}
  BY DEF Restart, Pending
<1>2. /\ seen' = {} /\ forgotten' = forgotten \cup seen
      /\ cache' = [t \in Txs |-> "none"]
      /\ UNCHANGED <<confirmed, accepted, raced>>
  BY DEF Restart
<1>3. PaymentTypeOK' /\ IsFiniteSet(seen')
  <2>1. Cardinality({}) = 0 /\ IsFiniteSet({})
    BY FS_EmptySet
  <2>2. restarts' \in 0 .. Restarts
    BY PaymentsAssumption DEF Restart, PaymentInv, PaymentTypeOK
  <2>3. strayed' \in BOOLEAN
    BY DEF Restart
  <2>4. at' \in [Payments -> Points] /\ original' \in [Payments -> Endpoints] /\ url' \in Endpoints
    BY DEF Restart, Points, Endpoints
  <2>5. cache' \in [Txs -> Verdicts]
    BY <1>2 DEF Verdicts
  <2> QED
    BY <1>2, <2>1, <2>2, <2>4, <2>5, <2>3, PaymentsAssumption DEF PaymentInv, PaymentTypeOK
<1>4. CacheJustified'
  BY <1>2 DEF CacheJustified
<1>5. AcceptedAreConfirmed' /\ Remembered' /\ SpentTwiceOnlyInARace'
  BY <1>2 DEF PaymentInv, AcceptedAreConfirmed, Remembered, Kept, SpentTwiceOnlyInARace
<1>6. PendingRaced' /\ AcceptedRaced'
  BY <1>1 DEF PendingRaced, AcceptedRaced
<1> QED
  BY <1>3, <1>4, <1>5, <1>6 DEF PaymentInv

-----------------------------------------------------------------------------
LEMMA PaymentInitHolds == PaymentInit => PaymentInv
<1> SUFFICES ASSUME PaymentInit PROVE PaymentInv
  OBVIOUS
<1>1. Cardinality({}) = 0 /\ IsFiniteSet({})
  BY FS_EmptySet
<1>2. PaymentTypeOK /\ IsFiniteSet(seen)
  <2>1. at \in [Payments -> Points] /\ original \in [Payments -> Endpoints] /\ url \in Endpoints
    BY DEF PaymentInit, Points, Endpoints
  <2>2. cache \in [Txs -> Verdicts] /\ strayed \in BOOLEAN
    BY DEF PaymentInit, Verdicts
  <2> QED
    BY <1>1, <2>1, <2>2, PaymentsAssumption DEF PaymentInit, PaymentTypeOK
<1> QED
  BY <1>2 DEF PaymentInit, PaymentInv, AcceptedAreConfirmed, CacheJustified, Remembered, PendingRaced,
              AcceptedRaced, SpentTwiceOnlyInARace, Pending

LEMMA PaymentStepKeeps == PaymentInv /\ [PaymentNext]_paymentVars => PaymentInv'
<1> SUFFICES ASSUME PaymentInv, [PaymentNext]_paymentVars PROVE PaymentInv'
  OBVIOUS
<1>1. ASSUME NEW e \in Payments, Arrives(e) PROVE PaymentInv'
  <2>1. CASE Seen(e)
    BY <2>1 DEF Seen, Refuse, PaymentInv, PaymentTypeOK, AcceptedAreConfirmed, CacheJustified, Kept,
                Remembered, PendingRaced, AcceptedRaced, SpentTwiceOnlyInARace, Pending
  <2> QED
    BY <1>1, <2>1, CachedKeeps, AskKeeps DEF Arrives
<1>2. ASSUME NEW e \in Payments, Answered(e) PROVE PaymentInv'
  <2>1. CASE FirstValid(e)
    BY <2>1, AnsweredValid DEF FirstValid, PaymentInv, PaymentTypeOK
  <2>2. CASE FirstInvalid(e)
    <3>1. Pending' = Pending
      BY <2>2 DEF FirstInvalid, Pending, PaymentInv, PaymentTypeOK
    <3>2. PaymentTypeOK' /\ IsFiniteSet(seen')
      BY <2>2 DEF FirstInvalid, PaymentInv, PaymentTypeOK, Points, Endpoints
    <3> QED
      BY <2>2, <3>1, <3>2 DEF FirstInvalid, PaymentInv, AcceptedAreConfirmed, CacheJustified, Kept,
                Remembered, PendingRaced, AcceptedRaced, SpentTwiceOnlyInARace
  <2>3. CASE SecondValid(e)
    <3>1. url' \in Endpoints
      BY <2>3 DEF SecondValid, PaymentInv, PaymentTypeOK
    <3> QED
      BY <2>3, <3>1, AnsweredValid DEF SecondValid
  <2> QED
    BY <1>2, <2>1, <2>2, <2>3, SecondInvalidKeeps, RaisesKeeps DEF Answered
<1>3. ASSUME NEW t \in Txs, Confirm(t) \/ Expire(t) PROVE PaymentInv'
  <2>1. CASE Confirm(t)
    BY <2>1 DEF Confirm, PaymentInv, PaymentTypeOK, AcceptedAreConfirmed, CacheJustified, Kept,
                Remembered, PendingRaced, AcceptedRaced, SpentTwiceOnlyInARace, Pending
  <2>2. CASE Expire(t)
    BY <2>2 DEF Expire, PaymentInv, PaymentTypeOK, Verdicts, AcceptedAreConfirmed, CacheJustified, Kept,
                Remembered, PendingRaced, AcceptedRaced, SpentTwiceOnlyInARace, Pending
  <2> QED
    BY <1>3, <2>1, <2>2
<1>4. CASE UNCHANGED paymentVars
  BY <1>4 DEF paymentVars, PaymentInv, PaymentTypeOK, AcceptedAreConfirmed, CacheJustified, Kept,
              Remembered, PendingRaced, AcceptedRaced, SpentTwiceOnlyInARace, Pending
<1> QED
  BY <1>1, <1>2, <1>3, <1>4, RestartKeeps DEF PaymentNext

(***************************************************************************)
(* The inductive invariant holds in every state of the payment handler.    *)
(***************************************************************************)
THEOREM PaymentInvariance == PaymentSpec => []PaymentInv
BY PaymentInitHolds, PaymentStepKeeps, PTL DEF PaymentSpec

(***************************************************************************)
(* The shared address.  As long as nothing strayed, at most one coroutine  *)
(* asks the fallback, and it holds the main endpoint to restore.           *)
(***************************************************************************)
Exchanged ==
  ~strayed => /\ \A e, f \in FallingBack : e = f
              /\ \A e \in FallingBack : original[e] = "main"
              /\ FallingBack = {} => url = "main"

LEMMA ExchangedStep ==
  ASSUME PaymentInv, Exchanged, [PaymentNext]_paymentVars
  PROVE  Exchanged'
<1> USE DEF Exchanged
<1>1. at \in [Payments -> Points] /\ original \in [Payments -> Endpoints]
  BY DEF PaymentInv, PaymentTypeOK
<1>2. ASSUME FallingBack' = FallingBack, UNCHANGED <<original, url, strayed>>
      PROVE  Exchanged'
  BY <1>2
<1>3. ASSUME NEW e \in Payments, Arrives(e)
      PROVE  Exchanged'
  <2>1. FallingBack' = FallingBack /\ UNCHANGED <<original, url, strayed>>
    BY <1>1, <1>3 DEF Arrives, Seen, Cached, Ask, FallingBack
  <2> QED
    BY <1>2, <2>1
<1>4. ASSUME NEW e \in Payments, FirstValid(e)
      PROVE  Exchanged'
  <2>1. FallingBack' = FallingBack /\ UNCHANGED <<original, url, strayed>>
    BY <1>1, <1>4 DEF FirstValid, FallingBack
  <2> QED
    BY <1>2, <2>1
<1>5. ASSUME NEW e \in Payments, FirstInvalid(e)
      PROVE  Exchanged'
  <2> SUFFICES ASSUME ~strayed'
               PROVE  FallingBack' = {e} /\ original'[e] = "main"
    OBVIOUS
  <2>1. ~strayed /\ FallingBack = {}
    BY <1>5 DEF FirstInvalid
  <2>2. FallingBack' = {e} /\ original'[e] = url
    BY <1>1, <1>5, <2>1 DEF FirstInvalid, FallingBack
  <2> QED
    BY <2>1, <2>2
<1>6. ASSUME NEW e \in Payments, SecondValid(e) \/ SecondInvalid(e)
      PROVE  Exchanged'
  <2>1. /\ FallingBack' = FallingBack \ {e} /\ e \in FallingBack
        /\ url' = original[e] /\ UNCHANGED <<original, strayed>>
    BY <1>1, <1>6 DEF SecondValid, SecondInvalid, FallingBack
  <2> QED
    BY <2>1
<1>7. ASSUME NEW e \in Payments, Raises(e)
      PROVE  Exchanged'
  <2>1. CASE e \in FallingBack
    BY <1>7, <2>1 DEF Raises
  <2>2. CASE e \notin FallingBack
    <3>1. FallingBack' = FallingBack /\ UNCHANGED <<original, url>>
      BY <1>1, <1>7, <2>2 DEF Raises, FallingBack
    <3>2. ~strayed' => ~strayed
      BY <1>7 DEF Raises
    <3> QED
      BY <3>1, <3>2
  <2> QED
    BY <2>1, <2>2
<1>8. ASSUME NEW t \in Txs, Confirm(t) \/ Expire(t)
      PROVE  Exchanged'
  <2>1. FallingBack' = FallingBack /\ UNCHANGED <<original, url, strayed>>
    BY <1>8 DEF Confirm, Expire, FallingBack
  <2> QED
    BY <1>2, <2>1
<1>9. CASE Restart
  <2>1. FallingBack' = {} /\ url' = "main"
    BY <1>9 DEF Restart, FallingBack
  <2> QED
    BY <2>1
<1>10. CASE UNCHANGED paymentVars
  <2>1. FallingBack' = FallingBack /\ UNCHANGED <<original, url, strayed>>
    BY <1>10 DEF paymentVars, FallingBack
  <2> QED
    BY <1>2, <2>1
<1> QED
  BY <1>3, <1>4, <1>5, <1>6, <1>7, <1>8, <1>9, <1>10 DEF PaymentNext, Answered

(***************************************************************************)
(* With nobody asking the fallback the address is the main endpoint's,     *)
(* unless two asked it at the same time or one that asked raised.          *)
(***************************************************************************)
THEOREM EndpointComesBack == PaymentSpec => []EndpointRestored
<1>1. PaymentInit => Exchanged
  BY DEF PaymentInit, Exchanged, FallingBack
<1>2. Exchanged => EndpointRestored
  BY DEF Exchanged, EndpointRestored
<1> QED
  BY <1>1, <1>2, ExchangedStep, PaymentInvariance, PTL DEF PaymentSpec

(***************************************************************************)
(* Type correctness, with the bound of the seen set, for all payments,     *)
(* transactions and bounds.                                                *)
(***************************************************************************)
THEOREM PaymentTypesCorrect == PaymentSpec => []PaymentTypeOK
<1>1. PaymentInv => PaymentTypeOK
  BY DEF PaymentInv
<1> QED
  BY PaymentInvariance, <1>1, PTL

(***************************************************************************)
(* handle_snin_payment accepts no payment of an unconfirmed transaction.   *)
(***************************************************************************)
THEOREM OnlyConfirmed == PaymentSpec => []AcceptedAreConfirmed
<1>1. PaymentInv => AcceptedAreConfirmed
  BY DEF PaymentInv
<1> QED
  BY PaymentInvariance, <1>1, PTL

(***************************************************************************)
(* The guarantee of the seen set: a transaction pays twice only if two of  *)
(* its payments were verified at the same time or the set had lost it.     *)
(***************************************************************************)
THEOREM SpentOnceOutsideRaces == PaymentSpec => []SpentTwiceOnlyInARace
<1>1. PaymentInv => SpentTwiceOnlyInARace
  BY DEF PaymentInv
<1> QED
  BY PaymentInvariance, <1>1, PTL
=============================================================================
