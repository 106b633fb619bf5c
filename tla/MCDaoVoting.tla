---------------------------- MODULE MCDaoVoting ----------------------------
(***************************************************************************)
(* Instance of DaoVoting: the group table of the code, a proposal of a     *)
(* group of four (quorum 2), one of a group of five (quorum 3), one of a   *)
(* group the table does not know (never decided) and one without group.    *)
(***************************************************************************)
EXTENDS DaoVoting, TLC

MCGroupMembers ==
  ("strategy" :> 5) @@ ("market" :> 4) @@ ("dev" :> 4) @@ ("general" :> 15)

Ballot(id, voter, p, vote) ==
  [id |-> id, voter |-> voter, proposal |-> p, vote |-> vote]

Groups ==
  ("pdev" :> "dev") @@ ("pstr" :> "strategy") @@ ("pnew" :> "new") @@ ("pnone" :> NoGroup)

\* Second votes, ties, late votes, contents that are no vote, votes on proposals
\* that are never opened or never decided; enough votes in each sense.
Votes ==
  {Ballot("b1", "ana", "pdev", "approve"), Ballot("b2", "ana", "pdev", "reject"),
   Ballot("b3", "bob", "pdev", "reject"),  Ballot("b4", "dan", "pdev", "approve"),
   Ballot("b5", "ana", "pstr", "approve"), Ballot("b6", "bob", "pstr", "abstain"),
   Ballot("b7", "cid", "pstr", "reject"),  Ballot("b8", "dan", "pstr", "approve"),
   Ballot("b9", "eve", "pstr", "invalid"), Ballot("c1", "eve", "pstr", "reject"),
   Ballot("c2", "ana", "pnew", "approve"), Ballot("c3", "bob", "pnew", "reject"),
   Ballot("c4", "ana", "pnone", "approve"), Ballot("c5", "ana", "unknown", "approve")}
============================================================================
