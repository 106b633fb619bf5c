CONSTANTS
  Proposals = {"pdev", "pstr", "pnew", "pnone"}
  Group <- Groups
  NoGroup = NoGroup
  GroupMembers <- MCGroupMembers
  Ballots <- Votes
SPECIFICATION Spec
INVARIANT TallyMatchesVotes
PROPERTY CountsAsReferendum
