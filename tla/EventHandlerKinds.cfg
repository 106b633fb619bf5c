CONSTANTS
  Events <- AllMixed
  Publishable <- Mixed
  Remote <- Nobody
  SsePosted <- Posted
  Managed <- JustBob
  Pubkeys <- MCPubkeys
  Values <- MCValues
  Plain <- MCPlain
  Whitelist <- MCWhitelist
  Named <- MCNamed
  Members <- MCMembers
  BanAt = 2
  Crashes = 1
SPECIFICATION Spec
INVARIANTS AckedPaymentIsLogged AckedIsIndexed AutoBanMatchesReports
