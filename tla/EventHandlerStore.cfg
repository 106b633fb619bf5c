CONSTANTS
  Events <- Store
  Publishable <- Store
  Remote <- JustNote
  SsePosted <- Nobody
  Managed <- Nobody
  Pubkeys <- MCPubkeys
  Values <- MCValues
  Plain <- MCPlain
  Whitelist <- MCWhitelist
  Named <- MCNamed
  Members <- MCMembers
  BanAt = 2
  Crashes = 1
SPECIFICATION Spec
INVARIANTS AckedIsDurable IndexSound OneVersion
PROPERTY PromiseKept
