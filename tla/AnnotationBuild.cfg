SPECIFICATION MCSpec
CONSTANTS
  Text = {"long", "short", "calm", "blank"}
  Blank = "blank"
  TokensOf <- MCTokens
  Terminal = {"."}
  Closing = {")"}
  WordCap = 2
  TokenBudget = 4
  Language = {"en", "fr"}
  Version = {1, 2}
  LemmaOf <- MCLemmaOf
  Builds = {1, 2}
  Inodes = {i1, i2}
  None = None
  Document = {1, 2}
  NoLanguage = "no"
  DetectedLanguage <- MCDetected
  MaxEdits = 1
  FirstSource <- MCFirst
INVARIANT
  NeverTorn
  CachedLayerAnnotatesItsTexts
  CreditIsExact
