SPECIFICATION FairSpec
CONSTANTS
  None = None
  Failed = Failed
  Unreadable = Unreadable
  Texts <- MCTexts
  MaxLines = 2
  PipeCap = 1
  Manifest <- MCManifest
  Accounts <- MCAccounts
  Wanted <- MCWanted
  ViewLimit = 2
INVARIANTS TypeOK ResultIsLastWord GraphTellsPoll NordwindIsShown
PROPERTY CallReturns
