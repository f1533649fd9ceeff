SPECIFICATION FairSpec
CONSTANTS
  Boot = Boot
  Approval = Approval
  Chains <- MCBothChains
  Inodes <- MCInodes
  NoFile = NoFile
  EmptyLists <- MCEmptyLists
  MaxVersion = 2
  MaxIdle = 1
  MaxCuts = 0
PROPERTY Resync
