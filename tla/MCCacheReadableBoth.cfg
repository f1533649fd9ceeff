SPECIFICATION Spec
CONSTANTS
  Boot = Boot
  Approval = Approval
  Chains <- MCBothChains
  Inodes <- MCInodes
  NoFile = NoFile
  EmptyLists <- MCEmptyLists
  MaxVersion = 2
  MaxIdle = 1
  MaxCuts = 1
INVARIANT CacheReadable
