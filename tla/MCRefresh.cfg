SPECIFICATION FairSpec
CONSTANTS
  Boot = Boot
  Approval = Approval
  Chains <- MCOneChain
  Inodes <- MCInodes
  NoFile = NoFile
  EmptyLists <- MCEmptyLists
  MaxVersion = 3
  MaxIdle = 2
  MaxCuts = 2
INVARIANTS
  TypeOK
  CacheReadable
  KeepsRefreshing
PROPERTIES
  NeverOlder
  ImplementsLatestList
  Resync
