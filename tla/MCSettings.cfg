SPECIFICATION FairSpec
CONSTANTS
  NoUrl = NoUrl
  NoPort = NoPort
  Unset = Unset
  Absent = Absent
  On = On
  Off = Off
  Hostname = Hostname
  Admin = Admin
  n1 = n1
  n2 = n2
  Named <- MCNamed
  Fresh <- MCFresh
  Changes <- MCChanges
  Typed <- MCTyped
  Leases <- MCLeases
  Environs <- MCEnvirons
  Memories <- MCMemories
  MaxSets = 2
  MaxCuts = 1
INVARIANTS
  TypeOK
  RejectedUndone
  AddressKept
  AddressUsable
  StableId
  TakesEffect
PROPERTIES
  ComesUp
