SPECIFICATION FairSpec
CONSTANTS
  NoUrl = NoUrl
  Server = Server
  Wrong = Wrong
  t1 = t1
  t2 = t2
  Idle = Idle
  Addresses <- MCAddresses
  Offers <- MCOffers
  Presets <- MCPresets
  Threads <- MCThreads
  MaxCuts = 1
PROPERTY FallsThrough
