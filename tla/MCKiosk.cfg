SPECIFICATION KioskFairSpec
CONSTANTS
  d1 = d1
  d2 = d2
  d3 = d3
  Ids <- MCIds
  NoId = NoId
  Lists <- MCLists
  MaxLive = 1
  Placeholder = Placeholder
  Setup = Setup
  Interval = 2
  Start = NoId
  Payloads <- MCPayloads
  NoOrder = NoOrder
  Codes <- MCCodes
  KeyNames <- MCKeyNames
INVARIANTS
  KioskTypeOK
  RemoteChoiceStays
  RestartShowsSame
PROPERTY
  GoesRound
