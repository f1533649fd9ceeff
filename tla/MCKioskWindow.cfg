SPECIFICATION Spec
CONSTANTS
  a = a
  b = b
  c = c
  Ids <- MCIds
  NoId = NoId
  Lists <- MCLists
  MaxLive = 2
  Placeholder = Placeholder
  Setup = Setup
SYMMETRY MCSymmetry
INVARIANTS
  TypeOK
  LiveViewBound
  RecencyOrder
  ShownIsCurrent
  OnlyAllowed
  HighlightInRange
  RefreshIsInvisible
PROPERTIES
  CoverFollowsLoading
  ImplementsViewCache
