SPECIFICATION GraphSpec
CONSTANTS
  g1 = g1  u1 = u1  d1 = d1  g2 = g2  u2 = u2  d2 = d2  L1 = L1  L2 = L2  e1 = e1  e2 = e2
  a1 = a1  a2 = a2  a3 = a3  a4 = a4
  a5 = a5  a6 = a6  Nil = Nil
  Graph <- OneLayer
  Source = {g1, u1, d1}
  Layer = {L1}
  LayerOf <- OneLayerOf
  Expert = {e1, e2}
  OutOfRange = {}
  IdLists <- Singles
  NIds = 1
  SmallMax = 1
  SlabAddr = {a1, a2, a3}
  HeapAddr = {a4, a5, a6}
  Bytes <- UnitBytes
  Capacity = 3
  GroupMax = 4
  IdCheck = FALSE
  MergeOn = FALSE
  PassIdsKey = TRUE
  AbortOnError = TRUE
  MaxCalls = 13
INVARIANT IdsAreTheRouters
CHECK_DEADLOCK FALSE
