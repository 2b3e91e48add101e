SPECIFICATION Spec
CONSTANTS
  s1 = s1  s2 = s2  L1 = L1   e1 = e1  e2 = e2  x1 = x1
  a1 = a1  a2 = a2  a3 = a3  a4 = a4  Nil = Nil
  Source = {s1, s2}
  Layer = {L1}
  LayerOf <- OneLayer
  Expert = {e1, e2}
  OutOfRange = {x1}
  IdLists <- OneBadList
  NIds = 1
  SmallMax = 1
  SlabAddr = {a1, a2}
  HeapAddr = {a3, a4}
  Bytes <- UnitBytes
  Capacity = 2
  GroupMax = 2
  IdCheck = FALSE
  MergeOn = TRUE
  PassIdsKey = TRUE
  AbortOnError = TRUE
  MaxCalls = 5
INVARIANTS TypeOK RunningSlotsHeld CallSlotsHeld ServedBytes
CHECK_DEADLOCK FALSE
