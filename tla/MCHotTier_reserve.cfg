SPECIFICATION Spec
CONSTANTS
  Expert = {e1, e2, e3}
  NSlots = 2
  Reserve = 1
  Stages = 1
  TopK = 1
  MaxKernels = 3
  MaxCopies = 5
  Nil = Nil
PROPERTY ReserveIsFree
CHECK_DEADLOCK FALSE
