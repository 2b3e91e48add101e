SPECIFICATION Spec
CONSTANTS
  Expert = {e1, e2, e3}
  NSlots = 3
  Reserve = 1
  Stages = 2
  TopK = 2
  MaxKernels = 2
  MaxCopies = 5
  Nil = Nil
INVARIANTS TypeOK KernelReadsItsExperts ResidentIsComing OneExpertPerSlot
PROPERTY CallReturns
CHECK_DEADLOCK FALSE
