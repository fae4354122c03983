\* One thread that waits for a DX12 fence, and gives up now and then.
CONSTANTS
  Backend = {"d3d"}
  Thread = {t1}
  Limited = {t1}
  MaxValue = 2
SPECIFICATION Spec
INVARIANT TrueMeansReached
CHECK_DEADLOCK FALSE
