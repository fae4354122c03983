\* Two images, one of a swap chain, and two queues they are handed between.
CONSTANTS
  Image = {"i1", "i2"}
  SwapImage = {"i2"}
  Queue = {"q1", "q2"}
  Layout = {"Undefined", "UnorderedAccess", "TransferDst", "PresentSrc"}
  MaxPending = 2
SPECIFICATION Spec
INVARIANT HandoverKeepsLayout
