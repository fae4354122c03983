\* Handles, memory and buffers: one part in each behaviour, with the values given here.  The bounds on what is made and released end a behaviour.
CONSTANTS
  Thread = {t1, t2, t3}
  MaxResources = 4
  LastVersion = 3
  MaxReturns = 4
  Caller = {t1}
  Collector = t1
  Place = {p1, p2, i1}
  Image = {i1}
  Structure = {s1}
  Block = {m1}
  BlockSize = 3
  LastCount = 3
  Work = {"w"}
  MaxIndices = 3
  MaxObjects = 4
  Alignment = 2
  HeapSize = 4
  MaxHandle = 4
  List = {c1, c2}
  UploadSize = 3
  PerList = 3
  MaxSubmits = 3
  MaxUnused = 1
  Modulus = 4
SPECIFICATION PartSpec
INVARIANTS
  PartsTypeOK
  OneHolder
  HeldIdsAreValid
  SlotHoldsItsResource
  StaleForAWhile
  MemoryIsAccounted
  SubmissionsFindTheirViews
  PlacedAreApartAndCounted
  UploadsReachTheGpu
  SubtractIsExact
PROPERTIES
  TableSpec
CHECK_DEADLOCK FALSE
