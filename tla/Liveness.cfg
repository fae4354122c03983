\* What must happen in the end, under fairness: one part in each behaviour, with the values
\* MCLiveness gives it.  Contexts that were destroyed, or could not be made, stop.
CONSTANTS
  u1 = u1
  u2 = u2
  q1 = q1
  q2 = q2
  c1 = c1
  t1 = t1
  buf = buf
  heap = heap
  Thread = {t1}
  Key <- OneAndBoth
  View = {v1}
  Heap = {h1, h2, h3}
  Default = Default
  Null = Null
  MaxUnused = 1
  FramesInFlight = 2
  MaxViews = 1
  MaxVersion = 2
  Backend = {"vulkan", "d3d"}
  Waiter = {"w1", "w2"}
  Limited = {"w2"}
  MaxValue = 2
  Producer = {"p1", "p2"}
  Consumer = {"c1", "c2"}
  Hasty = {"c2"}
  Item = {"x"}
  MaxLength = 2
  Queue = {q1, q2}
  Semaphore = {"s1", "s2"}
  MaxSubmits = 4
  BufferCount = 3
  FramesToRun = 2
  Habits = {}
  BackBuffers = 2
  Blits = FALSE
  MaxSlots = 4
  Surface <- Screens
  Info <- ChainInfos
  Width = {1, 2}
  MaxImages = 4
SPECIFICATION FairPartSpec
INVARIANTS
  PartsTypeOK
  TablesAreCurrent
  SwapChainsFit
  SignalsMeanWhatTheySay
  StartsAsAsked
PROPERTIES
  CondemnedGoes
  WaitsEnd
  StartsEnd
CHECK_DEADLOCK FALSE
