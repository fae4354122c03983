\* The constants are those of the DX12 backend with one queue: one thread
\* with two lists at a time and two submissions, a buffer, the memory block
\* it is placed in and a list's own heap.  MCQueues gives the two queues theirs.
CONSTANTS
  Parts = {"one queue", "d3d", "vulkan"}
  t1 = t1
  t2 = t2
  q1 = q1
  q2 = q2
  buf = buf
  mem = mem
  heap = heap
  c1 = c1
  Queue = {q1}
  Thread = {t1}
  QueueOf <- OneQueue
  Resource = {buf, mem, heap}
  Scratch = {heap}
  Members <- MCMembers
  MaxSubmits = 2
  MaxHeld = 2
SPECIFICATION PartSpec
INVARIANTS
  BothQueuesAreWaitedFor
  DestroysSafely
  DeviceInv
PROPERTY LifetimeSpec
