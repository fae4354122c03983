\* One queue, two lists, a buffer in a memory block, three submissions.
CONSTANTS
  q1 = q1
  c1 = c1
  c2 = c2
  buf = buf
  mem = mem
  Queue = {q1}
  List = {c1, c2}
  Resource = {buf, mem}
  Members <- MCMembers
  MaxSubmits = 3
SPECIFICATION Spec
INVARIANTS
  TypeOK
  NoDestroyInFlight
  DeviceInv
  PoolsGoRound
  DtorLeavesNothing
PROPERTIES
  LifetimeSpec
