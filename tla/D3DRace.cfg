\* Two threads submitting to one queue, one list each.
CONSTANTS
  Parts = {"one queue"}
  t1 = t1
  t2 = t2
  q1 = q1
  q2 = q2
  buf = buf
  mem = mem
  heap = heap
  c1 = c1
  Queue = {q1}
  Thread = {t1, t2}
  QueueOf <- OneQueue
  Resource = {buf}
  Scratch = {}
  Members <- MCMembers
  MaxSubmits = 2
  MaxHeld = 1
SPECIFICATION PartSpec
INVARIANT NoDestroyInFlight
