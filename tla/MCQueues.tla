----------------------------- MODULE MCQueues -----------------------------
(* For TLC: the DX12 backend with one queue, which the configuration gives *)
(* its constants; and two queues, of the DX12 backend with a thread and a  *)
(* submission to each, or of the Vulkan backend with one list and two      *)
(* submissions to each.  Each behaviour is about one of the three.         *)
EXTENDS D3DDevice

CONSTANTS
  Parts,           \* which of the three: "one queue", "d3d", "vulkan"
  t1, t2, q1, q2,
  buf, mem, heap,  \* a buffer, its memory block, a list's own descriptor heap
  c1               \* a command list

VARIABLES
  part,  \* what the behaviour is about
  d3dValue, d3dFence, d3dDriver, d3dPendingSubmits, d3dOpenLists, d3dCall,
  d3dHeld, d3dContent, d3dPooled, d3dLife, d3dOnDestroy, d3dDeferredDeletes,
  d3dGc, d3dOldest, d3dDevice,
  cpuTimeline, gpuTimeline, vulkanPendingSubmits, inFlight, submit, list,
  listZombies, freePools, poolsMade, vulkanLife, snapshot, destroyDeferred,
  resourceZombies, gcPhase, gcAt, vulkanOldest, vulkanDevice, collectsLeft

(* Every thread on one queue, and the buffer in the block. *)
OneQueue == [t \in Thread |-> q1]
MCMembers == [r \in Resource |-> IF r = mem THEN {buf} \cap Resource ELSE {}]

BufferInMemory == [r \in {buf, mem} |-> IF r = mem THEN {buf} ELSE {}]
QueueEach == [t \in {t1, t2} |-> IF t = t1 THEN q1 ELSE q2]

D3D == INSTANCE D3DDevice WITH
  Queue <- {q1, q2}, Thread <- {t1, t2}, QueueOf <- QueueEach,
  Resource <- {buf, mem}, Scratch <- {}, Members <- BufferInMemory,
  MaxSubmits <- 1, MaxHeld <- 1, cpuValue <- d3dValue, fence <- d3dFence,
  driver <- d3dDriver, pendingSubmits <- d3dPendingSubmits,
  openLists <- d3dOpenLists, call <- d3dCall, held <- d3dHeld,
  content <- d3dContent, pooled <- d3dPooled, life <- d3dLife,
  onDestroy <- d3dOnDestroy, deferredDeletes <- d3dDeferredDeletes,
  gc <- d3dGc, oldest <- d3dOldest, device <- d3dDevice

Vulkan == INSTANCE VulkanDevice WITH
  Queue <- {q1, q2}, List <- {c1}, Resource <- {buf, mem},
  Members <- BufferInMemory, MaxSubmits <- 2,
  pendingSubmits <- vulkanPendingSubmits, life <- vulkanLife,
  oldest <- vulkanOldest, device <- vulkanDevice

d3dVars == <<d3dValue, d3dFence, d3dDriver, d3dPendingSubmits,
             d3dOpenLists, d3dCall, d3dHeld, d3dContent, d3dPooled, d3dLife,
             d3dOnDestroy, d3dDeferredDeletes, d3dGc, d3dOldest, d3dDevice>>
vulkanVars == <<cpuTimeline, gpuTimeline, vulkanPendingSubmits, inFlight,
                submit, list, listZombies, freePools, poolsMade, vulkanLife,
                snapshot, destroyDeferred, resourceZombies, gcPhase, gcAt,
                vulkanOldest, vulkanDevice, collectsLeft>>

all == <<part, vars, d3dVars, vulkanVars>>

(* One part runs in each behaviour, the others stay as they are.           *)
PartInit ==
  /\ part \in Parts /\ Init
  /\ D3D!Init
  /\ Vulkan!Init

PartNext ==
  /\ part' = part
  /\ \/ part = "one queue" /\ Next /\ UNCHANGED <<d3dVars, vulkanVars>>
     \/ part = "d3d" /\ D3D!Next /\ UNCHANGED <<vars, vulkanVars>>
     \/ part = "vulkan" /\ Vulkan!Next /\ UNCHANGED <<vars, d3dVars>>

PartSpec == PartInit /\ [][PartNext]_all

-----------------------------------------------------------------------------
(* A destroyed resource is in no recorded list, and in no work that either *)
(* queue has yet to finish; a memory block goes after every resource       *)
(* placed in it, whichever of the queues is behind. CollectGarbage and the *)
(* snapshots of both backends.                                             *)
BothQueuesAreWaitedFor ==
  /\ part = "d3d" => D3D!NoDestroyInFlight /\ D3D!MembersBeforeBlock
  /\ part = "vulkan" => Vulkan!NoDestroyInFlight /\ Vulkan!MembersBeforeBlock
=============================================================================
