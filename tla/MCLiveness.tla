---------------------------- MODULE MCLiveness ----------------------------
(* Small instances, for TLC, of the parts that wait for others: for the    *)
(* GPU, for another thread or queue, for what is on the screen, for a      *)
(* device that fits. They share no state: each behaviour runs one of them. *)
(* Fairness is asked of the part that runs.                                *)
EXTENDS D3DDescriptorTables, SignalParts

CONSTANTS
  u1, u2,        \* UAVs
  q1, q2, c1,    \* queues, a command list
  t1,            \* a thread
  buf, heap      \* a buffer, a list's own descriptor heap

VARIABLES
  part,  \* what the behaviour is about
  cpuTimeline, gpuTimeline, vulkanPendingSubmits, inFlight, submit,
  vulkanList, listZombies, freePools, poolsMade, vulkanLife, snapshot,
  destroyDeferred, resourceZombies, gcPhase, gcAt, vulkanOldest,
  vulkanDevice, collectsLeft,
  cpuValue, fence, driver, d3dPendingSubmits, openLists, d3dCall, held,
  content, pooled, d3dLife, onDestroy, deferredDeletes, gc, d3dOldest,
  d3dDevice,
  startStep, options, available, machine, trueHeadless, enabled, alive,
  devices,
  adaptersList, byPower, supports, newInterface, warp, adaptersStep, wish,
  deviceIndex, adapterIndex, adapter, made

OneAndBoth == {{u1}, {u1, u2}}
NoMembers == [r \in {buf, heap} |-> {}]
OneQueue == [t \in {t1} |-> q1]

(* VulkanStartup: queue families of one queue for everything and one       *)
(* beside, with graphics apart, of each kind, and without graphics.         *)
Able == <<{"graphics", "compute", "transfer"}, {"transfer"}>>
Apart == <<{"graphics"}, {"compute", "transfer"}, {"graphics", "compute", "transfer"}>>
All == <<{"graphics", "compute", "transfer"}, {"compute", "transfer"}, {"transfer"}>>
Blind == <<{"compute", "transfer"}>>
Gpu(suitable, discrete, families, optional) ==
  [suitable |-> suitable, discrete |-> discrete, families |-> families, optional |-> optional]
Machines ==
  {<<>>, <<Gpu(TRUE, FALSE, Blind, {})>>,
   <<Gpu(FALSE, FALSE, Able, {}), Gpu(TRUE, FALSE, Apart, {})>>,
   <<Gpu(TRUE, FALSE, Able, {}), Gpu(FALSE, TRUE, All, {"address"}),
     Gpu(TRUE, TRUE, Apart, {"address", "structures", "query"}),
     Gpu(TRUE, TRUE, All, {"address", "structures"})>>}
Offers == {{"debug", "surface", "window"}, {"surface", "window"}, {"debug", "headless", "surface", "window"}}
Wishes == {-1, 0, 1, 9}

(* VulkanSurface: windows that offer much and little, and no window.       *)
Screen(framed, min, max, alphas, formats, modes) ==
  [window |-> framed, minImageCount |-> min, maxImageCount |-> max,
   alphas |-> alphas, formats |-> formats, presentModes |-> modes]
Screens ==
  {Screen(TRUE, 3, 0, {"none"}, <<"rgba8", "bgra8", "rgba8srgb">>, {"vsync"}),
   Screen(TRUE, 2, 4, {"none", "pre"}, <<"bgra8", "a2rgb10">>, {"vsync", "tearing", "latency"}),
   Screen(FALSE, 1, 2, {"none"}, <<"rgba8">>, {"vsync", "tearing"})}
ChainInfo(fmt, alpha, mode, buffers, extent) ==
  [format |-> fmt, alphaMode |-> alpha, presentMode |-> mode,
   bufferCount |-> buffers, extent |-> extent]
ChainInfos ==
  {ChainInfo("unorm8", "pre", "latency", 2, 1), ChainInfo("unorm8", "none", "adaptive", 3, 2),
   ChainInfo("float16", "none", "vsync", 2, 2)}

Vulkan == INSTANCE VulkanDevice WITH
  Queue <- {q1, q2}, List <- {c1}, Resource <- {buf}, Members <- NoMembers,
  MaxSubmits <- 1, pendingSubmits <- vulkanPendingSubmits,
  list <- vulkanList, life <- vulkanLife, oldest <- vulkanOldest,
  device <- vulkanDevice
D3D == INSTANCE D3DDevice WITH
  Queue <- {q1}, Thread <- {t1}, QueueOf <- OneQueue,
  Resource <- {buf, heap}, Scratch <- {heap}, Members <- NoMembers,
  MaxSubmits <- 2, MaxHeld <- 1, pendingSubmits <- d3dPendingSubmits,
  call <- d3dCall, life <- d3dLife, oldest <- d3dOldest, device <- d3dDevice
Start == INSTANCE VulkanStartup WITH
  Machine <- Machines, Available <- Offers, DeviceWish <- Wishes,
  MaxDevices <- 2, step <- startStep
Adapters == INSTANCE D3DStartup WITH
  Adapter <- {"a1", "a2", "a3"}, Wish <- Wishes, MaxDevices <- 1,
  list <- adaptersList, step <- adaptersStep

vulkanVars == <<cpuTimeline, gpuTimeline, vulkanPendingSubmits, inFlight,
                submit, vulkanList, listZombies, freePools, poolsMade,
                vulkanLife, snapshot, destroyDeferred, resourceZombies,
                gcPhase, gcAt, vulkanOldest, vulkanDevice, collectsLeft>>
d3dVars == <<cpuValue, fence, driver, d3dPendingSubmits, openLists, d3dCall,
             held, content, pooled, d3dLife, onDestroy, deferredDeletes, gc,
             d3dOldest, d3dDevice>>
chainVars == <<acquireIndex, chainImageIndex, isAcquireSuccess, presenting,
               acquired, finished, chainPhase, work, presents, image,
               chainDrawn, outOfDate>>
swapVars == <<waitable, queued, shown, swapDrawn, current, swapImageIndex,
              swapPhase, window, wrapped, slots>>
startVars == <<startStep, options, available, machine, trueHeadless,
               enabled, alive, devices>>
adaptersVars == <<adaptersList, byPower, supports, newInterface, warp,
                  adaptersStep, wish, deviceIndex, adapterIndex, adapter,
                  made>>

messageVars == <<deque, waitReady, holder, threadPhase>>
semaphoreVars == <<submitBackend, counter, reached, stream, count, signaller,
                   waiter, needs, ran>>
fenceVars == <<fenceBackend, value, signals, requests, event, waitPhase,
               wanted, answer, disturbed>>
surfaceVars == <<surface, size, settled, swapChainInfo, support, info, format,
                 presentMode, vkSwapchain, semaphores, extra, surfaceStep>>
signalVars == <<messageVars, semaphoreVars, fenceVars, surfaceVars>>

Parts == {"tables", "vulkan", "d3d", "chain", "swap", "start", "adapters",
          "messages", "semaphores", "fences", "surface"}
all == <<part, vars, vulkanVars, d3dVars, chainVars, swapVars, startVars,
         adaptersVars, signalVars>>

Unused == "unused"
(* One part runs in each behaviour, the others stay as they are.           *)
(* Those with many initial states are started only to run.                 *)
PartInit ==
  /\ part \in Parts /\ Init
  /\ Vulkan!Init
  /\ D3D!Init
  /\ Chain!Init
  /\ Swap!Init
  /\ IF part = "start" THEN Start!Init
     ELSE startStep = Unused /\ options = Unused /\ available = Unused
          /\ machine = Unused /\ trueHeadless = Unused
          /\ enabled = Unused /\ alive = Unused /\ devices = Unused
  /\ IF part = "adapters" THEN Adapters!Init
     ELSE adaptersList = Unused /\ byPower = Unused /\ supports = Unused
          /\ newInterface = Unused /\ warp = Unused
          /\ adaptersStep = Unused /\ wish = Unused
          /\ deviceIndex = Unused /\ adapterIndex = Unused
          /\ adapter = Unused /\ made = Unused
  /\ Messages!Init
  /\ Sems!Init /\ (part # "semaphores" => submitBackend = "d3d")
  /\ Fence!Init /\ (part # "fences" => fenceBackend = "d3d")
  /\ Surfaces!Init
  /\ part # "surface" =>
       surface = (CHOOSE s \in Screens : ~s.window) /\ swapChainInfo = (CHOOSE i \in ChainInfos : TRUE)

PartNext ==
  /\ part' = part
  /\ \/ part = "tables" /\ Next
        /\ UNCHANGED <<vulkanVars, d3dVars, chainVars, swapVars, startVars, adaptersVars, signalVars>>
     \/ part = "vulkan" /\ Vulkan!Next
        /\ UNCHANGED <<vars, d3dVars, chainVars, swapVars, startVars, adaptersVars, signalVars>>
     \/ part = "d3d" /\ D3D!Next
        /\ UNCHANGED <<vars, vulkanVars, chainVars, swapVars, startVars, adaptersVars, signalVars>>
     \/ part = "chain" /\ Chain!Next
        /\ UNCHANGED <<vars, vulkanVars, d3dVars, swapVars, startVars, adaptersVars, signalVars>>
     \/ part = "swap" /\ Swap!Next
        /\ UNCHANGED <<vars, vulkanVars, d3dVars, chainVars, startVars, adaptersVars, signalVars>>
     \/ part = "start" /\ Start!Next
        /\ UNCHANGED <<vars, vulkanVars, d3dVars, chainVars, swapVars, adaptersVars, signalVars>>
     \/ part = "adapters" /\ Adapters!Next
        /\ UNCHANGED <<vars, vulkanVars, d3dVars, chainVars, swapVars, startVars, signalVars>>
     \/ UNCHANGED <<vars, vulkanVars, d3dVars, chainVars, swapVars, startVars, adaptersVars>>
        /\ \/ part = "messages" /\ Messages!Next
              /\ UNCHANGED <<semaphoreVars, fenceVars, surfaceVars>>
           \/ part = "semaphores" /\ Sems!Next
              /\ UNCHANGED <<messageVars, fenceVars, surfaceVars>>
           \/ part = "fences" /\ Fence!Next
              /\ UNCHANGED <<messageVars, semaphoreVars, surfaceVars>>
           \/ part = "surface" /\ Surfaces!Next
              /\ UNCHANGED <<messageVars, semaphoreVars, fenceVars>>

PartSpec == PartInit /\ [][PartNext]_all

(* The fairness of each module, for the part that runs. *)
PartFairness ==
  /\ \A t \in Thread :
       /\ WF_vars(part = "tables" /\ EmplaceTable(t))
       /\ WF_vars(part = "tables" /\ WriteDefaultTable(t))
       /\ WF_vars(part = "tables" /\ WriteCopies(t))
       /\ SF_vars(part = "tables" /\ Complete(t))
       /\ WF_vars(part = "tables" /\ SubmitQueue(t))
  /\ WF_vars(part = "tables" /\ GpuComplete)
  /\ SF_vars(part = "tables" /\ CollectGarbage)
  /\ WF_vulkanVars(part = "vulkan" /\ Vulkan!TakePool(c1))
  /\ WF_vulkanVars(part = "vulkan" /\ \E q \in {q1, q2} : Vulkan!SubmitTrack(q, {c1}))
  /\ \A q \in {q1, q2} :
       /\ WF_vulkanVars(part = "vulkan" /\ Vulkan!SubmitHand(q))
       /\ WF_vulkanVars(part = "vulkan" /\ Vulkan!SubmitRetire(q, c1))
       /\ WF_vulkanVars(part = "vulkan" /\ Vulkan!GpuComplete(q))
  /\ SF_vulkanVars(part = "vulkan" /\ Vulkan!GcBegin)
  /\ WF_vulkanVars(part = "vulkan" /\ Vulkan!GcStep)
  /\ WF_d3dVars(part = "d3d" /\ D3D!TakeCommandBuffer(t1))
  /\ WF_d3dVars(part = "d3d" /\ D3D!SubmitStep(t1))
  /\ WF_d3dVars(part = "d3d" /\ held[t1] # {} /\ D3D!SubmitNumber(t1))
  /\ WF_d3dVars(part = "d3d" /\ D3D!GpuStep(q1))
  /\ SF_d3dVars(part = "d3d" /\ D3D!GcBegin)
  /\ WF_d3dVars(part = "d3d" /\ D3D!GcStep)
  /\ WF_chainVars(part = "chain" /\ \E k \in 1 .. FramesToRun : Chain!Run(k))
  /\ WF_chainVars(part = "chain" /\ Chain!Show)
  /\ WF_chainVars(part = "chain" /\ (Chain!AcquireFails \/ \E i \in Chain!Image : Chain!AcquireSucceeds(i)))
  /\ WF_swapVars(part = "swap" /\ Swap!AcquireNextImage)
  /\ WF_swapVars(part = "swap" /\ Swap!Step)
  /\ WF_swapVars(part = "swap" /\ \E b \in Swap!Buffer : Swap!Show(b))
  /\ WF_startVars(part = "start" /\ Start!Start)
  /\ WF_adaptersVars(part = "adapters" /\ Adapters!Search)
  /\ \A t \in Producer \cup Consumer : WF_messageVars(part = "messages" /\ Messages!Goes(t))
  /\ \A q \in {q1, q2} : WF_semaphoreVars(part = "semaphores" /\ Sems!Advance(q))
  /\ WF_fenceVars(part = "fences" /\ Fence!Signal)
  /\ \A t \in Waiter :
       WF_fenceVars(part = "fences" /\ (Fence!SetEventOnCompletion(t) \/ Fence!WakeUp(t)))

FairPartSpec == PartSpec /\ PartFairness

-----------------------------------------------------------------------------
(* Every part keeps its types.                                             *)
PartsTypeOK ==
  /\ TypeOK /\ Chain!TypeOK /\ Swap!TypeOK
  /\ part = "start" => Start!TypeOK
  /\ part = "adapters" => Adapters!TypeOK
  /\ Messages!TypeOK
  /\ Sems!TypeOK
  /\ Fence!TypeOK
  /\ Surfaces!TypeOK

(* VulkanStartup and D3DStartup: the device is the one asked for or the    *)
(* best that will do, each of its queues is of a family that can do what   *)
(* the queue says and dedicated ones are apart; no extension is enabled    *)
(* twice or without those it depends on, and nothing outlives what it was  *)
(* made from.                                                              *)
StartsAsAsked ==
  /\ part = "start" =>
       /\ Start!PicksWhatWasAsked /\ Start!QueuesFitTheirFamilies /\ Start!DedicatedAreApart
       /\ Start!ExtensionsOnce /\ Start!DependenciesEnabled /\ Start!NothingOutlivesItsParent
  /\ part = "adapters" => Adapters!PicksAsAsked

(* What is given up goes in the end: condemned resources of both backends, *)
(* and tables nobody uses; the pool of a submitted Vulkan list comes back. *)
CondemnedGoes ==
  /\ Vulkan!CondemnedIsDestroyed /\ Vulkan!PoolsComeBack
  /\ D3D!CondemnedIsDestroyed
  /\ UnusedTablesGo

(* Who waits is woken: on Vulkan AcquireNextImage returns, and on Direct3D *)
(* an image is acquired again and again as long as the window stays        *)
(* visible; every submission runs, a flag that is up is taken, and a wait  *)
(* for a fence ends once the value is reached, if nothing disturbed it.    *)
WaitsEnd ==
  /\ Chain!AcquireReturns
  /\ part = "swap" => Swap!AcquiresWhileVisible
  /\ part = "messages" => Messages!FlagsAreTaken
  /\ part = "semaphores" => Sems!SubmissionsRun
  /\ part = "fences" => Fence!WaitsEnd

(* The constructor of the Vulkan context and the search for a Direct3D     *)
(* adapter that will do come to an end.                                    *)
StartsEnd == Start!ConstructorEnds /\ Adapters!SearchEnds
=============================================================================
