# PyroRHI in TLA+

PyroRHI is a rendering hardware interface in C++: one interface (`src/PyroRHI`)
and two backends that implement it, Vulkan (`src/RHIVulkan`) and Direct3D 12
(`src/RHIDX12`). Two things in it are hard. One is *when a GPU object may go
away*: application threads record and submit work, the GPU finishes it some time
later, other threads give resources up meanwhile, and a garbage collector
decides, from counters read at different moments, what nothing uses any more.
The other is that *two drivers with different notions are given one description*:
states for layouts, one descriptor table for UAVs bound one by one, formats
without a counterpart, slices of levels, layers and planes. This project models,
checks and partly proves both.

## Inventory

Files are under `src/`. "Properties" are what makes the component correct.

| Component | State | Operations | Interacts with | Hard | Properties |
|---|---|---|---|---|---|
| Vulkan device, queues, lists (`RHIVulkan/Api/{Device,CommandQueue,CommandBuffer}`) | CPU and GPU timelines, pending submits, command list zombies, command pools, requests, resource zombies, open counts, locks | `GetCommandBuffer`, `SubmitQueue`, `Destroy*`, `CollectGarbage`, destructor | driver queues and timeline semaphores; handle pool; swap chain | threads against the collector against the GPU; snapshots compared later | destruction only of idle things; members before their block; pools not lost nor reset early; all is destroyed in the end; destructor leaves nothing |
| DX12 device, queues, lists (`RHIDX12/Api/{Device,CommandQueue,CommandBuffer}`) | fence values, pending submits, pooled command buffers, open counts, requests, deferred deletes | the same | driver queue and fence; upload buffers; UAV tables | `SubmitQueue` holds no lock | the same; allocators not reset early; fence values in order |
| DX12 upload buffers (`RHIDX12/Helper/LinearUploadBuffer`, parts of `Device`, `CommandBuffer`) | offset of each buffer, the available ones with their age | `Allocate`, `GetLinearBufferAllocation`, `UpdateBuffer`, ageing | lists, collector | a buffer that is full; reuse | what was uploaded is there when the GPU copies it; no buffer lost or shared |
| Vulkan handle pool (`RHIVulkan/Api/GPUResourcePool`) | pages of slots, free index stack, versions, zombie flags | `NewSlot`, `ReturnSlot`, `IsIdValid`, `DereferenceId` | device, collector | versions of 8 bits; references used without a lock | no slot is given twice; a handle in use is valid and leads to its own slot; a stale one is not valid |
| Vulkan memory and bindless descriptors (`RHIVulkan/Api/Device`, `GPUResourcePool.cpp`) | virtual blocks, residents, the descriptor set, views | `Create*`, `Destroy*`, table updates | handle pool, collector | a creation that fails half way; descriptors live beside work that reads them | room is one resource's; counts are exact; a handle's descriptor stays its own while work reads it |
| DX12 slots, maps and memory (`RHIDX12/Api/GPUResource`, `Device`) | tombstone stack with a sentinel, slots, maps of resources, blocks | `AcquireSlot`, `ReleaseSlot`, `Create*`, `Destroy*` | device, collector | check-then-act on the stack | no slot lost or given twice; placed resources lie apart |
| DX12 UAV tables (`RHIDX12/Api/Device`, `CommandBuffer`) | cache of descriptor tables with their age; what a list has bound | `GetUnorderedAccessViewDescriptorTable`, invalidation, ageing, flush at a draw | lists, collector | age counted in collections, not fences; blits | no table dropped while work uses it; copies are current; a draw finds what was bound |
| Swap chains (`*/Api/SwapChain`) | image index, two rings of semaphores, acquire fence, presenting queue; DX12 waitable object and blit views | `AcquireNextImage`, `SubmitQueue`, `PresentQueue`, `Resize` | device, presentation engine | failed acquires, resize between frames | semaphores pair up; the screen shows finished images; slots come back |
| Command recording (`*/Api/CommandBuffer`) | batched barriers, pass state, bindings, queries | some forty recording calls | handle pools, upload buffers, tables | order of batched state and commands; what a list believes against what the GPU has | barriers precede what they guard; states follow layouts; copies, clears and builds land where asked |
| Pipelines, views, samplers, formats, slices (`*/Api/{Pipeline,Device}`, `PyroRHI/Api/{Types,Util}.hpp`, `RHIDX12/Core.hpp`) | descriptions | `Create*`, size and slice arithmetic | driver | two translations of one description | both backends make the same of it |
| Contexts (`RHIVulkan/{VkContext,Entrypoint}.cpp`, `RHIDX12/D3DContext.cpp`) | instance, extensions, devices | start-up, choice of device and queues, shutdown | loader, drivers | what is offered varies | the device asked for or the best; dependencies enabled; nothing outlives its parent |
| Fences and semaphores (`*/Api/Sync`, `SubmitQueue`) | values; on DX12 an event for each fence and a count for each semaphore | `WaitForValue`, `SetValue`, waits and signals of a submission | driver, threads that wait | timeouts; one event for many waits; a binary semaphore against a fence that counts | a wait that returns true has seen its value; work runs after its signal; no wait sleeps on |
| Query pools | driver objects | results | driver | - | - |
| Concurrent containers (`PyroRHI/Common`) | a container, a lock, a wait flag | `Push`, `TryPop`, `EmplaceBack`, ... | both devices | one flag for many notifications | each method is atomic |
| Shader code, text, Metal, tests, vendored code | - | - | - | - | - |

How they interact, in one frame: a thread takes a command list (the open count
of its queue goes up and the collector is turned away from now on), acquires an
image, records, perhaps asks for resources to be destroyed (requests are queued,
nothing else), completes and submits; the submission is numbered, put on record,
given to the driver with the semaphores of the swap chain, and its lists are put
aside with its number; the open count goes down; the image is presented.
`CollectGarbage` then returns the pools of finished submissions, forgets these
submissions, destroys the zombies every queue has gone past, turns the requests
into zombies with a snapshot of the queues' counters, and lets upload buffers
and descriptor tables age.

The hazards found on the way are in `PROJECT.json`, each at its line, with the
properties that watch it.

## Modules

| Module | Of what |
|---|---|
| `ResourceLifetime` | The promise of `IDevice`, with no queue or collector in it: a condemned resource may stay in use, is destroyed only when idle and after everything placed in it, and is destroyed in the end. Both backends implement it (`LifetimeSpec`, `CondemnedIsDestroyed`). |
| `HandleTable` | The promise of the tables behind handles: an index is held by one handle at a time. The slots of both backends implement it: ids of `GpuResourcePool` (`TableSpec`), and in `D3DSlots` ids with the part of the user that holds them (`SlotTableSpec`). |
| `VulkanDevice`, `VulkanDeviceProofs` | Submission, recycling and deferred destruction in the Vulkan backend, with its inductive invariant `DeviceInv`, which begins with `IInv`; the proofs. |
| `D3DDevice`, `D3DDeviceProofs` | The same in the DX12 backend. |
| `GpuResourcePool`, `GpuResourcePoolProofs` | The slots of the Vulkan backend, how `Create*` and `Destroy*` use them, and the proofs. |
| `VulkanMemory` | Memory blocks, what is placed in them, creations without room, counting of residents. |
| `VulkanDescriptors` | The bindless descriptor set and the views behind it, next to submitted work. |
| `D3DSlots` | A heap of descriptor slots with the sentinel of its stack, a creating thread and the collector. |
| `D3DMemory` | Blocks, placed buffers and images, the maps from handle to data. |
| `D3DUploadBuffers` | `UpdateBuffer` and the upload buffers. |
| `D3DDescriptorTables`, `D3DDescriptorTablesProofs` | The cache of UAV tables: ageing, invalidation, copies of views; the proofs. |
| `D3DBindings` | What a list has bound: pending UAVs, root signatures, blits. |
| `D3DPasses` | Barriers, passes, clears and resolves against the states Direct3D has. |
| `D3DInputs` | Vertex buffers with their strides, timestamp queries a list resolves. |
| `VulkanRecording` | Batched barriers, ownership, passes, references to swap chains. |
| `RecordingProofs` | Proofs about `D3DSlots`, `D3DBindings`, `D3DInputs`, `D3DPasses` and `VulkanRecording`. |
| `VulkanPresentation`, `D3DPresentation` | The two swap chains and the engine behind them. |
| `VulkanSurface` | What a Vulkan swap chain is made for, and remade for when the window changes. |
| `Semaphores` | The semaphores of submissions on both backends. |
| `Fences` | The fences the CPU waits for on both backends. |
| `AtomicQueue` | The queue by which threads hand things on, with its wait flag. |
| `Formats`, `ImageCopies`, `ImageViews`, `Clears`, `Samplers` | Format tables and what both backends make of copies, views, clears and samplers. |
| `Pipelines` | A raster pipeline's description on both backends, specialisation constants, strides. |
| `AccelerationBuilds` | The arrays a call of `BuildAccelerationStructures` gives the driver. |
| `Subranges` | Slices and regions: contain, intersect, subtract. |
| `SequenceLemmas` | What the proofs need to know of vectors and stacks: `Append`, `Tail`, `RemoveAt`, `Front`, `SetToSeq`. |
| `VulkanStartup`, `D3DStartup` | Contexts: instance, extensions, choice of device and queues, shutdown. |
| `MemoryParts`, `MemoryProofs` | `VulkanMemory`, `VulkanDescriptors`, `D3DMemory`, `D3DUploadBuffers` and `Subranges` side by side, with what is asked of each; the proofs. |
| `SignalParts`, `SignalsProofs` | `Fences`, `AtomicQueue`, `Semaphores` and the swap chains side by side; the proofs. |
| `MC*` | Instances for TLC. `MCVulkanDevice` gives constants; `MCQueues`, `MCResources`, `MCLiveness` and `MCRecording` put several modules into one run, a part in each behaviour. |

### VulkanDevice

State is named after the code's members: `mQueuePendingSubmits` is
`pendingSubmits`, `mMainQueueCommandListZombies` is `listZombies`,
`mOnDestroyDeferredQueue` is `destroyDeferred`, `mResourceZombies` is
`resourceZombies`. `inFlight` is the work the driver has not finished, `life`
says where each resource's destruction has got to, `submit` is the call of
`SubmitQueue` that holds the mutex of a queue.

- `GetCommandBuffer` is `CountOpen` (under the shared lock) and `TakePool`.
- `SubmitQueue` holds the shared lock and its queue's mutex; it is `SubmitTrack`
  (number, pending submit), `SubmitHand` (`vkQueueSubmit2`) and one
  `SubmitRetire` for each list. Recorders on other queues, requests and the GPU
  come in between.
- `TryEnqueueDestroyDeferred` holds no queue lock and may come at any moment,
  between the drains of the collector too.
- `CollectGarbage` holds the lock alone and is one action per turn of its loops
  (`GcList`, `GcSubmit`, `GcZombie`, `GcDrain`), as the GPU completes work and
  requests arrive between them. A call that finds a list open returns false and
  changes nothing: a stutter.
- The destructor is `DtorWaitIdle`, three collections and `DtorEnd`.

`mGlobalQueueMutex` is `SharedAccess` and `ExclusiveAccess`: the lock state
follows from `submit` and `gcPhase`. `mOpenCommandBuffers` is the set of lists
it counts (`OpenCommands`). A resource is abstract: what `Destroy*` does to a
buffer, an image or a view differs only in the driver call, except for the
`debugReferences` of a memory block, which `Members` stands for.

### D3DDevice

`SubmitQueue` holds no lock, so each of its calls that changes state is an
action: `SubmitNumber` (`IncGetCpuValue`), `SubmitTrack`, `SubmitExecute`
(`ExecuteCommandLists`), `SubmitSnapshot`, `SubmitSignal`, and one
`RestoreCommandBuffer` for each list, which hands the list's own scratch to the
deferred deletes. `driver[q]` is the queue of work and signals of the D3D12
queue, which takes them in the order of the calls (external to the code).
`GetCommandBuffer` is `AskForCommandBuffer`, which counts before it has the lock,
and `TakeCommandBuffer`. The collector is the Vulkan one without the first loop.

### D3DUploadBuffers

Sizes are in units of the 256-byte alignment, a buffer has `Size` of them. One
thread records; calls are atomic, since while a list is open the collector is
away. When the collector finds a submission finished is left open (any not newer
than some `latest`): that it never does so too early is D3DDevice's matter.

### GpuResourcePool

One pool, as there is one for each kind of resource; pages are left out, so an
index is an entry of a function. `NewSlot`, `ReturnSlot` and `DereferenceId` hold
`mUseAfterFreeChecMtx` (the first two `mPageAllocMtx` as well) and are one step each. Between
them a thread writes through the reference it was given, without a lock: `Fill`
(`ret.info = info` and the driver's object) and `EmptySlot` (`slot = {}`) are
steps of their own, and `call` says how far each thread has come. A creation
ends by `Created`, or by `ReturnSlot` when its memory block has no room.
`AtLeastOne` is `eastl::max<u8>`, with the cut to 8 bits; `LastVersion` is 255 in
the code. An application destroys an id once. Nothing sets `zombie`.

### Memory, slots and descriptors

`VulkanMemory` has one step for each part of `CreateBuffer`, `CreateImage` and
`Create*Las` that another thread can see: `NewResource` takes the slot,
`AllocateItsOwn` or `PlaceInBlock` finds the room, `OutOfRoom` is the path on
which there is none and the slot goes back, `ReadReferences` and
`CountResident` are the two halves of `debugReferences++`. Destruction is
`UncountResident`, `FreeResident`, `FreeItsOwn`, `FreeBlock`.
`VulkanDescriptors` keeps the one descriptor set that is updated while work
reads it: a submission records handles with what they meant, and reads by index.
That the collector waits for that work is taken from `ResourceLifetime`
(`Idle`).

`D3DSlots` splits `AcquireSlot` into the question about the stack's size (`Ask`)
and its answer (`Take`, `Grow`, `Pop`), with the collector's `Release` in
between. `D3DMemory` follows offsets in a block through placement, alignment
and freeing. `D3DDescriptorTables` splits a miss of the cache (`MakeTable`,
`EmplaceTable`) and a new view (`CreateShaderResource`, `WriteDefaultTable`,
`WriteCopies`), since lists may be submitted in between. A descriptor is the
number of the resource it shows, so that a copy that missed an update shows.

### Recording

`D3DBindings` has the notes of a list (`mPendingUAVs`, last bound tables, blit
state) next to the state of the `ID3D12GraphicsCommandList` (root signature and
parameters, heaps, pipeline), with Direct3D's rule that a new root signature
makes all root parameters stale. `D3DPasses` has the state of each subresource
and plane next to the layout the caller believes in. `D3DInputs` has the
buffers bound with the strides they were bound with. `VulkanRecording` has the
batch of barriers, the stream, and lists of several queues in the order they
run. In all of them a recording call is one action with every flush it makes.

`ImageCopies`, `ImageViews`, `Clears`, `Samplers`, `Pipelines`,
`AccelerationBuilds` and `Subranges` are about arithmetic and translation: their
actions make one thing out of a small set of descriptions, once for each
backend, and the properties compare what comes of it with a definition of what
was asked. Formats are channels and readings, with the DXGI formats as table.

### Presentation

In `VulkanPresentation` a semaphore is a place in a ring; submissions and
presents take and give signals as the driver would, and the window goes out of
date at any moment. `D3DPresentation` has the waitable object as a flag, the
queue of frames, and the slots of blit views as a count. `VulkanSurface` is what
comes before: what the surface offers (`SupportNow`), the constructor and
`Resize` in two steps each, as the window may change between the question and
`CreateSwapChain`. It follows the counts of images and semaphores through
resizes, the driver being free to make more images than it is asked for.

### Signals

`Semaphores` appends the calls of one `SubmitQueue` to the stream of a driver's
queue, which takes them one by one: on Vulkan a wait takes the signal away, on
DX12 it is for the number `D3DSemaphore` last gave. `Fences` has the three steps
of `WaitForValue` on DX12, the look at the value (`WaitForValue`), the request
(`SetEventOnCompletion`) and the event (`WakeUp`, or `TimeOut`), with the GPU
and other threads in between; `disturbed` notes that a wait has timed out or
that two went on at once, after which an answer may be early (finding 5).
`AtomicQueue` splits `Push` into the deque, the flag and `notify_one`; sleepers
may wake for no reason or in time, and consumers take until `TryPop` finds
nothing. Neither backend waits on such a container.

### Start-up

`VulkanStartup` starts from any of several machines (extensions offered, devices
with queue families and optional features) and follows `CreateRHIContext`,
`CreateDevice` and their opposites. `D3DStartup` is `GetHardwareAdapter`, a loop
in a loop, over every order of adapters.

## Contract of the callers

The models assume of the application what the interface asks of it:

- it uses a resource it gave up at most until the collector takes the request
  in (`Usable`); the tests do so (`ConcurrentDestroyDeferredStressTest`);
- a block is given up after its members (the note at `IDevice.hpp:595`);
- an immediate destruction is of an idle resource;
- at the device's destruction every list has been submitted, and no other call
  is being made;
- to each DX12 queue one thread submits (`OneThreadAQueue`; finding 1 is what
  comes of two);
- one update is not larger than an upload buffer (64 KiB, `ICommandBuffer.hpp:271`);
- of one DX12 device, one thread creates (`D3DSlots`, `D3DMemory`) and one thread
  records (`D3DUploadBuffers`, `D3DDescriptorTables`); the collector may be another;
- one thread renders to a swap chain: acquire, submit, present, and resize after
  a failed acquire, once the device is idle. The constant `Habits` of
  `VulkanPresentation` adds what the tests also do: to try again at once
  (`"retries"`, `ValidateSwapChainImpl.hpp:252`) and to present what was not
  drawn (`"blank"`, `:122-125`). With them a semaphore can be asked for that is
  still waited for (`EnoughSemaphores`); the runs leave them out;
- a barrier names the layout an image was left in, and stands outside of passes;
- a top level structure is built of bottom level ones of earlier calls;
- a semaphore is waited for once, by a submission after the one that signals it,
  and is signalled again when what waited for it has run; the values of a fence
  grow.

Of the drivers: a queue finishes its work, and signals, in order; `WaitIdle`
returns when all work is done; what is presented is shown in order.

## Runs

| Run | Instance | Shows |
|---|---|---|
| `vulkan_one_queue` | 1 queue, 2 lists, a buffer in a block, 3 submissions | `VulkanDevice`: safety, order, pools, destructor, refinement of `ResourceLifetime` |
| `queues` | DX12: 1 queue, 2 lists at a time, a buffer in a block and a list's heap, 2 submissions; and 2 queues, with one submission by a thread each on DX12, two and one list on Vulkan | `D3DDevice`: safety, order, destructor, the invariant of the proofs, refinement of `ResourceLifetime`; `BothQueuesAreWaitedFor`: timelines are compared queue by queue |
| `resources` | `GpuResourcePool`, `VulkanMemory`, `VulkanDescriptors`, `D3DMemory`, `D3DUploadBuffers`, `Subranges` | handles, memory, uploads, refinement of `HandleTable` |
| `liveness` | `D3DDescriptorTables`, `VulkanDevice`, `D3DDevice`, both swap chains, `VulkanSurface`, `Semaphores`, `Fences`, `AtomicQueue`, both start-ups | what must happen in the end, and the safety of tables, swap chains, signals and start-ups |
| `recording` | `D3DSlots`, `D3DBindings`, `D3DPasses`, `D3DInputs`, `VulkanRecording`, `ImageCopies`, `ImageViews`, `Pipelines`, `AccelerationBuilds`, `Clears`, `Samplers` | what is recorded is what was asked, with views in slots of their own; refinement of `HandleTable` |
| `d3d_race`, `d3d_upload_wrap`, `d3d_swap_slots`, `vulkan_ownership`, `d3d_fence_event`, `d3d_copy_offset`, `d3d_blit_table` | the smallest that shows it | *violations*: see findings |

**Parts.** `MCQueues`, `MCResources`, `MCLiveness` and `MCRecording` hold modules
that share no state. A variable `part` is chosen at the start: each behaviour
runs one module, under its own `Init` and `Next`, while the variables of the
others stay as they are. A property of such a run joins those of its modules:

| Property | Joins |
|---|---|
| `MemoryIsAccounted` | `VulkanMemory`: `SlotsAreHeld`, `RoomIsItsOwn`, `CountsResidents`, `BlockAssertHolds` |
| `SubmissionsFindTheirViews` | `VulkanDescriptors`: `ReadsFindTheirs`, `NothingLeaks` |
| `SlotsInOrder` | `D3DSlots`: `NoSlotLostOrShared`, `ViewsAreOwn`, `GrowsForThePeak` |
| `PlacedAreApartAndCounted` | `D3DMemory`: `PlacedApart`, `CountsResidents`, `DataFollowsHandles` |
| `UploadsReachTheGpu` | `D3DUploadBuffers`: `UploadsIntact`, `BuffersConserved`, `DeletedAreIdleAndAll` |
| `DestroysSafely` | `D3DDevice`: `NoDestroyInFlight`, `NoAllocatorResetInFlight`, `MembersBeforeBlock`, `DtorLeavesNothing` |
| `SubtractIsExact` | `Subranges`: `LeftIsTheRest`, `PiecesApart`, `PredicatesAgree` |
| `PoolsGoRound` | `VulkanDevice`: `NoPoolReuseInFlight`, `PoolsConserved` |
| `BothQueuesAreWaitedFor` | `NoDestroyInFlight` of both devices, `MembersBeforeBlock` of `VulkanDevice` |
| `TablesAreCurrent` | `D3DDescriptorTables`: `NoTableReleasedInFlight`, `CopiesCurrent` |
| `SwapChainsFit` | `VulkanPresentation`: `EnoughSemaphores`, `SemaphoresPair`, `ShowsWhatWasDrawn`; `D3DPresentation`: `OneFrameAhead`, `DrawsToTheCurrent`; `VulkanSurface`: `FitsTheSurface`, `InfoIsTrue`, `SemaphoresSuffice` |
| `SignalsMeanWhatTheySay` | `AtomicQueue`: `NoWakeUpIsLost`; `Semaphores`: `RunsAfterItsSignal`; `Fences`: `ReachedUnlessDisturbed` |
| `StartsAsAsked` | `VulkanStartup`: `PicksWhatWasAsked`, `QueuesFitTheirFamilies`, `DedicatedAreApart`, `ExtensionsOnce`, `DependenciesEnabled`, `NothingOutlivesItsParent`; `D3DStartup`: `PicksAsAsked` |
| `CondemnedGoes` | `CondemnedIsDestroyed` of both devices, `PoolsComeBack`, `UnusedTablesGo` |
| `WaitsEnd` | `AcquireReturns`, `AcquiresWhileVisible`; `AtomicQueue`: `FlagsAreTaken`; `Semaphores`: `SubmissionsRun`; `Fences`: `WaitsEnd` |
| `StartsEnd` | `ConstructorEnds`, `SearchEnds` |
| `DrawsFindWhatWasSet` | `D3DBindings`: `BoundUnlessBlitted`, `NoDrawWithBlitState`; `D3DInputs`: `DrawsReadWhatIsSet`, `ListsEndClean` |
| `PassesKeepTheStates` | `D3DPasses`: `StatesFollowLayouts`, `TouchesOnlyAttached`, `ResolvesItsOwn` |
| `BarriersAreInTime` | `VulkanRecording`: `CommandsFindTheirLayouts`, `SwapMovesAreKnown` |
| `CopiesLand` | `ImageCopies`: `StagedApart`, `DownloadsReturn`, `VulkanUploadsLand`, `D3DUploadsLand` |
| `ViewsShowWhatWasAsked` | `ImageViews`: `AskedIsCovered`, `WholeIsExact`, `WritesOneLevel`, `FormatsFit`, `TexelSizesAgree` |
| `PipelinesAgree` | `Pipelines`: `ConstantsAsAsked`, `SameOnBoth`, `FetchesAsDeclared` |
| `BuildsFitTheirRoom` | `AccelerationBuilds`: `BuiltAsAsked`, `FitsItsRoom` |
| `ClearsAndSamplesAsAsked` | `Clears`: `ClearsAsAsked`, `PlanesAsAsked`; `Samplers`: `ReadsAsAsked` |

**Bounds.** `MaxSubmits` bounds submissions per queue; every open list keeps one
in reserve, so that no behaviour is cut off in the middle of a list. Three
submissions are enough for a resource used by one, condemned during the next and
collected during the third; two for the reuse of pools and allocators. With two DX12 queues each makes one:
the comparison needs no more, `queues` has two on one queue, and the theorems
hold for any number. Two lists
make the open counts and the closing loops interesting, two queues the
comparison of snapshots; a block and a member the order of destruction. Loops of
the collector are not bounded otherwise.

In the pool three versions wrap within the four returns `MaxReturns` allows an
index; three threads make one create, one destroy and one take what was given
back, at the same time. `VulkanMemory` has two places for buffers, one for an
image, a structure, and a block of three units, too small for all of them; its
counter wraps after `LastCount` and below zero. `VulkanDescriptors` has three
indices and makes four objects, so that an index is given out again while work knows it.
`D3DSlots` has a user of one slot, two targets and an image of two subresources,
with three releases; it may stop there, having made what it may. `D3DMemory` has blocks of two alignments. Upload buffers
have three units, a list may upload three; `MaxUnused` stands for the 100
collections after which a buffer, and the 61 after which a table, is dropped.
`D3DDescriptorTables` has two UAVs, two combinations of them and three heaps; a
UAV's slot is given out twice (`MaxVersion`), and a view is made again once
(`MaxViews`).

The swap chain of Vulkan has three images and two frames in flight, so that the
two rings of semaphores are out of step; that of DX12 two. `VulkanSurface` has
three surfaces, two of windows and a headless one, with limits that an
application's wish is below, within or above. Four submissions on two queues
with two semaphores use a semaphore again on another queue; a fence goes to 2,
for two threads of which one gives up in time; the queue of `AtomicQueue` holds
two things between two producers and two consumers. The machines of
`VulkanStartup` have a device that will not do, one that lacks graphics, queue
families apart and together; wishes are automatic, valid and out of range.
Subranges count modulo 4: every pair of ranges, empty ones and ones up to the
end. The shapes of `ImageCopies` have rows that fill their pitch and rows that do not,
layers, depth, three bytes to a texel, and blocks.

`CHECK_DEADLOCK FALSE` stands in `resources` and `liveness`, where bounds on
what is made, or a context that could not be made, end a behaviour.

**Fairness.** Liveness is checked under `PartFairness`, the fairness of each
module for the part that runs. Calls go on once they have begun, the GPU
finishes work and comes to its signals, the presentation engine shows what was
presented, recorded lists are submitted, and a thread that was woken goes on:
weak fairness. It is strong fairness for the beginning of a
collection and for `Complete`: `CollectGarbage` is called again and again, as
`IDevice` requires for deferred destruction, but lists may be opened in between.
An application whose lists are never all closed when it collects has no
progress from this code either, and it is told so by `false`. A search for an
adapter ends if some adapter will do; `WaitsEnd` promises images on DX12 only
to a window that stays visible.

**Mutants.** For every property of a passing run, and for nearly every part a
property joins, there is a change of a mapped definition, of the kind a mistake
in the code would be, under which TLC finds the property violated
(`PROJECT.json`). Their bodies stand beside the definitions they replace
(`OpenListsIgnored`, `CompletedStrictly`, `AskWithoutSentinel`, ...).

## Findings

1. `d3d_race`: two threads that submit to one DX12 queue can execute and signal
   in the other order than they drew their fence values; the fence reads 2 with
   the work of 1 still to run, and the collector destroys what that work uses.
   A stress test does exactly this and is marked flaky.
2. `d3d_upload_wrap`: `LinearUploadBuffer::Allocate` starts over when full
   instead of returning `nullptr` as documented, and a list overwrites its own
   uploads.
3. `d3d_swap_slots`: `DestroyImages` of the DX12 swap chain keeps the slots of
   the blit views, which each resize acquires anew.
4. `vulkan_ownership`: the barriers that hand an image to another queue leave
   both layouts undefined, and the image loses its own; a test counts on it.
5. `d3d_fence_event`: a wait for a DX12 fence that times out leaves its request
   behind, and the event that sets answers a later wait, for a higher value, with
   `true` before the fence is there; `IFence.hpp:79` says true means reached.
6. `d3d_copy_offset`: `CopyBufferToImage` reads from the start of the buffer,
   whatever `bufferOffset` says.
7. `d3d_blit_table`: after a blit a draw with the same UAVs as before takes its
   descriptor table for bound, though the root signature set anew has none.

Seen while reading, with no run of their own:

- `TryEnqueueDestroyDeferred` never enqueues at once, as its comment
  (`RHIVulkan/Api/Device.hpp:155`) says, but waits for the next collection
  (`Device.cpp:2205`): the code's way is the safe one.
- A handle keeps 8 bits of version in a field of 32 (`GPUResource.hpp:221`): the
  255th return of an index makes its first stale handle valid again.
  `StaleForAWhile` says what is true, and is proved.
- DX12: a float colour is copied by the size of a pointer
  (`CommandBuffer.cpp:577`); a query pair starts as `{0, 0}` (546); formats of
  depth alone count two planes (485); two lists that miss the table cache
  together each build a heap (`Device.cpp:1432`); the block description in a
  constructor shadows another (261); blocks that are no multiple of 64 KiB; views
  of buffers start in bytes where elements are counted (518); `RG16Unorm` and
  `E5BGR9` have no typeless format of their own (`Core.hpp:274`, `332`); front
  stencil masks serve both faces (`Pipeline.cpp:227`), slope and clamp of a depth
  bias are set without it (188); filters linear in two of the three
  cases read all three linear (`Device.cpp:736`, `749`); no adapter that will do makes a loop without
  end (`D3DContext.cpp:137`); a resize may change `bufferCount`
  (`SwapChain.cpp:266`); timeouts of a fence below a millisecond are none
  (`Sync.cpp:60`).
- Vulkan: a clear of `DEPTH_STENCIL` clears the stencil plane only
  (`CommandBuffer.cpp:601`, which `PlanesAsAsked` excepts); semaphores are made
  once, so a driver that makes more images at a resize than it is asked for
  leaves some without (`SwapChain.cpp:331`, `extra` in `SemaphoresSuffice`); a
  resize of a headless surface takes an extent that means none and clamps it to
  the largest (152); `SetPresentMode` waits for the next resize, and `Info` is
  not told (162); a placed buffer visible to the host is not mapped (`Device.cpp:694`);
  a fallback to device 0 whatever it is (`VkContext.cpp:487`); an early return
  with an instance made (189); row lengths of downloads in block formats
  (`CommandBuffer.cpp:162`).
- Interface: counts of `PYRO_REMAINING_*` wrap in slice arithmetic
  (`Types.hpp:829`); barriers from `Undefined` name the common state (596, a
  FIXME).

## Proofs

Every theorem is of the specification of a module, for any value of the
constants that the assumptions beside them allow: any sets of queues, threads,
lists, resources and heaps, any placement in blocks, and any number where TLC
has a bound. What else a theorem needs of its application is its hypothesis.
Where a run joins several modules, a property of the run is proved of the
specifications of the modules it is about, which are what the parts of its
`PartSpec` do.

| Module | Theorems | Hypotheses |
|---|---|---|
| `VulkanDeviceProofs` | `TypeCorrect`, `InductiveInvariant`, `DestroyIsSafe` (`NoDestroyInFlight`), `BlocksGoLast` (`MembersBeforeBlock`), `PoolsRecycle` (`PoolsGoRound`), `DestructorCleansUp` (`DtorLeavesNothing`), `DeviceInvariant` (`DeviceInv`), `KeepsThePromise` (`LifetimeSpec`) | none |
| `D3DDeviceProofs` | `TypeCorrect`, `InductiveInvariant`, `DestroyIsSafe`, `AllocatorsAreIdle`, `BlocksGoLast`, `DestructorCleansUp`, `SafeAndInOrder` (`DestroysSafely`), `DeviceInvariant` (`DeviceInv`), `KeepsThePromise` (`LifetimeSpec`) | `OneThreadAQueue` |
| `GpuResourcePoolProofs` | `PoolTypeOK`, `PoolOneHolder`, `PoolHeldIdsAreValid`, `PoolSlotHoldsItsResource`, `PoolStaleForAWhile`, `PoolIsAHandleTable` (`TableSpec`) | none |
| `RecordingProofs` | `TypeCorrect`, `InductiveInvariant`, `EverySlotIsSomewhere`, `LiveViewsAreOwn`, `HeapIsLargeEnough`, `SlotsStayInOrder` (`SlotsInOrder`), `SlotsAreATable` (`SlotTableSpec`); `DrawsAreFound` (`DrawsFindWhatWasSet`), `StatesAreKept` (`PassesKeepTheStates`), `LayoutsAreInTime` (`BarriersAreInTime`) | of the constants `BindingsAssumption`, `InputsAssumption`, `PassesAssumption`, `BarriersAssumption` |
| `D3DDescriptorTablesProofs` | `TypeCorrect`, `InductiveInvariant`; `TablesStayCurrent` (`TablesAreCurrent`) | none; for the last `OneThread`, `LagIsShort` |
| `MemoryProofs` | `HandsAndRoomsAgree`, `OneThreadAccounts` (`MemoryIsAccounted`); `ShadersFindTheirViews` (`SubmissionsFindTheirViews`); `PlacedApartAndCounted` (`PlacedAreApartAndCounted`); `UploadsArrive` (`UploadsReachTheGpu`); `SubtractionIsExact` (`SubtractIsExact`) | of the constants `Kinds`, `Sizes`, `Wide`; `Alone` for `OneThreadAccounts`, `WholeHeaps`, `OneBufferEach` |
| `SignalsProofs` | `WaitsTellTheTruth`, `NoWakeUpLost`, `WorkRunsAfterItsSignal`, `SignalsAreMeant` (`SignalsMeanWhatTheySay`); `OneFrameAtATime`, `SemaphoresGoRound`, `MadeForTheSurface`, `SwapChainsAreFit` (`SwapChainsFit`) | of the constants `Roles`, `Names`, `TwoBuffers`, `Offers`; `Rings` |

### Vulkan: submission and deferred destruction

`NoDestroyInFlight` is not inductive: that a zombie the collector finds ready is
idle depends on what the collector read some steps before, and on what was true
when the snapshot was taken. `IInv` adds:

- `LockInv`: while the collector runs nothing is open or being submitted, so a
  snapshot misses no use of the resource;
- `TimelineInv`: unfinished submissions are numbered apart, above the GPU's
  value, and each is among the pending submits;
- `CondemnedInv`: a condemned resource is in one vector, once;
- `ZombieInv`: a zombie is used only by submissions its snapshot covers;
- `ScanInv`: `oldest` is at most the GPU's value for every queue the scan met
  with work left, and UINT64_MAX only for queues without any.

The argument: a ready zombie has `oldest[q]` above its snapshot on every queue
(`ReadyIsIdle`). Were a submission of `q` still using it, the submission would be
pending, so `oldest[q]` is at most the GPU's value, which is below the
submission's, which is at most the snapshot: a contradiction. Each part of `IInv`
has one lemma, with one step per action.

`DeviceInv` adds what the order, the pools and the destructor need:

- `SnapshotInv` and `BlockInv`: snapshots grow along the zombies, a member is
  ahead of its block in both vectors, and what the collector has gone past in
  this collection is not ready. So when it comes to a block that is ready, all
  before it that is still there would have been ready as well: the members are
  gone (`MembersBeforeBlock`);
- `PoolInv`: a pool is in one place, and those of unfinished work are with list
  zombies of the submission's number, or with the lists about to be such. The
  collector frees a zombie's pool when the GPU has gone past that number;
- `CountInv` and `ShutInv`: what each of the destructor's three collections
  leaves behind. After `WaitIdle` the first takes in the requests and forgets
  the submissions, so that the second finds everything ready.

`KeepsThePromise` maps each step to a step of `ResourceLifetime`, or to none;
that a destroyed resource is idle, and its members gone, is `DeviceInv`.

### DX12: submission and deferred destruction

Here nothing is locked while a submission is numbered, executed and signalled.
`d3d_race` shows that with two threads on a queue a signal may come before the
work it stands for; `OneThreadAQueue` rules that out, and is all that has to be.
In place of locks and a set of unfinished work `IInv` has:

- `OpenInv`: a queue's count is that of the lists its thread has or is about to
  have, so that none is held while the collector runs;
- `SignalInv`, `CallInv`: the signals still to come grow, lie above the fence,
  and are on record; a value drawn and not signalled is the last one;
- `CoverInv`, with `Covered(q, i, v)`: behind any work in the driver's queue
  comes a signal, in the queue or from the call that put the work there.
  `ZombieInv` and `AllocatorInv` say that the signal is one the snapshot, or the
  value a command buffer was pooled with, covers;
- `ScratchInv`: a list's own heaps are used by that list alone, so that
  `RestoreCommandBuffer` may condemn them with the snapshot of its submission.

A snapshot is taken before the signal is sent, and another queue's values may go
up meanwhile: the scratch of a list may come behind requests with a later
snapshot. `SnapshotInv` therefore asks for growth of all but scratch, which is
in no block.

### Handles and slots

The invariant of `GpuResourcePoolProofs` adds to its properties `Versioned` (an
index not handed out yet is untouched, one handed out has a version), `Filled`
(what a creator put in a slot is there until it hands the id out) and
`Distance`: the version of a slot is as far beyond a version given back as there
were returns since, modulo `LastVersion`. Nothing wraps onto a stale version
before `LastVersion` returns, which is `StaleForAWhile`. `MaxReturns` only bounds
TLC's runs: it is any number in the theorems.

About `D3DSlots` (in `RecordingProofs`): the collector may be the creating
thread or another. Each
slot is on the stack, above the sentinel, or one user's, and each user is being
made, live, condemned or being destroyed (`Placed`, `Hands`). The answer about
the stack's size is safe to act upon later (`Answers`): only the creator takes
from the stack, so where there was a slot there still is one; and where there was
none all slots were in use, so the heap is no larger than the peak when it
grows, though a slot may have come back since. Hence the one slot of difference
in `GrowsForThePeak`. The views in use are at most those of all users
(`Bounds`), so the heap has a largest size.

To `HandleTable` a slot is a handle of index, version, user and part, such as an
image's third subresource (`Handle`). Neither index alone nor the id of a heap
would do: a slot given out again while it is held would be the handle that is
held already, and pass for nothing at all. A user that is being destroyed returns its
slots from the front, so its parts are counted from the end of the sequence
then (`PartOf`). `SlotsAreATable` says beyond `SlotsInOrder` what a step may do:
one slot moves at a time, to a part at an index nobody holds, or back from the part that
holds it; it never changes hands or version in between.

### Descriptor tables

A heap is kept by the cache, whose ages count collections, and used by work,
which counts submissions. `InductiveInvariant` holds of any number of threads: the
default table shows what it should, and no table shows a UAV that is gone or one
that had the slot before. That the heaps in use stay needs two hypotheses:

- `OneThread`: of two threads that miss the cache with the same UAVs one finds
  its entry taken, and its heap is neither kept nor brought up to date
  (`Device.cpp:1432`);
- `LagIsShort`: `FramesInFlight <= MaxUnused + 1`. The code's limit is 60
  collections, an application has two or three frames in flight. With one more
  in flight than this TLC finds a heap released while work uses it, so the bound
  is exact.

`WorkPins` is the inductive part: a heap in submission `i` of `n` unfinished
ones is in the cache, for UAVs the submission uses, and its age is at most
`n - i + 1`, or less by one when a collection is due. Destroying a UAV does not drop it, because
the submission uses that UAV; a collection does not, as its age is then at most
`MaxUnused`. A list pins its heap with age 0, since none is collected while one
is open.

### Memory

`MemoryInv` is about hands: a handle is the application's, condemned, in the call
of one thread, or a buffer that belongs to an acceleration structure
(`InOneHand`), and a slot is in use just while its handle is in such hands
(`HeldSlots`, `HeldBlocks`). `SlotForm` and `CallForm` say how far each call has
come, `Natives` that a Vulkan object exists from when it has room, `Rooms` that
the room is taken by one such object. It holds of any number of threads.
`Account`, that `debugReferences` counts, does not: the counter is read and
written in two steps and without a lock. With one thread (`Alone`) `RefsCount`
equates it with the residents of a block other than those in the middle of a
call, `RefsFollow` with what a call has read, and `BlocksGoLast` puts the members
ahead of their block among the condemned, so that the assertion of
`DestroyMemoryBlock` finds zero.

`DescriptorInv` holds three pools of indices together: each index below the next
one is vacant once or held by one handle, live or condemned (`HeldOnce`,
`IndicesKept`); a Vulkan object exists just while it is held (`ObjectsKept`); the
descriptor at a held index is that object's (`Written`); and what a submission
reads is held (`ReadHeld`), since the collector waits. So an update for a new
handle never touches what work reads.

`PlacedInv` is about the virtual block that hands out room on DX12. A buffer asks
it for its size, but a placed resource takes whole multiples of the alignment.
Offsets are multiples too, so of two that are apart the first one's end, rounded
up, is at most the second's start; and with a block that is a whole number of
placements (`WholeHeaps`) the last one ends inside. A block of another size loses
this, as the list of what was seen says.

`UploadInv` follows each upload buffer: it is with one list, deferred with the
number of one submission, available, or deleted (`InOnePlace`). A list has one
buffer at most, filled from its start (`ListForm`, `FilledSoFar`), which needs
`OneBufferEach`: a list uploads no more than a buffer holds. Finding 2 is what
comes of more. A copy of unfinished work lies in a buffer that is deferred with
that work's own number (`GpuForm`), which the collector has not gone past. The
lemmas before it are about the filter by which the collector takes the finished
ones out of the deferred.

`Subranges` is arithmetic on integers of any width (`Wide`; 2^32 and 2^64 in the
code): what `Subtract` leaves and what was taken are the whole, and no two pieces
overlap, however many subtractions follow one another. The two are inductive
together with the types.

### Signals and swap chains

In `FenceInv` the event is the one waiting thread's as long as no wait timed out
and one went on at a time (`EventIsTheWaiters`): it is set, or a request for the
value is on its way. Without that proviso finding 5 is the counterexample. In
`QueueInv` an item is known of: the flag is up, or a consumer is taking
(`KnownOf`); and who sleeps under a raised flag has somebody awake, or a producer
about to notify (`SleepersAreTold`). That takes one lock that `Push` keeps while
it raises the flag (`PushHolds`).

`SemInv` reads the driver's queues: a signal comes right after the work it tells
of and is the only one of its semaphore (`SignalsFollow`, `SignalsAreOne`), a
wait right before the work that is to wait and for the last signal
(`WaitsPrecede`), and work still to come needs what has run or what it waits for
(`WorkWaits`). What a semaphore or fence holds follows from what is still to come
(`ReachedIsKnown`): on Vulkan 1 after a signal no wait has taken, on DX12 the
count less what has not been signalled. So a wait lets pass only its own signal.

`ChainInv` places each frame on the ring of acquire semaphores: the `k`-th frame
under way has the place that lies as far behind the one taken last as there are
frames after it (`RingHolds`). There are fewer frames than places, hence an
acquisition finds its semaphore free, once the oldest frame has run
(`AcquiredAreAwaited`); `RendersOnce`, `HasItsImage` and `PresentsWait` pair the
semaphores of the other ring, one for each image. With `Habits` other than none
this fails, as the contract of the callers says. In `SwapInv` the waitable
object, a frame in the renderer and a queued frame are one token (`OneToken`), so
the buffer presented last is the one before the current (`OneBehind`).
`SurfaceInv` explains why semaphores made once are enough for later resizes:
what a driver is asked for depends on the wish and the surface's limits, which
stay; only what it makes beyond that (`extra`) may go without
(`SemaphoresReach`). `Offers` is what Vulkan promises of a surface, FIFO among
its modes.

### Recording

`MCRecording` declares the constants of `D3DBindings`, `D3DInputs`, `D3DPasses`
and `VulkanRecording`, and `Recording.cfg` gives them values, so that
`RecordingProofs` is about any pipelines, UAVs, slots, images, layouts and queues
the assumptions of those modules allow: a pipeline reads slots there are
(`SlotsAssumption`), a list can at least compute (`FlagAssumption`, as every queue
type of `Device.cpp:1746` has it), images and buffers are made for layouts of
their kind (`UsableAssumption`: a depth-stencil format cannot be blitted into),
and there is an undefined layout (`LayoutAssumption`).

`BindingInv` ties the notes of a list to Direct3D's state. Where the notes of
both kinds of work agree on a table, its heap is the one that is set
(`HeapsFollowNotes`); in a list without blits the root parameters are those
noted, and the constants those of the pipeline (`RootFollowsNotes`). After a
blit, until a draw or dispatch sets the list's own root signature again, no raster
pipeline is set (`BlitsAreNoted`), so no draw can follow. `BoundUnlessBlitted`
leaves lists with blits out: for those `d3d_blit_table` has the counterexample.
`InputInv`: a slot the pipeline reads is bound as it should be or is
still invalidated, and the written queries lie in the range to be resolved.

`PassInv` says what state each subresource is in, the masked state of its layer's
layout, and that a pass remembers what it was begun with. The end of a pass goes
through its resolves one after the other; each finds two render targets and
leaves two (`ResolveRestores`), so the states after all of them are those before.
`Next` begins passes with two colour attachments at most, any of the images and
layers there are; the number of layers and targets is any.

`BarrierInv`: an image that never changed queues has one pending barrier, which
takes it where the application thinks it is, or none and is there
(`OneBarrierEach`). So the order in which a batch is carried out does not
matter, which is why the contract has a command between two barriers of an
image. Every pending barrier of a swap chain's image has put the swap chain among
the references, and a completed list has no barrier left. `MaxPending` only
bounds TLC's runs. Handovers are outside of this: finding 4 is about them.

### Only model-checked

Liveness (and `ENABLED`) is out of the prover's reach: `CondemnedGoes`,
`WaitsEnd`, `StartsEnd`. So is what a recursive definition computes for every
input; and `CopiesLand`, `ViewsShowWhatWasAsked`, `PipelinesAgree`,
`BuildsFitTheirRoom` and `ClearsAndSamplesAsAsked` compare two translations of
one description, table by table and shape by shape: there is one step and nothing
inductive in them, TLC enumerates the tables, and the shapes are for the bounds
to cover. `StartsAsAsked` filters and joins lists of extensions. `PartsTypeOK` is
the conjunction of types of all parts; the invariants above hold those types of
their parts that the proofs use. `BothQueuesAreWaitedFor` is
an instance, for two queues, of `DestroyIsSafe` and `BlocksGoLast` of both
backends.

## Not modelled

- Draws, dispatches and debug labels beyond the state they find; shader code,
  its reflection and compilation; the compiled shaders in `InternalShaders.hpp`.
- Query results: single calls of the driver. The pipeline stages at which a
  submission waits and signals: the driver's to heed.
- `AtomicVector` and `AtomicMap` by themselves: each method holds their lock, so
  they are sequences and maps with atomic calls.
- `ToString` and other text; loading of libraries; debug output.
- A second thread that records or creates on one DX12 device, beyond `D3DDevice`:
  `AcquireSlot`, `GetLinearBufferAllocation` and a miss of the table cache are
  check-then-act there, and the hazards say what would go wrong.
- In the device models creation: every resource exists from the start. Creations are in
  the modules about handles, memory and slots, destruction when idle being
  what the device models promise those.
- Lost updates of `debugReferences`, which is a plain counter and a data race
  between a creating thread and the collector: `CountsResidents` is checked with
  one thread.
- Reading several queues' counters for a snapshot is one step: the collector
  keeps submissions away in Vulkan; in DX12 lists of open submissions do, and an
  empty submission uses nothing.
- The Metal backend, of which there is only a build file.

## Plan

Done: everything in the table of modules. What could follow:

1. Models of two recording and two creating threads on DX12, where `AcquireSlot`,
   `GetLinearBufferAllocation` and a miss of the table cache check before they
   act. The hazards' notes say this, and whatever else no property watches, with
   the reason.
2. Proofs about start-up and about the arithmetic of copies.
