---------------------------- MODULE VulkanDevice ----------------------------
(***************************************************************************)
(* Submission, command list recycling and deferred destruction of the      *)
(* Vulkan backend (src/RHIVulkan/Api/{Device,CommandQueue,CommandBuffer}). *)
(*                                                                         *)
(* Application threads open, record and submit command lists and ask for   *)
(* resources to be destroyed; the GPU completes the submissions of a queue *)
(* in order; one thread at a time runs CollectGarbage, entry by entry,     *)
(* under the exclusive global queue lock.  The device destructor waits for *)
(* the GPU and collects three times.                                       *)
(***************************************************************************)
EXTENDS Integers, Sequences, FiniteSets, SequencesExt

CONSTANTS
  Queue,      \* the command queues of the device
  List,       \* command list handles the application can hold at one time
  Resource,   \* buffers, images, views, memory blocks, ...
  Members,    \* Members[r]: the resources suballocated from memory block r
  MaxSubmits  \* bound: submissions per queue

ASSUME QueueAssumption == Queue # {}
ASSUME MembersAssumption == Members \in [Resource -> SUBSET Resource]
ASSUME BoundAssumption == MaxSubmits \in Nat

VARIABLES
  cpuTimeline,        \* per queue: value given to its latest submission
  gpuTimeline,        \* per queue: value its timeline semaphore has reached
  pendingSubmits,     \* mQueuePendingSubmits
  inFlight,           \* submissions handed to the driver and not completed
  submit,             \* per queue: the SubmitQueue call holding its mutex
  list,               \* per list: the VulkanCommandBuffer behind the handle
  listZombies,        \* mMainQueueCommandListZombies
  freePools,          \* per queue: CommandBufferPool::poolAndBuffers
  poolsMade,          \* per queue: command pools created so far
  life,               \* per resource: where its destruction has got to
  snapshot,           \* per resource: CPU timelines when it became a zombie
  destroyDeferred,    \* mOnDestroyDeferredQueue
  resourceZombies,    \* mResourceZombies
  gcPhase,            \* where CollectGarbage is; "idle" when nobody runs it
  gcAt,               \* its loop index
  oldest,             \* its oldestQueueTimelines
  device,             \* "alive", then "collecting" and "destroyed" in the dtor
  collectsLeft        \* CollectGarbage calls the destructor has still to make

submitVars == <<cpuTimeline, pendingSubmits, submit>>
listVars   == <<list, listZombies, freePools, poolsMade>>
lifeVars   == <<life, snapshot, destroyDeferred, resourceZombies>>
gcVars     == <<gcPhase, gcAt, oldest>>
dtorVars   == <<device, collectsLeft>>
vars == <<submitVars, gpuTimeline, inFlight, listVars, lifeVars, gcVars, dtorVars>>

Timeline == 0 .. MaxSubmits
Never == MaxSubmits + 1   \* UINT64_MAX: above every value a timeline takes
NoPool == 0
Closed == [state |-> "closed", queue |-> CHOOSE q \in Queue : TRUE, pool |-> NoPool, uses |-> {}]
OneDtorCollect == 1
DtorCollects == 3
NoSnapshot == [q \in Queue |-> 0]
NoSubmit == [stage |-> "none", value |-> 0, lists |-> {}]

Pending == [queue : Queue, value : Timeline]
Submission == [queue : Queue, value : Timeline, pools : SUBSET Nat, uses : SUBSET Resource]
SubmitCall == [stage : {"none", "tracked", "handed"}, value : Timeline, lists : SUBSET List]
CommandBuffer == [state : {"closed", "counted", "open", "submitted"},
                  queue : Queue, pool : Nat, uses : SUBSET Resource]
ListZombie == [queue : Queue, value : Timeline, pool : Nat]

TypeOK ==
  /\ cpuTimeline \in [Queue -> Timeline]
  /\ gpuTimeline \in [Queue -> Timeline]
  /\ pendingSubmits \in Seq(Pending)
  /\ inFlight \subseteq Submission
  /\ submit \in [Queue -> SubmitCall]
  /\ list \in [List -> CommandBuffer]
  /\ listZombies \in Seq(ListZombie)
  /\ freePools \in [Queue -> Seq(Nat)]
  /\ poolsMade \in [Queue -> Nat]
  /\ life \in [Resource -> {"live", "deferred", "zombie", "destroyed"}]
  /\ snapshot \in [Resource -> [Queue -> Timeline]]
  /\ destroyDeferred \in Seq(Resource)
  /\ resourceZombies \in Seq(Resource)
  /\ gcPhase \in {"idle", "lists", "submits", "zombies", "drain"}
  /\ gcAt \in Nat \ {0}
  /\ oldest \in [Queue -> 0 .. Never]
  /\ device \in {"alive", "collecting", "destroyed"}
  /\ collectsLeft \in 0 .. DtorCollects

Init ==
  /\ cpuTimeline = [q \in Queue |-> 0]
  /\ gpuTimeline = [q \in Queue |-> 0]
  /\ pendingSubmits = <<>>
  /\ inFlight = {}
  /\ submit = [q \in Queue |-> NoSubmit]
  /\ list = [c \in List |-> Closed]
  /\ listZombies = <<>>
  /\ freePools = [q \in Queue |-> <<>>]
  /\ poolsMade = [q \in Queue |-> 0]
  /\ life = [r \in Resource |-> "live"]
  /\ snapshot = [r \in Resource |-> NoSnapshot]
  /\ destroyDeferred = <<>>
  /\ resourceZombies = <<>>
  /\ gcPhase = "idle"
  /\ gcAt = 1
  /\ oldest = [q \in Queue |-> Never]
  /\ device = "alive"
  /\ collectsLeft = DtorCollects

-----------------------------------------------------------------------------
(* mGlobalQueueMutex: SubmitQueue and GetCommandBuffer share it,           *)
(* CollectGarbage holds it alone.                                          *)

NoSharedLock == TRUE
SharedAccess == gcPhase = "idle"
ExclusiveAccess == gcPhase = "idle" /\ \A q \in Queue : submit[q].stage = "none"

(* mOpenCommandBuffers of queue q, as the set of lists it counts. *)
OpenCommands(q) == {c \in List : list[c].state # "closed" /\ list[c].queue = q}
OpenListsIgnored == FALSE
AreCommandListsOpen == \E q \in Queue : OpenCommands(q) # {}

(* Lists of q that will still need a timeline value of their own. *)
Unsubmitted(q) == {c \in OpenCommands(q) : list[c].state # "submitted"}

(* The application's side of the contract: it may go on using a resource   *)
(* it asked to destroy, until CollectGarbage has taken note of the request.*)
Usable(r) == life[r] \in {"live", "deferred"}

InUse(r) ==
  \/ \E c \in List : r \in list[c].uses
  \/ \E w \in inFlight : r \in w.uses

-----------------------------------------------------------------------------
(* Command lists.                                                          *)

(* GetCommandBuffer, first half: under the shared lock the list is counted *)
(* open.  MaxSubmits leaves every open list a submission to end in.        *)
CountOpen(c, q) ==
  /\ device = "alive"
  /\ SharedAccess
  /\ list[c].state = "closed"
  /\ cpuTimeline[q] + Cardinality(Unsubmitted(q)) < MaxSubmits
  /\ list' = [list EXCEPT ![c] = [Closed EXCEPT !.state = "counted", !.queue = q]]
  /\ UNCHANGED <<submitVars, gpuTimeline, inFlight, listZombies, freePools,
                 poolsMade, lifeVars, gcVars, dtorVars>>

(* Second half, the lock released: the pool last put back, or a new one. *)
TakePool(c) ==
  LET q == list[c].queue
      open(p) == list' = [list EXCEPT ![c] = [@ EXCEPT !.state = "open", !.pool = p]]
  IN
  /\ list[c].state = "counted"
  /\ \/ /\ freePools[q] = <<>>
        /\ poolsMade' = [poolsMade EXCEPT ![q] = @ + 1]
        /\ open(poolsMade[q] + 1)
        /\ UNCHANGED freePools
     \/ /\ freePools[q] # <<>>
        /\ freePools' = [freePools EXCEPT ![q] = Front(@)]
        /\ open(Last(freePools[q]))
        /\ UNCHANGED poolsMade
  /\ UNCHANGED <<submitVars, gpuTimeline, inFlight, listZombies, lifeVars,
                 gcVars, dtorVars>>

(* Any recording call of the list that names resource r; memory blocks are *)
(* only used through their members.                                        *)
Record(c, r) ==
  /\ list[c].state = "open"
  /\ Members[r] = {}
  /\ Usable(r)
  /\ list' = [list EXCEPT ![c].uses = @ \cup {r}]
  /\ UNCHANGED <<submitVars, gpuTimeline, inFlight, listZombies, freePools,
                 poolsMade, lifeVars, gcVars, dtorVars>>

-----------------------------------------------------------------------------
(* SubmitQueue, holding the shared lock and the mutex of queue q.          *)

(* The submission is numbered and pushed to the pending submits. *)
SubmitTrack(q, cs) ==
  LET value == cpuTimeline[q] + 1 IN
  /\ device = "alive"
  /\ SharedAccess
  /\ submit[q].stage = "none"
  /\ \A c \in cs : list[c].state = "open" /\ list[c].queue = q
  /\ value + Cardinality(Unsubmitted(q) \ cs) <= MaxSubmits
  /\ value \in Timeline
  /\ cpuTimeline' = [cpuTimeline EXCEPT ![q] = value]
  /\ pendingSubmits' = Append(pendingSubmits, [queue |-> q, value |-> value])
  /\ submit' = [submit EXCEPT ![q] = [stage |-> "tracked", value |-> value, lists |-> cs]]
  /\ list' = [c \in List |-> IF c \in cs THEN [list[c] EXCEPT !.state = "submitted"] ELSE list[c]]
  /\ UNCHANGED <<gpuTimeline, inFlight, listZombies, freePools, poolsMade,
                 lifeVars, gcVars, dtorVars>>

(* Has the timeline of its queue reached a submission or a list zombie?    *)
CompletedStrictly(e) == gpuTimeline[e.queue] > e.value
CompletedOneEarly(e) == gpuTimeline[e.queue] + 1 >= e.value
Completed(e) == gpuTimeline[e.queue] >= e.value

(* What vkQueueSubmit2 is given: the lists, and the value to signal. *)
WorkSignalsNext(q) ==
  [queue |-> q,
   value |-> submit[q].value + 1,
   pools |-> {list[c].pool : c \in submit[q].lists},
   uses  |-> UNION {list[c].uses : c \in submit[q].lists}]
WorkOf(q) ==
  [queue |-> q,
   value |-> submit[q].value,
   pools |-> {list[c].pool : c \in submit[q].lists},
   uses  |-> UNION {list[c].uses : c \in submit[q].lists}]

(* vkQueueSubmit2.  With no list to retire, the locks are released too. *)
SubmitHand(q) ==
  /\ submit[q].stage = "tracked"
  /\ inFlight' = inFlight \cup {WorkOf(q)}
  /\ submit' = [submit EXCEPT ![q] = IF @.lists = {} THEN NoSubmit ELSE [@ EXCEPT !.stage = "handed"]]
  /\ UNCHANGED <<cpuTimeline, pendingSubmits, gpuTimeline, listVars,
                 lifeVars, gcVars, dtorVars>>

(* The closing loop without the EmplaceBack of the list's pool. *)
RetireDropsPool(q, c) ==
  LET rest == submit[q].lists \ {c} IN
  /\ submit[q].stage = "handed"
  /\ c \in submit[q].lists
  /\ list' = [list EXCEPT ![c] = Closed]
  /\ submit' = [submit EXCEPT ![q] = IF rest = {} THEN NoSubmit ELSE [@ EXCEPT !.lists = rest]]
  /\ UNCHANGED <<cpuTimeline, pendingSubmits, gpuTimeline, inFlight, listZombies,
                 freePools, poolsMade, lifeVars, gcVars, dtorVars>>

(* The closing loop, one list at a time: its pool becomes a zombie and the *)
(* list is not open any more.  After the last one the locks are released.  *)
SubmitRetire(q, c) ==
  LET rest == submit[q].lists \ {c} IN
  /\ submit[q].stage = "handed"
  /\ c \in submit[q].lists
  /\ listZombies' = Append(listZombies,
       [queue |-> q, value |-> submit[q].value, pool |-> list[c].pool])
  /\ list' = [list EXCEPT ![c] = Closed]
  /\ submit' = [submit EXCEPT ![q] = IF rest = {} THEN NoSubmit ELSE [@ EXCEPT !.lists = rest]]
  /\ UNCHANGED <<cpuTimeline, pendingSubmits, gpuTimeline, inFlight,
                 freePools, poolsMade, lifeVars, gcVars, dtorVars>>

(* The GPU finishes the oldest submission of q, signals its timeline value.*)
GpuComplete(q) ==
  \E w \in inFlight :
    /\ w.queue = q
    /\ \A v \in inFlight : v.queue = q => w.value <= v.value
    /\ inFlight' = inFlight \ {w}
    /\ gpuTimeline' = [gpuTimeline EXCEPT ![q] = w.value]
    /\ UNCHANGED <<submitVars, listVars, lifeVars, gcVars, dtorVars>>

-----------------------------------------------------------------------------
(* Destruction requests.                                                   *)

(* The application's side: a block is given up only after all its members. *)
MayGiveUp(r) ==
  /\ device = "alive"
  /\ life[r] = "live"
  /\ \A m \in Members[r] : life[m] # "live"

(* Destroy*(r, bDefer = true): a lambda is pushed, under no queue lock.    *)
TryEnqueueDestroyDeferred(r) ==
  /\ MayGiveUp(r)
  /\ life' = [life EXCEPT ![r] = "deferred"]
  /\ destroyDeferred' = Append(destroyDeferred, r)
  /\ UNCHANGED <<submitVars, gpuTimeline, inFlight, listVars, snapshot,
                 resourceZombies, gcVars, dtorVars>>

(* Destroy*(r, bDefer = false): at once; the application knows r idle.     *)
DestroyImmediately(r) ==
  /\ MayGiveUp(r)
  /\ ~InUse(r)
  /\ \A m \in Members[r] : life[m] = "destroyed"
  /\ life' = [life EXCEPT ![r] = "destroyed"]
  /\ UNCHANGED <<submitVars, gpuTimeline, inFlight, listVars, snapshot,
                 destroyDeferred, resourceZombies, gcVars, dtorVars>>

-----------------------------------------------------------------------------
(* CollectGarbage.                                                         *)

(* The exclusive lock is taken and no list is open.  (With one open the    *)
(* call returns false and changes nothing: a stutter.)                     *)
GcBegin ==
  /\ ExclusiveAccess
  /\ ~AreCommandListsOpen
  /\ \/ /\ device = "alive"
        /\ UNCHANGED dtorVars
     \/ /\ device = "collecting" /\ collectsLeft > 0
        /\ collectsLeft' = collectsLeft - 1
        /\ UNCHANGED device
  /\ gcPhase' = "lists"
  /\ gcAt' = 1
  /\ UNCHANGED <<submitVars, gpuTimeline, inFlight, listVars, lifeVars, oldest>>

(* One turn of the first loop: a list zombie whose submission is complete  *)
(* has its pool reset and put back.                                        *)
GcList ==
  LET z == listZombies[gcAt] IN
  /\ gcPhase = "lists" /\ gcAt <= Len(listZombies)
  /\ \/ /\ Completed(z)
        /\ freePools' = [freePools EXCEPT ![z.queue] = Append(@, z.pool)]
        /\ listZombies' = RemoveAt(listZombies, gcAt)
        /\ UNCHANGED gcAt
     \/ /\ ~Completed(z)
        /\ gcAt' = gcAt + 1
        /\ UNCHANGED <<freePools, listZombies>>
  /\ UNCHANGED <<submitVars, gpuTimeline, inFlight, list, poolsMade, lifeVars,
                 gcPhase, oldest, dtorVars>>

GcListsDone ==
  /\ gcPhase = "lists" /\ gcAt > Len(listZombies)
  /\ gcPhase' = "submits"
  /\ gcAt' = 1
  /\ oldest' = [q \in Queue |-> Never]
  /\ UNCHANGED <<submitVars, gpuTimeline, inFlight, listVars, lifeVars, dtorVars>>

(* One turn of the second loop: a completed submission is forgotten, for   *)
(* another the value its queue has reached bounds the queue's progress.    *)
GcSubmit ==
  LET s == pendingSubmits[gcAt]
      completed == gpuTimeline[s.queue]
  IN
  /\ gcPhase = "submits" /\ gcAt <= Len(pendingSubmits)
  /\ \/ /\ Completed(s)
        /\ pendingSubmits' = RemoveAt(pendingSubmits, gcAt)
        /\ UNCHANGED <<gcAt, oldest>>
     \/ /\ ~Completed(s)
        /\ oldest' = [oldest EXCEPT ![s.queue] = IF @ <= completed THEN @ ELSE completed]
        /\ gcAt' = gcAt + 1
        /\ UNCHANGED pendingSubmits
  /\ UNCHANGED <<cpuTimeline, submit, gpuTimeline, inFlight, listVars,
                 lifeVars, gcPhase, dtorVars>>

GcSubmitsDone ==
  /\ gcPhase = "submits" /\ gcAt > Len(pendingSubmits)
  /\ gcPhase' = "zombies"
  /\ gcAt' = 1
  /\ UNCHANGED <<submitVars, gpuTimeline, inFlight, listVars, lifeVars, oldest, dtorVars>>

(* bReady: every queue with pending work has gone past the snapshot. *)
ReadyOnOneQueue(r) == \E q \in Queue : oldest[q] > snapshot[r][q]
Ready(r) == \A q \in Queue : oldest[q] > snapshot[r][q]

(* One turn of the third loop: a ready zombie is destroyed. *)
GcZombie ==
  LET r == resourceZombies[gcAt] IN
  /\ gcPhase = "zombies" /\ gcAt <= Len(resourceZombies)
  /\ \/ /\ Ready(r)
        /\ life' = [life EXCEPT ![r] = "destroyed"]
        /\ resourceZombies' = RemoveAt(resourceZombies, gcAt)
        /\ snapshot' = [snapshot EXCEPT ![r] = NoSnapshot]
        /\ UNCHANGED gcAt
     \/ /\ ~Ready(r)
        /\ gcAt' = gcAt + 1
        /\ UNCHANGED <<life, snapshot, resourceZombies>>
  /\ UNCHANGED <<submitVars, gpuTimeline, inFlight, listVars,
                 destroyDeferred, gcPhase, oldest, dtorVars>>

GcZombiesDone ==
  /\ gcPhase = "zombies" /\ gcAt > Len(resourceZombies)
  /\ gcPhase' = "drain"
  /\ UNCHANGED <<submitVars, gpuTimeline, inFlight, listVars, lifeVars, gcAt, oldest, dtorVars>>

(* The last loop, with the newest zombie put first. *)
GcDrainToFront ==
  LET r == Head(destroyDeferred) IN
  /\ gcPhase = "drain" /\ destroyDeferred # <<>>
  /\ destroyDeferred' = Tail(destroyDeferred)
  /\ resourceZombies' = <<r>> \o resourceZombies
  /\ snapshot' = [snapshot EXCEPT ![r] = cpuTimeline]
  /\ life' = [life EXCEPT ![r] = "zombie"]
  /\ UNCHANGED <<submitVars, gpuTimeline, inFlight, listVars, gcVars, dtorVars>>

(* The last loop runs the deferred lambdas: SnapshotQueueTimelineValues.   *)
GcDrain ==
  LET r == Head(destroyDeferred) IN
  /\ gcPhase = "drain" /\ destroyDeferred # <<>>
  /\ destroyDeferred' = Tail(destroyDeferred)
  /\ resourceZombies' = Append(resourceZombies, r)
  /\ snapshot' = [snapshot EXCEPT ![r] = cpuTimeline]
  /\ life' = [life EXCEPT ![r] = "zombie"]
  /\ UNCHANGED <<submitVars, gpuTimeline, inFlight, listVars, gcVars, dtorVars>>

(* TryPop finds the queue empty: return true, the lock is released. *)
GcEnd ==
  /\ gcPhase = "drain" /\ destroyDeferred = <<>>
  /\ gcPhase' = "idle"
  /\ gcAt' = 1
  /\ oldest' = [q \in Queue |-> Never]
  /\ UNCHANGED <<submitVars, gpuTimeline, inFlight, listVars, lifeVars, dtorVars>>

-----------------------------------------------------------------------------
(* ~VulkanDevice.  The application has submitted every list it opened and  *)
(* makes no other call.                                                    *)

DtorWaitIdle ==
  /\ device = "alive"
  /\ ExclusiveAccess
  /\ ~AreCommandListsOpen
  /\ inFlight = {}
  /\ device' = "collecting"
  /\ UNCHANGED <<submitVars, gpuTimeline, inFlight, listVars, lifeVars, gcVars, collectsLeft>>

DtorEnd ==
  /\ device = "collecting"
  /\ collectsLeft = 0 /\ gcPhase = "idle"
  /\ device' = "destroyed"
  /\ UNCHANGED <<submitVars, gpuTimeline, inFlight, listVars, lifeVars, gcVars, collectsLeft>>

Terminated == device = "destroyed" /\ UNCHANGED vars

GcStep ==
  \/ GcList \/ GcListsDone
  \/ GcSubmit \/ GcSubmitsDone
  \/ GcZombie \/ GcZombiesDone
  \/ GcDrain \/ GcEnd

Next ==
  \/ \E c \in List, q \in Queue : CountOpen(c, q)
  \/ \E c \in List : TakePool(c)
  \/ \E c \in List, r \in Resource : Record(c, r)
  \/ \E q \in Queue, cs \in SUBSET List : SubmitTrack(q, cs)
  \/ \E q \in Queue : SubmitHand(q)
  \/ \E q \in Queue, c \in List : SubmitRetire(q, c)
  \/ \E q \in Queue : GpuComplete(q)
  \/ \E r \in Resource : TryEnqueueDestroyDeferred(r) \/ DestroyImmediately(r)
  \/ GcBegin \/ GcStep
  \/ DtorWaitIdle \/ DtorEnd \/ Terminated

Spec == Init /\ [][Next]_vars

(* Every started call goes on, the GPU finishes what it is given, the      *)
(* application submits the lists it opened, and it calls CollectGarbage    *)
(* again and again, at moments, too, when no list is open.                 *)
Fairness ==
  /\ \A c \in List :
       /\ WF_vars(TakePool(c))
       /\ WF_vars(\E q \in Queue, cs \in SUBSET List : c \in cs /\ SubmitTrack(q, cs))
  /\ \A q \in Queue :
       /\ WF_vars(SubmitHand(q))
       /\ WF_vars(\E c \in List : SubmitRetire(q, c))
       /\ WF_vars(GpuComplete(q))
  /\ SF_vars(GcBegin)
  /\ WF_vars(GcStep)

FairSpec == Spec /\ Fairness

-----------------------------------------------------------------------------
(* Safety.                                                                 *)

(* A destroyed resource is in no recorded list and in no submission the    *)
(* GPU has not completed: CollectGarbage's timeline comparison, its denial *)
(* while lists are open and its exclusive lock work together.              *)
NoDestroyInFlight == \A r \in Resource : life[r] = "destroyed" => ~InUse(r)

(* ASSERT(blockSlot.debugReferences == 0): whatever the GPU's progress, a  *)
(* memory block goes after every resource placed in it.                    *)
MembersBeforeBlock ==
  \A r \in Resource : life[r] = "destroyed" => \A m \in Members[r] : life[m] = "destroyed"

(* A command pool the GPU still reads from is not reset, waits in no free  *)
(* list, and is not the pool of a list being recorded.                     *)
NoPoolReuseInFlight ==
  \A w \in inFlight : \A p \in w.pools :
    /\ p \notin ToSet(freePools[w.queue])
    /\ \A c \in List : list[c].state = "open" /\ list[c].queue = w.queue => list[c].pool # p

(* No command pool is lost or doubled: each one made is free, or with a    *)
(* list, or with a list zombie.                                            *)
PoolsConserved ==
  \A q \in Queue :
    poolsMade[q] = Len(freePools[q])
                   + Cardinality({c \in OpenCommands(q) : list[c].pool # NoPool})
                   + Cardinality({i \in DOMAIN listZombies : listZombies[i].queue = q})

(* Command pools go round: none is lost, and none is used again too early. *)
PoolsGoRound == NoPoolReuseInFlight /\ PoolsConserved

(* ASSERT(mResourceZombies.Empty()) of the destructor, and the rest of     *)
(* what it leaves: three collections after WaitIdle clean up everything.   *)
DtorLeavesNothing ==
  device = "destroyed" =>
    /\ resourceZombies = <<>> /\ destroyDeferred = <<>>
    /\ listZombies = <<>> /\ pendingSubmits = <<>>

-----------------------------------------------------------------------------
(* The promise of IDevice, kept by this backend.                           *)

Lifetime == INSTANCE ResourceLifetime WITH
  status <- [r \in Resource |-> IF life[r] \in {"deferred", "zombie"} THEN "condemned" ELSE life[r]],
  busy <- {r \in Resource : InUse(r)}

(* Every step of the backend is a step of ResourceLifetime, or a stutter.  *)
LifetimeSpec == Lifetime!Spec

(* A deferred destruction request is carried out in the end. *)
CondemnedIsDestroyed == Lifetime!CondemnedIsDestroyed

(* The pool of a submitted list can be used again in the end. *)
PoolsComeBack ==
  \A q \in Queue, p \in 1 .. MaxSubmits :
    (\E i \in DOMAIN listZombies : listZombies[i].queue = q /\ listZombies[i].pool = p)
      ~> p \in ToSet(freePools[q])

-----------------------------------------------------------------------------
(* The inductive invariant, in named parts.  TLC checks it in the small    *)
(* instances; VulkanDeviceProofs shows it inductive.                       *)

(* The two locks: while the collector runs nothing is being submitted and  *)
(* no list is open; the lists of a SubmitQueue call are its own.           *)
LockInv ==
  /\ gcPhase # "idle" =>
       /\ \A q \in Queue : submit[q].stage = "none"
       /\ \A c \in List : list[c].state = "closed"
  /\ \A c \in List : list[c].state = "closed" => list[c].uses = {}
  /\ \A q \in Queue : \A c \in submit[q].lists :
       list[c].state = "submitted" /\ list[c].queue = q

(* The timelines: the GPU is behind its unfinished submissions, these are  *)
(* numbered apart and never above the CPU's count, the one being made is   *)
(* the latest, and each is on record as pending.                           *)
Tracked(q, value) ==
  \E i \in 1 .. Len(pendingSubmits) : pendingSubmits[i] = [queue |-> q, value |-> value]

TimelineInv ==
  /\ \A q \in Queue : gpuTimeline[q] <= cpuTimeline[q]
  /\ \A w \in inFlight :
       /\ gpuTimeline[w.queue] < w.value
       /\ w.value <= cpuTimeline[w.queue]
       /\ Tracked(w.queue, w.value)
  /\ \A v, w \in inFlight : v.queue = w.queue /\ v.value = w.value => v = w
  /\ \A q \in Queue : submit[q].stage = "tracked" =>
       /\ submit[q].value = cpuTimeline[q]
       /\ gpuTimeline[q] < submit[q].value
       /\ Tracked(q, submit[q].value)
       /\ \A w \in inFlight : w.queue = q => w.value < submit[q].value

(* The two vectors of condemned resources hold each of them once.          *)
CondemnedInv ==
  /\ \A i \in 1 .. Len(destroyDeferred) : life[destroyDeferred[i]] = "deferred"
  /\ \A i \in 1 .. Len(resourceZombies) : life[resourceZombies[i]] = "zombie"
  /\ \A i, j \in 1 .. Len(destroyDeferred) : destroyDeferred[i] = destroyDeferred[j] => i = j
  /\ \A i, j \in 1 .. Len(resourceZombies) : resourceZombies[i] = resourceZombies[j] => i = j

(* A zombie is used only by submissions its snapshot covers. *)
ZombieInv ==
  \A r \in Resource : life[r] = "zombie" =>
    /\ \A c \in List : r \notin list[c].uses
    /\ \A w \in inFlight : r \in w.uses => w.value <= snapshot[r][w.queue]

(* What the collector has found of the first n pending submits: queues it  *)
(* met with work left have reached at least "oldest", others it never met. *)
Scanned(n) ==
  \A q \in Queue :
    \/ oldest[q] = Never /\ \A i \in 1 .. n : pendingSubmits[i].queue # q
    \/ oldest[q] <= gpuTimeline[q]

ScanInv ==
  /\ gcPhase = "submits" => gcAt - 1 <= Len(pendingSubmits) /\ Scanned(gcAt - 1)
  /\ gcPhase = "zombies" => Scanned(Len(pendingSubmits))

IInv ==
  /\ TypeOK
  /\ LockInv
  /\ TimelineInv
  /\ CondemnedInv
  /\ ZombieInv
  /\ ScanInv
  /\ NoDestroyInFlight

-----------------------------------------------------------------------------
(* The order of destruction.                                               *)

(* Snapshots grow along mResourceZombies, none is ahead of the CPU's       *)
(* timelines, and what the collector has gone past is not ready.           *)
SnapshotInv ==
  /\ \A i \in 1 .. Len(resourceZombies) : \A q \in Queue :
       snapshot[resourceZombies[i]][q] <= cpuTimeline[q]
  /\ \A i, j \in 1 .. Len(resourceZombies) : i <= j =>
       \A q \in Queue : snapshot[resourceZombies[i]][q] <= snapshot[resourceZombies[j]][q]
  /\ gcPhase = "zombies" =>
       \A i \in 1 .. Len(resourceZombies) : i < gcAt => ~Ready(resourceZombies[i])

(* A member of a block is ahead of the block on the way to destruction.    *)
Ahead(s, m, r) ==
  \A j \in 1 .. Len(s) : s[j] = r => \E i \in 1 .. Len(s) : i < j /\ s[i] = m

BlockInv ==
  /\ \A r \in Resource : life[r] = "deferred" => \E i \in 1 .. Len(destroyDeferred) : destroyDeferred[i] = r
  /\ \A r \in Resource : life[r] = "zombie" => \E i \in 1 .. Len(resourceZombies) : resourceZombies[i] = r
  /\ \A r \in Resource : \A m \in Members[r] :
       /\ life[r] # "live" => life[m] # "live"
       /\ life[r] \in {"zombie", "destroyed"} => life[m] \in {"zombie", "destroyed"}
       /\ life[m] = "deferred" => Ahead(destroyDeferred, m, r)
       /\ life[m] = "zombie" => Ahead(resourceZombies, m, r)

OrderInv ==
  /\ IInv
  /\ SnapshotInv
  /\ BlockInv
  /\ MembersBeforeBlock

-----------------------------------------------------------------------------
(* Command pools.                                                          *)

(* A pool of a queue is in one place: free, a list's or a list zombie's.   *)
PoolsApart ==
  /\ \A q \in Queue : \A i, j \in 1 .. Len(freePools[q]) : freePools[q][i] = freePools[q][j] => i = j
  /\ \A i, j \in 1 .. Len(listZombies) :
       listZombies[i].queue = listZombies[j].queue /\ listZombies[i].pool = listZombies[j].pool => i = j
  /\ \A c, d \in List :
       list[c].queue = list[d].queue /\ list[c].pool = list[d].pool /\ list[c].pool # NoPool => c = d
  /\ \A q \in Queue : \A i \in 1 .. Len(freePools[q]) :
       /\ freePools[q][i] \in 1 .. poolsMade[q]
       /\ \A c \in List : list[c].queue = q => list[c].pool # freePools[q][i]
       /\ \A j \in 1 .. Len(listZombies) : listZombies[j].queue = q => listZombies[j].pool # freePools[q][i]
  /\ \A i \in 1 .. Len(listZombies) :
       /\ listZombies[i].pool \in 1 .. poolsMade[listZombies[i].queue]
       /\ \A c \in List : list[c].queue = listZombies[i].queue => list[c].pool # listZombies[i].pool
  /\ \A c \in List :
       /\ list[c].pool \in 0 .. poolsMade[list[c].queue]
       /\ list[c].pool = NoPool <=> list[c].state \in {"closed", "counted"}

(* The pools of a submission the GPU has not completed are with its list   *)
(* zombies, or with the lists that are about to become these.              *)
PoolsInFlight ==
  \A w \in inFlight : \A p \in w.pools :
    \/ \E i \in 1 .. Len(listZombies) : listZombies[i] = [queue |-> w.queue, value |-> w.value, pool |-> p]
    \/ /\ submit[w.queue].stage = "handed" /\ submit[w.queue].value = w.value
       /\ \E c \in submit[w.queue].lists : list[c].pool = p

PoolInv ==
  /\ PoolsApart
  /\ PoolsInFlight
  /\ \A q \in Queue : IsFiniteSet(OpenCommands(q))
  /\ PoolsConserved

-----------------------------------------------------------------------------
(* The destructor.                                                         *)

(* Nothing is numbered above the CPU's timeline, and the GPU is where the  *)
(* CPU is when it has nothing left to do.                                  *)
CountInv ==
  /\ \A i \in 1 .. Len(pendingSubmits) : pendingSubmits[i].value <= cpuTimeline[pendingSubmits[i].queue]
  /\ \A i \in 1 .. Len(listZombies) : listZombies[i].value <= cpuTimeline[listZombies[i].queue]
  /\ \A q \in Queue : submit[q].value <= cpuTimeline[q]
  /\ \A q \in Queue :
       \/ gpuTimeline[q] = cpuTimeline[q]
       \/ submit[q].stage = "tracked"
       \/ \E w \in inFlight : w.queue = q /\ w.value = cpuTimeline[q]

(* The collections the destructor has made, the one that runs left out.    *)
Collected == DtorCollects - collectsLeft - IF gcPhase = "idle" THEN 0 ELSE 1

(* What each of them leaves: the first one nothing to be recycled and no   *)
(* request, the second no zombie; and none passes by anything.             *)
ShutInv ==
  /\ device = "alive" => collectsLeft = DtorCollects
  /\ device = "destroyed" => collectsLeft = 0 /\ gcPhase = "idle"
  /\ device # "alive" =>
       /\ inFlight = {}
       /\ \A q \in Queue : submit[q].stage = "none"
       /\ \A c \in List : list[c].state = "closed"
       /\ gcPhase # "idle" => collectsLeft < DtorCollects
       /\ gcPhase \in {"lists", "submits", "zombies"} => gcAt = 1
       /\ gcPhase \in {"submits", "zombies"} => \A q \in Queue : oldest[q] = Never
       /\ Collected >= 1 \/ gcPhase \in {"submits", "zombies", "drain"} => listZombies = <<>>
       /\ Collected >= 1 \/ gcPhase \in {"zombies", "drain"} => pendingSubmits = <<>>
       /\ Collected >= 1 => destroyDeferred = <<>>
       /\ Collected >= 2 \/ (Collected >= 1 /\ gcPhase = "drain") => resourceZombies = <<>>

(* All of it together, which is inductive.                                 *)
DeviceInv == OrderInv /\ PoolInv /\ CountInv /\ ShutInv
=============================================================================
