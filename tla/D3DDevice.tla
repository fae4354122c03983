------------------------------ MODULE D3DDevice ------------------------------
(***************************************************************************)
(* Submission, command buffer recycling and deferred destruction of the    *)
(* DX12 backend (src/RHIDX12/Api/{Device,CommandQueue,CommandBuffer}).     *)
(*                                                                         *)
(* Unlike the Vulkan backend, SubmitQueue holds no lock: it draws a fence  *)
(* value, executes and signals in separate steps, and what keeps the       *)
(* collector away is that its command lists count as open until the end.   *)
(* The D3D12 queue takes work and signals in the order of the calls made.  *)
(***************************************************************************)
EXTENDS Integers, Sequences, FiniteSets, SequencesExt

CONSTANTS
  Queue,       \* the command queues of the device
  Thread,      \* application threads that record and submit
  QueueOf,     \* QueueOf[t]: the queue thread t submits to
  Resource,    \* buffers, images, memory blocks, ... and scratch objects
  Scratch,     \* the resources command lists make for themselves
  Members,     \* Members[r]: the resources placed in memory block r
  MaxSubmits,  \* bound: submissions per queue
  MaxHeld      \* bound: command lists a thread holds at one time

ASSUME QueueOfAssumption == QueueOf \in [Thread -> Queue]
ASSUME MembersAssumption ==
  /\ Members \in [Resource -> SUBSET Resource]
  /\ Scratch \subseteq Resource /\ \A r \in Scratch : Members[r] = {}   \* scratch is no memory block
ASSUME BoundAssumption == MaxSubmits \in Nat /\ MaxHeld \in Nat

VARIABLES
  cpuValue,        \* mCurrentQueueFenceValue of each queue
  fence,           \* completed value of each mQueueTracker
  driver,          \* per queue: the work and signals it has still to do
  pendingSubmits,  \* mQueuePendingSubmits
  openLists,       \* mOpenCommandLists of each queue
  call,            \* per thread: where its GetCommandBuffer or SubmitQueue is
  held,            \* per thread: the command buffers it has open
  content,         \* per command buffer: what is recorded, and its own scratch
  pooled,          \* mPooledCommandBuffers of each queue
  life,            \* per resource: where its destruction has got to
  onDestroy,       \* mOnDestroyDeferredQueue
  deferredDeletes, \* mDeferredDeletes
  gc,              \* CollectGarbage: phase, loop index, drains left
  oldest,          \* its oldestQueueTimelines
  device           \* [state, collects] of the destructor

submitVars == <<cpuValue, fence, driver, pendingSubmits>>
listVars == <<openLists, call, held, content, pooled>>
lifeVars == <<life, onDestroy, deferredDeletes>>
gcVars == <<gc, oldest>>
vars == <<submitVars, listVars, lifeVars, gcVars, device>>

Value == 0 .. MaxSubmits
Never == MaxSubmits + 1   \* UINT64_MAX: above every fence value
Idle == [stage |-> "idle", value |-> 0, snapshot |-> [q \in Queue |-> 0]]
GcIdle == [phase |-> "idle", at |-> 1, left |-> 0]
Blank == [uses |-> {}, scratch |-> {}]
OneDtorCollect == 1
DtorCollects == 10

Signal(value) == [kind |-> "signal", value |-> value, cmds |-> {}, uses |-> {}]
Work(cmds, uses) == [kind |-> "work", value |-> 0, cmds |-> cmds, uses |-> uses]

TypeOK ==
  /\ cpuValue \in [Queue -> Value]
  /\ fence \in [Queue -> Value]
  /\ driver \in [Queue -> Seq([kind : {"work", "signal"}, value : Value,
                               cmds : SUBSET Nat, uses : SUBSET Resource])]
  /\ pendingSubmits \in Seq([queue : Queue, value : Value])
  /\ openLists \in [Queue -> Nat]
  /\ call \in [Thread -> [stage : {"idle", "counted", "numbered", "tracked", "executed", "snapped", "signalled"},
                          value : Value, snapshot : [Queue -> Value]]]
  /\ held \in [Thread -> SUBSET (1 .. Len(content))]
  /\ content \in Seq([uses : SUBSET Resource, scratch : SUBSET Scratch])
  /\ pooled \in [Queue -> Seq([cmd : 1 .. Len(content), value : Value])]
  /\ life \in [Resource -> {"live", "deferred", "zombie", "destroyed"}]
  /\ onDestroy \in Seq(Resource)
  /\ deferredDeletes \in Seq([resource : Resource, snapshot : [Queue -> Value]])
  /\ gc \in [phase : {"idle", "submits", "deletes", "drain"}, at : Nat, left : Nat]
  /\ oldest \in [Queue -> 0 .. Never]
  /\ device \in [state : {"alive", "collecting", "destroyed"}, collects : 0 .. DtorCollects]

Init ==
  /\ cpuValue = [q \in Queue |-> 0]
  /\ fence = [q \in Queue |-> 0]
  /\ driver = [q \in Queue |-> <<>>]
  /\ pendingSubmits = <<>>
  /\ openLists = [q \in Queue |-> 0]
  /\ call = [t \in Thread |-> Idle]
  /\ held = [t \in Thread |-> {}]
  /\ content = <<>>
  /\ pooled = [q \in Queue |-> <<>>]
  /\ life = [r \in Resource |-> "live"]
  /\ onDestroy = <<>>
  /\ deferredDeletes = <<>>
  /\ gc = GcIdle
  /\ oldest = [q \in Queue |-> Never]
  /\ device = [state |-> "alive", collects |-> DtorCollects]

(* AcquireQueueAccess: the collector holds the lock alone. *)
SharedAccess == gc.phase = "idle"

(* Threads of q that hold, or are getting, a list: each needs a value yet. *)
Reserved(q) ==
  {t \in Thread :
     /\ QueueOf[t] = q
     /\ \/ call[t].stage = "counted"
        \/ call[t].stage = "idle" /\ held[t] # {}}
Room(t) ==
  cpuValue[QueueOf[t]] + Cardinality(Reserved(QueueOf[t]) \ {t}) < MaxSubmits

(* A resource is in use while it is recorded or in work not done. *)
Recording(t) == call[t].stage \in {"idle", "counted", "numbered", "tracked"}
InUse(r) ==
  \/ \E t \in Thread : Recording(t) /\ \E c \in held[t] : r \in content[c].uses
  \/ \E q \in Queue : \E i \in DOMAIN driver[q] : r \in driver[q][i].uses

-----------------------------------------------------------------------------
(* GetCommandBuffer.                                                       *)

(* mOpenCommandLists. *)
IncrementCommandReference(q) == openLists' = [openLists EXCEPT ![q] = @ + 1]
DecrementCommandReference(q) == openLists' = [openLists EXCEPT ![q] = @ - 1]

(* The list is counted as open before the lock is asked for. *)
AskForCommandBuffer(t) ==
  /\ device.state = "alive"
  /\ call[t].stage = "idle"
  /\ Cardinality(held[t]) < MaxHeld
  /\ Room(t)
  /\ IncrementCommandReference(QueueOf[t])
  /\ call' = [call EXCEPT ![t].stage = "counted"]
  /\ UNCHANGED <<submitVars, held, content, pooled, lifeVars, gcVars, device>>

(* Has the queue gone past the fence value a pooled buffer waits for? *)
ReusableAtOnce(q, p) == TRUE
Reusable(q, p) == fence[q] > p.value

(* Under the shared lock: the first pooled command buffer the queue is     *)
(* done with has its allocator reset, or a new one is made.                *)
TakeCommandBuffer(t) ==
  LET q == QueueOf[t]
      fit == {i \in DOMAIN pooled[q] : Reusable(q, pooled[q][i])}
      take(c) == held' = [held EXCEPT ![t] = @ \cup {c}]
  IN
  /\ call[t].stage = "counted"
  /\ SharedAccess
  /\ \/ \E i \in fit :
          /\ \A j \in fit : i <= j
          /\ pooled' = [pooled EXCEPT ![q] = RemoveAt(@, i)]
          /\ take(pooled[q][i].cmd)
          /\ UNCHANGED content
     \/ /\ fit = {}
        /\ content' = Append(content, Blank)
        /\ take(Len(content) + 1)
        /\ UNCHANGED pooled
  /\ call' = [call EXCEPT ![t] = Idle]
  /\ UNCHANGED <<submitVars, openLists, lifeVars, gcVars, device>>

(* Any recording call that names r; the contract of Usable is the one of   *)
(* IDevice: until the collector has noted a request, r may still be used.  *)
Usable(r) == life[r] \in {"live", "deferred"}
Record(t, c, r) ==
  /\ call[t].stage = "idle" /\ c \in held[t]
  /\ r \notin Scratch /\ Members[r] = {}
  /\ Usable(r)
  /\ content' = [content EXCEPT ![c].uses = @ \cup {r}]
  /\ UNCHANGED <<submitVars, openLists, call, held, pooled, lifeVars, gcVars, device>>

(* ClearUnorderedAccess: the list makes a descriptor heap of its own, to   *)
(* be released after it.                                                   *)
RecordScratch(t, c, r) ==
  /\ call[t].stage = "idle" /\ c \in held[t]
  /\ r \in Scratch /\ life[r] = "live"
  /\ \A i \in DOMAIN content : r \notin content[i].scratch
  /\ content' = [content EXCEPT ![c] = [uses |-> @.uses \cup {r}, scratch |-> @.scratch \cup {r}]]
  /\ UNCHANGED <<submitVars, openLists, call, held, pooled, lifeVars, gcVars, device>>

-----------------------------------------------------------------------------
(* SubmitQueue of all the lists thread t holds, perhaps none.              *)

(* IncGetCpuValue. *)
SubmitNumber(t) ==
  LET q == QueueOf[t] IN
  /\ device.state = "alive"
  /\ call[t].stage = "idle"
  /\ Room(t)
  /\ cpuValue' = [cpuValue EXCEPT ![q] = @ + 1]
  /\ call' = [call EXCEPT ![t] = [Idle EXCEPT !.stage = "numbered", !.value = cpuValue[q] + 1]]
  /\ UNCHANGED <<fence, driver, pendingSubmits, openLists, held, content, pooled, lifeVars, gcVars, device>>

(* mQueuePendingSubmits.EmplaceBack, with the vector not locked. *)
SubmitTrack(t) ==
  /\ call[t].stage = "numbered"
  /\ gc.phase # "submits"
  /\ pendingSubmits' = Append(pendingSubmits, [queue |-> QueueOf[t], value |-> call[t].value])
  /\ call' = [call EXCEPT ![t].stage = "tracked"]
  /\ UNCHANGED <<cpuValue, fence, driver, openLists, held, content, pooled, lifeVars, gcVars, device>>

(* ExecuteCommandLists. *)
SubmitExecute(t) ==
  /\ call[t].stage = "tracked"
  /\ driver' = [driver EXCEPT ![QueueOf[t]] =
       Append(@, Work(held[t], UNION {content[c].uses : c \in held[t]}))]
  /\ call' = [call EXCEPT ![t].stage = "executed"]
  /\ UNCHANGED <<cpuValue, fence, pendingSubmits, openLists, held, content, pooled, lifeVars, gcVars, device>>

(* SnapshotQueueFenceValues, for the list's own scratch. *)
NoSubmitSnapshot(t) ==
  /\ call[t].stage = "executed"
  /\ call' = [call EXCEPT ![t].stage = "snapped"]
  /\ UNCHANGED <<submitVars, openLists, held, content, pooled, lifeVars, gcVars, device>>
SubmitSnapshot(t) ==
  /\ call[t].stage = "executed"
  /\ call' = [call EXCEPT ![t].stage = "snapped", ![t].snapshot = cpuValue]
  /\ UNCHANGED <<submitVars, openLists, held, content, pooled, lifeVars, gcVars, device>>

(* SignalQueueFence; with no list to put back, the call is over. *)
SubmitSignal(t) ==
  /\ call[t].stage = "snapped"
  /\ driver' = [driver EXCEPT ![QueueOf[t]] = Append(@, Signal(call[t].value))]
  /\ call' = [call EXCEPT ![t] = IF held[t] = {} THEN Idle ELSE [@ EXCEPT !.stage = "signalled"]]
  /\ UNCHANGED <<cpuValue, fence, pendingSubmits, openLists, held, content, pooled, lifeVars, gcVars, device>>

(* The closing loop, one list at a time: its scratch goes to the deferred  *)
(* deletes with the submission's snapshot; then, under the shared lock,    *)
(* RestoreCommandBuffer counts it closed and pools it.                     *)
RestoreCommandBuffer(t, c) ==
  LET q == QueueOf[t]
      zombies == SetToSeq({[resource |-> r, snapshot |-> call[t].snapshot] : r \in content[c].scratch})
  IN
  /\ call[t].stage = "signalled" /\ c \in held[t]
  /\ SharedAccess
  /\ deferredDeletes' = deferredDeletes \o zombies
  /\ life' = [r \in Resource |-> IF r \in content[c].scratch THEN "zombie" ELSE life[r]]
  /\ content' = [content EXCEPT ![c] = Blank]
  /\ DecrementCommandReference(q)
  /\ pooled' = [pooled EXCEPT ![q] = Append(@, [cmd |-> c, value |-> call[t].value])]
  /\ held' = [held EXCEPT ![t] = @ \ {c}]
  /\ call' = [call EXCEPT ![t] = IF held[t] = {c} THEN Idle ELSE @]
  /\ UNCHANGED <<submitVars, onDestroy, gcVars, device>>

(* The queue finishes what it was given first. *)
GpuStep(q) ==
  /\ driver[q] # <<>>
  /\ driver' = [driver EXCEPT ![q] = Tail(@)]
  /\ fence' = IF Head(driver[q]).kind = "signal"
              THEN [fence EXCEPT ![q] = Head(driver[q]).value]
              ELSE fence
  /\ UNCHANGED <<cpuValue, pendingSubmits, listVars, lifeVars, gcVars, device>>

-----------------------------------------------------------------------------
(* Destruction requests; the application's own things, a block last.       *)
MayGiveUp(r) ==
  /\ device.state = "alive"
  /\ r \notin Scratch /\ life[r] = "live"
  /\ \A m \in Members[r] : life[m] # "live"

(* Destroy*(r, bDefer = true): a lambda is pushed, under no queue lock.    *)
TryEnqueueDestroyDeferred(r) ==
  /\ MayGiveUp(r)
  /\ life' = [life EXCEPT ![r] = "deferred"]
  /\ onDestroy' = Append(onDestroy, r)
  /\ UNCHANGED <<submitVars, listVars, deferredDeletes, gcVars, device>>

(* Destroy*(r, bDefer = false): at once; the application knows r idle.     *)
DestroyImmediately(r) ==
  /\ MayGiveUp(r)
  /\ ~InUse(r)
  /\ \A m \in Members[r] : life[m] = "destroyed"
  /\ life' = [life EXCEPT ![r] = "destroyed"]
  /\ UNCHANGED <<submitVars, listVars, onDestroy, deferredDeletes, gcVars, device>>

-----------------------------------------------------------------------------
(* CollectGarbage.                                                         *)

OpenListsIgnored == TRUE
NoOpenCommands == \A q \in Queue : openLists[q] = 0

(* The lock is taken and no queue has an open list; the application calls  *)
(* it, or the destructor.  (With a list open the call returns false and    *)
(* changes nothing: a stutter.)                                            *)
GcBegin ==
  /\ gc.phase = "idle"
  /\ NoOpenCommands
  /\ \/ device.state = "alive" /\ UNCHANGED device
     \/ /\ device.state = "collecting" /\ device.collects > 0
        /\ device' = [device EXCEPT !.collects = @ - 1]
  /\ gc' = [phase |-> "submits", at |-> 1, left |-> 0]
  /\ oldest' = [q \in Queue |-> Never]
  /\ UNCHANGED <<submitVars, listVars, lifeVars>>

CompletedStrictly(s) == fence[s.queue] > s.value
Completed(s) == fence[s.queue] >= s.value

GcSubmit ==
  LET s == pendingSubmits[gc.at] IN
  /\ gc.phase = "submits" /\ gc.at <= Len(pendingSubmits)
  /\ \/ /\ Completed(s)
        /\ pendingSubmits' = RemoveAt(pendingSubmits, gc.at)
        /\ UNCHANGED gcVars
     \/ /\ ~Completed(s)
        /\ oldest' = [oldest EXCEPT ![s.queue] = IF @ <= fence[s.queue] THEN @ ELSE fence[s.queue]]
        /\ gc' = [gc EXCEPT !.at = @ + 1]
        /\ UNCHANGED pendingSubmits
  /\ UNCHANGED <<cpuValue, fence, driver, listVars, lifeVars, device>>

GcSubmitsDone ==
  /\ gc.phase = "submits" /\ gc.at > Len(pendingSubmits)
  /\ gc' = [gc EXCEPT !.phase = "deletes", !.at = 1]
  /\ UNCHANGED <<submitVars, listVars, lifeVars, oldest, device>>

ReadyOnOneQueue(z) == \E q \in Queue : oldest[q] > z.snapshot[q]
Ready(z) == \A q \in Queue : oldest[q] > z.snapshot[q]

GcDelete ==
  LET z == deferredDeletes[gc.at] IN
  /\ gc.phase = "deletes" /\ gc.at <= Len(deferredDeletes)
  /\ \/ /\ Ready(z)
        /\ deferredDeletes' = RemoveAt(deferredDeletes, gc.at)
        /\ life' = [life EXCEPT ![z.resource] = "destroyed"]
        /\ UNCHANGED gc
     \/ /\ ~Ready(z)
        /\ gc' = [gc EXCEPT !.at = @ + 1]
        /\ UNCHANGED <<deferredDeletes, life>>
  /\ UNCHANGED <<submitVars, listVars, onDestroy, oldest, device>>

(* What is drained is bounded by the size of the queue at this point. *)
GcDeletesDone ==
  /\ gc.phase = "deletes" /\ gc.at > Len(deferredDeletes)
  /\ gc' = [phase |-> "drain", at |-> 1, left |-> Len(onDestroy)]
  /\ UNCHANGED <<submitVars, listVars, lifeVars, oldest, device>>

(* The newest request is put first. *)
GcDrainToFront ==
  /\ gc.phase = "drain" /\ gc.left > 0
  /\ onDestroy' = Tail(onDestroy)
  /\ deferredDeletes' = <<[resource |-> Head(onDestroy), snapshot |-> cpuValue]>> \o deferredDeletes
  /\ life' = [life EXCEPT ![Head(onDestroy)] = "zombie"]
  /\ gc' = [gc EXCEPT !.left = @ - 1]
  /\ UNCHANGED <<submitVars, listVars, oldest, device>>
GcDrain ==
  /\ gc.phase = "drain" /\ gc.left > 0
  /\ onDestroy' = Tail(onDestroy)
  /\ deferredDeletes' = Append(deferredDeletes, [resource |-> Head(onDestroy), snapshot |-> cpuValue])
  /\ life' = [life EXCEPT ![Head(onDestroy)] = "zombie"]
  /\ gc' = [gc EXCEPT !.left = @ - 1]
  /\ UNCHANGED <<submitVars, listVars, oldest, device>>

GcEnd ==
  /\ gc.phase = "drain" /\ gc.left = 0
  /\ gc' = GcIdle
  /\ oldest' = [q \in Queue |-> Never]
  /\ UNCHANGED <<submitVars, listVars, lifeVars, device>>

-----------------------------------------------------------------------------
(* ~D3DDevice, with every list submitted and no other call being made.     *)
DtorWaitIdle ==
  /\ device.state = "alive"
  /\ gc.phase = "idle"
  /\ \A t \in Thread : call[t].stage = "idle" /\ held[t] = {}
  /\ \A q \in Queue : driver[q] = <<>>
  /\ device' = [device EXCEPT !.state = "collecting"]
  /\ UNCHANGED <<submitVars, listVars, lifeVars, gcVars>>

DtorEnd ==
  /\ device.state = "collecting" /\ device.collects = 0
  /\ gc.phase = "idle"
  /\ device' = [device EXCEPT !.state = "destroyed"]
  /\ UNCHANGED <<submitVars, listVars, lifeVars, gcVars>>

Terminated == device.state = "destroyed" /\ UNCHANGED vars

SubmitStep(t) ==
  \/ SubmitTrack(t) \/ SubmitExecute(t) \/ SubmitSnapshot(t) \/ SubmitSignal(t)
  \/ \E c \in held[t] : RestoreCommandBuffer(t, c)

GcStep ==
  \/ GcSubmit \/ GcSubmitsDone
  \/ GcDelete \/ GcDeletesDone
  \/ GcDrain \/ GcEnd

Next ==
  \/ \E t \in Thread :
       \/ AskForCommandBuffer(t) \/ TakeCommandBuffer(t)
       \/ \E c \in held[t], r \in Resource : Record(t, c, r) \/ RecordScratch(t, c, r)
       \/ SubmitNumber(t) \/ SubmitStep(t)
  \/ \E q \in Queue : GpuStep(q)
  \/ \E r \in Resource : TryEnqueueDestroyDeferred(r) \/ DestroyImmediately(r)
  \/ GcBegin \/ GcStep
  \/ DtorWaitIdle \/ DtorEnd \/ Terminated

Spec == Init /\ [][Next]_vars

(* Calls go on, the GPU works, lists are submitted, and the collector is   *)
(* called again and again, also while no list is open.                     *)
Fairness ==
  /\ \A t \in Thread :
       /\ WF_vars(TakeCommandBuffer(t))
       /\ WF_vars(SubmitStep(t))
       /\ WF_vars(held[t] # {} /\ SubmitNumber(t))
  /\ \A q \in Queue : WF_vars(GpuStep(q))
  /\ SF_vars(GcBegin)
  /\ WF_vars(GcStep)

FairSpec == Spec /\ Fairness

-----------------------------------------------------------------------------
(* A destroyed resource is in no recorded list and in no work of a queue:  *)
(* open lists keep the collector away, snapshots and fences do the rest.   *)
NoDestroyInFlight == \A r \in Resource : life[r] = "destroyed" => ~InUse(r)

(* Command allocators are reset by GetCommandBuffer and written to while   *)
(* recording: no command buffer a thread holds may still be executing.     *)
NoAllocatorResetInFlight ==
  \A t \in Thread : call[t].stage \in {"idle", "counted"} =>
    \A c \in held[t] : \A q \in Queue : \A i \in DOMAIN driver[q] : c \notin driver[q][i].cmds

(* A memory block goes after every resource placed in it: the ASSERT on    *)
(* debugRefs in DestroyMemoryBlock.                                        *)
MembersBeforeBlock ==
  \A r \in Resource : life[r] = "destroyed" => \A m \in Members[r] : life[m] = "destroyed"

(* ASSERT(mDeferredDeletes.Empty()) in ~D3DDevice: ten collections after   *)
(* WaitIdle have released everything that was given up.                    *)
DtorLeavesNothing ==
  device.state = "destroyed" => deferredDeletes = <<>> /\ onDestroy = <<>>

(* All four: what is destroyed or reset is out of use, in the order of its *)
(* dependencies, and none of it is forgotten.                              *)
DestroysSafely ==
  NoDestroyInFlight /\ NoAllocatorResetInFlight /\ MembersBeforeBlock /\ DtorLeavesNothing

Lifetime == INSTANCE ResourceLifetime WITH
  status <- [r \in Resource |-> IF life[r] \in {"deferred", "zombie"} THEN "condemned" ELSE life[r]],
  busy <- {r \in Resource : InUse(r)}

(* The backend keeps the promises of ResourceLifetime.  A list's scratch   *)
(* may be condemned while it is in use, like any other resource.           *)
LifetimeSpec == Lifetime!Spec

(* What is given up is destroyed in the end. *)
CondemnedIsDestroyed == Lifetime!CondemnedIsDestroyed

-----------------------------------------------------------------------------
(* The inductive invariant, in named parts, for applications that submit   *)
(* to each queue from one thread.  TLC checks it in the small instances;   *)
(* D3DDeviceProofs shows it inductive.                                     *)

(* No two threads submit to the same queue.  Nothing in the backend sees   *)
(* to it: two threads may number, execute and signal out of step.          *)
OneThreadAQueue == \A t, u \in Thread : QueueOf[t] = QueueOf[u] => t = u

(* A queue counts the lists its thread has or is getting, so that nobody   *)
(* has one while the collector runs.                                       *)
OpenInv ==
  /\ \A t \in Thread :
       openLists[QueueOf[t]] = Cardinality(held[t]) + IF call[t].stage = "counted" THEN 1 ELSE 0
  /\ gc.phase # "idle" => \A t \in Thread : held[t] = {}

(* A command buffer is with one thread or in one pool, and there blank.    *)
ListsInv ==
  /\ \A t, u \in Thread : \A c \in held[t] : c \in held[u] => t = u
  /\ \A q \in Queue : \A i \in 1 .. Len(pooled[q]) :
       /\ content[pooled[q][i].cmd] = Blank
       /\ \A t \in Thread : pooled[q][i].cmd \notin held[t]
  /\ \A p, q \in Queue : \A i \in 1 .. Len(pooled[p]), j \in 1 .. Len(pooled[q]) :
       pooled[p][i].cmd = pooled[q][j].cmd => p = q /\ i = j

-----------------------------------------------------------------------------
(* The fence values.                                                       *)

IsSignal(e) == e.kind = "signal"
Tracked(pending, q, value) ==
  \E i \in 1 .. Len(pending) : pending[i] = [queue |-> q, value |-> value]

(* Stages of SubmitQueue: with its value drawn and not signalled, with     *)
(* that value on record, and with its lists executed.                      *)
Numbered == {"numbered", "tracked", "executed", "snapped"}
OnRecord == {"tracked", "executed", "snapped"}
Executed == {"executed", "snapped"}

(* What the driver has to signal grows, lies between the fence and the     *)
(* value drawn last, and is on record as pending; a value drawn and not    *)
(* signalled is the queue's last.                                          *)
SignalInv ==
  /\ \A q \in Queue : fence[q] <= cpuValue[q]
  /\ \A q \in Queue : \A i \in 1 .. Len(driver[q]) : IsSignal(driver[q][i]) =>
       /\ fence[q] < driver[q][i].value
       /\ driver[q][i].value <= cpuValue[q]
       /\ Tracked(pendingSubmits, q, driver[q][i].value)
  /\ \A q \in Queue : \A i, j \in 1 .. Len(driver[q]) :
       i < j /\ IsSignal(driver[q][i]) /\ IsSignal(driver[q][j]) =>
         driver[q][i].value < driver[q][j].value

CallInv ==
  \A t \in Thread :
    /\ call[t].stage \in Numbered =>
         /\ call[t].value = cpuValue[QueueOf[t]]
         /\ fence[QueueOf[t]] < call[t].value
         /\ \A i \in 1 .. Len(driver[QueueOf[t]]) :
              IsSignal(driver[QueueOf[t]][i]) => driver[QueueOf[t]][i].value < call[t].value
    /\ call[t].stage \in OnRecord => Tracked(pendingSubmits, QueueOf[t], call[t].value)
    /\ call[t].stage \in {"snapped", "signalled"} => call[t].value <= call[t].snapshot[QueueOf[t]]

-----------------------------------------------------------------------------
(* The work of the driver.                                                 *)

(* Value v is signalled after entry i of queue q: by a later entry, or by  *)
(* the SubmitQueue call that is still at it.                               *)
Covered(q, i, v) ==
  \/ \E j \in 1 .. Len(driver[q]) : i < j /\ IsSignal(driver[q][j]) /\ driver[q][j].value = v
  \/ \E t \in Thread :
       QueueOf[t] = q /\ held[t] # {} /\ call[t].stage \in Executed /\ call[t].value = v

(* No work that uses anything goes without a signal. *)
CoverInv ==
  \A q \in Queue : \A i \in 1 .. Len(driver[q]) :
    driver[q][i].uses # {} => \E v \in Value : Covered(q, i, v)

(* Command buffers: the driver has none that is being recorded, those of a *)
(* submission before its value is signalled, and pooled ones before their  *)
(* value.                                                                  *)
AllocatorInv ==
  \A q \in Queue : \A i \in 1 .. Len(driver[q]) : \A c \in driver[q][i].cmds :
    /\ c \in 1 .. Len(content)
    /\ \A t \in Thread : c \in held[t] =>
         /\ call[t].stage \in {"executed", "snapped", "signalled"}
         /\ QueueOf[t] = q
         /\ Covered(q, i, call[t].value)
    /\ \A p \in Queue : \A k \in 1 .. Len(pooled[p]) : pooled[p][k].cmd = c =>
         p = q /\ Covered(q, i, pooled[p][k].value)

(* Scratch objects: live ones are one list's, and used by it alone; the    *)
(* driver has those of a submission before its value is signalled.         *)
ScratchInv ==
  /\ \A c \in 1 .. Len(content) :
       /\ content[c].uses \cap Scratch \subseteq content[c].scratch
       /\ IsFiniteSet(content[c].scratch)
       /\ \A r \in content[c].scratch : life[r] = "live"
  /\ \A c, d \in 1 .. Len(content) : \A r \in content[c].scratch : r \in content[d].scratch => c = d
  /\ \A r \in Scratch : life[r] = "live" =>
       \A q \in Queue : \A i \in 1 .. Len(driver[q]) : r \in driver[q][i].uses =>
         \E t \in Thread : \E c \in held[t] :
           /\ QueueOf[t] = q /\ r \in content[c].scratch
           /\ call[t].stage \in {"executed", "snapped", "signalled"}
           /\ Covered(q, i, call[t].value)

-----------------------------------------------------------------------------
(* Condemned resources.                                                    *)

(* The two queues of condemned resources hold each of them once.           *)
CondemnedInv ==
  /\ \A i \in 1 .. Len(onDestroy) : life[onDestroy[i]] = "deferred"
  /\ \A i \in 1 .. Len(deferredDeletes) : life[deferredDeletes[i].resource] = "zombie"
  /\ \A i, j \in 1 .. Len(onDestroy) : onDestroy[i] = onDestroy[j] => i = j
  /\ \A i, j \in 1 .. Len(deferredDeletes) :
       deferredDeletes[i].resource = deferredDeletes[j].resource => i = j

(* What is deleted later is used only by work its snapshot covers.         *)
ZombieInv ==
  \A k \in 1 .. Len(deferredDeletes) :
    /\ \A t \in Thread : Recording(t) =>
         \A c \in held[t] : deferredDeletes[k].resource \notin content[c].uses
    /\ \A q \in Queue : \A i \in 1 .. Len(driver[q]) :
         deferredDeletes[k].resource \in driver[q][i].uses =>
           \E v \in Value : Covered(q, i, v) /\ v <= deferredDeletes[k].snapshot[q]

(* What the collector has found of the first n pending submits; in the end *)
(* it has met every queue with work that uses anything.                    *)
Scanned(n) ==
  \A q \in Queue :
    \/ oldest[q] = Never /\ \A i \in 1 .. n : pendingSubmits[i].queue # q
    \/ oldest[q] <= fence[q]

ScanInv ==
  /\ gc.phase = "submits" => gc.at \in 1 .. Len(pendingSubmits) + 1 /\ Scanned(gc.at - 1)
  /\ gc.phase = "deletes" => gc.at \in 1 .. Len(deferredDeletes) + 1 /\
       \A q \in Queue :
         \/ oldest[q] <= fence[q]
         \/ \A i \in 1 .. Len(driver[q]) : driver[q][i].uses = {}
  /\ gc.phase = "drain" => gc.left <= Len(onDestroy)

IInv ==
  /\ TypeOK
  /\ OpenInv
  /\ ListsInv
  /\ SignalInv
  /\ CallInv
  /\ CoverInv
  /\ AllocatorInv
  /\ ScratchInv
  /\ CondemnedInv
  /\ ZombieInv
  /\ ScanInv
  /\ NoDestroyInFlight

-----------------------------------------------------------------------------
(* The order of destruction.                                               *)

(* No snapshot is ahead of the values drawn; one the collector has taken   *)
(* is not behind those in front of it (a list's scratch comes with the     *)
(* snapshot of its submission); what the collector has passed is not ready.*)
SnapshotInv ==
  /\ \A t \in Thread : \A q \in Queue : call[t].snapshot[q] <= cpuValue[q]
  /\ \A i \in 1 .. Len(deferredDeletes) : \A q \in Queue : deferredDeletes[i].snapshot[q] <= cpuValue[q]
  /\ \A i, j \in 1 .. Len(deferredDeletes) : i <= j /\ deferredDeletes[j].resource \notin Scratch =>
       \A q \in Queue : deferredDeletes[i].snapshot[q] <= deferredDeletes[j].snapshot[q]
  /\ gc.phase = "deletes" =>
       \A i \in 1 .. Len(deferredDeletes) : i < gc.at => ~Ready(deferredDeletes[i])

(* A member of a block is ahead of the block on the way to destruction,    *)
(* among the requests and among the deferred deletes.                      *)
RequestedAhead(requests, m, r) ==
  \A j \in 1 .. Len(requests) : requests[j] = r => \E i \in 1 .. Len(requests) : i < j /\ requests[i] = m
DeletedAhead(deletes, m, r) ==
  \A j \in 1 .. Len(deletes) : deletes[j].resource = r =>
    \E i \in 1 .. Len(deletes) : i < j /\ deletes[i].resource = m

BlockInv ==
  /\ \A r \in Resource : life[r] = "deferred" => \E i \in 1 .. Len(onDestroy) : onDestroy[i] = r
  /\ \A r \in Resource : life[r] = "zombie" => \E i \in 1 .. Len(deferredDeletes) : deferredDeletes[i].resource = r
  /\ \A r \in Resource : \A m \in Members[r] :
       /\ life[r] # "live" => life[m] # "live"
       /\ life[r] \in {"zombie", "destroyed"} => life[m] \in {"zombie", "destroyed"}
       /\ life[m] = "deferred" => RequestedAhead(onDestroy, m, r)
       /\ life[m] = "zombie" => DeletedAhead(deferredDeletes, m, r)

-----------------------------------------------------------------------------
(* The destructor.                                                         *)

(* No submission has a value above the last one drawn, and a queue is      *)
(* there when nobody is submitting to it and it has nothing to signal.     *)
CountInv ==
  /\ \A i \in 1 .. Len(pendingSubmits) : pendingSubmits[i].value <= cpuValue[pendingSubmits[i].queue]
  /\ \A q \in Queue :
       \/ fence[q] = cpuValue[q]
       \/ \E t \in Thread : QueueOf[t] = q /\ call[t].stage \in Numbered
       \/ \E i \in 1 .. Len(driver[q]) : IsSignal(driver[q][i]) /\ driver[q][i].value = cpuValue[q]

(* The collections the destructor has made, the one that runs left out.    *)
Collected == DtorCollects - device.collects - IF gc.phase = "idle" THEN 0 ELSE 1

(* What each of them leaves: the first one no submission on record and no  *)
(* request, the second nothing to delete; and none passes by anything.     *)
ShutInv ==
  /\ device.state = "alive" => device.collects = DtorCollects
  /\ device.state = "destroyed" => device.collects = 0 /\ gc.phase = "idle"
  /\ device.state # "alive" =>
       /\ \A t \in Thread : call[t].stage = "idle" /\ held[t] = {}
       /\ \A q \in Queue : driver[q] = <<>>
       /\ gc.phase # "idle" => device.collects < DtorCollects
       /\ gc.phase \in {"submits", "deletes"} => gc.at = 1 /\ \A q \in Queue : oldest[q] = Never
       /\ gc.phase = "drain" => gc.left = Len(onDestroy)
       /\ Collected >= 1 \/ gc.phase \in {"deletes", "drain"} => pendingSubmits = <<>>
       /\ Collected >= 1 => onDestroy = <<>>
       /\ Collected >= 2 \/ (Collected >= 1 /\ gc.phase = "drain") => deferredDeletes = <<>>

(* All of it together, which is inductive.                                 *)
OrderInv ==
  /\ IInv
  /\ SnapshotInv
  /\ BlockInv
  /\ MembersBeforeBlock

DeviceInv == OrderInv /\ CountInv /\ ShutInv
=============================================================================
