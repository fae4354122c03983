-------------------------- MODULE VulkanPresentation --------------------------
(***************************************************************************)
(* The swap chain of the Vulkan backend (src/RHIVulkan/Api/SwapChain.cpp)  *)
(* with the parts of SubmitQueue and PresentQueue (Device.cpp) that take   *)
(* its binary semaphores: one acquire semaphore for each acquisition, in a *)
(* ring, and one render semaphore for each image.                          *)
(*                                                                         *)
(* External: the presentation engine, which hands out images, shows what   *)
(* is presented in order and finds the swap chain out of date when the     *)
(* window has changed; and the GPU, whose queues run in order.  One thread *)
(* renders: it acquires an image, submits a list that touches it and       *)
(* presents it, with at most FramesInFlight frames not yet run.  When an   *)
(* acquisition fails it resizes, once it has waited for the device to be   *)
(* idle.                                                                   *)
(***************************************************************************)
EXTENDS Integers, Sequences, SequencesExt, FiniteSets

CONSTANTS
  Queue,           \* the queues it submits to
  BufferCount,     \* images of the swap chain, as the driver made them
  FramesInFlight,  \* frames the renderer lets run at a time: 1 .. BufferCount
  Habits           \* what else it does, as the tests do: "retries" an acquisition
                   \* that failed, gives up an image it has not drawn to ("blank")

VARIABLES
  acquireIndex,     \* mImageAcquireIndex
  imageIndex,       \* mImageIndex
  isAcquireSuccess, \* mIsAcquireSuccess
  presenting,       \* mPresentingQueue is not null
  acquired,         \* signalled acquire semaphores
  finished,         \* signalled render semaphores
  phase,            \* where the renderer is in its frame
  work,             \* frames the renderer has not seen finished, in order
  presents,         \* presents the engine has not shown yet
  image,            \* who has each image: "engine", "renderer", "queued", "shown"
  drawn,            \* images whose last frame has run
  outOfDate         \* the window is not what the swap chain was made for

chain == <<acquireIndex, imageIndex, isAcquireSuccess, presenting>>
gpu == <<acquired, finished, work, presents, image, drawn>>
vars == <<chain, gpu, phase, outOfDate>>

Image == 0 .. BufferCount - 1
NoImage == -1          \* nothing to wait for
NotAcquired == -1      \* the initial value of mImageAcquireIndex
Frame == [queue : Queue, acquire : Image, render : Image, run : BOOLEAN]
Present == [wait : Image \cup {NoImage}, image : Image]

TypeOK ==
  /\ acquireIndex \in Image \cup {NotAcquired} /\ imageIndex \in Image
  /\ isAcquireSuccess \in BOOLEAN /\ presenting \in BOOLEAN /\ outOfDate \in BOOLEAN
  /\ acquired \subseteq Image /\ finished \subseteq Image /\ drawn \subseteq Image
  /\ phase \in {"ready", "acquiring", "failed", "acquired", "submitted"}
  /\ work \in Seq(Frame) /\ presents \in Seq(Present)
  /\ image \in [Image -> {"engine", "renderer", "queued", "shown"}]

Init ==
  /\ acquireIndex = NotAcquired /\ imageIndex = 0
  /\ isAcquireSuccess = FALSE /\ presenting = FALSE
  /\ acquired = {} /\ finished = {} /\ drawn = {}
  /\ phase = "ready"
  /\ work = <<>> /\ presents = <<>>
  /\ image = [i \in Image |-> "engine"]
  /\ outOfDate = FALSE

ToRun == {k \in DOMAIN work : ~work[k].run}

-----------------------------------------------------------------------------
(* The renderer *)

(* A mistake: the acquire semaphores are taken by the image last acquired. *)
AcquireByImage ==
  /\ phase = "ready" \/ (phase = "failed" /\ "retries" \in Habits)
  /\ Len(work) < FramesInFlight
  /\ isAcquireSuccess' = FALSE
  /\ acquireIndex' = imageIndex
  /\ phase' = "acquiring"
  /\ UNCHANGED <<imageIndex, presenting, gpu, outOfDate>>

(* AcquireNextImage until the driver answers. *)
AcquireNextImage ==
  /\ phase = "ready" \/ (phase = "failed" /\ "retries" \in Habits)
  /\ Len(work) < FramesInFlight
  /\ isAcquireSuccess' = FALSE
  /\ acquireIndex' = (acquireIndex + 1) % BufferCount
  /\ phase' = "acquiring"
  /\ UNCHANGED <<imageIndex, presenting, gpu, outOfDate>>

(* The driver has an image and the fence is waited for.  An out of date    *)
(* swap chain may still be taken for suboptimal.                           *)
AcquireSucceeds(i) ==
  /\ phase = "acquiring"
  /\ image[i] = "engine"
  /\ imageIndex' = i
  /\ isAcquireSuccess' = TRUE
  /\ presenting' = FALSE
  /\ acquired' = acquired \cup {acquireIndex}
  /\ image' = [image EXCEPT ![i] = "renderer"]
  /\ drawn' = drawn \ {i}
  /\ phase' = "acquired"
  /\ UNCHANGED <<acquireIndex, finished, work, presents, outOfDate>>

(* PYRO_SWAPCHAIN_ACQUIRE_FAIL: the index has moved on all the same. *)
AcquireFails ==
  /\ phase = "acquiring"
  /\ outOfDate
  /\ phase' = "failed"
  /\ UNCHANGED <<chain, gpu, outOfDate>>

(* A mistake: the submission signals the semaphore of the acquire ring. *)
SubmitByRing(q) ==
  /\ phase = "acquired"
  /\ work' = Append(work, [queue |-> q, acquire |-> acquireIndex, render |-> acquireIndex, run |-> FALSE])
  /\ presenting' = TRUE
  /\ phase' = "submitted"
  /\ UNCHANGED <<acquireIndex, imageIndex, isAcquireSuccess, acquired, finished, presents, image, drawn, outOfDate>>

(* SubmitQueue with a list that touches the image.  LastAcquireSucceded    *)
(* holds: only an acquired image is drawn to.                              *)
SubmitQueue(q) ==
  /\ phase = "acquired"
  /\ isAcquireSuccess
  /\ work' = Append(work, [queue |-> q, acquire |-> acquireIndex, render |-> imageIndex, run |-> FALSE])
  /\ presenting' = TRUE
  /\ phase' = "submitted"
  /\ UNCHANGED <<acquireIndex, imageIndex, isAcquireSuccess, acquired, finished, presents, image, drawn, outOfDate>>

(* A mistake: PresentQueue tests mPresentingQueue after it is consumed. *)
PresentWithoutWait ==
  /\ phase = "submitted" \/ (phase = "acquired" /\ "blank" \in Habits)
  /\ presenting' = FALSE
  /\ presents' = Append(presents, [wait |-> NoImage, image |-> imageIndex])
  /\ image' = [image EXCEPT ![imageIndex] = "queued"]
  /\ phase' = "ready"
  /\ UNCHANGED <<acquireIndex, imageIndex, isAcquireSuccess, acquired, finished, work, drawn, outOfDate>>

(* PresentQueue; what the driver answers is ignored. *)
PresentQueue ==
  /\ phase = "submitted" \/ (phase = "acquired" /\ "blank" \in Habits)
  /\ presenting' = FALSE
  /\ presents' = Append(presents,
       [wait |-> IF presenting THEN imageIndex ELSE NoImage, image |-> imageIndex])
  /\ image' = [image EXCEPT ![imageIndex] = "queued"]
  /\ phase' = "ready"
  /\ UNCHANGED <<acquireIndex, imageIndex, isAcquireSuccess, acquired, finished, work, drawn, outOfDate>>

(* WaitIdle and Resize: new images, the old semaphores and indices. *)
Resize ==
  /\ phase \in {"ready", "failed"} \/ (phase = "acquired" /\ "blank" \in Habits)
  /\ work = <<>> /\ presents = <<>>
  /\ image' = [i \in Image |-> "engine"]
  /\ drawn' = {}
  /\ outOfDate' = FALSE
  /\ phase' = "ready"
  /\ UNCHANGED <<chain, acquired, finished, work, presents>>

-----------------------------------------------------------------------------
(* The GPU, the engine and the window *)

(* The next frame of a queue; the renderer waits for its frames in order. *)
Run(k) ==
  /\ k \in ToRun
  /\ \A j \in ToRun : j < k => work[j].queue # work[k].queue
  /\ work[k].acquire \in acquired
  /\ acquired' = acquired \ {work[k].acquire}
  /\ finished' = finished \cup {work[k].render}
  /\ drawn' = drawn \cup {work[k].render}
  /\ LET still == ToRun \ {k}
         first == IF still = {} THEN Len(work) + 1 ELSE Min(still)
     IN work' = SubSeq([work EXCEPT ![k].run = TRUE], first, Len(work))
  /\ UNCHANGED <<chain, presents, image, phase, outOfDate>>

(* What was shown before goes back to the engine. *)
Show ==
  /\ presents # <<>>
  /\ Head(presents).wait \in finished \cup {NoImage}
  /\ finished' = finished \ {Head(presents).wait}
  /\ image' = [i \in Image |-> CASE i = Head(presents).image -> "shown"
                                 [] image[i] = "shown" -> "engine"
                                 [] OTHER -> image[i]]
  /\ presents' = Tail(presents)
  /\ UNCHANGED <<chain, acquired, work, drawn, phase, outOfDate>>

WindowChanges ==
  /\ ~outOfDate
  /\ outOfDate' = TRUE
  /\ UNCHANGED <<chain, gpu, phase>>

Next ==
  \/ AcquireNextImage \/ AcquireFails \/ \E i \in Image : AcquireSucceeds(i)
  \/ \E q \in Queue : SubmitQueue(q)
  \/ \E k \in 1 .. FramesInFlight : Run(k)
  \/ PresentQueue \/ Resize
  \/ Show \/ WindowChanges

Spec == Init /\ [][Next]_vars

(* The GPU and the engine go on, and the driver answers a waiting call. *)
Fairness ==
  /\ WF_vars(\E k \in 1 .. FramesInFlight : Run(k))
  /\ WF_vars(Show)
  /\ WF_vars(AcquireFails \/ \E i \in Image : AcquireSucceeds(i))

FairSpec == Spec /\ Fairness

-----------------------------------------------------------------------------

(* Whenever the driver is asked for an image, the acquire semaphore it is  *)
(* to signal is unsignalled and no frame still has to wait for it.  Failed *)
(* acquisitions use up a place of the ring too.                            *)
EnoughSemaphores ==
  phase = "acquiring" =>
    /\ acquireIndex \notin acquired
    /\ \A k \in ToRun : work[k].acquire # acquireIndex

(* Every frame waits for a signal that has been given, and alone.  Every   *)
(* render semaphore is signalled by one frame at a time, and a present     *)
(* that waits for it has such a frame: nothing waits for ever.             *)
SemaphoresPair ==
  /\ \A k \in ToRun : work[k].acquire \in acquired
  /\ \A j, k \in ToRun : work[j].acquire = work[k].acquire => j = k
  /\ \A i \in Image :
       LET signals == {k \in ToRun : work[k].render = i}
           waits == {k \in DOMAIN presents : presents[k].wait = i}
       IN /\ i \in finished => signals = {}
          /\ Cardinality(signals) <= 1
          /\ Cardinality(waits) <= 1
          /\ waits # {} => i \in finished \/ signals # {}

(* What is on the screen is finished, although a frame may run on another  *)
(* queue than the one that presents it.                                    *)
ShowsWhatWasDrawn ==
  \A i \in Image : image[i] = "shown" /\ "blank" \notin Habits => i \in drawn

(* AcquireNextImage, which waits without a timeout and then for a fence,   *)
(* returns: the engine always gets an image back.                          *)
AcquireReturns == phase = "acquiring" ~> phase # "acquiring"
=============================================================================
