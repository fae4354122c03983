--------------------------- MODULE D3DPresentation ---------------------------
(***************************************************************************)
(* The swap chain of the Direct3D backend (src/RHIDX12/Api/SwapChain.cpp)  *)
(* with PresentQueue (Device.cpp): a waitable object that lets one frame   *)
(* be ahead of the screen, and back buffers whose blit views take slots of *)
(* the heap of render target views, which D3DSlots models slot by slot and *)
(* this module counts.                                                     *)
(*                                                                         *)
(* External: DXGI shows what is presented, signals the waitable object     *)
(* once for every frame it has shown and does not present to a window that *)
(* is covered or minimised; the window becomes so at will.  The renderer   *)
(* resizes between frames.                                                 *)
(***************************************************************************)
EXTENDS Integers, FiniteSets

CONSTANTS
  BufferCount,  \* back buffers, at least two
  Blits,        \* are they targets of blits (BLIT_DST)?
  MaxSlots      \* bound: slots of the heap of render target views

VARIABLES
  waitable,    \* is mSwapWait signalled?
  queued,      \* back buffers presented and not shown
  shown,       \* back buffers on the screen
  drawn,       \* back buffers drawn to since they were last acquired
  current,     \* DXGI's current back buffer
  imageIndex,  \* mImageIndex
  phase,       \* where the renderer is in its frame
  window,      \* "visible", "covered" or "minimised"
  wrapped,     \* do the back buffers have their images (mWrappedBuffers)?
  slots        \* slots of the heap that are not returned

frame == <<waitable, queued, shown, drawn, current, imageIndex>>
views == <<wrapped, slots>>
vars == <<frame, phase, window, views>>

Buffer == 0 .. BufferCount - 1
ViewsNeeded == IF wrapped /\ Blits THEN BufferCount ELSE 0

TypeOK ==
  /\ waitable \in BOOLEAN
  /\ queued \subseteq Buffer /\ shown \subseteq Buffer /\ drawn \subseteq Buffer
  /\ current \in Buffer /\ imageIndex \in Buffer
  /\ phase \in {"ready", "waiting", "testing", "acquired", "destroyed"}
  /\ window \in {"visible", "covered", "minimised"}
  /\ wrapped \in BOOLEAN /\ slots \in 0 .. MaxSlots

(* The constructor ends with GetImages. *)
Init ==
  /\ waitable = TRUE
  /\ queued = {} /\ shown = {} /\ drawn = {}
  /\ current = 0 /\ imageIndex = 0
  /\ phase = "ready"
  /\ window = "visible"
  /\ wrapped = TRUE
  /\ slots = IF Blits THEN BufferCount ELSE 0

-----------------------------------------------------------------------------

AcquireNextImage ==
  /\ phase = "ready"
  /\ phase' = "waiting"
  /\ UNCHANGED <<frame, window, views>>

(* WAIT_TIMEOUT: no signal for a second. *)
AcquireTimesOut ==
  /\ phase = "waiting" /\ ~waitable
  /\ phase' = "ready"
  /\ UNCHANGED <<frame, window, views>>

(* A mistake: the wait does not use the signal up. *)
PeekedAt ==
  /\ phase = "waiting" /\ waitable
  /\ phase' = IF window = "minimised" THEN "ready" ELSE "testing"
  /\ UNCHANGED <<frame, window, views>>

(* The wait is over; the window may be minimised (IsIconic). *)
Waited ==
  /\ phase = "waiting" /\ waitable
  /\ waitable' = FALSE
  /\ phase' = IF window = "minimised" THEN "ready" ELSE "testing"
  /\ UNCHANGED <<queued, shown, drawn, current, imageIndex, window, views>>

(* A mistake: the index is counted here, not asked for. *)
CountedImage ==
  /\ phase = "testing"
  /\ IF window = "visible"
     THEN /\ imageIndex' = (imageIndex + 1) % BufferCount
          /\ drawn' = drawn \ {imageIndex'}
          /\ phase' = "acquired"
     ELSE phase' = "ready" /\ UNCHANGED <<imageIndex, drawn>>
  /\ UNCHANGED <<waitable, queued, shown, current, window, views>>

(* A mistake: after the test the frame is waited for once more. *)
TestedThenWaits ==
  /\ phase = "testing"
  /\ phase' = IF window = "visible" THEN "waiting" ELSE "ready"
  /\ UNCHANGED <<frame, window, views>>

(* DXGI_PRESENT_TEST answers DXGI_STATUS_OCCLUDED or S_OK. *)
Tested ==
  /\ phase = "testing"
  /\ IF window = "visible"
     THEN imageIndex' = current /\ drawn' = drawn \ {current} /\ phase' = "acquired"
     ELSE phase' = "ready" /\ UNCHANGED <<imageIndex, drawn>>
  /\ UNCHANGED <<waitable, queued, shown, current, window, views>>

(* A list that draws to GetBackBuffer(imageIndex) is submitted. *)
Draw ==
  /\ phase = "acquired"
  /\ imageIndex \notin drawn
  /\ drawn' = drawn \cup {imageIndex}
  /\ UNCHANGED <<waitable, queued, shown, current, imageIndex, phase, window, views>>

(* PresentQueue: a window that cannot be seen is passed over. *)
PresentQueue ==
  /\ phase = "acquired"
  /\ phase' = "ready"
  /\ IF window = "visible"
     THEN queued' = queued \cup {current} /\ current' = (current + 1) % BufferCount
     ELSE UNCHANGED <<queued, current>>
  /\ UNCHANGED <<waitable, shown, drawn, imageIndex, window, views>>

(* DestroyImages, ResizeBuffers and GetImages, when everything presented   *)
(* is shown.  The slots of the old views are not returned.                 *)
Resize ==
  /\ phase = "ready" /\ queued = {}
  /\ slots + ViewsNeeded <= MaxSlots   \* the bound
  /\ slots' = slots + ViewsNeeded
  /\ current' = 0
  /\ shown' = {} /\ drawn' = {}
  /\ UNCHANGED <<waitable, queued, imageIndex, phase, window, wrapped>>

(* DestroySwapChain: DestroyImages, and the last reference to DXGI's. *)
Destroy ==
  /\ phase = "ready" /\ queued = {}
  /\ phase' = "destroyed"
  /\ wrapped' = FALSE
  /\ UNCHANGED <<frame, window, slots>>

Show(b) ==
  /\ b \in queued
  /\ queued' = queued \ {b}
  /\ shown' = {b}
  /\ waitable' = TRUE
  /\ UNCHANGED <<drawn, current, imageIndex, phase, window, views>>

WindowChanges(w) ==
  /\ window # w
  /\ window' = w
  /\ UNCHANGED <<frame, phase, views>>

Next ==
  \/ AcquireNextImage \/ AcquireTimesOut \/ Waited \/ Tested
  \/ Draw \/ PresentQueue \/ Resize \/ Destroy
  \/ \E b \in Buffer : Show(b)
  \/ \E w \in {"visible", "covered", "minimised"} : WindowChanges(w)

Spec == Init /\ [][Next]_vars

(* A call goes on, DXGI shows what is queued, and the renderer goes on     *)
(* asking for images and presents what it has drawn.                       *)
Step == AcquireTimesOut \/ Waited \/ Tested \/ (Draw \/ (PresentQueue /\ imageIndex \in drawn))
Fairness ==
  /\ WF_vars(AcquireNextImage) /\ WF_vars(Step)
  /\ WF_vars(\E b \in Buffer : Show(b))
FairSpec == Spec /\ Fairness

-----------------------------------------------------------------------------

(* The signal, a frame on its way through the renderer and a frame that    *)
(* waits to be shown are one token: SetMaximumFrameLatency(1) is kept, and *)
(* no signal is invented, whatever the window does in between.             *)
OneFrameAhead ==
  Cardinality(queued) + (IF waitable THEN 1 ELSE 0)
    + (IF phase \in {"testing", "acquired"} THEN 1 ELSE 0) <= 1

(* The buffer the renderer draws to is the one DXGI will present, and no   *)
(* buffer that is on the screen or on its way to it.                       *)
DrawsToTheCurrent ==
  phase = "acquired" =>
    imageIndex = current /\ imageIndex \notin queued \cup shown

(* The heap of render target views has as many slots taken as there are    *)
(* views of back buffers.                                                  *)
SlotsComeBack == slots = ViewsNeeded

(* As long as the window can be seen, the renderer gets one image after    *)
(* another.  (Once an acquisition has waited and found the window          *)
(* minimised or covered, it need not.)                                     *)
AcquiresWhileVisible ==
  [](window = "visible" /\ phase # "destroyed") => []<>(phase = "acquired")
=============================================================================
