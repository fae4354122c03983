---------------------------- MODULE SignalParts ----------------------------
(* What goes between threads, queues, the GPU and the screen, side by      *)
(* side: Fences, AtomicQueue and Semaphores, and the swap chains; with     *)
(* what is asked of them: checked by MCLiveness, proved in SignalsProofs.  *)

CONSTANTS
  Backend,
  Waiter, Limited, MaxValue,                    \* of Fences
  Producer, Consumer, Hasty, Item, MaxLength,   \* of AtomicQueue
  Queue, Semaphore, MaxSubmits,                 \* of Semaphores
  BufferCount, FramesToRun, Habits,             \* of VulkanPresentation
  BackBuffers, Blits, MaxSlots,                 \* of D3DPresentation
  Surface, Info, Width, MaxImages               \* of VulkanSurface

VARIABLES
  fenceBackend, value, signals, requests, event, waitPhase, wanted, answer, disturbed,
  deque, waitReady, holder, threadPhase,
  submitBackend, counter, reached, stream, count, signaller, waiter, needs, ran,
  acquireIndex, chainImageIndex, isAcquireSuccess, presenting, acquired, finished,
  chainPhase, work, presents, image, chainDrawn, outOfDate,
  waitable, queued, shown, swapDrawn, current, swapImageIndex, swapPhase, window, wrapped, slots,
  surface, size, settled, swapChainInfo, support, info, format, presentMode, vkSwapchain,
  semaphores, extra, surfaceStep

Fence == INSTANCE Fences WITH
  Thread <- Waiter, backend <- fenceBackend, phase <- waitPhase
Messages == INSTANCE AtomicQueue WITH phase <- threadPhase
Sems == INSTANCE Semaphores WITH backend <- submitBackend, current <- counter
Chain == INSTANCE VulkanPresentation WITH
  FramesInFlight <- FramesToRun, imageIndex <- chainImageIndex, phase <- chainPhase,
  drawn <- chainDrawn
Swap == INSTANCE D3DPresentation WITH
  BufferCount <- BackBuffers, drawn <- swapDrawn, imageIndex <- swapImageIndex,
  phase <- swapPhase
Surfaces == INSTANCE VulkanSurface WITH
  wish <- swapChainInfo, chain <- vkSwapchain, step <- surfaceStep

-----------------------------------------------------------------------------
(* AtomicQueue: what is pushed is known of, and sleepers are woken for it. *)
(* Semaphores: work runs after what it was submitted to wait for. Fences:  *)
(* a wait that returns true has seen its value, on Direct3D as long as     *)
(* none has timed out and one thread waits at a time.                      *)
SignalsMeanWhatTheySay ==
  Messages!NoWakeUpIsLost /\ Sems!RunsAfterItsSignal /\ Fence!ReachedUnlessDisturbed

(* VulkanPresentation: an acquisition has a semaphore nobody waits for,    *)
(* every wait for a semaphore has one signal, and what is on the screen is *)
(* finished.  D3DPresentation: the waitable object, a frame in the         *)
(* renderer and a frame to be shown are one token, and the renderer draws  *)
(* to the buffer DXGI will present.  VulkanSurface: the swap chain is one  *)
(* the surface can have, fits the window it was last made for, is what the *)
(* interface tells, and has a semaphore for each of its images.            *)
SwapChainsFit ==
  /\ Chain!EnoughSemaphores /\ Chain!SemaphoresPair /\ Chain!ShowsWhatWasDrawn
  /\ Swap!OneFrameAhead /\ Swap!DrawsToTheCurrent
  /\ Surfaces!FitsTheSurface /\ Surfaces!InfoIsTrue /\ Surfaces!SemaphoresSuffice
=============================================================================
