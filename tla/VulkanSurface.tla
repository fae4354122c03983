---------------------------- MODULE VulkanSurface ----------------------------
(***************************************************************************)
(* What the Vulkan swap chain is made for (src/RHIVulkan/Api/SwapChain.cpp *)
(* and GetSwapChainSupport of Device.cpp): the surface is asked what it    *)
(* can do, and the swap chain is made within that, again at each Resize.   *)
(* VulkanPresentation takes over from there.                               *)
(*                                                                         *)
(* External: the surface.  That of a window has exactly the size of the    *)
(* window, which the user may change at any time; a headless one has no    *)
(* size, only limits.  The driver may make more images than it is asked    *)
(* for, never more than the limit of the surface.  Sizes are one number.   *)
(***************************************************************************)
EXTENDS Integers, Sequences, SequencesExt, FiniteSetsExt

CONSTANTS
  Surface,  \* [window, minImageCount, maxImageCount (0: any), alphas, formats, presentModes]
  Info,     \* SwapChainInfo: [format, alphaMode, presentMode, bufferCount, extent]
  Width,    \* of windows
  MaxImages \* bounds the images of a swap chain

VARIABLES
  surface,     \* the one the swap chain is for
  size,        \* currentExtent
  settled,     \* it is the same since the last Resize, or the constructor, began
  wish,        \* the SwapChainInfo it was created with
  support,     \* mSupportInfo
  info,        \* bufferCount, extent and alphaMode of mInfo
  format,      \* mFormat
  presentMode, \* mPresentMode
  chain,       \* the VkSwapchainKHR
  semaphores,  \* of each kind
  extra,       \* images that were not asked for, in all since there are semaphores
  step         \* where the swap chain is in its constructor or in Resize

vars == <<surface, size, settled, wish, support, info, format, presentMode, chain,
          semaphores, extra, step>>

NoFormat == "VK_FORMAT_UNDEFINED"
NoChain == [asked |-> 0, images |-> 0, extent |-> 0, format |-> NoFormat,
            alpha |-> "none", mode |-> "vsync"]
Unset == 99     \* no size of its own: 0xFFFFFFFF
AnyCount == 98  \* UINT32_MAX
Modes == {"tearing", "latency", "vsync", "adaptive"}

(* GetSwapChainSupport, when the queue that presents can present to it.    *)
SupportNow ==
  [minImageCount |-> surface.minImageCount,
   maxImageCount |-> IF surface.maxImageCount = 0 THEN AnyCount ELSE surface.maxImageCount,
   currentExtent |-> size,
   minExtent |-> IF surface.window THEN size ELSE Min(Width),
   maxExtent |-> IF surface.window THEN size ELSE Max(Width),
   formats |-> surface.formats, presentModes |-> surface.presentModes, alphas |-> surface.alphas]

TypeOK ==
  /\ surface \in Surface /\ size \in Width \cup {Unset} /\ wish \in Info
  /\ info.bufferCount \in Nat /\ info.extent \in Width \cup {Unset}
  /\ presentMode \in Modes
  /\ step \in {"new", "asked", "made", "unusable"}

Init ==
  /\ surface \in Surface /\ wish \in Info
  /\ size \in IF surface.window THEN Width ELSE {Unset}
  /\ support = SupportNow /\ info = wish
  /\ format = NoFormat /\ presentMode = "tearing" /\ chain = NoChain
  /\ semaphores = 0 /\ extra = 0 /\ settled = TRUE /\ step = "new"

(* What there is of each SwapChainFormat, with its colour space. *)
Suits(f) ==
  CASE f = "unorm8" -> {"bgra8", "rgba8"}
    [] f = "srgb8" -> {"bgra8srgb", "rgba8srgb"}
    [] f = "unorm10" -> {"a2rgb10"}
    [] f = "float16" -> {"rgba16hdr"}

(* A mistake: low latency is taken for tearing if it is not there. *)
FallBack(mode, offered) ==
  IF mode \in offered THEN mode ELSE IF mode = "latency" THEN "tearing" ELSE "vsync"
(* TrySetPresentMode *)
TryPresentMode(mode, offered) ==
  IF mode \in offered THEN mode
  ELSE IF mode = "latency" /\ "tearing" \in offered THEN "tearing" ELSE "vsync"

(* The constructor, to where the swap chain is made: the first format that *)
(* suits, in the order of the surface.                                     *)
Construct ==
  /\ step = "new"
  /\ support' = SupportNow
  /\ LET fit == {i \in DOMAIN surface.formats : surface.formats[i] \in Suits(wish.format)}
     IN IF fit = {} THEN step' = "unusable" /\ UNCHANGED <<format, presentMode>>
        ELSE /\ format' = surface.formats[Min(fit)]
             /\ presentMode' = TryPresentMode(wish.presentMode, surface.presentModes)
             /\ step' = "asked"
  /\ UNCHANGED <<surface, size, wish, info, chain, semaphores, extra>>
  /\ settled' = TRUE

Clamp(x, low, high) == IF x < low THEN low ELSE IF x > high THEN high ELSE x

(* A mistake: one semaphore for each buffer that was asked for. *)
SemaphoresAsked(images) == wish.bufferCount
(* CreateSync: one of each kind for each image. *)
SemaphoresFor(images) == images

CreateSwapChain ==
  /\ step = "asked"
  /\ LET asked == Clamp(info.bufferCount, support.minImageCount, support.maxImageCount)
         extent == Clamp(info.extent, support.minExtent, support.maxExtent)
         alpha == IF info.alphaMode \in support.alphas THEN info.alphaMode ELSE "none"
     IN \E images \in asked .. Clamp(MaxImages, asked, support.maxImageCount) :
          /\ chain' = [asked |-> asked, images |-> images, extent |-> extent,
                       format |-> format, alpha |-> alpha, mode |-> presentMode]
          /\ info' = [info EXCEPT !.bufferCount = images, !.extent = extent, !.alphaMode = alpha]
          /\ semaphores' = IF semaphores = 0 THEN SemaphoresFor(images) ELSE semaphores
          /\ extra' = IF semaphores = 0 THEN 0 ELSE extra + images - asked
  /\ step' = "made"
  /\ UNCHANGED <<surface, size, settled, wish, support, format, presentMode>>

(* A mistake: the surface is not asked again. *)
ResizeAsBefore ==
  /\ step = "made"
  /\ info' = [info EXCEPT !.extent = size]
  /\ step' = "asked"
  /\ UNCHANGED <<surface, size, wish, support, format, presentMode, chain, semaphores, extra>>
  /\ settled' = TRUE

(* Resize, to where the swap chain is made anew.                           *)
Resize ==
  /\ step = "made"
  /\ support' = SupportNow
  /\ info' = [info EXCEPT !.extent = SupportNow.currentExtent]
  /\ step' = "asked"
  /\ UNCHANGED <<surface, size, wish, format, presentMode, chain, semaphores, extra>>
  /\ settled' = TRUE

(* It is for the swap chain that is made next. *)
SetPresentMode(mode) ==
  /\ step = "made"
  /\ presentMode' = TryPresentMode(mode, support.presentModes)
  /\ UNCHANGED <<surface, size, settled, wish, support, info, format, chain, semaphores, extra, step>>

(* External: the user changes the window. *)
WindowChanges(w) ==
  /\ surface.window /\ size' = w /\ settled' = (settled /\ w = size)
  /\ UNCHANGED <<surface, wish, support, info, format, presentMode, chain, semaphores, extra, step>>

Next ==
  \/ Construct \/ CreateSwapChain \/ Resize
  \/ \E m \in Modes : SetPresentMode(m)
  \/ \E w \in Width : WindowChanges(w)

Spec == Init /\ [][Next]_vars

-----------------------------------------------------------------------------
Exists == step = "made"

(* The swap chain is one the surface can have, in the format family that   *)
(* was asked for, and has the size of the window, unless that has changed  *)
(* since the Resize or the constructor began.                              *)
FitsTheSurface == Exists =>
  /\ chain.asked \in support.minImageCount .. support.maxImageCount
  /\ chain.extent \in support.minExtent .. support.maxExtent
  /\ surface.window /\ settled => chain.extent = size
  /\ chain.format \in ToSet(surface.formats) \cap Suits(wish.format)
  /\ chain.mode \in surface.presentModes /\ chain.alpha \in surface.alphas \cup {"none"}

(* What the interface tells of the swap chain is what was made, and the    *)
(* alpha is what was asked for if the surface can have it.                 *)
InfoIsTrue == Exists =>
  /\ info.bufferCount = chain.images /\ info.extent = chain.extent /\ info.alphaMode = chain.alpha
  /\ wish.alphaMode \in surface.alphas => chain.alpha = wish.alphaMode

(* There are semaphores for every image, though they are made only once,   *)
(* as long as the driver makes no more images at a Resize than it is asked *)
(* for: the surface still has the limits the first swap chain was made in. *)
(* When it does, AcquireNextImage comes to count beyond the semaphores.    *)
SemaphoresSuffice == Exists =>
  /\ chain.images <= semaphores + extra
  /\ semaphores >= Clamp(wish.bufferCount, support.minImageCount, support.maxImageCount)
=============================================================================
