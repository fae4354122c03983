----------------------------- MODULE VulkanStartup -----------------------------
(***************************************************************************)
(* From CreateRHIContext to DestroyRHIContext in the Vulkan backend: the   *)
(* instance and its extensions, the choice of a physical device, the       *)
(* extensions and queues of a device, and the order in which it all goes   *)
(* (src/RHIVulkan/VkContext.cpp, Entrypoint.cpp, the constructor and the   *)
(* destructor of Api/Device.cpp).                                          *)
(*                                                                         *)
(* External: what the loader and the drivers offer, chosen once.  A fatal  *)
(* error ends the program: the logger that reports it is not in this       *)
(* repository.                                                             *)
(***************************************************************************)
EXTENDS Integers, Sequences, SequencesExt, FiniteSets, FiniteSetsExt

CONSTANTS
  Machine,     \* the lists of physical devices a machine may have, each a record:
               \* suitable, discrete, families (what each queue family can do), optional
  Available,   \* the sets of instance extensions a loader may offer
  DeviceWish,  \* what the caller may ask for: an index from 0, or Auto
  MaxDevices   \* devices a context makes

VARIABLES
  step,        \* "gather", "create", "up", "leaving", "down" or "failed"
  options,     \* VulkanContextArgs
  available,   \* instance extensions the loader offers
  machine,     \* the physical devices, in the driver's order
  trueHeadless,\* bTrueHeadlessInstance, in the end bHeadlessEnabled
  enabled,     \* enabledExtensions
  alive,       \* Vulkan objects that exist
  devices      \* mCreatedDevices

vars == <<step, options, available, machine, trueHeadless, enabled, alive, devices>>

Auto == -1
Instance == 0       \* with the messenger and the devices, by their place, in "alive"
Messenger == -1
Ability == {"graphics", "compute", "transfer"}
Optional == {"address", "structures", "query"}
DeviceExtension == Optional \cup {"swapchain", "push", "deferred"}
NoQueue == 0

TypeOK ==
  /\ step \in {"gather", "create", "up", "leaving", "down", "failed"}
  /\ options \in [validation : BOOLEAN, headless : BOOLEAN, device : DeviceWish]
  /\ available \in Available /\ machine \in Machine
  /\ trueHeadless \in BOOLEAN
  /\ enabled \in Seq({"debug", "headless", "surface", "window"})
  /\ alive \subseteq {Instance, Messenger} \cup (1 .. MaxDevices)
  /\ devices \in Seq([gpu : DOMAIN machine, wish : DeviceWish,
                      queues : Seq([family : Nat, flags : SUBSET Ability]),
                      properties : [count : [Ability -> Nat], compute : BOOLEAN, transfer : BOOLEAN],
                      present : Nat, extensions : SUBSET DeviceExtension])
  /\ Len(devices) <= MaxDevices
  /\ \A d \in DOMAIN devices : devices[d].present \in 0 .. Len(devices[d].queues)

(* CreateRHIContext, up to the constructor. *)
Init ==
  /\ step = "gather"
  /\ options \in [validation : BOOLEAN, headless : BOOLEAN, device : DeviceWish]
  /\ available \in Available /\ machine \in Machine
  /\ trueHeadless = options.headless
  /\ enabled = <<>> /\ alive = {} /\ devices = <<>>

-----------------------------------------------------------------------------
(* The context *)

Explicit == IF options.validation THEN <<"debug">> ELSE <<>>
Implicit == IF trueHeadless THEN <<"headless", "surface">> ELSE <<"surface", "window">>
Gathered == enabled \o Explicit \o SelectSeq(Implicit, LAMBDA e : e \in available)
AllExplicit == ToSet(Explicit) \subseteq available
HeadlessMissing == trueHeadless /\ ~Contains(Gathered, "headless")

MissingExtension ==
  /\ step = "gather" /\ ~AllExplicit
  /\ step' = "failed"
  /\ UNCHANGED <<options, available, machine, trueHeadless, enabled, alive, devices>>

(* A mistake: the next pass asks for the same extensions. *)
GatherForEver ==
  /\ step = "gather" /\ AllExplicit /\ HeadlessMissing
  /\ enabled' = <<>>
  /\ UNCHANGED <<step, options, available, machine, trueHeadless, alive, devices>>

(* goto getInstanceExtensions *)
GatherAgain ==
  /\ step = "gather" /\ AllExplicit /\ HeadlessMissing
  /\ enabled' = <<>>
  /\ trueHeadless' = FALSE
  /\ UNCHANGED <<step, options, available, machine, alive, devices>>

GatherExtensions ==
  /\ step = "gather" /\ AllExplicit /\ ~HeadlessMissing
  /\ enabled' = Gathered
  /\ step' = "create"
  /\ UNCHANGED <<options, available, machine, trueHeadless, alive, devices>>

CreateInstance ==
  /\ step = "create"
  /\ alive' = {Instance} \cup IF options.validation THEN {Messenger} ELSE {}
  /\ step' = "up"
  /\ UNCHANGED <<options, available, machine, trueHeadless, enabled, devices>>

-----------------------------------------------------------------------------
(* A device *)

Suitable == {i \in DOMAIN machine : machine[i].suitable}
SuitableDiscrete == {i \in Suitable : machine[i].discrete}
Preferred(wish) == IF options.device = Auto THEN wish ELSE options.device
InRange(p) == p + 1 \in DOMAIN machine

(* The fallback passes over the devices it found unsuitable and then takes *)
(* the first of all.  An index that names no device was tried on none.     *)
Fallback(p) ==
  IF machine = <<>> \/ (p = Auto /\ Suitable = {}) THEN {} ELSE {1}

(* A mistake: the search goes on and ends with the last one. *)
PickedLast(wish) ==
  LET p == Preferred(wish) IN
  IF p = Auto /\ SuitableDiscrete # {} THEN {Max(SuitableDiscrete)}
  ELSE IF p # Auto /\ InRange(p) THEN {p + 1}
  ELSE Fallback(p)

Picked(wish) ==
  LET p == Preferred(wish) IN
  IF p = Auto /\ SuitableDiscrete # {} THEN {Min(SuitableDiscrete)}
  ELSE IF p # Auto /\ InRange(p) THEN {p + 1}
  ELSE Fallback(p)

(* A mistake: acceleration structures without what they depend on. *)
ExtensionsAlone(gpu) == {"swapchain", "push"} \cup machine[gpu].optional

Extensions(gpu) ==
  {"swapchain", "push"} \cup machine[gpu].optional
    \cup IF "structures" \in machine[gpu].optional THEN {"deferred"} ELSE {}

(* What a queue of a family is said to do; nothing for a family that is ignored. *)
FlagsOf(able) ==
  IF Ability \subseteq able THEN Ability
  ELSE IF {"compute", "transfer"} \subseteq able THEN {"compute", "transfer"}
  ELSE IF "transfer" \in able THEN {"transfer"}
  ELSE {}

(* A mistake: the queues are numbered by their place in the list. *)
QueuesByPlace(gpu) ==
  LET families == machine[gpu].families
      used == SelectSeq(families, LAMBDA able : FlagsOf(able) # {})
  IN [k \in DOMAIN used |-> [family |-> k, flags |-> FlagsOf(used[k])]]

Queues(gpu) ==
  LET families == machine[gpu].families
      used == SelectSeq([k \in DOMAIN families |-> k], LAMBDA k : FlagsOf(families[k]) # {})
  IN [k \in DOMAIN used |-> [family |-> used[k], flags |-> FlagsOf(families[used[k]])]]

(* mPresentQueue: the first that can do everything. *)
PresentQueue(gpu) ==
  LET able == {k \in DOMAIN Queues(gpu) : Queues(gpu)[k].flags = Ability}
  IN IF able = {} THEN NoQueue ELSE Min(able)

Doing(queues, ability) == {k \in DOMAIN queues : ability \in queues[k].flags}

(* A mistake: a compute queue is counted among those for transfer too. *)
DedicatedTwice(queues) ==
  [count |-> [a \in Ability |-> Cardinality(Doing(queues, a))],
   compute |-> Doing(queues, "compute") \ Doing(queues, "graphics") # {},
   transfer |-> Doing(queues, "transfer") \ Doing(queues, "graphics") # {}]

(* The queues as DevicePropertiesInfo has them: how many can do what, and  *)
(* whether there is a dedicated compute or, else, a transfer queue.        *)
PopulateDeviceProperties(queues) ==
  [count |-> [a \in Ability |-> Cardinality(Doing(queues, a))],
   compute |-> Doing(queues, "compute") \ Doing(queues, "graphics") # {},
   transfer |-> Doing(queues, "transfer") \ (Doing(queues, "graphics") \cup Doing(queues, "compute")) # {}]

CreateDevice(wish) ==
  /\ step = "up" /\ Len(devices) < MaxDevices
  /\ \E gpu \in Picked(wish) :
       /\ PresentQueue(gpu) # NoQueue
       /\ devices' = Append(devices, [gpu |-> gpu, wish |-> wish, queues |-> Queues(gpu),
                                      properties |-> PopulateDeviceProperties(Queues(gpu)),
                                      present |-> PresentQueue(gpu), extensions |-> Extensions(gpu)])
       /\ alive' = alive \cup {Len(devices')}
  /\ UNCHANGED <<step, options, available, machine, trueHeadless, enabled>>

(* No device to pick, or none of its queues can present. *)
CreateDeviceFails(wish) ==
  /\ step = "up" /\ Len(devices) < MaxDevices
  /\ \A gpu \in Picked(wish) : PresentQueue(gpu) = NoQueue
  /\ step' = "failed"
  /\ UNCHANGED <<options, available, machine, trueHeadless, enabled, alive, devices>>

-----------------------------------------------------------------------------
(* The end *)

DestroyContext ==
  /\ step = "up"
  /\ step' = "leaving"
  /\ UNCHANGED <<options, available, machine, trueHeadless, enabled, alive, devices>>

DestroyDevice(d) ==
  /\ step = "leaving" /\ d \in alive \ {Instance, Messenger}
  /\ \A e \in alive \ {Instance, Messenger} : d <= e
  /\ alive' = alive \ {d}
  /\ UNCHANGED <<step, options, available, machine, trueHeadless, enabled, devices>>

(* A mistake: the instance goes first. *)
DestroyFromTheInstance ==
  /\ step = "leaving" /\ alive # {}
  /\ alive' = IF Instance \in alive THEN alive \ {Instance, Messenger} ELSE {}
  /\ step' = IF alive' = {} THEN "down" ELSE step
  /\ UNCHANGED <<options, available, machine, trueHeadless, enabled, devices>>

DestroyMessenger ==
  /\ step = "leaving" /\ alive \ {Instance, Messenger} = {}
  /\ Messenger \in alive
  /\ alive' = alive \ {Messenger}
  /\ UNCHANGED <<step, options, available, machine, trueHeadless, enabled, devices>>

DestroyInstance ==
  /\ step = "leaving" /\ alive = {Instance}
  /\ alive' = {}
  /\ step' = "down"
  /\ UNCHANGED <<options, available, machine, trueHeadless, enabled, devices>>

Start == MissingExtension \/ GatherAgain \/ GatherExtensions \/ CreateInstance
Next ==
  \/ Start
  \/ \E wish \in DeviceWish : CreateDevice(wish) \/ CreateDeviceFails(wish)
  \/ DestroyContext
  \/ \E d \in 1 .. MaxDevices : DestroyDevice(d)
  \/ DestroyMessenger \/ DestroyInstance

Spec == Init /\ [][Next]_vars

FairSpec == Spec /\ WF_vars(Start)

-----------------------------------------------------------------------------
(* Properties *)

(* An instance is made with no extension named twice, and a context that   *)
(* says it is headless has the extension that makes its surfaces           *)
(* (VkContext.cpp: the second pass over getInstanceExtensions).            *)
ExtensionsOnce ==
  Instance \in alive =>
    /\ IsInjective(enabled)
    /\ trueHeadless <=> Contains(enabled, "headless")
    /\ options.validation => Contains(enabled, "debug")

(* Left to choose, the context takes the first suitable discrete device of *)
(* a machine that has one; asked for a device of the machine, by the load  *)
(* option or else by the caller, it takes that one (CreateDevice).         *)
PicksWhatWasAsked ==
  \A d \in DOMAIN devices :
    LET p == Preferred(devices[d].wish) IN
    /\ (p = Auto /\ SuitableDiscrete # {}) =>
         devices[d].gpu \in SuitableDiscrete /\ \A i \in SuitableDiscrete : devices[d].gpu <= i
    /\ (p # Auto /\ InRange(p)) => devices[d].gpu = p + 1

(* Each queue of a device is the one of a family that can do all the queue *)
(* is said to do, no family has two, and the one that presents can draw    *)
(* (the loops over queueFamilyPropsCount and queues).                      *)
QueuesFitTheirFamilies ==
  \A d \in DOMAIN devices :
    LET queues == devices[d].queues
        families == machine[devices[d].gpu].families
    IN /\ \A k \in DOMAIN queues :
            queues[k].family \in DOMAIN families /\ queues[k].flags \subseteq families[queues[k].family]
       /\ \A j, k \in DOMAIN queues : queues[j].family = queues[k].family => j = k
       /\ queues[devices[d].present].flags = Ability

(* A device that says it has dedicated queues for compute and for transfer *)
(* has one of each that leaves the queue for graphics alone, and another   *)
(* for each; and there is one at least for everything                      *)
(* (PopulateDeviceProperties; ValidateDeviceCreationImpl.hpp expects it).  *)
DedicatedAreApart ==
  \A d \in DOMAIN devices :
    LET queues == devices[d].queues
        says == devices[d].properties
        apart == {k \in DOMAIN queues : "graphics" \notin queues[k].flags}
    IN /\ \A a \in Ability : says.count[a] >= 1
       /\ says.compute /\ says.transfer =>
            \E j, k \in apart : j # k /\ "compute" \in queues[j].flags /\ "transfer" \in queues[k].flags
       /\ apart # {} => says.compute \/ says.transfer

(* No extension of a device is enabled without those it depends on.        *)
DependenciesEnabled ==
  \A d \in DOMAIN devices :
    LET on == devices[d].extensions IN
    /\ "query" \in on => "structures" \in on
    /\ "structures" \in on => {"address", "deferred"} \subseteq on

(* Nothing outlives what it was made from: a device and the messenger go   *)
(* before the instance, and a context that is gone leaves nothing          *)
(* (~VulkanContext).                                                       *)
NothingOutlivesItsParent ==
  /\ alive # {} => Instance \in alive
  /\ step = "down" => alive = {}

(* The constructor comes to an end: the pass without the headless          *)
(* extension is the last.                                                  *)
ConstructorEnds == <>(step \notin {"gather", "create"})
=============================================================================
