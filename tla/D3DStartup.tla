------------------------------- MODULE D3DStartup -------------------------------
(***************************************************************************)
(* How the DX12 backend chooses an adapter and makes and drops its device  *)
(* (src/RHIDX12/D3DContext.cpp; the constructor and the destructor of      *)
(* Api/Device.cpp).  GetHardwareAdapter is a loop over the adapters inside *)
(* a loop that forgets the index it was asked for.                         *)
(*                                                                         *)
(* External: DXGI, which lists the adapters in one order, or by their      *)
(* power in another, and knows both only where its interface is new.  A    *)
(* fatal error ends the program.  One device is made at a time: the        *)
(* context remembers the last one only.                                    *)
(***************************************************************************)
EXTENDS Integers, Sequences, FiniteSets

CONSTANTS
  Adapter,     \* the adapters a machine may have
  Wish,        \* what the caller may ask for: an index from 0, or Auto
  MaxDevices   \* devices a context makes, one after the other

VARIABLES
  list,        \* the adapters as DXGI lists them
  byPower,     \* the same, the most powerful first
  supports,    \* adapters that can make a D3D12 device
  newInterface,\* IDXGIFactory6 is there
  warp,        \* bWarpDriver
  step,        \* "up", "preferring", "listing", "found", "device", "down", "failed"
  wish,        \* createInfo.deviceIndex of the last call
  deviceIndex, \* the parameter, as GetHardwareAdapter has left it
  adapterIndex,\* of the inner loop
  adapter,     \* the adapter in hand, or NoAdapter
  made         \* devices made so far

machine == <<list, byPower, supports, newInterface, warp>>
search == <<wish, deviceIndex, adapterIndex, adapter>>
vars == <<machine, step, search, made>>

Auto == -1
NoAdapter == "none"
Warp == "warp"

Orders == {o \in [1 .. Cardinality(Adapter) -> Adapter] : \A j, k \in DOMAIN o : o[j] = o[k] => j = k}

TypeOK ==
  /\ list \in Orders /\ byPower \in Orders /\ supports \subseteq Adapter
  /\ newInterface \in BOOLEAN /\ warp \in BOOLEAN
  /\ step \in {"up", "preferring", "listing", "found", "device", "down", "failed"}
  /\ wish \in Wish /\ deviceIndex \in {Auto, wish}
  /\ adapterIndex \in 0 .. Len(list)
  /\ adapter \in Adapter \cup {NoAdapter, Warp}
  /\ made \in 0 .. MaxDevices

Init ==
  /\ list \in Orders /\ byPower \in Orders /\ supports \in SUBSET Adapter
  /\ newInterface \in BOOLEAN /\ warp \in BOOLEAN
  /\ step = "up"
  /\ wish = Auto /\ deviceIndex = Auto /\ adapterIndex = 0 /\ adapter = NoAdapter
  /\ made = 0

(* EnumAdapterByGpuPreference asks for the powerful first unless an index  *)
(* is looked for; EnumAdapters1 has one order.                             *)
Listed == IF step = "preferring" /\ deviceIndex = Auto THEN byPower ELSE list

-----------------------------------------------------------------------------
CreateDevice(w) ==
  /\ step \in {"up", "device"} /\ made < MaxDevices
  /\ wish' = w /\ deviceIndex' = w /\ adapterIndex' = 0
  /\ adapter' = IF warp THEN Warp ELSE NoAdapter
  /\ step' = IF warp THEN "found" ELSE IF newInterface THEN "preferring" ELSE "listing"
  /\ UNCHANGED <<machine, made>>

Skipped == step = "preferring" /\ deviceIndex # Auto /\ deviceIndex # adapterIndex

(* A mistake: the index is counted from one. *)
TryFromOne ==
  /\ step \in {"preferring", "listing"} /\ adapterIndex < Len(list)
  /\ adapter' = Listed[adapterIndex + 1]
  /\ IF ~(step = "preferring" /\ deviceIndex # Auto /\ deviceIndex # adapterIndex + 1) /\ adapter' \in supports
     THEN step' = "found" /\ UNCHANGED adapterIndex
     ELSE adapterIndex' = adapterIndex + 1 /\ UNCHANGED step
  /\ UNCHANGED <<machine, wish, deviceIndex, made>>

(* One round of the inner loop, in either list. *)
TryAdapter ==
  /\ step \in {"preferring", "listing"} /\ adapterIndex < Len(list)
  /\ adapter' = Listed[adapterIndex + 1]
  /\ IF ~Skipped /\ adapter' \in supports
     THEN step' = "found" /\ UNCHANGED adapterIndex
     ELSE adapterIndex' = adapterIndex + 1 /\ UNCHANGED step
  /\ UNCHANGED <<machine, wish, deviceIndex, made>>

(* A mistake: the list is gone through again for the same index. *)
SearchTheSame ==
  /\ step = "preferring" /\ adapterIndex = Len(list)
  /\ adapter' = NoAdapter
  /\ adapterIndex' = 0
  /\ UNCHANGED <<machine, step, wish, deviceIndex, made>>

(* The list has no more: the smart pointer is empty again and the outer    *)
(* loop goes on, for any adapter.                                          *)
SearchAgain ==
  /\ step = "preferring" /\ adapterIndex = Len(list)
  /\ adapter' = NoAdapter
  /\ deviceIndex' = Auto /\ adapterIndex' = 0
  /\ UNCHANGED <<machine, step, wish, made>>

(* The plain list has no more: a fatal error. *)
NothingListed ==
  /\ step = "listing" /\ adapterIndex = Len(list)
  /\ step' = "failed" /\ adapter' = NoAdapter
  /\ UNCHANGED <<machine, wish, deviceIndex, adapterIndex, made>>

(* D3D12CreateDevice and the constructor of D3DDevice. *)
MakeDevice ==
  /\ step = "found"
  /\ step' = "device" /\ made' = made + 1
  /\ UNCHANGED <<machine, search>>

(* ~D3DContext, with the device. *)
DestroyContext ==
  /\ step \in {"up", "device"}
  /\ step' = "down"
  /\ UNCHANGED <<machine, search, made>>

Search == TryAdapter \/ SearchAgain \/ NothingListed
Next == (\E w \in Wish : CreateDevice(w)) \/ Search \/ MakeDevice \/ DestroyContext
Spec == Init /\ [][Next]_vars
FairSpec == Spec /\ WF_vars(Search)

-----------------------------------------------------------------------------
(* Properties *)

InHand == step \in {"found", "device"} /\ ~warp
Best(order) == {a \in supports : \E k \in DOMAIN order : order[k] = a /\ \A j \in 1 .. k - 1 : order[j] \notin supports}

(* The adapter a device is made from can make one; it is the adapter asked *)
(* for where DXGI can say so and that one can; otherwise the most powerful *)
(* that can, or, of an old DXGI, the first (GetHardwareAdapter).           *)
PicksAsAsked ==
  InHand =>
    /\ adapter \in supports
    /\ (newInterface /\ wish + 1 \in DOMAIN list /\ list[wish + 1] \in supports) => adapter = list[wish + 1]
    /\ (newInterface /\ wish = Auto) => adapter \in Best(byPower)
    /\ ~newInterface => adapter \in Best(list)

(* The search ends wherever some adapter can make a device; where none can *)
(* the loop of the new interface goes round for ever.                      *)
SearchEnds == (step \in {"preferring", "listing"} /\ supports # {}) ~> (step = "found")
=============================================================================
