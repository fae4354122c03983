-------------------------- MODULE ResourceLifetime --------------------------
(***************************************************************************)
(* What IDevice promises about the life of a GPU resource, with no queues, *)
(* timelines or collector in it: a resource may be condemned by a deferred *)
(* destruction while it is still in use, the use may even go on after the  *)
(* request, and the resource is destroyed only once nothing uses it and    *)
(* everything placed in it is gone.  Every backend is to implement this.   *)
(***************************************************************************)
EXTENDS Naturals

CONSTANTS
  Resource,  \* the resources of the device: buffers, images, memory blocks
  Members    \* Members[r]: the resources placed in memory block r

VARIABLES
  status,    \* status[r]: "live", "condemned" or "destroyed"
  busy       \* the resources used by recorded or unfinished GPU work

vars == <<status, busy>>

TypeOK ==
  /\ status \in [Resource -> {"live", "condemned", "destroyed"}]
  /\ busy \subseteq Resource

Init ==
  /\ status = [r \in Resource |-> "live"]
  /\ busy = {}

-----------------------------------------------------------------------------

(* A command list or a submission starts to use resource r. *)
Use(r) ==
  /\ status[r] # "destroyed"
  /\ busy' = busy \cup {r}
  /\ UNCHANGED status

(* Some GPU work ends, and with it the uses it was the last to make. *)
Finish ==
  /\ busy' \in SUBSET busy
  /\ UNCHANGED status

(* Destroy*(r, bDefer = true), or a command list that gives up what it made*)
(* for itself: they are in use, perhaps, and go on being so.               *)
Condemn(rs) ==
  /\ \A r \in rs : status[r] = "live"
  /\ status' = [r \in Resource |-> IF r \in rs THEN "condemned" ELSE status[r]]
  /\ UNCHANGED busy

(* The object behind r is released. *)
Destroy(r) ==
  /\ status[r] # "destroyed"
  /\ r \notin busy
  /\ \A m \in Members[r] : status[m] = "destroyed"
  /\ status' = [status EXCEPT ![r] = "destroyed"]
  /\ UNCHANGED busy

Next ==
  \/ Finish
  \/ \E r \in Resource : Use(r) \/ Destroy(r)
  \/ \E rs \in SUBSET Resource : Condemn(rs)

Spec == Init /\ [][Next]_vars

-----------------------------------------------------------------------------

(* Nothing destroyed is in use.  The promise of the bDefer comments of     *)
(* IDevice.hpp: the object goes away only after the submits are completed. *)
NoUseAfterDestroy == \A r \in busy : status[r] # "destroyed"

(* A condemned resource is destroyed in the end: deferred destruction does *)
(* not accumulate garbage for ever.                                        *)
CondemnedIsDestroyed ==
  \A r \in Resource : status[r] = "condemned" ~> status[r] = "destroyed"
=============================================================================
