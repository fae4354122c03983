---------------------------- MODULE HandleTable ----------------------------
(***************************************************************************)
(* What the tables behind the handles of the public interface promise:     *)
(* handles are an index and a version, and an index is in the hands of one *)
(* handle at a time.  The slots of both backends are to implement this.    *)
(***************************************************************************)
EXTENDS Naturals

CONSTANT Id     \* the handles, records with an index

VARIABLE held   \* the handles that stand for something

Init == held = {}

(* A handle is given out: nothing else is held at its index. *)
Acquire(id) ==
  /\ \A h \in held : h.index # id.index
  /\ held' = held \cup {id}

Release(id) ==
  /\ id \in held
  /\ held' = held \ {id}

(* A step changes what is held, by one handle; the first conjunct follows  *)
(* from the second, and spares TLC the search where nothing changes.       *)
Next ==
  /\ held' # held
  /\ \E id \in Id : Acquire(id) \/ Release(id)

Spec == Init /\ [][Next]_held
=============================================================================
