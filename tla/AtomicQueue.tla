---------------------------- MODULE AtomicQueue ----------------------------
(***************************************************************************)
(* AtomicQueue (src/PyroRHI/Common/AtomicQueue.hpp), by which threads hand *)
(* things to others: a deque behind a lock, and a flag behind another lock *)
(* with a condition variable for those who wait for things to come.        *)
(* AtomicVector and AtomicMap wait and notify in the same words.           *)
(*                                                                         *)
(* A consumer takes what there is until TryPop finds nothing, as           *)
(* CollectGarbage does.  mBlockingLock is held for one look at the flag or *)
(* one change of it, so each is one step; notify_one comes after it, while *)
(* mObjectLock is still held.                                              *)
(***************************************************************************)
EXTENDS Naturals, Sequences

CONSTANTS
  Producer, Consumer,  \* threads
  Hasty,               \* the consumers that use WaitFor
  Item, MaxLength      \* bounds what is in the queue at a time

VARIABLES
  deque,      \* mDeque
  waitReady,  \* mWaitReady
  holder,     \* who holds mObjectLock between steps
  phase       \* where each thread is

vars == <<deque, waitReady, holder, phase>>

Nobody == "nobody"
TypeOK ==
  /\ deque \in Seq(Item) /\ Len(deque) <= MaxLength
  /\ waitReady \in BOOLEAN
  /\ holder \in Producer \cup {Nobody}
  /\ \A p \in Producer : phase[p] \in {"idle", "pushed", "ready"}
  /\ \A c \in Consumer : phase[c] \in {"idle", "asleep", "awake", "taking"}

Init ==
  /\ deque = <<>> /\ waitReady = FALSE /\ holder = Nobody
  /\ phase = [t \in Producer \cup Consumer |-> "idle"]

Asleep == {c \in Consumer : phase[c] = "asleep"}

Push(p, x) ==
  /\ phase[p] = "idle" /\ holder = Nobody /\ Len(deque) < MaxLength
  /\ deque' = Append(deque, x)
  /\ holder' = p
  /\ phase' = [phase EXCEPT ![p] = "pushed"]
  /\ UNCHANGED waitReady

(* A mistake: sleepers are notified but nobody is told that it is for a reason. *)
NotifyOnly(p) ==
  /\ phase[p] = "pushed"
  /\ phase' = [phase EXCEPT ![p] = "ready"]
  /\ UNCHANGED <<deque, waitReady, holder>>

(* Notify *)
SetReady(p) ==
  /\ phase[p] = "pushed"
  /\ waitReady' = TRUE
  /\ phase' = [phase EXCEPT ![p] = "ready"]
  /\ UNCHANGED <<deque, holder>>

(* notify_one, and Push returns. *)
NotifyOne(p) ==
  /\ phase[p] = "ready"
  /\ IF Asleep = {} THEN phase' = [phase EXCEPT ![p] = "idle"]
     ELSE \E c \in Asleep : phase' = [phase EXCEPT ![p] = "idle", ![c] = "awake"]
  /\ holder' = Nobody
  /\ UNCHANGED <<deque, waitReady>>

(* A mistake: the flag is not looked at before going to sleep. *)
WaitBlindly(c) ==
  /\ phase' = [phase EXCEPT ![c] = IF waitReady /\ phase[c] = "awake" THEN "taking" ELSE "asleep"]
  /\ waitReady' = (waitReady /\ phase[c] # "awake")
  /\ UNCHANGED <<deque, holder>>

(* The predicate of Wait and WaitFor, with the reset behind it. *)
LookAtFlag(c) ==
  /\ phase' = [phase EXCEPT ![c] = IF waitReady THEN "taking" ELSE "asleep"]
  /\ waitReady' = FALSE
  /\ UNCHANGED <<deque, holder>>

Wait(c) == phase[c] = "idle" /\ LookAtFlag(c)
WakeUp(c) == phase[c] = "awake" /\ LookAtFlag(c)

(* A condition variable may wake who was not notified. *)
WakeSpuriously(c) == phase[c] = "asleep" /\ LookAtFlag(c)

(* The duration of WaitFor is over, whatever the flag says. *)
WaitFor(c) ==
  /\ c \in Hasty /\ phase[c] \in {"asleep", "awake"}
  /\ waitReady' = FALSE
  /\ phase' = [phase EXCEPT ![c] = "taking"]
  /\ UNCHANGED <<deque, holder>>

TryPop(c) ==
  /\ phase[c] = "taking" /\ holder = Nobody
  /\ deque' = IF deque = <<>> THEN deque ELSE Tail(deque)
  /\ phase' = [phase EXCEPT ![c] = IF deque = <<>> THEN "idle" ELSE "taking"]
  /\ UNCHANGED <<waitReady, holder>>

Clear(c) ==
  /\ phase[c] = "idle" /\ holder = Nobody
  /\ deque' = <<>>
  /\ UNCHANGED <<waitReady, holder, phase>>

Next ==
  \/ \E p \in Producer : SetReady(p) \/ NotifyOne(p) \/ \E x \in Item : Push(p, x)
  \/ \E c \in Consumer :
       \/ Wait(c) \/ WakeUp(c) \/ WakeSpuriously(c) \/ WaitFor(c)
       \/ TryPop(c) \/ Clear(c)

Spec == Init /\ [][Next]_vars

(* A call that is not waiting goes on. *)
Goes(t) ==
  IF t \in Producer THEN SetReady(t) \/ NotifyOne(t) ELSE WakeUp(t) \/ TryPop(t)
Fairness == \A t \in Producer \cup Consumer : WF_vars(Goes(t))

-----------------------------------------------------------------------------

(* Once Push has returned, what it brought is known of: the flag is up or  *)
(* some consumer is taking.  And when the flag is up while others sleep,   *)
(* one of them has been woken, or is about to be, although one flag stands *)
(* for any number of notifications and others may take it first.           *)
NoWakeUpIsLost ==
  /\ deque # <<>> /\ holder = Nobody =>
       waitReady \/ \E c \in Consumer : phase[c] = "taking"
  /\ waitReady /\ Asleep # {} =>
       \/ \E c \in Consumer : phase[c] = "awake"
       \/ \E p \in Producer : phase[p] = "ready"

(* A flag that is up while somebody sleeps is taken by somebody.           *)
FlagsAreTaken == waitReady /\ Asleep # {} ~> ~waitReady
=============================================================================
