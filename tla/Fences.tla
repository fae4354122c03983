------------------------------- MODULE Fences -------------------------------
(***************************************************************************)
(* The fences the CPU waits for (Sync.cpp of both backends): numbers that  *)
(* submissions, or SetValue, make larger.                                  *)
(*                                                                         *)
(* Vulkan has the wait itself.  D3DFence has one event, made with the      *)
(* fence, which is reset by whoever it wakes: WaitForValue looks at the    *)
(* value, asks for the event to be set when the fence gets there, and      *)
(* waits for the event.  Nothing takes the request back when a wait times  *)
(* out, and nothing looks at the value again.                              *)
(***************************************************************************)
EXTENDS Integers, Sequences

CONSTANTS
  Backend,  \* "vulkan", "d3d"
  Thread,   \* threads that wait
  Limited,  \* those that give a timeout
  MaxValue  \* bounds the values of the fence

VARIABLES
  backend,   \* the one that runs
  value,     \* the value of the ID3D12Fence, or of the timeline VkSemaphore
  signals,   \* values of submissions that have not come to their signal, in order
  requests,  \* values mEvent is to be set at
  event,     \* mEvent is set
  phase,     \* where each thread is in WaitForValue
  wanted,    \* the value each thread waits for, or waited for last
  answer,    \* what its last wait returned
  disturbed  \* a wait has timed out, or two have gone on at once

vars == <<backend, value, signals, requests, event, phase, wanted, answer, disturbed>>

Value == 1 .. MaxValue
TypeOK ==
  /\ backend \in Backend
  /\ value \in 0 .. MaxValue /\ signals \in Seq(Value)
  /\ requests \subseteq Value /\ event \in BOOLEAN
  /\ phase \in [Thread -> {"idle", "below", "waiting"}]
  /\ wanted \in [Thread -> 0 .. MaxValue]
  /\ answer \in [Thread -> BOOLEAN] /\ disturbed \in BOOLEAN

Init ==
  /\ backend \in Backend
  /\ value = 0 /\ signals = <<>> /\ requests = {} /\ event = FALSE
  /\ phase = [t \in Thread |-> "idle"] /\ wanted = [t \in Thread |-> 0]
  /\ answer = [t \in Thread |-> FALSE] /\ disturbed = FALSE

Last == IF signals = <<>> THEN value ELSE signals[Len(signals)]

(* signalFences of a submission; values grow, as a timeline's have to.     *)
SubmitQueue(v) ==
  /\ v > Last
  /\ signals' = Append(signals, v)
  /\ UNCHANGED <<backend, value, requests, event, phase, wanted, answer, disturbed>>

Due(v) == {r \in requests : r <= v}
Set(v) ==
  /\ value' = v
  /\ requests' = requests \ Due(v)
  /\ event' = (event \/ Due(v) # {})

SetValue(v) ==
  /\ value < v /\ \A i \in DOMAIN signals : v < signals[i]
  /\ Set(v)
  /\ UNCHANGED <<backend, signals, phase, wanted, answer, disturbed>>

(* External: the GPU comes to the signal. *)
Signal ==
  /\ signals # <<>>
  /\ signals' = Tail(signals)
  /\ Set(Head(signals))
  /\ UNCHANGED <<backend, phase, wanted, answer, disturbed>>

(* The call, and on Direct3D its look at the value. *)
WaitForValue(t, v) ==
  /\ phase[t] = "idle"
  /\ wanted' = [wanted EXCEPT ![t] = v]
  /\ IF backend = "d3d" /\ value >= v
     THEN answer' = [answer EXCEPT ![t] = TRUE] /\ UNCHANGED <<phase, disturbed>>
     ELSE /\ phase' = [phase EXCEPT ![t] = IF backend = "d3d" THEN "below" ELSE "waiting"]
          /\ answer' = [answer EXCEPT ![t] = FALSE]
          /\ disturbed' = (disturbed \/ \E o \in Thread \ {t} : phase[o] # "idle")
  /\ UNCHANGED <<backend, value, signals, requests, event>>

(* A mistake: the event is asked for at the value after. *)
AskForMore(t) ==
  /\ phase[t] = "below"
  /\ IF value > wanted[t] THEN event' = TRUE /\ UNCHANGED requests
     ELSE requests' = requests \cup ({wanted[t] + 1} \cap Value) /\ UNCHANGED event
  /\ phase' = [phase EXCEPT ![t] = "waiting"]
  /\ UNCHANGED <<backend, value, signals, wanted, answer, disturbed>>

SetEventOnCompletion(t) ==
  /\ phase[t] = "below"
  /\ IF value >= wanted[t] THEN event' = TRUE /\ UNCHANGED requests
     ELSE requests' = requests \cup {wanted[t]} /\ UNCHANGED event
  /\ phase' = [phase EXCEPT ![t] = "waiting"]
  /\ UNCHANGED <<backend, value, signals, wanted, answer, disturbed>>

Return(t, result) ==
  /\ phase' = [phase EXCEPT ![t] = "idle"]
  /\ answer' = [answer EXCEPT ![t] = result]

(* A mistake: the event stays set, as one that is reset by hand. *)
KeepTheEvent(t) ==
  /\ phase[t] = "waiting"
  /\ IF backend = "d3d" THEN event ELSE value >= wanted[t]
  /\ Return(t, TRUE)
  /\ UNCHANGED <<backend, value, signals, requests, event, wanted, disturbed>>

WakeUp(t) ==
  /\ phase[t] = "waiting"
  /\ IF backend = "d3d" THEN event ELSE value >= wanted[t]
  /\ event' = FALSE
  /\ Return(t, TRUE)
  /\ UNCHANGED <<backend, value, signals, requests, wanted, disturbed>>

TimeOut(t) ==
  /\ phase[t] = "waiting" /\ t \in Limited
  /\ IF backend = "d3d" THEN ~event ELSE value < wanted[t]
  /\ Return(t, FALSE)
  /\ disturbed' = TRUE
  /\ UNCHANGED <<backend, value, signals, requests, event, wanted>>

Next ==
  \/ \E v \in Value : SubmitQueue(v) \/ SetValue(v) \/ \E t \in Thread : WaitForValue(t, v)
  \/ Signal
  \/ \E t \in Thread : SetEventOnCompletion(t) \/ WakeUp(t) \/ TimeOut(t)

Spec == Init /\ [][Next]_vars

(* A call goes on, and the GPU comes to what it was given. *)
Fairness == WF_vars(Signal) /\ \A t \in Thread : WF_vars(SetEventOnCompletion(t) \/ WakeUp(t))

-----------------------------------------------------------------------------
Early == {t \in Thread : phase[t] = "idle" /\ answer[t] /\ value < wanted[t]}

(* What IFence says of WaitForValue: it returns true if the fence reached  *)
(* the value.                                                              *)
TrueMeansReached == Early = {}

(* It does as long as no wait has timed out and one thread waits at a      *)
(* time, whatever the values and whenever they are reached: the event is   *)
(* set for the wait it wakes.  On Vulkan it does in any case.              *)
ReachedUnlessDisturbed == Early = {} \/ (backend = "d3d" /\ disturbed)

(* And then no wait sleeps through the value it waits for.                 *)
WaitsEnd ==
  \A t \in Thread :
    phase[t] # "idle" /\ value >= wanted[t] ~>
      phase[t] = "idle" \/ (backend = "d3d" /\ disturbed)
=============================================================================
