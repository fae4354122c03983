----------------------------- MODULE Semaphores -----------------------------
(***************************************************************************)
(* The semaphores given to SubmitQueue (Device.cpp and Sync of both        *)
(* backends).  Vulkan has binary semaphores: a wait takes the signal away. *)
(* Direct3D has fences that count up, so D3DSemaphore numbers its signals, *)
(* and a wait is for the number last given: it is right only if calls come *)
(* in the order the application means them.                                *)
(*                                                                         *)
(* As the interface asks, a semaphore is waited for once, by a submission  *)
(* after the one that signals it, and is signalled again when what waited  *)
(* for it has run, as the frames in flight of an application have.         *)
(***************************************************************************)
EXTENDS Naturals, Sequences

CONSTANTS
  Backend,    \* "vulkan", "d3d"
  Queue, Semaphore,
  MaxSubmits  \* submissions in a behaviour

VARIABLES
  backend,    \* the one that runs
  current,    \* D3DSemaphore::mCurrentValue
  reached,    \* the value of the ID3D12Fence, or how many signals a VkSemaphore holds
  stream,     \* what each queue of the driver has still to do, in order
  count,      \* submissions so far, which are numbered
  signaller,  \* the submission that signals a semaphore last, 0 for none
  waiter,     \* the submission that waits for that signal, 0 for none
  needs,      \* the submission each submission is to run after, 0 for none
  ran         \* submissions whose work has run

vars == <<backend, current, reached, stream, count, signaller, waiter, needs, ran>>

None == "none"
Submission == 1 .. MaxSubmits
Step == [do : {"wait", "signal"}, semaphore : Semaphore, value : 0 .. MaxSubmits]
          \cup [do : {"work"}, of : Submission]

TypeOK ==
  /\ backend \in Backend /\ count \in 0 .. MaxSubmits
  /\ current \in [Semaphore -> 0 .. MaxSubmits]
  /\ reached \in [Semaphore -> 0 .. MaxSubmits]
  /\ stream \in [Queue -> Seq(Step)]
  /\ signaller \in [Semaphore -> 0 .. MaxSubmits]
  /\ waiter \in [Semaphore -> 0 .. MaxSubmits]
  /\ needs \in [Submission -> 0 .. MaxSubmits] /\ ran \subseteq Submission

Init ==
  /\ backend \in Backend /\ count = 0 /\ ran = {}
  /\ current = [s \in Semaphore |-> 0] /\ reached = [s \in Semaphore |-> 0]
  /\ stream = [q \in Queue |-> <<>>]
  /\ signaller = [s \in Semaphore |-> 0] /\ waiter = [s \in Semaphore |-> 0]
  /\ needs = [n \in Submission |-> 0]

MayWait(s) == signaller[s] # 0 /\ waiter[s] = 0
MaySignal(s) == signaller[s] = 0 \/ waiter[s] \in ran

(* D3DSemaphore::Signal gives the next number. *)
Signal(s) == [do |-> "signal", semaphore |-> s, value |-> current[s] + 1]

(* A mistake: the number is counted up by whoever waits for it. *)
WaitForNext(s) == [do |-> "wait", semaphore |-> s, value |-> current[s] + 1]
(* A mistake: any signal will do. *)
WaitForAny(s) == [do |-> "wait", semaphore |-> s, value |-> IF current[s] > 0 THEN 1 ELSE 0]
(* D3DSemaphore::Wait is for the last number given. *)
Wait(s) == [do |-> "wait", semaphore |-> s, value |-> current[s]]

If(s, step) == IF s = None THEN <<>> ELSE <<step>>
(* A mistake: the submission is signalled before it is executed. *)
SignalFirst(n, w, s) == If(w, Wait(w)) \o If(s, Signal(s)) \o <<[do |-> "work", of |-> n]>>
(* The calls of SubmitQueue on the queue of the driver; a VkSubmitInfo2    *)
(* means the same.                                                         *)
Calls(n, w, s) == If(w, Wait(w)) \o <<[do |-> "work", of |-> n]>> \o If(s, Signal(s))

(* A submission to q that waits for w and signals s, if they are not None; *)
(* one that has to do with no semaphore is left out.                       *)
SubmitQueue(q, w, s) ==
  LET n == count + 1
  IN /\ count < MaxSubmits
     /\ {w, s} # {None}
     /\ w # None => MayWait(w)
     /\ s # None => MaySignal(s)
     /\ count' = n
     /\ stream' = [stream EXCEPT ![q] = @ \o Calls(n, w, s)]
     /\ current' = [t \in Semaphore |-> IF t = s THEN current[t] + 1 ELSE current[t]]
     /\ needs' = [needs EXCEPT ![n] = IF w = None THEN 0 ELSE signaller[w]]
     /\ signaller' = [t \in Semaphore |-> IF t = s THEN n ELSE signaller[t]]
     /\ waiter' = [t \in Semaphore |-> CASE t = s -> 0
                                         [] t = w -> n
                                         [] OTHER -> waiter[t]]
     /\ UNCHANGED <<backend, reached, ran>>

Passes(step) ==
  IF backend = "d3d" THEN reached[step.semaphore] >= step.value
  ELSE reached[step.semaphore] > 0

(* External: a queue of the driver takes its next step. *)
Advance(q) ==
  /\ stream[q] # <<>>
  /\ LET step == Head(stream[q])
     IN CASE step.do = "work" -> ran' = ran \cup {step.of} /\ UNCHANGED reached
          [] step.do = "wait" ->
               /\ Passes(step)
               /\ reached' = IF backend = "d3d" THEN reached
                             ELSE [reached EXCEPT ![step.semaphore] = @ - 1]
               /\ UNCHANGED ran
          [] step.do = "signal" ->
               /\ reached' = [reached EXCEPT ![step.semaphore] =
                                IF backend = "d3d" THEN step.value ELSE @ + 1]
               /\ UNCHANGED ran
  /\ stream' = [stream EXCEPT ![q] = Tail(@)]
  /\ UNCHANGED <<backend, current, count, signaller, waiter, needs>>

Next ==
  \/ \E q \in Queue, w, s \in Semaphore \cup {None} : SubmitQueue(q, w, s)
  \/ \E q \in Queue : Advance(q)

Spec == Init /\ [][Next]_vars
Fairness == \A q \in Queue : WF_vars(Advance(q))

-----------------------------------------------------------------------------

(* Work runs after the work whose signal it was submitted to wait for, on  *)
(* whichever queue, although a semaphore is used again and again; and a    *)
(* binary semaphore never has two signals at once.                         *)
RunsAfterItsSignal ==
  /\ \A n \in ran : needs[n] # 0 => needs[n] \in ran
  /\ backend = "vulkan" => \A s \in Semaphore : reached[s] <= 1

(* Every submission runs: no queue waits for a signal that is not to come. *)
SubmissionsRun == \A n \in Submission : count >= n ~> n \in ran
=============================================================================
