--------------------------- MODULE SignalsProofs ----------------------------
(***************************************************************************)
(* Theorems about what goes between threads, queues, the GPU and the       *)
(* screen: Fences, AtomicQueue and Semaphores, and the swap chains, for    *)
(* any threads, queues, semaphores, items, images and surfaces.  Each has  *)
(* an inductive invariant of its own.                                      *)
(***************************************************************************)
EXTENDS SignalParts, SequenceLemmas

-----------------------------------------------------------------------------
(* Fences *)

(* The signals to come grow, from what the fence has reached.              *)
SignalsGrow ==
  /\ \A i \in 1 .. Len(signals) : value < signals[i]
  /\ \A i, j \in 1 .. Len(signals) : i < j => signals[i] < signals[j]

Calm == fenceBackend = "d3d" => disturbed = FALSE

(* Who is through with a wait and was told so has seen the value.          *)
ToldTheTruth ==
  Calm => \A t \in Waiter : waitPhase[t] = "idle" /\ answer[t] = TRUE => wanted[t] <= value

(* While nothing disturbs them the event and the request are the one       *)
(* waiting thread's: the event is set, or is going to be, at its value.    *)
EventIsTheWaiters ==
  fenceBackend = "d3d" /\ disturbed = FALSE =>
    /\ \A s, t \in Waiter : waitPhase[s] # "idle" /\ waitPhase[t] # "idle" => s = t
    /\ (\A t \in Waiter : waitPhase[t] # "waiting") => event = FALSE /\ requests = {}
    /\ \A t \in Waiter : waitPhase[t] = "waiting" =>
         IF wanted[t] <= value THEN event = TRUE /\ requests = {}
         ELSE event = FALSE /\ requests = {wanted[t]}

FenceInv == Fence!TypeOK /\ SignalsGrow /\ ToldTheTruth /\ EventIsTheWaiters

(* What TypeOK says of what the variables hold.                            *)
LEMMA FenceTypes ==
  ASSUME Fence!TypeOK
  PROVE  /\ value \in Int /\ signals \in Seq(Fence!Value) /\ Len(signals) \in Nat
         /\ \A i \in 1 .. Len(signals) : signals[i] \in Int /\ signals[i] \in Fence!Value
         /\ \A t \in Waiter : wanted[t] \in Int
         /\ \A r \in requests : r \in Int
         /\ wanted \in [Waiter -> 0 .. MaxValue] /\ answer \in [Waiter -> BOOLEAN]
         /\ waitPhase \in [Waiter -> {"idle", "below", "waiting"}]
<1>1. /\ value \in 0 .. MaxValue /\ signals \in Seq(Fence!Value) /\ requests \subseteq Fence!Value
      /\ wanted \in [Waiter -> 0 .. MaxValue] /\ answer \in [Waiter -> BOOLEAN]
      /\ waitPhase \in [Waiter -> {"idle", "below", "waiting"}]
  BY DEF Fence!TypeOK
<1>2. Len(signals) \in Nat /\ \A i \in 1 .. Len(signals) : signals[i] \in Fence!Value
  BY <1>1, LenProperties, ElementOfSeq
<1> QED
  BY <1>1, <1>2 DEF Fence!Value

(* The fence gets to a value: TypeOK, and the event for who waits for it.  *)
LEMMA FenceSet ==
  ASSUME FenceInv, NEW v \in Fence!Value, value < v, Fence!Set(v),
         UNCHANGED <<fenceBackend, waitPhase, wanted, answer, disturbed>>
  PROVE  /\ value' \in 0 .. MaxValue /\ requests' \subseteq Fence!Value /\ event' \in BOOLEAN
         /\ ToldTheTruth' /\ EventIsTheWaiters'
<1>1. /\ value' = v /\ v \in Int /\ value \in Int /\ v \in 1 .. MaxValue
      /\ requests' = requests \ Fence!Due(v)
      /\ event' = (event \/ Fence!Due(v) # {})
      /\ \A t \in Waiter : wanted[t] \in Int
      /\ requests \subseteq Fence!Value
  BY FenceTypes DEF FenceInv, Fence!Set, Fence!Value, Fence!TypeOK
<1>2. value' \in 0 .. MaxValue /\ requests' \subseteq Fence!Value
  <2>1. value' = v /\ v \in 1 .. MaxValue
    BY <1>1
  <2>2. requests' = requests \ Fence!Due(v) /\ requests \subseteq Fence!Value
    BY <1>1
  <2>3. value' \in 0 .. MaxValue
    BY <2>1
  <2> QED
    BY <2>2, <2>3
<1>3. event' \in BOOLEAN
  BY <1>1
<1>4. ToldTheTruth'
  BY <1>1 DEF FenceInv, ToldTheTruth, Calm
<1>5. ASSUME fenceBackend = "d3d", disturbed = FALSE
      PROVE  /\ (\A t \in Waiter : waitPhase[t] # "waiting") => event' = FALSE /\ requests' = {}
             /\ \A t \in Waiter : waitPhase[t] = "waiting" =>
                  IF wanted[t] <= value' THEN event' = TRUE /\ requests' = {}
                  ELSE event' = FALSE /\ requests' = {wanted[t]}
  <2>1. ASSUME \A t \in Waiter : waitPhase[t] # "waiting" PROVE event' = FALSE /\ requests' = {}
    <3>1. event = FALSE /\ requests = {}
      BY <1>5, <2>1 DEF FenceInv, EventIsTheWaiters
    <3>2. Fence!Due(v) = {}
      BY <3>1 DEF Fence!Due
    <3> QED
      BY <1>1, <3>1, <3>2
  <2>2. ASSUME NEW t \in Waiter, waitPhase[t] = "waiting"
        PROVE  IF wanted[t] <= value' THEN event' = TRUE /\ requests' = {}
               ELSE event' = FALSE /\ requests' = {wanted[t]}
    <3>0. IF wanted[t] <= value THEN event = TRUE /\ requests = {}
          ELSE event = FALSE /\ requests = {wanted[t]}
      BY <1>5, <2>2 DEF FenceInv, EventIsTheWaiters
    <3>1. CASE wanted[t] <= value
      <4>1. event = TRUE /\ requests = {}
        BY <3>0, <3>1
      <4>2. event' = TRUE /\ requests' = {}
        BY <1>1, <4>1
      <4>3. wanted[t] <= value'
        BY <1>1, <3>1
      <4> QED
        BY <4>2, <4>3
    <3>2. CASE ~(wanted[t] <= value) /\ wanted[t] <= v
      <4>1. requests = {wanted[t]}
        BY <3>0, <3>2
      <4>2. Fence!Due(v) = {wanted[t]}
        BY <3>2, <4>1 DEF Fence!Due
      <4>3. event' = TRUE /\ requests' = {}
        BY <1>1, <4>1, <4>2
      <4> QED
        BY <1>1, <3>2, <4>3
    <3>3. CASE ~(wanted[t] <= v)
      <4>1. ~(wanted[t] <= value)
        BY <1>1, <3>3
      <4>2. event = FALSE /\ requests = {wanted[t]}
        BY <3>0, <4>1
      <4>3. Fence!Due(v) = {}
        BY <3>3, <4>2 DEF Fence!Due
      <4>4. event' = FALSE /\ requests' = {wanted[t]}
        BY <1>1, <4>2, <4>3
      <4> QED
        BY <1>1, <3>3, <4>4
    <3> QED
      BY <3>1, <3>2, <3>3
  <2> QED
    BY <2>1, <2>2
<1>6. EventIsTheWaiters'
  BY <1>5 DEF FenceInv, EventIsTheWaiters
<1> QED
  BY <1>2, <1>3, <1>4, <1>6

(* Every step of a fence or of who waits for it keeps FenceInv.            *)
LEMMA FenceStep ==
  ASSUME FenceInv, [Fence!Next]_Fence!vars
  PROVE  FenceInv'
<1> USE DEF FenceInv
<1>0. /\ Fence!TypeOK /\ value \in Int /\ Len(signals) \in Nat
      /\ \A i \in 1 .. Len(signals) : signals[i] \in Int /\ signals[i] \in Fence!Value
      /\ \A t \in Waiter : wanted[t] \in Int
  BY FenceTypes
<1>1. ASSUME NEW v \in Fence!Value, Fence!SubmitQueue(v) PROVE FenceInv'
  <2>1. /\ signals' = Append(signals, v) /\ v \in Int
        /\ UNCHANGED <<fenceBackend, value, requests, event, waitPhase, wanted, answer, disturbed>>
    BY <1>1 DEF Fence!SubmitQueue, Fence!Value
  <2>2. /\ Len(signals') = Len(signals) + 1 /\ signals' \in Seq(Fence!Value)
        /\ \A i \in 1 .. Len(signals') :
             \/ i \in 1 .. Len(signals) /\ signals'[i] = signals[i]
             \/ i = Len(signals) + 1 /\ signals'[i] = v
    BY <2>1, FenceTypes, AppendElements
  <2>3. value < v /\ \A i \in 1 .. Len(signals) : signals[i] < v
    <3>1. CASE signals = <<>>
      <4>1. Len(signals) = 0
        BY <3>1
      <4> QED
        BY <1>0, <1>1, <3>1, <4>1 DEF Fence!SubmitQueue, Fence!Last
    <3>2. CASE signals # <<>>
      <4>1. Len(signals) \in 1 .. Len(signals)
        BY <1>0, <3>2, FenceTypes, EmptySeq
      <4>2. signals[Len(signals)] < v
        BY <1>1, <3>2 DEF Fence!SubmitQueue, Fence!Last
      <4>3. \A i \in 1 .. Len(signals) : i = Len(signals) \/ signals[i] < signals[Len(signals)]
        BY <1>0, <4>1 DEF SignalsGrow
      <4> QED
        BY <1>0, <2>1, <4>1, <4>2, <4>3 DEF SignalsGrow
    <3> QED
      BY <3>1, <3>2
  <2>4. SignalsGrow'
    <3>1. \A i \in 1 .. Len(signals') : value' < signals'[i]
      BY <2>1, <2>2, <2>3 DEF SignalsGrow
    <3>2. ASSUME NEW i \in 1 .. Len(signals'), NEW j \in 1 .. Len(signals'), i < j
          PROVE  signals'[i] < signals'[j]
      <4>1. i \in 1 .. Len(signals) /\ signals'[i] = signals[i]
        BY <1>0, <2>2, <3>2
      <4> QED
        BY <1>0, <2>2, <2>3, <3>2, <4>1 DEF SignalsGrow
    <3> QED
      BY <3>1, <3>2 DEF SignalsGrow
  <2>5. Fence!TypeOK'
    BY <1>0, <2>1, <2>2 DEF Fence!TypeOK
  <2>6. ToldTheTruth' /\ EventIsTheWaiters'
    BY <2>1 DEF ToldTheTruth, EventIsTheWaiters, Calm
  <2> QED
    BY <2>4, <2>5, <2>6
<1>2. ASSUME NEW v \in Fence!Value, Fence!SetValue(v) PROVE FenceInv'
  <2>1. /\ value < v /\ \A i \in 1 .. Len(signals) : v < signals[i]
        /\ Fence!Set(v) /\ value' = v
        /\ UNCHANGED <<fenceBackend, signals, waitPhase, wanted, answer, disturbed>>
    <3>1. DOMAIN signals = 1 .. Len(signals)
      BY FenceTypes, LenProperties
    <3> QED
      BY <1>2, <3>1 DEF Fence!SetValue, Fence!Set
  <2>2. /\ value' \in 0 .. MaxValue /\ requests' \subseteq Fence!Value /\ event' \in BOOLEAN
        /\ ToldTheTruth' /\ EventIsTheWaiters'
    BY <2>1, FenceSet
  <2>3. SignalsGrow'
    BY <2>1 DEF SignalsGrow
  <2>4. Fence!TypeOK'
    BY <1>0, <2>1, <2>2 DEF Fence!TypeOK
  <2> QED
    BY <2>2, <2>3, <2>4
<1>3. ASSUME Fence!Signal PROVE FenceInv'
  <2> DEFINE v == Head(signals)
  <2>1. /\ signals # <<>> /\ signals' = Tail(signals) /\ Fence!Set(v) /\ value' = v
        /\ UNCHANGED <<fenceBackend, waitPhase, wanted, answer, disturbed>>
    BY <1>3 DEF Fence!Signal, Fence!Set
  <2>2. /\ signals' \in Seq(Fence!Value) /\ 1 \in 1 .. Len(signals) /\ v = signals[1]
        /\ \A i \in 1 .. Len(signals') : i + 1 \in 1 .. Len(signals) /\ signals'[i] = signals[i + 1]
        /\ Len(signals') = Len(signals) - 1
    BY <2>1, FenceTypes, TailElements
  <2>3. v \in Fence!Value /\ value < v
    BY <1>0, <2>2 DEF SignalsGrow
  <2> HIDE DEF v
  <2>4. /\ value' \in 0 .. MaxValue /\ requests' \subseteq Fence!Value /\ event' \in BOOLEAN
        /\ ToldTheTruth' /\ EventIsTheWaiters'
    BY <2>1, <2>3, FenceSet
  <2>5. SignalsGrow'
    BY <1>0, <2>1, <2>2 DEF SignalsGrow
  <2>6. Fence!TypeOK'
    BY <1>0, <2>1, <2>2, <2>4 DEF Fence!TypeOK
  <2> QED
    BY <2>4, <2>5, <2>6
<1>4. ASSUME NEW t \in Waiter, NEW v \in Fence!Value, Fence!WaitForValue(t, v) PROVE FenceInv'
  <2>1. /\ waitPhase[t] = "idle" /\ wanted' = [wanted EXCEPT ![t] = v]
        /\ UNCHANGED <<fenceBackend, value, signals, requests, event>>
        /\ v \in Int /\ v \in 0 .. MaxValue
    BY <1>4 DEF Fence!WaitForValue, Fence!Value
  <2>2. SignalsGrow'
    BY <2>1 DEF SignalsGrow
  <2>3. /\ wanted'[t] = v /\ \A s \in Waiter : s # t => wanted'[s] = wanted[s]
        /\ wanted' \in [Waiter -> 0 .. MaxValue]
    BY <2>1, FenceTypes
  <2>4. CASE fenceBackend = "d3d" /\ value >= v
    <3>1. answer' = [answer EXCEPT ![t] = TRUE] /\ UNCHANGED <<waitPhase, disturbed>>
      BY <1>4, <2>4 DEF Fence!WaitForValue
    <3>2. answer' \in [Waiter -> BOOLEAN] /\ \A s \in Waiter : s # t => answer'[s] = answer[s]
      BY <3>1, FenceTypes
    <3>3. Fence!TypeOK'
      BY <1>0, <2>1, <2>3, <3>1, <3>2 DEF Fence!TypeOK
    <3>4. ToldTheTruth'
      <4>1. ASSUME Calm, NEW s \in Waiter, waitPhase[s] = "idle", answer'[s] = TRUE PROVE wanted'[s] <= value
        <5>1. CASE s = t
          BY <1>0, <2>1, <2>3, <2>4, <5>1
        <5>2. CASE s # t
          BY <2>3, <3>2, <4>1, <5>2 DEF ToldTheTruth
        <5> QED
          BY <5>1, <5>2
      <4> QED
        BY <2>1, <3>1, <4>1 DEF ToldTheTruth, Calm
    <3>5. EventIsTheWaiters'
      <4>1. \A s \in Waiter : waitPhase[s] = "waiting" => wanted'[s] = wanted[s]
        BY <2>1, <2>3
      <4> QED
        BY <2>1, <3>1, <4>1 DEF EventIsTheWaiters
    <3> QED
      BY <2>2, <3>3, <3>4, <3>5
  <2>5. CASE ~(fenceBackend = "d3d" /\ value >= v)
    <3>1. /\ waitPhase' = [waitPhase EXCEPT ![t] = IF fenceBackend = "d3d" THEN "below" ELSE "waiting"]
          /\ answer' = [answer EXCEPT ![t] = FALSE]
          /\ disturbed' = (disturbed \/ \E o \in Waiter \ {t} : waitPhase[o] # "idle")
      BY <1>4, <2>5 DEF Fence!WaitForValue
    <3>2. /\ answer' \in [Waiter -> BOOLEAN] /\ answer'[t] = FALSE
          /\ \A s \in Waiter : s # t => answer'[s] = answer[s]
      BY <3>1, FenceTypes
    <3>3. /\ waitPhase' \in [Waiter -> {"idle", "below", "waiting"}]
          /\ waitPhase'[t] = (IF fenceBackend = "d3d" THEN "below" ELSE "waiting")
          /\ \A s \in Waiter : s # t => waitPhase'[s] = waitPhase[s]
      BY <3>1, FenceTypes
    <3>4. disturbed' \in BOOLEAN
      BY <3>1
    <3>5. disturbed' = FALSE => disturbed = FALSE /\ \A o \in Waiter : o # t => waitPhase[o] = "idle"
      <4>1. disturbed \in BOOLEAN
        BY DEF Fence!TypeOK
      <4> QED
        BY <3>1, <4>1
    <3>6. Fence!TypeOK'
      BY <1>0, <2>1, <2>3, <3>2, <3>3, <3>4 DEF Fence!TypeOK
    <3>7. ToldTheTruth'
      <4>1. Calm' => Calm
        BY <2>1, <3>5 DEF Calm
      <4> QED
        BY <2>1, <2>3, <3>2, <3>3, <4>1 DEF ToldTheTruth
    <3>8. EventIsTheWaiters'
      <4> SUFFICES ASSUME fenceBackend = "d3d", disturbed' = FALSE
                   PROVE  /\ \A s, u \in Waiter : waitPhase'[s] # "idle" /\ waitPhase'[u] # "idle" => s = u
                          /\ event = FALSE /\ requests = {}
                          /\ \A u \in Waiter : waitPhase'[u] # "waiting"
        BY <2>1 DEF EventIsTheWaiters
      <4>1. \A o \in Waiter : waitPhase[o] = "idle"
        BY <2>1, <3>5
      <4>2. event = FALSE /\ requests = {}
        BY <3>5, <4>1 DEF EventIsTheWaiters
      <4> QED
        BY <3>3, <4>1, <4>2
    <3> QED
      BY <2>2, <3>6, <3>7, <3>8
  <2> QED
    BY <2>4, <2>5
<1>5. ASSUME NEW t \in Waiter, Fence!SetEventOnCompletion(t) PROVE FenceInv'
  <2>1. /\ waitPhase[t] = "below" /\ waitPhase' = [waitPhase EXCEPT ![t] = "waiting"]
        /\ IF value >= wanted[t] THEN event' = TRUE /\ UNCHANGED requests
           ELSE requests' = requests \cup {wanted[t]} /\ UNCHANGED event
        /\ UNCHANGED <<fenceBackend, value, signals, wanted, answer, disturbed>>
    BY <1>5 DEF Fence!SetEventOnCompletion
  <2>2. /\ waitPhase' \in [Waiter -> {"idle", "below", "waiting"}] /\ waitPhase'[t] = "waiting"
        /\ \A s \in Waiter : s # t => waitPhase'[s] = waitPhase[s]
    BY <2>1, FenceTypes
  <2>3. SignalsGrow'
    BY <2>1 DEF SignalsGrow
  <2>4. ToldTheTruth'
    BY <2>1, <2>2 DEF ToldTheTruth, Calm
  <2>5. Fence!TypeOK'
    <3>1. event' \in BOOLEAN
      BY <2>1 DEF Fence!TypeOK
    <3>2. requests' \subseteq Fence!Value
      <4>1. requests \subseteq Fence!Value /\ wanted[t] \in 0 .. MaxValue /\ value \in 0 .. MaxValue
        BY DEF Fence!TypeOK
      <4>2. value >= wanted[t] \/ wanted[t] \in Fence!Value
        BY <4>1 DEF Fence!Value
      <4> QED
        BY <2>1, <4>1, <4>2
    <3> QED
      BY <1>0, <2>1, <2>2, <3>1, <3>2 DEF Fence!TypeOK
  <2>6. EventIsTheWaiters'
    <3> SUFFICES ASSUME fenceBackend = "d3d", disturbed = FALSE
                 PROVE  /\ \A s, u \in Waiter : waitPhase'[s] # "idle" /\ waitPhase'[u] # "idle" => s = u
                        /\ IF wanted[t] <= value THEN event' = TRUE /\ requests' = {}
                           ELSE event' = FALSE /\ requests' = {wanted[t]}
                        /\ \A u \in Waiter : waitPhase'[u] = "waiting" => u = t
      BY <2>1, <2>2 DEF EventIsTheWaiters
    <3>1. \A s \in Waiter : waitPhase[s] # "idle" => s = t
      BY <2>1 DEF EventIsTheWaiters
    <3>2. event = FALSE /\ requests = {}
      <4>1. \A s \in Waiter : waitPhase[s] # "waiting"
        BY <2>1, <3>1
      <4> QED
        BY <4>1 DEF EventIsTheWaiters
    <3>3. \A s \in Waiter : waitPhase'[s] # "idle" => s = t
      BY <2>2, <3>1
    <3>4. IF wanted[t] <= value THEN event' = TRUE /\ requests' = {}
          ELSE event' = FALSE /\ requests' = {wanted[t]}
      <4>1. value >= wanted[t] <=> wanted[t] <= value
        BY <1>0
      <4> QED
        BY <2>1, <3>2, <4>1
    <3> QED
      BY <3>3, <3>4
  <2> QED
    BY <2>3, <2>4, <2>5, <2>6
<1>6. ASSUME NEW t \in Waiter, Fence!WakeUp(t) PROVE FenceInv'
  <2>1. /\ waitPhase[t] = "waiting" /\ waitPhase' = [waitPhase EXCEPT ![t] = "idle"]
        /\ IF fenceBackend = "d3d" THEN event = TRUE ELSE value >= wanted[t]
        /\ event' = FALSE /\ answer' = [answer EXCEPT ![t] = TRUE]
        /\ UNCHANGED <<fenceBackend, value, signals, requests, wanted, disturbed>>
    <3>1. event \in BOOLEAN
      BY DEF Fence!TypeOK
    <3> QED
      BY <1>6, <3>1 DEF Fence!WakeUp, Fence!Return
  <2>2. /\ waitPhase' \in [Waiter -> {"idle", "below", "waiting"}] /\ waitPhase'[t] = "idle"
        /\ \A s \in Waiter : s # t => waitPhase'[s] = waitPhase[s]
    BY <2>1, FenceTypes
  <2>3. /\ answer' \in [Waiter -> BOOLEAN] /\ \A s \in Waiter : s # t => answer'[s] = answer[s]
    BY <2>1, FenceTypes
  <2>4. SignalsGrow' /\ Fence!TypeOK'
    BY <1>0, <2>1, <2>2, <2>3 DEF SignalsGrow, Fence!TypeOK
  <2>5. Calm => wanted[t] <= value
    <3>1. CASE fenceBackend = "d3d"
      <4> SUFFICES ASSUME disturbed = FALSE PROVE wanted[t] <= value
        BY <3>1 DEF Calm
      <4>1. IF wanted[t] <= value THEN event = TRUE ELSE event = FALSE
        BY <2>1, <3>1 DEF EventIsTheWaiters
      <4> QED
        BY <2>1, <3>1, <4>1
    <3>2. CASE fenceBackend # "d3d"
      BY <1>0, <2>1, <3>2
    <3> QED
      BY <3>1, <3>2
  <2>6. ToldTheTruth'
    <3> SUFFICES ASSUME Calm, NEW s \in Waiter, waitPhase'[s] = "idle", answer'[s] = TRUE PROVE wanted[s] <= value
      BY <2>1 DEF ToldTheTruth, Calm
    <3> QED
      BY <2>2, <2>3, <2>5 DEF ToldTheTruth
  <2>7. EventIsTheWaiters'
    <3> SUFFICES ASSUME fenceBackend = "d3d", disturbed = FALSE
                 PROVE  (\A s \in Waiter : waitPhase'[s] = "idle") /\ requests = {}
      BY <2>1 DEF EventIsTheWaiters
    <3>1. \A s \in Waiter : waitPhase[s] # "idle" => s = t
      BY <2>1 DEF EventIsTheWaiters
    <3>2. requests = {}
      <4>1. IF wanted[t] <= value THEN requests = {} ELSE event = FALSE
        BY <2>1 DEF EventIsTheWaiters
      <4> QED
        BY <2>1, <4>1
    <3> QED
      BY <2>2, <3>1, <3>2
  <2> QED
    BY <2>4, <2>6, <2>7
<1>7. ASSUME NEW t \in Waiter, Fence!TimeOut(t) PROVE FenceInv'
  <2>1. /\ waitPhase' = [waitPhase EXCEPT ![t] = "idle"] /\ answer' = [answer EXCEPT ![t] = FALSE]
        /\ IF fenceBackend = "d3d" THEN event = FALSE ELSE value < wanted[t]
        /\ disturbed' = TRUE /\ UNCHANGED <<fenceBackend, value, signals, requests, event, wanted>>
    <3>1. event \in BOOLEAN
      BY DEF Fence!TypeOK
    <3> QED
      BY <1>7, <3>1 DEF Fence!TimeOut, Fence!Return
  <2>2. /\ waitPhase' \in [Waiter -> {"idle", "below", "waiting"}]
        /\ \A s \in Waiter : s # t => waitPhase'[s] = waitPhase[s]
    BY <2>1, FenceTypes
  <2>3. /\ answer' \in [Waiter -> BOOLEAN] /\ answer'[t] = FALSE
        /\ \A s \in Waiter : s # t => answer'[s] = answer[s]
    BY <2>1, FenceTypes
  <2>4. SignalsGrow' /\ Fence!TypeOK'
    BY <1>0, <2>1, <2>2, <2>3 DEF SignalsGrow, Fence!TypeOK
  <2>5. ToldTheTruth'
    BY <2>1, <2>2, <2>3 DEF ToldTheTruth, Calm
  <2>6. EventIsTheWaiters'
    BY <2>1 DEF EventIsTheWaiters
  <2> QED
    BY <2>4, <2>5, <2>6
<1>8. CASE UNCHANGED Fence!vars
  BY <1>8 DEF Fence!vars, Fence!TypeOK, Fence!Value, SignalsGrow, ToldTheTruth, EventIsTheWaiters, Calm
<1> QED
  BY <1>1, <1>2, <1>3, <1>4, <1>5, <1>6, <1>7, <1>8 DEF Fence!Next

(* WaitForValue of both backends: who is told that the fence got to the    *)
(* value has waited long enough, on Direct3D as long as no wait timed out  *)
(* and one thread waited at a time, whatever the values and the order.     *)
THEOREM WaitsTellTheTruth ==
  ASSUME MaxValue \in Nat
  PROVE  Fence!Spec => []Fence!ReachedUnlessDisturbed
<1>1. Fence!Init => FenceInv
  <2> SUFFICES ASSUME Fence!Init PROVE FenceInv
    OBVIOUS
  <2>1. Fence!TypeOK
    <3>1. 0 \in 0 .. MaxValue
      OBVIOUS
    <3>2. <<>> \in Seq(Fence!Value)
      OBVIOUS
    <3> QED
      BY <3>1, <3>2 DEF Fence!Init, Fence!TypeOK
  <2>2. SignalsGrow
    BY DEF Fence!Init, SignalsGrow
  <2> QED
    BY <2>1, <2>2 DEF Fence!Init, FenceInv, ToldTheTruth, EventIsTheWaiters
<1>2. FenceInv /\ [Fence!Next]_Fence!vars => FenceInv'
  BY FenceStep
<1>3. FenceInv => Fence!ReachedUnlessDisturbed
  <2> SUFFICES ASSUME FenceInv, ~(fenceBackend = "d3d" /\ disturbed) PROVE Fence!Early = {}
    BY DEF Fence!ReachedUnlessDisturbed
  <2>1. disturbed \in BOOLEAN /\ answer \in [Waiter -> BOOLEAN]
    BY DEF FenceInv, Fence!TypeOK
  <2>2. \A t \in Waiter : waitPhase[t] = "idle" /\ answer[t] = TRUE => wanted[t] <= value
    BY <2>1 DEF FenceInv, ToldTheTruth, Calm
  <2>3. \A t \in Waiter : wanted[t] <= value => ~(value < wanted[t])
    BY FenceTypes DEF FenceInv
  <2>4. \A t \in Waiter : answer[t] => answer[t] = TRUE
    BY <2>1
  <2> QED
    BY <2>2, <2>3, <2>4 DEF Fence!Early
<1> QED
  BY <1>1, <1>2, <1>3, PTL DEF Fence!Spec

-----------------------------------------------------------------------------
(* AtomicQueue *)

(* Threads push or take.                                                   *)
Roles ==
  Producer \cap Consumer = {} /\ Messages!Nobody \notin Producer /\ MaxLength \in Nat

Phase == {"idle", "pushed", "ready", "asleep", "awake", "taking"}
Taking == \E c \in Consumer : threadPhase[c] = "taking"

(* Who is in the middle of Push holds the lock; and once it has put up the *)
(* flag the flag is up, or somebody took it, who waits for the lock.       *)
PushHolds ==
  \A p \in Producer : /\ threadPhase[p] \in {"pushed", "ready"} => holder = p
                      /\ threadPhase[p] = "ready" => waitReady = TRUE \/ Taking
                      /\ holder = p => threadPhase[p] \in {"pushed", "ready"}
KnownOf == deque # <<>> /\ holder = Messages!Nobody => waitReady = TRUE \/ Taking
SleepersAreTold ==
  waitReady = TRUE /\ (\E c \in Consumer : threadPhase[c] = "asleep") =>
    \/ \E c \in Consumer : threadPhase[c] = "awake"
    \/ \E p \in Producer : threadPhase[p] = "ready"

QueueInv ==
  /\ Messages!TypeOK /\ threadPhase \in [Producer \cup Consumer -> Phase]
  /\ PushHolds /\ KnownOf /\ SleepersAreTold

(* A thread changes its phase, the others stay.                            *)
LEMMA QueuePhases ==
  ASSUME QueueInv, NEW t \in Producer \cup Consumer, NEW x \in Phase,
         threadPhase' = [threadPhase EXCEPT ![t] = x]
  PROVE  /\ threadPhase' \in [Producer \cup Consumer -> Phase] /\ threadPhase'[t] = x
         /\ \A u \in Producer \cup Consumer : u # t => threadPhase'[u] = threadPhase[u]
  BY DEF QueueInv

(* Wait, WakeUp and a spurious one: the flag is looked at and taken.       *)
LEMMA LookAtFlagStep ==
  ASSUME QueueInv, Roles, NEW c \in Consumer, Messages!LookAtFlag(c), threadPhase[c] # "taking"
  PROVE  QueueInv'
<1>1. waitReady \in BOOLEAN /\ waitReady' = FALSE /\ deque' = deque /\ holder' = holder
  BY DEF QueueInv, Messages!TypeOK, Messages!LookAtFlag
<1>2. PICK x \in {"taking", "asleep"} : x = (IF waitReady THEN "taking" ELSE "asleep")
  OBVIOUS
<1>3. threadPhase' = [threadPhase EXCEPT ![c] = x] /\ x \in Phase
  BY <1>2 DEF Messages!LookAtFlag, Phase
<1>4. /\ threadPhase' \in [Producer \cup Consumer -> Phase] /\ threadPhase'[c] = x
      /\ \A u \in Producer \cup Consumer : u # c => threadPhase'[u] = threadPhase[u]
  BY <1>3, QueuePhases
<1>5. waitReady = TRUE => x = "taking"
  BY <1>2
<1>6. waitReady = TRUE \/ Taking => Taking'
  BY <1>4, <1>5 DEF Taking
<1>7. Messages!TypeOK'
  BY <1>1, <1>2, <1>4 DEF QueueInv, Messages!TypeOK, Roles
<1>8. PushHolds'
  BY <1>1, <1>4, <1>6 DEF QueueInv, PushHolds, Roles
<1>9. KnownOf' /\ SleepersAreTold'
  BY <1>1, <1>6 DEF QueueInv, KnownOf, SleepersAreTold
<1> QED
  BY <1>4, <1>7, <1>8, <1>9 DEF QueueInv

(* Every step of who pushes and of who waits keeps QueueInv.               *)
LEMMA QueueStep ==
  ASSUME QueueInv, Roles, [Messages!Next]_Messages!vars
  PROVE  QueueInv'
<1>0. /\ Messages!TypeOK /\ threadPhase \in [Producer \cup Consumer -> Phase]
      /\ deque \in Seq(Item) /\ waitReady \in BOOLEAN /\ holder \in Producer \cup {Messages!Nobody}
  BY DEF QueueInv, Messages!TypeOK
<1>1. ASSUME NEW p \in Producer, NEW x \in Item, Messages!Push(p, x) PROVE QueueInv'
  <2>1. /\ threadPhase[p] = "idle" /\ holder = Messages!Nobody /\ Len(deque) < MaxLength
        /\ deque' = Append(deque, x) /\ holder' = p /\ waitReady' = waitReady
        /\ threadPhase' = [threadPhase EXCEPT ![p] = "pushed"]
    BY <1>1 DEF Messages!Push
  <2>2. /\ threadPhase' \in [Producer \cup Consumer -> Phase] /\ threadPhase'[p] = "pushed"
        /\ \A u \in Producer \cup Consumer : u # p => threadPhase'[u] = threadPhase[u]
    BY <2>1, QueuePhases DEF Phase
  <2>3. deque' \in Seq(Item) /\ Len(deque') <= MaxLength
    <3>1. deque' \in Seq(Item) /\ Len(deque) \in Nat /\ Len(deque') = Len(deque) + 1
      BY <1>0, <2>1, AppendElements
    <3>2. MaxLength \in Int
      BY DEF Roles
    <3> QED
      BY <2>1, <3>1, <3>2
  <2>4. Messages!TypeOK'
    BY <1>0, <2>1, <2>2, <2>3 DEF Messages!TypeOK, Roles
  <2>5. \A q \in Producer : threadPhase[q] \notin {"pushed", "ready"}
    BY <2>1 DEF QueueInv, PushHolds, Roles
  <2>6. PushHolds'
    BY <2>1, <2>2, <2>5 DEF PushHolds
  <2>7. KnownOf'
    BY <2>1 DEF KnownOf, Roles
  <2>8. SleepersAreTold'
    BY <2>1, <2>2 DEF QueueInv, SleepersAreTold, Roles
  <2> QED
    BY <2>2, <2>4, <2>6, <2>7, <2>8 DEF QueueInv
<1>2. ASSUME NEW p \in Producer, Messages!SetReady(p) PROVE QueueInv'
  <2>1. /\ threadPhase[p] = "pushed" /\ waitReady' = TRUE /\ deque' = deque /\ holder' = holder
        /\ threadPhase' = [threadPhase EXCEPT ![p] = "ready"]
    BY <1>2 DEF Messages!SetReady
  <2>2. /\ threadPhase' \in [Producer \cup Consumer -> Phase] /\ threadPhase'[p] = "ready"
        /\ \A u \in Producer \cup Consumer : u # p => threadPhase'[u] = threadPhase[u]
    BY <2>1, QueuePhases DEF Phase
  <2>3. Messages!TypeOK'
    BY <1>0, <2>1, <2>2 DEF Messages!TypeOK, Roles
  <2>4. PushHolds'
    BY <2>1, <2>2 DEF QueueInv, PushHolds
  <2>5. KnownOf' /\ SleepersAreTold'
    BY <2>1, <2>2 DEF KnownOf, SleepersAreTold
  <2> QED
    BY <2>2, <2>3, <2>4, <2>5 DEF QueueInv
<1>3. ASSUME NEW p \in Producer, Messages!NotifyOne(p) PROVE QueueInv'
  <2>1. /\ threadPhase[p] = "ready" /\ holder' = Messages!Nobody /\ deque' = deque /\ waitReady' = waitReady
        /\ holder = p
    BY <1>3 DEF Messages!NotifyOne, QueueInv, PushHolds
  <2>2. \A q \in Producer : threadPhase[q] \in {"pushed", "ready"} => q = p
    BY <2>1 DEF QueueInv, PushHolds
  <2>3. waitReady = TRUE \/ Taking
    BY <2>1 DEF QueueInv, PushHolds
  <2>4. CASE Messages!Asleep = {} /\ threadPhase' = [threadPhase EXCEPT ![p] = "idle"]
    <3>1. /\ threadPhase' \in [Producer \cup Consumer -> Phase] /\ threadPhase'[p] = "idle"
          /\ \A u \in Producer \cup Consumer : u # p => threadPhase'[u] = threadPhase[u]
      BY <2>4, QueuePhases DEF Phase
    <3>2. Messages!TypeOK'
      BY <1>0, <2>1, <3>1 DEF Messages!TypeOK, Roles
    <3>3. PushHolds'
      BY <2>1, <2>2, <3>1 DEF PushHolds, Roles
    <3>4. KnownOf'
      BY <2>1, <2>3, <3>1 DEF KnownOf, Taking, Roles
    <3>5. \A c \in Consumer : threadPhase'[c] # "asleep"
      BY <2>4, <3>1 DEF Messages!Asleep, Roles
    <3> QED
      BY <3>1, <3>2, <3>3, <3>4, <3>5 DEF QueueInv, SleepersAreTold
  <2>5. ASSUME NEW c \in Messages!Asleep, threadPhase' = [threadPhase EXCEPT ![p] = "idle", ![c] = "awake"]
        PROVE  QueueInv'
    <3>1. c \in Consumer /\ threadPhase[c] = "asleep" /\ c # p
      BY <2>5 DEF Messages!Asleep, Roles
    <3>2. /\ threadPhase' \in [Producer \cup Consumer -> Phase]
          /\ threadPhase'[p] = "idle" /\ threadPhase'[c] = "awake"
          /\ \A u \in Producer \cup Consumer : u # p /\ u # c => threadPhase'[u] = threadPhase[u]
      BY <1>0, <2>5, <3>1 DEF Phase
    <3>3. Messages!TypeOK'
      BY <1>0, <2>1, <3>1, <3>2 DEF Messages!TypeOK, Roles
    <3>4. PushHolds'
      BY <2>1, <2>2, <3>1, <3>2 DEF PushHolds, Roles
    <3>5. KnownOf'
      BY <2>1, <2>3, <3>1, <3>2 DEF KnownOf, Taking, Roles
    <3>6. SleepersAreTold'
      BY <3>1, <3>2 DEF SleepersAreTold
    <3> QED
      BY <3>2, <3>3, <3>4, <3>5, <3>6 DEF QueueInv
  <2> QED
    BY <1>3, <2>4, <2>5 DEF Messages!NotifyOne
<1>4. ASSUME NEW c \in Consumer, Messages!Wait(c) \/ Messages!WakeUp(c) \/ Messages!WakeSpuriously(c)
      PROVE  QueueInv'
  <2>1. Messages!LookAtFlag(c) /\ threadPhase[c] # "taking"
    BY <1>4 DEF Messages!Wait, Messages!WakeUp, Messages!WakeSpuriously
  <2> QED
    BY <2>1, LookAtFlagStep
<1>5. ASSUME NEW c \in Consumer, Messages!WaitFor(c) PROVE QueueInv'
  <2>1. /\ waitReady' = FALSE /\ deque' = deque /\ holder' = holder
        /\ threadPhase' = [threadPhase EXCEPT ![c] = "taking"]
    BY <1>5 DEF Messages!WaitFor
  <2>2. /\ threadPhase' \in [Producer \cup Consumer -> Phase] /\ threadPhase'[c] = "taking"
        /\ \A u \in Producer \cup Consumer : u # c => threadPhase'[u] = threadPhase[u]
    BY <2>1, QueuePhases DEF Phase
  <2>3. Messages!TypeOK'
    BY <1>0, <2>1, <2>2 DEF Messages!TypeOK, Roles
  <2>4. Taking'
    BY <2>2 DEF Taking
  <2>5. PushHolds'
    BY <2>1, <2>2, <2>4 DEF QueueInv, PushHolds, Roles
  <2>6. KnownOf' /\ SleepersAreTold'
    BY <2>1, <2>4 DEF KnownOf, SleepersAreTold
  <2> QED
    BY <2>2, <2>3, <2>5, <2>6 DEF QueueInv
<1>6. ASSUME NEW c \in Consumer, Messages!TryPop(c) PROVE QueueInv'
  <2>1. /\ threadPhase[c] = "taking" /\ holder = Messages!Nobody /\ waitReady' = waitReady /\ holder' = holder
        /\ deque' = IF deque = <<>> THEN deque ELSE Tail(deque)
    BY <1>6 DEF Messages!TryPop
  <2>2. deque' \in Seq(Item) /\ Len(deque') <= MaxLength
    <3>1. CASE deque = <<>>
      BY <1>0, <2>1, <3>1 DEF Messages!TypeOK
    <3>2. CASE deque # <<>>
      <4>1. deque' \in Seq(Item) /\ Len(deque) \in Nat /\ Len(deque') = Len(deque) - 1
        BY <1>0, <2>1, <3>2, TailElements
      <4>2. Len(deque) <= MaxLength
        BY <1>0 DEF Messages!TypeOK
      <4>3. MaxLength \in Int
        BY DEF Roles
      <4> QED
        BY <4>1, <4>2, <4>3
    <3> QED
      BY <3>1, <3>2
  <2>3. PICK x \in {"idle", "taking"} : x = (IF deque = <<>> THEN "idle" ELSE "taking")
    OBVIOUS
  <2>4. threadPhase' = [threadPhase EXCEPT ![c] = x] /\ x \in Phase
    BY <1>6, <2>3 DEF Messages!TryPop, Phase
  <2>5. /\ threadPhase' \in [Producer \cup Consumer -> Phase] /\ threadPhase'[c] = x
        /\ \A u \in Producer \cup Consumer : u # c => threadPhase'[u] = threadPhase[u]
    BY <2>4, QueuePhases
  <2>6. Messages!TypeOK'
    BY <1>0, <2>1, <2>2, <2>3, <2>5 DEF Messages!TypeOK, Roles
  <2>7. PushHolds'
    BY <2>1, <2>5 DEF QueueInv, PushHolds, Roles
  <2>8. KnownOf'
    <3>1. deque' # <<>> => x = "taking"
      BY <2>1, <2>3
    <3> QED
      BY <2>5, <3>1 DEF KnownOf, Taking
  <2>9. SleepersAreTold'
    BY <2>1, <2>3, <2>5 DEF QueueInv, SleepersAreTold, Roles
  <2> QED
    BY <2>5, <2>6, <2>7, <2>8, <2>9 DEF QueueInv
<1>7. ASSUME NEW c \in Consumer, Messages!Clear(c) PROVE QueueInv'
  <2>1. holder = Messages!Nobody /\ deque' = <<>> /\ UNCHANGED <<waitReady, holder, threadPhase>>
    BY <1>7 DEF Messages!Clear
  <2>2. deque' \in Seq(Item) /\ Len(deque') = 0 /\ 0 <= MaxLength
    BY <2>1 DEF Roles
  <2>3. Messages!TypeOK'
    BY <1>0, <2>1, <2>2 DEF Messages!TypeOK
  <2>4. PushHolds' /\ KnownOf' /\ SleepersAreTold'
    BY <2>1 DEF QueueInv, PushHolds, Taking, KnownOf, SleepersAreTold
  <2> QED
    BY <1>0, <2>1, <2>3, <2>4 DEF QueueInv
<1>8. CASE UNCHANGED Messages!vars
  BY <1>8 DEF Messages!vars, QueueInv, Messages!TypeOK, PushHolds, Taking, KnownOf, SleepersAreTold
<1> QED
  BY <1>1, <1>2, <1>3, <1>4, <1>5, <1>6, <1>7, <1>8 DEF Messages!Next

(* Push, Wait and TryPop: what was pushed is known of, and sleepers are    *)
(* woken for a flag that is up, for any number of threads of either kind.  *)
THEOREM NoWakeUpLost ==
  ASSUME Roles
  PROVE  Messages!Spec => []Messages!NoWakeUpIsLost
<1>1. Messages!Init => QueueInv
  <2> SUFFICES ASSUME Messages!Init PROVE QueueInv
    OBVIOUS
  <2>1. /\ deque = <<>> /\ waitReady = FALSE /\ holder = Messages!Nobody
        /\ \A t \in Producer \cup Consumer : threadPhase[t] = "idle"
        /\ threadPhase \in [Producer \cup Consumer -> Phase]
    BY DEF Messages!Init, Phase
  <2>2. deque \in Seq(Item) /\ Len(deque) = 0 /\ 0 <= MaxLength
    BY <2>1 DEF Roles
  <2>3. Messages!TypeOK
    BY <2>1, <2>2 DEF Messages!TypeOK
  <2>4. PushHolds /\ KnownOf /\ SleepersAreTold
    BY <2>1 DEF PushHolds, KnownOf, SleepersAreTold, Roles
  <2> QED
    BY <2>1, <2>3, <2>4 DEF QueueInv
<1>2. QueueInv /\ [Messages!Next]_Messages!vars => QueueInv'
  BY QueueStep
<1>3. QueueInv => Messages!NoWakeUpIsLost
  BY DEF QueueInv, Messages!TypeOK, KnownOf, Taking, SleepersAreTold, Messages!NoWakeUpIsLost, Messages!Asleep
<1> QED
  BY <1>1, <1>2, <1>3, PTL DEF Messages!Spec

-----------------------------------------------------------------------------
(* Semaphores *)

Names == Sems!None \notin Semaphore /\ MaxSubmits \in Nat

Works(x, n) == x.do = "work" /\ x.of = n
Waits(x, s) == x.do = "wait" /\ x.semaphore = s
Signals(x, s) == x.do = "signal" /\ x.semaphore = s
At(q) == 1 .. Len(stream[q])
ToSignal(s) == \E q \in Queue : \E i \in At(q) : Signals(stream[q][i], s)
ToWait(s) == \E q \in Queue : \E i \in At(q) : Waits(stream[q][i], s)

(* A signal comes right after the work it tells of, and a semaphore has at *)
(* most one to come.                                                       *)
SignalsFollow ==
  \A q \in Queue : \A i \in At(q) : \A s \in Semaphore : Signals(stream[q][i], s) =>
    /\ stream[q][i].value = counter[s] /\ counter[s] >= 1 /\ signaller[s] # 0
    /\ IF i = 1 THEN signaller[s] \in ran ELSE Works(stream[q][i - 1], signaller[s])
SignalsAreOne ==
  \A p, q \in Queue : \A i \in At(p) : \A j \in At(q) : \A s \in Semaphore :
    Signals(stream[p][i], s) /\ Signals(stream[q][j], s) => p = q /\ i = j

(* A wait comes right before the work that is to wait, for the last signal. *)
WaitsPrecede ==
  \A q \in Queue : \A i \in At(q) : \A s \in Semaphore : Waits(stream[q][i], s) =>
    /\ stream[q][i].value = counter[s] /\ signaller[s] # 0 /\ waiter[s] # 0
    /\ i + 1 \in At(q) /\ Works(stream[q][i + 1], waiter[s]) /\ needs[waiter[s]] = signaller[s]

(* Work to come has not run, and what it needs has, or it is waited for.   *)
WorkWaits ==
  \A q \in Queue : \A i \in At(q) : \A n \in Sems!Submission : Works(stream[q][i], n) =>
    /\ n \in 1 .. count /\ n \notin ran
    /\ \/ needs[n] = 0 \/ needs[n] \in ran
       \/ i # 1 /\ \E s \in Semaphore : Waits(stream[q][i - 1], s) /\ signaller[s] = needs[n]
WorkIsOne ==
  \A p, q \in Queue : \A i \in At(p) : \A j \in At(q) : \A n \in Sems!Submission :
    Works(stream[p][i], n) /\ Works(stream[q][j], n) => p = q /\ i = j

WhatRan ==
  /\ ran \subseteq 1 .. count
  /\ \A n \in ran : needs[n] = 0 \/ needs[n] \in ran
Given ==
  \A s \in Semaphore : /\ counter[s] <= count
                       /\ signaller[s] # 0 /\ ~ToSignal(s) => signaller[s] \in ran
                       /\ waiter[s] # 0 => ToWait(s) \/ ~ToSignal(s)

(* What the driver's semaphore or fence holds.                             *)
Holds(s) ==
  IF submitBackend = "d3d" THEN IF ToSignal(s) THEN counter[s] - 1 ELSE counter[s]
  ELSE IF signaller[s] # 0 /\ ~ToSignal(s) /\ (waiter[s] = 0 \/ ToWait(s)) THEN 1 ELSE 0
ReachedIsKnown == \A s \in Semaphore : reached[s] = Holds(s)

SemInv ==
  /\ Sems!TypeOK /\ SignalsFollow /\ SignalsAreOne /\ WaitsPrecede /\ WorkWaits /\ WorkIsOne
  /\ WhatRan /\ Given /\ ReachedIsKnown

(* What TypeOK says of what the variables hold.                            *)
LEMMA SemTypes ==
  ASSUME Sems!TypeOK
  PROVE  /\ stream \in [Queue -> Seq(Sems!Step)]
         /\ \A q \in Queue : stream[q] \in Seq(Sems!Step) /\ Len(stream[q]) \in Nat
         /\ \A q \in Queue : \A i \in At(q) : i \in Nat /\ stream[q][i] \in Sems!Step
         /\ \A x \in Sems!Step :
              \/ x.do = "work" /\ x.of \in Sems!Submission
              \/ x.do \in {"wait", "signal"} /\ x.semaphore \in Semaphore /\ x.value \in 0 .. MaxSubmits
         /\ count \in Int
         /\ \A s \in Semaphore : counter[s] \in Int /\ reached[s] \in Int
<1>1. /\ stream \in [Queue -> Seq(Sems!Step)] /\ count \in 0 .. MaxSubmits
      /\ counter \in [Semaphore -> 0 .. MaxSubmits] /\ reached \in [Semaphore -> 0 .. MaxSubmits]
  BY DEF Sems!TypeOK
<1>2. \A q \in Queue : stream[q] \in Seq(Sems!Step) /\ Len(stream[q]) \in Nat
  BY <1>1, LenProperties
<1>3. \A q \in Queue : \A i \in At(q) : i \in Nat /\ stream[q][i] \in Sems!Step
  BY <1>2, ElementOfSeq DEF At
<1>4. \A x \in Sems!Step :
        \/ x.do = "work" /\ x.of \in Sems!Submission
        \/ x.do \in {"wait", "signal"} /\ x.semaphore \in Semaphore /\ x.value \in 0 .. MaxSubmits
  BY DEF Sems!Step
<1> QED
  BY <1>1, <1>2, <1>3, <1>4

(* Where a step of a queue was before q took its first, and where it goes. *)
StaysFrom(q) ==
  \A r \in Queue : \A i \in At(r)' :
    \/ r # q /\ i \in At(r) /\ stream'[r][i] = stream[r][i]
       /\ (i # 1 => stream'[r][i - 1] = stream[r][i - 1])
    \/ r = q /\ i + 1 \in At(q) /\ i + 1 # 1 /\ stream'[q][i] = stream[q][i + 1]
       /\ (i # 1 => stream'[q][i - 1] = stream[q][i])
GoesTo(q) ==
  \A r \in Queue : \A i \in At(r) :
    \/ r # q /\ i \in At(r)' /\ stream'[r][i] = stream[r][i]
    \/ r = q /\ i = 1
    \/ r = q /\ i # 1 /\ i - 1 \in At(q)' /\ stream'[q][i - 1] = stream[q][i]

(* A queue of the driver takes its first step.                             *)
LEMMA StreamTail ==
  ASSUME Sems!TypeOK, NEW q \in Queue, stream[q] # <<>>, stream' = [stream EXCEPT ![q] = Tail(@)]
  PROVE  /\ stream' \in [Queue -> Seq(Sems!Step)] /\ 1 \in At(q) /\ Head(stream[q]) = stream[q][1]
         /\ StaysFrom(q) /\ GoesTo(q)
<1>1. stream \in [Queue -> Seq(Sems!Step)] /\ \A r \in Queue : Len(stream[r]) \in Nat
  BY SemTypes
<1>2. /\ Tail(stream[q]) \in Seq(Sems!Step) /\ Len(Tail(stream[q])) = Len(stream[q]) - 1
      /\ Head(stream[q]) = stream[q][1] /\ 1 \in 1 .. Len(stream[q])
      /\ \A i \in 1 .. Len(Tail(stream[q])) :
           i + 1 \in 1 .. Len(stream[q]) /\ Tail(stream[q])[i] = stream[q][i + 1]
      /\ \A i \in 1 .. Len(stream[q]) :
           i # 1 => i - 1 \in 1 .. Len(Tail(stream[q])) /\ Tail(stream[q])[i - 1] = stream[q][i]
  BY <1>1, TailElements
<1>3. /\ stream' \in [Queue -> Seq(Sems!Step)] /\ stream'[q] = Tail(stream[q])
      /\ \A r \in Queue : r # q => stream'[r] = stream[r]
  BY <1>1, <1>2
<1>4. StaysFrom(q)
  <2> SUFFICES ASSUME NEW r \in Queue, NEW i \in At(r)'
      PROVE  \/ r # q /\ i \in At(r) /\ stream'[r][i] = stream[r][i]
                /\ (i # 1 => stream'[r][i - 1] = stream[r][i - 1])
             \/ r = q /\ i + 1 \in At(q) /\ i + 1 # 1 /\ stream'[q][i] = stream[q][i + 1]
                /\ (i # 1 => stream'[q][i - 1] = stream[q][i])
    BY DEF StaysFrom
  <2>1. CASE r # q
    BY <1>1, <1>3, <2>1 DEF At
  <2>2. CASE r = q
    <3>1. i + 1 \in At(q) /\ stream'[q][i] = stream[q][i + 1] /\ i \in Nat /\ i >= 1
      BY <1>2, <1>3, <2>2 DEF At
    <3>2. i # 1 => stream'[q][i - 1] = stream[q][i]
      <4>1. i \in 1 .. Len(stream[q])
        BY <1>1, <1>2, <1>3, <2>2, <3>1 DEF At
      <4>2. i # 1 => i - 1 \in 1 .. Len(Tail(stream[q])) /\ Tail(stream[q])[i - 1] = stream[q][i]
        BY <1>2, <4>1
      <4> QED
        BY <1>3, <4>2
    <3>3. i + 1 # 1
      BY <3>1
    <3> QED
      BY <2>2, <3>1, <3>2, <3>3
  <2> QED
    BY <2>1, <2>2
<1>5. GoesTo(q)
  BY <1>2, <1>3 DEF At, GoesTo
<1> QED
  BY <1>2, <1>3, <1>4, <1>5 DEF At

(* A queue of the driver does its first step.                              *)
LEMMA AdvanceStep ==
  ASSUME Names, SemInv, NEW q \in Queue, Sems!Advance(q)
  PROVE  SemInv'
<1> DEFINE h == stream[q][1]
<1> USE DEF SemInv, At, Works, Waits, Signals
<1>1. /\ stream[q] # <<>> /\ stream' = [stream EXCEPT ![q] = Tail(@)]
  BY DEF Sems!Advance
<1>20. /\ submitBackend' = submitBackend /\ counter' = counter /\ count' = count
       /\ signaller' = signaller /\ waiter' = waiter /\ needs' = needs
  BY DEF Sems!Advance
<1>2. /\ stream' \in [Queue -> Seq(Sems!Step)] /\ 1 \in At(q) /\ Head(stream[q]) = h
      /\ StaysFrom(q) /\ GoesTo(q)
  BY <1>1, StreamTail
<1>3. \/ h.do = "work" /\ h.of \in Sems!Submission
      \/ h.do \in {"wait", "signal"} /\ h.semaphore \in Semaphore /\ h.value \in 0 .. MaxSubmits
  BY <1>2, SemTypes
<1>4. /\ h.do = "work" => ran' = ran \cup {h.of} /\ reached' = reached
      /\ h.do = "wait" => /\ ran' = ran /\ Sems!Passes(h)
                          /\ reached' = IF submitBackend = "d3d" THEN reached
                                        ELSE [reached EXCEPT ![h.semaphore] = @ - 1]
      /\ h.do = "signal" => /\ ran' = ran
                            /\ reached' = [reached EXCEPT ![h.semaphore] =
                                             IF submitBackend = "d3d" THEN h.value ELSE @ + 1]
  BY <1>2 DEF Sems!Advance
<1>5. \A s \in Semaphore : Waits(h, s) => signaller[s] \in ran /\ ~ToSignal(s)
  <2> SUFFICES ASSUME NEW s \in Semaphore, Waits(h, s) PROVE signaller[s] \in ran /\ ~ToSignal(s)
    OBVIOUS
  <2>1. signaller[s] # 0 /\ waiter[s] # 0 /\ h.value = counter[s] /\ ToWait(s)
    BY <1>2 DEF WaitsPrecede, ToWait
  <2>2. reached[s] = Holds(s) /\ counter[s] \in Int
    BY SemTypes DEF ReachedIsKnown
  <2>3. Sems!Passes(h) /\ h.semaphore = s
    BY <1>4
  <2>4. ~ToSignal(s)
    BY <2>1, <2>2, <2>3 DEF Holds, Sems!Passes
  <2> QED
    BY <2>1, <2>4 DEF Given
<1>6. \A n \in Sems!Submission : Works(h, n) =>
        n \in 1 .. count /\ n \notin ran /\ (needs[n] = 0 \/ needs[n] \in ran)
  BY <1>2 DEF WorkWaits
<1> HIDE DEF h
<1>7. ASSUME NEW r \in Queue, NEW i \in At(r)'
      PROVE  \E k \in At(r) : stream'[r][i] = stream[r][k] /\ k = (IF r = q THEN i + 1 ELSE i)
  <2>1. CASE r = q
    <3>1. i + 1 \in At(r) /\ stream'[r][i] = stream[r][i + 1]
      BY <1>2, <2>1 DEF StaysFrom
    <3> QED
      BY <2>1, <3>1
  <2>2. CASE r # q
    BY <1>2, <2>2 DEF StaysFrom
  <2> QED
    BY <2>1, <2>2
<1>8. ASSUME NEW r \in Queue, NEW k \in At(r), r # q \/ k # 1
      PROVE  \E i \in At(r)' : stream'[r][i] = stream[r][k] /\ k = (IF r = q THEN i + 1 ELSE i)
  <2>1. CASE r = q
    <3>1. k - 1 \in At(r)' /\ stream'[r][k - 1] = stream[r][k] /\ k = k - 1 + 1
      BY <1>2, <1>8, <2>1 DEF GoesTo
    <3> QED
      BY <2>1, <3>1
  <2>2. CASE r # q
    BY <1>2, <2>2 DEF GoesTo
  <2> QED
    BY <2>1, <2>2
<1>9. h = stream[q][1] /\ 1 \in At(q)
  BY <1>2 DEF h
<1>10. SignalsFollow'
  <2> SUFFICES ASSUME NEW r \in Queue, NEW i \in At(r)', NEW s \in Semaphore, Signals(stream'[r][i], s)
               PROVE  /\ stream'[r][i].value = counter[s] /\ counter[s] >= 1 /\ signaller[s] # 0
                      /\ IF i = 1 THEN signaller[s] \in ran' ELSE Works(stream'[r][i - 1], signaller[s])
    BY <1>20 DEF SignalsFollow
  <2>1. CASE r # q
    <3>1. ran \subseteq ran'
      BY <1>3, <1>4
    <3>2. /\ i \in At(r) /\ stream'[r][i] = stream[r][i]
          /\ (i # 1 => stream'[r][i - 1] = stream[r][i - 1])
      BY <1>2, <2>1 DEF StaysFrom
    <3>3. /\ stream[r][i].value = counter[s] /\ counter[s] >= 1 /\ signaller[s] # 0
          /\ IF i = 1 THEN signaller[s] \in ran ELSE Works(stream[r][i - 1], signaller[s])
      BY <3>2 DEF SignalsFollow
    <3> QED
      BY <3>1, <3>2, <3>3 DEF Works
  <2>2. CASE r = q
    <3>1. /\ i + 1 \in At(q) /\ i + 1 # 1 /\ Signals(stream[q][i + 1], s) /\ stream'[r][i] = stream[q][i + 1]
          /\ (i # 1 => stream'[r][i - 1] = stream[q][i])
      BY <1>2, <2>2 DEF StaysFrom
    <3>2. i + 1 - 1 = i
      BY DEF At
    <3>3. Works(stream[q][i], signaller[s]) /\ stream[q][i + 1].value = counter[s] /\ counter[s] >= 1 /\ signaller[s] # 0
      BY <3>1, <3>2 DEF SignalsFollow
    <3>4. i = 1 => signaller[s] \in ran'
      BY <1>4, <1>9, <3>3
    <3> QED
      BY <3>1, <3>3, <3>4
  <2> QED
    BY <2>1, <2>2
<1>11. SignalsAreOne'
  <2> SUFFICES ASSUME NEW p \in Queue, NEW r \in Queue, NEW i \in At(p)', NEW j \in At(r)',
                      NEW s \in Semaphore, Signals(stream'[p][i], s), Signals(stream'[r][j], s)
               PROVE  p = r /\ i = j
    BY DEF SignalsAreOne
  <2>1. PICK k \in At(p) : Signals(stream[p][k], s) /\ k = (IF p = q THEN i + 1 ELSE i)
    BY <1>7
  <2>2. PICK l \in At(r) : Signals(stream[r][l], s) /\ l = (IF r = q THEN j + 1 ELSE j)
    BY <1>7
  <2>3. p = r /\ k = l
    BY SMTT(30), <2>1, <2>2 DEF SignalsAreOne
  <2> QED
    BY <2>1, <2>2, <2>3
<1>12. WaitsPrecede'
  <2> SUFFICES ASSUME NEW r \in Queue, NEW i \in At(r)', NEW s \in Semaphore, Waits(stream'[r][i], s)
               PROVE  /\ stream'[r][i].value = counter[s] /\ signaller[s] # 0 /\ waiter[s] # 0
                      /\ i + 1 \in At(r)' /\ Works(stream'[r][i + 1], waiter[s]) /\ needs[waiter[s]] = signaller[s]
    BY <1>20 DEF WaitsPrecede
  <2>1. PICK k \in At(r) : stream'[r][i] = stream[r][k] /\ k = (IF r = q THEN i + 1 ELSE i)
    BY <1>7
  <2>2. /\ stream[r][k].value = counter[s] /\ signaller[s] # 0 /\ waiter[s] # 0
        /\ k + 1 \in At(r) /\ Works(stream[r][k + 1], waiter[s]) /\ needs[waiter[s]] = signaller[s]
    BY <2>1 DEF WaitsPrecede
  <2>3. k + 1 # 1
    OBVIOUS
  <2>4. PICK l \in At(r)' : stream'[r][l] = stream[r][k + 1] /\ k + 1 = (IF r = q THEN l + 1 ELSE l)
    BY <1>8, <2>2, <2>3
  <2>5. l = i + 1
    BY <2>1, <2>4
  <2> QED
    BY <2>1, <2>2, <2>4, <2>5
<1>13. WorkWaits'
  <2> SUFFICES ASSUME NEW r \in Queue, NEW i \in At(r)', NEW m \in Sems!Submission, Works(stream'[r][i], m)
               PROVE  /\ m \in 1 .. count /\ m \notin ran'
                      /\ \/ needs[m] = 0 \/ needs[m] \in ran'
                         \/ i # 1 /\ \E s \in Semaphore : Waits(stream'[r][i - 1], s) /\ signaller[s] = needs[m]
    BY <1>20 DEF WorkWaits
  <2>1. PICK k \in At(r) : stream'[r][i] = stream[r][k] /\ k = (IF r = q THEN i + 1 ELSE i)
    BY <1>7
  <2>2. ~(r = q /\ k = 1)
    BY <2>1
  <2>3. m \notin ran'
    <3>1. ~Works(h, m)
      BY <1>9, <2>1, <2>2 DEF WorkIsOne
    <3>2. m \notin ran
      BY <2>1 DEF WorkWaits
    <3> QED
      BY <1>3, <1>4, <3>1, <3>2
  <2>4. ran \subseteq ran'
    BY <1>3, <1>4
  <2>5. \/ needs[m] = 0 \/ needs[m] \in ran
        \/ k # 1 /\ \E s \in Semaphore : Waits(stream[r][k - 1], s) /\ signaller[s] = needs[m]
    BY <2>1 DEF WorkWaits
  <2>6. ASSUME k # 1, NEW s \in Semaphore, Waits(stream[r][k - 1], s), signaller[s] = needs[m]
        PROVE  needs[m] \in ran \/ (i # 1 /\ Waits(stream'[r][i - 1], s))
    <3>1. CASE r # q
      BY <1>2, <2>1, <2>6, <3>1 DEF StaysFrom
    <3>2. CASE r = q
      <4>1. k - 1 = i /\ (i # 1 => stream'[q][i - 1] = stream[q][i])
        BY <1>2, <2>1, <3>2 DEF StaysFrom
      <4>2. i = 1 => Waits(h, s)
        BY <1>9, <2>6, <3>2, <4>1
      <4> QED
        BY <1>5, <2>6, <3>2, <4>1, <4>2
    <3> QED
      BY <3>1, <3>2
  <2>7. m \in 1 .. count
    BY <2>1 DEF WorkWaits
  <2> QED
    BY <2>3, <2>4, <2>5, <2>6, <2>7
<1>14. WorkIsOne'
  <2> SUFFICES ASSUME NEW p \in Queue, NEW r \in Queue, NEW i \in At(p)', NEW j \in At(r)',
                      NEW m \in Sems!Submission, Works(stream'[p][i], m), Works(stream'[r][j], m)
               PROVE  p = r /\ i = j
    BY DEF WorkIsOne
  <2>1. PICK k \in At(p) : Works(stream[p][k], m) /\ k = (IF p = q THEN i + 1 ELSE i)
    BY <1>7
  <2>2. PICK l \in At(r) : Works(stream[r][l], m) /\ l = (IF r = q THEN j + 1 ELSE j)
    BY <1>7
  <2>3. p = r /\ k = l
    BY SMTT(30), <2>1, <2>2 DEF WorkIsOne
  <2> QED
    BY <2>1, <2>2, <2>3
<1>15. WhatRan'
  BY <1>3, <1>4, <1>6, <1>20 DEF WhatRan
<1>16. ASSUME NEW s \in Semaphore
       PROVE  /\ ToSignal(s)' <=> ToSignal(s) /\ ~Signals(h, s)
              /\ ToWait(s)' <=> ToWait(s) /\ ~Waits(h, s)
  <2>1. \A r \in Queue : \A k \in At(r) : r # q \/ k # 1 => \E i \in At(r)' : stream'[r][i] = stream[r][k]
    BY <1>8
  <2>2. ToSignal(s) /\ ~Signals(h, s) => ToSignal(s)'
    BY <1>9, <2>1 DEF ToSignal
  <2>3. ToWait(s) /\ ~Waits(h, s) => ToWait(s)'
    BY <1>9, <2>1 DEF ToWait
  <2>4. ASSUME NEW r \in Queue, NEW i \in At(r)'
        PROVE  \E k \in At(r) : stream'[r][i] = stream[r][k] /\ ~(r = q /\ k = 1)
    <3>1. PICK k \in At(r) : stream'[r][i] = stream[r][k] /\ k = (IF r = q THEN i + 1 ELSE i)
      BY <1>7
    <3>2. ~(r = q /\ k = 1)
      BY <3>1
    <3> QED
      BY <3>1, <3>2
  <2>5. ToSignal(s)' => ToSignal(s) /\ ~Signals(h, s)
    BY SMTT(30), <1>9, <2>4 DEF ToSignal, SignalsAreOne
  <2>6. ToWait(s)' => ToWait(s) /\ ~Waits(h, s)
    <3> SUFFICES ASSUME NEW r \in Queue, NEW k \in At(r), Waits(stream[r][k], s), ~(r = q /\ k = 1)
                 PROVE  ~Waits(h, s) /\ ToWait(s)
      BY <2>4 DEF ToWait
    <3>1. k + 1 \in At(r) /\ Works(stream[r][k + 1], waiter[s])
      BY DEF WaitsPrecede
    <3>2. Waits(h, s) => 1 + 1 \in At(q) /\ Works(stream[q][1 + 1], waiter[s])
      BY <1>9 DEF WaitsPrecede
    <3>3. waiter[s] \in Sems!Submission
      BY <3>1, SemTypes
    <3>4. Waits(h, s) => r = q /\ k + 1 = 1 + 1
      BY <3>1, <3>2, <3>3 DEF WorkIsOne
    <3> QED
      BY <3>4 DEF ToWait
  <2> QED
    BY <2>2, <2>3, <2>5, <2>6
<1>17. Given'
  <2> SUFFICES ASSUME NEW s \in Semaphore
               PROVE  /\ counter[s] <= count
                      /\ signaller[s] # 0 /\ ~ToSignal(s)' => signaller[s] \in ran'
                      /\ waiter[s] # 0 => ToWait(s)' \/ ~ToSignal(s)'
    BY <1>20 DEF Given
  <2>1. Signals(h, s) => signaller[s] \in ran
    BY <1>9 DEF SignalsFollow
  <2>2. ran \subseteq ran'
    BY <1>3, <1>4
  <2>3. signaller[s] # 0 /\ ~ToSignal(s)' => signaller[s] \in ran'
    BY <1>16, <2>1, <2>2 DEF Given
  <2>4. waiter[s] # 0 => ToWait(s)' \/ ~ToSignal(s)'
    BY <1>5, <1>16 DEF Given
  <2> QED
    BY <2>3, <2>4 DEF Given
<1>18. ReachedIsKnown'
  <2> SUFFICES ASSUME NEW s \in Semaphore
               PROVE  reached'[s] = IF submitBackend = "d3d" THEN IF ToSignal(s)' THEN counter[s] - 1 ELSE counter[s]
                                    ELSE IF signaller[s] # 0 /\ ~ToSignal(s)' /\ (waiter[s] = 0 \/ ToWait(s)')
                                         THEN 1 ELSE 0
    BY <1>20 DEF ReachedIsKnown, Holds
  <2>1. reached[s] = Holds(s) /\ reached \in [Semaphore -> 0 .. MaxSubmits]
    BY DEF ReachedIsKnown, Sems!TypeOK
  <2>2. CASE Signals(h, s)
    <3>1. /\ ToSignal(s) /\ ~ToSignal(s)' /\ (ToWait(s)' <=> ToWait(s)) /\ (waiter[s] # 0 => ToWait(s))
          /\ h.value = counter[s] /\ signaller[s] # 0
      BY <1>9, <1>16, <2>2 DEF ToSignal, SignalsFollow, Given
    <3>2. reached'[s] = IF submitBackend = "d3d" THEN h.value ELSE reached[s] + 1
      BY <1>4, <2>1, <2>2
    <3> QED
      BY <2>1, <3>1, <3>2 DEF Holds
  <2>3. CASE Waits(h, s)
    <3>1. /\ ToWait(s) /\ ~ToWait(s)' /\ (ToSignal(s)' <=> ToSignal(s)) /\ waiter[s] # 0 /\ ~ToSignal(s)
          /\ signaller[s] # 0
      BY <1>5, <1>9, <1>16, <2>3 DEF ToWait, WaitsPrecede
    <3>2. reached'[s] = IF submitBackend = "d3d" THEN reached[s] ELSE reached[s] - 1
      BY <1>4, <2>1, <2>3
    <3> QED
      BY <2>1, <3>1, <3>2 DEF Holds
  <2>4. CASE ~Signals(h, s) /\ ~Waits(h, s)
    <3>1. (ToWait(s)' <=> ToWait(s)) /\ (ToSignal(s)' <=> ToSignal(s))
      BY <1>16, <2>4
    <3>2. reached'[s] = reached[s]
      BY <1>3, <1>4, <2>1, <2>4
    <3> QED
      BY <2>1, <3>1, <3>2 DEF Holds
  <2> QED
    BY <2>2, <2>3, <2>4
<1>19. Sems!TypeOK'
  <2>1. ran' \subseteq Sems!Submission
    BY <1>3, <1>4 DEF Sems!TypeOK
  <2>2. reached' \in [Semaphore -> 0 .. MaxSubmits]
    <3>1. reached \in [Semaphore -> 0 .. MaxSubmits]
      BY DEF Sems!TypeOK
    <3>2. CASE h.do = "work"
      BY <1>4, <3>1, <3>2
    <3>3. CASE h.do = "wait"
      <4>1. CASE submitBackend = "d3d"
        BY <1>4, <3>1, <3>3, <4>1
      <4>2. CASE submitBackend # "d3d"
        <5>1. h.semaphore \in Semaphore /\ reached[h.semaphore] > 0
          BY <1>3, <1>4, <3>3, <4>2 DEF Sems!Passes
        <5>2. reached[h.semaphore] - 1 \in 0 .. MaxSubmits
          BY <3>1, <5>1 DEF Names
        <5> QED
          BY <1>4, <3>1, <3>3, <4>2, <5>1, <5>2
      <4> QED
        BY <4>1, <4>2
    <3>4. CASE h.do = "signal"
      <4>1. h.semaphore \in Semaphore /\ h.value \in 0 .. MaxSubmits
        BY <1>3, <3>4
      <4>2. CASE submitBackend = "d3d"
        BY <1>4, <3>1, <3>4, <4>1, <4>2
      <4>3. CASE submitBackend # "d3d"
        <5> DEFINE s == h.semaphore
        <5>1. ToSignal(s) /\ counter[s] >= 1
          BY <1>9, <3>4, <4>1 DEF ToSignal, SignalsFollow
        <5>2. reached[s] = 0
          BY <4>1, <4>3, <5>1 DEF ReachedIsKnown, Holds
        <5>3. counter[s] \in 0 .. MaxSubmits
          BY <4>1 DEF Sems!TypeOK
        <5>4. reached[s] + 1 \in 0 .. MaxSubmits
          BY <5>1, <5>2, <5>3 DEF Names
        <5> QED
          BY <1>4, <3>1, <3>4, <4>1, <4>3, <5>4
      <4> QED
        BY <4>2, <4>3
    <3> QED
      BY <1>3, <3>2, <3>3, <3>4
  <2>3. stream' \in [Queue -> Seq(Sems!Step)]
    BY <1>2
  <2> QED
    BY <1>20, <2>1, <2>2, <2>3 DEF Sems!TypeOK, Sems!Step, Sems!Submission
<1> QED
  BY <1>10, <1>11, <1>12, <1>13, <1>14, <1>15, <1>17, <1>18, <1>19

(* What SubmitQueue calls.                                                 *)
LEMMA CallsElements ==
  ASSUME NEW n \in Sems!Submission, NEW w, NEW s, w # Sems!None => Sems!Wait(w) \in Sems!Step,
         s # Sems!None => Sems!Signal(s) \in Sems!Step
  PROVE  \E k \in {0, 1}, l \in {0, 1} :
           /\ k = (IF w = Sems!None THEN 0 ELSE 1) /\ l = (IF s = Sems!None THEN 0 ELSE 1)
           /\ Sems!Calls(n, w, s) \in Seq(Sems!Step) /\ Len(Sems!Calls(n, w, s)) = k + 1 + l
           /\ Sems!Calls(n, w, s)[k + 1] = [do |-> "work", of |-> n]
           /\ k = 1 => Sems!Calls(n, w, s)[1] = Sems!Wait(w)
           /\ l = 1 => Sems!Calls(n, w, s)[k + 2] = Sems!Signal(s)
<1> DEFINE a == Sems!If(w, Sems!Wait(w))
           b == <<[do |-> "work", of |-> n]>>
           d == Sems!If(s, Sems!Signal(s))
<1>1. PICK k \in {0, 1} : k = (IF w = Sems!None THEN 0 ELSE 1)
  OBVIOUS
<1>2. PICK l \in {0, 1} : l = (IF s = Sems!None THEN 0 ELSE 1)
  OBVIOUS
<1>3. a \in Seq(Sems!Step) /\ Len(a) = k /\ (k = 1 => a[1] = Sems!Wait(w))
  BY <1>1 DEF Sems!If
<1>4. d \in Seq(Sems!Step) /\ Len(d) = l /\ (l = 1 => d[1] = Sems!Signal(s))
  BY <1>2 DEF Sems!If
<1>5. b \in Seq(Sems!Step) /\ Len(b) = 1 /\ b[1] = [do |-> "work", of |-> n]
  <2>1. [do |-> "work", of |-> n] \in Sems!Step
    BY DEF Sems!Step
  <2> QED
    BY <2>1
<1>6. Sems!Calls(n, w, s) = a \o b \o d
  BY DEF Sems!Calls
<1> HIDE DEF a, b, d
<1>7. /\ a \o b \in Seq(Sems!Step) /\ Len(a \o b) = k + 1
      /\ \A i \in 1 .. k : (a \o b)[i] = a[i]
      /\ (a \o b)[k + 1] = b[1]
  BY <1>3, <1>5, ConcatProperties
<1>8. /\ a \o b \o d \in Seq(Sems!Step) /\ Len(a \o b \o d) = k + 1 + l
      /\ \A i \in 1 .. k + 1 : (a \o b \o d)[i] = (a \o b)[i]
      /\ l = 1 => (a \o b \o d)[k + 2] = d[1]
  <2>1. PICK e : e = a \o b
    OBVIOUS
  <2>2. /\ e \o d \in Seq(Sems!Step) /\ Len(e \o d) = Len(e) + Len(d)
        /\ \A i \in 1 .. Len(e) + Len(d) : (e \o d)[i] = IF i <= Len(e) THEN e[i] ELSE d[i - Len(e)]
    BY <1>4, <1>7, <2>1, ConcatProperties
  <2>3. Len(e) = k + 1 /\ Len(d) = l
    BY <1>4, <1>7, <2>1
  <2>4. l = 1 => (e \o d)[k + 2] = d[1]
    BY <2>2, <2>3
  <2> QED
    BY <2>1, <2>2, <2>3, <2>4
<1> QED
  BY <1>1, <1>2, <1>3, <1>4, <1>5, <1>6, <1>7, <1>8

(* A submission to q, which waits for w and signals s.                     *)
LEMMA StreamGrows ==
  ASSUME SemInv, NEW q \in Queue, NEW c \in Seq(Sems!Step), stream' = [stream EXCEPT ![q] = @ \o c]
  PROVE  /\ stream' \in [Queue -> Seq(Sems!Step)]
         /\ \A r \in Queue : \A i \in At(r) : i \in At(r)' /\ stream'[r][i] = stream[r][i]
         /\ \A r \in Queue : \A i \in At(r)' :
              \/ i \in At(r) /\ stream'[r][i] = stream[r][i]
              \/ r = q /\ \E j \in 1 .. Len(c) : i = Len(stream[q]) + j /\ stream'[q][i] = c[j]
         /\ \A j \in 1 .. Len(c) : Len(stream[q]) + j \in At(q)' /\ stream'[q][Len(stream[q]) + j] = c[j]
<1>1. stream \in [Queue -> Seq(Sems!Step)] /\ \A r \in Queue : Len(stream[r]) \in Nat
  BY SemTypes DEF SemInv
<1>2. Len(c) \in Nat
  OBVIOUS
<1>3. PICK e : e = stream[q]
  OBVIOUS
<1>4. e \in Seq(Sems!Step) /\ Len(e) \in Nat
  BY <1>1, <1>3
<1>5. /\ e \o c \in Seq(Sems!Step) /\ Len(e \o c) = Len(e) + Len(c)
      /\ \A i \in 1 .. Len(e) + Len(c) : (e \o c)[i] = IF i <= Len(e) THEN e[i] ELSE c[i - Len(e)]
  BY <1>4, ConcatProperties
<1>6. /\ stream' \in [Queue -> Seq(Sems!Step)] /\ stream'[q] = e \o c
      /\ \A r \in Queue : r # q => stream'[r] = stream[r]
  BY <1>1, <1>3, <1>5
<1>7. \A i \in 1 .. Len(e) : i \in 1 .. Len(e \o c) /\ (e \o c)[i] = e[i]
  BY <1>2, <1>4, <1>5
<1>8. \A j \in 1 .. Len(c) : Len(e) + j \in 1 .. Len(e \o c) /\ (e \o c)[Len(e) + j] = c[j]
  BY <1>2, <1>4, <1>5
<1>9. ASSUME NEW i \in 1 .. Len(e \o c)
      PROVE  \/ i \in 1 .. Len(e) /\ (e \o c)[i] = e[i]
             \/ \E j \in 1 .. Len(c) : i = Len(e) + j /\ (e \o c)[i] = c[j]
  <2>1. CASE i <= Len(e)
    BY <1>4, <1>5, <2>1
  <2>2. CASE ~(i <= Len(e))
    <3>1. i - Len(e) \in 1 .. Len(c) /\ i = Len(e) + (i - Len(e)) /\ (e \o c)[i] = c[i - Len(e)]
      BY <1>2, <1>4, <1>5, <2>2
    <3> QED
      BY <3>1
  <2> QED
    BY <2>1, <2>2
<1>10. \A r \in Queue : \A i \in At(r) : i \in At(r)' /\ stream'[r][i] = stream[r][i]
  BY <1>3, <1>6, <1>7 DEF At
<1>11. ASSUME NEW r \in Queue, NEW i \in At(r)'
       PROVE  \/ i \in At(r) /\ stream'[r][i] = stream[r][i]
              \/ r = q /\ \E j \in 1 .. Len(c) : i = Len(stream[q]) + j /\ stream'[q][i] = c[j]
  BY <1>3, <1>6, <1>9 DEF At
<1>12. \A j \in 1 .. Len(c) : Len(stream[q]) + j \in At(q)' /\ stream'[q][Len(stream[q]) + j] = c[j]
  BY <1>3, <1>6, <1>8 DEF At
<1> QED
  BY <1>6, <1>10, <1>11, <1>12

(* The wait for a semaphore and its signal are steps of the driver.        *)
LEMMA CallsAreSteps ==
  ASSUME Names, SemInv, NEW w \in Semaphore, count < MaxSubmits
  PROVE  /\ Sems!Wait(w) \in Sems!Step /\ Sems!Signal(w) \in Sems!Step
         /\ counter[w] \in Nat /\ counter[w] + 1 <= MaxSubmits
<1>1. counter[w] \in 0 .. MaxSubmits /\ count \in 0 .. MaxSubmits /\ counter[w] <= count
  BY DEF SemInv, Sems!TypeOK, Given
<1>2. counter[w] \in Nat /\ counter[w] + 1 \in 0 .. MaxSubmits
  BY <1>1 DEF Names
<1>3. \A v \in 0 .. MaxSubmits : /\ [do |-> "wait", semaphore |-> w, value |-> v] \in Sems!Step
                                /\ [do |-> "signal", semaphore |-> w, value |-> v] \in Sems!Step
  BY DEF Sems!Step
<1>4. PICK v \in 0 .. MaxSubmits : v = counter[w] + 1
  BY <1>2
<1>5. Sems!Wait(w) \in Sems!Step
  BY <1>1, <1>3 DEF Sems!Wait
<1>6. Sems!Signal(w) \in Sems!Step
  BY <1>3, <1>4 DEF Sems!Signal
<1>7. counter[w] + 1 <= MaxSubmits
  BY <1>2 DEF Names
<1> QED
  BY <1>2, <1>5, <1>6, <1>7

(* Where the calls of a submission go: W is the place of its work.         *)
PlacesOf(q, w, s, n, W) ==
  /\ W \in At(q)' /\ W \notin At(q) /\ W + 1 \notin At(q)
  /\ stream'[q][W].do = "work" /\ stream'[q][W].of = n
  /\ w # Sems!None =>
       /\ W # 1 /\ W - 1 \in At(q)' /\ W - 1 \notin At(q) /\ stream'[q][W - 1].do = "wait"
       /\ stream'[q][W - 1].semaphore = w /\ stream'[q][W - 1].value = counter[w]
  /\ s # Sems!None =>
       /\ W + 1 \in At(q)' /\ stream'[q][W + 1].do = "signal"
       /\ stream'[q][W + 1].semaphore = s /\ stream'[q][W + 1].value = counter[s] + 1
  /\ \A r \in Queue : \A i \in At(r) : i \in At(r)' /\ stream'[r][i] = stream[r][i]
  /\ \A r \in Queue : \A i \in At(r)' :
       \/ i \in At(r) /\ stream'[r][i] = stream[r][i]
       \/ r = q /\ i = W
       \/ r = q /\ i = W - 1 /\ w # Sems!None
       \/ r = q /\ i = W + 1 /\ s # Sems!None

(* The waits of a submission come first, then its work and its signals.    *)
LEMMA CallsArePlaced ==
  ASSUME Names, SemInv, NEW q \in Queue, NEW w \in Semaphore \cup {Sems!None},
         NEW s \in Semaphore \cup {Sems!None}, Sems!SubmitQueue(q, w, s)
  PROVE  stream' \in [Queue -> Seq(Sems!Step)] /\ \E W \in Nat : PlacesOf(q, w, s, count + 1, W)
<1> DEFINE L == Len(stream[q])
<1>1. /\ count < MaxSubmits /\ stream' = [stream EXCEPT ![q] = @ \o Sems!Calls(count + 1, w, s)]
  BY DEF Sems!SubmitQueue
<1>2. count + 1 \in Sems!Submission /\ L \in Nat
  <2>1. count \in 0 .. MaxSubmits
    BY DEF SemInv, Sems!TypeOK
  <2>2. L \in Nat
    BY SemTypes DEF SemInv
  <2> QED
    BY <1>1, <2>1, <2>2 DEF Names, Sems!Submission
<1>3. /\ w # Sems!None => Sems!Wait(w) \in Sems!Step
      /\ s # Sems!None => Sems!Signal(s) \in Sems!Step
  BY <1>1, CallsAreSteps
<1> HIDE DEF L
<1>4. PICK c : c = Sems!Calls(count + 1, w, s)
  OBVIOUS
<1>5. PICK k \in {0, 1}, l \in {0, 1} :
        /\ k = (IF w = Sems!None THEN 0 ELSE 1) /\ l = (IF s = Sems!None THEN 0 ELSE 1)
        /\ c \in Seq(Sems!Step) /\ Len(c) = k + 1 + l
        /\ c[k + 1] = [do |-> "work", of |-> count + 1]
        /\ k = 1 => c[1] = Sems!Wait(w)
        /\ l = 1 => c[k + 2] = Sems!Signal(s)
  BY <1>2, <1>3, <1>4, CallsElements
<1>6. /\ stream' \in [Queue -> Seq(Sems!Step)]
      /\ \A r \in Queue : \A i \in At(r) : i \in At(r)' /\ stream'[r][i] = stream[r][i]
      /\ \A r \in Queue : \A i \in At(r)' :
           \/ i \in At(r) /\ stream'[r][i] = stream[r][i]
           \/ r = q /\ \E j \in 1 .. Len(c) : i = L + j /\ stream'[q][i] = c[j]
      /\ \A j \in 1 .. Len(c) : L + j \in At(q)' /\ stream'[q][L + j] = c[j]
  BY <1>1, <1>4, <1>5, StreamGrows DEF L
<1>7. PICK W \in Nat : W = L + k + 1
  BY <1>2
<1>8. L = Len(stream[q])
  BY DEF L
<1>9. W \notin At(q) /\ W + 1 \notin At(q) /\ (W # 1 => k = 1 \/ L # 0)
  BY <1>2, <1>7, <1>8 DEF At
<1>10. W \in At(q)' /\ stream'[q][W] = [do |-> "work", of |-> count + 1]
  <2>1. k + 1 \in 1 .. Len(c) /\ W = L + (k + 1)
    BY <1>2, <1>5, <1>7
  <2> QED
    BY <1>5, <1>6, <2>1
<1>11. k = 1 => W # 1 /\ W - 1 \in At(q)' /\ W - 1 \notin At(q) /\ stream'[q][W - 1] = Sems!Wait(w)
  <2>1. k = 1 => 1 \in 1 .. Len(c) /\ W - 1 = L + 1 /\ W # 1
    BY <1>2, <1>5, <1>7
  <2>2. L + 1 \notin At(q)
    BY <1>2, <1>8 DEF At
  <2> QED
    BY <1>5, <1>6, <2>1, <2>2
<1>12. l = 1 => W + 1 \in At(q)' /\ stream'[q][W + 1] = Sems!Signal(s)
  <2>1. l = 1 => k + 2 \in 1 .. Len(c) /\ W + 1 = L + (k + 2)
    BY <1>2, <1>5, <1>7
  <2> QED
    BY <1>5, <1>6, <2>1
<1>13. ASSUME NEW r \in Queue, NEW i \in At(r)', ~(i \in At(r) /\ stream'[r][i] = stream[r][i])
       PROVE  r = q /\ (i = W \/ (i = W - 1 /\ k = 1) \/ (i = W + 1 /\ l = 1))
  <2>1. PICK j \in 1 .. Len(c) : i = L + j
    BY <1>6, <1>13
  <2>2. r = q
    BY <1>6, <1>13
  <2>3. j = k + 1 \/ (j = k /\ k = 1) \/ (j = k + 2 /\ l = 1)
    BY <1>5, <2>1
  <2> QED
    BY <1>2, <1>7, <2>1, <2>2, <2>3
<1>14. k = 1 <=> w # Sems!None
  BY <1>5
<1>15. l = 1 <=> s # Sems!None
  BY <1>5
<1>16. stream'[q][W].do = "work" /\ stream'[q][W].of = count + 1
  BY <1>10
<1>17. w # Sems!None =>
         /\ W # 1 /\ W - 1 \in At(q)' /\ W - 1 \notin At(q) /\ stream'[q][W - 1].do = "wait"
         /\ stream'[q][W - 1].semaphore = w /\ stream'[q][W - 1].value = counter[w]
  BY <1>11, <1>14 DEF Sems!Wait
<1>18. s # Sems!None =>
         /\ W + 1 \in At(q)' /\ stream'[q][W + 1].do = "signal"
         /\ stream'[q][W + 1].semaphore = s /\ stream'[q][W + 1].value = counter[s] + 1
  BY <1>12, <1>15 DEF Sems!Signal
<1>19. \A r \in Queue : \A i \in At(r)' :
         \/ i \in At(r) /\ stream'[r][i] = stream[r][i]
         \/ r = q /\ i = W
         \/ r = q /\ i = W - 1 /\ w # Sems!None
         \/ r = q /\ i = W + 1 /\ s # Sems!None
  BY <1>13, <1>14, <1>15
<1>20. PlacesOf(q, w, s, count + 1, W)
  BY <1>6, <1>9, <1>10, <1>16, <1>17, <1>18, <1>19 DEF PlacesOf
<1> QED
  BY <1>6, <1>20

(* Submit keeps SemInv.                                                    *)
LEMMA SubmitStep ==
  ASSUME Names, SemInv, NEW q \in Queue, NEW w \in Semaphore \cup {Sems!None},
         NEW s \in Semaphore \cup {Sems!None}, Sems!SubmitQueue(q, w, s)
  PROVE  SemInv'
<1> USE DEF SemInv, Works, Waits, Signals
<1>1. PICK n : n = count + 1
  OBVIOUS
<1>2. /\ count < MaxSubmits /\ count' = n /\ n \in Sems!Submission /\ n \notin 1 .. count /\ n # 0
      /\ count \in Nat /\ \A m \in 1 .. count : m \in 1 .. n
  <2>1. count \in 0 .. MaxSubmits /\ count < MaxSubmits /\ count' = count + 1
    BY DEF Sems!TypeOK, Sems!SubmitQueue
  <2> QED
    BY <1>1, <2>1 DEF Names, Sems!Submission
<1>3. submitBackend' = submitBackend /\ reached' = reached /\ ran' = ran
  BY DEF Sems!SubmitQueue
<1>4. \A t \in Semaphore : counter'[t] = IF t = s THEN counter[t] + 1 ELSE counter[t]
  BY DEF Sems!SubmitQueue
<1>5. \A t \in Semaphore : signaller'[t] = IF t = s THEN n ELSE signaller[t]
  BY <1>1 DEF Sems!SubmitQueue
<1>7. /\ needs'[n] = (IF w = Sems!None THEN 0 ELSE signaller[w])
      /\ \A m \in Sems!Submission : m # n => needs'[m] = needs[m]
      /\ needs' = [needs EXCEPT ![n] = IF w = Sems!None THEN 0 ELSE signaller[w]]
  <2>1. needs' = [needs EXCEPT ![n] = IF w = Sems!None THEN 0 ELSE signaller[w]]
    BY <1>1 DEF Sems!SubmitQueue
  <2> QED
    BY <1>2, <2>1 DEF Sems!TypeOK
<1>8. stream' \in [Queue -> Seq(Sems!Step)] /\ \E W \in Nat : PlacesOf(q, w, s, n, W)
  BY <1>1, CallsArePlaced
<1>9. PICK W \in Nat : PlacesOf(q, w, s, n, W)
  BY <1>8
<1>10. w # Sems!None => w \in Semaphore /\ signaller[w] # 0 /\ waiter[w] = 0 /\ ~ToWait(w)
  <2>1. w # Sems!None => w \in Semaphore /\ signaller[w] # 0 /\ waiter[w] = 0
    BY DEF Sems!SubmitQueue, Sems!MayWait
  <2> QED
    BY <2>1 DEF ToWait, WaitsPrecede
<1>11. s # Sems!None =>
         /\ s \in Semaphore /\ ~ToSignal(s) /\ ~ToWait(s) /\ w # s
         /\ signaller[s] = 0 \/ waiter[s] # 0
  <2> SUFFICES ASSUME s # Sems!None
               PROVE  /\ s \in Semaphore /\ ~ToSignal(s) /\ ~ToWait(s) /\ w # s
                      /\ signaller[s] = 0 \/ waiter[s] # 0
    OBVIOUS
  <2>1. s \in Semaphore /\ (signaller[s] = 0 \/ waiter[s] \in ran)
    BY DEF Sems!SubmitQueue, Sems!MaySignal
  <2>2. CASE signaller[s] = 0
    BY <1>10, <2>1, <2>2 DEF ToSignal, ToWait, SignalsFollow, WaitsPrecede
  <2>3. CASE waiter[s] \in ran
    <3>1. waiter[s] # 0 /\ waiter[s] \in Sems!Submission
      <4>1. waiter[s] \in 1 .. count /\ waiter[s] \in Sems!Submission
        BY <2>3 DEF WhatRan, Sems!TypeOK
      <4> QED
        BY <1>2, <4>1
    <3>2. ~ToWait(s)
      BY <2>1, <2>3, <3>1 DEF ToWait, WaitsPrecede, WorkWaits
    <3> QED
      BY <1>10, <2>1, <3>1, <3>2 DEF Given
  <2> QED
    BY <2>1, <2>2, <2>3
<1>12. Sems!None \notin Semaphore
  BY DEF Names
<1>6. \A t \in Semaphore : waiter'[t] = IF t = s THEN 0 ELSE IF t = w THEN n ELSE waiter[t]
  <2>1. waiter' = [t \in Semaphore |-> CASE t = s -> 0 [] t = w -> n [] OTHER -> waiter[t]]
    BY <1>1 DEF Sems!SubmitQueue
  <2>2. \A t \in Semaphore : waiter'[t] = CASE t = s -> 0 [] t = w -> n [] OTHER -> waiter[t]
    BY <2>1
  <2> QED
    BY <1>11, <1>12, <2>2
<1>13. \A r \in Queue : \A i \in At(r)' :
         \/ i \in At(r) /\ stream'[r][i] = stream[r][i]
         \/ r = q /\ i = W
         \/ r = q /\ i = W - 1 /\ w # Sems!None
         \/ r = q /\ i = W + 1 /\ s # Sems!None
  BY <1>9 DEF PlacesOf
<1>14. \A r \in Queue : \A i \in At(r) : i \in At(r)' /\ stream'[r][i] = stream[r][i]
  BY <1>9 DEF PlacesOf
<1>15. /\ W \in At(q)' /\ stream'[q][W].do = "work" /\ stream'[q][W].of = n
       /\ w # Sems!None =>
            /\ W # 1 /\ W - 1 \in At(q)' /\ stream'[q][W - 1].do = "wait"
            /\ stream'[q][W - 1].semaphore = w /\ stream'[q][W - 1].value = counter[w]
       /\ s # Sems!None =>
            /\ W + 1 \in At(q)' /\ stream'[q][W + 1].do = "signal"
            /\ stream'[q][W + 1].semaphore = s /\ stream'[q][W + 1].value = counter[s] + 1
  BY <1>9 DEF PlacesOf
<1>16. \A r \in Queue : \A i \in At(r) : i \in Nat /\ (i # 1 => i - 1 \in At(r))
  <2>1. \A r \in Queue : Len(stream[r]) \in Nat
    BY SemTypes
  <2> QED
    BY <2>1 DEF At
<1>17. ASSUME NEW r \in Queue, NEW i \in At(r)', NEW t, Signals(stream'[r][i], t)
       PROVE  \/ i \in At(r) /\ stream'[r][i] = stream[r][i]
              \/ r = q /\ i = W + 1 /\ s # Sems!None /\ t = s
  BY <1>13, <1>15, <1>17
<1>18. ASSUME NEW r \in Queue, NEW i \in At(r)', NEW t, Waits(stream'[r][i], t)
       PROVE  \/ i \in At(r) /\ stream'[r][i] = stream[r][i]
              \/ r = q /\ i = W - 1 /\ w # Sems!None /\ t = w
  BY <1>13, <1>15, <1>18
<1>19. ASSUME NEW r \in Queue, NEW i \in At(r)', NEW m, Works(stream'[r][i], m)
       PROVE  \/ i \in At(r) /\ stream'[r][i] = stream[r][i]
              \/ r = q /\ i = W /\ m = n
  BY <1>13, <1>15, <1>19
<1>20. ASSUME NEW t \in Semaphore
       PROVE  /\ ToSignal(t)' <=> ToSignal(t) \/ t = s
              /\ ToWait(t)' <=> ToWait(t) \/ t = w
  <2>1. ToSignal(t)' => ToSignal(t) \/ t = s
    BY <1>17 DEF ToSignal
  <2>2. ToWait(t)' => ToWait(t) \/ t = w
    BY <1>18 DEF ToWait
  <2>3. (ToSignal(t) => ToSignal(t)') /\ (ToWait(t) => ToWait(t)')
    BY <1>14 DEF ToSignal, ToWait
  <2>4. (t = s => ToSignal(t)') /\ (t = w => ToWait(t)')
    BY <1>12, <1>15 DEF ToSignal, ToWait
  <2> QED
    BY <2>1, <2>2, <2>3, <2>4
<1>21. ASSUME NEW r \in Queue, NEW i \in At(r), NEW t \in Semaphore
       PROVE  (Signals(stream[r][i], t) => ToSignal(t)) /\ (Waits(stream[r][i], t) => ToWait(t))
  BY DEF ToSignal, ToWait
<1>22. ASSUME NEW r \in Queue, NEW i \in At(r), NEW m \in Sems!Submission, Works(stream[r][i], m)
       PROVE  m # n /\ m \in 1 .. count
  BY <1>2, <1>22 DEF WorkWaits
<1>23. SignalsFollow'
  <2> SUFFICES ASSUME NEW r \in Queue, NEW i \in At(r)', NEW t \in Semaphore, Signals(stream'[r][i], t)
               PROVE  /\ stream'[r][i].value = counter'[t] /\ counter'[t] >= 1 /\ signaller'[t] # 0
                      /\ IF i = 1 THEN signaller'[t] \in ran ELSE Works(stream'[r][i - 1], signaller'[t])
    BY <1>3 DEF SignalsFollow
  <2>1. CASE i \in At(r) /\ stream'[r][i] = stream[r][i]
    <3>1. ToSignal(t) /\ t # s
      BY <1>11, <1>12, <1>21, <2>1
    <3>2. /\ stream[r][i].value = counter[t] /\ counter[t] >= 1 /\ signaller[t] # 0
          /\ IF i = 1 THEN signaller[t] \in ran ELSE Works(stream[r][i - 1], signaller[t])
      BY <2>1 DEF SignalsFollow
    <3>3. i # 1 => stream'[r][i - 1] = stream[r][i - 1]
      BY <1>14, <1>16, <2>1
    <3>4. counter'[t] = counter[t] /\ signaller'[t] = signaller[t]
      BY <1>4, <1>5, <3>1
    <3> QED
      BY <2>1, <3>2, <3>3, <3>4
  <2>2. CASE r = q /\ i = W + 1 /\ s # Sems!None /\ t = s
    <3>1. i # 1 /\ i - 1 = W
      <4>1. W # 0
        BY <1>15 DEF At
      <4> QED
        BY <2>2, <4>1
    <3>2. counter'[t] = counter[t] + 1 /\ signaller'[t] = n /\ counter[t] \in Nat
      BY <1>2, <1>4, <1>5, <2>2, CallsAreSteps
    <3> QED
      BY <1>2, <1>15, <2>2, <3>1, <3>2
  <2> QED
    BY <1>17, <2>1, <2>2
<1>24. SignalsAreOne'
  <2> SUFFICES ASSUME NEW p \in Queue, NEW r \in Queue, NEW i \in At(p)', NEW j \in At(r)',
                      NEW t \in Semaphore, Signals(stream'[p][i], t), Signals(stream'[r][j], t)
               PROVE  p = r /\ i = j
    BY DEF SignalsAreOne, Sems!Submission
  <2>1. CASE t = s
    BY <1>11, <1>12, <1>17, <1>21, <2>1
  <2>2. CASE t # s
    <3>1. i \in At(p) /\ stream'[p][i] = stream[p][i] /\ j \in At(r) /\ stream'[r][j] = stream[r][j]
      BY <1>17, <2>2
    <3> QED
      BY <3>1 DEF SignalsAreOne
  <2> QED
    BY <2>1, <2>2
<1>25. WaitsPrecede'
  <2> SUFFICES ASSUME NEW r \in Queue, NEW i \in At(r)', NEW t \in Semaphore, Waits(stream'[r][i], t)
               PROVE  /\ stream'[r][i].value = counter'[t] /\ signaller'[t] # 0 /\ waiter'[t] # 0
                      /\ i + 1 \in At(r)' /\ Works(stream'[r][i + 1], waiter'[t]) /\ needs'[waiter'[t]] = signaller'[t]
    BY DEF WaitsPrecede
  <2>1. CASE i \in At(r) /\ stream'[r][i] = stream[r][i]
    <3>1. ToWait(t) /\ t # s /\ t # w
      BY <1>10, <1>11, <1>12, <1>21, <2>1
    <3>2. /\ stream[r][i].value = counter[t] /\ signaller[t] # 0 /\ waiter[t] # 0
          /\ i + 1 \in At(r) /\ Works(stream[r][i + 1], waiter[t]) /\ needs[waiter[t]] = signaller[t]
      BY <2>1 DEF WaitsPrecede
    <3>3. i + 1 \in At(r)' /\ stream'[r][i + 1] = stream[r][i + 1]
      BY <1>14, <3>2
    <3>4. counter'[t] = counter[t] /\ signaller'[t] = signaller[t] /\ waiter'[t] = waiter[t]
      BY <1>4, <1>5, <1>6, <3>1
    <3>5. waiter[t] \in Sems!Submission /\ waiter[t] # n
      <4>1. stream[r][i + 1] \in Sems!Step
        BY <3>2, SemTypes
      <4>2. waiter[t] \in Sems!Submission
        BY <3>2, <4>1, SemTypes
      <4> QED
        BY <1>22, <3>2, <4>2
    <3>6. needs'[waiter[t]] = needs[waiter[t]]
      BY <1>7, <3>5
    <3> QED
      BY <2>1, <3>2, <3>3, <3>4, <3>6
  <2>2. CASE r = q /\ i = W - 1 /\ w # Sems!None /\ t = w
    <3>1. i + 1 = W
      BY <2>2
    <3>2. t # s /\ signaller[t] # 0
      BY <1>10, <1>11, <1>12, <2>2
    <3>3. counter'[t] = counter[t] /\ signaller'[t] = signaller[t] /\ waiter'[t] = n
      BY <1>4, <1>5, <1>6, <2>2, <3>2
    <3> QED
      BY <1>2, <1>7, <1>15, <2>2, <3>1, <3>2, <3>3
  <2> QED
    BY <1>18, <2>1, <2>2
<1>26. WorkWaits'
  <2> SUFFICES ASSUME NEW r \in Queue, NEW i \in At(r)', NEW m \in Sems!Submission, Works(stream'[r][i], m)
               PROVE  /\ m \in 1 .. n /\ m \notin ran
                      /\ \/ needs'[m] = 0 \/ needs'[m] \in ran
                         \/ i # 1 /\ \E t \in Semaphore : Waits(stream'[r][i - 1], t) /\ signaller'[t] = needs'[m]
    BY <1>2, <1>3 DEF WorkWaits, Sems!Submission
  <2>1. CASE i \in At(r) /\ stream'[r][i] = stream[r][i]
    <3>1. m # n /\ m \in 1 .. count /\ m \notin ran
      BY <1>22, <2>1 DEF WorkWaits
    <3>2. needs'[m] = needs[m]
      BY <1>7, <3>1
    <3>3. i # 1 => i - 1 \in At(r) /\ stream'[r][i - 1] = stream[r][i - 1]
      BY <1>14, <1>16, <2>1
    <3>4. \A t \in Semaphore : i # 1 /\ Waits(stream[r][i - 1], t) => signaller'[t] = signaller[t]
      BY <1>5, <1>11, <1>12, <1>21, <3>3
    <3>5. \/ needs[m] = 0 \/ needs[m] \in ran
          \/ i # 1 /\ \E t \in Semaphore : Waits(stream[r][i - 1], t) /\ signaller[t] = needs[m]
      BY <2>1 DEF WorkWaits
    <3> QED
      BY <1>2, <3>1, <3>2, <3>3, <3>4, <3>5
  <2>2. CASE r = q /\ i = W /\ m = n
    <3>1. n \notin ran
      BY <1>2 DEF WhatRan
    <3>2. n \in 1 .. n
      BY <1>2 DEF Sems!Submission
    <3>3. CASE w = Sems!None
      BY <1>7, <2>2, <3>1, <3>2, <3>3
    <3>4. CASE w # Sems!None
      <4>1. w \in Semaphore /\ signaller'[w] = signaller[w] /\ needs'[n] = signaller[w]
        BY <1>5, <1>7, <1>10, <1>11, <1>12, <3>4
      <4> QED
        BY <1>15, <2>2, <3>1, <3>2, <3>4, <4>1
    <3> QED
      BY <3>3, <3>4
  <2> QED
    BY <1>19, <2>1, <2>2
<1>27. WorkIsOne'
  <2> SUFFICES ASSUME NEW p \in Queue, NEW r \in Queue, NEW i \in At(p)', NEW j \in At(r)',
                      NEW m \in Sems!Submission, Works(stream'[p][i], m), Works(stream'[r][j], m)
               PROVE  p = r /\ i = j
    BY DEF WorkIsOne
  <2>1. CASE m = n
    BY <1>19, <1>22, <2>1
  <2>2. CASE m # n
    <3>1. i \in At(p) /\ stream'[p][i] = stream[p][i] /\ j \in At(r) /\ stream'[r][j] = stream[r][j]
      BY <1>19, <2>2
    <3> QED
      BY <3>1 DEF WorkIsOne
  <2> QED
    BY <2>1, <2>2
<1>28. WhatRan'
  <2>1. \A m \in ran : m # n /\ m \in Sems!Submission /\ needs'[m] = needs[m]
    BY <1>2, <1>7 DEF WhatRan, Sems!TypeOK
  <2> QED
    BY <1>2, <1>3, <2>1 DEF WhatRan
<1>29. Given'
  <2> SUFFICES ASSUME NEW t \in Semaphore
               PROVE  /\ counter'[t] <= n
                      /\ signaller'[t] # 0 /\ ~ToSignal(t)' => signaller'[t] \in ran
                      /\ waiter'[t] # 0 => ToWait(t)' \/ ~ToSignal(t)'
    BY <1>2, <1>3 DEF Given
  <2>1. counter'[t] <= n
    <3>1. counter[t] <= count /\ counter[t] \in Nat
      BY <1>2, CallsAreSteps DEF Given
    <3> QED
      BY <1>1, <1>2, <1>4, <3>1
  <2>2. signaller'[t] # 0 /\ ~ToSignal(t)' => signaller'[t] \in ran
    BY <1>5, <1>20 DEF Given
  <2>3. waiter'[t] # 0 => ToWait(t)' \/ ~ToSignal(t)'
    BY <1>6, <1>20 DEF Given
  <2> QED
    BY <2>1, <2>2, <2>3
<1>30. ReachedIsKnown'
  <2> SUFFICES ASSUME NEW t \in Semaphore
               PROVE  reached[t] = IF submitBackend = "d3d" THEN IF ToSignal(t)' THEN counter'[t] - 1 ELSE counter'[t]
                                   ELSE IF signaller'[t] # 0 /\ ~ToSignal(t)' /\ (waiter'[t] = 0 \/ ToWait(t)')
                                        THEN 1 ELSE 0
    BY <1>3 DEF ReachedIsKnown, Holds
  <2>1. reached[t] = Holds(t) /\ counter[t] \in Nat
    BY <1>2, CallsAreSteps DEF ReachedIsKnown
  <2>2. CASE t = s
    <3>1. ~ToSignal(t) /\ ~ToWait(t) /\ ToSignal(t)' /\ (signaller[t] = 0 \/ waiter[t] # 0)
      BY <1>11, <1>12, <1>20, <2>2
    <3>2. counter'[t] = counter[t] + 1
      BY <1>4, <2>2
    <3>3. counter[t] + 1 - 1 = counter[t]
      BY <2>1
    <3> QED
      BY <2>1, <3>1, <3>2, <3>3 DEF Holds
  <2>3. CASE t # s
    <3>1. counter'[t] = counter[t] /\ signaller'[t] = signaller[t] /\ (ToSignal(t)' <=> ToSignal(t))
      BY <1>4, <1>5, <1>20, <2>3
    <3>2. waiter[t] = 0 \/ ToWait(t) <=> waiter'[t] = 0 \/ ToWait(t)'
      BY <1>6, <1>10, <1>12, <1>20, <2>3
    <3> QED
      BY <2>1, <3>1, <3>2 DEF Holds
  <2> QED
    BY <2>2, <2>3
<1>31. Sems!TypeOK'
  <2>1. counter' \in [Semaphore -> 0 .. MaxSubmits]
    <3>1. counter' = [t \in Semaphore |-> IF t = s THEN counter[t] + 1 ELSE counter[t]]
      BY DEF Sems!SubmitQueue
    <3>2. \A t \in Semaphore : counter[t] \in 0 .. MaxSubmits /\ counter[t] + 1 \in 0 .. MaxSubmits
      BY <1>2, CallsAreSteps DEF Sems!TypeOK, Names
    <3> QED
      BY <3>1, <3>2
  <2>2. n \in 0 .. MaxSubmits /\ 0 \in 0 .. MaxSubmits
    BY <1>2 DEF Names, Sems!Submission
  <2>3. signaller' \in [Semaphore -> 0 .. MaxSubmits]
    <3>1. signaller' = [t \in Semaphore |-> IF t = s THEN n ELSE signaller[t]]
      BY <1>1 DEF Sems!SubmitQueue
    <3> QED
      BY <2>2, <3>1 DEF Sems!TypeOK
  <2>4. waiter' \in [Semaphore -> 0 .. MaxSubmits]
    <3>1. waiter' = [t \in Semaphore |-> CASE t = s -> 0 [] t = w -> n [] OTHER -> waiter[t]]
      BY <1>1 DEF Sems!SubmitQueue
    <3>2. \A t \in Semaphore : waiter'[t] \in 0 .. MaxSubmits
      BY <1>6, <2>2 DEF Sems!TypeOK
    <3> QED
      BY <3>1, <3>2
  <2>5. needs' \in [Sems!Submission -> 0 .. MaxSubmits]
    BY <1>7, <1>10, <2>2 DEF Sems!TypeOK
  <2> QED
    BY <1>2, <1>3, <1>8, <2>1, <2>2, <2>3, <2>4, <2>5 DEF Sems!TypeOK, Sems!Step, Sems!Submission
<1> QED
  BY <1>23, <1>24, <1>25, <1>26, <1>27, <1>28, <1>29, <1>30, <1>31

(* SubmitQueue of both backends: work runs after the work whose signal it  *)
(* was submitted to wait for, however often a semaphore is used, and a     *)
(* binary semaphore has one signal at most.                                *)
THEOREM WorkRunsAfterItsSignal ==
  ASSUME Names
  PROVE  Sems!Spec => []Sems!RunsAfterItsSignal
<1>1. Sems!Init => SemInv
  <2> SUFFICES ASSUME Sems!Init PROVE SemInv
    OBVIOUS
  <2>1. /\ submitBackend \in Backend /\ count = 0 /\ ran = {}
        /\ \A s \in Semaphore : counter[s] = 0 /\ reached[s] = 0 /\ signaller[s] = 0 /\ waiter[s] = 0
        /\ \A q \in Queue : stream[q] = <<>>
    BY DEF Sems!Init
  <2>2. \A q \in Queue : At(q) = {}
    BY <2>1 DEF At
  <2>3. \A s \in Semaphore : ~ToSignal(s) /\ ~ToWait(s)
    BY <2>2 DEF ToSignal, ToWait
  <2>4. Sems!TypeOK
    <3>1. 0 \in 0 .. MaxSubmits
      BY DEF Names
    <3>2. <<>> \in Seq(Sems!Step)
      OBVIOUS
    <3> QED
      BY <3>1, <3>2 DEF Sems!Init, Sems!TypeOK
  <2>5. SignalsFollow /\ SignalsAreOne /\ WaitsPrecede /\ WorkWaits /\ WorkIsOne
    BY <2>2 DEF SignalsFollow, SignalsAreOne, WaitsPrecede, WorkWaits, WorkIsOne
  <2>6. WhatRan /\ Given /\ ReachedIsKnown
    BY <2>1, <2>3 DEF WhatRan, Given, ReachedIsKnown, Holds
  <2> QED
    BY <2>4, <2>5, <2>6 DEF SemInv
<1>2. SemInv /\ [Sems!Next]_Sems!vars => SemInv'
  <2> SUFFICES ASSUME SemInv, [Sems!Next]_Sems!vars PROVE SemInv'
    OBVIOUS
  <2>1. CASE UNCHANGED Sems!vars
    <3>1. /\ submitBackend' = submitBackend /\ counter' = counter /\ reached' = reached
          /\ stream' = stream /\ count' = count /\ signaller' = signaller /\ waiter' = waiter
          /\ needs' = needs /\ ran' = ran
      BY <2>1 DEF Sems!vars
    <3>2. Sems!TypeOK'
      BY <3>1 DEF SemInv, Sems!TypeOK
    <3>3. \A q \in Queue : At(q)' = At(q)
      BY <3>1 DEF At
    <3>4. \A s \in Semaphore : ToSignal(s)' = ToSignal(s) /\ ToWait(s)' = ToWait(s)
      BY <3>1, <3>3 DEF ToSignal, ToWait
    <3>5. \A s \in Semaphore : Holds(s)' = Holds(s)
      BY <3>1, <3>4 DEF Holds
    <3>6. SignalsFollow' /\ SignalsAreOne'
      BY <3>1, <3>3 DEF SemInv, SignalsFollow, SignalsAreOne
    <3>7. WaitsPrecede' /\ WorkWaits'
      BY <3>1, <3>3 DEF SemInv, WaitsPrecede, WorkWaits
    <3>8. WorkIsOne' /\ WhatRan'
      BY <3>1, <3>3 DEF SemInv, WorkIsOne, WhatRan
    <3>9. Given' /\ ReachedIsKnown'
      BY <3>1, <3>4, <3>5 DEF SemInv, Given, ReachedIsKnown
    <3> QED
      BY <3>2, <3>6, <3>7, <3>8, <3>9 DEF SemInv
  <2> QED
    BY <2>1, AdvanceStep, SubmitStep DEF Sems!Next
<1>3. SemInv => Sems!RunsAfterItsSignal
  <2>1. ASSUME SemInv, NEW s \in Semaphore, submitBackend = "vulkan" PROVE reached[s] <= 1
    BY <2>1 DEF SemInv, ReachedIsKnown, Holds
  <2> QED
    BY <2>1 DEF SemInv, WhatRan, Sems!RunsAfterItsSignal
<1> QED
  BY <1>1, <1>2, <1>3, PTL DEF Sems!Spec

-----------------------------------------------------------------------------
(* D3DPresentation *)

(* A set whose elements are all the same has at most one.                  *)
LEMMA AtMostOne ==
  ASSUME NEW S, \A x, y \in S : x = y
  PROVE  IsFiniteSet(S) /\ Cardinality(S) \in Nat /\ Cardinality(S) <= 1
<1>1. CASE S = {}
  BY <1>1, FS_EmptySet
<1>2. CASE S # {}
  <2>1. PICK x : S = {x}
    BY <1>2
  <2> QED
    BY <2>1, FS_Singleton
<1> QED
  BY <1>1, <1>2

TwoBuffers == BackBuffers \in Nat /\ BackBuffers >= 2

SwapTypes ==
  /\ waitable \in BOOLEAN /\ queued \subseteq Swap!Buffer /\ shown \subseteq Swap!Buffer
  /\ current \in Swap!Buffer

(* Who has the one frame: the waitable object, the renderer or the queue.  *)
OneToken ==
  /\ waitable => queued = {}
  /\ swapPhase \in {"testing", "acquired"} => ~waitable /\ queued = {}
  /\ \A a, b \in queued : a = b

(* The buffer presented last, shown or not, is the one before the current. *)
OneBehind ==
  /\ \A b \in queued : (b + 1) % BackBuffers = current
  /\ queued = {} => \A b \in shown : (b + 1) % BackBuffers = current

HasTheCurrent == swapPhase = "acquired" => swapImageIndex = current

SwapInv == SwapTypes /\ OneToken /\ OneBehind /\ HasTheCurrent

(* The next buffer is another one.                                         *)
LEMMA NextBuffer ==
  ASSUME TwoBuffers, NEW b \in Swap!Buffer
  PROVE  (b + 1) % BackBuffers \in Swap!Buffer /\ (b + 1) % BackBuffers # b
  BY DEF TwoBuffers, Swap!Buffer

(* No step gives the frame to two, or leaves the buffers out of step.      *)
LEMMA SwapStep ==
  ASSUME TwoBuffers, SwapInv, [Swap!Next]_Swap!vars
  PROVE  SwapInv'
<1> USE DEF SwapInv
<1>1. CASE Swap!AcquireNextImage \/ Swap!AcquireTimesOut \/ Swap!Draw \/ Swap!Destroy
           \/ (\E w \in {"visible", "covered", "minimised"} : Swap!WindowChanges(w))
  <2>1. /\ waitable' = waitable /\ queued' = queued /\ shown' = shown /\ current' = current
        /\ swapImageIndex' = swapImageIndex
    BY <1>1 DEF Swap!AcquireNextImage, Swap!AcquireTimesOut, Swap!Draw, Swap!Destroy, Swap!WindowChanges, Swap!frame
  <2>2. swapPhase' \in {"waiting", "ready", "destroyed"} \/ swapPhase' = swapPhase
    BY <1>1 DEF Swap!AcquireNextImage, Swap!AcquireTimesOut, Swap!Draw, Swap!Destroy, Swap!WindowChanges
  <2> QED
    BY <2>1, <2>2 DEF SwapTypes, OneToken, OneBehind, HasTheCurrent
<1>2. CASE Swap!Waited
  <2>1. /\ swapPhase = "waiting" /\ waitable /\ waitable' = FALSE /\ swapPhase' \in {"ready", "testing"}
        /\ queued' = queued /\ shown' = shown /\ current' = current /\ swapImageIndex' = swapImageIndex
    BY <1>2 DEF Swap!Waited
  <2> QED
    BY <2>1 DEF SwapTypes, OneToken, OneBehind, HasTheCurrent
<1>3. CASE Swap!Tested
  <2>1. /\ swapPhase = "testing" /\ waitable' = waitable /\ queued' = queued /\ shown' = shown /\ current' = current
        /\ swapPhase' = "ready" \/ (swapPhase' = "acquired" /\ swapImageIndex' = current)
    BY <1>3 DEF Swap!Tested
  <2> QED
    BY <2>1 DEF SwapTypes, OneToken, OneBehind, HasTheCurrent
<1>4. CASE Swap!PresentQueue
  <2>1. /\ swapPhase = "acquired" /\ swapPhase' = "ready" /\ waitable' = waitable /\ shown' = shown
        /\ swapImageIndex' = swapImageIndex
        /\ \/ queued' = queued \cup {current} /\ current' = (current + 1) % BackBuffers
           \/ queued' = queued /\ current' = current
    BY <1>4 DEF Swap!PresentQueue
  <2>2. waitable = FALSE /\ queued = {} /\ current \in Swap!Buffer
    BY <2>1 DEF SwapTypes, OneToken
  <2>3. CASE queued' = queued /\ current' = current
    BY <2>1, <2>2, <2>3 DEF SwapTypes, OneToken, OneBehind, HasTheCurrent
  <2>4. CASE queued' = queued \cup {current} /\ current' = (current + 1) % BackBuffers
    <3>1. queued' = {current} /\ current' \in Swap!Buffer
      BY <2>2, <2>4, NextBuffer
    <3> QED
      BY <2>1, <2>2, <2>4, <3>1 DEF SwapTypes, OneToken, OneBehind, HasTheCurrent
  <2> QED
    BY <2>1, <2>3, <2>4
<1>5. CASE Swap!Resize
  <2>1. /\ swapPhase = "ready" /\ queued = {} /\ current' = 0 /\ shown' = {} /\ waitable' = waitable
        /\ queued' = queued /\ swapPhase' = swapPhase
    BY <1>5 DEF Swap!Resize
  <2>2. 0 \in Swap!Buffer
    BY DEF TwoBuffers, Swap!Buffer
  <2> QED
    BY <2>1, <2>2 DEF SwapTypes, OneToken, OneBehind, HasTheCurrent
<1>6. ASSUME NEW b \in Swap!Buffer, Swap!Show(b) PROVE SwapInv'
  <2>1. /\ b \in queued /\ queued' = queued \ {b} /\ shown' = {b} /\ waitable' = TRUE
        /\ current' = current /\ swapImageIndex' = swapImageIndex /\ swapPhase' = swapPhase
    BY <1>6 DEF Swap!Show
  <2>2. queued = {b} /\ queued' = {}
    BY <2>1 DEF OneToken
  <2> QED
    BY <2>1, <2>2 DEF SwapTypes, OneToken, OneBehind, HasTheCurrent
<1>7. CASE UNCHANGED Swap!vars
  BY <1>7 DEF Swap!vars, Swap!frame, SwapTypes, OneToken, OneBehind, HasTheCurrent
<1> QED
  BY <1>1, <1>2, <1>3, <1>4, <1>5, <1>6, <1>7 DEF Swap!Next

(* The waitable object, a frame in the renderer and a frame to be shown    *)
(* are one token, and the renderer draws to the buffer DXGI will present,  *)
(* however many buffers there are and whatever the window does.            *)
THEOREM OneFrameAtATime ==
  ASSUME TwoBuffers
  PROVE  Swap!Spec => [](Swap!OneFrameAhead /\ Swap!DrawsToTheCurrent)
<1>1. Swap!Init => SwapInv
  BY DEF Swap!Init, SwapInv, SwapTypes, OneToken, OneBehind, HasTheCurrent, Swap!Buffer, TwoBuffers
<1>2. SwapInv /\ [Swap!Next]_Swap!vars => SwapInv'
  BY SwapStep
<1>3. SwapInv => Swap!OneFrameAhead
  <2> SUFFICES ASSUME SwapInv PROVE Swap!OneFrameAhead
    OBVIOUS
  <2>1. \A S : Swap!Cardinality(S) = Cardinality(S)
    BY DEF Swap!Cardinality, Cardinality
  <2>2. Cardinality(queued) \in Nat /\ Cardinality(queued) <= 1
    BY AtMostOne DEF SwapInv, OneToken
  <2>3. queued = {} => Cardinality(queued) = 0
    BY FS_EmptySet
  <2> QED
    BY <2>1, <2>2, <2>3 DEF Swap!OneFrameAhead, SwapInv, OneToken
<1>4. SwapInv => Swap!DrawsToTheCurrent
  <2> SUFFICES ASSUME SwapInv, swapPhase = "acquired"
               PROVE  swapImageIndex = current /\ swapImageIndex \notin queued \cup shown
    BY DEF Swap!DrawsToTheCurrent
  <2>1. swapImageIndex = current /\ queued = {} /\ current \in Swap!Buffer
    BY DEF SwapInv, OneToken, HasTheCurrent, SwapTypes
  <2>2. \A b \in shown : (b + 1) % BackBuffers = current /\ b \in Swap!Buffer
    BY <2>1 DEF SwapInv, OneBehind, SwapTypes
  <2>3. current \notin shown
    BY <2>1, <2>2, NextBuffer
  <2> QED
    BY <2>1, <2>3
<1> QED
  BY <1>1, <1>2, <1>3, <1>4, PTL DEF Swap!Spec

-----------------------------------------------------------------------------
(* VulkanPresentation *)

(* The renderer resizes when an acquisition has failed, and draws to the   *)
(* image it has.                                                           *)
Rings ==
  /\ BufferCount \in Nat \ {0} /\ FramesToRun \in 1 .. BufferCount /\ Habits = {}

(* The place of the ring that lies d before the one taken last, and        *)
(* whether that one is no frame's yet.                                     *)
Back(d) == IF acquireIndex >= d THEN acquireIndex - d ELSE acquireIndex - d + BufferCount
Taken == IF chainPhase \in {"acquiring", "failed", "acquired"} THEN 1 ELSE 0
InWork(i) == \E k \in 1 .. Len(work) : ~work[k].run /\ work[k].render = i
Drawing(i) == i \in finished \/ InWork(i)

(* The frames have the places of the ring before the one taken last, in    *)
(* their order, and less than a round of them.                             *)
RingHolds ==
  /\ acquireIndex = Chain!NotAcquired => work = <<>> /\ chainPhase = "ready"
  /\ Len(work) + Taken <= FramesToRun
  /\ \A k \in 1 .. Len(work) : work[k].acquire = Back(Taken + Len(work) - k)

(* A signalled acquire semaphore has a frame to wait for it, or will have. *)
AcquiredAreAwaited ==
  /\ \A k \in 1 .. Len(work) : ~work[k].run => work[k].acquire \in acquired
  /\ chainPhase = "acquired" => acquireIndex \in acquired
  /\ \A i \in acquired :
       \/ chainPhase = "acquired" /\ i = acquireIndex
       \/ \E k \in 1 .. Len(work) : ~work[k].run /\ work[k].acquire = i

(* A render semaphore is signalled, or about to be, for an image that is   *)
(* submitted or queued to be shown, and once.                              *)
RendersOnce ==
  /\ \A k \in 1 .. Len(work) : ~work[k].run => work[k].render \notin finished
  /\ \A j, k \in 1 .. Len(work) : ~work[j].run /\ ~work[k].run /\ work[j].render = work[k].render => j = k
  /\ \A i \in Chain!Image :
       Drawing(i) <=> image[i] = "queued" \/ (chainPhase = "submitted" /\ i = chainImageIndex)

(* The renderer has the image it acquired; a present for every queued one. *)
HasItsImage ==
  /\ chainPhase \in {"acquired", "submitted"} => image[chainImageIndex] = "renderer"
  /\ chainPhase = "submitted" => presenting
  /\ \A i \in Chain!Image :
       image[i] = "renderer" => chainPhase \in {"acquired", "submitted"} /\ i = chainImageIndex
PresentsWait ==
  /\ \A k \in 1 .. Len(presents) : presents[k].wait = presents[k].image /\ image[presents[k].image] = "queued"
  /\ \A j, k \in 1 .. Len(presents) : presents[j].image = presents[k].image => j = k
  /\ \A i \in Chain!Image : image[i] = "queued" => \E k \in 1 .. Len(presents) : presents[k].image = i

DrawnFirst ==
  \A i \in Chain!Image : i \in finished \/ image[i] = "shown" => i \in chainDrawn

ChainInv ==
  /\ Chain!TypeOK /\ RingHolds /\ AcquiredAreAwaited /\ RendersOnce /\ HasItsImage /\ PresentsWait
  /\ DrawnFirst

(* What TypeOK says of what the variables hold.                            *)
LEMMA ChainTypes ==
  ASSUME Chain!TypeOK, Rings
  PROVE  /\ acquireIndex \in Int /\ BufferCount \in Nat \ {0} /\ FramesToRun \in Nat /\ FramesToRun <= BufferCount
         /\ acquireIndex = Chain!NotAcquired \/ (0 <= acquireIndex /\ acquireIndex < BufferCount)
         /\ \A i : i \in Chain!Image <=> i \in Int /\ 0 <= i /\ i < BufferCount
         /\ Chain!NotAcquired = -1 /\ Chain!NoImage = -1
         /\ work \in Seq(Chain!Frame) /\ Len(work) \in Nat /\ DOMAIN work = 1 .. Len(work)
         /\ \A k \in 1 .. Len(work) : /\ work[k] \in Chain!Frame /\ work[k].queue \in Queue
                                      /\ work[k].acquire \in Chain!Image /\ work[k].render \in Chain!Image
                                      /\ work[k].run \in BOOLEAN
         /\ presents \in Seq(Chain!Present) /\ Len(presents) \in Nat /\ DOMAIN presents = 1 .. Len(presents)
         /\ \A k \in 1 .. Len(presents) : presents[k] \in Chain!Present /\ presents[k].image \in Chain!Image
<1>1. acquireIndex \in Chain!Image \cup {Chain!NotAcquired} /\ work \in Seq(Chain!Frame) /\ presents \in Seq(Chain!Present)
  BY DEF Chain!TypeOK
<1>2. BufferCount \in Nat \ {0} /\ FramesToRun \in 1 .. BufferCount
  BY DEF Rings
<1>3. \A i : i \in Chain!Image <=> i \in Int /\ 0 <= i /\ i < BufferCount
  BY <1>2 DEF Chain!Image
<1>4. Chain!NotAcquired = -1 /\ Chain!NoImage = -1
  BY DEF Chain!NotAcquired, Chain!NoImage
<1>5. Len(work) \in Nat /\ DOMAIN work = 1 .. Len(work) /\ \A k \in 1 .. Len(work) : work[k] \in Chain!Frame
  BY <1>1, LenProperties, ElementOfSeq
<1>6. Len(presents) \in Nat /\ DOMAIN presents = 1 .. Len(presents) /\ \A k \in 1 .. Len(presents) : presents[k] \in Chain!Present
  BY <1>1, LenProperties, ElementOfSeq
<1>7. \A f \in Chain!Frame : f.queue \in Queue /\ f.acquire \in Chain!Image /\ f.render \in Chain!Image /\ f.run \in BOOLEAN
  BY DEF Chain!Frame
<1>8. \A p \in Chain!Present : p.image \in Chain!Image
  BY DEF Chain!Present
<1> QED
  BY <1>1, <1>2, <1>3, <1>4, <1>5, <1>6, <1>7, <1>8

(* The conjuncts that speak of the work and the images alone.              *)
LEMMA WorkStays ==
  ASSUME work' = work, finished' = finished
  PROVE  \A i : Drawing(i)' <=> Drawing(i)
  BY DEF Drawing, InWork

(* AcquireNextImage goes to the next place of the ring, which is free: the *)
(* wait for the frames in flight has freed it.                             *)
LEMMA AcquireStep ==
  ASSUME Rings, ChainInv, Chain!AcquireNextImage
  PROVE  ChainInv'
<1> USE DEF ChainInv
<1> DEFINE N == BufferCount
<1>1. /\ chainPhase = "ready" /\ chainPhase' = "acquiring" /\ Len(work) < FramesToRun
      /\ acquireIndex' = (acquireIndex + 1) % BufferCount /\ isAcquireSuccess' = FALSE
      /\ chainImageIndex' = chainImageIndex /\ presenting' = presenting /\ outOfDate' = outOfDate
      /\ acquired' = acquired /\ finished' = finished /\ work' = work /\ presents' = presents
      /\ image' = image /\ chainDrawn' = chainDrawn
  BY DEF Chain!AcquireNextImage, Chain!gpu, Rings
<1>2. /\ acquireIndex \in Int /\ BufferCount \in Nat \ {0} /\ FramesToRun \in Nat /\ FramesToRun <= BufferCount
      /\ acquireIndex = -1 \/ (0 <= acquireIndex /\ acquireIndex < BufferCount)
      /\ \A i : i \in Chain!Image <=> i \in Int /\ 0 <= i /\ i < BufferCount
      /\ Chain!NotAcquired = -1 /\ Len(work) \in Nat
  BY ChainTypes
<1>3. /\ acquireIndex' = IF acquireIndex + 1 = BufferCount THEN 0 ELSE acquireIndex + 1
      /\ acquireIndex' \in Chain!Image
  <2>1. CASE acquireIndex + 1 = BufferCount
    BY <1>1, <1>2, <2>1
  <2>2. CASE acquireIndex + 1 < BufferCount
    <3>1. (acquireIndex + 1) % BufferCount = acquireIndex + 1
      BY <1>2, <2>2
    <3> QED
      BY <1>1, <1>2, <2>2, <3>1
  <2> QED
    BY <1>2, <2>1, <2>2
<1>4. Chain!TypeOK'
  BY <1>1, <1>3 DEF Chain!TypeOK
<1>5. RingHolds'
  <2>1. Taken = 0 /\ Taken' = 1
    BY <1>1 DEF Taken
  <2>2. acquireIndex' # -1
    BY <1>2, <1>3
  <2>3. Len(work') + Taken' <= FramesToRun
    BY <1>1, <1>2, <2>1
  <2>4. ASSUME NEW k \in 1 .. Len(work')
        PROVE  (work[k].acquire = Back(Taken + Len(work) - k))'
    <3>1. k \in 1 .. Len(work) /\ work # <<>>
      BY <1>1, EmptySeq, <2>4
    <3>2. acquireIndex # -1 /\ work[k].acquire = Back(0 + Len(work) - k)
      BY <1>2, <2>1, <3>1 DEF RingHolds
    <3>3. Back(1 + Len(work) - k)' = Back(0 + Len(work) - k)
      BY <1>1, <1>2, <1>3, <3>1, <3>2 DEF Back
    <3> QED
      BY <1>1, <2>1, <3>2, <3>3
  <2> QED
    BY <1>2, <2>2, <2>3, <2>4 DEF RingHolds, Chain!NotAcquired
<1>6. AcquiredAreAwaited' /\ HasItsImage' /\ PresentsWait' /\ DrawnFirst'
  BY <1>1 DEF AcquiredAreAwaited, HasItsImage, PresentsWait, DrawnFirst
<1>7. RendersOnce'
  BY <1>1, WorkStays DEF RendersOnce
<1> QED
  BY <1>4, <1>5, <1>6, <1>7

(* An acquisition fails: the place taken is given back.                    *)
LEMMA FailStep ==
  ASSUME Rings, ChainInv, Chain!AcquireFails \/ Chain!WindowChanges \/ UNCHANGED Chain!vars
  PROVE  ChainInv'
<1> USE DEF ChainInv
<1>1. /\ acquireIndex' = acquireIndex /\ isAcquireSuccess' = isAcquireSuccess
      /\ chainImageIndex' = chainImageIndex /\ presenting' = presenting
      /\ acquired' = acquired /\ finished' = finished /\ work' = work /\ presents' = presents
      /\ image' = image /\ chainDrawn' = chainDrawn
      /\ outOfDate' = outOfDate \/ outOfDate' = TRUE
      /\ chainPhase' = chainPhase \/ (chainPhase = "acquiring" /\ chainPhase' = "failed")
  BY DEF Chain!AcquireFails, Chain!WindowChanges, Chain!vars, Chain!chain, Chain!gpu
<1>2. Chain!TypeOK'
  BY <1>1 DEF Chain!TypeOK
<1>3. RingHolds'
  <2>1. Taken' = Taken
    BY <1>1 DEF Taken
  <2>2. chainPhase = "ready" => chainPhase' = "ready"
    BY <1>1
  <2> QED
    BY <1>1, <2>1, <2>2 DEF RingHolds, Back, Chain!NotAcquired
<1>4. AcquiredAreAwaited' /\ HasItsImage' /\ PresentsWait' /\ DrawnFirst'
  BY <1>1 DEF AcquiredAreAwaited, HasItsImage, PresentsWait, DrawnFirst
<1>5. RendersOnce'
  BY <1>1, WorkStays DEF RendersOnce
<1> QED
  BY <1>2, <1>3, <1>4, <1>5

(* An acquisition succeeds: the renderer has the image, and the semaphore  *)
(* of the place taken is signalled.                                        *)
LEMMA SucceedStep ==
  ASSUME Rings, ChainInv, NEW i \in Chain!Image, Chain!AcquireSucceeds(i)
  PROVE  ChainInv'
<1> USE DEF ChainInv
<1>1. /\ chainPhase = "acquiring" /\ chainPhase' = "acquired" /\ image[i] = "engine"
      /\ acquireIndex' = acquireIndex /\ isAcquireSuccess' = TRUE
      /\ chainImageIndex' = i /\ presenting' = FALSE
      /\ acquired' = acquired \cup {acquireIndex} /\ finished' = finished /\ work' = work /\ presents' = presents
      /\ image' = [image EXCEPT ![i] = "renderer"] /\ chainDrawn' = chainDrawn \ {i}
      /\ outOfDate' = outOfDate
  BY DEF Chain!AcquireSucceeds
<1>2. acquireIndex # Chain!NotAcquired /\ acquireIndex \in Chain!Image
  BY <1>1 DEF RingHolds, Chain!TypeOK
<1>3. image \in [Chain!Image -> {"engine", "renderer", "queued", "shown"}]
  BY DEF Chain!TypeOK
<1>4. image'[i] = "renderer" /\ \A j \in Chain!Image : j # i => image'[j] = image[j]
  BY <1>1, <1>3
<1>5. Chain!TypeOK'
  BY <1>1, <1>2, <1>3 DEF Chain!TypeOK
<1>6. RingHolds'
  <2>1. Taken' = Taken
    BY <1>1 DEF Taken
  <2> QED
    BY <1>1, <1>2, <2>1 DEF RingHolds, Back, Chain!NotAcquired
<1>7. AcquiredAreAwaited'
  BY <1>1 DEF AcquiredAreAwaited
<1>8. \A j \in Chain!Image : image[j] # "renderer"
  BY <1>1 DEF HasItsImage
<1>9. HasItsImage'
  BY <1>1, <1>4, <1>8 DEF HasItsImage
<1>10. RendersOnce'
  <2>1. \A j \in Chain!Image : image'[j] = "queued" <=> image[j] = "queued"
    BY <1>1, <1>4
  <2> QED
    BY <1>1, <2>1, WorkStays DEF RendersOnce
<1>11. PresentsWait'
  <2>1. \A k \in 1 .. Len(presents) : presents[k].image # i /\ presents[k].image \in Chain!Image
    BY <1>1, ChainTypes DEF PresentsWait
  <2> QED
    BY <1>1, <1>4, <2>1 DEF PresentsWait
<1>12. DrawnFirst'
  <2>1. i \notin finished
    BY <1>1 DEF RendersOnce, Drawing
  <2> QED
    BY <1>1, <1>4, <2>1 DEF DrawnFirst
<1> QED
  BY <1>5, <1>6, <1>7, <1>9, <1>10, <1>11, <1>12

(* The frame drawn to the image is submitted.                              *)
LEMMA SubmitToScreenStep ==
  ASSUME Rings, ChainInv, NEW q \in Queue, Chain!SubmitQueue(q)
  PROVE  ChainInv'
<1> USE DEF ChainInv
<1> DEFINE f == [queue |-> q, acquire |-> acquireIndex, render |-> chainImageIndex, run |-> FALSE]
<1>1. /\ chainPhase = "acquired" /\ chainPhase' = "submitted" /\ work' = Append(work, f)
      /\ acquireIndex' = acquireIndex /\ isAcquireSuccess' = isAcquireSuccess
      /\ chainImageIndex' = chainImageIndex /\ presenting' = TRUE
      /\ acquired' = acquired /\ finished' = finished /\ presents' = presents
      /\ image' = image /\ chainDrawn' = chainDrawn /\ outOfDate' = outOfDate
  BY DEF Chain!SubmitQueue
<1>2. acquireIndex # Chain!NotAcquired /\ acquireIndex \in Chain!Image /\ chainImageIndex \in Chain!Image
  BY <1>1 DEF RingHolds, Chain!TypeOK
<1>3. f \in Chain!Frame /\ work \in Seq(Chain!Frame)
  BY <1>2 DEF Chain!Frame, Chain!TypeOK
<1>4. PICK L \in Nat : L = Len(work)
  BY ChainTypes
<1>5. /\ work' \in Seq(Chain!Frame) /\ Len(work') = L + 1
      /\ \A k \in 1 .. L : work'[k] = work[k]
      /\ work'[L + 1] = f
  BY <1>1, <1>3, <1>4, AppendProperties
<1>6. f.acquire = acquireIndex /\ f.render = chainImageIndex /\ f.run = FALSE
  OBVIOUS
<1>7. Chain!TypeOK'
  BY <1>1, <1>5 DEF Chain!TypeOK
<1>8. RingHolds'
  <2>1. Taken = 1 /\ Taken' = 0
    BY <1>1 DEF Taken
  <2>2. acquireIndex \in Int /\ 0 <= acquireIndex
    BY <1>2, ChainTypes
  <2>3. \A k \in 1 .. L + 1 : work'[k].acquire = Back(0 + (L + 1) - k)
    <3>1. ASSUME NEW k \in 1 .. L PROVE work'[k].acquire = Back(0 + (L + 1) - k)
      <4>1. work[k].acquire = Back(1 + L - k)
        BY <1>4, <2>1 DEF RingHolds
      <4>2. 0 + (L + 1) - k = 1 + L - k
        OBVIOUS
      <4> QED
        BY <1>5, <4>1, <4>2
    <3>2. Back(0 + (L + 1) - (L + 1)) = acquireIndex
      BY <2>2 DEF Back
    <3>3. \A k \in 1 .. L + 1 : k \in 1 .. L \/ k = L + 1
      OBVIOUS
    <3> SUFFICES ASSUME NEW k \in 1 .. L + 1 PROVE work'[k].acquire = Back(0 + (L + 1) - k)
      OBVIOUS
    <3>4. CASE k = L + 1
      BY <1>5, <1>6, <3>2, <3>4
    <3> QED
      BY <3>1, <3>3, <3>4
  <2>4. \A d : Back(d)' = Back(d)
    BY <1>1 DEF Back
  <2>5. Len(work') + Taken' <= FramesToRun
    BY <1>4, <1>5, <2>1 DEF RingHolds
  <2>6. acquireIndex' # Chain!NotAcquired
    BY <1>1, <1>2
  <2> QED
    BY <1>5, <2>1, <2>3, <2>4, <2>5, <2>6 DEF RingHolds, Chain!NotAcquired
<1>9. AcquiredAreAwaited'
  <2>1. \A k \in 1 .. L + 1 : ~work'[k].run => work'[k].acquire \in acquired
    BY <1>1, <1>4, <1>5, <1>6 DEF AcquiredAreAwaited
  <2>2. \A i \in acquired : \E k \in 1 .. L + 1 : ~work'[k].run /\ work'[k].acquire = i
    <3> SUFFICES ASSUME NEW i \in acquired PROVE \E k \in 1 .. L + 1 : ~work'[k].run /\ work'[k].acquire = i
      OBVIOUS
    <3>1. CASE i = acquireIndex
      <4>1. L + 1 \in 1 .. L + 1
        OBVIOUS
      <4> QED
        BY <1>5, <1>6, <3>1, <4>1
    <3>2. CASE i # acquireIndex
      <4>1. PICK k \in 1 .. L : ~work[k].run /\ work[k].acquire = i
        BY <1>4, <3>2 DEF AcquiredAreAwaited
      <4> QED
        BY <1>5, <4>1
    <3> QED
      BY <3>1, <3>2
  <2> QED
    BY <1>1, <1>5, <2>1, <2>2 DEF AcquiredAreAwaited
<1>10. HasItsImage' /\ PresentsWait' /\ DrawnFirst'
  BY <1>1 DEF HasItsImage, PresentsWait, DrawnFirst
<1>11. image[chainImageIndex] = "renderer" /\ ~Drawing(chainImageIndex)
  BY <1>1, <1>2 DEF HasItsImage, RendersOnce
<1>12. \A i : Drawing(i)' <=> Drawing(i) \/ i = chainImageIndex
  <2>1. \A i : InWork(i)' <=> InWork(i) \/ i = chainImageIndex
    <3> SUFFICES ASSUME NEW i PROVE InWork(i)' <=> InWork(i) \/ i = chainImageIndex
      OBVIOUS
    <3>1. InWork(i)' <=> \E k \in 1 .. L + 1 : ~work'[k].run /\ work'[k].render = i
      BY <1>5 DEF InWork
    <3>2. InWork(i) <=> \E k \in 1 .. L : ~work[k].run /\ work[k].render = i
      BY <1>4 DEF InWork
    <3>3. \A k \in 1 .. L + 1 : k \in 1 .. L \/ k = L + 1
      OBVIOUS
    <3>4. L + 1 \in 1 .. L + 1 /\ \A k \in 1 .. L : k \in 1 .. L + 1
      OBVIOUS
    <3> QED
      BY <1>5, <1>6, <3>1, <3>2, <3>3, <3>4
  <2> QED
    BY <1>1, <2>1 DEF Drawing
<1>13. RendersOnce'
  <2>1. \A k \in 1 .. L : ~work[k].run => work[k].render # chainImageIndex
    BY <1>4, <1>11 DEF Drawing, InWork
  <2>2. chainImageIndex \notin finished
    BY <1>11 DEF Drawing
  <2>3. \A k \in 1 .. L + 1 : ~work'[k].run => work'[k].render \notin finished
    BY <1>4, <1>5, <1>6, <2>2 DEF RendersOnce
  <2>4. \A j, k \in 1 .. L + 1 : ~work'[j].run /\ ~work'[k].run /\ work'[j].render = work'[k].render => j = k
    <3>1. \A j, k \in 1 .. L : ~work[j].run /\ ~work[k].run /\ work[j].render = work[k].render => j = k
      BY <1>4 DEF RendersOnce
    <3>2. \A k \in 1 .. L + 1 : k \in 1 .. L \/ k = L + 1
      OBVIOUS
    <3> QED
      BY <1>5, <1>6, <2>1, <3>1, <3>2
  <2>5. \A i \in Chain!Image : Drawing(i)' <=> image'[i] = "queued" \/ (chainPhase' = "submitted" /\ i = chainImageIndex')
    BY <1>1, <1>12 DEF RendersOnce
  <2> QED
    BY <1>1, <1>5, <2>3, <2>4, <2>5 DEF RendersOnce
<1> QED
  BY <1>7, <1>8, <1>9, <1>10, <1>13

(* The image is queued to be shown.                                        *)
LEMMA PresentStep ==
  ASSUME Rings, ChainInv, Chain!PresentQueue
  PROVE  ChainInv'
<1> USE DEF ChainInv
<1> DEFINE p == [wait |-> chainImageIndex, image |-> chainImageIndex]
<1>1. /\ chainPhase = "submitted" /\ chainPhase' = "ready" /\ work' = work
      /\ acquireIndex' = acquireIndex /\ isAcquireSuccess' = isAcquireSuccess
      /\ chainImageIndex' = chainImageIndex /\ presenting' = FALSE
      /\ acquired' = acquired /\ finished' = finished
      /\ presents' = Append(presents, [wait |-> IF presenting THEN chainImageIndex ELSE Chain!NoImage, image |-> chainImageIndex])
      /\ image' = [image EXCEPT ![chainImageIndex] = "queued"] /\ chainDrawn' = chainDrawn /\ outOfDate' = outOfDate
  BY DEF Chain!PresentQueue, Rings
<1>2. presents' = Append(presents, p)
  BY <1>1 DEF HasItsImage
<1>3. chainImageIndex \in Chain!Image /\ presents \in Seq(Chain!Present)
      /\ image \in [Chain!Image -> {"engine", "renderer", "queued", "shown"}]
  BY DEF Chain!TypeOK
<1>4. p \in Chain!Present
  BY <1>3 DEF Chain!Present
<1>5. PICK L \in Nat : L = Len(presents)
  BY ChainTypes
<1>6. /\ presents' \in Seq(Chain!Present) /\ Len(presents') = L + 1
      /\ \A k \in 1 .. L : presents'[k] = presents[k]
      /\ presents'[L + 1] = p
  BY <1>2, <1>3, <1>4, <1>5, AppendProperties
<1>7. image[chainImageIndex] = "renderer" /\ image'[chainImageIndex] = "queued"
      /\ \A j \in Chain!Image : j # chainImageIndex => image'[j] = image[j]
  BY <1>1, <1>3 DEF HasItsImage
<1>8. Chain!TypeOK'
  BY <1>1, <1>3, <1>6 DEF Chain!TypeOK
<1>9. RingHolds'
  <2>1. Taken' = Taken
    BY <1>1 DEF Taken
  <2> QED
    BY <1>1, <2>1 DEF RingHolds, Back, Chain!NotAcquired
<1>10. AcquiredAreAwaited'
  BY <1>1 DEF AcquiredAreAwaited
<1>11. HasItsImage' /\ DrawnFirst'
  BY <1>1, <1>7 DEF HasItsImage, DrawnFirst
<1>12. RendersOnce'
  <2>1. \A i \in Chain!Image : Drawing(i)' <=> image'[i] = "queued" \/ (chainPhase' = "submitted" /\ i = chainImageIndex')
    BY <1>1, <1>7, WorkStays DEF RendersOnce
  <2> QED
    BY <1>1, <2>1 DEF RendersOnce
<1>13. PresentsWait'
  <2>1. \A k \in 1 .. L : /\ presents[k].wait = presents[k].image /\ image[presents[k].image] = "queued"
                          /\ presents[k].image \in Chain!Image /\ presents[k].image # chainImageIndex
    BY <1>5, <1>7, ChainTypes DEF PresentsWait
  <2>2. \A k \in 1 .. L + 1 : k \in 1 .. L \/ k = L + 1
    OBVIOUS
  <2>3. p.wait = chainImageIndex /\ p.image = chainImageIndex
    OBVIOUS
  <2>4. \A k \in 1 .. L + 1 : presents'[k].wait = presents'[k].image /\ image'[presents'[k].image] = "queued"
    BY <1>6, <1>7, <2>1, <2>2, <2>3
  <2>5. \A j, k \in 1 .. L + 1 : presents'[j].image = presents'[k].image => j = k
    <3>1. \A j, k \in 1 .. L : presents[j].image = presents[k].image => j = k
      BY <1>5 DEF PresentsWait
    <3> QED
      BY <1>6, <2>1, <2>2, <2>3, <3>1
  <2>6. ASSUME NEW i \in Chain!Image, image'[i] = "queued" PROVE \E k \in 1 .. L + 1 : presents'[k].image = i
    <3>1. CASE i = chainImageIndex
      <4>1. L + 1 \in 1 .. L + 1
        OBVIOUS
      <4> QED
        BY <1>6, <2>3, <3>1, <4>1
    <3>2. CASE i # chainImageIndex
      <4>1. PICK k \in 1 .. L : presents[k].image = i
        BY <1>5, <1>7, <2>6, <3>2 DEF PresentsWait
      <4> QED
        BY <1>6, <4>1
    <3> QED
      BY <3>1, <3>2
  <2> QED
    BY <1>6, <2>4, <2>5, <2>6 DEF PresentsWait
<1> QED
  BY <1>8, <1>9, <1>10, <1>11, <1>12, <1>13

(* A set of numbers has a least.                                           *)
LEMMA LeastOfSome ==
  ASSUME NEW S \in SUBSET Nat, S # {}
  PROVE  Chain!Min(S) \in S /\ \A y \in S : Chain!Min(S) <= y
<1> DEFINE R == OpToRel(<, Nat)
<1>1. IsWellFoundedOn(R, Nat) /\ \A x, y \in Nat : y < x => <<y, x>> \in R
  <2>1. \A x, y \in Nat : y < x => <<y, x>> \in R
    BY DEF OpToRel
  <2> QED
    BY <2>1, NatLessThanWellFounded
<1> HIDE DEF R
<1>2. PICK x \in S : \A y \in S : <<y, x>> \notin R
  BY <1>1, WFMin
<1>3. ASSUME NEW y \in S PROVE x <= y
  <2>1. x \in Nat /\ y \in Nat
    OBVIOUS
  <2>2. ~(y < x)
    BY <1>1, <1>2, <2>1
  <2> QED
    BY <2>1, <2>2
<1> QED
  BY <1>3 DEF Chain!Min

(* A frame that has run is what it was else.                               *)
LEMMA FrameRuns ==
  ASSUME NEW f \in Chain!Frame
  PROVE  /\ [f EXCEPT !.run = TRUE] \in Chain!Frame /\ [f EXCEPT !.run = TRUE].run = TRUE
         /\ [f EXCEPT !.run = TRUE].acquire = f.acquire /\ [f EXCEPT !.run = TRUE].render = f.render
  BY DEF Chain!Frame

(* Frames that have run go from the front of the work, up to the first     *)
(* that has not.                                                           *)
LEMMA RunTrims ==
  ASSUME Rings, ChainInv, NEW k \in Nat, Chain!Run(k)
  PROVE  /\ k \in 1 .. Len(work) /\ ~work[k].run
         /\ work' \in Seq(Chain!Frame)
         /\ \E f \in 1 .. Len(work) + 1 :
              /\ Len(work') = Len(work) + 1 - f
              /\ \A j \in 1 .. Len(work') :
                   /\ j + f - 1 \in 1 .. Len(work)
                   /\ work'[j].acquire = work[j + f - 1].acquire /\ work'[j].render = work[j + f - 1].render
                   /\ ~work'[j].run <=> j + f - 1 # k /\ ~work[j + f - 1].run
              /\ \A l \in 1 .. Len(work) : l # k /\ ~work[l].run => l - f + 1 \in 1 .. Len(work')
<1> DEFINE still == Chain!ToRun \ {k}
           w == [work EXCEPT ![k].run = TRUE]
           first == IF still = {} THEN Len(work) + 1 ELSE Chain!Min(still)
<1>1. k \in Chain!ToRun /\ work' = SubSeq(w, first, Len(work))
  BY DEF Chain!Run
<1>2. PICK L \in Nat : L = Len(work) /\ DOMAIN work = 1 .. L
  BY ChainTypes DEF ChainInv
<1>3. Chain!ToRun = {j \in 1 .. L : ~work[j].run}
  BY <1>2 DEF Chain!ToRun
<1>4. k \in 1 .. L /\ ~work[k].run
  BY <1>1, <1>3
<1>5. /\ work \in Seq(Chain!Frame) /\ \A j \in 1 .. L : work[j] \in Chain!Frame
  BY <1>2, ChainTypes DEF ChainInv
<1>6. /\ DOMAIN w = 1 .. L /\ \A j \in 1 .. L : j # k => w[j] = work[j]
      /\ w[k] = [work[k] EXCEPT !.run = TRUE]
  BY <1>2, <1>4
<1>7. w[k] \in Chain!Frame /\ w[k].acquire = work[k].acquire /\ w[k].render = work[k].render /\ w[k].run = TRUE
  <2>1. work[k] \in Chain!Frame
    BY <1>4, <1>5
  <2> QED
    BY <1>6, <2>1, FrameRuns
<1>8. w \in Seq(Chain!Frame) /\ Len(w) = L
  <2>1. w \in [1 .. L -> Chain!Frame]
    <3>1. \A j \in 1 .. L : w[j] \in Chain!Frame
      BY <1>5, <1>6, <1>7
    <3> QED
      BY <1>2, <1>6, <3>1
  <2>2. w \in Seq(Chain!Frame)
    BY <2>1, SeqDef
  <2> QED
    BY <1>2, <1>6, <2>2, LenProperties
<1>9. PICK f \in 1 .. L + 1 : f = first /\ \A l \in still : f <= l
  <2>1. still \in SUBSET Nat /\ still \subseteq 1 .. L
    BY <1>3
  <2>2. CASE still = {}
    BY <1>2, <2>2
  <2>3. CASE still # {}
    <3>1. Chain!Min(still) \in still /\ \A y \in still : Chain!Min(still) <= y
      BY <2>1, <2>3, LeastOfSome
    <3>2. Chain!Min(still) \in 1 .. L + 1
      BY <2>1, <3>1
    <3> QED
      BY <2>3, <3>1, <3>2
  <2> QED
    BY <2>2, <2>3
<1>10. work' = SubSeq(w, f, L)
  BY <1>1, <1>2, <1>9
<1>11. /\ work' \in Seq(Chain!Frame) /\ Len(work') = L + 1 - f
       /\ \A j \in 1 .. L + 1 - f : j + f - 1 \in 1 .. L /\ work'[j] = w[j + f - 1]
  <2>1. CASE f = L + 1
    <3>1. SubSeq(w, f, L) = <<>>
      BY <1>8, <2>1, SubSeqProperties, EmptySeq
    <3>2. Len(<<>>) = 0 /\ <<>> \in Seq(Chain!Frame)
      BY EmptySeq
    <3>3. \A j \in 1 .. L + 1 - f : FALSE
      BY <2>1
    <3> QED
      BY <1>10, <2>1, <3>1, <3>2, <3>3
  <2>2. CASE f \in 1 .. L
    <3>1. /\ SubSeq(w, f, L) \in Seq(Chain!Frame)
          /\ Len(SubSeq(w, f, L)) = L - f + 1
          /\ \A j \in 1 .. L - f + 1 : SubSeq(w, f, L)[j] = w[f + j - 1]
      BY <1>8, <2>2, SubSeqProperties
    <3>2. L - f + 1 = L + 1 - f /\ \A j \in 1 .. L + 1 - f : f + j - 1 = j + f - 1 /\ j + f - 1 \in 1 .. L
      BY <2>2
    <3> QED
      BY <1>10, <3>1, <3>2
  <2>3. f = L + 1 \/ f \in 1 .. L
    OBVIOUS
  <2> QED
    BY <2>1, <2>2, <2>3
<1>12. ASSUME NEW j \in 1 .. L + 1 - f
       PROVE  /\ j + f - 1 \in 1 .. L
              /\ work'[j].acquire = work[j + f - 1].acquire /\ work'[j].render = work[j + f - 1].render
              /\ ~work'[j].run <=> j + f - 1 # k /\ ~work[j + f - 1].run
  <2>1. PICK l \in 1 .. L : l = j + f - 1 /\ work'[j] = w[l]
    BY <1>11
  <2> QED
    BY <1>6, <1>7, <2>1
<1>13. ASSUME NEW l \in 1 .. L, l # k, ~work[l].run PROVE l - f + 1 \in 1 .. L + 1 - f
  <2>1. l \in still
    BY <1>3, <1>13
  <2>2. f <= l
    BY <1>9, <2>1
  <2> QED
    BY <2>2
<1> QED
  BY <1>2, <1>4, <1>11, <1>12, <1>13

(* A frame runs: one wait and one signal.                                  *)
LEMMA RunStep ==
  ASSUME Rings, ChainInv, NEW k \in Nat, Chain!Run(k)
  PROVE  ChainInv'
<1>1. /\ acquired' = acquired \ {work[k].acquire}
      /\ finished' = finished \cup {work[k].render} /\ chainDrawn' = chainDrawn \cup {work[k].render}
      /\ acquireIndex' = acquireIndex /\ isAcquireSuccess' = isAcquireSuccess
      /\ chainImageIndex' = chainImageIndex /\ presenting' = presenting /\ presents' = presents /\ image' = image
      /\ chainPhase' = chainPhase /\ outOfDate' = outOfDate
  BY DEF Chain!Run, Chain!chain
<1>2. k \in 1 .. Len(work) /\ ~work[k].run /\ work' \in Seq(Chain!Frame)
  BY RunTrims
<1>3. PICK L \in Nat : L = Len(work)
  BY ChainTypes DEF ChainInv
<1>4. PICK f \in 1 .. L + 1 :
        /\ Len(work') = L + 1 - f
        /\ \A j \in 1 .. Len(work') :
             /\ j + f - 1 \in 1 .. L
             /\ work'[j].acquire = work[j + f - 1].acquire /\ work'[j].render = work[j + f - 1].render
             /\ ~work'[j].run <=> j + f - 1 # k /\ ~work[j + f - 1].run
        /\ \A l \in 1 .. L : l # k /\ ~work[l].run => l - f + 1 \in 1 .. Len(work')
  BY <1>3, RunTrims
<1>5. PICK M \in Nat : M = Len(work') /\ M = L + 1 - f
  BY <1>4
<1>6. \A l \in 1 .. L : l # k /\ ~work[l].run =>
        \E j \in 1 .. M : ~work'[j].run /\ work'[j].acquire = work[l].acquire /\ work'[j].render = work[l].render
  <2> SUFFICES ASSUME NEW l \in 1 .. L, l # k, ~work[l].run
               PROVE  \E j \in 1 .. M : ~work'[j].run /\ work'[j].acquire = work[l].acquire /\ work'[j].render = work[l].render
    OBVIOUS
  <2>1. PICK j \in 1 .. M : j = l - f + 1
    BY <1>4, <1>5
  <2>2. j + f - 1 = l
    BY <2>1
  <2> QED
    BY <1>4, <1>5, <2>2
<1>7. \A j \in 1 .. M : ~work'[j].run =>
        \E l \in 1 .. L : /\ l = j + f - 1 /\ l # k /\ ~work[l].run
                          /\ work'[j].acquire = work[l].acquire /\ work'[j].render = work[l].render
  BY <1>4, <1>5
<1>8. work[k].acquire \in Chain!Image /\ work[k].render \in Chain!Image
  BY <1>2, ChainTypes DEF ChainInv
<1>9. Chain!TypeOK'
  BY <1>1, <1>2, <1>8 DEF ChainInv, Chain!TypeOK
<1>10. RingHolds'
  <2>1. Taken' = Taken /\ \A d : Back(d)' = Back(d)
    BY <1>1 DEF Taken, Back
  <2>2. acquireIndex # Chain!NotAcquired
    BY <1>2, EmptySeq DEF ChainInv, RingHolds
  <2>3. Taken \in Nat /\ FramesToRun \in Nat
    BY ChainTypes DEF ChainInv, Taken
  <2>4. M + Taken <= FramesToRun
    BY <1>3, <1>5, <2>3 DEF ChainInv, RingHolds
  <2>5. \A j \in 1 .. M : work'[j].acquire = Back(Taken + M - j)
    <3> SUFFICES ASSUME NEW j \in 1 .. M PROVE work'[j].acquire = Back(Taken + M - j)
      OBVIOUS
    <3>1. PICK l \in 1 .. L : l = j + f - 1 /\ work'[j].acquire = work[l].acquire
      BY <1>4, <1>5
    <3>2. work[l].acquire = Back(Taken + L - l)
      BY <1>3, <3>1 DEF ChainInv, RingHolds
    <3>3. Taken + L - l = Taken + M - j
      BY <1>5, <2>3, <3>1
    <3> QED
      BY <3>1, <3>2, <3>3
  <2> QED
    BY <1>1, <1>5, <2>1, <2>2, <2>4, <2>5 DEF RingHolds, Chain!NotAcquired
<1>11. \A l \in 1 .. L : l # k => work[l].acquire # work[k].acquire
  <2> SUFFICES ASSUME NEW l \in 1 .. L, l # k PROVE work[l].acquire # work[k].acquire
    OBVIOUS
  <2>1. PICK e \in {0, 1} : e = Taken
    BY DEF Taken
  <2>2. work[l].acquire = Back(e + L - l) /\ work[k].acquire = Back(e + L - k) /\ k \in 1 .. L
    BY <1>2, <1>3, <2>1 DEF ChainInv, RingHolds
  <2>3. e + L <= BufferCount /\ BufferCount \in Nat /\ acquireIndex \in Int
    BY <1>3, <2>1, ChainTypes DEF ChainInv, RingHolds
  <2> QED
    BY <2>2, <2>3 DEF Back
<1>12. AcquiredAreAwaited'
  <2>1. \A j \in 1 .. M : ~work'[j].run => work'[j].acquire \in acquired'
    <3> SUFFICES ASSUME NEW j \in 1 .. M, ~work'[j].run PROVE work'[j].acquire \in acquired'
      OBVIOUS
    <3>1. PICK l \in 1 .. L : l # k /\ ~work[l].run /\ work'[j].acquire = work[l].acquire
      BY <1>7
    <3>2. work[l].acquire \in acquired
      BY <1>3, <3>1 DEF ChainInv, AcquiredAreAwaited
    <3> QED
      BY <1>1, <1>11, <3>1, <3>2
  <2>2. chainPhase = "acquired" => acquireIndex \in acquired'
    <3> SUFFICES ASSUME chainPhase = "acquired" PROVE acquireIndex \in acquired'
      OBVIOUS
    <3>1. acquireIndex \in acquired
      BY DEF ChainInv, AcquiredAreAwaited
    <3>2. work[k].acquire = Back(1 + L - k) /\ k \in 1 .. L /\ 1 + L <= FramesToRun
      BY <1>2, <1>3 DEF ChainInv, RingHolds, Taken
    <3>3. FramesToRun \in Nat /\ FramesToRun <= BufferCount /\ BufferCount \in Nat /\ acquireIndex \in Int
      BY ChainTypes DEF ChainInv
    <3>4. work[k].acquire # acquireIndex
      BY <3>2, <3>3 DEF Back
    <3> QED
      BY <1>1, <3>1, <3>4
  <2>3. ASSUME NEW i \in acquired'
        PROVE  \/ chainPhase = "acquired" /\ i = acquireIndex
               \/ \E j \in 1 .. M : ~work'[j].run /\ work'[j].acquire = i
    <3>1. i \in acquired /\ i # work[k].acquire
      BY <1>1, <2>3
    <3>2. CASE \E l \in 1 .. L : ~work[l].run /\ work[l].acquire = i
      <4>1. PICK l \in 1 .. L : ~work[l].run /\ work[l].acquire = i /\ l # k
        BY <3>1, <3>2
      <4>2. PICK j \in 1 .. M : ~work'[j].run /\ work'[j].acquire = work[l].acquire
        BY <1>6, <4>1
      <4> QED
        BY <4>1, <4>2
    <3> QED
      BY <1>3, <3>1, <3>2 DEF ChainInv, AcquiredAreAwaited
  <2> QED
    BY <1>1, <1>5, <2>1, <2>2, <2>3 DEF AcquiredAreAwaited
<1>13. \A i : Drawing(i)' <=> Drawing(i)
  <2> SUFFICES ASSUME NEW i PROVE Drawing(i)' <=> Drawing(i)
    OBVIOUS
  <2>1. InWork(i)' => InWork(i)
    BY <1>3, <1>5, <1>7 DEF InWork
  <2>2. InWork(i) => InWork(i)' \/ i = work[k].render
    BY <1>3, <1>5, <1>6 DEF InWork
  <2>3. InWork(work[k].render)
    BY <1>2 DEF InWork
  <2> QED
    BY <1>1, <2>1, <2>2, <2>3 DEF Drawing
<1>14. RendersOnce'
  <2>1. \A l \in 1 .. L : l # k /\ ~work[l].run => work[l].render \notin finished /\ work[l].render # work[k].render
    BY <1>2, <1>3 DEF ChainInv, RendersOnce
  <2>2. \A j \in 1 .. M : ~work'[j].run => work'[j].render \notin finished'
    BY <1>1, <1>7, <2>1
  <2>3. ASSUME NEW i \in 1 .. M, NEW j \in 1 .. M, ~work'[i].run, ~work'[j].run, work'[i].render = work'[j].render
        PROVE  i = j
    <3>1. PICK a \in 1 .. L : a = i + f - 1 /\ ~work[a].run /\ work'[i].render = work[a].render
      BY <1>7, <2>3
    <3>2. PICK b \in 1 .. L : b = j + f - 1 /\ ~work[b].run /\ work'[j].render = work[b].render
      BY <1>7, <2>3
    <3>3. a = b
      BY <1>3, <2>3, <3>1, <3>2 DEF ChainInv, RendersOnce
    <3> QED
      BY <3>1, <3>2, <3>3
  <2>4. \A i \in Chain!Image : Drawing(i)' <=> image'[i] = "queued" \/ (chainPhase' = "submitted" /\ i = chainImageIndex')
    BY <1>1, <1>13 DEF ChainInv, RendersOnce
  <2> QED
    BY <1>1, <1>5, <2>2, <2>3, <2>4 DEF RendersOnce
<1>15. HasItsImage' /\ PresentsWait'
  BY <1>1 DEF ChainInv, HasItsImage, PresentsWait
<1>16. DrawnFirst'
  BY <1>1 DEF ChainInv, DrawnFirst
<1> QED
  BY <1>9, <1>10, <1>12, <1>14, <1>15, <1>16 DEF ChainInv

(* The screen gets to a presentation.                                      *)
LEMMA ShowStep ==
  ASSUME Rings, ChainInv, Chain!Show
  PROVE  ChainInv'
<1> DEFINE h == presents[1].image
<1>1. /\ presents # <<>> /\ presents' = Tail(presents) /\ finished' = finished \ {Head(presents).wait}
      /\ Head(presents).wait \in finished \cup {Chain!NoImage}
      /\ image' = [i \in Chain!Image |-> CASE i = Head(presents).image -> "shown"
                                           [] image[i] = "shown" -> "engine"
                                           [] OTHER -> image[i]]
      /\ acquireIndex' = acquireIndex /\ isAcquireSuccess' = isAcquireSuccess
      /\ chainImageIndex' = chainImageIndex /\ presenting' = presenting
      /\ acquired' = acquired /\ work' = work /\ chainDrawn' = chainDrawn
      /\ chainPhase' = chainPhase /\ outOfDate' = outOfDate
  BY DEF Chain!Show, Chain!chain
<1>2. PICK L \in Nat \ {0} : L = Len(presents)
  BY <1>1, TailElements DEF ChainInv, Chain!TypeOK
<1>3. /\ Head(presents) = presents[1] /\ 1 \in 1 .. L
      /\ presents' \in Seq(Chain!Present) /\ Len(presents') = L - 1
      /\ \A j \in 1 .. L - 1 : j + 1 \in 1 .. L /\ presents'[j] = presents[j + 1]
      /\ \A j \in 1 .. L : j # 1 => j - 1 \in 1 .. L - 1 /\ presents'[j - 1] = presents[j]
  BY <1>1, <1>2, TailElements DEF ChainInv, Chain!TypeOK
<1>4. h \in Chain!Image /\ presents[1].wait = h /\ image[h] = "queued" /\ h \in Int /\ 0 <= h
  BY <1>2, <1>3, ChainTypes DEF ChainInv, PresentsWait
<1>5. h \in finished /\ finished' = finished \ {h}
  <2>1. Chain!NoImage = -1
    BY DEF Chain!NoImage
  <2> QED
    BY <1>1, <1>3, <1>4, <2>1
<1>6. /\ image' \in [Chain!Image -> {"engine", "renderer", "queued", "shown"}]
      /\ image'[h] = "shown"
      /\ \A i \in Chain!Image : i # h => (image'[i] = image[i] \/ (image[i] = "shown" /\ image'[i] = "engine"))
  BY <1>1, <1>3, <1>4 DEF ChainInv, Chain!TypeOK
<1>7. \A i \in Chain!Image : /\ image'[i] = "queued" <=> image[i] = "queued" /\ i # h
                             /\ image'[i] = "renderer" <=> image[i] = "renderer"
                             /\ image'[i] = "shown" => i = h \/ image[i] = "shown"
  <2> SUFFICES ASSUME NEW i \in Chain!Image
               PROVE  /\ image'[i] = "queued" <=> image[i] = "queued" /\ i # h
                      /\ image'[i] = "renderer" <=> image[i] = "renderer"
                      /\ image'[i] = "shown" => i = h \/ image[i] = "shown"
    OBVIOUS
  <2>1. CASE i = h
    BY <1>4, <1>6, <2>1
  <2>2. CASE i # h
    BY <1>6, <2>2
  <2> QED
    BY <2>1, <2>2
<1>8. Chain!TypeOK'
  BY <1>1, <1>3, <1>5, <1>6 DEF ChainInv, Chain!TypeOK
<1>9. RingHolds' /\ AcquiredAreAwaited'
  <2>1. Taken' = Taken
    BY <1>1 DEF Taken
  <2>2. RingHolds'
    BY <1>1, <2>1 DEF ChainInv, RingHolds, Back, Chain!NotAcquired
  <2> QED
    BY <1>1, <2>2 DEF ChainInv, AcquiredAreAwaited
<1>10. ~InWork(h) /\ ~(chainPhase = "submitted" /\ h = chainImageIndex)
  BY <1>4, <1>5 DEF ChainInv, RendersOnce, HasItsImage, InWork
<1>11. RendersOnce'
  <2>1. \A i : InWork(i)' <=> InWork(i)
    BY <1>1 DEF InWork
  <2>2. ASSUME NEW i \in Chain!Image
        PROVE  Drawing(i)' <=> image'[i] = "queued" \/ (chainPhase = "submitted" /\ i = chainImageIndex)
    <3>1. Drawing(i)' <=> Drawing(i) /\ i # h
      BY <1>5, <1>10, <2>1 DEF Drawing
    <3>2. Drawing(i) <=> image[i] = "queued" \/ (chainPhase = "submitted" /\ i = chainImageIndex)
      BY DEF ChainInv, RendersOnce
    <3> QED
      BY <1>7, <1>10, <3>1, <3>2
  <2>3. /\ \A k \in 1 .. Len(work) : ~work[k].run => work[k].render \notin finished'
        /\ \A j, k \in 1 .. Len(work) : ~work[j].run /\ ~work[k].run /\ work[j].render = work[k].render => j = k
    BY <1>5 DEF ChainInv, RendersOnce
  <2> QED
    BY <1>1, <2>2, <2>3 DEF RendersOnce
<1>12. HasItsImage'
  <2>1. chainPhase \in {"acquired", "submitted"} => image'[chainImageIndex] = "renderer"
    BY <1>7 DEF ChainInv, HasItsImage, Chain!TypeOK
  <2>2. \A i \in Chain!Image : image'[i] = "renderer" => chainPhase \in {"acquired", "submitted"} /\ i = chainImageIndex
    BY <1>7 DEF ChainInv, HasItsImage
  <2>3. chainPhase = "submitted" => presenting
    BY DEF ChainInv, HasItsImage
  <2> QED
    BY <1>1, <2>1, <2>2, <2>3 DEF HasItsImage
<1>13. PresentsWait'
  <2>1. \A k \in 1 .. L : /\ presents[k].wait = presents[k].image /\ image[presents[k].image] = "queued"
                          /\ presents[k].image \in Chain!Image /\ (presents[k].image = h => k = 1)
    BY <1>2, <1>3, ChainTypes DEF ChainInv, PresentsWait
  <2>2. \A k \in 1 .. L - 1 : presents'[k].wait = presents'[k].image /\ image'[presents'[k].image] = "queued"
    <3> SUFFICES ASSUME NEW k \in 1 .. L - 1
                 PROVE  presents'[k].wait = presents'[k].image /\ image'[presents'[k].image] = "queued"
      OBVIOUS
    <3>1. PICK j \in 1 .. L : j = k + 1 /\ presents'[k] = presents[j]
      BY <1>3
    <3>2. j # 1
      BY <3>1
    <3> QED
      BY <1>7, <2>1, <3>1, <3>2
  <2>3. \A j, k \in 1 .. L - 1 : presents'[j].image = presents'[k].image => j = k
    <3> SUFFICES ASSUME NEW j \in 1 .. L - 1, NEW k \in 1 .. L - 1, presents'[j].image = presents'[k].image PROVE j = k
      OBVIOUS
    <3>1. j + 1 \in 1 .. L /\ k + 1 \in 1 .. L /\ presents[j + 1].image = presents[k + 1].image
      BY <1>3
    <3>2. j + 1 = k + 1
      BY <1>2, <3>1 DEF ChainInv, PresentsWait
    <3> QED
      BY <3>2
  <2>4. ASSUME NEW i \in Chain!Image, image'[i] = "queued" PROVE \E k \in 1 .. L - 1 : presents'[k].image = i
    <3>1. image[i] = "queued" /\ i # h
      BY <1>7, <2>4
    <3>2. PICK k \in 1 .. L : presents[k].image = i
      BY <1>2, <3>1 DEF ChainInv, PresentsWait
    <3>3. k # 1
      BY <3>1, <3>2
    <3> QED
      BY <1>3, <3>2, <3>3
  <2> QED
    BY <1>3, <2>2, <2>3, <2>4 DEF PresentsWait
<1>14. DrawnFirst'
  <2>1. h \in chainDrawn
    BY <1>4, <1>5 DEF ChainInv, DrawnFirst
  <2>2. \A i \in Chain!Image : i \in finished \/ image[i] = "shown" => i \in chainDrawn
    BY DEF ChainInv, DrawnFirst
  <2> QED
    BY <1>1, <1>5, <1>7, <2>1, <2>2 DEF DrawnFirst
<1> QED
  BY <1>8, <1>9, <1>11, <1>12, <1>13, <1>14 DEF ChainInv

(* Resize waits for the device and begins again.                           *)
LEMMA ResizeChainStep ==
  ASSUME Rings, ChainInv, Chain!Resize
  PROVE  ChainInv'
<1>1. /\ chainPhase \in {"ready", "failed"} /\ chainPhase' = "ready" /\ work = <<>> /\ presents = <<>>
      /\ work' = <<>> /\ presents' = <<>>
      /\ image' = [i \in Chain!Image |-> "engine"] /\ chainDrawn' = {} /\ outOfDate' = FALSE
      /\ acquireIndex' = acquireIndex /\ isAcquireSuccess' = isAcquireSuccess
      /\ chainImageIndex' = chainImageIndex /\ presenting' = presenting
      /\ acquired' = acquired /\ finished' = finished
  BY DEF Chain!Resize, Chain!chain, Rings
<1>2. Len(work) = 0 /\ Len(presents) = 0
  BY <1>1, EmptySeq
<1>3. \A i : ~InWork(i) /\ ~InWork(i)'
  BY <1>1, <1>2 DEF InWork
<1>4. \A i \in Chain!Image : image[i] # "queued"
  BY <1>2 DEF ChainInv, PresentsWait
<1>5. \A i \in Chain!Image : ~Drawing(i)
  BY <1>1, <1>4 DEF ChainInv, RendersOnce
<1>6. finished = {}
  <2>1. finished \subseteq Chain!Image
    BY DEF ChainInv, Chain!TypeOK
  <2> QED
    BY <1>5, <2>1 DEF Drawing
<1>7. acquired = {}
  BY <1>1, <1>2 DEF ChainInv, AcquiredAreAwaited
<1>8. Chain!TypeOK'
  BY <1>1 DEF ChainInv, Chain!TypeOK
<1>9. RingHolds'
  <2>1. Taken' = 0 /\ Len(work') = 0
    BY <1>1, <1>2 DEF Taken
  <2>2. FramesToRun \in Nat
    BY ChainTypes DEF ChainInv
  <2> QED
    BY <1>1, <2>1, <2>2 DEF RingHolds
<1>10. AcquiredAreAwaited' /\ PresentsWait' /\ HasItsImage' /\ DrawnFirst'
  BY <1>1, <1>2, <1>6, <1>7 DEF AcquiredAreAwaited, PresentsWait, HasItsImage, DrawnFirst
<1>11. RendersOnce'
  BY <1>1, <1>2, <1>3, <1>6 DEF RendersOnce, Drawing
<1> QED
  BY <1>8, <1>9, <1>10, <1>11 DEF ChainInv

(* The constructor leaves nothing under way.                               *)
LEMMA ChainBegins ==
  ASSUME Rings, Chain!Init
  PROVE  ChainInv
<1>1. /\ acquireIndex = Chain!NotAcquired /\ chainImageIndex = 0 /\ isAcquireSuccess = FALSE /\ presenting = FALSE
      /\ acquired = {} /\ finished = {} /\ chainDrawn = {} /\ chainPhase = "ready" /\ work = <<>> /\ presents = <<>>
      /\ image = [i \in Chain!Image |-> "engine"] /\ outOfDate = FALSE
  BY DEF Chain!Init
<1>2. Len(work) = 0 /\ Len(presents) = 0 /\ work \in Seq(Chain!Frame) /\ presents \in Seq(Chain!Present)
  BY <1>1, EmptySeq
<1>3. 0 \in Chain!Image /\ FramesToRun \in Nat /\ Taken = 0
  BY <1>1 DEF Chain!Image, Rings, Taken
<1>4. Chain!TypeOK
  BY <1>1, <1>2, <1>3 DEF Chain!TypeOK
<1>5. RingHolds /\ AcquiredAreAwaited /\ HasItsImage /\ PresentsWait /\ DrawnFirst
  BY <1>1, <1>2, <1>3 DEF RingHolds, AcquiredAreAwaited, HasItsImage, PresentsWait, DrawnFirst
<1>6. RendersOnce
  BY <1>1, <1>2 DEF RendersOnce, Drawing, InWork
<1> QED
  BY <1>4, <1>5, <1>6 DEF ChainInv

(* What the invariant says of semaphores and of the screen.                *)
LEMMA ChainTells ==
  ASSUME Rings, ChainInv
  PROVE  Chain!EnoughSemaphores /\ Chain!SemaphoresPair /\ Chain!ShowsWhatWasDrawn
<1>1. PICK L \in Nat : L = Len(work) /\ DOMAIN work = 1 .. L
  BY ChainTypes DEF ChainInv
<1>2. Chain!ToRun = {k \in 1 .. L : ~work[k].run}
  BY <1>1 DEF Chain!ToRun
<1>3. PICK e \in {0, 1} : e = Taken
  BY DEF Taken
<1>4. e + L <= BufferCount /\ BufferCount \in Nat /\ acquireIndex \in Int
  BY <1>1, <1>3, ChainTypes DEF ChainInv, RingHolds
<1>5. \A k \in 1 .. L : work[k].acquire = Back(e + L - k)
  BY <1>1, <1>3 DEF ChainInv, RingHolds
<1>6. Chain!EnoughSemaphores
  <2> SUFFICES ASSUME chainPhase = "acquiring"
               PROVE  acquireIndex \notin acquired /\ \A k \in Chain!ToRun : work[k].acquire # acquireIndex
    BY DEF Chain!EnoughSemaphores
  <2>1. e = 1
    BY <1>3 DEF Taken
  <2>2. \A k \in 1 .. L : work[k].acquire # acquireIndex
    <3> SUFFICES ASSUME NEW k \in 1 .. L PROVE Back(e + L - k) # acquireIndex
      BY <1>5
    <3> QED
      BY <1>4, <2>1 DEF Back
  <2>3. acquireIndex \notin acquired
    BY <1>1, <2>2 DEF ChainInv, AcquiredAreAwaited
  <2> QED
    BY <1>2, <2>2, <2>3
<1>7. ASSUME NEW j \in Chain!ToRun, NEW k \in Chain!ToRun, work[j].acquire = work[k].acquire PROVE j = k
  <2>1. j \in 1 .. L /\ k \in 1 .. L /\ Back(e + L - j) = Back(e + L - k)
    BY <1>2, <1>5, <1>7
  <2> QED
    BY <1>4, <2>1 DEF Back
<1>8. Chain!SemaphoresPair
  <2>1. \A k \in Chain!ToRun : work[k].acquire \in acquired
    BY <1>1, <1>2 DEF ChainInv, AcquiredAreAwaited
  <2>2. ASSUME NEW i \in Chain!Image
        PROVE  LET signalling == {k \in Chain!ToRun : work[k].render = i}
                   waits == {k \in DOMAIN presents : presents[k].wait = i}
               IN /\ i \in finished => signalling = {}
                  /\ Chain!Cardinality(signalling) <= 1
                  /\ Chain!Cardinality(waits) <= 1
                  /\ waits # {} => i \in finished \/ signalling # {}
    <3> DEFINE signalling == {k \in Chain!ToRun : work[k].render = i}
               waits == {k \in DOMAIN presents : presents[k].wait = i}
    <3>1. \A S : Chain!Cardinality(S) = Cardinality(S)
      BY DEF Chain!Cardinality, Cardinality
    <3>2. i \in finished => signalling = {}
      BY <1>1, <1>2 DEF ChainInv, RendersOnce
    <3>3. \A j, k \in signalling : j = k
      BY <1>1, <1>2 DEF ChainInv, RendersOnce
    <3>4. DOMAIN presents = 1 .. Len(presents)
      BY ChainTypes DEF ChainInv
    <3>5. \A k \in waits : k \in 1 .. Len(presents) /\ presents[k].image = i /\ image[i] = "queued"
      BY <3>4 DEF ChainInv, PresentsWait
    <3>6. \A j, k \in waits : j = k
      BY <3>5 DEF ChainInv, PresentsWait
    <3>7. waits # {} => i \in finished \/ signalling # {}
      <4> SUFFICES ASSUME waits # {}, i \notin finished PROVE signalling # {}
        OBVIOUS
      <4>1. image[i] = "queued"
        BY <3>5
      <4>2. InWork(i)
        BY <4>1 DEF ChainInv, RendersOnce, Drawing
      <4> QED
        BY <1>1, <1>2, <4>2 DEF InWork
    <3>8. Cardinality(signalling) <= 1 /\ Cardinality(waits) <= 1
      BY <3>3, <3>6, AtMostOne
    <3> QED
      BY <3>1, <3>2, <3>7, <3>8
  <2> QED
    BY <1>7, <2>1, <2>2 DEF Chain!SemaphoresPair
<1>9. Chain!ShowsWhatWasDrawn
  BY DEF ChainInv, DrawnFirst, Chain!ShowsWhatWasDrawn
<1> QED
  BY <1>6, <1>8, <1>9

(* However many images and frames under way: each acquisition has a        *)
(* semaphore of the ring that is unsignalled and waited for by nobody,     *)
(* each wait has one signal and each signal one wait, and what is on the   *)
(* screen has been drawn.                                                  *)
THEOREM SemaphoresGoRound ==
  ASSUME Rings
  PROVE  Chain!Spec => [](Chain!EnoughSemaphores /\ Chain!SemaphoresPair /\ Chain!ShowsWhatWasDrawn)
<1>1. Chain!Init => ChainInv
  BY ChainBegins
<1>2. ChainInv /\ [Chain!Next]_Chain!vars => ChainInv'
  <2> SUFFICES ASSUME ChainInv, [Chain!Next]_Chain!vars PROVE ChainInv'
    OBVIOUS
  <2>1. ASSUME NEW k \in 1 .. FramesToRun, Chain!Run(k) PROVE ChainInv'
    BY <2>1, RunStep
  <2> QED
    BY <2>1, AcquireStep, FailStep, SucceedStep, SubmitToScreenStep, PresentStep, ResizeChainStep, ShowStep DEF Chain!Next
<1>3. ChainInv => Chain!EnoughSemaphores /\ Chain!SemaphoresPair /\ Chain!ShowsWhatWasDrawn
  BY ChainTells
<1> QED
  BY <1>1, <1>2, <1>3, PTL DEF Chain!Spec

-----------------------------------------------------------------------------
(* VulkanSurface *)

(* What the driver may answer: FIFO is there on every surface, and limits  *)
(* leave something.                                                        *)
Offers ==
  /\ Surface \subseteq [window : BOOLEAN, minImageCount : Nat \ {0}, maxImageCount : Nat,
                        alphas : SUBSET STRING, formats : Seq(STRING), presentModes : SUBSET STRING]
  /\ \A s \in Surface :
       /\ "vsync" \in s.presentModes /\ s.minImageCount <= Surfaces!AnyCount
       /\ s.maxImageCount = 0 \/ s.minImageCount <= s.maxImageCount
  /\ Info \subseteq [format : STRING, alphaMode : STRING, presentMode : STRING, bufferCount : Nat, extent : Nat]
  /\ Width \subseteq Nat /\ \E low, high \in Width : \A w \in Width : low <= w /\ w <= high
  /\ MaxImages \in Nat

Alphas == {i.alphaMode : i \in Info} \cup {"none"}
Described == [format : STRING, alphaMode : Alphas, presentMode : STRING, bufferCount : Nat, extent : Nat]
MostImages == IF surface.maxImageCount = 0 THEN Surfaces!AnyCount ELSE surface.maxImageCount
Wished == Surfaces!Clamp(swapChainInfo.bufferCount, surface.minImageCount, MostImages)

SurfaceTypes ==
  /\ surface \in Surface /\ swapChainInfo \in Info /\ info \in Described
  /\ size \in Nat /\ (surface.window => size \in Width)
  /\ semaphores \in Nat /\ extra \in Nat /\ surfaceStep \in {"new", "asked", "made", "unusable"}
  /\ surfaceStep \in {"new", "unusable"} => info = swapChainInfo /\ semaphores = 0

(* What the surface was last asked for is still so, but for its size.      *)
AskedFor ==
  surfaceStep \in {"asked", "made"} =>
    /\ support.minImageCount = surface.minImageCount /\ support.maxImageCount = MostImages
    /\ support.minExtent \in Nat /\ support.maxExtent \in Nat /\ support.minExtent <= support.maxExtent
    /\ surface.window /\ settled => support.minExtent = size /\ support.maxExtent = size
    /\ support.alphas = surface.alphas /\ support.presentModes = surface.presentModes
    /\ format \in {surface.formats[i] : i \in DOMAIN surface.formats} \cap Surfaces!Suits(swapChainInfo.format)
    /\ presentMode \in surface.presentModes
    /\ swapChainInfo.alphaMode \in surface.alphas => info.alphaMode = swapChainInfo.alphaMode

(* The images of a swap chain that was made have semaphores, but for extra *)
(* ones, and the next has as many at least.                                *)
SemaphoresReach ==
  surfaceStep \in {"asked", "made"} =>
    IF semaphores = 0 THEN surfaceStep = "asked" /\ info.bufferCount = swapChainInfo.bufferCount
    ELSE /\ surface.minImageCount <= info.bufferCount /\ info.bufferCount <= MostImages
         /\ info.bufferCount <= semaphores + extra /\ Wished <= semaphores

MadeAsTold ==
  surfaceStep = "made" =>
    /\ vkSwapchain.asked \in surface.minImageCount .. MostImages
    /\ vkSwapchain.extent \in support.minExtent .. support.maxExtent
    /\ vkSwapchain.images = info.bufferCount /\ vkSwapchain.extent = info.extent
    /\ vkSwapchain.alpha = info.alphaMode /\ vkSwapchain.alpha \in surface.alphas \cup {"none"}
    /\ vkSwapchain.format = format /\ vkSwapchain.mode \in surface.presentModes

SurfaceInv == SurfaceTypes /\ AskedFor /\ SemaphoresReach /\ MadeAsTold

(* Limits of a surface.                                                    *)
LEMMA SurfaceLimits ==
  ASSUME Offers, surface \in Surface
  PROVE  /\ surface.window \in BOOLEAN
         /\ surface.minImageCount \in Nat \ {0} /\ MostImages \in Nat /\ surface.minImageCount <= MostImages
         /\ "vsync" \in surface.presentModes
         /\ surface.formats \in Seq(STRING)
  BY DEF Offers, MostImages, Surfaces!AnyCount

(* What comes of a number and two limits.                                  *)
LEMMA Clamped ==
  ASSUME NEW x \in Nat, NEW low \in Nat, NEW high \in Nat, low <= high
  PROVE  /\ Surfaces!Clamp(x, low, high) \in Nat
         /\ low <= Surfaces!Clamp(x, low, high) /\ Surfaces!Clamp(x, low, high) <= high
         /\ low <= x /\ x <= high => Surfaces!Clamp(x, low, high) = x
  BY DEF Surfaces!Clamp

(* The present mode that is tried is one the surface has.                  *)
LEMMA ModeIsOffered ==
  ASSUME NEW mode, NEW offered, "vsync" \in offered
  PROVE  Surfaces!TryPresentMode(mode, offered) \in offered
  BY DEF Surfaces!TryPresentMode

(* What GetSwapChainSupport answers.                                       *)
LEMMA SupportIsNow ==
  ASSUME Offers, SurfaceTypes, support' = Surfaces!SupportNow
  PROVE  /\ support'.minImageCount = surface.minImageCount /\ support'.maxImageCount = MostImages
         /\ support'.minExtent \in Nat /\ support'.maxExtent \in Nat /\ support'.minExtent <= support'.maxExtent
         /\ surface.window => support'.minExtent = size /\ support'.maxExtent = size
         /\ support'.alphas = surface.alphas /\ support'.presentModes = surface.presentModes
         /\ Surfaces!SupportNow.currentExtent = size
<1>1. PICK low \in Width, high \in Width : \A w \in Width : low <= w /\ w <= high
  BY DEF Offers
<1>2. Width \subseteq Nat
  BY DEF Offers
<1>3. Surfaces!Min(Width) \in Width /\ \A w \in Width : Surfaces!Min(Width) <= w
  BY <1>1 DEF Surfaces!Min
<1>4. Surfaces!Max(Width) \in Width /\ \A w \in Width : w <= Surfaces!Max(Width)
  <2>1. \A w \in Width : high >= w
    BY <1>1, <1>2
  <2>2. Surfaces!Max(Width) \in Width /\ \A w \in Width : Surfaces!Max(Width) >= w
    BY <2>1 DEF Surfaces!Max
  <2> QED
    BY <1>2, <2>2
<1>5. PICK least \in Nat, most \in Nat : least = Surfaces!Min(Width) /\ most = Surfaces!Max(Width) /\ least <= most
  BY <1>2, <1>3, <1>4
<1>6. size \in Nat /\ surface \in Surface
  BY DEF SurfaceTypes
<1>7. surface.window \in BOOLEAN
  BY <1>6, SurfaceLimits
<1> QED
  BY <1>5, <1>6, <1>7 DEF Surfaces!SupportNow, MostImages

(* The constructor asks the surface and chooses a format and a mode.       *)
LEMMA ConstructStep ==
  ASSUME Offers, SurfaceInv, Surfaces!Construct
  PROVE  SurfaceInv'
<1> DEFINE fit == {i \in DOMAIN surface.formats : surface.formats[i] \in Surfaces!Suits(swapChainInfo.format)}
<1>1. /\ surfaceStep = "new" /\ support' = Surfaces!SupportNow /\ settled' = TRUE
      /\ surface' = surface /\ size' = size /\ swapChainInfo' = swapChainInfo /\ info' = info
      /\ vkSwapchain' = vkSwapchain /\ semaphores' = semaphores /\ extra' = extra
  BY DEF Surfaces!Construct
<1>2. \/ surfaceStep' = "unusable"
      \/ /\ fit # {} /\ surfaceStep' = "asked" /\ format' = surface.formats[Surfaces!Min(fit)]
         /\ presentMode' = Surfaces!TryPresentMode(swapChainInfo.presentMode, surface.presentModes)
  BY DEF Surfaces!Construct
<1>3. surface \in Surface /\ info = swapChainInfo /\ semaphores = 0
  BY <1>1 DEF SurfaceInv, SurfaceTypes
<1>4. SurfaceTypes'
  BY <1>1, <1>2 DEF SurfaceInv, SurfaceTypes
<1>5. CASE surfaceStep' = "unusable"
  BY <1>4, <1>5 DEF SurfaceInv, AskedFor, SemaphoresReach, MadeAsTold
<1>6. CASE surfaceStep' = "asked" /\ fit # {} /\ format' = surface.formats[Surfaces!Min(fit)]
           /\ presentMode' = Surfaces!TryPresentMode(swapChainInfo.presentMode, surface.presentModes)
  <2>1. fit \in SUBSET Nat
    <3>1. surface.formats \in Seq(STRING)
      BY <1>3, SurfaceLimits
    <3>2. DOMAIN surface.formats = 1 .. Len(surface.formats) /\ Len(surface.formats) \in Nat
      BY <3>1, LenProperties
    <3> QED
      BY <3>2
  <2>2. Surfaces!Min(fit) \in fit
    <3>1. \A S : Surfaces!Min(S) = Chain!Min(S)
      BY DEF Surfaces!Min, Chain!Min
    <3> HIDE DEF fit
    <3> QED
      BY <1>6, <2>1, <3>1, LeastOfSome
  <2>3. format' \in {surface.formats[i] : i \in DOMAIN surface.formats} \cap Surfaces!Suits(swapChainInfo.format)
    <3>1. PICK i \in DOMAIN surface.formats :
            i = Surfaces!Min(fit) /\ surface.formats[i] \in Surfaces!Suits(swapChainInfo.format)
      BY <2>2
    <3> QED
      BY <1>6, <3>1
  <2>4. presentMode' \in surface.presentModes
    BY <1>3, <1>6, SurfaceLimits, ModeIsOffered
  <2>5. MostImages' = MostImages
    BY <1>1 DEF MostImages
  <2>6. \A f : Surfaces!Suits(f)' = Surfaces!Suits(f)
    BY DEF Surfaces!Suits
  <2>7. AskedFor'
    BY <1>1, <1>3, <2>3, <2>4, <2>5, SupportIsNow DEF SurfaceInv, AskedFor
  <2>8. SemaphoresReach' /\ MadeAsTold'
    BY <1>1, <1>3, <1>6 DEF SemaphoresReach, MadeAsTold
  <2> QED
    BY <1>4, <2>7, <2>8 DEF SurfaceInv
<1> QED
  BY <1>2, <1>5, <1>6

(* CreateSwapChain stays within the limits, and what it asked for and got  *)
(* once is what it asks for again.                                         *)
LEMMA MakeStep ==
  ASSUME Offers, SurfaceInv, Surfaces!CreateSwapChain
  PROVE  SurfaceInv'
<1>1. /\ surfaceStep = "asked" /\ surfaceStep' = "made" /\ surface' = surface /\ size' = size /\ settled' = settled
      /\ swapChainInfo' = swapChainInfo /\ support' = support /\ format' = format /\ presentMode' = presentMode
  BY DEF Surfaces!CreateSwapChain
<1>2. /\ surface \in Surface /\ swapChainInfo \in Info /\ info \in Described /\ size \in Nat
      /\ semaphores \in Nat /\ extra \in Nat
  BY DEF SurfaceInv, SurfaceTypes
<1>3. /\ surface.minImageCount \in Nat \ {0} /\ MostImages \in Nat /\ surface.minImageCount <= MostImages
  BY <1>2, SurfaceLimits
<1>4. /\ support.minImageCount = surface.minImageCount /\ support.maxImageCount = MostImages
      /\ support.minExtent \in Nat /\ support.maxExtent \in Nat /\ support.minExtent <= support.maxExtent
      /\ support.alphas = surface.alphas /\ presentMode \in surface.presentModes
      /\ swapChainInfo.alphaMode \in surface.alphas => info.alphaMode = swapChainInfo.alphaMode
  BY <1>1 DEF SurfaceInv, AskedFor
<1>5. info.bufferCount \in Nat /\ info.extent \in Nat /\ info.alphaMode \in Alphas /\ swapChainInfo.bufferCount \in Nat
  BY <1>2 DEF Described, Offers
<1>6. PICK asked \in Nat : asked = Surfaces!Clamp(info.bufferCount, support.minImageCount, support.maxImageCount)
                           /\ surface.minImageCount <= asked /\ asked <= MostImages
                           /\ (surface.minImageCount <= info.bufferCount /\ info.bufferCount <= MostImages
                                 => asked = info.bufferCount)
  <2>1. PICK x \in Nat, low \in Nat, high \in Nat :
          x = info.bufferCount /\ low = surface.minImageCount /\ high = MostImages /\ low <= high
    BY <1>3, <1>5
  <2>2. /\ Surfaces!Clamp(x, low, high) \in Nat
        /\ low <= Surfaces!Clamp(x, low, high) /\ Surfaces!Clamp(x, low, high) <= high
        /\ low <= x /\ x <= high => Surfaces!Clamp(x, low, high) = x
    BY <2>1, Clamped
  <2> QED
    BY <1>4, <2>1, <2>2
<1>7. PICK wide \in Nat : wide = Surfaces!Clamp(info.extent, support.minExtent, support.maxExtent)
                          /\ support.minExtent <= wide /\ wide <= support.maxExtent
  <2>1. PICK x \in Nat, low \in Nat, high \in Nat :
          x = info.extent /\ low = support.minExtent /\ high = support.maxExtent /\ low <= high
    BY <1>4, <1>5
  <2>2. /\ Surfaces!Clamp(x, low, high) \in Nat
        /\ low <= Surfaces!Clamp(x, low, high) /\ Surfaces!Clamp(x, low, high) <= high
    BY <2>1, Clamped
  <2> QED
    BY <2>1, <2>2
<1>8. PICK alpha \in Alphas : alpha = (IF info.alphaMode \in support.alphas THEN info.alphaMode ELSE "none")
  <2>1. CASE info.alphaMode \in support.alphas
    BY <1>5, <2>1
  <2>2. CASE info.alphaMode \notin support.alphas
    BY <2>2 DEF Alphas
  <2> QED
    BY <2>1, <2>2
<1>9. PICK images \in asked .. Surfaces!Clamp(MaxImages, asked, support.maxImageCount) :
        /\ vkSwapchain' = [asked |-> asked, images |-> images, extent |-> wide,
                           format |-> format, alpha |-> alpha, mode |-> presentMode]
        /\ info' = [info EXCEPT !.bufferCount = images, !.extent = wide, !.alphaMode = alpha]
        /\ semaphores' = IF semaphores = 0 THEN Surfaces!SemaphoresFor(images) ELSE semaphores
        /\ extra' = IF semaphores = 0 THEN 0 ELSE extra + images - asked
  BY <1>6, <1>7, <1>8 DEF Surfaces!CreateSwapChain
<1>10. images \in Nat /\ asked <= images /\ images <= MostImages
  <2>1. MaxImages \in Nat
    BY DEF Offers
  <2>2. PICK high \in Nat : high = MostImages /\ asked <= high
    BY <1>3, <1>6
  <2>3. PICK most \in Nat : most = Surfaces!Clamp(MaxImages, asked, high) /\ most <= high
    BY <1>6, <2>1, <2>2, Clamped
  <2>4. images \in asked .. most
    BY <1>4, <1>9, <2>2, <2>3
  <2> QED
    BY <1>6, <2>2, <2>3, <2>4
<1>11. info' \in Described /\ info'.bufferCount = images /\ info'.extent = wide /\ info'.alphaMode = alpha
  BY <1>2, <1>9, <1>10 DEF Described
<1>12. semaphores' = (IF semaphores = 0 THEN images ELSE semaphores) /\ semaphores' \in Nat /\ extra' \in Nat
  BY <1>2, <1>9, <1>10 DEF Surfaces!SemaphoresFor
<1>13. SurfaceTypes'
  BY <1>1, <1>11, <1>12 DEF SurfaceInv, SurfaceTypes
<1>14. MostImages' = MostImages /\ Wished' = Wished
  BY <1>1 DEF MostImages, Wished, Surfaces!Clamp
<1>15. AskedFor'
  <2>1. swapChainInfo.alphaMode \in surface.alphas => alpha = swapChainInfo.alphaMode
    BY <1>4, <1>8
  <2> QED
    BY <1>1, <1>11, <1>14, <2>1 DEF SurfaceInv, AskedFor
<1>16. SemaphoresReach'
  <2>1. CASE semaphores = 0
    <3>1. info.bufferCount = swapChainInfo.bufferCount
      BY <1>1, <2>1 DEF SurfaceInv, SemaphoresReach
    <3>2. asked = Wished
      BY <1>4, <1>6, <3>1 DEF Wished
    <3>3. semaphores' = images /\ extra' = 0
      BY <1>9, <1>12, <2>1
    <3> QED
      BY <1>1, <1>3, <1>6, <1>10, <1>11, <1>14, <3>2, <3>3 DEF SemaphoresReach
  <2>2. CASE semaphores # 0
    <3>1. /\ surface.minImageCount <= info.bufferCount /\ info.bufferCount <= MostImages
          /\ info.bufferCount <= semaphores + extra /\ Wished <= semaphores
      BY <1>1, <2>2 DEF SurfaceInv, SemaphoresReach
    <3>2. asked = info.bufferCount /\ semaphores' = semaphores /\ extra' = extra + images - asked
      BY <1>6, <1>9, <2>2, <3>1
    <3>3. images <= semaphores + (extra + images - asked)
      BY <1>2, <1>10, <3>1, <3>2
    <3> QED
      BY <1>1, <1>3, <1>6, <1>10, <1>11, <1>14, <2>2, <3>1, <3>2, <3>3 DEF SemaphoresReach
  <2> QED
    BY <2>1, <2>2
<1>17. MadeAsTold'
  <2>1. /\ vkSwapchain'.asked = asked /\ vkSwapchain'.images = images /\ vkSwapchain'.extent = wide
        /\ vkSwapchain'.format = format /\ vkSwapchain'.alpha = alpha /\ vkSwapchain'.mode = presentMode
    BY <1>9
  <2>2. asked \in surface.minImageCount .. MostImages /\ wide \in support.minExtent .. support.maxExtent
    BY <1>3, <1>4, <1>6, <1>7
  <2>3. alpha \in surface.alphas \cup {"none"}
    BY <1>4, <1>8
  <2> QED
    BY <1>1, <1>4, <1>11, <1>14, <2>1, <2>2, <2>3 DEF MadeAsTold
<1> QED
  BY <1>13, <1>15, <1>16, <1>17 DEF SurfaceInv

(* Resize asks the surface anew.                                           *)
LEMMA ResizeSurfaceStep ==
  ASSUME Offers, SurfaceInv, Surfaces!Resize
  PROVE  SurfaceInv'
<1>1. /\ surfaceStep = "made" /\ surfaceStep' = "asked" /\ support' = Surfaces!SupportNow /\ settled' = TRUE
      /\ info' = [info EXCEPT !.extent = Surfaces!SupportNow.currentExtent]
      /\ surface' = surface /\ size' = size /\ swapChainInfo' = swapChainInfo /\ format' = format
      /\ presentMode' = presentMode /\ vkSwapchain' = vkSwapchain /\ semaphores' = semaphores /\ extra' = extra
  BY DEF Surfaces!Resize
<1>2. surface \in Surface /\ info \in Described /\ size \in Nat
  BY DEF SurfaceInv, SurfaceTypes
<1>3. info' = [info EXCEPT !.extent = size]
  BY <1>1, SupportIsNow DEF SurfaceInv
<1>4. info' \in Described /\ info'.bufferCount = info.bufferCount /\ info'.alphaMode = info.alphaMode
  BY <1>2, <1>3 DEF Described
<1>5. SurfaceTypes'
  BY <1>1, <1>4 DEF SurfaceInv, SurfaceTypes
<1>6. MostImages' = MostImages /\ Wished' = Wished
  BY <1>1 DEF MostImages, Wished, Surfaces!Clamp
<1>7. AskedFor'
  BY <1>1, <1>4, <1>6, SupportIsNow DEF SurfaceInv, AskedFor
<1>8. SemaphoresReach' /\ MadeAsTold'
  BY <1>1, <1>4, <1>6 DEF SurfaceInv, SemaphoresReach, MadeAsTold
<1> QED
  BY <1>5, <1>7, <1>8 DEF SurfaceInv

(* Neither the user nor SetPresentMode changes what was made.              *)
LEMMA OtherSurfaceStep ==
  ASSUME Offers, SurfaceInv,
         (\E m \in Surfaces!Modes : Surfaces!SetPresentMode(m)) \/ (\E w \in Width : Surfaces!WindowChanges(w))
           \/ UNCHANGED Surfaces!vars
  PROVE  SurfaceInv'
<1>1. /\ surfaceStep' = surfaceStep /\ support' = support /\ info' = info /\ surface' = surface
      /\ swapChainInfo' = swapChainInfo /\ format' = format
      /\ vkSwapchain' = vkSwapchain /\ semaphores' = semaphores /\ extra' = extra
  BY DEF Surfaces!SetPresentMode, Surfaces!WindowChanges, Surfaces!vars
<1>2. \/ size' = size /\ settled' = settled
      \/ surface.window /\ size' \in Width /\ settled' = (settled /\ size' = size)
  BY DEF Surfaces!SetPresentMode, Surfaces!WindowChanges, Surfaces!vars
<1>3. presentMode' = presentMode \/ (surfaceStep = "made" /\ presentMode' \in surface.presentModes)
  <2>1. ASSUME NEW m \in Surfaces!Modes, Surfaces!SetPresentMode(m)
        PROVE  surfaceStep = "made" /\ presentMode' \in surface.presentModes
    <3>1. surfaceStep = "made" /\ presentMode' = Surfaces!TryPresentMode(m, support.presentModes)
      BY <2>1 DEF Surfaces!SetPresentMode
    <3>2. support.presentModes = surface.presentModes /\ surface \in Surface
      BY <3>1 DEF SurfaceInv, AskedFor, SurfaceTypes
    <3> QED
      BY <3>1, <3>2, SurfaceLimits, ModeIsOffered
  <2> QED
    BY <2>1 DEF Surfaces!WindowChanges, Surfaces!vars
<1>4. SurfaceTypes'
  BY <1>1, <1>2 DEF SurfaceInv, SurfaceTypes, Offers
<1>5. MostImages' = MostImages /\ Wished' = Wished
  BY <1>1 DEF MostImages, Wished, Surfaces!Clamp
<1>6. AskedFor'
  BY <1>1, <1>2, <1>3, <1>5 DEF SurfaceInv, AskedFor
<1>7. SemaphoresReach' /\ MadeAsTold'
  BY <1>1, <1>5 DEF SurfaceInv, SemaphoresReach, MadeAsTold
<1> QED
  BY <1>4, <1>6, <1>7 DEF SurfaceInv

(* On any surface and for any wish: the swap chain is one the surface can  *)
(* have, at each Resize again, the interface tells what was made, and the  *)
(* semaphores made once suffice for what is asked for ever after.          *)
THEOREM MadeForTheSurface ==
  ASSUME Offers
  PROVE  Surfaces!Spec => [](Surfaces!FitsTheSurface /\ Surfaces!InfoIsTrue /\ Surfaces!SemaphoresSuffice)
<1>1. Surfaces!Init => SurfaceInv
  <2> SUFFICES ASSUME Surfaces!Init PROVE SurfaceInv
    OBVIOUS
  <2>1. /\ surface \in Surface /\ swapChainInfo \in Info /\ info = swapChainInfo
        /\ size \in (IF surface.window THEN Width ELSE {Surfaces!Unset})
        /\ semaphores = 0 /\ extra = 0 /\ surfaceStep = "new"
    BY DEF Surfaces!Init
  <2>2. info \in Described /\ Width \subseteq Nat /\ Surfaces!Unset \in Nat
    BY <2>1 DEF Offers, Described, Alphas, Surfaces!Unset
  <2> QED
    BY <2>1, <2>2 DEF SurfaceInv, SurfaceTypes, AskedFor, SemaphoresReach, MadeAsTold
<1>2. SurfaceInv /\ [Surfaces!Next]_Surfaces!vars => SurfaceInv'
  BY ConstructStep, MakeStep, ResizeSurfaceStep, OtherSurfaceStep DEF Surfaces!Next
<1>3. SurfaceInv => Surfaces!FitsTheSurface /\ Surfaces!InfoIsTrue /\ Surfaces!SemaphoresSuffice
  <2> SUFFICES ASSUME SurfaceInv, surfaceStep = "made"
               PROVE  Surfaces!FitsTheSurface /\ Surfaces!InfoIsTrue /\ Surfaces!SemaphoresSuffice
    BY DEF Surfaces!FitsTheSurface, Surfaces!InfoIsTrue, Surfaces!SemaphoresSuffice, Surfaces!Exists
  <2>1. Surfaces!ToSet(surface.formats) = {surface.formats[i] : i \in DOMAIN surface.formats}
    BY DEF Surfaces!ToSet
  <2>2. size \in Nat
    BY DEF SurfaceInv, SurfaceTypes
  <2>3. surface.window /\ settled => vkSwapchain.extent = size
    BY <2>2 DEF SurfaceInv, AskedFor, MadeAsTold
  <2>4. Surfaces!FitsTheSurface
    BY <2>1, <2>3 DEF SurfaceInv, AskedFor, MadeAsTold, Surfaces!FitsTheSurface
  <2>5. Surfaces!InfoIsTrue
    BY DEF SurfaceInv, AskedFor, MadeAsTold, Surfaces!InfoIsTrue
  <2>6. Surfaces!SemaphoresSuffice
    <3>1. semaphores \in Nat
      BY DEF SurfaceInv, SurfaceTypes
    <3>2. /\ vkSwapchain.images <= semaphores + extra /\ Wished <= semaphores
          /\ support.minImageCount = surface.minImageCount /\ support.maxImageCount = MostImages
      BY DEF SurfaceInv, AskedFor, MadeAsTold, SemaphoresReach
    <3>3. Wished \in Nat
      <4>1. surface \in Surface /\ swapChainInfo \in Info /\ swapChainInfo.bufferCount \in Nat
        BY DEF SurfaceInv, SurfaceTypes, Offers
      <4> QED
        BY <4>1, SurfaceLimits, Clamped DEF Wished
    <3>4. semaphores >= Surfaces!Clamp(swapChainInfo.bufferCount, support.minImageCount, support.maxImageCount)
      BY <3>1, <3>2, <3>3 DEF Wished
    <3> QED
      BY <3>2, <3>4 DEF Surfaces!SemaphoresSuffice
  <2> QED
    BY <2>4, <2>5, <2>6
<1> QED
  BY <1>1, <1>2, <1>3, PTL DEF Surfaces!Spec

-----------------------------------------------------------------------------
(* Together: the properties the run checks.                                *)

(* AtomicQueue, Semaphores and Fences, for any threads, queues, backends   *)
(* and numbers: a signal is never lost between a look at a flag and the    *)
(* sleep that follows, nor taken for another's, and what is said to have   *)
(* happened has.                                                           *)
THEOREM SignalsAreMeant ==
  ASSUME Roles, Names, MaxValue \in Nat
  PROVE  Messages!Spec /\ Sems!Spec /\ Fence!Spec => []SignalsMeanWhatTheySay
<1>1. /\ Messages!Spec => []Messages!NoWakeUpIsLost
      /\ Sems!Spec => []Sems!RunsAfterItsSignal
      /\ Fence!Spec => []Fence!ReachedUnlessDisturbed
  BY NoWakeUpLost, WorkRunsAfterItsSignal, WaitsTellTheTruth
<1>2. /\ Messages!NoWakeUpIsLost /\ Sems!RunsAfterItsSignal /\ Fence!ReachedUnlessDisturbed
      => SignalsMeanWhatTheySay
  BY DEF SignalsMeanWhatTheySay
<1> QED
  BY <1>1, <1>2, PTL

(* Swap chains of any length, surfaces, windows and wishes, for a renderer *)
(* that resizes when an acquisition fails: each acquisition has its        *)
(* semaphore, one wait goes with one signal, one frame is ahead, and what  *)
(* was made fits the surface and is what the interface tells.              *)
THEOREM SwapChainsAreFit ==
  ASSUME Rings, TwoBuffers, Offers
  PROVE  Chain!Spec /\ Swap!Spec /\ Surfaces!Spec => []SwapChainsFit
<1>1. /\ Chain!Spec => [](Chain!EnoughSemaphores /\ Chain!SemaphoresPair /\ Chain!ShowsWhatWasDrawn)
      /\ Swap!Spec => [](Swap!OneFrameAhead /\ Swap!DrawsToTheCurrent)
      /\ Surfaces!Spec => [](Surfaces!FitsTheSurface /\ Surfaces!InfoIsTrue /\ Surfaces!SemaphoresSuffice)
  BY SemaphoresGoRound, OneFrameAtATime, MadeForTheSurface
<1>2. /\ Chain!EnoughSemaphores /\ Chain!SemaphoresPair /\ Chain!ShowsWhatWasDrawn
      /\ Swap!OneFrameAhead /\ Swap!DrawsToTheCurrent
      /\ Surfaces!FitsTheSurface /\ Surfaces!InfoIsTrue /\ Surfaces!SemaphoresSuffice
      => SwapChainsFit
  BY DEF SwapChainsFit
<1> QED
  BY <1>1, <1>2, PTL
=============================================================================
