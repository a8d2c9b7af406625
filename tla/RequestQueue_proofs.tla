------------------------ MODULE RequestQueue_proofs ------------------------
(***************************************************************************)
(* Proofs about RequestQueue for every set of requests, every capacity and *)
(* every number of retries.                                                *)
(***************************************************************************)
EXTENDS RequestQueue, FiniteSetTheorems, SequenceTheorems, TLAPS

(* The worker holds a request exactly while it processes or backs off, and  *)
(* when it is parked the channel holds more than the buffer.                *)
WorkerState ==
  /\ worker \in {"processing", "backoff"} <=> current # None
  /\ worker = "blocked" => Len(channel) > Capacity

(* A live request has been retried once less than it was attempted while    *)
(* the worker holds it, and as often as it was attempted while it waits.    *)
Accounting ==
  /\ \A r \in Requests :
        status[r] = "live" => attempts[r] = retires[r] + (IF current = r THEN 1 ELSE 0)
  /\ worker = "backoff" => retires[current] < MaxRetries

IInv == TypeOK /\ HeldOnce /\ RetryBudget /\ WorkerState /\ Accounting

-----------------------------------------------------------------------------
(* What sending and receiving do to a sequence. *)
LEMMA AppendFacts ==
  ASSUME NEW S, NEW s \in Seq(S), NEW e \in S
  PROVE  /\ Append(s, e) \in Seq(S)
         /\ Len(Append(s, e)) = Len(s) + 1
         /\ \A i \in 1..Len(s) : Append(s, e)[i] = s[i]
         /\ Append(s, e)[Len(s) + 1] = e
  OBVIOUS

(* What is left of a sequence without its head.                             *)
LEMMA TailFacts ==
  ASSUME NEW S, NEW s \in Seq(S), s # <<>>
  PROVE  /\ Head(s) \in S
         /\ Head(s) = s[1]
         /\ Tail(s) \in Seq(S)
         /\ Len(s) \in Nat \ {0}
         /\ Len(Tail(s)) = Len(s) - 1
         /\ \A i \in 1..Len(Tail(s)) : Tail(s)[i] = s[i + 1]
  OBVIOUS

(* Sending appends one value to those in the channel, without doubling it. *)
LEMMA SendHolds ==
  ASSUME TypeOK, NEW r \in Requests, channel' = Append(channel, r),
         \A i, j \in 1..Len(channel) : channel[i] = channel[j] => i = j,
         r \notin InChannel
  PROVE  /\ channel' \in Seq(Requests)
         /\ Len(channel') = Len(channel) + 1
         /\ InChannel' = InChannel \cup {r}
         /\ \A i, j \in 1..Len(channel') : channel'[i] = channel'[j] => i = j
<1>1. /\ channel' \in Seq(Requests)
      /\ Len(channel') = Len(channel) + 1
      /\ \A i \in 1..Len(channel) : channel'[i] = channel[i]
      /\ channel'[Len(channel) + 1] = r
  BY AppendFacts DEF TypeOK
<1>2. Len(channel) \in Nat
  BY DEF TypeOK
<1>3. 1..Len(channel') = (1..Len(channel)) \cup {Len(channel) + 1}
  BY <1>1, <1>2
<1>4. InChannel' = InChannel \cup {r}
  BY <1>1, <1>3 DEF InChannel
<1>5. \A i, j \in 1..Len(channel') : channel'[i] = channel'[j] => i = j
  BY <1>1, <1>3 DEF InChannel
<1> QED BY <1>1, <1>4, <1>5

(* Receiving removes exactly the oldest value. *)
LEMMA ReceiveHolds ==
  ASSUME TypeOK, channel # <<>>, channel' = Tail(channel),
         \A i, j \in 1..Len(channel) : channel[i] = channel[j] => i = j
  PROVE  /\ channel' \in Seq(Requests)
         /\ Head(channel) \in Requests
         /\ Head(channel) \in InChannel
         /\ InChannel' = InChannel \ {Head(channel)}
         /\ \A i, j \in 1..Len(channel') : channel'[i] = channel'[j] => i = j
<1>1. /\ Head(channel) \in Requests
      /\ Head(channel) = channel[1]
      /\ channel' \in Seq(Requests)
      /\ Len(channel) \in Nat \ {0}
      /\ Len(channel') = Len(channel) - 1
      /\ \A i \in 1..Len(channel') : channel'[i] = channel[i + 1]
  BY TailFacts DEF TypeOK
<1>2. Head(channel) \in InChannel
  BY <1>1 DEF InChannel
<1>3. \A i, j \in 1..Len(channel') : channel'[i] = channel'[j] => i = j
  <2> SUFFICES ASSUME NEW i \in 1..Len(channel'), NEW j \in 1..Len(channel'),
                      channel'[i] = channel'[j]
               PROVE  i = j
    OBVIOUS
  <2>1. i + 1 \in 1..Len(channel) /\ j + 1 \in 1..Len(channel)
    BY <1>1
  <2>2. channel[i + 1] = channel[j + 1]
    BY <1>1
  <2> QED BY <2>1, <2>2
<1>4. InChannel' \subseteq InChannel \ {Head(channel)}
  <2> SUFFICES ASSUME NEW i \in 1..Len(channel')
               PROVE  channel'[i] \in InChannel \ {channel[1]}
    BY <1>1 DEF InChannel
  <2>1. i + 1 \in 1..Len(channel) /\ i + 1 # 1 /\ 1 \in 1..Len(channel)
    BY <1>1
  <2>2. channel'[i] = channel[i + 1]
    BY <1>1
  <2> QED BY <2>1, <2>2 DEF InChannel
<1>5. InChannel \ {Head(channel)} \subseteq InChannel'
  <2> SUFFICES ASSUME NEW i \in 1..Len(channel), channel[i] # channel[1]
               PROVE  \E k \in 1..Len(channel') : channel'[k] = channel[i]
    BY <1>1 DEF InChannel
  <2>1. i # 1 /\ i - 1 \in 1..Len(channel') /\ (i - 1) + 1 = i
    BY <1>1
  <2> QED BY <1>1, <2>1
<1> QED BY <1>1, <1>2, <1>3, <1>4, <1>5
-----------------------------------------------------------------------------
(* A request that waits in the channel has an attempt left. *)
LEMMA WaitingAttempts ==
  ASSUME TypeOK, Accounting, NEW r \in Requests, status[r] = "live", current # r
  PROVE  attempts[r] \in 0..MaxRetries
<1>1. attempts[r] = retires[r] + 0
  BY DEF Accounting
<1>2. retires[r] \in 0..MaxRetries
  BY DEF TypeOK
<1> QED BY <1>1, <1>2, MaxRetriesAssumption

(* The invariant holds initially.                                           *)
LEMMA InitIInv == Init => IInv
<1> SUFFICES ASSUME Init PROVE IInv
  OBVIOUS
<1>1. TypeOK
  BY NoneAssumption, MaxRetriesAssumption DEF Init, TypeOK, Statuses, AttemptsBound
<1>2. HeldOnce
  BY NoneAssumption DEF Init, HeldOnce, InChannel, Live
<1>3. RetryBudget /\ WorkerState /\ Accounting
  BY MaxRetriesAssumption DEF Init, RetryBudget, WorkerState, Accounting
<1> QED BY <1>1, <1>2, <1>3 DEF IInv

(* AddRequest preserves the invariant.                                      *)
LEMMA AddRequestKeeps ==
  ASSUME IInv, NEW r \in Requests, AddRequest(r)
  PROVE  IInv'
<1> USE NoneAssumption, CapacityAssumption, MaxRetriesAssumption
<1>1. r \notin InChannel /\ current # r
  BY DEF IInv, HeldOnce, AddRequest, Live, TypeOK
<1>2. /\ channel' \in Seq(Requests)
      /\ Len(channel') = Len(channel) + 1
      /\ InChannel' = InChannel \cup {r}
      /\ \A i, j \in 1..Len(channel') : channel'[i] = channel'[j] => i = j
  BY <1>1, SendHolds DEF IInv, HeldOnce, AddRequest
<1>3. TypeOK'
  BY <1>2 DEF IInv, TypeOK, AddRequest, Statuses, AttemptsBound
<1>4. Live' = Live \cup {r}
  BY DEF IInv, TypeOK, AddRequest, Live
<1>5. HeldOnce'
  BY <1>1, <1>2, <1>4 DEF IInv, HeldOnce, AddRequest, InChannel
<1>6. RetryBudget'
  BY DEF IInv, TypeOK, RetryBudget, AddRequest
<1>7. WorkerState'
  <2>1. Len(channel) \in Nat
    BY DEF IInv, TypeOK
  <2> QED BY <1>2, <2>1 DEF IInv, WorkerState, AddRequest
<1>8. Accounting'
  BY <1>1 DEF IInv, TypeOK, Accounting, WorkerState, AddRequest
<1> QED BY <1>3, <1>5, <1>6, <1>7, <1>8 DEF IInv

(* Receive preserves the invariant.                                         *)
LEMMA ReceiveKeeps ==
  ASSUME IInv, Receive
  PROVE  IInv'
<1> USE NoneAssumption, CapacityAssumption, MaxRetriesAssumption
<1>1. /\ channel' \in Seq(Requests)
      /\ Head(channel) \in Requests
      /\ Head(channel) \in InChannel
      /\ InChannel' = InChannel \ {Head(channel)}
      /\ \A i, j \in 1..Len(channel') : channel'[i] = channel'[j] => i = j
  BY ReceiveHolds DEF IInv, HeldOnce, Receive
<1>2. current = None
  BY DEF IInv, WorkerState, Receive
<1>3. status[Head(channel)] = "live"
  BY <1>1 DEF IInv, HeldOnce, Live
<1>4. attempts[Head(channel)] <= MaxRetries
  BY <1>1, <1>2, <1>3, WaitingAttempts DEF IInv
<1>5. TypeOK'
  BY <1>1, <1>4 DEF IInv, TypeOK, Receive, AttemptsBound
<1>6. HeldOnce'
  <2>1. current' = Head(channel) /\ current' # None /\ Live' = Live
    BY <1>1 DEF Receive, Live
  <2>2. Live = InChannel
    BY <1>2 DEF IInv, HeldOnce
  <2>3. Live' = InChannel' \cup ({current'} \ {None})
    BY <1>1, <2>1, <2>2
  <2>4. current' \notin InChannel'
    BY <1>1, <2>1
  <2> QED BY <1>1, <2>3, <2>4 DEF HeldOnce
<1>7. RetryBudget'
  BY <1>1, <1>3, <1>4 DEF IInv, TypeOK, RetryBudget, Receive, AttemptsBound
<1>8. WorkerState'
  BY <1>1 DEF IInv, WorkerState, Receive
<1>9. Accounting'
  BY <1>1, <1>2, <1>4 DEF IInv, TypeOK, Accounting, Receive, AttemptsBound
<1> QED BY <1>5, <1>6, <1>7, <1>8, <1>9 DEF IInv

(* Process preserves the invariant.                                         *)
LEMMA ProcessKeeps ==
  ASSUME IInv, Process
  PROVE  IInv'
<1> USE NoneAssumption, CapacityAssumption, MaxRetriesAssumption
<1>1. current \in Requests /\ status[current] = "live" /\ current \notin InChannel
  BY DEF IInv, TypeOK, HeldOnce, WorkerState, Live, Process, ProcessSucceeds, ProcessFails
<1>2. attempts[current] = retires[current] + 1
  BY <1>1 DEF IInv, Accounting
<1>3. CASE ProcessSucceeds
  <2>1. TypeOK'
    BY <1>1, <1>3 DEF IInv, TypeOK, ProcessSucceeds, Statuses
  <2>2. Live' = Live \ {current}
    BY <1>1, <1>3 DEF IInv, TypeOK, ProcessSucceeds, Live
  <2>3. HeldOnce'
    BY <1>1, <1>3, <2>2 DEF IInv, TypeOK, HeldOnce, ProcessSucceeds, InChannel
  <2>4. RetryBudget' /\ WorkerState' /\ Accounting'
    BY <1>1, <1>3 DEF IInv, TypeOK, RetryBudget, WorkerState, Accounting, ProcessSucceeds
  <2> QED BY <2>1, <2>3, <2>4 DEF IInv
<1>4. CASE ProcessFails /\ RetriesLeft(retires[current])
  <2>1. /\ worker' = "backoff"
        /\ UNCHANGED <<channel, current, retires, status, attempts>>
    BY <1>4 DEF ProcessFails
  <2> QED BY <1>1, <1>4, <2>1
        DEF IInv, TypeOK, HeldOnce, RetryBudget, WorkerState, Accounting, ProcessFails,
            RetriesLeft, InChannel, Live
<1>5. CASE ProcessFails /\ ~RetriesLeft(retires[current])
  <2>1. /\ status' = [status EXCEPT ![current] = "abandoned"]
        /\ current' = None
        /\ worker' = "receiving"
        /\ UNCHANGED <<channel, retires, attempts>>
    BY <1>5 DEF ProcessFails
  <2>2. TypeOK'
    BY <1>1, <2>1 DEF IInv, TypeOK, Statuses
  <2>3. Live' = Live \ {current}
    BY <1>1, <2>1 DEF IInv, TypeOK, Live
  <2>4. HeldOnce'
    BY <1>1, <2>1, <2>3 DEF IInv, TypeOK, HeldOnce, InChannel
  <2>5. attempts[current] = MaxRetries + 1
    BY <1>1, <1>2, <1>5 DEF IInv, TypeOK, RetriesLeft
  <2>6. RetryBudget' /\ WorkerState' /\ Accounting'
    BY <1>1, <2>1, <2>5 DEF IInv, TypeOK, RetryBudget, WorkerState, Accounting
  <2> QED BY <2>2, <2>4, <2>6 DEF IInv
<1> QED BY <1>3, <1>4, <1>5 DEF Process

(* Reschedule preserves the invariant.                                      *)
LEMMA RescheduleKeeps ==
  ASSUME IInv, Reschedule
  PROVE  IInv'
<1> USE NoneAssumption, CapacityAssumption, MaxRetriesAssumption
<1>1. current \in Requests /\ status[current] = "live" /\ current \notin InChannel
  BY DEF IInv, TypeOK, HeldOnce, WorkerState, Live, Reschedule
<1>2. attempts[current] = retires[current] + 1 /\ retires[current] < MaxRetries
  BY <1>1 DEF IInv, Accounting, Reschedule
<1>3. /\ channel' \in Seq(Requests)
      /\ Len(channel') = Len(channel) + 1
      /\ InChannel' = InChannel \cup {current}
      /\ \A i, j \in 1..Len(channel') : channel'[i] = channel'[j] => i = j
  BY <1>1, SendHolds DEF IInv, HeldOnce, Reschedule
<1>4. Len(channel) \in Nat
  BY DEF IInv, TypeOK
<1>5. TypeOK'
  BY <1>1, <1>2, <1>3 DEF IInv, TypeOK, Reschedule, CountRetry
<1>6. HeldOnce'
  <2>1. Live' = InChannel' \cup ({current'} \ {None})
    BY <1>1, <1>3 DEF IInv, HeldOnce, Reschedule, Live
  <2>2. current' \notin InChannel'
    BY <1>3, <1>5 DEF Reschedule, InChannel, TypeOK
  <2> QED BY <1>3, <2>1, <2>2 DEF HeldOnce
<1>7. RetryBudget'
  BY DEF IInv, RetryBudget, Reschedule
<1>8. WorkerState'
  BY <1>1, <1>3, <1>4 DEF IInv, WorkerState, Reschedule, HasRoom
<1>9. Accounting'
  BY <1>1, <1>2 DEF IInv, TypeOK, Accounting, Reschedule, CountRetry
<1> QED BY <1>5, <1>6, <1>7, <1>8, <1>9 DEF IInv

(* Restart preserves the invariant.                                         *)
LEMMA RestartKeeps ==
  ASSUME IInv, Restart
  PROVE  IInv'
<1> USE NoneAssumption, MaxRetriesAssumption
<1>1. TypeOK'
  BY DEF IInv, TypeOK, Restart, Statuses
<1>2. HeldOnce'
  BY DEF IInv, TypeOK, HeldOnce, Restart, InChannel, Live
<1>3. RetryBudget' /\ WorkerState' /\ Accounting'
  BY DEF IInv, TypeOK, RetryBudget, WorkerState, Accounting, Restart
<1> QED BY <1>1, <1>2, <1>3 DEF IInv

(* Every step preserves the invariant.                                      *)
LEMMA NextKeeps == IInv /\ [Next]_vars => IInv'
<1> SUFFICES ASSUME IInv, [Next]_vars PROVE IInv'
  OBVIOUS
<1>1. CASE UNCHANGED vars
  BY <1>1 DEF vars, IInv, TypeOK, HeldOnce, RetryBudget, WorkerState, Accounting, InChannel, Live
<1> QED BY <1>1, AddRequestKeeps, ReceiveKeeps, ProcessKeeps, RescheduleKeeps, RestartKeeps
        DEF Next

(* The inductive invariant holds of every behaviour of the queue. *)
THEOREM Invariance == Spec => []IInv
BY InitIInv, NextKeeps, PTL DEF Spec
-----------------------------------------------------------------------------
(* The variables keep their types: in particular retires never exceeds      *)
(* maxRetries (manager.go:176).                                             *)
THEOREM TypeCorrect == Spec => []TypeOK
<1>1. IInv => TypeOK
  BY DEF IInv
<1> QED BY <1>1, Invariance, PTL

(* No request is lost or doubled by rescheduling (manager.go:166-187).      *)
THEOREM NoneLostOrDoubled == Spec => []HeldOnce
<1>1. IInv => HeldOnce
  BY DEF IInv
<1> QED BY <1>1, Invariance, PTL

(* A request is given up after exactly MaxRetries + 1 attempts.             *)
THEOREM BudgetKept == Spec => []RetryBudget
<1>1. IInv => RetryBudget
  BY DEF IInv
<1> QED BY <1>1, Invariance, PTL

(* A channel without doubles holds as many requests as it is long. *)
LEMMA ChannelCardinality ==
  ASSUME TypeOK, HeldOnce
  PROVE  IsFiniteSet(Live) /\ Cardinality(Live) >= Len(channel)
<1> DEFINE at == [i \in 1..Len(channel) |-> channel[i]]
<1>1. Len(channel) \in Nat
  BY DEF TypeOK
<1>2. at \in Bijection(1..Len(channel), InChannel)
  <2>1. at \in [1..Len(channel) -> InChannel]
    BY DEF InChannel
  <2>2. at \in Surjection(1..Len(channel), InChannel)
    BY <2>1 DEF Surjection, InChannel
  <2>3. at \in Injection(1..Len(channel), InChannel)
    BY <2>1 DEF Injection, IsInjective, HeldOnce
  <2> QED BY <2>2, <2>3 DEF Bijection
<1>3. IsFiniteSet(1..Len(channel)) /\ Cardinality(1..Len(channel)) = Len(channel)
  <2>1. /\ IsFiniteSet(1..Len(channel))
        /\ Cardinality(1..Len(channel))
             = IF 1 > Len(channel) THEN 0 ELSE Len(channel) - 1 + 1
    <3>1. 1 \in Int /\ Len(channel) \in Int
      BY <1>1
    <3> QED BY <3>1, FS_Interval
  <2>2. (IF 1 > Len(channel) THEN 0 ELSE Len(channel) - 1 + 1) = Len(channel)
    BY <1>1
  <2> QED BY <2>1, <2>2
<1>4. IsFiniteSet(InChannel) /\ Cardinality(InChannel) = Len(channel)
  <2>1. ExistsBijection(1..Len(channel), InChannel)
    BY <1>2 DEF ExistsBijection
  <2> QED BY <1>3, <2>1, FS_Bijection
<1>5. IsFiniteSet(Live)
  <2>1. IsFiniteSet(InChannel \cup {current})
    BY <1>4, FS_AddElement
  <2>2. Live \subseteq InChannel \cup {current}
    BY DEF HeldOnce
  <2> QED BY <2>1, <2>2, FS_Subset
<1>6. InChannel \subseteq Live
  BY DEF HeldOnce
<1> QED BY <1>4, <1>5, <1>6, FS_Subset

(* The worker parks in its own send only with more unfinished requests than *)
(* the buffer holds (manager.go:184).                                       *)
THEOREM BlockedNeedsOverload == Spec => []BlockedOnlyOverCapacity
<1>1. IInv => BlockedOnlyOverCapacity
  <2> SUFFICES ASSUME IInv, worker = "blocked"
               PROVE  Len(channel) > Capacity /\ Cardinality(Live) > Capacity
    BY DEF BlockedOnlyOverCapacity
  <2>1. Len(channel) > Capacity /\ Len(channel) \in Nat
    BY DEF IInv, WorkerState, TypeOK
  <2>2. IsFiniteSet(Live) /\ Cardinality(Live) >= Len(channel)
    BY ChannelCardinality DEF IInv
  <2>3. Cardinality(Live) \in Nat
    BY <2>2, FS_CardinalityType
  <2> QED BY <2>1, <2>2, <2>3, CapacityAssumption
<1> QED BY <1>1, Invariance, PTL

(* A buffer that holds every request there can be keeps the worker from     *)
(* ever parking: the premise of the liveness run.                           *)
THEOREM LargeBufferNeverBlocks ==
  ASSUME IsFiniteSet(Requests), Cardinality(Requests) <= Capacity
  PROVE  Spec => [](worker # "blocked")
<1>1. IInv => worker # "blocked"
  <2> SUFFICES ASSUME IInv, worker = "blocked" PROVE FALSE
    OBVIOUS
  <2>1. Len(channel) > Capacity /\ Len(channel) \in Nat
    BY DEF IInv, WorkerState, TypeOK
  <2>2. IsFiniteSet(Live) /\ Cardinality(Live) >= Len(channel)
    BY ChannelCardinality DEF IInv
  <2>3. Live \subseteq Requests
    BY DEF Live
  <2>4. Cardinality(Live) <= Cardinality(Requests)
    BY <2>3, FS_Subset
  <2>5. Cardinality(Live) \in Nat /\ Cardinality(Requests) \in Nat
    BY <2>2, FS_CardinalityType
  <2> QED BY <2>1, <2>2, <2>4, <2>5, CapacityAssumption
<1> QED BY <1>1, Invariance, PTL
-----------------------------------------------------------------------------
(* Every step of the queue is a step of the abstract service or stutters.   *)
LEMMA StepRefines == IInv /\ [Next]_vars => [Service!Next]_(Service!vars)
<1> SUFFICES ASSUME IInv, [Next]_vars PROVE [Service!Next]_(Service!vars)
  OBVIOUS
<1> USE NoneAssumption, MaxRetriesAssumption
<1>1. ASSUME NEW r \in Requests, AddRequest(r) PROVE Service!Submit(r)
  <2>1. status[r] \in Service!Ended
    BY <1>1 DEF IInv, TypeOK, AddRequest, Statuses, Service!Ended
  <2> QED BY <1>1, <2>1 DEF AddRequest, Service!Submit
<1>2. CASE Receive
  <2>1. Head(channel) \in Requests /\ Head(channel) \in InChannel
    BY <1>2, ReceiveHolds DEF Receive, IInv, HeldOnce
  <2>2. status[Head(channel)] = "live" /\ current = None
    BY <1>2, <2>1 DEF IInv, HeldOnce, Live, WorkerState, Receive
  <2>3. attempts[Head(channel)] \in 0..MaxRetries
    BY <2>1, <2>2, WaitingAttempts DEF IInv
  <2>4. /\ attempts[Head(channel)] < AttemptsBound
        /\ attempts[Head(channel)] < MaxRetries + 1
    BY <2>3 DEF AttemptsBound
  <2>5. attempts' = [attempts EXCEPT ![Head(channel)] = @ + 1]
    BY <1>2, <2>4 DEF Receive
  <2>6. /\ worker # "processing"
        /\ worker' = "processing"
        /\ current' = Head(channel)
        /\ UNCHANGED status
    BY <1>2 DEF Receive
  <2>7. Service!Begin(Head(channel))
    BY <2>2, <2>4, <2>5, <2>6 DEF Service!Begin
  <2> QED BY <2>1, <2>7 DEF Service!Next
<1>3. CASE Process
  <2>1. current \in Requests /\ worker = "processing" /\ status[current] = "live"
    BY <1>3 DEF IInv, TypeOK, HeldOnce, Live, WorkerState, Process, ProcessSucceeds, ProcessFails
  <2>2. attempts[current] = retires[current] + 1
    BY <2>1 DEF IInv, Accounting
  <2>3. CASE ProcessSucceeds
    BY <2>1, <2>3 DEF ProcessSucceeds, Service!Succeed, Service!Next
  <2>4. CASE ProcessFails
    <3>1. retires[current] \in 0..MaxRetries
      BY <2>1 DEF IInv, TypeOK
    <3>2. Service!Fail(current)
      BY <2>1, <2>2, <2>4, <3>1 DEF ProcessFails, RetriesLeft, Service!Fail
    <3> QED BY <2>1, <3>2 DEF Service!Next
  <2> QED BY <1>3, <2>3, <2>4 DEF Process
<1>4. CASE Reschedule
  BY <1>4 DEF Reschedule, Service!vars
<1>5. CASE Restart
  BY <1>5 DEF Restart, Service!Lose, Service!Next
<1>6. CASE UNCHANGED vars
  BY <1>6 DEF vars, Service!vars
<1> QED BY <1>1, <1>2, <1>3, <1>4, <1>5, <1>6 DEF Next, Service!Next

(* The queue implements the service it is meant to be: attempts one at a    *)
(* time, at most MaxRetries + 1 per request, nothing dropped earlier.       *)
THEOREM ImplementsService == Spec => ServiceSpec
<1>1. Init => Service!Init
  BY NoneAssumption DEF Init, Service!Init
<1> QED BY <1>1, StepRefines, Invariance, PTL DEF Spec, ServiceSpec, Service!Spec
-----------------------------------------------------------------------------
(* The place of a request is the one index it has, and zero outside.        *)
LEMMA PlaceOf ==
  ASSUME TypeOK, HeldOnce, NEW r \in Requests
  PROVE  /\ Place(r) \in Nat
         /\ r \notin InChannel => Place(r) = 0
         /\ \A i \in 1..Len(channel) : channel[i] = r => Place(r) = i
<1>1. ASSUME NEW i \in 1..Len(channel), channel[i] = r
      PROVE  Place(r) = i
  <2>1. r \in InChannel
    BY <1>1 DEF InChannel
  <2>2. \A j \in 1..Len(channel) : channel[j] = r => j = i
    BY <1>1 DEF HeldOnce
  <2> QED BY <1>1, <2>1, <2>2 DEF Place
<1>2. r \notin InChannel => Place(r) = 0
  BY DEF Place
<1>3. Len(channel) \in Nat
  BY DEF TypeOK
<1> QED BY <1>1, <1>2, <1>3 DEF InChannel

(* A send puts nobody back.                                                 *)
LEMMA SendKeepsPlaces ==
  ASSUME TypeOK, HeldOnce, TypeOK', HeldOnce', NEW x \in Requests, x \notin InChannel,
         channel' = Append(channel, x), NEW r \in Requests, r # x
  PROVE  Place(r)' = Place(r)
<1>1. /\ Len(channel') = Len(channel) + 1
      /\ \A i \in 1..Len(channel) : channel'[i] = channel[i]
      /\ InChannel' = InChannel \cup {x}
  BY AppendFacts, SendHolds DEF TypeOK, HeldOnce
<1>2. CASE r \in InChannel
  <2>1. PICK i \in 1..Len(channel) : channel[i] = r
    BY <1>2 DEF InChannel
  <2>2. i \in 1..Len(channel') /\ channel'[i] = r
    BY <1>1, <2>1 DEF TypeOK
  <2>3. Place(r) = i
    BY <2>1, PlaceOf
  <2>4. Place(r)' = i
    <3>1. r \in InChannel'
      BY <1>1, <1>2
    <3>2. \A j \in 1..Len(channel') : channel'[j] = r => j = i
      BY <2>2 DEF HeldOnce
    <3> QED BY <2>2, <3>1, <3>2 DEF Place
  <2> QED BY <2>3, <2>4
<1>3. CASE r \notin InChannel
  <2>1. r \notin InChannel'
    BY <1>1, <1>3
  <2> QED BY <1>3, <2>1 DEF Place
<1> QED BY <1>2, <1>3

(* A receive moves everybody who waits forward.                             *)
LEMMA ReceiveMovesForward ==
  ASSUME TypeOK, HeldOnce, TypeOK', HeldOnce', channel # <<>>, channel' = Tail(channel),
         NEW r \in InChannel
  PROVE  Place(r)' < Place(r)
<1>1. /\ Head(channel) = channel[1]
      /\ Len(channel) \in Nat \ {0}
      /\ Len(channel') = Len(channel) - 1
      /\ \A i \in 1..Len(channel') : channel'[i] = channel[i + 1]
      /\ InChannel' = InChannel \ {Head(channel)}
  BY TailFacts, ReceiveHolds DEF TypeOK, HeldOnce
<1>2. PICK i \in 1..Len(channel) : channel[i] = r
  BY DEF InChannel
<1>3. r \in Requests
  BY <1>2 DEF TypeOK
<1>4. Place(r) = i
  BY <1>2, <1>3, PlaceOf
<1>5. CASE i = 1
  <2>1. r \notin InChannel'
    BY <1>1, <1>2, <1>5
  <2>2. Place(r)' = 0
    BY <2>1 DEF Place
  <2> QED BY <1>4, <1>5, <2>2
<1>6. CASE i # 1
  <2>1. i - 1 \in 1..Len(channel') /\ channel'[i - 1] = channel[(i - 1) + 1]
    BY <1>1, <1>6
  <2>2. channel'[i - 1] = r
    BY <1>2, <2>1
  <2>3. r \in InChannel'
    BY <2>1, <2>2 DEF InChannel
  <2>4. \A j \in 1..Len(channel') : channel'[j] = r => j = i - 1
    BY <2>1, <2>2 DEF HeldOnce
  <2>5. Place(r)' = i - 1
    BY <2>1, <2>2, <2>3, <2>4 DEF Place
  <2> QED BY <1>4, <2>5
<1> QED BY <1>5, <1>6

(* What each step does to what lies before a request.                       *)
LEMMA NearerStep ==
  ASSUME IInv, IInv', [Next]_vars, NEW r \in Live, r \in Live'
  PROVE  IF worker' # worker THEN Less(Before(r)', Before(r)) ELSE UNCHANGED Before(r)
<1> USE NoneAssumption, CapacityAssumption, MaxRetriesAssumption
<1>0. r \in Requests /\ status[r] = "live" /\ status'[r] = "live"
  BY DEF Live
<1>1. /\ TypeOK /\ HeldOnce /\ TypeOK' /\ HeldOnce'
      /\ retires[r] \in 0..MaxRetries /\ retires'[r] \in 0..MaxRetries
      /\ Place(r) \in Nat /\ Place(r)' \in Nat
  <2>1. TypeOK /\ HeldOnce /\ TypeOK' /\ HeldOnce'
    BY DEF IInv
  <2>2. Place(r) \in Nat
    BY <1>0, <2>1, PlaceOf
  <2>3. Place(r)' \in Nat
    <3>1. CASE r \in InChannel'
      <4>1. PICK i \in 1..Len(channel') : channel'[i] = r
        BY <3>1 DEF InChannel
      <4>2. \A j \in 1..Len(channel') : channel'[j] = r => j = i
        BY <2>1, <4>1 DEF HeldOnce
      <4>3. Place(r)' = i
        BY <3>1, <4>1, <4>2 DEF Place
      <4> QED BY <2>1, <4>3 DEF TypeOK
    <3>2. CASE r \notin InChannel'
      BY <3>2 DEF Place
    <3> QED BY <3>1, <3>2
  <2> QED BY <1>0, <2>1, <2>2, <2>3 DEF TypeOK
<1>2. ASSUME NEW x \in Requests, AddRequest(x)
      PROVE  worker' = worker /\ UNCHANGED Before(r)
  <2>1. r # x
    BY <1>0, <1>2 DEF AddRequest
  <2>2. x \notin InChannel
    BY <1>1, <1>2 DEF HeldOnce, AddRequest, Live
  <2>3. Place(r)' = Place(r)
    BY <1>0, <1>1, <1>2, <2>1, <2>2, SendKeepsPlaces DEF AddRequest
  <2>4. retires'[r] = retires[r] /\ worker' = worker
    BY <1>0, <1>1, <1>2, <2>1 DEF AddRequest, TypeOK
  <2> QED BY <2>3, <2>4 DEF Before, Stage
<1>3. ASSUME Receive PROVE worker' # worker /\ Less(Before(r)', Before(r))
  <2>1. r \in InChannel
    BY <1>0, <1>1, <1>3 DEF IInv, HeldOnce, WorkerState, Receive
  <2>2. Place(r)' < Place(r)
    BY <1>1, <1>3, <2>1, ReceiveMovesForward DEF Receive
  <2>3. retires' = retires /\ worker' # worker
    BY <1>3 DEF Receive
  <2> QED BY <2>2, <2>3 DEF Less, Before
<1>4. ASSUME Process PROVE worker' # worker /\ Less(Before(r)', Before(r))
  <2>1. /\ worker = "processing" /\ worker' \in {"receiving", "backoff"}
        /\ retires' = retires /\ channel' = channel
    BY <1>4 DEF Process, ProcessSucceeds, ProcessFails
  <2>2. Place(r)' = Place(r)
    BY <2>1 DEF Place, InChannel
  <2>3. Stage = 2 /\ Stage' \in {0, 1}
    BY <2>1 DEF Stage
  <2> QED BY <2>1, <2>2, <2>3 DEF Less, Before
<1>5. ASSUME Reschedule PROVE worker' # worker /\ Less(Before(r)', Before(r))
  <2>1. /\ current \in Requests /\ current \notin InChannel
        /\ worker = "backoff" /\ worker' \in {"receiving", "blocked"}
        /\ channel' = Append(channel, current)
    BY <1>1, <1>5 DEF IInv, TypeOK, HeldOnce, WorkerState, Reschedule
  <2>2. CASE r = current
    <3>1. retires'[r] = retires[r] + 1
      BY <1>0, <1>1, <1>5, <2>2 DEF Reschedule, CountRetry, TypeOK
    <3> QED BY <1>1, <2>1, <3>1 DEF Less, Before
  <2>3. CASE r # current
    <3>1. retires'[r] = retires[r]
      BY <1>0, <1>1, <1>5, <2>3 DEF Reschedule, TypeOK
    <3>2. Place(r)' = Place(r)
      BY <1>0, <1>1, <2>1, <2>3, SendKeepsPlaces
    <3>3. Stage = 1 /\ Stage' = 0
      BY <2>1 DEF Stage
    <3> QED BY <2>1, <3>1, <3>2, <3>3 DEF Less, Before
  <2> QED BY <2>2, <2>3
<1>6. ASSUME Restart PROVE FALSE
  BY <1>0, <1>6 DEF Restart
<1>7. CASE UNCHANGED vars
  BY <1>7 DEF vars, Before, Place, Stage, InChannel
<1> QED BY <1>2, <1>3, <1>4, <1>5, <1>6, <1>7 DEF Next

(* Every step of the worker brings every unfinished request nearer to its   *)
(* end and no other step sets one back: the order of the channel together   *)
(* with the number of retries is the reason why requests end.               *)
THEOREM RequestsDrawToAnEnd == Spec => NearerToEnd
<1>1. IInv /\ IInv' /\ [Next]_vars
        => [\A r \in Live \cap Live' :
              IF worker' # worker THEN Less(Before(r)', Before(r)) ELSE UNCHANGED Before(r)]_vars
  BY NearerStep
<1> QED BY <1>1, Invariance, PTL DEF Spec, NearerToEnd

(* With RequestsDrawToAnEnd, all that EveryRequestEnds takes besides the    *)
(* fairness: the worker has a step to take.                                 *)
THEOREM WorkerHasWork == Spec => []WorkAtHand
<1>1. IInv => WorkAtHand
  <2> SUFFICES ASSUME IInv, worker = "receiving", channel = <<>> PROVE Live = {}
    BY DEF WorkAtHand
  <2>1. InChannel = {}
    BY DEF InChannel
  <2>2. current = None
    BY DEF IInv, WorkerState
  <2> QED BY <2>1, <2>2 DEF IInv, HeldOnce
<1> QED BY <1>1, Invariance, PTL
=============================================================================
