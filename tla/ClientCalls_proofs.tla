------------------------- MODULE ClientCalls_proofs -------------------------
(***************************************************************************)
(* Proofs about ClientCalls, for any clients and ids, and any number of    *)
(* calls, retries and faults.                                              *)
(***************************************************************************)
EXTENDS ClientCalls, SequenceTheorems, TLAPS

(* Only a connect or a disconnect is sent to the channel.                    *)
Sending == \A c \in Clients : handler[c].at = "send" => handler[c].op \in Ops

Typed == TypeOK /\ Sending

(* A handler is asleep or has a call.                                        *)
LEMMA Awake ==
  ASSUME TypeOK, NEW c \in Clients
  PROVE  \/ handler[c] = Asleep
         \/ handler[c] \in [op : Ops \cup {"get"}, id : Ids, at : {"look", "send"}]
BY DEF TypeOK, Handlers

(* Nothing is asked for at the start.                                        *)
LEMMA InitTyped == Init => Typed
BY CallsAssumption DEF Init, Typed, Sending, TypeOK, Handlers, Asleep, Requests, NoJob, Ops

(* When the process ends, everything in memory is gone and typed.            *)
LEMMA EndsTyped ==
  ASSUME TypeOK, ProcessEnds, faults' \in 0..MaxFaults
  PROVE  TypeOK'
<1>1. handler' \in [Clients -> Handlers]
  BY DEF ProcessEnds, Handlers
<1>2. Lost \subseteq Ids
  BY DEF Lost
<1>3. job.op = "disconnect" => job.id \in Ids
  BY DEF TypeOK, Requests, NoJob
<1>4. dropped' \subseteq Ids /\ torn' \subseteq Ids
  BY <1>2, <1>3 DEF TypeOK, ProcessEnds, Interrupted
<1>5. queue' \in Seq(Requests)
  BY DEF ProcessEnds
<1> QED BY <1>1, <1>4, <1>5 DEF TypeOK, ProcessEnds, disk

(* Every step keeps the types.                                               *)
LEMMA TypedStep ==
  ASSUME Typed, [Next]_vars
  PROVE  Typed'
<1> USE DEF disk, hist
<1>1. ASSUME NEW c \in Clients, NEW op \in Ops \cup {"get"}, NEW id \in Ids, Call(c, op, id) PROVE Typed'
  <2> USE <1>1 DEF Call
  <2>1. TypeOK'
    BY CallsAssumption DEF Typed, TypeOK, Handlers, Asleep, Requests, NoJob, Ops, Lost,
       Interrupted, Outstanding
  <2>2. Sending'
    BY Awake DEF Typed, TypeOK, Handlers, Asleep, Requests, NoJob, Ops, Sending
  <2> QED BY <2>1, <2>2 DEF Typed
<1>2. ASSUME NEW c \in Clients, Connect(c) PROVE Typed'
  <2> USE <1>2 DEF Connect
  <2>1. TypeOK'
    <3>1. handler[c] \in [op : Ops \cup {"get"}, id : Ids, at : {"look", "send"}]
      BY Awake DEF Typed, Asleep
    <3>2. [handler[c] EXCEPT !.at = "send"] \in Handlers
      BY <3>1 DEF Handlers
    <3>3. handler' \in [Clients -> Handlers]
      BY <3>2 DEF Typed, TypeOK, Handlers
    <3> QED BY <3>3 DEF Typed, TypeOK
  <2>2. Sending'
    BY Awake DEF Typed, TypeOK, Handlers, Asleep, Requests, NoJob, Ops, Sending
  <2> QED BY <2>1, <2>2 DEF Typed
<1>3. ASSUME NEW c \in Clients, Disconnect(c) PROVE Typed'
  <2> USE <1>3 DEF Disconnect
  <2>1. TypeOK'
    <3>1. handler[c] \in [op : Ops \cup {"get"}, id : Ids, at : {"look", "send"}]
      BY Awake DEF Typed, Asleep
    <3>2. [handler[c] EXCEPT !.at = "send"] \in Handlers
      BY <3>1 DEF Handlers
    <3>3. handler' \in [Clients -> Handlers]
      BY <3>2 DEF Typed, TypeOK, Handlers
    <3> QED BY <3>3 DEF Typed, TypeOK
  <2>2. Sending'
    BY Awake DEF Typed, TypeOK, Handlers, Asleep, Requests, NoJob, Ops, Sending
  <2> QED BY <2>1, <2>2 DEF Typed
<1>4. ASSUME NEW c \in Clients, Send(c) PROVE Typed'
  <2> USE <1>4 DEF Send
  <2>1. TypeOK'
    <3>1. handler[c] \in [op : Ops \cup {"get"}, id : Ids, at : {"look", "send"}] /\ handler[c].op \in Ops
      BY Awake DEF Typed, Sending, Asleep
    <3>2. [op |-> handler[c].op, id |-> handler[c].id, retries |-> 0] \in Requests
      BY <3>1, CallsAssumption DEF Requests
    <3>3. queue' \in Seq(Requests)
      BY <3>2 DEF Typed, TypeOK
    <3>4. handler' \in [Clients -> Handlers]
      BY DEF Typed, TypeOK, Handlers
    <3> QED BY <3>3, <3>4 DEF Typed, TypeOK
  <2>2. Sending'
    BY Awake DEF Typed, TypeOK, Handlers, Asleep, Requests, NoJob, Ops, Sending
  <2> QED BY <2>1, <2>2 DEF Typed
<1>5. ASSUME NEW c \in Clients, GetConnection(c) PROVE Typed'
  <2> USE <1>5 DEF GetConnection
  <2>1. TypeOK'
    <3>1. CASE handler[c].id \in stored
      <4>1. handler' \in [Clients -> Handlers]
        BY <3>1 DEF Typed, TypeOK, Handlers
      <4> QED BY <3>1, <4>1 DEF Typed, TypeOK
    <3>2. CASE handler[c].id \notin stored
      <4>1. ProcessEnds /\ faults' \in 0..MaxFaults
        BY <3>2 DEF Typed, TypeOK
      <4> QED BY <4>1, EndsTyped DEF Typed
    <3> QED BY <3>1, <3>2
  <2>2. Sending'
    <3>1. CASE handler[c].id \in stored
      BY <3>1 DEF Typed, TypeOK, Sending, Asleep
    <3>2. CASE handler[c].id \notin stored
      BY <3>2 DEF Sending, ProcessEnds, Asleep
    <3> QED BY <3>1, <3>2
  <2> QED BY <2>1, <2>2 DEF Typed
<1>6. ASSUME ChangePolicy PROVE Typed'
  <2> USE <1>6 DEF ChangePolicy
  <2>1. TypeOK'
    <3>1. policy' \in BOOLEAN
      BY Zenon
    <3>2. calls' \in 0..MaxCalls
      BY CallsAssumption DEF Typed, TypeOK
    <3> QED BY <3>1, <3>2 DEF Typed, TypeOK
  <2>2. Sending'
    BY Awake DEF Typed, TypeOK, Handlers, Asleep, Requests, NoJob, Ops, Sending
  <2> QED BY <2>1, <2>2 DEF Typed
<1>7. ASSUME Receive PROVE Typed'
  <2> USE <1>7 DEF Receive
  <2>1. TypeOK'
    <3>1. Head(queue) \in Requests /\ Tail(queue) \in Seq(Requests)
      BY HeadTailProperties DEF Typed, TypeOK
    <3>2. Head(queue) # NoJob
      BY <3>1 DEF Requests, NoJob, Ops
    <3> QED BY <3>1, <3>2 DEF Typed, TypeOK
  <2>2. Sending'
    BY Awake DEF Typed, TypeOK, Handlers, Asleep, Requests, NoJob, Ops, Sending
  <2> QED BY <2>1, <2>2 DEF Typed
<1>8. ASSUME Find PROVE Typed'
  <2> USE <1>8 DEF Find, Done
  <2>1. TypeOK'
    BY CallsAssumption DEF Typed, TypeOK, Handlers, Asleep, Requests, NoJob, Ops, Lost,
       Interrupted, Outstanding
  <2>2. Sending'
    BY Awake DEF Typed, TypeOK, Handlers, Asleep, Requests, NoJob, Ops, Sending
  <2> QED BY <2>1, <2>2 DEF Typed
<1>9. ASSUME Link PROVE Typed'
  <2> USE <1>9 DEF Link
  <2>1. TypeOK'
    BY CallsAssumption DEF Typed, TypeOK, Handlers, Asleep, Requests, NoJob, Ops, Lost,
       Interrupted, Outstanding
  <2>2. Sending'
    BY Awake DEF Typed, TypeOK, Handlers, Asleep, Requests, NoJob, Ops, Sending
  <2> QED BY <2>1, <2>2 DEF Typed
<1>10. ASSUME Record PROVE Typed'
  <2> USE <1>10 DEF Record, Done
  <2>1. TypeOK'
    BY CallsAssumption DEF Typed, TypeOK, Handlers, Asleep, Requests, NoJob, Ops, Lost,
       Interrupted, Outstanding
  <2>2. Sending'
    BY Awake DEF Typed, TypeOK, Handlers, Asleep, Requests, NoJob, Ops, Sending
  <2> QED BY <2>1, <2>2 DEF Typed
<1>11. ASSUME FailJob PROVE Typed'
  <2> USE <1>11 DEF FailJob, Done, StillTries, Requeue
  <2>1. TypeOK'
    <3>1. job \in Requests
      BY DEF Typed, TypeOK
    <3>2. faults' \in 0..MaxFaults
      BY CallsAssumption DEF Typed, TypeOK
    <3>3. queue' \in Seq(Requests)
      <4>1. CASE StillTries(job.retries) /\ queue' = Requeue(job)
        <5>1. [job EXCEPT !.retries = @ + 1] \in Requests
          BY <3>1, <4>1, CallsAssumption DEF Requests, StillTries
        <5> QED BY <4>1, <5>1 DEF Typed, TypeOK, Requeue
      <4>2. CASE UNCHANGED queue
        BY <4>2 DEF Typed, TypeOK
      <4> QED BY <4>1, <4>2
    <3>4. dropped' \subseteq Ids /\ torn' \subseteq Ids
      BY <3>1 DEF Typed, TypeOK, Requests, Interrupted
    <3> QED BY <3>2, <3>3, <3>4 DEF Typed, TypeOK
  <2>2. Sending'
    BY Awake DEF Typed, TypeOK, Handlers, Asleep, Requests, NoJob, Ops, Sending
  <2> QED BY <2>1, <2>2 DEF Typed
<1>12. ASSUME Crash PROVE Typed'
  <2> USE <1>12 DEF Crash
  <2>1. TypeOK'
    <3>1. faults' \in 0..MaxFaults
      BY CallsAssumption DEF Typed, TypeOK
    <3> QED BY <3>1, EndsTyped DEF Typed
  <2>2. Sending'
    BY DEF Sending, ProcessEnds, Asleep
  <2> QED BY <2>1, <2>2 DEF Typed
<1>13. CASE UNCHANGED vars
  BY <1>13 DEF vars, Typed, TypeOK, Sending
<1> QED BY <1>1, <1>2, <1>3, <1>4, <1>5, <1>6, <1>7, <1>8, <1>9, <1>10, <1>11, <1>12, <1>13 DEF
           Next, Work, Handle

-----------------------------------------------------------------------------
(* A connection about to be recorded has been linked.                        *)
Linked ==
  /\ step = "record" /\ job.op = "connect" => job.id \in linked
  /\ SuccessIsLinked

(* Nothing is recorded at the start.                                         *)
LEMMA InitLinked == Init => Linked
BY DEF Init, Linked, SuccessIsLinked

(* Every step keeps records and links together.                              *)
LEMMA LinkedStep ==
  ASSUME Typed, Linked, [Next]_vars
  PROVE  Linked'
<1> USE DEF disk, hist
<1>1. ASSUME NEW c \in Clients, NEW op \in Ops \cup {"get"}, NEW id \in Ids, Call(c, op, id) PROVE Linked'
  <2> USE <1>1 DEF Call
  <2> QED BY CallsAssumption DEF Typed, TypeOK, Handlers, Asleep, Requests, NoJob, Ops, Linked,
             SuccessIsLinked, Interrupted
<1>2. ASSUME NEW c \in Clients, Connect(c) PROVE Linked'
  <2> USE <1>2 DEF Connect
  <2> QED BY CallsAssumption DEF Typed, TypeOK, Handlers, Asleep, Requests, NoJob, Ops, Linked,
             SuccessIsLinked, Interrupted
<1>3. ASSUME NEW c \in Clients, Disconnect(c) PROVE Linked'
  <2> USE <1>3 DEF Disconnect
  <2> QED BY CallsAssumption DEF Typed, TypeOK, Handlers, Asleep, Requests, NoJob, Ops, Linked,
             SuccessIsLinked, Interrupted
<1>4. ASSUME NEW c \in Clients, Send(c) PROVE Linked'
  <2> USE <1>4 DEF Send
  <2> QED BY CallsAssumption DEF Typed, TypeOK, Handlers, Asleep, Requests, NoJob, Ops, Linked,
             SuccessIsLinked, Interrupted
<1>5. ASSUME NEW c \in Clients, GetConnection(c) PROVE Linked'
  <2> USE <1>5 DEF GetConnection
  <2> QED BY CallsAssumption DEF Typed, TypeOK, Handlers, Asleep, Requests, NoJob, Ops, Linked,
             SuccessIsLinked, Interrupted, ProcessEnds
<1>6. ASSUME ChangePolicy PROVE Linked'
  <2> USE <1>6 DEF ChangePolicy
  <2> QED BY CallsAssumption DEF Typed, TypeOK, Handlers, Asleep, Requests, NoJob, Ops, Linked,
             SuccessIsLinked, Interrupted
<1>7. ASSUME Receive PROVE Linked'
  <2> USE <1>7 DEF Receive
  <2> QED BY CallsAssumption DEF Typed, TypeOK, Handlers, Asleep, Requests, NoJob, Ops, Linked,
             SuccessIsLinked, Interrupted
<1>8. ASSUME Find PROVE Linked'
  <2> USE <1>8 DEF Find, Done
  <2> QED BY CallsAssumption DEF Typed, TypeOK, Handlers, Asleep, Requests, NoJob, Ops, Linked,
             SuccessIsLinked, Interrupted
<1>9. ASSUME Link PROVE Linked'
  <2> USE <1>9 DEF Link
  <2> QED BY CallsAssumption DEF Typed, TypeOK, Handlers, Asleep, Requests, NoJob, Ops, Linked,
             SuccessIsLinked, Interrupted
<1>10. ASSUME Record PROVE Linked'
  <2> USE <1>10 DEF Record, Done
  <2> QED BY CallsAssumption DEF Typed, TypeOK, Handlers, Asleep, Requests, NoJob, Ops, Linked,
             SuccessIsLinked, Interrupted
<1>11. ASSUME FailJob PROVE Linked'
  <2> USE <1>11 DEF FailJob, Done, StillTries, Requeue
  <2> QED BY CallsAssumption DEF Typed, TypeOK, Handlers, Asleep, Requests, NoJob, Ops, Linked,
             SuccessIsLinked, Interrupted
<1>12. ASSUME Crash PROVE Linked'
  <2> USE <1>12 DEF Crash
  <2> QED BY CallsAssumption DEF Typed, TypeOK, Handlers, Asleep, Requests, NoJob, Ops, Linked,
             SuccessIsLinked, Interrupted, ProcessEnds
<1>13. CASE UNCHANGED vars
  BY <1>13 DEF vars, Linked, Linked, SuccessIsLinked, Interrupted
<1> QED BY <1>1, <1>2, <1>3, <1>4, <1>5, <1>6, <1>7, <1>8, <1>9, <1>10, <1>11, <1>12, <1>13 DEF
           Next, Work, Handle

-----------------------------------------------------------------------------
(* Where nothing crossed, what is under way for an id is what was last asked *)
(* for; and it is under way unless the record shows it, or it was dropped.   *)
Agreeing == \A i \in Ids \ crossed, o \in Ops : Outstanding(o, i) => o = last[i]
Pursued ==
  \A i \in Ids \ (crossed \cup dropped) :
    (i \in stored <=> last[i] = "connect") \/ Outstanding(last[i], i)
Settled == Agreeing /\ Pursued

(* Nothing is asked for and nothing recorded at the start.                   *)
LEMMA InitSettled == Init => Settled
BY DEF Init, Settled, Agreeing, Pursued, Outstanding, Queued, Handled, Asleep, NoJob, Ops

(* What Append adds to the channel.                                          *)
LEMMA QueuedAppend ==
  ASSUME Typed, NEW r \in Requests, queue' = Append(queue, r), NEW o, NEW i
  PROVE  Queued(o, i)' <=> Queued(o, i) \/ (r.op = o /\ r.id = i)
<1>1. /\ Append(queue, r) \in Seq(Requests)
      /\ Len(queue) \in Nat
      /\ Len(Append(queue, r)) = Len(queue) + 1
      /\ \A k \in 1..Len(queue) : Append(queue, r)[k] = queue[k]
      /\ Append(queue, r)[Len(queue) + 1] = r
  BY AppendProperties, LenProperties DEF Typed, TypeOK
<1>2. DOMAIN queue = 1..Len(queue) /\ DOMAIN queue' = 1..(Len(queue) + 1)
  BY <1>1, LenProperties DEF Typed, TypeOK
<1>3. Queued(o, i)' => Queued(o, i) \/ (r.op = o /\ r.id = i)
  BY <1>1, <1>2 DEF Queued
<1>4. Queued(o, i) => Queued(o, i)'
  BY <1>1, <1>2 DEF Queued
<1>5. r.op = o /\ r.id = i => Queued(o, i)'
  <2>1. Len(queue) + 1 \in DOMAIN queue' /\ queue'[Len(queue) + 1] = r
    BY <1>1, <1>2
  <2> QED BY <2>1 DEF Queued
<1> QED BY <1>3, <1>4, <1>5

(* What the worker takes out of the channel.                                 *)
LEMMA QueuedTail ==
  ASSUME Typed, queue # <<>>, queue' = Tail(queue), NEW o, NEW i
  PROVE  Queued(o, i) <=> Queued(o, i)' \/ (Head(queue).op = o /\ Head(queue).id = i)
<1>1. /\ Tail(queue) \in Seq(Requests)
      /\ Len(queue) \in Nat \ {0}
      /\ Len(Tail(queue)) = Len(queue) - 1
      /\ \A k \in 1..Len(Tail(queue)) : Tail(queue)[k] = queue[k + 1]
      /\ Head(queue) = queue[1]
  BY HeadTailProperties, LenProperties, EmptySeq DEF Typed, TypeOK
<1>2. DOMAIN queue = 1..Len(queue) /\ DOMAIN queue' = 1..(Len(queue) - 1)
  BY <1>1, LenProperties DEF Typed, TypeOK
<1>3. Queued(o, i)' => Queued(o, i)
  <2> SUFFICES ASSUME NEW k \in DOMAIN queue', queue'[k].op = o, queue'[k].id = i
               PROVE  Queued(o, i)
    BY DEF Queued
  <2>1. k + 1 \in DOMAIN queue /\ queue[k + 1] = queue'[k]
    BY <1>1, <1>2
  <2> QED BY <2>1 DEF Queued
<1>4. Head(queue).op = o /\ Head(queue).id = i => Queued(o, i)
  BY <1>1, <1>2 DEF Queued
<1>5. Queued(o, i) => Queued(o, i)' \/ (Head(queue).op = o /\ Head(queue).id = i)
  <2> SUFFICES ASSUME NEW k \in DOMAIN queue, queue[k].op = o, queue[k].id = i, k # 1
               PROVE  Queued(o, i)'
    BY <1>1 DEF Queued
  <2>1. k - 1 \in DOMAIN queue' /\ queue'[k - 1] = queue[k]
    BY <1>1, <1>2
  <2> QED BY <2>1 DEF Queued
<1> QED BY <1>3, <1>4, <1>5

(* What a handler's change changes of what is under way.                     *)
LEMMA HandledChange ==
  ASSUME Typed, NEW c \in Clients, NEW h, handler' = [handler EXCEPT ![c] = h], NEW o, NEW i
  PROVE  /\ Handled(o, i)' => Handled(o, i) \/ (h.op = o /\ h.id = i)
         /\ h.op = o /\ h.id = i => Handled(o, i)'
         /\ Handled(o, i) => Handled(o, i)' \/ (handler[c].op = o /\ handler[c].id = i)
BY DEF Handled, Typed, TypeOK

-----------------------------------------------------------------------------
(* What is under way and what the abstract register has been asked for.      *)
LEMMA AskedIs ==
  ASSUME NEW o \in Ops, NEW i \in Ids
  PROVE  /\ <<o, i>> \in Asked <=> Outstanding(o, i)
         /\ <<o, i>> \in Asked' <=> Outstanding(o, i)'
BY DEF Asked

(* A step that asks for what it adds to what is under way.                   *)
LEMMA AskedMore ==
  ASSUME NEW p \in Ops, NEW j \in Ids,
         \A o \in Ops, i \in Ids : Outstanding(o, i)' <=> Outstanding(o, i) \/ (p = o /\ j = i)
  PROVE  Asked' = Asked \cup {<<p, j>>}
<1>1. \A r \in Ops \X Ids : r = <<p, j>> <=> (p = r[1] /\ j = r[2])
  OBVIOUS
<1>2. \A r \in Ops \X Ids : r \in Asked' <=> r \in Asked \/ r = <<p, j>>
  BY <1>1 DEF Asked
<1>3. Asked \subseteq Ops \X Ids /\ Asked' \subseteq Ops \X Ids /\ <<p, j>> \in Ops \X Ids
  BY DEF Asked
<1> QED BY <1>2, <1>3

(* A step that leaves what is under way as it is.                            *)
LEMMA AskedSame ==
  ASSUME \A o \in Ops, i \in Ids : Outstanding(o, i)' <=> Outstanding(o, i)
  PROVE  Asked' = Asked
BY DEF Asked

(* A set that has lost at most one element.                                  *)
LEMMA OneLess ==
  ASSUME NEW S, NEW R, NEW t, R \subseteq S, \A r \in S : r \in R \/ r = t
  PROVE  R \in {S, S \ {t}}
<1>1. t \in R => R = S
  OBVIOUS
<1>2. t \notin R => R = S \ {t}
  OBVIOUS
<1> QED BY <1>1, <1>2

(* A step that may end one request, and only that.                           *)
LEMMA AskedLess ==
  ASSUME NEW p \in Ops, NEW j \in Ids,
         \A o \in Ops, i \in Ids : Outstanding(o, i)' => Outstanding(o, i),
         \A o \in Ops, i \in Ids :
           Outstanding(o, i) => Outstanding(o, i)' \/ (p = o /\ j = i)
  PROVE  Service!Leave(p, j)
<1>1. \A r \in Ops \X Ids : r = <<p, j>> <=> (p = r[1] /\ j = r[2])
  OBVIOUS
<1>2. Asked' \subseteq Asked
  BY DEF Asked
<1>3. \A r \in Asked : r \in Asked' \/ r = <<p, j>>
  BY <1>1 DEF Asked
<1> QED BY <1>2, <1>3, OneLess DEF Service!Leave

(* The steps that ask for nothing, as the register sees them.                *)
Served ==
  \/ UNCHANGED <<stored, Asked, dropped>>
  \/ \E o \in Ops, i \in Ids :
        Service!TakeEffect(o, i) \/ Service!Answer(o, i) \/ Service!GiveUp(o, i)
  \/ Service!Forget

(* An answer: nothing changes but that the caller goes.                      *)
LEMMA Answered ==
  ASSUME Typed, NEW c \in Clients, handler[c].op \in Ops, handler[c].id \in Ids,
         handler' = [handler EXCEPT ![c] = Asleep],
         handler[c].id \in stored <=> handler[c].op = "connect",
         UNCHANGED <<stored, dropped, queue, job>>
  PROVE  Service!Answer(handler[c].op, handler[c].id)
<1>1. \A o \in Ops : Asleep.op # o
  BY DEF Asleep, Ops
<1>2. \A o \in Ops, i \in Ids :
        /\ Handled(o, i)' => Handled(o, i)
        /\ Handled(o, i) => Handled(o, i)' \/ (handler[c].op = o /\ handler[c].id = i)
  BY <1>1, HandledChange
<1>3. \A o \in Ops, i \in Ids :
        /\ Outstanding(o, i)' => Outstanding(o, i)
        /\ Outstanding(o, i) => Outstanding(o, i)' \/ (handler[c].op = o /\ handler[c].id = i)
  BY <1>2 DEF Outstanding, Queued
<1>4. Service!Leave(handler[c].op, handler[c].id)
  BY <1>3, AskedLess
<1> QED BY <1>4 DEF Service!Answer, Service!Shown

(* A handler that goes on to send its request still asks for it.             *)
LEMMA SentOn ==
  ASSUME Typed, NEW c \in Clients, handler[c].op \in Ops,
         handler' = [handler EXCEPT ![c].at = "send"],
         UNCHANGED <<stored, dropped, queue, job>>
  PROVE  UNCHANGED <<stored, Asked, dropped>>
<1> DEFINE h == [handler[c] EXCEPT !.at = "send"]
<1>0. h.op = handler[c].op /\ h.id = handler[c].id
  BY Awake DEF Typed, Asleep, Ops
<1>1. handler' = [handler EXCEPT ![c] = h]
  OBVIOUS
<1>2. \A o \in Ops, i \in Ids : Handled(o, i)' <=> Handled(o, i)
  <2> SUFFICES ASSUME NEW o \in Ops, NEW i \in Ids PROVE Handled(o, i)' <=> Handled(o, i)
    OBVIOUS
  <2>1. handler[c].op = o /\ handler[c].id = i => Handled(o, i)
    BY DEF Handled
  <2> HIDE DEF h
  <2>2. /\ Handled(o, i)' => Handled(o, i) \/ (h.op = o /\ h.id = i)
        /\ h.op = o /\ h.id = i => Handled(o, i)'
        /\ Handled(o, i) => Handled(o, i)' \/ (handler[c].op = o /\ handler[c].id = i)
    BY <1>1, HandledChange
  <2> QED BY <1>0, <2>1, <2>2
<1>3. \A o \in Ops, i \in Ids : Outstanding(o, i)' <=> Outstanding(o, i)
  BY <1>2 DEF Outstanding, Queued
<1> QED BY <1>3, AskedSame

(* What the register has been asked for when the process ends is given up.   *)
LEMMA Forgotten ==
  ASSUME Typed, ProcessEnds
  PROVE  Service!Forget
<1>1. \A o \in Ops, i \in Ids : ~ Outstanding(o, i)'
  BY DEF ProcessEnds, Outstanding, Queued, Handled, Asleep, NoJob, Ops
<1>2. Asked' = {}
  BY <1>1 DEF Asked
<1>3. Lost = {request[2] : request \in Asked}
  <2>1. ASSUME NEW i \in Lost PROVE \E request \in Asked : i = request[2]
    <3>1. PICK o \in Ops : i \in Ids /\ Outstanding(o, i)
      BY <2>1 DEF Lost
    <3>2. <<o, i>> \in Asked /\ i = <<o, i>>[2]
      BY <3>1, AskedIs
    <3> QED BY <3>2
  <2>2. ASSUME NEW request \in Asked PROVE request[2] \in Lost
    BY DEF Asked, Lost
  <2> QED BY <2>1, <2>2
<1> QED BY <1>2, <1>3 DEF ProcessEnds, Service!Forget, disk

(* A client's call asks the register, unless it only reads.                  *)
LEMMA CallAsks ==
  ASSUME Typed, NEW c \in Clients, NEW op \in Ops \cup {"get"}, NEW id \in Ids, Call(c, op, id)
  PROVE  IF op = "get" THEN UNCHANGED <<stored, Asked, dropped>> ELSE Service!Ask(op, id)
<1> USE DEF Call, disk
<1> DEFINE h == [op |-> op, id |-> id, at |-> "look"]
<1>1. \A o \in Ops, i \in Ids : Outstanding(o, i)' <=> Outstanding(o, i) \/ (op = o /\ id = i)
  <2> SUFFICES ASSUME NEW o \in Ops, NEW i \in Ids
               PROVE  Outstanding(o, i)' <=> Outstanding(o, i) \/ (op = o /\ id = i)
    OBVIOUS
  <2>1. /\ handler[c].op # o /\ h.op = op /\ h.id = id
        /\ handler' = [handler EXCEPT ![c] = h]
    BY DEF Asleep, Ops
  <2> HIDE DEF h
  <2>2. Handled(o, i)' <=> Handled(o, i) \/ (op = o /\ id = i)
    BY <2>1, HandledChange
  <2> QED BY <2>2 DEF Outstanding, Queued
<1>2. CASE op = "get"
  BY <1>1, <1>2, AskedSame DEF Ops
<1>3. CASE op # "get"
  <2>1. Asked' = Asked \cup {<<op, id>>}
    BY <1>1, <1>3, AskedMore
  <2> QED BY <1>3, <2>1 DEF Service!Ask
<1> QED BY <1>2, <1>3

(* Every other step serves what was asked, or is not seen.                   *)
LEMMA OthersServe ==
  ASSUME Typed, (\E c \in Clients : Handle(c)) \/ ChangePolicy \/ Work \/ Crash
  PROVE  Served /\ UNCHANGED <<last, crossed>>
<1> USE DEF disk, hist
<1>1. ASSUME NEW c \in Clients, Connect(c) PROVE Served /\ UNCHANGED <<last, crossed>>
  <2> USE <1>1 DEF Connect
  <2>1. handler[c].op \in Ops /\ handler[c].id \in Ids
    BY Awake DEF Typed, Asleep, Ops
  <2> QED BY <2>1, SentOn, Answered DEF Served
<1>2. ASSUME NEW c \in Clients, Disconnect(c) PROVE Served /\ UNCHANGED <<last, crossed>>
  <2> USE <1>2 DEF Disconnect
  <2>1. handler[c].op \in Ops /\ handler[c].id \in Ids
    BY Awake DEF Typed, Asleep, Ops
  <2> QED BY <2>1, SentOn, Answered DEF Served
<1>3. ASSUME NEW c \in Clients, Send(c) PROVE Served /\ UNCHANGED <<last, crossed>>
  <2> USE <1>3 DEF Send
  <2> DEFINE r == [op |-> handler[c].op, id |-> handler[c].id, retries |-> 0]
  <2>1. r \in Requests
    BY Awake, CallsAssumption DEF Typed, Sending, Asleep, Requests
  <2>2. \A o \in Ops, i \in Ids : Outstanding(o, i)' <=> Outstanding(o, i)
    <3> SUFFICES ASSUME NEW o \in Ops, NEW i \in Ids
                 PROVE  Outstanding(o, i)' <=> Outstanding(o, i)
      OBVIOUS
    <3>1. Queued(o, i)' <=> Queued(o, i) \/ (handler[c].op = o /\ handler[c].id = i)
      BY <2>1, QueuedAppend
    <3>2. Asleep.op # o
      BY DEF Asleep, Ops
    <3>3. /\ Handled(o, i)' => Handled(o, i)
          /\ Handled(o, i) => Handled(o, i)' \/ (handler[c].op = o /\ handler[c].id = i)
      BY <3>2, HandledChange
    <3>4. handler[c].op = o /\ handler[c].id = i => Handled(o, i)
      BY DEF Handled
    <3> QED BY <3>1, <3>3, <3>4 DEF Outstanding
  <2> QED BY <2>2, AskedSame DEF Served
<1>4. ASSUME NEW c \in Clients, GetConnection(c) PROVE Served /\ UNCHANGED <<last, crossed>>
  <2> USE <1>4 DEF GetConnection
  <2>1. CASE handler[c].id \in stored
    <3>1. \A o \in Ops, i \in Ids : Outstanding(o, i)' <=> Outstanding(o, i)
      <4> SUFFICES ASSUME NEW o \in Ops, NEW i \in Ids
                   PROVE  Outstanding(o, i)' <=> Outstanding(o, i)
        OBVIOUS
      <4>1. Asleep.op # o /\ handler[c].op # o
        BY DEF Asleep, Ops
      <4>2. Handled(o, i)' <=> Handled(o, i)
        BY <2>1, <4>1, HandledChange
      <4> QED BY <2>1, <4>2 DEF Outstanding, Queued
    <3> QED BY <2>1, <3>1, AskedSame DEF Served
  <2>2. CASE handler[c].id \notin stored
    BY <2>2, Forgotten DEF Served, ProcessEnds
  <2> QED BY <2>1, <2>2
<1>5. ASSUME ChangePolicy PROVE Served /\ UNCHANGED <<last, crossed>>
  BY <1>5, AskedSame DEF ChangePolicy, Served, Outstanding, Queued, Handled
<1>6. ASSUME Receive PROVE Served /\ UNCHANGED <<last, crossed>>
  <2> USE <1>6 DEF Receive
  <2>1. \A o \in Ops, i \in Ids : Outstanding(o, i)' <=> Outstanding(o, i)
    <3> SUFFICES ASSUME NEW o \in Ops, NEW i \in Ids
                 PROVE  Outstanding(o, i)' <=> Outstanding(o, i)
      OBVIOUS
    <3>1. Queued(o, i) <=> Queued(o, i)' \/ (Head(queue).op = o /\ Head(queue).id = i)
      BY QueuedTail
    <3>2. job.op # o /\ job' = Head(queue)
      BY DEF NoJob, Ops
    <3> QED BY <3>1, <3>2 DEF Outstanding, Handled
  <2> QED BY <2>1, AskedSame DEF Served
<1>7. ASSUME Find PROVE Served /\ UNCHANGED <<last, crossed>>
  <2> USE <1>7 DEF Find, Done
  <2>1. job.op \in Ops /\ job.id \in Ids
    BY DEF Typed, TypeOK, Requests
  <2>2. CASE (job.op = "connect") = (job.id \in stored)
    <3>1. \A o \in Ops, i \in Ids :
            /\ Outstanding(o, i)' => Outstanding(o, i)
            /\ Outstanding(o, i) => Outstanding(o, i)' \/ (job.op = o /\ job.id = i)
      BY <2>2 DEF Outstanding, Queued, Handled, NoJob, Ops
    <3>2. Service!Leave(job.op, job.id)
      BY <2>1, <3>1, AskedLess
    <3> QED BY <2>1, <2>2, <3>2 DEF Served, Service!Answer, Service!Shown
  <2>3. CASE (job.op = "connect") # (job.id \in stored)
    BY <2>3, AskedSame DEF Served, Outstanding, Queued, Handled
  <2> QED BY <2>2, <2>3
<1>8. ASSUME Link PROVE Served /\ UNCHANGED <<last, crossed>>
  BY <1>8, AskedSame DEF Link, Served, Outstanding, Queued, Handled
<1>9. ASSUME Record PROVE Served /\ UNCHANGED <<last, crossed>>
  <2> USE <1>9 DEF Record, Done
  <2>1. job.op \in Ops /\ job.id \in Ids /\ Outstanding(job.op, job.id)
    BY DEF Typed, TypeOK, Requests, Outstanding
  <2>2. \A o \in Ops, i \in Ids :
          /\ Outstanding(o, i)' => Outstanding(o, i)
          /\ Outstanding(o, i) => Outstanding(o, i)' \/ (job.op = o /\ job.id = i)
    BY DEF Outstanding, Queued, Handled, NoJob, Ops
  <2>3. Service!Leave(job.op, job.id) /\ <<job.op, job.id>> \in Asked
    BY <2>1, <2>2, AskedLess, AskedIs
  <2> QED BY <2>1, <2>3 DEF Served, Service!TakeEffect
<1>10. ASSUME FailJob PROVE Served /\ UNCHANGED <<last, crossed>>
  <2> USE <1>10 DEF FailJob, Done
  <2>1. job \in Requests /\ job.op \in Ops /\ job.id \in Ids /\ Outstanding(job.op, job.id)
    BY DEF Typed, TypeOK, Requests, Outstanding
  <2>2. CASE StillTries(job.retries) /\ queue' = Requeue(job) /\ UNCHANGED dropped
    <3> DEFINE r == [job EXCEPT !.retries = @ + 1]
    <3>1. r \in Requests /\ r.op = job.op /\ r.id = job.id /\ queue' = Append(queue, r)
      BY <2>1, <2>2, CallsAssumption DEF Requests, StillTries, Requeue
    <3>2. \A o \in Ops, i \in Ids : Queued(o, i)' <=> Queued(o, i) \/ (job.op = o /\ job.id = i)
      BY <3>1, QueuedAppend
    <3>3. \A o \in Ops : job'.op # o
      BY DEF NoJob, Ops
    <3>4. \A o \in Ops, i \in Ids : Outstanding(o, i)' <=> Outstanding(o, i)
      BY <3>2, <3>3 DEF Outstanding, Handled
    <3> QED BY <2>2, <3>4, AskedSame DEF Served
  <2>3. CASE UNCHANGED queue /\ dropped' = dropped \cup {job.id}
    <3>1. \A o \in Ops, i \in Ids :
            /\ Outstanding(o, i)' => Outstanding(o, i)
            /\ Outstanding(o, i) => Outstanding(o, i)' \/ (job.op = o /\ job.id = i)
      BY <2>3 DEF Outstanding, Queued, Handled, NoJob, Ops
    <3>2. Service!Leave(job.op, job.id) /\ <<job.op, job.id>> \in Asked
      BY <2>1, <3>1, AskedLess, AskedIs
    <3> QED BY <2>1, <2>3, <3>2 DEF Served, Service!GiveUp
  <2> QED BY <2>2, <2>3
<1>11. ASSUME Crash PROVE Served /\ UNCHANGED <<last, crossed>>
  BY <1>11, Forgotten DEF Crash, ProcessEnds, Served
<1> QED BY <1>1, <1>2, <1>3, <1>4, <1>5, <1>6, <1>7, <1>8, <1>9, <1>10, <1>11 DEF Work, Handle

(* Every step of the program is a step of the register, or is not seen.      *)
LEMMA ServiceStep ==
  ASSUME Typed, [Next]_vars
  PROVE  [Service!Next]_(Service!vars)
<1>1. ASSUME NEW c \in Clients, NEW op \in Ops \cup {"get"}, NEW id \in Ids, Call(c, op, id)
      PROVE  [Service!Next]_(Service!vars)
  <2>1. op # "get" => op \in Service!Ops
    BY DEF Ops, Service!Ops
  <2> QED BY <1>1, <2>1, CallAsks DEF Service!Next, Service!vars
<1>2. ASSUME (\E c \in Clients : Handle(c)) \/ ChangePolicy \/ Work \/ Crash
      PROVE  [Service!Next]_(Service!vars)
  <2>1. Served /\ Ops = Service!Ops
    BY <1>2, OthersServe DEF Ops, Service!Ops
  <2> QED BY <2>1 DEF Served, Service!Next, Service!vars
<1>3. CASE UNCHANGED vars
  BY <1>3, AskedSame DEF vars, Service!vars, Outstanding, Queued, Handled
<1> QED BY <1>1, <1>2, <1>3 DEF Next

(* What serves a request keeps what is under way and the record in agreement. *)
LEMMA ServedSettles ==
  ASSUME Typed, Settled, Served, UNCHANGED <<last, crossed>>
  PROVE  Settled'
<1>1. last \in [Ids -> Ops]
  BY DEF Typed, TypeOK
<1>2. Asked' \subseteq Asked
  BY DEF Served, Service!TakeEffect, Service!Answer, Service!GiveUp, Service!Forget, Service!Leave
<1>3. Agreeing'
  BY <1>2, AskedIs DEF Agreeing, Settled
<1>4. ASSUME NEW i \in Ids \ (crossed \cup dropped')
      PROVE  (i \in stored' <=> last[i] = "connect") \/ <<last[i], i>> \in Asked'
  <2>1. i \notin dropped /\ last[i] \in Ops
    BY <1>1 DEF Served, Service!TakeEffect, Service!Answer, Service!GiveUp, Service!Forget
  <2>2. \A o \in Ops : <<o, i>> \in Asked => o = last[i]
    BY AskedIs DEF Agreeing, Settled
  <2>3. (i \in stored <=> last[i] = "connect") \/ <<last[i], i>> \in Asked
    BY <2>1, AskedIs DEF Settled, Pursued
  <2>4. CASE UNCHANGED <<stored, Asked, dropped>>
    BY <2>3, <2>4
  <2>5. ASSUME NEW o \in Ops, NEW j \in Ids, Service!TakeEffect(o, j)
        PROVE  (i \in stored' <=> last[i] = "connect") \/ <<last[i], i>> \in Asked'
    BY <2>1, <2>2, <2>3, <2>5 DEF Service!TakeEffect, Service!Leave, Ops
  <2>6. ASSUME NEW o \in Ops, NEW j \in Ids, Service!Answer(o, j)
        PROVE  (i \in stored' <=> last[i] = "connect") \/ <<last[i], i>> \in Asked'
    BY <2>1, <2>2, <2>3, <2>6 DEF Service!Answer, Service!Shown, Service!Leave, Ops
  <2>7. ASSUME NEW o \in Ops, NEW j \in Ids, Service!GiveUp(o, j)
        PROVE  (i \in stored' <=> last[i] = "connect") \/ <<last[i], i>> \in Asked'
    BY <2>1, <2>2, <2>3, <2>7, <1>4 DEF Service!GiveUp, Service!Leave
  <2>8. CASE Service!Forget
    <3>1. <<last[i], i>> \in Asked => i \in {request[2] : request \in Asked}
      OBVIOUS
    <3> QED BY <2>3, <2>8, <1>4, <3>1 DEF Service!Forget
  <2> QED BY <2>4, <2>5, <2>6, <2>7, <2>8 DEF Served
<1>5. Pursued'
  <2>1. \A i \in Ids : last[i] \in Ops
    BY <1>1
  <2> QED BY <1>4, <2>1, AskedIs DEF Pursued
<1> QED BY <1>3, <1>5 DEF Settled

(* A call settles what it asks for: it was the last to ask.                  *)
LEMMA CallSettles ==
  ASSUME Typed, Settled, NEW c \in Clients, NEW op \in Ops, NEW id \in Ids, Call(c, op, id)
  PROVE  Settled'
<1>1. Service!Ask(op, id)
  BY CallAsks DEF Ops
<1>2. /\ last \in [Ids -> Ops] /\ last' = [last EXCEPT ![id] = op]
      /\ crossed \subseteq crossed' /\ (id \notin crossed' => ~ Outstanding(Opposite(op), id))
      /\ UNCHANGED dropped
  BY DEF Call, Typed, TypeOK, Ops, hist
<1>3. \A o \in Ops : o # op => o = Opposite(op)
  BY DEF Ops, Opposite
<1>4. \A o \in Ops, i \in Ids : Outstanding(o, i)' <=> Outstanding(o, i) \/ (op = o /\ id = i)
  BY <1>1, AskedIs DEF Service!Ask
<1>5. Agreeing'
  <2> SUFFICES ASSUME NEW i \in Ids \ crossed', NEW o \in Ops, Outstanding(o, i)'
               PROVE  o = last'[i]
    BY DEF Agreeing
  <2>1. CASE i = id
    BY <2>1, <1>2, <1>3, <1>4
  <2>2. CASE i # id
    BY <2>2, <1>2, <1>4 DEF Settled, Agreeing
  <2> QED BY <2>1, <2>2
<1>6. Pursued'
  <2> SUFFICES ASSUME NEW i \in Ids \ (crossed' \cup dropped')
               PROVE  (i \in stored' <=> last'[i] = "connect") \/ <<last'[i], i>> \in Asked'
    BY <1>2, AskedIs DEF Pursued
  <2>1. CASE i = id
    BY <2>1, <1>1, <1>2 DEF Service!Ask
  <2>2. CASE i # id
    <3>1. last'[i] = last[i] /\ stored' = stored /\ i \notin crossed \cup dropped
      BY <2>2, <1>1, <1>2 DEF Service!Ask
    <3>2. (i \in stored <=> last[i] = "connect") \/ <<last[i], i>> \in Asked
      BY <3>1, <1>2, AskedIs DEF Settled, Pursued
    <3> QED BY <3>1, <3>2, <1>1 DEF Service!Ask
  <2> QED BY <2>1, <2>2
<1> QED BY <1>5, <1>6 DEF Settled

(* Every step keeps what is under way and the records in agreement.          *)
LEMMA SettledStep ==
  ASSUME Typed, Settled, [Next]_vars
  PROVE  Settled'
<1>1. ASSUME NEW c \in Clients, NEW op \in Ops \cup {"get"}, NEW id \in Ids, Call(c, op, id)
      PROVE  Settled'
  <2>1. CASE op = "get"
    <3>1. Served /\ UNCHANGED <<last, crossed>>
      BY <1>1, <2>1, CallAsks DEF Served, Call
    <3> QED BY <3>1, ServedSettles
  <2>2. CASE op # "get"
    BY <1>1, <2>2, CallSettles
  <2> QED BY <2>1, <2>2
<1>2. ASSUME (\E c \in Clients : Handle(c)) \/ ChangePolicy \/ Work \/ Crash PROVE Settled'
  BY <1>2, OthersServe, ServedSettles
<1>3. CASE UNCHANGED vars
  BY <1>3 DEF vars, Settled, Agreeing, Pursued, Outstanding, Queued, Handled
<1> QED BY <1>1, <1>2, <1>3 DEF Next

-----------------------------------------------------------------------------
(* The types and the order of a handler's steps always hold.                 *)
LEMMA TypedAlways == Spec => []Typed
BY InitTyped, TypedStep, PTL DEF Spec

(* Types: every request carries an id and an operation the worker knows, and *)
(* the worker has one exactly when it is at a step of one.                   *)
THEOREM TypeCorrect == Spec => []TypeOK
<1>1. Typed => TypeOK
  BY DEF Typed
<1> QED BY <1>1, TypedAlways, PTL

(* What Connect and GetConnection answer SUCCESS for is linked at the        *)
(* provider, except where a disconnect stands or stopped between the two.    *)
THEOREM AnsweredIsLinked == Spec => []SuccessIsLinked
<1>1. Linked => SuccessIsLinked
  BY DEF Linked
<1>2. Typed /\ Linked /\ [Next]_vars => Linked'
  BY LinkedStep
<1> QED BY <1>1, <1>2, InitLinked, TypedAlways, PTL DEF Spec

(* However many clients ask, the record ends up as the last call of an id    *)
(* wanted it, unless opposite requests overlapped or one was dropped.        *)
THEOREM LastWordHolds == Spec => []LastWordWins
<1>1. Typed /\ Settled => LastWordWins
  <2>1. Typed => \A i \in Ids : last[i] \in Ops
    BY DEF Typed, TypeOK
  <2> QED BY <2>1 DEF Settled, Pursued, LastWordWins
<1>2. Typed /\ Settled /\ [Next]_vars => Settled'
  BY SettledStep
<1> QED BY <1>1, <1>2, InitSettled, TypedAlways, PTL DEF Spec

(* The program implements the abstract register: a record comes or goes only *)
(* while somebody asks for it, and a request leaves the handlers, the channel *)
(* and the worker only when the record shows it, or as one given up.         *)
THEOREM ImplementsClientService == Spec => ServiceSpec
<1>1. Init => Service!Init
  <2>1. ASSUME Init PROVE \A o \in Ops, i \in Ids : ~ Outstanding(o, i)
    BY <2>1 DEF Init, Outstanding, Queued, Handled, Asleep, NoJob, Ops
  <2> QED BY <2>1 DEF Init, Service!Init, Asked
<1>2. Typed /\ [Next]_vars => [Service!Next]_(Service!vars)
  BY ServiceStep
<1> QED BY <1>1, <1>2, TypedAlways, PTL DEF Spec, ServiceSpec, Service!Spec
=============================================================================
