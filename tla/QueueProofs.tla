----------------------------- MODULE QueueProofs -----------------------------
(***************************************************************************)
(* Theorems about Queue, for any set of messages, retry limit, batch size, *)
(* start outcomes, broker faults and number of restarts.                   *)
(***************************************************************************)
EXTENDS Queue, TLAPS

(* The head of a batch is a copy, and what is left of it a batch.          *)
LEMMA Batches ==
  ASSUME NEW s \in Seq(Copy), s # <<>>
  PROVE  /\ Head(s) \in Copy
         /\ Tail(s) \in Seq(Copy)
  BY SMT

(* A delivered copy is of one of the messages and carries a delivery number*)
(* the server may give.                                                    *)
LEMMA Copies ==
  ASSUME NEW c \in Copy
  PROVE  /\ c.msg \in Msgs
         /\ c.n \in 1 .. MaxRetries
  BY DEF Copy

(* Two copies of the same delivery of the same message are equal:          *)
(* NumDelivered tells the deliveries of a message apart.                   *)
LEMMA SameCopy ==
  ASSUME NEW c \in Copy, NEW d \in Copy, c.msg = d.msg, c.n = d.n
  PROVE  c = d
  BY DEF Copy

(* Every action of Queue leaves the state well typed.                      *)
LEMMA TypeStep == TypeOK /\ [Next]_vars => TypeOK'
<1> SUFFICES ASSUME TypeOK, [Next]_vars PROVE TypeOK'
  OBVIOUS
<1> USE QueueAssumption DEF TypeOK, server, consumer, history
<1>1. CASE Lifecycle
  <2>1. CASE Start
    BY <2>1 DEF Start
  <2>2. CASE Shutdown
    BY <2>2 DEF Shutdown
  <2>3. CASE LoopReturns
    BY <2>3 DEF LoopReturns
  <2>4. CASE Exit
    BY <2>4 DEF Exit
  <2>5. CASE Crash
    BY <2>5 DEF Crash
  <2> QED BY <1>1, <2>1, <2>2, <2>3, <2>4, <2>5 DEF Lifecycle
<1>2. ASSUME NEW m \in Msgs, Publish(m) PROVE TypeOK'
  BY <1>2 DEF Publish, PublishOk, PublishError
<1>3. ASSUME NEW m \in Msgs, Server(m) PROVE TypeOK'
  <2>1. CASE Deliver(m)
    <3>1. dc[m] + 1 \in 1 .. MaxRetries
      BY <2>1 DEF Deliver, MaxDeliver
    <3>2. [msg |-> m, n |-> dc[m] + 1] \in Copy
      BY <3>1 DEF Copy
    <3>3. buf' \in Seq(Copy)
      BY <2>1, <3>2 DEF Deliver
    <3>4. dc' \in [Msgs -> 0 .. MaxRetries]
      BY <2>1, <3>1 DEF Deliver
    <3>5. stored' \in [Msgs -> {"none", "ready", "inflight", "removed", "aged"}]
      BY <2>1 DEF Deliver
    <3>6. pull' \in 0 .. Batch
      BY <2>1 DEF Deliver
    <3> QED BY <2>1, <3>3, <3>4, <3>5, <3>6 DEF Deliver
  <2>2. CASE AckExpires(m) \/ AgeOut(m)
    BY <2>2 DEF AckExpires, AgeOut
  <2> QED BY <1>3, <2>1, <2>2 DEF Server
<1>4. CASE Consume
  <2>1. CASE Fetch \/ FetchExpires
    BY <2>1 DEF Fetch, FetchExpires
  <2>2. CASE Take
    <3>1. Head(buf) \in Copy /\ Tail(buf) \in Seq(Copy)
      BY <2>2, Batches DEF Take
    <3>2. Head(buf).msg \in Msgs /\ Head(buf).n \in 1 .. MaxRetries
      BY <3>1, Copies
    <3>3. attempts' \in [Msgs -> SUBSET (1 .. MaxRetries)]
      BY <2>2, <3>2 DEF Take
    <3> QED BY <2>2, <3>1, <3>3 DEF Take
  <2> QED BY <1>4, <2>1, <2>2 DEF Consume
<1>5. CASE Handle
  <2>1. hand \in Copy /\ hand.msg \in Msgs
    BY <1>5, Copies DEF Handle, HandlerSucceeds, HandlerFails, HandlerGivesUp
  <2>2. CASE HandlerSucceeds
    BY <2>1, <2>2 DEF HandlerSucceeds, Ack
  <2>3. CASE HandlerFails
    BY <2>1, <2>3 DEF HandlerFails, Nak
  <2>4. CASE HandlerGivesUp
    BY <2>1, <2>4 DEF HandlerGivesUp, Ack, PublishToDLQ
  <2> QED BY <1>5, <2>2, <2>3, <2>4 DEF Handle
<1>6. CASE UNCHANGED vars
  BY <1>6 DEF vars
<1> QED BY <1>1, <1>2, <1>3, <1>4, <1>5, <1>6 DEF Next

(* The state of the queue is well typed. In particular the server, which   *)
(* startConsumer configures with MaxDeliver, never counts more than        *)
(* MaxRetries deliveries of a message, through any crash or restart.       *)
THEOREM TypeCorrect == Spec => []TypeOK
<1>1. Init => TypeOK
  BY QueueAssumption, SMT DEF Init, TypeOK
<1> QED BY <1>1, TypeStep, PTL DEF Spec

------------------------------------------------------------------------------
(* CopiesAccounted is inductive relative to TypeOK: the server numbers its *)
(* deliveries, so the copy it appends is new to the batch and to attempts. *)
LEMMA AccountedStep ==
  TypeOK /\ CopiesAccounted /\ [Next]_vars => CopiesAccounted'
<1> SUFFICES ASSUME TypeOK, CopiesAccounted, [Next]_vars PROVE CopiesAccounted'
  OBVIOUS
<1> USE QueueAssumption DEF TypeOK, CopiesAccounted, server, consumer, history
<1>b. \A i \in DOMAIN buf : buf[i].msg \in Msgs /\ buf[i].n \in 1 .. MaxRetries
  BY Copies
<1>1. CASE Lifecycle
  BY <1>1 DEF Lifecycle, Start, Shutdown, LoopReturns, Exit, Crash
<1>2. ASSUME NEW m \in Msgs, Publish(m) PROVE CopiesAccounted'
  BY <1>2, <1>b DEF Publish, PublishOk, PublishError
<1>3. ASSUME NEW m \in Msgs, Server(m) PROVE CopiesAccounted'
  <2>1. CASE Deliver(m)
    <3> DEFINE c == [msg |-> m, n |-> dc[m] + 1]
    <3>1. /\ buf' = Append(buf, c) /\ dc' = [dc EXCEPT ![m] = @ + 1]
          /\ stored' = [stored EXCEPT ![m] = "inflight"]
          /\ attempts' = attempts /\ hand' = hand /\ stored[m] = "ready"
      BY <2>1 DEF Deliver
    <3>2. c \notin {buf[i] : i \in DOMAIN buf}
      BY <1>b
    <3>3. /\ DOMAIN buf' = 1 .. Len(buf) + 1
          /\ \A i \in 1 .. Len(buf) : buf'[i] = buf[i]
          /\ buf'[Len(buf) + 1] = c
      BY <3>1
    <3>4. \A k \in Msgs : stored'[k] = "none" => dc'[k] = 0
      BY <3>1
    <3>5. \A k \in Msgs : \A n \in attempts'[k] : n <= dc'[k]
      BY <3>1
    <3>6. \A i \in DOMAIN buf' :
            /\ stored'[buf'[i].msg] # "none"
            /\ buf'[i].n <= dc'[buf'[i].msg]
            /\ buf'[i].n \notin attempts'[buf'[i].msg]
      <4> SUFFICES ASSUME NEW i \in DOMAIN buf'
                   PROVE  /\ stored'[buf'[i].msg] # "none"
                          /\ buf'[i].n <= dc'[buf'[i].msg]
                          /\ buf'[i].n \notin attempts'[buf'[i].msg]
        OBVIOUS
      <4>1. CASE i \in 1 .. Len(buf)
        BY <4>1, <3>1, <3>3, <1>b
      <4>2. CASE i = Len(buf) + 1
        BY <4>2, <3>1, <3>3
      <4> QED BY <4>1, <4>2, <3>3
    <3>7. \A i, j \in DOMAIN buf' : buf'[i] = buf'[j] => i = j
      BY SMTT(60), <3>2, <3>3
    <3> QED BY <3>1, <3>4, <3>5, <3>6, <3>7
  <2>2. CASE AckExpires(m) \/ AgeOut(m)
    BY <2>2, <1>b DEF AckExpires, AgeOut, Waiting
  <2> QED BY <1>3, <2>1, <2>2 DEF Server
<1>4. CASE Consume
  <2>1. CASE Fetch \/ FetchExpires
    BY <2>1 DEF Fetch, FetchExpires
  <2>2. CASE Take
    <3> DEFINE h == Head(buf)
    <3>1. /\ hand' = h /\ buf' = Tail(buf) /\ buf # <<>>
          /\ attempts' = [attempts EXCEPT ![h.msg] = @ \cup {h.n}]
          /\ stored' = stored /\ dc' = dc
      BY <2>2 DEF Take
    <3>2. h = buf[1] /\ 1 \in DOMAIN buf /\ h \in Copy
      BY <3>1
    <3>3. h.msg \in Msgs /\ h.n <= dc[h.msg] /\ h.n \in 1 .. MaxRetries
      BY <3>2, <1>b
    <3>4. \A i \in DOMAIN buf' :
            i \in Nat \ {0} /\ i + 1 \in DOMAIN buf /\ buf'[i] = buf[i + 1]
      BY <3>1
    <3>5. \A k \in Msgs : \A n \in attempts'[k] : n <= dc'[k]
      BY <3>1, <3>3
    <3>6. \A i \in DOMAIN buf' :
            /\ stored'[buf'[i].msg] # "none"
            /\ buf'[i].n <= dc'[buf'[i].msg]
            /\ buf'[i].n \notin attempts'[buf'[i].msg]
      <4> SUFFICES ASSUME NEW i \in DOMAIN buf'
                   PROVE  /\ stored'[buf'[i].msg] # "none"
                          /\ buf'[i].n <= dc'[buf'[i].msg]
                          /\ buf'[i].n \notin attempts'[buf'[i].msg]
        OBVIOUS
      <4>1. i \in Nat \ {0} /\ i + 1 \in DOMAIN buf /\ buf'[i] = buf[i + 1]
        BY <3>1, <3>4
      <4>2. buf[i + 1] # h /\ buf[i + 1] \in Copy
        BY <4>1, <3>2
      <4>3. buf[i + 1].msg # h.msg \/ buf[i + 1].n # h.n
        BY <4>2, <3>2, SameCopy
      <4>4. /\ buf[i + 1].msg \in Msgs
            /\ buf[i + 1].n <= dc[buf[i + 1].msg]
            /\ buf[i + 1].n \notin attempts[buf[i + 1].msg]
            /\ stored[buf[i + 1].msg] # "none"
        BY <4>1, <1>b
      <4>5. attempts \in [Msgs -> SUBSET (1 .. MaxRetries)]
        OBVIOUS
      <4> HIDE DEF h, TypeOK, CopiesAccounted
      <4>6. buf[i + 1].n \notin attempts'[buf[i + 1].msg]
        BY <4>3, <4>4, <4>5, <3>1, <3>3
      <4>7. stored' = stored /\ dc' = dc /\ buf'[i] = buf[i + 1]
        BY <4>1, <3>1
      <4>8. stored'[buf'[i].msg] # "none" /\ buf'[i].n <= dc'[buf'[i].msg]
        BY <4>4, <4>7
      <4>9. buf'[i].n \notin attempts'[buf'[i].msg]
        BY <4>6, <4>7
      <4> QED BY <4>8, <4>9
    <3>7. \A i, j \in DOMAIN buf' : buf'[i] = buf'[j] => i = j
      BY <3>4
    <3>8. hand'.n \in attempts'[hand'.msg]
      BY <3>1, <3>3
    <3> QED BY <3>1, <3>5, <3>6, <3>7, <3>8
  <2> QED BY <1>4, <2>1, <2>2 DEF Consume
<1>5. CASE Handle
  <2>1. /\ hand' = NoCopy
        /\ UNCHANGED <<dc, buf, attempts>>
        /\ \A m \in Msgs : stored'[m] = "none" <=> stored[m] = "none"
    BY <1>5, Copies DEF Handle, HandlerSucceeds, HandlerFails, HandlerGivesUp,
       Ack, Nak, Waiting
  <2> QED BY <2>1, <1>b
<1>6. CASE UNCHANGED vars
  BY <1>6 DEF vars
<1> QED BY <1>1, <1>2, <1>3, <1>4, <1>5, <1>6 DEF Next

(* No copy the loop has yet to look at was ever processed before, and no   *)
(* handler runs for a delivery the server did not count.                   *)
THEOREM Accounted == Spec => []CopiesAccounted
<1>1. Init => CopiesAccounted
  BY SMT DEF Init, CopiesAccounted
<1> QED BY <1>1, AccountedStep, TypeCorrect, PTL DEF Spec

(* Both together, the inductive invariant the other theorems start from.   *)
THEOREM BookkeepingHolds == Spec => []Bookkeeping
<1>1. TypeOK /\ CopiesAccounted => Bookkeeping
  BY DEF Bookkeeping
<1> QED BY <1>1, TypeCorrect, Accounted, PTL

(* consumeLoop calls processMessage at most once for one delivery of a     *)
(* message, hence at most MaxRetries times for the message, across batches,*)
(* expired ack waits, crashes and restarts.                                *)
THEOREM OneCall == Spec => OneCallPerDelivery
<1>1. /\ TypeOK /\ CopiesAccounted /\ [Next]_vars
      => [hand' # hand /\ hand' # NoCopy
            => hand'.n \notin attempts[hand'.msg]]_vars
  <2> SUFFICES ASSUME TypeOK, CopiesAccounted, Next,
                      hand' # hand, hand' # NoCopy
               PROVE  hand'.n \notin attempts[hand'.msg]
    BY DEF vars
  <2>1. Take
    BY DEF Next, Lifecycle, Start, Shutdown, LoopReturns, Exit, Crash, Publish,
       PublishOk, PublishError, Server, Deliver, AckExpires, AgeOut, Consume,
       Fetch, FetchExpires, Handle, HandlerSucceeds, HandlerFails,
       HandlerGivesUp, consumer
  <2>2. hand' = buf[1] /\ 1 \in DOMAIN buf
    BY <2>1 DEF Take, TypeOK
  <2> QED BY <2>2 DEF CopiesAccounted
<1> QED BY <1>1, TypeCorrect, Accounted, PTL DEF Spec, OneCallPerDelivery

------------------------------------------------------------------------------
(* What leaves the stream was processed, or tried for the last time: the   *)
(* copy in hand when a call gives up is the one numbered MaxRetries, and   *)
(* CopiesAccounted knows that a handler was called for it.                 *)
LEMMA SettledStep ==
  TypeOK /\ CopiesAccounted /\ RemovedOnlyWhenSettled /\ [Next]_vars
    => RemovedOnlyWhenSettled'
<1> SUFFICES ASSUME TypeOK, CopiesAccounted, RemovedOnlyWhenSettled, [Next]_vars
             PROVE  RemovedOnlyWhenSettled'
  OBVIOUS
<1> USE QueueAssumption DEF RemovedOnlyWhenSettled, server, consumer, history
<1>1. CASE Lifecycle
  BY <1>1 DEF Lifecycle, Start, Shutdown, LoopReturns, Exit, Crash
<1>2. ASSUME NEW m \in Msgs, Publish(m) PROVE RemovedOnlyWhenSettled'
  BY <1>2 DEF Publish, PublishOk, PublishError, TypeOK
<1>3. ASSUME NEW m \in Msgs, Server(m) PROVE RemovedOnlyWhenSettled'
  BY <1>3 DEF Server, Deliver, AckExpires, AgeOut, TypeOK
<1>4. CASE Consume
  <2>1. CASE Fetch \/ FetchExpires
    BY <2>1 DEF Fetch, FetchExpires
  <2>2. CASE Take
    <3>1. Head(buf).msg \in Msgs
      BY <2>2, Batches, Copies DEF Take, TypeOK
    <3>2. \A m \in Msgs : attempts[m] \subseteq attempts'[m]
      BY <2>2, <3>1 DEF Take, TypeOK
    <3> QED BY <2>2, <3>2 DEF Take
  <2> QED BY <1>4, <2>1, <2>2 DEF Consume
<1>5. CASE Handle
  <2>1. hand \in Copy /\ hand.msg \in Msgs /\ hand.n \in attempts[hand.msg]
    BY <1>5, Copies DEF Handle, HandlerSucceeds, HandlerFails, HandlerGivesUp,
       TypeOK, CopiesAccounted
  <2>2. CASE HandlerSucceeds
    BY <2>1, <2>2 DEF HandlerSucceeds, Ack, TypeOK
  <2>3. CASE HandlerFails
    BY <2>1, <2>3 DEF HandlerFails, Nak, TypeOK
  <2>4. CASE HandlerGivesUp
    <3>1. hand.n = MaxRetries
      BY <2>1, <2>4, Copies DEF HandlerGivesUp, LastDelivery
    <3> QED BY <2>1, <2>4, <3>1 DEF HandlerGivesUp, Ack, TypeOK
  <2> QED BY <1>5, <2>2, <2>3, <2>4 DEF Handle
<1>6. CASE UNCHANGED vars
  BY <1>6 DEF vars
<1> QED BY <1>1, <1>2, <1>3, <1>4, <1>5, <1>6 DEF Next

(* The stream never drops a message that still has a delivery to come and  *)
(* was not processed, whatever crashes, expiries and lost acks do.         *)
THEOREM RemovedIsSettled == Spec => []RemovedOnlyWhenSettled
<1>1. Init => RemovedOnlyWhenSettled
  BY DEF Init, RemovedOnlyWhenSettled
<1> QED BY <1>1, SettledStep, TypeCorrect, Accounted, PTL DEF Spec

------------------------------------------------------------------------------
(* Without a restart the last copy of a waiting message is with the loop.  *)
LEMMA StrandedStep ==
  TypeOK /\ CopiesAccounted /\ NoMessageStranded /\ [Next]_vars
    => NoMessageStranded'
<1> SUFFICES ASSUME TypeOK, CopiesAccounted, NoMessageStranded, [Next]_vars,
                    ~BrokerFaults, restarts' = 0, NEW k \in Msgs,
                    Waiting(k)', dc'[k] = MaxRetries
             PROVE  InPlay(k, MaxRetries)'
  BY DEF NoMessageStranded
<1> DEFINE last == [msg |-> k, n |-> MaxRetries]
<1>a. ASSUME restarts = 0, Waiting(k), dc[k] = MaxRetries
      PROVE  hand = last \/ \E i \in DOMAIN buf : buf[i] = last
  BY <1>a DEF NoMessageStranded, InPlay
<1>b. ASSUME hand' = last \/ \E i \in DOMAIN buf' : buf'[i] = last
      PROVE  InPlay(k, MaxRetries)'
  <2>1. last \in Copy /\ last # NoCopy
    BY QueueAssumption DEF Copy
  <2> QED BY <1>b, <2>1 DEF InPlay
<1> USE QueueAssumption DEF server, consumer, history
<1>1. CASE Lifecycle
  <2>1. restarts = 0 /\ UNCHANGED <<stored, dc, buf, hand>>
    BY <1>1 DEF Lifecycle, Start, Shutdown, LoopReturns, Exit, Crash, TypeOK
  <2> QED BY <2>1, <1>a, <1>b DEF Waiting
<1>2. ASSUME NEW m \in Msgs, Publish(m) PROVE InPlay(k, MaxRetries)'
  <2>1. /\ restarts = 0 /\ UNCHANGED <<dc, buf, hand>>
        /\ stored[m] = "none" /\ stored' = [stored EXCEPT ![m] = "ready"]
    BY <1>2 DEF Publish, PublishOk, PublishError
  <2>2. k # m
    BY <2>1 DEF CopiesAccounted
  <2> QED BY <2>1, <2>2, <1>a, <1>b DEF Waiting, TypeOK
<1>3. ASSUME NEW m \in Msgs, Server(m) PROVE InPlay(k, MaxRetries)'
  <2>1. CASE Deliver(m)
    <3>1. /\ restarts = 0 /\ hand' = hand
          /\ buf' = Append(buf, [msg |-> m, n |-> dc[m] + 1])
          /\ dc' = [dc EXCEPT ![m] = @ + 1]
          /\ stored' = [stored EXCEPT ![m] = "inflight"]
          /\ stored[m] = "ready"
      BY <2>1 DEF Deliver
    <3>2. /\ DOMAIN buf' = 1 .. Len(buf) + 1
          /\ \A i \in DOMAIN buf : i \in DOMAIN buf' /\ buf'[i] = buf[i]
          /\ buf'[Len(buf) + 1] = [msg |-> m, n |-> dc[m] + 1]
      BY <3>1 DEF TypeOK
    <3>3. CASE k = m
      <4>1. buf'[Len(buf) + 1] = last /\ Len(buf) + 1 \in DOMAIN buf'
        BY <3>1, <3>2, <3>3 DEF TypeOK
      <4> QED BY <4>1, <1>b
    <3>4. CASE k # m
      <4>1. Waiting(k) /\ dc[k] = MaxRetries
        BY <3>1, <3>4 DEF Waiting, TypeOK
      <4> QED BY <4>1, <3>1, <3>2, <1>a, <1>b
    <3> QED BY <3>3, <3>4
  <2>2. CASE AckExpires(m) \/ AgeOut(m)
    <3>1. restarts = 0 /\ UNCHANGED <<dc, buf, hand>> /\ Waiting(k)
      BY <2>2 DEF AckExpires, AgeOut, Waiting, TypeOK
    <3> QED BY <3>1, <1>a, <1>b
  <2> QED BY <1>3, <2>1, <2>2 DEF Server
<1>4. CASE Consume
  <2>1. CASE Fetch \/ FetchExpires
    <3>1. restarts = 0 /\ UNCHANGED <<stored, dc, buf, hand>>
      BY <2>1 DEF Fetch, FetchExpires
    <3> QED BY <3>1, <1>a, <1>b DEF Waiting
  <2>2. CASE Take
    <3>1. /\ restarts = 0 /\ UNCHANGED <<stored, dc>>
          /\ hand = NoCopy /\ buf # <<>>
          /\ hand' = Head(buf) /\ buf' = Tail(buf)
      BY <2>2 DEF Take
    <3>2. last # NoCopy
      BY DEF Copy
    <3>3. PICK i \in DOMAIN buf : buf[i] = last
      BY <3>1, <3>2, <1>a DEF Waiting
    <3>4. CASE i = 1
      BY <3>1, <3>3, <3>4, <1>b DEF TypeOK
    <3>5. CASE i # 1
      <4>1. i - 1 \in DOMAIN buf' /\ buf'[i - 1] = buf[i]
        BY <3>1, <3>5 DEF TypeOK
      <4> QED BY <4>1, <3>3, <1>b
    <3> QED BY <3>4, <3>5
  <2> QED BY <1>4, <2>1, <2>2 DEF Consume
<1>5. CASE Handle
  <2>1. hand \in Copy /\ hand.msg \in Msgs /\ hand.n \in 1 .. MaxRetries
    BY <1>5, Copies DEF Handle, HandlerSucceeds, HandlerFails, HandlerGivesUp,
       TypeOK
  <2>2. restarts = 0 /\ UNCHANGED <<dc, buf>> /\ Waiting(k)
    BY <1>5, <2>1 DEF Handle, HandlerSucceeds, HandlerFails, HandlerGivesUp,
       Ack, Nak, Waiting, TypeOK
  <2>3. CASE HandlerSucceeds \/ HandlerGivesUp
    <3>1. hand.msg # k
      BY <2>1, <2>3 DEF HandlerSucceeds, HandlerGivesUp, Ack, Waiting, TypeOK
    <3>2. hand # last
      BY <3>1
    <3> QED BY <2>2, <3>2, <1>a, <1>b
  <2>4. CASE HandlerFails
    <3>1. hand.n # MaxRetries
      BY <2>1, <2>4 DEF HandlerFails, LastDelivery
    <3>2. hand # last
      BY <3>1
    <3> QED BY <2>2, <3>2, <1>a, <1>b
  <2> QED BY <1>5, <2>3, <2>4 DEF Handle
<1>6. CASE UNCHANGED vars
  BY <1>6, <1>a, <1>b DEF vars, Waiting
<1> QED BY <1>1, <1>2, <1>3, <1>4, <1>5, <1>6 DEF Next

(* Without a restart or a broker fault no message runs out of deliveries   *)
(* while none of its copies is left with the loop: every path of           *)
(* processMessage settles the last delivery, so nothing is left to the age *)
(* limit of the stream.                                                    *)
THEOREM NothingStranded == Spec => []NoMessageStranded
<1>1. Init => NoMessageStranded
  BY QueueAssumption DEF Init, NoMessageStranded, Waiting
<1> QED BY <1>1, StrandedStep, TypeCorrect, Accounted, PTL DEF Spec

(* Until the process is told to stop, copies are only with a loop that is  *)
(* on, so that a dead letter is published under a context that lives.      *)
OnlyRunningLoops ==
  ~BrokerFaults /\ restarts = 0 =>
    /\ proc # "stopping"
    /\ proc = "down" => loop = "off"
    /\ loop # "on" => pull = 0 /\ buf = <<>> /\ hand = NoCopy
RunningInv == OnlyRunningLoops /\ RunningLosesNothing

LEMMA RunningStep == TypeOK /\ RunningInv /\ [Next]_vars => RunningInv'
<1> USE DEF RunningInv, OnlyRunningLoops, RunningLosesNothing, FailedMessagesReachDLQ
<1> SUFFICES ASSUME TypeOK, RunningInv, [Next]_vars, ~BrokerFaults, restarts' = 0
             PROVE  RunningInv'
  OBVIOUS
<1>1. CASE Lifecycle
  <2>1. CASE Start
    <3>1. proc' = "up" /\ UNCHANGED <<restarts, stored, pull, buf, hand, dlq, handled>>
      BY <2>1 DEF Start, server, consumer, history
    <3>2. pull = 0 /\ buf = <<>> /\ hand = NoCopy
      BY <2>1, <3>1 DEF Start
    <3> QED BY <3>1, <3>2
  <2>2. CASE Shutdown \/ Crash
    <3>1. restarts' = restarts + 1 /\ restarts \in Nat
      BY <2>2, QueueAssumption DEF Shutdown, Crash, TypeOK
    <3> QED BY <3>1
  <2>3. CASE LoopReturns
    BY <2>3 DEF LoopReturns, server, consumer, history
  <2>4. CASE Exit
    BY <2>4 DEF Exit
  <2> QED BY <1>1, <2>1, <2>2, <2>3, <2>4 DEF Lifecycle
<1>2. ASSUME NEW m \in Msgs, Publish(m) PROVE RunningInv'
  <2>1. /\ UNCHANGED <<proc, loop, restarts, pull, buf, hand, dlq, handled>>
        /\ \A k \in Msgs : stored'[k] = "removed" => stored[k] = "removed"
    BY <1>2 DEF Publish, PublishOk, PublishError, TypeOK, consumer, history
  <2> QED BY <2>1
<1>3. ASSUME NEW m \in Msgs, Server(m) PROVE RunningInv'
  <2>1. /\ UNCHANGED <<proc, loop, restarts, hand, dlq, handled>>
        /\ \A k \in Msgs : stored'[k] = "removed" => stored[k] = "removed"
    BY <1>3 DEF Server, Deliver, AckExpires, AgeOut, TypeOK, consumer, history
  <2>2. pull > 0 \/ UNCHANGED <<pull, buf>>
    BY <1>3 DEF Server, Deliver, AckExpires, AgeOut, consumer
  <2> QED BY <2>1, <2>2
<1>4. CASE Consume
  <2>1. UNCHANGED <<proc, loop, restarts, stored, dlq, handled>>
    BY <1>4 DEF Consume, Fetch, FetchExpires, Take, server, history
  <2>2. loop = "on" \/ (pull' = 0 /\ UNCHANGED <<buf, hand>>)
    BY <1>4, <2>1 DEF Consume, Fetch, FetchExpires, Take
  <2> QED BY <2>1, <2>2
<1>5. CASE Handle
  <2>1. hand \in Copy /\ hand.msg \in Msgs /\ loop = "on"
    BY <1>5, Copies DEF Handle, HandlerSucceeds, HandlerFails, HandlerGivesUp, TypeOK
  <2>2. UNCHANGED <<proc, loop, restarts>>
    BY <1>5 DEF Handle, HandlerSucceeds, HandlerFails, HandlerGivesUp
  <2>3. CASE HandlerSucceeds
    <3>1. /\ handled' = handled \cup {hand.msg} /\ dlq' = dlq
          /\ \A k \in Msgs \ {hand.msg} : stored'[k] = stored[k]
      BY <2>3, <2>1 DEF HandlerSucceeds, Ack, TypeOK
    <3> QED BY <2>1, <2>2, <3>1
  <2>4. CASE HandlerFails
    <3>1. /\ UNCHANGED <<dlq, handled>>
          /\ \A k \in Msgs : stored'[k] = "removed" => stored[k] = "removed"
      BY <2>4, <2>1 DEF HandlerFails, Nak, TypeOK, history
    <3> QED BY <2>1, <2>2, <3>1
  <2>5. CASE HandlerGivesUp
    <3>1. /\ dlq' = dlq \cup {hand.msg} /\ handled' = handled
          /\ \A k \in Msgs \ {hand.msg} : stored'[k] = stored[k]
      BY <2>5, <2>1 DEF HandlerGivesUp, PublishToDLQ, Ack, TypeOK, history
    <3> QED BY <2>1, <2>2, <3>1
  <2> QED BY <1>5, <2>3, <2>4, <2>5 DEF Handle
<1>6. CASE UNCHANGED vars
  BY <1>6 DEF vars, server, consumer, history
<1> QED BY <1>1, <1>2, <1>3, <1>4, <1>5, <1>6 DEF Next

(* What a working queue accepts is, until the process is told to stop,     *)
(* neither lost, in that it left the stream unhandled and without a dead   *)
(* letter, nor stuck without a copy or a delivery to come.                 *)
THEOREM AcceptedIsKept == Spec => []NothingLost
<1>1. Init => RunningInv
  BY DEF Init, RunningInv, OnlyRunningLoops, RunningLosesNothing, FailedMessagesReachDLQ
<1>2. RunningInv /\ NoMessageStranded => NothingLost
  BY DEF RunningInv, NothingLost
<1> QED BY <1>1, <1>2, RunningStep, TypeCorrect, NothingStranded, PTL DEF Spec

------------------------------------------------------------------------------
(* The queue implements Delivery: each of its steps is a step of the       *)
(* promise or leaves accepted, owed, budget, done, dead and aged alone.    *)

Accepted == {m \in Msgs : stored[m] # "none"}
Owed == {m \in Msgs : Waiting(m)}
Aged == {m \in Msgs : stored[m] = "aged"}
Budget == [m \in Msgs |-> MaxRetries - dc[m]]
mapped == <<Accepted, Owed, Budget, handled, dlq, Aged>>

(* An acknowledgement only ends the wait of the message it is for.         *)
LEMMA AckMapped ==
  ASSUME TypeOK, NEW m \in Msgs, Ack(m)
  PROVE  /\ Accepted' = Accepted
         /\ Aged' = Aged
         /\ Owed' \in {Owed, Owed \ {m}}
<1> USE DEF Accepted, Owed, Aged, Waiting, TypeOK
<1>1. CASE stored' = stored
  BY <1>1
<1>2. CASE stored' = [stored EXCEPT ![m] = IF Waiting(m) THEN "removed" ELSE @]
  <2>1. CASE Waiting(m)
    BY <1>2, <2>1
  <2>2. CASE ~Waiting(m)
    BY <1>2, <2>2
  <2> QED BY <2>1, <2>2
<1> QED BY <1>1, <1>2 DEF Ack

(* Every step of the queue is a step of the promise, or one it does not    *)
(* see: a publish is Accept, a delivery Dispatch, a handler call Succeed or*)
(* GiveUp, the age limit Forget.                                           *)
LEMMA MappedStep ==
  TypeOK /\ CopiesAccounted /\ [Next]_vars => [Promise!Next]_mapped
<1> SUFFICES ASSUME TypeOK, CopiesAccounted, [Next]_vars
             PROVE  Promise!Next \/ UNCHANGED mapped
  OBVIOUS
<1> USE QueueAssumption DEF TypeOK, server, consumer, history
<1>u. ASSUME UNCHANGED <<stored, dc, handled, dlq>> PROVE UNCHANGED mapped
  BY <1>u DEF mapped, Accepted, Owed, Budget, Aged, Waiting
<1>1. CASE Lifecycle \/ Consume \/ UNCHANGED vars
  BY <1>1, <1>u DEF Lifecycle, Start, Shutdown, LoopReturns, Exit, Crash,
     Consume, Fetch, FetchExpires, Take, vars
<1>2. ASSUME NEW m \in Msgs, Publish(m) PROVE Promise!Next \/ UNCHANGED mapped
  <2>1. CASE stored' = stored
    BY <1>2, <2>1, <1>u DEF Publish, PublishOk, PublishError
  <2>2. CASE stored' = [stored EXCEPT ![m] = "ready"]
    <3>1. m \notin Accepted /\ UNCHANGED <<dc, handled, dlq>>
      BY <1>2, <2>2 DEF Publish, PublishOk, PublishError, Accepted
    <3>2. /\ Accepted' = Accepted \cup {m}
          /\ Owed' = Owed \cup {m}
          /\ Aged' = Aged /\ Budget' = Budget
      BY <2>2, <3>1 DEF Accepted, Owed, Aged, Budget, Waiting
    <3>3. Promise!Accept(m)
      BY <3>1, <3>2 DEF Promise!Accept, Accepted, Owed, Aged, Budget
    <3> QED BY <3>3 DEF Promise!Next
  <2> QED BY <1>2, <2>1, <2>2 DEF Publish, PublishOk, PublishError
<1>3. ASSUME NEW m \in Msgs, Server(m) PROVE Promise!Next \/ UNCHANGED mapped
  <2>1. CASE Deliver(m)
    <3>1. /\ stored[m] = "ready" /\ dc[m] < MaxRetries
          /\ stored' = [stored EXCEPT ![m] = "inflight"]
          /\ dc' = [dc EXCEPT ![m] = @ + 1]
          /\ UNCHANGED <<handled, dlq>>
      BY <2>1 DEF Deliver, MaxDeliver
    <3>2. Accepted' = Accepted /\ Owed' = Owed /\ Aged' = Aged /\ m \in Owed
      BY <3>1 DEF Accepted, Owed, Aged, Waiting
    <3>3. Budget[m] > 0 /\ Budget' = [Budget EXCEPT ![m] = @ - 1]
      <4>1. dc[m] \in 0 .. MaxRetries /\ dc'[m] = dc[m] + 1
        BY <3>1
      <4>2. \A k \in Msgs : k # m => dc'[k] = dc[k]
        BY <3>1
      <4>3. MaxRetries - dc'[m] = MaxRetries - dc[m] - 1 /\ MaxRetries - dc[m] > 0
        BY <4>1, <3>1
      <4> QED BY <4>2, <4>3 DEF Budget
    <3>4. Promise!Dispatch(m)
      BY <3>1, <3>2, <3>3 DEF Promise!Dispatch, Accepted, Owed, Aged, Budget
    <3> QED BY <3>4 DEF Promise!Next
  <2>2. CASE AckExpires(m)
    BY <2>2 DEF AckExpires, mapped, Accepted, Owed, Budget, Aged, Waiting
  <2>3. CASE AgeOut(m)
    <3>1. /\ Waiting(m) /\ stored' = [stored EXCEPT ![m] = "aged"]
          /\ UNCHANGED <<dc, handled, dlq>>
      BY <2>3 DEF AgeOut
    <3>2. /\ m \in Owed /\ Accepted' = Accepted /\ Budget' = Budget
          /\ Owed' = Owed \ {m} /\ Aged' = Aged \cup {m}
      BY <3>1 DEF Accepted, Owed, Aged, Budget, Waiting
    <3>3. Promise!Forget(m)
      BY <3>1, <3>2 DEF Promise!Forget, Accepted, Owed, Aged, Budget
    <3> QED BY <3>3 DEF Promise!Next
  <2> QED BY <1>3, <2>1, <2>2, <2>3 DEF Server
<1>4. CASE Handle
  <2> DEFINE m == hand.msg
  <2>1. hand # NoCopy /\ dc' = dc
    BY <1>4 DEF Handle, HandlerSucceeds, HandlerFails, HandlerGivesUp
  <2>2. hand \in Copy /\ m \in Msgs /\ hand.n \in attempts[m] /\ hand.n \in Nat
    BY <2>1, Copies DEF CopiesAccounted
  <2>3. hand.n <= dc[m] /\ stored[m] # "none"
    BY <2>2 DEF CopiesAccounted, Copy
  <2>4. m \in Accepted /\ Budget' = Budget
    BY <2>1, <2>2, <2>3 DEF Accepted, Budget
  <2>5. CASE HandlerSucceeds
    <3>1. Ack(m) /\ handled' = handled \cup {m} /\ dlq' = dlq
      BY <2>5 DEF HandlerSucceeds
    <3>2. Accepted' = Accepted /\ Aged' = Aged /\ Owed' \in {Owed, Owed \ {m}}
      BY <2>2, <3>1, AckMapped
    <3>3. Promise!Succeed(m)
      BY <2>4, <3>1, <3>2 DEF Promise!Succeed, Accepted, Owed, Aged, Budget
    <3> QED BY <2>2, <3>3 DEF Promise!Next
  <2>6. CASE HandlerFails
    <3>1. Nak(m) /\ UNCHANGED <<handled, dlq>>
      BY <2>6 DEF HandlerFails
    <3>2. Accepted' = Accepted /\ Owed' = Owed /\ Aged' = Aged
      BY <2>2, <3>1 DEF Nak, Accepted, Owed, Aged, Waiting
    <3> QED BY <2>4, <3>1, <3>2 DEF mapped
  <2>7. CASE HandlerGivesUp
    <3>1. /\ Ack(m) /\ handled' = handled
          /\ dlq' \in {dlq, dlq \cup {m}} /\ LastDelivery(hand.n)
      BY <2>7 DEF HandlerGivesUp, PublishToDLQ
    <3>2. Budget[m] = 0
      BY <2>2, <2>3, <3>1 DEF LastDelivery, Budget
    <3>3. Accepted' = Accepted /\ Aged' = Aged /\ Owed' \in {Owed, Owed \ {m}}
      BY <2>2, <3>1, AckMapped
    <3>4. Promise!GiveUp(m)
      BY <2>4, <3>1, <3>2, <3>3 DEF Promise!GiveUp, Accepted, Owed, Aged, Budget
    <3> QED BY <2>2, <3>4 DEF Promise!Next
  <2> QED BY <1>4, <2>5, <2>6, <2>7 DEF Handle
<1> QED BY <1>1, <1>2, <1>3, <1>4 DEF Next

(* The work queue, with its batches, acknowledgement windows, crashes and  *)
(* restarts, keeps the promise of Delivery: what is not owed any more was  *)
(* processed, or used up its dispatches, or outlived the stream's age      *)
(* limit.                                                                  *)
THEOREM Implements == Spec => ImplementsDelivery
<1>1. Init => Promise!Init
  BY QueueAssumption DEF Init, Promise!Init, Waiting
<1>2. TypeOK /\ CopiesAccounted /\ [Next]_vars => [Promise!Next]_(Promise!dvars)
  BY MappedStep DEF mapped, Promise!dvars, Accepted, Owed, Budget, Aged
<1> QED BY <1>1, <1>2, TypeCorrect, Accounted, PTL
        DEF Spec, ImplementsDelivery, Promise!Spec
=============================================================================
