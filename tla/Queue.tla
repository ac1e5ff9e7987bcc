-------------------------------- MODULE Queue --------------------------------
(***************************************************************************)
(* One work queue of internal/queue: the producers that publish to a       *)
(* JetStream stream, the durable consumer the server keeps for it, the     *)
(* consumeLoop goroutine that fetches batches and runs a handler on each   *)
(* message, the dead letter queue, and the process they live in.           *)
(*                                                                         *)
(* The handler is an oracle here: it succeeds or fails.  The modules that  *)
(* model the real handlers take its place.  Time is abstract: a redelivery *)
(* (BackOff, AckWait, NakWithDelay) may come at any moment.                *)
(***************************************************************************)
EXTENDS Naturals, Sequences, FiniteSets

CONSTANTS
  Msgs,           (* messages that may be published                        *)
  MaxRetries,     (* NATS_MAX_RETRIES: MaxDeliver and the give-up limit    *)
  Batch,          (* messages one Fetch asks for                           *)
  StartOutcomes,  (* what Service.Start may leave behind: loop values      *)
  BrokerFaults,   (* may acks get lost and publishes fail?                 *)
  MaxRestarts,    (* bound on crashes and shutdowns                        *)
  NoCopy          (* no message in hand                                    *)

Copy == [msg : Msgs, n : 1 .. MaxRetries]

ASSUME QueueAssumption ==
  /\ MaxRetries \in Nat \ {0}
  /\ Batch \in Nat \ {0}
  /\ StartOutcomes \subseteq {"on", "off", "cancelled"}
  /\ BrokerFaults \in BOOLEAN
  /\ MaxRestarts \in Nat
  /\ NoCopy \notin Copy

VARIABLES
  proc,       (* the process: "down", "up", "stopping"                     *)
  loop,       (* its consumeLoop: "off", "on", "cancelled" (ctx is done)   *)
  restarts,   (* crashes and shutdowns so far                              *)
  stored,     (* the server's view of each message                         *)
  dc,         (* deliveries of each message (NumDelivered of the last)     *)
  pull,       (* messages the outstanding Fetch may still receive          *)
  buf,        (* delivered copies the loop has not looked at yet           *)
  hand,       (* the copy processMessage works on, or NoCopy               *)
  dlq,        (* messages published to the dead letter stream              *)
  fallback,   (* messages whose publish reported an error to its caller    *)
  attempts,   (* history: delivery numbers a handler was called for        *)
  handled     (* history: messages a handler call succeeded for            *)

server   == <<stored, dc>>
consumer == <<pull, buf, hand>>
history  == <<attempts, handled>>
vars == <<proc, loop, restarts, server, consumer, dlq, fallback, history>>

Waiting(m) == stored[m] \in {"ready", "inflight"}

(* A copy of m, or its n-th, is on its way to or in the hands of the loop. *)
InPlay(m, n) ==
  \/ hand # NoCopy /\ hand = [msg |-> m, n |-> n]
  \/ \E i \in DOMAIN buf : buf[i] = [msg |-> m, n |-> n]

(* The server will not deliver m again and no copy of it is left to        *)
(* process: only the stream's age limit can end its wait.                  *)
Stranded(m) ==
  /\ Waiting(m)
  /\ dc[m] = MaxRetries
  /\ \A n \in 1 .. MaxRetries : ~InPlay(m, n)

TypeOK ==
  /\ proc \in {"down", "up", "stopping"}
  /\ loop \in {"off", "on", "cancelled"}
  /\ restarts \in 0 .. MaxRestarts
  /\ stored \in [Msgs -> {"none", "ready", "inflight", "removed", "aged"}]
  /\ dc \in [Msgs -> 0 .. MaxRetries]
  /\ pull \in 0 .. Batch
  /\ buf \in Seq(Copy)
  /\ hand \in Copy \cup {NoCopy}
  /\ dlq \subseteq Msgs
  /\ fallback \subseteq Msgs
  /\ attempts \in [Msgs -> SUBSET (1 .. MaxRetries)]
  /\ handled \subseteq Msgs

Init ==
  /\ proc = "down"
  /\ loop = "off"
  /\ restarts = 0
  /\ stored = [m \in Msgs |-> "none"]
  /\ dc = [m \in Msgs |-> 0]
  /\ pull = 0
  /\ buf = <<>>
  /\ hand = NoCopy
  /\ dlq = {}
  /\ fallback = {}
  /\ attempts = [m \in Msgs |-> {}]
  /\ handled = {}

------------------------------------------------------------------------------
(* Process life: main, Service.Start, Service.Close.                       *)

(* The producers are wired before Start; when Start fails main only warns, *)
(* so the process runs on with the loop "off", or "cancelled" when it was  *)
(* the other stream's consumer that failed after this loop had started.    *)
Start ==
  /\ proc = "down"
  /\ proc' = "up"
  /\ loop' \in StartOutcomes
  /\ UNCHANGED <<restarts, server, consumer, dlq, fallback, history>>

(* Close calls Stop: cancel the context, wait for the loop.                *)
Shutdown ==
  /\ proc = "up"
  /\ restarts < MaxRestarts
  /\ proc' = "stopping"
  /\ restarts' = restarts + 1
  /\ loop' = IF loop = "on" THEN "cancelled" ELSE loop
  /\ UNCHANGED <<server, consumer, dlq, fallback, history>>

(* The loop only looks at its context between batches.                     *)
LoopReturns ==
  /\ loop = "cancelled"
  /\ pull = 0 /\ buf = <<>> /\ hand = NoCopy
  /\ loop' = "off"
  /\ UNCHANGED <<proc, restarts, server, consumer, dlq, fallback, history>>

Exit ==
  /\ proc = "stopping"
  /\ loop = "off"
  /\ proc' = "down"
  /\ UNCHANGED <<loop, restarts, server, consumer, dlq, fallback, history>>

Crash ==
  /\ proc # "down"
  /\ restarts < MaxRestarts
  /\ proc' = "down"
  /\ loop' = "off"
  /\ restarts' = restarts + 1
  /\ pull' = 0
  /\ buf' = <<>>
  /\ hand' = NoCopy
  /\ UNCHANGED <<server, dlq, fallback, history>>

------------------------------------------------------------------------------
(* Producer.publish.  With a faulty broker the publish may fail, or its    *)
(* acknowledgement may be lost after the message was stored: the caller    *)
(* sees the same error and processes the message directly.                 *)

PublishOk(m) ==
  /\ proc # "down"
  /\ stored[m] = "none" /\ m \notin fallback
  /\ stored' = [stored EXCEPT ![m] = "ready"]
  /\ UNCHANGED <<proc, loop, restarts, dc, consumer, dlq, fallback, history>>

PublishError(m) ==
  /\ BrokerFaults
  /\ proc # "down"
  /\ stored[m] = "none" /\ m \notin fallback
  /\ fallback' = fallback \cup {m}
  /\ \/ UNCHANGED stored
     \/ stored' = [stored EXCEPT ![m] = "ready"]
  /\ UNCHANGED <<proc, loop, restarts, dc, consumer, dlq, history>>

------------------------------------------------------------------------------
(* The server's side of the durable consumer.                              *)

(* startConsumer configures the limit of the server's deliveries.          *)
MaxDeliver == MaxRetries

Deliver(m) ==
  /\ pull > 0
  /\ stored[m] = "ready"
  /\ dc[m] < MaxDeliver
  /\ stored' = [stored EXCEPT ![m] = "inflight"]
  /\ dc' = [dc EXCEPT ![m] = @ + 1]
  /\ pull' = pull - 1
  /\ buf' = Append(buf, [msg |-> m, n |-> dc[m] + 1])
  /\ UNCHANGED <<proc, loop, restarts, hand, dlq, fallback, history>>

(* The ack wait runs from the delivery, also while the copy sits in buf.   *)
AckExpires(m) ==
  /\ stored[m] = "inflight"
  /\ stored' = [stored EXCEPT ![m] = "ready"]
  /\ UNCHANGED <<proc, loop, restarts, dc, consumer, dlq, fallback, history>>

(* MaxAge is a day: it strikes what no longer moves.                       *)
AgeOut(m) ==
  /\ Waiting(m)
  /\ loop = "off" \/ Stranded(m)
  /\ stored' = [stored EXCEPT ![m] = "aged"]
  /\ UNCHANGED <<proc, loop, restarts, dc, consumer, dlq, fallback, history>>

------------------------------------------------------------------------------
(* consumeLoop and processMessage.                                         *)

Fetch ==
  /\ loop = "on"
  /\ pull = 0 /\ buf = <<>> /\ hand = NoCopy
  /\ pull' = Batch
  /\ UNCHANGED <<proc, loop, restarts, server, buf, hand, dlq, fallback,
                 history>>

FetchExpires ==
  /\ pull > 0
  /\ pull' = 0
  /\ UNCHANGED <<proc, loop, restarts, server, buf, hand, dlq, fallback,
                 history>>

(* Mutant: the loop does not advance past the copy it works on.            *)
TakeStays ==
  /\ buf # <<>> /\ hand = NoCopy
  /\ hand' = Head(buf)
  /\ attempts' = [attempts EXCEPT ![Head(buf).msg] = @ \cup {Head(buf).n}]
  /\ UNCHANGED <<proc, loop, restarts, server, pull, buf, dlq, fallback,
                 handled>>

Take ==
  /\ buf # <<>> /\ hand = NoCopy
  /\ hand' = Head(buf)
  /\ buf' = Tail(buf)
  /\ attempts' = [attempts EXCEPT ![Head(buf).msg] = @ \cup {Head(buf).n}]
  /\ UNCHANGED <<proc, loop, restarts, server, pull, dlq, fallback, handled>>

(* The server drops a message on any of its copies' acks.                  *)
Ack(m) ==
  \/ stored' = [stored EXCEPT ![m] = IF Waiting(m) THEN "removed" ELSE @]
  \/ BrokerFaults /\ UNCHANGED stored

Nak(m) ==
  \/ stored' = [stored EXCEPT ![m] = IF @ = "inflight" THEN "ready" ELSE @]
  \/ BrokerFaults /\ UNCHANGED stored

HandlerSucceeds ==
  /\ hand # NoCopy
  /\ Ack(hand.msg)
  /\ handled' = handled \cup {hand.msg}
  /\ hand' = NoCopy
  /\ UNCHANGED <<proc, loop, restarts, dc, pull, buf, dlq, fallback, attempts>>

(* Mutants of the give-up limit: one delivery early, one late.             *)
LastDeliveryEarly(n) == n >= MaxRetries - 1
LastDeliveryLate(n) == n > MaxRetries

LastDelivery(n) == n >= MaxRetries

HandlerFails ==
  /\ hand # NoCopy
  /\ ~LastDelivery(hand.n)
  /\ Nak(hand.msg)
  /\ hand' = NoCopy
  /\ UNCHANGED <<proc, loop, restarts, dc, pull, buf, dlq, fallback, history>>

(* Mutant: the last failure is acknowledged without a dead letter.         *)
PublishToDLQSkipped(m) == UNCHANGED dlq

(* PublishToDLQ runs under the loop's context: once that is cancelled the  *)
(* publish fails, and the message is acknowledged all the same.            *)
PublishToDLQ(m) ==
  \/ loop = "on" /\ dlq' = dlq \cup {m}
  \/ (loop = "cancelled" \/ BrokerFaults) /\ UNCHANGED dlq

HandlerGivesUp ==
  /\ hand # NoCopy
  /\ LastDelivery(hand.n)
  /\ PublishToDLQ(hand.msg)
  /\ Ack(hand.msg)
  /\ hand' = NoCopy
  /\ UNCHANGED <<proc, loop, restarts, dc, pull, buf, fallback, history>>

------------------------------------------------------------------------------
Lifecycle == Start \/ Shutdown \/ LoopReturns \/ Exit \/ Crash
Publish(m) == PublishOk(m) \/ PublishError(m)
Server(m) == Deliver(m) \/ AckExpires(m) \/ AgeOut(m)
Consume == Fetch \/ FetchExpires \/ Take
Handle == HandlerSucceeds \/ HandlerFails \/ HandlerGivesUp

Next ==
  \/ Lifecycle
  \/ \E m \in Msgs : Publish(m) \/ Server(m)
  \/ Consume
  \/ Handle

Spec == Init /\ [][Next]_vars

(* The process is restarted, the loop's goroutine runs, the handler        *)
(* returns, and the server's timers fire and its deliveries arrive.        *)
(* Deliveries need strong fairness: a Fetch window opens and closes.       *)
Fairness ==
  /\ WF_vars(Start) /\ WF_vars(LoopReturns) /\ WF_vars(Exit)
  /\ WF_vars(Fetch) /\ WF_vars(FetchExpires) /\ WF_vars(Take)
  /\ WF_vars(Handle)
  /\ \A m \in Msgs : SF_vars(Deliver(m)) /\ WF_vars(AckExpires(m))

FairSpec == Spec /\ Fairness

------------------------------------------------------------------------------
(* Safety.                                                                 *)

(* A copy the loop has not looked at is of a delivery the server counted   *)
(* and no handler was called for; the copy in hand is of one it was called *)
(* for.  Nothing is delivered, or called for, that was not published.      *)
CopiesAccounted ==
  /\ \A m \in Msgs : stored[m] = "none" => dc[m] = 0
  /\ \A m \in Msgs : \A n \in attempts[m] : n <= dc[m]
  /\ \A i \in DOMAIN buf :
       /\ stored[buf[i].msg] # "none"
       /\ buf[i].n <= dc[buf[i].msg]
       /\ buf[i].n \notin attempts[buf[i].msg]
  /\ \A i, j \in DOMAIN buf : buf[i] = buf[j] => i = j
  /\ hand # NoCopy => hand.n \in attempts[hand.msg]

(* The queue's bookkeeping, which everything below rests on.               *)
Bookkeeping == TypeOK /\ CopiesAccounted

(* processMessage acknowledges for one of two reasons only: a handler call *)
(* succeeded, or the call for the last delivery was made.  A crash, a      *)
(* stale copy or an expired ack wait never makes the stream drop a message *)
(* that still has a delivery to come.                                      *)
RemovedOnlyWhenSettled ==
  \A m \in Msgs :
    stored[m] = "removed" => m \in handled \/ MaxRetries \in attempts[m]

(* However deliveries, expiries, batches and restarts interleave, one      *)
(* delivery leads to at most one handler call, hence a message to at most  *)
(* MaxRetries calls.                                                       *)
OneCallPerDelivery ==
  [][hand' # hand /\ hand' # NoCopy => hand'.n \notin attempts[hand'.msg]]_vars

(* Without a restart or a broker fault, a message whose deliveries are     *)
(* used up and which is not settled yet still has its last copy with the   *)
(* loop: only a crash or a lost message can strand it.                     *)
NoMessageStranded ==
  ~BrokerFaults /\ restarts = 0 =>
    \A m \in Msgs :
      Waiting(m) /\ dc[m] = MaxRetries => InPlay(m, MaxRetries)

(* nats.go calls the third stream "Dead Letter Queue for failed messages": *)
(* what left the work queue was processed or is there.                     *)
FailedMessagesReachDLQ ==
  \A m \in Msgs : stored[m] = "removed" => m \in handled \cup dlq

(* Until the process is told to stop, that holds of a working broker: the  *)
(* consumer gives up on nothing without a dead letter.                     *)
RunningLosesNothing ==
  ~BrokerFaults /\ restarts = 0 => FailedMessagesReachDLQ

(* What the queue accepts is neither lost nor stuck before a restart.      *)
NothingLost == NoMessageStranded /\ RunningLosesNothing

(* The queue implements the promise of Delivery.                           *)
Promise == INSTANCE Delivery WITH
  accepted <- {m \in Msgs : stored[m] # "none"},
  owed <- {m \in Msgs : Waiting(m)},
  budget <- [m \in Msgs |-> MaxRetries - dc[m]],
  done <- handled,
  dead <- dlq,
  aged <- {m \in Msgs : stored[m] = "aged"}

ImplementsDelivery == Promise!Spec

------------------------------------------------------------------------------
(* Liveness, under FairSpec.                                               *)

(* A message the stream holds leaves it, or a crash or shutdown took its   *)
(* last delivery away; by NoMessageStranded nothing else can.              *)
SettlesOrStranded ==
  \A m \in Msgs : Waiting(m) ~> ~Waiting(m) \/ Stranded(m)
==============================================================================
