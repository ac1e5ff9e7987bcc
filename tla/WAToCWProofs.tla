----------------------------- MODULE WAToCWProofs -----------------------------
(***************************************************************************)
(* Theorems about the WhatsApp to Chatwoot bridge, for any messages,       *)
(* events, limits and failures.                                            *)
(***************************************************************************)
EXTENDS WAToCW, TLAPS

QP == INSTANCE QueueProofs WITH Msgs <- Events

------------------------------------------------------------------------------
(* What the bridge does to the queue is what the queue does.               *)

(* Every step of the bridge is a step of its queue or leaves it alone.     *)
LEMMA QueueStepped == [Next]_vars => [Q!Next]_(Q!vars)
<1> SUFFICES ASSUME [Next]_vars PROVE Q!Next \/ UNCHANGED queue
  BY DEF Q!vars, queue, Q!server, Q!consumer, Q!history
<1>1. CASE Next
  BY <1>1
  DEF Next, QueueStep, ProcessEnds, SaveRow, Enqueue, ProcessDirectly, DirectReturns,
      Handle, HandlerReturns, KeyExpires, ProcessStep, ConfigUnread, TryAcquire,
      AlreadyPosted, FindConversation, CreateConversation, CallFails, PostNotFound,
      Post, PostFilename, Record, Notify, RevokeRead, RevokeDelete, AgentDeletes,
      WebhookArrives, Q!Next, Q!Lifecycle, Q!Publish, Q!Server, Q!Consume, Q!Handle
<1>2. CASE UNCHANGED vars
  BY <1>2 DEF vars
<1> QED BY <1>1, <1>2

(* The bridge implements the queue with its calls as the handler: what is  *)
(* proved of the queue holds of the one inside the bridge.                 *)
THEOREM RunsTheQueue == Spec => Q!Spec
<1>1. Init => Q!Init
  BY DEF Init
<1> QED BY <1>1, QueueStepped, PTL DEF Spec, Q!Spec

LEMMA QueueAssumed == QP!QueueAssumption
BY QueueAssumption DEF QP!QueueAssumption, QP!Copy, Q!Copy

LEMMA SameQueue ==
  /\ Q!Init <=> QP!Init
  /\ [Q!Next]_(Q!vars) <=> [QP!Next]_(QP!vars)
  /\ Q!RemovedOnlyWhenSettled <=> QP!RemovedOnlyWhenSettled
<1>1. UNCHANGED Q!vars <=> UNCHANGED QP!vars
  BY DEF Q!vars, QP!vars, Q!server, Q!consumer, Q!history, QP!server, QP!consumer, QP!history
<1>2. Q!Init <=> QP!Init
  BY DEF Q!Init, QP!Init
<1>3. Q!RemovedOnlyWhenSettled <=> QP!RemovedOnlyWhenSettled
  BY DEF Q!RemovedOnlyWhenSettled, QP!RemovedOnlyWhenSettled
<1>4. Q!Next <=> QP!Next
  BY DEF Q!Next, QP!Next, Q!Lifecycle, QP!Lifecycle, Q!Publish, QP!Publish, Q!Server,
    QP!Server, Q!Consume, QP!Consume, Q!Handle, QP!Handle, Q!Start, QP!Start, Q!Shutdown,
    QP!Shutdown, Q!LoopReturns, QP!LoopReturns, Q!Exit, QP!Exit, Q!Crash, QP!Crash,
    Q!PublishOk, QP!PublishOk, Q!PublishError, QP!PublishError, Q!Deliver, QP!Deliver,
    Q!AckExpires, QP!AckExpires, Q!AgeOut, QP!AgeOut, Q!Fetch, QP!Fetch,
    Q!FetchExpires, QP!FetchExpires, Q!Take, QP!Take, Q!HandlerSucceeds, QP!HandlerSucceeds,
    Q!HandlerFails, QP!HandlerFails, Q!HandlerGivesUp, QP!HandlerGivesUp, Q!Ack, QP!Ack,
    Q!Nak, QP!Nak, Q!PublishToDLQ, QP!PublishToDLQ, Q!LastDelivery, QP!LastDelivery,
    Q!MaxDeliver, QP!MaxDeliver, Q!Waiting, QP!Waiting, Q!Stranded, QP!Stranded,
    Q!InPlay, QP!InPlay, Q!server, Q!consumer, Q!history, QP!server, QP!consumer, QP!history
<1> QED BY <1>1, <1>2, <1>3, <1>4

(* The stream drops a job of the bridge only once it is settled.           *)
THEOREM BridgeSettles == Spec => []Q!RemovedOnlyWhenSettled
<1>1. QP!Spec => []QP!RemovedOnlyWhenSettled
  BY QP!RemovedIsSettled, QueueAssumed
<1>2. Q!Spec => QP!Spec
  <2>1. Q!Init => QP!Init
    BY SameQueue
  <2>2. [Q!Next]_(Q!vars) => [QP!Next]_(QP!vars)
    BY SameQueue
  <2> QED BY <2>1, <2>2, PTL DEF Q!Spec, QP!Spec
<1>3. QP!RemovedOnlyWhenSettled => Q!RemovedOnlyWhenSettled
  BY SameQueue
<1> QED BY <1>1, <1>2, <1>3, RunsTheQueue, PTL

------------------------------------------------------------------------------
(* Types, and what a call has in hand.                                     *)

QueueTyped == Q!TypeOK

(* A call that has found its conversation, or created its message, refers  *)
(* to that; the queue's call runs only while a copy is in hand.            *)
CallsSound ==
  /\ hand = NoCopy => task[Consumer].pc = "idle"
  /\ \A t \in Tasks :
       /\ task[t].pc = "post" => task[t].conv \in 1 .. convs
       /\ task[t].pc \in {"record", "end"} =>
            task[t].post \in DOMAIN posts /\ posts[task[t].post].msg = MsgOf(t)

(* One revocation at a time is under way, and has found a post.            *)
RevokeSound ==
  \A m, n \in Msgs : revoke[m] = "read" => target # 0 /\ (revoke[n] = "read" => n = m)

BridgeInv == TypeOK /\ CallsSound /\ RevokeSound

LEMMA QueueTypeStep == Q!TypeOK /\ [Next]_vars => Q!TypeOK'
<1>1. Q!TypeOK <=> QP!TypeOK
  BY DEF Q!TypeOK, QP!TypeOK, Q!Copy, QP!Copy
<1>2. Q!TypeOK' <=> QP!TypeOK'
  BY DEF Q!TypeOK, QP!TypeOK, Q!Copy, QP!Copy
<1>3. QP!TypeOK /\ [QP!Next]_(QP!vars) => QP!TypeOK'
  BY QP!TypeStep, QueueAssumed
<1> QED BY <1>1, <1>2, <1>3, QueueStepped, SameQueue

(* What a call is about stays the same while it has it in hand.            *)
LEMMA MsgOfTyped ==
  ASSUME TypeOK, CallsSound, NEW t \in Tasks, task[t].pc # "idle"
  PROVE  MsgOf(t) \in Msgs
BY BridgeAssumption DEF TypeOK, CallsSound, Q!TypeOK, Q!Copy, MsgOf, Tasks

(* Steps of the queue that leave calls and Chatwoot alone.                 *)
LEMMA QueueMoves ==
  ASSUME CallsSound, hand' = hand \/ hand = NoCopy,
         UNCHANGED <<task, posts, convs>>
  PROVE  CallsSound' /\ \A t \in Tasks : task[t].pc # "idle" => MsgOf(t)' = MsgOf(t)
<1>1. \A t \in Tasks : task[t].pc # "idle" => MsgOf(t)' = MsgOf(t)
  BY DEF CallsSound, MsgOf
<1>2. CallsSound'
  BY <1>1 DEF CallsSound
<1> QED BY <1>1, <1>2

(* What a call notes at a step: a sight of the inbox, or a conversation or *)
(* a post.                                                                 *)
LEMMA NotesSight ==
  ASSUME task \in [Tasks -> TaskState], NEW t \in Tasks, NEW b \in BOOLEAN,
         NEW pc \in {"check", "find"}, task' = [task EXCEPT ![t].pc = pc, ![t].seen = b]
  PROVE  /\ task' \in [Tasks -> TaskState] /\ \A u \in Tasks \ {t} : task'[u] = task[u]
         /\ task'[t].pc = pc /\ task'[t].seen = b
<1> DEFINE r == [task[t] EXCEPT !.pc = pc, !.seen = b]
<1>1. r \in TaskState /\ r.pc = pc /\ r.seen = b
  BY DEF TaskState
<1>2. task' = [task EXCEPT ![t] = r]
  OBVIOUS
<1> HIDE DEF r
<1> QED BY <1>1, <1>2

LEMMA NotesConv ==
  ASSUME task \in [Tasks -> TaskState], NEW t \in Tasks, NEW n \in Nat,
         task' = [task EXCEPT ![t].pc = "post", ![t].conv = n]
  PROVE  /\ task' \in [Tasks -> TaskState] /\ \A u \in Tasks \ {t} : task'[u] = task[u]
         /\ task'[t].pc = "post" /\ task'[t].conv = n
<1> DEFINE r == [task[t] EXCEPT !.pc = "post", !.conv = n]
<1>1. r \in TaskState /\ r.pc = "post" /\ r.conv = n
  BY DEF TaskState
<1>2. task' = [task EXCEPT ![t] = r]
  OBVIOUS
<1> HIDE DEF r
<1> QED BY <1>1, <1>2

LEMMA NotesPost ==
  ASSUME task \in [Tasks -> TaskState], NEW t \in Tasks, NEW n \in Nat,
         NEW pc \in {"record", "end"}, task' = [task EXCEPT ![t].pc = pc, ![t].post = n]
  PROVE  /\ task' \in [Tasks -> TaskState] /\ \A u \in Tasks \ {t} : task'[u] = task[u]
         /\ task'[t].pc = pc /\ task'[t].post = n
<1> DEFINE r == [task[t] EXCEPT !.pc = pc, !.post = n]
<1>1. r \in TaskState /\ r.pc = pc /\ r.post = n
  BY DEF TaskState
<1>2. task' = [task EXCEPT ![t] = r]
  OBVIOUS
<1> HIDE DEF r
<1> QED BY <1>1, <1>2

(* A step of one call leaves the others what they have in hand.            *)
LEMMA CallMoves ==
  ASSUME TypeOK, CallsSound, NEW t \in Tasks, \A u \in Tasks \ {t} : task'[u] = task[u],
         UNCHANGED hand, t = Consumer => hand # NoCopy,
         convs' = convs \/ convs' = convs + 1,
         \A i \in DOMAIN posts : i \in DOMAIN posts' /\ posts'[i] = posts[i],
         task'[t].pc = "post" => task'[t].conv \in 1 .. convs',
         task'[t].pc \in {"record", "end"} =>
           task'[t].post \in DOMAIN posts' /\ posts'[task'[t].post].msg = MsgOf(t)
  PROVE  CallsSound'
<1>2. 1 .. convs \subseteq 1 .. convs'
  BY DEF TypeOK
<1>4. \A u \in Tasks : MsgOf(u)' = MsgOf(u)
  BY DEF MsgOf
<1>5. hand' = NoCopy => task'[Consumer].pc = "idle"
  BY DEF CallsSound, Tasks
<1>6. ASSUME NEW u \in Tasks
      PROVE  /\ task'[u].pc = "post" => task'[u].conv \in 1 .. convs'
             /\ task'[u].pc \in {"record", "end"} =>
                  task'[u].post \in DOMAIN posts' /\ posts'[task'[u].post].msg = MsgOf(u)
  BY <1>2 DEF CallsSound
<1> QED BY <1>4, <1>5, <1>6 DEF CallsSound

(* Every step keeps the types, and what calls and revocations are about:   *)
(* conversations and posts that exist, of the message they are for.        *)
LEMMA BridgeStep == BridgeInv /\ [Next]_vars => BridgeInv'
<1> SUFFICES ASSUME TypeOK, CallsSound, RevokeSound, [Next]_vars
             PROVE  BridgeInv'
  BY DEF BridgeInv
<1> USE DEF TypeOK, Tasks, BridgeInv
<1>0. Q!TypeOK'
  BY QueueTypeStep
<1>1. ASSUME UNCHANGED <<local, chatwoot>>, hand' = hand \/ hand = NoCopy
      PROVE  BridgeInv'
  BY <1>0, <1>1, QueueMoves DEF local, chatwoot, revocation, history, RevokeSound
<1>2. CASE \/ QueueStep(Q!Start) \/ QueueStep(Q!Shutdown) \/ QueueStep(Q!LoopReturns)
           \/ QueueStep(Q!Fetch) \/ QueueStep(Q!FetchExpires) \/ QueueStep(Q!Take)
           \/ \E e \in Events : QueueStep(Q!Server(e))
  BY <1>1, <1>2 DEF QueueStep, Q!Start, Q!Shutdown, Q!LoopReturns, Q!Fetch, Q!FetchExpires,
     Q!Take, Q!Server, Q!Deliver, Q!AckExpires, Q!AgeOut, Q!consumer
<1>3. CASE ProcessEnds
  <2>1. task' = [t \in Tasks |-> Idle] /\ Idle \in TaskState /\ Idle.pc = "idle"
    BY <1>3 DEF ProcessEnds, Idle, TaskState
  <2>2. CallsSound'
    BY <2>1 DEF CallsSound
  <2> QED BY <1>0, <1>3, <2>1, <2>2 DEF ProcessEnds, history, chatwoot, RevokeSound
<1>4. ASSUME NEW e \in Events, SaveRow(e) \/ Enqueue(e) PROVE BridgeInv'
  <2>1. UNCHANGED <<task, posts, convs, hand>>
    BY <1>4 DEF SaveRow, Enqueue, chatwoot, queue, Q!PublishOk, Q!consumer
  <2>2. CallsSound'
    BY <2>1, QueueMoves
  <2>3. /\ event' \in [Events -> {"due", "saved", "queued", "direct", "lost"}]
        /\ rows' \subseteq Msgs
        /\ UNCHANGED <<ref, inbox, keys, task, revocation, history, chatwoot>>
    BY <1>4, BridgeAssumption DEF SaveRow, Enqueue
  <2> QED BY <1>0, <2>2, <2>3 DEF chatwoot, history, revocation, RevokeSound
<1>5. ASSUME NEW m \in Msgs, RevokeRead(m) \/ RevokeDelete(m) PROVE BridgeInv'
  <2>1. UNCHANGED <<task, posts, convs, hand>>
    BY <1>5 DEF RevokeRead, RevokeDelete, chatwoot, queue
  <2>2. CallsSound'
    BY <2>1, QueueMoves
  <2>3. CASE RevokeRead(m)
    <3>1. UNCHANGED <<queue, event, rows, ref, inbox, keys, task, history, chatwoot>>
      BY <2>3 DEF RevokeRead
    <3>2. CASE /\ target' = ref[m]
               /\ revoke' = [revoke EXCEPT ![m] = IF ref[m] = 0 THEN "done" ELSE "read"]
      <4>1. \A n \in Msgs : revoke[n] # "read"
        BY <2>3 DEF RevokeRead, DispatcherFree
      <4>2. \A n \in Msgs : revoke'[n] = "read" => n = m /\ target' # 0
        BY <1>0, <3>2, <4>1
      <4>3. revoke' \in [Msgs -> {"no", "read", "done", "left"}] /\ target' \in 0 .. Len(posts)
        BY <1>0, <3>2
      <4> QED BY <1>0, <2>2, <3>1, <4>2, <4>3 DEF chatwoot, history, RevokeSound
    <3>3. CASE revoke' = [revoke EXCEPT ![m] = "left"] /\ UNCHANGED target
      BY <1>0, <2>2, <3>1, <3>3 DEF chatwoot, history, RevokeSound
    <3> QED BY <2>3, <3>2, <3>3 DEF RevokeRead
  <2>4. CASE RevokeDelete(m)
    <3>1. target \in DOMAIN posts
      BY <2>4 DEF RevokeDelete, RevokeSound
    <3>2. removed' \subseteq DOMAIN posts /\ rows' \subseteq Msgs
      BY <2>4, <3>1 DEF RevokeDelete
    <3>3. ref' \in [Msgs -> 0 .. Len(posts)]
      <4>1. 0 \in 0 .. Len(posts)
        OBVIOUS
      <4>2. \/ UNCHANGED ref \/ ref' = [ref EXCEPT ![m] = 0]
            \/ \E S : ref' = [n \in Msgs |-> IF n \in S THEN 0 ELSE ref[n]]
        <5> DEFINE S == {n \in Msgs :
                           n = m \/ (ref[n] # 0 /\ posts[ref[n]].conv = posts[target].conv)}
        <5>1. ref' = [n \in Msgs |-> IF n \in S THEN 0 ELSE ref[n]]
              \/ UNCHANGED ref \/ ref' = [ref EXCEPT ![m] = 0]
          BY <2>4 DEF RevokeDelete
        <5> QED BY <5>1
      <4>3. UNCHANGED posts
        BY <2>4 DEF RevokeDelete
      <4> QED BY <4>1, <4>2, <4>3
    <3>4. RevokeSound'
      BY <2>4 DEF RevokeDelete, RevokeSound
    <3>5. /\ revoke' \in [Msgs -> {"no", "read", "done", "left"}] /\ target' = 0
          /\ UNCHANGED <<event, inbox, keys, task, notified, resent, posts, convs, gone>>
      BY <2>4 DEF RevokeDelete, history
    <3> QED BY <1>0, <2>2, <3>2, <3>3, <3>4, <3>5
  <2> QED BY <1>5, <2>3, <2>4
<1>6. CASE (\E k \in keys : KeyExpires(k)) \/ (\E c \in Live : AgentDeletes(c))
           \/ \E i \in DOMAIN posts : WebhookArrives(i)
  <2>1. UNCHANGED <<task, posts, convs, hand>>
    BY <1>6 DEF KeyExpires, AgentDeletes, WebhookArrives, local, chatwoot, queue
  <2>2. CallsSound'
    BY <2>1, QueueMoves
  <2> QED BY <1>0, <1>6, <2>2
          DEF KeyExpires, AgentDeletes, WebhookArrives, Live, local, chatwoot, history,
              revocation, RevokeSound
<1>7. ASSUME NEW e \in Events, ProcessDirectly(e) \/ DirectReturns(e) PROVE BridgeInv'
  <2>1. /\ task' \in [Tasks -> TaskState] /\ \A u \in Tasks \ {e} : task'[u] = task[u]
        /\ task'[e].pc \in {"begin", "idle"}
    <3>1. CASE ProcessDirectly(e)
      BY ZenonT(60), <3>1 DEF ProcessDirectly, TaskState
    <3>2. CASE DirectReturns(e)
      BY <3>2 DEF DirectReturns, Idle, TaskState
    <3> QED BY <1>7, <3>1, <3>2
  <2>2. UNCHANGED <<hand, posts, convs>> /\ e # Consumer
    BY <1>7, BridgeAssumption
    DEF ProcessDirectly, DirectReturns, queue, chatwoot, Q!PublishError, Q!consumer
  <2>3. CallsSound'
    BY <2>1, <2>2, CallMoves
  <2>4. /\ event' \in [Events -> {"due", "saved", "queued", "direct", "lost"}]
        /\ UNCHANGED <<rows, ref, inbox, keys, revocation, history, chatwoot>>
    BY <1>7 DEF ProcessDirectly, DirectReturns
  <2> QED BY <1>0, <2>1, <2>3, <2>4 DEF chatwoot, history, revocation, RevokeSound
<1>8. CASE Handle
  <2>1. /\ task' \in [Tasks -> TaskState]
        /\ \A u \in Tasks \ {Consumer} : task'[u] = task[u]
        /\ task'[Consumer].pc = "begin"
    BY ZenonT(60), <1>8 DEF Handle, TaskState
  <2>2. UNCHANGED <<hand, posts, convs>> /\ hand # NoCopy
    BY <1>8 DEF Handle, queue, chatwoot
  <2>3. CallsSound'
    BY <2>1, <2>2, CallMoves
  <2> QED BY <1>0, <1>8, <2>1, <2>3 DEF Handle, chatwoot, history, revocation, RevokeSound
<1>9. CASE HandlerReturns
  <2>1. task' = [task EXCEPT ![Consumer] = Idle] /\ Idle \in TaskState
    BY <1>9 DEF HandlerReturns, Idle, TaskState
  <2>2. UNCHANGED <<event, rows, ref, inbox, keys, revocation, history, chatwoot>>
    BY <1>9 DEF HandlerReturns
  <2>3. CallsSound'
    BY <2>1, <2>2 DEF CallsSound, Idle, chatwoot, MsgOf
  <2> QED BY <1>0, <2>1, <2>2, <2>3 DEF chatwoot, history, revocation, RevokeSound
<1>10. ASSUME NEW t \in Tasks, ProcessStep(t) PROVE BridgeInv'
  <2>1. /\ UNCHANGED <<queue, event, rows, revocation, resent>>
        /\ removed' = removed /\ gone' = gone /\ UNCHANGED <<hand>>
    BY <1>10
    DEF ProcessStep, ConfigUnread, TryAcquire, AlreadyPosted, FindConversation,
        CreateConversation, CallFails, PostNotFound, Post, PostFilename, Record, Notify,
        history, chatwoot, queue
  <2>2. task[t].pc # "idle" /\ MsgOf(t) \in Msgs /\ (t = Consumer => hand # NoCopy)
    <3>1. task[t].pc # "idle"
      BY <1>10
      DEF ProcessStep, ConfigUnread, TryAcquire, AlreadyPosted, FindConversation,
          CreateConversation, CallFails, PostNotFound, Post, PostFilename, Record, Notify
    <3> QED BY <3>1, MsgOfTyped DEF CallsSound
  <2>3. /\ task[t] \in TaskState /\ task \in [Tasks -> TaskState]
        /\ Len(posts) \in Nat /\ Len(posts) + 1 \in Nat
        /\ convs + 1 \in Nat /\ 1 .. convs \subseteq Nat
    OBVIOUS
  <2>4. CASE ConfigUnread(t)
    <3>1. /\ task' \in [Tasks -> TaskState] /\ \A u \in Tasks \ {t} : task'[u] = task[u]
          /\ task'[t].pc = "ok"
      BY <2>4 DEF ConfigUnread, TaskState
    <3>2. UNCHANGED <<ref, inbox, keys, history, chatwoot>>
      BY <2>4 DEF ConfigUnread
    <3>3. CallsSound'
      BY <2>1, <2>2, <3>1, <3>2, CallMoves DEF chatwoot
    <3> QED BY <1>0, <2>1, <3>1, <3>2, <3>3 DEF history, chatwoot, revocation, RevokeSound
  <2>5. CASE TryAcquire(t)
    <3>1. /\ task' \in [Tasks -> TaskState] /\ \A u \in Tasks \ {t} : task'[u] = task[u]
          /\ task'[t].pc \in {"ok", "check", "find"}
      <4>1. CASE task' = [task EXCEPT ![t].pc = "ok"]
        BY ZenonT(60), <4>1 DEF TaskState
      <4>2. CASE \E pc \in {"check", "find"} :
                   task' = [task EXCEPT ![t].pc = pc, ![t].seen = inbox]
        BY <4>2, NotesSight
      <4> QED BY <2>5, <4>1, <4>2 DEF TryAcquire
    <3>2. UNCHANGED <<ref, inbox, history, chatwoot>> /\ keys' \subseteq BOOLEAN \X Msgs
      BY <2>2, <2>5 DEF TryAcquire
    <3>3. CallsSound'
      BY <2>1, <2>2, <3>1, <3>2, CallMoves DEF chatwoot
    <3> QED BY <1>0, <2>1, <3>1, <3>2, <3>3 DEF history, chatwoot, revocation, RevokeSound
  <2>6. CASE FindConversation(t)
    <3>1. /\ task' \in [Tasks -> TaskState] /\ \A u \in Tasks \ {t} : task'[u] = task[u]
          /\ \/ task'[t].pc = "create"
             \/ task'[t].pc = "post" /\ task'[t].conv \in 1 .. convs
      <4>1. CASE task' = [task EXCEPT ![t].pc = "create"]
        BY ZenonT(60), <4>1 DEF TaskState
      <4>2. CASE \E c \in Live : task' = [task EXCEPT ![t].pc = "post", ![t].conv = c]
        <5>1. PICK c \in 1 .. convs : task' = [task EXCEPT ![t].pc = "post", ![t].conv = c]
          BY <4>2 DEF Live
        <5> HIDE DEF TypeOK, Tasks
        <5> QED BY <2>3, <5>1, NotesConv
      <4> QED BY <2>6, <4>1, <4>2 DEF FindConversation
    <3>2. UNCHANGED <<ref, keys, history, chatwoot>> /\ inbox' = TRUE
      BY <2>6 DEF FindConversation
    <3>3. CallsSound'
      BY <2>1, <2>2, <3>1, <3>2, CallMoves DEF chatwoot
    <3> QED BY <1>0, <2>1, <3>1, <3>2, <3>3 DEF history, chatwoot, revocation, RevokeSound
  <2>7. CASE CreateConversation(t)
    <3>1. /\ task' \in [Tasks -> TaskState] /\ \A u \in Tasks \ {t} : task'[u] = task[u]
          /\ task'[t].pc = "post" /\ task'[t].conv = convs + 1
      <4>1. task' = [task EXCEPT ![t].pc = "post", ![t].conv = convs + 1]
        BY <2>7 DEF CreateConversation
      <4> HIDE DEF TypeOK, Tasks
      <4> QED BY <2>3, <4>1, NotesConv
    <3>2. UNCHANGED <<ref, inbox, keys, history, posts>> /\ convs' = convs + 1
      BY <2>7 DEF CreateConversation
    <3>3. CallsSound'
      <4>1. task'[t].conv \in 1 .. convs' /\ task'[t].pc \notin {"record", "end"}
        BY <3>1, <3>2
      <4> QED BY <2>1, <2>2, <3>1, <3>2, <4>1, CallMoves
    <3>4. convs' \in Nat /\ 1 .. convs \subseteq 1 .. convs'
      BY <3>2
    <3>5. posts \in Seq([msg : Msgs, conv : 1 .. convs', waid : BOOLEAN])
      <4> DEFINE S == [msg : Msgs, conv : 1 .. convs, waid : BOOLEAN]
                 T == [msg : Msgs, conv : 1 .. convs', waid : BOOLEAN]
      <4>1. S \subseteq T /\ posts \in Seq(S)
        BY <3>4
      <4> HIDE DEF S, T, TypeOK
      <4>2. posts \in Seq(T)
        BY <4>1
      <4> QED BY <4>2 DEF T
    <3> QED BY <1>0, <2>1, <3>1, <3>2, <3>3, <3>4, <3>5 DEF history, revocation, RevokeSound
  <2>8. ASSUME NEW outcome \in {"ok", "error"}, Return(t, outcome), UNCHANGED <<posts, convs>>
        PROVE  /\ CallsSound' /\ task' \in [Tasks -> TaskState]
               /\ keys' \subseteq BOOLEAN \X Msgs
    <3>1. /\ task' \in [Tasks -> TaskState] /\ \A u \in Tasks \ {t} : task'[u] = task[u]
          /\ task'[t].pc \in {"ok", "error"}
      BY <2>8 DEF Return, Idle, TaskState
    <3> QED BY <2>1, <2>2, <2>8, <3>1, CallMoves DEF Return
  <2>9. CASE AlreadyPosted(t)
    <3>1. CASE Return(t, "ok")
      BY <1>0, <2>1, <2>8, <2>9, <3>1
      DEF AlreadyPosted, history, chatwoot, revocation, RevokeSound
    <3>2. CASE task' = [task EXCEPT ![t].pc = "find"] /\ UNCHANGED keys
      <4>1. /\ task' \in [Tasks -> TaskState] /\ \A u \in Tasks \ {t} : task'[u] = task[u]
            /\ task'[t].pc = "find"
        BY ZenonT(60), <3>2 DEF TaskState
      <4>2. UNCHANGED <<ref, inbox, keys, history, chatwoot>>
        BY <2>9, <3>2 DEF AlreadyPosted
      <4>3. CallsSound'
        BY <2>1, <2>2, <4>1, <4>2, CallMoves DEF chatwoot
      <4> QED
        BY <1>0, <2>1, <4>1, <4>2, <4>3 DEF history, chatwoot, revocation, RevokeSound
    <3> QED BY <2>9, <3>1, <3>2 DEF AlreadyPosted
  <2>10. CASE CallFails(t)
    BY <1>0, <2>1, <2>8, <2>10 DEF CallFails, history, chatwoot, revocation, RevokeSound
  <2>11. CASE PostNotFound(t)
    <3>1. ref' \in [Msgs -> 0 .. Len(posts)]
      BY <2>3, <2>11 DEF PostNotFound, ConversationNotFound
    <3>2. UNCHANGED <<inbox, history, chatwoot>> /\ Return(t, "error")
      BY <2>11 DEF PostNotFound
    <3> QED
      BY <1>0, <2>1, <2>8, <3>1, <3>2 DEF history, chatwoot, revocation, RevokeSound
  <2>12. CASE Post(t) \/ PostFilename(t)
    <3>1. task[t].conv \in 1 .. convs
      BY <2>12 DEF Post, PostFilename, CallsSound
    <3>2. PICK x \in [msg : Msgs, conv : 1 .. convs, waid : BOOLEAN] :
            posts' = Append(posts, x) /\ x.msg = MsgOf(t)
      <4>1. PICK waid \in BOOLEAN : NewPost(t, waid)
        BY <2>12 DEF Post, PostFilename
      <4> DEFINE y == [msg |-> MsgOf(t), conv |-> task[t].conv, waid |-> waid]
      <4>2. y \in [msg : Msgs, conv : 1 .. convs, waid : BOOLEAN] /\ y.msg = MsgOf(t)
        BY <2>2, <3>1
      <4>3. posts' = Append(posts, y)
        BY <4>1 DEF NewPost
      <4> HIDE DEF y
      <4> QED BY <4>2, <4>3
    <3>3. /\ posts' \in Seq([msg : Msgs, conv : 1 .. convs, waid : BOOLEAN])
          /\ Len(posts') = Len(posts) + 1 /\ posts'[Len(posts) + 1] = x
          /\ \A i \in DOMAIN posts : i \in DOMAIN posts' /\ posts'[i] = posts[i]
      <4> HIDE DEF TaskState
      <4> QED BY <2>3, <3>2
    <3>4. /\ UNCHANGED <<ref, inbox, history, convs>> /\ keys' \subseteq BOOLEAN \X Msgs
      BY <2>12 DEF Post, PostFilename, Return
    <3>5. /\ task' \in [Tasks -> TaskState] /\ \A u \in Tasks \ {t} : task'[u] = task[u]
          /\ \/ task'[t].pc \in {"record", "end"} /\ task'[t].post = Len(posts) + 1
             \/ task'[t].pc = "error"
      <4>1. CASE \E pc \in {"record", "end"} :
                   task' = [task EXCEPT ![t].pc = pc, ![t].post = Len(posts) + 1]
        <5> HIDE DEF TypeOK, Tasks
        <5> QED BY <2>3, <4>1, NotesPost
      <4>2. CASE Return(t, "error")
        BY <4>2 DEF Return, Idle, TaskState
      <4> QED BY <2>12, <4>1, <4>2 DEF Post, PostFilename
    <3>6. Len(posts) + 1 \in DOMAIN posts'
      BY <2>3, <3>3
    <3>7. CallsSound'
      BY ZenonT(60), <2>1, <2>2, <3>2, <3>3, <3>4, <3>5, <3>6, CallMoves
    <3>8. 0 .. Len(posts) \subseteq 0 .. Len(posts') /\ DOMAIN posts \subseteq DOMAIN posts'
      BY <2>3, <3>3
    <3>9. ref \in [Msgs -> 0 .. Len(posts')] /\ target \in 0 .. Len(posts')
          /\ removed \subseteq DOMAIN posts' /\ resent \subseteq DOMAIN posts'
      BY <3>8
    <3> QED BY <1>0, <2>1, <3>3, <3>4, <3>5, <3>7, <3>9 DEF history, revocation, RevokeSound
  <2>13. CASE Record(t)
    <3>1. /\ task' \in [Tasks -> TaskState] /\ \A u \in Tasks \ {t} : task'[u] = task[u]
          /\ task'[t].pc = "end" /\ task'[t].post = task[t].post
      BY <2>13 DEF Record, TaskState
    <3>2. /\ UNCHANGED <<inbox, keys, history, chatwoot>>
          /\ task[t].post \in DOMAIN posts /\ posts[task[t].post].msg = MsgOf(t)
      BY <2>13 DEF Record, CallsSound
    <3>3. task[t].post \in 0 .. Len(posts)
      BY <2>3, <3>2
    <3>4. ref' \in [Msgs -> 0 .. Len(posts)]
      BY <2>13, <3>3 DEF Record
    <3>5. CallsSound'
      BY <2>1, <2>2, <3>1, <3>2, CallMoves DEF chatwoot
    <3> QED
      BY <1>0, <2>1, <3>1, <3>2, <3>4, <3>5 DEF history, chatwoot, revocation, RevokeSound
  <2>14. CASE Notify(t)
    <3>1. notified' \subseteq Msgs /\ UNCHANGED <<ref, inbox, chatwoot>> /\ Return(t, "ok")
      BY <2>2, <2>14 DEF Notify
    <3> QED BY <1>0, <2>1, <2>8, <3>1 DEF chatwoot, revocation, RevokeSound
  <2> QED
    BY <1>10, <2>4, <2>5, <2>6, <2>7, <2>9, <2>10, <2>11, <2>12, <2>13, <2>14
    DEF ProcessStep
<1>11. CASE UNCHANGED vars
  BY <1>1, <1>11 DEF vars, queue
<1> QED
  BY <1>2, <1>3, <1>4, <1>5, <1>6, <1>7, <1>8, <1>9, <1>10, <1>11 DEF Next

LEMMA BridgeStarts == Init => BridgeInv
<1> SUFFICES ASSUME Init PROVE BridgeInv
  OBVIOUS
<1>1. Q!TypeOK
  BY QueueAssumption DEF Init, Q!Init, Q!TypeOK
<1>2. TypeOK
  BY <1>1, BridgeAssumption DEF Init, TypeOK, Idle, TaskState
<1>3. CallsSound /\ RevokeSound
  BY DEF Init, CallsSound, RevokeSound, Idle, Tasks
<1> QED BY <1>2, <1>3 DEF BridgeInv

(* The bridge's invariant holds throughout.                                *)
THEOREM BridgeHolds == Spec => []BridgeInv
BY BridgeStarts, BridgeStep, PTL DEF Spec

(* The state of the bridge is well typed: what rows, calls and revocations *)
(* refer to exists.                                                        *)
THEOREM BridgeTyped == Spec => []TypeOK
<1>1. BridgeInv => TypeOK
  BY DEF BridgeInv
<1> QED BY <1>1, BridgeHolds, PTL

------------------------------------------------------------------------------
(* References.                                                             *)

(* Rows that keep their reference or lose it, of posts that stay.          *)
LEMMA RefKept ==
  ASSUME TypeOK, RefIsOwn, DOMAIN ref' = Msgs,
         \A i \in DOMAIN posts : i \in DOMAIN posts' /\ posts'[i] = posts[i],
         \A m \in Msgs : \/ ref'[m] = 0
                         \/ ref'[m] = ref[m] /\ (m \in rows => m \in rows')
  PROVE  RefIsOwn'
BY DEF RefIsOwn, TypeOK

LEMMA RefStep == BridgeInv /\ RefIsOwn /\ [Next]_vars => RefIsOwn'
<1> SUFFICES ASSUME TypeOK, CallsSound, RefIsOwn, [Next]_vars PROVE RefIsOwn'
  BY DEF BridgeInv
<1>0. DOMAIN ref = Msgs
  BY DEF TypeOK
<1>1. CASE UNCHANGED <<ref, rows, posts>>
  BY <1>1 DEF RefIsOwn
<1>2. CASE ProcessEnds \/ Handle \/ HandlerReturns
           \/ \E e \in Events : ProcessDirectly(e) \/ DirectReturns(e) \/ Enqueue(e)
  BY <1>1, <1>2 DEF ProcessEnds, Handle, HandlerReturns, ProcessDirectly, DirectReturns,
     Enqueue, chatwoot
<1>3. CASE \/ QueueStep(Q!Start) \/ QueueStep(Q!Shutdown) \/ QueueStep(Q!LoopReturns)
           \/ QueueStep(Q!Fetch) \/ QueueStep(Q!FetchExpires) \/ QueueStep(Q!Take)
           \/ \E e \in Events : QueueStep(Q!Server(e))
  BY <1>1, <1>3 DEF QueueStep, local, chatwoot
<1>4. ASSUME NEW e \in Events, SaveRow(e) PROVE RefIsOwn'
  BY <1>0, <1>4, RefKept DEF SaveRow, chatwoot
<1>5. CASE (\E k \in keys : KeyExpires(k)) \/ (\E c \in Live : AgentDeletes(c))
           \/ (\E i \in DOMAIN posts : WebhookArrives(i))
           \/ \E m \in Msgs : RevokeRead(m)
  BY <1>1, <1>5 DEF KeyExpires, AgentDeletes, WebhookArrives, RevokeRead, local, chatwoot
<1>6. ASSUME NEW m \in Msgs, RevokeDelete(m) PROVE RefIsOwn'
  <2>1. UNCHANGED posts
    BY <1>6 DEF RevokeDelete
  <2>2. CASE UNCHANGED <<rows, ref>>
    BY <1>1, <2>1, <2>2
  <2>3. CASE rows' = rows \ {m} /\ DOMAIN ref' = Msgs /\ ref'[m] = 0
             /\ \A n \in Msgs \ {m} : ref'[n] \in {0, ref[n]}
    BY <2>1, <2>3, RefKept
  <2>4. CASE rows' = rows \ {m} /\ ref' = [ref EXCEPT ![m] = 0]
    BY <1>0, <2>3, <2>4
  <2>5. CASE rows' = rows \ {m}
             /\ \E S : ref' = [n \in Msgs |-> IF n = m \/ n \in S THEN 0 ELSE ref[n]]
    BY <2>3, <2>5
  <2>6. ASSUME NEW c, ref' = [n \in Msgs |->
                 IF n = m \/ (ref[n] # 0 /\ posts[ref[n]].conv = c) THEN 0 ELSE ref[n]]
        PROVE  \E S : ref' = [n \in Msgs |-> IF n = m \/ n \in S THEN 0 ELSE ref[n]]
    <3> DEFINE S == {n \in Msgs : ref[n] # 0 /\ posts[ref[n]].conv = c}
    <3>1. ref' = [n \in Msgs |-> IF n = m \/ n \in S THEN 0 ELSE ref[n]]
      BY <2>6
    <3> QED BY <3>1
  <2> QED BY ZenonT(60), <1>6, <2>2, <2>4, <2>5, <2>6 DEF RevokeDelete
<1>7. ASSUME NEW t \in Tasks, ProcessStep(t) PROVE RefIsOwn'
  <2>1. CASE ConfigUnread(t) \/ TryAcquire(t) \/ AlreadyPosted(t) \/ FindConversation(t)
             \/ CreateConversation(t) \/ CallFails(t) \/ Notify(t)
    BY <1>1, <2>1 DEF ConfigUnread, TryAcquire, AlreadyPosted, FindConversation,
       CreateConversation, CallFails, Notify, chatwoot
  <2>2. CASE PostNotFound(t)
    BY <1>0, <2>2, RefKept DEF PostNotFound, ConversationNotFound, chatwoot
  <2>3. CASE Post(t) \/ PostFilename(t)
    <3>1. PICK x : posts' = Append(posts, x)
      BY <2>3 DEF Post, PostFilename, NewPost
    <3>2. \A i \in DOMAIN posts : i \in DOMAIN posts' /\ posts'[i] = posts[i]
      <4>1. posts \in Seq([msg : Msgs, conv : 1 .. convs, waid : BOOLEAN])
        BY DEF TypeOK
      <4> QED BY <3>1, <4>1
    <3> QED BY <1>0, <2>3, <3>2, RefKept DEF Post, PostFilename
  <2>4. CASE Record(t)
    <3>1. /\ task[t].post \in DOMAIN posts /\ posts[task[t].post].msg = MsgOf(t)
          /\ UNCHANGED <<rows, posts>>
      BY <2>4 DEF Record, CallsSound, chatwoot
    <3>2. CASE MsgOf(t) \in rows /\ ref' = [ref EXCEPT ![MsgOf(t)] = task[t].post]
      BY <1>0, <3>1, <3>2 DEF RefIsOwn
    <3> QED BY <1>1, <2>4, <3>1, <3>2 DEF Record
  <2> QED BY <1>7, <2>1, <2>2, <2>3, <2>4 DEF ProcessStep
<1>8. CASE UNCHANGED vars
  BY <1>1, <1>8 DEF vars, local, chatwoot
<1> QED BY <1>2, <1>3, <1>4, <1>5, <1>6, <1>7, <1>8 DEF Next

(* A row refers only to its own Chatwoot message, and a row that is gone   *)
(* to none, for any messages, events, calls at once, deletions by agents   *)
(* and revocations.                                                        *)
THEOREM RefsAreOwn == Spec => []RefIsOwn
<1>1. Init => RefIsOwn
  BY DEF Init, RefIsOwn
<1> QED BY <1>1, RefStep, BridgeHolds, PTL DEF Spec

------------------------------------------------------------------------------
(* Keys.                                                                   *)

Prompt == InboxReady /\ ~Slow

(* Who processes a message holds its key: the one with the inbox, once the *)
(* inbox is known, so that one key is all there is for a message.          *)
CallHasKey ==
  Prompt => inbox = TRUE /\ \A t \in Tasks :
                              Processing(t) => task[t].seen = TRUE /\ Key(t) \in keys

KeyInv == KeyHasCall /\ CallHasKey /\ (Prompt => OneCallPerMessage)

(* Steps that leave the calls that are under way alone.                    *)
LEMMA CallsStay ==
  ASSUME KeyInv, inbox' \in {inbox, TRUE}, UNCHANGED keys,
         \A u \in Tasks : /\ Processing(u)' <=> Processing(u)
                          /\ Processing(u) => task'[u].seen = task[u].seen
                                              /\ MsgOf(u)' = MsgOf(u)
  PROVE  KeyInv'
<1>1. \A u \in Tasks : Processing(u) => Key(u)' = Key(u)
  BY DEF Key
<1>2. KeyHasCall'
  BY <1>1 DEF KeyInv, KeyHasCall
<1>3. CallHasKey'
  BY <1>1 DEF KeyInv, CallHasKey, Prompt
<1>4. Prompt' => OneCallPerMessage'
  BY DEF KeyInv, OneCallPerMessage, Prompt
<1> QED BY <1>2, <1>3, <1>4 DEF KeyInv

(* A call that ends takes its key with it, and only its own.               *)
LEMMA CallEnds ==
  ASSUME TypeOK, KeyInv, NEW t \in Tasks, Processing(t), UNCHANGED <<hand, inbox>>,
         NEW outcome \in {"ok", "error"}, Return(t, outcome)
  PROVE  KeyInv'
<1>1. /\ ~Processing(t)' /\ \A u \in Tasks \ {t} : task'[u] = task[u]
      /\ \A u \in Tasks : MsgOf(u)' = MsgOf(u)
  BY DEF Return, TypeOK, Processing, Idle, MsgOf
<1>2. \A u \in Tasks \ {t} : Key(u)' = Key(u) /\ (Processing(u)' <=> Processing(u))
  BY <1>1 DEF Key, Processing
<1>3. keys' = keys \ {Key(t)}
  BY DEF Return
<1>4. KeyHasCall'
  BY <1>1, <1>2, <1>3 DEF KeyInv, KeyHasCall
<1>5. Prompt' => OneCallPerMessage'
  BY <1>1, <1>2 DEF KeyInv, OneCallPerMessage, Prompt
<1>6. CallHasKey'
  <2> SUFFICES ASSUME Prompt, NEW u \in Tasks, Processing(u)'
               PROVE  task'[u].seen = TRUE /\ Key(u)' \in keys'
    BY DEF KeyInv, CallHasKey, Prompt
  <2>1. u # t /\ Processing(u)
    BY <1>1, <1>2
  <2>2. MsgOf(u) # MsgOf(t)
    BY <2>1 DEF KeyInv, OneCallPerMessage
  <2>3. Key(u) # Key(t)
    BY <2>2 DEF Key
  <2> QED BY <1>1, <1>2, <1>3, <2>1, <2>3 DEF KeyInv, CallHasKey
<1> QED BY <1>4, <1>5, <1>6 DEF KeyInv

LEMMA CallBegins ==
  ASSUME TypeOK, KeyInv, NEW t \in Tasks, ~Processing(t), UNCHANGED <<hand, inbox>>,
         Key(t)' \notin keys, keys' = keys \cup {Key(t)'},
         \A u \in Tasks \ {t} : task'[u] = task[u],
         Processing(t)', task'[t].seen = inbox
  PROVE  KeyInv'
<1>1. \A u \in Tasks : MsgOf(u)' = MsgOf(u)
  BY DEF MsgOf
<1>2. \A u \in Tasks \ {t} : Key(u)' = Key(u) /\ (Processing(u)' <=> Processing(u))
  BY <1>1 DEF Key, Processing
<1>3. KeyHasCall'
  BY <1>2 DEF KeyInv, KeyHasCall
<1>4. CallHasKey'
  BY <1>2 DEF KeyInv, CallHasKey, Prompt
<1>5. ASSUME Prompt, NEW u \in Tasks \ {t}, Processing(u)' PROVE MsgOf(u)' # MsgOf(t)'
  <2>1. Key(u) \in keys /\ task[u].seen = TRUE /\ inbox = TRUE
    BY <1>2, <1>5 DEF KeyInv, CallHasKey
  <2>2. Key(u)' # Key(t)' /\ task'[u].seen = task'[t].seen
    BY <1>2, <2>1
  <2> QED BY <2>2 DEF Key
<1>6. Prompt' => OneCallPerMessage'
  <2> SUFFICES ASSUME Prompt, NEW u \in Tasks, NEW v \in Tasks,
                      Processing(u)', Processing(v)', u # v
               PROVE  MsgOf(u)' # MsgOf(v)'
    BY DEF OneCallPerMessage, Prompt
  <2>1. CASE u # t /\ v # t
    BY <1>1, <1>2, <2>1 DEF KeyInv, OneCallPerMessage
  <2> QED BY <1>5, <2>1
<1> QED BY <1>3, <1>4, <1>6 DEF KeyInv

(* An event has a call of its own only once it is processed directly.      *)
DirectCalls == \A e \in Events : task[e].pc # "idle" => event[e] = "direct"

LEMMA DirectStep == TypeOK /\ DirectCalls /\ [Next]_vars => DirectCalls'
<1> SUFFICES ASSUME TypeOK, DirectCalls, [Next]_vars PROVE DirectCalls'
  OBVIOUS
<1> USE DEF DirectCalls
<1>0. /\ task \in [Tasks -> TaskState] /\ DOMAIN event = Events
      /\ Events \subseteq Tasks /\ Consumer \notin Events
  BY BridgeAssumption DEF TypeOK, Tasks
<1>1. ASSUME UNCHANGED <<task, event>> PROVE DirectCalls'
  BY <1>1
<1>2. CASE \/ QueueStep(Q!Start) \/ QueueStep(Q!Shutdown) \/ QueueStep(Q!LoopReturns)
           \/ QueueStep(Q!Fetch) \/ QueueStep(Q!FetchExpires) \/ QueueStep(Q!Take)
           \/ \E e \in Events : QueueStep(Q!Server(e))
  BY <1>1, <1>2 DEF QueueStep, local
<1>3. CASE ProcessEnds
  BY <1>0, <1>3 DEF ProcessEnds, Idle
<1>4. ASSUME NEW e \in Events,
             SaveRow(e) \/ Enqueue(e) \/ ProcessDirectly(e) \/ DirectReturns(e)
      PROVE  DirectCalls'
  BY <1>0, <1>4 DEF SaveRow, Enqueue, ProcessDirectly, DirectReturns, Idle
<1>5. CASE Handle \/ HandlerReturns
  BY <1>0, <1>5 DEF Handle, HandlerReturns
<1>6. CASE \/ \E m \in Msgs : RevokeRead(m) \/ RevokeDelete(m)
           \/ (\E k \in keys : KeyExpires(k)) \/ (\E c \in Live : AgentDeletes(c))
           \/ \E i \in DOMAIN posts : WebhookArrives(i)
  BY <1>1, <1>6 DEF RevokeRead, RevokeDelete, KeyExpires, AgentDeletes, WebhookArrives, local
<1>7. ASSUME NEW t \in Tasks, ProcessStep(t) PROVE DirectCalls'
  <2>1. UNCHANGED event /\ task[t].pc # "idle" /\ \A u \in Tasks \ {t} : task'[u] = task[u]
    BY <1>0, <1>7
    DEF ProcessStep, ConfigUnread, TryAcquire, AlreadyPosted, FindConversation,
        CreateConversation, CallFails, PostNotFound, Post, PostFilename, Record, Notify, Return
  <2> QED BY <1>0, <2>1
<1>8. CASE UNCHANGED vars
  BY <1>1, <1>8 DEF vars, local
<1> QED BY <1>2, <1>3, <1>4, <1>5, <1>6, <1>7, <1>8 DEF Next

LEMMA KeyStep == BridgeInv /\ DirectCalls /\ KeyInv /\ [Next]_vars => KeyInv'
<1> SUFFICES ASSUME TypeOK, CallsSound, DirectCalls, KeyInv, [Next]_vars PROVE KeyInv'
  BY DEF BridgeInv
<1>0. ASSUME UNCHANGED <<task, keys, inbox>>, hand' = hand \/ hand = NoCopy PROVE KeyInv'
  <2>1. \A u \in Tasks : /\ Processing(u)' <=> Processing(u)
                         /\ Processing(u) => MsgOf(u)' = MsgOf(u)
    BY <1>0 DEF Processing, MsgOf, CallsSound
  <2> QED BY <1>0, <2>1, CallsStay
<1>1. ASSUME NEW t \in Tasks, UNCHANGED keys, inbox' \in {inbox, TRUE},
             hand' = hand \/ t = Consumer, \A u \in Tasks \ {t} : task'[u] = task[u],
             Processing(t)' <=> Processing(t),
             Processing(t) => hand' = hand /\ task'[t].seen = task[t].seen
      PROVE  KeyInv'
  <2>1. ASSUME NEW u \in Tasks
        PROVE  /\ Processing(u)' <=> Processing(u)
               /\ Processing(u) => task'[u].seen = task[u].seen /\ MsgOf(u)' = MsgOf(u)
    BY <1>1 DEF Processing, MsgOf
  <2> QED BY <1>1, <2>1, CallsStay
<1>2. CASE \/ QueueStep(Q!Start) \/ QueueStep(Q!Shutdown) \/ QueueStep(Q!LoopReturns)
           \/ QueueStep(Q!Fetch) \/ QueueStep(Q!FetchExpires) \/ QueueStep(Q!Take)
           \/ \E e \in Events : QueueStep(Q!Server(e))
  BY <1>0, <1>2
  DEF QueueStep, Q!Start, Q!Shutdown, Q!LoopReturns, Q!Fetch, Q!FetchExpires, Q!Take,
      Q!Server, Q!Deliver, Q!AckExpires, Q!AgeOut, Q!consumer, local
<1>3. CASE ProcessEnds
  <2>1. keys' = {} /\ inbox' = inbox /\ \A t \in Tasks : ~Processing(t)'
    BY <1>3 DEF ProcessEnds, Processing, Idle
  <2> QED BY <2>1 DEF KeyInv, KeyHasCall, CallHasKey, OneCallPerMessage, Prompt
<1>4. CASE \/ \E e \in Events : SaveRow(e) \/ Enqueue(e)
           \/ \E m \in Msgs : RevokeRead(m) \/ RevokeDelete(m)
           \/ (\E c \in Live : AgentDeletes(c)) \/ \E i \in DOMAIN posts : WebhookArrives(i)
  BY <1>0, <1>4
  DEF SaveRow, Enqueue, RevokeRead, RevokeDelete, AgentDeletes, WebhookArrives, queue, local,
      Q!PublishOk, Q!consumer
<1>5. ASSUME NEW k \in keys, KeyExpires(k) PROVE KeyInv'
  <2>1. UNCHANGED <<task, hand, inbox>> /\ keys' \subseteq keys /\ ~Prompt
    BY <1>5 DEF KeyExpires, queue, Prompt
  <2>2. \A u \in Tasks : (Processing(u)' <=> Processing(u)) /\ Key(u)' = Key(u)
    BY <2>1 DEF Processing, Key, MsgOf
  <2> QED BY <2>1, <2>2 DEF KeyInv, KeyHasCall, CallHasKey, OneCallPerMessage, Prompt
<1>6. ASSUME NEW e \in Events, ProcessDirectly(e) \/ DirectReturns(e) PROVE KeyInv'
  <2>0. task \in [Tasks -> TaskState]
    BY DEF TypeOK
  <2>1. /\ e \in Tasks /\ UNCHANGED <<hand, keys, inbox>>
        /\ \A u \in Tasks \ {e} : task'[u] = task[u]
    BY <1>6 DEF ProcessDirectly, DirectReturns, Tasks, queue, Q!PublishError, Q!consumer, TypeOK
  <2>2. ~Processing(e) /\ ~Processing(e)'
    <3>1. task[e].pc \in {"idle", "ok", "error"}
      BY <1>6, <2>1 DEF ProcessDirectly, DirectReturns, DirectCalls
    <3>2. task'[e].pc \in {"begin", "idle"}
      <4>1. CASE ProcessDirectly(e)
        BY <2>0, <2>1, <4>1 DEF ProcessDirectly, TaskState
      <4>2. CASE DirectReturns(e)
        BY <2>0, <2>1, <4>2 DEF DirectReturns, Idle
      <4> QED BY <1>6, <4>1, <4>2
    <3> QED BY <3>1, <3>2 DEF Processing
  <2> QED BY <1>1, <2>1, <2>2
<1>7. CASE Handle \/ HandlerReturns
  <2>0. task \in [Tasks -> TaskState]
    BY DEF TypeOK
  <2>1. /\ Consumer \in Tasks /\ UNCHANGED <<keys, inbox>>
        /\ \A u \in Tasks \ {Consumer} : task'[u] = task[u]
    BY <1>7 DEF Handle, HandlerReturns, Tasks, TypeOK
  <2>2. ~Processing(Consumer) /\ ~Processing(Consumer)'
    <3>1. task[Consumer].pc \in {"idle", "ok", "error"}
      BY <1>7 DEF Handle, HandlerReturns
    <3>2. task'[Consumer].pc \in {"begin", "idle"}
      BY <1>7, <2>1, <2>0 DEF Handle, HandlerReturns, Idle, TaskState
    <3> QED BY <3>1, <3>2 DEF Processing
  <2> QED BY <1>1, <2>1, <2>2
<1>8. ASSUME NEW t \in Tasks, ProcessStep(t) PROVE KeyInv'
  <2>0. UNCHANGED hand /\ DOMAIN task = Tasks /\ task[t] \in TaskState
    BY <1>8
    DEF ProcessStep, ConfigUnread, TryAcquire, AlreadyPosted, FindConversation, TypeOK,
        CreateConversation, CallFails, PostNotFound, Post, PostFilename, Record, Notify, queue
  <2>1. CASE ConfigUnread(t)
    <3>1. ~Processing(t) /\ ~Processing(t)' /\ UNCHANGED <<keys, inbox>>
          /\ \A u \in Tasks \ {t} : task'[u] = task[u]
      BY <2>0, <2>1 DEF ConfigUnread, Processing, TaskState
    <3> QED BY <1>1, <2>0, <3>1
  <2>2. CASE TryAcquire(t)
    <3>1. ~Processing(t) /\ inbox' = inbox /\ \A u \in Tasks \ {t} : task'[u] = task[u]
      BY <2>0, <2>2 DEF TryAcquire, Processing
    <3>2. CASE task' = [task EXCEPT ![t].pc = "ok"] /\ UNCHANGED keys
      <4>1. ~Processing(t)'
        BY <2>0, <3>2 DEF Processing, TaskState
      <4> QED BY <1>1, <2>0, <3>1, <3>2, <4>1
    <3>3. CASE /\ <<inbox, MsgOf(t)>> \notin keys /\ keys' = keys \cup {<<inbox, MsgOf(t)>>}
               /\ task' = [task EXCEPT
                    ![t].pc = IF MsgOf(t) \in FromMe THEN "check" ELSE "find",
                    ![t].seen = inbox]
      <4>1. task'[t].pc \in {"check", "find"} /\ task'[t].seen = inbox
        <5>1. task \in [Tasks -> TaskState] /\ inbox \in BOOLEAN
          BY DEF TypeOK
        <5>2. PICK pc \in {"check", "find"} :
                task' = [task EXCEPT ![t].pc = pc, ![t].seen = inbox]
          BY <3>3
        <5> QED BY <5>1, <5>2, NotesSight
      <4>2. Key(t)' = <<inbox, MsgOf(t)>> /\ Processing(t)'
        BY <2>0, <4>1 DEF Key, MsgOf, Processing
      <4> QED BY <2>0, <3>1, <3>3, <4>1, <4>2, CallBegins
    <3> QED BY <2>2, <3>2, <3>3 DEF TryAcquire
  <2>3. ASSUME Processing(t), Processing(t)', task'[t].seen = task[t].seen,
               \A u \in Tasks \ {t} : task'[u] = task[u],
               UNCHANGED keys, inbox' \in {inbox, TRUE}
        PROVE  KeyInv'
    BY <1>1, <2>0, <2>3
  <2>4. ASSUME Processing(t), NEW outcome \in {"ok", "error"}, Return(t, outcome),
               inbox' = inbox
        PROVE  KeyInv'
    BY <2>0, <2>4, CallEnds
  <2>5. CASE FindConversation(t) \/ CreateConversation(t) \/ Record(t)
    <3>1. /\ Processing(t) /\ Processing(t)' /\ task'[t].seen = task[t].seen
          /\ \A u \in Tasks \ {t} : task'[u] = task[u]
      BY <2>0, <2>5
      DEF FindConversation, CreateConversation, Record, Processing, TaskState
    <3>2. UNCHANGED keys /\ inbox' \in {inbox, TRUE}
      BY <2>5 DEF FindConversation, CreateConversation, Record
    <3> QED BY <2>3, <3>1, <3>2
  <2>6. CASE AlreadyPosted(t)
    <3>1. CASE task' = [task EXCEPT ![t].pc = "find"] /\ UNCHANGED keys
      <4>1. /\ Processing(t) /\ Processing(t)' /\ task'[t].seen = task[t].seen
            /\ \A u \in Tasks \ {t} : task'[u] = task[u]
            /\ inbox' \in {inbox, TRUE} /\ UNCHANGED keys
        BY <2>0, <2>6, <3>1 DEF AlreadyPosted, Processing, TaskState
      <4> QED BY <2>3, <4>1
    <3>2. Processing(t) /\ inbox' = inbox
      BY <2>6 DEF AlreadyPosted, Processing
    <3> QED BY <2>4, <2>6, <3>1, <3>2 DEF AlreadyPosted
  <2>7. CASE CallFails(t) \/ PostNotFound(t) \/ Notify(t)
    <3>1. Processing(t) /\ inbox' = inbox
      BY <2>7 DEF CallFails, PostNotFound, Notify, Processing
    <3> QED BY <2>4, <2>7, <3>1 DEF CallFails, PostNotFound, Notify
  <2>8. CASE Post(t) \/ PostFilename(t)
    <3>1. Processing(t) /\ inbox' = inbox
      BY <2>8 DEF Post, PostFilename, Processing
    <3>2. CASE UNCHANGED keys /\ \E pc \in {"record", "end"} :
                 task' = [task EXCEPT ![t].pc = pc, ![t].post = Len(posts) + 1]
      <4>1. /\ Processing(t)' /\ task'[t].seen = task[t].seen
            /\ \A u \in Tasks \ {t} : task'[u] = task[u]
        BY <2>0, <3>2 DEF Processing, TaskState
      <4> QED BY <2>3, <3>1, <3>2, <4>1
    <3> QED BY <2>4, <2>8, <3>1, <3>2 DEF Post, PostFilename
  <2> QED BY <1>8, <2>1, <2>2, <2>5, <2>6, <2>7, <2>8 DEF ProcessStep
<1>9. CASE UNCHANGED vars
  BY <1>0, <1>9 DEF vars, local, queue
<1> QED BY <1>2, <1>3, <1>4, <1>5, <1>6, <1>7, <1>8, <1>9 DEF Next

LEMMA KeyStarts == Init => DirectCalls /\ KeyInv
BY DEF Init, DirectCalls, KeyInv, KeyHasCall, CallHasKey, OneCallPerMessage, Prompt,
   Processing, Idle, Tasks

(* The invariant of calls and keys holds throughout.                       *)
THEOREM KeysHold == Spec => [](DirectCalls /\ KeyInv)
<1>1. BridgeInv => TypeOK
  BY DEF BridgeInv
<1> QED BY <1>1, KeyStarts, DirectStep, KeyStep, BridgeHolds, PTL DEF Spec

(* No key is left behind, on whatever path a call ends: a failed attempt   *)
(* never turns its retry away.                                             *)
THEOREM KeysHaveCalls == Spec => []KeyHasCall
<1>1. KeyInv => KeyHasCall
  BY DEF KeyInv
<1> QED BY <1>1, KeysHold, PTL

(* With the inbox known and calls that end within the life of a key, no    *)
(* two calls process the same message, whatever handlers, API requests and *)
(* the queue hold copies of it.                                            *)
THEOREM OneCall == InboxReady /\ ~Slow => (Spec => []OneCallPerMessage)
<1> SUFFICES ASSUME InboxReady /\ ~Slow PROVE Spec => []OneCallPerMessage
  OBVIOUS
<1>1. KeyInv => OneCallPerMessage
  BY DEF KeyInv, Prompt
<1> QED BY <1>1, KeysHold, PTL
------------------------------------------------------------------------------
(* Posted once.                                                            *)

(* Until the process is told to stop, copies are only with a loop that is  *)
(* on: no call of the queue's runs under a context that was cancelled.     *)
NotTold ==
  /\ proc # "stopping"
  /\ proc = "down" => loop = "off"
  /\ loop # "on" => pull = 0 /\ buf = <<>> /\ hand = NoCopy
Running == restarts = 0 => NotTold

(* A message the server has was published by an event.                     *)
Published == \A e \in Events :
  stored[e] # "none" => event[e] = "queued" \/ (BrokerFaults /\ event[e] = "direct")

(* Keys outlive calls, nothing that is called fails, and no message of the *)
(* user is revoked.                                                        *)
Faultless ==
  InboxReady /\ ~Slow /\ ~ApiFaults /\ ~RowFaults /\ Revoked \cap FromMe = {}

(* The rows of outgoing messages are saved and stay.                       *)
RowsSaved == \A e \in Events : Msg[e] \in FromMe /\ event[e] # "due" => Msg[e] \in rows
OnlyRevoked == \A m \in Msgs : revoke[m] # "no" => m \in Revoked
(* An outgoing post that can be seen is known to its row, or the call that *)
(* made it is about to tell.                                               *)
PostsKnown == \A i \in DOMAIN posts :
  posts[i].msg \in FromMe /\ posts[i].conv \notin gone =>
    ref[posts[i].msg] = i \/ \E t \in Tasks : task[t].pc = "record" /\ task[t].post = i
(* Whoever is about to post an outgoing message has nothing of it to see.  *)
PosterAlone == \A t \in Tasks, i \in DOMAIN posts :
  /\ task[t].pc \in {"find", "create", "post", "record"} /\ MsgOf(t) \in FromMe
  /\ posts[i].msg = MsgOf(t) /\ posts[i].conv \notin gone
  => task[t].pc = "record" /\ task[t].post = i
PostInv == Faultless /\ restarts = 0 =>
  RowsSaved /\ OnlyRevoked /\ PostsKnown /\ PosterAlone /\ OutgoingPostedOnce

(* Bridged or dead.                                                        *)
OneEventEach == \A e, f \in Events : Msg[e] = Msg[f] => e = f
Dependable == ~ConfigFaults /\ ~BrokerFaults /\ OneEventEach

IsPosted(m) == \E i \in DOMAIN posts : posts[i].msg = m
Told == \A m \in Msgs :
  ref[m] # 0 => m \in notified \/ \E t \in Tasks : task[t].pc = "end" /\ MsgOf(t) = m
Bridged(m) == IsPosted(m) /\ m \in notified
DoneIsBridged ==
  /\ task[Consumer].pc = "ok" => Bridged(MsgOf(Consumer))
  /\ \A e \in handled : Bridged(Msg[e])
BridgedInv == Dependable /\ restarts = 0 => Told /\ DoneIsBridged

(* Revoked is gone.                                                        *)
InTurn == Online = {FALSE} /\ Synthetic = {} /\ OneEventEach /\ ~ApiFaults /\ ~RowFaults
Busy(e) == event[e] = "saved" \/ task[e].pc # "idle"
NoQueue == hand = NoCopy /\ buf = <<>> /\ \A e \in Events : stored[e] = "none"
OneBusy ==
  /\ \A e, f \in Events : Busy(e) /\ Busy(f) => e = f
  /\ \A e \in Events, m \in Msgs : Busy(e) => revoke[m] # "read" /\ Msg[e] \in rows
  /\ \A e \in Events, m \in Msgs : revoke[m] # "no" /\ Msg[e] = m => event[e] # "due" /\ ~Busy(e)
PostsOnce ==
  /\ \A i, j \in DOMAIN posts : posts[i].msg = posts[j].msg => i = j
  /\ \A i \in DOMAIN posts, e \in Events : posts[i].msg = Msg[e] =>
       event[e] = "direct" /\ task[e].pc \notin {"begin", "check", "find", "create", "post"}
SeenIsKnown == \A i \in DOMAIN posts : Visible(i) =>
  ref[posts[i].msg] = i \/ \E e \in Events : task[e].pc = "record" /\ task[e].post = i
TargetIsOwn == \A m \in Msgs : revoke[m] = "read" =>
  target \in DOMAIN posts /\ posts[target].msg = m
TurnInv == InTurn /\ restarts = 0 =>
  NoQueue /\ OneBusy /\ PostsOnce /\ SeenIsKnown /\ TargetIsOwn /\ RevokedIsGone

(* A process that was not told to stop has not been told before.           *)
LEMMA Onwards ==
  ASSUME Q!TypeOK, Running, [Next]_vars, restarts' = 0
  PROVE  restarts = 0 /\ NotTold /\ NotTold' /\ ~ProcessEnds
<1>0. restarts \in Nat /\ (restarts = 0 => NotTold)
  BY QueueAssumption DEF Q!TypeOK, Running
<1>1. CASE Q!Next
  <2>1. CASE Q!Lifecycle
    <3>1. CASE Q!Start \/ Q!LoopReturns
      <4>1. UNCHANGED <<restarts, pull, buf, hand>> /\ proc' # "down"
            /\ pull = 0 /\ buf = <<>> /\ hand = NoCopy
        BY <1>0, <3>1 DEF Q!Start, Q!LoopReturns, Q!server, Q!consumer, NotTold
      <4> QED
        BY <1>0, <3>1, <4>1 DEF NotTold, Q!Start, Q!LoopReturns, ProcessEnds, Q!Exit, Q!Crash
    <3>2. ~Q!Shutdown /\ ~Q!Crash
      BY <1>0 DEF Q!Shutdown, Q!Crash
    <3>3. ~Q!Exit
      BY <1>0 DEF Q!Exit, NotTold
    <3> QED BY <2>1, <3>1, <3>2, <3>3 DEF Q!Lifecycle
  <2>2. CASE \E e \in Events : Q!Publish(e) \/ Q!Server(e)
    <3>1. UNCHANGED <<proc, loop, restarts, hand>>
          /\ (UNCHANGED <<pull, buf>> \/ pull > 0)
      BY <2>2
      DEF Q!Publish, Q!Server, Q!PublishOk, Q!PublishError, Q!Deliver, Q!AckExpires, Q!AgeOut,
          Q!consumer
    <3> QED BY <1>0, <3>1 DEF NotTold, ProcessEnds, Q!Exit, Q!Crash
  <2>3. CASE Q!Consume \/ Q!Handle
    <3>1. UNCHANGED <<proc, loop, restarts>>
          /\ (loop = "on" \/ pull > 0 \/ buf # <<>> \/ hand # NoCopy)
      BY <2>3
      DEF Q!Consume, Q!Handle, Q!Fetch, Q!FetchExpires, Q!Take, Q!HandlerSucceeds,
          Q!HandlerFails, Q!HandlerGivesUp
    <3> QED BY <1>0, <3>1 DEF NotTold, ProcessEnds, Q!Exit, Q!Crash
  <2> QED BY <1>1, <2>1, <2>2, <2>3 DEF Q!Next
<1>2. CASE UNCHANGED Q!vars
  BY <1>0, <1>2 DEF Q!vars, Q!consumer, NotTold, ProcessEnds, Q!Exit, Q!Crash
<1> QED BY <1>1, <1>2, QueueStepped

LEMMA RunningStep == TypeOK /\ Running /\ [Next]_vars => Running'
BY Onwards DEF TypeOK, Running

(* In one life no call runs under a context that was cancelled.            *)
LEMMA NotCancelled ==
  ASSUME NotTold, CallsSound, NEW t \in Tasks, task[t].pc # "idle"
  PROVE  ~Cancelled(t) /\ (MayFail(t) => ApiFaults)
BY DEF NotTold, CallsSound, Cancelled, MayFail

(* What the server has never had it gets from a publish alone.             *)
LEMMA StaysUnknown ==
  ASSUME Q!TypeOK, [Next]_vars, NEW e \in Events, stored[e] = "none", stored'[e] # "none"
  PROVE  Enqueue(e) \/ (ProcessDirectly(e) /\ BrokerFaults)
<1>0. stored \in [Events -> {"none", "ready", "inflight", "removed", "aged"}]
  BY DEF Q!TypeOK
<1>1. CASE \E f \in Events : Enqueue(f) \/ ProcessDirectly(f)
  BY ZenonT(60), <1>0, <1>1 DEF Enqueue, ProcessDirectly, Q!PublishOk, Q!PublishError, queue
<1>2. CASE \/ QueueStep(Q!Start) \/ QueueStep(Q!Shutdown) \/ QueueStep(Q!LoopReturns)
           \/ QueueStep(Q!Fetch) \/ QueueStep(Q!FetchExpires) \/ QueueStep(Q!Take)
           \/ \E f \in Events : QueueStep(Q!Server(f))
  BY <1>0, <1>2
  DEF QueueStep, Q!Start, Q!Shutdown, Q!LoopReturns, Q!Fetch, Q!FetchExpires, Q!Take,
      Q!Server, Q!Deliver, Q!AckExpires, Q!AgeOut, Q!Waiting, Q!server
<1>3. CASE ProcessEnds \/ HandlerReturns
  BY <1>0, <1>3
  DEF ProcessEnds, Q!Exit, Q!Crash, Q!server, HandlerReturns, Q!HandlerSucceeds,
      Q!HandlerFails, Q!HandlerGivesUp, Q!Ack, Q!Nak, Q!Waiting
<1>4. CASE UNCHANGED queue
  BY <1>4 DEF queue
<1> QED
  BY <1>1, <1>2, <1>3, <1>4
  DEF Next, SaveRow, DirectReturns, Handle, KeyExpires, ProcessStep, ConfigUnread,
      TryAcquire, AlreadyPosted, FindConversation, CreateConversation, CallFails,
      PostNotFound, Post, PostFilename, Record, Notify, RevokeRead, RevokeDelete,
      AgentDeletes, WebhookArrives, vars

(* Who changes how far an event is, and how.                               *)
LEMMA EventMoves ==
  ASSUME TypeOK, [Next]_vars, NEW e \in Events, event'[e] # event[e]
  PROVE  \/ SaveRow(e) /\ event[e] = "due" /\ event'[e] = "saved"
         \/ Enqueue(e) /\ event[e] = "saved" /\ event'[e] = "queued"
         \/ ProcessDirectly(e) /\ event[e] = "saved" /\ event'[e] = "direct"
         \/ ProcessEnds /\ event[e] = "saved" /\ event'[e] = "lost"
<1>0. DOMAIN event = Events
  BY DEF TypeOK
<1>1. CASE \E f \in Events : SaveRow(f) \/ Enqueue(f) \/ ProcessDirectly(f)
  BY ZenonT(60), <1>0, <1>1 DEF SaveRow, Enqueue, ProcessDirectly
<1>2. CASE ProcessEnds
  BY <1>0, <1>2 DEF ProcessEnds
<1>3. CASE UNCHANGED event
  BY <1>3
<1> QED
  BY <1>1, <1>2, <1>3
  DEF Next, QueueStep, DirectReturns, Handle, HandlerReturns, KeyExpires, ProcessStep,
      ConfigUnread, TryAcquire, AlreadyPosted, FindConversation, CreateConversation,
      CallFails, PostNotFound, Post, PostFilename, Record, Notify, RevokeRead,
      RevokeDelete, AgentDeletes, WebhookArrives, vars, local

LEMMA PublishedStep == TypeOK /\ Published /\ [Next]_vars => Published'
<1> SUFFICES ASSUME TypeOK, Published, [Next]_vars, NEW e \in Events, stored'[e] # "none"
             PROVE  event'[e] = "queued" \/ (BrokerFaults /\ event'[e] = "direct")
  BY DEF Published
<1>1. CASE stored[e] = "none"
  <2>1. Enqueue(e) \/ (ProcessDirectly(e) /\ BrokerFaults)
    BY <1>1, StaysUnknown DEF TypeOK
  <2> QED BY <2>1 DEF Enqueue, ProcessDirectly, TypeOK
<1>2. CASE stored[e] # "none"
  BY <1>2, EventMoves DEF Published
<1> QED BY <1>1, <1>2

(* A call is about a message whose event has gone out.                     *)
LEMMA AboutEvent ==
  ASSUME TypeOK, CallsSound, DirectCalls, Published, Q!CopiesAccounted,
         NEW t \in Tasks, task[t].pc # "idle"
  PROVE  /\ t = Consumer => /\ hand.msg \in Events /\ stored[hand.msg] # "none"
                            /\ MsgOf(t) = Msg[hand.msg]
         /\ t # Consumer => t \in Events /\ event[t] = "direct" /\ MsgOf(t) = Msg[t]
         /\ \E e \in Events : Msg[e] = MsgOf(t) /\ event[e] \in {"queued", "direct"}
<1>1. CASE t = Consumer
  <2>1. hand # NoCopy
    BY <1>1 DEF CallsSound
  <2>2. hand.msg \in Events /\ hand.n \in 1 .. MaxRetries /\ hand.n \in attempts[hand.msg]
    BY <2>1 DEF TypeOK, Q!TypeOK, Q!Copy, Q!CopiesAccounted
  <2>3. hand.n <= dc[hand.msg] /\ dc[hand.msg] \in Nat
    BY <2>2, QueueAssumption DEF TypeOK, Q!TypeOK, Q!CopiesAccounted
  <2>4. stored[hand.msg] # "none"
    BY <2>2, <2>3 DEF Q!CopiesAccounted
  <2> QED BY <1>1, <2>2, <2>4 DEF MsgOf, Published
<1>2. CASE t # Consumer
  BY <1>2 DEF Tasks, MsgOf, DirectCalls
<1> QED BY <1>1, <1>2

(* The queue inside the bridge keeps account of its deliveries and copies. *)
THEOREM QueueAccounts == Spec => []Q!CopiesAccounted
<1>1. QP!Spec => []QP!CopiesAccounted
  BY QP!Accounted, QueueAssumed
<1>2. Q!Spec => QP!Spec
  <2>1. Q!Init => QP!Init
    BY SameQueue
  <2>2. [Q!Next]_(Q!vars) => [QP!Next]_(QP!vars)
    BY SameQueue
  <2> QED BY <2>1, <2>2, PTL DEF Q!Spec, QP!Spec
<1>3. QP!CopiesAccounted => Q!CopiesAccounted
  BY DEF Q!CopiesAccounted, QP!CopiesAccounted
<1> QED BY <1>1, <1>2, <1>3, RunsTheQueue, PTL

Base == /\ BridgeInv /\ RefIsOwn /\ DirectCalls /\ KeyInv
        /\ Running /\ Published /\ Q!CopiesAccounted

(* What every proof below builds on holds throughout.                      *)
THEOREM BaseHolds == Spec => []Base
<1>1. Init => Running /\ Published
  BY DEF Init, Q!Init, Running, NotTold, Published
<1>2. BridgeInv => TypeOK
  BY DEF BridgeInv
<1>3. Spec => [](Running /\ Published)
  BY <1>1, <1>2, RunningStep, PublishedStep, BridgeHolds, PTL DEF Spec
<1> QED
  BY <1>3, BridgeHolds, RefsAreOwn, KeysHold, QueueAccounts, PTL DEF Base

(* A row goes only with its revocation, and a revocation is only begun.    *)
LEMMA RowsStay ==
  ASSUME [Next]_vars, NEW m \in rows, m \notin rows'
  PROVE  RevokeDelete(m)
<1>1. ASSUME NEW n \in Msgs, RevokeDelete(n) PROVE RevokeDelete(m)
  <2>1. rows' = rows \ {n} \/ rows' = rows
    BY <1>1 DEF RevokeDelete
  <2> QED BY <1>1, <2>1
<1>2. CASE rows \subseteq rows'
  BY <1>2
<1> QED
  BY <1>1, <1>2
  DEF Next, QueueStep, ProcessEnds, SaveRow, Enqueue, ProcessDirectly, DirectReturns, Handle,
      HandlerReturns, KeyExpires, ProcessStep, ConfigUnread, TryAcquire, AlreadyPosted,
      FindConversation, CreateConversation, CallFails, PostNotFound, Post, PostFilename,
      Record, Notify, RevokeRead, AgentDeletes, WebhookArrives, vars, local

LEMMA RevokeMoves ==
  ASSUME TypeOK, [Next]_vars, NEW m \in Msgs, revoke'[m] # revoke[m]
  PROVE  \/ RevokeRead(m) /\ revoke[m] = "no"
         \/ (RevokeDelete(m) \/ ProcessEnds) /\ revoke[m] = "read"
            /\ revoke'[m] \in {"done", "left"}
<1>0. revoke \in [Msgs -> {"no", "read", "done", "left"}]
  BY DEF TypeOK
<1>1. CASE \E n \in Msgs : RevokeRead(n) \/ RevokeDelete(n)
  BY <1>0, <1>1 DEF RevokeRead, RevokeDelete
<1>2. CASE ProcessEnds
  BY <1>0, <1>2 DEF ProcessEnds
<1>3. CASE UNCHANGED revoke
  BY <1>3
<1> QED
  BY <1>1, <1>2, <1>3
  DEF Next, QueueStep, SaveRow, Enqueue, ProcessDirectly, DirectReturns, Handle,
      HandlerReturns, KeyExpires, ProcessStep, ConfigUnread, TryAcquire, AlreadyPosted,
      FindConversation, CreateConversation, CallFails, PostNotFound, Post, PostFilename,
      Record, Notify, AgentDeletes, WebhookArrives, vars, local, revocation

LEMMA SavedStep ==
  ASSUME Faultless, TypeOK, RowsSaved, OnlyRevoked, [Next]_vars
  PROVE  RowsSaved' /\ OnlyRevoked'
<1>1. ASSUME NEW m \in Msgs, revoke'[m] # "no" PROVE m \in Revoked
  BY <1>1, RevokeMoves DEF OnlyRevoked, RevokeRead
<1>2. ASSUME NEW e \in Events, Msg[e] \in FromMe, event'[e] # "due" PROVE Msg[e] \in rows'
  <2>1. CASE event[e] = "due"
    <3>1. SaveRow(e)
      BY <1>2, <2>1, EventMoves
    <3> QED BY <3>1 DEF SaveRow, Faultless
  <2>2. CASE event[e] # "due"
    <3>1. Msg[e] \in rows
      BY <1>2, <2>2 DEF RowsSaved
    <3>2. ~RevokeDelete(Msg[e])
      BY <1>2, BridgeAssumption DEF RevokeDelete, OnlyRevoked, Faultless
    <3> QED BY <3>1, <3>2, RowsStay
  <2> QED BY <2>1, <2>2
<1> QED BY <1>1, <1>2 DEF RowsSaved, OnlyRevoked

Writing(t) == task[t].pc \in {"find", "create", "post", "record"}

(* Steps that post nothing and record nothing.                             *)
LEMMA PostFrame ==
  ASSUME Faultless, PostsKnown, PosterAlone, OutgoingPostedOnce, restarts = 0,
         posts' = posts, gone \subseteq gone',
         \A i \in DOMAIN posts :
           /\ ref[posts[i].msg] = i /\ posts[i].msg \in FromMe /\ posts[i].conv \notin gone'
           => ref'[posts[i].msg] = i,
         \A t \in Tasks : task[t].pc = "record" =>
           task'[t].pc = "record" /\ task'[t].post = task[t].post,
         \A t \in Tasks : Writing(t)' => Writing(t) /\ MsgOf(t)' = MsgOf(t)
  PROVE  PostsKnown' /\ PosterAlone' /\ OutgoingPostedOnce'
<1>1. PostsKnown'
  BY DEF PostsKnown
<1>2. PosterAlone'
  BY DEF PosterAlone, Writing
<1>3. OutgoingPostedOnce'
  BY DEF OutgoingPostedOnce
<1> QED BY <1>1, <1>2, <1>3

LEMMA PostStep == Base /\ PostInv /\ [Next]_vars => PostInv'
<1> SUFFICES ASSUME Base, Faultless, restarts' = 0, PostInv, [Next]_vars PROVE PostInv'
  BY DEF PostInv, Faultless
<1>a. restarts = 0 /\ NotTold /\ ~ProcessEnds
  BY Onwards DEF Base, BridgeInv, TypeOK
<1>0. /\ TypeOK /\ CallsSound /\ RefIsOwn /\ KeyInv /\ DirectCalls /\ Published
      /\ Q!CopiesAccounted /\ restarts = 0 /\ RowsSaved /\ OnlyRevoked
      /\ PostsKnown /\ PosterAlone /\ OutgoingPostedOnce /\ OneCallPerMessage
  BY <1>a DEF Base, BridgeInv, KeyInv, Prompt, PostInv, Faultless
<1>1. RowsSaved' /\ OnlyRevoked'
  BY <1>0, SavedStep
<1>2. DOMAIN ref = Msgs /\ task \in [Tasks -> TaskState] /\ \A i \in DOMAIN posts : i # 0
  BY <1>0 DEF TypeOK
<1> SUFFICES PostsKnown' /\ PosterAlone' /\ OutgoingPostedOnce'
  BY <1>1 DEF PostInv
<1>4. ASSUME UNCHANGED <<task, posts>>, gone \subseteq gone', hand' = hand \/ hand = NoCopy,
             \A i \in DOMAIN posts :
               /\ ref[posts[i].msg] = i /\ posts[i].msg \in FromMe /\ posts[i].conv \notin gone'
               => ref'[posts[i].msg] = i
      PROVE  PostsKnown' /\ PosterAlone' /\ OutgoingPostedOnce'
  <2>1. \A t \in Tasks : Writing(t)' => Writing(t) /\ MsgOf(t)' = MsgOf(t)
    BY <1>0, <1>4 DEF Writing, MsgOf, CallsSound
  <2> QED BY <1>0, <1>4, <2>1, PostFrame
<1>5. CASE \/ QueueStep(Q!Start) \/ QueueStep(Q!Shutdown) \/ QueueStep(Q!LoopReturns)
           \/ QueueStep(Q!Fetch) \/ QueueStep(Q!FetchExpires) \/ QueueStep(Q!Take)
           \/ \E e \in Events : QueueStep(Q!Server(e))
  <2>1. UNCHANGED <<task, posts, ref, gone>> /\ (hand' = hand \/ hand = NoCopy)
    BY <1>5
    DEF QueueStep, Q!Start, Q!Shutdown, Q!LoopReturns, Q!Fetch, Q!FetchExpires, Q!Take,
        Q!Server, Q!Deliver, Q!AckExpires, Q!AgeOut, Q!consumer, local, chatwoot
  <2> QED BY <1>4, <2>1
<1>6. CASE \/ \E e \in Events : SaveRow(e) \/ Enqueue(e)
           \/ (\E m \in Msgs : RevokeRead(m))
           \/ (\E k \in keys : KeyExpires(k)) \/ \E i \in DOMAIN posts : WebhookArrives(i)
  <2>1. UNCHANGED <<task, posts, ref, gone, hand>>
    BY <1>6
    DEF SaveRow, Enqueue, RevokeRead, KeyExpires, WebhookArrives, queue, chatwoot,
        Q!PublishOk, Q!consumer
  <2> QED BY <1>4, <2>1
<1>7. CASE \E c \in Live : AgentDeletes(c)
  <2>1. UNCHANGED <<task, posts, ref, hand>> /\ gone \subseteq gone'
    BY <1>7 DEF AgentDeletes, local, queue
  <2> QED BY <1>4, <2>1
<1>8. ASSUME NEW m \in Msgs, RevokeDelete(m)
      PROVE  PostsKnown' /\ PosterAlone' /\ OutgoingPostedOnce'
  <2>1. UNCHANGED <<task, posts, gone, hand>> /\ m \notin FromMe
    BY <1>0, <1>8 DEF RevokeDelete, queue, OnlyRevoked, Faultless
  <2>2. \A n \in Msgs \ {m} :
          ref'[n] = ref[n] \/ (ref[n] # 0 /\ posts[ref[n]].conv \in gone)
    BY <1>2, <1>8 DEF RevokeDelete
  <2>3. \A i \in DOMAIN posts :
          /\ ref[posts[i].msg] = i /\ posts[i].msg \in FromMe /\ posts[i].conv \notin gone'
          => ref'[posts[i].msg] = i
    BY <2>1, <2>2, BridgeAssumption
  <2> QED BY <1>4, <2>1, <2>3
<1>9. ASSUME NEW t \in Tasks, UNCHANGED <<posts, gone>>,
             hand' = hand \/ (t = Consumer /\ ~Writing(t)'),
             \A u \in Tasks \ {t} : task'[u] = task[u], task[t].pc # "record",
             Writing(t)' => Writing(t),
             \A i \in DOMAIN posts :
               /\ ref[posts[i].msg] = i /\ posts[i].msg \in FromMe /\ posts[i].conv \notin gone'
               => ref'[posts[i].msg] = i
      PROVE  PostsKnown' /\ PosterAlone' /\ OutgoingPostedOnce'
  <2>1. \A u \in Tasks : Writing(u)' => Writing(u) /\ MsgOf(u)' = MsgOf(u)
    BY <1>9 DEF Writing, MsgOf
  <2> QED BY <1>0, <1>9, <2>1, PostFrame
<1>10. ASSUME NEW e \in Events, ProcessDirectly(e) \/ DirectReturns(e)
       PROVE  PostsKnown' /\ PosterAlone' /\ OutgoingPostedOnce'
  <2>1. /\ e \in Tasks /\ UNCHANGED <<posts, gone, ref, hand>>
        /\ \A u \in Tasks \ {e} : task'[u] = task[u]
    BY <1>2, <1>10
    DEF ProcessDirectly, DirectReturns, Tasks, chatwoot, queue, Q!PublishError, Q!consumer
  <2>2. task'[e].pc \in {"begin", "idle"}
    <3>1. CASE ProcessDirectly(e)
      BY <1>2, <2>1, <3>1 DEF ProcessDirectly, TaskState
    <3>2. CASE DirectReturns(e)
      BY <1>2, <2>1, <3>2 DEF DirectReturns, Idle
    <3> QED BY <1>10, <3>1, <3>2
  <2>3. task[e].pc # "record"
    BY <1>0, <1>10 DEF ProcessDirectly, DirectReturns, DirectCalls
  <2> QED BY <1>9, <2>1, <2>2, <2>3 DEF Writing
<1>11. CASE Handle \/ HandlerReturns
  <2>1. /\ Consumer \in Tasks /\ UNCHANGED <<posts, gone, ref>>
        /\ \A u \in Tasks \ {Consumer} : task'[u] = task[u]
        /\ task[Consumer].pc \in {"idle", "ok", "error"}
    BY <1>2, <1>11 DEF Handle, HandlerReturns, Tasks, chatwoot
  <2>2. task'[Consumer].pc \in {"begin", "idle"}
    BY <1>2, <1>11, <2>1 DEF Handle, HandlerReturns, Idle, TaskState
  <2> QED BY <1>9, <2>1, <2>2 DEF Writing
<1>12. ASSUME NEW t \in Tasks, ProcessStep(t)
       PROVE  PostsKnown' /\ PosterAlone' /\ OutgoingPostedOnce'
  <2>a. ~MayFail(t) /\ ~Cancelled(t)
    <3>1. task[t].pc # "idle"
      BY <1>12
      DEF ProcessStep, ConfigUnread, TryAcquire, AlreadyPosted, FindConversation,
          CreateConversation, CallFails, PostNotFound, Post, PostFilename, Record, Notify
    <3> QED BY <1>0, <1>a, <3>1, NotCancelled DEF Faultless
  <2>0. /\ UNCHANGED <<hand, gone>> /\ task[t] \in TaskState
        /\ ~CallFails(t) /\ ~PostFilename(t) /\ MsgOf(t)' = MsgOf(t)
        /\ \A u \in Tasks : MsgOf(u)' = MsgOf(u)
    <3>1. UNCHANGED <<hand, gone>> /\ ~CallFails(t) /\ ~PostFilename(t)
      BY <2>a, <1>12
      DEF ProcessStep, ConfigUnread, TryAcquire, AlreadyPosted, FindConversation,
          CreateConversation, CallFails, PostNotFound, Post, PostFilename, Record, Notify,
          queue, chatwoot
    <3> QED BY <1>2, <3>1 DEF MsgOf
  <2>1. CASE ConfigUnread(t) \/ TryAcquire(t) \/ FindConversation(t)
             \/ CreateConversation(t) \/ Notify(t)
    <3>1. UNCHANGED <<posts, ref>> /\ \A u \in Tasks \ {t} : task'[u] = task[u]
      BY <1>2, <2>1
      DEF ConfigUnread, TryAcquire, FindConversation, CreateConversation, Notify, Return,
          chatwoot
    <3>2. CASE ~TryAcquire(t)
      <4>1. task[t].pc # "record" /\ (Writing(t)' => Writing(t))
        BY <1>2, <2>0, <2>1, <3>2
        DEF ConfigUnread, FindConversation, CreateConversation, Notify, Return, Idle,
            Writing, TaskState
      <4> QED BY <1>9, <2>0, <3>1, <4>1
    <3>3. CASE TryAcquire(t)
      <4>1. task[t].pc = "begin" /\ (Writing(t)' => MsgOf(t) \notin FromMe)
            /\ task'[t].pc # "record"
        BY <1>2, <2>0, <3>3 DEF TryAcquire, Writing, TaskState
      <4>2. PostsKnown'
        BY <1>0, <2>0, <3>1, <4>1 DEF PostsKnown
      <4>3. PosterAlone'
        BY <1>0, <2>0, <3>1, <4>1 DEF PosterAlone, Writing
      <4>4. OutgoingPostedOnce'
        BY <1>0, <3>1 DEF OutgoingPostedOnce
      <4> QED BY <4>2, <4>3, <4>4
    <3> QED BY <3>2, <3>3
  <2>2. CASE AlreadyPosted(t)
    <3>1. UNCHANGED <<posts, ref>> /\ \A u \in Tasks \ {t} : task'[u] = task[u]
      BY <1>2, <2>2 DEF AlreadyPosted, Return, chatwoot
    <3>2. CASE Return(t, "ok")
      <4>1. task[t].pc # "record" /\ ~Writing(t)'
        BY <1>2, <2>2, <3>2 DEF AlreadyPosted, Return, Idle, Writing
      <4> QED BY <1>9, <2>0, <3>1, <4>1
    <3>3. CASE ref[MsgOf(t)] = 0 /\ task' = [task EXCEPT ![t].pc = "find"]
      <4>1. task[t].pc = "check" /\ task'[t].pc = "find"
        BY <1>2, <2>0, <2>2, <3>3 DEF AlreadyPosted, TaskState
      <4>2. ASSUME NEW i \in DOMAIN posts, posts[i].msg = MsgOf(t), posts[i].msg \in FromMe,
                   posts[i].conv \notin gone
            PROVE  FALSE
        <5>1. PICK u \in Tasks : task[u].pc = "record" /\ task[u].post = i
          BY <1>0, <1>2, <3>3, <4>2 DEF PostsKnown
        <5>2. MsgOf(u) = MsgOf(t) /\ u # t /\ Processing(u) /\ Processing(t)
          BY <1>0, <4>1, <4>2, <5>1 DEF CallsSound, Processing
        <5> QED BY <1>0, <5>2 DEF OneCallPerMessage
      <4>3. PostsKnown'
        BY <1>0, <2>0, <3>1, <4>1 DEF PostsKnown
      <4>4. PosterAlone'
        BY <1>0, <2>0, <3>1, <4>1, <4>2 DEF PosterAlone
      <4>5. OutgoingPostedOnce'
        BY <1>0, <3>1 DEF OutgoingPostedOnce
      <4> QED BY <4>3, <4>4, <4>5
    <3> QED BY <2>a, <2>2, <3>2, <3>3 DEF AlreadyPosted, Faultless
  <2>3. CASE PostNotFound(t)
    <3>1. /\ UNCHANGED posts /\ \A u \in Tasks \ {t} : task'[u] = task[u]
          /\ task[t].pc # "record" /\ ~Writing(t)'
      BY <1>2, <2>3 DEF PostNotFound, Return, Idle, Writing, chatwoot
    <3>2. \A m \in Msgs : ref'[m] = ref[m] \/ (ref[m] # 0 /\ posts[ref[m]].conv \in gone)
      BY <1>2, <2>3 DEF PostNotFound, ConversationNotFound
    <3>3. \A i \in DOMAIN posts :
            /\ ref[posts[i].msg] = i /\ posts[i].msg \in FromMe /\ posts[i].conv \notin gone'
            => ref'[posts[i].msg] = i
      BY <2>0, <3>2, BridgeAssumption
    <3> QED BY <1>9, <2>0, <3>1, <3>3
  <2>4. CASE Post(t)
    <3> DEFINE n == Len(posts) + 1
    <3>0. posts \in Seq([msg : Msgs, conv : 1 .. convs, waid : BOOLEAN])
      BY <1>0 DEF TypeOK
    <3>1. /\ posts' = Append(posts, [msg |-> MsgOf(t), conv |-> task[t].conv,
                                     waid |-> MsgOf(t) \notin Media])
          /\ task' = [task EXCEPT ![t].pc = "record", ![t].post = n]
          /\ task[t].pc = "post" /\ task[t].conv \notin gone /\ UNCHANGED ref
      BY <2>a, <2>4 DEF Post, NewPost
    <3>2. n \in Nat /\ DOMAIN posts = 1 .. Len(posts) /\ DOMAIN posts' = 1 .. n
          /\ posts'[n].msg = MsgOf(t) /\ posts'[n].conv = task[t].conv
          /\ \A i \in DOMAIN posts : i # n /\ posts'[i] = posts[i]
      BY <3>0, <3>1
    <3>3. /\ \A u \in Tasks \ {t} : task'[u] = task[u]
          /\ task'[t].pc = "record" /\ task'[t].post = n
      <4>1. n \in Nat
        BY <3>2
      <4> HIDE DEF n
      <4> QED BY <1>2, <3>1, <4>1, NotesPost
    <3>4. \A i \in DOMAIN posts' : i \in DOMAIN posts \/ i = n
      BY <3>2
    <3>5. \A i \in DOMAIN posts : posts[i].msg = MsgOf(t) /\ posts[i].msg \in FromMe
            => posts[i].conv \in gone
      BY <1>0, <3>1 DEF PosterAlone
    <3> HIDE DEF n
    <3>6. PostsKnown'
      <4> SUFFICES ASSUME NEW i \in DOMAIN posts', posts'[i].msg \in FromMe,
                          posts'[i].conv \notin gone
                   PROVE  ref[posts'[i].msg] = i \/ \E u \in Tasks :
                            task'[u].pc = "record" /\ task'[u].post = i
        BY <2>0, <3>1 DEF PostsKnown
      <4>1. CASE i = n
        BY <3>3, <4>1
      <4>2. CASE i \in DOMAIN posts
        <5>1. posts'[i] = posts[i] /\ task[t].pc # "record"
          BY <3>1, <3>2, <4>2
        <5> QED BY <1>0, <3>3, <4>2, <5>1 DEF PostsKnown
      <4> QED BY <3>4, <4>1, <4>2
    <3>7. PosterAlone'
      <4>1. ASSUME NEW u \in Tasks, u # t, task[u].pc \in {"find", "create", "post", "record"}
            PROVE  MsgOf(u) # MsgOf(t)
        BY <1>0, <3>1, <4>1 DEF OneCallPerMessage, Processing
      <4>2. ASSUME NEW u \in Tasks, NEW i \in DOMAIN posts',
                   task'[u].pc \in {"find", "create", "post", "record"}, MsgOf(u) \in FromMe,
                   posts'[i].msg = MsgOf(u), posts'[i].conv \notin gone
            PROVE  task'[u].pc = "record" /\ task'[u].post = i
        <5>1. CASE u = t
          BY <3>2, <3>3, <3>4, <3>5, <4>2, <5>1
        <5>2. CASE u # t
          <6>1. i \in DOMAIN posts /\ posts'[i] = posts[i] /\ task'[u] = task[u]
            BY <3>2, <3>3, <3>4, <4>1, <4>2, <5>2
          <6> QED BY <1>0, <4>2, <6>1 DEF PosterAlone
        <5> QED BY <5>1, <5>2
      <4> QED BY <2>0, <4>2 DEF PosterAlone
    <3>8. OutgoingPostedOnce'
      <4>1. ASSUME NEW i \in DOMAIN posts, posts[i].msg = posts'[n].msg,
                   posts[i].msg \in FromMe, posts[i].conv = posts'[n].conv
            PROVE  FALSE
        BY <3>1, <3>2, <3>5, <4>1
      <4>2. ASSUME NEW i \in DOMAIN posts', NEW j \in DOMAIN posts',
                   posts'[i].msg = posts'[j].msg, posts'[i].msg \in FromMe,
                   posts'[i].conv = posts'[j].conv
            PROVE  i = j
        <5>1. CASE i \in DOMAIN posts /\ j \in DOMAIN posts
          BY <1>0, <3>2, <4>2, <5>1 DEF OutgoingPostedOnce
        <5>2. CASE i = n \/ j = n
          BY <3>2, <3>4, <4>1, <4>2, <5>2
        <5> QED BY <3>4, <5>1, <5>2
      <4> QED BY <4>2 DEF OutgoingPostedOnce
    <3> QED BY <3>6, <3>7, <3>8
  <2>5. CASE Record(t)
    <3>1. /\ task[t].pc = "record" /\ UNCHANGED posts
          /\ \A u \in Tasks \ {t} : task'[u] = task[u]
          /\ task'[t].pc = "end"
      BY <1>2, <2>0, <2>5 DEF Record, chatwoot, TaskState
    <3>2. posts[task[t].post].msg = MsgOf(t) /\ MsgOf(t) \in Msgs
      BY <1>0, <3>1, MsgOfTyped DEF CallsSound
    <3>3. MsgOf(t) \in FromMe => ref' = [ref EXCEPT ![MsgOf(t)] = task[t].post]
      <4>1. ASSUME MsgOf(t) \in FromMe PROVE MsgOf(t) \in rows
        <5>1. \E e \in Events : Msg[e] = MsgOf(t) /\ event[e] \in {"queued", "direct"}
          BY <1>0, <3>1, AboutEvent
        <5> QED BY <1>0, <4>1, <5>1 DEF RowsSaved
      <4> QED BY <2>a, <2>5, <4>1 DEF Record, Faultless
    <3>4. ref' = ref \/ ref' = [ref EXCEPT ![MsgOf(t)] = task[t].post]
      BY <2>5 DEF Record
    <3>5. PostsKnown'
      <4> SUFFICES ASSUME NEW i \in DOMAIN posts, posts[i].msg \in FromMe,
                          posts[i].conv \notin gone
                   PROVE  ref'[posts[i].msg] = i \/ \E u \in Tasks :
                            task'[u].pc = "record" /\ task'[u].post = i
        BY <2>0, <3>1 DEF PostsKnown
      <4>1. CASE posts[i].msg = MsgOf(t)
        <5>1. task[t].post = i
          BY <1>0, <3>1, <4>1 DEF PosterAlone
        <5> QED BY <1>2, <3>2, <3>3, <4>1, <5>1
      <4>2. CASE posts[i].msg # MsgOf(t)
        <5>1. ref'[posts[i].msg] = ref[posts[i].msg]
          BY <1>2, <3>4, <4>2, BridgeAssumption
        <5>2. task[t].post # i
          BY <3>2, <4>2
        <5> QED BY <1>0, <3>1, <5>1, <5>2 DEF PostsKnown
      <4> QED BY <4>1, <4>2
    <3>6. PosterAlone'
      BY <1>0, <2>0, <3>1 DEF PosterAlone
    <3>7. OutgoingPostedOnce'
      BY <1>0, <3>1 DEF OutgoingPostedOnce
    <3> QED BY <3>5, <3>6, <3>7
  <2> QED
    BY <1>12, <2>0, <2>1, <2>2, <2>3, <2>4, <2>5 DEF ProcessStep
<1>13. CASE UNCHANGED vars
  <2>1. UNCHANGED <<task, posts, ref, gone, hand>>
    BY <1>13 DEF vars, local, queue, chatwoot
  <2> QED BY <1>4, <2>1
<1> QED
  BY <1>a, <1>5, <1>6, <1>7, <1>8, <1>10, <1>11, <1>12, <1>13 DEF Next

(* When calls and rows do not fail and keys outlive calls, in one life a   *)
(* message the user wrote appears once in a conversation, however its      *)
(* event is repeated, its delivery expires, or a publish that failed had   *)
(* stored it all the same.                                                 *)
THEOREM PostedOnce == Faultless => (Spec => []OutgoingPostedOnce)
<1> SUFFICES ASSUME Faultless PROVE Spec => []OutgoingPostedOnce
  OBVIOUS
<1>1. Init => PostInv
  BY DEF Init, PostInv, RowsSaved, OnlyRevoked, PostsKnown, PosterAlone, OutgoingPostedOnce
<1>2. PostInv => OutgoingPostedOnce
  BY DEF PostInv, OutgoingPostedOnce
<1> QED BY <1>1, <1>2, PostStep, BaseHolds, PTL DEF Spec

------------------------------------------------------------------------------
(* Bridged or dead.                                                        *)

(* No other call is about the message the queue's call is about.           *)
LEMMA QueueCallAlone ==
  ASSUME Dependable, TypeOK, CallsSound, DirectCalls, Published, Q!CopiesAccounted,
         task[Consumer].pc # "idle", NEW t \in Tasks, task[t].pc # "idle",
         MsgOf(t) = MsgOf(Consumer)
  PROVE  t = Consumer
<1> SUFFICES ASSUME t # Consumer PROVE FALSE
  OBVIOUS
<1>1. hand.msg \in Events /\ stored[hand.msg] # "none" /\ MsgOf(Consumer) = Msg[hand.msg]
  BY AboutEvent DEF Tasks
<1>2. t \in Events /\ event[t] = "direct" /\ MsgOf(t) = Msg[t]
  BY AboutEvent
<1>3. t = hand.msg
  BY <1>1, <1>2 DEF Dependable, OneEventEach
<1> QED BY <1>1, <1>2, <1>3 DEF Published, Dependable

(* Steps that make no call end and no row refer to a new post.             *)
LEMMA BridgeFrame ==
  ASSUME Told, DoneIsBridged, handled' = handled, notified \subseteq notified',
         \A i \in DOMAIN posts : i \in DOMAIN posts' /\ posts'[i] = posts[i],
         \A m \in Msgs : ref'[m] # 0 => ref[m] # 0,
         \A t \in Tasks : task[t].pc = "end" =>
           \/ task'[t].pc = "end" /\ MsgOf(t)' = MsgOf(t)
           \/ MsgOf(t) \in notified',
         task'[Consumer].pc = "ok" =>
           task[Consumer].pc = "ok" /\ MsgOf(Consumer)' = MsgOf(Consumer)
  PROVE  Told' /\ DoneIsBridged'
<1>1. \A m : IsPosted(m) => IsPosted(m)'
  BY DEF IsPosted
<1>2. Told'
  BY DEF Told
<1>3. DoneIsBridged'
  BY <1>1 DEF DoneIsBridged, Bridged
<1> QED BY <1>2, <1>3

LEMMA HandledMoves ==
  ASSUME [Next]_vars, handled' # handled
  PROVE  HandlerReturns /\ task[Consumer].pc = "ok" /\ handled' = handled \cup {hand.msg}
<1>1. CASE HandlerReturns
  BY <1>1
  DEF HandlerReturns, Q!HandlerSucceeds, Q!HandlerFails, Q!HandlerGivesUp, Q!history
<1>2. CASE \/ QueueStep(Q!Start) \/ QueueStep(Q!Shutdown) \/ QueueStep(Q!LoopReturns)
           \/ QueueStep(Q!Fetch) \/ QueueStep(Q!FetchExpires) \/ QueueStep(Q!Take)
           \/ \E f \in Events : QueueStep(Q!Server(f))
  BY <1>2
  DEF QueueStep, Q!Start, Q!Shutdown, Q!LoopReturns, Q!Fetch, Q!FetchExpires, Q!Take,
      Q!Server, Q!Deliver, Q!AckExpires, Q!AgeOut, Q!history
<1>3. CASE ProcessEnds \/ \E f \in Events : Enqueue(f) \/ ProcessDirectly(f)
  BY <1>3
  DEF ProcessEnds, Q!Exit, Q!Crash, Q!history, Enqueue, ProcessDirectly, Q!PublishOk,
      Q!PublishError, queue
<1>4. CASE UNCHANGED queue
  BY <1>4 DEF queue
<1> QED
  BY <1>1, <1>2, <1>3, <1>4
  DEF Next, SaveRow, DirectReturns, Handle, KeyExpires, ProcessStep, ConfigUnread,
      TryAcquire, AlreadyPosted, FindConversation, CreateConversation, CallFails,
      PostNotFound, Post, PostFilename, Record, Notify, RevokeRead, RevokeDelete,
      AgentDeletes, WebhookArrives, vars

LEMMA BridgedStep == Base /\ BridgedInv /\ [Next]_vars => BridgedInv'
<1> SUFFICES ASSUME Base, Dependable, restarts' = 0, BridgedInv, [Next]_vars
             PROVE  Told' /\ DoneIsBridged'
  BY DEF BridgedInv, Dependable, OneEventEach
<1>a. restarts = 0 /\ NotTold /\ ~ProcessEnds
  BY Onwards DEF Base, BridgeInv, TypeOK
<1>0. /\ TypeOK /\ CallsSound /\ RefIsOwn /\ KeyHasCall /\ DirectCalls /\ Published
      /\ Q!CopiesAccounted /\ Told /\ DoneIsBridged
  BY <1>a DEF Base, BridgeInv, KeyInv, BridgedInv
<1>2. DOMAIN ref = Msgs /\ task \in [Tasks -> TaskState] /\ Consumer \in Tasks
  BY <1>0 DEF TypeOK, Tasks
<1>3. ASSUME UNCHANGED <<task, posts, notified>>, hand' = hand \/ hand = NoCopy,
             ~HandlerReturns, \A m \in Msgs : ref'[m] # 0 => ref[m] # 0
      PROVE  Told' /\ DoneIsBridged'
  <2>1. \A t \in Tasks : task[t].pc # "idle" => MsgOf(t)' = MsgOf(t)
    BY <1>0, <1>3 DEF MsgOf, CallsSound
  <2>2. handled' = handled
    BY <1>3, HandledMoves
  <2> QED BY <1>0, <1>2, <1>3, <2>1, <2>2, BridgeFrame
<1>5. CASE \/ QueueStep(Q!Start) \/ QueueStep(Q!Shutdown) \/ QueueStep(Q!LoopReturns)
           \/ QueueStep(Q!Fetch) \/ QueueStep(Q!FetchExpires) \/ QueueStep(Q!Take)
           \/ \E e \in Events : QueueStep(Q!Server(e))
  <2>1. UNCHANGED <<task, posts, ref, notified, handled>> /\ (hand' = hand \/ hand = NoCopy)
    BY <1>5
    DEF QueueStep, Q!Start, Q!Shutdown, Q!LoopReturns, Q!Fetch, Q!FetchExpires, Q!Take,
        Q!Server, Q!Deliver, Q!AckExpires, Q!AgeOut, Q!consumer, Q!history, local, chatwoot,
        history
  <2>2. \A t \in Tasks : task[t].pc # "idle" => MsgOf(t)' = MsgOf(t)
    BY <1>0, <2>1 DEF MsgOf, CallsSound
  <2> QED BY <1>0, <1>2, <2>1, <2>2, BridgeFrame
<1>6. CASE \/ \E e \in Events : SaveRow(e) \/ Enqueue(e)
           \/ (\E m \in Msgs : RevokeRead(m) \/ RevokeDelete(m))
           \/ (\E k \in keys : KeyExpires(k)) \/ (\E i \in DOMAIN posts : WebhookArrives(i))
           \/ \E c \in Live : AgentDeletes(c)
  <2>1. UNCHANGED <<task, posts, notified, hand, handled>>
    BY <1>6
    DEF SaveRow, Enqueue, RevokeRead, RevokeDelete, KeyExpires, WebhookArrives, AgentDeletes,
        queue, local, chatwoot, history, Q!PublishOk, Q!consumer, Q!history
  <2>2. \A m \in Msgs : ref'[m] # 0 => ref[m] # 0
    <3>1. CASE \E m \in Msgs : RevokeDelete(m)
      BY <1>2, <3>1 DEF RevokeDelete
    <3>2. CASE UNCHANGED ref
      BY <3>2
    <3> QED
      BY <1>6, <3>1, <3>2 DEF SaveRow, Enqueue, RevokeRead, KeyExpires, WebhookArrives,
         AgentDeletes, local
  <2>3. \A t \in Tasks : MsgOf(t)' = MsgOf(t)
    BY <2>1 DEF MsgOf
  <2> QED BY <1>0, <1>2, <2>1, <2>2, <2>3, BridgeFrame
<1>7. ASSUME NEW e \in Events, ProcessDirectly(e) \/ DirectReturns(e)
      PROVE  Told' /\ DoneIsBridged'
  <2>1. /\ e \in Tasks \ {Consumer} /\ UNCHANGED <<posts, ref, hand, notified, handled>>
        /\ \A u \in Tasks \ {e} : task'[u] = task[u]
    BY <1>2, <1>7, BridgeAssumption
    DEF ProcessDirectly, DirectReturns, Tasks, chatwoot, history, queue, Q!PublishError,
        Q!consumer, Q!history
  <2>2. task[e].pc # "end"
    BY <1>0, <1>7 DEF ProcessDirectly, DirectReturns, DirectCalls
  <2>3. \A t \in Tasks : MsgOf(t)' = MsgOf(t)
    BY <2>1 DEF MsgOf
  <2> QED BY <1>0, <1>2, <2>1, <2>2, <2>3, BridgeFrame
<1>8. CASE Handle
  <2>1. /\ UNCHANGED <<posts, ref, hand, notified, handled>>
        /\ \A u \in Tasks \ {Consumer} : task'[u] = task[u]
        /\ task[Consumer].pc = "idle" /\ task'[Consumer].pc = "begin"
    BY <1>2, <1>8 DEF Handle, chatwoot, history, queue, TaskState
  <2>3. \A t \in Tasks : MsgOf(t)' = MsgOf(t)
    BY <2>1 DEF MsgOf
  <2> QED BY <1>0, <1>2, <2>1, <2>3, BridgeFrame
<1>9. CASE HandlerReturns
  <2>1. /\ UNCHANGED <<posts, ref, notified>>
        /\ \A u \in Tasks \ {Consumer} : task'[u] = task[u]
        /\ task[Consumer].pc \in {"ok", "error"} /\ task'[Consumer].pc = "idle"
    BY <1>2, <1>9 DEF HandlerReturns, chatwoot, history, Idle
  <2>2. \A m : IsPosted(m)' = IsPosted(m)
    BY <2>1 DEF IsPosted
  <2>3. \A t \in Tasks \ {Consumer} : MsgOf(t)' = MsgOf(t)
    BY DEF MsgOf
  <2>4. Told'
    BY <1>0, <2>1, <2>3 DEF Told
  <2>5. handled' = handled \/ handled' = handled \cup {hand.msg}
    BY HandledMoves
  <2>6. CASE handled' = handled
    BY <1>0, <1>2, <2>1, <2>4, <2>6 DEF DoneIsBridged, Bridged, IsPosted
  <2>7. CASE handled' # handled
    <3>1. Bridged(Msg[hand.msg])
      BY <1>0, <2>7, HandledMoves DEF DoneIsBridged, MsgOf
    <3>2. \A m : Bridged(m)' = Bridged(m)
      BY <2>1, <2>2 DEF Bridged
    <3> QED BY <1>0, <2>1, <2>4, <2>5, <3>1, <3>2 DEF DoneIsBridged
  <2> QED BY <2>6, <2>7
<1>10. ASSUME NEW t \in Tasks, ProcessStep(t) PROVE Told' /\ DoneIsBridged'
  <2>a. task[t].pc \notin {"idle", "ok"} /\ ~Cancelled(t)
    <3>1. task[t].pc \notin {"idle", "ok"}
      BY <1>10
      DEF ProcessStep, ConfigUnread, TryAcquire, AlreadyPosted, FindConversation,
          CreateConversation, CallFails, PostNotFound, Post, PostFilename, Record, Notify
    <3> QED BY <1>0, <1>a, <3>1, NotCancelled
  <2>0. /\ UNCHANGED <<hand, handled>> /\ task[t] \in TaskState
        /\ \A u \in Tasks : MsgOf(u)' = MsgOf(u)
        /\ \A u \in Tasks \ {t} : task'[u] = task[u]
    <3>1. UNCHANGED <<hand, handled>> /\ \A u \in Tasks \ {t} : task'[u] = task[u]
      BY <1>2, <1>10
      DEF ProcessStep, ConfigUnread, TryAcquire, AlreadyPosted, FindConversation,
          CreateConversation, CallFails, PostNotFound, Post, PostFilename, Record, Notify,
          queue, Return
    <3> QED BY <1>2, <3>1 DEF MsgOf
  <2>1. \A i \in DOMAIN posts : i \in DOMAIN posts' /\ posts'[i] = posts[i]
    <3>1. posts' = posts \/ \E x : posts' = Append(posts, x)
      BY <1>10
      DEF ProcessStep, ConfigUnread, TryAcquire, AlreadyPosted, FindConversation,
          CreateConversation, CallFails, PostNotFound, Post, PostFilename, Record, Notify,
          NewPost, chatwoot
    <3>2. posts \in Seq([msg : Msgs, conv : 1 .. convs, waid : BOOLEAN])
      BY <1>0 DEF TypeOK
    <3> QED BY <3>1, <3>2
  (* What the queue's call finds already done was done.                    *)
  <2>2. ASSUME UNCHANGED notified, \A m \in Msgs : ref'[m] # 0 => ref[m] # 0,
               task[t].pc # "end",
               task'[t].pc = "ok" /\ t = Consumer => Bridged(MsgOf(t))
        PROVE  Told' /\ DoneIsBridged'
    <3>1. Told'
      BY <1>0, <2>0, <2>2 DEF Told
    <3>2. \A m : Bridged(m) => Bridged(m)'
      BY <2>1, <2>2 DEF Bridged, IsPosted
    <3>3. DoneIsBridged'
      BY <1>0, <1>2, <2>0, <2>2, <3>2 DEF DoneIsBridged, Bridged, IsPosted
    <3> QED BY <3>1, <3>3
  <2>3. ~ConfigUnread(t)
    BY <2>a DEF ConfigUnread, Dependable
  <2>4. CASE TryAcquire(t)
    <3>1. UNCHANGED <<notified, ref>> /\ task[t].pc = "begin"
      BY <2>4 DEF TryAcquire, history
    <3>2. ASSUME task'[t].pc = "ok", t = Consumer PROVE FALSE
      <4>1. <<inbox, MsgOf(t)>> \in keys
        <5>1. CASE task' = [task EXCEPT ![t].pc = IF MsgOf(t) \in FromMe THEN "check" ELSE "find",
                                        ![t].seen = inbox]
          <6>1. PICK pc \in {"check", "find"} :
                  task' = [task EXCEPT ![t].pc = pc, ![t].seen = inbox]
            BY <5>1
          <6>2. inbox \in BOOLEAN
            BY <1>0 DEF TypeOK
          <6>3. task'[t].pc = pc
            BY <1>2, <6>1, <6>2, NotesSight
          <6> QED BY <3>2, <6>3
        <5> QED BY <2>4, <5>1 DEF TryAcquire
      <4>2. PICK u \in Tasks : Processing(u) /\ Key(u) = <<inbox, MsgOf(t)>>
        BY <1>0, <4>1 DEF KeyHasCall
      <4>3. MsgOf(u) = MsgOf(t) /\ task[u].pc # "idle" /\ u # t
        BY <3>1, <4>2 DEF Key, Processing
      <4> QED BY <1>0, <2>a, <3>2, <4>3, QueueCallAlone
    <3> QED BY <2>2, <3>1, <3>2
  <2>5. CASE AlreadyPosted(t)
    <3>1. UNCHANGED <<notified, ref>> /\ task[t].pc = "check"
      BY <2>5 DEF AlreadyPosted, history
    <3>2. ASSUME task'[t].pc = "ok", t = Consumer PROVE Bridged(MsgOf(t))
      <4>1. ref[MsgOf(t)] # 0
        BY <1>2, <2>0, <2>5, <3>2 DEF AlreadyPosted, TaskState
      <4>2. MsgOf(t) \in Msgs
        BY <1>0, <2>a, MsgOfTyped
      <4>3. IsPosted(MsgOf(t))
        <5>1. ref[MsgOf(t)] \in DOMAIN posts /\ posts[ref[MsgOf(t)]].msg = MsgOf(t)
          BY <1>0, <1>2, <4>1, <4>2 DEF RefIsOwn, TypeOK
        <5> QED BY <5>1 DEF IsPosted
      <4>4. MsgOf(t) \in notified
        <5>1. ASSUME NEW u \in Tasks, task[u].pc = "end", MsgOf(u) = MsgOf(t) PROVE FALSE
          BY <1>0, <2>a, <3>1, <3>2, <5>1, QueueCallAlone
        <5> QED BY <1>0, <4>1, <4>2, <5>1 DEF Told
      <4> QED BY <4>3, <4>4 DEF Bridged
    <3> QED BY <2>2, <3>1, <3>2
  <2>6. CASE FindConversation(t) \/ CreateConversation(t) \/ CallFails(t) \/ PostNotFound(t)
    <3>1. UNCHANGED notified /\ task[t].pc # "end"
      BY <2>6 DEF FindConversation, CreateConversation, CallFails, PostNotFound, history
    <3>2. \A m \in Msgs : ref'[m] # 0 => ref[m] # 0
      BY <2>6
      DEF FindConversation, CreateConversation, CallFails, PostNotFound, ConversationNotFound
    <3>3. task'[t].pc # "ok"
      BY <1>2, <2>0, <2>6 DEF FindConversation, CreateConversation, CallFails, PostNotFound,
         Return, Idle, TaskState
    <3> QED BY <2>2, <3>1, <3>2, <3>3
  <2>7. CASE Post(t) \/ PostFilename(t)
    <3>1. UNCHANGED <<notified, ref>> /\ task[t].pc # "end"
      BY <2>7 DEF Post, PostFilename, history
    <3>2. task'[t].pc # "ok"
      <4>1. CASE \E pc \in {"record", "end"} :
                   task' = [task EXCEPT ![t].pc = pc, ![t].post = Len(posts) + 1]
        <5>1. Len(posts) + 1 \in Nat
          BY <1>0 DEF TypeOK
        <5> QED BY <1>2, <4>1, <5>1, NotesPost
      <4>2. CASE Return(t, "error")
        BY <1>2, <4>2 DEF Return, Idle
      <4> QED BY <2>7, <4>1, <4>2 DEF Post, PostFilename
    <3> QED BY <2>2, <3>1, <3>2
  <2>8. CASE Record(t)
    <3>1. UNCHANGED notified /\ task[t].pc = "record" /\ task'[t].pc = "end"
      BY <1>2, <2>0, <2>8 DEF Record, history, TaskState
    <3>2. ref' = ref \/ ref' = [ref EXCEPT ![MsgOf(t)] = task[t].post]
      BY <2>8 DEF Record
    <3>3. \A m \in Msgs : ref'[m] # 0 => ref[m] # 0 \/ MsgOf(t) = m
      BY <1>2, <3>2
    <3>4. Told'
      BY <1>0, <2>0, <3>1, <3>3 DEF Told
    <3>5. \A m : Bridged(m) => Bridged(m)'
      BY <2>1, <3>1 DEF Bridged, IsPosted
    <3>6. DoneIsBridged'
      BY <1>0, <1>2, <2>0, <3>1, <3>5 DEF DoneIsBridged, Bridged, IsPosted
    <3> QED BY <3>4, <3>6
  <2>9. CASE Notify(t)
    <3>1. /\ notified' = notified \cup {MsgOf(t)} /\ UNCHANGED <<ref, posts>>
          /\ task[t].pc = "end"
      BY <2>9 DEF Notify, chatwoot
    <3>2. Told'
      BY <1>0, <2>0, <3>1 DEF Told
    <3>3. \A m : Bridged(m) => Bridged(m)'
      BY <3>1 DEF Bridged, IsPosted
    <3>4. Bridged(MsgOf(t))'
      BY <1>0, <2>0, <3>1 DEF Bridged, IsPosted, CallsSound
    <3>5. DoneIsBridged'
      BY <1>0, <1>2, <2>0, <3>1, <3>3, <3>4 DEF DoneIsBridged, Bridged, IsPosted
    <3> QED BY <3>2, <3>5
  <2> QED
    BY <1>10, <2>3, <2>4, <2>5, <2>6, <2>7, <2>8, <2>9 DEF ProcessStep
<1>11. CASE UNCHANGED vars
  <2>1. UNCHANGED <<task, posts, ref, notified, hand, handled>>
    BY <1>11 DEF vars, local, queue, chatwoot, history
  <2>2. \A t \in Tasks : MsgOf(t)' = MsgOf(t)
    BY <2>1 DEF MsgOf
  <2> QED BY <1>0, <1>2, <2>1, <2>2, BridgeFrame
<1> QED
  BY <1>a, <1>5, <1>6, <1>7, <1>8, <1>9, <1>10, <1>11 DEF Next

(* With a configuration that can be read and a broker that works, what the *)
(* queue is done with in one life of the process was posted and reported   *)
(* to the user's webhook, or is a dead letter: calls that fail, keys that  *)
(* expire and conversations that disappear lose nothing.                   *)
THEOREM BridgedOrDead ==
  Dependable => (Spec => [](restarts = 0 => QueuedIsBridgedOrDead))
<1> SUFFICES ASSUME Dependable PROVE Spec => [](restarts = 0 => QueuedIsBridgedOrDead)
  OBVIOUS
<1>1. QP!Spec => []QP!NothingLost
  BY QP!AcceptedIsKept, QueueAssumed
<1>2. Q!Spec => QP!Spec
  <2>1. Q!Init => QP!Init
    BY SameQueue
  <2>2. [Q!Next]_(Q!vars) => [QP!Next]_(QP!vars)
    BY SameQueue
  <2> QED BY <2>1, <2>2, PTL DEF Q!Spec, QP!Spec
<1>3. QP!NothingLost /\ restarts = 0 =>
        \A e \in Events : stored[e] = "removed" => e \in handled \cup dlq
  BY DEF QP!NothingLost, QP!RunningLosesNothing, QP!FailedMessagesReachDLQ, Dependable
<1>4. Init => BridgedInv
  BY DEF Init, Q!Init, BridgedInv, Told, DoneIsBridged, Idle, Tasks
<1>5. QP!NothingLost /\ BridgedInv => (restarts = 0 => QueuedIsBridgedOrDead)
  BY <1>3 DEF BridgedInv, DoneIsBridged, Bridged, IsPosted, QueuedIsBridgedOrDead
<1> QED
  BY <1>1, <1>2, <1>4, <1>5, BridgedStep, BaseHolds, RunsTheQueue, PTL DEF Spec

------------------------------------------------------------------------------
(* Revoked is gone.                                                        *)

(* The steps of direct processing that matter to the rest.                 *)
LEMMA TurnSteps ==
  ASSUME InTurn, TypeOK, CallsSound, NoQueue, ~ProcessEnds, [Next]_vars
  PROVE  /\ NoQueue'
         /\ \/ \E e \in Events : \/ SaveRow(e) \/ ProcessDirectly(e) \/ DirectReturns(e)
                                 \/ ProcessStep(e)
            \/ \E m \in Msgs : RevokeRead(m) \/ RevokeDelete(m)
            \/ \E c \in Live : AgentDeletes(c)
            \/ UNCHANGED <<event, task, rows, ref, revoke, target, posts, gone, removed>>
<1>0. task[Consumer].pc = "idle" /\ TRUE \notin Online
  BY DEF CallsSound, NoQueue, InTurn
<1>1. CASE \/ QueueStep(Q!Start) \/ QueueStep(Q!Shutdown) \/ QueueStep(Q!LoopReturns)
           \/ QueueStep(Q!Fetch) \/ QueueStep(Q!FetchExpires) \/ QueueStep(Q!Take)
           \/ \E f \in Events : QueueStep(Q!Server(f))
  <2>1. UNCHANGED <<stored, buf, hand>>
    BY <1>1
    DEF QueueStep, Q!Start, Q!Shutdown, Q!LoopReturns, Q!Fetch, Q!FetchExpires, Q!Take,
        Q!Server, Q!Deliver, Q!AckExpires, Q!AgeOut, Q!Waiting, Q!server, Q!consumer, NoQueue
  <2>2. UNCHANGED <<event, task, rows, ref, revoke, target, posts, gone, removed>>
    BY <1>1 DEF QueueStep, local, chatwoot, revocation
  <2> QED BY <2>1, <2>2 DEF NoQueue
<1>2. ASSUME NEW t \in Tasks, ProcessStep(t)
      PROVE  t \in Events /\ NoQueue'
  <2>1. task[t].pc # "idle" /\ UNCHANGED queue
    BY <1>2
    DEF ProcessStep, ConfigUnread, TryAcquire, AlreadyPosted, FindConversation,
        CreateConversation, CallFails, PostNotFound, Post, PostFilename, Record, Notify
  <2> QED BY <1>0, <2>1 DEF Tasks, queue, NoQueue
<1>3. ASSUME NEW e \in Events, Enqueue(e) PROVE FALSE
  BY <1>0, <1>3 DEF Enqueue
<1>4. ~Handle /\ ~HandlerReturns
  BY <1>0 DEF Handle, HandlerReturns, NoQueue
<1>5. CASE \E e \in Events : SaveRow(e) \/ ProcessDirectly(e) \/ DirectReturns(e)
  <2>1. UNCHANGED queue
    BY <1>0, <1>5 DEF SaveRow, ProcessDirectly, DirectReturns
  <2> QED BY <1>5, <2>1 DEF queue, NoQueue
<1>6. CASE \/ \E m \in Msgs : RevokeRead(m) \/ RevokeDelete(m)
           \/ \E c \in Live : AgentDeletes(c)
  <2>1. UNCHANGED queue
    BY <1>6 DEF RevokeRead, RevokeDelete, AgentDeletes
  <2> QED BY <1>6, <2>1 DEF queue, NoQueue
<1>7. CASE (\E k \in keys : KeyExpires(k)) \/ (\E i \in DOMAIN posts : WebhookArrives(i))
           \/ UNCHANGED vars
  BY <1>7 DEF KeyExpires, WebhookArrives, vars, local, queue, chatwoot, revocation, NoQueue
<1> QED BY <1>1, <1>2, <1>3, <1>4, <1>5, <1>6, <1>7 DEF Next

(* A free dispatcher has nothing under way.                                *)
LEMMA FreeNotBusy ==
  ASSUME InTurn, DispatcherFree
  PROVE  (\A e \in Events : ~Busy(e)) /\ \A m \in Msgs : revoke[m] # "read"
BY DEF InTurn, DispatcherFree, Busy

(* One call at a time, and its message is not being revoked.               *)
LEMMA OneBusyStep ==
  ASSUME InTurn, TypeOK, CallsSound, DirectCalls, RevokeSound, NoQueue, OneBusy,
         ~ProcessEnds, [Next]_vars
  PROVE  OneBusy'
<1>0. /\ event \in [Events -> {"due", "saved", "queued", "direct", "lost"}]
      /\ task \in [Tasks -> TaskState] /\ Events \subseteq Tasks
      /\ revoke \in [Msgs -> {"no", "read", "done", "left"}] /\ Msg \in [Events -> Msgs]
  BY BridgeAssumption DEF TypeOK, Tasks
<1>1. ASSUME \A e \in Events : (Busy(e)' => Busy(e)) /\ (event'[e] = "due" => event[e] = "due"),
             UNCHANGED <<rows, revoke>>
      PROVE  OneBusy'
  BY <1>1 DEF OneBusy
<1>2. ASSUME NEW e \in Events, SaveRow(e) PROVE OneBusy'
  <2>1. (\A f \in Events : ~Busy(f)) /\ \A m \in Msgs : revoke[m] # "read"
    BY <1>2, FreeNotBusy DEF SaveRow, InTurn
  <2>2. /\ event[e] = "due" /\ event' = [event EXCEPT ![e] = "saved"]
        /\ rows' = rows \cup {Msg[e]} /\ UNCHANGED <<task, revoke>>
    BY <1>2 DEF SaveRow, InTurn, revocation
  <2>3. \A f \in Events : Busy(f)' => f = e
    BY <1>0, <2>1, <2>2 DEF Busy
  <2>4. \A f \in Events : event'[f] = "due" => event[f] = "due"
    BY <1>0, <2>2
  <2>5. revoke[Msg[e]] = "no"
    BY <1>0, <2>2 DEF OneBusy
  <2> QED BY <1>0, <2>1, <2>2, <2>3, <2>4, <2>5 DEF OneBusy
<1>3. ASSUME NEW e \in Events, ProcessDirectly(e) \/ DirectReturns(e) \/ ProcessStep(e)
      PROVE  OneBusy'
  <2>1. UNCHANGED <<rows, revoke>> /\ \A u \in Tasks \ {e} : task'[u] = task[u]
    BY <1>0, <1>3
    DEF ProcessDirectly, DirectReturns, ProcessStep, ConfigUnread, TryAcquire, AlreadyPosted,
        FindConversation, CreateConversation, CallFails, PostNotFound, Post, PostFilename,
        Record, Notify, Return, revocation
  <2>2. Busy(e)
    BY <1>3
    DEF ProcessDirectly, DirectReturns, ProcessStep, ConfigUnread, TryAcquire, AlreadyPosted,
        FindConversation, CreateConversation, CallFails, PostNotFound, Post, PostFilename,
        Record, Notify, Busy
  <2>3. event' = event \/ event' = [event EXCEPT ![e] = "direct"]
    BY <1>3
    DEF ProcessDirectly, DirectReturns, ProcessStep, ConfigUnread, TryAcquire, AlreadyPosted,
        FindConversation, CreateConversation, CallFails, PostNotFound, Post, PostFilename,
        Record, Notify
  <2>4. \A f \in Events : (Busy(f)' => Busy(f)) /\ (event'[f] = "due" => event[f] = "due")
    BY <1>0, <2>1, <2>2, <2>3 DEF Busy
  <2> QED BY <1>1, <2>1, <2>4
<1>4. ASSUME NEW m \in Msgs, RevokeRead(m) PROVE OneBusy'
  <2>1. \A f \in Events : ~Busy(f)
    BY <1>4, FreeNotBusy DEF RevokeRead
  <2>2. UNCHANGED <<rows, task, event>>
    BY <1>4 DEF RevokeRead
  <2>3. \A f \in Events : ~Busy(f)'
    BY <2>1, <2>2 DEF Busy
  <2>4. \A n \in Msgs \ {m} : revoke'[n] = revoke[n]
    BY <1>0, <1>4 DEF RevokeRead
  <2>5. \A f \in Events : Msg[f] = m => event[f] # "due"
    BY <1>4 DEF RevokeRead, InTurn, OneEventEach
  <2> QED BY <2>2, <2>3, <2>4, <2>5 DEF OneBusy
<1>5. ASSUME NEW m \in Msgs, RevokeDelete(m) PROVE OneBusy'
  <2>1. \A f \in Events : ~Busy(f)
    BY <1>5 DEF RevokeDelete, OneBusy
  <2>2. UNCHANGED <<task, event>> /\ revoke[m] = "read"
    BY <1>5 DEF RevokeDelete
  <2>3. \A f \in Events : ~Busy(f)'
    BY <2>1, <2>2 DEF Busy
  <2>4. \A n \in Msgs \ {m} : revoke'[n] = revoke[n]
    BY <1>0, <1>5 DEF RevokeDelete
  <2> QED BY <2>2, <2>3, <2>4 DEF OneBusy
<1>6. CASE \E c \in Live : AgentDeletes(c)
  BY <1>1, <1>6 DEF AgentDeletes, local, revocation, Busy
<1>7. CASE UNCHANGED <<event, task, rows, revoke>>
  BY <1>1, <1>7 DEF Busy
<1> QED BY <1>2, <1>3, <1>4, <1>5, <1>6, <1>7, TurnSteps

Early == {"begin", "check", "find", "create", "post"}

(* Steps that post nothing, record nothing and revoke nothing.             *)
LEMMA TurnFrame ==
  ASSUME PostsOnce, SeenIsKnown, TargetIsOwn, RevokedIsGone,
         UNCHANGED <<posts, revoke, target>>, gone \subseteq gone', removed \subseteq removed',
         \A i \in DOMAIN posts : ref[posts[i].msg] = i /\ Visible(i)' => ref'[posts[i].msg] = i,
         \A e \in Events : event[e] = "direct" => event'[e] = "direct"
                                                  /\ (task'[e].pc \in Early => task[e].pc \in Early),
         \A e \in Events : task[e].pc = "record" =>
           task'[e].pc = "record" /\ task'[e].post = task[e].post
  PROVE  PostsOnce' /\ SeenIsKnown' /\ TargetIsOwn' /\ RevokedIsGone'
<1>1. \A i \in DOMAIN posts : Visible(i)' => Visible(i)
  BY DEF Visible
<1>2. PostsOnce'
  BY DEF PostsOnce, Early
<1>3. SeenIsKnown'
  BY <1>1 DEF SeenIsKnown
<1>4. TargetIsOwn'
  BY DEF TargetIsOwn
<1>5. RevokedIsGone'
  BY <1>1 DEF RevokedIsGone
<1> QED BY <1>2, <1>3, <1>4, <1>5

LEMMA TurnStep == Base /\ TurnInv /\ [Next]_vars => TurnInv'
<1> SUFFICES ASSUME Base, InTurn, restarts' = 0, TurnInv, [Next]_vars PROVE TurnInv'
  BY DEF TurnInv, InTurn, OneEventEach
<1>a. restarts = 0 /\ NotTold /\ ~ProcessEnds
  BY Onwards DEF Base, BridgeInv, TypeOK
<1>0. /\ TypeOK /\ CallsSound /\ RefIsOwn /\ RevokeSound /\ DirectCalls
      /\ NoQueue /\ OneBusy /\ PostsOnce /\ SeenIsKnown /\ TargetIsOwn /\ RevokedIsGone
  BY <1>a DEF Base, BridgeInv, TurnInv
<1>1. OneBusy' /\ NoQueue'
  BY <1>a, <1>0, OneBusyStep, TurnSteps
<1>2. /\ DOMAIN ref = Msgs /\ DOMAIN revoke = Msgs /\ task \in [Tasks -> TaskState]
      /\ event \in [Events -> {"due", "saved", "queued", "direct", "lost"}]
      /\ Events \subseteq Tasks /\ Consumer \notin Events /\ Msg \in [Events -> Msgs]
      /\ \A i \in DOMAIN posts : i # 0 /\ posts[i].msg \in Msgs
  <2>1. posts \in Seq([msg : Msgs, conv : 1 .. convs, waid : BOOLEAN])
    BY <1>0 DEF TypeOK
  <2>2. \A i \in DOMAIN posts : i # 0 /\ posts[i].msg \in Msgs
    <3> DEFINE S == [msg : Msgs, conv : 1 .. convs, waid : BOOLEAN]
    <3>0. posts \in Seq(S)
      BY <2>1
    <3>1. \A x \in S : x.msg \in Msgs
      OBVIOUS
    <3> HIDE DEF S
    <3>2. \A i \in DOMAIN posts : i # 0 /\ posts[i] \in S
      BY <3>0
    <3> QED BY <3>1, <3>2
  <2> QED BY <1>0, <2>2, BridgeAssumption DEF TypeOK, Tasks
<1> SUFFICES PostsOnce' /\ SeenIsKnown' /\ TargetIsOwn' /\ RevokedIsGone'
  BY <1>1 DEF TurnInv
<1>3. ASSUME NEW e \in Events, SaveRow(e)
      PROVE  PostsOnce' /\ SeenIsKnown' /\ TargetIsOwn' /\ RevokedIsGone'
  <2>1. /\ UNCHANGED <<posts, revoke, target, gone, removed, ref, task>>
        /\ event[e] = "due" /\ event' = [event EXCEPT ![e] = "saved"]
    BY <1>3 DEF SaveRow, chatwoot, revocation
  <2> QED BY <1>0, <1>2, <2>1, TurnFrame
<1>4. ASSUME NEW e \in Events, ProcessDirectly(e) \/ DirectReturns(e)
      PROVE  PostsOnce' /\ SeenIsKnown' /\ TargetIsOwn' /\ RevokedIsGone'
  <2>1. /\ UNCHANGED <<posts, revoke, target, gone, removed, ref>>
        /\ \A f \in Events \ {e} : task'[f] = task[f] /\ event'[f] = event[f]
    BY <1>2, <1>4 DEF ProcessDirectly, DirectReturns, chatwoot, revocation
  <2>2. task[e].pc # "record"
    BY <1>0, <1>4 DEF ProcessDirectly, DirectReturns, DirectCalls
  <2>3. CASE ProcessDirectly(e)
    <3>1. event[e] # "direct"
      BY <2>3 DEF ProcessDirectly
    <3> QED BY <1>0, <2>1, <2>2, <3>1, TurnFrame
  <2>4. CASE DirectReturns(e)
    <3>1. event' = event /\ task'[e].pc \notin Early
      BY <1>2, <2>4 DEF DirectReturns, Idle, Early
    <3> QED BY <1>0, <2>1, <2>2, <3>1, TurnFrame
  <2> QED BY <1>4, <2>3, <2>4
<1>5. ASSUME NEW e \in Events, ProcessStep(e)
      PROVE  PostsOnce' /\ SeenIsKnown' /\ TargetIsOwn' /\ RevokedIsGone'
  <2>0. /\ UNCHANGED <<event, revoke, target, gone, removed, rows>> /\ task[e].pc # "idle"
        /\ \A f \in Events \ {e} : task'[f] = task[f]
        /\ task[e] \in TaskState /\ MsgOf(e) = Msg[e]
    BY <1>2, <1>5
    DEF ProcessStep, ConfigUnread, TryAcquire, AlreadyPosted, FindConversation,
        CreateConversation, CallFails, PostNotFound, Post, PostFilename, Record, Notify,
        Return, chatwoot, revocation, MsgOf
  <2>1. ~MayFail(e) /\ ~Cancelled(e)
    BY <1>0, <1>a, <1>2, <2>0, NotCancelled DEF InTurn
  <2>2. /\ Busy(e) /\ event[e] = "direct" /\ revoke[Msg[e]] = "no" /\ Msg[e] \in rows
    BY <1>0, <1>2, <2>0 DEF Busy, DirectCalls, OneBusy
  <2>3. ASSUME UNCHANGED <<posts, ref>>, task[e].pc # "record",
               task'[e].pc \in Early => task[e].pc \in Early
        PROVE  PostsOnce' /\ SeenIsKnown' /\ TargetIsOwn' /\ RevokedIsGone'
    BY <1>0, <2>0, <2>3, TurnFrame
  <2>4. CASE ConfigUnread(e) \/ TryAcquire(e) \/ AlreadyPosted(e) \/ FindConversation(e)
             \/ CreateConversation(e) \/ Notify(e)
    <3>1. UNCHANGED <<posts, ref>> /\ task[e].pc # "record"
      BY <2>4 DEF ConfigUnread, TryAcquire, AlreadyPosted, FindConversation,
         CreateConversation, Notify, chatwoot
    <3>2. task[e].pc \in Early \/ Notify(e)
      BY <2>4 DEF ConfigUnread, TryAcquire, AlreadyPosted, FindConversation,
         CreateConversation, Early
    <3>3. Notify(e) => task'[e].pc \notin Early
      BY <1>2 DEF Notify, Return, Idle, Early
    <3> QED BY <2>3, <3>1, <3>2, <3>3
  <2>5. CASE PostNotFound(e)
    <3>1. UNCHANGED posts /\ task[e].pc \in Early
      BY <2>5 DEF PostNotFound, Early, chatwoot
    <3>2. \A m \in Msgs : ref'[m] = ref[m] \/ (ref[m] # 0 /\ posts[ref[m]].conv \in gone)
      BY <1>2, <2>5 DEF PostNotFound, ConversationNotFound
    <3>3. \A i \in DOMAIN posts :
            ref[posts[i].msg] = i /\ Visible(i)' => ref'[posts[i].msg] = i
      BY <1>2, <2>0, <3>1, <3>2 DEF Visible
    <3>4. task[e].pc # "record"
      BY <3>1 DEF Early
    <3> QED BY <1>0, <2>0, <3>1, <3>3, <3>4, TurnFrame
  <2>6. CASE Post(e)
    <3> DEFINE n == Len(posts) + 1
    <3>0. posts \in Seq([msg : Msgs, conv : 1 .. convs, waid : BOOLEAN])
      BY <1>0 DEF TypeOK
    <3>1. /\ posts' = Append(posts, [msg |-> MsgOf(e), conv |-> task[e].conv,
                                     waid |-> MsgOf(e) \notin Media])
          /\ task' = [task EXCEPT ![e].pc = "record", ![e].post = n]
          /\ task[e].pc = "post" /\ UNCHANGED ref
      BY <2>1, <2>6 DEF Post, NewPost
    <3>2. /\ n \in Nat /\ posts'[n].msg = Msg[e]
          /\ \A i \in DOMAIN posts : i # n /\ i \in DOMAIN posts' /\ posts'[i] = posts[i]
          /\ \A i \in DOMAIN posts' : i \in DOMAIN posts \/ i = n
      BY <2>0, <3>0, <3>1
    <3>3. task'[e].pc = "record" /\ task'[e].post = n
      <4>1. n \in Nat
        BY <3>2
      <4> HIDE DEF n
      <4> QED BY <1>2, <3>1, <4>1, NotesPost
    <3>4. \A i \in DOMAIN posts : posts[i].msg # Msg[e]
      BY <1>0, <3>1 DEF PostsOnce
    <3> HIDE DEF n
    <3>5. \A i \in DOMAIN posts : Visible(i)' => Visible(i)
      BY <2>0, <3>2 DEF Visible
    <3>6. PostsOnce'
      <4>1. \A i, j \in DOMAIN posts' : posts'[i].msg = posts'[j].msg => i = j
        BY <1>0, <3>2, <3>4 DEF PostsOnce
      <4>2. ASSUME NEW i \in DOMAIN posts', NEW f \in Events, posts'[i].msg = Msg[f]
            PROVE  event[f] = "direct" /\ task'[f].pc \notin Early
        <5>1. CASE i = n
          <6>1. f = e
            BY <3>2, <4>2, <5>1 DEF InTurn, OneEventEach
          <6> QED BY <2>2, <3>3, <6>1 DEF Early
        <5>2. CASE i \in DOMAIN posts
          <6>1. posts[i].msg = Msg[f] /\ f # e
            BY <3>2, <3>4, <4>2, <5>2
          <6> QED BY <1>0, <2>0, <5>2, <6>1 DEF PostsOnce, Early
        <5> QED BY <3>2, <5>1, <5>2
      <4> QED BY <2>0, <4>1, <4>2 DEF PostsOnce, Early
    <3>7. SeenIsKnown'
      <4> SUFFICES ASSUME NEW i \in DOMAIN posts', Visible(i)'
                   PROVE  ref[posts'[i].msg] = i \/ \E f \in Events :
                            task'[f].pc = "record" /\ task'[f].post = i
        BY <3>1 DEF SeenIsKnown
      <4>1. CASE i = n
        BY <3>3, <4>1
      <4>2. CASE i \in DOMAIN posts
        <5>1. posts'[i] = posts[i] /\ Visible(i) /\ task[e].pc # "record"
          BY <3>1, <3>2, <3>5, <4>2
        <5> QED BY <1>0, <2>0, <4>2, <5>1 DEF SeenIsKnown
      <4> QED BY <3>2, <4>1, <4>2
    <3>8. TargetIsOwn'
      BY <1>0, <2>0, <3>2 DEF TargetIsOwn
    <3>9. RevokedIsGone'
      <4> SUFFICES ASSUME NEW i \in DOMAIN posts', revoke[posts'[i].msg] = "done"
                   PROVE  ~Visible(i)'
        BY <2>0 DEF RevokedIsGone
      <4>1. i # n
        BY <2>2, <3>2
      <4>2. i \in DOMAIN posts /\ posts'[i] = posts[i]
        BY <3>2, <4>1
      <4> QED BY <1>0, <3>5, <4>2 DEF RevokedIsGone
    <3> QED BY <3>6, <3>7, <3>8, <3>9
  <2>7. CASE Record(e)
    <3>1. /\ task[e].pc = "record" /\ UNCHANGED posts /\ task'[e].pc = "end"
          /\ ref' = [ref EXCEPT ![Msg[e]] = task[e].post]
      BY <1>2, <2>0, <2>1, <2>2, <2>7 DEF Record, chatwoot, InTurn, TaskState
    <3>2. task[e].post \in DOMAIN posts /\ posts[task[e].post].msg = Msg[e]
      BY <1>0, <1>2, <2>0, <3>1 DEF CallsSound
    <3>3. PostsOnce'
      BY <1>0, <2>0, <3>1 DEF PostsOnce
    <3>4. SeenIsKnown'
      <4> SUFFICES ASSUME NEW i \in DOMAIN posts, Visible(i)
                   PROVE  ref'[posts[i].msg] = i \/ \E f \in Events :
                            task'[f].pc = "record" /\ task'[f].post = i
        BY <2>0, <3>1 DEF SeenIsKnown, Visible
      <4>1. CASE posts[i].msg = Msg[e]
        <5>1. i = task[e].post
          BY <1>0, <3>2, <4>1 DEF PostsOnce
        <5> QED BY <1>2, <3>1, <4>1, <5>1
      <4>2. CASE posts[i].msg # Msg[e]
        <5>1. ref'[posts[i].msg] = ref[posts[i].msg] /\ task[e].post # i
          BY <1>2, <3>1, <3>2, <4>2
        <5> QED BY <1>0, <2>0, <5>1 DEF SeenIsKnown
      <4> QED BY <4>1, <4>2
    <3>5. TargetIsOwn' /\ RevokedIsGone'
      BY <1>0, <2>0, <3>1 DEF TargetIsOwn, RevokedIsGone, Visible
    <3> QED BY <3>3, <3>4, <3>5
  <2>8. ~CallFails(e) /\ ~PostFilename(e)
    BY <2>1 DEF CallFails, PostFilename
  <2> QED BY <1>5, <2>4, <2>5, <2>6, <2>7, <2>8 DEF ProcessStep
<1>6. ASSUME NEW m \in Msgs, RevokeRead(m)
      PROVE  PostsOnce' /\ SeenIsKnown' /\ TargetIsOwn' /\ RevokedIsGone'
  <2>1. /\ UNCHANGED <<posts, gone, removed, ref, task, event>>
        /\ \/ /\ target' = ref[m]
              /\ revoke' = [revoke EXCEPT ![m] = IF ref[m] = 0 THEN "done" ELSE "read"]
           \/ revoke' = [revoke EXCEPT ![m] = "left"] /\ UNCHANGED target
    BY <1>6 DEF RevokeRead, chatwoot
  <2>2. (\A e \in Events : ~Busy(e)) /\ \A n \in Msgs : revoke[n] # "read"
    BY <1>6, FreeNotBusy DEF RevokeRead
  <2>3. PostsOnce' /\ SeenIsKnown'
    BY <1>0, <2>1 DEF PostsOnce, SeenIsKnown, Visible
  <2>4. TargetIsOwn'
    <3>1. \A n \in Msgs : revoke'[n] = "read" => n = m /\ ref[m] # 0 /\ target' = ref[m]
      BY <1>2, <2>1, <2>2
    <3>2. ref[m] # 0 => ref[m] \in DOMAIN posts /\ posts[ref[m]].msg = m
      BY <1>0 DEF RefIsOwn, TypeOK
    <3> QED BY <2>1, <3>1, <3>2 DEF TargetIsOwn
  <2>5. RevokedIsGone'
    <3> SUFFICES ASSUME NEW i \in DOMAIN posts, revoke'[posts[i].msg] = "done", Visible(i)
                 PROVE  FALSE
      BY <2>1 DEF RevokedIsGone, Visible
    <3>1. posts[i].msg = m /\ ref[m] = 0
      BY <1>0, <1>2, <2>1 DEF RevokedIsGone
    <3>2. ~\E e \in Events : task[e].pc = "record"
      BY <2>2 DEF Busy
    <3> QED BY <1>0, <1>2, <3>1, <3>2 DEF SeenIsKnown
  <2> QED BY <2>3, <2>4, <2>5
<1>7. ASSUME NEW m \in Msgs, RevokeDelete(m)
      PROVE  PostsOnce' /\ SeenIsKnown' /\ TargetIsOwn' /\ RevokedIsGone'
  <2>1. /\ UNCHANGED <<posts, gone, task, event>> /\ revoke[m] = "read"
        /\ revoke' = [revoke EXCEPT ![m] = "done"]
        /\ \/ posts[target].conv \notin gone /\ removed' = removed \cup {target}
           \/ posts[target].conv \in gone /\ removed' = removed
    BY <1>7 DEF RevokeDelete, InTurn
  <2>2. \A n \in Msgs \ {m} :
          ref'[n] = ref[n] \/ (ref[n] # 0 /\ posts[ref[n]].conv \in gone)
    BY <1>2, <1>7 DEF RevokeDelete
  <2>3. target \in DOMAIN posts /\ posts[target].msg = m
    BY <1>0, <2>1 DEF TargetIsOwn
  <2>4. \A i \in DOMAIN posts : Visible(i)' => Visible(i) /\ posts[i].msg # m
    BY <1>0, <2>1, <2>3 DEF Visible, PostsOnce
  <2>5. PostsOnce'
    BY <1>0, <2>1 DEF PostsOnce
  <2>6. SeenIsKnown'
    <3> SUFFICES ASSUME NEW i \in DOMAIN posts, Visible(i)'
                 PROVE  ref'[posts[i].msg] = i \/ \E f \in Events :
                          task[f].pc = "record" /\ task[f].post = i
      BY <2>1 DEF SeenIsKnown
    <3>1. Visible(i) /\ posts[i].msg \in Msgs \ {m}
      BY <1>2, <2>4
    <3>2. ref[posts[i].msg] = i => ref'[posts[i].msg] = i
      BY <2>2, <3>1 DEF Visible
    <3> QED BY <1>0, <3>1, <3>2 DEF SeenIsKnown
  <2>7. TargetIsOwn'
    <3>1. \A n \in Msgs : revoke'[n] # "read"
      BY <1>0, <1>2, <2>1 DEF RevokeSound
    <3> QED BY <3>1 DEF TargetIsOwn
  <2>8. RevokedIsGone'
    BY <1>0, <1>2, <2>1, <2>4 DEF RevokedIsGone
  <2> QED BY <2>5, <2>6, <2>7, <2>8
<1>8. CASE \E c \in Live : AgentDeletes(c)
  <2>1. /\ UNCHANGED <<posts, revoke, target, removed, ref, task, event>>
        /\ gone \subseteq gone'
    BY <1>8 DEF AgentDeletes, local, revocation
  <2> QED BY <1>0, <2>1, TurnFrame
<1>9. CASE UNCHANGED <<event, task, rows, ref, revoke, target, posts, gone, removed>>
  BY <1>0, <1>9, TurnFrame
<1> QED
  BY <1>a, <1>0, <1>3, <1>4, <1>5, <1>6, <1>7, <1>8, <1>9, TurnSteps

(* Without the queue, where WhatsApp's events are handled in turn, a       *)
(* message whose revocation was gone through with is not shown to the      *)
(* agents, whether the configuration could be read for the message or not. *)
(* It assumes that calls to Chatwoot and rows do not fail, for a post may  *)
(* then lack its reference, and that the process was not restarted; a      *)
(* revocation that finds no readable configuration is left undone, and     *)
(* the theorem says nothing of its message.                                *)
THEOREM RevokedGoes == InTurn => (Spec => [](restarts = 0 => RevokedIsGone))
<1> SUFFICES ASSUME InTurn PROVE Spec => [](restarts = 0 => RevokedIsGone)
  OBVIOUS
<1>1. Init => TurnInv
  BY DEF Init, Q!Init, TurnInv, NoQueue, OneBusy, PostsOnce, SeenIsKnown, TargetIsOwn,
     RevokedIsGone, Busy, Idle, Tasks
<1>2. TurnInv => (restarts = 0 => RevokedIsGone)
  BY DEF TurnInv
<1> QED BY <1>1, <1>2, TurnStep, BaseHolds, PTL DEF Spec
===============================================================================
