----------------------------- MODULE CWToWAProofs -----------------------------
(***************************************************************************)
(* Theorems about the Chatwoot to WhatsApp bridge and about the inboxes    *)
(* its webhooks come from, for any messages, webhooks, sessions, limits    *)
(* and failures.                                                           *)
(***************************************************************************)
EXTENDS CWToWA, Inboxes, TLAPS

QP == INSTANCE QueueProofs WITH Msgs <- Hooks

------------------------------------------------------------------------------
(* What the bridge does to the queue is what the queue does.               *)

(* Every step of the bridge is a step of its queue or leaves it alone.     *)
LEMMA QueueStepped == [Next]_vars => [Q!Next]_(Q!vars)
<1> SUFFICES ASSUME [Next]_vars PROVE Q!Next \/ UNCHANGED queue
  BY DEF Q!vars, queue, Q!server, Q!consumer, Q!history
<1>1. CASE Next
  BY <1>1
  DEF Next, QueueStep, Start, LoadSessions, Connected, ConnectionLost, ProcessEnds,
      CheckHook, Enqueue, SendDirectly, LogError, SkipDuplicate, HandleSend,
      HandlerReturns, SendStep, DownloadFails, AttachmentFails, SendAttachment, SendText,
      Sends, TextFails, Echo, Save, Return, PhoneSends, MarkExpires, KeyExpires, Q!Next,
      Q!Lifecycle, Q!Publish, Q!Server, Q!Consume, Q!Handle
<1>2. CASE UNCHANGED vars
  BY <1>2 DEF vars
<1> QED BY <1>1, <1>2

(* The bridge implements the queue with its calls as the handler: what is  *)
(* proved of the queue holds of the one inside the bridge.                 *)
THEOREM RunsTheQueue == Spec => Q!Spec
<1>1. Init => Q!Init
  BY DEF Init
<1> QED BY <1>1, QueueStepped, PTL DEF Spec, Q!Spec

LEMMA QueueAssumed == QP!QueueAssumption
BY QueueAssumption DEF QP!QueueAssumption, QP!Copy, Q!Copy

LEMMA SameQueue ==
  /\ Q!Init <=> QP!Init
  /\ [Q!Next]_(Q!vars) <=> [QP!Next]_(QP!vars)
  /\ Q!RemovedOnlyWhenSettled <=> QP!RemovedOnlyWhenSettled
<1>1. UNCHANGED Q!vars <=> UNCHANGED QP!vars
  BY DEF Q!vars, QP!vars, Q!server, Q!consumer, Q!history, QP!server, QP!consumer, QP!history
<1>2. Q!Init <=> QP!Init
  BY DEF Q!Init, QP!Init
<1>3. Q!RemovedOnlyWhenSettled <=> QP!RemovedOnlyWhenSettled
  BY DEF Q!RemovedOnlyWhenSettled, QP!RemovedOnlyWhenSettled
<1>4. Q!Next <=> QP!Next
  BY DEF Q!Next, QP!Next, Q!Lifecycle, QP!Lifecycle, Q!Publish, QP!Publish, Q!Server,
    QP!Server, Q!Consume, QP!Consume, Q!Handle, QP!Handle, Q!Start, QP!Start, Q!Shutdown,
    QP!Shutdown, Q!LoopReturns, QP!LoopReturns, Q!Exit, QP!Exit, Q!Crash, QP!Crash,
    Q!PublishOk, QP!PublishOk, Q!PublishError, QP!PublishError, Q!Deliver, QP!Deliver,
    Q!AckExpires, QP!AckExpires, Q!AgeOut, QP!AgeOut, Q!Fetch, QP!Fetch,
    Q!FetchExpires, QP!FetchExpires, Q!Take, QP!Take, Q!HandlerSucceeds, QP!HandlerSucceeds,
    Q!HandlerFails, QP!HandlerFails, Q!HandlerGivesUp, QP!HandlerGivesUp, Q!Ack, QP!Ack,
    Q!Nak, QP!Nak, Q!PublishToDLQ, QP!PublishToDLQ, Q!LastDelivery, QP!LastDelivery,
    Q!MaxDeliver, QP!MaxDeliver, Q!Waiting, QP!Waiting, Q!Stranded, QP!Stranded,
    Q!InPlay, QP!InPlay, Q!server, Q!consumer, Q!history, QP!server, QP!consumer, QP!history
<1> QED BY <1>1, <1>2, <1>3, <1>4

(* The stream drops a job of the bridge only once it is settled.           *)
THEOREM BridgeSettles == Spec => []Q!RemovedOnlyWhenSettled
<1>1. QP!Spec => []QP!RemovedOnlyWhenSettled
  BY QP!RemovedIsSettled, QueueAssumed
<1>2. Q!Spec => QP!Spec
  <2>1. Q!Init => QP!Init
    BY SameQueue
  <2>2. [Q!Next]_(Q!vars) => [QP!Next]_(QP!vars)
    BY SameQueue
  <2> QED BY <2>1, <2>2, PTL DEF Q!Spec, QP!Spec
<1>3. QP!RemovedOnlyWhenSettled => Q!RemovedOnlyWhenSettled
  BY SameQueue
<1> QED BY <1>1, <1>2, <1>3, RunsTheQueue, PTL

------------------------------------------------------------------------------
(* Types, and what a call has done.                                        *)

(* A call that has sent something has no text left to send, and reports no *)
(* error; one that echoes or saves has sent.                               *)
CallsSound ==
  /\ hand = NoCopy => task[Consumer].pc = "idle"
  /\ \A t \in Tasks :
       /\ task[t].any => ~task[t].text
       /\ task[t].pc \in {"idle", "error"} => ~task[t].any
       /\ task[t].pc \in {"echo", "save"} => sent[MsgOf(t)] # <<>>

BridgeInv == TypeOK /\ CallsSound /\ SavedMeansSent

LEMMA QueueTypeStep == Q!TypeOK /\ [Next]_vars => Q!TypeOK'
<1>1. Q!TypeOK <=> QP!TypeOK
  BY DEF Q!TypeOK, QP!TypeOK, Q!Copy, QP!Copy
<1>2. Q!TypeOK' <=> QP!TypeOK'
  BY DEF Q!TypeOK, QP!TypeOK, Q!Copy, QP!Copy
<1>3. QP!TypeOK /\ [QP!Next]_(QP!vars) => QP!TypeOK'
  BY QP!TypeStep, QueueAssumed
<1> QED BY <1>1, <1>2, <1>3, QueueStepped, SameQueue

LEMMA MsgOfTyped ==
  ASSUME TypeOK, CallsSound, NEW t \in Tasks, task[t].pc # "idle" \/ hand # NoCopy
  PROVE  MsgOf(t) \in CwMsgs
BY BridgeAssumption DEF TypeOK, CallsSound, Q!TypeOK, Q!Copy, MsgOf, Tasks

(* A call is left with record r.                                           *)
Turns(t, r) == r \in TaskState /\ task' = [task EXCEPT ![t] = r]

LEMMA Written ==
  ASSUME task \in [Tasks -> TaskState], NEW t \in Tasks, NEW r, Turns(t, r)
  PROVE  /\ task' \in [Tasks -> TaskState] /\ \A u \in Tasks \ {t} : task'[u] = task[u]
         /\ task'[t] = r
BY DEF Turns

LEMMA LeavesPc ==
  ASSUME task \in [Tasks -> TaskState], NEW t \in Tasks,
         NEW pc \in {"save", "ok", "error"}, task' = [task EXCEPT ![t].pc = pc]
  PROVE  \E r : /\ Turns(t, r) /\ r.pc = pc /\ r.any = task[t].any
                /\ r.text = task[t].text /\ r.at = task[t].at /\ r.part = task[t].part
<1> DEFINE r == [task[t] EXCEPT !.pc = pc]
<1>1. /\ r \in TaskState /\ r.pc = pc /\ r.any = task[t].any /\ r.text = task[t].text
      /\ r.at = task[t].at /\ r.part = task[t].part
  BY DEF TaskState
<1>2. task' = [task EXCEPT ![t] = r]
  OBVIOUS
<1> HIDE DEF r
<1> QED BY <1>1, <1>2 DEF Turns

LEMMA LeavesBegun ==
  ASSUME task \in [Tasks -> TaskState], NEW t \in Tasks, NEW c, Begin(t, c)
  PROVE  \E r : Turns(t, r) /\ r.pc = "send" /\ r.any = FALSE /\ r.at = 1
<1> DEFINE b == c \in HasText
           r == [Idle EXCEPT !.pc = "send", !.text = b]
<1>1. b \in BOOLEAN
  OBVIOUS
<1>2. task' = [task EXCEPT ![t] = r]
  BY DEF Begin
<1> HIDE DEF b
<1>3. Idle \in TaskState /\ Idle.any = FALSE /\ Idle.at = 1
  BY DEF Idle, TaskState
<1>4. r \in TaskState /\ r.pc = "send" /\ r.any = FALSE /\ r.at = 1
  BY <1>1, <1>3 DEF TaskState
<1> HIDE DEF r
<1> QED BY <1>2, <1>4 DEF Turns

LEMMA LeavesNext ==
  ASSUME task \in [Tasks -> TaskState], NEW t \in Tasks, DownloadFails(t) \/ AttachmentFails(t)
  PROVE  \E r : /\ Turns(t, r) /\ r.pc = "send" /\ r.any = task[t].any
                /\ r.text => task[t].text
                /\ task[t].pc = "send" /\ r.at = task[t].at + 1
<1>1. CASE DownloadFails(t)
  <2> DEFINE r == [task[t] EXCEPT !.at = @ + 1]
  <2>1. /\ r \in TaskState /\ r.pc = "send" /\ r.any = task[t].any /\ r.text = task[t].text
        /\ task[t].pc = "send" /\ r.at = task[t].at + 1
    BY <1>1 DEF TaskState, DownloadFails
  <2>2. task' = [task EXCEPT ![t] = r]
    BY <1>1 DEF DownloadFails
  <2> HIDE DEF r
  <2> QED BY <2>1, <2>2 DEF Turns
<1>2. CASE AttachmentFails(t)
  <2> DEFINE n == task[t].at + 1
             r == [task[t] EXCEPT !.at = n, !.text = FALSE]
  <2>1. n \in Nat /\ task[t].pc = "send"
    BY <1>2 DEF TaskState, AttachmentFails
  <2>2. task' = [task EXCEPT ![t] = r]
    BY <1>2 DEF AttachmentFails
  <2> HIDE DEF n
  <2>3. /\ r \in TaskState /\ r.pc = "send" /\ r.any = task[t].any /\ r.text = FALSE
        /\ r.at = n
    BY <2>1 DEF TaskState
  <2> HIDE DEF r
  <2> QED BY <2>1, <2>2, <2>3 DEF Turns, n
<1> QED BY <1>1, <1>2

LEMMA LeavesSent ==
  ASSUME task \in [Tasks -> TaskState], NEW t \in Tasks, NEW part \in Nat, NEW withText,
         Sends(t, part, withText)
  PROVE  \E r : /\ Turns(t, r) /\ r.pc = "echo" /\ r.any = TRUE /\ r.text = FALSE
                /\ r.part = part /\ r.at = task[t].at
<1> DEFINE r == [task[t] EXCEPT !.pc = "echo", !.text = FALSE, !.part = part, !.any = TRUE]
<1>1. /\ r \in TaskState /\ r.pc = "echo" /\ r.any = TRUE /\ r.text = FALSE
      /\ r.part = part /\ r.at = task[t].at
  BY DEF TaskState
<1>2. task' = [task EXCEPT ![t] = r]
  BY DEF Sends
<1> HIDE DEF r
<1> QED BY <1>1, <1>2 DEF Turns

LEMMA LeavesSaved ==
  ASSUME task \in [Tasks -> TaskState], NEW t \in Tasks, Save(t)
  PROVE  \E r : /\ Turns(t, r) /\ r.pc = "send" /\ r.any = task[t].any
                /\ r.text = task[t].text
                /\ r.at = IF task[t].part = 0 THEN task[t].at ELSE task[t].at + 1
<1> DEFINE n == IF task[t].part = 0 THEN task[t].at ELSE task[t].at + 1
           r == [task[t] EXCEPT !.pc = "send", !.at = n]
<1>1. n \in Nat
  BY DEF TaskState
<1>2. task' = [task EXCEPT ![t] = r]
  BY DEF Save
<1> HIDE DEF n
<1>3. /\ r \in TaskState /\ r.pc = "send" /\ r.any = task[t].any
      /\ r.text = task[t].text /\ r.at = n
  BY <1>1 DEF TaskState
<1> HIDE DEF r
<1> QED BY <1>2, <1>3 DEF Turns, n

LEMMA LeavesReturned ==
  ASSUME task \in [Tasks -> TaskState], NEW t \in Tasks, Return(t)
  PROVE  \E r : /\ Turns(t, r) /\ r.pc \in {"ok", "idle"} /\ (r.any => task[t].any)
                /\ ~r.text /\ (r.pc = "idle" => ~r.any)
<1>1. CASE t = Consumer
  <2> DEFINE r == [task[t] EXCEPT !.pc = "ok"]
  <2>1. r \in TaskState /\ r.pc = "ok" /\ r.any = task[t].any /\ ~r.text
    BY DEF TaskState, Return
  <2>2. task' = [task EXCEPT ![t] = r]
    BY <1>1 DEF Return
  <2> HIDE DEF r
  <2> QED BY <2>1, <2>2 DEF Turns
<1>2. CASE t # Consumer
  <2>1. task' = [task EXCEPT ![t] = Idle]
    BY <1>2 DEF Return
  <2>2. Idle \in TaskState /\ Idle.pc = "idle" /\ Idle.any = FALSE /\ Idle.text = FALSE
    BY DEF Idle, TaskState
  <2> QED BY <2>1, <2>2 DEF Turns
<1> QED BY <1>1, <1>2

(* A step of one call leaves the others what they did.                     *)
LEMMA CallMoves ==
  ASSUME TypeOK, CallsSound, SavedMeansSent, NEW t \in Tasks, NEW r, Turns(t, r),
         UNCHANGED hand, t = Consumer => hand # NoCopy, r.any => ~r.text,
         r.pc \in {"idle", "error"} => ~r.any,
         r.pc \in {"echo", "save"} => sent'[MsgOf(t)] # <<>>,
         \A c : sent[c] # <<>> => sent'[c] # <<>>,
         \A c \in saved' : c \in saved \/ sent'[c] # <<>>
  PROVE  CallsSound' /\ SavedMeansSent' /\ task' \in [Tasks -> TaskState]
<1>1. /\ task' \in [Tasks -> TaskState] /\ \A u \in Tasks \ {t} : task'[u] = task[u]
      /\ task'[t] = r
  BY Written DEF TypeOK
<1>2. \A u \in Tasks : MsgOf(u)' = MsgOf(u)
  BY DEF MsgOf
<1>3. CallsSound'
  BY <1>1, <1>2 DEF CallsSound, Tasks
<1>4. SavedMeansSent'
  BY DEF SavedMeansSent
<1> QED BY <1>1, <1>3, <1>4

LEMMA BridgeStep == BridgeInv /\ [Next]_vars => BridgeInv'
<1> SUFFICES ASSUME TypeOK, CallsSound, SavedMeansSent, [Next]_vars
             PROVE  BridgeInv'
  BY DEF BridgeInv
<1>0. Q!TypeOK'
  BY QueueTypeStep DEF TypeOK
(* Every step but those of a call.                                         *)
<1>1. ASSUME UNCHANGED <<task, sent, saved>>, hand' = hand \/ hand = NoCopy
      PROVE  CallsSound' /\ SavedMeansSent' /\ task' \in [Tasks -> TaskState]
  <2>1. \A t \in Tasks : task[t].pc # "idle" => MsgOf(t)' = MsgOf(t)
    BY <1>1 DEF CallsSound, MsgOf
  <2> QED BY <1>1, <2>1 DEF CallsSound, SavedMeansSent, TypeOK
<1>2. CASE \/ Start \/ QueueStep(Q!Shutdown) \/ QueueStep(Q!LoopReturns)
           \/ QueueStep(Q!Fetch) \/ QueueStep(Q!FetchExpires) \/ QueueStep(Q!Take)
           \/ \E h \in Hooks : QueueStep(Q!Server(h))
  <2>1. UNCHANGED <<bridge, memory>>
    BY <1>2 DEF QueueStep, Start
  <2>2. hand' = hand \/ hand = NoCopy
    BY <1>2
    DEF QueueStep, Start, Q!Start, Q!Shutdown, Q!LoopReturns, Q!Fetch, Q!FetchExpires,
        Q!Take, Q!Server, Q!Deliver, Q!AckExpires, Q!AgeOut, Q!consumer
  <2>3. CallsSound' /\ SavedMeansSent'
    BY <1>1, <2>1, <2>2 DEF bridge, memory
  <2> QED BY <1>0, <2>1, <2>3 DEF BridgeInv, TypeOK, bridge, memory
<1>3. CASE LoadSessions \/ Connected \/ ConnectionLost
  <2>1. UNCHANGED <<queue, hook, saved, sent, leaked, phone, keys, marks, task>>
    BY <1>3 DEF LoadSessions, Connected, ConnectionLost, bridge
  <2>2. CallsSound' /\ SavedMeansSent'
    BY <1>1, <2>1 DEF queue
  <2>3. sess' \in {"absent", "disconnected", "connected"} /\ flaps' \in 0 .. SessionFlaps
    BY <1>3, BridgeAssumption DEF LoadSessions, Connected, ConnectionLost, bridge, TypeOK
  <2> QED BY <1>0, <2>1, <2>2, <2>3 DEF BridgeInv, TypeOK
<1>4. CASE ProcessEnds
  <2>1. task' = [t \in Tasks |-> Idle] /\ UNCHANGED <<flaps, saved, sent, leaked, phone>>
    BY <1>4 DEF ProcessEnds, Forget
  <2>2. /\ Idle \in TaskState /\ Idle.pc = "idle" /\ Idle.any = FALSE
        /\ Consumer \in Tasks
    BY DEF Idle, TaskState, Tasks
  <2>3. \A t \in Tasks : task'[t] = Idle
    BY <2>1
  <2>4. CallsSound' /\ SavedMeansSent' /\ task' \in [Tasks -> TaskState]
    BY <2>1, <2>2, <2>3 DEF CallsSound, SavedMeansSent
  <2>5. /\ sess' = "absent" /\ keys' = {} /\ marks' = {}
        /\ hook' = [h \in Hooks |-> IF hook[h] = "checked" THEN "ignored" ELSE hook[h]]
    BY <1>4 DEF ProcessEnds, Forget
  <2> QED BY <1>0, <2>1, <2>4, <2>5 DEF BridgeInv, TypeOK
<1>5. CASE \E h \in Hooks : CheckHook(h) \/ Enqueue(h)
  <2>1. /\ UNCHANGED <<flaps, saved, sent, leaked, phone, memory, hand>>
        /\ hook' \in [Hooks -> {"due", "checked", "ignored", "queued", "direct"}]
    BY <1>5 DEF CheckHook, Enqueue, queue, Q!PublishOk, Q!consumer, TypeOK
  <2>2. CallsSound' /\ SavedMeansSent'
    BY <1>1, <2>1 DEF memory
  <2> QED BY <1>0, <2>1, <2>2 DEF BridgeInv, TypeOK, memory
<1>6. CASE \/ \E p \in PhoneMsgs : PhoneSends(p)
           \/ \E c \in CwMsgs : MarkExpires(c) \/ KeyExpires(c)
  <2>1. /\ UNCHANGED <<queue, flaps, hook, saved, sent, leaked, sess, task>>
        /\ phone' \in [PhoneMsgs -> {"unsent", "forwarded", "skipped"}]
        /\ marks' \subseteq marks /\ keys' \subseteq keys
    BY <1>6 DEF PhoneSends, MarkExpires, KeyExpires, TypeOK, bridge, memory
  <2>2. CallsSound' /\ SavedMeansSent'
    BY <1>1, <2>1 DEF queue
  <2> QED BY <1>0, <2>1, <2>2 DEF BridgeInv, TypeOK
(* The steps of a call.                                                    *)
<1>7. ASSUME NEW h \in Hooks, SendDirectly(h) PROVE BridgeInv'
  <2>1. /\ UNCHANGED <<flaps, saved, sent, leaked, phone, sess, keys, hand>>
        /\ hook' \in [Hooks -> {"due", "checked", "ignored", "queued", "direct"}]
        /\ marks' \subseteq CwMsgs /\ h # Consumer /\ h \in Tasks
    BY <1>7, BridgeAssumption
    DEF SendDirectly, Begin, queue, Q!PublishError, Q!consumer, TypeOK, Tasks
  <2>2. PICK r : Turns(h, r) /\ r.pc = "send" /\ r.any = FALSE
    BY <1>7, <2>1, LeavesBegun DEF SendDirectly, TypeOK
  <2>3. CallsSound' /\ SavedMeansSent' /\ task' \in [Tasks -> TaskState]
    BY <2>1, <2>2, CallMoves DEF SavedMeansSent
  <2> QED BY <1>0, <2>1, <2>3 DEF BridgeInv, TypeOK
<1>8. CASE SkipDuplicate \/ HandleSend
  <2>1. /\ UNCHANGED <<queue, bridge, sess>> /\ hand # NoCopy /\ Consumer \in Tasks
        /\ task[Consumer].pc = "idle"
    BY <1>8 DEF SkipDuplicate, HandleSend, InHandler, Tasks
  <2>2. MsgOf(Consumer) \in CwMsgs
    BY <2>1, MsgOfTyped
  <2>3. keys' \subseteq CwMsgs /\ marks' \subseteq CwMsgs
    BY <1>8, <2>2 DEF SkipDuplicate, HandleSend, Begin, TypeOK
  <2>4. PICK r : /\ Turns(Consumer, r) /\ r.pc \in {"send", "ok", "error"}
                 /\ \/ r.any = FALSE
                    \/ r.any = task[Consumer].any /\ r.text = task[Consumer].text
    <3>1. CASE Begin(Consumer, MsgOf(Consumer))
      BY <2>1, <3>1, LeavesBegun DEF TypeOK
    <3>2. CASE task' = [task EXCEPT ![Consumer].pc = "ok"]
      BY ZenonT(60), <2>1, <3>2, LeavesPc DEF TypeOK
    <3>3. CASE task' = [task EXCEPT ![Consumer].pc = "error"]
      BY <2>1, <3>3, LeavesPc DEF TypeOK
    <3> QED BY <1>8, <3>1, <3>2, <3>3 DEF SkipDuplicate, HandleSend
  <2>5. ~task[Consumer].any
    BY <2>1 DEF CallsSound
  <2>6. CallsSound' /\ SavedMeansSent' /\ task' \in [Tasks -> TaskState]
    BY <2>1, <2>4, <2>5, CallMoves DEF queue, bridge, SavedMeansSent
  <2> QED BY <1>0, <2>1, <2>3, <2>6 DEF BridgeInv, TypeOK, bridge
<1>9. CASE HandlerReturns
  <2>1. task' = [task EXCEPT ![Consumer] = Idle] /\ UNCHANGED <<bridge, sess, keys, marks>>
    BY <1>9 DEF HandlerReturns
  <2>2. Idle \in TaskState /\ Idle.pc = "idle" /\ Idle.any = FALSE /\ Consumer \in Tasks
    BY DEF Idle, TaskState, Tasks
  <2>3. /\ task' \in [Tasks -> TaskState] /\ task'[Consumer] = Idle
        /\ \A u \in Tasks \ {Consumer} : task'[u] = task[u]
    BY <2>1, <2>2 DEF TypeOK
  <2>4. \A u \in Tasks \ {Consumer} : MsgOf(u)' = MsgOf(u)
    BY DEF MsgOf
  <2>5. CallsSound' /\ SavedMeansSent'
    BY <2>1, <2>2, <2>3, <2>4 DEF CallsSound, SavedMeansSent, bridge
  <2> QED BY <1>0, <2>1, <2>3, <2>5 DEF BridgeInv, TypeOK, bridge
<1>10. ASSUME NEW h \in Hooks, LogError(h) PROVE BridgeInv'
  <2>1. /\ task' = [task EXCEPT ![h] = Idle] /\ UNCHANGED <<queue, bridge, sess, keys, marks>>
        /\ h \in Tasks /\ h # Consumer
    BY <1>10, BridgeAssumption DEF LogError, Tasks
  <2>2. Idle \in TaskState /\ Idle.pc = "idle" /\ Idle.any = FALSE
    BY DEF Idle, TaskState
  <2>3. CallsSound' /\ SavedMeansSent' /\ task' \in [Tasks -> TaskState]
    BY <2>1, <2>2, CallMoves DEF Turns, queue, bridge, SavedMeansSent
  <2> QED BY <1>0, <2>1, <2>3 DEF BridgeInv, TypeOK, bridge
<1>11. ASSUME NEW t \in Tasks, SendStep(t) PROVE BridgeInv'
  <2>1. /\ UNCHANGED <<queue, flaps, hook, phone, sess, keys>> /\ task[t].pc # "idle"
        /\ task[t].pc # "error" /\ task[t] \in TaskState
    BY <1>11
    DEF SendStep, DownloadFails, AttachmentFails, SendAttachment, SendText, TextFails, Echo,
        Save, Return, Sends, bridge, TypeOK
  <2>2. /\ MsgOf(t) \in CwMsgs /\ (t = Consumer => hand # NoCopy)
        /\ task[t].any => ~task[t].text
    BY <2>1, MsgOfTyped DEF CallsSound
  <2>3. SUFFICES /\ CallsSound' /\ SavedMeansSent' /\ task' \in [Tasks -> TaskState]
                 /\ saved' \subseteq CwMsgs /\ leaked' \subseteq CwMsgs
                 /\ marks' \subseteq CwMsgs
                 /\ sent' \in [CwMsgs -> Seq([part : Nat, text : BOOLEAN])]
    BY <1>0, <2>1 DEF BridgeInv, TypeOK
  <2>4. CASE DownloadFails(t) \/ AttachmentFails(t)
    <3>1. PICK r : /\ Turns(t, r) /\ r.pc = "send" /\ r.any = task[t].any
                   /\ r.text => task[t].text
      BY <2>4, LeavesNext DEF TypeOK
    <3>2. UNCHANGED <<saved, sent, leaked, marks, hand>>
      BY <2>4 DEF DownloadFails, AttachmentFails, bridge, queue
    <3>3. CallsSound' /\ SavedMeansSent' /\ task' \in [Tasks -> TaskState]
      BY <2>2, <3>1, <3>2, CallMoves DEF SavedMeansSent
    <3> QED BY <3>2, <3>3 DEF TypeOK
  <2>5. CASE SendAttachment(t) \/ SendText(t)
    <3>1. PICK part \in Nat, b \in BOOLEAN : Sends(t, part, b)
      <4>1. CASE SendAttachment(t)
        <5>1. task[t].at \in Nat
          BY <2>1 DEF TaskState
        <5>2. (task[t].text /\ Kind(t) = "media") \in BOOLEAN
          OBVIOUS
        <5> QED BY <4>1, <5>1, <5>2 DEF SendAttachment
      <4>2. CASE SendText(t)
        BY <4>2 DEF SendText
      <4> QED BY <2>5, <4>1, <4>2
    <3>2. PICK r : /\ Turns(t, r) /\ r.pc = "echo" /\ r.any = TRUE /\ r.text = FALSE
      BY ZenonT(60), <3>1, LeavesSent DEF TypeOK
    <3> DEFINE c == MsgOf(t)
               x == [part |-> part, text |-> b]
    <3>3. /\ sent' = [sent EXCEPT ![c] = Append(sent[c], x)]
          /\ UNCHANGED <<saved, leaked, marks, hand>>
      BY <3>1 DEF Sends, queue
    <3>4. x \in [part : Nat, text : BOOLEAN]
      BY <3>1
    <3> HIDE DEF x
    <3>5. c \in CwMsgs /\ sent[c] \in Seq([part : Nat, text : BOOLEAN])
      BY <2>2 DEF TypeOK
    <3> HIDE DEF c
    <3>6. /\ Append(sent[c], x) \in Seq([part : Nat, text : BOOLEAN])
          /\ Append(sent[c], x) # <<>>
      BY <3>4, <3>5
    <3>7. /\ sent' \in [CwMsgs -> Seq([part : Nat, text : BOOLEAN])]
          /\ sent'[c] # <<>> /\ \A d : sent[d] # <<>> => sent'[d] # <<>>
      <4> DEFINE s == Append(sent[c], x)
      <4>1. sent' = [sent EXCEPT ![c] = s]
        BY <3>3
      <4>2. s \in Seq([part : Nat, text : BOOLEAN]) /\ s # <<>>
        BY <3>6
      <4> HIDE DEF s
      <4> QED BY <3>5, <4>1, <4>2 DEF TypeOK
    <3>8. CallsSound' /\ SavedMeansSent' /\ task' \in [Tasks -> TaskState]
      BY <2>2, <3>2, <3>3, <3>7, CallMoves DEF SavedMeansSent, c
    <3> QED BY <3>3, <3>7, <3>8 DEF TypeOK
  <2>6. CASE TextFails(t)
    <3>1. PICK r : /\ Turns(t, r) /\ r.pc = "error" /\ r.any = task[t].any
                   /\ r.text = task[t].text
      BY <2>6, LeavesPc DEF TextFails, TypeOK
    <3>2. UNCHANGED <<saved, sent, leaked, hand>> /\ marks' \subseteq marks /\ task[t].text
      BY <2>6 DEF TextFails, bridge, queue
    <3>3. CallsSound' /\ SavedMeansSent' /\ task' \in [Tasks -> TaskState]
      BY <2>2, <3>1, <3>2, CallMoves DEF SavedMeansSent
    <3> QED BY <3>2, <3>3 DEF TypeOK
  <2>7. CASE Echo(t)
    <3>1. PICK r : /\ Turns(t, r) /\ r.pc = "save" /\ r.any = task[t].any
                   /\ r.text = task[t].text
      BY ZenonT(60), <2>7, LeavesPc DEF Echo, TypeOK
    <3>2. /\ UNCHANGED <<saved, sent, marks, hand>> /\ sent[MsgOf(t)] # <<>>
          /\ leaked' \subseteq CwMsgs
      BY <2>2, <2>7 DEF Echo, CallsSound, TypeOK, queue
    <3>3. CallsSound' /\ SavedMeansSent' /\ task' \in [Tasks -> TaskState]
      BY <2>2, <3>1, <3>2, CallMoves DEF SavedMeansSent
    <3> QED BY <3>2, <3>3 DEF TypeOK
  <2>8. CASE Save(t)
    <3>1. PICK r : /\ Turns(t, r) /\ r.pc = "send" /\ r.any = task[t].any
                   /\ r.text = task[t].text
      BY <2>8, LeavesSaved DEF TypeOK
    <3>2. /\ UNCHANGED <<sent, leaked, marks, hand>> /\ sent[MsgOf(t)] # <<>>
          /\ saved' \subseteq saved \cup {MsgOf(t)}
      BY <2>8 DEF Save, CallsSound, queue
    <3>3. CallsSound' /\ SavedMeansSent' /\ task' \in [Tasks -> TaskState]
      BY <2>2, <3>1, <3>2, CallMoves DEF SavedMeansSent
    <3> QED BY <2>2, <3>2, <3>3 DEF TypeOK
  <2>9. CASE Return(t)
    <3>1. PICK r : /\ Turns(t, r) /\ r.pc \in {"ok", "idle"} /\ (r.any => task[t].any)
                   /\ ~r.text /\ (r.pc = "idle" => ~r.any)
      BY <2>9, LeavesReturned DEF TypeOK
    <3>2. UNCHANGED <<saved, sent, leaked, hand>> /\ marks' \subseteq marks
      BY <2>9 DEF Return, bridge, queue
    <3>3. CallsSound' /\ SavedMeansSent' /\ task' \in [Tasks -> TaskState]
      BY <2>2, <3>1, <3>2, CallMoves DEF SavedMeansSent
    <3> QED BY <3>2, <3>3 DEF TypeOK
  <2> QED BY <1>11, <2>4, <2>5, <2>6, <2>7, <2>8, <2>9 DEF SendStep
<1>12. CASE UNCHANGED vars
  BY <1>0, <1>1, <1>12 DEF vars, queue, bridge, memory, BridgeInv, TypeOK
<1> QED
  BY <1>2, <1>3, <1>4, <1>5, <1>6, <1>7, <1>8, <1>9, <1>10, <1>11, <1>12 DEF Next

LEMMA BridgeStarts == Init => BridgeInv
<1> SUFFICES ASSUME Init PROVE BridgeInv
  OBVIOUS
<1>1. Q!TypeOK
  BY QueueAssumption DEF Init, Q!Init, Q!TypeOK
<1>2. Idle \in TaskState /\ Idle.pc = "idle" /\ Idle.any = FALSE /\ Consumer \in Tasks
  BY DEF Idle, TaskState, Tasks
<1>3. TypeOK
  BY <1>1, <1>2, BridgeAssumption DEF Init, TypeOK
<1>4. CallsSound /\ SavedMeansSent
  BY <1>2 DEF Init, CallsSound, SavedMeansSent
<1> QED BY <1>3, <1>4 DEF BridgeInv

LEMMA BridgeHolds == Spec => []BridgeInv
BY BridgeStarts, BridgeStep, PTL DEF Spec

(* The types of the bridge hold.                                           *)
THEOREM BridgeTyped == Spec => []TypeOK
<1>1. BridgeInv => TypeOK
  BY DEF BridgeInv
<1> QED BY <1>1, BridgeHolds, PTL

(* A call that asks the queue for another try has sent nothing, and a row  *)
(* that turns webhooks away is of a message WhatsApp has a part of.        *)
THEOREM OutcomesHold == Spec => []OutcomesTrue
<1>1. BridgeInv => OutcomesTrue
  <2> SUFFICES ASSUME BridgeInv PROVE ErrorMeansNothingSent /\ SavedMeansSent
    BY DEF OutcomesTrue
  <2>1. DOMAIN task = Tasks
    BY DEF BridgeInv, TypeOK
  <2> QED BY <2>1 DEF BridgeInv, CallsSound, ErrorMeansNothingSent
<1> QED BY <1>1, BridgeHolds, PTL

------------------------------------------------------------------------------
(* Marks and echoes.                                                       *)

(* No mark or key expires, a publish tells whether it stored its message,  *)
(* and a message has one webhook.                                          *)
Calm == ~Slow /\ ~BrokerFaults /\ \A g, h \in Hooks : Cw[g] = Cw[h] => g = h

(* A message takes the queue or a goroutine, never both.                   *)
Routed ==
  /\ \A h \in Hooks : stored[h] # "none" => hook[h] = "queued"
  /\ hand # NoCopy => stored[hand.msg] # "none"
  /\ \A i \in DOMAIN buf : stored[buf[i].msg] # "none"
  /\ \A h \in Hooks : task[h].pc # "idle" => hook[h] = "direct"

MarkInv == Routed /\ MarkedWhileSending /\ NoEcho

(* The copies come from the queue, one at a time.                          *)
HandTakes ==
  \/ hand' \in {hand, NoCopy}
  \/ buf # <<>> /\ hand' = Head(buf)

BufMoves ==
  \/ buf' \in {buf, <<>>}
  \/ buf # <<>> /\ buf' = Tail(buf)
  \/ \E m \in Hooks, n \in Nat : /\ stored[m] # "none"
                                 /\ buf' = Append(buf, [msg |-> m, n |-> n])

(* The queue's steps neither lose nor invent a stored message.             *)
LEMMA CopiesStored ==
  ASSUME TypeOK, Routed, \A m \in Hooks : stored'[m] # "none" <=> stored[m] # "none",
         UNCHANGED hook, \A h \in Hooks : task'[h].pc # "idle" => task[h].pc # "idle",
         HandTakes, BufMoves
  PROVE  Routed'
<1> USE DEF TypeOK, Q!TypeOK, Q!Copy
<1>1. \A i \in DOMAIN buf : buf[i].msg \in Hooks
  <2> DEFINE C == Q!Copy
  <2>1. buf \in Seq(C)
    OBVIOUS
  <2>2. \A x \in C : x.msg \in Hooks
    OBVIOUS
  <2> HIDE DEF C
  <2> QED BY <2>1, <2>2
<1>2. hand' # NoCopy => hand'.msg \in Hooks /\ stored'[hand'.msg] # "none"
  <2>1. CASE hand' \in {hand, NoCopy}
    BY <2>1 DEF Routed
  <2>2. CASE buf # <<>> /\ hand' = Head(buf)
    <3>1. 1 \in DOMAIN buf /\ hand' = buf[1]
      BY <2>2
    <3> QED BY <1>1, <3>1 DEF Routed
  <2> QED BY <2>1, <2>2 DEF HandTakes
<1>3. \A i \in DOMAIN buf' : stored'[buf'[i].msg] # "none"
  <2>1. CASE buf' \in {buf, <<>>}
    BY <1>1, <2>1 DEF Routed
  <2>2. CASE buf # <<>> /\ buf' = Tail(buf)
    <3>1. \A i \in DOMAIN buf' : i + 1 \in DOMAIN buf /\ buf'[i] = buf[i + 1]
      BY <2>2
    <3> QED BY <1>1, <3>1 DEF Routed
  <2>3. ASSUME NEW m \in Hooks, NEW n \in Nat, stored[m] # "none",
               buf' = Append(buf, [msg |-> m, n |-> n])
        PROVE  \A i \in DOMAIN buf' : stored'[buf'[i].msg] # "none"
    <3> DEFINE x == [msg |-> m, n |-> n]
    <3>1. x.msg = m /\ buf' = Append(buf, x)
      BY <2>3
    <3> HIDE DEF x
    <3>2. \A i \in DOMAIN buf' : (i \in DOMAIN buf /\ buf'[i] = buf[i]) \/ buf'[i] = x
      BY <3>1
    <3> QED BY <1>1, <2>3, <3>1, <3>2 DEF Routed
  <2> QED BY <2>1, <2>2, <2>3 DEF BufMoves
<1> QED BY <1>2, <1>3 DEF Routed

(* What the queue's steps do to its messages and copies.                   *)
LEMMA QueueStores ==
  ASSUME TypeOK, ~BrokerFaults,
         \/ Q!Start \/ Q!Shutdown \/ Q!LoopReturns \/ Q!Exit \/ Q!Crash
         \/ Q!Fetch \/ Q!FetchExpires \/ Q!Take \/ Q!Handle
         \/ \E h \in Hooks : Q!Server(h)
  PROVE  /\ \A m \in Hooks : stored'[m] # "none" <=> stored[m] # "none"
         /\ HandTakes /\ BufMoves
<1> USE DEF TypeOK, Q!TypeOK, HandTakes, BufMoves
<1>1. CASE Q!Start \/ Q!Shutdown \/ Q!LoopReturns \/ Q!Exit \/ Q!Crash \/ Q!Fetch
           \/ Q!FetchExpires \/ Q!Take
  BY <1>1 DEF Q!Start, Q!Shutdown, Q!LoopReturns, Q!Exit, Q!Crash, Q!Fetch, Q!FetchExpires,
     Q!Take, Q!server, Q!consumer
<1>2. CASE Q!Handle
  BY <1>2 DEF Q!Handle, Q!HandlerSucceeds, Q!HandlerFails, Q!HandlerGivesUp, Q!Ack, Q!Nak,
     Q!Waiting
<1>3. ASSUME NEW h \in Hooks, Q!Deliver(h)
      PROVE  /\ \A m \in Hooks : stored'[m] # "none" <=> stored[m] # "none"
             /\ hand' = hand
             /\ \E m \in Hooks, n \in Nat : /\ stored[m] # "none"
                                            /\ buf' = Append(buf, [msg |-> m, n |-> n])
  <2>1. dc[h] + 1 \in Nat
    OBVIOUS
  <2>2. stored[h] # "none" /\ buf' = Append(buf, [msg |-> h, n |-> dc[h] + 1])
    BY <1>3 DEF Q!Deliver
  <2>3. hand' = hand /\ \A m \in Hooks : stored'[m] # "none" <=> stored[m] # "none"
    BY <1>3 DEF Q!Deliver
  <2> QED BY <2>1, <2>2, <2>3
<1>4. ASSUME NEW h \in Hooks, Q!AckExpires(h) \/ Q!AgeOut(h)
      PROVE  /\ \A m \in Hooks : stored'[m] # "none" <=> stored[m] # "none"
             /\ hand' = hand /\ buf' = buf
  BY <1>4 DEF Q!AckExpires, Q!AgeOut, Q!Waiting, Q!consumer
<1> QED BY <1>1, <1>2, <1>3, <1>4 DEF Q!Server

(* A call that has a message in hand.                                      *)
Engaged(t) == IF t = Consumer THEN hand # NoCopy ELSE task[t].pc # "idle"

(* One call at a time has a message in hand.                               *)
LEMMA OneSender ==
  ASSUME TypeOK, Routed, Calm, NEW t \in Tasks, NEW u \in Tasks, Engaged(t), Engaged(u),
         MsgOf(t) = MsgOf(u)
  PROVE  t = u
<1>1. hand # NoCopy => hand.msg \in Hooks
  BY DEF TypeOK, Q!TypeOK, Q!Copy
<1>2. ASSUME NEW h \in Hooks, task[h].pc # "idle", hand # NoCopy, Cw[h] = Cw[hand.msg]
      PROVE  FALSE
  <2>1. h = hand.msg
    BY <1>1, <1>2 DEF Calm
  <2>2. hook[h] = "queued" /\ hook[h] = "direct"
    BY <1>2, <2>1 DEF Routed
  <2> QED BY <2>2
<1>3. CASE t = Consumer /\ u # Consumer
  BY <1>2, <1>3 DEF Engaged, MsgOf, Tasks
<1>4. CASE t # Consumer /\ u = Consumer
  BY <1>2, <1>4 DEF Engaged, MsgOf, Tasks
<1>5. CASE t # Consumer /\ u # Consumer
  BY <1>5 DEF Calm, MsgOf, Tasks
<1> QED BY <1>3, <1>4, <1>5

LEMMA SendersEngaged ==
  ASSUME CallsSound, NEW t \in Tasks, task[t].pc # "idle" PROVE Engaged(t)
BY DEF CallsSound, Engaged

(* Steps that begin and end no send.                                       *)
LEMMA SendsStay ==
  ASSUME MarkedWhileSending, UNCHANGED marks,
         \A t \in Tasks : /\ Sending(t)' <=> Sending(t)
                          /\ Sending(t) => MsgOf(t)' = MsgOf(t)
  PROVE  MarkedWhileSending'
BY DEF MarkedWhileSending

(* A send begins with its mark, and takes it away when it ends.            *)
LEMMA SendMoves ==
  ASSUME TypeOK, MarkedWhileSending, NEW t \in Tasks, NEW r, Turns(t, r), UNCHANGED hand,
         \A u \in Tasks \ {t} : Sending(u) => MsgOf(u) # MsgOf(t),
         marks' = IF r.pc \in {"send", "echo", "save"} THEN marks \cup {MsgOf(t)}
                                                       ELSE marks \ {MsgOf(t)}
  PROVE  MarkedWhileSending'
<1>1. /\ \A u \in Tasks \ {t} : task'[u] = task[u] /\ task'[t] = r
  BY Written DEF TypeOK
<1>2. \A u \in Tasks : MsgOf(u)' = MsgOf(u)
  BY DEF MsgOf
<1>3. \A u \in Tasks \ {t} : Sending(u)' <=> Sending(u)
  BY <1>1 DEF Sending
<1>4. Sending(t)' <=> r.pc \in {"send", "echo", "save"}
  <2>1. task'[t] = r
    BY Written DEF TypeOK
  <2> QED BY <2>1 DEF Sending
<1>5. CASE r.pc \in {"send", "echo", "save"}
  BY <1>2, <1>3, <1>4, <1>5 DEF MarkedWhileSending
<1>6. CASE r.pc \notin {"send", "echo", "save"}
  BY <1>2, <1>3, <1>4, <1>6 DEF MarkedWhileSending
<1> QED BY <1>5, <1>6

LEMMA MarkStep ==
  ASSUME BridgeInv, MarkInv, Calm, [Next]_vars PROVE MarkInv'
<1> USE DEF BridgeInv, MarkInv
<1>0. /\ Consumer \in Tasks /\ Hooks \subseteq Tasks /\ Consumer \notin Hooks
      /\ \A t \in Tasks : t # Consumer => t \in Hooks
  BY BridgeAssumption DEF Tasks
(* Steps that end and begin no send.                                       *)
<1>1. ASSUME UNCHANGED <<task, marks>>, hand' = hand \/ task[Consumer].pc = "idle"
      PROVE  MarkedWhileSending'
  <2>1. \A t \in Tasks : /\ Sending(t)' <=> Sending(t)
                         /\ Sending(t) => MsgOf(t)' = MsgOf(t)
    BY <1>1 DEF Sending, MsgOf
  <2> QED BY <1>1, <2>1, SendsStay
<1>2. CASE \/ Start \/ QueueStep(Q!Shutdown) \/ QueueStep(Q!LoopReturns)
           \/ QueueStep(Q!Fetch) \/ QueueStep(Q!FetchExpires) \/ QueueStep(Q!Take)
           \/ \E h \in Hooks : QueueStep(Q!Server(h))
  <2>1. UNCHANGED <<hook, leaked, task, marks>>
    BY <1>2 DEF QueueStep, Start, bridge, memory
  <2>2. \/ Q!Start \/ Q!Shutdown \/ Q!LoopReturns \/ Q!Fetch \/ Q!FetchExpires \/ Q!Take
        \/ \E h \in Hooks : Q!Server(h)
    BY <1>2 DEF QueueStep, Start
  <2>3. Routed'
    BY <2>1, <2>2, QueueStores, CopiesStored DEF Calm
  <2>4. hand' = hand \/ hand = NoCopy
    BY <2>2 DEF Q!Start, Q!Shutdown, Q!LoopReturns, Q!Fetch, Q!FetchExpires,
        Q!Take, Q!Server, Q!Deliver, Q!AckExpires, Q!AgeOut, Q!consumer
  <2>5. MarkedWhileSending'
    BY <1>1, <2>1, <2>4 DEF CallsSound
  <2> QED BY <2>1, <2>3, <2>5 DEF NoEcho
<1>3. CASE ProcessEnds
  <2>1. /\ task' = [t \in Tasks |-> Idle] /\ marks' = {} /\ UNCHANGED leaked
        /\ hook' = [h \in Hooks |-> IF hook[h] = "checked" THEN "ignored" ELSE hook[h]]
    BY <1>3 DEF ProcessEnds, Forget
  <2>2. \A t \in Tasks : task'[t].pc = "idle"
    BY <2>1 DEF Idle
  <2>3. MarkedWhileSending'
    BY <2>1, <2>2 DEF MarkedWhileSending, Sending
  <2>4. UNCHANGED stored /\ hand' \in {hand, NoCopy} /\ buf' \in {buf, <<>>}
    BY <1>3 DEF ProcessEnds, Q!Exit, Q!Crash, Q!server, Q!consumer
  <2>5. Routed'
    BY <1>0, <2>1, <2>2, <2>4 DEF Routed
  <2> QED BY <2>1, <2>3, <2>5 DEF NoEcho
<1>4. CASE \/ LoadSessions \/ Connected \/ ConnectionLost
           \/ \E p \in PhoneMsgs : PhoneSends(p)
  <2>1. UNCHANGED <<queue, hook, leaked, task, marks>>
    BY <1>4 DEF LoadSessions, Connected, ConnectionLost, PhoneSends, bridge, memory
  <2> QED BY <1>1, <2>1 DEF Routed, NoEcho, queue
<1>5. CASE \E c \in CwMsgs : MarkExpires(c) \/ KeyExpires(c)
  BY <1>5 DEF MarkExpires, KeyExpires, Calm
<1>6. ASSUME NEW h \in Hooks, CheckHook(h) PROVE MarkInv'
  <2>1. /\ UNCHANGED <<queue, leaked, memory>> /\ hook[h] = "due"
        /\ \A g \in Hooks \ {h} : hook'[g] = hook[g]
    BY <1>6 DEF CheckHook
  <2>2. Routed'
    BY <2>1 DEF Routed, queue, memory
  <2> QED BY <1>1, <2>1, <2>2 DEF NoEcho, queue, memory
<1>7. ASSUME NEW h \in Hooks, Enqueue(h) PROVE MarkInv'
  <2>1. /\ UNCHANGED <<hand, buf, leaked, memory>> /\ hook[h] = "checked"
        /\ stored' = [stored EXCEPT ![h] = "ready"] /\ hook' = [hook EXCEPT ![h] = "queued"]
    BY <1>7 DEF Enqueue, Q!PublishOk, Q!consumer
  <2>2. Routed'
    BY <2>1 DEF Routed, memory, TypeOK, Q!TypeOK
  <2> QED BY <1>1, <2>1, <2>2 DEF NoEcho, memory
<1>8. ASSUME NEW h \in Hooks, SendDirectly(h) PROVE MarkInv'
  <2>1. /\ UNCHANGED <<queue, leaked>> /\ hook[h] = "checked" /\ h \in Tasks /\ h # Consumer
        /\ hook' = [hook EXCEPT ![h] = "direct"] /\ marks' = marks \cup {Cw[h]}
    BY <1>0, <1>8 DEF SendDirectly, Begin, Q!PublishError, Calm
  <2>2. PICK r : Turns(h, r) /\ r.pc = "send"
    BY <1>8, <2>1, LeavesBegun DEF SendDirectly, TypeOK
  <2>3. \A u \in Tasks \ {h} : task'[u] = task[u]
    BY <2>1, <2>2, Written DEF TypeOK
  <2>4. Routed'
    <3>1. hook'[h] = "direct" /\ \A g \in Hooks \ {h} : hook'[g] = hook[g]
      BY <2>1 DEF TypeOK
    <3>2. stored[h] = "none" /\ UNCHANGED <<stored, hand, buf>>
      BY <2>1 DEF Routed, queue
    <3>3. \A g \in Hooks \ {h} : task'[g] = task[g]
      BY <1>0, <2>3
    <3> QED BY <3>1, <3>2, <3>3 DEF Routed
  <2>5. ASSUME NEW u \in Tasks \ {h}, Sending(u) PROVE MsgOf(u) # MsgOf(h)
    <3>1. CASE u = Consumer
      <4>1. hand # NoCopy /\ hand.msg \in Hooks
        BY <2>5, <3>1 DEF Sending, CallsSound, TypeOK, Q!TypeOK, Q!Copy
      <4>2. hand.msg # h
        BY <2>1, <4>1 DEF Routed
      <4> QED BY <2>1, <3>1, <4>1, <4>2 DEF MsgOf, Calm
    <3>2. CASE u # Consumer
      BY <1>0, <2>1, <3>2 DEF MsgOf, Calm
    <3> QED BY <3>1, <3>2
  <2>6. MarkedWhileSending'
    BY <2>1, <2>2, <2>5, SendMoves DEF queue, MsgOf
  <2> QED BY <2>1, <2>4, <2>6 DEF NoEcho
<1>9. CASE SkipDuplicate \/ HandleSend
  <2>1. /\ UNCHANGED <<queue, bridge>> /\ hand # NoCopy /\ task[Consumer].pc = "idle"
    BY <1>9 DEF SkipDuplicate, HandleSend, InHandler
  <2>2. ASSUME NEW u \in Tasks \ {Consumer}, Sending(u) PROVE MsgOf(u) # MsgOf(Consumer)
    BY <1>0, <2>1, <2>2, OneSender DEF Engaged, Sending
  <2>3. MarkedWhileSending'
    <3>1. CASE Begin(Consumer, MsgOf(Consumer))
      <4>1. PICK r : Turns(Consumer, r) /\ r.pc = "send"
        BY <1>0, <3>1, LeavesBegun DEF TypeOK
      <4>2. marks' = marks \cup {MsgOf(Consumer)}
        BY <3>1 DEF Begin
      <4> QED BY <1>0, <2>1, <2>2, <4>1, <4>2, SendMoves DEF queue
    <3>2. ASSUME NEW r, Turns(Consumer, r), r.pc \in {"ok", "error"}, UNCHANGED marks
          PROVE  MarkedWhileSending'
      <4>1. /\ \A u \in Tasks \ {Consumer} : task'[u] = task[u]
            /\ task'[Consumer].pc \in {"ok", "error"}
        BY <1>0, <3>2, Written DEF TypeOK
      <4>2. \A u \in Tasks : /\ Sending(u)' <=> Sending(u)
                             /\ Sending(u) => MsgOf(u)' = MsgOf(u)
        BY <2>1, <4>1 DEF Sending, MsgOf, queue
      <4> QED BY <3>2, <4>2, SendsStay
    <3>3. CASE task' = [task EXCEPT ![Consumer].pc = "ok"] /\ UNCHANGED marks
      <4>1. PICK r : Turns(Consumer, r) /\ r.pc = "ok"
        BY ZenonT(60), <1>0, <3>3, LeavesPc DEF TypeOK
      <4> QED BY <3>2, <3>3, <4>1
    <3>4. CASE task' = [task EXCEPT ![Consumer].pc = "error"] /\ UNCHANGED marks
      <4>1. PICK r : Turns(Consumer, r) /\ r.pc = "error"
        BY <1>0, <3>4, LeavesPc DEF TypeOK
      <4> QED BY <3>2, <3>4, <4>1
    <3> QED BY <1>9, <3>1, <3>3, <3>4 DEF SkipDuplicate, HandleSend
  <2>4. \A u \in Hooks : task'[u] = task[u]
    BY <1>0, <1>9 DEF SkipDuplicate, HandleSend, Begin, TypeOK
  <2>5. Routed'
    BY <2>1, <2>4 DEF Routed, queue, bridge
  <2> QED BY <2>1, <2>3, <2>5 DEF NoEcho, bridge
<1>10. CASE HandlerReturns
  <2>1. /\ task' = [task EXCEPT ![Consumer] = Idle] /\ UNCHANGED <<bridge, marks>>
        /\ task[Consumer].pc \in {"ok", "error"} /\ Q!Handle
    BY <1>10 DEF HandlerReturns, Q!Handle
  <2>2. \A u \in Tasks \ {Consumer} : task'[u] = task[u] /\ MsgOf(u)' = MsgOf(u)
    BY <2>1 DEF TypeOK, MsgOf
  <2>3. ~Sending(Consumer) /\ ~Sending(Consumer)'
    BY <1>0, <2>1 DEF Sending, Idle, TypeOK
  <2>4. MarkedWhileSending'
    <3>1. \A u \in Tasks : /\ Sending(u)' <=> Sending(u)
                           /\ Sending(u) => MsgOf(u)' = MsgOf(u)
      BY <2>2, <2>3 DEF Sending
    <3> QED BY <2>1, <3>1, SendsStay
  <2>5. Routed'
    BY <1>0, <2>1, <2>2, QueueStores, CopiesStored DEF Calm, bridge
  <2> QED BY <2>1, <2>4, <2>5 DEF NoEcho, bridge
<1>11. ASSUME NEW h \in Hooks, LogError(h) PROVE MarkInv'
  <2>1. /\ task' = [task EXCEPT ![h] = Idle] /\ UNCHANGED <<queue, bridge, marks>>
        /\ task[h].pc = "error" /\ h \in Tasks
    BY <1>0, <1>11 DEF LogError
  <2>2. /\ \A u \in Tasks \ {h} : task'[u] = task[u]
        /\ task'[h].pc = "idle"
    BY <2>1 DEF TypeOK, Idle
  <2>3. \A u \in Tasks : /\ Sending(u)' <=> Sending(u)
                         /\ Sending(u) => MsgOf(u)' = MsgOf(u)
    BY <2>1, <2>2 DEF Sending, MsgOf, queue
  <2>4. Routed'
    BY <1>0, <2>1, <2>2 DEF Routed, queue, bridge
  <2> QED BY <2>1, <2>3, <2>4, SendsStay DEF NoEcho, bridge
<1>12. ASSUME NEW t \in Tasks, SendStep(t) PROVE MarkInv'
  <2>1. UNCHANGED <<queue, hook>> /\ Sending(t)
    BY <1>12
    DEF SendStep, DownloadFails, AttachmentFails, SendAttachment, SendText, TextFails, Echo,
        Save, Return, Sends, bridge, Sending
  <2>2. MsgOf(t) \in marks
    BY <2>1 DEF MarkedWhileSending
  <2>3. ASSUME NEW u \in Tasks \ {t}, Sending(u) PROVE MsgOf(u) # MsgOf(t)
    <3>1. task[t].pc # "idle" /\ task[u].pc # "idle"
      BY <2>1, <2>3 DEF Sending
    <3> QED BY <3>1, OneSender, SendersEngaged
  <2>4. PICK r : Turns(t, r) /\ marks' = IF r.pc \in {"send", "echo", "save"}
                                          THEN marks \cup {MsgOf(t)} ELSE marks \ {MsgOf(t)}
    <3>1. CASE DownloadFails(t) \/ AttachmentFails(t)
      <4>1. PICK r : Turns(t, r) /\ r.pc = "send"
        BY <3>1, LeavesNext DEF TypeOK
      <4> QED BY <2>2, <3>1, <4>1 DEF DownloadFails, AttachmentFails
    <3>2. CASE SendAttachment(t) \/ SendText(t)
      <4>1. PICK part \in Nat, b \in BOOLEAN : Sends(t, part, b)
        BY <3>2 DEF SendAttachment, SendText, TypeOK, TaskState
      <4>2. PICK r : Turns(t, r) /\ r.pc = "echo"
        BY <4>1, LeavesSent DEF TypeOK
      <4>3. UNCHANGED marks
        BY <4>1 DEF Sends
      <4> QED BY <2>2, <4>2, <4>3
    <3>3. CASE TextFails(t)
      <4>1. PICK r : Turns(t, r) /\ r.pc = "error"
        BY <3>3, LeavesPc DEF TextFails, TypeOK
      <4> QED BY <3>3, <4>1 DEF TextFails
    <3>4. CASE Echo(t)
      <4>1. PICK r : Turns(t, r) /\ r.pc = "save"
        BY <3>4, LeavesPc DEF Echo, TypeOK
      <4> QED BY <2>2, <3>4, <4>1 DEF Echo
    <3>5. CASE Save(t)
      <4>1. PICK r : Turns(t, r) /\ r.pc = "send"
        BY <3>5, LeavesSaved DEF TypeOK
      <4> QED BY <2>2, <3>5, <4>1 DEF Save
    <3>6. CASE Return(t)
      <4>1. PICK r : Turns(t, r) /\ r.pc \in {"ok", "idle"}
        BY <3>6, LeavesReturned DEF TypeOK
      <4> QED BY <3>6, <4>1 DEF Return
    <3> QED BY <1>12, <3>1, <3>2, <3>3, <3>4, <3>5, <3>6 DEF SendStep
  <2>5. MarkedWhileSending'
    BY <2>1, <2>3, <2>4, SendMoves DEF queue
  <2>6. UNCHANGED leaked
    BY <1>12, <2>2
    DEF SendStep, DownloadFails, AttachmentFails, SendAttachment, SendText, TextFails, Echo,
        Save, Return, Sends, bridge, PendingInChat
  <2>7. \A h \in Hooks : task'[h].pc # "idle" => task[h].pc # "idle"
    <3>1. \A h \in Hooks \ {t} : task'[h] = task[h]
      BY <1>0, <2>4, Written DEF TypeOK
    <3> QED BY <2>1, <3>1 DEF Sending
  <2>8. Routed'
    BY <2>1, <2>7 DEF Routed, queue
  <2> QED BY <2>5, <2>6, <2>8 DEF NoEcho
<1>13. CASE UNCHANGED vars
  BY <1>1, <1>13 DEF vars, queue, bridge, memory, Routed, NoEcho
<1> QED
  BY <1>2, <1>3, <1>4, <1>5, <1>6, <1>7, <1>8, <1>9, <1>10, <1>11, <1>12, <1>13 DEF Next

LEMMA MarkStarts == Init => MarkInv
<1> SUFFICES ASSUME Init PROVE MarkInv
  OBVIOUS
<1>1. \A t \in Tasks : task[t].pc = "idle"
  BY DEF Init, Idle
<1>2. Hooks \subseteq Tasks
  BY DEF Tasks
<1> QED BY <1>1, <1>2 DEF Init, Q!Init, MarkInv, Routed, MarkedWhileSending, Sending, NoEcho

(* While marks do not expire and every publish tells whether it stored its *)
(* message, each message has one webhook and so one route: it is marked    *)
(* exactly while it is sent, and nothing sent returns to Chatwoot, for any *)
(* messages, chats, failures and restarts.                                 *)
THEOREM NothingEchoes == Calm => (Spec => [](NoEcho /\ MarkedWhileSending))
<1> SUFFICES ASSUME Calm PROVE Spec => [](NoEcho /\ MarkedWhileSending)
  OBVIOUS
<1>1. BridgeInv /\ MarkInv /\ [Next]_vars => MarkInv'
  BY MarkStep
<1>2. MarkInv => NoEcho /\ MarkedWhileSending
  BY DEF MarkInv
<1> QED BY <1>1, <1>2, MarkStarts, BridgeHolds, PTL DEF Spec

------------------------------------------------------------------------------
(* What the contact receives.                                              *)

(* Nor does a restart lose the keys.                                       *)
Steady == Calm /\ MaxRestarts = 0

Part == [part : Nat, text : BOOLEAN]

InOrder(s) ==
  \A i, j \in DOMAIN s : i < j => s[i].part < s[j].part /\ ~s[j].text /\ s[i].part # 0

(* The attachment a call goes on with, once it has saved what it sent.     *)
Goes(r) == IF r.pc # "send" /\ r.part # 0 THEN r.at + 1 ELSE r.at

(* A call in state r that has sent s of message c goes on after all of s:  *)
(* a message of text alone ends it, and the text is sent once.             *)
Follows(r, c, s) ==
  /\ s # <<>> => ~r.text
  /\ r.at >= 1
  /\ \A i \in DOMAIN s :
       s[i].part < Goes(r) /\ (s[i].part = 0 => Goes(r) > Len(Attachments[c]))

(* A message is begun once: a key stays, and a direct send is not repeated. *)
Begun(c) == c \in keys \/ \E h \in Hooks : Cw[h] = c /\ hook[h] = "direct"

OrderInv ==
  /\ proc # "stopping"
  /\ \A h \in Hooks : Cw[h] \in keys => hook[h] = "queued"
  /\ Sending(Consumer) => MsgOf(Consumer) \in keys
  /\ \A c \in CwMsgs : sent[c] # <<>> => Begun(c)
  /\ \A c \in CwMsgs : InOrder(sent[c])
  /\ \A t \in Tasks : Sending(t) => Follows(task[t], MsgOf(t), sent[MsgOf(t)])

(* One more part, after all of those before it.                            *)
LEMMA OneMore ==
  ASSUME NEW c \in CwMsgs, NEW s \in Seq(Part), InOrder(s),
         NEW r \in TaskState, Follows(r, c, s), r.pc = "send",
         NEW q \in TaskState, q.pc = "echo", ~q.text, q.at = r.at,
         NEW x \in Part, q.part = x.part, x.text => r.text,
         \/ x.part = r.at /\ r.at <= Len(Attachments[c])
         \/ x.part = 0 /\ r.text /\ r.at > Len(Attachments[c])
  PROVE  InOrder(Append(s, x)) /\ Follows(q, c, Append(s, x))
<1> DEFINE S == Append(s, x)
<1>1. /\ Len(s) \in Nat /\ DOMAIN S = 1 .. Len(s) + 1 /\ S[Len(s) + 1] = x
      /\ DOMAIN s = 1 .. Len(s) /\ \A i \in DOMAIN s : S[i] = s[i] /\ s[i] \in Part
  OBVIOUS
<1>2. /\ r.at \in Nat /\ x.part \in Nat /\ Len(Attachments[c]) \in Nat
      /\ \A i \in DOMAIN s : s[i].part \in Nat
  BY <1>1, BridgeAssumption DEF TaskState, Part
<1>3. r.at >= 1 /\ Goes(r) = r.at /\ Goes(q) = IF x.part = 0 THEN r.at ELSE r.at + 1
  BY DEF Goes, Follows
<1>4. CASE x.part = 0
  <2>1. s = <<>>
    BY <1>2, <1>3, <1>4 DEF Follows
  <2>2. DOMAIN s = {} /\ DOMAIN S = {1} /\ S[1] = x
    BY <1>1, <2>1
  <2> HIDE DEF S
  <2>3. InOrder(S) /\ Follows(q, c, S)
    BY <1>2, <1>3, <1>4, <2>2 DEF InOrder, Follows
  <2> QED BY <2>3 DEF S
<1>5. CASE x.part # 0
  <2>1. x.part = r.at /\ r.at <= Len(Attachments[c])
    BY <1>5
  <2>2. \A i \in DOMAIN s : s[i].part < x.part /\ s[i].part # 0 /\ ~x.text
    <3>1. \A i \in DOMAIN s : s # <<>>
      BY <1>1
    <3> QED BY <1>2, <1>3, <2>1, <3>1 DEF Follows
  <2>3. \A i \in DOMAIN S : i \in DOMAIN s \/ i = Len(s) + 1
    BY <1>1
  <2> HIDE DEF S
  <2>4. ASSUME NEW i \in DOMAIN S, NEW j \in DOMAIN S, i < j
        PROVE  S[i].part < S[j].part /\ ~S[j].text /\ S[i].part # 0
    <3>1. i \in DOMAIN s
      BY <1>1, <2>4
    <3>2. CASE j \in DOMAIN s
      BY <1>1, <2>4, <3>1, <3>2 DEF InOrder
    <3>3. CASE j = Len(s) + 1
      BY <1>1, <2>2, <3>1, <3>3
    <3> QED BY <2>3, <3>2, <3>3
  <2>5. \A i \in DOMAIN S : S[i].part <= x.part /\ S[i].part # 0
    BY <1>1, <1>2, <1>5, <2>2, <2>3
  <2>6. Follows(q, c, S)
    BY <1>1, <1>2, <1>3, <1>5, <2>1, <2>5 DEF Follows
  <2> QED BY <2>4, <2>6 DEF InOrder, S
<1> QED BY <1>4, <1>5

(* Steps that begin, end and move no send.                                 *)
LEMMA OrderStays ==
  ASSUME TypeOK, OrderInv, UNCHANGED <<sent, keys>>,
         proc' \in {proc, "up", "down"},
         \A h \in Hooks : hook[h] \in {"queued", "direct"} => hook'[h] = hook[h],
         \A t \in Tasks : Sending(t)' =>
           Sending(t) /\ task'[t] = task[t] /\ MsgOf(t)' = MsgOf(t)
  PROVE  OrderInv'
<1>1. proc' # "stopping"
  BY DEF OrderInv
<1>2. \A h \in Hooks : Cw[h] \in keys' => hook'[h] = "queued"
  BY DEF OrderInv
<1>3. Sending(Consumer)' => MsgOf(Consumer)' \in keys'
  BY DEF OrderInv, Tasks
<1>4. \A c \in CwMsgs : (sent'[c] # <<>> => Begun(c)') /\ InOrder(sent'[c])
  BY DEF OrderInv, Begun
<1>5. \A t \in Tasks : Sending(t)' => Follows(task'[t], MsgOf(t)', sent'[MsgOf(t)'])
  BY DEF OrderInv
<1> QED BY <1>1, <1>2, <1>3, <1>4, <1>5 DEF OrderInv

(* A step of one call, on what it alone sends.                             *)
LEMMA OrderMoves ==
  ASSUME TypeOK, OrderInv, NEW t \in Tasks, NEW r, Turns(t, r), UNCHANGED <<hand, proc>>,
         MsgOf(t) \in CwMsgs,
         \A u \in Tasks \ {t} : Sending(u) => MsgOf(u) # MsgOf(t),
         \A h \in Hooks : Cw[h] \in keys' => hook'[h] = "queued",
         \A c \in CwMsgs \ {MsgOf(t)} : sent'[c] = sent[c],
         \A c \in CwMsgs : Begun(c) \/ (c = MsgOf(t) /\ sent'[c] # <<>>) => Begun(c)',
         keys \subseteq keys', InOrder(sent'[MsgOf(t)]),
         r.pc \in {"send", "echo", "save"} =>
           (t = Consumer => MsgOf(t) \in keys') /\ Follows(r, MsgOf(t), sent'[MsgOf(t)]),
         \A u \in Tasks : Sending(u) => MsgOf(u) \in CwMsgs
  PROVE  OrderInv'
<1>1. task'[t] = r /\ \A u \in Tasks \ {t} : task'[u] = task[u]
  BY Written DEF TypeOK
<1>2. \A u \in Tasks : MsgOf(u)' = MsgOf(u)
  BY DEF MsgOf
<1>3. \A u \in Tasks \ {t} : Sending(u)' <=> Sending(u)
  BY <1>1 DEF Sending
<1>4. Sending(t)' <=> r.pc \in {"send", "echo", "save"}
  BY <1>1 DEF Sending
<1>5. ASSUME NEW u \in Tasks, Sending(u)'
      PROVE  /\ u = Consumer => MsgOf(u)' \in keys'
             /\ Follows(task'[u], MsgOf(u)', sent'[MsgOf(u)'])
  <2>1. CASE u = t
    BY <1>1, <1>2, <1>4, <1>5, <2>1
  <2>2. CASE u # t
    <3>1. Sending(u) /\ MsgOf(u) # MsgOf(t) /\ task'[u] = task[u] /\ MsgOf(u) \in CwMsgs
      BY <1>1, <1>3, <1>5, <2>2
    <3>2. sent'[MsgOf(u)] = sent[MsgOf(u)]
      BY <3>1
    <3> QED BY <1>2, <3>1, <3>2 DEF OrderInv
  <2> QED BY <2>1, <2>2
<1>6. Sending(Consumer)' => MsgOf(Consumer)' \in keys'
  BY <1>5 DEF Tasks
<1>7. ASSUME NEW c \in CwMsgs PROVE (sent'[c] # <<>> => Begun(c)') /\ InOrder(sent'[c])
  <2>1. CASE c = MsgOf(t)
    BY <2>1
  <2>2. CASE c # MsgOf(t)
    BY <2>2 DEF OrderInv
  <2> QED BY <2>1, <2>2
<1> QED BY <1>5, <1>6, <1>7 DEF OrderInv

LEMMA OrderStep ==
  ASSUME BridgeInv, MarkInv, OrderInv, Steady, [Next]_vars PROVE OrderInv'
<1> USE DEF BridgeInv, MarkInv
<1>0. /\ Consumer \in Tasks /\ Hooks \subseteq Tasks /\ Consumer \notin Hooks
      /\ Calm /\ restarts = 0 /\ ~(restarts < MaxRestarts)
  BY BridgeAssumption DEF Tasks, Steady, TypeOK, Q!TypeOK
<1>1. \A u \in Tasks : Sending(u) => MsgOf(u) \in CwMsgs
  BY MsgOfTyped DEF Sending
(* Steps that begin, end and move no send.                                 *)
<1>2. ASSUME UNCHANGED <<task, sent, keys>>, hand' = hand \/ hand = NoCopy,
             proc' \in {proc, "up", "down"},
             \A h \in Hooks : hook[h] \in {"queued", "direct"} => hook'[h] = hook[h]
      PROVE  OrderInv'
  <2>1. \A t \in Tasks : Sending(t)' =>
          Sending(t) /\ task'[t] = task[t] /\ MsgOf(t)' = MsgOf(t)
    BY <1>2 DEF Sending, MsgOf, CallsSound
  <2> QED BY <1>2, <2>1, OrderStays
<1>3. CASE \/ Start \/ QueueStep(Q!Shutdown) \/ QueueStep(Q!LoopReturns)
           \/ QueueStep(Q!Fetch) \/ QueueStep(Q!FetchExpires) \/ QueueStep(Q!Take)
           \/ \E h \in Hooks : QueueStep(Q!Server(h))
  <2>1. UNCHANGED <<hook, sent, task, keys>>
    BY <1>3 DEF QueueStep, Start, bridge, memory
  <2>2. (hand' = hand \/ hand = NoCopy) /\ proc' \in {proc, "up"}
    BY <1>0, <1>3
    DEF QueueStep, Start, Q!Start, Q!Shutdown, Q!LoopReturns, Q!Fetch, Q!FetchExpires,
        Q!Take, Q!Server, Q!Deliver, Q!AckExpires, Q!AgeOut, Q!consumer
  <2> QED BY <1>2, <2>1, <2>2
<1>4. CASE ProcessEnds
  BY <1>0, <1>4 DEF ProcessEnds, Q!Exit, Q!Crash, OrderInv
<1>5. CASE \/ LoadSessions \/ Connected \/ ConnectionLost
           \/ (\E p \in PhoneMsgs : PhoneSends(p)) \/ \E h \in Hooks : CheckHook(h)
  <2>1. UNCHANGED <<queue, sent, task, keys>>
    BY <1>5 DEF LoadSessions, Connected, ConnectionLost, PhoneSends, CheckHook, bridge, memory
  <2>2. \A h \in Hooks : hook[h] \in {"queued", "direct"} => hook'[h] = hook[h]
    BY <1>5 DEF LoadSessions, Connected, ConnectionLost, PhoneSends, CheckHook, bridge, TypeOK
  <2> QED BY <1>2, <2>1, <2>2 DEF queue
<1>6. CASE \E c \in CwMsgs : MarkExpires(c) \/ KeyExpires(c)
  BY <1>0, <1>6 DEF MarkExpires, KeyExpires, Calm
<1>7. ASSUME NEW h \in Hooks, Enqueue(h) PROVE OrderInv'
  <2>1. /\ UNCHANGED <<hand, proc, sent, task, keys>>
        /\ hook[h] = "checked" /\ hook' = [hook EXCEPT ![h] = "queued"]
    BY <1>7 DEF Enqueue, Q!PublishOk, Q!consumer, memory
  <2>2. \A g \in Hooks : hook[g] \in {"queued", "direct"} => hook'[g] = hook[g]
    BY <2>1 DEF TypeOK
  <2> QED BY <1>2, <2>1, <2>2
<1>8. ASSUME NEW h \in Hooks, SendDirectly(h) PROVE OrderInv'
  <2>1. /\ UNCHANGED <<queue, sent, keys>> /\ hook[h] = "checked" /\ h \in Tasks
        /\ hook' = [hook EXCEPT ![h] = "direct"] /\ MsgOf(h) = Cw[h] /\ h # Consumer
    BY <1>0, <1>8 DEF SendDirectly, Begin, Q!PublishError, Calm, MsgOf
  <2>2. Cw[h] \in CwMsgs /\ ~Begun(Cw[h])
    BY <1>0, <2>1, BridgeAssumption DEF OrderInv, Begun, Calm
  <2>3. sent[Cw[h]] = <<>>
    BY <2>2 DEF OrderInv
  <2>4. PICK r : Turns(h, r) /\ r.pc = "send" /\ r.at = 1
    BY <1>8, <2>1, LeavesBegun DEF SendDirectly, TypeOK
  <2>5. Follows(r, Cw[h], sent[Cw[h]]) /\ InOrder(sent[Cw[h]])
    BY <2>3, <2>4 DEF Follows, InOrder
  <2>6. ASSUME NEW u \in Tasks \ {h}, Sending(u) PROVE MsgOf(u) # MsgOf(h)
    <3>1. CASE u = Consumer
      BY <2>1, <2>2, <2>6, <3>1 DEF OrderInv, Begun
    <3>2. CASE u # Consumer
      BY <1>0, <2>1, <3>2 DEF MsgOf, Calm, Tasks
    <3> QED BY <3>1, <3>2
  <2>7. /\ \A g \in Hooks : hook'[g] = IF g = h THEN "direct" ELSE hook[g]
        /\ \A g \in Hooks : Cw[g] \in keys' => hook'[g] = "queued"
    <3>1. \A g \in Hooks : hook'[g] = IF g = h THEN "direct" ELSE hook[g]
      BY <2>1 DEF TypeOK
    <3> QED BY <2>1, <2>2, <3>1 DEF OrderInv, Begun
  <2>8. \A c \in CwMsgs : Begun(c) => Begun(c)'
    BY <2>1, <2>7 DEF Begun
  <2> QED BY <1>1, <2>1, <2>2, <2>3, <2>4, <2>5, <2>6, <2>7, <2>8, OrderMoves DEF queue
<1>9. CASE SkipDuplicate \/ HandleSend
  <2> DEFINE c == MsgOf(Consumer)
  <2>1. /\ UNCHANGED <<queue, bridge>> /\ hand # NoCopy /\ task[Consumer].pc = "idle"
        /\ UNCHANGED <<hand, proc, hook, sent>>
    BY <1>9 DEF SkipDuplicate, HandleSend, InHandler, queue, bridge
  <2>2. /\ c \in CwMsgs /\ hand.msg \in Hooks /\ c = Cw[hand.msg]
        /\ hook[hand.msg] = "queued"
    BY <1>0, <2>1, MsgOfTyped DEF MsgOf, Routed, TypeOK, Q!TypeOK, Q!Copy
  <2>3. \A h \in Hooks : Cw[h] = c => hook[h] = "queued"
    BY <1>0, <2>2 DEF Calm
  <2>4. ASSUME NEW u \in Tasks \ {Consumer}, Sending(u) PROVE MsgOf(u) # c
    BY <1>0, <2>1, <2>4, OneSender DEF Engaged, Sending
  <2>5. ASSUME NEW r, Turns(Consumer, r), r.pc \in {"ok", "error"},
               keys' = keys \cup {c} \/ UNCHANGED keys
        PROVE  OrderInv'
    <3>1. \A d \in CwMsgs : Begun(d) => Begun(d)'
      BY <2>1, <2>5 DEF Begun
    <3>2. \A h \in Hooks : Cw[h] \in keys' => hook'[h] = "queued"
      BY <2>1, <2>3, <2>5 DEF OrderInv
    <3> QED
      BY <1>0, <1>1, <2>1, <2>2, <2>4, <2>5, <3>1, <3>2, OrderMoves DEF OrderInv
  <2>6. CASE task' = [task EXCEPT ![Consumer].pc = "ok"] /\ UNCHANGED keys
    <3>1. PICK r : Turns(Consumer, r) /\ r.pc = "ok"
      BY ZenonT(60), <1>0, <2>6, LeavesPc DEF TypeOK
    <3> QED BY <2>5, <2>6, <3>1
  <2>7. CASE task' = [task EXCEPT ![Consumer].pc = "error"] /\ keys' = keys \cup {c}
    <3>1. PICK r : Turns(Consumer, r) /\ r.pc = "error"
      BY <1>0, <2>7, LeavesPc DEF TypeOK
    <3> QED BY <2>5, <2>7, <3>1
  <2>8. CASE Begin(Consumer, c) /\ keys' = keys \cup {c} /\ c \notin keys
    <3>1. PICK r : Turns(Consumer, r) /\ r.pc = "send" /\ r.at = 1
      BY <1>0, <2>8, LeavesBegun DEF TypeOK
    <3>2. sent[c] = <<>>
      BY <2>2, <2>3, <2>8 DEF OrderInv, Begun
    <3>3. Follows(r, c, sent[c]) /\ InOrder(sent[c])
      BY <3>1, <3>2 DEF Follows, InOrder
    <3>4. \A d \in CwMsgs : Begun(d) => Begun(d)'
      BY <2>1, <2>8 DEF Begun
    <3>5. \A h \in Hooks : Cw[h] \in keys' => hook'[h] = "queued"
      BY <2>1, <2>3, <2>8 DEF OrderInv
    <3> QED
      BY <1>0, <1>1, <2>1, <2>2, <2>4, <2>8, <3>1, <3>2, <3>3, <3>4, <3>5, OrderMoves
  <2> QED BY <1>9, <2>6, <2>7, <2>8 DEF SkipDuplicate, HandleSend
<1>10. CASE HandlerReturns \/ \E h \in Hooks : LogError(h)
  <2>1. PICK t \in Tasks :
          /\ task' = [task EXCEPT ![t] = Idle] /\ UNCHANGED <<bridge, keys, proc>>
          /\ UNCHANGED hand \/ t = Consumer
    BY <1>0, <1>10
    DEF HandlerReturns, LogError, Q!HandlerSucceeds, Q!HandlerFails, Q!HandlerGivesUp, queue
  <2>2. \A u \in Tasks \ {t} : task'[u] = task[u] /\ MsgOf(u)' = MsgOf(u)
    BY <2>1 DEF TypeOK, MsgOf
  <2>3. ~Sending(t)'
    BY <2>1 DEF Sending, Idle, TypeOK
  <2>4. \A u \in Tasks : Sending(u)' =>
          Sending(u) /\ task'[u] = task[u] /\ MsgOf(u)' = MsgOf(u)
    BY <2>2, <2>3 DEF Sending
  <2> QED BY <2>1, <2>4, OrderStays DEF bridge
<1>11. ASSUME NEW t \in Tasks, SendStep(t) PROVE OrderInv'
  <2> DEFINE c == MsgOf(t)
  <2>1. UNCHANGED <<queue, hook, keys>> /\ Sending(t) /\ UNCHANGED <<hand, proc>>
    BY <1>11
    DEF SendStep, DownloadFails, AttachmentFails, SendAttachment, SendText, TextFails, Echo,
        Save, Return, Sends, bridge, Sending, queue
  <2>2. /\ c \in CwMsgs /\ task[t] \in TaskState /\ task \in [Tasks -> TaskState]
        /\ Follows(task[t], c, sent[c]) /\ InOrder(sent[c]) /\ sent[c] \in Seq(Part)
    BY <1>1, <2>1 DEF OrderInv, TypeOK, Part
  <2>3. ASSUME NEW u \in Tasks \ {t}, Sending(u) PROVE MsgOf(u) # c
    <3>1. task[t].pc # "idle" /\ task[u].pc # "idle"
      BY <2>1, <2>3 DEF Sending
    <3> QED BY <1>0, <3>1, OneSender, SendersEngaged
  <2>4. Begun(c) /\ (t = Consumer => c \in keys)
    <3>1. CASE t = Consumer
      BY <2>1, <3>1 DEF OrderInv, Begun
    <3>2. CASE t # Consumer
      BY <2>1, <3>2 DEF Begun, Tasks, Sending, MsgOf, Routed
    <3> QED BY <3>1, <3>2
  <2>5. \A d : Begun(d) => Begun(d)'
    BY <2>1 DEF Begun
  <2>6. ASSUME NEW r, Turns(t, r), \A d \in CwMsgs \ {c} : sent'[d] = sent[d],
               InOrder(sent'[c]),
               r.pc \in {"send", "echo", "save"} => Follows(r, c, sent'[c])
        PROVE  OrderInv'
    BY <1>1, <2>1, <2>2, <2>3, <2>4, <2>5, <2>6, OrderMoves DEF OrderInv
  <2>7. /\ task[t].at \in Nat /\ Len(Attachments[c]) \in Nat /\ task[t].part \in Nat
        /\ \A i \in DOMAIN sent[c] : sent[c][i].part \in Nat
    <3>1. task[t].at \in Nat /\ task[t].part \in Nat
      BY <2>2 DEF TaskState
    <3> HIDE DEF c
    <3>2. Attachments[c] \in Seq({"media", "file"})
      BY <2>2, BridgeAssumption
    <3>3. \A i \in DOMAIN sent[c] : sent[c][i] \in Part
      BY <2>2
    <3> QED BY <3>1, <3>2, <3>3 DEF Part
  <2>8. CASE DownloadFails(t) \/ AttachmentFails(t)
    <3>1. PICK r : /\ Turns(t, r) /\ r.pc = "send" /\ (r.text => task[t].text)
                   /\ task[t].pc = "send" /\ r.at = task[t].at + 1
      BY <2>2, <2>8, LeavesNext
    <3>2. UNCHANGED sent
      BY <2>8 DEF DownloadFails, AttachmentFails, bridge
    <3>3. Follows(r, c, sent[c])
      BY <2>2, <2>7, <3>1 DEF Follows, Goes
    <3> QED BY <2>2, <2>6, <3>1, <3>2, <3>3
  <2>9. CASE SendAttachment(t) \/ SendText(t)
    <3>1. PICK part \in Nat, b \in BOOLEAN :
            /\ Sends(t, part, b) /\ task[t].pc = "send" /\ (b => task[t].text)
            /\ \/ part = task[t].at /\ task[t].at <= Len(Attachments[c])
               \/ part = 0 /\ task[t].text /\ task[t].at > Len(Attachments[c])
      <4>1. CASE SendAttachment(t)
        <5> DEFINE b == task[t].text /\ Kind(t) = "media"
        <5>1. /\ Sends(t, task[t].at, b) /\ task[t].at <= Len(Attachments[c])
              /\ task[t].pc = "send" /\ b \in BOOLEAN /\ (b => task[t].text)
          BY <4>1 DEF SendAttachment, HasAttachment
        <5> HIDE DEF b
        <5> QED BY <2>7, <5>1
      <4>2. CASE SendText(t)
        <5>1. /\ Sends(t, 0, TRUE) /\ ~(task[t].at <= Len(Attachments[c]))
              /\ task[t].pc = "send" /\ task[t].text
          BY <4>2 DEF SendText, HasAttachment
        <5>2. task[t].at > Len(Attachments[c])
          <6> HIDE DEF c
          <6> QED BY <2>7, <5>1
        <5> WITNESS 0 \in Nat, TRUE \in BOOLEAN
        <5> QED BY <5>1, <5>2
      <4> QED BY <2>9, <4>1, <4>2
    <3>2. PICK r : /\ Turns(t, r) /\ r.pc = "echo" /\ r.text = FALSE
                   /\ r.part = part /\ r.at = task[t].at
      <4>1. Sends(t, part, b) /\ task \in [Tasks -> TaskState]
        BY <2>2, <3>1
      <4> HIDE DEF c
      <4> QED BY ZenonT(60), <4>1, LeavesSent
    <3> DEFINE x == [part |-> part, text |-> b]
    <3>3. sent' = [sent EXCEPT ![c] = Append(sent[c], x)]
      BY <3>1 DEF Sends
    <3>4. x \in Part /\ x.part = part /\ (x.text => task[t].text)
      BY <3>1 DEF Part
    <3>5. r \in TaskState
      BY <3>2 DEF Turns
    <3> HIDE DEF x
    <3>6. InOrder(Append(sent[c], x)) /\ Follows(r, c, Append(sent[c], x))
      BY <2>2, <3>1, <3>2, <3>4, <3>5, OneMore
    <3>7. sent'[c] = Append(sent[c], x) /\ \A d \in CwMsgs \ {c} : sent'[d] = sent[d]
      BY <2>2, <3>3 DEF TypeOK
    <3> QED BY <2>6, <3>2, <3>6, <3>7
  <2>10. CASE TextFails(t) \/ Return(t)
    <3>1. PICK r : Turns(t, r) /\ r.pc \in {"ok", "idle", "error"}
      <4>1. CASE TextFails(t)
        <5>1. PICK r : Turns(t, r) /\ r.pc = "error"
          BY <2>2, <4>1, LeavesPc DEF TextFails
        <5> QED BY <5>1
      <4>2. CASE Return(t)
        <5>1. PICK r : Turns(t, r) /\ r.pc \in {"ok", "idle"}
          BY <2>2, <4>2, LeavesReturned
        <5> QED BY <5>1
      <4> QED BY <2>10, <4>1, <4>2
    <3>2. UNCHANGED sent
      BY <2>10 DEF TextFails, Return, bridge
    <3> QED BY <2>2, <2>6, <3>1, <3>2
  <2>11. CASE Echo(t)
    <3>1. PICK r : /\ Turns(t, r) /\ r.pc = "save" /\ r.text = task[t].text
                   /\ r.at = task[t].at /\ r.part = task[t].part
      BY <2>2, <2>11, LeavesPc DEF Echo
    <3>2. UNCHANGED sent /\ task[t].pc = "echo"
      BY <2>11 DEF Echo
    <3>3. Follows(r, c, sent[c])
      BY <2>2, <3>1, <3>2 DEF Follows, Goes
    <3> QED BY <2>2, <2>6, <3>1, <3>2, <3>3
  <2>12. CASE Save(t)
    <3>1. PICK r : /\ Turns(t, r) /\ r.pc = "send" /\ r.text = task[t].text
                   /\ r.at = IF task[t].part = 0 THEN task[t].at ELSE task[t].at + 1
      BY <2>2, <2>12, LeavesSaved
    <3>2. UNCHANGED sent /\ task[t].pc = "save"
      BY <2>12 DEF Save
    <3>3. Follows(r, c, sent[c])
      BY <2>2, <2>7, <3>1, <3>2 DEF Follows, Goes
    <3> QED BY <2>2, <2>6, <3>1, <3>2, <3>3
  <2> QED BY <1>11, <2>8, <2>9, <2>10, <2>11, <2>12 DEF SendStep
<1>12. CASE UNCHANGED vars
  BY <1>2, <1>12 DEF vars, queue, bridge, memory
<1> QED
  BY <1>3, <1>4, <1>5, <1>6, <1>7, <1>8, <1>9, <1>10, <1>11, <1>12 DEF Next

LEMMA OrderStarts == Init => OrderInv
<1> SUFFICES ASSUME Init PROVE OrderInv
  OBVIOUS
<1>1. \A t \in Tasks : ~Sending(t)
  BY DEF Init, Idle, Sending
<1>2. Consumer \in Tasks
  BY DEF Tasks
<1> QED BY <1>1, <1>2 DEF Init, Q!Init, OrderInv, InOrder

(* Without a restart either, the contact receives each part of a message   *)
(* at most once, in order, and its text once, for any messages, webhooks,  *)
(* attachments, failures, lost connections and limits of the queue.        *)
THEOREM OncePerPart == Steady => (Spec => []SentOnceInOrder)
<1> SUFFICES ASSUME Steady PROVE Spec => []SentOnceInOrder
  OBVIOUS
<1>1. Calm
  BY DEF Steady
<1>2. BridgeInv /\ MarkInv /\ [Next]_vars => MarkInv'
  BY <1>1, MarkStep
<1>3. BridgeInv /\ MarkInv /\ OrderInv /\ [Next]_vars => OrderInv'
  BY OrderStep
<1>4. OrderInv => SentOnceInOrder
  BY DEF OrderInv, SentOnceInOrder, InOrder
<1> QED BY <1>2, <1>3, <1>4, MarkStarts, OrderStarts, BridgeHolds, PTL DEF Spec

------------------------------------------------------------------------------
(* The answers of agents come back, for any number of sessions, names,     *)
(* inboxes and calls.  The invariant: an inbox belongs to the session its  *)
(* name is configured for, every call that is about to record and          *)
(* everything recorded so far is an inbox of its own session, and every    *)
(* configuration, call about to post and command refers to an inbox that   *)
(* was recorded for its session or that a request named, so that a call    *)
(* that changes where an inbox sends its webhooks can only send them where *)
(* the others want them as well.                                           *)

USE InboxesAssumption

(* Inbox i is one of session s.                                            *)
Belongs(i, s) == There(i) /\ Owner[inbox[i].name] = s
Fits(i, s) == Belongs(i, s) /\ Answers(i, s)
Known(i, s) == <<s, i>> \in asked \cup recorded

Inbox == [name : Names \cup {Nothing}, hook : Sessions \cup {Nothing}, stuck : BOOLEAN]
Call == [at : {"idle", "list", "create", "point", "record", "bot", "post"},
         of : Sessions \cup {Nothing}, name : Names \cup {Nothing},
         id : Inboxes \cup {Nothing}, found : Inboxes \cup {Nothing}, auto : BOOLEAN]
Row == [there : BOOLEAN, enabled : BOOLEAN, name : Names \cup {Nothing},
        id : Inboxes \cup {Nothing}]
Command == {NoCommand} \cup
  [at : {"read", "handle", "connect", "logout", "done"}, of : Sessions,
   says : Says, id : Inboxes \cup {Nothing}]

Types ==
  /\ config \in [Sessions -> Row] /\ inbox \in [Inboxes -> Inbox]
  /\ call \in [Calls -> Call] /\ command \in [Commands -> Command]
Named == \A i \in Inboxes : There(i) => inbox[i].name \in Names
PastFits == \A i \in Inboxes, s \in Sessions : <<s, i>> \in recorded => Fits(i, s)
RowFits(s) ==
  /\ config[s].enabled => config[s].name \in Names /\ Owner[config[s].name] = s
  /\ config[s].id # Nothing => Known(config[s].id, s)
CallFits(k) ==
  /\ call[k].at \in {"list", "create"} =>
       call[k].name \in Names /\ Owner[call[k].name] = call[k].of
  /\ call[k].at = "point" => Belongs(call[k].found, call[k].of)
  /\ call[k].at = "record" => Fits(call[k].found, call[k].of)
  /\ call[k].at = "post" => /\ call[k].of \in Sessions /\ call[k].id \in Inboxes
                            /\ Known(call[k].id, call[k].of)
CommandFits(c) == command[c].id # Nothing => Known(command[c].id, command[c].of)
IInv ==
  /\ Types /\ Named /\ PastFits
  /\ \A s \in Sessions : RowFits(s)
  /\ \A k \in Calls : CallFits(k)
  /\ \A c \in Commands : CommandFits(c)

LEMMA Initial == InboxesInit => IInv
<1> SUFFICES ASSUME InboxesInit PROVE IInv
  OBVIOUS
<1>1. Types
  <2>1. config \in [Sessions -> Row]
    BY DEF InboxesInit, Row, NoConfig
  <2>2. inbox \in [Inboxes -> Inbox]
    <3>1. NoInbox \in Inbox /\ [name : Names, hook : {Nothing}, stuck : {FALSE}] \subseteq Inbox
      BY DEF NoInbox, Inbox
    <3> QED
      BY <3>1 DEF InboxesInit
  <2>3. call \in [Calls -> Call]
    BY DEF InboxesInit, Call, NoCall
  <2>4. command \in [Commands -> Command]
    BY DEF InboxesInit, Command, NoCommand
  <2> QED
    BY <2>1, <2>2, <2>3, <2>4 DEF Types
<1>2. Named /\ PastFits
  BY DEF InboxesInit, Named, PastFits, There, NoInbox
<1>3. \A s \in Sessions : RowFits(s)
  BY DEF InboxesInit, RowFits, NoConfig
<1>4. \A k \in Calls : CallFits(k)
  BY DEF InboxesInit, CallFits, NoCall
<1>5. \A c \in Commands : CommandFits(c)
  BY DEF InboxesInit, CommandFits, NoCommand
<1> QED
  BY <1>1, <1>2, <1>3, <1>4, <1>5 DEF IInv

(* A step that leaves the inboxes alone keeps what belongs and fits.       *)
LEMMA InboxesStay ==
  ASSUME UNCHANGED inbox
  PROVE /\ \A i, s : There(i)' <=> There(i)
        /\ \A i, s : Belongs(i, s)' <=> Belongs(i, s)
        /\ \A i, s : Fits(i, s)' <=> Fits(i, s)
  BY DEF There, Belongs, Fits, Answers

(* What was recorded stays fit while the inboxes do, and what is known is  *)
(* not forgotten.                                                          *)
LEMMA PastStays ==
  ASSUME IInv, UNCHANGED <<inbox, past>>
  PROVE PastFits' /\ \A i, s : Known(i, s)' <=> Known(i, s)
  BY InboxesStay DEF IInv, PastFits, Known, past
LEMMA KnownStays ==
  ASSUME asked \subseteq asked', recorded \subseteq recorded'
  PROVE \A i, s : Known(i, s) => Known(i, s)'
  BY DEF Known

(* A call that changes one inbox, new or of its own session, keeps what    *)
(* fits any session.                                                       *)
LEMMA InboxChanges ==
  ASSUME Types, Named, NEW i \in Inboxes, NEW s \in Sessions, NEW n \in Names, Owner[n] = s,
         NEW stuck \in BOOLEAN, NEW back \in Sessions \cup {Nothing}, back = s \/ stuck,
         There(i) => inbox[i].name = n,
         inbox' = [inbox EXCEPT ![i] = [name |-> n, hook |-> back, stuck |-> stuck]]
  PROVE /\ Named' /\ inbox' \in [Inboxes -> Inbox]
        /\ \A j, t : Belongs(j, t) => Belongs(j, t)'
        /\ \A j, t : Fits(j, t) => Fits(j, t)'
        /\ Fits(i, s)'
<1>1. inbox' \in [Inboxes -> Inbox]
  BY DEF Types, Inbox
<1>2. inbox'[i] = [name |-> n, hook |-> back, stuck |-> stuck] /\ There(i)'
  BY DEF Types, There, NoInbox
<1>3. \A j \in Inboxes \ {i} : inbox'[j] = inbox[j]
  BY DEF Types
<1>4. Named'
  BY <1>2, <1>3 DEF Named, There
<1>5. ASSUME NEW j, NEW t, Belongs(j, t) PROVE Belongs(j, t)'
  <2>1. CASE j = i
    BY <1>2, <1>5, <2>1 DEF Belongs
  <2>2. CASE j # i
    BY <1>3, <1>5, <2>2 DEF Belongs, There
  <2> QED
    BY <2>1, <2>2
<1>6. ASSUME NEW j, NEW t, Fits(j, t) PROVE Fits(j, t)'
  <2>1. CASE j = i
    <3>1. t = s
      BY <1>6, <2>1 DEF Fits, Belongs
    <3> QED
      BY <1>2, <1>5, <1>6, <2>1, <3>1 DEF Fits, Answers
  <2>2. CASE j # i
    BY <1>3, <1>6, <2>2 DEF Fits, Belongs, Answers, There
  <2> QED
    BY <2>1, <2>2
<1> QED
  BY <1>1, <1>2, <1>4, <1>5, <1>6 DEF Fits, Belongs, Answers

(* Each kind of step, and what it must show: the parts of the invariant it *)
(* can disturb.                                                            *)
LEMMA OneCall ==
  ASSUME IInv, UNCHANGED <<config, inbox, command, past>>, NEW k \in Calls, NEW c \in Call,
         call' = [call EXCEPT ![k] = c],
         c.at \in {"list", "create"} => c.name \in Names /\ Owner[c.name] = c.of,
         c.at = "point" => Belongs(c.found, c.of),
         c.at = "record" => Fits(c.found, c.of),
         c.at = "post" => c.of \in Sessions /\ c.id \in Inboxes /\ Known(c.id, c.of)
  PROVE IInv'
<1>1. Types'
  BY DEF IInv, Types
<1>2. Named' /\ PastFits'
  BY PastStays DEF IInv, Named, There
<1>3. \A s \in Sessions : RowFits(s)'
  BY InboxesStay, PastStays DEF IInv, RowFits
<1>4. ASSUME NEW l \in Calls PROVE CallFits(l)'
  <2>1. CASE l = k
    <3>1. call'[l] = c
      BY <2>1 DEF IInv, Types
    <3> QED
      BY <3>1, InboxesStay, PastStays DEF CallFits
  <2>2. CASE l # k
    <3>1. call'[l] = call[l] /\ CallFits(l)
      BY <2>2 DEF IInv, Types
    <3> QED
      BY <3>1, InboxesStay, PastStays DEF CallFits
  <2> QED
    BY <2>1, <2>2
<1>5. \A d \in Commands : CommandFits(d)'
  BY InboxesStay, PastStays DEF IInv, CommandFits
<1> QED
  BY <1>1, <1>2, <1>3, <1>4, <1>5 DEF IInv

LEMMA OneCommand ==
  ASSUME IInv, UNCHANGED <<config, inbox, call, past>>, NEW c \in Commands,
         NEW d \in Command, command' = [command EXCEPT ![c] = d],
         d.id # Nothing => Known(d.id, d.of)
  PROVE IInv'
<1>1. Types'
  BY DEF IInv, Types
<1>2. Named' /\ PastFits'
  BY PastStays DEF IInv, Named, There
<1>3. \A s \in Sessions : RowFits(s)'
  BY InboxesStay, PastStays DEF IInv, RowFits
<1>4. \A l \in Calls : CallFits(l)'
  BY InboxesStay, PastStays DEF IInv, CallFits
<1>5. ASSUME NEW e \in Commands PROVE CommandFits(e)'
  <2>1. CASE e = c
    <3>1. command'[e] = d
      BY <2>1 DEF IInv, Types
    <3> QED
      BY <3>1, InboxesStay, PastStays DEF CommandFits
  <2>2. CASE e # c
    <3>1. command'[e] = command[e] /\ CommandFits(e)
      BY <2>2 DEF IInv, Types
    <3> QED
      BY <3>1, InboxesStay, PastStays DEF CommandFits
  <2> QED
    BY <2>1, <2>2
<1> QED
  BY <1>1, <1>2, <1>3, <1>4, <1>5 DEF IInv

LEMMA Unchanged ==
  ASSUME IInv, UNCHANGED <<config, inbox, call, command, past>> PROVE IInv'
<1>1. Types' /\ Named' /\ PastFits'
  BY PastStays DEF IInv, Types, Named, There
<1>2. \A s \in Sessions : RowFits(s)'
  BY InboxesStay, PastStays DEF IInv, RowFits
<1>3. \A l \in Calls : CallFits(l)'
  BY InboxesStay, PastStays DEF IInv, CallFits
<1>4. \A c \in Commands : CommandFits(c)'
  BY InboxesStay, PastStays DEF IInv, CommandFits
<1> QED
  BY <1>1, <1>2, <1>3, <1>4 DEF IInv

------------------------------------------------------------------------------
(* The steps.                                                              *)

LEMMA SetKeeps ==
  ASSUME IInv, NEW k \in Setters, NEW s \in Sessions, NEW n \in Names,
         NEW enabled \in BOOLEAN, NEW auto \in BOOLEAN, Set(k, s, n, enabled, auto)
  PROVE IInv'
<1>1. PICK id \in Inboxes \cup {Nothing} :
        /\ config' = [config EXCEPT ![s] =
             [there |-> TRUE, enabled |-> enabled, name |-> n, id |-> id]]
        /\ call' = [call EXCEPT ![k] = IF enabled
             THEN [at |-> "list", of |-> s, name |-> n, id |-> id, found |-> Nothing,
                   auto |-> auto]
             ELSE NoCall]
        /\ asked' = asked \cup ({s} \X ({id} \ {Nothing}))
  BY DEF Set
<1>2. (id # Nothing => Known(id, s)') /\ Owner[n] = s
  BY <1>1 DEF Known, Set
<1>3. UNCHANGED <<inbox, command, recorded>>
  BY DEF Set
<1>9. \A i, t : Known(i, t) => Known(i, t)'
  BY <1>1, <1>3, KnownStays
<1>4. Types'
  <2>1. config' \in [Sessions -> Row]
    BY <1>1, <1>2 DEF IInv, Types, Row
  <2>2. call' \in [Calls -> Call]
    <3>1. [at |-> "list", of |-> s, name |-> n, id |-> id, found |-> Nothing, auto |-> auto] \in Call
      BY <1>2 DEF Call
    <3>2. NoCall \in Call
      BY DEF Call, NoCall
    <3> QED
      BY <1>1, <3>1, <3>2 DEF IInv, Types
  <2> QED
    BY <1>3, <2>1, <2>2 DEF IInv, Types
<1>5. Named' /\ PastFits'
  BY <1>3, InboxesStay DEF IInv, Named, PastFits, There
<1>6. ASSUME NEW t \in Sessions PROVE RowFits(t)'
  <2>1. CASE t = s
    <3>1. config'[t] = [there |-> TRUE, enabled |-> enabled, name |-> n, id |-> id]
      BY <1>1, <2>1 DEF IInv, Types
    <3> QED
      BY <1>2, <1>3, <2>1, <3>1, InboxesStay DEF RowFits
  <2>2. CASE t # s
    <3>1. config'[t] = config[t] /\ RowFits(t)
      BY <1>1, <2>2 DEF IInv, Types
    <3> QED
      BY <1>3, <1>9, <3>1, InboxesStay DEF RowFits
  <2> QED
    BY <2>1, <2>2
<1>7. ASSUME NEW l \in Calls PROVE CallFits(l)'
  <2>1. CASE l = k
    <3>1. CASE enabled
      <4>1. call'[l].at = "list" /\ call'[l].name = n /\ call'[l].of = s
        BY <1>1, <2>1, <3>1 DEF IInv, Types
      <4> QED
        BY <1>2, <4>1 DEF CallFits
    <3>2. CASE ~enabled
      <4>1. call'[l].at = "idle"
        BY <1>1, <2>1, <3>2 DEF IInv, Types, NoCall
      <4> QED
        BY <4>1 DEF CallFits
    <3> QED
      BY <3>1, <3>2
  <2>2. CASE l # k
    <3>1. call'[l] = call[l] /\ CallFits(l)
      BY <1>1, <2>2 DEF IInv, Types
    <3> QED
      BY <1>3, <1>9, <3>1, InboxesStay DEF CallFits
  <2> QED
    BY <2>1, <2>2
<1>8. \A c \in Commands : CommandFits(c)'
  BY <1>3, <1>9, InboxesStay DEF IInv, CommandFits
<1> QED
  BY <1>4, <1>5, <1>6, <1>7, <1>8 DEF IInv

(* A configuration changes, and no call: it is deleted.                    *)
LEMMA DeleteKeeps == ASSUME IInv, NEW s \in Sessions, Delete(s) PROVE IInv'
<1>1. config' = [config EXCEPT ![s] = NoConfig] /\ UNCHANGED <<inbox, call, command, past>>
  BY DEF Delete
<1>2. Types'
  BY <1>1 DEF IInv, Types, Row, NoConfig
<1>3. Named' /\ PastFits'
  BY <1>1, PastStays DEF IInv, Named, There
<1>4. ASSUME NEW t \in Sessions PROVE RowFits(t)'
  <2>1. CASE t = s
    <3>1. config'[t] = NoConfig
      BY <1>1, <2>1 DEF IInv, Types
    <3> QED
      BY <3>1 DEF RowFits, NoConfig
  <2>2. CASE t # s
    <3>1. config'[t] = config[t] /\ RowFits(t)
      BY <1>1, <2>2 DEF IInv, Types
    <3> QED
      BY <1>1, <3>1, InboxesStay, PastStays DEF RowFits
  <2> QED
    BY <2>1, <2>2
<1>5. \A l \in Calls : CallFits(l)'
  BY <1>1, InboxesStay, PastStays DEF IInv, CallFits
<1>6. \A c \in Commands : CommandFits(c)'
  BY <1>1, InboxesStay, PastStays DEF IInv, CommandFits
<1> QED
  BY <1>2, <1>3, <1>4, <1>5, <1>6 DEF IInv

LEMMA MessageKeeps ==
  ASSUME IInv, NEW k \in Bridges, NEW s \in Sessions, Message(k, s) PROVE IInv'
<1> DEFINE c == [at |-> IF config[s].id = Nothing THEN "list" ELSE "post", of |-> s,
                 name |-> config[s].name, id |-> config[s].id, found |-> Nothing,
                 auto |-> FALSE]
<1>1. c \in Call
  BY DEF IInv, Types, Row, Call
<1>2. RowFits(s) /\ config[s].enabled
  BY DEF IInv, Message
<1>3. c.at \in {"list", "create"} => c.name \in Names /\ Owner[c.name] = c.of
  BY <1>2 DEF RowFits
<1>4. c.at = "post" => c.of \in Sessions /\ c.id \in Inboxes /\ Known(c.id, c.of)
  BY <1>2 DEF RowFits, IInv, Types, Row
<1>5. k \in Calls /\ c.at # "point" /\ c.at # "record"
  BY DEF Calls
<1>6. call' = [call EXCEPT ![k] = c] /\ UNCHANGED <<config, inbox, command, past>>
  BY DEF Message
<1> QED
  BY <1>1, <1>3, <1>4, <1>5, <1>6, OneCall

(* A request or a statement fails, and the call ends its initInbox without *)
(* an inbox to post in.                                                    *)
LEMMA FailsKeeps == ASSUME IInv, NEW k \in Calls, Fails(k) PROVE IInv'
<1> DEFINE c == Leaves(k, After(k, FALSE), call[k].id)
<1>1. call[k] \in Call
  BY DEF IInv, Types
<1>2. c \in Call /\ c.at \in {"idle", "bot"}
  <2>1. CASE After(k, FALSE) = "idle"
    BY <2>1 DEF Leaves, NoCall, Call
  <2>2. CASE After(k, FALSE) # "idle"
    <3>1. After(k, FALSE) = "bot"
      BY <2>2 DEF After, Calls
    <3>2. c = [call[k] EXCEPT !.at = "bot", !.id = call[k].id]
      BY <3>1 DEF Leaves
    <3> QED
      BY <1>1, <3>2 DEF Call
  <2> QED
    BY <2>1, <2>2
<1>3. call' = [call EXCEPT ![k] = c] /\ UNCHANGED <<config, inbox, command, past>>
  BY DEF Fails
<1> HIDE DEF c
<1> QED
  BY <1>2, <1>3, OneCall

LEMMA ListKeeps == ASSUME IInv, NEW k \in Calls, List(k) PROVE IInv'
<1>1. call[k] \in Call /\ CallFits(k) /\ UNCHANGED <<config, inbox, command, past>>
  BY DEF List, IInv, Types
<1>2. call[k].name \in Names /\ Owner[call[k].name] = call[k].of
  BY <1>1 DEF List, CallFits
<1>3. CASE call' = [call EXCEPT ![k] = [@ EXCEPT !.at = "create"]]
  <2> DEFINE c == [call[k] EXCEPT !.at = "create"]
  <2>1. c \in Call /\ c.at = "create" /\ c.name = call[k].name /\ c.of = call[k].of
    BY <1>1 DEF Call
  <2>2. call' = [call EXCEPT ![k] = c]
    BY <1>3
  <2> HIDE DEF c
  <2> QED
    BY <1>1, <1>2, <2>1, <2>2, OneCall
<1>4. ASSUME NEW i \in Inboxes, There(i), inbox[i].name = call[k].name,
             call' = [call EXCEPT ![k] = [@ EXCEPT !.at = OnceFound(k, i), !.found = i]]
      PROVE  IInv'
  <2> DEFINE c == [call[k] EXCEPT !.at = OnceFound(k, i), !.found = i]
  <2>1. c \in Call /\ c.at \in {"record", "point"} /\ c.found = i /\ c.of = call[k].of
    BY <1>1 DEF Call, OnceFound
  <2>2. Belongs(i, call[k].of)
    BY <1>2, <1>4 DEF Belongs
  <2>3. c.at = "record" => inbox[i].hook = call[k].of
    BY <1>1 DEF Call, OnceFound
  <2>4. c.at = "record" => Fits(c.found, c.of)
    BY <1>4, <2>1, <2>2, <2>3 DEF Fits, Answers
  <2>5. call' = [call EXCEPT ![k] = c]
    BY <1>4
  <2> HIDE DEF c
  <2> QED
    BY <1>1, <2>1, <2>2, <2>4, <2>5, OneCall
<1> QED
  BY <1>3, <1>4 DEF List

(* A call that changes an inbox of its own session, and goes on to record  *)
(* it.                                                                     *)
LEMMA InboxAndCall ==
  ASSUME IInv, NEW k \in Calls, NEW i \in Inboxes, NEW n \in Names, Owner[n] = call[k].of,
         NEW back \in Sessions \cup {Nothing}, NEW stuck \in BOOLEAN,
         back = call[k].of \/ stuck, There(i) => inbox[i].name = n,
         inbox' = [inbox EXCEPT ![i] = [name |-> n, hook |-> back, stuck |-> stuck]],
         NEW c \in Call, c.at = "record", c.found = i, c.of = call[k].of,
         call' = [call EXCEPT ![k] = c], UNCHANGED <<config, command, past>>
  PROVE IInv'
<1>1. call[k].of \in Sessions
  BY DEF IInv, Types, Call
<1>2. /\ Named' /\ inbox' \in [Inboxes -> Inbox]
      /\ \A j, t : Belongs(j, t) => Belongs(j, t)'
      /\ \A j, t : Fits(j, t) => Fits(j, t)'
      /\ Fits(i, call[k].of)'
  <2> DEFINE s == call[k].of
  <2>1. s \in Sessions /\ Owner[n] = s /\ (back = s \/ stuck) /\ Types /\ Named
    BY <1>1 DEF IInv
  <2>2. /\ Named' /\ inbox' \in [Inboxes -> Inbox]
        /\ \A j, t : Belongs(j, t) => Belongs(j, t)'
        /\ \A j, t : Fits(j, t) => Fits(j, t)'
    BY <2>1, InboxChanges
  <2>3. inbox'[i] = [name |-> n, hook |-> back, stuck |-> stuck]
    BY DEF IInv, Types
  <2>4. Fits(i, call[k].of)'
    <3>1. call'[k].of = call[k].of
      BY DEF IInv, Types
    <3> QED
      BY <2>1, <2>3, <3>1 DEF Fits, Belongs, Answers, There, NoInbox
  <2> QED
    BY <2>2, <2>4
<1>3. Types'
  BY <1>2 DEF IInv, Types
<1>7. PastFits' /\ \A j, t : Known(j, t)' <=> Known(j, t)
  BY <1>2 DEF IInv, PastFits, Known, past
<1>4. \A s \in Sessions : RowFits(s)'
  BY <1>7 DEF IInv, RowFits
<1>5. ASSUME NEW l \in Calls PROVE CallFits(l)'
  <2>1. CASE l = k
    <3>1. call'[l] = c
      BY <2>1 DEF IInv, Types
    <3>2. Fits(i, call[k].of)'
      BY <1>2
    <3> QED
      BY <2>1, <3>1, <3>2 DEF CallFits
  <2>2. CASE l # k
    <3>1. call'[l] = call[l] /\ CallFits(l)
      BY <2>2 DEF IInv, Types
    <3> QED
      BY <1>2, <1>7, <3>1 DEF CallFits
  <2> QED
    BY <2>1, <2>2
<1>6. \A d \in Commands : CommandFits(d)'
  BY <1>7 DEF IInv, CommandFits
<1> QED
  BY <1>2, <1>3, <1>4, <1>5, <1>6, <1>7 DEF IInv

LEMMA CreateKeeps == ASSUME IInv, NEW k \in Calls, Create(k) PROVE IInv'
<1> DEFINE i == CHOOSE i \in Free : TRUE
           c == [call[k] EXCEPT !.at = "record", !.found = i]
<1>1. i \in Inboxes /\ ~There(i)
  BY DEF Create, Free
<1>2. call[k] \in Call /\ call[k].name \in Names /\ Owner[call[k].name] = call[k].of
  BY DEF Create, IInv, Types, CallFits
<1>3. /\ inbox' = [inbox EXCEPT ![i] =
           [name |-> call[k].name, hook |-> call[k].of, stuck |-> FALSE]]
      /\ call' = [call EXCEPT ![k] = c] /\ UNCHANGED <<config, command, past>>
  BY DEF Create
<1>4. c \in Call /\ c.at = "record" /\ c.found = i /\ c.of = call[k].of
  BY <1>1, <1>2 DEF Call
<1>5. call[k].of \in Sessions \cup {Nothing}
  BY <1>2 DEF Call
<1> HIDE DEF i, c
<1> QED
  BY <1>1, <1>2, <1>3, <1>4, <1>5, InboxAndCall

LEMMA PointKeeps == ASSUME IInv, NEW k \in Calls, Point(k) PROVE IInv'
<1> DEFINE i == call[k].found
           c == [call[k] EXCEPT !.at = "record"]
<1>1. call[k] \in Call /\ Belongs(i, call[k].of) /\ Named
  BY DEF Point, IInv, Types, CallFits
<1>2. /\ i \in Inboxes /\ There(i) /\ inbox[i].name \in Names
      /\ Owner[inbox[i].name] = call[k].of /\ inbox[i] \in Inbox
  BY <1>1 DEF Belongs, There, Named, IInv, Types
<1>3. c \in Call /\ c.at = "record" /\ c.found = i /\ c.of = call[k].of
  BY <1>1 DEF Call
<1>4. call' = [call EXCEPT ![k] = c] /\ UNCHANGED <<config, command, past>>
  BY DEF Point
<1>5. call[k].of \in Sessions \cup {Nothing} /\ inbox[i].hook \in Sessions \cup {Nothing}
  BY <1>1, <1>2 DEF Call, Inbox
<1>6. CASE inbox' = [inbox EXCEPT ![i] =
             [name |-> inbox[i].name, hook |-> call[k].of, stuck |-> FALSE]]
  <2> HIDE DEF i, c
  <2> QED
    BY <1>2, <1>3, <1>4, <1>5, <1>6, InboxAndCall
<1>7. CASE inbox' = [inbox EXCEPT ![i] =
             [name |-> inbox[i].name, hook |-> inbox[i].hook, stuck |-> TRUE]]
  <2> HIDE DEF i, c
  <2> QED
    BY <1>2, <1>3, <1>4, <1>5, <1>7, InboxAndCall
<1> QED
  BY <1>6, <1>7 DEF Point

LEMMA RecordedKeeps ==
  ASSUME IInv, NEW k \in Calls, Record(k), NEW s, s = call[k].of,
         NEW i, i = call[k].found, NEW c, c = Leaves(k, After(k, TRUE), i)
  PROVE  IInv'
<1>1. call[k] \in Call /\ Fits(i, s) /\ Types
  BY DEF Record, IInv, Types, CallFits
<1>2. /\ i \in Inboxes /\ s \in Sessions /\ UNCHANGED <<inbox, command, asked>>
      /\ call' = [call EXCEPT ![k] = c] /\ recorded' = recorded \cup {<<s, i>>}
  BY <1>1 DEF Record, Fits, Belongs, There, Answers, IInv, Named
<1>3. /\ c \in Call /\ c.at \in {"idle", "bot", "post"}
      /\ c.at = "post" => c.of \in Sessions /\ c.id \in Inboxes /\ Known(c.id, c.of)'
  <2>1. /\ c \in Call /\ c.at \in {"idle", "bot", "post"}
        /\ c.at = "post" => c.id = i /\ c.of = s
    <3>1. CASE After(k, TRUE) = "idle"
      BY <3>1 DEF Leaves, NoCall, Call
    <3>2. CASE After(k, TRUE) # "idle"
      <4>1. After(k, TRUE) \in {"bot", "post"}
        BY <3>2 DEF After, Calls
      <4>2. c = [call[k] EXCEPT !.at = After(k, TRUE), !.id = i]
        BY <3>2 DEF Leaves
      <4> QED
        BY <1>1, <1>2, <4>1, <4>2 DEF Call
    <3> QED
      BY <3>1, <3>2
  <2> QED
    BY <1>2, <2>1 DEF Known
<1>9. \A j, t : Known(j, t) => Known(j, t)'
  BY <1>2, KnownStays
<1>4. ASSUME NEW t \in Sessions
      PROVE  config'[t] \in Row /\ RowFits(t)'
  <2>1. config[t] \in Row /\ RowFits(t)
    BY DEF IInv, Types
  <2>2. CASE config'[t] = config[t]
    BY <1>2, <1>9, <2>1, <2>2 DEF RowFits
  <2>3. CASE t = s /\ config[s].there
    <3>1. config'[t] = [config[t] EXCEPT !.id = i]
      BY <2>3 DEF Record, IInv, Types
    <3>2. /\ config'[t] \in Row /\ config'[t].id = i /\ config'[t].name = config[t].name
          /\ config'[t].enabled = config[t].enabled
      BY <1>2, <2>1, <3>1 DEF Row
    <3>3. Known(i, t)'
      BY <1>2, <2>3 DEF Known
    <3> QED
      BY <2>1, <3>2, <3>3 DEF RowFits
  <2>4. config'[t] = config[t] \/ (t = s /\ config[s].there)
    BY DEF Record, IInv, Types
  <2> QED
    BY <2>2, <2>3, <2>4
<1>5. Types'
  <2>1. config' \in [Sessions -> Row]
    <3>1. DOMAIN config' = Sessions /\ config' = [t \in Sessions |-> config'[t]]
      BY DEF Record, IInv, Types
    <3> QED
      BY <1>4, <3>1
  <2>2. call' \in [Calls -> Call]
    <3> QED
      BY <1>1, <1>2, <1>3 DEF Types
  <2> QED
    BY <1>1, <1>2, <2>1, <2>2 DEF Types
<1>6. Named' /\ PastFits'
  BY <1>1, <1>2, InboxesStay DEF IInv, Named, PastFits, There
<1>7. ASSUME NEW l \in Calls PROVE CallFits(l)'
  <2>1. CASE l = k
    <3>1. call'[l] = c
      BY <1>1, <1>2, <2>1 DEF Types
    <3> QED
      BY <1>2, <1>3, <3>1, InboxesStay DEF CallFits
  <2>2. CASE l # k
    <3>1. call'[l] = call[l] /\ CallFits(l)
      BY <1>2, <2>2 DEF IInv, Types
    <3> QED
      BY <1>2, <1>9, <3>1, InboxesStay DEF CallFits
  <2> QED
    BY <2>1, <2>2
<1>8. \A d \in Commands : CommandFits(d)'
  BY <1>2, <1>9 DEF IInv, CommandFits
<1> QED
  BY <1>4, <1>5, <1>6, <1>7, <1>8 DEF IInv

LEMMA RecordKeeps == ASSUME IInv, NEW k \in Calls, Record(k) PROVE IInv'
  BY RecordedKeeps

LEMMA PostKeeps == ASSUME IInv, NEW k \in Calls, Post(k) PROVE IInv'
<1>1. NoCall \in Call /\ NoCall.at = "idle"
  BY DEF Call, NoCall
<1>2. call' = [call EXCEPT ![k] = NoCall] /\ UNCHANGED <<config, inbox, command, past>>
  BY DEF Post
<1> QED
  BY <1>1, <1>2, OneCall

LEMMA MakeBotKeeps == ASSUME IInv, NEW k \in Calls, MakeBot(k) PROVE IInv'
<1>1. call' = [call EXCEPT ![k] = NoCall] /\ UNCHANGED <<config, inbox, past>>
  BY DEF MakeBot
<1>2. Types'
  <2>1. call' \in [Calls -> Call]
    BY <1>1 DEF IInv, Types, Call, NoCall
  <2>2. command' \in [Commands -> Command]
    <3>1. ASSUME There(call[k].id), inbox[call[k].id].hook # Nothing
          PROVE  [at |-> "read", of |-> inbox[call[k].id].hook, says |-> "init",
                  id |-> Nothing] \in Command
      BY <3>1 DEF IInv, Types, Inbox, There, Command, Says
    <3> QED
      BY <3>1 DEF MakeBot, IInv, Types
  <2> QED
    BY <1>1, <2>1, <2>2 DEF IInv, Types
<1>3. Named' /\ PastFits'
  BY <1>1, PastStays DEF IInv, Named, There
<1>4. \A s \in Sessions : RowFits(s)'
  BY <1>1, InboxesStay, PastStays DEF IInv, RowFits
<1>5. ASSUME NEW l \in Calls PROVE CallFits(l)'
  <2>1. CASE l = k
    <3>1. call'[l].at = "idle"
      BY <1>1, <2>1 DEF IInv, Types, NoCall
    <3> QED
      BY <3>1 DEF CallFits
  <2>2. CASE l # k
    <3>1. call'[l] = call[l] /\ CallFits(l)
      BY <1>1, <2>2 DEF IInv, Types
    <3> QED
      BY <1>1, <3>1, InboxesStay, PastStays DEF CallFits
  <2> QED
    BY <2>1, <2>2
<1>6. ASSUME NEW c \in Commands PROVE CommandFits(c)'
  <2>1. command'[c] = command[c] \/ command'[c].id = Nothing
    BY DEF MakeBot, IInv, Types
  <2> QED
    BY <1>1, <2>1, InboxesStay, PastStays DEF IInv, CommandFits
<1> QED
  BY <1>2, <1>3, <1>4, <1>5, <1>6 DEF IInv

LEMMA WriteKeeps ==
  ASSUME IInv, NEW c \in Commands, NEW i \in Inboxes, NEW says \in Says, Write(c, i, says)
  PROVE IInv'
<1> DEFINE d == [at |-> "read", of |-> inbox[i].hook, says |-> says, id |-> Nothing]
<1>1. d \in Command /\ d.id = Nothing
  BY DEF Write, IInv, Types, Inbox, Command
<1>2. command' = [command EXCEPT ![c] = d] /\ UNCHANGED <<config, inbox, call, past>>
  BY DEF Write
<1> HIDE DEF d
<1> QED
  BY <1>1, <1>2, OneCommand

(* A command that comes to another place, with no inbox to reply in or     *)
(* with that of its session.                                               *)
LEMMA ComesKeeps ==
  ASSUME IInv, NEW c \in Commands, command[c] # NoCommand,
         NEW at \in {"handle", "connect", "logout", "done"},
         NEW id \in Inboxes \cup {Nothing}, id # Nothing => Known(id, command[c].of),
         Comes(c, at, id), UNCHANGED <<config, inbox, call, past>>
  PROVE IInv'
<1> DEFINE d == [command[c] EXCEPT !.at = at, !.id = id]
<1>1. command[c] \in Command
  BY DEF IInv, Types
<1>2. d \in Command /\ d.id = id /\ d.of = command[c].of
  BY <1>1 DEF Command
<1>3. command' = [command EXCEPT ![c] = d]
  BY DEF Comes
<1> HIDE DEF d
<1> QED
  BY <1>2, <1>3, OneCommand

LEMMA ReadCommandKeeps == ASSUME IInv, NEW c \in Commands, ReadCommand(c) PROVE IInv'
<1> DEFINE s == command[c].of
<1>1. UNCHANGED <<config, inbox, call, past>>
  BY DEF ReadCommand
<1>2. CASE s \in connected /\ config[s].enabled
  <2>1. s \in Sessions
    BY DEF ReadCommand, IInv, Types, Command, NoCommand
  <2>2. config[s].id \in Inboxes \cup {Nothing} /\ (config[s].id # Nothing => Known(config[s].id, s))
    BY <1>2, <2>1 DEF IInv, Types, Row, RowFits
  <2>3. Comes(c, "handle", config[s].id) /\ command[c] # NoCommand
    BY <1>2 DEF ReadCommand, NoCommand
  <2> QED
    BY <1>1, <2>2, <2>3, ComesKeeps
<1>3. CASE Comes(c, "done", Nothing)
  <2>1. command[c] # NoCommand
    BY DEF ReadCommand, NoCommand
  <2> QED
    BY <1>1, <1>3, <2>1, ComesKeeps
<1> QED
  BY <1>2, <1>3 DEF ReadCommand

LEMMA HandleKeeps == ASSUME IInv, NEW c \in Commands, Handle(c) PROVE IInv'
<1>1. command[c] # NoCommand /\ UNCHANGED <<config, inbox, call, past>>
  BY DEF Handle, NoCommand
<1>2. \E at \in {"handle", "connect", "logout", "done"} : Comes(c, at, Nothing)
  BY DEF Handle
<1> QED
  BY <1>1, <1>2, ComesKeeps

LEMMA Step == IInv /\ [InboxesNext]_inboxesVars => IInv'
<1> SUFFICES ASSUME IInv, [InboxesNext]_inboxesVars PROVE IInv'
  OBVIOUS
<1> USE DEF Calls
<1>1. ASSUME NEW k \in Setters, NEW s \in Sessions, NEW n \in Names, NEW enabled \in BOOLEAN,
             NEW auto \in BOOLEAN, Set(k, s, n, enabled, auto)
      PROVE  IInv'
  BY <1>1, SetKeeps
<1>2. ASSUME NEW k \in Bridges, NEW s \in Sessions, Message(k, s) PROVE IInv'
  BY <1>2, MessageKeeps
<1>3. ASSUME NEW k \in Calls,
             ListFails(k) \/ CreateFails(k) \/ RecordFails(k)
      PROVE  IInv'
  BY <1>3, FailsKeeps DEF ListFails, CreateFails, RecordFails
<1>4. ASSUME NEW k \in Calls,
             List(k) \/ Create(k) \/ Point(k) \/ Record(k) \/ Post(k) \/ MakeBot(k)
      PROVE  IInv'
  BY <1>4, ListKeeps, CreateKeeps, PointKeeps, RecordKeeps, PostKeeps, MakeBotKeeps
<1>5. ASSUME NEW c \in Commands, NEW i \in Inboxes, NEW says \in Says, Write(c, i, says)
      PROVE  IInv'
  BY <1>5, WriteKeeps
<1>6. ASSUME NEW c \in Commands, ReadCommand(c) \/ Handle(c) PROVE IInv'
  BY <1>6, ReadCommandKeeps, HandleKeeps
<1>7. ASSUME NEW c \in Commands, ConnectOrNot(c) \/ LogoutOrNot(c) PROVE IInv'
  <2>1. command[c] # NoCommand /\ Comes(c, "done", Nothing) /\ UNCHANGED <<config, inbox, call, past>>
    BY <1>7 DEF ConnectOrNot, LogoutOrNot, NoCommand
  <2> QED
    BY <2>1, ComesKeeps
<1>8. ASSUME NEW s \in Sessions, Delete(s) PROVE IInv'
  BY <1>8, DeleteKeeps
<1>9. ASSUME NEW s \in Sessions, Lose(s) PROVE IInv'
  BY <1>9, Unchanged DEF Lose
<1>10. CASE UNCHANGED inboxesVars
  BY <1>10, Unchanged DEF inboxesVars
<1> HIDE DEF Calls
<1> QED
  BY <1>1, <1>2, <1>3, <1>4, <1>5, <1>6, <1>7, <1>8, <1>9, <1>10 DEF InboxesNext

LEMMA Enough == IInv => AnswersComeBack
<1> SUFFICES ASSUME IInv PROVE AnswersComeBack
  OBVIOUS
<1>1. ASSUME NEW i \in Inboxes, NEW s \in Sessions, Known(i, s)
      PROVE  Answers(i, s) \/ OnlyAsked(i, s)
  BY <1>1 DEF IInv, PastFits, Fits, Known, OnlyAsked
<1>2. \A s \in Sessions :
        config[s].id # Nothing => config[s].id \in Inboxes /\ Known(config[s].id, s)
  BY DEF IInv, Types, Row, RowFits
<1>3. \A k \in Calls : call[k].at = "post" =>
        call[k].id \in Inboxes /\ call[k].of \in Sessions /\ Known(call[k].id, call[k].of)
  BY DEF IInv, Types, Call, CallFits
<1>4. \A c \in Commands : command[c].id # Nothing =>
        command[c].id \in Inboxes /\ command[c].of \in Sessions
        /\ Known(command[c].id, command[c].of)
  BY DEF IInv, Types, Command, NoCommand, CommandFits
<1> QED
  BY <1>1, <1>2, <1>3, <1>4 DEF AnswersComeBack

(* The answers that agents write come back to the session whose messages   *)
(* they answer, for any sessions and names, calls at once, renamings,      *)
(* deletions and failures, and whatever inboxes requests name; only of an  *)
(* inbox that requests named and initInbox did not record is nothing said  *)
(* (initInbox, SetConfig, the bridge).                                     *)
THEOREM AnswersReturn == InboxesSpec => []AnswersComeBack
<1>1. InboxesInit => IInv
  BY Initial
<1>2. IInv /\ [InboxesNext]_inboxesVars => IInv'
  BY Step
<1>3. IInv => AnswersComeBack
  BY Enough
<1> QED
  BY <1>1, <1>2, <1>3, PTL DEF InboxesSpec
==============================================================================
