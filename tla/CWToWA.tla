-------------------------------- MODULE CWToWA --------------------------------
(***************************************************************************)
(* The Chatwoot to WhatsApp bridge: ReceiveWebhook accepts an agent's      *)
(* message, the work queue of module Queue (or a goroutine when the broker *)
(* is away) carries it to sendToWhatsAppBackground, which sends its        *)
(* attachments and its text through the session's WhatsApp client.         *)
(*                                                                         *)
(* Three in-memory devices keep the two systems from echoing each other:   *)
(* the processing key a queue handler acquires, the mark of a pending send *)
(* that the WhatsApp event handler consults, and the saved row that a      *)
(* later webhook of the same message finds.                                *)
(***************************************************************************)
EXTENDS Naturals, Sequences, FiniteSets

CONSTANTS
  CwMsgs,        (* messages Chatwoot agents write                           *)
  HasText,       (* those with a text                                        *)
  Attachments,   (* the attachments of each, in order: "media" carries the   *)
                 (* text as its caption, "file" (audio, document) does not   *)
  Chats, ChatOf, (* chats, and the chat of each message                      *)
  Hooks, Cw,     (* webhook calls, and the message each is about             *)
  PhoneMsgs,     (* messages the user writes on the phone itself             *)
  Online,        (* what Producer.IsConnected may answer; {FALSE} when the   *)
                 (* queue is not enabled                                     *)
  SessionFlaps,  (* bound on losses of the WhatsApp connection               *)
  SendFaults,    (* may downloads, sends and saves fail?                     *)
  Slow,          (* may a send outlive the two minutes of marks and keys?    *)
  Consumer,      (* the task that is the queue handler                       *)
  MaxRetries, Batch, StartOutcomes, BrokerFaults, MaxRestarts, NoCopy

ASSUME BridgeAssumption ==
  /\ HasText \subseteq CwMsgs
  /\ Attachments \in [CwMsgs -> Seq({"media", "file"})]
  /\ ChatOf \in [CwMsgs \cup PhoneMsgs -> Chats]
  /\ Cw \in [Hooks -> CwMsgs]
  /\ \A c \in CwMsgs : c \in HasText \/ Attachments[c] # <<>>
  /\ Online \subseteq BOOLEAN
  /\ {SendFaults, Slow} \subseteq BOOLEAN
  /\ SessionFlaps \in Nat
  /\ Consumer \notin Hooks

VARIABLES
  proc, loop, restarts, stored, dc, pull, buf, hand, dlq, fallback,
  attempts, handled

Q == INSTANCE Queue WITH Msgs <- Hooks

queue == <<proc, loop, restarts, stored, dc, pull, buf, hand, dlq, fallback,
           attempts, handled>>

ASSUME QueueAssumption ==
  /\ {MaxRetries, Batch} \subseteq Nat \ {0} /\ MaxRestarts \in Nat
  /\ StartOutcomes \subseteq {"on", "off", "cancelled"} /\ BrokerFaults \in BOOLEAN
  /\ NoCopy \notin Q!Copy

VARIABLES
  sess,    (* the session: "absent" from memory, "disconnected", "connected" *)
  flaps,   (* losses of the connection so far                                *)
  hook,    (* progress of each webhook call                                  *)
  keys,    (* messages whose cw2wa key is in cwToWAProcessingCache           *)
  marks,   (* messages marked in pendingSentFromChatwoot                     *)
  task,    (* the running sendToWhatsAppBackground calls                     *)
  saved,   (* messages with a row in the database                            *)
  sent,    (* history: for each message, the parts that reached WhatsApp     *)
  leaked,  (* history: messages whose echo went back towards Chatwoot        *)
  phone    (* what became of each message written on the phone               *)

bridge == <<flaps, hook, saved, sent, leaked, phone>>
memory == <<sess, keys, marks, task>>
vars == <<queue, bridge, memory>>

Tasks == Hooks \cup {Consumer}

(* A task has come to attachment at; text: its content is still unsent;    *)
(* part: what the send under way carries (0 is a message of text alone);   *)
(* any: history, this call has sent something.                             *)
Idle == [pc |-> "idle", at |-> 1, text |-> FALSE, part |-> 0, any |-> FALSE]

TaskState ==
  [pc : {"idle", "send", "echo", "save", "ok", "error"},
   at : Nat, text : BOOLEAN, part : Nat, any : BOOLEAN]

MsgOf(t) == IF t = Consumer THEN Cw[hand.msg] ELSE Cw[t]

TypeOK ==
  /\ Q!TypeOK
  /\ sess \in {"absent", "disconnected", "connected"}
  /\ flaps \in 0 .. SessionFlaps
  /\ hook \in [Hooks -> {"due", "checked", "ignored", "queued", "direct"}]
  /\ keys \subseteq CwMsgs
  /\ marks \subseteq CwMsgs
  /\ task \in [Tasks -> TaskState]
  /\ saved \subseteq CwMsgs
  /\ sent \in [CwMsgs -> Seq([part : Nat, text : BOOLEAN])]
  /\ leaked \subseteq CwMsgs
  /\ phone \in [PhoneMsgs -> {"unsent", "forwarded", "skipped"}]

Init ==
  /\ Q!Init
  /\ sess = "absent"
  /\ flaps = 0
  /\ hook = [h \in Hooks |-> "due"]
  /\ keys = {}
  /\ marks = {}
  /\ task = [t \in Tasks |-> Idle]
  /\ saved = {}
  /\ sent = [c \in CwMsgs |-> <<>>]
  /\ leaked = {}
  /\ phone = [p \in PhoneMsgs |-> "unsent"]

------------------------------------------------------------------------------
(* The process and its session.  main starts the consumers before it loads *)
(* the sessions; what is in memory does not survive the process.           *)

Start == Q!Start /\ UNCHANGED <<bridge, memory>>

LoadSessions ==
  /\ proc = "up"
  /\ sess = "absent"
  /\ sess' = "disconnected"
  /\ UNCHANGED <<queue, bridge, keys, marks, task>>

Connected ==
  /\ proc # "down"
  /\ sess = "disconnected"
  /\ sess' = "connected"
  /\ UNCHANGED <<queue, bridge, keys, marks, task>>

ConnectionLost ==
  /\ sess = "connected"
  /\ flaps < SessionFlaps
  /\ sess' = "disconnected"
  /\ flaps' = flaps + 1
  /\ UNCHANGED <<queue, hook, saved, sent, leaked, phone, keys, marks, task>>

Forget ==
  /\ sess' = "absent"
  /\ keys' = {}
  /\ marks' = {}
  /\ task' = [t \in Tasks |-> Idle]
  /\ hook' = [h \in Hooks |-> IF hook[h] = "checked" THEN "ignored"
                              ELSE hook[h]]

ProcessEnds ==
  /\ Q!Exit \/ Q!Crash
  /\ Forget
  /\ UNCHANGED <<flaps, saved, sent, leaked, phone>>

------------------------------------------------------------------------------
(* ReceiveWebhook.                                                         *)

(* The checks: a session that is not connected answers 200 and forgets the *)
(* message; a message that has a row is a duplicate.                       *)
CheckHook(h) ==
  /\ proc = "up" /\ sess # "absent"
  /\ hook[h] = "due"
  /\ hook' = [hook EXCEPT ![h] =
       IF sess # "connected" \/ Cw[h] \in saved THEN "ignored" ELSE "checked"]
  /\ UNCHANGED <<queue, flaps, saved, sent, leaked, phone, memory>>

(* Mutant: the send is not marked.                                         *)
BeginUnmarked(t, c) ==
  /\ task' = [task EXCEPT ![t] =
       [Idle EXCEPT !.pc = "send", !.text = c \in HasText]]
  /\ UNCHANGED marks

(* sendToWhatsAppBackground begins by marking the message as pending.      *)
Begin(t, c) ==
  /\ marks' = marks \cup {c}
  /\ task' = [task EXCEPT ![t] =
       [Idle EXCEPT !.pc = "send", !.text = c \in HasText]]

Enqueue(h) ==
  /\ TRUE \in Online
  /\ hook[h] = "checked"
  /\ Q!PublishOk(h)
  /\ hook' = [hook EXCEPT ![h] = "queued"]
  /\ UNCHANGED <<flaps, saved, sent, leaked, phone, memory>>

(* The publish failed, or the producer has no connection.                  *)
SendDirectly(h) ==
  /\ hook[h] = "checked"
  /\ \/ TRUE \in Online /\ Q!PublishError(h)
     \/ FALSE \in Online /\ UNCHANGED queue
  /\ hook' = [hook EXCEPT ![h] = "direct"]
  /\ Begin(h, Cw[h])
  /\ UNCHANGED <<flaps, saved, sent, leaked, phone, sess, keys>>

------------------------------------------------------------------------------
(* The send_text and send_media handlers.                                  *)

QueueStep(A) == A /\ UNCHANGED <<bridge, memory>>

InHandler == hand # NoCopy /\ task[Consumer].pc = "idle"

(* The key is held: taken for a duplicate, reported as success.            *)
SkipDuplicate ==
  /\ InHandler
  /\ MsgOf(Consumer) \in keys
  /\ task' = [task EXCEPT ![Consumer].pc = "ok"]
  /\ UNCHANGED <<queue, bridge, sess, keys, marks>>

(* Mutant: the handler does not consult the key.                           *)
HandleAlways ==
  /\ InHandler
  /\ keys' = keys \cup {MsgOf(Consumer)}
  /\ \/ /\ sess = "connected"
        /\ Begin(Consumer, MsgOf(Consumer))
     \/ /\ sess # "connected"
        /\ task' = [task EXCEPT ![Consumer].pc = "error"]
        /\ UNCHANGED marks
  /\ UNCHANGED <<queue, bridge, sess>>

(* Otherwise the key is acquired, and no path of the handler releases it.  *)
HandleSend ==
  /\ InHandler
  /\ MsgOf(Consumer) \notin keys
  /\ keys' = keys \cup {MsgOf(Consumer)}
  /\ \/ /\ sess = "connected"
        /\ Begin(Consumer, MsgOf(Consumer))
     \/ /\ sess # "connected"
        /\ task' = [task EXCEPT ![Consumer].pc = "error"]
        /\ UNCHANGED marks
  /\ UNCHANGED <<queue, bridge, sess>>

HandlerReturns ==
  /\ \/ task[Consumer].pc = "ok" /\ Q!HandlerSucceeds
     \/ task[Consumer].pc = "error" /\ (Q!HandlerFails \/ Q!HandlerGivesUp)
  /\ task' = [task EXCEPT ![Consumer] = Idle]
  /\ UNCHANGED <<bridge, sess, keys, marks>>

------------------------------------------------------------------------------
(* sendToWhatsAppBackground, run by a goroutine or by the queue handler.   *)

(* The network fails, or Stop cancelled the context of the queue handler.  *)
MayFail(t) == SendFaults \/ (t = Consumer /\ loop = "cancelled")

HasAttachment(t) == task[t].at <= Len(Attachments[MsgOf(t)])
Kind(t) == Attachments[MsgOf(t)][task[t].at]

(* An attachment that cannot be downloaded is skipped and leaves the text  *)
(* to the next part.                                                       *)
DownloadFails(t) ==
  /\ MayFail(t)
  /\ task[t].pc = "send" /\ HasAttachment(t)
  /\ task' = [task EXCEPT ![t].at = @ + 1]
  /\ UNCHANGED <<queue, bridge, sess, keys, marks>>

(* Mutant: the row is saved for a send that failed.                        *)
AttachmentFailsSaving(t) ==
  /\ MayFail(t) \/ sess # "connected"
  /\ task[t].pc = "send" /\ HasAttachment(t)
  /\ task' = [task EXCEPT ![t].at = @ + 1, ![t].text = FALSE]
  /\ saved' = saved \cup {MsgOf(t)}
  /\ UNCHANGED <<queue, flaps, hook, sent, leaked, phone, sess, keys, marks>>

(* A send that fails drops the attachment and the text with it.            *)
AttachmentFails(t) ==
  /\ MayFail(t) \/ sess # "connected"
  /\ task[t].pc = "send" /\ HasAttachment(t)
  /\ task' = [task EXCEPT ![t].at = @ + 1, ![t].text = FALSE]
  /\ UNCHANGED <<queue, bridge, sess, keys, marks>>

(* Mutant: what was sent with a caption is not cleared from the text.      *)
SendsKeepingText(t, part, withText) ==
  LET c == MsgOf(t) IN
  /\ sess = "connected"
  /\ sent' = [sent EXCEPT ![c] = Append(@, [part |-> part, text |-> withText])]
  /\ task' = [task EXCEPT ![t] =
       [@ EXCEPT !.pc = "echo", !.part = part, !.any = TRUE]]
  /\ UNCHANGED <<queue, flaps, hook, saved, leaked, phone, sess, keys, marks>>

Sends(t, part, withText) ==
  LET c == MsgOf(t) IN
  /\ sess = "connected"
  /\ sent' = [sent EXCEPT ![c] = Append(@, [part |-> part, text |-> withText])]
  /\ task' = [task EXCEPT ![t] =
       [@ EXCEPT !.pc = "echo", !.text = FALSE, !.part = part, !.any = TRUE]]
  /\ UNCHANGED <<queue, flaps, hook, saved, leaked, phone, sess, keys, marks>>

SendAttachment(t) ==
  /\ task[t].pc = "send" /\ HasAttachment(t)
  /\ Sends(t, task[t].at, task[t].text /\ Kind(t) = "media")

SendText(t) ==
  /\ task[t].pc = "send" /\ ~HasAttachment(t) /\ task[t].text
  /\ Sends(t, 0, TRUE)

TextFails(t) ==
  /\ MayFail(t) \/ sess # "connected"
  /\ task[t].pc = "send" /\ ~HasAttachment(t) /\ task[t].text
  /\ task' = [task EXCEPT ![t].pc = "error"]
  /\ marks' = marks \ {MsgOf(t)}
  /\ UNCHANGED <<queue, bridge, sess, keys>>

PendingInChat(chat) == \E c \in marks : ChatOf[c] = chat

(* SendMessage emits the sent message as an event before it returns; the   *)
(* Chatwoot event handler skips it while a send to the chat is marked.     *)
Echo(t) ==
  /\ task[t].pc = "echo"
  /\ leaked' = IF PendingInChat(ChatOf[MsgOf(t)]) THEN leaked
               ELSE leaked \cup {MsgOf(t)}
  /\ task' = [task EXCEPT ![t].pc = "save"]
  /\ UNCHANGED <<queue, flaps, hook, saved, sent, phone, sess, keys, marks>>

(* saveOutgoingMessage ignores the error of Save.                          *)
Save(t) ==
  /\ task[t].pc = "save"
  /\ \/ saved' = saved \cup {MsgOf(t)}
     \/ MayFail(t) /\ UNCHANGED saved
  /\ task' = [task EXCEPT ![t].pc = "send",
                          ![t].at = IF task[t].part = 0 THEN @ ELSE @ + 1]
  /\ UNCHANGED <<queue, flaps, hook, sent, leaked, phone, sess, keys, marks>>

(* Mutant: the mark stays when the send succeeds.                          *)
ReturnKeepsMark(t) ==
  /\ task[t].pc = "send" /\ ~HasAttachment(t) /\ ~task[t].text
  /\ task' = [task EXCEPT ![t] =
       IF t = Consumer THEN [@ EXCEPT !.pc = "ok"] ELSE Idle]
  /\ UNCHANGED <<queue, bridge, sess, keys, marks>>

(* The deferred ClearPending, also when every attachment failed.           *)
Return(t) ==
  /\ task[t].pc = "send" /\ ~HasAttachment(t) /\ ~task[t].text
  /\ marks' = marks \ {MsgOf(t)}
  /\ task' = [task EXCEPT ![t] =
       IF t = Consumer THEN [@ EXCEPT !.pc = "ok"] ELSE Idle]
  /\ UNCHANGED <<queue, bridge, sess, keys>>

(* A goroutine logs the error of its send and ends.                        *)
LogError(h) ==
  /\ task[h].pc = "error"
  /\ task' = [task EXCEPT ![h] = Idle]
  /\ UNCHANGED <<queue, bridge, sess, keys, marks>>

SendStep(t) ==
  \/ DownloadFails(t) \/ AttachmentFails(t) \/ SendAttachment(t)
  \/ SendText(t) \/ TextFails(t)
  \/ Echo(t) \/ Save(t) \/ Return(t)

------------------------------------------------------------------------------
(* A message the user writes on the phone, in a chat an agent answers.     *)
PhoneSends(p) ==
  /\ proc # "down" /\ sess = "connected"
  /\ phone[p] = "unsent"
  /\ phone' = [phone EXCEPT ![p] =
       IF PendingInChat(ChatOf[p]) THEN "skipped" ELSE "forwarded"]
  /\ UNCHANGED <<queue, flaps, hook, saved, sent, leaked, memory>>

(* The two minutes pass: only the queue handler runs without a timeout.    *)
MarkExpires(c) ==
  /\ Slow
  /\ c \in marks
  /\ \A h \in Hooks : task[h].pc # "idle" => Cw[h] # c
  /\ marks' = marks \ {c}
  /\ UNCHANGED <<queue, bridge, sess, keys, task>>

KeyExpires(c) ==
  /\ Slow
  /\ c \in keys
  /\ keys' = keys \ {c}
  /\ UNCHANGED <<queue, bridge, sess, marks, task>>

------------------------------------------------------------------------------
Next ==
  \/ Start \/ LoadSessions \/ Connected \/ ConnectionLost \/ ProcessEnds
  \/ QueueStep(Q!Shutdown) \/ QueueStep(Q!LoopReturns)
  \/ QueueStep(Q!Fetch) \/ QueueStep(Q!FetchExpires) \/ QueueStep(Q!Take)
  \/ \E h \in Hooks :
       \/ CheckHook(h) \/ Enqueue(h) \/ SendDirectly(h) \/ LogError(h)
       \/ QueueStep(Q!Server(h))
  \/ SkipDuplicate \/ HandleSend \/ HandlerReturns
  \/ \E t \in Tasks : SendStep(t)
  \/ \E p \in PhoneMsgs : PhoneSends(p)
  \/ \E c \in CwMsgs : MarkExpires(c) \/ KeyExpires(c)

Spec == Init /\ [][Next]_vars

------------------------------------------------------------------------------
(* Safety.                                                                 *)

Sending(t) == task[t].pc \in {"send", "echo", "save"}

(* The contact receives each part of a message at most once, in order, and *)
(* the text at most once, with the first part, however queued and direct   *)
(* sends, expired deliveries, retries and failures interleave.             *)
SentOnceInOrder ==
  \A c \in CwMsgs : \A i, j \in DOMAIN sent[c] :
    i < j => /\ sent[c][i].part < sent[c][j].part
             /\ ~sent[c][j].text
             /\ sent[c][i].part # 0

(* What the bridge sends never returns to Chatwoot as a new message.       *)
NoEcho == leaked = {}

(* A mark stands for exactly as long as a send of its message runs.        *)
MarkedWhileSending ==
  /\ \A t \in Tasks : Sending(t) => MsgOf(t) \in marks
  /\ \A c \in marks : \E t \in Tasks : Sending(t) /\ MsgOf(t) = c

(* A call that reports an error, and so asks the queue for another try,    *)
(* has sent nothing yet: a retry never repeats a part.                     *)
ErrorMeansNothingSent ==
  \A t \in DOMAIN task : task[t].pc = "error" => ~task[t].any

(* The row that turns later webhooks away exists only for a message of     *)
(* which WhatsApp has a part.                                              *)
SavedMeansSent == \A c \in saved : sent[c] # <<>>

(* What the bridge reports of a send, by its error and by its row, is so.  *)
OutcomesTrue == ErrorMeansNothingSent /\ SavedMeansSent

(* .env.example promises reliable message delivery: what the work queue is *)
(* done with reached WhatsApp or is a dead letter.                         *)
AcceptedIsSentOrDead ==
  \A h \in Hooks :
    hook[h] = "queued" /\ stored[h] = "removed" =>
      sent[Cw[h]] # <<>> \/ h \in dlq

===============================================================================
