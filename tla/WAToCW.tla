-------------------------------- MODULE WAToCW --------------------------------
(***************************************************************************)
(* The WhatsApp to Chatwoot bridge: a message event is saved as a row,     *)
(* carried by the work queue of module Queue (or processed on the spot     *)
(* when the publish fails), and posted by processIncomingMessageInternal   *)
(* or processOutgoingMessageInternal to a conversation of Chatwoot; the    *)
(* row then keeps the reference to the Chatwoot message.                   *)
(*                                                                         *)
(* Messages of one chat.  Chatwoot is a set of conversations and a         *)
(* sequence of posts; its calls fail, or succeed while their response is   *)
(* lost; agents delete conversations.  Outgoing posts come back as         *)
(* webhooks, and the ones WhatsApp wrote must be recognised.               *)
(***************************************************************************)
EXTENDS Naturals, Sequences, FiniteSets

CONSTANTS
  Msgs,          (* WhatsApp messages                                        *)
  FromMe,        (* those the user wrote: "outgoing" for Chatwoot            *)
  Media,         (* those with a media part                                  *)
  Events, Msg,   (* message events, and the message each is about            *)
  Synthetic,     (* events an API request emits in its own goroutine         *)
  Online,        (* what Producer.IsConnected may answer; {FALSE} when the   *)
                 (* queue is not enabled                                     *)
  InboxReady,    (* does the configuration know its inbox from the start?    *)
  ApiFaults,     (* may calls to Chatwoot and downloads fail?                *)
  RowFaults,     (* may the row of a message fail to be saved, read, updated?*)
  ConfigFaults,  (* may the configuration be unreadable, or disabled?        *)
  Slow,          (* may a call outlive the five minutes of its key?          *)
  ConvDeletes,   (* bound on conversations deleted by agents                 *)
  Revoked,       (* messages the sender revokes                              *)
  Consumer,      (* the task that is the queue handler                       *)
  MaxRetries, Batch, StartOutcomes, BrokerFaults, MaxRestarts, NoCopy

ASSUME BridgeAssumption ==
  /\ FromMe \subseteq Msgs /\ Media \subseteq Msgs /\ Revoked \subseteq Msgs
  /\ Msg \in [Events -> Msgs]
  /\ Synthetic \subseteq Events
  /\ Online \subseteq BOOLEAN
  /\ {InboxReady, ApiFaults, RowFaults, ConfigFaults, Slow} \subseteq BOOLEAN
  /\ ConvDeletes \in Nat
  /\ Consumer \notin Events

VARIABLES
  proc, loop, restarts, stored, dc, pull, buf, hand, dlq, fallback,
  attempts, handled

Q == INSTANCE Queue WITH Msgs <- Events

queue == <<proc, loop, restarts, stored, dc, pull, buf, hand, dlq, fallback,
           attempts, handled>>

ASSUME QueueAssumption ==
  /\ {MaxRetries, Batch} \subseteq Nat \ {0} /\ MaxRestarts \in Nat
  /\ StartOutcomes \subseteq {"on", "off", "cancelled"} /\ BrokerFaults \in BOOLEAN
  /\ NoCopy \notin Q!Copy

VARIABLES
  event,     (* progress of each message event                               *)
  rows,      (* messages with a row in the database                          *)
  ref,       (* the post a row refers to (cwMsgId, cwConvId), or 0           *)
  inbox,     (* does the stored configuration have its inbox id?             *)
  keys,      (* msgProcessingCache: <<inbox id known, message>>              *)
  task,      (* the running process...MessageInternal calls                  *)
  posts,     (* Chatwoot: the messages created, in order                     *)
  convs,     (* Chatwoot: conversations created for the chat so far          *)
  gone,      (* Chatwoot: conversations deleted by agents                    *)
  removed,   (* Chatwoot: posts deleted through its API                      *)
  revoke,    (* progress of the revocation of each message                   *)
  target,    (* the post the revocation under way found, or 0                *)
  notified,  (* messages reported to the user's own webhook                  *)
  resent     (* posts of WhatsApp messages sent back to WhatsApp             *)

chatwoot == <<posts, convs, gone, removed>>
revocation == <<revoke, target>>
history == <<notified, resent>>
local == <<event, rows, ref, inbox, keys, task, revocation, history>>
vars == <<queue, local, chatwoot>>

Tasks == Events \cup {Consumer}
Live == (1 .. convs) \ gone

(* seen: the configuration it read had the inbox id; conv and post: what   *)
(* it found or created.                                                    *)
Idle == [pc |-> "idle", seen |-> FALSE, conv |-> 0, post |-> 0]

TaskState ==
  [pc : {"idle", "begin", "check", "find", "create", "post", "record", "end",
         "ok", "error"},
   seen : BOOLEAN, conv : Nat, post : Nat]

MsgOf(t) == IF t = Consumer THEN Msg[hand.msg] ELSE Msg[t]

(* whatsmeow dispatches its events one after the other.                    *)
DispatcherFree ==
  /\ \A e \in Events \ Synthetic : event[e] # "saved" /\ task[e].pc = "idle"
  /\ \A m \in Msgs : revoke[m] # "read"

TypeOK ==
  /\ Q!TypeOK
  /\ event \in [Events -> {"due", "saved", "queued", "direct", "lost"}]
  /\ rows \subseteq Msgs
  /\ ref \in [Msgs -> 0 .. Len(posts)]
  /\ inbox \in BOOLEAN
  /\ keys \subseteq BOOLEAN \X Msgs
  /\ task \in [Tasks -> TaskState]
  /\ posts \in Seq([msg : Msgs, conv : 1 .. convs, waid : BOOLEAN])
  /\ convs \in Nat
  /\ gone \subseteq 1 .. convs
  /\ removed \subseteq DOMAIN posts
  /\ revoke \in [Msgs -> {"no", "read", "done", "left"}]
  /\ target \in 0 .. Len(posts)
  /\ notified \subseteq Msgs
  /\ resent \subseteq DOMAIN posts

Init ==
  /\ Q!Init
  /\ event = [e \in Events |-> "due"]
  /\ rows = {}
  /\ ref = [m \in Msgs |-> 0]
  /\ inbox = InboxReady
  /\ keys = {}
  /\ task = [t \in Tasks |-> Idle]
  /\ posts = <<>>
  /\ convs = 0
  /\ gone = {}
  /\ removed = {}
  /\ revoke = [m \in Msgs |-> "no"]
  /\ target = 0
  /\ notified = {}
  /\ resent = {}

------------------------------------------------------------------------------
(* The process.                                                            *)

QueueStep(A) == A /\ UNCHANGED <<local, chatwoot>>

ProcessEnds ==
  /\ Q!Exit \/ Q!Crash
  /\ keys' = {}
  /\ task' = [t \in Tasks |-> Idle]
  /\ event' = [e \in Events |-> IF event[e] = "saved" THEN "lost" ELSE event[e]]
  /\ revoke' = [m \in Msgs |-> IF revoke[m] = "read" THEN "left" ELSE revoke[m]]
  /\ target' = 0
  /\ UNCHANGED <<rows, ref, inbox, history, chatwoot>>

------------------------------------------------------------------------------
(* HandleEvent: the event service saves the row, then the Chatwoot handler *)
(* publishes the message or processes it within the same call.             *)

SaveRow(e) ==
  /\ proc = "up"
  /\ event[e] = "due"
  /\ e \in Synthetic \/ DispatcherFree
  /\ event' = [event EXCEPT ![e] = "saved"]
  /\ \/ rows' = rows \cup {Msg[e]}
     \/ RowFaults /\ UNCHANGED rows
  /\ UNCHANGED <<queue, ref, inbox, keys, task, revocation, history,
                 chatwoot>>

Enqueue(e) ==
  /\ TRUE \in Online
  /\ event[e] = "saved"
  /\ Q!PublishOk(e)
  /\ event' = [event EXCEPT ![e] = "queued"]
  /\ UNCHANGED <<rows, ref, inbox, keys, task, revocation, history,
                 chatwoot>>

ProcessDirectly(e) ==
  /\ event[e] = "saved"
  /\ \/ TRUE \in Online /\ Q!PublishError(e)
     \/ FALSE \in Online /\ UNCHANGED queue
  /\ event' = [event EXCEPT ![e] = "direct"]
  /\ task' = [task EXCEPT ![e].pc = "begin"]
  /\ UNCHANGED <<rows, ref, inbox, keys, revocation, history, chatwoot>>

(* The queue handler: Process{Incoming,Outgoing}FromQueue.                 *)
Handle ==
  /\ hand # NoCopy
  /\ task[Consumer].pc = "idle"
  /\ task' = [task EXCEPT ![Consumer].pc = "begin"]
  /\ UNCHANGED <<queue, event, rows, ref, inbox, keys, revocation, history,
                 chatwoot>>

------------------------------------------------------------------------------
(* process{Incoming,Outgoing}MessageInternal.                              *)

(* Chatwoot fails, or Stop cancelled the context of the queue handler.     *)
Cancelled(t) == t = Consumer /\ loop = "cancelled"
MayFail(t) == ApiFaults \/ Cancelled(t)

(* Without its configuration a call reports success: nothing to do.        *)
ConfigUnread(t) ==
  /\ task[t].pc = "begin"
  /\ ConfigFaults \/ Cancelled(t)
  /\ task' = [task EXCEPT ![t].pc = "ok"]
  /\ UNCHANGED <<queue, event, rows, ref, inbox, keys, revocation, history,
                 chatwoot>>

Key(t) == <<task[t].seen, MsgOf(t)>>

(* Mutant: no path releases the key, as in the Chatwoot to WhatsApp bridge. *)
ReturnKeepsKey(t, outcome) ==
  /\ task' = [task EXCEPT ![t] = [Idle EXCEPT !.pc = outcome]]
  /\ UNCHANGED keys

(* Every path past TryAcquire runs the deferred Release.                   *)
Return(t, outcome) ==
  /\ task' = [task EXCEPT ![t] = [Idle EXCEPT !.pc = outcome]]
  /\ keys' = keys \ {Key(t)}

(* The key names the inbox id of the configuration just read.  A call that *)
(* does not get it reports success.                                        *)
TryAcquire(t) ==
  /\ task[t].pc = "begin"
  /\ LET k == <<inbox, MsgOf(t)>> IN
       \/ /\ k \in keys
          /\ task' = [task EXCEPT ![t].pc = "ok"]
          /\ UNCHANGED keys
       \/ /\ k \notin keys
          /\ keys' = keys \cup {k}
          /\ task' = [task EXCEPT
               ![t].pc = IF MsgOf(t) \in FromMe THEN "check" ELSE "find",
               ![t].seen = inbox]
  /\ UNCHANGED <<queue, event, rows, ref, inbox, revocation, history,
                 chatwoot>>

(* Mutant: an outgoing message is not looked up.                           *)
AlreadyPostedIgnored(t) ==
  /\ task[t].pc = "check"
  /\ task' = [task EXCEPT ![t].pc = "find"]
  /\ UNCHANGED <<queue, event, rows, ref, inbox, keys, revocation, history,
                 chatwoot>>

(* Outgoing messages only: the row already has a Chatwoot message.  A row  *)
(* that cannot be read counts as one that has none.                        *)
AlreadyPosted(t) ==
  /\ task[t].pc = "check"
  /\ \/ ref[MsgOf(t)] # 0 /\ Return(t, "ok")
     \/ /\ ref[MsgOf(t)] = 0 \/ RowFaults \/ Cancelled(t)
        /\ task' = [task EXCEPT ![t].pc = "find"]
        /\ UNCHANGED keys
  /\ UNCHANGED <<queue, event, rows, ref, inbox, revocation, history,
                 chatwoot>>

(* InitInbox when the configuration lacks it, then the contact and the     *)
(* conversations Chatwoot lists for it.                                    *)
FindConversation(t) ==
  /\ task[t].pc = "find"
  /\ inbox' = TRUE
  /\ \/ \E c \in Live :
          task' = [task EXCEPT ![t].pc = "post", ![t].conv = c]
     \/ Live = {} /\ task' = [task EXCEPT ![t].pc = "create"]
  /\ UNCHANGED <<queue, event, rows, ref, keys, revocation, history,
                 chatwoot>>

CreateConversation(t) ==
  /\ task[t].pc = "create"
  /\ convs' = convs + 1
  /\ task' = [task EXCEPT ![t].pc = "post", ![t].conv = convs + 1]
  /\ UNCHANGED <<queue, event, rows, ref, inbox, keys, revocation, history,
                 posts, gone, removed>>

(* A call to Chatwoot fails and so does the message.                       *)
CallFails(t) ==
  /\ MayFail(t)
  /\ task[t].pc \in {"find", "create", "post"}
  /\ Return(t, "error")
  /\ UNCHANGED <<queue, event, rows, ref, inbox, revocation, history,
                 chatwoot>>

(* HandleConversationNotFound: no row refers to conversation c any more.   *)
ConversationNotFound(c) ==
  ref' = [m \in Msgs |->
            IF ref[m] # 0 /\ posts[ref[m]].conv = c THEN 0 ELSE ref[m]]

(* The conversation was deleted since it was found.  Media that cannot be  *)
(* downloaded is posted as text, and then the 404 is not looked at.        *)
PostNotFound(t) ==
  /\ task[t].pc = "post"
  /\ task[t].conv \in gone
  /\ \/ ConversationNotFound(task[t].conv)
     \/ MayFail(t) /\ MsgOf(t) \in Media /\ UNCHANGED ref
  /\ Return(t, "error")
  /\ UNCHANGED <<queue, event, rows, inbox, revocation, history, chatwoot>>

NewPost(t, waid) ==
  posts' = Append(posts, [msg |-> MsgOf(t), conv |-> task[t].conv, waid |-> waid])

(* A text carries its WAID as source id, an upload carries none.           *)
Post(t) ==
  /\ task[t].pc = "post"
  /\ task[t].conv \notin gone
  /\ NewPost(t, MsgOf(t) \notin Media)
  /\ \/ /\ task' = [task EXCEPT ![t].pc = "record", ![t].post = Len(posts) + 1]
        /\ UNCHANGED keys
     \/ MayFail(t) /\ Return(t, "error")
  /\ UNCHANGED <<queue, event, rows, ref, inbox, revocation, history, convs,
                 gone, removed>>

(* The download failed: a text stands in, and no reference is recorded.    *)
PostFilename(t) ==
  /\ MayFail(t)
  /\ task[t].pc = "post" /\ MsgOf(t) \in Media
  /\ task[t].conv \notin gone
  /\ NewPost(t, TRUE)
  /\ task' = [task EXCEPT ![t].pc = "end", ![t].post = Len(posts) + 1]
  /\ UNCHANGED <<queue, event, rows, ref, inbox, keys, revocation, history,
                 convs, gone, removed>>

(* Mutants: the WHERE of UpdateCwFields names only the session, or the     *)
(* call is left out.                                                       *)
RecordEveryRow(t) ==
  /\ task[t].pc = "record"
  /\ ref' = [m \in Msgs |-> IF m \in rows THEN task[t].post ELSE ref[m]]
  /\ task' = [task EXCEPT ![t].pc = "end"]
  /\ UNCHANGED <<queue, event, rows, inbox, keys, revocation, history, chatwoot>>

RecordSkipped(t) ==
  /\ task[t].pc = "record"
  /\ task' = [task EXCEPT ![t].pc = "end"]
  /\ UNCHANGED <<queue, event, rows, ref, inbox, keys, revocation, history,
                 chatwoot>>

(* UpdateCwFields; its error, also for want of a row, is only logged.      *)
Record(t) ==
  /\ task[t].pc = "record"
  /\ \/ /\ MsgOf(t) \in rows
        /\ ref' = [ref EXCEPT ![MsgOf(t)] = task[t].post]
     \/ (MsgOf(t) \notin rows \/ RowFaults \/ Cancelled(t)) /\ UNCHANGED ref
  /\ task' = [task EXCEPT ![t].pc = "end"]
  /\ UNCHANGED <<queue, event, rows, inbox, keys, revocation, history,
                 chatwoot>>

(* The key is released, then the user's webhook is called.                 *)
Notify(t) ==
  /\ task[t].pc = "end"
  /\ Return(t, "ok")
  /\ notified' = notified \cup {MsgOf(t)}
  /\ UNCHANGED <<queue, event, rows, ref, inbox, revocation, resent,
                 chatwoot>>

(* The next TryAcquire drops keys older than five minutes; calls have no   *)
(* timeout as a whole.                                                     *)
KeyExpires(k) ==
  /\ Slow
  /\ k \in keys
  /\ keys' = keys \ {k}
  /\ UNCHANGED <<queue, event, rows, ref, inbox, task, revocation, history,
                 chatwoot>>

HandlerReturns ==
  /\ \/ task[Consumer].pc = "ok" /\ Q!HandlerSucceeds
     \/ task[Consumer].pc = "error" /\ (Q!HandlerFails \/ Q!HandlerGivesUp)
  /\ task' = [task EXCEPT ![Consumer] = Idle]
  /\ UNCHANGED <<event, rows, ref, inbox, keys, revocation, history,
                 chatwoot>>

(* Processing within the event's own call ends; an error is logged.        *)
DirectReturns(e) ==
  /\ task[e].pc \in {"ok", "error"}
  /\ task' = [task EXCEPT ![e] = Idle]
  /\ UNCHANGED <<queue, event, rows, ref, inbox, keys, revocation, history,
                 chatwoot>>

ProcessStep(t) ==
  \/ ConfigUnread(t) \/ TryAcquire(t) \/ AlreadyPosted(t)
  \/ FindConversation(t) \/ CreateConversation(t) \/ CallFails(t)
  \/ PostNotFound(t) \/ Post(t) \/ PostFilename(t)
  \/ Record(t) \/ Notify(t)

------------------------------------------------------------------------------
(* ProcessMessageDelete, for a message its sender revokes: it looks up the *)
(* Chatwoot message of the row, deletes it, and deletes the row.  When the *)
(* configuration cannot be read or is disabled, or the row cannot be read, *)
(* it returns without an error, and when the call fails with one: either   *)
(* way the revocation is "left" undone, and nothing tries it again.        *)

RevokeRead(m) ==
  /\ proc = "up" /\ DispatcherFree
  /\ m \in Revoked /\ revoke[m] = "no"
  /\ \E e \in Events : Msg[e] = m /\ event[e] # "due"
  /\ \/ /\ target' = ref[m]
        /\ revoke' = [revoke EXCEPT ![m] = IF ref[m] = 0 THEN "done" ELSE "read"]
     \/ /\ ConfigFaults \/ RowFaults
        /\ revoke' = [revoke EXCEPT ![m] = "left"]
        /\ UNCHANGED target
  /\ UNCHANGED <<queue, event, rows, ref, inbox, keys, task, history, chatwoot>>

RevokeDelete(m) ==
  LET c == posts[target].conv IN
  /\ revoke[m] = "read"
  /\ \/ /\ c \notin gone
        /\ removed' = removed \cup {target}
        /\ rows' = rows \ {m}
        /\ ref' = [ref EXCEPT ![m] = 0]
        /\ revoke' = [revoke EXCEPT ![m] = "done"]
     \/ /\ c \in gone
        /\ rows' = rows \ {m}
        /\ ref' = [n \in Msgs |->
             IF n = m \/ (ref[n] # 0 /\ posts[ref[n]].conv = c) THEN 0 ELSE ref[n]]
        /\ revoke' = [revoke EXCEPT ![m] = "done"]
        /\ UNCHANGED removed
     \/ /\ ApiFaults
        /\ revoke' = [revoke EXCEPT ![m] = "left"]
        /\ UNCHANGED <<rows, ref, removed>>
  /\ target' = 0
  /\ UNCHANGED <<queue, event, inbox, keys, task, history, posts, convs, gone>>

------------------------------------------------------------------------------
(* Chatwoot.                                                               *)

AgentDeletes(c) ==
  /\ c \in Live
  /\ Cardinality(gone) < ConvDeletes
  /\ gone' = gone \cup {c}
  /\ UNCHANGED <<queue, local, posts, convs, removed>>

(* Chatwoot reports an outgoing post to ReceiveWebhook: without a WAID and *)
(* without a row that refers to it, it counts as written by an agent.      *)
WebhookArrives(i) ==
  /\ proc = "up"
  /\ i \in DOMAIN posts
  /\ posts[i].msg \in FromMe /\ ~posts[i].waid
  /\ \A m \in Msgs : ref[m] # i
  /\ resent' = resent \cup {i}
  /\ UNCHANGED <<queue, event, rows, ref, inbox, keys, task, revocation,
                 notified, chatwoot>>

------------------------------------------------------------------------------
Next ==
  \/ QueueStep(Q!Start) \/ QueueStep(Q!Shutdown) \/ QueueStep(Q!LoopReturns)
  \/ ProcessEnds
  \/ QueueStep(Q!Fetch) \/ QueueStep(Q!FetchExpires) \/ QueueStep(Q!Take)
  \/ \E e \in Events :
       \/ SaveRow(e) \/ Enqueue(e) \/ ProcessDirectly(e) \/ DirectReturns(e)
       \/ QueueStep(Q!Server(e))
  \/ Handle \/ HandlerReturns
  \/ \E k \in keys : KeyExpires(k)
  \/ \E t \in Tasks : ProcessStep(t)
  \/ \E m \in Msgs : RevokeRead(m) \/ RevokeDelete(m)
  \/ \E c \in Live : AgentDeletes(c)
  \/ \E i \in DOMAIN posts : WebhookArrives(i)

Spec == Init /\ [][Next]_vars

(* Goroutines run, handlers and calls return, the server's timers fire and *)
(* its deliveries arrive (see Queue for the strong fairness).              *)
FairSpec ==
  /\ Spec
  /\ WF_vars(QueueStep(Q!Start))
  /\ WF_vars(QueueStep(Q!Fetch)) /\ WF_vars(QueueStep(Q!FetchExpires))
  /\ WF_vars(QueueStep(Q!Take)) /\ WF_vars(Handle) /\ WF_vars(HandlerReturns)
  /\ \A e \in Events :
       /\ SF_vars(QueueStep(Q!Deliver(e)))
       /\ WF_vars(QueueStep(Q!AckExpires(e)))
       /\ WF_vars(DirectReturns(e))
  /\ \A t \in Tasks : WF_vars(ProcessStep(t))

------------------------------------------------------------------------------
(* Safety.                                                                 *)

Processing(t) ==
  task[t].pc \in {"check", "find", "create", "post", "record", "end"}

Visible(i) == i \notin removed /\ posts[i].conv \notin gone

(* While one call processes a message no other does: event handler, queue  *)
(* handler and API goroutine may hold copies of it at the same time.       *)
OneCallPerMessage ==
  \A t, u \in Tasks :
    Processing(t) /\ Processing(u) /\ t # u => MsgOf(t) # MsgOf(u)

(* Within one life of the process, a message the user wrote appears once   *)
(* in a conversation, though its event is repeated, its delivery expires,  *)
(* or a publish that reported an error had stored it all the same.         *)
OutgoingPostedOnce ==
  restarts = 0 => \A i, j \in DOMAIN posts :
    /\ posts[i].msg = posts[j].msg /\ posts[i].msg \in FromMe
    /\ posts[i].conv = posts[j].conv
    => i = j

(* A key stands for a call that is processing its message: none is left    *)
(* behind, on whatever path the call ends, to turn a retry away.           *)
KeyHasCall ==
  \A k \in keys : \E t \in Tasks : Processing(t) /\ Key(t) = k

(* A row refers to a Chatwoot message only if that is its own message; a   *)
(* row that is gone refers to nothing.  A revocation deletes, and a quote  *)
(* cites, the right message.                                               *)
RefIsOwn ==
  \A m \in DOMAIN ref : ref[m] # 0 => m \in rows /\ posts[ref[m]].msg = m

(* What the work queue is done with is a dead letter, or was posted and    *)
(* reported to the user's webhook, which the event service leaves to the   *)
(* bridge: a failed attempt frees its key for the retry.                   *)
QueuedIsBridgedOrDead ==
  \A e \in Events :
    event[e] = "queued" /\ stored[e] = "removed" =>
      \/ e \in dlq
      \/ /\ \E i \in DOMAIN posts : posts[i].msg = Msg[e]
         /\ Msg[e] \in notified

(* A message whose revocation ProcessMessageDelete went through with       *)
(* ("done": it found no post, or had one deleted) is not shown to the      *)
(* agents, then or later: no call still under way posts it, none posted it *)
(* without a reference.  A revocation "left" undone, for a configuration   *)
(* or a row that could not be read, a call that failed or a process that   *)
(* ended, leaves the message shown; nothing is said of it.                 *)
RevokedIsGone ==
  \A i \in DOMAIN posts : revoke[posts[i].msg] = "done" => ~Visible(i)

(* ReceiveWebhook answers "skipped - from whatsapp" to what the bridge     *)
(* itself posted: none of it is sent to WhatsApp again.                    *)
PhoneMessagesNotSentBack == resent = {}

------------------------------------------------------------------------------
(* Liveness, under FairSpec.                                               *)

(* The queue brings each of its messages to Chatwoot or to the dead        *)
(* letters, however often the attempts fail.                               *)
QueuedEventuallySettles ==
  \A e \in Events :
    event[e] = "queued" ~>
      e \in dlq \/ \E i \in DOMAIN posts : posts[i].msg = Msg[e]
===============================================================================
