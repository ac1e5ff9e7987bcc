-------------------------------- MODULE Inbox --------------------------------
(***************************************************************************)
(* The rows of messages and chats of one session, and those who write them *)
(* at the same time: the handlers of message and receipt events,           *)
(* one on the goroutine of whatsmeow and one on that of an API request     *)
(* that has sent a message; the two goroutines of a history sync; agents   *)
(* of Chatwoot and clients of the API who mark chats as read.  Each step   *)
(* is one statement or one call to WhatsApp.  Contents, reactions and the  *)
(* audit rows of message updates are left out.                             *)
(***************************************************************************)
EXTENDS Naturals, FiniteSets

CONSTANTS
  Msgs,       (* messages of the session                                   *)
  Incoming,   (* those that others wrote                                   *)
  Chats,      (* chats                                                     *)
  Groups,     (* those that are groups                                     *)
  ChatOf,     (* the chat of each message                                  *)
  Stamp,      (* the time of each message                                  *)
  Handlers,   (* goroutines that handle message events                     *)
  Senders,    (* those of API requests, whose event is of a message sent   *)
  Nothing,    (* no message, no chat                                       *)
  PageSize,   (* unread messages an agent's answer marks at most (50)      *)
  Failures,   (* bound on statements that fail                             *)
  MaxEvents,  (* bound on message events, repeated ones included           *)
  MaxReads    (* bound on chats marked as read, of each kind               *)

ASSUME InboxAssumption ==
  /\ IsFiniteSet(Msgs) /\ Incoming \subseteq Msgs
  /\ Stamp \in [Msgs -> Nat] /\ ChatOf \in [Msgs -> Chats]
  /\ Nothing \notin Msgs \cup Chats

VARIABLES
  msgRow,     (* of each message: its row, or none                         *)
  chat,       (* of each chat: its row, or none                            *)
  handler,    (* of each handler: the event it handles                     *)
  history,    (* the history sync under way                                *)
  agent,      (* the answer of an agent under way                          *)
  reader,     (* the API request that marks a chat as read                 *)
  receipts,   (* WhatsApp: incoming messages whose sender saw them read    *)
  count       (* events, failures, agent and API reads, syncs so far       *)

inboxVars == <<msgRow, chat, handler, history, agent, reader, receipts, count>>

NoRow == [status |-> "none", read |-> FALSE]
NoChat == [unread |-> 0, time |-> 0]
Waiting == [at |-> "idle", of |-> Nothing]
NoSync == [at |-> "idle", msgs |-> {}, unread |-> 0, of |-> Nothing]
NoAnswer == [at |-> "idle", of |-> Nothing, ids |-> {}]
Bounds == [events |-> MaxEvents, failures |-> Failures, agent |-> MaxReads,
           reader |-> MaxReads, syncs |-> 1]

Ticks == {"sent", "delivered", "read"}
Stamps == {Stamp[m] : m \in Msgs}

InboxTypeOK ==
  /\ msgRow \in [Msgs -> {NoRow} \cup [status : Ticks, read : BOOLEAN]]
  /\ chat \in [Chats -> [unread : 0 .. MaxEvents + 1, time : {0} \cup Stamps]]
  /\ handler \in [Handlers -> [at : {"idle", "save", "time", "unread"}, of : Msgs \cup {Nothing}]]
  /\ history \in [at : {"idle", "messages", "chats"}, msgs : SUBSET Msgs, unread : 0 .. 1,
                  of : Chats \cup {Nothing}]
  /\ agent \in [at : {"idle", "send", "flag"}, of : Chats \cup {Nothing}, ids : SUBSET Msgs]
  /\ reader \in [at : {"idle", "zero"}, of : Chats \cup {Nothing}]
  /\ receipts \subseteq Incoming
  /\ \A k \in DOMAIN Bounds : count[k] \in 0 .. Bounds[k]

InboxInit ==
  /\ msgRow = [m \in Msgs |-> NoRow]
  /\ chat = [c \in Chats |-> NoChat]
  /\ handler = [h \in Handlers |-> Waiting]
  /\ history = NoSync
  /\ agent = NoAnswer
  /\ reader = Waiting
  /\ receipts = {}
  /\ count = [k \in DOMAIN Bounds |-> 0]

Counts(k) == count[k] < Bounds[k] /\ count' = [count EXCEPT ![k] = @ + 1]
Saved(m) == msgRow[m] # NoRow
Listed(c) == chat[c] # NoChat

(* A statement is executed, or fails and changes nothing: the handler logs *)
(* that and goes on.                                                       *)
Tries(A, unchanged) == (A /\ UNCHANGED count) \/ (UNCHANGED unchanged /\ Counts("failures"))

------------------------------------------------------------------------------
(* Events of messages.                                                     *)

(* An event, the first of its message or a repeated one.                   *)
Arrives(h, m) ==
  /\ handler[h] = Waiting /\ Counts("events") /\ (h \in Senders => m \notin Incoming)
  /\ handler' = [handler EXCEPT ![h] = [at |-> "save", of |-> m]]
  /\ UNCHANGED <<msgRow, chat, history, agent, reader, receipts>>

Received(m) ==
  [status |-> IF m \in Incoming THEN "delivered" ELSE "sent", read |-> FALSE]
(* Mutant: a conflict writes the status and the times as well.             *)
InsertedAnew(m) == Received(m)

(* MessageRepository.Save: on a conflict only references are written.      *)
Inserted(m) == IF Saved(m) THEN msgRow[m] ELSE Received(m)
Save(h) ==
  LET m == handler[h].of IN
  /\ handler[h].at = "save"
  /\ Tries(msgRow' = [msgRow EXCEPT ![m] = Inserted(m)], msgRow)
  /\ handler' = [handler EXCEPT ![h].at = "time"]
  /\ UNCHANGED <<chat, history, agent, reader, receipts>>

(* UpdateConversationTimestamp: only a later time, and only where there is *)
(* a chat: rows of chats come from history syncs alone.                    *)
Later(c, t) == IF Listed(c) /\ chat[c].time < t THEN t ELSE chat[c].time
UpdateTime(h) ==
  LET m == handler[h].of
      c == ChatOf[m] IN
  /\ handler[h].at = "time"
  /\ Tries(chat' = [chat EXCEPT ![c].time = Later(c, Stamp[m])], chat)
  /\ handler' = [handler EXCEPT ![h] =
                   IF m \in Incoming THEN [@ EXCEPT !.at = "unread"] ELSE Waiting]
  /\ UNCHANGED <<msgRow, history, agent, reader, receipts>>

(* IncrementUnreadCount, for a repeated event as well.                     *)
IncrementUnread(h) ==
  LET c == ChatOf[handler[h].of] IN
  /\ handler[h].at = "unread"
  /\ Tries(chat' = [chat EXCEPT ![c].unread = IF Listed(c) THEN @ + 1 ELSE @], chat)
  /\ handler' = [handler EXCEPT ![h] = Waiting]
  /\ UNCHANGED <<msgRow, history, agent, reader, receipts>>

(* MessageRepository.UpdateStatus: whatever the status was; a message that *)
(* is not saved has no row to update.                                         *)
Ticked(r, s) == [r EXCEPT !.status = s, !.read = @ \/ s = "read"]
(* handleReceipt, for a message of ours; receipts come in any order.       *)
Receipt(m, s) ==
  /\ m \notin Incoming /\ Saved(m) /\ s \in {"delivered", "read"}
  /\ msgRow' = [msgRow EXCEPT ![m] = Ticked(@, s)]
  /\ UNCHANGED <<chat, handler, history, agent, reader, receipts, count>>

------------------------------------------------------------------------------
(* History syncs: some messages of a chat, and the chat as the phone has   *)
(* it, with a count of unread messages of its own.                         *)

HistoryArrives(c, ms, unread) ==
  /\ history = NoSync /\ Counts("syncs")
  /\ ms # {} /\ \A m \in ms : ChatOf[m] = c
  /\ history' = [at |-> "messages", msgs |-> ms, unread |-> unread, of |-> c]
  /\ UNCHANGED <<msgRow, chat, handler, agent, reader, receipts>>

(* Messages.SaveBatch: one transaction; the status and times of a row that *)
(* is there are kept.                                                      *)
HistoryMessages ==
  /\ history.at = "messages"
  /\ Tries(msgRow' = [m \in Msgs |-> IF m \in history.msgs THEN Inserted(m) ELSE msgRow[m]], msgRow)
  /\ history' = [history EXCEPT !.at = "chats"]
  /\ UNCHANGED <<chat, handler, agent, reader, receipts>>

Latest(ms) == CHOOSE t \in {Stamp[m] : m \in ms} : \A m \in ms : Stamp[m] <= t
(* Chats.SaveBatch, on a goroutine of its own: the count of unread         *)
(* messages is replaced, the time is the greater one.                      *)
Merged(c, unread, t) ==
  [unread |-> unread, time |-> IF chat[c].time < t THEN t ELSE chat[c].time]
HistoryChats ==
  LET c == history.of IN
  /\ history.at = "chats"
  /\ Tries(chat' = [chat EXCEPT ![c] = Merged(c, history.unread, Latest(history.msgs))], chat)
  /\ history' = NoSync
  /\ UNCHANGED <<msgRow, handler, agent, reader, receipts>>

------------------------------------------------------------------------------
(* Reading.                                                                *)

Unread(c) == {m \in Incoming : ChatOf[m] = c /\ Saved(m) /\ ~msgRow[m].read}
(* The latest of them, as many as a page holds.                            *)
Page(ms) ==
  {m \in ms : Cardinality({n \in ms : Stamp[n] > Stamp[m]}) < PageSize}

(* markMessagesAsRead, when an agent's message is about to be sent: the    *)
(* unread messages are selected,                                           *)
AgentAnswers(c) ==
  /\ agent = NoAnswer /\ Unread(c) # {} /\ Counts("agent")
  /\ agent' = [at |-> "send", of |-> c, ids |-> Page(Unread(c))]
  /\ UNCHANGED <<msgRow, chat, handler, history, reader, receipts>>

(* receipts are sent to the number before the @ of the chat: for a group   *)
(* that is the address of no one,                                          *)
AgentSends ==
  /\ agent.at = "send"
  /\ \/ /\ agent' = [agent EXCEPT !.at = "flag"]
        /\ receipts' = IF agent.of \in Groups THEN receipts ELSE receipts \cup agent.ids
     \/ agent' = NoAnswer /\ UNCHANGED receipts
  /\ UNCHANGED <<msgRow, chat, handler, history, reader, count>>

(* Mutant: all unread rows of the chat are flagged.                        *)
FlaggedUnread == Unread(agent.of)

(* and the selected rows are flagged (MarkAsReadByAgent).                  *)
Flagged == agent.ids
AgentFlags ==
  /\ agent.at = "flag"
  /\ Tries(msgRow' = [m \in Msgs |-> IF m \in Flagged /\ Saved(m)
                                    THEN [msgRow[m] EXCEPT !.read = TRUE] ELSE msgRow[m]], msgRow)
  /\ agent' = NoAnswer
  /\ UNCHANGED <<chat, handler, history, reader, receipts>>

(* ChatHandler.MarkRead: receipts for the messages the client names, to    *)
(* the address it gives; then the chat has no unread messages.             *)
ReaderSends(c, ms) ==
  /\ reader = Waiting /\ Counts("reader")
  /\ \A m \in ms : ChatOf[m] = c
  /\ receipts' = receipts \cup ms
  /\ reader' = [at |-> "zero", of |-> c]
  /\ UNCHANGED <<msgRow, chat, handler, history, agent>>
ReaderZeroes ==
  /\ reader.at = "zero"
  /\ Tries(chat' = [chat EXCEPT ![reader.of].unread = 0], chat)
  /\ reader' = Waiting
  /\ UNCHANGED <<msgRow, handler, history, agent, receipts>>

------------------------------------------------------------------------------
InboxNext ==
  \/ \E h \in Handlers, m \in Msgs : Arrives(h, m)
  \/ \E h \in Handlers : Save(h) \/ UpdateTime(h) \/ IncrementUnread(h)
  \/ \E m \in Msgs, s \in Ticks : Receipt(m, s)
  \/ \E c \in Chats, ms \in SUBSET Msgs, unread \in 0 .. 1 : HistoryArrives(c, ms, unread)
  \/ HistoryMessages \/ HistoryChats
  \/ \E c \in Chats : AgentAnswers(c)
  \/ AgentSends \/ AgentFlags
  \/ \E c \in Chats, ms \in SUBSET Incoming : ReaderSends(c, ms)
  \/ ReaderZeroes

InboxSpec == InboxInit /\ [][InboxNext]_inboxVars

------------------------------------------------------------------------------
(* Properties.                                                             *)

(* An incoming message whose row says an agent read it was reported to its *)
(* sender, also when more messages came, or rows changed, while the        *)
(* receipts were being sent; in chats of two.                              *)
ReadWasSent ==
  \A m \in Incoming : msgRow[m].read /\ ChatOf[m] \notin Groups => m \in receipts

(* What receipts have told is kept: no repeated event and no history sync  *)
(* changes a status, so that no message goes back to sent.  Only a late    *)
(* delivered receipt sets the status of a read message back, to delivered; *)
(* that it was read stays in its row (readAt) even then.  And the time of  *)
(* a chat only grows, in whatever order events and history syncs come.     *)
ReceiptsAreKept ==
  [][/\ \A m \in Msgs :
          /\ msgRow[m].status \notin {"none", msgRow'[m].status} =>
               m \notin Incoming /\ msgRow'[m].status \in {"delivered", "read"}
          /\ msgRow[m].status = "read" \/ msgRow[m].read => msgRow'[m].read
     /\ \A c \in Chats : chat'[c].time >= chat[c].time]_inboxVars
==============================================================================
