------------------------------- MODULE Updates -------------------------------
(***************************************************************************)
(* What happens to messages after they were sent: reactions, and deletions *)
(* from three sides.  WhatsApp's events of a session are handled one after *)
(* the other (rows first, then Chatwoot); a history sync inserts rows      *)
(* beside them; Chatwoot tells of every message deleted there, by an agent *)
(* or by the bridge itself, and a goroutine then revokes the WhatsApp      *)
(* messages of it, several if it had attachments.  Each step is one        *)
(* statement or one request.  How messages are sent and posted (CWToWA,    *)
(* WAToCW) is summarised, and the text of the reactions the bridge posts,  *)
(* which change no row, is left out.                                       *)
(***************************************************************************)
EXTENDS Naturals, Sequences, FiniteSets

CONSTANTS
  Album,       (* messages sent for one message an agent wrote             *)
  Theirs,      (* messages of the contact                                  *)
  Posts,       (* messages of Chatwoot, in one conversation                *)
  PostOf,      (* the one each message has, when it has one                *)
  Me, Contact, (* who may react                                            *)
  Emojis,      (* reactions                                                *)
  Nothing,     (* no message, no post, no reaction                         *)
  Goroutines,  (* those that handle deletions in Chatwoot                  *)
  MaxReacts,   (* bound on reactions                                       *)
  MaxRevokes,  (* bound on messages their sender revokes                   *)
  MaxSyncs,    (* bound on history syncs                                   *)
  MaxApi,      (* bound on reactions and deletions by the API              *)
  MaxFailures  (* bound on statements and requests that fail, webhooks of  *)
               (* a session that is not connected, and late rows           *)

Messages == Album \cup Theirs
Actors == {Me, Contact}

ASSUME UpdatesAssumption ==
  /\ PostOf \in [Messages -> Posts] /\ Album \cap Theirs = {}
  /\ \A m \in Album, n \in Theirs : PostOf[m] # PostOf[n]
  /\ Nothing \notin Messages \cup Posts \cup Emojis

VARIABLES
  wa,          (* WhatsApp: each message, sent, revoked, its reactions     *)
  events,      (* WhatsApp's events that wait for the handler              *)
  handler,     (* the event being handled, and how far                     *)
  row,         (* each message's row: absent, there, or dropped again      *)
  marked,      (* messages recorded as deleted (MessageUpdates)            *)
  sending,     (* messages of the album sent but not saved yet             *)
  post,        (* Chatwoot: each message, and whether its conversation is  *)
  hooks,       (* webhooks of deleted messages under way                   *)
  work,        (* of each goroutine: the deletion it handles               *)
  count        (* what the bounds count                                    *)

updatesVars == <<wa, events, handler, row, marked, sending, post, hooks, work, count>>

NoRow == [at |-> "none", from |-> "event", ref |-> Nothing, reactions |-> {}]
NoEvent == [kind |-> "none", of |-> Nothing, by |-> Nothing, emoji |-> Nothing]
Free == [at |-> "idle", ev |-> NoEvent]
NoWork == [at |-> "idle", left |-> {}, of |-> Nothing]
Bounds == [reacts |-> MaxReacts, revokes |-> MaxRevokes, syncs |-> MaxSyncs, api |-> MaxApi,
           failures |-> MaxFailures]
Event == [kind : {"message", "reaction", "revoke"}, of : Messages,
          by : Actors \cup {Nothing}, emoji : Emojis \cup {Nothing}]

UpdatesTypeOK ==
  /\ wa \in [Messages -> [sent : BOOLEAN, revoked : BOOLEAN,
                      reactions : [Actors -> Emojis \cup {Nothing}]]]
  /\ events \in Seq(Event)
  /\ handler.at \in {"idle", "save", "react", "tell", "mark", "find", "remove", "drop"}
  /\ handler.ev \in Event \cup {NoEvent}
  /\ row \in [Messages -> [at : {"none", "there", "dropped"}, from : {"event", "history"},
                       ref : Posts \cup {Nothing}, reactions : SUBSET (Actors \X Emojis)]]
  /\ marked \subseteq Messages /\ sending \subseteq Album
  /\ post \in [Posts -> {"none", "there", "deleted", "gone"}]
  /\ hooks \in [Posts -> Nat]
  /\ work \in [Goroutines -> [at : {"idle", "revoke", "drop"}, left : SUBSET Messages,
                              of : Messages \cup {Nothing}]]
  /\ count \in [DOMAIN Bounds -> Nat]

UpdatesInit ==
  /\ wa = [m \in Messages |-> [sent |-> FALSE, revoked |-> FALSE,
                           reactions |-> [a \in Actors |-> Nothing]]]
  /\ events = <<>> /\ handler = Free
  /\ row = [m \in Messages |-> NoRow]
  /\ marked = {} /\ sending = {}
  /\ post = [p \in Posts |-> IF \E m \in Album : PostOf[m] = p THEN "there" ELSE "none"]
  /\ hooks = [p \in Posts |-> 0]
  /\ work = [g \in Goroutines |-> NoWork]
  /\ count = [k \in DOMAIN Bounds |-> 0]

Counts(k) == count[k] < Bounds[k] /\ count' = [count EXCEPT ![k] = @ + 1]
(* A statement or request is executed, or fails and changes nothing.       *)
Tries(A, unchanged) == (A /\ UNCHANGED count) \/ (UNCHANGED unchanged /\ Counts("failures"))
There(m) == row[m].at = "there"
Inserted(from, ref, reactions) ==
  [at |-> "there", from |-> from, ref |-> ref, reactions |-> reactions]

------------------------------------------------------------------------------
(* Messages come to be.                                                    *)

(* sendToWhatsAppBackground sends the album's messages one by one; that    *)
(* the agent deleted it meanwhile stops nothing.                           *)
Send(m) ==
  /\ m \in Album /\ ~wa[m].sent
  /\ wa' = [wa EXCEPT ![m].sent = TRUE]
  /\ sending' = sending \cup {m}
  /\ UNCHANGED <<events, handler, row, marked, post, hooks, work, count>>

(* The message was revoked, deleted or reacted to before there was a row   *)
(* for that to show in.                                                    *)
Late(m) ==
  \/ wa[m].revoked \/ post[PostOf[m]] = "deleted"
  \/ \E a \in Actors : wa[m].reactions[a] # Nothing
(* saveOutgoingMessage: the row of a sent message, with its reference.     *)
SaveSent(m) ==
  /\ m \in sending
  /\ sending' = sending \ {m}
  /\ row' = [row EXCEPT ![m] = IF There(m) THEN [@ EXCEPT !.ref = PostOf[m]]
                                           ELSE Inserted("event", PostOf[m], {})]
  /\ IF Late(m) THEN Counts("failures") ELSE UNCHANGED count
  /\ UNCHANGED <<wa, events, handler, marked, post, hooks, work>>
SaveSentFails(m) ==
  /\ m \in sending /\ Counts("failures")
  /\ sending' = sending \ {m}
  /\ UNCHANGED <<wa, events, handler, row, marked, post, hooks, work>>

Tells(kind, m, a, e) ==
  events' = Append(events, [kind |-> kind, of |-> m, by |-> a, emoji |-> e])
(* The contact writes.                                                     *)
Comes(m) ==
  /\ m \in Theirs /\ ~wa[m].sent
  /\ wa' = [wa EXCEPT ![m].sent = TRUE]
  /\ Tells("message", m, Nothing, Nothing)
  /\ UNCHANGED <<handler, row, marked, sending, post, hooks, work, count>>

(* The message is posted in Chatwoot and the reference recorded, unless it *)
(* was revoked by then and its row dropped (WAToCW).                       *)
Bridge(m) ==
  /\ m \in Theirs /\ There(m) /\ post[PostOf[m]] = "none"
  /\ post' = [post EXCEPT ![PostOf[m]] = "there"]
  /\ row' = [row EXCEPT ![m].ref = PostOf[m]]
  /\ IF wa[m].revoked THEN Counts("failures") ELSE UNCHANGED count
  /\ UNCHANGED <<wa, events, handler, marked, sending, hooks, work>>

(* A reaction, or its removal, on a phone.                                 *)
React(m, a, e) ==
  /\ wa[m].sent /\ ~wa[m].revoked /\ wa[m].reactions[a] # e /\ Counts("reacts")
  /\ wa' = [wa EXCEPT ![m].reactions[a] = e]
  /\ Tells("reaction", m, a, e)
  /\ UNCHANGED <<handler, row, marked, sending, post, hooks, work>>

(* Whoever sent it revokes it on the phone.                                *)
Revoke(m) ==
  /\ wa[m].sent /\ ~wa[m].revoked /\ Counts("revokes")
  /\ wa' = [wa EXCEPT ![m].revoked = TRUE]
  /\ Tells("revoke", m, Nothing, Nothing)
  /\ UNCHANGED <<handler, row, marked, sending, post, hooks, work>>

------------------------------------------------------------------------------
(* The handler of events.                                                  *)

Begin ==
  /\ handler = Free /\ events # <<>>
  /\ events' = Tail(events)
  /\ handler' = [ev |-> Head(events),
                 at |-> CASE Head(events).kind = "message"  -> "save"
                          [] Head(events).kind = "reaction" -> "react"
                          [] OTHER                          -> "mark"]
  /\ UNCHANGED <<wa, row, marked, sending, post, hooks, work, count>>
Goes(at) == handler' = IF at = "idle" THEN Free ELSE [handler EXCEPT !.at = at]

(* MessageRepository.Save: a row that is there keeps its contents.         *)
SaveMessage ==
  LET m == handler.ev.of IN
  /\ handler.at = "save"
  /\ Tries(row' = [row EXCEPT ![m] = IF There(m) THEN @ ELSE Inserted("event", Nothing, {})], row)
  /\ Goes("idle")
  /\ UNCHANGED <<wa, events, marked, sending, post, hooks, work>>

(* AddReaction replaces what its actor said before; RemoveReaction.        *)
RemoveReaction(rs, a) == {r \in rs : r[1] # a}
AddReaction(rs, a, e) == RemoveReaction(rs, a) \cup {<<a, e>>}
UpdateReactions ==
  LET m == handler.ev.of
      a == handler.ev.by
      e == handler.ev.emoji IN
  /\ handler.at = "react"
  /\ Tries(row' = [row EXCEPT ![m].reactions =
             IF ~There(m) THEN @
             ELSE IF e = Nothing THEN RemoveReaction(@, a) ELSE AddReaction(@, a, e)], row)
  /\ Goes(IF e = Nothing THEN "idle" ELSE "tell")
  /\ UNCHANGED <<wa, events, marked, sending, post, hooks, work>>

(* HandleConversationNotFound: the rows of a conversation that no longer   *)
(* exists lose their references.                                           *)
Cleared == [m \in Messages |-> [row[m] EXCEPT !.ref = Nothing]]
(* ProcessReactionMessage posts the reaction, in reply to what it is for.  *)
TellReaction ==
  /\ handler.at = "tell"
  /\ row' \in {row, Cleared} /\ (row' # row => \E p \in Posts : post[p] = "gone")
  /\ Goes("idle")
  /\ UNCHANGED <<wa, events, marked, sending, post, hooks, work, count>>

(* handleProtocolMessage records a revocation.                             *)
MarkDeleted ==
  /\ handler.at = "mark"
  /\ Tries(marked' = marked \cup {handler.ev.of}, marked)
  /\ Goes("find")
  /\ UNCHANGED <<wa, events, row, sending, post, hooks, work>>
(* ProcessMessageDelete: nothing to do without a row with a reference.     *)
FindRow ==
  LET r == row[handler.ev.of] IN
  /\ handler.at = "find"
  /\ handler' = IF r.at = "there" /\ r.ref # Nothing
                  THEN [handler EXCEPT !.at = "remove"] ELSE Free
  /\ UNCHANGED <<wa, events, row, marked, sending, post, hooks, work, count>>
(* The message is deleted in Chatwoot, which tells everyone of it; if the  *)
(* conversation is gone, the references to it are cleared.                 *)
RemovePost ==
  LET p == PostOf[handler.ev.of] IN
  /\ handler.at = "remove"
  /\ \/ /\ post[p] = "gone" /\ row' = Cleared /\ Goes("drop")
        /\ UNCHANGED <<post, hooks, count>>
     \/ /\ post[p] # "gone" /\ Goes("drop")
        /\ post' = [post EXCEPT ![p] = "deleted"]
        /\ hooks' = [hooks EXCEPT ![p] = @ + 1]
        /\ UNCHANGED <<row, count>>
     \/ /\ Counts("failures") /\ Goes("idle")
        /\ UNCHANGED <<row, post, hooks>>
  /\ UNCHANGED <<wa, events, marked, sending, work>>

Dropped(m) == [row EXCEPT ![m] = IF There(m) THEN [NoRow EXCEPT !.at = "dropped"] ELSE @]
DropRow ==
  /\ handler.at = "drop"
  /\ Tries(row' = Dropped(handler.ev.of), row)
  /\ Goes("idle")
  /\ UNCHANGED <<wa, events, marked, sending, post, hooks, work>>

------------------------------------------------------------------------------
(* A history sync: SaveBatch inserts the rows that are missing, with the   *)
(* reactions of the phone, all under the address of the chat; a revoked    *)
(* message is a notice without any.                                        *)
BuildReactions(m) ==
  {<<Contact, e>> : e \in {wa[m].reactions[a] : a \in Actors} \ {Nothing}}
SaveBatch(ms) ==
  /\ ms # {} /\ \A m \in ms : wa[m].sent
  /\ Counts("syncs")
  /\ row' = [m \in Messages |->
       IF m \in ms /\ ~There(m)
         THEN Inserted("history", Nothing, IF wa[m].revoked THEN {} ELSE BuildReactions(m))
         ELSE row[m]]
  /\ UNCHANGED <<wa, events, handler, marked, sending, post, hooks, work>>

------------------------------------------------------------------------------
(* Deletions in Chatwoot.                                                  *)

AgentDeletes(p) ==
  /\ post[p] = "there"
  /\ post' = [post EXCEPT ![p] = "deleted"]
  /\ hooks' = [hooks EXCEPT ![p] = @ + 1]
  /\ UNCHANGED <<wa, events, handler, row, marked, sending, work, count>>
ConversationGoes ==
  /\ \E p \in Posts : post[p] # "gone"
  /\ post' = [p \in Posts |-> "gone"]
  /\ UNCHANGED <<wa, events, handler, row, marked, sending, hooks, work, count>>

(* handleMessageDeleted, in a goroutine of the webhook: the rows that      *)
(* refer to the deleted message;                                           *)
ListRows(g, p) ==
  LET ms == {m \in Messages : There(m) /\ row[m].ref = p} IN
  /\ work[g] = NoWork /\ hooks[p] > 0
  /\ hooks' = [hooks EXCEPT ![p] = @ - 1]
  /\ work' = [work EXCEPT ![g] =
       IF ms = {} THEN NoWork ELSE [at |-> "revoke", left |-> ms, of |-> Nothing]]
  /\ UNCHANGED <<wa, events, handler, row, marked, sending, post, count>>
(* ReceiveWebhook ignores it while the session is not connected.           *)
IgnoreHook(p) ==
  /\ hooks[p] > 0 /\ Counts("failures")
  /\ hooks' = [hooks EXCEPT ![p] = @ - 1]
  /\ UNCHANGED <<wa, events, handler, row, marked, sending, post, work>>

(* Mutant: the row is deleted whatever came of the request.                *)
RefusedDrops(g, m) == [work[g] EXCEPT !.at = "drop", !.of = m, !.left = @ \ {m}]

(* one after the other is revoked: of the contact's messages that revokes  *)
(* nothing in a chat of two; what is refused is left as it is;             *)
After(g, left) == IF left = {} THEN NoWork ELSE [at |-> "revoke", left |-> left, of |-> Nothing]
Refused(g, m) == After(g, work[g].left \ {m})
RevokeNext(g, m) ==
  /\ work[g].at = "revoke" /\ m \in work[g].left
  /\ \/ /\ wa' = [wa EXCEPT ![m].revoked = @ \/ m \in Album]
        /\ work' = [work EXCEPT ![g] =
             [at |-> "drop", of |-> m, left |-> work[g].left \ {m}]]
        /\ UNCHANGED count
     \/ /\ Counts("failures")
        /\ work' = [work EXCEPT ![g] = Refused(g, m)]
        /\ UNCHANGED wa
  /\ UNCHANGED <<events, handler, row, marked, sending, post, hooks>>
(* and its row deleted.                                                    *)
DropNext(g) ==
  /\ work[g].at = "drop"
  /\ Tries(row' = Dropped(work[g].of), row)
  /\ work' = [work EXCEPT ![g] = After(g, work[g].left)]
  /\ UNCHANGED <<wa, events, handler, marked, sending, post, hooks>>

------------------------------------------------------------------------------
(* Requests of the API, which cause no event.                              *)

ApiReacts(m, e) ==
  /\ m \in Theirs /\ wa[m].sent /\ ~wa[m].revoked /\ Counts("api")
  /\ wa' = [wa EXCEPT ![m].reactions[Me] = e]
  /\ UNCHANGED <<events, handler, row, marked, sending, post, hooks, work>>
(* With forMe a message of ours is revoked, for everyone; without, the     *)
(* revocation names the chat as its sender, and a deletion is recorded     *)
(* even if the request failed.                                             *)
ApiDeletes(m, forMe) ==
  /\ wa[m].sent /\ Counts("api")
  /\ wa' \in {wa, [wa EXCEPT ![m].revoked = @ \/ (forMe /\ m \in Album)]}
  /\ marked' = IF forMe THEN marked ELSE marked \cup {m}
  /\ UNCHANGED <<events, handler, row, sending, post, hooks, work>>

------------------------------------------------------------------------------
UpdatesNext ==
  \/ \E m \in Messages :
       Send(m) \/ SaveSent(m) \/ SaveSentFails(m) \/ Comes(m) \/ Bridge(m) \/ Revoke(m)
  \/ \E m \in Messages, a \in Actors, e \in Emojis \cup {Nothing} : React(m, a, e)
  \/ Begin \/ SaveMessage \/ UpdateReactions \/ TellReaction
  \/ MarkDeleted \/ FindRow \/ RemovePost \/ DropRow
  \/ \E ms \in SUBSET Messages : SaveBatch(ms)
  \/ \E p \in Posts : AgentDeletes(p) \/ IgnoreHook(p) \/ \E g \in Goroutines : ListRows(g, p)
  \/ ConversationGoes
  \/ \E g \in Goroutines : DropNext(g) \/ \E m \in Messages : RevokeNext(g, m)
  \/ \E m \in Messages : (\E e \in Emojis : ApiReacts(m, e))
                     \/ (\E forMe \in BOOLEAN : ApiDeletes(m, forMe))

UpdatesSpec == UpdatesInit /\ [][UpdatesNext]_updatesVars

------------------------------------------------------------------------------
(* Properties.                                                             *)

(* A row is deleted only once its message is gone in Chatwoot and, if it   *)
(* is ours, at WhatsApp, whichever side began, whatever failed, and while  *)
(* both sides delete at once.                                              *)
DroppedIsGone ==
  \A m \in Messages : row[m].at = "dropped" =>
    /\ m \in Album => wa[m].revoked
    /\ post[PostOf[m]] \in {"deleted", "gone"}

Undisturbed == count.failures = 0 /\ count.api = 0
AtRest ==
  /\ handler = Free /\ events = <<>> /\ sending = {}
  /\ \A g \in Goroutines : work[g] = NoWork
  /\ \A p \in Posts : hooks[p] = 0
(* When all is handled and nothing failed, was late or came from the API:  *)
(* no row refers to a message deleted in Chatwoot, and a message revoked   *)
(* at WhatsApp is recorded as deleted or has no row any more, nor a living *)
(* message in Chatwoot.                                                    *)
DeletionsMeet ==
  AtRest /\ Undisturbed => \A m \in Messages :
    /\ row[m].ref # Nothing => post[row[m].ref] # "deleted"
    /\ wa[m].revoked /\ There(m) /\ row[m].from = "event" => m \in marked
    /\ wa[m].revoked /\ There(m) => row[m].ref = Nothing

(* A row that an event made shows, of everyone, the reaction last given    *)
(* and not taken back, once its events are handled.                        *)
Pending(m) == handler.ev.of = m \/ \E i \in DOMAIN events : events[i].of = m
ReactionsAgree ==
  Undisturbed => \A m \in Messages : There(m) /\ row[m].from = "event" /\ ~Pending(m) =>
    row[m].reactions =
      {<<a, wa[m].reactions[a]>> : a \in {b \in Actors : wa[m].reactions[b] # Nothing}}

(* Rows, Chatwoot and WhatsApp agree about what was deleted and how people *)
(* reacted, while events, history syncs, agents, their goroutines and the  *)
(* bridge's own deletions interleave.                                      *)
RowsAreTrue == DroppedIsGone /\ DeletionsMeet /\ ReactionsAgree
==============================================================================
