-------------------------------- MODULE Content --------------------------------
(***************************************************************************)
(* What Chatwoot shows of a message of WhatsApp.  It may get there in two  *)
(* ways that share no code: the bridge formats the message of the event    *)
(* (service/messages.go), the synchronisation formats the row, which an    *)
(* event or a history sync of the phone wrote (sync/content.go).  A        *)
(* message is its kind and the parts it has; a text in Chatwoot is the set *)
(* of parts it shows.  Two messages, the second of which may quote the     *)
(* first, are enough for replies.  The steps and failures of both ways are *)
(* those of WAToCW, Media and ChatSync and summarised here.                *)
(***************************************************************************)
EXTENDS Naturals, Sequences, FiniteSets

CONSTANTS
  Firsts,      (* the messages that may come first                         *)
  Seconds      (* the messages that may come second                        *)

Pair == {1, 2}

MessageKinds ==
  {"text", "image", "video", "audio", "document", "sticker", "contact", "contacts", "location",
   "live_location", "poll", "list", "list_response", "buttons", "button_reply",
   "button_response", "template", "interactive", "reaction", "protocol", "edit", "notice",
   "unknown"}
(* What a message has or a post shows.  "once": it may be viewed once.     *)
Parts ==
  {"text", "caption", "file", "filename", "once", "coordinates", "place", "address",
   "display name", "phone", "more phones", "emails", "organisation", "title", "description",
   "rows", "question", "header", "sender"}
(* A message quotes another or not; its sender is the user or not.         *)
WaMessage ==
  [kind : MessageKinds, has : SUBSET Parts, quotes : BOOLEAN, mine : BOOLEAN,
   chat : {"private", "group", "status", "channel", "ignored"}]
(* What comes first has nothing to quote.                                  *)
ASSUME ContentAssumption ==
  Firsts \cup Seconds \subseteq WaMessage /\ \A first \in Firsts : ~first.quotes

VARIABLES
  wa,          (* the two messages                                         *)
  table,       (* the row of each                                          *)
  files,       (* those whose file is in the media store                   *)
  bridge,      (* the bridge's step for each                               *)
  cw,          (* Chatwoot: all posts                                      *)
  refs,        (* the post each row refers to, or 0                        *)
  sync,        (* the running synchronisation                              *)
  synced       (* history: messages a synchronisation found or brought     *)

contentVars == <<wa, table, files, bridge, cw, refs, sync, synced>>

NoEntry == [type |-> "none", content |-> {}, quoted |-> FALSE, raw |-> "none"]
NoSync == [pc |-> "idle", wanted |-> {}, found |-> {}, texts |-> {}, jobs |-> {}]

(* The types of messages that hold a file.                                 *)
MediaTypes == {"image", "video", "audio", "document", "sticker"}

------------------------------------------------------------------------------
(* Rows: the service of WhatsApp's events.                                 *)

(* The type of a message: an edit that a history sync brings counts as the *)
(* text it holds, a notice of the chat as "system".                        *)
TypeOf(msg) ==
  CASE msg.kind = "edit" -> "text" [] msg.kind = "notice" -> "system" [] OTHER -> msg.kind

(* The parts that become the content of the row.                           *)
ContentParts(msg) ==
  CASE msg.kind \in {"text", "edit", "buttons", "interactive", "button_reply",
                     "button_response", "reaction"} -> {"text"}
    [] msg.kind \in {"image", "video"} -> {"caption"}
    [] msg.kind = "document" -> {"filename"}
    [] msg.kind = "poll" -> {"question"}
    [] msg.kind \in {"contact", "contacts"} -> {"display name"}
    [] msg.kind \in {"list", "list_response"} -> {"title"}
    [] OTHER -> {}

(* extractMessageTypeAndContent; a location always has numbers.            *)
RowContent(msg) ==
  IF msg.kind = "location" THEN {"coordinates"} ELSE msg.has \cap ContentParts(msg)

(* extractContextInfo does not look into a view-once wrapper, which the    *)
(* library unpacks for events and nobody does for a history sync.          *)
Quoted(msg, raw) ==
  /\ msg.quotes
  /\ msg.kind \in {"text", "contact", "contacts"} \cup MediaTypes
  /\ ~(raw = "history" /\ "once" \in msg.has)

RowOf(msg, raw) ==
  [type |-> TypeOf(msg), content |-> RowContent(msg), quoted |-> Quoted(msg, raw), raw |-> raw]

(* Events of other handlers: reactions, revocations, edits (Updates).      *)
ToOthers(msg) == msg.kind \in {"reaction", "protocol", "edit", "notice"}

(* handleMessage of an event, in both services: a new row unless nothing   *)
(* is known of the type, and the message goes to the bridge's queue.       *)
Receive(m) ==
  /\ bridge[m] = "none" /\ ~ToOthers(wa[m])
  /\ table' = IF table[m] # NoEntry \/ wa[m].kind = "unknown" THEN table
              ELSE [table EXCEPT ![m] = RowOf(wa[m], "event")]
  /\ bridge' = [bridge EXCEPT ![m] = "told"]
  /\ UNCHANGED <<wa, files, cw, refs, sync, synced>>

(* handleHistorySync: a row that exists keeps its content.                 *)
ReadHistory(m) ==
  /\ table[m] = NoEntry /\ wa[m].kind # "unknown"
  /\ table' = [table EXCEPT ![m] = RowOf(wa[m], "history")]
  /\ UNCHANGED <<wa, files, bridge, cw, refs, sync, synced>>

(* extractMediaInfo: the messages that get a row in the media table, also  *)
(* inside a view-once wrapper.                                             *)
HasMedia(msg) == msg.kind \in MediaTypes

(* The media service stores the file of such a row.                        *)
StoreFile(m) ==
  /\ m \notin files /\ table[m] # NoEntry /\ HasMedia(wa[m])
  /\ files' = files \cup {m}
  /\ UNCHANGED <<wa, table, bridge, cw, refs, sync, synced>>

------------------------------------------------------------------------------
(* The bridge.                                                             *)

(* What the vCard parser finds, beside the name.                           *)
Card == {"phone", "more phones", "emails", "organisation"}
(* formatContactMessage names all there is on a card.                      *)
FormattedCard(msg) == {"header"} \cup (msg.has \cap ({"display name"} \cup Card))
(* formatContactsArrayMessage: the number of cards, and each card.         *)
FormattedCards(msg) == {"header"} \cup FormattedCard(msg)

(* extractMessageContent, for what is no media: nothing for polls, lists,  *)
(* buttons and the answers to them.                                        *)
LiveText(msg) ==
  CASE msg.kind = "text" -> msg.has \cap {"text"}
    [] msg.kind = "location" -> {"coordinates"}
    [] msg.kind = "contact" -> FormattedCard(msg)
    [] msg.kind = "contacts" -> FormattedCards(msg)
    [] OTHER -> {}

(* ShouldIgnoreJid.                                                        *)
Ignores(msg) == msg.chat \in {"status", "channel", "ignored"}

(* FormatGroupMessage: a text of a group begins with who wrote it.         *)
Signed(msg, shows) ==
  IF msg.chat = "group" /\ ~msg.mine /\ shows # {} THEN shows \cup {"sender"} ELSE shows

IsMediaMessage(msg) == msg.kind \in MediaTypes
(* GetMediaInfo: only these have a caption.                                *)
MediaCaption(msg) ==
  IF msg.kind \in {"image", "video", "document"} THEN msg.has \cap {"caption"} ELSE {}
(* processIncomingMediaMessageInternal: of a media that cannot be          *)
(* downloaded, its caption or name.                                        *)
MediaShows(msg, downloaded) ==
  IF downloaded THEN {"file"} \cup MediaCaption(msg)
  ELSE IF MediaCaption(msg) # {} THEN {"caption"} ELSE {"filename"}

LiveShows(msg, downloaded) ==
  IF Ignores(msg) THEN {}
  ELSE IF IsMediaMessage(msg) THEN MediaShows(msg, downloaded)
  ELSE Signed(msg, LiveText(msg))

(* contextExtractors.                                                      *)
QuotingKinds == {"text", "contact", "contacts"} \cup MediaTypes
(* extractReplyInfo: the post that the row of the quoted message refers to.*)
ReplyOf(msg) ==
  IF msg.quotes /\ msg.kind \in QuotingKinds /\ table[1] # NoEntry THEN refs[1] ELSE 0

NewPost(m, shows, sid, reply, by) ==
  [of |-> m, shows |-> shows, sid |-> sid, reply |-> reply, by |-> by]

(* processIncomingMessageInternal and processOutgoingMessageInternal.  An  *)
(* attachment gets no source id, a placeholder is not recorded, and only   *)
(* messages of one's own are compared with the row first.                  *)
BridgeShows(m) ==
  /\ bridge[m] = "told"
  /\ ~(wa[m].mine /\ table[m] # NoEntry /\ refs[m] # 0)
  /\ \E downloaded \in BOOLEAN :
       LET shows == LiveShows(wa[m], downloaded)
           media == IsMediaMessage(wa[m])
       IN /\ shows # {}
          /\ cw' = Append(cw, NewPost(m, shows, ~(media /\ downloaded), ReplyOf(wa[m]),
                                      "bridge"))
          /\ refs' = IF table[m] = NoEntry \/ (media /\ ~downloaded) THEN refs
                     ELSE [refs EXCEPT ![m] = Len(cw) + 1]
  /\ bridge' = [bridge EXCEPT ![m] = "done"]
  /\ UNCHANGED <<wa, table, files, sync, synced>>

(* Nothing to show, posted before, or given up after the last delivery.    *)
BridgeDrops(m) ==
  /\ bridge[m] = "told"
  /\ bridge' = [bridge EXCEPT ![m] = "done"]
  /\ UNCHANGED <<wa, table, files, cw, refs, sync, synced>>

------------------------------------------------------------------------------
(* The synchronisation.                                                    *)

Found == {cw[p].of : p \in {q \in DOMAIN cw : cw[q].sid}}

(* shouldSkipMessage; the chats the owner ignores are not asked for.       *)
Skipped(m) ==
  \/ wa[m].chat \in {"status", "channel"}
  \/ table[m].type \in {"protocol", "reaction", "system"}

(* ExtractInteractiveContent: of rows of a history sync without content.   *)
InteractiveParts(type) ==
  CASE type = "list" -> {"description", "rows"}
    [] type \in {"template", "buttons", "interactive"} -> {"text"}
    [] OTHER -> {}
Interactive(row, msg) ==
  IF row.content = {} /\ row.raw = "history" THEN msg.has \cap InteractiveParts(row.type)
  ELSE {}

(* Mutant: a location is only looked for in the stored message.            *)
LocationOfMessage(row, msg) ==
  {"header"} \cup (IF row.raw = "history" THEN msg.has \cap {"place", "address", "coordinates"}
                   ELSE {})

(* extractLocationContent finds the stored message of a history sync, not  *)
(* that of an event, for which the content of the row has to do.           *)
LocationContent(row, msg) ==
  {"header"} \cup (IF row.raw = "history" THEN msg.has \cap {"place", "address", "coordinates"}
                   ELSE row.content)

(* extractContactContent: the name and the first phone of a card.          *)
CardContent(msg) == {"header"} \cup (msg.has \cap {"display name", "phone"})
(* extractContactsArrayContent: of each card.                              *)
CardsContent(msg) == {"header"} \cup (msg.has \cap {"display name", "phone"})

(* extractButtonReplyContent: a header even when no text is found.         *)
ButtonReply(row) == {"header"} \cup row.content

(* GetMessageContent and formatMessageContent.                             *)
RowText(row, msg) ==
  IF Interactive(row, msg) # {} THEN Interactive(row, msg)
  ELSE CASE row.type = "location" -> LocationContent(row, msg)
         [] row.type = "contact" -> CardContent(msg)
         [] row.type = "contacts" -> CardsContent(msg)
         [] row.type \in {"button_reply", "button_response"} -> ButtonReply(row)
         [] OTHER -> row.content

(* filterMessages over all rows, at once with the look-up in Chatwoot.     *)
SyncReads ==
  /\ sync.pc = "idle"
  /\ \E m \in Pair : table[m] # NoEntry
  /\ LET all == {m \in Pair : table[m] # NoEntry} IN
       sync' = [NoSync EXCEPT !.pc = "texts", !.found = all \cap Found,
                              !.wanted = {m \in all \ Found : ~Skipped(m)}]
  /\ UNCHANGED <<wa, table, files, bridge, cw, refs, synced>>

(* WaMessage.IsMedia.                                                        *)
IsMedia(m) == table[m].type \in MediaTypes

(* buildSenderPrefix: who wrote the message of a group, text or media.     *)
Prefix(msg) == IF msg.chat = "group" /\ ~msg.mine THEN {"sender"} ELSE {}

(* insertTextMessageBatch up to InsertMessagesBatch, in the order of time; *)
(* a row that shows nothing is left out.                                   *)
SyncInserts ==
  /\ sync.pc = "texts"
  /\ LET Text(m) == RowText(table[m], wa[m])
         texts == {m \in sync.wanted : ~IsMedia(m) /\ Text(m) # {}}
         In(m) == IF m \in texts
                  THEN <<NewPost(m, Prefix(wa[m]) \cup Text(m), TRUE, 0, "sync")>> ELSE <<>>
     IN /\ cw' = cw \o In(1) \o In(2)
        /\ sync' = [sync EXCEPT !.pc = "ids", !.texts = texts]
  /\ UNCHANGED <<wa, table, files, bridge, refs, synced>>

(* GetInsertedMessageIDs, by source id, and UpdateCwFields of the rows.    *)
SyncRecords ==
  /\ sync.pc = "ids"
  /\ \E id \in [sync.texts -> DOMAIN cw] :
       /\ \A m \in sync.texts : cw[id[m]].sid /\ cw[id[m]].of = m
       /\ refs' = [m \in Pair |-> IF m \in sync.texts THEN id[m] ELSE refs[m]]
  /\ sync' = [sync EXCEPT !.pc = "replies"]
  /\ UNCHANGED <<wa, table, files, bridge, cw, synced>>

(* ExtractQuotedID: the column, else the stored message of a history sync, *)
(* where a location may quote as well.                                     *)
QuotedOfRow(m) ==
  table[m].quoted \/ (table[m].raw = "history" /\ wa[m].quotes /\ wa[m].kind = "location")

(* ResolveQuotedMessages writes the reply to all posts of a source id; one *)
(* of the posts of the quoted message's source id will do.                 *)
SyncResolves ==
  /\ sync.pc = "replies"
  /\ IF 2 \in sync.texts /\ QuotedOfRow(2) /\ 1 \in Found
     THEN \E q \in DOMAIN cw :
            /\ cw[q].of = 1 /\ cw[q].sid
            /\ cw' = [p \in DOMAIN cw |-> IF cw[p].of = 2 /\ cw[p].sid
                                          THEN [cw[p] EXCEPT !.reply = q] ELSE cw[p]]
     ELSE UNCHANGED cw
  /\ sync' = [sync EXCEPT !.pc = "media",
                          !.jobs = {m \in sync.wanted \cap files : IsMedia(m)}]
  /\ UNCHANGED <<wa, table, files, bridge, refs, synced>>

(* processJob: the file with the content of the row, with a source id,     *)
(* neither recorded in the row nor a reply.                                *)
SyncUploads(m) ==
  /\ sync.pc = "media" /\ m \in sync.jobs
  /\ cw' = Append(cw, NewPost(m, {"file"} \cup table[m].content \cup Prefix(wa[m]), TRUE, 0,
                              "sync"))
  /\ sync' = [sync EXCEPT !.jobs = @ \ {m}, !.found = @ \cup {m}]
  /\ UNCHANGED <<wa, table, files, bridge, refs, synced>>

SyncEnded ==
  /\ sync.pc = "media" /\ sync.jobs = {}
  /\ synced' = synced \cup sync.found
               \cup {m \in sync.wanted : ~IsMedia(m)}
  /\ sync' = NoSync
  /\ UNCHANGED <<wa, table, files, bridge, cw, refs>>

------------------------------------------------------------------------------
ContentInit ==
  /\ \E first \in Firsts, second \in Seconds : wa = <<first, second>>
  /\ table = [m \in Pair |-> NoEntry] /\ files = {}
  /\ bridge = [m \in Pair |-> "none"]
  /\ cw = <<>> /\ refs = [m \in Pair |-> 0]
  /\ sync = NoSync /\ synced = {}

ContentNext ==
  \/ \E m \in Pair :
       \/ Receive(m) \/ ReadHistory(m) \/ StoreFile(m)
       \/ BridgeShows(m) \/ BridgeDrops(m) \/ SyncUploads(m)
  \/ SyncReads \/ SyncInserts \/ SyncRecords \/ SyncResolves \/ SyncEnded

ContentSpec == ContentInit /\ [][ContentNext]_contentVars

------------------------------------------------------------------------------
ContentTypeOK ==
  /\ table \in [Pair -> [type : MessageKinds \cup {"none", "system"}, content : SUBSET Parts,
                         quoted : BOOLEAN, raw : {"none", "event", "history"}]]
  /\ files \subseteq Pair /\ synced \subseteq Pair
  /\ bridge \in [Pair -> {"none", "told", "done"}]
  /\ \A p \in DOMAIN cw : cw[p].of \in Pair /\ cw[p].reply \in 0 .. Len(cw)
  /\ refs \in [Pair -> 0 .. Len(cw)]
  /\ sync.pc \in {"idle", "texts", "ids", "replies", "media"}

(* The parts without which a message says something else.  The sync drops  *)
(* further phones, addresses and organisations of cards, the captions of   *)
(* documents, whose rows hold the file's name, and a place at 0,0.         *)
Essential == {"text", "caption", "file", "coordinates", "display name", "phone", "sender"}

ShownOf(m) == UNION {cw[p].shows : p \in {q \in DOMAIN cw : cw[q].of = m}}
(* A media whose download failed in the bridge stays a placeholder: it has *)
(* a source id, so no sync brings the file.                                *)
Placeholder(m) == \E p \in DOMAIN cw : cw[p].of = m /\ cw[p].sid /\ cw[p].by = "bridge"
                                       /\ IsMediaMessage(wa[m])
OwedOf(m) ==
  IF Placeholder(m) THEN {}
  ELSE {s \in LiveShows(wa[m], TRUE) \cap Essential :
          /\ s = "caption" => wa[m].kind # "document"
          /\ s = "coordinates" => s \in wa[m].has}

(* A message that a synchronisation has seen shows in Chatwoot whatever    *)
(* the bridge would have shown of it, in its essential parts: whether its  *)
(* row came by event or from the phone's history, whether the bridge       *)
(* posted it, lost it or was never told.                                   *)
Recovered ==
  \A m \in synced : /\ OwedOf(m) \subseteq ShownOf(m)
                    /\ LiveShows(wa[m], TRUE) # {} => ShownOf(m) # {}

(* Every reply in Chatwoot is a reply to a post of the message that was    *)
(* quoted, whoever made either post and whichever row they found it by.    *)
RepliesOwn ==
  \A p \in DOMAIN cw :
    cw[p].reply # 0 =>
      cw[p].of = 2 /\ wa[2].quotes /\ cw[p].reply # p /\ cw[cw[p].reply].of = 1

(* After a synchronisation, a text it brought is a reply when its message  *)
(* quotes one that was in Chatwoot, with its source id, before it.  (The   *)
(* media of a synchronisation come after its texts, and so too late.)      *)
RepliesKept ==
  sync.pc \in {"idle", "media"} =>
    \A p, q \in DOMAIN cw :
      cw[p].of = 2 /\ cw[p].by = "sync" /\ ~IsMedia(2)
      /\ Quoted(wa[2], table[2].raw) /\ q < p /\ cw[q].of = 1 /\ cw[q].sid
        => cw[p].reply # 0

(* Chatwoot shows what it should of the messages, and their replies too.   *)
ContentRight == Recovered /\ RepliesOwn /\ RepliesKept
==============================================================================
