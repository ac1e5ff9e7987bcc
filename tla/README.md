# A TLA+ model of onwapp

onwapp is a Go gateway: it keeps WhatsApp sessions (through whatsmeow), offers
them over an HTTP API, stores what passes in PostgreSQL, and connects each
session to a Chatwoot inbox, so that agents answer WhatsApp messages in
Chatwoot. Between the two stand, optionally, NATS JetStream work queues.

This directory models what the program does with shared state: the work queues,
the two directions of the Chatwoot bridge, sessions, media, the synchronisation
of history, contacts, tickets, messages and their receipts, webhooks, and the
requests of the HTTP API, with the interleavings, failures, redeliveries and
restarts they have to survive. TLC checks it on small instances; TLAPS proves
the most important safety properties for every size.

- [1. The system](#1-the-system)
- [2. The modules](#2-the-modules)
- [3. What the runs check](#3-what-the-runs-check)
- [4. Fairness](#4-fairness)
- [5. What is proved](#5-what-is-proved)
- [6. Disagreements found](#6-disagreements-found)
- [7. What is not modelled](#7-what-is-not-modelled)
- [8. Plan](#8-plan)

How to run: `tlc -config MCQueue.cfg MCQueue.tla` (the name of the `.cfg` begins
with the name of its module, see the table in section 3), and
`tlapm QueueProofs.tla`. `PROJECT.json` maps every definition to the lines of
code it stands for and lists the hazards, runs, mutants and theorems.

## 1. The system

Paths are below `src/internal/` unless they start with `cmd/`. The repository's
only test, `validator/validator_test.go`, concerns request validation; nothing
below is covered by a test.

### 1.1 Components

**Work queue** (`queue/`). Two work-queue streams (WhatsApp to Chatwoot and back)
and a dead letter stream.

- State: on the server, the messages of a stream and the delivery count of a
  durable consumer; in the process, the outstanding fetch, the batch received
  and not yet looked at, the message being handled, and the context that `Stop`
  cancels.
- Operations: `publish` (fails when the server does not acknowledge), `Fetch` of
  a batch, `processMessage` (handler; then ack, nak with a delay, or dead letter
  plus ack when `NumDelivered >= MaxRetries`), `PublishToDLQ`, `Start`, `Stop`,
  `Close`.
- Hard: the ack wait runs while a copy still waits in the batch, so two copies
  of one message are in play; acks and publish acks get lost; the give-up limit
  and the server's `MaxDeliver` must agree; the process stops between any two
  steps.
- Correct when: a delivery is handled at most once; a message leaves the stream
  only when handled, given up or expired; everything leaves it in the end;
  what fails for good is in the dead letter stream.

**Chatwoot to WhatsApp** (`integrations/chatwoot/handler/handler.go`,
`service/queue_handlers.go`, `service/cache.go`).

- State: `cwToWAProcessingCache` (keys, two minutes), `pendingSentFromChatwoot`
  (marks, two minutes), the database row of a sent message, the running
  `sendToWhatsAppBackground` calls.
- Operations: `ReceiveWebhook` (checks, then enqueue or a goroutine), the
  `send_text`/`send_media` queue handlers, `sendToWhatsAppBackground`
  (attachments in order, then the text if no caption carried it),
  `saveOutgoingMessage`, the echo of a sent message as an event.
- Hard: queue handler, goroutines and the WhatsApp event handler share the marks;
  a partial failure must not be retried; keys live in memory only; the same
  webhook may come twice; the session may be away.
- Correct when: the contact gets each part once and in order; nothing the bridge
  sends comes back to Chatwoot; an accepted message is sent or dead-lettered.

**WhatsApp to Chatwoot** (`integrations/chatwoot/service/events.go`,
`messages.go`, `contacts.go`, `service.go`, `client/client.go`).

- State: `msgProcessingCache` (keys made of inbox id and message id), the rows
  with their Chatwoot references, the stored inbox id; in Chatwoot the
  conversations and messages.
- Operations: `HandleEvent` after the event service has saved the row, enqueue or
  `processDirectly`, `processIncomingMessageInternal`,
  `processOutgoingMessageInternal` and its media variant, `UpdateCwFields`,
  `HandleConversationNotFound`, `ProcessMessageDelete`, and `ReceiveWebhook`
  for what Chatwoot reports back.
- Hard: the event's own call, the queue handler and an API goroutine may process
  one message at once; the conversation found may be deleted before it is used;
  the reference is recorded after the post, which may crash, fail or lose
  against Chatwoot's own webhook; revocations act on references just read.
- Correct when: one call at a time per message; an outgoing message appears once
  per conversation; a reference is to the row's own message; a retry is never
  turned away by a leftover key; what the queue is done with was posted and
  reported to the user's webhook, or is a dead letter; a message whose revocation
the bridge went through with is gone.

**Configurations and inboxes** (`chatwoot/service/service.go`, `bot.go`). State:
a configuration row per session, Chatwoot's inboxes with the address of their
webhook, the contact for bot commands. Operations: set, delete, complete the
configuration by looking the inbox up by its name or creating it, point its
webhook at the session, record its id; carry out a command an agent writes to
the bot. Hard: requests and the messages of the bridge each do this from a
configuration they read before. Correct when: what is posted in an inbox is
answered to the session it was posted for, unless a request named an inbox of its
own choice that was never set up for that session.

**Contacts and conversations** (`chatwoot/service/contacts.go`). State: a cache of
contacts (eight hours), a lock per chat with waiters that poll fifty times.
Hard: list-then-create; the two numbers of a Brazilian person, merged; a call
that finds its cached contact deleted calls itself. Correct when: one look-up at
a time per chat; a chat uses a contact of its own person; every call ends.

**Updates** (reactions, revocations, deletions: `service/event/message.go`,
`chatwoot/service/messages.go`, `chatwoot/handler/handler.go`). State: rows and
their reactions, posts. Hard: WhatsApp and Chatwoot delete at once, and what the
bridge deletes comes back as a webhook of a deletion; single events meet history
syncs. Correct when: a row is dropped only when the message is gone on both
sides; at rest the three agree.

**Session service** (`service/session.go`) and **connection events**
(`service/event/connection.go`). State: the map of sessions under a mutex, each
with client, device, status, QR code and `EventHandlerSet`; the row. Operations:
Create, Connect (with or without QR), Disconnect, Logout, Restart, Delete,
LoadFromDatabase, ReconnectAll; on events: connected, disconnected, logged out,
stream replaced. Hard: flags checked and set without the lock; objects of
deleted sessions whose goroutines still run; pairing recorded in two places.
Correct when: a session in memory has its row; a login whose client heard of it is
recorded; connecting comes to an end.

**Media** (`service/media.go`, `db/repository/media.go`, `api/handler/media.go`).
State: rows with attempts, the `downloading` guard, `pendingRetries`, one flag
for the loop of a history sync. Hard: batches work from rows read earlier,
beside downloads that take no guard; answers of the phone. Correct when: one
batch per media, attempts bounded, what counts as stored has a file, a history
sync's media are tried unless the loop is cut off or finds them held.

**Synchronisation with Chatwoot** (`chatwoot/sync/`). State: a status per session,
rows and references, Chatwoot's own tables, which it writes with SQL, a pool of
media workers. Hard: one large statement whose parts see one snapshot; insert,
look-up and record in separate statements; a second sync, the bridge or a reset
beside it. Correct when: nothing is posted twice; references and replies are
right; repeated syncs bring everything, dated, and showing what the bridge would
have shown; a sync ends.

**Messages and chats** (`service/event/`, `db/repository/message.go`, `chat.go`).
Rows with status, unread counters, times. Hard: receipts, repeated events and
history snapshots in any order; an answer marks as read what was listed before.
Correct when: no repeated event or history sync undoes what receipts told (a late
delivered receipt does set the status of a read message back, but leaves when it
was read); a chat's time only advances; what an agent read was reported to its
sender.

**Tickets, users, queues of agents** (`api/handler/ticket.go`, `db/repository/`).
Hard: rows read, changed and written back beside single-statement writes and
deletions. Correct when: rows agree; what is deleted stays deleted.

**User webhooks** (`integrations/webhook/service.go`). A goroutine per event, three
tries with growing waits. Hard: outages, changes of the configuration meanwhile.
Correct when: an event taken is received.

**HTTP API and WhatsApp services** (`api/handler/`, `service/wpp/`, `cache/`,
`api/middleware/`). Handlers check the session, call WhatsApp, write rows, drop
cached lists, emit events; a token bucket per client stands before them. Hard:
the session is deleted, logged out or reconnected between two steps; what is
cached may be older than what it is stored after. Correct when: the answer says
what became of the message; the group list is not stale; the rate is kept; a
copy of the privacy settings agrees with the account while what the library's
client remembers of it does.

**Process** (`cmd/onwapp/main.go`). Start order: database, queue (producers wired,
then consumers started, a failure only logged), event handlers, sessions loaded
and reconnected, HTTP server. Shutdown: HTTP server (ten seconds), queue (`Stop`
waits for the loop), database. Consumers run before the sessions are in memory.

### 1.2 How the components interact

    Chatwoot --webhook--> ReceiveWebhook --publish--> cw2wa stream --fetch--> send_* handler
        ^                      | (no broker: goroutine)                          |
        |                      +----------> sendToWhatsAppBackground <-----------+
        |                                      |            |
        |                                 WhatsApp      event "sent" (echo) <--- API requests
        |                                                   |
        |   WhatsApp --event--> event service: row --> EventHandler (marks consulted)
        |                          |        | media        | publish            | publish failed
        |                          |        download   wa2cw stream       processDirectly
        |                     unread, receipts              |                    |
        |                                           process*MessageInternal <----+
        |                                                   |
        +---- contact, conversation, message <--------------+
        |                                                   |
        |                            row: UpdateCwFields, then the user's webhook
        +---- synchronisation (rows, files) / reset

All of it works on one session: the client object the session service holds is
what sends, requests and media downloads find, and may lose, at each step.

## 2. The modules

| module | models | composes | proofs |
|---|---|---|---|
| `Delivery` | the promise of a work queue, without broker or loop | | |
| `Queue` | one work queue: process, consumer loop, server side, producers, dead letters | implements `Delivery` | `QueueProofs` |
| `CWToWA` | webhooks of agents' messages up to WhatsApp | `Queue` (handler = the bridge's send) | `CWToWAProofs` |
| `WAToCW` | WhatsApp messages up to Chatwoot and the way back | `Queue` (handler = the bridge's post) | `WAToCWProofs` |
| `Inboxes` | configurations, inboxes, their webhooks, bot commands | | `CWToWAProofs` |
| `Updates` | reactions, revocations and deletions from three sides | | `UpdatesProofs` |
| `Contacts` | the contact and conversation of a chat: cache, locks, merges | | `CallsProofs` |
| `Session` | the session service, its goroutines, whatsmeow's events | | `SessionProofs` |
| `Media` | downloads of media and requests to the phone | | `MediaProofs` |
| `ChatSync` | a synchronisation beside the bridge, other syncs and a reset | | `UpdatesProofs` |
| `Content` | what the bridge and a synchronisation show of each kind of message | | `MediaProofs` |
| `Inbox` | rows of messages and chats, receipts, unread counters | | `TicketsProofs` |
| `Tickets` | tickets, users, queues, memberships | | `TicketsProofs` |
| `Webhook` | the user's webhook and its tries | | |
| `WhatsApp` | the functions of `wpp.Service`, each a sequence of steps | | |
| `Routes` | the handlers of the routes that reach a session, around those | `WhatsApp` | |
| `Requests` | requests that run their steps beside others | (`Routes`, in `MCCalls`) | `CallsProofs` |
| `Limiter` | the rate limiter's buckets | | `CallsProofs` |
| `Settings` | privacy settings, their changes and copies | | `CallsProofs` |

`MCQueue`, `MCCWToWA`, `MCWAToCW`, `MCSession`, `MCMedia`, `MCChatSync`, `MCCalls`
and `MCDesk` are the small instances. Each holds several; the variable
`instance`, chosen in the initial state, says which one runs, while the
variables of the others stand still. Variables that count what a bound limits, and
those called history in their declaration, are not of the program.

Time is abstract everywhere: a wait may end at any moment that the code's order
of steps allows. Crashes keep what the database, the broker, Chatwoot and
WhatsApp hold and lose the rest.

### Queue

`stored[m]` is the server's view of a message (`none`, `ready` for delivery,
`inflight`, `removed`, `aged`), `dc[m]` the consumer's delivery count. `pull` is
the rest of the outstanding `Fetch`, `buf` the copies delivered and not yet
looked at, `hand` the copy in `processMessage`. `attempts` and `handled` are
history variables.

| action | code |
|---|---|
| `Start`, `Shutdown`, `LoopReturns`, `Exit`, `Crash` | `main`, `Service.Start`, `Consumer.Stop`, `consumeLoop`'s return, `Service.Close` |
| `PublishOk`, `PublishError` | `Producer.publish`; an error may come after the server stored the message |
| `Deliver`, `AckExpires`, `AgeOut` | the server (external): deliveries up to `MaxDeliver`, ack wait or backoff passed, `MaxAge` |
| `Fetch`, `FetchExpires`, `Take` | `consumeLoop`, one batch after the other |
| `HandlerSucceeds`, `HandlerFails`, `HandlerGivesUp` | the three ends of `processMessage` |

- An ack wait may expire right after the delivery. That includes every timing
  the five-minute ack wait and the backoff list allow, and more.
- `loop` may start as `off` or `cancelled`: `Service.Start` may fail for the
  other stream after this loop was started, and `main` runs on.
- A dead letter is published under the loop's context, so after `Stop` it fails.
- `AgeOut` strikes only what no longer moves (no loop, or stranded): a day is
  long against everything else.
- A message is published once under one name; a publish that is repeated is
  another message of the model (the bridges say when two are about the same).
- Left out are a message that does not parse, which is refused again and again
  until the server's `MaxDeliver`, and one whose type has no handler, which is
  acknowledged. No handler sees either. A payload that its handler cannot parse is
  an error like any other: retried, then a dead letter.

### CWToWA

Every webhook call `h` is about a message `Cw[h]`; two calls may be about the
same one. A task (`Hooks \cup {Consumer}`) is a running
`sendToWhatsAppBackground`: `at` the attachment it has come to, `text` whether
the content is still unsent. Each step up to an interaction with shared state
is an action of its own: the send, the echo event that whatsmeow's wrapper
emits before it returns, the saved row. `sess` is what the handlers see of the
session.

- `AttachmentFails` drops the text with the attachment, as the code does (the
  content is cleared before the send is tried); `DownloadFails` does not.
- `HandleSend` takes the key and no path gives it back. `SkipDuplicate` reports
  success.
- `SendDirectly` covers `IsConnected` answering no (`FALSE \in Online`) and a
  publish that returned an error.
- `MarkExpires` and `KeyExpires` are the two minutes; only a call of the queue
  handler can outlive a mark, since a goroutine's context ends sooner.

### WAToCW

Every message event `e` is about `Msg[e]`; events repeat. A task is a running
`process...MessageInternal`. Chatwoot is `posts` (a sequence), `convs`, `gone`
and `removed`; a post without a WAID is an upload. whatsmeow dispatches its
events one after the other (`DispatcherFree`), while an API request emits its
event in a goroutine of its own (`Synthetic`).

- The key is a pair: the inbox id as the task read it, and the message. While
  the inbox is unknown and then initialised, two keys of one message differ.
- `KeyExpires` (with `Slow`) is the five minutes of a key.
- A queue handler runs under the loop's context: once `Stop` has cancelled it, its
  calls fail like calls to a failing Chatwoot (`MayFail`), and its configuration is not
  read (`ConfigUnread`), which the code takes for success.
- `Post` may succeed while its response is lost; `PostFilename` stands in for
  media that cannot be downloaded and records no reference.
- `Record`'s error is only logged, also for want of a row.
- `WebhookArrives` is the half of `ReceiveWebhook` that decides whether a post
  came from WhatsApp.
- The consumer, its retries and dead letters are `Queue`'s own actions with the
  bridge's outcome for the oracle.

### Inboxes, Contacts, Updates

`Inboxes`: a call `k` (a request that sets the configuration, or a message of the
bridge that meets an incomplete one) goes through list, create or point, record
and, for a request, the bot's contact; it works from the configuration it read
when it began. An inbox has a name and the session its webhook is of (`hook`),
or is `stuck` with the address it was given. `Owner` says which session is
configured with which name: two sessions under one name share an inbox in the
code by design, so the names of different sessions differ. A request may name any
inbox, which `SetConfig` stores as it is until `initInbox` records the one it found
(for good, when it fails or the configuration is not enabled): `asked` and
`recorded` keep, as history, which inboxes requests named and which were recorded.

`Contacts`: a call goes from the cache to the lock (or to waiting for it, and after
the wait on without), through search, merge, update or creation of the contact,
to the conversation, and back out. `Retry` is the second call a deleted contact
causes, made under the lock of the first. `Merge` and `Update` move numbers
between Chatwoot's contacts.

`Updates`: `wa`, `row` and `post` are the three views of each message. Events are
handled one at a time in the order of the code (row, reaction, post; mark, find,
remove, drop); goroutines of webhooks list the rows of a deleted post and revoke
each; `SaveBatch` is a history sync. How messages are sent and posted is
summarised in `Send`, `SaveSent` and `Bridge`.

### Session

Objects are numbered: `Create` after `Delete` makes a new one, and goroutines of
the old one go on. `session[o]` is the object's fields, `conn[o]` the client's
connection (down, dialled, in), `events[o]` whatsmeow's dispatcher queue,
`scan[c]` the goroutine that watches the QR channel a Connect opened. API calls
are split at each statement, each request to WhatsApp and each taking of the
lock `mu`. `Answer`, `Lose`, `AutoReconnect`, `Unlink` are WhatsApp and the
library.

### Media

`rows` orders the table; `work[w]` is a batch (`history` loop, or a `request`),
with the rows it read; `fetch` the downloads without a guard. `Expire` lets a
path end, the phone's answer replaces it. `AskPhone` fails without a key. The loop looks at its
deadline and its client before each batch (`LoopContinues`, `LoopIsCutOff`), and ends
after a few batches in which nothing was downloaded or failed. Medias that another batch holds are
passed over, so such a batch counts as empty; `passed` and `left` keep, as history, that
a batch only passed medias over and what a loop that ended on it leaves.

### ChatSync and Content

`ChatSync` takes a sync through the repository's statements, each of which may
fail (`Faults`): contacts, rows, which of them Chatwoot has, the one statement
for contacts and conversations (`CreateOptimized`, all parts on one snapshot) or
its fallback of three, inserts in batches, look-up and record of ids, the media
pool, the last statement for dates. `Arrive`, `BridgePosts`, `BridgeRecords` are
the bridge; `Reset*` the reset endpoint.

`Content` is about two messages, the second of which may quote the first. A
message is a kind with a set of parts; `LiveShows` is the bridge's formatting,
`RowText` the synchronisation's, each by the parts they keep. Rows come from
events or from a history sync, which store different columns.

### Inbox, Tickets, Webhook

`Inbox`: every statement on message and chat rows and every read receipt is a step;
handlers, history goroutines, agents and API readers interleave at them. A chat
row keeps the later of two times.

`Tickets`: a request that updates or accepts holds the whole row it read
(`req[c].row`) and writes it back; close, reopen and transfer are one statement.
An admin's transaction deletes and inserts memberships under read committed,
with the locks of foreign keys.

`Webhook`: an event taken for posting goes through its tries with what it read of
the configuration at the start; receivers are out of order, slow or refuse.

### WhatsApp, Routes, Requests, Limiter, Settings

A function of `wpp.Service` is the sequence of those of its steps that can fail or
change something; a handler is a sequence (or a set of them, when parts are
optional) around it. `Requests` runs any such sequence, one step at a time, while
other requests delete, log out, disconnect or restart the session and the
network comes and goes: a step says which answer it gives when it fails. The list of
groups is cached under the session's name; `groups` counts the changes and what
each client knows of them. `Requests` takes the handlers as a constant; what it relies on in
the order of their steps is `WellFormed` (one message at most, no refusal once it is sent,
its event after it, the list dropped after a change), assumed in `RequestsAssumption`
and evaluated by TLC for all routes of `Routes`.

`Limiter` is the bucket per client with the cleanup of idle ones; `watched` opens a
window of time at any moment and counts. Its assumption says that a bucket idle
for longer than the cleanup's limit has filled up (by default 200 a second for
ten minutes against 500), which is what makes the cleanup harmless.

`Settings` changes the account's privacy settings one after the other, then the row;
each connection copies them into the row in a goroutine of its own, and reads them
from what the library's client remembers once it has asked (`memory`, external).
A client is replaced only with the process; `stale` keeps, as history, that its memory may be wrong.

## 3. What the runs check

| run | states | instances | properties |
|---|---|---|---|
| `MCQueue` | 1 300 000 | `sound`: working broker, crashes and shutdowns; `faulty`: lost acks and publishes, failed starts; `album`, `chat` (`Updates`) | `OneCallPerDelivery`, `NothingLost`, `ImplementsDelivery`, `MCSettlesOrStranded`, `RowsAreTrue` |
| `MCCWToWA` | 2 980 000 | `calm`: a text and an album, queued or direct, and a message from the phone, failing sends and saves, lost connection; `faulty`: slow sends, lost acks, crash; `inboxes` (`Inboxes`) | `SentOnceInOrder`, `NoEcho`, `OutcomesTrue`, `MCFaultyOutcomes`, `AnswersComeBack` |
| `MCWAToCW` | 860 000 | `queued`: both directions through the queue, failing and slow calls; `revoked`: the same with a revocation; `copies`: two events of one media, lost acks and publishes; `direct`: without queue, revocations, crash | `KeyHasCall`, `QueuedIsBridgedOrDead`, `RefIsOwn`, `MCCopiesAndRevocations`, `MCQueuedEventuallySettles` |
| `MCSession` | 570 000 | `pairings`: two pairings, restarts, crash; `life`: every call, pairing, a loss, crash; `crowd`: two requests, failing statements | `MemoryHasRow`, `LoggedInIsRecorded`, `ConnectingIsAttended`, `MCConnectingResolves` |
| `MCMedia` | 1 030 000 | `loop`: history loop, paths that expire; `process`: a request to process the medias beside it, failing statement; `overlap`: requests, forced downloads, two sessions, crash | `StoredHasFile`, `OneBatchPerMedia`, `TriesBounded`, `MCHistoryMediaTried` |
| `MCChatSync` | 2 690 000 | `alone`: repeated syncs, failing statements, crash; `crowd`: two syncs and the bridge; `wiped`: a reset; `shown` (`Content`) | `PostedOnce`, `RefIsOwn`, `ImportedAfterThree`, `ContentRight`, `MCSyncEnds` |
| `MCCalls` | 2 110 000 | `lock`, `merge` (`Contacts`); `api`, `groups` (`Requests`); `copies`, `changes` (`Settings`); `limiter` | `LocksWork`, `UsesOwnContact`, `MCCallsEnd`, `AnswersTrue`, `GroupListFresh`, `PrivacyAgrees`, `WithinRate` |
| `MCDesk` | 1 040 000 | `tickets`, `queues` (`Tickets`); `inbox`; `webhook` | `RowsAgree`, `DeletedStaysDeleted`, `ReadWasSent`, `ReceiptsAreKept`, `MCTakenIsReceived` |
| `MCCWToWALost` | | `calm` | `AcceptedIsSentOrDead`, violated |
| `MCWAToCWSentBack` | | `copies` | `MCPhoneMessagesNotSentBack`, violated |
| `MCMediaForced` | | `overlap` | `ForcedRetryAsks`, violated |
| `MCChatSyncImports` | | `alone` | `ImportsAll`, violated |

The first instance named has the constants of the cfg, and the properties without
`MC` are checked as the modules state them. A property whose name begins with `MC`
says in which instance the modules' property is checked: liveness where there is
fairness, and for the instances that have variables of their own their types and
what they keep (`MCCopiesAndRevocations` is `OutgoingPostedOnce` and the work of the
keys in `copies` and `RevokedIsGone` in `direct`, `MCFaultyOutcomes` is `OutcomesTrue` in `faulty`, `MCSyncEnds` has besides
`SyncEnds` what holds in `crowd` and `wiped`, `MCSettlesOrStranded` has `ImplementsDelivery`
in `faulty` and `RowsAreTrue` in `chat`).

What they show:

- The queue handles a delivery once, loses nothing before the first stop with a
  working broker, and does what `Delivery` promises even when acknowledgements
  and publishes get lost. A message settles unless a stop took its last delivery.
- A row is dropped only when its message is gone on both sides, also while both
  delete at once and the bridge's own deletions come back as webhooks; at rest,
  undisturbed, rows, posts and messages agree on deletions and reactions.
- The contact gets each part of an agent's message once, in order, unechoed; an
  error is reported only when nothing was sent, and a row only when something was.
- Agents' answers go to the session whose inbox they were written in, while the
  configuration is changed, deleted and completed at once; not so in an inbox that
  only requests named.
- One call bridges a message at a time, keys are not left behind, an outgoing
  message is posted once, the queue's messages are posted or dead letters, and all
  of them settle.
- A session in memory always has its row, a login is recorded with its device when
  its client heard of it (and never with another), and
  `connecting` ends (or one of three named ways leads out of the attempt): at every
  moment of it somebody is at work who will set the status.
- Two batches never fetch one media, a stored media has a file, tries end, and the
  media of a history sync are tried, unless the loop was cut off or its last batches
  met only medias held by a request.
- Syncs post nothing twice, three of them without error bring everything each has
  seen, dated; replies refer to what was quoted; a sync shows what is essential
  of each kind of message, and ends also when its context does.
- A chat's contact is looked up by one call at a time; calls end although one may
  wait for the lock it holds itself (the wait is bounded); merges never give a chat
  someone else's contact.
- An answer of the API is true of the message it is about; cached group lists
  contain what the client was told; copies of the privacy settings agree, or are
  mended by the next copy of a client that remembers rightly; no cleanup lets a client
  exceed its rate.
- Tickets, memberships, messages, chats and webhooks keep what their properties in
  section 1.1 say.

Bounds and why they are enough:

- `MCQueue`: two messages, batches of two: the loop relates copies pairwise at most
  (two copies of one message, or one behind another in a batch). `MaxRetries` 2
  and 3 give a first, a middle and a last delivery. Two restarts: one to lose a
  last delivery, one more to interrupt the recovery. The theorems remove these
  bounds for safety. `Updates`: an album of two (so that deleting the post of one
  revokes the other), two goroutines, two revocations, one history sync, one
  failure; in `chat`, two reactions, one revocation, one call of the API.
- `MCCWToWA`: two webhooks in one chat (marks are compared per chat, keys per
  message); the album has two attachments of the two kinds that differ, so that
  "first", "last" and "text after attachments" all happen; three deliveries. A
  session is lost once (`SessionFlaps`). `inboxes`: one session with two names,
  three inboxes of which one exists, a setter that may name any of them, a bridged
  message and a command at once, two sets, and one deletion, loss and failure each.
- `MCWAToCW`: one incoming and one outgoing message with two events in all; media,
  because uploads are the weaker path (no WAID, a filename post, the 404 not
  looked at). One deleted conversation: there is then a new one to be posted to. The
  revocation has an instance without fairness, since the tableau of the liveness
  property is what takes time.
- `MCSession`: one object with create, connect and restart, two pairings (an unheard
  login needs one of them, a device replaced the other) and one crash; one with all six
  calls, one pairing, one loss and one crash; two objects with two callers where only who holds the lock matters.
- `MCMedia`: two medias, batches of one, so that a batch can be stale; two tries,
  and two empty batches (one in `overlap`) to end the loop, so that in `process` two
  batches that meet the request's media end it; two events and one answer in `loop`,
  one event, request and fault in `process`; in `overlap` two events and one request,
  answer and crash each.
- `MCChatSync`: three messages in two chats (two texts and a media), two workers,
  three syncs, one crash; with a bridge or a reset, two messages and batches of two.
  `shown`: 3 first messages and all kinds for the second.
- `MCCalls`: four calls by two callers, two deleted contacts, one expiry; in `merge` three
  calls, the two numbers of one person and a group; any route
  beside one that ends the session or its connection, two changes of the
  connection; three requests about groups; two settings or two updates, two
  connections, one failure, phone change and crash each; a burst of three, one
  token a tick, a bucket idle for two, six ticks.
- `MCDesk`: two tickets of one contact, one user and queue, two clients; two admins,
  two queues; three messages, pages of one, two events, one failure; two webhook
  events, three tries, two outages, a refusal, two changes, a crash.

`CHECK_DEADLOCK FALSE` is set in every run because its environment is bounded and
then has nothing left to do: requests all sent, events handled, a process that may
not be restarted again.

Conditions under which properties are stated, rather than assumed to hold always:

- `SentOnceInOrder` and `NoEcho`: one life of the process and sends that end within
  two minutes. Keys and marks are neither stored nor longer lived.
- `OutgoingPostedOnce`: before the first crash, with references that are recorded.
  It and `OneCallPerMessage` presume calls that end within five minutes and an
  inbox id that is known: while it is being found out two calls of one message
  may hold different keys.
- `QueuedIsBridgedOrDead`: without a shutdown, which cancels the loop's context;
  a configuration that cannot be read then counts as success. The dead letter has
  the same weakness, which is why `NothingLost` speaks of the time before a stop.
- `AnswersComeBack`: of inboxes that `initInbox` recorded for the session at least
  once, or that no request named.
- `RevokedIsGone`: of revocations the bridge went through with, in direct processing,
  where whatsmeow's order of events gives it, until a crash; behind the queue a
  revocation may overtake its message. With an unreadable or disabled configuration, an
  unreadable row or a failing Chatwoot the code returns and leaves the message shown.
- `DeletionsMeet`: nothing failed, nothing was late, the API deleted nothing.
- `LoggedInIsRecorded`: no call under way, no failed statement, no logout begun; a
  client with an event handler. `Restart` adds none, so a session that is created,
  restarted and paired by phone stays without a device in its row until it is paired
  again; of such a login the property says that the row has no other device.
- `HistoryMediaTried`: unless the media has no key, the loop is cut off (deadline, lost
  client), or it ends because its last batches only met medias held by a
  request's batch or could not read them.
- `TriesBounded`: `Tries`, one more for each other batch that had read the row
  before, one more for each try the database did not record or a crash cut off.
- `PostedOnce`: one sync at a time, no bridge on the same message, and Chatwoot's
  database answers which messages it has. `DatedAtRest`: no crash, no lost answer of
  an upload, the last statement done.
- `GroupListFresh`: unless the list was fetched before the change and stored after.
- `PrivacyAgrees`: unless a change failed, two overlapped, or a setting was changed
  elsewhere; the next copy mends it if the client remembers rightly. When the client
  missed a change or the answer to one, every copy of this process is as wrong.
- `ReceiptsAreKept`: of a message that was read, the time it was read is kept; its
  status a late delivered receipt sets back (`UpdateStatus`).
- `ReadWasSent`: chats of two; in a group the code sends the receipt to the part of the
  chat's identifier before the `@`, which is nobody's number.
- `TakenIsReceived`: up to two outages, no refusal, no stop.

Every property of a passing run has a mutant: a small wrong version of one
mapped definition (`...Always`, `...Skipped`, `...KeepsKey` and so on, defined
just before the right one), under which TLC finds the property violated.

## 4. Fairness

Stated in the MC modules for the instance whose liveness is checked:

| run | fair | because |
|---|---|---|
| `MCQueue`, `sound` | weak: `Start`, `LoopReturns`, `Exit`, `Fetch`, `FetchExpires`, `Take`, `Handle`, `AckExpires`; strong: `Deliver` | Go runs a runnable goroutine; handlers end by their timeouts; a supervisor restarts the process; the server's timers fire; a fetch window opens and closes again and again, and a message that is ready is delivered in one of them |
| `MCWAToCW`, `queued` | the same of its queue, and weak: the steps of tasks and their return | calls to Chatwoot end after 30 seconds (`client/client.go:36`), those to WhatsApp by whatsmeow's own timeout |
| `MCSession`, `life` | weak: steps of calls, QR goroutine, handlers; the library's timeout of codes, reconnection, and the server's answer to a login | goroutines run; whatsmeow lets codes run out and reconnects by itself; a login is answered one way or another |
| `MCMedia`, `loop` and `process` | weak: steps of the loop, its batches, downloads; strong: `LoopIsCutOff` | network calls have timeouts; the loop's deadline of ten minutes passes although it is looked at only between batches |
| `MCChatSync`, `alone` | weak: steps of a sync | goroutines run, statements and uploads end |
| `MCCalls`, `lock` | weak: steps of a call | the wait for a lock is bounded by fifty polls |
| `MCDesk`, `webhook` | weak: tries of an event | each has a timeout and a bounded number of tries |

There is none for publishers, webhooks, requests, agents, phones, crashes, lost
acknowledgements or failures, which may or may not happen.

## 5. What is proved

Each module of proofs starts from the named assumption of the module it is about
(limits are numbers, special values are not members of the sets, the steps of a handler
come in order) and holds for any sets of messages, sessions, callers and so on, and
for any bounds.

| module | theorem | says |
|---|---|---|
| `QueueProofs` | `TypeCorrect` | `Spec => []TypeOK`; the server's count never passes `MaxRetries` |
| | `BookkeepingHolds` | `Spec => []CopiesAccounted` |
| | `OneCall` | one handler call per delivery |
| | `RemovedIsSettled` | a message leaves the stream only when settled |
| | `NothingStranded` | without restart and broker fault the loop holds the last copy of every waiting message |
| | `Implements` | `Spec => Promise!Spec`, the refinement of `Delivery` |
| | `AcceptedIsKept` | `Spec => []NothingLost`: until a stop, nothing accepted is lost or stuck |
| `CWToWAProofs` | `RunsTheQueue` | `Spec => Q!Spec`: the bridge implements its queue, whose theorems so hold inside it |
| | `OutcomesHold` | an error is reported only when nothing was sent, a row kept only when something was |
| | `NothingEchoes` | a message is marked while it is sent, and nothing sent comes back to Chatwoot |
| | `OncePerPart` | the contact gets each part once, in order |
| | `AnswersReturn` | answers come back to the session, but in inboxes that only requests named (`Inboxes`) |
| `WAToCWProofs` | `RunsTheQueue` | the same of this bridge |
| | `RefsAreOwn` | a row refers to its own Chatwoot message only |
| | `KeysHaveCalls`, `OneCall` | no key is left behind; one call at a time processes a message |
| | `PostedOnce` | a message of the user appears once, however its event is repeated |
| | `BridgedOrDead` | what the queue is done with was posted and reported, or is a dead letter |
| | `RevokedGoes` | without the queue, what was revoked, and the revocation gone through with, is gone |
| `UpdatesProofs` | `RowsMeet` | `Spec => []RowsAreTrue`: a dropped row's message is gone on both sides; undisturbed, deletions and reactions agree at rest |
| | `GoneOnBothSides` | the first half alone |
| | `RowsReferToTheirOwn` | a row refers to a post of its own message (`ChatSync`) |
| | `SyncPostsOnce` | one sync at a time posts no message twice, whatever fails |
| | `ThreeSyncsImport` | three syncs without error import what they saw |
| | `HistoryIsDated` | at rest every post has its message's date |
| | `SyncTypesHold` | `Spec => []TypeOK` |
| `CallsProofs` | `OwnContacts`, `LocksDoTheirWork` | a chat's contact is of its person; one look-up at a time per chat, no lock without its call (`Contacts`) |
| | `CopiesAgree` | the settings row agrees with the account when its copies are alone and what the client remembers is right (`Settings`) |
| | `AnswersAreTrue` | an answer tells what became of the message, its event comes once and after it (`Requests`) |
| | `GroupsAreFresh` | the cached list shows the changes clients were told of |
| | `RequestsAreTyped` | `RequestsSpec => []RequestsTypeOK` |
| | `RateIsKept` | the rate limiter keeps the rate in every stretch of time (`Limiter`) |
| `SessionProofs` | `TypesHold` | `Spec => []TypeOK` |
| | `SessionsHaveRows` | a session in memory has its row |
| | `LoginsAreRecorded` | at rest, a login that was heard is recorded with its device; one nobody heard has its own device in the row or none |
| | `ConnectingNeverForgotten` | a `connecting` session has a call, QR loop, event or login under way that will set its status |
| `MediaProofs` | `BatchesExclude`, `StoredRowsHaveFiles` | no two batches on one media; a stored media has its file |
| | `TriesAreBounded` | tries of a media are bounded |
| | `ContentIsRight` | `ContentSpec => []ContentRight`: what is posted shows what WhatsApp showed, replies are kept and answer what they quote (`Content`) |
| | `MessagesRecover`, `RepliesAreRight` | its two halves alone |
| | `ContentTyped` | `ContentSpec => []ContentTypeOK` |
| `TicketsProofs` | `DeletedTicketsStay`, `AgreeingRows` | a deleted ticket stays so; rows agree |
| | `ReadIsReported`, `ReceiptsStay` | what an agent read was reported; what receipts told is kept, a chat's time only grows (`Inbox`) |

Some theorems of the bridges and of `ChatSync` have a hypothesis on the constants, which
says for what deployment or stretch of time the code keeps the promise. Each is satisfied by the
instance in which a run checks the same property, so none is empty:

| hypothesis | says | theorem | instance |
|---|---|---|---|
| `Calm` | sends end within two minutes, publishes tell what they did, one webhook a message | `NothingEchoes` | `MCCWToWA`, `calm` |
| `Steady` | `Calm`, and one life of the process: keys and marks are in memory only | `OncePerPart` | `calm` |
| `InboxReady`, `~Slow` | the inbox id is known, calls end within the life of a key | `OneCall` | `MCWAToCW`, `copies`, `direct` |
| `Faultless` | these two, no failing call or row, no revocation of the user's own | `PostedOnce` | `copies` |
| `Dependable` | the configuration can be read, the broker works, one event a message | `BridgedOrDead` | `queued` |
| `InTurn` | no queue, events only from whatsmeow's dispatcher, no failing call or row (the configuration may be unreadable: a message is then not posted, a revocation left) | `RevokedGoes` | `direct` |
| `Alone` | one sync at a time, no live messages beside it, the look-up of what Chatwoot has answers | `SyncPostsOnce` | `MCChatSync`, `alone` |
| one caller | one sync at a time | `ThreeSyncsImport` | `alone` |
| `"answer"`, `"dates"` not in `Faults` | no upload's answer is lost, the last statement works | `HistoryIsDated` | `wiped` |

The arguments:

- **Queue.** The inductive invariant is `TypeOK /\ CopiesAccounted`. One call per
  delivery is not inductive by itself: `Take` calls a handler for the head of `buf`,
  so one must know that this copy's number is not among the attempts, that no two
  places of `buf` hold the same copy, and that `Deliver` appends a number larger
  than any earlier. `RemovedOnlyWhenSettled` needs that the copy in hand is of a
  counted attempt, hence giving up on it means that the last delivery was
  attempted. For the refinement, `owed` is the set of waiting messages, `budget`
  what is left of the deliveries; `Deliver` is `Dispatch`, `HandlerSucceeds` is
  `Succeed`, `HandlerGivesUp` is `GiveUp`, `AgeOut` is `Forget`, a publish that
  stores is `Accept`, and everything else stutters. `NothingLost` needs that, until
  the process is told to stop, copies are only with a loop that is on, so that a dead
  letter is published under a context that still lives.
- **Both bridges.** Every step of a bridge is a step of its queue or leaves it alone,
  so `Spec => Q!Spec`, and what `QueueProofs` shows holds of the queue inside: the
  copy in hand is of a counted delivery, and a removed message was settled.
- **CWToWA.** `OutcomesTrue` needs what a running task has already sent: until its
  first part is out the task has no id, and a row is saved from an id only.
  Without repeated webhooks a message has one route (a call, a job, or neither),
  so a mark is set and taken back by the same task, and every echo of a send finds it.
  For `SentOnceInOrder` the parts of a message that were sent are
  those before the one its task stands at; the key, which no path gives back, and
  the queue's account of its deliveries exclude a second task.
- **WAToCW.** A task between `TryAcquire` and its end holds its key, and a key is of a
  running task; with a known inbox and calls in time the key is of the message, so
  one call at a time processes it (`KeyHasCall`, `OneCallPerMessage`). `PostedOnce` adds:
  a row that names no post, while nobody processes the message, means that there is
  none (`PostsKnown`, `PosterAlone`). `BridgedOrDead`: until the process is told to stop
  the loop's context lives (`Running`), and then a call that reports success has
  posted or found the post and told the webhook (`DoneIsBridged`); the rest is the
  queue's `NothingLost`. `RevokedGoes`: whatsmeow's events are handled in turn, so at
  most one call runs, and a revocation that is gone through with finds what its message
  has left (`TurnInv`).
- **Contacts.** A call in one of the steps that look a contact up holds the lock of
  its chat, so two of them for one chat are the same call. The retry keeps the lock
  it runs under, and only the holder returns it. For `UsesOwnContact` every contact
  has numbers of one person only; caches and calls refer to contacts of the person
  of their chat, so an update gives a contact nothing but another number of its own
  person, and a merge joins two contacts of one person.
- **Limiter.** What a client has got plus the tokens left is at most what the window
  allows. Removing a bucket keeps this because an idle bucket holds at least what
  its idle time has filled, which by the assumption is all of `Burst`.
- **Settings.** While one copy runs alone what it has read is the account's, from
  WhatsApp or from a memory that is not `stale` (`AloneIsTrue`), so the row it writes is; afterwards a change that succeeds changes
  account and row in this order, and the row lags by exactly that change
  (`RowFollows`).
- **Inboxes.** An inbox belongs to the session its name is configured for; what is
  recorded for a session is an inbox of its own (`PastFits`), and configurations, calls
  and commands refer to a recorded one or to one a request named. A call points only
  the webhook of an inbox it found under its session's name, so it points it where the
  others want it.
- **Updates.** A revocation that waits or is handled is of a message revoked at
  WhatsApp; a webhook of a deletion and the work of a goroutine are about a post
  that is gone, and stays gone; rows refer to their own post. Whoever drops a
  row therefore has both. For the agreement at rest the events of a message come in
  the order things happened, its own first, so the last reaction that waits is the
  one given; a row that refers to a deleted post has its webhook, its list or its drop
  under way; and a revoked message has its event waiting or in hand, is marked, or is
  about to lose its row. All this is conditional on `Undisturbed`, as the property is.
- **ChatSync.** The base is what the numbers a sync holds stand for: the pairs it read
  back are of posts of that very message, its pool's posts exist, its jobs are of
  messages without one (`SyncBase`). `DatedAtRest`: an undated post is in the list of a pool
  that has not reached the last statement, or of nobody. `SyncPostsOnce` needs that what
  a sync still has to insert or upload Chatwoot has not got, and that a batch, the
  beginning of a sorted list, has each of its messages once (`SortedLists`,
  `BatchBegins`). For
  `ThreeSyncsImport` each sync without error carries a message one stage on: after the
  first, contact and contact inbox of its chat exist; after the second, its
  conversation; after the third, the post (`Progress`). A running sync has at each step
  what it needs to make its stage true at its end (`Carried`), and a reset, which alone
  takes a stage back, starts the count anew.
- **Media.** A batch that downloads holds its media's guard, and one that finishes
  frees only its own. A row becomes stored only in a step that puts its file in the
  bucket, from which nothing is removed. The row counts the tries that were
  recorded; a batch that waits read its row while tries were left, and when two of
  them wait one more is left for each, which bounds what they can do after the last.
- **Content.** What a post shows follows from its message, from who made it and from
  the row (`PostRight`): the bridge's from the event, with its file or the placeholder, a
  synchronisation's from the row, which is either form of the same message
  (`ContentShape`). By cases on the 23 kinds of message, both show what is essential
  of it. What a synchronisation counts as brought has a post or nothing that
  could be shown (`SyncKnows`). For replies: references and replies point at posts
  of the message meant, and a post of a synchronisation that quotes one before it is
  a reply, unless the step that resolves the replies is still to come (`KeptLater`), for
  which the posts' order matters: a batch appends the quoted message before the one
  that quotes it. The assumption says what a message of WhatsApp is, any kind with
  any parts, and that the first of two has nothing to quote; the run takes 3 and all
  kinds, the theorem any.
- **Session.** Whoever is about to unlink, forget or drop the session holds the
  service's lock; when the row is dropped the map is empty; a creation needs the
  lock; while the process is down nothing runs. A login: as long as no logout,
  deletion or unlinking began and no statement failed, one object exists at a time,
  everything about to write a JID holds the device the client has, and a login is
  recorded, being recorded, or its event waits. For a login nobody heard: a row with a
  JID has that of a device that exists, and while the session is in memory its own
  (`RowOwn`); every step that writes a JID or changes the device keeps that.
  A connecting session
  (`ConnectingNeverForgotten`): calls and QR loops refer to objects this process made
  (`Numbered`), the flag is set before a handler is registered and nobody dials
  before (`FlagSet`), so a connecting session has its handler or the call that adds
  it (`Heard`, `Flagged`); then the library's answer, loss or unlinking reaches a
  handler, and every other step that ends one attendant leaves another or sets the
  status. This is the safety half of `ConnectingResolves`; that the attendant gets
  to the end is fairness, and only model-checked.
- **Requests.** A request is at a place of a well-formed route and goes on after an error
  only to a `finally` (`Routed`). From the place follows what it sent (`Truthful`): while it
  has no answer it sent exactly if its `send` is behind it, told exactly if its `show` is, and
  while nobody ended the session, a request past its `send` still finds it paired, so the
  look-up before the event cannot fail. For the list: a request past the step that
  drops it and not yet answered (`Settled`) has made its change before the list that is
  there now was fetched.
- **Tickets.** A deleted ticket is matched by no later write, whatever was read
  before; a committing transaction refers to users and queues that exist, which the
  foreign keys' locks keep in place until it ends.
- **Inbox.** The messages an agent's answer marks are of one chat, and when it comes to
  flag them their receipts, which nobody takes back, were sent. A statement that inserts
  rows keeps status and reading of those that are there, a row with status read has the
  time it was read too (`Marked`), which no receipt clears, and the latest time of a finite set of messages is one of
  theirs, so a chat's time grows.

Lemmas about data that several proofs need are stated once at the head of the module
that needs them: a set of numbers has a least one and numbers can be proved about by
induction (`Least`, `Induction`, from the well-foundedness of finite sets under
inclusion, since the library's induction theorems take an operator as a parameter,
which the provers cannot instantiate), and the enumeration of a finite set as a list
(`Lists` in `MediaProofs`), sorted in `UpdatesProofs` (`SortedLists`), where a batch of
it is again a piece without repetition.

A leaf whose proof needs more than a quarter of a prover's usual time names its prover
and allows it a minute (`ZenonT(60)`, `SMTT(60)`): with every allowance cut to a quarter
(`tlapm --stretch 0.25`) all eight modules are still proved, so a slower machine
proves them too.

Only model-checked: all liveness properties and the conditions that need `ENABLED`
(out of the prover's reach), and the invariants of `Webhook`. `MCCopiesAndRevocations`
and `MCFaultyOutcomes` speak of second instances; the modules' properties
in them are proved (`PostedOnce`, `OneCall`, `KeysHaveCalls`, `RevokedGoes`,
`OutcomesHold`).

## 6. Disagreements found

| run | what the code does | what it says |
|---|---|---|
| `MCCWToWALost` | `queue_handlers.go:212` keeps the key of a send that failed; the retry is acknowledged as a duplicate, unsent and without dead letter | `.env.example:33` "for reliable message delivery" |
| `MCWAToCWSentBack` | `messages.go:446` uploads media of the phone without a source id and records the reference afterwards; the webhook in between counts as an agent's message and is sent again | `handler.go:277` "skipped - from whatsapp" |
| `MCMediaForced` | `media.go:373` runs a forced retry under the context of the request it has just answered: the download is cancelled, so is the statement that would count it as an attempt (`service/media.go:135`), and the phone is not asked | `media.go:326` "Force retry downloading media from WhatsApp (sends retry request if needed)" |
| `MCChatSyncImports` | `sync/repository.go:1123`: the parts of the one statement see one snapshot, so a chat new to Chatwoot gets its conversation only in a later sync, and the first ones leave its messages out | `handler.go:634` "By default imports ALL messages." |

Met while modelling `Content`, stated there as what each path shows and not as
violations, since nothing promises more: a sync drops the captions of documents
and further phones, e-mails and organisations of cards; a reply to a media
imported by the same sync is not linked (media follow the texts); a placeholder
for a download that failed carries the source id, so no sync brings the file;
a sync does not look at the chats the bridge ignores; attachments the bridge posts
carry no source id, so a sync uploads them again; an edit changes nothing in
Chatwoot.

## 7. What is not modelled

- Two hazards have no property because the code makes no attempt at them: without
  the queue a second webhook of one message is sent a second time
  (`handler.go:290` asks for a row that is saved after the send), and a crash between
  a post and its reference posts the message again (`messages.go:171`). The models
  contain both behaviours; the properties are stated around them.
- Admin publisher (`admin/publisher.go`: fire and forget) and quick replies (single statements nobody else reads): no state to get
  wrong. Configuration, logging, object storage and database set-up: read at start
  or pure input and output. The web client
  and the generated `docs/` of the API.
- Messages: edits and polls in the rows; names, pictures, formatting, quoting text.
- Bridge to WhatsApp: what a message says; typing and read states.
- Settings other than privacy, which only the row knows; the loops that keep a
  session shown as online, which change nothing here.
- HTTP API: parsing, validation, formatting of answers; routes that reach no
  session and only read.
- The semaphore, which only bounds concurrent downloads.
- NATS, PostgreSQL, whatsmeow, WhatsApp and Chatwoot beyond what the code relies
  on: they are the external actions of the modules.

## 8. Plan

What would add most next:

1. `Contacts`: compose it with `WAToCW`'s `FindConversation` as the refinement of an
   atomic look-up.
2. Models: edits and polls in the rows; the process's start order across all components.
