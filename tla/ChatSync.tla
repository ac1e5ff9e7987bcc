------------------------------- MODULE ChatSync -------------------------------
(***************************************************************************)
(* The synchronisation of stored messages with Chatwoot's database         *)
(* (internal/integrations/chatwoot/sync): an API request starts a          *)
(* goroutine that reads the rows, asks Chatwoot which it has, creates      *)
(* contacts and conversations with one large statement, inserts texts in   *)
(* batches and uploads media through a pool of workers.  Meanwhile the     *)
(* bridge posts new messages, the reset endpoint deletes, and the process  *)
(* may die.                                                                *)
(***************************************************************************)
EXTENDS Naturals, Sequences, FiniteSets, FiniteSetsExt

CONSTANTS
  N,           (* number of messages, numbered in the order of their dates *)
  ChatOf,      (* the chat of each                                         *)
  Media,       (* those with a stored media                                *)
  Live,        (* those the bridge posts when they arrive                  *)
  Agenda,      (* chats among the contacts of the phone                    *)
  Callers,     (* API requests that start a sync                           *)
  BatchSize,   (* texts of one insert: 4000                                *)
  Workers,     (* media workers: 3                                         *)
  Faults,      (* the steps that may fail                                  *)
  MaxRuns,     (* bound on syncs                                           *)
  MaxResets,   (* bound on resets                                          *)
  MaxCrashes   (* bound on crashes                                         *)

Message == 1 .. N
Chats == {ChatOf[m] : m \in Message}
SyncTypes == {"all", "contacts", "messages"}
FaultKinds == {"inbox", "user", "optimized", "fallback", "lookup", "insert", "ids",
               "upload", "answer", "dates"}

ASSUME ChatSyncAssumption ==
  /\ N \in Nat /\ Media \subseteq Message /\ Live \subseteq Message
  /\ Agenda \subseteq Chats
  /\ BatchSize \in Nat \ {0} /\ Workers \in Nat \ {0}
  /\ Faults \subseteq FaultKinds
  /\ {MaxRuns, MaxResets, MaxCrashes} \subseteq Nat

VARIABLES
  rows,      (* messages with a row                                        *)
  ref,       (* of each message: the post its row refers to, or 0          *)
  live,      (* the bridge's step for each message, and its post           *)
  contacts,  (* Chatwoot: chats with a contact                             *)
  inboxes,   (* Chatwoot: those with a contact inbox                       *)
  conv,      (* Chatwoot: the conversation of each chat, or 0              *)
  era,       (* the number the next conversations get                      *)
  posts,     (* Chatwoot: all posts made: message and conversation         *)
  kept,      (* Chatwoot: those not deleted                                *)
  dated,     (* Chatwoot: those with the date of their message             *)
  status,    (* syncStatusMap                                              *)
  task,      (* of each request: the sync it started                       *)
  reset,     (* the statement the reset endpoint runs next                 *)
  spent,     (* syncs, resets, crashes so far                              *)
  rounds     (* history: good syncs that saw the row since a reset         *)

chatwoot == <<contacts, inboxes, conv, era, posts, kept, dated>>
vars == <<rows, ref, live, chatwoot, status, task, reset, spent, rounds>>

Off == [pc |-> "off", type |-> "all", read |-> {}, wanted |-> {}, chats |-> {},
        batch |-> {}, ids |-> {}, jobs |-> {}, busy |-> {}, done |-> {},
        sound |-> TRUE]
Budget == [syncs |-> MaxRuns, resets |-> MaxResets, crashes |-> MaxCrashes]
PostIds == 1 .. Len(posts)

TypeOK ==
  /\ rows \subseteq Message
  /\ ref \in [Message -> {0} \cup PostIds]
  /\ live \in [Message -> [pc : {"none", "post", "ref"}, post : {0} \cup PostIds]]
  /\ contacts \subseteq Chats /\ inboxes \subseteq Chats
  /\ conv \in [Chats -> 0 .. era] /\ era \in 1 .. (MaxResets + 1)
  /\ \A p \in PostIds : posts[p] \in [msg : Message, conv : 1 .. era]
  /\ kept \subseteq PostIds /\ dated \subseteq PostIds
  /\ status \in {"idle", "running", "completed", "failed"}
  /\ task \in [Callers -> [pc : {"off", "set", "inbox", "contacts", "read", "lookup",
                                 "create", "upsert", "link", "converse", "query",
                                 "text", "ids", "record", "media", "dates", "done",
                                 "fail"},
                           type : SyncTypes, read : SUBSET Message, wanted : SUBSET Message,
                           chats : SUBSET (Chats \X (1 .. era)),
                           batch : SUBSET Message, ids : SUBSET (Message \X PostIds),
                           jobs : SUBSET Message, busy : SUBSET Message,
                           done : SUBSET PostIds, sound : BOOLEAN]]
  /\ reset \in {"off", "conversations", "links", "contacts"}
  /\ \A k \in DOMAIN Budget : spent[k] \in 0 .. Budget[k]
  /\ rounds \in [Message -> Nat]

Init ==
  /\ rows = {} /\ ref = [m \in Message |-> 0]
  /\ live = [m \in Message |-> [pc |-> "none", post |-> 0]]
  /\ contacts = {} /\ inboxes = {} /\ conv = [c \in Chats |-> 0] /\ era = 1
  /\ posts = <<>> /\ kept = {} /\ dated = {}
  /\ status = "idle"
  /\ task = [c \in Callers |-> Off]
  /\ reset = "off"
  /\ spent = [k \in DOMAIN Budget |-> 0]
  /\ rounds = [m \in Message |-> 0]

Spends(k) == spent[k] < Budget[k] /\ spent' = [spent EXCEPT ![k] = @ + 1]

------------------------------------------------------------------------------
(* Rows, and the bridge beside the sync (in detail in WAToCW).             *)

LastPost == Len(posts)

(* A post in the conversation of the message's chat.                       *)
PostTo(m, n) ==
  /\ posts' = Append(posts, [msg |-> m, conv |-> n])
  /\ kept' = kept \cup {LastPost + 1}

SaveHistory(m) ==
  /\ m \notin rows /\ m \notin Live
  /\ rows' = rows \cup {m}
  /\ UNCHANGED <<ref, live, chatwoot, status, task, reset, spent, rounds>>

Arrive(m) ==
  /\ m \notin rows /\ m \in Live
  /\ rows' = rows \cup {m}
  /\ live' = [live EXCEPT ![m].pc = "post"]
  /\ UNCHANGED <<ref, chatwoot, status, task, reset, spent, rounds>>

BridgePosts(m) ==
  /\ live[m].pc = "post"
  /\ LET c == ChatOf[m] IN
       /\ contacts' = contacts \cup {c} /\ inboxes' = inboxes \cup {c}
       /\ conv' = [conv EXCEPT ![c] = IF @ = 0 THEN era ELSE @]
       /\ PostTo(m, conv'[c])
  /\ dated' = dated \cup {LastPost + 1}
  /\ live' = [live EXCEPT ![m] = [pc |-> "ref", post |-> LastPost + 1]]
  /\ UNCHANGED <<rows, ref, era, status, task, reset, spent, rounds>>

BridgeRecords(m) ==
  /\ live[m].pc = "ref"
  /\ ref' = [ref EXCEPT ![m] = live[m].post]
  /\ live' = [live EXCEPT ![m].pc = "none"]
  /\ UNCHANGED <<rows, chatwoot, status, task, reset, spent, rounds>>

------------------------------------------------------------------------------
(* StartSyncAsync: the check and the set are two critical sections.        *)

GoesTo(c, pc) == task' = [task EXCEPT ![c].pc = pc]
At(c, pc) == task[c].pc = pc
Fault(k) == k \in Faults
Fails(c, k) == Fault(k) /\ task' = [task EXCEPT ![c].pc = "fail", ![c].sound = FALSE]

Check(c) ==
  /\ At(c, "off") /\ status # "running"
  /\ Spends("syncs")
  /\ \E t \in SyncTypes : task' = [task EXCEPT ![c] = [Off EXCEPT !.pc = "set", !.type = t]]
  /\ UNCHANGED <<rows, ref, live, chatwoot, status, reset, rounds>>

Start(c) ==
  /\ At(c, "set")
  /\ status' = "running"
  /\ GoesTo(c, CASE task[c].type = "all" -> "inbox"
               [] task[c].type = "contacts" -> "contacts"
               [] OTHER -> "read")
  /\ UNCHANGED <<rows, ref, live, chatwoot, reset, spent, rounds>>

(* ValidateInbox of SyncAll.                                               *)
ValidateInbox(c) ==
  /\ At(c, "inbox")
  /\ GoesTo(c, "contacts") \/ Fails(c, "inbox")
  /\ UNCHANGED <<rows, ref, live, chatwoot, status, reset, spent, rounds>>

(* ContactSyncer.Sync: the contacts of the phone get contacts in Chatwoot, *)
(* without inboxes; a batch that fails is counted and skipped.             *)
SyncContacts(c) ==
  /\ At(c, "contacts")
  /\ contacts' = contacts \cup Agenda \/ (Fault("insert") /\ UNCHANGED contacts)
  /\ GoesTo(c, IF task[c].type = "all" THEN "read" ELSE "done")
  /\ UNCHANGED <<rows, ref, live, inboxes, conv, era, posts, kept, dated, status,
                 reset, spent, rounds>>

(* MessageSyncer.Sync: the user of the token, then all rows.  SyncAll only *)
(* logs an error of this part and completes.                               *)
ReadRows(c) ==
  /\ At(c, "read")
  /\ \/ task' = [task EXCEPT ![c].pc = "lookup", ![c].read = rows]
     \/ IF task[c].type = "all"
        THEN Fault("user") /\ task' = [task EXCEPT ![c].pc = "done", ![c].sound = FALSE]
        ELSE Fails(c, "user")
  /\ UNCHANGED <<rows, ref, live, chatwoot, status, reset, spent, rounds>>

(* Mutant: the rows' references say what Chatwoot has.                     *)
KnownByRef == {m \in Message : ref[m] # 0}

(* GetExistingSourceIDs: a post of the account, in whatever conversation.  *)
Known == {posts[p].msg : p \in kept}

(* filterMessages; an error of the look-up means that nothing is known.    *)
Filter(c) ==
  /\ At(c, "lookup")
  /\ \E known \in {Known} \cup (IF Fault("lookup") THEN {{}} ELSE {}) :
       LET wanted == task[c].read \ known IN
         task' = [task EXCEPT ![c].wanted = wanted,
                              ![c].pc = IF wanted = {} THEN "done" ELSE "create"]
  /\ UNCHANGED <<rows, ref, live, chatwoot, status, reset, spent, rounds>>

(* Mutant: only chats whose contact Chatwoot has already.                  *)
NeededAgain(c) == {ChatOf[m] : m \in task[c].wanted} \cap contacts

Needed(c) == {ChatOf[m] : m \in task[c].wanted}
Mapped(chats) == {<<x, conv[x]>> : x \in {y \in chats : y \in contacts /\ conv[y] # 0}}

(* CreateContactsAndConversationsOptimized: one statement, whose parts all *)
(* read the tables as they were before it, and see of each other only what *)
(* is RETURNING.  A new contact gets its inbox, an old inbox gets its      *)
(* conversation, and the mapping holds the old conversations.              *)
CreateOptimized(c) ==
  /\ At(c, "create")
  /\ \/ /\ contacts' = contacts \cup Needed(c)
        /\ inboxes' = inboxes \cup Needed(c)
        /\ conv' = [x \in Chats |-> IF x \in Needed(c) \cap inboxes /\ conv[x] = 0
                                    THEN era ELSE conv[x]]
        /\ task' = [task EXCEPT ![c].pc = "text", ![c].chats = Mapped(Needed(c))]
     \/ Fault("optimized") /\ GoesTo(c, "upsert") /\ UNCHANGED <<contacts, inboxes, conv>>
  /\ UNCHANGED <<rows, ref, live, era, posts, kept, dated, status, reset, spent, rounds>>

(* CreateContactsAndConversations, its fallback: four statements.          *)
MessagesFail(c) ==
  /\ Fault("fallback")
  /\ task' = [task EXCEPT ![c].pc = IF task[c].type = "all" THEN "done" ELSE "fail",
                          ![c].sound = FALSE]

UpsertContacts(c) ==
  /\ At(c, "upsert")
  /\ \/ contacts' = contacts \cup Needed(c) /\ GoesTo(c, "link")
     \/ MessagesFail(c) /\ UNCHANGED contacts
  /\ UNCHANGED <<rows, ref, live, inboxes, conv, era, posts, kept, dated, status,
                 reset, spent, rounds>>

CreateInboxes(c) ==
  /\ At(c, "link")
  /\ \/ inboxes' = inboxes \cup (Needed(c) \cap contacts) /\ GoesTo(c, "converse")
     \/ MessagesFail(c) /\ UNCHANGED inboxes
  /\ UNCHANGED <<rows, ref, live, contacts, conv, era, posts, kept, dated, status,
                 reset, spent, rounds>>

CreateConversations(c) ==
  /\ At(c, "converse")
  /\ \/ /\ conv' = [x \in Chats |-> IF x \in Needed(c) \cap inboxes /\ conv[x] = 0
                                    THEN era ELSE conv[x]]
        /\ GoesTo(c, "query")
     \/ MessagesFail(c) /\ UNCHANGED conv
  /\ UNCHANGED <<rows, ref, live, contacts, inboxes, era, posts, kept, dated, status,
                 reset, spent, rounds>>

QueryFKs(c) ==
  /\ At(c, "query")
  /\ \/ task' = [task EXCEPT ![c].pc = "text", ![c].chats = Mapped(Needed(c))]
     \/ MessagesFail(c)
  /\ UNCHANGED <<rows, ref, live, chatwoot, status, reset, spent, rounds>>

------------------------------------------------------------------------------
(* Texts: insertTextMessageBatch, in the order of the dates.  Messages of  *)
(* chats without mapping are left out without a count.                     *)

ConvOf(c, m) == (CHOOSE x \in task[c].chats : x[1] = ChatOf[m])[2]
HasConv(c) == {m \in task[c].wanted : \E x \in task[c].chats : x[1] = ChatOf[m]}
Texts(c) == HasConv(c) \ Media

(* The first BatchSize messages of a set, as a sequence.                   *)
Sorted(M) == [i \in 1 .. Cardinality(M) |->
                CHOOSE m \in M : Cardinality({k \in M : k < m}) = i - 1]
NextBatch(M) == SubSeq(Sorted(M), 1, Min({BatchSize, Cardinality(M)}))
SetOf(s) == {s[i] : i \in DOMAIN s}

InsertTexts(c) ==
  /\ At(c, "text") /\ Texts(c) # {}
  /\ LET batch == NextBatch(Texts(c))
         rest == task[c].wanted \ SetOf(batch)
     IN \/ /\ posts' = posts \o [i \in DOMAIN batch |->
                                   [msg |-> batch[i], conv |-> ConvOf(c, batch[i])]]
           /\ kept' = kept \cup (Len(posts) + 1 .. Len(posts'))
           /\ dated' = dated \cup (Len(posts) + 1 .. Len(posts'))
           /\ task' = [task EXCEPT ![c].pc = "ids", ![c].wanted = rest,
                                   ![c].batch = SetOf(batch)]
        \/ /\ Fault("insert")
           /\ task' = [task EXCEPT ![c].wanted = rest, ![c].sound = FALSE]
           /\ UNCHANGED <<posts, kept, dated>>
  /\ UNCHANGED <<rows, ref, live, contacts, inboxes, conv, era, status, reset, spent,
                 rounds>>

(* Mutant: the numbers are looked up by conversation.                      *)
IdsOfConversation(batch) ==
  {x \in batch \X kept : posts[x[2]].conv = conv[ChatOf[x[1]]]}

(* GetInsertedMessageIDs: by source id, every post there is.               *)
Ids(batch) == {x \in batch \X kept : posts[x[2]].msg = x[1]}

LookUpIds(c) ==
  /\ At(c, "ids")
  /\ \/ task' = [task EXCEPT ![c].pc = "record", ![c].ids = Ids(task[c].batch)]
     \/ /\ Fault("ids")
        /\ task' = [task EXCEPT ![c].pc = "text", ![c].batch = {}]
  /\ UNCHANGED <<rows, ref, live, chatwoot, status, reset, spent, rounds>>

(* UpdateCwFields of one row after the other.                              *)
Record(c) ==
  /\ At(c, "record") /\ task[c].ids # {}
  /\ \E x \in task[c].ids :
       /\ \A y \in task[c].ids : x[1] <= y[1]
       /\ ref' = [ref EXCEPT ![x[1]] = x[2]]
       /\ task' = [task EXCEPT ![c].ids = {y \in @ : y[1] # x[1]}]
  /\ UNCHANGED <<rows, live, chatwoot, status, reset, spent, rounds>>

Recorded(c) ==
  /\ At(c, "record") /\ task[c].ids = {}
  /\ task' = [task EXCEPT ![c].pc = "text", ![c].batch = {}]
  /\ UNCHANGED <<rows, ref, live, chatwoot, status, reset, spent, rounds>>

TextsDone(c) ==
  /\ At(c, "text") /\ Texts(c) = {}
  /\ task' = [task EXCEPT ![c].pc = "media", ![c].jobs = HasConv(c)]
  /\ UNCHANGED <<rows, ref, live, chatwoot, status, reset, spent, rounds>>

------------------------------------------------------------------------------
(* Media: MediaWorkerPool.ProcessBatch.                                    *)

TakeJob(c) ==
  /\ At(c, "media")
  /\ task[c].jobs # {} /\ Cardinality(task[c].busy) < Workers
  /\ LET m == Min(task[c].jobs) IN
       task' = [task EXCEPT ![c].jobs = @ \ {m}, ![c].busy = @ \cup {m}]
  /\ UNCHANGED <<rows, ref, live, chatwoot, status, reset, spent, rounds>>

JobDone(c, m, D) ==
  task' = [task EXCEPT ![c].busy = @ \ {m}, ![c].done = @ \cup D,
                       ![c].sound = @ /\ D # {}]

(* processJob: a post with the date of today, refused when its             *)
(* conversation is gone; the answer with its number may get lost.  No      *)
(* reference is recorded.                                                  *)
Upload(c, m) ==
  /\ m \in task[c].busy
  /\ \/ /\ conv[ChatOf[m]] = ConvOf(c, m)
        /\ PostTo(m, ConvOf(c, m))
        /\ JobDone(c, m, {LastPost + 1}) \/ (Fault("answer") /\ JobDone(c, m, {}))
     \/ /\ Fault("upload") \/ conv[ChatOf[m]] # ConvOf(c, m)
        /\ JobDone(c, m, {}) /\ UNCHANGED <<posts, kept>>
  /\ UNCHANGED <<rows, ref, live, contacts, inboxes, conv, era, dated, status, reset,
                 spent, rounds>>

(* Mutant: the pool waits for as many posts as there were jobs.            *)
UploadsDoneAll(c) ==
  /\ At(c, "media") /\ task[c].jobs = {} /\ task[c].busy = {}
  /\ Cardinality(task[c].done) = Cardinality(HasConv(c))
  /\ GoesTo(c, "dates")
  /\ UNCHANGED <<rows, ref, live, chatwoot, status, reset, spent, rounds>>

(* The pool waits for a result of every job, a post or an error.           *)
UploadsDone(c) ==
  /\ At(c, "media") /\ task[c].jobs = {} /\ task[c].busy = {}
  /\ GoesTo(c, "dates")
  /\ UNCHANGED <<rows, ref, live, chatwoot, status, reset, spent, rounds>>

(* UpdateMessageTimestampsBatch, whose error is ignored.                   *)
SetDates(c) ==
  /\ At(c, "dates")
  /\ dated' = dated \cup task[c].done \/ (Fault("dates") /\ UNCHANGED dated)
  /\ GoesTo(c, "done")
  /\ UNCHANGED <<rows, ref, live, contacts, inboxes, conv, era, posts, kept, status,
                 reset, spent, rounds>>

(* The end of runAsyncSync.                                                *)
Finish(c) ==
  /\ task[c].pc \in {"done", "fail"}
  /\ status' = IF task[c].pc = "done" THEN "completed" ELSE "failed"
  /\ rounds' = [m \in Message |-> IF m \in task[c].read /\ task[c].sound
                                  THEN rounds[m] + 1 ELSE rounds[m]]
  /\ task' = [task EXCEPT ![c] = Off]
  /\ UNCHANGED <<rows, ref, live, chatwoot, reset, spent>>

------------------------------------------------------------------------------
(* ResetData: four statements, and nothing that keeps a sync away.  What   *)
(* is in a conversation goes with it.                                      *)

Unsound == [c \in Callers |-> [task[c] EXCEPT !.sound = FALSE]]

ResetMessages ==
  /\ reset = "off"
  /\ Spends("resets")
  /\ kept' = {p \in kept : conv[ChatOf[posts[p].msg]] # posts[p].conv}
  /\ rounds' = [m \in Message |-> 0]
  /\ task' = Unsound
  /\ reset' = "conversations"
  /\ UNCHANGED <<rows, ref, live, contacts, inboxes, conv, era, posts, dated, status>>

ResetConversations ==
  /\ reset = "conversations"
  /\ conv' = [c \in Chats |-> 0]
  /\ era' = era + 1
  /\ task' = Unsound
  /\ rounds' = [m \in Message |-> 0]
  /\ reset' = "links"
  /\ UNCHANGED <<rows, ref, live, contacts, inboxes, posts, kept, dated, status, spent>>

ResetInboxes ==
  /\ reset = "links"
  /\ inboxes' = {}
  /\ task' = Unsound
  /\ rounds' = [m \in Message |-> 0]
  /\ reset' = "contacts"
  /\ UNCHANGED <<rows, ref, live, contacts, conv, era, posts, kept, dated, status, spent>>

ResetContacts ==
  /\ reset = "contacts"
  /\ contacts' = {}
  /\ task' = Unsound
  /\ rounds' = [m \in Message |-> 0]
  /\ reset' = "off"
  /\ UNCHANGED <<rows, ref, live, inboxes, conv, era, posts, kept, dated, status, spent>>

(* The process dies: the syncs, the bridge's calls and the status go.      *)
Crash ==
  /\ Spends("crashes")
  /\ task' = [c \in Callers |-> Off]
  /\ status' = "idle"
  /\ reset' = "off"
  /\ live' = [m \in Message |-> [live[m] EXCEPT !.pc = "none"]]
  /\ UNCHANGED <<rows, ref, chatwoot, rounds>>

------------------------------------------------------------------------------
Create(c) ==
  \/ CreateOptimized(c) \/ UpsertContacts(c) \/ CreateInboxes(c)
  \/ CreateConversations(c) \/ QueryFKs(c)
InsertAll(c) == InsertTexts(c) \/ LookUpIds(c) \/ Record(c) \/ Recorded(c) \/ TextsDone(c)
Pool(c) == TakeJob(c) \/ (\E m \in Media : Upload(c, m)) \/ UploadsDone(c) \/ SetDates(c)
Run(c) ==
  \/ Start(c) \/ ValidateInbox(c) \/ SyncContacts(c) \/ ReadRows(c) \/ Filter(c)
  \/ Create(c) \/ InsertAll(c) \/ Pool(c) \/ Finish(c)
Reset == ResetMessages \/ ResetConversations \/ ResetInboxes \/ ResetContacts
BridgeSteps(m) == SaveHistory(m) \/ Arrive(m) \/ BridgePosts(m) \/ BridgeRecords(m)

Next ==
  \/ \E c \in Callers : Check(c) \/ Run(c)
  \/ \E m \in Message : BridgeSteps(m)
  \/ Reset \/ Crash

Spec == Init /\ [][Next]_vars

(* The goroutine of a sync runs on, and its calls return.                  *)
Fairness == \A c \in Callers : WF_vars(Run(c))
FairSpec == Spec /\ Fairness

------------------------------------------------------------------------------
Posted(m) == m \in Known
CountOf(m) == Cardinality({p \in kept : posts[p].msg = m})

(* However syncs, failures and crashes follow each other, a sync posts no  *)
(* message that Chatwoot already has.  It needs one sync at a time, the    *)
(* answer of GetExistingSourceIDs, and no bridge posting the same message. *)
PostedOnce == \A m \in Message : CountOf(m) <= 1

(* A row refers to a post of its own message, or of one deleted since,     *)
(* also when two syncs and the bridge post it and write the row in turn.   *)
RefIsOwn == \A m \in DOMAIN ref : ref[m] # 0 => posts[ref[m]].msg = m

(* Three syncs without error import every stored message they all saw.     *)
ImportedAfterThree == \A m \in Message : rounds[m] >= 3 => Posted(m)

(* The endpoint's documentation: "Start async synchronization of message   *)
(* history to Chatwoot. By default imports ALL messages."                  *)
ImportsAll == \A m \in Message : rounds[m] >= 1 => Posted(m)

(* When no sync runs, every post has the date of its message, so that      *)
(* history stands above what is new, whichever uploads failed; unless the  *)
(* process died meanwhile, an answer was lost or the last statement failed.*)
DatedAtRest ==
  (\A c \in Callers : task[c].pc = "off") /\ spent.crashes = 0 => kept \subseteq dated

(* A sync that runs ends, or dies with the process.                        *)
SyncEnds == status = "running" ~> status # "running"
==============================================================================
