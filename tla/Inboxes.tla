------------------------------- MODULE Inboxes -------------------------------
(***************************************************************************)
(* The Chatwoot configuration of sessions and the inboxes behind it.  An   *)
(* inbox is looked for by its name, created when there is none, told where *)
(* to send its webhooks, and only then recorded in the configuration: by   *)
(* the request that sets the configuration, and by any call of the bridge  *)
(* that reads a configuration without an inbox, at the same time.  Agents  *)
(* also write commands to a contact that stands for the program.  One      *)
(* account of Chatwoot; the options of an inbox, the texts, and what the   *)
(* bridge posts (WAToCW, Contacts) are left out.                           *)
(***************************************************************************)
EXTENDS Naturals

CONSTANTS
  Sessions,    (* sessions                                                 *)
  Names,       (* names of inboxes                                         *)
  Owner,       (* the session that each name is configured for             *)
  Inboxes,     (* what inboxes there may come to be                        *)
  Existing,    (* those there already, whose webhooks go elsewhere         *)
  Nothing,     (* no inbox, no name, no session                            *)
  Setters,     (* requests that set a configuration                        *)
  Bridges,     (* calls of the bridge for messages of WhatsApp             *)
  Commands,    (* commands an agent writes, each a webhook                 *)
  MaxSets,     (* bound on configurations set                              *)
  MaxPosts,    (* bound on calls of the bridge                             *)
  MaxDeletes,  (* bound on configurations deleted                          *)
  MaxLosses,   (* bound on sessions that lose their connection             *)
  MaxFailures  (* bound on requests and statements that fail               *)

ASSUME InboxesAssumption ==
  /\ Owner \in [Names -> Sessions]
  /\ Existing \subseteq Inboxes
  /\ Nothing \notin Inboxes \cup Names \cup Sessions
  /\ Setters \cap Bridges = {}

VARIABLES
  config,      (* the configuration of each session: a row, or none        *)
  inbox,       (* the inboxes of the account                               *)
  call,        (* each setter and bridge: where it is, and its copy of the *)
               (* configuration                                            *)
  bot,         (* the contact for commands exists                          *)
  command,     (* each command: what it says and how far it has come       *)
  connected,   (* the sessions that are connected                          *)
  asked,       (* history: <<session, inbox>> that a request named         *)
  recorded,    (* history: <<session, inbox>> that initInbox recorded      *)
  count        (* what the bounds count                                    *)

past == <<asked, recorded>>
inboxesVars == <<config, inbox, call, bot, command, connected, past, count>>

NoConfig == [there |-> FALSE, enabled |-> FALSE, name |-> Nothing, id |-> Nothing]
NoInbox == [name |-> Nothing, hook |-> Nothing, stuck |-> FALSE]
NoCall == [at |-> "idle", of |-> Nothing, name |-> Nothing, id |-> Nothing,
           found |-> Nothing, auto |-> FALSE]
NoCommand == [at |-> "idle", of |-> Nothing, says |-> "none", id |-> Nothing]
Bounds == [sets |-> MaxSets, posts |-> MaxPosts, deletes |-> MaxDeletes,
           losses |-> MaxLosses, failures |-> MaxFailures]
Calls == Setters \cup Bridges
Says == {"init", "status", "disconnect"}

InboxesTypeOK ==
  /\ config \in [Sessions -> [there : BOOLEAN, enabled : BOOLEAN,
                              name : Names \cup {Nothing}, id : Inboxes \cup {Nothing}]]
  /\ inbox \in [Inboxes -> [name : Names \cup {Nothing}, hook : Sessions \cup {Nothing},
                            stuck : BOOLEAN]]
  /\ call \in [Calls -> [at : {"idle", "list", "create", "point", "record", "bot", "post"},
                         of : Sessions \cup {Nothing}, name : Names \cup {Nothing},
                         id : Inboxes \cup {Nothing}, found : Inboxes \cup {Nothing},
                         auto : BOOLEAN]]
  /\ bot \in BOOLEAN
  /\ command \in [Commands -> [at : {"idle", "read", "handle", "connect", "logout", "done"},
                               of : Sessions \cup {Nothing}, says : Says \cup {"none"},
                               id : Inboxes \cup {Nothing}]]
  /\ connected \subseteq Sessions
  /\ {asked, recorded} \subseteq SUBSET (Sessions \X Inboxes)
  /\ count \in [DOMAIN Bounds -> Nat]

InboxesInit ==
  /\ config = [s \in Sessions |-> NoConfig]
  /\ inbox \in {f \in [Inboxes -> {NoInbox} \cup [name : Names, hook : {Nothing}, stuck : {FALSE}]] :
                  \A i \in Inboxes : f[i] # NoInbox <=> i \in Existing}
  /\ call = [k \in Calls |-> NoCall]
  /\ bot = FALSE
  /\ command = [c \in Commands |-> NoCommand]
  /\ connected = Sessions
  /\ asked = {} /\ recorded = {}
  /\ count = [k \in DOMAIN Bounds |-> 0]

Counts(k) == count[k] < Bounds[k] /\ count' = [count EXCEPT ![k] = @ + 1]
There(i) == i \in Inboxes /\ inbox[i] # NoInbox

------------------------------------------------------------------------------
(* SetConfig and DeleteConfig.                                             *)

(* SetConfig writes the row, with whatever inbox the request names, one of *)
(* another session or none that exists included; the inbox of an enabled   *)
(* configuration is then looked up.                                        *)
Set(k, s, n, enabled, auto) ==
  /\ call[k] = NoCall /\ Owner[n] = s /\ Counts("sets")
  /\ \E id \in Inboxes \cup {Nothing} :
       /\ config' = [config EXCEPT ![s] =
            [there |-> TRUE, enabled |-> enabled, name |-> n, id |-> id]]
       /\ call' = [call EXCEPT ![k] = IF enabled
            THEN [at |-> "list", of |-> s, name |-> n, id |-> id, found |-> Nothing,
                  auto |-> auto]
            ELSE NoCall]
       /\ asked' = asked \cup ({s} \X ({id} \ {Nothing}))
  /\ UNCHANGED <<inbox, bot, command, connected, recorded>>
Delete(s) ==
  /\ config[s].there /\ Counts("deletes")
  /\ config' = [config EXCEPT ![s] = NoConfig]
  /\ UNCHANGED <<inbox, call, bot, command, connected, past>>

(* The bridge handles a message with the configuration as it reads it.     *)
Message(k, s) ==
  /\ call[k] = NoCall /\ config[s].enabled /\ Counts("posts")
  /\ call' = [call EXCEPT ![k] =
       [at |-> IF config[s].id = Nothing THEN "list" ELSE "post", of |-> s,
        name |-> config[s].name, id |-> config[s].id, found |-> Nothing, auto |-> FALSE]]
  /\ UNCHANGED <<config, inbox, bot, command, connected, past>>

------------------------------------------------------------------------------
(* initInbox.                                                              *)

(* What follows it: a setter goes on to the contact for commands if it is  *)
(* asked to, also after an error; the bridge posts, or gives up.           *)
After(k, ok) ==
  IF k \in Setters THEN IF call[k].auto THEN "bot" ELSE "idle"
                   ELSE IF ok THEN "post" ELSE "idle"
Leaves(k, at, id) == IF at = "idle" THEN NoCall ELSE [call[k] EXCEPT !.at = at, !.id = id]
Fails(k) ==
  /\ Counts("failures")
  /\ call' = [call EXCEPT ![k] = Leaves(k, After(k, FALSE), call[k].id)]
  /\ UNCHANGED <<config, inbox, bot, command, connected, past>>

(* Mutant: the inbox is recorded first.                                    *)
OnceFoundRecords(k, i) == "record"

(* GetOrCreateInboxWithOptions: the first inbox of the list with the name; *)
(* its options are set, and its webhook if it goes elsewhere.              *)
OnceFound(k, i) == IF inbox[i].hook = call[k].of THEN "record" ELSE "point"
List(k) ==
  /\ call[k].at = "list"
  /\ LET named == {i \in Inboxes : There(i) /\ inbox[i].name = call[k].name} IN
     \/ /\ named = {}
        /\ call' = [call EXCEPT ![k] = [@ EXCEPT !.at = "create"]]
     \/ \E i \in named :
          call' = [call EXCEPT ![k] = [@ EXCEPT !.at = OnceFound(k, i), !.found = i]]
  /\ UNCHANGED <<config, inbox, bot, command, connected, past, count>>
ListFails(k) == call[k].at = "list" /\ Fails(k)

Free == {i \in Inboxes : ~There(i)}
Create(k) ==
  LET i == CHOOSE i \in Free : TRUE IN
  /\ call[k].at = "create" /\ Free # {}
  /\ inbox' = [inbox EXCEPT ![i] = [name |-> call[k].name, hook |-> call[k].of, stuck |-> FALSE]]
  /\ call' = [call EXCEPT ![k] = [@ EXCEPT !.at = "record", !.found = i]]
  /\ UNCHANGED <<config, bot, command, connected, past, count>>
CreateFails(k) == call[k].at = "create" /\ Fails(k)

(* UpdateInboxWebhook; a failure is logged, and the inbox taken all the    *)
(* same.                                                                   *)
Point(k) ==
  LET i == call[k].found IN
  /\ call[k].at = "point"
  /\ \/ /\ inbox' = [inbox EXCEPT ![i] =
             [name |-> inbox[i].name, hook |-> call[k].of, stuck |-> FALSE]]
        /\ UNCHANGED count
     \/ /\ Counts("failures")
        /\ inbox' = [inbox EXCEPT ![i] =
             [name |-> inbox[i].name, hook |-> inbox[i].hook, stuck |-> TRUE]]
  /\ call' = [call EXCEPT ![k] = [@ EXCEPT !.at = "record"]]
  /\ UNCHANGED <<config, bot, command, connected, past>>

(* UpdateInboxID, in whatever configuration the session has by now, over   *)
(* the inbox a request named; none is brought back.                        *)
Record(k) ==
  LET s == call[k].of IN
  /\ call[k].at = "record"
  /\ config' = IF config[s].there
                 THEN [config EXCEPT ![s] = [@ EXCEPT !.id = call[k].found]] ELSE config
  /\ call' = [call EXCEPT ![k] = Leaves(k, After(k, TRUE), call[k].found)]
  /\ recorded' = recorded \cup {<<s, call[k].found>>}
  /\ UNCHANGED <<inbox, bot, command, connected, asked, count>>
RecordFails(k) == call[k].at = "record" /\ Fails(k)

(* The message is posted in the inbox (WAToCW).                            *)
Post(k) ==
  /\ call[k].at = "post"
  /\ call' = [call EXCEPT ![k] = NoCall]
  /\ UNCHANGED <<config, inbox, bot, command, connected, past, count>>

------------------------------------------------------------------------------
(* The contact for commands.                                               *)

(* initBotContact: the contact is found or created; a conversation and a   *)
(* message "init" in it, which comes back as a webhook, follow in an inbox *)
(* that exists; whatever fails ends it.                                    *)
MakeBot(k) ==
  /\ call[k].at = "bot"
  /\ bot' \in {bot, TRUE}
  /\ \/ UNCHANGED command
     \/ /\ bot' /\ There(call[k].id) /\ inbox[call[k].id].hook # Nothing
        /\ \E c \in Commands :
             /\ command[c] = NoCommand
             /\ command' = [command EXCEPT ![c] =
                  [at |-> "read", of |-> inbox[call[k].id].hook, says |-> "init",
                   id |-> Nothing]]
  /\ call' = [call EXCEPT ![k] = NoCall]
  /\ UNCHANGED <<config, inbox, connected, past, count>>

(* An agent writes to it; the webhook goes where the inbox sends it.       *)
Write(c, i, says) ==
  /\ command[c] = NoCommand /\ bot /\ There(i) /\ inbox[i].hook # Nothing
  /\ command' = [command EXCEPT ![c] =
       [at |-> "read", of |-> inbox[i].hook, says |-> says, id |-> Nothing]]
  /\ UNCHANGED <<config, inbox, call, bot, connected, past, count>>

Comes(c, at, id) ==
  command' = [command EXCEPT ![c] = [@ EXCEPT !.at = at, !.id = id]]
(* ReceiveWebhook ignores it if the session is not connected, or has no    *)
(* configuration that is enabled.                                          *)
ReadCommand(c) ==
  LET s == command[c].of IN
  /\ command[c].at = "read"
  /\ IF s \in connected /\ config[s].enabled
       THEN Comes(c, "handle", config[s].id) ELSE Comes(c, "done", Nothing)
  /\ UNCHANGED <<config, inbox, call, bot, connected, past, count>>

(* HandleCommand: all are answered in the inbox; "init" starts a goroutine *)
(* that connects the session, if it is no longer connected, "disconnect"   *)
(* one that logs it out.                                                   *)
Handle(c) ==
  LET s == command[c].of
      says == command[c].says IN
  /\ command[c].at = "handle"
  /\ Comes(c, IF says = "init" /\ s \notin connected THEN "connect"
              ELSE IF says = "disconnect" THEN "logout" ELSE "done", Nothing)
  /\ UNCHANGED <<config, inbox, call, bot, connected, past, count>>

(* Connect and Logout (Session) from that goroutine; either may fail.      *)
ConnectOrNot(c) ==
  /\ command[c].at = "connect" /\ Comes(c, "done", Nothing)
  /\ connected' \in {connected, connected \cup {command[c].of}}
  /\ UNCHANGED <<config, inbox, call, bot, past, count>>
LogoutOrNot(c) ==
  /\ command[c].at = "logout" /\ Comes(c, "done", Nothing)
  /\ connected' \in {connected, connected \ {command[c].of}}
  /\ UNCHANGED <<config, inbox, call, bot, past, count>>

(* The connection is lost.                                                 *)
Lose(s) ==
  /\ s \in connected /\ Counts("losses")
  /\ connected' = connected \ {s}
  /\ UNCHANGED <<config, inbox, call, bot, command, past>>

------------------------------------------------------------------------------
InboxesNext ==
  \/ \E k \in Setters, s \in Sessions, n \in Names, enabled, auto \in BOOLEAN :
       Set(k, s, n, enabled, auto)
  \/ \E k \in Bridges, s \in Sessions : Message(k, s)
  \/ \E k \in Calls : List(k) \/ ListFails(k) \/ Create(k) \/ CreateFails(k)
                      \/ Point(k) \/ Record(k) \/ RecordFails(k) \/ Post(k) \/ MakeBot(k)
  \/ \E c \in Commands, i \in Inboxes, says \in Says : Write(c, i, says)
  \/ \E c \in Commands : ReadCommand(c) \/ Handle(c) \/ ConnectOrNot(c) \/ LogoutOrNot(c)
  \/ \E s \in Sessions : Delete(s) \/ Lose(s)

InboxesSpec == InboxesInit /\ [][InboxesNext]_inboxesVars

------------------------------------------------------------------------------
(* Properties.                                                             *)

(* What agents write in inbox i comes back to session s; not so only while *)
(* the last request that should see to it has failed.                      *)
Answers(i, s) == There(i) /\ (inbox[i].hook = s \/ inbox[i].stuck)

(* SetConfig takes a request at its word: the inbox it names stays in the  *)
(* row until UpdateInboxID, and for good in a configuration that is not    *)
(* enabled or whose initInbox fails.                                       *)
OnlyAsked(i, s) == <<s, i>> \in asked \ recorded

(* Whatever inbox a session's configuration records, and whatever inbox a  *)
(* message or the reply to a command is about to be posted in, the answers *)
(* that agents write there come back to that session: also while the       *)
(* configuration is set again with another name, deleted, or completed by  *)
(* several calls at once.  Nothing is promised of an inbox that only       *)
(* requests named and initInbox never recorded for that session: the       *)
(* bridge posts there all the same.                                        *)
AnswersComeBack ==
  LET Safe(i, s) == Answers(i, s) \/ OnlyAsked(i, s) IN
  /\ \A s \in Sessions : config[s].id # Nothing => Safe(config[s].id, s)
  /\ \A k \in Calls : call[k].at = "post" => Safe(call[k].id, call[k].of)
  /\ \A c \in Commands : command[c].id # Nothing => Safe(command[c].id, command[c].of)
==============================================================================
