----------------------------- MODULE MCChatSync -----------------------------
(* Three small instances of ChatSync in one run.  "alone" (the constants   *)
(* of the cfg): one sync after the other over two texts and a media of two *)
(* chats, with failing statements and a crash, under fairness.  On other   *)
(* variables, "crowd": two requests and the bridge posting a message of    *)
(* its own; "wiped": a reset beside syncs, the bridge and a crash.         *)
(* Beside them Content, "shown": a text, a picture or a card of the        *)
(* contact's, and after it a message of every kind that may quote it.      *)
EXTENDS ChatSync, Content, TLC

CONSTANTS a, b, x, y

OneCaller == {a}
TwoChats == <<x, x, y>>
SecondIsMedia == {2}
None == {}
SomeFaults == FaultKinds \ {"lookup"}
FirstChat == {x}

Of(kind, has) ==
  [kind |-> kind, has |-> has, quotes |-> FALSE, chat |-> "private", mine |-> FALSE]
Quoting(kind, has) == [Of(kind, has) EXCEPT !.quotes = TRUE]
Plain == Of("text", {"text"})
QuotedOnes == {Plain, Of("image", {"caption"}), Of("contact", {"display name", "phone"})}
FullCard == {"display name", "phone", "more phones", "emails", "organisation"}
Quotings ==
  {Quoting("text", {"text"}), Quoting("video", {"caption", "once"}), Quoting("audio", {}),
   Quoting("document", {"filename", "caption"}), Quoting("contact", FullCard),
   Quoting("contacts", {"display name"}),
   Quoting("location", {"coordinates", "place", "address"})}
Rare ==
  {Of(k, {}) : k \in {"contact", "contacts", "location", "sticker", "unknown", "notice",
                      "protocol", "live_location", "template", "text"}}
  \cup {Of(k, {"text"}) : k \in {"buttons", "template", "interactive", "button_reply",
                                "button_response", "edit", "reaction"}}
  \cup {Of("list", {"title"}), Of("list", {"description", "rows"}), Of("poll", {"question"}),
        Of("list_response", {"title"})}
Elsewhere ==
  {[Plain EXCEPT !.chat = c] : c \in {"group", "status", "channel", "ignored"}}
  \cup {[Of("image", {}) EXCEPT !.chat = "group"],
        [Quoting("text", {"text"}) EXCEPT !.chat = "group", !.mine = TRUE],
        [Quoting("image", {"caption"}) EXCEPT !.mine = TRUE]}
Followers == Quotings \cup Rare \cup Elsewhere

VARIABLES
  orows, oref, olive, ocontacts, oinboxes, oconv, oera, oposts, okept,
  odated, ostatus, otask, oreset, ospent, orounds
otherVars ==
  <<orows, oref, olive, ocontacts, oinboxes, oconv, oera, oposts, okept,
    odated, ostatus, otask, oreset, ospent, orounds>>

Crowd == INSTANCE ChatSync WITH
  rows <- orows, ref <- oref, live <- olive, contacts <- ocontacts,
  inboxes <- oinboxes, conv <- oconv, era <- oera, posts <- oposts,
  kept <- okept, dated <- odated, status <- ostatus, task <- otask,
  reset <- oreset, spent <- ospent, rounds <- orounds,
  N <- 2, ChatOf <- <<x, x>>, Live <- {1}, Callers <- {a, b}, BatchSize <- 2,
  Faults <- {"lookup", "answer", "insert", "ids"}, MaxRuns <- 3, MaxResets <- 0,
  MaxCrashes <- 0
Wiped == INSTANCE ChatSync WITH
  rows <- orows, ref <- oref, live <- olive, contacts <- ocontacts,
  inboxes <- oinboxes, conv <- oconv, era <- oera, posts <- oposts,
  kept <- okept, dated <- odated, status <- ostatus, task <- otask,
  reset <- oreset, spent <- ospent, rounds <- orounds,
  N <- 2, ChatOf <- <<x, x>>, Live <- {1}, Callers <- {a}, BatchSize <- 2,
  Faults <- {"upload"}, MaxRuns <- 2, MaxResets <- 1, MaxCrashes <- 1

VARIABLE instance  (* which of the four runs; never changes                *)
mcvars == <<vars, otherVars, contentVars, instance>>

NoContent ==
  /\ wa = <<>> /\ table = <<>> /\ files = {} /\ bridge = <<>> /\ cw = <<>> /\ refs = <<>>
  /\ sync = NoSync /\ synced = {}

MCInit ==
  /\ Init
  /\ \/ instance \in {"alone", "crowd"} /\ Crowd!Init /\ NoContent
     \/ instance = "wiped" /\ Wiped!Init /\ NoContent
     \/ instance = "shown" /\ Crowd!Init /\ ContentInit
MCNext ==
  /\ UNCHANGED instance
  /\ \/ instance = "alone" /\ Next /\ UNCHANGED <<otherVars, contentVars>>
     \/ instance = "crowd" /\ Crowd!Next /\ UNCHANGED <<vars, contentVars>>
     \/ instance = "wiped" /\ Wiped!Next /\ UNCHANGED <<vars, contentVars>>
     \/ instance = "shown" /\ ContentNext /\ UNCHANGED <<vars, otherVars>>

Alone(A) == instance = "alone" /\ A /\ UNCHANGED <<otherVars, contentVars, instance>>
MCFairness == \A c \in Callers : WF_mcvars(Alone(Run(c)))
MCSpec == MCInit /\ [][MCNext]_mcvars /\ MCFairness

(* What the instances beside "alone" keep, and the types of all.           *)
MCOthersKeep ==
  /\ TypeOK
  /\ instance = "crowd" => Crowd!TypeOK /\ Crowd!RefIsOwn
  /\ instance = "wiped" => Wiped!TypeOK /\ Wiped!RefIsOwn /\ Wiped!DatedAtRest
  /\ instance = "shown" => ContentTypeOK
(* SyncEnds of the instance with fairness; beside it, no sync gives a row  *)
(* the post of another message, and where no answer is lost the history    *)
(* gets its dates.                                                         *)
MCSyncEnds == []MCOthersKeep /\ (instance = "alone" => SyncEnds)
==============================================================================
