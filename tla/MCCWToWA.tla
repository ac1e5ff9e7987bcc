------------------------------ MODULE MCCWToWA ------------------------------
(* Chatwoot to WhatsApp, in small runs, each on variables of its own while *)
(* the others stand still.  "calm" (the constants of the cfg): a text and  *)
(* a message with a text and two attachments, and one from the phone;      *)
(* sends may fail but end in time.  "faulty": the second message, with     *)
(* slow sends, lost acknowledgements and a crash.  "inboxes": the          *)
(* configuration of a session set, renamed and deleted beside its bridge.  *)
EXTENDS CWToWA, Inboxes, TLC

CONSTANTS text, album, p1, chat, h1, h2, name, other, own

StartsAlways == {"on"}

TwoMsgs == {text, album}
OneChat == {chat}
OnePhone == {p1}
NoPhone == {}
AllAtts == album :> <<"file", "media">> @@ text :> <<>>
ChatOfAll == [c \in CwMsgs \cup PhoneMsgs |-> chat]
TwoHooks == {h1, h2}
TextThenAlbum == h1 :> text @@ h2 :> album
OneHook == {h1}
OnlyText == h1 :> text
OwnNames == [n \in Names |-> own]

VARIABLES
  fproc, floop, frestarts, fstored, fdc, fpull, fbuf, fhand, fdlq, ffallback,
  fattempts, fhandled, fsess, fflaps, fhook, fkeys, fmarks, ftask, fsaved,
  fsent, fleaked, fphone
fvars ==
  <<fproc, floop, frestarts, fstored, fdc, fpull, fbuf, fhand, fdlq,
    ffallback, fattempts, fhandled, fsess, fflaps, fhook, fkeys, fmarks,
    ftask, fsaved, fsent, fleaked, fphone>>

Faulty == INSTANCE CWToWA WITH
  proc <- fproc, loop <- floop, restarts <- frestarts, stored <- fstored,
  dc <- fdc, pull <- fpull, buf <- fbuf, hand <- fhand, dlq <- fdlq,
  fallback <- ffallback, attempts <- fattempts, handled <- fhandled,
  sess <- fsess, flaps <- fflaps, hook <- fhook, keys <- fkeys,
  marks <- fmarks, task <- ftask, saved <- fsaved, sent <- fsent,
  leaked <- fleaked, phone <- fphone,
  PhoneMsgs <- NoPhone, ChatOf <- [c \in CwMsgs |-> chat],
  Hooks <- {h2}, Cw <- (h2 :> album), SessionFlaps <- 0,
  Slow <- TRUE, MaxRetries <- 2, Batch <- 1, BrokerFaults <- TRUE, MaxRestarts <- 1

(* The inboxes of the runs they take no part in.                           *)
NoInboxes == InboxesInit /\ inbox = [i \in Inboxes |-> [NoInbox EXCEPT !.name =
  IF i \in Existing THEN name ELSE Nothing]]

VARIABLE instance  (* which of the runs; never changes                     *)
mcvars == <<vars, fvars, inboxesVars, instance>>

MCInit ==
  /\ Init /\ Faulty!Init
  /\ \/ instance \in {"calm", "faulty"} /\ NoInboxes
     \/ instance = "inboxes" /\ InboxesInit
MCNext ==
  /\ UNCHANGED instance
  /\ \/ instance = "calm" /\ Next /\ UNCHANGED <<fvars, inboxesVars>>
     \/ instance = "faulty" /\ Faulty!Next /\ UNCHANGED <<vars, inboxesVars>>
     \/ instance = "inboxes" /\ InboxesNext /\ UNCHANGED <<vars, fvars>>

MCSpec == MCInit /\ [][MCNext]_mcvars

(* OutcomesTrue of the instance whose sends are slow, whose keys and marks *)
(* run out and whose process crashes, and the types of all.                *)
MCFaultyOutcomes ==
  TypeOK /\ Faulty!TypeOK /\ InboxesTypeOK /\ Faulty!OutcomesTrue
=============================================================================
