------------------------------- MODULE MCDesk -------------------------------
(* The tables of the desk and the webhook, which share nothing, in one     *)
(* run.  "tickets" (the constants of the cfg): two clients on tickets.     *)
(* "queues": two admins who set the queues of users.  "inbox": messages    *)
(* and chats.  "webhook": the webhook, with fairness.                      *)
EXTENDS Tickets, Inbox, TLC

CONSTANTS c1, c2, a, b, q, r, m1, m2, m3, direct

TwoClients == {c1, c2}
None == {}
OneQueue == {q}

Members == INSTANCE Tickets WITH Clients <- {}, Admins <- {a, b}, Queues <- {q, r}

OneChat == {direct}
NoGroups == {}
ThreeMsgs == {m1, m2, m3}
TwoIncoming == {m1, m2}
OneSender == {c2}
InDirect == [m \in ThreeMsgs |-> direct]
OneByOne == m1 :> 1 @@ m2 :> 2 @@ m3 :> 3

VARIABLES hook, job, got, spent
Posting == INSTANCE Webhook WITH
  Events <- {m1, m2}, Urls <- {"old", "new"}, Kinds <- {"message", "receipt"},
  KindOf <- (m1 :> "message" @@ m2 :> "receipt"), MaxTries <- 3, MaxOutages <- 2,
  MaxRefusals <- 1, MaxChanges <- 2, MaxCrashes <- 1
hookVars == <<hook, job, got, spent>>

VARIABLE instance  (* which of the four runs; never changes                *)
mcvars == <<vars, inboxVars, hookVars, instance>>

NoTickets == Init /\ row = [t \in Ids |-> NotYet]
NoHooks == Posting!Init /\ hook = Posting!NoHook

MCInit ==
  \/ instance = "tickets" /\ Init /\ InboxInit /\ NoHooks
  \/ instance = "queues" /\ Members!Init /\ row = [t \in Ids |-> NotYet] /\ InboxInit /\ NoHooks
  \/ instance = "inbox" /\ NoTickets /\ InboxInit /\ NoHooks
  \/ instance = "webhook" /\ NoTickets /\ InboxInit /\ Posting!Init
MCNext ==
  /\ UNCHANGED instance
  /\ \/ instance = "tickets" /\ Next /\ UNCHANGED <<inboxVars, hookVars>>
     \/ instance = "queues" /\ Members!Next /\ UNCHANGED <<inboxVars, hookVars>>
     \/ instance = "inbox" /\ InboxNext /\ UNCHANGED <<vars, hookVars>>
     \/ instance = "webhook" /\ Posting!Next /\ UNCHANGED <<vars, inboxVars>>

MCFairness ==
  \A e \in {m1, m2} :
    WF_mcvars(instance = "webhook" /\ Posting!Runs(e) /\ UNCHANGED <<vars, inboxVars, instance>>)
MCSpec == MCInit /\ [][MCNext]_mcvars /\ MCFairness

(* The types of the four.                                                  *)
MCTypes ==
  /\ IF instance = "queues" THEN Members!TypeOK ELSE TypeOK
  /\ InboxTypeOK /\ Posting!TypeOK
(* TakenIsReceived, of the events of the webhook, and the types.           *)
MCTakenIsReceived == []MCTypes /\ Posting!TakenIsReceived
==============================================================================
