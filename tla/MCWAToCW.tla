------------------------------ MODULE MCWAToCW ------------------------------
(* Four small instances of WAToCW in one run, in one chat.  "queued" (the  *)
(* constants of the cfg): a message from the contact and one from the      *)
(* user's phone through the queue, with failing calls and rows, slow calls *)
(* and fairness; "revoked": the same with a revocation, without fairness.  *)
(* On variables of their own, "copies": two events of one outgoing media,  *)
(* with lost acknowledgements and failed publishes; "direct": both         *)
(* messages without the queue, revoked, with a configuration that may be   *)
(* unreadable and a crash.                                                 *)
EXTENDS WAToCW, TLC

CONSTANTS in1, out1, e1, e2

StartsAlways == {"on"}
OnlyOut == {out1}
InAndOut == {in1, out1}
None == {}
TwoEvents == {e1, e2}
OneToOne == e1 :> in1 @@ e2 :> out1

Revocation == INSTANCE WAToCW WITH Revoked <- OnlyOut

VARIABLES
  oproc, oloop, orestarts, ostored, odc, opull, obuf, ohand, odlq, ofallback,
  oattempts, ohandled, oevent, orows, oref, oinbox, okeys, otask, oposts,
  oconvs, ogone, oremoved, orevoke, otarget, onotified, oresent
otherVars ==
  <<oproc, oloop, orestarts, ostored, odc, opull, obuf, ohand, odlq,
    ofallback, oattempts, ohandled, oevent, orows, oref, oinbox, okeys,
    otask, oposts, oconvs, ogone, oremoved, orevoke, otarget, onotified,
    oresent>>

Copies == INSTANCE WAToCW WITH
  proc <- oproc, loop <- oloop, restarts <- orestarts, stored <- ostored,
  dc <- odc, pull <- opull, buf <- obuf, hand <- ohand, dlq <- odlq,
  fallback <- ofallback, attempts <- oattempts, handled <- ohandled,
  event <- oevent, rows <- orows, ref <- oref, inbox <- oinbox,
  keys <- okeys, task <- otask, posts <- oposts, convs <- oconvs,
  gone <- ogone, removed <- oremoved, revoke <- orevoke, target <- otarget,
  notified <- onotified, resent <- oresent,
  Msgs <- {out1}, Msg <- (e1 :> out1 @@ e2 :> out1), Synthetic <- {e1}, InboxReady <- TRUE,
  ApiFaults <- FALSE, RowFaults <- FALSE, Slow <- FALSE, Revoked <- {}, BrokerFaults <- TRUE
Direct == INSTANCE WAToCW WITH
  proc <- oproc, loop <- oloop, restarts <- orestarts, stored <- ostored,
  dc <- odc, pull <- opull, buf <- obuf, hand <- ohand, dlq <- odlq,
  fallback <- ofallback, attempts <- oattempts, handled <- ohandled,
  event <- oevent, rows <- orows, ref <- oref, inbox <- oinbox,
  keys <- okeys, task <- otask, posts <- oposts, convs <- oconvs,
  gone <- ogone, removed <- oremoved, revoke <- orevoke, target <- otarget,
  notified <- onotified, resent <- oresent,
  Online <- {FALSE}, InboxReady <- TRUE, ApiFaults <- FALSE, RowFaults <- FALSE,
  ConfigFaults <- TRUE, Slow <- FALSE, Revoked <- InAndOut, StartOutcomes <- {"off"},
  MaxRestarts <- 1

VARIABLE instance  (* which of the four runs; never changes                *)
mcvars == <<vars, otherVars, instance>>

MCInit ==
  /\ Init
  /\ \/ instance \in {"queued", "revoked", "copies"} /\ Copies!Init
     \/ instance = "direct" /\ Direct!Init
MCNext ==
  /\ UNCHANGED instance
  /\ \/ instance = "queued" /\ Next /\ UNCHANGED otherVars
     \/ instance = "revoked" /\ Revocation!Next /\ UNCHANGED otherVars
     \/ instance = "copies" /\ Copies!Next /\ UNCHANGED vars
     \/ instance = "direct" /\ Direct!Next /\ UNCHANGED vars

Queued(A) == instance = "queued" /\ A /\ UNCHANGED <<otherVars, instance>>
MCFairness ==
  /\ WF_mcvars(Queued(QueueStep(Q!Start)))
  /\ WF_mcvars(Queued(QueueStep(Q!Fetch)))
  /\ WF_mcvars(Queued(QueueStep(Q!FetchExpires)))
  /\ WF_mcvars(Queued(QueueStep(Q!Take)))
  /\ WF_mcvars(Queued(Handle)) /\ WF_mcvars(Queued(HandlerReturns))
  /\ \A e \in Events : /\ SF_mcvars(Queued(QueueStep(Q!Deliver(e))))
                       /\ WF_mcvars(Queued(QueueStep(Q!AckExpires(e))))
                       /\ WF_mcvars(Queued(DirectReturns(e)))
  /\ \A t \in Tasks : WF_mcvars(Queued(ProcessStep(t)))
MCSpec == MCInit /\ [][MCNext]_mcvars /\ MCFairness

(* What must hold of the instances on variables of their own, with types,  *)
(* keys and references: OutgoingPostedOnce of the copies of one message,   *)
(* RevokedIsGone of direct processing until a crash, with revocations that *)
(* find the configuration unreadable and are left undone.                  *)
MCCopiesAndRevocations ==
  /\ TypeOK
  /\ instance = "copies" =>
       /\ Copies!TypeOK /\ Copies!KeyHasCall /\ Copies!OneCallPerMessage
       /\ Copies!RefIsOwn /\ Copies!OutgoingPostedOnce
  /\ instance = "direct" =>
       /\ Direct!TypeOK /\ Direct!KeyHasCall /\ Direct!OneCallPerMessage
       /\ Direct!RefIsOwn /\ (orestarts = 0 => Direct!RevokedIsGone)
(* PhoneMessagesNotSentBack of the instance with copies of one message.    *)
MCPhoneMessagesNotSentBack == instance = "copies" => Copies!PhoneMessagesNotSentBack
(* QueuedEventuallySettles of the instance with fairness.                  *)
MCQueuedEventuallySettles == instance = "queued" => QueuedEventuallySettles
=============================================================================
