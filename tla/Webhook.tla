------------------------------- MODULE Webhook -------------------------------
(***************************************************************************)
(* The webhook of a session: a row that clients set and delete, and events *)
(* that are posted to its address.  The row is read when the event occurs; *)
(* a goroutine per event then makes up to three requests.  Payloads,       *)
(* signatures and the length of the pauses are left out.                   *)
(***************************************************************************)
EXTENDS Naturals

CONSTANTS
  Events,      (* events, each occurring once                              *)
  Urls,        (* addresses of webhooks                                    *)
  Kinds,       (* kinds of events                                          *)
  KindOf,      (* the kind of each event                                   *)
  MaxTries,    (* maxRetries (3)                                           *)
  MaxOutages,  (* bound on requests without an answer, or answered 5xx     *)
  MaxRefusals, (* bound on requests answered neither 2xx nor 5xx           *)
  MaxChanges,  (* bound on changes of the row                              *)
  MaxCrashes   (* bound on stops of the process                            *)

VARIABLES
  hook,        (* the row of the webhook                                   *)
  job,         (* of each event: the goroutine that posts it               *)
  got,         (* of each event: the requests the address has received     *)
  spent        (* outages, refusals, changes, crashes so far               *)

vars == <<hook, job, got, spent>>

NoHook == [url |-> "none", kinds |-> {}, enabled |-> FALSE]
Hooks == [url : Urls \cup {"none"}, kinds : SUBSET Kinds, enabled : BOOLEAN]
None == [at |-> "none", tries |-> 0, url |-> "none"]
Bounds == [outages |-> MaxOutages, refusals |-> MaxRefusals, changes |-> MaxChanges,
           crashes |-> MaxCrashes]

TypeOK ==
  /\ hook \in Hooks
  /\ job \in [Events -> [at : {"none", "skipped", "request", "pause", "posted", "refused",
                               "given up", "crashed"},
                         tries : 0 .. MaxTries, url : Urls \cup {"none"}]]
  /\ got \in [Events -> 0 .. MaxTries]
  /\ \A k \in DOMAIN Bounds : spent[k] \in 0 .. Bounds[k]

Init ==
  /\ hook \in {NoHook} \cup [url : Urls, kinds : {{}}, enabled : {TRUE}]
  /\ job = [e \in Events |-> None]
  /\ got = [e \in Events |-> 0]
  /\ spent = [k \in DOMAIN Bounds |-> 0]

Spends(k) == spent[k] < Bounds[k] /\ spent' = [spent EXCEPT ![k] = @ + 1]

(* Handler.SetWebhook and UpdateWebhook (an upsert), and DeleteWebhook.    *)
Set(h) ==
  /\ Spends("changes") /\ hook' = h
  /\ UNCHANGED <<job, got>>

(* shouldSendEvent: no list of kinds means every kind.                     *)
Wanted(e) ==
  hook.enabled /\ hook.url # "none" /\ (hook.kinds = {} \/ KindOf[e] \in hook.kinds)
(* SendWithChatwoot: the row as it is now goes to the goroutine.           *)
Send(e) ==
  /\ job[e] = None
  /\ job' = [job EXCEPT ![e] = IF Wanted(e)
                                 THEN [@ EXCEPT !.at = "request", !.url = hook.url]
                                 ELSE [@ EXCEPT !.at = "skipped"]]
  /\ UNCHANGED <<hook, got, spent>>

Receives(e) == got' = [got EXCEPT ![e] = @ + 1]
Tried(e, at) == job' = [job EXCEPT ![e].at = at, ![e].tries = @ + 1]

(* sendWebhook: a request answered 2xx;                                    *)
Posted(e) ==
  /\ job[e].at = "request" /\ Tried(e, "posted") /\ Receives(e)
  /\ UNCHANGED <<hook, spent>>

(* Mutant: the count of tries is off by one.                               *)
AfterOutageSooner(e) == IF job[e].tries + 2 < MaxTries THEN "pause" ELSE "given up"

(* one that failed, timed out or was answered 5xx, of which the address    *)
(* may have received it all the same: it is tried again after a pause,     *)
(* unless it was the last;                                                 *)
AfterOutage(e) == IF job[e].tries + 1 < MaxTries THEN "pause" ELSE "given up"
Outage(e) ==
  /\ job[e].at = "request" /\ Spends("outages") /\ Tried(e, AfterOutage(e))
  /\ Receives(e) \/ UNCHANGED got
  /\ UNCHANGED hook
Retry(e) ==
  /\ job[e].at = "pause"
  /\ job' = [job EXCEPT ![e].at = "request"]
  /\ UNCHANGED <<hook, got, spent>>

(* and one answered otherwise, which is not tried again.                   *)
Refused(e) ==
  /\ job[e].at = "request" /\ Spends("refusals") /\ Tried(e, "refused")
  /\ UNCHANGED <<hook, got>>

(* The goroutines end with the process: nothing waits for them.            *)
Crash ==
  /\ Spends("crashes")
  /\ job' = [e \in Events |-> IF job[e].at \in {"request", "pause"}
                                THEN [job[e] EXCEPT !.at = "crashed"] ELSE job[e]]
  /\ UNCHANGED <<hook, got>>

Runs(e) == Posted(e) \/ Outage(e) \/ Refused(e) \/ Retry(e)
Next ==
  \/ \E h \in Hooks : Set(h)
  \/ \E e \in Events : Send(e) \/ Runs(e)
  \/ Crash

(* A goroutine runs on: a request ends within the timeout of ten seconds.  *)
Fairness == \A e \in Events : WF_vars(Runs(e))
Spec == Init /\ [][Next]_vars /\ Fairness

------------------------------------------------------------------------------
(* Properties.                                                             *)

(* An event taken for posting is received, although the address is out of  *)
(* order for two of its requests and although the row is changed or        *)
(* deleted meanwhile, unless a request is refused or the process stops.    *)
TakenIsReceived ==
  \A e \in Events :
    job[e].at = "request" ~> (got[e] > 0 \/ job[e].at \in {"refused", "crashed"})
==============================================================================
