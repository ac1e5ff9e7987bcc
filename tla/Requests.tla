------------------------------ MODULE Requests -------------------------------
(***************************************************************************)
(* Requests of the HTTP API that reach one session, by its name: each runs *)
(* the steps of its handler (as module Routes gives them), while other     *)
(* requests and the network change the session under it.  The session is   *)
(* there, its device is paired, its connection is up; the request holds    *)
(* the client it found.  WhatsApp may carry out what a request asks and    *)
(* the answer still be lost.  The list of the session's groups is cached   *)
(* under its name.                                                         *)
(***************************************************************************)
EXTENDS Integers, Sequences

CONSTANTS
  Requests,    (* requests, each sent once                                 *)
  RoutesOf,    (* the handlers each of them may be for, as their steps     *)
  MaxChanges   (* bound on connections lost and won, and devices paired    *)

VARIABLES
  session,     (* the session: there, paired, up                           *)
  req,         (* each request: its route, where it is, the status it      *)
               (* is answered or will be, the client it holds              *)
  sent,        (* of each request: messages WhatsApp has accepted          *)
  shown,       (* of each request: events that told of them                *)
  calm,        (* requests during which the session was never deleted or   *)
               (* logged out                                               *)
  groups,      (* changes of the groups: made, and answered to a client;   *)
               (* of each request the changes it made or has seen          *)
  list,        (* the cached list: its kind, the changes it shows, and if  *)
               (* it was out of date when it was stored or its session gone *)
  changes      (* connections lost and won, and devices paired, so far     *)

requestVars == <<session, req, sent, shown, calm, groups, list, changes>>
world == <<sent, shown, calm, groups, list, changes>>

NoList == [kind |-> "none", upTo |-> 0, old |-> FALSE]
MaxCode == 504
Waiting == [route |-> <<>>, at |-> 1, code |-> 0, live |-> FALSE, begun |-> FALSE]

Steps == {"door", "client", "session", "paired", "own", "address", "build", "upload", "send", "ask",
          "call", "list", "regroup", "identify", "show", "form", "media", "convert", "cached",
          "keep", "forget", "known", "none", "record", "rows", "finally", "limited", "late",
          "tolerate", "forgive", "create", "delete", "connect", "disconnect", "logout",
          "restart"}
Where(route, s) == {i \in DOMAIN route : route[i] = s}

(* What the steps below rely on in the order of a handler's steps: it      *)
(* sends and changes the groups at most once, tells of a message right     *)
(* after it has looked the session up again and later than it sent it,     *)
(* refuses nothing once it has sent, and drops the list after a change.    *)
Refusing == {"door", "form", "media", "none", "known", "cached", "limited", "create", "delete"}
Forgiving == {"cached", "delete", "forgive"}
WellFormed(route) ==
  /\ route \in Seq(Steps)
  /\ \A s \in {"send", "show", "regroup"} : \A i, j \in Where(route, s) : i = j
  /\ \A i \in Where(route, "identify") : i + 1 \in Where(route, "show")
  /\ \A i \in Where(route, "show") :
       /\ i - 1 \in Where(route, "identify") /\ \E j \in Where(route, "send") : j < i - 1
       /\ Where(route, "finally") = {}
  /\ \A i \in Where(route, "send"), j \in DOMAIN route :
       (j > i => route[j] \notin Refusing) /\ route[j] \notin Forgiving
  /\ \A i \in Where(route, "regroup") :
       Where(route, "list") = {} /\ \E j \in Where(route, "forget") : j > i

ASSUME RequestsAssumption ==
  /\ MaxChanges \in Nat
  /\ \A r \in Requests : \A route \in RoutesOf[r] : WellFormed(route)

RequestsTypeOK ==
  /\ session \in [there : BOOLEAN, paired : BOOLEAN, up : BOOLEAN]
  /\ req \in [Requests -> [route : Seq(Steps), at : Nat, code : 0 .. MaxCode,
                           live : BOOLEAN, begun : BOOLEAN]]
  /\ sent \in [Requests -> Nat] /\ shown \in [Requests -> Nat]
  /\ calm \subseteq Requests
  /\ groups \in [made : Nat, told : Nat, seen : [Requests -> Nat]]
  /\ groups.told <= groups.made
  /\ list \in [kind : {"none", "list", "limit"}, upTo : Nat, old : BOOLEAN]
  /\ list.upTo <= groups.made
  /\ changes \in 0 .. MaxChanges

RequestsInit ==
  /\ session \in [there : {TRUE}, paired : BOOLEAN, up : BOOLEAN]
  /\ req = [r \in Requests |-> Waiting]
  /\ sent = [r \in Requests |-> 0] /\ shown = [r \in Requests |-> 0]
  /\ calm = Requests
  /\ groups = [made |-> 0, told |-> 0, seen |-> [r \in Requests |-> 0]]
  /\ list = NoList /\ changes = 0

Receive(r, route) ==
  /\ req[r] = Waiting
  /\ req' = [req EXCEPT ![r] = [Waiting EXCEPT !.route = route, !.begun = TRUE]]
  /\ calm' = calm \cup {r}
  /\ UNCHANGED <<session, sent, shown, groups, list, changes>>

Has(r, s) == Where(req[r].route, s) # {}
Facing(r, s) == req[r].at \in Where(req[r].route, s)
End(r) == Len(req[r].route) + 1
Passes(r) == req' = [req EXCEPT ![r].at = @ + 1]
Holds(r) == req' = [req EXCEPT ![r].at = @ + 1, ![r].live = TRUE]
Answers(r, code) == req' = [req EXCEPT ![r].at = End(r), ![r].code = code]
(* An error of the steps before "finally" goes on there.                   *)
Rescues(r) == {i \in Where(req[r].route, "finally") : i > req[r].at}
Errs(r) ==
  IF Rescues(r) = {} THEN Answers(r, 500)
  ELSE \E i \in Rescues(r) : req' = [req EXCEPT ![r].at = i + 1, ![r].code = 500]

(* The handler has run to its end.                                         *)
Done(r) ==
  /\ req[r].begun /\ req[r].at = End(r) /\ req[r].code = 0
  /\ Answers(r, 200)
  /\ groups' = [groups EXCEPT !.told =
       IF Has(r, "regroup") /\ groups.seen[r] > @ THEN groups.seen[r] ELSE @]
  /\ UNCHANGED <<session, sent, shown, calm, list, changes>>

(* RateLimiter.Middleware, Auth: the handler does not run.                 *)
Aborts(r) ==
  /\ Facing(r, "door") /\ (Answers(r, 429) \/ Answers(r, 401))
  /\ UNCHANGED <<session, world>>

(* What depends on the request alone may be accepted or not.               *)
Refusal == [form |-> 400, media |-> 400, none |-> 404]
Takes(r) ==
  /\ \E s \in {"form", "media", "none", "convert", "address", "build", "rows"} :
       /\ Facing(r, s)
       /\ Passes(r) \/ IF s \in DOMAIN Refusal THEN Answers(r, Refusal[s]) ELSE Errs(r)
  /\ UNCHANGED <<session, world>>

(* sessions.Get, IsConnected, and the device's ID.                         *)
Finds(r) ==
  /\ \/ Facing(r, "client") /\ IF session.there /\ session.up THEN Holds(r) ELSE Errs(r)
     \/ Facing(r, "session") /\ IF session.there THEN Holds(r) ELSE Errs(r)
     \/ Facing(r, "known") /\ IF session.there THEN Holds(r) ELSE Answers(r, 404)
     \/ Facing(r, "paired") /\ IF session.paired THEN Passes(r) ELSE Errs(r)
     \/ Facing(r, "own") /\ IF session.paired THEN Passes(r) ELSE Answers(r, 500)
  /\ UNCHANGED <<session, world>>

(* A request to WhatsApp that fails may have been carried out before; it   *)
(* takes a connection and, but for "call", which also pairs, a device.     *)
Connected(r) == req[r].live /\ session.up
Reaches(r) == Connected(r) /\ session.paired
Uploads(r) ==
  /\ \E s \in {"upload", "ask", "call"} : Facing(r, s)
  /\ (Connected(r) /\ (session.paired \/ Facing(r, "call")) /\ Passes(r)) \/ Errs(r)
  /\ UNCHANGED <<session, world>>
(* Mutant: the error of a failed send is not looked at.                    *)
SendsRegardless(r) ==
  /\ Facing(r, "send") /\ Passes(r)
  /\ (Reaches(r) /\ sent' = [sent EXCEPT ![r] = @ + 1]) \/ UNCHANGED sent
  /\ UNCHANGED <<session, shown, calm, groups, list, changes>>
Sends(r) ==
  /\ Facing(r, "send")
  /\ \/ Reaches(r) /\ sent' = [sent EXCEPT ![r] = @ + 1] /\ (Passes(r) \/ Errs(r))
     \/ Errs(r) /\ UNCHANGED sent
  /\ UNCHANGED <<session, shown, calm, groups, list, changes>>
Regroups(r) ==
  /\ Facing(r, "regroup")
  /\ \/ /\ Reaches(r) /\ (Passes(r) \/ Errs(r))
        /\ groups' = [groups EXCEPT !.made = @ + 1, !.seen[r] = groups.made + 1]
     \/ Errs(r) /\ UNCHANGED groups
  /\ UNCHANGED <<session, sent, shown, calm, list, changes>>
Lists(r) ==
  /\ Facing(r, "list")
  /\ \/ Reaches(r) /\ Passes(r) /\ groups' = [groups EXCEPT !.seen[r] = groups.made]
     \/ Errs(r) /\ UNCHANGED groups
  /\ UNCHANGED <<session, sent, shown, calm, list, changes>>

(* emitSentEvent: the session is looked up again, and its device's ID is   *)
(* read twice: a panic, answered 500, if it was cleared between.           *)
Identifies(r) ==
  /\ Facing(r, "identify")
  /\ IF session.there /\ session.paired THEN Holds(r)
     ELSE req' = [req EXCEPT ![r].at = @ + 2]
  /\ UNCHANGED <<session, world>>
Shows(r) ==
  /\ Facing(r, "show")
  /\ IF req[r].live /\ session.paired
       THEN Passes(r) /\ shown' = [shown EXCEPT ![r] = @ + 1]
       ELSE (Answers(r, 500) \/ (~req[r].live /\ Passes(r))) /\ UNCHANGED shown
  /\ UNCHANGED <<session, sent, calm, groups, list, changes>>

(* The cache of module cache: an entry ends with its time, or earlier when *)
(* the cache is full.                                                      *)
Cached(r) ==
  /\ Facing(r, "cached")
  /\ CASE list.kind = "list" -> Answers(r, 200)
       [] list.kind = "limit" -> Answers(r, 429)
       [] OTHER -> Passes(r)
  /\ UNCHANGED <<session, world>>
Keeps(r) ==
  /\ Facing(r, "keep") /\ Passes(r)
  /\ list' = [kind |-> "list", upTo |-> groups.seen[r],
            old |-> groups.seen[r] < groups.made \/ ~req[r].live]
  /\ UNCHANGED <<session, sent, shown, calm, groups, changes>>
(* Mutant: the list of another session is dropped.                         *)
ForgetsElsewhere(r) ==
  /\ Facing(r, "forget") /\ Passes(r)
  /\ UNCHANGED <<session, sent, shown, calm, groups, list, changes>>
Forgets(r) ==
  /\ Facing(r, "forget") /\ Passes(r)
  /\ list' = NoList
  /\ UNCHANGED <<session, sent, shown, calm, groups, changes>>
ListEnds ==
  /\ list # NoList /\ list' = NoList
  /\ UNCHANGED <<session, req, sent, shown, calm, groups, changes>>

(* The held error of GetJoinedGroups whose text has "rate" or "429" in it  *)
(* is cached in place of a list.                                           *)
Limited(r) ==
  /\ Facing(r, "limited")
  /\ \/ Passes(r) /\ UNCHANGED list
     \/ /\ req[r].code = 500 /\ Answers(r, 429)
        /\ list' = [NoList EXCEPT !.kind = "limit"]
  /\ UNCHANGED <<session, sent, shown, calm, groups, changes>>
Held(r) ==
  /\ \/ \E s \in {"finally", "record", "late", "tolerate"} : Facing(r, s) /\ Passes(r)
     \/ Facing(r, "late") /\ req[r].code = 500 /\ Answers(r, 504)
     \/ Facing(r, "tolerate") /\ req[r].code = 500 /\ Answers(r, 200)
     \/ Facing(r, "forgive") /\ Answers(r, 200)
  /\ UNCHANGED <<session, world>>

(* The requests that begin and end the session and its connection.         *)
Disturbs == calm' = {r \in calm : ~req[r].begun \/ req[r].code # 0}
Creates(r) ==
  /\ Facing(r, "create")
  /\ IF session.there THEN Answers(r, 409) /\ UNCHANGED session
     ELSE Passes(r) /\ session' = [there |-> TRUE, paired |-> FALSE, up |-> FALSE]
  /\ UNCHANGED world
(* Only a client the session still has takes its connection along.         *)
Reconnected(r) == session' = IF req[r].live THEN [session EXCEPT !.up = TRUE] ELSE session
Hangs(r) == session' = IF req[r].live THEN [session EXCEPT !.up = FALSE] ELSE session
Deletes(r) ==
  /\ Facing(r, "delete")
  /\ \E code \in IF session.there THEN {200} ELSE {200, 404} :
       req' = [q \in Requests |-> IF q = r THEN [req[q] EXCEPT !.at = End(q), !.code = code]
                                  ELSE [req[q] EXCEPT !.live = FALSE]]
  /\ session' = [there |-> FALSE, paired |-> FALSE, up |-> FALSE]
  /\ list' = [list EXCEPT !.old = (list.kind = "list")]
  /\ Disturbs /\ UNCHANGED <<sent, shown, groups, changes>>
Unpaired == session' = [session EXCEPT !.paired = FALSE, !.up = FALSE]
LogsOut(r) ==
  /\ Facing(r, "logout") /\ Passes(r)
  /\ IF req[r].live THEN Unpaired /\ Disturbs ELSE UNCHANGED <<session, calm>>
  /\ UNCHANGED <<sent, shown, groups, list, changes>>
Connects(r) ==
  /\ \/ /\ Facing(r, "connect") /\ (session.up \/ ~session.paired) /\ Passes(r)
        /\ UNCHANGED session
     \/ /\ Facing(r, "connect") /\ session.paired /\ ~session.up
        /\ \/ Reconnected(r) /\ Passes(r)
           \/ UNCHANGED session /\ Errs(r)
     \/ /\ Facing(r, "restart")
        /\ \/ Reconnected(r) /\ Passes(r)
           \/ Hangs(r) /\ Errs(r)
     \/ Facing(r, "disconnect") /\ Hangs(r) /\ Passes(r)
  /\ UNCHANGED world

(* Connections end and come back without a request, and a phone pairs the  *)
(* device or removes it.                                                   *)
Changes == changes < MaxChanges /\ changes' = changes + 1
Link ==
  /\ Changes /\ session.there
  /\ \E up \in BOOLEAN : session' = [session EXCEPT !.up = up]
  /\ UNCHANGED <<req, sent, shown, calm, groups, list>>
Pair ==
  /\ Changes /\ session.up /\ ~session.paired
  /\ session' = [session EXCEPT !.paired = TRUE]
  /\ UNCHANGED <<req, sent, shown, calm, groups, list>>
Unpair ==
  /\ Changes /\ session.paired /\ session.up
  /\ Unpaired /\ Disturbs
  /\ UNCHANGED <<req, sent, shown, groups, list>>

Step(r) ==
  \/ Done(r) \/ Aborts(r) \/ Takes(r) \/ Finds(r) \/ Uploads(r) \/ Sends(r) \/ Regroups(r)
  \/ Lists(r) \/ Identifies(r) \/ Shows(r) \/ Cached(r) \/ Keeps(r) \/ Forgets(r)
  \/ Limited(r) \/ Held(r) \/ Creates(r) \/ Deletes(r) \/ LogsOut(r) \/ Connects(r)
RequestsNext ==
  \/ \E r \in Requests : Step(r) \/ \E route \in RoutesOf[r] : Receive(r, route)
  \/ ListEnds \/ Link \/ Pair \/ Unpair
RequestsSpec == RequestsInit /\ [][RequestsNext]_requestVars

------------------------------------------------------------------------------
(* Properties.                                                             *)

(* The answer tells what became of the message: one refused (400, 401,     *)
(* 404, 409, 429) was not sent; one answered 200 was sent once, unless the *)
(* handler passes over the failure; an event tells of a message at most    *)
(* once and only after it was sent, and tells of every message answered    *)
(* 200 unless the session was deleted or logged out meanwhile.             *)
AnswersTrue ==
  \A r \in Requests :
    /\ shown[r] <= sent[r] /\ sent[r] <= 1
    /\ req[r].code \in {400, 401, 404, 409, 429} => sent[r] = 0
    /\ req[r].code = 200 /\ Has(r, "send") /\ ~Has(r, "tolerate") => sent[r] = 1
    /\ req[r].code = 200 /\ Has(r, "show") /\ r \in calm => shown[r] = 1

(* The cached list shows every creation, join and leave that a client was  *)
(* told of, unless it was fetched before the change and stored after it,   *)
(* or is that of a deleted session of the same name.                       *)
GroupListFresh == list.kind = "list" /\ ~list.old => list.upTo >= groups.told
==============================================================================
