------------------------------- MODULE MCCalls -------------------------------
(***************************************************************************)
(* Calls that share something, in small runs, each of one component on     *)
(* variables of its own while the others stand still.  "merge" (the        *)
(* constants of the cfg): the two numbers of a Brazilian person, known to  *)
(* Chatwoot as two contacts, and a group, with failing requests and        *)
(* expiry.  "lock": calls of the bridge for one chat, with a deleted       *)
(* contact and fairness.  "api" (the constants of the cfg): any request    *)
(* beside one that ends the session or its connection.  "groups": three    *)
(* requests about the session's groups.  "copies", "changes": requests to  *)
(* change privacy settings beside two connections, a failure and a crash,  *)
(* one for two settings and two for one that changes elsewhere as well.    *)
(* "limiter": a client of the rate limiter.                                *)
(***************************************************************************)
EXTENDS Contacts, Limiter, Settings, Requests, TLC

CONSTANTS a, b, other, x, y, g

TwoCallers == {a, b}
OneClient == {a}
ThreeChats == {x, y, g}
OneGroup == {g}
LongNumber == {y}
TwoNumbers == {x, y}
Same == [j \in {x, y, g} |-> IF j = g THEN g ELSE x]

Locking == INSTANCE Contacts WITH
  Jids <- {x}, Groups <- {}, NumberOf <- [j \in {x} |-> j], LongForm <- {}, MergeBr <- FALSE,
  AutoReopen <- FALSE, Known <- {}, Faults <- FALSE,
  MaxCalls <- 4, MaxDeletes <- 2, MaxResolves <- 1, MaxExpiries <- 1

R == INSTANCE Routes
ThreeRequests == {a, b, other}
AnyBesideEnding ==
  a :> R!AllRoutes @@ b :> {R!Delete, R!Logout, R!Disconnect, R!Restart} @@ other :> {}
Grouping == INSTANCE Requests WITH
  MaxChanges <- 1,
  RoutesOf <- (a :> {R!GetJoinedGroups} @@ b :> {R!GetJoinedGroups, R!LeaveGroup, R!Delete} @@
               other :> {R!LeaveGroup, R!CreateGroup, R!JoinGroup})

Copies == INSTANCE Settings WITH
  Names <- {"online", "status"}, MaxPhone <- 0

Lone == upd'[b].at = "idle"

VARIABLE instance  (* which of the runs; never changes                     *)
mcvars == <<vars, requestVars, settingsVars, limiterVars, instance>>

Awake == [there |-> TRUE, paired |-> TRUE, up |-> TRUE]
NoRequests == RequestsInit /\ session = Awake
NoSettings == SettingsInit /\ account = [n \in Names |-> "all"]
TwoSettings == Copies!SettingsInit /\ account = [n \in {"online", "status"} |-> "all"]

MCInit ==
  \/ instance = "lock" /\ Locking!Init /\ NoRequests /\ NoSettings /\ LimiterInit
  \/ instance = "merge" /\ Init /\ NoRequests /\ NoSettings /\ LimiterInit
  \/ instance = "api" /\ Locking!Init /\ RequestsInit /\ NoSettings /\ LimiterInit
  \/ instance = "groups" /\ Locking!Init /\ Grouping!RequestsInit /\ NoSettings /\ LimiterInit
  \/ instance = "copies" /\ Locking!Init /\ NoRequests /\ TwoSettings /\ LimiterInit
  \/ instance = "changes" /\ Locking!Init /\ NoRequests /\ NoSettings /\ LimiterInit
  \/ instance = "limiter" /\ Locking!Init /\ NoRequests /\ NoSettings /\ LimiterInit
MCNext ==
  /\ UNCHANGED instance
  /\ \/ /\ (instance = "lock" /\ Locking!Next) \/ (instance = "merge" /\ Next)
        /\ UNCHANGED <<requestVars, settingsVars, limiterVars>>
     \/ /\ (instance = "api" /\ RequestsNext) \/ (instance = "groups" /\ Grouping!RequestsNext)
        /\ UNCHANGED <<vars, settingsVars, limiterVars>>
     \/ /\ (instance = "copies" /\ Copies!SettingsNext /\ Lone) \/ (instance = "changes" /\ SettingsNext)
        /\ UNCHANGED <<vars, requestVars, limiterVars>>
     \/ /\ instance = "limiter" /\ LimiterNext
        /\ UNCHANGED <<vars, requestVars, settingsVars>>

Others == <<requestVars, settingsVars, limiterVars, instance>>
MCFairness ==
  \A c \in Callers : WF_mcvars(instance = "lock" /\ Locking!Run(c) /\ UNCHANGED Others)
MCSpec == MCInit /\ [][MCNext]_mcvars /\ MCFairness

(* The types of the instance that runs, and CallsEnd of the one with       *)
(* fairness.                                                               *)
MCTypes ==
  /\ IF instance = "merge" THEN TypeOK ELSE Locking!TypeOK
  /\ IF instance = "groups" THEN Grouping!RequestsTypeOK ELSE RequestsTypeOK
  /\ IF instance = "copies" THEN Copies!SettingsTypeOK ELSE SettingsTypeOK
  /\ LimiterTypeOK
MCCallsEnd == []MCTypes /\ (instance = "lock" => Locking!CallsEnd)
==============================================================================
