------------------------------ MODULE MCSession ------------------------------
(* Three small instances of Session in one run: pairings of a session by   *)
(* QR code or phone while it is connected, restarted and the process       *)
(* crashes (the constants of the cfg); the whole life of a session under   *)
(* one request at a time, with losses and a crash; and a crowd of two      *)
(* requests that create the session, log it out and delete it while        *)
(* statements on its row fail.                                             *)
EXTENDS Session

CONSTANTS a, b, boot, nobody

OneCaller == {a}
PairingOps == {"create", "connect", "restart"}

Life == INSTANCE Session WITH
  Ops <- {"create", "connect", "disconnect", "restart", "logout", "delete"},
  MaxPairings <- 1, MaxLosses <- 1

Crowd == INSTANCE Session WITH
  Callers <- {a, b}, Ops <- {"create", "logout", "delete"},
  DBFaults <- TRUE, MaxObjects <- 2, MaxPairings <- 0, MaxLosses <- 0, MaxCrashes <- 0

VARIABLE instance  (* which of the three runs; never changes               *)
mcvars == <<vars, instance>>

MCInit ==
  \/ instance = "pairings" /\ Init
  \/ instance = "life" /\ Life!Init
  \/ instance = "crowd" /\ Crowd!Init
MCNext ==
  /\ UNCHANGED instance
  /\ \/ instance = "pairings" /\ Next
     \/ instance = "life" /\ Life!Next
     \/ instance = "crowd" /\ Crowd!Next

Live(A) == instance = "life" /\ A /\ UNCHANGED instance
MCFairness ==
  /\ \A c \in Threads : WF_mcvars(Live(Step(c)))
  /\ \A c \in Callers : WF_mcvars(Live(Scan(c))) /\ WF_mcvars(Live(EmitTimeout(c)))
  /\ \A o \in Object : /\ WF_mcvars(Live(Answer(o)))
                       /\ WF_mcvars(Live(AutoReconnect(o)))
                       /\ WF_mcvars(Live(Handle(o)))
MCSpec == MCInit /\ [][MCNext]_mcvars /\ MCFairness

(* The types of each, and ConnectingResolves of the session's life, the    *)
(* instance with fairness.                                                 *)
MCTypes ==
  CASE instance = "pairings" -> TypeOK
    [] instance = "life" -> Life!TypeOK
    [] instance = "crowd" -> Crowd!TypeOK
MCConnectingResolves == []MCTypes /\ (instance = "life" => ConnectingResolves)
==============================================================================
