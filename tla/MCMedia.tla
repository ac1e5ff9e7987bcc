------------------------------- MODULE MCMedia -------------------------------
(* Three small instances of Media in one run.  "loop" (the constants of    *)
(* the cfg): the history loop and events of one session whose paths        *)
(* expire, with a second sync or event while it runs.  "process": the same *)
(* with a "process" request beside it and a failing statement, without     *)
(* answers of the phone.  Both under fairness.  "overlap": requests beside *)
(* the loop, two sessions, a media without key, forced downloads and a     *)
(* crash.                                                                  *)
EXTENDS Media, TLC

CONSTANTS x, y, s1, s2, nobody

TwoMedias == {x, y}
SameSession == x :> s1 @@ y :> s1
None == {}

Process == INSTANCE Media WITH
  MaxEvents <- 1, MaxRequests <- 1, MaxAnswers <- 0, MaxFaults <- 1

Overlap == INSTANCE Media WITH
  SessionOf <- x :> s1 @@ y :> s2, Keyless <- {y}, BatchSize <- 1, EmptyBatches <- 1,
  Forcing <- TRUE,
  MaxEvents <- 2, MaxRequests <- 1, MaxAnswers <- 1, MaxCrashes <- 1

VARIABLE instance  (* which of the three runs; never changes               *)
mcvars == <<vars, instance>>

MCInit ==
  \/ instance = "loop" /\ Init
  \/ instance = "process" /\ Process!Init
  \/ instance = "overlap" /\ Overlap!Init
MCNext ==
  /\ UNCHANGED instance
  /\ \/ instance = "loop" /\ Next
     \/ instance = "process" /\ Process!Next
     \/ instance = "overlap" /\ Overlap!Next

(* Fairness of the loop's run and of the one with a request.               *)
Fair == {"loop", "process"}
Steps(A, B) ==
  /\ (instance = "loop" /\ A) \/ (instance = "process" /\ B)
  /\ UNCHANGED instance
MCFairness ==
  /\ WF_mcvars(Steps(Loop, Process!Loop))
  /\ WF_mcvars(Steps(Alone, Process!Alone))
  /\ SF_mcvars(Steps(LoopIsCutOff, Process!LoopIsCutOff))
  /\ \A w \in Workers : WF_mcvars(Steps(Batch(w), Process!Batch(w)))
MCSpec == MCInit /\ [][MCNext]_mcvars /\ MCFairness

(* The types of the instance that runs, and HistoryMediaTried of those     *)
(* with fairness.                                                          *)
MCTypes ==
  CASE instance = "loop" -> TypeOK
    [] instance = "process" -> Process!TypeOK
    [] instance = "overlap" -> Overlap!TypeOK
MCHistoryMediaTried == []MCTypes /\ (instance \in Fair => HistoryMediaTried)
==============================================================================
