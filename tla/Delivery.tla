------------------------------ MODULE Delivery ------------------------------
(***************************************************************************)
(* What internal/queue promises about one work queue, without the broker,  *)
(* the consumer loop or its batches: an accepted message is owed a         *)
(* successful handler call.  The debt ends with such a call, or once the   *)
(* MaxRetries dispatches the message is entitled to are used up, or when   *)
(* the stream drops the message for its age.                               *)
(***************************************************************************)
EXTENDS Naturals

CONSTANTS
  Msgs,         (* messages producers may publish         *)
  MaxRetries    (* dispatches a message is entitled to    *)

VARIABLES
  accepted,     (* messages the queue took responsibility for      *)
  owed,         (* accepted messages that still await settlement   *)
  budget,       (* dispatches left, per message                    *)
  done,         (* messages a handler processed successfully       *)
  dead,         (* messages handed to the dead letter queue        *)
  aged          (* messages the stream dropped for their age       *)

dvars == <<accepted, owed, budget, done, dead, aged>>

Init ==
  /\ accepted = {}
  /\ owed = {}
  /\ budget = [m \in Msgs |-> MaxRetries]
  /\ done = {}
  /\ dead = {}
  /\ aged = {}

Accept(m) ==
  /\ m \notin accepted
  /\ accepted' = accepted \cup {m}
  /\ owed' = owed \cup {m}
  /\ UNCHANGED <<budget, done, dead, aged>>

Dispatch(m) ==
  /\ m \in owed
  /\ budget[m] > 0
  /\ budget' = [budget EXCEPT ![m] = @ - 1]
  /\ UNCHANGED <<accepted, owed, done, dead, aged>>

(* A call that succeeds settles the message, unless the news is lost and   *)
(* the message stays owed: delivery is at least once.                      *)
Succeed(m) ==
  /\ m \in accepted
  /\ done' = done \cup {m}
  /\ owed' \in {owed, owed \ {m}}
  /\ UNCHANGED <<accepted, budget, dead, aged>>

GiveUp(m) ==
  /\ m \in accepted
  /\ budget[m] = 0
  /\ dead' \in {dead, dead \cup {m}}
  /\ owed' \in {owed, owed \ {m}}
  /\ UNCHANGED <<accepted, budget, done, aged>>

(* The age limit of the stream drops a message nobody settled in time.     *)
Forget(m) ==
  /\ m \in owed
  /\ owed' = owed \ {m}
  /\ aged' = aged \cup {m}
  /\ UNCHANGED <<accepted, budget, done, dead>>

Next ==
  \E m \in Msgs :
    \/ Accept(m)
    \/ Dispatch(m)
    \/ Succeed(m)
    \/ GiveUp(m)
    \/ Forget(m)

Spec == Init /\ [][Next]_dvars
=============================================================================
