------------------------------ MODULE MCQueue ------------------------------
(* Queue on two small instances, two messages and batches of two each, in  *)
(* one run.  "sound" (the constants of the cfg): a broker that loses       *)
(* nothing, with fairness.  "faulty", on variables of its own: lost        *)
(* acknowledgements, failed publishes and a start that may fail.           *)
(* Beside them Updates, what happens to messages once they went through    *)
(* the queue: "album" (the constants of the cfg), an agent's message of    *)
(* two attachments, deleted from both sides, with two goroutines; "chat",  *)
(* one message of the contact that people react to.                        *)
EXTENDS Queue, Updates, TLC

CONSTANTS m1, m2, photo1, photo2, albumPost, word, wordPost

TwoMsgs == {m1, m2}
StartsAlways == {"on"}
StartsAnyhow == {"on", "off", "cancelled"}

VARIABLES
  fproc, floop, frestarts, fstored, fdc, fpull, fbuf, fhand, fdlq, ffallback,
  fattempts, fhandled
Faulty == INSTANCE Queue WITH
  proc <- fproc, loop <- floop, restarts <- frestarts, stored <- fstored, dc <- fdc,
  pull <- fpull, buf <- fbuf, hand <- fhand, dlq <- fdlq, fallback <- ffallback,
  attempts <- fattempts, handled <- fhandled,
  StartOutcomes <- StartsAnyhow, BrokerFaults <- TRUE, MaxRetries <- 3
fvars == <<fproc, floop, frestarts, fstored, fdc, fpull, fbuf, fhand, fdlq,
           ffallback, fattempts, fhandled>>

AlbumPosts == [m \in {photo1, photo2} |-> albumPost]
VARIABLES
  cwa, cevents, chandler, crow, cmarked, csending, cpost, chooks, cwork, ccount
Chat == INSTANCE Updates WITH
  wa <- cwa, events <- cevents, handler <- chandler, row <- crow, marked <- cmarked,
  sending <- csending, post <- cpost, hooks <- chooks, work <- cwork, count <- ccount,
  Album <- {}, Theirs <- {word}, Posts <- {wordPost}, PostOf <- [m \in {word} |-> wordPost],
  Emojis <- {"like", "love"}, Goroutines <- {"g1"}, MaxReacts <- 2, MaxRevokes <- 1,
  MaxSyncs <- 1, MaxApi <- 1, MaxFailures <- 1
chatVars == <<cwa, cevents, chandler, crow, cmarked, csending, cpost, chooks, cwork, ccount>>

VARIABLE instance  (* which of the four runs; never changes                *)
mcvars == <<vars, fvars, updatesVars, chatVars, instance>>

MCInit ==
  /\ instance \in {"sound", "faulty", "album", "chat"}
  /\ Init /\ Faulty!Init /\ UpdatesInit /\ Chat!UpdatesInit
MCNext ==
  /\ UNCHANGED instance
  /\ \/ instance = "sound" /\ Next /\ UNCHANGED <<fvars, updatesVars, chatVars>>
     \/ instance = "faulty" /\ Faulty!Next /\ UNCHANGED <<vars, updatesVars, chatVars>>
     \/ instance = "album" /\ UpdatesNext /\ UNCHANGED <<vars, fvars, chatVars>>
     \/ instance = "chat" /\ Chat!UpdatesNext /\ UNCHANGED <<vars, fvars, updatesVars>>

Sound(A) == instance = "sound" /\ A /\ UNCHANGED <<fvars, updatesVars, chatVars, instance>>
MCFairness ==
  /\ WF_mcvars(Sound(Start)) /\ WF_mcvars(Sound(LoopReturns))
  /\ WF_mcvars(Sound(Exit)) /\ WF_mcvars(Sound(Fetch))
  /\ WF_mcvars(Sound(FetchExpires)) /\ WF_mcvars(Sound(Take))
  /\ WF_mcvars(Sound(Handle))
  /\ \A m \in Msgs :
       SF_mcvars(Sound(Deliver(m))) /\ WF_mcvars(Sound(AckExpires(m)))
MCSpec == MCInit /\ [][MCNext]_mcvars /\ MCFairness

(* SettlesOrStranded of the instance with fairness; of the others what     *)
(* holds at every state: with a broker that loses acknowledgements a step  *)
(* is still one of Delivery, the rows of the chat are true, and the values *)
(* have their types.                                                       *)
MCSettlesOrStranded ==
  /\ instance = "sound" => SettlesOrStranded
  /\ Faulty!ImplementsDelivery
  /\ [](TypeOK /\ UpdatesTypeOK /\ Chat!UpdatesTypeOK /\ Chat!RowsAreTrue)
============================================================================
