------------------------------- MODULE Limiter -------------------------------
(***************************************************************************)
(* The rate limiter in front of all routes: a token bucket for each client *)
(* (an API key or an address), made at its first request and removed after *)
(* an idle time.  The bucket itself is golang.org/x/time/rate: it fills by *)
(* Rate tokens in a tick of the clock, up to Burst.  A request looks its   *)
(* bucket up and takes a token in one step: it does not stall between the  *)
(* two for as long as a bucket must be idle to be removed.  The usual      *)
(* names carry that of the module: it is extended beside others.           *)
(***************************************************************************)
EXTENDS Integers

CONSTANTS
  Clients,     (* what getClientKey distinguishes                          *)
  Rate,        (* RequestsPerSecond, in tokens a tick                      *)
  Burst,       (* the capacity of a bucket                                 *)
  TTL,         (* ticks after which an idle bucket is removed              *)
  MaxTicks     (* bound on the clock                                       *)

(* A bucket idle for longer than TTL has filled up: by default 200 tokens  *)
(* a second for ten minutes against a capacity of 500.                     *)
ASSUME LimiterAssumption ==
  /\ Rate \in Nat /\ Burst \in Nat \ {0} /\ TTL \in Nat /\ MaxTicks \in Nat
  /\ Rate * (TTL + 1) >= Burst

VARIABLES
  now,         (* ticks so far                                             *)
  bucket,      (* of each client: its bucket, there or not, the tokens in  *)
               (* it and the ticks since its last request                  *)
  watched      (* of each client, over a stretch of time that began at any *)
               (* moment: the requests let through, and those allowed      *)

limiterVars == <<now, bucket, watched>>

NoBucket == [there |-> FALSE, tokens |-> Burst, idle |-> 0]

LimiterTypeOK ==
  /\ now \in 0 .. MaxTicks
  /\ bucket \in [Clients -> [there : BOOLEAN, tokens : 0 .. Burst, idle : Nat]]
  /\ watched \in [Clients -> [passed : Nat, allowed : Nat]]

LimiterInit ==
  /\ now = 0
  /\ bucket = [c \in Clients |-> NoBucket]
  /\ watched = [c \in Clients |-> [passed |-> 0, allowed |-> Burst]]

(* Mutant: only a new bucket is given the time of its request.             *)
SeenOnce(c, n) == [there |-> TRUE, tokens |-> n, idle |-> bucket[c].idle]

(* getClient: the bucket of the client, new and full if it has none, with  *)
(* n tokens left.                                                          *)
Seen(c, n) == [there |-> TRUE, tokens |-> n, idle |-> 0]
(* Middleware: Allow takes a token; without one the request is answered    *)
(* 429 and the handlers after it do not run.                               *)
Allow(c) ==
  /\ bucket[c].tokens > 0
  /\ bucket' = [bucket EXCEPT ![c] = Seen(c, bucket[c].tokens - 1)]
  /\ watched' = [watched EXCEPT ![c].passed = @ + 1]
  /\ UNCHANGED now
TooMany(c) ==
  /\ bucket[c].tokens = 0
  /\ bucket' = [bucket EXCEPT ![c] = Seen(c, 0)]
  /\ UNCHANGED <<now, watched>>

(* cleanup, every CleanupInterval.                                         *)
Cleanup ==
  /\ bucket' = [c \in Clients |->
       IF bucket[c].there /\ bucket[c].idle > TTL THEN NoBucket ELSE bucket[c]]
  /\ UNCHANGED <<now, watched>>

(* The clock: buckets fill.                                                *)
Fill(n) == IF n + Rate < Burst THEN n + Rate ELSE Burst
Tick ==
  /\ now < MaxTicks /\ now' = now + 1
  /\ bucket' = [c \in Clients |->
       IF bucket[c].there
         THEN [there |-> TRUE, tokens |-> Fill(bucket[c].tokens), idle |-> bucket[c].idle + 1]
         ELSE bucket[c]]
  /\ watched' = [c \in Clients |-> [watched[c] EXCEPT !.allowed = @ + Rate]]

(* A stretch of time begins to be watched.                                 *)
Watch(c) ==
  /\ watched' = [watched EXCEPT ![c] = [passed |-> 0, allowed |-> Burst]]
  /\ UNCHANGED <<now, bucket>>

LimiterNext ==
  \/ \E c \in Clients : Allow(c) \/ TooMany(c) \/ Watch(c)
  \/ Cleanup \/ Tick
LimiterSpec == LimiterInit /\ [][LimiterNext]_limiterVars

------------------------------------------------------------------------------
(* Properties.                                                             *)

(* In every stretch of time a client gets at most Burst requests through   *)
(* and Rate more for each tick of it: that idle buckets are removed and    *)
(* made anew, full, gives no client more.                                  *)
WithinRate == \A c \in Clients : watched[c].passed <= watched[c].allowed
==============================================================================
