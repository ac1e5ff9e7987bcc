------------------------------ MODULE Settings -------------------------------
(***************************************************************************)
(* The settings of a session: a row, of which the privacy settings are a   *)
(* copy of the account's at WhatsApp.  A request changes them at WhatsApp  *)
(* one by one and then in the row; every connection copies them into the   *)
(* row, in a goroutine of its own.  The library's client (external) asks   *)
(* WhatsApp for them once, answers from its memory from then on, and loses *)
(* it with the process only: a session keeps its client when it reconnects *)
(* or is restarted.  Settings that only the row knows are left out, and so *)
(* are the default disappearing timer, which is written like a privacy     *)
(* setting but never read back, the names the library does not know        *)
(* (last_seen, read_receipts, group_add, call_add), and the loop that      *)
(* shows the account online: it sends presence and changes nothing here.   *)
(***************************************************************************)
EXTENDS Naturals, FiniteSets

CONSTANTS
  Names,       (* privacy settings                                         *)
  Values,      (* their values                                             *)
  Blank,       (* the value of none                                        *)
  Updates,     (* requests that change settings, each sent once            *)
  Links,       (* connections, each made once                              *)
  MaxFailures, (* bound on calls and statements that fail                  *)
  MaxPhone,    (* bound on changes not made here                           *)
  MaxCrashes   (* bound on stops of the process                            *)

ASSUME SettingsAssumption == {MaxFailures, MaxPhone, MaxCrashes} \subseteq Nat

VARIABLES
  account,     (* the privacy settings at WhatsApp                         *)
  memory,      (* what the client remembers of them: there, privacy        *)
  row,         (* the settings' row: there, privacy                        *)
  up,          (* the session is connected                                 *)
  upd,         (* each update: where it is, what it sets and has to set,   *)
               (* the name under way and what the client knew before       *)
  link,        (* each connection: where its goroutine is, what it read,   *)
               (* and if it is alone since                                 *)
  stale,       (* the memory may differ from the account                   *)
  apart,       (* the row may differ from the account                      *)
  spent        (* failures, changes not made here, crashes so far          *)

settingsVars == <<account, memory, row, up, upd, link, stale, apart, spent>>

Privacy == [Names -> Values \cup {Blank}]
Blanks == [n \in Names |-> Blank]
NoRow == [there |-> FALSE, privacy |-> Blanks]
NoUpdate == [at |-> "idle", sets |-> Blanks, todo |-> {}, name |-> Blank, base |-> Blanks]
Answered == [NoUpdate EXCEPT !.at = "done"]
NoLink == [at |-> "idle", read |-> Blanks, alone |-> FALSE]
SettingsBounds == [failures |-> MaxFailures, phone |-> MaxPhone, crashes |-> MaxCrashes]

SettingsTypeOK ==
  /\ account \in Privacy
  /\ {memory, row} \subseteq [there : BOOLEAN, privacy : Privacy]
  /\ {up, stale, apart} \subseteq BOOLEAN
  /\ upd \in [Updates -> [at : {"idle", "apply", "fetch", "answer", "save", "done"},
                          sets : Privacy, todo : SUBSET Names, name : Names \cup {Blank},
                          base : Privacy]]
  /\ link \in [Links -> [at : {"idle", "read", "fetch", "write", "done"}, read : Privacy,
                         alone : BOOLEAN]]
  /\ \A k \in DOMAIN SettingsBounds : spent[k] \in 0 .. SettingsBounds[k]

SettingsInit ==
  /\ account \in [Names -> Values] /\ memory = NoRow /\ row = NoRow /\ up = FALSE
  /\ upd = [u \in Updates |-> NoUpdate]
  /\ link = [k \in Links |-> NoLink]
  /\ stale = FALSE /\ apart = TRUE /\ spent = [k \in DOMAIN SettingsBounds |-> 0]

Spends(k) == spent[k] < SettingsBounds[k] /\ spent' = [spent EXCEPT ![k] = @ + 1]

(* Updates and copies under way; what happens meanwhile is not alone.      *)
AtWork == {"apply", "fetch", "answer", "save"}
Active == \E u \in Updates : upd[u].at \in AtWork
Copying == \E k \in Links : link[k].at \in {"fetch", "write"}
Joined == [k \in Links |-> [link[k] EXCEPT !.alone = FALSE]]
Remembers(privacy) == [there |-> TRUE, privacy |-> privacy]

(* UpdateSettings: without a row the request ends (404); else each privacy *)
(* setting given is set at WhatsApp, in no certain order;                  *)
Change(u) ==
  /\ upd[u].at = "idle"
  /\ IF row.there
       THEN /\ \E sets \in Privacy :
                 upd' = [upd EXCEPT ![u] = [NoUpdate EXCEPT !.at = "apply", !.sets = sets,
                                             !.todo = {n \in Names : sets[n] # Blank}]]
            /\ stale' = (stale \/ Active)
            /\ apart' = (apart \/ Active \/ Copying) /\ link' = Joined
       ELSE upd' = [upd EXCEPT ![u] = Answered] /\ UNCHANGED <<link, stale, apart>>
  /\ UNCHANGED <<account, memory, row, up, spent>>
(* the library's SetPrivacySetting first looks up what the settings are,   *)
(* in its memory or at WhatsApp, which it then remembers,                  *)
Starts(u, n, at) ==
  upd' = [upd EXCEPT ![u].at = at, ![u].name = n,
                     ![u].base = IF memory.there THEN memory.privacy ELSE account]
Apply(u, n) ==
  /\ upd[u].at = "apply" /\ n \in upd[u].todo /\ up
  /\ IF memory.there
       THEN Starts(u, n, "answer") /\ account' = [account EXCEPT ![n] = upd[u].sets[n]]
       ELSE Starts(u, n, "fetch") /\ UNCHANGED account
  /\ UNCHANGED <<memory, row, up, link, stale, apart, spent>>
Fetched(u) ==
  /\ upd[u].at = "fetch" /\ up
  /\ memory' = Remembers(upd[u].base)
  /\ account' = [account EXCEPT ![upd[u].name] = upd[u].sets[upd[u].name]]
  /\ upd' = [upd EXCEPT ![u].at = "answer"]
  /\ UNCHANGED <<row, up, link, stale, apart, spent>>
(* and when WhatsApp has answered remembers those, with the one changed;   *)
Confirmed(u) ==
  /\ upd[u].at = "answer"
  /\ LET n == upd[u].name IN
       /\ memory' = Remembers([upd[u].base EXCEPT ![n] = upd[u].sets[n]])
       /\ upd' = [upd EXCEPT ![u].at = "apply", ![u].todo = @ \ {n}]
  /\ UNCHANGED <<account, row, up, link, stale, apart, spent>>
(* the first that fails ends the request (500), the row unchanged and a    *)
(* change at WhatsApp perhaps made, of which the client does not know.     *)
ApplyFails(u) ==
  /\ \/ upd[u].at = "apply" /\ upd[u].todo # {} /\ UNCHANGED memory
     \/ upd[u].at = "fetch" /\ memory' \in {memory, Remembers(upd[u].base)}
     \/ upd[u].at = "answer" /\ UNCHANGED memory
  /\ IF up THEN Spends("failures") ELSE UNCHANGED spent
  /\ upd' = [upd EXCEPT ![u] = Answered]
  /\ stale' = (stale \/ upd[u].at = "answer") /\ apart' = TRUE
  /\ UNCHANGED <<account, row, up, link>>
Applied(u) ==
  /\ upd[u].at = "apply" /\ upd[u].todo = {}
  /\ upd' = [upd EXCEPT ![u].at = "save"]
  /\ UNCHANGED <<account, memory, row, up, link, stale, apart, spent>>

Merged(u) == [n \in Names |-> IF upd[u].sets[n] = Blank THEN row.privacy[n] ELSE upd[u].sets[n]]
(* and all that was given is then written to the row, in one statement.    *)
Save(u) ==
  /\ upd[u].at = "save"
  /\ upd' = [upd EXCEPT ![u] = Answered]
  /\ \/ /\ row' = [row EXCEPT !.privacy = Merged(u)]
        /\ UNCHANGED <<apart, spent>>
     \/ Spends("failures") /\ apart' = TRUE /\ UNCHANGED row
  /\ UNCHANGED <<account, memory, up, link, stale>>

(* handleConnected: EnsureExists makes the row, if the database lets it,   *)
(* and a goroutine is started.                                             *)
Connect(k) ==
  /\ link[k].at = "idle" /\ up' = TRUE
  /\ link' = [link EXCEPT ![k].at = "read"]
  /\ \/ row' = [row EXCEPT !.there = TRUE] /\ UNCHANGED spent
     \/ Spends("failures") /\ UNCHANGED row
  /\ UNCHANGED <<account, memory, upd, stale, apart>>
Disconnect ==
  /\ up /\ up' = FALSE
  /\ UNCHANGED <<account, memory, row, upd, link, stale, apart, spent>>

(* The goroutine asks the library for the account's settings: those it     *)
(* remembers, or else WhatsApp's, which it then remembers, or blank ones   *)
(* when it cannot get them; without a connection the copy is left out.     *)
Read(k) ==
  /\ link[k].at = "read" /\ up
  /\ LET privacy == IF memory.there THEN memory.privacy ELSE account
         alone == ~(Active \/ Copying) /\ (memory.there => ~stale)
     IN link' = [Joined EXCEPT ![k] = [at |-> IF memory.there THEN "write" ELSE "fetch",
                                        read |-> privacy, alone |-> alone]]
  /\ apart' = (apart \/ Active \/ Copying)
  /\ UNCHANGED <<account, memory, row, up, upd, stale, spent>>
ReadStored(k) ==
  /\ link[k].at = "fetch"
  /\ memory' = Remembers(link[k].read) /\ stale' = ~link[k].alone
  /\ link' = [link EXCEPT ![k].at = "write"]
  /\ UNCHANGED <<account, row, up, upd, apart, spent>>
ReadFails(k) ==
  /\ link[k].at = "fetch"
  /\ IF up THEN Spends("failures") ELSE UNCHANGED spent
  /\ link' = [link EXCEPT ![k] = [NoLink EXCEPT !.at = "write"]]
  /\ UNCHANGED <<account, memory, row, up, upd, stale, apart>>
ReadNothing(k) ==
  /\ link[k].at = "read" /\ ~up
  /\ link' = [link EXCEPT ![k].at = "done"]
  /\ UNCHANGED <<account, memory, row, up, upd, stale, apart, spent>>

(* Mutant: the statement leaves one of the columns out.                    *)
AllButOne(k) ==
  LET n == CHOOSE n \in Names : TRUE IN [link[k].read EXCEPT ![n] = row.privacy[n]]

(* SyncPrivacyFromWhatsApp: one statement on all of them, which finds no   *)
(* row if none was made.                                                   *)
Copied(k) == link[k].read
Write(k) ==
  /\ link[k].at = "write"
  /\ link' = [link EXCEPT ![k] = [NoLink EXCEPT !.at = "done"]]
  /\ \/ /\ row.there /\ row' = [row EXCEPT !.privacy = Copied(k)]
        /\ apart' = ~link[k].alone /\ UNCHANGED spent
     \/ /\ IF row.there THEN Spends("failures") ELSE UNCHANGED spent
        /\ UNCHANGED <<row, apart>>
  /\ UNCHANGED <<account, memory, up, upd, stale>>

(* Settings are changed on the phone, or the session is logged out and     *)
(* another account paired.  WhatsApp tells the client of a change on the   *)
(* phone, which it remembers if it hears of it; the program only logs it.  *)
PhoneChanges ==
  /\ Spends("phone")
  /\ account' \in [Names -> Values] \ {account}
  /\ \/ UNCHANGED memory /\ stale' = (stale \/ memory.there \/ Active)
     \/ /\ up /\ stale' = (stale \/ Active)
        /\ LET Was == IF memory.there THEN memory.privacy ELSE account' IN
            memory' = Remembers([n \in Names |->
                        IF account'[n] # account[n] THEN account'[n] ELSE Was[n]])
  /\ apart' = TRUE /\ link' = Joined
  /\ UNCHANGED <<row, up, upd>>

(* The process stops: what runs in it ends, and its client is gone.        *)
Crash ==
  /\ Spends("crashes") /\ up' = FALSE
  /\ memory' = NoRow /\ stale' = FALSE
  /\ upd' = [u \in Updates |-> IF upd[u].at \in AtWork THEN Answered ELSE upd[u]]
  /\ link' = [k \in Links |-> IF link[k].at = "idle" THEN link[k] ELSE [NoLink EXCEPT !.at = "done"]]
  /\ apart' = (apart \/ Active)
  /\ UNCHANGED <<account, row>>

SettingsNext ==
  \/ \E u \in Updates :
       \/ Change(u) \/ Fetched(u) \/ Confirmed(u) \/ ApplyFails(u) \/ Applied(u) \/ Save(u)
       \/ \E n \in Names : Apply(u, n)
  \/ \E k \in Links : \/ Connect(k) \/ Read(k) \/ ReadStored(k) \/ ReadFails(k)
                      \/ ReadNothing(k) \/ Write(k)
  \/ PhoneChanges \/ Disconnect \/ Crash

SettingsSpec == SettingsInit /\ [][SettingsNext]_settingsVars

------------------------------------------------------------------------------
(* Properties.                                                             *)

(* Once a connection has copied the account's settings with no request at  *)
(* work meanwhile, from WhatsApp or from a client whose memory of them is  *)
(* right, the row agrees with WhatsApp whenever no request changes them,   *)
(* until one fails, two of them overlap, or a setting is changed           *)
(* elsewhere; and the next such copy mends the row.  The memory is right   *)
(* until the answer to a change is lost, two users of it overlap or the    *)
(* client misses a change; then every copy is as wrong as the memory, and  *)
(* only the copy of another process mends the row.                         *)
PrivacyAgrees == row.there /\ ~apart /\ ~Active => row.privacy = account
==============================================================================
