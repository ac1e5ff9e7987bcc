------------------------------- MODULE Contacts -------------------------------
(***************************************************************************)
(* How the bridge finds the Chatwoot contact and conversation of a chat    *)
(* (ContactManager.GetOrCreateContactAndConversation and the client calls  *)
(* it makes): a cache of contacts, a lock per chat for those who look one  *)
(* up, a wait of five seconds for the others, and a second try when a      *)
(* cached contact turns out to be deleted.  A Brazilian person may write   *)
(* under two numbers, whose contacts the look-up merges.  Names and        *)
(* pictures of contacts are left out.                                      *)
(***************************************************************************)
EXTENDS Naturals, Sequences, FiniteSets, FiniteSetsExt

CONSTANTS
  Jids,         (* chats of one session                                    *)
  Groups,       (* those that are groups                                   *)
  NumberOf,     (* the person behind each: two numbers may be of one       *)
  LongForm,     (* the numbers with the ninth digit                        *)
  MergeBr,      (* cfg.MergeBrPhones                                       *)
  AutoReopen,   (* cfg.AutoReopen                                          *)
  Known,        (* chats that have a contact when the process starts       *)
  Callers,      (* messages bridged at a time                              *)
  Nobody,       (* no caller, no chat                                      *)
  Faults,       (* whether calls to Chatwoot may fail                      *)
  MaxCalls,     (* bound on calls                                          *)
  MaxDeletes,   (* bound on contacts deleted in Chatwoot                   *)
  MaxResolves,  (* bound on conversations resolved by agents               *)
  MaxExpiries   (* bound on entries that expire                            *)

ASSUME ContactsAssumption ==
  /\ Groups \subseteq Jids /\ LongForm \subseteq Jids /\ Known \subseteq Jids
  /\ NumberOf \in [Jids -> Jids] /\ IsFiniteSet(Known)
  /\ Nobody \notin Callers \cup Jids
  /\ {MergeBr, AutoReopen, Faults} \subseteq BOOLEAN
  /\ {MaxCalls, MaxDeletes, MaxResolves, MaxExpiries} \subseteq Nat

VARIABLES
  cache,     (* of each chat: the cached contact, or 0, and if it is fresh *)
  lock,      (* of each chat: the call that holds its lock                 *)
  call,      (* of each caller: the call it makes                          *)
  contacts,  (* Chatwoot: all contacts there were                          *)
  convs,     (* Chatwoot: all conversations there were                     *)
  count      (* calls, deletes, resolves, expiries so far                  *)

vars == <<cache, lock, call, contacts, convs, count>>

Absent == [id |-> 0, fresh |-> FALSE]
(* id, old: the contact a look-up found, and the identifier it was read    *)
(* with; merge: the one to be merged into it.                              *)
Idle == [pc |-> "idle", jid |-> Nobody, used |-> FALSE, id |-> 0, old |-> Nobody,
         merge |-> 0]
Bounds == [calls |-> MaxCalls, deletes |-> MaxDeletes, resolves |-> MaxResolves,
           expiries |-> MaxExpiries]

Ids == 1 .. Len(contacts)
LookUp == {"find", "search", "merge", "update", "identify", "create", "store"}

TypeOK ==
  /\ cache \in [Jids -> [id : {0} \cup Ids, fresh : BOOLEAN]]
  /\ lock \in [Jids -> Callers \cup {Nobody}]
  /\ call \in [Callers ->
       [pc : {"idle", "check", "lock", "recheck", "wait", "list", "converse", "gone",
              "done", "failed", "late"} \cup LookUp,
        jid : Jids \cup {Nobody}, used : BOOLEAN, id : {0} \cup Ids,
        old : Jids \cup {Nobody}, merge : {0} \cup Ids]]
  /\ contacts \in Seq([phone : Jids \cup {Nobody}, ident : Jids \cup {Nobody},
                       alive : BOOLEAN])
  /\ convs \in Seq([contact : Ids, open : BOOLEAN])
  /\ count \in [DOMAIN Bounds -> Nat]
  /\ \A k \in DOMAIN Bounds : count[k] <= Bounds[k]

(* A contact known at the start has a number, and no identifier yet.       *)
Init ==
  /\ cache = [j \in Jids |-> Absent]
  /\ lock = [j \in Jids |-> Nobody]
  /\ call = [c \in Callers |-> Idle]
  /\ contacts \in {s \in [1 .. Cardinality(Known) ->
                            [phone : Known, ident : {Nobody}, alive : {TRUE}]] :
                     {s[i].phone : i \in DOMAIN s} = Known}
  /\ convs = <<>>
  /\ count = [k \in DOMAIN Bounds |-> 0]

Counts(k) == count[k] < Bounds[k] /\ count' = [count EXCEPT ![k] = @ + 1]

------------------------------------------------------------------------------
(* The cache and the lock.                                                 *)

Jid(c) == call[c].jid
At(c, pc) == call[c].pc = pc
Goes(c, pc) == call' = [call EXCEPT ![c].pc = pc]
UsesCache(c) ==
  call' = [call EXCEPT ![c].pc = "list", ![c].used = TRUE, ![c].id = cache[Jid(c)].id]

Begin(c, j) ==
  /\ At(c, "idle")
  /\ Counts("calls")
  /\ call' = [call EXCEPT ![c] = [Idle EXCEPT !.pc = "check", !.jid = j]]
  /\ UNCHANGED <<cache, lock, contacts, convs>>

(* The first look into the cache; an entry past its eight hours is dropped.*)
Check(c) ==
  /\ At(c, "check")
  /\ LET j == Jid(c) IN
       \/ cache[j].fresh /\ UsesCache(c) /\ UNCHANGED cache
       \/ ~cache[j].fresh /\ Goes(c, "lock") /\ cache' = [cache EXCEPT ![j] = Absent]
  /\ UNCHANGED <<lock, contacts, convs, count>>

(* LoadOrStore: one caller gets the lock, the others wait.                 *)
Lock(c) ==
  /\ At(c, "lock")
  /\ LET j == Jid(c) IN
       \/ /\ lock[j] = Nobody
          /\ lock' = [lock EXCEPT ![j] = c] /\ Goes(c, "recheck")
       \/ lock[j] # Nobody /\ Goes(c, "wait") /\ UNCHANGED lock
  /\ UNCHANGED <<cache, contacts, convs, count>>

Recheck(c) ==
  /\ At(c, "recheck")
  /\ \/ cache[Jid(c)].fresh /\ UsesCache(c)
     \/ ~cache[Jid(c)].fresh
        /\ Goes(c, IF MergeBr /\ Jid(c) \notin Groups THEN "search" ELSE "find")
  /\ UNCHANGED <<cache, lock, contacts, convs, count>>

WaitHit(c) ==
  /\ At(c, "wait") /\ cache[Jid(c)].fresh
  /\ UsesCache(c)
  /\ UNCHANGED <<cache, lock, contacts, convs, count>>

(* Mutant: who waits does so for as long as the lock is held.              *)
WaitForLock(c) ==
  /\ At(c, "wait") /\ lock[Jid(c)] = Nobody
  /\ Goes(c, "late")
  /\ UNCHANGED <<cache, lock, contacts, convs, count>>

(* Fifty looks into the cache found nothing.                               *)
WaitLong(c) ==
  /\ At(c, "wait")
  /\ Goes(c, "late")
  /\ UNCHANGED <<cache, lock, contacts, convs, count>>

------------------------------------------------------------------------------
(* The look-up: GetOrCreateContactWithMerge.                               *)

Fails(c) == Faults /\ Goes(c, "failed")
Living == {i \in Ids : contacts[i].alive}
Taken(f, j, i) == j # Nobody /\ \E k \in Living \ {i} : contacts[k][f] = j
Phone(c) == IF Jid(c) \in Groups THEN Nobody ELSE Jid(c)

(* Contact i was found, for a group or with the identifier of the chat.    *)
Found(c, i, m) ==
  call' = [call EXCEPT ![c].id = i, ![c].old = contacts[i].ident, ![c].merge = m,
                       ![c].pc = IF m # 0 THEN "merge"
                                 ELSE IF contacts[i].ident = Jid(c) THEN "store"
                                 ELSE "update"]

(* SearchContactsForBrazilianMerge: by both forms of the number, in the    *)
(* order of Chatwoot.  Of two, the second is the base if it is of the long *)
(* form, else the first.                                                   *)
Search(c) ==
  /\ At(c, "search")
  /\ LET S == {i \in Living : contacts[i].phone # Nobody
                              /\ NumberOf[contacts[i].phone] = NumberOf[Jid(c)]}
     IN \/ /\ Cardinality(S) = 2
           /\ \E p \in S : LET q == CHOOSE k \in S : k # p IN
                IF contacts[q].phone \in LongForm THEN Found(c, q, p) ELSE Found(c, p, q)
        \/ Cardinality(S) = 1 /\ Found(c, Min(S), 0)
        \/ S = {} /\ Goes(c, "find")
        \/ Fails(c)
  /\ UNCHANGED <<cache, lock, contacts, convs, count>>

(* Mutant: the first result of the search by identifier is taken.          *)
FindFirst(c) ==
  /\ At(c, "find")
  /\ \/ \E i \in Living : Found(c, i, 0)
     \/ Living = {} /\ Goes(c, "create")
     \/ Fails(c)
  /\ UNCHANGED <<cache, lock, contacts, convs, count>>

(* FindContactByPhone, then FindContactByIdentifier; only the latter after *)
(* a search and for groups.                                                *)
Find(c) ==
  /\ At(c, "find")
  /\ LET P == {i \in Living : Phone(c) # Nobody /\ contacts[i].phone = Phone(c)}
         I == {i \in Living : contacts[i].ident = Jid(c)}
         S == IF MergeBr \/ P = {} THEN I ELSE P
     IN \/ \E i \in S : Found(c, i, 0)
        \/ S = {} /\ Goes(c, "create")
        \/ Fails(c)
  /\ UNCHANGED <<cache, lock, contacts, convs, count>>

(* MergeContacts: the conversations go to the base.  An error is logged.   *)
Merge(c) ==
  /\ At(c, "merge")
  /\ Goes(c, IF call[c].old = Jid(c) THEN "store" ELSE "update")
  /\ LET base == call[c].id  m == call[c].merge IN
       \/ /\ {base, m} \subseteq Living
          /\ contacts' = [contacts EXCEPT
               ![m].alive = FALSE,
               ![base].ident = IF @ = Nobody THEN contacts[m].ident ELSE @]
          /\ convs' = [i \in DOMAIN convs |-> IF convs[i].contact = m
                       THEN [convs[i] EXCEPT !.contact = base] ELSE convs[i]]
       \/ /\ Faults \/ ~({base, m} \subseteq Living)
          /\ UNCHANGED <<contacts, convs>>
  /\ UNCHANGED <<cache, lock, count>>

(* UpdateContact with identifier and number; Chatwoot refuses what another *)
(* contact has.  An error is logged, and the caller's update tries the     *)
(* identifier alone.                                                       *)
Update(c) ==
  /\ At(c, "update")
  /\ LET i == call[c].id  j == Jid(c) IN
       \/ /\ i \in Living /\ ~Taken("ident", j, i) /\ ~Taken("phone", Phone(c), i)
          /\ contacts' = [contacts EXCEPT ![i].ident = j, ![i].phone = Phone(c)]
          /\ Goes(c, "store")
       \/ /\ Faults \/ i \notin Living \/ Taken("ident", j, i) \/ Taken("phone", Phone(c), i)
          /\ Goes(c, "identify") /\ UNCHANGED contacts
  /\ UNCHANGED <<cache, lock, convs, count>>

Identify(c) ==
  /\ At(c, "identify")
  /\ Goes(c, "store")
  /\ LET i == call[c].id  j == Jid(c) IN
       \/ /\ i \in Living /\ ~Taken("ident", j, i)
          /\ contacts' = [contacts EXCEPT ![i].ident = j]
       \/ /\ Faults \/ i \notin Living \/ Taken("ident", j, i)
          /\ UNCHANGED contacts
  /\ UNCHANGED <<cache, lock, convs, count>>

Refused(c) == Taken("phone", Phone(c), 0) \/ Taken("ident", Jid(c), 0)

Create(c) ==
  /\ At(c, "create")
  /\ \/ /\ ~Refused(c)
        /\ contacts' = Append(contacts, [phone |-> Phone(c), ident |-> Jid(c),
                                         alive |-> TRUE])
        /\ call' = [call EXCEPT ![c].pc = "store", ![c].id = Len(contacts) + 1]
     \/ Refused(c) /\ Goes(c, "failed") /\ UNCHANGED contacts
     \/ Fails(c) /\ UNCHANGED contacts
  /\ UNCHANGED <<cache, lock, convs, count>>

Store(c) ==
  /\ At(c, "store")
  /\ cache' = [cache EXCEPT ![Jid(c)] = [id |-> call[c].id, fresh |-> TRUE]]
  /\ Goes(c, "list")
  /\ UNCHANGED <<lock, contacts, convs, count>>

------------------------------------------------------------------------------
(* The conversation: GetOrCreateConversationWithInfo.                      *)

Usable(i) == AutoReopen \/ convs[i].open
ConvsOf(id) == {i \in DOMAIN convs : convs[i].contact = id}

(* A deleted contact: the second try of a caller that used the cache, the  *)
(* end for one that did not.                                               *)
NotFound(c) == Goes(c, IF call[c].used THEN "gone" ELSE "failed")

List(c) ==
  /\ At(c, "list")
  /\ LET id == call[c].id IN
       \/ id \in Living /\ (\E i \in ConvsOf(id) : Usable(i)) /\ Goes(c, "done")
       \/ id \in Living /\ (\A i \in ConvsOf(id) : ~Usable(i)) /\ Goes(c, "converse")
       \/ id \notin Living /\ NotFound(c)
       \/ Fails(c)
  /\ UNCHANGED <<cache, lock, contacts, convs, count>>

Converse(c) ==
  /\ At(c, "converse")
  /\ LET id == call[c].id IN
       \/ /\ id \in Living
          /\ convs' = Append(convs, [contact |-> id, open |-> TRUE])
          /\ Goes(c, "done")
       \/ id \notin Living /\ NotFound(c) /\ UNCHANGED convs
       \/ Fails(c) /\ UNCHANGED convs
  /\ UNCHANGED <<cache, lock, contacts, count>>

(* Mutant: the second try gives the lock back first, whoever has it.       *)
RetryUnlocks(c) ==
  /\ At(c, "gone")
  /\ cache' = [cache EXCEPT ![Jid(c)] = Absent]
  /\ lock' = [lock EXCEPT ![Jid(c)] = Nobody]
  /\ call' = [call EXCEPT ![c] = [Idle EXCEPT !.pc = "check", !.jid = Jid(c)]]
  /\ UNCHANGED <<contacts, convs, count>>

(* "cached contact not found (404), invalidating cache and recreating": a  *)
(* call of the function by itself, under the lock the first may hold.      *)
Retry(c) ==
  /\ At(c, "gone")
  /\ cache' = [cache EXCEPT ![Jid(c)] = Absent]
  /\ call' = [call EXCEPT ![c] = [Idle EXCEPT !.pc = "check", !.jid = Jid(c)]]
  /\ UNCHANGED <<lock, contacts, convs, count>>

Unlock(c) == lock' = [j \in Jids |-> IF lock[j] = c THEN Nobody ELSE lock[j]]

(* Mutant: only a call that succeeds gives its lock back.                  *)
ReturnUnlocksIfDone(c) ==
  /\ call[c].pc \in {"done", "failed", "late"}
  /\ IF At(c, "done") THEN Unlock(c) ELSE UNCHANGED lock
  /\ call' = [call EXCEPT ![c] = Idle]
  /\ UNCHANGED <<cache, contacts, convs, count>>

(* The deferred delete of the lock.                                        *)
Return(c) ==
  /\ call[c].pc \in {"done", "failed", "late"}
  /\ Unlock(c)
  /\ call' = [call EXCEPT ![c] = Idle]
  /\ UNCHANGED <<cache, contacts, convs, count>>

------------------------------------------------------------------------------
(* What happens beside the calls.                                          *)

Expire(j) ==
  /\ cache[j].fresh /\ Counts("expiries")
  /\ cache' = [cache EXCEPT ![j].fresh = FALSE]
  /\ UNCHANGED <<lock, call, contacts, convs>>

(* An agent, or the reset of a sync, deletes a contact and with it its     *)
(* conversations.                                                          *)
DeleteContact(i) ==
  /\ i \in Living /\ Counts("deletes")
  /\ contacts' = [contacts EXCEPT ![i].alive = FALSE]
  /\ UNCHANGED <<cache, lock, call, convs>>

Resolve(i) ==
  /\ convs[i].open /\ Counts("resolves")
  /\ convs' = [convs EXCEPT ![i].open = FALSE]
  /\ UNCHANGED <<cache, lock, call, contacts>>

------------------------------------------------------------------------------
Run(c) ==
  \/ Check(c) \/ Lock(c) \/ Recheck(c) \/ WaitHit(c) \/ WaitLong(c)
  \/ Search(c) \/ Find(c) \/ Merge(c) \/ Update(c) \/ Identify(c) \/ Create(c) \/ Store(c)
  \/ List(c) \/ Converse(c) \/ Retry(c) \/ Return(c)

Next ==
  \/ \E c \in Callers : Run(c) \/ \E j \in Jids : Begin(c, j)
  \/ \E j \in Jids : Expire(j)
  \/ (\E i \in Ids : DeleteContact(i)) \/ (\E i \in DOMAIN convs : Resolve(i))

Spec == Init /\ [][Next]_vars

(* Requests to Chatwoot time out after 30 s, the waits after 5 s.          *)
Fairness == \A c \in Callers : WF_vars(Run(c))
FairSpec == Spec /\ Fairness

------------------------------------------------------------------------------
(* At most one call at a time looks a chat's contact up, so that no two    *)
(* create it; also when calls fail and try again.                          *)
OneLookUp ==
  \A c, d \in Callers : c # d /\ Jid(c) = Jid(d) =>
    ~(call[c].pc \in LookUp /\ call[d].pc \in LookUp)

(* A lock belongs to a call for that chat that is still running: none is   *)
(* left behind, whatever way the call took.                                *)
LockHasCall ==
  \A j \in DOMAIN lock : lock[j] # Nobody => ~At(lock[j], "idle") /\ Jid(lock[j]) = j

(* The locks do their work and leave nothing behind.                       *)
LocksWork == OneLookUp /\ LockHasCall

(* A chat's cached contact, and the one a call uses, is of the person of   *)
(* the chat, though merges and updates move numbers between contacts.      *)
IsOf(i, j) ==
  \/ contacts[i].phone # Nobody /\ NumberOf[contacts[i].phone] = NumberOf[j]
  \/ contacts[i].ident # Nobody /\ NumberOf[contacts[i].ident] = NumberOf[j]
UsesOwnContact ==
  /\ \A j \in DOMAIN cache : cache[j].id # 0 => IsOf(cache[j].id, j)
  /\ \A c \in Callers : call[c].id # 0 => IsOf(call[c].id, Jid(c))

(* Every call ends: also one that waits for a lock it holds itself.        *)
CallsEnd == \A c \in Callers : call[c].pc # "idle" ~> call[c].pc = "idle"
==============================================================================
