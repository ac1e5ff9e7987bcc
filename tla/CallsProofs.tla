----------------------------- MODULE CallsProofs -----------------------------
(***************************************************************************)
(* Theorems about Contacts, Limiter, Settings and Requests, a part each,   *)
(* for any chats, callers, clients, settings, requests, bounds and         *)
(* failures.                                                               *)
(***************************************************************************)
EXTENDS Contacts, Limiter, Settings, Requests, FiniteSetTheorems, TLAPS

(* The steps of a call that run under the lock of its chat.                *)
Guarded == LookUp \cup {"recheck"}

Fields == {"pc", "jid", "used", "id", "old", "merge"}

(* Calls have a chat unless they are idle, and the lock of each chat is a  *)
(* caller's or nobody's: all that the lock's invariant needs of the types. *)
Shape ==
  /\ lock \in [Jids -> Callers \cup {Nobody}]
  /\ DOMAIN call = Callers
  /\ \A c \in Callers : DOMAIN call[c] = Fields
  /\ \A c \in Callers : call[c].pc # "idle" => Jid(c) \in Jids

(* A call that looks a contact up holds the lock of its chat.              *)
LookUpHasLock == \A c \in Callers : call[c].pc \in Guarded => lock[Jid(c)] = c

LockInv == Shape /\ LockHasCall /\ LookUpHasLock

(* No step gives a lock to a second call, or lets one look up without it.  *)
LEMMA LockStep == LockInv /\ [Next]_vars => LockInv'
<1> SUFFICES ASSUME LockInv, [Next]_vars PROVE LockInv'
  OBVIOUS
<1> USE ContactsAssumption DEF LockInv, Shape, LockHasCall, LookUpHasLock, Jid, At,
        Guarded, LookUp, Fields
<1>1. ASSUME NEW c \in Callers, NEW j \in Jids, Begin(c, j) PROVE LockInv'
  BY <1>1 DEF Begin, Idle
<1>2. ASSUME NEW c \in Callers, Run(c) PROVE LockInv'
  <2>1. CASE Check(c)
    BY <2>1 DEF Check, UsesCache, Goes
  <2>2. CASE Lock(c)
    BY <2>2 DEF Lock, Goes
  <2>3. CASE Recheck(c)
    BY <2>3 DEF Recheck, UsesCache, Goes
  <2>4. CASE WaitHit(c) \/ WaitLong(c)
    BY <2>4 DEF WaitHit, WaitLong, UsesCache, Goes
  <2>5. CASE Search(c) \/ Find(c)
    <3>1. ASSUME NEW i, NEW m, Found(c, i, m), UNCHANGED lock,
                 call[c].pc \in {"search", "find"}
          PROVE  LockInv'
      BY <3>1 DEF Found
    <3>2. ASSUME NEW pc \in {"find", "create", "failed"}, Goes(c, pc), UNCHANGED lock,
                 call[c].pc \in {"search", "find"}
          PROVE  LockInv'
      BY <3>2 DEF Goes
    <3>3. UNCHANGED lock /\ call[c].pc \in {"search", "find"}
      BY <2>5 DEF Search, Find
    <3>4. \/ \E i, m : Found(c, i, m)
          \/ \E pc \in {"find", "create", "failed"} : Goes(c, pc)
      <4> HIDE DEF LockInv, Shape, LockHasCall, LookUpHasLock
      <4> QED BY <2>5 DEF Search, Find, Fails
    <3> HIDE DEF LockInv
    <3> QED BY <3>1, <3>2, <3>3, <3>4
  <2>6. CASE Merge(c) \/ Update(c) \/ Identify(c)
    BY <2>6 DEF Merge, Update, Identify, Goes, Fails
  <2>7. CASE Create(c) \/ Store(c)
    BY <2>7 DEF Create, Store, Goes, Fails
  <2>8. CASE List(c) \/ Converse(c)
    BY <2>8 DEF List, Converse, NotFound, Goes, Fails
  <2>9. CASE Retry(c)
    BY <2>9 DEF Retry, Idle
  <2>10. CASE Return(c)
    BY <2>10 DEF Return, Unlock, Idle
  <2> QED
    BY <1>2, <2>1, <2>2, <2>3, <2>4, <2>5, <2>6, <2>7, <2>8, <2>9, <2>10 DEF Run
<1>3. ASSUME NEW j \in Jids, Expire(j) PROVE LockInv'
  BY <1>3 DEF Expire
<1>4. ASSUME NEW i, DeleteContact(i) \/ Resolve(i) PROVE LockInv'
  BY <1>4 DEF DeleteContact, Resolve
<1>5. CASE UNCHANGED vars
  BY <1>5 DEF vars
<1> HIDE DEF LockInv
<1> QED BY <1>1, <1>2, <1>3, <1>4, <1>5 DEF Next

(* Nobody calls at first, and no lock is held.                             *)
LEMMA LockInit == Init => LockInv
  BY ContactsAssumption
  DEF Init, Idle, LockInv, Shape, LockHasCall, LookUpHasLock, Jid, At, Guarded, LookUp, Fields

(* The lock's invariant holds throughout.                                  *)
THEOREM Locked == Spec => []LockInv
BY LockInit, LockStep, PTL DEF Spec

(* No lock is left behind, and every lock held is of the chat its call is  *)
(* about: who waits for it waits for somebody.                             *)
THEOREM LocksHaveCalls == Spec => []LockHasCall
<1>1. LockInv => LockHasCall
  BY DEF LockInv
<1> QED BY <1>1, Locked, PTL

(* Two calls never look the same chat up at the same time.                 *)
THEOREM OneAtATime == Spec => []OneLookUp
<1>1. LockInv => OneLookUp
  BY DEF LockInv, LookUpHasLock, OneLookUp, Guarded
<1> QED BY <1>1, Locked, PTL

(* Both, for every set of chats, callers and failing requests: the lock of *)
(* contacts.go excludes look-ups and is given back on every path.          *)
THEOREM LocksDoTheirWork == Spec => []LocksWork
<1>1. OneLookUp /\ LockHasCall => LocksWork
  BY DEF LocksWork
<1> QED BY <1>1, LocksHaveCalls, OneAtATime, PTL
------------------------------------------------------------------------------
(* Contacts are of one person each, and stay theirs.                       *)

Contact == [phone : Jids \cup {Nobody}, ident : Jids \cup {Nobody}, alive : BOOLEAN]

(* What contact i says of its person is of the person of chat j.           *)
Says(i) == {contacts[i].phone, contacts[i].ident} \ {Nobody}
Owned(i, j) ==
  /\ i \in Ids /\ j \in Jids /\ Says(i) # {}
  /\ \A k \in Says(i) : NumberOf[k] = NumberOf[j]

Entries == DOMAIN cache = Jids /\ \A j \in Jids : DOMAIN cache[j] = {"id", "fresh"}
OnePerson == contacts \in Seq(Contact) /\ \A i \in Ids : \E j \in Jids : Owned(i, j)
OwnEntries == \A j \in Jids : cache[j].id = 0 \/ Owned(cache[j].id, j)
OwnCall(r) ==
  /\ r.id = 0 \/ Owned(r.id, r.jid)
  /\ r.merge = 0 \/ Owned(r.merge, r.jid)
OwnCalls == \A c \in Callers : OwnCall(call[c])
PersonInv == Entries /\ OnePerson /\ OwnEntries /\ OwnCalls

(* A contact that has the number or identifier of somebody is theirs.      *)
LEMMA Theirs ==
  ASSUME PersonInv, NEW i \in Ids, NEW j \in Jids, NEW k \in Says(i),
         NumberOf[k] = NumberOf[j]
  PROVE  Owned(i, j)
<1>1. PICK o \in Jids : Owned(i, o)
  BY DEF PersonInv, OnePerson
<1> QED BY <1>1 DEF Owned

(* What nobody writes to contacts stays whose it was.                      *)
LEMMA Same ==
  ASSUME UNCHANGED contacts, NEW i, NEW j
  PROVE  Owned(i, j)' <=> Owned(i, j)
BY DEF Owned, Says, Ids

(* Steps that leave the contacts alone need look at caches and calls only. *)
LEMMA Reads ==
  ASSUME PersonInv, UNCHANGED contacts, Entries', OwnEntries',
         \A c \in Callers : OwnCall(call'[c])
  PROVE  PersonInv'
<1>1. OnePerson'
  BY Same DEF PersonInv, OnePerson, Ids
<1>2. OwnCalls'
  BY Same DEF OwnCalls, OwnCall
<1> QED BY <1>1, <1>2 DEF PersonInv

(* Steps that write contacts leave each its person.                        *)
LEMMA Writes ==
  ASSUME PersonInv, UNCHANGED cache, OnePerson',
         \A i \in Ids, j \in Jids : Owned(i, j) => Owned(i, j)',
         \A c \in Callers :
           /\ call'[c].jid = call[c].jid /\ call'[c].merge = call[c].merge
           /\ call'[c].id = call[c].id \/ Owned(call[c].id, Jid(c))'
  PROVE  PersonInv'
<1>1. \A i, j : Owned(i, j) => Owned(i, j)'
  BY DEF Owned
<1>2. Entries' /\ OwnEntries'
  BY <1>1 DEF PersonInv, Entries, OwnEntries
<1>3. OwnCalls'
  <2> SUFFICES ASSUME NEW c \in Callers PROVE OwnCall(call[c])'
    BY DEF OwnCalls
  <2>1. OwnCall(call[c])
    BY DEF PersonInv, OwnCalls
  <2> QED BY <2>1, <1>1 DEF OwnCall, Jid
<1> QED BY <1>2, <1>3 DEF PersonInv

(* A call that only goes on keeps what it holds.                           *)
LEMMA Going ==
  ASSUME Shape, NEW c \in Callers, NEW pc, Goes(c, pc), NEW d \in Callers
  PROVE  /\ call'[d].jid = call[d].jid
         /\ call'[d].id = call[d].id /\ call'[d].merge = call[d].merge
BY DEF Goes, Shape, Fields

LEMMA GoesOn ==
  ASSUME PersonInv, Shape, NEW c \in Callers, NEW pc, Goes(c, pc)
  PROVE  \A d \in Callers : OwnCall(call'[d])
BY Going DEF PersonInv, OwnCalls, OwnCall

LEMMA TakesCached ==
  ASSUME PersonInv, Shape, NEW c \in Callers, call[c].pc # "idle", UsesCache(c)
  PROVE  \A d \in Callers : OwnCall(call'[d])
<1>1. Jid(c) \in Jids /\ OwnCall(call[c])
  BY DEF Shape, PersonInv, OwnCalls
<1>2. cache[Jid(c)].id = 0 \/ Owned(cache[Jid(c)].id, Jid(c))
  BY <1>1 DEF PersonInv, OwnEntries
<1>3. /\ call'[c].id = cache[Jid(c)].id /\ call'[c].jid = Jid(c)
      /\ call'[c].merge = call[c].merge
      /\ \A d \in Callers \ {c} : call'[d] = call[d]
  BY DEF UsesCache, Shape, Fields, Jid
<1> QED BY <1>1, <1>2, <1>3 DEF PersonInv, OwnCalls, OwnCall, Jid

LEMMA TakesFound ==
  ASSUME PersonInv, Shape, NEW c \in Callers, NEW i, NEW m, Found(c, i, m),
         Owned(i, Jid(c)), m = 0 \/ Owned(m, Jid(c))
  PROVE  \A d \in Callers : OwnCall(call'[d])
<1>1. /\ call'[c].id = i /\ call'[c].merge = m /\ call'[c].jid = Jid(c)
      /\ \A d \in Callers \ {c} : call'[d] = call[d]
  BY DEF Found, Shape, Fields, Jid
<1> QED BY <1>1 DEF PersonInv, OwnCalls, OwnCall

LEMMA OnlyCalls ==
  ASSUME PersonInv, UNCHANGED <<contacts, cache>>, \A d \in Callers : OwnCall(call'[d])
  PROVE  PersonInv'
<1>1. Entries' /\ OwnEntries'
  BY Same DEF PersonInv, Entries, OwnEntries
<1> QED BY <1>1, Reads

(* The look-up finds contacts of the person it looks for.                  *)
LEMMA LooksUp ==
  ASSUME PersonInv, Shape, NEW c \in Callers, Search(c) \/ Find(c)
  PROVE  PersonInv'
<1>1. UNCHANGED <<contacts, cache>> /\ Jid(c) \in Jids /\ Living \subseteq Ids
  BY DEF Search, Find, At, Shape, Living
<1>2. CASE \E pc : Goes(c, pc)
  BY <1>1, <1>2, GoesOn, OnlyCalls
<1>3. ASSUME NEW i \in Living, NEW k \in Says(i), NumberOf[k] = NumberOf[Jid(c)]
      PROVE  Owned(i, Jid(c))
  BY <1>1, <1>3, Theirs
<1>4. ASSUME NEW i, NEW m, Found(c, i, m), Owned(i, Jid(c)), m = 0 \/ Owned(m, Jid(c))
      PROVE  PersonInv'
  BY <1>1, <1>4, TakesFound, OnlyCalls
<1>5. CASE Search(c)
  <2> DEFINE S == {i \in Living : contacts[i].phone # Nobody
                              /\ NumberOf[contacts[i].phone] = NumberOf[Jid(c)]}
  <2>1. \A i \in S : Owned(i, Jid(c))
    BY <1>3 DEF Says
  <2>2. IsFiniteSet(S) /\ S \subseteq Nat
    <3>1. Len(contacts) \in Nat
      BY DEF PersonInv, OnePerson
    <3>2. IsFiniteSet(Ids) /\ Ids \subseteq Nat
      BY <3>1, FS_Interval DEF Ids
    <3>3. S \subseteq Ids
      BY <1>1
    <3> QED BY <3>2, <3>3, FS_Subset
  <2>3. ASSUME NEW p \in S, Cardinality(S) = 2 PROVE \E k \in S : k # p
    <3> HIDE DEF S
    <3>1. S # {p}
      BY <2>3, FS_Singleton
    <3> QED BY <2>3, <3>1
  <2>4. ASSUME Cardinality(S) = 1 PROVE Min(S) \in S
    <3>1. PICK x : S = {x}
      BY <2>2, <2>4, FS_Singleton
    <3> QED BY <3>1, <2>2 DEF Min
  <2>5. \/ \E p \in S : LET q == CHOOSE k \in S : k # p IN
              Cardinality(S) = 2 /\ (Found(c, q, p) \/ Found(c, p, q))
        \/ Cardinality(S) = 1 /\ Found(c, Min(S), 0)
        \/ \E pc : Goes(c, pc)
    BY <1>5 DEF Search, Fails
  <2> HIDE DEF S
  <2>6. ASSUME NEW p \in S, Cardinality(S) = 2,
               LET q == CHOOSE k \in S : k # p IN Found(c, q, p) \/ Found(c, p, q)
        PROVE  PersonInv'
    <3> DEFINE q == CHOOSE k \in S : k # p
    <3>1. q \in S
      BY <2>3, <2>6
    <3>2. Found(c, q, p) \/ Found(c, p, q)
      BY <2>6
    <3> HIDE DEF q
    <3> QED BY <3>1, <3>2, <2>1, <1>4
  <2>7. ASSUME Cardinality(S) = 1, Found(c, Min(S), 0) PROVE PersonInv'
    BY <2>7, <2>4, <2>1, <1>4
  <2> QED BY <2>5, <2>6, <2>7, <1>2
<1>6. CASE Find(c)
  <2>1. ASSUME NEW i \in Living,
               \/ contacts[i].phone = Phone(c) /\ Phone(c) # Nobody
               \/ contacts[i].ident = Jid(c)
        PROVE  Owned(i, Jid(c))
    BY <2>1, <1>1, <1>3, ContactsAssumption DEF Says, Phone
  <2>2. \/ \E pc : Goes(c, pc)
        \/ \E i \in Living : /\ Found(c, i, 0)
                             /\ \/ contacts[i].phone = Phone(c) /\ Phone(c) # Nobody
                                \/ contacts[i].ident = Jid(c)
    BY <1>6 DEF Find, Fails
  <2> QED BY <2>1, <2>2, <1>2, <1>4
<1> QED BY <1>5, <1>6

(* Contacts that are given nothing but numbers of their own person.        *)
LEMMA Renamed ==
  ASSUME PersonInv, contacts' \in Seq(Contact), Len(contacts') = Len(contacts),
         \A l \in Ids :
           \/ Says(l)' = Says(l)
           \/ \E j \in Jids : /\ Owned(l, j) /\ Says(l)' # {}
                              /\ \A k \in Says(l)' : NumberOf[k] = NumberOf[j]
  PROVE  OnePerson' /\ \A l \in Ids, o \in Jids : Owned(l, o) => Owned(l, o)'
<1>1. Ids' = Ids
  BY DEF Ids
<1>2. ASSUME NEW l \in Ids, NEW o \in Jids, Owned(l, o) PROVE Owned(l, o)'
  <2>1. CASE Says(l)' = Says(l)
    BY <2>1, <1>2, <1>1 DEF Owned
  <2>2. ASSUME NEW j \in Jids, Owned(l, j), Says(l)' # {},
               \A k \in Says(l)' : NumberOf[k] = NumberOf[j]
        PROVE  Owned(l, o)'
    <3>1. NumberOf[o] = NumberOf[j]
      BY <2>2, <1>2 DEF Owned
    <3> QED BY <3>1, <2>2, <1>1 DEF Owned
  <2> QED BY <2>1, <2>2
<1> QED BY <1>1, <1>2 DEF PersonInv, OnePerson

(* Merging, updating and naming a contact leave it to its person.          *)
LEMMA ContactChanges ==
  ASSUME PersonInv, Shape, NEW c \in Callers, Merge(c) \/ Update(c) \/ Identify(c)
  PROVE  PersonInv'
<1>0. PICK i, m, j : i = call[c].id /\ m = call[c].merge /\ j = Jid(c)
  OBVIOUS
<1>1. UNCHANGED cache /\ j \in Jids /\ j # Nobody
  BY <1>0, ContactsAssumption DEF Merge, Update, Identify, At, Shape
<1>2. \A d \in Callers : /\ call'[d].jid = call[d].jid /\ call'[d].id = call[d].id
                         /\ call'[d].merge = call[d].merge
  <2>1. \E pc : Goes(c, pc)
    BY DEF Merge, Update, Identify
  <2> QED BY <2>1, Going
<1>3. contacts \in Seq(Contact) /\ \A l \in Ids : contacts[l] \in Contact
  BY DEF PersonInv, OnePerson, Ids
<1>4. Living \subseteq Ids /\ 0 \notin Living
  BY DEF Living, Ids
<1>5. i \in Living => i \in Ids /\ Owned(i, j)
  BY <1>0, <1>4 DEF PersonInv, OwnCalls, OwnCall, Jid
<1>6. m \in Living => m \in Ids /\ Owned(m, j)
  BY <1>0, <1>4 DEF PersonInv, OwnCalls, OwnCall, Jid
<1>7. CASE UNCHANGED contacts
  BY <1>7, <1>1, <1>2, OnlyCalls DEF PersonInv, OwnCalls, OwnCall
<1>8. ASSUME OnePerson', \A l \in Ids, o \in Jids : Owned(l, o) => Owned(l, o)'
      PROVE  PersonInv'
  BY <1>8, <1>1, <1>2, Writes
<1>9. ASSUME Update(c) \/ Identify(c), contacts' # contacts PROVE PersonInv'
  <2>1. i \in Ids /\ Owned(i, j)
    BY <1>0, <1>9, <1>5 DEF Update, Identify
  <2>2. PICK p \in {contacts[i].phone, j, Nobody} :
          contacts' = [contacts EXCEPT ![i] = [@ EXCEPT !.ident = j, !.phone = p]]
    <3>1. CASE Update(c)
      BY <1>0, <3>1, <1>9, <1>3, <2>1 DEF Update, Phone, Contact
    <3>2. CASE Identify(c)
      BY <1>0, <3>2, <1>9, <1>3, <2>1 DEF Identify, Contact
    <3> QED BY <1>9, <3>1, <3>2
  <2> DEFINE x == [contacts[i] EXCEPT !.ident = j, !.phone = p]
  <2>3. contacts[i] \in Contact /\ p \in Jids \cup {Nobody}
    BY <2>1, <2>2, <1>1, <1>3 DEF Contact
  <2>4. x \in Contact /\ x.phone = p /\ x.ident = j
    BY <2>3, <1>1 DEF Contact
  <2>5. contacts' \in Seq(Contact) /\ Len(contacts') = Len(contacts)
        /\ contacts'[i] = x /\ \A l \in Ids \ {i} : contacts'[l] = contacts[l]
    <3>1. contacts' = [contacts EXCEPT ![i] = x]
      BY <2>2
    <3> HIDE DEF x
    <3> QED BY <2>1, <2>4, <3>1, <1>3 DEF Ids
  <2> HIDE DEF x
  <2>6. Says(i)' = {p, j} \ {Nobody} /\ \A l \in Ids \ {i} : Says(l)' = Says(l)
    BY <2>5, <2>4 DEF Says
  <2>7. \A k \in {p, j} \ {Nobody} : NumberOf[k] = NumberOf[j]
    BY <2>1, <2>2 DEF Owned, Says
  <2> QED BY <1>1, <1>8, <2>1, <2>5, <2>6, <2>7, Renamed
<1>10. ASSUME Merge(c), contacts' # contacts PROVE PersonInv'
  <2>1. /\ i \in Ids /\ Owned(i, j) /\ m \in Ids /\ Owned(m, j)
        /\ contacts' = [contacts EXCEPT
             ![m].alive = FALSE,
             ![i].ident = IF @ = Nobody THEN contacts[m].ident ELSE @]
    BY <1>0, <1>10, <1>5, <1>6 DEF Merge
  <2> DEFINE x == [contacts[m] EXCEPT !.alive = FALSE]
             first == [contacts EXCEPT ![m] = x]
             n == IF first[i].ident = Nobody THEN contacts[m].ident ELSE first[i].ident
             y == [first[i] EXCEPT !.ident = n]
  <2>2. /\ x \in Contact /\ x.phone = contacts[m].phone /\ x.ident = contacts[m].ident
        /\ contacts[m].ident \in Jids \cup {Nobody}
    BY <2>1, <1>3 DEF Contact
  <2>3. /\ first \in Seq(Contact) /\ Len(first) = Len(contacts)
        /\ first[m] = x /\ \A l \in Ids \ {m} : first[l] = contacts[l]
    <3> HIDE DEF x
    <3> QED BY <2>1, <2>2, <1>3 DEF Ids
  <2>4. contacts' = [first EXCEPT ![i] = y]
    BY <2>1
  <2>5. \A l \in Ids : /\ first[l] \in Contact /\ first[l].phone = contacts[l].phone
                       /\ first[l].ident = contacts[l].ident
    <3> HIDE DEF x, first
    <3> QED BY <2>2, <2>3, <1>3
  <2>6. /\ y \in Contact /\ y.phone = contacts[i].phone
        /\ y.ident \in {contacts[i].ident, contacts[m].ident}
        /\ contacts[i].ident # Nobody => y.ident = contacts[i].ident
    <3> HIDE DEF x, first
    <3> QED BY <2>1, <2>2, <2>5 DEF Contact
  <2>7. /\ contacts' \in Seq(Contact) /\ Len(contacts') = Len(contacts)
        /\ contacts'[i] = y /\ \A l \in Ids \ {i} : contacts'[l] = first[l]
    <3>1. contacts' = [first EXCEPT ![i] = y] /\ y \in Contact /\ first \in Seq(Contact)
          /\ Len(first) = Len(contacts) /\ i \in 1 .. Len(first) /\ Ids = 1 .. Len(first)
      BY <2>1, <2>3, <2>4, <2>6 DEF Ids
    <3> HIDE DEF x, first, y
    <3> QED BY <3>1
  <2> HIDE DEF x, first, y, n
  <2>8. \A l \in Ids \ {i} : Says(l)' = Says(l)
    BY <2>5, <2>7 DEF Says
  <2>9. Says(i) \subseteq Says(i)' /\ Says(i)' \subseteq Says(i) \cup Says(m)
    BY <2>6, <2>7 DEF Says
  <2>10. Says(i)' # {} /\ \A k \in Says(i)' : NumberOf[k] = NumberOf[j]
    BY <2>1, <2>9 DEF Owned
  <2> QED BY <1>1, <1>8, <2>1, <2>7, <2>8, <2>10, Renamed
<1> QED BY <1>7, <1>9, <1>10

(* A contact created for a chat is of its person.                          *)
LEMMA ContactCreates ==
  ASSUME PersonInv, Shape, NEW c \in Callers, Create(c)
  PROVE  PersonInv'
<1>1. UNCHANGED cache /\ Jid(c) \in Jids
  BY DEF Create, At, Shape
<1>2. CASE UNCHANGED contacts
  <2>1. CASE \E pc : Goes(c, pc)
    BY <2>1, <1>2, <1>1, GoesOn, OnlyCalls
  <2>2. contacts \in Seq(Contact)
    BY DEF PersonInv, OnePerson
  <2>3. Len(contacts) + 1 # Len(contacts)
    BY <2>2
  <2> QED BY <1>2, <2>1, <2>2, <2>3 DEF Create, Fails
<1>3. CASE contacts' # contacts
  <2> DEFINE x == [phone |-> Phone(c), ident |-> Jid(c), alive |-> TRUE]
  <2>0. PICK n, j : n = Len(contacts) + 1 /\ j = Jid(c)
    OBVIOUS
  <2>1. x \in Contact
    BY <1>1 DEF Contact, Phone
  <2>2. contacts' = Append(contacts, x) /\ contacts \in Seq(Contact)
        /\ call' = [call EXCEPT ![c].pc = "store", ![c].id = n]
    BY <1>3, <2>0 DEF Create, Fails, PersonInv, OnePerson
  <2>3. /\ contacts' \in Seq(Contact) /\ contacts'[n] = x
        /\ Ids' = Ids \cup {n} /\ n \notin Ids
        /\ \A l \in Ids : contacts'[l] = contacts[l]
    <3> HIDE DEF x
    <3> QED BY <2>0, <2>1, <2>2 DEF Ids
  <2>4. Owned(n, j)'
    <3>1. Says(n)' = {Phone(c), j} \ {Nobody}
      BY <2>0, <2>3 DEF Says
    <3>2. Phone(c) \in {j, Nobody} /\ j # Nobody
      BY <1>1, <2>0, ContactsAssumption DEF Phone
    <3>3. Says(n)' = {j}
      BY <3>1, <3>2
    <3> QED BY <3>3, <2>3, <2>0, <1>1 DEF Owned
  <2>5. \A l \in Ids, o \in Jids : Owned(l, o) => Owned(l, o)'
    BY <2>3 DEF Owned, Says
  <2>6. OnePerson'
    BY <2>0, <1>1, <2>3, <2>4, <2>5 DEF PersonInv, OnePerson
  <2>7. Entries' /\ OwnEntries'
    BY <1>1, <2>5 DEF PersonInv, Entries, OwnEntries, Owned
  <2>8. /\ \A d \in Callers : call'[d].jid = call[d].jid /\ call'[d].merge = call[d].merge
        /\ \A d \in Callers \ {c} : call'[d].id = call[d].id
        /\ call'[c].id = n
    BY <2>2 DEF Shape, Fields
  <2>9. OwnCalls'
    <3> SUFFICES ASSUME NEW d \in Callers PROVE OwnCall(call[d])'
      BY DEF OwnCalls
    <3>1. \A l, o : Owned(l, o) => Owned(l, o)'
      BY <2>5 DEF Owned
    <3>2. OwnCall(call[d])
      BY DEF PersonInv, OwnCalls
    <3> QED BY <3>1, <3>2, <2>0, <2>4, <2>8 DEF OwnCall, Jid
  <2> QED BY <2>6, <2>7, <2>9 DEF PersonInv
<1> QED BY <1>2, <1>3

(* A call that starts, begins again or ends holds no contact.              *)
LEMMA StartsAfresh ==
  ASSUME PersonInv, Shape, NEW c \in Callers, NEW r,
         call' = [call EXCEPT ![c] = r], r.id = 0, r.merge = 0
  PROVE  \A d \in Callers : OwnCall(call'[d])
BY DEF PersonInv, OwnCalls, OwnCall, Shape

(* No step takes a contact from its person or gives it to a chat of        *)
(* another.                                                                *)
LEMMA PersonStep == Shape /\ PersonInv /\ [Next]_vars => PersonInv'
<1> SUFFICES ASSUME Shape, PersonInv, [Next]_vars PROVE PersonInv'
  OBVIOUS
<1>0. /\ Idle.id = 0 /\ Idle.merge = 0
      /\ \A j : LET r == [Idle EXCEPT !.pc = "check", !.jid = j] IN
                r.id = 0 /\ r.merge = 0
  BY DEF Idle
<1>1. ASSUME NEW c \in Callers, NEW j \in Jids, Begin(c, j) PROVE PersonInv'
  <2>1. \A d \in Callers : OwnCall(call'[d])
    BY <1>1, <1>0, StartsAfresh DEF Begin
  <2> QED BY <1>1, <2>1, OnlyCalls DEF Begin
<1>2. ASSUME NEW c \in Callers, Run(c) PROVE PersonInv'
  <2>1. CASE \/ \E pc : Goes(c, pc) /\ UNCHANGED <<cache, contacts>>
             \/ UsesCache(c) /\ UNCHANGED <<cache, contacts>> /\ call[c].pc # "idle"
    BY <2>1, GoesOn, TakesCached, OnlyCalls
  <2>2. CASE Check(c)
    <3>1. Jid(c) \in Jids
      BY <2>2 DEF Check, At, Shape
    <3>2. CASE UNCHANGED cache
      BY <2>1, <2>2, <3>2 DEF Check, At
    <3>3. CASE (\E pc : Goes(c, pc)) /\ cache' = [cache EXCEPT ![Jid(c)] = Absent]
      <4>1. Entries' /\ OwnEntries'
        BY <2>2, <3>1, <3>3, Same
        DEF PersonInv, Entries, OwnEntries, Absent, Check
      <4> QED BY <2>2, <3>3, <4>1, GoesOn, Reads DEF Check
    <3> QED BY <2>2, <3>2, <3>3 DEF Check
  <2>3. CASE Lock(c) \/ Recheck(c) \/ WaitHit(c) \/ WaitLong(c) \/ List(c) \/ Converse(c)
    BY <2>1, <2>3
    DEF Lock, Recheck, WaitHit, WaitLong, List, Converse, NotFound, Fails, At
  <2>4. CASE Store(c)
    <3>1. Jid(c) \in Jids /\ OwnCall(call[c])
      BY <2>4 DEF Store, At, Shape, PersonInv, OwnCalls
    <3>2. Entries' /\ OwnEntries'
      BY <2>4, <3>1, Same DEF Store, PersonInv, Entries, OwnEntries, OwnCall, Jid
    <3> QED BY <2>4, <3>2, GoesOn, Reads DEF Store
  <2>5. CASE Retry(c)
    <3>1. Jid(c) \in Jids
      BY <2>5 DEF Retry, At, Shape
    <3>2. Entries' /\ OwnEntries'
      BY <2>5, <3>1, Same DEF Retry, PersonInv, Entries, OwnEntries, Absent
    <3>3. \A d \in Callers : OwnCall(call'[d])
      BY <1>0, <2>5, StartsAfresh DEF Retry
    <3> QED BY <2>5, <3>2, <3>3, Reads DEF Retry
  <2>6. CASE Return(c)
    <3>1. \A d \in Callers : OwnCall(call'[d])
      BY <1>0, <2>6, StartsAfresh DEF Return
    <3> QED BY <2>6, <3>1, OnlyCalls DEF Return
  <2> QED
    BY <1>2, <2>2, <2>3, <2>4, <2>5, <2>6, LooksUp, ContactChanges,
       ContactCreates DEF Run
<1>3. ASSUME NEW j \in Jids, Expire(j) PROVE PersonInv'
  <2>1. Entries' /\ OwnEntries'
    BY <1>3, Same DEF Expire, PersonInv, Entries, OwnEntries
  <2> QED BY <1>3, <2>1, Reads DEF Expire, PersonInv, OwnCalls
<1>4. ASSUME NEW i \in Ids, DeleteContact(i) PROVE PersonInv'
  <2>1. contacts \in Seq(Contact) /\ contacts[i] \in Contact
    BY DEF PersonInv, OnePerson, Ids
  <2> DEFINE x == [contacts[i] EXCEPT !.alive = FALSE]
  <2>2. x \in Contact /\ x.phone = contacts[i].phone /\ x.ident = contacts[i].ident
    BY <2>1 DEF Contact
  <2>3. contacts' = [contacts EXCEPT ![i] = x]
    BY <1>4 DEF DeleteContact
  <2> HIDE DEF x
  <2>4. contacts' \in Seq(Contact) /\ Len(contacts') = Len(contacts)
        /\ \A l \in Ids : /\ contacts'[l].phone = contacts[l].phone
                          /\ contacts'[l].ident = contacts[l].ident
    BY <2>1, <2>2, <2>3 DEF Ids
  <2>5. OnePerson' /\ \A l \in Ids, o \in Jids : Owned(l, o) => Owned(l, o)'
    BY <2>4, Renamed DEF Says
  <2> QED BY <1>4, <2>5, Writes DEF DeleteContact
<1>5. CASE UNCHANGED <<cache, contacts, call>>
  BY <1>5, OnlyCalls DEF PersonInv, OwnCalls
<1>6. ASSUME NEW i, Resolve(i) PROVE PersonInv'
  BY <1>5, <1>6 DEF Resolve
<1> QED BY <1>1, <1>2, <1>3, <1>4, <1>5, <1>6 DEF Next, vars

(* At first a contact has its number and nothing else.                     *)
LEMMA PersonInit == Init => PersonInv
<1> SUFFICES ASSUME Init PROVE PersonInv
  OBVIOUS
<1>1. Entries /\ OwnEntries /\ OwnCalls
  BY DEF Init, Entries, OwnEntries, OwnCalls, OwnCall, Absent, Idle
<1>2. Cardinality(Known) \in Nat
  BY ContactsAssumption, FS_CardinalityType
<1>3. /\ contacts \in [1 .. Cardinality(Known) ->
                          [phone : Known, ident : {Nobody}, alive : {TRUE}]]
  BY DEF Init
<1>4. contacts \in Seq(Contact) /\ Len(contacts) = Cardinality(Known)
  <2>1. [phone : Known, ident : {Nobody}, alive : {TRUE}] \subseteq Contact
    BY ContactsAssumption DEF Contact
  <2>2. contacts \in [1 .. Cardinality(Known) -> Contact]
    BY <1>3, <2>1
  <2> HIDE DEF Contact
  <2> QED BY <1>2, <2>2
<1>5. ASSUME NEW i \in Ids PROVE \E j \in Jids : Owned(i, j)
  <2>1. contacts[i].phone \in Known /\ contacts[i].ident = Nobody
    BY <1>3, <1>4 DEF Ids
  <2>2. Says(i) = {contacts[i].phone}
    BY <2>1, ContactsAssumption DEF Says
  <2> QED BY <2>1, <2>2, ContactsAssumption DEF Owned
<1> QED BY <1>1, <1>4, <1>5 DEF PersonInv, OnePerson

(* A chat's cached contact and the one a call uses are of the person of    *)
(* the chat, for any chats, callers, merges, deletions and failures.       *)
THEOREM OwnContacts == Spec => []UsesOwnContact
<1>1. Init => LockInv /\ PersonInv
  BY LockInit, PersonInit
<1>2. LockInv /\ PersonInv /\ [Next]_vars => (LockInv /\ PersonInv)'
  BY LockStep, PersonStep DEF LockInv
<1>3. ASSUME PersonInv PROVE UsesOwnContact
  <2>1. ASSUME NEW i, NEW j, Owned(i, j) PROVE IsOf(i, j)
    BY <2>1 DEF Owned, Says, IsOf
  <2> QED BY <1>3, <2>1
          DEF UsesOwnContact, PersonInv, Entries, OwnEntries, OwnCalls, OwnCall, Jid
<1> QED BY <1>1, <1>2, <1>3, PTL DEF Spec

------------------------------------------------------------------------------
(* No client gets more requests through the rate limiter than its burst    *)
(* and rate allow, in any stretch of time.  The invariant counts what a    *)
(* client may still send at once: the tokens of its bucket, which are all  *)
(* of Burst without one.  Removing an idle bucket must not add to them: it *)
(* has filled while it was idle.                                           *)

USE LimiterAssumption

Min2(x, y) == IF x < y THEN x ELSE y
(* A bucket holds what its idle time has filled; one that is not there     *)
(* counts as full.                                                         *)
Filled(b) == b.tokens >= Min2(Burst, Rate * b.idle) /\ (~b.there => b.tokens = Burst)
Kept(c) == watched[c].passed + bucket[c].tokens <= watched[c].allowed
IInv == LimiterTypeOK /\ \A c \in Clients : Filled(bucket[c]) /\ Kept(c)

LEMMA Growth == ASSUME NEW n \in Nat PROVE Rate * n \in Nat /\ Rate * (n + 1) = Rate * n + Rate
  BY SMT

LEMMA IdleIsFull == ASSUME NEW n \in Nat, n > TTL PROVE Rate * n >= Burst
<1> DEFINE k == n - (TTL + 1)
<1>1. k \in Nat /\ n = (TTL + 1) + k
  BY SMT
<1>2. Rate * n = Rate * (TTL + 1) + Rate * k
  BY <1>1, SMT
<1>3. Rate * k \in Nat
  BY <1>1, SMT
<1> QED
  BY <1>2, <1>3, SMT

(* The kinds of bucket and of watch that the variables hold.               *)
Bucket == [there : BOOLEAN, tokens : 0 .. Burst, idle : Nat]
Watched == [passed : Nat, allowed : Nat]

LEMMA Initial == LimiterInit => IInv
<1> SUFFICES ASSUME LimiterInit PROVE IInv
  OBVIOUS
<1>1. NoBucket \in Bucket
  BY DEF NoBucket, Bucket
<1>2. LimiterTypeOK
  BY <1>1 DEF LimiterInit, LimiterTypeOK, Bucket
<1>3. ASSUME NEW c \in Clients PROVE Filled(bucket[c]) /\ Kept(c)
  <2>1. bucket[c] = NoBucket /\ watched[c] = [passed |-> 0, allowed |-> Burst]
    BY DEF LimiterInit
  <2>2. Rate * 0 = 0
    BY SMT
  <2> QED
    BY <2>1, <2>2 DEF Filled, Kept, Min2, NoBucket
<1> QED
  BY <1>2, <1>3 DEF IInv

(* A step that changes one client only leaves the others as they are.      *)
LEMMA Single ==
  ASSUME IInv, now' = now, NEW c \in Clients,
         NEW b \in Bucket, bucket' = [bucket EXCEPT ![c] = b], Filled(b),
         NEW w \in Watched, watched' = [watched EXCEPT ![c] = w],
         w.passed + b.tokens <= w.allowed
  PROVE IInv'
<1>1. LimiterTypeOK'
  BY DEF IInv, LimiterTypeOK, Bucket, Watched
<1>2. ASSUME NEW k \in Clients PROVE (Filled(bucket[k]) /\ Kept(k))'
  <2>1. CASE k = c
    <3>1. bucket'[k] = b /\ watched'[k] = w
      BY <2>1 DEF IInv, LimiterTypeOK
    <3> QED
      BY <3>1 DEF Filled, Kept
  <2>2. CASE k # c
    <3>1. bucket'[k] = bucket[k] /\ watched'[k] = watched[k]
      BY <2>2 DEF IInv, LimiterTypeOK
    <3> QED
      BY <3>1 DEF IInv, Filled, Kept
  <2> QED
    BY <2>1, <2>2
<1> QED
  BY <1>1, <1>2 DEF IInv

LEMMA StepKeeps == IInv /\ [LimiterNext]_limiterVars => IInv'
<1> SUFFICES ASSUME IInv, [LimiterNext]_limiterVars PROVE IInv'
  OBVIOUS
<1>t. /\ bucket \in [Clients -> Bucket] /\ watched \in [Clients -> Watched]
      /\ \A c \in Clients : Filled(bucket[c]) /\ Kept(c)
  BY DEF IInv, LimiterTypeOK, Bucket, Watched
<1>z. Rate * 0 = 0
  BY SMT
<1>1. ASSUME NEW c \in Clients, Allow(c) PROVE IInv'
  <2> DEFINE b == [there |-> TRUE, tokens |-> bucket[c].tokens - 1, idle |-> 0]
             w == [passed |-> watched[c].passed + 1, allowed |-> watched[c].allowed]
  <2>1. bucket[c] \in Bucket /\ watched[c] \in Watched /\ Kept(c)
    BY <1>t
  <2>2. bucket[c].tokens > 0 /\ b \in Bucket /\ w \in Watched
    BY <1>1, <2>1 DEF Allow, Bucket, Watched
  <2>3. bucket' = [bucket EXCEPT ![c] = b]
    BY <1>1 DEF Allow, Seen
  <2>4. watched' = [watched EXCEPT ![c] = w]
    <3>1. [watched[c] EXCEPT !.passed = @ + 1] = w
      BY <2>1 DEF Watched
    <3> QED
      BY <1>1, <1>t, <3>1 DEF Allow
  <2>5. Filled(b) /\ w.passed + b.tokens <= w.allowed /\ now' = now
    BY <1>1, <1>z, <2>1, <2>2 DEF Filled, Kept, Min2, Allow, Bucket, Watched
  <2> HIDE DEF b, w
  <2> QED
    BY <2>2, <2>3, <2>4, <2>5, Single
<1>2. ASSUME NEW c \in Clients, TooMany(c) PROVE IInv'
  <2> DEFINE b == [there |-> TRUE, tokens |-> bucket[c].tokens, idle |-> 0]
             w == watched[c]
  <2>1. bucket[c] \in Bucket /\ w \in Watched /\ Kept(c) /\ b \in Bucket
    BY <1>t DEF Bucket
  <2>2. bucket' = [bucket EXCEPT ![c] = b]
    BY <1>2 DEF TooMany, Seen
  <2>3. watched' = [watched EXCEPT ![c] = w]
    BY <1>2, <1>t DEF TooMany
  <2>4. Filled(b) /\ w.passed + b.tokens <= w.allowed /\ now' = now
    BY <1>2, <1>z, <2>1 DEF Filled, Kept, Min2, TooMany, Bucket, Watched
  <2> HIDE DEF b, w
  <2> QED
    BY <2>1, <2>2, <2>3, <2>4, Single
<1>3. ASSUME NEW c \in Clients, Watch(c) PROVE IInv'
  <2> DEFINE b == bucket[c]
             w == [passed |-> 0, allowed |-> Burst]
  <2>1. b \in Bucket /\ w \in Watched /\ Filled(b)
    BY <1>t DEF Watched
  <2>2. bucket' = [bucket EXCEPT ![c] = b] /\ watched' = [watched EXCEPT ![c] = w]
    BY <1>3, <1>t DEF Watch
  <2>3. w.passed + b.tokens <= w.allowed /\ now' = now
    BY <1>3, <2>1 DEF Watch, Bucket
  <2> HIDE DEF b, w
  <2> QED
    BY <2>1, <2>2, <2>3, Single
<1>4. ASSUME Cleanup PROVE IInv'
  <2>1. NoBucket \in Bucket
    BY DEF NoBucket, Bucket
  <2>2. LimiterTypeOK'
    BY <1>4, <1>t, <2>1 DEF Cleanup, IInv, LimiterTypeOK, Bucket, Watched
  <2>3. ASSUME NEW k \in Clients PROVE (Filled(bucket[k]) /\ Kept(k))'
    <3>1. watched'[k] = watched[k] /\ watched[k] \in Watched /\ bucket[k] \in Bucket
      BY <1>4, <1>t DEF Cleanup
    <3>2. CASE bucket[k].there /\ bucket[k].idle > TTL
      <4>1. bucket'[k] = NoBucket
        BY <1>4, <3>2 DEF Cleanup
      <4> DEFINE i == bucket[k].idle
      <4>0. i \in Nat /\ i > TTL /\ bucket[k].tokens \in 0 .. Burst
        BY <3>1, <3>2 DEF Bucket
      <4>6. Rate * i >= Burst /\ Rate * i \in Nat
        BY <4>0, IdleIsFull, Growth
      <4>7. bucket[k].tokens >= Min2(Burst, Rate * i)
        BY <1>t DEF Filled
      <4>2. bucket[k].tokens = Burst
        BY <4>0, <4>6, <4>7 DEF Min2
      <4>3. watched[k].passed + Burst <= watched[k].allowed
        BY <1>t, <4>2 DEF Kept
      <4>4. NoBucket.tokens = Burst /\ NoBucket.idle = 0
        BY DEF NoBucket
      <4>5. Filled(NoBucket)
        BY <1>z, <4>4 DEF Filled, Min2
      <4> QED
        BY <3>1, <4>1, <4>3, <4>4, <4>5 DEF Filled, Kept
    <3>3. CASE ~(bucket[k].there /\ bucket[k].idle > TTL)
      <4>1. bucket'[k] = bucket[k]
        BY <1>4, <3>3 DEF Cleanup
      <4> QED
        BY <1>t, <3>1, <4>1 DEF Filled, Kept
    <3> QED
      BY <3>2, <3>3
  <2> QED
    BY <2>2, <2>3 DEF IInv
<1>5. ASSUME Tick PROVE IInv'
  <2>1. ASSUME NEW n \in 0 .. Burst
        PROVE /\ Fill(n) \in 0 .. Burst /\ Fill(n) <= n + Rate
              /\ Fill(n) = Burst \/ Fill(n) = n + Rate
    BY DEF Fill
  <2>2. ASSUME NEW k \in Clients
        PROVE /\ bucket'[k] \in Bucket /\ watched'[k] \in Watched
              /\ (Filled(bucket[k]) /\ Kept(k))'
    <3> DEFINE w == watched[k]
    <3>1. w \in Watched /\ bucket[k] \in Bucket /\ Filled(bucket[k]) /\ Kept(k)
      BY <1>t
    <3>2. watched'[k] = [passed |-> w.passed, allowed |-> w.allowed + Rate]
      BY <1>5, <3>1 DEF Tick, Watched
    <3>3. CASE bucket[k].there
      <4> DEFINE n == bucket[k].tokens
                 i == bucket[k].idle
      <4>1. bucket'[k] = [there |-> TRUE, tokens |-> Fill(n), idle |-> i + 1]
        BY <1>5, <3>3 DEF Tick
      <4>2. n \in 0 .. Burst /\ i \in Nat
        BY <3>1 DEF Bucket
      <4>3. Rate * i \in Nat /\ Rate * (i + 1) = Rate * i + Rate
        BY <4>2, Growth
      <4>4. Fill(n) >= Min2(Burst, Rate * (i + 1))
        <5>1. n >= Min2(Burst, Rate * i)
          BY <3>1 DEF Filled
        <5> HIDE DEF n, i
        <5> QED
          BY <2>1, <4>2, <4>3, <5>1 DEF Min2
      <4>5. w.passed + Fill(n) <= w.allowed + Rate
        BY <2>1, <3>1, <4>2 DEF Kept, Watched
      <4>6. bucket'[k] \in Bucket /\ watched'[k] \in Watched
        BY <2>1, <3>1, <3>2, <4>1, <4>2 DEF Bucket, Watched
      <4> QED
        BY <3>2, <4>1, <4>4, <4>5, <4>6 DEF Filled, Kept
    <3>4. CASE ~bucket[k].there
      <4>1. bucket'[k] = bucket[k]
        BY <1>5, <3>4 DEF Tick
      <4> QED
        BY <3>1, <3>2, <4>1 DEF Filled, Kept, Bucket, Watched
    <3> QED
      BY <3>3, <3>4
  <2>3. bucket' \in [Clients -> Bucket] /\ watched' \in [Clients -> Watched]
    BY <1>5, <2>2 DEF Tick
  <2>4. now' \in 0 .. MaxTicks
    BY <1>5 DEF Tick, IInv, LimiterTypeOK
  <2>5. LimiterTypeOK'
    BY <2>3, <2>4 DEF LimiterTypeOK, Bucket, Watched
  <2> QED
    BY <2>2, <2>5 DEF IInv
<1>6. CASE UNCHANGED limiterVars
  BY <1>6 DEF IInv, LimiterTypeOK, Filled, Kept, limiterVars
<1> QED
  BY <1>1, <1>2, <1>3, <1>4, <1>5, <1>6 DEF LimiterNext

(* The type invariant and the limit hold in every execution: whatever the  *)
(* clients, the rate, the capacity and the idle time, if an idle bucket is *)
(* kept for as long as it takes to fill (getClient, cleanup, Middleware).  *)
THEOREM RateIsKept == LimiterSpec => [](LimiterTypeOK /\ WithinRate)
<1>1. IInv => LimiterTypeOK /\ WithinRate
  <2> SUFFICES ASSUME IInv, NEW c \in Clients PROVE watched[c].passed <= watched[c].allowed
    BY DEF IInv, WithinRate
  <2> QED
    BY DEF IInv, LimiterTypeOK, Kept
<1> QED
  BY <1>1, Initial, StepKeeps, PTL DEF LimiterSpec
------------------------------------------------------------------------------
(* Settings: the copy of the account's privacy settings.                   *)

Working(u) == upd[u].at \in AtWork
OneAtWork == \A u, w \in Updates : Working(u) /\ Working(w) => u = w

(* What an update has done, and has to do.                                 *)
UpdatesInOrder == \A u \in Updates :
  /\ \A n \in upd[u].todo : upd[u].sets[n] # Blank
  /\ upd[u].at = "save" => upd[u].todo = {}
  /\ upd[u].at \in {"fetch", "answer"} => upd[u].name \in upd[u].todo
(* While the client's memory is not stale it holds what the account has,   *)
(* but for what the one update at work has set and is not yet answered.    *)
MemoryIsTrue == ~stale =>
  /\ OneAtWork
  /\ \A u \in Updates :
       /\ upd[u].at = "fetch" => upd[u].base = account
       /\ upd[u].at = "answer" =>
            account = [upd[u].base EXCEPT ![upd[u].name] = upd[u].sets[upd[u].name]]
  /\ memory.there /\ (\A u \in Updates : upd[u].at # "answer") => memory.privacy = account
(* A copy that counts as alone holds what the account still has, and no    *)
(* other writer is at work.                                                *)
IsCopying(k) == link[k].at \in {"fetch", "write"}
AloneIsTrue == \A k \in Links : link[k].alone =>
  /\ IsCopying(k) /\ link[k].read = account /\ ~Active
  /\ \A j \in Links : IsCopying(j) => j = k
(* While the row may not differ, it is the account's but for what the one  *)
(* update at work has set at WhatsApp and not yet in the row.              *)
InRow(u, n) ==
  upd[u].sets[n] = Blank \/ (n \in upd[u].todo /\ ~(upd[u].at = "answer" /\ upd[u].name = n))
RowFollows == ~apart =>
  /\ row.there /\ OneAtWork
  /\ ~Active => row.privacy = account
  /\ \A u \in Updates : Working(u) => \A n \in Names :
       account[n] = IF InRow(u, n) THEN row.privacy[n] ELSE upd[u].sets[n]

Tallies == spent = [k \in DOMAIN SettingsBounds |-> spent[k]]
RowInv ==
  SettingsTypeOK /\ Tallies /\ UpdatesInOrder /\ MemoryIsTrue /\ AloneIsTrue /\ RowFollows

(* What the variables hold, field by field.                                *)
UpdateType == [at : {"idle", "apply", "fetch", "answer", "save", "done"}, sets : Privacy,
               todo : SUBSET Names, name : Names \cup {Blank}, base : Privacy]
LinkType == [at : {"idle", "read", "fetch", "write", "done"}, read : Privacy, alone : BOOLEAN]
RowType == [there : BOOLEAN, privacy : Privacy]
SettingsTypes ==
  /\ account \in Privacy /\ memory \in RowType /\ row \in RowType
  /\ up \in BOOLEAN /\ stale \in BOOLEAN /\ apart \in BOOLEAN
  /\ upd \in [Updates -> UpdateType] /\ link \in [Links -> LinkType]

LEMMA TypesOfSettings ==
  /\ SettingsTypeOK <=> SettingsTypes /\ \A i \in DOMAIN SettingsBounds : spent[i] \in 0 .. SettingsBounds[i]
  /\ SettingsTypeOK' <=> SettingsTypes' /\ \A i \in DOMAIN SettingsBounds : spent'[i] \in 0 .. SettingsBounds[i]
  /\ Privacy = [Names -> Values \cup {Blank}]
BY DEF SettingsTypeOK, SettingsTypes, UpdateType, LinkType, RowType, SettingsBounds, Privacy

LEMMA FirstRow == SettingsInit => RowInv
<1> SUFFICES ASSUME SettingsInit PROVE RowInv
  OBVIOUS
<1>1. \A k \in DOMAIN SettingsBounds : spent[k] = 0 /\ SettingsBounds[k] \in Nat
  BY SettingsAssumption DEF SettingsInit, SettingsBounds
<1>2. \A k \in DOMAIN SettingsBounds : spent[k] \in 0 .. SettingsBounds[k]
  BY <1>1
<1>3. Tallies
  BY DEF SettingsInit, Tallies
<1>4. SettingsTypeOK
  <2>1. Blanks \in Privacy /\ account \in Privacy
    BY DEF SettingsInit, Blanks, Privacy
  <2>2. NoRow \in RowType /\ NoUpdate \in UpdateType /\ NoLink \in LinkType
    BY <2>1 DEF NoRow, RowType, NoUpdate, UpdateType, NoLink, LinkType
  <2>3. SettingsTypes
    BY <2>1, <2>2 DEF SettingsInit, SettingsTypes
  <2> QED
    BY <1>2, <2>3, TypesOfSettings
<1>5. UpdatesInOrder /\ MemoryIsTrue /\ AloneIsTrue /\ RowFollows
  BY DEF SettingsInit, UpdatesInOrder, MemoryIsTrue, AloneIsTrue, RowFollows, OneAtWork,
         Working, AtWork, NoRow, NoUpdate, NoLink
<1> QED
  BY <1>3, <1>4, <1>5 DEF RowInv

(* Counting what fails keeps the counts.                                   *)
LEMMA SpendingKeeps ==
  ASSUME SettingsTypeOK, Tallies, NEW k \in DOMAIN SettingsBounds, Spends(k)
  PROVE  Tallies' /\ \A i \in DOMAIN SettingsBounds : spent'[i] \in 0 .. SettingsBounds[i]
<1> DEFINE D == DOMAIN SettingsBounds
<1>0. k \in D /\ \A i \in D : SettingsBounds[i] \in Nat
  BY SettingsAssumption DEF SettingsBounds
<1>t. spent = [i \in D |-> spent[i]]
  BY DEF Tallies
<1>p. spent' = [spent EXCEPT ![k] = @ + 1]
  BY DEF Spends
<1> HIDE DEF D
<1>1. spent' = [i \in D |-> IF i = k THEN spent[k] + 1 ELSE spent[i]]
  BY <1>0, <1>t, <1>p
<1>2. Tallies'
  <2>1. spent' = [i \in D |-> spent'[i]]
    BY <1>1
  <2> QED
    BY <2>1 DEF Tallies, D, SettingsBounds
<1>3. ASSUME NEW i \in D PROVE spent'[i] \in 0 .. SettingsBounds[i]
  <2>1. spent[i] \in 0 .. SettingsBounds[i] /\ spent[k] < SettingsBounds[k]
    BY DEF SettingsTypeOK, Spends, D
  <2>2. SettingsBounds[i] \in Nat
    BY <1>0
  <2>3. spent'[i] = IF i = k THEN spent[k] + 1 ELSE spent[i]
    BY <1>1
  <2> QED
    BY <2>1, <2>2, <2>3
<1> QED
  BY <1>2, <1>3 DEF D

LEMMA ParametersOfSettings ==
  ASSUME SettingsTypes
  PROVE  /\ Blanks \in Privacy /\ NoRow \in RowType /\ NoUpdate \in UpdateType
         /\ Answered \in UpdateType /\ NoLink \in LinkType
         /\ [NoLink EXCEPT !.at = "write"] \in LinkType
         /\ [NoLink EXCEPT !.at = "done"] \in LinkType
         /\ Joined \in [Links -> LinkType]
         /\ \A p \in Privacy : Remembers(p) \in RowType
         /\ (IF memory.there THEN memory.privacy ELSE account) \in Privacy
<1>1. Blanks \in Privacy
  BY DEF Blanks, Privacy
<1>2. NoRow \in RowType /\ NoUpdate \in UpdateType /\ NoLink \in LinkType
  BY <1>1 DEF NoRow, RowType, NoUpdate, UpdateType, NoLink, LinkType
<1>3. Answered \in UpdateType
  BY <1>2 DEF Answered, UpdateType
<1>4. [NoLink EXCEPT !.at = "write"] \in LinkType /\ [NoLink EXCEPT !.at = "done"] \in LinkType
  BY <1>2 DEF LinkType
<1>5. Joined \in [Links -> LinkType]
  BY DEF Joined, SettingsTypes, LinkType
<1>6. \A p \in Privacy : Remembers(p) \in RowType
  BY DEF Remembers, RowType
<1>7. (IF memory.there THEN memory.privacy ELSE account) \in Privacy
  BY DEF SettingsTypes, RowType
<1> QED
  BY <1>1, <1>2, <1>3, <1>4, <1>5, <1>6, <1>7

LEMMA TypesStay == RowInv /\ [SettingsNext]_settingsVars => SettingsTypeOK' /\ Tallies'
<1> SUFFICES ASSUME RowInv, [SettingsNext]_settingsVars PROVE SettingsTypeOK' /\ Tallies'
  OBVIOUS
<1> DEFINE Counted == \A i \in DOMAIN SettingsBounds : spent'[i] \in 0 .. SettingsBounds[i]
<1>t. SettingsTypeOK /\ Tallies
  BY DEF RowInv
<1>b. \A i \in DOMAIN SettingsBounds : spent[i] \in 0 .. SettingsBounds[i]
  BY <1>t DEF SettingsTypeOK
<1>s. ASSUME NEW k \in {"failures", "phone", "crashes"}, Spends(k) PROVE Tallies' /\ Counted
  BY <1>t, <1>s, SpendingKeeps DEF SettingsBounds
<1>u. ASSUME UNCHANGED spent PROVE Tallies' /\ Counted
  BY <1>t, <1>b, <1>u DEF Tallies
<1>q. ASSUME Tallies', Counted, SettingsTypes' PROVE SettingsTypeOK' /\ Tallies'
  BY <1>q, TypesOfSettings
<1>p. /\ account \in Privacy /\ memory \in RowType /\ row \in RowType
      /\ up \in BOOLEAN /\ stale \in BOOLEAN /\ apart \in BOOLEAN
      /\ upd \in [Updates -> UpdateType] /\ link \in [Links -> LinkType]
  BY <1>t, TypesOfSettings DEF SettingsTypes
<1>n. Privacy = [Names -> Values \cup {Blank}]
  BY DEF Privacy
<1>j. /\ Blanks \in Privacy /\ NoRow \in RowType /\ NoUpdate \in UpdateType
      /\ Answered \in UpdateType /\ NoLink \in LinkType
      /\ [NoLink EXCEPT !.at = "write"] \in LinkType
      /\ [NoLink EXCEPT !.at = "done"] \in LinkType
      /\ Joined \in [Links -> LinkType]
      /\ \A p \in Privacy : Remembers(p) \in RowType
      /\ (IF memory.there THEN memory.privacy ELSE account) \in Privacy
  BY <1>t, TypesOfSettings, ParametersOfSettings
<1>f. \A u \in Updates :
        /\ upd[u].sets \in Privacy /\ upd[u].todo \subseteq Names /\ upd[u].base \in Privacy
        /\ upd[u].name \in Names \cup {Blank}
        /\ \A n \in Names : upd[u].sets[n] \in Values \cup {Blank}
  BY <1>p, <1>n DEF UpdateType
<1>a. Active \in BOOLEAN /\ Copying \in BOOLEAN
  BY DEF Active, Copying
<1> HIDE DEF Counted
<1>1. ASSUME NEW u \in Updates, Change(u) PROVE SettingsTypeOK' /\ Tallies'
  <2>1. CASE row.there
    <3>1. PICK sets \in Privacy : upd' = [upd EXCEPT ![u] = [NoUpdate EXCEPT !.at = "apply",
              !.sets = sets, !.todo = {n \in Names : sets[n] # Blank}]]
      BY <1>1, <2>1 DEF Change
    <3>2. [NoUpdate EXCEPT !.at = "apply", !.sets = sets, !.todo = {n \in Names : sets[n] # Blank}]
            \in UpdateType
      BY <1>j DEF UpdateType, NoUpdate
    <3>3. upd' \in [Updates -> UpdateType]
      BY <1>p, <3>1, <3>2
    <3>4. /\ UNCHANGED <<account, memory, row, up, spent>> /\ link' = Joined
          /\ stale' \in BOOLEAN /\ apart' \in BOOLEAN
      BY <1>1, <2>1, <1>a DEF Change
    <3> QED
      BY <1>p, <1>j, <1>u, <1>q, <3>3, <3>4 DEF SettingsTypes
  <2>2. CASE ~row.there
    <3>1. /\ upd' = [upd EXCEPT ![u] = Answered]
          /\ UNCHANGED <<account, memory, row, up, link, stale, apart, spent>>
      BY <1>1, <2>2 DEF Change
    <3> QED
      BY <1>p, <1>j, <1>u, <1>q, <3>1 DEF SettingsTypes
  <2> QED
    BY <2>1, <2>2
<1>2. ASSUME NEW u \in Updates, NEW n \in Names, Apply(u, n) PROVE SettingsTypeOK' /\ Tallies'
  <2>1. ASSUME NEW at \in {"fetch", "answer"}, Starts(u, n, at) PROVE upd' \in [Updates -> UpdateType]
    <3> DEFINE base == IF memory.there THEN memory.privacy ELSE account
    <3>0. upd' = [upd EXCEPT ![u].at = at, ![u].name = n, ![u].base = base]
      BY <2>1 DEF Starts
    <3>b. base \in Privacy
      BY <1>j
    <3> HIDE DEF base
    <3>1. [upd[u] EXCEPT !.at = at, !.name = n, !.base = base] \in UpdateType
      BY <1>p, <3>b DEF UpdateType
    <3>2. upd' = [upd EXCEPT ![u] = [upd[u] EXCEPT !.at = at, !.name = n, !.base = base]]
      BY <3>0, <1>p
    <3> QED
      BY <1>p, <3>1, <3>2
  <2>2. upd' \in [Updates -> UpdateType]
    BY <1>2, <2>1 DEF Apply
  <2>3. account' \in Privacy
    BY <1>2, <1>p, <1>n, <1>f DEF Apply
  <2>4. UNCHANGED <<memory, row, up, link, stale, apart, spent>>
    BY <1>2 DEF Apply
  <2> QED
    BY <1>p, <1>u, <1>q, <2>2, <2>3, <2>4 DEF SettingsTypes
<1>3. ASSUME NEW u \in Updates, Fetched(u) PROVE SettingsTypeOK' /\ Tallies'
  <2>1. /\ memory' = Remembers(upd[u].base) /\ UNCHANGED <<row, up, link, stale, apart, spent>>
        /\ account' = [account EXCEPT ![upd[u].name] = upd[u].sets[upd[u].name]]
        /\ upd' = [upd EXCEPT ![u] = [upd[u] EXCEPT !.at = "answer"]]
    BY <1>3 DEF Fetched
  <2>2. [upd[u] EXCEPT !.at = "answer"] \in UpdateType
    BY <1>p DEF UpdateType
  <2>3. account' \in Privacy
    BY <1>p, <1>n, <1>f, <2>1
  <2>4. upd' \in [Updates -> UpdateType] /\ memory' \in RowType
    BY <1>p, <1>j, <1>f, <2>1, <2>2
  <2> QED
    BY <1>p, <1>u, <1>q, <2>1, <2>3, <2>4 DEF SettingsTypes
<1>4. ASSUME NEW u \in Updates, Confirmed(u) PROVE SettingsTypeOK' /\ Tallies'
  <2> DEFINE n == upd[u].name
             p == [upd[u].base EXCEPT ![n] = upd[u].sets[n]]
             r == [upd[u] EXCEPT !.at = "apply", !.todo = @ \ {n}]
  <2>1. /\ memory' = Remembers(p) /\ upd' = [upd EXCEPT ![u] = r]
        /\ UNCHANGED <<account, row, up, link, stale, apart, spent>>
    BY <1>4 DEF Confirmed
  <2>2. r \in UpdateType
    BY <1>p DEF UpdateType
  <2>3. p \in Privacy
    BY <1>n, <1>f
  <2> HIDE DEF n, p, r
  <2>4. upd' \in [Updates -> UpdateType] /\ memory' \in RowType
    BY <1>p, <1>j, <2>1, <2>2, <2>3
  <2> QED
    BY <1>p, <1>u, <1>q, <2>1, <2>4 DEF SettingsTypes
<1>5. ASSUME NEW u \in Updates, ApplyFails(u) PROVE SettingsTypeOK' /\ Tallies'
  <2>1. memory' \in RowType
    BY <1>5, <1>p, <1>j, <1>f DEF ApplyFails
  <2>2. /\ upd' = [upd EXCEPT ![u] = Answered] /\ UNCHANGED <<account, row, up, link>>
        /\ stale' \in BOOLEAN /\ apart' \in BOOLEAN /\ (Spends("failures") \/ UNCHANGED spent)
    BY <1>5, <1>p DEF ApplyFails
  <2> QED
    BY <1>p, <1>j, <1>s, <1>u, <1>q, <2>1, <2>2 DEF SettingsTypes
<1>6. ASSUME NEW u \in Updates, Applied(u) PROVE SettingsTypeOK' /\ Tallies'
  <2>1. /\ upd' = [upd EXCEPT ![u] = [upd[u] EXCEPT !.at = "save"]]
        /\ UNCHANGED <<account, memory, row, up, link, stale, apart, spent>>
    BY <1>6 DEF Applied
  <2>2. [upd[u] EXCEPT !.at = "save"] \in UpdateType
    BY <1>p DEF UpdateType
  <2> QED
    BY <1>p, <1>u, <1>q, <2>1, <2>2 DEF SettingsTypes
<1>7. ASSUME NEW u \in Updates, Save(u) PROVE SettingsTypeOK' /\ Tallies'
  <2>1. row.privacy \in Privacy
    BY <1>p DEF RowType
  <2>2. Merged(u) \in Privacy
    BY <1>n, <1>f, <2>1 DEF Merged
  <2>3. [row EXCEPT !.privacy = Merged(u)] \in RowType
    BY <1>p, <2>2 DEF RowType
  <2>4. /\ row' \in RowType /\ upd' = [upd EXCEPT ![u] = Answered] /\ apart' \in BOOLEAN
        /\ UNCHANGED <<account, memory, up, link, stale>>
        /\ (Spends("failures") \/ UNCHANGED spent)
    BY <1>7, <1>p, <2>3 DEF Save
  <2> QED
    BY <1>p, <1>j, <1>s, <1>u, <1>q, <2>4 DEF SettingsTypes
<1>8. ASSUME NEW k \in Links, Connect(k) PROVE SettingsTypeOK' /\ Tallies'
  <2>1. [link[k] EXCEPT !.at = "read"] \in LinkType /\ [row EXCEPT !.there = TRUE] \in RowType
    BY <1>p DEF LinkType, RowType
  <2>2. /\ link' = [link EXCEPT ![k] = [link[k] EXCEPT !.at = "read"]] /\ up' = TRUE
        /\ row' \in {row, [row EXCEPT !.there = TRUE]}
        /\ UNCHANGED <<account, memory, upd, stale, apart>>
        /\ (Spends("failures") \/ UNCHANGED spent)
    BY <1>8 DEF Connect
  <2> QED
    BY <1>p, <1>s, <1>u, <1>q, <2>1, <2>2 DEF SettingsTypes
<1>9. ASSUME NEW k \in Links, Read(k) PROVE SettingsTypeOK' /\ Tallies'
  <2> DEFINE p == IF memory.there THEN memory.privacy ELSE account
             alone == ~(Active \/ Copying) /\ (memory.there => ~stale)
             r == [at |-> IF memory.there THEN "write" ELSE "fetch", read |-> p, alone |-> alone]
  <2>1. /\ link' = [Joined EXCEPT ![k] = r] /\ apart' = (apart \/ Active \/ Copying)
        /\ UNCHANGED <<account, memory, row, up, upd, stale, spent>>
    BY <1>9 DEF Read
  <2>2. r \in LinkType
    BY <1>j DEF LinkType
  <2>3. apart' \in BOOLEAN
    BY <1>a, <1>p, <2>1
  <2> HIDE DEF r
  <2> QED
    BY <1>p, <1>j, <1>u, <1>q, <2>1, <2>2, <2>3 DEF SettingsTypes
<1>10. ASSUME NEW k \in Links, ReadStored(k) PROVE SettingsTypeOK' /\ Tallies'
  <2>1. /\ memory' = Remembers(link[k].read) /\ stale' = ~link[k].alone
        /\ link' = [link EXCEPT ![k] = [link[k] EXCEPT !.at = "write"]]
        /\ UNCHANGED <<account, row, up, upd, apart, spent>>
    BY <1>10 DEF ReadStored
  <2>2. [link[k] EXCEPT !.at = "write"] \in LinkType /\ link[k].read \in Privacy
    BY <1>p DEF LinkType
  <2> QED
    BY <1>p, <1>j, <1>u, <1>q, <2>1, <2>2 DEF SettingsTypes
<1>11. ASSUME NEW k \in Links, ReadFails(k) PROVE SettingsTypeOK' /\ Tallies'
  <2>1. /\ link' = [link EXCEPT ![k] = [NoLink EXCEPT !.at = "write"]]
        /\ UNCHANGED <<account, memory, row, up, upd, stale, apart>>
        /\ (Spends("failures") \/ UNCHANGED spent)
    BY <1>11 DEF ReadFails
  <2> QED
    BY <1>p, <1>j, <1>s, <1>u, <1>q, <2>1 DEF SettingsTypes
<1>12. ASSUME NEW k \in Links, ReadNothing(k) PROVE SettingsTypeOK' /\ Tallies'
  <2>1. /\ link' = [link EXCEPT ![k] = [link[k] EXCEPT !.at = "done"]]
        /\ UNCHANGED <<account, memory, row, up, upd, stale, apart, spent>>
    BY <1>12 DEF ReadNothing
  <2>2. [link[k] EXCEPT !.at = "done"] \in LinkType
    BY <1>p DEF LinkType
  <2> QED
    BY <1>p, <1>u, <1>q, <2>1, <2>2 DEF SettingsTypes
<1>13. ASSUME NEW k \in Links, Write(k) PROVE SettingsTypeOK' /\ Tallies'
  <2>1. Copied(k) \in Privacy
    BY <1>p DEF Copied, LinkType
  <2>2. [row EXCEPT !.privacy = Copied(k)] \in RowType
    BY <1>p, <2>1 DEF RowType
  <2>3. link[k].alone \in BOOLEAN
    BY <1>p DEF LinkType
  <2>4. /\ link' = [link EXCEPT ![k] = [NoLink EXCEPT !.at = "done"]]
        /\ row' \in RowType /\ apart' \in BOOLEAN /\ UNCHANGED <<account, memory, up, upd, stale>>
        /\ (Spends("failures") \/ UNCHANGED spent)
    BY <1>13, <1>p, <2>2, <2>3 DEF Write
  <2> QED
    BY <1>p, <1>j, <1>s, <1>u, <1>q, <2>4 DEF SettingsTypes
<1>14. CASE PhoneChanges
  <2> DEFINE was == IF memory.there THEN memory.privacy ELSE account'
             p == [n \in Names |-> IF account'[n] # account[n] THEN account'[n] ELSE was[n]]
  <2>1. /\ account' \in [Names -> Values] /\ (UNCHANGED memory \/ memory' = Remembers(p))
        /\ stale' \in BOOLEAN /\ apart' = TRUE /\ link' = Joined /\ Spends("phone")
        /\ UNCHANGED <<row, up, upd>>
    BY <1>14, <1>p, <1>a DEF PhoneChanges, RowType
  <2>2. account' \in Privacy
    BY <2>1, <1>n
  <2>3. was \in Privacy
    BY <1>p, <2>2 DEF RowType
  <2>4. p \in Privacy
    BY <2>2, <2>3, <1>n
  <2> HIDE DEF p
  <2> QED
    BY <1>p, <1>j, <1>s, <1>q, <2>1, <2>2, <2>4 DEF SettingsTypes
<1>15. CASE Disconnect
  BY <1>15, <1>p, <1>u, <1>q DEF Disconnect, SettingsTypes
<1>16. CASE Crash
  <2>1. /\ upd' \in [Updates -> UpdateType] /\ link' \in [Links -> LinkType]
        /\ memory' = NoRow /\ up' = FALSE /\ stale' = FALSE /\ apart' = (apart \/ Active)
        /\ UNCHANGED <<account, row>> /\ Spends("crashes")
    BY <1>16, <1>p, <1>j DEF Crash
  <2>2. apart' \in BOOLEAN
    BY <2>1, <1>p, <1>a
  <2> QED
    BY <1>p, <1>j, <1>s, <1>q, <2>1, <2>2 DEF SettingsTypes
<1>17. CASE UNCHANGED settingsVars
  BY <1>17, <1>p, <1>u, <1>q DEF settingsVars, SettingsTypes
<1> QED
  BY <1>1, <1>2, <1>3, <1>4, <1>5, <1>6, <1>7, <1>8, <1>9, <1>10, <1>11, <1>12, <1>13, <1>14,
     <1>15, <1>16, <1>17 DEF SettingsNext

(* What each step of an update changes, field by field.                    *)
LEMMA ChangeDoes ==
  ASSUME SettingsTypes, NEW u \in Updates, Change(u), row.there
  PROVE  /\ upd[u].at = "idle" /\ upd'[u].at = "apply"
         /\ \A n \in upd'[u].todo : upd'[u].sets[n] # Blank
         /\ \A n \in Names : upd'[u].sets[n] = Blank \/ n \in upd'[u].todo
         /\ \A w \in Updates \ {u} : upd'[w] = upd[w]
         /\ UNCHANGED <<account, memory, row>> /\ link' = Joined
         /\ stale' = (stale \/ Active) /\ apart' = (apart \/ Active \/ Copying)
<1>1. PICK sets \in Privacy : upd' = [upd EXCEPT ![u] = [NoUpdate EXCEPT !.at = "apply",
              !.sets = sets, !.todo = {n \in Names : sets[n] # Blank}]]
  BY DEF Change
<1>2. upd'[u] = [NoUpdate EXCEPT !.at = "apply", !.sets = sets, !.todo = {n \in Names : sets[n] # Blank}]
  BY <1>1 DEF SettingsTypes
<1>3. /\ upd'[u].at = "apply" /\ upd'[u].sets = sets
      /\ upd'[u].todo = {n \in Names : sets[n] # Blank}
  BY <1>2 DEF NoUpdate
<1>4. \A w \in Updates \ {u} : upd'[w] = upd[w]
  BY <1>1 DEF SettingsTypes
<1>5. /\ upd[u].at = "idle" /\ UNCHANGED <<account, memory, row>> /\ link' = Joined
      /\ stale' = (stale \/ Active) /\ apart' = (apart \/ Active \/ Copying)
  BY DEF Change
<1> QED
  BY <1>3, <1>4, <1>5

LEMMA ApplyDoes ==
  ASSUME SettingsTypes, NEW u \in Updates, NEW n \in Names, Apply(u, n)
  PROVE  /\ upd[u].at = "apply" /\ n \in upd[u].todo
         /\ upd'[u].at = (IF memory.there THEN "answer" ELSE "fetch")
         /\ upd'[u].name = n /\ upd'[u].sets = upd[u].sets /\ upd'[u].todo = upd[u].todo
         /\ upd'[u].base = (IF memory.there THEN memory.privacy ELSE account)
         /\ \A w \in Updates \ {u} : upd'[w] = upd[w]
         /\ account' = (IF memory.there THEN [account EXCEPT ![n] = upd[u].sets[n]] ELSE account)
         /\ UNCHANGED <<memory, row, link, stale, apart>>
<1> DEFINE base == IF memory.there THEN memory.privacy ELSE account
           at == IF memory.there THEN "answer" ELSE "fetch"
<1>1. upd' = [upd EXCEPT ![u].at = at, ![u].name = n, ![u].base = base]
  BY DEF Apply, Starts
<1>2. /\ upd[u].at = "apply" /\ n \in upd[u].todo
      /\ account' = (IF memory.there THEN [account EXCEPT ![n] = upd[u].sets[n]] ELSE account)
      /\ UNCHANGED <<memory, row, link, stale, apart>>
  BY DEF Apply
<1> HIDE DEF base, at
<1>3. upd' = [upd EXCEPT ![u] = [upd[u] EXCEPT !.at = at, !.name = n, !.base = base]]
  BY <1>1 DEF SettingsTypes
<1>4. /\ upd'[u] = [upd[u] EXCEPT !.at = at, !.name = n, !.base = base] /\ upd[u] \in UpdateType
      /\ \A w \in Updates \ {u} : upd'[w] = upd[w]
  BY <1>3 DEF SettingsTypes
<1>5. /\ upd'[u].at = at /\ upd'[u].name = n /\ upd'[u].base = base
      /\ upd'[u].sets = upd[u].sets /\ upd'[u].todo = upd[u].todo
  BY <1>4 DEF UpdateType
<1> QED
  BY <1>2, <1>4, <1>5 DEF at, base

LEMMA FetchedDoes ==
  ASSUME SettingsTypes, NEW u \in Updates, Fetched(u)
  PROVE  /\ upd[u].at = "fetch" /\ upd'[u].at = "answer" /\ upd'[u].name = upd[u].name
         /\ upd'[u].sets = upd[u].sets /\ upd'[u].todo = upd[u].todo /\ upd'[u].base = upd[u].base
         /\ \A w \in Updates \ {u} : upd'[w] = upd[w]
         /\ account' = [account EXCEPT ![upd[u].name] = upd[u].sets[upd[u].name]]
         /\ memory' = Remembers(upd[u].base) /\ UNCHANGED <<row, link, stale, apart>>
<1>1. upd' = [upd EXCEPT ![u] = [upd[u] EXCEPT !.at = "answer"]]
  BY DEF Fetched
<1>2. /\ upd'[u] = [upd[u] EXCEPT !.at = "answer"] /\ upd[u] \in UpdateType
      /\ \A w \in Updates \ {u} : upd'[w] = upd[w]
  BY <1>1 DEF SettingsTypes
<1>3. /\ upd'[u].at = "answer" /\ upd'[u].name = upd[u].name /\ upd'[u].sets = upd[u].sets
      /\ upd'[u].todo = upd[u].todo /\ upd'[u].base = upd[u].base
  BY <1>2 DEF UpdateType
<1> QED
  BY <1>2, <1>3 DEF Fetched

LEMMA ConfirmedDoes ==
  ASSUME SettingsTypes, NEW u \in Updates, Confirmed(u)
  PROVE  /\ upd[u].at = "answer" /\ upd'[u].at = "apply" /\ upd'[u].sets = upd[u].sets
         /\ upd'[u].todo = upd[u].todo \ {upd[u].name}
         /\ \A w \in Updates \ {u} : upd'[w] = upd[w]
         /\ memory' = Remembers([upd[u].base EXCEPT ![upd[u].name] = upd[u].sets[upd[u].name]])
         /\ UNCHANGED <<account, row, link, stale, apart>>
<1> DEFINE r == [upd[u] EXCEPT !.at = "apply", !.todo = @ \ {upd[u].name}]
<1>1. upd' = [upd EXCEPT ![u] = r]
  BY DEF Confirmed
<1>2. upd'[u] = r /\ upd[u] \in UpdateType /\ \A w \in Updates \ {u} : upd'[w] = upd[w]
  BY <1>1 DEF SettingsTypes
<1>3. /\ upd'[u].at = "apply" /\ upd'[u].sets = upd[u].sets
      /\ upd'[u].todo = upd[u].todo \ {upd[u].name}
  BY <1>2 DEF UpdateType
<1>4. /\ upd[u].at = "answer" /\ UNCHANGED <<account, row, link, stale, apart>>
      /\ memory' = Remembers([upd[u].base EXCEPT ![upd[u].name] = upd[u].sets[upd[u].name]])
  BY DEF Confirmed
<1> QED
  BY <1>2, <1>3, <1>4

LEMMA AppliedDoes ==
  ASSUME SettingsTypes, NEW u \in Updates, Applied(u)
  PROVE  /\ upd[u].at = "apply" /\ upd[u].todo = {} /\ upd'[u].at = "save"
         /\ upd'[u].sets = upd[u].sets /\ upd'[u].todo = upd[u].todo
         /\ \A w \in Updates \ {u} : upd'[w] = upd[w]
         /\ UNCHANGED <<account, memory, row, link, stale, apart>>
<1>1. upd' = [upd EXCEPT ![u] = [upd[u] EXCEPT !.at = "save"]]
  BY DEF Applied
<1>2. /\ upd'[u] = [upd[u] EXCEPT !.at = "save"] /\ upd[u] \in UpdateType
      /\ \A w \in Updates \ {u} : upd'[w] = upd[w]
  BY <1>1 DEF SettingsTypes
<1>3. /\ upd'[u].at = "save" /\ upd'[u].sets = upd[u].sets /\ upd'[u].todo = upd[u].todo
  BY <1>2 DEF UpdateType
<1> QED
  BY <1>2, <1>3 DEF Applied

(* The end of an update, whatever its outcome.                             *)
LEMMA EndDoes ==
  ASSUME SettingsTypes, NEW u \in Updates, upd' = [upd EXCEPT ![u] = Answered]
  PROVE  /\ upd'[u].at = "done" /\ upd'[u].todo = {}
         /\ \A w \in Updates \ {u} : upd'[w] = upd[w]
BY DEF SettingsTypes, Answered, NoUpdate

LEMMA CrashDoes ==
  ASSUME SettingsTypes, Crash
  PROVE  \A u \in Updates : /\ upd'[u] = upd[u] \/ (upd'[u].at = "done" /\ upd'[u].todo = {})
                            /\ ~Working(u)'
BY DEF Crash, Working, AtWork, Answered, NoUpdate

(* Who is at work after a step that only changes how far one has come.     *)
LEMMA OrderStays == RowInv /\ [SettingsNext]_settingsVars => UpdatesInOrder'
<1> SUFFICES ASSUME RowInv, [SettingsNext]_settingsVars PROVE UpdatesInOrder'
  OBVIOUS
<1>t. SettingsTypes /\ UpdatesInOrder
  BY TypesOfSettings DEF RowInv
<1> DEFINE Ordered(u) ==
             /\ \A n \in upd[u].todo : upd[u].sets[n] # Blank
             /\ upd[u].at = "save" => upd[u].todo = {}
             /\ upd[u].at \in {"fetch", "answer"} => upd[u].name \in upd[u].todo
<1>o. \A u \in Updates : Ordered(u)
  BY <1>t DEF UpdatesInOrder
<1>q. (\A u \in Updates : Ordered(u)') => UpdatesInOrder'
  BY DEF UpdatesInOrder
<1>w. \A u \in Updates : upd'[u] = upd[u] => Ordered(u)'
  BY <1>o
<1>e. ASSUME NEW u \in Updates, upd'[u].at = "done", upd'[u].todo = {} PROVE Ordered(u)'
  BY <1>e
<1> HIDE DEF Ordered
<1>1. ASSUME NEW u \in Updates, Change(u) PROVE UpdatesInOrder'
  <2>1. CASE row.there
    BY <1>1, <1>t, <1>q, <1>w, <2>1, ChangeDoes DEF Ordered
  <2>2. CASE ~row.there
    <3>1. upd' = [upd EXCEPT ![u] = Answered]
      BY <1>1, <2>2 DEF Change
    <3> QED
      BY <1>t, <1>q, <1>w, <1>e, <3>1, EndDoes
  <2> QED
    BY <2>1, <2>2
<1>2. ASSUME NEW u \in Updates, NEW n \in Names, Apply(u, n) PROVE UpdatesInOrder'
  <2>1. Ordered(u)'
    BY <1>2, <1>t, <1>o, ApplyDoes DEF Ordered
  <2>2. \A w \in Updates \ {u} : Ordered(w)'
    BY <1>2, <1>t, <1>w, ApplyDoes
  <2> QED
    BY <1>q, <2>1, <2>2
<1>3. ASSUME NEW u \in Updates, Fetched(u) PROVE UpdatesInOrder'
  <2>1. Ordered(u)'
    BY <1>3, <1>t, <1>o, FetchedDoes DEF Ordered
  <2>2. \A w \in Updates \ {u} : Ordered(w)'
    BY <1>3, <1>t, <1>w, FetchedDoes
  <2> QED
    BY <1>q, <2>1, <2>2
<1>4. ASSUME NEW u \in Updates, Confirmed(u) PROVE UpdatesInOrder'
  <2>0. /\ upd'[u].at = "apply" /\ upd'[u].sets = upd[u].sets
        /\ upd'[u].todo \subseteq upd[u].todo
    BY <1>4, <1>t, ConfirmedDoes
  <2>1. Ordered(u)'
    BY <1>o, <2>0 DEF Ordered
  <2>2. \A w \in Updates \ {u} : Ordered(w)'
    BY <1>4, <1>t, <1>w, ConfirmedDoes
  <2> QED
    BY <1>q, <2>1, <2>2
<1>5. ASSUME NEW u \in Updates, ApplyFails(u) \/ Save(u) PROVE UpdatesInOrder'
  <2>1. upd' = [upd EXCEPT ![u] = Answered]
    BY <1>5 DEF ApplyFails, Save
  <2> QED
    BY <1>t, <1>q, <1>w, <1>e, <2>1, EndDoes
<1>6. ASSUME NEW u \in Updates, Applied(u) PROVE UpdatesInOrder'
  <2>1. Ordered(u)'
    BY <1>6, <1>t, <1>o, AppliedDoes DEF Ordered
  <2>2. \A w \in Updates \ {u} : Ordered(w)'
    BY <1>6, <1>t, <1>w, AppliedDoes
  <2> QED
    BY <1>q, <2>1, <2>2
<1>7. CASE UNCHANGED upd
  BY <1>7, <1>q, <1>w
<1>8. CASE Crash
  BY <1>8, <1>t, <1>q, <1>w, <1>e, CrashDoes
<1> QED
  BY <1>1, <1>2, <1>3, <1>4, <1>5, <1>6, <1>7, <1>8
     DEF SettingsNext, Connect, Read, ReadStored, ReadFails, ReadNothing, Write, PhoneChanges,
         Disconnect, settingsVars

(* The client's memory is true through every step.                         *)
LEMMA MemoryStays == RowInv /\ [SettingsNext]_settingsVars => MemoryIsTrue'
<1> DEFINE Pending(u) ==
             /\ upd[u].at = "fetch" => upd[u].base = account
             /\ upd[u].at = "answer" =>
                  account = [upd[u].base EXCEPT ![upd[u].name] = upd[u].sets[upd[u].name]]
           Recalled == memory.there /\ (\A u \in Updates : upd[u].at # "answer")
                         => memory.privacy = account
           Right == OneAtWork /\ (\A u \in Updates : Pending(u)) /\ Recalled
<1> SUFFICES ASSUME RowInv, [SettingsNext]_settingsVars, ~stale' PROVE Right'
  BY DEF MemoryIsTrue
<1>t. SettingsTypes /\ UpdatesInOrder /\ AloneIsTrue
  BY TypesOfSettings DEF RowInv
<1>k. ~stale => Right
  BY DEF RowInv, MemoryIsTrue
<1>n. account \in Privacy /\ memory \in RowType /\ Privacy = [Names -> Values \cup {Blank}]
      /\ \A p : Remembers(p).there /\ Remembers(p).privacy = p
  BY <1>t, TypesOfSettings DEF SettingsTypes, Remembers
<1>a. Active <=> \E u \in Updates : Working(u)
  BY DEF Active, Working
<1>p. ASSUME NEW u \in Updates, UNCHANGED account, upd'[u] = upd[u], ~stale PROVE Pending(u)'
  BY <1>p, <1>k
<1>r. ASSUME NEW u \in Updates, upd'[u].at \notin {"fetch", "answer"} PROVE Pending(u)'
  BY <1>r
<1>z. ASSUME \A u \in Updates : ~Working(u)' PROVE OneAtWork' /\ \A u \in Updates : Pending(u)'
  BY <1>z DEF OneAtWork, Working, AtWork
<1>y. ASSUME UNCHANGED <<account, memory, upd>>, ~stale PROVE Right'
  BY <1>k, <1>y DEF OneAtWork, Working
<1>d. ASSUME NEW u \in Updates, ~stale, \A w \in Updates \ {u} : upd'[w] = upd[w],
             Working(u) \/ ~Working(u)'
      PROVE  OneAtWork' /\ (Working(u) => \A w \in Updates : Working(w)' => w = u)
  BY <1>k, <1>d DEF OneAtWork, Working
<1> HIDE DEF Pending
<1>1. ASSUME NEW u \in Updates, Change(u) PROVE Right'
  <2>1. CASE row.there
    <3>1. ~stale /\ ~Active /\ UNCHANGED <<account, memory>>
      BY <1>1, <1>t, <2>1, ChangeDoes
    <3>2. upd'[u].at = "apply" /\ \A w \in Updates \ {u} : upd'[w] = upd[w]
      BY <1>1, <1>t, <2>1, ChangeDoes
    <3>3. OneAtWork'
      BY <1>a, <3>1, <3>2 DEF OneAtWork, Working
    <3>4. \A w \in Updates : Pending(w)'
      BY <1>p, <1>r, <3>1, <3>2
    <3>5. \A w \in Updates : upd[w].at # "answer"
      BY <1>a, <3>1 DEF Working, AtWork
    <3> QED
      BY <1>k, <3>1, <3>3, <3>4, <3>5
  <2>2. CASE ~row.there
    <3>1. /\ upd[u].at = "idle" /\ upd' = [upd EXCEPT ![u] = Answered]
          /\ UNCHANGED <<account, memory, stale>>
      BY <1>1, <2>2 DEF Change
    <3>2. upd'[u].at = "done" /\ \A w \in Updates \ {u} : upd'[w] = upd[w]
      BY <1>t, <3>1, EndDoes
    <3>3. OneAtWork'
      BY <1>d, <3>1, <3>2 DEF Working, AtWork
    <3>4. \A w \in Updates : Pending(w)'
      BY <1>p, <1>r, <3>1, <3>2
    <3>5. Recalled'
      BY <1>k, <3>1, <3>2
    <3> QED
      BY <3>3, <3>4, <3>5
  <2> QED
    BY <2>1, <2>2
<1>2. ASSUME NEW u \in Updates, NEW n \in Names, Apply(u, n) PROVE Right'
  <2>1. /\ ~stale /\ UNCHANGED memory /\ upd[u].at = "apply" /\ upd'[u].name = n
        /\ upd'[u].sets = upd[u].sets /\ \A w \in Updates \ {u} : upd'[w] = upd[w]
        /\ upd'[u].at = (IF memory.there THEN "answer" ELSE "fetch")
        /\ upd'[u].base = (IF memory.there THEN memory.privacy ELSE account)
        /\ account' = (IF memory.there THEN [account EXCEPT ![n] = upd[u].sets[n]] ELSE account)
    BY <1>2, <1>t, ApplyDoes
  <2>2. OneAtWork' /\ \A w \in Updates : Working(w)' => w = u
    BY <1>d, <2>1 DEF Working, AtWork
  <2>3. \A w \in Updates : upd[w].at # "answer"
    BY <1>k, <2>1 DEF OneAtWork, Working, AtWork
  <2>4. memory.there => memory.privacy = account
    BY <1>k, <2>1, <2>3
  <2>5. Pending(u)'
    BY <2>1, <2>4 DEF Pending
  <2>6. \A w \in Updates : Pending(w)'
    BY <1>r, <2>2, <2>5 DEF Working, AtWork
  <2> QED
    BY <2>1, <2>2, <2>6
<1>3. ASSUME NEW u \in Updates, Fetched(u) PROVE Right'
  <2>1. /\ ~stale /\ upd[u].at = "fetch" /\ upd'[u].at = "answer" /\ upd'[u].name = upd[u].name
        /\ upd'[u].sets = upd[u].sets /\ upd'[u].base = upd[u].base
        /\ \A w \in Updates \ {u} : upd'[w] = upd[w]
        /\ account' = [account EXCEPT ![upd[u].name] = upd[u].sets[upd[u].name]]
    BY <1>3, <1>t, FetchedDoes
  <2>2. OneAtWork' /\ \A w \in Updates : Working(w)' => w = u
    BY <1>d, <2>1 DEF Working, AtWork
  <2>3. upd[u].base = account
    BY <1>k, <2>1 DEF Pending
  <2>4. Pending(u)'
    BY <2>1, <2>3 DEF Pending
  <2>5. \A w \in Updates : Pending(w)'
    BY <1>r, <2>2, <2>4 DEF Working, AtWork
  <2> QED
    BY <2>1, <2>2, <2>5
<1>4. ASSUME NEW u \in Updates, Confirmed(u) PROVE Right'
  <2>1. /\ ~stale /\ upd[u].at = "answer" /\ upd'[u].at = "apply" /\ UNCHANGED account
        /\ \A w \in Updates \ {u} : upd'[w] = upd[w]
        /\ memory' = Remembers([upd[u].base EXCEPT ![upd[u].name] = upd[u].sets[upd[u].name]])
    BY <1>4, <1>t, ConfirmedDoes
  <2>2. OneAtWork' /\ \A w \in Updates : Working(w)' => w = u
    BY <1>d, <2>1 DEF Working, AtWork
  <2>3. account = [upd[u].base EXCEPT ![upd[u].name] = upd[u].sets[upd[u].name]]
    BY <1>k, <2>1 DEF Pending
  <2>4. memory'.privacy = account'
    BY <1>n, <2>1, <2>3
  <2>5. \A w \in Updates : Pending(w)'
    BY <1>p, <1>r, <2>1
  <2> QED
    BY <2>2, <2>4, <2>5
<1>5. ASSUME NEW u \in Updates, ApplyFails(u) PROVE Right'
  <2>1. /\ ~stale /\ upd[u].at \in {"apply", "fetch"} /\ UNCHANGED account
        /\ memory' = memory \/ (upd[u].at = "fetch" /\ memory' = Remembers(upd[u].base))
        /\ upd' = [upd EXCEPT ![u] = Answered]
    BY <1>5 DEF ApplyFails
  <2>2. upd'[u].at = "done" /\ \A w \in Updates \ {u} : upd'[w] = upd[w]
    BY <1>t, <2>1, EndDoes
  <2>3. OneAtWork' /\ \A w \in Updates : ~Working(w)'
    BY <1>d, <2>1, <2>2 DEF Working, AtWork
  <2>4. \A w \in Updates : upd[w].at # "answer"
    BY <1>k, <2>1 DEF OneAtWork, Working, AtWork
  <2>5. memory'.there => memory'.privacy = account'
    BY <1>k, <1>n, <2>1, <2>4 DEF Pending
  <2> QED
    BY <1>z, <2>3, <2>5
<1>6. ASSUME NEW u \in Updates, Applied(u) PROVE Right'
  <2>1. /\ ~stale /\ upd[u].at = "apply" /\ upd'[u].at = "save" /\ UNCHANGED <<account, memory>>
        /\ \A w \in Updates \ {u} : upd'[w] = upd[w]
    BY <1>6, <1>t, AppliedDoes
  <2>2. OneAtWork'
    BY <1>d, <2>1 DEF Working, AtWork
  <2>3. \A w \in Updates : Pending(w)'
    BY <1>p, <1>r, <2>1
  <2>4. Recalled'
    BY <1>k, <2>1
  <2> QED
    BY <2>2, <2>3, <2>4
<1>7. ASSUME NEW u \in Updates, Save(u) PROVE Right'
  <2>1. /\ ~stale /\ upd[u].at = "save" /\ UNCHANGED <<account, memory>>
        /\ upd' = [upd EXCEPT ![u] = Answered]
    BY <1>7 DEF Save
  <2>2. upd'[u].at = "done" /\ \A w \in Updates \ {u} : upd'[w] = upd[w]
    BY <1>t, <2>1, EndDoes
  <2>3. OneAtWork'
    BY <1>d, <2>1, <2>2 DEF Working, AtWork
  <2>4. \A w \in Updates : Pending(w)'
    BY <1>p, <1>r, <2>1, <2>2
  <2>5. Recalled'
    BY <1>k, <2>1, <2>2
  <2> QED
    BY <2>3, <2>4, <2>5
<1>8. ASSUME NEW k \in Links, Connect(k) \/ Read(k) \/ ReadFails(k) \/ ReadNothing(k) \/ Write(k)
      PROVE  Right'
  BY <1>8, <1>y DEF Connect, Read, ReadFails, ReadNothing, Write
<1>9. ASSUME NEW k \in Links, ReadStored(k) PROVE Right'
  <2>1. link[k].alone /\ memory' = Remembers(link[k].read) /\ UNCHANGED <<account, upd>>
    BY <1>9 DEF ReadStored
  <2>2. link[k].read = account /\ ~Active
    BY <1>t, <2>1 DEF AloneIsTrue
  <2>3. \A u \in Updates : ~Working(u)'
    BY <1>a, <2>1, <2>2 DEF Working
  <2>4. memory'.privacy = account'
    BY <1>n, <2>1, <2>2
  <2> QED
    BY <1>z, <2>3, <2>4
<1>10. CASE PhoneChanges
  <2>1. ~stale /\ ~Active /\ UNCHANGED upd /\ account' \in [Names -> Values]
    BY <1>10 DEF PhoneChanges
  <2>2. \A u \in Updates : ~Working(u) /\ ~Working(u)'
    BY <1>a, <2>1 DEF Working
  <2>3. memory'.there => memory'.privacy = account'
    <3> DEFINE was == IF memory.there THEN memory.privacy ELSE account'
               p == [n \in Names |-> IF account'[n] # account[n] THEN account'[n] ELSE was[n]]
    <3>1. (UNCHANGED memory /\ ~memory.there) \/ memory' = Remembers(p)
      BY <1>10 DEF PhoneChanges
    <3>2. memory.there => memory.privacy = account
      BY <1>k, <2>1, <2>2 DEF Working, AtWork
    <3>3. \A n \in Names : p[n] = account'[n]
      BY <3>2
    <3>4. p = account'
      BY <2>1, <3>3
    <3> HIDE DEF p
    <3> QED
      BY <1>n, <3>1, <3>4
  <2> QED
    BY <1>z, <2>2, <2>3
<1>11. CASE Disconnect \/ UNCHANGED settingsVars
  BY <1>11, <1>y DEF Disconnect, settingsVars
<1>12. CASE Crash
  <2>1. \A u \in Updates : ~Working(u)'
    BY <1>12, <1>t, CrashDoes
  <2>2. ~memory'.there
    BY <1>12 DEF Crash, NoRow
  <2> QED
    BY <1>z, <2>1, <2>2
<1> QED
  BY <1>1, <1>2, <1>3, <1>4, <1>5, <1>6, <1>7, <1>8, <1>9, <1>10, <1>11, <1>12 DEF SettingsNext

(* A copy is alone from when it reads until another writer begins.         *)
LEMMA AloneStays == RowInv /\ [SettingsNext]_settingsVars => AloneIsTrue'
<1> SUFFICES ASSUME RowInv, [SettingsNext]_settingsVars PROVE AloneIsTrue'
  OBVIOUS
<1>t. SettingsTypes /\ AloneIsTrue /\ MemoryIsTrue
  BY TypesOfSettings DEF RowInv
<1>f. DOMAIN link = Links /\ \A k \in Links : link[k] \in LinkType
  BY <1>t DEF SettingsTypes
<1>a. (Active <=> \E u \in Updates : Working(u)) /\ (Active' <=> \E u \in Updates : Working(u)')
  BY DEF Active, Working
<1>c. Copying <=> \E k \in Links : IsCopying(k)
  BY DEF Copying, IsCopying
<1>1. ASSUME link' = Joined PROVE AloneIsTrue'
  <2>1. \A k \in Links : ~Joined[k].alone
    BY <1>f DEF Joined, LinkType
  <2> QED
    BY <1>1, <2>1 DEF AloneIsTrue
<1>2. ASSUME NEW u \in Updates, Change(u) PROVE AloneIsTrue'
  <2>1. CASE row.there
    BY <1>2, <1>1, <2>1 DEF Change
  <2>2. CASE ~row.there
    <3>1. upd[u].at = "idle" /\ upd' = [upd EXCEPT ![u] = Answered] /\ UNCHANGED <<link, account>>
      BY <1>2, <2>2 DEF Change
    <3>2. upd'[u].at = "done" /\ \A w \in Updates \ {u} : upd'[w] = upd[w]
      BY <1>t, <3>1, EndDoes
    <3>3. Active' <=> Active
      BY <1>a, <3>1, <3>2 DEF Working, AtWork
    <3> QED
      BY <1>t, <3>1, <3>3 DEF AloneIsTrue, IsCopying
  <2> QED
    BY <2>1, <2>2
<1>3. ASSUME NEW u \in Updates, Working(u), UNCHANGED link PROVE AloneIsTrue'
  BY <1>t, <1>a, <1>3 DEF AloneIsTrue
<1>4. ASSUME NEW k \in Links, UNCHANGED <<account, upd>>, NEW r,
             link' = [link EXCEPT ![k] = r],
             r.alone => link[k].alone /\ r.at \in {"fetch", "write"} /\ r.read = link[k].read,
             r.at \in {"fetch", "write"} => IsCopying(k)
      PROVE  AloneIsTrue'
  <2>1. Active' <=> Active
    BY <1>4 DEF Active
  <2>2. link'[k] = r /\ \A j \in Links \ {k} : link'[j] = link[j]
    BY <1>4, <1>f
  <2> QED
    BY <1>t, <1>4, <2>1, <2>2 DEF AloneIsTrue, IsCopying
<1>5. ASSUME NEW k \in Links, Connect(k) \/ ReadNothing(k) PROVE AloneIsTrue'
  <2>1. ~link[k].alone
    BY <1>t, <1>5 DEF Connect, ReadNothing, AloneIsTrue, IsCopying
  <2>2. PICK at \in {"read", "done"} : link' = [link EXCEPT ![k].at = at] /\ UNCHANGED <<account, upd>>
    BY <1>5 DEF Connect, ReadNothing
  <2>3. link' = [link EXCEPT ![k] = [link[k] EXCEPT !.at = at]]
    BY <2>2
  <2>4. [link[k] EXCEPT !.at = at].at = at /\ [link[k] EXCEPT !.at = at].alone = link[k].alone
    BY <1>f DEF LinkType
  <2> QED
    BY <1>4, <2>1, <2>2, <2>3, <2>4
<1>6. ASSUME NEW k \in Links, Read(k) PROVE AloneIsTrue'
  <2> DEFINE p == IF memory.there THEN memory.privacy ELSE account
             alone == ~(Active \/ Copying) /\ (memory.there => ~stale)
             r == [at |-> IF memory.there THEN "write" ELSE "fetch", read |-> p, alone |-> alone]
  <2>1. UNCHANGED <<account, upd>> /\ link' = [Joined EXCEPT ![k] = r]
    BY <1>6 DEF Read
  <2>2. r.at \in {"fetch", "write"} /\ r.read = p /\ r.alone = alone
    OBVIOUS
  <2> HIDE DEF r
  <2>3. link'[k] = r /\ \A j \in Links \ {k} : ~link'[j].alone /\ link'[j].at = link[j].at
    BY <1>f, <2>1 DEF Joined, LinkType
  <2>4. alone => p = account
    <3> SUFFICES ASSUME alone, memory.there PROVE memory.privacy = account
      OBVIOUS
    <3>1. ~stale /\ \A u \in Updates : upd[u].at # "answer"
      BY <1>a DEF Working, AtWork
    <3> QED
      BY <1>t, <3>1 DEF MemoryIsTrue
  <2>5. Active' <=> Active
    BY <2>1 DEF Active
  <2> QED
    BY <1>c, <2>1, <2>2, <2>3, <2>4, <2>5 DEF AloneIsTrue, IsCopying
<1>7. ASSUME NEW k \in Links, ReadStored(k) PROVE AloneIsTrue'
  <2>1. /\ IsCopying(k) /\ UNCHANGED <<account, upd>>
        /\ link' = [link EXCEPT ![k] = [link[k] EXCEPT !.at = "write"]]
    BY <1>7 DEF ReadStored, IsCopying
  <2>2. /\ [link[k] EXCEPT !.at = "write"].at = "write"
        /\ [link[k] EXCEPT !.at = "write"].alone = link[k].alone
        /\ [link[k] EXCEPT !.at = "write"].read = link[k].read
    BY <1>f DEF LinkType
  <2> QED
    BY <1>4, <2>1, <2>2
<1>8. ASSUME NEW k \in Links, ReadFails(k) \/ Write(k) PROVE AloneIsTrue'
  <2>1. PICK at \in {"write", "done"} :
          /\ IsCopying(k) /\ UNCHANGED <<account, upd>>
          /\ link' = [link EXCEPT ![k] = [NoLink EXCEPT !.at = at]]
    BY <1>8 DEF ReadFails, Write, IsCopying
  <2>2. ~[NoLink EXCEPT !.at = at].alone
    BY DEF NoLink
  <2> QED
    BY <1>4, <2>1, <2>2
<1>9. CASE Crash
  <2>1. \A k \in Links : ~link'[k].alone
    <3> SUFFICES ASSUME NEW k \in Links PROVE ~link'[k].alone
      OBVIOUS
    <3>1. link[k].at = "idle" => ~link[k].alone
      BY <1>t DEF AloneIsTrue, IsCopying
    <3>2. link'[k] = IF link[k].at = "idle" THEN link[k] ELSE [NoLink EXCEPT !.at = "done"]
      BY <1>9 DEF Crash
    <3>3. ~[NoLink EXCEPT !.at = "done"].alone
      BY DEF NoLink
    <3> QED
      BY <3>1, <3>2, <3>3
  <2> QED
    BY <2>1 DEF AloneIsTrue
<1>10. CASE Disconnect \/ UNCHANGED settingsVars
  BY <1>10, <1>t DEF Disconnect, settingsVars, AloneIsTrue, IsCopying, Active
<1>11. ASSUME NEW u \in Updates,
              (\E n \in Names : Apply(u, n)) \/ Fetched(u) \/ Confirmed(u) \/ ApplyFails(u)
                \/ Applied(u) \/ Save(u)
       PROVE  AloneIsTrue'
  <2>1. Working(u) /\ UNCHANGED link
    BY <1>11 DEF Apply, Fetched, Confirmed, ApplyFails, Applied, Save, Working, AtWork
  <2> QED
    BY <1>3, <2>1
<1>12. CASE PhoneChanges
  BY <1>12, <1>1 DEF PhoneChanges
<1> QED
  BY <1>2, <1>5, <1>6, <1>7, <1>8, <1>9, <1>10, <1>11, <1>12 DEF SettingsNext

(* The row follows the account through every step.                         *)
LEMMA RowKeepsUp == RowInv /\ [SettingsNext]_settingsVars => RowFollows'
<1> DEFINE Agrees(u) == \A n \in Names :
             account[n] = IF InRow(u, n) THEN row.privacy[n] ELSE upd[u].sets[n]
           Goal == /\ row.there /\ OneAtWork
                   /\ ~Active => row.privacy = account
                   /\ \A u \in Updates : Working(u) => Agrees(u)
<1> SUFFICES ASSUME RowInv, [SettingsNext]_settingsVars, ~apart' PROVE Goal'
  BY DEF RowFollows
<1>t. SettingsTypes /\ UpdatesInOrder /\ AloneIsTrue
  BY TypesOfSettings DEF RowInv
<1>n. /\ account \in [Names -> Values \cup {Blank}] /\ row \in RowType
      /\ row.privacy \in [Names -> Values \cup {Blank}]
      /\ \A u \in Updates : upd[u].sets \in [Names -> Values \cup {Blank}]
  BY <1>t, TypesOfSettings DEF SettingsTypes, RowType, UpdateType
<1>a. (Active <=> \E u \in Updates : Working(u)) /\ (Active' <=> \E u \in Updates : Working(u)')
  BY DEF Active, Working
<1>k. ~apart => Goal
  BY DEF RowInv, RowFollows
<1>z. ASSUME \A u \in Updates : ~Working(u)', row'.there, row'.privacy = account' PROVE Goal'
  BY <1>z, <1>a DEF OneAtWork
<1>y. ASSUME ~apart, UNCHANGED <<account, upd>>, row'.there, row'.privacy = row.privacy PROVE Goal'
  BY <1>k, <1>y, <1>a DEF OneAtWork, Working, InRow
<1>d. ASSUME NEW u \in Updates, ~apart, \A w \in Updates \ {u} : upd'[w] = upd[w], Working(u),
             Working(u)', Agrees(u)', UNCHANGED row
      PROVE  Goal'
  <2>1. \A w \in Updates : Working(w)' => w = u
    BY <1>k, <1>d DEF OneAtWork, Working
  <2> QED
    BY <1>k, <1>a, <1>d, <2>1 DEF OneAtWork
<1>e. ASSUME NEW u \in Updates, ~apart, \A w \in Updates \ {u} : upd'[w] = upd[w], Working(u),
             upd'[u].at = "done"
      PROVE  \A w \in Updates : ~Working(w)'
  BY <1>k, <1>e DEF OneAtWork, Working, AtWork
<1>1. ASSUME NEW u \in Updates, Change(u) PROVE Goal'
  <2>1. CASE row.there
    <3>1. ~apart /\ ~Active /\ UNCHANGED <<account, row>>
      BY <1>1, <1>t, <2>1, ChangeDoes
    <3>2. /\ upd'[u].at = "apply" /\ \A w \in Updates \ {u} : upd'[w] = upd[w]
          /\ \A n \in Names : upd'[u].sets[n] = Blank \/ n \in upd'[u].todo
      BY <1>1, <1>t, <2>1, ChangeDoes
    <3>3. \A w \in Updates : Working(w)' <=> w = u
      BY <1>a, <3>1, <3>2 DEF Working, AtWork
    <3>4. Agrees(u)'
      <4>1. \A n \in Names : InRow(u, n)'
        BY <3>2 DEF InRow
      <4>2. row.privacy = account
        BY <1>k, <3>1
      <4> QED
        BY <3>1, <4>1, <4>2
    <3> QED
      BY <1>k, <1>a, <3>1, <3>3, <3>4 DEF OneAtWork
  <2>2. CASE ~row.there
    BY <1>1, <1>k, <2>2 DEF Change
  <2> QED
    BY <2>1, <2>2
<1>2. ASSUME NEW u \in Updates, NEW n \in Names, Apply(u, n) PROVE Goal'
  <2>1. /\ ~apart /\ UNCHANGED row /\ upd[u].at = "apply" /\ n \in upd[u].todo
        /\ upd'[u].at = (IF memory.there THEN "answer" ELSE "fetch") /\ upd'[u].name = n
        /\ upd'[u].sets = upd[u].sets /\ upd'[u].todo = upd[u].todo
        /\ \A w \in Updates \ {u} : upd'[w] = upd[w]
        /\ account' = (IF memory.there THEN [account EXCEPT ![n] = upd[u].sets[n]] ELSE account)
    BY <1>2, <1>t, ApplyDoes
  <2>2. Working(u) /\ Working(u)' /\ upd[u].sets[n] # Blank
    BY <1>t, <2>1 DEF Working, AtWork, UpdatesInOrder
  <2>3. Agrees(u)'
    <3> SUFFICES ASSUME NEW m \in Names
                 PROVE  account'[m] = IF InRow(u, m)' THEN row'.privacy[m] ELSE upd'[u].sets[m]
      OBVIOUS
    <3>1. account[m] = IF InRow(u, m) THEN row.privacy[m] ELSE upd[u].sets[m]
      BY <1>k, <2>1, <2>2
    <3>2. account'[m] = IF memory.there /\ m = n THEN upd[u].sets[n] ELSE account[m]
      BY <1>n, <2>1
    <3>3. InRow(u, m)' <=> InRow(u, m) /\ ~(memory.there /\ m = n)
      BY <2>1, <2>2 DEF InRow
    <3> QED
      BY <2>1, <3>1, <3>2, <3>3
  <2> QED
    BY <1>d, <2>1, <2>2, <2>3
<1>3. ASSUME NEW u \in Updates, Fetched(u) PROVE Goal'
  <2> DEFINE n == upd[u].name
  <2>1. /\ ~apart /\ UNCHANGED row /\ upd[u].at = "fetch" /\ upd'[u].at = "answer"
        /\ upd'[u].name = n /\ upd'[u].sets = upd[u].sets /\ upd'[u].todo = upd[u].todo
        /\ \A w \in Updates \ {u} : upd'[w] = upd[w]
        /\ account' = [account EXCEPT ![n] = upd[u].sets[n]]
    BY <1>3, <1>t, FetchedDoes
  <2>2. Working(u) /\ Working(u)' /\ n \in upd[u].todo /\ upd[u].sets[n] # Blank
    BY <1>t, <2>1 DEF Working, AtWork, UpdatesInOrder
  <2> HIDE DEF n
  <2>3. Agrees(u)'
    <3> SUFFICES ASSUME NEW m \in Names
                 PROVE  account'[m] = IF InRow(u, m)' THEN row'.privacy[m] ELSE upd'[u].sets[m]
      OBVIOUS
    <3>1. account[m] = IF InRow(u, m) THEN row.privacy[m] ELSE upd[u].sets[m]
      BY <1>k, <2>1, <2>2
    <3>2. account'[m] = IF m = n THEN upd[u].sets[n] ELSE account[m]
      BY <1>n, <2>1
    <3>3. InRow(u, m)' <=> InRow(u, m) /\ m # n
      BY <2>1, <2>2 DEF InRow
    <3> QED
      BY <2>1, <3>1, <3>2, <3>3
  <2> QED
    BY <1>d, <2>1, <2>2, <2>3
<1>4. ASSUME NEW u \in Updates, Confirmed(u) PROVE Goal'
  <2>1. /\ ~apart /\ UNCHANGED <<account, row>> /\ upd[u].at = "answer" /\ upd'[u].at = "apply"
        /\ upd'[u].sets = upd[u].sets /\ upd'[u].todo = upd[u].todo \ {upd[u].name}
        /\ \A w \in Updates \ {u} : upd'[w] = upd[w]
    BY <1>4, <1>t, ConfirmedDoes
  <2>2. Working(u) /\ Working(u)'
    BY <2>1 DEF Working, AtWork
  <2>3. \A m \in Names : InRow(u, m)' <=> InRow(u, m)
    BY <2>1 DEF InRow
  <2>4. Agrees(u)'
    BY <1>k, <2>1, <2>2, <2>3
  <2> QED
    BY <1>d, <2>1, <2>2, <2>4
<1>5. ASSUME NEW u \in Updates, ApplyFails(u) PROVE Goal'
  BY <1>5 DEF ApplyFails
<1>6. ASSUME NEW u \in Updates, Applied(u) PROVE Goal'
  <2>1. /\ ~apart /\ UNCHANGED <<account, row>> /\ upd[u].at = "apply" /\ upd'[u].at = "save"
        /\ upd'[u].sets = upd[u].sets /\ upd'[u].todo = upd[u].todo
        /\ \A w \in Updates \ {u} : upd'[w] = upd[w]
    BY <1>6, <1>t, AppliedDoes
  <2>2. Working(u) /\ Working(u)'
    BY <2>1 DEF Working, AtWork
  <2>3. \A m \in Names : InRow(u, m)' <=> InRow(u, m)
    BY <2>1 DEF InRow
  <2>4. Agrees(u)'
    BY <1>k, <2>1, <2>2, <2>3
  <2> QED
    BY <1>d, <2>1, <2>2, <2>4
<1>7. ASSUME NEW u \in Updates, Save(u) PROVE Goal'
  <2>1. /\ upd[u].at = "save" /\ ~apart /\ row' = [row EXCEPT !.privacy = Merged(u)]
        /\ upd' = [upd EXCEPT ![u] = Answered] /\ UNCHANGED account
    BY <1>7 DEF Save
  <2>2. upd[u].todo = {} /\ Working(u)
    BY <1>t, <2>1 DEF Working, AtWork, UpdatesInOrder
  <2>3. upd'[u].at = "done" /\ \A w \in Updates \ {u} : upd'[w] = upd[w]
    BY <1>t, <2>1, EndDoes
  <2>4. \A n \in Names : account[n] = Merged(u)[n]
    BY <1>k, <2>1, <2>2 DEF Merged, InRow
  <2>5. account = Merged(u)
    BY <1>n, <2>4 DEF Merged
  <2>6. row'.there /\ row'.privacy = account'
    BY <1>n, <1>k, <2>1, <2>5 DEF RowType
  <2> QED
    BY <1>e, <1>z, <2>1, <2>2, <2>3, <2>6
<1>8. ASSUME NEW k \in Links,
             Connect(k) \/ Read(k) \/ ReadStored(k) \/ ReadFails(k) \/ ReadNothing(k)
      PROVE  Goal'
  <2>1. /\ ~apart /\ UNCHANGED <<account, upd>>
        /\ row' = row \/ row' = [row EXCEPT !.there = TRUE]
    <3>1. CASE Connect(k)
      BY <3>1 DEF Connect
    <3>2. CASE Read(k)
      BY <3>2 DEF Read
    <3>3. CASE ReadStored(k) \/ ReadFails(k) \/ ReadNothing(k)
      BY <3>3 DEF ReadStored, ReadFails, ReadNothing
    <3> QED
      BY <1>8, <3>1, <3>2, <3>3
  <2>2. row'.there /\ row'.privacy = row.privacy
    BY <1>n, <1>k, <2>1 DEF RowType
  <2> QED
    BY <1>y, <2>1, <2>2
<1>9. ASSUME NEW k \in Links, Write(k) PROVE Goal'
  <2>1. CASE UNCHANGED <<row, apart>>
    BY <1>9, <1>k, <1>y, <2>1 DEF Write
  <2>2. CASE row.there /\ row' = [row EXCEPT !.privacy = Copied(k)] /\ apart' = ~link[k].alone
    <3>1. link[k].read = account /\ ~Active
      BY <1>t, <2>2 DEF AloneIsTrue
    <3>2. UNCHANGED <<account, upd>>
      BY <1>9 DEF Write
    <3>3. row'.there /\ row'.privacy = account'
      BY <1>n, <2>2, <3>1, <3>2 DEF Copied, RowType
    <3>4. \A w \in Updates : ~Working(w)'
      BY <1>a, <3>1, <3>2 DEF Working
    <3> QED
      BY <1>z, <3>3, <3>4
  <2> QED
    BY <1>9, <2>1, <2>2 DEF Write
<1>10. CASE PhoneChanges
  BY <1>10 DEF PhoneChanges
<1>11. CASE Disconnect \/ UNCHANGED settingsVars
  BY <1>11, <1>k, <1>y DEF Disconnect, settingsVars
<1>12. CASE Crash
  <2>1. ~apart /\ ~Active /\ UNCHANGED <<account, row>>
    BY <1>12 DEF Crash
  <2>2. \A w \in Updates : ~Working(w)'
    BY <1>12, <1>t, CrashDoes
  <2> QED
    BY <1>k, <1>z, <2>1, <2>2
<1> QED
  BY <1>1, <1>2, <1>3, <1>4, <1>5, <1>6, <1>7, <1>8, <1>9, <1>10, <1>11, <1>12 DEF SettingsNext

(* After a connection has copied the account's privacy settings alone, and *)
(* from a client that remembers them rightly if it does, the row agrees    *)
(* with WhatsApp whenever no request changes them, until one fails, two    *)
(* writers overlap or a setting is changed elsewhere, for any settings,    *)
(* requests, connections, failures and crashes (UpdateSettings,            *)
(* handleConnected, SyncPrivacyFromWhatsApp); and every variable keeps its *)
(* type.                                                                   *)
THEOREM CopiesAgree == SettingsSpec => [](SettingsTypeOK /\ PrivacyAgrees)
<1>1. RowInv /\ [SettingsNext]_settingsVars => RowInv'
  BY TypesStay, OrderStays, MemoryStays, AloneStays, RowKeepsUp DEF RowInv
<1>2. RowInv => SettingsTypeOK /\ PrivacyAgrees
  BY DEF RowInv, RowFollows, PrivacyAgrees
<1> QED
  BY <1>1, <1>2, FirstRow, PTL DEF SettingsSpec
------------------------------------------------------------------------------
(***************************************************************************)
(* Requests, for any requests on one session, any handlers whose steps are *)
(* in the order RequestsAssumption states, and any number of changes.      *)
(***************************************************************************)
HIDE LimiterAssumption

(* The step s of the request's handler is behind it.                       *)
Passed(r, s) == \E i \in Where(req[r].route, s) : i < req[r].at
Unsent == {400, 401, 404, 409, 429}

(* A request has come somewhere in a well-formed route, and goes on after  *)
(* an error only where the route has a place for it.                       *)
Routed(r) ==
  /\ IF req[r].begun THEN WellFormed(req[r].route) ELSE req[r] = Waiting
  /\ req[r].at \in 1 .. End(r)
  /\ req[r].code # 0 /\ req[r].at # End(r) => req[r].code = 500 /\ Has(r, "finally")
RoutesFollowed == RequestsTypeOK /\ \A r \in Requests : Routed(r)

LEMMA PlacesOf ==
  ASSUME NEW r \in Requests, RequestsTypeOK
  PROVE  /\ req[r].route \in Seq(Steps) /\ Len(req[r].route) \in Nat
         /\ DOMAIN req[r].route = 1 .. Len(req[r].route) /\ End(r) \in Nat
         /\ \A s : Where(req[r].route, s) \subseteq 1 .. Len(req[r].route)
         /\ req[r].at \in Nat /\ req[r].code \in 0 .. MaxCode
         /\ req[r] = [route |-> req[r].route, at |-> req[r].at, code |-> req[r].code,
                      live |-> req[r].live, begun |-> req[r].begun]
BY DEF RequestsTypeOK, Where, End

LEMMA WhereIs ==
  ASSUME RequestsTypeOK, NEW r \in Requests, NEW s, NEW i \in Where(req[r].route, s)
  PROVE  i \in Nat /\ i \in 1 .. Len(req[r].route)
<1>1. i \in 1 .. Len(req[r].route) /\ Len(req[r].route) \in Nat
  BY PlacesOf
<1> QED BY <1>1

(* How a step leaves the requests when one of them goes on.                *)
Request == [route : Seq(Steps), at : Nat, code : 0 .. MaxCode, live : BOOLEAN, begun : BOOLEAN]
Becomes(r, at, code, live) ==
  /\ req' \in [Requests -> Request]
  /\ req'[r].route = req[r].route /\ req'[r].begun = req[r].begun
  /\ req'[r].at = at /\ req'[r].code = code /\ req'[r].live = live
  /\ \A q \in Requests : q # r => req'[q] = req[q]

LEMMA BecomesIs ==
  ASSUME RequestsTypeOK, NEW r \in Requests, NEW x \in Request, req' = [req EXCEPT ![r] = x],
         x.route = req[r].route, x.begun = req[r].begun
  PROVE  Becomes(r, x.at, x.code, x.live)
<1>1. req \in [Requests -> Request]
  BY DEF RequestsTypeOK, Request
<1> QED BY <1>1 DEF Becomes

LEMMA PassesIs ==
  ASSUME RequestsTypeOK, NEW r \in Requests, Passes(r)
  PROVE  Becomes(r, req[r].at + 1, req[r].code, req[r].live)
<1> DEFINE at == req[r].at + 1
           p == [req[r] EXCEPT !.at = at]
<1>1. req \in [Requests -> Request] /\ req[r] \in Request
  BY DEF RequestsTypeOK, Request
<1>2. at \in Nat
  BY <1>1 DEF Request
<1>3. req' = [req EXCEPT ![r] = p]
  BY <1>1 DEF Passes, Request
<1> HIDE DEF at
<1>4. /\ p \in Request /\ p.route = req[r].route /\ p.begun = req[r].begun
      /\ p.at = at /\ p.code = req[r].code /\ p.live = req[r].live
  BY <1>1, <1>2 DEF Request
<1> HIDE DEF p
<1>5. Becomes(r, p.at, p.code, p.live)
  BY <1>3, <1>4, BecomesIs
<1> QED BY <1>4, <1>5 DEF at

LEMMA HoldsIs ==
  ASSUME RequestsTypeOK, NEW r \in Requests, Holds(r)
  PROVE  Becomes(r, req[r].at + 1, req[r].code, TRUE)
<1> DEFINE at == req[r].at + 1
           p == [req[r] EXCEPT !.at = at, !.live = TRUE]
<1>1. req \in [Requests -> Request] /\ req[r] \in Request
  BY DEF RequestsTypeOK, Request
<1>2. at \in Nat
  BY <1>1 DEF Request
<1>3. req' = [req EXCEPT ![r] = p]
  BY <1>1 DEF Holds, Request
<1> HIDE DEF at
<1>4. /\ p \in Request /\ p.route = req[r].route /\ p.begun = req[r].begun
      /\ p.at = at /\ p.code = req[r].code /\ p.live = TRUE
  BY <1>1, <1>2 DEF Request
<1> HIDE DEF p
<1>5. Becomes(r, p.at, p.code, p.live)
  BY <1>3, <1>4, BecomesIs
<1> QED BY <1>4, <1>5 DEF at

LEMMA AnswersIs ==
  ASSUME RequestsTypeOK, NEW r \in Requests, NEW code \in 0 .. MaxCode, NEW at \in Nat,
         req' = [req EXCEPT ![r].at = at, ![r].code = code]
  PROVE  Becomes(r, at, code, req[r].live)
<1>1. req \in [Requests -> Request] /\ req[r] \in Request
  BY DEF RequestsTypeOK, Request
<1> DEFINE p == [req[r] EXCEPT !.at = at, !.code = code]
<1>2. /\ p \in Request /\ p.route = req[r].route /\ p.begun = req[r].begun
      /\ p.at = at /\ p.code = code /\ p.live = req[r].live
  BY <1>1 DEF Request
<1>3. req' = [req EXCEPT ![r] = p]
  BY <1>1 DEF Request
<1> HIDE DEF p
<1>4. Becomes(r, p.at, p.code, p.live)
  BY <1>2, <1>3, BecomesIs
<1> QED BY <1>2, <1>4

LEMMA AnsweredIs ==
  ASSUME RequestsTypeOK, NEW r \in Requests, NEW code \in 0 .. MaxCode, Answers(r, code)
  PROVE  Becomes(r, End(r), code, req[r].live)
<1>1. End(r) \in Nat
  BY PlacesOf
<1>2. req' = [req EXCEPT ![r].at = End(r), ![r].code = code]
  BY DEF Answers
<1> QED BY <1>1, <1>2, AnswersIs

LEMMA ErrsIs ==
  ASSUME RequestsTypeOK, NEW r \in Requests, Errs(r), req[r].at \in 1 .. Len(req[r].route)
  PROVE  \E at \in req[r].at + 1 .. End(r) :
           Becomes(r, at, 500, req[r].live) /\ (at # End(r) => Has(r, "finally"))
<1>1. /\ End(r) = Len(req[r].route) + 1 /\ Len(req[r].route) \in Nat /\ End(r) \in Nat
      /\ req[r].at \in Nat /\ 500 \in 0 .. MaxCode
      /\ Where(req[r].route, "finally") \subseteq 1 .. Len(req[r].route)
  <2>1. 500 \in 0 .. MaxCode
    BY DEF MaxCode
  <2>2. Where(req[r].route, "finally") \subseteq 1 .. Len(req[r].route)
    BY PlacesOf
  <2> QED BY <2>1, <2>2, PlacesOf DEF End
<1>2. CASE Rescues(r) = {}
  <2>1. Becomes(r, End(r), 500, req[r].live)
    BY <1>1, <1>2, AnswersIs DEF Errs, Answers
  <2> QED BY <1>1, <2>1
<1>3. CASE Rescues(r) # {}
  <2>1. PICK i \in Rescues(r) : req' = [req EXCEPT ![r].at = i + 1, ![r].code = 500]
    BY <1>3 DEF Errs
  <2>2. i \in Where(req[r].route, "finally") /\ i > req[r].at /\ i \in 1 .. Len(req[r].route)
    BY <1>1, <2>1 DEF Rescues
  <2>3. i + 1 \in req[r].at + 1 .. End(r) /\ i + 1 \in Nat
    BY <1>1, <2>2
  <2>6. Becomes(r, i + 1, 500, req[r].live)
    BY <1>1, <2>3, <2>1, AnswersIs
  <2> QED BY <2>2, <2>3, <2>6 DEF Has
<1> QED BY <1>2, <1>3

LEMMA FacingIs ==
  ASSUME RequestsTypeOK, NEW r \in Requests, NEW s, Facing(r, s)
  PROVE  req[r].at \in 1 .. Len(req[r].route) /\ req[r].route[req[r].at] = s
BY PlacesOf DEF Facing, Where

LEMMA RoutedKept ==
  ASSUME RoutesFollowed, NEW r \in Requests, req[r].begun,
         NEW at \in 1 .. End(r), NEW code \in 0 .. MaxCode, NEW live \in BOOLEAN,
         Becomes(r, at, code, live),
         code # 0 /\ at # End(r) => code = 500 /\ Has(r, "finally")
  PROVE  \A q \in Requests : Routed(q)'
<1> SUFFICES ASSUME NEW q \in Requests PROVE Routed(q)'
  OBVIOUS
<1>1. CASE q = r
  <2>1. /\ WellFormed(req[r].route) /\ req'[r].route = req[r].route /\ req'[r].begun
        /\ req'[r].at = at /\ req'[r].code = code
    BY DEF RoutesFollowed, Routed, Becomes
  <2>2. End(r)' = End(r) /\ (Has(r, "finally")' <=> Has(r, "finally"))
    BY <2>1 DEF End, Has
  <2> QED BY <1>1, <2>1, <2>2 DEF Routed
<1>2. CASE q # r
  BY SMTT(60), <1>2 DEF RoutesFollowed, Routed, Becomes, End, Has
<1> QED BY <1>1, <1>2

LEMMA RoutedStays ==
  ASSUME RoutesFollowed,
         \A q \in Requests : /\ req'[q].route = req[q].route /\ req'[q].at = req[q].at
                             /\ req'[q].code = req[q].code /\ req'[q].begun = req[q].begun
                             /\ ~req[q].begun => req'[q] = req[q]
  PROVE  \A q \in Requests : Routed(q)'
BY DEF RoutesFollowed, Routed, End, Has

------------------------------------------------------------------------------
(* What a request has sent and told so far, and what its session still is  *)
(* as long as nobody ended it.                                             *)
Truthful(r) ==
  /\ sent[r] <= 1 /\ shown[r] <= sent[r]
  /\ sent[r] = 1 => Passed(r, "send")
  /\ shown[r] = 1 => Passed(r, "show")
  /\ Passed(r, "send") /\ req[r].code = 0 => sent[r] = 1
  /\ req[r].code \in Unsent => sent[r] = 0
  /\ req[r].code = 200 /\ Has(r, "send") /\ ~Has(r, "tolerate") => sent[r] = 1
  /\ req[r].live /\ req[r].code = 0 => session.there
  /\ r \in calm =>
       /\ req[r].code = 200 /\ Has(r, "show") => shown[r] = 1
       /\ req[r].code = 0 =>
            /\ Passed(r, "send") => session.there /\ session.paired
            /\ Facing(r, "show") => req[r].live
            /\ Passed(r, "show") => shown[r] = 1

LEMMA PassedSame ==
  ASSUME NEW q, req'[q].route = req[q].route, req'[q].at = req[q].at
  PROVE  \A s : (Passed(q, s)' <=> Passed(q, s)) /\ (Facing(q, s)' <=> Facing(q, s))
                /\ (Has(q, s)' <=> Has(q, s))
BY DEF Passed, Facing, Has

LEMMA NotBegun ==
  ASSUME RoutesFollowed, NEW q \in Requests, ~req[q].begun
  PROVE  \A s : ~Passed(q, s) /\ ~Facing(q, s) /\ ~Has(q, s)
<1>1. req[q].route = <<>>
  BY DEF RoutesFollowed, Routed, Waiting
<1>2. \A s : Where(req[q].route, s) = {}
  BY <1>1 DEF Where
<1> QED BY <1>2 DEF Passed, Facing, Has

LEMMA OthersTrue ==
  ASSUME RoutesFollowed, NEW q \in Requests, Truthful(q),
         req'[q].route = req[q].route, req'[q].at = req[q].at, req'[q].code = req[q].code,
         sent'[q] = sent[q], shown'[q] = shown[q], q \in calm' => q \in calm,
         req'[q].live /\ req[q].code = 0 => session'.there,
         q \in calm' /\ req[q].code = 0 /\ req[q].begun =>
           /\ session.there /\ session.paired => session'.there /\ session'.paired
           /\ req[q].live => req'[q].live
  PROVE  Truthful(q)'
<1>1. \A s : (Passed(q, s)' <=> Passed(q, s)) /\ (Facing(q, s)' <=> Facing(q, s))
             /\ (Has(q, s)' <=> Has(q, s))
  BY PassedSame
<1>2. ~req[q].begun => ~Passed(q, "send") /\ ~Passed(q, "show") /\ ~Facing(q, "show")
  BY NotBegun
<1>3. /\ Passed(q, "send")' <=> Passed(q, "send")
      /\ Passed(q, "show")' <=> Passed(q, "show")
      /\ Facing(q, "show")' <=> Facing(q, "show")
      /\ Has(q, "show")' <=> Has(q, "show")
      /\ Has(q, "send")' <=> Has(q, "send")
      /\ Has(q, "tolerate")' <=> Has(q, "tolerate")
  BY <1>1
<1> QED BY <1>2, <1>3 DEF Truthful

(* What the order of a well-formed route says at the step it has come to.  *)
LEMMA RouteSays ==
  ASSUME RoutesFollowed, NEW r \in Requests, req[r].begun, NEW s, Facing(r, s)
  PROVE  /\ req[r].at \in 1 .. Len(req[r].route) /\ req[r].at # End(r)
         /\ s \in {"send", "show", "regroup"} => ~Passed(r, s)
         /\ s = "show" => Passed(r, "send")
         /\ s = "identify" => Passed(r, "send") /\ ~Passed(r, "show")
         /\ s \in Refusing => ~Passed(r, "send")
         /\ s \in Forgiving => ~Has(r, "send")
         /\ Has(r, "show") => Has(r, "send") /\ ~Has(r, "finally")
<1> DEFINE R == req[r].route
           n == req[r].at
<1>1. /\ WellFormed(R) /\ n \in Where(R, s) /\ n \in 1 .. Len(R) /\ n # End(r)
      /\ R[n] = s /\ DOMAIN R = 1 .. Len(R) /\ Len(R) \in Nat
  <2>1. RequestsTypeOK /\ Routed(r)
    BY DEF RoutesFollowed
  <2>2. DOMAIN R = 1 .. Len(R) /\ Len(R) \in Nat
    BY <2>1, PlacesOf
  <2>3. n \in 1 .. Len(R) /\ R[n] = s
    BY <2>1, FacingIs
  <2>4. WellFormed(R) /\ n \in Where(R, s)
    BY <2>1 DEF Routed, Facing
  <2>5. n # End(r)
    BY <2>2, <2>3 DEF End
  <2> QED BY <2>2, <2>3, <2>4, <2>5
<1>2. \A x : Where(R, x) \subseteq 1 .. Len(R)
  BY PlacesOf DEF RoutesFollowed
<1> HIDE DEF R, n
<1>3. s \in {"send", "show", "regroup"} => \A i \in Where(R, s) : i = n
  BY <1>1 DEF WellFormed
<1>4. s \in {"send", "show", "regroup"} => ~Passed(r, s)
  BY <1>1, <1>3 DEF Passed, R, n
<1>5. s = "show" => \E j \in Where(R, "send") : j < n
  <2>1. s = "show" => \E j \in Where(R, "send") : j < n - 1
    BY <1>1 DEF WellFormed
  <2>2. \A j \in Where(R, "send") : j \in Nat
    BY <1>2
  <2> QED BY <1>1, <2>1, <2>2
<1>6. s = "identify" => /\ \E j \in Where(R, "send") : j < n
                        /\ \A i \in Where(R, "show") : i = n + 1
  <2>1. s = "identify" => n + 1 \in Where(R, "show")
    BY <1>1 DEF WellFormed
  <2>2. n + 1 \in Where(R, "show") => \E j \in Where(R, "send") : j < (n + 1) - 1
    BY <1>1 DEF WellFormed
  <2>3. \A i, j \in Where(R, "show") : i = j
    BY <1>1 DEF WellFormed
  <2>4. (n + 1) - 1 = n
    BY <1>1
  <2> QED BY <2>1, <2>2, <2>3, <2>4
<1>7. s = "identify" => ~Passed(r, "show")
  BY <1>1, <1>6 DEF Passed, R, n
<1>8. ASSUME s \in Refusing PROVE ~Passed(r, "send")
  <2>1. \A i \in Where(R, "send") : n > i => R[n] \notin Refusing
    BY <1>1 DEF WellFormed
  <2>2. \A i \in Where(R, "send") : i \in Nat
    BY <1>2
  <2>3. \A i \in Where(R, "send") : ~(i < n)
    BY <1>1, <1>8, <2>1, <2>2
  <2> QED BY <2>3 DEF Passed, R, n
<1>9. s \in Forgiving => ~Has(r, "send")
  BY <1>1 DEF WellFormed, Has, R
<1>10. Has(r, "show") => Has(r, "send") /\ ~Has(r, "finally")
  BY <1>1 DEF WellFormed, Has, R
<1> QED BY <1>1, <1>4, <1>5, <1>6, <1>7, <1>8, <1>9, <1>10 DEF Passed, R, n

(* The request is answered, or goes on with an error.                      *)
LEMMA EndsTrue ==
  ASSUME RoutesFollowed, NEW r \in Requests, Truthful(r), req[r].begun, req[r].at # End(r),
         NEW at \in req[r].at + 1 .. End(r), NEW code \in 0 .. MaxCode, code # 0,
         req'[r].route = req[r].route, req'[r].at = at, req'[r].code = code, UNCHANGED shown,
         \/ sent'[r] = sent[r]
         \/ Facing(r, "send") /\ sent'[r] = sent[r] + 1 /\ code = 500,
         code \in Unsent => ~Passed(r, "send"),
         code = 200 => ~Has(r, "send") \/ (Has(r, "tolerate") /\ ~Has(r, "show")),
         Has(r, "show") => Has(r, "send"),
         ~(Facing(r, "send") /\ Passed(r, "send"))
  PROVE  Truthful(r)'
<1>1. /\ req[r].at \in Nat /\ at \in Nat /\ at > req[r].at /\ code # 0
      /\ sent[r] \in Nat /\ shown[r] \in Nat
  BY PlacesOf DEF RoutesFollowed, RequestsTypeOK
<1>2. \A s : /\ Has(r, s)' <=> Has(r, s)
             /\ Passed(r, s) \/ Facing(r, s) => Passed(r, s)'
  <2>1. \A s : \A i \in Where(req[r].route, s) : i \in Nat
    BY WhereIs DEF RoutesFollowed
  <2> QED BY <1>1, <2>1 DEF Has, Passed, Facing
<1>3. /\ Has(r, "send")' <=> Has(r, "send")
      /\ Has(r, "show")' <=> Has(r, "show")
      /\ Has(r, "tolerate")' <=> Has(r, "tolerate")
      /\ Passed(r, "send") \/ Facing(r, "send") => Passed(r, "send")'
      /\ Passed(r, "show") => Passed(r, "show")'
  BY <1>2
<1>4. req'[r].code = code
  OBVIOUS
<1>5. CASE sent'[r] = sent[r]
  BY <1>1, <1>3, <1>4, <1>5 DEF Truthful, Unsent
<1>6. CASE Facing(r, "send") /\ sent'[r] = sent[r] + 1 /\ code = 500
  <2>1. sent[r] = 0
    BY <1>1, <1>6 DEF Truthful
  <2> QED BY <1>1, <1>3, <1>4, <1>6, <2>1 DEF Truthful, Unsent
<1> QED BY <1>5, <1>6

(* The request goes on.                                                    *)
LEMMA NextPassed ==
  ASSUME RoutesFollowed, NEW r \in Requests, req'[r].route = req[r].route,
         req'[r].at = req[r].at + 1
  PROVE  \A s : /\ Passed(r, s)' <=> Passed(r, s) \/ Facing(r, s)
                /\ Has(r, s)' <=> Has(r, s)
                /\ Facing(r, s)' <=> req[r].at + 1 \in Where(req[r].route, s)
<1>1. \A s : \A i \in Where(req[r].route, s) : i \in Nat
  BY WhereIs DEF RoutesFollowed
<1>2. req[r].at \in Nat
  BY PlacesOf DEF RoutesFollowed
<1>3. ASSUME NEW s PROVE Passed(r, s)' <=> Passed(r, s) \/ Facing(r, s)
  <2>1. \A i \in Where(req[r].route, s) : i < req[r].at + 1 <=> i < req[r].at \/ i = req[r].at
    BY <1>1, <1>2
  <2> QED BY <2>1 DEF Passed, Facing
<1> QED BY <1>3 DEF Has, Facing

LEMMA PassesTrue ==
  ASSUME RoutesFollowed, NEW r \in Requests, Truthful(r), req[r].begun, NEW s, Facing(r, s),
         NEW live \in BOOLEAN, Becomes(r, req[r].at + 1, req[r].code, live),
         sent'[r] = IF s = "send" THEN sent[r] + 1 ELSE sent[r],
         IF s = "show" THEN shown'[r] = shown[r] + 1 \/ (shown'[r] = shown[r] /\ ~req[r].live)
         ELSE shown'[r] = shown[r],
         live /\ req[r].code = 0 => session'.there,
         r \in calm' => r \in calm,
         r \in calm' /\ req[r].code = 0 =>
           /\ session.there /\ session.paired => session'.there /\ session'.paired
           /\ s = "send" => session.there /\ session.paired
           /\ s = "identify" => live
  PROVE  Truthful(r)'
<1>1. /\ req'[r].code = req[r].code /\ req'[r].live = live /\ req'[r].at = req[r].at + 1
      /\ req'[r].route = req[r].route /\ sent[r] \in Nat /\ shown[r] \in Nat
      /\ req[r].code \in 0 .. MaxCode /\ MaxCode = 504
  BY DEF Becomes, RoutesFollowed, RequestsTypeOK, MaxCode
<1>2. \A x : Facing(r, x) => x = s
  BY DEF Facing, Where
<1>3. /\ Passed(r, "send")' <=> Passed(r, "send") \/ s = "send"
      /\ Passed(r, "show")' <=> Passed(r, "show") \/ s = "show"
      /\ Has(r, "send")' <=> Has(r, "send")
      /\ Has(r, "show")' <=> Has(r, "show")
      /\ Has(r, "tolerate")' <=> Has(r, "tolerate")
      /\ Facing(r, "show")' <=> req[r].at + 1 \in Where(req[r].route, "show")
  BY <1>1, <1>2, NextPassed
<1>4. s = "send" => sent[r] = 0 /\ shown[r] = 0
  <2>1. s = "send" => ~Passed(r, "send")
    BY RouteSays
  <2> QED BY <1>1, <2>1 DEF Truthful
<1>5. s = "show" => shown[r] = 0 /\ Passed(r, "send")
  BY <1>1, RouteSays DEF Truthful
<1>6. req[r].code = 0 \/ req[r].code = 500
  BY RouteSays DEF RoutesFollowed, Routed
<1>7. Facing(r, "show")' => s = "identify"
  <2>1. WellFormed(req[r].route) /\ req[r].at \in Nat
    BY PlacesOf DEF RoutesFollowed, Routed
  <2>2. req[r].at + 1 \in Where(req[r].route, "show") =>
          (req[r].at + 1) - 1 \in Where(req[r].route, "identify")
    BY <2>1 DEF WellFormed
  <2>3. (req[r].at + 1) - 1 = req[r].at
    BY <2>1
  <2> QED BY <1>2, <1>3, <2>2, <2>3 DEF Facing
<1>8. s = "show" /\ r \in calm /\ req[r].code = 0 => req[r].live
  BY DEF Truthful
<1>9. s = "show" => sent[r] = 1 \/ req[r].code = 500
  BY <1>5, <1>6 DEF Truthful
<1>10. s = "show" => req[r].code = 0
  BY ZenonT(60), <1>6, RouteSays DEF RoutesFollowed, Routed, Has, Facing
<1>11. /\ sent'[r] <= 1 /\ shown'[r] <= sent'[r]
       /\ sent'[r] = 1 => Passed(r, "send")'
       /\ shown'[r] = 1 => Passed(r, "show")'
       /\ Passed(r, "send")' /\ req'[r].code = 0 => sent'[r] = 1
  BY <1>1, <1>3, <1>4, <1>5, <1>9, <1>10 DEF Truthful
<1>12. /\ req'[r].code \in Unsent => sent'[r] = 0
       /\ req'[r].code = 200 /\ Has(r, "send")' /\ ~Has(r, "tolerate")' => sent'[r] = 1
       /\ req'[r].live /\ req'[r].code = 0 => session'.there
  BY <1>1, <1>6 DEF Unsent
<1>13. ASSUME r \in calm', req'[r].code = 0
       PROVE  /\ Passed(r, "send")' => session'.there /\ session'.paired
              /\ Facing(r, "show")' => req'[r].live
              /\ Passed(r, "show")' => shown'[r] = 1
  BY <1>1, <1>3, <1>5, <1>7, <1>8, <1>13 DEF Truthful
<1> QED BY <1>1, <1>6, <1>11, <1>12, <1>13 DEF Truthful

------------------------------------------------------------------------------
(* Every request follows its route and is truthful.                        *)
AnswersInv == RoutesFollowed /\ \A r \in Requests : Truthful(r)

(* What a step does to the session leaves true what requests rely on.      *)
SessionKept ==
  /\ calm' \subseteq calm
  /\ session.there => session'.there
  /\ \/ session.there /\ session.paired => session'.there /\ session'.paired
     \/ \A q \in calm' : ~req[q].begun \/ req[q].code # 0
Moved == req' \in [Requests -> Request] /\ \A q \in Requests : Routed(q)' /\ Truthful(q)'

LEMMA OthersMove ==
  ASSUME AnswersInv, SessionKept, NEW r \in Requests, NEW at, NEW code, NEW live,
         Becomes(r, at, code, live),
         \A q \in Requests : q # r => sent'[q] = sent[q] /\ shown'[q] = shown[q]
  PROVE  \A q \in Requests : q # r => Truthful(q)'
<1> SUFFICES ASSUME NEW q \in Requests, q # r PROVE Truthful(q)'
  OBVIOUS
<1>1. Truthful(q) /\ RoutesFollowed
  BY DEF AnswersInv
<1>2. req'[q] = req[q]
  BY DEF Becomes
<1>3. req[q].live /\ req[q].code = 0 => session'.there
  BY <1>1 DEF Truthful, SessionKept
<1>4. q \in calm' /\ req[q].code = 0 /\ req[q].begun =>
        (session.there /\ session.paired => session'.there /\ session'.paired)
  BY DEF SessionKept
<1>5. q \in calm' => q \in calm
  BY DEF SessionKept
<1> QED BY <1>1, <1>2, <1>3, <1>4, <1>5, OthersTrue

LEMMA FacingBegun ==
  ASSUME AnswersInv, NEW r \in Requests, NEW s, Facing(r, s)
  PROVE  req[r].begun /\ req[r].at # End(r) /\ req[r].at \in 1 .. Len(req[r].route)
         /\ req[r].at \in Nat /\ End(r) \in Nat /\ End(r) = Len(req[r].route) + 1
         /\ req[r].code \in {0, 500}
<1>1. RoutesFollowed
  BY DEF AnswersInv
<1>2. req[r].begun
  BY <1>1, NotBegun
<1>3. req[r].at \in 1 .. Len(req[r].route) /\ req[r].at # End(r)
  BY <1>1, <1>2, RouteSays
<1>4. req[r].at \in Nat /\ End(r) \in Nat
  BY <1>1, PlacesOf DEF RoutesFollowed
<1>5. req[r].code \in {0, 500}
  BY <1>1, <1>3 DEF RoutesFollowed, Routed
<1> QED BY <1>2, <1>3, <1>4, <1>5 DEF End

LEMMA EndsMove ==
  ASSUME AnswersInv, SessionKept, NEW r \in Requests, NEW s, Facing(r, s), UNCHANGED shown,
         sent' = sent \/ (s = "send" /\ sent' = [sent EXCEPT ![r] = @ + 1] /\ req'[r].code = 500),
         NEW at \in req[r].at + 1 .. End(r), NEW code \in 0 .. MaxCode, code # 0,
         Becomes(r, at, code, req[r].live), at # End(r) => code = 500 /\ Has(r, "finally"),
         code \in Unsent => s \in Refusing,
         code = 200 => s \in Forgiving \/ (s = "tolerate" /\ req[r].code = 500)
  PROVE  Moved
<1>1. RoutesFollowed /\ Truthful(r) /\ RequestsTypeOK
  BY DEF AnswersInv, RoutesFollowed
<1>2. /\ req[r].begun /\ req[r].at # End(r) /\ req[r].at \in Nat /\ End(r) \in Nat
      /\ at \in 1 .. End(r) /\ code \in 0 .. MaxCode /\ MaxCode \in Nat
  BY FacingBegun DEF MaxCode
<1>3. req[r].live \in BOOLEAN
  BY <1>1 DEF RequestsTypeOK
<1>4. /\ s \in {"send", "show", "regroup"} => ~Passed(r, s)
      /\ s \in Refusing => ~Passed(r, "send")
      /\ s \in Forgiving => ~Has(r, "send")
      /\ Has(r, "show") => Has(r, "send") /\ ~Has(r, "finally")
  BY <1>1, <1>2, RouteSays
<1>5. \A q \in Requests : Routed(q)'
  BY <1>1, <1>2, <1>3, RoutedKept
<1>6. code = 200 => ~Has(r, "send") \/ (Has(r, "tolerate") /\ ~Has(r, "show"))
  <2>1. s = "tolerate" => Has(r, "tolerate")
    BY DEF Has, Facing
  <2>2. req[r].code = 500 => Has(r, "finally")
    BY <1>1, <1>2 DEF RoutesFollowed, Routed
  <2> QED BY <1>4, <2>1, <2>2
<1>7. req'[r].route = req[r].route /\ req'[r].at = at /\ req'[r].code = code
  BY DEF Becomes
<1>8. \/ sent'[r] = sent[r]
      \/ Facing(r, "send") /\ sent'[r] = sent[r] + 1 /\ code = 500
  BY <1>1, <1>7 DEF RequestsTypeOK
<1>9. ~(Facing(r, "send") /\ Passed(r, "send"))
  BY <1>1, <1>2, RouteSays
<1>10. Truthful(r)'
  BY <1>1, <1>2, <1>4, <1>6, <1>7, <1>8, <1>9, EndsTrue
<1>11. \A q \in Requests : q # r => sent'[q] = sent[q] /\ shown'[q] = shown[q]
  BY SMTT(60), <1>1 DEF RequestsTypeOK
<1>12. \A q \in Requests : q # r => Truthful(q)'
  BY <1>11, OthersMove
<1> QED BY <1>5, <1>10, <1>12 DEF Moved, Becomes

LEMMA PassesMove ==
  ASSUME AnswersInv, SessionKept, NEW r \in Requests, NEW s, Facing(r, s),
         NEW live \in BOOLEAN, Becomes(r, req[r].at + 1, req[r].code, live),
         sent' = IF s = "send" THEN [sent EXCEPT ![r] = @ + 1] ELSE sent,
         IF s = "show" THEN \/ shown' = [shown EXCEPT ![r] = @ + 1]
                            \/ UNCHANGED shown /\ ~req[r].live
         ELSE UNCHANGED shown,
         live => session'.there \/ req[r].live,
         s = "send" => session.paired /\ req[r].live,
         s = "identify" => live
  PROVE  Moved
<1>1. RoutesFollowed /\ Truthful(r) /\ RequestsTypeOK
  BY DEF AnswersInv, RoutesFollowed
<1>2. req[r].begun /\ req[r].at # End(r) /\ req[r].code \in {0, 500}
      /\ req[r].at + 1 \in 1 .. End(r) /\ req[r].code \in 0 .. MaxCode
  BY FacingBegun DEF MaxCode
<1>3. \A q \in Requests : Routed(q)'
  BY <1>1, <1>2, RoutedKept DEF RoutesFollowed, Routed
<1>4. /\ sent'[r] = IF s = "send" THEN sent[r] + 1 ELSE sent[r]
      /\ IF s = "show" THEN shown'[r] = shown[r] + 1 \/ (shown'[r] = shown[r] /\ ~req[r].live)
         ELSE shown'[r] = shown[r]
  BY <1>1 DEF RequestsTypeOK
<1>5. live /\ req[r].code = 0 => session'.there
  BY <1>1 DEF Truthful, SessionKept
<1>6. r \in calm' => r \in calm
  BY DEF SessionKept
<1>7. r \in calm' /\ req[r].code = 0 =>
        /\ session.there /\ session.paired => session'.there /\ session'.paired
        /\ s = "send" => session.there /\ session.paired
        /\ s = "identify" => live
  BY <1>1, <1>2 DEF Truthful, SessionKept
<1>8. Truthful(r)'
  BY <1>1, <1>2, <1>4, <1>5, <1>6, <1>7, PassesTrue
<1>9. \A q \in Requests : q # r => sent'[q] = sent[q] /\ shown'[q] = shown[q]
  BY <1>1 DEF RequestsTypeOK
<1>10. \A q \in Requests : q # r => Truthful(q)'
  BY <1>9, OthersMove
<1> QED BY <1>3, <1>8, <1>10 DEF Moved, Becomes

LEMMA ErrsMove ==
  ASSUME AnswersInv, SessionKept, NEW r \in Requests, NEW s, Facing(r, s), UNCHANGED shown,
         sent' = sent \/ (s = "send" /\ sent' = [sent EXCEPT ![r] = @ + 1]), Errs(r)
  PROVE  Moved
<1>1. RequestsTypeOK /\ 500 \in 1 .. MaxCode /\ 500 \notin Unsent
  BY DEF AnswersInv, RoutesFollowed, MaxCode, Unsent
<1>2. req[r].at \in 1 .. Len(req[r].route)
  BY FacingBegun
<1>3. PICK at \in req[r].at + 1 .. End(r) :
        Becomes(r, at, 500, req[r].live) /\ (at # End(r) => Has(r, "finally"))
  BY <1>1, <1>2, ErrsIs
<1>4. req'[r].code = 500
  BY <1>3 DEF Becomes
<1> QED BY <1>1, <1>3, <1>4, EndsMove

LEMMA AnswersMove ==
  ASSUME AnswersInv, SessionKept, NEW r \in Requests, NEW s, Facing(r, s),
         UNCHANGED <<sent, shown>>, NEW code \in 0 .. MaxCode, code # 0, Answers(r, code), code \in Unsent => s \in Refusing,
         code = 200 => s \in Forgiving \/ (s = "tolerate" /\ req[r].code = 500)
  PROVE  Moved
<1>1. /\ RequestsTypeOK /\ code \in 0 .. MaxCode
      /\ End(r) \in Nat /\ End(r) \in req[r].at + 1 .. End(r)
  BY FacingBegun DEF AnswersInv, RoutesFollowed, MaxCode
<1>2. Becomes(r, End(r), code, req[r].live)
  BY <1>1, AnsweredIs
<1> QED BY <1>1, <1>2, EndsMove

LEMMA PlainMove ==
  ASSUME AnswersInv, SessionKept, NEW r \in Requests, NEW s, Facing(r, s), Passes(r),
         UNCHANGED <<sent, shown>>, s \notin {"send", "show", "identify"}
  PROVE  Moved
<1>1. RequestsTypeOK /\ req[r].live \in BOOLEAN
  BY DEF AnswersInv, RoutesFollowed, RequestsTypeOK
<1>2. Becomes(r, req[r].at + 1, req[r].code, req[r].live)
  BY <1>1, PassesIs
<1> QED BY <1>1, <1>2, PassesMove

LEMMA HoldsMove ==
  ASSUME AnswersInv, SessionKept, NEW r \in Requests, NEW s, Facing(r, s), Holds(r),
         UNCHANGED <<sent, shown>>, s \notin {"send", "show"}, session'.there
  PROVE  Moved
<1>1. RequestsTypeOK
  BY DEF AnswersInv, RoutesFollowed
<1>2. Becomes(r, req[r].at + 1, req[r].code, TRUE)
  BY <1>1, HoldsIs
<1> QED BY <1>1, <1>2, PassesMove

LEMMA Undisturbed ==
  ASSUME calm' = calm, session'.there = session.there, session'.paired = session.paired
  PROVE  SessionKept
BY DEF SessionKept

------------------------------------------------------------------------------
(* The steps.                                                              *)

LEMMA DoneTrue ==
  ASSUME AnswersInv, NEW r \in Requests, Done(r)
  PROVE  Moved
<1>1. /\ RequestsTypeOK /\ RoutesFollowed /\ Truthful(r) /\ 200 \in 0 .. MaxCode
      /\ End(r) \in Nat /\ 200 \notin Unsent /\ req[r].begun /\ req[r].at = End(r)
      /\ req[r].code = 0
  <2>1. RequestsTypeOK /\ RoutesFollowed /\ Truthful(r)
    BY DEF AnswersInv, RoutesFollowed
  <2>2. 200 \in 0 .. MaxCode /\ 200 \notin Unsent
    BY DEF MaxCode, Unsent
  <2>3. req[r].begun /\ req[r].at = End(r) /\ req[r].code = 0
    BY DEF Done
  <2> QED BY <2>1, <2>2, <2>3, PlacesOf
<1>2. Becomes(r, End(r), 200, req[r].live)
  BY <1>1, AnswersIs DEF Done, Answers
<1>3. req[r].live \in BOOLEAN /\ End(r) \in 1 .. End(r)
  BY <1>1 DEF RequestsTypeOK, RoutesFollowed, Routed
<1>4. \A q \in Requests : Routed(q)'
  BY <1>1, <1>2, <1>3, RoutedKept
<1>5. UNCHANGED <<sent, shown>> /\ SessionKept
  BY Undisturbed DEF Done
<1>6. \A q \in Requests : q # r => Truthful(q)'
  BY <1>2, <1>5, OthersMove
<1>7. \A s : Has(r, s) => Passed(r, s)
  <2>1. ASSUME NEW s, NEW i \in Where(req[r].route, s) PROVE i < req[r].at
    <3>1. i \in 1 .. Len(req[r].route) /\ Len(req[r].route) \in Nat
      BY <1>1, WhereIs, PlacesOf
    <3> QED BY <1>1, <3>1 DEF End
  <2> QED BY <2>1 DEF Has, Passed
<1>8. \A s : (Passed(r, s)' <=> Passed(r, s)) /\ (Has(r, s)' <=> Has(r, s))
  BY <1>1, <1>2, PassedSame DEF Becomes
<1>9. /\ Has(r, "send") => Passed(r, "send")
      /\ Has(r, "show") => Passed(r, "show")
      /\ Has(r, "send")' <=> Has(r, "send")
      /\ Has(r, "show")' <=> Has(r, "show")
      /\ Passed(r, "send")' <=> Passed(r, "send")
      /\ Passed(r, "show")' <=> Passed(r, "show")
  BY <1>7, <1>8
<1>10. req'[r].code = 200 /\ sent'[r] = sent[r] /\ shown'[r] = shown[r] /\ calm' = calm
  BY <1>2, <1>5 DEF Becomes, Done
<1>11. Truthful(r)'
  BY <1>1, <1>9, <1>10 DEF Truthful
<1> QED BY <1>2, <1>4, <1>6, <1>11 DEF Moved, Becomes

LEMMA QuietTrue ==
  ASSUME AnswersInv, NEW r \in Requests, Aborts(r) \/ Takes(r) \/ Finds(r) \/ Uploads(r)
  PROVE  Moved
<1> USE DEF Unsent, Refusing, Forgiving, MaxCode
<1>1. SessionKept /\ UNCHANGED <<session, sent, shown>>
  BY Undisturbed DEF Aborts, Takes, Finds, Uploads, world
<1>2. CASE Aborts(r)
  BY <1>1, <1>2, AnswersMove DEF Aborts
<1>3. CASE Takes(r)
  <2>1. PICK s \in {"form", "media", "none", "convert", "address", "build", "rows"} :
          Facing(r, s) /\ (Passes(r) \/ IF s \in DOMAIN Refusal THEN Answers(r, Refusal[s])
                                        ELSE Errs(r))
    BY <1>3 DEF Takes
  <2>2. CASE Passes(r)
    BY <1>1, <2>1, <2>2, PlainMove
  <2>3. CASE s \in DOMAIN Refusal /\ Answers(r, Refusal[s])
    <3>1. s \in Refusing /\ Refusal[s] \in 1 .. MaxCode /\ Refusal[s] # 200
      BY <2>3 DEF Refusal
    <3> HIDE DEF Unsent, Refusing, Forgiving, MaxCode
    <3> QED BY <1>1, <2>1, <2>3, <3>1, AnswersMove
  <2>4. CASE Errs(r)
    BY <1>1, <2>1, <2>4, ErrsMove
  <2> QED BY <2>1, <2>2, <2>3, <2>4
<1>4. CASE Finds(r)
  <2>1. PICK s \in {"client", "session", "known", "paired", "own"} : Facing(r, s) /\
          \/ Holds(r) /\ session.there
          \/ Errs(r) \/ Passes(r) \/ Answers(r, 500)
          \/ s = "known" /\ Answers(r, 404)
    BY <1>4 DEF Finds
  <2>2. CASE Holds(r) /\ session.there
    BY <1>1, <2>1, <2>2, HoldsMove
  <2>3. CASE Errs(r)
    BY <1>1, <2>1, <2>3, ErrsMove
  <2>4. CASE Passes(r)
    BY <1>1, <2>1, <2>4, PlainMove
  <2>5. CASE s = "known" /\ Answers(r, 404)
    BY <1>1, <2>1, <2>5, AnswersMove
  <2>6. CASE Answers(r, 500)
    BY <1>1, <2>1, <2>6, AnswersMove
  <2> QED BY <2>1, <2>2, <2>3, <2>4, <2>5, <2>6
<1>5. CASE Uploads(r)
  <2>1. PICK s \in {"upload", "ask", "call"} : Facing(r, s)
    BY <1>5 DEF Uploads
  <2>2. CASE Passes(r)
    BY <1>1, <2>1, <2>2, PlainMove
  <2>3. CASE Errs(r)
    BY <1>1, <2>1, <2>3, ErrsMove
  <2> QED BY <1>5, <2>2, <2>3 DEF Uploads
<1> QED BY <1>2, <1>3, <1>4, <1>5

LEMMA SendsTrue ==
  ASSUME AnswersInv, NEW r \in Requests, Sends(r)
  PROVE  Moved
<1>1. SessionKept /\ Facing(r, "send") /\ UNCHANGED <<session, shown>>
  BY Undisturbed DEF Sends
<1>2. CASE Errs(r)
  BY <1>1, <1>2, ErrsMove DEF Sends
<1>3. CASE Reaches(r) /\ sent' = [sent EXCEPT ![r] = @ + 1] /\ Passes(r)
  <2>1. RequestsTypeOK /\ req[r].live \in BOOLEAN /\ req[r].live /\ session.paired
    BY <1>3 DEF AnswersInv, RoutesFollowed, RequestsTypeOK, Reaches, Connected
  <2>2. Becomes(r, req[r].at + 1, req[r].code, req[r].live)
    BY <1>3, <2>1, PassesIs
  <2> QED BY <1>1, <1>3, <2>1, <2>2, PassesMove
<1> QED BY <1>2, <1>3 DEF Sends

LEMMA ShowsTrue ==
  ASSUME AnswersInv, NEW r \in Requests, Shows(r)
  PROVE  Moved
<1>1. SessionKept /\ Facing(r, "show") /\ UNCHANGED <<session, sent>>
  BY Undisturbed DEF Shows
<1>2. CASE Answers(r, 500) /\ UNCHANGED shown
  BY <1>1, <1>2, AnswersMove DEF Unsent, MaxCode
<1>3. CASE Passes(r) /\ (shown' = [shown EXCEPT ![r] = @ + 1] \/ (UNCHANGED shown /\ ~req[r].live))
  <2>1. RequestsTypeOK /\ req[r].live \in BOOLEAN
    BY DEF AnswersInv, RoutesFollowed, RequestsTypeOK
  <2>2. Becomes(r, req[r].at + 1, req[r].code, req[r].live)
    BY <1>3, <2>1, PassesIs
  <2> QED BY <1>1, <1>3, <2>1, <2>2, PassesMove
<1> QED BY <1>2, <1>3 DEF Shows

LEMMA IdentifiesTrue ==
  ASSUME AnswersInv, NEW r \in Requests, Identifies(r)
  PROVE  Moved
<1>1. /\ SessionKept /\ Facing(r, "identify")
      /\ UNCHANGED <<session, sent, shown, calm>> /\ calm' = calm
  BY Undisturbed DEF Identifies, world
<1>2. CASE Holds(r) /\ session.there
  BY <1>1, <1>2, HoldsMove
<1>3. CASE /\ ~(session.there /\ session.paired)
           /\ req' = [req EXCEPT ![r].at = @ + 2]
  <2>1. RequestsTypeOK /\ RoutesFollowed /\ Truthful(r)
    BY DEF AnswersInv, RoutesFollowed
  <2>2. /\ req[r].begun /\ req[r].at # End(r) /\ req[r].at \in Nat /\ End(r) \in Nat
        /\ End(r) = Len(req[r].route) + 1 /\ req[r].at \in 1 .. Len(req[r].route)
    BY <1>1, FacingBegun
  <2>3. /\ Passed(r, "send") /\ ~Passed(r, "show")
    BY <1>1, <2>1, <2>2, RouteSays
  <2> DEFINE n == req[r].at
  <2>4. n + 1 \in Where(req[r].route, "show")
    BY <1>1, <2>1, <2>2 DEF RoutesFollowed, Routed, WellFormed, Facing
  <2>5. n + 1 \in 1 .. Len(req[r].route) /\ n + 2 \in 1 .. End(r) /\ n + 2 \in Nat
    <3>1. n + 1 \in 1 .. Len(req[r].route)
      BY <2>1, <2>4, PlacesOf
    <3>2. Len(req[r].route) \in Nat
      BY <2>1, PlacesOf
    <3> QED BY <2>2, <3>1, <3>2
  <2> DEFINE p == [req[r] EXCEPT !.at = n + 2]
  <2>6. req \in [Requests -> Request] /\ req[r] \in Request
    BY <2>1 DEF RequestsTypeOK, Request
  <2>7. /\ p \in Request /\ p.route = req[r].route /\ p.begun = req[r].begun
        /\ p.at = n + 2 /\ p.code = req[r].code /\ p.live = req[r].live
    <3> HIDE DEF n
    <3> QED BY <2>5, <2>6 DEF Request
  <2>8. req' = [req EXCEPT ![r] = p]
    BY <1>3, <2>6 DEF Request
  <2> HIDE DEF p
  <2>9. Becomes(r, n + 2, req[r].code, req[r].live)
    <3>1. Becomes(r, p.at, p.code, p.live)
      BY <2>1, <2>7, <2>8, BecomesIs
    <3> QED BY <2>7, <3>1
  <2>10. req[r].code \in 0 .. MaxCode /\ req[r].live \in BOOLEAN
         /\ (req[r].code # 0 => req[r].code = 500 /\ Has(r, "finally"))
    BY <2>1, <2>2 DEF RequestsTypeOK, RoutesFollowed, Routed
  <2>11. \A q \in Requests : Routed(q)'
    BY <2>1, <2>2, <2>5, <2>9, <2>10, RoutedKept
  <2>12. \A q \in Requests : q # r => Truthful(q)'
    BY <1>1, <2>9, OthersMove
  <2>13. req[r].code = 0 => r \notin calm
    BY <1>3, <2>1, <2>3 DEF Truthful
  <2>14. /\ req'[r].route = req[r].route /\ req'[r].at = n + 2 /\ req'[r].code = req[r].code
         /\ req'[r].live = req[r].live
    BY <2>9 DEF Becomes
  <2>15. /\ Passed(r, "send")' /\ Passed(r, "send")
         /\ Passed(r, "show")'
    <3>1. \A x : \A i \in Where(req[r].route, x) : i \in Nat
      BY <2>1, WhereIs
    <3> QED BY <2>2, <2>3, <2>4, <2>14, <3>1 DEF Passed
  <2>16. Truthful(r)'
    <3>1. session' = session /\ sent' = sent /\ shown' = shown /\ calm' = calm
      BY <1>1
    <3>2. req[r].code \notin Unsent /\ req[r].code # 200
      BY <2>10 DEF Unsent
    <3> QED BY <2>1, <2>3, <2>13, <2>14, <2>15, <3>1, <3>2 DEF Truthful
  <2> QED BY <2>9, <2>11, <2>12, <2>16 DEF Moved, Becomes
<1> QED BY <1>2, <1>3 DEF Identifies

LEMMA GroupsTrue ==
  ASSUME AnswersInv, NEW r \in Requests,
         Regroups(r) \/ Lists(r) \/ Cached(r) \/ Keeps(r) \/ Forgets(r) \/ Limited(r) \/ Held(r)
  PROVE  Moved
<1> USE DEF Unsent, Refusing, Forgiving, MaxCode
<1>1. SessionKept /\ UNCHANGED <<sent, shown>>
  BY Undisturbed DEF Regroups, Lists, Cached, Keeps, Forgets, Limited, Held, world
<1>2. PICK s \in {"regroup", "list", "cached", "keep", "forget", "limited", "finally", "record",
                  "late", "tolerate", "forgive"} :
        /\ Facing(r, s)
        /\ \/ Passes(r) \/ Errs(r) \/ Answers(r, 504)
           \/ s = "cached" /\ Answers(r, 200)
           \/ s = "cached" /\ Answers(r, 429)
           \/ s = "limited" /\ Answers(r, 429)
           \/ s = "tolerate" /\ req[r].code = 500 /\ Answers(r, 200)
           \/ s = "forgive" /\ Answers(r, 200)
  <2>1. CASE Regroups(r)
    BY <2>1 DEF Regroups
  <2>2. CASE Lists(r)
    BY <2>2 DEF Lists
  <2>3. CASE Cached(r)
    BY <2>3 DEF Cached
  <2>4. CASE Keeps(r) \/ Forgets(r)
    BY <2>4 DEF Keeps, Forgets
  <2>5. CASE Limited(r)
    BY <2>5 DEF Limited
  <2>6. CASE Held(r)
    BY <2>6 DEF Held
  <2> QED BY <2>1, <2>2, <2>3, <2>4, <2>5, <2>6
<1>3. CASE Passes(r)
  BY <1>1, <1>2, <1>3, PlainMove
<1>4. CASE Errs(r)
  BY <1>1, <1>2, <1>4, ErrsMove
<1>5. CASE Answers(r, 504)
  BY <1>1, <1>2, <1>5, AnswersMove
<1>6. CASE /\ Answers(r, 200)
           /\ s \in {"cached", "forgive"} \/ (s = "tolerate" /\ req[r].code = 500)
  BY <1>1, <1>2, <1>6, AnswersMove
<1>7. CASE s \in {"cached", "limited"} /\ Answers(r, 429)
  BY <1>1, <1>2, <1>7, AnswersMove
<1> QED BY <1>2, <1>3, <1>4, <1>5, <1>6, <1>7

LEMMA CreatesTrue ==
  ASSUME AnswersInv, NEW r \in Requests, Creates(r)
  PROVE  Moved
<1> USE DEF Unsent, Refusing, Forgiving, MaxCode
<1>1. Facing(r, "create") /\ UNCHANGED <<sent, shown>> /\ calm' = calm
  BY DEF Creates, world
<1>2. CASE session.there /\ Answers(r, 409) /\ UNCHANGED session
  <2>1. SessionKept
    BY <1>1, <1>2, Undisturbed
  <2> QED BY <1>1, <1>2, <2>1, AnswersMove
<1>3. CASE ~session.there /\ Passes(r)
  <2>1. SessionKept
    BY <1>1, <1>3 DEF SessionKept
  <2> QED BY <1>1, <1>3, <2>1, PlainMove
<1> QED BY <1>2, <1>3 DEF Creates

LEMMA UpOnly ==
  ASSUME RequestsTypeOK,
         session' = session \/ \E on \in BOOLEAN : session' = [session EXCEPT !.up = on]
  PROVE  /\ session'.there = session.there /\ session'.paired = session.paired
         /\ session' \in [there : BOOLEAN, paired : BOOLEAN, up : BOOLEAN]
BY DEF RequestsTypeOK

LEMMA ConnectsTrue ==
  ASSUME AnswersInv, NEW r \in Requests, Connects(r)
  PROVE  Moved
<1>1. UNCHANGED <<sent, shown>> /\ calm' = calm /\ RequestsTypeOK
  BY DEF Connects, world, AnswersInv, RoutesFollowed
<1>2. session' = session \/ \E on \in BOOLEAN : session' = [session EXCEPT !.up = on]
  BY DEF Connects, Reconnected, Hangs
<1>3. SessionKept
  BY <1>1, <1>2, UpOnly, Undisturbed
<1>4. PICK s \in {"connect", "restart", "disconnect"} : Facing(r, s) /\ (Passes(r) \/ Errs(r))
  BY DEF Connects
<1>5. CASE Passes(r)
  BY <1>1, <1>3, <1>4, <1>5, PlainMove
<1>6. CASE Errs(r)
  BY <1>1, <1>3, <1>4, <1>6, ErrsMove
<1> QED BY <1>4, <1>5, <1>6

LEMMA LogsOutTrue ==
  ASSUME AnswersInv, NEW r \in Requests, LogsOut(r)
  PROVE  Moved
<1>1. Facing(r, "logout") /\ Passes(r) /\ UNCHANGED <<sent, shown>>
  BY DEF LogsOut
<1>2. SessionKept
  <2>1. CASE Unpaired /\ Disturbs
    <3>1. RequestsTypeOK
      BY DEF AnswersInv, RoutesFollowed
    <3>2. session'.there = session.there
      BY <2>1, <3>1 DEF Unpaired, RequestsTypeOK
    <3> QED BY <2>1, <3>2 DEF SessionKept, Disturbs
  <2>2. CASE UNCHANGED <<session, calm>>
    BY <2>2, Undisturbed
  <2> QED BY <2>1, <2>2 DEF LogsOut
<1> QED BY <1>1, <1>2, PlainMove

LEMMA WaitingIsDead == [Waiting EXCEPT !.live = FALSE] = Waiting
<1> DEFINE W == [route : {<<>>}, at : {1}, code : {0}, live : {FALSE}, begun : {FALSE}]
<1>1. Waiting \in W
  BY DEF Waiting
<1>2. [Waiting EXCEPT !.live = FALSE] \in W
  BY <1>1
<1>3. ASSUME NEW u \in W PROVE u = Waiting
  <2>1. u = [route |-> u.route, at |-> u.at, code |-> u.code, live |-> u.live, begun |-> u.begun]
    OBVIOUS
  <2>2. u.route = <<>> /\ u.at = 1 /\ u.code = 0 /\ u.live = FALSE /\ u.begun = FALSE
    OBVIOUS
  <2> QED BY <2>1, <2>2 DEF Waiting
<1> QED BY <1>2, <1>3

LEMMA DeletesTrue ==
  ASSUME AnswersInv, NEW r \in Requests, Deletes(r)
  PROVE  Moved
<1>1. Facing(r, "delete") /\ Disturbs /\ UNCHANGED <<sent, shown>>
  BY DEF Deletes
<1>2. PICK code \in {200, 404} :
        req' = [q \in Requests |-> IF q = r THEN [req[q] EXCEPT !.at = End(q), !.code = code]
                                   ELSE [req[q] EXCEPT !.live = FALSE]]
  <2>1. PICK code \in IF session.there THEN {200} ELSE {200, 404} :
        req' = [q \in Requests |-> IF q = r THEN [req[q] EXCEPT !.at = End(q), !.code = code]
                                   ELSE [req[q] EXCEPT !.live = FALSE]]
    BY DEF Deletes
  <2>2. code \in {200, 404}
    BY <2>1
  <2> QED BY <2>1, <2>2
<1>3. RequestsTypeOK /\ RoutesFollowed /\ Truthful(r)
  BY DEF AnswersInv, RoutesFollowed
<1>4. req \in [Requests -> Request]
  BY <1>3 DEF RequestsTypeOK, Request
<1>5. \A q \in Requests : End(q) \in Nat
  BY <1>3, PlacesOf
<1>6. ASSUME NEW q \in Requests, q # r
      PROVE  /\ req'[q] \in Request /\ req'[q].live = FALSE
             /\ req'[q].route = req[q].route /\ req'[q].at = req[q].at
             /\ req'[q].code = req[q].code /\ req'[q].begun = req[q].begun
  <2> DEFINE p == [req[q] EXCEPT !.live = FALSE]
  <2>1. req[q] \in Request
    BY <1>4
  <2>2. /\ p \in Request /\ p.live = FALSE /\ p.route = req[q].route /\ p.at = req[q].at
        /\ p.code = req[q].code /\ p.begun = req[q].begun
    BY <2>1 DEF Request
  <2>3. req'[q] = p
    BY <1>2, <1>6
  <2> HIDE DEF p
  <2> QED BY <2>2, <2>3
<1>7. /\ req'[r] \in Request /\ req'[r].route = req[r].route /\ req'[r].at = End(r)
      /\ req'[r].code = code /\ req'[r].begun = req[r].begun
  <2>1. code \in 0 .. MaxCode
    BY DEF MaxCode
  <2>2. req[r] \in Request /\ End(r) \in Nat
    BY <1>4, <1>5
  <2> DEFINE p == [req[r] EXCEPT !.at = End(r), !.code = code]
  <2>3. /\ p \in Request /\ p.route = req[r].route /\ p.at = End(r)
        /\ p.code = code /\ p.begun = req[r].begun
    BY <2>1, <2>2 DEF Request
  <2>4. req'[r] = p
    BY <1>2
  <2> HIDE DEF p
  <2> QED BY <2>3, <2>4
<1>8. req' \in [Requests -> Request]
  <2>1. \A q \in Requests : req'[q] \in Request
    BY <1>6, <1>7
  <2>2. req' = [q \in Requests |-> req'[q]]
    BY <1>2
  <2> QED BY <2>1, <2>2
<1>9. /\ req[r].begun /\ req[r].at # End(r) /\ req[r].at \in Nat /\ End(r) \in Nat
      /\ End(r) \in req[r].at + 1 .. End(r) /\ End(r) \in 1 .. End(r)
  BY <1>1, FacingBegun
<1>10. ASSUME NEW q \in Requests, q # r PROVE Truthful(q)'
  <2>1. q \in calm' => q \in calm /\ (~req[q].begun \/ req[q].code # 0)
    BY <1>1 DEF Disturbs
  <2>2. Truthful(q) /\ sent'[q] = sent[q] /\ shown'[q] = shown[q]
    BY <1>1 DEF AnswersInv
  <2> QED BY <1>3, <1>6, <1>10, <2>1, <2>2, OthersTrue
<1>11. Truthful(r)'
  <2>1. /\ ~Passed(r, "send") /\ ~Has(r, "send") /\ ~Facing(r, "send")
        /\ Has(r, "show") => Has(r, "send")
    <3>1. "delete" \in Refusing /\ "delete" \in Forgiving
      BY DEF Refusing, Forgiving
    <3>2. /\ ~Passed(r, "send") /\ ~Has(r, "send")
          /\ Has(r, "show") => Has(r, "send")
      BY <1>1, <1>3, <1>9, <3>1, RouteSays
    <3>3. ~Has(r, "send") => ~Facing(r, "send")
      BY DEF Has, Facing
    <3> QED BY <3>2, <3>3
  <2>2. code \in 0 .. MaxCode /\ code # 0
    BY DEF MaxCode
  <2>3. sent'[r] = sent[r]
    BY <1>1
  <2> QED BY <1>1, <1>3, <1>7, <1>9, <2>1, <2>2, <2>3, EndsTrue
<1>12. ASSUME NEW q \in Requests PROVE Routed(q)'
  <2>1. CASE q = r
    <3>1. WellFormed(req[r].route) /\ req'[r].begun /\ End(r)' = End(r)
      BY <1>3, <1>7, <1>9 DEF RoutesFollowed, Routed, End
    <3> QED BY <1>7, <1>9, <2>1, <3>1 DEF Routed
  <2>2. CASE q # r
    <3>1. req'[q].begun = req[q].begun /\ req'[q].route = req[q].route
          /\ req'[q].at = req[q].at /\ req'[q].code = req[q].code
      BY ZenonT(60), <1>6, <2>2
    <3>2. ~req[q].begun => req'[q] = req[q]
      <4>1. SUFFICES ASSUME ~req[q].begun PROVE req'[q] = req[q]
        OBVIOUS
      <4>2. req[q] = Waiting
        BY <1>3, <4>1 DEF RoutesFollowed, Routed
      <4>3. req'[q] = [req[q] EXCEPT !.live = FALSE]
        BY <1>2, <2>2
      <4> QED BY <4>2, <4>3, WaitingIsDead
    <3>3. Routed(q) /\ End(q)' = End(q) /\ (Has(q, "finally")' <=> Has(q, "finally"))
      BY <1>3, <3>1 DEF RoutesFollowed, End, Has
    <3> QED BY <3>1, <3>2, <3>3 DEF Routed
  <2> QED BY <2>1, <2>2
<1> QED BY <1>8, <1>10, <1>11, <1>12 DEF Moved

LEMMA WorldMove ==
  ASSUME AnswersInv, SessionKept, UNCHANGED <<req, sent, shown>>
  PROVE  Moved
<1>1. RoutesFollowed /\ RequestsTypeOK
  BY DEF AnswersInv, RoutesFollowed
<1>2. ASSUME NEW q \in Requests PROVE Truthful(q)'
  <2>1. Truthful(q) /\ req'[q] = req[q] /\ sent'[q] = sent[q] /\ shown'[q] = shown[q]
    BY DEF AnswersInv
  <2>2. req[q].live /\ req[q].code = 0 => session'.there
    BY <2>1 DEF Truthful, SessionKept
  <2>3. q \in calm' /\ req[q].code = 0 /\ req[q].begun =>
          (session.there /\ session.paired => session'.there /\ session'.paired)
    BY DEF SessionKept
  <2>4. q \in calm' => q \in calm
    BY DEF SessionKept
  <2> QED BY <1>1, <2>1, <2>2, <2>3, <2>4, OthersTrue
<1>3. \A q \in Requests : Routed(q)'
  BY <1>1, RoutedStays
<1>4. req' \in [Requests -> Request]
  BY <1>1 DEF RequestsTypeOK, Request
<1> QED BY <1>2, <1>3, <1>4 DEF Moved

LEMMA ReceivesTrue ==
  ASSUME AnswersInv, NEW r \in Requests, NEW route \in RoutesOf[r], Receive(r, route)
  PROVE  Moved
<1>1. /\ RoutesFollowed /\ RequestsTypeOK /\ Truthful(r) /\ WellFormed(route)
      /\ req[r] = Waiting /\ ~req[r].begun
  BY RequestsAssumption DEF AnswersInv, RoutesFollowed, Receive, Waiting
<1>2. /\ route \in Seq(Steps) /\ Len(route) \in Nat /\ DOMAIN route = 1 .. Len(route)
  BY <1>1 DEF WellFormed
<1>3. req \in [Requests -> Request] /\ req[r] \in Request
  BY <1>1 DEF RequestsTypeOK, Request
<1> DEFINE p == [req[r] EXCEPT !.route = route, !.begun = TRUE]
<1>4. /\ p \in Request /\ p.route = route /\ p.begun = TRUE
      /\ p.at = req[r].at /\ p.code = req[r].code /\ p.live = req[r].live
  BY <1>2, <1>3 DEF Request
<1>5. req[r].at = 1 /\ req[r].code = 0 /\ req[r].live = FALSE
  BY <1>1 DEF Waiting
<1>6. req' = [req EXCEPT ![r] = p]
  BY <1>1 DEF Receive
<1> HIDE DEF p
<1>7. /\ req' \in [Requests -> Request] /\ req'[r].route = route /\ req'[r].begun = TRUE
      /\ req'[r].at = 1 /\ req'[r].code = 0 /\ req'[r].live = FALSE
      /\ \A q \in Requests : q # r => req'[q] = req[q]
  BY <1>3, <1>4, <1>5, <1>6
<1>8. UNCHANGED <<session, sent, shown>> /\ calm' = calm \cup {r}
  BY DEF Receive
<1>9. ASSUME NEW q \in Requests PROVE Routed(q)'
  <2>1. CASE q = r
    <3>1. End(r)' = Len(route) + 1
      BY <1>7 DEF End
    <3> QED BY <1>1, <1>2, <1>7, <2>1, <3>1 DEF Routed
  <2>2. CASE q # r
    BY <1>1, <1>7, <2>2 DEF RoutesFollowed, Routed, End, Has
  <2> QED BY <2>1, <2>2
<1>10. ASSUME NEW q \in Requests, q # r PROVE Truthful(q)'
  <2>1. Truthful(q) /\ req'[q] = req[q] /\ sent'[q] = sent[q] /\ shown'[q] = shown[q]
    BY <1>7, <1>8, <1>10 DEF AnswersInv
  <2>2. (q \in calm' => q \in calm) /\ session' = session
    BY <1>8, <1>10
  <2>3. req[q].live /\ req[q].code = 0 => session'.there
    BY <2>1, <2>2 DEF Truthful
  <2> QED BY <1>1, <2>1, <2>2, <2>3, OthersTrue
<1>11. Truthful(r)'
  <2>1. sent[r] = 0 /\ shown[r] = 0
    <3>1. ~Passed(r, "send") /\ sent[r] \in Nat /\ shown[r] \in Nat
      BY <1>1, NotBegun DEF RequestsTypeOK
    <3> QED BY <1>1, <3>1 DEF Truthful
  <2>2. \A s : Where(route, s) \subseteq 1 .. Len(route)
    BY <1>2 DEF Where
  <2>3. ASSUME NEW s PROVE ~Passed(r, s)'
    <3>1. \A i \in Where(route, s) : ~(i < 1)
      BY <1>2, <2>2
    <3> QED BY <1>7, <3>1 DEF Passed
  <2>4. ~Facing(r, "show")'
    <3>1. 1 \in Where(route, "show") => 1 - 1 \in Where(route, "identify")
      BY <1>1 DEF WellFormed
    <3>2. 1 - 1 \notin Where(route, "identify")
      BY <1>2, <2>2
    <3> QED BY <1>7, <3>1, <3>2 DEF Facing
  <2>5. ~Passed(r, "send")' /\ ~Passed(r, "show")'
    BY <2>3
  <2>6. sent'[r] = 0 /\ shown'[r] = 0
    BY <1>8, <2>1
  <2> QED BY <1>7, <2>4, <2>5, <2>6 DEF Truthful, Unsent
<1> QED BY <1>7, <1>9, <1>10, <1>11 DEF Moved

LEMMA StepsTrue ==
  ASSUME AnswersInv, RequestsNext
  PROVE  Moved
<1>1. ASSUME NEW r \in Requests, Step(r) PROVE Moved
  <2>1. CASE Done(r)
    BY <2>1, DoneTrue
  <2>2. CASE Aborts(r) \/ Takes(r) \/ Finds(r) \/ Uploads(r)
    BY <2>2, QuietTrue
  <2>3. CASE Sends(r)
    BY <2>3, SendsTrue
  <2>4. CASE Regroups(r) \/ Lists(r) \/ Cached(r) \/ Keeps(r) \/ Forgets(r) \/ Limited(r) \/ Held(r)
    BY <2>4, GroupsTrue
  <2>5. CASE Identifies(r)
    BY <2>5, IdentifiesTrue
  <2>6. CASE Shows(r)
    BY <2>6, ShowsTrue
  <2>7. CASE Creates(r)
    BY <2>7, CreatesTrue
  <2>8. CASE Deletes(r)
    BY <2>8, DeletesTrue
  <2>9. CASE LogsOut(r)
    BY <2>9, LogsOutTrue
  <2>10. CASE Connects(r)
    BY <2>10, ConnectsTrue
  <2> QED BY <1>1, <2>1, <2>2, <2>3, <2>4, <2>5, <2>6, <2>7, <2>8, <2>9, <2>10 DEF Step
<1>2. ASSUME NEW r \in Requests, NEW route \in RoutesOf[r], Receive(r, route) PROVE Moved
  BY <1>2, ReceivesTrue
<1>3. RequestsTypeOK
  BY DEF AnswersInv, RoutesFollowed
<1>4. CASE ListEnds \/ Link \/ Pair \/ Unpair
  <2>1. UNCHANGED <<req, sent, shown>>
    BY <1>4 DEF ListEnds, Link, Pair, Unpair
  <2>2. SessionKept
    <3>1. CASE ListEnds
      BY <3>1, Undisturbed DEF ListEnds
    <3>2. CASE Link
      BY <1>3, <3>2, UpOnly, Undisturbed DEF Link
    <3>3. CASE Pair
      BY <1>3, <3>3 DEF Pair, SessionKept, RequestsTypeOK
    <3>4. CASE Unpair
      <4>1. session'.there = session.there
        BY <1>3, <3>4 DEF Unpair, Unpaired, RequestsTypeOK
      <4> QED BY <3>4, <4>1 DEF Unpair, SessionKept, Disturbs
    <3> QED BY <1>4, <3>1, <3>2, <3>3, <3>4
  <2> QED BY <2>1, <2>2, WorldMove
<1> QED BY <1>1, <1>2, <1>4 DEF RequestsNext

------------------------------------------------------------------------------
(* Types of the rest, and what the requests have seen of the groups.       *)
Counted == \A r \in Requests : groups.seen[r] <= groups.made

LEMMA OwnTypes ==
  ASSUME RequestsTypeOK, NEW r \in Requests, Step(r)
  PROVE  /\ session' \in [there : BOOLEAN, paired : BOOLEAN, up : BOOLEAN]
         /\ sent' \in [Requests -> Nat] /\ shown' \in [Requests -> Nat]
         /\ calm' \subseteq Requests /\ changes' = changes
<1>1. sent \in [Requests -> Nat] /\ shown \in [Requests -> Nat] /\ calm \subseteq Requests
      /\ session \in [there : BOOLEAN, paired : BOOLEAN, up : BOOLEAN]
  BY DEF RequestsTypeOK
<1>2. sent' \in [Requests -> Nat]
  <2>1. UNCHANGED sent \/ sent' = [sent EXCEPT ![r] = @ + 1]
    BY DEF Step, Done, Aborts, Takes, Finds, Uploads, Sends, Regroups, Lists, Identifies, Shows,
           Cached, Keeps, Forgets, Limited, Held, Creates, Deletes, LogsOut, Connects, world
  <2> QED BY <1>1, <2>1
<1>3. shown' \in [Requests -> Nat]
  <2>1. UNCHANGED shown \/ shown' = [shown EXCEPT ![r] = @ + 1]
    BY DEF Step, Done, Aborts, Takes, Finds, Uploads, Sends, Regroups, Lists, Identifies, Shows,
           Cached, Keeps, Forgets, Limited, Held, Creates, Deletes, LogsOut, Connects, world
  <2> QED BY <1>1, <2>1
<1>4. calm' \subseteq Requests
  <2>1. calm' = calm \/ Disturbs
    BY DEF Step, Done, Aborts, Takes, Finds, Uploads, Sends, Regroups, Lists, Identifies, Shows,
           Cached, Keeps, Forgets, Limited, Held, Creates, Deletes, LogsOut, Connects, world
  <2> QED BY <1>1, <2>1 DEF Disturbs
<1>5. changes' = changes
  BY DEF Step, Done, Aborts, Takes, Finds, Uploads, Sends, Regroups, Lists, Identifies, Shows,
         Cached, Keeps, Forgets, Limited, Held, Creates, Deletes, LogsOut, Connects, world
<1>6. session' \in [there : BOOLEAN, paired : BOOLEAN, up : BOOLEAN]
  <2>1. \/ UNCHANGED session
        \/ \E on \in BOOLEAN : session' = [session EXCEPT !.up = on]
        \/ Unpaired
        \/ session' = [there |-> TRUE, paired |-> FALSE, up |-> FALSE]
        \/ session' = [there |-> FALSE, paired |-> FALSE, up |-> FALSE]
    <3>1. Creates(r) \/ Deletes(r) \/ LogsOut(r) \/ Connects(r) \/ UNCHANGED session
      BY DEF Step, Done, Aborts, Takes, Finds, Uploads, Sends, Regroups, Lists, Identifies, Shows,
             Cached, Keeps, Forgets, Limited, Held
    <3>2. Creates(r) => UNCHANGED session \/
                        session' = [there |-> TRUE, paired |-> FALSE, up |-> FALSE]
      BY DEF Creates
    <3>3. Deletes(r) => session' = [there |-> FALSE, paired |-> FALSE, up |-> FALSE]
      BY DEF Deletes
    <3>4. LogsOut(r) => UNCHANGED session \/ Unpaired
      BY DEF LogsOut
    <3>5. Connects(r) => UNCHANGED session \/ Reconnected(r) \/ Hangs(r)
      BY DEF Connects
    <3>6. Reconnected(r) \/ Hangs(r) =>
            UNCHANGED session \/ \E on \in BOOLEAN : session' = [session EXCEPT !.up = on]
      BY DEF Reconnected, Hangs
    <3> QED BY <3>1, <3>2, <3>3, <3>4, <3>5, <3>6
  <2>2. CASE UNCHANGED session \/ \E on \in BOOLEAN : session' = [session EXCEPT !.up = on]
    BY <1>1, <2>2
  <2>3. CASE Unpaired
    BY <1>1, <2>3 DEF Unpaired
  <2>4. CASE session' = [there |-> TRUE, paired |-> FALSE, up |-> FALSE]
    BY <2>4
  <2>5. CASE session' = [there |-> FALSE, paired |-> FALSE, up |-> FALSE]
    BY <2>5
  <2> QED BY <2>1, <2>2, <2>3, <2>4, <2>5
<1> QED BY <1>2, <1>3, <1>4, <1>5, <1>6

LEMMA GroupTypes ==
  ASSUME RequestsTypeOK, Counted, NEW r \in Requests, Step(r)
  PROVE  /\ groups' \in [made : Nat, told : Nat, seen : [Requests -> Nat]]
         /\ groups'.told <= groups'.made /\ Counted'
         /\ list' \in [kind : {"none", "list", "limit"}, upTo : Nat, old : BOOLEAN]
         /\ list'.upTo <= groups'.made
<1>1. /\ groups \in [made : Nat, told : Nat, seen : [Requests -> Nat]]
      /\ groups.made \in Nat /\ groups.told \in Nat /\ groups.told <= groups.made
      /\ groups.seen \in [Requests -> Nat]
      /\ list \in [kind : {"none", "list", "limit"}, upTo : Nat, old : BOOLEAN]
      /\ list.kind \in {"none", "list", "limit"} /\ list.upTo \in Nat
      /\ list.upTo <= groups.made
  BY DEF RequestsTypeOK
<1>2. \A q \in Requests : groups.seen[q] \in Nat /\ groups.seen[q] <= groups.made
  BY <1>1 DEF Counted
<1>3. CASE UNCHANGED <<groups, list>>
  BY <1>1, <1>3 DEF Counted
<1>4. CASE Done(r)
  <2>1. UNCHANGED list
    BY <1>4 DEF Done
  <2>2. PICK t \in {groups.told, groups.seen[r]} : groups' = [groups EXCEPT !.told = t]
    BY <1>4 DEF Done
  <2>3. t \in Nat /\ t <= groups.made
    BY <1>1, <1>2, <2>2
  <2>4. /\ groups' \in [made : Nat, told : Nat, seen : [Requests -> Nat]]
        /\ groups'.told = t /\ groups'.made = groups.made /\ groups'.seen = groups.seen
    BY <1>1, <2>2, <2>3
  <2> QED BY <1>1, <1>2, <2>1, <2>3, <2>4 DEF Counted
<1>5. CASE Regroups(r) \/ Lists(r)
  <2>1. UNCHANGED list
    BY <1>5 DEF Regroups, Lists
  <2>2. CASE groups' = [groups EXCEPT !.made = @ + 1, !.seen[r] = groups.made + 1]
    <3>1. /\ groups' \in [made : Nat, told : Nat, seen : [Requests -> Nat]]
          /\ groups'.made = groups.made + 1 /\ groups'.told = groups.told
          /\ groups'.seen = [groups.seen EXCEPT ![r] = groups.made + 1]
      <4> DEFINE m == groups.made + 1
                 S == [groups.seen EXCEPT ![r] = m]
      <4>1. m \in Nat /\ S \in [Requests -> Nat]
        BY <1>1
      <4>2. groups' = [groups EXCEPT !.made = m, !.seen = S]
        BY <1>1, <2>2
      <4> HIDE DEF m, S
      <4>3. /\ groups' \in [made : Nat, told : Nat, seen : [Requests -> Nat]]
            /\ groups'.made = m /\ groups'.told = groups.told /\ groups'.seen = S
        BY <1>1, <4>1, <4>2
      <4> QED BY <4>3 DEF m, S
    <3>2. \A q \in Requests : groups'.seen[q] <= groups'.made
      BY <1>1, <1>2, <3>1
    <3> QED BY <1>1, <2>1, <3>1, <3>2 DEF Counted
  <2>3. CASE groups' = [groups EXCEPT !.seen[r] = groups.made]
    <3>1. /\ groups' \in [made : Nat, told : Nat, seen : [Requests -> Nat]]
          /\ groups'.made = groups.made /\ groups'.told = groups.told
          /\ groups'.seen = [groups.seen EXCEPT ![r] = groups.made]
      BY <1>1, <2>3
    <3>2. \A q \in Requests : groups'.seen[q] <= groups'.made
      BY <1>1, <1>2, <3>1
    <3> QED BY <1>1, <2>1, <3>1, <3>2 DEF Counted
  <2> QED BY <1>3, <1>5, <2>1, <2>2, <2>3 DEF Regroups, Lists
<1>6. CASE Keeps(r)
  <2>1. UNCHANGED groups
    BY <1>6 DEF Keeps
  <2>2. PICK old \in BOOLEAN : list' = [kind |-> "list", upTo |-> groups.seen[r], old |-> old]
    BY <1>6 DEF Keeps
  <2> QED BY <1>1, <1>2, <2>1, <2>2 DEF Counted
<1>7. CASE UNCHANGED groups /\ (list' = NoList \/ list' = [NoList EXCEPT !.kind = "limit"])
  <2>1. list' \in {[kind |-> "none", upTo |-> 0, old |-> FALSE],
                   [kind |-> "limit", upTo |-> 0, old |-> FALSE]}
    BY <1>7 DEF NoList
  <2>2. list' \in [kind : {"none", "list", "limit"}, upTo : Nat, old : BOOLEAN]
    <3>1. CASE list' = [kind |-> "none", upTo |-> 0, old |-> FALSE]
      BY <3>1
    <3>2. CASE list' = [kind |-> "limit", upTo |-> 0, old |-> FALSE]
      BY <3>2
    <3> QED BY <2>1, <3>1, <3>2
  <2>3. list'.upTo = 0
    BY <2>1
  <2>4. UNCHANGED groups
    BY <1>7
  <2> QED BY <1>1, <1>2, <2>2, <2>3, <2>4 DEF Counted
<1>8. CASE UNCHANGED groups /\ \E old \in BOOLEAN : list' = [list EXCEPT !.old = old]
  BY <1>1, <1>2, <1>8 DEF Counted
<1>9. \/ UNCHANGED <<groups, list>> \/ Done(r) \/ Regroups(r) \/ Lists(r) \/ Keeps(r)
      \/ Forgets(r) \/ Limited(r) \/ Deletes(r)
  BY DEF Step, Aborts, Takes, Finds, Uploads, Sends, Identifies, Shows, Cached, Held,
         Creates, LogsOut, Connects, world
<1>10. Forgets(r) \/ Limited(r) =>
         /\ UNCHANGED groups
         /\ UNCHANGED list \/ list' = NoList \/ list' = [NoList EXCEPT !.kind = "limit"]
  BY DEF Forgets, Limited
<1>11. Deletes(r) => UNCHANGED groups /\ \E old \in BOOLEAN : list' = [list EXCEPT !.old = old]
  BY DEF Deletes
<1> QED BY <1>3, <1>4, <1>5, <1>6, <1>7, <1>8, <1>9, <1>10, <1>11

LEMMA TypesMove ==
  ASSUME AnswersInv, Counted, RequestsNext
  PROVE  RequestsTypeOK' /\ Counted'
<1>1. RequestsTypeOK /\ req' \in [Requests -> Request]
  BY StepsTrue DEF AnswersInv, RoutesFollowed, Moved
<1>2. CASE \E r \in Requests : Step(r)
  BY <1>1, <1>2, OwnTypes, GroupTypes DEF RequestsTypeOK, Request
<1>3. CASE \E r \in Requests : \E route \in RoutesOf[r] : Receive(r, route)
  <2>1. UNCHANGED <<session, sent, shown, groups, list, changes>> /\ calm' \subseteq Requests
    BY <1>1, <1>3 DEF Receive, RequestsTypeOK
  <2> QED BY <1>1, <2>1 DEF RequestsTypeOK, Request, Counted
<1>4. CASE ListEnds
  <2>1. UNCHANGED <<session, req, sent, shown, calm, groups, changes>> /\ list' = NoList
    BY <1>4 DEF ListEnds
  <2> QED BY <1>1, <2>1 DEF RequestsTypeOK, Request, Counted, NoList
<1>5. CASE Link \/ Pair \/ Unpair
  <2>1. UNCHANGED <<sent, shown, groups, list>>
    BY <1>5 DEF Link, Pair, Unpair
  <2>2. calm' \subseteq Requests
    BY <1>1, <1>5 DEF Link, Pair, Unpair, Disturbs, RequestsTypeOK
  <2>3. changes' \in 0 .. MaxChanges
    <3>1. changes \in 0 .. MaxChanges /\ changes < MaxChanges /\ changes' = changes + 1
      BY <1>1, <1>5 DEF Link, Pair, Unpair, Changes, RequestsTypeOK
    <3> QED BY <3>1, RequestsAssumption
  <2>4. session' \in [there : BOOLEAN, paired : BOOLEAN, up : BOOLEAN]
    BY <1>1, <1>5 DEF Link, Pair, Unpair, Unpaired, RequestsTypeOK
  <2> QED BY <1>1, <2>1, <2>2, <2>3, <2>4 DEF RequestsTypeOK, Request, Counted
<1> QED BY <1>2, <1>3, <1>4, <1>5 DEF RequestsNext

------------------------------------------------------------------------------
(* The inductive invariant of AnswersTrue.                                 *)
RequestsInv == AnswersInv /\ Counted

LEMMA RequestsStart == RequestsInit => RequestsInv
<1> SUFFICES ASSUME RequestsInit PROVE RequestsInv
  OBVIOUS
<1>1. Waiting \in Request
  BY DEF Waiting, Request, MaxCode
<1>2. /\ req = [r \in Requests |-> Waiting] /\ sent = [r \in Requests |-> 0]
      /\ shown = [r \in Requests |-> 0] /\ calm = Requests
      /\ groups = [made |-> 0, told |-> 0, seen |-> [r \in Requests |-> 0]]
      /\ list = NoList /\ changes = 0
      /\ session \in [there : BOOLEAN, paired : BOOLEAN, up : BOOLEAN]
  BY DEF RequestsInit
<1>3. RequestsTypeOK
  <2>1. req \in [Requests -> Request]
    BY <1>1, <1>2
  <2>2. changes \in 0 .. MaxChanges
    BY <1>2, RequestsAssumption
  <2> QED BY <1>2, <2>1, <2>2 DEF RequestsTypeOK, Request, NoList
<1>4. \A r \in Requests : Routed(r)
  <2> SUFFICES ASSUME NEW r \in Requests PROVE Routed(r)
    OBVIOUS
  <2>1. req[r] = Waiting /\ ~req[r].begun /\ req[r].at = 1 /\ req[r].code = 0
    BY <1>2 DEF Waiting
  <2>2. End(r) \in Nat /\ End(r) >= 1
    <3>1. Len(req[r].route) \in Nat
      BY <1>3, PlacesOf
    <3> QED BY <3>1 DEF End
  <2> QED BY <2>1, <2>2 DEF Routed
<1>5. RoutesFollowed
  BY <1>3, <1>4 DEF RoutesFollowed
<1>6. ASSUME NEW r \in Requests PROVE Truthful(r)
  <2>1. req[r].code = 0 /\ req[r].live = FALSE /\ ~req[r].begun /\ sent[r] = 0 /\ shown[r] = 0
    BY <1>2 DEF Waiting
  <2>2. ~Passed(r, "send") /\ ~Passed(r, "show") /\ ~Facing(r, "show")
    BY <1>5, <2>1, NotBegun
  <2> QED BY <2>1, <2>2 DEF Truthful, Unsent
<1>7. Counted
  <2>1. groups.made = 0 /\ groups.seen = [r \in Requests |-> 0]
    BY <1>2
  <2>2. ASSUME NEW r \in Requests PROVE groups.seen[r] <= groups.made
    <3>1. groups.made = 0 /\ groups.seen[r] = 0
      BY <2>1
    <3> QED BY <3>1
  <2> QED BY <2>2 DEF Counted
<1> QED BY <1>5, <1>6, <1>7 DEF RequestsInv, AnswersInv

LEMMA RequestsStays == RequestsInv /\ [RequestsNext]_requestVars => RequestsInv'
<1>1. ASSUME RequestsInv, RequestsNext PROVE RequestsInv'
  <2>1. Moved /\ RequestsTypeOK' /\ Counted'
    BY <1>1, StepsTrue, TypesMove DEF RequestsInv
  <2> QED BY <2>1 DEF RequestsInv, AnswersInv, RoutesFollowed, Moved
<1>2. ASSUME RequestsInv, UNCHANGED requestVars PROVE RequestsInv'
  <2>1. UNCHANGED <<session, req, sent, shown, calm, groups, list, changes>>
    BY <1>2 DEF requestVars
  <2>2. RequestsTypeOK' /\ Counted'
    BY <1>2, <2>1 DEF RequestsInv, AnswersInv, RoutesFollowed, RequestsTypeOK, Counted
  <2>3. AnswersInv /\ SessionKept
    BY <1>2, <2>1, Undisturbed DEF RequestsInv
  <2>4. Moved
    BY <2>1, <2>3, WorldMove
  <2> QED BY <2>2, <2>4 DEF RequestsInv, AnswersInv, RoutesFollowed, Moved
<1> QED BY <1>1, <1>2

LEMMA RequestsHold == RequestsSpec => []RequestsInv
BY RequestsStart, RequestsStays, PTL DEF RequestsSpec

(* A request is somewhere between the first step of its handler and its    *)
(* end, and the list never shows a change that was not made.               *)
THEOREM RequestsAreTyped == RequestsSpec => []RequestsTypeOK
<1>1. RequestsInv => RequestsTypeOK
  BY DEF RequestsInv, AnswersInv, RoutesFollowed
<1> QED BY <1>1, RequestsHold, PTL

LEMMA TrueAnswers == RequestsInv => AnswersTrue
<1> SUFFICES ASSUME RequestsInv, NEW r \in Requests, Truthful(r)
             PROVE  /\ shown[r] <= sent[r] /\ sent[r] <= 1
                    /\ req[r].code \in {400, 401, 404, 409, 429} => sent[r] = 0
                    /\ req[r].code = 200 /\ Has(r, "send") /\ ~Has(r, "tolerate") => sent[r] = 1
                    /\ req[r].code = 200 /\ Has(r, "show") /\ r \in calm => shown[r] = 1
  BY DEF RequestsInv, AnswersInv, AnswersTrue
<1> QED BY DEF Truthful, Unsent

(* Whatever ends the session, its connection or its device under it, the   *)
(* answer of a handler tells what became of its message, and the event of  *)
(* a sent message comes once, after it.                                    *)
THEOREM AnswersAreTrue == RequestsSpec => []AnswersTrue
BY TrueAnswers, RequestsHold, PTL

------------------------------------------------------------------------------
(* The cached list, and the changes of a request that is past the step     *)
(* that drops it and is still to be answered.                              *)
Settled(r) ==
  /\ req[r].code = 0
  /\ \E i \in Where(req[r].route, "regroup") : \E j \in Where(req[r].route, "forget") :
       i < j /\ j < req[r].at
Fresh == list.kind = "list" /\ ~list.old
(* A fresh list shows what was answered, and what is about to be: the      *)
(* inductive invariant of GroupListFresh.                                  *)
ListTrue ==
  Fresh => /\ list.upTo >= groups.told
           /\ \A r \in Requests : Settled(r) => list.upTo >= groups.seen[r]

(* A step after which no more requests are settled than before.            *)
Settles(r) ==
  /\ \A q \in Requests : q # r =>
       req'[q].route = req[q].route /\ req'[q].at = req[q].at /\ req'[q].code = req[q].code
  /\ Settled(r)' => Settled(r)

LEMMA StillSettled ==
  ASSUME NEW r \in Requests, Settles(r)
  PROVE  \A q \in Requests : Settled(q)' => Settled(q)
BY DEF Settles, Settled

LEMMA ListStays ==
  ASSUME ListTrue, UNCHANGED list, groups'.told = groups.told,
         \A q \in Requests : Settled(q)' => Settled(q) /\ groups'.seen[q] = groups.seen[q]
  PROVE  ListTrue'
BY DEF ListTrue, Fresh

LEMMA AnsweredSettles ==
  ASSUME RequestsTypeOK, NEW r \in Requests, NEW code \in 0 .. MaxCode, code # 0, Answers(r, code)
  PROVE  Settles(r)
<1>1. Becomes(r, End(r), code, req[r].live)
  BY AnsweredIs
<1> QED BY <1>1 DEF Becomes, Settles, Settled

LEMMA ErrsSettles ==
  ASSUME RequestsTypeOK, NEW r \in Requests, NEW s, Facing(r, s), Errs(r)
  PROVE  Settles(r) /\ ~Settled(r)'
<1>1. req[r].at \in 1 .. Len(req[r].route)
  BY FacingIs
<1>2. PICK at \in req[r].at + 1 .. End(r) : Becomes(r, at, 500, req[r].live)
  BY <1>1, ErrsIs
<1> QED BY <1>2 DEF Becomes, Settles, Settled

LEMMA GoesSettles ==
  ASSUME RequestsTypeOK, NEW r \in Requests, NEW s, Facing(r, s), s # "forget",
         NEW live, Becomes(r, req[r].at + 1, req[r].code, live)
  PROVE  Settles(r)
<1>1. \A j \in Where(req[r].route, "forget") : j \in Nat /\ j # req[r].at
  BY WhereIs DEF Facing, Where
<1>2. req[r].at \in Nat
  BY PlacesOf
<1>3. \A j \in Where(req[r].route, "forget") : j < req[r].at + 1 => j < req[r].at
  BY <1>1, <1>2
<1>4. /\ req'[r].route = req[r].route /\ req'[r].at = req[r].at + 1 /\ req'[r].code = req[r].code
      /\ \A q \in Requests : q # r => req'[q] = req[q]
  BY DEF Becomes
<1>5. Settled(r)' => Settled(r)
  BY <1>3, <1>4 DEF Settled
<1> QED BY <1>4, <1>5 DEF Settles

LEMMA PassesSettles ==
  ASSUME RequestsTypeOK, NEW r \in Requests, NEW s, Facing(r, s), s # "forget",
         Passes(r) \/ Holds(r)
  PROVE  Settles(r)
<1>1. CASE Passes(r)
  BY <1>1, PassesIs, GoesSettles
<1>2. CASE Holds(r)
  BY <1>2, HoldsIs, GoesSettles
<1> QED BY <1>1, <1>2

LEMMA SkipsIs ==
  ASSUME RequestsTypeOK, NEW r \in Requests, req' = [req EXCEPT ![r].at = @ + 2]
  PROVE  Becomes(r, req[r].at + 2, req[r].code, req[r].live)
<1> DEFINE at == req[r].at + 2
           p == [req[r] EXCEPT !.at = at]
<1>1. req \in [Requests -> Request] /\ req[r] \in Request
  BY DEF RequestsTypeOK, Request
<1>2. at \in Nat
  BY <1>1 DEF Request
<1>3. req' = [req EXCEPT ![r] = p]
  BY <1>1 DEF Request
<1> HIDE DEF at
<1>4. /\ p \in Request /\ p.route = req[r].route /\ p.begun = req[r].begun
      /\ p.at = at /\ p.code = req[r].code /\ p.live = req[r].live
  BY <1>1, <1>2 DEF Request
<1> HIDE DEF p
<1>5. Becomes(r, p.at, p.code, p.live)
  BY <1>3, <1>4, BecomesIs
<1> QED BY <1>4, <1>5 DEF at

LEMMA IdentifiesSettles ==
  ASSUME AnswersInv, NEW r \in Requests, Identifies(r)
  PROVE  Settles(r)
<1>1. RequestsTypeOK /\ Facing(r, "identify") /\ req[r].begun /\ req[r].at \in Nat
      /\ WellFormed(req[r].route)
  <2>1. Facing(r, "identify")
    BY DEF Identifies
  <2> QED BY <2>1, FacingBegun DEF AnswersInv, RoutesFollowed, Routed
<1>2. CASE Holds(r)
  BY <1>1, <1>2, PassesSettles
<1>3. CASE req' = [req EXCEPT ![r].at = @ + 2]
  <2>1. Becomes(r, req[r].at + 2, req[r].code, req[r].live)
    BY <1>1, <1>3, SkipsIs
  <2>2. req[r].at + 1 \in Where(req[r].route, "show")
    BY <1>1 DEF WellFormed, Facing
  <2>3. \A j \in Where(req[r].route, "forget") : j \in Nat /\ j # req[r].at /\ j # req[r].at + 1
    BY <1>1, <2>2, WhereIs DEF Facing, Where
  <2>4. \A j \in Where(req[r].route, "forget") : j < req[r].at + 2 => j < req[r].at
    BY <1>1, <2>3
  <2>5. /\ req'[r].route = req[r].route /\ req'[r].at = req[r].at + 2 /\ req'[r].code = req[r].code
        /\ \A q \in Requests : q # r => req'[q] = req[q]
    BY <2>1 DEF Becomes
  <2>6. Settled(r)' => Settled(r)
    BY <2>4, <2>5 DEF Settled
  <2> QED BY <2>5, <2>6 DEF Settles
<1> QED BY <1>2, <1>3 DEF Identifies

(* The steps that leave the groups and the list alone.                     *)
LEMMA AloneSettles ==
  ASSUME AnswersInv, NEW r \in Requests,
         \/ Aborts(r) \/ Takes(r) \/ Finds(r) \/ Uploads(r) \/ Sends(r) \/ Shows(r)
         \/ Cached(r) \/ Held(r) \/ Creates(r) \/ LogsOut(r) \/ Connects(r)
  PROVE  Settles(r) /\ UNCHANGED <<groups, list>>
<1>1. UNCHANGED <<groups, list>>
  BY DEF Aborts, Takes, Finds, Uploads, Sends, Shows, Cached, Held, Creates, LogsOut, Connects,
         world
<1>2. RequestsTypeOK
  BY DEF AnswersInv, RoutesFollowed
<1>3. PICK s \in Steps \ {"forget"}, code \in {200, 400, 401, 404, 409, 429, 500, 504} :
        Facing(r, s) /\ (Passes(r) \/ Holds(r) \/ Errs(r) \/ Answers(r, code))
  <2> USE DEF Steps
  <2>1. CASE Aborts(r)
    BY <2>1 DEF Aborts
  <2>2. CASE Takes(r)
    <3>1. PICK s \in {"form", "media", "none", "convert", "address", "build", "rows"} :
            Facing(r, s) /\ (Passes(r) \/ IF s \in DOMAIN Refusal THEN Answers(r, Refusal[s])
                                          ELSE Errs(r))
      BY <2>2 DEF Takes
    <3>2. s \in DOMAIN Refusal => Refusal[s] \in {400, 404}
      BY DEF Refusal
    <3>3. s \in Steps \ {"forget"}
      BY <3>1
    <3> QED BY <3>1, <3>2, <3>3
  <2>3. CASE Finds(r)
    BY <2>3 DEF Finds
  <2>4. CASE Uploads(r)
    BY <2>4 DEF Uploads
  <2>5. CASE Sends(r) \/ Shows(r)
    BY <2>5 DEF Sends, Shows
  <2>6. CASE Cached(r)
    BY <2>6 DEF Cached
  <2>7. CASE Held(r)
    BY <2>7 DEF Held
  <2>8. CASE Creates(r) \/ LogsOut(r)
    BY <2>8 DEF Creates, LogsOut
  <2>9. CASE Connects(r)
    BY <2>9 DEF Connects
  <2> QED BY <2>1, <2>2, <2>3, <2>4, <2>5, <2>6, <2>7, <2>8, <2>9
<1>4. code \in 0 .. MaxCode /\ code # 0 /\ s # "forget"
  BY DEF MaxCode
<1>5. CASE Passes(r) \/ Holds(r)
  BY <1>1, <1>2, <1>3, <1>4, <1>5, PassesSettles
<1>6. CASE Errs(r)
  BY <1>1, <1>2, <1>3, <1>6, ErrsSettles
<1>7. CASE Answers(r, code)
  BY <1>1, <1>2, <1>4, <1>7, AnsweredSettles
<1> QED BY <1>1, <1>3, <1>5, <1>6, <1>7

(* A request at its end has dropped the list after its change.             *)
LEMMA DoneSettled ==
  ASSUME AnswersInv, NEW r \in Requests, Done(r), Has(r, "regroup")
  PROVE  Settled(r)
<1>1. RequestsTypeOK /\ WellFormed(req[r].route)
      /\ req[r].at = End(r) /\ req[r].code = 0
  BY DEF AnswersInv, RoutesFollowed, Routed, Done
<1>2. PICK i \in Where(req[r].route, "regroup") : TRUE
  BY DEF Has
<1>3. PICK j \in Where(req[r].route, "forget") : j > i
  BY <1>1, <1>2 DEF WellFormed
<1>4. /\ i \in Nat /\ j \in 1 .. Len(req[r].route) /\ j \in Nat
      /\ Len(req[r].route) \in Nat
  BY <1>1, WhereIs, PlacesOf
<1>5. i < j /\ j < req[r].at
  BY <1>1, <1>3, <1>4 DEF End
<1> QED BY <1>1, <1>5 DEF Settled

LEMMA DoneLists ==
  ASSUME RequestsInv, ListTrue, NEW r \in Requests, Done(r)
  PROVE  ListTrue'
<1>1. AnswersInv /\ RequestsTypeOK
  BY DEF RequestsInv, AnswersInv, RoutesFollowed
<1>2. UNCHANGED list /\ 200 \in 0 .. MaxCode /\ Answers(r, 200)
  BY DEF Done, MaxCode
<1>3. Settles(r)
  BY <1>1, <1>2, AnsweredSettles
<1>4. groups'.seen = groups.seen
      /\ (groups'.told = groups.told \/ (Has(r, "regroup") /\ groups'.told = groups.seen[r]))
  BY <1>1 DEF Done, RequestsTypeOK
<1>5. Fresh => list.upTo >= groups'.told
  BY <1>1, <1>4, DoneSettled DEF ListTrue
<1>6. \A q \in Requests : Settled(q)' => Settled(q)
  BY <1>3, StillSettled
<1> QED BY <1>2, <1>4, <1>5, <1>6 DEF ListTrue, Fresh

LEMMA RegroupsLists ==
  ASSUME RequestsInv, ListTrue, NEW r \in Requests, Regroups(r) \/ Lists(r)
  PROVE  ListTrue'
<1>1. AnswersInv /\ RequestsTypeOK /\ RoutesFollowed
  BY DEF RequestsInv, AnswersInv, RoutesFollowed
<1>2. UNCHANGED list /\ (Facing(r, "regroup") \/ Facing(r, "list"))
  BY DEF Regroups, Lists
<1>3. /\ groups'.told = groups.told
      /\ \A q \in Requests : q # r => groups'.seen[q] = groups.seen[q]
  BY ZenonT(60), <1>1 DEF Regroups, Lists, RequestsTypeOK
<1>4. Settles(r)
  <2>1. CASE Passes(r)
    BY <1>1, <1>2, <2>1, PassesSettles
  <2>2. CASE Errs(r)
    BY <1>1, <1>2, <2>2, ErrsSettles
  <2> QED BY <2>1, <2>2 DEF Regroups, Lists
<1>5. ~Settled(r)
  <2>1. WellFormed(req[r].route) /\ req[r].at \in Nat
    BY <1>1, <1>2, FacingBegun DEF RoutesFollowed, Routed
  <2>2. \A x : \A i \in Where(req[r].route, x) : i \in Nat
    BY <1>1, WhereIs
  <2>3. CASE Facing(r, "regroup")
    <3>1. \A i \in Where(req[r].route, "regroup") : i = req[r].at
      BY <2>1, <2>3 DEF WellFormed, Facing
    <3> QED BY <2>1, <2>2, <3>1 DEF Settled
  <2>4. CASE Facing(r, "list")
    <3>1. Where(req[r].route, "regroup") = {}
      BY <2>1, <2>4 DEF WellFormed, Facing
    <3> QED BY <3>1 DEF Settled
  <2> QED BY <1>2, <2>3, <2>4
<1>6. \A q \in Requests : Settled(q)' => Settled(q) /\ groups'.seen[q] = groups.seen[q]
  BY <1>3, <1>4, <1>5, StillSettled
<1> QED BY <1>2, <1>3, <1>6, ListStays

LEMMA KeepsLists ==
  ASSUME RequestsInv, ListTrue, NEW r \in Requests, Keeps(r)
  PROVE  ListTrue'
<1>1. RequestsTypeOK /\ Counted /\ groups' = groups
  BY DEF RequestsInv, AnswersInv, RoutesFollowed, Keeps
<1>2. /\ groups.made \in Nat /\ groups.told \in Nat /\ groups.told <= groups.made
      /\ \A q \in Requests : groups.seen[q] \in Nat /\ groups.seen[q] <= groups.made
  BY <1>1 DEF RequestsTypeOK, Counted
<1>3. list'.upTo = groups.seen[r]
  BY DEF Keeps
<1>4. Fresh' => ~(groups.seen[r] < groups.made)
  BY DEF Keeps, Fresh
<1>5. Fresh' => groups.seen[r] = groups.made
  BY <1>2, <1>4
<1> QED BY <1>1, <1>2, <1>3, <1>5 DEF ListTrue

LEMMA NotFresh ==
  ASSUME RequestsTypeOK,
         \/ list' = NoList \/ list' = [NoList EXCEPT !.kind = "limit"]
         \/ list' = [list EXCEPT !.old = (list.kind = "list")]
  PROVE  ListTrue'
<1>1. CASE list' = NoList
  BY <1>1 DEF ListTrue, Fresh, NoList
<1>2. CASE list' = [NoList EXCEPT !.kind = "limit"]
  <2>1. list'.kind = "limit"
    BY <1>2 DEF NoList
  <2> QED BY <2>1 DEF ListTrue, Fresh
<1>3. CASE list' = [list EXCEPT !.old = (list.kind = "list")]
  <2>1. list'.kind = list.kind /\ (list'.old <=> list.kind = "list")
    BY <1>3 DEF RequestsTypeOK
  <2> QED BY <2>1 DEF ListTrue, Fresh
<1> QED BY <1>1, <1>2, <1>3

LEMMA ReceivesLists ==
  ASSUME RequestsInv, ListTrue, NEW r \in Requests, NEW route \in RoutesOf[r], Receive(r, route)
  PROVE  ListTrue'
<1>1. RequestsTypeOK /\ WellFormed(route)
  BY RequestsAssumption DEF RequestsInv, AnswersInv, RoutesFollowed
<1>2. UNCHANGED <<groups, list>>
  BY DEF Receive
<1>3. /\ req'[r].route = route /\ req'[r].at = 1
      /\ \A q \in Requests : q # r => req'[q] = req[q]
  BY <1>1 DEF Receive, RequestsTypeOK, Waiting
<1>4. ~Settled(r)'
  <2>1. \A j \in Where(route, "forget") : ~(j < 1)
    BY <1>1 DEF WellFormed, Where
  <2> QED BY <1>3, <2>1 DEF Settled
<1>5. \A q \in Requests : Settled(q)' => Settled(q)
  BY <1>3, <1>4 DEF Settled
<1> QED BY <1>2, <1>5, ListStays

LEMMA ListsMove ==
  ASSUME RequestsInv, ListTrue, RequestsNext
  PROVE  ListTrue'
<1>1. RequestsTypeOK /\ AnswersInv
  BY DEF RequestsInv, AnswersInv, RoutesFollowed
<1>2. ASSUME NEW r \in Requests, Step(r) PROVE ListTrue'
  <2>1. CASE Done(r)
    BY <2>1, DoneLists
  <2>2. CASE Regroups(r) \/ Lists(r)
    BY <2>2, RegroupsLists
  <2>3. CASE Keeps(r)
    BY <2>3, KeepsLists
  <2>4. CASE Settles(r) /\ UNCHANGED <<groups, list>>
    BY <2>4, StillSettled, ListStays
  <2>5. CASE Forgets(r)
    BY <1>1, <2>5, NotFresh DEF Forgets
  <2>6. CASE Deletes(r)
    BY <1>1, <2>6, NotFresh DEF Deletes
  <2>7. CASE Limited(r)
    <3>1. CASE Passes(r) /\ UNCHANGED list
      BY <1>1, <2>4, <2>7, <3>1, PassesSettles DEF Limited
    <3>2. CASE list' = [NoList EXCEPT !.kind = "limit"]
      BY <1>1, <3>2, NotFresh
    <3> QED BY <2>7, <3>1, <3>2 DEF Limited
  <2>8. CASE Identifies(r)
    <3>1. UNCHANGED <<groups, list>>
      BY <2>8 DEF Identifies, world
    <3> QED BY <1>1, <2>4, <2>8, <3>1, IdentifiesSettles
  <2>9. CASE \/ Aborts(r) \/ Takes(r) \/ Finds(r) \/ Uploads(r) \/ Sends(r) \/ Shows(r)
             \/ Cached(r) \/ Held(r) \/ Creates(r) \/ LogsOut(r) \/ Connects(r)
    BY <1>1, <2>4, <2>9, AloneSettles
  <2> QED BY <1>2, <2>1, <2>2, <2>3, <2>5, <2>6, <2>7, <2>8, <2>9 DEF Step
<1>3. ASSUME NEW r \in Requests, NEW route \in RoutesOf[r], Receive(r, route) PROVE ListTrue'
  BY <1>3, ReceivesLists
<1>4. CASE ListEnds
  BY <1>1, <1>4, NotFresh DEF ListEnds
<1>5. CASE Link \/ Pair \/ Unpair
  <2>1. UNCHANGED <<req, groups, list>>
    BY <1>5 DEF Link, Pair, Unpair
  <2> QED BY <2>1 DEF ListTrue, Fresh, Settled
<1> QED BY <1>2, <1>3, <1>4, <1>5 DEF RequestsNext

(* A cached list of GetJoinedGroups that is not out of date when stored    *)
(* shows every change a handler has answered for: the handlers drop the    *)
(* list after the change and before the answer.                            *)
THEOREM GroupsAreFresh == RequestsSpec => []GroupListFresh
<1>1. RequestsInit => ListTrue
  BY DEF RequestsInit, ListTrue, Fresh, NoList
<1>2. RequestsInv /\ ListTrue /\ [RequestsNext]_requestVars => ListTrue'
  <2>1. ListTrue /\ UNCHANGED requestVars => ListTrue'
    BY DEF ListTrue, Fresh, Settled, requestVars
  <2> QED BY <2>1, ListsMove
<1>3. ListTrue => GroupListFresh
  BY DEF ListTrue, Fresh, GroupListFresh
<1> QED BY <1>1, <1>2, <1>3, RequestsHold, PTL DEF RequestsSpec
=============================================================================
