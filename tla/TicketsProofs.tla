---------------------------- MODULE TicketsProofs ----------------------------
(***************************************************************************)
(* Theorems about Tickets and Inbox, for any tickets, contacts, users and  *)
(* queues, any messages, chats, events and history syncs, and any number   *)
(* of requests served at a time.                                           *)
(***************************************************************************)
EXTENDS Tickets, Inbox, FiniteSetTheorems, TLAPS

(* A ticket that has the date of its closing if it is closed.              *)
Dated == {r \in Row : r.status = "closed" => r.closedAt}

(* Tickets, and the copies of tickets that requests are about to write.    *)
DatedRows == row \in [Ids -> Dated \cup {NotYet, Deleted}]
DatedRequests ==
  req \in [Clients -> [at : {"write"}, id : Ids, row : Dated]
                      \cup [at : {"reply"}, id : Ids] \cup {Idle}]
DatedInv == DatedRows /\ DatedRequests

(* A ticket that is not there yet, or not any more, has no columns.        *)
LEMMA Columns ==
  /\ NotYet \notin Row /\ Deleted \notin Row /\ NotYet # Deleted
  /\ \A r \in Row : r.user \in Users \cup {Nobody} /\ r.queue \in Queues \cup {Nobody}
  BY DEF NotYet, Deleted, Row

(* What each writer makes of a ticket it has read.                         *)
LEMMA WritersDate ==
  ASSUME NEW r \in Dated, NEW s \in Statuses, NEW u \in Users \cup {Nobody},
         NEW q \in Queues \cup {Nobody}
  PROVE  /\ Updated(r, s, u, q) \in Dated
         /\ s = r.status => [Updated(r, s, u, q) EXCEPT !.closedAt = r.closedAt] \in Dated
         /\ [r EXCEPT !.status = "open", !.user = IF u = Nobody THEN @ ELSE u] \in Dated
         /\ WithStatus(r, s) \in Dated
         /\ [r EXCEPT !.user = u, !.queue = q] \in Dated
<1> USE DEF Dated, Row
<1>1. Updated(r, s, u, q) \in Dated
  BY DEF Updated
<1>2. s = r.status => [Updated(r, s, u, q) EXCEPT !.closedAt = r.closedAt] \in Dated
  BY DEF Updated
<1>3. [r EXCEPT !.status = "open", !.user = IF u = Nobody THEN @ ELSE u] \in Dated
  BY DEF Statuses
<1>4. WithStatus(r, s) \in Dated
  BY DEF WithStatus
<1>5. [r EXCEPT !.user = u, !.queue = q] \in Dated
  OBVIOUS
<1> QED BY <1>1, <1>2, <1>3, <1>4, <1>5

(* Every writer keeps the date of the closed tickets: the ones that write  *)
(* a row read before because that row had its date, too.                   *)
LEMMA DatedStep == DatedInv /\ [Next]_vars => DatedInv'
<1> SUFFICES ASSUME DatedInv, [Next]_vars PROVE DatedInv'
  OBVIOUS
<1> USE DEF DatedInv, DatedRows, DatedRequests
<1>a. \A t \in Ids : There(t) => row[t] \in Dated
  BY Columns DEF There
<1>b. Dated \subseteq Row
  BY DEF Dated
<1>1. ASSUME NEW t \in Ids, NEW p \in People, NEW q \in Queues \cup {Nobody}, Create(t, p, q)
      PROVE  DatedInv'
  <2>1. Fresh(p, q) \in Dated
    BY DEF Fresh, Dated, Row, Statuses
  <2> QED BY <1>1, <2>1 DEF Create
<1>2. ASSUME NEW t \in Ids, Delete(t) PROVE DatedInv'
  BY <1>2 DEF Delete
<1>3. ASSUME NEW c \in Clients, NEW t \in Ids, OnTicket(c, t) PROVE DatedInv'
  <2>1. ASSUME NEW r \in Dated, Reads(c, t, r) PROVE DatedInv'
    BY <2>1 DEF Reads
  <2>2. CASE Update(c, t)
    <3>1. PICK status \in Statuses, user \in Users \cup {Nobody}, queue \in Queues \cup {Nobody} :
            /\ There(t)
            /\ LET asked == Updated(row[t], status, user, queue)
                   kept == IF status = row[t].status
                             THEN [asked EXCEPT !.closedAt = row[t].closedAt] ELSE asked
               IN Reads(c, t, asked) \/ Reads(c, t, kept)
      BY <2>2 DEF Update
    <3>2. \E r \in Dated : Reads(c, t, r)
      BY <1>a, <3>1, WritersDate
    <3> QED BY <2>1, <3>2
  <2>3. CASE Accept(c, t)
    <3>1. PICK u \in Users \cup {Nobody} :
            There(t) /\ Reads(c, t, [row[t] EXCEPT !.status = "open",
                                                   !.user = IF u = Nobody THEN @ ELSE u])
      BY <2>3 DEF Accept
    <3>2. "open" \in Statuses /\ Nobody \in Queues \cup {Nobody} /\ row[t] \in Dated
      BY <1>a, <3>1 DEF Statuses
    <3>3. [row[t] EXCEPT !.status = "open", !.user = IF u = Nobody THEN @ ELSE u] \in Dated
      BY <3>2, WritersDate
    <3> QED BY <2>1, <3>1, <3>3
  <2>4. ASSUME NEW r, There(t) => r \in Dated, Changes(c, t, r) PROVE DatedInv'
    BY <2>4 DEF Changes
  <2>5. CASE Close(c, t) \/ Reopen(c, t)
    <3>1. There(t) => WithStatus(row[t], "closed") \in Dated /\ WithStatus(row[t], "open") \in Dated
      BY <1>a DEF WithStatus, Dated, Row, Statuses
    <3> HIDE DEF DatedInv
    <3> QED BY <2>4, <2>5, <3>1 DEF Close, Reopen
  <2>6. CASE Transfer(c, t)
    <3>1. ASSUME NEW u \in Users \cup {Nobody}, NEW q \in Queues \cup {Nobody}, There(t)
          PROVE  [row[t] EXCEPT !.user = u, !.queue = q] \in Dated
      BY <1>a, <3>1 DEF Dated, Row
    <3> HIDE DEF DatedInv
    <3> QED BY <2>4, <2>6, <3>1 DEF Transfer
  <2> HIDE DEF DatedInv
  <2> QED BY <1>3, <2>2, <2>3, <2>5, <2>6 DEF OnTicket
<1>4. ASSUME NEW c \in Clients, OnRequest(c) PROVE DatedInv'
  <2>1. CASE Write(c)
    <3>1. req[c].id \in Ids /\ req[c].row \in Dated
      BY <2>1 DEF Write, Idle
    <3> QED BY <2>1, <3>1 DEF Write, Writes
  <2>2. CASE Reply(c) \/ Leave(c)
    BY <2>2 DEF Reply, Leave
  <2> QED BY <1>4, <2>1, <2>2 DEF OnRequest
<1>5. ASSUME NEW a \in Admins, NEW u \in Users, NEW want, CreateUserIn(a, u, want) \/ SetQueues(a, u, want)
      PROVE  DatedInv'
  BY <1>5 DEF CreateUserIn, SetQueues
<1>6. ASSUME NEW a \in Admins, OnQueues(a) PROVE DatedInv'
  BY <1>6 DEF OnQueues, DeleteRows, InsertRows, Commit, Rollback
<1>7. ASSUME NEW x \in Users \cup Queues, row' = Cleared(x), UNCHANGED req PROVE DatedInv'
  <2>1. \A t \in Ids : There(t) =>
          [row[t] EXCEPT !.user = IF @ = x THEN Nobody ELSE @,
                         !.queue = IF @ = x THEN Nobody ELSE @] \in Dated
    BY <1>a DEF Dated, Row
  <2> QED BY <1>7, <2>1 DEF Cleared, There
<1>8. ASSUME NEW q \in Queues, CreateQueue(q) \/ DeleteQueue(q) PROVE DatedInv'
  BY <1>7, <1>8 DEF CreateQueue, DeleteQueue
<1>9. ASSUME NEW u \in Users, CreateUser(u) \/ DeleteUser(u) PROVE DatedInv'
  BY <1>7, <1>9 DEF CreateUser, DeleteUser
<1>10. CASE UNCHANGED vars
  BY <1>10 DEF vars
<1> HIDE DEF DatedInv
<1> QED BY <1>1, <1>2, <1>3, <1>4, <1>5, <1>6, <1>8, <1>9, <1>10 DEF Next

(* The tickets of the migration are pending, and no request is being made. *)
LEMMA DatedInit == Init => DatedInv
<1>1. \A p \in People : Fresh(p, Nobody) \in Dated
  BY DEF Fresh, Dated, Row, Statuses
<1> QED BY <1>1 DEF Init, DatedInv, DatedRows, DatedRequests

(* A closed ticket has its date, whatever rows read before are written     *)
(* after it was closed.                                                    *)
THEOREM ClosedTicketsDated == Spec => []ClosedHasDate
<1>1. DatedInv => ClosedHasDate
  BY Columns DEF DatedInv, DatedRows, ClosedHasDate, Dated, NotYet, Deleted
<1> QED BY <1>1, DatedInit, DatedStep, PTL DEF Spec

(* No request makes a ticket again: one that is to be written must be      *)
(* there, and an identifier is created once.                               *)
LEMMA DeletedStep ==
  ASSUME DatedInv, [Next]_vars, NEW t \in Ids, row[t] = Deleted
  PROVE  row'[t] = Deleted
<1> USE Columns DEF DatedInv, DatedRows, There
<1>1. ASSUME NEW s \in Ids, NEW p \in People, NEW q \in Queues \cup {Nobody}, Create(s, p, q)
      PROVE  row'[t] = Deleted
  BY <1>1 DEF Create
<1>2. ASSUME NEW s \in Ids, Delete(s) PROVE row'[t] = Deleted
  BY <1>2 DEF Delete
<1>3. ASSUME NEW c \in Clients, NEW s \in Ids, OnTicket(c, s) PROVE row'[t] = Deleted
  <2>1. ASSUME NEW r, Reads(c, s, r) \/ Changes(c, s, r) PROVE row'[t] = Deleted
    BY <2>1 DEF Reads, Changes
  <2>2. \E r : Reads(c, s, r) \/ Changes(c, s, r)
    BY <1>3 DEF OnTicket, Update, Accept, Close, Reopen, Transfer
  <2> QED BY <2>1, <2>2
<1>4. ASSUME NEW c \in Clients, OnRequest(c) PROVE row'[t] = Deleted
  BY <1>4 DEF OnRequest, Write, Writes, Reply, Leave
<1>5. ASSUME NEW x, row' = Cleared(x) PROVE row'[t] = Deleted
  BY <1>5 DEF Cleared
<1>6. ASSUME NEW a \in Admins, NEW u \in Users, NEW want,
             CreateUserIn(a, u, want) \/ SetQueues(a, u, want) \/ OnQueues(a)
      PROVE  row'[t] = Deleted
  BY <1>6 DEF CreateUserIn, SetQueues, OnQueues, DeleteRows, InsertRows, Commit, Rollback
<1>7. ASSUME NEW a \in Admins, OnQueues(a) PROVE row'[t] = Deleted
  BY <1>7 DEF OnQueues, DeleteRows, InsertRows, Commit, Rollback
<1>8. ASSUME NEW x \in Users \cup Queues,
             CreateQueue(x) \/ DeleteQueue(x) \/ CreateUser(x) \/ DeleteUser(x)
      PROVE  row'[t] = Deleted
  BY <1>5, <1>8 DEF CreateQueue, DeleteQueue, CreateUser, DeleteUser
<1>9. CASE UNCHANGED vars
  BY <1>9 DEF vars
<1> QED BY <1>1, <1>2, <1>3, <1>4, <1>6, <1>7, <1>8, <1>9 DEF Next

(* A deleted ticket stays deleted, whatever requests had read it before.   *)
THEOREM DeletedTicketsStay == Spec => DeletedStaysDeleted
<1>1. DatedInv /\ [Next]_vars => [\A t \in Ids : row[t] = Deleted => row'[t] = Deleted]_vars
  BY DeletedStep
<1> QED BY <1>1, DatedInit, DatedStep, PTL DEF Spec, DeletedStaysDeleted

(* What the database checks: a transaction about to commit has found its   *)
(* user and its queues, and holds locks that keep them.                    *)
AdminTypes ==
  /\ life \in [Users \cup Queues -> {"new", "there", "deleted"}]
  /\ member \in [Users -> SUBSET Queues]
  /\ tx \in [Admins -> [at : {"idle", "delete", "insert", "commit"},
                        user : Users \cup {Nobody}, want : SUBSET Queues,
                        seen : SUBSET Queues, put : SUBSET Queues]]
  /\ \A a \in Admins : tx[a].at # "idle" => tx[a].user \in Users
CommitsWhatExists ==
  \A a \in Admins : tx[a].at = "commit" =>
    \A q \in tx[a].put : life[q] = "there" /\ life[tx[a].user] = "there"
RefsInv == AdminTypes /\ CommitsWhatExists /\ NothingDangles

(* Each step keeps every reference to users and queues that exist.         *)
LEMMA RefsStep == DatedInv /\ RefsInv /\ [Next]_vars => RefsInv'
<1> SUFFICES ASSUME DatedInv, RefsInv, [Next]_vars PROVE RefsInv'
  OBVIOUS
<1> USE TicketsAssumption DEF RefsInv, AdminTypes, CommitsWhatExists, NothingDangles, Exists
<1>a. \A t \in Ids : There(t) => row[t] \in Dated
  BY Columns DEF There, DatedInv, DatedRows
<1>b. row \in [Ids -> Dated \cup {NotYet, Deleted}]
  BY DEF DatedInv, DatedRows
<1>c. \A r \in Dated : r \in Row /\ r.user \in Users \cup {Nobody} /\ r.queue \in Queues \cup {Nobody}
  BY DEF Dated, Row
<1>1. ASSUME NEW t \in Ids, NEW r, Exists(r.user), Exists(r.queue), row' = [row EXCEPT ![t] = r],
             UNCHANGED <<life, member, tx>>
      PROVE  RefsInv'
  BY <1>b, <1>1 DEF There
<1>2. ASSUME UNCHANGED <<row, life, member, tx>> PROVE RefsInv'
  BY <1>2 DEF There
<1>3. ASSUME NEW t \in Ids, NEW p \in People, NEW q \in Queues \cup {Nobody}, Create(t, p, q)
      PROVE  RefsInv'
  <2>1. Exists(Fresh(p, q).user) /\ Exists(Fresh(p, q).queue)
    BY <1>3 DEF Create, Fresh
  <2> QED BY <1>1, <1>3, <2>1 DEF Create
<1>4. ASSUME NEW t \in Ids, Delete(t) PROVE RefsInv'
  <2>1. \A s \in Ids : There(s)' => There(s) /\ row'[s] = row[s]
    BY <1>b, <1>4, Columns DEF Delete, There
  <2> QED BY <1>4, <2>1 DEF Delete
<1>5. ASSUME NEW c \in Clients, NEW t \in Ids, OnTicket(c, t) PROVE RefsInv'
  <2>1. ASSUME NEW r, Reads(c, t, r) PROVE RefsInv'
    BY <1>2, <2>1 DEF Reads
  <2>2. ASSUME NEW r, There(t) => Exists(r.user) /\ Exists(r.queue), Changes(c, t, r)
        PROVE  RefsInv'
    <3> HIDE DEF RefsInv
    <3> QED BY <1>1, <1>2, <2>2 DEF Changes
  <2>3. CASE Update(c, t) \/ Accept(c, t)
    <3>1. \E r : Reads(c, t, r)
      BY <2>3 DEF Update, Accept
    <3> QED BY <2>1, <3>1
  <2>4. CASE Close(c, t) \/ Reopen(c, t)
    <3>1. ASSUME NEW s, There(t)
          PROVE  Exists(WithStatus(row[t], s).user) /\ Exists(WithStatus(row[t], s).queue)
      BY <1>a, <3>1 DEF WithStatus, Dated, Row
    <3> HIDE DEF RefsInv, Exists
    <3> QED BY <2>2, <2>4, <3>1 DEF Close, Reopen
  <2>5. CASE Transfer(c, t)
    <3>1. ASSUME NEW u \in Users \cup {Nobody}, NEW q \in Queues \cup {Nobody}, There(t),
                 Exists(u), Exists(q)
          PROVE  /\ Exists([row[t] EXCEPT !.user = u, !.queue = q].user)
                 /\ Exists([row[t] EXCEPT !.user = u, !.queue = q].queue)
      BY <1>a, <3>1 DEF Dated, Row
    <3> HIDE DEF RefsInv, Exists
    <3> QED BY <2>2, <2>5, <3>1 DEF Transfer
  <2> HIDE DEF RefsInv
  <2> QED BY <1>5, <2>3, <2>4, <2>5 DEF OnTicket
<1>6. ASSUME NEW c \in Clients, OnRequest(c) PROVE RefsInv'
  <2>1. CASE Write(c)
    <3>1. req[c].id \in Ids
      BY <2>1 DEF DatedInv, DatedRequests, Write, Idle
    <3> HIDE DEF RefsInv, Exists
    <3> QED BY <1>1, <1>2, <2>1, <3>1 DEF Write, Writes
  <2>2. CASE Reply(c) \/ Leave(c)
    BY <1>2, <2>2 DEF Reply, Leave
  <2> QED BY <1>6, <2>1, <2>2 DEF OnRequest
<1>7. ASSUME NEW a \in Admins, NEW u \in Users, NEW want \in SUBSET Queues,
             CreateUserIn(a, u, want) \/ SetQueues(a, u, want)
      PROVE  RefsInv'
  <2>1. row' = row /\ member' = member /\ (life' = life \/ (life[u] = "new" /\ life' = [life EXCEPT ![u] = "there"]))
    BY <1>7 DEF CreateUserIn, SetQueues
  <2>2. tx' = [tx EXCEPT ![a] = Begun(u, want)] /\ Begun(u, want).at = "delete" /\ Begun(u, want).user = u
    BY <1>7 DEF CreateUserIn, SetQueues, Begun
  <2>3. Begun(u, want) \in [at : {"idle", "delete", "insert", "commit"},
                            user : Users \cup {Nobody}, want : SUBSET Queues,
                            seen : SUBSET Queues, put : SUBSET Queues]
    BY DEF Begun
  <2>4. AdminTypes'
    BY <2>1, <2>2, <2>3
  <2>5. CommitsWhatExists'
    BY <2>1, <2>2
  <2>6. NothingDangles'
    <3>1. \A x \in Users \cup Queues : life[x] = "there" => life'[x] = "there"
      BY <2>1
    <3>2. \A x \in Users \cup Queues \cup {Nobody} : Exists(x) => Exists(x)'
      BY <3>1
    <3>3. \A t \in Ids : There(t)' => There(t) /\ row'[t] = row[t] /\ row[t] \in Dated
      BY <1>a, <2>1 DEF There
    <3>4. \A t \in Ids : There(t)' => Exists(row[t].user)' /\ Exists(row[t].queue)'
      BY <1>c, <2>1, <3>2, <3>3
    <3> QED BY <2>1, <3>1, <3>4
  <2> QED BY <2>4, <2>5, <2>6
<1>8. ASSUME NEW a \in Admins, OnQueues(a) PROVE RefsInv'
  <2>1. CASE DeleteRows(a)
    <3>3. /\ tx[a] \in [at : {"idle", "delete", "insert", "commit"}, user : Users \cup {Nobody},
                         want : SUBSET Queues, seen : SUBSET Queues, put : SUBSET Queues]
          /\ tx' = [tx EXCEPT ![a] = [tx[a] EXCEPT !.at = "insert",
                                       !.seen = @ \cap member[tx[a].user]]]
      BY <2>1 DEF DeleteRows
    <3>4. [tx[a] EXCEPT !.at = "insert", !.seen = @ \cap member[tx[a].user]]
            \in [at : {"idle", "delete", "insert", "commit"}, user : Users \cup {Nobody},
                 want : SUBSET Queues, seen : SUBSET Queues, put : SUBSET Queues]
      BY <3>3
    <3>1. AdminTypes'
      BY <2>1, <3>3, <3>4 DEF DeleteRows
    <3>2. CommitsWhatExists' /\ NothingDangles'
      BY <2>1 DEF DeleteRows, There
    <3> QED BY <3>1, <3>2
  <2>2. CASE InsertRows(a)
    <3>1. CASE tx' = [tx EXCEPT ![a] = NoTx]
      <4>1. AdminTypes'
        <5>1. NoTx \in [at : {"idle", "delete", "insert", "commit"}, user : Users \cup {Nobody},
                        want : SUBSET Queues, seen : SUBSET Queues, put : SUBSET Queues]
          BY DEF NoTx
        <5>2. NoTx.at = "idle" /\ life' = life /\ member' = member
          BY <2>2 DEF InsertRows, NoTx
        <5> QED BY <3>1, <5>1, <5>2
      <4>2. CommitsWhatExists'
        <5>1. NoTx.at # "commit" /\ life' = life
          BY <2>2 DEF InsertRows, NoTx
        <5>2. \A b \in Admins : tx'[b] = IF b = a THEN NoTx ELSE tx[b]
          BY <3>1
        <5> QED BY <5>1, <5>2
      <4>3. NothingDangles'
        BY <2>2 DEF InsertRows, There
      <4> QED BY <4>1, <4>2, <4>3
    <3>2. CASE /\ Insertable(tx[a].user, tx[a].want, member[tx[a].user] \ tx[a].seen)
               /\ tx' = [tx EXCEPT ![a].at = "commit", ![a].put = tx[a].want]
      <4>1. AdminTypes'
        BY <2>2, <3>2 DEF InsertRows
      <4>2. CommitsWhatExists'
        BY <2>2, <3>2 DEF InsertRows, Insertable
      <4>3. NothingDangles'
        BY <2>2 DEF InsertRows, There
      <4> QED BY <4>1, <4>2, <4>3
    <3> QED BY <2>2, <3>1, <3>2 DEF InsertRows
  <2>3. CASE Commit(a)
    BY <2>3 DEF Commit, NoTx, There
  <2>4. CASE Rollback(a)
    BY <2>4 DEF Rollback, NoTx, There
  <2> QED BY <1>8, <2>1, <2>2, <2>3, <2>4 DEF OnQueues
<1>9. ASSUME NEW x \in Users \cup Queues, CreateQueue(x) \/ CreateUser(x) PROVE RefsInv'
  <2>1. life[x] = "new" /\ life' = [life EXCEPT ![x] = "there"] /\ UNCHANGED <<row, member, tx>>
    BY <1>9 DEF CreateQueue, CreateUser
  <2>2. AdminTypes'
    BY <2>1
  <2>3. CommitsWhatExists' /\ NothingDangles'
    BY <2>1 DEF There
  <2> QED BY <2>2, <2>3
<1>10. ASSUME NEW x \in Users \cup Queues, row' = Cleared(x)
       PROVE  \A t \in Ids : There(t)' =>
                /\ There(t)
                /\ row'[t].user = Nobody \/ (row'[t].user = row[t].user /\ row[t].user # x)
                /\ row'[t].queue = Nobody \/ (row'[t].queue = row[t].queue /\ row[t].queue # x)
  <2> SUFFICES ASSUME NEW t \in Ids, There(t)' PROVE
                /\ There(t)
                /\ row'[t].user = Nobody \/ (row'[t].user = row[t].user /\ row[t].user # x)
                /\ row'[t].queue = Nobody \/ (row'[t].queue = row[t].queue /\ row[t].queue # x)
    OBVIOUS
  <2>1. There(t)
    BY <1>10 DEF Cleared, There
  <2>2. row'[t] = [row[t] EXCEPT !.user = IF row[t].user = x THEN Nobody ELSE row[t].user,
                                 !.queue = IF row[t].queue = x THEN Nobody ELSE row[t].queue]
    BY <1>10, <2>1 DEF Cleared
  <2>3. row[t] \in Row
    BY <2>1 DEF There
  <2>4. row'[t].user = IF row[t].user = x THEN Nobody ELSE row[t].user
    BY <2>2, <2>3 DEF Row
  <2>5. row'[t].queue = IF row[t].queue = x THEN Nobody ELSE row[t].queue
    BY <2>2, <2>3 DEF Row
  <2> QED BY <2>1, <2>4, <2>5
<1>11. ASSUME NEW q \in Queues, DeleteQueue(q) PROVE RefsInv'
  <2>1. AdminTypes' /\ CommitsWhatExists'
    BY <1>11 DEF DeleteQueue, Locked
  <2>2. NothingDangles'
    BY <1>a, <1>c, <1>10, <1>11 DEF DeleteQueue
  <2> QED BY <2>1, <2>2
<1>12. ASSUME NEW u \in Users, DeleteUser(u) PROVE RefsInv'
  <2>1. AdminTypes' /\ CommitsWhatExists'
    BY <1>12 DEF DeleteUser, Locked
  <2>2. NothingDangles'
    BY <1>a, <1>c, <1>10, <1>12 DEF DeleteUser
  <2> QED BY <2>1, <2>2
<1>13. CASE UNCHANGED vars
  BY <1>2, <1>13 DEF vars
<1> HIDE DEF RefsInv
<1> QED BY <1>3, <1>4, <1>5, <1>6, <1>7, <1>8, <1>9, <1>11, <1>12, <1>13 DEF Next

LEMMA RefsInit == Init => RefsInv
<1> SUFFICES ASSUME Init PROVE RefsInv
  OBVIOUS
<1>1. \A t \in Ids : There(t) => \E p \in People : row[t] = Fresh(p, Nobody)
  BY Columns DEF Init, There
<1>2. \A t \in Ids : There(t) => Exists(row[t].user) /\ Exists(row[t].queue)
  <2> SUFFICES ASSUME NEW t \in Ids, There(t) PROVE Exists(row[t].user) /\ Exists(row[t].queue)
    OBVIOUS
  <2>1. PICK p \in People : row[t] = Fresh(p, Nobody)
    BY <1>1
  <2> QED BY <2>1 DEF Fresh, Exists
<1> QED BY <1>2 DEF Init, RefsInv, AdminTypes, CommitsWhatExists, NothingDangles, NoTx

(* No ticket and no list of queues refers to a user or a queue that does   *)
(* not exist, in whichever order they are deleted and assigned.            *)
THEOREM ReferencesExist == Spec => []NothingDangles
<1>1. RefsInv => NothingDangles
  BY DEF RefsInv
<1> QED BY <1>1, DatedInit, DatedStep, RefsInit, RefsStep, PTL DEF Spec

(* Both, whoever writes last and whatever was deleted meanwhile.           *)
THEOREM AgreeingRows == Spec => []RowsAgree
<1>1. ClosedHasDate /\ NothingDangles => RowsAgree
  BY DEF RowsAgree
<1> QED BY <1>1, ClosedTicketsDated, ReferencesExist, PTL
------------------------------------------------------------------------------
(* Messages and chats.  Whoever is about to flag messages of a chat of two *)
(* has sent their receipts, and receipts are not taken back.               *)

InboxTypes ==
  /\ msgRow \in [Msgs -> [status : Ticks \cup {"none"}, read : BOOLEAN]]
  /\ chat \in [Chats -> [unread : Nat, time : Nat]]
  /\ handler \in [Handlers -> [at : {"idle", "save", "time", "unread"}, of : Msgs \cup {Nothing}]]
  /\ history \in [at : {"idle", "messages", "chats"}, msgs : SUBSET Msgs, unread : Nat,
                  of : Chats \cup {Nothing}]
  /\ agent \in [at : {"idle", "send", "flag"}, of : Chats \cup {Nothing}, ids : SUBSET Incoming]
  /\ reader \in [at : {"idle", "zero"}, of : Chats \cup {Nothing}]
  /\ receipts \subseteq Incoming
(* Work under way is about something.                                      *)
UnderWay ==
  /\ \A h \in Handlers : handler[h].at # "idle" => handler[h].of \in Msgs
  /\ history.at # "idle" => history.msgs # {}
(* The messages an agent's answer marks are of one chat; before they are   *)
(* flagged their receipts are sent.                                        *)
AgentKnows ==
  /\ agent.at # "idle" => \A m \in agent.ids : ChatOf[m] = agent.of
  /\ agent.at = "flag" /\ agent.of \notin Groups => agent.ids \subseteq receipts
(* A message whose status is read has the mark as well.                    *)
Marked == \A m \in Msgs : msgRow[m].status = "read" => msgRow[m].read
InboxInv == InboxTypes /\ UnderWay /\ AgentKnows /\ ReadWasSent /\ Marked

(* The latest time of some messages is the time of one of them.            *)
LEMMA LatestIsOne ==
  ASSUME NEW ms \in SUBSET Msgs, ms # {}
  PROVE  Latest(ms) \in Nat
<1> DEFINE after == [m \in Msgs |-> {n \in ms : Stamp[n] > Stamp[m]}]
           F == {after[m] : m \in ms}
           R == StrictSubsetOrdering(Msgs)
<1>1. IsWellFoundedOn(R, FiniteSubsetsOf(Msgs))
  BY FS_StrictSubsetOrderingWellFounded
<1>2. F \subseteq FiniteSubsetsOf(Msgs) /\ F # {}
  <2>1. ASSUME NEW m \in ms PROVE after[m] \in FiniteSubsetsOf(Msgs)
    <3>1. after[m] \in SUBSET Msgs
      OBVIOUS
    <3>2. IsFiniteSet(after[m])
      BY <3>1, FS_Subset, InboxAssumption
    <3> QED BY <3>1, <3>2 DEF FiniteSubsetsOf
  <2> QED BY <2>1
<1>3. \E x \in F : \A y \in F : <<y, x>> \notin R
  <2> HIDE DEF F, R
  <2> QED BY <1>1, <1>2, WFMin
<1>4. PICK m \in ms : \A n \in ms : <<after[n], after[m]>> \notin R
  BY <1>3
<1>5. ASSUME NEW n \in ms, Stamp[n] > Stamp[m] PROVE FALSE
  <2>1. Stamp[m] \in Nat /\ Stamp[n] \in Nat
    BY InboxAssumption
  <2>2. after[n] \subseteq after[m]
    BY <1>5, <2>1, InboxAssumption
  <2>3. n \in after[m] /\ n \notin after[n]
    BY <1>5, <2>1
  <2>4. after[n] \in SUBSET Msgs /\ after[m] \in SUBSET Msgs
    OBVIOUS
  <2>5. <<after[n], after[m]>> \in R
    <3> HIDE DEF after
    <3> QED BY <2>2, <2>3, <2>4 DEF StrictSubsetOrdering
  <2> QED BY <1>4, <2>5
<1>6. \A n \in ms : Stamp[n] <= Stamp[m]
  BY <1>5, InboxAssumption
<1>7. Stamp[m] \in {Stamp[n] : n \in ms}
  OBVIOUS
<1>8. Latest(ms) \in {Stamp[n] : n \in ms}
  BY <1>6, <1>7 DEF Latest
<1> QED BY <1>8, InboxAssumption

LEMMA InboxStarts == InboxInit => InboxInv
BY InboxAssumption
DEF InboxInit, InboxInv, InboxTypes, UnderWay, AgentKnows, ReadWasSent, Marked, NoRow, NoChat,
    Waiting, NoSync, NoAnswer, Ticks

(* The rows of messages keep their type and what was read, whichever rows  *)
(* an event or a sync inserts.                                             *)
LEMMA InsertKeeps ==
  ASSUME InboxTypes, NEW m \in Msgs
  PROVE  /\ Inserted(m) \in [status : Ticks \cup {"none"}, read : BOOLEAN]
         /\ Inserted(m).read = msgRow[m].read
         /\ msgRow[m].status # "none" => Inserted(m) = msgRow[m]
         /\ Inserted(m).status = "read" => Inserted(m) = msgRow[m]
<1>1. msgRow[m] \in [status : Ticks \cup {"none"}, read : BOOLEAN]
  BY DEF InboxTypes
<1>2. CASE Saved(m)
  BY <1>1, <1>2 DEF Inserted
<1>3. CASE ~Saved(m)
  <2>1. msgRow[m] = NoRow /\ Inserted(m) = Received(m)
    BY <1>3 DEF Saved, Inserted
  <2>2. Received(m) \in [status : Ticks \cup {"none"}, read : BOOLEAN]
    BY DEF Received, Ticks
  <2>3. /\ Received(m).read = FALSE /\ NoRow.read = FALSE
        /\ Received(m).status # "read" /\ NoRow.status = "none"
    BY DEF Received, NoRow
  <2> DEFINE i == Inserted(m)
  <2>4. i = Received(m) /\ msgRow[m].status = "none" /\ msgRow[m].read = FALSE
    BY <2>1, <2>3
  <2> HIDE DEF i
  <2>5. /\ i \in [status : Ticks \cup {"none"}, read : BOOLEAN] /\ i.read = msgRow[m].read
        /\ i.status # "read"
    BY <2>2, <2>3, <2>4
  <2> QED BY <2>4, <2>5 DEF i
<1> QED BY <1>2, <1>3

(* What receipts have told is kept, and no chat's time goes back.          *)
ToldStays(m) ==
  /\ msgRow[m].status \notin {"none", msgRow'[m].status} =>
       m \notin Incoming /\ msgRow'[m].status \in {"delivered", "read"}
  /\ msgRow[m].status = "read" \/ msgRow[m].read => msgRow'[m].read
Forward ==
  /\ \A m \in Msgs : ToldStays(m)
  /\ \A c \in Chats : chat'[c].time >= chat[c].time

LEMMA SaveKeeps ==
  ASSUME InboxInv, NEW h \in Handlers, Save(h) PROVE InboxInv' /\ Forward
<1>1. handler[h].of \in Msgs
  BY DEF InboxInv, UnderWay, Save
<1>2. msgRow' = [msgRow EXCEPT ![handler[h].of] = Inserted(handler[h].of)] \/ msgRow' = msgRow
  BY DEF Save, Tries
<1> DEFINE r == Inserted(handler[h].of)
<1>3. /\ r \in [status : Ticks \cup {"none"}, read : BOOLEAN]
      /\ r.read = msgRow[handler[h].of].read
      /\ r.status = "read" \/ msgRow[handler[h].of].status # "none" => r = msgRow[handler[h].of]
  BY <1>1, InsertKeeps DEF InboxInv
<1> HIDE DEF r
<1>4. msgRow' = [msgRow EXCEPT ![handler[h].of] = r] \/ msgRow' = msgRow
  BY <1>2 DEF r
<1>5. /\ msgRow' \in [Msgs -> [status : Ticks \cup {"none"}, read : BOOLEAN]]
      /\ \A m \in Msgs : msgRow'[m].read = msgRow[m].read
      /\ Marked' /\ \A m \in Msgs : ToldStays(m)
  <2>1. \A m \in Msgs : \/ msgRow'[m] = msgRow[m]
                        \/ m = handler[h].of /\ msgRow'[m] = r
    BY <1>1, <1>4 DEF InboxInv, InboxTypes
  <2>2. msgRow' \in [Msgs -> [status : Ticks \cup {"none"}, read : BOOLEAN]]
    BY <1>1, <1>3, <1>4 DEF InboxInv, InboxTypes
  <2>3. \A m \in Msgs : msgRow'[m].read = msgRow[m].read
    BY <1>3, <2>1
  <2>4. \A m \in Msgs : msgRow'[m] = msgRow[m] \/ (msgRow[m].status = "none" /\ msgRow'[m].status # "read")
    BY <1>3, <2>1
  <2>5. Marked'
    BY <2>4 DEF InboxInv, Marked
  <2>6. \A m \in Msgs : ToldStays(m)
    BY <2>3, <2>4 DEF InboxInv, Marked, ToldStays
  <2> QED BY <2>2, <2>3, <2>5, <2>6
<1>6. UNCHANGED <<chat, history, agent, reader, receipts>>
  BY DEF Save
<1>7. handler' = [handler EXCEPT ![h].at = "time"]
  BY DEF Save
<1>8. handler' \in [Handlers -> [at : {"idle", "save", "time", "unread"}, of : Msgs \cup {Nothing}]]
  BY <1>7 DEF InboxInv, InboxTypes
<1>9. UnderWay'
  BY <1>1, <1>6, <1>7 DEF InboxInv, InboxTypes, UnderWay
<1>10. \A c \in Chats : chat'[c].time >= chat[c].time
  BY <1>6 DEF InboxInv, InboxTypes
<1>11. Incoming \subseteq Msgs
  BY InboxAssumption
<1> QED BY <1>5, <1>6, <1>8, <1>9, <1>10, <1>11
        DEF InboxInv, InboxTypes, AgentKnows, ReadWasSent, Forward

(* A step that leaves the rows and the agent alone reports nothing less.   *)
LEMMA AgentStays ==
  ASSUME InboxInv, UNCHANGED <<msgRow, agent>>, receipts \subseteq receipts', receipts' \subseteq Incoming
  PROVE  AgentKnows' /\ ReadWasSent' /\ Marked' /\ \A m \in Msgs : ToldStays(m)
BY DEF InboxInv, AgentKnows, ReadWasSent, Marked, ToldStays

LEMMA TimeKeeps ==
  ASSUME InboxInv, NEW h \in Handlers, UpdateTime(h) PROVE InboxInv' /\ Forward
<1> DEFINE m == handler[h].of
           t == Later(ChatOf[m], Stamp[m])
           w == IF m \in Incoming THEN [handler[h] EXCEPT !.at = "unread"] ELSE Waiting
<1>1. m \in Msgs /\ ChatOf[m] \in Chats /\ Stamp[m] \in Nat
  BY InboxAssumption DEF InboxInv, UnderWay, UpdateTime
<1>2. t \in Nat /\ t >= chat[ChatOf[m]].time
  BY <1>1 DEF InboxInv, InboxTypes, Later
<1>3. chat' = [chat EXCEPT ![ChatOf[m]].time = t] \/ chat' = chat
  BY DEF UpdateTime, Tries
<1>4. handler' = [handler EXCEPT ![h] = w]
  BY DEF UpdateTime
<1>5. w \in [at : {"idle", "save", "time", "unread"}, of : Msgs \cup {Nothing}]
      /\ (w.at # "idle" => w.of \in Msgs)
  BY <1>1 DEF InboxInv, InboxTypes, Waiting
<1>6. UNCHANGED <<msgRow, history, agent, reader, receipts>>
  BY DEF UpdateTime
<1> HIDE DEF m, t, w
<1>7. /\ chat' \in [Chats -> [unread : Nat, time : Nat]]
      /\ \A c \in Chats : chat'[c].time >= chat[c].time
  <2>1. chat \in [Chats -> [unread : Nat, time : Nat]]
    BY DEF InboxInv, InboxTypes
  <2>2. chat' \in [Chats -> [unread : Nat, time : Nat]]
    BY <1>1, <1>2, <1>3, <2>1
  <2>3. \A c \in Chats : chat'[c].time >= chat[c].time
    BY <1>1, <1>2, <1>3, <2>1
  <2> QED BY <2>2, <2>3
<1>8. /\ handler' \in [Handlers -> [at : {"idle", "save", "time", "unread"},
                                    of : Msgs \cup {Nothing}]]
      /\ \A g \in Handlers : handler'[g].at # "idle" => handler'[g].of \in Msgs
  BY <1>4, <1>5 DEF InboxInv, InboxTypes, UnderWay
<1>9. AgentKnows' /\ ReadWasSent' /\ Marked' /\ \A n \in Msgs : ToldStays(n)
  BY <1>6, AgentStays DEF InboxInv, InboxTypes
<1> QED BY <1>6, <1>7, <1>8, <1>9 DEF InboxInv, InboxTypes, UnderWay, Forward

LEMMA UnreadKeeps ==
  ASSUME InboxInv, NEW h \in Handlers, IncrementUnread(h) PROVE InboxInv' /\ Forward
<1> DEFINE c == ChatOf[handler[h].of]
           u == IF Listed(c) THEN chat[c].unread + 1 ELSE chat[c].unread
<1>1. c \in Chats
  BY InboxAssumption DEF InboxInv, UnderWay, IncrementUnread
<1>2. u \in Nat
  BY <1>1 DEF InboxInv, InboxTypes
<1>3. chat' = [chat EXCEPT ![c].unread = u] \/ chat' = chat
  BY DEF IncrementUnread, Tries
<1>4. handler' = [handler EXCEPT ![h] = Waiting] /\ UNCHANGED <<msgRow, history, agent, reader, receipts>>
  BY DEF IncrementUnread
<1> HIDE DEF c, u
<1>5. /\ chat' \in [Chats -> [unread : Nat, time : Nat]]
      /\ \A d \in Chats : chat'[d].time >= chat[d].time
  BY SMTT(60), <1>1, <1>2, <1>3 DEF InboxInv, InboxTypes
<1>6. /\ handler' \in [Handlers -> [at : {"idle", "save", "time", "unread"},
                                    of : Msgs \cup {Nothing}]]
      /\ \A g \in Handlers : handler'[g].at # "idle" => handler'[g].of \in Msgs
  BY <1>4 DEF InboxInv, InboxTypes, UnderWay, Waiting
<1>7. AgentKnows' /\ ReadWasSent' /\ Marked' /\ \A m \in Msgs : ToldStays(m)
  BY <1>4, AgentStays DEF InboxInv, InboxTypes
<1> QED BY <1>4, <1>5, <1>6, <1>7 DEF InboxInv, InboxTypes, UnderWay, Forward

(* Only an incoming message is read by an agent, only one of ours gets a   *)
(* receipt.                                                                *)
LEMMA ReceiptKeeps ==
  ASSUME InboxInv, NEW m \in Msgs, NEW s \in Ticks, Receipt(m, s) PROVE InboxInv' /\ Forward
<1> DEFINE r == Ticked(msgRow[m], s)
           now == msgRow[m].read \/ s = "read"
<1>a. msgRow[m] \in [status : Ticks \cup {"none"}, read : BOOLEAN] /\ now \in BOOLEAN
  BY DEF InboxInv, InboxTypes
<1>b. r = [msgRow[m] EXCEPT !.status = s, !.read = now] /\ (msgRow[m].read => now)
      /\ (s = "read" => now)
  BY DEF Ticked
<1> HIDE DEF r, now
<1>1. r \in [status : Ticks \cup {"none"}, read : BOOLEAN]
  BY <1>a, <1>b
<1>2. (msgRow[m].read => r.read) /\ (r.status = "read" => r.read) /\ r.status = s
  BY <1>a, <1>b
<1> USE DEF r
<1>3. m \notin Incoming /\ s \in {"delivered", "read"} /\ msgRow' = [msgRow EXCEPT ![m] = r]
      /\ UNCHANGED <<chat, handler, history, agent, reader, receipts>>
  BY DEF Receipt
<1> HIDE DEF r
<1>4. /\ msgRow' \in [Msgs -> [status : Ticks \cup {"none"}, read : BOOLEAN]]
      /\ Marked' /\ \A n \in Msgs : ToldStays(n)
      /\ \A n \in Incoming : msgRow'[n] = msgRow[n]
  <2>1. msgRow' \in [Msgs -> [status : Ticks \cup {"none"}, read : BOOLEAN]]
    BY <1>1, <1>3 DEF InboxInv, InboxTypes
  <2>2. msgRow'[m] = r /\ \A n \in Msgs \ {m} : msgRow'[n] = msgRow[n]
    BY <1>3 DEF InboxInv, InboxTypes
  <2>3. Marked'
    BY <1>2, <2>2 DEF InboxInv, Marked
  <2>4. ASSUME NEW n \in Msgs PROVE ToldStays(n)
    BY <1>2, <1>3, <2>2 DEF InboxInv, Marked, ToldStays
  <2> QED BY <1>3, <2>1, <2>2, <2>3, <2>4, InboxAssumption
<1>5. \A c \in Chats : chat'[c].time >= chat[c].time
  BY <1>3 DEF InboxInv, InboxTypes
<1> QED BY <1>3, <1>4, <1>5 DEF InboxInv, InboxTypes, UnderWay, AgentKnows, ReadWasSent, Forward

LEMMA HistoryMessagesKeep ==
  ASSUME InboxInv, HistoryMessages PROVE InboxInv' /\ Forward
<1>1. /\ msgRow' \in [Msgs -> [status : Ticks \cup {"none"}, read : BOOLEAN]]
      /\ \A m \in Msgs :
           /\ msgRow'[m].read = msgRow[m].read
           /\ msgRow'[m] = msgRow[m] \/ (msgRow[m].status = "none" /\ msgRow'[m].status # "read")
  <2>1. CASE msgRow' = msgRow
    BY <2>1 DEF InboxInv, InboxTypes
  <2>2. CASE msgRow' = [m \in Msgs |-> IF m \in history.msgs THEN Inserted(m) ELSE msgRow[m]]
    BY <2>2, InsertKeeps DEF InboxInv, InboxTypes
  <2> QED BY <2>1, <2>2 DEF HistoryMessages, Tries
<1>2. UNCHANGED <<chat, handler, agent, reader, receipts>>
  BY DEF HistoryMessages
<1>m. Marked' /\ \A m \in Msgs : ToldStays(m)
  BY <1>1 DEF InboxInv, Marked, ToldStays
<1>3. history' = [history EXCEPT !.at = "chats"]
  BY DEF HistoryMessages
<1>4. history' \in [at : {"idle", "messages", "chats"}, msgs : SUBSET Msgs, unread : Nat,
                    of : Chats \cup {Nothing}] /\ history'.msgs # {}
  BY <1>3 DEF InboxInv, InboxTypes, UnderWay, HistoryMessages
<1>5. \A c \in Chats : chat'[c].time >= chat[c].time
  BY <1>2 DEF InboxInv, InboxTypes
<1> QED BY <1>1, <1>2, <1>m, <1>4, <1>5, InboxAssumption
        DEF InboxInv, InboxTypes, UnderWay, AgentKnows, ReadWasSent, Forward

LEMMA HistoryChatsKeep ==
  ASSUME InboxInv, HistoryChats PROVE InboxInv' /\ Forward
<1> DEFINE c == history.of
           new == Merged(c, history.unread, Latest(history.msgs))
<1>1. Latest(history.msgs) \in Nat
  BY LatestIsOne DEF InboxInv, InboxTypes, UnderWay, HistoryChats
<1>2. c \in Chats => new \in [unread : Nat, time : Nat] /\ new.time >= chat[c].time
  BY <1>1 DEF InboxInv, InboxTypes, Merged
<1>3. chat' = [chat EXCEPT ![c] = new] \/ chat' = chat
  BY DEF HistoryChats, Tries
<1>4. history' = NoSync /\ UNCHANGED <<msgRow, handler, agent, reader, receipts>>
  BY DEF HistoryChats
<1> HIDE DEF c, new
<1>5. /\ chat' \in [Chats -> [unread : Nat, time : Nat]]
      /\ \A d \in Chats : chat'[d].time >= chat[d].time
  BY <1>2, <1>3 DEF InboxInv, InboxTypes
<1>6. history' \in [at : {"idle", "messages", "chats"}, msgs : SUBSET Msgs, unread : Nat,
                    of : Chats \cup {Nothing}] /\ history'.at = "idle"
  BY <1>4 DEF NoSync
<1>7. AgentKnows' /\ ReadWasSent' /\ Marked' /\ \A m \in Msgs : ToldStays(m)
  BY <1>4, AgentStays DEF InboxInv, InboxTypes
<1> QED BY <1>4, <1>5, <1>6, <1>7 DEF InboxInv, InboxTypes, UnderWay, Forward

LEMMA AnswersKeep ==
  ASSUME InboxInv, NEW c \in Chats, AgentAnswers(c) PROVE InboxInv' /\ Forward
<1>1. agent' = [at |-> "send", of |-> c, ids |-> Page(Unread(c))]
      /\ UNCHANGED <<msgRow, chat, handler, history, reader, receipts>>
  BY DEF AgentAnswers
<1>2. Page(Unread(c)) \subseteq {m \in Incoming : ChatOf[m] = c}
  BY DEF Page, Unread
<1>3. agent' \in [at : {"idle", "send", "flag"}, of : Chats \cup {Nothing}, ids : SUBSET Incoming]
  BY <1>1, <1>2
<1>4. AgentKnows'
  BY <1>1, <1>2 DEF AgentKnows
<1>5. \A d \in Chats : chat'[d].time >= chat[d].time
  BY <1>1 DEF InboxInv, InboxTypes
<1>m. Marked' /\ \A m \in Msgs : ToldStays(m)
  BY <1>1 DEF InboxInv, Marked, ToldStays
<1> QED BY <1>1, <1>m, <1>3, <1>4, <1>5 DEF InboxInv, InboxTypes, UnderWay, ReadWasSent, Forward

LEMMA SendsKeep ==
  ASSUME InboxInv, AgentSends PROVE InboxInv' /\ Forward
<1>1. UNCHANGED <<msgRow, chat, handler, history, reader>>
  BY DEF AgentSends
<1>2. receipts \subseteq receipts' /\ receipts' \subseteq Incoming
  BY DEF AgentSends, InboxInv, InboxTypes
<1>3. agent' \in [at : {"idle", "send", "flag"}, of : Chats \cup {Nothing}, ids : SUBSET Incoming]
  BY DEF AgentSends, InboxInv, InboxTypes, NoAnswer
<1>4. AgentKnows'
  <2>1. CASE agent' = NoAnswer
    BY <2>1 DEF AgentKnows, NoAnswer
  <2>2. CASE agent' = [agent EXCEPT !.at = "flag"]
             /\ receipts' = IF agent.of \in Groups THEN receipts ELSE receipts \cup agent.ids
    BY <2>2 DEF AgentSends, AgentKnows, InboxInv, InboxTypes
  <2> QED BY <2>1, <2>2 DEF AgentSends
<1>5. ReadWasSent'
  BY <1>1, <1>2 DEF InboxInv, ReadWasSent
<1>6. \A d \in Chats : chat'[d].time >= chat[d].time
  BY <1>1 DEF InboxInv, InboxTypes
<1>m. Marked' /\ \A m \in Msgs : ToldStays(m)
  BY <1>1 DEF InboxInv, Marked, ToldStays
<1> QED BY <1>1, <1>m, <1>2, <1>3, <1>4, <1>5, <1>6 DEF InboxInv, InboxTypes, UnderWay, Forward

(* What is flagged was reported: in a chat of two the receipts of the page *)
(* were sent, whatever arrived since the page was read.                    *)
LEMMA FlagsKeep ==
  ASSUME InboxInv, AgentFlags PROVE InboxInv' /\ Forward
<1>1. UNCHANGED <<chat, handler, history, reader, receipts>> /\ agent' = NoAnswer
  BY DEF AgentFlags
<1>2. \A m \in Msgs : msgRow'[m] = msgRow[m]
        \/ (m \in agent.ids /\ msgRow'[m] = [msgRow[m] EXCEPT !.read = TRUE])
  BY DEF AgentFlags, Tries, Flagged
<1>3. DOMAIN msgRow' = Msgs /\ msgRow' = [m \in Msgs |-> msgRow'[m]]
  <2>1. CASE msgRow' = msgRow
    BY <2>1 DEF InboxInv, InboxTypes
  <2>2. CASE msgRow' = [m \in Msgs |-> IF m \in Flagged /\ Saved(m)
                          THEN [msgRow[m] EXCEPT !.read = TRUE] ELSE msgRow[m]]
    BY <2>2
  <2> QED BY <2>1, <2>2 DEF AgentFlags, Tries
<1>4. \A m \in Msgs : /\ msgRow'[m] \in [status : Ticks \cup {"none"}, read : BOOLEAN]
                      /\ msgRow[m].read => msgRow'[m].read
                      /\ msgRow'[m].status = msgRow[m].status
  <2> SUFFICES ASSUME NEW m \in Msgs
               PROVE  /\ msgRow'[m] \in [status : Ticks \cup {"none"}, read : BOOLEAN]
                      /\ msgRow[m].read => msgRow'[m].read
                      /\ msgRow'[m].status = msgRow[m].status
    OBVIOUS
  <2> DEFINE r == msgRow[m]
  <2>1. r \in [status : Ticks \cup {"none"}, read : BOOLEAN]
    BY DEF InboxInv, InboxTypes
  <2>2. msgRow'[m] = r \/ msgRow'[m] = [r EXCEPT !.read = TRUE]
    BY <1>2
  <2> HIDE DEF r
  <2>3. /\ msgRow'[m] \in [status : Ticks \cup {"none"}, read : BOOLEAN]
        /\ r.read => msgRow'[m].read
        /\ msgRow'[m].status = r.status
    <3>1. CASE msgRow'[m] = r
      BY <2>1, <3>1
    <3>2. CASE msgRow'[m] = [r EXCEPT !.read = TRUE]
      BY <2>1, <3>2
    <3> QED BY <2>2, <3>1, <3>2
  <2> QED BY <2>3 DEF r
<1>5. msgRow' \in [Msgs -> [status : Ticks \cup {"none"}, read : BOOLEAN]]
  BY <1>3, <1>4
<1>6. ReadWasSent'
  <2> SUFFICES ASSUME NEW m \in Incoming, msgRow'[m].read, ChatOf[m] \notin Groups
               PROVE  m \in receipts
    BY <1>1 DEF ReadWasSent
  <2>1. m \in Msgs
    BY InboxAssumption
  <2>2. CASE m \in agent.ids
    BY <2>2 DEF InboxInv, AgentKnows, AgentFlags
  <2>3. CASE m \notin agent.ids
    BY <1>2, <2>1, <2>3 DEF InboxInv, ReadWasSent
  <2> QED BY <2>2, <2>3
<1>7. agent' \in [at : {"idle", "send", "flag"}, of : Chats \cup {Nothing}, ids : SUBSET Incoming]
      /\ AgentKnows'
  BY <1>1 DEF NoAnswer, AgentKnows
<1>8. \A d \in Chats : chat'[d].time >= chat[d].time
  BY <1>1 DEF InboxInv, InboxTypes
<1>m. Marked' /\ \A m \in Msgs : ToldStays(m)
  BY <1>4 DEF InboxInv, Marked, ToldStays
<1> QED BY <1>1, <1>m, <1>5, <1>6, <1>7, <1>8 DEF InboxInv, InboxTypes, UnderWay, Forward

LEMMA ReaderKeeps ==
  ASSUME InboxInv,
         ReaderZeroes \/ \E c \in Chats, ms \in SUBSET Incoming : ReaderSends(c, ms)
  PROVE  InboxInv' /\ Forward
<1>1. CASE ReaderZeroes
  <2> DEFINE c == reader.of
  <2>1. chat' = [chat EXCEPT ![c].unread = 0] \/ chat' = chat
    BY <1>1 DEF ReaderZeroes, Tries
  <2>2. reader' = Waiting /\ UNCHANGED <<msgRow, handler, history, agent, receipts>>
    BY <1>1 DEF ReaderZeroes
  <2> HIDE DEF c
  <2>3. /\ chat' \in [Chats -> [unread : Nat, time : Nat]]
        /\ \A d \in Chats : chat'[d].time >= chat[d].time
    BY <2>1 DEF InboxInv, InboxTypes
  <2>4. AgentKnows' /\ ReadWasSent' /\ Marked' /\ \A m \in Msgs : ToldStays(m)
    BY <2>2, AgentStays DEF InboxInv, InboxTypes
  <2> QED BY <2>2, <2>3, <2>4 DEF InboxInv, InboxTypes, UnderWay, Forward, Waiting
<1>2. ASSUME NEW c \in Chats, NEW ms \in SUBSET Incoming, ReaderSends(c, ms)
      PROVE  InboxInv' /\ Forward
  <2>1. reader' = [at |-> "zero", of |-> c] /\ receipts' = receipts \cup ms
        /\ UNCHANGED <<msgRow, chat, handler, history, agent>>
    BY <1>2 DEF ReaderSends
  <2>2. AgentKnows' /\ ReadWasSent' /\ Marked' /\ \A m \in Msgs : ToldStays(m)
    BY <2>1, AgentStays DEF InboxInv, InboxTypes
  <2>3. \A d \in Chats : chat'[d].time >= chat[d].time
    BY <2>1 DEF InboxInv, InboxTypes
  <2> QED BY <2>1, <2>2, <2>3 DEF InboxInv, InboxTypes, UnderWay, Forward
<1> QED BY <1>1, <1>2

LEMMA ArrivalsKeep ==
  ASSUME InboxInv,
         \/ \E h \in Handlers, m \in Msgs : Arrives(h, m)
         \/ \E c \in Chats, ms \in SUBSET Msgs, unread \in 0 .. 1 : HistoryArrives(c, ms, unread)
         \/ UNCHANGED inboxVars
  PROVE  InboxInv' /\ Forward
<1>1. UNCHANGED <<msgRow, chat, agent, reader, receipts>>
  BY DEF Arrives, HistoryArrives, inboxVars
<1>2. /\ handler' \in [Handlers -> [at : {"idle", "save", "time", "unread"},
                                    of : Msgs \cup {Nothing}]]
      /\ \A h \in Handlers : handler'[h].at # "idle" => handler'[h].of \in Msgs
  <2>1. ASSUME NEW h \in Handlers, NEW m \in Msgs, handler' = [handler EXCEPT ![h] = [at |-> "save", of |-> m]]
        PROVE  /\ handler' \in [Handlers -> [at : {"idle", "save", "time", "unread"},
                                              of : Msgs \cup {Nothing}]]
               /\ \A g \in Handlers : handler'[g].at # "idle" => handler'[g].of \in Msgs
    BY <2>1 DEF InboxInv, InboxTypes, UnderWay
  <2>2. CASE handler' = handler
    BY <2>2 DEF InboxInv, InboxTypes, UnderWay
  <2> QED BY <2>1, <2>2 DEF Arrives, HistoryArrives, inboxVars
<1>3. /\ history' \in [at : {"idle", "messages", "chats"}, msgs : SUBSET Msgs, unread : Nat,
                       of : Chats \cup {Nothing}]
      /\ history'.at # "idle" => history'.msgs # {}
  <2>1. ASSUME NEW c \in Chats, NEW ms \in SUBSET Msgs, NEW unread \in 0 .. 1,
               HistoryArrives(c, ms, unread)
        PROVE  /\ history' \in [at : {"idle", "messages", "chats"}, msgs : SUBSET Msgs,
                                 unread : Nat, of : Chats \cup {Nothing}]
               /\ history'.at # "idle" => history'.msgs # {}
    BY <2>1 DEF HistoryArrives
  <2>2. CASE history' = history
    BY <2>2 DEF InboxInv, InboxTypes, UnderWay
  <2> QED BY <2>1, <2>2 DEF Arrives, inboxVars
<1>4. AgentKnows' /\ ReadWasSent' /\ Marked' /\ \A m \in Msgs : ToldStays(m)
  BY <1>1, AgentStays DEF InboxInv, InboxTypes
<1>5. \A d \in Chats : chat'[d].time >= chat[d].time
  BY <1>1 DEF InboxInv, InboxTypes
<1> QED BY <1>1, <1>2, <1>3, <1>4, <1>5 DEF InboxInv, InboxTypes, UnderWay, Forward

LEMMA InboxStep == InboxInv /\ [InboxNext]_inboxVars => InboxInv' /\ Forward
BY SaveKeeps, TimeKeeps, UnreadKeeps, ReceiptKeeps, HistoryMessagesKeep, HistoryChatsKeep,
   AnswersKeep, SendsKeep, FlagsKeep, ReaderKeeps, ArrivalsKeep
DEF InboxNext

LEMMA InboxHolds == InboxSpec => []InboxInv
BY InboxStarts, InboxStep, PTL DEF InboxSpec

(* An incoming message in a chat of two that its row says an agent read    *)
(* was reported to its sender, for any messages, chats and agents' pages,  *)
(* events, history syncs and failing statements in between                 *)
(* (markMessagesAsRead, MarkAsReadByAgent).                                *)
THEOREM ReadIsReported == InboxSpec => []ReadWasSent
<1>1. InboxInv => ReadWasSent
  BY DEF InboxInv
<1> QED BY <1>1, InboxHolds, PTL

(* What receipts have told of a message is kept by repeated events and     *)
(* history syncs, and a late delivered receipt, which does set the status  *)
(* back, leaves the mark that it was read; the time of a chat never goes   *)
(* back; in whatever order events, receipts and history syncs are handled  *)
(* (MessageRepository.Save, SaveBatch, UpdateStatus,                       *)
(* UpdateConversationTimestamp).                                           *)
THEOREM ReceiptsStay == InboxSpec => ReceiptsAreKept
<1>1. InboxInv /\ [InboxNext]_inboxVars =>
        [/\ \A m \in Msgs :
              /\ msgRow[m].status \notin {"none", msgRow'[m].status} =>
                   m \notin Incoming /\ msgRow'[m].status \in {"delivered", "read"}
              /\ msgRow[m].status = "read" \/ msgRow[m].read => msgRow'[m].read
         /\ \A c \in Chats : chat'[c].time >= chat[c].time]_inboxVars
  BY InboxStep DEF Forward, ToldStays
<1> QED BY <1>1, InboxHolds, PTL DEF InboxSpec, ReceiptsAreKept
==============================================================================
