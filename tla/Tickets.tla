------------------------------- MODULE Tickets -------------------------------
(***************************************************************************)
(* Tickets of contacts, the agents (users) and queues they are assigned    *)
(* to, and the queues of each agent.  The handlers of tickets either write *)
(* some columns in one statement (close, reopen, transfer), or read the    *)
(* row, change it in memory and write every column back (update, accept);  *)
(* the queues of an agent are replaced by a transaction of the isolation   *)
(* PostgreSQL gives by default (read committed).  Names, colours and the   *)
(* other texts are left out, and so are statements that only read.         *)
(***************************************************************************)
EXTENDS Naturals, FiniteSets

CONSTANTS
  Ids,       (* identifiers of tickets, each used once                     *)
  People,    (* contacts of one session                                    *)
  Users,     (* agents                                                     *)
  Queues,    (* queues                                                     *)
  Clients,   (* requests on tickets served at a time                       *)
  Admins,    (* requests on the queues of agents served at a time          *)
  Nobody     (* no user, no queue, no ticket                               *)

ASSUME TicketsAssumption ==
  Nobody \notin Ids \cup Users \cup Queues /\ Users \cap Queues = {}

VARIABLES
  row,       (* of each identifier: the ticket                             *)
  life,      (* of each user and queue: not yet created, there or deleted  *)
  member,    (* of each user: its queues                                   *)
  req,       (* of each client: the request it makes                       *)
  tx         (* of each admin: the transaction that sets a user's queues   *)

vars == <<row, life, member, req, tx>>

(* A request may write any text: "pending" stands for all but these two.   *)
Statuses == {"pending", "open", "closed"}
Row == [contact : People, status : Statuses, user : Users \cup {Nobody},
        queue : Queues \cup {Nobody}, closedAt : BOOLEAN]
NotYet == [status |-> "none"]
Deleted == [status |-> "deleted"]

Idle == [at |-> "idle"]
Requests == [at : {"write"}, id : Ids, row : Row] \cup [at : {"reply"}, id : Ids]

NoTx == [at |-> "idle", user |-> Nobody, want |-> {}, seen |-> {}, put |-> {}]

TypeOK ==
  /\ row \in [Ids -> Row \cup {NotYet, Deleted}]
  /\ life \in [Users \cup Queues -> {"new", "there", "deleted"}]
  /\ member \in [Users -> SUBSET Queues]
  /\ req \in [Clients -> Requests \cup {Idle}]
  /\ tx \in [Admins -> [at : {"idle", "delete", "insert", "commit"},
                        user : Users \cup {Nobody}, want : SUBSET Queues,
                        seen : SUBSET Queues, put : SUBSET Queues]]

There(t) == row[t] \in Row
Exists(x) == x # Nobody => life[x] = "there"
Fresh(p, q) == [contact |-> p, status |-> "pending", user |-> Nobody, queue |-> q,
                closedAt |-> FALSE]
HasTicket(p) == \E t \in Ids : There(t) /\ row[t].contact = p

(* The migration gives some contacts, those that had a chat, a ticket.     *)
Init ==
  /\ row \in [Ids -> {NotYet} \cup {Fresh(p, Nobody) : p \in People}]
  /\ \A s, t \in Ids : There(s) /\ There(t) /\ s # t => row[s].contact # row[t].contact
  /\ life = [x \in Users \cup Queues |-> "new"]
  /\ member = [u \in Users |-> {}]
  /\ req = [c \in Clients |-> Idle]
  /\ tx = [a \in Admins |-> NoTx]

------------------------------------------------------------------------------
(* Requests on tickets.                                                    *)

(* TicketHandler.Create: the insert fails when the contact has a ticket    *)
(* (a unique constraint) or the queue does not exist (a foreign key).      *)
Create(t, p, q) ==
  /\ row[t] = NotYet /\ ~HasTicket(p) /\ Exists(q)
  /\ row' = [row EXCEPT ![t] = Fresh(p, q)]
  /\ UNCHANGED <<life, member, req, tx>>

Reads(c, t, changed) ==
  /\ req[c] = Idle /\ There(t)
  /\ req' = [req EXCEPT ![c] = [at |-> "write", id |-> t, row |-> changed]]
  /\ UNCHANGED <<row, life, member, tx>>

(* TicketHandler.Update up to the write: the row is read, and the fields   *)
(* of the request set in memory.  Only a status "closed" sets the date.    *)
Updated(r, status, user, queue) ==
  [r EXCEPT !.status = status, !.user = user, !.queue = queue,
            !.closedAt = @ \/ status = "closed"]
Update(c, t) ==
  \E status \in Statuses, user \in Users \cup {Nobody}, queue \in Queues \cup {Nobody} :
    (* a field is given by the request or keeps what was read              *)
    There(t) /\ LET asked == Updated(row[t], status, user, queue)
                    kept == IF status = row[t].status
                              THEN [asked EXCEPT !.closedAt = row[t].closedAt] ELSE asked
                IN Reads(c, t, asked) \/ Reads(c, t, kept)

(* TicketHandler.Accept up to the write: no status is refused, the user is *)
(* optional, and the date of a closed ticket stays.                        *)
Accept(c, t) ==
  \E u \in Users \cup {Nobody} :
    There(t) /\ Reads(c, t, [row[t] EXCEPT !.status = "open",
                                           !.user = IF u = Nobody THEN @ ELSE u])

(* Mutant: a ticket that is gone is inserted again.                        *)
WritesBack(t, r) ==
  row' = IF Exists(r.user) /\ Exists(r.queue) THEN [row EXCEPT ![t] = r] ELSE row

(* TicketRepository.Update: every column of the row read is written.  The  *)
(* statement fails when the user or the queue is gone meanwhile, and       *)
(* changes nothing when the ticket is.                                     *)
Writes(t, r) ==
  row' = IF There(t) /\ Exists(r.user) /\ Exists(r.queue)
           THEN [row EXCEPT ![t] = r] ELSE row
Write(c) ==
  /\ req[c].at = "write"
  /\ Writes(req[c].id, req[c].row)
  /\ req' = [req EXCEPT ![c] = Idle]
  /\ UNCHANGED <<life, member, tx>>

(* Mutant: only the status is written.                                     *)
WithStatusAlone(r, s) == [r EXCEPT !.status = s]

(* TicketRepository.UpdateStatus: one statement, the date set or cleared.  *)
WithStatus(r, s) == [r EXCEPT !.status = s, !.closedAt = s = "closed"]

Changes(c, t, r) ==
  /\ req[c] = Idle
  /\ row' = IF There(t) THEN [row EXCEPT ![t] = r] ELSE row
  /\ req' = [req EXCEPT ![c] = [at |-> "reply", id |-> t]]
  /\ UNCHANGED <<life, member, tx>>
(* TicketHandler.Close and Reopen.                                         *)
Close(c, t) == Changes(c, t, IF There(t) THEN WithStatus(row[t], "closed") ELSE row[t])
Reopen(c, t) == Changes(c, t, IF There(t) THEN WithStatus(row[t], "open") ELSE row[t])

(* TicketHandler.Transfer: both assignments are written, given or not.     *)
Transfer(c, t) ==
  \E u \in Users \cup {Nobody}, q \in Queues \cup {Nobody} :
    /\ Exists(u) /\ Exists(q)
    /\ Changes(c, t, IF There(t) THEN [row[t] EXCEPT !.user = u, !.queue = q] ELSE row[t])

(* The ticket is read for the answer.  A ticket that is not found is nil,  *)
(* and ticketToDTO panics: the server recovers and answers 500.            *)
Reply(c) ==
  /\ req[c].at = "reply"
  /\ req' = [req EXCEPT ![c] = Idle]
  /\ UNCHANGED <<row, life, member, tx>>

(* The client is gone: the context of its request is cancelled.            *)
Leave(c) ==
  /\ req[c] # Idle
  /\ req' = [req EXCEPT ![c] = Idle]
  /\ UNCHANGED <<row, life, member, tx>>

(* TicketHandler.Delete.                                                   *)
Delete(t) ==
  /\ There(t)
  /\ row' = [row EXCEPT ![t] = Deleted]
  /\ UNCHANGED <<life, member, req, tx>>

------------------------------------------------------------------------------
(* Users, queues and the queues of a user.                                 *)

Begun(u, want) ==
  [at |-> "delete", user |-> u, want |-> want, seen |-> member[u], put |-> {}]

(* UserHandler.Create: the user, and then its queues when some are given.  *)
CreateUser(u) ==
  /\ life[u] = "new"
  /\ life' = [life EXCEPT ![u] = "there"]
  /\ UNCHANGED <<row, member, req, tx>>
CreateUserIn(a, u, want) ==
  /\ life[u] = "new" /\ tx[a] = NoTx /\ want # {}
  /\ life' = [life EXCEPT ![u] = "there"]
  /\ tx' = [tx EXCEPT ![a] = Begun(u, want)]
  /\ UNCHANGED <<row, member, req>>

CreateQueue(q) ==
  /\ life[q] = "new"
  /\ life' = [life EXCEPT ![q] = "there"]
  /\ UNCHANGED <<row, member, req, tx>>

(* UserHandler.SetQueues, and Update with a list of queues: the user is    *)
(* looked up, and the transaction begins to delete the rows it sees.       *)
SetQueues(a, u, want) ==
  /\ life[u] = "there" /\ tx[a] = NoTx
  /\ tx' = [tx EXCEPT ![a] = Begun(u, want)]
  /\ UNCHANGED <<row, life, member, req>>

(* The rows a transaction has deleted or inserted are locked until it ends.*)
Locked(a, u) ==
  IF tx[a].user = u /\ tx[a].at \in {"insert", "commit"} THEN tx[a].seen \cup tx[a].put
  ELSE {}
FreeOf(a, u, rows) == \A b \in Admins \ {a} : Locked(b, u) \cap rows = {}

(* QueueRepository.SetUserQueues.  The delete waits for the rows that      *)
(* another one has locked and skips those that are gone by then; rows      *)
(* inserted after it began it does not see.                                *)
DeleteRows(a) ==
  LET u == tx[a].user IN
  /\ tx[a].at = "delete" /\ FreeOf(a, u, tx[a].seen \cap member[u])
  /\ tx' = [tx EXCEPT ![a].at = "insert", ![a].seen = @ \cap member[u]]
  /\ UNCHANGED <<row, life, member, req>>

(* An insert waits for the same row of another transaction, and fails, so  *)
(* that the transaction is rolled back, when the row exists or when the    *)
(* user or the queue does not.                                             *)
Insertable(u, want, kept) ==
  want = {} \/ (life[u] = "there" /\ (\A q \in want : life[q] = "there") /\ want \cap kept = {})
InsertRows(a) ==
  LET u == tx[a].user IN
  /\ tx[a].at = "insert" /\ FreeOf(a, u, tx[a].want)
  /\ tx' = [tx EXCEPT ![a] =
              IF Insertable(u, @.want, member[u] \ @.seen)
                THEN [@ EXCEPT !.at = "commit", !.put = tx[a].want] ELSE NoTx]
  /\ UNCHANGED <<row, life, member, req>>

Commit(a) ==
  LET u == tx[a].user IN
  /\ tx[a].at = "commit"
  /\ member' = [member EXCEPT ![u] = (@ \ tx[a].seen) \cup tx[a].put]
  /\ tx' = [tx EXCEPT ![a] = NoTx]
  /\ UNCHANGED <<row, life, req>>

Rollback(a) ==
  /\ tx[a] # NoTx
  /\ tx' = [tx EXCEPT ![a] = NoTx]
  /\ UNCHANGED <<row, life, member, req>>

(* Mutant: only the queue of a ticket is cleared.                          *)
ClearedQueue(x) ==
  [t \in Ids |-> IF There(t) /\ row[t].queue = x THEN [row[t] EXCEPT !.queue = Nobody]
                 ELSE row[t]]

(* Users and queues are deleted with the rows that refer to them (the      *)
(* queues of a user), or cleared from them (the assignment of a ticket).   *)
Cleared(x) ==
  [t \in Ids |-> IF There(t)
                   THEN [row[t] EXCEPT !.user = IF @ = x THEN Nobody ELSE @,
                                       !.queue = IF @ = x THEN Nobody ELSE @]
                   ELSE row[t]]
DeleteUser(u) ==
  /\ life[u] = "there" /\ \A a \in Admins : Locked(a, u) = {}
  /\ life' = [life EXCEPT ![u] = "deleted"]
  /\ member' = [member EXCEPT ![u] = {}]
  /\ row' = Cleared(u)
  /\ UNCHANGED <<req, tx>>
DeleteQueue(q) ==
  /\ life[q] = "there" /\ \A a \in Admins, u \in Users : q \notin Locked(a, u)
  /\ life' = [life EXCEPT ![q] = "deleted"]
  /\ member' = [u \in Users |-> member[u] \ {q}]
  /\ row' = Cleared(q)
  /\ UNCHANGED <<req, tx>>

------------------------------------------------------------------------------
OnTicket(c, t) ==
  Update(c, t) \/ Accept(c, t) \/ Close(c, t) \/ Reopen(c, t) \/ Transfer(c, t)
OnRequest(c) == Write(c) \/ Reply(c) \/ Leave(c)
OnQueues(a) == DeleteRows(a) \/ InsertRows(a) \/ Commit(a) \/ Rollback(a)

Next ==
  \/ \E t \in Ids, p \in People, q \in Queues \cup {Nobody} : Create(t, p, q)
  \/ \E t \in Ids : Delete(t)
  \/ \E c \in Clients, t \in Ids : OnTicket(c, t)
  \/ \E c \in Clients : OnRequest(c)
  \/ \E a \in Admins, u \in Users, want \in SUBSET Queues :
       CreateUserIn(a, u, want) \/ SetQueues(a, u, want)
  \/ \E a \in Admins : OnQueues(a)
  \/ \E q \in Queues : CreateQueue(q) \/ DeleteQueue(q)
  \/ \E u \in Users : CreateUser(u) \/ DeleteUser(u)

Spec == Init /\ [][Next]_vars

------------------------------------------------------------------------------
(* Properties.                                                             *)

(* A closed ticket has the date on which it was closed, whichever of the   *)
(* writers came last, those that write a row read earlier included.        *)
ClosedHasDate == \A t \in Ids : row[t].status = "closed" => row[t].closedAt

(* No ticket is assigned to a user or a queue that does not exist, and no  *)
(* such user or queue has memberships: not when a row read before the      *)
(* deletion is written after it, nor when a list of queues is.             *)
NothingDangles ==
  /\ \A t \in Ids : There(t) => Exists(row[t].user) /\ Exists(row[t].queue)
  /\ \A u \in Users : \A q \in member[u] : life[u] = "there" /\ life[q] = "there"

(* The rows of the desk agree with each other, whoever wrote them last.    *)
RowsAgree == ClosedHasDate /\ NothingDangles

(* A deleted ticket stays deleted: a writer that had read it before does   *)
(* not bring it back.                                                      *)
DeletedStaysDeleted ==
  [][\A t \in Ids : row[t] = Deleted => row'[t] = Deleted]_vars
==============================================================================
