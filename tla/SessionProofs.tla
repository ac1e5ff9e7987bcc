---------------------------- MODULE SessionProofs ----------------------------
(***************************************************************************)
(* For any callers, objects, pairings, losses and crashes: every variable  *)
(* keeps its type, a session the service answers for has a row, a login    *)
(* ends recorded, and a session that is "connecting" is attended.  For the *)
(* second, whoever is about to unlink, forget or drop the session holds    *)
(* the service's lock, and the map is empty when the row is dropped; a     *)
(* creation needs the lock free.  For the third, as long as nothing ended  *)
(* the session, one object exists at a time and every write under way      *)
(* holds the device it has.                                                *)
(***************************************************************************)
EXTENDS Session, TLAPS

USE SessionAssumption

IsCall(r) == r = [pc |-> r.pc, op |-> r.op, obj |-> r.obj]
Locked == {"unlink", "forget", "drop"}
Shapes ==
  /\ row = [there |-> row.there, jid |-> row.jid]
  /\ call = [c \in Threads |-> call[c]] /\ \A c \in Threads : IsCall(call[c])
HoldsLock == \A c \in Threads : call[c].pc \in Locked => mu = c
DropsForgotten == \A c \in Threads : call[c].pc = "drop" => mem = 0
DownIsIdle == ~up => \A c \in Threads : call[c].pc = "idle"
IInv == Shapes /\ HoldsLock /\ DropsForgotten /\ DownIsIdle /\ MemoryHasRow

LEMMA Initial == Init => IInv
<1> SUFFICES ASSUME Init PROVE IInv
  OBVIOUS
<1>1. Shapes
  BY DEF Init, Shapes, IsCall, Idle
<1>2. HoldsLock /\ DropsForgotten /\ DownIsIdle /\ MemoryHasRow
  BY DEF Init, HoldsLock, DropsForgotten, DownIsIdle, MemoryHasRow, Idle, Locked
<1> QED
  BY <1>1, <1>2 DEF IInv

(* Steps that change no call, nor what is there.                           *)
RowStays == row'.there = row.there /\ row' = [there |-> row'.there, jid |-> row'.jid]

LEMMA CalmStep ==
  ASSUME IInv, UNCHANGED <<up, mem, mu, call>>, RowStays
  PROVE  IInv'
<1>1. Shapes'
  BY DEF IInv, Shapes, RowStays
<1>2. HoldsLock' /\ DropsForgotten' /\ DownIsIdle' /\ MemoryHasRow'
  BY DEF IInv, RowStays, HoldsLock, DropsForgotten, DownIsIdle, MemoryHasRow
<1> QED
  BY <1>1, <1>2 DEF IInv

(* Steps of one call that leave the map, the lock and the row there.       *)
LEMMA CallStep ==
  ASSUME IInv, UNCHANGED <<up, mem, mu>>, RowStays,
         NEW c \in Threads, NEW r, IsCall(r), call' = [call EXCEPT ![c] = r],
         up \/ call[c].pc # "idle",
         r.pc # "drop", r.pc \in Locked => call[c].pc \in Locked
  PROVE  IInv'
<1>1. \A d \in Threads : call'[d] = IF d = c THEN r ELSE call[d]
  BY DEF IInv, Shapes
<1>2. Shapes'
  BY <1>1 DEF IInv, Shapes, RowStays
<1>3. HoldsLock'
  BY <1>1 DEF IInv, HoldsLock
<1>4. DropsForgotten'
  BY <1>1 DEF IInv, DropsForgotten
<1>5. DownIsIdle' /\ MemoryHasRow'
  BY <1>1 DEF IInv, DownIsIdle, MemoryHasRow, RowStays
<1> QED
  BY <1>2, <1>3, <1>4, <1>5 DEF IInv

LEMMA StoreStays == ASSUME IInv, row' = row PROVE RowStays
  BY DEF IInv, Shapes, RowStays
LEMMA Updates == ASSUME IInv, NEW jid, UpdateJID(jid) PROVE RowStays
<1>1. CASE row' = [row EXCEPT !.jid = IF row.there THEN jid ELSE @]
  BY <1>1 DEF IInv, Shapes, RowStays
<1> QED
  BY <1>1, StoreStays DEF UpdateJID

LEMMA GotoIs ==
  ASSUME IInv, NEW c \in Threads, NEW pc, Goto(c, pc)
  PROVE  \E r : IsCall(r) /\ r.pc = pc /\ call' = [call EXCEPT ![c] = r]
<1> DEFINE r == [call[c] EXCEPT !.pc = pc]
<1>1. IsCall(r) /\ r.pc = pc
  BY DEF IInv, Shapes, IsCall
<1>2. call' = [call EXCEPT ![c] = r]
  BY DEF Goto
<1> QED
  BY <1>1, <1>2
LEMMA ReturnIs ==
  ASSUME NEW c \in Threads, Return(c)
  PROVE  \E r : IsCall(r) /\ r.pc = "idle" /\ call' = [call EXCEPT ![c] = r]
<1>1. IsCall(Idle) /\ Idle.pc = "idle"
  BY DEF IsCall, Idle
<1> QED
  BY <1>1 DEF Return

(* A call goes on or returns, without the lock or still with it.           *)
LEMMA Goes ==
  ASSUME IInv, UNCHANGED <<up, mem, mu>>, RowStays, NEW c \in Threads,
         call[c].pc # "idle",
         \/ Return(c)
         \/ \E pc : Goto(c, pc) /\ pc # "drop" /\ (pc \in Locked => call[c].pc \in Locked)
  PROVE  IInv'
<1>1. PICK r : /\ IsCall(r) /\ r.pc # "drop" /\ call' = [call EXCEPT ![c] = r]
               /\ r.pc \in Locked => call[c].pc \in Locked
  <2>1. CASE Return(c)
    BY <2>1, ReturnIs DEF Locked
  <2>2. CASE \E pc : Goto(c, pc) /\ pc # "drop" /\ (pc \in Locked => call[c].pc \in Locked)
    BY <2>2, GotoIs
  <2> QED
    BY <2>1, <2>2
<1> QED
  BY <1>1, CallStep

------------------------------------------------------------------------------
LEMMA SetsUp == ASSUME IInv, NEW c \in Threads, SetUp(c) PROVE IInv'
<1>1. UNCHANGED <<up, mem, mu>> /\ row' = row /\ call[c].pc # "idle"
  BY DEF SetUp, Begin, SetFlag, AddEventHandler, store
<1>2. Goto(c, "go") \/ Goto(c, "set") \/ Goto(c, "add")
  BY DEF SetUp, Begin, SetFlag, AddEventHandler
<1> QED
  BY <1>1, <1>2, StoreStays, Goes DEF Locked

LEMMA Dials == ASSUME IInv, NEW c \in Threads, Dial(c) \/ DisconnectDone(c) PROVE IInv'
<1>1. UNCHANGED <<up, mem, mu>> /\ row' = row /\ call[c].pc # "idle"
  BY DEF Dial, GoWithQR, GoPanics, Go, Redial, Report, DisconnectDone, store
<1>2. Return(c) \/ Goto(c, "report")
  BY DEF Dial, GoWithQR, GoPanics, Go, Redial, Report, DisconnectDone
<1> QED
  BY <1>1, <1>2, StoreStays, Goes DEF Locked

LEMMA LogsOut == ASSUME IInv, NEW c \in Threads, LogoutStep(c) PROVE IInv'
<1>1. UNCHANGED <<up, mem, mu>> /\ call[c].pc # "idle"
  BY DEF LogoutStep, LogoutSend, LogoutClear, LogoutReset
<1>2. Return(c) \/ Goto(c, "clear") \/ Goto(c, "reset")
  BY DEF LogoutStep, LogoutSend, LogoutClear, LogoutReset
<1>3. RowStays
  BY StoreStays, Updates DEF LogoutStep, LogoutSend, LogoutClear, LogoutReset, store
<1> QED
  BY <1>1, <1>2, <1>3, Goes DEF Locked

LEMMA Unlinks == ASSUME IInv, NEW c \in Threads, DeleteUnlink(c) PROVE IInv'
<1>1. UNCHANGED <<up, mem, mu>> /\ row' = row /\ call[c].pc = "unlink" /\ Goto(c, "forget")
  BY DEF DeleteUnlink
<1> QED
  BY <1>1, StoreStays, Goes DEF Locked

(* The deletion forgets the session,                                       *)
LEMMA Forgets == ASSUME IInv, NEW c \in Threads, DeleteForget(c) PROVE IInv'
<1>1. /\ UNCHANGED <<up, mu>> /\ row' = row /\ mem' = 0
      /\ call[c].pc = "forget" /\ Goto(c, "drop")
  BY DEF DeleteForget, store
<1>2. PICK r : IsCall(r) /\ r.pc = "drop" /\ call' = [call EXCEPT ![c] = r]
  BY <1>1, GotoIs
<1>3. \A d \in Threads : call'[d] = IF d = c THEN r ELSE call[d]
  BY <1>2 DEF IInv, Shapes
<1>4. Shapes'
  BY <1>1, <1>2, <1>3 DEF IInv, Shapes
<1>5. HoldsLock'
  BY <1>1, <1>2, <1>3 DEF IInv, HoldsLock, Locked
<1>6. DropsForgotten' /\ DownIsIdle' /\ MemoryHasRow'
  BY <1>1, <1>2, <1>3 DEF IInv, DropsForgotten, DownIsIdle, MemoryHasRow
<1> QED
  BY <1>4, <1>5, <1>6 DEF IInv

(* and frees the lock when the row is dropped: nobody else is at it.       *)
LEMMA Drops == ASSUME IInv, NEW c \in Threads, DeleteRow(c) PROVE IInv'
<1>1. /\ UNCHANGED <<up, mem>> /\ call[c].pc = "drop" /\ Return(c)
      /\ row' = [there |-> FALSE, jid |-> Blank] \/ row' = row
  BY DEF DeleteRow
<1>2. PICK r : IsCall(r) /\ r.pc = "idle" /\ call' = [call EXCEPT ![c] = r]
  BY <1>1, ReturnIs
<1>3. \A d \in Threads : call'[d] = IF d = c THEN r ELSE call[d]
  BY <1>2 DEF IInv, Shapes
<1>4. mem = 0 /\ mu = c
  BY <1>1 DEF IInv, DropsForgotten, HoldsLock, Locked
<1>5. Shapes'
  BY <1>1, <1>2, <1>3 DEF IInv, Shapes
<1>6. HoldsLock'
  BY <1>2, <1>3, <1>4 DEF IInv, HoldsLock, Locked
<1>7. DropsForgotten' /\ DownIsIdle' /\ MemoryHasRow'
  BY <1>1, <1>2, <1>3, <1>4 DEF IInv, DropsForgotten, DownIsIdle, MemoryHasRow
<1> QED
  BY <1>5, <1>6, <1>7 DEF IInv

------------------------------------------------------------------------------
(* Requests.                                                               *)

LEMMA Creates == ASSUME IInv, NEW c \in Callers, Create(c) PROVE IInv'
<1>1. /\ UNCHANGED <<up, call, mu>> /\ mu = Nobody
      /\ row' = [there |-> TRUE, jid |-> IF row.there THEN row.jid ELSE Blank]
  BY DEF Create, Arrives
<1>2. \A d \in Threads : call[d].pc \notin Locked
  BY <1>1 DEF IInv, HoldsLock
<1>3. Shapes' /\ MemoryHasRow'
  BY <1>1 DEF IInv, Shapes, MemoryHasRow
<1>4. HoldsLock' /\ DropsForgotten' /\ DownIsIdle'
  BY <1>1, <1>2 DEF IInv, HoldsLock, DropsForgotten, DownIsIdle, Locked
<1> QED
  BY <1>3, <1>4 DEF IInv

LEMMA Asks ==
  ASSUME IInv, NEW c \in Callers, Connect(c) \/ Disconnect(c) \/ Restart(c) \/ Logout(c)
  PROVE  IInv'
<1>1. UNCHANGED <<up, mem, mu>> /\ row' = row /\ up
  BY DEF Connect, Disconnect, Restart, Logout, OnSession, Arrives, store
<1>2. PICK pc, op :
        /\ pc \in {"begin", "down", "redial", "logout", "clear"}
        /\ call' = [call EXCEPT ![c] = [pc |-> pc, op |-> op, obj |-> mem]]
  BY DEF Connect, Disconnect, Restart, Logout, OnSession
<1>3. IsCall([pc |-> pc, op |-> op, obj |-> mem])
  BY DEF IsCall
<1>4. c \in Threads
  BY DEF Threads
<1> DEFINE r == [pc |-> pc, op |-> op, obj |-> mem]
<1>5. r.pc = pc /\ IsCall(r) /\ call' = [call EXCEPT ![c] = r]
  BY <1>2, <1>3
<1> HIDE DEF r
<1> QED
  BY <1>1, <1>2, <1>4, <1>5, StoreStays, CallStep DEF Locked

LEMMA Deletes == ASSUME IInv, NEW c \in Callers, Delete(c) PROVE IInv'
<1>1. /\ UNCHANGED <<up, mem>> /\ row' = row /\ up /\ mu = Nobody /\ mu' = c
  BY DEF Delete, Arrives, store
<1>2. PICK pc, obj : /\ call' = [call EXCEPT ![c] = [pc |-> pc, op |-> "delete", obj |-> obj]]
                     /\ pc = "drop" => mem = 0
  BY DEF Delete
<1> DEFINE r == [pc |-> pc, op |-> "delete", obj |-> obj]
<1>3. IsCall(r) /\ r.pc = pc /\ call' = [call EXCEPT ![c] = r]
  BY <1>2 DEF IsCall
<1> HIDE DEF r
<1>4. c \in Threads /\ \A d \in Threads : call[d].pc \notin Locked
  BY <1>1 DEF IInv, HoldsLock, Threads
<1>5. \A d \in Threads : call'[d] = IF d = c THEN r ELSE call[d]
  BY <1>3, <1>4 DEF IInv, Shapes
<1>6. Shapes'
  BY <1>1, <1>3, <1>4, <1>5 DEF IInv, Shapes
<1>7. HoldsLock' /\ DownIsIdle' /\ MemoryHasRow'
  BY <1>1, <1>4, <1>5 DEF IInv, HoldsLock, DownIsIdle, MemoryHasRow
<1>8. DropsForgotten'
  BY <1>1, <1>2, <1>3, <1>4, <1>5 DEF IInv, DropsForgotten, Locked
<1> QED
  BY <1>6, <1>7, <1>8 DEF IInv

------------------------------------------------------------------------------
(* QR codes, the client library, the handlers of events.                   *)

LEMMA Scans == ASSUME IInv, NEW c \in Callers, Scan(c) \/ Codes(c) PROVE IInv'
<1>1. UNCHANGED <<up, mem, mu, call>>
  BY DEF Scan, ScanOpen, ScanDial, ScanCode, ScanSuccess, ScanWrite, ScanTimeout, ScanError,
         Codes, EmitCode, EmitTimeout, EmitError
<1>2. row' = row \/ \E jid : UpdateJID(jid)
  BY DEF Scan, ScanOpen, ScanDial, ScanCode, ScanSuccess, ScanWrite, ScanTimeout, ScanError,
         Codes, EmitCode, EmitTimeout, EmitError, store
<1> QED
  BY <1>1, <1>2, StoreStays, Updates, CalmStep

LEMMA Connections ==
  ASSUME IInv, NEW o \in Object,
         Answer(o) \/ PairSuccess(o) \/ Lose(o) \/ AutoReconnect(o) \/ Handle(o)
  PROVE  IInv'
<1>1. UNCHANGED <<up, mem, mu, call>>
  BY DEF Answer, Authenticate, Refuse, Unlink, PairSuccess, Lose, AutoReconnect,
         Handle, HandleConnected, HandleDown, HandleLoggedOut, HandlerWrites
<1>2. row' = row \/ \E jid : UpdateJID(jid)
  BY DEF Answer, Authenticate, Refuse, Unlink, PairSuccess, Lose, AutoReconnect,
         Handle, HandleConnected, HandleDown, HandleLoggedOut, HandlerWrites, store
<1> QED
  BY <1>1, <1>2, StoreStays, Updates, CalmStep

------------------------------------------------------------------------------
(* The process.                                                            *)

LEMMA Loads == ASSUME IInv, Load PROVE IInv'
<1>1. ~up /\ up' /\ row' = row /\ mu' = mu
  BY DEF Load, store
<1>2. \A c \in Threads : call[c].pc = "idle"
  BY <1>1 DEF IInv, DownIsIdle
<1>3. CASE UNCHANGED <<mem, call>>
  BY <1>1, <1>2, <1>3 DEF IInv, Shapes, HoldsLock, DropsForgotten, DownIsIdle, MemoryHasRow
<1>4. CASE row.there
  <2>1. MemoryHasRow'
    BY <1>1, <1>4 DEF MemoryHasRow
  <2> DEFINE r == [pc |-> "begin", op |-> "reconnect", obj |-> 1]
  <2>2. call' = call \/ call' = [call EXCEPT ![Boot] = r]
    BY DEF Load
  <2>3. IsCall(r) /\ r.pc = "begin"
    BY DEF IsCall
  <2> HIDE DEF r
  <2>4. \A c \in Threads : call'[c] = call[c] \/ call'[c] = r
    BY <2>2 DEF IInv, Shapes
  <2>5. Shapes'
    BY <1>1, <2>2, <2>3, <2>4 DEF IInv, Shapes
  <2>6. HoldsLock' /\ DropsForgotten' /\ DownIsIdle'
    BY <1>1, <1>2, <2>3, <2>4 DEF HoldsLock, DropsForgotten, DownIsIdle, Locked
  <2> QED
    BY <2>1, <2>5, <2>6 DEF IInv
<1> QED
  BY <1>3, <1>4 DEF Load

LEMMA Crashes == ASSUME IInv, Crash PROVE IInv'
<1>1. /\ mem' = 0 /\ call' = [c \in Threads |-> Idle] /\ row' = row
      /\ IsCall(Idle) /\ Idle.pc = "idle"
  BY DEF Crash, IsCall, Idle, store
<1>2. Shapes'
  BY <1>1 DEF IInv, Shapes
<1>3. HoldsLock' /\ DropsForgotten' /\ DownIsIdle' /\ MemoryHasRow'
  BY <1>1 DEF HoldsLock, DropsForgotten, DownIsIdle, MemoryHasRow, Locked
<1> QED
  BY <1>2, <1>3 DEF IInv

LEMMA Inductive == IInv /\ [Next]_vars => IInv'
<1> SUFFICES ASSUME IInv, [Next]_vars PROVE IInv'
  OBVIOUS
<1>1. CASE Load \/ Crash
  BY <1>1, Loads, Crashes
<1>2. CASE \E c \in Threads : Step(c)
  BY <1>2, SetsUp, Dials, LogsOut, Unlinks, Forgets, Drops DEF Step, DeleteStep
<1>3. CASE \E c \in Callers : Request(c)
  BY <1>3, Creates, Asks, Deletes DEF Request
<1>4. CASE \E c \in Callers : Scan(c) \/ Codes(c)
  BY <1>4, Scans
<1>5. CASE \E o \in Object :
            Answer(o) \/ PairSuccess(o) \/ Lose(o) \/ AutoReconnect(o) \/ Handle(o)
  BY <1>5, Connections
<1>6. CASE UNCHANGED vars
  BY <1>6, StoreStays, CalmStep DEF vars, store
<1> QED
  BY <1>1, <1>2, <1>3, <1>4, <1>5, <1>6 DEF Next

(* A session the service answers for has a row (SessionService.Create and  *)
(* Delete): no creation lands between the two halves of a deletion.        *)
THEOREM SessionsHaveRows == Spec => []MemoryHasRow
<1>1. IInv => MemoryHasRow
  BY DEF IInv
<1> QED
  BY <1>1, Initial, Inductive, PTL DEF Spec
------------------------------------------------------------------------------
(* Types, variable by variable.                                            *)

Statuses == {"disconnected", "connecting", "connected"}
Sess == [status : Statuses, qr : BOOLEAN, set : BOOLEAN, handlers : Nat,
         dev : {NilDevice, Blank} \cup Device, lapsed : BOOLEAN]
Pcs == {"idle", "begin", "set", "add", "go", "down", "logout", "clear", "reset", "redial",
        "report", "unlink", "forget", "drop"}
CallState == [pc : Pcs, op : Ops \cup {"none", "reconnect"}, obj : 0 .. MaxObjects]
Items == {"code", "success", "timeout", "error"}
ScanRecord == [pc : {"off", "open", "dial", "wait", "write"}, obj : 0 .. MaxObjects,
               items : Seq(Items), jid : {None} \cup Device]
ScanState == {r \in ScanRecord : r.pc = "write" => r.jid \in Device}
News == {"connected", "down", "logged_out"}
Conns == {"off", "pairing", "login", "in", "deaf", "lost"}

StoreType == row \in [there : BOOLEAN, jid : {Blank} \cup Device] /\ devices \subseteq Device
SessionType == session \in [Object -> Sess]
ConnType == conn \in [Object -> Conns]
EventsType ==
  events \in [Object -> Seq(News)] /\ \A o \in Object : writing[o] # None => events[o] # <<>>
WritingType == writing \in [Object -> {None, Blank} \cup Device]
CallType == call \in [Threads -> CallState]
ScanType == scan \in [Callers -> ScanState]
CountsType ==
  /\ up \in BOOLEAN /\ ended \in BOOLEAN /\ mu \in Callers \cup {Nobody}
  /\ mem \in 0 .. MaxObjects /\ made \in 0 .. MaxObjects
  /\ paired \in 0 .. MaxPairings /\ losses \in 0 .. MaxLosses /\ crashes \in 0 .. MaxCrashes

(* TypeOK; a QR loop about to write has a device to write, and a handler    *)
(* that writes still has its event.                                         *)
Types == /\ StoreType /\ SessionType /\ ConnType /\ EventsType /\ WritingType
         /\ CallType /\ ScanType /\ CountsType

LEMMA Typed == Types => TypeOK
BY DEF Types, TypeOK, StoreType, SessionType, ConnType, EventsType, WritingType, CallType,
       ScanType, CountsType, Sess, Statuses, Conns, News, CallState, Pcs, ScanState, ScanRecord,
       Items

SameDevs == \A o \in Object : session'[o].dev = session[o].dev

(* An update of one object that keeps its device.                          *)
LEMMA SessionSet ==
  ASSUME SessionType, NEW o, NEW r, session' = [session EXCEPT ![o] = r],
         o \in Object => r \in Sess
  PROVE  /\ SessionType'
         /\ (o \in Object => r.dev = session[o].dev) => SameDevs
BY DEF SessionType, SameDevs

LEMMA StatusSet ==
  ASSUME SessionType, NEW o, NEW s \in Statuses, Status(o, s) \/ StatusQR(o, s)
  PROVE  SessionType' /\ SameDevs
<1> DEFINE r == [session[o] EXCEPT !.status = s]
           q == [session[o] EXCEPT !.status = s, !.qr = FALSE]
<1>1. o \in Object => /\ r \in Sess /\ r.dev = session[o].dev
                      /\ q \in Sess /\ q.dev = session[o].dev
  BY DEF SessionType, Sess
<1>2. session' = [session EXCEPT ![o] = r] \/ session' = [session EXCEPT ![o] = q]
  BY DEF Status, StatusQR
<1> HIDE DEF r, q
<1> QED
  BY <1>1, <1>2, SessionSet

LEMMA SessionKept == ASSUME SessionType, session' = session PROVE SessionType' /\ SameDevs
BY DEF SessionType, SameDevs

LEMMA CallSet ==
  ASSUME CallType, NEW c \in Threads, NEW r \in CallState, call' = [call EXCEPT ![c] = r]
  PROVE  CallType'
BY DEF CallType

LEMMA GotoSet ==
  ASSUME CallType, NEW c \in Threads, NEW pc \in Pcs, Goto(c, pc)
  PROVE  /\ CallType'
         /\ call'[c].pc = pc /\ call'[c].obj = call[c].obj
         /\ \A d \in Threads \ {c} : call'[d] = call[d]
<1> DEFINE r == [call[c] EXCEPT !.pc = pc]
<1>1. r \in CallState /\ r.pc = pc /\ r.obj = call[c].obj
  BY DEF CallType, CallState
<1>2. call' = [call EXCEPT ![c] = r]
  BY DEF Goto
<1> HIDE DEF r
<1> QED
  BY <1>1, <1>2, CallSet DEF CallType

LEMMA ReturnSet ==
  ASSUME CallType, NEW c \in Threads, Return(c)
  PROVE  CallType' /\ call'[c].pc = "idle" /\ \A d \in Threads \ {c} : call'[d] = call[d]
<1>1. Idle \in CallState /\ Idle.pc = "idle"
  BY DEF Idle, CallState, Pcs
<1> QED
  BY <1>1, CallSet DEF Return, CallType

LEMMA ScanSet ==
  ASSUME ScanType, NEW c \in Callers, NEW r \in ScanState, scan' = [scan EXCEPT ![c] = r]
  PROVE  ScanType' /\ scan'[c] = r /\ \A d \in Callers \ {c} : scan'[d] = scan[d]
BY DEF ScanType

LEMMA NoScanIs == NoScan \in ScanState /\ NoScan.pc = "off"
<1>1. << >> \in Seq(Items)
  OBVIOUS
<1> QED
  BY <1>1 DEF NoScan, ScanState, ScanRecord

LEMMA ConnSet ==
  ASSUME ConnType, NEW o, NEW s \in Conns, conn' = [conn EXCEPT ![o] = s]
  PROVE  /\ ConnType' /\ (o \in Object => conn'[o] = s)
         /\ \A n \in Object \ {o} : conn'[n] = conn[n]
BY DEF ConnType

LEMMA HangUpSet ==
  ASSUME ConnType, NEW o, HangUp(o)
  PROVE  ConnType' /\ \A n \in Object : conn'[n] = conn[n] \/ (n = o /\ conn'[n] = "off")
BY DEF ConnType, HangUp, Conns

LEMMA ConnectSet ==
  ASSUME ConnType, NEW o, ConnectOk(o) \/ ConnectFails
  PROVE  /\ ConnType'
         /\ \A n \in Object : \/ conn'[n] = conn[n]
                              \/ n = o /\ conn'[n] = "pairing"
                              \/ n = o /\ conn'[n] = "login" /\ HasCredentials(o)
BY DEF ConnType, ConnectOk, ConnectFails, Conns

(* Events of an object arrive and are handled.                             *)
LEMMA DispatchSet ==
  ASSUME EventsType, NEW o \in Object, NEW e \in News, Dispatch(o, e), writing' = writing
  PROVE  /\ EventsType' /\ \A n \in Object \ {o} : events'[n] = events[n]
         /\ events'[o] = Append(events[o], e) \/ events'[o] = events[o]
         /\ session[o].handlers > 0 => events'[o] = Append(events[o], e)
<1>1. /\ events[o] \in Seq(News) /\ Append(events[o], e) \in Seq(News)
      /\ Append(events[o], e) # <<>>
  <2>1. events[o] \in Seq(News)
    BY DEF EventsType
  <2>2. Append(events[o], e) \in Seq(News) /\ Len(Append(events[o], e)) = Len(events[o]) + 1
    BY <2>1
  <2>3. Len(events[o]) \in Nat /\ Len(<<>>) = 0
    BY <2>1
  <2> QED
    BY <2>1, <2>2, <2>3
<1> DEFINE q == Append(events[o], e)
<1>2. events' = [events EXCEPT ![o] = q] \/ events' = events
  BY DEF Dispatch
<1>3. session[o].handlers > 0 => events' = [events EXCEPT ![o] = q]
  BY DEF Dispatch
<1>4. q \in Seq(News) /\ q # <<>> /\ q = Append(events[o], e)
  BY <1>1
<1> HIDE DEF q
<1> QED
  BY <1>2, <1>3, <1>4 DEF EventsType

LEMMA EventDoneSet ==
  ASSUME EventsType, WritingType, NEW o \in Object, events[o] # <<>>, EventDone(o),
         \/ writing' = writing /\ writing[o] = None
         \/ writing' = [writing EXCEPT ![o] = None]
  PROVE  /\ EventsType' /\ \A n \in Object \ {o} : events'[n] = events[n]
         /\ events'[o] = Tail(events[o])
<1>1. Tail(events[o]) \in Seq(News)
  BY DEF EventsType
<1> DEFINE q == Tail(events[o])
<1>2. events' = [events EXCEPT ![o] = q]
  BY DEF EventDone
<1> HIDE DEF q
<1> QED
  BY <1>1, <1>2 DEF EventsType, WritingType, q

(* What the library shows to a QR loop moves no loop.                      *)
LEMMA EmitSet ==
  ASSUME ScanType, NEW o, NEW i \in Items, Emit(o, i)
  PROVE  /\ ScanType'
         /\ \A c \in Callers : /\ scan'[c].pc = scan[c].pc /\ scan'[c].obj = scan[c].obj
                               /\ scan'[c].jid = scan[c].jid
<1>1. ASSUME NEW c \in Callers
      PROVE  /\ scan'[c] \in ScanState
             /\ scan'[c].pc = scan[c].pc /\ scan'[c].obj = scan[c].obj
             /\ scan'[c].jid = scan[c].jid
  <2>1. scan[c] \in ScanState /\ scan[c].items \in Seq(Items)
    BY DEF ScanType, ScanState, ScanRecord
  <2> DEFINE q == Append(scan[c].items, i)
             r == [scan[c] EXCEPT !.items = q]
  <2>2. q \in Seq(Items)
    BY <2>1
  <2>3. scan'[c] = IF Open(c, o) THEN r ELSE scan[c]
    BY DEF Emit
  <2> HIDE DEF q
  <2>4. r \in ScanState /\ r.pc = scan[c].pc /\ r.obj = scan[c].obj /\ r.jid = scan[c].jid
    BY <2>1, <2>2 DEF ScanState, ScanRecord
  <2> HIDE DEF r
  <2> QED
    BY <2>1, <2>3, <2>4
<1>2. scan' = [c \in Callers |-> scan'[c]]
  BY DEF Emit
<1> QED
  BY <1>1, <1>2 DEF ScanType

(* What steps leave alone keeps its type.                                  *)
LEMMA Unchanged ==
  ASSUME Types
  PROVE  /\ (UNCHANGED store => StoreType') /\ (UNCHANGED session => SessionType')
         /\ (UNCHANGED conn => ConnType') /\ (UNCHANGED <<events, writing>> => EventsType')
         /\ (UNCHANGED writing => WritingType') /\ (UNCHANGED call => CallType')
         /\ (UNCHANGED scan => ScanType')
         /\ (UNCHANGED <<up, ended, mu, mem, made, counts>> => CountsType')
BY DEF Types, StoreType, SessionType, ConnType, EventsType, WritingType, CallType, ScanType,
   CountsType, store, counts

LEMMA UpdateSet ==
  ASSUME StoreType, NEW jid \in {Blank} \cup Device, UpdateJID(jid), devices' = devices
  PROVE  StoreType' /\ (row'.jid = row.jid \/ row'.jid = jid)
         /\ (row.there /\ ~DBFaults => row'.jid = jid)
BY DEF StoreType, UpdateJID

LEMMA TSetsUp == ASSUME Types, NEW c \in Threads, SetUp(c) PROVE Types'
<1> DEFINE o == call[c].obj
<1>1. /\ StoreType' /\ ConnType' /\ EventsType' /\ WritingType' /\ ScanType' /\ CountsType'
  BY Unchanged DEF SetUp, Begin, SetFlag, AddEventHandler, client, store, counts
<1>2. CallType'
  <2>1. PICK pc \in {"go", "set", "add"} : Goto(c, pc)
    BY DEF SetUp, Begin, SetFlag, AddEventHandler
  <2> QED
    BY <2>1, GotoSet DEF Types, Pcs
<1>3. SessionType'
  <2> DEFINE f == [session[o] EXCEPT !.set = TRUE]
             h == [session[o] EXCEPT !.handlers = @ + 1]
  <2>1. o \in Object => f \in Sess
    BY DEF Types, SessionType, Sess
  <2>3. o \in Object => h \in Sess
    <3>1. o \in Object => session[o] \in Sess /\ session[o].handlers + 1 \in Nat
      BY DEF Types, SessionType, Sess
    <3>2. o \in Object => h = [session[o] EXCEPT !.handlers = session[o].handlers + 1]
      BY <3>1
    <3> QED
      BY <3>1, <3>2 DEF Sess
  <2>2. \/ Status(o, "connecting")
        \/ session' = session
        \/ session' = [session EXCEPT ![o] = f]
        \/ session' = [session EXCEPT ![o] = h]
    BY DEF SetUp, Begin, SetFlag, AddEventHandler
  <2> HIDE DEF o, f, h
  <2> QED
    BY <2>1, <2>2, <2>3, StatusSet, SessionSet, SessionKept DEF Types, Statuses
<1> QED
  BY <1>1, <1>2, <1>3 DEF Types

LEMMA TDials == ASSUME Types, NEW c \in Threads, Dial(c) PROVE Types'
<1>1. StoreType' /\ EventsType' /\ WritingType' /\ CountsType'
  BY Unchanged DEF Dial, GoWithQR, GoPanics, Go, Redial, Report, client, store, counts
<1>2. CallType'
  <2>1. Return(c) \/ Goto(c, "report")
    BY DEF Dial, GoWithQR, GoPanics, Go, Redial, Report
  <2> QED
    BY <2>1, GotoSet, ReturnSet DEF Types, Pcs
<1>3. SessionType'
  <2>1. session' = session \/ \E o, s : s \in Statuses /\ Status(o, s)
    BY DEF Dial, GoWithQR, GoPanics, Go, Redial, Report, Statuses
  <2> QED
    BY <2>1, StatusSet, SessionKept DEF Types
<1>4. ConnType'
  <2>1. conn' = conn \/ \E o : ConnectOk(o) \/ ConnectFails
    BY DEF Dial, GoWithQR, GoPanics, Go, Redial, Report, client
  <2> QED
    BY <2>1, Unchanged, ConnectSet DEF Types
<1>5. ScanType'
  <2>1. CASE scan' = scan
    BY <2>1, Unchanged
  <2>2. CASE GoWithQR(c) /\ c \in Callers
    <3> DEFINE r == [NoScan EXCEPT !.pc = "open", !.obj = call[c].obj]
    <3>1. r \in ScanState
      BY NoScanIs DEF Types, ScanState, ScanRecord, CallType, CallState
    <3>2. scan' = [scan EXCEPT ![c] = r]
      BY <2>2 DEF GoWithQR
    <3> HIDE DEF r
    <3> QED
      BY <2>2, <3>1, <3>2, ScanSet DEF Types
  <2>3. CASE GoWithQR(c) /\ c \notin Callers
    BY <2>3, Unchanged DEF Types, GoWithQR, ScanType
  <2> QED
    BY <2>1, <2>2, <2>3 DEF Dial, GoPanics, Go, Redial, Report
<1> QED
  BY <1>1, <1>2, <1>3, <1>4, <1>5 DEF Types

LEMMA TDevices ==
  ASSUME Types, NEW o \in 0 .. MaxObjects, RemoveDevice(o)
  PROVE  devices' \subseteq Device /\ ConnType' /\ SessionType'
<1> DEFINE r == [session[o] EXCEPT !.dev = IF HasCredentials(o) THEN Blank ELSE @]
<1>1. o \in Object => r \in Sess
  BY DEF Types, SessionType, Sess, HasCredentials
<1>2. session' = session \/ session' = [session EXCEPT ![o] = r]
  BY DEF RemoveDevice
<1>3. devices' \subseteq Device /\ ConnType'
  BY HangUpSet DEF Types, RemoveDevice, StoreType
<1> HIDE DEF r
<1> QED
  BY <1>1, <1>2, <1>3, SessionSet, SessionKept DEF Types

LEMMA TLogsOut == ASSUME Types, NEW c \in Threads, LogoutStep(c) PROVE Types'
<1> DEFINE o == call[c].obj
<1>1. EventsType' /\ WritingType' /\ ScanType' /\ CountsType'
  BY Unchanged DEF LogoutStep, LogoutSend, LogoutClear, LogoutReset, client, counts
<1>2. CallType'
  <2>1. Return(c) \/ Goto(c, "clear") \/ Goto(c, "reset")
    BY DEF LogoutStep, LogoutSend, LogoutClear, LogoutReset
  <2> QED
    BY <2>1, GotoSet, ReturnSet DEF Types, Pcs
<1>3. CASE LogoutSend(c)
  <2>1. o \in 0 .. MaxObjects
    BY DEF Types, CallType, CallState
  <2>2. row' = row /\ RemoveDevice(o)
    BY <1>3 DEF LogoutSend
  <2> HIDE DEF o
  <2>3. StoreType' /\ ConnType' /\ SessionType'
    BY <2>1, <2>2, TDevices DEF Types, StoreType
  <2> QED
    BY <1>1, <1>2, <2>3 DEF Types
<1>4. CASE LogoutClear(c)
  <2>1. SessionType' /\ ConnType'
    BY <1>4, Unchanged DEF LogoutClear, client
  <2>2. UpdateJID(Blank) /\ devices' = devices /\ Blank \in {Blank} \cup Device
    BY <1>4 DEF LogoutClear
  <2>3. StoreType'
    BY <2>2, UpdateSet DEF Types
  <2> QED
    BY <1>1, <1>2, <2>1, <2>3 DEF Types
<1>5. CASE LogoutReset(c)
  <2>1. StoreType' /\ ConnType'
    BY <1>5, Unchanged DEF LogoutReset, client
  <2> DEFINE r == [session[o] EXCEPT !.dev = Blank, !.status = "disconnected", !.qr = FALSE]
  <2>2. o \in Object => r \in Sess
    BY DEF Types, SessionType, Sess, Statuses
  <2>3. session' = [session EXCEPT ![o] = r]
    BY <1>5 DEF LogoutReset
  <2> HIDE DEF r, o
  <2>4. SessionType'
    BY <2>2, <2>3, SessionSet DEF Types
  <2> QED
    BY <1>1, <1>2, <2>1, <2>4 DEF Types
<1> QED
  BY <1>3, <1>4, <1>5 DEF LogoutStep

LEMMA TDeletes ==
  ASSUME Types, NEW c \in Threads, DeleteStep(c) \/ DisconnectDone(c) PROVE Types'
<1> DEFINE o == call[c].obj
<1>1. EventsType' /\ WritingType' /\ ScanType'
  BY Unchanged DEF DeleteStep, DeleteUnlink, DeleteForget, DeleteRow, DisconnectDone, client
<1>2. CallType'
  <2>1. Return(c) \/ Goto(c, "forget") \/ Goto(c, "drop")
    BY DEF DeleteStep, DeleteUnlink, DeleteForget, DeleteRow, DisconnectDone
  <2> QED
    BY <2>1, GotoSet, ReturnSet DEF Types, Pcs
<1>3. o \in 0 .. MaxObjects
  BY DEF Types, CallType, CallState
<1>4. CASE DeleteUnlink(c)
  <2>1. row' = row /\ RemoveDevice(o) /\ CountsType'
    BY <1>4, Unchanged DEF DeleteUnlink, counts
  <2> HIDE DEF o
  <2>2. StoreType' /\ ConnType' /\ SessionType'
    BY <1>3, <2>1, TDevices DEF Types, StoreType
  <2> QED
    BY <1>1, <1>2, <2>1, <2>2 DEF Types
<1>5. CASE DeleteForget(c)
  <2>1. StoreType' /\ ConnType' /\ CountsType'
    BY <1>5, Unchanged DEF Types, DeleteForget, client, counts, CountsType
  <2> DEFINE r == [session[o] EXCEPT !.qr = FALSE]
  <2>2. o \in Object => r \in Sess
    BY DEF Types, SessionType, Sess
  <2>3. session' = [session EXCEPT ![o] = r]
    BY <1>5 DEF DeleteForget
  <2> HIDE DEF r, o
  <2>4. SessionType'
    BY <2>2, <2>3, SessionSet DEF Types
  <2> QED
    BY <1>1, <1>2, <2>1, <2>4 DEF Types
<1>6. CASE DeleteRow(c)
  <2>5. session' = session /\ conn' = conn
    BY <1>6 DEF DeleteRow, client
  <2>1. SessionType' /\ ConnType'
    BY <2>5, Unchanged
  <2>2. CountsType'
    BY <1>6 DEF Types, DeleteRow, CountsType, counts
  <2>3. devices' = devices /\ (row' = [there |-> FALSE, jid |-> Blank] \/ row' = row)
    BY <1>6 DEF DeleteRow
  <2>4. StoreType'
    <3> DEFINE r == [there |-> FALSE, jid |-> Blank]
    <3>1. r \in [there : BOOLEAN, jid : {Blank} \cup Device]
      OBVIOUS
    <3>2. devices' = devices /\ (row' = r \/ row' = row)
      BY <2>3
    <3> HIDE DEF r
    <3> QED
      BY <3>1, <3>2 DEF Types, StoreType
  <2> QED
    BY <1>1, <1>2, <2>1, <2>2, <2>4 DEF Types
<1>7. CASE DisconnectDone(c)
  <2>1. StoreType' /\ ConnType' /\ CountsType'
    BY <1>7, Unchanged DEF DisconnectDone, client, counts
  <2>2. SessionType'
    BY <1>7, StatusSet DEF Types, DisconnectDone, Statuses
  <2> QED
    BY <1>1, <1>2, <2>1, <2>2 DEF Types
<1> QED
  BY <1>4, <1>5, <1>6, <1>7 DEF DeleteStep

LEMMA TCreates == ASSUME Types, NEW c \in Callers, Create(c) PROVE Types'
<1>1. ConnType' /\ EventsType' /\ WritingType' /\ CallType' /\ ScanType'
  BY Unchanged DEF Create, client
<1> DEFINE n == made + 1
           r == NewSession(Blank)
<1>2. n \in Object /\ r \in Sess
  BY DEF Types, Create, CountsType, NewSession, Sess, Statuses, Object, Blank
<1>3. CountsType'
  BY <1>2 DEF Types, Create, CountsType, counts
<1>4. row' \in [there : BOOLEAN, jid : {Blank} \cup Device] /\ devices' \subseteq Device
  BY DEF Types, Create, StoreType
<1>5. StoreType'
  BY <1>4 DEF StoreType
<1>6. session' = [session EXCEPT ![n] = r]
  BY DEF Create
<1> HIDE DEF n, r
<1>7. SessionType'
  BY <1>2, <1>6, SessionSet DEF Types
<1> QED
  BY <1>1, <1>3, <1>5, <1>7 DEF Types

LEMMA TAsks ==
  ASSUME Types, NEW c \in Callers, Connect(c) \/ Disconnect(c) \/ Restart(c) \/ Logout(c)
  PROVE  Types'
<1>1. StoreType' /\ EventsType' /\ WritingType' /\ ScanType'
  BY Unchanged DEF Connect, Disconnect, Restart, Logout, client
<1>2. CountsType'
  BY DEF Types, Connect, Disconnect, Restart, Logout, counts, CountsType
<1>3. CallType'
  <2>1. PICK pc, op :
          /\ pc \in Pcs /\ op \in Ops
          /\ call' = [call EXCEPT ![c] = [pc |-> pc, op |-> op, obj |-> mem]]
    BY DEF Connect, Disconnect, Restart, Logout, OnSession, Arrives, Pcs
  <2> DEFINE r == [pc |-> pc, op |-> op, obj |-> mem]
  <2>2. c \in Threads /\ r \in CallState
    BY <2>1 DEF Types, Threads, CallState, CountsType
  <2>3. call' = [call EXCEPT ![c] = r]
    BY <2>1
  <2> HIDE DEF r
  <2> QED
    BY <2>2, <2>3, CallSet DEF Types
<1>4. SessionType'
  <2>1. session' = session \/ Status(mem, "disconnected")
    BY DEF Connect, Disconnect, Restart, Logout
  <2> QED
    BY <2>1, SessionKept, StatusSet DEF Types, Statuses
<1>5. ConnType'
  <2>1. \/ conn' = conn \/ HangUp(mem) \/ ConnectOk(mem) \/ ConnectFails
        \/ conn' = [conn EXCEPT ![mem] = "off"]
    BY DEF Connect, Disconnect, Restart, Logout, PrepareLogout, client
  <2> QED
    BY <2>1, Unchanged, HangUpSet, ConnectSet, ConnSet DEF Types, Conns
<1> QED
  BY <1>1, <1>2, <1>3, <1>4, <1>5 DEF Types

LEMMA TDeleteAsked == ASSUME Types, NEW c \in Callers, Delete(c) PROVE Types'
<1>1. StoreType' /\ SessionType' /\ EventsType' /\ WritingType' /\ ScanType'
  BY Unchanged DEF Delete
<1>2. CountsType'
  BY DEF Types, Delete, counts, CountsType
<1>3. CallType'
  <2>1. PICK pc, obj :
          /\ pc \in Pcs /\ obj \in 0 .. MaxObjects
          /\ call' = [call EXCEPT ![c] = [pc |-> pc, op |-> "delete", obj |-> obj]]
    <3>1. CASE mem = 0
      <4>1. "drop" \in Pcs /\ 0 \in 0 .. MaxObjects
        BY DEF Pcs
      <4> QED
        BY <3>1, <4>1 DEF Delete
    <3>2. CASE mem # 0
      <4>1. "unlink" \in Pcs /\ "forget" \in Pcs /\ mem \in 0 .. MaxObjects
        BY DEF Types, Pcs, CountsType
      <4> QED
        BY <3>2, <4>1 DEF Delete
    <3> QED
      BY <3>1, <3>2
  <2> DEFINE r == [pc |-> pc, op |-> "delete", obj |-> obj]
  <2>2. c \in Threads /\ r \in CallState
    BY <2>1 DEF Threads, CallState, Delete, Arrives
  <2>3. call' = [call EXCEPT ![c] = r]
    BY <2>1
  <2> HIDE DEF r
  <2> QED
    BY <2>2, <2>3, CallSet DEF Types
<1>4. ConnType'
  <2>1. \/ conn' = conn \/ ConnectOk(mem) \/ ConnectFails
        \/ conn' = [conn EXCEPT ![mem] = "off"]
    BY DEF Delete, PrepareLogout
  <2> QED
    BY <2>1, Unchanged, ConnectSet, ConnSet DEF Types, Conns
<1> QED
  BY <1>1, <1>2, <1>3, <1>4 DEF Types

(* The QR loop.                                                            *)
LEMMA ScanEndsSet ==
  ASSUME ScanType, NEW c \in Callers, ScanEnds(c)
  PROVE  ScanType' /\ scan'[c].pc = "off" /\ \A d \in Callers \ {c} : scan'[d] = scan[d]
BY NoScanIs, ScanSet DEF ScanEnds

LEMMA ScanGotoSet ==
  ASSUME ScanType, NEW c \in Callers, NEW pc \in {"dial", "wait"}, ScanGoto(c, pc)
  PROVE  /\ ScanType' /\ scan'[c].pc = pc /\ scan'[c].obj = scan[c].obj
         /\ \A d \in Callers \ {c} : scan'[d] = scan[d]
<1> DEFINE r == [scan[c] EXCEPT !.pc = pc]
<1>1. r \in ScanState /\ r.pc = pc /\ r.obj = scan[c].obj
  BY DEF ScanType, ScanState, ScanRecord
<1>2. scan' = [scan EXCEPT ![c] = r]
  BY DEF ScanGoto
<1> HIDE DEF r
<1> QED
  BY <1>1, <1>2, ScanSet

LEMMA ScanCodeSet ==
  ASSUME Types, NEW c \in Callers, ScanCode(c)
  PROVE  /\ ScanType' /\ SessionType' /\ SameDevs
         /\ scan'[c].pc = "wait" /\ scan'[c].obj = scan[c].obj
         /\ \A d \in Callers \ {c} : scan'[d] = scan[d]
<1> DEFINE o == scan[c].obj
           s == [session[o] EXCEPT !.status = "connecting", !.qr = TRUE]
           q == Tail(scan[c].items)
           r == [scan[c] EXCEPT !.items = q]
<1>1. scan[c] \in ScanState /\ scan[c].items \in Seq(Items) /\ scan[c].items # <<>>
  BY DEF Types, ScanType, ScanState, ScanRecord, ScanCode, Item
<1>2. q \in Seq(Items)
  BY <1>1
<1> HIDE DEF q
<1>3. r \in ScanState /\ r.pc = "wait" /\ r.obj = scan[c].obj
  BY <1>1, <1>2 DEF ScanState, ScanRecord, ScanCode, Item
<1>4. o \in Object => s \in Sess /\ s.dev = session[o].dev
  BY DEF Types, SessionType, Sess, Statuses
<1>5. session' = [session EXCEPT ![o] = s]
  BY DEF ScanCode
<1>6. scan' = [scan EXCEPT ![c] = r]
  BY DEF ScanCode, q
<1> HIDE DEF r, s, o
<1>7. SessionType' /\ SameDevs
  BY <1>4, <1>5, SessionSet DEF Types
<1> QED
  BY <1>3, <1>6, <1>7, ScanSet DEF Types

LEMMA ScanSuccessSet ==
  ASSUME Types, NEW c \in Callers, ScanSuccess(c)
  PROVE  /\ ScanType' /\ scan'[c].pc \in {"off", "write"}
         /\ scan'[c].pc = "write" => /\ HasCredentials(scan[c].obj)
                                     /\ scan'[c].jid = session[scan[c].obj].dev
                                     /\ scan'[c].obj = scan[c].obj
         /\ \A d \in Callers \ {c} : scan'[d] = scan[d]
<1>1. CASE ~HasCredentials(scan[c].obj)
  BY <1>1, ScanEndsSet DEF Types, ScanSuccess
<1>2. CASE HasCredentials(scan[c].obj)
  <2> DEFINE jid == session[scan[c].obj].dev
             r == [scan[c] EXCEPT !.pc = "write", !.jid = jid]
  <2>1. jid \in Device
    BY <1>2 DEF HasCredentials
  <2>2. r \in ScanState /\ r.pc = "write" /\ r.jid = jid /\ r.obj = scan[c].obj
    BY <2>1 DEF Types, ScanType, ScanState, ScanRecord
  <2>3. scan' = [scan EXCEPT ![c] = r]
    BY <1>2 DEF ScanSuccess
  <2> HIDE DEF r
  <2> QED
    BY <1>2, <2>2, <2>3, ScanSet DEF Types
<1> QED
  BY <1>1, <1>2

LEMMA ScanSessions ==
  ASSUME Types, NEW c \in Callers, Scan(c)
  PROVE  SessionType' /\ SameDevs
<1> DEFINE o == scan[c].obj
           r == [session[o] EXCEPT !.lapsed = TRUE]
<1>1. CASE ScanCode(c)
  BY <1>1, ScanCodeSet
<1>2. CASE ScanError(c)
  <2>1. o \in Object => r \in Sess /\ r.dev = session[o].dev
    BY DEF Types, SessionType, Sess
  <2>2. session' = [session EXCEPT ![o] = r]
    BY <1>2 DEF ScanError
  <2> HIDE DEF r, o
  <2> QED
    BY <2>1, <2>2, SessionSet DEF Types
<1>3. \/ ScanCode(c) \/ ScanError(c) \/ session' = session
      \/ \E s \in Statuses : Status(o, s) \/ StatusQR(o, s)
  BY DEF Scan, ScanOpen, ScanDial, ScanSuccess, ScanWrite, ScanTimeout, Statuses
<1> HIDE DEF o
<1> QED
  BY <1>1, <1>2, <1>3, StatusSet, SessionKept DEF Types

LEMMA TScans == ASSUME Types, NEW c \in Callers, Scan(c) PROVE Types'
<1>1. EventsType' /\ WritingType' /\ CallType' /\ CountsType' /\ SessionType'
  BY Unchanged, ScanSessions DEF Scan, ScanOpen, ScanDial, ScanCode, ScanSuccess, ScanWrite,
     ScanTimeout, ScanError, client, counts
<1>2. ScanType'
  <2>1. \/ ScanCode(c) \/ ScanSuccess(c) \/ ScanEnds(c)
        \/ \E pc \in {"dial", "wait"} : ScanGoto(c, pc)
    BY DEF Scan, ScanOpen, ScanDial, ScanWrite, ScanTimeout, ScanError
  <2> QED
    BY <2>1, ScanCodeSet, ScanSuccessSet, ScanEndsSet, ScanGotoSet DEF Types
<1>3. StoreType'
  <2>1. CASE store' = store
    BY <2>1, Unchanged
  <2>2. CASE ScanWrite(c)
    <3>1. scan[c].jid \in {Blank} \cup Device
      BY <2>2 DEF Types, ScanType, ScanState, ScanWrite
    <3>2. UpdateJID(scan[c].jid) /\ devices' = devices
      BY <2>2 DEF ScanWrite
    <3> QED
      BY <3>1, <3>2, UpdateSet DEF Types
  <2> QED
    BY <2>1, <2>2 DEF Scan, ScanOpen, ScanDial, ScanCode, ScanSuccess, ScanTimeout, ScanError
<1>4. ConnType'
  <2>1. conn' = conn \/ \E o : ConnectOk(o) \/ ConnectFails
    BY DEF Scan, ScanOpen, ScanDial, ScanCode, ScanSuccess, ScanWrite, ScanTimeout,
       ScanError, client
  <2> QED
    BY <2>1, Unchanged, ConnectSet DEF Types
<1> QED
  BY <1>1, <1>2, <1>3, <1>4 DEF Types

LEMMA EmitCodeSet ==
  ASSUME Types, NEW c \in Callers, EmitCode(c)
  PROVE  /\ ScanType' /\ scan'[c].pc = "wait" /\ scan'[c].obj = scan[c].obj
         /\ \A d \in Callers \ {c} : scan'[d] = scan[d]
<1> DEFINE q == <<"code">>
           r == [scan[c] EXCEPT !.items = q]
<1>1. q \in Seq(Items)
  BY DEF Items
<1> HIDE DEF q
<1>2. r \in ScanState /\ r.pc = "wait" /\ r.obj = scan[c].obj
  BY <1>1 DEF Types, ScanType, ScanState, ScanRecord, EmitCode
<1>3. scan' = [scan EXCEPT ![c] = r]
  BY DEF EmitCode, q
<1> HIDE DEF r
<1> QED
  BY <1>2, <1>3, ScanSet DEF Types

LEMMA TCodes == ASSUME Types, NEW c \in Callers, Codes(c) PROVE Types'
<1>1. /\ StoreType' /\ SessionType' /\ EventsType' /\ WritingType' /\ CallType'
      /\ CountsType'
  BY Unchanged DEF Codes, EmitCode, EmitTimeout, EmitError, client, counts
<1>2. ConnType'
  <2>1. conn' = conn \/ HangUp(scan[c].obj)
    BY DEF Codes, EmitCode, EmitTimeout, EmitError, client
  <2> QED
    BY <2>1, Unchanged, HangUpSet DEF Types
<1>3. ScanType'
  <2>1. EmitCode(c) \/ Emit(scan[c].obj, "timeout") \/ Emit(scan[c].obj, "error")
    BY DEF Codes, EmitTimeout, EmitError
  <2> QED
    BY <2>1, EmitCodeSet, EmitSet DEF Types, Items
<1> QED
  BY <1>1, <1>2, <1>3 DEF Types

(* The client library.                                                     *)
LEMMA TAnswers == ASSUME Types, NEW o \in Object, Answer(o) PROVE Types'
<1>1. WritingType' /\ CallType' /\ ScanType'
  BY Unchanged DEF Answer, Authenticate, Refuse, Unlink
<1>2. EventsType'
  BY DispatchSet DEF Types, Answer, Authenticate, Refuse, Unlink, News
<1>3. ConnType'
  <2>1. \E s \in {"in", "deaf", "off"} : conn' = [conn EXCEPT ![o] = s]
    BY DEF Answer, Authenticate, Refuse, Unlink
  <2> QED
    BY <2>1, ConnSet DEF Types, Conns
<1>4. CountsType'
  BY DEF Types, CountsType, Answer, Authenticate, Refuse, Unlink, counts
<1>5. StoreType'
  BY DEF Types, StoreType, Answer, Authenticate, Refuse, Unlink, store
<1>6. SessionType'
  <2> DEFINE r == [session[o] EXCEPT !.dev = Blank]
  <2>1. r \in Sess
    BY DEF Types, SessionType, Sess
  <2>2. session' = session \/ session' = [session EXCEPT ![o] = r]
    BY DEF Answer, Authenticate, Refuse, Unlink
  <2> HIDE DEF r
  <2> QED
    BY <2>1, <2>2, SessionSet, SessionKept DEF Types
<1> QED
  BY <1>1, <1>2, <1>3, <1>4, <1>5, <1>6 DEF Types

LEMMA TPairs == ASSUME Types, NEW o \in Object, PairSuccess(o) PROVE Types'
<1>1. EventsType' /\ WritingType' /\ CallType'
  BY Unchanged DEF PairSuccess
<1>2. ConnType' /\ ScanType'
  BY ConnSet, EmitSet DEF Types, PairSuccess, Conns, Items
<1> DEFINE d == paired + 1
           r == [session[o] EXCEPT !.dev = d]
<1>3. d \in Device /\ d \in 0 .. MaxPairings
  BY DEF Types, CountsType, PairSuccess, Device
<1>4. paired' = d /\ devices' = devices \cup {d} /\ session' = [session EXCEPT ![o] = r]
  BY DEF PairSuccess
<1> HIDE DEF d
<1>5. CountsType'
  BY <1>3, <1>4 DEF Types, CountsType, PairSuccess
<1>6. StoreType'
  BY <1>3, <1>4 DEF Types, StoreType, PairSuccess
<1>7. r \in Sess
  BY <1>3 DEF Types, SessionType, Sess
<1> HIDE DEF r
<1>8. SessionType'
  BY <1>4, <1>7, SessionSet DEF Types
<1> QED
  BY <1>1, <1>2, <1>5, <1>6, <1>8 DEF Types

LEMMA TLoses == ASSUME Types, NEW o \in Object, Lose(o) \/ AutoReconnect(o) PROVE Types'
<1>1. StoreType' /\ SessionType' /\ WritingType' /\ CallType'
  BY Unchanged DEF Lose, AutoReconnect
<1>2. CountsType'
  BY DEF Types, CountsType, Lose, AutoReconnect, counts
<1>3. ConnType'
  <2>1. \E s \in {"lost", "login", "off"} : conn' = [conn EXCEPT ![o] = s]
    BY DEF Lose, AutoReconnect
  <2> QED
    BY <2>1, ConnSet DEF Types, Conns
<1>4. EventsType' /\ ScanType'
  BY DispatchSet, EmitSet, Unchanged DEF Types, Lose, AutoReconnect, News, Items
<1> QED
  BY <1>1, <1>2, <1>3, <1>4 DEF Types

(* The handlers of events.                                                 *)
LEMMA THandles == ASSUME Types, NEW o \in Object, Handle(o) PROVE Types'
<1>1. CallType' /\ ScanType' /\ CountsType'
  BY Unchanged DEF Handle, HandleConnected, HandleDown, HandleLoggedOut, HandlerWrites, counts
<1>2. ConnType'
  <2>1. conn' = conn \/ conn' = [conn EXCEPT ![o] = "off"]
    BY DEF Handle, HandleConnected, HandleDown, HandleLoggedOut, HandlerWrites
  <2> QED
    BY <2>1, Unchanged, ConnSet DEF Types, Conns
<1>3. CASE HandleConnected(o)
  <2>1. StoreType' /\ SessionType'
    BY <1>3, Unchanged, StatusSet DEF Types, HandleConnected, Statuses
  <2>2. CASE HasCredentials(o)
    <3>1. session[o].dev \in Device /\ events' = events /\ events[o] # <<>>
          /\ writing' = [writing EXCEPT ![o] = session[o].dev]
      BY <1>3, <2>2 DEF HandleConnected, HasCredentials, Handling
    <3>2. WritingType' /\ EventsType'
      BY <3>1 DEF Types, WritingType, EventsType
    <3> QED
      BY <1>1, <1>2, <2>1, <3>2 DEF Types
  <2>3. CASE ~HasCredentials(o)
    <3>1. WritingType' /\ EventsType'
      BY <1>3, <2>3, EventDoneSet DEF Types, HandleConnected, Handling, WritingType
    <3> QED
      BY <1>1, <1>2, <2>1, <3>1 DEF Types
  <2> QED
    BY <2>2, <2>3
<1>4. CASE HandleDown(o)
  <2>1. StoreType' /\ SessionType' /\ WritingType'
    BY <1>4, Unchanged, StatusSet DEF Types, HandleDown, Statuses
  <2>2. EventsType'
    BY <1>4, EventDoneSet DEF Types, HandleDown, Handling
  <2> QED
    BY <1>1, <1>2, <2>1, <2>2 DEF Types
<1>5. CASE HandleLoggedOut(o)
  <2>1. StoreType'
    BY <1>5 DEF Types, StoreType, HandleLoggedOut
  <2>2. events' = events /\ events[o] # <<>> /\ writing' = [writing EXCEPT ![o] = Blank]
    BY <1>5 DEF HandleLoggedOut, Handling
  <2>3. WritingType' /\ EventsType'
    BY <2>2 DEF Types, WritingType, EventsType
  <2> DEFINE r == [session[o] EXCEPT !.status = "disconnected",
                                     !.dev = IF @ \in Device THEN Blank ELSE @]
  <2>4. r \in Sess
    BY DEF Types, SessionType, Sess, Statuses
  <2>5. session' = [session EXCEPT ![o] = r]
    BY <1>5 DEF HandleLoggedOut
  <2> HIDE DEF r
  <2>6. SessionType'
    BY <2>4, <2>5, SessionSet DEF Types
  <2> QED
    BY <1>1, <1>2, <2>1, <2>3, <2>6 DEF Types
<1>6. CASE HandlerWrites(o)
  <2>1. SessionType'
    BY <1>6, Unchanged DEF HandlerWrites
  <2>2. writing[o] \in {Blank} \cup Device /\ events[o] # <<>>
    BY <1>6 DEF Types, WritingType, EventsType, HandlerWrites
  <2>3. writing' = [writing EXCEPT ![o] = None] /\ EventDone(o)
    BY <1>6 DEF HandlerWrites
  <2>4. EventsType' /\ WritingType'
    BY <2>2, <2>3, EventDoneSet DEF Types, WritingType
  <2>5. UpdateJID(writing[o]) /\ devices' = devices
    BY <1>6 DEF HandlerWrites
  <2>6. StoreType'
    BY <2>2, <2>5, UpdateSet DEF Types
  <2> QED
    BY <1>1, <1>2, <2>1, <2>4, <2>6 DEF Types
<1> QED
  BY <1>3, <1>4, <1>5, <1>6 DEF Handle

(* The process.                                                            *)
LEMMA FirstObject == 1 \in Object /\ 1 \in 0 .. MaxObjects
BY DEF Object

LEMMA TLoads == ASSUME Types, Load PROVE Types'
<1>1. StoreType' /\ ConnType' /\ EventsType' /\ WritingType' /\ ScanType'
  BY Unchanged DEF Load, client
<1>2. CountsType'
  BY FirstObject DEF Types, CountsType, Load, counts
<1>3. CallType'
  <2> DEFINE r == [pc |-> "begin", op |-> "reconnect", obj |-> 1]
  <2>1. r \in CallState /\ Boot \in Threads
    BY FirstObject DEF CallState, Pcs, Threads
  <2>2. call' = call \/ call' = [call EXCEPT ![Boot] = r]
    BY DEF Load
  <2> HIDE DEF r
  <2> QED
    BY <2>1, <2>2, CallSet, Unchanged DEF Types
<1>4. SessionType'
  <2> DEFINE r == NewSession(DeviceOf(row.jid))
  <2>1. r \in Sess
    BY DEF Types, StoreType, NewSession, DeviceOf, Sess, Statuses
  <2>2. session' = session \/ session' = [session EXCEPT ![1] = r]
    BY DEF Load
  <2> HIDE DEF r
  <2> QED
    BY <2>1, <2>2, FirstObject, SessionSet, Unchanged DEF Types
<1> QED
  BY <1>1, <1>2, <1>3, <1>4 DEF Types

LEMMA TCrashes == ASSUME Types, Crash PROVE Types'
<1>1. StoreType'
  BY Unchanged DEF Crash
<1>2. Idle \in CallState /\ NewSession(Blank) \in Sess
  BY DEF Idle, CallState, Pcs, NewSession, Sess, Statuses
<1>3. << >> \in Seq(News)
  OBVIOUS
<1>4. SessionType' /\ ConnType' /\ EventsType' /\ WritingType' /\ CallType' /\ ScanType'
  BY <1>2, <1>3, NoScanIs DEF Crash, SessionType, ConnType, EventsType, WritingType, CallType,
     ScanType, Conns
<1>5. up' \in BOOLEAN /\ ended' \in BOOLEAN
  BY DEF Types, CountsType, Crash
<1>8. mu' \in Callers \cup {Nobody} /\ mem' \in 0 .. MaxObjects /\ made' \in 0 .. MaxObjects
  BY DEF Crash
<1>6. paired' \in 0 .. MaxPairings /\ losses' \in 0 .. MaxLosses /\ crashes' \in 0 .. MaxCrashes
  BY DEF Types, CountsType, Crash
<1>7. CountsType'
  BY <1>5, <1>6, <1>8 DEF CountsType
<1> QED
  BY <1>1, <1>4, <1>7 DEF Types

LEMMA TInit == Init => Types
<1> SUFFICES ASSUME Init PROVE Types
  OBVIOUS
<1>2. Idle \in CallState /\ NewSession(Blank) \in Sess
  BY DEF Idle, CallState, Pcs, NewSession, Sess, Statuses
<1>3. << >> \in Seq(News)
  OBVIOUS
<1>4. SessionType /\ ConnType /\ EventsType /\ WritingType /\ CallType /\ ScanType
  BY <1>2, <1>3, NoScanIs DEF Init, SessionType, ConnType, EventsType, WritingType, CallType,
     ScanType, Conns
<1>1. up \in BOOLEAN /\ ended \in BOOLEAN
  BY DEF Init
<1>5. mu \in Callers \cup {Nobody} /\ mem \in 0 .. MaxObjects /\ made \in 0 .. MaxObjects
  BY DEF Init
<1>6. paired \in 0 .. MaxPairings /\ losses \in 0 .. MaxLosses /\ crashes \in 0 .. MaxCrashes
  BY DEF Init
<1>7. CountsType
  BY <1>1, <1>5, <1>6 DEF CountsType
<1> DEFINE r == [there |-> FALSE, jid |-> Blank]
<1>8. r \in [there : BOOLEAN, jid : {Blank} \cup Device] /\ row = r /\ devices = {}
  BY DEF Init
<1> HIDE DEF r
<1>9. StoreType
  BY <1>8 DEF StoreType
<1> QED
  BY <1>4, <1>7, <1>9 DEF Types

LEMMA TNext == Types /\ [Next]_vars => Types'
<1> SUFFICES ASSUME Types, [Next]_vars PROVE Types'
  OBVIOUS
<1>1. CASE Load \/ Crash
  BY <1>1, TLoads, TCrashes
<1>2. CASE \E c \in Threads : Step(c)
  BY <1>2, TSetsUp, TDials, TLogsOut, TDeletes DEF Step
<1>3. CASE \E c \in Callers : Request(c)
  BY <1>3, TCreates, TAsks, TDeleteAsked DEF Request
<1>4. CASE \E c \in Callers : Scan(c) \/ Codes(c)
  BY <1>4, TScans, TCodes
<1>5. CASE \E o \in Object :
              Answer(o) \/ PairSuccess(o) \/ Lose(o) \/ AutoReconnect(o) \/ Handle(o)
  BY <1>5, TAnswers, TPairs, TLoses, THandles
<1>6. CASE UNCHANGED vars
  BY <1>6, Unchanged DEF vars, client, Types
<1> QED
  BY <1>1, <1>2, <1>3, <1>4, <1>5, <1>6 DEF Next

(* Every variable of the service and of its clients keeps its type.        *)
THEOREM TypesHold == Spec => []TypeOK
BY TInit, TNext, Typed, PTL DEF Spec

------------------------------------------------------------------------------
(* While no logout, deletion or unlinking ever began and the database      *)
(* answers: there is one object at a time, everybody works on it, and      *)
(* whatever is about to write the row's JID writes its device.             *)

Has(o, e) == \E i \in DOMAIN events[o] : events[o][i] = e
Off(o) == conn[o] = "off" /\ events[o] = <<>> /\ writing[o] = None
Working == {"begin", "set", "add", "go", "down", "redial", "report"}

OneObject == mem = made /\ (~up => mem = 0) /\ \A o \in Object : o # mem => Off(o)
CallsCalm == \A c \in Threads : call[c].pc # "idle" =>
               mem # 0 /\ call[c].obj = mem /\ call[c].pc \in Working
ScansCalm == \A c \in Callers :
  /\ scan[c].pc # "off" => mem # 0 /\ scan[c].obj = mem
  /\ scan[c].pc = "write" => scan[c].jid = session[mem].dev /\ HasCredentials(mem)
Linked(o) == conn[o] \in {"login", "in", "deaf", "lost"} => HasCredentials(o)
Written(o) == writing[o] # None => writing[o] = session[o].dev /\ HasCredentials(o)
(* A login is recorded, being recorded, or its event still waits.          *)
Recorded(o) == conn[o] = "in" => \/ row.jid = session[o].dev
                                 \/ writing[o] = session[o].dev
                                 \/ Has(o, "connected")
Calm == /\ OneObject /\ CallsCalm /\ ScansCalm
        /\ \A o \in Object : Linked(o) /\ Written(o) /\ Recorded(o) /\ ~Has(o, "logged_out")
CInv == Types /\ IInv /\ (~ended /\ ~DBFaults => Calm)

LEMMA CallsKept ==
  ASSUME Types, CallsCalm, mem' = mem,
         \/ call' = call
         \/ \E c \in Threads : Return(c)
         \/ \E c \in Threads : \E pc \in Working : call[c].pc # "idle" /\ Goto(c, pc)
  PROVE  CallsCalm'
<1>1. CASE call' = call
  BY <1>1 DEF CallsCalm
<1>2. CASE \E c \in Threads : Return(c)
  BY <1>2, ReturnSet DEF Types, CallsCalm
<1>3. CASE \E c \in Threads : \E pc \in Working : call[c].pc # "idle" /\ Goto(c, pc)
  <2>1. PICK c \in Threads, pc \in Working : call[c].pc # "idle" /\ Goto(c, pc)
    BY <1>3
  <2>2. pc \in Pcs
    BY DEF Working, Pcs
  <2>3. /\ call'[c].pc = pc /\ call'[c].obj = call[c].obj
        /\ \A d \in Threads \ {c} : call'[d] = call[d]
    BY <2>1, <2>2, GotoSet DEF Types
  <2> QED
    BY <2>1, <2>3 DEF CallsCalm
<1> QED
  BY <1>1, <1>2, <1>3

LEMMA ScansKept ==
  ASSUME Types, ScansCalm, SameDevs, mem' = mem,
         \A c \in Callers : /\ scan'[c].pc = scan[c].pc /\ scan'[c].obj = scan[c].obj
                            /\ scan'[c].jid = scan[c].jid
  PROVE  ScansCalm'
<1>1. mem # 0 => mem \in Object
  BY DEF Types, CountsType, Object
<1> QED
  BY <1>1 DEF ScansCalm, SameDevs, HasCredentials

(* Steps that leave the events, and at most dial or hang up.               *)
LEMMA ConnStep ==
  ASSUME Types, Calm, UNCHANGED <<up, mem, made, events, writing>>, SameDevs,
         row'.jid = row.jid \/ row'.jid = session[mem].dev,
         \A n \in Object : \/ conn'[n] = conn[n]
                           \/ n = mem /\ conn'[n] \in {"off", "pairing"}
                           \/ n = mem /\ conn'[n] \in {"login", "lost"} /\ HasCredentials(n),
         CallsCalm', ScansCalm'
  PROVE  Calm'
<1>1. OneObject'
  BY DEF Calm, OneObject, Off
<1>2. ASSUME NEW o \in Object PROVE (Linked(o) /\ Written(o) /\ ~Has(o, "logged_out"))'
  BY DEF Calm, Linked, Written, Has, SameDevs, HasCredentials
<1>3. ASSUME NEW o \in Object PROVE Recorded(o)'
  <2>1. SUFFICES ASSUME conn'[o] = "in" PROVE Recorded(o)'
    BY DEF Recorded
  <2>2. conn[o] = "in" /\ o = mem
    BY <2>1 DEF Calm, OneObject, Off
  <2>3. Recorded(o) /\ session'[o].dev = session[o].dev
    BY DEF Calm, SameDevs
  <2> QED
    BY <2>2, <2>3 DEF Recorded, Has
<1> QED
  BY <1>1, <1>2, <1>3 DEF Calm

LEMMA CSetsUp ==
  ASSUME Types, Calm, NEW c \in Threads, SetUp(c) PROVE Calm'
<1>1. UNCHANGED <<up, mem, made, events, writing, row, conn, scan>>
  BY DEF SetUp, Begin, SetFlag, AddEventHandler, client, store
<1>2. SameDevs
  BY DEF Types, SessionType, Sess, SameDevs, SetUp, Begin, SetFlag, AddEventHandler, Status
<1>3. CallsCalm'
  <2>1. \E pc \in Working : call[c].pc # "idle" /\ Goto(c, pc)
    BY DEF SetUp, Begin, SetFlag, AddEventHandler, Working
  <2> QED
    BY <1>1, <2>1, CallsKept DEF Calm
<1>4. ScansCalm'
  BY <1>1, <1>2, ScansKept DEF Calm
<1> QED
  BY <1>1, <1>2, <1>3, <1>4, ConnStep

LEMMA CDials ==
  ASSUME Types, Calm, NEW c \in Threads, Dial(c) \/ DisconnectDone(c) PROVE Calm'
<1>1. UNCHANGED <<up, mem, made, events, writing, row>> /\ call[c].pc # "idle"
  BY DEF Dial, GoWithQR, GoPanics, Go, Redial, Report, DisconnectDone, client, store
<1>2. call[c].obj = mem /\ mem # 0
  BY <1>1 DEF Calm, CallsCalm
<1>3. SameDevs
  <2>1. session' = session \/ \E o, s : s \in Statuses /\ Status(o, s)
    BY DEF Dial, GoWithQR, GoPanics, Go, Redial, Report, DisconnectDone, Statuses
  <2> QED
    BY <2>1, StatusSet, SessionKept DEF Types
<1>4. CallsCalm'
  <2>1. Return(c) \/ Goto(c, "report")
    BY DEF Dial, GoWithQR, GoPanics, Go, Redial, Report, DisconnectDone
  <2>2. "report" \in Working
    BY DEF Working
  <2> QED
    BY <1>1, <2>1, <2>2, CallsKept DEF Calm
<1>5. \A n \in Object : \/ conn'[n] = conn[n]
                        \/ n = mem /\ conn'[n] \in {"off", "pairing"}
                        \/ n = mem /\ conn'[n] \in {"login", "lost"} /\ HasCredentials(n)
  <2>1. conn' = conn \/ ConnectOk(mem) \/ ConnectFails
    BY <1>2 DEF Dial, GoWithQR, GoPanics, Go, Redial, Report, DisconnectDone, client
  <2> QED
    BY <2>1, ConnectSet DEF Types
<1>6. ScansCalm'
  <2>1. CASE scan' = scan \/ c \notin Callers
    <3>1. \A d \in Callers : scan'[d] = scan[d]
      BY <2>1 DEF Dial, GoWithQR, GoPanics, Go, Redial, Report, DisconnectDone, Types, ScanType
    <3> QED
      BY <1>1, <1>3, <3>1, ScansKept DEF Calm
  <2>2. CASE GoWithQR(c) /\ c \in Callers
    <3> DEFINE r == [NoScan EXCEPT !.pc = "open", !.obj = mem]
    <3>1. r \in ScanState /\ r.pc = "open" /\ r.obj = mem
      BY NoScanIs DEF Types, ScanState, ScanRecord, CountsType
    <3>2. scan' = [scan EXCEPT ![c] = r]
      BY <1>2, <2>2 DEF GoWithQR
    <3> HIDE DEF r
    <3>3. scan'[c] = r /\ \A d \in Callers \ {c} : scan'[d] = scan[d]
      BY <2>2, <3>1, <3>2, ScanSet DEF Types
    <3>4. session'[mem].dev = session[mem].dev
      BY <2>2 DEF GoWithQR
    <3> QED
      BY <1>1, <1>2, <3>1, <3>3, <3>4 DEF Calm, ScansCalm, HasCredentials
  <2> QED
    BY <2>1, <2>2 DEF Dial, GoPanics, Go, Redial, Report, DisconnectDone
<1> QED
  BY <1>1, <1>3, <1>4, <1>5, <1>6, ConnStep

(* Nobody is inside a logout or a deletion.                                *)
LEMMA NoLogout ==
  ASSUME Calm, NEW c \in Threads, LogoutStep(c) \/ DeleteStep(c) PROVE FALSE
<1>1. call[c].pc \in {"logout", "clear", "reset", "unlink", "forget", "drop"}
  BY DEF LogoutStep, LogoutSend, LogoutClear, LogoutReset, DeleteStep, DeleteUnlink,
     DeleteForget, DeleteRow
<1> QED
  BY <1>1 DEF Calm, CallsCalm, Working

LEMMA CAsks ==
  ASSUME Types, Calm, NEW c \in Callers, Connect(c) \/ Disconnect(c) \/ Restart(c)
  PROVE  Calm'
<1>1. UNCHANGED <<up, mem, made, events, writing, row, scan>> /\ mem # 0
  BY DEF Connect, Disconnect, Restart, OnSession, client, store
<1>2. SameDevs
  <2>1. session' = session \/ Status(mem, "disconnected")
    BY DEF Connect, Disconnect, Restart
  <2> QED
    BY <2>1, StatusSet, SessionKept DEF Types, Statuses
<1>3. CallsCalm'
  <2>1. PICK pc, op : /\ pc \in Working
                      /\ call' = [call EXCEPT ![c] = [pc |-> pc, op |-> op, obj |-> mem]]
    BY DEF Connect, Disconnect, Restart, OnSession, Working
  <2> DEFINE r == [pc |-> pc, op |-> op, obj |-> mem]
  <2>2. \A d \in Threads : call'[d] = IF d = c THEN r ELSE call[d]
    BY <2>1 DEF Types, CallType
  <2> QED
    BY <1>1, <2>1, <2>2 DEF Calm, CallsCalm
<1>4. ScansCalm'
  BY <1>1, <1>2, ScansKept DEF Calm
<1>5. conn' = conn \/ HangUp(mem)
  BY DEF Connect, Disconnect, Restart, client
<1>6. \A n \in Object : conn'[n] = conn[n] \/ (n = mem /\ conn'[n] = "off")
  BY <1>5, HangUpSet DEF Types
<1> QED
  BY <1>1, <1>2, <1>3, <1>4, <1>6, ConnStep

LEMMA CCreates == ASSUME Types, Calm, NEW c \in Callers, Create(c) PROVE Calm'
<1>1. /\ UNCHANGED <<up, conn, events, writing, call, scan>> /\ up
      /\ mem = 0 /\ mem' = made + 1 /\ made' = made + 1
  BY DEF Create, Arrives, client
<1>2. made = 0 /\ mem' = 1 /\ made' = 1
  <2>1. mem = made
    BY DEF Calm, OneObject
  <2>2. mem = 0 /\ mem' = made + 1 /\ made' = made + 1
    BY <1>1
  <2>3. made = 0
    BY <2>1, <2>2
  <2>4. made + 1 = 1
    BY <2>3
  <2> QED
    BY <2>2, <2>3, <2>4
<1>3. \A o \in Object : Off(o)
  BY <1>1 DEF Calm, OneObject, Object
<1>4. /\ \A d \in Threads : call[d].pc = "idle"
      /\ \A d \in Callers : scan[d].pc = "off"
  BY <1>1 DEF Calm, CallsCalm, ScansCalm
<1>5. OneObject' /\ CallsCalm' /\ ScansCalm'
  BY <1>1, <1>2, <1>3, <1>4 DEF OneObject, Off, CallsCalm, ScansCalm
<1>6. ASSUME NEW o \in Object
      PROVE  (Linked(o) /\ Written(o) /\ Recorded(o) /\ ~Has(o, "logged_out"))'
  BY <1>1, <1>3 DEF Off, Linked, Written, Recorded, Has
<1> QED
  BY <1>5, <1>6 DEF Calm

(* The QR loop: what it is about to write is the device it saw, and a      *)
(* session with a device does not pair again.                              *)
LEMMA CScans ==
  ASSUME Types, Calm, MemoryHasRow, ~DBFaults, NEW c \in Callers, Scan(c)
  PROVE  Calm'
<1>1. UNCHANGED <<up, mem, made, events, writing, call>> /\ scan[c].pc # "off"
  BY DEF Scan, ScanOpen, ScanDial, ScanCode, ScanSuccess, ScanWrite, ScanTimeout, ScanError,
     Item, client
<1>2. mem # 0 /\ scan[c].obj = mem
  BY <1>1 DEF Calm, ScansCalm
<1>3. SameDevs /\ mem \in Object
  BY <1>2, ScanSessions DEF Types, CountsType, Object
<1>4. row'.jid = row.jid \/ row'.jid = session[mem].dev
  <2>1. CASE ScanWrite(c)
    <3>1. /\ UpdateJID(scan[c].jid) /\ devices' = devices /\ scan[c].jid = session[mem].dev
          /\ scan[c].jid \in {Blank} \cup Device
      BY <2>1 DEF ScanWrite, Calm, ScansCalm, HasCredentials
    <3> QED
      BY <3>1, UpdateSet DEF Types
  <2> QED
    BY <2>1 DEF Scan, ScanOpen, ScanDial, ScanCode, ScanSuccess, ScanTimeout, ScanError, store
<1>5. \A n \in Object : \/ conn'[n] = conn[n]
                        \/ n = mem /\ conn'[n] \in {"off", "pairing"}
                        \/ n = mem /\ conn'[n] \in {"login", "lost"} /\ HasCredentials(n)
  <2>1. conn' = conn \/ ConnectOk(mem) \/ ConnectFails
    BY <1>2 DEF Scan, ScanOpen, ScanDial, ScanCode, ScanSuccess, ScanWrite, ScanTimeout,
       ScanError, client
  <2> QED
    BY <2>1, ConnectSet DEF Types
<1>6. CallsCalm'
  BY <1>1, CallsKept DEF Calm
<1>7. /\ \A d \in Callers \ {c} : scan'[d] = scan[d]
      /\ \/ scan'[c].pc = "off"
         \/ scan'[c].pc \in {"dial", "wait"} /\ scan'[c].obj = mem
         \/ /\ scan'[c].pc = "write" /\ scan'[c].obj = mem
            /\ scan'[c].jid = session[mem].dev /\ HasCredentials(mem)
  <2>1. CASE ScanSuccess(c)
    BY <1>2, <2>1, ScanSuccessSet
  <2>2. CASE ScanCode(c)
    BY <1>2, <2>2, ScanCodeSet
  <2>3. CASE ScanEnds(c)
    BY <2>3, ScanEndsSet DEF Types
  <2>4. CASE \E pc \in {"dial", "wait"} : ScanGoto(c, pc)
    BY <1>2, <2>4, ScanGotoSet DEF Types
  <2> QED
    BY <2>1, <2>2, <2>3, <2>4
    DEF Scan, ScanOpen, ScanDial, ScanWrite, ScanTimeout, ScanError
<1>8. ScansCalm'
  BY <1>1, <1>2, <1>3, <1>7 DEF Calm, ScansCalm, SameDevs, HasCredentials
<1> QED
  BY <1>1, <1>3, <1>4, <1>5, <1>6, <1>8, ConnStep

LEMMA CCodes == ASSUME Types, Calm, NEW c \in Callers, Codes(c) PROVE Calm'
<1>1. UNCHANGED <<up, mem, made, events, writing, call, row, session>> /\ scan[c].pc = "wait"
  BY DEF Codes, EmitCode, EmitTimeout, EmitError, client, store
<1>2. mem # 0 /\ scan[c].obj = mem
  BY <1>1 DEF Calm, ScansCalm
<1>3. SameDevs
  BY <1>1, SessionKept DEF Types
<1>4. conn' = conn \/ HangUp(mem)
  BY <1>2 DEF Codes, EmitCode, EmitTimeout, EmitError, client
<1>5. \A n \in Object : conn'[n] = conn[n] \/ (n = mem /\ conn'[n] = "off")
  BY <1>4, HangUpSet DEF Types
<1>6. ScansCalm'
  <2>1. CASE EmitCode(c)
    BY <1>1, <1>2, <1>3, <2>1, EmitCodeSet DEF Calm, ScansCalm, HasCredentials
  <2>2. CASE Emit(scan[c].obj, "timeout") \/ Emit(scan[c].obj, "error")
    BY <1>1, <1>3, <2>2, EmitSet, ScansKept DEF Types, Calm, Items
  <2> QED
    BY <2>1, <2>2 DEF Codes, EmitTimeout, EmitError
<1>7. CallsCalm'
  BY <1>1, CallsKept DEF Calm
<1> QED
  BY <1>1, <1>3, <1>5, <1>6, <1>7, ConnStep

------------------------------------------------------------------------------
(* Steps of the client and of its handler touch the object in the map.     *)

LEMMA ClientStep ==
  ASSUME Types, Calm, UNCHANGED <<up, mem, made, call>>,
         NEW o \in Object, ~Off(o),
         \A n \in Object \ {o} : /\ conn'[n] = conn[n] /\ events'[n] = events[n]
                                 /\ writing'[n] = writing[n],
         o = mem => ScansCalm',
         Linked(o)', Written(o)', Recorded(o)', ~Has(o, "logged_out")'
  PROVE  Calm'
<1>1. o = mem
  BY DEF Calm, OneObject
<1>2. OneObject' /\ CallsCalm' /\ ScansCalm'
  BY <1>1, CallsKept DEF Calm, OneObject, Off
<1>3. ASSUME NEW n \in Object \ {o}
      PROVE  (Linked(n) /\ Written(n) /\ Recorded(n) /\ ~Has(n, "logged_out"))'
  <2>1. Off(n)
    BY <1>1 DEF Calm, OneObject
  <2> QED
    BY <2>1 DEF Off, Linked, Written, Recorded, Has
<1> QED
  BY <1>2, <1>3 DEF Calm

LEMMA HasAppended ==
  ASSUME Types, NEW o \in Object, NEW e, events'[o] = Append(events[o], e)
  PROVE  \A k : Has(o, k)' <=> (Has(o, k) \/ k = e)
<1> DEFINE q == events[o]
<1>1. q \in Seq(News)
  BY DEF Types, EventsType
<1> HIDE DEF q
<1>2. ASSUME NEW k
      PROVE  (\E i \in DOMAIN Append(q, e) : Append(q, e)[i] = k)
             <=> ((\E i \in DOMAIN q : q[i] = k) \/ k = e)
  <2>1. /\ Len(Append(q, e)) = Len(q) + 1 /\ Len(q) \in Nat
        /\ Append(q, e)[Len(q) + 1] = e /\ \A i \in 1 .. Len(q) : Append(q, e)[i] = q[i]
        /\ DOMAIN Append(q, e) = 1 .. Len(q) + 1 /\ DOMAIN q = 1 .. Len(q)
    BY <1>1
  <2>2. ASSUME NEW i \in DOMAIN Append(q, e), Append(q, e)[i] = k
        PROVE  (\E j \in DOMAIN q : q[j] = k) \/ k = e
    BY <2>1, <2>2
  <2>3. ASSUME NEW i \in DOMAIN q, q[i] = k
        PROVE  \E j \in DOMAIN Append(q, e) : Append(q, e)[j] = k
    <3>1. i \in DOMAIN Append(q, e) /\ Append(q, e)[i] = k
      BY <2>1, <2>3
    <3> QED
      BY <3>1
  <2>4. ASSUME k = e PROVE \E j \in DOMAIN Append(q, e) : Append(q, e)[j] = k
    <3>1. Len(q) + 1 \in DOMAIN Append(q, e) /\ Append(q, e)[Len(q) + 1] = k
      BY <2>1, <2>4
    <3> QED
      BY <3>1
  <2> QED
    BY <2>2, <2>3, <2>4
<1> QED
  BY <1>2 DEF Has, q

LEMMA HasTail ==
  ASSUME Types, NEW o \in Object, events[o] # <<>>, events'[o] = Tail(events[o])
  PROVE  \A k : /\ Has(o, k)' => Has(o, k)
                /\ Has(o, k) => Has(o, k)' \/ k = Head(events[o])
<1> DEFINE q == events[o]
<1>1. q \in Seq(News) /\ q # <<>>
  BY DEF Types, EventsType
<1> HIDE DEF q
<1>2. ASSUME NEW k
      PROVE  /\ (\E i \in DOMAIN Tail(q) : Tail(q)[i] = k) => (\E i \in DOMAIN q : q[i] = k)
             /\ (\E i \in DOMAIN q : q[i] = k) =>
                  (\E i \in DOMAIN Tail(q) : Tail(q)[i] = k) \/ k = Head(q)
  <2>1. ASSUME NEW i \in DOMAIN Tail(q), Tail(q)[i] = k
        PROVE  \E j \in DOMAIN q : q[j] = k
    <3>1. i + 1 \in DOMAIN q /\ q[i + 1] = k
      BY <1>1, <2>1
    <3> QED
      BY <3>1
  <2>2. ASSUME NEW i \in DOMAIN q, q[i] = k, k # Head(q)
        PROVE  \E j \in DOMAIN Tail(q) : Tail(q)[j] = k
    <3>1. i - 1 \in DOMAIN Tail(q) /\ Tail(q)[i - 1] = k
      BY <1>1, <2>2
    <3> QED
      BY <3>1
  <2> QED
    BY <2>1, <2>2
<1> QED
  BY <1>2 DEF Has, q

LEMMA CAnswers ==
  ASSUME Types, Calm, NEW o \in Object, Authenticate(o) \/ Refuse(o) PROVE Calm'
<1>1. UNCHANGED <<up, mem, made, call, session, scan, writing, row>> /\ conn[o] = "login"
  BY DEF Authenticate, Refuse, store
<1>2. SameDevs /\ ScansCalm'
  BY <1>1, SessionKept, ScansKept DEF Types, Calm
<1>3. PICK e \in News \ {"logged_out"} : Dispatch(o, e) /\ (Authenticate(o) => e = "connected")
  BY DEF Authenticate, Refuse, News
<1>4. /\ \A n \in Object \ {o} : events'[n] = events[n]
      /\ events'[o] = Append(events[o], e) \/ events'[o] = events[o]
      /\ session[o].handlers > 0 => events'[o] = Append(events[o], e)
  BY <1>1, <1>3, DispatchSet DEF Types
<1>5. PICK s \in {"in", "deaf", "off"} :
        /\ conn' = [conn EXCEPT ![o] = s]
        /\ s = "in" => Authenticate(o) /\ session[o].handlers > 0
  BY DEF Authenticate, Refuse
<1>6. conn'[o] = s /\ \A n \in Object \ {o} : conn'[n] = conn[n]
  <2>1. s \in Conns
    BY DEF Conns
  <2> QED
    BY <1>5, <2>1, ConnSet DEF Types
<1>7. Linked(o)' /\ Written(o)'
  BY <1>1 DEF Calm, Linked, Written, HasCredentials
<1>8. ~Has(o, "logged_out")'
  <2>1. ~Has(o, "logged_out")
    BY DEF Calm
  <2> QED
    BY <1>3, <1>4, <2>1, HasAppended DEF Has
<1>9. Recorded(o)'
  <2>1. ASSUME s = "in" PROVE Has(o, "connected")'
    <3>1. e = "connected" /\ events'[o] = Append(events[o], e)
      BY <1>3, <1>4, <1>5, <2>1
    <3> QED
      BY <3>1, HasAppended
  <2> QED
    BY <1>6, <2>1 DEF Recorded
<1> QED
  BY <1>1, <1>2, <1>4, <1>6, <1>7, <1>8, <1>9, ClientStep DEF Off

LEMMA CPairs == ASSUME Types, Types', Calm, NEW o \in Object, PairSuccess(o) PROVE Calm'
<1>1. UNCHANGED <<up, mem, made, call, writing, events, row>> /\ conn[o] = "pairing"
      /\ ~HasCredentials(o)
  BY DEF PairSuccess, HasCredentials, Blank, Device
<1>2. conn'[o] = "lost" /\ \A n \in Object \ {o} : conn'[n] = conn[n]
  BY ConnSet DEF Types, PairSuccess, Conns
<1>3. session'[o].dev = paired + 1 /\ paired + 1 \in Device
  BY DEF Types, SessionType, CountsType, PairSuccess, Device, Sess
<1>4. Linked(o)' /\ Written(o)' /\ Recorded(o)'
  BY <1>1, <1>2, <1>3 DEF Calm, Linked, Written, Recorded, HasCredentials
<1>5. ~Has(o, "logged_out")'
  BY <1>1 DEF Calm, Has
<1>6. ASSUME o = mem PROVE ScansCalm'
  <2>1. \A c \in Callers : scan[c].pc # "write"
    BY <1>1, <1>6 DEF Calm, ScansCalm
  <2>2. \A c \in Callers : scan'[c].pc = scan[c].pc /\ scan'[c].obj = scan[c].obj
    BY EmitSet DEF Types, PairSuccess, Items
  <2> QED
    BY <1>1, <2>1, <2>2 DEF Calm, ScansCalm
<1> QED
  BY <1>1, <1>2, <1>4, <1>5, <1>6, ClientStep DEF Off

LEMMA CLoses == ASSUME Types, Calm, NEW o \in Object, Lose(o) PROVE Calm'
<1>1. UNCHANGED <<up, mem, made, call, session, writing, row>> /\ IsConnected(o)
  BY DEF Lose, store
<1>2. SameDevs /\ ScansCalm'
  BY <1>1, SessionKept, ScansKept, EmitSet DEF Types, Calm, Lose, Items
<1>3. /\ \A n \in Object \ {o} : events'[n] = events[n]
      /\ events'[o] = Append(events[o], "down") \/ events'[o] = events[o]
  BY <1>1, DispatchSet DEF Types, Lose, News
<1>4. /\ conn'[o] = IF HasCredentials(o) THEN "lost" ELSE "off"
      /\ \A n \in Object \ {o} : conn'[n] = conn[n]
  BY ConnSet DEF Types, Conns, Lose
<1>5. Linked(o)' /\ Written(o)' /\ Recorded(o)'
  BY <1>1, <1>4 DEF Calm, Linked, Written, Recorded, HasCredentials
<1>6. ~Has(o, "logged_out")'
  <2>1. ~Has(o, "logged_out")
    BY DEF Calm
  <2> QED
    BY <1>3, <2>1, HasAppended DEF Has
<1> QED
  BY <1>1, <1>2, <1>3, <1>4, <1>5, <1>6, ClientStep DEF Off, IsConnected

LEMMA CReconnects == ASSUME Types, Calm, NEW o \in Object, AutoReconnect(o) PROVE Calm'
<1>1. UNCHANGED <<up, mem, made, call, session, scan, events, writing, row>> /\ conn[o] = "lost"
  BY DEF AutoReconnect, store
<1>2. SameDevs /\ ScansCalm'
  BY <1>1, SessionKept, ScansKept DEF Types, Calm
<1>3. /\ conn'[o] = IF HasCredentials(o) THEN "login" ELSE "off"
      /\ \A n \in Object \ {o} : conn'[n] = conn[n]
  BY ConnSet DEF Types, Conns, AutoReconnect
<1>4. (Linked(o) /\ Written(o) /\ Recorded(o) /\ ~Has(o, "logged_out"))'
  BY <1>1, <1>3 DEF Calm, Linked, Written, Recorded, HasCredentials, Has
<1> QED
  BY <1>1, <1>2, <1>3, <1>4, ClientStep DEF Off

LEMMA NotLoggedOut == ASSUME Types, Calm, NEW o \in Object PROVE ~HandleLoggedOut(o)
<1>1. ASSUME HandleLoggedOut(o) PROVE Has(o, "logged_out")
  <2> DEFINE q == events[o]
  <2>1. q \in Seq(News) /\ q # <<>> /\ Head(q) = "logged_out"
    BY <1>1 DEF Types, EventsType, HandleLoggedOut, Handling
  <2> HIDE DEF q
  <2>2. 1 \in DOMAIN q /\ q[1] = "logged_out"
    BY <2>1
  <2> QED
    BY <2>2 DEF Has, q
<1> QED
  BY <1>1 DEF Calm

LEMMA CHandles ==
  ASSUME Types, Calm, MemoryHasRow, ~DBFaults, NEW o \in Object, Handle(o)
  PROVE  Calm'
<1>1. UNCHANGED <<up, mem, made, call, scan>> /\ ~Off(o)
  BY DEF Handle, HandleConnected, HandleDown, HandleLoggedOut, HandlerWrites, Handling, Off
<1>2. o = mem
  BY <1>1 DEF Calm, OneObject
<1>3. ~HandleLoggedOut(o)
  BY NotLoggedOut
<1>4. SameDevs
  BY <1>3, StatusSet, SessionKept DEF Types, Handle, HandleConnected, HandleDown, HandlerWrites,
     Statuses
<1>5. ScansCalm'
  BY <1>1, <1>4, ScansKept DEF Calm
<1>6. conn' = conn
  BY <1>3 DEF Handle, HandleConnected, HandleDown, HandlerWrites
<1>7. /\ Linked(o) /\ Written(o) /\ Recorded(o) /\ ~Has(o, "logged_out")
      /\ session'[o].dev = session[o].dev
  BY <1>4 DEF Calm, SameDevs
<1>8. Linked(o)'
  BY <1>6, <1>7 DEF Linked, HasCredentials
<1>9. CASE HandleConnected(o) /\ HasCredentials(o)
  <2>1. row' = row /\ events' = events /\ writing' = [writing EXCEPT ![o] = session[o].dev]
    BY <1>9 DEF HandleConnected, store
  <2>2. writing'[o] = session[o].dev /\ \A n \in Object \ {o} : writing'[n] = writing[n]
    BY <2>1 DEF Types, WritingType
  <2>3. Written(o)' /\ Recorded(o)' /\ ~Has(o, "logged_out")'
    BY <1>7, <1>9, <2>1, <2>2 DEF Written, Recorded, Has, HasCredentials
  <2> QED
    BY <1>1, <1>5, <1>6, <1>8, <2>1, <2>2, <2>3, ClientStep
<1>10. CASE (HandleConnected(o) /\ ~HasCredentials(o)) \/ HandleDown(o)
  <2>1. /\ row' = row /\ writing' = writing /\ writing[o] = None /\ events[o] # <<>>
        /\ EventDone(o) /\ (~HasCredentials(o) \/ Head(events[o]) = "down")
    BY <1>10 DEF HandleConnected, HandleDown, Handling, store
  <2>2. events'[o] = Tail(events[o]) /\ \A n \in Object \ {o} : events'[n] = events[n]
    BY <2>1, EventDoneSet DEF Types
  <2>3. ~Has(o, "logged_out")'
    BY <1>7, <2>1, <2>2, HasTail
  <2>4. Written(o)'
    BY <2>1 DEF Written
  <2>5. Recorded(o)'
    <3>1. CASE ~HasCredentials(o)
      BY <1>6, <1>7, <3>1 DEF Linked, Recorded
    <3>2. CASE Head(events[o]) = "down"
      <4>1. Has(o, "connected") => Has(o, "connected")'
        BY <2>1, <2>2, <3>2, HasTail
      <4> QED
        BY <1>6, <1>7, <2>1, <4>1 DEF Recorded
    <3> QED
      BY <2>1, <3>1, <3>2
  <2> QED
    BY <1>1, <1>5, <1>6, <1>8, <2>1, <2>2, <2>3, <2>4, <2>5, ClientStep
<1>11. CASE HandlerWrites(o)
  <2>1. /\ UpdateJID(writing[o]) /\ devices' = devices /\ EventDone(o) /\ writing[o] # None
        /\ writing' = [writing EXCEPT ![o] = None]
    BY <1>11 DEF HandlerWrites
  <2>2. events[o] # <<>> /\ writing[o] = session[o].dev /\ HasCredentials(o)
    BY <1>7, <2>1 DEF Types, EventsType, Written
  <2>3. events'[o] = Tail(events[o]) /\ \A n \in Object \ {o} : events'[n] = events[n]
    BY <2>1, <2>2, EventDoneSet DEF Types
  <2>4. writing'[o] = None /\ \A n \in Object \ {o} : writing'[n] = writing[n]
    BY <2>1 DEF Types, WritingType
  <2>5. row.there /\ writing[o] \in {Blank} \cup Device
    BY <1>2, <2>2 DEF MemoryHasRow, Object, HasCredentials
  <2>6. row'.jid = session[o].dev
    BY <2>1, <2>2, <2>5, UpdateSet DEF Types
  <2>7. Recorded(o)' /\ Written(o)'
    BY <1>7, <2>4, <2>6 DEF Recorded, Written
  <2>8. ~Has(o, "logged_out")'
    BY <1>7, <2>2, <2>3, HasTail
  <2> QED
    BY <1>1, <1>5, <1>6, <1>8, <2>3, <2>4, <2>7, <2>8, ClientStep
<1> QED
  BY <1>3, <1>9, <1>10, <1>11 DEF Handle

------------------------------------------------------------------------------
LEMMA CLoads == ASSUME Types, Calm, Load PROVE Calm'
<1>1. UNCHANGED <<row, conn, events, writing, scan>> /\ mem = 0 /\ made = 0 /\ up'
  BY DEF Load, store, client, Calm, OneObject
<1>2. \A o \in Object : Off(o)
  BY <1>1 DEF Calm, OneObject, Object
<1>3. /\ \A d \in Threads : call[d].pc = "idle"
      /\ \A d \in Callers : scan[d].pc = "off"
  BY <1>1 DEF Calm, CallsCalm, ScansCalm
<1>4. (mem' = 1 /\ made' = 1) \/ (mem' = mem /\ made' = made /\ call' = call)
  BY DEF Load
<1>5. OneObject' /\ ScansCalm'
  BY <1>1, <1>2, <1>3, <1>4 DEF OneObject, Off, ScansCalm
<1>6. CallsCalm'
  <2> DEFINE r == [pc |-> "begin", op |-> "reconnect", obj |-> 1]
  <2>1. call' = call \/ (call' = [call EXCEPT ![Boot] = r] /\ mem' = 1)
    BY DEF Load
  <2>2. \A d \in Threads : call'[d] = call[d] \/ (call'[d] = r /\ mem' = 1)
    BY <2>1 DEF Types, CallType
  <2> QED
    BY <1>3, <2>2 DEF CallsCalm, Working
<1>7. ASSUME NEW o \in Object
      PROVE  (Linked(o) /\ Written(o) /\ Recorded(o) /\ ~Has(o, "logged_out"))'
  BY <1>1, <1>2 DEF Off, Linked, Written, Recorded, Has
<1> QED
  BY <1>5, <1>6, <1>7 DEF Calm

LEMMA CCrashes == Crash => Calm'
BY DEF Crash, Calm, OneObject, CallsCalm, ScansCalm, Off, Linked, Written, Recorded, Has, Idle,
   NoScan

LEMMA CInit == Init => CInv
<1>1. Init => Calm
  BY DEF Init, Calm, OneObject, CallsCalm, ScansCalm, Off, Linked, Written, Recorded, Has, Idle,
     NoScan
<1> QED
  BY <1>1, TInit, Initial DEF CInv

LEMMA EndedStays == ASSUME Next PROVE ended' = ended \/ ended' = TRUE
BY ZenonT(60) DEF Next, Load, Crash, Step, SetUp, Begin, SetFlag, AddEventHandler, Dial, GoWithQR,
   GoPanics, Go, Redial, Report, DisconnectDone, LogoutStep, LogoutSend, LogoutClear,
   LogoutReset, DeleteStep, DeleteUnlink, DeleteForget, DeleteRow, Request, Create, Connect,
   Disconnect, Restart, Logout, Delete, Scan, ScanOpen, ScanDial, ScanCode, ScanSuccess,
   ScanWrite, ScanTimeout, ScanError, Codes, EmitCode, EmitTimeout, EmitError, Answer,
   Authenticate, Refuse, Unlink, PairSuccess, Lose, AutoReconnect, Handle, HandleConnected,
   HandleDown, HandleLoggedOut, HandlerWrites

LEMMA CNext == CInv /\ [Next]_vars => CInv'
<1> SUFFICES ASSUME CInv, [Next]_vars PROVE CInv'
  OBVIOUS
<1>1. Types' /\ IInv'
  BY TNext, Inductive DEF CInv
<1>2. SUFFICES ASSUME ~ended', ~DBFaults PROVE Calm'
  BY <1>1 DEF CInv
<1>3. CASE UNCHANGED vars
  BY <1>2, <1>3 DEF vars, store, client, counts, CInv, Calm, OneObject, CallsCalm, ScansCalm, Off,
     Linked, Written, Recorded, Has, HasCredentials
<1>4. CASE Next
  <2>1. ~ended
    BY <1>2, <1>4, EndedStays
  <2>2. Types /\ Calm /\ MemoryHasRow
    BY <1>2, <2>1 DEF CInv, IInv
  <2>3. CASE Load \/ Crash
    BY <2>2, <2>3, CLoads, CCrashes
  <2>4. CASE \E c \in Threads : Step(c)
    BY <2>2, <2>4, CSetsUp, CDials, NoLogout DEF Step
  <2>5. CASE \E c \in Callers : Request(c)
    <3>1. ASSUME NEW c \in Callers PROVE ~Logout(c) /\ ~Delete(c)
      BY <1>2 DEF Logout, Delete
    <3> QED
      BY <2>2, <2>5, <3>1, CCreates, CAsks DEF Request
  <2>6. CASE \E c \in Callers : Scan(c) \/ Codes(c)
    BY <1>2, <2>2, <2>6, CScans, CCodes
  <2>7. CASE \E o \in Object :
              Answer(o) \/ PairSuccess(o) \/ Lose(o) \/ AutoReconnect(o) \/ Handle(o)
    <3>1. ASSUME NEW o \in Object PROVE ~Unlink(o)
      BY <1>2 DEF Unlink
    <3> QED
      BY <1>1, <1>2, <2>2, <2>7, <3>1, CAnswers, CPairs, CLoses, CReconnects, CHandles DEF Answer
  <2> QED
    BY <1>4, <2>3, <2>4, <2>5, <2>6, <2>7 DEF Next
<1> QED
  BY <1>3, <1>4

------------------------------------------------------------------------------
(* The row never has another device than the session in memory: it keeps   *)
(* a device the client library knows, and only a session it is the device  *)
(* of writes one to it.  A login nobody heard is in this, too.             *)

RowKnown == row.jid # Blank => row.jid \in devices /\ row.there
RowLoaded == up /\ mem = 0 => ~row.there
RowMatches == mem # 0 => /\ row.jid \in {Blank, session[mem].dev}
                         /\ HasCredentials(mem) => session[mem].dev \in devices
RowOwn == RowKnown /\ RowLoaded /\ RowMatches
OInv == CInv /\ (~ended /\ ~DBFaults => RowOwn)

LEMMA MapObject == ASSUME Types PROVE mem # 0 => mem \in Object
BY DEF Types, CountsType, Object

(* Steps that leave the session its device, and write at most this to the  *)
(* row.                                                                    *)
LEMMA OwnStays ==
  ASSUME Types, RowOwn, UNCHANGED <<up, mem, devices>>, SameDevs,
         \/ row' = row
         \/ /\ mem # 0 /\ HasCredentials(mem) /\ row'.there = row.there
            /\ row.there /\ row'.jid = session[mem].dev
  PROVE  RowOwn'
<1>1. mem # 0 => mem \in Object /\ session'[mem].dev = session[mem].dev
  BY MapObject DEF SameDevs
<1>2. CASE row' = row
  BY <1>1, <1>2 DEF RowOwn, RowKnown, RowLoaded, RowMatches, HasCredentials
<1>3. CASE /\ mem # 0 /\ HasCredentials(mem) /\ row'.there = row.there
           /\ row.there /\ row'.jid = session[mem].dev
  BY <1>1, <1>3 DEF RowOwn, RowKnown, RowLoaded, RowMatches, HasCredentials
<1> QED
  BY <1>2, <1>3

LEMMA OwnWritten ==
  ASSUME Types, MemoryHasRow, ~DBFaults, mem # 0, HasCredentials(mem),
         UpdateJID(session[mem].dev), devices' = devices
  PROVE  row'.there = row.there /\ row.there /\ row'.jid = session[mem].dev
<1>1. row' = [row EXCEPT !.jid = IF row.there THEN session[mem].dev ELSE @] /\ row.there
  BY DEF UpdateJID, MemoryHasRow
<1> QED
  BY <1>1 DEF Types, StoreType

LEMMA OCalls ==
  ASSUME Types, RowOwn, NEW c \in Threads, SetUp(c) \/ Dial(c) \/ DisconnectDone(c)
  PROVE  RowOwn'
<1>1. UNCHANGED <<up, mem, row, devices>>
  BY DEF SetUp, Begin, SetFlag, AddEventHandler, Dial, GoWithQR, GoPanics, Go, Redial, Report,
     DisconnectDone, store
<1>2. SameDevs
  <2>1. CASE SetUp(c)
    BY <2>1 DEF Types, SessionType, Sess, SameDevs, SetUp, Begin, SetFlag, AddEventHandler, Status
  <2>2. CASE Dial(c) \/ DisconnectDone(c)
    <3>1. session' = session \/ \E o, s : s \in Statuses /\ Status(o, s)
      BY <2>2 DEF Dial, GoWithQR, GoPanics, Go, Redial, Report, DisconnectDone, Statuses
    <3> QED
      BY <3>1, StatusSet, SessionKept DEF Types
  <2> QED
    BY <2>1, <2>2
<1> QED
  BY <1>1, <1>2, OwnStays

LEMMA OAsks ==
  ASSUME Types, RowOwn, NEW c \in Callers, Connect(c) \/ Disconnect(c) \/ Restart(c)
  PROVE  RowOwn'
<1>1. UNCHANGED <<up, mem, row, devices>>
  BY DEF Connect, Disconnect, Restart, store
<1>2. session' = session \/ Status(mem, "disconnected")
  BY DEF Connect, Disconnect, Restart
<1>3. SameDevs
  BY <1>2, StatusSet, SessionKept DEF Types, Statuses
<1> QED
  BY <1>1, <1>3, OwnStays

(* A session created has no row to take a device from.                     *)
LEMMA OCreates == ASSUME Types, RowOwn, NEW c \in Callers, Create(c) PROVE RowOwn'
<1>1. /\ up /\ mem = 0 /\ up' = up /\ devices' = devices /\ mem' = made + 1
      /\ made + 1 \in Object
  BY DEF Create, Arrives, Types, CountsType, Object
<1>2. row.jid = Blank /\ row' = [there |-> TRUE, jid |-> IF row.there THEN row.jid ELSE Blank]
  BY <1>1 DEF Create, RowOwn, RowKnown, RowLoaded
<1>3. row'.jid = Blank
  BY <1>2
<1>4. session'[mem'].dev = Blank
  BY <1>1 DEF Create, NewSession, Types, SessionType
<1>5. mem' # 0
  BY <1>1 DEF Object
<1>6. ~HasCredentials(mem)'
  BY <1>4 DEF HasCredentials, Device, Blank
<1> QED
  BY <1>3, <1>5, <1>6 DEF RowOwn, RowKnown, RowLoaded, RowMatches

LEMMA OScans ==
  ASSUME Types, Calm, MemoryHasRow, ~DBFaults, RowOwn, NEW c \in Callers, Scan(c)
  PROVE  RowOwn'
<1>1. UNCHANGED <<up, mem, devices>> /\ scan[c].pc # "off"
  BY DEF Scan, ScanOpen, ScanDial, ScanCode, ScanSuccess, ScanWrite, ScanTimeout, ScanError,
     Item, store
<1>2. SameDevs
  BY ScanSessions
<1>3. CASE ScanWrite(c)
  <2>1. mem # 0 /\ HasCredentials(mem) /\ UpdateJID(session[mem].dev)
    BY <1>3 DEF ScanWrite, Calm, ScansCalm
  <2> QED
    BY <1>1, <1>2, <2>1, OwnWritten, OwnStays
<1>4. CASE ~ScanWrite(c)
  <2>1. row' = row
    BY <1>4 DEF Scan, ScanOpen, ScanDial, ScanCode, ScanSuccess, ScanTimeout, ScanError, store
  <2> QED
    BY <1>1, <1>2, <2>1, OwnStays
<1> QED
  BY <1>3, <1>4

LEMMA OConnections ==
  ASSUME Types, RowOwn,
         \/ \E c \in Callers : Codes(c)
         \/ \E o \in Object : Authenticate(o) \/ Refuse(o) \/ Lose(o) \/ AutoReconnect(o)
  PROVE  RowOwn'
<1>1. UNCHANGED <<up, mem, row, devices, session>>
  BY DEF Codes, EmitCode, EmitTimeout, EmitError, Authenticate, Refuse, Lose, AutoReconnect, store
<1> QED
  BY <1>1, SessionKept, OwnStays DEF Types

(* Only the session in memory pairs, and only while it has no device.      *)
LEMMA OPairs ==
  ASSUME Types, Types', Calm, RowOwn, NEW o \in Object, PairSuccess(o) PROVE RowOwn'
<1>1. /\ UNCHANGED <<up, mem, row>> /\ conn[o] = "pairing" /\ session[o].dev = Blank
      /\ devices' = devices \cup {paired + 1}
      /\ session' = [session EXCEPT ![o].dev = paired + 1]
  BY DEF PairSuccess
<1>2. o = mem /\ mem # 0
  BY <1>1 DEF Calm, OneObject, Off, Object
<1>3. row.jid = Blank
  BY <1>1, <1>2 DEF RowOwn, RowMatches
<1>4. session'[mem].dev = paired + 1
  BY <1>1, <1>2 DEF Types, SessionType, Sess
<1> QED
  BY <1>1, <1>2, <1>3, <1>4 DEF RowOwn, RowKnown, RowLoaded, RowMatches

LEMMA OHandles ==
  ASSUME Types, Calm, MemoryHasRow, ~DBFaults, RowOwn, NEW o \in Object, Handle(o)
  PROVE  RowOwn'
<1>1. UNCHANGED <<up, mem>> /\ ~Off(o)
  BY DEF Handle, HandleConnected, HandleDown, HandleLoggedOut, HandlerWrites, Handling, Off
<1>2. o = mem /\ mem # 0
  BY <1>1 DEF Calm, OneObject, Object
<1>3. ~HandleLoggedOut(o)
  BY NotLoggedOut
<1>4. SameDevs
  BY <1>3, StatusSet, SessionKept DEF Types, Handle, HandleConnected, HandleDown, HandlerWrites,
     Statuses
<1>5. CASE HandlerWrites(o)
  <2>1. devices' = devices /\ HasCredentials(mem) /\ UpdateJID(session[mem].dev)
    BY <1>2, <1>5 DEF HandlerWrites, Calm, Written
  <2> QED
    BY <1>1, <1>2, <1>4, <2>1, OwnWritten, OwnStays
<1>6. CASE HandleConnected(o) \/ HandleDown(o)
  <2>1. row' = row /\ devices' = devices
    BY <1>6 DEF HandleConnected, HandleDown, store
  <2> QED
    BY <1>1, <1>4, <2>1, OwnStays
<1> QED
  BY <1>3, <1>5, <1>6 DEF Handle

LEMMA OLoads == ASSUME Types, Calm, ~DBFaults, RowOwn, Load PROVE RowOwn'
<1>1. UNCHANGED <<row, devices>> /\ mem = 0 /\ up'
  BY DEF Load, store, Calm, OneObject
<1>2. CASE row.there
  <2>1. mem' = 1 /\ session' = [session EXCEPT ![1] = NewSession(DeviceOf(row.jid))]
    BY <1>2 DEF Load
  <2>2. session'[1].dev = DeviceOf(row.jid)
    BY <2>1, FirstObject DEF Types, SessionType, NewSession
  <2>3. DeviceOf(row.jid) = row.jid
    BY DEF DeviceOf, RowOwn, RowKnown
  <2>4. HasCredentials(mem)' => row.jid \in devices
    BY <2>1, <2>2, <2>3 DEF HasCredentials, RowOwn, RowKnown, Device, Blank
  <2> QED
    BY <1>1, <2>1, <2>2, <2>3, <2>4 DEF RowOwn, RowKnown, RowLoaded, RowMatches
<1>3. CASE ~row.there
  <2>1. mem' = 0
    BY <1>1, <1>3 DEF Load
  <2> QED
    BY <1>1, <1>3, <2>1 DEF RowOwn, RowKnown, RowLoaded, RowMatches
<1> QED
  BY <1>2, <1>3

LEMMA OCrashes == ASSUME RowOwn, Crash PROVE RowOwn'
BY DEF Crash, RowOwn, RowKnown, RowLoaded, RowMatches, store

LEMMA OInit == Init => OInv
<1>1. Init => RowOwn
  BY DEF Init, RowOwn, RowKnown, RowLoaded, RowMatches
<1> QED
  BY <1>1, CInit DEF OInv

LEMMA ONext == OInv /\ [Next]_vars => OInv'
<1> SUFFICES ASSUME OInv, [Next]_vars PROVE OInv'
  OBVIOUS
<1>1. CInv' /\ Types'
  BY CNext DEF OInv, CInv
<1>2. SUFFICES ASSUME ~ended', ~DBFaults PROVE RowOwn'
  BY <1>1 DEF OInv
<1>3. CASE UNCHANGED vars
  BY <1>2, <1>3 DEF vars, store, client, OInv, RowOwn, RowKnown, RowLoaded, RowMatches,
     HasCredentials
<1>4. CASE Next
  <2>1. ~ended
    BY <1>2, <1>4, EndedStays
  <2>2. Types /\ Calm /\ MemoryHasRow /\ RowOwn
    BY <1>2, <2>1 DEF OInv, CInv, IInv
  <2>3. CASE Load \/ Crash
    BY <1>2, <2>2, <2>3, OLoads, OCrashes
  <2>4. CASE \E c \in Threads : Step(c)
    BY <2>2, <2>4, OCalls, NoLogout DEF Step
  <2>5. CASE \E c \in Callers : Request(c)
    <3>1. ASSUME NEW c \in Callers PROVE ~Logout(c) /\ ~Delete(c)
      BY <1>2 DEF Logout, Delete
    <3> QED
      BY <2>2, <2>5, <3>1, OCreates, OAsks DEF Request
  <2>6. CASE \E c \in Callers : Scan(c) \/ Codes(c)
    BY <1>2, <2>2, <2>6, OScans, OConnections
  <2>7. CASE \E o \in Object :
              Answer(o) \/ PairSuccess(o) \/ Lose(o) \/ AutoReconnect(o) \/ Handle(o)
    <3>1. ASSUME NEW o \in Object PROVE ~Unlink(o)
      BY <1>2 DEF Unlink
    <3> QED
      BY <1>1, <1>2, <2>2, <2>7, <3>1, OConnections, OPairs, OHandles DEF Answer
  <2> QED
    BY <1>4, <2>3, <2>4, <2>5, <2>6, <2>7 DEF Next
<1> QED
  BY <1>3, <1>4

(* Once all work is done and nobody logged out, a session that is logged   *)
(* in and whose client told the server so (event.handleConnected) is       *)
(* recorded with the device it is logged in with, whatever connections are *)
(* lost and whatever starts, QR loops and crashes come in between; the row *)
(* of a login nobody heard has this device or none, never another.         *)
THEOREM LoginsAreRecorded == Spec => []LoggedInIsRecorded
<1>1. OInv => LoggedInIsRecorded
  <2> SUFFICES ASSUME OInv, Quiet, ~DBFaults, ~ended, mem # 0
               PROVE  /\ conn[mem] = "in" => row.jid = session[mem].dev
                      /\ conn[mem] = "deaf" => row.jid \in {Blank, session[mem].dev}
    BY DEF LoggedInIsRecorded
  <2>1. ASSUME conn[mem] = "in" PROVE row.jid = session[mem].dev
    <3>1. mem \in Object
      BY DEF OInv, CInv, Types, CountsType, Object
    <3>2. /\ Recorded(mem) /\ HasCredentials(mem) /\ events[mem] = <<>> /\ writing[mem] = None
      BY <2>1, <3>1 DEF OInv, CInv, Calm, Linked, Quiet
    <3>3. ~Has(mem, "connected") /\ writing[mem] # session[mem].dev
      BY <3>2 DEF Has, HasCredentials, Device, None
    <3> QED
      BY <2>1, <3>2, <3>3 DEF Recorded
  <2> QED
    BY <2>1 DEF OInv, RowOwn, RowMatches
<1> QED
  BY <1>1, OInit, ONext, PTL DEF Spec

------------------------------------------------------------------------------
(* Somebody is at work on every session that is "connecting".  The object  *)
(* of a call or a QR loop was made by this process; a session that is      *)
(* "connecting" has its event handler, or the call that registers it is    *)
(* under way, so that the events that answer the attempt are heard; and    *)
(* every step that ends one of the attendants leaves another or sets the   *)
(* status.                                                                 *)

Resting == {"idle", "begin", "redial", "drop"}
Numbered ==
  /\ mem <= made /\ (~up => made = 0)
  /\ \A c \in Threads : call[c].pc # "idle" => call[c].obj <= made
  /\ \A c \in Callers : scan[c].pc # "off" => scan[c].obj <= made
ScanFree == \A c \in Threads : call[c].op = "connect" => c \in Callers /\ scan[c].pc = "off"
Adding(o, pc) == \E c \in Threads : call[c].pc = pc /\ call[c].obj = o
Heard == \A o \in Object : session[o].set => session[o].handlers > 0 \/ Adding(o, "add")
FlagSet == \A o \in Object :
  /\ \A c \in Threads : call[c].obj = o /\ call[c].pc \in {"add", "go"} => session[o].set
  /\ \A c \in Callers : scan[c].obj = o /\ scan[c].pc # "off" => session[o].set
Flagged == \A o \in Object :
  session[o].status = "connecting" => session[o].set \/ Adding(o, "set")
Flags == Numbered /\ ScanFree /\ Heard /\ FlagSet /\ Flagged

Attended(o) == CallUnderWay(o) \/ ScanUnderWay(o) \/ EventWaits(o) \/ LoginUnderWay(o)
Answered(o) == session[o].status = "connecting" => Attended(o) \/ Unanswered(o)
AInv == Types /\ IInv /\ Flags /\ ConnectingIsAttended

LEMMA AnsweredIs == ConnectingIsAttended <=> \A o \in Object : Answered(o)
BY DEF ConnectingIsAttended, Answered, Attended

SetSame == \A n \in Object : /\ session'[n].set = session[n].set
                             /\ session'[n].handlers = session[n].handlers
SessOnly(o) == \A n \in Object \ {o} : session'[n] = session[n]
ConnOnly(o) == \A n \in Object \ {o} : conn'[n] = conn[n]
EventsOnly(o) == \A n \in Object \ {o} : events'[n] = events[n] /\ writing'[n] = writing[n]

(* Steps that register no handler.                                         *)
LEMMA FlagsKept ==
  ASSUME Flags, UNCHANGED <<made, up>>, mem' = mem \/ mem' = 0, Types, SetSame,
         \A d \in Threads :
           \/ call'[d] = call[d]
           \/ /\ call[d].pc \notin {"set", "add"} /\ call'[d].pc # "add"
              /\ call'[d].pc # "idle" => call'[d].obj \in {call[d].obj, mem}
              /\ call'[d].pc # "idle" /\ call[d].pc = "idle" => call'[d].obj = mem
              /\ call'[d].pc = "go" => \A o \in Object : call'[d].obj = o => session[o].set,
         \A d \in Threads : call'[d].op = "connect" => d \in Callers /\ scan'[d].pc = "off",
         \A d \in Callers : scan'[d].pc # "off" =>
           \/ scan'[d].obj = scan[d].obj /\ scan[d].pc # "off"
           \/ /\ scan'[d].obj <= made
              /\ \A o \in Object : scan'[d].obj = o => session[o].set,
         \A o \in Object : session'[o].status = "connecting" =>
           session[o].status = "connecting" \/ session[o].set \/ Adding(o, "set")'
  PROVE  Flags'
<1>1. Numbered'
  <2>1. mem \in Nat /\ made \in Nat
    BY DEF Types, CountsType
  <2> QED
    BY <2>1 DEF Flags, Numbered
<1>2. ScanFree'
  BY DEF ScanFree
<1>3. ASSUME NEW o \in Object, NEW pc \in {"set", "add"}, Adding(o, pc) PROVE Adding(o, pc)'
  <2>1. PICK c \in Threads : call[c].pc = pc /\ call[c].obj = o
    BY <1>3 DEF Adding
  <2>2. call'[c] = call[c]
    BY <1>3, <2>1
  <2> QED
    BY <2>1, <2>2 DEF Adding
<1>4. Heard'
  BY <1>3 DEF Flags, Heard, SetSame
<1>5. FlagSet'
  BY DEF Flags, FlagSet, SetSame
<1>6. Flagged'
  BY <1>3 DEF Flags, Flagged, SetSame
<1> QED
  BY <1>1, <1>2, <1>4, <1>5, <1>6 DEF Flags

(* A step at one object leaves the attempts on the others attended,        *)
LEMMA OthersAttended ==
  ASSUME ConnectingIsAttended, NEW o, SessOnly(o), ConnOnly(o), EventsOnly(o),
         \A d \in Threads : call'[d] = call[d] \/ call[d].obj = o \/ call[d].pc \in Resting,
         \A d \in Callers : \/ scan'[d].pc = scan[d].pc /\ scan'[d].obj = scan[d].obj
                            \/ scan[d].obj = o \/ scan[d].pc \in {"off", "write"},
         \A n \in Object \ {o} : mem # n => mem' # n,
         o \in Object => Answered(o)'
  PROVE  ConnectingIsAttended'
<1>1. ASSUME NEW n \in Object \ {o} PROVE Answered(n)'
  <2>1. /\ session'[n] = session[n] /\ conn'[n] = conn[n] /\ events'[n] = events[n]
        /\ writing'[n] = writing[n] /\ (mem # n => mem' # n)
    BY DEF SessOnly, ConnOnly, EventsOnly
  <2>2. CallUnderWay(n) => CallUnderWay(n)'
    BY DEF CallUnderWay, Resting
  <2>3. ScanUnderWay(n) => ScanUnderWay(n)'
    BY DEF ScanUnderWay
  <2>4. /\ EventWaits(n) => EventWaits(n)'
        /\ LoginUnderWay(n) => LoginUnderWay(n)'
        /\ Unanswered(n) => Unanswered(n)'
    BY <2>1 DEF EventWaits, LoginUnderWay, HasCredentials, Unanswered
  <2> QED
    BY <2>1, <2>2, <2>3, <2>4, AnsweredIs DEF Answered, Attended
<1>2. \A n \in Object : Answered(n)'
  BY <1>1
<1> QED
  BY <1>2 DEF ConnectingIsAttended, Answered, Attended

(* and one that takes nothing from its object the attempt there.           *)
LEMMA StillAttended ==
  ASSUME NEW o \in Object, Answered(o),
         session'[o].status = "connecting" => session[o].status = "connecting",
         CallUnderWay(o) => CallUnderWay(o)', ScanUnderWay(o) => ScanUnderWay(o)',
         EventWaits(o) => EventWaits(o)', LoginUnderWay(o) => LoginUnderWay(o)',
         Unanswered(o) => Unanswered(o)'
  PROVE  Answered(o)'
BY DEF Answered, Attended

Moved(c, pc) ==
  /\ call'[c].pc = pc /\ call'[c].obj = call[c].obj /\ call'[c].op = call[c].op
  /\ \A d \in Threads \ {c} : call'[d] = call[d]
Gone(c) ==
  /\ call'[c].pc = "idle" /\ call'[c].op = "none"
  /\ \A d \in Threads \ {c} : call'[d] = call[d]
LEMMA Moves == ASSUME Types, NEW c \in Threads, NEW pc, Goto(c, pc) PROVE Moved(c, pc)
<1> DEFINE r == [call[c] EXCEPT !.pc = pc]
<1>1. r.pc = pc /\ r.obj = call[c].obj /\ r.op = call[c].op
  BY DEF Types, CallType, CallState
<1>2. call' = [call EXCEPT ![c] = r]
  BY DEF Goto
<1> HIDE DEF r
<1> QED
  BY <1>1, <1>2 DEF Types, CallType, Moved
LEMMA Leaves == ASSUME Types, NEW c \in Threads, Return(c) PROVE Gone(c)
<1>1. Idle.pc = "idle" /\ Idle.op = "none"
  BY DEF Idle
<1> QED
  BY <1>1 DEF Return, Types, CallType, Gone

LEMMA SessionAt ==
  ASSUME SessionType, NEW o, NEW r, session' = [session EXCEPT ![o] = r]
  PROVE  SessOnly(o) /\ (o \in Object => session'[o] = r)
BY DEF SessionType, SessOnly
LEMMA StatusAt ==
  ASSUME SessionType, NEW o, NEW s, Status(o, s) \/ StatusQR(o, s)
  PROVE  /\ SessOnly(o) /\ SetSame
         /\ o \in Object => /\ session'[o].status = s /\ session'[o].dev = session[o].dev
                            /\ session'[o].lapsed = session[o].lapsed
<1> DEFINE r == [session[o] EXCEPT !.status = s]
           q == [session[o] EXCEPT !.status = s, !.qr = FALSE]
<1>1. o \in Object =>
        /\ r.status = s /\ r.set = session[o].set /\ r.handlers = session[o].handlers
        /\ r.dev = session[o].dev /\ r.lapsed = session[o].lapsed
        /\ q.status = s /\ q.set = session[o].set /\ q.handlers = session[o].handlers
        /\ q.dev = session[o].dev /\ q.lapsed = session[o].lapsed
  BY DEF SessionType, Sess
<1>2. session' = [session EXCEPT ![o] = r] \/ session' = [session EXCEPT ![o] = q]
  BY DEF Status, StatusQR
<1> HIDE DEF r, q
<1> QED
  BY <1>1, <1>2, SessionAt DEF SetSame, SessOnly
LEMMA SessionStays ==
  ASSUME session' = session PROVE SetSame /\ \A o : SessOnly(o)
BY DEF SetSame, SessOnly
LEMMA ConnAt ==
  ASSUME Types, NEW o, \/ conn' = conn \/ HangUp(o) \/ ConnectOk(o) \/ ConnectFails
                       \/ \E s \in Conns : conn' = [conn EXCEPT ![o] = s]
  PROVE  ConnOnly(o)
<1>1. CASE conn' = conn
  BY <1>1 DEF ConnOnly
<1>2. CASE HangUp(o)
  BY <1>2, HangUpSet DEF ConnOnly, Types
<1>3. CASE ConnectOk(o) \/ ConnectFails
  BY <1>3, ConnectSet DEF ConnOnly, Types
<1>4. CASE \E s \in Conns : conn' = [conn EXCEPT ![o] = s]
  BY <1>4, ConnSet DEF ConnOnly, Types
<1> QED
  BY <1>1, <1>2, <1>3, <1>4

------------------------------------------------------------------------------
(* Calls.                                                                  *)

(* A call that moves on where nothing is registered keeps the flags,       *)
LEMMA CallFlags ==
  ASSUME Flags, Types, NEW c \in Threads, UNCHANGED <<made, up, scan>>, mem' = mem \/ mem' = 0,
         SetSame, call[c].pc \notin {"set", "add", "idle"},
         Gone(c) \/ \E pc : pc \notin {"idle", "set", "add", "go"} /\ Moved(c, pc),
         \A o \in Object : session'[o].status = "connecting" => session[o].status = "connecting"
  PROVE  Flags'
<1>1. /\ \A d \in Threads \ {c} : call'[d] = call[d]
      /\ call'[c].pc \notin {"set", "add", "go"}
      /\ call'[c].pc # "idle" => call'[c].obj = call[c].obj
      /\ call'[c].op = "connect" => call[c].op = "connect"
  BY DEF Gone, Moved
<1>2. \A d \in Threads : call'[d].op = "connect" => d \in Callers /\ scan'[d].pc = "off"
  BY <1>1 DEF Flags, ScanFree
<1>3. \A d \in Threads :
        \/ call'[d] = call[d]
        \/ /\ call[d].pc \notin {"set", "add"} /\ call'[d].pc # "add"
           /\ call'[d].pc # "idle" => call'[d].obj \in {call[d].obj, mem}
           /\ call'[d].pc # "idle" /\ call[d].pc = "idle" => call'[d].obj = mem
           /\ call'[d].pc = "go" => \A o \in Object : call'[d].obj = o => session[o].set
  BY <1>1
<1> QED
  BY <1>2, <1>3, FlagsKept

(* and its object an attendant, or one that is needed no more.             *)
LEMMA CallAttended ==
  ASSUME ConnectingIsAttended, Types, NEW c \in Threads, UNCHANGED <<events, writing, scan>>,
         mem' = mem \/ mem' = 0, NEW o, call[c].obj = o, SessOnly(o), ConnOnly(o),
         \A d \in Threads \ {c} : call'[d] = call[d],
         o \in Object => Answered(o)'
  PROVE  ConnectingIsAttended'
<1>1. EventsOnly(o) /\ \A n \in Object \ {o} : mem # n => mem' # n
  BY DEF EventsOnly, Object
<1>2. \A d \in Threads : call'[d] = call[d] \/ call[d].obj = o \/ call[d].pc \in Resting
  OBVIOUS
<1> QED
  BY <1>1, <1>2, OthersAttended
LEMMA AtWork ==
  ASSUME NEW c \in Threads, call'[c].pc \notin Resting, NEW o, call'[c].obj = o
  PROVE  Answered(o)'
BY DEF Answered, Attended, CallUnderWay, Resting
LEMMA Over == ASSUME NEW o, session'[o].status # "connecting" PROVE Answered(o)'
BY DEF Answered

(* Steps with nothing to lose.                                             *)
LEMMA NothingLost ==
  ASSUME ConnectingIsAttended, UNCHANGED <<session, conn, events, writing>>,
         mem' = mem \/ mem' = 0,
         \A d \in Threads : call'[d] = call[d] \/ call[d].pc \in Resting,
         \A d \in Callers : \/ scan'[d].pc = scan[d].pc /\ scan'[d].obj = scan[d].obj
                            \/ scan[d].pc \in {"off", "write"}
  PROVE  ConnectingIsAttended'
<1>1. SessOnly(0) /\ ConnOnly(0) /\ EventsOnly(0) /\ 0 \notin Object
  BY DEF SessOnly, ConnOnly, EventsOnly, Object
<1>2. \A n \in Object \ {0} : mem # n => mem' # n
  BY DEF Object
<1>5. 0 \in Object => Answered(0)'
  BY <1>1
<1>3. \A d \in Threads : call'[d] = call[d] \/ call[d].obj = 0 \/ call[d].pc \in Resting
  OBVIOUS
<1>4. \A d \in Callers : \/ scan'[d].pc = scan[d].pc /\ scan'[d].obj = scan[d].obj
                         \/ scan[d].obj = 0 \/ scan[d].pc \in {"off", "write"}
  OBVIOUS
<1> QED
  BY <1>1, <1>2, <1>3, <1>4, <1>5, OthersAttended

LEMMA ABegins ==
  ASSUME Types, Flags, ConnectingIsAttended, NEW c \in Threads, Begin(c)
  PROVE  Flags' /\ ConnectingIsAttended'
<1> PICK o : o = call[c].obj
  OBVIOUS
<1>1. /\ UNCHANGED <<up, mem, made, events, writing, conn, scan>> /\ call[c].pc = "begin"
      /\ session' = session \/ Status(o, "connecting")
  BY DEF Begin, client
<1>2. PICK pc \in {"go", "set"} : /\ Moved(c, pc)
                                  /\ pc = "go" => session[o].set
                                  /\ pc = "set" => ~session[o].set
  BY Moves DEF Begin
<1>3. SetSame /\ SessOnly(o) /\ ConnOnly(o)
  BY <1>1, StatusAt, SessionStays, ConnAt DEF Types
<1>4. /\ \A d \in Threads \ {c} : call'[d] = call[d]
      /\ call'[c].pc = pc /\ call'[c].obj = o /\ call'[c].op = call[c].op
  BY <1>2 DEF Moved
<1>5. ConnectingIsAttended'
  <2>1. Answered(o)'
    BY <1>4, AtWork DEF Resting
  <2> QED
    BY <1>1, <1>3, <1>4, <2>1, CallAttended
<1>6. Flags'
  <2>1. \A d \in Threads : call'[d].op = "connect" => d \in Callers /\ scan'[d].pc = "off"
    BY <1>1, <1>4 DEF Flags, ScanFree
  <2>2. ASSUME NEW n \in Object, session'[n].status = "connecting"
        PROVE  session[n].status = "connecting" \/ session[n].set \/ Adding(n, "set")'
    <3>1. CASE n # o
      BY <1>3, <2>2, <3>1 DEF SessOnly
    <3>2. CASE n = o
      BY <1>2, <1>4, <3>2 DEF Adding
    <3> QED
      BY <3>1, <3>2
  <2>3. \A d \in Threads :
          \/ call'[d] = call[d]
          \/ /\ call[d].pc \notin {"set", "add"} /\ call'[d].pc # "add"
             /\ call'[d].pc # "idle" => call'[d].obj \in {call[d].obj, mem}
             /\ call'[d].pc # "idle" /\ call[d].pc = "idle" => call'[d].obj = mem
             /\ call'[d].pc = "go" => \A n \in Object : call'[d].obj = n => session[n].set
    BY <1>1, <1>2, <1>4
  <2>4. \A d \in Callers : scan'[d].pc # "off" =>
          \/ scan'[d].obj = scan[d].obj /\ scan[d].pc # "off"
          \/ /\ scan'[d].obj <= made
             /\ \A n \in Object : scan'[d].obj = n => session[n].set
    BY <1>1
  <2> QED
    BY <1>1, <1>3, <2>1, <2>2, <2>3, <2>4, FlagsKept
<1> QED
  BY <1>5, <1>6

(* The flag first, then the handler.                                       *)
LEMMA ASetsFlag ==
  ASSUME Types, Flags, ConnectingIsAttended, NEW c \in Threads, SetFlag(c)
  PROVE  Flags' /\ ConnectingIsAttended'
<1> PICK o : o = call[c].obj
  OBVIOUS
<1>1. UNCHANGED <<up, mem, made, events, writing, conn, scan>> /\ call[c].pc = "set"
  BY DEF SetFlag, client
<1>2. /\ \A d \in Threads \ {c} : call'[d] = call[d]
      /\ call'[c].pc = "add" /\ call'[c].obj = o /\ call'[c].op = call[c].op
  BY Moves DEF SetFlag, Moved
<1>3. /\ SessOnly(o) /\ ConnOnly(o)
      /\ o \in Object => /\ session'[o].set /\ session'[o].handlers = session[o].handlers
                         /\ session'[o].status = session[o].status
  <2> DEFINE r == [session[o] EXCEPT !.set = TRUE]
  <2>1. o \in Object => /\ r.set /\ r.handlers = session[o].handlers
                        /\ r.status = session[o].status
    BY DEF Types, SessionType, Sess
  <2>2. session' = [session EXCEPT ![o] = r]
    BY DEF SetFlag
  <2> HIDE DEF r
  <2> QED
    BY <1>1, <2>1, <2>2, SessionAt, ConnAt DEF Types
<1>4. ConnectingIsAttended'
  <2>1. Answered(o)'
    BY <1>2, AtWork DEF Resting
  <2> QED
    BY <1>1, <1>2, <1>3, <2>1, CallAttended
<1>5. Numbered' /\ ScanFree'
  BY <1>1, <1>2 DEF Flags, Numbered, ScanFree
<1>6. Heard'
  BY <1>1, <1>2, <1>3 DEF Flags, Heard, Adding, SessOnly
<1>7. FlagSet'
  BY <1>1, <1>2, <1>3 DEF Flags, FlagSet, SessOnly
<1>8. Flagged'
  BY <1>1, <1>2, <1>3 DEF Flags, Flagged, Adding, SessOnly
<1> QED
  BY <1>4, <1>5, <1>6, <1>7, <1>8 DEF Flags

LEMMA AAddsHandler ==
  ASSUME Types, Flags, ConnectingIsAttended, NEW c \in Threads, AddEventHandler(c)
  PROVE  Flags' /\ ConnectingIsAttended'
<1> PICK o : o = call[c].obj
  OBVIOUS
<1>1. UNCHANGED <<up, mem, made, events, writing, conn, scan>> /\ call[c].pc = "add"
  BY DEF AddEventHandler, client
<1>2. /\ \A d \in Threads \ {c} : call'[d] = call[d]
      /\ call'[c].pc = "go" /\ call'[c].obj = o /\ call'[c].op = call[c].op
  BY Moves DEF AddEventHandler, Moved
<1>3. /\ SessOnly(o) /\ ConnOnly(o)
      /\ o \in Object => /\ session'[o].set = session[o].set /\ session'[o].handlers > 0
                         /\ session'[o].status = session[o].status
  <2> DEFINE r == [session[o] EXCEPT !.handlers = @ + 1]
  <2>1. o \in Object => /\ r.set = session[o].set /\ r.handlers > 0
                        /\ r.status = session[o].status
    <3>1. o \in Object => /\ session[o] \in Sess /\ session[o].handlers \in Nat
                          /\ r.handlers = session[o].handlers + 1
      BY DEF Types, SessionType, Sess
    <3> QED
      BY <3>1 DEF Sess
  <2>2. session' = [session EXCEPT ![o] = r]
    BY DEF AddEventHandler
  <2> HIDE DEF r
  <2> QED
    BY <1>1, <2>1, <2>2, SessionAt, ConnAt DEF Types
<1>4. ConnectingIsAttended'
  <2>1. Answered(o)'
    BY <1>2, AtWork DEF Resting
  <2> QED
    BY <1>1, <1>2, <1>3, <2>1, CallAttended
<1>5. Numbered' /\ ScanFree'
  BY <1>1, <1>2 DEF Flags, Numbered, ScanFree
<1>6. Heard'
  BY <1>1, <1>2, <1>3 DEF Flags, Heard, Adding, SessOnly
<1>7. FlagSet'
  BY <1>1, <1>2, <1>3 DEF Flags, FlagSet, SessOnly
<1>8. Flagged'
  BY <1>1, <1>2, <1>3 DEF Flags, Flagged, Adding, SessOnly
<1> QED
  BY <1>4, <1>5, <1>6, <1>7, <1>8 DEF Flags

(* The dialling: a QR loop takes over, the login is under way, the status  *)
(* says so, or the device is missing.                                      *)
LEMMA AGoesWithQR ==
  ASSUME Types, Flags, ConnectingIsAttended, NEW c \in Threads, GoWithQR(c)
  PROVE  Flags' /\ ConnectingIsAttended'
<1> PICK o : o = call[c].obj
  OBVIOUS
<1>1. /\ UNCHANGED <<up, mem, made, session, events, writing, conn>>
      /\ call[c].pc = "go" /\ call[c].op = "connect"
  BY DEF GoWithQR, client
<1>2. \A d \in Threads \ {c} : call'[d] = call[d]
  BY Leaves DEF GoWithQR, Gone
<1>3. call'[c].pc = "idle" /\ call'[c].op = "none"
  BY Leaves DEF GoWithQR, Gone
<1>4. c \in Callers /\ scan[c].pc = "off"
  BY <1>1 DEF Flags, ScanFree
<1>5. /\ scan'[c].pc = "open" /\ scan'[c].obj = o
      /\ \A d \in Callers \ {c} : scan'[d] = scan[d]
  <2> DEFINE r == [NoScan EXCEPT !.pc = "open", !.obj = o]
  <2>1. r.pc = "open" /\ r.obj = o
    BY DEF NoScan
  <2>2. scan' = [scan EXCEPT ![c] = r]
    BY DEF GoWithQR
  <2> HIDE DEF r
  <2> QED
    BY <1>4, <2>1, <2>2 DEF Types, ScanType
<1>6. o <= made /\ \A n \in Object : o = n => session[n].set
  BY <1>1 DEF Flags, Numbered, FlagSet
<1>7. Flags'
  <2>1. \A d \in Threads : call'[d].op = "connect" => d \in Callers /\ scan'[d].pc = "off"
    BY <1>2, <1>3, <1>5 DEF Flags, ScanFree
  <2>2. \A d \in Threads :
          \/ call'[d] = call[d]
          \/ /\ call[d].pc \notin {"set", "add"} /\ call'[d].pc # "add"
             /\ call'[d].pc # "idle" => call'[d].obj \in {call[d].obj, mem}
             /\ call'[d].pc # "idle" /\ call[d].pc = "idle" => call'[d].obj = mem
             /\ call'[d].pc = "go" => \A n \in Object : call'[d].obj = n => session[n].set
    BY <1>1, <1>2, <1>3
  <2>3. \A d \in Callers : scan'[d].pc # "off" =>
          \/ scan'[d].obj = scan[d].obj /\ scan[d].pc # "off"
          \/ /\ scan'[d].obj <= made
             /\ \A n \in Object : scan'[d].obj = n => session[n].set
    BY <1>4, <1>5, <1>6
  <2>4. SetSame
    BY <1>1, SessionStays
  <2> QED
    BY <1>1, <2>1, <2>2, <2>3, <2>4, FlagsKept
<1>8. ConnectingIsAttended'
  <2>1. Answered(o)'
    BY <1>4, <1>5 DEF Answered, Attended, ScanUnderWay
  <2>2. SessOnly(o) /\ ConnOnly(o) /\ EventsOnly(o)
    BY <1>1 DEF SessOnly, ConnOnly, EventsOnly
  <2>3. \A d \in Threads : call'[d] = call[d] \/ call[d].obj = o \/ call[d].pc \in Resting
    BY <1>2
  <2>4. \A d \in Callers : \/ scan'[d].pc = scan[d].pc /\ scan'[d].obj = scan[d].obj
                           \/ scan[d].obj = o \/ scan[d].pc \in {"off", "write"}
    BY <1>4, <1>5
  <2> QED
    BY <1>1, <2>1, <2>2, <2>3, <2>4, OthersAttended
<1> QED
  BY <1>7, <1>8

(* What calls do to their object starts no attempt and touches no handler. *)
NoAttempt(o) ==
  /\ SetSame /\ SessOnly(o)
  /\ \A n \in Object : session'[n].status = "connecting" => session[n].status = "connecting"
LEMMA RecordSet ==
  ASSUME Types, NEW o, NEW r, session' = [session EXCEPT ![o] = r],
         o \in Object => /\ r.set = session[o].set /\ r.handlers = session[o].handlers
                         /\ r.status = "connecting" => session[o].status = "connecting"
  PROVE  NoAttempt(o)
<1>1. SessOnly(o) /\ (o \in Object => session'[o] = r)
  BY SessionAt DEF Types
<1> QED
  BY <1>1 DEF NoAttempt, SetSame, SessOnly
LEMMA StatusSettles ==
  ASSUME Types, NEW o, NEW s, s # "connecting", Status(o, s) \/ StatusQR(o, s)
  PROVE  NoAttempt(o) /\ (o \in Object => Answered(o)')
<1>1. SetSame /\ SessOnly(o) /\ (o \in Object => session'[o].status = s)
  BY StatusAt DEF Types
<1> QED
  BY <1>1 DEF NoAttempt, SessOnly, Answered
LEMMA NothingSet == ASSUME session' = session PROVE \A o : NoAttempt(o)
BY DEF NoAttempt, SetSame, SessOnly
LEMMA DeviceSet == ASSUME Types, NEW o, RemoveDevice(o) PROVE NoAttempt(o) /\ ConnOnly(o)
<1> DEFINE r == [session[o] EXCEPT !.dev = IF HasCredentials(o) THEN Blank ELSE @]
<1>1. o \in Object => /\ r.set = session[o].set /\ r.handlers = session[o].handlers
                      /\ r.status = session[o].status
  BY DEF Types, SessionType, Sess
<1>2. session' = session \/ session' = [session EXCEPT ![o] = r]
  BY DEF RemoveDevice
<1>3. HangUp(o)
  BY DEF RemoveDevice
<1> HIDE DEF r
<1> QED
  BY <1>1, <1>2, <1>3, RecordSet, NothingSet, ConnAt

LEMMA ACallEnds ==
  ASSUME Types, Flags, ConnectingIsAttended, NEW c \in Threads,
         NEW o, o = call[c].obj, UNCHANGED <<up, made, events, writing, scan>>,
         mem' = mem \/ mem' = 0, call[c].pc \notin {"set", "add", "idle"},
         Gone(c) \/ \E pc : pc \notin {"idle", "set", "add", "go"} /\ Moved(c, pc),
         NoAttempt(o), ConnOnly(o), o \in Object => Answered(o)'
  PROVE  Flags' /\ ConnectingIsAttended'
<1>1. \A d \in Threads \ {c} : call'[d] = call[d]
  BY DEF Gone, Moved
<1>2. Flags'
  BY CallFlags DEF NoAttempt
<1>3. ConnectingIsAttended'
  BY <1>1, CallAttended DEF NoAttempt
<1> QED
  BY <1>2, <1>3

LEMMA AGoes ==
  ASSUME Types, Flags, ConnectingIsAttended, NEW c \in Threads,
         GoPanics(c) \/ Go(c) \/ Report(c) \/ DisconnectDone(c)
  PROVE  Flags' /\ ConnectingIsAttended'
<1> PICK o : o = call[c].obj
  OBVIOUS
<1>1. /\ UNCHANGED <<up, mem, made, events, writing, scan>>
      /\ call[c].pc \notin {"set", "add", "idle"}
  BY DEF GoPanics, Go, Report, DisconnectDone, client
<1>2. CASE GoPanics(c)
  <2>1. UNCHANGED <<session, conn>> /\ session[o].dev = NilDevice /\ Gone(c)
    BY <1>2, Leaves DEF GoPanics, client
  <2>2. NoAttempt(o) /\ ConnOnly(o) /\ Answered(o)'
    BY <2>1, NothingSet, ConnAt DEF Answered, Unanswered
  <2> QED
    BY <1>1, <2>1, <2>2, ACallEnds
<1>3. CASE Report(c) \/ DisconnectDone(c)
  <2>1. PICK s \in {"connected", "disconnected"} : Status(o, s) /\ conn' = conn /\ Gone(c)
    BY <1>3, Leaves DEF Report, DisconnectDone, client
  <2>2. NoAttempt(o) /\ ConnOnly(o) /\ (o \in Object => Answered(o)')
    BY <2>1, StatusSettles, ConnAt
  <2> QED
    BY <1>1, <2>1, <2>2, ACallEnds
<1>4. CASE Go(c)
  <2>1. CASE ConnectFails /\ Status(o, "disconnected") /\ Return(c)
    <3>1. NoAttempt(o) /\ ConnOnly(o) /\ (o \in Object => Answered(o)') /\ Gone(c)
      BY <2>1, StatusSettles, ConnAt, Leaves
    <3> QED
      BY <1>1, <3>1, ACallEnds
  <2>2. CASE ConnectOk(o) /\ session' = session /\ Goto(c, "report")
    <3>1. Moved(c, "report") /\ NoAttempt(o) /\ ConnOnly(o)
      BY <2>2, Moves, NothingSet, ConnAt
    <3>2. Answered(o)'
      BY <3>1, AtWork DEF Moved, Resting
    <3> QED
      BY <1>1, <3>1, <3>2, ACallEnds
  <2>3. CASE ConnectOk(o) /\ session' = session /\ Return(c) /\ HasCredentials(o)
    <3>1. Gone(c) /\ NoAttempt(o) /\ ConnOnly(o)
      BY <2>3, Leaves, NothingSet, ConnAt
    <3>2. o \in Object => conn'[o] = "login" /\ HasCredentials(o)'
      BY <2>3 DEF ConnectOk, HasCredentials, Types, ConnType
    <3>3. o \in Object => Answered(o)'
      BY <3>2 DEF Answered, Attended, LoginUnderWay
    <3> QED
      BY <1>1, <3>1, <3>3, ACallEnds
  <2> QED
    BY <1>4, <2>1, <2>2, <2>3 DEF Go
<1> QED
  BY <1>2, <1>3, <1>4

LEMMA ARedials ==
  ASSUME Types, Flags, ConnectingIsAttended, NEW c \in Threads, Redial(c)
  PROVE  Flags' /\ ConnectingIsAttended'
<1> PICK o : o = call[c].obj
  OBVIOUS
<1>1. /\ UNCHANGED <<up, mem, made, session, events, writing, scan>> /\ call[c].pc = "redial"
      /\ SetSame /\ NoAttempt(o)
  BY NothingSet, SessionStays DEF Redial
<1>2. CASE ConnectOk(o) /\ Goto(c, "report")
  <2>1. Moved(c, "report") /\ ConnOnly(o)
    BY <1>2, Moves, ConnAt
  <2>2. Answered(o)'
    BY <2>1, AtWork DEF Moved, Resting
  <2> QED
    BY <1>1, <2>1, <2>2, ACallEnds
<1>3. CASE ConnectFails /\ Return(c)
  <2>1. Gone(c) /\ conn' = conn
    BY <1>3, Leaves DEF ConnectFails
  <2>2. Flags'
    BY <1>1, <2>1, CallFlags
  <2>3. ConnectingIsAttended'
    BY <1>1, <2>1, NothingLost DEF Gone, Resting
  <2> QED
    BY <2>2, <2>3
<1> QED
  BY <1>2, <1>3 DEF Redial

LEMMA ALogsOut ==
  ASSUME Types, Flags, ConnectingIsAttended, NEW c \in Threads, LogoutStep(c)
  PROVE  Flags' /\ ConnectingIsAttended'
<1> PICK o : o = call[c].obj
  OBVIOUS
<1>1. /\ UNCHANGED <<up, mem, made, events, writing, scan>>
      /\ call[c].pc \notin {"set", "add", "idle"}
  BY DEF LogoutStep, LogoutSend, LogoutClear, LogoutReset, client
<1>2. CASE LogoutSend(c) \/ LogoutClear(c)
  <2>1. PICK pc \in {"clear", "reset"} : Moved(c, pc)
    BY <1>2, Moves DEF LogoutSend, LogoutClear
  <2>2. Answered(o)'
    BY <2>1, AtWork DEF Moved, Resting
  <2>3. NoAttempt(o) /\ ConnOnly(o)
    BY <1>2, DeviceSet, NothingSet, ConnAt DEF LogoutSend, LogoutClear, client
  <2> QED
    BY <1>1, <2>1, <2>2, <2>3, ACallEnds
<1>3. CASE LogoutReset(c)
  <2> DEFINE r == [session[o] EXCEPT !.dev = Blank, !.status = "disconnected", !.qr = FALSE]
  <2>1. o \in Object => /\ r.set = session[o].set /\ r.handlers = session[o].handlers
                        /\ r.status = "disconnected"
    BY DEF Types, SessionType, Sess
  <2>2. session' = [session EXCEPT ![o] = r] /\ conn' = conn /\ Gone(c)
    BY <1>3, Leaves DEF LogoutReset, client
  <2> HIDE DEF r
  <2>3. NoAttempt(o) /\ ConnOnly(o)
    BY <2>1, <2>2, RecordSet, ConnAt
  <2>4. o \in Object => Answered(o)'
    BY <2>1, <2>2, SessionAt, Over DEF Types
  <2> QED
    BY <1>1, <2>2, <2>3, <2>4, ACallEnds
<1> QED
  BY <1>2, <1>3 DEF LogoutStep

LEMMA ADeletes ==
  ASSUME Types, Flags, ConnectingIsAttended, NEW c \in Threads, DeleteStep(c)
  PROVE  Flags' /\ ConnectingIsAttended'
<1> PICK o : o = call[c].obj
  OBVIOUS
<1>1. /\ UNCHANGED <<up, made, events, writing, scan>> /\ (mem' = mem \/ mem' = 0)
      /\ call[c].pc \notin {"set", "add", "idle"}
  BY DEF DeleteStep, DeleteUnlink, DeleteForget, DeleteRow, client
<1>2. CASE DeleteUnlink(c)
  <2>1. Moved(c, "forget")
    BY <1>2, Moves DEF DeleteUnlink
  <2>2. Answered(o)'
    BY <2>1, AtWork DEF Moved, Resting
  <2>3. NoAttempt(o) /\ ConnOnly(o)
    BY <1>2, DeviceSet DEF DeleteUnlink
  <2> QED
    BY <1>1, <2>1, <2>2, <2>3, ACallEnds
<1>3. CASE DeleteForget(c)
  <2> DEFINE r == [session[o] EXCEPT !.qr = FALSE]
  <2>1. o \in Object => /\ r.set = session[o].set /\ r.handlers = session[o].handlers
                        /\ r.status = session[o].status
    BY DEF Types, SessionType, Sess
  <2>2. /\ session' = [session EXCEPT ![o] = r] /\ conn' = conn /\ mem' = 0
        /\ Moved(c, "drop")
    BY <1>3, Moves DEF DeleteForget, client
  <2> HIDE DEF r
  <2>3. NoAttempt(o) /\ ConnOnly(o)
    BY <2>1, <2>2, RecordSet, ConnAt
  <2>4. o \in Object => Answered(o)'
    BY <2>2 DEF Answered, Unanswered, Object
  <2> QED
    BY <1>1, <2>2, <2>3, <2>4, ACallEnds
<1>4. CASE DeleteRow(c)
  <2>1. UNCHANGED <<session, conn, mem>> /\ call[c].pc = "drop" /\ Gone(c)
    BY <1>4, Leaves DEF DeleteRow, client
  <2>2. Flags'
    BY <1>1, <2>1, CallFlags, SessionStays
  <2>3. ConnectingIsAttended'
    BY <1>1, <2>1, NothingLost DEF Gone, Resting
  <2> QED
    BY <2>2, <2>3
<1> QED
  BY <1>2, <1>3, <1>4 DEF DeleteStep

------------------------------------------------------------------------------
(* Requests.                                                               *)

(* A request takes a free caller, and its object from the map.             *)
LEMMA AArrives ==
  ASSUME Types, Flags, ConnectingIsAttended, NEW c \in Callers,
         UNCHANGED <<up, made, mem, events, writing, scan>>, call[c].pc = "idle",
         NEW pc, pc \notin {"idle", "set", "add", "go"}, NEW op, NEW o, o = mem,
         call' = [call EXCEPT ![c] = [pc |-> pc, op |-> op, obj |-> o]],
         op = "connect" => scan[c].pc = "off",
         NoAttempt(o), ConnOnly(o), o \in Object => Answered(o)'
  PROVE  Flags' /\ ConnectingIsAttended'
<1>1. c \in Threads
  BY DEF Threads
<1> DEFINE r == [pc |-> pc, op |-> op, obj |-> o]
<1>2. r.pc = pc /\ r.op = op /\ r.obj = o /\ call' = [call EXCEPT ![c] = r]
  OBVIOUS
<1> HIDE DEF r
<1>3. /\ call'[c].pc = pc /\ call'[c].op = op /\ call'[c].obj = o
      /\ \A d \in Threads \ {c} : call'[d] = call[d]
  BY <1>1, <1>2 DEF Types, CallType
<1>4. Flags'
  <2>1. \A d \in Threads : call'[d].op = "connect" => d \in Callers /\ scan'[d].pc = "off"
    BY <1>3 DEF Flags, ScanFree
  <2>2. \A d \in Threads :
          \/ call'[d] = call[d]
          \/ /\ call[d].pc \notin {"set", "add"} /\ call'[d].pc # "add"
             /\ call'[d].pc # "idle" => call'[d].obj \in {call[d].obj, mem}
             /\ call'[d].pc # "idle" /\ call[d].pc = "idle" => call'[d].obj = mem
             /\ call'[d].pc = "go" => \A n \in Object : call'[d].obj = n => session[n].set
    BY <1>3
  <2> QED
    BY <2>1, <2>2, FlagsKept DEF NoAttempt
<1>5. ConnectingIsAttended'
  <2>1. EventsOnly(o) /\ SessOnly(o)
    BY DEF EventsOnly, NoAttempt
  <2>2. \A d \in Threads : call'[d] = call[d] \/ call[d].obj = o \/ call[d].pc \in Resting
    BY <1>3 DEF Resting
  <2> QED
    BY <2>1, <2>2, OthersAttended
<1> QED
  BY <1>4, <1>5

LEMMA AAsks ==
  ASSUME Types, Flags, ConnectingIsAttended, NEW c \in Callers,
         Connect(c) \/ Disconnect(c) \/ Restart(c) \/ Logout(c)
  PROVE  Flags' /\ ConnectingIsAttended'
<1> PICK o : o = mem
  OBVIOUS
<1>1. /\ UNCHANGED <<up, made, mem, events, writing, scan>> /\ call[c].pc = "idle"
      /\ c \in Threads
  BY DEF Connect, Disconnect, Restart, Logout, OnSession, Arrives, client, Threads
<1>2. CASE Connect(c)
  <2> DEFINE r == [pc |-> "begin", op |-> "connect", obj |-> o]
  <2>1. /\ UNCHANGED <<session, conn>> /\ scan[c].pc = "off"
        /\ call' = [call EXCEPT ![c] = r]
    BY <1>2 DEF Connect, OnSession, client
  <2>2. r.pc = "begin"
    OBVIOUS
  <2>3. \A d \in Threads : call'[d] = call[d] \/ call[d].pc \in Resting
    <3> HIDE DEF r
    <3> QED
      BY <1>1, <2>1 DEF Types, CallType, Resting
  <2>4. NoAttempt(o) /\ ConnOnly(o)
    BY <2>1, NothingSet, ConnAt
  <2>5. ConnectingIsAttended'
    BY <1>1, <2>1, <2>3, NothingLost
  <2>6. o \in Object => Answered(o)'
    BY <2>5 DEF ConnectingIsAttended, Answered, Attended
  <2> QED
    BY <1>1, <2>1, <2>4, <2>6, AArrives
<1>3. CASE Restart(c)
  <2>1. PICK pc \in {"redial"}, op \in {"restart"} :
          /\ HangUp(o) /\ Status(o, "disconnected")
          /\ call' = [call EXCEPT ![c] = [pc |-> pc, op |-> op, obj |-> o]]
    BY <1>3 DEF Restart, OnSession
  <2>2. NoAttempt(o) /\ ConnOnly(o) /\ (o \in Object => Answered(o)')
    BY <2>1, StatusSettles, ConnAt
  <2> QED
    BY <1>1, <2>1, <2>2, AArrives
<1>4. CASE Disconnect(c) \/ Logout(c)
  <2>1. PICK pc \in {"down", "logout", "clear"}, op \in {"disconnect", "logout"} :
          call' = [call EXCEPT ![c] = [pc |-> pc, op |-> op, obj |-> o]]
    BY <1>4 DEF Disconnect, Logout, OnSession
  <2> DEFINE r == [pc |-> pc, op |-> op, obj |-> o]
  <2>2. r.pc = pc /\ r.obj = o
    OBVIOUS
  <2>3. call'[c] = r
    <3> HIDE DEF r
    <3>1. call' = [call EXCEPT ![c] = r]
      BY <2>1 DEF r
    <3> QED
      BY <1>1, <3>1 DEF Types, CallType
  <2> HIDE DEF r
  <2>4. Answered(o)'
    BY <1>1, <2>2, <2>3, AtWork DEF Resting
  <2>5. ConnOnly(o)
    <3>1. \/ HangUp(o) \/ ConnectOk(o) \/ ConnectFails
          \/ \E s \in Conns : conn' = [conn EXCEPT ![o] = s]
      BY <1>4 DEF Disconnect, Logout, PrepareLogout, Conns
    <3> QED
      BY <3>1, ConnAt
  <2>6. NoAttempt(o)
    BY <1>4, NothingSet DEF Disconnect, Logout
  <2> QED
    BY <1>1, <2>1, <2>4, <2>5, <2>6, AArrives
<1> QED
  BY <1>2, <1>3, <1>4

LEMMA AAsksDelete ==
  ASSUME Types, Flags, ConnectingIsAttended, NEW c \in Callers, Delete(c)
  PROVE  Flags' /\ ConnectingIsAttended'
<1> PICK o : o = mem
  OBVIOUS
<1>1. /\ UNCHANGED <<up, made, mem, session, events, writing, scan>> /\ call[c].pc = "idle"
      /\ c \in Threads
  BY DEF Delete, Arrives, client, Threads
<1>2. PICK pc \in {"drop", "unlink", "forget"}, op \in {"delete"} :
        /\ call' = [call EXCEPT ![c] = [pc |-> pc, op |-> op, obj |-> o]]
        /\ pc = "drop" => o = 0
  BY DEF Delete
<1> DEFINE r == [pc |-> pc, op |-> op, obj |-> o]
<1>3. r.pc = pc /\ r.obj = o
  OBVIOUS
<1>4. call'[c] = r
  <2> HIDE DEF r
  <2>1. call' = [call EXCEPT ![c] = r]
    BY <1>2 DEF r
  <2> QED
    BY <1>1, <2>1 DEF Types, CallType
<1> HIDE DEF r
<1>5. o \in Object => Answered(o)'
  BY <1>1, <1>2, <1>3, <1>4, AtWork DEF Resting, Object
<1>6. ConnOnly(o)
  <2>1. \/ conn' = conn \/ ConnectOk(o) \/ ConnectFails
        \/ \E s \in Conns : conn' = [conn EXCEPT ![o] = s]
    BY DEF Delete, PrepareLogout, Conns
  <2> QED
    BY <2>1, ConnAt
<1>7. NoAttempt(o)
  BY <1>1, NothingSet
<1> QED
  BY <1>1, <1>2, <1>5, <1>6, <1>7, AArrives

LEMMA ACreates ==
  ASSUME Types, Flags, ConnectingIsAttended, NEW c \in Callers, Create(c)
  PROVE  Flags' /\ ConnectingIsAttended'
<1> PICK o : o = made + 1
  OBVIOUS
<1>1. /\ UNCHANGED <<up, conn, events, writing, call, scan>> /\ up
      /\ mem = 0 /\ mem' = o /\ made' = o
      /\ session' = [session EXCEPT ![o] = NewSession(Blank)]
  BY DEF Create, Arrives, client
<1>2. made \in Nat /\ o \in Object /\ made < o
  BY DEF Types, CountsType, Create, Object
<1>3. /\ SessOnly(o) /\ session'[o].status # "connecting" /\ ~session'[o].set
  <2> DEFINE r == NewSession(Blank)
  <2>1. r.status # "connecting" /\ ~r.set
    BY DEF NewSession
  <2> HIDE DEF r
  <2> QED
    BY <1>1, <1>2, <2>1, SessionAt DEF Types, r
<1>4. /\ \A d \in Threads : call[d].pc # "idle" => call[d].obj # o
      /\ \A d \in Callers : scan[d].pc # "off" => scan[d].obj # o
  BY <1>2 DEF Flags, Numbered
<1>5. ConnectingIsAttended'
  <2>1. Answered(o)' /\ ConnOnly(o) /\ EventsOnly(o)
    BY <1>1, <1>3 DEF Answered, ConnOnly, EventsOnly
  <2> QED
    BY <1>1, <1>3, <2>1, OthersAttended
<1>6. Numbered' /\ ScanFree'
  <2>1. /\ \A d \in Threads : call[d].pc # "idle" => call[d].obj <= o
        /\ \A d \in Callers : scan[d].pc # "off" => scan[d].obj <= o
    <3>1. /\ \A d \in Threads : call[d].obj \in Nat
          /\ \A d \in Callers : scan[d].obj \in Nat
      BY DEF Types, CallType, CallState, ScanType, ScanState, ScanRecord
    <3> QED
      BY <1>2, <3>1 DEF Flags, Numbered
  <2> QED
    BY <1>1, <1>2, <2>1 DEF Flags, Numbered, ScanFree
<1>7. Heard' /\ FlagSet' /\ Flagged'
  BY <1>1, <1>3, <1>4 DEF Flags, Heard, FlagSet, Flagged, Adding, SessOnly
<1> QED
  BY <1>5, <1>6, <1>7 DEF Flags

------------------------------------------------------------------------------
(* QR loops and the library's codes open no loop.                          *)
LEMMA ScanFlags ==
  ASSUME Flags, Types, UNCHANGED <<made, up, mem, call>>, SetSame,
         \A d \in Callers : scan'[d].pc # "off" =>
           scan'[d].obj = scan[d].obj /\ scan[d].pc # "off",
         \A o \in Object : session'[o].status = "connecting" =>
           session[o].status = "connecting" \/ session[o].set
  PROVE  Flags'
<1>1. \A d \in Threads : call'[d].op = "connect" => d \in Callers /\ scan'[d].pc = "off"
  BY DEF Flags, ScanFree
<1> QED
  BY <1>1, FlagsKept

(* A step of one loop ends it with the status set, or leaves it open.      *)
LEMMA ScanAttended ==
  ASSUME ConnectingIsAttended, UNCHANGED <<mem, call, events, writing>>, NEW c \in Callers,
         NEW o, o = scan[c].obj, SessOnly(o), ConnOnly(o),
         \A d \in Callers \ {c} : scan'[d].pc = scan[d].pc /\ scan'[d].obj = scan[d].obj,
         o \in Object => \/ Answered(o)'
                         \/ scan'[c].obj = o /\ scan'[c].pc \in {"open", "dial", "wait"}
  PROVE  ConnectingIsAttended'
<1>1. o \in Object => Answered(o)'
  BY DEF Answered, Attended, ScanUnderWay
<1>2. EventsOnly(o)
  BY DEF EventsOnly
<1>3. \A d \in Callers : \/ scan'[d].pc = scan[d].pc /\ scan'[d].obj = scan[d].obj
                         \/ scan[d].obj = o \/ scan[d].pc \in {"off", "write"}
  OBVIOUS
<1> QED
  BY <1>1, <1>2, <1>3, OthersAttended

LEMMA AScans ==
  ASSUME Types, Flags, ConnectingIsAttended, NEW c \in Callers, Scan(c)
  PROVE  Flags' /\ ConnectingIsAttended'
<1> PICK o : o = scan[c].obj
  OBVIOUS
<1>1. UNCHANGED <<up, mem, made, events, writing, call>> /\ scan[c].pc # "off"
  BY DEF Scan, ScanOpen, ScanDial, ScanCode, ScanSuccess, ScanWrite, ScanTimeout, ScanError,
     Item, client
<1>2. ConnOnly(o)
  <2>1. conn' = conn \/ ConnectOk(o) \/ ConnectFails
    BY DEF Scan, ScanOpen, ScanDial, ScanCode, ScanSuccess, ScanWrite, ScanTimeout, ScanError,
       client
  <2> QED
    BY <2>1, ConnAt
<1>3. CASE (ScanOpen(c) \/ ScanDial(c)) /\ ~Status(o, "disconnected")
  <2>1. PICK pc \in {"dial", "wait"} : ScanGoto(c, pc) /\ session' = session
    BY <1>3 DEF ScanOpen, ScanDial
  <2>2. /\ scan'[c].pc = pc /\ scan'[c].obj = o
        /\ \A d \in Callers \ {c} : scan'[d] = scan[d]
    BY <2>1, ScanGotoSet DEF Types
  <2>3. SetSame /\ SessOnly(o)
    BY <2>1, SessionStays
  <2>4. Flags'
    BY <1>1, <2>1, <2>2, <2>3, ScanFlags
  <2>5. ConnectingIsAttended'
    BY <1>1, <1>2, <2>2, <2>3, ScanAttended
  <2> QED
    BY <2>4, <2>5
<1>4. CASE ScanCode(c)
  <2>1. /\ scan'[c].pc = "wait" /\ scan'[c].obj = o
        /\ \A d \in Callers \ {c} : scan'[d] = scan[d]
    BY <1>4, ScanCodeSet
  <2> DEFINE r == [session[o] EXCEPT !.status = "connecting", !.qr = TRUE]
  <2>2. o \in Object => r.set = session[o].set /\ r.handlers = session[o].handlers
    BY DEF Types, SessionType, Sess
  <2>3. session' = [session EXCEPT ![o] = r]
    BY <1>4 DEF ScanCode
  <2> HIDE DEF r
  <2>4. SessOnly(o) /\ (o \in Object => session'[o] = r)
    BY <2>3, SessionAt DEF Types
  <2>5. SetSame
    BY <2>2, <2>4 DEF SetSame, SessOnly
  <2>6. o \in Object => session[o].set
    BY <1>1 DEF Flags, FlagSet
  <2>7. Flags'
    BY <1>1, <2>1, <2>4, <2>5, <2>6, ScanFlags DEF SessOnly
  <2>8. ConnectingIsAttended'
    BY <1>1, <1>2, <2>1, <2>4, ScanAttended
  <2> QED
    BY <2>7, <2>8
<1>5. CASE ScanWrite(c)
  <2>1. /\ UNCHANGED <<session, conn>> /\ scan[c].pc = "write" /\ scan'[c].pc = "off"
        /\ \A d \in Callers \ {c} : scan'[d] = scan[d]
    BY <1>5, ScanEndsSet DEF ScanWrite, Types, client
  <2>2. Flags'
    BY <1>1, <2>1, SessionStays, ScanFlags
  <2>3. ConnectingIsAttended'
    BY <1>1, <2>1, NothingLost
  <2> QED
    BY <2>2, <2>3
<1>6. CASE \/ ScanSuccess(c) \/ ScanTimeout(c)
           \/ (ScanOpen(c) \/ ScanDial(c)) /\ Status(o, "disconnected")
  <2>1. PICK s \in {"connected", "disconnected"} : Status(o, s) \/ StatusQR(o, s)
    BY <1>6 DEF ScanSuccess, ScanTimeout
  <2>2. NoAttempt(o) /\ (o \in Object => Answered(o)')
    BY <2>1, StatusSettles
  <2>3. /\ \A d \in Callers \ {c} : scan'[d] = scan[d]
        /\ scan'[c].pc # "off" => scan'[c].obj = o
    <3>1. CASE ScanSuccess(c)
      BY <3>1, ScanSuccessSet
    <3>2. CASE ScanEnds(c)
      BY <3>2, ScanEndsSet DEF Types
    <3>3. CASE \E pc \in {"dial", "wait"} : ScanGoto(c, pc)
      BY <3>3, ScanGotoSet DEF Types
    <3> QED
      BY <1>6, <3>1, <3>2, <3>3 DEF ScanTimeout, ScanOpen, ScanDial
  <2>4. Flags'
    BY <1>1, <2>2, <2>3, ScanFlags DEF NoAttempt
  <2>5. ConnectingIsAttended'
    BY <1>1, <1>2, <2>2, <2>3, ScanAttended DEF NoAttempt
  <2> QED
    BY <2>4, <2>5
<1>7. CASE ScanError(c)
  <2> DEFINE r == [session[o] EXCEPT !.lapsed = TRUE]
  <2>1. o \in Object => /\ r.set = session[o].set /\ r.handlers = session[o].handlers
                        /\ r.status = session[o].status /\ r.lapsed
    BY DEF Types, SessionType, Sess
  <2>2. session' = [session EXCEPT ![o] = r]
    BY <1>7 DEF ScanError
  <2> HIDE DEF r
  <2>3. NoAttempt(o)
    BY <2>1, <2>2, RecordSet
  <2>4. o \in Object => Answered(o)'
    <3>1. o \in Object => session'[o].lapsed
      BY <2>1, <2>2, SessionAt DEF Types
    <3> QED
      BY <3>1 DEF Answered, Unanswered
  <2>5. scan'[c].pc = "off" /\ \A d \in Callers \ {c} : scan'[d] = scan[d]
    BY <1>7, ScanEndsSet DEF ScanError, Types
  <2>6. Flags'
    BY <1>1, <2>3, <2>5, ScanFlags DEF NoAttempt
  <2>7. ConnectingIsAttended'
    BY <1>1, <1>2, <2>3, <2>4, <2>5, ScanAttended DEF NoAttempt
  <2> QED
    BY <2>6, <2>7
<1> QED
  BY <1>3, <1>4, <1>5, <1>6, <1>7 DEF Scan

LEMMA ACodes ==
  ASSUME Types, Flags, ConnectingIsAttended, NEW c \in Callers, Codes(c)
  PROVE  Flags' /\ ConnectingIsAttended'
<1> PICK o : o = scan[c].obj
  OBVIOUS
<1>1. UNCHANGED <<up, mem, made, session, events, writing, call>> /\ scan[c].pc = "wait"
  BY DEF Codes, EmitCode, EmitTimeout, EmitError, client
<1>2. \A d \in Callers : scan'[d].pc = scan[d].pc /\ scan'[d].obj = scan[d].obj
  <2>1. EmitCode(c) \/ Emit(o, "timeout") \/ Emit(o, "error")
    BY DEF Codes, EmitTimeout, EmitError
  <2> QED
    BY <1>1, <2>1, EmitCodeSet, EmitSet DEF Types, Items
<1>3. ConnOnly(o) /\ SetSame /\ SessOnly(o)
  <2>1. conn' = conn \/ HangUp(o)
    BY DEF Codes, EmitCode, EmitTimeout, EmitError, client
  <2> QED
    BY <1>1, <2>1, ConnAt, SessionStays
<1>4. Flags'
  BY <1>1, <1>2, <1>3, ScanFlags
<1>5. ConnectingIsAttended'
  BY <1>1, <1>2, <1>3, ScanAttended
<1> QED
  BY <1>4, <1>5

------------------------------------------------------------------------------
(* The client library and the handlers of events.                          *)

(* Steps of an object's client keep the flags.                             *)
LEMMA ClientFlags ==
  ASSUME Flags, Types, UNCHANGED <<made, up, mem, call>>, NEW o, NoAttempt(o),
         \A d \in Callers : scan'[d].pc = scan[d].pc /\ scan'[d].obj = scan[d].obj
  PROVE  Flags'
BY ScanFlags DEF NoAttempt
LEMMA ClientAttended ==
  ASSUME ConnectingIsAttended, UNCHANGED <<mem, call>>, NEW o, NoAttempt(o),
         ConnOnly(o), EventsOnly(o), o \in Object => Answered(o)',
         \A d \in Callers : scan'[d].pc = scan[d].pc /\ scan'[d].obj = scan[d].obj
  PROVE  ConnectingIsAttended'
BY OthersAttended DEF NoAttempt
LEMMA AtWorkStill ==
  ASSUME NEW o, UNCHANGED call,
         \A d \in Callers : scan'[d].pc = scan[d].pc /\ scan'[d].obj = scan[d].obj
  PROVE  (CallUnderWay(o) => CallUnderWay(o)') /\ (ScanUnderWay(o) => ScanUnderWay(o)')
BY DEF CallUnderWay, ScanUnderWay

(* A session that is "connecting" hears the events of its client, or a     *)
(* call is still registering its handler.                                  *)
LEMMA Heeded ==
  ASSUME Types, Flags, NEW o \in Object, session[o].status = "connecting", UNCHANGED call
  PROVE  session[o].handlers > 0 \/ CallUnderWay(o)'
BY DEF Flags, Heard, Flagged, Adding, CallUnderWay

LEMMA LongerWaits ==
  ASSUME Types, NEW o \in Object, NEW e, events'[o] = Append(events[o], e), writing' = writing
  PROVE  EventWaits(o)'
<1> DEFINE q == events[o]
<1>1. q \in Seq(News) /\ (writing[o] # None => q # <<>>)
  BY DEF Types, EventsType
<1> HIDE DEF q
<1>2. Len(Append(q, e)) = Len(q) + 1 /\ Len(q) \in Nat /\ (writing[o] # None => Len(q) > 0)
  BY <1>1
<1> QED
  BY <1>2 DEF EventWaits, q

(* The library answers or hangs up, and says so.                           *)
LEMMA DispatchAttends ==
  ASSUME Types, Flags, ConnectingIsAttended, NEW o \in Object, NEW e \in News, Dispatch(o, e),
         UNCHANGED <<up, made, mem, call, writing>>, NoAttempt(o), ConnOnly(o),
         \A d \in Callers : scan'[d].pc = scan[d].pc /\ scan'[d].obj = scan[d].obj
  PROVE  Flags' /\ ConnectingIsAttended'
<1>1. /\ \A n \in Object \ {o} : events'[n] = events[n]
      /\ session[o].handlers > 0 => events'[o] = Append(events[o], e)
  BY DispatchSet DEF Types
<1>2. EventsOnly(o)
  BY <1>1 DEF EventsOnly
<1>3. ASSUME session'[o].status = "connecting" PROVE Attended(o)'
  <2>1. session[o].status = "connecting"
    BY <1>3 DEF NoAttempt
  <2>2. CASE session[o].handlers > 0
    BY <1>1, <2>2, LongerWaits DEF Attended
  <2>3. CASE CallUnderWay(o)'
    BY <2>3 DEF Attended
  <2> QED
    BY <2>1, <2>2, <2>3, Heeded
<1>4. Answered(o)'
  BY <1>3 DEF Answered
<1> QED
  BY <1>2, <1>4, ClientFlags, ClientAttended

LEMMA AAnswers ==
  ASSUME Types, Flags, ConnectingIsAttended, NEW o \in Object, Answer(o) \/ Lose(o)
  PROVE  Flags' /\ ConnectingIsAttended'
<1>1. /\ UNCHANGED <<up, made, mem, call, writing>>
      /\ \E e \in News : Dispatch(o, e)
  BY DEF Answer, Authenticate, Refuse, Unlink, Lose, News
<1>2. ConnOnly(o)
  <2>1. \E s \in Conns : conn' = [conn EXCEPT ![o] = s]
    BY DEF Answer, Authenticate, Refuse, Unlink, Lose, Conns
  <2> QED
    BY <2>1, ConnAt
<1>3. NoAttempt(o)
  <2>1. CASE session' = session
    BY <2>1, NothingSet
  <2>2. CASE Unlink(o)
    <3> DEFINE r == [session[o] EXCEPT !.dev = Blank]
    <3>1. /\ r.set = session[o].set /\ r.handlers = session[o].handlers
          /\ r.status = session[o].status
      BY DEF Types, SessionType, Sess
    <3>2. session' = [session EXCEPT ![o] = r]
      BY <2>2 DEF Unlink
    <3> HIDE DEF r
    <3> QED
      BY <3>1, <3>2, RecordSet
  <2> QED
    BY <2>1, <2>2 DEF Answer, Authenticate, Refuse, Lose
<1>4. \A d \in Callers : scan'[d].pc = scan[d].pc /\ scan'[d].obj = scan[d].obj
  BY EmitSet DEF Types, Answer, Authenticate, Refuse, Unlink, Lose, Items
<1> QED
  BY <1>1, <1>2, <1>3, <1>4, DispatchAttends

LEMMA APairs ==
  ASSUME Types, Flags, ConnectingIsAttended, NEW o \in Object, PairSuccess(o)
  PROVE  Flags' /\ ConnectingIsAttended'
<1>1. UNCHANGED <<up, mem, made, call, writing, events>>
  BY DEF PairSuccess
<1>2. ConnOnly(o) /\ conn'[o] = "lost"
  BY ConnSet DEF Types, PairSuccess, Conns, ConnOnly
<1> DEFINE d == paired + 1
           r == [session[o] EXCEPT !.dev = d]
<1>3. d \in Device
  BY DEF Types, CountsType, PairSuccess, Device
<1>4. /\ r.set = session[o].set /\ r.handlers = session[o].handlers
      /\ r.status = session[o].status /\ r.dev = d
  <2> HIDE DEF d
  <2> QED
    BY DEF Types, SessionType, Sess
<1>5. session' = [session EXCEPT ![o] = r]
  BY DEF PairSuccess
<1> HIDE DEF d, r
<1>6. NoAttempt(o) /\ session'[o] = r
  BY <1>4, <1>5, RecordSet, SessionAt DEF Types
<1>7. Answered(o)'
  BY <1>2, <1>3, <1>4, <1>6 DEF Answered, Attended, LoginUnderWay, HasCredentials
<1>8. \A n \in Callers : scan'[n].pc = scan[n].pc /\ scan'[n].obj = scan[n].obj
  BY EmitSet DEF Types, PairSuccess, Items
<1>9. EventsOnly(o)
  BY <1>1 DEF EventsOnly
<1> QED
  BY <1>1, <1>2, <1>6, <1>7, <1>8, <1>9, ClientFlags, ClientAttended

LEMMA AReconnects ==
  ASSUME Types, Flags, ConnectingIsAttended, NEW o \in Object, AutoReconnect(o)
  PROVE  Flags' /\ ConnectingIsAttended'
<1>1. UNCHANGED <<up, mem, made, call, session, writing, events, scan>>
  BY DEF AutoReconnect
<1>2. ConnOnly(o) /\ conn'[o] = IF HasCredentials(o) THEN "login" ELSE "off"
  BY ConnSet DEF Types, AutoReconnect, Conns, ConnOnly
<1>3. NoAttempt(o) /\ EventsOnly(o)
  BY <1>1, NothingSet DEF EventsOnly
<1>4. Answered(o)'
  <2>1. CASE HasCredentials(o)
    BY <1>1, <1>2, <2>1 DEF Answered, Attended, LoginUnderWay, HasCredentials
  <2>2. CASE ~HasCredentials(o)
    <3>1. Answered(o) /\ ~LoginUnderWay(o)
      BY <2>2, AnsweredIs DEF LoginUnderWay
    <3>2. EventWaits(o) => EventWaits(o)'
      BY <1>1 DEF EventWaits
    <3>3. Unanswered(o) => Unanswered(o)'
      BY <1>1 DEF Unanswered
    <3> QED
      BY <1>1, <3>1, <3>2, <3>3, AtWorkStill, StillAttended
  <2> QED
    BY <2>1, <2>2
<1> QED
  BY <1>1, <1>2, <1>3, <1>4, ClientFlags, ClientAttended

LEMMA AHandles ==
  ASSUME Types, Flags, ConnectingIsAttended, NEW o \in Object, Handle(o)
  PROVE  Flags' /\ ConnectingIsAttended'
<1>1. UNCHANGED <<up, mem, made, call, scan>>
  BY DEF Handle, HandleConnected, HandleDown, HandleLoggedOut, HandlerWrites
<1>2. ConnOnly(o)
  <2>1. conn' = conn \/ \E s \in Conns : conn' = [conn EXCEPT ![o] = s]
    BY DEF Handle, HandleConnected, HandleDown, HandleLoggedOut, HandlerWrites, Conns
  <2> QED
    BY <2>1, ConnAt
<1>3. EventsOnly(o)
  <2>1. /\ events' = events \/ EventDone(o)
        /\ writing' = writing \/ \E w : writing' = [writing EXCEPT ![o] = w]
    BY DEF Handle, HandleConnected, HandleDown, HandleLoggedOut, HandlerWrites
  <2>2. \A n \in Object \ {o} : events'[n] = events[n]
    BY <2>1 DEF Types, EventsType, EventDone
  <2>3. \A n \in Object \ {o} : writing'[n] = writing[n]
    BY <2>1 DEF Types, WritingType
  <2> QED
    BY <2>2, <2>3 DEF EventsOnly
<1>4. NoAttempt(o) /\ Answered(o)'
  <2>1. CASE HandleConnected(o) \/ HandleDown(o)
    <3>1. PICK s \in {"connected", "disconnected"} : Status(o, s) \/ StatusQR(o, s)
      BY <2>1 DEF HandleConnected, HandleDown
    <3> QED
      BY <3>1, StatusSettles
  <2>2. CASE HandleLoggedOut(o)
    <3> DEFINE r == [session[o] EXCEPT !.status = "disconnected",
                                       !.dev = IF @ \in Device THEN Blank ELSE @]
    <3>1. /\ r.set = session[o].set /\ r.handlers = session[o].handlers
          /\ r.status = "disconnected"
      BY DEF Types, SessionType, Sess
    <3>2. session' = [session EXCEPT ![o] = r]
      BY <2>2 DEF HandleLoggedOut
    <3> HIDE DEF r
    <3> QED
      BY <3>1, <3>2, RecordSet, SessionAt, Over DEF Types
  <2>3. CASE HandlerWrites(o)
    <3>1. /\ UNCHANGED <<session, conn>> /\ writing[o] # None /\ EventDone(o)
          /\ writing' = [writing EXCEPT ![o] = None]
      BY <2>3 DEF HandlerWrites
    <3>2. /\ events[o] # <<>> /\ writing'[o] = None /\ events'[o] = Tail(events[o])
          /\ events[o] \in Seq(News)
      BY <3>1 DEF Types, EventsType, WritingType, EventDone
    <3>3. EventWaits(o) => EventWaits(o)'
      <4> DEFINE q == events[o]
      <4>1. q \in Seq(News) /\ q # <<>>
        BY <3>2
      <4> HIDE DEF q
      <4>2. Len(q) > 1 => Len(Tail(q)) > 0
        BY <4>1
      <4> QED
        BY <3>1, <3>2, <4>2 DEF EventWaits, q
    <3>4. (LoginUnderWay(o) => LoginUnderWay(o)') /\ (Unanswered(o) => Unanswered(o)')
      BY <1>1, <3>1 DEF LoginUnderWay, HasCredentials, Unanswered
    <3>5. Answered(o)
      BY AnsweredIs
    <3>6. Answered(o)'
      BY <1>1, <3>1, <3>3, <3>4, <3>5, AtWorkStill, StillAttended
    <3> QED
      BY <3>1, <3>6, NothingSet
  <2> QED
    BY <2>1, <2>2, <2>3 DEF Handle
<1> QED
  BY <1>1, <1>2, <1>3, <1>4, ClientFlags, ClientAttended

------------------------------------------------------------------------------
(* The process.                                                            *)

LEMMA ALoads ==
  ASSUME Types, IInv, Flags, ConnectingIsAttended, Load
  PROVE  Flags' /\ ConnectingIsAttended'
<1>1. UNCHANGED <<conn, events, writing, scan>> /\ up' /\ ~up
  BY DEF Load, client
<1>2. made = 0 /\ mem = 0
  BY <1>1 DEF Flags, Numbered, Types, CountsType
<1>3. /\ \A d \in Threads : call[d].pc = "idle"
      /\ \A d \in Callers : scan[d].pc # "off" => scan[d].obj = 0
  <2>1. \A d \in Callers : scan[d].obj \in Nat
    BY DEF Types, ScanType, ScanState, ScanRecord
  <2> QED
    BY <1>1, <1>2, <2>1 DEF IInv, DownIsIdle, Flags, Numbered
<1>4. CASE UNCHANGED <<mem, made, session, call>>
  <2>1. Flags'
    BY <1>1, <1>4 DEF Flags, Numbered, ScanFree, Heard, FlagSet, Flagged, Adding
  <2>2. ConnectingIsAttended'
    BY <1>1, <1>4, NothingLost
  <2> QED
    BY <2>1, <2>2
<1>5. CASE row.there /\ mem' = 1 /\ made' = 1
  <2> DEFINE r == NewSession(DeviceOf(row.jid))
             b == [pc |-> "begin", op |-> "reconnect", obj |-> 1]
  <2>1. /\ session' = [session EXCEPT ![1] = r]
        /\ call' = call \/ call' = [call EXCEPT ![Boot] = b]
    BY <1>2, <1>5 DEF Load
  <2>2. /\ r.status = "disconnected" /\ ~r.set
        /\ b.pc = "begin" /\ b.op = "reconnect" /\ b.obj = 1
    BY DEF NewSession
  <2> HIDE DEF r, b
  <2>3. SessOnly(1) /\ session'[1] = r /\ 1 \in Object
    BY <2>1, SessionAt, FirstObject DEF Types
  <2>4. \A d \in Threads : call'[d] = call[d] \/ call'[d] = b
    BY <2>1 DEF Types, CallType
  <2>5. Flags'
    <3>1. Numbered' /\ ScanFree'
      BY <1>1, <1>2, <1>3, <1>5, <2>2, <2>4 DEF Flags, Numbered, ScanFree
    <3>2. Heard' /\ Flagged'
      BY <1>1, <1>3, <2>2, <2>3, <2>4 DEF Flags, Heard, Flagged, Adding, SessOnly
    <3>3. FlagSet'
      BY <1>1, <1>3, <2>2, <2>3, <2>4 DEF Flags, FlagSet, SessOnly
    <3> QED
      BY <3>1, <3>2, <3>3 DEF Flags
  <2>6. ConnectingIsAttended'
    <3>1. Answered(1)' /\ ConnOnly(1) /\ EventsOnly(1)
      BY <1>1, <2>2, <2>3 DEF Answered, ConnOnly, EventsOnly
    <3>2. \A d \in Threads : call'[d] = call[d] \/ call[d].obj = 1 \/ call[d].pc \in Resting
      BY <1>3 DEF Resting
    <3> QED
      BY <1>1, <1>5, <2>3, <3>1, <3>2, OthersAttended
  <2> QED
    BY <2>5, <2>6
<1> QED
  BY <1>4, <1>5 DEF Load

LEMMA ACrashes == Crash => Flags' /\ ConnectingIsAttended'
BY DEF Crash, Flags, Numbered, ScanFree, Heard, FlagSet, Flagged, Adding, ConnectingIsAttended,
   Idle, NoScan, NewSession

LEMMA AInit == Init => AInv
<1> SUFFICES ASSUME Init PROVE AInv
  OBVIOUS
<1>1. Flags /\ ConnectingIsAttended
  BY DEF Init, Flags, Numbered, ScanFree, Heard, FlagSet, Flagged, Adding,
     ConnectingIsAttended, Idle, NoScan, NewSession
<1> QED
  BY <1>1, TInit, Initial DEF AInv

LEMMA ANext == AInv /\ [Next]_vars => AInv'
<1> SUFFICES ASSUME AInv, [Next]_vars PROVE AInv'
  OBVIOUS
<1>1. Types' /\ IInv'
  BY TNext, Inductive DEF AInv
<1>2. SUFFICES Flags' /\ ConnectingIsAttended'
  BY <1>1 DEF AInv
<1>3. Types /\ IInv /\ Flags /\ ConnectingIsAttended
  BY DEF AInv
<1>4. CASE UNCHANGED vars
  <2>1. UNCHANGED <<up, mem, made, session, conn, events, writing, call, scan>>
    BY <1>4 DEF vars, client
  <2>2. Flags'
    BY <1>3, <2>1 DEF Flags, Numbered, ScanFree, Heard, FlagSet, Flagged, Adding
  <2>3. ConnectingIsAttended'
    BY <1>3, <2>1, NothingLost
  <2> QED
    BY <2>2, <2>3
<1>5. CASE Load \/ Crash
  BY <1>3, <1>5, ALoads, ACrashes
<1>6. CASE \E c \in Threads : Step(c)
  <2>1. PICK c \in Threads : \/ SetUp(c) \/ Dial(c) \/ DisconnectDone(c) \/ LogoutStep(c)
                             \/ DeleteStep(c)
    BY <1>6 DEF Step
  <2> QED
    BY <1>3, <2>1, ABegins, ASetsFlag, AAddsHandler, AGoesWithQR, AGoes, ARedials, ALogsOut,
       ADeletes
    DEF SetUp, Dial
<1>7. CASE \E c \in Callers : Request(c)
  BY <1>3, <1>7, ACreates, AAsks, AAsksDelete DEF Request
<1>8. CASE \E c \in Callers : Scan(c) \/ Codes(c)
  BY <1>3, <1>8, AScans, ACodes
<1>9. CASE \E o \in Object :
            Answer(o) \/ PairSuccess(o) \/ Lose(o) \/ AutoReconnect(o) \/ Handle(o)
  BY <1>3, <1>9, AAnswers, APairs, AReconnects, AHandles
<1> QED
  BY <1>4, <1>5, <1>6, <1>7, <1>8, <1>9 DEF Next

(* What ConnectingResolves needs of every state (SessionService.Connect,   *)
(* startClientWithQR, event.Service): no session is left "connecting" with *)
(* nobody at work on it, whatever calls, QR loops, pairings, losses,       *)
(* logouts, deletions, failing statements and crashes overlap.             *)
THEOREM ConnectingNeverForgotten == Spec => []ConnectingIsAttended
<1>1. AInv => ConnectingIsAttended
  BY DEF AInv
<1> QED
  BY <1>1, AInit, ANext, PTL DEF Spec
=============================================================================
