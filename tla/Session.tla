------------------------------- MODULE Session -------------------------------
(***************************************************************************)
(* One named session of internal/service/session.go: its row, the object   *)
(* the service keeps for it, the WhatsApp client that object owns, the     *)
(* API calls on it, the goroutine that shows QR codes, the goroutine that  *)
(* reconnects at start, and the handlers of connection events.             *)
(*                                                                         *)
(* A session deleted and created again is a new object with a new client,  *)
(* while goroutines and calls may still hold the old one: objects are      *)
(* numbered.  So are device identities, one for each pairing.  The status  *)
(* column of the row is left out: the server writes it and never reads it. *)
(***************************************************************************)
EXTENDS Integers, Sequences, FiniteSets

CONSTANTS
  Callers,      (* API requests in flight at one time                      *)
  Boot,         (* the goroutine reconnectSession of the loader            *)
  Nobody,       (* nobody holds the service's lock                         *)
  Ops,          (* the API operations the callers use                      *)
  DBFaults,     (* may statements on the row fail?                         *)
  MaxObjects,   (* bound on objects made by one process                    *)
  MaxPairings,  (* bound on pairings                                       *)
  MaxLosses,    (* bound on lost connections                               *)
  MaxEvents,    (* bound on a client's events that wait for their handler  *)
  MaxCrashes    (* bound on crashes                                        *)

Threads == Callers \cup {Boot}
Object == 1 .. MaxObjects
Device == 1 .. MaxPairings
Blank == 0       (* a device that was never paired: its ID is nil          *)
NilDevice == -1  (* GetDevice knows no device of the row's JID             *)
None == -2       (* no write of a JID under way                            *)

ASSUME SessionAssumption ==
  /\ Boot \notin Callers /\ Nobody \notin Threads
  /\ DBFaults \in BOOLEAN
  /\ MaxObjects \in Nat \ {0} /\ MaxPairings \in Nat
  /\ MaxLosses \in Nat /\ MaxEvents \in Nat \ {0} /\ MaxCrashes \in Nat

VARIABLES
  up,        (* the process runs                                           *)
  row,       (* the session's row: does it exist, which JID does it hold?  *)
  devices,   (* devices in the client library's container                  *)
  mem,       (* the object in the sessions map, 0 if there is none         *)
  made,      (* objects made by this process                               *)
  session,   (* of each object: Status, QRCode, EventHandlerSet, handlers  *)
             (* registered with the client, Device; and history: did a QR  *)
             (* loop end on an item it does not know?                      *)
  conn,      (* its client's connection: "off", "pairing" (no device yet), *)
             (* "login", "in" (authenticated), "deaf" (so, and nobody      *)
             (* heard the Connected event), "lost" (the library reconnects *)
             (* by itself)                                                 *)
  events,    (* its events not handled yet                                 *)
  writing,   (* the JID its running event handler is about to write        *)
  mu,        (* who holds SessionService.mu across steps                   *)
  call,      (* of each thread: its step, its operation, its object        *)
  scan,      (* of each caller: the startClientWithQR it left behind       *)
  paired, losses, crashes,  (* counters of the bounded events              *)
  ended      (* history: did a logout, a deletion or an unlinking begin?   *)

store  == <<row, devices>>
client == <<conn, events>>
counts == <<paired, losses, crashes>>
vars == <<up, store, mem, made, session, client, writing, mu, call, scan,
          counts, ended>>

Idle == [pc |-> "idle", op |-> "none", obj |-> 0]
NoScan == [pc |-> "off", obj |-> 0, items |-> <<>>, jid |-> None]
NewSession(d) ==
  [status |-> "disconnected", qr |-> FALSE, set |-> FALSE, handlers |-> 0,
   dev |-> d, lapsed |-> FALSE]

IsConnected(o) == conn[o] \in {"pairing", "login", "in", "deaf"}
HasCredentials(o) == session[o].dev \in Device

TypeOK ==
  /\ up \in BOOLEAN
  /\ row \in [there : BOOLEAN, jid : {Blank} \cup Device]
  /\ devices \subseteq Device
  /\ mem \in 0 .. MaxObjects
  /\ made \in 0 .. MaxObjects
  /\ session \in [Object ->
       [status : {"disconnected", "connecting", "connected"}, qr : BOOLEAN,
        set : BOOLEAN, handlers : Nat, dev : {NilDevice, Blank} \cup Device,
        lapsed : BOOLEAN]]
  /\ conn \in [Object -> {"off", "pairing", "login", "in", "deaf", "lost"}]
  /\ events \in [Object -> Seq({"connected", "down", "logged_out"})]
  /\ writing \in [Object -> {None, Blank} \cup Device]
  /\ mu \in Callers \cup {Nobody}
  /\ call \in [Threads ->
       [pc : {"idle", "begin", "set", "add", "go", "down", "logout", "clear",
              "reset", "redial", "report", "unlink", "forget", "drop"},
        op : Ops \cup {"none", "reconnect"}, obj : 0 .. MaxObjects]]
  /\ scan \in [Callers ->
       [pc : {"off", "open", "dial", "wait", "write"}, obj : 0 .. MaxObjects,
        items : Seq({"code", "success", "timeout", "error"}),
        jid : {None} \cup Device]]
  /\ paired \in 0 .. MaxPairings
  /\ losses \in 0 .. MaxLosses
  /\ crashes \in 0 .. MaxCrashes
  /\ ended \in BOOLEAN

Init ==
  /\ up = FALSE
  /\ row = [there |-> FALSE, jid |-> Blank]
  /\ devices = {}
  /\ mem = 0
  /\ made = 0
  /\ session = [o \in Object |-> NewSession(Blank)]
  /\ conn = [o \in Object |-> "off"]
  /\ events = [o \in Object |-> <<>>]
  /\ writing = [o \in Object |-> None]
  /\ mu = Nobody
  /\ call = [c \in Threads |-> Idle]
  /\ scan = [c \in Callers |-> NoScan]
  /\ paired = 0 /\ losses = 0 /\ crashes = 0
  /\ ended = FALSE

------------------------------------------------------------------------------
(* Pieces of the operations.                                               *)

Status(o, s) == session' = [session EXCEPT ![o].status = s]
StatusQR(o, s) == session' = [session EXCEPT ![o].status = s, ![o].qr = FALSE]

(* UPDATE ... WHERE "session" = name: nothing happens without the row.     *)
UpdateJID(jid) ==
  \/ row' = [row EXCEPT !.jid = IF row.there THEN jid ELSE @]
  \/ DBFaults /\ UNCHANGED row

(* Client.Connect on an open connection is an error of the library; any    *)
(* other attempt may fail.                                                 *)
ConnectOk(o) ==
  /\ ~IsConnected(o)
  /\ conn' = [conn EXCEPT ![o] = IF HasCredentials(o) THEN "login" ELSE "pairing"]
ConnectFails == UNCHANGED conn

(* The library calls the client's handlers; with none the event is gone.   *)
Dispatch(o, e) ==
  /\ Len(events[o]) < MaxEvents
  /\ events' = IF session[o].handlers > 0
               THEN [events EXCEPT ![o] = Append(@, e)] ELSE events

Goto(c, pc) == call' = [call EXCEPT ![c].pc = pc]
Return(c) == call' = [call EXCEPT ![c] = Idle]

(* A request arrives.  Get waits for a Delete or Create that holds the     *)
(* lock; without the session the request is answered and changes nothing.  *)
Arrives(c, op) ==
  /\ up
  /\ op \in Ops
  /\ call[c].pc = "idle"
  /\ mu = Nobody

OnSession(c, op, pc) ==
  /\ Arrives(c, op)
  /\ mem # 0
  /\ call' = [call EXCEPT ![c] = [pc |-> pc, op |-> op, obj |-> mem]]

------------------------------------------------------------------------------
(* LoadFromDatabase runs before the server accepts requests.  A query that *)
(* fails is a warning: the process runs on without the session.            *)
DeviceOf(jid) ==
  IF jid = Blank THEN Blank ELSE IF jid \in devices THEN jid ELSE NilDevice

Load ==
  /\ ~up
  /\ up' = TRUE
  /\ \/ /\ row.there
        /\ mem' = 1 /\ made' = 1
        /\ session' = [session EXCEPT ![1] = NewSession(DeviceOf(row.jid))]
        /\ call' = IF DeviceOf(row.jid) \in Device
                   THEN [call EXCEPT ![Boot] =
                           [pc |-> "begin", op |-> "reconnect", obj |-> 1]]
                   ELSE call
     \/ /\ ~row.there \/ DBFaults
        /\ UNCHANGED <<mem, made, session, call>>
  /\ UNCHANGED <<store, client, writing, mu, scan, counts, ended>>

Crash ==
  /\ up
  /\ crashes < MaxCrashes
  /\ crashes' = crashes + 1
  /\ up' = FALSE
  /\ mem' = 0 /\ made' = 0 /\ mu' = Nobody
  /\ session' = [o \in Object |-> NewSession(Blank)]
  /\ conn' = [o \in Object |-> "off"]
  /\ events' = [o \in Object |-> <<>>]
  /\ writing' = [o \in Object |-> None]
  /\ call' = [c \in Threads |-> Idle]
  /\ scan' = [c \in Callers |-> NoScan]
  /\ UNCHANGED <<store, paired, losses, ended>>

(* The INSERT returns the row that is already there, with its JID; the     *)
(* device is new all the same.                                             *)
Create(c) ==
  /\ Arrives(c, "create")
  /\ mem = 0 /\ made < MaxObjects
  /\ row' = [there |-> TRUE, jid |-> IF row.there THEN row.jid ELSE Blank]
  /\ mem' = made + 1
  /\ made' = made + 1
  /\ session' = [session EXCEPT ![made + 1] = NewSession(Blank)]
  /\ UNCHANGED <<up, devices, client, writing, mu, call, scan, counts,
                 ended>>

------------------------------------------------------------------------------
(* Connect, and reconnectSession: both set up the event handler and dial.  *)

Connect(c) ==
  /\ OnSession(c, "connect", "begin")
  /\ scan[c].pc = "off"
  /\ ~IsConnected(mem)
  /\ UNCHANGED <<up, store, mem, made, session, client, writing, mu, scan,
                 counts, ended>>

(* SetStatus(Connecting), then setupEventHandler looks at its flag.        *)
Begin(c) ==
  /\ call[c].pc = "begin"
  /\ IF call[c].op = "connect" THEN Status(call[c].obj, "connecting")
                               ELSE UNCHANGED session
  /\ Goto(c, IF session[call[c].obj].set THEN "go" ELSE "set")
  /\ UNCHANGED <<up, store, mem, made, client, writing, mu, scan, counts,
                 ended>>

SetFlag(c) ==
  /\ call[c].pc = "set"
  /\ session' = [session EXCEPT ![call[c].obj].set = TRUE]
  /\ Goto(c, "add")
  /\ UNCHANGED <<up, store, mem, made, client, writing, mu, scan, counts,
                 ended>>

AddEventHandler(c) ==
  /\ call[c].pc = "add"
  /\ session' = [session EXCEPT ![call[c].obj].handlers = @ + 1]
  /\ Goto(c, "go")
  /\ UNCHANGED <<up, store, mem, made, client, writing, mu, scan, counts,
                 ended>>

(* Without an identity Connect leaves the dialling to startClientWithQR.   *)
GoWithQR(c) ==
  /\ call[c].pc = "go" /\ call[c].op = "connect"
  /\ session[call[c].obj].dev = Blank
  /\ scan' = [scan EXCEPT ![c] = [NoScan EXCEPT !.pc = "open",
                                                !.obj = call[c].obj]]
  /\ Return(c)
  /\ UNCHANGED <<up, store, mem, made, session, client, writing, mu, counts,
                 ended>>

(* A nil device is dereferenced: the request ends in a recovered panic.    *)
GoPanics(c) ==
  /\ call[c].pc = "go" /\ call[c].op = "connect"
  /\ session[call[c].obj].dev = NilDevice
  /\ Return(c)
  /\ UNCHANGED <<up, store, mem, made, session, client, writing, mu, scan,
                 counts, ended>>

(* Mutant: a dial that fails leaves the status as it is.                   *)
GoKeepsStatus(c) ==
  /\ call[c].pc = "go"
  /\ call[c].op = "reconnect" \/ HasCredentials(call[c].obj)
  /\ ConnectOk(call[c].obj) \/ ConnectFails
  /\ Return(c)
  /\ UNCHANGED <<up, store, mem, made, session, events, writing, mu, scan,
                 counts, ended>>

Go(c) ==
  /\ call[c].pc = "go"
  /\ call[c].op = "reconnect" \/ HasCredentials(call[c].obj)
  /\ LET o == call[c].obj IN
       \/ /\ ConnectOk(o)
          /\ IF call[c].op = "connect" THEN Return(c) ELSE Goto(c, "report")
          /\ UNCHANGED session
       \/ /\ ConnectFails
          /\ Status(o, "disconnected")
          /\ Return(c)
  /\ UNCHANGED <<up, store, mem, made, events, writing, mu, scan, counts,
                 ended>>

(* Reconnect and Restart report "connected" as soon as the socket is open. *)
Report(c) ==
  /\ call[c].pc = "report"
  /\ Status(call[c].obj, "connected")
  /\ Return(c)
  /\ UNCHANGED <<up, store, mem, made, client, writing, mu, scan, counts,
                 ended>>

------------------------------------------------------------------------------
(* Disconnect, Restart.                                                    *)

HangUp(o) == conn' = [conn EXCEPT ![o] = IF IsConnected(o) THEN "off" ELSE @]

Disconnect(c) ==
  /\ OnSession(c, "disconnect", "down")
  /\ HangUp(mem)
  /\ UNCHANGED <<up, store, mem, made, session, events, writing, mu, scan,
                 counts, ended>>

DisconnectDone(c) ==
  /\ call[c].pc = "down"
  /\ Status(call[c].obj, "disconnected")
  /\ Return(c)
  /\ UNCHANGED <<up, store, mem, made, client, writing, mu, scan, counts,
                 ended>>

Restart(c) ==
  /\ OnSession(c, "restart", "redial")
  /\ HangUp(mem)
  /\ Status(mem, "disconnected")
  /\ UNCHANGED <<up, store, mem, made, events, writing, mu, scan, counts,
                 ended>>

Redial(c) ==
  /\ call[c].pc = "redial"
  /\ LET o == call[c].obj IN
       \/ session[o].dev # NilDevice /\ ConnectOk(o) /\ Goto(c, "report")
       \/ ConnectFails /\ Return(c)
  /\ UNCHANGED <<up, store, mem, made, session, events, writing, mu, scan,
                 counts, ended>>

------------------------------------------------------------------------------
(* Logout, and Delete, which does the same under the lock.                 *)

(* A client with credentials is connected for the logout request; one      *)
(* without is hung up.                                                     *)
PrepareLogout(o) ==
  IF HasCredentials(o)
  THEN ConnectOk(o) \/ ConnectFails
  ELSE conn' = [conn EXCEPT ![o] = "off"]

(* Client.Logout deletes the device and forgets its ID; when it fails, or  *)
(* was not connected, DeleteDevice deletes it and the ID stays.            *)
RemoveDevice(o) ==
  /\ devices' = devices \ {session[o].dev}
  /\ HangUp(o)
  /\ \/ /\ IsConnected(o)
        /\ session' = [session EXCEPT ![o].dev =
                         IF HasCredentials(o) THEN Blank ELSE @]
     \/ UNCHANGED session

Logout(c) ==
  /\ OnSession(c, "logout", IF HasCredentials(mem) THEN "logout" ELSE "clear")
  /\ PrepareLogout(mem)
  /\ ended' = TRUE
  /\ UNCHANGED <<up, store, mem, made, session, events, writing, mu, scan,
                 counts>>

LogoutSend(c) ==
  /\ call[c].pc = "logout"
  /\ RemoveDevice(call[c].obj)
  /\ Goto(c, "clear")
  /\ UNCHANGED <<up, row, mem, made, events, writing, mu, scan, counts,
                 ended>>

LogoutClear(c) ==
  /\ call[c].pc = "clear"
  /\ UpdateJID(Blank)
  /\ Goto(c, "reset")
  /\ UNCHANGED <<up, devices, mem, made, session, client, writing, mu, scan,
                 counts, ended>>

(* NewDevice for the session and its client, status and QR code.           *)
LogoutReset(c) ==
  /\ call[c].pc = "reset"
  /\ session' = [session EXCEPT ![call[c].obj].dev = Blank,
                                ![call[c].obj].status = "disconnected",
                                ![call[c].obj].qr = FALSE]
  /\ Return(c)
  /\ UNCHANGED <<up, store, mem, made, client, writing, mu, scan, counts, ended>>

Delete(c) ==
  /\ Arrives(c, "delete")
  /\ mu' = c
  /\ IF mem = 0
     THEN /\ call' = [call EXCEPT ![c] =
                        [pc |-> "drop", op |-> "delete", obj |-> 0]]
          /\ UNCHANGED conn
     ELSE /\ call' = [call EXCEPT ![c] =
                        [pc |-> IF HasCredentials(mem) THEN "unlink"
                                ELSE "forget",
                         op |-> "delete", obj |-> mem]]
          /\ PrepareLogout(mem)
  /\ ended' = TRUE
  /\ UNCHANGED <<up, store, mem, made, session, events, writing, scan, counts>>

DeleteUnlink(c) ==
  /\ call[c].pc = "unlink"
  /\ RemoveDevice(call[c].obj)
  /\ Goto(c, "forget")
  /\ UNCHANGED <<up, row, mem, made, events, writing, mu, scan, counts,
                 ended>>

(* Mutant: the lock is only held for the maps, not for the row.            *)
DeleteForgetUnlocks(c) ==
  /\ call[c].pc = "forget"
  /\ session' = [session EXCEPT ![call[c].obj].qr = FALSE]
  /\ mem' = 0
  /\ mu' = Nobody
  /\ Goto(c, "drop")
  /\ UNCHANGED <<up, store, made, client, writing, scan, counts, ended>>

DeleteForget(c) ==
  /\ call[c].pc = "forget"
  /\ session' = [session EXCEPT ![call[c].obj].qr = FALSE]
  /\ mem' = 0
  /\ Goto(c, "drop")
  /\ UNCHANGED <<up, store, made, client, writing, mu, scan, counts,
                 ended>>

(* A failing DELETE is a warning: the row stays and will be loaded again.  *)
DeleteRow(c) ==
  /\ call[c].pc = "drop"
  /\ \/ row' = [there |-> FALSE, jid |-> Blank]
     \/ DBFaults /\ UNCHANGED row
  /\ mu' = Nobody
  /\ Return(c)
  /\ UNCHANGED <<up, devices, mem, made, session, client, writing, scan,
                 counts, ended>>

------------------------------------------------------------------------------
(* startClientWithQR.                                                      *)

ScanGoto(c, pc) == scan' = [scan EXCEPT ![c].pc = pc]
ScanEnds(c) == scan' = [scan EXCEPT ![c] = NoScan]

(* GetQRChannel is refused to a connected or paired client.                *)
ScanOpen(c) ==
  /\ scan[c].pc = "open"
  /\ LET o == scan[c].obj IN
       \/ /\ ~IsConnected(o) /\ session[o].dev = Blank
          /\ ScanGoto(c, "dial")
          /\ UNCHANGED session
       \/ Status(o, "disconnected") /\ ScanEnds(c)
  /\ UNCHANGED <<up, store, mem, made, client, writing, mu, call, counts,
                 ended>>

ScanDial(c) ==
  /\ scan[c].pc = "dial"
  /\ LET o == scan[c].obj IN
       \/ ConnectOk(o) /\ ScanGoto(c, "wait") /\ UNCHANGED session
       \/ ConnectFails /\ Status(o, "disconnected") /\ ScanEnds(c)
  /\ UNCHANGED <<up, store, mem, made, events, writing, mu, call, counts,
                 ended>>

Item(c, i) == scan[c].pc = "wait" /\ scan[c].items # <<>> /\ Head(scan[c].items) = i

ScanCode(c) ==
  /\ Item(c, "code")
  /\ session' = [session EXCEPT ![scan[c].obj].status = "connecting",
                                ![scan[c].obj].qr = TRUE]
  /\ scan' = [scan EXCEPT ![c].items = Tail(@)]
  /\ UNCHANGED <<up, store, mem, made, client, writing, mu, call, counts,
                 ended>>

ScanSuccess(c) ==
  /\ Item(c, "success")
  /\ StatusQR(scan[c].obj, "connected")
  /\ IF HasCredentials(scan[c].obj)
     THEN scan' = [scan EXCEPT ![c].pc = "write",
                               ![c].jid = session[scan[c].obj].dev]
     ELSE ScanEnds(c)
  /\ UNCHANGED <<up, store, mem, made, client, writing, mu, call, counts,
                 ended>>

ScanWrite(c) ==
  /\ scan[c].pc = "write"
  /\ UpdateJID(scan[c].jid)
  /\ ScanEnds(c)
  /\ UNCHANGED <<up, devices, mem, made, session, client, writing, mu, call,
                 counts, ended>>

(* Mutant: the timeout is treated like the items the loop does not know.   *)
ScanTimeoutIgnored(c) ==
  /\ Item(c, "timeout")
  /\ ScanEnds(c)
  /\ UNCHANGED <<up, store, mem, made, session, client, writing, mu, call,
                 counts, ended>>

ScanTimeout(c) ==
  /\ Item(c, "timeout")
  /\ StatusQR(scan[c].obj, "disconnected")
  /\ ScanEnds(c)
  /\ UNCHANGED <<up, store, mem, made, client, writing, mu, call, counts,
                 ended>>

(* The loop knows no other item: it ends with the channel and leaves the   *)
(* status and the QR code as they are.                                     *)
ScanError(c) ==
  /\ Item(c, "error")
  /\ session' = [session EXCEPT ![scan[c].obj].lapsed = TRUE]
  /\ ScanEnds(c)
  /\ UNCHANGED <<up, store, mem, made, client, writing, mu, call, counts,
                 ended>>

------------------------------------------------------------------------------
(* The client library and WhatsApp.                                        *)

(* Items reach the channels opened on the client, until one ends them.     *)
Open(c, o) ==
  /\ scan[c].pc \in {"dial", "wait"} /\ scan[c].obj = o
  /\ \A i \in DOMAIN scan[c].items : scan[c].items[i] = "code"
Emit(o, i) ==
  scan' = [c \in Callers |->
    IF Open(c, o) THEN [scan[c] EXCEPT !.items = Append(@, i)] ELSE scan[c]]

EmitCode(c) ==
  /\ scan[c].pc = "wait" /\ scan[c].items = <<>>
  /\ conn[scan[c].obj] = "pairing"
  /\ scan' = [scan EXCEPT ![c].items = <<"code">>]
  /\ UNCHANGED <<up, store, mem, made, session, client, writing, mu, call,
                 counts, ended>>

(* The codes ran out: the library hangs up.                                *)
EmitTimeout(c) ==
  /\ scan[c].pc = "wait" /\ Open(c, scan[c].obj)
  /\ Emit(scan[c].obj, "timeout")
  /\ HangUp(scan[c].obj)
  /\ UNCHANGED <<up, store, mem, made, session, events, writing, mu, call,
                 counts, ended>>

EmitError(c) ==
  /\ scan[c].pc = "wait" /\ Open(c, scan[c].obj)
  /\ Emit(scan[c].obj, "error")
  /\ UNCHANGED <<up, store, mem, made, session, client, writing, mu, call,
                 counts, ended>>

(* A scanned code or a code typed on the phone (PairPhone).  The library   *)
(* reconnects as the new device.                                           *)
PairSuccess(o) ==
  /\ conn[o] = "pairing" /\ session[o].dev = Blank
  /\ paired < MaxPairings
  /\ paired' = paired + 1
  /\ session' = [session EXCEPT ![o].dev = paired + 1]
  /\ devices' = devices \cup {paired + 1}
  /\ conn' = [conn EXCEPT ![o] = "lost"]
  /\ Emit(o, "success")
  /\ UNCHANGED <<up, row, mem, made, events, writing, mu, call, losses,
                 crashes, ended>>

Authenticate(o) ==
  /\ conn[o] = "login"
  /\ conn' = [conn EXCEPT ![o] = IF session[o].handlers > 0 THEN "in" ELSE "deaf"]
  /\ Dispatch(o, "connected")
  /\ UNCHANGED <<up, store, mem, made, session, writing, mu, call, scan,
                 counts, ended>>

(* ConnectFailure, StreamReplaced, TemporaryBan, ClientOutdated.           *)
Refuse(o) ==
  /\ conn[o] = "login"
  /\ conn' = [conn EXCEPT ![o] = "off"]
  /\ Dispatch(o, "down")
  /\ UNCHANGED <<up, store, mem, made, session, writing, mu, call, scan,
                 counts, ended>>

(* The phone unlinked the device: the library deletes it.                  *)
Unlink(o) ==
  /\ IsConnected(o) /\ HasCredentials(o)
  /\ conn' = [conn EXCEPT ![o] = "off"]
  /\ devices' = devices \ {session[o].dev}
  /\ session' = [session EXCEPT ![o].dev = Blank]
  /\ Dispatch(o, "logged_out")
  /\ ended' = TRUE
  /\ UNCHANGED <<up, row, mem, made, writing, mu, call, scan, counts>>

Lose(o) ==
  /\ IsConnected(o)
  /\ losses < MaxLosses
  /\ losses' = losses + 1
  /\ conn' = [conn EXCEPT ![o] = IF HasCredentials(o) THEN "lost" ELSE "off"]
  /\ Dispatch(o, "down")
  /\ Emit(o, "timeout")
  /\ UNCHANGED <<up, store, mem, made, session, writing, mu, call, paired,
                 crashes, ended>>

AutoReconnect(o) ==
  /\ conn[o] = "lost"
  /\ conn' = [conn EXCEPT ![o] = IF HasCredentials(o) THEN "login" ELSE "off"]
  /\ UNCHANGED <<up, store, mem, made, session, events, writing, mu, call,
                 scan, counts, ended>>

------------------------------------------------------------------------------
(* event.Service: one event of a client after the other.                   *)

EventDone(o) == events' = [events EXCEPT ![o] = Tail(@)]
Handling(o, e) ==
  events[o] # <<>> /\ Head(events[o]) = e /\ writing[o] = None

(* Mutant: the handler leaves recording the JID to the QR loop.            *)
HandleConnectedOnlyStatus(o) ==
  /\ Handling(o, "connected")
  /\ StatusQR(o, "connected")
  /\ EventDone(o)
  /\ UNCHANGED <<up, store, mem, made, conn, writing, mu, call, scan, counts,
                 ended>>

HandleConnected(o) ==
  /\ Handling(o, "connected")
  /\ StatusQR(o, "connected")
  /\ IF HasCredentials(o)
     THEN writing' = [writing EXCEPT ![o] = session[o].dev] /\ UNCHANGED events
     ELSE UNCHANGED writing /\ EventDone(o)
  /\ UNCHANGED <<up, store, mem, made, conn, mu, call, scan, counts, ended>>

(* Disconnected, ConnectFailure, StreamReplaced, TemporaryBan, Outdated.   *)
HandleDown(o) ==
  /\ Handling(o, "down")
  /\ Status(o, "disconnected")
  /\ EventDone(o)
  /\ UNCHANGED <<up, store, mem, made, conn, writing, mu, call, scan, counts,
                 ended>>

(* The client is disconnected and its device deleted (again).              *)
HandleLoggedOut(o) ==
  /\ Handling(o, "logged_out")
  /\ session' = [session EXCEPT ![o].status = "disconnected",
                   ![o].dev = IF @ \in Device THEN Blank ELSE @]
  /\ devices' = devices \ {session[o].dev}
  /\ conn' = [conn EXCEPT ![o] = "off"]
  /\ writing' = [writing EXCEPT ![o] = Blank]
  /\ UNCHANGED <<up, row, mem, made, events, mu, call, scan, counts, ended>>

HandlerWrites(o) ==
  /\ writing[o] # None
  /\ UpdateJID(writing[o])
  /\ writing' = [writing EXCEPT ![o] = None]
  /\ EventDone(o)
  /\ UNCHANGED <<up, devices, mem, made, session, conn, mu, call, scan, counts,
                 ended>>

------------------------------------------------------------------------------
SetUp(c) == Begin(c) \/ SetFlag(c) \/ AddEventHandler(c)
Dial(c) == GoWithQR(c) \/ GoPanics(c) \/ Go(c) \/ Redial(c) \/ Report(c)
LogoutStep(c) == LogoutSend(c) \/ LogoutClear(c) \/ LogoutReset(c)
DeleteStep(c) == DeleteUnlink(c) \/ DeleteForget(c) \/ DeleteRow(c)
Step(c) == SetUp(c) \/ Dial(c) \/ DisconnectDone(c) \/ LogoutStep(c)
           \/ DeleteStep(c)
Request(c) == Create(c) \/ Connect(c) \/ Disconnect(c) \/ Restart(c)
              \/ Logout(c) \/ Delete(c)
Scan(c) == ScanOpen(c) \/ ScanDial(c) \/ ScanCode(c) \/ ScanSuccess(c)
           \/ ScanWrite(c) \/ ScanTimeout(c) \/ ScanError(c)
Codes(c) == EmitCode(c) \/ EmitTimeout(c) \/ EmitError(c)
Answer(o) == Authenticate(o) \/ Refuse(o) \/ Unlink(o)
Handle(o) == HandleConnected(o) \/ HandleDown(o) \/ HandleLoggedOut(o)
             \/ HandlerWrites(o)

Next ==
  \/ Load \/ Crash
  \/ \E c \in Threads : Step(c)
  \/ \E c \in Callers : Request(c) \/ Scan(c) \/ Codes(c)
  \/ \E o \in Object : Answer(o) \/ PairSuccess(o) \/ Lose(o)
                       \/ AutoReconnect(o) \/ Handle(o)

Spec == Init /\ [][Next]_vars

(* Goroutines run; the library lets codes run out, reconnects, hands its   *)
(* events over, and the server answers a login one way or another.         *)
Fairness ==
  /\ \A c \in Threads : WF_vars(Step(c))
  /\ \A c \in Callers : WF_vars(Scan(c)) /\ WF_vars(EmitTimeout(c))
  /\ \A o \in Object :
       WF_vars(Answer(o)) /\ WF_vars(AutoReconnect(o)) /\ WF_vars(Handle(o))

FairSpec == Spec /\ Fairness

------------------------------------------------------------------------------
(* No call, goroutine or handler is under way.                             *)
Quiet ==
  /\ \A c \in Threads : call[c].pc = "idle"
  /\ \A c \in Callers : scan[c].pc = "off"
  /\ \A o \in Object : events[o] = <<>> /\ writing[o] = None

(* A session the service answers for has a row: whatever calls overlap, a  *)
(* creation never lands between the two halves of a deletion, so no        *)
(* session is lost by the next start.                                      *)
MemoryHasRow == mem # 0 => row.there

(* Once all work is done, a session that is logged in and whose client     *)
(* told the server so is recorded with the device it is logged in with:    *)
(* the next start finds its credentials.  A login nobody heard is recorded *)
(* only if its QR loop did it: a session created, restarted (Restart       *)
(* registers no event handler) and paired by phone stays without a device  *)
(* in its row, and the next start has to pair it again.  What holds of     *)
(* such a login is that its row never has another device.                  *)
LoggedInIsRecorded ==
  Quiet /\ ~DBFaults /\ ~ended /\ mem # 0 =>
    /\ conn[mem] = "in" => row.jid = session[mem].dev
    /\ conn[mem] = "deaf" => row.jid \in {Blank, session[mem].dev}

(* A connection attempt comes to an answer: the session does not stay      *)
(* "connecting", unless its pairing ended in an error the QR loop ignores, *)
(* it was loaded without a device, or it was deleted meanwhile.            *)
Unanswered(o) ==
  \/ session[o].dev = NilDevice
  \/ mem # o
  \/ session[o].lapsed
ConnectingResolves ==
  \A o \in Object :
    session[o].status = "connecting" /\ mem = o
      ~> session[o].status # "connecting" \/ Unanswered(o)

(* Whoever still has to answer the connection attempt of object o: a call  *)
(* under way, a QR loop, an event that waits for its handler, the client   *)
(* library at its login.                                                   *)
CallUnderWay(o) ==
  \E c \in Threads :
    call[c].obj = o /\ call[c].pc \notin {"idle", "begin", "redial", "drop"}
ScanUnderWay(o) ==
  \E c \in Callers : scan[c].obj = o /\ scan[c].pc \notin {"off", "write"}
EventWaits(o) == Len(events[o]) > (IF writing[o] = None THEN 0 ELSE 1)
LoginUnderWay(o) == conn[o] \in {"login", "lost"} /\ HasCredentials(o)

(* What an answer to every connection attempt needs of every state: no     *)
(* session is left "connecting" with nobody at work on it, whatever        *)
(* requests, QR loops, pairings, lost connections, logouts and events      *)
(* overlap.                                                                *)
ConnectingIsAttended ==
  \A o \in Object :
    session[o].status = "connecting" =>
      \/ CallUnderWay(o) \/ ScanUnderWay(o) \/ EventWaits(o) \/ LoginUnderWay(o)
      \/ Unanswered(o)
==============================================================================
