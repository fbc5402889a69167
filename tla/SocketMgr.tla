------------------------------- MODULE SocketMgr -------------------------------
(* engine/socket_mgr_linux.cpp, socket.cpp, socket_linux.cpp (TCP, epoll):    *)
(* the life of the connections of one server.                                 *)
(*                                                                            *)
(* One thread (the work thread) runs everything here: the Lua program, from   *)
(* timers, tasks and socket callbacks, and EventLoop with its handlers.  Lua  *)
(* reaches a connection only through its conn_idx and socket_map_, and only   *)
(* writes its buffer and queues events; the handlers run from EventLoop.      *)
(* Concurrent with the thread are the peers and the kernel.                   *)
(*                                                                            *)
(* A connection is its Socket object; an object is never used twice, nor is   *)
(* its conn_idx (MakeGeneralConnID is assumed to make a new one).  The read   *)
(* side counts chunks, the write side messages: what sequence_buffer does     *)
(* with them is SequenceBuffer, whose EmptyIsDrained lets "unsent = 0" stand  *)
(* for GetSize() = 0.                                                         *)
EXTENDS Naturals, Sequences, FiniteSets

CONSTANTS Conns,        \* the Socket objects of a behaviour
          NoConn,       \* "no socket is being handled"
          EarlySend,    \* whether Lua sends before its connection is up
          AddMayFail,   \* whether EPOLL_CTL_ADD may fail
          PeerFaults,   \* what peers may do: "fin" (close), "err" (reset)
          MaxUnsent,    \* bound: messages waiting in one write buffer
          MaxInbound,   \* bound: unread chunks in one kernel buffer
          MaxQueue      \* bound: events in event_queue_

ASSUME ConnsAssumption == /\ NoConn \notin Conns
                          /\ EarlySend \in BOOLEAN
                          /\ AddMayFail \in BOOLEAN
                          /\ PeerFaults \subseteq {"fin", "err"}
                          /\ MaxUnsent \in Nat \ {0}
                          /\ MaxInbound \in Nat \ {0}
                          /\ MaxQueue \in Nat \ {0}

VARIABLES status_,      \* socket_status_xxx of each socket
          write_lock_,  \* the send lock
          unsent,       \* messages in the write buffer
          bad,          \* the read buffer starts with a length out of range
          count_,       \* Referable: references to the object
          object,       \* "unborn", "live" or "deleted"
          socket_map_,  \* the connections Lua can name
          event_queue_, \* CLOSE and DELAY_SEND events for the loop
          wakeup,       \* the eventfd is readable
          kernel,       \* per socket: what the kernel and epoll know
          batch,        \* what epoll_wait returned and is not handled yet
          pc,           \* where the work thread is
          ret,          \* where it goes when the Lua callback returns
          cur,          \* the socket and events being handled
          calls         \* ghost: callbacks each connection has made

connVars == <<status_, write_lock_, unsent, bad>>
refVars == <<count_, object, socket_map_>>
queueVars == <<event_queue_, wakeup>>
threadVars == <<batch, pc, ret, cur>>
progVars == <<connVars, refVars, queueVars, threadVars, calls>>
vars == <<progVars, kernel>>

Status == {"closed", "connecting", "connectted", "closing"}
Interest == {"IN", "OUT", "ERR"}
Event == [s : Conns, type : {"CLOSE", "DELAY_SEND"}]
Idle == [s |-> NoConn, ev |-> {}]

(* An fd as the kernel sees it: registered with epoll for some events, on    *)
(* epoll's ready list or not, unread chunks, peer finished, error, room in   *)
(* the send buffer.                                                          *)
NoFd == [open |-> FALSE, interest |-> {}, ready |-> FALSE, inbound |-> 0,
         fin |-> FALSE, err |-> FALSE, room |-> FALSE]

Init == /\ status_ = [c \in Conns |-> "closed"]
        /\ write_lock_ = [c \in Conns |-> 0]
        /\ unsent = [c \in Conns |-> 0]
        /\ bad = [c \in Conns |-> FALSE]
        /\ count_ = [c \in Conns |-> 0]
        /\ object = [c \in Conns |-> "unborn"]
        /\ socket_map_ = {}
        /\ event_queue_ = <<>>
        /\ wakeup = FALSE
        /\ kernel = [c \in Conns |-> NoFd]
        /\ batch = {}
        /\ pc = "lua"
        /\ ret = "lua"
        /\ cur = Idle
        /\ calls = [c \in Conns |-> <<>>]

-------------------------------------------------------------------------------
(* epoll (external).  Edge triggered: a socket is put on the ready list when *)
(* something it is registered for happens and by EPOLL_CTL_ADD/MOD if it is  *)
(* so already, and leaves it when epoll_wait reports it.  Errors are always  *)
(* reported.                                                                 *)
Poll(k) == {e \in Interest : \/ e = "IN" /\ (k.inbound > 0 \/ k.fin)
                             \/ e = "OUT" /\ k.room
                             \/ e = "ERR" /\ k.err}

Reported(k) == Poll(k) \cap k.interest

(* EPOLL_CTL_ADD or EPOLL_CTL_MOD with EPOLLET; PostEvent. *)
Registered(k, events) ==
    LET r == [k EXCEPT !.interest = events \cup {"ERR"}]
    IN [r EXCEPT !.ready = Reported(r) # {}]

(* Something happened on the socket. *)
Edge(k, e) == [k EXCEPT !.ready = @ \/ e \in k.interest]

-------------------------------------------------------------------------------
(* References.  REF_ADD and REF_RELEASE of common.h. *)
AddRef(c) == count_' = [count_ EXCEPT ![c] = @ + 1]

Release(c) == /\ count_' = [count_ EXCEPT ![c] = @ - 1]
              /\ object' = [object EXCEPT ![c] = IF count_[c] = 1 THEN "deleted" ELSE @]

(* The callbacks, as Lua sees them; repeated reads count once. *)
Called(c, what) ==
    calls' = IF what = "read" /\ calls[c] # <<>> /\ calls[c][Len(calls[c])] = "read"
             THEN calls
             ELSE [calls EXCEPT ![c] = Append(@, what)]

(* Lua runs, then the thread goes on at "then". *)
CallLua(c, what, then) == /\ Called(c, what)
                          /\ pc' = "callback"
                          /\ ret' = then

Goto(label) == pc' = label /\ UNCHANGED <<ret, calls>>

-------------------------------------------------------------------------------
(* Slips this code could have, each used to show that a property notices it. *)
PushEventNoWakeUp(c, type) ==
    /\ Len(event_queue_) < MaxQueue
    /\ event_queue_' = Append(event_queue_, [s |-> c, type |-> type])
    /\ UNCHANGED wakeup

BurstPushNoCheck(c) ==
    /\ write_lock_' = [write_lock_ EXCEPT ![c] = @ + 1]
    /\ kernel' = [kernel EXCEPT ![c] = Registered(@, {"OUT"})]

BurstPushNoEvent(c) ==
    /\ write_lock_' = [write_lock_ EXCEPT ![c] = 1]
    /\ UNCHANGED kernel

EventsAfterWriteReadOnly(left) == {"IN"}

EventsAfterWriteNoRead(left) == {"OUT"}

RemoveNoRelease ==
    /\ pc \in {"remove", "connfail"}
    /\ status_' = [status_ EXCEPT ![cur.s] = "closed"]
    /\ socket_map_' = socket_map_ \ {cur.s}
    /\ kernel' = [kernel EXCEPT ![cur.s] = NoFd]
    /\ pc' = "write"
    /\ UNCHANGED <<write_lock_, unsent, bad, count_, object, queueVars, batch, ret, cur, calls>>

RecvDataOnce == LET c == cur.s IN
    /\ pc = "read"
    /\ status_[c] = "connectted"
    /\ ~kernel[c].err /\ ~bad[c]
    /\ \E n \in 1..kernel[c].inbound : kernel' = [kernel EXCEPT ![c].inbound = @ - n]
    /\ Called(c, "read")
    /\ pc' = "callback"
    /\ ret' = "tail"
    /\ UNCHANGED <<connVars, refVars, queueVars, batch, cur>>

HandleConnectNoStatus == LET c == cur.s IN
    /\ pc = "write"
    /\ "OUT" \in cur.ev
    /\ status_[c] = "connecting"
    /\ kernel' = [kernel EXCEPT ![c] = Registered(@, {"IN", "OUT"})]
    /\ Called(c, "open")
    /\ pc' = "callback"
    /\ ret' = "release"
    /\ UNCHANGED <<connVars, refVars, queueVars, batch, cur>>

HandleConnectSilent == LET c == cur.s IN
    /\ pc = "write"
    /\ "OUT" \in cur.ev
    /\ status_[c] = "connecting"
    /\ status_' = [status_ EXCEPT ![c] = "connectted"]
    /\ kernel' = [kernel EXCEPT ![c] = Registered(@, {"IN"})]
    /\ pc' = "release"
    /\ UNCHANGED <<write_lock_, unsent, bad, refVars, queueVars, batch, ret, cur, calls>>

HandleCloseNoPush == LET c == Head(event_queue_).s IN
    /\ pc = "drain"
    /\ event_queue_ # <<>>
    /\ Head(event_queue_).type = "CLOSE"
    /\ event_queue_' = Tail(event_queue_)
    /\ Release(c)
    /\ status_' = [status_ EXCEPT ![c] = IF @ = "connectted" THEN "closing" ELSE @]
    /\ UNCHANGED <<write_lock_, unsent, bad, socket_map_, wakeup, kernel, threadVars, calls>>

HandleDelaySendDropped == LET c == Head(event_queue_).s IN
    /\ pc = "drain"
    /\ event_queue_ # <<>>
    /\ Head(event_queue_).type = "DELAY_SEND"
    /\ event_queue_' = Tail(event_queue_)
    /\ Release(c)
    /\ UNCHANGED <<connVars, socket_map_, wakeup, kernel, threadVars, calls>>

DisconnectNoRef(c) ==
    /\ pc \in {"lua", "callback"}
    /\ c \in socket_map_
    /\ Len(event_queue_) < MaxQueue
    /\ event_queue_' = Append(event_queue_, [s |-> c, type |-> "CLOSE"])
    /\ wakeup' = TRUE
    /\ UNCHANGED <<connVars, refVars, kernel, threadVars, calls>>

-------------------------------------------------------------------------------
(* The Lua program.  It runs on the work thread between two EventLoops       *)
(* ("lua") and inside callbacks ("callback").                                *)
InLua == pc \in {"lua", "callback"}

PushEvent(c, type) ==
    /\ Len(event_queue_) < MaxQueue
    /\ event_queue_' = Append(event_queue_, [s |-> c, type |-> type])
    /\ wakeup' = TRUE

(* SocketMgr::Send and SendMsg: whatever the status of the connection, the   *)
(* message is buffered and a DELAY_SEND event holds a reference.             *)
Send(c) == /\ InLua
           /\ c \in socket_map_
           /\ unsent[c] < MaxUnsent
           /\ status_[c] = "connecting" => EarlySend
           /\ AddRef(c)
           /\ unsent' = [unsent EXCEPT ![c] = @ + 1]
           /\ PushEvent(c, "DELAY_SEND")
           /\ UNCHANGED <<status_, write_lock_, bad, object, socket_map_, kernel, threadVars, calls>>

(* SocketMgr::Disconnect. *)
Disconnect(c) == /\ InLua
                 /\ c \in socket_map_
                 /\ AddRef(c)
                 /\ PushEvent(c, "CLOSE")
                 /\ UNCHANGED <<connVars, object, socket_map_, kernel, threadVars, calls>>

(* AddSocket. *)
AddSocket(c) == /\ socket_map_' = socket_map_ \cup {c}
                /\ AddRef(c)

(* SocketMgr::ConnectEx.  A name that does not resolve deletes the socket    *)
(* again and says nothing to Lua; a failed EPOLL_CTL_ADD is only logged.     *)
ConnectEx(c) ==
    /\ InLua
    /\ object[c] = "unborn"
    /\ \/ /\ object' = [object EXCEPT ![c] = "live"]
          /\ status_' = [status_ EXCEPT ![c] = "connecting"]
          /\ AddSocket(c)
          /\ \E added \in IF AddMayFail THEN BOOLEAN ELSE {TRUE} :
                kernel' = [kernel EXCEPT ![c] =
                    LET k == [NoFd EXCEPT !.open = TRUE]
                    IN IF added THEN Registered(k, {"IN", "OUT"}) ELSE k]
       \/ /\ object' = [object EXCEPT ![c] = "deleted"]
          /\ UNCHANGED <<status_, count_, socket_map_, kernel>>
    /\ UNCHANGED <<write_lock_, unsent, bad, queueVars, threadVars, calls>>

(* The callback returns to the handler that made it, or WorkThread::Run      *)
(* enters EventLoop.                                                         *)
LuaReturns == /\ InLua
              /\ pc' = IF pc = "lua" THEN "wait" ELSE ret
              /\ UNCHANGED <<connVars, refVars, queueVars, kernel, batch, ret, cur, calls>>

-------------------------------------------------------------------------------
(* SocketMgr::EventLoop *)
WakeItem == [s |-> NoConn, ev |-> {"IN"}]

ListenItem == [s |-> NoConn, ev |-> {"ACCEPT"}]

(* epoll_wait reports every ready socket (THREAD_EVENT_SIZE is larger than    *)
(* Conns), with the events it has now; the wakeup eventfd is level triggered. *)
(* A listening socket may be ready while there are connections to come.       *)
EpollWait ==
    /\ pc = "wait"
    /\ \E listen \in BOOLEAN :
         LET R == {c \in Conns : kernel[c].ready}
             items == {[s |-> c, ev |-> Reported(kernel[c])] : c \in R}
         IN /\ listen => \E c \in Conns : object[c] = "unborn"
            /\ R # {} \/ wakeup \/ listen
            /\ batch' = {i \in items : i.ev # {}}
                          \cup (IF wakeup THEN {WakeItem} ELSE {})
                          \cup (IF listen THEN {ListenItem} ELSE {})
            /\ kernel' = [c \in Conns |-> [kernel[c] EXCEPT !.ready = FALSE]]
    /\ pc' = "batch"
    /\ UNCHANGED <<connVars, refVars, queueVars, ret, cur, calls>>

(* epoll_wait times out with nothing to report: tasks and timers get a turn. *)
EpollTimeout == /\ pc = "wait"
                /\ ~wakeup
                /\ \A c \in Conns : ~kernel[c].ready
                /\ Goto("lua")
                /\ UNCHANGED <<connVars, refVars, queueVars, kernel, batch, cur>>

BatchDone == /\ pc = "batch"
             /\ batch = {}
             /\ Goto("wait")
             /\ UNCHANGED <<connVars, refVars, queueVars, kernel, batch, cur>>

(* The wakeup event: read the eventfd, then drain the queue. *)
WakeUpEvent == /\ pc = "batch"
               /\ WakeItem \in batch
               /\ batch' = batch \ {WakeItem}
               /\ wakeup' = FALSE
               /\ Goto("drain")
               /\ UNCHANGED <<connVars, refVars, event_queue_, kernel, cur>>

(* A listening socket: one connection is accepted.  SocketMgr::Accept.       *)
Accept(c) ==
    /\ pc = "batch"
    /\ ListenItem \in batch
    /\ batch' = batch \ {ListenItem}
    /\ object[c] = "unborn"
    /\ \/ /\ object' = [object EXCEPT ![c] = "live"]
          /\ AddSocket(c)
          /\ status_' = [status_ EXCEPT ![c] = "connectted"]
          /\ kernel' = [kernel EXCEPT ![c] =
                Registered([NoFd EXCEPT !.open = TRUE, !.room = TRUE], {"IN"})]
          /\ CallLua(c, "open", "batch")
       \/ /\ AddMayFail
          /\ object' = [object EXCEPT ![c] = "deleted"]
          /\ status_' = [status_ EXCEPT ![c] = "connectted"]
          /\ UNCHANGED <<count_, socket_map_, kernel, pc, ret, calls>>
    /\ UNCHANGED <<write_lock_, unsent, bad, queueVars, cur>>

(* accept() fails: the client has gone. *)
AcceptError == /\ pc = "batch"
               /\ ListenItem \in batch
               /\ batch' = batch \ {ListenItem}
               /\ UNCHANGED <<connVars, refVars, queueVars, kernel, pc, ret, cur, calls>>

-------------------------------------------------------------------------------
(* Handlers of one connection. *)

(* PostEvent. *)
PostEvent(c, events) == kernel' = [kernel EXCEPT ![c] = Registered(@, events)]

(* BurstPush: take the send lock and wait for EPOLLOUT alone. *)
BurstPush(c) ==
    IF write_lock_[c] = 0
    THEN /\ write_lock_' = [write_lock_ EXCEPT ![c] = @ + 1]
         /\ PostEvent(c, {"OUT"})
    ELSE UNCHANGED <<write_lock_, kernel>>

(* First half of CloseSocket: the close callback runs with the connection    *)
(* still in socket_map_; RemoveAndClose is the second half.                  *)
CloseSocket(c) ==
    \/ /\ status_[c] \in {"closing", "connectted"}
       /\ status_' = [status_ EXCEPT ![c] = "closed"]
       /\ CallLua(c, "close", "remove")
    \/ /\ status_[c] \notin {"closing", "connectted"}
       /\ UNCHANGED status_
       /\ Goto("write")

(* A socket event of the batch: REF_ADD, then the error, read and write      *)
(* branches.  On an error nothing else is handled.                           *)
SocketEvent(item) ==
    /\ pc = "batch"
    /\ item \in batch
    /\ item.s # NoConn
    /\ batch' = batch \ {item}
    /\ AddRef(item.s)
    /\ \/ /\ "ERR" \in item.ev
          /\ cur' = [s |-> item.s, ev |-> {}]
          /\ \/ /\ status_[item.s] = "connecting"
                /\ CallLua(item.s, "fail", "connfail")
                /\ UNCHANGED status_
             \/ /\ status_[item.s] # "connecting"
                /\ CloseSocket(item.s)
       \/ /\ "ERR" \notin item.ev
          /\ cur' = item
          /\ Goto(IF "IN" \in item.ev THEN "read" ELSE "write")
          /\ UNCHANGED status_
    /\ UNCHANGED <<write_lock_, unsent, bad, object, socket_map_, queueVars, kernel>>

(* RemoveSocket and close(fd), the end of CloseSocket and of HandleConnect.  *)
RemoveAndClose ==
    LET c == cur.s IN
    /\ pc \in {"remove", "connfail"}
    /\ status_' = [status_ EXCEPT ![c] = "closed"]
    /\ IF c \in socket_map_ THEN Release(c) ELSE UNCHANGED <<count_, object>>
    /\ socket_map_' = socket_map_ \ {c}
    /\ kernel' = [kernel EXCEPT ![c] = NoFd]
    /\ Goto("write")
    /\ UNCHANGED <<write_lock_, unsent, bad, queueVars, batch, cur>>

(* HandleReadComplete: one recv().  A short read means the kernel buffer is  *)
(* empty; a full one loops ("read").  OnRead hands the packets to Lua.       *)
RecvData == LET c == cur.s IN
    /\ pc = "read"
    /\ status_[c] = "connectted"
    /\ ~kernel[c].err /\ ~bad[c]
    /\ \E n \in 1..kernel[c].inbound :
         /\ kernel' = [kernel EXCEPT ![c].inbound = @ - n]
         /\ \E again \in {"read", "tail"} :
              /\ again = "tail" => n = kernel[c].inbound
              /\ CallLua(c, "read", again)
    /\ UNCHANGED <<connVars, refVars, queueVars, batch, cur>>

(* OnRead meets a length out of range: it disconnects and stops parsing.  The *)
(* bytes stay in the read buffer, where every later OnRead meets them again.  *)
RecvBadPacket == LET c == cur.s IN
    /\ pc = "read"
    /\ status_[c] = "connectted"
    /\ kernel[c].inbound > 0 /\ ~kernel[c].err
    /\ kernel' = [kernel EXCEPT ![c].inbound = @ - 1]
    /\ bad' = [bad EXCEPT ![c] = TRUE]
    /\ IF c \in socket_map_
       THEN AddRef(c) /\ PushEvent(c, "CLOSE")
       ELSE UNCHANGED <<count_, queueVars>>
    /\ \E again \in {"read", "tail"} :
         /\ again = "tail" => kernel[c].inbound = 1
         /\ Goto(again)
    /\ UNCHANGED <<status_, write_lock_, unsent, object, socket_map_, batch, cur>>

(* No space left in the read buffer: only such bytes can fill it. *)
ReadBufferFull == /\ pc = "read"
                  /\ status_[cur.s] = "connectted"
                  /\ bad[cur.s]
                  /\ Goto("write")
                  /\ UNCHANGED <<connVars, refVars, queueVars, kernel, batch, cur>>

(* Nothing to read, a read error, or a socket that is not connected. *)
RecvNothing == LET c == cur.s IN
    /\ pc = "read"
    /\ \/ /\ status_[c] # "connectted" \/ kernel[c].err
          /\ Goto("write")
       \/ /\ status_[c] = "connectted"
          /\ ~kernel[c].err /\ kernel[c].inbound = 0 /\ ~kernel[c].fin
          /\ Goto("tail")
    /\ UNCHANGED <<connVars, refVars, queueVars, kernel, batch, cur>>

(* recv() returns 0: the peer has finished. *)
RecvFin == LET c == cur.s IN
    /\ pc = "read"
    /\ status_[c] = "connectted"
    /\ ~kernel[c].err /\ kernel[c].inbound = 0 /\ kernel[c].fin
    /\ CloseSocket(c)
    /\ UNCHANGED <<write_lock_, unsent, bad, refVars, queueVars, kernel, batch, cur>>

(* The end of HandleReadComplete: whatever Lua wrote is pushed.              *)
ReadTail == LET c == cur.s IN
    /\ pc = "tail"
    /\ IF unsent[c] > 0 THEN BurstPush(c) ELSE UNCHANGED <<write_lock_, kernel>>
    /\ Goto("write")
    /\ UNCHANGED <<status_, unsent, bad, refVars, queueVars, batch, cur>>

(* EPOLLOUT on a connecting socket: HandleConnect(s, true). *)
HandleConnect == LET c == cur.s IN
    /\ pc = "write"
    /\ "OUT" \in cur.ev
    /\ status_[c] = "connecting"
    /\ status_' = [status_ EXCEPT ![c] = "connectted"]
    /\ PostEvent(c, {"IN"})
    /\ CallLua(c, "open", "release")
    /\ UNCHANGED <<write_lock_, unsent, bad, refVars, queueVars, batch, cur>>

(* With data left, EPOLLIN stays on too, lest two ends that both fill their   *)
(* buffers wait for each other.                                               *)
EventsAfterWrite(left) == IF left = 0 THEN {"IN"} ELSE {"IN", "OUT"}

(* HandleCanWrite on a connected socket: WriteCallback sends until the       *)
(* buffer is empty or the kernel takes no more, then the events to wait for  *)
(* are chosen.  A complete send may have used up the kernel's room.          *)
HandleCanWrite == LET c == cur.s IN
    /\ pc = "write"
    /\ "OUT" \in cur.ev
    /\ status_[c] = "connectted"
    /\ write_lock_[c] > 0
    /\ \E left \in 0..unsent[c], room \in BOOLEAN :
         /\ IF kernel[c].room /\ ~kernel[c].err
            THEN /\ left < unsent[c] \/ unsent[c] = 0
                 /\ left > 0 => ~room
            ELSE left = unsent[c] /\ room = kernel[c].room
         /\ unsent' = [unsent EXCEPT ![c] = left]
         /\ write_lock_' = [write_lock_ EXCEPT ![c] = IF left = 0 THEN @ - 1 ELSE @]
         /\ kernel' = [kernel EXCEPT ![c] =
                Registered([@ EXCEPT !.room = room], EventsAfterWrite(left))]
    /\ Goto("release")
    /\ UNCHANGED <<status_, bad, refVars, queueVars, batch, cur>>

(* HandleCanWrite on a closing socket. *)
CloseWhenWritable == LET c == cur.s IN
    /\ pc = "write"
    /\ "OUT" \in cur.ev
    /\ status_[c] = "closing"
    /\ write_lock_[c] > 0
    /\ CloseSocket(c)
    /\ UNCHANGED <<write_lock_, unsent, bad, refVars, queueVars, kernel, batch, cur>>

(* No EPOLLOUT, no send lock, or a closed socket: nothing to write. *)
NothingToWrite == LET c == cur.s IN
    /\ pc = "write"
    /\ \/ "OUT" \notin cur.ev
       \/ status_[c] = "closed"
       \/ status_[c] # "connecting" /\ write_lock_[c] = 0
    /\ Goto("release")
    /\ UNCHANGED <<connVars, refVars, queueVars, kernel, batch, cur>>

(* REF_RELEASE at the end of a socket event. *)
EventDone == /\ pc = "release"
             /\ Release(cur.s)
             /\ cur' = Idle
             /\ Goto("batch")
             /\ UNCHANGED <<connVars, socket_map_, queueVars, kernel, batch>>

-------------------------------------------------------------------------------
(* HandleDelayEvent: one queued event, and the reference it held. *)
PopEvent == /\ pc = "drain"
            /\ event_queue_ # <<>>
            /\ event_queue_' = Tail(event_queue_)
            /\ Release(Head(event_queue_).s)

(* HandleClose: only a connected socket starts to close. *)
HandleClose == LET c == Head(event_queue_).s IN
    /\ PopEvent
    /\ Head(event_queue_).type = "CLOSE"
    /\ IF status_[c] = "connectted"
       THEN status_' = [status_ EXCEPT ![c] = "closing"] /\ BurstPush(c)
       ELSE UNCHANGED <<status_, write_lock_, kernel>>
    /\ UNCHANGED <<unsent, bad, socket_map_, wakeup, threadVars, calls>>

(* HandleDelaySend: only a connected socket with data waits for EPOLLOUT. *)
HandleDelaySend == LET c == Head(event_queue_).s IN
    /\ PopEvent
    /\ Head(event_queue_).type = "DELAY_SEND"
    /\ IF status_[c] = "connectted" /\ unsent[c] > 0
       THEN BurstPush(c)
       ELSE UNCHANGED <<write_lock_, kernel>>
    /\ UNCHANGED <<status_, unsent, bad, socket_map_, wakeup, threadVars, calls>>

DrainDone == /\ pc = "drain"
             /\ event_queue_ = <<>>
             /\ Goto("batch")
             /\ UNCHANGED <<connVars, refVars, queueVars, kernel, batch, cur>>

-------------------------------------------------------------------------------
(* The peer and the network (external). *)
Env(c, k) == /\ kernel[c].open
             /\ kernel' = [kernel EXCEPT ![c] = k]
             /\ UNCHANGED progVars

(* A connection attempt succeeds (the socket becomes writable) or fails. *)
Established(c) == /\ status_[c] = "connecting" /\ ~kernel[c].room /\ ~kernel[c].err
                  /\ Env(c, Edge([kernel[c] EXCEPT !.room = TRUE], "OUT"))

Fails(c) == /\ "err" \in PeerFaults
            /\ ~kernel[c].err
            /\ Env(c, Edge([kernel[c] EXCEPT !.err = TRUE], "ERR"))

(* Is the connection up, as far as the kernel is concerned? *)
Up(c) == status_[c] # "connecting" \/ kernel[c].room

PeerSends(c) == /\ Up(c) /\ ~kernel[c].fin /\ ~kernel[c].err
                /\ kernel[c].inbound < MaxInbound
                /\ Env(c, Edge([kernel[c] EXCEPT !.inbound = @ + 1], "IN"))

PeerFinishes(c) == /\ "fin" \in PeerFaults
                   /\ Up(c) /\ ~kernel[c].fin /\ ~kernel[c].err
                   /\ Env(c, Edge([kernel[c] EXCEPT !.fin = TRUE], "IN"))

PeerReads(c) == /\ status_[c] # "connecting" /\ ~kernel[c].room /\ ~kernel[c].err
                /\ Env(c, Edge([kernel[c] EXCEPT !.room = TRUE], "OUT"))

Peer(c) == \/ Established(c) \/ Fails(c)
           \/ PeerSends(c) \/ PeerFinishes(c) \/ PeerReads(c)

Lua == \/ \E c \in Conns : Send(c) \/ Disconnect(c) \/ ConnectEx(c)
       \/ LuaReturns

Loop == \/ EpollWait \/ EpollTimeout \/ BatchDone \/ WakeUpEvent
        \/ AcceptError \/ \E c \in Conns : Accept(c)
        \/ \E item \in batch : SocketEvent(item)
        \/ RecvData \/ RecvBadPacket \/ ReadBufferFull \/ RecvNothing \/ RecvFin \/ ReadTail
        \/ HandleConnect \/ HandleCanWrite \/ CloseWhenWritable \/ NothingToWrite
        \/ RemoveAndClose \/ EventDone
        \/ HandleClose \/ HandleDelaySend \/ DrainDone

Next == Lua \/ Loop \/ \E c \in Conns : Peer(c)

Spec == Init /\ [][Next]_vars

(* recv() returned less than the space offered: the kernel buffer was empty. *)
ShortRead == RecvData /\ ret' = "tail"

(* The thread keeps running: callbacks return, and the loop takes steps.  A   *)
(* peer that is connected keeps reading what it is sent, and none sends so    *)
(* fast that every recv() for ever fills the buffer: HandleReadComplete has   *)
(* no other bound on its loop.                                                *)
Fairness == /\ WF_vars(LuaReturns)
            /\ WF_vars(Loop)
            /\ SF_vars(ShortRead)
            /\ \A c \in Conns : WF_vars(PeerReads(c)) /\ WF_vars(Established(c))

FairSpec == Spec /\ Fairness

-------------------------------------------------------------------------------
(* The types of the fields of Socket, SocketMgr and the kernel's side. *)
TypeOK == /\ status_ \in [Conns -> Status]
          /\ write_lock_ \in [Conns -> 0..1]
          /\ unsent \in [Conns -> 0..MaxUnsent]
          /\ bad \in [Conns -> BOOLEAN]
          /\ count_ \in [Conns -> Nat]
          /\ object \in [Conns -> {"unborn", "live", "deleted"}]
          /\ socket_map_ \subseteq Conns
          /\ event_queue_ \in Seq(Event)
          /\ wakeup \in BOOLEAN
          /\ pc \in {"lua", "callback", "wait", "batch", "drain", "read", "tail",
                     "write", "release", "remove", "connfail"}
          /\ ret \in {"lua", "batch", "read", "tail", "release", "remove", "connfail"}
          /\ cur.s \in Conns \cup {NoConn}

(* How many queued events hold a reference to c. *)
Queued(c) == Cardinality({i \in DOMAIN event_queue_ : event_queue_[i].s = c})

Pending(c, type) ==
    \E i \in DOMAIN event_queue_ : event_queue_[i] = [s |-> c, type |-> type]

(* The reference count is exactly the references that exist: socket_map_,    *)
(* one per queued event, one for the handler at work.  One too few deletes   *)
(* an object in use; one too many leaks it.                                  *)
RefCount == \A c \in Conns :
    count_[c] = (IF c \in socket_map_ THEN 1 ELSE 0) + Queued(c)
                + (IF cur.s = c THEN 1 ELSE 0)

(* No dangling pointer: whatever socket_map_, event_queue_, the handler, the *)
(* batch epoll_wait filled or the epoll set refers to is a live object; and  *)
(* an object nothing refers to is deleted.                                   *)
NoDangling == \A c \in Conns :
    /\ (\/ c \in socket_map_ \/ Queued(c) > 0 \/ cur.s = c
        \/ \E i \in batch : i.s = c
        \/ kernel[c].interest # {}) => object[c] = "live"
    /\ object[c] = "live" => count_[c] > 0

(* Lua hears of a connection in order: that it is open, then perhaps data,   *)
(* then at most once that it closed; or only that it failed.                 *)
CallOrder == \A c \in Conns :
    calls[c] \in {<<>>, <<"fail">>, <<"open">>, <<"open", "read">>,
                  <<"open", "close">>, <<"open", "read", "close">>}

(* The send lock is held exactly while the socket waits for EPOLLOUT, so     *)
(* HandleCanWrite neither misses its event nor runs twice for one push.      *)
LockArmed == \A c \in Conns :
    status_[c] \in {"connectted", "closing"} =>
        (write_lock_[c] = 1 <=> "OUT" \in kernel[c].interest)

(* Queued events are never forgotten: the eventfd is readable or the queue   *)
(* is being drained.                                                         *)
QueueWakes == event_queue_ # <<>> => wakeup \/ pc = "drain"

(* Data written on a connected socket is on its way: the socket waits for    *)
(* EPOLLOUT, or a DELAY_SEND event that will make it wait is queued.         *)
NoStrandedData == \A c \in Conns :
    status_[c] = "connectted" /\ unsent[c] > 0 =>
        \/ write_lock_[c] = 1
        \/ Pending(c, "DELAY_SEND")

(* Unread data on a connected socket will be noticed: it is on the ready     *)
(* list, in the batch, being read, or the send lock holder re-arms EPOLLIN.  *)
NoMissedInput == \A c \in Conns :
    status_[c] = "connectted" /\ kernel[c].inbound > 0 =>
        \/ kernel[c].ready
        \/ \E i \in batch : i.s = c /\ i.ev \cap {"IN", "ERR"} # {}
        \/ cur.s = c
        \/ "IN" \notin kernel[c].interest
        \/ Pending(c, "CLOSE")

(* Every disconnect of a connected socket is carried out, if the peer reads. *)
DisconnectCompletes == \A c \in Conns :
    status_[c] = "connectted" /\ Pending(c, "CLOSE")
        ~> status_[c] = "closed"

(* A full write buffer drains if the peer reads. *)
OutputMoves == \A c \in Conns :
    status_[c] = "connectted" /\ unsent[c] = MaxUnsent
        ~> unsent[c] < MaxUnsent \/ status_[c] # "connectted"

(* A full kernel receive buffer is read, if the peer reads too. *)
InputMoves == \A c \in Conns :
    status_[c] = "connectted" /\ kernel[c].inbound = MaxInbound
        ~> kernel[c].inbound < MaxInbound \/ status_[c] # "connectted"

(* Lua learns how a connection attempt ended, unless ConnectEx failed to      *)
(* register the socket with epoll: that is logged and the attempt forgotten.  *)
ConnectAnswered == \A c \in Conns :
    status_[c] = "connecting" /\ kernel[c].interest # {} ~> calls[c] # <<>>
===============================================================================
