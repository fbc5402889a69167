--------------------------- MODULE SocketMgr_proofs ---------------------------
(* Proofs about SocketMgr, for every set of connections and every bound. *)
EXTENDS SocketMgr, FiniteSetTheorems, SequenceTheorems, TLAPS

-------------------------------------------------------------------------------
(* The inductive invariant, part by part. *)

Fd == [open : BOOLEAN, interest : SUBSET Interest, ready : BOOLEAN, inbound : Nat,
       fin : BOOLEAN, err : BOOLEAN, room : BOOLEAN]

Item == [s : Conns \cup {NoConn}, ev : SUBSET (Interest \cup {"ACCEPT"})]

(* The types that TypeOK leaves out. *)
MoreTypes == /\ kernel \in [Conns -> Fd]
             /\ batch \subseteq Item
             /\ cur \in Item
             /\ calls \in [Conns -> Seq({"open", "read", "close", "fail"})]

(* Where the thread is, a callback aside: a callback returns to its handler. *)
Phase == IF pc = "callback" THEN ret ELSE pc

Handling == {"read", "tail", "write", "release", "remove", "connfail"}

(* A socket is held exactly while a handler runs; the handlers rely on the    *)
(* status they found, whatever Lua does in a callback.                        *)
Control == /\ Phase \in {"lua", "wait"} => batch = {}
           /\ cur.s # NoConn <=> Phase \in Handling
           /\ Phase = "tail" => status_[cur.s] = "connectted"
           /\ Phase = "remove" => status_[cur.s] = "closed"
           /\ Phase = "connfail" => status_[cur.s] = "connecting"
           /\ pc = "callback" => ret # "lua"

(* What epoll_wait returned: one item for a socket, which is in socket_map_   *)
(* and not the one being handled.                                             *)
BatchSound == /\ \A i, j \in batch : i.s = j.s /\ i.s # NoConn => i = j
              /\ \A i \in batch : i.s # NoConn => i.s \in socket_map_ /\ i.s # cur.s

(* An object is alive as long as it has references. *)
Alive == \A c \in Conns : object[c] = "live" <=> count_[c] > 0

(* A socket that is not in socket_map_ is unknown to the kernel; one that is  *)
(* alive and not closed is in it; epoll always waits for errors.              *)
Mapped(c) == /\ c \notin socket_map_ => kernel[c] = NoFd
             /\ object[c] = "live" /\ status_[c] # "closed" => c \in socket_map_
             /\ kernel[c].interest # {} => "ERR" \in kernel[c].interest

(* An object that does not exist yet. *)
Fresh(c) == object[c] = "unborn" =>
    /\ status_[c] = "closed" /\ write_lock_[c] = 0 /\ unsent[c] = 0
    /\ ~bad[c] /\ calls[c] = <<>>

(* CallOrder, with what the status says about the calls made. *)
Calls(c) ==
    /\ status_[c] = "connecting" => calls[c] = <<>> \/ (cur.s = c /\ Phase = "connfail")
    /\ object[c] = "live" /\ status_[c] \in {"connectted", "closing"}
         => calls[c] \in {<<"open">>, <<"open", "read">>}
    /\ calls[c] \in {<<>>, <<"fail">>, <<"open">>, <<"open", "read">>,
                     <<"open", "close">>, <<"open", "read", "close">>}

(* LockArmed and NoStrandedData; a socket that is connecting does not have    *)
(* the send lock, nor, if Lua waits for the connection, anything to send.     *)
Sending(c) ==
    /\ status_[c] = "connecting" => write_lock_[c] = 0
    /\ status_[c] \in {"connectted", "closing"} =>
         (write_lock_[c] = 1 <=> "OUT" \in kernel[c].interest)
    /\ ~EarlySend /\ status_[c] = "connecting" => unsent[c] = 0
    /\ ~EarlySend /\ status_[c] = "connectted" /\ unsent[c] > 0 =>
         write_lock_[c] = 1 \/ Pending(c, "DELAY_SEND")

(* NoMissedInput.  An error puts the socket on the ready list or in the       *)
(* batch; a length out of range has queued a disconnect; and input is on its  *)
(* way or a handler still has to read it.                                     *)
Reading(c) ==
    /\ status_[c] = "connecting" => ~bad[c]
    /\ status_[c] = "connectted" /\ bad[c] => Pending(c, "CLOSE")
    /\ status_[c] = "connectted" /\ kernel[c].err /\ kernel[c].interest # {} =>
         kernel[c].ready \/ \E i \in batch : i.s = c /\ "ERR" \in i.ev
    /\ status_[c] = "connectted" /\ kernel[c].inbound > 0 /\ "IN" \in kernel[c].interest =>
         \/ kernel[c].ready
         \/ \E i \in batch : i.s = c /\ i.ev \cap {"IN", "ERR"} # {}
         \/ Pending(c, "CLOSE")
         \/ cur.s = c /\ Phase = "read"

ConnInv(c) == Mapped(c) /\ Fresh(c) /\ Calls(c) /\ Sending(c) /\ Reading(c)

Inv == /\ TypeOK /\ MoreTypes /\ Control /\ BatchSound /\ RefCount /\ Alive /\ QueueWakes
       /\ \A c \in Conns : ConnInv(c)

-------------------------------------------------------------------------------
(* The operators of the model. *)

(* The queue as a value: how many of its events are about c. *)
About(q, c) == {i \in DOMAIN q : q[i].s = c}

(* There are finitely many. *)
LEMMA AboutFinite ==
    ASSUME NEW q \in Seq(Event), NEW c
    PROVE  IsFiniteSet(About(q, c)) /\ Cardinality(About(q, c)) \in Nat
<1>1. IsFiniteSet(1..Len(q))
  BY FS_Interval
<1>2. About(q, c) \in SUBSET (1..Len(q))
  BY DEF About
<1>3. QED
  BY <1>1, <1>2, FS_Subset, FS_CardinalityType

(* push_back *)
LEMMA AboutAppend ==
    ASSUME NEW q \in Seq(Event), NEW e \in Event, NEW c
    PROVE  Cardinality(About(Append(q, e), c))
             = IF c = e.s THEN Cardinality(About(q, c)) + 1 ELSE Cardinality(About(q, c))
<1> DEFINE n == Len(q) + 1
<1>1. /\ Append(q, e) \in Seq(Event) /\ Len(Append(q, e)) = n
      /\ \A i \in 1..Len(q) : Append(q, e)[i] = q[i]
      /\ Append(q, e)[n] = e
  BY AppendProperties
<1>2. Len(q) \in Nat /\ DOMAIN q = 1..Len(q) /\ DOMAIN Append(q, e) = 1..n
  BY <1>1
<1>3. \A i : i \in 1..n <=> i \in 1..Len(q) \/ i = n
  BY <1>2
<1>4. CASE c = e.s
  <2>1. About(Append(q, e), c) = About(q, c) \cup {n}
    <3>1. ASSUME NEW i PROVE i \in About(Append(q, e), c) <=> i \in About(q, c) \/ i = n
      BY <1>1, <1>2, <1>3, <1>4 DEF About
    <3>2. QED
      BY <3>1
  <2>2. n \notin About(q, c)
    <3>1. n \notin 1..Len(q)
      BY <1>2
    <3>2. QED
      BY <3>1, <1>2 DEF About
  <2>3. IsFiniteSet(About(q, c))
    BY AboutFinite
  <2>4. Cardinality(About(q, c) \cup {n}) = Cardinality(About(q, c)) + 1
    BY <2>2, <2>3, FS_AddElement
  <2>5. QED
    BY <1>4, <2>1, <2>4
<1>5. CASE c # e.s
  <2>1. About(Append(q, e), c) = About(q, c)
    BY <1>1, <1>2, <1>3, <1>5 DEF About
  <2>2. QED
    BY <1>5, <2>1
<1>6. QED
  BY <1>4, <1>5

(* pop *)
LEMMA AboutTail ==
    ASSUME NEW q \in Seq(Event), q # <<>>, NEW c
    PROVE  Cardinality(About(q, c))
             = IF c = Head(q).s THEN Cardinality(About(Tail(q), c)) + 1
               ELSE Cardinality(About(Tail(q), c))
<1> DEFINE r == Tail(q)
           D == About(q, c) \ {1}
           E == About(r, c)
           f == [i \in E |-> i + 1]
<1>1. /\ r \in Seq(Event) /\ Len(r) = Len(q) - 1 /\ Head(q) = q[1]
      /\ Len(q) \in Nat /\ Len(q) > 0
      /\ \A i \in 1..Len(r) : r[i] = q[i + 1]
  BY HeadTailProperties
<1> HIDE DEF r
<1>2. DOMAIN q = 1..Len(q) /\ DOMAIN r = 1..Len(r)
  BY <1>1
<1>3. f \in Bijection(E, D)
  <2>1. \A i \in E : i + 1 \in D
    <3> SUFFICES ASSUME NEW i \in E PROVE i + 1 \in D
      OBVIOUS
    <3>1. i \in 1..Len(r) /\ r[i].s = c
      BY <1>2 DEF About
    <3>2. i + 1 \in 1..Len(q) /\ i + 1 # 1 /\ q[i + 1] = r[i]
      BY <1>1, <3>1
    <3>3. QED
      BY <1>2, <3>1, <3>2 DEF About
  <2>2. f \in [E -> D]
    BY <2>1
  <2>3. \A i, j \in E : f[i] = f[j] => i = j
    <3>1. E \subseteq Nat
      BY <1>1, <1>2 DEF About
    <3>2. QED
      BY <3>1
  <2>4. \A k \in D : \E i \in E : f[i] = k
    <3> SUFFICES ASSUME NEW k \in D PROVE \E i \in E : f[i] = k
      OBVIOUS
    <3>1. k \in 1..Len(q) /\ k # 1 /\ q[k].s = c
      BY <1>2 DEF About
    <3>2. k - 1 \in 1..Len(r) /\ (k - 1) + 1 = k
      BY <1>1, <3>1
    <3>3. k - 1 \in E
      BY <1>1, <1>2, <3>1, <3>2 DEF About
    <3>4. QED
      BY <3>2, <3>3
  <2> HIDE DEF f, D, E
  <2>5. f \in Injection(E, D)
    BY <2>2, <2>3 DEF Injection, IsInjective
  <2>6. f \in Surjection(E, D)
    BY <2>2, <2>4 DEF Surjection
  <2>7. QED
    BY <2>5, <2>6 DEF Bijection
<1>4. IsFiniteSet(E) /\ Cardinality(E) \in Nat /\ IsFiniteSet(About(q, c))
      /\ Cardinality(About(q, c)) \in Nat
  BY <1>1, AboutFinite
<1>5. Cardinality(D) = Cardinality(E)
  BY <1>3, <1>4, FS_Bijection DEF ExistsBijection
<1>6. 1 \in About(q, c) <=> c = Head(q).s
  BY <1>1, <1>2 DEF About
<1>7. Cardinality(D) = IF 1 \in About(q, c) THEN Cardinality(About(q, c)) - 1
                       ELSE Cardinality(About(q, c))
  BY <1>4, FS_RemoveElement
<1> HIDE DEF D, E, f
<1>8. QED
  BY <1>4, <1>5, <1>6, <1>7 DEF r, E

(* EPOLL_CTL_MOD: the interest is replaced, and what is already so puts the   *)
(* socket on the ready list.                                                  *)
LEMMA RegisteredFacts ==
    ASSUME NEW k \in Fd, NEW E \in SUBSET Interest
    PROVE  /\ Registered(k, E) \in Fd
           /\ Registered(k, E).interest = E \cup {"ERR"}
           /\ Registered(k, E).inbound = k.inbound
           /\ Registered(k, E).err = k.err
           /\ k.err => Registered(k, E).ready
           /\ "IN" \in E /\ k.inbound > 0 => Registered(k, E).ready
<1> DEFINE r == [k EXCEPT !.interest = E \cup {"ERR"}]
<1>1. r \in Fd /\ r.interest = E \cup {"ERR"} /\ r.inbound = k.inbound /\ r.err = k.err
  BY DEF Fd, Interest
<1>2. k.err => "ERR" \in Reported(r)
  BY <1>1 DEF Reported, Poll, Interest
<1>3. "IN" \in E /\ k.inbound > 0 => "IN" \in Reported(r)
  BY <1>1 DEF Reported, Poll, Interest
<1> DEFINE b == Reported(r) # {}
<1>4. b \in BOOLEAN /\ (k.err => b) /\ ("IN" \in E /\ k.inbound > 0 => b)
  BY <1>2, <1>3
<1>5. Registered(k, E) = [r EXCEPT !.ready = b]
  BY DEF Registered
<1> HIDE DEF r, b
<1>6. QED
  BY <1>1, <1>4, <1>5 DEF Fd

(* Something happens on a socket. *)
LEMMA EdgeFacts ==
    ASSUME NEW k \in Fd, NEW e
    PROVE  /\ Edge(k, e) \in Fd
           /\ Edge(k, e).interest = k.interest
           /\ Edge(k, e).inbound = k.inbound
           /\ Edge(k, e).err = k.err
           /\ k.ready => Edge(k, e).ready
           /\ e \in k.interest => Edge(k, e).ready
<1> DEFINE b == k.ready \/ e \in k.interest
<1>1. b \in BOOLEAN /\ (k.ready => b) /\ (e \in k.interest => b)
  BY DEF Fd
<1>2. Edge(k, e) = [k EXCEPT !.ready = b]
  BY DEF Edge
<1> HIDE DEF b
<1>3. QED
  BY <1>1, <1>2 DEF Fd

(* A socket the kernel does not know waits for nothing. *)
LEMMA NoFdType == NoFd \in Fd /\ NoFd.interest = {} /\ NoFd.inbound = 0 /\ ~NoFd.err
BY DEF NoFd, Fd

(* Queued and Pending, when an event is queued ... *)
LEMMA Pushes ==
    ASSUME event_queue_ \in Seq(Event), NEW c \in Conns, NEW type \in {"CLOSE", "DELAY_SEND"},
           event_queue_' = Append(event_queue_, [s |-> c, type |-> type])
    PROVE  /\ event_queue_' \in Seq(Event)
           /\ \A d \in Conns : Queued(d)' = IF d = c THEN Queued(d) + 1 ELSE Queued(d)
           /\ \A d \in Conns : \A u : Pending(d, u) => Pending(d, u)'
           /\ Pending(c, type)'
<1> DEFINE e == [s |-> c, type |-> type]
<1>1. e \in Event /\ e.s = c
  BY DEF Event
<1> HIDE DEF e
<1>2. /\ event_queue_' \in Seq(Event) /\ Len(event_queue_') = Len(event_queue_) + 1
      /\ \A i \in 1..Len(event_queue_) : event_queue_'[i] = event_queue_[i]
      /\ event_queue_'[Len(event_queue_) + 1] = e
  BY <1>1, AppendProperties DEF e
<1>3. /\ Len(event_queue_) \in Nat
      /\ DOMAIN event_queue_ = 1..Len(event_queue_)
      /\ DOMAIN event_queue_' = 1..(Len(event_queue_) + 1)
  BY <1>2
<1>4. ASSUME NEW d \in Conns PROVE Queued(d)' = IF d = c THEN Queued(d) + 1 ELSE Queued(d)
  <2>1. Queued(d) = Cardinality(About(event_queue_, d))
        /\ Queued(d)' = Cardinality(About(event_queue_', d))
    BY DEF Queued, About
  <2>2. Cardinality(About(Append(event_queue_, e), d))
          = IF d = e.s THEN Cardinality(About(event_queue_, d)) + 1
            ELSE Cardinality(About(event_queue_, d))
    BY <1>1, AboutAppend
  <2>3. event_queue_' = Append(event_queue_, e)
    BY DEF e
  <2>4. QED
    BY <1>1, <2>1, <2>2, <2>3
<1>5. ASSUME NEW d \in Conns, NEW u, Pending(d, u) PROVE Pending(d, u)'
  <2>1. PICK i \in 1..Len(event_queue_) : event_queue_[i] = [s |-> d, type |-> u]
    BY <1>3, <1>5 DEF Pending
  <2>2. i \in 1..(Len(event_queue_) + 1) /\ event_queue_'[i] = [s |-> d, type |-> u]
    BY <1>2, <1>3, <2>1
  <2>3. QED
    BY <1>3, <2>2 DEF Pending
<1>6. Pending(c, type)'
  <2>1. Len(event_queue_) + 1 \in DOMAIN event_queue_'
    BY <1>3
  <2>2. QED
    BY <1>2, <2>1 DEF Pending, e
<1>7. QED
  BY <1>2, <1>4, <1>5, <1>6

(* ... and when the first one is taken. *)
LEMMA Pops ==
    ASSUME event_queue_ \in Seq(Event), event_queue_ # <<>>,
           event_queue_' = Tail(event_queue_)
    PROVE  /\ event_queue_' \in Seq(Event)
           /\ Head(event_queue_) \in Event
           /\ \A d \in Conns : /\ Queued(d) \in Nat /\ Queued(d)' \in Nat
                               /\ Queued(d) = IF d = Head(event_queue_).s THEN Queued(d)' + 1
                                              ELSE Queued(d)'
           /\ \A d \in Conns : \A u :
                Pending(d, u) /\ Head(event_queue_) # [s |-> d, type |-> u] => Pending(d, u)'
<1>1. /\ event_queue_' \in Seq(Event) /\ Len(event_queue_') = Len(event_queue_) - 1
      /\ Head(event_queue_) = event_queue_[1] /\ Head(event_queue_) \in Event
      /\ Len(event_queue_) \in Nat /\ Len(event_queue_) > 0
      /\ \A i \in 1..Len(event_queue_') : event_queue_'[i] = event_queue_[i + 1]
  BY HeadTailProperties
<1>2. DOMAIN event_queue_ = 1..Len(event_queue_) /\ DOMAIN event_queue_' = 1..Len(event_queue_')
  BY <1>1
<1>3. ASSUME NEW d \in Conns
      PROVE  /\ Queued(d) \in Nat /\ Queued(d)' \in Nat
             /\ Queued(d) = IF d = Head(event_queue_).s THEN Queued(d)' + 1 ELSE Queued(d)'
  <2>1. Queued(d) = Cardinality(About(event_queue_, d))
        /\ Queued(d)' = Cardinality(About(event_queue_', d))
    BY DEF Queued, About
  <2>2. Cardinality(About(event_queue_, d))
          = IF d = Head(event_queue_).s THEN Cardinality(About(Tail(event_queue_), d)) + 1
            ELSE Cardinality(About(Tail(event_queue_), d))
    BY AboutTail
  <2>3. Cardinality(About(event_queue_, d)) \in Nat /\ Cardinality(About(event_queue_', d)) \in Nat
    BY <1>1, AboutFinite
  <2>4. QED
    BY <2>1, <2>2, <2>3
<1>4. ASSUME NEW d \in Conns, NEW u, Pending(d, u), Head(event_queue_) # [s |-> d, type |-> u]
      PROVE  Pending(d, u)'
  <2>1. PICK i \in 1..Len(event_queue_) : event_queue_[i] = [s |-> d, type |-> u]
    BY <1>2, <1>4 DEF Pending
  <2>2. i # 1
    BY <1>1, <1>4, <2>1
  <2>3. i - 1 \in 1..Len(event_queue_') /\ (i - 1) + 1 = i
    BY <1>1, <2>1, <2>2
  <2>4. event_queue_'[i - 1] = [s |-> d, type |-> u]
    BY <1>1, <2>1, <2>3
  <2>5. QED
    BY <1>2, <2>3, <2>4 DEF Pending
<1>5. QED
  BY <1>1, <1>3, <1>4

-------------------------------------------------------------------------------
(* References. *)

(* What a step can do to the references: *)
Quiet == UNCHANGED <<refVars, event_queue_, cur>>

(* queue an event with its reference, *)
Pushed(c) == /\ c \in socket_map_
             /\ AddRef(c)
             /\ \E type \in {"CLOSE", "DELAY_SEND"} :
                  event_queue_' = Append(event_queue_, [s |-> c, type |-> type])
             /\ UNCHANGED <<object, socket_map_, cur>>

(* make a socket, or fail to, *)
Made(c) == /\ object[c] = "unborn"
           /\ \/ object' = [object EXCEPT ![c] = "live"] /\ AddSocket(c)
              \/ object' = [object EXCEPT ![c] = "deleted"] /\ UNCHANGED <<count_, socket_map_>>
           /\ UNCHANGED <<event_queue_, cur>>

(* begin to handle a socket, *)
Taken(c) == /\ cur.s = NoConn
            /\ c \in socket_map_
            /\ AddRef(c)
            /\ cur'.s = c
            /\ UNCHANGED <<object, socket_map_, event_queue_>>

(* be through with it, *)
Finished == /\ cur.s \in Conns
            /\ Release(cur.s)
            /\ cur'.s = NoConn
            /\ UNCHANGED <<socket_map_, event_queue_>>

(* take it from socket_map_, *)
Removed == /\ cur.s \in Conns
           /\ IF cur.s \in socket_map_ THEN Release(cur.s) ELSE UNCHANGED <<count_, object>>
           /\ socket_map_' = socket_map_ \ {cur.s}
           /\ UNCHANGED <<event_queue_, cur>>

(* or take an event from the queue. *)
Popped == /\ event_queue_ # <<>>
          /\ event_queue_' = Tail(event_queue_)
          /\ Release(Head(event_queue_).s)
          /\ UNCHANGED <<socket_map_, cur>>

RefEffect == \/ Quiet
             \/ \E c \in Conns : Pushed(c) \/ Made(c) \/ Taken(c)
             \/ Finished \/ Removed \/ Popped

(* There is nothing else. *)
LEMMA RefEffects == Inv /\ [Next]_vars => RefEffect
<1> SUFFICES ASSUME Inv, [Next]_vars PROVE RefEffect
  OBVIOUS
<1>c. /\ cur.s \in Conns \cup {NoConn} /\ NoConn \notin Conns /\ socket_map_ \subseteq Conns
      /\ pc \in Handling => cur.s # NoConn
      /\ pc \in {"batch", "drain", "lua", "wait"} => cur.s = NoConn
      /\ \A i \in batch : i.s # NoConn => i.s \in socket_map_
  BY ConnsAssumption DEF Inv, TypeOK, Control, BatchSound, Phase, Handling
<1>1. CASE UNCHANGED vars
  BY <1>1 DEF vars, progVars, refVars, queueVars, threadVars, RefEffect, Quiet
<1>2. ASSUME NEW c \in Conns, Send(c) \/ Disconnect(c) PROVE RefEffect
  BY <1>2 DEF Send, Disconnect, PushEvent, threadVars, RefEffect, Pushed
<1>3. ASSUME NEW c \in Conns, ConnectEx(c) \/ Accept(c) PROVE RefEffect
  BY <1>3 DEF ConnectEx, Accept, queueVars, threadVars, RefEffect, Made
<1>4. CASE LuaReturns \/ EpollWait \/ EpollTimeout \/ BatchDone \/ WakeUpEvent \/ AcceptError
  BY <1>4 DEF LuaReturns, EpollWait, EpollTimeout, BatchDone, WakeUpEvent, AcceptError,
              queueVars, RefEffect, Quiet
<1>5. ASSUME NEW item \in batch, SocketEvent(item) PROVE RefEffect
  <2>1. item.s \in Conns /\ item.s \in socket_map_ /\ pc = "batch" /\ cur'.s = item.s
    BY <1>5, <1>c DEF SocketEvent
  <2>2. QED
    BY <1>5, <1>c, <2>1 DEF SocketEvent, queueVars, RefEffect, Taken
<1>6. CASE RecvBadPacket
  <2>1. cur.s \in Conns
    BY <1>6, <1>c DEF RecvBadPacket, Handling
  <2>2. CASE cur.s \in socket_map_
    BY <1>6, <2>1, <2>2 DEF RecvBadPacket, PushEvent, RefEffect, Pushed
  <2>3. CASE cur.s \notin socket_map_
    BY <1>6, <2>3 DEF RecvBadPacket, queueVars, refVars, RefEffect, Quiet
  <2>4. QED
    BY <2>2, <2>3
<1>7. CASE \/ RecvData \/ ReadBufferFull \/ RecvNothing \/ RecvFin \/ ReadTail
           \/ HandleConnect \/ HandleCanWrite \/ CloseWhenWritable \/ NothingToWrite
           \/ DrainDone
  BY <1>7 DEF RecvData, ReadBufferFull, RecvNothing, RecvFin, ReadTail, HandleConnect,
              HandleCanWrite, CloseWhenWritable, NothingToWrite, DrainDone,
              queueVars, RefEffect, Quiet
<1>8. CASE EventDone
  BY <1>8, <1>c DEF EventDone, Handling, Idle, queueVars, RefEffect, Finished
<1>9. CASE RemoveAndClose
  BY <1>9, <1>c DEF RemoveAndClose, Handling, queueVars, RefEffect, Removed
<1>10. CASE HandleClose \/ HandleDelaySend
  BY <1>10 DEF HandleClose, HandleDelaySend, PopEvent, threadVars, RefEffect, Popped
<1>11. ASSUME NEW c \in Conns, Peer(c) PROVE RefEffect
  BY <1>11 DEF Peer, Established, Fails, PeerSends, PeerFinishes, PeerReads, Env,
               progVars, queueVars, threadVars, RefEffect, Quiet
<1>12. QED
  BY <1>1, <1>2, <1>3, <1>4, <1>5, <1>6, <1>7, <1>8, <1>9, <1>10, <1>11 DEF Next, Lua, Loop

(* The count of c is exact, and says whether it is alive. *)
Exact(c) == /\ count_[c] = (IF c \in socket_map_ THEN 1 ELSE 0) + Queued(c)
                           + (IF cur.s = c THEN 1 ELSE 0)
            /\ object[c] = "live" <=> count_[c] > 0

RefPart == /\ count_ \in [Conns -> Nat]
           /\ object \in [Conns -> {"unborn", "live", "deleted"}]
           /\ \A c \in Conns : Exact(c)

(* Every effect keeps it so. *)
LEMMA RefStep ==
    ASSUME RefPart, RefEffect, event_queue_ \in Seq(Event), socket_map_ \subseteq Conns
    PROVE  RefPart'
<1>t. /\ count_ \in [Conns -> Nat] /\ object \in [Conns -> {"unborn", "live", "deleted"}]
      /\ NoConn \notin Conns
  BY ConnsAssumption DEF RefPart
<1>r. \A c \in Conns : Exact(c)
  BY DEF RefPart
<1>q. \A c \in Conns : Queued(c) \in Nat
  BY AboutFinite DEF Queued, About
<1>s. event_queue_' = event_queue_ => \A c \in Conns : Queued(c)' = Queued(c)
  BY DEF Queued
<1>1. CASE Quiet
  <2>1. UNCHANGED <<count_, object, socket_map_, event_queue_, cur>>
    BY <1>1 DEF Quiet, refVars
  <2>2. QED
    BY <2>1, <1>t, <1>r, <1>s DEF Exact, RefPart
<1>2. ASSUME NEW c \in Conns, Pushed(c) PROVE RefPart'
  <2>1. \A d \in Conns : Queued(d)' = IF d = c THEN Queued(d) + 1 ELSE Queued(d)
    BY <1>2, Pushes DEF Pushed
  <2>2. UNCHANGED <<object, socket_map_, cur>> /\ c \in socket_map_
        /\ count_' = [count_ EXCEPT ![c] = @ + 1]
    BY <1>2 DEF Pushed, AddRef
  <2>3. count_' \in [Conns -> Nat]
    BY <2>2, <1>t
  <2>4. ASSUME NEW d \in Conns PROVE Exact(d)'
    <3>1. CASE d = c
      BY <3>1, <2>1, <2>2, <1>t, <1>r, <1>q DEF Exact
    <3>2. CASE d # c
      BY <3>2, <2>1, <2>2, <1>t, <1>r DEF Exact
    <3>3. QED
      BY <3>1, <3>2
  <2>5. QED
    BY <2>2, <2>3, <2>4, <1>t DEF RefPart
<1>3. ASSUME NEW c \in Conns, Made(c) PROVE RefPart'
  <2>1. UNCHANGED <<event_queue_, cur>> /\ object[c] = "unborn"
    BY <1>3 DEF Made
  <2>2. count_[c] = 0 /\ c \notin socket_map_ /\ Queued(c) = 0 /\ cur.s # c
    BY <2>1, <1>r, <1>q, <1>t DEF Exact
  <2>3. CASE object' = [object EXCEPT ![c] = "live"] /\ AddSocket(c)
    <3>1. count_' = [count_ EXCEPT ![c] = @ + 1] /\ socket_map_' = socket_map_ \cup {c}
      BY <2>3 DEF AddSocket, AddRef
    <3>2. ASSUME NEW d \in Conns PROVE Exact(d)'
      <4>1. CASE d = c
        BY <4>1, <2>1, <2>2, <2>3, <3>1, <1>t, <1>s DEF Exact
      <4>2. CASE d # c
        BY <4>2, <2>1, <2>3, <3>1, <1>t, <1>r, <1>s DEF Exact
      <4>3. QED
        BY <4>1, <4>2
    <3>3. QED
      BY <3>1, <3>2, <2>3, <1>t DEF RefPart
  <2>4. CASE object' = [object EXCEPT ![c] = "deleted"] /\ UNCHANGED <<count_, socket_map_>>
    <3>1. ASSUME NEW d \in Conns PROVE Exact(d)'
      <4>1. CASE d = c
        BY <4>1, <2>1, <2>2, <2>4, <1>t, <1>s DEF Exact
      <4>2. CASE d # c
        BY <4>2, <2>1, <2>4, <1>t, <1>r, <1>s DEF Exact
      <4>3. QED
        BY <4>1, <4>2
    <3>2. QED
      BY <3>1, <2>4, <1>t DEF RefPart
  <2>5. QED
    BY <2>3, <2>4, <1>3 DEF Made
<1>4. ASSUME NEW c \in Conns, Taken(c) PROVE RefPart'
  <2>1. /\ UNCHANGED <<object, socket_map_, event_queue_>> /\ c \in socket_map_
        /\ cur.s = NoConn /\ cur'.s = c
        /\ count_' = [count_ EXCEPT ![c] = @ + 1]
    BY <1>4 DEF Taken, AddRef
  <2>2. ASSUME NEW d \in Conns PROVE Exact(d)'
    <3>1. CASE d = c
      <4>1. count_[c] = 1 + Queued(c) /\ object[c] = "live" /\ Queued(c) \in Nat
        BY <2>1, <1>t, <1>r, <1>q DEF Exact
      <4>2. count_'[c] = count_[c] + 1 /\ Queued(c)' = Queued(c)
        BY <2>1, <1>t, <1>s
      <4>3. QED
        BY <3>1, <2>1, <4>1, <4>2 DEF Exact
    <3>2. CASE d # c
      BY <3>2, <2>1, <1>t, <1>r, <1>s DEF Exact
    <3>3. QED
      BY <3>1, <3>2
  <2>3. QED
    BY <2>1, <2>2, <1>t DEF RefPart
(* Releasing a reference of c that exists. *)
<1>r1. ASSUME NEW c \in Conns, Release(c), count_[c] > 0
       PROVE  /\ count_' \in [Conns -> Nat]
              /\ object' \in [Conns -> {"unborn", "live", "deleted"}]
              /\ count_'[c] = count_[c] - 1
              /\ object[c] = "live" => (object'[c] = "live" <=> count_'[c] > 0)
              /\ \A d \in Conns : d # c => count_'[d] = count_[d] /\ object'[d] = object[d]
  <2>1. count_' = [count_ EXCEPT ![c] = @ - 1]
        /\ object' = [object EXCEPT ![c] = IF count_[c] = 1 THEN "deleted" ELSE @]
    BY <1>r1 DEF Release
  <2>2. count_[c] - 1 \in Nat
    BY <1>r1, <1>t
  <2>3. QED
    BY <2>1, <2>2, <1>r1, <1>t
<1>5. CASE Finished
  <2>1. /\ UNCHANGED <<socket_map_, event_queue_>> /\ cur.s \in Conns
        /\ cur'.s = NoConn /\ Release(cur.s)
    BY <1>5 DEF Finished
  <2>2. count_[cur.s] > 0 /\ object[cur.s] = "live"
    <3>1. Exact(cur.s) /\ Queued(cur.s) \in Nat
      BY <2>1, <1>r, <1>q
    <3>2. QED
      BY <3>1 DEF Exact
  <2>3. ASSUME NEW d \in Conns PROVE Exact(d)'
    <3>1. CASE d = cur.s
      <4>1. /\ count_'[d] = count_[d] - 1
            /\ object'[d] = "live" <=> count_'[d] > 0
        BY <3>1, <2>1, <2>2, <1>r1
      <4>2. cur'.s # d /\ socket_map_' = socket_map_ /\ Queued(d)' = Queued(d) /\ Queued(d) \in Nat
        BY <3>1, <2>1, <1>t, <1>q, <1>s
      <4>3. count_[d] = (IF d \in socket_map_ THEN 1 ELSE 0) + Queued(d) + 1
        BY <3>1, <1>r DEF Exact
      <4>4. count_'[d] = (IF d \in socket_map_' THEN 1 ELSE 0) + Queued(d)'
        BY <4>1, <4>2, <4>3
      <4>5. QED
        BY <4>1, <4>2, <4>4 DEF Exact
    <3>2. CASE d # cur.s
      BY <3>2, <2>1, <2>2, <1>t, <1>r, <1>s, <1>r1 DEF Exact
    <3>3. QED
      BY <3>1, <3>2
  <2>4. QED
    BY <2>1, <2>2, <2>3, <1>r1 DEF RefPart
<1>6. CASE Removed
  <2>1. /\ UNCHANGED <<event_queue_, cur>> /\ cur.s \in Conns
        /\ socket_map_' = socket_map_ \ {cur.s}
    BY <1>6 DEF Removed
  <2>2. CASE cur.s \in socket_map_
    <3>1. Release(cur.s)
      BY <1>6, <2>2 DEF Removed
    <3>2. count_[cur.s] > 0 /\ object[cur.s] = "live"
      <4>1. Exact(cur.s) /\ Queued(cur.s) \in Nat
        BY <2>1, <1>r, <1>q
      <4>2. QED
        BY <4>1, <2>2 DEF Exact
    <3>3. ASSUME NEW d \in Conns PROVE Exact(d)'
      <4>1. CASE d = cur.s
        <5>1. /\ count_'[d] = count_[d] - 1
              /\ object'[d] = "live" <=> count_'[d] > 0
          BY <4>1, <2>1, <3>1, <3>2, <1>r1
        <5>2. d \notin socket_map_' /\ cur'.s = d /\ Queued(d)' = Queued(d) /\ Queued(d) \in Nat
          BY <4>1, <2>1, <1>q, <1>s
        <5>3. count_[d] = 1 + Queued(d) + 1
          BY <4>1, <2>2, <1>r DEF Exact
        <5>4. QED
          BY <5>1, <5>2, <5>3 DEF Exact
      <4>2. CASE d # cur.s
        BY <4>2, <2>1, <3>1, <3>2, <1>t, <1>r, <1>s, <1>r1 DEF Exact
      <4>3. QED
        BY <4>1, <4>2
    <3>4. QED
      BY <2>1, <3>1, <3>2, <3>3, <1>r1 DEF RefPart
  <2>3. CASE cur.s \notin socket_map_
    <3>1. UNCHANGED <<count_, object, socket_map_>>
      BY <1>6, <2>1, <2>3 DEF Removed
    <3>2. QED
      BY <3>1, <2>1, <1>t, <1>r, <1>s DEF Exact, RefPart
  <2>4. QED
    BY <2>2, <2>3
<1>7. CASE Popped
  <2> DEFINE c == Head(event_queue_).s
  <2>1. UNCHANGED <<socket_map_, cur>> /\ Release(c)
    BY <1>7 DEF Popped
  <2>2. /\ Head(event_queue_) \in Event
        /\ \A d \in Conns : /\ Queued(d)' \in Nat
                            /\ Queued(d) = IF d = c THEN Queued(d)' + 1 ELSE Queued(d)'
    BY <1>7, Pops DEF Popped
  <2>3. c \in Conns
    BY <2>2 DEF Event
  <2> HIDE DEF c
  <2>4. count_[c] > 0 /\ object[c] = "live"
    BY <2>2, <2>3, <1>r, <1>t DEF Exact
  <2>5. ASSUME NEW d \in Conns PROVE Exact(d)'
    <3>1. CASE d = c
      BY <3>1, <2>1, <2>2, <2>3, <2>4, <1>t, <1>r, <1>r1 DEF Exact
    <3>2. CASE d # c
      BY <3>2, <2>1, <2>2, <2>3, <2>4, <1>t, <1>r, <1>r1 DEF Exact
    <3>3. QED
      BY <3>1, <3>2
  <2>6. QED
    BY <2>1, <2>3, <2>4, <2>5, <1>r1 DEF RefPart
<1>8. QED
  BY <1>1, <1>2, <1>3, <1>4, <1>5, <1>6, <1>7 DEF RefEffect

(* A step keeps the counts exact. *)
LEMMA RefNext == Inv /\ [Next]_vars => RefPart'
<1> SUFFICES ASSUME Inv, [Next]_vars PROVE RefPart'
  OBVIOUS
<1>1. RefPart
  BY DEF Inv, TypeOK, RefCount, Alive, RefPart, Exact
<1>2. RefEffect
  BY RefEffects
<1>3. event_queue_ \in Seq(Event) /\ socket_map_ \subseteq Conns
  BY DEF Inv, TypeOK
<1>4. QED
  BY <1>1, <1>2, <1>3, RefStep

-------------------------------------------------------------------------------
(* Types. *)

(* The types of what a connection has. *)
ConnTypes == /\ status_ \in [Conns -> Status]
             /\ write_lock_ \in [Conns -> 0..1]
             /\ unsent \in [Conns -> 0..MaxUnsent]
             /\ bad \in [Conns -> BOOLEAN]
             /\ kernel \in [Conns -> Fd]

(* The types of what the thread has. *)
ThreadTypes == /\ wakeup \in BOOLEAN
               /\ pc \in {"lua", "callback", "wait", "batch", "drain", "read", "tail",
                          "write", "release", "remove", "connfail"}
               /\ ret \in {"lua", "batch", "read", "tail", "release", "remove", "connfail"}
               /\ batch \subseteq Item
               /\ cur \in Item

CallTypes == calls \in [Conns -> Seq({"open", "read", "close", "fail"})]

(* A callback adds one of its four names to the list. *)
LEMMA CalledType ==
    ASSUME CallTypes, NEW c \in Conns, NEW what \in {"open", "read", "close", "fail"},
           Called(c, what)
    PROVE  CallTypes'
<1>1. calls[c] \in Seq({"open", "read", "close", "fail"})
  BY DEF CallTypes
<1>2. Append(calls[c], what) \in Seq({"open", "read", "close", "fail"})
  BY <1>1, AppendProperties
<1>3. calls' = calls \/ calls' = [calls EXCEPT ![c] = Append(@, what)]
  BY DEF Called
<1>4. QED
  BY <1>2, <1>3 DEF CallTypes

(* The handler's socket while there is one. *)
LEMMA CurFacts == Inv =>
    /\ pc \in Handling => cur.s \in Conns /\ cur.s # NoConn
    /\ pc \in {"lua", "wait", "batch", "drain"} => cur.s = NoConn
    /\ \A c \in Conns : cur.s = c \/ c \in socket_map_ => object[c] = "live"
    /\ \A i \in batch : i.s # NoConn => i.s \in Conns
    /\ \A c \in Conns : object[c] = "unborn" => cur.s # c /\ \A i \in batch : i.s # c
<1> SUFFICES ASSUME Inv PROVE CurFacts!2
  OBVIOUS
<1>1. /\ pc \in Handling => cur.s \in Conns /\ cur.s # NoConn
      /\ pc \in {"lua", "wait", "batch", "drain"} => cur.s = NoConn
      /\ \A i \in batch : i.s # NoConn => i.s \in Conns /\ i.s \in socket_map_
  BY DEF Inv, TypeOK, Control, Phase, Handling, BatchSound
<1>2. ASSUME NEW c \in Conns, cur.s = c \/ c \in socket_map_ PROVE object[c] = "live"
  <2>1. Queued(c) \in Nat
    BY AboutFinite DEF Queued, About, Inv, TypeOK
  <2>2. count_[c] > 0
    BY <1>2, <2>1 DEF Inv, RefCount
  <2>3. QED
    BY <2>2 DEF Inv, Alive
<1>3. \A c \in Conns : object[c] = "unborn" => cur.s # c /\ \A i \in batch : i.s # c
  BY <1>1, <1>2, ConnsAssumption
<1>4. QED
  BY <1>1, <1>2, <1>3

(* BurstPush: the lock is taken and the socket waits for EPOLLOUT alone, or   *)
(* nothing changes.                                                           *)
LEMMA BurstFacts ==
    ASSUME ConnTypes, NEW c \in Conns, BurstPush(c)
    PROVE  /\ write_lock_' \in [Conns -> 0..1] /\ kernel' \in [Conns -> Fd]
           /\ \A d \in Conns : d # c => write_lock_'[d] = write_lock_[d] /\ kernel'[d] = kernel[d]
           /\ write_lock_'[c] = 1
           /\ \/ kernel'[c] = kernel[c] /\ write_lock_[c] = 1
              \/ kernel'[c] = Registered(kernel[c], {"OUT"})
<1>1. write_lock_[c] \in 0..1 /\ kernel[c] \in Fd /\ {"OUT"} \in SUBSET Interest
  BY DEF ConnTypes, Interest
<1>2. Registered(kernel[c], {"OUT"}) \in Fd
  BY <1>1, RegisteredFacts
<1>3. CASE write_lock_[c] = 0
  <2>1. /\ write_lock_' = [write_lock_ EXCEPT ![c] = 1]
        /\ kernel' = [kernel EXCEPT ![c] = Registered(kernel[c], {"OUT"})]
    BY <1>3 DEF BurstPush, PostEvent
  <2>2. QED
    BY <2>1, <1>2 DEF ConnTypes
<1>4. CASE write_lock_[c] # 0
  <2>1. write_lock_' = write_lock_ /\ kernel' = kernel /\ write_lock_[c] = 1
    BY <1>4, <1>1 DEF BurstPush
  <2>2. QED
    BY <2>1 DEF ConnTypes
<1>5. QED
  BY <1>3, <1>4

(* What HandleCanWrite does to its socket. *)
LEMMA CanWriteFacts ==
    ASSUME Inv, HandleCanWrite
    PROVE  \E left \in 0..MaxUnsent, k \in Fd :
             /\ unsent' = [unsent EXCEPT ![cur.s] = left]
             /\ write_lock_' = [write_lock_ EXCEPT ![cur.s] = IF left = 0 THEN 0 ELSE 1]
             /\ kernel' = [kernel EXCEPT ![cur.s] = Registered(k, EventsAfterWrite(left))]
             /\ k.inbound = kernel[cur.s].inbound /\ k.err = kernel[cur.s].err
<1> DEFINE c == cur.s
<1>1. c \in Conns
  BY CurFacts DEF HandleCanWrite, Handling
<1>2. write_lock_[c] = 1 /\ kernel[c] \in Fd /\ unsent[c] \in 0..MaxUnsent
      /\ write_lock_ \in [Conns -> 0..1]
  BY <1>1 DEF HandleCanWrite, Inv, TypeOK, MoreTypes
<1>3. PICK left \in 0..unsent[c], room \in BOOLEAN :
         /\ unsent' = [unsent EXCEPT ![c] = left]
         /\ write_lock_' = [write_lock_ EXCEPT ![c] = IF left = 0 THEN @ - 1 ELSE @]
         /\ kernel' = [kernel EXCEPT ![c] =
                Registered([@ EXCEPT !.room = room], EventsAfterWrite(left))]
  BY DEF HandleCanWrite
<1> DEFINE k == [kernel[c] EXCEPT !.room = room]
<1>4. k \in Fd /\ k.inbound = kernel[c].inbound /\ k.err = kernel[c].err
  BY <1>2 DEF Fd
<1>5. kernel' = [kernel EXCEPT ![c] = Registered(k, EventsAfterWrite(left))]
  BY <1>3
<1>6. write_lock_' = [write_lock_ EXCEPT ![c] = IF left = 0 THEN 0 ELSE 1]
  BY <1>1, <1>2, <1>3
<1>7. left \in 0..MaxUnsent
  BY <1>2, ConnsAssumption
<1> HIDE DEF k
<1>8. QED
  BY <1>3, <1>4, <1>5, <1>6, <1>7

(* What a handler's Registered and Edge leave has its type. *)
LEMMA ConnTypesStep == Inv /\ [Next]_vars => ConnTypes'
<1> SUFFICES ASSUME Inv, [Next]_vars PROVE ConnTypes'
  OBVIOUS
<1>t. ConnTypes
  BY DEF Inv, TypeOK, MoreTypes, ConnTypes
<1>c. pc \in Handling => cur.s \in Conns
  BY CurFacts
<1>i. {"IN"} \in SUBSET Interest /\ {"IN", "OUT"} \in SUBSET Interest /\ {"OUT"} \in SUBSET Interest
  BY DEF Interest
<1>n. MaxUnsent \in Nat
  BY ConnsAssumption
<1>s. {"closed", "connecting", "connectted", "closing"} = Status
  BY DEF Status
<1>1. CASE UNCHANGED <<connVars, kernel>>
  BY <1>1, <1>t DEF connVars, ConnTypes
<1>2. ASSUME NEW c \in Conns, Send(c) PROVE ConnTypes'
  <2>1. unsent[c] + 1 \in 0..MaxUnsent
    BY <1>2, <1>t, <1>n DEF Send, ConnTypes
  <2>2. UNCHANGED <<status_, write_lock_, bad, kernel>>
        /\ unsent' = [unsent EXCEPT ![c] = unsent[c] + 1]
    BY <1>2 DEF Send
  <2>3. QED
    BY <2>1, <2>2, <1>t DEF ConnTypes
<1>3. ASSUME NEW c \in Conns, ConnectEx(c) PROVE ConnTypes'
  <2> DEFINE k == [NoFd EXCEPT !.open = TRUE]
  <2>1. k \in Fd
    BY DEF NoFd, Fd, Interest
  <2>2. Registered(k, {"IN", "OUT"}) \in Fd
    BY <2>1, <1>i, RegisteredFacts
  <2>3. UNCHANGED <<write_lock_, unsent, bad>>
        /\ (status_' = status_ \/ status_' = [status_ EXCEPT ![c] = "connecting"])
        /\ \/ kernel' = kernel
           \/ kernel' = [kernel EXCEPT ![c] = k]
           \/ kernel' = [kernel EXCEPT ![c] = Registered(k, {"IN", "OUT"})]
    BY <1>3 DEF ConnectEx
  <2> HIDE DEF k
  <2>4. status_' \in [Conns -> Status]
    BY <2>3, <1>t, <1>s DEF ConnTypes
  <2>5. kernel' \in [Conns -> Fd]
    BY <2>1, <2>2, <2>3, <1>t DEF ConnTypes
  <2>6. QED
    BY <2>3, <2>4, <2>5, <1>t DEF ConnTypes
<1>4. ASSUME NEW c \in Conns, Accept(c) PROVE ConnTypes'
  <2> DEFINE k == [NoFd EXCEPT !.open = TRUE, !.room = TRUE]
  <2>1. k \in Fd
    BY DEF NoFd, Fd, Interest
  <2>2. Registered(k, {"IN"}) \in Fd
    BY <2>1, <1>i, RegisteredFacts
  <2>3. UNCHANGED <<write_lock_, unsent, bad>>
        /\ status_' = [status_ EXCEPT ![c] = "connectted"]
        /\ (kernel' = kernel \/ kernel' = [kernel EXCEPT ![c] = Registered(k, {"IN"})])
    BY <1>4 DEF Accept
  <2> HIDE DEF k
  <2>4. QED
    BY <2>2, <2>3, <1>t, <1>s DEF ConnTypes
<1>5. CASE LuaReturns \/ EpollTimeout \/ BatchDone \/ WakeUpEvent \/ AcceptError
           \/ ReadBufferFull \/ RecvNothing \/ NothingToWrite \/ EventDone \/ DrainDone
  BY <1>5, <1>1 DEF LuaReturns, EpollTimeout, BatchDone, WakeUpEvent, AcceptError,
       ReadBufferFull, RecvNothing, NothingToWrite, EventDone, DrainDone
<1>6. ASSUME NEW c \in Conns, Disconnect(c) PROVE ConnTypes'
  BY <1>6, <1>1 DEF Disconnect
<1>7. CASE EpollWait
  <2>1. UNCHANGED connVars /\ kernel' = [c \in Conns |-> [kernel[c] EXCEPT !.ready = FALSE]]
    BY <1>7 DEF EpollWait
  <2>2. \A k \in Fd : [k EXCEPT !.ready = FALSE] \in Fd
    BY DEF Fd
  <2>3. QED
    BY <2>1, <2>2, <1>t DEF connVars, ConnTypes
(* The status alone. *)
<1>8. ASSUME NEW c \in Conns, status_' = status_ \/ \E s \in Status : status_' = [status_ EXCEPT ![c] = s],
             UNCHANGED <<write_lock_, unsent, bad, kernel>>
      PROVE  ConnTypes'
  BY <1>8, <1>t DEF ConnTypes
<1>9. ASSUME NEW item \in batch, SocketEvent(item) PROVE ConnTypes'
  <2>1. item.s \in Conns
    BY <1>9, CurFacts DEF SocketEvent
  <2>2. QED
    BY <1>9, <1>8, <1>s, <2>1 DEF SocketEvent, CloseSocket
<1>10. CASE RecvFin \/ CloseWhenWritable
  <2>1. cur.s \in Conns
    BY <1>10, <1>c DEF RecvFin, CloseWhenWritable, Handling
  <2>2. QED
    BY <1>10, <1>8, <1>s, <2>1 DEF RecvFin, CloseWhenWritable, CloseSocket
<1>11. CASE RecvData \/ RecvBadPacket
  <2>1. cur.s \in Conns /\ kernel[cur.s] \in Fd
    BY <1>11, <1>c, <1>t DEF RecvData, RecvBadPacket, Handling, ConnTypes
  <2>2. PICK n \in 1..kernel[cur.s].inbound :
               kernel' = [kernel EXCEPT ![cur.s].inbound = @ - n]
    <3>1. CASE RecvData
      BY <3>1 DEF RecvData
    <3>2. CASE RecvBadPacket
      <4>1. 1 \in 1..kernel[cur.s].inbound
        BY <3>2, <2>1 DEF RecvBadPacket, Fd
      <4>2. QED
        BY <3>2, <4>1 DEF RecvBadPacket
    <3>3. QED
      BY <1>11, <3>1, <3>2
  <2>3. kernel[cur.s].inbound - n \in Nat
    BY <2>1, <2>2 DEF Fd
  <2>4. [kernel[cur.s] EXCEPT !.inbound = kernel[cur.s].inbound - n] \in Fd
    BY <2>1, <2>3 DEF Fd
  <2>5. kernel' = [kernel EXCEPT ![cur.s] = [kernel[cur.s] EXCEPT !.inbound = kernel[cur.s].inbound - n]]
    BY <2>2
  <2>6. kernel' \in [Conns -> Fd]
    BY <2>4, <2>5, <1>t DEF ConnTypes
  <2>7. UNCHANGED <<status_, write_lock_, unsent>> /\ bad' \in [Conns -> BOOLEAN]
    BY <1>11, <1>t DEF RecvData, RecvBadPacket, connVars, ConnTypes
  <2>8. QED
    BY <2>6, <2>7, <1>t DEF ConnTypes
<1>12. CASE ReadTail
  <2>1. cur.s \in Conns /\ UNCHANGED <<status_, unsent, bad>>
        /\ (BurstPush(cur.s) \/ UNCHANGED <<write_lock_, kernel>>)
    BY <1>12, <1>c DEF ReadTail, Handling
  <2>2. QED
    BY <2>1, <1>t, BurstFacts DEF ConnTypes
<1>13. CASE HandleConnect
  <2>1. cur.s \in Conns /\ UNCHANGED <<write_lock_, unsent, bad>>
        /\ status_' = [status_ EXCEPT ![cur.s] = "connectted"]
        /\ kernel' = [kernel EXCEPT ![cur.s] = Registered(kernel[cur.s], {"IN"})]
    BY <1>13, <1>c DEF HandleConnect, PostEvent, Handling
  <2>2. Registered(kernel[cur.s], {"IN"}) \in Fd
    BY <2>1, <1>t, <1>i, RegisteredFacts DEF ConnTypes
  <2>3. QED
    BY <2>1, <2>2, <1>t, <1>s DEF ConnTypes
<1>14. CASE HandleCanWrite
  <2>1. PICK left \in 0..MaxUnsent, k \in Fd :
             /\ unsent' = [unsent EXCEPT ![cur.s] = left]
             /\ write_lock_' = [write_lock_ EXCEPT ![cur.s] = IF left = 0 THEN 0 ELSE 1]
             /\ kernel' = [kernel EXCEPT ![cur.s] = Registered(k, EventsAfterWrite(left))]
    BY <1>14, CanWriteFacts
  <2>2. Registered(k, EventsAfterWrite(left)) \in Fd
    BY <1>i, RegisteredFacts DEF EventsAfterWrite
  <2>3. UNCHANGED <<status_, bad>>
    BY <1>14 DEF HandleCanWrite
  <2>4. unsent' \in [Conns -> 0..MaxUnsent] /\ kernel' \in [Conns -> Fd]
    BY <2>1, <2>2, <1>t DEF ConnTypes
  <2>5. write_lock_' \in [Conns -> 0..1]
    <3>1. (IF left = 0 THEN 0 ELSE 1) \in 0..1
      OBVIOUS
    <3>2. QED
      BY <2>1, <3>1, <1>t DEF ConnTypes
  <2>6. QED
    BY <2>3, <2>4, <2>5, <1>t DEF ConnTypes
<1>15. CASE RemoveAndClose
  <2>1. cur.s \in Conns /\ UNCHANGED <<write_lock_, unsent, bad>>
        /\ status_' = [status_ EXCEPT ![cur.s] = "closed"]
        /\ kernel' = [kernel EXCEPT ![cur.s] = NoFd]
    BY <1>15, <1>c DEF RemoveAndClose, Handling
  <2>2. QED
    BY <2>1, <1>t, <1>s, NoFdType DEF ConnTypes
<1>16. CASE HandleClose \/ HandleDelaySend
  <2> DEFINE c == Head(event_queue_).s
  <2>1. c \in Conns
    <3>1. event_queue_ \in Seq(Event) /\ event_queue_ # <<>>
      BY <1>16 DEF HandleClose, HandleDelaySend, PopEvent, Inv, TypeOK
    <3>2. Head(event_queue_) \in Event
      BY <3>1, HeadTailProperties
    <3>3. QED
      BY <3>2 DEF Event
  <2>2. UNCHANGED <<unsent, bad>>
        /\ (status_' = status_ \/ status_' = [status_ EXCEPT ![c] = "closing"])
        /\ (BurstPush(c) \/ UNCHANGED <<write_lock_, kernel>>)
    BY <1>16 DEF HandleClose, HandleDelaySend
  <2> HIDE DEF c
  <2>3. status_' \in [Conns -> Status]
    BY <2>1, <2>2, <1>t, <1>s DEF ConnTypes
  <2>4. write_lock_' \in [Conns -> 0..1] /\ kernel' \in [Conns -> Fd]
    BY <2>1, <2>2, <1>t, BurstFacts DEF ConnTypes
  <2>5. QED
    BY <2>2, <2>3, <2>4, <1>t DEF ConnTypes
<1>17. ASSUME NEW c \in Conns, Peer(c) PROVE ConnTypes'
  <2>1. kernel[c] \in Fd
    BY <1>t DEF ConnTypes
  <2>2. /\ [kernel[c] EXCEPT !.room = TRUE] \in Fd
        /\ [kernel[c] EXCEPT !.err = TRUE] \in Fd
        /\ [kernel[c] EXCEPT !.fin = TRUE] \in Fd
        /\ [kernel[c] EXCEPT !.inbound = @ + 1] \in Fd
    <3>1. kernel[c].inbound + 1 \in Nat
      BY <2>1 DEF Fd
    <3>2. QED
      BY <2>1, <3>1 DEF Fd
  <2>3. PICK k \in Fd, e \in Interest : kernel' = [kernel EXCEPT ![c] = Edge(k, e)]
    BY <1>17, <2>2 DEF Peer, Established, Fails, PeerSends, PeerFinishes, PeerReads, Env, Interest
  <2>4. UNCHANGED connVars
    BY <1>17 DEF Peer, Established, Fails, PeerSends, PeerFinishes, PeerReads, Env, progVars
  <2>5. QED
    BY <2>3, <2>4, <1>t, EdgeFacts DEF ConnTypes, connVars
<1>18. CASE UNCHANGED vars
  BY <1>18, <1>1 DEF vars, progVars
<1>19. QED
  BY <1>2, <1>3, <1>4, <1>5, <1>6, <1>7, <1>9, <1>10, <1>11, <1>12, <1>13, <1>14, <1>15,
     <1>16, <1>17, <1>18 DEF Next, Lua, Loop

(* Where the thread goes and what it takes along has its type. *)
LEMMA ThreadTypesStep == Inv /\ [Next]_vars => ThreadTypes'
<1> SUFFICES ASSUME Inv, [Next]_vars PROVE ThreadTypes'
  OBVIOUS
<1>t. ThreadTypes
  BY DEF Inv, TypeOK, MoreTypes, ThreadTypes
<1>1. CASE UNCHANGED <<wakeup, threadVars>>
  BY <1>1, <1>t DEF threadVars, ThreadTypes
<1>2. CASE \E c \in Conns : Send(c) \/ Disconnect(c)
  BY <1>2, <1>t DEF Send, Disconnect, PushEvent, threadVars, ThreadTypes
<1>3. CASE \E c \in Conns : ConnectEx(c)
  BY <1>3, <1>1 DEF ConnectEx, queueVars
<1>4. CASE LuaReturns \/ EpollTimeout \/ BatchDone \/ WakeUpEvent \/ AcceptError \/ DrainDone
  <2>1. pc' \in {"lua", "wait", "batch", "drain", "read", "tail", "release", "remove", "connfail"}
        /\ ret' = ret /\ batch' \subseteq batch /\ cur' = cur /\ wakeup' \in {FALSE, wakeup}
    BY <1>4, <1>t DEF LuaReturns, EpollTimeout, BatchDone, WakeUpEvent, AcceptError, DrainDone,
         Goto, InLua, queueVars, ThreadTypes
  <2>2. QED
    BY <2>1, <1>t DEF ThreadTypes
<1>5. CASE EpollWait
  <2>1. /\ batch' \subseteq {[s |-> c, ev |-> Reported(kernel[c])] : c \in Conns}
                              \cup {WakeItem, ListenItem}
        /\ pc' = "batch" /\ UNCHANGED <<wakeup, ret, cur>>
    BY <1>5 DEF EpollWait, queueVars
  <2>2. WakeItem \in Item /\ ListenItem \in Item
    BY DEF WakeItem, ListenItem, Item, Interest
  <2>3. \A c \in Conns : [s |-> c, ev |-> Reported(kernel[c])] \in Item
    BY DEF Reported, Poll, Item
  <2>4. QED
    BY <2>1, <2>2, <2>3, <1>t DEF ThreadTypes
<1>6. CASE \E c \in Conns : Accept(c)
  BY <1>6, <1>t DEF Accept, CallLua, queueVars, ThreadTypes
<1>7. ASSUME NEW item \in batch, SocketEvent(item) PROVE ThreadTypes'
  <2>1. item \in Item
    BY <1>t DEF ThreadTypes
  <2>2. [s |-> item.s, ev |-> {}] \in Item
    BY <2>1 DEF Item
  <2>3. cur' \in Item /\ batch' \subseteq batch /\ wakeup' = wakeup
    BY <1>7, <2>1, <2>2 DEF SocketEvent, queueVars
  <2>4. pc' \in {"callback", "read", "write"} /\ ret' \in {ret, "connfail", "remove"}
    BY <1>7 DEF SocketEvent, CloseSocket, CallLua, Goto
  <2>5. QED
    BY <2>3, <2>4, <1>t DEF ThreadTypes
<1>8. CASE RecvBadPacket
  <2>1. pc' \in {"read", "tail"} /\ wakeup' \in {TRUE, wakeup} /\ UNCHANGED <<ret, batch, cur>>
    BY <1>8 DEF RecvBadPacket, PushEvent, Goto, queueVars
  <2>2. QED
    BY <2>1, <1>t DEF ThreadTypes
<1>9. CASE \/ RecvData \/ ReadBufferFull \/ RecvNothing \/ RecvFin \/ ReadTail
           \/ HandleConnect \/ HandleCanWrite \/ CloseWhenWritable \/ NothingToWrite
           \/ RemoveAndClose
  <2>1. pc' \in {"callback", "write", "tail", "release"}
        /\ ret' \in {ret, "read", "tail", "remove", "release"}
    BY <1>9 DEF RecvData, ReadBufferFull, RecvNothing, RecvFin, ReadTail, HandleConnect,
              HandleCanWrite, CloseWhenWritable, NothingToWrite, RemoveAndClose,
              CloseSocket, CallLua, Goto
  <2>2. UNCHANGED <<wakeup, batch, cur>>
    BY <1>9 DEF RecvData, ReadBufferFull, RecvNothing, RecvFin, ReadTail, HandleConnect,
              HandleCanWrite, CloseWhenWritable, NothingToWrite, RemoveAndClose, queueVars
  <2>3. QED
    BY <2>1, <2>2, <1>t DEF ThreadTypes
<1>10. CASE EventDone
  <2>1. Idle \in Item
    BY DEF Idle, Item
  <2>2. QED
    BY <1>10, <2>1, <1>t DEF EventDone, Goto, queueVars, ThreadTypes
<1>11. CASE HandleClose \/ HandleDelaySend
  BY <1>11, <1>1 DEF HandleClose, HandleDelaySend
<1>12. CASE \E c \in Conns : Peer(c)
  BY <1>12, <1>1 DEF Peer, Established, Fails, PeerSends, PeerFinishes, PeerReads, Env,
               progVars, queueVars
<1>13. CASE UNCHANGED vars
  BY <1>13, <1>1 DEF vars, progVars, queueVars
<1>14. QED
  BY <1>2, <1>3, <1>4, <1>5, <1>6, <1>7, <1>8, <1>9, <1>10, <1>11, <1>12, <1>13
  DEF Next, Lua, Loop

(* So have the callbacks made. *)
LEMMA CallTypesStep == Inv /\ [Next]_vars => CallTypes'
<1> SUFFICES ASSUME Inv, [Next]_vars PROVE CallTypes'
  OBVIOUS
<1>t. CallTypes
  BY DEF Inv, MoreTypes, CallTypes
<1>c. pc \in Handling => cur.s \in Conns
  BY CurFacts
<1>1. CASE UNCHANGED calls
  BY <1>1, <1>t DEF CallTypes
<1>2. ASSUME NEW c \in Conns, Accept(c) PROVE CallTypes'
  BY <1>2, <1>1, <1>t, CalledType DEF Accept, CallLua
<1>3. ASSUME NEW item \in batch, SocketEvent(item) PROVE CallTypes'
  <2>1. item.s \in Conns
    BY <1>3, CurFacts DEF SocketEvent
  <2>2. Called(item.s, "fail") \/ Called(item.s, "close") \/ UNCHANGED calls
    BY <1>3 DEF SocketEvent, CloseSocket, CallLua, Goto
  <2>3. QED
    BY <2>1, <2>2, <1>1, <1>t, CalledType
<1>4. CASE RecvData \/ RecvFin \/ HandleConnect \/ CloseWhenWritable
  <2>1. cur.s \in Conns
    BY <1>4, <1>c DEF RecvData, RecvFin, HandleConnect, CloseWhenWritable, Handling
  <2>2. \/ Called(cur.s, "read") \/ Called(cur.s, "open")
        \/ Called(cur.s, "close") \/ UNCHANGED calls
    BY <1>4 DEF RecvData, RecvFin, HandleConnect, CloseWhenWritable, CloseSocket, CallLua, Goto
  <2>3. QED
    BY <2>1, <2>2, <1>1, <1>t, CalledType
<1>5. CASE \/ \E c \in Conns : Send(c) \/ Disconnect(c) \/ ConnectEx(c)
           \/ LuaReturns \/ EpollWait \/ EpollTimeout \/ BatchDone \/ WakeUpEvent \/ AcceptError
           \/ RecvBadPacket \/ ReadBufferFull \/ RecvNothing \/ ReadTail
           \/ HandleCanWrite \/ NothingToWrite \/ RemoveAndClose \/ EventDone
           \/ HandleClose \/ HandleDelaySend \/ DrainDone
  <2>1. UNCHANGED calls
    BY <1>5 DEF Send, Disconnect, ConnectEx, LuaReturns, EpollWait, EpollTimeout, BatchDone,
         WakeUpEvent, AcceptError, RecvBadPacket, ReadBufferFull, RecvNothing, ReadTail,
         HandleCanWrite, NothingToWrite, RemoveAndClose, EventDone, HandleClose,
         HandleDelaySend, DrainDone, Goto
  <2>2. QED
    BY <2>1, <1>1
<1>6. CASE (\E c \in Conns : Peer(c)) \/ UNCHANGED vars
  BY <1>6, <1>1 DEF Peer, Established, Fails, PeerSends, PeerFinishes, PeerReads, Env,
               progVars, vars
<1>7. QED
  BY <1>2, <1>3, <1>4, <1>5, <1>6 DEF Next, Lua, Loop

(* A step keeps the types. *)
LEMMA TypesNext == Inv /\ [Next]_vars => TypeOK' /\ MoreTypes'
<1> SUFFICES ASSUME Inv, [Next]_vars PROVE TypeOK' /\ MoreTypes'
  OBVIOUS
<1>1. ConnTypes' /\ ThreadTypes' /\ CallTypes'
  BY ConnTypesStep, ThreadTypesStep, CallTypesStep
<1>2. count_' \in [Conns -> Nat] /\ object' \in [Conns -> {"unborn", "live", "deleted"}]
  BY RefNext DEF RefPart
<1>3. event_queue_' \in Seq(Event) /\ socket_map_' \subseteq Conns
  <2>1. event_queue_ \in Seq(Event) /\ socket_map_ \subseteq Conns
    BY DEF Inv, TypeOK
  <2>2. ASSUME NEW c \in Conns, Pushed(c) PROVE event_queue_' \in Seq(Event)
    BY <2>1, <2>2, Pushes DEF Pushed
  <2>3. CASE Popped
    BY <2>1, <2>3, Pops DEF Popped
  <2>4. RefEffect
    BY RefEffects
  <2>5. QED
    BY <2>1, <2>2, <2>3, <2>4
    DEF RefEffect, Quiet, refVars, Pushed, Made, Taken, Finished, Removed, Popped, AddSocket
<1>4. cur'.s \in Conns \cup {NoConn}
  BY <1>1 DEF ThreadTypes, Item
<1>5. QED
  BY <1>1, <1>2, <1>3, <1>4 DEF ConnTypes, ThreadTypes, CallTypes, TypeOK, MoreTypes

-------------------------------------------------------------------------------
(* The thread. *)

(* Lua leaves the status of the socket at hand alone; so the handler finds    *)
(* after a callback what it left.                                             *)
LEMMA ControlNext == Inv /\ [Next]_vars => Control'
<1> SUFFICES ASSUME Inv, [Next]_vars PROVE Control'
  OBVIOUS
<1>t. /\ Control /\ ThreadTypes /\ status_ \in [Conns -> Status] /\ NoConn \notin Conns
      /\ cur.s \in Conns \cup {NoConn}
  BY ConnsAssumption DEF Inv, TypeOK, MoreTypes, ThreadTypes
<1>c. /\ pc \in Handling => cur.s \in Conns
      /\ pc \in {"lua", "wait", "batch", "drain"} => cur.s = NoConn
  BY CurFacts
<1>1. ASSUME UNCHANGED threadVars, Phase \in Handling => status_'[cur.s] = status_[cur.s]
      PROVE  Control'
  BY <1>1, <1>t DEF Control, Phase, Handling, threadVars
<1>2. CASE \E c \in Conns : Send(c) \/ Disconnect(c) \/ Peer(c)
  <2>1. UNCHANGED <<threadVars, status_>>
    BY <1>2 DEF Send, Disconnect, Peer, Established, Fails, PeerSends, PeerFinishes, PeerReads,
         Env, connVars, progVars
  <2>2. QED
    BY <2>1, <1>1
<1>3. ASSUME NEW c \in Conns, ConnectEx(c) PROVE Control'
  <2>1. c # cur.s
    BY <1>3, CurFacts DEF ConnectEx
  <2>2. UNCHANGED threadVars
        /\ (status_' = status_ \/ status_' = [status_ EXCEPT ![c] = "connecting"])
    BY <1>3 DEF ConnectEx
  <2>3. status_'[cur.s] = status_[cur.s] \/ cur.s \notin Conns
    BY <2>1, <2>2, <1>t
  <2>4. Phase \in Handling => cur.s \in Conns
    BY <1>t DEF Control
  <2>5. QED
    BY <2>2, <2>3, <2>4, <1>1
<1>4. CASE LuaReturns
  BY <1>4, <1>t DEF LuaReturns, InLua, connVars, Control, Phase, Handling, ThreadTypes
<1>5. CASE EpollWait \/ EpollTimeout \/ BatchDone \/ WakeUpEvent \/ AcceptError \/ DrainDone
  <2>1. pc' \in {"batch", "lua", "wait", "drain"} /\ cur' = cur /\ cur.s = NoConn
        /\ (pc' \in {"lua", "wait"} => batch' = {})
    BY <1>5, <1>t, <1>c DEF EpollWait, EpollTimeout, BatchDone, WakeUpEvent, AcceptError,
         DrainDone, Goto, Control, Phase
  <2>2. QED
    BY <2>1 DEF Control, Phase, Handling
<1>6. CASE \E c \in Conns : Accept(c)
  <2>1. cur' = cur /\ cur.s = NoConn
        /\ ((pc' = "callback" /\ ret' = "batch") \/ pc' = "batch")
    BY <1>6, <1>c DEF Accept, CallLua
  <2>2. QED
    BY <2>1 DEF Control, Phase, Handling
<1>7. ASSUME NEW item \in batch, SocketEvent(item) PROVE Control'
  <2>1. item.s \in Conns /\ cur'.s = item.s
    BY <1>7, CurFacts DEF SocketEvent
  <2>2. \/ pc' = "callback" /\ ret' = "connfail" /\ status_'[item.s] = "connecting"
        \/ pc' = "callback" /\ ret' = "remove" /\ status_'[item.s] = "closed"
        \/ pc' \in {"read", "write"}
    BY <1>7, <1>t, <2>1 DEF SocketEvent, CloseSocket, CallLua, Goto
  <2>3. QED
    BY <2>1, <2>2, <1>t DEF Control, Phase, Handling
<1>8. CASE RecvData \/ RecvBadPacket
  <2>1. cur.s \in Conns /\ cur' = cur /\ status_' = status_ /\ status_[cur.s] = "connectted"
        /\ \/ pc' \in {"read", "tail"}
           \/ pc' = "callback" /\ ret' \in {"read", "tail"}
    BY <1>8, <1>c DEF RecvData, RecvBadPacket, CallLua, Goto, connVars, Handling
  <2>2. QED
    BY <2>1, <1>t DEF Control, Phase, Handling
<1>9. CASE ReadBufferFull \/ RecvNothing \/ ReadTail \/ HandleCanWrite \/ NothingToWrite
           \/ RemoveAndClose \/ HandleConnect
  <2>1. cur.s \in Conns /\ cur' = cur
    BY <1>9, <1>c DEF ReadBufferFull, RecvNothing, ReadTail, HandleCanWrite, NothingToWrite,
         RemoveAndClose, HandleConnect, Handling
  <2>2. \/ pc' \in {"write", "release"}
        \/ pc' = "callback" /\ ret' = "release"
        \/ pc' = "tail" /\ status_'[cur.s] = "connectted"
    BY <1>9 DEF ReadBufferFull, RecvNothing, ReadTail, HandleCanWrite, NothingToWrite,
         RemoveAndClose, HandleConnect, CallLua, Goto, connVars
  <2>3. QED
    BY <2>1, <2>2, <1>t DEF Control, Phase, Handling
<1>10. CASE RecvFin \/ CloseWhenWritable
  <2>1. cur.s \in Conns /\ cur' = cur
    BY <1>10, <1>c DEF RecvFin, CloseWhenWritable, Handling
  <2>2. \/ pc' = "callback" /\ ret' = "remove" /\ status_'[cur.s] = "closed"
        \/ pc' = "write"
    BY <1>10, <1>t, <2>1 DEF RecvFin, CloseWhenWritable, CloseSocket, CallLua, Goto
  <2>3. QED
    BY <2>1, <2>2, <1>t DEF Control, Phase, Handling
<1>11. CASE EventDone
  BY <1>11 DEF EventDone, Goto, Idle, Control, Phase, Handling
<1>12. CASE HandleClose \/ HandleDelaySend
  <2>1. UNCHANGED threadVars /\ pc = "drain"
    BY <1>12 DEF HandleClose, HandleDelaySend, PopEvent
  <2>2. QED
    BY <2>1, <1>1 DEF Phase, Handling
<1>13. CASE UNCHANGED vars
  BY <1>13, <1>1 DEF vars, progVars, connVars
<1>14. QED
  BY <1>2, <1>3, <1>4, <1>5, <1>6, <1>7, <1>8, <1>9, <1>10, <1>11, <1>12, <1>13
  DEF Next, Lua, Loop

(* What epoll_wait returns. *)
LEMMA WaitFacts ==
    ASSUME EpollWait
    PROVE  /\ batch' \subseteq {[s |-> c, ev |-> Reported(kernel[c])] : c \in Conns}
                                 \cup {WakeItem, ListenItem}
           /\ \A i \in batch' : i.ev # {}
           /\ \A c \in Conns : kernel[c].ready /\ Reported(kernel[c]) # {} =>
                                 [s |-> c, ev |-> Reported(kernel[c])] \in batch'
<1> DEFINE R == {c \in Conns : kernel[c].ready}
           items == {[s |-> c, ev |-> Reported(kernel[c])] : c \in R}
<1>1. \E listen \in BOOLEAN :
         batch' = {i \in items : i.ev # {}} \cup (IF wakeup THEN {WakeItem} ELSE {})
                                            \cup (IF listen THEN {ListenItem} ELSE {})
  BY DEF EpollWait
<1> DEFINE found == {i \in items : i.ev # {}}
<1>2. found \subseteq batch' /\ batch' \subseteq found \cup {WakeItem, ListenItem}
  BY <1>1
<1>3. WakeItem.ev # {} /\ ListenItem.ev # {}
  BY DEF WakeItem, ListenItem
<1>4. ASSUME NEW c \in Conns, kernel[c].ready, Reported(kernel[c]) # {}
      PROVE  [s |-> c, ev |-> Reported(kernel[c])] \in found
  <2>1. c \in R
    BY <1>4
  <2>2. [s |-> c, ev |-> Reported(kernel[c])] \in items
    BY <2>1
  <2>3. QED
    BY <1>4, <2>2
<1>5. found \subseteq {[s |-> c, ev |-> Reported(kernel[c])] : c \in Conns}
      /\ \A i \in found : i.ev # {}
  OBVIOUS
<1> HIDE DEF found
<1>6. QED
  BY <1>2, <1>3, <1>4, <1>5

(* The batch names each socket once, and no socket that has left socket_map_. *)
LEMMA BatchNext == Inv /\ [Next]_vars => BatchSound'
<1> SUFFICES ASSUME Inv, [Next]_vars PROVE BatchSound'
  OBVIOUS
<1>t. BatchSound /\ Control /\ NoConn \notin Conns
  BY ConnsAssumption DEF Inv
<1>c. /\ pc \in Handling => cur.s \in Conns
      /\ pc \in {"lua", "wait", "batch", "drain"} => cur.s = NoConn
      /\ \A i \in batch : i.s # NoConn => i.s \in Conns
  BY CurFacts
<1>1. ASSUME batch' \subseteq batch, socket_map_ \subseteq socket_map_', cur'.s \in {cur.s, NoConn}
      PROVE  BatchSound'
  BY <1>1, <1>t DEF BatchSound
<1>2. CASE \E c \in Conns : Send(c) \/ Disconnect(c) \/ ConnectEx(c) \/ Peer(c)
  <2>1. batch' = batch /\ socket_map_ \subseteq socket_map_' /\ cur' = cur
    BY <1>2 DEF Send, Disconnect, ConnectEx, AddSocket, Peer, Established, Fails, PeerSends,
         PeerFinishes, PeerReads, Env, progVars, refVars, threadVars
  <2>2. QED
    BY <2>1, <1>1
<1>3. CASE LuaReturns \/ EpollTimeout \/ BatchDone \/ WakeUpEvent \/ AcceptError \/ DrainDone
           \/ \E c \in Conns : Accept(c)
  <2>1. batch' \subseteq batch /\ socket_map_ \subseteq socket_map_' /\ cur' = cur
    BY <1>3 DEF LuaReturns, EpollTimeout, BatchDone, WakeUpEvent, AcceptError, DrainDone,
         Accept, AddSocket, refVars
  <2>2. QED
    BY <2>1, <1>1
<1>4. CASE EpollWait
  <2>1. /\ batch' \subseteq {[s |-> c, ev |-> Reported(kernel[c])] : c \in Conns}
                              \cup {WakeItem, ListenItem}
        /\ \A i \in batch' : i.ev # {}
        /\ UNCHANGED <<cur, socket_map_>> /\ cur.s = NoConn
    BY <1>4, <1>c, WaitFacts DEF EpollWait, refVars
  <2>2. WakeItem.s = NoConn /\ ListenItem.s = NoConn
    BY DEF WakeItem, ListenItem
  <2>3. \A i \in batch' : i.s # NoConn => i.s \in Conns /\ i = [s |-> i.s, ev |-> Reported(kernel[i.s])]
    BY <2>1, <2>2
  <2>4. ASSUME NEW i \in batch', i.s # NoConn PROVE i.s \in socket_map_
    <3>1. i.s \in Conns /\ Reported(kernel[i.s]) # {}
      BY <2>1, <2>3, <2>4
    <3>2. kernel[i.s].interest # {}
      BY <3>1 DEF Reported
    <3>3. i.s \notin socket_map_ => kernel[i.s] = NoFd
      BY <3>1 DEF Inv, ConnInv, Mapped
    <3>4. QED
      BY <3>2, <3>3, NoFdType
  <2>5. ASSUME NEW i \in batch', NEW j \in batch', i.s = j.s, i.s # NoConn PROVE i = j
    BY <2>3, <2>5
  <2>6. QED
    BY <2>1, <2>4, <2>5 DEF BatchSound
<1>5. ASSUME NEW item \in batch, SocketEvent(item) PROVE BatchSound'
  BY <1>5, <1>t DEF SocketEvent, BatchSound
<1>6. CASE \/ RecvData \/ RecvBadPacket \/ ReadBufferFull \/ RecvNothing \/ RecvFin \/ ReadTail
           \/ HandleConnect \/ HandleCanWrite \/ CloseWhenWritable \/ NothingToWrite
  <2>1. UNCHANGED <<batch, socket_map_, cur>>
    BY <1>6 DEF RecvData, RecvBadPacket, ReadBufferFull, RecvNothing, RecvFin, ReadTail,
         HandleConnect, HandleCanWrite, CloseWhenWritable, NothingToWrite, refVars
  <2>2. QED
    BY <2>1, <1>1
<1>7. CASE RemoveAndClose
  <2>1. batch' = batch /\ socket_map_' = socket_map_ \ {cur.s} /\ cur' = cur
    BY <1>7 DEF RemoveAndClose
  <2>2. QED
    BY <2>1, <1>t DEF BatchSound
<1>8. CASE EventDone
  <2>1. batch' = batch /\ socket_map_' = socket_map_ /\ cur'.s = NoConn
    BY <1>8 DEF EventDone, Idle
  <2>2. QED
    BY <2>1, <1>1
<1>9. CASE HandleClose \/ HandleDelaySend
  <2>1. UNCHANGED <<batch, socket_map_, cur>>
    BY <1>9 DEF HandleClose, HandleDelaySend, threadVars
  <2>2. QED
    BY <2>1, <1>1
<1>10. CASE UNCHANGED vars
  BY <1>10, <1>1 DEF vars, progVars, refVars, threadVars
<1>11. QED
  BY <1>2, <1>3, <1>4, <1>5, <1>6, <1>7, <1>8, <1>9, <1>10 DEF Next, Lua, Loop

(* The queue is emptied before the thread goes on, and who fills it wakes the *)
(* loop.                                                                      *)
LEMMA QueueNext == Inv /\ [Next]_vars => QueueWakes'
<1> SUFFICES ASSUME Inv, [Next]_vars PROVE QueueWakes'
  OBVIOUS
<1>t. QueueWakes
  BY DEF Inv
<1>1. CASE \E c \in Conns : Send(c) \/ Disconnect(c)
  BY <1>1 DEF Send, Disconnect, PushEvent, QueueWakes
<1>2. ASSUME UNCHANGED queueVars, pc # "drain" PROVE QueueWakes'
  BY <1>2, <1>t DEF queueVars, QueueWakes
<1>3. ASSUME UNCHANGED <<queueVars, pc>> PROVE QueueWakes'
  BY <1>3, <1>t DEF queueVars, QueueWakes
<1>4. CASE (\E c \in Conns : ConnectEx(c) \/ Peer(c)) \/ UNCHANGED vars
  BY <1>4, <1>3 DEF ConnectEx, Peer, Established, Fails, PeerSends, PeerFinishes, PeerReads,
       Env, progVars, vars, threadVars
<1>5. CASE LuaReturns \/ EpollWait \/ EpollTimeout \/ BatchDone \/ AcceptError
           \/ \E c \in Conns : Accept(c)
  BY <1>5, <1>2 DEF LuaReturns, InLua, EpollWait, EpollTimeout, BatchDone, AcceptError, Accept
<1>6. CASE \E item \in batch : SocketEvent(item)
  BY <1>6, <1>2 DEF SocketEvent
<1>7. CASE \/ RecvData \/ ReadBufferFull \/ RecvNothing \/ RecvFin \/ ReadTail
           \/ HandleConnect \/ HandleCanWrite \/ CloseWhenWritable \/ NothingToWrite
           \/ RemoveAndClose \/ EventDone
  <2>1. UNCHANGED queueVars /\ pc # "drain"
    BY <1>7 DEF RecvData, ReadBufferFull, RecvNothing, RecvFin, ReadTail, HandleConnect,
       HandleCanWrite, CloseWhenWritable, NothingToWrite, RemoveAndClose, EventDone
  <2>2. QED
    BY <2>1, <1>2
<1>8. CASE RecvBadPacket
  <2>1. CASE cur.s \in socket_map_
    BY <1>8, <2>1 DEF RecvBadPacket, PushEvent, QueueWakes
  <2>2. CASE cur.s \notin socket_map_
    BY <1>8, <2>2, <1>2 DEF RecvBadPacket
  <2>3. QED
    BY <2>1, <2>2
<1>9. CASE WakeUpEvent
  BY <1>9 DEF WakeUpEvent, Goto, QueueWakes
<1>10. CASE HandleClose \/ HandleDelaySend
  BY <1>10 DEF HandleClose, HandleDelaySend, PopEvent, threadVars, QueueWakes
<1>11. CASE DrainDone
  BY <1>11 DEF DrainDone, queueVars, QueueWakes
<1>12. QED
  BY <1>1, <1>4, <1>5, <1>6, <1>7, <1>8, <1>9, <1>10, <1>11 DEF Next, Lua, Loop

-------------------------------------------------------------------------------
(* The connections. *)

(* A step that leaves connection d alone, but for its last reference ... *)
Same(d) == /\ status_'[d] = status_[d] /\ write_lock_'[d] = write_lock_[d]
           /\ unsent'[d] = unsent[d] /\ bad'[d] = bad[d]
           /\ kernel'[d] = kernel[d] /\ calls'[d] = calls[d]
           /\ d \in socket_map_' <=> d \in socket_map_
           /\ object'[d] = object[d] \/ object'[d] = "deleted"

(* ... and forgets nothing that is to be done for it. *)
KeepsBatch(d) == \A i \in batch : i.s = d => i \in batch'

KeepsQueue(d) == \A u \in {"CLOSE", "DELAY_SEND"} : Pending(d, u) => Pending(d, u)'

KeepsHand(d) == cur.s = d /\ Phase \in {"read", "connfail"} => cur'.s = d /\ Phase' = Phase

(* Then it still has its invariant. *)
LEMMA Frame ==
    ASSUME NEW d \in Conns, ConnInv(d), Same(d), KeepsBatch(d), KeepsQueue(d), KeepsHand(d)
    PROVE  ConnInv(d)'
<1>1. Mapped(d)'
  BY DEF ConnInv, Mapped, Same
<1>2. Fresh(d)'
  BY DEF ConnInv, Fresh, Same
<1>3. Calls(d)'
  <2>1. Calls(d)
    BY DEF ConnInv
  <2>2. /\ status_'[d] = status_[d] /\ calls'[d] = calls[d]
        /\ object'[d] = "live" => object[d] = "live"
        /\ cur.s = d /\ Phase = "connfail" => cur'.s = d /\ Phase' = "connfail"
    BY DEF Same, KeepsHand
  <2>3. QED
    BY <2>1, <2>2 DEF Calls
<1>4. Sending(d)'
  BY DEF ConnInv, Sending, Same, KeepsQueue
<1>5. Reading(d)'
  <2>1. Reading(d)
    BY DEF ConnInv
  <2>2. /\ status_'[d] = status_[d] /\ bad'[d] = bad[d] /\ kernel'[d] = kernel[d]
        /\ Pending(d, "CLOSE") => Pending(d, "CLOSE")'
        /\ cur.s = d /\ Phase = "read" => cur'.s = d /\ Phase' = "read"
        /\ \A i \in batch : i.s = d => i \in batch'
    BY DEF Same, KeepsBatch, KeepsQueue, KeepsHand
  <2>3. QED
    BY <2>1, <2>2 DEF Reading
<1>6. QED
  BY <1>1, <1>2, <1>3, <1>4, <1>5 DEF ConnInv

(* An unchanged queue. *)
LEMMA SameQueue == event_queue_' = event_queue_ => \A d \in Conns : KeepsQueue(d)
BY DEF KeepsQueue, Pending

(* The steps that only move the thread. *)
LEMMA MoveNext ==
    ASSUME Inv, \/ LuaReturns \/ EpollTimeout \/ BatchDone \/ WakeUpEvent \/ AcceptError
                \/ DrainDone \/ NothingToWrite \/ EventDone \/ UNCHANGED vars,
           NEW d \in Conns
    PROVE  ConnInv(d)'
<1>t. NoConn \notin Conns /\ Control /\ ThreadTypes /\ ConnInv(d)
  BY ConnsAssumption DEF Inv, TypeOK, MoreTypes, ThreadTypes
<1>1. UNCHANGED <<connVars, socket_map_, event_queue_, kernel, calls>>
  BY DEF LuaReturns, EpollTimeout, BatchDone, WakeUpEvent, AcceptError, DrainDone,
     NothingToWrite, EventDone, vars, progVars, refVars, queueVars, Goto
<1>2. object'[d] = object[d] \/ object'[d] = "deleted"
  BY DEF LuaReturns, EpollTimeout, BatchDone, WakeUpEvent, AcceptError, DrainDone,
     NothingToWrite, EventDone, vars, progVars, refVars, Release, Inv, TypeOK
<1>3. Same(d)
  BY <1>1, <1>2 DEF Same, connVars
<1>4. KeepsBatch(d)
  <2>1. batch' \in {batch, batch \ {WakeItem}, batch \ {ListenItem}}
    BY DEF LuaReturns, EpollTimeout, BatchDone, WakeUpEvent, AcceptError, DrainDone,
       NothingToWrite, EventDone, vars, progVars, threadVars
  <2>2. WakeItem.s # d /\ ListenItem.s # d
    BY <1>t DEF WakeItem, ListenItem
  <2>3. QED
    BY <2>1, <2>2 DEF KeepsBatch
<1>5. KeepsQueue(d)
  BY <1>1, SameQueue
<1>6. KeepsHand(d)
  <2>1. CASE LuaReturns
    BY <2>1, <1>t DEF LuaReturns, InLua, KeepsHand, Phase, ThreadTypes
  <2>2. CASE EpollTimeout \/ BatchDone \/ WakeUpEvent \/ AcceptError \/ DrainDone
             \/ NothingToWrite \/ EventDone
    BY <2>2 DEF EpollTimeout, BatchDone, WakeUpEvent, AcceptError, DrainDone,
       NothingToWrite, EventDone, KeepsHand, Phase
  <2>3. CASE UNCHANGED vars
    BY <2>3 DEF vars, progVars, threadVars, KeepsHand, Phase
  <2>4. QED
    BY <2>1, <2>2, <2>3
<1>7. QED
  BY <1>t, <1>3, <1>4, <1>5, <1>6, Frame

(* Lua: a send is queued for, a disconnect only queued, and a new socket      *)
(* starts with nothing.                                                       *)
LEMMA LuaNext ==
    ASSUME Inv, NEW c \in Conns, Send(c) \/ Disconnect(c) \/ ConnectEx(c), NEW d \in Conns
    PROVE  ConnInv(d)'
<1>t. ConnInv(d) /\ ConnTypes /\ object \in [Conns -> {"unborn", "live", "deleted"}]
      /\ event_queue_ \in Seq(Event)
  BY DEF Inv, TypeOK, MoreTypes, ConnTypes
<1>1. UNCHANGED threadVars /\ UNCHANGED calls
  BY DEF Send, Disconnect, ConnectEx
<1>2. KeepsBatch(d) /\ KeepsHand(d)
  BY <1>1 DEF threadVars, KeepsBatch, KeepsHand, Phase
<1>3. CASE Disconnect(c)
  <2>1. KeepsQueue(d)
    BY <1>3, <1>t, Pushes DEF Disconnect, PushEvent, KeepsQueue
  <2>2. Same(d)
    BY <1>3, <1>1 DEF Disconnect, connVars, Same
  <2>3. QED
    BY <1>t, <1>2, <2>1, <2>2, Frame
<1>4. CASE Send(c)
  <2>1. KeepsQueue(d) /\ Pending(c, "DELAY_SEND")'
    BY <1>4, <1>t, Pushes DEF Send, PushEvent, KeepsQueue
  <2>2. CASE d # c
    <3>1. Same(d)
      BY <1>4, <1>1, <1>t, <2>2 DEF Send, ConnTypes, Same
    <3>2. QED
      BY <1>t, <1>2, <2>1, <3>1, Frame
  <2>3. CASE d = c
    <3>1. object[c] = "live" /\ c \in socket_map_
      BY <1>4, CurFacts DEF Send
    <3>2. UNCHANGED <<status_, write_lock_, bad, object, socket_map_, kernel, batch, pc, ret, cur, calls>>
      BY <1>4 DEF Send, threadVars
    <3>3. Mapped(d)' /\ Fresh(d)' /\ Calls(d)'
      BY <2>3, <3>1, <3>2, <1>t DEF ConnInv, Mapped, Fresh, Calls, Phase
    <3>4. Sending(d)'
      BY <2>1, <2>3, <3>2, <1>4, <1>t DEF Send, ConnInv, Sending
    <3>5. Reading(d)'
      BY <2>1, <3>2, <1>t DEF ConnInv, Reading, KeepsQueue, Phase
    <3>6. QED
      BY <3>3, <3>4, <3>5 DEF ConnInv
  <2>4. QED
    BY <2>2, <2>3
<1>5. CASE ConnectEx(c)
  <2>1. UNCHANGED <<write_lock_, unsent, bad, event_queue_, calls, cur>> /\ object[c] = "unborn"
    BY <1>5 DEF ConnectEx, queueVars, threadVars
  <2>2. CASE d # c
    <3>1. kernel'[d] = kernel[d]
      <4>1. kernel' = kernel \/ \E k : kernel' = [kernel EXCEPT ![c] = k]
        BY <1>5 DEF ConnectEx
      <4>2. QED
        BY <4>1, <2>2, <1>t DEF ConnTypes
    <3>2. status_'[d] = status_[d] /\ object'[d] = object[d]
          /\ (d \in socket_map_' <=> d \in socket_map_)
      BY <1>5, <1>t, <2>2 DEF ConnectEx, AddSocket, ConnTypes
    <3>3. Same(d)
      BY <2>1, <3>1, <3>2 DEF Same
    <3>4. QED
      BY <1>t, <1>2, <2>1, <3>3, SameQueue, Frame
  <2>3. CASE d = c
    <3>1. c \notin socket_map_ /\ cur.s # c
      BY <2>1, CurFacts
    <3>2. /\ status_[c] = "closed" /\ write_lock_[c] = 0 /\ unsent[c] = 0 /\ ~bad[c]
          /\ calls[c] = <<>> /\ kernel[c] = NoFd
      BY <2>1, <2>3, <3>1, <1>t DEF ConnInv, Fresh, Mapped
    <3>3. CASE /\ object' = [object EXCEPT ![c] = "deleted"]
               /\ UNCHANGED <<status_, socket_map_, kernel>>
      <4>1. Same(d)
        BY <3>3, <1>t, <2>1, <2>3 DEF Same
      <4>2. QED
        BY <1>t, <1>2, <2>1, <4>1, SameQueue, Frame
    <3>4. CASE /\ object' = [object EXCEPT ![c] = "live"]
               /\ status_' = [status_ EXCEPT ![c] = "connecting"]
               /\ socket_map_' = socket_map_ \cup {c}
      <4> DEFINE k == [NoFd EXCEPT !.open = TRUE]
      <4>1. kernel' = [kernel EXCEPT ![c] = k]
            \/ kernel' = [kernel EXCEPT ![c] = Registered(k, {"IN", "OUT"})]
        BY <1>5, <3>4, <1>t DEF ConnectEx
      <4>2. k \in Fd /\ k.interest = {} /\ {"IN", "OUT"} \in SUBSET Interest
        BY DEF NoFd, Fd, Interest
      <4>3. "ERR" \in Registered(k, {"IN", "OUT"}).interest
        BY <4>2, RegisteredFacts
      <4> HIDE DEF k
      <4>4. kernel'[c].interest # {} => "ERR" \in kernel'[c].interest
        BY <4>1, <4>2, <4>3, <1>t DEF ConnTypes
      <4>5. object'[c] = "live" /\ status_'[c] = "connecting" /\ c \in socket_map_'
        BY <3>4, <1>t DEF ConnTypes
      <4>6. Mapped(c)' /\ Fresh(c)'
        BY <4>4, <4>5 DEF Mapped, Fresh
      <4>7. Calls(c)'
        BY <4>5, <2>1, <3>2 DEF Calls
      <4>8. Sending(c)' /\ Reading(c)'
        BY <4>5, <2>1, <3>2 DEF Sending, Reading
      <4>9. QED
        BY <4>6, <4>7, <4>8, <2>3 DEF ConnInv
    <3>5. QED
      BY <1>5, <3>3, <3>4 DEF ConnectEx, AddSocket
  <2>4. QED
    BY <2>2, <2>3
<1>6. QED
  BY <1>3, <1>4, <1>5

(* A list of one call, and another. *)
LEMMA AppendOne == \A a, b : Append(<<a>>, b) = <<a, b>>
<1> SUFFICES ASSUME NEW a, NEW b PROVE Append(<<a>>, b) = <<a, b>>
  OBVIOUS
<1>1. <<a>> \in Seq({a, b}) /\ <<a, b>> \in Seq({a, b}) /\ b \in {a, b}
  OBVIOUS
<1>2. /\ Append(<<a>>, b) \in Seq({a, b}) /\ Len(Append(<<a>>, b)) = 2
      /\ Append(<<a>>, b)[1] = a /\ Append(<<a>>, b)[2] = b
  BY <1>1, AppendProperties
<1>3. \A i \in 1..2 : Append(<<a>>, b)[i] = <<a, b>>[i]
  BY <1>2
<1>4. QED
  BY <1>1, <1>2, <1>3, SeqEqual

(* A list of two calls, and another. *)
LEMMA AppendTwo == \A a, b, c : Append(<<a, b>>, c) = <<a, b, c>>
<1> SUFFICES ASSUME NEW a, NEW b, NEW c PROVE Append(<<a, b>>, c) = <<a, b, c>>
  OBVIOUS
<1>1. <<a, b>> \in Seq({a, b, c}) /\ <<a, b, c>> \in Seq({a, b, c}) /\ c \in {a, b, c}
  OBVIOUS
<1>2. /\ Append(<<a, b>>, c) \in Seq({a, b, c}) /\ Len(Append(<<a, b>>, c)) = 3
      /\ Append(<<a, b>>, c)[1] = a /\ Append(<<a, b>>, c)[2] = b /\ Append(<<a, b>>, c)[3] = c
  BY <1>1, AppendProperties
<1>3. \A i \in 1..3 : Append(<<a, b>>, c)[i] = <<a, b, c>>[i]
  BY <1>2
<1>4. QED
  BY <1>1, <1>2, <1>3, SeqEqual

(* What a callback adds. *)
LEMMA CalledFacts ==
    ASSUME CallTypes, NEW c \in Conns, NEW what \in {"open", "read", "close", "fail"},
           Called(c, what)
    PROVE  /\ \A d \in Conns : d # c => calls'[d] = calls[d]
           /\ calls[c] = <<>> => calls'[c] = <<what>>
           /\ what = "read" /\ calls[c] \in {<<"open">>, <<"open", "read">>}
                => calls'[c] = <<"open", "read">>
           /\ what = "close" /\ calls[c] \in {<<"open">>, <<"open", "read">>}
                => calls'[c] \in {<<"open", "close">>, <<"open", "read", "close">>}
<1> DEFINE new == Append(calls[c], what)
           again == what = "read" /\ calls[c] # <<>> /\ calls[c][Len(calls[c])] = "read"
<1>1. IF again THEN calls' = calls ELSE calls' = [calls EXCEPT ![c] = new]
  BY DEF Called
<1>2. calls[c] = <<>> => new = <<what>>
  OBVIOUS
<1>3. calls[c] = <<"open">> => new = <<"open", what>>
  BY AppendOne
<1>4. calls[c] = <<"open", "read">> => new = <<"open", "read", what>>
  BY AppendTwo
<1>5. calls[c] = <<"open", "read">> /\ what = "read" => again
  OBVIOUS
<1>6. calls[c] = <<"open">> => ~again
  OBVIOUS
<1>7. calls[c] = <<>> \/ what # "read" => ~again
  OBVIOUS
<1> HIDE DEF again, new
<1>8. \A d \in Conns : d # c => calls'[d] = calls[d]
  BY <1>1 DEF CallTypes
<1>9. again => calls'[c] = calls[c]
  BY <1>1
<1>10. ~again => calls'[c] = new
  BY <1>1 DEF CallTypes
<1>11. QED
  BY <1>2, <1>3, <1>4, <1>5, <1>6, <1>7, <1>8, <1>9, <1>10

(* epoll_wait moves a ready socket to the batch, with its events. *)
LEMMA WaitNext ==
    ASSUME Inv, EpollWait, NEW d \in Conns
    PROVE  ConnInv(d)'
<1>t. ConnInv(d) /\ ConnTypes /\ kernel[d] \in Fd
  BY DEF Inv, TypeOK, MoreTypes, ConnTypes
<1>c. cur.s = NoConn /\ batch = {} /\ NoConn \notin Conns
  BY CurFacts, ConnsAssumption DEF EpollWait, Inv, Control, Phase
<1>1. /\ UNCHANGED <<status_, write_lock_, unsent, bad, object, socket_map_, event_queue_, cur, calls>>
      /\ kernel' = [c \in Conns |-> [kernel[c] EXCEPT !.ready = FALSE]]
  BY DEF EpollWait, connVars, refVars, queueVars
<1>2. kernel'[d] = [kernel[d] EXCEPT !.ready = FALSE]
  BY <1>1
<1>3. /\ kernel'[d].interest = kernel[d].interest /\ kernel'[d].inbound = kernel[d].inbound
      /\ kernel'[d].err = kernel[d].err
      /\ kernel[d] = NoFd => kernel'[d] = NoFd
  <2>1. ~kernel[d].ready => [kernel[d] EXCEPT !.ready = FALSE] = kernel[d]
    BY <1>t DEF Fd
  <2>2. kernel[d] = NoFd => kernel'[d] = NoFd
    BY <1>2, <2>1 DEF NoFd
  <2>3. QED
    BY <1>2, <1>t, <2>2 DEF Fd
<1>4. KeepsQueue(d)
  BY <1>1, SameQueue
<1>5. Mapped(d)' /\ Fresh(d)' /\ Calls(d)'
  BY <1>1, <1>3, <1>t, <1>c DEF ConnInv, Mapped, Fresh, Calls
<1>6. Sending(d)'
  BY <1>1, <1>3, <1>4, <1>t DEF ConnInv, Sending, KeepsQueue
<1>7. ASSUME kernel[d].ready, Reported(kernel[d]) # {}
      PROVE  \E i \in batch' : i.s = d /\ i.ev = Reported(kernel[d])
  <2>1. [s |-> d, ev |-> Reported(kernel[d])] \in batch'
    BY <1>7, WaitFacts
  <2>2. QED
    BY <2>1
<1>8. kernel[d].err /\ kernel[d].interest # {} => "ERR" \in Reported(kernel[d])
  BY <1>t DEF ConnInv, Mapped, Reported, Poll, Interest
<1>9. kernel[d].inbound > 0 /\ "IN" \in kernel[d].interest => "IN" \in Reported(kernel[d])
  BY <1>t DEF Reported, Poll, Interest
<1>10. Reading(d)'
  <2>1. Reading(d)
    BY <1>t DEF ConnInv
  <2>2. ASSUME status_[d] = "connectted", kernel[d].err, kernel[d].interest # {}
        PROVE  \E i \in batch' : i.s = d /\ "ERR" \in i.ev
    <3>1. kernel[d].ready
      BY <2>1, <2>2, <1>c DEF Reading
    <3>2. QED
      BY <3>1, <2>2, <1>7, <1>8
  <2>3. ASSUME status_[d] = "connectted", kernel[d].inbound > 0, "IN" \in kernel[d].interest
        PROVE  Pending(d, "CLOSE") \/ \E i \in batch' : i.s = d /\ i.ev \cap {"IN", "ERR"} # {}
    <3>1. kernel[d].ready \/ Pending(d, "CLOSE")
      BY <2>1, <2>3, <1>c DEF Reading
    <3>2. QED
      BY <3>1, <2>3, <1>7, <1>9
  <2>4. QED
    BY <2>1, <2>2, <2>3, <1>1, <1>3, <1>4 DEF Reading, KeepsQueue
<1>11. QED
  BY <1>5, <1>6, <1>10 DEF ConnInv

(* An accepted connection waits for input, and Lua hears of it. *)
LEMMA AcceptNext ==
    ASSUME Inv, NEW c \in Conns, Accept(c), NEW d \in Conns
    PROVE  ConnInv(d)'
<1>t. ConnInv(d) /\ ConnTypes /\ object \in [Conns -> {"unborn", "live", "deleted"}]
      /\ CallTypes /\ NoConn \notin Conns
  BY ConnsAssumption DEF Inv, TypeOK, MoreTypes, ConnTypes, CallTypes
<1>1. /\ UNCHANGED <<write_lock_, unsent, bad, event_queue_, cur>>
      /\ object[c] = "unborn" /\ cur.s = NoConn
  BY CurFacts DEF Accept, queueVars
<1>2. KeepsBatch(d) /\ KeepsHand(d) /\ KeepsQueue(d)
  BY <1>1, <1>t, SameQueue DEF Accept, ListenItem, KeepsBatch, KeepsHand
<1>3. CASE d # c
  <2>1. calls'[d] = calls[d]
    BY <1>3, <1>t, CalledFacts DEF Accept, CallLua
  <2>2. status_'[d] = status_[d] /\ kernel'[d] = kernel[d] /\ object'[d] = object[d]
        /\ (d \in socket_map_' <=> d \in socket_map_)
    <3> DEFINE k == Registered([NoFd EXCEPT !.open = TRUE, !.room = TRUE], {"IN"})
    <3>1. kernel' = kernel \/ kernel' = [kernel EXCEPT ![c] = k]
      BY DEF Accept
    <3> HIDE DEF k
    <3>2. kernel'[d] = kernel[d]
      BY <3>1, <1>3, <1>t DEF ConnTypes
    <3>3. QED
      BY <1>3, <1>t, <3>2 DEF Accept, AddSocket, ConnTypes
  <2>3. Same(d)
    BY <1>1, <2>1, <2>2 DEF Same
  <2>4. QED
    BY <1>t, <1>2, <2>3, Frame
<1>4. CASE d = c
  <2>1. c \notin socket_map_
    BY <1>1, CurFacts
  <2>2. /\ write_lock_[c] = 0 /\ unsent[c] = 0 /\ ~bad[c]
        /\ calls[c] = <<>> /\ kernel[c] = NoFd
    BY <1>1, <1>4, <2>1, <1>t DEF ConnInv, Fresh, Mapped
  <2>3. status_'[c] = "connectted"
    BY <1>t DEF Accept, ConnTypes
  <2>4. CASE object' = [object EXCEPT ![c] = "deleted"] /\ UNCHANGED <<socket_map_, kernel, calls>>
    <3>1. object'[c] = "deleted"
      BY <2>4, <1>t
    <3>2. kernel'[c] = NoFd /\ NoFd.interest = {} /\ NoFd.inbound = 0 /\ ~NoFd.err
      BY <2>2, <2>4, NoFdType
    <3>3. Mapped(c)' /\ Fresh(c)' /\ Calls(c)'
      BY <2>2, <2>3, <2>4, <3>1, <3>2 DEF Mapped, Fresh, Calls
    <3>4. Sending(c)' /\ Reading(c)'
      BY <1>1, <2>2, <2>3, <3>2 DEF Sending, Reading
    <3>5. QED
      BY <1>4, <3>3, <3>4 DEF ConnInv
  <2>5. CASE /\ object' = [object EXCEPT ![c] = "live"]
             /\ socket_map_' = socket_map_ \cup {c}
             /\ kernel' = [kernel EXCEPT ![c] =
                   Registered([NoFd EXCEPT !.open = TRUE, !.room = TRUE], {"IN"})]
             /\ Called(c, "open")
    <3> DEFINE k == [NoFd EXCEPT !.open = TRUE, !.room = TRUE]
    <3>1. k \in Fd /\ k.inbound = 0 /\ ~k.err /\ {"IN"} \in SUBSET Interest
      BY DEF NoFd, Fd, Interest
    <3>2. kernel'[c] = Registered(k, {"IN"})
      BY <2>5, <1>t DEF ConnTypes
    <3> HIDE DEF k
    <3>3. kernel'[c].interest = {"IN", "ERR"} /\ kernel'[c].inbound = 0 /\ ~kernel'[c].err
      BY <3>1, <3>2, RegisteredFacts
    <3>4. object'[c] = "live" /\ c \in socket_map_' /\ calls'[c] = <<"open">>
      BY <2>2, <2>5, <1>t, CalledFacts
    <3>5. Mapped(c)' /\ Fresh(c)' /\ Calls(c)'
      BY <2>3, <3>3, <3>4 DEF Mapped, Fresh, Calls
    <3>6. Sending(c)' /\ Reading(c)'
      BY <1>1, <2>2, <2>3, <3>3 DEF Sending, Reading
    <3>7. QED
      BY <1>4, <3>5, <3>6 DEF ConnInv
  <2>6. QED
    BY <2>4, <2>5 DEF Accept, AddSocket, CallLua
<1>5. QED
  BY <1>3, <1>4

(* CloseSocket: the close callback is made once, for a connection that had    *)
(* its open callback.                                                         *)
LEMMA CloseFacts ==
    ASSUME Inv, NEW c \in Conns, object[c] = "live", CloseSocket(c)
    PROVE  /\ \A d \in Conns : d # c => status_'[d] = status_[d] /\ calls'[d] = calls[d]
           /\ status_[c] # "connecting" =>
                /\ status_'[c] = "closed"
                /\ \/ calls'[c] = calls[c]
                   \/ calls'[c] \in {<<"open", "close">>, <<"open", "read", "close">>}
<1>t. CallTypes /\ status_ \in [Conns -> Status] /\ ConnInv(c)
  BY DEF Inv, TypeOK, MoreTypes, CallTypes
<1>1. CASE status_[c] \in {"closing", "connectted"}
  <2>1. status_' = [status_ EXCEPT ![c] = "closed"] /\ Called(c, "close")
    BY <1>1 DEF CloseSocket, CallLua
  <2>2. calls[c] \in {<<"open">>, <<"open", "read">>}
    BY <1>1, <1>t DEF ConnInv, Calls
  <2>3. /\ calls'[c] \in {<<"open", "close">>, <<"open", "read", "close">>}
        /\ \A d \in Conns : d # c => calls'[d] = calls[d]
    BY <2>1, <2>2, <1>t, CalledFacts
  <2>4. QED
    BY <2>1, <2>3, <1>t
<1>2. CASE status_[c] \notin {"closing", "connectted"}
  <2>1. UNCHANGED <<status_, calls>>
    BY <1>2 DEF CloseSocket, Goto
  <2>2. QED
    BY <1>2, <2>1, <1>t DEF Status
<1>3. QED
  BY <1>1, <1>2

(* A connection that is closed has nothing more to do. *)
LEMMA ClosedNext ==
    ASSUME NEW c \in Conns, ConnInv(c), object'[c] # "unborn", status_'[c] = "closed",
           \/ kernel'[c] = kernel[c] /\ (c \in socket_map_' <=> c \in socket_map_)
           \/ kernel'[c] = NoFd,
           \/ calls'[c] = calls[c]
           \/ calls'[c] \in {<<"open", "close">>, <<"open", "read", "close">>}
    PROVE  ConnInv(c)'
<1>1. Mapped(c)' /\ Fresh(c)'
  BY NoFdType DEF ConnInv, Mapped, Fresh
<1>2. Calls(c)'
  BY DEF ConnInv, Calls
<1>3. Sending(c)' /\ Reading(c)'
  BY DEF Sending, Reading
<1>4. QED
  BY <1>1, <1>2, <1>3 DEF ConnInv

(* A socket event: what it reports is handled, or the socket is closed. *)
LEMMA EventNext ==
    ASSUME Inv, NEW item \in batch, SocketEvent(item), NEW d \in Conns
    PROVE  ConnInv(d)'
<1> DEFINE c == item.s
<1>t. ConnInv(d) /\ ConnInv(c) /\ CallTypes /\ NoConn \notin Conns /\ BatchSound /\ c \in Conns
      /\ object[c] = "live" /\ cur.s = NoConn
  BY CurFacts, ConnsAssumption DEF SocketEvent, Inv, MoreTypes, CallTypes, BatchSound
<1>1. /\ UNCHANGED <<write_lock_, unsent, bad, object, socket_map_, event_queue_, kernel>>
      /\ batch' = batch \ {item} /\ cur'.s = c
  BY DEF SocketEvent, queueVars
<1>2. CASE d # c
  <2>1. status_'[d] = status_[d] /\ calls'[d] = calls[d]
    <3>1. CASE Called(c, "fail") /\ UNCHANGED status_
      BY <3>1, <1>2, <1>t, CalledFacts
    <3>2. CASE CloseSocket(c)
      BY <3>2, <1>2, <1>t, CloseFacts
    <3>3. CASE UNCHANGED <<status_, calls>>
      BY <3>3
    <3>4. QED
      BY <3>1, <3>2, <3>3 DEF SocketEvent, CallLua, Goto
  <2>2. Same(d) /\ KeepsBatch(d) /\ KeepsQueue(d) /\ KeepsHand(d)
    BY <1>1, <1>2, <1>t, <2>1, SameQueue DEF Same, KeepsBatch, KeepsHand
  <2>3. QED
    BY <2>2, <1>t, Frame
<1>3. CASE d = c
  <2>1. CASE "ERR" \in item.ev /\ status_[c] # "connecting"
    <3>1. CloseSocket(c)
      BY <2>1 DEF SocketEvent
    <3> HIDE DEF c
    <3>2. QED
      BY <3>1, <2>1, <1>1, <1>3, <1>t, CloseFacts, ClosedNext
  <2>2. CASE "ERR" \in item.ev /\ status_[c] = "connecting"
    <3>1. UNCHANGED status_ /\ Called(c, "fail") /\ pc' = "callback" /\ ret' = "connfail"
      BY <2>2 DEF SocketEvent, CloseSocket, CallLua
    <3>2. calls[c] = <<>>
      BY <2>2, <1>t DEF ConnInv, Calls
    <3>3. calls'[c] = <<"fail">>
      BY <3>1, <3>2, <1>t, CalledFacts
    <3> HIDE DEF c
    <3>4. Mapped(c)' /\ Fresh(c)'
      BY <1>1, <3>1, <1>t DEF ConnInv, Mapped, Fresh
    <3>5. Calls(c)'
      BY <1>1, <2>2, <3>1, <3>3 DEF Calls, Phase
    <3>6. Sending(c)' /\ Reading(c)'
      BY <1>1, <2>2, <3>1, <1>t DEF ConnInv, Sending, Reading
    <3>7. QED
      BY <1>3, <3>4, <3>5, <3>6 DEF ConnInv
  <2>3. CASE "ERR" \notin item.ev
    <3>1. /\ UNCHANGED <<status_, calls>>
          /\ pc' = IF "IN" \in item.ev THEN "read" ELSE "write"
      BY <2>3 DEF SocketEvent, Goto
    <3>2. \A i \in batch : i.s = c => i = item
      BY <1>t DEF BatchSound
    <3>3. KeepsQueue(c)
      BY <1>1, <1>t, SameQueue
    <3> HIDE DEF c
    <3>4. Mapped(c)' /\ Fresh(c)' /\ Calls(c)'
      BY <1>1, <3>1, <1>t DEF ConnInv, Mapped, Fresh, Calls
    <3>5. Sending(c)'
      BY <1>1, <3>1, <3>3, <1>t DEF ConnInv, Sending, KeepsQueue
    <3>6. Reading(c)'
      <4>1. Reading(c)
        BY <1>t DEF ConnInv
      <4>2. (\E i \in batch : i.s = c /\ i.ev \cap {"IN", "ERR"} # {}) => Phase' = "read"
        BY <2>3, <3>1, <3>2 DEF Phase
      <4>3. ~\E i \in batch : i.s = c /\ "ERR" \in i.ev
        BY <2>3, <3>2
      <4>4. Pending(c, "CLOSE") => Pending(c, "CLOSE")'
        BY <3>3 DEF KeepsQueue
      <4>5. QED
        BY <4>1, <4>2, <4>3, <4>4, <1>1, <1>t, <3>1 DEF Reading
    <3>7. QED
      BY <1>3, <3>4, <3>5, <3>6 DEF ConnInv
  <2>4. QED
    BY <2>1, <2>2, <2>3
<1>4. QED
  BY <1>2, <1>3

(* The peer: whatever happens puts the socket on the ready list if it waits   *)
(* for it.                                                                    *)
LEMMA PeerNext ==
    ASSUME Inv, NEW c \in Conns, Peer(c), NEW d \in Conns
    PROVE  ConnInv(d)'
<1>t. ConnInv(d) /\ kernel \in [Conns -> Fd]
  BY DEF Inv, MoreTypes
<1>1. UNCHANGED progVars /\ kernel[c].open
  BY DEF Peer, Established, Fails, PeerSends, PeerFinishes, PeerReads, Env
<1>2. UNCHANGED <<status_, write_lock_, unsent, bad, object, socket_map_, event_queue_,
                  batch, pc, ret, cur, calls>>
  BY <1>1 DEF progVars, connVars, refVars, queueVars, threadVars
<1>3. PICK k \in Fd, e \in Interest :
         /\ kernel' = [kernel EXCEPT ![c] = Edge(k, e)]
         /\ k.interest = kernel[c].interest /\ k.ready = kernel[c].ready
         /\ k.err = kernel[c].err \/ e = "ERR"
         /\ k.inbound = kernel[c].inbound \/ e = "IN"
  <2>1. kernel[c] \in Fd /\ kernel[c].inbound + 1 \in Nat
    BY <1>t DEF Fd
  <2> DEFINE K1 == [kernel[c] EXCEPT !.room = TRUE]
             K2 == [kernel[c] EXCEPT !.err = TRUE]
             K3 == [kernel[c] EXCEPT !.inbound = @ + 1]
             K4 == [kernel[c] EXCEPT !.fin = TRUE]
  <2>2. /\ K1 \in Fd /\ K1.interest = kernel[c].interest /\ K1.ready = kernel[c].ready
        /\ K1.err = kernel[c].err /\ K1.inbound = kernel[c].inbound
    BY <2>1 DEF Fd
  <2>3. /\ K2 \in Fd /\ K2.interest = kernel[c].interest /\ K2.ready = kernel[c].ready
        /\ K2.inbound = kernel[c].inbound
    BY <2>1 DEF Fd
  <2>4. /\ K3 \in Fd /\ K3.interest = kernel[c].interest /\ K3.ready = kernel[c].ready
        /\ K3.err = kernel[c].err
    BY <2>1 DEF Fd
  <2>5. /\ K4 \in Fd /\ K4.interest = kernel[c].interest /\ K4.ready = kernel[c].ready
        /\ K4.err = kernel[c].err /\ K4.inbound = kernel[c].inbound
    BY <2>1 DEF Fd
  <2>6. \/ kernel' = [kernel EXCEPT ![c] = Edge(K1, "OUT")]
        \/ kernel' = [kernel EXCEPT ![c] = Edge(K2, "ERR")]
        \/ kernel' = [kernel EXCEPT ![c] = Edge(K3, "IN")]
        \/ kernel' = [kernel EXCEPT ![c] = Edge(K4, "IN")]
    BY DEF Peer, Established, Fails, PeerSends, PeerFinishes, PeerReads, Env
  <2>7. "IN" \in Interest /\ "OUT" \in Interest /\ "ERR" \in Interest
    BY DEF Interest
  <2> HIDE DEF K1, K2, K3, K4
  <2>8. QED
    BY <2>2, <2>3, <2>4, <2>5, <2>6, <2>7
<1>4. KeepsBatch(d) /\ KeepsQueue(d) /\ KeepsHand(d)
  BY <1>2, SameQueue DEF KeepsBatch, KeepsHand, Phase
<1>5. CASE d # c
  <2>1. Same(d)
    BY <1>2, <1>3, <1>5, <1>t DEF Same
  <2>2. QED
    BY <2>1, <1>4, <1>t, Frame
<1>6. CASE d = c
  <2>1. c \in socket_map_
    BY <1>1, <1>6, <1>t DEF ConnInv, Mapped, NoFd
  <2>2. kernel'[c] = Edge(k, e)
    BY <1>3, <1>t
  <2>3. /\ kernel'[c].interest = kernel[c].interest
        /\ kernel[c].ready => kernel'[c].ready
        /\ kernel'[c].err = kernel[c].err \/ ("ERR" \in kernel[c].interest => kernel'[c].ready)
        /\ kernel'[c].inbound = kernel[c].inbound \/ ("IN" \in kernel[c].interest => kernel'[c].ready)
    BY <1>3, <2>2, EdgeFacts
  <2>4. Mapped(c)' /\ Fresh(c)' /\ Calls(c)'
    BY <1>2, <1>6, <1>t, <2>1, <2>3 DEF ConnInv, Mapped, Fresh, Calls, Phase
  <2>5. Sending(c)'
    BY <1>2, <1>4, <1>6, <1>t, <2>3 DEF ConnInv, Sending, KeepsQueue
  <2>6. Reading(c)'
    <3>1. Reading(c) /\ (kernel[c].interest # {} => "ERR" \in kernel[c].interest)
      BY <1>6, <1>t DEF ConnInv, Mapped
    <3>2. Pending(c, "CLOSE") => Pending(c, "CLOSE")'
      BY <1>4, <1>6 DEF KeepsQueue
    <3>3. QED
      BY <3>1, <3>2, <1>2, <2>3 DEF Reading, Phase
  <2>7. QED
    BY <1>6, <2>4, <2>5, <2>6 DEF ConnInv
<1>7. QED
  BY <1>5, <1>6

(* BurstPush on a connected socket: it has the lock, waits for EPOLLOUT, and  *)
(* errors are noticed as before.                                              *)
LEMMA BurstConn ==
    ASSUME Inv, NEW c \in Conns, status_[c] = "connectted", BurstPush(c)
    PROVE  /\ write_lock_'[c] = 1
           /\ "OUT" \in kernel'[c].interest /\ "ERR" \in kernel'[c].interest
           /\ \/ kernel'[c] = kernel[c]
              \/ "IN" \notin kernel'[c].interest /\ (kernel'[c].err => kernel'[c].ready)
           /\ \A d \in Conns : d # c => write_lock_'[d] = write_lock_[d] /\ kernel'[d] = kernel[d]
<1>t. ConnTypes /\ ConnInv(c) /\ kernel[c] \in Fd /\ {"OUT"} \in SUBSET Interest
  BY DEF Inv, TypeOK, MoreTypes, ConnTypes, Interest
<1>1. /\ write_lock_'[c] = 1
      /\ \/ kernel'[c] = kernel[c] /\ write_lock_[c] = 1
         \/ kernel'[c] = Registered(kernel[c], {"OUT"})
      /\ \A d \in Conns : d # c => write_lock_'[d] = write_lock_[d] /\ kernel'[d] = kernel[d]
  BY <1>t, BurstFacts
<1>2. CASE kernel'[c] = kernel[c] /\ write_lock_[c] = 1
  <2>1. "OUT" \in kernel[c].interest
    BY <1>2, <1>t DEF ConnInv, Sending
  <2>2. "ERR" \in kernel[c].interest
    BY <2>1, <1>t DEF ConnInv, Mapped
  <2>3. QED
    BY <1>1, <1>2, <2>1, <2>2
<1>3. CASE kernel'[c] = Registered(kernel[c], {"OUT"})
  <2>1. /\ kernel'[c].interest = {"OUT", "ERR"}
        /\ kernel'[c].err => kernel'[c].ready
    BY <1>3, <1>t, RegisteredFacts
  <2>2. QED
    BY <1>1, <2>1
<1>4. QED
  BY <1>1, <1>2, <1>3

(* An event of the queue: a disconnect that is taken closes a connected       *)
(* socket, a send that is taken makes it wait for EPOLLOUT.                   *)
LEMMA PopNext ==
    ASSUME Inv, HandleClose \/ HandleDelaySend, NEW d \in Conns
    PROVE  ConnInv(d)'
<1> DEFINE c == Head(event_queue_).s
<1>q. event_queue_ \in Seq(Event) /\ event_queue_ # <<>> /\ event_queue_' = Tail(event_queue_)
      /\ Release(c)
  BY DEF HandleClose, HandleDelaySend, PopEvent, Inv, TypeOK
<1>p. /\ Head(event_queue_) \in Event
      /\ \A u : Pending(d, u) /\ (c # d \/ Head(event_queue_).type # u) => Pending(d, u)'
  <2>1. /\ Head(event_queue_) \in Event
        /\ \A u : Pending(d, u) /\ Head(event_queue_) # [s |-> d, type |-> u] => Pending(d, u)'
    BY <1>q, Pops
  <2>2. ASSUME NEW u, Head(event_queue_) = [s |-> d, type |-> u]
        PROVE  c = d /\ Head(event_queue_).type = u
    BY <2>2
  <2>3. QED
    BY <2>1, <2>2
<1>t. /\ ConnInv(d) /\ ConnTypes /\ object \in [Conns -> {"unborn", "live", "deleted"}]
      /\ c \in Conns /\ status_ \in [Conns -> Status]
  BY <1>p DEF Inv, TypeOK, MoreTypes, ConnTypes, Event
<1>1. /\ UNCHANGED <<unsent, bad, socket_map_, batch, pc, ret, cur, calls>> /\ pc = "drain"
  BY DEF HandleClose, HandleDelaySend, PopEvent, threadVars
<1>2. KeepsBatch(d) /\ KeepsHand(d)
  BY <1>1 DEF KeepsBatch, KeepsHand, Phase
<1>3. /\ object'[d] = object[d] \/ object'[d] = "deleted"
      /\ object[c] = "live"
  <2>1. object' = [object EXCEPT ![c] = IF count_[c] = 1 THEN "deleted" ELSE @]
    BY <1>q DEF Release
  <2>2. object[c] = "live"
    <3>1. ASSUME NEW b \in Conns, b = c PROVE Queued(b) \in Nat /\ Queued(b) > 0
      <4>1. Queued(b)' \in Nat /\ Queued(b) = Queued(b)' + 1
        BY <3>1, <1>q, Pops
      <4>2. QED
        BY <4>1
    <3>2. ASSUME NEW b \in Conns, b = c PROVE object[b] = "live"
      <4>1. count_[b] = (IF b \in socket_map_ THEN 1 ELSE 0) + Queued(b) + (IF cur.s = b THEN 1 ELSE 0)
            /\ (object[b] = "live" <=> count_[b] > 0)
        BY DEF Inv, RefCount, Alive
      <4>2. QED
        BY <3>1, <3>2, <4>1
    <3>3. QED
      BY <3>2, <1>t
  <2> HIDE DEF c
  <2>3. QED
    BY <2>1, <2>2, <1>t
<1> DEFINE pushed == status_[c] = "connectted" /\ (HandleClose \/ unsent[c] > 0)
<1>4. IF pushed THEN BurstPush(c) ELSE UNCHANGED <<write_lock_, kernel>>
  BY DEF HandleClose, HandleDelaySend, PopEvent
<1>5. CASE d # c
  <2>1. KeepsQueue(d)
    BY <1>p, <1>5 DEF KeepsQueue
  <2>2. write_lock_'[d] = write_lock_[d] /\ kernel'[d] = kernel[d]
    BY <1>4, <1>5, <1>t, BurstConn
  <2>3. status_'[d] = status_[d]
    BY <1>5, <1>t DEF HandleClose, HandleDelaySend
  <2> HIDE DEF c
  <2>4. Same(d)
    BY <1>1, <1>3, <2>2, <2>3 DEF Same
  <2>5. QED
    BY <1>t, <1>2, <2>1, <2>4, Frame
<1>6. CASE d = c /\ ~pushed
  <2>1. /\ UNCHANGED <<write_lock_, kernel>>
        /\ status_[c] # "connectted" \/ (HandleDelaySend /\ unsent[c] = 0)
    BY <1>4, <1>6, <1>t DEF ConnTypes
  <2>2. UNCHANGED status_
    BY <2>1 DEF HandleClose, HandleDelaySend
  <2>3. HandleDelaySend => (Pending(d, "CLOSE") => Pending(d, "CLOSE")')
    BY <1>p DEF HandleDelaySend
  <2> HIDE DEF c, pushed
  <2>4. Mapped(d)' /\ Fresh(d)'
    BY <1>1, <1>3, <1>t, <2>1, <2>2 DEF ConnInv, Mapped, Fresh
  <2>5. Calls(d)'
    BY <1>1, <1>3, <1>t, <2>2 DEF ConnInv, Calls, Phase
  <2>6. Sending(d)'
    BY <1>1, <1>6, <1>t, <2>1, <2>2 DEF ConnInv, Sending
  <2>7. Reading(d)'
    BY <1>1, <1>6, <1>t, <2>1, <2>2, <2>3 DEF ConnInv, Reading, Phase
  <2>8. QED
    BY <2>4, <2>5, <2>6, <2>7 DEF ConnInv
<1>7. CASE d = c /\ pushed
  <2>1. BurstPush(c) /\ status_[c] = "connectted"
    BY <1>4, <1>7
  <2>2. /\ write_lock_'[c] = 1
        /\ "OUT" \in kernel'[c].interest /\ "ERR" \in kernel'[c].interest
        /\ \/ kernel'[c] = kernel[c]
           \/ "IN" \notin kernel'[c].interest /\ (kernel'[c].err => kernel'[c].ready)
    BY <2>1, <1>t, BurstConn
  <2>3. status_'[c] \in {"connectted", "closing"} /\ (HandleClose => status_'[c] = "closing")
    BY <2>1, <1>t DEF HandleClose, HandleDelaySend
  <2>4. HandleDelaySend => (Pending(d, "CLOSE") => Pending(d, "CLOSE")')
    BY <1>p DEF HandleDelaySend
  <2> HIDE DEF c, pushed
  <2>5. Mapped(d)' /\ Fresh(d)'
    BY <1>1, <1>3, <1>7, <1>t, <2>1, <2>2 DEF ConnInv, Mapped, Fresh
  <2>6. Calls(d)'
    BY <1>1, <1>3, <1>7, <1>t, <2>1, <2>3 DEF ConnInv, Calls, Phase
  <2>7. Sending(d)'
    BY <1>7, <2>2, <2>3 DEF Sending
  <2>8. Reading(d)'
    BY <1>1, <1>7, <1>t, <2>1, <2>2, <2>3, <2>4 DEF ConnInv, Reading, Phase
  <2>9. QED
    BY <2>5, <2>6, <2>7, <2>8 DEF ConnInv
<1>8. QED
  BY <1>5, <1>6, <1>7

(* The handlers of one socket leave the others alone. *)
LEMMA HandlerOthers ==
    ASSUME Inv, NEW d \in Conns, d # cur.s,
           \/ RecvData \/ RecvBadPacket \/ ReadBufferFull \/ RecvNothing \/ RecvFin \/ ReadTail
           \/ HandleConnect \/ HandleCanWrite \/ CloseWhenWritable \/ RemoveAndClose
    PROVE  ConnInv(d)'
<1> DEFINE c == cur.s
<1>t. /\ ConnInv(d) /\ ConnTypes /\ object \in [Conns -> {"unborn", "live", "deleted"}]
      /\ CallTypes /\ event_queue_ \in Seq(Event)
  BY DEF Inv, TypeOK, MoreTypes, ConnTypes, CallTypes
<1>c. c \in Conns /\ object[c] = "live"
  BY CurFacts DEF RecvData, RecvBadPacket, ReadBufferFull, RecvNothing, RecvFin, ReadTail,
     HandleConnect, HandleCanWrite, CloseWhenWritable, RemoveAndClose, Handling
<1>1. KeepsBatch(d) /\ KeepsHand(d)
  BY DEF RecvData, RecvBadPacket, ReadBufferFull, RecvNothing, RecvFin, ReadTail,
     HandleConnect, HandleCanWrite, CloseWhenWritable, RemoveAndClose, KeepsBatch, KeepsHand
<1>2. KeepsQueue(d)
  <2>1. CASE event_queue_' = event_queue_
    BY <2>1, SameQueue
  <2>2. CASE PushEvent(c, "CLOSE")
    BY <2>2, <1>t, <1>c, Pushes DEF PushEvent, KeepsQueue
  <2>3. QED
    BY <2>1, <2>2 DEF RecvData, RecvBadPacket, ReadBufferFull, RecvNothing, RecvFin, ReadTail,
     HandleConnect, HandleCanWrite, CloseWhenWritable, RemoveAndClose, queueVars
<1>3. object'[d] = object[d] /\ (d \in socket_map_' <=> d \in socket_map_)
  BY <1>t DEF RecvData, RecvBadPacket, ReadBufferFull, RecvNothing, RecvFin, ReadTail,
     HandleConnect, HandleCanWrite, CloseWhenWritable, RemoveAndClose, Release, refVars
<1>4. status_'[d] = status_[d] /\ calls'[d] = calls[d]
  <2>1. CASE RecvFin \/ CloseWhenWritable
    BY <2>1, <1>c, CloseFacts DEF RecvFin, CloseWhenWritable
  <2>2. CASE RecvData \/ HandleConnect
    <3>1. Called(c, "read") \/ Called(c, "open")
      BY <2>2 DEF RecvData, HandleConnect, CallLua
    <3>2. calls'[d] = calls[d]
      BY <3>1, <1>c, <1>t, CalledFacts
    <3>3. QED
      BY <3>2, <2>2, <1>t DEF RecvData, HandleConnect, connVars, ConnTypes
  <2>3. CASE RecvBadPacket \/ ReadBufferFull \/ RecvNothing \/ ReadTail \/ HandleCanWrite
             \/ RemoveAndClose
    BY <2>3, <1>t DEF RecvBadPacket, ReadBufferFull, RecvNothing, ReadTail, HandleCanWrite,
       RemoveAndClose, Goto, connVars, ConnTypes
  <2>4. QED
    BY <2>1, <2>2, <2>3
<1>5. bad'[d] = bad[d] /\ unsent'[d] = unsent[d]
  <2>1. CASE HandleCanWrite
    BY <2>1, <1>t, CanWriteFacts DEF HandleCanWrite, ConnTypes
  <2>2. CASE RecvBadPacket
    BY <2>2, <1>t DEF RecvBadPacket, ConnTypes
  <2>3. CASE RecvData \/ ReadBufferFull \/ RecvNothing \/ RecvFin \/ ReadTail
             \/ HandleConnect \/ CloseWhenWritable \/ RemoveAndClose
    BY <2>3 DEF RecvData, ReadBufferFull, RecvNothing, RecvFin, ReadTail, HandleConnect,
       CloseWhenWritable, RemoveAndClose, connVars
  <2>4. QED
    BY <2>1, <2>2, <2>3
<1>6. write_lock_'[d] = write_lock_[d] /\ kernel'[d] = kernel[d]
  <2>1. CASE HandleCanWrite
    BY <2>1, <1>t, CanWriteFacts DEF ConnTypes
  <2>2. CASE ReadTail
    BY <2>2, <1>c, <1>t, BurstFacts DEF ReadTail
  <2>3. CASE RecvData \/ RecvBadPacket
    <3>1. \E k : kernel' = [kernel EXCEPT ![c] = k]
      BY <2>3 DEF RecvData, RecvBadPacket
    <3>2. UNCHANGED write_lock_
      BY <2>3 DEF RecvData, RecvBadPacket, connVars
    <3>3. QED
      BY <3>1, <3>2, <1>t DEF ConnTypes
  <2>4. CASE ReadBufferFull \/ RecvNothing \/ RecvFin \/ CloseWhenWritable
    BY <2>4 DEF ReadBufferFull, RecvNothing, RecvFin, CloseWhenWritable, connVars
  <2>5. CASE HandleConnect \/ RemoveAndClose
    BY <2>5, <1>t DEF HandleConnect, RemoveAndClose, PostEvent, ConnTypes
  <2>6. QED
    BY <2>1, <2>2, <2>3, <2>4, <2>5
<1>7. Same(d)
  BY <1>3, <1>4, <1>5, <1>6 DEF Same
<1>8. QED
  BY <1>1, <1>2, <1>7, <1>t, Frame

(* Reading: the loop ends with an empty kernel buffer, an error that is       *)
(* noticed elsewhere, a disconnect that is queued, or the socket closed.      *)
LEMMA ReadNext ==
    ASSUME Inv, NEW c \in Conns, c = cur.s,
           RecvData \/ RecvBadPacket \/ ReadBufferFull \/ RecvNothing \/ RecvFin
    PROVE  ConnInv(c)'
<1>t. /\ ConnTypes /\ object \in [Conns -> {"unborn", "live", "deleted"}] /\ CallTypes
      /\ event_queue_ \in Seq(Event)
  BY DEF Inv, TypeOK, MoreTypes, ConnTypes, CallTypes
<1>c. c \in Conns /\ object[c] = "live" /\ pc = "read"
  BY CurFacts DEF RecvData, RecvBadPacket, ReadBufferFull, RecvNothing, RecvFin, Handling
<1>i. ConnInv(c) /\ kernel[c] \in Fd
  BY <1>c, <1>t DEF Inv, ConnTypes
<1>1. UNCHANGED <<write_lock_, unsent, object, socket_map_, batch, cur>>
  BY DEF RecvData, RecvBadPacket, ReadBufferFull, RecvNothing, RecvFin, connVars, refVars
<1>2. CASE RecvFin
  <2>1. CloseSocket(c) /\ status_[c] = "connectted" /\ UNCHANGED kernel
    BY <1>2 DEF RecvFin
  <2>2. QED
    BY <2>1, <1>1, <1>c, <1>i, CloseFacts, ClosedNext
(* The rest keeps the status, and leaves on the list what was there. *)
<1>3. CASE RecvData \/ RecvBadPacket
  <2>1. PICK n \in 1..kernel[c].inbound :
          /\ kernel' = [kernel EXCEPT ![c].inbound = @ - n]
          /\ Phase' \in {"read", "tail"} /\ (Phase' = "tail" => n = kernel[c].inbound)
    <3>1. CASE RecvData
      BY <3>1 DEF RecvData, CallLua, Phase
    <3>2. CASE RecvBadPacket
      <4>1. 1 \in 1..kernel[c].inbound
        BY <3>2, <1>i DEF RecvBadPacket, Fd
      <4>2. /\ kernel' = [kernel EXCEPT ![c].inbound = @ - 1]
            /\ pc' \in {"read", "tail"} /\ (pc' = "tail" => kernel[c].inbound = 1)
        BY <3>2 DEF RecvBadPacket, Goto
      <4>3. QED
        BY <4>1, <4>2 DEF Phase
    <3>3. QED
      BY <1>3, <3>1, <3>2
  <2>2. /\ status_' = status_ /\ status_[c] = "connectted" /\ ~kernel[c].err
        /\ c \in socket_map_
    BY <1>3, <1>c, <1>i DEF RecvData, RecvBadPacket, connVars, ConnInv, Mapped
  <2>3. kernel'[c] = [kernel[c] EXCEPT !.inbound = @ - n]
    BY <2>1, <1>c, <1>t DEF ConnTypes
  <2>4. /\ kernel'[c].interest = kernel[c].interest /\ ~kernel'[c].err
        /\ kernel'[c].inbound = kernel[c].inbound - n
    BY <2>2, <2>3, <1>i DEF Fd
  <2>5. Phase' = "read" \/ kernel'[c].inbound = 0
    BY <2>1, <2>4, <1>i DEF Fd
  <2>6. KeepsQueue(c) /\ (bad'[c] => Pending(c, "CLOSE")')
    <3>1. CASE RecvData
      <4>1. event_queue_' = event_queue_ /\ bad' = bad /\ ~bad[c]
        BY <3>1 DEF RecvData, connVars, queueVars
      <4>2. QED
        BY <4>1, <1>c, SameQueue
    <3>2. CASE RecvBadPacket
      <4>1. PushEvent(c, "CLOSE")
        BY <3>2, <2>2 DEF RecvBadPacket
      <4>2. QED
        BY <4>1, <1>c, <1>t, Pushes DEF PushEvent, KeepsQueue
    <3>3. QED
      BY <1>3, <3>1, <3>2
  <2>7. calls'[c] \in {<<"open">>, <<"open", "read">>}
    <3>1. calls[c] \in {<<"open">>, <<"open", "read">>}
      BY <1>c, <1>i, <2>2 DEF ConnInv, Calls
    <3>2. CASE RecvData
      BY <3>1, <3>2, <1>c, <1>t, CalledFacts DEF RecvData, CallLua
    <3>3. CASE RecvBadPacket
      BY <3>1, <3>3 DEF RecvBadPacket, Goto
    <3>4. QED
      BY <1>3, <3>2, <3>3
  <2>8. Mapped(c)' /\ Fresh(c)' /\ Calls(c)'
    BY <1>1, <1>c, <1>i, <2>2, <2>4, <2>7 DEF ConnInv, Mapped, Fresh, Calls
  <2>9. Sending(c)'
    BY <1>1, <1>i, <2>2, <2>4, <2>6 DEF ConnInv, Sending, KeepsQueue
  <2>10. Reading(c)'
    BY <1>1, <2>2, <2>4, <2>5, <2>6 DEF Reading
  <2>11. QED
    BY <2>8, <2>9, <2>10 DEF ConnInv
<1>4. CASE ReadBufferFull \/ RecvNothing
  <2>1. /\ UNCHANGED <<status_, bad, kernel, event_queue_, calls>>
        /\ Phase = "read"
        /\ \/ status_[c] # "connectted" \/ kernel[c].err
           \/ bad[c]
           \/ kernel[c].inbound = 0
    BY <1>4, <1>c DEF ReadBufferFull, RecvNothing, connVars, queueVars, Goto, Phase
  <2>2. KeepsQueue(c)
    BY <2>1, <1>c, SameQueue
  <2>3. Mapped(c)' /\ Fresh(c)' /\ Calls(c)'
    BY <1>1, <1>i, <2>1 DEF ConnInv, Mapped, Fresh, Calls
  <2>4. Sending(c)'
    BY <1>1, <1>i, <2>1, <2>2 DEF ConnInv, Sending, KeepsQueue
  <2>5. Reading(c)'
    <3>1. Reading(c)
      BY <1>i DEF ConnInv
    <3>2. Pending(c, "CLOSE") => Pending(c, "CLOSE")'
      BY <2>2 DEF KeepsQueue
    <3>3. ASSUME status_[c] = "connectted", kernel[c].inbound > 0, "IN" \in kernel[c].interest
          PROVE  \/ kernel[c].ready
                 \/ \E i \in batch : i.s = c /\ i.ev \cap {"IN", "ERR"} # {}
                 \/ Pending(c, "CLOSE")
      <4>1. kernel[c].err \/ bad[c]
        BY <2>1, <3>3
      <4>2. QED
        BY <4>1, <3>1, <3>3 DEF Reading
    <3>4. QED
      BY <3>1, <3>2, <3>3, <1>1, <2>1 DEF Reading
  <2>6. QED
    BY <2>3, <2>4, <2>5 DEF ConnInv
<1>5. QED
  BY <1>2, <1>3, <1>4

(* After the reads: what Lua wrote is pushed. *)
LEMMA TailNext ==
    ASSUME Inv, NEW c \in Conns, c = cur.s,
           ReadTail
    PROVE  ConnInv(c)'
<1>c. c \in Conns /\ object[c] = "live" /\ pc = "tail" /\ status_[c] = "connectted"
  BY CurFacts DEF ReadTail, Handling, Inv, Control, Phase
<1>i. ConnInv(c) /\ c \in socket_map_
  BY <1>c DEF Inv, ConnInv, Mapped
<1>1. UNCHANGED <<status_, unsent, bad, object, socket_map_, event_queue_, batch, cur, calls>>
  BY DEF ReadTail, refVars, queueVars, Goto
<1>2. KeepsQueue(c) /\ KeepsBatch(c) /\ KeepsHand(c)
  BY <1>1, <1>c, SameQueue DEF KeepsBatch, KeepsHand, Phase
<1>3. CASE unsent[c] > 0
  <2>1. /\ write_lock_'[c] = 1
        /\ "OUT" \in kernel'[c].interest /\ "ERR" \in kernel'[c].interest
        /\ \/ kernel'[c] = kernel[c]
           \/ "IN" \notin kernel'[c].interest /\ (kernel'[c].err => kernel'[c].ready)
    BY <1>3, <1>c, BurstConn DEF ReadTail
  <2>2. Mapped(c)' /\ Fresh(c)' /\ Calls(c)'
    BY <1>1, <1>c, <1>i, <2>1 DEF ConnInv, Mapped, Fresh, Calls
  <2>3. Sending(c)'
    BY <1>1, <1>c, <2>1 DEF Sending
  <2>4. Reading(c)'
    BY <1>1, <1>2, <1>c, <1>i, <2>1 DEF ConnInv, Reading, KeepsQueue, Phase
  <2>5. QED
    BY <2>2, <2>3, <2>4 DEF ConnInv
<1>4. CASE ~(unsent[c] > 0)
  <2>1. Same(c)
    BY <1>1, <1>4 DEF ReadTail, Same
  <2>2. QED
    BY <2>1, <1>2, <1>c, <1>i, Frame
<1>5. QED
  BY <1>3, <1>4

(* Writing: a connection that is up waits for input, and one with data left   *)
(* for EPOLLOUT too.                                                          *)
LEMMA WriteNext ==
    ASSUME Inv, NEW c \in Conns, c = cur.s,
           HandleConnect \/ HandleCanWrite
    PROVE  ConnInv(c)'
<1>t. ConnTypes /\ CallTypes
  BY DEF Inv, TypeOK, MoreTypes, ConnTypes, CallTypes
<1>c. c \in Conns /\ object[c] = "live" /\ pc = "write"
  BY CurFacts DEF HandleConnect, HandleCanWrite, Handling
<1>i. ConnInv(c) /\ kernel[c] \in Fd /\ c \in socket_map_
      /\ {"IN"} \in SUBSET Interest /\ {"IN", "OUT"} \in SUBSET Interest
  BY <1>c, <1>t DEF HandleConnect, HandleCanWrite, Inv, ConnTypes, ConnInv, Mapped, Interest
<1>1. UNCHANGED <<bad, object, socket_map_, event_queue_, batch, cur>>
  BY DEF HandleConnect, HandleCanWrite, refVars, queueVars
<1>2. KeepsQueue(c)
  BY <1>1, <1>c, SameQueue
<1>3. CASE HandleConnect
  <2>1. /\ status_[c] = "connecting" /\ status_'[c] = "connectted"
        /\ UNCHANGED <<write_lock_, unsent>>
        /\ kernel'[c] = Registered(kernel[c], {"IN"})
        /\ Called(c, "open")
    BY <1>3, <1>c, <1>t DEF HandleConnect, PostEvent, CallLua, ConnTypes
  <2>2. /\ kernel'[c].interest = {"IN", "ERR"}
        /\ kernel'[c].err => kernel'[c].ready
        /\ kernel'[c].inbound > 0 => kernel'[c].ready
    BY <2>1, <1>i, RegisteredFacts
  <2>3. calls[c] = <<>> /\ write_lock_[c] = 0 /\ ~bad[c] /\ (~EarlySend => unsent[c] = 0)
    BY <2>1, <1>c, <1>i DEF ConnInv, Calls, Sending, Reading, Phase
  <2>4. calls'[c] = <<"open">>
    BY <2>1, <2>3, <1>c, <1>t, CalledFacts
  <2>5. Mapped(c)' /\ Fresh(c)' /\ Calls(c)'
    BY <1>1, <1>c, <1>i, <2>1, <2>2, <2>4 DEF Mapped, Fresh, Calls
  <2>6. Sending(c)' /\ Reading(c)'
    BY <1>1, <2>1, <2>2, <2>3 DEF Sending, Reading
  <2>7. QED
    BY <2>5, <2>6 DEF ConnInv
<1>4. CASE HandleCanWrite
  <2>1. PICK left \in 0..MaxUnsent, k \in Fd :
           /\ unsent' = [unsent EXCEPT ![c] = left]
           /\ write_lock_' = [write_lock_ EXCEPT ![c] = IF left = 0 THEN 0 ELSE 1]
           /\ kernel' = [kernel EXCEPT ![c] = Registered(k, EventsAfterWrite(left))]
           /\ k.inbound = kernel[c].inbound /\ k.err = kernel[c].err
    BY <1>4, CanWriteFacts
  <2>2. /\ status_[c] = "connectted" /\ UNCHANGED <<status_, calls>>
    BY <1>4 DEF HandleCanWrite, Goto
  <2>3. /\ unsent'[c] = left /\ write_lock_'[c] = IF left = 0 THEN 0 ELSE 1
        /\ kernel'[c] = Registered(k, EventsAfterWrite(left))
    BY <2>1, <1>c, <1>t DEF ConnTypes
  <2>4. /\ EventsAfterWrite(left) \in SUBSET Interest /\ "IN" \in EventsAfterWrite(left)
        /\ "OUT" \in EventsAfterWrite(left) <=> left # 0
    BY <1>i DEF EventsAfterWrite
  <2>5. /\ "ERR" \in kernel'[c].interest
        /\ "OUT" \in kernel'[c].interest <=> left # 0
        /\ kernel'[c].err => kernel'[c].ready
        /\ kernel'[c].inbound > 0 => kernel'[c].ready
    BY <2>3, <2>4, RegisteredFacts
  <2>6. Pending(c, "CLOSE") => Pending(c, "CLOSE")'
    BY <1>2 DEF KeepsQueue
  <2>7. Mapped(c)' /\ Fresh(c)' /\ Calls(c)'
    BY <1>1, <1>c, <1>i, <2>2, <2>5 DEF ConnInv, Mapped, Fresh, Calls
  <2>8. Sending(c)'
    BY <2>2, <2>3, <2>5, ConnsAssumption DEF Sending
  <2>9. Reading(c)'
    BY <1>1, <1>i, <2>2, <2>5, <2>6 DEF ConnInv, Reading
  <2>10. QED
    BY <2>7, <2>8, <2>9 DEF ConnInv
<1>5. QED
  BY <1>3, <1>4

(* Closing. *)
LEMMA CloseNext ==
    ASSUME Inv, NEW c \in Conns, c = cur.s,
           CloseWhenWritable \/ RemoveAndClose
    PROVE  ConnInv(c)'
<1>t. ConnTypes /\ object \in [Conns -> {"unborn", "live", "deleted"}]
  BY DEF Inv, TypeOK, MoreTypes, ConnTypes
<1>c. c \in Conns /\ object[c] = "live"
  BY CurFacts DEF CloseWhenWritable, RemoveAndClose, Handling
<1>i. ConnInv(c)
  BY <1>c DEF Inv
<1>1. CASE CloseWhenWritable
  <2>1. CloseSocket(c) /\ status_[c] = "closing" /\ UNCHANGED <<kernel, object, socket_map_>>
    BY <1>1 DEF CloseWhenWritable, refVars
  <2>2. QED
    BY <2>1, <1>c, <1>i, CloseFacts, ClosedNext
<1>2. CASE RemoveAndClose
  <2>1. /\ status_'[c] = "closed" /\ kernel'[c] = NoFd /\ UNCHANGED calls
        /\ object'[c] # "unborn"
    BY <1>2, <1>c, <1>t DEF RemoveAndClose, Release, Goto, ConnTypes
  <2>2. QED
    BY <2>1, <1>c, <1>i, ClosedNext
<1>3. QED
  BY <1>1, <1>2

-------------------------------------------------------------------------------
(* The invariant of the initial state: no socket exists. *)
LEMMA InvInit == Init => Inv
<1> SUFFICES ASSUME Init PROVE Inv
  OBVIOUS
<1>1. TypeOK
  <2>1. MaxUnsent \in Nat /\ 0 \in 0..MaxUnsent /\ 0 \in 0..1
    BY ConnsAssumption
  <2>2. write_lock_ \in [Conns -> 0..1] /\ unsent \in [Conns -> 0..MaxUnsent]
    BY <2>1 DEF Init
  <2>3. cur.s = NoConn /\ event_queue_ \in Seq(Event)
    BY DEF Init, Idle
  <2>4. QED
    BY <2>2, <2>3 DEF Init, TypeOK, Status
<1>2. MoreTypes
  BY NoFdType DEF Init, MoreTypes, Idle, Item
<1>3. Control /\ BatchSound /\ QueueWakes
  BY DEF Init, Control, Phase, Handling, BatchSound, QueueWakes, Idle
<1>4. RefCount /\ Alive
  <2>1. \A c \in Conns : Queued(c) = 0
    <3>1. \A c \in Conns : {i \in DOMAIN event_queue_ : event_queue_[i].s = c} = {}
      BY DEF Init
    <3>2. QED
      BY <3>1, FS_EmptySet DEF Queued
  <2>2. QED
    BY <2>1, ConnsAssumption DEF Init, RefCount, Alive, Idle
<1>5. ASSUME NEW c \in Conns PROVE ConnInv(c)
  <2>1. /\ status_[c] = "closed" /\ write_lock_[c] = 0 /\ unsent[c] = 0 /\ bad[c] = FALSE
        /\ object[c] = "unborn" /\ kernel[c] = NoFd /\ calls[c] = <<>>
    BY DEF Init
  <2>2. Mapped(c) /\ Fresh(c) /\ Calls(c)
    BY <2>1, NoFdType DEF Mapped, Fresh, Calls
  <2>3. Sending(c) /\ Reading(c)
    BY <2>1 DEF Sending, Reading
  <2>4. QED
    BY <2>2, <2>3 DEF ConnInv
<1>6. QED
  BY <1>1, <1>2, <1>3, <1>4, <1>5 DEF Inv

(* Every step keeps the invariant. *)
LEMMA InvNext == Inv /\ [Next]_vars => Inv'
<1> SUFFICES ASSUME Inv, [Next]_vars PROVE Inv'
  OBVIOUS
<1>1. TypeOK' /\ MoreTypes' /\ Control' /\ BatchSound' /\ QueueWakes'
  BY TypesNext, ControlNext, BatchNext, QueueNext
<1>2. RefCount' /\ Alive'
  BY RefNext DEF RefPart, Exact, RefCount, Alive
<1>3. ASSUME NEW d \in Conns PROVE ConnInv(d)'
  <2>1. CASE \/ LuaReturns \/ EpollTimeout \/ BatchDone \/ WakeUpEvent \/ AcceptError
             \/ DrainDone \/ NothingToWrite \/ EventDone \/ UNCHANGED vars
    BY <2>1, MoveNext
  <2>2. CASE \E c \in Conns : Send(c) \/ Disconnect(c) \/ ConnectEx(c)
    BY <2>2, LuaNext
  <2>3. CASE EpollWait
    BY <2>3, WaitNext
  <2>4. CASE \E c \in Conns : Accept(c)
    BY <2>4, AcceptNext
  <2>5. CASE \E item \in batch : SocketEvent(item)
    BY <2>5, EventNext
  <2>6. CASE \E c \in Conns : Peer(c)
    BY <2>6, PeerNext
  <2>7. CASE HandleClose \/ HandleDelaySend
    BY <2>7, PopNext
  <2>8. CASE \/ RecvData \/ RecvBadPacket \/ ReadBufferFull \/ RecvNothing \/ RecvFin \/ ReadTail
             \/ HandleConnect \/ HandleCanWrite \/ CloseWhenWritable \/ RemoveAndClose
    <3>1. CASE d # cur.s
      BY <2>8, <3>1, HandlerOthers
    <3>2. CASE d = cur.s
      BY <2>8, <3>2, ReadNext, TailNext, WriteNext, CloseNext
    <3>3. QED
      BY <3>1, <3>2
  <2>9. QED
    BY <2>1, <2>2, <2>3, <2>4, <2>5, <2>6, <2>7, <2>8 DEF Next, Lua, Loop
<1>4. QED
  BY <1>1, <1>2, <1>3 DEF Inv

(* The invariant holds in every state. *)
THEOREM Invariance == Spec => []Inv
<1>1. Init => Inv
  BY InvInit
<1>2. Inv /\ [Next]_vars => Inv'
  BY InvNext
<1>3. QED
  BY <1>1, <1>2, PTL DEF Spec

(* The fields of Socket and SocketMgr keep their types: the send lock is 0 or *)
(* 1, no count goes below zero, and the thread is always somewhere.           *)
THEOREM TypeCorrect == Spec => []TypeOK
<1>1. Inv => TypeOK
  BY DEF Inv
<1>2. QED
  BY <1>1, Invariance, PTL

(* The reference counts of Socket are exact: socket_map_, one for each queued *)
(* event, one for the handler at work.                                        *)
THEOREM CountsExact == Spec => []RefCount
<1>1. Inv => RefCount
  BY DEF Inv
<1>2. QED
  BY <1>1, Invariance, PTL

(* No pointer of SocketMgr, nor one that epoll holds, dangles; and no Socket  *)
(* is leaked.                                                                 *)
THEOREM PointersLive == Spec => []NoDangling
<1>1. Inv => NoDangling
  <2> SUFFICES ASSUME Inv, NEW c \in Conns
               PROVE  /\ (\/ c \in socket_map_ \/ Queued(c) > 0 \/ cur.s = c
                          \/ \E i \in batch : i.s = c
                          \/ kernel[c].interest # {}) => object[c] = "live"
                      /\ object[c] = "live" => count_[c] > 0
    BY DEF NoDangling
  <2>1. /\ count_[c] = (IF c \in socket_map_ THEN 1 ELSE 0) + Queued(c)
                       + (IF cur.s = c THEN 1 ELSE 0)
        /\ object[c] = "live" <=> count_[c] > 0
    BY DEF Inv, RefCount, Alive
  <2>2. Queued(c) \in Nat
    BY AboutFinite DEF Queued, About, Inv, TypeOK
  <2>3. c \in socket_map_ \/ Queued(c) > 0 \/ cur.s = c => object[c] = "live"
    BY <2>1, <2>2
  <2>4. (\E i \in batch : i.s = c) => c \in socket_map_
    BY ConnsAssumption DEF Inv, BatchSound
  <2>5. kernel[c].interest # {} => c \in socket_map_
    BY NoFdType DEF Inv, ConnInv, Mapped
  <2>6. QED
    BY <2>1, <2>3, <2>4, <2>5
<1>2. QED
  BY <1>1, Invariance, PTL

(* Lua hears of a connection in order: open, data, close; or only the         *)
(* failure.                                                                   *)
THEOREM CallsInOrder == Spec => []CallOrder
<1>1. Inv => CallOrder
  BY DEF Inv, ConnInv, Calls, CallOrder
<1>2. QED
  BY <1>1, Invariance, PTL

(* The send lock is held exactly while the socket waits for EPOLLOUT.         *)
THEOREM LockMeansArmed == Spec => []LockArmed
<1>1. Inv => LockArmed
  BY DEF Inv, ConnInv, Sending, LockArmed
<1>2. QED
  BY <1>1, Invariance, PTL

(* A queued event has woken the loop, or the queue is being drained.          *)
THEOREM QueueNeverForgotten == Spec => []QueueWakes
<1>1. Inv => QueueWakes
  BY DEF Inv
<1>2. QED
  BY <1>1, Invariance, PTL

(* Unread data on a connected socket will be noticed.                         *)
THEOREM InputNoticed == Spec => []NoMissedInput
<1>1. Inv => NoMissedInput
  BY DEF Inv, ConnInv, Reading, NoMissedInput
<1>2. QED
  BY <1>1, Invariance, PTL

(* When Lua waits for the open callback before it sends, no data is stranded  *)
(* in the write buffer of a connected socket.                                 *)
THEOREM NothingStranded == ~EarlySend => (Spec => []NoStrandedData)
<1> SUFFICES ASSUME ~EarlySend PROVE Spec => []NoStrandedData
  OBVIOUS
<1>1. Inv => NoStrandedData
  BY DEF Inv, ConnInv, Sending, NoStrandedData
<1>2. QED
  BY <1>1, Invariance, PTL

===============================================================================
