# Verification of crossover-mini

crossover-mini is a single-process game/application server: a C++ engine
(`engine/`, `include/`) that runs a Lua program (`crossover/`) and gives it TCP,
UDP/KCP and HTTP networking, MySQL and MongoDB access, timers and a log. This
directory holds TLA+ models of the engine's own logic (the Linux build), the TLC
configurations that check them on small instances, and TLAPS proofs.

Run a model with `tlc -config <file>.cfg <module>`, the proofs of a module with
`tlapm <module>_proofs.tla`. `PROJECT.json` lists components, runs, hazards, theorems
and, under `map`, the source lines behind every definition.

## 1. Inventory

### Threads and how they interact

* **Work thread** (`work_thread.cpp`). Runs all Lua code. Each 100 ms frame: run
  the queued tasks, collect removed timers, fire due timers, give the rest of the
  frame to `SocketMgr::EventLoop`. All socket state belongs to this thread.
* **Service threads**: one per MySQL connection, one per MongoDB connection, one
  for HTTP, one for the log. Each has a `SafeQueue` (list with a mutex) and an
  `Event` (semaphore with an "I wait" flag). Lua pushes an item and calls
  `Notify`; the result comes back as a `Task` pushed to the work thread, which is
  woken through an eventfd.
* **Console thread and main** (`console_poller.cpp`, `main.cpp`,
  `scheduler_impl.cpp`): start and stop everything.
* **Peers and the kernel**: epoll, edge triggered; sockets with bounded buffers.

### Components

| Component | State | Operations | What is hard |
|---|---|---|---|
| Write buffer (`sequence_buffer.cpp`) | `buffer_`, `len_`, `delay_buff_list_` | `Write`, `WriteMsg`, `FillVector`, `Remove` | partial sends, messages that do not fit, order across the delay list |
| TCP socket manager (`socket_mgr_linux.cpp`, `socket.cpp`, `socket_linux.cpp`, `referable.cpp`) | `socket_map_`, `event_queue_`, per socket status, send lock, reference count, epoll registration | accept, `ConnectEx`, `Send`, `Disconnect`, `EventLoop`, the `Handle…` functions | reference counts through callbacks, stale pointers in an epoll batch, edge-triggered events, deferred close |
| Two servers on one connection | both ends' send locks and registrations | the same handlers | everyone waiting on everyone |
| Service threads (`event.cpp`, `safe_queue.h`, the `Run` loops) | queue, `is_block_`, semaphore, `is_running_` | push, `Notify`, `Wait`, pop, stop | lost wake-ups, shutdown races |
| MySQL transactions (`connection.cpp`) | `query_list_`, `flag_`, the session and its autocommit | `AddQuery`, `InsertFristQuery`, `Ping`, `Run`, `Shutdown` | a statement failing in the middle, rollback, queries inserted at the front, a session lost and silently replaced |
| Work thread and timers (`work_thread.cpp`, `timer.cpp`) | `timer_map_`, `del_timer_list_`, `next_time` | frame loop, `add_timer`, `remove_timer`, `stop_all_timer` | callbacks that change the map being walked, the 32-bit clock wrapping |
| MySQL pool (`database_impl.cpp`) | connections, round-robin index | pick a connection | counters at their limit |
| Scheduler, start and exit | thread references, running flags | start, shutdown | order of teardown across threads |
| Lua references, connection ids (`lua_fix.cpp`, `MakeGeneralConnID`) | id tables, next id | register, release, make | wrap-around and reuse |
| Packet parsing (`Socket::OnRead`) | read buffer | parse | packets over chunk boundaries, empty bodies |
| UDP and KCP | `udp_map_`, kcp sessions | accept, connect, send, update | references per datagram |
| Bindings, serialisation, Windows (IOCP) build | – | argument checks, byte formats | – |

### What makes each component correct

* Write buffer: what reaches the kernel is the accepted bytes, in order, once;
  `GetSize() == 0` means that nothing waits.
* Socket manager: the reference count is the number of references; no pointer
  dangles; Lua hears open, data, close in this order; the send lock and the
  EPOLLOUT registration agree; nothing queued, written or received is forgotten.
* Service threads: each item once, in order; a sleeping thread is woken; a stopped
  thread ends.
* Transactions: all or nothing; the answer agrees with what was committed; after a
  failure the connection is as good as new.
* Messages: what the receive callback gets is what the peer sent, message by
  message, however TCP cuts the stream; a connection that cannot go on is closed.
* Lua references: an id stands for one function as long as anybody holds it.
* Exit: main ends, last and alive.
* Timers: not early, not forgotten, kept under their index until removed, deleted once.

## 2. Modules

| Module | Models | Correspondence |
|---|---|---|
| `ByteStream` | the promise of a sender | abstract: bytes accepted and bytes on the wire |
| `SequenceBuffer` | the write buffer and the loop of `WriteCallback` | variables are the fields; a byte is named by its position; one step per turn of the `FillVector` loop (`pc = "fill"`), during which no other call can run because all callers are on the work thread |
| `MessageChannel` | the promise of `SendMsg` and the receive callback | abstract: messages sent and messages received, a prefix |
| `MessagePath` | the way of a message to the receive callback of the peer | `SequenceBuffer` (extended, unchanged) as the sender; `Recv` takes any number of bytes off the wire that fits; one step per turn of the loop in `OnRead`; a head is recognised by the positions of its bytes, and the four bytes at any other place may be any number. `is_parse_package_` is chosen at the start and the same at both ends |
| `SocketMgr`, `MCSocketMgr` | all TCP connections of one server | one action per Lua call (`Send`, `Disconnect`, `ConnectEx`), per step of `EventLoop` (`EpollWait`, `WakeUpEvent`, `Accept`, `SocketEvent`, …), per outcome of `recv`, and per handler; `pc` is the place in the loop, "callback" the time in which Lua runs inside a handler and `ret` where the handler goes on; `kernel` is the external side: registration, ready list, unread data, end of stream, error, room to send |
| `Duplex` | two servers talking to each other | each end is a connected `Socket` reduced to its write side and registration; the kernel's room is bounded |
| `Worker` | the four service threads | `service` says which; each access to the queue (its mutex) or to `is_block_` (`lock_`) is one step; `log` waits before it pops, the others after; only `mysql` refuses pushes when stopped, and only `mysql` has queries put in front (`InsertFristQuery`, `push_front`); the log's stop does not wake |
| `Connection` | transactions of one MySQL connection | one step per query popped (pop, execute, commit or rollback, answer), `Shutdown` and the way out of `Run`; the database session is external: up or lost, autocommit, uncommitted and committed writes. A push and its `Notify` are one step here, and `event_` says whether a waiting thread has been posted: `Notify` is lost unless the thread waits, and what was posted just before it does may or may not count (`Worker` has the single steps). `LossPoints` says where a session may be lost. The next call of the client library replaces a lost session by a new one in autocommit, except that a statement inside a transaction fails |
| `Callbacks` | the callbacks of the queries | `Connection` (extended) with the id table of `lua_fix.cpp`: ids are taken with the query, carried by the `DBTask` and released when the work thread deletes it; a query that is refused (connection shut down, or a ROLLBACK asked for) keeps its id. A task is called and deleted in two steps, between which Lua may take new ids. `HeldRefs` are functions of others that stay; `FirstRef` lets the ids wrap early |
| `Lifecycle` | start and exit of the process | one step per access to what main, console, work and service thread share: flags, thread references, the task list, `wakeup_s_`, `epoll_fd_`. A use of `wakeup_s_` before `Init` may or may not kill the process, one after `Close` does (a member of a null pointer is read) |
| `WorkThread` | frames and timers | real time `now` and `getMSTime = now % Wrap`; the walk over the `unordered_map` is in arbitrary order; a timer added in a callback may rehash the table, after which the iterator may be anywhere; `Intervals` are any `uint32`, cast to `int32` as `Update` does, so that one of half the range or more is always due; `Interrupted` lets `epoll_wait` fail, on which `EventLoop` returns at once |
| `SequenceBuffer_proofs`, `MessagePath_proofs`, `SocketMgr_proofs`, `WorkThread_proofs`, `Worker_proofs`, `Connection_proofs`, `Callbacks_proofs` | – | the proofs, each extending the module it is named after (section 4) |

`SequenceBuffer` supports `SocketMgr` (theorem `EmptyIsDrained`: counting unsent
messages is enough to know when `GetSize()` is 0), and `SocketMgr` supports `Duplex`
(`LockArmed`, `NoMissedInput`: a registered event is reported whenever it holds).

The definitions under "Slips this code could have" in each module are wrong variants
of the actions, one for each property: putting one in place of the action it is
named after makes TLC report that property, which shows that the property depends on
that code.

## 3. Runs

| Run | Config | Shows |
|---|---|---|
| `path` | `MCMessagePath` | the write buffer: order, capacity, empty means drained, refinement of `ByteStream`; a message longer than the buffer stays at the head of the line for ever and is the only thing that can wait behind an empty buffer. The whole path: refinement of `MessageChannel`, no complete message left lying, the read buffer never full between reads, messages arrive, and a message the receiver takes for an error (an empty one, which `SendMsg` does send, or one too long) ends the connection |
| `socket` | `MCSocketMgr` | every safety and liveness property of `SocketMgr` for one connection through all paths, `EPOLL_CTL_ADD` failing included |
| `socket_pair` | `MCSocketMgrPair` | no dangling pointer for two connections that share batches and the event queue, act on each other in callbacks and send before they are connected |
| `duplex_one_way` | `MCDuplexOneWay` | with one end talking, everything gets out |
| `duplex_both` | `MCDuplexBoth` | **violated**: with both talking, both may wait for EPOLLOUT alone (finding 1) |
| `worker` | `MCWorker` | all four services: each item once and in order, those put in front ahead of what was not yet taken, a sleeping thread is woken; a pinged connection executes everything |
| `worker_stop` | `MCWorkerStop` | **violated**: `Shutdown` may miss the thread (finding 2) |
| `txn` | `MCCallbacks` | atomicity, answers, durability, return to autocommit, with inserts at the front, failures anywhere, sessions lost between transactions and shutdown; ids of callbacks exact over a wrap-around; the callbacks of lone queries called, on a connection that is pinged |
| `txn_commit` | `MCConnectionCommit` | **violated**: a COMMIT is answered with success that did not commit its transaction (finding 3) |
| `timers` | `MCTimers` | timers across the clock's wrap, with indexes reused, intervals short, zero and over half the range, and `epoll_wait` failing at any time |
| `frame_wrap` | `MCFrameWrap` | **violated**: a frame longer than 100 ms at the wrap (finding 4) |
| `exit` | `MCExit` | **violated**: main dies before it has waited for the other threads (finding 5) |

### Findings

1. `BurstPush` registers EPOLLOUT without EPOLLIN. `HandleCanWrite` carries a
   comment that both must be on, or two servers that fill each other's buffers
   deadlock, and does so after a partial send; but a complete send that uses up the
   kernel's room, followed by a new send at both ends, leads to exactly that state.
2. `Event::Notify` posts only when `is_block_` is set, and `Run` looks at
   `is_running_` and the queue before it sets the flag. A `Shutdown` in between wakes
   nobody. A push in between waits for the next push or ping.
3. `CommitTransaction` ignores the result of `mysql_commit`. A session lost inside a
   transaction has the same effect: a ping replaces it by one in autocommit, and the
   COMMIT statement is executed alone and answered with success.
4. `next_time > getMSTime()` compares wrapped times. When `next_time` has wrapped and
   the clock has not, frames of length 0 push `next_time` ahead; after the wrap the
   next frame has that lead as its timeout. The wrap is not the only way to a frame of
   more than 100 ms: an `EventLoop` that returns early because `epoll_wait` failed
   (`Interrupted`, FALSE in this run) and a wall clock that is set back have the same
   effect.
5. `Scheduler_impl::shutdown` closes the socket manager, which sets `wakeup_s_` to
   null, and then wakes the work thread through `wakeup_s_`. With the two calls in the
   other order `ExitSucceeds` holds.

Not a run: `CLog::StopWaitExit` waits for the log thread without waking it. `Worker`
with `Services = {"log"}` violates `Ends` for that reason, but main does not live to
call it (finding 5). Also modelled: when `auto_timer_idx_` is taken, `MakeGeneralTimerID`
increments the wrong variable and does not return (`pc = "hang"` in `WorkThread`,
reached in `timers` with `INVALID_INDEX` small). And `Update` casts the interval to
`int32`: a timer of 2^31 ms (25 days) or more fires in every frame, which is why
`NotEarly` speaks of shorter intervals only.

### Bounds

* `path`: write buffer of 4, read buffer of 3, messages of 0 to 4 bytes behind a head
  of 1, sends of at most 2, 8 bytes in all: messages that fit exactly, that wait, that
  overtake if allowed, that never fit into the write buffer, that fit there but not
  into the read buffer, empty ones; sends and reads that end in a head or in a body.
* `socket`: one connection, 2 unsent messages, 2 unread chunks, 2 queued events: a
  CLOSE and a DELAY_SEND together, partial and complete writes, short and full reads.
  A second connection adds only what they share, which `socket_pair` checks with
  bounds of 1.
* `duplex`: the kernel's room is 2, so that a complete send, a partial send and a
  full buffer are different; more messages than both buffers hold.
* `worker`: 3 items (4 threads); pings are limited by the queue length, with room
  left for the one that wakes a sleeping thread, so the bound loses no wake-up. The
  semaphore bound holds back a push only when three posts are pending.
* `txn`: 4 queries, a transaction with queries before, after or inside, or two short
  ones; 6 ids, one of them held by others, starting at 5, so that the ids wrap with
  the third query; one of the queries may be refused. `MaxPings = 0` leaves only the
  pings that reach a sleeping thread nobody has posted. At other times a ping matters
  when it replaces a session lost inside a transaction, which `txn_commit` has.
* `exit`: one service thread and 2 waiting tasks.
* `timers`: 5 ms around the wrap of a clock of 32, frames of 2 ms, 3 timers,
  2 indexes, intervals 0 (due at once), 2 (a frame) and 31 (negative as an `int32`).
  The time observed is short against `Wrap`, as any program's is against 2^32 ms.

Deadlock is checked in `path`, `socket` and `socket_pair`, whose systems never
stop. The others stop when their bound on items, sends, queries or time is used up
(or, in `Worker`, when the thread has exited).

### Fairness

* `MessagePath`: the sender's `FillVector` loop and the receiver go on (weak). The kernel takes bytes again
  and again while the peer reads (strong on a non-empty `Remove`: `FillVector` calls
  may disable it in between).
* `SocketMgr`: callbacks return and the loop takes steps (weak; one thread that never
  blocks outside `epoll_wait`). A connected peer reads, and a connection attempt
  comes to an end (TCP). No peer sends so fast that `recv` fills the buffer for
  ever (strong on `ShortRead`): the code has no other bound on that loop, which is
  listed as a hazard.
* `Duplex`, `Callbacks`: the loop or each thread keeps running (weak). In `Callbacks`
  pings go on as well, as in `Worker`: without them a lost `Notify` leaves the last
  query in the queue and its callback uncalled.
* `Lifecycle`: each thread goes on (weak). A frame ends although wake-ups come
  in, and a thread ends although it may have more tasks to push (strong): both
  happen once the other threads are quiet.
* `Worker`: the thread and the caller's pending `Notify` go on (weak). Pings go on
  for the services in `Pinged`: the documentation asks programs to ping their
  connections regularly. HTTP and the log have no ping, and `Executed` says nothing
  of them.
* `WorkThread` has no liveness property.

## 4. Proofs

### `SequenceBuffer_proofs` and `MessagePath_proofs`

`SequenceBuffer_proofs` proves, for every `TotalSize`, `HeadLen`, `MaxLen`,
`SendLimit` and `MaxBytes` (assumed natural numbers, the first four positive:
`SizesAssumption`):

* `TypeCorrect`: `Spec => []TypeOK`.
* `BufferSafe`: `Spec => [](Capacity /\ InOrder /\ EagerFill)`. The inductive
  invariant is `IInv == TypeOK /\ Capacity /\ InOrder /\ EagerFill`. `Capacity` needs
  the types. `EagerFill` holds only between calls, and is re-established because
  `FillDone`, the one step back to "ready", is taken only when the head of the line
  does not fit. `InOrder` has to account for the message being written (`todo`) and
  to say where each waiting message starts. One lemma per action
  (`FillStepInv`, `FillDoneInv`, `StartWriteInv`, `RemoveInv`).
* `EmptyOrBlocked`: behind an empty buffer only a message longer than the buffer
  waits; `EmptyIsDrained`: if `MaxLen <= TotalSize`, nothing does. The second needs
  `LensBounded` as a further invariant.
* `OversizeStuck`: an oversized message at the head of the line stays there.
* `WritePathIsStream`: `Spec => Stream!StreamSpec`. Only a non-empty `Remove`
  transmits; by `RemoveWire` it puts exactly the next accepted bytes on the wire, and
  by `LineOrdered` and `AccountedFor` no more than were accepted.

`MessagePath_proofs` proves, for every `RecvSize` above `HeadLen` as well
(`RecvAssumption`):

* `PathIsBuffer`: `PathSpec => Spec`. The receiver leaves the sender's variables alone
  and each step of the sender is one of `SequenceBuffer`, so all of the above holds of
  the composed system.
* `PathSafe`: `PathSpec => [](Capacity /\ InOrder)`, from the two.
* `PathTypeCorrect`: `PathSpec => []PathTypeOK`; the parser stays inside the read buffer.
* `PathPrompt`, `PathNeverFull`: `PathSpec => []Prompt`, `PathSpec => []NeverFull`.
* `PathIsChannel`: `PathSpec => Channel!ChannelSpec`, the refinement that the run `path`
  checks on a small instance.

  The last four rest on `PathInv == IInv /\ LineOrdered /\ RecvInv`. Of the sender the
  receiver needs only `WireSound` (what is on the wire is a prefix of what was accepted,
  byte by byte), which follows from `IInv` and `LineOrdered`. `RecvInv` says that the
  read buffer holds the last bytes taken (`Held`), that the messages sent lie end to end
  and make up what was accepted (`Chain`), that the messages delivered are the first
  ones sent and the parser stands where the last of them ends (`Parsed`), and that
  between two recv calls less than a whole message is left (`Left`); without packages,
  that the bytes delivered are all those taken (`Raw`). The heart is `LengthRead`: the
  four bytes at the cursor are always the head of the next message, so `OnRead` never
  reads a length nobody wrote. One lemma per action.

### `SocketMgr_proofs`

For any set of connections (finite or not) and any bounds (`ConnsAssumption`), with
`EPOLL_CTL_ADD` failing or not and sends before the connection is up allowed or not:
`TypeCorrect`, `CountsExact` (`RefCount`), `PointersLive` (`NoDangling`),
`CallsInOrder` (`CallOrder`), `LockMeansArmed` (`LockArmed`), `QueueNeverForgotten`
(`QueueWakes`), `InputNoticed` (`NoMissedInput`). `NothingStranded` proves
`NoStrandedData` for `~EarlySend` only: `HandleConnect` registers EPOLLIN alone, and
data sent before waits for the next send or receive (section 5).

One invariant serves all: `Inv == TypeOK /\ MoreTypes /\ Control /\ BatchSound /\
RefCount /\ Alive /\ QueueWakes /\ \A c \in Conns : ConnInv(c)`. The properties are not
inductive because a handler is cut in two by the callback it makes: in between Lua may
send, disconnect and connect. `Control` says which socket the handler holds and which
status it may rely on afterwards; `BatchSound` that the rest of an epoll batch is about
other sockets, all still in `socket_map_`; `Alive` that an object exists exactly as
long as it has references; `ConnInv` gathers, per connection, what the status says of
the kernel's registration, of the calls made so far, of the send lock and of unread
input. `RefCount` counts queued events, so pushing and popping the queue have lemmas
of their own about the cardinality of "the events about c". One lemma per handler.

### `WorkThread_proofs`

For every clock range, frame length, number of timers and of indexes
(`WorkThreadAssumption`):

* `TimersDeletedOnce` (`DeletedOnce`), `IndexesKept` (`IndexKept`) and `NeverEarly`
  (`NotEarly`), the last two action properties. `IndexKept` follows from `DeletedOnce`
  and the test in `MakeGeneralTimerID`: only what Lua removed is collected, and no index
  is given away before that. `NotEarly` is about intervals below half the clock's range.
* `WalkLeavesNone`: `NoneOverdue` under `ShortRun`, i.e. if the time observed is less
  than half the clock's range (24 days for 32 bits). This is what the code needs: the
  `int32` difference in `Update` is exact only then.
* `FrameBoundUntilWrap`: `FrameBound`, which `frame_wrap` finds violated, holds under
  `Undisturbed`: neither the clock nor the end of a frame reaches the wrap, and
  `epoll_wait` does not fail. The second condition is needed too; that nobody sets the
  clock is an assumption of the whole module.

The arithmetic is in `Elapsed` and `Int32Facts`: the 32-bit difference of two wrapped
times never exceeds the real difference, and equals it when that is short. The
invariant `TypeOK /\ Clocks /\ WalkOver /\ Visited /\ DeletedOnce` ties each
`last_time_` to the real time it stands for (`Clocks`) and says of every timer the walk
has passed that it was not due when the walk began (`Visited`). The frame needs
`Frame`: its end is at most `WaitTime` away, and `EventLoop` does not return before it.

### `Worker_proofs`

`ItemsInOrder` (`InOrder`), and `TypeCorrect`, for all four services and every number of
items and pings (`WorkerAssumption`). `InOrder` looks at the items done, in hand and
queued as one line. Every item pushed is in it once; an item stands before one pushed
earlier only if it was put in front, and then before everything that was not taken at
that moment (the ghost `inserted` remembers how much was). So without `push_front`, for
three of the services, the order is the order of the pushes. The invariant adds what is
in hand while the thread works (`Hand`) and, besides the order, that only what was pushed
is in the line and nothing was put in front of more than has been taken (`InLine`);
`Posts` bounds the semaphore.

### `Connection_proofs` and `Callbacks_proofs`

For every number of queries and pings (`ConnectionAssumption`):

* `LoneIsDurable` (`AnsweredIsDurable`) and `Settles` (`BackToAutocommit`): always,
  wherever sessions are lost and whether commits fail or not.
* `TransactionsAtomic` (`Atomic`) and `FailureUndoes` (`FailedMeansNothing`): under
  `Kept`, i.e. if no session is lost inside a transaction; a failing `mysql_commit` does
  no harm to these two.
* `CommitAnswered` (`CommitAnswer`): under `Kept` and if `mysql_commit` does not fail.
  Finding 3 is what happens otherwise.

The invariant relates the thread to Lua's program. `Written` says what Lua queues: one
transaction after the other, each from its BEGIN to its COMMIT. `Line` and `Behind` say
that the queue holds the last of them in order, with queries put in front at most
ahead of them. Hence the thread is `Inside` at most one transaction: its BEGIN was
popped and its COMMIT was not. `Flagged` says that `flag_` knows whether it is; `Opened`
that the uncommitted writes of the session are then exactly those of this transaction;
`Whole`, `Failed` and `Committed` what is left of a transaction that is over. The last
four are needed, and true, only under the conditions above.

`CallbacksIsConnection` proves `CallbacksSpec => Spec`, and `CallbacksTransactions` draws
from it the properties that the run `txn` checks. `CallbacksTypeCorrect` and
`CallbackIdsExact` (`ReferencesExact`) hold for every number of ids, every set of ids held
by others and every first id (`CallbacksAssumption`). Their invariant adds `Tasks`: a
query has one task at most and is answered. The id to be given next is always free
(`NextRefFree`), although `CHOOSE` picks it: of finitely many free ids one is nearest.

All inductive invariants were checked with TLC on small instances before they were
proved.

### Only model-checked

* Liveness under fairness, and `ENABLED`, are out of the prover's reach:
  `MessagesArrive`, `BadEndsConnection`, `DisconnectCompletes`, `OutputMoves`,
  `InputMoves`, `ConnectAnswered`, `Flows`, `NotifyWakes`, `Executed`, `LoneCalled`.
* What the runs that end in a violation show: `Flows` with two talkers, `Ends`,
  `CommitAnswer` with failing commits, `FrameBound` at the wrap, `ExitSucceeds`.
* Deadlock freedom of `path`, `socket` and `socket_pair`.

## 5. Not modelled

* The Windows build; the vendored libraries (Lua, KCP, libcurl, the MySQL and MongoDB
  clients); byte formats, argument checks and formatting.
* In `SocketMgr`: the blocking `Connect` (no caller), `EINTR` and errors of
  `epoll_wait` itself (`WorkThread` has them: the events stay with the kernel for the
  next frame), an `EPOLL_CTL_MOD` that fails in `PostEvent` (on an open and registered
  descriptor it can do so only for want of kernel memory), UDP/KCP, `Close` at exit. Connection ids are assumed never to be
  reused, and Lua sends on a connection before it is up only in `socket_pair`, which
  has no property on delivery: such data waits for the next send or receive
  (`HandleConnect` registers EPOLLIN alone), and nothing says whether it should.
* In `Connection`: several Lua transactions interleaved on one connection, a
  reconnection that fails, and a `mysql_autocommit` that fails (its result is ignored as
  `mysql_commit`'s is; with it the statements of a transaction would be committed one by
  one).
* The MySQL pool: counters on one thread that choose a connection.
* UDP and KCP: what is delivered depends on the vendored KCP, and the engine's part is
  bookkeeping around it. `SendMsg` on a connected UDP socket keeps a reference for good.
* Connection ids: `MakeGeneralConnID` skips ids in use; that an old id in a Lua
  variable may come to mean a new connection after 2^32 of them is left aside.
* In `Lifecycle` it happens, but no property says that it must not: a script that exits
  while it is loaded is not heard, because main sets `running_` after starting the work
  thread. Left out: the log thread (`Worker` has it), Windows, what a frame does
  (`WorkThread`), how a service thread is stopped (`Worker`).
* In `Worker`: what an item does; `Semaphore` errors.
* In `WorkThread`: a wall clock that is set. `getMSTime` is `gettimeofday`, so a change
  of the clock makes timers early or late and frames short or long.

## 6. Plan

1. Proof: with one talker `Duplex` never reaches the standoff of finding 1 (both ends
   waiting for EPOLLOUT alone while the kernel's room is used up), for every `Room`;
   and the step that leads there when both talk.
2. UDP references in `SocketMgr`, with connection ids that are reused.
