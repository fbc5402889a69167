-------------------------------- MODULE Worker --------------------------------
(* A service thread with its SafeQueue and its Event (engine/event.cpp, the   *)
(* POSIX build): Connection::Run, MongoConnection::Run, HTTPAccessor_impl::Run *)
(* and CLog::Run.  A caller pushes an item and calls Notify, which posts the  *)
(* semaphore only if is_block_ says that the service thread waits.            *)
(*                                                                            *)
(* Every access to the queue is under its mutex and every access to is_block_ *)
(* under lock_, so each is one step; between two of them the other thread     *)
(* may run.  The callers are one thread: Lua, on the work thread, for the     *)
(* database and HTTP services; for the log, whoever holds CLog's mutex, and   *)
(* in the end main.                                                           *)
EXTENDS Naturals, Sequences

CONSTANTS Services,  \* the service threads of this instance
          Pinged,    \* those that the program pings again and again
          MaxItems,  \* bound: items pushed
          MaxQueue,  \* bound: length of the queue when a ping is pushed
          MaxPosts   \* bound: value of the semaphore when an item is pushed

ASSUME WorkerAssumption == /\ Services \subseteq {"mysql", "mongo", "http", "log"}
                           /\ Pinged \subseteq Services \cap {"mysql", "mongo"}
                           /\ MaxItems \in Nat
                           /\ MaxQueue \in Nat
                           /\ MaxPosts \in Nat \ {0}

VARIABLES service,      \* which of the threads this is
          query_list_,  \* the SafeQueue: items 1, 2, ... and pings
          is_running_,
          is_block_,    \* Event: the service thread says that it waits
          event_,       \* Event: the semaphore
          worker,       \* where the service thread is
          item,         \* what it works on
          done,         \* items it has finished, in order
          pushed,       \* items pushed so far
          inserted,     \* ghost: the items that were put in front, with how
                        \* many items were taken before
          caller        \* "idle", "notify" (pushed, about to wake the service),
                        \* "stopping", or "waits" for the thread to exit

eventVars == <<is_block_, event_>>
workerVars == <<worker, item, done>>
callerVars == <<is_running_, pushed, inserted, caller>>
vars == <<service, query_list_, eventVars, workerVars, callerVars>>

Ping == 0
None == MaxItems + 1

(* CLog::Run waits before it looks at its queue, the others after. *)
WaitFirst == service = "log"

Init == /\ service \in Services
        /\ query_list_ = <<>>
        /\ is_block_ = TRUE /\ event_ = 0
        /\ worker = "check" /\ item = None /\ done = <<>>
        /\ is_running_ = TRUE /\ pushed = 0 /\ inserted = <<>> /\ caller = "idle"

-------------------------------------------------------------------------------
(* Slips this code could have, each used to show that a property notices it. *)
WaitBeginNoFlag == /\ worker = "wait"
                   /\ is_block_' = FALSE
                   /\ worker' = "blocked"
                   /\ UNCHANGED <<query_list_, event_, item, done, callerVars>>

PopKeepsItem == /\ worker = "pop"
                /\ query_list_ # <<>>
                /\ item' = Head(query_list_)
                /\ worker' = "work"
                /\ UNCHANGED <<query_list_, eventVars, done, callerVars>>

-------------------------------------------------------------------------------
(* The service thread. *)

(* while (is_running_) *)
Check == /\ worker = "check"
         /\ worker' = IF ~is_running_ THEN "exited"
                      ELSE IF WaitFirst THEN "wait" ELSE "pop"
         /\ UNCHANGED <<query_list_, eventVars, item, done, callerVars>>

(* while (query_list_.pop(query)) *)
Pop == /\ worker = "pop"
       /\ query_list_ # <<>>
       /\ item' = Head(query_list_)
       /\ query_list_' = Tail(query_list_)
       /\ worker' = "work"
       /\ UNCHANGED <<eventVars, done, callerVars>>

PopEmpty == /\ worker = "pop"
            /\ query_list_ = <<>>
            /\ worker' = IF WaitFirst THEN "check" ELSE "wait"
            /\ UNCHANGED <<query_list_, eventVars, item, done, callerVars>>

(* The item is executed and answered; what a ping answers nobody reads. *)
Work == /\ worker = "work"
        /\ done' = IF item = Ping THEN done ELSE Append(done, item)
        /\ item' = None
        /\ worker' = "pop"
        /\ UNCHANGED <<query_list_, eventVars, callerVars>>

(* Event::Wait: announce, wait for the semaphore, take the announcement back. *)
WaitBegin == /\ worker = "wait"
             /\ is_block_' = TRUE
             /\ worker' = "blocked"
             /\ UNCHANGED <<query_list_, event_, item, done, callerVars>>

SemWait == /\ worker = "blocked"
           /\ event_ > 0
           /\ event_' = event_ - 1
           /\ worker' = "woken"
           /\ UNCHANGED <<query_list_, is_block_, item, done, callerVars>>

WaitEnd == /\ worker = "woken"
           /\ is_block_' = FALSE
           /\ worker' = IF WaitFirst THEN "pop" ELSE "check"
           /\ UNCHANGED <<query_list_, event_, item, done, callerVars>>

WorkerStep == Check \/ Pop \/ PopEmpty \/ Work \/ WaitBegin \/ SemWait \/ WaitEnd

-------------------------------------------------------------------------------
(* The callers. *)

(* Event::Notify. *)
Notify == /\ event_' = IF is_block_ THEN event_ + 1 ELSE event_
          /\ UNCHANGED is_block_

(* SafeQueue::push_back or push_front; the WakeUp that follows is the next    *)
(* step.                                                                      *)
Push(list) == /\ caller = "idle"
              /\ event_ < MaxPosts
              /\ query_list_' = list
              /\ caller' = "notify"
              /\ UNCHANGED <<eventVars, workerVars, is_running_>>

(* Connection::AddQuery refuses when stopped; the others do not look. *)
PushItem == /\ pushed < MaxItems
            /\ service = "mysql" => is_running_
            /\ Push(Append(query_list_, pushed + 1))
            /\ pushed' = pushed + 1
            /\ UNCHANGED inserted

(* What the thread has taken from the queue, pings apart. *)
InHand == IF item \in {Ping, None} THEN <<>> ELSE <<item>>
Taken == done \o InHand

(* Connection::InsertFristQuery; the other services have nothing like it. *)
PushFirst == /\ service = "mysql"
             /\ pushed < MaxItems
             /\ is_running_
             /\ Push(<<pushed + 1>> \o query_list_)
             /\ pushed' = pushed + 1
             /\ inserted' = [i \in DOMAIN inserted \cup {pushed + 1} |->
                               IF i = pushed + 1 THEN Len(Taken) ELSE inserted[i]]

(* The bound keeps no ping from a thread that sleeps: one more is room enough *)
(* for the push that wakes it.                                                *)
PushPing == /\ service \in Pinged
            /\ \/ Len(query_list_) < MaxQueue
               \/ /\ worker = "blocked" /\ event_ = 0
                  /\ Len(query_list_) <= MaxQueue + MaxItems
            /\ Push(Append(query_list_, Ping))
            /\ UNCHANGED <<pushed, inserted>>

WakeUp == /\ caller = "notify"
          /\ Notify
          /\ caller' = "idle"
          /\ UNCHANGED <<query_list_, workerVars, is_running_, pushed, inserted>>

(* Shutdown and Close wake the thread, CLog::StopWaitExit does not; main      *)
(* stops the log when it has logged its last words and called Save.           *)
Stop == /\ caller = "idle"
        /\ is_running_
        /\ WaitFirst => pushed = MaxItems
        /\ is_running_' = FALSE
        /\ caller' = IF WaitFirst THEN "waits" ELSE "stopping"
        /\ UNCHANGED <<query_list_, eventVars, workerVars, pushed, inserted>>

StopWakeUp == /\ caller = "stopping"
              /\ Notify
              /\ caller' = "idle"
              /\ UNCHANGED <<query_list_, workerVars, is_running_, pushed, inserted>>

Step == WorkerStep \/ PushItem \/ PushFirst \/ PushPing \/ WakeUp \/ Stop \/ StopWakeUp

Next == Step /\ UNCHANGED service

Spec == Init /\ [][Next]_vars

(* Both threads keep running, and a pinging program pings again and again. *)
Fairness == /\ WF_vars(WorkerStep /\ UNCHANGED service)
            /\ WF_vars(WakeUp /\ UNCHANGED service)
            /\ WF_vars(StopWakeUp /\ UNCHANGED service)
            /\ WF_vars(PushPing /\ UNCHANGED service)

FairSpec == Spec /\ Fairness

-------------------------------------------------------------------------------
(* The types of Event, SafeQueue and the loops' state; the semaphore stays    *)
(* between zero and the posts the bound allows.                              *)
TypeOK == /\ service \in Services
          /\ query_list_ \in Seq(0..MaxItems)
          /\ is_running_ \in BOOLEAN
          /\ is_block_ \in BOOLEAN
          /\ event_ \in 0..MaxPosts + 1
          /\ worker \in {"check", "pop", "work", "wait", "blocked", "woken", "exited"}
          /\ item \in 0..None
          /\ done \in Seq(1..MaxItems)
          /\ pushed \in 0..MaxItems
          /\ inserted \in [DOMAIN inserted -> Nat] /\ DOMAIN inserted \subseteq 1..pushed
          /\ caller \in {"idle", "notify", "stopping", "waits"}

(* The items that are done, in hand and queued. *)
Line == Taken \o query_list_

(* SafeQueue and the Run loops: every item pushed is in the line exactly      *)
(* once; an item comes before one pushed earlier only if it was put in front; *)
(* and an item put in front comes before all that was not taken yet.          *)
InOrder ==
    /\ \A i \in 1..pushed : \E k \in DOMAIN Line : Line[k] = i
    /\ \A j, k \in DOMAIN Line : j < k /\ Ping \notin {Line[j], Line[k]} =>
         /\ Line[j] # Line[k]
         /\ Line[j] > Line[k] => Line[j] \in DOMAIN inserted
         /\ Line[j] < Line[k] /\ Line[k] \in DOMAIN inserted => j <= inserted[Line[k]]

Done == {done[k] : k \in DOMAIN done}

(* Event::Wait/Notify: an item pushed while the thread sleeps, and every item *)
(* before it, is executed, unless the service is stopped.                    *)
NotifyWakes == \A i \in 1..MaxItems :
    (pushed = i /\ caller = "notify" /\ worker = "blocked")
        ~> (1..i \subseteq Done \/ ~is_running_)

(* Notify may come between the last pop and Wait and be lost, but a later     *)
(* ping finds the thread asleep: on a connection that is pinged every query   *)
(* is executed, unless the service is stopped.                                *)
Executed == \A i \in 1..MaxItems :
    (service \in Pinged /\ pushed >= i) ~> (i \in Done \/ ~is_running_)

(* Shutdown, Close, StopWaitExit: a stopped service thread ends. *)
Ends == ~is_running_ ~> worker = "exited"
===============================================================================
