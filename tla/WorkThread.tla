------------------------------ MODULE WorkThread ------------------------------
(* engine/work_thread.cpp and timer.cpp: the frames of the work thread and    *)
(* its timers.  A frame runs the queued tasks, collects the timers removed    *)
(* since the last one, walks timer_map_ and fires what is due, and gives the  *)
(* rest of its 100 ms to EventLoop.  Lua runs in tasks, timer callbacks and   *)
(* socket callbacks, and may add and remove timers in all of them.            *)
(*                                                                            *)
(* getMSTime is the real time modulo 2^32 milliseconds, here modulo Wrap.     *)
(* timer_map_ is an unordered_map: the order of the walk is arbitrary, and a  *)
(* timer added during it may make the table rehash under the iterator.        *)
EXTENDS Integers, Sequences, FiniteSets

CONSTANTS Wrap,         \* 2^32: where getMSTime starts again from 0
          StartTime,    \* the real time when the thread starts
          MaxTime,      \* bound: the real time when a behaviour ends
          WaitTime,     \* wait_time: the length of a frame
          MaxFrames,    \* bound: frames within one millisecond
          InvalidIndex, \* INVALID_INDEX: the first number that is not an id
          MaxAdded,     \* bound: timers added in one behaviour
          Intervals,    \* the intervals Lua asks for, any uint32
          Interrupted   \* whether epoll_wait may fail (a signal)

ASSUME WorkThreadAssumption == /\ Wrap \in Nat \ {0}
                               /\ StartTime \in Nat
                               /\ MaxTime \in Nat /\ StartTime <= MaxTime
                               /\ WaitTime \in Nat \ {0}
                               /\ MaxFrames \in Nat
                               /\ InvalidIndex \in Nat /\ InvalidIndex > 1
                               /\ MaxAdded \in Nat
                               /\ Intervals \subseteq 0..Wrap - 1
                               /\ Interrupted \in BOOLEAN

VARIABLES now,             \* real time, in milliseconds
          next_time,       \* when the frame ends
          timeout,         \* what EventLoop was given
          start_time,      \* when EventLoop began (real time)
          timer_map_,      \* timers by index
          del_timer_list_, \* indexes of removed timers, to be collected
          auto_timer_idx_, \* next index to try
          walk,            \* timers the walk has not come to
          pc,              \* "task", "collect", "walk", "callback", "loop", "hang"
          added,           \* ghost: timers added so far
          frames,          \* ghost: frames begun in this millisecond
          walkStart,       \* ghost: real time when the walk began
          rehashed,        \* ghost: a timer was added during the walk
          fires            \* ghost: the timer that fires in this step, or 0

timeVars == <<now, frames>>
frameVars == <<next_time, timeout, start_time>>
timerVars == <<timer_map_, del_timer_list_, auto_timer_idx_, added>>
walkVars == <<walk, walkStart, rehashed>>
vars == <<timeVars, frameVars, timerVars, walkVars, pc, fires>>

NoTimer == 0

(* getMSTime, of a wall clock that nobody sets. *)
getMSTime == now % Wrap

(* (int32)u and (int32)(a - b) on uint32 values. *)
Int32(u) == IF 2 * u >= Wrap THEN u - Wrap ELSE u
Int32Diff(a, b) == Int32((a - b) % Wrap)

(* SocketMgr is up and the init handler has run. *)
Init == /\ now = StartTime
        /\ frames = 0
        /\ next_time = (StartTime + WaitTime) % Wrap
        /\ timeout = 0
        /\ start_time = StartTime
        /\ timer_map_ = <<>>
        /\ del_timer_list_ = <<>>
        /\ auto_timer_idx_ = 1
        /\ walk = {}
        /\ pc = "task"
        /\ added = 0
        /\ walkStart = StartTime
        /\ rehashed = FALSE
        /\ fires = NoTimer

-------------------------------------------------------------------------------
(* Slips this code could have, each used to show that a property notices it. *)
DueAbsolute(t) == (now % Wrap) - t.last_time_ >= t.interval_

FiredNoReset(t) == [t EXCEPT !.fired = now]

DeleteAgain(I) ==
    /\ timer_map_' = [i \in DOMAIN timer_map_ |->
                         IF i \in I THEN [timer_map_[i] EXCEPT !.is_delete_ = TRUE]
                         ELSE timer_map_[i]]
    /\ \E s \in [1..Cardinality(I) -> I] :
         /\ \A i \in I : \E k \in DOMAIN s : s[k] = i
         /\ del_timer_list_' = del_timer_list_ \o s

MakeGeneralTimerIDAny == TRUE

-------------------------------------------------------------------------------
(* Lua, in a task, a timer callback or a socket callback. *)
InLua == pc \in {"task", "callback", "loop"}

(* MakeGeneralTimerID: while the index is taken the loop looks at it again    *)
(* and again (it counts up another variable).                                 *)
MakeGeneralTimerID == auto_timer_idx_ \notin DOMAIN timer_map_

(* add_timer.  During the walk the new timer may come up or not; a rehash     *)
(* leaves the iterator anywhere in the new table.                             *)
add_timer(interval) ==
    /\ InLua
    /\ added < MaxAdded
    /\ fires' = NoTimer
    /\ \/ /\ MakeGeneralTimerID
          /\ timer_map_' = [i \in DOMAIN timer_map_ \cup {auto_timer_idx_} |->
                IF i = auto_timer_idx_
                THEN [last_time_ |-> getMSTime, interval_ |-> interval,
                      is_delete_ |-> FALSE, fired |-> now, born |-> added + 1]
                ELSE timer_map_[i]]
          /\ auto_timer_idx_' = IF auto_timer_idx_ + 1 = InvalidIndex THEN 1
                                ELSE auto_timer_idx_ + 1
          /\ added' = added + 1
          /\ IF pc = "callback"
             THEN walk' \in SUBSET (DOMAIN timer_map_') /\ rehashed' = TRUE
             ELSE UNCHANGED <<walk, rehashed>>
          /\ UNCHANGED pc
       \/ /\ ~MakeGeneralTimerID
          /\ pc' = "hang"
          /\ UNCHANGED <<timer_map_, auto_timer_idx_, added, walk, rehashed>>
    /\ UNCHANGED <<timeVars, frameVars, del_timer_list_, walkStart>>

IsDelete(t) == t.is_delete_

(* Mark the timers and put them on the list to be collected. *)
Delete(I) ==
    LET J == {i \in I : ~IsDelete(timer_map_[i])}
    IN /\ timer_map_' = [i \in DOMAIN timer_map_ |->
                            IF i \in J THEN [timer_map_[i] EXCEPT !.is_delete_ = TRUE]
                            ELSE timer_map_[i]]
       /\ \E s \in [1..Cardinality(J) -> J] :
            /\ \A i \in J : \E k \in DOMAIN s : s[k] = i
            /\ del_timer_list_' = del_timer_list_ \o s

(* remove_timer, also of the timer whose callback this is. *)
remove_timer(i) ==
    /\ InLua
    /\ i \in DOMAIN timer_map_
    /\ Delete({i})
    /\ fires' = NoTimer
    /\ UNCHANGED <<timeVars, frameVars, auto_timer_idx_, added, walkVars, pc>>

stop_all_timer ==
    /\ InLua
    /\ Delete(DOMAIN timer_map_)
    /\ fires' = NoTimer
    /\ UNCHANGED <<timeVars, frameVars, auto_timer_idx_, added, walkVars, pc>>

(* Time passes while Lua runs and while EventLoop waits. *)
Tick == /\ InLua
        /\ now < MaxTime
        /\ now' = now + 1
        /\ frames' = 0
        /\ fires' = NoTimer
        /\ UNCHANGED <<frameVars, timerVars, walkVars, pc>>

-------------------------------------------------------------------------------
(* WorkThread::Run *)

(* The queued tasks are done. *)
TasksDone == /\ pc = "task"
             /\ pc' = "collect"
             /\ fires' = NoTimer
             /\ UNCHANGED <<timeVars, frameVars, timerVars, walkVars>>

(* The removed timers are erased and deleted; the walk begins. *)
Collect ==
    /\ pc = "collect"
    /\ LET gone == {del_timer_list_[k] : k \in DOMAIN del_timer_list_}
           left == DOMAIN timer_map_ \ gone
       IN /\ timer_map_' = [i \in left |-> timer_map_[i]]
          /\ walk' = left
    /\ del_timer_list_' = <<>>
    /\ walkStart' = now
    /\ rehashed' = FALSE
    /\ pc' = "walk"
    /\ fires' = NoTimer
    /\ UNCHANGED <<timeVars, frameVars, auto_timer_idx_, added>>

(* IntervalTimer::Update: is it due, and if so since when it counts again.    *)
(* The interval is cast too: one of half the range or more is negative.       *)
Due(t) == Int32Diff(getMSTime, t.last_time_) >= Int32(t.interval_)

Fired(t) == [t EXCEPT !.last_time_ = getMSTime, !.fired = now]

(* The walk comes to a timer. *)
Visit(i) ==
    /\ pc = "walk"
    /\ i \in walk
    /\ walk' = walk \ {i}
    /\ IF ~IsDelete(timer_map_[i]) /\ Due(timer_map_[i])
       THEN /\ timer_map_' = [timer_map_ EXCEPT ![i] = Fired(@)]
            /\ fires' = i
            /\ pc' = "callback"
       ELSE /\ fires' = NoTimer
            /\ UNCHANGED <<timer_map_, pc>>
    /\ UNCHANGED <<timeVars, frameVars, del_timer_list_, auto_timer_idx_, added, walkStart, rehashed>>

CallbackReturns == /\ pc = "callback"
                   /\ pc' = "walk"
                   /\ fires' = NoTimer
                   /\ UNCHANGED <<timeVars, frameVars, timerVars, walkVars>>

(* What is left of the frame: the uint32 difference, stored in an int32. *)
FrameTimeout == IF next_time > getMSTime THEN Int32Diff(next_time, getMSTime) ELSE 0

EnterLoop == /\ pc = "walk"
             /\ walk = {}
             /\ timeout' = FrameTimeout
             /\ start_time' = now
             /\ pc' = "loop"
             /\ fires' = NoTimer
             /\ UNCHANGED <<timeVars, next_time, timerVars, walkVars>>

(* EventLoop returns when its time is up and no socket has anything, and at   *)
(* once when epoll_wait fails.                                                *)
LoopReturns == /\ pc = "loop"
               /\ now - start_time >= timeout \/ Interrupted
               /\ frames < MaxFrames
               /\ frames' = frames + 1
               /\ next_time' = (next_time + WaitTime) % Wrap
               /\ pc' = "task"
               /\ fires' = NoTimer
               /\ UNCHANGED <<now, timeout, start_time, timerVars, walkVars>>

Next == \/ \E interval \in Intervals : add_timer(interval)
        \/ \E i \in DOMAIN timer_map_ : remove_timer(i)
        \/ stop_all_timer
        \/ Tick
        \/ TasksDone \/ Collect
        \/ \E i \in walk : Visit(i)
        \/ CallbackReturns \/ EnterLoop \/ LoopReturns

Spec == Init /\ [][Next]_vars

-------------------------------------------------------------------------------
(* IntervalTimer, with two ghosts: when, in real time, it was added or fired  *)
(* last, and its number among the timers added.                               *)
Timer == [last_time_ : 0..Wrap - 1, interval_ : Intervals, is_delete_ : BOOLEAN,
          fired : StartTime..MaxTime, born : 1..MaxAdded]

(* The types of WorkThread's and Timer's fields; the walk is over timers that *)
(* exist.                                                                     *)
TypeOK == /\ now \in StartTime..MaxTime
          /\ next_time \in 0..Wrap - 1
          /\ timeout \in -Wrap..Wrap
          /\ start_time \in StartTime..MaxTime
          /\ DOMAIN timer_map_ \subseteq 1..InvalidIndex - 1
          /\ \A i \in DOMAIN timer_map_ : timer_map_[i] \in Timer
          /\ del_timer_list_ \in Seq(1..InvalidIndex - 1)
          /\ auto_timer_idx_ \in 1..InvalidIndex - 1
          /\ added \in 0..MaxAdded
          /\ walk \subseteq DOMAIN timer_map_
          /\ pc \in {"task", "collect", "walk", "callback", "loop", "hang"}
          /\ fires \in 0..InvalidIndex - 1

(* remove_timer, stop_all_timer and the collection: a timer is on the list    *)
(* exactly once from its removal until it is collected, so it is deleted once *)
(* and while nothing walks over it.                                           *)
DeletedOnce ==
    /\ \A j, k \in DOMAIN del_timer_list_ : del_timer_list_[j] = del_timer_list_[k] => j = k
    /\ {del_timer_list_[k] : k \in DOMAIN del_timer_list_}
         = {i \in DOMAIN timer_map_ : timer_map_[i].is_delete_}

(* MakeGeneralTimerID, add_timer and the collection: the index that Lua was   *)
(* given names its timer until Lua removes it.  The timer is not lost, nor    *)
(* overwritten by a later one when the indexes have gone round, nor collected *)
(* in place of an earlier one with the same index.                            *)
IndexKept == [][\A i \in DOMAIN timer_map_ :
    ~timer_map_[i].is_delete_
        => i \in DOMAIN timer_map_' /\ timer_map_'[i].born = timer_map_[i].born]_vars

(* IntervalTimer::Update: a timer fires no sooner than its interval after it  *)
(* was added or fired last, by real time, if the interval is less than half   *)
(* the range of getMSTime (24 days); a longer one is always due.              *)
NotEarly == [][fires' # NoTimer /\ 2 * timer_map_[fires'].interval_ < Wrap
                 => now - timer_map_[fires'].fired >= timer_map_[fires'].interval_]_vars

(* The walk leaves no timer behind: when EventLoop is entered, every timer    *)
(* that was due when the walk began has fired since, unless a callback added  *)
(* timers.                                                                    *)
InTime(t) == \/ t.is_delete_
             \/ t.fired >= walkStart
             \/ walkStart - t.fired < t.interval_

NoneOverdue == pc = "loop" /\ ~rehashed => \A i \in DOMAIN timer_map_ : InTime(timer_map_[i])

(* "100 ms per frame": EventLoop is never given more than one frame. *)
FrameBound == pc = "loop" => timeout <= WaitTime
===============================================================================
