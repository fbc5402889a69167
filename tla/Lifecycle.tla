------------------------------ MODULE Lifecycle ------------------------------
(* Start and exit of the process on Linux: main (crossover/main.cpp), the     *)
(* console thread (console_poller.cpp), the work thread with its Lua program  *)
(* (work_thread.cpp, lua_crossover.cpp) and one service thread that Lua       *)
(* starts, with what they share: running_, the scheduler's thread references, *)
(* the task list and SocketMgr's wakeup_s_ and epoll_fd_.                     *)
(*                                                                            *)
(* A step is what one thread does between two points where another may come   *)
(* in.  Using wakeup_s_ before Init or after Close is a read through a        *)
(* pointer that is not set, freed or null; when the process dies of it,       *)
(* crashed is true.  How a service thread is told to stop is Worker, what a   *)
(* frame does WorkThread.                                                     *)
EXTENDS Naturals

CONSTANT MaxTasks   \* bound: tasks waiting when the console or the service adds one

VARIABLES main,             \* where main is
          work,             \* where the work thread is
          console,          \* where the console thread is
          service,          \* where the service thread is
          running_,         \* main's flag, which lua_exit clears
          work_running,     \* WorkThread's is_running_
          console_running,  \* ConsolePoller's is_running_
          service_running,  \* the service's is_running_
          thread_name_map_, \* threads counted by the scheduler
          wakeup_s_,        \* "none" before Init, "live", "null" after Close
          epoll_fd_,        \* "none", "open", "closed"
          tasks,            \* length of task_list_
          crashed           \* a bad pointer was used

threads == <<main, work, console, service>>
flags == <<running_, work_running, console_running, service_running>>
shared == <<thread_name_map_, wakeup_s_, epoll_fd_, tasks, crashed>>
vars == <<threads, flags, shared>>

Init == /\ main = "start" /\ work = "none" /\ console = "none" /\ service = "none"
        /\ running_ = FALSE /\ work_running = FALSE
        /\ console_running = FALSE /\ service_running = FALSE
        /\ thread_name_map_ = {}
        /\ wakeup_s_ = "none" /\ epoll_fd_ = "none"
        /\ tasks = 0
        /\ crashed = FALSE

(* ::write(wakeup_s_->GetFd(), ...): the constructor leaves wakeup_s_ as it   *)
(* finds it, Close sets it to NULL.                                           *)
WakeUp == crashed' \in CASE wakeup_s_ = "live" -> {FALSE}
                         [] wakeup_s_ = "none" -> BOOLEAN
                         [] wakeup_s_ = "null" -> {TRUE}

(* add_thread_ref and remove_thread_ref. *)
add_thread_ref(name) == thread_name_map_' = thread_name_map_ \cup {name}
remove_thread_ref(name) == thread_name_map_' = thread_name_map_ \ {name}

-------------------------------------------------------------------------------
(* main *)

(* Scheduler_impl::startup *)
MainStartup == /\ main = "start"
               /\ main' = "console"
               /\ work' = "new" /\ work_running' = TRUE
               /\ UNCHANGED <<console, service, running_, console_running, service_running, shared>>

MainConsole == /\ main = "console"
               /\ main' = "flag"
               /\ console' = "new" /\ console_running' = TRUE
               /\ UNCHANGED <<work, service, running_, work_running, service_running, shared>>

MainFlag == /\ main = "flag"
            /\ running_' = TRUE
            /\ main' = "loop"
            /\ UNCHANGED <<work, console, service, work_running, console_running, service_running, shared>>

(* while (running_) SleepMs(200); then ConsolePoller::Stop. *)
MainStop == /\ main = "loop"
            /\ ~running_
            /\ console_running' = FALSE
            /\ main' = "shutdown"
            /\ UNCHANGED <<work, console, service, running_, work_running, service_running, shared>>

(* Scheduler_impl::shutdown: first SocketMgr::Close ... *)
MainClose == /\ main = "shutdown"
             /\ wakeup_s_' = IF wakeup_s_ = "live" THEN "null" ELSE wakeup_s_
             /\ epoll_fd_' = IF epoll_fd_ = "open" THEN "closed" ELSE epoll_fd_
             /\ main' = "stop work"
             /\ UNCHANGED <<work, console, service, flags, thread_name_map_, tasks, crashed>>

(* ... then WorkThread::Shutdown, which clears the flag and wakes the thread. *)
MainStopWork == /\ main = "stop work"
                /\ work_running' = FALSE
                /\ main' = "wake work"
                /\ UNCHANGED <<work, console, service, running_, console_running, service_running, shared>>

MainWakeWork == /\ main = "wake work"
                /\ WakeUp
                /\ main' = "wait"
                /\ UNCHANGED <<work, console, service, flags, thread_name_map_, wakeup_s_, epoll_fd_, tasks>>

(* get_thread_count() is 0; "exit success!" *)
MainExit == /\ main = "wait"
            /\ thread_name_map_ = {}
            /\ main' = "done"
            /\ UNCHANGED <<work, console, service, flags, shared>>

Main == \/ MainStartup \/ MainConsole \/ MainFlag \/ MainStop
        \/ MainClose \/ MainStopWork \/ MainWakeWork \/ MainExit

-------------------------------------------------------------------------------
(* The work thread *)

WorkStart == /\ work = "new"
             /\ add_thread_ref("work")
             /\ work' = "init"
             /\ UNCHANGED <<main, console, service, flags, wakeup_s_, epoll_fd_, tasks, crashed>>

(* SocketMgr::Init, then the init handler runs the Lua script. *)
WorkInit == /\ work = "init"
            /\ wakeup_s_' = "live" /\ epoll_fd_' = "open"
            /\ work' = "script"
            /\ UNCHANGED <<main, console, service, flags, thread_name_map_, tasks, crashed>>

(* Lua, in the script, a task or a timer: crossover.stop, crossover.exit,     *)
(* opening a service and shutting it down.  A program calls exit when it has  *)
(* shut its service down, which nobody else does; when that is before main    *)
(* sets running_, the call is lost.                                           *)
lua_stop == /\ work \in {"script", "lua"}
            /\ console_running' = FALSE
            /\ UNCHANGED <<threads, running_, work_running, service_running, shared>>

lua_exit == /\ work \in {"script", "lua"}
            /\ ~service_running
            /\ running_' = FALSE
            /\ UNCHANGED <<threads, work_running, console_running, service_running, shared>>

lua_initialize == /\ work \in {"script", "lua"}
                  /\ service = "none"
                  /\ running_ \/ main \in {"console", "flag"}
                  /\ service' = "new" /\ service_running' = TRUE
                  /\ UNCHANGED <<main, work, console, running_, work_running, console_running, shared>>

lua_shutdown == /\ work \in {"script", "lua"}
                /\ service_running
                /\ service_running' = FALSE
                /\ UNCHANGED <<threads, running_, work_running, console_running, shared>>

(* The tasks and timers of a frame are through. *)
WorkLuaDone == /\ work = "lua"
               /\ tasks' = 0
               /\ work' = "wait"
               /\ UNCHANGED <<main, console, service, flags, thread_name_map_, wakeup_s_, epoll_fd_, crashed>>

(* EventLoop: epoll_wait reports wakeup_s_ ... *)
WorkWoken == /\ work = "wait"
             /\ epoll_fd_ = "open"
             /\ work' = "woken"
             /\ UNCHANGED <<main, console, service, flags, shared>>

(* ... and is looked at afterwards: once deleted, as a socket that is gone. *)
WorkReadsWakeUp == /\ work = "woken"
                   /\ crashed' \in IF wakeup_s_ = "live" THEN {FALSE} ELSE BOOLEAN
                   /\ work' = "wait"
                   /\ UNCHANGED <<main, console, service, flags, thread_name_map_, wakeup_s_, epoll_fd_, tasks>>

(* while (is_running_): after the script, and when the time of the frame is   *)
(* up or epoll_wait fails on the closed epoll_fd_.                            *)
WorkFrame == /\ work \in {"script", "wait"}
             /\ work' = IF work_running THEN "lua" ELSE "exited"
             /\ IF work_running THEN UNCHANGED thread_name_map_ ELSE remove_thread_ref("work")
             /\ UNCHANGED <<main, console, service, flags, wakeup_s_, epoll_fd_, tasks, crashed>>

Work == \/ WorkStart \/ WorkInit \/ WorkLuaDone
        \/ WorkWoken \/ WorkReadsWakeUp \/ WorkFrame

Lua == lua_stop \/ lua_exit \/ lua_initialize \/ lua_shutdown

-------------------------------------------------------------------------------
(* The console thread and the service thread.  Each counts itself, gives the  *)
(* work thread tasks (PushTask: push, then WakeUp) and ends when it is told.  *)
ConsoleStart == /\ console = "new"
                /\ add_thread_ref("console")
                /\ console' = "poll"
                /\ UNCHANGED <<main, work, service, flags, wakeup_s_, epoll_fd_, tasks, crashed>>

(* A line was typed. *)
ConsolePush == /\ console = "poll"
               /\ tasks < MaxTasks
               /\ tasks' = tasks + 1
               /\ console' = "push"
               /\ UNCHANGED <<main, work, service, flags, thread_name_map_, wakeup_s_, epoll_fd_, crashed>>

ConsoleWakes == /\ console = "push"
                /\ WakeUp
                /\ console' = "poll"
                /\ UNCHANGED <<main, work, service, flags, thread_name_map_, wakeup_s_, epoll_fd_, tasks>>

(* is_running_ is cleared and poll times out, or standard input ends. *)
ConsoleEnds == /\ console = "poll"
               /\ console' = "exited"
               /\ remove_thread_ref("console")
               /\ UNCHANGED <<main, work, service, flags, wakeup_s_, epoll_fd_, tasks, crashed>>

ServiceStart == /\ service = "new"
                /\ add_thread_ref("service")
                /\ service' = "work"
                /\ UNCHANGED <<main, work, console, flags, wakeup_s_, epoll_fd_, tasks, crashed>>

ServicePush == /\ service = "work"
               /\ tasks < MaxTasks
               /\ tasks' = tasks + 1
               /\ service' = "push"
               /\ UNCHANGED <<main, work, console, flags, thread_name_map_, wakeup_s_, epoll_fd_, crashed>>

ServiceWakes == /\ service = "push"
                /\ WakeUp
                /\ service' = "work"
                /\ UNCHANGED <<main, work, console, flags, thread_name_map_, wakeup_s_, epoll_fd_, tasks>>

ServiceEnds == /\ service = "work"
               /\ ~service_running
               /\ service' = "exited"
               /\ remove_thread_ref("service")
               /\ UNCHANGED <<main, work, console, flags, wakeup_s_, epoll_fd_, tasks, crashed>>

Console == ConsoleStart \/ ConsoleWakes \/ ConsoleEnds

Service == ServiceStart \/ ServiceWakes \/ ServiceEnds

Next == ~crashed /\ (Main \/ Work \/ Lua \/ Console \/ ConsolePush \/ Service \/ ServicePush)

Spec == Init /\ [][Next]_vars

(* Every thread goes on until the process dies. *)
FairSpec == /\ Spec
            /\ WF_vars(~crashed /\ Main)
            /\ WF_vars(~crashed /\ WorkLuaDone)
            /\ SF_vars(~crashed /\ WorkFrame)
            /\ WF_vars(~crashed /\ (WorkStart \/ WorkInit \/ WorkReadsWakeUp))
            /\ SF_vars(~crashed /\ ConsoleEnds) /\ WF_vars(~crashed /\ Console)
            /\ SF_vars(~crashed /\ ServiceEnds) /\ WF_vars(~crashed /\ Service)

-------------------------------------------------------------------------------
(* main, after the loop: "wait for the other threads to exit, the main thread *)
(* exits last" and then logs "exit success!".                                 *)
ExitSucceeds == main = "shutdown" ~> main = "done"
===============================================================================
