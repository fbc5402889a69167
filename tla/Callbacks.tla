------------------------------- MODULE Callbacks -------------------------------
(* A MySQL query with its Lua callback.  Lua and C++ share functions by id    *)
(* (engine/lua_fix.cpp): lua_mysql_add_query enters the callback under a new  *)
(* id and queues the id with the query; the connection thread passes it on    *)
(* in a DBTask; the work thread calls the function, and releases the id when  *)
(* it deletes the task.  The ids of parameters are handled in the same way.   *)
EXTENDS Connection

CONSTANTS MaxRef,    \* the last id, 0x7fffffff
          HeldRefs,  \* ids of functions that are never released, a timer's say
          FirstRef   \* the id to be given next when the model starts

ASSUME CallbacksAssumption == /\ MaxRef \in Nat \ {0}
                              /\ HeldRefs \subseteq 1..MaxRef
                              /\ FirstRef \in 1..MaxRef \ HeldRefs

VARIABLES s_function_id_map, \* ids in use, with whose function it is
          s_function_ref_id, \* the next id
          handler,           \* the id a queued query or a DBTask carries
          task_list_,        \* DBTasks, by the query they answer
          called             \* queries whose callback was called

refVars == <<s_function_id_map, s_function_ref_id>>
callVars == <<refVars, handler, task_list_, called>>

(* Whose function an id stands for: a query's, or one of these. *)
NoFunction == 0
HeldFunction == MaxQueries + 1
RefusedFunction == MaxQueries + 2

Refs == 1..MaxRef

CallbacksInit ==
    /\ Init
    /\ s_function_id_map = [i \in Refs |-> IF i \in HeldRefs THEN HeldFunction ELSE NoFunction]
    /\ s_function_ref_id = FirstRef
    /\ handler = [i \in 1..MaxQueries |-> 0]
    /\ task_list_ = <<>>
    /\ called = {}

-------------------------------------------------------------------------------
(* Slips this code could have, each used to show that a property notices it. *)
NextRefInOrder(ids, i) == (i % MaxRef) + 1

-------------------------------------------------------------------------------
(* lua_fix.cpp. *)
(* The first free id after i, going round at MaxRef. *)
Free(ids) == {j \in Refs : ids[j] = NoFunction}
Distance(i, j) == (j + MaxRef - i) % MaxRef
NextRef(ids, i) == CHOOSE j \in Free(ids) :
    \A k \in Free(ids) : Distance(i, j) <= Distance(i, k)

(* f is entered under the id found the last time, and the next one is looked  *)
(* for.  Bound: some other id is free; otherwise the search does not end,     *)
(* which takes 2^31 functions.                                                *)
toluafix_ref_function(f) ==
    /\ Cardinality(Free(s_function_id_map)) > 1
    /\ s_function_id_map' = [s_function_id_map EXCEPT ![s_function_ref_id] = f]
    /\ s_function_ref_id' = NextRef(s_function_id_map', s_function_ref_id)

toluafix_remove_function_by_refid(i) ==
    /\ s_function_id_map' = [s_function_id_map EXCEPT ![i] = NoFunction]
    /\ UNCHANGED s_function_ref_id

-------------------------------------------------------------------------------
(* lua_mysql_add_query and lua_mysql_insert_first_query.  Bound: MaxQueries,   *)
(* of which one may be refused.                                               *)
Refused == \E i \in Refs : s_function_id_map[i] = RefusedFunction
QueriesLeft == Cardinality(queries) + (IF Refused THEN 1 ELSE 0) < MaxQueries

QueueQuery == /\ QueriesLeft
              /\ \/ \E flag \in {"NONE", "BEGIN", "COMMIT"} : AddQuery(flag)
                 \/ InsertFristQuery
              /\ toluafix_ref_function(NextId)
              /\ handler' = [handler EXCEPT ![NextId] = s_function_ref_id]
              /\ UNCHANGED <<task_list_, called>>

(* AddQuery refuses: the connection is shut down, or Lua asks for a ROLLBACK. *)
(* The query is dropped, its function stays.                                  *)
RefusedQuery == /\ \E flag \in Flags : ~is_running_ \/ flag = "ROLLBACK"
                /\ QueriesLeft /\ ~Refused
                /\ toluafix_ref_function(RefusedFunction)
                /\ UNCHANGED <<vars, handler, task_list_, called>>

(* Run deletes the query of a failed transaction; its function stays. *)
Discarded == /\ Discard
             /\ handler' = [handler EXCEPT ![Head(query_list_).id] = 0]
             /\ UNCHANGED <<refVars, task_list_, called>>

(* Run pushes a DBTask with the query's handler and its result. *)
PushTask == /\ \E q \in queries : /\ ExecuteOk(q) \/ ExecuteFails(q)
                                  /\ task_list_' = Append(task_list_, q.id)
            /\ UNCHANGED <<refVars, handler, called>>

RunOther == /\ RunPing \/ PopEmpty \/ WaitBegin \/ WaitReturns
            /\ UNCHANGED callVars

(* The work thread: DBTask::process calls the function its id stands for ... *)
ProcessTask == /\ task_list_ # <<>>
               /\ LET f == s_function_id_map[handler[Head(task_list_)]]
                  IN /\ f \notin called
                     /\ called' = called \cup {f}
               /\ UNCHANGED <<vars, refVars, handler, task_list_>>

(* ... and deleting the task, after the callback returned, releases the id. *)
DeleteTask == /\ task_list_ # <<>> /\ Head(task_list_) \in called
              /\ toluafix_remove_function_by_refid(handler[Head(task_list_)])
              /\ handler' = [handler EXCEPT ![Head(task_list_)] = 0]
              /\ task_list_' = Tail(task_list_)
              /\ UNCHANGED <<vars, called>>

ConnectionThread == Discarded \/ PushTask \/ RunOther
WorkThreadTask == ProcessTask \/ DeleteTask

CallbacksNext == \/ QueueQuery \/ RefusedQuery
                 \/ (Ping \/ Shutdown \/ LoseSession) /\ UNCHANGED callVars
                 \/ ConnectionThread
                 \/ WorkThreadTask

(* Both threads keep running, and Lua pings the connection again and again. *)
CallbacksSpec == /\ CallbacksInit
                 /\ [][CallbacksNext]_<<vars, callVars>>
                 /\ WF_<<vars, callVars>>(ConnectionThread)
                 /\ WF_<<vars, callVars>>(WorkThreadTask)
                 /\ WF_<<vars, callVars>>(Ping /\ UNCHANGED callVars)

-------------------------------------------------------------------------------
(* The types, those of the connection included. *)
CallbacksTypeOK ==
    /\ TypeOK
    /\ s_function_id_map \in [Refs -> 0..MaxQueries + 2]
    /\ s_function_ref_id \in Refs
    /\ handler \in [1..MaxQueries -> 0..MaxRef]
    /\ task_list_ \in Seq(1..MaxQueries)
    /\ called \subseteq 1..MaxQueries

(* Queries queued or answered, and not yet through with. *)
Waiting == {q.id : q \in ToSet(query_list_) \ {PingQuery}} \cup ToSet(task_list_)
Abandoned == {q.id : q \in {x \in queries : answer[x.id] = "none"}} \ Waiting

(* lua_fix.cpp: a query that waits, or its task, holds an id that stands for  *)
(* its own callback and for nothing else, whatever ids are given out and      *)
(* released meanwhile; the functions that are never released keep theirs; and *)
(* of the others only the functions of discarded and refused queries are left. *)
ReferencesExact ==
    /\ \A i \in Waiting : handler[i] \in Refs /\ s_function_id_map[handler[i]] = i
    /\ \A r \in HeldRefs : s_function_id_map[r] = HeldFunction
    /\ \A r \in Refs : s_function_id_map[r] \in 1..MaxQueries =>
         LET i == s_function_id_map[r]
         IN (i \in Waiting /\ handler[i] = r) \/ i \in Abandoned
    /\ s_function_id_map[s_function_ref_id] = NoFunction

(* Run, PushTask and DBTask::process: on a connection that is pinged, the     *)
(* callback of every query outside transactions is called, whatever           *)
(* transactions fail before it and whatever Notify is lost, unless the        *)
(* connection is shut down.  (As Lua queues no more than MaxQueries, this is  *)
(* said of all of them at once.)                                              *)
LoneCalled == <>[](is_running_ => \A q \in queries : Alone(q) => q.id \in called)
===============================================================================
