---------------------------- MODULE Callbacks_proofs ----------------------------
(* Proofs about the ids of the Lua callbacks of MySQL queries, for every      *)
(* number of ids and queries.                                                 *)
EXTENDS Callbacks, Connection_proofs

-------------------------------------------------------------------------------
(* A connection with callbacks is a connection. *)

(* Every step is one of the connection, or none. *)
LEMMA CallbacksStep == [CallbacksNext]_<<vars, callVars>> => [Next]_vars
<1> SUFFICES ASSUME [CallbacksNext]_<<vars, callVars>> PROVE [Next]_vars
  OBVIOUS
<1>1. CASE QueueQuery
  BY <1>1 DEF QueueQuery, Next, Lua
<1>2. CASE RefusedQuery \/ WorkThreadTask \/ UNCHANGED <<vars, callVars>>
  BY <1>2 DEF RefusedQuery, WorkThreadTask, ProcessTask, DeleteTask
<1>3. CASE (Ping \/ Shutdown \/ LoseSession) /\ UNCHANGED callVars
  BY <1>3 DEF Next, Lua
<1>4. CASE ConnectionThread
  BY <1>4 DEF ConnectionThread, Discarded, PushTask, RunOther, Next, Run
<1>5. QED
  BY <1>1, <1>2, <1>3, <1>4 DEF CallbacksNext

(* The callbacks change nothing of what the connection does. *)
THEOREM CallbacksIsConnection == CallbacksSpec => Spec
<1>1. CallbacksInit => Init
  BY DEF CallbacksInit
<1>2. QED
  BY <1>1, CallbacksStep, PTL DEF CallbacksSpec, Spec

-------------------------------------------------------------------------------
(* lua_fix.cpp *)

(* A set of numbers that is not empty has a least one. *)
LEMMA Least ==
    ASSUME NEW S \in SUBSET Nat, S # {}
    PROVE  \E m \in S : \A n \in S : m <= n
<1>1. PICK m \in S : \A n \in S : ~(<<n, m>> \in OpToRel(<, Nat))
  BY WFMin, NatLessThanWellFounded, Zenon
<1>2. \A n \in S : ~(n < m)
  BY <1>1 DEF OpToRel
<1>3. QED
  BY <1>2

(* The bounds, and the functions that are no query's. *)
LEMMA RefBounds ==
    /\ MaxRef \in Nat /\ MaxRef > 0 /\ MaxQueries \in Nat /\ HeldRefs \subseteq Refs
    /\ FirstRef \in Refs /\ FirstRef \notin HeldRefs
    /\ NoFunction \notin 1..MaxQueries /\ HeldFunction \notin 1..MaxQueries
    /\ RefusedFunction \notin 1..MaxQueries /\ HeldFunction # NoFunction
    /\ NoFunction \in 0..MaxQueries + 2 /\ HeldFunction \in 0..MaxQueries + 2
    /\ RefusedFunction \in 0..MaxQueries + 2 /\ \A i \in 1..MaxQueries : i \in 0..MaxQueries + 2
BY CallbacksAssumption, ConnectionAssumption DEF NoFunction, HeldFunction, RefusedFunction, Refs

(* The search finds a free id, when there is one. *)
LEMMA NextRefFree ==
    ASSUME NEW ids, NEW i \in Refs, Free(ids) # {}
    PROVE  NextRef(ids, i) \in Free(ids)
<1>1. \A j \in Free(ids) : Distance(i, j) \in Nat
  <2> SUFFICES ASSUME NEW j \in Free(ids) PROVE Distance(i, j) \in Nat
    OBVIOUS
  <2>1. i \in Nat /\ j \in Nat /\ i <= MaxRef /\ MaxRef \in Nat /\ MaxRef > 0
    BY RefBounds DEF Free, Refs
  <2>2. j + MaxRef - i \in Nat
    BY <2>1
  <2>3. QED
    BY <2>1, <2>2 DEF Distance
<1> DEFINE D == {Distance(i, j) : j \in Free(ids)}
<1>2. PICK m \in D : \A n \in D : m <= n
  <2>1. D \in SUBSET Nat /\ D # {}
    BY <1>1
  <2> HIDE DEF D
  <2>2. QED
    BY <2>1, Least
<1>3. \E j \in Free(ids) : \A k \in Free(ids) : Distance(i, j) <= Distance(i, k)
  BY <1>2
<1>4. QED
  BY <1>3 DEF NextRef

(* A function is entered under an id that was free, and another free id is    *)
(* found.                                                                     *)
LEMMA RefFunction ==
    ASSUME s_function_id_map \in [Refs -> 0..MaxQueries + 2], s_function_ref_id \in Refs,
           s_function_id_map[s_function_ref_id] = NoFunction,
           NEW f \in 0..MaxQueries + 2, f # NoFunction, toluafix_ref_function(f)
    PROVE  /\ s_function_id_map' \in [Refs -> 0..MaxQueries + 2] /\ s_function_ref_id' \in Refs
           /\ s_function_id_map'[s_function_ref_id] = f
           /\ \A r \in Refs : r # s_function_ref_id => s_function_id_map'[r] = s_function_id_map[r]
           /\ s_function_id_map'[s_function_ref_id'] = NoFunction
<1>0. /\ Cardinality(Free(s_function_id_map)) > 1
      /\ s_function_id_map' = [s_function_id_map EXCEPT ![s_function_ref_id] = f]
      /\ s_function_ref_id' = NextRef(s_function_id_map', s_function_ref_id)
  BY DEF toluafix_ref_function
<1>1. /\ s_function_id_map' \in [Refs -> 0..MaxQueries + 2]
      /\ s_function_id_map'[s_function_ref_id] = f
      /\ \A r \in Refs : r # s_function_ref_id => s_function_id_map'[r] = s_function_id_map[r]
  BY <1>0
<1>2. Free(s_function_id_map') = Free(s_function_id_map) \ {s_function_ref_id}
  BY <1>1 DEF Free
<1>3. Free(s_function_id_map') # {}
  <2> SUFFICES ASSUME Free(s_function_id_map') = {} PROVE FALSE
    OBVIOUS
  <2>1. Free(s_function_id_map) = {s_function_ref_id}
    BY <1>2 DEF Free
  <2>2. Cardinality(Free(s_function_id_map)) = 1
    BY <2>1, FS_Singleton
  <2>3. QED
    BY <2>2, <1>0
<1>4. s_function_ref_id' \in Free(s_function_id_map')
  BY <1>0, <1>3, NextRefFree
<1>5. QED
  BY <1>1, <1>4 DEF Free

-------------------------------------------------------------------------------
(* The inductive invariant, beyond that of the connection. *)

QueuedIds == {q.id : q \in Queued}

TaskIds == {task_list_[k] : k \in DOMAIN task_list_}

(* A task answers a query that was popped, and there is one for each. *)
Tasks == /\ \A j, k \in 1..Len(task_list_) : task_list_[j] = task_list_[k] => j = k
         /\ \A i \in TaskIds : answer[i] # "none"

CInv == Inv /\ CallbacksTypeOK /\ Tasks /\ ReferencesExact

(* Who waits. *)
LEMMA WhoWaits ==
    ASSUME Inv, CallbacksTypeOK, Tasks
    PROVE  /\ Waiting = QueuedIds \cup TaskIds
           /\ QueuedIds \cap TaskIds = {}
           /\ Waiting \subseteq {q.id : q \in queries} /\ Waiting \subseteq 1..MaxQueries
           /\ \A i \in QueuedIds : answer[i] = "none"
           /\ \A i \in Waiting : i < NextId
<1>t. TypeOK /\ Named /\ Behind /\ Touched
  BY DEF Inv
<1>1. Waiting = QueuedIds \cup TaskIds
  BY DEF Waiting, ToSet, QueuedIds, TaskIds, Queued, Names
<1>2. ASSUME NEW i \in QueuedIds PROVE answer[i] = "none" /\ \E q \in queries : q.id = i
  <2>1. PICK q \in Queued : q.id = i
    BY DEF QueuedIds
  <2>2. q \in queries /\ i \in 1..MaxQueries
    BY <2>1, <1>t, QueryFacts DEF Behind
  <2>3. \A p \in Past : p.id # i
    BY <2>1, <2>2, <1>t DEF Named, Past
  <2>4. QED
    BY <2>1, <2>2, <2>3, <1>t DEF Touched
<1>3. ASSUME NEW i \in TaskIds PROVE answer[i] # "none" /\ \E q \in queries : q.id = i
  <2>1. i \in 1..MaxQueries
    <3>1. task_list_ \in Seq(1..MaxQueries)
      BY DEF CallbacksTypeOK
    <3>2. PICK k \in 1..Len(task_list_) : i = task_list_[k]
      BY <3>1 DEF TaskIds
    <3>3. QED
      BY <3>1, <3>2, ElementOfSeq
  <2>2. answer[i] # "none"
    BY DEF Tasks
  <2>3. QED
    BY <2>1, <2>2, <1>t DEF Touched, Past
<1>4. \A q \in queries : q.id \in 1..MaxQueries /\ q.id < NextId
  BY <1>t, QueryFacts, Counted
<1>5. QED
  BY <1>1, <1>2, <1>3, <1>4

(* The start. *)
LEMMA CInvInit == CallbacksInit => CInv
<1> SUFFICES ASSUME CallbacksInit PROVE CInv
  OBVIOUS
<1>1. Inv
  BY InvInit DEF CallbacksInit
<1>2. DOMAIN task_list_ = {} /\ DOMAIN query_list_ = {}
  BY DEF CallbacksInit, Init
<1>3. CallbacksTypeOK
  <2>1. s_function_id_map \in [Refs -> 0..MaxQueries + 2] /\ s_function_ref_id \in Refs
    BY RefBounds DEF CallbacksInit
  <2>2. handler \in [1..MaxQueries -> 0..MaxRef]
    BY RefBounds DEF CallbacksInit
  <2>3. task_list_ \in Seq(1..MaxQueries) /\ called \subseteq 1..MaxQueries
    BY DEF CallbacksInit
  <2>4. QED
    BY <1>1, <2>1, <2>2, <2>3 DEF CallbacksTypeOK, Inv
<1>4. Tasks
  <2>1. Len(task_list_) = 0 /\ \A j \in 1..0 : FALSE
    BY DEF CallbacksInit
  <2>2. QED
    BY <1>2, <2>1 DEF Tasks, TaskIds
<1>5. Waiting = {}
  BY <1>2 DEF Waiting, ToSet
<1>6. ReferencesExact
  BY <1>5, RefBounds DEF ReferencesExact, CallbacksInit
<1>7. QED
  BY <1>1, <1>3, <1>4, <1>6 DEF CInv

-------------------------------------------------------------------------------
(* The steps. *)

(* Waiting, in terms of the two lists, before and after a step. *)
LEMMA WaitingIs == Waiting = QueuedIds \cup TaskIds /\ Waiting' = QueuedIds' \cup TaskIds'
<1>1. Waiting = QueuedIds \cup TaskIds
  BY DEF Waiting, ToSet, QueuedIds, TaskIds, Queued, Names
<1>2. Waiting' = QueuedIds' \cup TaskIds'
  BY DEF Waiting, ToSet, QueuedIds, TaskIds, Queued, Names
<1>3. QED
  BY <1>1, <1>2

(* lua_mysql_add_query and lua_mysql_insert_first_query. *)
LEMMA QueueQueryNext ==
    ASSUME CInv, Inv', QueueQuery
    PROVE  CInv'
<1>t. Inv /\ CallbacksTypeOK /\ Tasks /\ ReferencesExact
  BY DEF CInv
<1>0. /\ toluafix_ref_function(NextId)
      /\ handler' = [handler EXCEPT ![NextId] = s_function_ref_id]
      /\ UNCHANGED <<task_list_, called>>
  BY DEF QueueQuery
<1>1. PICK q \in Query : Entered(q)
  BY <1>t, AddEffect, InsertEffect DEF QueueQuery
<1>2. /\ q.id = NextId /\ queries' = queries \cup {q} /\ Queued' = Queued \cup {q}
      /\ UNCHANGED answer
  BY <1>1 DEF Entered, NewQuery
<1> DEFINE n == q.id
           ref == s_function_ref_id
<1>n. n \in 1..MaxQueries /\ n \in 0..MaxQueries + 2 /\ n # NoFunction
  <2>1. n \in 1..MaxQueries
    BY DEF Query
  <2>2. QED
    BY <2>1, RefBounds
<1>3. /\ s_function_id_map \in [Refs -> 0..MaxQueries + 2] /\ ref \in Refs
      /\ handler \in [1..MaxQueries -> 0..MaxRef]
  BY <1>t DEF CallbacksTypeOK
<1>4. /\ s_function_id_map' \in [Refs -> 0..MaxQueries + 2] /\ s_function_ref_id' \in Refs
      /\ s_function_id_map'[ref] = n
      /\ \A r \in Refs : r # ref => s_function_id_map'[r] = s_function_id_map[r]
      /\ s_function_id_map'[s_function_ref_id'] = NoFunction
  BY <1>0, <1>2, <1>3, <1>n, <1>t, RefFunction DEF ReferencesExact
<1>5. /\ handler' \in [1..MaxQueries -> 0..MaxRef] /\ handler'[n] = ref
      /\ \A i \in 1..MaxQueries : i # n => handler'[i] = handler[i]
  <2>1. ref \in 0..MaxRef
    BY <1>3, RefBounds DEF Refs
  <2>2. QED
    BY <2>1, <1>0, <1>2, <1>3, <1>n
<1>6. CallbacksTypeOK'
  BY <1>0, <1>4, <1>5, <1>t DEF CallbacksTypeOK, Inv
<1>7. Tasks' /\ TaskIds' = TaskIds
  BY <1>0, <1>2, <1>t DEF Tasks, TaskIds
<1>8. /\ Waiting' = Waiting \cup {n} /\ n \notin Waiting /\ Waiting \subseteq 1..MaxQueries
      /\ \A p \in queries : p.id # n
  <2>1. QueuedIds' = QueuedIds \cup {n}
    BY <1>2 DEF QueuedIds
  <2>2. n \in Nat /\ (\A i \in Waiting : i < n) /\ \A p \in queries : p.id < n
    BY <1>2, <1>t, WhoWaits, Counted DEF Inv
  <2>3. Waiting \subseteq 1..MaxQueries
    BY <1>t, WhoWaits
  <2>4. QED
    BY <2>1, <2>2, <2>3, <1>7, WaitingIs
<1> HIDE DEF n, ref
<1>9. \A i \in Abandoned : i \in Abandoned'
  BY <1>2, <1>8 DEF Abandoned
<1>m. s_function_id_map[ref] = NoFunction
  BY <1>t DEF ReferencesExact, ref
<1>10. ASSUME NEW i \in Waiting' PROVE handler'[i] \in Refs /\ s_function_id_map'[handler'[i]] = i
  <2>1. CASE i = n
    BY <2>1, <1>3, <1>4, <1>5
  <2>2. CASE i # n
    <3>1. i \in Waiting /\ i \in 1..MaxQueries
      BY <2>2, <1>8
    <3>2. handler[i] \in Refs /\ s_function_id_map[handler[i]] = i
      BY <3>1, <1>t DEF ReferencesExact
    <3>3. handler[i] # ref
      BY <3>1, <3>2, <1>m, RefBounds
    <3>4. QED
      BY <2>2, <3>1, <3>2, <3>3, <1>4, <1>5
  <2>3. QED
    BY <2>1, <2>2
<1>11. \A r \in HeldRefs : s_function_id_map'[r] = HeldFunction
  BY <1>4, <1>m, <1>t, RefBounds DEF ReferencesExact
<1>12. ASSUME NEW r \in Refs, s_function_id_map'[r] \in 1..MaxQueries
       PROVE  \/ s_function_id_map'[r] \in Waiting' /\ handler'[s_function_id_map'[r]] = r
              \/ s_function_id_map'[r] \in Abandoned'
  <2>1. CASE r = ref
    BY <2>1, <1>4, <1>5, <1>8
  <2>2. CASE r # ref
    <3>1. s_function_id_map'[r] = s_function_id_map[r]
      BY <2>2, <1>4
    <3>2. \/ s_function_id_map[r] \in Waiting /\ handler[s_function_id_map[r]] = r
          \/ s_function_id_map[r] \in Abandoned
      BY <3>1, <1>12, <1>t DEF ReferencesExact
    <3>3. QED
      BY <3>1, <3>2, <1>5, <1>8, <1>9
  <2>3. QED
    BY <2>1, <2>2
<1>13. ReferencesExact'
  BY <1>4, <1>10, <1>11, <1>12 DEF ReferencesExact
<1>14. QED
  BY <1>6, <1>7, <1>13 DEF CInv

(* A query that is refused leaves its function behind. *)
LEMMA RefusedNext ==
    ASSUME CInv, Inv', RefusedQuery
    PROVE  CInv'
<1>t. Inv /\ CallbacksTypeOK /\ Tasks /\ ReferencesExact
  BY DEF CInv
<1>0. /\ toluafix_ref_function(RefusedFunction)
      /\ UNCHANGED <<vars, handler, task_list_, called>>
  BY DEF RefusedQuery
<1>u. UNCHANGED <<query_list_, queries, answer>>
  BY <1>0 DEF vars, luaVars
<1> DEFINE ref == s_function_ref_id
<1>3. s_function_id_map \in [Refs -> 0..MaxQueries + 2] /\ ref \in Refs
  BY <1>t DEF CallbacksTypeOK
<1>m. s_function_id_map[ref] = NoFunction
  BY <1>t DEF ReferencesExact
<1>f. RefusedFunction # NoFunction
  BY RefBounds DEF RefusedFunction, NoFunction
<1>4. /\ s_function_id_map' \in [Refs -> 0..MaxQueries + 2] /\ s_function_ref_id' \in Refs
      /\ s_function_id_map'[ref] = RefusedFunction
      /\ \A r \in Refs : r # ref => s_function_id_map'[r] = s_function_id_map[r]
      /\ s_function_id_map'[s_function_ref_id'] = NoFunction
  BY <1>0, <1>3, <1>m, <1>f, RefBounds, RefFunction
<1>5. CallbacksTypeOK'
  BY <1>0, <1>4, <1>t DEF CallbacksTypeOK, Inv
<1>6. Tasks' /\ Waiting' = Waiting /\ Abandoned' = Abandoned
  BY <1>0, <1>u, <1>t DEF Tasks, TaskIds, Waiting, Abandoned
<1> HIDE DEF ref
<1>7. ASSUME NEW i \in Waiting PROVE handler[i] \in Refs /\ s_function_id_map'[handler[i]] = i
  <2>1. i \in 1..MaxQueries
    BY <1>t, WhoWaits
  <2>2. handler[i] \in Refs /\ s_function_id_map[handler[i]] = i
    BY <1>t DEF ReferencesExact
  <2>3. QED
    BY <2>1, <2>2, <1>4, <1>m, RefBounds
<1>8. \A r \in HeldRefs : s_function_id_map'[r] = HeldFunction
  BY <1>4, <1>m, <1>t, RefBounds DEF ReferencesExact
<1>9. ASSUME NEW r \in Refs, s_function_id_map'[r] \in 1..MaxQueries
      PROVE  \/ s_function_id_map'[r] \in Waiting /\ handler[s_function_id_map'[r]] = r
             \/ s_function_id_map'[r] \in Abandoned
  <2>1. r # ref
    BY <1>4, <1>9, RefBounds
  <2>2. s_function_id_map'[r] = s_function_id_map[r]
    BY <2>1, <1>4
  <2>3. QED
    BY <2>2, <1>9, <1>t DEF ReferencesExact
<1>10. ReferencesExact'
  BY <1>0, <1>4, <1>6, <1>7, <1>8, <1>9 DEF ReferencesExact
<1>11. QED
  BY <1>5, <1>6, <1>10 DEF CInv

(* Steps that pop no query and touch no task. *)
LEMMA OtherNext ==
    ASSUME CInv, Inv', Ping \/ Shutdown \/ LoseSession \/ RunPing \/ PopEmpty \/ WaitBegin
                         \/ WaitReturns \/ UNCHANGED vars,
           UNCHANGED callVars
    PROVE  CInv'
<1>t. Inv /\ CallbacksTypeOK /\ Tasks /\ ReferencesExact
  BY DEF CInv
<1>u. /\ UNCHANGED <<s_function_id_map, s_function_ref_id, handler, task_list_, called>>
      /\ UNCHANGED <<queries, answer>>
  BY DEF callVars, refVars, Ping, Shutdown, LoseSession, RunPing, PopEmpty, WaitBegin, WaitReturns, vars, luaVars
<1>q. query_list_ \in Seq(Query \cup {PingQuery}) /\ Ordered(query_list_)
  BY <1>t DEF Inv, TypeOK, Line
<1>1. Queued' = Queued
  <2>1. CASE Ping
    <3>1. query_list_' = Append(query_list_, PingQuery)
      BY <2>1 DEF Ping
    <3>2. Names(query_list_') = Names(query_list_) \cup ({PingQuery} \ {PingQuery})
      BY <3>1, <1>q, AppendFacts
    <3>3. QED
      BY <3>2 DEF Queued
  <2>2. CASE RunPing
    <3>1. query_list_ # <<>> /\ Head(query_list_) = PingQuery /\ query_list_' = Tail(query_list_)
      BY <2>2 DEF RunPing
    <3>2. Names(query_list_') = Names(query_list_)
      BY <3>1, <1>q, TailFacts
    <3>3. QED
      BY <3>2 DEF Queued
  <2>3. CASE Shutdown \/ LoseSession \/ PopEmpty \/ WaitBegin \/ WaitReturns \/ UNCHANGED vars
    <3>1. query_list_' = query_list_
      BY <2>3 DEF Shutdown, LoseSession, PopEmpty, WaitBegin, WaitReturns, vars
    <3>2. QED
      BY <3>1 DEF Queued
  <2>4. QED
    BY <2>1, <2>2, <2>3
<1>2. QueuedIds' = QueuedIds /\ TaskIds' = TaskIds
  BY <1>1, <1>u DEF QueuedIds, TaskIds
<1>3. Waiting' = Waiting
  BY <1>2, WaitingIs
<1>4. Abandoned' = Abandoned
  BY <1>3, <1>u DEF Abandoned
<1>5. CallbacksTypeOK' /\ Tasks'
  BY <1>2, <1>u, <1>t DEF CallbacksTypeOK, Tasks, Inv
<1>6. ReferencesExact'
  BY <1>3, <1>4, <1>u, <1>t DEF ReferencesExact
<1>7. QED
  BY <1>5, <1>6 DEF CInv

(* A query of a failed transaction is deleted, and its function stays. *)
LEMMA DiscardedNext ==
    ASSUME CInv, Inv', Discarded
    PROVE  CInv'
<1> SUFFICES ASSUME NEW q, q = Head(query_list_) PROVE CInv'
  OBVIOUS
<1>t. Inv /\ CallbacksTypeOK /\ Tasks /\ ReferencesExact
  BY DEF CInv
<1>0. /\ query_list_ # <<>> /\ q # PingQuery /\ query_list_' = Tail(query_list_)
      /\ handler' = [handler EXCEPT ![q.id] = 0]
      /\ UNCHANGED <<answer, queries, open, s_function_id_map, s_function_ref_id, task_list_, called>>
  BY DEF Discarded, Discard, luaVars, refVars
<1>1. q \in Queued /\ q \in queries /\ Queued' = Queued \ {q}
  BY <1>0, <1>t, PopFacts
<1>n. /\ q.id \in 1..MaxQueries /\ q.id \in QueuedIds /\ answer[q.id] = "none" /\ q.id \notin TaskIds
      /\ Waiting \subseteq 1..MaxQueries
  BY <1>1, <1>t, QueryFacts, WhoWaits DEF Inv, QueuedIds
<1>2. Waiting' = Waiting \ {q.id}
  <2>1. QueuedIds' = QueuedIds \ {q.id}
    <3>1. \A p \in Queued : p # q => p.id # q.id
      BY <1>1, <1>t DEF Inv, Named, Behind
    <3>2. QED
      BY <3>1, <1>1 DEF QueuedIds
  <2>2. TaskIds' = TaskIds
    BY <1>0 DEF TaskIds
  <2>3. QED
    BY <2>1, <2>2, <1>n, WaitingIs
<1>3. Abandoned' = Abandoned \cup {q.id}
  BY <1>0, <1>1, <1>2, <1>n DEF Abandoned
<1>4. /\ handler' \in [1..MaxQueries -> 0..MaxRef]
      /\ \A i \in 1..MaxQueries : i # q.id => handler'[i] = handler[i]
  <2>1. 0 \in 0..MaxRef /\ handler \in [1..MaxQueries -> 0..MaxRef]
    BY <1>t, RefBounds DEF CallbacksTypeOK
  <2>2. QED
    BY <2>1, <1>0, <1>n
<1>5. CallbacksTypeOK' /\ Tasks'
  BY <1>0, <1>4, <1>t DEF CallbacksTypeOK, Tasks, TaskIds, Inv
<1>6. ReferencesExact'
  <2>1. ASSUME NEW i \in Waiting' PROVE handler'[i] \in Refs /\ s_function_id_map[handler'[i]] = i
    BY <1>2, <1>4, <1>n, <1>t DEF ReferencesExact
  <2>2. ASSUME NEW r \in Refs, s_function_id_map[r] \in 1..MaxQueries
        PROVE  \/ s_function_id_map[r] \in Waiting' /\ handler'[s_function_id_map[r]] = r
               \/ s_function_id_map[r] \in Abandoned'
    <3>1. CASE s_function_id_map[r] = q.id
      BY <3>1, <1>3
    <3>2. CASE s_function_id_map[r] # q.id
      BY <3>2, <2>2, <1>2, <1>3, <1>4, <1>t DEF ReferencesExact
    <3>3. QED
      BY <3>1, <3>2
  <2>3. QED
    BY <2>1, <2>2, <1>0, <1>t DEF ReferencesExact
<1>7. QED
  BY <1>5, <1>6 DEF CInv

(* The answer goes into a task, with the id. *)
LEMMA PushTaskNext ==
    ASSUME CInv, Inv', PushTask
    PROVE  CInv'
<1>t. Inv /\ CallbacksTypeOK /\ Tasks /\ ReferencesExact
  BY DEF CInv
<1>u. UNCHANGED <<s_function_id_map, s_function_ref_id, handler, called>>
  BY DEF PushTask, refVars
<1>1. PICK q \in queries : (ExecuteOk(q) \/ ExecuteFails(q)) /\ task_list_' = Append(task_list_, q.id)
  BY DEF PushTask
<1>2. PICK what \in {"ok", "failed"} :
        /\ answer' = [answer EXCEPT ![q.id] = what]
        /\ query_list_ # <<>> /\ q = Head(query_list_) /\ q # PingQuery
        /\ query_list_' = Tail(query_list_) /\ UNCHANGED <<queries, open>>
  BY <1>1 DEF ExecuteOk, ExecuteFails, Popped, Answered, luaVars
<1>3. q \in Queued /\ Queued' = Queued \ {q}
  BY <1>2, <1>t, PopFacts
<1>n. /\ q.id \in 1..MaxQueries /\ q.id \in QueuedIds /\ q.id \notin TaskIds
      /\ \A p \in queries : p.id \in 1..MaxQueries
  BY <1>3, <1>t, QueryFacts, WhoWaits DEF Inv, QueuedIds
<1>a. answer'[q.id] # "none" /\ \A i \in 1..MaxQueries : i # q.id => answer'[i] = answer[i]
  <2>1. answer \in [1..MaxQueries -> {"none", "ok", "failed"}]
    BY <1>t DEF Inv, TypeOK
  <2>2. QED
    BY <2>1, <1>2, <1>n
<1>s. task_list_ \in Seq(1..MaxQueries) /\ Len(task_list_) \in Nat /\ DOMAIN task_list_ = 1..Len(task_list_)
  <2>1. task_list_ \in Seq(1..MaxQueries)
    BY <1>t DEF CallbacksTypeOK
  <2>2. QED
    BY <2>1
<1> DEFINE m == Len(task_list_) + 1
           l == task_list_'
<1>4. /\ l \in Seq(1..MaxQueries) /\ Len(l) = m /\ DOMAIN l = 1..m /\ l[m] = q.id
      /\ \A k \in 1..Len(task_list_) : l[k] = task_list_[k]
  BY <1>1, <1>n, <1>s, AppendProperties
<1>5. m \in 1..m /\ (\A k \in 1..m : k = m \/ k \in 1..Len(task_list_)) /\ \A k \in 1..Len(task_list_) : k \in 1..m
  BY <1>s
<1> HIDE DEF l, m
<1>6. TaskIds' = TaskIds \cup {q.id}
  <2>1. {l[k] : k \in 1..m} = {task_list_[k] : k \in 1..Len(task_list_)} \cup {q.id}
    BY <1>4, <1>5
  <2>2. QED
    BY <2>1, <1>4, <1>s DEF TaskIds, l
<1>7. QueuedIds' = QueuedIds \ {q.id}
  <2>1. \A p \in Queued : p # q => p.id # q.id
    BY <1>3, <1>t DEF Inv, Named, Behind
  <2>2. QED
    BY <2>1, <1>3 DEF QueuedIds
<1>8. Waiting' = Waiting /\ q.id \in Waiting
  BY <1>6, <1>7, <1>n, WaitingIs
<1>9. Abandoned' = Abandoned
  <2>1. \A p \in queries : p.id # q.id => answer'[p.id] = answer[p.id]
    BY <1>a, <1>n
  <2>2. QED
    BY <2>1, <1>2, <1>8 DEF Abandoned
<1>10. CallbacksTypeOK'
  BY <1>4, <1>u, <1>t DEF CallbacksTypeOK, Inv, l
<1>11. Tasks'
  <2>1. ASSUME NEW j \in 1..m, NEW k \in 1..m, l[j] = l[k] PROVE j = k
    <3>1. \A i \in 1..Len(task_list_) : task_list_[i] \in TaskIds /\ l[i] # q.id
      BY <1>4, <1>n, <1>s DEF TaskIds
    <3>2. CASE j = m \/ k = m
      BY <3>1, <3>2, <2>1, <1>4, <1>5
    <3>3. CASE j # m /\ k # m
      BY <3>3, <2>1, <1>4, <1>5, <1>t DEF Tasks
    <3>4. QED
      BY <3>2, <3>3
  <2>2. ASSUME NEW i \in TaskIds \cup {q.id} PROVE answer'[i] # "none"
    <3>1. CASE i = q.id
      BY <3>1, <1>a
    <3>2. CASE i # q.id
      <4>1. i \in 1..MaxQueries /\ answer[i] # "none"
        BY <3>2, <1>t, WhoWaits DEF Tasks
      <4>2. QED
        BY <3>2, <4>1, <1>a
    <3>3. QED
      BY <3>1, <3>2
  <2>3. QED
    BY <2>1, <2>2, <1>4, <1>6 DEF Tasks, l
<1>12. ReferencesExact'
  BY <1>8, <1>9, <1>u, <1>t DEF ReferencesExact
<1>13. QED
  BY <1>10, <1>11, <1>12 DEF CInv

(* The work thread calls the function: it is that of the query. *)
LEMMA ProcessNext ==
    ASSUME CInv, Inv', ProcessTask
    PROVE  CInv' /\ called' = called \cup {Head(task_list_)}
<1>t. Inv /\ CallbacksTypeOK /\ Tasks /\ ReferencesExact
  BY DEF CInv
<1> DEFINE h == Head(task_list_)
<1>0. /\ task_list_ # <<>> /\ called' = called \cup {s_function_id_map[handler[h]]}
      /\ UNCHANGED <<s_function_id_map, s_function_ref_id, handler, task_list_>>
      /\ UNCHANGED <<query_list_, queries, answer>>
  BY DEF ProcessTask, refVars, vars, luaVars
<1>1. h \in 1..MaxQueries /\ h \in TaskIds
  <2>1. task_list_ \in Seq(1..MaxQueries)
    BY <1>t DEF CallbacksTypeOK
  <2>2. Len(task_list_) \in Nat /\ Len(task_list_) > 0 /\ h = task_list_[1] /\ DOMAIN task_list_ = 1..Len(task_list_)
    BY <2>1, <1>0, HeadTailProperties, EmptySeq
  <2>3. 1 \in DOMAIN task_list_
    BY <2>2
  <2>4. QED
    BY <2>1, <2>2, <2>3, ElementOfSeq DEF TaskIds
<1> HIDE DEF h
<1>2. s_function_id_map[handler[h]] = h
  BY <1>1, <1>t, WhoWaits DEF ReferencesExact
<1>3. Waiting' = Waiting /\ Abandoned' = Abandoned /\ Tasks'
  BY <1>0, <1>t DEF Waiting, Abandoned, Tasks, TaskIds
<1>4. CallbacksTypeOK'
  BY <1>0, <1>1, <1>2, <1>t DEF CallbacksTypeOK, Inv
<1>5. ReferencesExact'
  BY <1>0, <1>3, <1>t DEF ReferencesExact
<1>6. QED
  BY <1>0, <1>2, <1>3, <1>4, <1>5 DEF CInv, h

(* The task is deleted and its id is free again. *)
LEMMA DeleteTaskNext ==
    ASSUME CInv, Inv', DeleteTask
    PROVE  CInv'
<1> SUFFICES ASSUME NEW h, h = Head(task_list_) PROVE CInv'
  OBVIOUS
<1>t. Inv /\ CallbacksTypeOK /\ Tasks /\ ReferencesExact
  BY DEF CInv
<1>0. /\ task_list_ # <<>> /\ task_list_' = Tail(task_list_)
      /\ s_function_id_map' = [s_function_id_map EXCEPT ![handler[h]] = NoFunction]
      /\ handler' = [handler EXCEPT ![h] = 0]
      /\ UNCHANGED <<s_function_ref_id, called, query_list_, queries, answer>>
  BY DEF DeleteTask, toluafix_remove_function_by_refid, vars, luaVars
<1>s. task_list_ \in Seq(1..MaxQueries)
  BY <1>t DEF CallbacksTypeOK
<1> DEFINE l == task_list_'
<1>1. /\ Len(task_list_) \in Nat /\ Len(task_list_) > 0 /\ h = task_list_[1] /\ h \in 1..MaxQueries
      /\ DOMAIN task_list_ = 1..Len(task_list_)
      /\ l \in Seq(1..MaxQueries) /\ Len(l) = Len(task_list_) - 1 /\ DOMAIN l = 1..Len(l)
      /\ \A k \in 1..Len(l) : l[k] = task_list_[k + 1]
  <2>1. /\ Len(task_list_) \in Nat /\ Len(task_list_) > 0 /\ h = task_list_[1]
        /\ DOMAIN task_list_ = 1..Len(task_list_)
    BY <1>0, <1>s, HeadTailProperties, EmptySeq
  <2>2. h \in 1..MaxQueries
    <3>1. 1 \in 1..Len(task_list_)
      BY <2>1
    <3>2. QED
      BY <3>1, <2>1, <1>s, ElementOfSeq
  <2>3. /\ l \in Seq(1..MaxQueries) /\ Len(l) = Len(task_list_) - 1
        /\ \A k \in 1..Len(l) : l[k] = task_list_[k + 1]
    BY <1>0, <1>s, HeadTailProperties
  <2>4. DOMAIN l = 1..Len(l)
    BY <2>3
  <2>5. QED
    BY <2>1, <2>2, <2>3, <2>4
<1> HIDE DEF l
<1>2. /\ \A k \in 1..Len(l) : k + 1 \in 1..Len(task_list_) /\ k + 1 # 1 /\ l[k] = task_list_[k + 1]
      /\ \A k \in 1..Len(task_list_) : k = 1 \/ (k - 1 \in 1..Len(l) /\ (k - 1) + 1 = k)
      /\ 1 \in 1..Len(task_list_)
  BY <1>1
<1>d. \A j, k \in 1..Len(task_list_) : task_list_[j] = task_list_[k] => j = k
  BY <1>t DEF Tasks
<1>3. TaskIds' = TaskIds \ {h} /\ h \in TaskIds
  <2>1. ASSUME NEW k \in 1..Len(l) PROVE l[k] \in TaskIds /\ l[k] # h
    BY <1>1, <1>2, <1>d DEF TaskIds
  <2>2. ASSUME NEW k \in 1..Len(task_list_), task_list_[k] # h PROVE \E j \in 1..Len(l) : l[j] = task_list_[k]
    <3>1. k - 1 \in 1..Len(l) /\ (k - 1) + 1 = k
      BY <2>2, <1>1, <1>2
    <3>2. l[k - 1] = task_list_[k]
      BY <3>1, <1>2
    <3>3. QED
      BY <3>1, <3>2
  <2>3. h \in TaskIds
    BY <1>1, <1>2 DEF TaskIds
  <2>4. TaskIds' = {l[k] : k \in 1..Len(l)}
    BY <1>1 DEF TaskIds, l
  <2>5. TaskIds = {task_list_[k] : k \in 1..Len(task_list_)}
    BY <1>1 DEF TaskIds
  <2>6. QED
    BY <2>1, <2>2, <2>3, <2>4, <2>5
<1>4. QueuedIds' = QueuedIds
  BY <1>0 DEF QueuedIds, Queued
<1>5. Waiting' = Waiting \ {h} /\ h \in Waiting /\ Waiting \subseteq 1..MaxQueries /\ answer[h] # "none"
  <2>1. QueuedIds \cap TaskIds = {} /\ Waiting \subseteq 1..MaxQueries /\ answer[h] # "none"
    BY <1>3, <1>t, WhoWaits DEF Tasks
  <2>2. QED
    BY <2>1, <1>3, <1>4, WaitingIs
<1>6. Abandoned' = Abandoned
  BY <1>0, <1>5 DEF Abandoned
<1>7. handler[h] \in Refs /\ s_function_id_map[handler[h]] = h
  BY <1>5, <1>t DEF ReferencesExact
<1>8. /\ s_function_id_map' \in [Refs -> 0..MaxQueries + 2]
      /\ s_function_id_map'[handler[h]] = NoFunction
      /\ \A r \in Refs : r # handler[h] => s_function_id_map'[r] = s_function_id_map[r]
  <2>1. s_function_id_map \in [Refs -> 0..MaxQueries + 2] /\ NoFunction \in 0..MaxQueries + 2
    BY <1>t, RefBounds DEF CallbacksTypeOK
  <2>2. QED
    BY <2>1, <1>0, <1>7
<1>9. /\ handler' \in [1..MaxQueries -> 0..MaxRef]
      /\ \A i \in 1..MaxQueries : i # h => handler'[i] = handler[i]
  <2>1. 0 \in 0..MaxRef /\ handler \in [1..MaxQueries -> 0..MaxRef]
    BY <1>t, RefBounds DEF CallbacksTypeOK
  <2>2. QED
    BY <2>1, <1>0, <1>1
<1>10. CallbacksTypeOK'
  BY <1>0, <1>1, <1>8, <1>9, <1>t DEF CallbacksTypeOK, Inv, l
<1>11. Tasks'
  <2>1. ASSUME NEW j \in 1..Len(l), NEW k \in 1..Len(l), l[j] = l[k] PROVE j = k
    <3>1. j + 1 = k + 1
      BY <2>1, <1>2, <1>d
    <3>2. QED
      BY <3>1, <1>1
  <2>2. \A i \in TaskIds' : answer'[i] # "none"
    BY <1>0, <1>3, <1>t DEF Tasks
  <2>3. QED
    BY <2>1, <2>2 DEF Tasks, l
<1>12. ReferencesExact'
  <2>1. ASSUME NEW i \in Waiting' PROVE handler'[i] \in Refs /\ s_function_id_map'[handler'[i]] = i
    <3>1. i \in Waiting /\ i # h /\ i \in 1..MaxQueries
      BY <1>5
    <3>2. handler[i] \in Refs /\ s_function_id_map[handler[i]] = i
      BY <3>1, <1>t DEF ReferencesExact
    <3>3. handler[i] # handler[h]
      BY <3>1, <3>2, <1>7
    <3>4. QED
      BY <3>1, <3>2, <3>3, <1>8, <1>9
  <2>2. \A r \in HeldRefs : s_function_id_map'[r] = HeldFunction
    BY <1>1, <1>7, <1>8, <1>t, RefBounds DEF ReferencesExact
  <2>3. ASSUME NEW r \in Refs, s_function_id_map'[r] \in 1..MaxQueries
        PROVE  \/ s_function_id_map'[r] \in Waiting' /\ handler'[s_function_id_map'[r]] = r
               \/ s_function_id_map'[r] \in Abandoned'
    <3>1. r # handler[h]
      BY <2>3, <1>8, RefBounds
    <3>2. s_function_id_map'[r] = s_function_id_map[r]
      BY <3>1, <1>8
    <3>3. \/ s_function_id_map[r] \in Waiting /\ handler[s_function_id_map[r]] = r
          \/ s_function_id_map[r] \in Abandoned
      BY <2>3, <3>2, <1>t DEF ReferencesExact
    <3>4. QED
      BY <2>3, <3>1, <3>2, <3>3, <1>5, <1>6, <1>9
  <2>4. s_function_id_map'[s_function_ref_id'] = NoFunction
    BY <1>0, <1>8, <1>t DEF ReferencesExact, CallbacksTypeOK
  <2>5. QED
    BY <2>1, <2>2, <2>3, <2>4 DEF ReferencesExact
<1>13. QED
  BY <1>10, <1>11, <1>12 DEF CInv

(* Every step. *)
LEMMA CInvNext == CInv /\ [CallbacksNext]_<<vars, callVars>> => CInv'
<1> SUFFICES ASSUME CInv, [CallbacksNext]_<<vars, callVars>> PROVE CInv'
  OBVIOUS
<1>1. Inv'
  BY CallbacksStep, InvNext DEF CInv
<1>2. CASE ConnectionThread
  BY <1>1, <1>2, DiscardedNext, PushTaskNext, OtherNext DEF ConnectionThread, RunOther
<1>3. CASE WorkThreadTask
  BY <1>1, <1>3, ProcessNext, DeleteTaskNext DEF WorkThreadTask
<1>4. CASE (Ping \/ Shutdown \/ LoseSession) /\ UNCHANGED callVars
  BY <1>1, <1>4, OtherNext
<1>5. CASE UNCHANGED <<vars, callVars>>
  BY <1>1, <1>5, OtherNext
<1>6. QED
  BY <1>1, <1>2, <1>3, <1>4, <1>5, QueueQueryNext, RefusedNext DEF CallbacksNext

-------------------------------------------------------------------------------
(* The theorems. *)

(* The connection with its callbacks keeps the invariant. *)
THEOREM CallbacksInvariance == CallbacksSpec => []CInv
BY CInvInit, CInvNext, PTL DEF CallbacksSpec

(* What C++ keeps of Lua's functions stays within its types: no task carries  *)
(* anything but a query's id, and only functions of queries are called.       *)
THEOREM CallbacksTypeCorrect == CallbacksSpec => []CallbacksTypeOK
<1>1. CInv => CallbacksTypeOK
  BY DEF CInv
<1>2. QED
  BY <1>1, CallbacksInvariance, PTL

(* lua_fix.cpp: the id that a query or its task carries stands for its own    *)
(* callback, however often the ids go round and whichever are held; those     *)
(* that are left are of discarded and refused queries.                        *)
THEOREM CallbackIdsExact == CallbacksSpec => []ReferencesExact
<1>1. CInv => ReferencesExact
  BY DEF CInv
<1>2. QED
  BY <1>1, CallbacksInvariance, PTL

(* What is proved of a connection alone holds of it with its callbacks: lone  *)
(* queries are durable once answered, the session settles, and unless it is   *)
(* lost inside a transaction, transactions are whole and failed ones leave    *)
(* nothing.                                                                   *)
THEOREM CallbacksTransactions ==
    /\ CallbacksSpec => [](AnsweredIsDurable /\ BackToAutocommit)
    /\ Kept => (CallbacksSpec => [](Atomic /\ FailedMeansNothing))
    /\ Kept /\ ~CommitFails => (CallbacksSpec => []CommitAnswer)
<1>1. CallbacksSpec => [](AnsweredIsDurable /\ BackToAutocommit)
  BY CallbacksIsConnection, LoneIsDurable, Settles, PTL
<1>2. ASSUME Kept PROVE CallbacksSpec => [](Atomic /\ FailedMeansNothing)
  <2>1. (Spec => []Atomic) /\ (Spec => []FailedMeansNothing)
    BY <1>2, TransactionsAtomic, FailureUndoes
  <2>2. QED
    BY <2>1, CallbacksIsConnection, PTL
<1>3. ASSUME Kept, ~CommitFails PROVE CallbacksSpec => []CommitAnswer
  <2>1. Spec => []CommitAnswer
    BY <1>3, CommitAnswered
  <2>2. QED
    BY <2>1, CallbacksIsConnection, PTL
<1>4. QED
  BY <1>1, <1>2, <1>3

===============================================================================
