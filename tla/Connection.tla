------------------------------ MODULE Connection ------------------------------
(* engine/connection.cpp: the transactions of one MySQL connection.  Lua      *)
(* queues queries (AddQuery, InsertFristQuery, Ping); the connection thread   *)
(* pops them one by one and keeps in flag_ whether it is inside a transaction, *)
(* or in one that failed and whose queries it throws away up to the COMMIT.   *)
(*                                                                            *)
(* Pop, Execute, commit or rollback and the answer are one step: between them *)
(* other threads touch nothing but the back and the front of the queue, which *)
(* the thread looks at only in the next pop.  How the thread is woken is told *)
(* in full by Worker; here a push and its Notify are one step, and the posts  *)
(* that Wait finds are not counted: a Notify that came while the thread did   *)
(* not wait may be among them, or lost.                                       *)
(*                                                                            *)
(* The database is one server session, external, as far as the code uses it.  *)
(* When the session is lost the server rolls back what is not committed.  The *)
(* client library (MYSQL_OPT_RECONNECT) makes a new one, in autocommit, for   *)
(* the next call, but lets a statement fail that is in a transaction.  A call *)
(* of mysql_autocommit, whose result the code ignores, does not fail here.    *)
EXTENDS Naturals, Sequences, FiniteSets, SequencesExt

CONSTANTS MaxQueries,   \* bound: queries queued
          MaxPings,     \* bound: pings in the queue; of a thread that sleeps, one more
          CommitFails,  \* whether mysql_commit may fail
          LossPoints    \* where the session may be lost: "idle", between
                        \* transactions, and "txn", inside one

ASSUME ConnectionAssumption == /\ MaxQueries \in Nat
                               /\ MaxPings \in Nat
                               /\ CommitFails \in BOOLEAN
                               /\ LossPoints \subseteq {"idle", "txn"}

VARIABLES query_list_, \* queries and pings
          is_running_, \* FALSE once Shutdown was called
          thread,      \* "run": popping, "idle": the queue was empty, "wait":
                       \* blocked in Event::Wait, "exited"
          event_,      \* in Wait: the semaphore is not zero
          flag_,       \* the thread's DBTransactionFlag
          session,     \* the session: "up", "lost", or "closed" by mysql_close
          autocommit,  \* the session: statements commit by themselves
          pending,     \* the session: writes of the open transaction
          durable,     \* writes that are committed
          answer,      \* what the callback of each query was told
          queries,     \* ghost: every query queued, by id
          open         \* ghost: the transaction Lua is writing, or NoTxn

dbVars == <<session, autocommit, pending, durable>>
luaVars == <<is_running_, queries, open>>
vars == <<query_list_, thread, event_, flag_, answer, dbVars, luaVars>>

NoTxn == 0
Flags == {"NONE", "BEGIN", "ROLLBACK", "COMMIT"}

(* A query, with its transaction (the id of the BEGIN query that starts it)   *)
(* and whether it was put in front of the others.                             *)
Query == [id : 1..MaxQueries, flag : Flags, txn : 0..MaxQueries, first : BOOLEAN]
PingQuery == [id |-> 0, flag |-> "NONE", txn |-> NoTxn, first |-> FALSE]

Init == /\ query_list_ = <<>>
        /\ is_running_ = TRUE
        /\ thread = "run"
        /\ event_ = FALSE
        /\ session = "up"
        /\ flag_ = "NONE"
        /\ autocommit = TRUE
        /\ pending = {}
        /\ durable = {}
        /\ answer = [i \in 1..MaxQueries |-> "none"]
        /\ queries = {}
        /\ open = NoTxn

NextId == Cardinality(queries) + 1

-------------------------------------------------------------------------------
(* Slips this code could have, each used to show that a property notices it. *)
DiscardNoReset == /\ query_list_ # <<>> /\ Head(query_list_) # PingQuery
                  /\ thread = "run" /\ flag_ = "ROLLBACK"
                  /\ query_list_' = Tail(query_list_)
                  /\ UNCHANGED <<thread, event_, flag_, answer, dbVars, luaVars>>

FailedFlagOpen(q) == IF flag_ = "BEGIN" \/ q.flag = "BEGIN"
                     THEN IF q.flag = "COMMIT" THEN "NONE" ELSE "BEGIN"
                     ELSE flag_

FailedFlagOfQuery(q) == q.flag

FailedFlagAlwaysRollback(q) ==
    IF flag_ = "BEGIN" \/ q.flag = "BEGIN" THEN "ROLLBACK" ELSE flag_

CommitTransactionStays(writes, auto) == /\ durable' = durable \cup writes
                                        /\ pending' = {}
                                        /\ autocommit' = FALSE
                                        /\ UNCHANGED session

RollbackTransactionNot == /\ durable' = durable \cup pending
                          /\ pending' = {}
                          /\ autocommit' = TRUE
                          /\ session' = "up"

-------------------------------------------------------------------------------
(* Lua.  A program writes a transaction from its BEGIN to its COMMIT without  *)
(* other queries on the connection, as the test of the repository does.       *)

(* Event::Notify posts if is_block_ says that the thread waits. *)
Notify == event_' = (thread = "wait")

Enqueue(q, list) == /\ queries' = queries \cup {q}
                    /\ query_list_' = list
                    /\ Notify
                    /\ UNCHANGED <<is_running_, thread, flag_, answer, dbVars>>

AddQuery(flag) ==
    /\ is_running_
    /\ Cardinality(queries) < MaxQueries
    /\ flag = "BEGIN" => open = NoTxn
    /\ flag = "COMMIT" => open # NoTxn
    /\ LET txn == IF flag = "BEGIN" THEN NextId ELSE open
           q == [id |-> NextId, flag |-> flag, txn |-> txn, first |-> FALSE]
       IN /\ Enqueue(q, Append(query_list_, q))
          /\ open' = IF flag = "COMMIT" THEN NoTxn ELSE txn

(* The query goes to the front, whatever transaction is being executed. *)
InsertFristQuery ==
    /\ is_running_
    /\ Cardinality(queries) < MaxQueries
    /\ LET q == [id |-> NextId, flag |-> "NONE", txn |-> NoTxn, first |-> TRUE]
       IN Enqueue(q, Cons(q, query_list_))
    /\ UNCHANGED open

Ping == /\ Cardinality({k \in DOMAIN query_list_ : query_list_[k] = PingQuery})
              < IF thread = "wait" /\ ~event_ THEN MaxPings + 1 ELSE MaxPings
        /\ query_list_' = Append(query_list_, PingQuery)
        /\ Notify
        /\ UNCHANGED <<thread, flag_, answer, dbVars, luaVars>>

Shutdown == /\ is_running_
            /\ is_running_' = FALSE
            /\ Notify
            /\ UNCHANGED <<query_list_, thread, flag_, answer, dbVars, queries, open>>

-------------------------------------------------------------------------------
(* The connection thread: Run. *)
(* mysql_ping replaces a session that is lost. *)
RunPing == /\ thread = "run"
           /\ query_list_ # <<>> /\ Head(query_list_) = PingQuery
           /\ query_list_' = Tail(query_list_)
           /\ session' = "up"
           /\ autocommit' = (session = "lost" \/ autocommit)
           /\ UNCHANGED <<thread, event_, flag_, pending, durable, answer, luaVars>>

(* A query of a transaction that failed is deleted; nobody is told. *)
Discard == /\ thread = "run"
           /\ query_list_ # <<>> /\ Head(query_list_) # PingQuery
           /\ flag_ = "ROLLBACK"
           /\ query_list_' = Tail(query_list_)
           /\ flag_' = IF Head(query_list_).flag = "COMMIT" THEN "NONE" ELSE flag_
           /\ UNCHANGED <<thread, event_, answer, dbVars, luaVars>>

(* The queue is empty ... *)
PopEmpty == /\ thread = "run"
            /\ query_list_ = <<>>
            /\ thread' = "idle"
            /\ UNCHANGED <<query_list_, event_, flag_, answer, dbVars, luaVars>>

(* ... and the thread calls Event::Wait, whatever was pushed meanwhile.  It   *)
(* finds a post if is_block_ was still set when a caller looked, from the     *)
(* last Wait, or set already, in this one; or it finds none.                  *)
WaitBegin == /\ thread = "idle"
             /\ thread' = "wait"
             /\ event_' \in BOOLEAN
             /\ UNCHANGED <<query_list_, flag_, answer, dbVars, luaVars>>

(* Wait returns.  A stopped thread leaves, whatever came in meanwhile, and    *)
(* mysql_close ends the session.                                              *)
WaitReturns == /\ thread = "wait"
               /\ event_
               /\ event_' = FALSE
               /\ \/ /\ is_running_
                     /\ thread' = "run"
                     /\ UNCHANGED dbVars
                  \/ /\ ~is_running_
                     /\ thread' = "exited"
                     /\ session' = "closed" /\ pending' = {}
                     /\ UNCHANGED <<autocommit, durable>>
               /\ UNCHANGED <<query_list_, flag_, answer, luaVars>>

(* The server drops the session; the thread does not know. *)
LoseSession == /\ session = "up"
               /\ (IF autocommit THEN "idle" ELSE "txn") \in LossPoints
               /\ session' = "lost"
               /\ pending' = {}
               /\ UNCHANGED <<query_list_, thread, event_, flag_, answer, autocommit, durable, luaVars>>

(* BeginTransaction: mysql_autocommit(false) before the first statement. *)
BeginTransaction(q) == IF q.flag = "BEGIN" THEN FALSE ELSE autocommit

(* Whether mysql_commit succeeded is not looked at. *)
CommitTransaction(writes, auto) ==
    /\ \E committed \in IF CommitFails THEN BOOLEAN ELSE {TRUE} :
         durable' = IF committed \/ auto THEN durable \cup writes ELSE durable
    /\ pending' = {}
    /\ autocommit' = TRUE
    /\ UNCHANGED session

RollbackTransaction == /\ pending' = {}
                       /\ autocommit' = TRUE
                       /\ session' = "up"
                       /\ UNCHANGED durable

Popped(q) == /\ thread = "run"
             /\ query_list_ # <<>>
             /\ q = Head(query_list_) /\ q # PingQuery
             /\ flag_ # "ROLLBACK"
             /\ query_list_' = Tail(query_list_)
             /\ UNCHANGED <<thread, event_, luaVars>>

Answered(q, what) == answer' = [answer EXCEPT ![q.id] = what]

(* Execute succeeds, on a new session if need be: the write is committed at   *)
(* once, or with the COMMIT.                                                  *)
ExecuteOk(q) ==
    /\ Popped(q)
    /\ session = "up" \/ autocommit
    /\ Answered(q, "ok")
    /\ LET auto == BeginTransaction(q)
           writes == pending \cup {q.id}
       IN \/ /\ q.flag = "COMMIT"
             /\ CommitTransaction(writes, auto)
             /\ flag_' = "NONE"
          \/ /\ q.flag # "COMMIT"
             /\ durable' = IF auto THEN durable \cup writes ELSE durable
             /\ pending' = IF auto THEN {} ELSE writes
             /\ autocommit' = auto
             /\ session' = "up"
             /\ flag_' = IF q.flag = "BEGIN" THEN "BEGIN" ELSE flag_

(* flag_ after a statement failed: inside a transaction, its last query ends  *)
(* it and any other leaves the rest to be thrown away.                        *)
FailedFlag(q) == IF flag_ = "BEGIN" \/ q.flag = "BEGIN"
                 THEN IF q.flag = "COMMIT" THEN "NONE" ELSE "ROLLBACK"
                 ELSE flag_

(* Execute fails: inside a transaction, RollbackTransaction. *)
ExecuteFails(q) ==
    /\ Popped(q)
    /\ Answered(q, "failed")
    /\ flag_' = FailedFlag(q)
    /\ IF flag_ = "BEGIN" \/ q.flag = "BEGIN"
       THEN RollbackTransaction
       ELSE UNCHANGED dbVars

Lua == \/ \E flag \in {"NONE", "BEGIN", "COMMIT"} : AddQuery(flag)
       \/ InsertFristQuery
       \/ Ping \/ Shutdown

Run == \/ RunPing
       \/ Discard
       \/ PopEmpty
       \/ WaitBegin
       \/ WaitReturns
       \/ \E q \in queries : ExecuteOk(q) \/ ExecuteFails(q)

Next == Lua \/ Run \/ LoseSession

Spec == Init /\ [][Next]_vars

-------------------------------------------------------------------------------
(* The types; flag_ is never COMMIT, which Run turns into NONE at once. *)
TypeOK == /\ query_list_ \in Seq(Query \cup {PingQuery})
          /\ is_running_ \in BOOLEAN
          /\ thread \in {"run", "idle", "wait", "exited"}
          /\ event_ \in BOOLEAN
          /\ flag_ \in Flags \ {"COMMIT"}
          /\ session \in {"up", "lost", "closed"}
          /\ autocommit \in BOOLEAN
          /\ pending \subseteq 1..MaxQueries
          /\ durable \subseteq 1..MaxQueries
          /\ answer \in [1..MaxQueries -> {"none", "ok", "failed"}]
          /\ queries \subseteq Query
          /\ open \in 0..MaxQueries

(* The statements of a transaction, and whether its COMMIT is queued. *)
Statements(t) == {q.id : q \in {x \in queries : x.txn = t}}
Txns == {q.txn : q \in queries} \ {NoTxn}
Closed(t) == \E q \in queries : q.txn = t /\ q.flag = "COMMIT"

(* Begin/Commit/RollbackTransaction and flag_: the writes of a transaction are *)
(* committed all together, after its COMMIT, or not at all.                   *)
Atomic == \A t \in Txns :
    Statements(t) \cap durable # {} => Closed(t) /\ Statements(t) \subseteq durable

(* "Commit before answering": a COMMIT query that is answered with success is  *)
(* committed, with its whole transaction; one answered with failure is not.   *)
CommitAnswer == \A q \in queries : q.flag = "COMMIT" =>
    /\ answer[q.id] = "ok" => Statements(q.txn) \subseteq durable
    /\ answer[q.id] = "failed" => Statements(q.txn) \cap durable = {}

(* "Roll back before answering": once any query of a transaction is answered  *)
(* with failure, none of its writes is or ever gets committed.                *)
FailedMeansNothing == \A q \in queries :
    answer[q.id] = "failed" /\ q.txn # NoTxn => Statements(q.txn) \cap durable = {}

(* A query in line and outside transactions: Lua added it, at the back. *)
Alone(q) == q.txn = NoTxn /\ ~q.first

(* A query outside transactions that was answered with success is committed;  *)
(* insert_frist_query may disturb the transaction it falls into, but none of  *)
(* the queries between transactions.                                          *)
AnsweredIsDurable == \A q \in queries :
    Alone(q) /\ answer[q.id] = "ok" => q.id \in durable

(* The thread never leaves a transaction half open: when it has nothing left  *)
(* and Lua has closed its transactions, the session is back in autocommit.    *)
BackToAutocommit == (query_list_ = <<>> /\ open = NoTxn /\ thread # "exited")
    => flag_ = "NONE" /\ autocommit /\ pending = {}
===============================================================================
