--------------------------- MODULE Connection_proofs ---------------------------
(* Proofs about the transactions of a MySQL connection, for every number of   *)
(* queries and pings.                                                         *)
EXTENDS Connection, FiniteSetTheorems, SequenceTheorems, TLAPS

-------------------------------------------------------------------------------
(* The inductive invariant. *)

(* The queries in a queue. *)
Names(list) == {list[k] : k \in DOMAIN list} \ {PingQuery}

(* a may stand before b. *)
Before(a, b) == a.id # b.id /\ (a.first \/ b.first \/ a.id < b.id)

(* A query stands in the queue once, and those added at the back stand in the *)
(* order of their ids.                                                        *)
Ordered(list) == \A j, k \in 1..Len(list) :
    j < k /\ list[j] # PingQuery /\ list[k] # PingQuery => Before(list[j], list[k])

Queued == Names(query_list_)

Past == queries \ Queued

Line == Ordered(query_list_)

(* Each query has an id of its own, its BEGIN has the id of the transaction,  *)
(* and a query that is put in front belongs to none.                          *)
Named == /\ IsFiniteSet(queries)
         /\ \A q \in queries : q.id <= Cardinality(queries)
         /\ \A p, q \in queries : p.id = q.id => p = q
         /\ \A q \in queries :
              /\ q.flag # "ROLLBACK"
              /\ q.first => q.flag = "NONE" /\ q.txn = NoTxn
              /\ q.flag = "BEGIN" <=> q.txn = q.id
              /\ q.flag = "COMMIT" => q.txn # NoTxn
              /\ q.txn <= q.id

(* What Lua writes: one transaction after the other, each from its BEGIN to   *)
(* its COMMIT, and the open one last.                                         *)
Written ==
    /\ \A q \in queries : q.txn # NoTxn => \E b \in queries : b.id = q.txn /\ b.flag = "BEGIN"
    /\ open # NoTxn => \E b \in queries : b.id = open /\ b.flag = "BEGIN"
    /\ \A q \in queries : q.txn # NoTxn /\ q.txn # open => Closed(q.txn)
    /\ open # NoTxn => ~Closed(open)
    /\ \A p, q \in queries : p.txn # NoTxn /\ p.txn = q.txn /\ p.id < q.id => p.flag # "COMMIT"
    /\ \A p, q \in queries : p.txn # NoTxn /\ ~q.first /\ p.id < q.id /\ p.txn # q.txn
         => \E c \in queries : c.txn = p.txn /\ c.flag = "COMMIT" /\ c.id < q.id

(* The queue holds the last of the queries added at the back. *)
Behind == /\ Queued \subseteq queries
          /\ \A p \in Past, q \in Queued : p.first \/ q.first \/ p.id < q.id

(* Only what was popped is answered or written. *)
Touched == \A i \in 1..MaxQueries :
    (i \in durable \/ i \in pending \/ answer[i] # "none") => \E q \in Past : q.id = i

(* The thread is inside transaction t: its BEGIN was popped, its COMMIT not. *)
Inside(t) == /\ \E b \in Past : b.id = t /\ b.flag = "BEGIN"
             /\ \A c \in Past : c.txn = t => c.flag # "COMMIT"

(* flag_ says whether it is inside one, and outside nothing is uncommitted. *)
Flagged == /\ flag_ = "NONE" => \A t \in 1..MaxQueries : ~Inside(t)
           /\ flag_ # "NONE" => \E t \in 1..MaxQueries : Inside(t)
           /\ flag_ # "BEGIN" => autocommit /\ pending = {}

(* The session is not lost inside a transaction. *)
Kept == "txn" \notin LossPoints

(* The open transaction of the session is that of the thread. *)
Opened == /\ flag_ = "BEGIN" => ~autocommit
          /\ session = "lost" => autocommit
          /\ flag_ = "BEGIN" /\ thread # "exited" =>
               \A t \in 1..MaxQueries, q \in queries :
                 Inside(t) /\ ~q.first => (q.id \in pending <=> q \in Past /\ q.txn = t)

(* A transaction of which a write is committed is over, and committed whole. *)
Whole == \A q \in queries : q.txn # NoTxn /\ q.id \in durable
    => /\ \E c \in Past : c.txn = q.txn /\ c.flag = "COMMIT"
       /\ \A p \in queries : p.txn = q.txn => p.id \in durable

(* A transaction of which a query failed is thrown away. *)
Failed == \A q \in queries : q.txn # NoTxn /\ answer[q.id] = "failed"
    => /\ \A p \in queries : p.txn = q.txn => p.id \notin durable
       /\ Inside(q.txn) => flag_ = "ROLLBACK"

(* When mysql_commit does not fail, a COMMIT that was answered is done. *)
Committed == \A q \in queries : q.flag = "COMMIT" /\ answer[q.id] = "ok"
    => \A p \in queries : p.txn = q.txn => p.id \in durable

Inv == /\ TypeOK /\ Line /\ Named /\ Written /\ Behind /\ Touched /\ Flagged
       /\ AnsweredIsDurable
       /\ Kept => Opened /\ Whole /\ Failed
       /\ Kept /\ ~CommitFails => Committed

-------------------------------------------------------------------------------
(* The queue. *)

(* pop *)
LEMMA TailFacts ==
    ASSUME NEW X, NEW s \in Seq(X), s # <<>>, Ordered(s)
    PROVE  /\ Tail(s) \in Seq(X) /\ Ordered(Tail(s)) /\ Head(s) \in X
           /\ Head(s) = PingQuery => Names(Tail(s)) = Names(s)
           /\ Head(s) # PingQuery =>
                /\ Head(s) \in Names(s)
                /\ Names(Tail(s)) = Names(s) \ {Head(s)}
                /\ \A p \in Names(s) : p # Head(s) => Before(Head(s), p)
<1> DEFINE t == Tail(s)
           h == Head(s)
<1>1. /\ Len(s) \in Nat /\ Len(s) > 0 /\ h = s[1] /\ h \in X /\ t \in Seq(X)
      /\ DOMAIN s = 1..Len(s)
  BY HeadTailProperties, EmptySeq
<1>2. Len(t) = Len(s) - 1 /\ DOMAIN t = 1..Len(t) /\ \A k \in 1..Len(t) : t[k] = s[k + 1]
  BY <1>1, HeadTailProperties
<1> HIDE DEF t, h
<1>3. \A k \in 1..Len(t) : k + 1 \in 1..Len(s) /\ 1 < k + 1 /\ t[k] = s[k + 1]
  BY <1>1, <1>2
<1>4. \A k \in 1..Len(s) : k = 1 \/ (k - 1 \in 1..Len(t) /\ t[k - 1] = s[k])
  <2> SUFFICES ASSUME NEW k \in 1..Len(s), k # 1 PROVE k - 1 \in 1..Len(t) /\ t[k - 1] = s[k]
    OBVIOUS
  <2>1. k - 1 \in 1..Len(t) /\ (k - 1) + 1 = k
    BY <1>1, <1>2
  <2>2. QED
    BY <2>1, <1>2
<1>5. Ordered(t)
  <2> SUFFICES ASSUME NEW j \in 1..Len(t), NEW k \in 1..Len(t), j < k,
                      t[j] # PingQuery, t[k] # PingQuery
               PROVE  Before(t[j], t[k])
    BY DEF Ordered
  <2>1. j + 1 \in 1..Len(s) /\ k + 1 \in 1..Len(s) /\ t[j] = s[j + 1] /\ t[k] = s[k + 1]
    BY <1>3
  <2>2. j + 1 < k + 1
    BY <1>2
  <2>3. QED
    BY <2>1, <2>2 DEF Ordered
<1>6. Names(s) = Names(t) \cup ({h} \ {PingQuery})
  <2>1. ASSUME NEW x \in Names(s) PROVE x \in Names(t) \cup ({h} \ {PingQuery})
    <3>1. PICK k \in 1..Len(s) : x = s[k] /\ x # PingQuery
      BY <1>1 DEF Names
    <3>2. CASE k = 1
      BY <3>1, <3>2, <1>1
    <3>3. CASE k # 1
      <4>1. k - 1 \in 1..Len(t) /\ t[k - 1] = x
        BY <3>1, <3>3, <1>4
      <4>2. QED
        BY <4>1, <3>1, <1>2 DEF Names
    <3>4. QED
      BY <3>2, <3>3
  <2>2. ASSUME NEW x \in Names(t) PROVE x \in Names(s)
    <3>1. PICK k \in 1..Len(t) : x = t[k] /\ x # PingQuery
      BY <1>2 DEF Names
    <3>2. k + 1 \in 1..Len(s) /\ x = s[k + 1]
      BY <3>1, <1>3
    <3>3. QED
      BY <3>1, <3>2, <1>1 DEF Names
  <2>3. h # PingQuery => h \in Names(s)
    BY <1>1 DEF Names
  <2>4. QED
    BY <2>1, <2>2, <2>3
<1>7. ASSUME h # PingQuery, NEW p \in Names(t) PROVE Before(h, p) /\ p # h
  <2>1. PICK k \in 1..Len(t) : p = t[k] /\ p # PingQuery
    BY <1>2 DEF Names
  <2>2. k + 1 \in 1..Len(s) /\ p = s[k + 1] /\ 1 < k + 1 /\ 1 \in 1..Len(s)
    BY <2>1, <1>1, <1>3
  <2>3. Before(h, p)
    BY <2>1, <2>2, <1>1, <1>7 DEF Ordered
  <2>4. QED
    BY <2>3 DEF Before
<1>8. h = PingQuery => Names(t) = Names(s)
  BY <1>6
<1>9. h # PingQuery => /\ h \in Names(s) /\ Names(t) = Names(s) \ {h}
                       /\ \A p \in Names(s) : p # h => Before(h, p)
  BY <1>6, <1>7
<1>10. QED
  BY <1>1, <1>5, <1>8, <1>9 DEF t, h

(* push_back *)
LEMMA AppendFacts ==
    ASSUME NEW X, NEW s \in Seq(X), NEW x \in X, Ordered(s),
           x = PingQuery \/ \A p \in Names(s) : Before(p, x)
    PROVE  /\ Append(s, x) \in Seq(X) /\ Ordered(Append(s, x))
           /\ Names(Append(s, x)) = Names(s) \cup ({x} \ {PingQuery})
<1> DEFINE a == Append(s, x)
           m == Len(s) + 1
<1>1. Len(s) \in Nat /\ DOMAIN s = 1..Len(s)
  OBVIOUS
<1>2. /\ a \in Seq(X) /\ Len(a) = m /\ DOMAIN a = 1..m /\ a[m] = x
      /\ \A k \in 1..Len(s) : a[k] = s[k]
  BY AppendProperties
<1>3. m \in 1..m /\ (\A k \in 1..m : k = m \/ k \in 1..Len(s)) /\ \A k \in 1..Len(s) : k \in 1..m /\ ~(m < k)
  BY <1>1
<1> HIDE DEF a, m
<1>4. Ordered(a)
  <2> SUFFICES ASSUME NEW j \in 1..m, NEW k \in 1..m, j < k, a[j] # PingQuery, a[k] # PingQuery
               PROVE  Before(a[j], a[k])
    BY <1>2 DEF Ordered
  <2>1. j \in 1..Len(s) /\ a[j] = s[j]
    <3>1. j # m
      BY <1>1, <1>3 DEF m
    <3>2. QED
      BY <3>1, <1>2, <1>3
  <2>2. CASE k = m
    <3>1. s[j] \in Names(s)
      BY <2>1, <1>1 DEF Names
    <3>2. QED
      BY <3>1, <2>1, <2>2, <1>2
  <2>3. CASE k \in 1..Len(s)
    BY <2>1, <2>3, <1>2 DEF Ordered
  <2>4. QED
    BY <2>2, <2>3, <1>3
<1>5. Names(a) = Names(s) \cup ({x} \ {PingQuery})
  <2>1. {a[k] : k \in 1..m} = {s[k] : k \in 1..Len(s)} \cup {x}
    BY <1>2, <1>3
  <2>2. QED
    BY <2>1, <1>1, <1>2 DEF Names
<1>6. QED
  BY <1>2, <1>4, <1>5 DEF a

(* push_front *)
LEMMA ConsFacts ==
    ASSUME NEW X, NEW s \in Seq(X), NEW x \in X, Ordered(s), x # PingQuery,
           \A p \in Names(s) : Before(x, p)
    PROVE  /\ Cons(x, s) \in Seq(X) /\ Ordered(Cons(x, s))
           /\ Names(Cons(x, s)) = Names(s) \cup {x}
<1> DEFINE a == Cons(x, s)
           m == Len(s) + 1
<1>1. Len(s) \in Nat /\ DOMAIN s = 1..Len(s)
  OBVIOUS
<1>2. /\ a \in Seq(X) /\ Len(a) = m /\ DOMAIN a = 1..m /\ a[1] = x
      /\ \A k \in 2..m : a[k] = s[k - 1]
  <2>1. <<x>> \in Seq(X) /\ Len(<<x>>) = 1 /\ <<x>>[1] = x
    OBVIOUS
  <2>2. /\ a \in Seq(X) /\ Len(a) = 1 + Len(s)
        /\ \A k \in 1..1 + Len(s) : a[k] = IF k <= 1 THEN <<x>>[k] ELSE s[k - 1]
    BY <2>1, <1>1, ConcatProperties DEF Cons
  <2>3. QED
    BY <2>1, <2>2, <1>1
<1>3. /\ 1 \in 1..m
      /\ \A k \in 1..m : k = 1 \/ (k \in 2..m /\ k - 1 \in 1..Len(s))
      /\ \A k \in 1..Len(s) : k + 1 \in 1..m /\ k + 1 \in 2..m /\ (k + 1) - 1 = k
  BY <1>1
<1> HIDE DEF a, m
<1>4. \A k \in 1..Len(s) : a[k + 1] = s[k]
  BY <1>2, <1>3
<1>5. Ordered(a)
  <2> SUFFICES ASSUME NEW j \in 1..m, NEW k \in 1..m, j < k, a[j] # PingQuery, a[k] # PingQuery
               PROVE  Before(a[j], a[k])
    BY <1>2 DEF Ordered
  <2>1. k # 1
    BY <1>1 DEF m
  <2>2. k - 1 \in 1..Len(s) /\ a[k] = s[k - 1]
    BY <2>1, <1>2, <1>3
  <2>3. CASE j = 1
    <3>1. s[k - 1] \in Names(s)
      BY <2>2, <1>1 DEF Names
    <3>2. QED
      BY <3>1, <2>2, <2>3, <1>2
  <2>4. CASE j # 1
    <3>1. j - 1 \in 1..Len(s) /\ a[j] = s[j - 1] /\ j - 1 < k - 1
      BY <2>4, <1>2, <1>3
    <3>2. QED
      BY <2>2, <3>1 DEF Ordered
  <2>5. QED
    BY <2>3, <2>4
<1>6. Names(a) = Names(s) \cup {x}
  <2>1. ASSUME NEW k \in 1..m PROVE a[k] \in {s[i] : i \in 1..Len(s)} \cup {x}
    BY <1>2, <1>3
  <2>2. ASSUME NEW i \in 1..Len(s) PROVE s[i] \in {a[k] : k \in 1..m}
    BY <1>3, <1>4
  <2>3. x \in {a[k] : k \in 1..m}
    BY <1>2, <1>3
  <2>4. {a[k] : k \in 1..m} = {s[i] : i \in 1..Len(s)} \cup {x}
    BY <2>1, <2>2, <2>3
  <2>5. QED
    BY <2>4, <1>1, <1>2 DEF Names
<1>7. QED
  BY <1>2, <1>5, <1>6 DEF a

-------------------------------------------------------------------------------
(* The queries of a transaction. *)

(* The fields of a query. *)
LEMMA QueryFacts ==
    ASSUME TypeOK, NEW q \in queries
    PROVE  /\ q.id \in 1..MaxQueries /\ q.id \in Nat /\ q.id >= 1
           /\ q.txn \in 0..MaxQueries /\ q.txn \in Nat
           /\ q.flag \in Flags /\ q.first \in BOOLEAN /\ q # PingQuery
<1>1. q \in Query /\ MaxQueries \in Nat
  BY ConnectionAssumption DEF TypeOK
<1>2. q.id \in 1..MaxQueries /\ q.txn \in 0..MaxQueries /\ q.flag \in Flags /\ q.first \in BOOLEAN
  BY <1>1 DEF Query
<1>3. q.id \in Nat /\ q.id >= 1 /\ q.txn \in Nat
  BY <1>1, <1>2
<1>4. q # PingQuery
  <2>1. PingQuery.id = 0
    BY DEF PingQuery
  <2>2. QED
    BY <2>1, <1>3
<1>5. QED
  BY <1>2, <1>3, <1>4

(* The thread is inside one transaction at a time. *)
LEMMA OneInside ==
    ASSUME TypeOK, Named, Written, Behind, NEW t, NEW u, Inside(t), Inside(u)
    PROVE  t = u
<1>1. \A i, j \in Nat : i = j \/ i < j \/ j < i
  OBVIOUS
<1>2. ASSUME NEW a \in Past, NEW b \in Past, a.flag = "BEGIN", b.flag = "BEGIN", a.id < b.id,
             \A c \in Past : c.txn = a.id => c.flag # "COMMIT"
      PROVE  FALSE
  <2>1. /\ a \in queries /\ b \in queries /\ a.txn = a.id /\ b.txn = b.id /\ ~b.first
        /\ a.id \in Nat /\ b.id \in Nat /\ a.id >= 1
    BY <1>2, QueryFacts DEF Past, Named
  <2>2. a.txn # NoTxn /\ a.txn # b.txn
    BY <2>1, <1>2 DEF NoTxn
  <2>3. PICK c \in queries : c.txn = a.txn /\ c.flag = "COMMIT" /\ c.id < b.id
    BY <2>1, <2>2, <1>2 DEF Written
  <2>4. c \in Queued /\ ~c.first /\ c.id \in Nat
    BY <2>1, <2>3, <1>2, QueryFacts DEF Past, Named
  <2>5. b.id < c.id
    BY <2>1, <2>4, <1>2 DEF Behind
  <2>6. QED
    BY <2>1, <2>3, <2>4, <2>5
<1>3. PICK a \in Past : a.id = t /\ a.flag = "BEGIN"
  BY DEF Inside
<1>4. PICK b \in Past : b.id = u /\ b.flag = "BEGIN"
  BY DEF Inside
<1>5. ~(a.id < b.id) /\ ~(b.id < a.id)
  BY <1>2, <1>3, <1>4 DEF Inside
<1>6. a.id \in Nat /\ b.id \in Nat
  BY QueryFacts DEF Past
<1>7. QED
  BY <1>1, <1>3, <1>4, <1>5, <1>6

(* The query at the front of the queue, when it was added at the back,        *)
(* belongs to the transaction that the thread is inside, or starts one.       *)
LEMMA FrontFits ==
    ASSUME TypeOK, Named, Written, Behind, NEW q \in Queued, ~q.first,
           \A p \in Queued : p # q => Before(q, p)
    PROVE  /\ \A t : Inside(t) => q.txn = t /\ q.flag # "BEGIN"
           /\ \A c \in Past : q.txn # NoTxn /\ c.txn = q.txn => c.flag # "COMMIT"
           /\ q.txn # NoTxn /\ q.flag # "BEGIN" => Inside(q.txn)
           /\ \A p \in queries : q.flag = "COMMIT" /\ p.txn = q.txn => p = q \/ p \in Past
<1>q. q \in queries /\ q.id \in Nat /\ q.id >= 1
  BY QueryFacts DEF Behind
<1>b. \A p \in Past : p \in queries /\ p.id \in Nat /\ (p.first \/ p.id < q.id)
  BY QueryFacts DEF Behind, Past
<1>1. ASSUME NEW t, Inside(t) PROVE q.txn = t /\ q.flag # "BEGIN"
  <2>1. PICK b \in Past : b.id = t /\ b.flag = "BEGIN"
    BY <1>1 DEF Inside
  <2>2. b.txn = t /\ ~b.first /\ b.id < q.id /\ b.txn # NoTxn /\ t \in Nat
    <3>1. b.id >= 1 /\ b.id \in Nat /\ ~b.first /\ b.txn = b.id
      BY <2>1, <1>b, QueryFacts DEF Named
    <3>2. QED
      BY <3>1, <2>1, <1>b DEF NoTxn
  <2>3. q.txn = t
    <3> SUFFICES ASSUME q.txn # t PROVE FALSE
      OBVIOUS
    <3>1. PICK c \in queries : c.txn = t /\ c.flag = "COMMIT" /\ c.id < q.id
      BY <2>1, <2>2, <1>q, <1>b DEF Written
    <3>2. c \in Queued /\ ~c.first /\ c.id \in Nat
      BY <3>1, <1>1, QueryFacts DEF Inside, Past, Named
    <3>3. c # q /\ q.id < c.id
      BY <3>1, <3>2, <1>q DEF Before
    <3>4. QED
      BY <3>1, <3>2, <3>3, <1>q
  <2>4. q.flag # "BEGIN"
    <3> SUFFICES ASSUME q.flag = "BEGIN" PROVE FALSE
      OBVIOUS
    <3>1. q.id = b.id
      BY <2>1, <2>3, <1>q DEF Named
    <3>2. QED
      BY <3>1, <2>2, <1>q, <1>b
  <2>5. QED
    BY <2>3, <2>4
<1>2. ASSUME NEW c \in Past, q.txn # NoTxn, c.txn = q.txn PROVE c.flag # "COMMIT"
  <2>1. ~c.first
    BY <1>2, <1>b DEF Named
  <2>2. c.id < q.id /\ c \in queries
    BY <2>1, <1>b
  <2>3. QED
    BY <2>2, <1>2, <1>q DEF Written
<1>3. ASSUME q.txn # NoTxn, q.flag # "BEGIN" PROVE Inside(q.txn)
  <2>1. PICK b \in queries : b.id = q.txn /\ b.flag = "BEGIN"
    BY <1>3, <1>q DEF Written
  <2>2. b # q /\ ~b.first /\ b.id \in Nat
    BY <2>1, <1>3, QueryFacts DEF Named
  <2>3. b.id <= q.id
    BY <2>1, <1>q DEF Named
  <2>4. b \in Past
    <3> SUFFICES ASSUME b \in Queued PROVE FALSE
      BY <2>1 DEF Past
    <3>1. q.id < b.id
      BY <2>2 DEF Before
    <3>2. QED
      BY <3>1, <2>2, <2>3, <1>q
  <2>5. QED
    BY <2>1, <2>4, <1>2, <1>3 DEF Inside
<1>4. ASSUME NEW p \in queries, q.flag = "COMMIT", p.txn = q.txn, p # q PROVE p \in Past
  <2>1. q.txn # NoTxn
    BY <1>4, <1>q DEF Named
  <2>2. ~p.first /\ p.id \in Nat
    BY <2>1, <1>4, QueryFacts DEF Named
  <2>3. ~(q.id < p.id)
    BY <2>1, <1>4, <1>q DEF Written
  <2>4. p \notin Queued
    BY <2>2, <2>3, <1>4 DEF Before
  <2>5. QED
    BY <2>4 DEF Past
<1>5. QED
  BY <1>1, <1>2, <1>3, <1>4

(* The query at the front is popped. *)
LEMMA PopFacts ==
    ASSUME Inv, query_list_ # <<>>, Head(query_list_) # PingQuery,
           query_list_' = Tail(query_list_), UNCHANGED <<queries, open>>,
           NEW q, q = Head(query_list_)
    PROVE  /\ q \in Queued /\ q \in queries
           /\ \A p \in Queued : p # q => Before(q, p)
           /\ Queued' = Queued \ {q} /\ Past' = Past \cup {q}
           /\ query_list_' \in Seq(Query \cup {PingQuery})
           /\ Line' /\ Named' /\ Written' /\ Behind'
<1>t. TypeOK /\ Line /\ Named /\ Written /\ Behind
  BY DEF Inv
<1>1. query_list_ \in Seq(Query \cup {PingQuery}) /\ Ordered(query_list_)
  BY <1>t DEF TypeOK, Line
<1>2. /\ Tail(query_list_) \in Seq(Query \cup {PingQuery}) /\ Ordered(Tail(query_list_))
      /\ q \in Names(query_list_) /\ Names(Tail(query_list_)) = Names(query_list_) \ {q}
      /\ \A p \in Names(query_list_) : p # q => Before(q, p)
  BY <1>1, TailFacts
<1>3. q \in Queued /\ Queued' = Queued \ {q} /\ \A p \in Queued : p # q => Before(q, p)
  BY <1>2 DEF Queued
<1>4. q \in queries /\ Past' = Past \cup {q}
  BY <1>3, <1>t DEF Behind, Past
<1>5. Line' /\ query_list_' \in Seq(Query \cup {PingQuery})
  BY <1>2 DEF Line
<1>6. Named' /\ Written'
  BY <1>t DEF Named, Written, Closed
<1>7. Behind'
  <2>1. Queued' \subseteq queries'
    BY <1>3, <1>t DEF Behind
  <2>2. ASSUME NEW p \in Past \cup {q}, NEW r \in Queued \ {q} PROVE p.first \/ r.first \/ p.id < r.id
    <3>1. CASE p \in Past
      BY <3>1, <1>t DEF Behind
    <3>2. CASE p = q
      BY <3>2, <1>3 DEF Before
    <3>3. QED
      BY <3>1, <3>2
  <2>3. QED
    BY <2>1, <2>2, <1>3, <1>4 DEF Behind
<1>8. QED
  BY <1>3, <1>4, <1>5, <1>6, <1>7

(* Which transaction the thread is inside, before and after. *)
LEMMA InsidePop ==
    ASSUME Inv, NEW q \in Queued, q \in queries, Past' = Past \cup {q},
           \A p \in Queued : p # q => Before(q, p)
    PROVE  /\ flag_ = "NONE" => q.flag # "COMMIT" /\ (q.flag = "NONE" => q.txn = NoTxn)
           /\ flag_ # "NONE" => /\ q.flag # "BEGIN"
                                /\ \E t \in 1..MaxQueries : Inside(t) /\ (~q.first => q.txn = t)
           /\ q.flag = "BEGIN" => \A t : Inside(t)' <=> t = q.id
           /\ q.flag = "COMMIT" => \A t : ~Inside(t)'
           /\ q.flag = "NONE" => \A t : Inside(t)' <=> Inside(t)
<1>t. TypeOK /\ Named /\ Written /\ Behind /\ Flagged
  BY DEF Inv
<1>q. /\ q.id \in 1..MaxQueries /\ q.id >= 1 /\ q.id \in Nat /\ q.txn \in 0..MaxQueries /\ q.txn \in Nat
      /\ (q.first => q.flag = "NONE" /\ q.txn = NoTxn) /\ (q.flag = "BEGIN" <=> q.txn = q.id)
      /\ (q.flag = "COMMIT" => q.txn # NoTxn)
  BY <1>t, QueryFacts DEF Named
<1>f. ~q.first => /\ \A t : Inside(t) => q.txn = t /\ q.flag # "BEGIN"
                  /\ \A c \in Past : q.txn # NoTxn /\ c.txn = q.txn => c.flag # "COMMIT"
                  /\ q.txn # NoTxn /\ q.flag # "BEGIN" => Inside(q.txn)
  BY <1>t, FrontFits
<1>m. q.txn # NoTxn => q.txn \in 1..MaxQueries
  BY <1>q DEF NoTxn
<1>1. flag_ = "NONE" => q.flag # "COMMIT" /\ (q.flag = "NONE" => q.txn = NoTxn)
  <2> SUFFICES ASSUME flag_ = "NONE" PROVE q.flag # "COMMIT" /\ (q.flag = "NONE" => q.txn = NoTxn)
    OBVIOUS
  <2>1. \A t \in 1..MaxQueries : ~Inside(t)
    BY <1>t DEF Flagged
  <2>2. QED
    BY <2>1, <1>q, <1>f, <1>m
<1>2. ASSUME flag_ # "NONE"
      PROVE  q.flag # "BEGIN" /\ \E t \in 1..MaxQueries : Inside(t) /\ (~q.first => q.txn = t)
  <2>1. PICK t \in 1..MaxQueries : Inside(t)
    BY <1>2, <1>t DEF Flagged
  <2>2. QED
    BY <2>1, <1>q, <1>f
<1>3. ASSUME NEW t
      PROVE  Inside(t)' <=> /\ \E b \in Past \cup {q} : b.id = t /\ b.flag = "BEGIN"
                            /\ \A c \in Past \cup {q} : c.txn = t => c.flag # "COMMIT"
  BY DEF Inside
<1>4. ASSUME q.flag = "BEGIN", NEW t PROVE Inside(t)' <=> t = q.id
  <2>1. ~q.first /\ q.txn = q.id /\ q.txn # NoTxn
    BY <1>4, <1>q DEF NoTxn
  <2>2. ~Inside(t)
    BY <2>1, <1>4, <1>f
  <2>3. \A c \in Past \cup {q} : c.txn = q.id => c.flag # "COMMIT"
    BY <2>1, <1>4, <1>f
  <2>4. QED
    BY <2>2, <2>3, <1>3, <1>4 DEF Inside
<1>5. ASSUME q.flag = "COMMIT", NEW t PROVE ~Inside(t)'
  <2>1. ~q.first /\ q.flag # "BEGIN"
    BY <1>5, <1>q
  <2>2. Inside(t) => q.txn = t
    BY <2>1, <1>f
  <2>3. QED
    BY <2>1, <2>2, <1>3, <1>5 DEF Inside
<1>6. ASSUME q.flag = "NONE", NEW t PROVE Inside(t)' <=> Inside(t)
  BY <1>3, <1>6 DEF Inside
<1>7. QED
  BY <1>1, <1>2, <1>4, <1>5, <1>6

-------------------------------------------------------------------------------
(* Lua queues a query. *)

(* Its id is new, and it continues the open transaction, starts one, or       *)
(* belongs to none.                                                           *)
NewQuery(q) ==
    /\ q.id = NextId /\ q.id <= MaxQueries
    /\ \/ q.flag = "NONE" /\ q.txn = NoTxn /\ open' = open /\ (~q.first => open = NoTxn)
       \/ q.flag = "BEGIN" /\ ~q.first /\ q.txn = q.id /\ open = NoTxn /\ open' = q.id
       \/ q.flag = "NONE" /\ ~q.first /\ q.txn = open /\ open # NoTxn /\ open' = open
       \/ q.flag = "COMMIT" /\ ~q.first /\ q.txn = open /\ open # NoTxn /\ open' = NoTxn

(* What queueing it does. *)
Entered(q) == /\ NewQuery(q)
              /\ queries' = queries \cup {q}
              /\ Queued' = Queued \cup {q}
              /\ query_list_' \in Seq(Query \cup {PingQuery}) /\ Line'
              /\ event_' \in BOOLEAN
              /\ UNCHANGED <<is_running_, thread, flag_, answer, dbVars>>

(* The ids given so far. *)
LEMMA Counted ==
    ASSUME TypeOK, Named
    PROVE  /\ Cardinality(queries) \in Nat /\ NextId \in Nat /\ NextId >= 1
           /\ \A p \in queries : p.id < NextId /\ p.txn < NextId
<1>1. Cardinality(queries) \in Nat
  BY FS_CardinalityType DEF Named
<1>2. ASSUME NEW p \in queries PROVE p.id < NextId /\ p.txn < NextId
  <2>1. p.id \in Nat /\ p.txn \in Nat /\ p.id <= Cardinality(queries) /\ p.txn <= p.id
    BY QueryFacts DEF Named
  <2>2. QED
    BY <2>1, <1>1 DEF NextId
<1>3. QED
  BY <1>1, <1>2 DEF NextId

(* Nothing was done with an id that is not given yet. *)
LEMMA Untouched ==
    ASSUME TypeOK, Named, Touched, NextId <= MaxQueries
    PROVE  NextId \in 1..MaxQueries /\ NextId \notin durable /\ NextId \notin pending /\ answer[NextId] = "none"
<1>1. NextId \in 1..MaxQueries
  BY Counted, ConnectionAssumption
<1>2. \A p \in Past : p.id # NextId
  <2>1. \A p \in Past : p.id < NextId /\ p.id \in Nat /\ NextId \in Nat
    BY Counted, QueryFacts DEF Past
  <2>2. QED
    BY <2>1
<1>3. QED
  BY <1>1, <1>2 DEF Touched

(* The names and the transactions. *)
LEMMA AddNames ==
    ASSUME TypeOK, Named, Written, NEW q \in Query, NewQuery(q), queries' = queries \cup {q}
    PROVE  Named' /\ Written'
<1>c. /\ Cardinality(queries) \in Nat /\ NextId \in Nat /\ NextId >= 1
      /\ \A p \in queries : p.id < NextId /\ p.txn < NextId
  BY Counted
<1>q. /\ q.id = NextId /\ q.id \in Nat /\ q.txn \in Nat /\ q.id >= 1 /\ open \in Nat
      /\ \A p \in queries : p.id \in Nat /\ p.txn \in Nat /\ p.id >= 1
  <2>1. q.id \in 1..MaxQueries /\ q.txn \in 0..MaxQueries /\ open \in 0..MaxQueries /\ MaxQueries \in Nat
    BY ConnectionAssumption DEF Query, TypeOK
  <2>2. q.id = NextId /\ q.id \in Nat /\ q.txn \in Nat /\ q.id >= 1 /\ open \in Nat
    BY <2>1 DEF NewQuery
  <2>3. QED
    BY <2>2, QueryFacts
<1>n. \A p \in queries : p.id # q.id /\ p.id < q.id /\ p.txn # q.id /\ ~(q.id < p.id) /\ p # q
  BY <1>c, <1>q
<1>o. open # q.id
  <2>1. open # NoTxn => \E b \in queries : b.id = open
    BY DEF Written
  <2>2. QED
    BY <2>1, <1>n, <1>q DEF NoTxn
<1>1. Named'
  <2>1. IsFiniteSet(queries') /\ Cardinality(queries') = Cardinality(queries) + 1
    BY <1>n, FS_AddElement DEF Named
  <2>2. \A p \in queries' : p.id <= Cardinality(queries')
    <3>1. q.id <= Cardinality(queries')
      BY <2>1, <1>q, <1>c DEF NextId
    <3>2. \A p \in queries : p.id <= Cardinality(queries')
      BY <3>1, <2>1, <1>n, <1>q, <1>c
    <3>3. QED
      BY <3>1, <3>2
  <2>3. \A p, r \in queries' : p.id = r.id => p = r
    BY <1>n DEF Named
  <2>4. /\ q.flag # "ROLLBACK" /\ (q.first => q.flag = "NONE" /\ q.txn = NoTxn)
        /\ (q.flag = "BEGIN" <=> q.txn = q.id) /\ (q.flag = "COMMIT" => q.txn # NoTxn)
    BY <1>o, <1>q DEF NewQuery, NoTxn
  <2>5. q.txn <= q.id
    <3>1. open # NoTxn => \E b \in queries : b.id = open
      BY DEF Written
    <3>2. open # NoTxn => open < q.id
      BY <3>1, <1>n
    <3>3. q.txn = NoTxn \/ q.txn = q.id \/ (open # NoTxn /\ q.txn = open)
      BY DEF NewQuery
    <3>4. QED
      BY <3>2, <3>3, <1>q DEF NoTxn
  <2>6. QED
    BY <2>1, <2>2, <2>3, <2>4, <2>5 DEF Named
<1>2. \A p \in queries' : p.txn # NoTxn => \E b \in queries' : b.id = p.txn /\ b.flag = "BEGIN"
  <2>1. q.txn # NoTxn => \E b \in queries \cup {q} : b.id = q.txn /\ b.flag = "BEGIN"
    BY DEF NewQuery, Written
  <2>2. QED
    BY <2>1 DEF Written
<1>3. open' # NoTxn => \E b \in queries' : b.id = open' /\ b.flag = "BEGIN"
  BY DEF NewQuery, Written
<1>4. \A p \in queries' : p.txn # NoTxn /\ p.txn # open' => Closed(p.txn)'
  <2>1. ASSUME NEW t, Closed(t) PROVE Closed(t)'
    BY <2>1 DEF Closed
  <2>2. ASSUME NEW p \in queries, p.txn # NoTxn, p.txn # open' PROVE Closed(p.txn)'
    <3>1. CASE p.txn # open
      BY <3>1, <2>1, <2>2 DEF Written
    <3>2. CASE p.txn = open
      <4>1. q.flag = "COMMIT" /\ q.txn = p.txn
        BY <3>2, <2>2 DEF NewQuery
      <4>2. QED
        BY <4>1 DEF Closed
    <3>3. QED
      BY <3>1, <3>2
  <2>3. q.txn # NoTxn /\ q.txn # open' => Closed(q.txn)'
    BY DEF NewQuery, Closed
  <2>4. QED
    BY <2>2, <2>3
<1>5. (open # NoTxn => ~Closed(open))'
  <2>1. open' # NoTxn => q.flag # "COMMIT"
    BY DEF NewQuery
  <2>2. ASSUME open' # NoTxn, NEW p \in queries, p.txn = open' PROVE p.flag # "COMMIT"
    <3>1. open = open'
      BY <2>2, <1>n DEF NewQuery
    <3>2. QED
      BY <3>1, <2>2 DEF Written, Closed
  <2>3. QED
    BY <2>1, <2>2 DEF Closed
<1>6. \A p, r \in queries' : p.txn # NoTxn /\ p.txn = r.txn /\ p.id < r.id => p.flag # "COMMIT"
  <2>1. ASSUME NEW p \in queries, p.txn # NoTxn, p.txn = q.txn PROVE p.flag # "COMMIT"
    <3>1. p.txn = open /\ open # NoTxn
      BY <2>1, <1>n DEF NewQuery
    <3>2. QED
      BY <3>1 DEF Written, Closed
  <2>2. ~(q.id < q.id)
    BY <1>q
  <2>3. QED
    BY <2>1, <2>2, <1>n DEF Written
<1>7. \A p, r \in queries' : p.txn # NoTxn /\ ~r.first /\ p.id < r.id /\ p.txn # r.txn
        => \E c \in queries' : c.txn = p.txn /\ c.flag = "COMMIT" /\ c.id < r.id
  <2>1. ASSUME NEW p \in queries, p.txn # NoTxn, ~q.first, p.txn # q.txn
        PROVE  \E c \in queries : c.txn = p.txn /\ c.flag = "COMMIT" /\ c.id < q.id
    <3>1. p.txn # open
      BY <2>1 DEF NewQuery
    <3>2. QED
      BY <3>1, <2>1, <1>n DEF Written, Closed
  <2>2. ~(q.id < q.id)
    BY <1>q
  <2>3. QED
    BY <2>1, <2>2, <1>n DEF Written
<1>8. QED
  BY <1>1, <1>2, <1>3, <1>4, <1>5, <1>6, <1>7 DEF Written

(* The whole invariant. *)
LEMMA EnqueueNext ==
    ASSUME Inv, NEW q \in Query, Entered(q)
    PROVE  Inv'
<1> USE DEF Entered
<1>t. TypeOK /\ Named /\ Written /\ Behind /\ Touched /\ Flagged /\ AnsweredIsDurable
  BY DEF Inv
<1>u. UNCHANGED <<is_running_, thread, flag_, answer, session, autocommit, pending, durable>>
  BY DEF dbVars
<1>n. /\ q.id = NextId /\ NextId <= MaxQueries
      /\ NextId \in 1..MaxQueries /\ NextId \notin durable /\ NextId \notin pending /\ answer[NextId] = "none"
  BY <1>t, Untouched DEF NewQuery
<1>i. \A p \in queries : p.id \in Nat /\ p.txn \in Nat /\ p.id < q.id /\ p.id # q.id /\ p.txn # q.id /\ p # q
  <2>1. \A p \in queries : p.id \in Nat /\ p.txn \in Nat /\ p.id < NextId /\ p.txn < NextId /\ NextId \in Nat
    BY <1>t, QueryFacts, Counted
  <2>2. QED
    BY <2>1, <1>n
<1>o. \A p \in queries : p.txn # NoTxn /\ p.txn = q.txn => ~Closed(p.txn)
  <2>1. \A p \in queries : p.txn # NoTxn /\ p.txn = q.txn => p.txn = open /\ open # NoTxn
    BY <1>i DEF NewQuery
  <2>2. QED
    BY <2>1, <1>t DEF Written
<1>p. Past' = Past /\ q \notin Past
  BY <1>i, <1>t DEF Past, Behind
<1>s. \A t : Inside(t)' <=> Inside(t)
  BY <1>p DEF Inside
<1>1. TypeOK'
  <2>1. open' \in 0..MaxQueries
    <3>1. open' \in {open, q.id, NoTxn}
      BY DEF NewQuery
    <3>2. open \in 0..MaxQueries /\ q.id \in 0..MaxQueries /\ NoTxn \in 0..MaxQueries
      BY <1>t, <1>n, ConnectionAssumption DEF TypeOK, NoTxn
    <3>3. QED
      BY <3>1, <3>2
  <2>2. QED
    BY <2>1, <1>t, <1>u DEF TypeOK
<1>2. Named' /\ Written'
  BY <1>t, AddNames
<1>3. Behind'
  <2>1. ASSUME NEW p \in Past PROVE p.id < q.id
    BY <1>i DEF Past
  <2>2. QED
    BY <2>1, <1>p, <1>t DEF Behind
<1>4. Touched'
  BY <1>p, <1>u, <1>t DEF Touched
<1>5. Flagged'
  BY <1>s, <1>u, <1>t DEF Flagged
<1>6. AnsweredIsDurable'
  BY <1>n, <1>u, <1>t DEF AnsweredIsDurable, Alone
<1>7. Kept => Opened' /\ Whole' /\ Failed'
  <2> SUFFICES ASSUME Kept PROVE Opened' /\ Whole' /\ Failed'
    OBVIOUS
  <2>t. Opened /\ Whole /\ Failed
    BY DEF Inv
  <2>1. Opened'
    BY <1>n, <1>p, <1>s, <1>u, <2>t DEF Opened
  <2>2. Whole'
    <3> SUFFICES ASSUME NEW r \in queries', r.txn # NoTxn, r.id \in durable
                 PROVE  /\ \E c \in Past : c.txn = r.txn /\ c.flag = "COMMIT"
                        /\ \A p \in queries' : p.txn = r.txn => p.id \in durable
      BY <1>p, <1>u DEF Whole
    <3>1. r \in queries
      BY <1>n
    <3>2. PICK c \in Past : c.txn = r.txn /\ c.flag = "COMMIT"
      BY <3>1, <2>t DEF Whole
    <3>3. q.txn # r.txn
      BY <3>1, <3>2, <1>o DEF Closed, Past
    <3>4. QED
      BY <3>1, <3>2, <3>3, <2>t DEF Whole
  <2>3. Failed'
    BY <1>n, <1>s, <1>u, <2>t DEF Failed
  <2>4. QED
    BY <2>1, <2>2, <2>3
<1>8. Kept /\ ~CommitFails => Committed'
  <2> SUFFICES ASSUME Kept, ~CommitFails PROVE Committed'
    OBVIOUS
  <2>t. Committed
    BY DEF Inv
  <2> SUFFICES ASSUME NEW r \in queries', r.flag = "COMMIT", answer[r.id] = "ok",
                      NEW p \in queries', p.txn = r.txn
               PROVE  p.id \in durable
    BY <1>u DEF Committed
  <2>1. r \in queries
    BY <1>n
  <2>2. r.txn # NoTxn /\ Closed(r.txn)
    BY <2>1, <1>t DEF Named, Closed
  <2>3. p \in queries
    BY <2>1, <2>2, <1>o
  <2>4. QED
    BY <2>1, <2>3, <2>t DEF Committed
<1>9. QED
  BY <1>1, <1>2, <1>3, <1>4, <1>5, <1>6, <1>7, <1>8 DEF Inv

(* AddQuery *)
LEMMA AddEffect ==
    ASSUME Inv, NEW flag \in {"NONE", "BEGIN", "COMMIT"}, AddQuery(flag)
    PROVE  \E q \in Query : Entered(q)
<1>t. TypeOK /\ Line /\ Named /\ Behind
  BY DEF Inv
<1> DEFINE txn == IF flag = "BEGIN" THEN NextId ELSE open
           q == [id |-> NextId, flag |-> flag, txn |-> txn, first |-> FALSE]
<1>1. /\ Cardinality(queries) < MaxQueries
      /\ flag = "BEGIN" => open = NoTxn
      /\ flag = "COMMIT" => open # NoTxn
      /\ queries' = queries \cup {q} /\ query_list_' = Append(query_list_, q)
      /\ open' = IF flag = "COMMIT" THEN NoTxn ELSE txn
      /\ event_' \in BOOLEAN
      /\ UNCHANGED <<is_running_, thread, flag_, answer, dbVars>>
  BY DEF AddQuery, Enqueue, Notify
<1>2. NextId \in 1..MaxQueries /\ txn \in 0..MaxQueries
  <2>1. Cardinality(queries) \in Nat /\ MaxQueries \in Nat /\ open \in 0..MaxQueries
    BY <1>t, Counted, ConnectionAssumption DEF TypeOK
  <2>2. QED
    BY <2>1, <1>1 DEF NextId
<1>3. q \in Query
  BY <1>2 DEF Query, Flags
<1>4. NewQuery(q)
  <2>1. q.id = NextId /\ q.flag = flag /\ q.txn = txn /\ q.first = FALSE
    OBVIOUS
  <2>2. q.id <= MaxQueries
    BY <2>1, <1>2
  <2>3. CASE flag = "NONE"
    BY <2>1, <2>2, <2>3, <1>1 DEF NewQuery
  <2>4. CASE flag = "BEGIN"
    BY <2>1, <2>2, <2>4, <1>1 DEF NewQuery
  <2>5. CASE flag = "COMMIT"
    BY <2>1, <2>2, <2>5, <1>1 DEF NewQuery
  <2>6. QED
    BY <2>3, <2>4, <2>5
<1>q. q.id = NextId
  OBVIOUS
<1> HIDE DEF q
<1>5. \A p \in Names(query_list_) : Before(p, q)
  <2>1. \A p \in Queued : p.id < NextId /\ p.id \in Nat /\ NextId \in Nat
    BY <1>t, Counted, QueryFacts DEF Behind
  <2>2. QED
    BY <2>1, <1>q DEF Before, Queued
<1>6. q # PingQuery
  BY <1>2, <1>q DEF PingQuery
<1>7. /\ query_list_' \in Seq(Query \cup {PingQuery}) /\ Ordered(query_list_')
      /\ Names(query_list_') = Names(query_list_) \cup {q}
  <2>1. query_list_ \in Seq(Query \cup {PingQuery}) /\ Ordered(query_list_) /\ q \in Query \cup {PingQuery}
    BY <1>3, <1>t DEF TypeOK, Line
  <2>2. QED
    BY <2>1, <1>1, <1>5, <1>6, AppendFacts
<1>8. Line' /\ Queued' = Queued \cup {q}
  BY <1>7 DEF Line, Queued
<1>9. QED
  BY <1>1, <1>3, <1>4, <1>7, <1>8 DEF Entered

(* InsertFristQuery *)
LEMMA InsertEffect ==
    ASSUME Inv, InsertFristQuery
    PROVE  \E q \in Query : Entered(q)
<1>t. TypeOK /\ Line /\ Named /\ Behind
  BY DEF Inv
<1> DEFINE q == [id |-> NextId, flag |-> "NONE", txn |-> NoTxn, first |-> TRUE]
<1>1. /\ Cardinality(queries) < MaxQueries
      /\ queries' = queries \cup {q} /\ query_list_' = Cons(q, query_list_)
      /\ open' = open
      /\ event_' \in BOOLEAN
      /\ UNCHANGED <<is_running_, thread, flag_, answer, dbVars>>
  BY DEF InsertFristQuery, Enqueue, Notify
<1>2. NextId \in 1..MaxQueries /\ NoTxn \in 0..MaxQueries
  <2>1. Cardinality(queries) \in Nat /\ MaxQueries \in Nat
    BY <1>t, Counted, ConnectionAssumption
  <2>2. QED
    BY <2>1, <1>1 DEF NextId, NoTxn
<1>3. q \in Query
  BY <1>2 DEF Query, Flags
<1>q. q.id = NextId /\ q.flag = "NONE" /\ q.txn = NoTxn /\ q.first = TRUE
  OBVIOUS
<1> HIDE DEF q
<1>4. NewQuery(q)
  <2>1. q.id <= MaxQueries
    BY <1>q, <1>2
  <2>2. QED
    BY <2>1, <1>q, <1>1 DEF NewQuery
<1>5. \A p \in Names(query_list_) : Before(q, p)
  <2>1. \A p \in Queued : p.id < NextId /\ p.id \in Nat /\ NextId \in Nat
    BY <1>t, Counted, QueryFacts DEF Behind
  <2>2. QED
    BY <2>1, <1>q DEF Before, Queued
<1>6. q # PingQuery
  BY <1>2, <1>q DEF PingQuery
<1>7. /\ query_list_' \in Seq(Query \cup {PingQuery}) /\ Ordered(query_list_')
      /\ Names(query_list_') = Names(query_list_) \cup {q}
  <2>1. query_list_ \in Seq(Query \cup {PingQuery}) /\ Ordered(query_list_) /\ q \in Query \cup {PingQuery}
    BY <1>3, <1>t DEF TypeOK, Line
  <2>2. QED
    BY <2>1, <1>1, <1>5, <1>6, ConsFacts
<1>8. Line' /\ Queued' = Queued \cup {q}
  BY <1>7 DEF Line, Queued
<1>9. QED
  BY <1>1, <1>3, <1>4, <1>7, <1>8 DEF Entered

-------------------------------------------------------------------------------
(* The invariant is inductive. *)

(* The connection starts with nothing queued. *)
LEMMA InvInit == Init => Inv
<1> SUFFICES ASSUME Init PROVE Inv
  OBVIOUS
<1>1. queries = {} /\ Len(query_list_) = 0 /\ DOMAIN query_list_ = {} /\ open = NoTxn
  BY DEF Init
<1>2. Queued = {} /\ Past = {}
  BY <1>1 DEF Queued, Names, Past
<1>3. TypeOK
  <2>1. query_list_ \in Seq(Query \cup {PingQuery}) /\ open \in 0..MaxQueries
    BY ConnectionAssumption DEF Init, NoTxn
  <2>2. QED
    BY <2>1 DEF Init, TypeOK, Flags
<1>4. Line
  <2>1. \A j, k \in 1..0 : FALSE
    OBVIOUS
  <2>2. QED
    BY <2>1, <1>1 DEF Line, Ordered
<1>5. Named
  BY <1>1, FS_EmptySet DEF Named
<1>6. Written /\ Behind
  BY <1>1, <1>2 DEF Written, Behind
<1>7. Touched
  BY DEF Init, Touched
<1>8. Flagged
  BY <1>2 DEF Init, Flagged, Inside
<1>9. AnsweredIsDurable /\ Whole /\ Failed /\ Committed
  BY <1>1 DEF AnsweredIsDurable, Whole, Failed, Committed
<1>10. Opened
  BY DEF Init, Opened
<1>11. QED
  BY <1>3, <1>4, <1>5, <1>6, <1>7, <1>8, <1>9, <1>10 DEF Inv

(* Steps that pop no query. *)
LEMMA Quiet ==
    ASSUME Inv, UNCHANGED <<queries, open, flag_, answer, durable>>,
           Queued' = Queued, TypeOK', Line', pending' \in {pending, {}}, autocommit => autocommit',
           Kept => Opened'
    PROVE  Inv'
<1>t. TypeOK /\ Named /\ Written /\ Behind /\ Touched /\ Flagged /\ AnsweredIsDurable
  BY DEF Inv
<1>p. Past' = Past
  BY DEF Past
<1>s. \A t : Inside(t)' <=> Inside(t)
  BY <1>p DEF Inside
<1>1. Named' /\ Written'
  BY <1>t DEF Named, Written, Closed
<1>2. Behind' /\ Touched'
  BY <1>t, <1>p DEF Behind, Touched
<1>3. Flagged'
  BY <1>t, <1>s DEF Flagged
<1>4. AnsweredIsDurable'
  BY <1>t DEF AnsweredIsDurable, Alone
<1>5. Kept => Whole' /\ Failed'
  BY <1>p, <1>s DEF Inv, Whole, Failed
<1>6. Kept /\ ~CommitFails => Committed'
  BY DEF Inv, Committed
<1>7. QED
  BY <1>1, <1>2, <1>3, <1>4, <1>5, <1>6 DEF Inv

(* Ping *)
LEMMA PingNext == Inv /\ Ping => Inv'
<1> SUFFICES ASSUME Inv, Ping PROVE Inv'
  OBVIOUS
<1>0. /\ query_list_' = Append(query_list_, PingQuery) /\ event_' \in BOOLEAN
      /\ UNCHANGED <<thread, flag_, answer, dbVars, luaVars>>
  BY DEF Ping, Notify
<1>u. UNCHANGED <<thread, flag_, answer, session, autocommit, pending, durable, is_running_, queries, open>>
  BY <1>0 DEF dbVars, luaVars
<1>1. query_list_ \in Seq(Query \cup {PingQuery}) /\ Ordered(query_list_)
  BY DEF Inv, TypeOK, Line
<1>2. /\ query_list_' \in Seq(Query \cup {PingQuery}) /\ Ordered(query_list_')
      /\ Names(query_list_') = Names(query_list_) \cup ({PingQuery} \ {PingQuery})
  BY <1>0, <1>1, AppendFacts
<1>3. Line' /\ Queued' = Queued
  BY <1>2 DEF Line, Queued
<1>4. TypeOK'
  BY <1>0, <1>2, <1>u DEF Inv, TypeOK
<1>5. Kept => Opened'
  BY <1>3, <1>u DEF Inv, Opened, Past, Inside
<1>6. QED
  BY <1>3, <1>4, <1>5, <1>u, Quiet

(* mysql_ping *)
LEMMA RunPingNext == Inv /\ RunPing => Inv'
<1> SUFFICES ASSUME Inv, RunPing PROVE Inv'
  OBVIOUS
<1>0. /\ query_list_ # <<>> /\ Head(query_list_) = PingQuery /\ query_list_' = Tail(query_list_)
      /\ session' = "up" /\ autocommit' = (session = "lost" \/ autocommit)
      /\ UNCHANGED <<thread, event_, flag_, pending, durable, answer, is_running_, queries, open>>
  BY DEF RunPing, luaVars
<1>1. query_list_ \in Seq(Query \cup {PingQuery}) /\ Ordered(query_list_)
  BY DEF Inv, TypeOK, Line
<1>2. /\ query_list_' \in Seq(Query \cup {PingQuery}) /\ Ordered(query_list_')
      /\ Names(query_list_') = Names(query_list_)
  BY <1>0, <1>1, TailFacts
<1>3. Line' /\ Queued' = Queued
  BY <1>2 DEF Line, Queued
<1>a. autocommit' \in BOOLEAN
  BY <1>0 DEF Inv, TypeOK
<1>4. TypeOK'
  BY <1>0, <1>2, <1>a DEF Inv, TypeOK
<1>5. Kept => Opened'
  <2> SUFFICES ASSUME Kept, Opened PROVE Opened'
    BY DEF Inv
  <2>1. flag_ = "BEGIN" => ~autocommit'
    BY <1>0 DEF Opened
  <2>2. Past' = Past /\ \A t : Inside(t)' <=> Inside(t)
    BY <1>0, <1>3 DEF Past, Inside
  <2>3. QED
    BY <2>1, <2>2, <1>0 DEF Opened
<1>6. autocommit => autocommit'
  BY <1>0
<1>7. QED
  BY <1>0, <1>3, <1>4, <1>5, <1>6, Quiet

(* Shutdown, the wait on the queue, and the loss of the session. *)
LEMMA IdleNext ==
    ASSUME Inv, Shutdown \/ PopEmpty \/ WaitBegin \/ WaitReturns \/ LoseSession \/ UNCHANGED vars
    PROVE  Inv'
<1>t. TypeOK /\ Line
  BY DEF Inv
<1>0. UNCHANGED <<query_list_, flag_, answer, queries, open, autocommit, durable>>
  BY DEF Shutdown, PopEmpty, WaitBegin, WaitReturns, LoseSession, vars, luaVars, dbVars
<1>1. Line' /\ Queued' = Queued
  BY <1>0, <1>t DEF Line, Queued
<1>2. pending' \in {pending, {}}
  BY DEF Shutdown, PopEmpty, WaitBegin, WaitReturns, LoseSession, vars, luaVars, dbVars
<1>3. TypeOK'
  <2>1. /\ is_running_' \in BOOLEAN /\ thread' \in {"run", "idle", "wait", "exited"}
        /\ event_' \in BOOLEAN /\ session' \in {"up", "lost", "closed"}
    BY <1>t DEF Shutdown, PopEmpty, WaitBegin, WaitReturns, LoseSession, Notify, vars, luaVars, dbVars, TypeOK
  <2>2. pending' \subseteq 1..MaxQueries
    BY <1>2, <1>t DEF TypeOK
  <2>3. QED
    BY <2>1, <2>2, <1>0, <1>t DEF TypeOK
<1>4. Kept => Opened'
  <2> SUFFICES ASSUME Kept, Opened PROVE Opened'
    BY DEF Inv
  <2>1. Past' = Past /\ \A t : Inside(t)' <=> Inside(t)
    BY <1>0, <1>1 DEF Past, Inside
  <2>2. CASE LoseSession
    <3>1. autocommit
      BY <2>2 DEF LoseSession, Kept
    <3>2. flag_ # "BEGIN"
      BY <3>1 DEF Opened
    <3>3. QED
      BY <3>1, <3>2, <1>0 DEF Opened
  <2>3. CASE Shutdown \/ PopEmpty \/ WaitBegin \/ UNCHANGED vars
    <3>1. UNCHANGED <<session, pending>> /\ (thread = "exited" => thread' = "exited")
      BY <2>3 DEF Shutdown, PopEmpty, WaitBegin, vars, dbVars
    <3>2. QED
      BY <3>1, <2>1, <1>0 DEF Opened
  <2>4. CASE WaitReturns
    <3>1. \/ thread = "wait" /\ thread' = "run" /\ UNCHANGED <<session, pending>>
          \/ thread' = "exited" /\ session' = "closed"
      BY <2>4 DEF WaitReturns, dbVars
    <3>2. QED
      BY <3>1, <2>1, <1>0 DEF Opened
  <2>5. QED
    BY <2>2, <2>3, <2>4
<1>5. QED
  BY <1>0, <1>1, <1>2, <1>3, <1>4, Quiet

(* A query of a failed transaction is thrown away. *)
LEMMA DiscardNext == Inv /\ Discard => Inv'
<1> SUFFICES ASSUME Inv, Discard, NEW q, q = Head(query_list_) PROVE Inv'
  OBVIOUS
<1>t. TypeOK /\ Touched /\ Flagged /\ AnsweredIsDurable
  BY DEF Inv
<1>0. /\ query_list_ # <<>> /\ q # PingQuery /\ flag_ = "ROLLBACK" /\ query_list_' = Tail(query_list_)
      /\ flag_' = IF q.flag = "COMMIT" THEN "NONE" ELSE "ROLLBACK"
      /\ UNCHANGED <<thread, event_, answer, session, autocommit, pending, durable, is_running_, queries, open>>
  BY DEF Discard, dbVars, luaVars
<1>1. /\ q \in Queued /\ q \in queries
      /\ \A p \in Queued : p # q => Before(q, p)
      /\ Queued' = Queued \ {q} /\ Past' = Past \cup {q}
      /\ query_list_' \in Seq(Query \cup {PingQuery})
      /\ Line' /\ Named' /\ Written' /\ Behind'
  BY <1>0, PopFacts
<1>2. /\ q.flag # "BEGIN" /\ \E t \in 1..MaxQueries : Inside(t)
      /\ q.flag = "COMMIT" => \A t : ~Inside(t)'
      /\ q.flag = "NONE" => \A t : Inside(t)' <=> Inside(t)
  BY <1>0, <1>1, InsidePop
<1>3. q.flag \in {"NONE", "COMMIT"}
  BY <1>1, <1>2, <1>t, QueryFacts DEF Inv, Named, Flags
<1>4. TypeOK'
  BY <1>0, <1>1, <1>t DEF TypeOK, Flags
<1>5. Touched'
  BY <1>0, <1>1, <1>t DEF Touched
<1>6. Flagged'
  BY <1>0, <1>2, <1>3, <1>t DEF Flagged
<1>7. AnsweredIsDurable'
  BY <1>0, <1>t DEF AnsweredIsDurable, Alone
<1>8. Kept => Opened' /\ Whole' /\ Failed'
  <2> SUFFICES ASSUME Kept, Opened, Whole, Failed PROVE Opened' /\ Whole' /\ Failed'
    BY DEF Inv
  <2>1. Opened'
    BY <1>0 DEF Opened
  <2>2. Whole'
    BY <1>0, <1>1 DEF Whole
  <2>3. Failed'
    BY <1>0, <1>2, <1>3 DEF Failed
  <2>4. QED
    BY <2>1, <2>2, <2>3
<1>9. Kept /\ ~CommitFails => Committed'
  BY <1>0 DEF Inv, Committed
<1>10. QED
  BY <1>1, <1>4, <1>5, <1>6, <1>7, <1>8, <1>9 DEF Inv

(* Execute fails. *)
LEMMA FailsNext ==
    ASSUME Inv, NEW q \in queries, ExecuteFails(q)
    PROVE  Inv'
<1>t. TypeOK /\ Named /\ Touched /\ Flagged /\ AnsweredIsDurable
  BY DEF Inv
<1>0. /\ query_list_ # <<>> /\ q = Head(query_list_) /\ q # PingQuery /\ flag_ # "ROLLBACK"
      /\ query_list_' = Tail(query_list_)
      /\ UNCHANGED <<thread, event_, is_running_, queries, open>>
      /\ answer' = [answer EXCEPT ![q.id] = "failed"]
      /\ flag_' = FailedFlag(q)
      /\ IF flag_ = "BEGIN" \/ q.flag = "BEGIN" THEN RollbackTransaction ELSE UNCHANGED dbVars
  BY DEF ExecuteFails, Popped, Answered, luaVars
<1>1. /\ q \in Queued
      /\ \A p \in Queued : p # q => Before(q, p)
      /\ Queued' = Queued \ {q} /\ Past' = Past \cup {q}
      /\ query_list_' \in Seq(Query \cup {PingQuery})
      /\ Line' /\ Named' /\ Written' /\ Behind'
  BY <1>0, PopFacts
<1>q. /\ q.id \in 1..MaxQueries /\ q.flag \in {"NONE", "BEGIN", "COMMIT"}
      /\ q.first => q.flag = "NONE" /\ q.txn = NoTxn
      /\ q.flag = "BEGIN" => q.txn = q.id /\ q.txn \in 1..MaxQueries
  BY <1>t, QueryFacts DEF Named, Flags
<1>f. flag_ \in {"NONE", "BEGIN"}
  BY <1>0, <1>t DEF TypeOK, Flags
<1>i. /\ flag_ = "NONE" => q.flag # "COMMIT" /\ (q.flag = "NONE" => q.txn = NoTxn)
      /\ flag_ = "BEGIN" => /\ q.flag # "BEGIN"
                            /\ \E t \in 1..MaxQueries : Inside(t) /\ (~q.first => q.txn = t)
      /\ q.flag = "BEGIN" => \A t : Inside(t)' <=> t = q.id
      /\ q.flag = "COMMIT" => \A t : ~Inside(t)'
      /\ q.flag = "NONE" => \A t : Inside(t)' <=> Inside(t)
  BY <1>1, InsidePop
<1>2. /\ durable' = durable /\ pending' = {} /\ autocommit'
      /\ (session' = "up" \/ session' = session)
      /\ flag_' = IF flag_ = "NONE" /\ q.flag = "NONE" THEN "NONE"
                  ELSE IF q.flag = "COMMIT" THEN "NONE" ELSE "ROLLBACK"
  <2>1. CASE flag_ = "BEGIN" \/ q.flag = "BEGIN"
    BY <2>1, <1>0, <1>q, <1>f DEF RollbackTransaction, FailedFlag
  <2>2. CASE ~(flag_ = "BEGIN" \/ q.flag = "BEGIN")
    <3>1. flag_ = "NONE" /\ q.flag = "NONE" /\ UNCHANGED <<session, autocommit, pending, durable>>
      BY <2>2, <1>0, <1>q, <1>f, <1>i DEF dbVars
    <3>2. pending = {} /\ autocommit
      BY <3>1, <1>t DEF Flagged
    <3>3. QED
      BY <3>1, <3>2, <1>0 DEF FailedFlag
  <2>3. QED
    BY <2>1, <2>2
<1>b. autocommit' \in BOOLEAN
  <2>1. CASE flag_ = "BEGIN" \/ q.flag = "BEGIN"
    BY <2>1, <1>0 DEF RollbackTransaction
  <2>2. CASE ~(flag_ = "BEGIN" \/ q.flag = "BEGIN")
    BY <2>2, <1>0, <1>t DEF dbVars, TypeOK
  <2>3. QED
    BY <2>1, <2>2
<1>a. /\ answer' \in [1..MaxQueries -> {"none", "ok", "failed"}] /\ answer'[q.id] = "failed"
      /\ \A i \in 1..MaxQueries : i # q.id => answer'[i] = answer[i]
  BY <1>0, <1>q, <1>t DEF TypeOK
<1>p. \A p \in queries : p.id \in 1..MaxQueries /\ (p # q => p.id # q.id)
  BY <1>t, QueryFacts DEF Named
<1>3. TypeOK'
  BY <1>0, <1>1, <1>2, <1>a, <1>b, <1>t DEF TypeOK, Flags
<1>4. Touched'
  BY <1>1, <1>2, <1>a, <1>t DEF Touched
<1>5. Flagged'
  BY <1>2, <1>i, <1>q, <1>f, <1>t DEF Flagged
<1>6. AnsweredIsDurable'
  BY <1>0, <1>2, <1>a, <1>p, <1>t DEF AnsweredIsDurable, Alone
<1>7. Kept => Opened' /\ Whole' /\ Failed'
  <2> SUFFICES ASSUME Kept, Opened, Whole, Failed PROVE Opened' /\ Whole' /\ Failed'
    BY DEF Inv
  <2>1. Opened'
    BY <1>2 DEF Opened
  <2>2. Whole'
    BY <1>0, <1>1, <1>2 DEF Whole
  <2>3. Failed'
    <3> SUFFICES ASSUME NEW r \in queries, r.txn # NoTxn, answer'[r.id] = "failed"
                 PROVE  /\ \A p \in queries : p.txn = r.txn => p.id \notin durable
                        /\ Inside(r.txn)' => flag_' = "ROLLBACK"
      BY <1>0, <1>2 DEF Failed
    <3>1. CASE r = q
      <4>1. ~q.first
        BY <3>1, <1>q
      <4>2. \A c \in Past : c.txn = q.txn => c.flag # "COMMIT"
        BY <3>1, <4>1, <1>1, FrontFits DEF Inv
      <4>3. \A p \in queries : p.txn = q.txn => p.id \notin durable
        BY <3>1, <4>2 DEF Whole
      <4>4. Inside(q.txn)' => flag_' = "ROLLBACK"
        BY <3>1, <1>2, <1>i, <1>q, <1>f
      <4>5. QED
        BY <3>1, <4>3, <4>4
    <3>2. CASE r # q
      <4>1. answer[r.id] = "failed"
        BY <3>2, <1>a, <1>p
      <4>2. /\ \A p \in queries : p.txn = r.txn => p.id \notin durable
            /\ Inside(r.txn) => flag_ = "ROLLBACK"
        BY <4>1 DEF Failed
      <4>3. Inside(r.txn)' => flag_' = "ROLLBACK"
        <5>1. CASE q.flag = "BEGIN"
          BY <5>1, <1>2, <1>f
        <5>2. CASE q.flag # "BEGIN"
          BY <5>2, <4>2, <1>0, <1>i, <1>q
        <5>3. QED
          BY <5>1, <5>2
      <4>4. QED
        BY <4>2, <4>3
    <3>3. QED
      BY <3>1, <3>2
  <2>4. QED
    BY <2>1, <2>2, <2>3
<1>8. Kept /\ ~CommitFails => Committed'
  <2> SUFFICES ASSUME Kept, ~CommitFails, Committed PROVE Committed'
    BY DEF Inv
  <2>1. \A r \in queries : answer'[r.id] = "ok" => answer[r.id] = "ok"
    BY <1>a, <1>p
  <2>2. QED
    BY <2>1, <1>0, <1>2 DEF Committed
<1>9. QED
  BY <1>1, <1>3, <1>4, <1>5, <1>6, <1>7, <1>8 DEF Inv

(* Execute succeeds: what all queries have in common. *)
LEMMA OkFacts ==
    ASSUME Inv, NEW q \in queries, ExecuteOk(q)
    PROVE  /\ q \in Queued /\ (\A p \in Queued : p # q => Before(q, p))
           /\ Queued' = Queued \ {q} /\ Past' = Past \cup {q}
           /\ query_list_' \in Seq(Query \cup {PingQuery})
           /\ Line' /\ Named' /\ Written' /\ Behind'
           /\ thread = "run" /\ UNCHANGED <<thread, event_, is_running_, queries, open>>
           /\ flag_ \in {"NONE", "BEGIN"}
           /\ q.id \in 1..MaxQueries /\ q.flag \in {"NONE", "BEGIN", "COMMIT"}
           /\ answer' \in [1..MaxQueries -> {"none", "ok", "failed"}] /\ answer'[q.id] = "ok"
           /\ \A i \in 1..MaxQueries : i # q.id => answer'[i] = answer[i]
           /\ \A p \in queries : p.id \in 1..MaxQueries /\ (p # q => p.id # q.id)
           /\ \A p \in queries : p.first => p.flag = "NONE" /\ p.txn = NoTxn
<1>t. TypeOK /\ Named
  BY DEF Inv
<1>0. /\ query_list_ # <<>> /\ q = Head(query_list_) /\ q # PingQuery /\ flag_ # "ROLLBACK"
      /\ query_list_' = Tail(query_list_) /\ thread = "run"
      /\ UNCHANGED <<thread, event_, is_running_, queries, open>>
      /\ answer' = [answer EXCEPT ![q.id] = "ok"]
  BY DEF ExecuteOk, Popped, Answered, luaVars
<1>1. /\ q \in Queued /\ (\A p \in Queued : p # q => Before(q, p))
      /\ Queued' = Queued \ {q} /\ Past' = Past \cup {q}
      /\ query_list_' \in Seq(Query \cup {PingQuery})
      /\ Line' /\ Named' /\ Written' /\ Behind'
  BY <1>0, PopFacts
<1>2. q.id \in 1..MaxQueries /\ q.flag \in {"NONE", "BEGIN", "COMMIT"}
  BY <1>t, QueryFacts DEF Named, Flags
<1>3. flag_ \in {"NONE", "BEGIN"}
  BY <1>0, <1>t DEF TypeOK, Flags
<1>4. /\ answer' \in [1..MaxQueries -> {"none", "ok", "failed"}] /\ answer'[q.id] = "ok"
      /\ \A i \in 1..MaxQueries : i # q.id => answer'[i] = answer[i]
  BY <1>0, <1>2, <1>t DEF TypeOK
<1>5. /\ \A p \in queries : p.id \in 1..MaxQueries /\ (p # q => p.id # q.id)
      /\ \A p \in queries : p.first => p.flag = "NONE" /\ p.txn = NoTxn
  BY <1>t, QueryFacts DEF Named
<1>6. QED
  BY <1>0, <1>1, <1>2, <1>3, <1>4, <1>5

(* A COMMIT: the transaction is committed, or, when mysql_commit fails, lost. *)
LEMMA CommitNext ==
    ASSUME Inv, NEW q \in queries, ExecuteOk(q), q.flag = "COMMIT"
    PROVE  Inv'
<1>t. TypeOK /\ Named /\ Touched /\ Flagged /\ AnsweredIsDurable
  BY DEF Inv
<1>1. /\ q \in Queued /\ (\A p \in Queued : p # q => Before(q, p))
      /\ Past' = Past \cup {q} /\ query_list_' \in Seq(Query \cup {PingQuery})
      /\ Line' /\ Named' /\ Written' /\ Behind'
      /\ thread = "run" /\ UNCHANGED <<thread, event_, is_running_, queries, open>>
      /\ flag_ \in {"NONE", "BEGIN"} /\ q.id \in 1..MaxQueries
      /\ \A p \in queries : p.first => p.flag = "NONE" /\ p.txn = NoTxn
  BY OkFacts
<1>a. /\ answer' \in [1..MaxQueries -> {"none", "ok", "failed"}] /\ answer'[q.id] = "ok"
      /\ \A i \in 1..MaxQueries : i # q.id => answer'[i] = answer[i]
      /\ \A p \in queries : p.id \in 1..MaxQueries /\ (p # q => p.id # q.id)
  BY OkFacts
<1>2. /\ flag_ = "NONE" => q.flag # "COMMIT"
      /\ flag_ # "NONE" => \E t \in 1..MaxQueries : Inside(t) /\ (~q.first => q.txn = t)
      /\ \A t : ~Inside(t)'
  BY <1>1, InsidePop
<1>3. flag_ = "BEGIN" /\ ~q.first /\ q.txn # NoTxn
  BY <1>1, <1>2, <1>t DEF Named
<1>4. q.txn \in 1..MaxQueries /\ Inside(q.txn)
  BY <1>2, <1>3
<1>5. PICK committed \in (IF CommitFails THEN BOOLEAN ELSE {TRUE}) :
        durable' = IF committed \/ autocommit THEN durable \cup (pending \cup {q.id}) ELSE durable
  BY DEF ExecuteOk, CommitTransaction, BeginTransaction
<1>6. pending' = {} /\ autocommit' = TRUE /\ session' = session /\ flag_' = "NONE"
  BY DEF ExecuteOk, CommitTransaction
<1>d. durable \subseteq durable' /\ durable' \subseteq durable \cup (pending \cup {q.id})
  BY <1>5
<1>7. TypeOK'
  BY <1>1, <1>6, <1>a, <1>d, <1>t DEF TypeOK, Flags
<1>8. Touched'
  BY <1>1, <1>6, <1>a, <1>d, <1>t DEF Touched
<1>9. Flagged'
  BY <1>2, <1>6 DEF Flagged
<1>10. AnsweredIsDurable'
  BY <1>1, <1>3, <1>a, <1>d, <1>t DEF AnsweredIsDurable, Alone
<1>w. \A p \in queries : p.txn = q.txn => p = q \/ p \in Past
  BY <1>1, <1>3, FrontFits DEF Inv
<1>11. ASSUME Kept
       PROVE  /\ \A p \in queries : p.txn # NoTxn => (p.id \in pending <=> p \in Past /\ p.txn = q.txn)
              /\ \A p \in queries : p.txn = q.txn => p.id \in pending \cup {q.id}
  <2>1. Opened
    BY <1>11 DEF Inv
  <2>2. \A p \in queries : ~p.first => (p.id \in pending <=> p \in Past /\ p.txn = q.txn)
    BY <2>1, <1>1, <1>3, <1>4 DEF Opened
  <2>3. \A p \in queries : p.txn # NoTxn => ~p.first
    BY <1>1
  <2>4. QED
    BY <2>2, <2>3, <1>3, <1>w
<1>12. Kept => Opened' /\ Whole' /\ Failed'
  <2> SUFFICES ASSUME Kept, Opened, Whole, Failed PROVE Opened' /\ Whole' /\ Failed'
    BY DEF Inv
  <2>1. Opened'
    BY <1>6 DEF Opened
  <2>2. Whole'
    <3> SUFFICES ASSUME NEW r \in queries, r.txn # NoTxn, r.id \in durable'
                 PROVE  /\ \E c \in Past \cup {q} : c.txn = r.txn /\ c.flag = "COMMIT"
                        /\ \A p \in queries : p.txn = r.txn => p.id \in durable'
      BY <1>1 DEF Whole
    <3>1. CASE r.id \in durable
      BY <3>1, <1>d DEF Whole
    <3>2. CASE r.id \notin durable
      <4>1. r.txn = q.txn
        BY <3>2, <1>11, <1>a, <1>d
      <4>2. durable' = durable \cup (pending \cup {q.id})
        BY <3>2, <1>5
      <4>3. QED
        BY <4>1, <4>2, <1>11
    <3>3. QED
      BY <3>1, <3>2
  <2>3. Failed'
    <3> SUFFICES ASSUME NEW r \in queries, r.txn # NoTxn, answer'[r.id] = "failed"
                 PROVE  \A p \in queries : p.txn = r.txn => p.id \notin durable'
      BY <1>1, <1>2 DEF Failed
    <3>1. r # q /\ answer[r.id] = "failed"
      BY <1>a
    <3>2. r.txn # q.txn /\ \A p \in queries : p.txn = r.txn => p.id \notin durable
      BY <3>1, <1>3, <1>4 DEF Failed
    <3>3. QED
      BY <3>2, <1>11, <1>a, <1>d
  <2>4. QED
    BY <2>1, <2>2, <2>3
<1>13. Kept /\ ~CommitFails => Committed'
  <2> SUFFICES ASSUME Kept, ~CommitFails, Committed PROVE Committed'
    BY DEF Inv
  <2>1. durable' = durable \cup (pending \cup {q.id})
    BY <1>5
  <2>2. ASSUME NEW r \in queries, r.flag = "COMMIT", answer'[r.id] = "ok",
               NEW p \in queries, p.txn = r.txn
        PROVE  p.id \in durable'
    <3>1. CASE r = q
      BY <3>1, <2>1, <2>2, <1>11
    <3>2. CASE r # q
      BY <3>2, <2>1, <2>2, <1>a DEF Committed
    <3>3. QED
      BY <3>1, <3>2
  <2>3. QED
    BY <2>2, <1>1 DEF Committed
<1>14. QED
  BY <1>1, <1>7, <1>8, <1>9, <1>10, <1>12, <1>13 DEF Inv

(* A BEGIN: BeginTransaction, and the first statement. *)
LEMMA BeginNext ==
    ASSUME Inv, NEW q \in queries, ExecuteOk(q), q.flag = "BEGIN"
    PROVE  Inv'
<1>t. TypeOK /\ Named /\ Behind /\ Touched /\ Flagged /\ AnsweredIsDurable
  BY DEF Inv
<1>1. /\ q \in Queued /\ (\A p \in Queued : p # q => Before(q, p))
      /\ Past' = Past \cup {q} /\ query_list_' \in Seq(Query \cup {PingQuery})
      /\ Line' /\ Named' /\ Written' /\ Behind'
      /\ thread = "run" /\ UNCHANGED <<thread, event_, is_running_, queries, open>>
      /\ flag_ \in {"NONE", "BEGIN"} /\ q.id \in 1..MaxQueries
      /\ \A p \in queries : p.first => p.flag = "NONE" /\ p.txn = NoTxn
  BY OkFacts
<1>a. /\ answer' \in [1..MaxQueries -> {"none", "ok", "failed"}] /\ answer'[q.id] = "ok"
      /\ \A i \in 1..MaxQueries : i # q.id => answer'[i] = answer[i]
      /\ \A p \in queries : p.id \in 1..MaxQueries /\ (p # q => p.id # q.id)
  BY OkFacts
<1>2. flag_ = "NONE" /\ \A t : Inside(t)' <=> t = q.id
  BY <1>1, InsidePop
<1>3. pending = {} /\ q.txn = q.id /\ ~q.first /\ q.txn # NoTxn
  BY <1>1, <1>2, <1>t DEF Flagged, Named, NoTxn
<1>4. durable' = durable /\ pending' = {q.id} /\ autocommit' = FALSE /\ session' = "up" /\ flag_' = "BEGIN"
  BY <1>3 DEF ExecuteOk, BeginTransaction
<1>5. TypeOK'
  BY <1>1, <1>4, <1>a, <1>t DEF TypeOK, Flags
<1>6. Touched'
  BY <1>1, <1>4, <1>a, <1>t DEF Touched
<1>7. Flagged'
  BY <1>1, <1>2, <1>4 DEF Flagged
<1>8. AnsweredIsDurable'
  BY <1>1, <1>3, <1>4, <1>a, <1>t DEF AnsweredIsDurable, Alone
<1>9. \A p \in Past : p.txn # q.id
  <2> SUFFICES ASSUME NEW p \in Past, p.txn = q.id PROVE FALSE
    OBVIOUS
  <2>1. p \in queries /\ ~p.first
    BY <1>1, <1>3 DEF Past
  <2>2. p.id < q.id /\ p.txn <= p.id /\ p.id \in Nat /\ q.id \in Nat
    BY <2>1, <1>1, <1>3, <1>t, QueryFacts DEF Behind, Named
  <2>3. QED
    BY <2>2
<1>10. Kept => Opened' /\ Whole' /\ Failed'
  <2> SUFFICES ASSUME Kept, Opened, Whole, Failed PROVE Opened' /\ Whole' /\ Failed'
    BY DEF Inv
  <2>1. Opened'
    <3>1. ASSUME NEW t \in 1..MaxQueries, NEW r \in queries, Inside(t)', ~r.first
          PROVE  r.id \in pending' <=> r \in Past' /\ r.txn = t
      <4>1. t = q.id
        BY <3>1, <1>2
      <4>2. CASE r = q
        BY <4>1, <4>2, <1>1, <1>3, <1>4
      <4>3. CASE r # q
        BY <4>1, <4>3, <1>1, <1>4, <1>9, <1>a
      <4>4. QED
        BY <4>2, <4>3
    <3>2. QED
      BY <3>1, <1>1, <1>4 DEF Opened
  <2>2. Whole'
    BY <1>1, <1>4 DEF Whole
  <2>3. Failed'
    <3> SUFFICES ASSUME NEW r \in queries, r.txn # NoTxn, answer'[r.id] = "failed"
                 PROVE  /\ \A p \in queries : p.txn = r.txn => p.id \notin durable
                        /\ ~Inside(r.txn)'
      BY <1>1, <1>4 DEF Failed
    <3>1. r # q /\ answer[r.id] = "failed"
      BY <1>a
    <3>2. r \in Past
      <4>1. PICK p \in Past : p.id = r.id
        BY <3>1, <1>a, <1>t DEF Touched
      <4>2. QED
        BY <4>1, <1>t DEF Named, Past
    <3>3. QED
      BY <3>1, <3>2, <1>2, <1>9 DEF Failed
  <2>4. QED
    BY <2>1, <2>2, <2>3
<1>11. Kept /\ ~CommitFails => Committed'
  <2> SUFFICES ASSUME Kept, ~CommitFails, Committed PROVE Committed'
    BY DEF Inv
  <2>1. \A r \in queries : r.flag = "COMMIT" => r # q
    OBVIOUS
  <2>2. QED
    BY <2>1, <1>1, <1>4, <1>a DEF Committed
<1>12. QED
  BY <1>1, <1>5, <1>6, <1>7, <1>8, <1>10, <1>11 DEF Inv

(* Any other statement: inside a transaction, or alone. *)
LEMMA StatementNext ==
    ASSUME Inv, NEW q \in queries, ExecuteOk(q), q.flag = "NONE"
    PROVE  Inv'
<1>t. TypeOK /\ Named /\ Behind /\ Touched /\ Flagged /\ AnsweredIsDurable
  BY DEF Inv
<1>1. /\ q \in Queued /\ (\A p \in Queued : p # q => Before(q, p))
      /\ Past' = Past \cup {q} /\ query_list_' \in Seq(Query \cup {PingQuery})
      /\ Line' /\ Named' /\ Written' /\ Behind'
      /\ thread = "run" /\ UNCHANGED <<thread, event_, is_running_, queries, open>>
      /\ flag_ \in {"NONE", "BEGIN"} /\ q.id \in 1..MaxQueries
      /\ \A p \in queries : p.first => p.flag = "NONE" /\ p.txn = NoTxn
  BY OkFacts
<1>a. /\ answer' \in [1..MaxQueries -> {"none", "ok", "failed"}] /\ answer'[q.id] = "ok"
      /\ \A i \in 1..MaxQueries : i # q.id => answer'[i] = answer[i]
      /\ \A p \in queries : p.id \in 1..MaxQueries /\ (p # q => p.id # q.id)
  BY OkFacts
<1>2. /\ flag_ = "NONE" => q.txn = NoTxn
      /\ flag_ # "NONE" => \E t \in 1..MaxQueries : Inside(t) /\ (~q.first => q.txn = t)
      /\ \A t : Inside(t)' <=> Inside(t)
  BY <1>1, InsidePop
<1>3. /\ durable' = IF autocommit THEN durable \cup (pending \cup {q.id}) ELSE durable
      /\ pending' = IF autocommit THEN {} ELSE pending \cup {q.id}
      /\ autocommit' = autocommit /\ session' = "up" /\ flag_' = flag_
  BY DEF ExecuteOk, BeginTransaction
<1>d. /\ durable \subseteq durable' /\ durable' \subseteq durable \cup (pending \cup {q.id})
      /\ pending' \subseteq pending \cup {q.id}
  BY <1>3
<1>4. flag_ = "NONE" => autocommit /\ pending = {}
  BY <1>t DEF Flagged
<1>5. TypeOK'
  BY <1>1, <1>3, <1>a, <1>d, <1>t DEF TypeOK
<1>6. Touched'
  BY <1>1, <1>a, <1>d, <1>t DEF Touched
<1>7. Flagged'
  BY <1>1, <1>2, <1>3, <1>4, <1>t DEF Flagged
<1>8. AnsweredIsDurable'
  <2>1. Alone(q) => q.id \in durable'
    <3> SUFFICES ASSUME Alone(q) PROVE q.id \in durable'
      OBVIOUS
    <3>1. q.txn = NoTxn /\ ~q.first
      BY DEF Alone
    <3>2. flag_ = "NONE"
      <4> SUFFICES ASSUME flag_ # "NONE" PROVE FALSE
        OBVIOUS
      <4>1. NoTxn \in 1..MaxQueries
        BY <3>1, <1>2
      <4>2. QED
        BY <4>1 DEF NoTxn
    <3>3. QED
      BY <3>2, <1>3, <1>4
  <2>2. QED
    BY <2>1, <1>1, <1>a, <1>d, <1>t DEF AnsweredIsDurable, Alone
<1>9. ASSUME Kept
      PROVE  \A p \in queries : p.txn # NoTxn => (p.id \in durable' <=> p.id \in durable)
  <2>1. CASE flag_ = "NONE"
    BY <2>1, <1>2, <1>3, <1>4, <1>a
  <2>2. CASE flag_ = "BEGIN"
    <3>1. ~autocommit
      BY <2>2, <1>9 DEF Inv, Opened
    <3>2. QED
      BY <3>1, <1>3
  <2>3. QED
    BY <2>1, <2>2, <1>1
<1>10. Kept => Opened' /\ Whole' /\ Failed'
  <2> SUFFICES ASSUME Kept, Opened, Whole, Failed PROVE Opened' /\ Whole' /\ Failed'
    BY DEF Inv
  <2>1. Opened'
    <3>1. ASSUME flag_ = "BEGIN", NEW t \in 1..MaxQueries, NEW r \in queries, Inside(t), ~r.first
          PROVE  r.id \in pending' <=> r \in Past' /\ r.txn = t
      <4>1. ~autocommit /\ pending' = pending \cup {q.id}
        BY <3>1, <1>3 DEF Opened
      <4>2. q.first \/ q.txn = t
        BY <3>1, <1>2, OneInside DEF Inv
      <4>3. r # q => (r.id \in pending <=> r \in Past /\ r.txn = t)
        BY <3>1, <1>1 DEF Opened
      <4>4. CASE r = q
        BY <3>1, <4>1, <4>2, <4>4, <1>1
      <4>5. CASE r # q
        BY <4>1, <4>3, <4>5, <1>1, <1>a
      <4>6. QED
        BY <4>4, <4>5
    <3>2. QED
      BY <3>1, <1>1, <1>2, <1>3 DEF Opened
  <2>2. Whole'
    <3> SUFFICES ASSUME NEW r \in queries, r.txn # NoTxn, r.id \in durable'
                 PROVE  /\ \E c \in Past \cup {q} : c.txn = r.txn /\ c.flag = "COMMIT"
                        /\ \A p \in queries : p.txn = r.txn => p.id \in durable'
      BY <1>1 DEF Whole
    <3>1. r.id \in durable
      BY <1>9
    <3>2. QED
      BY <3>1, <1>d DEF Whole
  <2>3. Failed'
    <3> SUFFICES ASSUME NEW r \in queries, r.txn # NoTxn, answer'[r.id] = "failed"
                 PROVE  /\ \A p \in queries : p.txn = r.txn => p.id \notin durable'
                        /\ Inside(r.txn) => flag_ = "ROLLBACK"
      BY <1>1, <1>2, <1>3 DEF Failed
    <3>1. answer[r.id] = "failed"
      BY <1>a
    <3>2. QED
      BY <3>1, <1>9 DEF Failed
  <2>4. QED
    BY <2>1, <2>2, <2>3
<1>11. Kept /\ ~CommitFails => Committed'
  <2> SUFFICES ASSUME Kept, ~CommitFails, Committed PROVE Committed'
    BY DEF Inv
  <2>1. \A r \in queries : r.flag = "COMMIT" => r # q
    OBVIOUS
  <2>2. QED
    BY <2>1, <1>1, <1>a, <1>d DEF Committed
<1>12. QED
  BY <1>1, <1>5, <1>6, <1>7, <1>8, <1>10, <1>11 DEF Inv

(* Every step. *)
LEMMA InvNext == Inv /\ [Next]_vars => Inv'
<1> SUFFICES ASSUME Inv, [Next]_vars PROVE Inv'
  OBVIOUS
<1>1. CASE Lua
  BY <1>1, AddEffect, InsertEffect, EnqueueNext, PingNext, IdleNext DEF Lua
<1>2. ASSUME NEW q \in queries, ExecuteOk(q) PROVE Inv'
  <2>1. q.flag \in {"NONE", "BEGIN", "COMMIT"}
    BY <1>2, OkFacts
  <2>2. QED
    BY <2>1, <1>2, CommitNext, BeginNext, StatementNext
<1>3. CASE Run
  BY <1>2, <1>3, RunPingNext, DiscardNext, IdleNext, FailsNext DEF Run
<1>4. QED
  BY <1>1, <1>3, IdleNext DEF Next

-------------------------------------------------------------------------------
(* The theorems. *)

(* The connection keeps the invariant. *)
THEOREM Invariance == Spec => []Inv
BY InvInit, InvNext, PTL DEF Spec

(* A query outside transactions that was answered with success is committed,  *)
(* whatever is put in front of it, fails or is lost.                          *)
THEOREM LoneIsDurable == Spec => []AnsweredIsDurable
<1>1. Inv => AnsweredIsDurable
  BY DEF Inv
<1>2. QED
  BY <1>1, Invariance, PTL

(* When everything queued is done and Lua has closed its transactions, the    *)
(* session is back in autocommit and nothing is uncommitted, whatever failed, *)
(* and wherever the session was lost.                                         *)
THEOREM Settles == Spec => []BackToAutocommit
<1>1. Inv => BackToAutocommit
  <2> SUFFICES ASSUME Inv, query_list_ = <<>>, open = NoTxn
               PROVE  flag_ = "NONE" /\ autocommit /\ pending = {}
    BY DEF BackToAutocommit
  <2>1. Past = queries
    <3>1. DOMAIN query_list_ = {}
      OBVIOUS
    <3>2. QED
      BY <3>1 DEF Past, Queued, Names
  <2>2. \A t \in 1..MaxQueries : ~Inside(t)
    <3> SUFFICES ASSUME NEW t \in 1..MaxQueries, Inside(t) PROVE FALSE
      OBVIOUS
    <3>1. PICK b \in queries : b.id = t /\ b.flag = "BEGIN"
      BY <2>1 DEF Inside
    <3>2. b.txn = t /\ t # NoTxn
      BY <3>1 DEF Inv, Named, NoTxn
    <3>3. Closed(t)
      BY <3>1, <3>2 DEF Inv, Written
    <3>4. QED
      BY <3>3, <2>1 DEF Inside, Closed
  <2>3. QED
    BY <2>2 DEF Inv, Flagged
<1>2. QED
  BY <1>1, Invariance, PTL

(* As long as the session is not lost inside a transaction, the writes of a   *)
(* transaction are committed together or not at all, even when mysql_commit   *)
(* fails.                                                                     *)
THEOREM TransactionsAtomic == Kept => (Spec => []Atomic)
<1> SUFFICES ASSUME Kept PROVE Spec => []Atomic
  OBVIOUS
<1>1. Inv => Atomic
  <2> SUFFICES ASSUME Inv, NEW t \in Txns, NEW i \in Statements(t), i \in durable
               PROVE  Closed(t) /\ Statements(t) \subseteq durable
    BY DEF Atomic
  <2>1. t # NoTxn
    BY DEF Txns
  <2>2. PICK q \in queries : q.txn = t /\ q.id = i
    BY DEF Statements
  <2>3. /\ \E c \in Past : c.txn = t /\ c.flag = "COMMIT"
        /\ \A p \in queries : p.txn = t => p.id \in durable
    BY <2>1, <2>2 DEF Inv, Whole
  <2>4. QED
    BY <2>3 DEF Closed, Statements, Past
<1>2. QED
  BY <1>1, Invariance, PTL

(* On the same condition, a transaction of which any query was answered with  *)
(* failure leaves nothing behind, then or later.                              *)
THEOREM FailureUndoes == Kept => (Spec => []FailedMeansNothing)
<1> SUFFICES ASSUME Kept PROVE Spec => []FailedMeansNothing
  OBVIOUS
<1>1. Inv => FailedMeansNothing
  BY DEF Inv, Failed, FailedMeansNothing, Statements
<1>2. QED
  BY <1>1, Invariance, PTL

(* When mysql_commit does not fail either, the answer to a COMMIT is the      *)
(* truth about the whole transaction.                                         *)
THEOREM CommitAnswered == Kept /\ ~CommitFails => (Spec => []CommitAnswer)
<1> SUFFICES ASSUME Kept, ~CommitFails PROVE Spec => []CommitAnswer
  OBVIOUS
<1>1. Inv => CommitAnswer
  <2> SUFFICES ASSUME Inv, NEW q \in queries, q.flag = "COMMIT"
               PROVE  /\ answer[q.id] = "ok" => Statements(q.txn) \subseteq durable
                      /\ answer[q.id] = "failed" => Statements(q.txn) \cap durable = {}
    BY DEF CommitAnswer
  <2>1. q.txn # NoTxn
    BY DEF Inv, Named
  <2>2. answer[q.id] = "ok" => Statements(q.txn) \subseteq durable
    BY DEF Inv, Committed, Statements
  <2>3. answer[q.id] = "failed" => Statements(q.txn) \cap durable = {}
    BY <2>1 DEF Inv, Failed, Statements
  <2>4. QED
    BY <2>2, <2>3
<1>2. QED
  BY <1>1, Invariance, PTL

===============================================================================
