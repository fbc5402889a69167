---------------------------- MODULE Worker_proofs ----------------------------
(* Proofs about a service thread and its SafeQueue, for every number of items *)
(* and pings and every bound.                                                 *)
EXTENDS Worker, SequenceTheorems, TLAPS

-------------------------------------------------------------------------------
(* The inductive invariant. *)

(* The semaphore never exceeds the posts the bound allows: a push waits for   *)
(* room for its own post, and there is one post more, that of the stop.       *)
Posts == /\ caller = "notify" => event_ < MaxPosts
         /\ caller = "stopping" => ~is_running_
         /\ is_running_ \/ caller = "stopping" => event_ <= MaxPosts

(* The thread has something in hand exactly while it works. *)
Hand == item # None <=> worker = "work"

(* The line L of items that are done, in hand and queued, when p items were   *)
(* pushed, t of them taken, and those of ins were put in front.               *)
Ordered(L, ins, p, t) ==
    /\ \A k \in 1..Len(L) : L[k] <= p
    /\ \A i \in 1..p : \E k \in 1..Len(L) : L[k] = i
    /\ \A j, k \in 1..Len(L) : j < k /\ L[j] # 0 /\ L[k] # 0 =>
         /\ L[j] # L[k]
         /\ L[j] > L[k] => L[j] \in DOMAIN ins
         /\ L[j] < L[k] /\ L[k] \in DOMAIN ins => j <= ins[L[k]]
    /\ \A x \in DOMAIN ins : ins[x] <= t

InLine == Ordered(Line, inserted, pushed, Len(Taken))

Inv == TypeOK /\ Posts /\ Hand /\ InLine

(* The bounds, and the marks that are no items. *)
LEMMA Bounds == /\ MaxItems \in Nat /\ MaxQueue \in Nat /\ MaxPosts \in Nat /\ MaxPosts > 0
                /\ Ping = 0 /\ None = MaxItems + 1 /\ None # Ping
BY WorkerAssumption DEF Ping, None

(* The parts of the line. *)
LEMMA Parts ==
    ASSUME TypeOK
    PROVE  /\ done \in Seq(Nat) /\ query_list_ \in Seq(Nat) /\ Taken \in Seq(Nat) /\ Line \in Seq(Nat)
           /\ Len(Line) = Len(Taken) + Len(query_list_)
           /\ \A k \in 1..Len(Line) :
                Line[k] = IF k <= Len(Taken) THEN Taken[k] ELSE query_list_[k - Len(Taken)]
           /\ item \in {Ping, None} => Taken = done
           /\ item \notin {Ping, None} => Taken = Append(done, item)
           /\ pushed \in Nat /\ inserted \in [DOMAIN inserted -> Nat]
<1>1. done \in Seq(1..MaxItems) /\ query_list_ \in Seq(0..MaxItems) /\ item \in 0..None
      /\ pushed \in 0..MaxItems /\ inserted \in [DOMAIN inserted -> Nat]
  BY DEF TypeOK
<1>2. 1..MaxItems \subseteq Nat /\ 0..MaxItems \subseteq Nat /\ item \in Nat /\ pushed \in Nat
  BY <1>1, Bounds
<1>3. done \in Seq(Nat) /\ query_list_ \in Seq(Nat)
  BY <1>1, <1>2, SeqMonotonic
<1>4. item \in {Ping, None} => Taken = done
  <2>1. done \o <<>> = done
    BY <1>3, ConcatEmptySeq
  <2>2. QED
    BY <2>1 DEF Taken, InHand
<1>5. item \notin {Ping, None} => Taken = Append(done, item)
  <2>1. Append(done, item) = done \o <<item>>
    BY <1>2, <1>3, AppendIsConcat
  <2>2. QED
    BY <2>1 DEF Taken, InHand
<1>6. Taken \in Seq(Nat)
  <2>1. Append(done, item) \in Seq(Nat)
    BY <1>2, <1>3, AppendProperties
  <2>2. QED
    BY <2>1, <1>3, <1>4, <1>5
<1>7. QED
  BY <1>1, <1>2, <1>3, <1>4, <1>5, <1>6, ConcatProperties DEF Line

-------------------------------------------------------------------------------
(* The line. *)

(* For each item put in front, how many were taken before it. *)
Marks(ins) == ins \in [DOMAIN ins -> Nat]

(* M is L without its element after the first t. *)
Without(M, L, t) == /\ Len(M) = Len(L) - 1
                    /\ \A k \in 1..Len(M) : M[k] = IF k <= t THEN L[k] ELSE L[k + 1]

(* M is L with y after the first t. *)
With(M, L, t, y) == /\ Len(M) = Len(L) + 1
                    /\ M[t + 1] = y
                    /\ \A k \in 1..Len(M) : k <= t => M[k] = L[k]
                    /\ \A k \in 1..Len(M) : k > t + 1 => M[k] = L[k - 1]

(* Places after t move by one, and stay in order. *)
LEMMA Shift ==
    ASSUME NEW t \in Nat, NEW j \in Nat, NEW k \in Nat, j < k
    PROVE  /\ (IF j <= t THEN j ELSE j + 1) < (IF k <= t THEN k ELSE k + 1)
           /\ j # t + 1 /\ k # t + 1
                => (IF j <= t THEN j ELSE j - 1) < (IF k <= t THEN k ELSE k - 1)
OBVIOUS

(* Of numbers at most p. *)
LEMMA AtMost ==
    ASSUME NEW a \in Nat, NEW b \in Nat, NEW p \in Nat, a <= b, b <= p
    PROVE  a <= p
OBVIOUS

LEMMA NotNext ==
    ASSUME NEW a \in Nat, NEW p \in Nat, a <= p
    PROVE  a # p + 1 /\ ~(a > p + 1)
OBVIOUS

(* pop of a ping, the first thing in the queue: it leaves the line. *)
LEMMA DropPing ==
    ASSUME NEW L \in Seq(Nat), NEW M \in Seq(Nat), NEW p \in Nat, NEW t \in Nat,
           NEW ins, Marks(ins), t < Len(L), L[t + 1] = 0, Without(M, L, t), Ordered(L, ins, p, t)
    PROVE  Ordered(M, ins, p, t)
<1> DEFINE e(k) == IF k <= t THEN k ELSE k + 1
<1>n. Len(L) \in Nat /\ Len(M) \in Nat /\ Len(M) = Len(L) - 1
  BY DEF Without
<1>e. \A k \in 1..Len(L) : L[k] \in Nat
  OBVIOUS
<1>w. \A k \in 1..Len(M) : M[k] = IF k <= t THEN L[k] ELSE L[k + 1]
  BY DEF Without
<1>o. /\ \A k \in 1..Len(L) : L[k] <= p
      /\ \A i \in 1..p : \E k \in 1..Len(L) : L[k] = i
      /\ \A j, k \in 1..Len(L) : j < k /\ L[j] # 0 /\ L[k] # 0 =>
           /\ L[j] # L[k]
           /\ L[j] > L[k] => L[j] \in DOMAIN ins
           /\ L[j] < L[k] /\ L[k] \in DOMAIN ins => j <= ins[L[k]]
      /\ \A x \in DOMAIN ins : ins[x] <= t
  BY DEF Ordered
<1>1. \A k \in 1..Len(M) : e(k) \in 1..Len(L) /\ M[k] = L[e(k)] /\ k <= e(k) /\ e(k) \in Nat
  <2>1. \A k \in 1..Len(M) : e(k) \in 1..Len(L) /\ k <= e(k) /\ e(k) \in Nat
    BY <1>n
  <2>2. \A k \in 1..Len(M) : M[k] = L[e(k)]
    BY <1>w
  <2>3. QED
    BY <2>1, <2>2
<1>2. ASSUME NEW j \in 1..Len(M), NEW k \in 1..Len(M), j < k PROVE e(j) < e(k)
  <2>1. j \in Nat /\ k \in Nat
    BY <1>n
  <2>2. QED
    BY <2>1, <1>2, Shift
<1> HIDE DEF e
<1>3. \A k \in 1..Len(M) : M[k] <= p
  BY <1>1, <1>o
<1>4. ASSUME NEW i \in 1..p PROVE \E k \in 1..Len(M) : M[k] = i
  <2>1. PICK k \in 1..Len(L) : L[k] = i
    BY <1>o
  <2>2. k # t + 1
    BY <2>1
  <2>3. CASE k <= t
    <3>1. k \in 1..Len(M)
      BY <2>3, <1>n
    <3>2. QED
      BY <2>1, <2>3, <3>1, <1>w
  <2>4. CASE k > t + 1
    <3>1. k - 1 \in 1..Len(M) /\ ~(k - 1 <= t) /\ (k - 1) + 1 = k
      BY <2>4, <1>n
    <3>2. M[k - 1] = L[k]
      BY <3>1, <1>w
    <3>3. QED
      BY <2>1, <3>1, <3>2
  <2>5. QED
    BY <2>2, <2>3, <2>4, <1>n
<1>5. ASSUME NEW j \in 1..Len(M), NEW k \in 1..Len(M), j < k, M[j] # 0, M[k] # 0
      PROVE  /\ M[j] # M[k]
             /\ M[j] > M[k] => M[j] \in DOMAIN ins
             /\ M[j] < M[k] /\ M[k] \in DOMAIN ins => j <= ins[M[k]]
  <2>1. /\ e(j) \in 1..Len(L) /\ e(k) \in 1..Len(L) /\ e(j) < e(k)
        /\ M[j] = L[e(j)] /\ M[k] = L[e(k)] /\ j <= e(j)
    BY <1>1, <1>2, <1>5
  <2>2. /\ M[j] # M[k]
        /\ M[j] > M[k] => M[j] \in DOMAIN ins
        /\ M[j] < M[k] /\ M[k] \in DOMAIN ins => e(j) <= ins[M[k]]
    BY <2>1, <1>5, <1>o
  <2>3. ASSUME M[j] < M[k], M[k] \in DOMAIN ins PROVE j <= ins[M[k]]
    <3>1. ins[M[k]] \in Nat /\ e(j) <= ins[M[k]]
      BY <2>2, <2>3 DEF Marks
    <3>2. j \in Nat /\ e(j) \in Nat /\ j <= e(j)
      BY <2>1, <1>1, <1>n
    <3>3. QED
      BY <3>1, <3>2, AtMost
  <2>4. QED
    BY <2>2, <2>3
<1>6. QED
  BY <1>3, <1>4, <1>5, <1>o DEF Ordered

(* push_back of a ping, and of the next item. *)
LEMMA AddLast ==
    ASSUME NEW L \in Seq(Nat), NEW M \in Seq(Nat), NEW p \in Nat, NEW r \in Nat, NEW t \in Nat,
           NEW y \in Nat, (y = 0 /\ r = p) \/ (y = p + 1 /\ r = p + 1),
           NEW ins, DOMAIN ins \subseteq 1..p, With(M, L, Len(L), y),
           Ordered(L, ins, p, t)
    PROVE  Ordered(M, ins, r, t)
<1>n. Len(L) \in Nat /\ Len(M) \in Nat /\ Len(M) = Len(L) + 1
  BY DEF With
<1>e. \A k \in 1..Len(L) : L[k] \in Nat
  OBVIOUS
<1>w. M[Len(M)] = y /\ \A k \in 1..Len(L) : M[k] = L[k]
  <2>1. M[Len(L) + 1] = y /\ \A k \in 1..Len(M) : k <= Len(L) => M[k] = L[k]
    BY DEF With
  <2>2. \A k \in 1..Len(L) : k \in 1..Len(M) /\ k <= Len(L)
    BY <1>n
  <2>3. QED
    BY <2>1, <2>2, <1>n
<1>o. /\ \A k \in 1..Len(L) : L[k] <= p
      /\ \A i \in 1..p : \E k \in 1..Len(L) : L[k] = i
      /\ \A j, k \in 1..Len(L) : j < k /\ L[j] # 0 /\ L[k] # 0 =>
           /\ L[j] # L[k]
           /\ L[j] > L[k] => L[j] \in DOMAIN ins
           /\ L[j] < L[k] /\ L[k] \in DOMAIN ins => j <= ins[L[k]]
      /\ \A x \in DOMAIN ins : ins[x] <= t
  BY DEF Ordered
<1>1. \A k \in 1..Len(M) : k \in 1..Len(L) \/ k = Len(M)
  BY <1>n
<1>2. M[Len(M)] = y /\ Len(M) \in 1..Len(M) /\ 1..Len(L) \subseteq 1..Len(M)
  BY <1>n, <1>w
<1>3. ASSUME NEW k \in 1..Len(M) PROVE M[k] <= r
  <2>1. CASE k \in 1..Len(L)
    <3>1. M[k] = L[k] /\ L[k] <= p /\ L[k] \in Nat
      BY <2>1, <1>e, <1>w, <1>o
    <3>2. QED
      BY <3>1
  <2>2. CASE k = Len(M)
    BY <2>2, <1>2
  <2>3. QED
    BY <1>1, <2>1, <2>2
<1>4. ASSUME NEW i \in 1..r PROVE \E k \in 1..Len(M) : M[k] = i
  <2>1. CASE i \in 1..p
    <3>1. PICK k \in 1..Len(L) : L[k] = i
      BY <2>1, <1>o
    <3>2. QED
      BY <3>1, <1>2, <1>w
  <2>2. CASE i \notin 1..p
    <3>1. i = y
      BY <2>2
    <3>2. QED
      BY <3>1, <1>2
  <2>3. QED
    BY <2>1, <2>2
<1>5. ASSUME NEW j \in 1..Len(M), NEW k \in 1..Len(M), j < k, M[j] # 0, M[k] # 0
      PROVE  /\ M[j] # M[k]
             /\ M[j] > M[k] => M[j] \in DOMAIN ins
             /\ M[j] < M[k] /\ M[k] \in DOMAIN ins => j <= ins[M[k]]
  <2>1. j \in 1..Len(L) /\ M[j] = L[j] /\ L[j] \in Nat /\ L[j] <= p
    <3>1. j \in 1..Len(L)
      BY <1>5, <1>n
    <3>2. QED
      BY <3>1, <1>e, <1>w, <1>o
  <2>2. CASE k \in 1..Len(L)
    BY <2>1, <2>2, <1>5, <1>o, <1>w
  <2>3. CASE k = Len(M)
    <3>1. M[k] = p + 1
      BY <2>3, <1>2, <1>5
    <3>2. p + 1 \notin DOMAIN ins
      OBVIOUS
    <3>3. M[j] # M[k] /\ ~(M[j] > M[k])
      <4>1. M[j] # p + 1 /\ ~(M[j] > p + 1)
        BY <2>1, NotNext
      <4>2. QED
        BY <3>1, <4>1
    <3>4. QED
      BY <3>1, <3>2, <3>3
  <2>4. QED
    BY <1>1, <2>2, <2>3
<1>6. QED
  BY <1>3, <1>4, <1>5, <1>o DEF Ordered

(* push_front of the next item: behind what is taken, before the rest. *)
LEMMA AddFirst ==
    ASSUME NEW L \in Seq(Nat), NEW M \in Seq(Nat), NEW p \in Nat, NEW t \in Nat, t <= Len(L),
           NEW ins, Marks(ins), DOMAIN ins \subseteq 1..p, With(M, L, t, p + 1),
           NEW new, DOMAIN new = DOMAIN ins \cup {p + 1},
           new[p + 1] = t, \A x \in DOMAIN ins : new[x] = ins[x],
           Ordered(L, ins, p, t)
    PROVE  Ordered(M, new, p + 1, t)
<1>n. Len(L) \in Nat /\ Len(M) \in Nat /\ Len(M) = Len(L) + 1
  BY DEF With
<1>e. \A k \in 1..Len(L) : L[k] \in Nat
  OBVIOUS
<1>w. /\ M[t + 1] = p + 1
      /\ \A k \in 1..Len(M) : k <= t => M[k] = L[k]
      /\ \A k \in 1..Len(M) : k > t + 1 => M[k] = L[k - 1]
  BY DEF With
<1>o. /\ \A k \in 1..Len(L) : L[k] <= p
      /\ \A i \in 1..p : \E k \in 1..Len(L) : L[k] = i
      /\ \A j, k \in 1..Len(L) : j < k /\ L[j] # 0 /\ L[k] # 0 =>
           /\ L[j] # L[k]
           /\ L[j] > L[k] => L[j] \in DOMAIN ins
           /\ L[j] < L[k] /\ L[k] \in DOMAIN ins => j <= ins[L[k]]
      /\ \A x \in DOMAIN ins : ins[x] <= t
  BY DEF Ordered
<1> DEFINE e(k) == IF k <= t THEN k ELSE k - 1
<1>1. ASSUME NEW k \in 1..Len(M), k # t + 1
      PROVE  /\ e(k) \in 1..Len(L) /\ M[k] = L[e(k)] /\ M[k] \in Nat /\ M[k] <= p
  <2>1. e(k) \in 1..Len(L)
    BY <1>1, <1>n
  <2>2. M[k] = L[e(k)]
    <3>1. k <= t \/ (~(k <= t) /\ k > t + 1)
      BY <1>1, <1>n
    <3>2. QED
      BY <3>1, <1>w
  <2>3. QED
    BY <2>1, <2>2, <1>e, <1>o
<1>2. ASSUME NEW j \in 1..Len(M), NEW k \in 1..Len(M), j < k, j # t + 1, k # t + 1
      PROVE  e(j) < e(k)
  <2>1. j \in Nat /\ k \in Nat
    BY <1>n
  <2>2. QED
    BY <2>1, <1>2, Shift
<1>3. \A k \in 1..Len(M) : k <= t + 1 \/ e(k) > t
  BY <1>n
<1>4. \A k \in 1..Len(M) : k <= t => e(k) = k
  OBVIOUS
<1> HIDE DEF e
<1>5. ASSUME NEW k \in 1..Len(M) PROVE M[k] <= p + 1
  <2>1. CASE k = t + 1
    BY <2>1, <1>w
  <2>2. CASE k # t + 1
    <3>1. M[k] \in Nat /\ M[k] <= p
      BY <2>2, <1>1
    <3>2. QED
      BY <3>1
  <2>3. QED
    BY <2>1, <2>2
<1>6. ASSUME NEW i \in 1..p + 1 PROVE \E k \in 1..Len(M) : M[k] = i
  <2>1. CASE i = p + 1
    <3>1. t + 1 \in 1..Len(M)
      BY <1>n
    <3>2. QED
      BY <2>1, <3>1, <1>w
  <2>2. CASE i # p + 1
    <3>1. PICK k \in 1..Len(L) : L[k] = i
      BY <2>2, <1>o
    <3>2. CASE k <= t
      <4>1. k \in 1..Len(M)
        BY <3>2, <1>n
      <4>2. QED
        BY <3>1, <3>2, <4>1, <1>w
    <3>3. CASE k > t
      <4>1. k + 1 \in 1..Len(M) /\ k + 1 > t + 1 /\ (k + 1) - 1 = k
        BY <3>3, <1>n
      <4>2. M[k + 1] = L[k]
        BY <4>1, <1>w
      <4>3. QED
        BY <3>1, <4>1, <4>2
    <3>4. QED
      BY <3>2, <3>3, <1>n
  <2>3. QED
    BY <2>1, <2>2
<1>7. ASSUME NEW j \in 1..Len(M), NEW k \in 1..Len(M), j < k, M[j] # 0, M[k] # 0
      PROVE  /\ M[j] # M[k]
             /\ M[j] > M[k] => M[j] \in DOMAIN new
             /\ M[j] < M[k] /\ M[k] \in DOMAIN new => j <= new[M[k]]
  <2>1. CASE j = t + 1
    <3>1. M[j] = p + 1 /\ M[k] \in Nat /\ M[k] <= p
      <4>1. k # t + 1
        BY <2>1, <1>7, <1>n
      <4>2. QED
        BY <4>1, <2>1, <1>1, <1>w
    <3>2. QED
      BY <3>1
  <2>2. CASE k = t + 1
    <3>1. M[k] = p + 1 /\ M[j] \in Nat /\ M[j] <= p /\ j <= t
      <4>1. j # t + 1 /\ j <= t
        BY <2>2, <1>7, <1>n
      <4>2. QED
        BY <4>1, <2>2, <1>1, <1>w
    <3>2. M[j] # M[k] /\ ~(M[j] > M[k])
      <4>1. M[j] # p + 1 /\ ~(M[j] > p + 1)
        BY <3>1, NotNext
      <4>2. QED
        BY <3>1, <4>1
    <3>3. new[M[k]] = t
      BY <3>1
    <3>4. QED
      BY <3>1, <3>2, <3>3
  <2>3. CASE j # t + 1 /\ k # t + 1
    <3>1. /\ e(j) \in 1..Len(L) /\ e(k) \in 1..Len(L) /\ e(j) < e(k)
          /\ M[j] = L[e(j)] /\ M[k] = L[e(k)] /\ M[k] \in Nat /\ M[k] <= p
      BY <2>3, <1>1, <1>2, <1>7
    <3>2. /\ M[j] # M[k]
          /\ M[j] > M[k] => M[j] \in DOMAIN ins
          /\ M[j] < M[k] /\ M[k] \in DOMAIN ins => e(j) <= ins[M[k]]
      <4>1. L[e(j)] # 0 /\ L[e(k)] # 0
        BY <3>1, <1>7
      <4>2. /\ L[e(j)] # L[e(k)]
            /\ L[e(j)] > L[e(k)] => L[e(j)] \in DOMAIN ins
            /\ L[e(j)] < L[e(k)] /\ L[e(k)] \in DOMAIN ins => e(j) <= ins[L[e(k)]]
        BY <3>1, <4>1, <1>o
      <4>3. QED
        BY <3>1, <4>2
    <3>3. M[k] \in DOMAIN new => M[k] \in DOMAIN ins
      <4>1. M[k] # p + 1
        BY <3>1, NotNext
      <4>2. QED
        BY <4>1
    <3>4. ASSUME M[j] < M[k], M[k] \in DOMAIN ins PROVE j <= new[M[k]]
      <4>1. e(j) <= ins[M[k]] /\ ins[M[k]] <= t /\ ins[M[k]] \in Nat /\ new[M[k]] = ins[M[k]]
        BY <3>2, <3>4, <1>o DEF Marks
      <4>2. e(j) \in Nat /\ j \in Nat
        BY <3>1, <1>n
      <4>3. e(j) <= t
        BY <4>1, <4>2
      <4>4. j <= t
        BY <4>2, <4>3, <2>3, <1>3
      <4>5. e(j) = j
        BY <4>4, <1>4
      <4>6. QED
        BY <4>1, <4>5
    <3>5. QED
      BY <3>2, <3>3, <3>4
  <2>4. QED
    BY <2>1, <2>2, <2>3
<1>8. \A x \in DOMAIN new : new[x] <= t
  BY <1>o
<1>9. QED
  BY <1>5, <1>6, <1>7, <1>8 DEF Ordered

-------------------------------------------------------------------------------
(* The invariant is inductive. *)

(* The service starts with nothing to do. *)
LEMMA InvInit == Init => Inv
<1> SUFFICES ASSUME Init PROVE Inv
  OBVIOUS
<1>1. TypeOK
  <2>1. event_ \in 0..MaxPosts + 1 /\ item \in 0..None /\ pushed \in 0..MaxItems
    BY Bounds DEF Init
  <2>2. query_list_ \in Seq(0..MaxItems) /\ done \in Seq(1..MaxItems)
    BY DEF Init
  <2>3. inserted \in [DOMAIN inserted -> Nat] /\ DOMAIN inserted \subseteq 1..pushed
    BY DEF Init
  <2>4. QED
    BY <2>1, <2>2, <2>3 DEF Init, TypeOK
<1>2. Posts /\ Hand
  BY Bounds DEF Init, Posts, Hand
<1>3. Len(Line) = 0 /\ Len(Taken) = 0 /\ pushed = 0 /\ DOMAIN inserted = {}
  <2>1. item = None /\ done = <<>> /\ query_list_ = <<>> /\ pushed = 0 /\ inserted = <<>>
    BY DEF Init
  <2>2. Taken = <<>>
    BY <1>1, <2>1, Parts
  <2>3. QED
    BY <1>1, <2>1, <2>2, Parts
<1>4. InLine
  <2>1. 1..0 = {}
    OBVIOUS
  <2>2. QED
    BY <1>3, <2>1 DEF InLine, Ordered
<1>5. QED
  BY <1>1, <1>2, <1>4 DEF Inv

(* Steps that touch neither the queue nor what the thread has in hand. *)
LEMMA OtherStep ==
    ASSUME Inv, UNCHANGED service,
           Check \/ PopEmpty \/ WaitBegin \/ SemWait \/ WaitEnd \/ WakeUp \/ Stop \/ StopWakeUp
    PROVE  Inv'
<1>t. TypeOK /\ Posts /\ Hand /\ InLine
  BY DEF Inv
<1>0. UNCHANGED <<query_list_, item, done, pushed, inserted>>
  BY DEF Check, PopEmpty, WaitBegin, SemWait, WaitEnd, WakeUp, Stop, StopWakeUp,
         callerVars, workerVars
<1>1. worker # "work" => worker' # "work"
  BY DEF Check, PopEmpty, WaitBegin, SemWait, WaitEnd, WakeUp, Stop, StopWakeUp, workerVars
<1>2. worker = "work" => worker' = worker
  BY DEF Check, PopEmpty, WaitBegin, SemWait, WaitEnd, WakeUp, Stop, StopWakeUp, workerVars
<1>n. event_ \in Nat /\ MaxPosts \in Nat
  BY <1>t, Bounds DEF TypeOK
<1>3. event_' \in 0..MaxPosts + 1 /\ Posts'
  <2>1. CASE Check \/ PopEmpty \/ WaitBegin \/ WaitEnd
    <3>1. UNCHANGED <<event_, caller, is_running_>>
      BY <2>1 DEF Check, PopEmpty, WaitBegin, WaitEnd, eventVars, callerVars
    <3>2. QED
      BY <3>1, <1>t DEF TypeOK, Posts
  <2>2. CASE SemWait
    <3>1. event_ > 0 /\ event_' = event_ - 1 /\ UNCHANGED <<caller, is_running_>>
      BY <2>2 DEF SemWait, callerVars
    <3>2. event_' \in 0..MaxPosts + 1 /\ event_' <= event_
      BY <3>1, <1>n, <1>t DEF TypeOK
    <3>3. QED
      BY <3>1, <3>2, <1>n, <1>t DEF Posts
  <2>3. CASE WakeUp
    <3>1. caller = "notify" /\ caller' = "idle" /\ (event_' = event_ \/ event_' = event_ + 1)
      BY <2>3 DEF WakeUp, Notify
    <3>2. event_ < MaxPosts
      BY <3>1, <1>t DEF Posts
    <3>3. event_' \in Nat /\ event_' <= MaxPosts
      BY <3>1, <3>2, <1>n
    <3>4. QED
      BY <3>1, <3>3, <1>n DEF Posts
  <2>4. CASE Stop
    <3>1. caller' \in {"waits", "stopping"} /\ event_' = event_ /\ is_running_ /\ ~is_running_'
      BY <2>4 DEF Stop, eventVars
    <3>2. event_ <= MaxPosts
      BY <3>1, <1>t DEF Posts
    <3>3. QED
      BY <3>1, <3>2, <1>n DEF Posts
  <2>5. CASE StopWakeUp
    <3>1. /\ caller = "stopping" /\ caller' = "idle" /\ (event_' = event_ \/ event_' = event_ + 1)
          /\ is_running_' = is_running_
      BY <2>5 DEF StopWakeUp, Notify
    <3>2. event_ <= MaxPosts
      BY <3>1, <1>t DEF Posts
    <3>3. event_' \in 0..MaxPosts + 1
      BY <3>1, <3>2, <1>n
    <3>4. QED
      BY <3>1, <3>3, <1>t DEF Posts
  <2>6. QED
    BY <2>1, <2>2, <2>3, <2>4, <2>5
<1>4. /\ is_running_' \in BOOLEAN /\ is_block_' \in BOOLEAN
      /\ worker' \in {"check", "pop", "work", "wait", "blocked", "woken", "exited"}
      /\ caller' \in {"idle", "notify", "stopping", "waits"}
  BY <1>t DEF Check, PopEmpty, WaitBegin, SemWait, WaitEnd, WakeUp, Stop, StopWakeUp, Notify,
              eventVars, callerVars, workerVars, TypeOK
<1>5. TypeOK'
  BY <1>0, <1>3, <1>4, <1>t DEF TypeOK
<1>6. Hand' /\ InLine'
  BY <1>0, <1>1, <1>2, <1>t DEF Hand, InLine, Line, Taken, InHand, None
<1>7. QED
  BY <1>3, <1>5, <1>6 DEF Inv

(* pop *)
LEMMA PopStep ==
    ASSUME Inv, UNCHANGED service, Pop
    PROVE  Inv'
<1>t. TypeOK /\ Posts /\ Hand /\ InLine
  BY DEF Inv
<1>0. /\ UNCHANGED <<done, pushed, inserted, is_running_, is_block_, event_, caller>>
      /\ worker = "pop" /\ worker' = "work" /\ query_list_ # <<>>
      /\ item' = Head(query_list_) /\ query_list_' = Tail(query_list_)
  BY DEF Pop, eventVars, callerVars
<1>1. item = None /\ Taken = done
  BY <1>0, <1>t, Parts DEF Hand
<1>2. query_list_ \in Seq(0..MaxItems)
  BY <1>t DEF TypeOK
<1>3. item' \in 0..MaxItems /\ query_list_' \in Seq(0..MaxItems)
  BY <1>0, <1>2, HeadTailProperties
<1>4. item' \in 0..None /\ item' # None
  BY <1>3, Bounds
<1>5. TypeOK'
  BY <1>0, <1>3, <1>4, <1>t DEF TypeOK, None
<1>6. Posts' /\ Hand'
  BY <1>0, <1>4, <1>t DEF Posts, Hand, None
<1> DEFINE q == query_list_
           n == Len(done)
           L == Line
           M == Line'
           T == Taken'
<1>7. /\ done \in Seq(Nat) /\ L \in Seq(Nat) /\ q \in Seq(Nat) /\ Len(L) = n + Len(q)
      /\ \A k \in 1..Len(L) : L[k] = IF k <= n THEN done[k] ELSE q[k - n]
      /\ pushed \in Nat /\ inserted \in [DOMAIN inserted -> Nat]
  BY <1>t, <1>1, Parts
<1>8. /\ T \in Seq(Nat) /\ M \in Seq(Nat) /\ Len(M) = Len(T) + Len(Tail(q))
      /\ \A k \in 1..Len(M) : M[k] = IF k <= Len(T) THEN T[k] ELSE Tail(q)[k - Len(T)]
      /\ item' = Ping => T = done
      /\ item' # Ping => T = Append(done, item')
  <2>1. (/\ Taken \in Seq(Nat) /\ Line \in Seq(Nat)
         /\ Len(Line) = Len(Taken) + Len(query_list_)
         /\ \A k \in 1..Len(Line) :
              Line[k] = IF k <= Len(Taken) THEN Taken[k] ELSE query_list_[k - Len(Taken)]
         /\ item \in {Ping, None} => Taken = done
         /\ item \notin {Ping, None} => Taken = Append(done, item))'
    BY <1>5, Parts, PTL
  <2>2. QED
    BY <2>1, <1>0, <1>4 DEF None, Ping
<1>9. /\ n \in Nat /\ Len(q) \in Nat /\ Len(q) > 0 /\ q[1] = item' /\ item' \in Nat
      /\ Len(Tail(q)) = Len(q) - 1 /\ \A k \in 1..Len(Tail(q)) : Tail(q)[k] = q[k + 1]
  <2>1. q \in Seq(Nat) /\ q # <<>> /\ n \in Nat /\ item' = Head(q)
    BY <1>0, <1>7
  <2> HIDE DEF q, n
  <2>2. /\ Len(Tail(q)) = Len(q) - 1 /\ \A k \in 1..Len(Tail(q)) : Tail(q)[k] = q[k + 1]
        /\ Head(q) \in Nat
    BY <2>1, HeadTailProperties
  <2>3. Len(q) \in Nat /\ Len(q) > 0
    BY <2>1, EmptySeq
  <2>4. Head(q) = q[1]
    BY <2>1
  <2>5. QED
    BY <2>1, <2>2, <2>3, <2>4
<1>10. Ordered(L, inserted, pushed, n) /\ Marks(inserted)
  BY <1>t, <1>1, <1>7 DEF InLine, Marks
<1> HIDE DEF q, n, L, M, T
<1>l. /\ n \in Nat /\ Len(q) \in Nat /\ Len(q) > 0 /\ Len(L) = n + Len(q)
      /\ Len(Tail(q)) = Len(q) - 1 /\ Len(M) = Len(T) + Len(Tail(q))
  BY <1>7, <1>8, <1>9
<1>11. CASE item' = Ping
  <2>1. Len(T) = n /\ Len(M) = Len(L) - 1 /\ n < Len(L)
    <3>1. T = done
      BY <1>8, <1>11
    <3>2. QED
      BY <3>1, <1>l DEF n
  <2>2. L[n + 1] = 0
    <3>1. n + 1 \in 1..Len(L) /\ ~(n + 1 <= n) /\ (n + 1) - n = 1
      BY <1>l
    <3>2. QED
      BY <3>1, <1>7, <1>9, <1>11 DEF Ping
  <2>3. ASSUME NEW k \in 1..Len(M) PROVE M[k] = IF k <= n THEN L[k] ELSE L[k + 1]
    <3>1. CASE k <= n
      <4>1. k \in 1..Len(L) /\ M[k] = done[k]
        BY <3>1, <2>1, <1>7, <1>8, <1>9, <1>11
      <4>2. QED
        BY <4>1, <3>1, <1>7
    <3>2. CASE k > n
      <4>1. k - n \in 1..Len(Tail(q)) /\ k + 1 \in 1..Len(L) /\ (k + 1) - n = (k - n) + 1
            /\ ~(k <= n) /\ ~(k + 1 <= n)
        BY <3>2, <2>1, <1>l
      <4>2. M[k] = Tail(q)[k - n] /\ L[k + 1] = q[(k + 1) - n]
        BY <4>1, <2>1, <1>7, <1>8
      <4>3. QED
        BY <4>1, <4>2, <1>9
    <3>3. QED
      BY <3>1, <3>2, <1>9
  <2>4. Ordered(M, inserted, pushed, n)
    <3>1. Without(M, L, n)
      BY <2>1, <2>3 DEF Without
    <3>2. QED
      BY <2>1, <2>2, <3>1, <1>7, <1>8, <1>9, <1>10, DropPing
  <2>5. InLine'
    BY <2>1, <2>4, <1>0 DEF InLine, M, T
  <2>6. QED
    BY <2>5, <1>5, <1>6 DEF Inv
<1>12. CASE item' # Ping
  <2>1. /\ T = Append(done, item') /\ Len(T) = n + 1 /\ T[n + 1] = item'
        /\ \A k \in 1..n : T[k] = done[k]
    <3>1. T = Append(done, item')
      BY <1>8, <1>12
    <3>2. QED
      BY <3>1, <1>7, <1>9, AppendProperties DEF n
  <2>2. Len(M) = Len(L)
    BY <2>1, <1>7, <1>8, <1>9
  <2>3. ASSUME NEW k \in 1..Len(M) PROVE M[k] = L[k]
    <3>1. CASE k <= n
      <4>1. k \in 1..n /\ k <= n + 1
        BY <3>1, <1>9
      <4>2. QED
        BY <4>1, <3>1, <2>1, <2>2, <1>7, <1>8
    <3>2. CASE k = n + 1
      <4>1. ~(k <= n) /\ k - n = 1 /\ k <= n + 1
        BY <3>2, <1>9
      <4>2. M[k] = item' /\ L[k] = q[k - n]
        BY <4>1, <3>2, <2>1, <2>2, <1>7, <1>8
      <4>3. QED
        BY <4>1, <4>2, <1>9
    <3>3. CASE k > n + 1
      <4>1. /\ ~(k <= n) /\ ~(k <= n + 1) /\ (k - (n + 1)) + 1 = k - n
            /\ k - (n + 1) \in 1..Len(Tail(q))
        BY <3>3, <2>2, <1>l
      <4>2. M[k] = Tail(q)[k - (n + 1)] /\ L[k] = q[k - n]
        BY <4>1, <2>1, <2>2, <1>7, <1>8
      <4>3. QED
        BY <4>1, <4>2, <1>9
    <3>4. QED
      BY <3>1, <3>2, <3>3, <1>9
  <2>4. M = L
    BY <2>2, <2>3, <1>7, <1>8, SeqEqual
  <2>5. Ordered(M, inserted, pushed, n + 1)
    <3>1. \A x \in DOMAIN inserted : inserted[x] \in Nat /\ inserted[x] <= n
      BY <1>7, <1>10 DEF Ordered
    <3>2. \A x \in DOMAIN inserted : inserted[x] <= n + 1
      BY <3>1, <1>9
    <3>3. QED
      BY <2>4, <3>2, <1>10 DEF Ordered
  <2>6. InLine'
    BY <2>1, <2>5, <1>0 DEF InLine, M, T
  <2>7. QED
    BY <2>6, <1>5, <1>6 DEF Inv
<1>13. QED
  BY <1>11, <1>12

(* The item in hand is done; of a ping nothing is left. *)
LEMMA WorkStep ==
    ASSUME Inv, UNCHANGED service, Work
    PROVE  Inv'
<1>t. TypeOK /\ Posts /\ Hand /\ InLine
  BY DEF Inv
<1>0. /\ UNCHANGED <<query_list_, pushed, inserted, is_running_, is_block_, event_, caller>>
      /\ worker = "work" /\ worker' = "pop" /\ item' = None
      /\ done' = IF item = Ping THEN done ELSE Append(done, item)
  BY DEF Work, eventVars, callerVars
<1>1. item # None
  BY <1>0, <1>t DEF Hand
<1>2. done' = Taken
  BY <1>0, <1>1, <1>t, Parts
<1>3. TypeOK'
  <2>1. item' \in 0..None
    BY <1>0, Bounds
  <2>2. item # Ping => item \in 1..MaxItems
    BY <1>1, <1>t, Bounds DEF TypeOK
  <2>3. done' \in Seq(1..MaxItems)
    BY <2>2, <1>0, <1>t, AppendProperties DEF TypeOK
  <2>4. QED
    BY <2>1, <2>3, <1>0, <1>t DEF TypeOK, None
<1>4. Taken' = Taken
  <2>1. (item \in {Ping, None} => Taken = done)'
    BY <1>3, Parts, PTL
  <2>2. QED
    BY <2>1, <1>0, <1>2 DEF None
<1>5. Posts' /\ Hand' /\ InLine'
  BY <1>0, <1>4, <1>t DEF Posts, Hand, None, InLine, Line
<1>6. QED
  BY <1>3, <1>5 DEF Inv

(* push_back of an item or of a ping, and push_front of an item. *)
LEMMA PushStep ==
    ASSUME Inv, UNCHANGED service, PushItem \/ PushFirst \/ PushPing
    PROVE  Inv'
<1>t. TypeOK /\ Posts /\ Hand /\ InLine
  BY DEF Inv
<1> DEFINE q == query_list_
           t == Len(Taken)
           L == Line
           M == Line'
           new == [i \in DOMAIN inserted \cup {pushed + 1} |->
                     IF i = pushed + 1 THEN t ELSE inserted[i]]
           Item == /\ pushed < MaxItems /\ pushed' = pushed + 1 /\ inserted' = inserted
                   /\ query_list_' = Append(q, pushed + 1)
           First == /\ pushed < MaxItems /\ pushed' = pushed + 1 /\ inserted' = new
                    /\ query_list_' = <<pushed + 1>> \o q
           Pings == pushed' = pushed /\ inserted' = inserted /\ query_list_' = Append(q, 0)
<1>0. /\ UNCHANGED <<done, item, worker, is_running_, is_block_, event_>>
      /\ event_ < MaxPosts /\ caller = "idle" /\ caller' = "notify"
      /\ Item \/ First \/ Pings
  BY DEF PushItem, PushFirst, PushPing, Push, eventVars, workerVars, Ping
<1>1. /\ q \in Seq(0..MaxItems) /\ pushed \in Nat /\ MaxItems \in Nat /\ pushed <= MaxItems
      /\ DOMAIN inserted \subseteq 1..pushed
  BY <1>t, Bounds DEF TypeOK
<1>2. Taken' = Taken
  BY <1>0 DEF Taken, InHand, None
<1>3. /\ q \in Seq(Nat) /\ Taken \in Seq(Nat) /\ L \in Seq(Nat) /\ Len(L) = t + Len(q)
      /\ \A k \in 1..Len(L) : L[k] = IF k <= t THEN Taken[k] ELSE q[k - t]
      /\ inserted \in [DOMAIN inserted -> Nat]
  BY <1>t, Parts
<1>4. t \in Nat /\ Len(q) \in Nat /\ Len(L) \in Nat /\ Len(L) = t + Len(q)
  BY <1>3
<1>5. Ordered(L, inserted, pushed, t) /\ Marks(inserted)
  BY <1>t, <1>3 DEF InLine, Marks
<1>6. /\ new \in [DOMAIN new -> Nat] /\ DOMAIN new = DOMAIN inserted \cup {pushed + 1}
      /\ new[pushed + 1] = t /\ \A x \in DOMAIN inserted : new[x] = inserted[x]
  BY <1>1, <1>3, <1>4
<1> HIDE DEF q, t, L, M, new
<1>7. pushed' \in 0..MaxItems /\ inserted' \in [DOMAIN inserted' -> Nat] /\ DOMAIN inserted' \subseteq 1..pushed'
  <2>1. CASE First
    <3>1. pushed + 1 \in 0..MaxItems /\ pushed + 1 \in 1..pushed + 1 /\ 1..pushed \subseteq 1..pushed + 1
      BY <2>1, <1>1
    <3>2. QED
      BY <2>1, <3>1, <1>1, <1>6
  <2>2. CASE Item
    <3>1. pushed + 1 \in 0..MaxItems /\ 1..pushed \subseteq 1..pushed + 1
      BY <2>2, <1>1
    <3>2. QED
      BY <2>2, <3>1, <1>1, <1>3
  <2>3. CASE Pings
    BY <2>3, <1>1, <1>3
  <2>4. QED
    BY <1>0, <2>1, <2>2, <2>3
<1>8. query_list_' \in Seq(0..MaxItems)
  <2>1. 0 \in 0..MaxItems /\ (pushed < MaxItems => pushed + 1 \in 0..MaxItems)
    BY <1>1
  <2>2. CASE Item \/ Pings
    <3>1. PICK x \in 0..MaxItems : query_list_' = Append(q, x)
      BY <2>1, <2>2
    <3>2. QED
      BY <3>1, <1>1, AppendProperties
  <2>3. CASE First
    <3>1. <<pushed + 1>> \in Seq(0..MaxItems)
      BY <2>1, <2>3
    <3>2. QED
      BY <3>1, <2>3, <1>1, ConcatProperties
  <2>4. QED
    BY <1>0, <2>2, <2>3
<1>9. TypeOK'
  BY <1>0, <1>7, <1>8, <1>t DEF TypeOK, None
<1>10. Posts' /\ Hand'
  BY <1>0, <1>t DEF Posts, Hand, None
<1>11. /\ M \in Seq(Nat) /\ Len(M) = t + Len(query_list_')
       /\ \A k \in 1..Len(M) : M[k] = IF k <= t THEN Taken[k] ELSE query_list_'[k - t]
  <2>1. (/\ Line \in Seq(Nat)
         /\ Len(Line) = Len(Taken) + Len(query_list_)
         /\ \A k \in 1..Len(Line) :
              Line[k] = IF k <= Len(Taken) THEN Taken[k] ELSE query_list_[k - Len(Taken)])'
    BY <1>9, Parts, PTL
  <2>2. QED
    BY <2>1, <1>2 DEF M, t
<1>12. ASSUME NEW y \in Nat, query_list_' = Append(q, y)
       PROVE  With(M, L, Len(L), y)
  <2>1. /\ Len(query_list_') = Len(q) + 1 /\ query_list_'[Len(q) + 1] = y
        /\ \A k \in 1..Len(q) : query_list_'[k] = q[k]
    BY <1>3, <1>12, AppendProperties
  <2>2. Len(M) = Len(L) + 1
    BY <2>1, <1>3, <1>4, <1>11
  <2>3. M[Len(L) + 1] = y
    <3>1. Len(L) + 1 \in 1..Len(M) /\ ~(Len(L) + 1 <= t) /\ (Len(L) + 1) - t = Len(q) + 1
      BY <2>2, <1>3, <1>4
    <3>2. QED
      BY <3>1, <2>1, <1>11
  <2>4. ASSUME NEW k \in 1..Len(M), k <= Len(L) PROVE M[k] = L[k]
    <3>1. k \in 1..Len(L) /\ (k > t => k - t \in 1..Len(q) /\ ~(k <= t)) /\ (k <= t \/ k > t)
      BY <2>2, <2>4, <1>4
    <3>2. QED
      BY <3>1, <2>1, <1>3, <1>11
  <2>5. \A k \in 1..Len(M) : ~(k > Len(L) + 1)
    BY <2>2, <1>4
  <2>6. QED
    BY <2>2, <2>3, <2>4, <2>5 DEF With
<1>13. Ordered(M, inserted', pushed', t)
  <2>1. CASE Item
    <3>1. With(M, L, Len(L), pushed + 1) /\ pushed + 1 \in Nat
      BY <2>1, <1>1, <1>12
    <3>2. Ordered(M, inserted, pushed + 1, t)
      BY <3>1, <1>1, <1>3, <1>4, <1>5, <1>11, AddLast
    <3>3. QED
      BY <2>1, <3>2
  <2>2. CASE Pings
    <3>1. With(M, L, Len(L), 0)
      BY <2>2, <1>12
    <3>2. Ordered(M, inserted, pushed, t)
      BY <3>1, <1>1, <1>3, <1>4, <1>5, <1>11, AddLast
    <3>3. QED
      BY <2>2, <3>2
  <2>3. CASE First
    <3>1. /\ Len(query_list_') = Len(q) + 1 /\ query_list_'[1] = pushed + 1
          /\ \A k \in 2..Len(q) + 1 : query_list_'[k] = q[k - 1]
      <4>1. <<pushed + 1>> \in Seq(Nat) /\ Len(<<pushed + 1>>) = 1 /\ <<pushed + 1>>[1] = pushed + 1
        BY <1>1
      <4>2. /\ Len(query_list_') = 1 + Len(q)
            /\ \A k \in 1..1 + Len(q) :
                 query_list_'[k] = IF k <= 1 THEN <<pushed + 1>>[k] ELSE q[k - 1]
        BY <4>1, <2>3, <1>3, ConcatProperties
      <4>3. QED
        BY <4>1, <4>2, <1>4
    <3>2. Len(M) = Len(L) + 1 /\ t <= Len(L)
      BY <3>1, <1>3, <1>4, <1>11
    <3>3. M[t + 1] = pushed + 1
      <4>1. t + 1 \in 1..Len(M) /\ ~(t + 1 <= t) /\ (t + 1) - t = 1
        BY <3>2, <1>4
      <4>2. QED
        BY <4>1, <3>1, <1>11
    <3>4. ASSUME NEW k \in 1..Len(M), k <= t PROVE M[k] = L[k]
      <4>1. k \in 1..Len(L)
        BY <3>2, <3>4, <1>4
      <4>2. QED
        BY <4>1, <3>4, <1>3, <1>11
    <3>5. ASSUME NEW k \in 1..Len(M), k > t + 1 PROVE M[k] = L[k - 1]
      <4>1. /\ ~(k <= t) /\ ~(k - 1 <= t) /\ k - t \in 2..Len(q) + 1 /\ k - 1 \in 1..Len(L)
            /\ (k - t) - 1 = (k - 1) - t
        BY <3>2, <3>5, <1>4
      <4>2. M[k] = query_list_'[k - t] /\ L[k - 1] = q[(k - 1) - t]
        BY <4>1, <1>3, <1>11
      <4>3. query_list_'[k - t] = q[(k - t) - 1]
        BY <4>1, <3>1
      <4>4. QED
        BY <4>1, <4>2, <4>3
    <3>6. Ordered(M, new, pushed + 1, t)
      <4>1. With(M, L, t, pushed + 1)
        BY <3>2, <3>3, <3>4, <3>5 DEF With
      <4>2. QED
        <5>1. L \in Seq(Nat) /\ M \in Seq(Nat) /\ pushed \in Nat /\ t <= Len(L)
              /\ DOMAIN inserted \subseteq 1..pushed
          BY <3>2, <1>1, <1>3, <1>11
        <5>2. QED
          BY <4>1, <5>1, <1>4, <1>5, <1>6, AddFirst
    <3>7. QED
      BY <2>3, <3>6
  <2>4. QED
    BY <1>0, <2>1, <2>2, <2>3
<1>14. InLine'
  BY <1>2, <1>13 DEF InLine, M, t
<1>15. QED
  BY <1>9, <1>10, <1>14 DEF Inv

(* Every step. *)
LEMMA InvNext == Inv /\ [Next]_vars => Inv'
<1> SUFFICES ASSUME Inv, [Next]_vars PROVE Inv'
  OBVIOUS
<1>1. CASE Next
  <2>1. Step /\ UNCHANGED service
    BY <1>1 DEF Next
  <2>2. QED
    BY <2>1, OtherStep, PopStep, WorkStep, PushStep DEF Step, WorkerStep
<1>2. CASE UNCHANGED vars
  <2>1. UNCHANGED <<service, query_list_, is_running_, is_block_, event_, worker, item, done, pushed, inserted, caller>>
    BY <1>2 DEF vars, eventVars, workerVars, callerVars
  <2>2. QED
    BY <2>1 DEF Inv, TypeOK, Posts, Hand, InLine, Line, Taken, InHand, None
<1>3. QED
  BY <1>1, <1>2

-------------------------------------------------------------------------------
(* The theorems. *)

(* The queue, the semaphore and the loops keep the invariant. *)
THEOREM Invariance == Spec => []Inv
BY InvInit, InvNext, PTL DEF Spec

(* The semaphore is posted at most once per push and once for the stop, and   *)
(* never taken below zero.                                                    *)
THEOREM TypeCorrect == Spec => []TypeOK
<1>1. Inv => TypeOK
  BY DEF Inv
<1>2. QED
  BY <1>1, Invariance, PTL

(* SafeQueue and the Run loops: whatever the service and however many pings   *)
(* lie between, every item pushed is done, in hand or queued, exactly once,   *)
(* and in the order pushed, but for those that InsertFristQuery put in front  *)
(* of all that was not taken yet.                                             *)
THEOREM ItemsInOrder == Spec => []InOrder
<1>1. Inv => InOrder
  <2> SUFFICES ASSUME Inv PROVE InOrder
    OBVIOUS
  <2>1. DOMAIN Line = 1..Len(Line)
    BY Parts DEF Inv
  <2>2. QED
    BY <2>1 DEF Inv, InLine, Ordered, InOrder, Ping
<1>2. QED
  BY <1>1, Invariance, PTL
===============================================================================
