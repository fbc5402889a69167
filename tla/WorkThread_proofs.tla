--------------------------- MODULE WorkThread_proofs ---------------------------
(* Proofs about the work thread's timers, for every bound and every Wrap.     *)
EXTENDS WorkThread, FiniteSetTheorems, SequenceTheorems, TLAPS

-------------------------------------------------------------------------------
(* Arithmetic modulo 2^32. *)

(* The uint32 difference of two times is at most the time between them, and   *)
(* is that time when it is less than Wrap.                                    *)
LEMMA Elapsed ==
    ASSUME NEW w \in Nat \ {0}, NEW a \in Nat, NEW b \in Nat, b <= a
    PROVE  LET d == ((a % w) - (b % w)) % w
           IN /\ d \in 0..w - 1
              /\ d <= a - b
              /\ a - b < w => d = a - b
<1> DEFINE p == a \div w
           q == b \div w
           r == a % w
           s == b % w
           d == (r - s) % w
<1>1. a = w * p + r /\ p \in Int /\ r \in 0..w - 1
  OBVIOUS
<1>2. b = w * q + s /\ q \in Int /\ s \in 0..w - 1
  OBVIOUS
<1> HIDE DEF p, q, r, s
<1>3. w * (p - q) = w * p - w * q
  BY <1>1, <1>2
<1>4. a - b = w * (p - q) + (r - s)
  BY <1>1, <1>2, <1>3
<1> DEFINE k == p - q
           m == r - s
<1>5. k \in Int /\ m \in Int /\ m > -w /\ m < w /\ a - b = w * k + m /\ a - b >= 0
  BY <1>1, <1>2, <1>4
<1>6. d = IF m >= 0 THEN m ELSE m + w
  BY <1>1, <1>2
<1> HIDE DEF k, m, d
<1>7. k >= 0
  <2>1. k <= -1 => w * k <= -w
    BY <1>5
  <2>2. QED
    BY <1>5, <2>1
<1>8. w * k >= 0 /\ (k >= 1 => w * k >= w) /\ (k = 0 => w * k = 0)
  BY <1>5, <1>7
<1>9. CASE m >= 0
  BY <1>5, <1>6, <1>7, <1>8, <1>9 DEF d, r, s
<1>10. CASE m < 0
  <2>1. k >= 1
    BY <1>5, <1>7, <1>8, <1>10
  <2>2. QED
    BY <1>5, <1>6, <1>8, <1>10, <2>1 DEF d, r, s
<1>11. QED
  BY <1>5, <1>9, <1>10

(* (int32)(a - b) *)
LEMMA Int32Facts ==
    ASSUME NEW a \in Nat, NEW b \in Nat, b <= a
    PROVE  /\ Int32Diff(a % Wrap, b % Wrap) <= a - b
           /\ 2 * (a - b) < Wrap => Int32Diff(a % Wrap, b % Wrap) = a - b
<1> DEFINE d == ((a % Wrap) - (b % Wrap)) % Wrap
<1>w. Wrap \in Nat \ {0}
  BY WorkThreadAssumption
<1>1. d \in 0..Wrap - 1 /\ d <= a - b /\ (a - b < Wrap => d = a - b)
  BY <1>w, Elapsed
<1>2. Int32Diff(a % Wrap, b % Wrap) = IF 2 * d >= Wrap THEN d - Wrap ELSE d
  BY DEF Int32Diff, Int32
<1> HIDE DEF d
<1>3. QED
  BY <1>1, <1>2, <1>w

(* ... on any two uint32 values. *)
LEMMA Int32Range ==
    ASSUME NEW a \in Int, NEW b \in Int
    PROVE  Int32Diff(a, b) \in -Wrap..Wrap
<1> DEFINE d == (a - b) % Wrap
<1>1. Wrap \in Nat \ {0} /\ d \in 0..Wrap - 1
  BY WorkThreadAssumption
<1>2. Int32Diff(a, b) = IF 2 * d >= Wrap THEN d - Wrap ELSE d
  BY DEF Int32Diff, Int32
<1> HIDE DEF d
<1>3. QED
  BY <1>1, <1>2

-------------------------------------------------------------------------------
(* The inductive invariant. *)

(* A timer counts from when it was added or fired last, which is past. *)
Clocks == /\ walkStart \in Nat /\ walkStart <= now
          /\ \A i \in DOMAIN timer_map_ :
               /\ timer_map_[i].last_time_ = timer_map_[i].fired % Wrap
               /\ timer_map_[i].fired <= now

(* The walk is over when EventLoop is entered. *)
WalkOver == pc \in {"task", "collect", "loop"} => walk = {}

(* No timer goes unvisited for half the range of getMSTime (24 days): the     *)
(* int32 difference of Update is exact.                                       *)
ShortRun == 2 * (MaxTime - StartTime) < Wrap

(* What the walk has come to was not due when it began, or has fired since.   *)
Visited == ShortRun /\ ~rehashed => \A i \in DOMAIN timer_map_ \ walk : InTime(timer_map_[i])

Inv == TypeOK /\ Clocks /\ WalkOver /\ Visited /\ DeletedOnce

(* The constants that bound the times. *)
LEMMA Bounds == /\ StartTime \in Nat /\ MaxTime \in Nat /\ StartTime <= MaxTime
                /\ Wrap \in Nat \ {0} /\ InvalidIndex \in Nat /\ InvalidIndex > 1
                /\ WaitTime \in Nat /\ MaxAdded \in Nat
                /\ \A x \in Int : x % Wrap \in 0..Wrap - 1
BY WorkThreadAssumption

-------------------------------------------------------------------------------
(* The operations on timers. *)

Gone == {del_timer_list_[k] : k \in DOMAIN del_timer_list_}

Deleted == {i \in DOMAIN timer_map_ : timer_map_[i].is_delete_}

(* The times of a timer that is in the map. *)
LEMMA Times ==
    ASSUME TypeOK, NEW i \in DOMAIN timer_map_
    PROVE  /\ now \in Nat /\ now >= StartTime /\ now <= MaxTime
           /\ timer_map_[i].fired \in Nat /\ timer_map_[i].fired >= StartTime
           /\ timer_map_[i].interval_ \in Nat /\ timer_map_[i].interval_ < Wrap
<1>1. now \in StartTime..MaxTime /\ timer_map_[i] \in Timer
  BY DEF TypeOK
<1>2. timer_map_[i].fired \in StartTime..MaxTime /\ timer_map_[i].interval_ \in 0..Wrap - 1
  BY <1>1, WorkThreadAssumption DEF Timer
<1>3. StartTime \in Nat /\ MaxTime \in Nat /\ Wrap \in Nat \ {0}
  BY Bounds
<1>4. QED
  BY <1>1, <1>2, <1>3

(* A list that names n things and is n long names each once. *)
LEMMA ListedOnce ==
    ASSUME NEW J, IsFiniteSet(J), NEW s \in [1..Cardinality(J) -> J],
           \A i \in J : \E k \in DOMAIN s : s[k] = i
    PROVE  /\ s \in Seq(J) /\ Len(s) = Cardinality(J)
           /\ \A j, k \in DOMAIN s : s[j] = s[k] => j = k
<1>1. Cardinality(J) \in Nat
  BY FS_CardinalityType
<1>2. IsFiniteSet(1..Cardinality(J)) /\ Cardinality(1..Cardinality(J)) = Cardinality(J)
  BY <1>1, FS_Interval
<1>3. s \in Surjection(1..Cardinality(J), J)
  BY DEF Surjection
<1>4. s \in Injection(1..Cardinality(J), J)
  BY <1>2, <1>3, FS_SurjSameCardinalityImpliesInj
<1>5. \A j, k \in DOMAIN s : s[j] = s[k] => j = k
  BY <1>4 DEF Injection, IsInjective
<1>6. s \in Seq(J) /\ Len(s) = Cardinality(J)
  BY <1>1
<1>7. QED
  BY <1>5, <1>6

(* Delete marks the timers, lists those that were not marked, each once, and  *)
(* leaves the rest of them alone.                                             *)
LEMMA DeleteFacts ==
    ASSUME TypeOK, DeletedOnce, NEW I \in SUBSET DOMAIN timer_map_, Delete(I)
    PROVE  /\ DOMAIN timer_map_' = DOMAIN timer_map_
           /\ \A i \in DOMAIN timer_map_ :
                /\ timer_map_'[i] \in Timer
                /\ timer_map_'[i].last_time_ = timer_map_[i].last_time_
                /\ timer_map_'[i].interval_ = timer_map_[i].interval_
                /\ timer_map_'[i].fired = timer_map_[i].fired
                /\ timer_map_'[i].born = timer_map_[i].born
                /\ timer_map_[i].is_delete_ => timer_map_'[i].is_delete_
           /\ del_timer_list_' \in Seq(1..InvalidIndex - 1)
           /\ DeletedOnce'
<1> DEFINE J == {i \in I : ~timer_map_[i].is_delete_}
<1>t. /\ DOMAIN timer_map_ \subseteq 1..InvalidIndex - 1
      /\ \A i \in DOMAIN timer_map_ : timer_map_[i] \in Timer
      /\ del_timer_list_ \in Seq(1..InvalidIndex - 1)
  BY DEF TypeOK
<1>1. timer_map_' = [i \in DOMAIN timer_map_ |->
                        IF i \in J THEN [timer_map_[i] EXCEPT !.is_delete_ = TRUE]
                        ELSE timer_map_[i]]
  BY DEF Delete, IsDelete
<1>2. PICK s \in [1..Cardinality(J) -> J] :
         /\ \A i \in J : \E k \in DOMAIN s : s[k] = i
         /\ del_timer_list_' = del_timer_list_ \o s
  BY DEF Delete, IsDelete
<1>3. J \subseteq DOMAIN timer_map_ /\ J \subseteq 1..InvalidIndex - 1
  BY <1>t
<1>4. IsFiniteSet(J)
  <2>1. InvalidIndex - 1 \in Int
    BY Bounds
  <2>2. IsFiniteSet(1..InvalidIndex - 1)
    BY <2>1, FS_Interval
  <2>3. QED
    BY <1>3, <2>2, FS_Subset
<1>5. \A i \in J : ~timer_map_[i].is_delete_
  OBVIOUS
<1>6. \A i \in I : i \notin J => timer_map_[i].is_delete_
  OBVIOUS
<1> HIDE DEF J
<1>7. DOMAIN timer_map_' = DOMAIN timer_map_
  BY <1>1
<1>8. ASSUME NEW i \in DOMAIN timer_map_
      PROVE  /\ timer_map_'[i] \in Timer
             /\ timer_map_'[i].last_time_ = timer_map_[i].last_time_
             /\ timer_map_'[i].interval_ = timer_map_[i].interval_
             /\ timer_map_'[i].fired = timer_map_[i].fired
             /\ timer_map_'[i].born = timer_map_[i].born
             /\ timer_map_'[i].is_delete_ <=> timer_map_[i].is_delete_ \/ i \in J
  <2>1. timer_map_[i] \in Timer
    BY <1>t
  <2>2. CASE i \in J
    <3>1. timer_map_'[i] = [timer_map_[i] EXCEPT !.is_delete_ = TRUE]
      BY <1>1, <2>2
    <3>2. QED
      BY <2>1, <2>2, <3>1 DEF Timer
  <2>3. CASE i \notin J
    <3>1. timer_map_'[i] = timer_map_[i]
      BY <1>1, <2>3
    <3>2. QED
      BY <2>1, <2>3, <3>1
  <2>4. QED
    BY <2>2, <2>3
<1>9. /\ s \in Seq(J) /\ Len(s) \in Nat /\ DOMAIN s = 1..Len(s)
      /\ \A j, k \in DOMAIN s : s[j] = s[k] => j = k
  <2>1. /\ s \in Seq(J) /\ Len(s) = Cardinality(J)
        /\ \A j, k \in DOMAIN s : s[j] = s[k] => j = k
    BY <1>2, <1>4, ListedOnce
  <2>2. QED
    BY <2>1
<1> DEFINE m == Len(del_timer_list_)
           l == del_timer_list_'
<1>10. m \in Nat /\ DOMAIN del_timer_list_ = 1..m
  BY <1>t
<1>11. s \in Seq(1..InvalidIndex - 1)
  BY <1>3, <1>9, SeqMonotonic
<1>12. /\ l \in Seq(1..InvalidIndex - 1) /\ Len(l) = m + Len(s) /\ DOMAIN l = 1..(m + Len(s))
       /\ \A k \in 1..(m + Len(s)) : l[k] = IF k <= m THEN del_timer_list_[k] ELSE s[k - m]
  BY <1>2, <1>9, <1>10, <1>11, <1>t, ConcatProperties
<1>13. Gone = Deleted /\ \A j, k \in 1..m : del_timer_list_[j] = del_timer_list_[k] => j = k
  BY <1>10 DEF DeletedOnce, Gone, Deleted
<1>14. \A k \in 1..m : del_timer_list_[k] \in Deleted
  BY <1>10, <1>13 DEF Gone
<1>15. \A k \in 1..Len(s) : s[k] \in J /\ s[k] \notin Deleted
  BY <1>3, <1>5, <1>9, <1>2 DEF Deleted
<1> HIDE DEF l, m
<1>16. ASSUME NEW j \in 1..(m + Len(s)), NEW k \in 1..(m + Len(s)), l[j] = l[k] PROVE j = k
  <2>1. /\ j <= m => j \in 1..m /\ l[j] = del_timer_list_[j]
        /\ k <= m => k \in 1..m /\ l[k] = del_timer_list_[k]
    BY <1>9, <1>10, <1>12
  <2>2. /\ j > m => j - m \in 1..Len(s) /\ l[j] = s[j - m]
        /\ k > m => k - m \in 1..Len(s) /\ l[k] = s[k - m]
    BY <1>9, <1>10, <1>12
  <2>3. CASE j <= m /\ k <= m
    BY <1>13, <1>16, <2>1, <2>3
  <2>4. CASE j > m /\ k > m
    <3>1. j - m = k - m
      BY <1>9, <1>16, <2>2, <2>4
    <3>2. QED
      BY <3>1, <1>10
  <2>5. CASE j <= m /\ k > m
    BY <1>14, <1>15, <1>16, <2>1, <2>2, <2>5
  <2>6. CASE j > m /\ k <= m
    BY <1>14, <1>15, <1>16, <2>1, <2>2, <2>6
  <2>7. QED
    BY <1>10, <2>3, <2>4, <2>5, <2>6
<1>17. Gone' = Deleted \cup J
  <2>1. ASSUME NEW x \in Gone' PROVE x \in Deleted \cup J
    <3>1. PICK k \in 1..(m + Len(s)) : x = l[k]
      BY <1>12 DEF Gone, l
    <3>2. CASE k <= m
      <4>1. k \in 1..m /\ x = del_timer_list_[k]
        BY <1>10, <1>12, <3>1, <3>2
      <4>2. QED
        BY <1>14, <4>1
    <3>3. CASE k > m
      <4>1. k - m \in 1..Len(s) /\ x = s[k - m]
        BY <1>9, <1>10, <1>12, <3>1, <3>3
      <4>2. QED
        BY <1>15, <4>1
    <3>4. QED
      BY <1>10, <3>2, <3>3
  <2>2. ASSUME NEW x \in Deleted PROVE x \in Gone'
    <3>1. PICK k \in 1..m : x = del_timer_list_[k]
      BY <1>10, <1>13 DEF Gone
    <3>2. k \in 1..(m + Len(s)) /\ l[k] = x
      BY <1>9, <1>10, <1>12, <3>1
    <3>3. QED
      BY <1>12, <3>2 DEF Gone, l
  <2>3. ASSUME NEW x \in J PROVE x \in Gone'
    <3>1. PICK k \in 1..Len(s) : s[k] = x
      BY <1>2, <1>9
    <3>2. k + m \in 1..(m + Len(s)) /\ l[k + m] = s[(k + m) - m] /\ (k + m) - m = k
      BY <1>9, <1>10, <1>12, <3>1
    <3>3. QED
      BY <1>12, <3>1, <3>2 DEF Gone, l
  <2>4. QED
    BY <2>1, <2>2, <2>3
<1>18. Deleted' = Deleted \cup J
  BY <1>3, <1>7, <1>8 DEF Deleted
<1>19. DeletedOnce'
  BY <1>12, <1>16, <1>17, <1>18 DEF DeletedOnce, Gone, Deleted, l
<1>20. QED
  BY <1>7, <1>8, <1>12, <1>19 DEF l

(* add_timer puts one timer into the map, that counts from now. *)
LEMMA AddFacts ==
    ASSUME TypeOK, Clocks, NEW interval \in Intervals,
           add_timer(interval), MakeGeneralTimerID
    PROVE  /\ auto_timer_idx_ \in 1..InvalidIndex - 1 /\ auto_timer_idx_ \notin DOMAIN timer_map_
           /\ DOMAIN timer_map_' = DOMAIN timer_map_ \cup {auto_timer_idx_}
           /\ \A i \in DOMAIN timer_map_ : timer_map_'[i] = timer_map_[i]
           /\ LET t == timer_map_'[auto_timer_idx_]
              IN /\ t \in Timer /\ t.last_time_ = now % Wrap /\ t.fired = now
                 /\ t.is_delete_ = FALSE /\ t.interval_ = interval
<1> DEFINE t == [last_time_ |-> getMSTime, interval_ |-> interval,
                 is_delete_ |-> FALSE, fired |-> now, born |-> added + 1]
<1>1. timer_map_' = [i \in DOMAIN timer_map_ \cup {auto_timer_idx_} |->
                        IF i = auto_timer_idx_ THEN t ELSE timer_map_[i]]
  BY DEF add_timer
<1>2. auto_timer_idx_ \in 1..InvalidIndex - 1 /\ auto_timer_idx_ \notin DOMAIN timer_map_
  BY DEF TypeOK, MakeGeneralTimerID
<1>3. /\ t \in Timer /\ t.last_time_ = now % Wrap /\ t.fired = now
      /\ t.is_delete_ = FALSE /\ t.interval_ = interval
  <2>1. now \in StartTime..MaxTime /\ now \in Int
    BY Bounds DEF TypeOK
  <2>2. now % Wrap \in 0..Wrap - 1
    BY <2>1, Bounds
  <2>3. added + 1 \in 1..MaxAdded
    <3>1. added \in 0..MaxAdded /\ added < MaxAdded
      BY DEF TypeOK, add_timer
    <3>2. QED
      BY <3>1, Bounds
  <2>4. QED
    BY <2>1, <2>2, <2>3 DEF Timer, getMSTime
<1> HIDE DEF t
<1>4. QED
  BY <1>1, <1>2, <1>3

(* IntervalTimer::Update fires a timer only when its interval has passed, if  *)
(* it is not cast to a negative one, and, in a short run, whenever it has.    *)
LEMMA DueFacts ==
    ASSUME TypeOK, Clocks, NEW i \in DOMAIN timer_map_
    PROVE  /\ Due(timer_map_[i]) /\ 2 * timer_map_[i].interval_ < Wrap
                => now - timer_map_[i].fired >= timer_map_[i].interval_
           /\ ShortRun /\ ~Due(timer_map_[i])
                => now - timer_map_[i].fired < timer_map_[i].interval_
<1> DEFINE b == timer_map_[i].fired
           n == timer_map_[i].interval_
           x == Int32Diff(now % Wrap, b % Wrap)
<1>1. now \in Nat /\ now <= MaxTime /\ b \in Nat /\ b >= StartTime /\ b <= now /\ n \in Nat
      /\ Wrap \in Nat /\ n < Wrap
  <2>1. b <= now
    BY DEF Clocks
  <2>2. QED
    BY <2>1, Times, Bounds
<1>2. x <= now - b /\ (2 * (now - b) < Wrap => x = now - b)
  BY <1>1, Int32Facts
<1>3. Due(timer_map_[i]) <=> x >= IF 2 * n >= Wrap THEN n - Wrap ELSE n
  BY DEF Due, getMSTime, Clocks, Int32
<1>4. ShortRun => 2 * (now - b) < Wrap
  BY <1>1, Bounds DEF ShortRun
<1>5. x \in Int
  <2>1. now % Wrap \in Int /\ b % Wrap \in Int
    BY <1>1, Bounds
  <2>2. x \in -Wrap..Wrap
    BY <2>1, Int32Range
  <2>3. QED
    BY <2>2, Bounds
<1> HIDE DEF b, n, x
<1>6. QED
  BY <1>1, <1>2, <1>3, <1>4, <1>5 DEF b, n

(* A timer that fires counts from now. *)
LEMMA FiredFacts ==
    ASSUME TypeOK, NEW i \in DOMAIN timer_map_
    PROVE  LET t == Fired(timer_map_[i])
           IN /\ t \in Timer /\ t.last_time_ = now % Wrap /\ t.fired = now
              /\ t.is_delete_ = timer_map_[i].is_delete_ /\ t.interval_ = timer_map_[i].interval_
              /\ t.born = timer_map_[i].born
<1>1. now \in StartTime..MaxTime /\ now \in Int
  BY Bounds DEF TypeOK
<1>2. now % Wrap \in 0..Wrap - 1
  BY <1>1, Bounds
<1>3. timer_map_[i] \in Timer
  BY DEF TypeOK
<1>4. QED
  BY <1>1, <1>2, <1>3 DEF Fired, getMSTime, Timer

-------------------------------------------------------------------------------
(* The invariant is inductive. *)

(* The thread starts with no timers. *)
LEMMA InvInit == Init => Inv
<1> SUFFICES ASSUME Init PROVE Inv
  OBVIOUS
<1>1. DOMAIN timer_map_ = {} /\ DOMAIN del_timer_list_ = {} /\ walk = {}
  BY DEF Init
<1>2. TypeOK
  <2>1. /\ now \in StartTime..MaxTime /\ start_time \in StartTime..MaxTime
        /\ timeout \in -Wrap..Wrap /\ auto_timer_idx_ \in 1..InvalidIndex - 1
        /\ fires \in 0..InvalidIndex - 1 /\ added \in 0..MaxAdded
    BY Bounds DEF Init, NoTimer
  <2>2. next_time \in 0..Wrap - 1
    BY Bounds DEF Init
  <2>3. pc \in {"task", "collect", "walk", "callback", "loop", "hang"}
        /\ del_timer_list_ \in Seq(1..InvalidIndex - 1)
    BY DEF Init
  <2>4. QED
    BY <1>1, <2>1, <2>2, <2>3 DEF TypeOK
<1>3. Clocks
  <2>1. walkStart \in Nat /\ walkStart <= now
    BY Bounds DEF Init
  <2>2. QED
    BY <1>1, <2>1 DEF Clocks
<1>4. WalkOver /\ Visited /\ DeletedOnce
  BY <1>1 DEF WalkOver, Visited, DeletedOnce
<1>5. QED
  BY <1>2, <1>3, <1>4 DEF Inv

(* add_timer *)
LEMMA AddNext ==
    ASSUME Inv, NEW interval \in Intervals, add_timer(interval)
    PROVE  Inv'
<1>t. TypeOK /\ Clocks /\ WalkOver /\ Visited /\ DeletedOnce
  BY DEF Inv
<1>0. /\ UNCHANGED <<now, next_time, timeout, start_time, del_timer_list_, walkStart>>
      /\ fires' = 0
  BY DEF add_timer, timeVars, frameVars, NoTimer
<1>z. 0 \in 0..InvalidIndex - 1
  BY Bounds
<1>1. CASE ~MakeGeneralTimerID
  <2>1. UNCHANGED <<timer_map_, auto_timer_idx_, added, walk, rehashed>> /\ pc' = "hang"
    BY <1>1 DEF add_timer
  <2>2. TypeOK' /\ Clocks' /\ WalkOver' /\ Visited' /\ DeletedOnce'
    BY <1>0, <1>t, <1>z, <2>1 DEF TypeOK, Clocks, WalkOver, Visited, InTime, DeletedOnce
  <2>3. QED
    BY <2>2 DEF Inv
<1>2. CASE MakeGeneralTimerID
  <2> DEFINE a == auto_timer_idx_
  <2>1. /\ a \in 1..InvalidIndex - 1 /\ a \notin DOMAIN timer_map_
        /\ DOMAIN timer_map_' = DOMAIN timer_map_ \cup {a}
        /\ \A i \in DOMAIN timer_map_ : timer_map_'[i] = timer_map_[i]
        /\ timer_map_'[a] \in Timer /\ timer_map_'[a].last_time_ = now % Wrap
        /\ timer_map_'[a].fired = now
        /\ timer_map_'[a].is_delete_ = FALSE /\ timer_map_'[a].interval_ = interval
    BY <1>2, <1>t, AddFacts
  <2>2. /\ a' = IF a + 1 = InvalidIndex THEN 1 ELSE a + 1
        /\ pc' = pc
        /\ IF pc = "callback" THEN walk' \in SUBSET (DOMAIN timer_map_') /\ rehashed' = TRUE
           ELSE UNCHANGED <<walk, rehashed>>
    BY <1>2 DEF add_timer
  <2> HIDE DEF a
  <2>3. auto_timer_idx_' \in 1..InvalidIndex - 1
    <3>1. auto_timer_idx_' = IF auto_timer_idx_ + 1 = InvalidIndex THEN 1 ELSE auto_timer_idx_ + 1
      BY <2>2 DEF a
    <3>2. auto_timer_idx_ \in 1..InvalidIndex - 1
      BY <2>1 DEF a
    <3>3. QED
      BY <3>1, <3>2, Bounds
  <2>4. walk' \subseteq DOMAIN timer_map_'
    BY <2>1, <2>2, <1>t DEF TypeOK
  <2>a. added' \in 0..MaxAdded
    <3>1. added \in 0..MaxAdded /\ added < MaxAdded /\ added' = added + 1
      BY <1>2, <1>t DEF TypeOK, add_timer
    <3>2. QED
      BY <3>1, Bounds
  <2>5. TypeOK'
    BY <1>0, <1>t, <1>z, <2>1, <2>2, <2>3, <2>4, <2>a DEF TypeOK
  <2>6. Clocks'
    <3>1. now \in Nat
      BY <1>t, Bounds DEF TypeOK
    <3>2. ASSUME NEW i \in DOMAIN timer_map_'
          PROVE  timer_map_'[i].last_time_ = timer_map_'[i].fired % Wrap /\ timer_map_'[i].fired <= now
      <4>1. CASE i = a
        BY <4>1, <3>1, <2>1
      <4>2. CASE i # a
        BY <4>2, <2>1, <1>t DEF Clocks
      <4>3. QED
        BY <4>1, <4>2
    <3>3. QED
      BY <3>2, <1>0, <1>t DEF Clocks
  <2>7. WalkOver'
    BY <1>t, <2>2 DEF WalkOver
  <2>8. Visited'
    <3>1. CASE rehashed'
      BY <3>1 DEF Visited
    <3>2. CASE ~rehashed'
      <4>1. walk' = walk /\ ~rehashed
        BY <2>2, <3>2
      <4>2. now \in Int /\ walkStart \in Int /\ walkStart <= now
        BY <1>t, Bounds DEF Clocks, TypeOK
      <4>3. now >= walkStart
        BY <4>2
      <4>4. ASSUME ShortRun, NEW i \in DOMAIN timer_map_' \ walk'
            PROVE  InTime(timer_map_[i])'
        <5>1. CASE i = a
          BY <5>1, <4>3, <2>1, <1>0 DEF InTime
        <5>2. CASE i # a
          BY <5>2, <4>1, <4>4, <2>1, <1>0, <1>t DEF Visited, InTime
        <5>3. QED
          BY <5>1, <5>2
      <4>5. QED
        BY <4>4, <1>0 DEF Visited
    <3>3. QED
      BY <3>1, <3>2
  <2>9. DeletedOnce'
    <3>1. Deleted' = Deleted
      BY <2>1 DEF Deleted
    <3>2. Gone' = Gone
      BY <1>0 DEF Gone
    <3>3. QED
      BY <3>1, <3>2, <1>0, <1>t DEF DeletedOnce, Gone, Deleted
  <2>10. QED
    BY <2>5, <2>6, <2>7, <2>8, <2>9 DEF Inv
<1>3. QED
  BY <1>1, <1>2

(* remove_timer and stop_all_timer *)
LEMMA RemoveNext ==
    ASSUME Inv, (\E i \in DOMAIN timer_map_ : remove_timer(i)) \/ stop_all_timer
    PROVE  Inv'
<1>t. TypeOK /\ Clocks /\ WalkOver /\ Visited /\ DeletedOnce
  BY DEF Inv
<1>0. /\ UNCHANGED <<now, next_time, timeout, start_time, auto_timer_idx_, added, walk, walkStart, rehashed, pc>>
      /\ fires' = 0
  BY DEF remove_timer, stop_all_timer, timeVars, frameVars, walkVars, NoTimer
<1>z. 0 \in 0..InvalidIndex - 1
  BY Bounds
<1>1. PICK I \in SUBSET DOMAIN timer_map_ : Delete(I)
  BY DEF remove_timer, stop_all_timer
<1>2. /\ DOMAIN timer_map_' = DOMAIN timer_map_
      /\ \A i \in DOMAIN timer_map_ :
           /\ timer_map_'[i] \in Timer
           /\ timer_map_'[i].last_time_ = timer_map_[i].last_time_
           /\ timer_map_'[i].interval_ = timer_map_[i].interval_
           /\ timer_map_'[i].fired = timer_map_[i].fired
           /\ timer_map_'[i].born = timer_map_[i].born
           /\ timer_map_[i].is_delete_ => timer_map_'[i].is_delete_
      /\ del_timer_list_' \in Seq(1..InvalidIndex - 1)
      /\ DeletedOnce'
  BY <1>1, <1>t, DeleteFacts
<1>3. TypeOK'
  BY <1>0, <1>2, <1>t, <1>z DEF TypeOK
<1>4. Clocks'
  BY <1>0, <1>2, <1>t DEF Clocks
<1>5. WalkOver'
  BY <1>0, <1>t DEF WalkOver
<1>6. Visited'
  <2>1. ASSUME ShortRun, ~rehashed, NEW i \in DOMAIN timer_map_ \ walk
        PROVE  InTime(timer_map_[i])'
    BY <2>1, <1>0, <1>2, <1>t DEF Visited, InTime
  <2>2. QED
    BY <2>1, <1>0, <1>2 DEF Visited
<1>7. QED
  BY <1>2, <1>3, <1>4, <1>5, <1>6 DEF Inv

(* Steps that touch no timer. *)
LEMMA MoveNext ==
    ASSUME Inv, Tick \/ TasksDone \/ CallbackReturns \/ EnterLoop \/ LoopReturns \/ UNCHANGED vars
    PROVE  Inv'
<1>t. TypeOK /\ Clocks /\ WalkOver /\ Visited /\ DeletedOnce
  BY DEF Inv
<1>0. /\ UNCHANGED <<timer_map_, del_timer_list_, auto_timer_idx_, added, walk, walkStart, rehashed>>
  BY DEF Tick, TasksDone, CallbackReturns, EnterLoop, LoopReturns, vars, timerVars, walkVars
<1>z. 0 \in 0..InvalidIndex - 1
  BY Bounds
<1>n. now \in Nat /\ now >= StartTime /\ now <= MaxTime /\ next_time \in Nat
  BY <1>t, Bounds DEF TypeOK
<1>1. now' \in StartTime..MaxTime /\ now' >= now
  <2>1. now' = now \/ (now < MaxTime /\ now' = now + 1)
    BY DEF Tick, TasksDone, CallbackReturns, EnterLoop, LoopReturns, vars, timeVars
  <2>2. QED
    BY <2>1, <1>n, Bounds
<1>2. next_time' \in 0..Wrap - 1
  <2>1. next_time' = next_time \/ next_time' = (next_time + WaitTime) % Wrap
    BY DEF Tick, TasksDone, CallbackReturns, EnterLoop, LoopReturns, vars, frameVars
  <2>2. next_time + WaitTime \in Int
    BY <1>n, Bounds
  <2>3. QED
    BY <2>1, <2>2, <1>t, Bounds DEF TypeOK
<1>3. timeout' \in -Wrap..Wrap
  <2>1. timeout' = timeout \/ timeout' = FrameTimeout
    BY DEF Tick, TasksDone, CallbackReturns, EnterLoop, LoopReturns, vars, frameVars
  <2>2. getMSTime \in Int
    BY <1>n, Bounds DEF getMSTime
  <2>3. 0 \in -Wrap..Wrap /\ Int32Diff(next_time, getMSTime) \in -Wrap..Wrap
    BY <2>2, <1>n, Bounds, Int32Range
  <2>4. QED
    BY <2>1, <2>3, <1>t DEF FrameTimeout, TypeOK
<1>4. start_time' \in StartTime..MaxTime
  BY <1>t DEF Tick, TasksDone, CallbackReturns, EnterLoop, LoopReturns, vars, frameVars, TypeOK
<1>5. fires' \in 0..InvalidIndex - 1
      /\ pc' \in {"task", "collect", "walk", "callback", "loop", "hang"}
  BY <1>t, <1>z DEF Tick, TasksDone, CallbackReturns, EnterLoop, LoopReturns, vars, TypeOK, NoTimer
<1>6. TypeOK'
  BY <1>0, <1>1, <1>2, <1>3, <1>4, <1>5, <1>t DEF TypeOK
<1>7. Clocks'
  <2>1. now' \in Nat /\ walkStart <= now'
    BY <1>1, <1>n, <1>t, Bounds DEF Clocks
  <2>2. ASSUME NEW i \in DOMAIN timer_map_ PROVE timer_map_[i].fired <= now'
    <3>1. timer_map_[i].fired \in Nat /\ timer_map_[i].fired <= now
      <4>1. timer_map_[i].fired <= now
        BY <1>t DEF Clocks
      <4>2. QED
        BY <4>1, <1>t, Times
    <3>2. QED
      BY <3>1, <1>1, <1>n, <2>1
  <2>3. QED
    BY <2>1, <2>2, <1>0, <1>t DEF Clocks
<1>8. WalkOver'
  BY <1>0, <1>t DEF Tick, TasksDone, CallbackReturns, EnterLoop, LoopReturns, vars, WalkOver
<1>9. Visited' /\ DeletedOnce'
  BY <1>0, <1>t DEF Visited, InTime, DeletedOnce
<1>10. QED
  BY <1>6, <1>7, <1>8, <1>9 DEF Inv

(* The collection: what is listed is erased, and nothing else. *)
LEMMA CollectNext ==
    ASSUME Inv, Collect
    PROVE  Inv'
<1>t. TypeOK /\ Clocks /\ WalkOver /\ Visited /\ DeletedOnce
  BY DEF Inv
<1> DEFINE left == DOMAIN timer_map_ \ Gone
<1>0. /\ UNCHANGED <<now, next_time, timeout, start_time, auto_timer_idx_, added>>
      /\ timer_map_' = [i \in left |-> timer_map_[i]]
      /\ walk' = left /\ del_timer_list_' = <<>> /\ walkStart' = now /\ rehashed' = FALSE
      /\ pc' = "walk" /\ fires' = 0
  BY DEF Collect, Gone, timeVars, frameVars, NoTimer
<1>z. 0 \in 0..InvalidIndex - 1
  BY Bounds
<1>1. Gone = Deleted
  BY <1>t DEF DeletedOnce, Gone, Deleted
<1>2. /\ DOMAIN timer_map_' = left /\ left \subseteq DOMAIN timer_map_
      /\ \A i \in left : timer_map_'[i] = timer_map_[i] /\ ~timer_map_[i].is_delete_
  BY <1>0, <1>1 DEF Deleted
<1> HIDE DEF left
<1>3. TypeOK'
  BY <1>0, <1>2, <1>t, <1>z DEF TypeOK
<1>4. Clocks'
  <2>1. now \in Nat /\ now <= now
    BY <1>t, Bounds DEF TypeOK
  <2>2. QED
    BY <2>1, <1>0, <1>2, <1>t DEF Clocks
<1>5. WalkOver' /\ Visited'
  BY <1>0, <1>2 DEF WalkOver, Visited
<1>6. DeletedOnce'
  <2>1. DOMAIN del_timer_list_' = {}
    BY <1>0
  <2>2. QED
    BY <1>2, <2>1 DEF DeletedOnce
<1>7. QED
  BY <1>3, <1>4, <1>5, <1>6 DEF Inv

(* The walk comes to a timer. *)
LEMMA VisitNext ==
    ASSUME Inv, NEW i \in walk, Visit(i)
    PROVE  Inv'
<1>t. TypeOK /\ Clocks /\ WalkOver /\ Visited /\ DeletedOnce /\ i \in DOMAIN timer_map_
      /\ i \in 1..InvalidIndex - 1 /\ timer_map_[i] \in Timer
  BY DEF Inv, TypeOK
<1>0. /\ UNCHANGED <<now, next_time, timeout, start_time, auto_timer_idx_, added, del_timer_list_, walkStart, rehashed>>
      /\ walk' = walk \ {i} /\ pc = "walk"
  BY DEF Visit, timeVars, frameVars
<1>z. 0 \in 0..InvalidIndex - 1 /\ i \in 0..InvalidIndex - 1
  BY <1>t, Bounds
<1>n. now \in Int /\ walkStart \in Int /\ walkStart <= now
      /\ timer_map_[i].fired \in Int /\ timer_map_[i].interval_ \in Int
  <2>1. walkStart \in Nat /\ walkStart <= now
    BY <1>t DEF Clocks
  <2>2. QED
    BY <2>1, <1>t, Times
<1>1. CASE ~timer_map_[i].is_delete_ /\ Due(timer_map_[i])
  <2> DEFINE t == Fired(timer_map_[i])
  <2>1. timer_map_' = [timer_map_ EXCEPT ![i] = t] /\ fires' = i /\ pc' = "callback"
    BY <1>1 DEF Visit, IsDelete
  <2>2. /\ t \in Timer /\ t.last_time_ = now % Wrap /\ t.fired = now
        /\ t.is_delete_ = timer_map_[i].is_delete_ /\ t.interval_ = timer_map_[i].interval_
    BY <1>t, FiredFacts
  <2> HIDE DEF t
  <2>3. /\ DOMAIN timer_map_' = DOMAIN timer_map_ /\ timer_map_'[i] = t
        /\ \A j \in DOMAIN timer_map_ : j # i => timer_map_'[j] = timer_map_[j]
    BY <2>1, <1>t
  <2>4. TypeOK'
    BY <1>0, <1>t, <1>z, <2>1, <2>2, <2>3 DEF TypeOK
  <2>5. Clocks'
    BY <1>0, <1>t, <1>n, <2>2, <2>3 DEF Clocks
  <2>6. WalkOver'
    BY <2>1 DEF WalkOver
  <2>7. Visited'
    <3>1. now >= walkStart
      BY <1>n
    <3>2. ASSUME ShortRun, ~rehashed, NEW j \in DOMAIN timer_map_ \ walk'
          PROVE  InTime(timer_map_[j])'
      <4>1. CASE j = i
        BY <4>1, <3>1, <1>0, <2>2, <2>3 DEF InTime
      <4>2. CASE j # i
        BY <4>2, <3>2, <1>0, <1>t, <2>3 DEF Visited, InTime
      <4>3. QED
        BY <4>1, <4>2
    <3>3. QED
      BY <3>2, <1>0, <2>3 DEF Visited
  <2>8. DeletedOnce'
    <3>1. Deleted' = Deleted
      BY <1>t, <2>2, <2>3 DEF Deleted
    <3>2. Gone' = Gone
      BY <1>0 DEF Gone
    <3>3. QED
      BY <3>1, <3>2, <1>0, <1>t DEF DeletedOnce, Gone, Deleted
  <2>9. QED
    BY <2>4, <2>5, <2>6, <2>7, <2>8 DEF Inv
<1>2. CASE ~(~timer_map_[i].is_delete_ /\ Due(timer_map_[i]))
  <2>1. UNCHANGED <<timer_map_, pc>> /\ fires' = 0
    BY <1>2 DEF Visit, IsDelete, NoTimer
  <2>2. TypeOK' /\ Clocks' /\ WalkOver' /\ DeletedOnce'
    BY <1>0, <1>t, <1>z, <2>1 DEF TypeOK, Clocks, WalkOver, DeletedOnce
  <2>3. Visited'
    <3>1. ASSUME ShortRun, ~timer_map_[i].is_delete_
          PROVE  walkStart - timer_map_[i].fired < timer_map_[i].interval_
      <4>1. now - timer_map_[i].fired < timer_map_[i].interval_
        BY <1>2, <1>t, <3>1, DueFacts
      <4>2. QED
        BY <4>1, <1>n
    <3>2. ASSUME ShortRun, ~rehashed, NEW j \in DOMAIN timer_map_ \ walk'
          PROVE  InTime(timer_map_[j])
      BY <3>1, <3>2, <1>0, <1>t DEF Visited, InTime
    <3>3. QED
      BY <3>2, <1>0, <2>1 DEF Visited, InTime
  <2>4. QED
    BY <2>2, <2>3 DEF Inv
<1>3. QED
  BY <1>1, <1>2

(* Every step keeps the invariant. *)
LEMMA InvNext == Inv /\ [Next]_vars => Inv'
BY AddNext, RemoveNext, MoveNext, CollectNext, VisitNext DEF Next

(* The invariant holds in every state. *)
THEOREM Invariance == Spec => []Inv
<1>1. Init => Inv
  BY InvInit
<1>2. Inv /\ [Next]_vars => Inv'
  BY InvNext
<1>3. QED
  BY <1>1, <1>2, PTL DEF Spec

(* remove_timer, stop_all_timer and the collection: a removed timer is listed *)
(* exactly once until it is collected, so it is deleted once.                 *)
THEOREM TimersDeletedOnce == Spec => []DeletedOnce
<1>1. Inv => DeletedOnce
  BY DEF Inv
<1>2. QED
  BY <1>1, Invariance, PTL

(* The walk leaves no timer behind that was due when it began, as long as no  *)
(* time between two looks at a timer reaches half the range of getMSTime.     *)
THEOREM WalkLeavesNone == ShortRun => (Spec => []NoneOverdue)
<1> SUFFICES ASSUME ShortRun PROVE Spec => []NoneOverdue
  OBVIOUS
<1>1. Inv => NoneOverdue
  BY DEF Inv, WalkOver, Visited, NoneOverdue
<1>2. QED
  BY <1>1, Invariance, PTL

(* Who fires: the timer the walk has come to, not removed and due. *)
LEMMA WhoFires ==
    Inv /\ Next => (fires' # NoTimer => /\ fires' \in DOMAIN timer_map_
                                        /\ ~timer_map_[fires'].is_delete_
                                        /\ Due(timer_map_[fires']))
<1> SUFFICES ASSUME Inv, Next, fires' # NoTimer
             PROVE  /\ fires' \in DOMAIN timer_map_
                    /\ ~timer_map_[fires'].is_delete_
                    /\ Due(timer_map_[fires'])
  OBVIOUS
<1>1. PICK i \in walk : Visit(i)
  BY DEF Next, add_timer, remove_timer, stop_all_timer, Tick, TasksDone, Collect,
     CallbackReturns, EnterLoop, LoopReturns
<1>2. fires' = i /\ ~timer_map_[i].is_delete_ /\ Due(timer_map_[i])
  BY <1>1 DEF Visit, IsDelete
<1>3. QED
  BY <1>1, <1>2 DEF Inv, TypeOK

(* MakeGeneralTimerID, add_timer and the collection: the index that Lua was   *)
(* given names its timer until Lua removes it: what is collected was removed, *)
(* and a new timer takes an index that is free.                               *)
THEOREM IndexesKept == Spec => IndexKept
<1>1. ASSUME Inv, [Next]_vars, NEW i \in DOMAIN timer_map_, ~timer_map_[i].is_delete_
      PROVE  i \in DOMAIN timer_map_' /\ timer_map_'[i].born = timer_map_[i].born
  <2>t. TypeOK /\ Clocks /\ DeletedOnce
    BY <1>1 DEF Inv
  <2>1. CASE UNCHANGED timer_map_
    BY <2>1
  <2>2. ASSUME NEW interval \in Intervals, add_timer(interval)
        PROVE  i \in DOMAIN timer_map_' /\ timer_map_'[i].born = timer_map_[i].born
    <3>1. CASE MakeGeneralTimerID
      BY <2>2, <3>1, <2>t, AddFacts
    <3>2. CASE ~MakeGeneralTimerID
      BY <2>1, <2>2, <3>2 DEF add_timer
    <3>3. QED
      BY <3>1, <3>2
  <2>3. ASSUME NEW I \in SUBSET DOMAIN timer_map_, Delete(I)
        PROVE  i \in DOMAIN timer_map_' /\ timer_map_'[i].born = timer_map_[i].born
    BY <2>3, <2>t, DeleteFacts
  <2>4. CASE Collect
    <3>1. Gone = Deleted
      BY <2>t DEF DeletedOnce, Gone, Deleted
    <3>2. i \in DOMAIN timer_map_ \ Gone
      BY <1>1, <3>1 DEF Deleted
    <3>3. timer_map_' = [j \in DOMAIN timer_map_ \ Gone |-> timer_map_[j]]
      BY <2>4 DEF Collect, Gone
    <3>4. QED
      BY <3>2, <3>3
  <2>5. ASSUME NEW j \in walk, Visit(j)
        PROVE  i \in DOMAIN timer_map_' /\ timer_map_'[i].born = timer_map_[i].born
    <3>1. j \in DOMAIN timer_map_
      BY <2>t DEF TypeOK
    <3>2. timer_map_' = timer_map_ \/ timer_map_' = [timer_map_ EXCEPT ![j] = Fired(timer_map_[j])]
      BY <2>5, <3>1 DEF Visit
    <3>3. Fired(timer_map_[j]).born = timer_map_[j].born
      BY <2>t, <3>1, FiredFacts
    <3>4. QED
      BY <3>1, <3>2, <3>3
  <2>6. QED
    BY <1>1, <2>1, <2>2, <2>3, <2>4, <2>5
    DEF Next, remove_timer, stop_all_timer, Tick, TasksDone, CallbackReturns, EnterLoop,
        LoopReturns, vars, timerVars
<1>2. Inv /\ [Next]_vars => [\A i \in DOMAIN timer_map_ : ~timer_map_[i].is_delete_
        => i \in DOMAIN timer_map_' /\ timer_map_'[i].born = timer_map_[i].born]_vars
  BY <1>1
<1>3. QED
  BY <1>2, Invariance, PTL DEF Spec, IndexKept

(* IntervalTimer::Update: no timer whose interval is less than half the range *)
(* of getMSTime fires before it has passed, by real time, however often       *)
(* getMSTime has wrapped.                                                     *)
THEOREM NeverEarly == Spec => NotEarly
<1>1. Inv /\ [Next]_vars => [fires' # NoTimer /\ 2 * timer_map_[fires'].interval_ < Wrap
        => now - timer_map_[fires'].fired >= timer_map_[fires'].interval_]_vars
  BY WhoFires, DueFacts DEF Inv
<1>2. QED
  BY <1>1, Invariance, PTL DEF Spec, NotEarly

-------------------------------------------------------------------------------
(* The length of a frame. *)

(* getMSTime does not wrap, nor does the end of a frame; epoll_wait does not  *)
(* fail.                                                                      *)
Undisturbed == MaxTime + WaitTime < Wrap /\ 2 * WaitTime < Wrap /\ ~Interrupted

(* The frame ends at most WaitTime from now, and EventLoop does not return    *)
(* before its end.                                                            *)
Frame == /\ next_time <= now + WaitTime
         /\ pc = "loop" => next_time - start_time <= timeout /\ timeout <= WaitTime

(* The first frame. *)
LEMMA FrameInit == Undisturbed /\ Init => Frame
<1> SUFFICES ASSUME Undisturbed, Init PROVE Frame
  OBVIOUS
<1>1. StartTime + WaitTime \in Nat /\ StartTime + WaitTime < Wrap /\ Wrap \in Nat \ {0}
  BY Bounds DEF Undisturbed
<1>2. (StartTime + WaitTime) % Wrap = StartTime + WaitTime
  BY <1>1
<1>3. QED
  BY <1>2, Bounds DEF Init, Frame

(* EnterLoop: what is left of the frame is not mistaken. *)
LEMMA TimeoutExact ==
    ASSUME Undisturbed, TypeOK, Frame
    PROVE  FrameTimeout = IF next_time > now THEN next_time - now ELSE 0
<1>1. now \in Nat /\ now < Wrap /\ next_time \in Nat /\ next_time < Wrap /\ Wrap \in Nat \ {0}
  BY Bounds DEF TypeOK, Undisturbed
<1>2. getMSTime = now
  BY <1>1 DEF getMSTime
<1>3. CASE next_time > now
  <2> DEFINE d == next_time - now
  <2>1. d \in Nat /\ d < Wrap /\ 2 * d < Wrap
    BY <1>1, <1>3, Bounds DEF Frame, Undisturbed
  <2> HIDE DEF d
  <2>2. d % Wrap = d
    BY <2>1, <1>1
  <2>3. Int32Diff(next_time, now) = IF 2 * (d % Wrap) >= Wrap THEN (d % Wrap) - Wrap ELSE d % Wrap
    BY DEF Int32Diff, Int32, d
  <2>4. Int32Diff(next_time, now) = d
    BY <2>1, <2>2, <2>3, <1>1
  <2>5. QED
    BY <1>2, <1>3, <2>4 DEF FrameTimeout, d
<1>4. CASE ~(next_time > now)
  BY <1>2, <1>4 DEF FrameTimeout
<1>5. QED
  BY <1>3, <1>4

(* Every step keeps the frame within its bounds. *)
LEMMA FrameNext == Undisturbed /\ TypeOK /\ Frame /\ [Next]_vars => Frame'
<1> SUFFICES ASSUME Undisturbed, TypeOK, Frame, [Next]_vars PROVE Frame'
  OBVIOUS
<1>1. /\ now \in Int /\ next_time \in Int /\ start_time \in Int /\ timeout \in Int
      /\ next_time >= 0 /\ WaitTime \in Nat /\ Wrap \in Nat \ {0} /\ now <= MaxTime /\ MaxTime \in Nat
  BY Bounds DEF TypeOK
<1>2. CASE /\ UNCHANGED <<now, next_time, timeout, start_time>>
           /\ pc' = "loop" => pc = "loop"
  BY <1>2 DEF Frame
<1>3. CASE Tick
  BY <1>1, <1>3 DEF Tick, Frame, frameVars
<1>4. CASE EnterLoop
  <2>1. timeout' = (IF next_time > now THEN next_time - now ELSE 0) /\ start_time' = now
        /\ UNCHANGED <<now, next_time>>
    BY <1>4, TimeoutExact DEF EnterLoop, timeVars
  <2>2. QED
    BY <2>1, <1>1 DEF Frame
<1>5. CASE LoopReturns
  <2>1. /\ now - start_time >= timeout /\ pc = "loop" /\ pc' = "task"
        /\ next_time' = (next_time + WaitTime) % Wrap /\ now' = now
    BY <1>5 DEF LoopReturns, Undisturbed
  <2>2. next_time <= now
    BY <2>1, <1>1 DEF Frame
  <2>3. next_time + WaitTime \in Nat /\ next_time + WaitTime < Wrap
    BY <2>2, <1>1 DEF Undisturbed
  <2>4. next_time' = next_time + WaitTime
    BY <2>1, <2>3, <1>1
  <2>5. QED
    BY <2>1, <2>2, <2>4, <1>1 DEF Frame
<1>6. ASSUME NEW interval \in Intervals, add_timer(interval) PROVE Frame'
  <2>1. UNCHANGED <<now, next_time, timeout, start_time>> /\ (pc' = pc \/ pc' = "hang")
    BY <1>6 DEF add_timer, timeVars, frameVars
  <2>2. QED
    BY <2>1, <1>2
<1>7. ASSUME NEW i \in walk, Visit(i) PROVE Frame'
  <2>1. UNCHANGED <<now, next_time, timeout, start_time>> /\ (pc' = pc \/ pc' = "callback")
    BY <1>7 DEF Visit, timeVars, frameVars
  <2>2. QED
    BY <2>1, <1>2
<1>8. CASE (\E i \in DOMAIN timer_map_ : remove_timer(i)) \/ stop_all_timer
  BY <1>8, <1>2 DEF remove_timer, stop_all_timer, timeVars, frameVars
<1>9. CASE TasksDone \/ Collect \/ CallbackReturns \/ UNCHANGED vars
  BY <1>9, <1>2 DEF TasksDone, Collect, CallbackReturns, vars, timeVars, frameVars
<1>10. QED
  BY <1>3, <1>4, <1>5, <1>6, <1>7, <1>8, <1>9 DEF Next

(* "100 ms per frame" (work_thread.cpp) is true until getMSTime wraps, as     *)
(* long as epoll_wait does not fail and nobody sets the clock: EventLoop is   *)
(* never given more than one frame, however late the tasks and timers of the  *)
(* frames before were.                                                        *)
THEOREM FrameBoundUntilWrap == Undisturbed => (Spec => []FrameBound)
<1> SUFFICES ASSUME Undisturbed PROVE Spec => []FrameBound
  OBVIOUS
<1>1. Init => Frame
  BY FrameInit
<1>2. TypeOK /\ Frame /\ [Next]_vars => Frame'
  BY FrameNext
<1>3. Inv => TypeOK
  BY DEF Inv
<1>4. Frame => FrameBound
  BY DEF Frame, FrameBound
<1>5. QED
  BY <1>1, <1>2, <1>3, <1>4, Invariance, PTL DEF Spec
===============================================================================
