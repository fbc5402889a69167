------------------------ MODULE SequenceBuffer_proofs ------------------------
(* Proofs about SequenceBuffer: for every buffer size and every bound.        *)
EXTENDS SequenceBuffer, SequenceTheorems, TLAPS

(* The bytes of a message are as many as its length, starting at pos + 1. *)
LEMMA BytesType ==
    ASSUME NEW m \in Message
    PROVE  /\ Bytes(m) \in Seq(Nat)
           /\ Len(Bytes(m)) = m.len
           /\ \A i \in 1..m.len : Bytes(m)[i] = m.pos + i
<1>1. m.pos \in Nat /\ m.len \in Nat /\ m.len > 0
  BY DEF Message
<1>2. Bytes(m) \in [1..m.len -> Nat]
  BY <1>1 DEF Bytes
<1>3. QED
  BY <1>1, <1>2 DEF Bytes

(* A counter that is not zero is one or more than one. *)
LEMMA NatCases == \A n \in Nat : n >= 1 => n = 1 \/ n > 1
  OBVIOUS

(* A line that is not empty has a first and a last place. *)
LEMMA NonZero == \A n \in Nat : n # 0 => 1 \in 1..n /\ n \in 1..n /\ (n = 1 \/ 1 < n)
  OBVIOUS

(* Offsets add up in any grouping. *)
LEMMA PlusAssoc == \A a, b, c \in Nat : a + (b + c) = (a + b) + c
  OBVIOUS

(* Every operation of sequence_buffer keeps the type invariant. *)
LEMMA TypeStep == TypeOK /\ [Next]_vars => TypeOK'
<1> SUFFICES ASSUME TypeOK, [Next]_vars PROVE TypeOK'
  OBVIOUS
<1> USE SizesAssumption
<1>1. CASE FillStep
  <2>1. Head(delay_buff_list_) \in Message /\ Tail(delay_buff_list_) \in Seq(Message)
    BY <1>1 DEF TypeOK, FillStep, HeadFits
  <2>2. Bytes(Head(delay_buff_list_)) \in Seq(Nat)
    BY <2>1, BytesType
  <2>3. QED
    BY <1>1, <2>1, <2>2 DEF TypeOK, FillStep
<1>2. CASE FillDone
  <2>1. CASE todo = 0
    BY <1>2, <2>1 DEF TypeOK, FillDone
  <2>2. CASE todo > 0
    <3>1. Current \in Message
      BY <2>2 DEF TypeOK, Current, Message
    <3>2. Bytes(Current) \in Seq(Nat)
      BY <3>1, BytesType
    <3>3. buffer_ \o Bytes(Current) \in Seq(Nat)
      BY <3>2 DEF TypeOK
    <3>4. Append(delay_buff_list_, Current) \in Seq(Message)
      BY <3>1 DEF TypeOK
    <3>5. buffer_' \in Seq(Nat) /\ delay_buff_list_' \in Seq(Message)
      BY <1>2, <2>2, <3>3, <3>4 DEF TypeOK, FillDone
    <3>6. QED
      BY <1>2, <3>5 DEF TypeOK, FillDone
  <2>3. QED
    BY <2>1, <2>2 DEF TypeOK
<1>3. CASE FillVector
  BY <1>3 DEF TypeOK, FillVector
<1>4. ASSUME NEW n \in Nat, StartWrite(n) PROVE TypeOK'
  BY <1>4 DEF TypeOK, StartWrite
<1>5. ASSUME NEW n \in 0..TotalSize, Remove(n) PROVE TypeOK'
  <2>1. n \in Nat /\ n <= Len(buffer_) /\ Len(buffer_) \in Nat
    BY <1>5 DEF TypeOK, Remove, GetSize
  <2>2. SubSeq(buffer_, 1, n) \in Seq(Nat)
    BY <2>1, SubSeqProperties DEF TypeOK
  <2>3. SubSeq(buffer_, n + 1, Len(buffer_)) \in Seq(Nat)
    BY <2>1, SubSeqProperties DEF TypeOK
  <2>4. QED
    BY <1>5, <2>2, <2>3 DEF TypeOK, Remove, GetSize
<1>6. CASE UNCHANGED vars
  BY <1>6 DEF TypeOK, vars
<1>7. QED
  BY <1>1, <1>2, <1>3, <1>4, <1>5, <1>6 DEF Next, Write, WriteMsg

(* The type invariant: every variable of the write buffer keeps its type, and *)
(* no unfinished write is left over between two calls.                        *)
THEOREM TypeCorrect == Spec => []TypeOK
<1>1. Allocate => TypeOK
  BY SizesAssumption DEF Allocate, TypeOK
<1>2. QED
  BY <1>1, TypeStep, PTL DEF Spec

(* The inductive invariant behind the safety properties.  Capacity is         *)
(* inductive only together with the types; EagerFill only because FillDone is *)
(* the sole way back to "ready" and is taken when the head does not fit;      *)
(* InOrder needs the message being written (todo) to be accounted for.        *)
IInv == TypeOK /\ Capacity /\ InOrder /\ EagerFill

(* FillVector moves the head message only into free room, in its place. *)
LEMMA FillStepInv == IInv /\ FillStep => (Capacity /\ InOrder /\ EagerFill)'
<1> SUFFICES ASSUME IInv, FillStep PROVE (Capacity /\ InOrder /\ EagerFill)'
  OBVIOUS
<1> USE SizesAssumption
<1> DEFINE h == Head(delay_buff_list_)
<1>t. TypeOK /\ Capacity /\ InOrder
  BY DEF IInv
<1>0. TypeOK'
  BY TypeStep, <1>t DEF Next
<1>1. /\ delay_buff_list_ \in Seq(Message) /\ delay_buff_list_ # <<>>
      /\ h \in Message /\ h.len \in Nat /\ h.pos \in Nat
      /\ h = delay_buff_list_[1]
      /\ Len(delay_buff_list_) \in Nat \ {0}
  <2>1. delay_buff_list_ \in Seq(Message) /\ delay_buff_list_ # <<>>
    BY <1>t DEF FillStep, HeadFits, TypeOK
  <2>2. h \in Message /\ h = delay_buff_list_[1] /\ Len(delay_buff_list_) \in Nat \ {0}
    BY <2>1
  <2>3. QED
    BY <2>1, <2>2 DEF Message
<1>n. Len(delay_buff_list_) \in Nat /\ Len(delay_buff_list_) >= 1
  BY <1>1
<1>l. h.len \in Nat /\ h.pos \in Nat
  BY <1>1
<1>2. Bytes(h) \in Seq(Nat) /\ Len(Bytes(h)) = h.len
      /\ \A i \in 1..h.len : Bytes(h)[i] = h.pos + i
  BY <1>1, BytesType
<1>3. /\ buffer_ \in Seq(Nat) /\ wire \in Seq(Nat)
      /\ Len(buffer_) \in Nat /\ Len(wire) \in Nat
      /\ todo \in Nat /\ accepted \in Nat
  BY <1>t DEF TypeOK
<1>b. buffer_' = buffer_ \o Bytes(h) /\ ~(GetSpace < h.len)
  BY DEF FillStep, HeadFits
<1> HIDE DEF h
<1>4. Len(buffer_') = Len(buffer_) + h.len
  BY <1>2, <1>3, <1>b
<1>5. Capacity'
  BY <1>1, <1>3, <1>4, <1>b DEF GetSpace, GetSize, Capacity
<1>6. h.pos = Len(wire) + Len(buffer_)
  <2>1. 1 \in 1..Len(delay_buff_list_)
    BY <1>1
  <2>2. delay_buff_list_[1].pos = DelayStart(1)
    BY <2>1, <1>t DEF InOrder
  <2>3. QED
    BY <2>2, <1>1 DEF DelayStart, GetSize
<1>7. \A i \in 1..Len(buffer_') : buffer_'[i] = Len(wire) + i
  <2> SUFFICES ASSUME NEW i \in 1..Len(buffer_') PROVE buffer_'[i] = Len(wire) + i
    OBVIOUS
  <2>1. CASE i <= Len(buffer_)
    <3>1. buffer_'[i] = buffer_[i]
      BY <2>1, <1>2, <1>3, <1>4, <1>b
    <3>2. QED
      BY <3>1, <2>1, <1>3, <1>t DEF InOrder, GetSize
  <2>2. CASE i > Len(buffer_)
    <3>1. i - Len(buffer_) \in 1..h.len
      BY <2>2, <1>3, <1>4, <1>1
    <3>2. buffer_'[i] = Bytes(h)[i - Len(buffer_)]
      BY <2>2, <1>2, <1>3, <1>4, <1>b
    <3>3. QED
      BY <3>1, <3>2, <1>2, <1>3, <1>6
  <2>3. QED
    BY <2>1, <2>2, <1>3
<1>8. /\ Len(delay_buff_list_') = Len(delay_buff_list_) - 1
      /\ \A i \in 1..Len(delay_buff_list_') :
            delay_buff_list_'[i] = delay_buff_list_[i + 1]
  BY <1>1, <1>n DEF FillStep
<1>9. /\ Len(wire') = Len(wire) /\ todo' = todo /\ accepted' = accepted
      /\ \A i \in 1..Len(wire') : wire'[i] = i
  BY <1>t DEF FillStep, InOrder
<1>10. ASSUME NEW i \in 1..Len(delay_buff_list_')
       PROVE  delay_buff_list_'[i].pos = DelayStart(i)'
  <2>1. i + 1 \in 1..Len(delay_buff_list_) /\ i \in Nat /\ i >= 1
    BY <1>8, <1>1
  <2>2. delay_buff_list_'[i].pos = DelayStart(i + 1)
    BY <2>1, <1>8, <1>t DEF InOrder
  <2>3. DelayStart(i + 1) = delay_buff_list_[i].pos + delay_buff_list_[i].len
    BY <2>1 DEF DelayStart
  <2>4. CASE i = 1
    <3>1. DelayStart(i)' = Len(wire) + Len(buffer_) + h.len
      <4>1. DelayStart(i)' = Len(wire') + Len(buffer_')
        BY <2>4 DEF DelayStart, GetSize
      <4>2. Len(wire') + Len(buffer_') = Len(wire) + (Len(buffer_) + h.len)
        BY <1>4, <1>9
      <4>3. Len(wire) + (Len(buffer_) + h.len) = Len(wire) + Len(buffer_) + h.len
        BY <1>3, <1>l, PlusAssoc
      <4>4. QED
        BY <4>1, <4>2, <4>3
    <3>2. QED
      BY <2>2, <2>3, <2>4, <3>1, <1>1, <1>6
  <2>5. CASE i # 1
    <3>1. i - 1 \in 1..Len(delay_buff_list_') /\ (i - 1) + 1 = i
      BY <2>5, <2>1
    <3>2. delay_buff_list_'[i - 1] = delay_buff_list_[i]
      BY <3>1, <1>8
    <3>3. QED
      BY <2>2, <2>3, <2>5, <3>2 DEF DelayStart
  <2>6. QED
    BY <2>4, <2>5
<1>11. StoredEnd' = StoredEnd
  <2>1. CASE Len(delay_buff_list_) = 1
    <3>1. StoredEnd = h.pos + h.len
      BY <2>1, <1>1 DEF StoredEnd
    <3>2. StoredEnd' = Len(wire) + Len(buffer_')
      BY <2>1, <1>8, <1>9 DEF StoredEnd, GetSize
    <3>3. QED
      BY <3>1, <3>2, <1>4, <1>6, <1>1, <1>3
  <2>2. CASE Len(delay_buff_list_) > 1
    <3>1. Len(delay_buff_list_') \in 1..Len(delay_buff_list_')
      BY <2>2, <1>8, <1>1
    <3>2. delay_buff_list_'[Len(delay_buff_list_')] = delay_buff_list_[Len(delay_buff_list_)]
      BY <3>1, <1>8, <1>1
    <3>3. QED
      BY <3>1, <3>2, <2>2, <1>8 DEF StoredEnd
  <2>3. Len(delay_buff_list_) = 1 \/ Len(delay_buff_list_) > 1
    BY <1>n, NatCases
  <2>4. QED
    BY <2>1, <2>2, <2>3
<1>12. InOrder'
  BY <1>7, <1>9, <1>10, <1>11, <1>t DEF InOrder, GetSize
<1>13. EagerFill'
  BY DEF FillStep, EagerFill
<1>14. QED
  BY <1>5, <1>12, <1>13

(* The end of FillVector, and the append or push_back of Write. *)
LEMMA FillDoneInv == IInv /\ FillDone => (Capacity /\ InOrder /\ EagerFill)'
<1> SUFFICES ASSUME IInv, FillDone PROVE (Capacity /\ InOrder /\ EagerFill)'
  OBVIOUS
<1> USE SizesAssumption
<1>t. TypeOK /\ Capacity /\ InOrder
  BY DEF IInv
<1>1. /\ buffer_ \in Seq(Nat) /\ wire \in Seq(Nat)
      /\ delay_buff_list_ \in Seq(Message)
      /\ todo \in Nat /\ accepted \in Nat /\ todo <= accepted
  BY <1>t DEF TypeOK
<1>2. Len(buffer_) \in Nat /\ Len(wire) \in Nat /\ Len(delay_buff_list_) \in Nat
  BY <1>1
<1>3. UNCHANGED <<accepted, wire>> /\ todo' = 0 /\ ~HeadFits
  BY DEF FillDone
<1>4. StoredEnd + todo = accepted
  BY <1>t DEF InOrder
<1>5. CASE todo = 0 /\ UNCHANGED <<buffer_, delay_buff_list_>>
  <2>1. StoredEnd' = StoredEnd /\ \A i : DelayStart(i)' = DelayStart(i)
    BY <1>5, <1>3 DEF StoredEnd, DelayStart, GetSize
  <2>2. InOrder'
    BY <1>t, <1>3, <1>5, <2>1 DEF InOrder, GetSize
  <2>3. Capacity'
    BY <1>t, <1>5 DEF Capacity, GetSize
  <2>4. EagerFill'
    <3> SUFFICES ASSUME delay_buff_list_ # <<>>
                 PROVE  Head(delay_buff_list_).len > GetSpace
      BY <1>5 DEF EagerFill, GetSpace, GetSize
    <3>1. Head(delay_buff_list_) \in Message
      BY <1>1
    <3>2. Head(delay_buff_list_).len \in Nat
      BY <3>1 DEF Message
    <3>3. GetSpace < Head(delay_buff_list_).len
      BY <1>3 DEF HeadFits
    <3>4. GetSpace \in Int
      BY <1>2 DEF GetSpace, GetSize
    <3>5. QED
      BY <3>2, <3>3, <3>4
  <2>5. QED
    BY <2>2, <2>3, <2>4
<1>6. ASSUME todo > 0
      PROVE  /\ Current \in Message
             /\ Current.len = todo
             /\ Current.pos = StoredEnd
             /\ Current.pos + Current.len = accepted
  <2>1. Current \in Message /\ Current.len = todo /\ Current.pos = accepted - todo
    BY <1>6, <1>1 DEF Current, Message
  <2>2. StoredEnd \in Int
    <3>1. CASE Len(delay_buff_list_) = 0
      BY <3>1, <1>2 DEF StoredEnd, GetSize
    <3>2. CASE Len(delay_buff_list_) # 0
      <4>1. delay_buff_list_[Len(delay_buff_list_)] \in Message
        BY <3>2, <1>1
      <4>2. QED
        BY <3>2, <4>1 DEF StoredEnd, Message
    <3>3. QED
      BY <3>1, <3>2
  <2>3. Current.pos = StoredEnd
    BY <2>1, <2>2, <1>1, <1>4
  <2>4. Current.pos + Current.len = accepted
    BY <2>1, <1>1
  <2>5. QED
    BY <2>1, <2>3, <2>4
<1>7. CASE todo > 0 /\ FitsNow /\ buffer_' = buffer_ \o Bytes(Current) /\ UNCHANGED delay_buff_list_
  <2> DEFINE m == Current
  <2>1. delay_buff_list_ = <<>> /\ ~(GetSpace < m.len) /\ m.pos = Len(wire) + Len(buffer_)
    BY <1>6, <1>7 DEF FitsNow, StoredEnd, GetSize
  <2>2. m \in Message /\ m.len \in Nat /\ m.pos \in Nat /\ m.pos + m.len = accepted
    BY <1>6, <1>7 DEF Message
  <2>3. Bytes(m) \in Seq(Nat) /\ Len(Bytes(m)) = m.len
        /\ \A i \in 1..m.len : Bytes(m)[i] = m.pos + i
    BY <2>2, BytesType
  <2>b. buffer_' = buffer_ \o Bytes(m)
    BY <1>7
  <2> HIDE DEF m
  <2>4. Len(buffer_') = Len(buffer_) + m.len
    <3>1. Len(buffer_ \o Bytes(m)) = Len(buffer_) + Len(Bytes(m))
      BY <2>3, <1>1, ConcatProperties
    <3>2. QED
      BY <3>1, <2>3, <2>b
  <2>5. Capacity'
    BY <2>1, <2>2, <2>4, <1>2 DEF Capacity, GetSpace, GetSize
  <2>6. \A i \in 1..Len(buffer_') : buffer_'[i] = Len(wire) + i
    <3> SUFFICES ASSUME NEW i \in 1..Len(buffer_') PROVE buffer_'[i] = Len(wire) + i
      OBVIOUS
    <3>1. CASE i <= Len(buffer_)
      <4>1. buffer_'[i] = buffer_[i]
        BY <3>1, <2>3, <1>1, <2>4, <2>b
      <4>2. QED
        BY <4>1, <3>1, <1>2, <1>t DEF InOrder, GetSize
    <3>2. CASE i > Len(buffer_)
      <4>1. i - Len(buffer_) \in 1..m.len
        BY <3>2, <1>2, <2>4, <2>2
      <4>2. buffer_'[i] = Bytes(m)[i - Len(buffer_)]
        BY <3>2, <2>3, <1>1, <2>4, <2>b
      <4>3. QED
        BY <4>1, <4>2, <2>1, <2>3, <1>2
    <3>3. QED
      BY <3>1, <3>2, <1>2
  <2>7. delay_buff_list_' = <<>> /\ Len(delay_buff_list_') = 0
    BY <2>1, <1>7
  <2>8. StoredEnd' + todo' = accepted'
    <3>1. StoredEnd' = Len(wire) + (Len(buffer_) + m.len)
      BY <2>4, <2>7, <1>3 DEF StoredEnd, GetSize
    <3>2. StoredEnd' = accepted
      BY <3>1, <2>1, <2>2, <1>2, PlusAssoc
    <3>3. QED
      BY <3>2, <1>3, <1>1
  <2>9. InOrder'
    BY <2>6, <2>7, <2>8, <1>3, <1>t DEF InOrder, GetSize
  <2>10. EagerFill'
    BY <2>7 DEF EagerFill
  <2>11. QED
    BY <2>5, <2>9, <2>10
<1>8. CASE todo > 0 /\ ~FitsNow /\ UNCHANGED buffer_
           /\ delay_buff_list_' = Append(delay_buff_list_, Current)
  <2> DEFINE n == Len(delay_buff_list_)
  <2>1. /\ delay_buff_list_' \in Seq(Message) /\ Len(delay_buff_list_') = n + 1
        /\ \A i \in 1..n : delay_buff_list_'[i] = delay_buff_list_[i]
        /\ delay_buff_list_'[n + 1] = Current
    BY <1>1, <1>6, <1>8
  <2>2. Capacity'
    BY <1>t, <1>8 DEF Capacity, GetSize
  <2>3. ASSUME NEW i \in 1..Len(delay_buff_list_')
        PROVE  delay_buff_list_'[i].pos = DelayStart(i)'
    <3>1. CASE i = n + 1
      <4>1. delay_buff_list_'[i].pos = StoredEnd
        BY <3>1, <2>1, <1>6, <1>8
      <4>2. CASE n = 0
        BY <4>1, <4>2, <3>1, <1>3, <1>8 DEF StoredEnd, DelayStart, GetSize
      <4>3. CASE n # 0
        <5>1. n \in 1..n /\ i # 1 /\ i - 1 = n
          BY <4>3, <3>1, <1>2
        <5>2. delay_buff_list_'[i - 1] = delay_buff_list_[n]
          BY <5>1, <2>1
        <5>3. QED
          BY <4>1, <4>3, <5>1, <5>2 DEF StoredEnd, DelayStart
      <4>4. QED
        BY <4>2, <4>3
    <3>2. CASE i # n + 1
      <4>1. i \in 1..n
        BY <3>2, <2>1, <1>2
      <4>2. delay_buff_list_'[i].pos = DelayStart(i)
        BY <4>1, <2>1, <1>t DEF InOrder
      <4>3. CASE i = 1
        BY <4>2, <4>3, <1>3, <1>8 DEF DelayStart, GetSize
      <4>4. CASE i # 1
        <5>1. i - 1 \in 1..n
          BY <4>1, <4>4, <1>2
        <5>2. delay_buff_list_'[i - 1] = delay_buff_list_[i - 1]
          BY <5>1, <2>1
        <5>3. QED
          BY <4>2, <4>4, <5>2 DEF DelayStart
      <4>5. QED
        BY <4>3, <4>4
    <3>3. QED
      BY <3>1, <3>2
  <2>4. StoredEnd' + todo' = accepted'
    <3>1. n + 1 # 0
      BY <1>2
    <3>2. StoredEnd' = Current.pos + Current.len
      BY <3>1, <2>1 DEF StoredEnd
    <3>3. QED
      BY <3>2, <1>6, <1>8, <1>3, <1>1
  <2>5. InOrder'
    BY <2>3, <2>4, <1>3, <1>8, <1>t DEF InOrder, GetSize
  <2>6. EagerFill'
    <3>1. GetSpace \in Int
      BY <1>2 DEF GetSpace, GetSize
    <3>2. CASE delay_buff_list_ = <<>>
      <4>1. Head(delay_buff_list_') = Current
        BY <3>2, <1>8
      <4>2. GetSpace < todo
        BY <3>2, <1>8 DEF FitsNow
      <4>3. Current.len > GetSpace
        BY <4>2, <3>1, <1>1, <1>6, <1>8
      <4>4. QED
        BY <4>1, <4>3, <1>8 DEF EagerFill, GetSpace, GetSize
    <3>3. CASE delay_buff_list_ # <<>>
      <4>1. Head(delay_buff_list_') = Head(delay_buff_list_)
        BY <3>3, <1>1, <1>6, <1>8
      <4>h. Head(delay_buff_list_) \in Message
        BY <3>3, <1>1
      <4>2. Head(delay_buff_list_).len \in Nat
        BY <4>h DEF Message
      <4>3. GetSpace < Head(delay_buff_list_).len
        BY <3>3, <1>3 DEF HeadFits
      <4>4. Head(delay_buff_list_).len > GetSpace
        BY <4>2, <4>3, <3>1
      <4>5. QED
        BY <4>1, <4>4, <1>8 DEF EagerFill, GetSpace, GetSize
    <3>4. QED
      BY <3>2, <3>3
  <2>7. QED
    BY <2>2, <2>5, <2>6
<1>9. QED
  BY <1>5, <1>7, <1>8 DEF FillDone

(* What Remove(n) puts on the wire: exactly the next n accepted bytes. *)
LEMMA RemoveWire ==
    ASSUME TypeOK, InOrder, NEW n \in 0..TotalSize, Remove(n)
    PROVE  /\ n \in Nat /\ n <= Len(buffer_)
           /\ Len(wire') = Len(wire) + n
           /\ \A i \in 1..Len(wire') : wire'[i] = i
           /\ wire' = wire \o [i \in 1..n |-> Len(wire) + i]
           /\ Len(buffer_') = Len(buffer_) - n
           /\ \A i \in 1..Len(buffer_') : buffer_'[i] = Len(wire) + n + i
<1> USE SizesAssumption
<1>1. buffer_ \in Seq(Nat) /\ wire \in Seq(Nat)
  BY DEF TypeOK
<1>2. Len(buffer_) \in Nat /\ Len(wire) \in Nat
  BY <1>1
<1>3. n \in Nat /\ n <= Len(buffer_)
  BY DEF Remove, GetSize
<1> DEFINE out == SubSeq(buffer_, 1, n)
           rest == SubSeq(buffer_, n + 1, Len(buffer_))
<1>4. wire' = wire \o out /\ buffer_' = rest
  BY DEF Remove, GetSize
<1>5. out \in Seq(Nat) /\ Len(out) = n /\ \A i \in 1..n : out[i] = Len(wire) + i
  <2>1. out \in Seq(Nat) /\ Len(out) = n /\ \A i \in 1..n : out[i] = buffer_[i]
    BY <1>1, <1>2, <1>3, SubSeqProperties
  <2>2. \A i \in 1..n : buffer_[i] = Len(wire) + i
    BY <1>2, <1>3 DEF InOrder, GetSize
  <2>3. QED
    BY <2>1, <2>2
<1>6. rest \in Seq(Nat) /\ Len(rest) = Len(buffer_) - n
      /\ \A i \in 1..Len(rest) : rest[i] = Len(wire) + n + i
  <2>1. n + 1 \in 1..Len(buffer_) + 1
    BY <1>2, <1>3
  <2>2. rest \in Seq(Nat) /\ Len(rest) = Len(buffer_) - n
        /\ \A i \in 1..Len(rest) : rest[i] = buffer_[n + i]
    BY <2>1, <1>1, <1>2, <1>3, SubSeqProperties
  <2>3. \A i \in 1..Len(buffer_) - n : buffer_[n + i] = Len(wire) + (n + i)
    <3> SUFFICES ASSUME NEW i \in 1..Len(buffer_) - n
                 PROVE  buffer_[n + i] = Len(wire) + (n + i)
      OBVIOUS
    <3>1. n + i \in 1..Len(buffer_)
      BY <1>2, <1>3
    <3>2. QED
      BY <3>1 DEF InOrder, GetSize
  <2> HIDE DEF rest
  <2>4. ASSUME NEW i \in 1..Len(rest) PROVE rest[i] = Len(wire) + n + i
    <3>1. i \in Nat /\ i \in 1..Len(buffer_) - n
      BY <2>2, <1>2, <1>3
    <3>2. rest[i] = Len(wire) + (n + i)
      BY <3>1, <2>2, <2>3
    <3>3. QED
      BY <3>1, <3>2, <1>2, <1>3, PlusAssoc
  <2>5. QED
    BY <2>2, <2>4
<1> HIDE DEF out, rest
<1>7. out = [i \in 1..n |-> Len(wire) + i]
  BY <1>5
<1>8. Len(wire \o out) = Len(wire) + n
  BY <1>1, <1>5, ConcatProperties
<1>9. ASSUME NEW i \in 1..Len(wire \o out) PROVE (wire \o out)[i] = i
  <2>1. CASE i <= Len(wire)
    <3>1. (wire \o out)[i] = wire[i]
      BY <2>1, <1>1, <1>2, <1>5
    <3>2. QED
      BY <3>1, <2>1, <1>2 DEF InOrder
  <2>2. CASE i > Len(wire)
    <3>1. i - Len(wire) \in 1..n
      BY <2>2, <1>2, <1>3, <1>8
    <3>2. (wire \o out)[i] = out[i - Len(wire)]
      BY <2>2, <1>1, <1>2, <1>5, <1>8
    <3>3. QED
      BY <3>1, <3>2, <1>2, <1>5
  <2>3. QED
    BY <2>1, <2>2, <1>2
<1>10. wire' = wire \o [i \in 1..n |-> Len(wire) + i]
  BY <1>4, <1>7
<1>11. Len(wire') = Len(wire) + n /\ \A i \in 1..Len(wire') : wire'[i] = i
  BY <1>4, <1>8, <1>9
<1>12. Len(buffer_') = Len(buffer_) - n
       /\ \A i \in 1..Len(buffer_') : buffer_'[i] = Len(wire) + n + i
  BY <1>4, <1>6
<1>13. QED
  BY <1>3, <1>10, <1>11, <1>12

(* A send() of any length, followed by the shift of Remove. *)
LEMMA RemoveInv ==
    ASSUME IInv, NEW n \in 0..TotalSize, Remove(n)
    PROVE  (Capacity /\ InOrder /\ EagerFill)'
<1> USE SizesAssumption
<1>t. TypeOK /\ Capacity /\ InOrder
  BY DEF IInv
<1>1. Len(buffer_) \in Nat /\ Len(wire) \in Nat
  BY <1>t DEF TypeOK
<1>2. UNCHANGED <<delay_buff_list_, todo, accepted>> /\ pc' = "fill"
  BY DEF Remove
<1>3. /\ n \in Nat /\ n <= Len(buffer_)
      /\ Len(wire') = Len(wire) + n
      /\ \A i \in 1..Len(wire') : wire'[i] = i
      /\ Len(buffer_') = Len(buffer_) - n
      /\ \A i \in 1..Len(buffer_') : buffer_'[i] = Len(wire) + n + i
  BY <1>t, RemoveWire
<1>4. Len(wire') + Len(buffer_') = Len(wire) + Len(buffer_)
  BY <1>1, <1>3
<1>5. \A i \in 1..Len(buffer_') : buffer_'[i] = Len(wire') + i
  BY <1>3
<1>6. StoredEnd' = StoredEnd /\ \A i : DelayStart(i)' = DelayStart(i)
  BY <1>2, <1>4 DEF StoredEnd, DelayStart, GetSize
<1>7. InOrder'
  BY <1>t, <1>2, <1>3, <1>5, <1>6 DEF InOrder, GetSize
<1>8. Capacity'
  BY <1>t, <1>1, <1>3 DEF Capacity, GetSize
<1>9. EagerFill'
  BY <1>2 DEF EagerFill
<1>10. QED
  BY <1>7, <1>8, <1>9

(* A write is accepted: its bytes are accounted for in todo. *)
LEMMA StartWriteInv ==
    ASSUME IInv, NEW n \in Nat, StartWrite(n)
    PROVE  (Capacity /\ InOrder /\ EagerFill)'
<1>t. TypeOK /\ Capacity /\ InOrder
  BY DEF IInv
<1>1. /\ UNCHANGED <<buffer_, delay_buff_list_, wire>>
      /\ todo' = n /\ accepted' = accepted + n /\ pc' = "fill"
      /\ todo = 0
  BY <1>t DEF StartWrite, TypeOK
<1>2. StoredEnd' = StoredEnd /\ \A i : DelayStart(i)' = DelayStart(i)
  BY <1>1 DEF StoredEnd, DelayStart, GetSize
<1>3. StoredEnd + 0 = accepted /\ accepted \in Nat
  BY <1>1, <1>t DEF InOrder, TypeOK
<1>4. StoredEnd \in Nat
  <2>1. CASE Len(delay_buff_list_) = 0
    BY <2>1, <1>t DEF StoredEnd, GetSize, TypeOK
  <2>2. CASE Len(delay_buff_list_) # 0
    <3>1. delay_buff_list_[Len(delay_buff_list_)] \in Message
      BY <2>2, <1>t DEF TypeOK
    <3>2. QED
      BY <2>2, <3>1 DEF StoredEnd, Message
  <2>3. QED
    BY <2>1, <2>2
<1>5. StoredEnd' + todo' = accepted'
  BY <1>1, <1>2, <1>3, <1>4
<1>6. InOrder'
  BY <1>t, <1>1, <1>2, <1>5 DEF InOrder, GetSize
<1>7. Capacity' /\ EagerFill'
  BY <1>t, <1>1 DEF Capacity, EagerFill, GetSize
<1>8. QED
  BY <1>6, <1>7

(* The inductive invariant is kept by every operation. *)
LEMMA InvStep == IInv /\ [Next]_vars => IInv'
<1> SUFFICES ASSUME IInv, [Next]_vars PROVE IInv'
  OBVIOUS
<1> USE SizesAssumption
<1>1. TypeOK'
  BY TypeStep DEF IInv
<1>2. CASE FillStep
  BY <1>1, <1>2, FillStepInv DEF IInv
<1>3. CASE FillDone
  BY <1>1, <1>3, FillDoneInv DEF IInv
<1>4. ASSUME NEW n \in Nat, StartWrite(n) PROVE IInv'
  BY <1>1, <1>4, StartWriteInv DEF IInv
<1>5. ASSUME NEW n \in 0..TotalSize, Remove(n) PROVE IInv'
  BY <1>1, <1>5, RemoveInv DEF IInv
<1>6. CASE FillVector \/ UNCHANGED vars
  <2>1. UNCHANGED <<buffer_, delay_buff_list_, todo, accepted, wire>>
        /\ (pc' = "fill" \/ pc' = pc)
    BY <1>6 DEF FillVector, vars
  <2>2. StoredEnd' = StoredEnd /\ \A i : DelayStart(i)' = DelayStart(i)
    BY <2>1 DEF StoredEnd, DelayStart, GetSize
  <2>3. InOrder'
    BY <2>1, <2>2 DEF IInv, InOrder, GetSize
  <2>4. Capacity'
    BY <2>1 DEF IInv, Capacity, GetSize
  <2>5. EagerFill'
    BY <2>1 DEF IInv, EagerFill, GetSpace, GetSize
  <2>6. QED
    BY <1>1, <2>3, <2>4, <2>5 DEF IInv
<1>7. QED
  BY <1>2, <1>3, <1>4, <1>5, <1>6 DEF Next, Write, WriteMsg

(* Allocate establishes it. *)
LEMMA InvInit == Allocate => IInv
<1> SUFFICES ASSUME Allocate PROVE IInv
  OBVIOUS
<1>1. buffer_ = <<>> /\ wire = <<>> /\ delay_buff_list_ = <<>>
      /\ todo = 0 /\ accepted = 0 /\ pc = "ready"
  BY DEF Allocate
<1>2. Len(buffer_) = 0 /\ Len(wire) = 0 /\ Len(delay_buff_list_) = 0
  BY <1>1
<1>3. TypeOK
  BY <1>1 DEF TypeOK
<1>4. Capacity /\ EagerFill
  BY <1>1, <1>2, SizesAssumption DEF Capacity, EagerFill, GetSize
<1>5. StoredEnd + todo = accepted
  BY <1>1, <1>2 DEF StoredEnd, GetSize
<1>6. InOrder
  BY <1>2, <1>5 DEF InOrder, GetSize
<1>7. QED
  BY <1>3, <1>4, <1>6 DEF IInv

(* The safety of sequence_buffer.cpp for every buffer size, message size and  *)
(* pattern of partial sends: no overflow of the array, exactly-once delivery  *)
(* in order, and no message left waiting that would have fitted.              *)
THEOREM BufferSafe == Spec => [](Capacity /\ InOrder /\ EagerFill)
<1>1. IInv => Capacity /\ InOrder /\ EagerFill
  BY DEF IInv
<1>2. QED
  BY <1>1, InvInit, InvStep, PTL DEF Spec

(* No message of the instance is longer than MaxLen. *)
LensBounded == /\ todo <= MaxLen
               /\ \A i \in 1..Len(delay_buff_list_) : delay_buff_list_[i].len <= MaxLen

(* Nothing that waits, or is being written, is longer than MaxLen. *)
LEMMA LensStep == TypeOK /\ LensBounded /\ [Next]_vars => LensBounded'
<1> SUFFICES ASSUME TypeOK, LensBounded, [Next]_vars PROVE LensBounded'
  OBVIOUS
<1> USE SizesAssumption
<1>t. delay_buff_list_ \in Seq(Message) /\ Len(delay_buff_list_) \in Nat /\ todo \in Nat
  BY DEF TypeOK
<1>1. CASE FillStep
  <2>1. /\ Len(delay_buff_list_') = Len(delay_buff_list_) - 1
        /\ \A i \in 1..Len(delay_buff_list_') :
              delay_buff_list_'[i] = delay_buff_list_[i + 1]
    BY <1>t, <1>1 DEF FillStep, HeadFits
  <2>2. \A i \in 1..Len(delay_buff_list_') : i + 1 \in 1..Len(delay_buff_list_)
    BY <2>1, <1>t
  <2>3. QED
    BY <2>1, <2>2, <1>1 DEF LensBounded, FillStep
<1>2. CASE FillDone
  <2>1. CASE UNCHANGED delay_buff_list_
    BY <2>1, <1>2 DEF LensBounded, FillDone
  <2>2. CASE todo > 0 /\ delay_buff_list_' = Append(delay_buff_list_, Current)
    <3>1. Current \in Message /\ Current.len = todo
      BY <2>2 DEF TypeOK, Current, Message
    <3>2. /\ Len(delay_buff_list_') = Len(delay_buff_list_) + 1
          /\ delay_buff_list_'[Len(delay_buff_list_) + 1] = Current
          /\ \A i \in 1..Len(delay_buff_list_) :
                delay_buff_list_'[i] = delay_buff_list_[i]
      BY <2>2, <3>1, <1>t
    <3>3. ASSUME NEW i \in 1..Len(delay_buff_list_')
          PROVE  delay_buff_list_'[i].len <= MaxLen
      <4>1. i \in 1..Len(delay_buff_list_) \/ i = Len(delay_buff_list_) + 1
        BY <3>2, <1>t
      <4>2. QED
        BY <4>1, <3>1, <3>2 DEF LensBounded
    <3>4. QED
      BY <3>3, <1>2 DEF LensBounded, FillDone
  <2>3. QED
    BY <1>2, <2>1, <2>2 DEF FillDone
<1>3. ASSUME NEW n \in 1..MaxLen, Write(n) PROVE LensBounded'
  BY <1>3 DEF LensBounded, Write, StartWrite
<1>4. ASSUME NEW n \in 0..MaxLen, HeadLen + n <= MaxLen, WriteMsg(n) PROVE LensBounded'
  BY <1>4 DEF LensBounded, WriteMsg, StartWrite
<1>5. ASSUME NEW n \in 0..TotalSize, Remove(n) PROVE LensBounded'
  BY <1>5 DEF LensBounded, Remove
<1>6. CASE FillVector \/ UNCHANGED vars
  BY <1>6 DEF LensBounded, FillVector, vars
<1>7. QED
  BY <1>1, <1>2, <1>3, <1>4, <1>5, <1>6 DEF Next

(* Behind an empty buffer_ only a message longer than the whole buffer waits. *)
THEOREM EmptyOrBlocked == Spec => []EmptyMeansDrained
<1>1. IInv => EmptyMeansDrained
  <2> SUFFICES ASSUME IInv, pc = "ready", GetSize = 0, delay_buff_list_ # <<>>
               PROVE  Head(delay_buff_list_).len > TotalSize
    BY DEF EmptyMeansDrained, Blocked
  <2>1. QED
    BY SizesAssumption DEF IInv, EagerFill, GetSpace
<1>2. QED
  BY <1>1, InvInit, InvStep, PTL DEF Spec

(* When no message is longer than the buffer, an empty buffer_ means that     *)
(* nothing waits: HandleCanWrite may give up the send lock on GetSize() = 0,  *)
(* and SocketMgr may count messages instead of bytes.                         *)
THEOREM EmptyIsDrained ==
    ASSUME MaxLen <= TotalSize
    PROVE  Spec => [](pc = "ready" /\ GetSize = 0 => delay_buff_list_ = <<>>)
<1> USE SizesAssumption
<1>1. Allocate => LensBounded
  <2> SUFFICES ASSUME Allocate PROVE LensBounded
    OBVIOUS
  <2>1. todo = 0 /\ Len(delay_buff_list_) = 0
    BY DEF Allocate
  <2>2. QED
    BY <2>1 DEF LensBounded
<1>2. IInv /\ LensBounded => (pc = "ready" /\ GetSize = 0 => delay_buff_list_ = <<>>)
  <2> SUFFICES ASSUME IInv, LensBounded, pc = "ready", GetSize = 0,
                      delay_buff_list_ # <<>>
               PROVE  FALSE
    OBVIOUS
  <2>1. delay_buff_list_ \in Seq(Message)
    BY DEF IInv, TypeOK
  <2>2. /\ Head(delay_buff_list_) = delay_buff_list_[1]
        /\ Head(delay_buff_list_) \in Message
        /\ 1 \in 1..Len(delay_buff_list_)
    BY <2>1
  <2>3. Head(delay_buff_list_).len \in Nat
    BY <2>2 DEF Message
  <2>4. Head(delay_buff_list_).len <= MaxLen
    BY <2>2 DEF LensBounded
  <2>5. Head(delay_buff_list_).len > TotalSize
    BY DEF IInv, EagerFill, GetSpace
  <2>6. QED
    BY <2>3, <2>4, <2>5, MaxLen <= TotalSize
<1>3. IInv => TypeOK
  BY DEF IInv
<1>4. QED
  BY <1>1, <1>2, <1>3, InvInit, InvStep, LensStep, PTL DEF Spec

(* A message longer than the buffer, once at the head of the line, is never   *)
(* moved: Write accepted it, but neither it nor anything behind it is sent.   *)
THEOREM OversizeStuck == Spec => OversizeBlocksForever
<1> USE SizesAssumption
<1> DEFINE Stuck == Blocked => Blocked' /\ delay_buff_list_'[1] = delay_buff_list_[1]
<1>1. IInv /\ [Next]_vars => [Stuck]_vars
  <2> SUFFICES ASSUME IInv, Next, Blocked
               PROVE  Blocked' /\ delay_buff_list_'[1] = delay_buff_list_[1]
    OBVIOUS
  <2>1. delay_buff_list_ \in Seq(Message) /\ delay_buff_list_ # <<>>
    BY DEF IInv, TypeOK, Blocked
  <2>2. /\ Head(delay_buff_list_) = delay_buff_list_[1]
        /\ Head(delay_buff_list_) \in Message
    BY <2>1
  <2>3. Head(delay_buff_list_).len \in Nat /\ Head(delay_buff_list_).len > TotalSize
    BY <2>2 DEF Message, Blocked
  <2>4. Len(buffer_) \in Nat
    BY DEF IInv, TypeOK
  <2>5. GetSpace < Head(delay_buff_list_).len
    BY <2>3, <2>4 DEF GetSpace, GetSize
  <2>6. ~FillStep
    BY <2>5 DEF FillStep, HeadFits
  <2>7. CASE UNCHANGED delay_buff_list_
    BY <2>7 DEF Blocked
  <2>8. CASE FillDone /\ delay_buff_list_' # delay_buff_list_
    <3>1. todo > 0 /\ delay_buff_list_' = Append(delay_buff_list_, Current)
      BY <2>8 DEF FillDone
    <3>2. Current \in Message
      BY <3>1 DEF IInv, TypeOK, Current, Message
    <3>3. /\ delay_buff_list_' \in Seq(Message) /\ delay_buff_list_' # <<>>
          /\ delay_buff_list_'[1] = delay_buff_list_[1]
      BY <3>1, <3>2, <2>1
    <3>4. Head(delay_buff_list_') = Head(delay_buff_list_)
      BY <3>3, <2>2
    <3>5. QED
      BY <3>3, <3>4, <2>3 DEF Blocked
  <2>9. QED
    BY <2>6, <2>7, <2>8
    DEF Next, FillDone, FillVector, Write, WriteMsg, StartWrite, Remove
<1>2. QED
  BY <1>1, InvInit, InvStep, PTL DEF Spec, OversizeBlocksForever

(* The waiting messages are disjoint and in order of acceptance.  InOrder     *)
(* chains neighbours; this is its transitive closure, which the refinement    *)
(* needs to compare the first waiting message with the last.                  *)
LineOrdered == \A i, j \in 1..Len(delay_buff_list_) :
    i < j => delay_buff_list_[i].pos + delay_buff_list_[i].len <= delay_buff_list_[j].pos

(* Messages wait in the order they were accepted, without overlap. *)
LEMMA LineStep == IInv /\ LineOrdered /\ [Next]_vars => LineOrdered'
<1> SUFFICES ASSUME IInv, LineOrdered, [Next]_vars PROVE LineOrdered'
  OBVIOUS
<1> USE SizesAssumption
<1>t. TypeOK /\ InOrder
  BY DEF IInv
<1>d. delay_buff_list_ \in Seq(Message) /\ Len(delay_buff_list_) \in Nat
  BY <1>t DEF TypeOK
<1>1. CASE FillStep
  <2>1. /\ Len(delay_buff_list_') = Len(delay_buff_list_) - 1
        /\ \A i \in 1..Len(delay_buff_list_') :
              delay_buff_list_'[i] = delay_buff_list_[i + 1]
    BY <1>d, <1>1 DEF FillStep, HeadFits
  <2>2. \A i \in 1..Len(delay_buff_list_') : i + 1 \in 1..Len(delay_buff_list_)
    BY <2>1, <1>d
  <2>3. QED
    BY <2>1, <2>2 DEF LineOrdered
<1>2. CASE FillDone /\ delay_buff_list_' # delay_buff_list_
  <2> DEFINE n == Len(delay_buff_list_)
  <2>1. todo > 0 /\ delay_buff_list_' = Append(delay_buff_list_, Current)
    BY <1>2 DEF FillDone
  <2>2. /\ Current \in Message
        /\ Current.pos = accepted - todo
        /\ accepted \in Nat /\ todo \in Nat
    BY <2>1, <1>t DEF TypeOK, Current, Message
  <2>3. /\ Len(delay_buff_list_') = n + 1
        /\ delay_buff_list_'[n + 1] = Current
        /\ \A i \in 1..n : delay_buff_list_'[i] = delay_buff_list_[i]
    BY <2>1, <2>2, <1>d
  <2>4. ASSUME NEW i \in 1..n
        PROVE  delay_buff_list_[i].pos + delay_buff_list_[i].len <= Current.pos
    <3>1. n # 0 /\ n \in 1..n
      BY <1>d
    <3>2. /\ delay_buff_list_[n] \in Message /\ delay_buff_list_[i] \in Message
      BY <3>1, <1>d
    <3>3. /\ delay_buff_list_[n].pos \in Nat /\ delay_buff_list_[n].len \in Nat
          /\ delay_buff_list_[i].pos \in Nat /\ delay_buff_list_[i].len \in Nat
      BY <3>2 DEF Message
    <3>4. delay_buff_list_[n].pos + delay_buff_list_[n].len + todo = accepted
      BY <3>1, <1>t DEF InOrder, StoredEnd
    <3>5. delay_buff_list_[n].pos + delay_buff_list_[n].len = Current.pos
      BY <3>3, <3>4, <2>2, SMTT(30)
    <3>6. CASE i = n
      BY <3>5, <3>6, <3>3
    <3>7. CASE i # n
      <4>1. i < n
        BY <3>7, <1>d
      <4>2. delay_buff_list_[i].pos + delay_buff_list_[i].len <= delay_buff_list_[n].pos
        BY <4>1, <3>1 DEF LineOrdered
      <4>3. QED
        BY <4>2, <3>3, <3>5
    <3>8. QED
      BY <3>6, <3>7
  <2>5. ASSUME NEW i \in 1..n + 1, NEW j \in 1..n + 1, i < j
        PROVE  delay_buff_list_'[i].pos + delay_buff_list_'[i].len <= delay_buff_list_'[j].pos
    <3>1. i \in 1..n /\ (j \in 1..n \/ j = n + 1)
      BY <2>5, <1>d
    <3>2. QED
      BY <3>1, <2>5, <2>3, <2>4 DEF LineOrdered
  <2>6. QED
    BY <2>3, <2>5 DEF LineOrdered
<1>3. CASE UNCHANGED delay_buff_list_
  BY <1>3 DEF LineOrdered
<1>4. QED
  BY <1>1, <1>2, <1>3
  DEF Next, FillDone, FillVector, Write, WriteMsg, StartWrite, Remove, vars

(* What is on the wire and in buffer_ has been accepted. *)
LEMMA AccountedFor ==
    ASSUME TypeOK, InOrder, LineOrdered
    PROVE  Len(wire) + Len(buffer_) <= accepted
<1> DEFINE n == Len(delay_buff_list_)
<1>1. /\ Len(wire) \in Nat /\ Len(buffer_) \in Nat /\ n \in Nat
      /\ delay_buff_list_ \in Seq(Message)
      /\ accepted \in Nat /\ todo \in Nat
  BY DEF TypeOK
<1>2. CASE n = 0
  <2>1. Len(wire) + Len(buffer_) + todo = accepted
    BY <1>2 DEF InOrder, StoredEnd, GetSize
  <2>2. QED
    BY <2>1, <1>1
<1>3. CASE n # 0
  <2>1. 1 \in 1..n /\ n \in 1..n /\ (n = 1 \/ 1 < n)
    BY <1>1, <1>3, NonZero
  <2>2. delay_buff_list_[1] \in Message /\ delay_buff_list_[n] \in Message
    BY <2>1, <1>1
  <2>3. /\ delay_buff_list_[1].pos \in Nat /\ delay_buff_list_[1].len \in Nat
        /\ delay_buff_list_[n].pos \in Nat /\ delay_buff_list_[n].len \in Nat
    BY <2>2 DEF Message
  <2>4. delay_buff_list_[1].pos = Len(wire) + Len(buffer_)
    BY <2>1 DEF InOrder, DelayStart, GetSize
  <2>5. delay_buff_list_[1].pos <= delay_buff_list_[n].pos
    <3>1. CASE n = 1
      BY <3>1, <2>3
    <3>2. CASE 1 < n
      <4>1. delay_buff_list_[1].pos + delay_buff_list_[1].len <= delay_buff_list_[n].pos
        BY <3>2, <2>1 DEF LineOrdered
      <4>2. QED
        BY <4>1, <2>3
    <3>3. QED
      BY <2>1, <3>1, <3>2
  <2>6. delay_buff_list_[n].pos + delay_buff_list_[n].len + todo = accepted
    BY <1>3 DEF InOrder, StoredEnd
  <2>7. delay_buff_list_[1].pos <= accepted
    BY <2>3, <2>5, <2>6, <1>1
  <2>8. QED
    BY <2>4, <2>7
<1>4. QED
  BY <1>2, <1>3

(* Refinement: with its own accepted and wire, the write path is an ordered   *)
(* byte stream.  Only Remove transmits, and what it transmits is what the     *)
(* stream has next (RemoveWire).                                              *)
THEOREM WritePathIsStream == Spec => StreamImplemented
<1> USE SizesAssumption
<1>1. Allocate => Stream!StreamInit
  BY DEF Allocate, Stream!StreamInit
<1>2. IInv /\ LineOrdered /\ [Next]_vars => [Stream!StreamNext]_Stream!streamVars
  <2> SUFFICES ASSUME IInv, LineOrdered, [Next]_vars
               PROVE  [Stream!StreamNext]_Stream!streamVars
    OBVIOUS
  <2>t. TypeOK /\ InOrder
    BY DEF IInv
  <2>1. CASE FillStep \/ FillDone \/ FillVector \/ UNCHANGED vars
    <3>1. accepted' = accepted /\ wire' = wire
      BY <2>1 DEF FillStep, FillDone, FillVector, vars
    <3>2. QED
      BY <3>1 DEF Stream!streamVars
  <2>2. ASSUME NEW n \in Nat, StartWrite(n) PROVE [Stream!StreamNext]_Stream!streamVars
    <3>1. accepted \in Nat /\ accepted' = accepted + n /\ UNCHANGED wire
      BY <2>2, <2>t DEF StartWrite, TypeOK
    <3>2. CASE n = 0
      BY <3>1, <3>2 DEF Stream!streamVars
    <3>3. CASE n # 0
      BY <3>1, <3>3 DEF Stream!StreamNext, Stream!Accept
    <3>4. QED
      BY <3>2, <3>3
  <2>3. ASSUME NEW n \in 0..TotalSize, Remove(n)
        PROVE  [Stream!StreamNext]_Stream!streamVars
    <3>1. /\ n \in Nat /\ n <= Len(buffer_)
          /\ wire' = wire \o [i \in 1..n |-> Len(wire) + i]
          /\ Len(wire') = Len(wire) + n
      BY <2>3, <2>t, RemoveWire
    <3>2. UNCHANGED accepted
      BY <2>3 DEF Remove
    <3>3. CASE n = 0
      <4>1. wire' = wire \o <<>>
        BY <3>1, <3>3
      <4>2. wire' = wire
        BY <4>1, <2>t DEF TypeOK
      <4>3. QED
        BY <4>2, <3>2 DEF Stream!streamVars
    <3>4. CASE n # 0
      <4>1. Len(wire) + Len(buffer_) <= accepted
        BY <2>t, AccountedFor
      <4>2. Len(wire) \in Nat /\ Len(buffer_) \in Nat /\ accepted \in Nat
        BY <2>t DEF TypeOK
      <4>3. n \in 1..(accepted - Len(wire))
        BY <4>1, <4>2, <3>1, <3>4
      <4>4. Stream!Transmit(n)
        BY <3>1, <3>2 DEF Stream!Transmit
      <4>5. QED
        BY <4>3, <4>4 DEF Stream!StreamNext
    <3>5. QED
      BY <3>3, <3>4
  <2>4. QED
    BY <2>1, <2>2, <2>3 DEF Next, Write, WriteMsg
<1>3. Allocate => LineOrdered
  BY DEF Allocate, LineOrdered
<1>4. QED
  BY <1>1, <1>2, <1>3, InvInit, InvStep, LineStep, PTL
  DEF Spec, StreamImplemented, Stream!StreamSpec
===============================================================================
