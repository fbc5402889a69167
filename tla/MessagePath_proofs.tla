-------------------------- MODULE MessagePath_proofs --------------------------
(* Proofs about MessagePath, for every size of buffers, messages and chunks.  *)
EXTENDS MessagePath, SequenceBuffer_proofs

-------------------------------------------------------------------------------
(* The sender, seen from the receiver. *)

(* Every step of the path is a step of the write buffer, or leaves it alone. *)
LEMMA PathStep == [PathNext]_pathVars => [Next]_vars
<1> SUFFICES ASSUME [PathNext]_pathVars PROVE [Next]_vars
  OBVIOUS
<1>1. CASE UNCHANGED pathVars
  BY <1>1 DEF pathVars, sendVars
<1>2. CASE Receiver
  BY <1>2 DEF Receiver, sendVars
<1>3. CASE Sender
  BY <1>3 DEF Sender, Next, PathWrite, PathWriteMsg
<1>4. QED
  BY <1>1, <1>2, <1>3 DEF PathNext

(* The receiver does not touch the sender: composed with TCP and OnRead, the  *)
(* write buffer behaves as it does alone, so that every theorem about         *)
(* SequenceBuffer holds of the whole path.                                    *)
THEOREM PathIsBuffer == PathSpec => Spec
<1>1. PathInit => Allocate
  BY DEF PathInit
<1>2. QED
  BY <1>1, PathStep, PTL DEF PathSpec, Spec

(* Write, WriteMsg, FillVector and Remove, with a receiver at the other end:  *)
(* the array is never overrun and the bytes stay in order.                    *)
THEOREM PathSafe == PathSpec => [](Capacity /\ InOrder)
<1>1. Capacity /\ InOrder /\ EagerFill => Capacity /\ InOrder
  OBVIOUS
<1>2. QED
  BY <1>1, PathIsBuffer, BufferSafe, PTL

(* What the receiver relies on: TCP delivers a prefix of what was accepted,   *)
(* byte by byte.                                                              *)
WireSound == /\ wire \in Seq(Nat) /\ accepted \in Nat
             /\ Len(wire) <= accepted
             /\ \A i \in 1..Len(wire) : wire[i] = i

(* The inductive invariant of the write buffer implies it ... *)
LEMMA SenderSound == IInv /\ LineOrdered => WireSound
<1> SUFFICES ASSUME IInv, LineOrdered PROVE WireSound
  OBVIOUS
<1>1. TypeOK /\ InOrder
  BY DEF IInv
<1>2. wire \in Seq(Nat) /\ accepted \in Nat /\ Len(wire) \in Nat /\ Len(buffer_) \in Nat
  BY <1>1 DEF TypeOK
<1>3. Len(wire) + Len(buffer_) <= accepted
  BY <1>1, AccountedFor
<1>4. Len(wire) <= accepted
  BY <1>2, <1>3
<1>5. QED
  BY <1>1, <1>2, <1>4 DEF WireSound, InOrder

(* ... and what is on the wire stays there. *)
LEMMA WireGrows == IInv /\ [Next]_vars => Len(wire) <= Len(wire')
<1> SUFFICES ASSUME IInv, [Next]_vars PROVE Len(wire) <= Len(wire')
  OBVIOUS
<1>1. TypeOK /\ InOrder /\ Len(wire) \in Nat
  BY DEF IInv, TypeOK
<1>2. CASE wire' = wire
  BY <1>1, <1>2
<1>3. ASSUME NEW n \in 0..TotalSize, Remove(n) PROVE Len(wire) <= Len(wire')
  <2>1. n \in Nat /\ Len(wire') = Len(wire) + n
    BY <1>1, <1>3, RemoveWire
  <2>2. QED
    BY <2>1, <1>1
<1>4. QED
  BY <1>2, <1>3 DEF Next, FillStep, FillDone, FillVector, Write, WriteMsg, StartWrite, vars

-------------------------------------------------------------------------------
(* The invariant of the receiver. *)

(* The types of the receiver. *)
RecvType == /\ is_parse_package_ \in BOOLEAN
            /\ sent \in Seq([pos : Nat, len : Nat])
            /\ taken \in Nat /\ taken <= Len(wire)
            /\ readBuffer \in Seq(Nat)
            /\ Len(readBuffer) <= RecvSize
            /\ cursor \in Nat /\ cursor <= Len(readBuffer)
            /\ rpc = "idle" => cursor = 0
            /\ status \in {"connectted", "queued", "closing"}
            /\ rpc \in {"idle", "parse"}
            /\ delivered \in Seq(Seq(Nat))

(* The read buffer holds the last bytes taken. *)
Held == /\ Len(readBuffer) <= taken
        /\ \A k \in 1..Len(readBuffer) : readBuffer[k] = (taken - Len(readBuffer)) + k

(* Where the n-th message of s ends. *)
EndOf(s, n) == IF n = 0 THEN 0 ELSE s[n].pos + s[n].len

(* The messages sent lie one behind the other, and make up all that was       *)
(* accepted.                                                                  *)
Chain == /\ \A i \in 1..Len(sent) : sent[i].pos = EndOf(sent, i - 1) + HeadLen
         /\ \A i, j \in 1..Len(sent) : i < j => sent[i].pos < sent[j].pos
         /\ EndOf(sent, Len(sent)) = accepted

(* What was delivered is the first messages, and the parser stands at the end *)
(* of the last of them.                                                       *)
Parsed == /\ Len(delivered) <= Len(sent)
          /\ \A i \in 1..Len(delivered) : delivered[i] = Body(sent[i])
          /\ (taken - Len(readBuffer)) + cursor = EndOf(sent, Len(delivered))

(* OnRead returned, and nobody has disconnected: a message of which more than *)
(* the head is here is not complete, and not an error.                        *)
Left == (rpc = "idle" /\ status = "connectted" /\ Len(readBuffer) > HeadLen)
    => LET m == sent[Len(delivered) + 1]
       IN InRange(m.len) /\ Len(readBuffer) < HeadLen + m.len

(* Without packages. *)
Raw == /\ cursor = 0
       /\ rpc = "idle" => readBuffer = <<>>
       /\ Len(delivered) = taken - Len(readBuffer)
       /\ \A i \in 1..Len(delivered) : delivered[i] = <<i>>

RecvInv == /\ RecvType
           /\ Held
           /\ is_parse_package_ => Chain /\ Parsed /\ Left
           /\ ~is_parse_package_ => Raw

(* Lengths and positions are numbers. *)
LEMMA Numbers ==
    ASSUME RecvType
    PROVE  /\ Len(sent) \in Nat /\ Len(readBuffer) \in Nat /\ Len(delivered) \in Nat
           /\ taken \in Nat /\ cursor \in Nat /\ HeadLen \in Nat /\ HeadLen > 0
           /\ RecvSize \in Nat /\ RecvSize > HeadLen
           /\ \A i \in 1..Len(sent) : sent[i].pos \in Nat /\ sent[i].len \in Nat
           /\ \A i \in 0..Len(sent) : EndOf(sent, i) \in Nat
<1>1. \A i \in 1..Len(sent) : sent[i] \in [pos : Nat, len : Nat]
  BY ElementOfSeq DEF RecvType
<1>2. \A i \in 1..Len(sent) : sent[i].pos \in Nat /\ sent[i].len \in Nat
  BY <1>1
<1>3. Len(sent) \in Nat
  BY DEF RecvType
<1>4. ASSUME NEW i \in 0..Len(sent) PROVE EndOf(sent, i) \in Nat
  <2>1. CASE i = 0
    BY <2>1 DEF EndOf
  <2>2. CASE i # 0
    <3>1. i \in 1..Len(sent)
      BY <2>2, <1>3
    <3>2. QED
      BY <3>1, <2>2, <1>2 DEF EndOf
  <2>3. QED
    BY <2>1, <2>2
<1>5. HeadLen \in Nat /\ HeadLen > 0 /\ RecvSize \in Nat /\ RecvSize > HeadLen
  BY SizesAssumption, RecvAssumption
<1>6. /\ Len(readBuffer) \in Nat /\ Len(delivered) \in Nat
      /\ taken \in Nat /\ cursor \in Nat
  BY DEF RecvType
<1>7. QED
  BY <1>2, <1>3, <1>4, <1>5, <1>6

(* No message starts beyond what was accepted. *)
LEMMA StartsAccepted ==
    ASSUME RecvType, Chain, NEW i \in 1..Len(sent)
    PROVE  sent[i].pos <= accepted
<1> DEFINE n == Len(sent)
<1>1. n \in Nat /\ n # 0 /\ n \in 1..n
  BY Numbers
<1>2. sent[i].pos \in Nat /\ sent[n].pos \in Nat /\ sent[n].len \in Nat
  BY <1>1, Numbers
<1>3. accepted = sent[n].pos + sent[n].len
  BY <1>1 DEF Chain, EndOf
<1>4. CASE i = n
  BY <1>2, <1>3, <1>4
<1>5. CASE i # n
  <2>1. i < n
    BY <1>5, <1>1
  <2>2. sent[i].pos < sent[n].pos
    BY <2>1, <1>1 DEF Chain
  <2>3. QED
    BY <2>2, <1>2, <1>3
<1>6. QED
  BY <1>4, <1>5

(* A receiver that holds more than a head behind the cursor is looking at a   *)
(* message that was sent: the first one not delivered.                        *)
LEMMA NextSent ==
    ASSUME WireSound, RecvType, Held, Chain, Parsed, Len(readBuffer) > cursor + HeadLen
    PROVE  /\ Len(delivered) + 1 \in 1..Len(sent)
           /\ sent[Len(delivered) + 1].pos = (taken - Len(readBuffer)) + cursor + HeadLen
<1> DEFINE d == Len(delivered)
           L == Len(readBuffer)
<1>n. /\ Len(sent) \in Nat /\ d \in Nat /\ L \in Nat /\ taken \in Nat /\ cursor \in Nat
      /\ HeadLen \in Nat /\ accepted \in Nat /\ Len(wire) \in Nat
  BY Numbers DEF WireSound
<1>1. d <= Len(sent) /\ (taken - L) + cursor = EndOf(sent, d)
  BY DEF Parsed
<1>2. taken <= Len(wire) /\ Len(wire) <= accepted /\ L <= taken
  BY DEF RecvType, WireSound, Held
<1>3. EndOf(sent, Len(sent)) = accepted
  BY DEF Chain
<1>4. d # Len(sent)
  BY <1>n, <1>1, <1>2, <1>3
<1>5. d + 1 \in 1..Len(sent) /\ (d + 1) - 1 = d
  BY <1>1, <1>4, <1>n
<1>6. sent[d + 1].pos = EndOf(sent, d) + HeadLen
  BY <1>5 DEF Chain
<1>7. QED
  BY <1>1, <1>5, <1>6

(* PathInit establishes the invariant. *)
LEMMA RecvInit == PathInit => RecvInv
<1> SUFFICES ASSUME PathInit PROVE RecvInv
  OBVIOUS
<1>1. /\ sent = <<>> /\ taken = 0 /\ readBuffer = <<>> /\ cursor = 0
      /\ status = "connectted" /\ rpc = "idle" /\ delivered = <<>>
      /\ is_parse_package_ \in BOOLEAN /\ accepted = 0 /\ wire = <<>>
  BY DEF PathInit, Allocate
<1>2. Len(sent) = 0 /\ Len(readBuffer) = 0 /\ Len(delivered) = 0 /\ Len(wire) = 0
  BY <1>1
<1>3. RecvType
  BY <1>1, <1>2, RecvAssumption DEF RecvType
<1>4. Held
  BY <1>1, <1>2 DEF Held
<1>e. 1..0 = {} /\ taken = 0 /\ cursor = 0 /\ accepted = 0 /\ readBuffer = <<>>
  BY <1>1
<1>5. Chain /\ Parsed
  <2>1. EndOf(sent, 0) = 0
    BY DEF EndOf
  <2>2. Chain
    BY <1>2, <1>e, <2>1 DEF Chain
  <2>3. Parsed
    BY <1>2, <1>e, <2>1 DEF Parsed
  <2>4. QED
    BY <2>2, <2>3
<1>6. Left
  BY <1>2, SizesAssumption DEF Left
<1>7. Raw
  BY <1>2, <1>e DEF Raw
<1>8. QED
  BY <1>3, <1>4, <1>5, <1>6, <1>7 DEF RecvInv

-------------------------------------------------------------------------------
(* Steps of the sender. *)

(* SendMsg: the new message lies behind the others. *)
LEMMA WriteMsgStep ==
    ASSUME WireSound, RecvInv, Len(wire) <= Len(wire'), WireSound',
           NEW n \in Nat, PathWriteMsg(n), UNCHANGED <<is_parse_package_, recvVars>>
    PROVE  RecvInv'
<1> DEFINE c == Len(sent)
           m == [pos |-> accepted + HeadLen, len |-> n]
<1>t. RecvType /\ Held /\ Chain /\ Parsed /\ Left /\ is_parse_package_
  BY DEF RecvInv, PathWriteMsg
<1>n. /\ c \in Nat /\ accepted \in Nat /\ HeadLen \in Nat /\ HeadLen > 0
      /\ Len(wire) \in Nat /\ Len(wire') \in Nat
  BY <1>t, Numbers DEF WireSound
<1>u. /\ UNCHANGED <<is_parse_package_, taken, readBuffer, cursor, status, rpc, delivered>>
      /\ sent' = Append(sent, m)
      /\ accepted' = accepted + (HeadLen + n)
  BY DEF recvVars, PathWriteMsg, WriteMsg, StartWrite
<1>1. m \in [pos : Nat, len : Nat]
  BY <1>n
<1>2. /\ sent' \in Seq([pos : Nat, len : Nat])
      /\ Len(sent') = c + 1
      /\ \A i \in 1..c : sent'[i] = sent[i]
      /\ sent'[c + 1] = m
  BY <1>1, <1>t, <1>u, AppendProperties DEF RecvType
<1> HIDE DEF m
<1>3. RecvType'
  BY <1>t, <1>u, <1>2, <1>n DEF RecvType
<1>4. Held'
  BY <1>t, <1>u DEF Held
<1>5. ASSUME NEW i \in 0..c PROVE EndOf(sent', i) = EndOf(sent, i)
  <2>1. CASE i = 0
    BY <2>1 DEF EndOf
  <2>2. CASE i # 0
    <3>1. i \in 1..c
      BY <2>2, <1>n
    <3>2. QED
      BY <3>1, <1>2, <2>2 DEF EndOf
  <2>3. QED
    BY <2>1, <2>2
<1>6. Chain'
  <2>1. ASSUME NEW i \in 1..Len(sent') PROVE sent'[i].pos = EndOf(sent', i - 1) + HeadLen
    <3>1. CASE i \in 1..c
      <4>1. i - 1 \in 0..c
        BY <3>1, <1>n
      <4>2. sent[i].pos = EndOf(sent, i - 1) + HeadLen
        BY <3>1, <1>t DEF Chain
      <4>3. QED
        BY <4>1, <4>2, <3>1, <1>2, <1>5
    <3>2. CASE i = c + 1
      <4>1. i - 1 = c /\ c \in 0..c
        BY <3>2, <1>n
      <4>2. EndOf(sent', c) = accepted
        BY <4>1, <1>5, <1>t DEF Chain
      <4>3. QED
        BY <4>1, <4>2, <3>2, <1>2 DEF m
    <3>3. QED
      BY <3>1, <3>2, <1>2, <1>n
  <2>2. ASSUME NEW i \in 1..Len(sent'), NEW j \in 1..Len(sent'), i < j
        PROVE  sent'[i].pos < sent'[j].pos
    <3>1. i \in 1..c
      BY <2>2, <1>2, <1>n
    <3>2. CASE j \in 1..c
      BY <3>1, <3>2, <2>2, <1>2, <1>t DEF Chain
    <3>3. CASE j = c + 1
      <4>1. sent[i].pos <= accepted /\ sent[i].pos \in Nat
        BY <3>1, <1>t, StartsAccepted, Numbers
      <4>2. sent'[j].pos = accepted + HeadLen
        BY <3>3, <1>2 DEF m
      <4>3. sent'[i].pos = sent[i].pos
        BY <3>1, <1>2
      <4>4. QED
        BY <4>1, <4>2, <4>3, <1>n
    <3>4. QED
      BY <3>2, <3>3, <1>2, <1>n
  <2>3. EndOf(sent', Len(sent')) = accepted'
    <3>1. EndOf(sent', Len(sent')) = sent'[c + 1].pos + sent'[c + 1].len
      BY <1>2, <1>n DEF EndOf
    <3>2. sent'[c + 1].pos = accepted + HeadLen /\ sent'[c + 1].len = n
      BY <1>2 DEF m
    <3>3. QED
      BY <3>1, <3>2, <1>u, <1>n
  <2>4. QED
    BY <2>1, <2>2, <2>3 DEF Chain
<1>7. Parsed'
  <2>1. Len(delivered) \in 0..c
    BY <1>t, <1>n, Numbers DEF Parsed
  <2>2. EndOf(sent', Len(delivered)) = EndOf(sent, Len(delivered))
    BY <2>1, <1>5, <1>u
  <2>3. ASSUME NEW i \in 1..Len(delivered) PROVE delivered[i] = Body(sent'[i])
    <3>1. i \in 1..c
      BY <2>1, <1>n
    <3>2. sent'[i] = sent[i]
      BY <3>1, <1>2
    <3>3. delivered[i] = Body(sent[i])
      BY <1>t DEF Parsed
    <3>4. QED
      BY <3>2, <3>3
  <2>4. QED
    BY <2>1, <2>2, <2>3, <1>u, <1>t, <1>2, <1>n DEF Parsed
<1>8. Left'
  <2>1. SUFFICES ASSUME rpc = "idle", status = "connectted", Len(readBuffer) > HeadLen
                 PROVE  LET k == sent'[Len(delivered) + 1]
                        IN InRange(k.len) /\ Len(readBuffer) < HeadLen + k.len
    BY <1>u DEF Left, InRange
  <2>2. Len(delivered) + 1 \in 1..c
    <3>1. Len(readBuffer) > cursor + HeadLen
      BY <2>1, <1>t, <1>n DEF RecvType
    <3>2. QED
      BY <3>1, <1>t, NextSent
  <2>3. sent'[Len(delivered) + 1] = sent[Len(delivered) + 1]
    BY <2>2, <1>2
  <2>4. QED
    BY <2>1, <2>3, <1>t DEF Left
<1>9. QED
  BY <1>3, <1>4, <1>6, <1>7, <1>8, <1>t, <1>u DEF RecvInv

(* Every other step of the sender leaves the messages alone. *)
LEMMA SenderStep ==
    ASSUME WireSound, RecvInv, Len(wire) <= Len(wire'), WireSound', Sender
    PROVE  RecvInv'
<1>1. UNCHANGED <<is_parse_package_, recvVars>>
  BY DEF Sender
<1>2. ASSUME NEW n \in Nat, PathWriteMsg(n) PROVE RecvInv'
  BY <1>1, <1>2, WriteMsgStep
<1>3. CASE sent' = sent /\ (accepted' = accepted \/ ~is_parse_package_)
  <2>1. UNCHANGED <<is_parse_package_, sent, taken, readBuffer, cursor, status, rpc, delivered>>
    BY <1>1, <1>3 DEF recvVars
  <2>2. RecvType'
    BY <2>1 DEF RecvInv, RecvType, WireSound
  <2>3. Held'
    BY <2>1 DEF RecvInv, Held
  <2>4. is_parse_package_ => Chain' /\ Parsed' /\ Left'
    BY <2>1, <1>3 DEF RecvInv, Chain, Parsed, Left, EndOf, InRange
  <2>5. ~is_parse_package_ => Raw'
    BY <2>1 DEF RecvInv, Raw
  <2>6. QED
    BY <2>1, <2>2, <2>3, <2>4, <2>5 DEF RecvInv
<1>4. QED
  BY <1>2, <1>3 DEF Sender, PathWrite, FillStep, FillDone, FillVector, Remove

-------------------------------------------------------------------------------
(* Steps of the receiver. *)

(* What SubSeq gives. *)
LEMMA Slice ==
    ASSUME NEW S, NEW s \in Seq(S), NEW a \in Nat, NEW b \in Nat, a <= b, b <= Len(s)
    PROVE  /\ SubSeq(s, a + 1, b) \in Seq(S)
           /\ Len(SubSeq(s, a + 1, b)) = b - a
           /\ \A k \in 1..(b - a) : SubSeq(s, a + 1, b)[k] = s[a + k]
<1>1. \A i \in (a + 1)..b : s[i] \in S
  BY ElementOfSeq
<1>2. a + 1 \in Int /\ b \in Int
  OBVIOUS
<1>3. /\ SubSeq(s, a + 1, b) \in Seq(S)
      /\ Len(SubSeq(s, a + 1, b)) = IF a + 1 <= b THEN b - (a + 1) + 1 ELSE 0
      /\ \A k \in 1..(b - (a + 1) + 1) : SubSeq(s, a + 1, b)[k] = s[(a + 1) + k - 1]
  BY <1>1, <1>2, SubSeqProperties
<1>4. b - (a + 1) + 1 = b - a /\ \A k \in 1..(b - a) : (a + 1) + k - 1 = a + k
  OBVIOUS
<1>5. Len(SubSeq(s, a + 1, b)) = b - a
  BY <1>3
<1>6. QED
  BY <1>3, <1>4, <1>5

(* recv: the bytes taken are the next ones of the stream. *)
LEMMA RecvStep ==
    ASSUME WireSound, RecvInv, NEW bytes \in 1..RecvSize, Recv(bytes),
           UNCHANGED <<is_parse_package_, sendVars>>
    PROVE  RecvInv'
<1> DEFINE c == Len(readBuffer)
           new == SubSeq(wire, taken + 1, taken + bytes)
<1>t. RecvType /\ Held
  BY DEF RecvInv
<1>n. /\ c \in Nat /\ taken \in Nat /\ bytes \in Nat /\ RecvSize \in Nat
      /\ wire \in Seq(Nat) /\ readBuffer \in Seq(Nat) /\ Len(wire) \in Nat /\ cursor \in Nat
  BY <1>t, Numbers DEF WireSound, RecvType
<1>g. bytes <= RecvSize - c /\ bytes <= Len(wire) - taken
  BY DEF Recv, RecvSpace, packet_len
<1>u. /\ UNCHANGED <<is_parse_package_, sent, accepted, wire, cursor, status, delivered>>
      /\ readBuffer' = readBuffer \o new
      /\ taken' = taken + bytes
      /\ rpc' = "parse"
  BY DEF Recv, sendVars, vars
<1>1. /\ new \in Seq(Nat) /\ Len(new) = bytes
      /\ \A k \in 1..bytes : new[k] = wire[taken + k]
  <2>1. taken + bytes \in Nat /\ taken <= taken + bytes /\ taken + bytes <= Len(wire)
    BY <1>n, <1>g
  <2>2. (taken + bytes) - taken = bytes
    BY <1>n
  <2>3. QED
    BY <2>1, <2>2, <1>n, Slice, SMTT(30)
<1> HIDE DEF new
<1>2. /\ readBuffer' \in Seq(Nat) /\ Len(readBuffer') = c + bytes
      /\ \A k \in 1..(c + bytes) : readBuffer'[k] = IF k <= c THEN readBuffer[k] ELSE new[k - c]
  BY <1>1, <1>n, <1>u, ConcatProperties
<1>3. RecvType'
  <2>1. taken' \in Nat /\ taken' <= Len(wire') /\ Len(readBuffer') <= RecvSize
        /\ cursor' \in Nat /\ cursor' <= Len(readBuffer')
    BY <1>t, <1>n, <1>g, <1>u, <1>2 DEF RecvType
  <2>2. QED
    BY <2>1, <1>t, <1>u, <1>2 DEF RecvType
<1>4. (taken' - Len(readBuffer')) = taken - c /\ Len(readBuffer') <= taken'
  BY <1>t, <1>n, <1>u, <1>2 DEF Held
<1>5. Held'
  <2>1. ASSUME NEW k \in 1..Len(readBuffer') PROVE readBuffer'[k] = (taken - c) + k
    <3>1. CASE k <= c
      <4>1. k \in 1..c /\ k \in 1..(c + bytes)
        BY <3>1, <1>2, <1>n
      <4>2. readBuffer'[k] = readBuffer[k]
        BY <3>1, <4>1, <1>2
      <4>3. QED
        BY <4>1, <4>2, <1>t DEF Held
    <3>2. CASE ~(k <= c)
      <4>1. k - c \in 1..bytes
        BY <3>2, <1>2, <1>n
      <4>2. readBuffer'[k] = wire[taken + (k - c)]
        BY <3>2, <4>1, <1>1, <1>2
      <4>3. taken + (k - c) \in 1..Len(wire)
        BY <4>1, <1>n, <1>g
      <4>4. wire[taken + (k - c)] = taken + (k - c)
        BY <4>3 DEF WireSound
      <4>5. QED
        BY <4>2, <4>4, <1>n
    <3>3. QED
      BY <3>1, <3>2
  <2>2. QED
    BY <2>1, <1>4 DEF Held
<1>6. ASSUME is_parse_package_ PROVE Chain' /\ Parsed' /\ Left'
  <2>1. Chain /\ Parsed
    BY <1>6 DEF RecvInv
  <2>2. Chain'
    BY <2>1, <1>u DEF Chain
  <2>3. Parsed'
    BY <2>1, <1>u, <1>4 DEF Parsed
  <2>4. QED
    BY <2>2, <2>3, <1>u DEF Left
<1>7. ASSUME ~is_parse_package_ PROVE Raw'
  BY <1>7, <1>u, <1>4 DEF RecvInv, Raw
<1>8. QED
  BY <1>3, <1>5, <1>6, <1>7, <1>u DEF RecvInv

(* OnRead without packages. *)
LEMMA DeliverRawStep ==
    ASSUME RecvInv, DeliverRaw, UNCHANGED <<is_parse_package_, sendVars>>
    PROVE  RecvInv'
<1> DEFINE c == Len(readBuffer)
           d == Len(delivered)
           more == [k \in 1..c |-> <<readBuffer[k]>>]
<1>t. RecvType /\ Held /\ Raw /\ ~is_parse_package_
  BY DEF RecvInv, DeliverRaw
<1>n. /\ c \in Nat /\ d \in Nat /\ taken \in Nat /\ RecvSize \in Nat
      /\ readBuffer \in Seq(Nat) /\ delivered \in Seq(Seq(Nat))
  BY <1>t, Numbers DEF RecvType
<1>u. /\ UNCHANGED <<is_parse_package_, sent, accepted, wire, taken, cursor, status>>
      /\ delivered' = delivered \o more
      /\ readBuffer' = <<>>
      /\ rpc' = "idle"
  BY DEF DeliverRaw, sendVars, vars, packet_len
<1>1. more \in Seq(Seq(Nat)) /\ Len(more) = c /\ \A k \in 1..c : more[k] = <<readBuffer[k]>>
  <2>1. \A k \in 1..c : <<readBuffer[k]>> \in Seq(Nat)
    BY <1>n, ElementOfSeq
  <2>2. more \in Seq(Seq(Nat))
    BY <2>1, <1>n
  <2>3. QED
    BY <2>2, <1>n
<1> HIDE DEF more
<1>2. /\ delivered' \in Seq(Seq(Nat)) /\ Len(delivered') = d + c
      /\ \A k \in 1..(d + c) : delivered'[k] = IF k <= d THEN delivered[k] ELSE more[k - d]
  <2> DEFINE S == Seq(Nat)
  <2>1. delivered \in Seq(S) /\ more \in Seq(S)
    BY <1>1, <1>n
  <2> HIDE DEF S
  <2>2. /\ delivered \o more \in Seq(S)
        /\ Len(delivered \o more) = d + Len(more)
        /\ \A k \in 1..(d + Len(more)) :
              (delivered \o more)[k] = IF k <= d THEN delivered[k] ELSE more[k - d]
    BY <2>1, ConcatProperties
  <2>3. QED
    BY <2>2, <1>1, <1>u DEF S
<1>3. readBuffer' \in Seq(Nat) /\ Len(readBuffer') = 0 /\ cursor = 0 /\ 1..0 = {}
  BY <1>t, <1>u DEF Raw
<1>4. RecvType'
  BY <1>t, <1>n, <1>u, <1>2, <1>3 DEF RecvType
<1>5. Held'
  <2>1. taken' = taken /\ 0 <= taken
    BY <1>n, <1>u
  <2>2. QED
    BY <2>1, <1>3 DEF Held
<1>6. d = taken - c /\ c <= taken
  BY <1>t DEF Raw, Held
<1>7. ASSUME NEW k \in 1..Len(delivered') PROVE delivered'[k] = <<k>>
  <2>1. CASE k <= d
    <3>1. k \in 1..d
      BY <2>1, <1>n, <1>2
    <3>2. QED
      BY <3>1, <2>1, <1>2, <1>t DEF Raw
  <2>2. CASE ~(k <= d)
    <3>1. k - d \in 1..c
      BY <2>2, <1>2, <1>n
    <3>2. delivered'[k] = <<readBuffer[k - d]>>
      BY <2>2, <3>1, <1>1, <1>2
    <3>3. readBuffer[k - d] = (taken - c) + (k - d)
      BY <3>1, <1>t DEF Held
    <3>4. (taken - c) + (k - d) = k
      BY <1>6, <1>n
    <3>5. QED
      BY <3>2, <3>3, <3>4
  <2>3. QED
    BY <2>1, <2>2
<1>8. Raw'
  <2>1. Len(delivered') = taken' - Len(readBuffer')
    BY <1>2, <1>3, <1>6, <1>n, <1>u
  <2>2. QED
    BY <2>1, <1>3, <1>7, <1>u DEF Raw
<1>9. QED
  BY <1>4, <1>5, <1>8, <1>t, <1>u DEF RecvInv

(* OnRead with packages reads the length SendMsg wrote, never something else. *)
LEMMA LengthRead ==
    ASSUME WireSound, RecvType, Held, Chain, Parsed, LookAgain, NEW len \in PacketLen
    PROVE  len = sent[Len(delivered) + 1].len
<1> DEFINE d == Len(delivered)
           L == Len(readBuffer)
<1>n. /\ Len(sent) \in Nat /\ d \in Nat /\ L \in Nat /\ taken \in Nat /\ cursor \in Nat
      /\ HeadLen \in Nat /\ HeadLen > 0
      /\ \A i \in 1..Len(sent) : sent[i].pos \in Nat /\ sent[i].len \in Nat
  BY Numbers
<1>g. L > cursor + HeadLen
  BY DEF LookAgain, packet_len
<1>1. d + 1 \in 1..Len(sent) /\ sent[d + 1].pos = (taken - L) + cursor + HeadLen
  BY <1>g, NextSent
<1>2. DOMAIN sent = 1..Len(sent)
  BY DEF RecvType
<1>3. ASSUME NEW k \in 1..HeadLen
      PROVE  readBuffer[cursor + k] = sent[d + 1].pos - HeadLen + k
  <2>1. cursor + k \in 1..L
    BY <1>n, <1>g
  <2>2. readBuffer[cursor + k] = (taken - L) + (cursor + k)
    BY <2>1 DEF Held
  <2>3. QED
    BY <2>2, <1>1, <1>n
<1>4. d + 1 \in Heads
  BY <1>1, <1>2, <1>3 DEF Heads
<1>5. ASSUME NEW i \in Heads PROVE i = d + 1
  <2>1. i \in 1..Len(sent)
    BY <1>2 DEF Heads
  <2>2. 1 \in 1..HeadLen
    BY <1>n
  <2>3. readBuffer[cursor + 1] = sent[i].pos - HeadLen + 1
    BY <2>2 DEF Heads
  <2>4. sent[i].pos = sent[d + 1].pos
    <3>1. sent[i].pos \in Nat /\ sent[d + 1].pos \in Nat /\ HeadLen \in Nat
      BY <2>1, <1>1, <1>n
    <3>2. readBuffer[cursor + 1] = sent[d + 1].pos - HeadLen + 1
      BY <2>2, <1>3
    <3>3. \A a, b, h \in Nat : a - h + 1 = b - h + 1 => a = b
      OBVIOUS
    <3>4. QED
      BY <3>1, <3>2, <3>3, <2>3
  <2>5. ~(i < d + 1) /\ ~(d + 1 < i)
    BY <2>1, <2>4, <1>1, <1>n DEF Chain
  <2>6. QED
    BY <2>1, <2>5, <1>n
<1>6. QED
  BY <1>4, <1>5 DEF PacketLen

(* Leaving the loop keeps what is behind the cursor. *)
LEMMA LeaveStep ==
    ASSUME RecvInv, is_parse_package_, Leave,
           UNCHANGED <<is_parse_package_, sent, accepted, wire, taken, delivered>>,
           status' \in {"connectted", "queued", "closing"}
    PROVE  /\ RecvType' /\ Held' /\ Chain' /\ Parsed'
           /\ Len(readBuffer') = Len(readBuffer) - cursor
<1> DEFINE L == Len(readBuffer)
<1>t. RecvType /\ Held /\ Chain /\ Parsed
  BY DEF RecvInv
<1>n. /\ L \in Nat /\ taken \in Nat /\ cursor \in Nat /\ RecvSize \in Nat
      /\ readBuffer \in Seq(Nat) /\ cursor <= L /\ L <= RecvSize
  BY <1>t, Numbers DEF RecvType
<1>1. /\ readBuffer' \in Seq(Nat) /\ Len(readBuffer') = L - cursor
      /\ \A k \in 1..(L - cursor) : readBuffer'[k] = readBuffer[cursor + k]
  BY <1>n, Slice DEF Leave, packet_len
<1>2. cursor' = 0 /\ rpc' = "idle"
  BY DEF Leave
<1>3. Len(readBuffer') <= RecvSize /\ 0 <= Len(readBuffer') /\ Len(readBuffer') <= taken
      /\ taken - Len(readBuffer') = (taken - L) + cursor
  BY <1>1, <1>n, <1>t DEF Held
<1>4. RecvType'
  BY <1>t, <1>1, <1>2, <1>3 DEF RecvType
<1>5. Held'
  <2>1. ASSUME NEW k \in 1..Len(readBuffer')
        PROVE  readBuffer'[k] = (taken - Len(readBuffer')) + k
    <3>1. k \in 1..(L - cursor) /\ cursor + k \in 1..L
      BY <1>1, <1>n
    <3>2. readBuffer'[k] = (taken - L) + (cursor + k)
      BY <3>1, <1>1, <1>t DEF Held
    <3>3. k \in Nat
      BY <3>1
    <3>4. \A a \in Int, b, e \in Nat : a + (b + e) = (a + b) + e
      OBVIOUS
    <3>5. taken - L \in Int
      BY <1>n
    <3>6. readBuffer'[k] = ((taken - L) + cursor) + k
      BY <3>2, <3>3, <3>4, <3>5, <1>n
    <3>7. taken - Len(readBuffer') = (taken - L) + cursor
      BY <1>3
    <3>8. QED
      BY <3>6, <3>7, Zenon
  <2>2. QED
    BY <2>1, <1>3 DEF Held
<1>6. Chain'
  BY <1>t DEF Chain
<1>7. Parsed'
  <2>1. (taken - Len(readBuffer')) + 0 = (taken - L) + cursor
    BY <1>1, <1>n
  <2>2. QED
    BY <2>1, <1>t, <1>2 DEF Parsed
<1>8. QED
  BY <1>1, <1>4, <1>5, <1>6, <1>7

(* A message is handed over: it is the next one, whole. *)
LEMMA DeliverStep ==
    ASSUME WireSound, RecvInv, is_parse_package_, rpc = "parse", LookAgain,
           NEW len \in PacketLen, InRange(len), Complete(len), Deliver(len),
           UNCHANGED <<is_parse_package_, sent, accepted, wire, taken, readBuffer, status, rpc>>
    PROVE  RecvInv'
<1> DEFINE d == Len(delivered)
           L == Len(readBuffer)
           m == sent[d + 1]
           body == SubSeq(readBuffer, cursor + HeadLen + 1, cursor + HeadLen + len)
<1>t. RecvType /\ Held /\ Chain /\ Parsed
  BY DEF RecvInv
<1>g. L > cursor + HeadLen /\ L >= cursor + HeadLen + len
  BY DEF LookAgain, Complete, packet_len
<1>1. d + 1 \in 1..Len(sent) /\ m.pos = (taken - L) + cursor + HeadLen
  BY <1>t, <1>g, NextSent
<1>2. len = m.len
  BY <1>t, LengthRead
<1>n. /\ Len(sent) \in Nat /\ d \in Nat /\ L \in Nat /\ taken \in Nat /\ cursor \in Nat
      /\ HeadLen \in Nat /\ m.pos \in Nat /\ m.len \in Nat /\ len \in Nat
      /\ readBuffer \in Seq(Nat) /\ delivered \in Seq(Seq(Nat))
  BY <1>t, <1>1, <1>2, Numbers DEF RecvType
<1> HIDE DEF m
<1>3. /\ body \in Seq(Nat) /\ Len(body) = len
      /\ \A k \in 1..len : body[k] = readBuffer[(cursor + HeadLen) + k]
  <2>1. cursor + HeadLen \in Nat /\ cursor + HeadLen + len \in Nat
        /\ cursor + HeadLen <= cursor + HeadLen + len
        /\ (cursor + HeadLen + len) - (cursor + HeadLen) = len
    BY <1>n
  <2>2. QED
    BY <2>1, <1>g, <1>n, Slice, SMTT(30)
<1> HIDE DEF body
<1>4. body = Body(m)
  <2>1. ASSUME NEW k \in 1..len PROVE body[k] = m.pos + k
    <3>1. (cursor + HeadLen) + k \in 1..L
      BY <1>n, <1>g
    <3>2. body[k] = (taken - L) + ((cursor + HeadLen) + k)
      BY <3>1, <1>3, <1>t DEF Held
    <3>3. QED
      BY <3>2, <1>1, <1>n
  <2>2. body = [k \in 1..len |-> body[k]]
    BY <1>3
  <2>3. body = [k \in 1..len |-> m.pos + k]
    BY <2>1, <2>2
  <2>4. QED
    BY <2>3, <1>2 DEF Body
<1>5. /\ delivered' \in Seq(Seq(Nat)) /\ Len(delivered') = d + 1
      /\ \A i \in 1..d : delivered'[i] = delivered[i]
      /\ delivered'[d + 1] = body
  <2> DEFINE S == Seq(Nat)
  <2>1. delivered \in Seq(S) /\ body \in S
    BY <1>3, <1>n
  <2>2. delivered' = Append(delivered, body)
    BY DEF Deliver, body
  <2> HIDE DEF S
  <2>3. /\ delivered' \in Seq(S) /\ Len(delivered') = d + 1
        /\ \A i \in 1..d : delivered'[i] = delivered[i]
        /\ delivered'[d + 1] = body
    BY <2>1, <2>2, AppendProperties
  <2>4. QED
    BY <2>3 DEF S
<1>6. cursor' = cursor + HeadLen + len
  BY DEF Deliver
<1>7. RecvType'
  <2>1. cursor' \in Nat /\ cursor' <= L
    BY <1>6, <1>n, <1>g
  <2>2. QED
    BY <2>1, <1>5, <1>t DEF RecvType
<1>8. Held' /\ Chain'
  BY <1>t DEF Held, Chain
<1>9. Parsed'
  <2>1. \A i \in 1..(d + 1) : delivered'[i] = Body(sent[i])
    <3> SUFFICES ASSUME NEW i \in 1..(d + 1) PROVE delivered'[i] = Body(sent[i])
      OBVIOUS
    <3>1. CASE i \in 1..d
      BY <3>1, <1>5, <1>t DEF Parsed
    <3>2. CASE i = d + 1
      BY <3>2, <1>4, <1>5 DEF m
    <3>3. QED
      BY <3>1, <3>2, <1>n
  <2>2. EndOf(sent, d + 1) = m.pos + m.len
    BY <1>n DEF EndOf, m
  <2>3. (taken - L) + cursor' = EndOf(sent, d + 1)
    BY <2>2, <1>1, <1>2, <1>6, <1>n
  <2>4. d + 1 <= Len(sent)
    BY <1>1
  <2>5. QED
    BY <2>1, <2>3, <2>4, <1>5 DEF Parsed
<1>10. Left'
  BY DEF Left
<1>11. QED
  BY <1>7, <1>8, <1>9, <1>10 DEF RecvInv

(* One turn of the loop of OnRead. *)
LEMMA OnReadStep ==
    ASSUME WireSound, RecvInv, OnRead, UNCHANGED <<is_parse_package_, sendVars>>
    PROVE  RecvInv'
<1> DEFINE L == Len(readBuffer)
           d == Len(delivered)
<1>t. RecvType /\ Held /\ Chain /\ Parsed /\ is_parse_package_ /\ rpc = "parse"
  BY DEF RecvInv, OnRead
<1>n. L \in Nat /\ cursor \in Nat /\ HeadLen \in Nat
  BY <1>t, Numbers
<1>u. UNCHANGED <<is_parse_package_, sent, accepted, wire, taken>>
  BY DEF OnRead, sendVars, vars
<1>l. ASSUME Leave, UNCHANGED delivered, status' \in {"connectted", "queued", "closing"}, Left'
      PROVE  RecvInv'
  BY <1>l, <1>t, <1>u, LeaveStep DEF RecvInv
<1>1. CASE ~LookAgain /\ Leave /\ UNCHANGED <<status, delivered>>
  <2>1. status' \in {"connectted", "queued", "closing"}
    BY <1>1, <1>t DEF RecvType
  <2>2. Len(readBuffer') = L - cursor
    BY <2>1, <1>1, <1>t, <1>u, LeaveStep
  <2>3. ~(Len(readBuffer') > HeadLen)
    BY <2>2, <1>1, <1>n DEF LookAgain, packet_len
  <2>4. Left'
    BY <2>3 DEF Left
  <2>5. QED
    BY <2>1, <2>4, <1>1, <1>l
<1>2. ASSUME LookAgain, NEW len \in PacketLen,
             ~InRange(len), Disconnect, Leave, UNCHANGED delivered
      PROVE  RecvInv'
  <2>1. status' \in {"connectted", "queued", "closing"} /\ status' # "connectted"
    BY <1>2, <1>t DEF RecvType, Disconnect
  <2>2. Left'
    BY <2>1 DEF Left
  <2>3. QED
    BY <2>1, <2>2, <1>2, <1>l
<1>3. ASSUME LookAgain, NEW len \in PacketLen, InRange(len), Complete(len), Deliver(len),
             UNCHANGED <<readBuffer, status, rpc>>
      PROVE  RecvInv'
  BY <1>3, <1>t, <1>u, DeliverStep
<1>4. ASSUME LookAgain, NEW len \in PacketLen, InRange(len), ~Complete(len), Leave,
             UNCHANGED <<status, delivered>>
      PROVE  RecvInv'
  <2>1. status' \in {"connectted", "queued", "closing"}
    BY <1>4, <1>t DEF RecvType
  <2>2. Len(readBuffer') = L - cursor
    BY <2>1, <1>4, <1>t, <1>u, LeaveStep
  <2>3. len = sent[d + 1].len /\ d + 1 \in 1..Len(sent)
    BY <1>4, <1>t, LengthRead, NextSent DEF LookAgain, packet_len
  <2>4. len \in Nat
    BY <2>3, <1>t, Numbers
  <2>5. Len(readBuffer') < HeadLen + len
    BY <2>2, <2>4, <1>4, <1>n DEF Complete, packet_len
  <2>6. Left'
    BY <2>3, <2>5, <1>4, <1>u DEF Left, InRange
  <2>7. QED
    BY <2>1, <2>6, <1>4, <1>l
<1>5. QED
  BY <1>1, <1>2, <1>3, <1>4 DEF OnRead

(* Every step of the receiver. *)
LEMMA ReceiverStep == WireSound /\ RecvInv /\ Receiver => RecvInv'
<1> SUFFICES ASSUME WireSound, RecvInv, Receiver PROVE RecvInv'
  OBVIOUS
<1>1. CASE HandleClose
  <2>1. UNCHANGED <<is_parse_package_, sent, accepted, wire, taken, readBuffer, cursor, rpc, delivered>>
        /\ status' = "closing"
    BY <1>1 DEF Receiver, HandleClose, sendVars, vars
  <2>2. QED
    BY <2>1 DEF RecvInv, RecvType, Held, Chain, Parsed, Left, Raw
<1>2. QED
  BY <1>1, RecvStep, DeliverRawStep, OnReadStep DEF Receiver

-------------------------------------------------------------------------------
(* The theorems about both ends. *)

(* The inductive invariant of the path. *)
PathInv == IInv /\ LineOrdered /\ RecvInv

(* Two fresh ends of a connection satisfy it. *)
LEMMA PathInvInit == PathInit => PathInv
<1>1. PathInit => Allocate
  BY DEF PathInit
<1>2. Allocate => LineOrdered
  BY DEF Allocate, LineOrdered
<1>3. QED
  BY <1>1, <1>2, InvInit, RecvInit DEF PathInv

(* Every step of either end preserves it. *)
LEMMA PathInvStep == PathInv /\ [PathNext]_pathVars => PathInv'
<1> SUFFICES ASSUME PathInv, [PathNext]_pathVars PROVE PathInv'
  OBVIOUS
<1>i. IInv /\ LineOrdered /\ RecvInv
  BY DEF PathInv
<1>1. [Next]_vars
  BY PathStep
<1>2. IInv' /\ LineOrdered'
  BY <1>i, <1>1, InvStep, LineStep
<1>3. WireSound /\ Len(wire) <= Len(wire')
  BY <1>i, <1>1, SenderSound, WireGrows
<1>4. WireSound'
  BY <1>2, SenderSound, PTL
<1>5. CASE UNCHANGED pathVars
  <2>1. UNCHANGED <<is_parse_package_, sent, accepted, wire, taken, readBuffer, cursor, status, rpc, delivered>>
    BY <1>5 DEF pathVars, sendVars, recvVars, vars
  <2>2. RecvInv'
    BY <2>1, <1>i DEF RecvInv, RecvType, Held, Chain, Parsed, Left, Raw
  <2>3. QED
    BY <2>2, <1>2 DEF PathInv
<1>6. CASE Sender
  <2>1. RecvInv'
    BY <1>6, <1>i, <1>3, <1>4, SenderStep
  <2>2. QED
    BY <2>1, <1>2 DEF PathInv
<1>7. CASE Receiver
  <2>1. RecvInv'
    BY <1>7, <1>i, <1>3, ReceiverStep
  <2>2. QED
    BY <2>1, <1>2 DEF PathInv
<1>8. QED
  BY <1>5, <1>6, <1>7 DEF PathNext

(* OnRead leaves nothing lying, whatever the sizes of buffers and chunks:     *)
(* what it left in the read buffer is less than a whole message.              *)
THEOREM PathPrompt == PathSpec => []Prompt
<1>1. PathInv => Prompt
  <2> SUFFICES ASSUME PathInv, is_parse_package_, rpc = "idle", status = "connectted",
                      Len(delivered) < Len(sent), ~Bad(sent[Len(delivered) + 1])
               PROVE  taken < sent[Len(delivered) + 1].pos + sent[Len(delivered) + 1].len
    BY DEF Prompt
  <2> DEFINE d == Len(delivered)
             L == Len(readBuffer)
  <2>1. RecvType /\ Held /\ Chain /\ Parsed /\ Left
    BY DEF PathInv, RecvInv
  <2>2. d \in Nat /\ L \in Nat /\ taken \in Nat /\ HeadLen \in Nat /\ Len(sent) \in Nat
        /\ cursor = 0
    BY <2>1, Numbers DEF RecvType
  <2>3. d + 1 \in 1..Len(sent) /\ (d + 1) - 1 = d
    BY <2>2
  <2>4. sent[d + 1].pos \in Nat /\ sent[d + 1].len \in Nat
    BY <2>1, <2>3, Numbers
  <2>5. sent[d + 1].pos = EndOf(sent, d) + HeadLen /\ (taken - L) + cursor = EndOf(sent, d)
    BY <2>1, <2>3 DEF Chain, Parsed
  <2>6. sent[d + 1].len > 0
    BY DEF Bad, InRange
  <2>7. L < HeadLen + sent[d + 1].len
    <3>1. CASE L > HeadLen
      BY <3>1, <2>1 DEF Left
    <3>2. CASE ~(L > HeadLen)
      BY <3>2, <2>2, <2>4, <2>6
    <3>3. QED
      BY <3>1, <3>2
  <2>8. taken = sent[d + 1].pos - HeadLen + L
    BY <2>2, <2>4, <2>5
  <2>9. QED
    BY <2>2, <2>4, <2>7, <2>8, SMTT(30)
<1>2. QED
  BY <1>1, PathInvInit, PathInvStep, PTL DEF PathSpec

(* The parser of OnRead stays inside the read buffer, and the buffer inside   *)
(* what Socket allocated, for every cut that TCP makes of the stream.         *)
THEOREM PathTypeCorrect == PathSpec => []PathTypeOK
<1>1. PathInv => PathTypeOK
  <2> SUFFICES ASSUME PathInv PROVE PathTypeOK
    OBVIOUS
  <2>1. TypeOK /\ RecvType
    BY DEF PathInv, IInv, RecvInv
  <2>2. cursor \in 0..packet_len
    <3>1. Len(readBuffer) \in Nat /\ cursor \in Nat /\ cursor <= Len(readBuffer)
      BY <2>1 DEF RecvType
    <3>2. QED
      BY <3>1 DEF packet_len
  <2>3. QED
    BY <2>1, <2>2 DEF RecvType, PathTypeOK, packet_len
<1>2. QED
  BY <1>1, PathInvInit, PathInvStep, PTL DEF PathSpec

(* The read buffer of a live connection always has room when recv is called:  *)
(* HandleReadComplete never gives up on it.                                   *)
THEOREM PathNeverFull == PathSpec => []NeverFull
<1>1. PathInv => NeverFull
  <2> SUFFICES ASSUME PathInv, rpc = "idle", status = "connectted"
               PROVE  RecvSize - Len(readBuffer) > 0
    BY DEF NeverFull, RecvSpace, packet_len
  <2> DEFINE L == Len(readBuffer)
             d == Len(delivered)
  <2>1. RecvInv /\ RecvType /\ WireSound
    BY SenderSound DEF PathInv, RecvInv
  <2>2. L \in Nat /\ HeadLen \in Nat /\ RecvSize \in Nat /\ RecvSize > HeadLen /\ cursor = 0
    BY <2>1, Numbers DEF RecvType
  <2>3. CASE L <= HeadLen
    BY <2>2, <2>3
  <2>4. CASE is_parse_package_ /\ L > HeadLen
    <3>1. Held /\ Chain /\ Parsed /\ Left
      BY <2>1, <2>4 DEF RecvInv
    <3>2. d + 1 \in 1..Len(sent)
      BY <2>1, <2>2, <2>4, <3>1, NextSent
    <3>3. sent[d + 1].len \in Nat
      BY <3>2, <2>1, Numbers
    <3>4. sent[d + 1].len <= RecvSize - HeadLen /\ L < HeadLen + sent[d + 1].len
      BY <2>4, <3>1 DEF Left, InRange
    <3>5. QED
      BY <3>3, <3>4, <2>2
  <2>5. CASE ~is_parse_package_
    BY <2>1, <2>2, <2>5 DEF RecvInv, Raw
  <2>6. QED
    BY <2>2, <2>3, <2>4, <2>5
<1>2. QED
  BY <1>1, PathInvInit, PathInvStep, PTL DEF PathSpec

(* The messages of the abstract channel, as the refinement maps them. *)
Sent == IF is_parse_package_ THEN [i \in 1..Len(sent) |-> Body(sent[i])]
        ELSE [i \in 1..accepted |-> <<i>>]

(* What was delivered is always a prefix of what was sent. *)
DeliveredIsPrefix == /\ Len(Sent) \in Nat /\ Len(delivered) \in Nat
                     /\ Len(delivered) <= Len(Sent)
                     /\ delivered = [i \in 1..Len(delivered) |-> Sent[i]]

(* It follows from the invariant. *)
LEMMA DeliveredPrefix == WireSound /\ RecvInv => DeliveredIsPrefix
<1> SUFFICES ASSUME WireSound, RecvInv PROVE DeliveredIsPrefix
  OBVIOUS
<1>t. RecvType
  BY DEF RecvInv
<1>n. /\ Len(sent) \in Nat /\ Len(delivered) \in Nat /\ Len(readBuffer) \in Nat
      /\ taken \in Nat /\ accepted \in Nat /\ Len(wire) \in Nat
  BY <1>t, Numbers DEF WireSound
<1>d. delivered = [i \in 1..Len(delivered) |-> delivered[i]]
  BY <1>t DEF RecvType
<1>1. CASE is_parse_package_
  <2>1. Len(Sent) = Len(sent) /\ \A i \in 1..Len(sent) : Sent[i] = Body(sent[i])
    BY <1>1, <1>n DEF Sent
  <2>2. Len(delivered) <= Len(sent) /\ \A i \in 1..Len(delivered) : delivered[i] = Body(sent[i])
    BY <1>1 DEF RecvInv, Parsed
  <2>3. \A i \in 1..Len(delivered) : delivered[i] = Sent[i]
    BY <2>1, <2>2, <1>n
  <2>4. QED
    BY <2>1, <2>2, <2>3, <1>n, <1>d DEF DeliveredIsPrefix
<1>2. CASE ~is_parse_package_
  <2>1. Len(Sent) = accepted /\ \A i \in 1..accepted : Sent[i] = <<i>>
    <3>1. Sent = [i \in 1..accepted |-> <<i>>]
      BY <1>2 DEF Sent
    <3>2. DOMAIN Sent = 1..accepted
      BY <3>1
    <3>3. Len(Sent) = accepted
      BY <3>1, <1>n
    <3>4. QED
      BY <3>1, <3>3
  <2>2. Len(delivered) = taken - Len(readBuffer) /\ \A i \in 1..Len(delivered) : delivered[i] = <<i>>
    BY <1>2 DEF RecvInv, Raw
  <2>3. taken <= Len(wire) /\ Len(wire) <= accepted
    BY <1>t DEF RecvType, WireSound
  <2>4. Len(delivered) <= accepted
    BY <2>2, <2>3, <1>n
  <2>5. ASSUME NEW i \in 1..Len(delivered) PROVE delivered[i] = Sent[i]
    <3>1. i \in 1..accepted
      BY <2>4, <1>n
    <3>2. QED
      BY <3>1, <2>1, <2>2
  <2>6. QED
    BY <2>1, <2>4, <2>5, <1>n, <1>d DEF DeliveredIsPrefix
<1>3. QED
  BY <1>1, <1>2

(* A function on an initial segment, cut short. *)
LEMMA Prefix ==
    ASSUME NEW s, NEW n \in Nat, Len(s) \in Nat, n <= Len(s)
    PROVE  SubSeq(s, 1, n) = [i \in 1..n |-> s[i]]
BY DEF SubSeq

(* A step of the sender is a step of the channel: messages are only added.    *)
LEMMA SendsOnly ==
    ASSUME WireSound, RecvInv, Sender
    PROVE  Sent' = Sent \/ (Len(Sent) < Len(Sent') /\ SubSeq(Sent', 1, Len(Sent)) = Sent)
<1>t. RecvType
  BY DEF RecvInv
<1>n. Len(sent) \in Nat /\ accepted \in Nat
  BY <1>t, Numbers DEF WireSound
<1>u. is_parse_package_' = is_parse_package_ /\ is_parse_package_ \in BOOLEAN
  BY <1>t DEF Sender, RecvType
<1>1. CASE sent' = sent /\ accepted' = accepted
  BY <1>1, <1>u DEF Sent
<1>2. ASSUME NEW n \in 1..MaxLen, PathWrite(n)
      PROVE  Len(Sent) < Len(Sent') /\ SubSeq(Sent', 1, Len(Sent)) = Sent
  <2>1. ~is_parse_package_ /\ accepted' = accepted + n /\ n \in Nat /\ n > 0
    BY <1>2, SizesAssumption DEF PathWrite, Write, StartWrite
  <2>2. Sent = [i \in 1..accepted |-> <<i>>] /\ Sent' = [i \in 1..accepted + n |-> <<i>>]
    BY <2>1, <1>u DEF Sent
  <2>3. Len(Sent) = accepted /\ Len(Sent') = accepted + n
    BY <2>1, <2>2, <1>n
  <2>4. SubSeq(Sent', 1, accepted) = [i \in 1..accepted |-> Sent'[i]]
    BY <2>1, <2>3, <1>n, Prefix
  <2>5. \A i \in 1..accepted : Sent'[i] = <<i>>
    BY <2>1, <2>2, <1>n
  <2>6. QED
    BY <2>1, <2>2, <2>3, <2>4, <2>5, <1>n
<1>3. ASSUME NEW n \in Nat, PathWriteMsg(n)
      PROVE  Len(Sent) < Len(Sent') /\ SubSeq(Sent', 1, Len(Sent)) = Sent
  <2> DEFINE m == [pos |-> accepted + HeadLen, len |-> n]
             c == Len(sent)
  <2>1. is_parse_package_ /\ sent' = Append(sent, m)
    BY <1>3 DEF PathWriteMsg
  <2>2. m \in [pos : Nat, len : Nat] /\ sent \in Seq([pos : Nat, len : Nat])
    BY <1>t, <1>n, Numbers DEF RecvType
  <2> HIDE DEF m
  <2>3. Len(sent') = c + 1 /\ \A i \in 1..c : sent'[i] = sent[i]
    BY <2>1, <2>2, AppendProperties
  <2>4. Sent = [i \in 1..c |-> Body(sent[i])] /\ Sent' = [i \in 1..(c + 1) |-> Body(sent'[i])]
    BY <2>1, <2>3, <1>u DEF Sent, Body
  <2>5. Len(Sent) = c /\ Len(Sent') = c + 1
    BY <2>4, <1>n
  <2>6. SubSeq(Sent', 1, c) = [i \in 1..c |-> Sent'[i]]
    BY <2>5, <1>n, Prefix
  <2>7. \A i \in 1..c : Sent'[i] = Body(sent[i])
    BY <2>3, <2>4, <1>n
  <2>8. [i \in 1..c |-> Sent'[i]] = [i \in 1..c |-> Body(sent[i])]
    BY <2>7
  <2>9. SubSeq(Sent', 1, Len(Sent)) = Sent
    BY <2>4, <2>5, <2>6, <2>8
  <2>10. QED
    BY <2>5, <2>9, <1>n
<1>4. QED
  BY <1>1, <1>2, <1>3 DEF Sender, FillStep, FillDone, FillVector, Remove

(* A step of the receiver takes nothing back. *)
LEMMA ReceivesOnly ==
    ASSUME RecvInv, Receiver
    PROVE  Sent' = Sent /\ Len(delivered) <= Len(delivered')
<1>t. RecvType
  BY DEF RecvInv
<1>1. Sent' = Sent
  BY DEF Receiver, sendVars, vars, Sent, Body
<1>2. Len(delivered) \in Nat /\ delivered \in Seq(Seq(Nat))
  BY <1>t DEF RecvType
<1>3. CASE delivered' = delivered
  BY <1>1, <1>2, <1>3
<1>4. CASE DeliverRaw
  <2>1. RecvInv' /\ RecvInv
    BY <1>4, DeliverRawStep DEF Receiver
  <2>2. ~is_parse_package_ /\ ~is_parse_package_' /\ taken' = taken /\ readBuffer' = <<>>
    BY <1>4 DEF DeliverRaw, Receiver
  <2>3. Raw /\ Raw'
    BY <2>1, <2>2 DEF RecvInv
  <2>4. Len(delivered) = taken - Len(readBuffer) /\ Len(delivered') = taken' - Len(readBuffer')
    BY <2>3 DEF Raw
  <2>5. Len(readBuffer') = 0 /\ Len(readBuffer) \in Nat /\ taken \in Nat
    BY <2>2, <1>t DEF RecvType
  <2>6. QED
    BY <2>2, <2>4, <2>5, <1>1
<1>5. ASSUME NEW len, Deliver(len) PROVE Len(delivered) <= Len(delivered')
  BY <1>2, <1>5 DEF Deliver
<1>6. QED
  BY <1>1, <1>3, <1>4, <1>5 DEF Receiver, Recv, OnRead, HandleClose

(* Refinement: whatever chunks TCP makes of the stream, and however the sizes *)
(* of messages and buffers relate, SendMsg and the receive callback are an    *)
(* ordered channel of whole messages.                                         *)
THEOREM PathIsChannel == PathSpec => ChannelImplemented
<1>1. PathInit => Channel!ChannelInit
  <2> SUFFICES ASSUME PathInit PROVE Sent = <<>> /\ delivered = <<>>
    BY DEF Channel!ChannelInit, Sent
  <2>1. Len(sent) = 0 /\ accepted = 0 /\ delivered = <<>>
    BY DEF PathInit, Allocate
  <2>2. QED
    BY <2>1 DEF Sent
<1>2. PathInv /\ PathInv' /\ [PathNext]_pathVars
        => [Channel!SendSome \/ Channel!ReceiveSome]_Channel!channelVars
  <2> SUFFICES ASSUME PathInv, PathInv', [PathNext]_pathVars
               PROVE  \/ Len(Sent) < Len(Sent') /\ SubSeq(Sent', 1, Len(Sent)) = Sent
                         /\ delivered' = delivered
                      \/ (\E n \in Len(delivered) + 1..Len(Sent) : delivered' = SubSeq(Sent, 1, n))
                         /\ Sent' = Sent
                      \/ Sent' = Sent /\ delivered' = delivered
    BY DEF Channel!SendSome, Channel!ReceiveSome, Channel!channelVars, Sent
  <2>1. RecvInv /\ WireSound
    BY SenderSound DEF PathInv
  <2>2. RecvInv' /\ WireSound'
    BY SenderSound, PTL DEF PathInv
  <2>3. CASE UNCHANGED pathVars
    BY <2>3 DEF pathVars, sendVars, recvVars, vars, Sent, Body
  <2>4. CASE Sender
    BY <2>4, <2>1, SendsOnly DEF Sender, recvVars
  <2>5. CASE Receiver
    <3>1. Sent' = Sent /\ Len(delivered) <= Len(delivered')
      BY <2>5, <2>1, ReceivesOnly
    <3>2. /\ Len(Sent) \in Nat /\ Len(delivered) \in Nat
          /\ delivered = [i \in 1..Len(delivered) |-> Sent[i]]
      BY <2>1, DeliveredPrefix DEF DeliveredIsPrefix
    <3>p. DeliveredIsPrefix'
      BY <2>2, DeliveredPrefix, PTL
    <3>3. /\ Len(delivered') \in Nat /\ Len(delivered') <= Len(Sent')
          /\ delivered' = [i \in 1..Len(delivered') |-> Sent'[i]]
      BY <3>p DEF DeliveredIsPrefix
    <3>4. CASE Len(delivered') = Len(delivered)
      BY <3>1, <3>2, <3>3, <3>4
    <3>5. CASE Len(delivered') # Len(delivered)
      <4>0. \A a, b, c \in Nat : a <= b /\ b # a /\ b <= c => b \in a + 1..c
        OBVIOUS
      <4>a. /\ Len(delivered) \in Nat /\ Len(delivered') \in Nat /\ Len(Sent) \in Nat
            /\ Len(delivered) <= Len(delivered') /\ Len(delivered') <= Len(Sent)
        BY <3>1, <3>2, <3>3
      <4>1. Len(delivered') \in Len(delivered) + 1..Len(Sent)
        BY <4>0, <4>a, <3>5
      <4>2. delivered' = SubSeq(Sent, 1, Len(delivered'))
        BY <3>1, <3>2, <3>3, Prefix
      <4>3. QED
        BY <4>1, <4>2, <3>1
    <3>6. QED
      BY <3>4, <3>5
  <2>6. QED
    BY <2>3, <2>4, <2>5 DEF PathNext
<1>3. QED
  BY <1>1, <1>2, PathInvInit, PathInvStep, PTL
  DEF PathSpec, ChannelImplemented, Channel!ChannelSpec
===============================================================================
