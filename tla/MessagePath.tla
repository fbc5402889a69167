----------------------------- MODULE MessagePath -----------------------------
(* The way of a message from SendMsg of one server to the receive callback of *)
(* another: the sender's write buffer (SequenceBuffer), TCP, which hands the  *)
(* bytes over in chunks of any size, and Socket::OnRead (engine/socket.cpp),  *)
(* which cuts them into messages again.                                       *)
(*                                                                            *)
(* A byte is named by its position in the stream, as in SequenceBuffer.  The  *)
(* loop of OnRead is one step per iteration; recv and OnRead are on the       *)
(* receiver's work thread, so nothing else happens at the receiver between.   *)
(* Where the next recv comes from (the loop of HandleReadComplete or another  *)
(* event) is SocketMgr.                                                       *)
EXTENDS SequenceBuffer

CONSTANT RecvSize     \* recvbuffersize_ of the receiver

ASSUME RecvAssumption == RecvSize \in Nat /\ RecvSize > HeadLen

VARIABLES is_parse_package_, \* both ends use messages, or both plain bytes
          sent,              \* ghost: the messages sent, [pos, len] of the body
          taken,             \* bytes the receiver has got from TCP
          readBuffer,        \* the bytes it holds
          cursor,            \* OnRead: bytes of readBuffer done with
          status,            \* "connectted", "queued" (Disconnect has queued
                             \* the CLOSE event), "closing"
          rpc,               \* "idle", or "parse" in OnRead
          delivered          \* what the receive callback was given, in order

sendVars == <<vars, sent>>
recvVars == <<taken, readBuffer, cursor, status, rpc, delivered>>
pathVars == <<is_parse_package_, sendVars, recvVars>>

PathInit == /\ Allocate
            /\ is_parse_package_ \in BOOLEAN
            /\ sent = <<>>
            /\ taken = 0 /\ readBuffer = <<>> /\ cursor = 0
            /\ status = "connectted" /\ rpc = "idle"
            /\ delivered = <<>>

packet_len == Len(readBuffer)

RecvSpace == RecvSize - packet_len

(* The four bytes after the cursor as a number: the length SendMsg wrote when *)
(* they are the head of a message, anything otherwise.                        *)
Heads == {i \in DOMAIN sent : \A k \in 1..HeadLen : readBuffer[cursor + k] = sent[i].pos - HeadLen + k}
PacketLen == IF Heads = {} THEN 0..RecvSize ELSE {sent[i].len : i \in Heads}

-------------------------------------------------------------------------------
(* Slips this code could have, each used to show that a property notices it. *)
InRangeNoHead(len) == len > 0 /\ len <= RecvSize

CompleteStrictly(len) == packet_len > cursor + HeadLen + len

LookAtTwo == packet_len > cursor + HeadLen + 1

LeaveDropsRest == /\ readBuffer' = <<>>
                  /\ cursor' = 0
                  /\ rpc' = "idle"

DisconnectForgotten == status' = status

-------------------------------------------------------------------------------
(* The sender: framed messages, or bytes as they are, never both. *)
PathWrite(n) == /\ ~is_parse_package_
                /\ Write(n)
                /\ UNCHANGED sent

PathWriteMsg(n) == /\ is_parse_package_
                   /\ WriteMsg(n)
                   /\ sent' = Append(sent, [pos |-> accepted + HeadLen, len |-> n])

Sender == /\ \/ /\ FillStep \/ FillDone \/ FillVector \/ \E n \in 0..TotalSize : Remove(n)
                /\ UNCHANGED sent
             \/ \E n \in 1..MaxLen : PathWrite(n)
             \/ \E n \in 0..MaxLen : HeadLen + n <= MaxLen /\ PathWriteMsg(n)
          /\ UNCHANGED <<is_parse_package_, recvVars>>

-------------------------------------------------------------------------------
(* HandleReadComplete: recv takes some of what TCP has, as much as fits. *)
Recv(bytes) == /\ rpc = "idle"
               /\ status # "closing"
               /\ bytes <= RecvSpace
               /\ bytes <= Len(wire) - taken
               /\ readBuffer' = readBuffer \o SubSeq(wire, taken + 1, taken + bytes)
               /\ taken' = taken + bytes
               /\ rpc' = "parse"
               /\ UNCHANGED <<cursor, status, delivered>>

(* OnRead without packages hands over all there is.  Plain bytes have no      *)
(* boundaries to keep: each counts as a message of its own.                   *)
DeliverRaw == /\ rpc = "parse"
              /\ ~is_parse_package_
              /\ delivered' = delivered \o [k \in 1..packet_len |-> <<readBuffer[k]>>]
              /\ readBuffer' = <<>>
              /\ rpc' = "idle"
              /\ UNCHANGED <<taken, cursor, status>>

(* Another turn of the loop: "a body is never empty, hence >". *)
LookAgain == packet_len > cursor + HeadLen

InRange(len) == len > 0 /\ len <= RecvSize - HeadLen

Complete(len) == packet_len >= cursor + HeadLen + len

(* The loop is left and the bytes done with are removed. *)
Leave == /\ readBuffer' = SubSeq(readBuffer, cursor + 1, packet_len)
         /\ cursor' = 0
         /\ rpc' = "idle"

Disconnect == status' = IF status = "connectted" THEN "queued" ELSE status

Deliver(len) == /\ delivered' = Append(delivered,
                       SubSeq(readBuffer, cursor + HeadLen + 1, cursor + HeadLen + len))
                /\ cursor' = cursor + HeadLen + len

OnRead == /\ rpc = "parse"
          /\ is_parse_package_
          /\ UNCHANGED taken
          /\ \/ ~LookAgain /\ Leave /\ UNCHANGED <<status, delivered>>
             \/ /\ LookAgain
                /\ \E len \in PacketLen :
                     \/ ~InRange(len) /\ Disconnect /\ Leave /\ UNCHANGED delivered
                     \/ /\ InRange(len) /\ Complete(len)
                        /\ Deliver(len)
                        /\ UNCHANGED <<readBuffer, status, rpc>>
                     \/ /\ InRange(len) /\ ~Complete(len)
                        /\ Leave
                        /\ UNCHANGED <<status, delivered>>

(* The CLOSE event is taken from the queue: no more reads. *)
HandleClose == /\ rpc = "idle"
               /\ status = "queued"
               /\ status' = "closing"
               /\ UNCHANGED <<taken, readBuffer, cursor, rpc, delivered>>

Receiver == /\ \/ \E bytes \in 1..RecvSize : Recv(bytes)
               \/ DeliverRaw \/ OnRead \/ HandleClose
            /\ UNCHANGED <<is_parse_package_, sendVars>>

PathNext == Sender \/ Receiver

PathSpec == PathInit /\ [][PathNext]_pathVars

(* Both work threads go on, and TCP delivers. *)
PathFairness == /\ WF_pathVars(Sender /\ (FillStep \/ FillDone))
                /\ SF_pathVars(Sender /\ \E n \in 1..TotalSize : Remove(n))
                /\ WF_pathVars(Receiver)

FairPathSpec == PathSpec /\ PathFairness

-------------------------------------------------------------------------------
(* The types of the receiver's state; the parser stays inside its buffer. *)
PathTypeOK == /\ TypeOK
              /\ is_parse_package_ \in BOOLEAN
              /\ sent \in Seq([pos : Nat, len : Nat])
              /\ taken \in Nat /\ taken <= Len(wire)
              /\ readBuffer \in Seq(Nat)
              /\ packet_len <= RecvSize
              /\ cursor \in 0..packet_len
              /\ rpc = "idle" => cursor = 0
              /\ status \in {"connectted", "queued", "closing"}
              /\ rpc \in {"idle", "parse"}
              /\ delivered \in Seq(Seq(Nat))

Body(m) == [k \in 1..m.len |-> m.pos + k]

(* A message the receiver takes for an error: empty, or longer than its       *)
(* buffer.                                                                    *)
Bad(m) == ~InRange(m.len)

Channel == INSTANCE MessageChannel
             WITH sent <- IF is_parse_package_ THEN [i \in 1..Len(sent) |-> Body(sent[i])]
                          ELSE [i \in 1..accepted |-> <<i>>],
                  got <- delivered

(* SendMsg to OnRead: the callback gets whole messages, each once, in the     *)
(* order sent, however TCP cuts the stream and whatever cannot be delivered;  *)
(* without packages it gets the bytes in their order.                         *)
ChannelImplemented == Channel!ChannelSpec

(* OnRead leaves nothing lying: between two recv calls the read buffer does   *)
(* not hold a whole message that could have been handed over.                 *)
Prompt == (is_parse_package_ /\ rpc = "idle" /\ status = "connectted" /\ Len(delivered) < Len(sent))
    => LET m == sent[Len(delivered) + 1] IN Bad(m) \/ taken < m.pos + m.len

(* HandleReadComplete gives up for good when there is no space: the limit on  *)
(* a message makes sure that a full buffer always has something to hand over. *)
NeverFull == (rpc = "idle" /\ status = "connectted") => RecvSpace > 0

(* Every message is handed over, unless it waits behind one that is too long  *)
(* for the sender's buffer, or behind one that the receiver takes for an      *)
(* error.                                                                     *)
MessagesArrive == \A i \in 1..MaxBytes :
    (is_parse_package_ /\ Len(sent) >= i)
        ~> (Len(delivered) >= i \/ Blocked \/ \E j \in DOMAIN sent : j <= i /\ Bad(sent[j]))

(* A message with an empty body, or too long a one, is noticed as soon as one *)
(* byte follows its head: the connection is closed.                           *)
BadEndsConnection ==
    (is_parse_package_ /\ \E i \in DOMAIN sent : Bad(sent[i]) /\ Len(wire) > sent[i].pos)
        ~> status = "closing"
===============================================================================
