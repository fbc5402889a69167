---------------------------- MODULE SequenceBuffer ----------------------------
(* engine/sequence_buffer.cpp: the write buffer of a connection.              *)
(*                                                                            *)
(* A message that does not fit behind the bytes already in buffer_ is kept    *)
(* whole in delay_buff_list_ and moved in, oldest first, by FillVector, which *)
(* Write and Remove run on every call and the socket handlers run on their    *)
(* own.  The socket drains buffer_ from the front with send() (external: the  *)
(* kernel takes any prefix of what it is offered).                            *)
(*                                                                            *)
(* A byte is named by its position in the order of acceptance.  The loop of   *)
(* FillVector is one step per iteration; while it runs (pc = "fill") nothing  *)
(* else can, because every caller is on the work thread.                      *)
EXTENDS Naturals, Sequences

CONSTANTS TotalSize,    \* total_size_, given by Allocate
          HeadLen,      \* the length prefix SendMsg puts before a body (4)
          MaxLen,       \* longest message of this instance, prefix included
          SendLimit,    \* the 1000000 byte limit of one send()
          MaxBytes      \* bound: bytes handed over in one behaviour

ASSUME SizesAssumption == /\ TotalSize \in Nat \ {0}
                          /\ HeadLen \in Nat \ {0}
                          /\ MaxLen \in Nat \ {0}
                          /\ SendLimit \in Nat \ {0}
                          /\ MaxBytes \in Nat

VARIABLES buffer_,           \* the first len_ bytes of the array
          delay_buff_list_,  \* waiting messages: [pos, len], bytes pos+1..pos+len
          pc,                \* "ready" or "fill": inside FillVector
          todo,              \* bytes Write appends once FillVector is through
          accepted,          \* bytes handed over so far (also names them)
          wire               \* bytes the kernel has taken, in order

vars == <<buffer_, delay_buff_list_, pc, todo, accepted, wire>>

Message == [pos : Nat, len : Nat \ {0}]

GetSize == Len(buffer_)

GetSpace == TotalSize - GetSize

(* The bytes of a message, as memcpy lays them out. *)
Bytes(m) == [i \in 1..m.len |-> m.pos + i]

(* The message being written: the last todo bytes accepted. *)
Current == [pos |-> accepted - todo, len |-> todo]

Allocate == /\ buffer_ = <<>>
            /\ delay_buff_list_ = <<>>
            /\ pc = "ready"
            /\ todo = 0
            /\ accepted = 0
            /\ wire = <<>>

-------------------------------------------------------------------------------
(* Slips this code could have, each used to show that a property notices it. *)
HeadAlwaysFits == delay_buff_list_ # <<>>

FitsNowOvertaking == ~(GetSpace < todo)

FillDoneTodoKept == /\ pc = "fill"
                    /\ pc' = "ready"
                    /\ UNCHANGED <<buffer_, delay_buff_list_, todo, accepted, wire>>

RemoveNoRefill(bytes) == /\ pc = "ready"
                         /\ bytes <= GetSize /\ bytes <= SendLimit
                         /\ wire' = wire \o SubSeq(buffer_, 1, bytes)
                         /\ buffer_' = SubSeq(buffer_, bytes + 1, GetSize)
                         /\ UNCHANGED <<delay_buff_list_, pc, todo, accepted>>

RemoveNoShift(bytes) == /\ pc = "ready"
                        /\ bytes <= GetSize /\ bytes <= SendLimit
                        /\ wire' = wire \o SubSeq(buffer_, 1, bytes)
                        /\ buffer_' = SubSeq(buffer_, 1, GetSize - bytes)
                        /\ pc' = "fill"
                        /\ UNCHANGED <<delay_buff_list_, todo, accepted>>

-------------------------------------------------------------------------------
(* One iteration of FillVector: the oldest waiting message fits. *)
HeadFits == /\ delay_buff_list_ # <<>>
            /\ ~(GetSpace < Head(delay_buff_list_).len)

FillStep == /\ pc = "fill"
            /\ HeadFits
            /\ buffer_' = buffer_ \o Bytes(Head(delay_buff_list_))
            /\ delay_buff_list_' = Tail(delay_buff_list_)
            /\ UNCHANGED <<pc, todo, accepted, wire>>

(* FillVector returned true, and the message fits behind the rest. *)
FitsNow == delay_buff_list_ = <<>> /\ ~(GetSpace < todo)

(* FillVector returns; Write appends its message or puts it last in line. *)
FillDone == /\ pc = "fill"
            /\ ~HeadFits
            /\ pc' = "ready"
            /\ todo' = 0
            /\ \/ /\ todo = 0
                  /\ UNCHANGED <<buffer_, delay_buff_list_>>
               \/ /\ todo > 0
                  /\ FitsNow
                  /\ buffer_' = buffer_ \o Bytes(Current)
                  /\ UNCHANGED delay_buff_list_
               \/ /\ todo > 0
                  /\ ~FitsNow
                  /\ delay_buff_list_' = Append(delay_buff_list_, Current)
                  /\ UNCHANGED buffer_
            /\ UNCHANGED <<accepted, wire>>

(* Entering FillVector with n bytes to append afterwards. *)
StartWrite(n) == /\ pc = "ready"
                 /\ accepted + n <= MaxBytes
                 /\ pc' = "fill"
                 /\ todo' = n
                 /\ accepted' = accepted + n
                 /\ UNCHANGED <<buffer_, delay_buff_list_, wire>>

(* Socket::Send writes the caller's bytes as they are. *)
Write(bytes) == StartWrite(bytes)

(* Socket::SendMsg writes a length prefix and a body as one message. *)
WriteMsg(body_len) == StartWrite(HeadLen + body_len)

(* HandleReadComplete, HandleCanWrite and HandleDelaySend refill. *)
FillVector == /\ pc = "ready"
              /\ pc' = "fill"
              /\ UNCHANGED <<buffer_, delay_buff_list_, todo, accepted, wire>>

(* One turn of WriteCallback: the kernel takes the first bytes of what it is *)
(* offered, and Remove shifts the rest to the front and refills.             *)
Remove(bytes) == /\ pc = "ready"
                 /\ GetSize > 0
                 /\ bytes <= GetSize /\ bytes <= SendLimit
                 /\ wire' = wire \o SubSeq(buffer_, 1, bytes)
                 /\ buffer_' = SubSeq(buffer_, bytes + 1, GetSize)
                 /\ pc' = "fill"
                 /\ UNCHANGED <<delay_buff_list_, todo, accepted>>

Next == \/ FillStep
        \/ FillDone
        \/ FillVector
        \/ \E n \in 1..MaxLen : Write(n)
        \/ \E n \in 0..MaxLen : HeadLen + n <= MaxLen /\ WriteMsg(n)
        \/ \E n \in 0..TotalSize : Remove(n)

Spec == Allocate /\ [][Next]_vars

-------------------------------------------------------------------------------
(* The types of the fields; outside Write no bytes are in transit to buffer_. *)
TypeOK == /\ buffer_ \in Seq(Nat)
          /\ delay_buff_list_ \in Seq(Message)
          /\ pc \in {"ready", "fill"}
          /\ todo \in Nat
          /\ accepted \in Nat
          /\ todo <= accepted
          /\ pc = "ready" => todo = 0
          /\ wire \in Seq(Nat)

(* memcpy never runs past the end of the array Allocate made. *)
Capacity == GetSize <= TotalSize

(* Where the i-th waiting message must start for the stream to be whole. *)
DelayStart(i) == IF i = 1 THEN Len(wire) + GetSize
                 ELSE delay_buff_list_[i-1].pos + delay_buff_list_[i-1].len

(* Where everything stored so far ends. *)
StoredEnd == LET n == Len(delay_buff_list_)
             IN IF n = 0 THEN Len(wire) + GetSize
                ELSE delay_buff_list_[n].pos + delay_buff_list_[n].len

(* FIFO, exactly once: the wire, then buffer_, then the waiting messages,    *)
(* then the message being written spell out every accepted byte in order.    *)
(* Write, WriteMsg, FillVector and Remove together must keep this, whatever  *)
(* prefixes send() takes.                                                    *)
InOrder == /\ \A i \in 1..Len(wire) : wire[i] = i
           /\ \A i \in 1..GetSize : buffer_[i] = Len(wire) + i
           /\ \A i \in 1..Len(delay_buff_list_) :
                 delay_buff_list_[i].pos = DelayStart(i)
           /\ StoredEnd + todo = accepted

(* Between calls a message waits only because it does not fit: FillVector    *)
(* left no room unused that the head of the line could have had.             *)
EagerFill == pc = "ready" /\ delay_buff_list_ # <<>>
                => Head(delay_buff_list_).len > GetSpace

(* A message longer than the buffer reached the head of the line. *)
Blocked == delay_buff_list_ # <<>> /\ Head(delay_buff_list_).len > TotalSize

(* HandleCanWrite gives up the send lock when GetSize() = 0.  That is right   *)
(* only if nothing waits behind an empty buffer_; a message longer than the   *)
(* buffer is the one exception.                                               *)
EmptyMeansDrained == pc = "ready" /\ GetSize = 0 => delay_buff_list_ = <<>> \/ Blocked

(* Write accepts a message longer than the buffer (it always returns true),   *)
(* but nothing ever moves it, nor anything accepted after it, to the wire.    *)
OversizeBlocksForever ==
    [][Blocked => Blocked' /\ delay_buff_list_'[1] = delay_buff_list_[1]]_vars

Stream == INSTANCE ByteStream

(* The write path implements an ordered byte stream: nothing lost, doubled or *)
(* reordered between Send/SendMsg and the kernel.                             *)
StreamImplemented == Stream!StreamSpec
===============================================================================
