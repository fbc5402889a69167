------------------------------ MODULE ByteStream ------------------------------
(* What a sender promises its peer: an ordered byte stream.  A byte is named  *)
(* by its position in the order in which the program handed it over, so the   *)
(* promise "nothing lost, nothing duplicated, nothing reordered" reads: the   *)
(* i-th byte on the wire is byte i, and only accepted bytes are transmitted.  *)
EXTENDS Naturals, Sequences

VARIABLES accepted,     \* how many bytes the program has handed over
          wire          \* the bytes given to the peer, in order

streamVars == <<accepted, wire>>

StreamInit == accepted = 0 /\ wire = <<>>

(* The program hands over some more bytes. *)
Accept == /\ accepted' \in Nat
          /\ accepted' > accepted
          /\ UNCHANGED wire

(* The next k accepted bytes go out. *)
Transmit(k) == /\ wire' = wire \o [i \in 1..k |-> Len(wire) + i]
               /\ UNCHANGED accepted

StreamNext == Accept \/ \E k \in 1..(accepted - Len(wire)) : Transmit(k)

StreamSpec == StreamInit /\ [][StreamNext]_streamVars
===============================================================================
