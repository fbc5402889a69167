-------------------------------- MODULE Duplex --------------------------------
(* Two crossover servers on the two ends of one established connection.       *)
(* Each end is a connected Socket of SocketMgr, reduced to its write side and *)
(* the events it waits for; the kernel holds at most Room messages that one   *)
(* end has sent and the other has not read.  SocketMgr's NoMissedInput and    *)
(* LockArmed let a socket that waits for an event be told of it whenever it   *)
(* holds, edge triggered or not.                                              *)
EXTENDS Naturals, FiniteSets

CONSTANTS Ends,     \* the two ends
          Talkers,  \* the ends whose Lua program sends
          Room,     \* capacity of the kernel buffers of one direction
          MaxSends  \* bound: messages one end sends

ASSUME DuplexAssumption == /\ Cardinality(Ends) = 2
                           /\ Talkers \subseteq Ends
                           /\ Room \in Nat \ {0}
                           /\ MaxSends \in Nat

VARIABLES unsent,      \* messages in the write buffer of each end
          write_lock_, \* the send lock of each end
          interest,    \* the events each end waits for
          delayed,     \* a DELAY_SEND event is queued at this end
          transit,     \* messages this end sent that the other has not read
          sent         \* messages the Lua program of each end has sent

vars == <<unsent, write_lock_, interest, delayed, transit, sent>>

Other(e) == CHOOSE o \in Ends : o # e

(* Accepted or connected: EPOLLIN only. *)
Init == /\ unsent = [e \in Ends |-> 0]
        /\ write_lock_ = [e \in Ends |-> 0]
        /\ interest = [e \in Ends |-> {"IN"}]
        /\ delayed = [e \in Ends |-> FALSE]
        /\ transit = [e \in Ends |-> 0]
        /\ sent = [e \in Ends |-> 0]

-------------------------------------------------------------------------------
(* Slips this code could have, each used to show that a property notices it. *)
HandleCanWriteReadOnly(e) ==
    /\ "OUT" \in interest[e]
    /\ transit[e] < Room
    /\ write_lock_[e] > 0
    /\ \E n \in 0..unsent[e] :
         /\ n = unsent[e] \/ transit[e] + n = Room
         /\ transit[e] + n <= Room
         /\ unsent' = [unsent EXCEPT ![e] = @ - n]
         /\ transit' = [transit EXCEPT ![e] = @ + n]
         /\ write_lock_' = [write_lock_ EXCEPT ![e] = IF n = unsent[e] THEN @ - 1 ELSE @]
         /\ interest' = [interest EXCEPT ![e] = {"IN"}]
    /\ UNCHANGED <<delayed, sent>>

-------------------------------------------------------------------------------
(* BurstPush: with the send lock, wait for EPOLLOUT and nothing else. *)
BurstPush(e) ==
    IF write_lock_[e] = 0
    THEN /\ write_lock_' = [write_lock_ EXCEPT ![e] = @ + 1]
         /\ interest' = [interest EXCEPT ![e] = {"OUT"}]
    ELSE UNCHANGED <<write_lock_, interest>>

(* SocketMgr::Send. *)
Send(e) == /\ e \in Talkers
           /\ sent[e] < MaxSends
           /\ sent' = [sent EXCEPT ![e] = @ + 1]
           /\ unsent' = [unsent EXCEPT ![e] = @ + 1]
           /\ delayed' = [delayed EXCEPT ![e] = TRUE]
           /\ UNCHANGED <<write_lock_, interest, transit>>

HandleDelaySend(e) ==
    /\ delayed[e]
    /\ delayed' = [delayed EXCEPT ![e] = FALSE]
    /\ IF unsent[e] > 0 THEN BurstPush(e) ELSE UNCHANGED <<write_lock_, interest>>
    /\ UNCHANGED <<unsent, transit, sent>>

(* HandleReadComplete: recv() until the kernel has no more, then push what    *)
(* there is to send.                                                          *)
HandleReadComplete(e) ==
    /\ "IN" \in interest[e]
    /\ transit[Other(e)] > 0
    /\ transit' = [transit EXCEPT ![Other(e)] = 0]
    /\ IF unsent[e] > 0 THEN BurstPush(e) ELSE UNCHANGED <<write_lock_, interest>>
    /\ UNCHANGED <<unsent, delayed, sent>>

(* HandleCanWrite: send() until the buffer is empty or the kernel takes no    *)
(* more.  Data that was left keeps EPOLLIN on as well as EPOLLOUT.            *)
HandleCanWrite(e) ==
    /\ "OUT" \in interest[e]
    /\ transit[e] < Room
    /\ write_lock_[e] > 0
    /\ \E n \in 0..unsent[e] :
         /\ n = unsent[e] \/ transit[e] + n = Room
         /\ transit[e] + n <= Room
         /\ unsent' = [unsent EXCEPT ![e] = @ - n]
         /\ transit' = [transit EXCEPT ![e] = @ + n]
         /\ write_lock_' = [write_lock_ EXCEPT ![e] = IF n = unsent[e] THEN @ - 1 ELSE @]
         /\ interest' = [interest EXCEPT ![e] =
                IF n = unsent[e] THEN {"IN"} ELSE {"IN", "OUT"}]
    /\ UNCHANGED <<delayed, sent>>

Loop(e) == HandleDelaySend(e) \/ HandleReadComplete(e) \/ HandleCanWrite(e)

Next == \E e \in Ends : Send(e) \/ Loop(e)

Spec == Init /\ [][Next]_vars

(* The event loop of each server keeps running. *)
FairSpec == Spec /\ \A e \in Ends : WF_vars(Loop(e))

-------------------------------------------------------------------------------
(* HandleCanWrite after a partial send, BurstPush and PostEvent: what one end  *)
(* has put in its write buffer gets out, while the other end runs its loop.   *)
Flows == \A e \in Ends : unsent[e] > 0 ~> unsent[e] = 0
===============================================================================
