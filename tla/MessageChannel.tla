---------------------------- MODULE MessageChannel ----------------------------
(* What SendMsg and the receive callback promise two Lua programs: messages   *)
(* arrive whole, in the order they were sent, each at most once.              *)
EXTENDS Naturals, Sequences

VARIABLES sent,  \* the messages handed over by the sender
          got    \* the messages the receive callback was given

channelVars == <<sent, got>>

ChannelInit == sent = <<>> /\ got = <<>>

SendSome == /\ Len(sent) < Len(sent')
            /\ SubSeq(sent', 1, Len(sent)) = sent
            /\ UNCHANGED got

ReceiveSome == /\ \E n \in Len(got) + 1..Len(sent) : got' = SubSeq(sent, 1, n)
               /\ UNCHANGED sent

ChannelSpec == ChannelInit /\ [][SendSome \/ ReceiveSome]_channelVars
===============================================================================
