----------------------------- MODULE LossyFifo -----------------------------
(* What the way from the watcher to the sync engine promises: messages are  *)
(* delivered in the order they were sent, none twice and none that was not  *)
(* sent; any message on its way may be lost.                                *)
EXTENDS Naturals, Sequences

VARIABLES sent, transit, received

vars == <<sent, transit, received>>

Init == sent = <<>> /\ transit = <<>> /\ received = <<>>

\* Any message may be sent; the one that was is the new end of sent.
Send ==
    /\ Len(sent') > Len(sent)
    /\ LET m == sent'[Len(sent')]
       IN  sent' = Append(sent, m) /\ transit' = Append(transit, m)
    /\ UNCHANGED received

Lose ==
    \E i \in 1..Len(transit) :
        /\ transit' = SubSeq(transit, 1, i-1) \o SubSeq(transit, i+1, Len(transit))
        /\ UNCHANGED <<sent, received>>

Deliver ==
    /\ transit # <<>>
    /\ received' = Append(received, Head(transit))
    /\ transit' = Tail(transit)
    /\ UNCHANGED sent

Next == Send \/ Lose \/ Deliver

Spec == Init /\ [][Next]_vars

\* s is what is left of t when some of its elements are taken out.
IsPartOf(s, t) ==
    \E at \in [1..Len(s) -> 1..Len(t)] :
        /\ \A i, j \in 1..Len(s) : i < j => at[i] < at[j]
        /\ \A i \in 1..Len(s) : s[i] = t[at[i]]

\* What was delivered, and what is still on its way, was sent in this order, and
\* no message is among them more often than it was sent.
InOrder == IsPartOf(received \o transit, sent)
=============================================================================
