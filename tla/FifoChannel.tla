---------------------------- MODULE FifoChannel -----------------------------
(***************************************************************************)
(* What a reliable ATEM link promises: the items handed to one end come    *)
(* out of the other, each once, in the order they were handed in.          *)
(***************************************************************************)
EXTENDS Naturals, Sequences

CONSTANT Item

VARIABLES sent, delivered

vars == <<sent, delivered>>

Init == sent = <<>> /\ delivered = <<>>

Send(x) == sent' = Append(sent, x) /\ UNCHANGED delivered

Deliver ==
    /\ Len(delivered) < Len(sent)
    /\ delivered' = Append(delivered, sent[Len(delivered) + 1])
    /\ UNCHANGED sent

Next == Deliver \/ \E x \in Item : Send(x)

Spec == Init /\ [][Next]_vars
=============================================================================
