------------------------------ MODULE FifoDelivery ------------------------------
(***************************************************************************)
(* What ReliableChannel promises: "Delivered payloads come out of          *)
(* pop_delivered() in sequence order" (reliable_stream.py:4) - each payload *)
(* sent comes out at most once, none is skipped, none is invented.         *)
(***************************************************************************)
EXTENDS Naturals, Sequences

CONSTANT Payload

VARIABLES sent, received

Init == sent = <<>> /\ received = <<>>

Accept(p) == sent' = Append(sent, p) /\ UNCHANGED received

\* One call of pop_delivered() hands over any number of payloads.
HandOver(upTo) ==
    /\ upTo > Len(received)
    /\ received' = SubSeq(sent, 1, upTo)
    /\ UNCHANGED sent

Next ==
    \/ \E p \in Payload : Accept(p)
    \/ \E upTo \in 1 .. Len(sent) : HandOver(upTo)

Spec == Init /\ [][Next]_<<sent, received>>
================================================================================
