---------------------------- MODULE ReliableChannel ----------------------------
(***************************************************************************)
(* One direction of a pair of ReliableChannel objects (reliable_stream.py) *)
(* talking over the UDP relay: the sending half of one peer, the receiving *)
(* half of the other.  A channel object holds both halves, but its two     *)
(* halves share no state, so the other direction is another copy of this.  *)
(*                                                                         *)
(* RelayPeerSession calls every method with its lock held, from the        *)
(* application thread (send, tick_retransmit, pop_delivered) or from the   *)
(* reader thread (ingest), so a method call is one step.                   *)
(*                                                                         *)
(* A datagram that is on the wire stays there until it is lost, and may be *)
(* ingested any number of times in any order meanwhile: the wire loses,    *)
(* duplicates, delays and reorders.                                        *)
(***************************************************************************)
EXTENDS Naturals, Sequences

CONSTANTS
    Payload,    \* what the application sends
    MaxSeq      \* bound: the application sends at most this many payloads

ASSUME MaxSeqAssumption == MaxSeq \in Nat

VARIABLES
    sent,         \* history: the payloads handed to send(), in order
    nextSendSeq,  \* _next_send_seq
    unacked,      \* _unacked, as the set of REL datagrams it can resend
    expected,     \* _expected
    buffered,     \* _buffered, as the set of REL datagrams held back
    pendingNak,   \* _pending_nak
    delivered,    \* _delivered, not yet popped
    popped,       \* history: what pop_delivered() has returned, in order
    rels,         \* REL datagrams on the wire
    naks,         \* NAK datagrams on the wire: each a set of sequence numbers
    acks          \* ACK datagrams on the wire: each a sequence number

senderVars   == <<sent, nextSendSeq, unacked>>
receiverVars == <<expected, buffered, pendingNak, delivered, popped>>
wireVars     == <<rels, naks, acks>>
vars         == <<senderVars, receiverVars, wireVars>>

SeqNo == 1 .. MaxSeq
Rel   == [seq : SeqNo, payload : Payload]

Init ==
    /\ sent = <<>> /\ nextSendSeq = 1 /\ unacked = {}
    /\ expected = 1 /\ buffered = {} /\ pendingNak = {}
    /\ delivered = <<>> /\ popped = <<>>
    /\ rels = {} /\ naks = {} /\ acks = {}

--------------------------------------------------------------------------------
(* The sending half *)

Send(p) ==
    LET rel == [seq |-> nextSendSeq, payload |-> p]
    IN  /\ nextSendSeq <= MaxSeq
        /\ sent' = Append(sent, p)
        /\ nextSendSeq' = nextSendSeq + 1
        /\ unacked' = unacked \cup {rel}
        /\ rels' = rels \cup {rel}
        /\ UNCHANGED <<receiverVars, naks, acks>>

\* Variant: the tick resends only what a NAK asked for.
TickResendsNaked ==
    /\ unacked # {}
    /\ rels' = rels \cup {m \in unacked : \E missing \in naks : m.seq \in missing}
    /\ UNCHANGED <<senderVars, receiverVars, naks, acks>>

TickRetransmit ==
    /\ unacked # {}
    /\ rels' = rels \cup unacked
    /\ UNCHANGED <<senderVars, receiverVars, naks, acks>>

IngestNak(missing) ==
    /\ missing \in naks
    /\ rels' = rels \cup {m \in unacked : m.seq \in missing}
    /\ UNCHANGED <<senderVars, receiverVars, naks, acks>>

IngestAck(highest) ==
    /\ highest \in acks
    /\ unacked' = {m \in unacked : m.seq > highest}
    /\ UNCHANGED <<sent, nextSendSeq, receiverVars, wireVars>>

--------------------------------------------------------------------------------
(* The receiving half: the three cases of _ingest_rel *)

HeldSeqs == {m.seq : m \in buffered}

\* Already delivered: dropped, and not acknowledged again.
IngestOld(rel) ==
    /\ rel \in rels
    /\ rel.seq < expected
    /\ pendingNak' = pendingNak \ {rel.seq}
    /\ UNCHANGED <<senderVars, expected, buffered, delivered, popped, wireVars>>

\* Variant: the loop that drains the buffer forgets to advance _expected.
ExpectedNotAdvanced(rel) ==
    /\ rel \in rels
    /\ rel.seq = expected
    /\ \E gap \in (expected + 1) .. (MaxSeq + 1) :
        LET run == expected .. (gap - 1)
            payloadOf(s) == (CHOOSE m \in buffered \cup {rel} : m.seq = s).payload
        IN  /\ gap \notin HeldSeqs
            /\ run \ {expected} \subseteq HeldSeqs
            /\ delivered' = delivered
                    \o [i \in 1 .. (gap - expected) |-> payloadOf(expected + i - 1)]
            /\ expected' = expected + 1
            /\ buffered' = {m \in buffered : m.seq \notin run}
            /\ pendingNak' = pendingNak \ run
            /\ acks' = acks \cup {expected}
    /\ UNCHANGED <<senderVars, popped, rels, naks>>

\* Variant: the ACK carries _expected instead of _expected - 1.
AcksExpected(rel) ==
    /\ rel \in rels
    /\ rel.seq = expected
    /\ expected + 1 \notin HeldSeqs
    /\ delivered' = Append(delivered, rel.payload)
    /\ expected' = expected + 1
    /\ pendingNak' = pendingNak \ {expected}
    /\ acks' = acks \cup {expected + 1}
    /\ UNCHANGED <<senderVars, buffered, popped, rels, naks>>

\* Variant: the drained numbers keep their NAK.
KeepsDrainedNaks(rel) ==
    /\ rel \in rels
    /\ rel.seq = expected
    /\ \E gap \in (expected + 1) .. (MaxSeq + 1) :
        LET run == expected .. (gap - 1)
            payloadOf(s) == (CHOOSE m \in buffered \cup {rel} : m.seq = s).payload
        IN  /\ gap \notin HeldSeqs
            /\ run \ {expected} \subseteq HeldSeqs
            /\ delivered' = delivered
                    \o [i \in 1 .. (gap - expected) |-> payloadOf(expected + i - 1)]
            /\ expected' = gap
            /\ buffered' = {m \in buffered : m.seq \notin run}
            /\ pendingNak' = pendingNak \ {expected}
            /\ acks' = acks \cup {gap - 1}
    /\ UNCHANGED <<senderVars, popped, rels, naks>>

\* The expected one: it and the run of held datagrams that follows it, up to the
\* first gap, are delivered; one cumulative ACK is sent.
IngestExpected(rel) ==
    /\ rel \in rels
    /\ rel.seq = expected
    /\ \E gap \in (expected + 1) .. (MaxSeq + 1) :
        LET run == expected .. (gap - 1)
            payloadOf(s) == (CHOOSE m \in buffered \cup {rel} : m.seq = s).payload
        IN  /\ gap \notin HeldSeqs
            /\ run \ {expected} \subseteq HeldSeqs
            /\ delivered' = delivered
                    \o [i \in 1 .. (gap - expected) |-> payloadOf(expected + i - 1)]
            /\ expected' = gap
            /\ buffered' = {m \in buffered : m.seq \notin run}
            /\ pendingNak' = pendingNak \ run
            /\ acks' = acks \cup {gap - 1}
    /\ UNCHANGED <<senderVars, popped, rels, naks>>

\* Variant: the missing range starts one too early.
NaksOneTooMany(rel) ==
    /\ rel \in rels
    /\ rel.seq > expected
    /\ LET missing == (expected - 1) .. (rel.seq - 1)
       IN  /\ buffered' = {m \in buffered : m.seq # rel.seq} \cup {rel}
           /\ pendingNak' = pendingNak \cup missing
           /\ naks' = naks \cup {missing}
    /\ UNCHANGED <<senderVars, expected, delivered, popped, rels, acks>>

\* Ahead of the expected one: held, and the whole range below it is NAKed.
IngestAhead(rel) ==
    /\ rel \in rels
    /\ rel.seq > expected
    /\ LET missing == expected .. (rel.seq - 1)
       IN  /\ buffered' = {m \in buffered : m.seq # rel.seq} \cup {rel}
           /\ pendingNak' = pendingNak \cup missing
           /\ naks' = naks \cup {missing}
    /\ UNCHANGED <<senderVars, expected, delivered, popped, rels, acks>>

IngestRel(rel) == IngestOld(rel) \/ IngestExpected(rel) \/ IngestAhead(rel)

\* Variant: _delivered is returned but not replaced by an empty list.
PopsTwice ==
    /\ delivered # <<>>
    /\ popped' = popped \o delivered
    /\ UNCHANGED <<senderVars, expected, buffered, pendingNak, delivered, wireVars>>

PopDelivered ==
    /\ delivered # <<>>
    /\ popped' = popped \o delivered
    /\ delivered' = <<>>
    /\ UNCHANGED <<senderVars, expected, buffered, pendingNak, wireVars>>

--------------------------------------------------------------------------------
(* The wire *)

LoseRel(rel) == rel \in rels /\ rels' = rels \ {rel}
                /\ UNCHANGED <<senderVars, receiverVars, naks, acks>>
LoseNak(missing) == missing \in naks /\ naks' = naks \ {missing}
                /\ UNCHANGED <<senderVars, receiverVars, rels, acks>>
LoseAck(highest) == highest \in acks /\ acks' = acks \ {highest}
                /\ UNCHANGED <<senderVars, receiverVars, rels, naks>>

Next ==
    \/ \E p \in Payload : Send(p)
    \/ TickRetransmit
    \/ \E rel \in rels : IngestRel(rel) \/ LoseRel(rel)
    \/ \E missing \in naks : IngestNak(missing) \/ LoseNak(missing)
    \/ \E highest \in acks : IngestAck(highest) \/ LoseAck(highest)
    \/ PopDelivered

Spec == Init /\ [][Next]_vars

\* A caller that keeps ticking and popping, over a wire that cannot lose for ever
\* a payload that is sent for ever (see the README for why each is justified).  No
\* NAK and no ACK need ever arrive.
Fairness ==
    /\ WF_vars(TickRetransmit)
    /\ WF_vars(PopDelivered)
    /\ \A rel \in Rel : SF_vars(IngestRel(rel))

FairSpec == Spec /\ Fairness

--------------------------------------------------------------------------------
(* Properties *)

TypeOK ==
    /\ sent \in Seq(Payload) /\ nextSendSeq \in 1 .. (MaxSeq + 1)
    /\ unacked \subseteq Rel
    /\ expected \in 1 .. (MaxSeq + 1)
    /\ buffered \subseteq Rel /\ pendingNak \subseteq SeqNo
    /\ delivered \in Seq(Payload) /\ popped \in Seq(Payload)
    /\ rels \subseteq Rel /\ naks \subseteq SUBSET SeqNo /\ acks \subseteq SeqNo

\* What the application has popped and is about to pop is exactly what was sent, in
\* order, up to the last sequence number the receiver has passed - whatever the wire
\* did (ingest, reliable_stream.py:94-135).
InOrderExactlyOnce ==
    popped \o delivered = SubSeq(sent, 1, expected - 1)

\* The sender forgets a payload only when the receiver has it in its in-order
\* output: "everything < expected is safe" (reliable_stream.py:119).  Whatever the
\* receiver still waits for can be sent again.
ForgottenIsDelivered ==
    \A s \in 1 .. (nextSendSeq - 1) :
        s >= expected => \E m \in unacked : m.seq = s /\ m.payload = sent[s]

\* A NAK is outstanding only for something the receiver has yet to deliver
\* (reliable_stream.py:113-117 discards it on every delivery).
NakIsForAGap == \A s \in pendingNak : expected <= s /\ s < nextSendSeq

\* Everything sent is eventually handed to the application: tick_retransmit is the
\* "tail-loss recovery" (reliable_stream.py:62-65) of a caller that has nothing more
\* to send.
EventuallyPopped ==
    \A n \in SeqNo : (Len(sent) >= n) ~> (Len(popped) >= n)

\* The abstract specification, with what has been popped as what was received.
Fifo == INSTANCE FifoDelivery WITH received <- popped

\* Every step of the channel is a step of FifoDelivery or changes nothing it sees:
\* pop_delivered() (reliable_stream.py:150-153) only ever hands over the next
\* payloads sent, whatever loss, duplication and reordering came before.
ImplementsFifo == Fifo!Spec
================================================================================
