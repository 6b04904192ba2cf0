------------------------- MODULE ReliableChannelProofs -------------------------
(***************************************************************************)
(* Type correctness and the safety properties of ReliableChannel, for      *)
(* every Payload and MaxSeq, and that it implements FifoDelivery.          *)
(***************************************************************************)
EXTENDS ReliableChannel, SequenceTheorems, TLAPS

\* Every datagram, wherever it is, carries what was sent under its number.
Genuine(m) == m.seq < nextSendSeq /\ m.payload = sent[m.seq]

\* InOrderExactlyOnce, element by element.
DeliveredIsSent ==
    /\ Len(popped) + Len(delivered) = expected - 1
    /\ \A i \in 1 .. Len(popped) : popped[i] = sent[i]
    /\ \A i \in 1 .. Len(delivered) : delivered[i] = sent[Len(popped) + i]

IInv ==
    /\ TypeOK
    /\ nextSendSeq = Len(sent) + 1
    /\ expected <= nextSendSeq
    /\ \A m \in unacked : Genuine(m)
    /\ \A m \in rels : Genuine(m)
    /\ \A m \in buffered : Genuine(m) /\ m.seq > expected
    /\ \A highest \in acks : highest < expected
    /\ ForgottenIsDelivered
    /\ NakIsForAGap
    /\ DeliveredIsSent

LEMMA InitIInv == Init => IInv
  BY MaxSeqAssumption DEF Init, IInv, TypeOK, Genuine, ForgottenIsDelivered,
     NakIsForAGap, DeliveredIsSent, SeqNo, Rel

LEMMA SendKeepsIInv == ASSUME IInv, NEW p \in Payload, Send(p) PROVE IInv'
<1> DEFINE rel == [seq |-> nextSendSeq, payload |-> p]
<1>. USE MaxSeqAssumption DEF IInv, Send, receiverVars
<1>1. rel \in Rel /\ rel.seq = nextSendSeq /\ rel.payload = p
  BY DEF TypeOK, Rel, SeqNo
<1>2. /\ sent' \in Seq(Payload) /\ Len(sent') = Len(sent) + 1
      /\ \A i \in 1 .. Len(sent) : sent'[i] = sent[i]
      /\ sent'[nextSendSeq] = p
  BY DEF TypeOK
<1>3. TypeOK'
  BY <1>1, <1>2 DEF TypeOK
<1>4. \A m \in Rel : Genuine(m) => Genuine(m)'
  BY <1>2 DEF TypeOK, Genuine, Rel, SeqNo
<1>5. \A m \in {rel} : Genuine(m)'
  BY <1>1, <1>2 DEF TypeOK, Genuine
<1>6. \A m \in unacked' : Genuine(m)'
  BY <1>4, <1>5 DEF TypeOK
<1>7. \A m \in rels' : Genuine(m)'
  BY <1>4, <1>5 DEF TypeOK
<1>8. \A m \in buffered' : Genuine(m)' /\ m.seq > expected'
  BY <1>4 DEF TypeOK
<1>9. ForgottenIsDelivered'
  <2> SUFFICES ASSUME NEW s \in 1 .. (nextSendSeq' - 1), s >= expected'
               PROVE  \E m \in unacked' : m.seq = s /\ m.payload = sent'[s]
    BY DEF ForgottenIsDelivered
  <2>1. CASE s = nextSendSeq
    BY <1>1, <1>2, <2>1
  <2>2. CASE s # nextSendSeq
    <3>1. s \in 1 .. (nextSendSeq - 1) /\ s >= expected /\ sent'[s] = sent[s]
      BY <1>2, <2>2 DEF TypeOK
    <3>2. PICK m \in unacked : m.seq = s /\ m.payload = sent[s]
      BY <3>1 DEF ForgottenIsDelivered
    <3>. QED BY <3>1, <3>2
  <2>. QED BY <2>1, <2>2
<1>10. NakIsForAGap'
  BY DEF TypeOK, NakIsForAGap, SeqNo
<1>11. DeliveredIsSent'
  BY <1>2 DEF TypeOK, DeliveredIsSent
<1>. QED
  BY <1>2, <1>3, <1>6, <1>7, <1>8, <1>9, <1>10, <1>11 DEF TypeOK

LEMMA RetransmitKeepsIInv ==
  ASSUME IInv, TickRetransmit \/ \E missing \in naks : IngestNak(missing)
  PROVE  IInv'
<1>1. /\ rels \subseteq rels' /\ rels' \subseteq rels \cup unacked
      /\ UNCHANGED <<senderVars, receiverVars, naks, acks>>
  BY DEF TickRetransmit, IngestNak
<1>. QED
  BY <1>1 DEF IInv, TypeOK, Genuine, ForgottenIsDelivered, NakIsForAGap,
     DeliveredIsSent, senderVars, receiverVars, SeqNo

LEMMA IngestAckKeepsIInv ==
  ASSUME IInv, NEW highest \in acks, IngestAck(highest) PROVE IInv'
<1>. USE DEF IInv, IngestAck, receiverVars, wireVars
<1>1. highest < expected /\ highest \in Nat /\ expected \in Nat
  BY MaxSeqAssumption DEF TypeOK, SeqNo
<1>2. ForgottenIsDelivered'
  <2> SUFFICES ASSUME NEW s \in 1 .. (nextSendSeq - 1), s >= expected
               PROVE  \E m \in unacked' : m.seq = s /\ m.payload = sent[s]
    BY DEF ForgottenIsDelivered
  <2>1. PICK m \in unacked : m.seq = s /\ m.payload = sent[s]
    BY DEF ForgottenIsDelivered
  <2>. QED
    BY <1>1, <2>1, MaxSeqAssumption DEF TypeOK
<1>. QED
  BY <1>2 DEF TypeOK, Genuine, NakIsForAGap, DeliveredIsSent

LEMMA IngestOldKeepsIInv ==
  ASSUME IInv, NEW rel \in rels, IngestOld(rel) PROVE IInv'
  BY DEF IInv, IngestOld, TypeOK, Genuine, ForgottenIsDelivered, NakIsForAGap,
     DeliveredIsSent, senderVars, wireVars

\* What IngestExpected does, with the first gap after the expected number named.
LEMMA IngestExpectedEffect ==
  ASSUME IInv, NEW rel \in rels, IngestExpected(rel)
  PROVE  \E gap \in Nat :
           /\ expected < gap /\ gap <= nextSendSeq
           /\ expected' = gap
           /\ \A m \in buffered' : m \in buffered /\ m.seq > gap
           /\ pendingNak' = pendingNak \ (expected .. (gap - 1))
           /\ acks' = acks \cup {gap - 1}
           /\ delivered' \in Seq(Payload)
           /\ Len(delivered') = Len(delivered) + (gap - expected)
           /\ \A i \in 1 .. Len(delivered) : delivered'[i] = delivered[i]
           /\ \A i \in 1 .. (gap - expected) :
                 delivered'[Len(delivered) + i] = sent[expected + i - 1]
<1>. USE MaxSeqAssumption DEF IInv
<1> DEFINE payloadOf(s) == (CHOOSE m \in buffered \cup {rel} : m.seq = s).payload
           tail(gap) == [i \in 1 .. (gap - expected) |-> payloadOf(expected + i - 1)]
<1>1. PICK gap \in (expected + 1) .. (MaxSeq + 1) :
        /\ gap \notin HeldSeqs
        /\ (expected .. (gap - 1)) \ {expected} \subseteq HeldSeqs
        /\ delivered' = delivered \o tail(gap)
        /\ expected' = gap
        /\ buffered' = {m \in buffered : m.seq \notin expected .. (gap - 1)}
        /\ pendingNak' = pendingNak \ (expected .. (gap - 1))
        /\ acks' = acks \cup {gap - 1}
  BY DEF IngestExpected
<1>2. rel.seq = expected /\ rel \in Rel
  BY DEF IngestExpected, TypeOK
<1>3. expected \in Nat /\ gap \in Nat /\ expected < gap
  BY <1>1 DEF TypeOK
<1>4. \A s \in expected .. (gap - 1) : \E m \in buffered \cup {rel} : m.seq = s
  BY <1>1, <1>2, <1>3 DEF HeldSeqs
<1>5. \A m \in buffered \cup {rel} : Genuine(m) /\ m \in Rel
  BY DEF TypeOK
<1>6. \A s \in expected .. (gap - 1) : payloadOf(s) = sent[s] /\ payloadOf(s) \in Payload
  <2> TAKE s \in expected .. (gap - 1)
  <2> DEFINE m == CHOOSE x \in buffered \cup {rel} : x.seq = s
  <2>1. m \in buffered \cup {rel} /\ m.seq = s
    BY <1>4
  <2>. QED
    BY <2>1, <1>5 DEF Genuine, Rel
<1>7. gap <= nextSendSeq
  <2>1. \E m \in buffered \cup {rel} : m.seq = gap - 1
    BY <1>3, <1>4
  <2>. QED
    BY <2>1, <1>3, <1>5 DEF Genuine, TypeOK
<1>8. \A m \in buffered' : m \in buffered /\ m.seq > gap
  <2> TAKE m \in buffered'
  <2>1. m \in buffered /\ m.seq \notin expected .. (gap - 1) /\ m.seq # gap
    BY <1>1 DEF HeldSeqs
  <2>2. m.seq > expected /\ m.seq \in Nat
    BY <2>1 DEF TypeOK, Rel, SeqNo
  <2>. QED
    BY <2>1, <2>2, <1>3
<1>9. /\ tail(gap) \in Seq(Payload) /\ Len(tail(gap)) = gap - expected
      /\ \A i \in 1 .. (gap - expected) : tail(gap)[i] = sent[expected + i - 1]
  <2>1. gap - expected \in Nat
    BY <1>3
  <2>2. \A i \in 1 .. (gap - expected) :
           /\ expected + i - 1 \in expected .. (gap - 1)
    BY <1>3
  <2>3. \A i \in 1 .. (gap - expected) :
           /\ payloadOf(expected + i - 1) \in Payload
           /\ payloadOf(expected + i - 1) = sent[expected + i - 1]
    BY <1>6, <2>2
  <2> HIDE DEF payloadOf
  <2>. QED
    BY <2>1, <2>3
<1>10. /\ delivered' \in Seq(Payload)
       /\ Len(delivered') = Len(delivered) + (gap - expected)
       /\ \A i \in 1 .. Len(delivered) : delivered'[i] = delivered[i]
       /\ \A i \in 1 .. (gap - expected) :
             delivered'[Len(delivered) + i] = sent[expected + i - 1]
  <2> DEFINE t == tail(gap)
  <2>1. /\ t \in Seq(Payload) /\ delivered \in Seq(Payload) /\ delivered' = delivered \o t
        /\ Len(t) = gap - expected
        /\ \A i \in 1 .. (gap - expected) : t[i] = sent[expected + i - 1]
    BY <1>1, <1>9 DEF TypeOK
  <2> HIDE DEF t
  <2>2. /\ delivered' \in Seq(Payload)
        /\ Len(delivered') = Len(delivered) + Len(t)
        /\ \A i \in 1 .. Len(delivered) + Len(t) : delivered'[i] =
                IF i <= Len(delivered) THEN delivered[i] ELSE t[i - Len(delivered)]
    BY <2>1, ConcatProperties
  <2>3. Len(delivered) \in Nat
    BY <2>1, LenProperties
  <2>4. \A i \in 1 .. Len(t) : delivered'[Len(delivered) + i] = t[i]
    BY <2>1, <2>2, <2>3, <1>3
  <2>. QED
    BY <2>1, <2>2, <2>3, <2>4, <1>3
<1>. QED
  BY <1>1, <1>3, <1>7, <1>8, <1>10

LEMMA IngestExpectedKeepsIInv ==
  ASSUME IInv, NEW rel \in rels, IngestExpected(rel) PROVE IInv'
<1>. USE MaxSeqAssumption DEF IInv
<1>1. PICK gap \in Nat :
        /\ expected < gap /\ gap <= nextSendSeq
        /\ expected' = gap
        /\ \A m \in buffered' : m \in buffered /\ m.seq > gap
        /\ pendingNak' = pendingNak \ (expected .. (gap - 1))
        /\ acks' = acks \cup {gap - 1}
        /\ delivered' \in Seq(Payload)
        /\ Len(delivered') = Len(delivered) + (gap - expected)
        /\ \A i \in 1 .. Len(delivered) : delivered'[i] = delivered[i]
        /\ \A i \in 1 .. (gap - expected) :
              delivered'[Len(delivered) + i] = sent[expected + i - 1]
  BY IngestExpectedEffect
<1>2. UNCHANGED <<sent, nextSendSeq, unacked, popped, rels, naks>>
  BY DEF IngestExpected, senderVars
<1>3. TypeOK'
  BY <1>1, <1>2 DEF TypeOK, SeqNo
<1>4. \A highest \in acks' : highest < expected'
  BY <1>1 DEF TypeOK, SeqNo
<1>5. \A m \in buffered' : Genuine(m)' /\ m.seq > expected'
  BY <1>1, <1>2 DEF Genuine
<1>6. ForgottenIsDelivered'
  BY <1>1, <1>2 DEF ForgottenIsDelivered, TypeOK
<1>7. NakIsForAGap'
  BY <1>1, <1>2 DEF NakIsForAGap, TypeOK, SeqNo
<1>8. DeliveredIsSent'
  <2>1. Len(popped) \in Nat /\ Len(delivered) \in Nat /\ expected \in Nat
    BY DEF TypeOK
  <2>2. ASSUME NEW i \in 1 .. Len(delivered')
        PROVE  delivered'[i] = sent[Len(popped) + i]
    <3>1. CASE i <= Len(delivered)
      BY <1>1, <2>1, <3>1 DEF DeliveredIsSent
    <3>2. CASE i > Len(delivered)
      <4> DEFINE j == i - Len(delivered)
      <4>1. j \in 1 .. (gap - expected) /\ i = Len(delivered) + j
        BY <1>1, <2>1, <3>2
      <4>2. delivered'[i] = sent[expected + j - 1]
        BY <1>1, <4>1
      <4>3. expected + j - 1 = Len(popped) + i
        <5>1. Len(popped) + Len(delivered) = expected - 1
          BY DEF DeliveredIsSent
        <5>. QED BY ONLY <2>1, <4>1, <5>1, gap \in Nat
      <4>. QED
        BY <4>2, <4>3, Zenon
    <3>. QED
      BY <2>1, <3>1, <3>2, <1>1
  <2>3. Len(popped') + Len(delivered') = expected' - 1
    BY <1>1, <1>2, <2>1 DEF DeliveredIsSent
  <2>4. \A i \in 1 .. Len(popped') : popped'[i] = sent'[i]
    BY <1>2 DEF DeliveredIsSent
  <2>. QED
    BY <1>2, <2>2, <2>3, <2>4 DEF DeliveredIsSent
<1>. QED
  BY <1>1, <1>2, <1>3, <1>4, <1>5, <1>6, <1>7, <1>8 DEF Genuine

LEMMA IngestAheadKeepsIInv ==
  ASSUME IInv, NEW rel \in rels, IngestAhead(rel) PROVE IInv'
<1>. USE MaxSeqAssumption DEF IInv, IngestAhead, senderVars
<1>1. rel \in Rel /\ Genuine(rel) /\ rel.seq \in SeqNo
  BY DEF TypeOK, Rel
<1>2. \A s \in expected .. (rel.seq - 1) : s \in SeqNo /\ s < nextSendSeq
  BY <1>1 DEF TypeOK, SeqNo, Genuine
<1>3. TypeOK'
  BY <1>1, <1>2 DEF TypeOK
<1>4. \A m \in buffered' : Genuine(m)' /\ m.seq > expected'
  BY <1>1 DEF Genuine
<1>5. NakIsForAGap'
  BY <1>2 DEF NakIsForAGap, TypeOK
<1>. QED
  BY <1>3, <1>4, <1>5 DEF Genuine, ForgottenIsDelivered, DeliveredIsSent

LEMMA PopDeliveredKeepsIInv == ASSUME IInv, PopDelivered PROVE IInv'
<1>. USE DEF IInv, PopDelivered, senderVars, wireVars
<1>1. /\ popped' \in Seq(Payload) /\ Len(popped') = Len(popped) + Len(delivered)
      /\ \A i \in 1 .. Len(popped) + Len(delivered) : popped'[i] =
             IF i <= Len(popped) THEN popped[i] ELSE delivered[i - Len(popped)]
  BY ConcatProperties DEF TypeOK
<1>2. Len(popped) \in Nat /\ Len(delivered) \in Nat
  BY DEF TypeOK
<1>3. ASSUME NEW i \in 1 .. Len(popped') PROVE popped'[i] = sent[i]
  <2>1. CASE i <= Len(popped)
    BY <1>1, <1>2, <2>1 DEF DeliveredIsSent
  <2>2. CASE i > Len(popped)
    BY <1>1, <1>2, <2>2 DEF DeliveredIsSent
  <2>. QED
    BY <2>1, <2>2, <1>1, <1>2
<1>4. delivered' \in Seq(Payload) /\ Len(delivered') = 0
  OBVIOUS
<1>5. DeliveredIsSent'
  <2>1. Len(popped') + Len(delivered') = expected' - 1
    BY <1>1, <1>2, <1>4 DEF DeliveredIsSent, TypeOK
  <2>2. \A i \in 1 .. Len(delivered') : FALSE
    BY <1>4
  <2>3. \A i \in 1 .. Len(popped') : popped'[i] = sent'[i]
    BY <1>3
  <2>. QED
    BY <2>1, <2>2, <2>3 DEF DeliveredIsSent
<1>. QED
  BY <1>1, <1>4, <1>5 DEF TypeOK, Genuine, ForgottenIsDelivered, NakIsForAGap

LEMMA LossKeepsIInv ==
  ASSUME IInv,
         \/ \E rel \in rels : LoseRel(rel)
         \/ \E missing \in naks : LoseNak(missing)
         \/ \E highest \in acks : LoseAck(highest)
  PROVE  IInv'
<1>1. /\ rels' \subseteq rels /\ naks' \subseteq naks /\ acks' \subseteq acks
      /\ UNCHANGED <<senderVars, receiverVars>>
  BY DEF LoseRel, LoseNak, LoseAck
<1>. QED
  BY <1>1 DEF IInv, TypeOK, Genuine, ForgottenIsDelivered, NakIsForAGap,
     DeliveredIsSent, senderVars, receiverVars

THEOREM IInvAlways == Spec => []IInv
<1>1. IInv /\ [Next]_vars => IInv'
  <2> SUFFICES ASSUME IInv, [Next]_vars PROVE IInv'
    OBVIOUS
  <2>1. CASE \E p \in Payload : Send(p)
    BY <2>1, SendKeepsIInv
  <2>2. CASE TickRetransmit
    BY <2>2, RetransmitKeepsIInv
  <2>3. ASSUME NEW rel \in rels, IngestRel(rel) PROVE IInv'
    BY <2>3, IngestOldKeepsIInv, IngestExpectedKeepsIInv, IngestAheadKeepsIInv
       DEF IngestRel
  <2>4. CASE \E missing \in naks : IngestNak(missing)
    BY <2>4, RetransmitKeepsIInv
  <2>5. ASSUME NEW highest \in acks, IngestAck(highest) PROVE IInv'
    BY <2>5, IngestAckKeepsIInv
  <2>6. CASE PopDelivered
    BY <2>6, PopDeliveredKeepsIInv
  <2>7. CASE \/ \E rel \in rels : LoseRel(rel)
             \/ \E missing \in naks : LoseNak(missing)
             \/ \E highest \in acks : LoseAck(highest)
    BY <2>7, LossKeepsIInv
  <2>8. CASE UNCHANGED vars
    BY <2>8 DEF vars, senderVars, receiverVars, wireVars, IInv, TypeOK, Genuine,
       ForgottenIsDelivered, NakIsForAGap, DeliveredIsSent
  <2>. QED
    BY <2>1, <2>2, <2>3, <2>4, <2>5, <2>6, <2>7, <2>8 DEF Next
<1>. QED
  BY InitIInv, <1>1, PTL DEF Spec

\* Type correctness of both halves and of the wire.
THEOREM TypeCorrect == Spec => []TypeOK
BY IInvAlways, PTL DEF IInv

\* The element-by-element form of the invariant gives the sequence form.
LEMMA InOrderFromIInv == IInv => InOrderExactlyOnce
<1> SUFFICES ASSUME IInv PROVE popped \o delivered = SubSeq(sent, 1, expected - 1)
  BY DEF InOrderExactlyOnce
<1>. USE DEF IInv
<1>1. /\ popped \o delivered \in Seq(Payload)
      /\ Len(popped \o delivered) = Len(popped) + Len(delivered)
      /\ \A i \in 1 .. Len(popped) + Len(delivered) : (popped \o delivered)[i] =
             IF i <= Len(popped) THEN popped[i] ELSE delivered[i - Len(popped)]
  BY ConcatProperties DEF TypeOK
<1>2. /\ Len(popped) \in Nat /\ Len(delivered) \in Nat /\ Len(sent) \in Nat
      /\ expected \in Nat /\ expected >= 1 /\ expected - 1 <= Len(sent)
  BY MaxSeqAssumption DEF TypeOK
<1>3. \A i \in 1 .. expected - 1 : sent[i] \in Payload
  BY <1>2 DEF TypeOK
<1>4. /\ SubSeq(sent, 1, expected - 1) \in Seq(Payload)
      /\ Len(SubSeq(sent, 1, expected - 1)) = expected - 1
      /\ \A i \in 1 .. expected - 1 : SubSeq(sent, 1, expected - 1)[i] = sent[i]
  BY <1>2, <1>3, SubSeqProperties
<1>5. ASSUME NEW i \in 1 .. expected - 1 PROVE (popped \o delivered)[i] = sent[i]
  <2>0. Len(popped) + Len(delivered) = expected - 1
    BY DEF DeliveredIsSent
  <2>1. CASE i <= Len(popped)
    BY <1>1, <1>2, <2>0, <2>1 DEF DeliveredIsSent
  <2>2. CASE i > Len(popped)
    <3> DEFINE j == i - Len(popped)
    <3>1. j \in 1 .. Len(delivered) /\ i = Len(popped) + j
      BY <1>2, <2>0, <2>2
    <3>2. (popped \o delivered)[i] = delivered[j]
      BY <1>1, <1>2, <2>0, <2>2
    <3>. QED
      BY <3>1, <3>2 DEF DeliveredIsSent
  <2>3. i <= Len(popped) \/ i > Len(popped)
    BY <1>2
  <2>. QED
    BY <2>1, <2>2, <2>3
<1>6. Len(popped \o delivered) = Len(SubSeq(sent, 1, expected - 1))
  BY <1>1, <1>4 DEF DeliveredIsSent
<1>7. \A i \in 1 .. Len(popped \o delivered) :
         (popped \o delivered)[i] = SubSeq(sent, 1, expected - 1)[i]
  BY <1>4, <1>5, <1>6
<1>. QED
  BY <1>1, <1>4, <1>6, <1>7, SeqEqual

\* What reaches the application is a prefix of what was sent, in order, without a
\* gap or a repetition, on a wire that loses, duplicates and reorders.
THEOREM InOrder == Spec => []InOrderExactlyOnce
BY IInvAlways, InOrderFromIInv, PTL

\* The sender drops from its retransmit buffer only what the receiver delivered.
THEOREM NothingForgottenEarly == Spec => []ForgottenIsDelivered
BY IInvAlways, PTL DEF IInv

\* A NAK is outstanding only for a number still waited for.
THEOREM NaksAreForGaps == Spec => []NakIsForAGap
BY IInvAlways, PTL DEF IInv

\* The channel implements FifoDelivery.
THEOREM ChannelImplementsFifo == Spec => ImplementsFifo
<1>1. Init => Fifo!Init
  BY DEF Init, Fifo!Init
<1>2. IInv /\ [Next]_vars => [Fifo!Next]_<<sent, popped>>
  <2> SUFFICES ASSUME IInv, [Next]_vars, <<sent, popped>>' # <<sent, popped>>
               PROVE  Fifo!Next
    OBVIOUS
  <2>1. CASE \E p \in Payload : Send(p)
    BY <2>1 DEF Send, receiverVars, Fifo!Next, Fifo!Accept
  <2>2. CASE PopDelivered
    <3> DEFINE upTo == Len(popped) + Len(delivered)
    <3>1. /\ Len(popped) \in Nat /\ Len(delivered) \in Nat \ {0} /\ Len(sent) \in Nat
      BY <2>2, EmptySeq DEF IInv, TypeOK, PopDelivered
    <3>2. upTo \in 1 .. Len(sent) /\ upTo > Len(popped) /\ upTo = expected - 1
      BY <3>1, MaxSeqAssumption DEF IInv, TypeOK, DeliveredIsSent
    <3>3. popped' = SubSeq(sent, 1, upTo)
      BY <2>2, <3>2, InOrderFromIInv DEF InOrderExactlyOnce, PopDelivered
    <3>4. Fifo!HandOver(upTo)
      BY <2>2, <3>2, <3>3 DEF PopDelivered, senderVars, Fifo!HandOver
    <3>. QED
      BY <3>2, <3>4 DEF Fifo!Next
  <2>3. CASE /\ ~ \E p \in Payload : Send(p)
             /\ ~ PopDelivered
    BY <2>3 DEF Next, vars, TickRetransmit, IngestRel, IngestOld, IngestExpected,
       IngestAhead, IngestNak, IngestAck, LoseRel, LoseNak, LoseAck,
       senderVars, receiverVars, wireVars
  <2>. QED
    BY <2>1, <2>2, <2>3
<1>. QED
  BY IInvAlways, <1>1, <1>2, PTL DEF Spec, ImplementsFifo, Fifo!Spec
================================================================================
