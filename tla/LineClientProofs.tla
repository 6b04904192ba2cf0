---------------------------- MODULE LineClientProofs ----------------------------
(***************************************************************************)
(* The safety properties of LineClient, for any threads that make          *)
(* requests and any numbers of pushes and calls.                           *)
(***************************************************************************)
EXTENDS LineClient, SequenceTheorems, WellFoundedInduction, TLAPS

Stopped == {"joiningHeartbeat", "disconnected", "destroyed"}

\* A frame of a push that was sent, or of an answer that was given.
Sent(f) == IF IsPush(f) THEN f[2] <= pushes ELSE f[2] <= calls /\ f[2] \notin requests

\* Every frame is in one place, once.
Distinct ==
    /\ \A i \in 1 .. Len(inbox) : Sent(inbox[i])
    /\ \A i \in 1 .. Len(wire) : Sent(wire[i])
    /\ \A i, j \in 1 .. Len(inbox) : inbox[i] = inbox[j] => i = j
    /\ \A i, j \in 1 .. Len(wire) : wire[i] = wire[j] => i = j
    /\ \A i \in 1 .. Len(inbox), j \in 1 .. Len(wire) : inbox[i] # wire[j]

\* Pushes stand in the order of their numbers, on the wire behind those in the inbox.
Rising(s) == \A i, j \in 1 .. Len(s) :
    IsPush(s[i]) /\ IsPush(s[j]) /\ i < j => s[i][2] < s[j][2]

InLine ==
    /\ Rising(inbox) /\ Rising(wire)
    /\ \A i \in 1 .. Len(inbox), j \in 1 .. Len(wire) :
          IsPush(inbox[i]) /\ IsPush(wire[j]) => inbox[i][2] < wire[j][2]

Due(n) == Contains(inbox, <<"push", n>>) \/ Contains(wire, <<"push", n>>)

\* The pushes still to be taken are those after the n-th, which is the one that is being
\* handled or, where the handler is set, was handled last.
TakenTo(n) ==
    /\ \A m \in 1 .. MaxPushes : Due(m) <=> n < m /\ m <= pushes
    /\ frame # <<>> => frame[2] = n
    /\ handled # <<>> =>
          /\ handler
          /\ handled[Len(handled)] = IF frame = <<>> THEN n ELSE n - 1

Linked == owner \in {"new", "connected"} => \E n \in 0 .. pushes : TakenTo(n)

\* The dispatcher has not started or was joined, or handles a push that was sent.
Dispatching ==
    /\ owner = "new" => reader = "none" /\ dispatcher = "none" /\ pushes = 0
    /\ owner \in Stopped => dispatcher = "none"
    /\ frame # <<>> => IsPush(frame) /\ Sent(frame)

IInv ==
    /\ TypeOK
    /\ Distinct
    /\ InLine
    /\ Dispatching
    /\ Linked
    /\ PushesInOrder
--------------------------------------------------------------------------------
(* Frames and sequences of frames *)

LEMMA FrameIs ==
    ASSUME NEW f \in Frame
    PROVE  /\ f = <<f[1], f[2]>> /\ f[1] \in {"push", "answer"} /\ f[2] \in Nat
           /\ IsPush(f) => f = <<"push", f[2]>> /\ f[2] \in 1 .. MaxPushes
           /\ ~ IsPush(f) => f = <<"answer", f[2]>> /\ f[2] \in 1 .. MaxCalls
  BY LineClientAssumption DEF Frame, IsPush

LEMMA RemoveAtIs ==
    ASSUME NEW S, NEW s \in Seq(S), NEW k \in 1 .. Len(s)
    PROVE  /\ RemoveAt(s, k) \in Seq(S) /\ Len(RemoveAt(s, k)) = Len(s) - 1
           /\ \A j \in 1 .. Len(s) - 1 :
                 RemoveAt(s, k)[j] = IF j < k THEN s[j] ELSE s[j + 1]
<1> DEFINE before == SubSeq(s, 1, k - 1)
           after  == SubSeq(s, k + 1, Len(s))
<1>1. /\ before \in Seq(S) /\ Len(before) = k - 1
      /\ \A j \in 1 .. k - 1 : before[j] = s[j]
  BY SubSeqProperties
<1>2. /\ after \in Seq(S) /\ Len(after) = Len(s) - k
      /\ \A j \in 1 .. Len(s) - k : after[j] = s[j + k]
  <2>1. \A i \in k + 1 .. Len(s) : s[i] \in S
    OBVIOUS
  <2> QED
    BY <2>1, SubSeqProperties, k + 1 \in Int, Len(s) \in Int
<1>3. RemoveAt(s, k) = before \o after
  BY DEF RemoveAt
<1> HIDE DEF before, after
<1>4. /\ before \o after \in Seq(S) /\ Len(before \o after) = Len(before) + Len(after)
      /\ \A j \in 1 .. Len(before) + Len(after) :
            (before \o after)[j] = IF j <= Len(before) THEN before[j]
                                   ELSE after[j - Len(before)]
  BY <1>1, <1>2, ConcatProperties
<1>5. ASSUME NEW j \in 1 .. Len(s) - 1
      PROVE  RemoveAt(s, k)[j] = IF j < k THEN s[j] ELSE s[j + 1]
  <2>1. Len(before) + Len(after) = Len(s) - 1 /\ Len(s) \in Nat
    BY <1>1, <1>2
  <2>2. CASE j < k
    BY <1>1, <1>3, <1>4, <2>1, <2>2
  <2>3. CASE ~ (j < k)
    <3>1. j - (k - 1) \in 1 .. Len(s) - k /\ j - (k - 1) + k = j + 1
      BY <2>3, <2>1
    <3>2. RemoveAt(s, k)[j] = after[j - (k - 1)]
      BY <1>1, <1>3, <1>4, <2>1, <2>3
    <3> QED
      BY <1>2, <3>1, <3>2, <2>3
  <2> QED
    BY <2>2, <2>3
<1> QED
  BY <1>1, <1>2, <1>3, <1>4, <1>5

Below == {p \in Nat \X Nat : p[1] < p[2]}

LEMMA LeastNumber ==
    ASSUME NEW T \in SUBSET Nat, T # {}
    PROVE  \E x \in T : \A y \in T : x <= y
<1>1. IsWellFoundedOn(Below, Nat)
  BY NatLessThanWellFounded DEF OpToRel, Below
<1>2. PICK x \in T : \A y \in T : ~ (<<y, x>> \in Below)
  BY <1>1, WFMin
<1>3. \A y \in T : y \in Nat /\ x \in Nat /\ ~ (y < x)
  BY <1>2 DEF Below
<1> QED
  BY <1>3

\* The dispatcher takes a push, and the first one.
LEMMA FirstPushIs ==
    ASSUME inbox \in Seq(Frame), \E i \in DOMAIN inbox : IsPush(inbox[i])
    PROVE  /\ FirstPush \in 1 .. Len(inbox) /\ IsPush(inbox[FirstPush])
           /\ \A j \in 1 .. Len(inbox) : IsPush(inbox[j]) => FirstPush <= j
<1> DEFINE T == {i \in DOMAIN inbox : IsPush(inbox[i])}
<1>1. T \in SUBSET Nat /\ T # {} /\ DOMAIN inbox = 1 .. Len(inbox)
  OBVIOUS
<1>2. \E x \in T : \A y \in T : x <= y
  BY <1>1, LeastNumber
<1>3. \E i \in DOMAIN inbox :
         IsPush(inbox[i]) /\ \A j \in DOMAIN inbox : IsPush(inbox[j]) => i <= j
  BY <1>2
<1> QED
  BY <1>1, <1>3 DEF FirstPush

\* What RemoveFirst removes is there.
LEMMA RemoveFirstIs ==
    ASSUME NEW S, NEW s \in Seq(S), NEW e, Contains(s, e)
    PROVE  \E k \in 1 .. Len(s) : s[k] = e /\ RemoveFirst(s, e) = RemoveAt(s, k)
<1> DEFINE Test(v) == v = e
           I == {i \in 1 .. Len(s) : Test(s[i])}
           k == SelectInSeq(s, Test)
<1>1. I \in SUBSET Nat /\ I # {}
  BY DEF Contains
<1>2. \E x \in I : \A y \in I : x <= y
  BY <1>1, LeastNumber
<1>3. k = CHOOSE x \in I : \A y \in I : x <= y
  BY <1>1 DEF SelectInSeq, Min
<1>4. k \in I
  BY <1>2, <1>3
<1>5. RemoveFirst(s, e) = RemoveAt(s, k)
  BY DEF RemoveFirst, Contains
<1> QED
  BY <1>4, <1>5
--------------------------------------------------------------------------------
(* What is read and taken *)

Frames == inbox \in Seq(Frame) /\ wire \in Seq(Frame)

\* Frames leave the inbox, but do not change places.
Thins ==
    /\ inbox' \in Seq(Frame) /\ wire' = wire
    /\ \E e \in [1 .. Len(inbox') -> 1 .. Len(inbox)] :
          /\ \A i \in 1 .. Len(inbox') : inbox'[i] = inbox[e[i]]
          /\ \A i, j \in 1 .. Len(inbox') : i < j => e[i] < e[j]

\* What was sent or answered was.
StaysSent == \A f \in Frame : Sent(f) => Sent(f)'

LEMMA FramesAre ==
    ASSUME Frames
    PROVE  /\ Len(inbox) \in Nat /\ Len(wire) \in Nat
           /\ \A i \in 1 .. Len(inbox) : inbox[i] \in Frame
           /\ \A i \in 1 .. Len(wire) : wire[i] \in Frame
  BY DEF Frames

LEMMA ThinsKeeps ==
    ASSUME Frames, Distinct, InLine, Thins, StaysSent
    PROVE  Distinct' /\ InLine' /\ Frames'
<1> PICK e \in [1 .. Len(inbox') -> 1 .. Len(inbox)] :
          /\ \A i \in 1 .. Len(inbox') : inbox'[i] = inbox[e[i]]
          /\ \A i, j \in 1 .. Len(inbox') : i < j => e[i] < e[j]
  BY DEF Thins
<1> DEFINE new == inbox'
<1>1. /\ new \in Seq(Frame) /\ Len(new) \in Nat /\ wire' = wire
      /\ \A i \in 1 .. Len(new) : e[i] \in 1 .. Len(inbox) /\ new[i] = inbox[e[i]]
      /\ \A i, j \in 1 .. Len(new) : i < j => e[i] < e[j]
  BY DEF Thins
<1>2. new = inbox'
  OBVIOUS
<1> HIDE DEF new
<1>3. \A i, j \in 1 .. Len(new) : e[i] = e[j] => i = j
  <2> SUFFICES ASSUME NEW i \in 1 .. Len(new), NEW j \in 1 .. Len(new), i # j
               PROVE  e[i] # e[j]
    OBVIOUS
  <2>1. i < j \/ j < i
    BY <1>1
  <2>2. e[i] \in Nat /\ e[j] \in Nat /\ (e[i] < e[j] \/ e[j] < e[i])
    BY <1>1, <2>1, FramesAre
  <2> QED
    BY <2>2
<1>4. ASSUME NEW f \in Frame, Sent(f) PROVE Sent(f)'
  BY <1>4 DEF StaysSent
<1>5. \A i \in 1 .. Len(inbox') : Sent(inbox[i])'
  <2> SUFFICES ASSUME NEW i \in 1 .. Len(inbox') PROVE Sent(inbox[i])'
    OBVIOUS
  <2>1. PICK f \in Frame : f = new[i] /\ Sent(f)
    BY <1>1, <1>2, FramesAre DEF Distinct
  <2>2. Sent(f)' /\ inbox'[i] = f
    BY <1>2, <1>4, <2>1
  <2> QED
    BY <2>2 DEF Sent, IsPush
<1>6. \A i \in 1 .. Len(wire') : Sent(wire[i])'
  <2> SUFFICES ASSUME NEW i \in 1 .. Len(wire') PROVE Sent(wire[i])'
    OBVIOUS
  <2>1. PICK f \in Frame : f = wire[i] /\ Sent(f) /\ wire'[i] = f
    BY <1>1, FramesAre DEF Distinct
  <2>2. Sent(f)'
    BY <1>4, <2>1
  <2> QED
    BY <2>1, <2>2 DEF Sent, IsPush
<1>7. Distinct'
  <2>1. \A i, j \in 1 .. Len(new) : new[i] = new[j] => i = j
    <3>1. \A i, j \in 1 .. Len(inbox) : inbox[i] = inbox[j] => i = j
      BY DEF Distinct
    <3> SUFFICES ASSUME NEW i \in 1 .. Len(new), NEW j \in 1 .. Len(new), new[i] = new[j]
                 PROVE  i = j
      OBVIOUS
    <3>2. e[i] \in 1 .. Len(inbox) /\ e[j] \in 1 .. Len(inbox)
          /\ inbox[e[i]] = inbox[e[j]]
      BY <1>1
    <3>3. e[i] = e[j]
      BY <3>1, <3>2
    <3> QED
      BY <1>3, <3>3
  <2>2. \A i \in 1 .. Len(new), j \in 1 .. Len(wire) : new[i] # wire[j]
    BY <1>1 DEF Distinct
  <2>3. \A i, j \in 1 .. Len(wire) : wire[i] = wire[j] => i = j
    BY DEF Distinct
  <2> QED
    BY <1>1, <1>2, <1>5, <1>6, <2>1, <2>2, <2>3 DEF Distinct
<1>8. InLine'
  <2>1. \A i, j \in 1 .. Len(new) :
           IsPush(new[i]) /\ IsPush(new[j]) /\ i < j => new[i][2] < new[j][2]
    BY <1>1 DEF InLine, Rising
  <2>2. \A i \in 1 .. Len(new), j \in 1 .. Len(wire) :
           IsPush(new[i]) /\ IsPush(wire[j]) => new[i][2] < wire[j][2]
    BY <1>1 DEF InLine
  <2>3. Rising(inbox)' /\ Rising(wire)'
    BY <1>1, <1>2, <2>1 DEF InLine, Rising, IsPush
  <2> QED
    BY <1>1, <1>2, <2>2, <2>3 DEF InLine, IsPush
<1>9. Frames'
  BY <1>1, <1>2 DEF Frames
<1> QED
  BY <1>7, <1>8, <1>9

LEMMA SameThins == ASSUME Frames, UNCHANGED <<inbox, wire>> PROVE Thins
<1> DEFINE e == [i \in 1 .. Len(inbox) |-> i]
<1>1. /\ e \in [1 .. Len(inbox) -> 1 .. Len(inbox)]
      /\ \A i \in 1 .. Len(inbox) : e[i] = i
  BY FramesAre
<1> QED
  BY <1>1 DEF Thins, Frames

LEMMA EmptyThins == ASSUME Frames, inbox' = <<>>, wire' = wire PROVE Thins
<1> DEFINE e == [i \in 1 .. 0 |-> i]
<1>1. Len(inbox') = 0 /\ inbox' \in Seq(Frame) /\ e \in [1 .. 0 -> 1 .. Len(inbox)]
      /\ \A i \in 1 .. 0 : FALSE
  OBVIOUS
<1> QED
  BY <1>1 DEF Thins

LEMMA RemovalThins ==
    ASSUME Frames, NEW k \in 1 .. Len(inbox), inbox' = RemoveAt(inbox, k), wire' = wire
    PROVE  Thins
<1> DEFINE new == RemoveAt(inbox, k)
           e   == [i \in 1 .. Len(inbox) - 1 |-> IF i < k THEN i ELSE i + 1]
<1>1. /\ new \in Seq(Frame) /\ Len(new) = Len(inbox) - 1
      /\ \A j \in 1 .. Len(inbox) - 1 : new[j] = IF j < k THEN inbox[j] ELSE inbox[j + 1]
  BY RemoveAtIs DEF Frames
<1>2. /\ e \in [1 .. Len(inbox) - 1 -> 1 .. Len(inbox)]
      /\ \A i \in 1 .. Len(inbox) - 1 : e[i] = IF i < k THEN i ELSE i + 1
  BY FramesAre
<1> HIDE DEF new, e
<1>3. \A i \in 1 .. Len(new) : new[i] = inbox[e[i]]
  BY <1>1, <1>2
<1>4. \A i, j \in 1 .. Len(new) : i < j => e[i] < e[j]
  BY <1>1, <1>2, FramesAre
<1>5. inbox' = new
  BY DEF new
<1> QED
  BY <1>1, <1>2, <1>3, <1>4, <1>5 DEF Thins
\* Every frame in the inbox and on the wire was sent.
LEMMA StaySent ==
    ASSUME Frames, Distinct, StaysSent
    PROVE  /\ \A i \in 1 .. Len(inbox), f \in Frame : f = inbox[i] => Sent(f) /\ Sent(f)'
           /\ \A i \in 1 .. Len(wire), f \in Frame : f = wire[i] => Sent(f) /\ Sent(f)'
<1>1. ASSUME NEW f \in Frame, Sent(f) PROVE Sent(f)'
  BY <1>1 DEF StaysSent
<1>2. /\ \A i \in 1 .. Len(inbox), f \in Frame : f = inbox[i] => Sent(f)
      /\ \A i \in 1 .. Len(wire), f \in Frame : f = wire[i] => Sent(f)
  BY DEF Distinct
<1> QED
  BY <1>1, <1>2

LEMMA ArrivalKeeps ==
    ASSUME Frames, Distinct, InLine, StaysSent, NEW new \in Frame, ~ Sent(new), Sent(new)',
           IsPush(new) => new[2] > pushes, pushes \in Nat,
           wire' = Append(wire, new), inbox' = inbox
    PROVE  Distinct' /\ InLine' /\ Frames'
<1> DEFINE after == Append(wire, new)
<1>1. /\ after \in Seq(Frame) /\ Len(after) = Len(wire) + 1
      /\ \A i \in 1 .. Len(wire) : after[i] = wire[i]
      /\ after[Len(wire) + 1] = new
  BY AppendProperties DEF Frames
<1>2. wire' = after
  OBVIOUS
<1> HIDE DEF after
<1>3. \A i \in 1 .. Len(after) : i \in 1 .. Len(wire) \/ i = Len(wire) + 1
  BY <1>1, FramesAre
<1>4. /\ \A i \in 1 .. Len(inbox) : inbox[i] # new /\ inbox[i] \in Frame
      /\ \A i \in 1 .. Len(wire) : wire[i] # new /\ wire[i] \in Frame
  BY FramesAre DEF Distinct
<1>5. \A i \in 1 .. Len(inbox') : Sent(inbox[i])'
  <2> SUFFICES ASSUME NEW i \in 1 .. Len(inbox') PROVE Sent(inbox[i])'
    OBVIOUS
  <2>1. PICK f \in Frame : f = inbox[i] /\ inbox'[i] = f
    BY FramesAre
  <2>2. Sent(f)'
    BY <2>1, StaySent
  <2> QED
    BY <2>1, <2>2 DEF Sent, IsPush
<1>6. \A i \in 1 .. Len(wire') : Sent(wire[i])'
  <2> SUFFICES ASSUME NEW i \in 1 .. Len(wire') PROVE Sent(wire[i])'
    OBVIOUS
  <2>1. CASE i \in 1 .. Len(wire)
    <3>1. PICK f \in Frame : f = wire[i] /\ wire'[i] = f
      BY <1>1, <1>2, <2>1, FramesAre
    <3>2. Sent(f)'
      BY <2>1, <3>1, StaySent
    <3> QED
      BY <3>1, <3>2 DEF Sent, IsPush
  <2>2. CASE i = Len(wire) + 1
    BY <1>1, <1>2, <2>2 DEF Sent, IsPush
  <2> QED
    BY <1>2, <1>3, <2>1, <2>2
<1>7. Distinct'
  <2>1. \A i, j \in 1 .. Len(after) : after[i] = after[j] => i = j
    BY <1>1, <1>3, <1>4 DEF Distinct
  <2>2. \A i \in 1 .. Len(inbox), j \in 1 .. Len(after) : inbox[i] # after[j]
    BY <1>1, <1>3, <1>4 DEF Distinct
  <2>3. \A i, j \in 1 .. Len(inbox) : inbox[i] = inbox[j] => i = j
    BY DEF Distinct
  <2> QED
    BY <1>2, <1>5, <1>6, <2>1, <2>2, <2>3 DEF Distinct
<1>8. InLine'
  <2>1. /\ \A i \in 1 .. Len(inbox) : IsPush(inbox[i]) => inbox[i][2] <= pushes
        /\ \A i \in 1 .. Len(wire) : IsPush(wire[i]) => wire[i][2] <= pushes
    BY DEF Distinct, Sent
  <2>2. /\ \A i \in 1 .. Len(inbox) : IsPush(inbox[i]) => inbox[i][2] \in Nat
        /\ \A i \in 1 .. Len(wire) : IsPush(wire[i]) => wire[i][2] \in Nat
        /\ new[2] \in Nat
    BY FramesAre, FrameIs
  <2>3. \A i, j \in 1 .. Len(after) :
           IsPush(after[i]) /\ IsPush(after[j]) /\ i < j => after[i][2] < after[j][2]
    <3> SUFFICES ASSUME NEW i \in 1 .. Len(after), NEW j \in 1 .. Len(after),
                        IsPush(after[i]), IsPush(after[j]), i < j
                 PROVE  after[i][2] < after[j][2]
      OBVIOUS
    <3>1. i \in 1 .. Len(wire)
      BY <1>1, FramesAre
    <3>2. CASE j \in 1 .. Len(wire)
      BY <1>1, <3>1, <3>2 DEF InLine, Rising
    <3>3. CASE j = Len(wire) + 1
      BY <1>1, <2>1, <2>2, <3>1, <3>3
    <3> QED
      BY <1>3, <3>2, <3>3
  <2>4. \A i \in 1 .. Len(inbox), j \in 1 .. Len(after) :
           IsPush(inbox[i]) /\ IsPush(after[j]) => inbox[i][2] < after[j][2]
    BY <1>1, <1>3, <2>1, <2>2 DEF InLine
  <2>5. Rising(inbox)' /\ Rising(wire)'
    BY <1>2, <2>3 DEF InLine, Rising, IsPush
  <2> QED
    BY <1>2, <2>4, <2>5 DEF InLine, IsPush
<1>9. Frames'
  BY <1>1, <1>2 DEF Frames
<1> QED
  BY <1>7, <1>8, <1>9

\* A frame goes from the wire to the end of the inbox.
LEMMA ReadingKeeps ==
    ASSUME Frames, Distinct, InLine, StaysSent, wire # <<>>,
           inbox' = Append(inbox, Head(wire)), wire' = Tail(wire)
    PROVE  Distinct' /\ InLine' /\ Frames'
<1> DEFINE into == Append(inbox, Head(wire))
           rest == Tail(wire)
<1>1. /\ Head(wire) = wire[1] /\ wire[1] \in Frame
      /\ rest \in Seq(Frame) /\ Len(rest) = Len(wire) - 1 /\ Len(wire) >= 1
      /\ \A i \in 1 .. Len(rest) : rest[i] = wire[i + 1] /\ i + 1 \in 1 .. Len(wire)
  BY HeadTailProperties DEF Frames
<1>2. /\ into \in Seq(Frame) /\ Len(into) = Len(inbox) + 1
      /\ \A i \in 1 .. Len(inbox) : into[i] = inbox[i]
      /\ into[Len(inbox) + 1] = wire[1]
  BY <1>1, AppendProperties DEF Frames
<1>3. wire' = rest /\ inbox' = into
  OBVIOUS
<1> HIDE DEF into, rest
<1>4. /\ \A i \in 1 .. Len(into) : i \in 1 .. Len(inbox) \/ i = Len(inbox) + 1
      /\ 1 \in 1 .. Len(wire) /\ Len(inbox) \in Nat /\ Len(wire) \in Nat
  BY <1>1, <1>2, FramesAre
<1>5. \A i \in 1 .. Len(inbox') : Sent(inbox[i])'
  <2> SUFFICES ASSUME NEW i \in 1 .. Len(inbox') PROVE Sent(inbox[i])'
    OBVIOUS
  <2>1. PICK f \in Frame : inbox'[i] = f /\ Sent(f)'
    <3>1. CASE i \in 1 .. Len(inbox)
      BY <1>2, <1>3, <3>1, FramesAre, StaySent
    <3>2. CASE i = Len(inbox) + 1
      BY <1>1, <1>2, <1>3, <1>4, <3>2, StaySent
    <3> QED
      BY <1>3, <1>4, <3>1, <3>2
  <2> QED
    BY <2>1 DEF Sent, IsPush
<1>6. \A i \in 1 .. Len(wire') : Sent(wire[i])'
  <2> SUFFICES ASSUME NEW i \in 1 .. Len(wire') PROVE Sent(wire[i])'
    OBVIOUS
  <2>1. PICK f \in Frame : wire'[i] = f /\ Sent(f)'
    BY <1>1, <1>3, FramesAre, StaySent
  <2> QED
    BY <2>1 DEF Sent, IsPush
<1>7. Distinct'
  <2>1. \A i, j \in 1 .. Len(into) : into[i] = into[j] => i = j
    BY <1>2, <1>4 DEF Distinct
  <2>2. \A i, j \in 1 .. Len(rest) : rest[i] = rest[j] => i = j
    <3> SUFFICES ASSUME NEW i \in 1 .. Len(rest), NEW j \in 1 .. Len(rest), rest[i] = rest[j]
                 PROVE  i = j
      OBVIOUS
    <3>1. i + 1 = j + 1
      BY <1>1 DEF Distinct
    <3> QED
      BY <3>1, <1>1, <1>4
  <2>3. \A i \in 1 .. Len(into), j \in 1 .. Len(rest) : into[i] # rest[j]
    <3> SUFFICES ASSUME NEW i \in 1 .. Len(into), NEW j \in 1 .. Len(rest)
                 PROVE  into[i] # rest[j]
      OBVIOUS
    <3>1. CASE i \in 1 .. Len(inbox)
      BY <1>1, <1>2, <3>1 DEF Distinct
    <3>2. CASE i = Len(inbox) + 1
      <4>1. 1 # j + 1
        BY <1>1, <1>4
      <4> QED
        BY <1>1, <1>2, <1>4, <3>2, <4>1 DEF Distinct
    <3> QED
      BY <1>4, <3>1, <3>2
  <2> QED
    BY <1>3, <1>5, <1>6, <2>1, <2>2, <2>3 DEF Distinct
<1>8. InLine'
  <2>1. \A i, j \in 1 .. Len(into) :
           IsPush(into[i]) /\ IsPush(into[j]) /\ i < j => into[i][2] < into[j][2]
    <3> SUFFICES ASSUME NEW i \in 1 .. Len(into), NEW j \in 1 .. Len(into),
                        IsPush(into[i]), IsPush(into[j]), i < j
                 PROVE  into[i][2] < into[j][2]
      OBVIOUS
    <3>1. i \in 1 .. Len(inbox)
      BY <1>2, <1>4
    <3>2. CASE j \in 1 .. Len(inbox)
      BY <1>2, <3>1, <3>2 DEF InLine, Rising
    <3>3. CASE j = Len(inbox) + 1
      BY <1>2, <1>4, <3>1, <3>3 DEF InLine
    <3> QED
      BY <1>4, <3>2, <3>3
  <2>2. \A i, j \in 1 .. Len(rest) :
           IsPush(rest[i]) /\ IsPush(rest[j]) /\ i < j => rest[i][2] < rest[j][2]
    <3> SUFFICES ASSUME NEW i \in 1 .. Len(rest), NEW j \in 1 .. Len(rest),
                        IsPush(rest[i]), IsPush(rest[j]), i < j
                 PROVE  rest[i][2] < rest[j][2]
      OBVIOUS
    <3>1. i + 1 < j + 1 /\ i + 1 \in 1 .. Len(wire) /\ j + 1 \in 1 .. Len(wire)
      BY <1>1, <1>4
    <3> QED
      BY <1>1, <3>1 DEF InLine, Rising
  <2>3. \A i \in 1 .. Len(into), j \in 1 .. Len(rest) :
           IsPush(into[i]) /\ IsPush(rest[j]) => into[i][2] < rest[j][2]
    <3> SUFFICES ASSUME NEW i \in 1 .. Len(into), NEW j \in 1 .. Len(rest),
                        IsPush(into[i]), IsPush(rest[j])
                 PROVE  into[i][2] < rest[j][2]
      OBVIOUS
    <3>1. CASE i \in 1 .. Len(inbox)
      BY <1>1, <1>2, <3>1 DEF InLine
    <3>2. CASE i = Len(inbox) + 1
      <4>1. 1 < j + 1 /\ j + 1 \in 1 .. Len(wire)
        BY <1>1, <1>4
      <4> QED
        BY <1>1, <1>2, <1>4, <3>2, <4>1 DEF InLine, Rising
    <3> QED
      BY <1>4, <3>1, <3>2
  <2>4. Rising(inbox)' /\ Rising(wire)'
    BY <1>3, <2>1, <2>2 DEF Rising, IsPush
  <2> QED
    BY <1>3, <2>3, <2>4 DEF InLine, IsPush
<1>9. Frames'
  BY <1>1, <1>2, <1>3 DEF Frames
<1> QED
  BY <1>7, <1>8, <1>9
--------------------------------------------------------------------------------
(* Types *)

LEMMA Types ==
    ASSUME TypeOK
    PROVE  /\ Frames /\ pushes \in Nat /\ pushes <= MaxPushes /\ calls \in Nat
           /\ calls <= MaxCalls /\ waiting \in [Callers -> 0 .. calls]
           /\ requests \subseteq 1 .. calls /\ handled \in Seq(1 .. pushes)
           /\ phase \in [Callers -> {"scan", "asleep", "last"}] /\ owed \subseteq 1 .. calls
           /\ frame \in Frame \cup {<<>>} /\ (frame = <<>> <=> dispatcher # "handling")
  BY LineClientAssumption DEF TypeOK, Frames

\* What is kept apart from the frames that are under way.
Plain ==
    /\ owner \in {"new", "connected", "joiningReader", "joiningDispatcher",
                  "joiningHeartbeat", "disconnected", "destroyed"}
    /\ {tcpRunning, running, shut, closed, handler, terminated} \subseteq BOOLEAN
    /\ reader \in {"none", "recv", "ended"}
    /\ dispatcher \in {"none", "idle", "handling", "ended"}
    /\ frame \in Frame \cup {<<>>} /\ (frame = <<>> <=> dispatcher # "handling")
    /\ requests \subseteq 1 .. calls /\ calls \in 0 .. MaxCalls
    /\ waiting \in [Callers -> 0 .. calls]
    /\ phase \in [Callers -> {"scan", "asleep", "last"}] /\ owed \subseteq 1 .. calls
    /\ pushes \in 0 .. MaxPushes /\ handled \in Seq(1 .. pushes)

LEMMA PlainIsType == ASSUME Frames, Distinct, Plain PROVE TypeOK
<1>1. DOMAIN inbox = 1 .. Len(inbox)
  BY DEF Frames
<1>2. IsInjective(inbox)
  BY <1>1 DEF Distinct, IsInjective
<1> QED
  BY <1>2 DEF Plain, TypeOK, Frames

LEMMA ServerPlain == ASSUME Plain, ServerPushes \/ ServerCloses PROVE Plain'
<1> USE LineClientAssumption DEF Plain
<1>1. CASE ServerPushes
  <2>1. 1 .. pushes \subseteq 1 .. pushes' /\ pushes' \in 0 .. MaxPushes
    BY <1>1 DEF ServerPushes
  <2>2. handled' = handled /\ handled \in Seq(1 .. pushes')
    BY <1>1, <2>1 DEF ServerPushes, threads
  <2> QED
    BY <1>1, <2>1, <2>2 DEF ServerPushes, threads, flags, rpcs
<1>2. CASE ServerCloses
  BY <1>2 DEF ServerCloses, threads, flags, rpcs
<1> QED
  BY <1>1, <1>2

LEMMA ThreadPlain ==
    ASSUME Frames, Dispatching, Plain,
                          \/ \E n \in requests : ServerAnswers(n)
                          \/ Reads \/ Dispatches
    PROVE  Plain'
<1> USE LineClientAssumption DEF Plain
<1>1. CASE \E n \in requests : ServerAnswers(n)
  BY <1>1 DEF ServerAnswers, threads, flags, rpcs
<1>2. CASE ReaderEnds
  BY <1>2 DEF ReaderEnds, flags, server, rpcs
<1>6. CASE ReaderReceives
  <2>1. Head(wire) = wire[1] /\ wire[1] \in Frame
    BY <1>6, HeadTailProperties, FramesAre DEF ReaderReceives, Frames
  <2>2. ASSUME NEW c \in Callers, Head(wire) = Answer(c) PROVE waiting[c] \in 1 .. calls
    <3>1. wire[1][2] \in 1 .. MaxCalls /\ waiting[c] = wire[1][2] /\ waiting[c] \in 0 .. calls
      BY <2>1, <2>2, FrameIs DEF Answer, IsPush
    <3> QED
      BY <3>1
  <2>3. owed' \subseteq 1 .. calls
    BY <1>6, <2>2 DEF ReaderReceives, Put
  <2> QED
    BY <1>6, <2>3 DEF ReaderReceives, Put, flags, server
<1>3. CASE DispatcherTakes
  <2>1. frame' \in Frame
    BY <1>3, FirstPushIs, FramesAre DEF DispatcherTakes, Frames
  <2>2. frame' # <<>>
    BY <2>1, FrameIs
  <2> QED
    BY <1>3, <2>1, <2>2 DEF DispatcherTakes, flags, server, rpcs
<1>4. CASE DispatcherHandles
  <2>1. IsPush(frame) /\ Sent(frame) /\ frame \in Frame
    BY <1>4 DEF Dispatching, DispatcherHandles
  <2>2. frame[2] \in 1 .. pushes
    BY <2>1, FrameIs DEF Sent
  <2>3. Append(handled, frame[2]) \in Seq(1 .. pushes) /\ handled \in Seq(1 .. pushes)
    BY <2>2, AppendProperties
  <2>4. handled' \in Seq(1 .. pushes) /\ pushes' = pushes
    BY <1>4, <2>3 DEF DispatcherHandles, server
  <2> QED
    BY <1>4, <2>4 DEF DispatcherHandles, flags, server, rpcs
<1>5. CASE DispatcherEnds
  BY <1>5 DEF DispatcherEnds, flags, server, rpcs
<1> QED
  BY <1>1, <1>2, <1>3, <1>4, <1>5, <1>6 DEF Dispatches, Reads

LEMMA CallPlain ==
    ASSUME Plain, NEW c \in Callers, CallSends(c) \/ CallFailsToSend(c) \/ Waits(c)
    PROVE  Plain'
<1> USE LineClientAssumption DEF Plain
<1>1. CASE CallSends(c)
  <2>1. calls' = calls + 1 /\ calls' \in 0 .. MaxCalls /\ calls \in Nat
    BY <1>1 DEF CallSends
  <2>2. 0 .. calls \subseteq 0 .. calls' /\ 1 .. calls \subseteq 1 .. calls'
    BY <2>1
  <2>3. waiting' \in [Callers -> 0 .. calls'] /\ requests' \subseteq 1 .. calls'
        /\ owed' \subseteq 1 .. calls'
    BY <1>1, <2>1, <2>2 DEF CallSends
  <2> QED
    BY <1>1, <2>1, <2>3 DEF CallSends, threads, flags
<1>2. CASE CallFailsToSend(c)
  <2>1. calls' = calls + 1 /\ calls' \in 0 .. MaxCalls /\ calls \in Nat
    BY <1>2 DEF CallFailsToSend
  <2>2. 0 .. calls \subseteq 0 .. calls' /\ 1 .. calls \subseteq 1 .. calls'
    BY <2>1
  <2> QED
    BY <1>2, <2>1, <2>2 DEF CallFailsToSend, threads, server
<1>3. CASE Waits(c)
  <2>1. /\ waiting' \in {waiting, [waiting EXCEPT ![c] = 0]} /\ calls' = calls
        /\ \E p \in {"scan", "asleep", "last"} : phase' = [phase EXCEPT ![c] = p]
        /\ owed' \subseteq owed /\ UNCHANGED <<threads, flags, server>>
    BY <1>3 DEF Waits, CallReturns, CallSleeps, CallWakes, CallGivesUp, Ends
  <2>4. waiting \in [Callers -> 0 .. calls] /\ 0 \in 0 .. calls
    OBVIOUS
  <2>5. waiting' \in [Callers -> 0 .. calls]
    BY <2>1, <2>4
  <2>2. waiting' \in [Callers -> 0 .. calls'] /\ owed' \subseteq 1 .. calls'
    BY <2>1, <2>5
  <2>3. phase' \in [Callers -> {"scan", "asleep", "last"}]
    <3> PICK p \in {"scan", "asleep", "last"} : phase' = [phase EXCEPT ![c] = p]
      BY <2>1
    <3>1. p \in {"scan", "asleep", "last"} /\ phase \in [Callers -> {"scan", "asleep", "last"}]
      OBVIOUS
    <3> QED
      BY <3>1
  <2> QED
    BY <2>1, <2>2, <2>3 DEF threads, flags, server
<1> QED
  BY <1>1, <1>2, <1>3

LEMMA OwnerPlain ==
    ASSUME Dispatching, Plain,
           Connect \/ SetPushHandler \/ StartDisconnect \/ Joins \/ Destroy
    PROVE  Plain'
<1> USE DEF Plain, flags, server, rpcs
<1>1. CASE Connect
  <2>1. frame' = <<>>
    BY <1>1 DEF Connect, Dispatching
  <2> QED
    BY <1>1, <2>1 DEF Connect
<1>2. CASE SetPushHandler \/ StartDisconnect
  BY <1>2 DEF SetPushHandler, StartDisconnect
<1>3. CASE Joins
  BY <1>3 DEF Joins, JoinReader, JoinDispatcher, JoinHeartbeat
<1>4. CASE Destroy
  BY <1>4 DEF Destroy
<1> QED
  BY <1>1, <1>2, <1>3, <1>4
--------------------------------------------------------------------------------
(* Which pushes are still to be taken *)

LEMMA DueAfterArrival ==
    ASSUME Frames, NEW new \in Frame, wire' = Append(wire, new), inbox' = inbox
    PROVE  \A m \in 1 .. MaxPushes : Due(m)' <=> Due(m) \/ new = <<"push", m>>
<1> DEFINE after == Append(wire, new)
<1>1. /\ Len(after) = Len(wire) + 1 /\ Len(wire) \in Nat
      /\ \A i \in 1 .. Len(wire) : after[i] = wire[i]
      /\ after[Len(wire) + 1] = new
  BY AppendProperties DEF Frames
<1>2. wire' = after
  OBVIOUS
<1> HIDE DEF after
<1>3. \A f \in Frame : Contains(after, f) <=> Contains(wire, f) \/ new = f
  BY <1>1 DEF Contains
<1>4. \A m \in 1 .. MaxPushes : <<"push", m>> \in Frame
  BY DEF Frame
<1> QED
  BY <1>2, <1>3, <1>4 DEF Due

LEMMA DueAfterReading ==
    ASSUME Frames, wire # <<>>, inbox' = Append(inbox, Head(wire)), wire' = Tail(wire)
    PROVE  \A m \in 1 .. MaxPushes : Due(m)' <=> Due(m)
<1> DEFINE into == Append(inbox, Head(wire))
           rest == Tail(wire)
<1>1. /\ Head(wire) = wire[1] /\ wire[1] \in Frame /\ Len(wire) \in Nat
      /\ Len(rest) = Len(wire) - 1 /\ Len(wire) >= 1
      /\ \A i \in 1 .. Len(rest) : rest[i] = wire[i + 1]
  BY HeadTailProperties DEF Frames
<1>2. /\ Len(into) = Len(inbox) + 1 /\ Len(inbox) \in Nat
      /\ \A i \in 1 .. Len(inbox) : into[i] = inbox[i]
      /\ into[Len(inbox) + 1] = wire[1]
  BY <1>1, AppendProperties DEF Frames
<1>3. wire' = rest /\ inbox' = into
  OBVIOUS
<1> HIDE DEF into, rest
<1>4. \A f \in Frame : Contains(into, f) <=> Contains(inbox, f) \/ wire[1] = f
  <2>1. \A i \in 1 .. Len(into) : i \in 1 .. Len(inbox) \/ i = Len(inbox) + 1
    BY <1>2
  <2>2. Len(inbox) + 1 \in 1 .. Len(into) /\ \A i \in 1 .. Len(inbox) : i \in 1 .. Len(into)
    BY <1>2
  <2> QED
    BY <1>2, <2>1, <2>2 DEF Contains
<1>5. \A f \in Frame : Contains(wire, f) <=> Contains(rest, f) \/ wire[1] = f
  <2> SUFFICES ASSUME NEW f \in Frame
               PROVE  Contains(wire, f) <=> Contains(rest, f) \/ wire[1] = f
    OBVIOUS
  <2>1. ASSUME NEW i \in 1 .. Len(wire), wire[i] = f, i # 1 PROVE Contains(rest, f)
    <3>1. i - 1 \in 1 .. Len(rest) /\ rest[i - 1] = wire[(i - 1) + 1] /\ (i - 1) + 1 = i
      BY <1>1, <2>1
    <3> QED
      BY <2>1, <3>1 DEF Contains
  <2>2. ASSUME NEW i \in 1 .. Len(rest), rest[i] = f PROVE Contains(wire, f)
    BY <1>1, <2>2, i + 1 \in 1 .. Len(wire) DEF Contains
  <2> QED
    BY <1>1, <2>1, <2>2, 1 \in 1 .. Len(wire) DEF Contains
<1>6. \A m \in 1 .. MaxPushes : <<"push", m>> \in Frame
  BY DEF Frame
<1> QED
  BY <1>3, <1>4, <1>5, <1>6 DEF Due

LEMMA DueAfterRemoval ==
    ASSUME Frames, Distinct, NEW k \in 1 .. Len(inbox), inbox' = RemoveAt(inbox, k),
           wire' = wire
    PROVE  \A m \in 1 .. MaxPushes : Due(m)' <=> Due(m) /\ inbox[k] # <<"push", m>>
<1> DEFINE new == RemoveAt(inbox, k)
<1>1. /\ Len(new) = Len(inbox) - 1
      /\ \A j \in 1 .. Len(inbox) - 1 : new[j] = IF j < k THEN inbox[j] ELSE inbox[j + 1]
  BY RemoveAtIs DEF Frames
<1>2. inbox' = new /\ Len(inbox) \in Nat
  BY FramesAre
<1> HIDE DEF new
<1>3. \A f \in Frame : Contains(new, f) <=> Contains(inbox, f) /\ inbox[k] # f
  <2> SUFFICES ASSUME NEW f \in Frame
               PROVE  Contains(new, f) <=> Contains(inbox, f) /\ inbox[k] # f
    OBVIOUS
  <2>1. ASSUME NEW i \in 1 .. Len(new), new[i] = f
        PROVE  Contains(inbox, f) /\ inbox[k] # f
    <3>1. PICK j \in 1 .. Len(inbox) : inbox[j] = f /\ j # k
      <4>1. CASE i < k
        BY <1>1, <1>2, <2>1, <4>1
      <4>2. CASE ~ (i < k)
        BY <1>1, <1>2, <2>1, <4>2, i + 1 \in 1 .. Len(inbox)
      <4> QED
        BY <4>1, <4>2
    <3> QED
      BY <3>1 DEF Contains, Distinct
  <2>2. ASSUME NEW i \in 1 .. Len(inbox), inbox[i] = f, i # k PROVE Contains(new, f)
    <3>1. CASE i < k
      BY <1>1, <1>2, <2>2, <3>1, i \in 1 .. Len(new) DEF Contains
    <3>2. CASE i > k
      <4>1. i - 1 \in 1 .. Len(new) /\ ~ (i - 1 < k) /\ (i - 1) + 1 = i
        BY <1>1, <1>2, <3>2
      <4>2. new[i - 1] = f
        BY <1>1, <2>2, <4>1
      <4> QED
        BY <4>1, <4>2 DEF Contains
    <3> QED
      BY <1>1, <1>2, <2>2, <3>1, <3>2
  <2> QED
    BY <2>1, <2>2 DEF Contains
<1>4. \A m \in 1 .. MaxPushes :
         <<"push", m>> \in Frame /\ ~ (\E j \in 1 .. Len(wire) :
             wire[j] = <<"push", m>> /\ inbox[k] = <<"push", m>>)
  BY DEF Frame, Distinct
<1> QED
  BY <1>2, <1>3, <1>4 DEF Due, Contains

\* The first push of the inbox is the next one.
LEMMA TakesNext ==
    ASSUME TypeOK, Distinct, InLine, \E i \in DOMAIN inbox : IsPush(inbox[i]),
           NEW n \in Nat, \A m \in 1 .. MaxPushes : Due(m) <=> n < m /\ m <= pushes
    PROVE  inbox[FirstPush] = <<"push", n + 1>> /\ n + 1 <= pushes
<1>1. Frames /\ pushes \in Nat /\ pushes <= MaxPushes /\ MaxPushes \in Nat
  BY Types, LineClientAssumption
<1> PICK k \in 1 .. Len(inbox) :
       /\ k = FirstPush /\ IsPush(inbox[k]) /\ inbox[k] \in Frame
       /\ \A j \in 1 .. Len(inbox) : IsPush(inbox[j]) => k <= j
  BY <1>1, FirstPushIs, FramesAre DEF Frames
<1> PICK p \in 1 .. MaxPushes : inbox[k] = <<"push", p>>
  BY FrameIs
<1>2. Due(p) /\ n < p /\ p <= pushes
  BY DEF Due, Contains
<1>3. n + 1 \in 1 .. MaxPushes /\ Due(n + 1)
  BY <1>1, <1>2
<1>4. p <= n + 1
  <2>1. CASE Contains(inbox, <<"push", n + 1>>)
    <3>1. PICK j \in 1 .. Len(inbox) : inbox[j] = <<"push", n + 1>>
      BY <2>1 DEF Contains
    <3>2. IsPush(inbox[j]) /\ k <= j /\ inbox[j][2] = n + 1 /\ inbox[k][2] = p
      BY <3>1 DEF IsPush
    <3>3. k < j => p < n + 1
      BY <3>2 DEF InLine, Rising
    <3>4. k = j => p = n + 1
      BY <3>2
    <3> QED
      BY <1>1, <3>2, <3>3, <3>4, FramesAre
  <2>2. CASE Contains(wire, <<"push", n + 1>>)
    <3>1. PICK j \in 1 .. Len(wire) : wire[j] = <<"push", n + 1>>
      BY <2>2 DEF Contains
    <3>2. IsPush(wire[j]) /\ wire[j][2] = n + 1 /\ inbox[k][2] = p
      BY <3>1 DEF IsPush
    <3> QED
      BY <3>2 DEF InLine
  <2> QED
    BY <1>3, <2>1, <2>2 DEF Due
<1>5. p = n + 1
  BY <1>2, <1>4
<1> QED
  BY <1>2, <1>5
--------------------------------------------------------------------------------
(* One step each *)

LEMMA Parts == IInv => Frames /\ Plain /\ Distinct /\ InLine /\ Dispatching /\ Linked
                       /\ PushesInOrder /\ TypeOK
  BY DEF IInv, TypeOK, Plain, Frames

LEMMA Together ==
    ASSUME Frames', Plain', Distinct', InLine', Dispatching', Linked', PushesInOrder'
    PROVE  IInv'
<1>1. TypeOK'
  <2>1. DOMAIN inbox' = 1 .. Len(inbox')
    BY DEF Frames
  <2>2. IsInjective(inbox)'
    BY <2>1 DEF Distinct, IsInjective
  <2> QED
    BY <2>2 DEF Plain, TypeOK, Frames
<1> QED
  BY <1>1 DEF IInv

\* Where the same pushes are due and nothing is taken or handled.
LEMMA SameLinked ==
    ASSUME Linked, \A m \in 1 .. MaxPushes : Due(m)' <=> Due(m),
           UNCHANGED <<frame, handled, pushes>>, handler => handler',
           owner' \in {"new", "connected"} => owner \in {"new", "connected"}
    PROVE  Linked'
<1> SUFFICES ASSUME owner' \in {"new", "connected"}
             PROVE  \E n \in 0 .. pushes' : TakenTo(n)'
  BY DEF Linked
<1> PICK n \in 0 .. pushes : TakenTo(n)
  BY DEF Linked
<1>1. TakenTo(n)'
  BY DEF TakenTo
<1> QED
  BY <1>1

LEMMA SameOrder ==
    ASSUME PushesInOrder, handled' = handled, owner' = "connected" => owner = "connected"
    PROVE  PushesInOrder'
  BY DEF PushesInOrder

LEMMA SameDue ==
    ASSUME UNCHANGED <<inbox, wire>>
    PROVE  \A m \in 1 .. MaxPushes : Due(m)' <=> Due(m)
  BY DEF Due

\* Where a push that was sent stays sent, and an answer that was given.
LEMMA SentOn ==
    ASSUME TypeOK, pushes' \in Nat, pushes' >= pushes, calls' \in Nat, calls' >= calls,
           \A n \in requests' : n \in requests \/ n > calls
    PROVE  StaysSent
<1> SUFFICES ASSUME NEW f \in Frame, Sent(f) PROVE Sent(f)'
  BY DEF StaysSent
<1>1. f[2] \in Nat /\ pushes \in Nat /\ calls \in Nat
  BY FrameIs, Types
<1> QED
  BY <1>1 DEF Sent, IsPush

LEMMA SameDispatching ==
    ASSUME IInv, StaysSent, UNCHANGED <<frame, dispatcher>>,
           owner' = "new" => owner = "new" /\ reader' = reader /\ pushes' = pushes,
           owner' \in Stopped => owner \in Stopped
    PROVE  Dispatching'
<1>1. frame' # <<>> => IsPush(frame)' /\ Sent(frame)'
  <2> SUFFICES ASSUME frame # <<>> PROVE IsPush(frame)' /\ Sent(frame)'
    OBVIOUS
  <2> PICK f \in Frame : f = frame /\ frame' = f
    BY Parts, Types
  <2>1. IsPush(f) /\ Sent(f)
    BY DEF IInv, Dispatching
  <2>2. Sent(f)'
    BY <2>1 DEF StaysSent
  <2> QED
    BY <2>1, <2>2 DEF Sent, IsPush
<1> QED
  BY <1>1 DEF IInv, Dispatching
LEMMA ServerPushesKeeps == ASSUME IInv, ServerPushes PROVE IInv'
<1> PICK new : new = <<"push", pushes + 1>>
  OBVIOUS
<1>1. /\ pushes' = pushes + 1 /\ wire' = Append(wire, new) /\ inbox' = inbox
      /\ UNCHANGED <<owner, reader, dispatcher, frame, handler, handled, calls, requests>>
      /\ pushes < MaxPushes /\ owner # "new"
  BY DEF ServerPushes, threads, rpcs
<1>2. /\ pushes \in Nat /\ calls \in Nat /\ MaxPushes \in Nat /\ new \in Frame
      /\ IsPush(new) /\ new[2] = pushes + 1
  <2>1. pushes \in Nat /\ calls \in Nat /\ MaxPushes \in Nat
    BY Parts, Types, LineClientAssumption
  <2> QED
    BY <1>1, <2>1 DEF Frame, IsPush
<1>3. StaysSent
  BY <1>1, <1>2, Parts, SentOn
<1>4. ~ Sent(new) /\ Sent(new)'
  BY <1>1, <1>2 DEF Sent, IsPush
<1>5. Distinct' /\ InLine' /\ Frames'
  BY <1>1, <1>2, <1>3, <1>4, Parts, ArrivalKeeps
<1>6. Plain' /\ Dispatching' /\ PushesInOrder'
  BY <1>1, <1>3, Parts, ServerPlain, SameDispatching, SameOrder
<1>7. Linked'
  <2> SUFFICES ASSUME owner' \in {"new", "connected"}
               PROVE  \E n \in 0 .. pushes' : TakenTo(n)'
    BY DEF Linked
  <2> PICK n \in 0 .. pushes : TakenTo(n)
    BY <1>1, Parts DEF Linked
  <2>1. \A m \in 1 .. MaxPushes : Due(m)' <=> Due(m) \/ new = <<"push", m>>
    BY <1>1, <1>2, Parts, DueAfterArrival
  <2>2. \A m \in 1 .. MaxPushes : new = <<"push", m>> <=> m = pushes + 1
    BY <1>2
  <2>3. \A m \in 1 .. MaxPushes : Due(m)' <=> n < m /\ m <= pushes + 1
    BY <1>2, <2>1, <2>2 DEF TakenTo
  <2>4. TakenTo(n)'
    BY <1>1, <2>3 DEF TakenTo
  <2> QED
    BY <1>1, <1>2, <2>4
<1> QED
  BY <1>5, <1>6, <1>7, Together

LEMMA ServerAnswersKeeps == ASSUME IInv, NEW n \in requests, ServerAnswers(n) PROVE IInv'
<1> PICK new : new = <<"answer", n>>
  OBVIOUS
<1>1. /\ requests' = requests \ {n} /\ wire' = Append(wire, new)
      /\ UNCHANGED <<inbox, owner, reader, dispatcher, frame, handler, handled, calls, pushes>>
  BY DEF ServerAnswers, threads, rpcs
<1>2. /\ pushes \in Nat /\ calls \in Nat /\ n \in 1 .. calls /\ new \in Frame
      /\ ~ IsPush(new) /\ new[2] = n /\ \A m \in 1 .. MaxPushes : new # <<"push", m>>
  <2>1. pushes \in Nat /\ calls \in Nat /\ calls <= MaxCalls /\ n \in 1 .. calls
    BY Parts, Types
  <2> QED
    BY <2>1, LineClientAssumption DEF Frame, IsPush
<1>3. StaysSent
  BY <1>1, <1>2, Parts, SentOn
<1>4. ~ Sent(new) /\ Sent(new)'
  BY <1>1, <1>2 DEF Sent, IsPush
<1>5. Distinct' /\ InLine' /\ Frames'
  BY <1>1, <1>2, <1>3, <1>4, Parts, ArrivalKeeps
<1>6. Plain' /\ Dispatching' /\ PushesInOrder'
  BY <1>1, <1>3, Parts, ThreadPlain, SameDispatching, SameOrder
<1>7. Linked'
  <2>1. \A m \in 1 .. MaxPushes : Due(m)' <=> Due(m) \/ new = <<"push", m>>
    BY <1>1, <1>2, Parts, DueAfterArrival
  <2> QED
    BY <1>1, <1>2, <2>1, Parts, SameLinked
<1> QED
  BY <1>5, <1>6, <1>7, Together

LEMMA ReaderReceivesKeeps == ASSUME IInv, ReaderReceives PROVE IInv'
<1>1. /\ wire # <<>> /\ inbox' = Append(inbox, Head(wire)) /\ wire' = Tail(wire)
      /\ UNCHANGED <<owner, dispatcher, frame, handler, handled, calls, pushes, requests>>
      /\ owner # "new"
  BY Parts DEF ReaderReceives, Put, server, Dispatching
<1>2. StaysSent
  BY <1>1, Parts, Types, SentOn
<1>3. Distinct' /\ InLine' /\ Frames'
  BY <1>1, <1>2, Parts, ReadingKeeps
<1>4. Plain'
  BY Parts, ThreadPlain DEF Reads
<1>5. Dispatching' /\ PushesInOrder'
  BY <1>1, <1>2, Parts, SameDispatching, SameOrder
<1>6. Linked'
  BY <1>1, Parts, DueAfterReading, SameLinked
<1> QED
  BY <1>3, <1>4, <1>5, <1>6, Together

\* A step that neither moves a frame nor takes one.
LEMMA AsideKeeps ==
    ASSUME IInv, Plain', StaysSent,
           UNCHANGED <<inbox, wire, owner, dispatcher, frame, handled, pushes>>,
           owner = "new" => reader' = reader, handler => handler'
    PROVE  IInv'
<1>1. Distinct' /\ InLine' /\ Frames'
  BY Parts, SameThins, ThinsKeeps
<1>2. Dispatching' /\ PushesInOrder'
  BY Parts, SameDispatching, SameOrder
<1>3. Linked'
  BY Parts, SameDue, SameLinked
<1> QED
  BY <1>1, <1>2, <1>3, Together

LEMMA AsidesKeep ==
    ASSUME IInv, \/ ServerCloses \/ ReaderEnds \/ SetPushHandler \/ UNCHANGED vars
                 \/ \E c \in Callers : CallSends(c) \/ CallFailsToSend(c) \/ CallSleeps(c)
                                       \/ CallWakes(c) \/ CallGivesUp(c)
    PROVE  IInv'
<1> USE DEF threads, flags, server, rpcs
<1>0. pushes \in Nat /\ calls \in Nat
  BY Parts, Types
<1>1. CASE ServerCloses
  <2>1. StaysSent
    BY <1>0, <1>1, Parts, SentOn DEF ServerCloses
  <2>2. Plain'
    BY <1>1, Parts, ServerPlain
  <2> QED
    BY <1>1, <2>1, <2>2, AsideKeeps DEF ServerCloses
<1>2. CASE ReaderEnds
  <2>1. StaysSent
    BY <1>0, <1>2, Parts, SentOn DEF ReaderEnds
  <2>2. Plain'
    BY <1>2, Parts, ThreadPlain DEF Reads
  <2>3. owner # "new"
    BY <1>2, Parts DEF Dispatching, ReaderEnds
  <2> QED
    BY <1>2, <2>1, <2>2, <2>3, AsideKeeps DEF ReaderEnds
<1>3. CASE SetPushHandler
  <2>1. StaysSent
    BY <1>0, <1>3, Parts, SentOn DEF SetPushHandler
  <2>2. Plain'
    BY <1>3, Parts, OwnerPlain
  <2> QED
    BY <1>3, <2>1, <2>2, AsideKeeps DEF SetPushHandler
<1>4. CASE UNCHANGED vars
  <2>1. StaysSent
    BY <1>0, <1>4, Parts, SentOn DEF vars
  <2>2. Plain'
    BY <1>4, Parts DEF vars, Plain
  <2> QED
    BY <1>4, <2>1, <2>2, AsideKeeps DEF vars
<1>5. ASSUME NEW c \in Callers, CallSends(c) \/ CallFailsToSend(c) \/ CallSleeps(c)
                                \/ CallWakes(c) \/ CallGivesUp(c)
      PROVE  IInv'
  <2>1. /\ UNCHANGED <<inbox, wire, owner, dispatcher, frame, handled, pushes, reader, handler>>
        /\ calls' \in {calls, calls + 1} /\ \A n \in requests' : n \in requests \/ n > calls
    BY <1>0, <1>5 DEF CallSends, CallFailsToSend, CallSleeps, CallWakes, CallGivesUp, Ends
  <2>2. StaysSent
    BY <1>0, <2>1, Parts, SentOn
  <2>3. Plain'
    BY <1>5, Parts, CallPlain DEF Waits
  <2> QED
    BY <2>1, <2>2, <2>3, AsideKeeps
<1> QED
  BY <1>1, <1>2, <1>3, <1>4, <1>5
LEMMA DispatcherTakesKeeps == ASSUME IInv, DispatcherTakes PROVE IInv'
<1>1. /\ \E i \in DOMAIN inbox : IsPush(inbox[i])
      /\ UNCHANGED <<wire, owner, reader, handler, handled, calls, pushes, requests>>
      /\ owner # "new" /\ owner \notin Stopped /\ frame = <<>>
  BY Parts, Types DEF DispatcherTakes, server, rpcs, Dispatching
<1>2. PICK k \in 1 .. Len(inbox) : k = FirstPush /\ IsPush(inbox[k])
  BY <1>1, Parts, FirstPushIs DEF Frames
<1>3. PICK f \in Frame : f = inbox[k] /\ IsPush(f) /\ Sent(f) /\ f = <<"push", f[2]>>
                         /\ f[2] \in Nat
  BY <1>2, Parts, FramesAre, FrameIs DEF Distinct
<1>4. frame' = f /\ inbox' = RemoveAt(inbox, k)
  BY <1>2, <1>3 DEF DispatcherTakes
<1>5. StaysSent
  BY <1>1, Parts, Types, SentOn
<1>6. Distinct' /\ InLine' /\ Frames'
  BY <1>1, <1>4, <1>5, Parts, RemovalThins, ThinsKeeps
<1>7. Plain' /\ PushesInOrder'
  BY <1>1, Parts, ThreadPlain, SameOrder DEF Dispatches
<1>8. Dispatching'
  <2>1. IsPush(f) /\ Sent(f)'
    BY <1>3, <1>5 DEF StaysSent
  <2>2. IsPush(frame)' /\ Sent(frame)'
    BY <1>4, <2>1 DEF Sent, IsPush
  <2> QED
    BY <1>1, <2>2 DEF Dispatching
<1>9. Linked'
  <2> SUFFICES ASSUME owner' \in {"new", "connected"}
               PROVE  \E n \in 0 .. pushes' : TakenTo(n)'
    BY DEF Linked
  <2> PICK n \in 0 .. pushes : TakenTo(n)
    BY <1>1, Parts DEF Linked
  <2>0. n \in Nat /\ pushes \in Nat
    BY Parts, Types
  <2>1. f = <<"push", n + 1>> /\ n + 1 <= pushes
    BY <1>1, <1>2, <1>3, <2>0, Parts, TakesNext DEF TakenTo
  <2>2. \A m \in 1 .. MaxPushes : Due(m)' <=> Due(m) /\ f # <<"push", m>>
    BY <1>1, <1>3, <1>4, Parts, DueAfterRemoval
  <2>3. \A m \in 1 .. MaxPushes : Due(m)' <=> n + 1 < m /\ m <= pushes
    <3> SUFFICES ASSUME NEW m \in 1 .. MaxPushes
                 PROVE  Due(m)' <=> n + 1 < m /\ m <= pushes
      OBVIOUS
    <3>1. f # <<"push", m>> <=> m # n + 1
      BY <2>1
    <3> QED
      BY <2>0, <2>2, <3>1 DEF TakenTo
  <2>4. f # <<>> /\ f[2] = n + 1
    BY <2>1
  <2>5. handled # <<>> => handler /\ handled[Len(handled)] = n
    BY <1>1 DEF TakenTo
  <2>6. TakenTo(n + 1)'
    BY <1>1, <1>4, <2>0, <2>3, <2>4, <2>5 DEF TakenTo
  <2> QED
    BY <1>1, <2>0, <2>1, <2>6
<1> QED
  BY <1>6, <1>7, <1>8, <1>9, Together

LEMMA DispatcherHandlesKeeps == ASSUME IInv, DispatcherHandles PROVE IInv'
<1>1. /\ UNCHANGED <<inbox, wire, owner, reader, handler, calls, pushes, requests>>
      /\ frame # <<>> /\ frame' = <<>> /\ dispatcher' # "handling"
      /\ handled' = IF handler THEN Append(handled, frame[2]) ELSE handled
      /\ owner # "new" /\ owner \notin Stopped
  BY Parts, Types DEF DispatcherHandles, server, rpcs, Dispatching
<1>2. StaysSent
  BY <1>1, Parts, Types, SentOn
<1>3. Distinct' /\ InLine' /\ Frames'
  BY <1>1, <1>2, Parts, SameThins, ThinsKeeps
<1>4. Plain' /\ Dispatching'
  BY <1>1, Parts, ThreadPlain DEF Dispatches, Dispatching
<1>5. /\ frame \in Frame /\ frame[2] \in Nat /\ pushes \in Nat
      /\ handled \in Seq(Nat) /\ Len(handled) \in Nat
  BY <1>1, Parts, Types, FrameIs
<1>6. handler => /\ Len(handled') = Len(handled) + 1 /\ handled' # <<>>
                 /\ \A i \in 1 .. Len(handled) : handled'[i] = handled[i]
                 /\ handled'[Len(handled) + 1] = frame[2]
  BY <1>1, <1>5, AppendProperties
<1>7. ASSUME owner = "connected"
      PROVE  \E n \in 0 .. pushes : /\ TakenTo(n)' /\ frame[2] = n
                                    /\ handled # <<>> => handled[Len(handled)] = n - 1
  <2> PICK n \in 0 .. pushes : TakenTo(n)
    BY <1>7, Parts DEF Linked
  <2>1. frame[2] = n /\ (handled # <<>> => handler /\ handled[Len(handled)] = n - 1)
    BY <1>1 DEF TakenTo
  <2>2. \A m \in 1 .. MaxPushes : Due(m)' <=> n < m /\ m <= pushes
    BY <1>1, SameDue DEF TakenTo
  <2>3. handled' # <<>> => handler /\ handled'[Len(handled')] = n
    BY <1>1, <1>6, <2>1
  <2>4. TakenTo(n)'
    BY <1>1, <2>2, <2>3 DEF TakenTo
  <2> QED
    BY <2>1, <2>4
<1>8. Linked'
  BY <1>1, <1>7 DEF Linked
<1>9. PushesInOrder'
  <2> SUFFICES ASSUME owner = "connected", handler, NEW i \in 1 .. Len(handled') - 1
               PROVE  handled'[i + 1] = handled'[i] + 1
    BY <1>1, Parts DEF PushesInOrder
  <2>1. CASE i \in 1 .. Len(handled) - 1
    BY <1>5, <1>6, <2>1, Parts DEF PushesInOrder
  <2>2. CASE i = Len(handled)
    <3>1. handled # <<>> /\ i \in 1 .. Len(handled)
      BY <1>6, <2>2
    <3>2. handled[i] = frame[2] - 1
      BY <1>7, <2>2, <3>1
    <3> QED
      BY <1>5, <1>6, <2>2, <3>1, <3>2
  <2> QED
    BY <1>5, <1>6, <2>1, <2>2
<1> QED
  BY <1>3, <1>4, <1>8, <1>9, Together

LEMMA DispatcherEndsKeeps == ASSUME IInv, DispatcherEnds PROVE IInv'
<1>1. /\ UNCHANGED <<inbox, wire, owner, reader, frame, handler, handled, calls, pushes, requests>>
      /\ frame = <<>> /\ owner # "new" /\ owner \notin Stopped
  BY Parts, Types DEF DispatcherEnds, server, rpcs, Dispatching
<1>2. StaysSent
  BY <1>1, Parts, Types, SentOn
<1>3. Distinct' /\ InLine' /\ Frames'
  BY <1>1, <1>2, Parts, SameThins, ThinsKeeps
<1>4. Plain' /\ Dispatching' /\ PushesInOrder'
  BY <1>1, Parts, ThreadPlain, SameOrder DEF Dispatches, Dispatching
<1>5. Linked'
  BY <1>1, Parts, SameDue, SameLinked
<1> QED
  BY <1>3, <1>4, <1>5, Together

LEMMA CallReturnsKeeps == ASSUME IInv, NEW c \in Callers, CallReturns(c) PROVE IInv'
<1>1. /\ UNCHANGED <<wire, owner, reader, dispatcher, frame, handler, handled, calls, pushes, requests>>
      /\ Contains(inbox, Answer(c)) /\ inbox' = RemoveFirst(inbox, Answer(c))
  BY DEF CallReturns, Ends, threads, server
<1>2. PICK k \in 1 .. Len(inbox) : inbox[k] = Answer(c) /\ inbox' = RemoveAt(inbox, k)
  BY <1>1, Parts, RemoveFirstIs DEF Frames
<1>3. StaysSent
  BY <1>1, Parts, Types, SentOn
<1>4. Distinct' /\ InLine' /\ Frames'
  BY <1>1, <1>2, <1>3, Parts, RemovalThins, ThinsKeeps
<1>5. Plain' /\ Dispatching' /\ PushesInOrder'
  BY <1>1, <1>3, Parts, CallPlain, SameDispatching, SameOrder DEF Waits
<1>6. Linked'
  <2>1. \A m \in 1 .. MaxPushes : inbox[k] # <<"push", m>>
    BY <1>2 DEF Answer
  <2>2. \A m \in 1 .. MaxPushes : Due(m)' <=> Due(m)
    BY <1>1, <1>2, <2>1, Parts, DueAfterRemoval
  <2> QED
    BY <1>1, <2>2, Parts, SameLinked
<1> QED
  BY <1>4, <1>5, <1>6, Together

LEMMA ConnectKeeps == ASSUME IInv, Connect PROVE IInv'
<1>1. /\ UNCHANGED <<inbox, wire, frame, handler, handled, calls, pushes, requests>>
      /\ owner = "new" /\ owner' = "connected" /\ dispatcher' = "idle"
  BY DEF Connect, server, rpcs
<1>2. StaysSent
  BY <1>1, Parts, Types, SentOn
<1>3. Distinct' /\ InLine' /\ Frames'
  BY <1>1, <1>2, Parts, SameThins, ThinsKeeps
<1>4. Plain'
  BY Parts, OwnerPlain
<1>5. Dispatching' /\ PushesInOrder'
  <2>1. pushes = 0 /\ handled \in Seq(1 .. pushes) /\ frame = <<>>
    BY <1>1, Parts, Types DEF Dispatching
  <2>2. Len(handled) = 0
    <3>1. ASSUME NEW i \in 1 .. Len(handled) PROVE FALSE
      <4>1. handled[i] \in 1 .. 0
        BY <2>1
      <4> QED
        BY <4>1
    <3> QED
      BY <2>1, <3>1
  <2> QED
    BY <1>1, <2>1, <2>2 DEF Dispatching, PushesInOrder, Stopped
<1>6. Linked'
  BY <1>1, Parts, SameDue, SameLinked
<1> QED
  BY <1>3, <1>4, <1>5, <1>6, Together

\* From the moment that the owner disconnects there is nothing left to show of the order.
LEMMA LeavingKeeps ==
    ASSUME IInv, Plain', Dispatching', wire' = wire, inbox' \in {inbox, <<>>},
           UNCHANGED <<frame, handled, pushes, calls, requests>>,
           owner' \notin {"new", "connected"}
    PROVE  IInv'
<1>1. StaysSent
  BY Parts, Types, SentOn
<1>2. Distinct' /\ InLine' /\ Frames'
  BY <1>1, Parts, SameThins, EmptyThins, ThinsKeeps
<1>3. Linked' /\ PushesInOrder'
  BY DEF Linked, PushesInOrder
<1> QED
  BY <1>2, <1>3, Together

LEMMA LeavesKeep == ASSUME IInv, StartDisconnect \/ Joins \/ Destroy PROVE IInv'
<1> USE DEF flags, server, rpcs
<1>1. Plain'
  BY Parts, OwnerPlain
<1>2. CASE StartDisconnect
  <2>1. /\ UNCHANGED <<wire, frame, handled, pushes, calls, requests, dispatcher>>
        /\ owner' \in {"joiningReader", "joiningDispatcher"} /\ inbox' \in {inbox, <<>>}
    BY <1>2 DEF StartDisconnect
  <2>2. Dispatching'
    BY <2>1, Parts DEF Dispatching, Stopped, Sent, IsPush
  <2> QED
    BY <1>1, <2>1, <2>2, LeavingKeeps
<1>3. CASE Joins
  <2>1. /\ UNCHANGED <<wire, frame, handled, pushes, calls, requests>>
        /\ owner' \in {"joiningDispatcher", "joiningHeartbeat", "disconnected"}
        /\ inbox' \in {inbox, <<>>}
    BY <1>3 DEF Joins, JoinReader, JoinDispatcher, JoinHeartbeat
  <2>2. owner' \in Stopped => dispatcher' = "none"
    BY <1>3, Parts DEF Joins, JoinReader, JoinDispatcher, JoinHeartbeat, Dispatching, Stopped
  <2>3. Dispatching'
    BY <2>1, <2>2, Parts DEF Dispatching, Sent, IsPush
  <2> QED
    BY <1>1, <2>1, <2>3, LeavingKeeps
<1>4. CASE Destroy
  <2>1. /\ UNCHANGED <<wire, inbox, frame, handled, pushes, calls, requests, dispatcher>>
        /\ owner = "disconnected" /\ owner' = "destroyed"
    BY <1>4 DEF Destroy
  <2>2. Dispatching'
    BY <2>1, Parts DEF Dispatching, Stopped, Sent, IsPush
  <2> QED
    BY <1>1, <2>1, <2>2, LeavingKeeps
<1> QED
  BY <1>2, <1>3, <1>4

--------------------------------------------------------------------------------
(* The client *)

LEMMA Initially == Init => IInv
<1> SUFFICES ASSUME Init PROVE IInv
  OBVIOUS
<1> USE LineClientAssumption DEF Init
<1>1. TypeOK
  <2>1. IsInjective(inbox)
    BY DEF IsInjective
  <2>2. requests \subseteq 1 .. calls /\ calls \in 0 .. MaxCalls /\ pushes \in 0 .. MaxPushes
        /\ waiting \in [Callers -> 0 .. calls] /\ owed \subseteq 1 .. calls
        /\ phase \in [Callers -> {"scan", "asleep", "last"}]
    OBVIOUS
  <2>3. handled \in Seq(1 .. pushes) /\ wire \in Seq(Frame) /\ inbox \in Seq(Frame)
    OBVIOUS
  <2> QED
    BY <2>1, <2>2, <2>3 DEF TypeOK
<1>2. Distinct /\ InLine /\ Dispatching /\ PushesInOrder
  BY DEF Distinct, InLine, Rising, Dispatching, Stopped, PushesInOrder
<1>3. TakenTo(0) /\ 0 \in 0 .. pushes
  BY DEF TakenTo, Due, Contains
<1> QED
  BY <1>1, <1>2, <1>3 DEF IInv, Linked

LEMMA Keeps == IInv /\ [Next]_vars => IInv'
<1> SUFFICES ASSUME IInv, [Next]_vars PROVE IInv'
  OBVIOUS
<1>1. CASE Next
  BY <1>1, ServerPushesKeeps, ServerAnswersKeeps, ReaderReceivesKeeps, AsidesKeep,
     DispatcherTakesKeeps, DispatcherHandlesKeeps, DispatcherEndsKeeps, CallReturnsKeeps,
     ConnectKeeps, LeavesKeep DEF Next, Reads, Dispatches, Waits
<1>2. CASE UNCHANGED vars
  BY <1>2, AsidesKeep
<1> QED
  BY <1>1, <1>2

LEMMA Always == Spec => []IInv
<1> QED
  BY Initially, Keeps, PTL DEF Spec

\* Every variable of the connection has its type, and no frame stands twice in the inbox
\* (reader_loop pushes each line once, wait_for erases what it returns).
THEOREM TypeCorrect == Spec => []TypeOK
<1>1. IInv => TypeOK
  BY DEF IInv
<1> QED
  BY <1>1, Always, PTL

\* While connected, the handler is called with every push once and in order, from the
\* first that it is called with (wait_for, dispatcher_loop).
THEOREM InOrder == Spec => []PushesInOrder
<1>1. IInv => PushesInOrder
  BY DEF IInv
<1> QED
  BY <1>1, Always, PTL

\* Once disconnect() has returned no push reaches the handler: the dispatcher was joined
\* before (ControlPlaneClient::disconnect).
THEOREM QuietAfter == Spec => QuietAfterDisconnect
<1>1. ASSUME IInv, [Next]_vars, owner \in {"disconnected", "destroyed"}
      PROVE  handled' = handled
  <2>1. dispatcher = "none"
    BY <1>1 DEF IInv, Dispatching, Stopped
  <2>2. CASE UNCHANGED vars
    BY <2>2 DEF vars, threads
  <2>3. CASE Next
    BY <2>1, <2>3 DEF Next, ServerPushes, ServerCloses, ServerAnswers, Reads, ReaderReceives,
       ReaderEnds, Dispatches, DispatcherTakes, DispatcherHandles, DispatcherEnds, CallSends,
       CallFailsToSend, Waits, CallReturns, CallSleeps, CallWakes, CallGivesUp, Ends, Connect,
       SetPushHandler,
       StartDisconnect, Joins, JoinReader, JoinDispatcher, JoinHeartbeat, Destroy, threads
  <2> QED
    BY <1>1, <2>2, <2>3
<1>2. IInv /\ [Next]_vars =>
         [(owner \in {"disconnected", "destroyed"}) => handled' = handled]_vars
  BY <1>1
<1> QED
  BY <1>2, Always, PTL DEF Spec, QuietAfterDisconnect

--------------------------------------------------------------------------------
(* What a waiting thread is owed *)

\* The frame of the answer to the n-th request.
AnswerTo(n) == <<"answer", n>>

OwedIsThere ==
    /\ owner = "new" => owed = {}
    /\ AnswerIsNotLost

\* The frames other than f that stand in the inbox stay.
Spares(f) == \A g \in Frame : g # f /\ Contains(inbox, g) => Contains(inbox, g)'

LEMMA OwedFrames == ASSUME IInv PROVE \A n \in owed : AnswerTo(n) \in Frame
  BY Parts, Types, LineClientAssumption DEF AnswerTo, Frame

LEMMA RemovalSpares ==
    ASSUME Frames, NEW k \in 1 .. Len(inbox), inbox' = RemoveAt(inbox, k)
    PROVE  Spares(inbox[k])
<1> DEFINE new == RemoveAt(inbox, k)
<1>0. /\ Len(new) = Len(inbox) - 1
      /\ \A j \in 1 .. Len(inbox) - 1 : new[j] = IF j < k THEN inbox[j] ELSE inbox[j + 1]
  BY RemoveAtIs DEF Frames
<1>1. /\ Len(new) = Len(inbox) - 1 /\ Len(inbox) \in Nat
      /\ \A j \in 1 .. Len(inbox) - 1 : new[j] = IF j < k THEN inbox[j] ELSE inbox[j + 1]
  BY <1>0, FramesAre
<1> HIDE DEF new
<1>2. ASSUME NEW i \in 1 .. Len(inbox), i # k PROVE Contains(new, inbox[i])
  <2>1. CASE i < k
    BY <1>1, <1>2, <2>1, i \in 1 .. Len(new) DEF Contains
  <2>2. CASE i > k
    <3>1. i - 1 \in 1 .. Len(new) /\ ~ (i - 1 < k) /\ (i - 1) + 1 = i
      BY <1>1, <2>2
    <3>2. new[i - 1] = inbox[i]
      BY <1>1, <3>1
    <3> QED
      BY <3>1, <3>2 DEF Contains
  <2> QED
    BY <1>1, <1>2, <2>1, <2>2
<1>3. inbox' = new
  BY DEF new
<1> QED
  BY <1>2, <1>3 DEF Spares, Contains

\* A caller that is owed an answer goes on waiting, and the answer stays.
LEMMA OwedKept ==
    ASSUME OwedIsThere, IInv, NEW f, Spares(f), owed' \subseteq owed,
           \A n \in owed' : AnswerTo(n) # f,
           \A n \in owed', c \in Callers : waiting[c] = n => waiting'[c] = n,
           owner' \in {"new", "connected"} => owner \in {"new", "connected"},
           owner' = "new" => owner = "new"
    PROVE  OwedIsThere'
<1>1. owner' = "new" => owed' = {}
  BY DEF OwedIsThere
<1>2. ASSUME owner' \in {"new", "connected"}, NEW n \in owed'
      PROVE  Contains(inbox, AnswerTo(n))' /\ \E c \in Callers : waiting'[c] = n
  <2>1. Contains(inbox, AnswerTo(n)) /\ \E c \in Callers : waiting[c] = n
    BY <1>2 DEF OwedIsThere, AnswerIsNotLost, AnswerTo
  <2>2. AnswerTo(n) \in Frame /\ AnswerTo(n) # f
    BY OwedFrames
  <2>3. Contains(inbox', AnswerTo(n))
    BY <2>1, <2>2 DEF Spares, Contains
  <2> QED
    BY <2>1, <2>3 DEF Contains, AnswerTo
<1> QED
  BY <1>1, <1>2 DEF OwedIsThere, AnswerIsNotLost, AnswerTo

LEMMA SameSpares == ASSUME inbox' = inbox PROVE \A f : Spares(f)
  BY DEF Spares, Contains

LEMMA OwedAside ==
    ASSUME OwedIsThere, IInv, UNCHANGED <<owed, waiting>>, inbox' = inbox,
           owner' \in {"new", "connected"} => owner \in {"new", "connected"},
           owner' = "new" => owner = "new"
    PROVE  OwedIsThere'
<1>1. Spares(<<>>)
  BY SameSpares
<1>2. \A n : AnswerTo(n) # <<>>
  BY DEF AnswerTo
<1> QED
  BY <1>1, <1>2, OwedKept

LEMMA ReaderOwes == ASSUME OwedIsThere, IInv, ReaderReceives PROVE OwedIsThere'
<1>1. /\ inbox' = Append(inbox, Head(wire)) /\ UNCHANGED <<owner, waiting>> /\ owner # "new"
      /\ owed' = owed \cup {waiting[c] : c \in {d \in Callers : Head(wire) = Answer(d)}}
  BY Parts DEF ReaderReceives, Put, Dispatching
<1>2. /\ Len(inbox') = Len(inbox) + 1 /\ Len(inbox) \in Nat
      /\ \A i \in 1 .. Len(inbox) : inbox'[i] = inbox[i]
      /\ inbox'[Len(inbox) + 1] = Head(wire)
  <2>1. Head(wire) \in Frame /\ inbox \in Seq(Frame)
    BY Parts, HeadTailProperties DEF ReaderReceives, Frames
  <2> QED
    BY <1>1, <2>1, AppendProperties
<1>3. \A g : Contains(inbox, g) => Contains(inbox', g)
  BY <1>2 DEF Contains
<1>4. Contains(inbox', Head(wire))
  BY <1>2, Len(inbox) + 1 \in 1 .. Len(inbox') DEF Contains
<1>5. ASSUME owner = "connected", NEW n \in owed'
      PROVE  Contains(inbox', AnswerTo(n)) /\ \E c \in Callers : waiting[c] = n
  <2>1. CASE n \in owed
    BY <1>3, <1>5, <2>1 DEF OwedIsThere, AnswerIsNotLost, AnswerTo
  <2>2. CASE n \notin owed
    <3> PICK c \in Callers : Head(wire) = Answer(c) /\ n = waiting[c]
      BY <1>1, <2>2
    <3> QED
      BY <1>4 DEF Answer, AnswerTo
  <2> QED
    BY <2>1, <2>2
<1> QED
  BY <1>1, <1>5 DEF OwedIsThere, AnswerIsNotLost, AnswerTo, Contains

LEMMA DispatcherOwes == ASSUME OwedIsThere, IInv, DispatcherTakes PROVE OwedIsThere'
<1>1. \E i \in DOMAIN inbox : IsPush(inbox[i])
  BY DEF DispatcherTakes
<1>2. PICK k \in 1 .. Len(inbox) : k = FirstPush /\ IsPush(inbox[k])
  BY <1>1, Parts, FirstPushIs DEF Frames
<1>3. inbox' = RemoveAt(inbox, k) /\ UNCHANGED <<owner, owed, waiting>>
  BY <1>2 DEF DispatcherTakes, rpcs
<1>4. Spares(inbox[k])
  BY <1>3, Parts, RemovalSpares
<1>5. \A n : AnswerTo(n) # inbox[k]
  BY <1>2 DEF AnswerTo, IsPush
<1> QED
  BY <1>3, <1>4, <1>5, OwedKept

LEMMA CallOwes ==
    ASSUME OwedIsThere, IInv, NEW c \in Callers,
           CallSends(c) \/ CallFailsToSend(c) \/ Waits(c)
    PROVE  OwedIsThere'
<1>0. /\ waiting \in [Callers -> 0 .. calls] /\ calls \in Nat /\ owed \subseteq 1 .. calls
  BY Parts, Types
<1>1. CASE CallSends(c)
  <2>1. /\ UNCHANGED <<inbox, owner, owed>> /\ waiting[c] = 0
        /\ \A d \in Callers : d # c => waiting'[d] = waiting[d]
    BY <1>0, <1>1 DEF CallSends, threads
  <2>2. \A n \in owed', d \in Callers : waiting[d] = n => waiting'[d] = n
    BY <1>0, <2>1
  <2>3. Spares(<<>>) /\ \A n : AnswerTo(n) # <<>>
    BY <2>1, SameSpares DEF AnswerTo
  <2> QED
    BY <2>1, <2>2, <2>3, OwedKept
<1>2. CASE CallFailsToSend(c) \/ CallSleeps(c) \/ CallWakes(c)
  BY <1>2, OwedAside DEF CallFailsToSend, CallSleeps, CallWakes, threads
<1>3. CASE CallGivesUp(c)
  <2>1. /\ UNCHANGED <<inbox, owner, owed>> /\ ~ Contains(inbox, AnswerTo(waiting[c]))
        /\ \A d \in Callers : d # c => waiting'[d] = waiting[d]
    BY <1>0, <1>3 DEF CallGivesUp, Ends, threads, Answer, AnswerTo
  <2>2. CASE owner \in {"new", "connected"}
    <3>1. waiting[c] \notin owed
      BY <2>1, <2>2 DEF OwedIsThere, AnswerIsNotLost, AnswerTo
    <3>2. \A n \in owed', d \in Callers : waiting[d] = n => waiting'[d] = n
      BY <2>1, <3>1
    <3>3. Spares(<<>>) /\ \A n : AnswerTo(n) # <<>>
      BY <2>1, SameSpares DEF AnswerTo
    <3> QED
      BY <2>1, <3>2, <3>3, OwedKept
  <2>3. CASE owner \notin {"new", "connected"}
    BY <2>1, <2>3 DEF OwedIsThere, AnswerIsNotLost
  <2> QED
    BY <2>2, <2>3
<1>4. CASE CallReturns(c)
  <2>1. /\ owner' = owner /\ owed' = owed \ {waiting[c]}
        /\ \A d \in Callers : d # c => waiting'[d] = waiting[d]
        /\ Contains(inbox, Answer(c)) /\ inbox' = RemoveFirst(inbox, Answer(c))
    BY <1>0, <1>4 DEF CallReturns, Ends, threads
  <2>2. PICK k \in 1 .. Len(inbox) : inbox[k] = Answer(c) /\ inbox' = RemoveAt(inbox, k)
    BY <2>1, Parts, RemoveFirstIs DEF Frames
  <2>3. Spares(Answer(c))
    BY <2>2, Parts, RemovalSpares
  <2>4. \A n \in owed' : AnswerTo(n) # Answer(c)
    BY <2>1 DEF AnswerTo, Answer
  <2>5. \A n \in owed', d \in Callers : waiting[d] = n => waiting'[d] = n
    BY <2>1
  <2> QED
    BY <2>1, <2>3, <2>4, <2>5, OwedKept
<1> QED
  BY <1>1, <1>2, <1>3, <1>4 DEF Waits

LEMMA OwnerOwes ==
    ASSUME OwedIsThere, IInv,
           Connect \/ SetPushHandler \/ StartDisconnect \/ Joins \/ Destroy
    PROVE  OwedIsThere'
<1> USE DEF flags, server, rpcs
<1>1. CASE Connect
  BY <1>1 DEF Connect, OwedIsThere, AnswerIsNotLost
<1>2. CASE SetPushHandler
  BY <1>2, OwedAside DEF SetPushHandler
<1>3. CASE StartDisconnect \/ Joins \/ Destroy
  <2>1. owner' \notin {"new", "connected"}
    BY <1>3 DEF StartDisconnect, Joins, JoinReader, JoinDispatcher, JoinHeartbeat, Destroy
  <2> QED
    BY <2>1 DEF OwedIsThere, AnswerIsNotLost
<1> QED
  BY <1>1, <1>2, <1>3

LEMMA OwedStays == ASSUME OwedIsThere, IInv, [Next]_vars PROVE OwedIsThere'
<1> USE DEF threads, flags, server, rpcs
<1>1. CASE \/ ServerPushes \/ ServerCloses \/ \E n \in requests : ServerAnswers(n)
  BY <1>1, OwedAside DEF ServerPushes, ServerCloses, ServerAnswers
<1>2. CASE ReaderEnds \/ DispatcherHandles \/ DispatcherEnds
  BY <1>2, OwedAside DEF ReaderEnds, DispatcherHandles, DispatcherEnds
<1>3. CASE UNCHANGED vars
  BY <1>3, OwedAside DEF vars
<1> QED
  BY <1>1, <1>2, <1>3, ReaderOwes, DispatcherOwes, CallOwes, OwnerOwes
     DEF Next, Reads, Dispatches

\* Until disconnect() is called no answer that came in while its caller was in wait_for is
\* lost: no other thread takes it, and the caller does not give up while it stands in the
\* inbox, whether it wakes by a notification, at its deadline, or because running_ is false.
THEOREM NoAnswerLost == Spec => []AnswerIsNotLost
<1>1. Init => OwedIsThere
  BY DEF Init, OwedIsThere, AnswerIsNotLost
<1>2. OwedIsThere => AnswerIsNotLost
  BY DEF OwedIsThere
<1> QED
  BY <1>1, <1>2, OwedStays, Always, PTL DEF Spec
================================================================================
