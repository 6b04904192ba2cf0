------------------------ MODULE ConversationSyncProofs ------------------------
(***************************************************************************)
(* What every behaviour of ConversationSync keeps.                         *)
(***************************************************************************)
EXTENDS ConversationSync, FiniteSetTheorems, WellFoundedInduction, TLAPS

--------------------------------------------------------------------------------
(* Numbers in ascending order *)

Below == {p \in Nat \X Nat : p[1] < p[2]}

LEMMA LeastNumber ==
    ASSUME NEW T \in SUBSET Nat, T # {}
    PROVE  \E x \in T : \A y \in T : x <= y
<1>1. IsWellFoundedOn(Below, Nat)
  BY NatLessThanWellFounded DEF OpToRel, Below
<1>2. PICK x \in T : \A y \in T : ~ (<<y, x>> \in Below)
  BY <1>1, WFMin
<1>3. \A y \in T : y \in Nat /\ x \in Nat /\ ~ (y < x)
  BY <1>2 DEF Below
<1> QED
  BY <1>3

Ascends(q) == \A i, j \in DOMAIN q : i < j => q[i] < q[j]

LEMMA UpTo ==
    ASSUME NEW n \in Nat, NEW S \in SUBSET (1 .. n)
    PROVE  IsFiniteSet(S) /\ Cardinality(S) \in Nat
<1>1. IsFiniteSet(1 .. n)
  BY FS_Interval
<1>2. IsFiniteSet(S)
  BY <1>1, FS_Subset
<1> QED
  BY <1>2, FS_CardinalityType

LEMMA GreatestAdded ==
    ASSUME NEW S, NEW T \in SUBSET Nat, NEW n \in Nat, NEW k \in Nat, NEW q \in [1 .. k -> T],
           T \subseteq S, n \in S, \A t \in T : t < n, Ascends(q)
    PROVE  \E r \in [1 .. k + 1 -> S] : Ascends(r)
<1> DEFINE r == [i \in 1 .. k + 1 |-> IF i <= k THEN q[i] ELSE n]
<1>1. \A i \in 1 .. k + 1 : i <= k => i \in 1 .. k
  OBVIOUS
<1>2. \A i \in 1 .. k : q[i] \in T /\ q[i] \in S
  OBVIOUS
<1>3. \A i \in 1 .. k + 1 : r[i] = IF i <= k THEN q[i] ELSE n
  OBVIOUS
<1>4. r \in [1 .. k + 1 -> S]
  BY <1>1, <1>2
<1> HIDE DEF r
<1>5. \A i, j \in 1 .. k : i < j => q[i] < q[j]
  BY DEF Ascends
<1>6. ASSUME NEW i \in 1 .. k + 1, NEW j \in 1 .. k + 1, i < j PROVE r[i] < r[j]
  <2>4. i <= k
    BY <1>6
  <2>5. i \in 1 .. k
    BY <1>1, <2>4
  <2>1. i \in 1 .. k /\ r[i] = q[i] /\ q[i] < n
    BY <1>2, <1>3, <2>4, <2>5
  <2>2. CASE j \in 1 .. k
    BY <1>3, <1>5, <1>6, <2>1, <2>2
  <2>3. CASE j = k + 1
    BY <1>3, <2>1, <2>3
  <2> QED
    BY <2>2, <2>3
<1>7. Ascends(r)
  BY <1>4, <1>6 DEF Ascends
<1> QED
  BY <1>4, <1>7

\* The last number goes last.
LEMMA OneMore ==
    ASSUME NEW n \in Nat \ {0}, NEW S \in SUBSET (1 .. n),
           \A T \in SUBSET (1 .. n - 1) : \E q \in [1 .. Cardinality(T) -> T] : Ascends(q)
    PROVE  \E q \in [1 .. Cardinality(S) -> S] : Ascends(q)
<1> DEFINE T == S \ {n}
<1>1. /\ T \in SUBSET (1 .. n - 1) /\ \A t \in T : t \in Nat /\ t < n
      /\ T \subseteq S /\ T \subseteq Nat /\ n - 1 \in Nat /\ n \in Nat
  OBVIOUS
<1>2. \E q \in [1 .. Cardinality(T) -> T] : Ascends(q)
  BY <1>1
<1>3. CASE n \notin S
  BY <1>2, <1>3
<1>4. CASE n \in S
  <2>1. IsFiniteSet(T) /\ Cardinality(T) \in Nat /\ IsFiniteSet(S)
    BY <1>1, UpTo
  <2>2. Cardinality(T) = Cardinality(S) - 1 /\ Cardinality(S) \in Nat
    BY <1>4, <2>1, FS_RemoveElement, FS_CardinalityType
  <2> HIDE DEF T
  <2>3. Cardinality(S) = Cardinality(T) + 1
    BY <2>1, <2>2
  <2>4. \E r \in [1 .. Cardinality(T) + 1 -> S] : Ascends(r)
    BY <1>1, <1>2, <1>4, <2>1, GreatestAdded
  <2> QED
    BY <2>3, <2>4
<1> QED
  BY <1>3, <1>4

LEMMA AscendingExists ==
    ASSUME NEW n \in Nat, NEW S \in SUBSET (1 .. n)
    PROVE  \E q \in [1 .. Cardinality(S) -> S] : Ascends(q)
<1> DEFINE Good(m) == \A T \in SUBSET (1 .. m) : \E q \in [1 .. Cardinality(T) -> T] : Ascends(q)
           Bad == {m \in Nat : ~ Good(m)}
<1>1. Good(0)
  <2> SUFFICES ASSUME NEW T \in SUBSET (1 .. 0)
               PROVE  \E q \in [1 .. Cardinality(T) -> T] : Ascends(q)
    OBVIOUS
  <2>3. T = {}
    OBVIOUS
  <2>1. T = {} /\ Cardinality(T) = 0
    BY <2>3, FS_EmptySet
  <2>2. [i \in 1 .. 0 |-> i] \in [1 .. 0 -> T] /\ Ascends([i \in 1 .. 0 |-> i])
    BY DEF Ascends
  <2> QED
    BY <2>1, <2>2
<1>2. ASSUME NEW m \in Nat \ {0}, Good(m - 1) PROVE Good(m)
  BY <1>2, OneMore
<1> HIDE DEF Good
<1>3. Bad = {}
  <2> SUFFICES ASSUME Bad # {} PROVE FALSE
    OBVIOUS
  <2>1. PICK m \in Bad : \A k \in Bad : m <= k
    BY LeastNumber
  <2>2. m # 0
    BY <1>1, <2>1
  <2>3. m - 1 \in Nat /\ ~ (m <= m - 1)
    BY <2>1, <2>2
  <2>4. Good(m - 1)
    BY <2>1, <2>3
  <2> QED
    BY <1>2, <2>1, <2>2, <2>4
<1>4. Good(n)
  BY <1>3
<1> QED
  BY <1>4 DEF Good

\* Ascending lists the set: each of its numbers, and once.
LEMMA AscendingIs ==
    ASSUME NEW n \in Nat, NEW S \in SUBSET (1 .. n)
    PROVE  /\ Cardinality(S) \in Nat
           /\ Ascending(S) \in [1 .. Cardinality(S) -> S]
           /\ \A i, j \in 1 .. Cardinality(S) : i < j => Ascending(S)[i] < Ascending(S)[j]
           /\ \A s \in S : \E i \in 1 .. Cardinality(S) : Ascending(S)[i] = s
<1> DEFINE k == Cardinality(S)
           q == Ascending(S)
<1>1. k \in Nat /\ IsFiniteSet(S)
  BY UpTo
<1>2. \E r \in [1 .. k -> S] : \A i, j \in DOMAIN r : i < j => r[i] < r[j]
  BY AscendingExists DEF Ascends
<1>3. q \in [1 .. k -> S] /\ \A i, j \in DOMAIN q : i < j => q[i] < q[j]
  BY <1>2 DEF Ascending
<1> HIDE DEF q, k
<1>11. DOMAIN q = 1 .. k
  BY <1>3
<1>4. \A i, j \in 1 .. k : i < j => q[i] < q[j]
  BY <1>3, <1>11
<1>12. \A i \in 1 .. k : q[i] \in S
  BY <1>3
<1>13. \A s \in S : s \in Nat
  OBVIOUS
<1>5. \A i \in 1 .. k : q[i] \in Nat
  BY <1>12, <1>13
<1>6. \A i, j \in 1 .. k : q[i] = q[j] => i = j
  <2> SUFFICES ASSUME NEW i \in 1 .. k, NEW j \in 1 .. k, i # j PROVE q[i] # q[j]
    OBVIOUS
  <2>1. i < j \/ j < i
    BY <1>1
  <2>2. q[i] \in Nat /\ q[j] \in Nat /\ (q[i] < q[j] \/ q[j] < q[i])
    BY <1>4, <1>5, <2>1
  <2> QED
    BY <2>2
<1>7. q \in Injection(1 .. k, S)
  BY <1>3, <1>6 DEF Injection, IsInjective
<1>8. IsFiniteSet(1 .. k) /\ Cardinality(1 .. k) = k
  BY <1>1, FS_Interval
<1>9. q \in Surjection(1 .. k, S)
  BY <1>1, <1>7, <1>8, FS_Injection DEF k
<1>10. \A s \in S : \E i \in 1 .. k : q[i] = s
  BY <1>9 DEF Surjection
<1> QED
  BY <1>1, <1>3, <1>4, <1>10 DEF q, k

\* What a sequence has at the places of a set, and no more.
LEMMA AtIs ==
    ASSUME NEW V, NEW q \in Seq(V), NEW S \in SUBSET (1 .. Len(q))
    PROVE  /\ At(q, S) \in Seq(V) /\ Len(At(q, S)) = Cardinality(S)
           /\ \A i \in 1 .. Len(At(q, S)) :
                 Ascending(S)[i] \in S /\ At(q, S)[i] = q[Ascending(S)[i]]
           /\ \A i, j \in 1 .. Len(At(q, S)) : i < j => Ascending(S)[i] < Ascending(S)[j]
           /\ \A s \in S : \E i \in 1 .. Len(At(q, S)) :
                 Ascending(S)[i] = s /\ At(q, S)[i] = q[s]
<1> DEFINE k == Cardinality(S)
           a == Ascending(S)
<1>1. Len(q) \in Nat /\ \A i \in 1 .. Len(q) : q[i] \in V
  OBVIOUS
<1>2. /\ k \in Nat /\ a \in [1 .. k -> S]
      /\ \A i, j \in 1 .. k : i < j => a[i] < a[j]
      /\ \A s \in S : \E i \in 1 .. k : a[i] = s
  BY <1>1, AscendingIs
<1>3. At(q, S) = [i \in DOMAIN a |-> q[a[i]]]
  BY DEF At
<1> HIDE DEF k, a
<1>4. DOMAIN a = 1 .. k /\ \A i \in 1 .. k : a[i] \in S /\ q[a[i]] \in V
  BY <1>1, <1>2
<1>5. At(q, S) = [i \in 1 .. k |-> q[a[i]]]
  BY <1>3, <1>4
<1>6. At(q, S) \in Seq(V) /\ Len(At(q, S)) = k
  BY <1>2, <1>4, <1>5
<1>7. \A i \in 1 .. k : At(q, S)[i] = q[a[i]]
  BY <1>5
<1> QED
  BY <1>2, <1>4, <1>6, <1>7 DEF k, a
--------------------------------------------------------------------------------
(* What messages, pushes, changes and copies are *)

Body == Text \cup {Cleared}
Said == Body \cup {Liked, PinnedText}
Id   == 0 .. MaxMessages

Kind == {"message_deliver", "message_edited", "message_deleted", "read_marker",
         "message_reaction_updated", "message_pin_updated", "conversation_updated"}

Message == [text : Body, deleted : BOOLEAN, reaction : {Cleared, Liked},
            pinned : BOOLEAN, scheduled : BOOLEAN]

\* A push or a change says what a field of a message, or the marker, is now.
Event(e) ==
    /\ e.kind \in Kind /\ e.id \in Id /\ e.text \in Said
    /\ e.kind = "message_deliver" => e.text \in Body /\ e.id # NoId
    /\ e.kind = "message_edited" => e.text \in Body
    /\ e.kind = "message_reaction_updated" => e.text \in {Cleared, Liked}

Told   == {e \in [kind : Kind, id : Id, text : Said] : Event(e)}
Logged == {c \in [version : Nat, kind : Kind, id : Id, text : Said] : Event(c)}

Copy == [known : BOOLEAN, held : Seq(Entry), cursor : Id, version : Nat,
         marker : Id, before : Id]

Answered == [messages : Seq(Entry), changes : Seq(Logged), version : Nat,
             marker : Id, nextBefore : Id]

Field == {"text", "deleted", "reaction", "pinned"}

Of(m, f) == CASE f = "text"     -> m.text
              [] f = "deleted"  -> m.deleted
              [] f = "reaction" -> m.reaction
              [] f = "pinned"   -> m.pinned

Rewriting == {"message_edited", "message_deleted", "message_reaction_updated",
              "message_pin_updated"}

\* The event rewrites the field of a message that is held, and what it says of it.
Concerns(e, f, id) ==
    /\ e.id = id
    /\ \/ e.kind = "message_edited" /\ f = "text"
       \/ e.kind = "message_deleted" /\ f \in {"text", "deleted"}
       \/ e.kind = "message_reaction_updated" /\ f = "reaction"
       \/ e.kind = "message_pin_updated" /\ f = "pinned"

Says(e, f) == CASE f = "text"     -> IF e.kind = "message_deleted" THEN Cleared ELSE e.text
                [] f = "deleted"  -> e.kind = "message_deleted"
                [] f = "reaction" -> IF e.kind = "message_deliver" THEN Cleared ELSE e.text
                [] f = "pinned"   -> e.kind = "message_pin_updated" /\ e.text = PinnedText

--------------------------------------------------------------------------------
(* What an event does to a copy *)

\* The entry after is the one before, with one field rewritten.
Touched(m, e, after) ==
    /\ after \in Entry /\ after.id = m.id
    /\ \A f \in Field :
          Of(after, f) = IF Concerns(e, f, m.id) THEN Says(e, f) ELSE Of(m, f)

LEMMA EntryTouched ==
    ASSUME NEW m \in Entry, NEW e, Event(e), NEW after,
           \/ after = m /\ (m.id # e.id \/ e.kind \notin Rewriting)
           \/ m.id = e.id /\ e.kind = "message_edited" /\ after = [m EXCEPT !.text = e.text]
           \/ /\ m.id = e.id /\ e.kind = "message_deleted"
              /\ after = [m EXCEPT !.text = Cleared, !.deleted = TRUE]
           \/ /\ m.id = e.id /\ e.kind = "message_reaction_updated"
              /\ after = [m EXCEPT !.reaction = e.text]
           \/ /\ m.id = e.id /\ e.kind = "message_pin_updated"
              /\ after = [m EXCEPT !.pinned = (e.text = PinnedText)]
    PROVE  Touched(m, e, after)
<1>1. after \in Entry /\ after.id = m.id
  BY DEF Entry, Event, Body
<1>2. ASSUME NEW f \in Field
      PROVE  Of(after, f) = IF Concerns(e, f, m.id) THEN Says(e, f) ELSE Of(m, f)
  <2>1. CASE f = "text"
    BY <2>1 DEF Entry, Of, Concerns, Says, Rewriting
  <2>2. CASE f = "deleted"
    BY <2>2 DEF Entry, Of, Concerns, Says, Rewriting
  <2>3. CASE f = "reaction"
    BY <2>3 DEF Entry, Of, Concerns, Says, Rewriting
  <2>4. CASE f = "pinned"
    BY <2>4 DEF Entry, Of, Concerns, Says, Rewriting
  <2> QED
    BY <2>1, <2>2, <2>3, <2>4 DEF Field
<1> QED
  BY <1>1, <1>2 DEF Touched
\* The copy after is the one before, but for a field of a message, or the marker.
Changed(st, e, after) ==
    /\ after \in Copy
    /\ after.known = st.known /\ after.cursor = st.cursor
    /\ after.version = st.version /\ after.before = st.before
    /\ after.marker = IF e.kind = "read_marker" /\ e.id # NoId THEN e.id ELSE st.marker
    /\ Len(after.held) = Len(st.held)
    /\ \A i \in 1 .. Len(st.held) : Touched(st.held[i], e, after.held[i])

LEMMA CopyIs ==
    ASSUME NEW st \in Copy
    PROVE  /\ st.held \in Seq(Entry) /\ Len(st.held) \in Nat
           /\ DOMAIN st.held = 1 .. Len(st.held)
           /\ \A i \in 1 .. Len(st.held) : st.held[i] \in Entry
           /\ st.known \in BOOLEAN /\ st.cursor \in Id /\ st.version \in Nat
           /\ st.marker \in Id /\ st.before \in Id
<1>1. st.held \in Seq(Entry)
  BY DEF Copy
<1> QED
  BY <1>1 DEF Copy

\* Another list of the same length in place of the one that is held.
LEMMA HeldRewritten ==
    ASSUME NEW st \in Copy, NEW e, Event(e), e.kind # "read_marker", NEW held, NEW after,
           held = [i \in DOMAIN st.held |-> held[i]],
           after = [st EXCEPT !.held = held],
           \A i \in 1 .. Len(st.held) : Touched(st.held[i], e, held[i])
    PROVE  Changed(st, e, after)
<1>1. st.held \in Seq(Entry) /\ DOMAIN st.held = 1 .. Len(st.held) /\ Len(st.held) \in Nat
  BY CopyIs
<1>2. \A i \in 1 .. Len(st.held) : held[i] \in Entry
  BY DEF Touched
<1>3. held \in Seq(Entry) /\ Len(held) = Len(st.held)
  BY <1>1, <1>2
<1>4. after.held = held /\ after \in Copy
  BY <1>3 DEF Copy
<1> QED
  BY <1>3, <1>4 DEF Changed, Copy

LEMMA AppliedIs ==
    ASSUME NEW st \in Copy, NEW e, Event(e)
    PROVE  Changed(st, e, Applied(st, e))
<1> DEFINE n == Len(st.held)
<1>1. /\ st.held \in Seq(Entry) /\ DOMAIN st.held = 1 .. n /\ n \in Nat
      /\ \A i \in 1 .. n : st.held[i] \in Entry
  BY CopyIs
<1> HIDE DEF n
<1>2. CASE e.kind = "message_edited"
  <2> DEFINE held == [i \in DOMAIN st.held |->
                        IF st.held[i].id = e.id THEN [st.held[i] EXCEPT !.text = e.text]
                        ELSE st.held[i]]
  <2>1. Applied(st, e) = [st EXCEPT !.held = held]
    BY <1>2 DEF Applied, Edited, Rewritten
  <2>2. \A i \in 1 .. n : Touched(st.held[i], e, held[i])
    BY <1>1, <1>2, EntryTouched
  <2>3. held = [i \in DOMAIN st.held |-> held[i]]
    OBVIOUS
  <2> HIDE DEF held
  <2> QED
    BY <1>2, <2>1, <2>2, <2>3, HeldRewritten DEF n
<1>3. CASE e.kind = "message_deleted"
  <2> DEFINE held == [i \in DOMAIN st.held |->
                        IF st.held[i].id = e.id
                        THEN [st.held[i] EXCEPT !.text = Cleared, !.deleted = TRUE]
                        ELSE st.held[i]]
  <2>1. Applied(st, e) = [st EXCEPT !.held = held]
    BY <1>3 DEF Applied, Deleted, Rewritten
  <2>2. \A i \in 1 .. n : Touched(st.held[i], e, held[i])
    BY <1>1, <1>3, EntryTouched
  <2>3. held = [i \in DOMAIN st.held |-> held[i]]
    OBVIOUS
  <2> HIDE DEF held
  <2> QED
    BY <1>3, <2>1, <2>2, <2>3, HeldRewritten DEF n
<1>4. CASE e.kind = "message_reaction_updated"
  <2> DEFINE held == [i \in DOMAIN st.held |->
                        IF st.held[i].id = e.id
                        THEN [st.held[i] EXCEPT !.reaction = e.text] ELSE st.held[i]]
  <2>1. Applied(st, e) = [st EXCEPT !.held = held]
    BY <1>4 DEF Applied, Reacted, Rewritten
  <2>2. \A i \in 1 .. n : Touched(st.held[i], e, held[i])
    BY <1>1, <1>4, EntryTouched
  <2>3. held = [i \in DOMAIN st.held |-> held[i]]
    OBVIOUS
  <2> HIDE DEF held
  <2> QED
    BY <1>4, <2>1, <2>2, <2>3, HeldRewritten DEF n
<1>5. CASE e.kind = "message_pin_updated"
  <2> DEFINE held == [i \in DOMAIN st.held |->
                        IF st.held[i].id = e.id
                        THEN [st.held[i] EXCEPT !.pinned = (e.text = PinnedText)]
                        ELSE st.held[i]]
  <2>1. Applied(st, e) = [st EXCEPT !.held = held]
    BY <1>5 DEF Applied, Pinned, Rewritten
  <2>2. \A i \in 1 .. n : Touched(st.held[i], e, held[i])
    BY <1>1, <1>5, EntryTouched
  <2>3. held = [i \in DOMAIN st.held |-> held[i]]
    OBVIOUS
  <2> HIDE DEF held
  <2> QED
    BY <1>5, <2>1, <2>2, <2>3, HeldRewritten DEF n
<1>6. CASE e.kind \notin Rewriting
  <2>1. \A i \in 1 .. n : Touched(st.held[i], e, st.held[i])
    BY <1>1, <1>6, EntryTouched
  <2>2. CASE e.kind = "read_marker"
    <3>1. Applied(st, e) = IF e.id = NoId THEN st ELSE [st EXCEPT !.marker = e.id]
      BY <2>2 DEF Applied, Marked
    <3> QED
      BY <2>1, <2>2, <3>1 DEF Changed, Copy, Event, n
  <2>3. CASE e.kind # "read_marker"
    <3>1. Applied(st, e) = st
      BY <1>6, <2>3 DEF Applied, Rewriting, Event, Kind
    <3> QED
      BY <2>1, <2>3, <3>1 DEF Changed, n
  <2> QED
    BY <2>2, <2>3
<1> QED
  BY <1>2, <1>3, <1>4, <1>5, <1>6 DEF Rewriting
\* Read or written: as elements, not as places.
LEMMA Elements ==
    ASSUME NEW st \in Copy
    PROVE  /\ \A m : m \in ToSet(st.held) <=> \E i \in 1 .. Len(st.held) : m = st.held[i]
           /\ \A id : Holds(st, id) <=> \E i \in 1 .. Len(st.held) : st.held[i].id = id
  BY CopyIs DEF ToSet, Holds

LEMMA ChangedElements ==
    ASSUME NEW st \in Copy, NEW e, NEW after, Changed(st, e, after)
    PROVE  /\ \A m \in ToSet(after.held) : \E was \in ToSet(st.held) : Touched(was, e, m)
           /\ \A id : Holds(after, id) <=> Holds(st, id)
<1>1. after \in Copy
  BY DEF Changed
<1>2. /\ Len(after.held) = Len(st.held)
      /\ \A i \in 1 .. Len(st.held) : Touched(st.held[i], e, after.held[i])
  BY DEF Changed
<1>3. \A i \in 1 .. Len(st.held) : after.held[i].id = st.held[i].id
  BY <1>2 DEF Touched
<1>8. \A m : m \in ToSet(after.held) <=> \E i \in 1 .. Len(after.held) : m = after.held[i]
  BY <1>1, Elements
<1>4. \A m : m \in ToSet(after.held) => \E i \in 1 .. Len(st.held) : m = after.held[i]
  BY <1>2, <1>8
<1>5. \A i \in 1 .. Len(st.held) : st.held[i] \in ToSet(st.held)
  BY Elements
<1>6. \A id : Holds(after, id) <=> Holds(st, id)
  BY <1>1, <1>2, <1>3, Elements
<1>7. \A m \in ToSet(after.held) : \E was \in ToSet(st.held) : Touched(was, e, m)
  BY <1>2, <1>4, <1>5
<1> QED
  BY <1>6, <1>7

LEMMA ChangedFits ==
    ASSUME NEW st \in Copy, NEW e, NEW after, Changed(st, e, after),
           st.cursor # NoId => Holds(st, st.cursor)
    PROVE  after.cursor # NoId => Holds(after, after.cursor)
  BY ChangedElements DEF Changed

LEMMA NotHeldIs ==
    ASSUME NEW st \in Copy, NEW messages \in Seq(Entry)
    PROVE  /\ NotHeld(st, messages) \in Seq(Entry)
           /\ \A i \in 1 .. Len(NotHeld(st, messages)) :
                 \E k \in 1 .. Len(messages) :
                    NotHeld(st, messages)[i] = messages[k] /\ ~ Holds(st, messages[k].id)
           /\ \A k \in 1 .. Len(messages) :
                 ~ Holds(st, messages[k].id) =>
                    \E i \in 1 .. Len(NotHeld(st, messages)) :
                       NotHeld(st, messages)[i] = messages[k]
<1> DEFINE S == {k \in DOMAIN messages : ~ Holds(st, messages[k].id)}
<1>1. S \in SUBSET (1 .. Len(messages)) /\ DOMAIN messages = 1 .. Len(messages)
      /\ NotHeld(st, messages) = At(messages, S)
  BY DEF NotHeld
<1>2. \A k \in 1 .. Len(messages) : k \in S <=> ~ Holds(st, messages[k].id)
  BY <1>1
<1> HIDE DEF S
<1>3. /\ At(messages, S) \in Seq(Entry)
      /\ \A i \in 1 .. Len(At(messages, S)) :
            Ascending(S)[i] \in S /\ At(messages, S)[i] = messages[Ascending(S)[i]]
      /\ \A s \in S : \E i \in 1 .. Len(At(messages, S)) :
            Ascending(S)[i] = s /\ At(messages, S)[i] = messages[s]
  BY <1>1, AtIs
<1> DEFINE new == NotHeld(st, messages)
           a   == Ascending(S)
<1>4. /\ new \in Seq(Entry)
      /\ \A i \in 1 .. Len(new) : a[i] \in S /\ new[i] = messages[a[i]]
      /\ \A s \in S : \E i \in 1 .. Len(new) : new[i] = messages[s]
  BY <1>1, <1>3
<1> HIDE DEF new, a
<1>5. \A i \in 1 .. Len(new) :
         \E k \in 1 .. Len(messages) : new[i] = messages[k] /\ ~ Holds(st, messages[k].id)
  BY <1>1, <1>2, <1>4
<1>6. \A k \in 1 .. Len(messages) :
         ~ Holds(st, messages[k].id) => \E i \in 1 .. Len(new) : new[i] = messages[k]
  BY <1>2, <1>4
<1> QED
  BY <1>4, <1>5, <1>6 DEF new

\* What upsert_message leaves: what came, and what was held of other messages.
LEMMA UpsertedIs ==
    ASSUME NEW st \in Copy, NEW messages \in Seq(Entry)
    PROVE  LET after == Upserted(st, messages) IN
           /\ after \in Copy
           /\ after.known = st.known /\ after.version = st.version
           /\ after.marker = st.marker /\ after.before = st.before
           /\ \A m \in ToSet(after.held) :
                 \/ m \in ToSet(messages)
                 \/ m \in ToSet(st.held) /\ \A other \in ToSet(messages) : other.id # m.id
           /\ \A m \in ToSet(messages) : Holds(after, m.id)
           /\ \A id : Holds(st, id) => Holds(after, id)
           /\ (st.cursor # NoId => Holds(st, st.cursor)) =>
                 (after.cursor # NoId => Holds(after, after.cursor))
<1> DEFINE n == Len(st.held)
           incoming(id) == CHOOSE m \in ToSet(messages) : m.id = id
           replaced == [i \in DOMAIN st.held |->
                            IF \E m \in ToSet(messages) : m.id = st.held[i].id
                            THEN incoming(st.held[i].id) ELSE st.held[i]]
           new  == NotHeld(st, messages)
           held == replaced \o new
           after == Upserted(st, messages)
<1>1. /\ st.held \in Seq(Entry) /\ DOMAIN st.held = 1 .. n /\ n \in Nat
      /\ \A i \in 1 .. n : st.held[i] \in Entry
  BY CopyIs
<1>2. /\ ToSet(messages) \subseteq Entry
      /\ \A m : m \in ToSet(messages) <=> \E k \in 1 .. Len(messages) : m = messages[k]
  BY DEF ToSet
<1>3. after = [st EXCEPT !.held = held,
                         !.cursor = IF messages = <<>> THEN st.cursor ELSE held[Len(held)].id]
  BY DEF Upserted
<1>4. /\ new \in Seq(Entry) /\ Len(new) \in Nat
      /\ \A i \in 1 .. Len(new) :
            new[i] \in ToSet(messages) /\ ~ Holds(st, new[i].id)
      /\ \A m \in ToSet(messages) :
            ~ Holds(st, m.id) => \E i \in 1 .. Len(new) : new[i] = m
  <2>1. /\ new \in Seq(Entry)
        /\ \A i \in 1 .. Len(new) :
              \E k \in 1 .. Len(messages) :
                 new[i] = messages[k] /\ ~ Holds(st, messages[k].id)
        /\ \A k \in 1 .. Len(messages) :
              ~ Holds(st, messages[k].id) => \E i \in 1 .. Len(new) : new[i] = messages[k]
    BY NotHeldIs
  <2> HIDE DEF new
  <2>2. \A i \in 1 .. Len(new) : new[i] \in ToSet(messages) /\ ~ Holds(st, new[i].id)
    <3> SUFFICES ASSUME NEW i \in 1 .. Len(new)
                 PROVE  new[i] \in ToSet(messages) /\ ~ Holds(st, new[i].id)
      OBVIOUS
    <3>1. PICK k \in 1 .. Len(messages) : new[i] = messages[k] /\ ~ Holds(st, messages[k].id)
      BY <2>1
    <3> QED
      BY <1>2, <3>1
  <2>3. \A m \in ToSet(messages) :
            ~ Holds(st, m.id) => \E i \in 1 .. Len(new) : new[i] = m
    <3> SUFFICES ASSUME NEW m \in ToSet(messages), ~ Holds(st, m.id)
                 PROVE  \E i \in 1 .. Len(new) : new[i] = m
      OBVIOUS
    <3>1. PICK k \in 1 .. Len(messages) : m = messages[k]
      BY <1>2
    <3> QED
      BY <2>1, <3>1
  <2> QED
    BY <2>1, <2>2, <2>3
<1>5. \A i \in 1 .. n :
         \/ /\ replaced[i] \in ToSet(messages) /\ replaced[i].id = st.held[i].id
         \/ /\ replaced[i] = st.held[i]
            /\ \A m \in ToSet(messages) : m.id # st.held[i].id
  <2> SUFFICES ASSUME NEW i \in 1 .. n
               PROVE  \/ /\ replaced[i] \in ToSet(messages) /\ replaced[i].id = st.held[i].id
                      \/ /\ replaced[i] = st.held[i]
                         /\ \A m \in ToSet(messages) : m.id # st.held[i].id
    OBVIOUS
  <2>1. CASE \E m \in ToSet(messages) : m.id = st.held[i].id
    <3>1. replaced[i] = incoming(st.held[i].id)
      BY <1>1, <2>1
    <3>2. incoming(st.held[i].id) \in ToSet(messages)
          /\ incoming(st.held[i].id).id = st.held[i].id
      BY <2>1
    <3> QED
      BY <3>1, <3>2
  <2>2. CASE ~ \E m \in ToSet(messages) : m.id = st.held[i].id
    BY <1>1, <2>2
  <2> QED
    BY <2>1, <2>2
<1>6. DOMAIN replaced = 1 .. n
  BY <1>1
<1>7. replaced = [i \in DOMAIN replaced |-> replaced[i]]
  OBVIOUS
<1> HIDE DEF replaced, new, n
<1>8. replaced \in Seq(Entry) /\ Len(replaced) = n
  <2>1. \A i \in 1 .. n : replaced[i] \in Entry
    BY <1>1, <1>2, <1>5
  <2> QED
    BY <1>1, <1>6, <1>7, <2>1
<1>9. /\ held \in Seq(Entry) /\ Len(held) = n + Len(new)
      /\ \A i \in 1 .. n : held[i] = replaced[i]
      /\ \A i \in 1 .. Len(new) : n + i \in 1 .. Len(held) /\ held[n + i] = new[i]
  <2>1. PICK q \in Seq(Entry), r \in Seq(Entry) : q = replaced /\ r = new
    BY <1>4, <1>8
  <2>2. /\ q \o r \in Seq(Entry) /\ Len(q \o r) = Len(q) + Len(r)
        /\ \A i \in 1 .. Len(q) : (q \o r)[i] = q[i]
        /\ \A i \in 1 .. Len(r) :
              Len(q) + i \in 1 .. Len(q \o r) /\ (q \o r)[Len(q) + i] = r[i]
    OBVIOUS
  <2>3. held = q \o r /\ Len(q) = n
    BY <1>8, <2>1
  <2> HIDE DEF held
  <2> QED
    BY <2>1, <2>2, <2>3
<1>10. \A i \in 1 .. Len(held) : i \in 1 .. n \/ \E j \in 1 .. Len(new) : i = n + j
  <2> SUFFICES ASSUME NEW i \in 1 .. Len(held), i \notin 1 .. n
               PROVE  \E j \in 1 .. Len(new) : i = n + j
    OBVIOUS
  <2>1. i - n \in 1 .. Len(new) /\ i = n + (i - n)
    BY <1>1, <1>4, <1>9
  <2> QED
    BY <2>1
<1>13. \A i \in 1 .. n : i \in 1 .. Len(held)
  BY <1>1, <1>4, <1>9
<1> HIDE DEF held
<1>11. messages # <<>> => Len(held) \in 1 .. Len(held)
  <2> SUFFICES ASSUME messages # <<>> PROVE Len(held) # 0
    BY <1>9, <1>1, <1>4
  <2>1. Len(messages) # 0 /\ Len(messages) \in Nat
    OBVIOUS
  <2>2. PICK m \in ToSet(messages) : m = messages[1]
    BY <1>2, <2>1
  <2>3. CASE Holds(st, m.id)
    BY <1>1, <1>4, <1>9, <2>3, Elements DEF n
  <2>4. CASE ~ Holds(st, m.id)
    BY <1>1, <1>4, <1>9, <2>2, <2>4
  <2> QED
    BY <2>3, <2>4
<1>12. \A i \in 1 .. Len(held) : held[i] \in Entry /\ held[i].id \in Id
  <2>1. \A m \in Entry : m.id \in Id
    BY BoundsAssumption DEF Entry, Id
  <2> QED
    BY <1>9, <2>1
<1>14. after.held = held /\ after \in Copy /\ after.known = st.known
       /\ after.version = st.version /\ after.marker = st.marker /\ after.before = st.before
       /\ after.cursor = IF messages = <<>> THEN st.cursor ELSE held[Len(held)].id
  BY <1>3, <1>9, <1>11, <1>12 DEF Copy
<1> HIDE DEF after
<1>15. \A m \in ToSet(after.held) :
          \/ m \in ToSet(messages)
          \/ m \in ToSet(st.held) /\ \A other \in ToSet(messages) : other.id # m.id
  <2> SUFFICES ASSUME NEW i \in 1 .. Len(held)
               PROVE  \/ held[i] \in ToSet(messages)
                      \/ /\ held[i] \in ToSet(st.held)
                         /\ \A other \in ToSet(messages) : other.id # held[i].id
    <3>1. \A m : m \in ToSet(after.held) <=> \E i \in 1 .. Len(after.held) : m = after.held[i]
      BY <1>14, Elements
    <3> QED
      BY <1>14, <3>1
  <2>1. CASE i \in 1 .. n
    <3>1. st.held[i] \in ToSet(st.held)
      BY <2>1, Elements DEF n
    <3> QED
      BY <1>5, <1>9, <2>1, <3>1
  <2>2. CASE \E j \in 1 .. Len(new) : i = n + j
    BY <1>4, <1>9, <2>2
  <2> QED
    BY <1>10, <2>1, <2>2
<1>16. \A id : Holds(st, id) => Holds(after, id)
  <2> SUFFICES ASSUME NEW i \in 1 .. n PROVE Holds(after, st.held[i].id)
    BY Elements DEF n
  <2>1. held[i].id = st.held[i].id /\ i \in 1 .. Len(held)
    BY <1>5, <1>9, <1>13
  <2> QED
    BY <1>14, <2>1, Elements
<1>17. \A m \in ToSet(messages) : Holds(after, m.id)
  <2> SUFFICES ASSUME NEW m \in ToSet(messages), ~ Holds(st, m.id) PROVE Holds(after, m.id)
    BY <1>16
  <2>1. PICK i \in 1 .. Len(new) : new[i] = m
    BY <1>4
  <2> QED
    BY <1>9, <1>14, <2>1, Elements
<1>18. (st.cursor # NoId => Holds(st, st.cursor)) =>
          (after.cursor # NoId => Holds(after, after.cursor))
  BY <1>11, <1>14, <1>16, Elements
<1> QED
  BY <1>14, <1>15, <1>16, <1>17, <1>18 DEF after
--------------------------------------------------------------------------------
(* What a log does to a copy, change by change *)

IsMarker(e) == e.kind = "read_marker" /\ e.id # NoId

\* The field of the entry after is the last one that the first n changes say, or what
\* it was when none concerns it.
LastSaid(was, m, changes, n, f) ==
    \/ Of(m, f) = Of(was, f) /\ \A k \in 1 .. n : ~ Concerns(changes[k], f, was.id)
    \/ \E k \in 1 .. n :
          /\ Concerns(changes[k], f, was.id) /\ Of(m, f) = Says(changes[k], f)
          /\ \A j \in k + 1 .. n : ~ Concerns(changes[j], f, was.id)

LastMarker(st, after, changes, n) ==
    \/ after.marker = st.marker /\ \A k \in 1 .. n : ~ IsMarker(changes[k])
    \/ \E k \in 1 .. n :
          /\ IsMarker(changes[k]) /\ after.marker = changes[k].id
          /\ \A j \in k + 1 .. n : ~ IsMarker(changes[j])

\* The copy after the first n changes.
Replays(st, changes, n, after) ==
    /\ after \in Copy
    /\ after.known = st.known /\ after.cursor = st.cursor /\ after.before = st.before
    /\ after.version >= st.version
    /\ \A v \in Nat : (st.version <= v /\ \A k \in 1 .. n : changes[k].version <= v)
                         => after.version <= v
    /\ LastMarker(st, after, changes, n)
    /\ Len(after.held) = Len(st.held)
    /\ \A i \in 1 .. Len(st.held) :
          /\ after.held[i].id = st.held[i].id
          /\ \A f \in Field : LastSaid(st.held[i], after.held[i], changes, n, f)

LEMMA ChangeAppliedIs ==
    ASSUME NEW st \in Copy, NEW c \in Logged
    PROVE  \E x \in Copy : /\ Changed(st, c, x)
                           /\ ChangeApplied(st, c) = Versioned(x, c.version)
<1>1. Event(c) /\ c.version \in Nat
  BY DEF Logged
<1>2. Changed(st, c, Applied(st, c)) /\ Applied(st, c) \in Copy
  BY <1>1, AppliedIs DEF Changed
<1> QED
  BY <1>2 DEF ChangeApplied

LEMMA VersionedIs ==
    ASSUME NEW st \in Copy, NEW v \in Nat
    PROVE  LET after == Versioned(st, v) IN
           /\ after \in Copy /\ after.known = st.known /\ after.held = st.held
           /\ after.cursor = st.cursor /\ after.marker = st.marker /\ after.before = st.before
           /\ after.version >= st.version /\ after.version >= v
           /\ after.version = st.version \/ after.version = v
  BY DEF Versioned, Copy

LEMMA LastSaidNext ==
    ASSUME NEW was, NEW m, NEW next, NEW changes, NEW n \in Nat, NEW f \in Field,
           LastSaid(was, m, changes, n, f), m.id = was.id,
           Of(next, f) = IF Concerns(changes[n + 1], f, m.id) THEN Says(changes[n + 1], f)
                         ELSE Of(m, f)
    PROVE  LastSaid(was, next, changes, n + 1, f)
<1>1. CASE Concerns(changes[n + 1], f, was.id)
  <2>1. \A j \in n + 2 .. n + 1 : FALSE
    OBVIOUS
  <2>2. n + 1 \in 1 .. n + 1 /\ (n + 1) + 1 = n + 2
    OBVIOUS
  <2> QED
    BY <1>1, <2>1, <2>2 DEF LastSaid
<1>2. CASE ~ Concerns(changes[n + 1], f, was.id)
  <2>1. Of(next, f) = Of(m, f)
    BY <1>2
  <2>2. \A k \in 1 .. n + 1 : k \in 1 .. n \/ k = n + 1
    OBVIOUS
  <2>3. CASE Of(m, f) = Of(was, f) /\ \A k \in 1 .. n : ~ Concerns(changes[k], f, was.id)
    BY <1>2, <2>1, <2>2, <2>3 DEF LastSaid
  <2>4. CASE \E k \in 1 .. n :
                /\ Concerns(changes[k], f, was.id) /\ Of(m, f) = Says(changes[k], f)
                /\ \A j \in k + 1 .. n : ~ Concerns(changes[j], f, was.id)
    <3>1. PICK k \in 1 .. n : /\ Concerns(changes[k], f, was.id)
                              /\ Of(m, f) = Says(changes[k], f)
                              /\ \A j \in k + 1 .. n : ~ Concerns(changes[j], f, was.id)
      BY <2>4
    <3>2. \A j \in k + 1 .. n + 1 : j \in k + 1 .. n \/ j = n + 1
      OBVIOUS
    <3>3. \A j \in k + 1 .. n + 1 : ~ Concerns(changes[j], f, was.id)
      BY <1>2, <3>1, <3>2
    <3>4. k \in 1 .. n + 1
      OBVIOUS
    <3> QED
      BY <2>1, <3>1, <3>3, <3>4 DEF LastSaid
  <2> QED
    BY <2>3, <2>4 DEF LastSaid
<1> QED
  BY <1>1, <1>2

LEMMA LastMarkerNext ==
    ASSUME NEW st, NEW x, NEW next, NEW changes, NEW n \in Nat,
           LastMarker(st, x, changes, n),
           next.marker = IF IsMarker(changes[n + 1]) THEN changes[n + 1].id ELSE x.marker
    PROVE  LastMarker(st, next, changes, n + 1)
<1>1. CASE IsMarker(changes[n + 1])
  <2>1. \A j \in n + 2 .. n + 1 : FALSE
    OBVIOUS
  <2>2. n + 1 \in 1 .. n + 1 /\ (n + 1) + 1 = n + 2
    OBVIOUS
  <2> QED
    BY <1>1, <2>1, <2>2 DEF LastMarker
<1>2. CASE ~ IsMarker(changes[n + 1])
  <2>2. \A k \in 1 .. n + 1 : k \in 1 .. n \/ k = n + 1
    OBVIOUS
  <2>3. CASE x.marker = st.marker /\ \A k \in 1 .. n : ~ IsMarker(changes[k])
    BY <1>2, <2>2, <2>3 DEF LastMarker
  <2>4. CASE \E k \in 1 .. n :
                /\ IsMarker(changes[k]) /\ x.marker = changes[k].id
                /\ \A j \in k + 1 .. n : ~ IsMarker(changes[j])
    <3>1. PICK k \in 1 .. n : /\ IsMarker(changes[k]) /\ x.marker = changes[k].id
                              /\ \A j \in k + 1 .. n : ~ IsMarker(changes[j])
      BY <2>4
    <3>2. \A j \in k + 1 .. n + 1 : j \in k + 1 .. n \/ j = n + 1
      OBVIOUS
    <3>3. \A j \in k + 1 .. n + 1 : ~ IsMarker(changes[j])
      BY <1>2, <3>1, <3>2
    <3>4. k \in 1 .. n + 1
      OBVIOUS
    <3> QED
      BY <1>2, <3>1, <3>3, <3>4 DEF LastMarker
  <2> QED
    BY <2>3, <2>4 DEF LastMarker
<1> QED
  BY <1>1, <1>2

LEMMA ReplaysNext ==
    ASSUME NEW st \in Copy, NEW changes \in Seq(Logged), NEW n \in Nat,
           n + 1 <= Len(changes), NEW x, Replays(st, changes, n, x)
    PROVE  Replays(st, changes, n + 1, ChangeApplied(x, changes[n + 1]))
<1> DEFINE c == changes[n + 1]
           next == ChangeApplied(x, c)
<1>1. c \in Logged /\ c.version \in Nat
  <2>1. n + 1 \in 1 .. Len(changes)
    OBVIOUS
  <2>2. c \in Logged
    BY <2>1
  <2> QED
    BY <2>2 DEF Logged
<1>2. x \in Copy
  BY DEF Replays
<1>3. PICK y \in Copy : Changed(x, c, y) /\ next = Versioned(y, c.version)
  BY <1>1, <1>2, ChangeAppliedIs
<1>4. /\ next \in Copy /\ next.known = y.known /\ next.held = y.held
      /\ next.cursor = y.cursor /\ next.marker = y.marker /\ next.before = y.before
      /\ next.version >= y.version
      /\ next.version = y.version \/ next.version = c.version
  <2>1. PICK v \in Nat : v = c.version
    BY <1>1
  <2>2. next = Versioned(y, v)
    BY <1>3, <2>1
  <2> HIDE DEF next
  <2> QED
    BY <2>1, <2>2, VersionedIs
<1>5. st.version \in Nat /\ x.version \in Nat /\ next.version \in Nat
  BY <1>2, <1>4, CopyIs
<1> HIDE DEF next
<1>6. /\ next.known = st.known /\ next.cursor = st.cursor /\ next.before = st.before
      /\ next.version >= st.version /\ Len(next.held) = Len(st.held)
  BY <1>3, <1>4, <1>5 DEF Changed, Replays
<1>7. ASSUME NEW v \in Nat, st.version <= v, \A k \in 1 .. n + 1 : changes[k].version <= v
      PROVE  next.version <= v
  <2>1. \A k \in 1 .. n : changes[k].version <= v
    BY <1>7
  <2>2. x.version <= v
    BY <1>7, <2>1 DEF Replays
  <2>3. y.version = x.version /\ c.version <= v
    BY <1>3, <1>7 DEF Changed
  <2> QED
    BY <1>4, <2>2, <2>3
<1>8. LastMarker(st, next, changes, n + 1)
  BY <1>3, <1>4, LastMarkerNext DEF Replays, Changed, IsMarker
<1>9. ASSUME NEW i \in 1 .. Len(st.held)
      PROVE  /\ next.held[i].id = st.held[i].id
             /\ \A f \in Field : LastSaid(st.held[i], next.held[i], changes, n + 1, f)
  <2>1. /\ x.held[i].id = st.held[i].id /\ i \in 1 .. Len(x.held)
        /\ \A f \in Field : LastSaid(st.held[i], x.held[i], changes, n, f)
    BY DEF Replays
  <2>2. Touched(x.held[i], c, next.held[i])
    BY <1>3, <1>4, <2>1 DEF Changed
  <2>3. next.held[i].id = st.held[i].id
    BY <2>1, <2>2 DEF Touched
  <2>4. ASSUME NEW f \in Field
        PROVE  LastSaid(st.held[i], next.held[i], changes, n + 1, f)
    <3>1. Of(next.held[i], f) = IF Concerns(c, f, x.held[i].id) THEN Says(c, f)
                                ELSE Of(x.held[i], f)
      BY <2>2 DEF Touched
    <3>2. LastSaid(st.held[i], x.held[i], changes, n, f)
      BY <2>1
    <3> QED
      BY <2>1, <3>1, <3>2, LastSaidNext
  <2> QED
    BY <2>3, <2>4
<1> QED
  BY <1>4, <1>6, <1>7, <1>8, <1>9 DEF Replays, next
LEMMA ReplayedIs ==
    ASSUME NEW st \in Copy, NEW changes \in Seq(Logged)
    PROVE  Replays(st, changes, Len(changes), Replayed(st, changes))
<1> DEFINE n == Len(changes)
           Runs(g, m) == g = [k \in 0 .. m |->
                                IF k = 0 THEN st ELSE ChangeApplied(g[k - 1], changes[k])]
           Stuck == {m \in Nat : ~ \E g : Runs(g, m)}
<1>1. n \in Nat
  OBVIOUS
<1>2. ASSUME NEW m \in Nat, NEW g, Runs(g, m) PROVE \E h : Runs(h, m + 1)
  <2> DEFINE h == [k \in 0 .. m + 1 |->
                     IF k <= m THEN g[k] ELSE ChangeApplied(g[m], changes[m + 1])]
  <2>1. \A k \in 0 .. m : g[k] = IF k = 0 THEN st ELSE ChangeApplied(g[k - 1], changes[k])
    BY <1>2
  <2>2. \A k \in 0 .. m : k \in 0 .. m + 1 /\ h[k] = g[k]
    OBVIOUS
  <2>3. h[m + 1] = ChangeApplied(g[m], changes[m + 1])
    OBVIOUS
  <2>4. \A k \in 0 .. m + 1 :
           h[k] = IF k = 0 THEN st ELSE ChangeApplied(h[k - 1], changes[k])
    <3> HIDE DEF h
    <3> SUFFICES ASSUME NEW k \in 0 .. m + 1
                 PROVE  h[k] = IF k = 0 THEN st ELSE ChangeApplied(h[k - 1], changes[k])
      OBVIOUS
    <3>1. CASE k = 0
      BY <2>1, <2>2, <3>1
    <3>2. CASE k = m + 1
      <4>1. k # 0 /\ k - 1 = m /\ m \in 0 .. m
        BY <3>2
      <4> QED
        BY <2>2, <2>3, <3>2, <4>1
    <3>3. CASE k # 0 /\ k # m + 1
      <4>1. k \in 0 .. m /\ k - 1 \in 0 .. m
        BY <3>3
      <4> QED
        BY <2>1, <2>2, <3>3, <4>1
    <3> QED
      BY <3>1, <3>2, <3>3
  <2>5. h = [k \in 0 .. m + 1 |-> h[k]]
    OBVIOUS
  <2> HIDE DEF h
  <2>6. Runs(h, m + 1)
    BY <2>4, <2>5
  <2> QED
    BY <2>6
<1>3. \E g : Runs(g, 0)
  <2> DEFINE g == [k \in 0 .. 0 |-> st]
  <2>1. g = [k \in 0 .. 0 |-> g[k]] /\ \A k \in 0 .. 0 : k = 0 /\ g[k] = st
    OBVIOUS
  <2> HIDE DEF g
  <2>2. g = [k \in 0 .. 0 |-> IF k = 0 THEN st ELSE ChangeApplied(g[k - 1], changes[k])]
    BY <2>1
  <2> QED
    BY <2>2
<1>4. Stuck = {}
  <2> SUFFICES ASSUME Stuck # {} PROVE FALSE
    OBVIOUS
  <2> HIDE DEF Runs
  <2>1. PICK m \in Stuck : \A k \in Stuck : m <= k
    BY LeastNumber
  <2>2. m # 0 /\ m \in Nat
    BY <1>3, <2>1
  <2>3. m - 1 \in Nat /\ (m - 1) + 1 = m /\ ~ (m <= m - 1)
    BY <2>2
  <2>4. \E g : Runs(g, m - 1)
    BY <2>1, <2>3
  <2>5. \E g : Runs(g, (m - 1) + 1)
    BY <1>2, <2>3, <2>4
  <2> QED
    BY <2>1, <2>3, <2>5
<1>5. \E g : Runs(g, n)
  <2> HIDE DEF Runs
  <2> QED
    BY <1>1, <1>4
<1> DEFINE after == CHOOSE g : Runs(g, n)
<1>6. Runs(after, n)
  <2> HIDE DEF Runs
  <2> QED
    BY <1>5
<1>7. Replayed(st, changes) = after[n]
  BY DEF Replayed
<1> HIDE DEF after, n
<1>8. after[0] = st
      /\ \A k \in 1 .. n : after[k] = ChangeApplied(after[k - 1], changes[k])
  <2>1. \A k \in 0 .. n :
           after[k] = IF k = 0 THEN st ELSE ChangeApplied(after[k - 1], changes[k])
    BY <1>6
  <2>2. 0 \in 0 .. n /\ \A k \in 1 .. n : k \in 0 .. n /\ k # 0
    BY <1>1
  <2> QED
    BY <2>1, <2>2
<1> DEFINE Wrong == {m \in 0 .. n : ~ Replays(st, changes, m, after[m])}
<1>9. Replays(st, changes, 0, after[0])
  <2>1. \A k \in 1 .. 0 : FALSE
    OBVIOUS
  <2>2. st.version \in Nat /\ Len(st.held) \in Nat
    BY CopyIs
  <2> QED
    BY <1>8, <2>1, <2>2 DEF Replays, LastMarker, LastSaid
<1>10. Wrong = {}
  <2> SUFFICES ASSUME Wrong # {} PROVE FALSE
    OBVIOUS
  <2>1. Wrong \in SUBSET Nat
    BY <1>1
  <2>2. PICK m \in Wrong : \A k \in Wrong : m <= k
    BY <2>1, LeastNumber
  <2>3. m # 0 /\ m \in 0 .. n
    BY <1>9, <2>2
  <2>4. m - 1 \in 0 .. n /\ m - 1 \in Nat /\ (m - 1) + 1 = m /\ ~ (m <= m - 1)
        /\ m \in 1 .. n /\ m <= n
    BY <1>1, <2>3
  <2>5. Replays(st, changes, m - 1, after[m - 1])
    BY <2>2, <2>4
  <2>6. PICK k \in Nat : k = m - 1 /\ k + 1 = m
    BY <2>4
  <2>7. Replays(st, changes, k + 1, ChangeApplied(after[k], changes[k + 1]))
    BY <2>4, <2>5, <2>6, ReplaysNext DEF n
  <2>8. Replays(st, changes, m, after[m])
    BY <1>8, <2>4, <2>6, <2>7
  <2> QED
    BY <2>2, <2>8
<1>11. Replays(st, changes, n, after[n])
  BY <1>1, <1>10
<1> QED
  BY <1>7, <1>11 DEF n
--------------------------------------------------------------------------------
(* What an answer does to a copy *)

CursorHeld(st) == st.cursor # NoId => Holds(st, st.cursor)

Met(st, d) == Versioned(Marked([st EXCEPT !.known = TRUE], d.marker), d.version)

\* The versions that come with the descriptor.
WithinVersion(d, v) ==
    d.version <= v /\ \A k \in 1 .. Len(d.changes) : d.changes[k].version <= v

LEMMA AnsweredIs ==
    ASSUME NEW d \in Answered
    PROVE  /\ d.messages \in Seq(Entry) /\ d.changes \in Seq(Logged) /\ d.version \in Nat
           /\ d.marker \in Id /\ d.nextBefore \in Id
  BY DEF Answered

LEMMA MetIs ==
    ASSUME NEW st \in Copy, NEW d \in Answered
    PROVE  LET met == Met(st, d) IN
           /\ met \in Copy /\ met.known = TRUE /\ met.held = st.held /\ met.cursor = st.cursor
           /\ met.before = st.before
           /\ met.marker = IF d.marker = NoId THEN st.marker ELSE d.marker
           /\ \A v \in Nat : st.version <= v /\ d.version <= v => met.version <= v
<1>1. d.marker \in Id /\ d.version \in Nat
  BY AnsweredIs
<1> DEFINE x == Marked([st EXCEPT !.known = TRUE], d.marker)
<1>2. /\ x \in Copy /\ x.known = TRUE /\ x.held = st.held /\ x.cursor = st.cursor
      /\ x.before = st.before /\ x.version = st.version
      /\ x.marker = IF d.marker = NoId THEN st.marker ELSE d.marker
  BY <1>1 DEF Marked, Copy
<1>3. Met(st, d) = Versioned(x, d.version)
  BY DEF Met
<1> HIDE DEF x
<1> QED
  BY <1>1, <1>2, <1>3 DEF Versioned, Copy

\* The fields of the entries are said by the descriptor: its messages, then its changes.
LEMMA SinceAppliedIs ==
    ASSUME NEW st \in Copy, NEW d \in Answered
    PROVE  \E x \in Copy :
              /\ x = Upserted(Met(st, d), d.messages)
              /\ Replays(x, d.changes, Len(d.changes), SinceApplied(st, d))
<1> DEFINE x == Upserted(Met(st, d), d.messages)
<1>1. d.messages \in Seq(Entry) /\ d.changes \in Seq(Logged) /\ Met(st, d) \in Copy
  BY AnsweredIs, MetIs
<1>2. x \in Copy
  BY <1>1, UpsertedIs
<1>3. SinceApplied(st, d) = Replayed(x, d.changes)
  BY DEF SinceApplied, Met
<1> HIDE DEF x
<1>4. Replays(x, d.changes, Len(d.changes), Replayed(x, d.changes))
  BY <1>1, <1>2, ReplayedIs
<1> QED
  BY <1>2, <1>3, <1>4 DEF x

LEMMA ReplaysElements ==
    ASSUME NEW st \in Copy, NEW changes, NEW n, NEW after, Replays(st, changes, n, after)
    PROVE  /\ \A id : Holds(after, id) <=> Holds(st, id)
           /\ \A m \in ToSet(after.held) : \E was \in ToSet(st.held) :
                 m.id = was.id /\ \A f \in Field : LastSaid(was, m, changes, n, f)
<1>1. /\ after \in Copy /\ Len(after.held) = Len(st.held)
      /\ \A i \in 1 .. Len(st.held) :
            /\ after.held[i].id = st.held[i].id
            /\ \A f \in Field : LastSaid(st.held[i], after.held[i], changes, n, f)
  BY DEF Replays
<1>2. \A m : m \in ToSet(after.held) <=> \E i \in 1 .. Len(after.held) : m = after.held[i]
  BY <1>1, Elements
<1>3. \A i \in 1 .. Len(st.held) : st.held[i] \in ToSet(st.held)
  BY Elements
<1>4. \A id : Holds(after, id) <=> Holds(st, id)
  BY <1>1, Elements
<1>5. ASSUME NEW m \in ToSet(after.held)
      PROVE  \E was \in ToSet(st.held) :
                m.id = was.id /\ \A f \in Field : LastSaid(was, m, changes, n, f)
  <2>1. PICK i \in 1 .. Len(st.held) : m = after.held[i]
    BY <1>1, <1>2
  <2> QED
    BY <1>1, <1>3, <2>1
<1> QED
  BY <1>4, <1>5

LEMMA PageAppliedIs ==
    ASSUME NEW st \in Copy, NEW d \in Answered
    PROVE  LET after == PageApplied(st, d) IN
           /\ after \in Copy
           /\ after.marker = IF d.marker = NoId THEN st.marker ELSE d.marker
           /\ \A v \in Nat : st.version <= v /\ d.version <= v => after.version <= v
           /\ \A m \in ToSet(after.held) : m \in ToSet(st.held) \/ m \in ToSet(d.messages)
           /\ \A id : Holds(st, id) => Holds(after, id)
           /\ CursorHeld(st) => CursorHeld(after)
<1> DEFINE new   == NotHeld(st, d.messages)
           held  == new \o st.held
           met   == Met(st, d)
           after == PageApplied(st, d)
<1>1. d.messages \in Seq(Entry) /\ d.nextBefore \in Id
  BY AnsweredIs
<1>2. /\ met \in Copy /\ met.held = st.held /\ met.cursor = st.cursor
      /\ met.marker = IF d.marker = NoId THEN st.marker ELSE d.marker
      /\ \A v \in Nat : st.version <= v /\ d.version <= v => met.version <= v
  BY MetIs
<1>3. PICK q \in Seq(Entry), r \in Seq(Entry) : q = new /\ r = st.held
  BY <1>1, NotHeldIs, CopyIs
<1>4. \A i \in 1 .. Len(q) : q[i] \in ToSet(d.messages)
  <2>1. \A i \in 1 .. Len(q) : \E k \in 1 .. Len(d.messages) : q[i] = d.messages[k]
    BY <1>1, <1>3, NotHeldIs
  <2>2. \A k \in 1 .. Len(d.messages) : d.messages[k] \in ToSet(d.messages)
    BY <1>1 DEF ToSet
  <2> QED
    BY <2>1, <2>2
<1>5. /\ q \o r \in Seq(Entry) /\ Len(q \o r) = Len(q) + Len(r)
      /\ \A i \in 1 .. Len(q \o r) :
            IF i <= Len(q) THEN i \in 1 .. Len(q) /\ (q \o r)[i] = q[i]
            ELSE i - Len(q) \in 1 .. Len(r) /\ (q \o r)[i] = r[i - Len(q)]
      /\ \A i \in 1 .. Len(r) :
            Len(q) + i \in 1 .. Len(q \o r) /\ (q \o r)[Len(q) + i] = r[i]
  OBVIOUS
<1>6. after = [met EXCEPT !.held = held, !.before = d.nextBefore,
                          !.cursor = IF st.cursor = NoId /\ held # <<>>
                                     THEN held[Len(held)].id ELSE st.cursor]
  BY <1>2 DEF PageApplied, Met, Copy
<1>7. held = q \o r
  BY <1>3
<1> HIDE DEF held, met, after, new
<1>8. held \in Seq(Entry) /\ (held # <<>> => Len(held) \in 1 .. Len(held))
  BY <1>5, <1>7
<1>9. \A i \in 1 .. Len(held) : held[i].id \in Id
  <2>1. \A m \in Entry : m.id \in Id
    BY BoundsAssumption DEF Entry, Id
  <2> QED
    BY <1>8, <2>1
<1>10. /\ after \in Copy /\ after.held = held /\ after.marker = met.marker
       /\ after.version = met.version
       /\ after.cursor = IF st.cursor = NoId /\ held # <<>>
                         THEN held[Len(held)].id ELSE st.cursor
  BY <1>1, <1>2, <1>6, <1>8, <1>9 DEF Copy
<1>11. \A m : m \in ToSet(after.held) <=> \E i \in 1 .. Len(held) : m = held[i]
  <2>1. \A m : m \in ToSet(after.held) <=>
                  \E i \in 1 .. Len(after.held) : m = after.held[i]
    BY <1>10, Elements
  <2> QED
    BY <1>10, <2>1
<1>12. \A i \in 1 .. Len(st.held) : st.held[i] \in ToSet(st.held)
  BY Elements
<1>13. \A m \in ToSet(after.held) : m \in ToSet(st.held) \/ m \in ToSet(d.messages)
  BY <1>3, <1>4, <1>5, <1>7, <1>11, <1>12
<1>14. \A id : Holds(st, id) => Holds(after, id)
  <2> SUFFICES ASSUME NEW i \in 1 .. Len(st.held) PROVE Holds(after, st.held[i].id)
    BY Elements
  <2>1. Len(q) + i \in 1 .. Len(held) /\ held[Len(q) + i] = st.held[i]
    BY <1>3, <1>5, <1>7
  <2> QED
    BY <1>10, <2>1, Elements
<1>15. CursorHeld(st) => CursorHeld(after)
  BY <1>8, <1>10, <1>14, Elements DEF CursorHeld
<1> QED
  BY <1>2, <1>10, <1>13, <1>14, <1>15 DEF after

LEMMA FullAppliedIs ==
    ASSUME NEW d \in Answered
    PROVE  LET after == FullApplied(d) IN
           /\ after \in Copy /\ after.held = d.messages
           /\ after.marker = d.marker /\ after.version = d.version
           /\ CursorHeld(after)
<1> DEFINE after == FullApplied(d)
<1>1. /\ d.messages \in Seq(Entry) /\ d.version \in Nat
      /\ d.marker \in Id /\ d.nextBefore \in Id
      /\ NoId \in Id
  BY AnsweredIs, BoundsAssumption DEF Id, NoId
<1>2. d.messages # <<>> => Len(d.messages) \in 1 .. Len(d.messages)
  BY <1>1
<1>3. \A i \in 1 .. Len(d.messages) : d.messages[i].id \in Id
  <2>1. \A m \in Entry : m.id \in Id
    BY BoundsAssumption DEF Entry, Id
  <2> QED
    BY <1>1, <2>1
<1>4. /\ after \in Copy /\ after.held = d.messages
      /\ after.marker = d.marker /\ after.version = d.version
      /\ after.cursor = IF d.messages = <<>> THEN NoId ELSE d.messages[Len(d.messages)].id
  BY <1>1, <1>2, <1>3 DEF FullApplied, Copy
<1> HIDE DEF after
<1>5. CursorHeld(after)
  BY <1>2, <1>4, Elements DEF CursorHeld
<1> QED
  BY <1>4, <1>5 DEF after
\* The descriptor has a message of that id.
Lists(d, id) == \E m \in ToSet(d.messages) : m.id = id

Asked == {"full", "since", "page"}

LEMMA EmptyStoreIs ==
    /\ EmptyStore \in Copy /\ CursorHeld(EmptyStore) /\ EmptyStore.version = 0
    /\ ToSet(EmptyStore.held) = {}
<1>1. <<>> \in Seq(Entry) /\ NoId \in Id /\ 0 \in Nat
  BY BoundsAssumption DEF Id, NoId
<1> QED
  BY <1>1 DEF EmptyStore, Copy, CursorHeld, ToSet

LEMMA AnswerAppliedIs ==
    ASSUME NEW st \in Copy, CursorHeld(st), NEW kind \in Asked,
           NEW descriptors \in SUBSET Answered, NEW v \in Nat, st.version <= v,
           \A d \in descriptors : WithinVersion(d, v)
    PROVE  LET after == AnswerApplied(st, kind, descriptors) IN
           /\ after \in Copy /\ CursorHeld(after) /\ after.version <= v
           /\ \A m \in ToSet(after.held) :
                 Holds(st, m.id) \/ \E d \in descriptors : Lists(d, m.id)
<1> DEFINE after == AnswerApplied(st, kind, descriptors)
           d == CHOOSE d \in descriptors : TRUE
<1>1. \A m \in ToSet(st.held) : Holds(st, m.id)
  BY DEF Holds
<1>2. CASE descriptors = {}
  <2>1. after = IF kind = "full" THEN EmptyStore ELSE st
    BY <1>2 DEF AnswerApplied
  <2> QED
    BY <1>1, <2>1, EmptyStoreIs
<1>3. CASE descriptors # {}
  <2>1. d \in descriptors /\ d \in Answered /\ WithinVersion(d, v)
    BY <1>3
  <2>2. after = CASE kind = "full"  -> FullApplied(d)
                  [] kind = "since" -> SinceApplied(st, d)
                  [] kind = "page"  -> PageApplied(st, d)
    BY <1>3 DEF AnswerApplied
  <2> HIDE DEF d, after
  <2>3. \A m \in ToSet(d.messages) : Lists(d, m.id)
    BY DEF Lists
  <2>4. d.version <= v /\ d.version \in Nat /\ d.messages \in Seq(Entry)
        /\ d.changes \in Seq(Logged)
    BY <2>1, AnsweredIs DEF WithinVersion
  <2>5. CASE kind = "full"
    <3>1. after = FullApplied(d)
      BY <2>2, <2>5
    <3>2. /\ after \in Copy /\ after.held = d.messages /\ after.version = d.version
          /\ CursorHeld(after)
      BY <2>1, <3>1, FullAppliedIs
    <3> QED
      BY <2>1, <2>3, <2>4, <3>2 DEF after
  <2>6. CASE kind = "since"
    <3>1. after = SinceApplied(st, d)
      BY <2>2, <2>6
    <3> DEFINE met == Met(st, d)
    <3>2. /\ met \in Copy /\ met.held = st.held /\ met.cursor = st.cursor /\ met.version <= v
      BY <2>1, <2>4, MetIs
    <3>3. CursorHeld(met) /\ ToSet(met.held) = ToSet(st.held)
      BY <3>2 DEF CursorHeld, Holds
    <3>4. PICK x \in Copy : /\ x = Upserted(met, d.messages)
                            /\ Replays(x, d.changes, Len(d.changes), after)
      BY <2>1, <3>1, SinceAppliedIs
    <3> HIDE DEF met
    <3>5. /\ x.version = met.version
          /\ \A m \in ToSet(x.held) : m \in ToSet(d.messages) \/ m \in ToSet(met.held)
          /\ CursorHeld(met) => CursorHeld(x)
      BY <2>4, <3>2, <3>4, UpsertedIs DEF CursorHeld
    <3>6. /\ after \in Copy /\ after.cursor = x.cursor /\ after.version <= v
      BY <2>1, <3>2, <3>4, <3>5 DEF Replays, WithinVersion
    <3>7. /\ \A id : Holds(after, id) <=> Holds(x, id)
          /\ \A m \in ToSet(after.held) : \E was \in ToSet(x.held) : m.id = was.id
      BY <3>4, ReplaysElements
    <3>8. CursorHeld(after)
      BY <3>3, <3>5, <3>6, <3>7 DEF CursorHeld
    <3>9. \A m \in ToSet(after.held) : Holds(st, m.id) \/ Lists(d, m.id)
      BY <1>1, <2>3, <3>3, <3>5, <3>7
    <3> QED
      BY <2>1, <3>6, <3>8, <3>9 DEF after
  <2>7. CASE kind = "page"
    <3>1. after = PageApplied(st, d)
      BY <2>2, <2>7
    <3>2. /\ after \in Copy
          /\ \A w \in Nat : st.version <= w /\ d.version <= w => after.version <= w
          /\ \A m \in ToSet(after.held) : m \in ToSet(st.held) \/ m \in ToSet(d.messages)
          /\ CursorHeld(st) => CursorHeld(after)
      BY <2>1, <3>1, PageAppliedIs
    <3>3. \A m \in ToSet(after.held) : Holds(st, m.id) \/ Lists(d, m.id)
      BY <1>1, <2>3, <3>2
    <3> QED
      BY <2>1, <2>4, <3>2, <3>3 DEF after
  <2> QED
    BY <2>5, <2>6, <2>7 DEF Asked
<1> QED
  BY <1>2, <1>3

--------------------------------------------------------------------------------
(* What a push does to a copy *)

Brings(e, id) == e.kind = "message_deliver" /\ e.id = id

LEMMA FreshIs ==
    ASSUME NEW p, Event(p), p.kind = "message_deliver"
    PROVE  LET m == Shown(p.id, Fresh(p.text, FALSE)) IN
           m \in Entry /\ m.id = p.id /\ \A f \in Field : Of(m, f) = Says(p, f)
<1> DEFINE m == Shown(p.id, Fresh(p.text, FALSE))
<1>1. p.id \in 1 .. MaxMessages /\ p.text \in Text \cup {Cleared}
  BY BoundsAssumption DEF Event, Id, NoId, Body
<1>2. m = [id |-> p.id, text |-> p.text, deleted |-> FALSE, reaction |-> Cleared,
           pinned |-> FALSE]
  BY DEF Shown, Fresh
<1> HIDE DEF m
<1>3. m \in Entry
  BY <1>1, <1>2 DEF Entry
<1>4. ASSUME NEW f \in Field PROVE Of(m, f) = Says(p, f)
  <2>1. CASE f = "text"
    BY <1>2, <2>1 DEF Of, Says
  <2>2. CASE f = "deleted"
    BY <1>2, <2>2 DEF Of, Says
  <2>3. CASE f = "reaction"
    BY <1>2, <2>3 DEF Of, Says
  <2>4. CASE f = "pinned"
    BY <1>2, <2>4 DEF Of, Says
  <2> QED
    BY <2>1, <2>2, <2>3, <2>4 DEF Field
<1>5. m.id = p.id
  BY <1>2
<1> QED
  BY <1>3, <1>4, <1>5 DEF m

\* Each entry after is the one the push brings, or one from before, with what the push
\* rewrites of it.
LEMMA PushAppliedIs ==
    ASSUME NEW st \in Copy, NEW p \in Told
    PROVE  LET after == PushApplied(st, p) IN
           /\ after \in Copy /\ after.version = st.version
           /\ after.marker = IF IsMarker(p) THEN p.id ELSE st.marker
           /\ CursorHeld(st) => CursorHeld(after)
           /\ \A id : Holds(st, id) \/ Brings(p, id) => Holds(after, id)
           /\ \A m \in ToSet(after.held) :
                 \/ Brings(p, m.id) /\ \A f \in Field : Of(m, f) = Says(p, f)
                 \/ /\ ~ Brings(p, m.id)
                    /\ \E was \in ToSet(st.held) :
                          /\ was.id = m.id
                          /\ \A f \in Field :
                                Of(m, f) = IF Concerns(p, f, m.id) THEN Says(p, f)
                                           ELSE Of(was, f)
<1> DEFINE known == [st EXCEPT !.known = TRUE]
           after == PushApplied(st, p)
<1>1. /\ known \in Copy /\ known.held = st.held /\ known.version = st.version
      /\ known.cursor = st.cursor /\ known.marker = st.marker
  BY DEF Copy
<1>2. Event(p)
  BY DEF Told
<1>3. after = IF p.kind = "message_deliver"
              THEN Upserted(known, <<Shown(p.id, Fresh(p.text, FALSE))>>)
              ELSE Applied(known, p)
  BY DEF PushApplied
<1> HIDE DEF known, after
<1>4. /\ \A id : Holds(known, id) <=> Holds(st, id)
      /\ CursorHeld(st) => CursorHeld(known)
  BY <1>1 DEF Holds, CursorHeld
<1>5. CASE p.kind = "message_deliver"
  <2> DEFINE new == Shown(p.id, Fresh(p.text, FALSE))
  <2>1. new \in Entry /\ new.id = p.id /\ \A f \in Field : Of(new, f) = Says(p, f)
    BY <1>2, <1>5, FreshIs
  <2>2. after = Upserted(known, <<new>>)
    BY <1>3, <1>5
  <2> HIDE DEF new
  <2>3. <<new>> \in Seq(Entry) /\ ToSet(<<new>>) = {new}
    BY <2>1 DEF ToSet
  <2>4. /\ after \in Copy /\ after.version = known.version /\ after.marker = known.marker
        /\ \A m \in ToSet(after.held) :
              \/ m \in ToSet(<<new>>)
              \/ m \in ToSet(known.held) /\ \A other \in ToSet(<<new>>) : other.id # m.id
        /\ \A m \in ToSet(<<new>>) : Holds(after, m.id)
        /\ \A id : Holds(known, id) => Holds(after, id)
        /\ CursorHeld(known) => CursorHeld(after)
    BY <1>1, <2>2, <2>3, UpsertedIs DEF CursorHeld
  <2>5. \A id : Holds(st, id) \/ Brings(p, id) => Holds(after, id)
    BY <1>4, <2>1, <2>3, <2>4 DEF Brings
  <2>6. \A m \in ToSet(after.held) : m = new \/ (m \in ToSet(st.held) /\ m.id # p.id)
    BY <1>1, <2>1, <2>3, <2>4
  <2>7. \A f : \A id : ~ Concerns(p, f, id)
    BY <1>5 DEF Concerns
  <2>8. ~ IsMarker(p)
    BY <1>5 DEF IsMarker
  <2> QED
    BY <1>1, <1>4, <1>5, <2>1, <2>4, <2>5, <2>6, <2>7, <2>8 DEF Brings, after
<1>6. CASE p.kind # "message_deliver"
  <2>1. Changed(known, p, after)
    BY <1>1, <1>2, <1>3, <1>6, AppliedIs
  <2>2. \A id : ~ Brings(p, id)
    BY <1>6 DEF Brings
  <2>3. /\ \A m \in ToSet(after.held) : \E was \in ToSet(known.held) : Touched(was, p, m)
        /\ \A id : Holds(after, id) <=> Holds(known, id)
    BY <1>1, <2>1, ChangedElements
  <2>4. ASSUME NEW m \in ToSet(after.held)
        PROVE  \E was \in ToSet(st.held) :
                  /\ was.id = m.id
                  /\ \A f \in Field : Of(m, f) = IF Concerns(p, f, m.id) THEN Says(p, f)
                                                 ELSE Of(was, f)
    <3>1. PICK was \in ToSet(known.held) : Touched(was, p, m)
      BY <2>3
    <3> QED
      BY <1>1, <3>1 DEF Touched
  <2>5. /\ after \in Copy /\ after.version = st.version /\ after.cursor = known.cursor
        /\ after.marker = IF IsMarker(p) THEN p.id ELSE st.marker
    BY <1>1, <2>1 DEF Changed, IsMarker
  <2>6. CursorHeld(st) => CursorHeld(after)
    BY <1>4, <2>3, <2>5 DEF CursorHeld
  <2> QED
    BY <1>4, <2>2, <2>3, <2>4, <2>5, <2>6 DEF after
<1> QED
  BY <1>5, <1>6
--------------------------------------------------------------------------------
(* The log *)

\* Versions follow one another up to change_seq, and no more than Retained are kept.
Numbered(changes, seq) ==
    /\ Len(changes) <= Retained /\ Len(changes) <= seq
    /\ \A k \in 1 .. Len(changes) : changes[k].version = seq - Len(changes) + k

IsServer(s) ==
    /\ s \in [messages : Seq(Message), changes : Seq(Logged), changeSeq : Nat, marker : Id]
    /\ Len(s.messages) <= MaxMessages
    /\ Numbered(s.changes, s.changeSeq)

LEMMA ServerIs ==
    ASSUME NEW s, IsServer(s)
    PROVE  /\ s.messages \in Seq(Message) /\ s.changes \in Seq(Logged)
           /\ s.changeSeq \in Nat /\ s.marker \in Id
           /\ Len(s.messages) \in Nat /\ DOMAIN s.messages = 1 .. Len(s.messages)
           /\ Len(s.changes) \in Nat /\ DOMAIN s.changes = 1 .. Len(s.changes)
           /\ \A i \in 1 .. Len(s.messages) : i \in 1 .. MaxMessages /\ i \in Id /\ i # NoId
<1>1. s.messages \in Seq(Message) /\ s.changes \in Seq(Logged)
      /\ s.changeSeq \in Nat /\ s.marker \in Id /\ Len(s.messages) <= MaxMessages
  BY DEF IsServer
<1> QED
  BY <1>1, BoundsAssumption DEF Id, NoId

\* What is compacted away is the front.
LEMMA TrimmedIs ==
    ASSUME NEW V, NEW q \in Seq(V)
    PROVE  /\ Trimmed(q) \in Seq(V)
           /\ Len(Trimmed(q)) = IF Len(q) > Retained THEN Retained ELSE Len(q)
           /\ \A k \in 1 .. Len(Trimmed(q)) :
                 /\ Len(q) - Len(Trimmed(q)) + k \in 1 .. Len(q)
                 /\ Trimmed(q)[k] = q[Len(q) - Len(Trimmed(q)) + k]
<1>1. Len(q) \in Nat /\ Retained \in Nat
  BY BoundsAssumption
<1>2. CASE Len(q) > Retained
  <2> DEFINE a == Len(q) - Retained + 1
  <2>1. Trimmed(q) = SubSeq(q, a, Len(q)) /\ a \in 1 .. Len(q) + 1 /\ a \in Nat
    BY <1>1, <1>2 DEF Trimmed
  <2>2. /\ SubSeq(q, a, Len(q)) \in Seq(V) /\ Len(SubSeq(q, a, Len(q))) = Len(q) - a + 1
        /\ \A k \in 1 .. Len(q) - a + 1 : SubSeq(q, a, Len(q))[k] = q[a + k - 1]
    <3> HIDE DEF a
    <3> QED
      BY <1>1, <2>1
  <2>3. Len(q) - a + 1 = Retained
    BY <1>1
  <2>4. \A k \in 1 .. Retained : a + k - 1 = Len(q) - Retained + k
                                 /\ Len(q) - Retained + k \in 1 .. Len(q)
    BY <1>1, <1>2
  <2> HIDE DEF a
  <2> QED
    BY <1>1, <1>2, <2>1, <2>2, <2>3, <2>4
<1>3. CASE ~ (Len(q) > Retained)
  <2>1. Trimmed(q) = q
    BY <1>3 DEF Trimmed
  <2>2. \A k \in 1 .. Len(q) : Len(q) - Len(q) + k = k
    BY <1>1
  <2> QED
    BY <1>1, <1>3, <2>1, <2>2
<1> QED
  BY <1>2, <1>3

LEMMA LogGrows ==
    ASSUME NEW changes \in Seq(Logged), NEW seq \in Nat, Numbered(changes, seq),
           NEW more \in Seq(Logged), \A k \in 1 .. Len(more) : more[k].version = seq + k
    PROVE  /\ Trimmed(changes \o more) \in Seq(Logged)
           /\ Numbered(Trimmed(changes \o more), seq + Len(more))
<1> DEFINE n == Len(changes)
           l == Len(more)
           full == changes \o more
           new == Trimmed(full)
<1>1. n \in Nat /\ l \in Nat /\ Retained \in Nat
  BY BoundsAssumption
<1>2. /\ full \in Seq(Logged) /\ Len(full) = n + l
      /\ \A i \in 1 .. n : full[i] = changes[i]
      /\ \A i \in 1 .. n + l : i \notin 1 .. n => i - n \in 1 .. l /\ full[i] = more[i - n]
  OBVIOUS
<1>3. \A i \in 1 .. n + l : full[i].version = seq - n + i
  <2> SUFFICES ASSUME NEW i \in 1 .. n + l PROVE full[i].version = seq - n + i
    OBVIOUS
  <2>1. CASE i \in 1 .. n
    BY <1>2, <2>1 DEF Numbered
  <2>2. CASE i \notin 1 .. n
    <3>1. i - n \in 1 .. l /\ full[i] = more[i - n]
      BY <1>2, <2>2
    <3>2. full[i].version = seq + (i - n)
      BY <3>1
    <3> QED
      BY <1>1, <3>2
  <2> QED
    BY <2>1, <2>2
<1>4. n <= seq
  BY DEF Numbered
<1> HIDE DEF full
<1>5. /\ new \in Seq(Logged)
      /\ Len(new) = IF n + l > Retained THEN Retained ELSE n + l
      /\ \A k \in 1 .. Len(new) :
            n + l - Len(new) + k \in 1 .. n + l /\ new[k] = full[n + l - Len(new) + k]
  <2>1. PICK q \in Seq(Logged) : q = full
    BY <1>2
  <2>2. /\ Trimmed(q) \in Seq(Logged)
        /\ Len(Trimmed(q)) = IF Len(q) > Retained THEN Retained ELSE Len(q)
        /\ \A k \in 1 .. Len(Trimmed(q)) :
              /\ Len(q) - Len(Trimmed(q)) + k \in 1 .. Len(q)
              /\ Trimmed(q)[k] = q[Len(q) - Len(Trimmed(q)) + k]
    BY TrimmedIs
  <2>3. new = Trimmed(q) /\ Len(q) = n + l
    BY <1>2, <2>1
  <2>4. new \in Seq(Logged) /\ Len(new) = IF n + l > Retained THEN Retained ELSE n + l
    <3> HIDE DEF n, l, new
    <3> QED
      BY <2>2, <2>3
  <2>5. ASSUME NEW k \in 1 .. Len(new)
        PROVE  /\ n + l - Len(new) + k \in 1 .. n + l
               /\ new[k] = full[n + l - Len(new) + k]
    <3> HIDE DEF n, l, new
    <3>1. Len(q) - Len(new) + k \in 1 .. Len(q) /\ new[k] = q[Len(q) - Len(new) + k]
      BY <2>2, <2>3
    <3> QED
      BY <1>1, <2>1, <2>3, <3>1
  <2> QED
    BY <2>4, <2>5
<1> HIDE DEF new
<1>6. Len(new) \in Nat /\ Len(new) <= Retained /\ Len(new) <= n + l
  BY <1>1, <1>5
<1>7. \A k \in 1 .. Len(new) : new[k].version = (seq + l) - Len(new) + k
  <2> SUFFICES ASSUME NEW k \in 1 .. Len(new)
               PROVE  new[k].version = (seq + l) - Len(new) + k
    OBVIOUS
  <2>1. new[k].version = seq - n + (n + l - Len(new) + k)
    BY <1>3, <1>5
  <2> HIDE DEF n, l
  <2> QED
    BY <1>1, <1>6, <2>1
<1>8. Numbered(new, seq + l)
  BY <1>1, <1>4, <1>6, <1>7 DEF Numbered
<1> QED
  BY <1>5, <1>8 DEF new, full

LEMMA ServerWith ==
    ASSUME NEW s, IsServer(s), NEW messages \in Seq(Message), Len(messages) <= MaxMessages,
           NEW changes \in Seq(Logged), NEW seq \in Nat, Numbered(changes, seq),
           NEW after,
           after = [messages |-> messages, changes |-> changes, changeSeq |-> seq,
                    marker |-> s.marker]
    PROVE  /\ IsServer(after)
           /\ after.messages = messages /\ after.changes = changes /\ after.changeSeq = seq
           /\ after.marker = s.marker
<1> DEFINE Servers == [messages : Seq(Message), changes : Seq(Logged),
                       changeSeq : Nat, marker : Id]
<1>1. s \in Servers
  BY DEF IsServer
<1>2. /\ after \in Servers /\ after.messages = messages /\ after.changes = changes
      /\ after.changeSeq = seq /\ after.marker = s.marker
  BY <1>1
<1> QED
  BY <1>2 DEF IsServer

LEMMA RecordedIs ==
    ASSUME NEW s, IsServer(s), NEW kind \in Kind, NEW id \in Id, NEW text \in Said,
           Event(Change(s.changeSeq + 1, kind, id, text))
    PROVE  LET c == Change(s.changeSeq + 1, kind, id, text) IN
           /\ IsServer(Recorded(s, kind, id, text)) /\ c \in Logged
           /\ Recorded(s, kind, id, text).messages = s.messages
           /\ Recorded(s, kind, id, text).marker = s.marker
           /\ Recorded(s, kind, id, text).changeSeq = s.changeSeq + 1
           /\ Recorded(s, kind, id, text).changes = Trimmed(Append(s.changes, c))
<1> DEFINE c == Change(s.changeSeq + 1, kind, id, text)
           new == Trimmed(Append(s.changes, c))
           after == Recorded(s, kind, id, text)
<1>1. /\ s.changes \in Seq(Logged) /\ s.changeSeq \in Nat
      /\ Numbered(s.changes, s.changeSeq)
  BY ServerIs DEF IsServer
<1>2. c = [version |-> s.changeSeq + 1, kind |-> kind, id |-> id, text |-> text]
  BY DEF Change
<1>3. after = [s EXCEPT !.changeSeq = s.changeSeq + 1, !.changes = new]
  BY DEF Recorded, IsServer
<1>9. after = [messages |-> s.messages, changes |-> new, changeSeq |-> s.changeSeq + 1,
               marker |-> s.marker]
  BY <1>3 DEF IsServer
<1>4. Event(c)
  OBVIOUS
<1> HIDE DEF c, after
<1>5. c \in Logged /\ c.version = s.changeSeq + 1
  BY <1>1, <1>2, <1>4 DEF Logged
<1>6. /\ <<c>> \in Seq(Logged) /\ Len(<<c>>) = 1 /\ Append(s.changes, c) = s.changes \o <<c>>
      /\ \A k \in 1 .. Len(<<c>>) : <<c>>[k].version = s.changeSeq + k
  BY <1>1, <1>5
<1>7. new \in Seq(Logged) /\ Numbered(new, s.changeSeq + 1)
  BY <1>1, <1>6, LogGrows
<1> HIDE DEF new
<1>8. IsServer(after)
  <2>1. s.messages \in Seq(Message) /\ Len(s.messages) <= MaxMessages
    BY DEF IsServer
  <2>2. s.changeSeq + 1 \in Nat
    BY <1>1
  <2> QED
    BY <1>7, <1>9, <2>1, <2>2, ServerWith
<1>10. /\ after.messages = s.messages /\ after.marker = s.marker
       /\ after.changeSeq = s.changeSeq + 1 /\ after.changes = new
  BY <1>9
<1> QED
  BY <1>5, <1>8, <1>10 DEF c, after, new

LEMMA ReleasedIs ==
    ASSUME NEW s, IsServer(s), NEW due \in SUBSET Due(s)
    PROVE  LET after == Released(s, due) IN
           /\ IsServer(after)
           /\ Len(after.messages) = Len(s.messages) /\ after.marker = s.marker
           /\ \A i \in 1 .. Len(s.messages) :
                 after.messages[i] = IF i \in due THEN [s.messages[i] EXCEPT !.scheduled = FALSE]
                                     ELSE s.messages[i]
           /\ Cardinality(due) \in Nat /\ after.changeSeq = s.changeSeq + Cardinality(due)
           /\ due = {} => after = s
<1> DEFINE n == Len(s.messages)
           k == Cardinality(due)
           ids == Ascending(due)
           messages == [i \in DOMAIN s.messages |->
                          IF i \in due THEN [s.messages[i] EXCEPT !.scheduled = FALSE]
                          ELSE s.messages[i]]
           more == [j \in DOMAIN ids |-> Change(s.changeSeq + j, "message_deliver", ids[j],
                                                s.messages[ids[j]].text)]
           changes == Trimmed(s.changes \o more)
           after == Released(s, due)
<1>1. /\ s.messages \in Seq(Message) /\ s.changes \in Seq(Logged)
      /\ s.changeSeq \in Nat /\ Numbered(s.changes, s.changeSeq)
      /\ n \in Nat /\ DOMAIN s.messages = 1 .. n
      /\ \A i \in 1 .. n : i \in Id /\ i # NoId
      /\ \A i \in 1 .. n : s.messages[i] \in Message
  BY ServerIs DEF IsServer
<1>2. due \in SUBSET (1 .. n)
  BY <1>1 DEF Due
<1>3. k \in Nat /\ ids \in [1 .. k -> due]
  BY <1>1, <1>2, AscendingIs
<1>4. Len(ids) = k /\ DOMAIN ids = 1 .. k
  BY <1>3
<1>5. after = [s EXCEPT !.messages = messages, !.changeSeq = s.changeSeq + Len(ids),
                        !.changes = changes]
  BY DEF Released, IsServer
<1>6. /\ messages \in Seq(Message) /\ Len(messages) = n
      /\ \A i \in 1 .. n : messages[i] = IF i \in due
                                         THEN [s.messages[i] EXCEPT !.scheduled = FALSE]
                                         ELSE s.messages[i]
  <2>1. \A m \in Message : [m EXCEPT !.scheduled = FALSE] \in Message
    BY DEF Message
  <2>2. \A i \in 1 .. n : messages[i] = IF i \in due
                                        THEN [s.messages[i] EXCEPT !.scheduled = FALSE]
                                        ELSE s.messages[i]
    BY <1>1
  <2>3. messages = [i \in 1 .. n |-> messages[i]]
    BY <1>1
  <2> HIDE DEF messages
  <2>4. \A i \in 1 .. n : messages[i] \in Message
    BY <1>1, <2>1, <2>2
  <2>6. n \in Nat
    BY <1>1
  <2>5. messages \in Seq(Message) /\ Len(messages) = n
    <3> HIDE DEF n
    <3> QED
      BY <2>3, <2>4, <2>6
  <2> QED
    BY <2>2, <2>5
<1>7. ASSUME NEW j \in 1 .. k
      PROVE  more[j] \in Logged /\ more[j].version = s.changeSeq + j
  <2>1. ids[j] \in 1 .. n
    BY <1>2, <1>3
  <2>2. s.messages[ids[j]].text \in Body /\ ids[j] \in Id /\ ids[j] # NoId
    BY <1>1, <2>1 DEF Message
  <2>3. more[j] = [version |-> s.changeSeq + j, kind |-> "message_deliver", id |-> ids[j],
                   text |-> s.messages[ids[j]].text]
    BY <1>4 DEF Change
  <2>4. s.changeSeq + j \in Nat
    BY <1>1
  <2> HIDE DEF more, ids
  <2> QED
    BY <2>2, <2>3, <2>4 DEF Logged, Event, Kind, Said
<1>8. more \in Seq(Logged) /\ Len(more) = k
  <2>1. more = [j \in 1 .. k |-> more[j]]
    BY <1>4
  <2> HIDE DEF more
  <2> QED
    BY <1>3, <1>7, <2>1
<1> HIDE DEF more
<1>9. changes \in Seq(Logged) /\ Numbered(changes, s.changeSeq + k)
  BY <1>1, <1>7, <1>8, LogGrows
<1>10. after = [messages |-> messages, changes |-> changes, changeSeq |-> s.changeSeq + k,
                marker |-> s.marker]
  BY <1>4, <1>5 DEF IsServer
<1>11. due = {} => messages = s.messages /\ changes = s.changes /\ k = 0
  <2> SUFFICES ASSUME due = {}
               PROVE  messages = s.messages /\ changes = s.changes /\ k = 0
    OBVIOUS
  <2>1. k = 0
    BY FS_EmptySet
  <2>2. \A i \in 1 .. n : messages[i] = s.messages[i]
    BY <1>6
  <2>3. messages = s.messages
    BY <1>1, <1>6, <2>2
  <2>4. s.changes \o more = s.changes
    BY <1>1, <1>8, <2>1
  <2>5. changes = s.changes
    BY <1>1, <2>4, BoundsAssumption DEF Numbered, Trimmed
  <2> QED
    BY <2>1, <2>3, <2>5
<1> HIDE DEF messages, changes, ids, k, after
<1>15. Len(messages) <= MaxMessages /\ s.changeSeq + k \in Nat
  BY <1>1, <1>3, <1>6 DEF IsServer
<1>12. IsServer(after)
  BY <1>6, <1>9, <1>10, <1>15, ServerWith
<1>13. due = {} => after = s
  <2> SUFFICES ASSUME due = {} PROVE after = s
    OBVIOUS
  <2>1. s.changeSeq + k = s.changeSeq
    BY <1>1, <1>11
  <2>2. after = [messages |-> s.messages, changes |-> s.changes,
                 changeSeq |-> s.changeSeq, marker |-> s.marker]
    BY <1>10, <1>11, <2>1
  <2> QED
    BY <2>2 DEF IsServer
<1>14. /\ after.messages = messages /\ after.marker = s.marker
       /\ after.changeSeq = s.changeSeq + k
  BY <1>6, <1>9, <1>10, <1>15, ServerWith
<1> QED
  BY <1>3, <1>6, <1>12, <1>13, <1>14 DEF after, k
--------------------------------------------------------------------------------
(* What the server answers *)

\* The message is there, and not hidden.
Shows(s, id) == id \in DOMAIN s.messages /\ ~ s.messages[id].scheduled

LEMMA ShownIs ==
    ASSUME NEW s, IsServer(s), NEW i \in 1 .. Len(s.messages)
    PROVE  LET m == Shown(i, s.messages[i]) IN
           m \in Entry /\ m.id = i /\ \A f \in Field : Of(m, f) = Of(s.messages[i], f)
<1> DEFINE m == Shown(i, s.messages[i])
<1>1. s.messages[i] \in Message /\ i \in 1 .. MaxMessages
  BY ServerIs
<1>2. m = [id |-> i, text |-> s.messages[i].text, deleted |-> s.messages[i].deleted,
           reaction |-> s.messages[i].reaction, pinned |-> s.messages[i].pinned]
  BY DEF Shown
<1> HIDE DEF m
<1>3. m \in Entry /\ m.id = i
  BY <1>1, <1>2 DEF Entry, Message, Body
<1>4. \A f \in Field : Of(m, f) = Of(s.messages[i], f)
  BY <1>2 DEF Of, Field
<1> QED
  BY <1>3, <1>4 DEF m

\* Every message that is not scheduled, as it is now, in the order of the ids.
LEMMA VisibleIs ==
    ASSUME NEW s, IsServer(s)
    PROVE  /\ Visible(s) \in Seq(Entry)
           /\ \A k \in 1 .. Len(Visible(s)) :
                 LET m == Visible(s)[k] IN
                 Shows(s, m.id) /\ m.id \in 1 .. Len(s.messages)
                 /\ \A f \in Field : Of(m, f) = Of(s.messages[m.id], f)
           /\ \A id : Shows(s, id) => \E k \in 1 .. Len(Visible(s)) :
                 Visible(s)[k] = Shown(id, s.messages[id]) /\ Visible(s)[k].id = id
<1> DEFINE n == Len(s.messages)
           S == {i \in DOMAIN s.messages : ~ s.messages[i].scheduled}
           ids == Ascending(S)
           c == Cardinality(S)
           visible == Visible(s)
<1>1. n \in Nat /\ DOMAIN s.messages = 1 .. n /\ S \in SUBSET (1 .. n)
  BY ServerIs
<1>2. c \in Nat /\ ids \in [1 .. c -> S] /\ \A i \in S : \E k \in 1 .. c : ids[k] = i
  BY <1>1, AscendingIs
<1>3. visible = [k \in DOMAIN ids |-> Shown(ids[k], s.messages[ids[k]])]
  BY DEF Visible
<1>4. \A i : i \in S <=> Shows(s, i)
  BY DEF Shows
<1> HIDE DEF visible, ids, c, S
<1>5. visible = [k \in 1 .. c |-> Shown(ids[k], s.messages[ids[k]])]
  BY <1>2, <1>3
<1>6. \A k \in 1 .. c : ids[k] \in S /\ ids[k] \in 1 .. n
  BY <1>1, <1>2
<1>7. \A k \in 1 .. c : /\ visible[k] = Shown(ids[k], s.messages[ids[k]])
                        /\ visible[k] \in Entry /\ visible[k].id = ids[k]
                        /\ \A f \in Field : Of(visible[k], f) = Of(s.messages[ids[k]], f)
  <2> SUFFICES ASSUME NEW k \in 1 .. c
               PROVE  /\ visible[k] = Shown(ids[k], s.messages[ids[k]])
                      /\ visible[k] \in Entry /\ visible[k].id = ids[k]
                      /\ \A f \in Field : Of(visible[k], f) = Of(s.messages[ids[k]], f)
    OBVIOUS
  <2>1. visible[k] = Shown(ids[k], s.messages[ids[k]])
    BY <1>5
  <2>2. ids[k] \in 1 .. Len(s.messages)
    BY <1>6
  <2> QED
    BY <2>1, <2>2, ShownIs
<1>8. visible = [k \in 1 .. c |-> visible[k]]
  BY <1>5
<1>9. visible \in Seq(Entry) /\ Len(visible) = c
  BY <1>2, <1>7, <1>8
<1>10. \A k \in 1 .. c : /\ Shows(s, visible[k].id) /\ visible[k].id \in 1 .. n
                         /\ \A f \in Field : Of(visible[k], f) = Of(s.messages[visible[k].id], f)
  BY <1>4, <1>6, <1>7
<1>11. \A id : Shows(s, id) => \E k \in 1 .. c :
          visible[k] = Shown(id, s.messages[id]) /\ visible[k].id = id
  BY <1>2, <1>4, <1>7
<1> QED
  BY <1>9, <1>10, <1>11 DEF visible

\* What is common to the descriptors: they list messages that are visible.
Describes(d, s) ==
    /\ d \in Answered /\ d.version = s.changeSeq /\ d.marker = s.marker
    /\ WithinVersion(d, s.changeSeq)
    /\ \A m \in ToSet(d.messages) :
          /\ Shows(s, m.id) /\ m.id \in 1 .. Len(s.messages)
          /\ \A f \in Field : Of(m, f) = Of(s.messages[m.id], f)

LEMMA AnsweredMade ==
    ASSUME NEW messages \in Seq(Entry), NEW changes \in Seq(Logged), NEW version \in Nat,
           NEW marker \in Id, NEW before \in Id
    PROVE  [messages |-> messages, changes |-> changes, version |-> version,
            marker |-> marker, nextBefore |-> before] \in Answered
  BY DEF Answered

LEMMA AnsweredWith ==
    ASSUME NEW s, IsServer(s), NEW messages \in Seq(Entry), NEW changes \in Seq(Logged),
           NEW before \in Id, NEW d,
           d = [messages |-> messages, changes |-> changes, version |-> s.changeSeq,
                marker |-> s.marker, nextBefore |-> before]
    PROVE  /\ d \in Answered /\ d.version = s.changeSeq /\ d.marker = s.marker
           /\ d.messages = messages /\ d.changes = changes
<1>1. /\ d.version = s.changeSeq /\ d.marker = s.marker
      /\ d.messages = messages /\ d.changes = changes
  OBVIOUS
<1>2. PICK v \in Nat, k \in Id : v = s.changeSeq /\ k = s.marker
  BY ServerIs
<1>3. d = [messages |-> messages, changes |-> changes, version |-> v, marker |-> k,
           nextBefore |-> before]
  BY <1>2
<1>4. d \in Answered
  BY <1>3, AnsweredMade
<1> QED
  BY <1>1, <1>4

LEMMA DescriptorIs ==
    ASSUME NEW s, IsServer(s), NEW messages \in Seq(Entry), NEW changes \in Seq(Logged),
           NEW before \in Id, NEW d,
           d = [messages |-> messages, changes |-> changes, version |-> s.changeSeq,
                marker |-> s.marker, nextBefore |-> before],
           \A k \in 1 .. Len(messages) :
              \E j \in 1 .. Len(Visible(s)) : messages[k] = Visible(s)[j],
           \A k \in 1 .. Len(changes) : changes[k].version <= s.changeSeq
    PROVE  Describes(d, s) /\ d.messages = messages /\ d.changes = changes
<1>2. s.changeSeq \in Nat
  BY ServerIs
<1>3. /\ d \in Answered /\ d.version = s.changeSeq /\ d.marker = s.marker
      /\ d.messages = messages /\ d.changes = changes
  BY AnsweredWith
<1>4. WithinVersion(d, s.changeSeq)
  BY <1>2, <1>3 DEF WithinVersion
<1>5. \A m \in ToSet(messages) : \E k \in 1 .. Len(messages) : m = messages[k]
  BY DEF ToSet
<1>6. \A m \in ToSet(messages) :
          /\ Shows(s, m.id) /\ m.id \in 1 .. Len(s.messages)
          /\ \A f \in Field : Of(m, f) = Of(s.messages[m.id], f)
  <2> SUFFICES ASSUME NEW m \in ToSet(messages)
               PROVE  /\ Shows(s, m.id) /\ m.id \in 1 .. Len(s.messages)
                      /\ \A f \in Field : Of(m, f) = Of(s.messages[m.id], f)
    OBVIOUS
  <2>1. PICK k \in 1 .. Len(messages) : m = messages[k]
    BY <1>5
  <2>2. PICK j \in 1 .. Len(Visible(s)) : m = Visible(s)[j]
    BY <2>1
  <2> QED
    BY <2>2, VisibleIs
<1> QED
  BY <1>3, <1>4, <1>6 DEF Describes

LEMMA FullDescriptorIs ==
    ASSUME NEW s, IsServer(s)
    PROVE  LET d == Descriptor(s, Visible(s), <<>>) IN
           /\ Describes(d, s) /\ d.changes = <<>>
           /\ \A id : Shows(s, id) => Lists(d, id)
<1> DEFINE d == Descriptor(s, Visible(s), <<>>)
<1>1. d = [messages |-> Visible(s), changes |-> <<>>, version |-> s.changeSeq,
           marker |-> s.marker, nextBefore |-> NoId] /\ NoId \in Id
  BY BoundsAssumption DEF Descriptor, NoId, Id
<1>2. Visible(s) \in Seq(Entry) /\ <<>> \in Seq(Logged) /\ Len(<<>>) = 0
  BY VisibleIs
<1>3. Describes(d, s) /\ d.messages = Visible(s) /\ d.changes = <<>>
  <2> DEFINE q == Visible(s)
  <2>1. \A k \in 1 .. Len(q) : \E j \in 1 .. Len(q) : q[k] = q[j]
    OBVIOUS
  <2>2. PICK none \in Seq(Logged) : none = <<>> /\ Len(none) = 0
    BY <1>2
  <2>3. \A k \in 1 .. Len(none) : none[k].version <= s.changeSeq
    BY <2>2
  <2>4. PICK x : x = d
    OBVIOUS
  <2>5. x = [messages |-> q, changes |-> none, version |-> s.changeSeq,
             marker |-> s.marker, nextBefore |-> NoId]
    BY <1>1, <2>2, <2>4
  <2>6. q \in Seq(Entry)
    BY <1>2
  <2> HIDE DEF q
  <2>7. Describes(x, s) /\ x.messages = q /\ x.changes = none
    BY <1>1, <2>1, <2>3, <2>5, <2>6, DescriptorIs DEF q
  <2> QED
    BY <2>2, <2>4, <2>7 DEF q
<1> HIDE DEF d
<1>4. \A k \in 1 .. Len(Visible(s)) : Visible(s)[k] \in ToSet(d.messages)
  BY <1>2, <1>3 DEF ToSet
<1>5. \A id : Shows(s, id) => Lists(d, id)
  BY <1>4, VisibleIs DEF Lists
<1> QED
  BY <1>3, <1>5 DEF d

\* The messages after the cursor, and the changes after the version.
LEMMA SinceDescriptorIs ==
    ASSUME NEW s, IsServer(s), NEW cursor \in Id, NEW version \in Nat
    PROVE  LET d == Descriptor(s, MessagesAfter(s, cursor), ChangesAfter(s, version)) IN
           /\ Describes(d, s)
           /\ \A id : Shows(s, id) /\ id > cursor => Lists(d, id)
           /\ d.messages = MessagesAfter(s, cursor) /\ d.changes = ChangesAfter(s, version)
<1> DEFINE visible == Visible(s)
           V == {k \in DOMAIN visible : visible[k].id > cursor}
           C == {k \in DOMAIN s.changes : s.changes[k].version > version}
           messages == MessagesAfter(s, cursor)
           changes == ChangesAfter(s, version)
           d == Descriptor(s, messages, changes)
<1>1. d = [messages |-> messages, changes |-> changes, version |-> s.changeSeq,
           marker |-> s.marker, nextBefore |-> NoId] /\ NoId \in Id
  BY BoundsAssumption DEF Descriptor, NoId, Id
<1>2. visible \in Seq(Entry) /\ s.changes \in Seq(Logged)
  BY VisibleIs, ServerIs
<1>3. V \in SUBSET (1 .. Len(visible)) /\ C \in SUBSET (1 .. Len(s.changes))
      /\ messages = At(visible, V) /\ changes = At(s.changes, C)
  BY <1>2 DEF MessagesAfter, ChangesAfter
<1>4. \A k : k \in V <=> k \in 1 .. Len(visible) /\ visible[k].id > cursor
  BY <1>2
<1> HIDE DEF V, C, visible, messages, changes, d
<1>5. /\ messages \in Seq(Entry)
      /\ \A i \in 1 .. Len(messages) : \E k \in 1 .. Len(visible) : messages[i] = visible[k]
      /\ \A k \in V : \E i \in 1 .. Len(messages) : messages[i] = visible[k]
  BY <1>2, <1>3, AtIs
<1>6. /\ changes \in Seq(Logged)
      /\ \A i \in 1 .. Len(changes) :
            \E k \in 1 .. Len(s.changes) : changes[i] = s.changes[k]
  BY <1>2, <1>3, AtIs
<1>7. \A k \in 1 .. Len(s.changes) : s.changes[k].version <= s.changeSeq
  <2>1. Len(s.changes) \in Nat /\ s.changeSeq \in Nat
        /\ \A k \in 1 .. Len(s.changes) :
              s.changes[k].version = s.changeSeq - Len(s.changes) + k
    BY ServerIs DEF IsServer, Numbered
  <2> QED
    BY <2>1
<1>8. \A i \in 1 .. Len(changes) : changes[i].version <= s.changeSeq
  BY <1>6, <1>7
<1>9. Describes(d, s) /\ d.messages = messages /\ d.changes = changes
  <2>1. PICK a \in Seq(Entry), b \in Seq(Logged), none \in Id :
            a = messages /\ b = changes /\ none = NoId
    BY <1>1, <1>5, <1>6
  <2>2. d = [messages |-> a, changes |-> b, version |-> s.changeSeq,
             marker |-> s.marker, nextBefore |-> none]
    BY <1>1, <2>1
  <2>3. \A i \in 1 .. Len(a) : \E j \in 1 .. Len(Visible(s)) : a[i] = Visible(s)[j]
    BY <1>5, <2>1 DEF visible
  <2>4. \A i \in 1 .. Len(b) : b[i].version <= s.changeSeq
    BY <1>8, <2>1
  <2>5. Describes(d, s) /\ d.messages = a /\ d.changes = b
    BY <2>2, <2>3, <2>4, DescriptorIs
  <2> QED
    BY <2>1, <2>5
<1>10. \A i \in 1 .. Len(messages) : messages[i] \in ToSet(d.messages)
  BY <1>5, <1>9 DEF ToSet
<1>11. ASSUME NEW id, Shows(s, id), id > cursor PROVE Lists(d, id)
  <2>1. PICK k \in 1 .. Len(visible) : visible[k].id = id
    BY <1>11, VisibleIs DEF visible
  <2>2. k \in V
    BY <1>4, <1>11, <2>1
  <2> QED
    BY <1>5, <1>10, <2>1, <2>2 DEF Lists
<1> QED
  BY <1>9, <1>11 DEF d, messages, changes

LEMMA PageDescriptorIs ==
    ASSUME NEW s, IsServer(s), NEW before \in Id, PageSize # 0
    PROVE  Describes(DescriptorPage(s, before), s)
<1> DEFINE visible == Visible(s)
           S       == {k \in DOMAIN visible : visible[k].id < before}
           end     == IF before = NoId THEN Len(visible) ELSE Cardinality(S)
           start   == IF end > PageSize THEN end - PageSize ELSE 0
           page    == SubSeq(visible, start + 1, end)
           next    == IF start > 0 THEN page[1].id ELSE NoId
           d       == DescriptorPage(s, before)
<1>1. visible \in Seq(Entry) /\ Len(visible) \in Nat /\ S \in SUBSET (1 .. Len(visible))
  BY VisibleIs
<1>2. Cardinality(S) \in Nat /\ Cardinality(S) <= Len(visible)
  <2>1. IsFiniteSet(1 .. Len(visible)) /\ Cardinality(1 .. Len(visible)) = Len(visible)
    <3>1. PICK c \in Nat : c = Len(visible)
      BY <1>1
    <3>2. IsFiniteSet(1 .. c) /\ Cardinality(1 .. c) = c
      BY FS_Interval
    <3> QED
      BY <3>1, <3>2
  <2> HIDE DEF visible, S
  <2> QED
    BY <1>1, <2>1, FS_Subset, UpTo
<1>3. d = [messages |-> page, changes |-> <<>>, version |-> s.changeSeq,
           marker |-> s.marker, nextBefore |-> next]
  <2>1. d = [Descriptor(s, page, <<>>) EXCEPT !.nextBefore = next]
    BY DEF DescriptorPage
  <2> HIDE DEF d, page, next
  <2> QED
    BY <2>1 DEF Descriptor
<1> HIDE DEF visible, S, d
<1>4. end \in 0 .. Len(visible)
  BY <1>1, <1>2
<1> HIDE DEF end
<1>5. PageSize \in Nat /\ PageSize > 0
  BY BoundsAssumption
<1>6. start \in 0 .. end /\ (start > 0 => start + 1 <= end)
  BY <1>1, <1>4, <1>5
<1> HIDE DEF start
<1>7. /\ page \in Seq(Entry) /\ Len(page) = end - start
      /\ \A k \in 1 .. end - start :
            start + k \in 1 .. Len(visible) /\ page[k] = visible[start + k]
  <2>1. start \in Nat /\ end \in Nat /\ start <= end /\ end <= Len(visible)
    BY <1>1, <1>4, <1>6
  <2>2. /\ page \in Seq(Entry) /\ Len(page) = end - (start + 1) + 1
        /\ \A k \in 1 .. end - (start + 1) + 1 : page[k] = visible[(start + 1) + k - 1]
    BY <1>1, <2>1
  <2>3. /\ end - (start + 1) + 1 = end - start
        /\ \A k \in 1 .. end - start :
              (start + 1) + k - 1 = start + k /\ start + k \in 1 .. Len(visible)
    BY <1>1, <2>1
  <2> HIDE DEF page
  <2> QED
    BY <2>2, <2>3
<1> HIDE DEF page
<1>8. next \in Id
  <2>1. \A m \in Entry : m.id \in Id
    BY BoundsAssumption DEF Entry, Id
  <2>2. NoId \in Id
    BY BoundsAssumption DEF Id, NoId
  <2>3. start > 0 => 1 \in 1 .. Len(page)
    BY <1>4, <1>6, <1>7
  <2> QED
    BY <1>7, <2>1, <2>2, <2>3
<1> HIDE DEF next
<1>9. \A k \in 1 .. Len(page) : \E j \in 1 .. Len(visible) : page[k] = visible[j]
  BY <1>7
<1>10. <<>> \in Seq(Logged) /\ Len(<<>>) = 0
  OBVIOUS
<1>11. Describes(d, s)
  <2>5. PICK none \in Seq(Logged) : none = <<>> /\ Len(none) = 0
    BY <1>10
  <2>1. \A k \in 1 .. Len(none) : none[k].version <= s.changeSeq
    BY <2>5
  <2>2. page \in Seq(Entry)
        /\ \A k \in 1 .. Len(page) : \E j \in 1 .. Len(Visible(s)) : page[k] = Visible(s)[j]
    BY <1>7, <1>9 DEF visible
  <2>3. PICK q \in Seq(Entry), w \in Id : q = page /\ w = next
    BY <1>8, <2>2
  <2>4. d = [messages |-> q, changes |-> none, version |-> s.changeSeq,
             marker |-> s.marker, nextBefore |-> w]
    BY <1>3, <2>3, <2>5
  <2>6. \A k \in 1 .. Len(q) : \E j \in 1 .. Len(Visible(s)) : q[k] = Visible(s)[j]
    BY <2>2, <2>3
  <2> QED
    BY <2>1, <2>4, <2>6, DescriptorIs
<1> QED
  BY <1>11 DEF d
--------------------------------------------------------------------------------
(* What a step of the server does *)

\* What was visible stays so, and versions only grow.
Grows(s, after) ==
    /\ IsServer(after) /\ s.changeSeq <= after.changeSeq
    /\ \A id : Shows(s, id) => Shows(after, id)

LEMMA MessagesGrow ==
    ASSUME NEW s, IsServer(s), NEW messages \in Seq(Message), Len(messages) <= MaxMessages,
           Len(s.messages) <= Len(messages),
           \A i \in 1 .. Len(s.messages) : ~ s.messages[i].scheduled => ~ messages[i].scheduled,
           NEW after,
           after = [messages |-> messages, changes |-> s.changes,
                    changeSeq |-> s.changeSeq, marker |-> s.marker]
    PROVE  Grows(s, after) /\ after.messages = messages /\ after.changeSeq = s.changeSeq
<1>1. /\ s \in [messages : Seq(Message), changes : Seq(Logged), changeSeq : Nat, marker : Id]
      /\ Numbered(s.changes, s.changeSeq)
  BY DEF IsServer
<1>3. PICK changes \in Seq(Logged), seq \in Nat : changes = s.changes /\ seq = s.changeSeq
  BY <1>1
<1>4. after = [messages |-> messages, changes |-> changes, changeSeq |-> seq,
               marker |-> s.marker] /\ Numbered(changes, seq)
  BY <1>1, <1>3
<1>5. IsServer(after) /\ after.messages = messages /\ after.changeSeq = seq
  BY <1>4, ServerWith
<1>6. \A id : Shows(s, id) => Shows(after, id)
  <2>1. Len(s.messages) \in Nat /\ Len(messages) \in Nat /\ DOMAIN messages = 1 .. Len(messages)
        /\ DOMAIN s.messages = 1 .. Len(s.messages)
    BY ServerIs
  <2>2. 1 .. Len(s.messages) \subseteq 1 .. Len(messages)
    BY <2>1
  <2> QED
    BY <1>5, <2>1, <2>2 DEF Shows
<1> QED
  BY <1>1, <1>3, <1>5, <1>6 DEF Grows

LEMMA RecordedGrows ==
    ASSUME NEW s, IsServer(s), NEW kind \in Kind, NEW id \in Id, NEW text \in Said,
           Event(Change(s.changeSeq + 1, kind, id, text))
    PROVE  /\ Grows(s, Recorded(s, kind, id, text))
           /\ Recorded(s, kind, id, text).messages = s.messages
<1> DEFINE after == Recorded(s, kind, id, text)
<1>1. /\ IsServer(after) /\ after.messages = s.messages
      /\ after.changeSeq = s.changeSeq + 1
  BY RecordedIs
<1> HIDE DEF after
<1>2. s.changeSeq \in Nat
  BY ServerIs
<1> QED
  BY <1>1, <1>2 DEF Grows, Shows, after

LEMMA ReleasedGrows ==
    ASSUME NEW s, IsServer(s), NEW due \in SUBSET Due(s)
    PROVE  Grows(s, Released(s, due))
<1> DEFINE after == Released(s, due)
<1>1. /\ IsServer(after) /\ Len(after.messages) = Len(s.messages)
      /\ \A i \in 1 .. Len(s.messages) :
            after.messages[i] = IF i \in due THEN [s.messages[i] EXCEPT !.scheduled = FALSE]
                                ELSE s.messages[i]
      /\ Cardinality(due) \in Nat /\ after.changeSeq = s.changeSeq + Cardinality(due)
  BY ReleasedIs
<1> HIDE DEF after
<1>2. /\ DOMAIN after.messages = 1 .. Len(after.messages) /\ s.changeSeq \in Nat
      /\ DOMAIN s.messages = 1 .. Len(s.messages)
      /\ \A i \in 1 .. Len(s.messages) : s.messages[i] \in Message
  BY <1>1, ServerIs
<1>3. ASSUME NEW id, Shows(s, id) PROVE Shows(after, id)
  <2>1. id \in 1 .. Len(s.messages) /\ ~ s.messages[id].scheduled /\ s.messages[id] \in Message
    BY <1>2, <1>3 DEF Shows
  <2>2. ~ after.messages[id].scheduled
    BY <1>1, <2>1 DEF Message
  <2> QED
    BY <1>1, <1>2, <2>1, <2>2 DEF Shows
<1>4. s.changeSeq <= after.changeSeq
  BY <1>1, <1>2
<1> QED
  BY <1>1, <1>3, <1>4 DEF Grows, after

LEMMA GrowsOn ==
    ASSUME NEW s, NEW t, NEW u, IsServer(s), Grows(s, t), Grows(t, u)
    PROVE  Grows(s, u)
<1>1. s.changeSeq \in Nat /\ t.changeSeq \in Nat /\ u.changeSeq \in Nat
  BY ServerIs DEF Grows
<1> QED
  BY <1>1 DEF Grows

--------------------------------------------------------------------------------
(* The invariant *)

AtMostOne(S) == \A x, y \in S : x = y

Request == {r \in [kind : Asked, cursor : Id, version : Nat] :
               r.kind = "page" => PageSize # 0}
Reply   == [kind : Asked, descriptors : SUBSET Answered, ahead : Nat]

\* What is delivered is visible.
Evident(e, s) == e.kind = "message_deliver" => Shows(s, e.id)
AllEvident(q, s) == \A k \in 1 .. Len(q) : Evident(q[k], s)

\* What is listed is visible, and is not of a version to come.
Timely(d, s) ==
    WithinVersion(d, s.changeSeq) /\ \A m \in ToSet(d.messages) : Shows(s, m.id)

PeersInv ==
    /\ member \in BOOLEAN /\ online \in BOOLEAN
    /\ pending \in [Peers -> Seq(Told)]
    /\ \A p \in Peers : AllEvident(pending[p], server)

WireInv ==
    /\ pushes \in Seq(Told) /\ AllEvident(pushes, server)
    /\ request \subseteq Request /\ reply \subseteq Reply
    /\ AtMostOne(request) /\ AtMostOne(reply) /\ (request = {} \/ reply = {})
    /\ \A r \in reply : \A d \in r.descriptors : Timely(d, server)

StoreInv ==
    /\ store \in Copy /\ CursorHeld(store) /\ store.version <= server.changeSeq
    /\ \A m \in ToSet(store.held) : Shows(server, m.id)

SyncInv == IsServer(server) /\ PeersInv /\ WireInv /\ StoreInv
--------------------------------------------------------------------------------
(* The peers keep it *)

LEMMA SyncInit == Init => SyncInv
<1> SUFFICES ASSUME Init PROVE SyncInv
  OBVIOUS
<1>1. /\ Retained \in Nat /\ MaxMessages \in Nat /\ NoId \in Id /\ 0 \in Nat
      /\ <<>> \in Seq(Message) /\ <<>> \in Seq(Logged) /\ <<>> \in Seq(Told) /\ Len(<<>>) = 0
  BY BoundsAssumption DEF Id, NoId
<1>2. IsServer(server)
  BY <1>1 DEF Init, IsServer, Numbered
<1>3. PeersInv
  <2>1. member \in BOOLEAN /\ online \in BOOLEAN
    BY DEF Init, JoinsLate
  <2>2. pending = [p \in Peers |-> <<>>]
    BY DEF Init
  <2>3. pending \in [Peers -> Seq(Told)] /\ \A p \in Peers : pending[p] = <<>>
    BY <1>1, <2>2
  <2>4. \A p \in Peers : AllEvident(pending[p], server)
    BY <1>1, <2>3 DEF AllEvident
  <2> QED
    BY <2>1, <2>3, <2>4 DEF PeersInv
<1>4. WireInv
  BY <1>1 DEF Init, WireInv, AllEvident, AtMostOne
<1>5. StoreInv
  <2>1. store = EmptyStore /\ server.changeSeq = 0
    BY DEF Init
  <2> QED
    BY <2>1, EmptyStoreIs DEF StoreInv
<1> QED
  BY <1>2, <1>3, <1>4, <1>5 DEF SyncInv

LEMMA EvidentGrows ==
    ASSUME NEW s, NEW t, Grows(s, t), NEW q, AllEvident(q, s)
    PROVE  AllEvident(q, t)
  BY DEF AllEvident, Evident, Grows

LEMMA TimelyGrows ==
    ASSUME NEW s, IsServer(s), NEW t, Grows(s, t), NEW d \in Answered, Timely(d, s)
    PROVE  Timely(d, t)
<1>1. s.changeSeq \in Nat /\ t.changeSeq \in Nat /\ s.changeSeq <= t.changeSeq
  BY ServerIs DEF Grows
<1>2. d.version \in Nat /\ \A k \in 1 .. Len(d.changes) : d.changes[k].version \in Nat
  <2>1. d.version \in Nat /\ d.changes \in Seq(Logged)
    BY AnsweredIs
  <2>2. \A k \in 1 .. Len(d.changes) : d.changes[k] \in Logged
    BY <2>1
  <2> QED
    BY <2>1, <2>2 DEF Logged
<1>3. WithinVersion(d, t.changeSeq)
  BY <1>1, <1>2 DEF Timely, WithinVersion
<1> QED
  BY <1>3 DEF Timely, Grows

\* The client's side does not notice what happens on the server.
LEMMA ClientKeeps ==
    ASSUME SyncInv, Grows(server, server'), UNCHANGED clientVars
    PROVE  WireInv' /\ StoreInv'
<1>1. WireInv'
  <2>1. AllEvident(pushes, server')
    BY EvidentGrows DEF SyncInv, WireInv
  <2>2. ASSUME NEW r \in reply, NEW d \in r.descriptors PROVE Timely(d, server')
    <3>1. r \in Reply /\ d \in Answered /\ Timely(d, server)
      BY <2>2 DEF SyncInv, WireInv, Reply
    <3> QED
      BY <3>1, TimelyGrows DEF SyncInv
  <2> QED
    BY <2>1, <2>2 DEF SyncInv, WireInv, clientVars
<1>2. StoreInv'
  <2>1. server.changeSeq \in Nat /\ server'.changeSeq \in Nat /\ store.version \in Nat
    BY ServerIs, CopyIs DEF SyncInv, StoreInv, Grows
  <2>2. store.version <= server'.changeSeq
    BY <2>1 DEF SyncInv, StoreInv, Grows
  <2> QED
    BY <2>2 DEF SyncInv, StoreInv, Grows, clientVars
<1> QED
  BY <1>1, <1>2

\* The server changes, and nobody is told.
LEMMA QuietlyKeeps ==
    ASSUME SyncInv, Grows(server, server'), UNCHANGED <<member, pending, clientVars>>
    PROVE  SyncInv'
<1>1. WireInv' /\ StoreInv'
  BY ClientKeeps
<1>2. \A x \in Peers : AllEvident(pending[x], server')
  BY EvidentGrows DEF SyncInv, PeersInv
<1>3. PeersInv'
  BY <1>2 DEF PeersInv, SyncInv, clientVars
<1> QED
  BY <1>1, <1>3 DEF SyncInv, Grows

\* A mutation, with its push still to be fanned out.
LEMMA MutationKeeps ==
    ASSUME SyncInv, NEW p \in Peers, NEW push \in Told, Evident(push, server'),
           Grows(server, server'), Serves(p, push), member' \in BOOLEAN, UNCHANGED clientVars
    PROVE  SyncInv'
<1>1. WireInv' /\ StoreInv'
  BY ClientKeeps
<1>2. pending' = [pending EXCEPT ![p] = <<push>>] /\ pending \in [Peers -> Seq(Told)]
  BY DEF Serves, SyncInv, PeersInv
<1>3. <<push>> \in Seq(Told) /\ AllEvident(<<push>>, server')
  BY DEF AllEvident
<1>4. \A x \in Peers : AllEvident(pending[x], server')
  BY EvidentGrows DEF SyncInv, PeersInv
<1>5. /\ pending' \in [Peers -> Seq(Told)]
      /\ \A x \in Peers : AllEvident(pending'[x], server')
  BY <1>2, <1>3, <1>4
<1>6. PeersInv'
  BY <1>5 DEF PeersInv, SyncInv, clientVars
<1> QED
  BY <1>1, <1>6 DEF SyncInv, Grows

\* What is pushed, and recorded, is an event.
LEMMA PushMade ==
    ASSUME NEW kind \in Kind, NEW id \in Id, NEW text \in Said,
           kind = "message_deliver" => text \in Body /\ id # NoId,
           kind = "message_edited" => text \in Body,
           kind = "message_reaction_updated" => text \in {Cleared, Liked}
    PROVE  /\ Push(kind, id, text) \in Told
           /\ Push(kind, id, text).kind = kind /\ Push(kind, id, text).id = id
           /\ \A v : Event(Change(v, kind, id, text))
  BY DEF Push, Change, Told, Event

LEMMA SendMessageKeeps ==
    ASSUME SyncInv, NEW p \in Peers, NEW text \in Body, SendMessage(p, text)
    PROVE  SyncInv'
<1> DEFINE new      == Fresh(text, FALSE)
           messages == Append(server.messages, new)
           id       == Len(server.messages) + 1
           push     == Push("message_deliver", id, text)
<1>1. /\ server.messages \in Seq(Message) /\ Len(server.messages) \in Nat
      /\ Len(server.messages) < MaxMessages /\ MaxMessages \in Nat /\ IsServer(server)
  BY ServerIs, BoundsAssumption DEF SyncInv, SendMessage
<1>2. new \in Message /\ ~ new.scheduled
  BY DEF Fresh, Message
<1> HIDE DEF new
<1>3. /\ messages \in Seq(Message) /\ Len(messages) = id /\ messages[id] = new
      /\ \A i \in 1 .. Len(server.messages) : messages[i] = server.messages[i]
  BY <1>1, <1>2
<1>4. server' = [messages |-> messages, changes |-> server.changes,
                 changeSeq |-> server.changeSeq, marker |-> server.marker]
  BY <1>1 DEF SendMessage, IsServer, new
<1> HIDE DEF messages
<1>5. id <= MaxMessages /\ id \in Id /\ id # NoId /\ id \in 1 .. Len(messages)
      /\ Len(server.messages) <= Len(messages)
  BY <1>1, <1>3 DEF Id, NoId
<1> HIDE DEF id
<1>6. Grows(server, server') /\ server'.messages = messages
  <2>1. \A i \in 1 .. Len(server.messages) :
            ~ server.messages[i].scheduled => ~ messages[i].scheduled
    BY <1>3
  <2>2. Len(messages) <= MaxMessages
    BY <1>3, <1>5
  <2> QED
    BY <1>1, <1>3, <1>4, <1>5, <2>1, <2>2, MessagesGrow
<1>7. push \in Told /\ push.id = id
  BY <1>5, PushMade DEF Kind, Said
<1>8. Serves(p, push) /\ UNCHANGED <<member, clientVars>>
  BY DEF SendMessage, id
<1> HIDE DEF push
<1>9. Evident(push, server')
  <2>1. DOMAIN messages = 1 .. Len(messages)
    BY <1>3
  <2> QED
    BY <1>2, <1>3, <1>5, <1>6, <1>7, <2>1 DEF Evident, Shows
<1>10. member' \in BOOLEAN
  BY <1>8 DEF SyncInv, PeersInv
<1> QED
  BY <1>6, <1>7, <1>8, <1>9, <1>10, MutationKeeps

LEMMA ForwardMessageKeeps ==
    ASSUME SyncInv, NEW p \in Peers, NEW id \in DOMAIN server.messages, ForwardMessage(p, id)
    PROVE  SyncInv'
<1>1. server.messages[id] \in Message
  BY ServerIs DEF SyncInv
<1>2. server.messages[id].text \in Body
  BY <1>1 DEF Message
<1> QED
  BY <1>2, SendMessageKeeps DEF ForwardMessage

LEMMA ScheduleMessageKeeps ==
    ASSUME SyncInv, NEW p \in Peers, NEW text \in Text, ScheduleMessage(p, text)
    PROVE  SyncInv'
<1> DEFINE new      == Fresh(text, TRUE)
           messages == Append(server.messages, new)
<1>1. /\ server.messages \in Seq(Message) /\ Len(server.messages) \in Nat
      /\ Len(server.messages) < MaxMessages /\ MaxMessages \in Nat /\ IsServer(server)
  BY ServerIs, BoundsAssumption DEF SyncInv, ScheduleMessage
<1>2. new \in Message
  BY DEF Fresh, Message, Body
<1> HIDE DEF new
<1>3. /\ messages \in Seq(Message) /\ Len(messages) = Len(server.messages) + 1
      /\ \A i \in 1 .. Len(server.messages) : messages[i] = server.messages[i]
  BY <1>1, <1>2
<1>4. server' = [messages |-> messages, changes |-> server.changes,
                 changeSeq |-> server.changeSeq, marker |-> server.marker]
  BY <1>1 DEF ScheduleMessage, IsServer, new
<1> HIDE DEF messages
<1>5. Grows(server, server')
  <2>1. \A i \in 1 .. Len(server.messages) :
            ~ server.messages[i].scheduled => ~ messages[i].scheduled
    BY <1>3
  <2>2. Len(messages) <= MaxMessages /\ Len(server.messages) <= Len(messages)
    BY <1>1, <1>3
  <2> QED
    BY <1>1, <1>3, <1>4, <2>1, <2>2, MessagesGrow
<1>6. UNCHANGED <<member, pending, online, clientVars>>
  BY DEF ScheduleMessage, clientVars
<1> QED
  BY <1>5, <1>6, QuietlyKeeps
LEMMA ServiceCommandKeeps ==
    ASSUME SyncInv, NEW p \in Peers, NEW text \in Text, ServiceCommand(p, text)
    PROVE  SyncInv'
<1> DEFINE new      == Fresh(text, FALSE)
           n        == Len(server.messages)
           messages == server.messages \o <<new, new>>
           stored   == [server EXCEPT !.messages = messages]
           first    == Recorded(stored, "message_deliver", n + 1, text)
           push     == Push("message_deliver", n + 1 + 1, text)
<1>1. /\ server.messages \in Seq(Message) /\ n \in Nat /\ IsServer(server)
      /\ n + 2 <= MaxMessages /\ MaxMessages \in Nat
  BY ServerIs, BoundsAssumption DEF SyncInv, ServiceCommand
<1>2. new \in Message /\ ~ new.scheduled
  BY DEF Fresh, Message, Body
<1>3. /\ server' = Recorded(first, "message_deliver", n + 1 + 1, text)
      /\ Serves(p, push) /\ UNCHANGED <<member, clientVars>>
  BY DEF ServiceCommand
<1> HIDE DEF new, first, push
<1>4. stored = [messages |-> messages, changes |-> server.changes,
                changeSeq |-> server.changeSeq, marker |-> server.marker]
  <2> HIDE DEF messages
  <2> QED
    BY <1>1 DEF IsServer
<1> HIDE DEF stored
<1>5. /\ messages \in Seq(Message) /\ Len(messages) = n + 2 /\ messages[n + 2] = new
      /\ \A i \in 1 .. n : messages[i] = server.messages[i]
  BY <1>1, <1>2
<1> HIDE DEF messages
<1>6. Grows(server, stored) /\ stored.messages = messages
  <2>1. \A i \in 1 .. Len(server.messages) :
            ~ server.messages[i].scheduled => ~ messages[i].scheduled
    BY <1>5
  <2>2. Len(messages) <= MaxMessages /\ Len(server.messages) <= Len(messages)
    BY <1>1, <1>5
  <2> QED
    BY <1>1, <1>4, <1>5, <2>1, <2>2, MessagesGrow
<1>7. /\ n + 1 \in Id /\ n + 1 # NoId /\ n + 1 + 1 \in Id /\ n + 1 + 1 # NoId
      /\ n + 1 + 1 = n + 2 /\ n + 2 \in 1 .. Len(messages)
  BY <1>1, <1>5 DEF Id, NoId
<1> HIDE DEF n
<1>8. text \in Body /\ text \in Said /\ "message_deliver" \in Kind
  BY DEF Body, Said, Kind
<1>9. Grows(stored, first) /\ first.messages = messages
  <2>1. Event(Change(stored.changeSeq + 1, "message_deliver", n + 1, text))
    BY <1>7, <1>8, PushMade
  <2> QED
    BY <1>6, <1>7, <1>8, <2>1, RecordedGrows DEF Grows, first
<1>10. Grows(first, server') /\ server'.messages = messages
  <2>1. Event(Change(first.changeSeq + 1, "message_deliver", n + 1 + 1, text))
    BY <1>7, <1>8, PushMade
  <2> QED
    BY <1>3, <1>7, <1>8, <1>9, <2>1, RecordedGrows DEF Grows
<1>11. Grows(server, server')
  BY <1>1, <1>6, <1>9, <1>10, GrowsOn DEF Grows
<1>12. push \in Told /\ push.id = n + 1 + 1
  BY <1>7, <1>8, PushMade DEF push
<1>13. Evident(push, server')
  <2>1. DOMAIN messages = 1 .. Len(messages)
    BY <1>5
  <2> QED
    BY <1>2, <1>5, <1>7, <1>10, <1>12, <2>1 DEF Evident, Shows
<1>14. member' \in BOOLEAN
  BY <1>3 DEF SyncInv, PeersInv
<1> QED
  BY <1>3, <1>11, <1>12, <1>13, <1>14, MutationKeeps

\* A message is rewritten, which is recorded and pushed alike.
LEMMA RewriteKeeps ==
    ASSUME SyncInv, NEW p \in Peers, NEW id \in DOMAIN server.messages, NEW m \in Message,
           m.scheduled = server.messages[id].scheduled,
           NEW kind \in Rewriting, NEW text \in Said,
           kind = "message_edited" => text \in Body,
           kind = "message_reaction_updated" => text \in {Cleared, Liked},
           NEW s, s = [messages |-> [server.messages EXCEPT ![id] = m],
                       changes |-> server.changes, changeSeq |-> server.changeSeq,
                       marker |-> server.marker],
           server' = Recorded(s, kind, id, text),
           Serves(p, Push(kind, id, text)), UNCHANGED <<setting, member, clientVars>>
    PROVE  SyncInv'
<1> DEFINE messages == [server.messages EXCEPT ![id] = m]
           push     == Push(kind, id, text)
<1>1. /\ server.messages \in Seq(Message) /\ Len(server.messages) \in Nat
      /\ Len(server.messages) <= MaxMessages /\ MaxMessages \in Nat /\ IsServer(server)
      /\ id \in 1 .. Len(server.messages) /\ id \in Id
  BY ServerIs, BoundsAssumption DEF SyncInv, IsServer
<1>2. /\ messages \in Seq(Message) /\ Len(messages) = Len(server.messages)
      /\ \A i \in 1 .. Len(server.messages) :
            messages[i] = IF i = id THEN m ELSE server.messages[i]
  BY <1>1
<1>3. s = [messages |-> messages, changes |-> server.changes,
           changeSeq |-> server.changeSeq, marker |-> server.marker]
  OBVIOUS
<1> HIDE DEF messages, push
<1>4. Grows(server, s)
  <2>1. \A i \in 1 .. Len(server.messages) :
            ~ server.messages[i].scheduled => ~ messages[i].scheduled
    BY <1>2
  <2>2. Len(messages) <= MaxMessages /\ Len(server.messages) <= Len(messages)
    BY <1>1, <1>2
  <2> QED
    BY <1>1, <1>2, <1>3, <2>1, <2>2, MessagesGrow
<1>5. kind \in Kind /\ kind # "message_deliver"
  BY DEF Kind, Rewriting
<1>6. push \in Told /\ push.kind = kind /\ Event(Change(s.changeSeq + 1, kind, id, text))
  BY <1>1, <1>5, PushMade DEF push
<1>7. Grows(s, server')
  BY <1>1, <1>4, <1>5, <1>6, RecordedGrows DEF Grows
<1>8. Grows(server, server')
  BY <1>1, <1>4, <1>7, GrowsOn
<1>9. Evident(push, server') /\ member' \in BOOLEAN /\ Serves(p, push)
  BY <1>5, <1>6 DEF Evident, SyncInv, PeersInv, push
<1> QED
  BY <1>6, <1>8, <1>9, MutationKeeps
LEMMA MessagesSet ==
    ASSUME NEW s, IsServer(s), NEW messages
    PROVE  [s EXCEPT !.messages = messages] =
              [messages |-> messages, changes |-> s.changes,
               changeSeq |-> s.changeSeq, marker |-> s.marker]
  BY DEF IsServer

LEMMA EditMessageKeeps ==
    ASSUME SyncInv, NEW p \in Peers, NEW id \in DOMAIN server.messages, NEW text \in Text,
           EditMessage(p, id, text)
    PROVE  SyncInv'
<1> DEFINE m == [server.messages[id] EXCEPT !.text = text]
           s == [server EXCEPT !.messages[id].text = text]
<1>1. server.messages[id] \in Message /\ IsServer(server)
  BY ServerIs DEF SyncInv
<1>2. m \in Message /\ m.scheduled = server.messages[id].scheduled
  BY <1>1 DEF Message, Body
<1>3. s = [messages |-> [server.messages EXCEPT ![id] = m], changes |-> server.changes,
           changeSeq |-> server.changeSeq, marker |-> server.marker]
  <2>1. s = [server EXCEPT !.messages = [server.messages EXCEPT ![id] = m]]
    OBVIOUS
  <2> QED
    BY <1>1, <2>1, MessagesSet
<1>4. /\ server' = Recorded(s, "message_edited", id, text)
      /\ Serves(p, Push("message_edited", id, text)) /\ UNCHANGED <<setting, member, clientVars>>
  BY DEF EditMessage
<1> HIDE DEF m, s
<1>5. text \in Body /\ text \in Said /\ "message_edited" \in Rewriting
  BY DEF Body, Said, Rewriting
<1> QED
  BY <1>2, <1>3, <1>4, <1>5, RewriteKeeps

LEMMA DeletedServer ==
    ASSUME IsServer(server), NEW id \in DOMAIN server.messages
    PROVE  [server EXCEPT !.messages[id].text = Cleared, !.messages[id].deleted = TRUE] =
              [messages |-> [server.messages EXCEPT ![id] =
                                [server.messages[id] EXCEPT !.text = Cleared, !.deleted = TRUE]],
               changes |-> server.changes, changeSeq |-> server.changeSeq,
               marker |-> server.marker]
<1> DEFINE m == [server.messages[id] EXCEPT !.text = Cleared, !.deleted = TRUE]
           s == [server EXCEPT !.messages[id].text = Cleared, !.messages[id].deleted = TRUE]
           t == [server.messages[id] EXCEPT !.text = Cleared]
           q == [server.messages EXCEPT ![id] = t]
           u == [server EXCEPT !.messages = q]
<1> SUFFICES s = [messages |-> [server.messages EXCEPT ![id] = m], changes |-> server.changes,
                  changeSeq |-> server.changeSeq, marker |-> server.marker]
  OBVIOUS
<1>0. server.messages[id] \in Message
  BY ServerIs
<1>1. u = [messages |-> q, changes |-> server.changes, changeSeq |-> server.changeSeq,
           marker |-> server.marker]
  BY MessagesSet
<1>2. s = [u EXCEPT !.messages[id] = m]
  BY <1>0 DEF IsServer, Message
<1> HIDE DEF s, u, q
<1>3. s = [messages |-> [q EXCEPT ![id] = m], changes |-> server.changes,
           changeSeq |-> server.changeSeq, marker |-> server.marker]
  BY <1>1, <1>2
<1>4. [q EXCEPT ![id] = m] = [server.messages EXCEPT ![id] = m]
  BY DEF q
<1> QED
  BY <1>3, <1>4

LEMMA DeleteMessageKeeps ==
    ASSUME SyncInv, NEW p \in Peers, NEW id \in DOMAIN server.messages, DeleteMessage(p, id)
    PROVE  SyncInv'
<1> DEFINE m == [server.messages[id] EXCEPT !.text = Cleared, !.deleted = TRUE]
           s == [server EXCEPT !.messages[id].text = Cleared, !.messages[id].deleted = TRUE]
<1>1. server.messages[id] \in Message /\ IsServer(server)
  BY ServerIs DEF SyncInv
<1>2. m \in Message /\ m.scheduled = server.messages[id].scheduled
  BY <1>1 DEF Message, Body
<1>3. s = [messages |-> [server.messages EXCEPT ![id] = m], changes |-> server.changes,
           changeSeq |-> server.changeSeq, marker |-> server.marker]
  BY <1>1, DeletedServer
<1>4. /\ server' = Recorded(s, "message_deleted", id, Cleared)
      /\ Serves(p, Push("message_deleted", id, Cleared))
      /\ UNCHANGED <<setting, member, clientVars>>
  BY DEF DeleteMessage
<1> HIDE DEF m, s
<1>5. Cleared \in Said /\ "message_deleted" \in Rewriting
  BY DEF Body, Said, Rewriting
<1> QED
  BY <1>2, <1>3, <1>4, <1>5, RewriteKeeps

LEMMA RetouchKeeps ==
    ASSUME SyncInv, NEW p \in Peers, NEW id \in DOMAIN server.messages, NEW m \in Message,
           m.scheduled = server.messages[id].scheduled,
           NEW kind \in Rewriting, kind # "message_edited", NEW text \in Said,
           kind = "message_reaction_updated" => text \in {Cleared, Liked},
           Retouch(p, id, kind, m, text)
    PROVE  SyncInv'
<1> DEFINE s == [server EXCEPT !.messages[id] = m]
<1>1. IsServer(server)
  BY DEF SyncInv
<1>2. s = [messages |-> [server.messages EXCEPT ![id] = m], changes |-> server.changes,
           changeSeq |-> server.changeSeq, marker |-> server.marker]
  <2>1. s = [server EXCEPT !.messages = [server.messages EXCEPT ![id] = m]]
    OBVIOUS
  <2> QED
    BY <1>1, <2>1, MessagesSet
<1>3. /\ server' = Recorded(s, kind, id, text) /\ Serves(p, Push(kind, id, text))
      /\ UNCHANGED <<setting, member, clientVars>>
  BY DEF Retouch
<1> HIDE DEF s
<1> QED
  BY <1>2, <1>3, RewriteKeeps

LEMMA ToggleReactionKeeps ==
    ASSUME SyncInv, NEW p \in Peers, NEW id \in DOMAIN server.messages, ToggleReaction(p, id)
    PROVE  SyncInv'
<1> DEFINE reaction == IF server.messages[id].reaction = Cleared THEN Liked ELSE Cleared
           m == [server.messages[id] EXCEPT !.reaction = reaction]
           kind == "message_reaction_updated"
<1>1. server.messages[id] \in Message
  BY ServerIs DEF SyncInv
<1>2. reaction \in {Cleared, Liked} /\ reaction \in Said
  BY DEF Said, Body
<1>3. Retouch(p, id, kind, m, reaction)
  BY DEF ToggleReaction
<1> HIDE DEF reaction
<1>4. m \in Message /\ m.scheduled = server.messages[id].scheduled
  BY <1>1, <1>2 DEF Message
<1>5. kind \in Rewriting /\ kind # "message_edited"
  BY DEF Rewriting
<1> HIDE DEF m, kind
<1> QED
  BY <1>2, <1>3, <1>4, <1>5, RetouchKeeps

LEMMA SetPinKeeps ==
    ASSUME SyncInv, NEW p \in Peers, NEW id \in DOMAIN server.messages, NEW pinned \in BOOLEAN,
           SetPin(p, id, pinned)
    PROVE  SyncInv'
<1> DEFINE text == IF pinned THEN PinnedText ELSE Cleared
           m == [server.messages[id] EXCEPT !.pinned = pinned]
           kind == "message_pin_updated"
<1>1. server.messages[id] \in Message
  BY ServerIs DEF SyncInv
<1>2. m \in Message /\ m.scheduled = server.messages[id].scheduled
  BY <1>1 DEF Message
<1>3. text \in Said
  BY DEF Said, Body
<1>4. Retouch(p, id, kind, m, text)
  BY DEF SetPin
<1>5. kind \in Rewriting /\ kind # "message_edited" /\ kind # "message_reaction_updated"
  BY DEF Rewriting
<1> HIDE DEF m, kind, text
<1> QED
  BY <1>2, <1>3, <1>4, <1>5, RetouchKeeps

LEMMA MarkerGrows ==
    ASSUME NEW s, IsServer(s), NEW marker \in Id, NEW after,
           after = [messages |-> s.messages, changes |-> s.changes,
                    changeSeq |-> s.changeSeq, marker |-> marker]
    PROVE  Grows(s, after)
<1>1. after.messages = s.messages /\ after.changes = s.changes /\ after.changeSeq = s.changeSeq
  OBVIOUS
<1>2. IsServer(after)
  BY DEF IsServer
<1>3. s.changeSeq \in Nat
  BY ServerIs
<1> QED
  BY <1>1, <1>2, <1>3 DEF Grows, Shows

LEMMA GrowsSame ==
    ASSUME NEW s, IsServer(s)
    PROVE  Grows(s, s)
<1>1. s.changeSeq \in Nat
  BY ServerIs
<1> QED
  BY <1>1 DEF Grows

LEMMA MarkReadKeeps ==
    ASSUME SyncInv, NEW p \in Peers, NEW id \in DOMAIN server.messages, MarkRead(p, id)
    PROVE  SyncInv'
<1> DEFINE effective == IF id > server.marker THEN id ELSE server.marker
           s    == [server EXCEPT !.marker = effective]
           push == Push("read_marker", effective, Cleared)
<1>1. IsServer(server) /\ id \in Id /\ server.marker \in Id
  BY ServerIs DEF SyncInv
<1>2. effective \in Id
  BY <1>1
<1>3. /\ server' = IF effective = server.marker THEN server
                   ELSE Recorded(s, "read_marker", effective, Cleared)
      /\ Serves(p, push) /\ UNCHANGED <<member, clientVars>>
  BY DEF MarkRead
<1>4. s = [messages |-> server.messages, changes |-> server.changes,
           changeSeq |-> server.changeSeq, marker |-> effective]
  BY <1>1 DEF IsServer
<1> HIDE DEF effective, s
<1>5. Cleared \in Said /\ "read_marker" \in Kind
  BY DEF Said, Body, Kind
<1>6. push \in Told /\ push.kind = "read_marker"
      /\ Event(Change(s.changeSeq + 1, "read_marker", effective, Cleared))
  BY <1>2, <1>5, PushMade
<1> HIDE DEF push
<1>7. Grows(server, server')
  <2>1. CASE effective = server.marker
    BY <1>1, <1>3, <2>1, GrowsSame
  <2>2. CASE effective # server.marker
    <3>1. Grows(server, s)
      BY <1>1, <1>2, <1>4, MarkerGrows
    <3>2. Grows(s, Recorded(s, "read_marker", effective, Cleared))
      BY <1>2, <1>5, <1>6, <3>1, RecordedGrows DEF Grows
    <3> QED
      BY <1>1, <1>3, <2>2, <3>1, <3>2, GrowsOn
  <2> QED
    BY <2>1, <2>2
<1>8. Evident(push, server') /\ member' \in BOOLEAN
  BY <1>3, <1>6 DEF Evident, SyncInv, PeersInv
<1> QED
  BY <1>3, <1>6, <1>7, <1>8, MutationKeeps

LEMMA AddParticipantKeeps ==
    ASSUME SyncInv, NEW p \in Peers, AddParticipant(p)
    PROVE  SyncInv'
<1> DEFINE push == Push("conversation_updated", NoId, Cleared)
<1>1. IsServer(server) /\ NoId \in Id /\ Cleared \in Said /\ "conversation_updated" \in Kind
  BY BoundsAssumption DEF SyncInv, Id, NoId, Said, Body, Kind
<1>2. push \in Told /\ push.kind = "conversation_updated"
      /\ Event(Change(server.changeSeq + 1, "conversation_updated", NoId, Cleared))
  BY <1>1, PushMade
<1>3. /\ server' = Recorded(server, "conversation_updated", NoId, Cleared)
      /\ Serves(p, push) /\ member' \in BOOLEAN /\ UNCHANGED clientVars
  BY DEF AddParticipant, clientVars
<1> HIDE DEF push
<1>4. Grows(server, server')
  BY <1>1, <1>2, <1>3, RecordedGrows
<1>5. Evident(push, server')
  BY <1>2 DEF Evident
<1> QED
  BY <1>2, <1>3, <1>4, <1>5, MutationKeeps

LEMMA PeerSyncsKeeps ==
    ASSUME SyncInv, PeerSyncs
    PROVE  SyncInv'
<1>1. PICK i \in Due(server) : server' = Released(server, {i})
  BY DEF PeerSyncs
<1>2. Grows(server, server')
  BY <1>1, ReleasedGrows DEF SyncInv
<1>3. UNCHANGED <<member, pending, clientVars>>
  BY DEF PeerSyncs
<1> QED
  BY <1>2, <1>3, QuietlyKeeps

LEMMA FanOutKeeps ==
    ASSUME SyncInv, NEW p \in Peers, FanOut(p)
    PROVE  SyncInv'
<1>1. /\ pending \in [Peers -> Seq(Told)] /\ pushes \in Seq(Told)
      /\ pending[p] \in Seq(Told) /\ <<>> \in Seq(Told) /\ Len(<<>>) = 0
      /\ AllEvident(pushes, server) /\ AllEvident(pending[p], server)
  BY DEF SyncInv, PeersInv, WireInv
<1>2. pushes \o pending[p] \in Seq(Told) /\ AllEvident(pushes \o pending[p], server)
  <2>1. PICK a \in Seq(Told), b \in Seq(Told) : a = pushes /\ b = pending[p]
    BY <1>1
  <2>2. /\ a \o b \in Seq(Told) /\ Len(a) \in Nat /\ Len(b) \in Nat
        /\ \A k \in 1 .. Len(a \o b) :
              (a \o b)[k] = IF k <= Len(a) THEN a[k] ELSE b[k - Len(a)]
        /\ Len(a \o b) = Len(a) + Len(b)
    OBVIOUS
  <2>3. AllEvident(a, server) /\ AllEvident(b, server)
    BY <1>1, <2>1
  <2>4. ASSUME NEW k \in 1 .. Len(a \o b) PROVE Evident((a \o b)[k], server)
    <3>1. CASE k <= Len(a)
      BY <2>2, <2>3, <3>1 DEF AllEvident
    <3>2. CASE ~ (k <= Len(a))
      <4>1. k - Len(a) \in 1 .. Len(b)
        BY <2>2, <3>2
      <4> QED
        BY <2>2, <2>3, <3>2, <4>1 DEF AllEvident
    <3> QED
      BY <3>1, <3>2
  <2> QED
    BY <2>1, <2>2, <2>4 DEF AllEvident
<1>3. /\ pushes' = (IF online /\ member THEN pushes \o pending[p] ELSE pushes)
      /\ pending' = [pending EXCEPT ![p] = <<>>]
      /\ UNCHANGED <<server, member, online, request, reply, store>>
  BY DEF FanOut
<1>4. pushes' \in Seq(Told) /\ AllEvident(pushes', server')
  BY <1>1, <1>2, <1>3
<1>5. pending' \in [Peers -> Seq(Told)] /\ \A x \in Peers : AllEvident(pending'[x], server')
  <2>1. AllEvident(<<>>, server)
    BY <1>1 DEF AllEvident
  <2> QED
    BY <1>1, <1>3, <2>1 DEF SyncInv, PeersInv
<1>6. PeersInv'
  BY <1>3, <1>5 DEF SyncInv, PeersInv
<1>7. WireInv'
  BY <1>3, <1>4 DEF SyncInv, WireInv
<1>8. StoreInv' /\ IsServer(server')
  BY <1>3 DEF SyncInv, StoreInv
<1> QED
  BY <1>6, <1>7, <1>8 DEF SyncInv
--------------------------------------------------------------------------------
(* The client keeps it *)

LEMMA DescribesTimely ==
    ASSUME NEW s, NEW d, Describes(d, s)
    PROVE  d \in Answered /\ Timely(d, s)
  BY DEF Describes, Timely

LEMMA AnswerIs ==
    ASSUME NEW s, IsServer(s), NEW r \in Request
    PROVE  Answer(s, r) \subseteq Answered /\ \A d \in Answer(s, r) : Timely(d, s)
<1> DEFINE full  == Descriptor(s, Visible(s), <<>>)
           since == Descriptor(s, MessagesAfter(s, r.cursor), ChangesAfter(s, r.version))
           page  == DescriptorPage(s, r.cursor)
<1>1. /\ r.kind \in Asked /\ r.cursor \in Id /\ r.version \in Nat
      /\ (r.kind = "page" => PageSize # 0)
  BY DEF Request
<1>2. full \in Answered /\ Timely(full, s)
  BY FullDescriptorIs, DescribesTimely
<1>3. since \in Answered /\ Timely(since, s)
  BY <1>1, SinceDescriptorIs, DescribesTimely
<1>4. r.kind = "page" => page \in Answered /\ Timely(page, s)
  BY <1>1, PageDescriptorIs, DescribesTimely
<1>5. \A d \in DescriptorSince(s, r.cursor, r.version) : d = full \/ d = since
  BY DEF DescriptorSince
<1>6. \A d \in Answer(s, r) :
          d = full \/ d = since \/ (r.kind = "page" /\ d = page)
  BY <1>1, <1>5 DEF Answer, Asked
<1> HIDE DEF full, since, page
<1> QED
  BY <1>2, <1>3, <1>4, <1>6

\* A request is made of the copy as it is.
LEMMA AskKeeps ==
    ASSUME SyncInv, NEW kind \in Asked, NEW cursor \in Id, kind = "page" => PageSize # 0,
           Ask(kind, cursor), Idle, online' \in BOOLEAN,
           UNCHANGED <<server, member, pending, pushes, reply, store>>
    PROVE  SyncInv'
<1>1. request' = {[kind |-> kind, cursor |-> cursor, version |-> store.version]}
      /\ reply = {} /\ store.version \in Nat
  BY CopyIs DEF Ask, Idle, SyncInv, StoreInv
<1>2. request' \subseteq Request /\ AtMostOne(request')
  BY <1>1 DEF Request, AtMostOne
<1>3. WireInv'
  BY <1>1, <1>2 DEF SyncInv, WireInv
<1>4. PeersInv' /\ StoreInv' /\ IsServer(server')
  BY DEF SyncInv, PeersInv, StoreInv
<1> QED
  BY <1>3, <1>4 DEF SyncInv

LEMMA AsksKeep ==
    ASSUME SyncInv, Login \/ AskFull \/ AskPage
    PROVE  SyncInv'
<1>1. /\ store.cursor \in Id /\ store.before \in Id /\ NoId \in Id /\ online \in BOOLEAN
      /\ {"full", "since", "page"} \subseteq Asked /\ PageSize \in Nat
  BY CopyIs, BoundsAssumption DEF SyncInv, StoreInv, PeersInv, Id, NoId, Asked
<1>2. CASE Login
  <2> DEFINE kind == IF store.known THEN "since" ELSE "full"
  <2>1. kind \in Asked /\ kind # "page"
    BY <1>1
  <2>2. Ask(kind, store.cursor) /\ Idle /\ online' \in BOOLEAN
        /\ UNCHANGED <<server, member, pending, pushes, reply, store>>
    BY <1>2 DEF Login
  <2> HIDE DEF kind
  <2> QED
    BY <1>1, <2>1, <2>2, AskKeeps
<1>3. CASE AskFull
  <2>1. Ask("full", NoId) /\ Idle /\ online' \in BOOLEAN
        /\ UNCHANGED <<server, member, pending, pushes, reply, store>>
    BY <1>1, <1>3 DEF AskFull
  <2> QED
    BY <1>1, <2>1, AskKeeps
<1>4. CASE AskPage
  <2>1. Ask("page", store.before) /\ Idle /\ online' \in BOOLEAN /\ PageSize # 0
        /\ UNCHANGED <<server, member, pending, pushes, reply, store>>
    BY <1>1, <1>4 DEF AskPage
  <2> QED
    BY <1>1, <2>1, AskKeeps
<1> QED
  BY <1>2, <1>3, <1>4

LEMMA ServeSyncKeeps ==
    ASSUME SyncInv, NEW due \in SUBSET Due(server), ServeSync(due)
    PROVE  SyncInv'
<1> DEFINE ahead == IF Overtaking THEN 0 ELSE Len(pushes)
           Answering(r) == [kind |-> r.kind, descriptors |-> Answer(server', r),
                            ahead |-> ahead]
<1>1. /\ server' = Released(server, due)
      /\ reply' = {Answering(r) : r \in request} /\ request' = {}
      /\ UNCHANGED <<member, pending, online, pushes, store>>
  BY DEF ServeSync
<1>2. Grows(server, server') /\ IsServer(server')
  BY <1>1, ReleasedGrows DEF SyncInv, Grows
<1>3. ahead \in Nat
  BY DEF SyncInv, WireInv
<1> HIDE DEF ahead
<1>4. ASSUME NEW r \in request
      PROVE  Answering(r) \in Reply /\ \A d \in Answering(r).descriptors : Timely(d, server')
  <2>1. r \in Request
    BY DEF SyncInv, WireInv
  <2>2. Answer(server', r) \subseteq Answered
        /\ \A d \in Answer(server', r) : Timely(d, server')
    BY <1>2, <2>1, AnswerIs
  <2> QED
    BY <1>3, <2>1, <2>2 DEF Reply, Request
<1>5. AtMostOne(request) /\ AllEvident(pushes, server') /\ pushes \in Seq(Told)
  BY <1>2, EvidentGrows DEF SyncInv, WireInv
<1> HIDE DEF Answering
<1>6. WireInv'
  <2>1. reply' \subseteq Reply
    BY <1>1, <1>4
  <2>2. \A r \in reply' : \A d \in r.descriptors : Timely(d, server')
    BY <1>1, <1>4
  <2>3. AtMostOne(reply') /\ AtMostOne(request') /\ request' \subseteq Request
    BY <1>1, <1>5 DEF AtMostOne
  <2> QED
    BY <1>1, <1>5, <2>1, <2>2, <2>3 DEF WireInv
<1>7. PeersInv'
  <2>1. \A p \in Peers : AllEvident(pending[p], server')
    BY <1>2, EvidentGrows DEF SyncInv, PeersInv
  <2> QED
    BY <1>1, <2>1 DEF SyncInv, PeersInv
<1>8. StoreInv'
  <2>1. server.changeSeq \in Nat /\ server'.changeSeq \in Nat /\ store.version \in Nat
    BY <1>2, ServerIs, CopyIs DEF SyncInv, StoreInv
  <2>2. store.version <= server'.changeSeq
    BY <1>2, <2>1 DEF SyncInv, StoreInv, Grows
  <2> QED
    BY <1>1, <1>2, <2>2 DEF SyncInv, StoreInv, Grows
<1> QED
  BY <1>2, <1>6, <1>7, <1>8 DEF SyncInv

LEMMA ApplyReplyKeeps ==
    ASSUME SyncInv, ApplyReply
    PROVE  SyncInv'
<1>1. PICK r \in reply : store' = AnswerApplied(store, r.kind, r.descriptors)
  BY DEF ApplyReply
<1>2. reply' = {} /\ UNCHANGED <<server, member, pending, online, pushes, request>>
  BY DEF ApplyReply
<1>3. /\ r.kind \in Asked /\ r.descriptors \in SUBSET Answered
      /\ \A d \in r.descriptors : Timely(d, server)
      /\ server.changeSeq \in Nat
  BY ServerIs DEF SyncInv, WireInv, Reply
<1>4. /\ store \in Copy /\ CursorHeld(store) /\ store.version <= server.changeSeq
      /\ \A m \in ToSet(store.held) : Shows(server, m.id)
  BY DEF SyncInv, StoreInv
<1>5. PICK kind \in Asked, ds \in SUBSET Answered, v \in Nat :
          kind = r.kind /\ ds = r.descriptors /\ v = server.changeSeq
  BY <1>3
<1>6. \A d \in ds : WithinVersion(d, v)
  BY <1>3, <1>5 DEF Timely
<1>7. LET after == AnswerApplied(store, kind, ds) IN
      /\ after \in Copy /\ CursorHeld(after) /\ after.version <= v
      /\ \A m \in ToSet(after.held) :
            Holds(store, m.id) \/ \E d \in ds : Lists(d, m.id)
  BY <1>4, <1>5, <1>6, AnswerAppliedIs
<1>8. /\ store' \in Copy /\ CursorHeld(store') /\ store'.version <= server.changeSeq
      /\ \A m \in ToSet(store'.held) :
            Holds(store, m.id) \/ \E d \in r.descriptors : Lists(d, m.id)
  BY <1>1, <1>5, <1>7
<1>9. \A id : Holds(store, id) => Shows(server, id)
  BY <1>4 DEF Holds
<1>10. \A d \in r.descriptors : \A id : Lists(d, id) => Shows(server, id)
  BY <1>3 DEF Lists, Timely
<1>11. StoreInv'
  BY <1>2, <1>8, <1>9, <1>10 DEF StoreInv
<1>12. WireInv'
  BY <1>2 DEF SyncInv, WireInv, AtMostOne
<1> QED
  BY <1>2, <1>11, <1>12 DEF SyncInv, PeersInv

\* The first push goes, and what waits for fewer pushes is otherwise as it was.
LEMMA ApplyPushKeeps ==
    ASSUME SyncInv, ApplyPush
    PROVE  SyncInv'
<1> DEFINE p == Head(pushes)
           Sooner(r) == [r EXCEPT !.ahead = IF Overtaking THEN 0 ELSE r.ahead - 1]
<1>1. /\ pushes # <<>> /\ (Overtaking \/ \A r \in reply : r.ahead > 0)
      /\ store' = PushApplied(store, p) /\ pushes' = Tail(pushes)
      /\ reply' = {Sooner(r) : r \in reply}
      /\ UNCHANGED <<server, member, pending, online, request>>
  BY DEF ApplyPush
<1>2. pushes \in Seq(Told) /\ AllEvident(pushes, server)
  BY DEF SyncInv, WireInv
<1>3. /\ p \in Told /\ Evident(p, server)
      /\ Tail(pushes) \in Seq(Told) /\ AllEvident(Tail(pushes), server)
  <2>1. Len(pushes) \in Nat /\ Len(pushes) > 0 /\ p = pushes[1] /\ 1 \in 1 .. Len(pushes)
    BY <1>1, <1>2
  <2>2. /\ Tail(pushes) \in Seq(Told) /\ Len(Tail(pushes)) = Len(pushes) - 1
        /\ \A k \in 1 .. Len(pushes) - 1 : Tail(pushes)[k] = pushes[k + 1]
    BY <1>1, <1>2
  <2>3. \A k \in 1 .. Len(pushes) - 1 : k + 1 \in 1 .. Len(pushes)
    BY <2>1
  <2> QED
    BY <1>2, <2>1, <2>2, <2>3 DEF AllEvident
<1> HIDE DEF p
<1>4. StoreInv'
  <2> DEFINE after == PushApplied(store, p)
  <2>1. /\ store \in Copy /\ CursorHeld(store) /\ store.version <= server.changeSeq
        /\ \A m \in ToSet(store.held) : Shows(server, m.id)
    BY DEF SyncInv, StoreInv
  <2>2. /\ after \in Copy /\ after.version = store.version /\ CursorHeld(after)
        /\ \A m \in ToSet(after.held) :
              Brings(p, m.id) \/ \E was \in ToSet(store.held) : was.id = m.id
    BY <1>3, <2>1, PushAppliedIs
  <2> HIDE DEF after
  <2>3. \A m \in ToSet(after.held) : Shows(server, m.id)
    BY <1>3, <2>1, <2>2 DEF Brings, Evident
  <2>4. store' = after /\ server' = server
    BY <1>1 DEF after
  <2> QED
    BY <2>1, <2>2, <2>3, <2>4 DEF StoreInv
<1>5. ASSUME NEW r \in reply
      PROVE  Sooner(r) \in Reply /\ Sooner(r).descriptors = r.descriptors
  <2>1. r \in Reply
    BY DEF SyncInv, WireInv
  <2>2. (IF Overtaking THEN 0 ELSE r.ahead - 1) \in Nat
    BY <1>1, <2>1 DEF Reply
  <2> QED
    BY <2>1, <2>2 DEF Reply
<1> HIDE DEF Sooner
<1>6. WireInv'
  <2>1. reply' \subseteq Reply
    BY <1>1, <1>5
  <2>2. \A r \in reply : \A d \in r.descriptors : Timely(d, server)
    BY DEF SyncInv, WireInv
  <2>3. \A r \in reply' : \A d \in r.descriptors : Timely(d, server')
    BY <1>1, <1>5, <2>2
  <2>4. AtMostOne(reply) /\ AtMostOne(request) /\ request \subseteq Request
        /\ (request = {} \/ reply = {})
    BY DEF SyncInv, WireInv
  <2>5. AtMostOne(reply') /\ (request' = {} \/ reply' = {})
    BY <1>1, <2>4 DEF AtMostOne
  <2> QED
    BY <1>1, <1>3, <2>1, <2>3, <2>4, <2>5 DEF WireInv
<1> QED
  BY <1>1, <1>4, <1>6 DEF SyncInv, PeersInv

LEMMA DisconnectKeeps ==
    ASSUME SyncInv, Disconnect
    PROVE  SyncInv'
<1>1. PICK n \in 0 .. Len(pushes) :
          pushes' = SubSeq(pushes, 1, n) /\ reply' = {r \in reply : r.ahead <= n}
  BY DEF Disconnect
<1>2. online' = FALSE /\ request' = {} /\ UNCHANGED <<server, member, pending, store>>
  BY DEF Disconnect
<1>3. pushes \in Seq(Told) /\ AllEvident(pushes, server)
  BY DEF SyncInv, WireInv
<1>4. /\ pushes' \in Seq(Told) /\ Len(pushes') = n
      /\ \A k \in 1 .. n : pushes'[k] = pushes[k] /\ k \in 1 .. Len(pushes)
  BY <1>1, <1>3
<1>5. AllEvident(pushes', server')
  BY <1>2, <1>3, <1>4 DEF AllEvident
<1>6. WireInv'
  <2>1. reply' \subseteq reply
    BY <1>1
  <2> QED
    BY <1>2, <1>4, <1>5, <2>1 DEF SyncInv, WireInv, AtMostOne
<1> QED
  BY <1>2, <1>6 DEF SyncInv, PeersInv, StoreInv

--------------------------------------------------------------------------------
(* What is still to come, with one session that mutates and nothing that disturbs *)

\* The fields of a message, and the read marker, whichever id it is asked with.
Place == Field \cup {"marker"}

Now(s, f, id)     == IF f = "marker" THEN s.marker ELSE Of(s.messages[id], f)
Here(s, f, id)    == f = "marker" \/ id \in 1 .. Len(s.messages)
Touches(e, f, id) == IF f = "marker" THEN IsMarker(e) ELSE Concerns(e, f, id) \/ Brings(e, id)
Tells(e, f)       == IF f = "marker" THEN e.id ELSE Says(e, f)

\* What a list of messages and a marker say of the place.
Values(messages, marker, f, id) ==
    IF f = "marker" THEN {marker} ELSE {Of(m, f) : m \in {n \in ToSet(messages) : n.id = id}}

\* Past that point of the events, one says what is at the place.
Later(q, a, f, id) == \E j \in 1 .. Len(q) : j > a /\ Touches(q[j], f, id)

\* The value is the present one, or is going to be overwritten.
Fits(s, x, q, a, f, id) == Here(s, f, id) /\ (x = Now(s, f, id) \/ Later(q, a, f, id))

\* Every event is of the present, or one of a later time follows.
Current(s, q) ==
    \A k \in 1 .. Len(q) : \A f \in Place, id \in Id :
        Touches(q[k], f, id) => Fits(s, Tells(q[k], f), q, k, f, id)

\* The copy is as the server, but for what the events bring.
Settled(s, st, q) ==
    /\ \A id \in 1 .. Len(s.messages) : Holds(st, id) \/ \E k \in 1 .. Len(q) : Brings(q[k], id)
    /\ \A f \in Place, id \in Id : \A x \in Values(st.held, st.marker, f, id) :
          Fits(s, x, q, 0, f, id)

\* The log says it, or no longer reaches back to the version.
Logs(s, v, f, id) ==
    /\ f = "marker" => s.marker # NoId
    /\ \/ LogTooShort(s, v)
       \/ \E k \in 1 .. Len(s.changes) :
             s.changes[k].version > v /\ Touches(s.changes[k], f, id)

\* An answer from the cursor and the version makes the copy so.
Cold(s, st, cursor, v, q) ==
    /\ cursor <= Len(s.messages) /\ v <= s.changeSeq
    /\ \A id \in 1 .. Len(s.messages) : id <= cursor => Holds(st, id)
    /\ \A f \in Place, id \in Id : \A x \in Values(st.held, st.marker, f, id) :
          Here(s, f, id) /\ (Fits(s, x, q, 0, f, id) \/ Logs(s, v, f, id))

\* What an answer lists is of the present, or is going to be overwritten.
Lasts(s, d, q, a) ==
    \A f \in Place, id \in Id : \A x \in Values(d.messages, d.marker, f, id) :
        Fits(s, x, q, a, f, id)

FullFits(s, d, q, a) ==
    /\ Lasts(s, d, q, a)
    /\ \A id \in 1 .. Len(s.messages) :
          Lists(d, id) \/ \E k \in 1 .. Len(q) : k > a /\ Brings(q[k], id)

Covers(d, f, id) == IF f = "marker" THEN d.marker # NoId ELSE Lists(d, id)

SinceFits(s, st, d, q, a) ==
    /\ Lasts(s, d, q, a)
    /\ \A id \in 1 .. Len(s.messages) :
          Lists(d, id) \/ Holds(st, id) \/ \E k \in 1 .. Len(q) : Brings(q[k], id)
    /\ \A f \in Place, id \in Id : \A x \in Values(st.held, st.marker, f, id) :
          \/ Covers(d, f, id)
          \/ Fits(s, x, q, 0, f, id)
          \/ Here(s, f, id) /\ Later(d.changes, 0, f, id)
    /\ \A k \in 1 .. Len(d.changes) :
          /\ d.changes[k].kind # "message_deliver"
          /\ \A f \in Place, id \in Id :
                Touches(d.changes[k], f, id) =>
                    \/ Fits(s, Tells(d.changes[k], f), q, a, f, id)
                    \/ Here(s, f, id) /\ Later(d.changes, k, f, id)

AnswerFits(s, st, kind, ds, q, a) ==
    CASE kind = "full"  -> \E d \in ds : ds = {d} /\ FullFits(s, d, q, a)
      [] kind = "page"  -> Settled(s, st, q) /\ \E d \in ds : ds = {d} /\ Lasts(s, d, q, a)
      [] kind = "since" -> \/ ds = {} /\ Settled(s, st, q)
                           \/ \E d \in ds : ds = {d} /\ SinceFits(s, st, d, q, a)

Coming(p) == pushes \o pending[p]

Unscheduled(s) == \A id \in 1 .. Len(s.messages) : ~ s.messages[id].scheduled
Undelivering(s) == \A k \in 1 .. Len(s.changes) : s.changes[k].kind # "message_deliver"

ServerCalm(p) ==
    /\ member /\ Unscheduled(server) /\ Undelivering(server)
    /\ Current(server, server.changes) /\ Current(server, Coming(p))

ClientCalm(p) ==
    /\ ~ online => /\ pushes = <<>> /\ Idle
                   /\ store.known => Cold(server, store, store.cursor, store.version, <<>>)
    /\ online /\ Idle => Settled(server, store, Coming(p))
    /\ \A r \in request :
          /\ r.kind = "page" => Settled(server, store, Coming(p))
          /\ r.kind = "since" => Cold(server, store, r.cursor, r.version, Coming(p))
    /\ \A r \in reply :
          /\ r.ahead <= Len(pushes)
          /\ AnswerFits(server, store, r.kind, r.descriptors, Coming(p), r.ahead)

Calm(p) == setting = {} => ServerCalm(p) /\ ClientCalm(p)

\* A state in which a step of the one peer, or of the client, is taken.
Alone(p) == Peers = {p} /\ setting = {} /\ SyncInv /\ ServerCalm(p) /\ ClientCalm(p)

--------------------------------------------------------------------------------
(* What follows in a list of events *)

LEMMA PlaceIs ==
    ASSUME NEW f \in Place
    PROVE  \/ f = "marker" /\ f \notin Field
           \/ f # "marker" /\ f \in Field
  BY DEF Place, Field

\* Two events that say the same.
Alike(c, e) == c.kind = e.kind /\ c.id = e.id /\ c.text = e.text

LEMMA AlikeIs ==
    ASSUME NEW c, NEW e, Alike(c, e)
    PROVE  \A f, id : (Touches(c, f, id) <=> Touches(e, f, id)) /\ Tells(c, f) = Tells(e, f)
  BY DEF Alike, Touches, Tells, IsMarker, Concerns, Brings, Says

LEMMA LaterOn ==
    ASSUME NEW V, NEW q \in Seq(V), NEW e \in V, NEW a, NEW f, NEW id, Later(q, a, f, id)
    PROVE  Later(Append(q, e), a, f, id)
<1>1. PICK j \in 1 .. Len(q) : j > a /\ Touches(q[j], f, id)
  BY DEF Later
<1>2. /\ j \in 1 .. Len(Append(q, e)) /\ Append(q, e)[j] = q[j]
  OBVIOUS
<1> QED
  BY <1>1, <1>2 DEF Later

LEMMA LaterLast ==
    ASSUME NEW V, NEW q \in Seq(V), NEW e \in V, NEW a \in Nat, a <= Len(q),
           NEW f, NEW id, Touches(e, f, id)
    PROVE  Later(Append(q, e), a, f, id)
<1> DEFINE n == Len(q) + 1
<1>1. n \in 1 .. Len(Append(q, e)) /\ Append(q, e)[n] = e /\ n > a
  OBVIOUS
<1> QED
  BY <1>1 DEF Later

\* The first event is gone, and the places of the others are one less.
LEMMA TailIs ==
    ASSUME NEW V, NEW q \in Seq(V), q # <<>>
    PROVE  /\ Tail(q) \in Seq(V) /\ Head(q) = q[1] /\ Head(q) \in V
           /\ Len(q) \in Nat /\ Len(q) >= 1 /\ Len(Tail(q)) = Len(q) - 1
           /\ \A k \in 1 .. Len(Tail(q)) : k + 1 \in 1 .. Len(q) /\ Tail(q)[k] = q[k + 1]
           /\ \A k \in 2 .. Len(q) : k - 1 \in 1 .. Len(Tail(q)) /\ Tail(q)[k - 1] = q[k]
<1>1. Tail(q) \in Seq(V) /\ Len(Tail(q)) = Len(q) - 1 /\ Head(q) = q[1] /\ Len(q) \in Nat
  OBVIOUS
<1>2. Len(q) >= 1 /\ 1 \in 1 .. Len(q)
  BY <1>1
<1>3. \A k \in 1 .. Len(q) - 1 : Tail(q)[k] = q[k + 1]
  OBVIOUS
<1>4. \A k \in 2 .. Len(q) : k - 1 \in 1 .. Len(q) - 1 /\ (k - 1) + 1 = k
  BY <1>1
<1>5. \A k \in 1 .. Len(q) - 1 : k + 1 \in 1 .. Len(q)
  BY <1>1
<1>6. Head(q) \in V
  BY <1>1, <1>2
<1> QED
  BY <1>1, <1>2, <1>3, <1>4, <1>5, <1>6

LEMMA LaterTail ==
    ASSUME NEW V, NEW q \in Seq(V), q # <<>>, NEW a \in Nat, a >= 1, NEW f, NEW id,
           Later(q, a, f, id)
    PROVE  Later(Tail(q), a - 1, f, id)
<1>1. PICK j \in 1 .. Len(q) : j > a /\ Touches(q[j], f, id)
  BY DEF Later
<1>2. j \in 2 .. Len(q) /\ j - 1 > a - 1
  BY <1>1, TailIs
<1>3. j - 1 \in 1 .. Len(Tail(q)) /\ Tail(q)[j - 1] = q[j]
  BY <1>2, TailIs
<1> QED
  BY <1>1, <1>2, <1>3 DEF Later

LEMMA LaterHead ==
    ASSUME NEW V, NEW q \in Seq(V), q # <<>>, NEW f, NEW id,
           Later(q, 0, f, id), ~ Touches(Head(q), f, id)
    PROVE  Later(Tail(q), 0, f, id)
<1>1. PICK j \in 1 .. Len(q) : Touches(q[j], f, id)
  BY DEF Later
<1>2. j # 1 /\ Len(q) \in Nat
  BY <1>1, TailIs
<1>3. j \in 2 .. Len(q) /\ j - 1 > 0
  BY <1>2
<1>4. j - 1 \in 1 .. Len(Tail(q)) /\ Tail(q)[j - 1] = q[j]
  BY <1>3, TailIs
<1> QED
  BY <1>1, <1>3, <1>4 DEF Later

LEMMA FitsTail ==
    ASSUME NEW V, NEW q \in Seq(V), q # <<>>, NEW a \in Nat, a >= 1, NEW f, NEW id, NEW s, NEW x,
           Fits(s, x, q, a, f, id)
    PROVE  Fits(s, x, Tail(q), a - 1, f, id)
  BY LaterTail DEF Fits

LEMMA CurrentTail ==
    ASSUME NEW V, NEW q \in Seq(V), q # <<>>, NEW s, Current(s, q)
    PROVE  Current(s, Tail(q))
<1> SUFFICES ASSUME NEW k \in 1 .. Len(Tail(q)), NEW f \in Place, NEW id \in Id,
                    Touches(Tail(q)[k], f, id)
             PROVE  Fits(s, Tells(Tail(q)[k], f), Tail(q), k, f, id)
  BY DEF Current
<1>1. k + 1 \in 1 .. Len(q) /\ Tail(q)[k] = q[k + 1] /\ k + 1 \in Nat /\ k + 1 >= 1
      /\ (k + 1) - 1 = k
  BY TailIs
<1>2. PICK n \in Nat : n = k + 1
  BY <1>1
<1>3. n \in 1 .. Len(q) /\ n >= 1 /\ n - 1 = k /\ Tail(q)[k] = q[n]
  BY <1>1, <1>2
<1>4. Fits(s, Tells(q[n], f), q, n, f, id)
  BY <1>3 DEF Current
<1>5. Fits(s, Tells(q[n], f), Tail(q), n - 1, f, id)
  BY <1>3, <1>4, FitsTail
<1> QED
  BY <1>3, <1>5

\* Only the last events of a list are kept.
LEMMA CurrentSuffix ==
    ASSUME NEW V, NEW q \in Seq(V), NEW n \in 0 .. Len(q), NEW s, Current(s, q),
           NEW r \in Seq(V), Len(r) = Len(q) - n, \A k \in 1 .. Len(r) : r[k] = q[n + k]
    PROVE  Current(s, r)
<1> SUFFICES ASSUME NEW k \in 1 .. Len(r), NEW f \in Place, NEW id \in Id, Touches(r[k], f, id)
             PROVE  Fits(s, Tells(r[k], f), r, k, f, id)
  BY DEF Current
<1>1. n + k \in 1 .. Len(q) /\ r[k] = q[n + k] /\ Len(q) \in Nat /\ Len(r) \in Nat
  OBVIOUS
<1>2. Fits(s, Tells(r[k], f), q, n + k, f, id)
  BY <1>1 DEF Current
<1>3. ASSUME Later(q, n + k, f, id) PROVE Later(r, k, f, id)
  <2>1. PICK j \in 1 .. Len(q) : j > n + k /\ Touches(q[j], f, id)
    BY <1>3 DEF Later
  <2>2. j - n \in 1 .. Len(r) /\ j - n > k /\ n + (j - n) = j
    BY <1>1, <2>1
  <2>3. r[j - n] = q[j]
    BY <2>2
  <2> QED
    BY <2>1, <2>2, <2>3 DEF Later
<1> QED
  BY <1>2, <1>3 DEF Fits
--------------------------------------------------------------------------------
(* What a mutation leaves to come *)

\* The server goes from s to t, and the event tells whatever is new.
Turns(s, t, e) ==
    /\ Len(s.messages) <= Len(t.messages)
    /\ \A id \in 1 .. Len(t.messages) : id \in 1 .. Len(s.messages) \/ Brings(e, id)
    /\ \A f \in Place, id \in Id :
          Here(s, f, id) => Now(t, f, id) = Now(s, f, id) \/ Touches(e, f, id)
    /\ \A f \in Place, id \in Id :
          Touches(e, f, id) => Here(t, f, id) /\ Tells(e, f) = Now(t, f, id)
    /\ s.marker # NoId \/ IsMarker(e) => t.marker # NoId

\* The log goes along, unless nothing that was there has changed.
Logging(s, t, e) ==
    \/ /\ t.changes = s.changes /\ t.changeSeq = s.changeSeq
       /\ \A f \in Place, id \in Id : Here(s, f, id) => Now(t, f, id) = Now(s, f, id)
    \/ /\ e.kind # "message_deliver"
       /\ \E c \in Logged :
             /\ Alike(c, e) /\ c.version = s.changeSeq + 1
             /\ t.changes = Trimmed(Append(s.changes, c)) /\ t.changeSeq = s.changeSeq + 1

LEMMA HereOn ==
    ASSUME NEW s, IsServer(s), NEW t, IsServer(t), NEW e, Turns(s, t, e), NEW f, NEW id,
           Here(s, f, id)
    PROVE  Here(t, f, id)
<1>1. Len(s.messages) \in Nat /\ Len(t.messages) \in Nat /\ Len(s.messages) <= Len(t.messages)
  BY ServerIs DEF Turns
<1> QED
  BY <1>1 DEF Here

LEMMA FitsOn ==
    ASSUME NEW s, IsServer(s), NEW t, IsServer(t), NEW e, Turns(s, t, e),
           NEW V, NEW q \in Seq(V), NEW c \in V, Alike(c, e), NEW a \in Nat, a <= Len(q),
           NEW f \in Place, NEW id \in Id, NEW x, Fits(s, x, q, a, f, id)
    PROVE  Fits(t, x, Append(q, c), a, f, id)
<1>1. Here(s, f, id) /\ Here(t, f, id)
  BY HereOn DEF Fits
<1>2. CASE Touches(e, f, id)
  <2>1. Touches(c, f, id)
    BY <1>2, AlikeIs
  <2> QED
    BY <1>1, <2>1, LaterLast DEF Fits
<1>3. CASE ~ Touches(e, f, id)
  <2>1. Now(t, f, id) = Now(s, f, id)
    BY <1>1, <1>3 DEF Turns
  <2>2. Later(q, a, f, id) => Later(Append(q, c), a, f, id)
    BY LaterOn
  <2> QED
    BY <1>1, <2>1, <2>2 DEF Fits
<1> QED
  BY <1>2, <1>3

LEMMA CurrentOn ==
    ASSUME NEW s, IsServer(s), NEW t, IsServer(t), NEW e, Turns(s, t, e),
           NEW V, NEW q \in Seq(V), NEW c \in V, Alike(c, e), Current(s, q)
    PROVE  Current(t, Append(q, c))
<1> SUFFICES ASSUME NEW k \in 1 .. Len(Append(q, c)), NEW f \in Place, NEW id \in Id,
                    Touches(Append(q, c)[k], f, id)
             PROVE  Fits(t, Tells(Append(q, c)[k], f), Append(q, c), k, f, id)
  BY DEF Current
<1>1. CASE k \in 1 .. Len(q)
  <2>1. Append(q, c)[k] = q[k] /\ k \in Nat /\ k <= Len(q)
    BY <1>1
  <2>2. Fits(s, Tells(q[k], f), q, k, f, id)
    BY <1>1, <2>1 DEF Current
  <2>3. Fits(t, Tells(q[k], f), Append(q, c), k, f, id)
    BY <2>1, <2>2, FitsOn
  <2> QED
    BY <2>1, <2>3
<1>2. CASE k \notin 1 .. Len(q)
  <2>1. Append(q, c)[k] = c
    BY <1>2
  <2>2. Touches(e, f, id) /\ Tells(c, f) = Tells(e, f)
    BY <2>1, AlikeIs
  <2>3. Here(t, f, id) /\ Tells(e, f) = Now(t, f, id)
    BY <2>2 DEF Turns
  <2> QED
    BY <2>1, <2>2, <2>3 DEF Fits
<1> QED
  BY <1>1, <1>2

\* What was brought is still brought.
LEMMA BroughtOn ==
    ASSUME NEW V, NEW q \in Seq(V), NEW c \in V, NEW a \in Nat, a <= Len(q), NEW id,
           Brings(c, id) \/ \E k \in 1 .. Len(q) : k > a /\ Brings(q[k], id)
    PROVE  \E k \in 1 .. Len(Append(q, c)) : k > a /\ Brings(Append(q, c)[k], id)
<1>1. \A k \in 1 .. Len(q) : k \in 1 .. Len(Append(q, c)) /\ Append(q, c)[k] = q[k]
  OBVIOUS
<1>2. /\ Len(q) + 1 \in 1 .. Len(Append(q, c)) /\ Append(q, c)[Len(q) + 1] = c
      /\ Len(q) + 1 > a
  OBVIOUS
<1> QED
  BY <1>1, <1>2

LEMMA SettledOn ==
    ASSUME NEW s, IsServer(s), NEW t, IsServer(t), NEW e, Turns(s, t, e),
           NEW V, NEW q \in Seq(V), NEW c \in V, Alike(c, e), NEW st, Settled(s, st, q)
    PROVE  Settled(t, st, Append(q, c))
<1>0. 0 \in Nat /\ 0 <= Len(q) /\ \A k \in 1 .. Len(q) : k > 0
  OBVIOUS
<1>1. ASSUME NEW id \in 1 .. Len(t.messages), ~ Holds(st, id)
      PROVE  \E k \in 1 .. Len(Append(q, c)) : Brings(Append(q, c)[k], id)
  <2>1. id \in 1 .. Len(s.messages) \/ Brings(e, id)
    BY DEF Turns
  <2>2. Brings(c, id) \/ \E k \in 1 .. Len(q) : k > 0 /\ Brings(q[k], id)
    BY <1>0, <1>1, <2>1 DEF Settled, Brings, Alike
  <2> QED
    BY <1>0, <2>2, BroughtOn
<1>2. ASSUME NEW f \in Place, NEW id \in Id, NEW x \in Values(st.held, st.marker, f, id)
      PROVE  Fits(t, x, Append(q, c), 0, f, id)
  <2>1. Fits(s, x, q, 0, f, id)
    BY DEF Settled
  <2> QED
    BY <1>0, <2>1, FitsOn
<1> QED
  BY <1>1, <1>2 DEF Settled

LEMMA LastsOn ==
    ASSUME NEW s, IsServer(s), NEW t, IsServer(t), NEW e, Turns(s, t, e),
           NEW V, NEW q \in Seq(V), NEW c \in V, Alike(c, e), NEW a \in Nat, a <= Len(q),
           NEW d, Lasts(s, d, q, a)
    PROVE  Lasts(t, d, Append(q, c), a)
<1> SUFFICES ASSUME NEW f \in Place, NEW id \in Id,
                    NEW x \in Values(d.messages, d.marker, f, id)
             PROVE  Fits(t, x, Append(q, c), a, f, id)
  BY DEF Lasts
<1>1. Fits(s, x, q, a, f, id)
  BY DEF Lasts
<1> QED
  BY <1>1, FitsOn

LEMMA FullFitsOn ==
    ASSUME NEW s, IsServer(s), NEW t, IsServer(t), NEW e, Turns(s, t, e),
           NEW V, NEW q \in Seq(V), NEW c \in V, Alike(c, e), NEW a \in Nat, a <= Len(q),
           NEW d, FullFits(s, d, q, a)
    PROVE  FullFits(t, d, Append(q, c), a)
<1>1. Lasts(t, d, Append(q, c), a)
  BY LastsOn DEF FullFits
<1>2. ASSUME NEW id \in 1 .. Len(t.messages), ~ Lists(d, id)
      PROVE  \E k \in 1 .. Len(Append(q, c)) : k > a /\ Brings(Append(q, c)[k], id)
  <2>1. id \in 1 .. Len(s.messages) \/ Brings(e, id)
    BY DEF Turns
  <2>2. Brings(c, id) \/ \E k \in 1 .. Len(q) : k > a /\ Brings(q[k], id)
    BY <1>2, <2>1 DEF FullFits, Brings, Alike
  <2> QED
    BY <2>2, BroughtOn
<1> QED
  BY <1>1, <1>2 DEF FullFits

LEMMA SinceFitsOn ==
    ASSUME NEW s, IsServer(s), NEW t, IsServer(t), NEW e, Turns(s, t, e),
           NEW V, NEW q \in Seq(V), NEW c \in V, Alike(c, e), NEW a \in Nat, a <= Len(q),
           NEW st, NEW d, SinceFits(s, st, d, q, a)
    PROVE  SinceFits(t, st, d, Append(q, c), a)
<1>0. 0 \in Nat /\ 0 <= Len(q) /\ \A k \in 1 .. Len(q) : k > 0
  OBVIOUS
<1>1. Lasts(t, d, Append(q, c), a)
  BY LastsOn DEF SinceFits
<1>2. ASSUME NEW id \in 1 .. Len(t.messages), ~ Lists(d, id), ~ Holds(st, id)
      PROVE  \E k \in 1 .. Len(Append(q, c)) : Brings(Append(q, c)[k], id)
  <2>1. id \in 1 .. Len(s.messages) \/ Brings(e, id)
    BY DEF Turns
  <2>2. Brings(c, id) \/ \E k \in 1 .. Len(q) : k > 0 /\ Brings(q[k], id)
    BY <1>0, <1>2, <2>1 DEF SinceFits, Brings, Alike
  <2> QED
    BY <1>0, <2>2, BroughtOn
<1>3. ASSUME NEW f \in Place, NEW id \in Id, NEW x \in Values(st.held, st.marker, f, id)
      PROVE  \/ Covers(d, f, id)
             \/ Fits(t, x, Append(q, c), 0, f, id)
             \/ Here(t, f, id) /\ Later(d.changes, 0, f, id)
  <2>1. \/ Covers(d, f, id)
        \/ Fits(s, x, q, 0, f, id)
        \/ Here(s, f, id) /\ Later(d.changes, 0, f, id)
    BY DEF SinceFits
  <2>2. Fits(s, x, q, 0, f, id) => Fits(t, x, Append(q, c), 0, f, id)
    BY <1>0, FitsOn
  <2> QED
    BY <2>1, <2>2, HereOn
<1>4. ASSUME NEW k \in 1 .. Len(d.changes), NEW f \in Place, NEW id \in Id,
             Touches(d.changes[k], f, id)
      PROVE  \/ Fits(t, Tells(d.changes[k], f), Append(q, c), a, f, id)
             \/ Here(t, f, id) /\ Later(d.changes, k, f, id)
  <2>1. \/ Fits(s, Tells(d.changes[k], f), q, a, f, id)
        \/ Here(s, f, id) /\ Later(d.changes, k, f, id)
    BY <1>4 DEF SinceFits
  <2> QED
    BY <2>1, FitsOn, HereOn
<1>5. \A k \in 1 .. Len(d.changes) : d.changes[k].kind # "message_deliver"
  BY DEF SinceFits
<1> QED
  BY <1>1, <1>2, <1>3, <1>4, <1>5 DEF SinceFits

LEMMA AnswerFitsOn ==
    ASSUME NEW s, IsServer(s), NEW t, IsServer(t), NEW e, Turns(s, t, e),
           NEW V, NEW q \in Seq(V), NEW c \in V, Alike(c, e), NEW a \in Nat, a <= Len(q),
           NEW st, NEW ds, NEW kind \in Asked, AnswerFits(s, st, kind, ds, q, a)
    PROVE  AnswerFits(t, st, kind, ds, Append(q, c), a)
<1>1. CASE kind = "full"
  <2>1. PICK d \in ds : ds = {d} /\ FullFits(s, d, q, a)
    BY <1>1 DEF AnswerFits
  <2>2. FullFits(t, d, Append(q, c), a)
    BY <2>1, FullFitsOn
  <2> QED
    BY <1>1, <2>1, <2>2 DEF AnswerFits
<1>2. CASE kind = "page"
  <2>1. PICK d \in ds : ds = {d} /\ Lasts(s, d, q, a)
    BY <1>2 DEF AnswerFits
  <2>2. Lasts(t, d, Append(q, c), a)
    BY <2>1, LastsOn
  <2>3. Settled(t, st, Append(q, c))
    BY <1>2, SettledOn DEF AnswerFits
  <2> QED
    BY <1>2, <2>1, <2>2, <2>3 DEF AnswerFits
<1>3. CASE kind = "since"
  <2>1. CASE ds = {} /\ Settled(s, st, q)
    <3>1. Settled(t, st, Append(q, c))
      BY <2>1, SettledOn
    <3> QED
      BY <1>3, <2>1, <3>1 DEF AnswerFits
  <2>2. CASE \E d \in ds : ds = {d} /\ SinceFits(s, st, d, q, a)
    <3>1. PICK d \in ds : ds = {d} /\ SinceFits(s, st, d, q, a)
      BY <2>2
    <3>2. SinceFits(t, st, d, Append(q, c), a)
      BY <3>1, SinceFitsOn
    <3> QED
      BY <1>3, <3>1, <3>2 DEF AnswerFits
  <2> QED
    BY <1>3, <2>1, <2>2 DEF AnswerFits
<1> QED
  BY <1>1, <1>2, <1>3 DEF Asked
--------------------------------------------------------------------------------
(* What a mutation leaves in the log *)

\* The log after is the one before without its first n changes, which are older.
Cut(q, n, after) ==
    /\ q \in Seq(Logged) /\ after \in Seq(Logged)
    /\ n \in 0 .. Len(q) - 1 /\ Len(after) = Len(q) - n
    /\ \A k \in 1 .. Len(after) : after[k] = q[n + k]
    /\ \A k \in n + 1 .. Len(q) : k - n \in 1 .. Len(after) /\ after[k - n] = q[k]
    /\ \A k \in 1 .. Len(q) : q[k].version \in Nat
    /\ \A k \in 1 .. n : /\ after # <<>> /\ after[1].version \in Nat
                         /\ q[k].version < after[1].version

LEMMA CutIs ==
    ASSUME NEW s, IsServer(s), NEW t, IsServer(t), NEW c \in Logged,
           c.version = s.changeSeq + 1, t.changeSeq = s.changeSeq + 1,
           t.changes = Trimmed(Append(s.changes, c))
    PROVE  \E n : Cut(Append(s.changes, c), n, t.changes)
<1> DEFINE q == Append(s.changes, c)
           m == Len(s.changes)
           n == Len(q) - Len(t.changes)
<1>1. /\ s.changes \in Seq(Logged) /\ m \in Nat /\ s.changeSeq \in Nat /\ m <= s.changeSeq
      /\ \A k \in 1 .. m : s.changes[k].version = s.changeSeq - m + k
  BY ServerIs DEF IsServer, Numbered
<1>2. /\ q \in Seq(Logged) /\ Len(q) = m + 1 /\ q[m + 1] = c
      /\ \A k \in 1 .. m : q[k] = s.changes[k]
  BY <1>1
<1>3. \A k \in 1 .. m + 1 : q[k].version = s.changeSeq - m + k /\ q[k].version \in Nat
  <2> HIDE DEF q, m
  <2> SUFFICES ASSUME NEW k \in 1 .. m + 1
               PROVE  q[k].version = s.changeSeq - m + k /\ q[k].version \in Nat
    OBVIOUS
  <2>1. CASE k = m + 1
    BY <1>1, <1>2, <2>1
  <2>2. CASE k \in 1 .. m
    BY <1>1, <1>2, <2>2
  <2> QED
    BY <1>1, <2>1, <2>2
<1>4. Retained \in Nat /\ Retained >= 1
  BY BoundsAssumption
<1> HIDE DEF q, m
<1>5. /\ t.changes \in Seq(Logged)
      /\ Len(t.changes) = IF Len(q) > Retained THEN Retained ELSE Len(q)
      /\ \A k \in 1 .. Len(t.changes) :
            /\ Len(q) - Len(t.changes) + k \in 1 .. Len(q)
            /\ t.changes[k] = q[Len(q) - Len(t.changes) + k]
  <2>1. t.changes = Trimmed(q)
    BY DEF q
  <2> QED
    BY <1>2, <2>1, TrimmedIs
<1>6. n \in 0 .. Len(q) - 1 /\ Len(t.changes) = Len(q) - n /\ Len(t.changes) >= 1
      /\ Len(t.changes) \in Nat /\ n \in Nat
  BY <1>1, <1>2, <1>4, <1>5
<1>7. \A k \in 1 .. Len(t.changes) : t.changes[k] = q[n + k] /\ n + k \in 1 .. Len(q)
  BY <1>5
<1> HIDE DEF n
<1>8. \A k \in n + 1 .. Len(q) : k - n \in 1 .. Len(t.changes) /\ t.changes[k - n] = q[k]
  <2> SUFFICES ASSUME NEW k \in n + 1 .. Len(q)
               PROVE  k - n \in 1 .. Len(t.changes) /\ t.changes[k - n] = q[k]
    OBVIOUS
  <2>1. k - n \in 1 .. Len(t.changes) /\ n + (k - n) = k
    BY <1>1, <1>2, <1>6
  <2> QED
    BY <1>7, <2>1
<1>9. t.changes # <<>> /\ t.changes[1] = q[n + 1] /\ n + 1 \in 1 .. m + 1
  BY <1>1, <1>2, <1>6, <1>7
<1>10. ASSUME NEW k \in 1 .. Len(q), k <= n
       PROVE  t.changes[1].version \in Nat /\ q[k].version < t.changes[1].version
  <2>1. k \in 1 .. m + 1 /\ k < n + 1
    BY <1>2, <1>6, <1>10
  <2> QED
    BY <1>1, <1>3, <1>6, <1>9, <2>1
<1>11. \A k \in 1 .. Len(q) : q[k].version \in Nat
  BY <1>2, <1>3
<1>12. \A k \in 1 .. n : k \in 1 .. Len(q) /\ k <= n
  BY <1>1, <1>2, <1>6
<1>13. \A k \in 1 .. Len(t.changes) : t.changes[k] = q[n + k]
  BY <1>7
<1>14. Cut(q, n, t.changes)
  BY <1>2, <1>5, <1>6, <1>8, <1>9, <1>10, <1>11, <1>12, <1>13 DEF Cut
<1> QED
  BY <1>14 DEF q

\* What the log said after a version it still says, or is too short to.
LEMMA CutLogs ==
    ASSUME NEW s, IsServer(s), NEW t, IsServer(t), NEW c \in Logged,
           c.version = s.changeSeq + 1, t.changeSeq = s.changeSeq + 1,
           t.changes = Trimmed(Append(s.changes, c)), NEW v \in Nat,
           NEW k \in 1 .. Len(Append(s.changes, c)), NEW f, NEW id,
           Append(s.changes, c)[k].version > v, Touches(Append(s.changes, c)[k], f, id)
    PROVE  \/ LogTooShort(t, v)
           \/ \E j \in 1 .. Len(t.changes) :
                 t.changes[j].version > v /\ Touches(t.changes[j], f, id)
<1> DEFINE q == Append(s.changes, c)
<1>1. PICK n : Cut(q, n, t.changes)
  BY CutIs
<1>2. k \in 1 .. Len(q) /\ q[k].version > v /\ Touches(q[k], f, id)
  OBVIOUS
<1> HIDE DEF q
<1>3. CASE k <= n
  <2>1. k \in 1 .. n /\ q[k].version \in Nat
    BY <1>1, <1>2, <1>3 DEF Cut
  <2>2. /\ t.changes # <<>> /\ t.changes[1].version \in Nat
        /\ q[k].version < t.changes[1].version
    BY <1>1, <2>1 DEF Cut
  <2>3. v + 1 < t.changes[1].version
    BY <1>2, <2>1, <2>2
  <2> QED
    BY <2>2, <2>3 DEF LogTooShort
<1>4. CASE ~ (k <= n)
  <2>1. k \in n + 1 .. Len(q)
    BY <1>1, <1>2, <1>4 DEF Cut
  <2>2. k - n \in 1 .. Len(t.changes) /\ t.changes[k - n] = q[k]
    BY <1>1, <2>1 DEF Cut
  <2> QED
    BY <1>2, <2>2
<1> QED
  BY <1>3, <1>4

LEMMA CutShort ==
    ASSUME NEW s, IsServer(s), NEW t, IsServer(t), NEW c \in Logged,
           c.version = s.changeSeq + 1, t.changeSeq = s.changeSeq + 1,
           t.changes = Trimmed(Append(s.changes, c)), NEW v \in Nat, LogTooShort(s, v)
    PROVE  LogTooShort(t, v)
<1> DEFINE q == Append(s.changes, c)
<1>1. PICK n : Cut(q, n, t.changes)
  BY CutIs
<1>2. s.changes \in Seq(Logged) /\ s.changes # <<>> /\ v + 1 < s.changes[1].version
  BY ServerIs DEF LogTooShort
<1>3. q[1] = s.changes[1] /\ 1 \in 1 .. Len(q)
  BY <1>2
<1> HIDE DEF q
<1>4. CASE n = 0
  <2>1. t.changes # <<>> /\ t.changes[1] = q[1]
    BY <1>1, <1>3, <1>4 DEF Cut
  <2> QED
    BY <1>2, <1>3, <2>1 DEF LogTooShort
<1>5. CASE n # 0
  <2>1. 1 \in 1 .. n /\ q[1].version \in Nat
    BY <1>1, <1>3, <1>5 DEF Cut
  <2>2. /\ t.changes # <<>> /\ t.changes[1].version \in Nat
        /\ q[1].version < t.changes[1].version
    BY <1>1, <2>1 DEF Cut
  <2>3. v + 1 < t.changes[1].version
    BY <1>2, <1>3, <2>1, <2>2
  <2> QED
    BY <2>2, <2>3 DEF LogTooShort
<1> QED
  BY <1>4, <1>5

LEMMA LogsOn ==
    ASSUME NEW s, IsServer(s), NEW t, IsServer(t), NEW e, Turns(s, t, e), Logging(s, t, e),
           NEW v \in Nat, v <= s.changeSeq, NEW f \in Place, NEW id \in Id, Here(s, f, id),
           Logs(s, v, f, id) \/ Now(t, f, id) # Now(s, f, id)
    PROVE  Logs(t, v, f, id)
<1>1. CASE /\ t.changes = s.changes /\ t.changeSeq = s.changeSeq
           /\ \A g \in Place, i \in Id : Here(s, g, i) => Now(t, g, i) = Now(s, g, i)
  <2>1. Now(t, f, id) = Now(s, f, id)
    BY <1>1
  <2>2. f = "marker" => s.marker # NoId /\ t.marker # NoId
    BY <2>1 DEF Turns, Logs
  <2> QED
    BY <1>1, <2>1, <2>2 DEF Logs, LogTooShort
<1>2. CASE /\ e.kind # "message_deliver"
           /\ \E c \in Logged :
                 /\ Alike(c, e) /\ c.version = s.changeSeq + 1
                 /\ t.changes = Trimmed(Append(s.changes, c)) /\ t.changeSeq = s.changeSeq + 1
  <2>1. PICK c \in Logged :
            /\ Alike(c, e) /\ c.version = s.changeSeq + 1
            /\ t.changes = Trimmed(Append(s.changes, c)) /\ t.changeSeq = s.changeSeq + 1
    BY <1>2
  <2> DEFINE q == Append(s.changes, c)
  <2>2. s.changes \in Seq(Logged) /\ s.changeSeq \in Nat
    BY ServerIs
  <2>3. /\ Len(q) \in Nat /\ Len(q) = Len(s.changes) + 1 /\ Len(q) \in 1 .. Len(q) /\ q[Len(q)] = c
        /\ \A k \in 1 .. Len(s.changes) : k \in 1 .. Len(q) /\ q[k] = s.changes[k]
    BY <2>2
  <2>4. CASE Logs(s, v, f, id)
    <3>1. f = "marker" => t.marker # NoId
      BY <2>4 DEF Turns, Logs
    <3>2. CASE LogTooShort(s, v)
      BY <2>1, <3>1, <3>2, CutShort DEF Logs
    <3>3. CASE \E k \in 1 .. Len(s.changes) :
                  s.changes[k].version > v /\ Touches(s.changes[k], f, id)
      <4>1. PICK k \in 1 .. Len(s.changes) :
                s.changes[k].version > v /\ Touches(s.changes[k], f, id)
        BY <3>3
      <4>2. k \in 1 .. Len(q) /\ q[k].version > v /\ Touches(q[k], f, id)
        BY <2>3, <4>1
      <4> QED
        BY <2>1, <3>1, <4>2, CutLogs DEF Logs
    <3> QED
      BY <2>4, <3>2, <3>3 DEF Logs
  <2>5. CASE Now(t, f, id) # Now(s, f, id)
    <3>1. Touches(e, f, id)
      BY <2>5 DEF Turns
    <3>2. f = "marker" => t.marker # NoId
      BY <3>1 DEF Turns, Touches
    <3>3. Touches(c, f, id)
      BY <2>1, <3>1, AlikeIs
    <3>4. c.version > v
      BY <2>1, <2>2
    <3>5. Len(q) \in 1 .. Len(q) /\ q[Len(q)].version > v /\ Touches(q[Len(q)], f, id)
      BY <2>3, <3>3, <3>4
    <3> QED
      BY <2>1, <3>2, <3>5, CutLogs DEF Logs
  <2> QED
    BY <2>4, <2>5
<1> QED
  BY <1>1, <1>2 DEF Logging

LEMMA ColdOn ==
    ASSUME NEW s, IsServer(s), NEW t, IsServer(t), NEW e, Turns(s, t, e), Logging(s, t, e),
           NEW st, NEW cursor \in Id, NEW v \in Nat, NEW V, NEW q \in Seq(V),
           Cold(s, st, cursor, v, q)
    PROVE  Cold(t, st, cursor, v, q)
<1>1. cursor <= Len(s.messages) /\ v <= s.changeSeq
  BY DEF Cold
<1>2. /\ Len(s.messages) \in Nat /\ Len(t.messages) \in Nat /\ cursor \in Nat
      /\ Len(s.messages) <= Len(t.messages) /\ s.changeSeq \in Nat /\ t.changeSeq \in Nat
  BY ServerIs, BoundsAssumption DEF Turns, Id
<1>3. v <= t.changeSeq
  BY <1>1, <1>2 DEF Logging
<1>4. cursor <= Len(t.messages)
  BY <1>1, <1>2
<1>5. \A id \in 1 .. Len(t.messages) : id <= cursor => Holds(st, id)
  BY <1>1, <1>2 DEF Cold
<1>6. ASSUME NEW f \in Place, NEW id \in Id, NEW x \in Values(st.held, st.marker, f, id)
      PROVE  Here(t, f, id) /\ (Fits(t, x, q, 0, f, id) \/ Logs(t, v, f, id))
  <2>1. Here(s, f, id) /\ (Fits(s, x, q, 0, f, id) \/ Logs(s, v, f, id))
    BY DEF Cold
  <2>2. Here(t, f, id)
    BY <2>1, HereOn
  <2>3. CASE Logs(s, v, f, id) \/ Now(t, f, id) # Now(s, f, id)
    BY <1>1, <2>1, <2>2, <2>3, LogsOn
  <2>4. CASE ~ Logs(s, v, f, id) /\ Now(t, f, id) = Now(s, f, id)
    BY <2>1, <2>2, <2>4 DEF Fits
  <2> QED
    BY <2>3, <2>4
<1> QED
  BY <1>3, <1>4, <1>5, <1>6 DEF Cold

\* With more to come, less is asked.
LEMMA ColdMore ==
    ASSUME NEW s, NEW st, NEW cursor, NEW v, NEW V, NEW q \in Seq(V), NEW c \in V,
           Cold(s, st, cursor, v, q)
    PROVE  Cold(s, st, cursor, v, Append(q, c))
<1>1. \A x, f, id : Fits(s, x, q, 0, f, id) => Fits(s, x, Append(q, c), 0, f, id)
  BY LaterOn DEF Fits
<1> QED
  BY <1>1 DEF Cold

LEMMA ColdAny ==
    ASSUME NEW s, NEW st, NEW cursor, NEW v, NEW q, Cold(s, st, cursor, v, <<>>)
    PROVE  Cold(s, st, cursor, v, q)
<1>1. \A x, f, id : Fits(s, x, <<>>, 0, f, id) => Fits(s, x, q, 0, f, id)
  BY DEF Fits, Later
<1> QED
  BY <1>1 DEF Cold

LEMMA LogCurrentOn ==
    ASSUME NEW s, IsServer(s), NEW t, IsServer(t), NEW e, Turns(s, t, e), Logging(s, t, e),
           Current(s, s.changes),
           \A k \in 1 .. Len(s.changes) : s.changes[k].kind # "message_deliver"
    PROVE  /\ Current(t, t.changes)
           /\ \A k \in 1 .. Len(t.changes) : t.changes[k].kind # "message_deliver"
<1>0. s.changes \in Seq(Logged)
  BY ServerIs
<1>1. CASE /\ t.changes = s.changes
           /\ \A f \in Place, id \in Id : Here(s, f, id) => Now(t, f, id) = Now(s, f, id)
  <2>1. ASSUME NEW k \in 1 .. Len(t.changes), NEW f \in Place, NEW id \in Id,
               Touches(t.changes[k], f, id)
        PROVE  Fits(t, Tells(t.changes[k], f), t.changes, k, f, id)
    <3>1. Fits(s, Tells(s.changes[k], f), s.changes, k, f, id)
      BY <1>1, <2>1 DEF Current
    <3>2. Here(s, f, id) /\ Here(t, f, id) /\ Now(t, f, id) = Now(s, f, id)
      BY <1>1, <3>1, HereOn DEF Fits
    <3> QED
      BY <1>1, <3>1, <3>2 DEF Fits
  <2> QED
    BY <1>1, <2>1 DEF Current
<1>2. CASE /\ e.kind # "message_deliver"
           /\ \E c \in Logged :
                 /\ Alike(c, e) /\ c.version = s.changeSeq + 1
                 /\ t.changes = Trimmed(Append(s.changes, c)) /\ t.changeSeq = s.changeSeq + 1
  <2>1. PICK c \in Logged :
            /\ Alike(c, e) /\ c.version = s.changeSeq + 1
            /\ t.changes = Trimmed(Append(s.changes, c)) /\ t.changeSeq = s.changeSeq + 1
    BY <1>2
  <2>2. Current(t, Append(s.changes, c))
    BY <1>0, <2>1, CurrentOn
  <2>3. PICK q : q = Append(s.changes, c)
    OBVIOUS
  <2>4. PICK n : Cut(q, n, t.changes)
    BY <2>1, <2>3, CutIs
  <2>5. /\ q \in Seq(Logged) /\ t.changes \in Seq(Logged) /\ n \in 0 .. Len(q)
        /\ Len(t.changes) = Len(q) - n /\ \A k \in 1 .. Len(t.changes) : t.changes[k] = q[n + k]
    BY <2>4 DEF Cut
  <2>6. Current(t, t.changes)
    BY <2>2, <2>3, <2>5, CurrentSuffix
  <2>7. \A k \in 1 .. Len(q) : q[k].kind # "message_deliver"
    BY <1>0, <1>2, <2>1, <2>3 DEF Alike
  <2>8. \A k \in 1 .. Len(t.changes) : n + k \in 1 .. Len(q)
    BY <2>5
  <2> QED
    BY <2>5, <2>6, <2>7, <2>8
<1> QED
  BY <1>1, <1>2 DEF Logging--------------------------------------------------------------------------------
(* What the server answers is of the present *)

LEMMA ValuesIs ==
    ASSUME NEW messages, NEW marker, NEW f \in Place, NEW id, NEW x \in Values(messages, marker, f, id)
    PROVE  \/ f = "marker" /\ x = marker
           \/ f \in Field /\ f # "marker" /\ \E m \in ToSet(messages) : m.id = id /\ x = Of(m, f)
  BY PlaceIs DEF Values

LEMMA DescribesLasts ==
    ASSUME NEW s, NEW d, Describes(d, s), NEW q, NEW a
    PROVE  Lasts(s, d, q, a)
<1> SUFFICES ASSUME NEW f \in Place, NEW id \in Id,
                    NEW x \in Values(d.messages, d.marker, f, id)
             PROVE  Fits(s, x, q, a, f, id)
  BY DEF Lasts
<1>1. CASE f = "marker" /\ x = d.marker
  BY <1>1 DEF Fits, Here, Now, Describes
<1>2. CASE f \in Field /\ f # "marker" /\ \E m \in ToSet(d.messages) : m.id = id /\ x = Of(m, f)
  BY <1>2 DEF Fits, Here, Now, Describes
<1> QED
  BY <1>1, <1>2, ValuesIs

\* The retained changes after the version, in their order.
Follows(changes, i, log, k) ==
    /\ changes[i] = log[k]
    /\ \A j \in k + 1 .. Len(log) : \E n \in i + 1 .. Len(changes) : changes[n] = log[j]

LEMMA ChangesAfterIs ==
    ASSUME NEW s, IsServer(s), NEW v \in Nat
    PROVE  LET changes == ChangesAfter(s, v) IN
           /\ changes \in Seq(Logged)
           /\ \A i \in 1 .. Len(changes) :
                 \E k \in 1 .. Len(s.changes) : Follows(changes, i, s.changes, k)
           /\ \A k \in 1 .. Len(s.changes) : s.changes[k].version > v =>
                 \E i \in 1 .. Len(changes) : changes[i] = s.changes[k]
<1> DEFINE C == {k \in DOMAIN s.changes : s.changes[k].version > v}
           a == Ascending(C)
           changes == ChangesAfter(s, v)
<1>1. /\ s.changes \in Seq(Logged) /\ Len(s.changes) \in Nat /\ s.changeSeq \in Nat
      /\ \A k \in 1 .. Len(s.changes) : s.changes[k].version = s.changeSeq - Len(s.changes) + k
      /\ DOMAIN s.changes = 1 .. Len(s.changes)
  BY ServerIs DEF IsServer, Numbered
<1>2. C \in SUBSET (1 .. Len(s.changes)) /\ changes = At(s.changes, C)
      /\ \A k : k \in C <=> k \in 1 .. Len(s.changes) /\ s.changes[k].version > v
  BY <1>1 DEF ChangesAfter
<1> HIDE DEF C, changes
<1>3. /\ changes \in Seq(Logged)
      /\ \A i \in 1 .. Len(changes) : a[i] \in C /\ changes[i] = s.changes[a[i]]
      /\ \A i, j \in 1 .. Len(changes) : i < j => a[i] < a[j]
      /\ \A k \in C : \E i \in 1 .. Len(changes) : a[i] = k /\ changes[i] = s.changes[k]
  BY <1>1, <1>2, AtIs
<1> HIDE DEF a
<1>4. ASSUME NEW i \in 1 .. Len(changes)
      PROVE  \E k \in 1 .. Len(s.changes) : Follows(changes, i, s.changes, k)
  <2>1. PICK k \in 1 .. Len(s.changes) : k = a[i]
    BY <1>2, <1>3
  <2>2. k \in C /\ changes[i] = s.changes[k]
    BY <1>3, <2>1
  <2>3. ASSUME NEW j \in k + 1 .. Len(s.changes)
        PROVE  \E n \in i + 1 .. Len(changes) : changes[n] = s.changes[j]
    <3>1. j \in 1 .. Len(s.changes) /\ j > k
      BY <1>1
    <3>2. s.changes[j].version > v
      <4>1. s.changes[k].version > v
        BY <1>2, <2>2
      <4>2. PICK m \in Nat, seq \in Nat : m = Len(s.changes) /\ seq = s.changeSeq
        BY <1>1
      <4>3. s.changes[k].version = seq - m + k /\ s.changes[j].version = seq - m + j
        BY <1>1, <3>1, <4>2
      <4>4. k \in Nat /\ j \in Nat
        BY <3>1
      <4> QED
        BY <3>1, <4>1, <4>3, <4>4
    <3>3. j \in C
      BY <1>2, <3>1, <3>2
    <3>4. PICK n \in 1 .. Len(changes) : a[n] = j /\ changes[n] = s.changes[j]
      BY <1>3, <3>3
    <3>5. ~ (n < i) /\ n # i
      BY <1>3, <2>1, <3>1, <3>4
    <3>6. n \in i + 1 .. Len(changes)
      BY <3>5
    <3> QED
      BY <3>4, <3>6
  <2> QED
    BY <2>2, <2>3 DEF Follows
<1> QED
  BY <1>2, <1>3, <1>4 DEF changes

LEMMA LaterFollows ==
    ASSUME NEW changes \in Seq(Logged), NEW i \in 1 .. Len(changes), NEW log \in Seq(Logged),
           NEW k \in 1 .. Len(log), Follows(changes, i, log, k), NEW f, NEW id,
           Later(log, k, f, id)
    PROVE  Later(changes, i, f, id)
<1>1. PICK j \in 1 .. Len(log) : j > k /\ Touches(log[j], f, id)
  BY DEF Later
<1>2. j \in k + 1 .. Len(log)
  BY <1>1
<1>3. PICK n \in i + 1 .. Len(changes) : changes[n] = log[j]
  BY <1>2 DEF Follows
<1>4. n \in 1 .. Len(changes) /\ n > i
  OBVIOUS
<1> QED
  BY <1>1, <1>3, <1>4 DEF Later

\* The whole of what is visible.
LEMMA FullServed ==
    ASSUME NEW s, IsServer(s), Unscheduled(s), NEW d, d = Descriptor(s, Visible(s), <<>>),
           NEW q, NEW a
    PROVE  /\ Describes(d, s) /\ d.changes = <<>> /\ Lasts(s, d, q, a)
           /\ \A id \in 1 .. Len(s.messages) : Lists(d, id)
<1>1. Describes(d, s) /\ d.changes = <<>> /\ \A id : Shows(s, id) => Lists(d, id)
  BY FullDescriptorIs
<1>2. \A id \in 1 .. Len(s.messages) : Shows(s, id)
  BY ServerIs DEF Unscheduled, Shows
<1> QED
  BY <1>1, <1>2, DescribesLasts

\* From a cursor and a version that suit the copy, the answer brings it up to date.
LEMMA SinceServed ==
    ASSUME NEW s, IsServer(s), Unscheduled(s), Undelivering(s), Current(s, s.changes),
           NEW st, NEW cursor \in Id, NEW v \in Nat, NEW q, NEW a,
           Cold(s, st, cursor, v, q)
    PROVE  AnswerFits(s, st, "since", DescriptorSince(s, cursor, v), q, a)
<1> DEFINE full == Descriptor(s, Visible(s), <<>>)
           messages == MessagesAfter(s, cursor)
           changes == ChangesAfter(s, v)
           d == Descriptor(s, messages, changes)
           ds == DescriptorSince(s, cursor, v)
<1>1. \/ ds = {full}
      \/ ~ LogTooShort(s, v) /\ messages = <<>> /\ changes = <<>> /\ ds = {}
      \/ ~ LogTooShort(s, v) /\ ds = {d}
  BY DEF DescriptorSince
<1>2. /\ Describes(full, s) /\ full.changes = <<>> /\ Lasts(s, full, q, a)
      /\ \A id \in 1 .. Len(s.messages) : Lists(full, id)
  BY FullServed
<1>3. /\ Describes(d, s) /\ d.messages = messages /\ d.changes = changes
      /\ \A id : Shows(s, id) /\ id > cursor => Lists(d, id)
  BY SinceDescriptorIs
<1>4. Lasts(s, d, q, a)
  BY <1>3, DescribesLasts
<1>5. /\ changes \in Seq(Logged)
      /\ \A i \in 1 .. Len(changes) :
            \E k \in 1 .. Len(s.changes) : Follows(changes, i, s.changes, k)
      /\ \A k \in 1 .. Len(s.changes) : s.changes[k].version > v =>
            \E i \in 1 .. Len(changes) : changes[i] = s.changes[k]
  BY ChangesAfterIs
<1> HIDE DEF full, messages, changes, d, ds
<1>6. s.changes \in Seq(Logged) /\ Len(s.messages) \in Nat /\ cursor \in Nat
      /\ DOMAIN s.messages = 1 .. Len(s.messages)
  BY ServerIs, BoundsAssumption DEF Id
<1>7. ASSUME NEW id \in 1 .. Len(s.messages) PROVE Lists(d, id) \/ Holds(st, id)
  <2>1. Shows(s, id)
    BY <1>6 DEF Unscheduled, Shows
  <2>2. id > cursor \/ id <= cursor
    BY <1>6
  <2> QED
    BY <1>3, <2>1, <2>2 DEF Cold
<1>8. ASSUME NEW f \in Place, NEW id \in Id, NEW x \in Values(st.held, st.marker, f, id)
      PROVE  Here(s, f, id) /\ (Fits(s, x, q, 0, f, id) \/ Logs(s, v, f, id))
  BY DEF Cold
<1>9. ASSUME ~ LogTooShort(s, v), NEW f \in Place, NEW id \in Id, Logs(s, v, f, id)
      PROVE  Later(changes, 0, f, id)
  <2>1. PICK k \in 1 .. Len(s.changes) :
            s.changes[k].version > v /\ Touches(s.changes[k], f, id)
    BY <1>9 DEF Logs
  <2>2. PICK i \in 1 .. Len(changes) : changes[i] = s.changes[k]
    BY <1>5, <2>1
  <2>3. i > 0
    OBVIOUS
  <2> QED
    BY <2>1, <2>2, <2>3 DEF Later
<1>10. CASE ds = {full}
  <2>1. full.marker = s.marker
    BY <1>2 DEF Describes
  <2>2. ASSUME NEW f \in Place, NEW id \in Id, NEW x \in Values(st.held, st.marker, f, id)
        PROVE  Covers(full, f, id) \/ Fits(s, x, q, 0, f, id)
    <3>1. CASE f = "marker"
      BY <1>8, <2>1, <3>1 DEF Logs, Covers
    <3>2. CASE f # "marker"
      <4>1. id \in 1 .. Len(s.messages)
        BY <1>8, <3>2 DEF Here
      <4> QED
        BY <1>2, <3>2, <4>1 DEF Covers
    <3> QED
      BY <3>1, <3>2
  <2>3. \A k : k \notin 1 .. Len(full.changes)
    BY <1>2
  <2>4. SinceFits(s, st, full, q, a)
    BY <1>2, <2>2, <2>3 DEF SinceFits
  <2> QED
    BY <1>10, <2>4 DEF AnswerFits, ds
<1>11. CASE ~ LogTooShort(s, v) /\ messages = <<>> /\ changes = <<>> /\ ds = {}
  <2>1. \A id : ~ Lists(d, id)
    BY <1>3, <1>11 DEF Lists, ToSet
  <2>2. \A f, id : ~ Later(changes, 0, f, id)
    BY <1>11 DEF Later
  <2>3. Settled(s, st, q)
    BY <1>7, <1>8, <1>9, <1>11, <2>1, <2>2 DEF Settled
  <2> QED
    BY <1>11, <2>3 DEF AnswerFits, ds
<1>12. CASE ~ LogTooShort(s, v) /\ ds = {d}
  <2>1. ASSUME NEW f \in Place, NEW id \in Id, NEW x \in Values(st.held, st.marker, f, id)
        PROVE  Fits(s, x, q, 0, f, id) \/ (Here(s, f, id) /\ Later(d.changes, 0, f, id))
    BY <1>3, <1>8, <1>9, <1>12
  <2>2. ASSUME NEW i \in 1 .. Len(d.changes), NEW f \in Place, NEW id \in Id,
               Touches(d.changes[i], f, id)
        PROVE  \/ Fits(s, Tells(d.changes[i], f), q, a, f, id)
               \/ Here(s, f, id) /\ Later(d.changes, i, f, id)
    <3>1. PICK k \in 1 .. Len(s.changes) : Follows(changes, i, s.changes, k)
      BY <1>3, <1>5
    <3>2. d.changes[i] = s.changes[k]
      BY <1>3, <3>1 DEF Follows
    <3>3. Fits(s, Tells(s.changes[k], f), s.changes, k, f, id)
      BY <2>2, <3>2 DEF Current
    <3>4. Later(s.changes, k, f, id) => Later(changes, i, f, id)
      BY <1>3, <1>5, <1>6, <3>1, LaterFollows
    <3> QED
      BY <1>3, <3>2, <3>3, <3>4 DEF Fits
  <2>3. ASSUME NEW i \in 1 .. Len(d.changes) PROVE d.changes[i].kind # "message_deliver"
    BY <1>3, <1>5, <2>3 DEF Follows, Undelivering
  <2>4. SinceFits(s, st, d, q, a)
    BY <1>4, <1>7, <2>1, <2>2, <2>3 DEF SinceFits
  <2> QED
    BY <1>12, <2>4 DEF AnswerFits, ds
<1> QED
  BY <1>1, <1>10, <1>11, <1>12 DEF ds

\* A copy that is up to date suits any cursor and version.
LEMMA SettledCold ==
    ASSUME NEW s, NEW st, Settled(s, st, <<>>), NEW cursor, cursor <= Len(s.messages),
           NEW v, v <= s.changeSeq
    PROVE  Cold(s, st, cursor, v, <<>>)
<1>1. \A k : k \notin 1 .. Len(<<>>)
  OBVIOUS
<1>2. \A id \in 1 .. Len(s.messages) : Holds(st, id)
  BY <1>1 DEF Settled
<1>3. \A f \in Place, id \in Id : \A x \in Values(st.held, st.marker, f, id) :
          Here(s, f, id) /\ Fits(s, x, <<>>, 0, f, id)
  BY DEF Settled, Fits
<1> QED
  BY <1>2, <1>3 DEF Cold--------------------------------------------------------------------------------
(* What an answer leaves *)

LEMMA FullSettles ==
    ASSUME NEW s, NEW d \in Answered, NEW q, FullFits(s, d, q, 0), \A k \in 1 .. Len(q) : k > 0
    PROVE  Settled(s, FullApplied(d), q)
<1>1. FullApplied(d).held = d.messages /\ FullApplied(d).marker = d.marker
  BY FullAppliedIs
<1>2. \A id : Lists(d, id) => Holds(FullApplied(d), id)
  BY <1>1 DEF Lists, Holds
<1> QED
  BY <1>1, <1>2 DEF Settled, FullFits, Lasts

LEMMA PageSettles ==
    ASSUME NEW s, NEW st \in Copy, NEW d \in Answered, NEW q, Settled(s, st, q),
           Lasts(s, d, q, 0)
    PROVE  Settled(s, PageApplied(st, d), q)
<1> DEFINE after == PageApplied(st, d)
<1>1. /\ after.marker = IF d.marker = NoId THEN st.marker ELSE d.marker
      /\ \A m \in ToSet(after.held) : m \in ToSet(st.held) \/ m \in ToSet(d.messages)
      /\ \A id : Holds(st, id) => Holds(after, id)
  BY PageAppliedIs
<1> HIDE DEF after
<1>2. ASSUME NEW f \in Place, NEW id \in Id, NEW x \in Values(after.held, after.marker, f, id)
      PROVE  \/ x \in Values(st.held, st.marker, f, id)
             \/ x \in Values(d.messages, d.marker, f, id)
  <2>1. CASE f = "marker" /\ x = after.marker
    BY <1>1, <2>1 DEF Values
  <2>2. CASE f # "marker" /\ \E m \in ToSet(after.held) : m.id = id /\ x = Of(m, f)
    BY <1>1, <2>2 DEF Values
  <2> QED
    BY <2>1, <2>2, ValuesIs
<1>3. \A f \in Place, id \in Id : \A x \in Values(after.held, after.marker, f, id) :
          Fits(s, x, q, 0, f, id)
  BY <1>2 DEF Settled, Lasts
<1> QED
  BY <1>1, <1>3 DEF Settled, after

\* What has to be said of a change that tells the place last.
LEMMA LastChange ==
    ASSUME NEW s, NEW st, NEW d, NEW q, SinceFits(s, st, d, q, 0),
           NEW k \in 1 .. Len(d.changes), NEW f \in Place, NEW id \in Id,
           Touches(d.changes[k], f, id),
           \A j \in k + 1 .. Len(d.changes) : ~ Touches(d.changes[j], f, id),
           Len(d.changes) \in Nat
    PROVE  Fits(s, Tells(d.changes[k], f), q, 0, f, id)
<1>1. ~ Later(d.changes, k, f, id)
  BY DEF Later
<1> QED
  BY <1>1 DEF SinceFits

LEMMA SinceSettlesField ==
    ASSUME NEW s, NEW st \in Copy, NEW d \in Answered, NEW q, SinceFits(s, st, d, q, 0),
           NEW f \in Field, NEW m \in ToSet(SinceApplied(st, d).held), m.id \in Id
    PROVE  Fits(s, Of(m, f), q, 0, f, m.id)
<1>1. PICK x \in Copy :
          /\ x = Upserted(Met(st, d), d.messages)
          /\ Replays(x, d.changes, Len(d.changes), SinceApplied(st, d))
  BY SinceAppliedIs
<1>2. PICK was \in ToSet(x.held) :
          m.id = was.id /\ LastSaid(was, m, d.changes, Len(d.changes), f)
  BY <1>1, ReplaysElements
<1>3. d.changes \in Seq(Logged) /\ d.messages \in Seq(Entry) /\ Len(d.changes) \in Nat
  BY AnsweredIs
<1>4. Met(st, d) \in Copy /\ Met(st, d).held = st.held
  BY MetIs
<1>5. \/ was \in ToSet(d.messages)
      \/ was \in ToSet(st.held) /\ \A other \in ToSet(d.messages) : other.id # was.id
  BY <1>1, <1>3, <1>4, UpsertedIs
<1>6. f \in Place /\ f # "marker"
  BY DEF Place, Field
<1>7. \A k \in 1 .. Len(d.changes) :
          Touches(d.changes[k], f, m.id) <=> Concerns(d.changes[k], f, m.id)
  BY <1>6 DEF Touches, SinceFits, Brings
<1>8. CASE /\ Of(m, f) = Of(was, f)
           /\ \A k \in 1 .. Len(d.changes) : ~ Concerns(d.changes[k], f, was.id)
  <2>1. ~ Later(d.changes, 0, f, m.id)
    BY <1>2, <1>7, <1>8 DEF Later
  <2>2. CASE was \in ToSet(d.messages)
    <3>1. Of(was, f) \in Values(d.messages, d.marker, f, m.id)
      BY <1>2, <1>6, <2>2 DEF Values
    <3> QED
      BY <1>6, <1>8, <3>1 DEF SinceFits, Lasts
  <2>3. CASE was \in ToSet(st.held) /\ \A other \in ToSet(d.messages) : other.id # was.id
    <3>1. Of(was, f) \in Values(st.held, st.marker, f, m.id)
      BY <1>2, <1>6, <2>3 DEF Values
    <3>2. ~ Covers(d, f, m.id)
      BY <1>2, <1>6, <2>3 DEF Covers, Lists
    <3> QED
      BY <1>6, <1>8, <2>1, <3>1, <3>2 DEF SinceFits
  <2> QED
    BY <1>5, <2>2, <2>3
<1>9. CASE \E k \in 1 .. Len(d.changes) :
              /\ Concerns(d.changes[k], f, was.id) /\ Of(m, f) = Says(d.changes[k], f)
              /\ \A j \in k + 1 .. Len(d.changes) : ~ Concerns(d.changes[j], f, was.id)
  <2>1. PICK k \in 1 .. Len(d.changes) :
            /\ Concerns(d.changes[k], f, was.id) /\ Of(m, f) = Says(d.changes[k], f)
            /\ \A j \in k + 1 .. Len(d.changes) : ~ Concerns(d.changes[j], f, was.id)
    BY <1>9
  <2>2. \A j \in k + 1 .. Len(d.changes) : j \in 1 .. Len(d.changes)
    BY <1>3
  <2>3. Touches(d.changes[k], f, m.id)
        /\ \A j \in k + 1 .. Len(d.changes) : ~ Touches(d.changes[j], f, m.id)
    BY <1>2, <1>7, <2>1, <2>2
  <2>4. Fits(s, Tells(d.changes[k], f), q, 0, f, m.id)
    BY <1>3, <1>6, <2>3, LastChange
  <2> QED
    BY <1>6, <2>1, <2>4 DEF Tells
<1> QED
  BY <1>2, <1>8, <1>9 DEF LastSaid

LEMMA SinceSettlesMarker ==
    ASSUME NEW s, NEW st \in Copy, NEW d \in Answered, NEW q, SinceFits(s, st, d, q, 0),
           NEW id \in Id
    PROVE  Fits(s, SinceApplied(st, d).marker, q, 0, "marker", id)
<1> DEFINE after == SinceApplied(st, d)
<1> SUFFICES Fits(s, after.marker, q, 0, "marker", id)
  OBVIOUS
<1>1. PICK x \in Copy :
          /\ x = Upserted(Met(st, d), d.messages)
          /\ Replays(x, d.changes, Len(d.changes), after)
  BY SinceAppliedIs
<1> HIDE DEF after
<1>2. LastMarker(x, after, d.changes, Len(d.changes))
  BY <1>1 DEF Replays
<1>3. d.messages \in Seq(Entry) /\ Len(d.changes) \in Nat
  BY AnsweredIs
<1>4. /\ Met(st, d) \in Copy
      /\ Met(st, d).marker = IF d.marker = NoId THEN st.marker ELSE d.marker
  BY MetIs
<1>5. x.marker = IF d.marker = NoId THEN st.marker ELSE d.marker
  BY <1>1, <1>3, <1>4, UpsertedIs
<1>6. "marker" \in Place
  BY DEF Place
<1>7. \A e : Touches(e, "marker", id) <=> IsMarker(e)
  BY DEF Touches
<1>8. CASE after.marker = x.marker /\ \A k \in 1 .. Len(d.changes) : ~ IsMarker(d.changes[k])
  <2>1. ~ Later(d.changes, 0, "marker", id)
    BY <1>7, <1>8 DEF Later
  <2>2. d.marker \in Values(d.messages, d.marker, "marker", id)
        /\ st.marker \in Values(st.held, st.marker, "marker", id)
    BY DEF Values
  <2>3. CASE d.marker # NoId
    BY <1>5, <1>6, <1>8, <2>2, <2>3 DEF SinceFits, Lasts
  <2>4. CASE d.marker = NoId
    <3>1. ~ Covers(d, "marker", id)
      BY <2>4 DEF Covers
    <3> QED
      BY <1>5, <1>6, <1>8, <2>1, <2>2, <2>4, <3>1 DEF SinceFits
  <2> QED
    BY <2>3, <2>4
<1>9. CASE \E k \in 1 .. Len(d.changes) :
              /\ IsMarker(d.changes[k]) /\ after.marker = d.changes[k].id
              /\ \A j \in k + 1 .. Len(d.changes) : ~ IsMarker(d.changes[j])
  <2>1. PICK k \in 1 .. Len(d.changes) :
            /\ IsMarker(d.changes[k]) /\ after.marker = d.changes[k].id
            /\ \A j \in k + 1 .. Len(d.changes) : ~ IsMarker(d.changes[j])
    BY <1>9
  <2>2. Fits(s, Tells(d.changes[k], "marker"), q, 0, "marker", id)
    BY <1>3, <1>6, <1>7, <2>1, LastChange
  <2> QED
    BY <2>1, <2>2 DEF Tells
<1> QED
  BY <1>2, <1>8, <1>9 DEF LastMarker

LEMMA SinceSettles ==
    ASSUME NEW s, NEW st \in Copy, NEW d \in Answered, NEW q, SinceFits(s, st, d, q, 0)
    PROVE  Settled(s, SinceApplied(st, d), q)
<1> DEFINE after == SinceApplied(st, d)
<1>1. PICK x \in Copy :
          /\ x = Upserted(Met(st, d), d.messages)
          /\ Replays(x, d.changes, Len(d.changes), after)
  BY SinceAppliedIs
<1>2. d.messages \in Seq(Entry) /\ Met(st, d) \in Copy /\ Met(st, d).held = st.held
  BY AnsweredIs, MetIs
<1>3. ASSUME NEW id, Lists(d, id) \/ Holds(st, id) PROVE Holds(after, id)
  <2>1. Holds(st, id) => Holds(Met(st, d), id)
    BY <1>2 DEF Holds
  <2>2. Holds(x, id)
    BY <1>1, <1>2, <1>3, <2>1, UpsertedIs DEF Lists
  <2> QED
    BY <1>1, <2>2, ReplaysElements
<1>4. ASSUME NEW f \in Place, NEW id \in Id, NEW y \in Values(after.held, after.marker, f, id)
      PROVE  Fits(s, y, q, 0, f, id)
  <2>1. CASE f = "marker" /\ y = after.marker
    BY <2>1, SinceSettlesMarker
  <2>2. CASE f \in Field /\ \E m \in ToSet(after.held) : m.id = id /\ y = Of(m, f)
    BY <2>2, SinceSettlesField
  <2> QED
    BY <2>1, <2>2, ValuesIs
<1> HIDE DEF after
<1>5. \A id \in 1 .. Len(s.messages) : Holds(after, id) \/ \E k \in 1 .. Len(q) : Brings(q[k], id)
  BY <1>3 DEF SinceFits
<1> QED
  BY <1>4, <1>5 DEF Settled, after

LEMMA AnswerSettles ==
    ASSUME NEW s, NEW st \in Copy, NEW kind \in Asked, NEW ds \in SUBSET Answered, NEW q,
           AnswerFits(s, st, kind, ds, q, 0), \A k \in 1 .. Len(q) : k > 0
    PROVE  Settled(s, AnswerApplied(st, kind, ds), q)
<1>1. \A d \in ds : ds = {d} => (CHOOSE e \in ds : TRUE) = d
  OBVIOUS
<1>2. CASE kind = "full"
  <2>1. PICK d \in ds : ds = {d} /\ FullFits(s, d, q, 0)
    BY <1>2 DEF AnswerFits
  <2>2. AnswerApplied(st, kind, ds) = FullApplied(d)
    BY <1>1, <1>2, <2>1 DEF AnswerApplied
  <2> QED
    BY <2>1, <2>2, FullSettles
<1>3. CASE kind = "page"
  <2>1. PICK d \in ds : ds = {d} /\ Lasts(s, d, q, 0)
    BY <1>3 DEF AnswerFits
  <2>2. AnswerApplied(st, kind, ds) = PageApplied(st, d)
    BY <1>1, <1>3, <2>1 DEF AnswerApplied
  <2>3. Settled(s, st, q)
    BY <1>3 DEF AnswerFits
  <2> QED
    BY <2>1, <2>2, <2>3, PageSettles
<1>4. CASE kind = "since"
  <2>1. CASE ds = {} /\ Settled(s, st, q)
    <3>1. AnswerApplied(st, kind, ds) = st
      BY <1>4, <2>1 DEF AnswerApplied
    <3> QED
      BY <2>1, <3>1
  <2>2. CASE \E d \in ds : ds = {d} /\ SinceFits(s, st, d, q, 0)
    <3>1. PICK d \in ds : ds = {d} /\ SinceFits(s, st, d, q, 0)
      BY <2>2
    <3>2. AnswerApplied(st, kind, ds) = SinceApplied(st, d)
      BY <1>1, <1>4, <3>1 DEF AnswerApplied
    <3> QED
      BY <3>1, <3>2, SinceSettles
  <2> QED
    BY <1>4, <2>1, <2>2 DEF AnswerFits
<1> QED
  BY <1>2, <1>3, <1>4 DEF Asked--------------------------------------------------------------------------------
(* What a push leaves *)

LEMMA PushValues ==
    ASSUME NEW st \in Copy, NEW p \in Told, NEW after, after = PushApplied(st, p),
           NEW f \in Place, NEW id \in Id, NEW x \in Values(after.held, after.marker, f, id)
    PROVE  \/ Touches(p, f, id) /\ x = Tells(p, f)
           \/ ~ Touches(p, f, id) /\ x \in Values(st.held, st.marker, f, id)
<1>1. /\ after.marker = IF IsMarker(p) THEN p.id ELSE st.marker
      /\ \A m \in ToSet(after.held) :
            \/ Brings(p, m.id) /\ \A g \in Field : Of(m, g) = Says(p, g)
            \/ /\ ~ Brings(p, m.id)
               /\ \E was \in ToSet(st.held) :
                     /\ was.id = m.id
                     /\ \A g \in Field :
                           Of(m, g) = IF Concerns(p, g, m.id) THEN Says(p, g) ELSE Of(was, g)
  BY PushAppliedIs
<1>2. CASE f = "marker" /\ x = after.marker
  BY <1>1, <1>2 DEF Touches, Tells, Values
<1>3. CASE f \in Field /\ f # "marker" /\ \E m \in ToSet(after.held) : m.id = id /\ x = Of(m, f)
  <2>1. PICK m \in ToSet(after.held) : m.id = id /\ x = Of(m, f)
    BY <1>3
  <2>2. CASE Brings(p, id) /\ Of(m, f) = Says(p, f)
    BY <1>3, <2>1, <2>2 DEF Touches, Tells
  <2>3. CASE ~ Brings(p, id)
    <3>1. PICK was \in ToSet(st.held) :
              /\ was.id = id
              /\ Of(m, f) = IF Concerns(p, f, id) THEN Says(p, f) ELSE Of(was, f)
      BY <1>1, <1>3, <2>1, <2>3
    <3>2. Of(was, f) \in Values(st.held, st.marker, f, id)
      BY <1>3, <3>1 DEF Values
    <3> QED
      BY <1>3, <2>1, <2>3, <3>1, <3>2 DEF Touches, Tells
  <2> QED
    BY <1>1, <1>3, <2>1, <2>2, <2>3
<1> QED
  BY <1>2, <1>3, ValuesIs

\* What the push says of the place fits what follows it, and so does what it leaves.
LEMMA PushFits ==
    ASSUME NEW s, NEW st \in Copy, NEW q \in Seq(Told), q # <<>>, Current(s, q),
           NEW after, after = PushApplied(st, Head(q)),
           NEW f \in Place, NEW id \in Id, NEW x \in Values(after.held, after.marker, f, id)
    PROVE  \/ Fits(s, x, Tail(q), 0, f, id)
           \/ /\ x \in Values(st.held, st.marker, f, id)
              /\ Fits(s, x, q, 0, f, id) => Fits(s, x, Tail(q), 0, f, id)
<1>1. Head(q) = q[1] /\ Head(q) \in Told /\ 1 \in 1 .. Len(q)
  BY TailIs
<1>2. CASE Touches(Head(q), f, id) /\ x = Tells(Head(q), f)
  <2>1. PICK n \in Nat : n = 1
    OBVIOUS
  <2>2. Fits(s, x, q, n, f, id)
    BY <1>1, <1>2, <2>1 DEF Current
  <2>3. Fits(s, x, Tail(q), n - 1, f, id) /\ n - 1 = 0
    BY <2>1, <2>2, FitsTail
  <2> QED
    BY <2>3
<1>3. CASE ~ Touches(Head(q), f, id) /\ x \in Values(st.held, st.marker, f, id)
  BY <1>3, LaterHead DEF Fits
<1> QED
  BY <1>1, <1>2, <1>3, PushValues

\* What the first event brings is held, the rest is still brought.
LEMMA PushBrings ==
    ASSUME NEW st \in Copy, NEW q \in Seq(Told), q # <<>>, NEW id,
           Holds(st, id) \/ \E k \in 1 .. Len(q) : Brings(q[k], id)
    PROVE  \/ Holds(PushApplied(st, Head(q)), id)
           \/ \E k \in 1 .. Len(Tail(q)) : Brings(Tail(q)[k], id)
<1>1. Head(q) = q[1] /\ Head(q) \in Told /\ Len(q) \in Nat
  BY TailIs
<1>2. Holds(st, id) \/ Brings(Head(q), id) => Holds(PushApplied(st, Head(q)), id)
  BY <1>1, PushAppliedIs
<1>3. ASSUME NEW k \in 1 .. Len(q), Brings(q[k], id), ~ Brings(Head(q), id)
      PROVE  \E j \in 1 .. Len(Tail(q)) : Brings(Tail(q)[j], id)
  <2>1. k \in 2 .. Len(q)
    BY <1>1, <1>3
  <2>2. k - 1 \in 1 .. Len(Tail(q)) /\ Tail(q)[k - 1] = q[k]
    BY <2>1, TailIs
  <2> QED
    BY <1>3, <2>2
<1> QED
  BY <1>2, <1>3

LEMMA BringsTail ==
    ASSUME NEW q \in Seq(Told), q # <<>>, NEW a \in Nat, a >= 1, NEW id,
           \E k \in 1 .. Len(q) : k > a /\ Brings(q[k], id)
    PROVE  \E k \in 1 .. Len(Tail(q)) : k > a - 1 /\ Brings(Tail(q)[k], id)
<1>1. PICK k \in 1 .. Len(q) : k > a /\ Brings(q[k], id)
  OBVIOUS
<1>2. k \in 2 .. Len(q) /\ k - 1 > a - 1
  BY <1>1, TailIs
<1>3. k - 1 \in 1 .. Len(Tail(q)) /\ Tail(q)[k - 1] = q[k]
  BY <1>2, TailIs
<1> QED
  BY <1>1, <1>2, <1>3

LEMMA SettledPush ==
    ASSUME NEW s, NEW st \in Copy, NEW q \in Seq(Told), q # <<>>, Current(s, q),
           Settled(s, st, q)
    PROVE  Settled(s, PushApplied(st, Head(q)), Tail(q))
<1>1. PICK after : after = PushApplied(st, Head(q))
  OBVIOUS
<1>2. \A id \in 1 .. Len(s.messages) :
          Holds(after, id) \/ \E k \in 1 .. Len(Tail(q)) : Brings(Tail(q)[k], id)
  BY <1>1, PushBrings DEF Settled
<1>3. ASSUME NEW f \in Place, NEW id \in Id, NEW x \in Values(after.held, after.marker, f, id)
      PROVE  Fits(s, x, Tail(q), 0, f, id)
  BY <1>1, PushFits DEF Settled
<1> QED
  BY <1>1, <1>2, <1>3 DEF Settled

LEMMA ColdPush ==
    ASSUME NEW s, NEW st \in Copy, NEW q \in Seq(Told), q # <<>>, Current(s, q),
           NEW cursor, NEW v, Cold(s, st, cursor, v, q)
    PROVE  Cold(s, PushApplied(st, Head(q)), cursor, v, Tail(q))
<1>1. PICK after : after = PushApplied(st, Head(q))
  OBVIOUS
<1>2. \A id : Holds(st, id) => Holds(after, id)
  BY <1>1, TailIs, PushAppliedIs
<1>3. ASSUME NEW f \in Place, NEW id \in Id, NEW x \in Values(after.held, after.marker, f, id)
      PROVE  Here(s, f, id) /\ (Fits(s, x, Tail(q), 0, f, id) \/ Logs(s, v, f, id))
  <2>1. CASE Fits(s, x, Tail(q), 0, f, id)
    BY <2>1 DEF Fits
  <2>2. CASE /\ x \in Values(st.held, st.marker, f, id)
             /\ Fits(s, x, q, 0, f, id) => Fits(s, x, Tail(q), 0, f, id)
    BY <2>2 DEF Cold
  <2> QED
    BY <1>1, <2>1, <2>2, PushFits
<1> QED
  BY <1>1, <1>2, <1>3 DEF Cold

LEMMA LastsTail ==
    ASSUME NEW s, NEW d, NEW q \in Seq(Told), q # <<>>, NEW a \in Nat, a >= 1,
           Lasts(s, d, q, a)
    PROVE  Lasts(s, d, Tail(q), a - 1)
<1> SUFFICES ASSUME NEW f \in Place, NEW id \in Id,
                    NEW x \in Values(d.messages, d.marker, f, id)
             PROVE  Fits(s, x, Tail(q), a - 1, f, id)
  BY DEF Lasts
<1>1. Fits(s, x, q, a, f, id)
  BY DEF Lasts
<1> QED
  BY <1>1, FitsTail

LEMMA FullFitsTail ==
    ASSUME NEW s, NEW d, NEW q \in Seq(Told), q # <<>>, NEW a \in Nat, a >= 1,
           FullFits(s, d, q, a)
    PROVE  FullFits(s, d, Tail(q), a - 1)
<1>1. Lasts(s, d, Tail(q), a - 1)
  BY LastsTail DEF FullFits
<1>2. ASSUME NEW id \in 1 .. Len(s.messages), ~ Lists(d, id)
      PROVE  \E k \in 1 .. Len(Tail(q)) : k > a - 1 /\ Brings(Tail(q)[k], id)
  <2>1. \E k \in 1 .. Len(q) : k > a /\ Brings(q[k], id)
    BY <1>2 DEF FullFits
  <2> QED
    BY <2>1, BringsTail
<1> QED
  BY <1>1, <1>2 DEF FullFits

LEMMA SinceFitsPush ==
    ASSUME NEW s, NEW st \in Copy, NEW q \in Seq(Told), q # <<>>, Current(s, q),
           NEW d, NEW a \in Nat, a >= 1, SinceFits(s, st, d, q, a)
    PROVE  SinceFits(s, PushApplied(st, Head(q)), d, Tail(q), a - 1)
<1>1. PICK after : after = PushApplied(st, Head(q))
  OBVIOUS
<1>2. Lasts(s, d, Tail(q), a - 1)
  BY LastsTail DEF SinceFits
<1>3. ASSUME NEW id \in 1 .. Len(s.messages), ~ Lists(d, id)
      PROVE  Holds(after, id) \/ \E k \in 1 .. Len(Tail(q)) : Brings(Tail(q)[k], id)
  <2>1. Holds(st, id) \/ \E k \in 1 .. Len(q) : Brings(q[k], id)
    BY <1>3 DEF SinceFits
  <2> QED
    BY <1>1, <2>1, PushBrings
<1>4. ASSUME NEW f \in Place, NEW id \in Id, NEW x \in Values(after.held, after.marker, f, id)
      PROVE  \/ Covers(d, f, id)
             \/ Fits(s, x, Tail(q), 0, f, id)
             \/ Here(s, f, id) /\ Later(d.changes, 0, f, id)
  <2>1. CASE /\ x \in Values(st.held, st.marker, f, id)
             /\ Fits(s, x, q, 0, f, id) => Fits(s, x, Tail(q), 0, f, id)
    BY <2>1 DEF SinceFits
  <2> QED
    BY <1>1, <2>1, PushFits
<1>5. ASSUME NEW k \in 1 .. Len(d.changes), NEW f \in Place, NEW id \in Id,
             Touches(d.changes[k], f, id)
      PROVE  \/ Fits(s, Tells(d.changes[k], f), Tail(q), a - 1, f, id)
             \/ Here(s, f, id) /\ Later(d.changes, k, f, id)
  <2>1. \/ Fits(s, Tells(d.changes[k], f), q, a, f, id)
        \/ Here(s, f, id) /\ Later(d.changes, k, f, id)
    BY <1>5 DEF SinceFits
  <2> QED
    BY <2>1, FitsTail
<1>6. \A k \in 1 .. Len(d.changes) : d.changes[k].kind # "message_deliver"
  BY DEF SinceFits
<1> QED
  BY <1>1, <1>2, <1>3, <1>4, <1>5, <1>6 DEF SinceFits

LEMMA AnswerFitsPush ==
    ASSUME NEW s, NEW st \in Copy, NEW q \in Seq(Told), q # <<>>, Current(s, q),
           NEW ds, NEW kind \in Asked, NEW a \in Nat, a >= 1, AnswerFits(s, st, kind, ds, q, a)
    PROVE  AnswerFits(s, PushApplied(st, Head(q)), kind, ds, Tail(q), a - 1)
<1>1. CASE kind = "full"
  <2>1. PICK d \in ds : ds = {d} /\ FullFits(s, d, q, a)
    BY <1>1 DEF AnswerFits
  <2>2. FullFits(s, d, Tail(q), a - 1)
    BY <2>1, FullFitsTail
  <2> QED
    BY <1>1, <2>1, <2>2 DEF AnswerFits
<1>2. CASE kind = "page"
  <2>1. PICK d \in ds : ds = {d} /\ Lasts(s, d, q, a)
    BY <1>2 DEF AnswerFits
  <2>2. Lasts(s, d, Tail(q), a - 1)
    BY <2>1, LastsTail
  <2>3. Settled(s, PushApplied(st, Head(q)), Tail(q))
    BY <1>2, SettledPush DEF AnswerFits
  <2> QED
    BY <1>2, <2>1, <2>2, <2>3 DEF AnswerFits
<1>3. CASE kind = "since"
  <2>1. CASE ds = {} /\ Settled(s, st, q)
    <3>1. Settled(s, PushApplied(st, Head(q)), Tail(q))
      BY <2>1, SettledPush
    <3> QED
      BY <1>3, <2>1, <3>1 DEF AnswerFits
  <2>2. CASE \E d \in ds : ds = {d} /\ SinceFits(s, st, d, q, a)
    <3>1. PICK d \in ds : ds = {d} /\ SinceFits(s, st, d, q, a)
      BY <2>2
    <3>2. SinceFits(s, PushApplied(st, Head(q)), d, Tail(q), a - 1)
      BY <3>1, SinceFitsPush
    <3> QED
      BY <1>3, <3>1, <3>2 DEF AnswerFits
  <2> QED
    BY <1>3, <2>1, <2>2 DEF AnswerFits
<1> QED
  BY <1>1, <1>2, <1>3 DEF Asked--------------------------------------------------------------------------------
(* The one peer keeps the client calm *)

LEMMA AloneIs ==
    ASSUME NEW peer, Alone(peer)
    PROVE  /\ IsServer(server) /\ peer \in Peers /\ Peers = {peer}
           /\ pushes \in Seq(Told) /\ pending[peer] \in Seq(Told) /\ Coming(peer) \in Seq(Told)
           /\ store \in Copy /\ store.cursor \in Id /\ store.version \in Nat
           /\ \A r \in request : r.kind \in Asked /\ r.cursor \in Id /\ r.version \in Nat
           /\ \A r \in reply : /\ r.kind \in Asked /\ r.descriptors \in SUBSET Answered
                               /\ r.ahead \in Nat
           /\ member = TRUE /\ Unscheduled(server) /\ Undelivering(server)
           /\ Current(server, server.changes) /\ Current(server, Coming(peer))
<1>1. peer \in Peers /\ IsServer(server) /\ pushes \in Seq(Told) /\ pending[peer] \in Seq(Told)
  BY DEF Alone, SyncInv, PeersInv, WireInv
<1>2. store \in Copy /\ store.cursor \in Id /\ store.version \in Nat
  BY CopyIs DEF Alone, SyncInv, StoreInv
<1>3. /\ \A r \in request : r.kind \in Asked /\ r.cursor \in Id /\ r.version \in Nat
      /\ \A r \in reply : /\ r.kind \in Asked /\ r.descriptors \in SUBSET Answered
                          /\ r.ahead \in Nat
  BY DEF Alone, SyncInv, WireInv, Request, Reply
<1>4. /\ member = TRUE /\ Unscheduled(server) /\ Undelivering(server)
      /\ Current(server, server.changes) /\ Current(server, Coming(peer))
  BY DEF Alone, ServerCalm, SyncInv, PeersInv
<1>5. Coming(peer) \in Seq(Told)
  BY <1>1 DEF Coming
<1> QED
  BY <1>1, <1>2, <1>3, <1>4, <1>5 DEF Alone

LEMMA MutationCalm ==
    ASSUME NEW peer, Alone(peer), IsServer(server'), NEW push \in Told, Serves(peer, push),
           UNCHANGED <<setting, member, clientVars>>,
           Turns(server, server', push), Logging(server, server', push), Unscheduled(server')
    PROVE  ServerCalm(peer)' /\ ClientCalm(peer)'
<1>1. /\ pending[peer] = <<>> /\ pending'[peer] = <<push>>
      /\ UNCHANGED <<member, online, pushes, request, reply, store>>
  BY AloneIs DEF Serves, clientVars, Alone, SyncInv, PeersInv
<1>2. pushes \in Seq(Told)
  BY AloneIs
<1>3. PICK q \in Seq(Told) : q = pushes
  BY <1>2
<1>4. Coming(peer) = q /\ Coming(peer)' = Append(q, push)
  BY <1>1, <1>3 DEF Coming
<1>5. Alike(push, push)
  BY DEF Alike
<1>6. IsServer(server) /\ Current(server, server.changes) /\ Undelivering(server)
      /\ Current(server, q) /\ member = TRUE
  BY <1>4, AloneIs
<1>7. Current(server', server'.changes) /\ Undelivering(server')
  BY <1>6, LogCurrentOn DEF Undelivering
<1>8. Current(server', Append(q, push))
  BY <1>5, <1>6, CurrentOn
<1>9. ServerCalm(peer)'
  BY <1>1, <1>4, <1>6, <1>7, <1>8 DEF ServerCalm
<1>10. ASSUME ~ online
       PROVE  /\ pushes = <<>> /\ Idle
              /\ store.known => Cold(server', store, store.cursor, store.version, <<>>)
  <2>1. /\ pushes = <<>> /\ Idle
        /\ store.known => Cold(server, store, store.cursor, store.version, <<>>)
    BY <1>10 DEF Alone, ClientCalm
  <2>4. <<>> \in Seq(Told)
    OBVIOUS
  <2>2. PICK none \in Seq(Told) : none = <<>>
    BY <2>4
  <2>3. Cold(server, store, store.cursor, store.version, none) =>
            Cold(server', store, store.cursor, store.version, none)
    BY <1>6, AloneIs, ColdOn
  <2> QED
    BY <2>1, <2>2, <2>3
<1>11. Settled(server, store, q) => Settled(server', store, Append(q, push))
  BY <1>5, <1>6, SettledOn
<1>12. ASSUME NEW r \in request
       PROVE  /\ r.kind = "page" => Settled(server', store, Append(q, push))
              /\ r.kind = "since" =>
                    Cold(server', store, r.cursor, r.version, Append(q, push))
  <2>1. /\ r.kind = "page" => Settled(server, store, q)
        /\ r.kind = "since" => Cold(server, store, r.cursor, r.version, q)
    BY <1>4 DEF Alone, ClientCalm
  <2>2. r.cursor \in Id /\ r.version \in Nat
    BY AloneIs
  <2>3. Cold(server, store, r.cursor, r.version, q) =>
            Cold(server', store, r.cursor, r.version, q)
    BY <1>6, <2>2, ColdOn
  <2>4. Cold(server', store, r.cursor, r.version, q) =>
            Cold(server', store, r.cursor, r.version, Append(q, push))
    BY ColdMore
  <2> QED
    BY <1>11, <2>1, <2>3, <2>4
<1>13. ASSUME NEW r \in reply
       PROVE  /\ r.ahead <= Len(pushes)
              /\ AnswerFits(server', store, r.kind, r.descriptors, Append(q, push), r.ahead)
  <2>1. /\ r.ahead <= Len(q)
        /\ AnswerFits(server, store, r.kind, r.descriptors, q, r.ahead)
    BY <1>3, <1>4 DEF Alone, ClientCalm
  <2>2. r.kind \in Asked /\ r.ahead \in Nat
    BY AloneIs
  <2>3. AnswerFits(server', store, r.kind, r.descriptors, Append(q, push), r.ahead)
    BY <1>5, <1>6, <2>1, <2>2, AnswerFitsOn
  <2> QED
    BY <1>3, <2>1, <2>3
<1>14. online /\ Idle => Settled(server, store, q)
  BY <1>4 DEF Alone, ClientCalm
<1>15. ClientCalm(peer)'
  BY <1>1, <1>4, <1>10, <1>11, <1>12, <1>13, <1>14 DEF ClientCalm, Idle
<1> QED
  BY <1>9, <1>15

LEMMA SendMessageCalm ==
    ASSUME NEW peer, Alone(peer), IsServer(server'), NEW text \in Body, SendMessage(peer, text)
    PROVE  ServerCalm(peer)' /\ ClientCalm(peer)'
<1> DEFINE new      == Fresh(text, FALSE)
           messages == Append(server.messages, new)
           id       == Len(server.messages) + 1
           push     == Push("message_deliver", id, text)
<1>0. IsServer(server) /\ Unscheduled(server)
  BY AloneIs
<1>1. /\ server.messages \in Seq(Message) /\ Len(server.messages) \in Nat
      /\ Len(server.messages) < MaxMessages /\ MaxMessages \in Nat
  BY <1>0, ServerIs, BoundsAssumption DEF SendMessage
<1>2. /\ new \in Message /\ ~ new.scheduled /\ Of(new, "text") = text /\ ~ Of(new, "deleted")
      /\ Of(new, "deleted") \in BOOLEAN
      /\ Of(new, "reaction") = Cleared /\ Of(new, "pinned") = FALSE
  BY DEF Fresh, Message, Of
<1> HIDE DEF new
<1>3. /\ Len(messages) = id /\ messages[id] = new
      /\ \A i \in 1 .. Len(server.messages) : messages[i] = server.messages[i]
  BY <1>1, <1>2
<1>4. server' = [messages |-> messages, changes |-> server.changes,
                 changeSeq |-> server.changeSeq, marker |-> server.marker]
  BY <1>0 DEF SendMessage, IsServer, new
<1> HIDE DEF messages
<1>5. /\ server'.messages = messages /\ server'.changes = server.changes
      /\ server'.changeSeq = server.changeSeq /\ server'.marker = server.marker
  BY <1>4
<1>6. id \in Id /\ id # NoId /\ id \in Nat
      /\ Len(server.messages) <= id /\ \A i \in 1 .. id : i \in 1 .. Len(server.messages) \/ i = id
  BY <1>1 DEF Id, NoId
<1>7. Serves(peer, push) /\ UNCHANGED <<setting, member, clientVars>>
  BY DEF SendMessage
<1> HIDE DEF id
<1>8. push \in Told /\ push.kind = "message_deliver" /\ push.id = id /\ push.text = text
  BY <1>6, PushMade DEF Kind, Said, Push
<1> HIDE DEF push
<1>9. \A f, i : Touches(push, f, i) <=> f # "marker" /\ i = id
  BY <1>8 DEF Touches, IsMarker, Concerns, Brings
<1>10. \A f \in Field : Of(new, f) = Says(push, f)
  BY <1>2, <1>8 DEF Field, Says
<1>11. ASSUME NEW f \in Place, NEW i \in Id, Here(server, f, i)
       PROVE  Now(server', f, i) = Now(server, f, i)
  BY <1>3, <1>5, <1>11 DEF Now, Here
<1>12. ASSUME NEW f \in Place, NEW i \in Id, Touches(push, f, i)
       PROVE  Here(server', f, i) /\ Tells(push, f) = Now(server', f, i)
  <2>1. f \in Field /\ f # "marker" /\ i = id
    BY <1>9, <1>12, PlaceIs
  <2>2. Here(server', f, i)
    BY <1>3, <1>5, <1>6, <2>1 DEF Here, NoId
  <2>3. Now(server', f, i) = Of(new, f) /\ Tells(push, f) = Says(push, f)
    BY <1>3, <1>5, <2>1 DEF Now, Tells
  <2> QED
    BY <1>10, <2>1, <2>2, <2>3
<1>13. Brings(push, id) /\ ~ IsMarker(push)
  BY <1>8 DEF Brings, IsMarker
<1>14. Turns(server, server', push)
  BY <1>3, <1>5, <1>6, <1>11, <1>12, <1>13 DEF Turns
<1>15. Logging(server, server', push)
  BY <1>5, <1>11 DEF Logging
<1>16. Unscheduled(server')
  BY <1>0, <1>2, <1>3, <1>5, <1>6 DEF Unscheduled
<1> QED
  BY <1>7, <1>8, <1>14, <1>15, <1>16, MutationCalm

LEMMA RewriteCalm ==
    ASSUME NEW peer, Alone(peer), IsServer(server'),
           NEW id \in DOMAIN server.messages, NEW m \in Message,
           m.scheduled = server.messages[id].scheduled,
           NEW kind \in Rewriting, NEW text \in Said,
           kind = "message_edited" => text \in Body,
           kind = "message_reaction_updated" => text \in {Cleared, Liked},
           NEW s, s = [messages |-> [server.messages EXCEPT ![id] = m],
                       changes |-> server.changes, changeSeq |-> server.changeSeq,
                       marker |-> server.marker],
           server' = Recorded(s, kind, id, text),
           NEW push, push = Push(kind, id, text),
           \A f \in Field : Of(m, f) = IF Concerns(push, f, id) THEN Says(push, f)
                                       ELSE Of(server.messages[id], f),
           Serves(peer, push), UNCHANGED <<setting, member, clientVars>>
    PROVE  ServerCalm(peer)' /\ ClientCalm(peer)'
<1> DEFINE messages == [server.messages EXCEPT ![id] = m]
           c == Change(server.changeSeq + 1, kind, id, text)
<1>0. IsServer(server) /\ Unscheduled(server)
  BY AloneIs
<1>1. /\ server.messages \in Seq(Message) /\ Len(server.messages) \in Nat
      /\ Len(server.messages) <= MaxMessages /\ MaxMessages \in Nat
      /\ id \in 1 .. Len(server.messages) /\ id \in Id
  BY <1>0, ServerIs, BoundsAssumption DEF IsServer
<1>2. /\ messages \in Seq(Message) /\ Len(messages) = Len(server.messages)
      /\ \A i \in 1 .. Len(server.messages) :
            messages[i] = IF i = id THEN m ELSE server.messages[i]
  BY <1>1
<1>3. s = [messages |-> messages, changes |-> server.changes,
           changeSeq |-> server.changeSeq, marker |-> server.marker]
  OBVIOUS
<1> HIDE DEF messages
<1>4. /\ IsServer(s) /\ s.messages = messages /\ s.changes = server.changes
      /\ s.changeSeq = server.changeSeq /\ s.marker = server.marker
  <2>1. \A i \in 1 .. Len(server.messages) :
            ~ server.messages[i].scheduled => ~ messages[i].scheduled
    BY <1>2
  <2>2. Len(messages) <= MaxMessages /\ Len(server.messages) <= Len(messages)
    BY <1>1, <1>2
  <2>3. Grows(server, s)
    BY <1>0, <1>1, <1>2, <1>3, <2>1, <2>2, MessagesGrow
  <2> QED
    BY <1>3, <2>3 DEF Grows
<1>5. kind \in Kind /\ kind # "message_deliver" /\ kind # "read_marker"
  BY DEF Kind, Rewriting
<1>6. push \in Told /\ push.kind = kind /\ push.id = id /\ push.text = text
      /\ Event(Change(s.changeSeq + 1, kind, id, text))
  BY <1>1, <1>5, PushMade DEF Push
<1>7. /\ server'.messages = messages /\ server'.marker = server.marker /\ c \in Logged
      /\ server'.changeSeq = server.changeSeq + 1
      /\ server'.changes = Trimmed(Append(server.changes, c))
  BY <1>1, <1>4, <1>5, <1>6, RecordedIs
<1>8. Alike(c, push) /\ c.version = server.changeSeq + 1
  BY <1>6 DEF Alike, Change
<1> HIDE DEF c
<1>9. \A f, i : Touches(push, f, i) <=> f # "marker" /\ i = id /\ Concerns(push, f, id)
  BY <1>5, <1>6 DEF Touches, IsMarker, Concerns, Brings
<1>10. ASSUME NEW f \in Place, NEW i \in Id, Here(server, f, i)
       PROVE  Now(server', f, i) = Now(server, f, i) \/ Touches(push, f, i)
  <2>1. CASE f = "marker"
    BY <1>7, <2>1 DEF Now
  <2>2. CASE f # "marker"
    <3>1. f \in Field /\ i \in 1 .. Len(server.messages)
      BY <1>10, <2>2, PlaceIs DEF Here
    <3> QED
      BY <1>2, <1>7, <1>9, <2>2, <3>1 DEF Now
  <2> QED
    BY <2>1, <2>2
<1>11. ASSUME NEW f \in Place, NEW i \in Id, Touches(push, f, i)
       PROVE  Here(server', f, i) /\ Tells(push, f) = Now(server', f, i)
  <2>1. f # "marker" /\ f \in Field /\ i = id /\ Concerns(push, f, id)
    BY <1>9, <1>11, PlaceIs
  <2>2. Now(server', f, i) = Of(m, f) /\ Here(server', f, i)
    BY <1>1, <1>2, <1>7, <2>1 DEF Now, Here
  <2> QED
    BY <2>1, <2>2 DEF Tells
<1>12. ~ IsMarker(push)
  BY <1>5, <1>6 DEF IsMarker
<1>13. Turns(server, server', push)
  <2>1. Len(server'.messages) = Len(server.messages)
    BY <1>2, <1>7
  <2>2. server.marker # NoId \/ IsMarker(push) => server'.marker # NoId
    BY <1>7, <1>12
  <2>3. Len(server.messages) <= Len(server'.messages)
    BY <1>1, <2>1
  <2>4. \A i \in 1 .. Len(server'.messages) :
            i \in 1 .. Len(server.messages) \/ Brings(push, i)
    BY <2>1
  <2>5. \A f \in Place, i \in Id :
            Here(server, f, i) => Now(server', f, i) = Now(server, f, i) \/ Touches(push, f, i)
    BY <1>10
  <2>6. \A f \in Place, i \in Id :
            Touches(push, f, i) => Here(server', f, i) /\ Tells(push, f) = Now(server', f, i)
    BY <1>11
  <2> QED
    BY <2>2, <2>3, <2>4, <2>5, <2>6 DEF Turns
<1>14. Logging(server, server', push)
  BY <1>5, <1>6, <1>7, <1>8 DEF Logging
<1>15. Unscheduled(server')
  BY <1>0, <1>1, <1>2, <1>7 DEF Unscheduled
<1> QED
  BY <1>6, <1>13, <1>14, <1>15, MutationCalm
LEMMA ForwardMessageCalm ==
    ASSUME NEW peer, Alone(peer), IsServer(server'), NEW id \in DOMAIN server.messages,
           ForwardMessage(peer, id)
    PROVE  ServerCalm(peer)' /\ ClientCalm(peer)'
<1>0. IsServer(server)
  BY AloneIs
<1>1. server.messages[id] \in Message
  BY <1>0, ServerIs
<1>2. server.messages[id].text \in Body
  BY <1>1 DEF Message
<1> QED
  BY <1>2, SendMessageCalm DEF ForwardMessage

LEMMA EditMessageCalm ==
    ASSUME NEW peer, Alone(peer), IsServer(server'), NEW id \in DOMAIN server.messages,
           NEW text \in Text, EditMessage(peer, id, text)
    PROVE  ServerCalm(peer)' /\ ClientCalm(peer)'
<1> DEFINE m == [server.messages[id] EXCEPT !.text = text]
           s == [server EXCEPT !.messages[id].text = text]
           push == Push("message_edited", id, text)
<1>0. IsServer(server)
  BY AloneIs
<1>1. server.messages[id] \in Message
  BY <1>0, ServerIs
<1>2. m \in Message /\ m.scheduled = server.messages[id].scheduled
  BY <1>1 DEF Message, Body
<1>3. s = [messages |-> [server.messages EXCEPT ![id] = m], changes |-> server.changes,
           changeSeq |-> server.changeSeq, marker |-> server.marker]
  <2>1. s = [server EXCEPT !.messages = [server.messages EXCEPT ![id] = m]]
    OBVIOUS
  <2> QED
    BY <1>0, <2>1, MessagesSet
<1>4. /\ server' = Recorded(s, "message_edited", id, text)
      /\ Serves(peer, push) /\ UNCHANGED <<setting, member, clientVars>>
  BY DEF EditMessage
<1>5. push.kind = "message_edited" /\ push.id = id /\ push.text = text
  BY DEF Push
<1>6. \A f \in Field : Of(m, f) = IF Concerns(push, f, id) THEN Says(push, f)
                                  ELSE Of(server.messages[id], f)
  <2> HIDE DEF push
  <2> QED
    BY <1>1, <1>5 DEF Message, Field, Of, Concerns, Says
<1>7. PICK e : e = push
  OBVIOUS
<1> HIDE DEF m, s
<1>8. text \in Body /\ text \in Said /\ "message_edited" \in Rewriting
  BY DEF Body, Said, Rewriting
<1> QED
  BY <1>2, <1>3, <1>4, <1>6, <1>7, <1>8, RewriteCalm

LEMMA DeleteMessageCalm ==
    ASSUME NEW peer, Alone(peer), IsServer(server'), NEW id \in DOMAIN server.messages,
           DeleteMessage(peer, id)
    PROVE  ServerCalm(peer)' /\ ClientCalm(peer)'
<1> DEFINE m == [server.messages[id] EXCEPT !.text = Cleared, !.deleted = TRUE]
           s == [server EXCEPT !.messages[id].text = Cleared, !.messages[id].deleted = TRUE]
           push == Push("message_deleted", id, Cleared)
<1>0. IsServer(server)
  BY AloneIs
<1>1. server.messages[id] \in Message
  BY <1>0, ServerIs
<1>2. m \in Message /\ m.scheduled = server.messages[id].scheduled
  BY <1>1 DEF Message, Body
<1>3. s = [messages |-> [server.messages EXCEPT ![id] = m], changes |-> server.changes,
           changeSeq |-> server.changeSeq, marker |-> server.marker]
  BY <1>0, DeletedServer
<1>4. /\ server' = Recorded(s, "message_deleted", id, Cleared)
      /\ Serves(peer, push) /\ UNCHANGED <<setting, member, clientVars>>
  BY DEF DeleteMessage
<1>5. push.kind = "message_deleted" /\ push.id = id /\ push.text = Cleared
  BY DEF Push
<1>6. \A f \in Field : Of(m, f) = IF Concerns(push, f, id) THEN Says(push, f)
                                  ELSE Of(server.messages[id], f)
  <2> HIDE DEF push
  <2> QED
    BY <1>1, <1>5 DEF Message, Field, Of, Concerns, Says
<1>7. PICK e : e = push
  OBVIOUS
<1> HIDE DEF m, s
<1>8. Cleared \in Said /\ "message_deleted" \in Rewriting
  BY DEF Body, Said, Rewriting
<1> QED
  BY <1>2, <1>3, <1>4, <1>6, <1>7, <1>8, RewriteCalm

LEMMA RetouchCalm ==
    ASSUME NEW peer, Alone(peer), IsServer(server'), NEW id \in DOMAIN server.messages,
           NEW m \in Message, m.scheduled = server.messages[id].scheduled,
           NEW kind \in Rewriting, kind # "message_edited", NEW text \in Said,
           kind = "message_reaction_updated" => text \in {Cleared, Liked},
           NEW push, push = Push(kind, id, text),
           \A f \in Field : Of(m, f) = IF Concerns(push, f, id) THEN Says(push, f)
                                       ELSE Of(server.messages[id], f),
           Retouch(peer, id, kind, m, text)
    PROVE  ServerCalm(peer)' /\ ClientCalm(peer)'
<1> DEFINE s == [server EXCEPT !.messages[id] = m]
<1>1. IsServer(server)
  BY AloneIs
<1>2. s = [messages |-> [server.messages EXCEPT ![id] = m], changes |-> server.changes,
           changeSeq |-> server.changeSeq, marker |-> server.marker]
  <2>1. s = [server EXCEPT !.messages = [server.messages EXCEPT ![id] = m]]
    OBVIOUS
  <2> QED
    BY <1>1, <2>1, MessagesSet
<1>3. /\ server' = Recorded(s, kind, id, text) /\ Serves(peer, push)
      /\ UNCHANGED <<setting, member, clientVars>>
  BY DEF Retouch
<1> HIDE DEF s
<1> QED
  BY <1>2, <1>3, RewriteCalm

LEMMA ToggleReactionCalm ==
    ASSUME NEW peer, Alone(peer), IsServer(server'), NEW id \in DOMAIN server.messages,
           ToggleReaction(peer, id)
    PROVE  ServerCalm(peer)' /\ ClientCalm(peer)'
<1> DEFINE reaction == IF server.messages[id].reaction = Cleared THEN Liked ELSE Cleared
           m == [server.messages[id] EXCEPT !.reaction = reaction]
           kind == "message_reaction_updated"
           push == Push(kind, id, reaction)
<1>0. IsServer(server)
  BY AloneIs
<1>1. server.messages[id] \in Message
  BY <1>0, ServerIs
<1>2. reaction \in {Cleared, Liked} /\ reaction \in Said
  BY DEF Said, Body
<1>3. Retouch(peer, id, kind, m, reaction)
  BY DEF ToggleReaction
<1> HIDE DEF reaction
<1>4. m \in Message /\ m.scheduled = server.messages[id].scheduled
  BY <1>1, <1>2 DEF Message
<1>5. push.kind = kind /\ push.id = id /\ push.text = reaction
  BY DEF Push
<1>6. \A f \in Field : Of(m, f) = IF Concerns(push, f, id) THEN Says(push, f)
                                  ELSE Of(server.messages[id], f)
  <2> HIDE DEF push
  <2> QED
    BY <1>1, <1>5 DEF Message, Field, Of, Concerns, Says
<1>7. PICK e : e = push
  OBVIOUS
<1>8. kind \in Rewriting /\ kind # "message_edited"
  BY DEF Rewriting
<1> HIDE DEF m, kind
<1> QED
  BY <1>2, <1>3, <1>4, <1>6, <1>7, <1>8, RetouchCalm

LEMMA SetPinCalm ==
    ASSUME NEW peer, Alone(peer), IsServer(server'), NEW id \in DOMAIN server.messages,
           NEW pinned \in BOOLEAN, SetPin(peer, id, pinned)
    PROVE  ServerCalm(peer)' /\ ClientCalm(peer)'
<1> DEFINE text == IF pinned THEN PinnedText ELSE Cleared
           m == [server.messages[id] EXCEPT !.pinned = pinned]
           kind == "message_pin_updated"
           push == Push(kind, id, text)
<1>0. IsServer(server)
  BY AloneIs
<1>1. server.messages[id] \in Message
  BY <1>0, ServerIs
<1>2. m \in Message /\ m.scheduled = server.messages[id].scheduled
  BY <1>1 DEF Message
<1>3. text \in Said /\ ((text = PinnedText) <=> pinned)
  BY DEF Said, Body, PinnedText, Cleared
<1>4. Retouch(peer, id, kind, m, text)
  BY DEF SetPin
<1>5. push.kind = kind /\ push.id = id /\ push.text = text
  BY DEF Push
<1> HIDE DEF text
<1>6. \A f \in Field : Of(m, f) = IF Concerns(push, f, id) THEN Says(push, f)
                                  ELSE Of(server.messages[id], f)
  <2> HIDE DEF push
  <2> QED
    BY <1>1, <1>3, <1>5 DEF Message, Field, Of, Concerns, Says
<1>7. PICK e : e = push
  OBVIOUS
<1>8. kind \in Rewriting /\ kind # "message_edited" /\ kind # "message_reaction_updated"
  BY DEF Rewriting
<1> HIDE DEF m, kind
<1> QED
  BY <1>2, <1>3, <1>4, <1>6, <1>7, <1>8, RetouchCalm

LEMMA MarkReadCalm ==
    ASSUME NEW peer, Alone(peer), IsServer(server'), NEW id \in DOMAIN server.messages,
           MarkRead(peer, id)
    PROVE  ServerCalm(peer)' /\ ClientCalm(peer)'
<1> DEFINE effective == IF id > server.marker THEN id ELSE server.marker
           s    == [server EXCEPT !.marker = effective]
           push == Push("read_marker", effective, Cleared)
           c    == Change(server.changeSeq + 1, "read_marker", effective, Cleared)
<1>0. IsServer(server) /\ Unscheduled(server)
  BY AloneIs
<1>1. /\ id \in Id /\ id # NoId /\ server.marker \in Id /\ server.changeSeq \in Nat
      /\ Len(server.messages) \in Nat
  BY <1>0, ServerIs
<1>2. effective \in Id /\ effective # NoId
  BY <1>1, BoundsAssumption DEF Id, NoId
<1>3. /\ server' = IF effective = server.marker THEN server
                   ELSE Recorded(s, "read_marker", effective, Cleared)
      /\ Serves(peer, push) /\ UNCHANGED <<setting, member, clientVars>>
  BY DEF MarkRead
<1> HIDE DEF effective
<1>4. s = [messages |-> server.messages, changes |-> server.changes,
           changeSeq |-> server.changeSeq, marker |-> effective]
  BY <1>0 DEF IsServer
<1> HIDE DEF s
<1>5. Cleared \in Said /\ "read_marker" \in Kind
  BY DEF Said, Body, Kind
<1>6. push \in Told /\ push.kind = "read_marker" /\ push.id = effective
      /\ push.text = Cleared /\ Event(c)
  BY <1>2, <1>5, PushMade DEF Push
<1>7. Alike(c, push) /\ c.version = server.changeSeq + 1
  BY <1>6 DEF Alike, Change
<1>8. /\ server'.messages = server.messages /\ server'.marker = effective
      /\ \/ /\ server'.marker = server.marker /\ server'.changes = server.changes
            /\ server'.changeSeq = server.changeSeq
         \/ /\ c \in Logged /\ server'.changeSeq = server.changeSeq + 1
            /\ server'.changes = Trimmed(Append(server.changes, c))
  <2>1. CASE effective = server.marker
    BY <1>3, <2>1
  <2>2. CASE effective # server.marker
    <3>1. /\ s.messages = server.messages /\ s.changes = server.changes
          /\ s.changeSeq = server.changeSeq /\ s.marker = effective
      BY <1>4
    <3>2. IsServer(s)
      BY <1>0, <1>2, <1>4, MarkerGrows DEF Grows
    <3>3. server' = Recorded(s, "read_marker", effective, Cleared)
      BY <1>3, <2>2
    <3>4. Event(Change(s.changeSeq + 1, "read_marker", effective, Cleared))
      BY <1>6, <3>1
    <3>5. /\ Change(s.changeSeq + 1, "read_marker", effective, Cleared) \in Logged
          /\ server'.messages = s.messages /\ server'.marker = s.marker
          /\ server'.changeSeq = s.changeSeq + 1
          /\ server'.changes = Trimmed(Append(s.changes,
                Change(s.changeSeq + 1, "read_marker", effective, Cleared)))
      BY <1>2, <1>5, <3>2, <3>3, <3>4, RecordedIs
    <3> QED
      BY <3>1, <3>5
  <2> QED
    BY <2>1, <2>2
<1> HIDE DEF c, push
<1>9. \A f, i : Touches(push, f, i) <=> f = "marker"
  BY <1>2, <1>6 DEF Touches, IsMarker, Concerns, Brings
<1>10. \A f, i : f # "marker" => Now(server', f, i) = Now(server, f, i)
  BY <1>8 DEF Now
<1>11. \A f, i : f = "marker" =>
          Here(server', f, i) /\ Now(server', f, i) = effective /\ Tells(push, f) = effective
  BY <1>6, <1>8 DEF Now, Here, Tells
<1>12. Turns(server, server', push)
  <2>1. Len(server'.messages) = Len(server.messages)
    BY <1>8
  <2>2. Len(server.messages) <= Len(server'.messages)
    BY <1>1, <2>1
  <2>3. \A i \in 1 .. Len(server'.messages) :
            i \in 1 .. Len(server.messages) \/ Brings(push, i)
    BY <2>1
  <2> QED
    BY <1>2, <1>8, <1>9, <1>10, <1>11, <2>2, <2>3 DEF Turns
<1>13. Logging(server, server', push)
  <2>1. CASE /\ server'.marker = server.marker /\ server'.changes = server.changes
             /\ server'.changeSeq = server.changeSeq
    <3>1. \A f, i : Now(server', f, i) = Now(server, f, i)
      BY <1>8, <2>1 DEF Now
    <3> QED
      BY <2>1, <3>1 DEF Logging
  <2>2. CASE /\ c \in Logged /\ server'.changeSeq = server.changeSeq + 1
             /\ server'.changes = Trimmed(Append(server.changes, c))
    BY <1>6, <1>7, <2>2 DEF Logging
  <2> QED
    BY <1>8, <2>1, <2>2
<1>14. Unscheduled(server')
  BY <1>0, <1>8 DEF Unscheduled
<1>15. push \in Told /\ Serves(peer, push) /\ UNCHANGED <<setting, member, clientVars>>
  BY <1>3, <1>6 DEF push
<1> QED
  BY <1>12, <1>13, <1>14, <1>15, MutationCalm--------------------------------------------------------------------------------
(* The client stays calm *)

\* Nothing that the server has, or that is to come, has changed.
LEMMA ServerStaysCalm ==
    ASSUME NEW peer, Alone(peer), UNCHANGED <<server, member>>,
           Coming(peer)' = Coming(peer)
    PROVE  ServerCalm(peer)'
  BY DEF Alone, ServerCalm

LEMMA FanOutCalm ==
    ASSUME NEW peer, Alone(peer), FanOut(peer)
    PROVE  ServerCalm(peer)' /\ ClientCalm(peer)'
<1>1. /\ pushes \in Seq(Told) /\ pending[peer] \in Seq(Told) /\ peer \in Peers /\ member = TRUE
      /\ pending \in [Peers -> Seq(Told)]
  BY AloneIs DEF Alone, SyncInv, PeersInv
<1>2. /\ pushes' = IF online THEN pushes \o pending[peer] ELSE pushes
      /\ pending'[peer] = <<>>
      /\ UNCHANGED <<server, member, online, request, reply, store>>
  BY <1>1 DEF FanOut
<1>3. CASE online
  <2>1. Coming(peer)' = Coming(peer)
    BY <1>1, <1>2, <1>3 DEF Coming
  <2>2. ServerCalm(peer)'
    BY <1>2, <2>1, ServerStaysCalm
  <2>3. ASSUME NEW r \in reply PROVE r.ahead <= Len(pushes')
    <3>1. r.ahead <= Len(pushes) /\ r.ahead \in Nat
      BY AloneIs DEF Alone, ClientCalm
    <3>2. Len(pushes') = Len(pushes) + Len(pending[peer])
          /\ Len(pushes) \in Nat /\ Len(pending[peer]) \in Nat
      BY <1>1, <1>2, <1>3
    <3> QED
      BY <3>1, <3>2
  <2>4. ClientCalm(peer)'
    BY <1>2, <1>3, <2>1, <2>3 DEF Alone, ClientCalm, Idle
  <2> QED
    BY <2>2, <2>4
<1>4. CASE ~ online
  <2>1. /\ pushes = <<>> /\ Idle
        /\ store.known => Cold(server, store, store.cursor, store.version, <<>>)
    BY <1>4 DEF Alone, ClientCalm
  <2>2. pushes' = <<>> /\ Coming(peer)' = <<>>
    BY <1>2, <1>4, <2>1 DEF Coming
  <2>3. Current(server, <<>>)
    BY DEF Current
  <2>4. ServerCalm(peer)'
    BY <1>2, <2>2, <2>3 DEF Alone, ServerCalm
  <2>5. ClientCalm(peer)'
    BY <1>2, <1>4, <2>1, <2>2 DEF ClientCalm, Idle
  <2> QED
    BY <2>4, <2>5
<1> QED
  BY <1>3, <1>4

LEMMA AsksCalm ==
    ASSUME NEW peer, Alone(peer), Login \/ AskFull \/ AskPage
    PROVE  ServerCalm(peer)' /\ ClientCalm(peer)'
<1>1. UNCHANGED <<setting, server, member, pending, pushes, reply, store>> /\ Idle /\ online' = TRUE
  BY DEF Login, AskFull, AskPage, Alone, SyncInv, PeersInv
<1>2. Coming(peer)' = Coming(peer)
  BY <1>1 DEF Coming
<1>3. ServerCalm(peer)'
  BY <1>1, <1>2, ServerStaysCalm
<1>4. request' # {} /\ reply' = {}
  BY <1>1 DEF Login, AskFull, AskPage, Ask, Idle
<1>5. ASSUME NEW r \in request'
      PROVE  /\ r.kind = "page" => Settled(server, store, Coming(peer))
             /\ r.kind = "since" => Cold(server, store, r.cursor, r.version, Coming(peer))
  <2>1. CASE Login
    <3>1. r = [kind |-> IF store.known THEN "since" ELSE "full", cursor |-> store.cursor,
               version |-> store.version]
      BY <2>1 DEF Login, Ask
    <3>2. store.known => Cold(server, store, store.cursor, store.version, <<>>)
      BY <2>1 DEF Login, Alone, ClientCalm
    <3> QED
      BY <3>1, <3>2, ColdAny
  <2>2. CASE AskFull
    BY <2>2 DEF AskFull, Ask
  <2>3. CASE AskPage
    <3>1. r.kind = "page"
      BY <2>3 DEF AskPage, Ask
    <3>2. Settled(server, store, Coming(peer))
      BY <2>3 DEF AskPage, Alone, ClientCalm
    <3> QED
      BY <3>1, <3>2
  <2> QED
    BY <2>1, <2>2, <2>3
<1>6. ClientCalm(peer)'
  BY <1>1, <1>2, <1>4, <1>5 DEF ClientCalm, Idle
<1> QED
  BY <1>3, <1>6

\* With nothing to release, serving an answer changes nothing on the server.
LEMMA NothingDue ==
    ASSUME NEW s, IsServer(s), Unscheduled(s)
    PROVE  Due(s) = {} /\ Released(s, {}) = s
<1>1. Due(s) = {}
  BY ServerIs DEF Due, Unscheduled
<1> QED
  BY <1>1, ReleasedIs

LEMMA ServeSyncCalm ==
    ASSUME NEW peer, Alone(peer), NEW due \in SUBSET Due(server), ServeSync(due)
    PROVE  ServerCalm(peer)' /\ ClientCalm(peer)'
<1>1. /\ IsServer(server) /\ Unscheduled(server) /\ Undelivering(server)
      /\ Current(server, server.changes) /\ member = TRUE
  BY AloneIs
<1>2. server' = server
  BY <1>1, NothingDue DEF ServeSync
<1>3. UNCHANGED <<member, pending, online, pushes, store>> /\ request # {} /\ request' = {}
  BY DEF ServeSync
<1>4. Coming(peer)' = Coming(peer)
  BY <1>3 DEF Coming
<1>5. ServerCalm(peer)'
  BY <1>2, <1>3, <1>4, ServerStaysCalm
<1>6. reply' = {[kind |-> r.kind, descriptors |-> Answer(server, r),
                 ahead |-> Len(pushes)] : r \in request}
  BY <1>2 DEF ServeSync, Overtaking, Alone
<1>7. ASSUME NEW r \in request
      PROVE  AnswerFits(server, store, r.kind, Answer(server, r), Coming(peer), Len(pushes))
  <2>1. /\ r.kind \in Asked /\ r.cursor \in Id /\ r.version \in Nat
        /\ r.kind = "page" => PageSize # 0
    BY DEF Alone, SyncInv, WireInv, Request
  <2>2. /\ r.kind = "page" => Settled(server, store, Coming(peer))
        /\ r.kind = "since" => Cold(server, store, r.cursor, r.version, Coming(peer))
    BY DEF Alone, ClientCalm
  <2>3. CASE r.kind = "full"
    <3> DEFINE d == Descriptor(server, Visible(server), <<>>)
    <3>1. Answer(server, r) = {d}
      BY <1>1, <2>3 DEF Answer
    <3>2. /\ Lasts(server, d, Coming(peer), Len(pushes))
          /\ \A id \in 1 .. Len(server.messages) : Lists(d, id)
      BY <1>1, FullServed
    <3> HIDE DEF d
    <3>3. FullFits(server, d, Coming(peer), Len(pushes))
      BY <3>2 DEF FullFits
    <3> QED
      BY <2>3, <3>1, <3>3 DEF AnswerFits
  <2>4. CASE r.kind = "page"
    <3> DEFINE d == DescriptorPage(server, r.cursor)
    <3>1. Answer(server, r) = {d}
      BY <1>1, <2>4 DEF Answer
    <3>2. Describes(d, server)
      BY <1>1, <2>1, <2>4, PageDescriptorIs
    <3> HIDE DEF d
    <3>3. Lasts(server, d, Coming(peer), Len(pushes))
      BY <3>2, DescribesLasts
    <3> QED
      BY <2>2, <2>4, <3>1, <3>3 DEF AnswerFits
  <2>5. CASE r.kind = "since"
    <3>1. Answer(server, r) = DescriptorSince(server, r.cursor, r.version)
      BY <1>1, <2>5 DEF Answer
    <3>2. AnswerFits(server, store, "since", DescriptorSince(server, r.cursor, r.version),
                     Coming(peer), Len(pushes))
      BY <1>1, <2>1, <2>2, <2>5, SinceServed
    <3> QED
      BY <2>5, <3>1, <3>2
  <2> QED
    BY <2>1, <2>3, <2>4, <2>5 DEF Asked
<1>8. online = TRUE
  BY <1>3 DEF Alone, ClientCalm, Idle, SyncInv, PeersInv
<1>9. ASSUME NEW r \in reply'
      PROVE  /\ r.ahead <= Len(pushes)
             /\ AnswerFits(server, store, r.kind, r.descriptors, Coming(peer), r.ahead)
  <2>1. PICK a \in request : r = [kind |-> a.kind, descriptors |-> Answer(server, a),
                                  ahead |-> Len(pushes)]
    BY <1>6
  <2>2. pushes \in Seq(Told)
    BY AloneIs
  <2>3. Len(pushes) <= Len(pushes)
    BY <2>2
  <2>4. r.ahead = Len(pushes) /\ r.kind = a.kind /\ r.descriptors = Answer(server, a)
    BY <2>1
  <2> QED
    BY <1>7, <2>3, <2>4
<1>10. reply' # {}
  BY <1>3, <1>6
<1>11. ClientCalm(peer)'
  BY <1>2, <1>3, <1>4, <1>8, <1>9, <1>10 DEF ClientCalm, Idle
<1> QED
  BY <1>5, <1>11

LEMMA ApplyReplyCalm ==
    ASSUME NEW peer, Alone(peer), ApplyReply
    PROVE  ServerCalm(peer)' /\ ClientCalm(peer)'
<1>1. PICK r \in reply : r.ahead = 0 /\ store' = AnswerApplied(store, r.kind, r.descriptors)
  BY DEF ApplyReply
<1>2. UNCHANGED <<server, member, pending, online, pushes, request>> /\ reply' = {}
  BY DEF ApplyReply
<1>3. Coming(peer)' = Coming(peer)
  BY <1>2 DEF Coming
<1>4. ServerCalm(peer)'
  BY <1>2, <1>3, ServerStaysCalm
<1>5. online = TRUE /\ request = {}
  BY <1>1 DEF Alone, ClientCalm, Idle, SyncInv, PeersInv, WireInv
<1>6. r.kind \in Asked /\ r.descriptors \in SUBSET Answered /\ store \in Copy
  BY AloneIs
<1>7. AnswerFits(server, store, r.kind, r.descriptors, Coming(peer), 0)
  BY <1>1 DEF Alone, ClientCalm
<1>8. \A k \in 1 .. Len(Coming(peer)) : k > 0
  OBVIOUS
<1>9. Settled(server, store', Coming(peer))
  BY <1>1, <1>6, <1>7, <1>8, AnswerSettles
<1>10. ClientCalm(peer)'
  BY <1>2, <1>3, <1>5, <1>9 DEF ClientCalm, Idle
<1> QED
  BY <1>4, <1>10

LEMMA ApplyPushCalm ==
    ASSUME NEW peer, Alone(peer), ApplyPush
    PROVE  ServerCalm(peer)' /\ ClientCalm(peer)'
<1>1. /\ pushes # <<>> /\ \A r \in reply : r.ahead > 0
      /\ store' = PushApplied(store, Head(pushes)) /\ pushes' = Tail(pushes)
      /\ reply' = {[r EXCEPT !.ahead = r.ahead - 1] : r \in reply}
      /\ UNCHANGED <<server, member, pending, online, request>>
  BY DEF ApplyPush, Overtaking, Alone
<1>2. /\ pushes \in Seq(Told) /\ pending[peer] \in Seq(Told) /\ store \in Copy
      /\ Current(server, Coming(peer)) /\ Coming(peer) \in Seq(Told)
  BY AloneIs
<1>3. Head(Coming(peer)) = Head(pushes) /\ Coming(peer)' = Tail(Coming(peer))
      /\ Coming(peer) # <<>>
  <2>1. PICK a \in Seq(Told), b \in Seq(Told) : a = pushes /\ b = pending[peer]
    BY <1>2
  <2>2. a # <<>>
    BY <1>1, <2>1
  <2>3. Head(a \o b) = Head(a) /\ Tail(a \o b) = Tail(a) \o b /\ a \o b # <<>>
    BY <2>2
  <2>4. Coming(peer) = a \o b /\ Coming(peer)' = Tail(a) \o b
    BY <1>1, <2>1 DEF Coming
  <2> QED
    BY <2>1, <2>3, <2>4
<1>4. PICK q \in Seq(Told) : q = Coming(peer)
  BY <1>2
<1>5. /\ q # <<>> /\ Current(server, q) /\ store' = PushApplied(store, Head(q))
      /\ Coming(peer)' = Tail(q)
  BY <1>1, <1>2, <1>3, <1>4
<1>6. ServerCalm(peer)'
  <2>1. Current(server, Tail(q))
    BY <1>5, CurrentTail
  <2> QED
    BY <1>1, <1>5, <2>1 DEF Alone, ServerCalm
<1>7. online = TRUE
  BY <1>1 DEF Alone, ClientCalm, SyncInv, PeersInv
<1>8. Settled(server, store, q) => Settled(server, store', Tail(q))
  BY <1>2, <1>5, SettledPush
<1>9. ASSUME NEW r \in request
      PROVE  /\ r.kind = "page" => Settled(server, store', Tail(q))
             /\ r.kind = "since" => Cold(server, store', r.cursor, r.version, Tail(q))
  <2>1. /\ r.kind = "page" => Settled(server, store, q)
        /\ r.kind = "since" => Cold(server, store, r.cursor, r.version, q)
    BY <1>4 DEF Alone, ClientCalm
  <2>2. Cold(server, store, r.cursor, r.version, q) =>
            Cold(server, store', r.cursor, r.version, Tail(q))
    BY <1>2, <1>5, ColdPush
  <2> QED
    BY <1>8, <2>1, <2>2
<1>10. ASSUME NEW r \in reply'
       PROVE  /\ r.ahead <= Len(pushes')
              /\ AnswerFits(server, store', r.kind, r.descriptors, Tail(q), r.ahead)
  <2>1. PICK w \in reply : r = [w EXCEPT !.ahead = w.ahead - 1]
    BY <1>1
  <2>2. w \in Reply /\ w.kind \in Asked /\ w.ahead \in Nat
    BY DEF Alone, SyncInv, WireInv, Reply
  <2>3. r.ahead = w.ahead - 1 /\ r.kind = w.kind /\ r.descriptors = w.descriptors
    BY <2>1, <2>2 DEF Reply
  <2>4. /\ w.ahead <= Len(pushes)
        /\ AnswerFits(server, store, w.kind, w.descriptors, q, w.ahead)
    BY <1>4 DEF Alone, ClientCalm
  <2>5. w.ahead >= 1
    BY <1>1, <2>2
  <2>6. AnswerFits(server, store', w.kind, w.descriptors, Tail(q), w.ahead - 1)
    BY <1>2, <1>5, <2>2, <2>4, <2>5, AnswerFitsPush
  <2>7. Len(pushes') = Len(pushes) - 1 /\ Len(pushes) \in Nat
    BY <1>1, <1>2, TailIs
  <2> QED
    BY <2>2, <2>3, <2>4, <2>6, <2>7
<1>11. Idle' => Settled(server, store', Tail(q))
  <2>1. Idle' => Idle
    BY <1>1 DEF Idle
  <2>2. Idle => Settled(server, store, q)
    BY <1>4, <1>7 DEF Alone, ClientCalm
  <2> QED
    BY <1>8, <2>1, <2>2
<1>12. ClientCalm(peer)'
  BY <1>1, <1>5, <1>7, <1>9, <1>10, <1>11 DEF ClientCalm
<1> QED
  BY <1>6, <1>12

LEMMA VersionWithin ==
    ASSUME NEW peer, Alone(peer)
    PROVE  store.cursor <= Len(server.messages) /\ store.version <= server.changeSeq
<1>1. store.version <= server.changeSeq
  BY DEF Alone, SyncInv, StoreInv
<1>2. store.cursor <= Len(server.messages)
  <2>1. /\ Len(server.messages) \in Nat /\ DOMAIN server.messages = 1 .. Len(server.messages)
    BY AloneIs, ServerIs
  <2>2. CASE store.cursor = NoId
    BY <2>1, <2>2 DEF NoId
  <2>3. CASE store.cursor # NoId
    <3>1. Shows(server, store.cursor)
      BY <2>3 DEF Alone, SyncInv, StoreInv, CursorHeld, Holds
    <3> QED
      BY <2>1, <3>1 DEF Shows
  <2> QED
    BY <2>2, <2>3
<1> QED
  BY <1>1, <1>2

LEMMA DisconnectCalm ==
    ASSUME NEW peer, Alone(peer), Disconnect
    PROVE  ServerCalm(peer)' /\ ClientCalm(peer)'
<1>1. online /\ Idle /\ pushes = <<>> /\ pending[peer] = <<>>
  BY AloneIs DEF Disconnect, Drops, Alone, AtRest
<1>2. /\ online' = FALSE /\ request' = {} /\ reply' = {} /\ pushes' = <<>>
      /\ UNCHANGED <<server, member, pending, store>>
  <2>1. PICK n \in 0 .. Len(pushes) : pushes' = SubSeq(pushes, 1, n)
                                      /\ reply' = {r \in reply : r.ahead <= n}
    BY DEF Disconnect
  <2>2. n = 0
    BY <1>1
  <2>3. SubSeq(<<>>, 1, 0) = <<>>
    OBVIOUS
  <2> QED
    BY <1>1, <2>1, <2>2, <2>3 DEF Disconnect, Idle
<1>3. Coming(peer) = <<>> /\ Coming(peer)' = <<>>
  BY <1>1, <1>2 DEF Coming
<1>4. ServerCalm(peer)'
  BY <1>2, <1>3, ServerStaysCalm
<1>5. Settled(server, store, <<>>)
  BY <1>1, <1>3 DEF Alone, ClientCalm
<1>6. Cold(server, store, store.cursor, store.version, <<>>)
  BY <1>5, VersionWithin, SettledCold
<1>7. ClientCalm(peer)'
  BY <1>2, <1>6 DEF ClientCalm, Idle
<1> QED
  BY <1>4, <1>7--------------------------------------------------------------------------------
(* After one more login *)

LEMMA SameEntry ==
    ASSUME NEW a \in Entry, NEW b \in Entry, a.id = b.id, \A f \in Field : Of(a, f) = Of(b, f)
    PROVE  a = b
<1>1. /\ Of(a, "text") = Of(b, "text") /\ Of(a, "deleted") = Of(b, "deleted")
      /\ Of(a, "reaction") = Of(b, "reaction") /\ Of(a, "pinned") = Of(b, "pinned")
  BY DEF Field
<1>2. a.text = b.text /\ a.deleted = b.deleted /\ a.reaction = b.reaction /\ a.pinned = b.pinned
  BY <1>1 DEF Of
<1> QED
  BY <1>2 DEF Entry

\* Up to date, with nothing to come, is the same as on the server.
LEMMA SettledShows ==
    ASSUME NEW s, IsServer(s), Unscheduled(s), NEW st \in Copy, Settled(s, st, <<>>)
    PROVE  ToSet(st.held) = ToSet(Visible(s)) /\ st.marker = s.marker
<1>1. \A f, id : ~ Later(<<>>, 0, f, id)
  BY DEF Later
<1>2. \A f \in Place, id \in Id : \A x \in Values(st.held, st.marker, f, id) :
          Here(s, f, id) /\ x = Now(s, f, id)
  BY <1>1 DEF Settled, Fits
<1>3. st.marker = s.marker
  <2>1. "marker" \in Place /\ NoId \in Id
    BY BoundsAssumption DEF Place, Id, NoId
  <2>2. st.marker \in Values(st.held, st.marker, "marker", NoId)
    BY DEF Values
  <2> QED
    BY <1>2, <2>1, <2>2 DEF Now
<1>4. /\ Visible(s) \in Seq(Entry)
      /\ \A k \in 1 .. Len(Visible(s)) :
            LET m == Visible(s)[k] IN
            m.id \in 1 .. Len(s.messages) /\ \A f \in Field : Of(m, f) = Of(s.messages[m.id], f)
      /\ \A id : Shows(s, id) => \E k \in 1 .. Len(Visible(s)) : Visible(s)[k].id = id
  BY VisibleIs
<1>5. \A m : m \in ToSet(Visible(s)) <=> \E k \in 1 .. Len(Visible(s)) : m = Visible(s)[k]
  BY <1>4 DEF ToSet
<1>6. \A m \in ToSet(Visible(s)) :
          /\ m \in Entry /\ m.id \in 1 .. Len(s.messages)
          /\ \A f \in Field : Of(m, f) = Of(s.messages[m.id], f)
  BY <1>4, <1>5
<1>7. \A m \in ToSet(st.held) : m \in Entry
  <2>1. \A i \in 1 .. Len(st.held) : st.held[i] \in Entry
    BY CopyIs
  <2>2. \A m \in ToSet(st.held) : \E i \in 1 .. Len(st.held) : m = st.held[i]
    BY Elements
  <2> QED
    BY <2>1, <2>2
<1>8. \A m \in ToSet(st.held) :
          /\ m.id \in 1 .. Len(s.messages)
          /\ \A f \in Field : Of(m, f) = Of(s.messages[m.id], f)
  <2> SUFFICES ASSUME NEW m \in ToSet(st.held), NEW f \in Field
               PROVE  m.id \in 1 .. Len(s.messages) /\ Of(m, f) = Of(s.messages[m.id], f)
    BY DEF Field
  <2>1. m.id \in Id /\ f \in Place /\ f # "marker"
    BY <1>7, BoundsAssumption DEF Entry, Id, Place, Field
  <2>2. Of(m, f) \in Values(st.held, st.marker, f, m.id)
    BY <2>1 DEF Values
  <2> QED
    BY <1>2, <2>1, <2>2 DEF Here, Now
<1>9. ASSUME NEW m \in ToSet(st.held) PROVE m \in ToSet(Visible(s))
  <2>1. m.id \in 1 .. Len(s.messages) /\ m \in Entry
    BY <1>7, <1>8
  <2>2. Shows(s, m.id)
    BY <2>1, ServerIs DEF Shows, Unscheduled
  <2>3. PICK v \in ToSet(Visible(s)) : v.id = m.id
    BY <1>4, <1>5, <2>2
  <2>4. v \in Entry /\ \A f \in Field : Of(m, f) = Of(v, f)
    BY <1>6, <1>8, <2>3
  <2>5. m = v
    BY <2>1, <2>3, <2>4, SameEntry
  <2> QED
    BY <2>5
<1>10. ASSUME NEW v \in ToSet(Visible(s)) PROVE v \in ToSet(st.held)
  <2>1. v \in Entry /\ v.id \in 1 .. Len(s.messages)
    BY <1>6
  <2>2. Holds(st, v.id)
    <3>1. \A k : k \notin 1 .. Len(<<>>)
      OBVIOUS
    <3> QED
      BY <2>1, <3>1 DEF Settled
  <2>3. PICK m \in ToSet(st.held) : m.id = v.id
    BY <2>2 DEF Holds
  <2>4. m \in Entry /\ \A f \in Field : Of(m, f) = Of(v, f)
    BY <1>6, <1>7, <1>8, <2>3
  <2>5. m = v
    BY <2>1, <2>3, <2>4, SameEntry
  <2> QED
    BY <2>5
<1> QED
  BY <1>3, <1>9, <1>10

LEMMA CalmReconciles ==
    ASSUME NEW peer, Peers = {peer}, SyncInv, Calm(peer)
    PROVE  SyncReconciles
<1> SUFFICES ASSUME setting = {}, AtRest, member, store.known
             PROVE  /\ ToSet(Resynced.held) = ToSet(Visible(server))
                    /\ Resynced.marker = server.marker
  BY DEF SyncReconciles
<1> DEFINE ds == DescriptorSince(server, store.cursor, store.version)
<1>1. Alone(peer)
  BY DEF Alone, Calm
<1>2. /\ IsServer(server) /\ Unscheduled(server) /\ Undelivering(server)
      /\ Current(server, server.changes) /\ member = TRUE
      /\ store \in Copy /\ store.cursor \in Id /\ store.version \in Nat
  BY <1>1, AloneIs
<1>3. Idle /\ Coming(peer) = <<>>
  BY DEF AtRest, Coming
<1>4. Cold(server, store, store.cursor, store.version, <<>>)
  <2>1. CASE online
    <3>1. Settled(server, store, <<>>)
      BY <1>1, <1>3, <2>1 DEF Alone, ClientCalm
    <3> QED
      BY <1>1, <3>1, VersionWithin, SettledCold
  <2>2. CASE ~ online
    BY <1>1, <2>2 DEF Alone, ClientCalm
  <2> QED
    BY <2>1, <2>2
<1>5. AnswerFits(server, store, "since", ds, <<>>, 0)
  BY <1>2, <1>4, SinceServed
<1>6. ds \in SUBSET Answered /\ \A d \in ds : WithinVersion(d, server.changeSeq)
  <2>1. PICK r : r = [kind |-> "since", cursor |-> store.cursor, version |-> store.version]
    OBVIOUS
  <2>2. r \in Request
    BY <1>2, <2>1 DEF Request, Asked
  <2>3. Answer(server, r) = ds
    BY <1>2, <2>1 DEF Answer
  <2> HIDE DEF ds
  <2> QED
    BY <1>2, <2>2, <2>3, AnswerIs DEF Timely
<1>7. Resynced = AnswerApplied(store, "since", ds)
  BY DEF Resynced
<1> HIDE DEF ds
<1>8. "since" \in Asked
  BY DEF Asked
<1>9. Settled(server, Resynced, <<>>)
  <2>1. \A k \in 1 .. Len(<<>>) : k > 0
    OBVIOUS
  <2> QED
    BY <1>2, <1>5, <1>6, <1>7, <1>8, <2>1, AnswerSettles
<1>10. Resynced \in Copy
  <2>1. CursorHeld(store) /\ store.version <= server.changeSeq /\ server.changeSeq \in Nat
    BY <1>2, ServerIs DEF SyncInv, StoreInv
  <2> QED
    BY <1>2, <1>6, <1>7, <1>8, <2>1, AnswerAppliedIs
<1>11. PICK st \in Copy : st = Resynced
  BY <1>10
<1> QED
  BY <1>2, <1>9, <1>11, SettledShows

LEMMA CalmInit ==
    ASSUME NEW peer, Peers = {peer}, Init
    PROVE  Calm(peer)
<1> SUFFICES ASSUME setting = {} PROVE ServerCalm(peer) /\ ClientCalm(peer)
  BY DEF Calm
<1>1. /\ member = TRUE /\ server.messages = <<>> /\ server.changes = <<>>
      /\ pending[peer] = <<>> /\ pushes = <<>> /\ request = {} /\ reply = {} /\ online = FALSE
  BY DEF Init, JoinsLate
<1>2. store.known = FALSE
  BY DEF Init, EmptyStore
<1>3. \A k : k \notin 1 .. Len(<<>>)
  OBVIOUS
<1>4. Coming(peer) = <<>>
  BY <1>1 DEF Coming
<1>5. Current(server, <<>>)
  BY <1>3 DEF Current
<1>6. ServerCalm(peer)
  BY <1>1, <1>3, <1>4, <1>5 DEF ServerCalm, Unscheduled, Undelivering
<1>7. ClientCalm(peer)
  BY <1>1, <1>2 DEF ClientCalm, Idle
<1> QED
  BY <1>6, <1>7

LEMMA PeerCalm ==
    ASSUME NEW peer, Alone(peer), SyncInv',
           \/ DispatchSend(peer) \/ DispatchCommand(peer) \/ DispatchForward(peer)
           \/ DispatchEdit(peer) \/ DispatchDelete(peer) \/ DispatchRead(peer)
           \/ DispatchReaction(peer) \/ DispatchPin(peer)
           \/ AddParticipant(peer) \/ FanOut(peer)
    PROVE  ServerCalm(peer)' /\ ClientCalm(peer)'
<1>0. IsServer(server')
  BY DEF SyncInv
<1>1. CASE DispatchSend(peer)
  <2>1. PICK text \in Text : SendMessage(peer, text) \/ ScheduleMessage(peer, text)
    BY <1>1 DEF DispatchSend
  <2>2. text \in Body /\ ~ ScheduleMessage(peer, text)
    BY DEF Body, ScheduleMessage, Scheduling, Alone
  <2> QED
    BY <1>0, <2>1, <2>2, SendMessageCalm
<1>2. CASE DispatchCommand(peer)
  BY <1>2 DEF DispatchCommand, ServiceCommand, Commanding, Alone
<1>3. CASE DispatchForward(peer)
  BY <1>0, <1>3, ForwardMessageCalm DEF DispatchForward
<1>4. CASE DispatchEdit(peer)
  BY <1>0, <1>4, EditMessageCalm DEF DispatchEdit
<1>5. CASE DispatchDelete(peer)
  BY <1>0, <1>5, DeleteMessageCalm DEF DispatchDelete
<1>6. CASE DispatchRead(peer)
  BY <1>0, <1>6, MarkReadCalm DEF DispatchRead
<1>7. CASE DispatchReaction(peer)
  BY <1>0, <1>7, ToggleReactionCalm DEF DispatchReaction
<1>8. CASE DispatchPin(peer)
  BY <1>0, <1>8, SetPinCalm DEF DispatchPin
<1>9. CASE AddParticipant(peer)
  BY <1>9, AloneIs DEF AddParticipant
<1>10. CASE FanOut(peer)
  BY <1>10, FanOutCalm
<1> QED
  BY <1>1, <1>2, <1>3, <1>4, <1>5, <1>6, <1>7, <1>8, <1>9, <1>10

LEMMA CalmStep ==
    ASSUME NEW peer, Peers = {peer}, SyncInv, SyncInv', Calm(peer), [Next]_vars
    PROVE  Calm(peer)'
<1>1. setting' = setting
  BY DEF Next, DispatchSend, DispatchCommand, DispatchForward, DispatchEdit, DispatchDelete,
         DispatchRead, DispatchReaction, DispatchPin, SendMessage, ServiceCommand,
         ForwardMessage, ScheduleMessage, EditMessage, DeleteMessage, Retouch, ToggleReaction,
         SetPin, MarkRead, AddParticipant, FanOut, PeerSyncs, Login, AskFull, AskPage,
         ServeSync, ApplyReply, ApplyPush, Disconnect, vars
<1> SUFFICES ASSUME setting = {} PROVE ServerCalm(peer)' /\ ClientCalm(peer)'
  BY <1>1 DEF Calm
<1>2. Alone(peer)
  BY DEF Alone, Calm
<1>3. CASE UNCHANGED vars
  BY <1>3 DEF vars, Calm, ServerCalm, ClientCalm, Coming, Idle
<1>4. CASE \E p \in Peers :
              \/ DispatchSend(p) \/ DispatchCommand(p) \/ DispatchForward(p)
              \/ DispatchEdit(p) \/ DispatchDelete(p) \/ DispatchRead(p)
              \/ DispatchReaction(p) \/ DispatchPin(p)
              \/ AddParticipant(p) \/ FanOut(p)
  <2>1. \/ DispatchSend(peer) \/ DispatchCommand(peer) \/ DispatchForward(peer)
        \/ DispatchEdit(peer) \/ DispatchDelete(peer) \/ DispatchRead(peer)
        \/ DispatchReaction(peer) \/ DispatchPin(peer)
        \/ AddParticipant(peer) \/ FanOut(peer)
    BY <1>4
  <2> QED
    BY <1>2, <2>1, PeerCalm
<1>5. CASE PeerSyncs
  <2>1. Due(server) = {}
    BY <1>2, AloneIs, NothingDue
  <2> QED
    BY <1>5, <2>1 DEF PeerSyncs
<1>6. CASE Login \/ AskFull \/ AskPage \/ ApplyReply \/ ApplyPush \/ Disconnect
  BY <1>2, <1>6, AsksCalm, ApplyReplyCalm, ApplyPushCalm, DisconnectCalm
<1>7. CASE \E due \in SUBSET Due(server) : ServeSync(due)
  BY <1>2, <1>7, ServeSyncCalm
<1> QED
  BY <1>3, <1>4, <1>5, <1>6, <1>7 DEF Next--------------------------------------------------------------------------------
(* Theorems *)

LEMMA PeerKeeps ==
    ASSUME SyncInv, NEW p \in Peers,
           \/ DispatchSend(p) \/ DispatchCommand(p) \/ DispatchForward(p)
           \/ DispatchEdit(p) \/ DispatchDelete(p) \/ DispatchRead(p)
           \/ DispatchReaction(p) \/ DispatchPin(p)
           \/ AddParticipant(p) \/ FanOut(p)
    PROVE  SyncInv'
<1>1. CASE DispatchSend(p)
  <2>1. \A text \in Text : text \in Body
    BY DEF Body
  <2> QED
    BY <1>1, <2>1, SendMessageKeeps, ScheduleMessageKeeps DEF DispatchSend
<1>2. CASE DispatchCommand(p)
  BY <1>2, ServiceCommandKeeps DEF DispatchCommand
<1>3. CASE DispatchForward(p)
  BY <1>3, ForwardMessageKeeps DEF DispatchForward
<1>4. CASE DispatchEdit(p)
  BY <1>4, EditMessageKeeps DEF DispatchEdit
<1>5. CASE DispatchDelete(p)
  BY <1>5, DeleteMessageKeeps DEF DispatchDelete
<1>6. CASE DispatchRead(p)
  BY <1>6, MarkReadKeeps DEF DispatchRead
<1>7. CASE DispatchReaction(p)
  BY <1>7, ToggleReactionKeeps DEF DispatchReaction
<1>8. CASE DispatchPin(p)
  BY <1>8, SetPinKeeps DEF DispatchPin
<1>9. CASE AddParticipant(p)
  BY <1>9, AddParticipantKeeps
<1>10. CASE FanOut(p)
  BY <1>10, FanOutKeeps
<1> QED
  BY <1>1, <1>2, <1>3, <1>4, <1>5, <1>6, <1>7, <1>8, <1>9, <1>10

LEMMA StutterKeeps ==
    ASSUME SyncInv, UNCHANGED vars
    PROVE  SyncInv'
<1>1. UNCHANGED <<server, member, pending, online, pushes, request, reply, store>>
  BY DEF vars
<1> QED
  BY <1>1 DEF SyncInv, PeersInv, WireInv, StoreInv

LEMMA StepKeeps ==
    ASSUME SyncInv, [Next]_vars
    PROVE  SyncInv'
<1>1. ASSUME Next PROVE SyncInv'
  BY <1>1, PeerKeeps, PeerSyncsKeeps, AsksKeep, ApplyReplyKeeps, ApplyPushKeeps,
     DisconnectKeeps, ServeSyncKeeps DEF Next
<1> QED
  BY <1>1, StutterKeeps

\* What is sent, answered and held is always well formed, and never shows a message that
\* is still scheduled: the invariant of the theorems below.
THEOREM SyncStays == Spec => []SyncInv
<1> QED
  BY SyncInit, StepKeeps, PTL DEF Spec

\* The log is what was recorded last, numbered without a gap up to change_seq and no longer
\* than MAX_CONVERSATION_CHANGES (chat.py:1180-1202); the copy's cursor is a message it
\* holds, its version is none that is still to come, and one answer is awaited at most.
THEOREM TypeCorrect == Spec => []TypeOK
<1>1. SyncInv => TypeOK
  <2> SUFFICES ASSUME SyncInv PROVE TypeOK
    OBVIOUS
  <2>1. /\ DOMAIN server.changes = 1 .. Len(server.changes)
        /\ Numbered(server.changes, server.changeSeq)
    BY ServerIs DEF SyncInv, IsServer
  <2>2. ToSet(store.held) \subseteq Entry /\ CursorHeld(store)
        /\ store.version <= server.changeSeq
    <3>1. DOMAIN store.held = 1 .. Len(store.held)
          /\ \A i \in 1 .. Len(store.held) : store.held[i] \in Entry
      BY CopyIs DEF SyncInv, StoreInv
    <3> QED
      BY <3>1 DEF SyncInv, StoreInv, ToSet
  <2>3. Cardinality(request \cup reply) <= 1
    <3>1. \A x, y \in request \cup reply : x = y
      BY DEF SyncInv, WireInv, AtMostOne
    <3>2. CASE request \cup reply = {}
      BY <3>2, FS_EmptySet
    <3>3. CASE request \cup reply # {}
      <4>1. PICK x : request \cup reply = {x}
        BY <3>1, <3>3
      <4> QED
        BY <4>1, FS_Singleton
    <3> QED
      BY <3>2, <3>3
  <2> QED
    BY <2>1, <2>2, <2>3 DEF TypeOK, Numbered, CursorHeld
<1> QED
  BY SyncStays, <1>1, PTL

\* No copy ever holds a message that is still scheduled: neither a push, nor a sync, nor a
\* history page brings it "until release_due_scheduled"
\* (validate_composer_scheduled_silent.py:91), whatever else happens.
THEOREM ScheduledHidden == Spec => []ScheduledStaysHidden
<1>1. SyncInv => ScheduledStaysHidden
  BY DEF SyncInv, StoreInv, Shows, ScheduledStaysHidden
<1> QED
  BY SyncStays, <1>1, PTL

\* Undisturbed, with one session that mutates, a login "reconciles cached state to server
\* truth" (store_test.cpp:470), whatever logging out at rest, compaction of the log and pages
\* did to the copy: after the next incremental sync it shows every visible message as it is
\* now, and where the peer has read.  With two sessions it does not: sync_two_sessions.
THEOREM Reconciles ==
    ASSUME NEW peer, Peers = {peer}
    PROVE  Spec => []SyncReconciles
<1>1. Init => SyncInv /\ Calm(peer)
  BY SyncInit, CalmInit
<1>2. SyncInv /\ Calm(peer) /\ [Next]_vars => (SyncInv /\ Calm(peer))'
  <2> SUFFICES ASSUME SyncInv, Calm(peer), [Next]_vars PROVE SyncInv' /\ Calm(peer)'
    OBVIOUS
  <2>1. SyncInv'
    BY StepKeeps
  <2> QED
    BY <2>1, CalmStep
<1>3. SyncInv /\ Calm(peer) => SyncReconciles
  BY CalmReconciles
<1> QED
  BY <1>1, <1>2, <1>3, PTL DEF Spec
================================================================================
