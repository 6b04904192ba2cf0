------------------------------ MODULE SignInProofs ------------------------------
(***************************************************************************)
(* Lemmas about SignIn, with the limiter and the store: its actions keep   *)
(* its types and the invariants from which AdmittedBounded, CodeIsSpent,   *)
(* OneAccount and AnsweredSurvives follow.                                 *)
(***************************************************************************)
EXTENDS SignIn, FiniteSetTheorems, WellFoundedInduction, TLAPS

--------------------------------------------------------------------------------
(* Least and greatest numbers *)

Below == {p \in Nat \X Nat : p[1] < p[2]}

LEMMA LeastNumber ==
    ASSUME NEW T \in SUBSET Nat, T # {}
    PROVE  \E x \in T : \A y \in T : x <= y
<1>1. IsWellFoundedOn(Below, Nat)
  BY NatLessThanWellFounded DEF OpToRel, Below
<1>2. PICK x \in T : \A y \in T : ~ (<<y, x>> \in Below)
  BY <1>1, WFMin
<1>3. \A y \in T : y \in Nat /\ x \in Nat /\ ~ (y < x)
  BY <1>2 DEF Below
<1> QED
  BY <1>3

\* The element with the fewest above it has none above it.
LEMMA GreatestNumber ==
    ASSUME NEW T \in SUBSET Nat, IsFiniteSet(T), T # {}
    PROVE  \E x \in T : \A y \in T : y <= x
<1> DEFINE above(x) == {y \in T : y > x}
           sizes == {Cardinality(above(x)) : x \in T}
<1>1. \A x \in T : IsFiniteSet(above(x)) /\ Cardinality(above(x)) \in Nat
  BY FS_Subset, FS_CardinalityType
<1>2. PICK x \in T : \A y \in T : Cardinality(above(x)) <= Cardinality(above(y))
  <2>1. sizes \in SUBSET Nat /\ sizes # {}
    BY <1>1
  <2>2. PICK n \in sizes : \A m \in sizes : n <= m
    BY <2>1, LeastNumber
  <2> QED
    BY <2>2
<1> SUFFICES ASSUME NEW y \in T, ~ (y <= x) PROVE FALSE
  OBVIOUS
<1>3. above(y) \subseteq above(x) /\ y \in above(x) /\ y \notin above(y)
  <2>1. x \in Nat /\ y \in Nat /\ y > x
    OBVIOUS
  <2>2. \A z \in T : z > y => z > x
    <3>1. \A z \in T : z \in Nat
      OBVIOUS
    <3> QED
      BY <2>1, <3>1
  <2>3. ~ (y > y)
    BY <2>1
  <2> QED
    BY <2>1, <2>2, <2>3
<1>4. Cardinality(above(y)) < Cardinality(above(x))
  <2>1. /\ Cardinality(above(y)) <= Cardinality(above(x))
        /\ Cardinality(above(y)) # Cardinality(above(x))
    BY <1>1, <1>3, FS_Subset
  <2> QED
    BY <1>1, <2>1
<1> QED
  BY <1>1, <1>2, <1>4

LEMMA MinIsMember == ASSUME NEW T \in SUBSET Nat, T # {} PROVE Min(T) \in T
  BY LeastNumber DEF Min

LEMMA MaxIsMember == ASSUME NEW T \in SUBSET Nat, IsFiniteSet(T), T # {} PROVE Max(T) \in T
  BY GreatestNumber DEF Max

--------------------------------------------------------------------------------
(* The limiter *)

\* What a bucket holds counts, too.
AdmittedAndLeft == \A b \in DOMAIN buckets :
    buckets[b].tokens + buckets[b].admitted * Cost
        <= Burst + Rate * (buckets[b].refilled - buckets[b].opened + buckets[b].regained)

LimiterInv == LimiterTypeOK /\ AdmittedAndLeft

LEMMA LimiterBounds == LimiterInv => AdmittedBounded
<1> SUFFICES ASSUME LimiterInv, NEW b \in DOMAIN buckets
             PROVE  buckets[b].admitted * Cost <= Burst
                      + Rate * (buckets[b].refilled - buckets[b].opened + buckets[b].regained)
  BY DEF AdmittedBounded
<1> DEFINE taken == buckets[b].admitted * Cost
           gained == Rate * (buckets[b].refilled - buckets[b].opened + buckets[b].regained)
<1>1. buckets[b] \in Level
  BY DEF LimiterInv, LimiterTypeOK
<1>2. taken \in Int /\ gained \in Int /\ Burst \in Int
  BY <1>1, RateLimiterAssumption DEF Level
<1>3. buckets[b].tokens + taken <= Burst + gained
  BY DEF LimiterInv, AdmittedAndLeft
<1> HIDE DEF taken, gained
<1>4. taken <= Burst + gained
  BY <1>1, <1>2, <1>3 DEF Level
<1> QED
  BY <1>4 DEF taken, gained

LEMMA Distributes == \A r, m, n \in Int : r * (m + n) = r * m + r * n
  OBVIOUS

\* The tokens a request finds are no more than what was left and what came since.
LEMMA TokensGained ==
    ASSUME LimiterInv, NEW b \in Bucket, NEW now \in Nat
    PROVE  /\ Current(b, now) \in Level
           /\ Tokens(b, now) \in Nat
           /\ Tokens(b, now)
                 <= Current(b, now).tokens + Positive(now - Current(b, now).refilled) * Rate
<1> DEFINE c == Current(b, now)
           p == Positive(now - c.refilled)
<1>1. c \in Level
  BY RateLimiterAssumption DEF LimiterInv, LimiterTypeOK, Current, New, Level
<1>2. p \in Nat /\ p * Rate \in Nat /\ c.tokens \in Nat
  BY <1>1, RateLimiterAssumption DEF Level, Positive
<1>3. Tokens(b, now) = Least(Burst, c.tokens + p * Rate)
  BY DEF Tokens
<1> HIDE DEF c, p
<1>4. Tokens(b, now) \in Nat /\ Tokens(b, now) <= c.tokens + p * Rate
  BY <1>2, <1>3, RateLimiterAssumption DEF Least
<1> QED
  BY <1>1, <1>4 DEF c, p

LEMMA AcquireKeeps ==
    ASSUME LimiterInv, NEW b \in Bucket, NEW now \in Nat, Acquire(b, now)
    PROVE  LimiterInv'
<1> DEFINE old == Current(b, now)
           granted == IF Grants(b, now) THEN 1 ELSE 0
           back == Positive(old.refilled - now)
           on == Positive(now - old.refilled)
           new == [old EXCEPT !.tokens   = Tokens(b, now) - granted * Cost,
                              !.refilled = now,
                              !.admitted = @ + granted,
                              !.regained = @ + back]
<1>1. old \in Level /\ Tokens(b, now) \in Nat
      /\ Tokens(b, now) <= old.tokens + on * Rate
  BY TokensGained
<1>2. granted \in {0, 1} /\ granted * Cost \in Nat /\ granted * Cost <= Tokens(b, now)
  BY <1>1, RateLimiterAssumption DEF Grants
<1>3. back \in Nat /\ on \in Nat /\ on - back = now - old.refilled
  BY <1>1 DEF Level, Positive
<1>4. buckets' = Set(b, new)
  BY DEF Acquire
<1>5. new \in Level
  <2>1. /\ Tokens(b, now) - granted * Cost \in Nat
        /\ old.admitted + granted \in Nat /\ old.regained + back \in Nat
    BY <1>1, <1>2, <1>3 DEF Level
  <2> HIDE DEF granted, back, old
  <2> QED
    BY <1>1, <2>1 DEF Level
<1>6. old.tokens + old.admitted * Cost
        <= Burst + Rate * (old.refilled - old.opened + old.regained)
  <2>1. CASE b \in DOMAIN buckets
    BY <2>1 DEF Current, LimiterInv, AdmittedAndLeft
  <2>2. CASE b \notin DOMAIN buckets
    <3>1. old = New(now)
      BY <2>2 DEF Current
    <3>2. now - now + 0 = 0 /\ 0 * Cost = 0 /\ Rate * 0 = 0
      BY RateLimiterAssumption
    <3> QED
      BY <3>1, <3>2, RateLimiterAssumption DEF New
  <2> QED
    BY <2>1, <2>2
<1>7. new.tokens + new.admitted * Cost
        <= Burst + Rate * (new.refilled - new.opened + new.regained)
  <2> DEFINE a == old.refilled - old.opened + old.regained
             taken == old.admitted * Cost
  <2>1. new.refilled - new.opened + new.regained = a + on
    BY <1>1, <1>3 DEF Level
  <2>2. a \in Int /\ taken \in Int /\ Rate \in Int /\ Cost \in Int /\ Burst \in Int
        /\ old.tokens \in Int /\ old.admitted \in Int
    BY <1>1, RateLimiterAssumption DEF Level
  <2>3. Rate * (a + on) = Rate * a + on * Rate
    BY <1>3, <2>2, Distributes
  <2>4. new.admitted * Cost = taken + granted * Cost
    BY <1>1, <1>2, <2>2, Distributes
  <2>5. new.tokens = Tokens(b, now) - granted * Cost
    BY <1>1 DEF Level
  <2>6. old.tokens + taken <= Burst + Rate * a
    BY <1>6
  <2>7. on * Rate \in Int /\ Rate * a \in Int
    BY <1>3, <2>2
  <2> HIDE DEF a, taken, new, old, on, granted
  <2> QED
    BY <1>1, <1>2, <2>1, <2>2, <2>3, <2>4, <2>5, <2>6, <2>7
<1> HIDE DEF new
<1>8. /\ DOMAIN buckets' = DOMAIN buckets \cup {b}
      /\ \A x \in DOMAIN buckets' : buckets'[x] = IF x = b THEN new ELSE buckets[x]
  BY <1>4 DEF Set
<1>9. LimiterTypeOK'
  BY <1>5, <1>8 DEF LimiterInv, LimiterTypeOK
<1>10. AdmittedAndLeft'
  BY <1>7, <1>8 DEF LimiterInv, AdmittedAndLeft
<1> QED
  BY <1>9, <1>10 DEF LimiterInv

--------------------------------------------------------------------------------
(* The store *)

\* What is saved, or about to be, has no account that the memory has not.
Known(rows) == IsFiniteSet(rows) /\ \A f \in rows : f.kind = "account" => f \in memory

StoreInv ==
    /\ StoreTypeOK
    /\ Known(memory) /\ Known(Rows)
    /\ backend # "json" => file # Torn
    /\ \A h \in Saves : Known(saving[h].rows)

LEMMA SaveRecord ==
    ASSUME StoreInv, NEW h \in Saves
    PROVE  saving[h] \in Save /\ Known(saving[h].rows) /\ saving[h].rows \in SUBSET Fact
           /\ saving[h].fact \in Fact
  BY DEF StoreInv, StoreTypeOK, Saves, Save

LEMMA FactSets ==
    ASSUME StoreInv
    PROVE  memory \in SUBSET Fact /\ Rows \in SUBSET Fact /\ Known({}) /\ Known(Rows)
           /\ Known(memory) /\ (file # Torn => file = Rows)
<1>1. Known({})
  BY FS_EmptySet DEF Known
<1>2. Rows \in SUBSET Fact /\ (file # Torn => file = Rows)
  <2>1. file \in SUBSET Fact \/ file = Torn
    BY DEF StoreInv, StoreTypeOK
  <2>2. CASE file = Torn
    BY <2>2 DEF Rows
  <2>3. CASE file # Torn
    BY <2>1, <2>3 DEF Rows
  <2> QED
    BY <2>2, <2>3
<1> QED
  BY <1>1, <1>2 DEF StoreInv, StoreTypeOK

\* A step of a save that goes on.
LEMMA CrossingKeeps ==
    ASSUME StoreInv, NEW h \in Saves, NEW step \in {"taken", "opened", "deleted"},
           NEW rows \in SUBSET Fact, Known(rows)
    PROVE  /\ Crossing(h, step, rows) \in [Handler -> Save \cup {None}]
           /\ \A other \in Handler : Crossing(h, step, rows)[other] # None =>
                 /\ other \in Saves
                 /\ Known(Crossing(h, step, rows)[other].rows)
<1> USE NoneIsNoSave
<1>1. \A other \in Handler : Crossing(h, step, rows)[other] =
        IF other = h
        THEN [saving[h] EXCEPT !.step = step, !.rows = rows,
                               !.crossed = @ \/ Underway \ {h} # {}]
        ELSE IF other \in Underway THEN [saving[other] EXCEPT !.crossed = TRUE]
        ELSE saving[other]
  BY DEF Crossing
<1>2. ASSUME NEW other \in Handler
      PROVE  /\ Crossing(h, step, rows)[other] \in Save \cup {None}
             /\ Crossing(h, step, rows)[other] # None =>
                   /\ other \in Saves
                   /\ Known(Crossing(h, step, rows)[other].rows)
  <2>1. CASE other = h
    <3>1. saving[h] \in Save
      BY SaveRecord
    <3>2. [saving[h] EXCEPT !.step = step, !.rows = rows,
                            !.crossed = @ \/ Underway \ {h} # {}] \in Save
      BY <3>1 DEF Save
    <3>3. Crossing(h, step, rows)[h].rows = rows
      BY <1>1, <3>1 DEF Save, Saves
    <3> QED
      BY <1>1, <2>1, <3>2, <3>3
  <2>2. CASE other # h /\ other \in Underway
    <3>1. other \in Saves /\ saving[other] \in Save /\ Known(saving[other].rows)
      BY <2>2, SaveRecord DEF Underway
    <3>2. [saving[other] EXCEPT !.crossed = TRUE] \in Save
          /\ [saving[other] EXCEPT !.crossed = TRUE].rows = saving[other].rows
      BY <3>1 DEF Save
    <3> QED
      BY <1>1, <2>2, <3>1, <3>2
  <2>3. CASE other # h /\ other \notin Underway
    <3>1. Crossing(h, step, rows)[other] = saving[other]
      BY <1>1, <2>3
    <3> QED
      BY <3>1, SaveRecord DEF StoreInv, StoreTypeOK, Saves
  <2> QED
    BY <2>1, <2>2, <2>3
<1>3. Crossing(h, step, rows) \in [Handler -> Save \cup {None}]
  BY <1>2 DEF Crossing
<1> QED
  BY <1>2, <1>3

\* What a step of a save leaves, given what it leaves in the file.
LEMMA SavingKeeps ==
    ASSUME StoreInv, UNCHANGED <<backend, memory>>,
           NEW rows \in SUBSET Fact, Known(rows),
           file' = rows \/ (backend = "json" /\ file' = Torn),
           answered' \subseteq Fact, excused' \subseteq Fact,
           saving' \in [Handler -> Save \cup {None}],
           \A h \in Handler : saving'[h] # None => Known(saving'[h].rows)
    PROVE  StoreInv'
<1>1. StoreTypeOK'
  BY DEF StoreInv, StoreTypeOK
<1>2. Known(memory)'
  BY DEF StoreInv, Known
<1>3. Rows' = rows \/ Rows' = {}
  BY DEF Rows
<1>4. Known(Rows)'
  BY <1>3, FactSets DEF Known
<1>5. \A h \in Saves' : Known(saving[h].rows)'
  BY DEF Saves, Known
<1>6. (backend # "json" => file # Torn)'
  BY TornIsNoRows
<1> QED
  BY <1>1, <1>2, <1>4, <1>5, <1>6 DEF StoreInv

LEMMA TellsKeeps ==
    ASSUME StoreInv, NEW h \in Saves, Tells(h)
    PROVE  /\ answered' \subseteq Fact
           /\ saving' \in [Handler -> Save \cup {None}]
           /\ \A other \in Handler : saving'[other] # None => Known(saving'[other].rows)
<1>1. h \in Handler /\ saving' = [saving EXCEPT ![h] = None]
  BY DEF Tells, Saves
<1>2. \A other \in Handler : saving[other] # None => Known(saving[other].rows)
  BY SaveRecord DEF Saves
<1>3. saving \in [Handler -> Save \cup {None}] /\ answered \subseteq Fact
      /\ memory \subseteq Fact
  BY DEF StoreInv, StoreTypeOK
<1> QED
  BY <1>1, <1>2, <1>3 DEF Tells

LEMMA StoreStepKeeps ==
    ASSUME StoreInv, NEW h \in Handler, StoreStep(h)
    PROVE  StoreInv' /\ memory' = memory
<1> USE FactSets
<1>1. UNCHANGED <<backend, memory>> /\ h \in Saves
  BY DEF StoreStep, Take, Open, Write, Delete, Insert, Commit, Upsert, Fail, At, Saves,
         StoreInv, StoreTypeOK
<1>2. (file = Rows \/ (backend = "json" /\ file = Torn)) /\ answered \subseteq Fact /\ excused \subseteq Fact
      /\ memory \in SUBSET Fact
  BY DEF StoreInv, StoreTypeOK
<1>3. saving[h].rows \in SUBSET Fact /\ Known(saving[h].rows) /\ saving[h].fact \in Fact
  BY <1>1, SaveRecord
<1>4. CASE Take(h)
  <2>1. saving' = Crossing(h, "taken", memory) /\ UNCHANGED <<file, answered, excused>>
    BY <1>4 DEF Take
  <2> QED
    BY <1>1, <1>2, <2>1, CrossingKeeps, SavingKeeps
<1>5. CASE Open(h)
  <2>1. saving' = Crossing(h, "opened", saving[h].rows) /\ file' = {}
        /\ UNCHANGED <<answered, excused>>
    BY <1>5 DEF Open
  <2> QED
    BY <1>1, <1>2, <1>3, <2>1, CrossingKeeps, SavingKeeps
<1>6. CASE Write(h)
  <2>1. Tells(h) /\ excused' \subseteq excused \cup answered'
    BY <1>6 DEF Write, Lands
  <2>2. file' = saving[h].rows \/ (backend = "json" /\ file' = Torn)
    BY <1>6 DEF Write
  <2> QED
    BY <1>1, <1>2, <1>3, <2>1, <2>2, TellsKeeps, SavingKeeps
<1>7. CASE Delete(h)
  <2>1. saving' = Crossing(h, "deleted", {}) /\ file' = {} /\ UNCHANGED <<answered, excused>>
    BY <1>7 DEF Delete
  <2> QED
    BY <1>1, <1>2, <2>1, CrossingKeeps, SavingKeeps
<1>8. CASE Insert(h)
  <2>1. Tells(h) /\ file' = memory /\ excused' \subseteq excused
    BY <1>8 DEF Insert
  <2> QED
    BY <1>1, <1>2, <2>1, TellsKeeps, SavingKeeps
<1>9. CASE Commit(h)
  <2> DEFINE rows == {f \in saving[h].rows : f.kind # "key"}
  <2>1. Tells(h) /\ file' = rows /\ excused' \subseteq excused \cup answered'
    BY <1>9 DEF Commit, Lands
  <2>2. rows \in SUBSET Fact /\ Known(rows)
    BY <1>3, FS_Subset DEF Known
  <2> HIDE DEF rows
  <2> QED
    BY <1>1, <1>2, <2>1, <2>2, TellsKeeps, SavingKeeps
<1>10. CASE Upsert(h)
  <2> DEFINE rows == Rows \cup {saving[h].fact}
  <2>1. backend = "postgres" /\ saving[h].fact.kind \in {"session", "key"}
    BY <1>10 DEF Upsert, Single
  <2>2. rows \in SUBSET Fact /\ Known(rows)
    <3>1. IsFiniteSet(rows)
      BY FS_AddElement DEF Known
    <3> QED
      BY <1>3, <2>1, <3>1 DEF Known
  <2>3. file' = rows
    BY <1>10, <2>1 DEF Upsert, StoreInv
  <2>4. answered' \subseteq Fact /\ excused' \subseteq Fact
    BY <1>2, <1>3, <1>10 DEF Upsert
  <2>5. /\ saving' \in [Handler -> Save \cup {None}]
        /\ \A other \in Handler : saving'[other] # None => Known(saving'[other].rows)
    <3>1. saving' = [Crossing(h, "taken", {}) EXCEPT ![h] = None]
      BY <1>10 DEF Upsert
    <3>2. /\ Crossing(h, "taken", {}) \in [Handler -> Save \cup {None}]
          /\ \A other \in Handler : Crossing(h, "taken", {})[other] # None =>
                Known(Crossing(h, "taken", {})[other].rows)
      BY <1>1, CrossingKeeps
    <3> QED
      BY <3>1, <3>2
  <2> HIDE DEF rows
  <2> QED
    BY <1>1, <2>2, <2>3, <2>4, <2>5, SavingKeeps
<1>11. CASE Fail(h)
  <2>1. saving' = [saving EXCEPT ![h] = None] /\ file' = file /\ answered' = answered
        /\ excused' \subseteq excused \cup answered
    BY <1>11 DEF Fail
  <2>2. /\ saving' \in [Handler -> Save \cup {None}]
        /\ \A other \in Handler : saving'[other] # None => Known(saving'[other].rows)
    BY <2>1, SaveRecord DEF StoreInv, StoreTypeOK, Saves
  <2> QED
    BY <1>1, <1>2, <2>1, <2>2, SavingKeeps
<1> QED
  BY <1>1, <1>4, <1>5, <1>6, <1>7, <1>8, <1>9, <1>10, <1>11 DEF StoreStep

\* A handler changes the state and begins to save it.
LEMMA ChangeKeeps ==
    ASSUME StoreInv, NEW h \in Handler, NEW facts \in SUBSET Fact, IsFiniteSet(facts),
           \A f \in memory : f.kind = "account" => f \in facts,
           NEW fact \in Fact, Change(h, facts, fact), answered' \subseteq Fact
    PROVE  StoreInv'
<1> DEFINE save == [fact |-> fact, step |-> "begun", rows |-> {}, crossed |-> FALSE]
<1>1. save \in Save
  BY DEF Save
<1>2. memory' = facts /\ saving' = [saving EXCEPT ![h] = save]
      /\ UNCHANGED <<backend, file, excused>>
  BY DEF Change
<1> HIDE DEF save
<1>3. StoreTypeOK'
  BY <1>1, <1>2 DEF StoreInv, StoreTypeOK
<1>4. \A rows : Known(rows) => Known(rows)'
  BY <1>2 DEF Known
<1>5. Known(memory)'
  BY <1>2 DEF Known
<1>6. Known(Rows)' /\ (backend # "json" => file # Torn)'
  BY <1>2, <1>4 DEF StoreInv, Rows
<1>7. ASSUME NEW other \in Saves' PROVE Known(saving[other].rows)'
  <2>1. CASE other = h
    <3>1. saving'[other].rows = {}
      BY <1>2, <2>1 DEF StoreInv, StoreTypeOK, save
    <3> QED
      BY <3>1, FS_EmptySet DEF Known
  <2>2. CASE other # h
    <3>1. other \in Saves /\ saving'[other] = saving[other]
      BY <1>2, <2>2 DEF StoreInv, StoreTypeOK, Saves
    <3> QED
      BY <1>4, <3>1 DEF StoreInv
  <2> QED
    BY <2>1, <2>2
<1> QED
  BY <1>3, <1>5, <1>6, <1>7 DEF StoreInv

LEMMA ReloadKeeps ==
    ASSUME StoreInv, Reload
    PROVE  StoreInv' /\ (\A f \in memory' : f.kind = "account" => f \in memory)
<1>1. file = Rows /\ file' = file /\ Rows' = Rows /\ memory' = Loaded(Rows)
      /\ UNCHANGED <<backend, answered>> /\ excused' \subseteq excused \cup answered
      /\ saving' = [h \in Handler |-> None]
  BY DEF Reload, Rows
<1>2. memory' \in SUBSET Rows
  BY <1>1 DEF Loaded
<1>3. \A f \in Rows : f.kind = "account" => f \in memory'
  <2>1. "account" \in Kept[backend]
    BY StateStoreAssumption DEF StoreInv, StoreTypeOK, Kept
  <2> QED
    BY <1>1, <2>1 DEF Loaded
<1>4. IsFiniteSet(Rows) /\ IsFiniteSet(memory')
  BY <1>2, FactSets, FS_Subset DEF Known
<1>5. StoreTypeOK'
  BY <1>1, <1>2, FactSets DEF StoreInv, StoreTypeOK
<1>6. Known(memory)' /\ Known(Rows)'
  BY <1>1, <1>3, <1>4 DEF Known
<1>7. Saves' = {}
  BY <1>1 DEF Saves
<1>8. \A f \in memory' : f.kind = "account" => f \in memory
  BY <1>2, FactSets DEF Known
<1> QED
  BY <1>1, <1>5, <1>6, <1>7, <1>8 DEF StoreInv

LEMMA StoreInitInv == StoreInit => StoreInv
<1> SUFFICES ASSUME StoreInit PROVE StoreInv
  OBVIOUS
<1>1. StoreTypeOK /\ Saves = {} /\ Rows = {} /\ memory = {}
  BY DEF StoreInit, StoreTypeOK, Saves, Rows
<1>2. Known({})
  BY FS_EmptySet DEF Known
<1>3. file # Torn
  BY TornIsNoRows DEF StoreInit
<1> QED
  BY <1>1, <1>2, <1>3 DEF StoreInv

--------------------------------------------------------------------------------
(* Codes and accounts *)

\* A code that is there was never accepted, and tried wrongly as often as it counts.
CodesCount ==
    /\ \A p \in Phone : codes[p] # None =>
          /\ codes[p].number \in DOMAIN tries
          /\ tries[codes[p].number] = [right |-> 0, wrong |-> codes[p].attempts]
          /\ codes[p].attempts <= MaxAttempts
    /\ \A p, q \in Phone : (p # q /\ codes[p] # None /\ codes[q] # None) =>
          codes[p].number # codes[q].number

Creating(h, k) == (Step(h, "absent") \/ Step(h, "named")) /\ task[h].key = k

\* Whoever is about to create an account is alone with it, or known not to be.
CreatesAlone ==
    /\ \A h \in Handler, k \in Phone \cup Name :
          Creating(h, k) => k \in twins \/ Accounts(k) = {}
    /\ \A h, other \in Handler, k \in Phone \cup Name :
          (h # other /\ Creating(h, k) /\ Creating(other, k)) => k \in twins

\* Codes are for phones, names are registered.
OpFits == \A h \in Handler :
    task[h] # None => (task[h].key \in Phone <=> task[h].op # "register")

SignInInv ==
    /\ SignInTypeOK /\ LimiterInv /\ StoreInv
    /\ CodesCount /\ CodeIsSpent
    /\ CreatesAlone /\ OneAccount
    /\ OpFits

LEMMA AccountsKept ==
    ASSUME CreatesAlone, OneAccount, twins \subseteq twins',
           \A h \in Handler, k \in Phone \cup Name : Creating(h, k)' => Creating(h, k),
           \A f \in memory' : f.kind = "account" => f \in memory
    PROVE  CreatesAlone' /\ OneAccount'
<1>1. \A k : Accounts(k)' \subseteq Accounts(k)
  BY DEF Accounts
<1>2. CreatesAlone'
  BY <1>1 DEF CreatesAlone
<1>3. OneAccount'
  BY DEF OneAccount
<1> QED
  BY <1>2, <1>3

LEMMA TaskRecord ==
    ASSUME SignInInv, NEW h \in Handler, task[h] # None
    PROVE  /\ task[h] \in SignInTask
           /\ task[h].key \in Phone \cup Name /\ task[h].now \in Nat
           /\ \A step \in {"limited", "admitted", "verified", "absent", "named"} :
                 [task EXCEPT ![h].step = step] \in [Handler -> SignInTask \cup {None}]
           /\ [task EXCEPT ![h] = None] \in [Handler -> SignInTask \cup {None}]
<1>1. task[h] \in SignInTask
  BY DEF SignInInv, SignInTypeOK
<1>2. \A step \in {"limited", "admitted", "verified", "absent", "named"} :
          [task[h] EXCEPT !.step = step] \in SignInTask
  BY <1>1 DEF SignInTask
<1> QED
  BY <1>1, <1>2 DEF SignInInv, SignInTypeOK, SignInTask

\* A request that stops, or goes on to a step in which it creates nothing, creates
\* nothing.
LEMMA CreatingNoMore ==
    ASSUME SignInInv, NEW h \in Handler,
           \/ Stops(h)
           \/ task[h] # None /\ \E step \in {"limited", "admitted", "verified"} : Goes(h, step)
    PROVE  \A other \in Handler, k \in Phone \cup Name :
               Creating(other, k)' => other # h /\ Creating(other, k)
<1>1. task \in [Handler -> SignInTask \cup {None}]
  BY DEF SignInInv, SignInTypeOK
<1>2. \A other \in Handler : other # h => task'[other] = task[other]
  BY <1>1 DEF Stops, Goes
<1>3. task'[h] = None \/ task'[h].step \in {"limited", "admitted", "verified"}
  BY <1>1 DEF Stops, Goes, SignInTask
<1> QED
  BY <1>2, <1>3 DEF Creating, Step

\* A request stays what it is until it stops.
LEMMA OpsKept ==
    ASSUME SignInInv,
           \A h \in Handler : \/ task'[h] = None
                             \/ /\ task[h] # None
                                /\ task'[h].op = task[h].op /\ task'[h].key = task[h].key
    PROVE  OpFits'
  BY DEF SignInInv, OpFits

\* A handler goes on with its request, or stops.
LEMMA OpsGo ==
    ASSUME SignInInv, NEW h \in Handler,
           \/ Stops(h)
           \/ task[h] # None /\ \E step : Goes(h, step)
    PROVE  OpFits'
<1>1. task \in [Handler -> SignInTask \cup {None}]
  BY DEF SignInInv, SignInTypeOK
<1>2. \A other \in Handler \ {h} : task'[other] = task[other]
  BY <1>1 DEF Stops, Goes
<1>3. \/ task'[h] = None
      \/ task[h] # None /\ task'[h].op = task[h].op /\ task'[h].key = task[h].key
  BY <1>1 DEF Stops, Goes, SignInTask
<1> QED
  BY <1>2, <1>3, OpsKept

--------------------------------------------------------------------------------
(* One step each *)

LEMMA SignInInitInv == SignInInit => SignInInv
<1> SUFFICES ASSUME SignInInit PROVE SignInInv
  OBVIOUS
<1>1. LimiterInv
  BY DEF SignInInit, LimiterInit, LimiterInv, LimiterTypeOK, AdmittedAndLeft
<1>2. StoreInv /\ memory = {}
  BY StoreInitInv DEF SignInInit, StoreInit
<1>3. SignInTypeOK
  BY <1>1, <1>2 DEF SignInInit, SignInTypeOK, LimiterInv, StoreInv
<1>4. CodesCount /\ CodeIsSpent
  BY DEF SignInInit, CodesCount, CodeIsSpent
<1>5. CreatesAlone /\ OneAccount
  BY <1>2 DEF SignInInit, CreatesAlone, Creating, Step, OneAccount
<1>6. OpFits
  BY DEF SignInInit, OpFits
<1> QED
  BY <1>1, <1>2, <1>3, <1>4, <1>5, <1>6 DEF SignInInv

LEMMA TickKeeps == ASSUME SignInInv, Tick PROVE SignInInv'
<1>1. SignInTypeOK'
  BY DEF Tick, SignInInv, SignInTypeOK, LimiterTypeOK, storeVars, StoreTypeOK
<1>2. LimiterInv'
  BY DEF Tick, SignInInv, LimiterInv, LimiterTypeOK, AdmittedAndLeft
<1>3. StoreInv'
  BY <1>1 DEF Tick, storeVars, SignInInv, SignInTypeOK, StoreInv, Known, Rows, Saves
<1>4. CodesCount' /\ CodeIsSpent'
  BY DEF Tick, SignInInv, CodesCount, CodeIsSpent
<1>5. CreatesAlone' /\ OneAccount'
  BY AccountsKept DEF Tick, storeVars, SignInInv, Creating, Step
<1>6. OpFits'
  BY DEF Tick, SignInInv, OpFits
<1> QED
  BY <1>1, <1>2, <1>3, <1>4, <1>5, <1>6 DEF SignInInv

\* What a step keeps of the parts whose variables it leaves alone.
LEMMA LimiterUnchanged == LimiterInv /\ UNCHANGED buckets => LimiterInv'
  BY DEF LimiterInv, LimiterTypeOK, AdmittedAndLeft

LEMMA StoreUnchanged == StoreInv /\ UNCHANGED storeVars => StoreInv'
  BY DEF storeVars, StoreInv, StoreTypeOK, Known, Rows, Saves

LEMMA CodesUnchanged ==
    CodesCount /\ CodeIsSpent /\ UNCHANGED <<codes, tries>> => CodesCount' /\ CodeIsSpent'
  BY DEF CodesCount, CodeIsSpent

LEMMA RequestKeeps ==
    ASSUME SignInInv, NEW h \in Handler, NEW op \in {"request", "verify", "register"},
           NEW k \in Phone \cup Name, Request(h, op, k)
    PROVE  SignInInv'
<1> DEFINE new == [op |-> op, key |-> k, step |-> "limited", now |-> clock, id |-> 0]
<1>1. new \in SignInTask
  BY DEF SignInInv, SignInTypeOK, SignInTask
<1>2. task' = [task EXCEPT ![h] = new] /\ task[h] = None
      /\ UNCHANGED <<buckets, storeVars, clock, codes, counter, pending, tries, twins>>
      /\ (k \in Phone <=> op # "register")
  BY DEF Request, Idle
<1>7. OpFits'
  BY <1>2 DEF SignInInv, SignInTypeOK, OpFits
<1>3. \A other \in Handler, x \in Phone \cup Name : Creating(other, x)' => Creating(other, x)
  BY <1>2 DEF Creating, Step, SignInInv, SignInTypeOK
<1> HIDE DEF new
<1>4. LimiterInv' /\ StoreInv' /\ CodesCount' /\ CodeIsSpent'
  BY <1>2, LimiterUnchanged, StoreUnchanged, CodesUnchanged DEF SignInInv
<1>5. SignInTypeOK'
  BY <1>1, <1>2, <1>4 DEF SignInInv, SignInTypeOK, LimiterInv, StoreInv
<1>6. CreatesAlone' /\ OneAccount'
  BY <1>2, <1>3, AccountsKept DEF SignInInv, storeVars
<1> QED
  BY <1>4, <1>5, <1>6, <1>7 DEF SignInInv

LEMMA LimitKeeps == ASSUME SignInInv, NEW h \in Handler, Limit(h) PROVE SignInInv'
<1> DEFINE b == <<task[h].op, task[h].key>>
           on == [task[h] EXCEPT !.step = "admitted", !.now = clock]
<1>1. task[h] # None /\ task[h] \in SignInTask /\ task[h].now \in Nat
      /\ task[h].key \in Phone \cup Name
  BY TaskRecord DEF Limit, Step
<1>2. b \in Bucket
  BY <1>1, SignInAssumption DEF SignInTask
<1>3. Acquire(b, task[h].now)
      /\ UNCHANGED <<storeVars, clock, codes, counter, pending, tries, twins>>
      /\ task' = [task EXCEPT ![h] = IF Grants(b, task[h].now) THEN on ELSE None]
  BY DEF Limit
<1>4. on \in SignInTask /\ on.step = "admitted"
  BY <1>1 DEF SignInTask, SignInInv, SignInTypeOK
<1> HIDE DEF b, on
<1>5. LimiterInv'
  BY <1>1, <1>2, <1>3, AcquireKeeps DEF SignInInv
<1>6. StoreInv' /\ CodesCount' /\ CodeIsSpent'
  BY <1>3, StoreUnchanged, CodesUnchanged DEF SignInInv
<1>7. SignInTypeOK'
  BY <1>3, <1>4, <1>5, <1>6 DEF SignInInv, SignInTypeOK, LimiterInv, StoreInv
<1>8. task'[h] = None \/ task'[h].step = "admitted"
  BY <1>3, <1>4 DEF SignInInv, SignInTypeOK
<1>9. \A other \in Handler, x \in Phone \cup Name : Creating(other, x)' => Creating(other, x)
  BY <1>3, <1>8 DEF Creating, Step, SignInInv, SignInTypeOK
<1>10. CreatesAlone' /\ OneAccount'
  BY <1>3, <1>9, AccountsKept DEF SignInInv, storeVars
<1>11. OpFits'
  <2>1. on.op = task[h].op /\ on.key = task[h].key
    BY <1>1 DEF SignInTask, on
  <2>2. \A other \in Handler \ {h} : task'[other] = task[other]
    BY <1>3
  <2>3. task'[h] = on \/ task'[h] = None
    BY <1>3 DEF SignInInv, SignInTypeOK
  <2> QED
    BY <1>1, <2>1, <2>2, <2>3, OpsKept
<1> QED
  BY <1>5, <1>6, <1>7, <1>10, <1>11 DEF SignInInv

\* A step that works on codes only, and creates nothing after it.
LEMMA CodeStep ==
    ASSUME SignInInv, NEW h \in Handler,
           \/ Stops(h)
           \/ task[h] # None /\ \E step \in {"limited", "admitted", "verified"} : Goes(h, step),
           UNCHANGED <<buckets, storeVars, clock, counter, pending, twins>>,
           codes' \in [Phone -> Code \cup {None}], tries' \in Seq([right : Nat, wrong : Nat]),
           CodesCount', CodeIsSpent'
    PROVE  SignInInv'
<1>1. LimiterInv' /\ StoreInv'
  BY LimiterUnchanged, StoreUnchanged DEF SignInInv
<1>2. task' \in [Handler -> SignInTask \cup {None}]
  <2>1. CASE Stops(h)
    BY <2>1 DEF Stops, SignInInv, SignInTypeOK
  <2>2. CASE ~ Stops(h)
    <3>1. PICK step \in {"limited", "admitted", "verified"} : task[h] # None /\ Goes(h, step)
      BY <2>2
    <3>2. task' = [task EXCEPT ![h].step = step]
      BY <3>1 DEF Goes
    <3> QED
      BY <3>1, <3>2, TaskRecord
  <2> QED
    BY <2>1, <2>2
<1>3. SignInTypeOK'
  BY <1>1, <1>2 DEF SignInInv, SignInTypeOK, LimiterInv, StoreInv
<1>4. CreatesAlone' /\ OneAccount'
  BY CreatingNoMore, AccountsKept DEF SignInInv, storeVars
<1>5. OpFits'
  BY OpsGo
<1> QED
  BY <1>1, <1>3, <1>4, <1>5 DEF SignInInv

LEMMA RequestCodeKeeps == ASSUME SignInInv, NEW h \in Handler, RequestCode(h) PROVE SignInInv'
<1> DEFINE p == task[h].key
           now == task[h].now
           n == Len(tries) + 1
           new == [number |-> n, issued |-> now, expires |-> now + CodeTtl, attempts |-> 0]
<1>1. p \in Phone \cup Name /\ now \in Nat /\ Stops(h)
      /\ UNCHANGED <<buckets, storeVars, clock, counter, pending, twins>>
  BY TaskRecord DEF RequestCode, Step
<1>2. \A q \in Phone : Purged(now)[q] \in {codes[q], None}
  BY DEF Purged
<1>3. Purged(now) \in [Phone -> Code \cup {None}]
  BY <1>2 DEF SignInInv, SignInTypeOK, Purged
<1>4. tries \in Seq([right : Nat, wrong : Nat])
  BY DEF SignInInv, SignInTypeOK
<1>5. \/ codes' = Purged(now) /\ tries' = tries
      \/ codes' = [Purged(now) EXCEPT ![p] = new] /\ tries' = Append(tries, [right |-> 0, wrong |-> 0])
  BY DEF RequestCode
<1>6. new \in Code /\ n \in Nat /\ n \notin DOMAIN tries
  BY <1>1, <1>4, SignInAssumption DEF Code
<1>7. CASE codes' = Purged(now) /\ tries' = tries
  <2>1. CodesCount' /\ CodeIsSpent'
    BY <1>2, <1>7 DEF SignInInv, CodesCount, CodeIsSpent
  <2> QED
    BY <1>3, <1>4, <1>7, <2>1, <1>1, CodeStep
<1>8. CASE codes' = [Purged(now) EXCEPT ![p] = new]
           /\ tries' = Append(tries, [right |-> 0, wrong |-> 0])
  <2>1. /\ tries' \in Seq([right : Nat, wrong : Nat])
        /\ DOMAIN tries' = DOMAIN tries \cup {n}
        /\ \A i \in DOMAIN tries : tries'[i] = tries[i]
        /\ tries'[n] = [right |-> 0, wrong |-> 0]
    BY <1>4, <1>8
  <2>2. \A q \in Phone : codes'[q] = IF q = p THEN new ELSE Purged(now)[q]
    BY <1>3, <1>8
  <2>3. new.number = n /\ new.attempts = 0 /\ new # None
    BY <1>6, NoneIsNoTask
  <2> HIDE DEF new, n, p, now
  <2>4. CodesCount'
    <3>1. \A q \in Phone : (codes'[q] # None /\ q # p) =>
              codes'[q] = codes[q] /\ codes[q] # None
      BY <1>2, <2>2
    <3>2. codes'[p] = new \/ p \notin Phone
      BY <2>2
    <3>3. \A q \in Phone : codes[q] # None =>
              /\ codes[q].number \in DOMAIN tries
              /\ tries[codes[q].number] = [right |-> 0, wrong |-> codes[q].attempts]
              /\ codes[q].attempts <= MaxAttempts
      BY DEF SignInInv, CodesCount
    <3>4. 0 <= MaxAttempts
      BY SignInAssumption
    <3>5. ASSUME NEW q \in Phone, codes'[q] # None
          PROVE  /\ codes'[q].number \in DOMAIN tries'
                 /\ tries'[codes'[q].number] = [right |-> 0, wrong |-> codes'[q].attempts]
                 /\ codes'[q].attempts <= MaxAttempts
      <4>1. CASE q = p
        BY <2>1, <2>3, <3>2, <3>4, <4>1
      <4>2. CASE q # p
        BY <2>1, <3>1, <3>3, <3>5, <4>2
      <4> QED
        BY <4>1, <4>2
    <3>6. ASSUME NEW q \in Phone, NEW r \in Phone, q # r, codes'[q] # None, codes'[r] # None
          PROVE  codes'[q].number # codes'[r].number
      <4>1. CASE q # p /\ r # p
        BY <3>1, <3>6, <4>1 DEF SignInInv, CodesCount
      <4>2. CASE q = p
        BY <1>6, <2>3, <3>1, <3>2, <3>3, <3>6, <4>2
      <4>3. CASE r = p
        BY <1>6, <2>3, <3>1, <3>2, <3>3, <3>6, <4>3
      <4> QED
        BY <4>1, <4>2, <4>3
    <3> QED
      BY <3>5, <3>6 DEF CodesCount
  <2>5. CodeIsSpent'
    BY <2>1, SignInAssumption DEF SignInInv, CodeIsSpent
  <2>6. codes' \in [Phone -> Code \cup {None}]
    BY <1>3, <1>6, <1>8
  <2> QED
    BY <2>1, <2>4, <2>5, <2>6, <1>1, CodeStep
<1> QED
  BY <1>5, <1>7, <1>8

LEMMA VerifyCodeKeeps == ASSUME SignInInv, NEW h \in Handler, VerifyCode(h) PROVE SignInInv'
<1> DEFINE p == task[h].key
           n == codes[p].number
<1>1. task[h] # None /\ p \in Phone \cup Name
      /\ UNCHANGED <<buckets, storeVars, clock, counter, pending, twins>>
  BY TaskRecord DEF VerifyCode, Step
<1>2. /\ codes \in [Phone -> Code \cup {None}]
      /\ tries \in Seq([right : Nat, wrong : Nat])
      /\ CodesCount /\ CodeIsSpent
  BY DEF SignInInv, SignInTypeOK
<1>3. p \in Phone
  <2>1. task[h].op = "verify"
    BY DEF VerifyCode, Does
  <2> QED
    BY <1>1, <2>1 DEF SignInInv, OpFits
<1>4. CASE Stops(h) /\ UNCHANGED <<codes, tries>>
  BY <1>1, <1>2, <1>4, CodesUnchanged, CodeStep
<1>5. CASE Stops(h) /\ codes' = [codes EXCEPT ![p] = None] /\ tries' = tries
  <2>1. codes' \in [Phone -> Code \cup {None}]
        /\ \A q \in Phone : codes'[q] # None => codes'[q] = codes[q] /\ codes[q] # None
    BY <1>2, <1>5
  <2>2. CodesCount' /\ CodeIsSpent'
    BY <1>2, <1>5, <2>1 DEF CodesCount, CodeIsSpent
  <2> QED
    BY <1>1, <1>2, <1>5, <2>1, <2>2, CodeStep
<1>6. ASSUME codes[p] # None, codes[p].attempts < MaxAttempts, WrongCode(h) PROVE SignInInv'
  <2> DEFINE code == [codes[p] EXCEPT !.attempts = @ + 1]
             tried == [tries[n] EXCEPT !.wrong = @ + 1]
  <2>1. codes[p] \in Code /\ n \in DOMAIN tries
        /\ tries[n] = [right |-> 0, wrong |-> codes[p].attempts]
    BY <1>2, <1>3, <1>6 DEF CodesCount
  <2>2. code \in Code /\ code.number = n /\ code.attempts = codes[p].attempts + 1
        /\ code.attempts <= MaxAttempts
    BY <1>6, <2>1, SignInAssumption DEF Code
  <2>3. tried = [right |-> 0, wrong |-> code.attempts]
    BY <2>1, <2>2 DEF Code
  <2>5. codes' = [codes EXCEPT ![p] = code] /\ tries' = [tries EXCEPT ![n] = tried] /\ Stops(h)
    BY <1>6 DEF WrongCode
  <2> HIDE DEF code, tried, n, p
  <2>3a. code.attempts \in Nat
    BY <2>2 DEF Code
  <2>4. tried \in [right : Nat, wrong : Nat]
    BY <2>3, <2>3a
  <2>6. codes' \in [Phone -> Code \cup {None}]
    BY <1>2, <1>3, <2>2, <2>5
  <2>7. tries' \in Seq([right : Nat, wrong : Nat]) /\ DOMAIN tries' = DOMAIN tries
        /\ \A i \in DOMAIN tries : tries'[i] = IF i = n THEN tried ELSE tries[i]
    BY <1>2, <2>1, <2>4, <2>5
  <2>8. \A q \in Phone : codes'[q] = IF q = p THEN code ELSE codes[q]
    BY <1>2, <2>5
  <2>9. codes[p].number = n
    BY DEF n
  <2>10. CodesCount'
    <3>1. p \in Phone /\ code # None /\ codes[p] # None
      BY <1>3, <1>6, <2>2, NoneIsNoTask DEF p
    <3>2. \A q \in Phone : (q # p /\ codes[q] # None) => codes[q].number # n
      BY <1>2, <2>9, <3>1 DEF CodesCount
    <3>3. ASSUME NEW q \in Phone, codes'[q] # None
          PROVE  /\ codes'[q].number \in DOMAIN tries'
                 /\ tries'[codes'[q].number] = [right |-> 0, wrong |-> codes'[q].attempts]
                 /\ codes'[q].attempts <= MaxAttempts
      <4>1. CASE q = p
        <5>1. codes'[q] = code
          BY <2>8, <4>1
        <5> QED
          BY <2>1, <2>2, <2>3, <2>7, <5>1
      <4>2. CASE q # p
        <5>1. codes'[q] = codes[q]
          BY <2>8, <4>2
        <5> QED
          BY <1>2, <2>7, <3>2, <3>3, <4>2, <5>1 DEF CodesCount
      <4> QED
        BY <4>1, <4>2
    <3>4. \A q \in Phone : codes'[q] # None =>
              codes[q] # None /\ codes'[q].number = codes[q].number
      BY <2>2, <2>8, <2>9, <3>1
    <3>5. \A q, r \in Phone : (q # r /\ codes'[q] # None /\ codes'[r] # None) =>
              codes'[q].number # codes'[r].number
      BY <1>2, <3>4 DEF CodesCount
    <3> QED
      BY <3>3, <3>5 DEF CodesCount
  <2>11. CodeIsSpent'
    <3>1. code.attempts \in Nat
      BY <2>2 DEF Code
    <3>2. tried.right <= 1 /\ tried.wrong + tried.right <= MaxAttempts
      BY <2>2, <2>3, <3>1, SignInAssumption
    <3> QED
      BY <1>2, <2>7, <3>2 DEF CodeIsSpent
  <2> QED
    BY <1>1, <2>5, <2>6, <2>7, <2>10, <2>11, CodeStep
<1>7. ASSUME codes[p] # None, codes[p].attempts < MaxAttempts, RightCode(h) PROVE SignInInv'
  <2> DEFINE tried == [tries[n] EXCEPT !.right = @ + 1]
  <2>1. codes[p] \in Code /\ n \in DOMAIN tries
        /\ tries[n] = [right |-> 0, wrong |-> codes[p].attempts]
    BY <1>2, <1>3, <1>7 DEF CodesCount
  <2>2. tried = [right |-> 1, wrong |-> codes[p].attempts] /\ codes[p].attempts \in Nat
    BY <2>1 DEF Code
  <2>3. tried \in [right : Nat, wrong : Nat]
    BY <2>2
  <2>4. codes' = [codes EXCEPT ![p] = None] /\ tries' = [tries EXCEPT ![n] = tried]
        /\ Goes(h, "verified")
    BY <1>7 DEF RightCode
  <2>5. \A q \in Phone : (q # p /\ codes[q] # None) => codes[q].number # n
    BY <1>2, <1>3, <1>7 DEF CodesCount
  <2>6. codes[p].attempts + 1 <= MaxAttempts
    BY <1>7, <2>2, SignInAssumption
  <2> HIDE DEF tried, n
  <2>7. codes' \in [Phone -> Code \cup {None}]
        /\ \A q \in Phone : codes'[q] # None => q # p /\ codes'[q] = codes[q] /\ codes[q] # None
    BY <1>2, <2>4
  <2>8. tries' \in Seq([right : Nat, wrong : Nat]) /\ DOMAIN tries' = DOMAIN tries
        /\ \A i \in DOMAIN tries : tries'[i] = IF i = n THEN tried ELSE tries[i]
    BY <1>2, <2>1, <2>3, <2>4
  <2>9. CodesCount'
    BY <1>2, <2>5, <2>7, <2>8 DEF CodesCount
  <2>10. CodeIsSpent'
    <3>1. tried.right <= 1 /\ tried.wrong + tried.right <= MaxAttempts
      BY <2>2, <2>6, SignInAssumption
    <3> QED
      BY <1>2, <2>8, <3>1 DEF CodeIsSpent
  <2> QED
    BY <1>1, <2>4, <2>7, <2>8, <2>9, <2>10, CodeStep
<1> QED
  BY <1>4, <1>5, <1>6, <1>7 DEF VerifyCode

--------------------------------------------------------------------------------
(* Steps that work on accounts *)

LEMMA AccountStepKeeps ==
    ASSUME SignInInv, UNCHANGED <<buckets, clock, codes, tries>>,
           counter' \in Nat, pending' \subseteq Phone \cup Name, twins' \subseteq Phone \cup Name,
           task' \in [Handler -> SignInTask \cup {None}],
           StoreInv', CreatesAlone', OneAccount', OpFits'
    PROVE  SignInInv'
<1>1. LimiterInv' /\ CodesCount' /\ CodeIsSpent'
  BY LimiterUnchanged, CodesUnchanged DEF SignInInv
<1>2. SignInTypeOK'
  BY <1>1 DEF SignInInv, SignInTypeOK, LimiterInv, StoreInv
<1> QED
  BY <1>1, <1>2 DEF SignInInv

\* A request that changes facts other than accounts.
LEMMA FactStepKeeps ==
    ASSUME SignInInv, NEW h \in Handler, NEW facts \in SUBSET Fact, NEW fact \in Fact,
           IsFiniteSet(facts),
           \A f \in Fact : f.kind = "account" => (f \in facts <=> f \in memory),
           Change(h, facts, fact), answered' \subseteq Fact,
           Stops(h) \/ task' = task,
           pending' \subseteq Phone \cup Name,
           UNCHANGED <<buckets, clock, codes, tries, counter, twins>>
    PROVE  SignInInv'
<1>1. StoreInv /\ memory \in SUBSET Fact /\ memory' = facts
  BY DEF SignInInv, StoreInv, StoreTypeOK, Change
<1>2. StoreInv'
  BY <1>1, ChangeKeeps
<1>3. /\ task' \in [Handler -> SignInTask \cup {None}]
      /\ \A other \in Handler, x \in Phone \cup Name : Creating(other, x)' => Creating(other, x)
      /\ OpFits'
  <2>1. CASE Stops(h)
    BY <2>1, CreatingNoMore, OpsGo DEF Stops, SignInInv, SignInTypeOK
  <2>2. CASE task' = task
    BY <2>2 DEF SignInInv, SignInTypeOK, Creating, Step, OpFits
  <2> QED
    BY <2>1, <2>2
<1>4. CreatesAlone' /\ OneAccount'
  BY <1>1, <1>3, AccountsKept DEF SignInInv
<1>5. counter' \in Nat /\ twins' \subseteq Phone \cup Name
  BY DEF SignInInv, SignInTypeOK
<1> QED
  BY <1>2, <1>3, <1>4, <1>5, AccountStepKeeps

LEMMA KeysAreFacts ==
    /\ \A k \in Phone \cup Name, kind \in {"session", "secret", "account"}, i \in Nat :
          [kind |-> kind, key |-> k, id |-> i] \in Fact
    /\ Of("key", Remote) \in Fact
  BY SignInAssumption DEF Fact, Of

\* The memory with a fact more that is no account.
LEMMA AddFact ==
    ASSUME SignInInv, NEW fact \in Fact, fact.kind # "account"
    PROVE  /\ memory \cup {fact} \in SUBSET Fact /\ IsFiniteSet(memory \cup {fact})
           /\ \A f \in Fact : f.kind = "account" => (f \in memory \cup {fact} <=> f \in memory)
  BY FS_AddElement DEF SignInInv, StoreInv, StoreTypeOK, Known

LEMMA LoginKeeps ==
    ASSUME SignInInv, NEW h \in Handler, NEW k \in Phone \cup Name, Login(h, k)
    PROVE  SignInInv'
<1>1. Of("session", k) \in Fact /\ Of("session", k).kind # "account"
  BY KeysAreFacts DEF Of
<1>2. /\ Change(h, memory \cup {Of("session", k)}, Of("session", k))
      /\ UNCHANGED <<buckets, answered, clock, codes, counter, pending, task, tries, twins>>
  BY DEF Login
<1>3. answered' \subseteq Fact /\ pending' \subseteq Phone \cup Name
  BY <1>2 DEF SignInInv, SignInTypeOK, StoreTypeOK
<1> QED
  BY <1>1, <1>2, <1>3, AddFact, FactStepKeeps

LEMMA MintKeyKeeps == ASSUME SignInInv, NEW h \in Handler, MintKey(h) PROVE SignInInv'
<1>1. Of("key", Remote) \in Fact /\ Of("key", Remote).kind # "account"
  BY KeysAreFacts DEF Of
<1>2. /\ Change(h, memory \cup {Of("key", Remote)}, Of("key", Remote))
      /\ UNCHANGED <<buckets, answered, clock, codes, counter, pending, task, tries, twins>>
  BY DEF MintKey
<1>3. answered' \subseteq Fact /\ pending' \subseteq Phone \cup Name
  BY <1>2 DEF SignInInv, SignInTypeOK, StoreTypeOK
<1> QED
  BY <1>1, <1>2, <1>3, AddFact, FactStepKeeps

LEMMA SecondFactorKeeps ==
    ASSUME SignInInv, NEW h \in Handler, NEW k \in Phone \cup Name,
           BeginEnable(h, k) \/ ConfirmEnable(h, k) \/ Disable(h, k)
    PROVE  SignInInv'
<1>1. Of("secret", k) \in Fact /\ Of("secret", k).kind # "account"
  BY KeysAreFacts DEF Of
<1>2. answered \subseteq Fact /\ pending \subseteq Phone \cup Name /\ memory \subseteq Fact
      /\ IsFiniteSet(memory) /\ counter \in Nat /\ twins \subseteq Phone \cup Name
      /\ task \in [Handler -> SignInTask \cup {None}] /\ StoreInv
  BY DEF SignInInv, SignInTypeOK, StoreTypeOK, StoreInv, Known
<1>3. CASE BeginEnable(h, k)
  <2>1. pending' = pending \cup {k}
        /\ UNCHANGED <<buckets, storeVars, clock, codes, counter, task, tries, twins>>
    BY <1>3 DEF BeginEnable
  <2>2. StoreInv' /\ pending' \subseteq Phone \cup Name
    BY <1>2, <2>1, StoreUnchanged
  <2>3. CreatesAlone' /\ OneAccount' /\ OpFits'
    BY <2>1, AccountsKept DEF SignInInv, OpFits, Creating, Step, storeVars
  <2> QED
    BY <1>2, <2>1, <2>2, <2>3, AccountStepKeeps
<1>4. CASE ConfirmEnable(h, k)
  <2>1. /\ Change(h, memory \cup {Of("secret", k)}, Of("secret", k))
        /\ pending' \subseteq Phone \cup Name /\ answered' \subseteq Fact
        /\ UNCHANGED <<buckets, clock, codes, counter, task, tries, twins>>
    BY <1>2, <1>4 DEF ConfirmEnable
  <2> QED
    BY <1>1, <2>1, AddFact, FactStepKeeps
<1>5. CASE Disable(h, k)
  <2> DEFINE facts == memory \ {Of("secret", k)}
  <2>1. /\ Change(h, facts, Of("secret", k))
        /\ pending' \subseteq Phone \cup Name /\ answered' \subseteq Fact
        /\ UNCHANGED <<buckets, clock, codes, counter, task, tries, twins>>
    BY <1>2, <1>5 DEF Disable
  <2>2. facts \in SUBSET Fact /\ IsFiniteSet(facts)
        /\ \A f \in Fact : f.kind = "account" => (f \in facts <=> f \in memory)
    BY <1>1, <1>2, FS_Subset
  <2> HIDE DEF facts
  <2> QED
    BY <1>1, <2>1, <2>2, FactStepKeeps
<1> QED
  BY <1>3, <1>4, <1>5

LEMMA SaveStepKeeps ==
    ASSUME SignInInv, NEW h \in Handler, StoreStep(h),
           UNCHANGED <<buckets, clock, codes, counter, pending, task, tries, twins>>
    PROVE  SignInInv'
<1>1. StoreInv' /\ memory' = memory
  BY StoreStepKeeps DEF SignInInv
<1>2. CreatesAlone' /\ OneAccount' /\ OpFits'
  BY <1>1, AccountsKept DEF SignInInv, OpFits, Creating, Step
<1> QED
  BY <1>1, <1>2, AccountStepKeeps DEF SignInInv, SignInTypeOK

LEMMA LookUpKeeps == ASSUME SignInInv, NEW h \in Handler, LookUp(h) PROVE SignInInv'
<1> DEFINE k == task[h].key
<1>1. task[h] # None /\ k \in Phone \cup Name
      /\ UNCHANGED <<buckets, clock, codes, pending, tries>>
  BY TaskRecord DEF LookUp, Step, Does
<1>2. answered \subseteq Fact /\ pending \subseteq Phone \cup Name
      /\ counter \in Nat /\ twins \subseteq Phone \cup Name /\ StoreInv
      /\ task \in [Handler -> SignInTask \cup {None}]
  BY DEF SignInInv, SignInTypeOK, StoreTypeOK
<1>3. CASE /\ Accounts(k) = {} /\ Goes(h, "absent") /\ UNCHANGED <<storeVars, counter>>
           /\ twins' = IF Twin(h) THEN twins \cup {k} ELSE twins
  <2>1. StoreInv' /\ memory' = memory
    BY <1>2, <1>3, StoreUnchanged DEF storeVars
  <2>2. task' \in [Handler -> SignInTask \cup {None}] /\ OpFits'
    BY <1>1, <1>3, TaskRecord, OpsGo DEF Goes
  <2>3. twins \subseteq twins' /\ twins' \subseteq Phone \cup Name /\ (Twin(h) => k \in twins')
    BY <1>1, <1>2, <1>3
  <2>4. \A other \in Handler, x \in Phone \cup Name :
            Creating(other, x)' => Creating(other, x) \/ (other = h /\ x = k)
    <3>1. \A other \in Handler \ {h} : task'[other] = task[other]
      BY <1>2, <1>3 DEF Goes
    <3>2. task'[h].key = k
      BY <1>1, <1>2, <1>3 DEF Goes, SignInTask
    <3> QED
      BY <3>1, <3>2 DEF Creating, Step
  <2>5. \A other \in Handler \ {h} : Creating(other, k) => Twin(h)
    BY DEF Creating, Twin
  <2>6. \A x : Accounts(x)' = Accounts(x)
    BY <2>1 DEF Accounts
  <2>7. CreatesAlone'
    <3>1. \A other \in Handler, x \in Phone \cup Name :
              Creating(other, x)' => x \in twins' \/ Accounts(x)' = {}
      BY <1>3, <2>3, <2>4, <2>6 DEF SignInInv, CreatesAlone
    <3>2. \A g, other \in Handler, x \in Phone \cup Name :
              (g # other /\ Creating(g, x)' /\ Creating(other, x)') => x \in twins'
      BY <2>3, <2>4, <2>5 DEF SignInInv, CreatesAlone
    <3> QED
      BY <3>1, <3>2 DEF CreatesAlone
  <2>8. OneAccount'
    BY <2>1, <2>3 DEF SignInInv, OneAccount
  <2> QED
    BY <1>1, <1>2, <1>3, <2>1, <2>2, <2>3, <2>7, <2>8, AccountStepKeeps
<1>4. CASE Stops(h) /\ UNCHANGED <<storeVars, counter, twins>>
  <2>1. StoreInv' /\ memory' = memory
    BY <1>2, <1>4, StoreUnchanged DEF storeVars
  <2>2. task' \in [Handler -> SignInTask \cup {None}] /\ OpFits'
    BY <1>2, <1>4, OpsGo DEF Stops
  <2>3. CreatesAlone' /\ OneAccount'
    BY <1>4, <2>1, CreatingNoMore, AccountsKept DEF SignInInv
  <2> QED
    BY <1>1, <1>2, <1>4, <2>1, <2>2, <2>3, AccountStepKeeps
<1>5. ASSUME NEW f \in Accounts(k), Change(h, memory \cup {Of("session", k)}, f),
             Stops(h), UNCHANGED <<answered, counter, twins>>
      PROVE  SignInInv'
  <2>1. Of("session", k) \in Fact /\ Of("session", k).kind # "account"
    BY <1>1, KeysAreFacts DEF Of
  <2>2. f \in Fact
    BY DEF Accounts, SignInInv, SignInTypeOK, StoreTypeOK
  <2> HIDE DEF k
  <2> QED
    BY <1>1, <1>2, <1>5, <2>1, <2>2, AddFact, FactStepKeeps
<1> QED
  BY <1>3, <1>4, <1>5 DEF LookUp

\* An id is always free: there are more numbers than accounts.
LEMMA FreeId ==
    ASSUME SignInInv, NEW k
    PROVE  \E i \in 0 .. Cardinality(Accounts(k)) : Account(k, i) \notin memory
<1> DEFINE n == Cardinality(Accounts(k))
           f == [i \in 0 .. n |-> Account(k, i)]
<1>1. IsFiniteSet(Accounts(k)) /\ n \in Nat
  BY FS_Subset, FS_CardinalityType DEF Accounts, SignInInv, StoreInv, Known
<1>2. IsFiniteSet(0 .. n) /\ Cardinality(0 .. n) = n + 1
  <2> HIDE DEF n
  <2> QED
    BY <1>1, FS_Interval
<1>3. ASSUME \A i \in 0 .. n : Account(k, i) \in memory PROVE FALSE
  <2>1. f \in [0 .. n -> Accounts(k)]
    BY <1>3 DEF Accounts, Account
  <2>2. n < n + 1
    BY <1>1
  <2>3. \E i, j \in 0 .. n : i # j /\ f[i] = f[j]
    <3> HIDE DEF f
    <3> QED
      BY <1>1, <1>2, <2>1, <2>2, FS_PigeonHole
  <2> QED
    BY <2>3 DEF Account
<1> QED
  BY <1>3

LEMMA ChooseIdKeeps == ASSUME SignInInv, NEW h \in Handler, ChooseId(h) PROVE SignInInv'
<1> DEFINE k == task[h].key
           free == {i \in 0 .. Cardinality(Accounts(k)) : Account(k, i) \notin memory}
<1>1. task[h] # None /\ task[h] \in SignInTask /\ Step(h, "absent")
      /\ UNCHANGED <<buckets, storeVars, clock, codes, pending, tries, twins>>
  BY TaskRecord DEF ChooseId, Step
<1>2. PICK i \in Nat : task' = [task EXCEPT ![h].step = "named", ![h].id = i] /\ counter' \in Nat
  <2>1. counter \in Nat /\ counter + 1 \in Nat
    BY DEF SignInInv, SignInTypeOK
  <2>2. free \in SUBSET Nat /\ free # {}
    BY FreeId
  <2>3. Min(free) \in Nat
    BY <2>2, MinIsMember
  <2> HIDE DEF free
  <2> QED
    BY <2>1, <2>3 DEF ChooseId, free
<1>3. task \in [Handler -> SignInTask \cup {None}] /\ StoreInv
      /\ twins' \subseteq Phone \cup Name /\ pending' \subseteq Phone \cup Name
  BY <1>1 DEF SignInInv, SignInTypeOK
<1>4. /\ task'[h] \in SignInTask /\ task'[h].key = k /\ task'[h].op = task[h].op
      /\ \A other \in Handler \ {h} : task'[other] = task[other]
  BY <1>1, <1>2, <1>3 DEF SignInTask
<1>5. task' \in [Handler -> SignInTask \cup {None}]
  BY <1>2, <1>3, <1>4
<1>6. OpFits'
  BY <1>1, <1>4, OpsKept
<1>7. StoreInv'
  BY <1>1, <1>3, StoreUnchanged
<1>8. \A other \in Handler, x \in Phone \cup Name : Creating(other, x)' => Creating(other, x)
  BY <1>1, <1>4 DEF Creating, Step
<1>9. CreatesAlone' /\ OneAccount'
  BY <1>1, <1>8, AccountsKept DEF SignInInv, storeVars
<1> QED
  BY <1>1, <1>2, <1>3, <1>5, <1>6, <1>7, <1>9, AccountStepKeeps

LEMMA CreateAccountKeeps ==
    ASSUME SignInInv, NEW h \in Handler, CreateAccount(h)
    PROVE  SignInInv'
<1> DEFINE k == task[h].key
           new == Account(k, task[h].id)
           lost == IF new \in memory THEN {Of("secret", k)} ELSE {}
           facts == (memory \ lost) \cup {new, Of("session", k)}
<1>1. /\ task[h] # None /\ task[h] \in SignInTask /\ k \in Phone \cup Name
      /\ Creating(h, k) /\ Stops(h) /\ Change(h, facts, new)
      /\ UNCHANGED <<buckets, answered, clock, codes, counter, pending, tries, twins>>
  BY TaskRecord DEF CreateAccount, Step, Creating
<1>2. /\ StoreInv /\ memory \subseteq Fact /\ IsFiniteSet(memory) /\ answered' \subseteq Fact
      /\ counter' \in Nat /\ pending' \subseteq Phone \cup Name /\ twins' \subseteq Phone \cup Name
  BY <1>1 DEF SignInInv, SignInTypeOK, StoreInv, StoreTypeOK, Known
<1>3. new \in Fact /\ new.kind = "account" /\ new.key = k
      /\ Of("session", k) \in Fact /\ Of("session", k).kind # "account"
  BY <1>1, KeysAreFacts DEF Account, Of, SignInTask
<1>4. \A f : f \in lost => f.kind # "account"
  BY DEF Of
<1>5. facts \in SUBSET Fact /\ IsFiniteSet(facts)
  <2>1. IsFiniteSet(memory \ lost)
    BY <1>2, FS_Subset
  <2>2. facts = ((memory \ lost) \cup {new}) \cup {Of("session", k)}
    OBVIOUS
  <2> HIDE DEF facts, lost, new
  <2> QED
    BY <1>2, <1>3, <2>1, <2>2, FS_AddElement
<1>6. \A f : f.kind = "account" => (f \in facts <=> f \in memory \/ f = new)
  BY <1>3, <1>4
<1> HIDE DEF facts, lost, new
<1>7. StoreInv' /\ memory' = facts
  <2>1. \A f \in memory : f.kind = "account" => f \in facts
    BY <1>6
  <2> QED
    BY <1>1, <1>2, <1>3, <1>5, <2>1, ChangeKeeps DEF Change
<1>8. /\ task' \in [Handler -> SignInTask \cup {None}] /\ OpFits'
      /\ \A other \in Handler, x \in Phone \cup Name :
            Creating(other, x)' => other # h /\ Creating(other, x)
  BY <1>1, CreatingNoMore, OpsGo DEF Stops, SignInInv, SignInTypeOK
<1>9. \A x : x # k => Accounts(x)' \subseteq Accounts(x)
  BY <1>3, <1>6, <1>7 DEF Accounts
<1>10. CreatesAlone'
  BY <1>1, <1>8, <1>9 DEF SignInInv, CreatesAlone
<1>11. OneAccount'
  <2>1. k \in twins \/ \A f \in memory : f.kind = "account" => f.key # k
    BY <1>1 DEF SignInInv, CreatesAlone, Accounts
  <2> QED
    BY <1>1, <1>3, <1>6, <1>7, <2>1 DEF SignInInv, OneAccount
<1> QED
  BY <1>1, <1>2, <1>7, <1>8, <1>10, <1>11, AccountStepKeeps

LEMMA RestartServerKeeps == ASSUME SignInInv, RestartServer PROVE SignInInv'
<1> DEFINE named == {f \in memory' : f.kind = "account" /\ f.key \in Name}
           ids == {f.id : f \in named}
<1>1. StoreInv' /\ \A f \in memory' : f.kind = "account" => f \in memory
  BY ReloadKeeps DEF SignInInv, RestartServer
<1>2. UNCHANGED <<clock, tries, twins>> /\ buckets' = <<>> /\ pending' = {}
      /\ codes' = [p \in Phone |-> None] /\ task' = [h \in Handler |-> None]
      /\ counter' = Max(ids \cup {0}) + 1
  BY DEF RestartServer
<1>3. counter' \in Nat
  <2>1. IsFiniteSet(memory') /\ memory' \in SUBSET Fact
    BY <1>1 DEF StoreInv, StoreTypeOK, Known
  <2>2. IsFiniteSet(named)
    BY <2>1, FS_Subset
  <2>3. IsFiniteSet(ids)
    <3>1. [f \in named |-> f.id] \in Surjection(named, ids)
      BY DEF Surjection
    <3> QED
      BY <2>2, <3>1, FS_Surjection
  <2>4. ids \cup {0} \in SUBSET Nat /\ IsFiniteSet(ids \cup {0}) /\ ids \cup {0} # {}
    BY <2>1, <2>3, FS_AddElement DEF Fact
  <2>5. Max(ids \cup {0}) \in ids \cup {0}
    BY <2>4, MaxIsMember
  <2>6. Max(ids \cup {0}) \in Nat
    BY <2>4, <2>5
  <2> HIDE DEF ids, named
  <2> QED
    BY <1>2, <2>6
<1> HIDE DEF ids, named
<1>4. LimiterInv' /\ SignInTypeOK'
  BY <1>1, <1>2, <1>3 DEF SignInInv, SignInTypeOK, LimiterInv, LimiterTypeOK, AdmittedAndLeft,
       StoreInv
<1>5. CodesCount' /\ CodeIsSpent'
  BY <1>2 DEF SignInInv, CodesCount, CodeIsSpent
<1>6. CreatesAlone' /\ OneAccount' /\ OpFits'
  BY <1>1, <1>2, AccountsKept DEF SignInInv, Creating, Step, OpFits
<1> QED
  BY <1>1, <1>4, <1>5, <1>6 DEF SignInInv
--------------------------------------------------------------------------------
(* What was answered survives *)

ReadBack(f) == f.kind \in Kept[backend]

\* What a client was told, and the next start is to find.
Owed == {f \in answered \ excused : ReadBack(f)}

Holds(rows, f) == ReadBack(f) => f \in rows

Payloads == {h \in Saves : saving[h].step \in {"taken", "opened"}}

\* The memory has what is owed, what will be told, and what was taken from it.
Remembered ==
    /\ Owed \subseteq memory
    /\ \A h \in Saves : Holds(memory, saving[h].fact)
    /\ \A h \in Payloads :
          /\ Holds(saving[h].rows, saving[h].fact)
          /\ \A f \in saving[h].rows : Holds(memory, f)

\* A save that no other one crossed is the only one under way, and its payload has what
\* is owed.
Alone == \A h \in Underway : ~ saving[h].crossed =>
    /\ Underway = {h}
    /\ h \in Payloads => Owed \subseteq saving[h].rows
    /\ saving[h].step = "opened" => file = {}

\* What is owed is in the file, unless somebody has just cleared it.
Landed == (~ Exposed \/ (backend = "sqlite" /\ file # {})) => Owed \subseteq Rows

StepsFit == \A h \in Saves :
    /\ backend = "json" => saving[h].step \in {"begun", "taken", "opened"}
    /\ backend = "sqlite" => saving[h].step \in {"begun", "deleted"}
    /\ backend = "postgres" => saving[h].step \in {"begun", "taken"}

DurableInv == Remembered /\ Alone /\ Landed /\ StepsFit

LEMMA DurableSurvives == DurableInv => AnsweredSurvives
  BY DEF DurableInv, Landed, Owed, ReadBack, AnsweredSurvives

LEMMA DurableInit == StoreInit => DurableInv
<1> SUFFICES ASSUME StoreInit PROVE DurableInv
  OBVIOUS
<1>1. Saves = {} /\ Owed = {} /\ Underway = {} /\ Payloads = {}
  BY DEF StoreInit, Saves, Owed, Underway, Payloads
<1> QED
  BY <1>1 DEF DurableInv, Remembered, Alone, Landed, StepsFit

LEMMA DurableUnchanged == DurableInv /\ UNCHANGED storeVars => DurableInv'
  BY DEF storeVars, DurableInv, Remembered, Alone, Landed, StepsFit, Owed, ReadBack, Holds,
         Payloads, Saves, Underway, Exposed, Rows

LEMMA BackendKnown == StoreInv => backend \in {"json", "sqlite", "postgres"}
  BY StateStoreAssumption DEF StoreInv, StoreTypeOK

\* A save that is over.
LEMMA SavesGo ==
    ASSUME StoreInv, NEW h \in Saves, saving' = [saving EXCEPT ![h] = None]
    PROVE  /\ Saves' = Saves \ {h} /\ Underway' = Underway \ {h}
           /\ Payloads' = Payloads \ {h}
           /\ \A x \in Saves' : saving'[x] = saving[x]
           /\ Exposed' => Exposed
           /\ h \notin Underway => (Exposed => Exposed')
<1>1. h \in Handler /\ saving'[h] = None /\ \A x \in Handler \ {h} : saving'[x] = saving[x]
  BY DEF StoreInv, StoreTypeOK, Saves
<1>2. Saves' = Saves \ {h} /\ \A x \in Saves' : saving'[x] = saving[x]
  BY <1>1 DEF Saves
<1>3. Underway' = Underway \ {h} /\ Payloads' = Payloads \ {h}
  BY <1>2 DEF Underway, Payloads
<1>4. Exposed' => Exposed
  BY <1>2 DEF Exposed
<1>5. h \notin Underway => (Exposed => Exposed')
  BY <1>2 DEF Exposed, Underway
<1> QED
  BY <1>2, <1>3, <1>4, <1>5

\* One that was under way was crossed, or the only one.
LEMMA EndsDurable ==
    ASSUME StoreInv, DurableInv, NEW h \in Underway, saving' = [saving EXCEPT ![h] = None],
           UNCHANGED <<backend, memory>>, Owed' \subseteq memory,
           (~ Exposed' \/ (backend = "sqlite" /\ file' # {})) => Owed' \subseteq Rows'
    PROVE  DurableInv'
<1>1. h \in Saves
  BY DEF Underway
<1>2. /\ Saves' = Saves \ {h} /\ Underway' = Underway \ {h} /\ Payloads' = Payloads \ {h}
      /\ \A x \in Saves' : saving'[x] = saving[x]
  BY <1>1, SavesGo
<1>3. \A rows, f : Holds(rows, f)' <=> Holds(rows, f)
  BY DEF Holds, ReadBack
<1>4. Remembered'
  <2>1. \A x \in Saves' : Holds(memory, saving'[x].fact)
    BY <1>2 DEF DurableInv, Remembered
  <2>2. ASSUME NEW x \in Payloads'
        PROVE  Holds(saving'[x].rows, saving'[x].fact)
               /\ \A f \in saving'[x].rows : Holds(memory, f)
    <3>1. x \in Payloads /\ saving'[x] = saving[x]
      BY <1>2 DEF Payloads
    <3> QED
      BY <3>1 DEF DurableInv, Remembered
  <2> QED
    BY <2>1, <2>2, <1>3 DEF Remembered, Holds, ReadBack
<1>5. Alone'
  <2>1. ASSUME NEW x \in Underway' PROVE saving'[x].crossed
    <3>1. x \in Underway /\ x # h /\ saving'[x] = saving[x]
      BY <1>2 DEF Underway
    <3> QED
      BY <3>1 DEF DurableInv, Alone
  <2> QED
    BY <2>1 DEF Alone
<1>6. StepsFit'
  BY <1>2 DEF DurableInv, StepsFit
<1>7. Landed'
  BY DEF Landed
<1> QED
  BY <1>4, <1>5, <1>6, <1>7 DEF DurableInv
\* What Crossing makes of each save.
LEMMA CrossingFields ==
    ASSUME StoreInv, NEW h \in Saves, NEW step \in {"taken", "opened", "deleted"},
           NEW rows \in SUBSET Fact, saving' = Crossing(h, step, rows)
    PROVE  /\ Saves' = Saves /\ Underway' = Underway \cup {h}
           /\ saving'[h].fact = saving[h].fact
           /\ saving'[h].step = step /\ saving'[h].rows = rows
           /\ ~ saving'[h].crossed => ~ saving[h].crossed /\ Underway \subseteq {h}
           /\ \A x \in Saves \ {h} :
                 /\ saving'[x].fact = saving[x].fact
                 /\ saving'[x].step = saving[x].step /\ saving'[x].rows = saving[x].rows
                 /\ x \in Underway => saving'[x].crossed
<1> USE NoneIsNoSave
<1>1. \A other \in Handler : saving'[other] =
        IF other = h
        THEN [saving[h] EXCEPT !.step = step, !.rows = rows,
                               !.crossed = @ \/ Underway \ {h} # {}]
        ELSE IF other \in Underway THEN [saving[other] EXCEPT !.crossed = TRUE]
        ELSE saving[other]
  BY DEF Crossing
<1>2. h \in Handler /\ saving[h] \in Save
  BY SaveRecord DEF Saves
<1>3. /\ saving'[h] \in Save
      /\ saving'[h].fact = saving[h].fact /\ saving'[h].step = step /\ saving'[h].rows = rows
      /\ ~ saving'[h].crossed => ~ saving[h].crossed /\ Underway \subseteq {h}
  <2>1. saving'[h] = [saving[h] EXCEPT !.step = step, !.rows = rows,
                                       !.crossed = @ \/ Underway \ {h} # {}]
    BY <1>1, <1>2
  <2> QED
    BY <1>2, <2>1 DEF Save
<1>4. ASSUME NEW x \in Saves \ {h}
      PROVE  /\ saving'[x] \in Save
             /\ saving'[x].fact = saving[x].fact
             /\ saving'[x].step = saving[x].step /\ saving'[x].rows = saving[x].rows
             /\ x \in Underway => saving'[x].crossed
  <2>1. x \in Handler /\ saving[x] \in Save /\ x # h
    BY SaveRecord DEF Saves
  <2>2. CASE x \in Underway
    <3>1. saving'[x] = [saving[x] EXCEPT !.crossed = TRUE]
      BY <1>1, <2>1, <2>2
    <3> QED
      BY <2>1, <3>1 DEF Save
  <2>3. CASE x \notin Underway
    <3>1. saving'[x] = saving[x]
      BY <1>1, <2>1, <2>3
    <3> QED
      BY <2>1, <2>3, <3>1
  <2> QED
    BY <2>2, <2>3
<1>5. Saves' = Saves
  <2>1. \A x \in Handler \ Saves : saving'[x] = None
    BY <1>1 DEF Saves, Underway
  <2>2. \A x \in Saves : saving'[x] # None
    BY <1>3, <1>4
  <2> QED
    BY <2>1, <2>2 DEF Saves
<1>6. Underway' = Underway \cup {h}
  <2>1. \A x \in Saves \ {h} : saving'[x].step = saving[x].step
    BY <1>4
  <2>2. saving'[h].step # "begun"
    BY <1>3
  <2> QED
    BY <1>5, <2>1, <2>2 DEF Underway
<1> QED
  BY <1>3, <1>4, <1>5, <1>6

\* A save that goes on.
LEMMA GoesOnDurable ==
    ASSUME StoreInv, DurableInv, NEW h \in Saves,
           NEW step \in {"taken", "opened", "deleted"}, NEW rows \in SUBSET Fact,
           saving' = Crossing(h, step, rows), UNCHANGED <<backend, memory, answered, excused>>,
           step # "deleted" =>
               /\ Holds(rows, saving[h].fact) /\ \A f \in rows : Holds(memory, f)
               /\ ~ saving[h].crossed => Owed \subseteq rows,
           step = "opened" => file' = {},
           backend = "json" => step \in {"taken", "opened"},
           backend = "sqlite" => step = "deleted",
           backend = "postgres" => step = "taken",
           Landed'
    PROVE  DurableInv'
<1>1. /\ Saves' = Saves /\ Underway' = Underway \cup {h}
      /\ saving'[h].fact = saving[h].fact
      /\ saving'[h].step = step /\ saving'[h].rows = rows
      /\ ~ saving'[h].crossed => ~ saving[h].crossed /\ Underway \subseteq {h}
      /\ \A x \in Saves \ {h} :
            /\ saving'[x].fact = saving[x].fact
            /\ saving'[x].step = saving[x].step /\ saving'[x].rows = saving[x].rows
            /\ x \in Underway => saving'[x].crossed
  BY CrossingFields
<1>2. Owed' = Owed /\ \A r, f : Holds(r, f)' <=> Holds(r, f)
  BY DEF Owed, Holds, ReadBack
<1>3. Remembered'
  <2>1. Owed' \subseteq memory'
    BY <1>2 DEF DurableInv, Remembered
  <2>2. \A x \in Saves' : Holds(memory, saving'[x].fact)
    BY <1>1 DEF DurableInv, Remembered
  <2>3. ASSUME NEW x \in Payloads'
        PROVE  Holds(saving'[x].rows, saving'[x].fact)
               /\ \A f \in saving'[x].rows : Holds(memory, f)
    <3>1. CASE x = h
      <4>1. step # "deleted"
        BY <1>1, <3>1 DEF Payloads
      <4> QED
        BY <1>1, <3>1, <4>1
    <3>2. CASE x # h
      <4>1. x \in Payloads /\ saving'[x].fact = saving[x].fact /\ saving'[x].rows = saving[x].rows
        BY <1>1, <3>2 DEF Payloads
      <4> QED
        BY <4>1 DEF DurableInv, Remembered
    <3> QED
      BY <3>1, <3>2
  <2> QED
    BY <2>1, <2>2, <2>3 DEF Remembered, Holds, ReadBack
<1>4. Alone'
  <2>1. ASSUME NEW x \in Underway', ~ saving'[x].crossed
        PROVE  /\ x = h /\ Underway' = {h}
               /\ h \in Payloads' => Owed \subseteq rows
               /\ step = "opened" => file' = {}
    <3>1. x = h
      BY <1>1, <2>1 DEF Underway
    <3>2. ~ saving[h].crossed /\ Underway \subseteq {h}
      BY <1>1, <2>1, <3>1
    <3>3. h \in Payloads' => step # "deleted"
      BY <1>1 DEF Payloads
    <3> QED
      BY <1>1, <3>1, <3>2, <3>3
  <2>2. ASSUME NEW x \in Underway', ~ saving'[x].crossed
        PROVE  /\ Underway' = {x}
               /\ x \in Payloads' => Owed' \subseteq saving'[x].rows
               /\ saving'[x].step = "opened" => file' = {}
    BY <1>1, <1>2, <2>1, <2>2
  <2> QED
    BY <2>2 DEF Alone
<1>5. StepsFit'
  <2>1. ASSUME NEW x \in Saves', x # h PROVE saving'[x].step = saving[x].step /\ x \in Saves
    BY <1>1, <2>1
  <2> QED
    BY <1>1, <2>1 DEF DurableInv, StepsFit
<1> QED
  BY <1>3, <1>4, <1>5 DEF DurableInv

\* What a payload that lands is owed: no more than it has.
LEMMA LandsOwed ==
    ASSUME StoreInv, DurableInv, NEW h \in Payloads, UNCHANGED <<backend, memory>>,
           Lands(h, saving[h].rows)
    PROVE  Owed' \subseteq saving[h].rows /\ Owed' \subseteq memory
<1>1. h \in Saves /\ h \in Underway
  BY DEF Payloads, Underway
<1>2. /\ answered' = answered \cup ({saving[h].fact} \cap memory)
      /\ excused' = (excused \cup IF saving[h].crossed THEN answered' ELSE {}) \ saving[h].rows
  BY DEF Lands, Tells
<1>3. /\ Holds(saving[h].rows, saving[h].fact)
      /\ \A f \in saving[h].rows : Holds(memory, f)
  BY DEF DurableInv, Remembered
<1>4. ~ saving[h].crossed => Owed \subseteq saving[h].rows
  BY <1>1 DEF DurableInv, Alone
<1>5. ASSUME NEW f \in Owed', f \notin saving[h].rows PROVE FALSE
  <2>1. f \in answered' /\ f \notin excused' /\ ReadBack(f)
    BY <1>5 DEF Owed, ReadBack
  <2>2. ~ saving[h].crossed /\ f \notin excused
    BY <1>2, <1>5, <2>1
  <2>3. f # saving[h].fact
    BY <1>3, <1>5, <2>1 DEF Holds
  <2>4. f \in Owed
    BY <1>2, <2>1, <2>2, <2>3 DEF Owed
  <2> QED
    BY <1>4, <1>5, <2>2, <2>4
<1>6. \A f \in Owed' : ReadBack(f)
  BY DEF Owed, ReadBack
<1> QED
  BY <1>3, <1>5, <1>6 DEF Holds
LEMMA TakeDurable ==
    ASSUME StoreInv, DurableInv, NEW h \in Handler, Take(h)
    PROVE  DurableInv'
<1>1. h \in Saves /\ backend \in {"json", "postgres"} /\ saving[h].step = "begun"
      /\ saving' = Crossing(h, "taken", memory)
      /\ UNCHANGED <<backend, memory, file, answered, excused>>
  BY DEF Take, At
<1>2. memory \in SUBSET Fact
  BY FactSets
<1>3. Holds(memory, saving[h].fact) /\ Owed \subseteq memory
      /\ \A f \in memory : Holds(memory, f)
  BY <1>1 DEF DurableInv, Remembered, Holds
<1>4. Landed'
  <2>1. Exposed' <=> Exposed
    <3>1. /\ Saves' = Saves /\ saving'[h].step = "taken"
          /\ \A x \in Saves \ {h} : saving'[x].step = saving[x].step
      BY <1>1, <1>2, CrossingFields
    <3> QED
      BY <1>1, <3>1 DEF Exposed
  <2>2. Owed' = Owed /\ Rows' = Rows
    BY <1>1 DEF Owed, ReadBack, Rows
  <2> QED
    BY <1>1, <2>1, <2>2 DEF DurableInv, Landed
<1> QED
  BY <1>1, <1>2, <1>3, <1>4, GoesOnDurable

LEMMA ClearsDurable ==
    ASSUME StoreInv, DurableInv, NEW h \in Handler, Open(h) \/ Delete(h)
    PROVE  DurableInv'
<1>1. CASE Open(h)
  <2>1. h \in Saves /\ backend = "json" /\ saving[h].step = "taken"
        /\ saving' = Crossing(h, "opened", saving[h].rows) /\ file' = {}
        /\ UNCHANGED <<backend, memory, answered, excused>>
    BY <1>1 DEF Open, At
  <2>2. h \in Payloads /\ h \in Underway /\ saving[h].rows \in SUBSET Fact
    BY <2>1, SaveRecord DEF Payloads, Underway
  <2>3. /\ Holds(saving[h].rows, saving[h].fact)
        /\ \A f \in saving[h].rows : Holds(memory, f)
        /\ ~ saving[h].crossed => Owed \subseteq saving[h].rows
    BY <2>2 DEF DurableInv, Remembered, Alone
  <2>4. Exposed'
    <3>1. Saves' = Saves /\ saving'[h].step = "opened"
      BY <2>1, <2>2, CrossingFields
    <3> QED
      BY <2>1, <3>1 DEF Exposed
  <2>5. Landed'
    BY <2>1, <2>4 DEF Landed
  <2> QED
    BY <2>1, <2>2, <2>3, <2>5, GoesOnDurable
<1>2. CASE Delete(h)
  <2>1. h \in Saves /\ backend = "sqlite" /\ saving[h].step = "begun"
        /\ saving' = Crossing(h, "deleted", {}) /\ file' = {}
        /\ UNCHANGED <<backend, memory, answered, excused>>
    BY <1>2 DEF Delete, At
  <2>2. Exposed'
    <3>1. Saves' = Saves /\ saving'[h].step = "deleted"
      BY <2>1, CrossingFields
    <3> QED
      BY <2>1, <3>1 DEF Exposed
  <2>3. Landed'
    BY <2>1, <2>2 DEF Landed
  <2> QED
    BY <2>1, <2>3, GoesOnDurable
<1> QED
  BY <1>1, <1>2

LEMMA WriteDurable ==
    ASSUME StoreInv, DurableInv, NEW h \in Handler, Write(h)
    PROVE  DurableInv'
<1>1. h \in Saves /\ backend = "json" /\ saving[h].step = "opened"
      /\ UNCHANGED <<backend, memory>>
  BY DEF Write, At
<1>2. h \in Payloads /\ h \in Underway /\ saving[h].rows \in SUBSET Fact
  BY <1>1, SaveRecord DEF Payloads, Underway
<1>3. CASE file' = saving[h].rows /\ Lands(h, saving[h].rows)
  <2>1. saving' = [saving EXCEPT ![h] = None]
    BY <1>3 DEF Lands, Tells
  <2>2. Owed' \subseteq saving[h].rows /\ Owed' \subseteq memory
    BY <1>1, <1>2, <1>3, LandsOwed
  <2>3. Rows' = saving[h].rows
    BY <1>2, <1>3, TornIsNoRows DEF Rows
  <2> QED
    BY <1>1, <1>2, <2>1, <2>2, <2>3, EndsDurable
<1>4. CASE file # {} /\ file' = Torn /\ Lands(h, {})
  <2>1. saving' = [saving EXCEPT ![h] = None]
    BY <1>4 DEF Lands, Tells
  <2>2. saving[h].crossed
    BY <1>1, <1>2, <1>4 DEF DurableInv, Alone
  <2>3. answered' \subseteq excused'
    BY <1>4, <2>2 DEF Lands
  <2>4. Owed' = {}
    BY <2>3 DEF Owed
  <2> QED
    BY <1>1, <1>2, <2>1, <2>4, EndsDurable
<1> QED
  BY <1>3, <1>4 DEF Write

LEMMA InsertDurable ==
    ASSUME StoreInv, DurableInv, NEW h \in Handler, Insert(h)
    PROVE  DurableInv'
<1>1. h \in Saves /\ h \in Underway /\ file' = memory
      /\ excused' = excused \ memory /\ UNCHANGED <<backend, memory>>
      /\ answered' = answered \cup ({saving[h].fact} \cap memory)
      /\ saving' = [saving EXCEPT ![h] = None]
  BY DEF Insert, At, Tells, Underway
<1>2. Owed' \subseteq memory
  <2>1. Owed \subseteq memory
    BY DEF DurableInv, Remembered
  <2>2. ASSUME NEW f \in Owed', f \notin memory PROVE FALSE
    <3>1. f \in answered /\ f \notin excused /\ ReadBack(f)
      BY <1>1, <2>2 DEF Owed, ReadBack
    <3> QED
      BY <2>1, <2>2, <3>1 DEF Owed
  <2> QED
    BY <2>2
<1>3. Rows' = memory
  BY <1>1, FactSets, TornIsNoRows DEF Rows
<1> QED
  BY <1>1, <1>2, <1>3, EndsDurable

LEMMA CommitDurable ==
    ASSUME StoreInv, DurableInv, NEW h \in Handler, Commit(h)
    PROVE  DurableInv'
<1> DEFINE rows == {f \in saving[h].rows : f.kind # "key"}
<1>1. h \in Saves /\ backend = "postgres" /\ saving[h].step = "taken" /\ file' = rows
      /\ Lands(h, saving[h].rows) /\ UNCHANGED <<backend, memory>>
  BY DEF Commit, At
<1>2. h \in Payloads /\ h \in Underway /\ saving[h].rows \in SUBSET Fact
  BY <1>1, SaveRecord DEF Payloads, Underway
<1>3. Owed' \subseteq saving[h].rows /\ Owed' \subseteq memory
  BY <1>1, <1>2, LandsOwed
<1>4. \A f \in Owed' : f.kind # "key"
  <2>1. \A f \in Owed' : f.kind \in Kept[backend]
    BY <1>1 DEF Owed, ReadBack
  <2>2. "key" \notin Kept[backend]
    BY <1>1 DEF Kept
  <2> QED
    BY <2>1, <2>2
<1>5. Owed' \subseteq rows
  BY <1>3, <1>4
<1>6. rows \in SUBSET Fact
  BY <1>2
<1>7. saving' = [saving EXCEPT ![h] = None]
  BY <1>1 DEF Lands, Tells
<1> HIDE DEF rows
<1>8. Rows' = rows
  BY <1>1, <1>6, TornIsNoRows DEF Rows
<1> QED
  BY <1>1, <1>2, <1>3, <1>5, <1>7, <1>8, EndsDurable
\* A save that ends before it was under way, or fails, and owes no more than before
\* or what it has put into the file.
LEMMA QuietEndDurable ==
    ASSUME StoreInv, DurableInv, NEW h \in Saves, UNCHANGED <<backend, memory>>,
           Saves' = Saves \ {h},
           \A x \in Saves' : /\ saving'[x].fact = saving[x].fact
                             /\ saving'[x].step = saving[x].step
                             /\ saving'[x].rows = saving[x].rows,
           Owed' \subseteq memory, Alone', Landed'
    PROVE  DurableInv'
<1>1. \A x \in Payloads' : x \in Payloads /\ x \in Saves'
  BY DEF Payloads
<1>2. \A x \in Payloads' : Holds(saving'[x].rows, saving'[x].fact)
                           /\ \A f \in saving'[x].rows : Holds(memory, f)
  BY <1>1 DEF DurableInv, Remembered
<1>3. \A x \in Saves' : Holds(memory, saving'[x].fact)
  BY DEF DurableInv, Remembered
<1>4. Remembered'
  BY <1>2, <1>3 DEF Remembered, Holds, ReadBack
<1>5. StepsFit'
  BY DEF DurableInv, StepsFit
<1> QED
  BY <1>4, <1>5 DEF DurableInv

LEMMA UpsertDurable ==
    ASSUME StoreInv, DurableInv, NEW h \in Handler, Upsert(h)
    PROVE  DurableInv'
<1>1. /\ h \in Saves /\ backend = "postgres" /\ saving[h].step = "begun"
      /\ file' = file \cup {saving[h].fact}
      /\ answered' = answered \cup ({saving[h].fact} \cap memory)
      /\ saving' = [Crossing(h, "taken", {}) EXCEPT ![h] = None]
      /\ UNCHANGED <<backend, memory, excused>>
  BY DEF Upsert, At, Single
<1> DEFINE between == Crossing(h, "taken", {})
<1>2. /\ between \in [Handler -> Save \cup {None}] /\ h \in Handler
      /\ \A x \in Handler : between[x] =
            IF x = h
            THEN [saving[h] EXCEPT !.step = "taken", !.rows = {},
                                   !.crossed = @ \/ Underway \ {h} # {}]
            ELSE IF x \in Underway THEN [saving[x] EXCEPT !.crossed = TRUE]
            ELSE saving[x]
  <2>1. Known({}) /\ {} \in SUBSET Fact
    BY FactSets
  <2>2. between \in [Handler -> Save \cup {None}]
    BY <1>1, <2>1, CrossingKeeps
  <2> QED
    BY <2>2 DEF Crossing
<1>3. saving'[h] = None /\ \A x \in Handler \ {h} : saving'[x] = between[x]
  BY <1>1, <1>2
<1> HIDE DEF between
<1>4. ASSUME NEW x \in Saves \ {h}
      PROVE  /\ saving'[x] # None
             /\ saving'[x].fact = saving[x].fact
             /\ saving'[x].step = saving[x].step /\ saving'[x].rows = saving[x].rows
             /\ x \in Underway => saving'[x].crossed
  <2>1. x \in Handler /\ saving[x] \in Save /\ x # h
    BY SaveRecord DEF Saves
  <2>2. CASE x \in Underway
    <3>1. saving'[x] = [saving[x] EXCEPT !.crossed = TRUE]
      BY <1>2, <1>3, <2>1, <2>2
    <3>2. saving'[x] \in Save
      BY <2>1, <3>1 DEF Save
    <3> QED
      BY <2>1, <3>1, <3>2, NoneIsNoSave DEF Save
  <2>3. CASE x \notin Underway
    <3>1. saving'[x] = saving[x]
      BY <1>2, <1>3, <2>1, <2>3
    <3> QED
      BY <2>1, <2>3, <3>1, NoneIsNoSave
  <2> QED
    BY <2>2, <2>3
<1>5. Saves' = Saves \ {h}
  <2>1. \A x \in Handler \ Saves : saving'[x] = None
    BY <1>1, <1>2, <1>3 DEF Saves, Underway
  <2> QED
    BY <1>3, <1>4, <2>1 DEF Saves
<1>6. Owed' \subseteq Owed \cup {saving[h].fact} /\ Owed' \subseteq memory
  <2>1. Owed' \subseteq Owed \cup ({saving[h].fact} \cap memory)
    BY <1>1 DEF Owed, ReadBack
  <2> QED
    BY <2>1 DEF DurableInv, Remembered
<1>7. Alone'
  <2>1. ASSUME NEW x \in Underway' PROVE saving'[x].crossed
    <3>1. x \in Saves \ {h} /\ saving'[x].step # "begun"
      BY <1>5 DEF Underway
    <3>2. x \in Underway
      BY <1>4, <3>1 DEF Underway
    <3> QED
      BY <1>4, <3>1, <3>2
  <2> QED
    BY <2>1 DEF Alone
<1>8. Landed'
  <2>1. ~ Exposed
    BY <1>1 DEF DurableInv, StepsFit, Exposed
  <2>2. Owed \subseteq Rows /\ file # Torn /\ Rows = file
    BY <1>1, <2>1 DEF DurableInv, Landed, StoreInv, Rows
  <2>3. file' \in SUBSET Fact
    BY <1>1, <2>2, FactSets, SaveRecord
  <2>4. Rows' = file'
    BY <2>3, TornIsNoRows DEF Rows
  <2> QED
    BY <1>1, <1>6, <2>2, <2>4 DEF Landed
<1> QED
  BY <1>1, <1>4, <1>5, <1>6, <1>7, <1>8, QuietEndDurable

LEMMA FailDurable ==
    ASSUME StoreInv, DurableInv, NEW h \in Handler, Fail(h)
    PROVE  DurableInv'
<1>1. /\ saving' = [saving EXCEPT ![h] = None] /\ h \in Saves
      /\ excused' = IF backend = "sqlite" /\ file = {} THEN excused \cup answered ELSE excused
      /\ UNCHANGED <<backend, memory, file, answered>>
  BY DEF Fail, At
<1>2. /\ Saves' = Saves \ {h} /\ Underway' = Underway \ {h} /\ Payloads' = Payloads \ {h}
      /\ \A x \in Saves' : saving'[x] = saving[x]
      /\ Exposed' => Exposed
      /\ h \notin Underway => (Exposed => Exposed')
  BY <1>1, SavesGo
<1>3. Owed' \subseteq Owed /\ Rows' = Rows /\ Owed' \subseteq memory
      /\ (backend = "sqlite" /\ file = {} => Owed' = {})
  <2>1. Owed' \subseteq Owed /\ (backend = "sqlite" /\ file = {} => Owed' = {})
    BY <1>1 DEF Owed, ReadBack
  <2> QED
    BY <1>1, <2>1 DEF DurableInv, Remembered, Rows
<1>4. CASE backend \in {"json", "postgres"} /\ saving[h].step = "begun"
  <2>1. h \notin Underway
    BY <1>4 DEF Underway
  <2>2. Landed'
    BY <1>1, <1>2, <1>3, <1>4, <2>1 DEF DurableInv, Landed
  <2>3. Alone'
    <3>1. ASSUME NEW x \in Underway', ~ saving'[x].crossed
          PROVE  /\ Underway' = {x}
                 /\ x \in Payloads' => Owed' \subseteq saving'[x].rows
                 /\ saving'[x].step = "opened" => file' = {}
      <4>1. x \in Underway /\ Underway' = Underway /\ saving'[x] = saving[x]
        BY <1>2, <2>1 DEF Underway
      <4>2. /\ Underway = {x}
            /\ x \in Payloads => Owed \subseteq saving[x].rows
            /\ saving[x].step = "opened" => file = {}
        BY <3>1, <4>1 DEF DurableInv, Alone
      <4> QED
        BY <1>1, <1>2, <1>3, <4>1, <4>2
    <3> QED
      BY <3>1 DEF Alone
  <2> QED
    BY <1>1, <1>2, <1>3, <2>2, <2>3, QuietEndDurable
<1>5. CASE backend = "postgres" /\ saving[h].step = "taken"
  <2>1. h \in Underway
    BY <1>1, <1>5 DEF Underway
  <2>2. ~ Exposed
    BY <1>5 DEF DurableInv, StepsFit, Exposed
  <2>3. Owed' \subseteq Rows'
    BY <1>3, <2>2 DEF DurableInv, Landed
  <2> QED
    BY <1>1, <1>3, <2>1, <2>3, EndsDurable
<1>6. CASE backend = "sqlite" /\ saving[h].step = "deleted"
  <2>1. h \in Underway
    BY <1>1, <1>6 DEF Underway
  <2>2. Owed' \subseteq Rows'
    <3>1. CASE file = {}
      BY <1>3, <1>6, <3>1
    <3>2. CASE file # {}
      BY <1>3, <1>6, <3>2 DEF DurableInv, Landed
    <3> QED
      BY <3>1, <3>2
  <2> QED
    BY <1>1, <1>3, <2>1, <2>2, EndsDurable
<1> QED
  BY <1>4, <1>5, <1>6 DEF Fail, At

LEMMA StoreStepDurable ==
    ASSUME StoreInv, DurableInv, NEW h \in Handler, StoreStep(h)
    PROVE  DurableInv'
  BY TakeDurable, ClearsDurable, WriteDurable, InsertDurable, CommitDurable, UpsertDurable,
     FailDurable DEF StoreStep

\* A handler that saves nothing changes the state and begins to: no fact that is read
\* back goes.
LEMMA ChangeDurable ==
    ASSUME StoreInv, DurableInv, NEW h \in Handler, saving[h] = None,
           NEW facts, NEW fact, Change(h, facts, fact), answered' \subseteq answered,
           \A f \in memory : Holds(facts, f), Holds(facts, fact)
    PROVE  DurableInv'
<1> DEFINE save == [fact |-> fact, step |-> "begun", rows |-> {}, crossed |-> FALSE]
<1>1. memory' = facts /\ saving' = [saving EXCEPT ![h] = save]
      /\ UNCHANGED <<backend, file, excused>>
  BY DEF Change
<1>2. h \notin Saves /\ saving'[h] = save /\ \A x \in Saves : saving'[x] = saving[x]
  BY <1>1 DEF StoreInv, StoreTypeOK, Saves
<1>3. Saves' \subseteq Saves \cup {h} /\ Saves \subseteq Saves'
  <2>1. \A x \in Handler \ {h} : saving'[x] = saving[x]
    BY <1>1 DEF StoreInv, StoreTypeOK
  <2>2. \A x \in Saves : saving'[x] # None
    BY <1>2 DEF Saves
  <2> QED
    BY <2>1, <2>2 DEF Saves
<1>4. saving'[h].step = "begun" /\ saving'[h].fact = fact
  BY <1>2
<1> HIDE DEF save
<1>5. Underway' = Underway /\ Payloads' = Payloads
      /\ \A x \in Underway : saving'[x] = saving[x] /\ x \in Saves
  <2>1. \A x \in Saves' : x \in Underway' <=> saving'[x].step # "begun"
    BY DEF Underway
  <2>2. \A x \in Saves' : x \in Payloads' <=> saving'[x].step \in {"taken", "opened"}
    BY DEF Payloads
  <2>3. Underway' \subseteq Saves' /\ Payloads' \subseteq Saves'
    BY DEF Underway, Payloads
  <2>4. Underway' = Underway
    BY <1>2, <1>3, <1>4, <2>1, <2>3 DEF Underway
  <2>5. Payloads' = Payloads
    BY <1>2, <1>3, <1>4, <2>2, <2>3 DEF Payloads
  <2> QED
    BY <1>2, <2>4, <2>5 DEF Underway
<1>6. Owed' \subseteq Owed /\ Rows' = Rows /\ \A r, f : Holds(r, f)' <=> Holds(r, f)
  BY <1>1 DEF Owed, ReadBack, Rows, Holds
<1>7. \A f : Holds(memory, f) => Holds(facts, f)
  BY DEF Holds
<1>8. Remembered'
  <2>1. Owed' \subseteq memory'
    <3>1. \A f \in Owed : f \in memory /\ ReadBack(f)
      BY DEF DurableInv, Remembered, Owed
    <3> QED
      BY <1>1, <1>6, <3>1 DEF Holds
  <2>2. \A x \in Saves' : Holds(facts, saving'[x].fact)
    BY <1>2, <1>3, <1>4, <1>7 DEF DurableInv, Remembered
  <2>3. ASSUME NEW x \in Payloads'
        PROVE  /\ Holds(saving'[x].rows, saving'[x].fact)
               /\ \A f \in saving'[x].rows : Holds(facts, f)
    <3>1. x \in Payloads /\ saving'[x] = saving[x]
      BY <1>2, <1>5 DEF Payloads
    <3> QED
      BY <1>7, <3>1 DEF DurableInv, Remembered
  <2> QED
    BY <1>1, <2>1, <2>2, <2>3 DEF Remembered, Holds, ReadBack
<1>9. Alone'
  <2>1. ASSUME NEW x \in Underway', ~ saving'[x].crossed
        PROVE  /\ Underway' = {x}
               /\ x \in Payloads' => Owed' \subseteq saving'[x].rows
               /\ saving'[x].step = "opened" => file' = {}
    <3>1. x \in Underway /\ saving'[x] = saving[x]
      BY <1>5
    <3>2. /\ Underway = {x}
          /\ x \in Payloads => Owed \subseteq saving[x].rows
          /\ saving[x].step = "opened" => file = {}
      BY <2>1, <3>1 DEF DurableInv, Alone
    <3> QED
      BY <1>1, <1>5, <1>6, <3>1, <3>2
  <2> QED
    BY <2>1 DEF Alone
<1>10. Landed'
  <2>1. Exposed => Exposed'
    BY <1>2, <1>3 DEF Exposed
  <2> QED
    BY <1>1, <1>6, <2>1 DEF DurableInv, Landed
<1>11. StepsFit'
  BY <1>1, <1>2, <1>3, <1>4 DEF DurableInv, StepsFit
<1> QED
  BY <1>8, <1>9, <1>10, <1>11 DEF DurableInv

LEMMA ReloadDurable ==
    ASSUME StoreInv, DurableInv, Reload
    PROVE  DurableInv'
<1>1. file = Rows /\ file' = file /\ Rows' = Rows /\ memory' = Loaded(Rows)
      /\ UNCHANGED <<backend, answered>> /\ saving' = [h \in Handler |-> None]
      /\ excused' = IF Exposed THEN excused \cup answered ELSE excused
  BY DEF Reload, Rows
<1>2. Saves' = {} /\ Underway' = {} /\ Payloads' = {}
  BY <1>1 DEF Saves, Underway, Payloads
<1>3. Owed' \subseteq Rows
  <2>1. CASE Exposed
    <3>1. answered' \subseteq excused'
      BY <1>1, <2>1
    <3> QED
      BY <3>1 DEF Owed
  <2>2. CASE ~ Exposed
    <3>1. Owed' = Owed
      BY <1>1, <2>2 DEF Owed, ReadBack
    <3> QED
      BY <2>2, <3>1 DEF DurableInv, Landed
  <2> QED
    BY <2>1, <2>2
<1>4. Owed' \subseteq memory'
  <2>1. \A f \in Owed' : f.kind \in Kept[backend]
    BY <1>1 DEF Owed, ReadBack
  <2> QED
    BY <1>1, <1>3, <2>1 DEF Loaded
<1> QED
  BY <1>1, <1>2, <1>3, <1>4 DEF DurableInv, Remembered, Alone, Landed, StepsFit
\* A handler in the middle of a request saves nothing yet.
Serial == \A h \in Handler : task[h] = None \/ saving[h] = None

SurvivesInv == DurableInv /\ Serial

\* A step that saves nothing.
LEMMA UnsavedSurvives ==
    ASSUME SignInInv, SurvivesInv, NEW h \in Handler, UNCHANGED storeVars,
           task[h] # None \/ saving[h] = None,
           \A x \in Handler \ {h} : task'[x] = task[x]
    PROVE  SurvivesInv'
<1>1. DurableInv' /\ saving' = saving
  BY DurableUnchanged DEF SurvivesInv, storeVars
<1>2. Serial'
  BY <1>1 DEF SurvivesInv, Serial
<1> QED
  BY <1>1, <1>2 DEF SurvivesInv

\* A request that changes facts and begins to save them.
LEMMA SavedSurvives ==
    ASSUME SignInInv, SurvivesInv, NEW h \in Handler, task[h] # None \/ saving[h] = None,
           NEW facts, NEW fact, Change(h, facts, fact), answered' \subseteq answered,
           Stops(h) \/ (task' = task /\ task[h] = None),
           \A f \in memory : f \in facts \/ f.kind = "secret",
           fact \in facts \/ fact.kind = "secret"
    PROVE  SurvivesInv'
<1>1. StoreInv /\ saving[h] = None /\ saving \in [Handler -> Save \cup {None}]
      /\ task \in [Handler -> SignInTask \cup {None}]
  BY DEF SurvivesInv, Serial, SignInInv, SignInTypeOK, StoreTypeOK
<1>2. \A f : f.kind = "secret" => ~ ReadBack(f)
  BY <1>1, BackendKnown DEF ReadBack, Kept
<1>3. DurableInv'
  <2>1. (\A f \in memory : Holds(facts, f)) /\ Holds(facts, fact)
    BY <1>2 DEF Holds
  <2> QED
    BY <1>1, <2>1, ChangeDurable DEF SurvivesInv
<1>4. task'[h] = None /\ \A x \in Handler \ {h} : task'[x] = task[x] /\ saving'[x] = saving[x]
  BY <1>1 DEF Stops, Change
<1>5. Serial'
  BY <1>4 DEF SurvivesInv, Serial
<1> QED
  BY <1>3, <1>5 DEF SurvivesInv

LEMMA RequestSurvives ==
    ASSUME SignInInv, SurvivesInv, NEW h \in Handler, NEW k \in Phone \cup Name,
           \/ \E op \in {"request", "verify", "register"} : Request(h, op, k)
           \/ Login(h, k)
           \/ BeginEnable(h, k) \/ ConfirmEnable(h, k) \/ Disable(h, k)
    PROVE  SurvivesInv'
<1>1. task[h] = None /\ saving[h] = None /\ task \in [Handler -> SignInTask \cup {None}]
  BY DEF Request, Login, BeginEnable, ConfirmEnable, Disable, Idle,
         SignInInv, SignInTypeOK
<1>2. CASE (\E op \in {"request", "verify", "register"} : Request(h, op, k)) \/ BeginEnable(h, k)
  <2>1. UNCHANGED storeVars /\ \A x \in Handler \ {h} : task'[x] = task[x]
    BY <1>1, <1>2 DEF Request, BeginEnable
  <2> QED
    BY <1>1, <2>1, UnsavedSurvives
<1>3. CASE Login(h, k)
  <2>1. /\ Change(h, memory \cup {Of("session", k)}, Of("session", k))
        /\ UNCHANGED <<answered, task>>
    BY <1>3 DEF Login
  <2> QED
    BY <1>1, <2>1, SavedSurvives
<1>4. CASE ConfirmEnable(h, k)
  <2>1. /\ Change(h, memory \cup {Of("secret", k)}, Of("secret", k))
        /\ UNCHANGED <<answered, task>>
    BY <1>4 DEF ConfirmEnable
  <2> QED
    BY <1>1, <2>1, SavedSurvives
<1>5. CASE Disable(h, k)
  <2>1. /\ Change(h, memory \ {Of("secret", k)}, Of("secret", k))
        /\ answered' \subseteq answered /\ task' = task
    BY <1>5 DEF Disable
  <2>2. Of("secret", k).kind = "secret"
    BY DEF Of
  <2>3. \A f \in memory : f \in memory \ {Of("secret", k)} \/ f.kind = "secret"
    BY <2>2
  <2> QED
    BY <1>1, <2>1, <2>2, <2>3, SavedSurvives
<1> QED
  BY <1>2, <1>3, <1>4, <1>5

LEMMA MintKeySurvives ==
    ASSUME SignInInv, SurvivesInv, NEW h \in Handler, MintKey(h)
    PROVE  SurvivesInv'
<1>1. /\ task[h] = None /\ saving[h] = None
      /\ Change(h, memory \cup {Of("key", Remote)}, Of("key", Remote))
      /\ UNCHANGED <<answered, task>>
  BY DEF MintKey, Idle
<1> QED
  BY <1>1, SavedSurvives

\* Steps on the way to a change.
LEMMA StepSurvives ==
    ASSUME SignInInv, SurvivesInv, NEW h \in Handler,
           Limit(h) \/ RequestCode(h) \/ VerifyCode(h) \/ ChooseId(h)
    PROVE  SurvivesInv'
<1>1. task[h] # None /\ UNCHANGED storeVars
  BY DEF Limit, RequestCode, VerifyCode, ChooseId, Step
<1>2. task \in [Handler -> SignInTask \cup {None}]
  BY DEF SignInInv, SignInTypeOK
<1>3. \E t : task' = [task EXCEPT ![h] = t]
  BY DEF Limit, RequestCode, VerifyCode, ChooseId, Stops, Goes, WrongCode, RightCode
<1>4. \A x \in Handler \ {h} : task'[x] = task[x]
  BY <1>2, <1>3
<1> QED
  BY <1>1, <1>4, UnsavedSurvives

LEMMA LookUpSurvives ==
    ASSUME SignInInv, SurvivesInv, NEW h \in Handler, LookUp(h)
    PROVE  SurvivesInv'
<1>1. task[h] # None /\ task \in [Handler -> SignInTask \cup {None}]
  BY DEF LookUp, Step, Does, SignInInv, SignInTypeOK
<1>2. CASE UNCHANGED storeVars /\ (Goes(h, "absent") \/ Stops(h))
  <2>1. \A x \in Handler \ {h} : task'[x] = task[x]
    BY <1>1, <1>2 DEF Goes, Stops
  <2> QED
    BY <1>1, <1>2, <2>1, UnsavedSurvives
<1>3. ASSUME NEW f \in Accounts(task[h].key),
             Change(h, memory \cup {Of("session", task[h].key)}, f),
             Stops(h), answered' = answered
      PROVE  SurvivesInv'
  <2>1. f \in memory
    BY DEF Accounts
  <2> QED
    BY <1>1, <1>3, <2>1, SavedSurvives
<1> QED
  BY <1>2, <1>3 DEF LookUp

LEMMA CreateAccountSurvives ==
    ASSUME SignInInv, SurvivesInv, NEW h \in Handler, CreateAccount(h)
    PROVE  SurvivesInv'
<1> DEFINE k == task[h].key
           new == Account(k, task[h].id)
           lost == IF new \in memory THEN {Of("secret", k)} ELSE {}
           facts == (memory \ lost) \cup {new, Of("session", k)}
<1>1. task[h] # None /\ Stops(h) /\ Change(h, facts, new) /\ answered' = answered
  BY DEF CreateAccount, Step
<1>2. \A f : f \in lost => f.kind = "secret"
  BY DEF Of
<1>3. (\A f \in memory : f \in facts \/ f.kind = "secret") /\ new \in facts
  BY <1>2
<1> HIDE DEF facts, lost, new
<1> QED
  BY <1>1, <1>3, SavedSurvives

LEMMA SaveSurvives ==
    ASSUME SignInInv, SurvivesInv, NEW h \in Handler, StoreStep(h), task' = task
    PROVE  SurvivesInv'
<1>1. DurableInv' /\ StoreInv
  BY StoreStepDurable DEF SignInInv, SurvivesInv
<1>2. Saves' \subseteq Saves
  <2>1. h \in Saves /\ saving[h].rows \in SUBSET Fact /\ memory \in SUBSET Fact
        /\ saving \in [Handler -> Save \cup {None}] /\ Known({}) /\ {} \in SUBSET Fact
        /\ Known(memory) /\ Known(saving[h].rows)
    <3>1. h \in Saves
      BY DEF StoreStep, Take, Open, Write, Delete, Insert, Commit, Upsert, Fail, At, Saves,
             StoreInv, StoreTypeOK, SignInInv
    <3> QED
      BY <1>1, <3>1, SaveRecord, FactSets DEF StoreInv, StoreTypeOK
  <2>2. CASE saving' = [saving EXCEPT ![h] = None]
    BY <2>1, <2>2 DEF Saves
  <2>3. ASSUME NEW step \in {"taken", "opened", "deleted"}, NEW rows \in SUBSET Fact,
               Known(rows),
               \/ saving' = Crossing(h, step, rows)
               \/ saving' = [Crossing(h, step, rows) EXCEPT ![h] = None]
        PROVE  Saves' \subseteq Saves
    <3>1. /\ Crossing(h, step, rows) \in [Handler -> Save \cup {None}]
          /\ \A x \in Handler : Crossing(h, step, rows)[x] # None => x \in Saves
      BY <1>1, <2>1, <2>3, CrossingKeeps
    <3> QED
      BY <2>1, <2>3, <3>1 DEF Saves
  <2> QED
    BY <2>1, <2>2, <2>3 DEF StoreStep, Take, Open, Write, Delete, Insert, Commit, Upsert, Fail,
       Lands, Tells
<1>3. Serial'
  BY <1>2 DEF SurvivesInv, Serial, Saves
<1> QED
  BY <1>1, <1>3 DEF SurvivesInv

LEMMA TimeSurvives ==
    ASSUME SurvivesInv, UNCHANGED <<storeVars, task>>
    PROVE  SurvivesInv'
  BY DurableUnchanged DEF SurvivesInv, Serial, storeVars

LEMMA RestartSurvives ==
    ASSUME SignInInv, SurvivesInv, RestartServer
    PROVE  SurvivesInv'
<1>1. DurableInv'
  BY ReloadDurable DEF SignInInv, SurvivesInv, RestartServer
<1>2. Serial'
  BY DEF RestartServer, Serial
<1> QED
  BY <1>1, <1>2 DEF SurvivesInv

LEMMA SignInInitSurvives == SignInInit => SurvivesInv
  BY DurableInit DEF SignInInit, SurvivesInv, Serial
================================================================================
