------------------------ MODULE PropertyEntitiesProofs ------------------------
(***************************************************************************)
(* The entities of one property, for any number of choices, faults and     *)
(* messages under way, and for any temperatures and levels: the last       *)
(* choice wins, what is shown adds up with the messages to the appliance,  *)
(* and the light comes back at the level it had.                           *)
(***************************************************************************)
EXTENDS PropertyEntities, FiniteSetTheorems, SequenceTheorems, TLAPS

-----------------------------------------------------------------------------
(* The tables *)

LEMMA StatesAre ==
    ASSUME NEW P, NEW state \in StatesWith(P)
    PROVE  DOMAIN state = P /\ \A key \in P : state[key] \in ValuesOf[key]
BY DEF StatesWith

LEMMA IsState ==
    ASSUME NEW P, NEW S, NEW state \in [P -> S],
           \A key \in P : state[key] \in ValuesOf[key]
    PROVE  state \in StatesWith(P)
<1> DEFINE all == UNION {ValuesOf[key] : key \in P}
<1>1. \A key \in P : state[key] \in all
  OBVIOUS
<1>2. state \in [P -> all]
  <2> HIDE DEF all
  <2> QED
    BY <1>1
<1> QED
  BY <1>2 DEF StatesWith

\* What may be told of some properties.
Knowledge(P) == UNION {StatesWith(D) : D \in SUBSET P}

LEMMA KnowledgeIs ==
    ASSUME NEW P, NEW data \in Knowledge(P)
    PROVE  /\ DOMAIN data \subseteq P
           /\ \A key \in DOMAIN data : data[key] \in ValuesOf[key]
<1>1. PICK D \in SUBSET P : data \in StatesWith(D)
  BY DEF Knowledge
<1>2. DOMAIN data = D /\ \A key \in D : data[key] \in ValuesOf[key]
  BY <1>1, StatesAre
<1> QED
  BY <1>2

LEMMA IsKnowledge ==
    ASSUME NEW P, NEW D \in SUBSET P, NEW data \in StatesWith(D)
    PROVE  data \in Knowledge(P)
BY DEF Knowledge

LEMMA NoKnowledge ==
    ASSUME NEW P
    PROVE  <<>> \in Knowledge(P) /\ DOMAIN <<>> = {}
<1>1. DOMAIN <<>> = {}
  OBVIOUS
<1>2. <<>> \in [{} -> {}] /\ {} \in SUBSET P
  OBVIOUS
<1>3. <<>> \in StatesWith({})
  BY <1>2, IsState
<1> QED
  BY <1>1, <1>2, <1>3, IsKnowledge

LEMMA SubjectsAre ==
    ASSUME NEW s \in Subjects
    PROVE  s \in {"crisper", "light", "humidity", "doors", "oven"}
BY SubjectAssumption DEF PropertiesOf

LEMMA WritableIs ==
    Writable = {"crisp_set_temp", "crisp_temp_mode", "accent_light_level",
                "humidity_control", "cav_light_on"}
BY DEF Writable, ChoicesOf

\* A drawer with a switch of its own.
Own(entity, P) == entity = "ref2_door_ajar" /\ entity \in P

LEMMA TablesAre ==
    ASSUME subject \in Subjects, NEW P \in PropertiesOf[subject]
    PROVE  /\ Entities \cap Writable \subseteq P
           /\ IsFiniteSet(Entities)
           /\ subject = "light" => P = {"accent_light_level"}
<1>1. subject \in {"crisper", "light", "humidity", "doors", "oven"}
  BY SubjectsAre
<1>2. Entities \cap Writable \subseteq P
      /\ (subject = "light" => P = {"accent_light_level"})
  <2>1. CASE subject = "crisper"
    BY <2>1, WritableIs DEF Entities, EntitiesOf, PropertiesOf
  <2>2. CASE subject = "light"
    BY <2>2, WritableIs DEF Entities, EntitiesOf, PropertiesOf
  <2>3. CASE subject = "humidity"
    BY <2>3, WritableIs DEF Entities, EntitiesOf, PropertiesOf
  <2>4. CASE subject = "doors"
    BY <2>4, WritableIs DEF Entities, EntitiesOf, PropertiesOf
  <2>5. CASE subject = "oven"
    BY <2>5, WritableIs DEF Entities, EntitiesOf, PropertiesOf
  <2> QED
    BY <1>1, <2>1, <2>2, <2>3, <2>4, <2>5
<1>3. IsFiniteSet(Entities)
  <2>1. \/ Entities = {"crisp_set_temp", "crisp_temp_mode"}
        \/ Entities = {"accent_light_level", "accent_light_level"}
        \/ Entities = {"humidity_control", "humidity_control"}
        \/ Entities = {"door_ajar", "ref2_door_ajar"}
        \/ Entities = {"door_ajar", "cav_light_on"}
    BY <1>1 DEF Entities, EntitiesOf
  <2>2. PICK a, b : Entities = {a, b}
    BY <2>1, Zenon
  <2>3. IsFiniteSet({}) /\ IsFiniteSet({} \cup {a}) /\ IsFiniteSet(({} \cup {a}) \cup {b})
    BY FS_EmptySet, FS_AddElement, Zenon
  <2>4. Entities = ({} \cup {a}) \cup {b}
    BY <2>2
  <2> QED
    BY <2>3, <2>4
<1> QED
  BY <1>2, <1>3

\* The property an entity is published from, given the ones there are.
SourceOf(s, entity, P) ==
    LET main == IF s = "oven" THEN "cav_door_ajar" ELSE "ref_door_ajar"
    IN  IF entity \in {"door_ajar", "ref2_door_ajar"}
        THEN IF main \in P THEN main ELSE "door_ajar"
        ELSE entity

\* It does not depend on the message, except for a drawer with a switch of its
\* own.
LEMMA SourceIs ==
    ASSUME subject \in Subjects, NEW P \in PropertiesOf[subject],
           NEW entity \in Entities, ~Own(entity, P),
           NEW data, DOMAIN data \subseteq P
    PROVE  /\ SourceOf(subject, entity, P) \in P
           /\ entity \in ToldIn(data) <=> SourceOf(subject, entity, P) \in DOMAIN data
           /\ entity \in ToldIn(data) =>
                Source(entity, data) = SourceOf(subject, entity, P)
           /\ entity \in Writable => SourceOf(subject, entity, P) = entity
<1>1. subject \in {"crisper", "light", "humidity", "doors", "oven"}
  BY SubjectsAre
<1>2. entity \in ToldIn(data) <=> Source(entity, data) \in DOMAIN data
  BY DEF ToldIn
<1> DEFINE src == SourceOf(subject, entity, P)
<1>3. CASE subject \in {"crisper", "light", "humidity"}
  <2>1. src = entity /\ Source(entity, data) = entity /\ entity \in P
    BY <1>3 DEF Source, SourceOf, Entities, EntitiesOf, PropertiesOf
  <2> QED
    BY <1>2, <2>1
<1>4. CASE subject = "doors"
  <2>1. /\ entity \in {"door_ajar", "ref2_door_ajar"}
        /\ P \in {{"ref_door_ajar"}, {"door_ajar"}, {"ref_door_ajar", "ref2_door_ajar"}}
        /\ MainDoor = "ref_door_ajar"
        /\ src = IF "ref_door_ajar" \in P THEN "ref_door_ajar" ELSE "door_ajar"
    BY <1>4 DEF Entities, EntitiesOf, PropertiesOf, MainDoor, SourceOf
  <2> HIDE DEF src
  <2>2. src \in P
    BY <2>1
  <2>3. /\ DoorName(data) \in DOMAIN data <=> src \in DOMAIN data
        /\ DoorName(data) \in DOMAIN data => DoorName(data) = src
    BY <2>1 DEF DoorName
  <2>4. Source(entity, data) = DoorName(data)
    BY <2>1 DEF Own, Source, DrawerName
  <2>5. entity \notin Writable
    BY <2>1, WritableIs
  <2> QED
    BY <1>2, <2>2, <2>3, <2>4, <2>5 DEF src
<1>5. CASE subject = "oven"
  <2>1. /\ entity \in {"door_ajar", "cav_light_on"}
        /\ P \in {{"cav_door_ajar", "cav_light_on"}, {"door_ajar", "cav_light_on"}}
        /\ MainDoor = "cav_door_ajar"
        /\ entity = "cav_light_on" => src = entity
        /\ entity = "door_ajar" =>
              src = IF "cav_door_ajar" \in P THEN "cav_door_ajar" ELSE "door_ajar"
    BY <1>5 DEF Entities, EntitiesOf, PropertiesOf, MainDoor, SourceOf
  <2> HIDE DEF src
  <2>2. CASE entity = "cav_light_on"
    BY <1>2, <2>1, <2>2 DEF Source, src
  <2>3. CASE entity = "door_ajar"
    <3>1. src \in P
      BY <2>1, <2>3
    <3>2. /\ DoorName(data) \in DOMAIN data <=> src \in DOMAIN data
          /\ DoorName(data) \in DOMAIN data => DoorName(data) = src
      BY <2>1, <2>3 DEF DoorName
    <3>3. Source(entity, data) = DoorName(data)
      BY <2>3 DEF Source
    <3>4. entity \notin Writable
      BY <2>3, WritableIs
    <3> QED
      BY <1>2, <3>1, <3>2, <3>3, <3>4 DEF src
  <2> QED
    BY <2>1, <2>2, <2>3
<1> QED
  BY <1>1, <1>3, <1>4, <1>5

-----------------------------------------------------------------------------
(* The queue of writes *)

Writes(F) == UNION {[key : {k}, value : ValuesOf[k]] : k \in F}

LEMMA WritesAre ==
    ASSUME NEW F, NEW w \in Writes(F)
    PROVE  w.key \in F /\ w.value \in ValuesOf[w.key]
BY DEF Writes

LEMMA IsWrite ==
    ASSUME NEW F, NEW k \in F, NEW v \in ValuesOf[k]
    PROVE  [key |-> k, value |-> v] \in Writes(F)
BY DEF Writes

\* No property is pending twice.
Distinct(q) == \A i, j \in DOMAIN q : q[i].key = q[j].key => i = j

Queues(F) == {q \in Seq(Writes(F)) : Distinct(q)}

Pending(q) == {q[i] : i \in DOMAIN q}

LEMMA QueuesAre ==
    ASSUME NEW F, NEW q \in Queues(F)
    PROVE  /\ q \in Seq(Writes(F)) /\ Len(q) \in Nat /\ DOMAIN q = 1..Len(q)
           /\ \A i \in 1..Len(q) : q[i] \in Writes(F)
           /\ \A i, j \in 1..Len(q) : q[i].key = q[j].key => i = j
           /\ Pending(q) = {q[i] : i \in 1..Len(q)}
<1>1. q \in Seq(Writes(F)) /\ Distinct(q)
  BY DEF Queues
<1>2. Len(q) \in Nat /\ DOMAIN q = 1..Len(q)
      /\ \A i \in 1..Len(q) : q[i] \in Writes(F)
  BY <1>1
<1> QED
  BY <1>1, <1>2 DEF Distinct, Pending

LEMMA NothingQueued ==
    ASSUME NEW F
    PROVE  <<>> \in Queues(F) /\ Pending(<<>>) = {}
<1>1. <<>> \in Seq(Writes(F)) /\ DOMAIN <<>> = {}
  OBVIOUS
<1> QED
  BY <1>1 DEF Queues, Distinct, Pending

\* The new write takes the place of one of its property, or the last place.
Enters(w, q, r, n) ==
    /\ DOMAIN q = 1..n /\ 1..n \subseteq DOMAIN r /\ n \in Nat
    /\ \E i \in DOMAIN r : r[i] = w
    /\ \A i \in 1..n :
        /\ r[i].key = q[i].key
        /\ q[i].key # w.key => r[i] = q[i]
        /\ q[i].key = w.key => r[i] = w
    /\ \A i \in DOMAIN r :
        \/ i \in 1..n
        \/ /\ i = n + 1 /\ r[i] = w
           /\ \A j \in 1..n : q[j].key # w.key

LEMMA EnqueuedOrder ==
    ASSUME NEW F, NEW q \in Queues(F), NEW w \in Writes(F)
    PROVE  /\ Enqueued(q, w) \in Queues(F)
           /\ Enters(w, q, Enqueued(q, w), Len(q))
<1> DEFINE n == Len(q)
           r == Enqueued(q, w)
<1>1. /\ q \in Seq(Writes(F)) /\ n \in Nat /\ DOMAIN q = 1..n
      /\ \A i \in 1..n : q[i] \in Writes(F)
      /\ \A i, j \in 1..n : q[i].key = q[j].key => i = j
  BY QueuesAre
<1>2. CASE \E i \in 1..n : q[i].key = w.key
  <2>1. r = [i \in 1..n |-> IF q[i].key = w.key THEN w ELSE q[i]]
    BY <1>1, <1>2 DEF Enqueued
  <2> HIDE DEF r
  <2>2. PICK k \in 1..n : q[k].key = w.key
    BY <1>2
  <2>3. /\ DOMAIN r = 1..n
        /\ \A i \in 1..n : r[i] = IF q[i].key = w.key THEN w ELSE q[i]
    BY <2>1
  <2>4. r \in [1..n -> Writes(F)]
    BY <1>1, <2>1
  <2>5. r \in Seq(Writes(F))
    BY <1>1, <2>4
  <2>6. \A i \in 1..n : r[i].key = q[i].key
    BY <2>3
  <2>7. Distinct(r)
    BY <1>1, <2>3, <2>6 DEF Distinct
  <2>8. r \in Queues(F)
    BY <2>5, <2>7 DEF Queues
  <2>9. Enters(w, q, r, n)
    BY <1>1, <2>2, <2>3, <2>6 DEF Enters
  <2> QED
    BY <2>8, <2>9 DEF r
<1>3. CASE ~\E i \in 1..n : q[i].key = w.key
  <2>1. r = Append(q, w)
    BY <1>1, <1>3 DEF Enqueued
  <2> HIDE DEF r
  <2>2. /\ r \in Seq(Writes(F)) /\ Len(r) = n + 1 /\ DOMAIN r = 1..(n + 1)
        /\ \A i \in 1..n : r[i] = q[i]
        /\ r[n + 1] = w
    BY <1>1, <2>1
  <2>3. /\ \A i \in 1..(n + 1) : i \in 1..n \/ i = n + 1
        /\ n + 1 \in 1..(n + 1) /\ 1..n \subseteq 1..(n + 1)
    BY <1>1
  <2>4. Distinct(r)
    <3>1. ASSUME NEW i \in 1..(n + 1), NEW j \in 1..(n + 1), r[i].key = r[j].key
          PROVE  i = j
      BY <1>1, <1>3, <2>2, <2>3, <3>1
    <3> QED
      BY <2>2, <3>1 DEF Distinct
  <2>5. r \in Queues(F)
    BY <2>2, <2>4 DEF Queues
  <2>6. \A i \in 1..n : q[i].key # w.key
    BY <1>3
  <2>7. Enters(w, q, r, n)
    <3> HIDE DEF n
    <3> QED
      BY <1>1, <2>2, <2>3, <2>6 DEF Enters
  <2> QED
    BY <2>5, <2>7 DEF r
<1> QED
  BY <1>2, <1>3

\* The new write is pending, and so is every other one of another property.
LEMMA EnqueuedIs ==
    ASSUME NEW F, NEW q \in Queues(F), NEW w \in Writes(F)
    PROVE  /\ Enqueued(q, w) \in Queues(F)
           /\ w \in Pending(Enqueued(q, w))
           /\ \A x \in Pending(q) : x.key # w.key => x \in Pending(Enqueued(q, w))
           /\ \A x \in Pending(Enqueued(q, w)) :
                x = w \/ (x \in Pending(q) /\ x.key # w.key)
<1> DEFINE n == Len(q)
           r == Enqueued(q, w)
<1>1. r \in Queues(F) /\ Enters(w, q, r, n)
  BY EnqueuedOrder
<1> HIDE DEF r, n
<1>2. /\ DOMAIN q = 1..n
      /\ \A i \in 1..n : i \in DOMAIN r /\ (q[i].key # w.key => r[i] = q[i])
  BY <1>1 DEF Enters
<1>3. ASSUME NEW i \in DOMAIN r, r[i] # w PROVE i \in 1..n /\ q[i].key # w.key
  BY <1>1, <1>3 DEF Enters
<1>4. w \in Pending(r)
  BY <1>1 DEF Enters, Pending
<1>5. ASSUME NEW x \in Pending(q), x.key # w.key PROVE x \in Pending(r)
  <2>1. PICK i \in 1..n : x = q[i]
    BY <1>2 DEF Pending
  <2>2. x = r[i] /\ i \in DOMAIN r
    BY <1>5, <1>2, <2>1
  <2> QED
    BY <2>2 DEF Pending
<1>6. ASSUME NEW x \in Pending(r)
      PROVE  x = w \/ (x \in Pending(q) /\ x.key # w.key)
  <2>1. PICK i \in DOMAIN r : x = r[i]
    BY DEF Pending
  <2>2. ASSUME x # w PROVE x \in Pending(q) /\ x.key # w.key
    <3>1. i \in 1..n /\ q[i].key # w.key
      BY <1>3, <2>1, <2>2
    <3>2. x = q[i] /\ i \in DOMAIN q
      BY <1>2, <2>1, <3>1
    <3> QED
      BY <3>1, <3>2 DEF Pending
  <2> QED
    BY <2>2
<1> QED
  BY <1>1, <1>4, <1>5, <1>6 DEF r

\* What is left of the queue when its oldest write has been taken.
LEMMA TailIs ==
    ASSUME NEW F, NEW q \in Queues(F), q # <<>>
    PROVE  /\ Tail(q) \in Queues(F)
           /\ Head(q) \in Pending(q) /\ Head(q) \in Writes(F)
           /\ \A x \in Pending(Tail(q)) : x \in Pending(q) /\ x.key # Head(q).key
           /\ \A x \in Pending(q) : x = Head(q) \/ x \in Pending(Tail(q))
<1> DEFINE n == Len(q)
           r == Tail(q)
<1>1. /\ q \in Seq(Writes(F)) /\ n \in Nat /\ n # 0
      /\ \A i \in 1..n : q[i] \in Writes(F)
      /\ \A i, j \in 1..n : q[i].key = q[j].key => i = j
      /\ Pending(q) = {q[i] : i \in 1..n}
  BY QueuesAre
<1>2. /\ r \in Seq(Writes(F)) /\ Len(r) = n - 1 /\ DOMAIN r = 1..(n - 1)
      /\ \A i \in 1..(n - 1) : r[i] = q[i + 1]
      /\ Head(q) = q[1]
  BY <1>1
<1> HIDE DEF r, n
<1>3. /\ 1 \in 1..n /\ \A i \in 1..(n - 1) : i + 1 \in 1..n /\ i + 1 # 1
      /\ \A i \in 1..n : i = 1 \/ (i - 1 \in 1..(n - 1) /\ (i - 1) + 1 = i)
      /\ \A i, j \in 1..(n - 1) : i + 1 = j + 1 => i = j
  BY <1>1
<1>4. Distinct(r)
  <2>1. ASSUME NEW i \in 1..(n - 1), NEW j \in 1..(n - 1), r[i].key = r[j].key
        PROVE  i = j
    <3>1. i + 1 \in 1..n /\ j + 1 \in 1..n /\ q[i + 1].key = q[j + 1].key
      BY <1>2, <1>3, <2>1
    <3>2. i + 1 = j + 1
      BY <1>1, <3>1
    <3> QED
      BY <1>3, <3>2
  <2> QED
    BY <1>2, <2>1 DEF Distinct
<1>5. Head(q) \in Pending(q) /\ Head(q) \in Writes(F)
  BY <1>1, <1>2, <1>3
<1>6. ASSUME NEW x \in Pending(r) PROVE x \in Pending(q) /\ x.key # Head(q).key
  <2>1. PICK i \in 1..(n - 1) : x = q[i + 1]
    BY <1>2 DEF Pending
  <2> QED
    BY <1>1, <1>2, <1>3, <2>1
<1>7. ASSUME NEW x \in Pending(q) PROVE x = Head(q) \/ x \in Pending(r)
  <2>1. PICK i \in 1..n : x = q[i]
    BY <1>1
  <2>2. CASE i = 1
    BY <1>2, <2>1, <2>2
  <2>3. CASE i # 1
    <3>1. i - 1 \in 1..(n - 1) /\ (i - 1) + 1 = i
      BY <1>3, <2>3
    <3>2. r[i - 1] = x
      BY <1>2, <2>1, <3>1
    <3> QED
      BY <1>2, <3>1, <3>2 DEF Pending
  <2> QED
    BY <2>2, <2>3
<1> QED
  BY <1>2, <1>4, <1>5, <1>6, <1>7 DEF Queues, r

\* There is room for each property once.
LEMMA QueueIsSmall ==
    ASSUME NEW F, IsFiniteSet(F), NEW q \in Queues(F)
    PROVE  Len(q) <= Cardinality(F)
<1> DEFINE f == [i \in 1..Len(q) |-> q[i].key]
<1>1. /\ Len(q) \in Nat /\ \A i \in 1..Len(q) : q[i] \in Writes(F)
      /\ \A i, j \in 1..Len(q) : q[i].key = q[j].key => i = j
  BY QueuesAre
<1>2. f \in Injection(1..Len(q), F)
  <2>1. \A i \in 1..Len(q) : q[i].key \in F
    BY <1>1, WritesAre
  <2> QED
    BY <1>1, <2>1 DEF Injection, IsInjective
<1>3. Cardinality(1..Len(q)) <= Cardinality(F)
  <2> HIDE DEF f
  <2> QED
    BY <1>2, FS_Injection
<1>4. Cardinality(1..Len(q)) = Len(q)
  <2>1. 1 \in Int /\ Len(q) \in Int
    BY <1>1
  <2>2. Cardinality(1..Len(q)) = IF 1 > Len(q) THEN 0 ELSE Len(q) - 1 + 1
    BY <2>1, FS_Interval
  <2> QED
    BY <1>1, <2>2
<1> QED
  BY <1>3, <1>4

-----------------------------------------------------------------------------
(* The messages under way *)

Reports(P) == [shape : Shapes, data : Knowledge(P)]

LEMMA ExtractDataIs ==
    ASSUME NEW P, NEW message \in Reports(P)
    PROVE  ExtractData(message) \in Knowledge(P)
BY NoKnowledge DEF Reports, ExtractData

\* Some message under way tells property p.
TheyTell(ms, p) == \E i \in DOMAIN ms : p \in DOMAIN ExtractData(ms[i])

\* The last message with a property tells what the appliance `app` has.
LastWord(ms, app) ==
    \A p \in DOMAIN app : \A i \in DOMAIN ms :
        /\ p \in DOMAIN ExtractData(ms[i])
        /\ \A j \in DOMAIN ms : j > i => p \notin DOMAIN ExtractData(ms[j])
        => ExtractData(ms[i])[p] = app[p]

\* What the messages tell of p is one of some values.
TheyTellOf(ms, p, values) ==
    \A i \in DOMAIN ms :
        p \in DOMAIN ExtractData(ms[i]) => ExtractData(ms[i])[p] \in values

LEMMA TailTells ==
    ASSUME NEW P, NEW ms \in Seq(Reports(P)), ms # <<>>
    PROVE  /\ Head(ms) \in Reports(P) /\ Tail(ms) \in Seq(Reports(P))
           /\ Len(Tail(ms)) = Len(ms) - 1 /\ Len(ms) \in Nat
           /\ \A p : TheyTell(ms, p) <=>
                    TheyTell(Tail(ms), p) \/ p \in DOMAIN ExtractData(Head(ms))
           /\ \A app : LastWord(ms, app) =>
                /\ LastWord(Tail(ms), app)
                /\ \A p \in DOMAIN app :
                      p \in DOMAIN ExtractData(Head(ms)) /\ ~TheyTell(Tail(ms), p)
                      => ExtractData(Head(ms))[p] = app[p]
           /\ \A p, values : TheyTellOf(ms, p, values) =>
                /\ TheyTellOf(Tail(ms), p, values)
                /\ p \in DOMAIN ExtractData(Head(ms)) =>
                      ExtractData(Head(ms))[p] \in values
<1> DEFINE n == Len(ms)
           rest == Tail(ms)
           first == Head(ms)
<1>1. n \in Nat /\ n # 0 /\ DOMAIN ms = 1..n
  OBVIOUS
<1>2. /\ DOMAIN rest = 1..(n - 1) /\ \A i \in 1..(n - 1) : rest[i] = ms[i + 1]
      /\ first = ms[1] /\ first \in Reports(P)
      /\ rest \in Seq(Reports(P)) /\ Len(rest) = n - 1
  BY <1>1
<1> HIDE DEF n, rest, first
<1>3. /\ 1 \in 1..n /\ \A i \in 1..(n - 1) : i + 1 \in 1..n /\ i + 1 > 1
      /\ \A i \in 1..n : i = 1 \/ (i - 1 \in 1..(n - 1) /\ (i - 1) + 1 = i)
      /\ \A i \in 1..n : i > 1 => i - 1 \in 1..(n - 1) /\ (i - 1) + 1 = i
      /\ \A i \in 1..(n - 1), j \in 1..n : j > i + 1 =>
            j - 1 \in 1..(n - 1) /\ (j - 1) + 1 = j /\ j - 1 > i
  BY <1>1
<1>4. \A p : TheyTell(ms, p) <=> TheyTell(rest, p) \/ p \in DOMAIN ExtractData(first)
  <2> TAKE p
  <2>1. ASSUME TheyTell(ms, p)
        PROVE  TheyTell(rest, p) \/ p \in DOMAIN ExtractData(first)
    <3>1. PICK i \in 1..n : p \in DOMAIN ExtractData(ms[i])
      BY <1>1, <2>1 DEF TheyTell
    <3>2. CASE i = 1
      BY <1>2, <3>1, <3>2
    <3>3. CASE i # 1
      <4>1. i - 1 \in 1..(n - 1) /\ rest[i - 1] = ms[i]
        BY <1>2, <1>3, <3>3
      <4> QED
        BY <1>2, <3>1, <4>1 DEF TheyTell
    <3> QED
      BY <3>2, <3>3
  <2>2. ASSUME TheyTell(rest, p) PROVE TheyTell(ms, p)
    <3>1. PICK i \in 1..(n - 1) : p \in DOMAIN ExtractData(rest[i])
      BY <1>2, <2>2 DEF TheyTell
    <3>2. i + 1 \in 1..n /\ rest[i] = ms[i + 1]
      BY <1>2, <1>3
    <3> QED
      BY <1>1, <3>1, <3>2 DEF TheyTell
  <2>3. ASSUME p \in DOMAIN ExtractData(first) PROVE TheyTell(ms, p)
    BY <1>1, <1>2, <1>3, <2>3 DEF TheyTell
  <2> QED
    BY <2>1, <2>2, <2>3
<1>5. ASSUME NEW app, LastWord(ms, app)
      PROVE  /\ LastWord(rest, app)
             /\ \A p \in DOMAIN app :
                   p \in DOMAIN ExtractData(first) /\ ~TheyTell(rest, p)
                   => ExtractData(first)[p] = app[p]
  <2>1. ASSUME NEW p \in DOMAIN app, NEW i \in 1..(n - 1),
               p \in DOMAIN ExtractData(rest[i]),
               \A j \in 1..(n - 1) : j > i => p \notin DOMAIN ExtractData(rest[j])
        PROVE  ExtractData(rest[i])[p] = app[p]
    <3>1. rest[i] = ms[i + 1] /\ i + 1 \in 1..n
      BY <1>2, <1>3
    <3>2. ASSUME NEW j \in 1..n, j > i + 1 PROVE p \notin DOMAIN ExtractData(ms[j])
      <4>1. j - 1 \in 1..(n - 1) /\ j - 1 > i /\ rest[j - 1] = ms[j]
        BY <1>2, <1>3, <3>2
      <4> QED
        BY <2>1, <4>1
    <3> QED
      BY <1>1, <1>5, <2>1, <3>1, <3>2 DEF LastWord
  <2>2. LastWord(rest, app)
    BY <1>2, <2>1 DEF LastWord
  <2>3. ASSUME NEW p \in DOMAIN app, p \in DOMAIN ExtractData(first),
               ~TheyTell(rest, p)
        PROVE  ExtractData(first)[p] = app[p]
    <3>1. ASSUME NEW j \in 1..n, j > 1 PROVE p \notin DOMAIN ExtractData(ms[j])
      <4>1. j - 1 \in 1..(n - 1) /\ rest[j - 1] = ms[j]
        BY <1>2, <1>3, <3>1
      <4> QED
        BY <1>2, <2>3, <4>1 DEF TheyTell
    <3> QED
      BY <1>1, <1>2, <1>3, <1>5, <2>3, <3>1 DEF LastWord
  <2> QED
    BY <2>2, <2>3
<1>6. ASSUME NEW p, NEW values, TheyTellOf(ms, p, values)
      PROVE  /\ TheyTellOf(rest, p, values)
             /\ p \in DOMAIN ExtractData(first) => ExtractData(first)[p] \in values
  BY <1>1, <1>2, <1>3, <1>6 DEF TheyTellOf
<1> QED
  BY <1>1, <1>2, <1>4, <1>5, <1>6 DEF n, rest, first

\* A new message that tells what changed, or everything.
LEMMA AppendTells ==
    ASSUME NEW P, NEW ms \in Seq(Reports(P)), NEW message \in Reports(P)
    PROVE  /\ Append(ms, message) \in Seq(Reports(P))
           /\ Len(Append(ms, message)) = Len(ms) + 1 /\ Len(ms) \in Nat
           /\ \A p : TheyTell(Append(ms, message), p) <=>
                    TheyTell(ms, p) \/ p \in DOMAIN ExtractData(message)
           /\ \A app, after :
                /\ DOMAIN app = DOMAIN after
                /\ \A p \in DOMAIN after :
                     \/ /\ p \in DOMAIN ExtractData(message)
                        /\ ExtractData(message)[p] = after[p]
                     \/ /\ p \notin DOMAIN ExtractData(message)
                        /\ after[p] = app[p] /\ LastWord(ms, app)
                => LastWord(Append(ms, message), after)
           /\ \A p, values :
                /\ TheyTellOf(ms, p, values)
                /\ p \in DOMAIN ExtractData(message) =>
                      ExtractData(message)[p] \in values
                => TheyTellOf(Append(ms, message), p, values)
<1> DEFINE n == Len(ms)
           all == Append(ms, message)
<1>1. n \in Nat /\ DOMAIN ms = 1..n
  OBVIOUS
<1>2. /\ DOMAIN all = 1..(n + 1) /\ \A i \in 1..n : all[i] = ms[i]
      /\ all[n + 1] = message
      /\ all \in Seq(Reports(P)) /\ Len(all) = n + 1
  BY <1>1
<1> HIDE DEF n, all
<1>3. /\ \A i \in 1..(n + 1) : i = n + 1 \/ i \in 1..n
      /\ \A i \in 1..n : i \in 1..(n + 1) /\ n + 1 > i
      /\ n + 1 \in 1..(n + 1)
  BY <1>1
<1>4. \A p : TheyTell(all, p) <=> TheyTell(ms, p) \/ p \in DOMAIN ExtractData(message)
  BY <1>1, <1>2, <1>3 DEF TheyTell
<1>5. ASSUME NEW app, NEW after, DOMAIN app = DOMAIN after,
             \A p \in DOMAIN after :
                \/ /\ p \in DOMAIN ExtractData(message)
                   /\ ExtractData(message)[p] = after[p]
                \/ /\ p \notin DOMAIN ExtractData(message)
                   /\ after[p] = app[p] /\ LastWord(ms, app)
      PROVE  LastWord(all, after)
  <2>1. ASSUME NEW p \in DOMAIN after, NEW i \in 1..(n + 1),
               p \in DOMAIN ExtractData(all[i]),
               \A j \in 1..(n + 1) : j > i => p \notin DOMAIN ExtractData(all[j])
        PROVE  ExtractData(all[i])[p] = after[p]
    <3>1. CASE i = n + 1
      BY <1>2, <1>5, <2>1, <3>1
    <3>2. CASE i \in 1..n
      <4>1. p \notin DOMAIN ExtractData(message)
        BY <1>2, <1>3, <2>1, <3>2
      <4>2. after[p] = app[p] /\ LastWord(ms, app) /\ p \in DOMAIN app
        BY <1>5, <4>1
      <4>3. \A j \in 1..n : j > i => p \notin DOMAIN ExtractData(ms[j])
        BY <1>2, <1>3, <2>1
      <4>4. all[i] = ms[i]
        BY <1>2, <3>2
      <4> QED
        BY <1>1, <2>1, <3>2, <4>2, <4>3, <4>4 DEF LastWord
    <3> QED
      BY <1>3, <3>1, <3>2
  <2> QED
    BY <1>2, <2>1 DEF LastWord
<1>6. ASSUME NEW p, NEW values, TheyTellOf(ms, p, values),
             p \in DOMAIN ExtractData(message) => ExtractData(message)[p] \in values
      PROVE  TheyTellOf(all, p, values)
  BY <1>1, <1>2, <1>3, <1>6 DEF TheyTellOf
<1> QED
  BY <1>1, <1>2, <1>4, <1>5, <1>6 DEF n, all

LEMMA ChangedIs ==
    ASSUME NEW P, NEW before \in StatesWith(P), NEW after \in StatesWith(P)
    PROVE  /\ Changed(before, after) \in Knowledge(P)
           /\ \A key \in P :
                \/ /\ key \in DOMAIN Changed(before, after)
                   /\ Changed(before, after)[key] = after[key]
                \/ /\ key \notin DOMAIN Changed(before, after)
                   /\ after[key] = before[key]
<1> DEFINE keys == {key \in P : after[key] # before[key]}
           changed == Changed(before, after)
           all == {after[key] : key \in keys}
<1>1. /\ DOMAIN before = P /\ DOMAIN after = P
      /\ \A key \in P : after[key] \in ValuesOf[key]
  BY StatesAre
<1>2. changed = [key \in keys |-> after[key]]
  BY <1>1 DEF Changed
<1>3. changed \in [keys -> all] /\ keys \in SUBSET P
  BY <1>2
<1>4. DOMAIN changed = keys /\ \A key \in keys : changed[key] = after[key]
  BY <1>2
<1>5. \A key \in keys : changed[key] \in ValuesOf[key]
  BY <1>1, <1>4
<1> HIDE DEF changed, all
<1>6. \A key \in P :
        \/ key \in DOMAIN changed /\ changed[key] = after[key]
        \/ key \notin DOMAIN changed /\ after[key] = before[key]
  BY <1>4
<1>7. changed \in Knowledge(P)
  <2> HIDE DEF keys
  <2>1. changed \in StatesWith(keys)
    BY <1>3, <1>5, IsState
  <2> QED
    BY <1>3, <2>1, IsKnowledge
<1> QED
  BY <1>6, <1>7 DEF changed

-----------------------------------------------------------------------------
(* What is shown and what is written *)

LightValues == ValuesOf["accent_light_level"]

LEMMA ValuesAre ==
    /\ \A value \in ValuesOf["crisp_set_temp"] : value \in Nat
    /\ \A setting \in Settings : Rounded(setting) \in ValuesOf["crisp_set_temp"]
    /\ ValuesOf["crisp_temp_mode"] = {0, 1}
    /\ LightValues = {0, DefaultOnLevel} \cup Levels
    /\ \A value \in LightValues : value \in Nat
    /\ ValuesOf["humidity_control"] = {1, 2}
    /\ ValuesOf["cav_light_on"] = BOOLEAN
<1>1. /\ ValuesOf["crisp_set_temp"] = {Rounded(setting) : setting \in Settings}
      /\ ValuesOf["crisp_temp_mode"] = {0, 1}
      /\ LightValues = {0, DefaultOnLevel} \cup Levels
      /\ ValuesOf["humidity_control"] = {1, 2}
      /\ ValuesOf["cav_light_on"] = BOOLEAN
  BY DEF ValuesOf, LightValues
<1>2. \A setting \in Settings : Rounded(setting) \in Nat
  <2>1. ASSUME NEW setting \in Nat PROVE (setting + 5) \div 10 \in Nat
    OBVIOUS
  <2> QED
    BY <2>1, SubjectAssumption DEF Rounded
<1>3. \A value \in LightValues : value \in Nat
  BY <1>1, SubjectAssumption
<1> QED
  BY <1>1, <1>2, <1>3

\* A temperature that is chosen is written to the nearest degree, whatever the
\* front end sends; the other choices are written as they are.
LEMMA WrittenIs ==
    ASSUME NEW entity \in Writable, NEW choice \in ChoicesOf[entity],
           onLevel \in LightValues
    PROVE  /\ Written(entity, choice) \in ValuesOf[entity]
           /\ Agrees(entity, choice, Written(entity, choice))
<1>1. CASE entity = "crisp_set_temp"
  <2>1. choice \in Settings /\ choice \in Nat
    BY <1>1, SubjectAssumption DEF ChoicesOf
  <2>2. choice - 10 * ((choice + 5) \div 10) \in -5..5
    BY <2>1
  <2> QED
    BY <1>1, <2>1, <2>2, ValuesAre DEF Written, Agrees, Rounded
<1>2. CASE entity = "crisp_temp_mode"
  <2>1. choice \in BOOLEAN
    BY <1>2 DEF ChoicesOf
  <2> QED
    BY <1>2, <2>1, ValuesAre DEF Written, Agrees, Displayed
<1>3. CASE entity = "accent_light_level"
  <2>1. choice \in BOOLEAN
    BY <1>3 DEF ChoicesOf
  <2>2. OnLevel \in LightValues /\ OnLevel > 0
    BY ValuesAre, SubjectAssumption DEF OnLevel
  <2>3. Written(entity, choice) = IF choice THEN OnLevel ELSE 0
    BY <1>3 DEF Written
  <2>4. Written(entity, choice) \in LightValues
    BY <2>2, <2>3, ValuesAre
  <2>5. choice = (Written(entity, choice) > 0)
    BY <2>1, <2>2, <2>3
  <2> QED
    BY <1>3, <2>4, <2>5 DEF Agrees, Displayed, LightValues
<1>4. CASE entity = "humidity_control"
  <2>1. choice \in {"Normal", "Enhanced"}
    BY <1>4 DEF ChoicesOf
  <2> QED
    BY <1>4, <2>1, ValuesAre DEF Written, Agrees, Displayed
<1>5. CASE entity = "cav_light_on"
  <2>1. choice \in BOOLEAN
    BY <1>5 DEF ChoicesOf
  <2> QED
    BY <1>5, <2>1, ValuesAre DEF Written, Agrees, Displayed
<1> QED
  BY <1>1, <1>2, <1>3, <1>4, <1>5, WritableIs

LEMMA DisplayedAgrees ==
    ASSUME NEW entity, NEW value,
           entity = "crisp_set_temp" => value \in ValuesOf["crisp_set_temp"]
    PROVE  Agrees(entity, Displayed(entity, value), value)
<1>1. CASE entity = "crisp_set_temp"
  <2>1. value \in Nat
    BY <1>1, ValuesAre
  <2>2. 10 * value - 10 * value \in -5..5
    BY <2>1
  <2> QED
    BY <1>1, <2>2 DEF Agrees, Displayed
<1>2. CASE entity # "crisp_set_temp"
  BY <1>2 DEF Agrees
<1> QED
  BY <1>1, <1>2

LEMMA ReportedIs ==
    ASSUME NEW states, NEW data
    PROVE  /\ DOMAIN Reported(states, data) = DOMAIN states \cup ToldIn(data)
           /\ \A entity \in ToldIn(data) :
                Reported(states, data)[entity] =
                    Displayed(entity, data[Source(entity, data)])
           /\ \A entity \in DOMAIN states : entity \notin ToldIn(data) =>
                Reported(states, data)[entity] = states[entity]
BY DEF Reported

LEMMA WithIs ==
    ASSUME NEW f, NEW k, NEW v
    PROVE  /\ DOMAIN With(f, k, v) = DOMAIN f \cup {k}
           /\ With(f, k, v)[k] = v
           /\ \A x \in DOMAIN f : x # k => With(f, k, v)[x] = f[x]
BY DEF With

LEMMA WithoutIs ==
    ASSUME NEW f, NEW keys
    PROVE  /\ DOMAIN Without(f, keys) = DOMAIN f \ keys
           /\ \A x \in DOMAIN f : x \notin keys => Without(f, keys)[x] = f[x]
BY DEF Without

LEMMA RememberedIs ==
    ASSUME NEW level \in LightValues, NEW P, NEW data \in Knowledge(P)
    PROVE  Remembered(level, data) \in LightValues
<1>1. \A key \in DOMAIN data : data[key] \in ValuesOf[key]
  BY KnowledgeIs
<1> QED
  BY <1>1 DEF Remembered, LightValues

-----------------------------------------------------------------------------
(* The parts of the inductive invariant, as relations of values *)

\* LastValueWins while writes are pending: a choice agrees with its pending write,
\* or else with the appliance.
ChosenHolds(c, q, app) ==
    \A e \in DOMAIN c :
        /\ \A x \in Pending(q) : x.key = e => Agrees(e, c[e], x.value)
        /\ (\A x \in Pending(q) : x.key # e) => Agrees(e, c[e], app[e])

Temp == "crisp_set_temp"
Mode == "crisp_temp_mode"

\* The last word on the crisper's mode, pending or in force, is manual.
Manual(q, app) ==
    /\ \A x \in Pending(q) : x.key = Mode => x.value = 0
    /\ (\A x \in Pending(q) : x.key # Mode) => app[Mode] = 0

\* A set temperature that is chosen and pending finds the crisper on manual, or a
\* write behind it turns the automatic off.
TempHolds(c, q, app) ==
    Temp \in DOMAIN c /\ (\E x \in Pending(q) : x.key = Temp) => Manual(q, app)

\* EntitiesAddUp while writes are pending: what is shown, if no message is about
\* it, agrees with the appliance or with the pending write.
ShownHolds(s, states, ms, q, app) ==
    \A e \in DOMAIN states :
        LET src == SourceOf(s, e, DOMAIN app)
        IN  ~Own(e, DOMAIN app) /\ ~TheyTell(ms, src) =>
                \/ Agrees(e, states[e], app[src])
                \/ \E x \in Pending(q) : x.key = e /\ Agrees(e, states[e], x.value)

Light == "accent_light_level"

\* At home the light, the writes and the messages know of no other level.
LightHolds(s, level, h, ms, q, app) ==
    h # NoLevel =>
        /\ s = "light" /\ level = h /\ app[Light] \in {0, h}
        /\ \A x \in Pending(q) : x.value \in {0, h}
        /\ TheyTellOf(ms, Light, {0, h})

\* A choice joins the pending writes.
LEMMA ChosenEnqueued ==
    ASSUME NEW F, NEW q \in Queues(F), NEW w \in Writes(F), NEW app,
           NEW c, NEW after, ChosenHolds(c, q, app),
           \A e \in DOMAIN after :
                \/ e = w.key /\ Agrees(e, after[e], w.value)
                \/ e # w.key /\ e \in DOMAIN c /\ after[e] = c[e]
    PROVE  ChosenHolds(after, Enqueued(q, w), app)
<1> DEFINE r == Enqueued(q, w)
<1>1. /\ r \in Queues(F) /\ w \in Pending(r)
      /\ \A x \in Pending(q) : x.key # w.key => x \in Pending(r)
      /\ \A x \in Pending(r) : x = w \/ (x \in Pending(q) /\ x.key # w.key)
  BY EnqueuedIs
<1> HIDE DEF r
<1>2. ASSUME NEW e \in DOMAIN after
      PROVE  /\ \A x \in Pending(r) : x.key = e => Agrees(e, after[e], x.value)
             /\ (\A x \in Pending(r) : x.key # e) => Agrees(e, after[e], app[e])
  <2>1. CASE e = w.key /\ Agrees(e, after[e], w.value)
    BY <1>1, <2>1
  <2>2. CASE e # w.key /\ e \in DOMAIN c /\ after[e] = c[e]
    <3>1. /\ \A x \in Pending(q) : x.key = e => Agrees(e, c[e], x.value)
          /\ (\A x \in Pending(q) : x.key # e) => Agrees(e, c[e], app[e])
      BY <2>2 DEF ChosenHolds
    <3>2. \A x \in Pending(r) : x.key = e => Agrees(e, after[e], x.value)
      BY <1>1, <2>2, <3>1
    <3>3. ASSUME \A x \in Pending(r) : x.key # e PROVE \A x \in Pending(q) : x.key # e
      BY <1>1, <2>2, <3>3
    <3> QED
      BY <2>2, <3>1, <3>2, <3>3
  <2> QED
    BY <2>1, <2>2
<1> QED
  BY <1>2 DEF ChosenHolds, r

\* The oldest write is gone: it has become true, or the choice is off.
LEMMA ChosenTail ==
    ASSUME NEW F, NEW q \in Queues(F), q # <<>>, NEW app, NEW now,
           NEW c, NEW after, ChosenHolds(c, q, app),
           \A e \in DOMAIN after :
                /\ e \in DOMAIN c /\ after[e] = c[e]
                /\ \/ e # Head(q).key /\ now[e] = app[e]
                   \/ e = Head(q).key /\ now[e] = Head(q).value
    PROVE  ChosenHolds(after, Tail(q), now)
<1> DEFINE r == Tail(q)
           first == Head(q)
<1>1. /\ first \in Pending(q)
      /\ \A x \in Pending(r) : x \in Pending(q) /\ x.key # first.key
      /\ \A x \in Pending(q) : x = first \/ x \in Pending(r)
  BY TailIs, Zenon
<1> HIDE DEF r, first
<1>2. ASSUME NEW e \in DOMAIN after
      PROVE  /\ \A x \in Pending(r) : x.key = e => Agrees(e, after[e], x.value)
             /\ (\A x \in Pending(r) : x.key # e) => Agrees(e, after[e], now[e])
  <2>1. /\ e \in DOMAIN c /\ after[e] = c[e]
        /\ \A x \in Pending(q) : x.key = e => Agrees(e, c[e], x.value)
        /\ (\A x \in Pending(q) : x.key # e) => Agrees(e, c[e], app[e])
    BY DEF ChosenHolds
  <2>2. CASE e # first.key /\ now[e] = app[e]
    <3>1. ASSUME \A x \in Pending(r) : x.key # e PROVE \A x \in Pending(q) : x.key # e
      BY <1>1, <2>2, <3>1
    <3> QED
      BY <1>1, <2>1, <2>2, <3>1
  <2>3. CASE e = first.key /\ now[e] = first.value
    BY <1>1, <2>1, <2>3
  <2> QED
    BY <2>2, <2>3 DEF first
<1> QED
  BY <1>2 DEF ChosenHolds, r

\* With the queue the choices in it are gone.
LEMMA ChosenCleared ==
    ASSUME NEW F, NEW q \in Queues(F), NEW app, NEW c, ChosenHolds(c, q, app)
    PROVE  ChosenHolds(Without(c, {q[i].key : i \in DOMAIN q}), <<>>, app)
<1> DEFINE keys == {q[i].key : i \in DOMAIN q}
           after == Without(c, keys)
<1>1. /\ DOMAIN after = DOMAIN c \ keys
      /\ \A e \in DOMAIN c : e \notin keys => after[e] = c[e]
  BY WithoutIs
<1>2. Pending(<<>>) = {}
  BY NothingQueued
<1>3. \A x \in Pending(q) : x.key \in keys
  BY DEF Pending
<1> HIDE DEF keys, after
<1>4. ASSUME NEW e \in DOMAIN after PROVE Agrees(e, after[e], app[e])
  <2>1. e \in DOMAIN c /\ e \notin keys /\ after[e] = c[e]
    BY <1>1
  <2>2. \A x \in Pending(q) : x.key # e
    BY <1>3, <2>1
  <2> QED
    BY <2>1, <2>2 DEF ChosenHolds
<1> QED
  BY <1>2, <1>4 DEF ChosenHolds, after, keys

\* A choice keeps the crisper on manual for the temperature that is pending.
LEMMA TempEnqueued ==
    ASSUME NEW F, NEW q \in Queues(F), NEW w \in Writes(F), NEW app,
           NEW c, NEW after, TempHolds(c, q, app),
           Temp \in DOMAIN after =>
                \/ w.key = Temp /\ Manual(q, app)
                \/ w.key = Mode /\ w.value = 0
                \/ w.key # Temp /\ w.key # Mode /\ Temp \in DOMAIN c
    PROVE  TempHolds(after, Enqueued(q, w), app)
<1> DEFINE r == Enqueued(q, w)
<1>1. /\ w \in Pending(r)
      /\ \A x \in Pending(q) : x.key # w.key => x \in Pending(r)
      /\ \A x \in Pending(r) : x = w \/ (x \in Pending(q) /\ x.key # w.key)
  BY EnqueuedIs
<1> HIDE DEF r
<1> SUFFICES ASSUME Temp \in DOMAIN after, \E x \in Pending(r) : x.key = Temp
             PROVE  Manual(r, app)
  BY DEF TempHolds, r
<1>2. Temp # Mode
  BY DEF Temp, Mode
<1>3. CASE w.key = Mode /\ w.value = 0
  <2>1. \A x \in Pending(r) : x.key = Mode => x.value = 0
    BY <1>1, <1>3
  <2>2. ~\A x \in Pending(r) : x.key # Mode
    BY <1>1, <1>3
  <2> QED
    BY <2>1, <2>2 DEF Manual
<1>4. CASE w.key # Mode
  <2>1. Manual(q, app)
    <3>1. CASE w.key = Temp
      BY <1>2, <3>1
    <3>2. CASE w.key # Temp
      <4>1. \E x \in Pending(q) : x.key = Temp
        BY <1>1, <3>2
      <4> QED
        BY <1>4, <3>2, <4>1 DEF TempHolds
    <3> QED
      BY <3>1, <3>2
  <2>2. \A x \in Pending(r) : x.key = Mode => x \in Pending(q)
    BY <1>1, <1>4
  <2>3. \A x \in Pending(q) : x.key = Mode => x \in Pending(r)
    BY <1>1, <1>4
  <2> QED
    BY <2>1, <2>2, <2>3 DEF Manual
<1> QED
  BY <1>2, <1>3, <1>4

\* So it stays when the oldest write has arrived, or has failed and was not about
\* the mode.
LEMMA TempTail ==
    ASSUME NEW F, NEW q \in Queues(F), q # <<>>, NEW app, NEW now,
           NEW c, NEW after, TempHolds(c, q, app),
           Temp \in DOMAIN after =>
                /\ Temp \in DOMAIN c
                /\ \/ Head(q).key # Mode /\ now[Mode] = app[Mode]
                   \/ Head(q).key = Mode /\ now[Mode] = Head(q).value
    PROVE  TempHolds(after, Tail(q), now)
<1> DEFINE r == Tail(q)
           first == Head(q)
<1>1. /\ first \in Pending(q)
      /\ \A x \in Pending(r) : x \in Pending(q) /\ x.key # first.key
      /\ \A x \in Pending(q) : x = first \/ x \in Pending(r)
  BY TailIs, Zenon
<1>2. \/ Temp \notin DOMAIN after
      \/ /\ Temp \in DOMAIN c
         /\ \/ first.key # Mode /\ now[Mode] = app[Mode]
            \/ first.key = Mode /\ now[Mode] = first.value
  OBVIOUS
<1> HIDE DEF r, first
<1> SUFFICES ASSUME Temp \in DOMAIN after, \E x \in Pending(r) : x.key = Temp
             PROVE  Manual(r, now)
  BY DEF TempHolds, r
<1>3. Temp \in DOMAIN c /\ \E x \in Pending(q) : x.key = Temp
  BY <1>1, <1>2
<1>4. Manual(q, app)
  BY <1>3 DEF TempHolds
<1>5. \A x \in Pending(r) : x.key = Mode => x.value = 0
  BY <1>1, <1>4 DEF Manual
<1>6. ASSUME \A x \in Pending(r) : x.key # Mode PROVE now[Mode] = 0
  <2>1. CASE first.key = Mode
    BY <1>1, <1>2, <1>4, <2>1 DEF Manual
  <2>2. CASE first.key # Mode
    <3>1. \A x \in Pending(q) : x.key # Mode
      BY <1>1, <1>6, <2>2
    <3>2. app[Mode] = 0
      BY <1>4, <3>1 DEF Manual
    <3> QED
      BY <1>2, <2>2, <3>2
  <2> QED
    BY <2>1, <2>2
<1> QED
  BY <1>5, <1>6 DEF Manual

LEMMA ShownEnqueued ==
    ASSUME NEW F, NEW q \in Queues(F), NEW w \in Writes(F), NEW app, NEW ms,
           NEW s, NEW states, NEW choice, ShownHolds(s, states, ms, q, app),
           Agrees(w.key, choice, w.value)
    PROVE  ShownHolds(s, With(states, w.key, choice), ms, Enqueued(q, w), app)
<1> DEFINE r == Enqueued(q, w)
           after == With(states, w.key, choice)
<1>1. /\ w \in Pending(r)
      /\ \A x \in Pending(q) : x.key # w.key => x \in Pending(r)
  BY EnqueuedIs
<1>2. /\ DOMAIN after = DOMAIN states \cup {w.key} /\ after[w.key] = choice
      /\ \A e \in DOMAIN states : e # w.key => after[e] = states[e]
  BY DEF With
<1> HIDE DEF r, after
<1> SUFFICES ASSUME NEW e \in DOMAIN after, ~Own(e, DOMAIN app),
                    ~TheyTell(ms, SourceOf(s, e, DOMAIN app))
             PROVE  \/ Agrees(e, after[e], app[SourceOf(s, e, DOMAIN app)])
                    \/ \E x \in Pending(r) : x.key = e /\ Agrees(e, after[e], x.value)
  BY DEF ShownHolds, r, after
<1>3. CASE e = w.key
  BY <1>1, <1>2, <1>3
<1>4. CASE e # w.key
  <2>1. /\ e \in DOMAIN states /\ after[e] = states[e]
        /\ \/ Agrees(e, states[e], app[SourceOf(s, e, DOMAIN app)])
           \/ \E x \in Pending(q) : x.key = e /\ Agrees(e, states[e], x.value)
    BY <1>2, <1>4 DEF ShownHolds
  <2> QED
    BY <1>1, <1>4, <2>1
<1> QED
  BY <1>3, <1>4

\* The appliance becomes `now`, because the oldest write arrived or without one
\* (then the queue is as it was), and whatever changed is under way.
LEMMA ShownBecomes ==
    ASSUME NEW s, NEW states, NEW ms, NEW later, NEW q, NEW rest, NEW app, NEW now,
           ShownHolds(s, states, ms, q, app), DOMAIN now = DOMAIN app,
           \A p : TheyTell(ms, p) => TheyTell(later, p),
           \A e \in DOMAIN states : ~Own(e, DOMAIN app) =>
                LET src == SourceOf(s, e, DOMAIN app)
                IN  /\ TheyTell(later, src) \/ now[src] = app[src]
                    /\ \A x \in Pending(q) : x.key = e =>
                          x \in Pending(rest) \/ now[src] = x.value
    PROVE  ShownHolds(s, states, later, rest, now)
<1> SUFFICES ASSUME NEW e \in DOMAIN states, ~Own(e, DOMAIN app),
                    ~TheyTell(later, SourceOf(s, e, DOMAIN app))
             PROVE  \/ Agrees(e, states[e], now[SourceOf(s, e, DOMAIN app)])
                    \/ \E x \in Pending(rest) : x.key = e /\ Agrees(e, states[e], x.value)
  BY DEF ShownHolds
<1> DEFINE src == SourceOf(s, e, DOMAIN app)
<1>1. ~TheyTell(ms, src)
  OBVIOUS
<1>2. \/ Agrees(e, states[e], app[src])
      \/ \E x \in Pending(q) : x.key = e /\ Agrees(e, states[e], x.value)
  BY <1>1 DEF ShownHolds
<1>3. /\ now[src] = app[src]
      /\ \A x \in Pending(q) : x.key = e => x \in Pending(rest) \/ now[src] = x.value
  OBVIOUS
<1> HIDE DEF src
<1>4. CASE Agrees(e, states[e], app[src])
  BY <1>3, <1>4 DEF src
<1>5. CASE \E x \in Pending(q) : x.key = e /\ Agrees(e, states[e], x.value)
  BY <1>3, <1>5 DEF src
<1> QED
  BY <1>2, <1>4, <1>5

-----------------------------------------------------------------------------
(* The inductive invariant *)

EntityTypes ==
    /\ subject \in Subjects
    /\ DOMAIN appliance \in PropertiesOf[subject]
    /\ appliance \in StatesWith(DOMAIN appliance)
    /\ ready \in BOOLEAN
    /\ messages \in Seq(Reports(DOMAIN appliance))
    /\ Len(messages) <= MaxInFlight
    /\ queue \in Queues(EntitiesOf[subject] \cap Writable)
    /\ DOMAIN shown \subseteq EntitiesOf[subject]
    /\ onLevel \in LightValues
    /\ home \in LightValues
    /\ DOMAIN chosen \subseteq EntitiesOf[subject] \cap Writable
    /\ gap \in BOOLEAN
    /\ ~ready => gap
    /\ picks \in 0..MaxPicks
    /\ upsets \in 0..MaxUpsets

ChoicesHold ==
    ChosenHolds(chosen, queue, appliance) /\ TempHolds(chosen, queue, appliance)

Shows ==
    ~gap => LastWord(messages, appliance)
            /\ ShownHolds(subject, shown, messages, queue, appliance)

Lights == LightHolds(subject, onLevel, home, messages, queue, appliance)

EntityInv == EntityTypes /\ ChoicesHold /\ Shows /\ Lights

LEMMA NothingTold ==
    ASSUME NEW ms, ms = <<>>
    PROVE  \A p, values : ~TheyTell(ms, p) /\ TheyTellOf(ms, p, values)
<1>1. DOMAIN ms = {}
  OBVIOUS
<1> QED
  BY <1>1 DEF TheyTell, TheyTellOf

LEMMA InitEntities == Init => EntityInv
<1> SUFFICES ASSUME Init PROVE EntityInv
  OBVIOUS
<1>1. /\ subject \in Subjects /\ ready = FALSE /\ messages = <<>> /\ queue = <<>>
      /\ gap = TRUE /\ upsets = 0 /\ shown = <<>> /\ onLevel = 0 /\ chosen = <<>>
      /\ home = 0 /\ picks = 0
  BY DEF Init, CarrierInit, NoLevel
<1>2. DOMAIN appliance \in PropertiesOf[subject] /\ appliance \in StatesWith(DOMAIN appliance)
  <2>1. PICK properties \in PropertiesOf[subject] : appliance \in StatesWith(properties)
    BY DEF Init
  <2> QED
    BY <2>1, StatesAre
<1>3. queue \in Queues(EntitiesOf[subject] \cap Writable)
  BY <1>1, NothingQueued
<1>4. DOMAIN shown = {} /\ DOMAIN chosen = {}
  BY <1>1
<1>5. 0 \in LightValues
  BY ValuesAre
<1>6. messages \in Seq(Reports(DOMAIN appliance)) /\ Len(messages) <= MaxInFlight
  BY <1>1, LinkAssumption
<1>7. 0 \in 0..MaxPicks /\ 0 \in 0..MaxUpsets
  BY LinkAssumption, SubjectAssumption
<1>8. EntityTypes
  BY <1>1, <1>2, <1>3, <1>4, <1>5, <1>6, <1>7 DEF EntityTypes
<1>9. ChoicesHold
  <2>1. Temp \notin DOMAIN chosen
    BY <1>4
  <2> QED
    BY <1>4, <2>1 DEF ChoicesHold, ChosenHolds, TempHolds
<1>10. Shows /\ Lights
  BY <1>1 DEF Shows, Lights, LightHolds, NoLevel
<1> QED
  BY <1>8, <1>9, <1>10 DEF EntityInv

\* However the appliance comes by its new values, its message says so, or the
\* gap does.
LEMMA Becomes ==
    ASSUME EntityTypes, NEW after \in StatesWith(DOMAIN appliance),
           ApplianceBecomes(after)
    PROVE  /\ appliance' = after /\ DOMAIN appliance' = DOMAIN appliance
           /\ messages' \in Seq(Reports(DOMAIN appliance))
           /\ Len(messages') <= MaxInFlight
           /\ gap' \in BOOLEAN /\ (gap => gap')
           /\ \A p : TheyTell(messages, p) => TheyTell(messages', p)
           /\ ~gap' => \A p \in DOMAIN appliance :
                          TheyTell(messages', p) \/ after[p] = appliance[p]
           /\ ~gap' /\ LastWord(messages, appliance) => LastWord(messages', after)
           /\ \A values : TheyTellOf(messages, Light, values) /\ after[Light] \in values
                => TheyTellOf(messages', Light, values)
<1> DEFINE P == DOMAIN appliance
           message == [shape |-> "props", data |-> Changed(appliance, after)]
<1>1. /\ appliance \in StatesWith(P) /\ messages \in Seq(Reports(P))
      /\ Len(messages) <= MaxInFlight /\ gap \in BOOLEAN /\ DOMAIN after = P
  BY StatesAre DEF EntityTypes
<1>2. appliance' = after
  BY DEF ApplianceBecomes
<1>3. CASE after = appliance
  <2>1. messages' = messages /\ gap' = gap
    BY <1>3 DEF ApplianceBecomes
  <2> QED
    BY <1>1, <1>2, <1>3, <2>1
<1>4. CASE after # appliance /\ ~ready
  <2>1. messages' = messages /\ gap' = TRUE
    BY <1>4 DEF ApplianceBecomes
  <2> QED
    BY <1>1, <1>2, <2>1
<1>5. CASE after # appliance /\ ready
  <2>1. /\ Len(messages) < MaxInFlight /\ messages' = Append(messages, message)
        /\ gap' = gap
    BY <1>5 DEF ApplianceBecomes
  <2>2. /\ Changed(appliance, after) \in Knowledge(P)
        /\ \A key \in P :
             \/ /\ key \in DOMAIN Changed(appliance, after)
                /\ Changed(appliance, after)[key] = after[key]
             \/ /\ key \notin DOMAIN Changed(appliance, after)
                /\ after[key] = appliance[key]
    <3>1. after \in StatesWith(P)
      OBVIOUS
    <3>2. appliance \in StatesWith(P)
      BY <1>1
    <3> HIDE DEF P, message
    <3>3. Changed(appliance, after) \in Knowledge(P)
      BY <3>1, <3>2, ChangedIs
    <3> QED
      BY <3>1, <3>2, ChangedIs
  <2>3. message \in Reports(P) /\ ExtractData(message) = Changed(appliance, after)
    BY <2>2 DEF Reports, Shapes, ExtractData
  <2>4. DOMAIN ExtractData(message) \subseteq P
    BY <2>2, <2>3, KnowledgeIs
  <2> HIDE DEF P, message
  <2>5. /\ messages' \in Seq(Reports(P))
        /\ Len(messages') = Len(messages) + 1 /\ Len(messages) \in Nat
        /\ \A p : TheyTell(messages', p) <=>
                 TheyTell(messages, p) \/ p \in DOMAIN ExtractData(message)
        /\ \A p, values :
             /\ TheyTellOf(messages, p, values)
             /\ p \in DOMAIN ExtractData(message) =>
                   ExtractData(message)[p] \in values
             => TheyTellOf(messages', p, values)
    BY <1>1, <2>1, <2>3, AppendTells, Zenon
  <2>6. ASSUME LastWord(messages, appliance) PROVE LastWord(messages', after)
    <3>1. /\ DOMAIN appliance = DOMAIN after
          /\ \A p \in DOMAIN after :
               \/ /\ p \in DOMAIN ExtractData(message)
                  /\ ExtractData(message)[p] = after[p]
               \/ /\ p \notin DOMAIN ExtractData(message)
                  /\ after[p] = appliance[p] /\ LastWord(messages, appliance)
      BY <1>1, <2>2, <2>3, <2>6 DEF P
    <3>2. \A app, now :
            /\ DOMAIN app = DOMAIN now
            /\ \A p \in DOMAIN now :
                 \/ /\ p \in DOMAIN ExtractData(message)
                    /\ ExtractData(message)[p] = now[p]
                 \/ /\ p \notin DOMAIN ExtractData(message)
                    /\ now[p] = app[p] /\ LastWord(messages, app)
            => LastWord(messages', now)
      BY <1>1, <2>1, <2>3, AppendTells, Zenon
    <3> QED
      BY <3>1, <3>2, ZenonT(30)
  <2>7. ASSUME NEW p \in P PROVE TheyTell(messages', p) \/ after[p] = appliance[p]
    BY <2>2, <2>3, <2>5
  <2>8. ASSUME NEW values, TheyTellOf(messages, Light, values), after[Light] \in values
        PROVE  TheyTellOf(messages', Light, values)
    <3>1. Light \in DOMAIN ExtractData(message) => ExtractData(message)[Light] \in values
      BY <2>2, <2>3, <2>4, <2>8
    <3> QED
      BY <2>5, <2>8, <3>1, Zenon
  <2>9. Len(messages') <= MaxInFlight
    BY <2>1, <2>5, LinkAssumption
  <2> QED
    BY <1>1, <1>2, <2>1, <2>5, <2>6, <2>7, <2>8, <2>9 DEF P
<1> QED
  BY <1>3, <1>4, <1>5 DEF EntityTypes

\* What does not concern messages or queue disturbs nothing.
LEMMA KeepsChoices ==
    ASSUME ChoicesHold, UNCHANGED <<chosen, queue, appliance>> PROVE ChoicesHold'
BY DEF ChoicesHold

LEMMA KeepsShows ==
    ASSUME Shows, gap => gap',
           UNCHANGED <<subject, shown, messages, queue, appliance>>
    PROVE  Shows'
BY DEF Shows

LEMMA KeepsLights ==
    ASSUME Lights, UNCHANGED <<subject, onLevel, home, messages, queue, appliance>>
    PROVE  Lights'
BY DEF Lights

\* The oldest message is shown: it had the last word, or another one has it yet.
LEMMA DispatchShows ==
    ASSUME EntityTypes, Shows, ParseAndDispatch PROVE Shows'
<1> DEFINE P == DOMAIN appliance
           data == ExtractData(Head(messages))
           rest == Tail(messages)
<1>1. /\ messages # <<>> /\ messages' = rest /\ shown' = Reported(shown, data)
      /\ UNCHANGED <<subject, appliance, queue, gap>>
  BY DEF ParseAndDispatch, TakeMessage
<1>2. /\ subject \in Subjects /\ P \in PropertiesOf[subject]
      /\ appliance \in StatesWith(P) /\ messages \in Seq(Reports(P))
      /\ DOMAIN shown \subseteq Entities
  BY DEF EntityTypes, Entities
<1> SUFFICES ASSUME ~gap
             PROVE  /\ LastWord(rest, appliance)
                    /\ ShownHolds(subject, shown', rest, queue, appliance)
  BY <1>1 DEF Shows
<1> HIDE DEF P
<1>3. LastWord(messages, appliance) /\ ShownHolds(subject, shown, messages, queue, appliance)
  BY DEF Shows
<1>4. /\ Head(messages) \in Reports(P)
      /\ \A p : TheyTell(messages, p) <=> TheyTell(rest, p) \/ p \in DOMAIN data
      /\ LastWord(rest, appliance)
      /\ \A p \in P : p \in DOMAIN data /\ ~TheyTell(rest, p) => data[p] = appliance[p]
  BY <1>1, <1>2, <1>3, TailTells, Zenon DEF P
<1>5. DOMAIN data \subseteq P
  BY <1>4, ExtractDataIs, KnowledgeIs
<1> HIDE DEF data, rest
<1>6. /\ DOMAIN shown' = DOMAIN shown \cup ToldIn(data)
      /\ \A entity \in ToldIn(data) :
            shown'[entity] = Displayed(entity, data[Source(entity, data)])
      /\ \A entity \in DOMAIN shown : entity \notin ToldIn(data) =>
            shown'[entity] = shown[entity]
  BY <1>1 DEF Reported
<1>7. \A entity \in ToldIn(data) : entity \in Entities
  BY DEF ToldIn
<1>8. ASSUME NEW e \in DOMAIN shown', ~Own(e, P),
             ~TheyTell(rest, SourceOf(subject, e, P))
      PROVE  \/ Agrees(e, shown'[e], appliance[SourceOf(subject, e, P)])
             \/ \E x \in Pending(queue) : x.key = e /\ Agrees(e, shown'[e], x.value)
  <2> DEFINE src == SourceOf(subject, e, P)
  <2>1. e \in Entities
    BY <1>2, <1>6, <1>7
  <2>2. /\ src \in P
        /\ e \in ToldIn(data) <=> src \in DOMAIN data
        /\ e \in ToldIn(data) => Source(e, data) = src
    BY <1>2, <1>5, <1>8, <2>1, SourceIs
  <2>3. e = Temp => src = e
    BY DEF SourceOf, Temp
  <2> HIDE DEF src
  <2>4. CASE e \in ToldIn(data)
    <3>1. shown'[e] = Displayed(e, appliance[src])
      BY <1>4, <1>6, <1>8, <2>2, <2>4 DEF src
    <3>2. e = "crisp_set_temp" => appliance[src] \in ValuesOf["crisp_set_temp"]
      BY <1>2, <2>2, <2>3, StatesAre DEF Temp
    <3>3. Agrees(e, Displayed(e, appliance[src]), appliance[src])
      BY <3>2, DisplayedAgrees
    <3> QED
      BY <3>1, <3>3 DEF src
  <2>5. CASE e \notin ToldIn(data)
    <3>1. e \in DOMAIN shown /\ shown'[e] = shown[e]
      BY <1>6, <2>5
    <3>2. ~TheyTell(messages, src)
      BY <1>4, <1>8, <2>2, <2>5 DEF src
    <3> QED
      BY <1>3, <1>8, <3>1, <3>2 DEF ShownHolds, src, P
  <2> QED
    BY <2>4, <2>5
<1>9. ShownHolds(subject, shown', rest, queue, appliance)
  BY <1>8 DEF ShownHolds, P
<1> QED
  BY <1>4, <1>9

LEMMA DispatchLights ==
    ASSUME EntityTypes, Lights, ParseAndDispatch PROVE Lights'
<1> DEFINE P == DOMAIN appliance
           data == ExtractData(Head(messages))
           rest == Tail(messages)
<1>1. /\ messages # <<>> /\ messages' = rest /\ onLevel' = Remembered(onLevel, data)
      /\ home' = HomeAfter(onLevel')
      /\ UNCHANGED <<subject, appliance, queue>>
  BY DEF ParseAndDispatch, TakeMessage
<1>2. messages \in Seq(Reports(P)) /\ home \in Nat
  BY ValuesAre DEF EntityTypes
<1>3. /\ Len(rest) = Len(messages) - 1 /\ Len(messages) \in Nat
      /\ rest \in Seq(Reports(P))
      /\ \A values : TheyTellOf(messages, Light, values) =>
            /\ TheyTellOf(rest, Light, values)
            /\ Light \in DOMAIN data => data[Light] \in values
  BY <1>1, <1>2, TailTells, Zenon
<1> SUFFICES ASSUME home' # NoLevel
             PROVE  LightHolds(subject, onLevel', home', rest, queue, appliance)
  BY <1>1 DEF Lights, LightHolds
<1> HIDE DEF P, data, rest
<1>4. CASE home # NoLevel
  <2>1. /\ subject = "light" /\ onLevel = home /\ appliance[Light] \in {0, home}
        /\ \A x \in Pending(queue) : x.value \in {0, home}
        /\ TheyTellOf(messages, Light, {0, home})
    BY <1>4 DEF Lights, LightHolds
  <2>2. /\ TheyTellOf(rest, Light, {0, home})
        /\ Light \in DOMAIN data => data[Light] \in {0, home}
    BY <1>3, <2>1, Zenon
  <2>3. onLevel' = home
    <3>1. onLevel' = IF Light \in DOMAIN data /\ data[Light] > 0
                     THEN data[Light] ELSE onLevel
      BY <1>1 DEF Remembered, Light
    <3> QED
      BY <2>1, <2>2, <3>1
  <2>4. home' = home
    BY <1>1, <2>3 DEF HomeAfter
  <2> QED
    BY <2>1, <2>2, <2>3, <2>4 DEF LightHolds
<1>5. CASE home = NoLevel
  <2>1. /\ subject = "light" /\ queue = <<>> /\ Len(messages) = 1
        /\ appliance[Light] = onLevel' /\ home' = onLevel'
    BY <1>1, <1>5 DEF HomeAfter, Light
  <2>2. rest = <<>>
    <3>1. Len(rest) = 0
      BY <1>3, <2>1
    <3> QED
      BY <1>3, <3>1
  <2>3. Pending(queue) = {} /\ TheyTellOf(rest, Light, {0, home'})
    BY <2>1, <2>2, NothingQueued, NothingTold
  <2> QED
    BY <2>1, <2>3 DEF LightHolds
<1> QED
  BY <1>4, <1>5

LEMMA DispatchStep ==
    ASSUME EntityInv, ParseAndDispatch PROVE EntityInv'
<1> DEFINE P == DOMAIN appliance
           data == ExtractData(Head(messages))
<1>1. /\ messages # <<>> /\ messages' = Tail(messages)
      /\ shown' = Reported(shown, data) /\ onLevel' = Remembered(onLevel, data)
      /\ home' = HomeAfter(onLevel')
      /\ UNCHANGED <<subject, appliance, ready, queue, gap, upsets, chosen, picks>>
  BY DEF ParseAndDispatch, TakeMessage
<1>2. EntityTypes /\ messages \in Seq(Reports(P)) /\ onLevel \in LightValues
      /\ home \in LightValues /\ Len(messages) <= MaxInFlight
      /\ DOMAIN shown \subseteq EntitiesOf[subject]
  BY DEF EntityInv, EntityTypes
<1>3. /\ Head(messages) \in Reports(P) /\ Tail(messages) \in Seq(Reports(P))
      /\ Len(Tail(messages)) = Len(messages) - 1 /\ Len(messages) \in Nat
  BY <1>1, <1>2, TailTells, Zenon
<1>4. data \in Knowledge(P)
  BY <1>3, ExtractDataIs
<1>5. onLevel' \in LightValues
  <2> HIDE DEF data, P
  <2> QED
    BY <1>1, <1>2, <1>4, RememberedIs
<1>6. home' \in LightValues
  BY <1>1, <1>2, <1>5 DEF HomeAfter
<1>7. DOMAIN shown' \subseteq EntitiesOf[subject]
  BY <1>1, <1>2, ReportedIs DEF ToldIn, Entities
<1>8. EntityTypes'
  <2>1. Len(messages') <= MaxInFlight
    BY <1>1, <1>2, <1>3, LinkAssumption
  <2> HIDE DEF data
  <2> QED
    BY <1>1, <1>2, <1>3, <1>5, <1>6, <1>7, <2>1 DEF EntityTypes
<1>9. ChoicesHold' /\ Shows' /\ Lights'
  BY <1>1, KeepsChoices, DispatchShows, DispatchLights DEF EntityInv
<1> QED
  BY <1>8, <1>9 DEF EntityInv
\* What a choice leaves of the earlier ones.
LEMMA ChosenAfterIs ==
    ASSUME NEW entity, NEW choice
    PROVE  /\ \A e \in DOMAIN ChosenAfter(entity, choice) :
                \/ e = entity /\ ChosenAfter(entity, choice)[e] = choice
                \/ /\ e # entity /\ e \in DOMAIN chosen
                   /\ ChosenAfter(entity, choice)[e] = chosen[e]
           /\ Temp \in DOMAIN ChosenAfter(entity, choice) =>
                \/ entity = Temp /\ SetToManual
                \/ entity = Mode /\ Temp \in DOMAIN chosen /\ ~choice
                \/ entity # Temp /\ entity # Mode /\ Temp \in DOMAIN chosen
<1> DEFINE after == ChosenAfter(entity, choice)
<1>1. Temp # Mode
  BY DEF Temp, Mode
<1>2. CASE entity = Temp /\ ~SetToManual
  <2>1. after = Without(chosen, {entity})
    BY <1>2 DEF ChosenAfter, Temp
  <2> HIDE DEF after
  <2>2. DOMAIN after = DOMAIN chosen \ {entity}
        /\ \A x \in DOMAIN chosen : x \notin {entity} => after[x] = chosen[x]
    BY <2>1 DEF Without
  <2> QED
    BY <1>2, <2>2 DEF after
<1>3. CASE entity = Mode /\ choice
  <2>1. after = With(Without(chosen, {Temp}), entity, choice)
    BY <1>3, <1>1 DEF ChosenAfter, Temp, Mode
  <2> HIDE DEF after
  <2> DEFINE less == Without(chosen, {Temp})
  <2>2. DOMAIN less = DOMAIN chosen \ {Temp}
        /\ \A x \in DOMAIN chosen : x \notin {Temp} => less[x] = chosen[x]
    BY DEF Without
  <2> HIDE DEF less
  <2>3. DOMAIN after = DOMAIN less \cup {entity} /\ after[entity] = choice
        /\ \A x \in DOMAIN less : x # entity => after[x] = less[x]
    BY <2>1 DEF With, less
  <2> QED
    BY <1>1, <1>3, <2>2, <2>3 DEF after
<1>4. CASE ~(entity = Temp /\ ~SetToManual) /\ ~(entity = Mode /\ choice)
  <2>1. after = With(chosen, entity, choice)
    BY <1>4 DEF ChosenAfter, Temp, Mode
  <2> HIDE DEF after
  <2>2. DOMAIN after = DOMAIN chosen \cup {entity} /\ after[entity] = choice
        /\ \A x \in DOMAIN chosen : x # entity => after[x] = chosen[x]
    BY <2>1 DEF With
  <2> QED
    BY <1>4, <2>2 DEF after
<1> QED
  BY <1>2, <1>3, <1>4

LEMMA SetToManualIs ==
    ASSUME NEW F, queue \in Queues(F), SetToManual
    PROVE  Manual(queue, appliance)
<1>1. /\ DOMAIN queue = 1..Len(queue)
      /\ \A i, j \in 1..Len(queue) : queue[i].key = queue[j].key => i = j
      /\ Pending(queue) = {queue[i] : i \in 1..Len(queue)}
  BY QueuesAre
<1>2. CASE IsPending(Mode)
  <2>1. PICK i \in 1..Len(queue) : queue[i] = [key |-> Mode, value |-> 0]
    BY <1>1, <1>2 DEF SetToManual, Mode
  <2>2. queue[i].key = Mode /\ queue[i].value = 0
    BY <2>1
  <2>3. \A x \in Pending(queue) : x.key = Mode => x.value = 0
    BY <1>1, <2>2
  <2>4. queue[i] \in Pending(queue)
    BY <1>1
  <2> QED
    BY <2>2, <2>3, <2>4 DEF Manual
<1>3. CASE ~IsPending(Mode)
  <2>1. appliance[Mode] = 0
    BY <1>3 DEF SetToManual, Mode
  <2>2. \A x \in Pending(queue) : x.key # Mode
    BY <1>1, <1>3 DEF IsPending
  <2> QED
    BY <2>1, <2>2 DEF Manual
<1> QED
  BY <1>2, <1>3

LEMMA PickStep ==
    ASSUME EntityInv, NEW entity \in Entities \cap Writable,
           NEW choice \in ChoicesOf[entity], Pick(entity, choice)
    PROVE  EntityInv'
<1> DEFINE F == EntitiesOf[subject] \cap Writable
           w == [key |-> entity, value |-> Written(entity, choice)]
           after == ChosenAfter(entity, choice)
<1>1. /\ picks < MaxPicks /\ picks' = picks + 1 /\ queue' = Enqueued(queue, w)
      /\ shown' = With(shown, entity, choice) /\ chosen' = after
      /\ UNCHANGED <<appliance, ready, messages, gap, upsets, subject, onLevel, home>>
  BY DEF Pick
<1>2. /\ EntityTypes /\ queue \in Queues(F) /\ onLevel \in LightValues
      /\ entity \in F /\ entity \in Writable /\ picks \in 0..MaxPicks
      /\ DOMAIN shown \subseteq EntitiesOf[subject] /\ DOMAIN chosen \subseteq F
      /\ subject \in Subjects /\ DOMAIN appliance \in PropertiesOf[subject]
  BY DEF EntityInv, EntityTypes, Entities
<1>3. Written(entity, choice) \in ValuesOf[entity]
      /\ Agrees(entity, choice, Written(entity, choice))
  BY <1>2, WrittenIs
<1>4. w \in Writes(F)
  <2> HIDE DEF F
  <2> QED
    BY <1>2, <1>3, IsWrite
<1>5. w.key = entity /\ w.value = Written(entity, choice)
  OBVIOUS
<1>6. /\ \A e \in DOMAIN after :
            \/ e = entity /\ after[e] = choice
            \/ e # entity /\ e \in DOMAIN chosen /\ after[e] = chosen[e]
      /\ Temp \in DOMAIN after =>
            \/ entity = Temp /\ SetToManual
            \/ entity = Mode /\ Temp \in DOMAIN chosen /\ ~choice
            \/ entity # Temp /\ entity # Mode /\ Temp \in DOMAIN chosen
  BY ChosenAfterIs, Zenon
<1>7. entity = Mode /\ ~choice => w.value = 0
  BY DEF Written, Mode
<1> HIDE DEF F, w, after
<1>8. /\ Enqueued(queue, w) \in Queues(F)
      /\ \A x \in Pending(Enqueued(queue, w)) : x = w \/ x \in Pending(queue)
  BY <1>2, <1>4, EnqueuedIs
<1>9. EntityTypes'
  <2>1. picks + 1 \in 0..MaxPicks
    BY <1>1, <1>2, SubjectAssumption
  <2>2. DOMAIN shown' = DOMAIN shown \cup {entity}
    BY <1>1 DEF With
  <2>3. DOMAIN chosen' \subseteq F
    BY <1>1, <1>2, <1>6
  <2> QED
    BY <1>1, <1>2, <1>8, <2>1, <2>2, <2>3 DEF EntityTypes, F
<1>10. ChoicesHold'
  <2>1. ChosenHolds(chosen, queue, appliance) /\ TempHolds(chosen, queue, appliance)
    BY DEF EntityInv, ChoicesHold
  <2>2. \A e \in DOMAIN after :
            \/ e = w.key /\ Agrees(e, after[e], w.value)
            \/ e # w.key /\ e \in DOMAIN chosen /\ after[e] = chosen[e]
    BY <1>3, <1>5, <1>6
  <2>3. ChosenHolds(after, Enqueued(queue, w), appliance)
    BY <1>2, <1>4, <2>1, <2>2, ChosenEnqueued
  <2>4. SetToManual => Manual(queue, appliance)
    BY <1>2, SetToManualIs
  <2>5. Temp \in DOMAIN after =>
            \/ w.key = Temp /\ Manual(queue, appliance)
            \/ w.key = Mode /\ w.value = 0
            \/ w.key # Temp /\ w.key # Mode /\ Temp \in DOMAIN chosen
    BY <1>5, <1>6, <1>7, <2>4
  <2>6. TempHolds(after, Enqueued(queue, w), appliance)
    BY <1>2, <1>4, <2>1, <2>5, TempEnqueued
  <2> QED
    BY <1>1, <2>3, <2>6 DEF ChoicesHold
<1>11. Shows'
  <2> SUFFICES ASSUME ~gap
               PROVE  LastWord(messages, appliance)
                      /\ ShownHolds(subject, shown', messages, queue', appliance)
    BY <1>1 DEF Shows
  <2>1. LastWord(messages, appliance)
        /\ ShownHolds(subject, shown, messages, queue, appliance)
    BY DEF EntityInv, Shows
  <2>2. ShownHolds(subject, With(shown, w.key, choice), messages,
                   Enqueued(queue, w), appliance)
    BY <1>2, <1>3, <1>4, <1>5, <2>1, ShownEnqueued
  <2> QED
    BY <1>1, <1>5, <2>1, <2>2
<1>12. Lights'
  <2> SUFFICES ASSUME home # NoLevel
               PROVE  LightHolds(subject, onLevel, home, messages, queue', appliance)
    BY <1>1 DEF Lights, LightHolds
  <2>1. /\ subject = "light" /\ onLevel = home /\ appliance[Light] \in {0, home}
        /\ \A x \in Pending(queue) : x.value \in {0, home}
        /\ TheyTellOf(messages, Light, {0, home})
    BY DEF EntityInv, Lights, LightHolds
  <2>2. entity = Light
    BY <1>2, <2>1 DEF F, EntitiesOf, Light
  <2>3. home \in Nat
    BY <1>2, ValuesAre DEF EntityTypes
  <2>4. OnLevel = home
    BY <2>1, <2>3 DEF OnLevel, NoLevel
  <2>5. w.value \in {0, home}
    BY <1>5, <2>2, <2>4 DEF Written, Light
  <2>6. \A x \in Pending(queue') : x.value \in {0, home}
    BY <1>1, <1>8, <2>1, <2>5
  <2> QED
    BY <2>1, <2>6 DEF LightHolds
<1> QED
  BY <1>9, <1>10, <1>11, <1>12 DEF EntityInv
\* A drained write arrives: what was pending is true.
LEMMA WriteStep ==
    ASSUME EntityInv, WriteApplied PROVE EntityInv'
<1> DEFINE P == DOMAIN appliance
           F == EntitiesOf[subject] \cap Writable
           first == Head(queue)
           rest == Tail(queue)
           after == [appliance EXCEPT ![first.key] = first.value]
<1>1. /\ queue # <<>> /\ queue' = rest /\ ApplianceBecomes(after) /\ ready = TRUE
      /\ UNCHANGED <<ready, upsets, subject, shown, onLevel, picks, chosen, home>>
  BY DEF WriteApplied, SendWrite, TakeWrite, Unwritten
<1>2. /\ EntityTypes /\ queue \in Queues(F) /\ subject \in Subjects
      /\ P \in PropertiesOf[subject] /\ appliance \in StatesWith(P)
      /\ DOMAIN shown \subseteq EntitiesOf[subject] /\ DOMAIN chosen \subseteq F
  BY DEF EntityInv, EntityTypes
<1>3. /\ rest \in Queues(F) /\ first \in Writes(F)
      /\ first \in Pending(queue)
      /\ \A x \in Pending(rest) : x \in Pending(queue) /\ x.key # first.key
      /\ \A x \in Pending(queue) : x = first \/ x \in Pending(rest)
  <2> HIDE DEF F
  <2> QED
    BY <1>1, <1>2, TailIs, Zenon
<1>4. first.key \in F /\ first.value \in ValuesOf[first.key]
  <2> HIDE DEF F, first
  <2> QED
    BY <1>3, WritesAre
<1>5. F \subseteq P
  BY <1>2, TablesAre DEF Entities
<1> HIDE DEF F, first, rest
<1>6. /\ DOMAIN after = P /\ after[first.key] = first.value
      /\ \A p \in P : p # first.key => after[p] = appliance[p]
  BY <1>4, <1>5
<1>7. after \in StatesWith(P)
  <2>1. \A p \in P : appliance[p] \in ValuesOf[p]
    BY <1>2, StatesAre
  <2>2. \A p \in P : after[p] \in ValuesOf[p]
    BY <1>4, <1>6, <2>1
  <2>3. after \in [P -> {after[p] : p \in P}]
    OBVIOUS
  <2> HIDE DEF after
  <2> QED
    BY <2>2, <2>3, IsState
<1> HIDE DEF P, after
<1>8. /\ appliance' = after /\ DOMAIN appliance' = P
      /\ messages' \in Seq(Reports(P)) /\ Len(messages') <= MaxInFlight
      /\ gap' \in BOOLEAN /\ (gap => gap')
      /\ \A p : TheyTell(messages, p) => TheyTell(messages', p)
      /\ ~gap' => \A p \in P : TheyTell(messages', p) \/ after[p] = appliance[p]
      /\ ~gap' /\ LastWord(messages, appliance) => LastWord(messages', after)
      /\ \A values : TheyTellOf(messages, Light, values) /\ after[Light] \in values
            => TheyTellOf(messages', Light, values)
  BY <1>1, <1>2, <1>7, Becomes, Zenon DEF P
<1>9. EntityTypes'
  BY <1>1, <1>2, <1>3, <1>7, <1>8 DEF EntityTypes, P, F
<1>10. ChoicesHold'
  <2>1. ChosenHolds(chosen, queue, appliance) /\ TempHolds(chosen, queue, appliance)
    BY DEF EntityInv, ChoicesHold
  <2>2. \A e \in DOMAIN chosen :
            /\ e \in DOMAIN chosen /\ chosen[e] = chosen[e]
            /\ \/ e # Head(queue).key /\ after[e] = appliance[e]
               \/ e = Head(queue).key /\ after[e] = Head(queue).value
    BY <1>2, <1>5, <1>6 DEF first
  <2>3. ChosenHolds(chosen, rest, after)
    BY <1>1, <1>2, <2>1, <2>2, ChosenTail DEF rest
  <2>4. Temp \in DOMAIN chosen =>
            /\ Temp \in DOMAIN chosen
            /\ \/ Head(queue).key # Mode /\ after[Mode] = appliance[Mode]
               \/ Head(queue).key = Mode /\ after[Mode] = Head(queue).value
    <3> SUFFICES ASSUME Temp \in DOMAIN chosen PROVE Mode \in P
      BY <1>6 DEF first
    <3>1. Temp \in F
      BY <1>2
    <3>2. subject \in {"crisper", "light", "humidity", "doors", "oven"}
      BY <1>2, SubjectsAre
    <3>3. subject = "crisper"
      BY <3>1, <3>2 DEF F, Temp, EntitiesOf
    <3>4. Mode \in F
      BY <3>3, WritableIs DEF F, Mode, EntitiesOf
    <3> QED
      BY <1>5, <3>4
  <2>5. TempHolds(chosen, rest, after)
    BY <1>1, <1>2, <2>1, <2>4, TempTail DEF rest
  <2> QED
    BY <1>1, <1>8, <2>3, <2>5 DEF ChoicesHold
<1>11. Shows'
  <2> SUFFICES ASSUME ~gap'
               PROVE  LastWord(messages', after)
                      /\ ShownHolds(subject, shown, messages', rest, after)
    BY <1>1, <1>8 DEF Shows
  <2>1. ~gap /\ LastWord(messages, appliance)
        /\ ShownHolds(subject, shown, messages, queue, appliance)
    BY <1>8 DEF EntityInv, Shows
  <2>2. ASSUME NEW e \in DOMAIN shown, ~Own(e, P)
        PROVE  /\ \/ TheyTell(messages', SourceOf(subject, e, P))
                  \/ after[SourceOf(subject, e, P)] = appliance[SourceOf(subject, e, P)]
               /\ \A x \in Pending(queue) : x.key = e =>
                    \/ x \in Pending(rest)
                    \/ after[SourceOf(subject, e, P)] = x.value
    <3>1. e \in Entities
      BY <1>2 DEF Entities
    <3>2. DOMAIN appliance \subseteq P
      BY DEF P
    <3>3. /\ SourceOf(subject, e, P) \in P
          /\ e \in Writable => SourceOf(subject, e, P) = e
      BY <1>2, <2>2, <3>1, <3>2, SourceIs
    <3>4. first.key \in Writable
      BY <1>4 DEF F
    <3> QED
      BY <1>3, <1>6, <1>8, <3>3, <3>4
  <2>3. DOMAIN after = DOMAIN appliance
    BY <1>6 DEF P
  <2>4. ShownHolds(subject, shown, messages', rest, after)
    BY <1>8, <2>1, <2>2, <2>3, ShownBecomes DEF P
  <2> QED
    BY <1>8, <2>1, <2>4
<1>12. Lights'
  <2> SUFFICES ASSUME home # NoLevel
               PROVE  LightHolds(subject, onLevel, home, messages', rest, after)
    BY <1>1, <1>8 DEF Lights, LightHolds
  <2>1. /\ subject = "light" /\ onLevel = home /\ appliance[Light] \in {0, home}
        /\ \A x \in Pending(queue) : x.value \in {0, home}
        /\ TheyTellOf(messages, Light, {0, home})
    BY DEF EntityInv, Lights, LightHolds
  <2>2. first.key = Light
    BY <1>4, <2>1 DEF F, EntitiesOf, Light
  <2>3. after[Light] \in {0, home}
    BY <1>3, <1>6, <2>1, <2>2
  <2>4. TheyTellOf(messages', Light, {0, home})
    BY <1>8, <2>1, <2>3, Zenon
  <2> QED
    BY <1>3, <2>1, <2>3, <2>4 DEF LightHolds
<1> QED
  BY <1>9, <1>10, <1>11, <1>12 DEF EntityInv
\* The oldest write comes to nothing, and the choice it was for is off.
LEMMA TakenStep ==
    ASSUME EntityInv, queue # <<>>, queue' = Tail(queue), gap' = TRUE,
           upsets' \in 0..MaxUpsets,
           UNCHANGED <<appliance, ready, messages, subject, shown, onLevel, home, picks>>,
           \A e \in DOMAIN chosen' :
                e \in DOMAIN chosen /\ chosen'[e] = chosen[e] /\ e # Head(queue).key,
           Temp \in DOMAIN chosen' => Head(queue).key # Mode
    PROVE  EntityInv'
<1> DEFINE F == EntitiesOf[subject] \cap Writable
           rest == Tail(queue)
<1>1. /\ EntityTypes /\ queue \in Queues(F) /\ DOMAIN chosen \subseteq F
  BY DEF EntityInv, EntityTypes
<1>2. rest \in Queues(F) /\ \A x \in Pending(rest) : x \in Pending(queue)
  <2> HIDE DEF F
  <2> QED
    BY <1>1, TailIs, Zenon
<1> HIDE DEF F, rest
<1>3. EntityTypes'
  BY <1>1, <1>2 DEF EntityTypes, F, rest
<1>4. ChosenHolds(chosen, queue, appliance) /\ TempHolds(chosen, queue, appliance)
  BY DEF EntityInv, ChoicesHold
<1>5. ChosenHolds(chosen', Tail(queue), appliance)
  BY <1>1, <1>4, ChosenTail
<1>6. TempHolds(chosen', Tail(queue), appliance)
  BY <1>1, <1>4, TempTail
<1>7. ChoicesHold' /\ Shows'
  BY <1>5, <1>6 DEF ChoicesHold, Shows
<1>8. Lights'
  BY <1>2 DEF EntityInv, Lights, LightHolds, rest
<1> QED
  BY <1>3, <1>7, <1>8 DEF EntityInv

\* A set temperature that the crisper ignores is no choice any more: the switch to
\* manual, if it was one, is pending behind it.
LEMMA RuledOutStep ==
    ASSUME EntityInv, WriteRuledOut PROVE EntityInv'
<1> DEFINE F == EntitiesOf[subject] \cap Writable
<1>1. /\ queue # <<>> /\ queue' = Tail(queue) /\ Ignores(Head(queue)) /\ gap' = TRUE
      /\ chosen' = IF IsPending(Mode) THEN Without(chosen, {Temp}) ELSE chosen
      /\ UNCHANGED <<appliance, ready, messages, upsets, home, subject,
                     shown, onLevel, picks>>
  BY DEF WriteRuledOut, TakeWrite, Unwritten, Mode, Temp
<1>2. Head(queue).key = Temp /\ appliance[Mode] = 1 /\ Temp # Mode
  BY <1>1 DEF Ignores, Temp, Mode
<1>3. queue \in Queues(F) /\ upsets \in 0..MaxUpsets
  BY DEF EntityInv, EntityTypes
<1> HIDE DEF F
<1>4. Head(queue) \in Pending(queue)
  BY <1>1, <1>3, TailIs
<1>5. Temp \in DOMAIN chosen => IsPending(Mode)
  <2> SUFFICES ASSUME Temp \in DOMAIN chosen, ~IsPending(Mode) PROVE FALSE
    OBVIOUS
  <2>1. Manual(queue, appliance)
    BY <1>2, <1>4 DEF EntityInv, ChoicesHold, TempHolds
  <2>2. \A x \in Pending(queue) : x.key # Mode
    BY DEF IsPending, Pending
  <2> QED
    BY <1>2, <2>1, <2>2 DEF Manual
<1>6. \A e \in DOMAIN chosen' :
            e \in DOMAIN chosen /\ chosen'[e] = chosen[e] /\ e # Temp
  <2>1. CASE IsPending(Mode)
    <3>1. chosen' = Without(chosen, {Temp})
      BY <1>1, <2>1
    <3> QED
      BY <3>1 DEF Without
  <2>2. CASE ~IsPending(Mode)
    BY <1>1, <1>5, <2>2
  <2> QED
    BY <2>1, <2>2
<1>7. upsets' \in 0..MaxUpsets
  BY <1>1, <1>3
<1> QED
  BY <1>1, <1>2, <1>6, <1>7, TakenStep

LEMMA UndoneIs ==
    ASSUME NEW key
    PROVE  /\ \A e \in DOMAIN Without(chosen, UndoneWith(key)) :
                /\ e \in DOMAIN chosen /\ e # key
                /\ Without(chosen, UndoneWith(key))[e] = chosen[e]
           /\ Temp \in DOMAIN Without(chosen, UndoneWith(key)) => key # Mode
<1> DEFINE keys == UndoneWith(key)
           after == Without(chosen, keys)
<1>1. key \in keys /\ (key = Mode => Temp \in keys)
  BY DEF UndoneWith, Mode, Temp
<1>2. DOMAIN after = DOMAIN chosen \ keys
      /\ \A e \in DOMAIN after : after[e] = chosen[e]
  BY DEF Without
<1> HIDE DEF after, keys
<1>3. /\ \A e \in DOMAIN after : e \in DOMAIN chosen /\ e # key /\ after[e] = chosen[e]
      /\ Temp \in DOMAIN after => key # Mode
  BY <1>1, <1>2
<1> QED
  BY <1>3 DEF after, keys

LEMMA FailStep ==
    ASSUME EntityInv, WriteIgnored \/ WriteDropped PROVE EntityInv'
<1>1. upsets \in 0..MaxUpsets /\ ready \in BOOLEAN /\ (~ready => gap) /\ gap \in BOOLEAN
  BY DEF EntityInv, EntityTypes
<1>2. /\ queue # <<>> /\ queue' = Tail(queue) /\ gap' = TRUE
      /\ chosen' = Without(chosen, UndoneWith(Head(queue).key))
      /\ UNCHANGED <<appliance, ready, messages, subject, shown, onLevel, home, picks>>
      /\ upsets' \in 0..MaxUpsets
  <2>1. CASE WriteIgnored
    <3>1. upsets < MaxUpsets /\ upsets' = upsets + 1
      BY <2>1 DEF WriteIgnored, LoseWrite, Upset
    <3>2. upsets' \in 0..MaxUpsets
      BY <1>1, <3>1, LinkAssumption
    <3> QED
      BY <2>1, <3>2 DEF WriteIgnored, LoseWrite, TakeWrite, Unwritten
  <2>2. CASE WriteDropped
    <3>1. ready = FALSE /\ gap' = gap
      BY <2>2 DEF WriteDropped, DropWrite, TakeWrite
    <3>2. gap' = TRUE
      BY <1>1, <3>1
    <3> QED
      BY <1>1, <2>2, <3>2 DEF WriteDropped, DropWrite, TakeWrite, Unwritten
  <2> QED
    BY <2>1, <2>2
<1>3. /\ \A e \in DOMAIN chosen' :
            e \in DOMAIN chosen /\ e # Head(queue).key /\ chosen'[e] = chosen[e]
      /\ Temp \in DOMAIN chosen' => Head(queue).key # Mode
  BY <1>2, UndoneIs, Zenon
<1> QED
  BY <1>2, <1>3, TakenStep

LEMMA OperatedStep ==
    ASSUME EntityInv, NEW after \in StatesWith(DOMAIN appliance),
           ApplianceOperated(after)
    PROVE  EntityInv'
<1> DEFINE P == DOMAIN appliance
<1>1. /\ upsets < MaxUpsets /\ upsets' = upsets + 1 /\ ApplianceBecomes(after)
      /\ chosen' = <<>> /\ home' = NoLevel
      /\ UNCHANGED <<ready, queue, subject, shown, onLevel, picks>>
  BY DEF ApplianceOperated, OperateAppliance, Upset, Unwritten
<1>2. /\ EntityTypes /\ subject \in Subjects /\ P \in PropertiesOf[subject]
      /\ DOMAIN shown \subseteq EntitiesOf[subject] /\ upsets \in 0..MaxUpsets
      /\ after \in StatesWith(P)
  BY DEF EntityInv, EntityTypes
<1>3. DOMAIN after = P
  <2> HIDE DEF P
  <2> QED
    BY <1>2, StatesAre
<1> HIDE DEF P
<1>4. /\ appliance' = after /\ DOMAIN appliance' = P
      /\ messages' \in Seq(Reports(P)) /\ Len(messages') <= MaxInFlight
      /\ gap' \in BOOLEAN /\ (gap => gap')
      /\ \A p : TheyTell(messages, p) => TheyTell(messages', p)
      /\ ~gap' => \A p \in P : TheyTell(messages', p) \/ after[p] = appliance[p]
      /\ ~gap' /\ LastWord(messages, appliance) => LastWord(messages', after)
  BY <1>1, <1>2, Becomes, Zenon DEF P
<1>5. DOMAIN chosen' = {}
  BY <1>1
<1>6. EntityTypes'
  <2>1. upsets' \in 0..MaxUpsets
    BY <1>1, <1>2, LinkAssumption
  <2>2. home' \in LightValues
    BY <1>1, ValuesAre DEF NoLevel
  <2> QED
    BY <1>1, <1>2, <1>4, <1>5, <2>1, <2>2 DEF EntityTypes, P
<1>7. ChoicesHold'
  BY <1>5 DEF ChoicesHold, ChosenHolds, TempHolds
<1>8. Shows'
  <2> SUFFICES ASSUME ~gap'
               PROVE  LastWord(messages', after)
                      /\ ShownHolds(subject, shown, messages', queue, after)
    BY <1>1, <1>4 DEF Shows
  <2>1. ~gap /\ LastWord(messages, appliance)
        /\ ShownHolds(subject, shown, messages, queue, appliance)
    BY <1>4 DEF EntityInv, Shows
  <2>2. ASSUME NEW e \in DOMAIN shown, ~Own(e, P)
        PROVE  /\ \/ TheyTell(messages', SourceOf(subject, e, P))
                  \/ after[SourceOf(subject, e, P)] = appliance[SourceOf(subject, e, P)]
               /\ \A x \in Pending(queue) : x.key = e =>
                    \/ x \in Pending(queue)
                    \/ after[SourceOf(subject, e, P)] = x.value
    <3>1. e \in Entities
      BY <1>2 DEF Entities
    <3>2. DOMAIN appliance \subseteq P
      BY DEF P
    <3>3. SourceOf(subject, e, P) \in P
      BY <1>2, <2>2, <3>1, <3>2, SourceIs
    <3> QED
      BY <1>4, <3>3
  <2>3. DOMAIN after = DOMAIN appliance
    BY <1>3 DEF P
  <2>4. ShownHolds(subject, shown, messages', queue, after)
    BY <1>4, <2>1, <2>2, <2>3, ShownBecomes DEF P
  <2> QED
    BY <1>4, <2>1, <2>4
<1>9. Lights'
  BY <1>1 DEF Lights, LightHolds
<1> QED
  BY <1>6, <1>7, <1>8, <1>9 DEF EntityInv
\* An answer to a poll is the last word on everything, and closes the gap.
LEMMA AnswerStep ==
    ASSUME EntityInv, PollAnswered PROVE EntityInv'
<1> DEFINE P == DOMAIN appliance
           message == [shape |-> "resp", data |-> appliance]
<1>1. /\ ready /\ Len(messages) < MaxInFlight /\ messages' = Append(messages, message)
      /\ gap' = FALSE
      /\ UNCHANGED <<appliance, ready, queue, upsets, subject, shown, onLevel, picks,
                     chosen, home>>
  BY DEF PollAnswered, AnswerPoll, PollGoesOut, Unwritten
<1>2. /\ EntityTypes /\ subject \in Subjects /\ P \in PropertiesOf[subject]
      /\ appliance \in StatesWith(P) /\ messages \in Seq(Reports(P))
      /\ DOMAIN shown \subseteq EntitiesOf[subject] /\ ready \in BOOLEAN
  BY DEF EntityInv, EntityTypes
<1>3. message \in Reports(P) /\ ExtractData(message) = appliance
  <2>1. appliance \in Knowledge(P)
    <3>1. P \in SUBSET P
      OBVIOUS
    <3> HIDE DEF P
    <3> QED
      BY <1>2, <3>1, IsKnowledge
  <2> QED
    BY <2>1 DEF Reports, Shapes, ExtractData
<1> HIDE DEF P, message
<1>4. /\ messages' \in Seq(Reports(P))
      /\ Len(messages') = Len(messages) + 1 /\ Len(messages) \in Nat
      /\ \A p : TheyTell(messages', p) <=>
               TheyTell(messages, p) \/ p \in DOMAIN ExtractData(message)
      /\ \A app, after :
           /\ DOMAIN app = DOMAIN after
           /\ \A p \in DOMAIN after :
                \/ /\ p \in DOMAIN ExtractData(message)
                   /\ ExtractData(message)[p] = after[p]
                \/ /\ p \notin DOMAIN ExtractData(message)
                   /\ after[p] = app[p] /\ LastWord(messages, app)
           => LastWord(messages', after)
      /\ \A p, values :
           /\ TheyTellOf(messages, p, values)
           /\ p \in DOMAIN ExtractData(message) =>
                 ExtractData(message)[p] \in values
           => TheyTellOf(messages', p, values)
  BY <1>1, <1>2, <1>3, AppendTells, Zenon
<1>5. EntityTypes'
  <2>1. Len(messages') <= MaxInFlight
    BY <1>1, <1>4, LinkAssumption
  <2>2. gap' \in BOOLEAN /\ (~ready' => gap')
    BY <1>1, <1>2
  <2> QED
    BY <1>1, <1>2, <1>4, <2>1, <2>2 DEF EntityTypes, P
<1>6. ChoicesHold'
  BY <1>1, KeepsChoices DEF EntityInv
<1>7. Shows'
  <2>1. \A p \in DOMAIN appliance :
            /\ p \in DOMAIN ExtractData(message)
            /\ ExtractData(message)[p] = appliance[p]
    BY <1>3
  <2>2. LastWord(messages', appliance)
    BY <1>4, <2>1, Zenon
  <2>3. \A e \in DOMAIN shown : ~Own(e, P) => TheyTell(messages', SourceOf(subject, e, P))
    <3> SUFFICES ASSUME NEW e \in DOMAIN shown, ~Own(e, P)
                 PROVE  SourceOf(subject, e, P) \in P
      BY <1>3, <1>4 DEF P
    <3>1. e \in Entities
      BY <1>2 DEF Entities
    <3>2. DOMAIN appliance \subseteq P
      BY DEF P
    <3> QED
      BY <1>2, <3>1, <3>2, SourceIs
  <2>4. ShownHolds(subject, shown, messages', queue, appliance)
    BY <2>3 DEF ShownHolds, P
  <2> QED
    BY <1>1, <2>2, <2>4 DEF Shows
<1>8. Lights'
  <2> SUFFICES ASSUME home # NoLevel
               PROVE  LightHolds(subject, onLevel, home, messages', queue, appliance)
    BY <1>1 DEF Lights, LightHolds
  <2>1. /\ subject = "light" /\ onLevel = home /\ appliance[Light] \in {0, home}
        /\ \A x \in Pending(queue) : x.value \in {0, home}
        /\ TheyTellOf(messages, Light, {0, home})
    BY DEF EntityInv, Lights, LightHolds
  <2>2. Light \in DOMAIN ExtractData(message) => ExtractData(message)[Light] \in {0, home}
    BY <1>3, <2>1
  <2>3. TheyTellOf(messages', Light, {0, home})
    BY <1>4, <2>1, <2>2, Zenon
  <2> QED
    BY <2>1, <2>3 DEF LightHolds
<1> QED
  BY <1>5, <1>6, <1>7, <1>8 DEF EntityInv

\* A poll that is rejected tells nothing.
LEMMA RejectStep ==
    ASSUME EntityInv, PollRejected PROVE EntityInv'
<1> DEFINE P == DOMAIN appliance
           message == [shape |-> "rejected", data |-> <<>>]
<1>1. /\ Len(messages) < MaxInFlight /\ messages' = Append(messages, message)
      /\ upsets < MaxUpsets /\ upsets' = upsets + 1
      /\ UNCHANGED <<appliance, ready, queue, gap, subject, shown, onLevel, picks,
                     chosen, home>>
  BY DEF PollRejected, RejectPoll, PollGoesOut, Upset, Unwritten
<1>2. /\ EntityTypes /\ messages \in Seq(Reports(P)) /\ upsets \in 0..MaxUpsets
  BY DEF EntityInv, EntityTypes
<1>3. message \in Reports(P) /\ DOMAIN ExtractData(message) = {}
  <2>1. <<>> \in Knowledge(P) /\ DOMAIN <<>> = {}
    <3> HIDE DEF P
    <3> QED
      BY NoKnowledge
  <2> QED
    BY <2>1 DEF Reports, Shapes, ExtractData
<1> HIDE DEF P, message
<1>4. /\ messages' \in Seq(Reports(P))
      /\ Len(messages') = Len(messages) + 1 /\ Len(messages) \in Nat
      /\ \A p : TheyTell(messages', p) <=>
               TheyTell(messages, p) \/ p \in DOMAIN ExtractData(message)
      /\ \A app, after :
           /\ DOMAIN app = DOMAIN after
           /\ \A p \in DOMAIN after :
                \/ /\ p \in DOMAIN ExtractData(message)
                   /\ ExtractData(message)[p] = after[p]
                \/ /\ p \notin DOMAIN ExtractData(message)
                   /\ after[p] = app[p] /\ LastWord(messages, app)
           => LastWord(messages', after)
      /\ \A p, values :
           /\ TheyTellOf(messages, p, values)
           /\ p \in DOMAIN ExtractData(message) =>
                 ExtractData(message)[p] \in values
           => TheyTellOf(messages', p, values)
  BY <1>1, <1>2, <1>3, AppendTells, Zenon
<1>5. \A p : p \notin DOMAIN ExtractData(message)
  BY <1>3
<1>6. EntityTypes'
  <2>1. Len(messages') <= MaxInFlight
    BY <1>1, <1>4, LinkAssumption
  <2>2. upsets' \in 0..MaxUpsets
    BY <1>1, <1>2, LinkAssumption
  <2> QED
    BY <1>1, <1>2, <1>4, <2>1, <2>2 DEF EntityTypes, P
<1>7. ChoicesHold'
  BY <1>1, KeepsChoices DEF EntityInv
<1>8. Shows'
  <2> SUFFICES ASSUME ~gap
               PROVE  LastWord(messages', appliance)
                      /\ ShownHolds(subject, shown, messages', queue, appliance)
    BY <1>1 DEF Shows
  <2>1. LastWord(messages, appliance)
        /\ ShownHolds(subject, shown, messages, queue, appliance)
    BY DEF EntityInv, Shows
  <2>2. LastWord(messages', appliance)
    BY <1>4, <1>5, <2>1, Zenon
  <2>3. \A p : TheyTell(messages', p) <=> TheyTell(messages, p)
    BY <1>4, <1>5, Zenon
  <2> QED
    BY <2>1, <2>2, <2>3 DEF ShownHolds
<1>9. Lights'
  <2> SUFFICES ASSUME home # NoLevel
               PROVE  LightHolds(subject, onLevel, home, messages', queue, appliance)
    BY <1>1 DEF Lights, LightHolds
  <2>1. /\ subject = "light" /\ onLevel = home /\ appliance[Light] \in {0, home}
        /\ \A x \in Pending(queue) : x.value \in {0, home}
        /\ TheyTellOf(messages, Light, {0, home})
    BY DEF EntityInv, Lights, LightHolds
  <2>2. TheyTellOf(messages', Light, {0, home})
    BY <1>4, <1>5, <2>1, Zenon
  <2> QED
    BY <2>1, <2>2 DEF LightHolds
<1> QED
  BY <1>6, <1>7, <1>8, <1>9 DEF EntityInv

\* A message is lost, which the gap tells of.
LEMMA LostStep ==
    ASSUME EntityInv, MessageLost PROVE EntityInv'
<1>1. /\ messages # <<>> /\ messages' = Tail(messages) /\ gap' = TRUE
      /\ upsets < MaxUpsets /\ upsets' = upsets + 1
      /\ UNCHANGED <<appliance, ready, queue, subject, shown, onLevel, picks,
                     chosen, home>>
  BY DEF MessageLost, LoseMessage, Upset, Unwritten
<1>2. /\ EntityTypes /\ messages \in Seq(Reports(DOMAIN appliance))
      /\ upsets \in 0..MaxUpsets /\ Len(messages) <= MaxInFlight
  BY DEF EntityInv, EntityTypes
<1>3. /\ messages' \in Seq(Reports(DOMAIN appliance))
      /\ Len(messages') = Len(messages) - 1 /\ Len(messages) \in Nat
      /\ \A p, values : TheyTellOf(messages, p, values) => TheyTellOf(messages', p, values)
  BY <1>1, <1>2, TailTells, Zenon
<1>4. EntityTypes'
  <2>1. Len(messages') <= MaxInFlight
    BY <1>2, <1>3, LinkAssumption
  <2>2. upsets' \in 0..MaxUpsets
    BY <1>1, <1>2, LinkAssumption
  <2> QED
    BY <1>1, <1>2, <1>3, <2>1, <2>2 DEF EntityTypes
<1>5. ChoicesHold' /\ Shows'
  BY <1>1, KeepsChoices DEF EntityInv, Shows
<1>6. Lights'
  <2> SUFFICES ASSUME home # NoLevel
               PROVE  LightHolds(subject, onLevel, home, messages', queue, appliance)
    BY <1>1 DEF Lights, LightHolds
  <2>1. LightHolds(subject, onLevel, home, messages, queue, appliance)
    BY DEF EntityInv, Lights
  <2>2. TheyTellOf(messages', Light, {0, home})
    BY <1>3, <2>1, Zenon DEF LightHolds
  <2> QED
    BY <2>1, <2>2 DEF LightHolds
<1> QED
  BY <1>4, <1>5, <1>6 DEF EntityInv

\* The link is gone, and with it the messages, the writes and their choices.
LEMMA LinkStep ==
    ASSUME EntityInv, Disconnected \/ Restarted PROVE EntityInv'
<1> DEFINE F == EntitiesOf[subject] \cap Writable
<1>1. /\ upsets < MaxUpsets /\ upsets' = upsets + 1 /\ ready' = FALSE
      /\ messages' = <<>> /\ queue' = <<>> /\ gap' = TRUE
      /\ chosen' = Without(chosen, {queue[i].key : i \in DOMAIN queue})
      /\ UNCHANGED <<appliance, subject, picks>>
      /\ \/ UNCHANGED <<shown, onLevel, home>>
         \/ shown' = <<>> /\ onLevel' = 0 /\ home' = NoLevel
  BY DEF Disconnected, Restarted, LoseLink, Upset, Unwritten, Cleared
<1>2. /\ EntityTypes /\ queue \in Queues(F) /\ upsets \in 0..MaxUpsets
      /\ DOMAIN chosen \subseteq F
  BY DEF EntityInv, EntityTypes
<1>3. /\ messages' \in Seq(Reports(DOMAIN appliance)) /\ Len(messages') <= MaxInFlight
  BY <1>1, LinkAssumption
<1>4. queue' \in Queues(F) /\ Pending(queue') = {}
  BY <1>1, NothingQueued
<1>5. DOMAIN chosen' \subseteq DOMAIN chosen
  BY <1>1 DEF Without
<1>6. EntityTypes'
  <2>1. upsets' \in 0..MaxUpsets
    BY <1>1, <1>2, LinkAssumption
  <2>2. DOMAIN shown' \subseteq EntitiesOf[subject] /\ onLevel' \in LightValues
        /\ home' \in LightValues
    BY <1>1, <1>2, ValuesAre DEF EntityTypes, NoLevel
  <2> QED
    BY <1>1, <1>2, <1>3, <1>4, <1>5, <2>1, <2>2 DEF EntityTypes
<1> HIDE DEF F
<1>7. ChoicesHold'
  <2>1. ChosenHolds(chosen, queue, appliance)
    BY DEF EntityInv, ChoicesHold
  <2>2. ChosenHolds(chosen', <<>>, appliance)
    BY <1>1, <1>2, <2>1, ChosenCleared
  <2>3. TempHolds(chosen', <<>>, appliance)
    BY NothingQueued DEF TempHolds
  <2> QED
    BY <1>1, <2>2, <2>3 DEF ChoicesHold
<1>8. Shows'
  BY <1>1 DEF Shows
<1>9. Lights'
  <2>1. TheyTellOf(messages', Light, {0, home})
    BY <1>1, NothingTold
  <2> QED
    BY <1>1, <1>4, <2>1 DEF EntityInv, Lights, LightHolds
<1> QED
  BY <1>6, <1>7, <1>8, <1>9 DEF EntityInv

LEMMA ReadyStep ==
    ASSUME EntityInv, ChannelReady PROVE EntityInv'
<1>1. /\ ready' = TRUE
      /\ UNCHANGED <<appliance, messages, queue, gap, upsets, subject, shown, onLevel,
                     picks, chosen, home>>
  BY DEF ChannelReady, BecomeReady, Unwritten
<1>2. EntityTypes'
  BY <1>1 DEF EntityInv, EntityTypes
<1> QED
  BY <1>1, <1>2, KeepsChoices, KeepsShows, KeepsLights DEF EntityInv
LEMMA EntityStep == EntityInv /\ [Next]_vars => EntityInv'
<1> SUFFICES ASSUME EntityInv, [Next]_vars PROVE EntityInv'
  OBVIOUS
<1>1. CASE UNCHANGED vars
  <2>1. UNCHANGED <<appliance, ready, messages, queue, gap, upsets, subject, shown,
                    onLevel, chosen, home, picks>>
    BY <1>1 DEF vars, carrierVars
  <2>2. EntityTypes'
    BY <2>1 DEF EntityInv, EntityTypes
  <2> QED
    BY <2>1, <2>2, KeepsChoices, KeepsShows, KeepsLights DEF EntityInv
<1>2. CASE ParseAndDispatch
  BY <1>2, DispatchStep
<1>3. ASSUME NEW entity \in Entities \cap Writable,
             NEW choice \in ChoicesOf[entity], Pick(entity, choice)
      PROVE  EntityInv'
  BY <1>3, PickStep
<1>4. CASE WriteApplied
  BY <1>4, WriteStep
<1>5. CASE WriteRuledOut
  BY <1>5, RuledOutStep
<1>6. CASE WriteIgnored \/ WriteDropped
  BY <1>6, FailStep
<1>7. ASSUME NEW after \in StatesWith(DOMAIN appliance), ApplianceOperated(after)
      PROVE  EntityInv'
  BY <1>7, OperatedStep
<1>8. CASE ChannelReady
  BY <1>8, ReadyStep
<1>9. CASE PollAnswered
  BY <1>9, AnswerStep
<1>10. CASE PollRejected
  BY <1>10, RejectStep
<1>11. CASE MessageLost
  BY <1>11, LostStep
<1>12. CASE Disconnected \/ Restarted
  BY <1>12, LinkStep
<1> QED
  BY <1>1, <1>2, <1>3, <1>4, <1>5, <1>6, <1>7, <1>8, <1>9, <1>10, <1>11, <1>12
  DEF Next

\* In every reachable state each choice agrees with its pending write or with the
\* appliance, and each state shown with the message, the write or the property
\* that speaks for it (ApplianceSetNumber::control, publish_crisp_set_temp,
\* WriteQueue::enqueue).
THEOREM EntityInvariant == Spec => []EntityInv
<1>1. Init => EntityInv
  BY InitEntities
<1>2. EntityInv /\ [Next]_vars => EntityInv'
  BY EntityStep
<1> QED
  BY <1>1, <1>2, PTL DEF Spec

-----------------------------------------------------------------------------
(* The properties of the runs *)

\* The entities have the states and the choices they may have, and the queue
\* has each property of the subject at most once (WriteQueue::enqueue).
THEOREM EntityTypeCorrect == Spec => []TypeOK
<1>1. ASSUME EntityInv PROVE TypeOK
  <2> DEFINE F == EntitiesOf[subject] \cap Writable
             P == DOMAIN appliance
  <2>1. EntityTypes
    BY <1>1 DEF EntityInv
  <2>2. queue \in Queues(F) /\ messages \in Seq(Reports(P))
    BY <2>1 DEF EntityTypes
  <2>3. IsFiniteSet(Entities) /\ F \subseteq Entities
    BY <2>1, TablesAre DEF EntityTypes, Entities
  <2>4. IsFiniteSet(F) /\ Cardinality(F) <= Cardinality(Entities)
        /\ Cardinality(F) \in Nat /\ Cardinality(Entities) \in Nat
    <3> HIDE DEF F
    <3> QED
      BY <2>3, FS_Subset, FS_CardinalityType
  <2>5. \A i \in DOMAIN queue :
            queue[i].key \in F /\ queue[i].value \in ValuesOf[queue[i].key]
    <3> HIDE DEF F
    <3>1. \A i \in DOMAIN queue : queue[i] \in Writes(F)
      BY <2>2, QueuesAre
    <3> QED
      BY <3>1, WritesAre
  <2>6. Len(queue) <= Cardinality(Entities)
    <3> HIDE DEF F
    <3>1. Len(queue) <= Cardinality(F) /\ Len(queue) \in Nat
      BY <2>2, <2>4, QueueIsSmall, QueuesAre
    <3> QED
      BY <2>4, <3>1
  <2>7. \A i \in DOMAIN messages :
            messages[i].shape \in Shapes /\ DOMAIN messages[i].data \subseteq P
    <3> HIDE DEF P
    <3>1. \A i \in DOMAIN messages : messages[i] \in Reports(P)
      BY <2>2
    <3>2. \A i \in DOMAIN messages :
            messages[i].shape \in Shapes /\ messages[i].data \in Knowledge(P)
      BY <3>1 DEF Reports
    <3> QED
      BY <3>2, KnowledgeIs
  <2>8. onLevel \in Nat /\ home \in Nat
    BY <2>1, ValuesAre DEF EntityTypes
  <2> QED
    BY <2>1, <2>5, <2>6, <2>7, <2>8 DEF TypeOK, EntityTypes, Entities
<1> QED
  BY <1>1, EntityInvariant, PTL

\* Once the queue has drained the appliance has each value last chosen, to half a
\* degree, however the choices and their merged writes interleave with polls and
\* disconnects.  LastValueWins names the exceptions: failed writes, operation at the
\* appliance, and temperatures chosen in automatic or merged into a place ahead of
\* the switch to manual.
THEOREM EntityLastValueWins == Spec => []LastValueWins
<1>1. ASSUME EntityInv PROVE LastValueWins
  <2>1. ChosenHolds(chosen, queue, appliance)
    BY <1>1 DEF EntityInv, ChoicesHold
  <2>2. queue = <<>> => Pending(queue) = {}
    BY NothingQueued
  <2> QED
    BY <2>1, <2>2 DEF LastValueWins, ChosenHolds
<1> QED
  BY <1>1, EntityInvariant, PTL

\* As long as no report is missing and every write is through, what is shown and
\* what is under way add up to the appliance (dispatch_fridge, dispatch_range).
THEOREM EntityReportsAddUp == Spec => []EntitiesAddUp
<1>1. ASSUME EntityInv, ~gap, queue = <<>>, NEW entity \in Entities,
             ~Own(entity, DOMAIN appliance)
      PROVE  /\ \A i \in DOMAIN messages :
                    /\ entity \in ToldIn(ExtractData(messages[i]))
                    /\ \A j \in DOMAIN messages :
                          j > i => entity \notin ToldIn(ExtractData(messages[j]))
                    => Agrees(entity,
                              Displayed(entity, ExtractData(messages[i])
                                 [Source(entity, ExtractData(messages[i]))]),
                              appliance[Source(entity, appliance)])
             /\ (/\ entity \in DOMAIN shown
                 /\ \A i \in DOMAIN messages :
                        entity \notin ToldIn(ExtractData(messages[i])))
                => Agrees(entity, shown[entity], appliance[Source(entity, appliance)])
  <2> DEFINE P == DOMAIN appliance
             src == SourceOf(subject, entity, P)
             Data(i) == ExtractData(messages[i])
  <2>1. /\ EntityTypes /\ subject \in Subjects /\ P \in PropertiesOf[subject]
        /\ appliance \in StatesWith(P) /\ messages \in Seq(Reports(P))
        /\ LastWord(messages, appliance)
        /\ ShownHolds(subject, shown, messages, queue, appliance)
    BY <1>1 DEF EntityInv, EntityTypes, Shows
  <2>2. ~Own(entity, P)
    BY <1>1
  <2> HIDE DEF P
  <2>3. DOMAIN appliance \subseteq P
    BY DEF P
  <2>4. src \in P /\ Source(entity, appliance) = src
    BY <1>1, <2>1, <2>2, <2>3, SourceIs DEF P
  <2>5. ASSUME NEW i \in DOMAIN messages
        PROVE  /\ entity \in ToldIn(Data(i)) <=> src \in DOMAIN Data(i)
               /\ entity \in ToldIn(Data(i)) => Source(entity, Data(i)) = src
    <3>1. messages[i] \in Reports(P)
      BY <2>1, <2>5
    <3>2. DOMAIN Data(i) \subseteq P
      BY <3>1, ExtractDataIs, KnowledgeIs
    <3> HIDE DEF Data
    <3> QED
      BY <1>1, <2>1, <2>2, <3>2, SourceIs
  <2>6. Agrees(entity, Displayed(entity, appliance[src]), appliance[src])
    <3>1. entity = "crisp_set_temp" => src = entity
      BY DEF SourceOf
    <3>2. entity = "crisp_set_temp" => appliance[src] \in ValuesOf["crisp_set_temp"]
      BY <2>1, <2>4, <3>1, StatesAre
    <3> HIDE DEF src
    <3> QED
      BY <3>2, DisplayedAgrees
  <2> HIDE DEF src
  <2>7. ASSUME NEW i \in DOMAIN messages, entity \in ToldIn(Data(i)),
               \A j \in DOMAIN messages : j > i => entity \notin ToldIn(Data(j))
        PROVE  Agrees(entity, Displayed(entity, Data(i)[Source(entity, Data(i))]),
                      appliance[Source(entity, appliance)])
    <3>1. src \in DOMAIN Data(i) /\ Source(entity, Data(i)) = src
      BY <2>5, <2>7
    <3>2. \A j \in DOMAIN messages : j > i => src \notin DOMAIN Data(j)
      BY <2>5, <2>7
    <3>3. Data(i)[src] = appliance[src]
      BY <2>1, <2>4, <3>1, <3>2 DEF LastWord, P
    <3> HIDE DEF Data
    <3> QED
      BY <2>4, <2>6, <3>1, <3>3
  <2>8. ASSUME entity \in DOMAIN shown,
               \A i \in DOMAIN messages : entity \notin ToldIn(Data(i))
        PROVE  Agrees(entity, shown[entity], appliance[Source(entity, appliance)])
    <3>1. ~TheyTell(messages, src)
      BY <2>5, <2>8 DEF TheyTell
    <3>2. Pending(queue) = {}
      BY <1>1, NothingQueued
    <3> QED
      BY <2>1, <2>2, <2>4, <2>8, <3>1, <3>2 DEF ShownHolds, src, P
  <2> QED
    BY <2>7, <2>8
<1>2. ASSUME EntityInv PROVE EntitiesAddUp
  <2>1. ASSUME NEW entity \in Entities, Own(entity, DOMAIN appliance)
        PROVE  entity = "ref2_door_ajar" /\ entity \in DOMAIN appliance
    BY <2>1 DEF Own
  <2> QED
    BY <1>1, <1>2, <2>1 DEF EntitiesAddUp
<1> QED
  BY <1>2, EntityInvariant, PTL

\* The accent light, switched off and on however often, comes back at the level
\* that was seen (ApplianceSetLevelSwitch, publish_accent_light_level).
THEOREM EntityLightComesBack == Spec => []LightComesBack
<1>1. ASSUME EntityInv PROVE LightComesBack
  BY <1>1 DEF EntityInv, Lights, LightHolds, LightComesBack, Light
<1> QED
  BY <1>1, EntityInvariant, PTL


=============================================================================
