-------------------------- MODULE FridgeModesProofs --------------------------
(***************************************************************************)
(* The grouped selects, for any number of picks, faults and messages under *)
(* way: the last pick wins flag by flag, the cache and the messages add up *)
(* to the appliance, and no label is guessed.                              *)
(***************************************************************************)
EXTENDS FridgeModes, Induction, FiniteSetTheorems, SequenceTheorems

-----------------------------------------------------------------------------
(* The tables *)

\* What may be known of some flags.
Knowledge(F) == UNION {[D -> BOOLEAN] : D \in SUBSET F}

LEMMA KnowledgeIs ==
    ASSUME NEW F, NEW known \in Knowledge(F)
    PROVE  /\ DOMAIN known \subseteq F
           /\ \A flag \in DOMAIN known : known[flag] \in BOOLEAN
<1>1. PICK D \in SUBSET F : known \in [D -> BOOLEAN]
  BY DEF Knowledge
<1> QED
  BY <1>1

LEMMA IsKnowledge ==
    ASSUME NEW F, NEW D \in SUBSET F, NEW known \in [D -> BOOLEAN]
    PROVE  known \in Knowledge(F)
BY DEF Knowledge

LEMMA NoKnowledge ==
    ASSUME NEW F
    PROVE  <<>> \in Knowledge(F) /\ DOMAIN <<>> = {}
<1>1. DOMAIN <<>> = {}
  OBVIOUS
<1>2. <<>> \in [{} -> BOOLEAN] /\ {} \in SUBSET F
  OBVIOUS
<1> QED
  BY <1>1, <1>2, IsKnowledge

Tables == DOMAIN WriteOrder

LEMMA TablesAre == Tables = {"ice_maker_mode", "appliance_mode"}
BY DEF Tables, WriteOrder

\* The properties a select writes are its flags, each of them once.
LEMMA WriteOrderIs ==
    ASSUME NEW p \in Tables
    PROVE  /\ WriteOrder[p] \in Seq(Flags(p))
           /\ Len(WriteOrder[p]) \in Nat
           /\ Flags(p) = {WriteOrder[p][i] : i \in 1..Len(WriteOrder[p])}
           /\ \A i, j \in 1..Len(WriteOrder[p]) :
                 WriteOrder[p][i] = WriteOrder[p][j] => i = j
           /\ IsFiniteSet(Flags(p))
<1> DEFINE order == WriteOrder[p]
           N == Len(order)
           Names == {"ice_maker_on", "max_ice_on", "night_ice_on", "high_use_on",
                     "short_vacation_on", "long_vacation_on", "sabbath_on"}
<1>1. /\ N \in Nat /\ order \in Seq(Names) /\ DOMAIN order = 1..N
      /\ \A i, j \in 1..N : order[i] = order[j] => i = j
  <2>1. CASE p = "ice_maker_mode"
    <3>1. order = <<"ice_maker_on", "max_ice_on", "night_ice_on">>
      BY <2>1 DEF WriteOrder
    <3> HIDE DEF order
    <3>2. order \in Seq(Names)
      BY <3>1
    <3>3. N = 3
      BY <3>1
    <3>5. DOMAIN order = 1..N
      BY <3>2
    <3>4. \A i, j \in 1..N : order[i] = order[j] => i = j
      <4>1. \A i, j \in 1..3 : order[i] = order[j] => i = j
        BY <3>1
      <4>2. 1..N = 1..3
        BY <3>3
      <4> QED
        BY <4>1, <4>2, Zenon
    <3> HIDE DEF N
    <3> QED
      BY <3>2, <3>3, <3>5, <3>4
  <2>2. CASE p = "appliance_mode"
    <3>1. order = <<"high_use_on", "short_vacation_on", "long_vacation_on",
                    "sabbath_on">>
      BY <2>2 DEF WriteOrder
    <3> HIDE DEF order
    <3>2. order \in Seq(Names)
      BY <3>1
    <3>3. N = 4
      BY <3>1
    <3>5. DOMAIN order = 1..N
      BY <3>2
    <3>4. \A i, j \in 1..N : order[i] = order[j] => i = j
      <4>1. \A i, j \in 1..4 : order[i] = order[j] => i = j
        BY <3>1
      <4>2. 1..N = 1..4
        BY <3>3
      <4> QED
        BY <4>1, <4>2, Zenon
    <3> HIDE DEF N
    <3> QED
      BY <3>2, <3>3, <3>5, <3>4
  <2> QED
    BY <2>1, <2>2, TablesAre
<1>2. Flags(p) = {order[i] : i \in 1..N}
  BY <1>1 DEF Flags, ToSet
<1> HIDE DEF order, N
<1>3. \A i \in 1..N : order[i] \in Flags(p)
  BY <1>2
<1>4. order \in Seq(Flags(p))
  BY <1>1, <1>3 DEF N
<1>5. IsFiniteSet(Flags(p))
  <2>1. order \in Surjection(1..N, Flags(p))
    BY <1>1, <1>2, <1>3, <1>4 DEF Surjection, N
  <2>2. IsFiniteSet(1..N)
    BY <1>1, FS_Interval
  <2> QED
    BY <2>1, <2>2, FS_Surjection
<1> QED
  BY <1>1, <1>2, <1>4, <1>5 DEF order, N

\* What is derived is always an option of the select.
LEMMA LabelIsOption ==
    ASSUME NEW p \in Tables, NEW known
    PROVE  Label(p, known) \in Options(p)
<1> DEFINE order == Precedence[p]
           On(i) == order[i].flag \in DOMAIN known /\ known[order[i].flag]
<1>1. /\ Baseline[p] \in Options(p)
      /\ \A i \in DOMAIN order : order[i].label \in Options(p)
  <2>1. CASE p = "ice_maker_mode"
    <3>1. /\ Baseline[p] = "Off"
          /\ Options(p) = {"Off", "Normal", "MaxIce", "NightIce"}
          /\ DOMAIN order = 1..3 /\ order[1].label = "MaxIce"
          /\ order[2].label = "NightIce" /\ order[3].label = "Normal"
      BY <2>1 DEF Baseline, Options, FlagsOf, Precedence
    <3> HIDE DEF order
    <3> QED
      BY <3>1
  <2>2. CASE p = "appliance_mode"
    <3>1. /\ Baseline[p] = "Normal"
          /\ Options(p) = {"Normal", "HighUsage", "ShortVacation",
                           "LongVacation", "Sabbath"}
          /\ DOMAIN order = 1..4 /\ order[1].label = "Sabbath"
          /\ order[2].label = "LongVacation" /\ order[3].label = "ShortVacation"
          /\ order[4].label = "HighUsage"
      BY <2>2 DEF Baseline, Options, FlagsOf, Precedence
    <3> HIDE DEF order
    <3> QED
      BY <3>1
  <2> QED
    BY <2>1, <2>2, TablesAre
<1>2. \A i, j \in DOMAIN order : i \in Nat /\ (i <= j \/ j < i)
  <2>1. DOMAIN order = 1..3 \/ DOMAIN order = 1..4
    BY TablesAre DEF Precedence
  <2> HIDE DEF order
  <2> QED
    BY <2>1
<1>3. CASE \E i \in DOMAIN order : On(i)
  <2> DEFINE on == {i \in DOMAIN order : On(i)}
             First(i) == On(i) /\ \A j \in 1..(i - 1) : ~On(j)
  <2>1. on \subseteq Nat /\ on # {}
    BY <1>2, <1>3
  <2>2. PICK least \in on : \A i \in on : least <= i
    <3> HIDE DEF on
    <3> QED
      BY <2>1, LeastNatural
  <2>3. \A j \in 1..(least - 1) : ~On(j)
    <3>1. DOMAIN order = 1..3 \/ DOMAIN order = 1..4
      BY TablesAre DEF Precedence
    <3> HIDE DEF order
    <3> QED
      BY <2>2, <3>1
  <2>4. \E i \in DOMAIN order : First(i)
    BY <2>2, <2>3
  <2>5. (CHOOSE i \in DOMAIN order : First(i)) \in DOMAIN order
    <3> HIDE DEF order, First
    <3> QED
      BY <2>4
  <2>6. Label(p, known) = order[CHOOSE i \in DOMAIN order : First(i)].label
    BY <1>3 DEF Label
  <2> HIDE DEF order, First
  <2> QED
    BY <1>1, <2>5, <2>6
<1>4. CASE ~\E i \in DOMAIN order : On(i)
  BY <1>1, <1>4 DEF Label
<1> QED
  BY <1>3, <1>4

LEMMA ImageIs ==
    ASSUME NEW p \in Tables, NEW option \in Options(p)
    PROVE  /\ Image(p, option) \in [Flags(p) -> BOOLEAN]
           /\ \A flag \in Flags(p) :
                Image(p, option)[flag] = (flag \in FlagsOf[p][option])
BY DEF Image

-----------------------------------------------------------------------------
(* From a message to the select *)

Buses(p) == [cached : Knowledge(Flags(p)), shown : Options(p) \cup {NoLabel}]

LEMMA KeptIs ==
    ASSUME NEW F, NEW known \in Knowledge(F), NEW data \in Knowledge(F)
    PROVE  /\ Kept(known, data) \in Knowledge(F)
           /\ DOMAIN Kept(known, data) = DOMAIN known \cup DOMAIN data
           /\ \A flag \in DOMAIN known \cup DOMAIN data :
                Kept(known, data)[flag] =
                    IF flag \in DOMAIN data THEN data[flag] ELSE known[flag]
<1> DEFINE D == DOMAIN known \cup DOMAIN data
<1>1. /\ DOMAIN known \subseteq F /\ DOMAIN data \subseteq F
      /\ \A flag \in DOMAIN known : known[flag] \in BOOLEAN
      /\ \A flag \in DOMAIN data : data[flag] \in BOOLEAN
  BY KnowledgeIs
<1>2. Kept(known, data) \in [D -> BOOLEAN]
  BY <1>1 DEF Kept
<1>3. Kept(known, data) \in Knowledge(F)
  BY <1>1, <1>2, IsKnowledge
<1> QED
  BY <1>2, <1>3 DEF Kept

\* A message without a flag of the select leaves everything alone; any other
\* one is kept, and shown as soon as every flag is known.
LEMMA DispatchedIs ==
    ASSUME picker \in Tables, NEW b \in Buses(picker),
           NEW data \in Knowledge(Flags(picker))
    PROVE  LET after == Dispatched(b, data)
               known == Kept(b.cached, data)
           IN  /\ after \in Buses(picker)
               /\ after.cached = known
               /\ DOMAIN known = Flags(picker) /\ DOMAIN data # {} =>
                    after.shown = Label(picker, known)
               /\ DOMAIN known # Flags(picker) \/ DOMAIN data = {} =>
                    after.shown = b.shown
               /\ DOMAIN data = {} => after = b
               /\ DOMAIN b.cached \subseteq DOMAIN known
<1> DEFINE known == Kept(b.cached, data)
           kept == [b EXCEPT !.cached = known]
           after == Dispatched(b, data)
<1>1. b.cached \in Knowledge(Flags(picker))
      /\ b.shown \in Options(picker) \cup {NoLabel}
      /\ b = [cached |-> b.cached, shown |-> b.shown]
  BY DEF Buses
<1>2. /\ known \in Knowledge(Flags(picker))
      /\ DOMAIN known = DOMAIN b.cached \cup DOMAIN data
      /\ \A flag \in DOMAIN b.cached \cup DOMAIN data :
            known[flag] = IF flag \in DOMAIN data THEN data[flag]
                          ELSE b.cached[flag]
  BY <1>1, KeptIs
<1> HIDE DEF known
<1>3. CASE DOMAIN data = {}
  <2>1. known = b.cached
    <3>1. PICK D : known \in [D -> BOOLEAN]
      BY <1>2 DEF Knowledge
    <3>2. PICK E : b.cached \in [E -> BOOLEAN]
      BY <1>1 DEF Knowledge
    <3>3. D = E /\ \A flag \in D : known[flag] = b.cached[flag]
      BY <1>2, <1>3, <3>1, <3>2
    <3> QED
      BY <3>1, <3>2, <3>3
  <2>2. after = b
    BY <1>3 DEF Dispatched
  <2> QED
    BY <1>3, <2>1, <2>2 DEF known
<1>4. CASE DOMAIN data # {}
  <2>1. after = Recomputed(kept)
    BY <1>4 DEF Dispatched, known
  <2>2. kept = [cached |-> known, shown |-> b.shown]
    BY <1>1
  <2> HIDE DEF kept
  <2>5. DOMAIN b.cached \subseteq DOMAIN known
    BY <1>2
  <2>3. CASE DOMAIN known = Flags(picker)
    <3>1. after = [cached |-> known, shown |-> Label(picker, known)]
      BY <2>1, <2>2, <2>3 DEF Recomputed, KnownEnough
    <3>2. Label(picker, known) \in Options(picker)
      BY LabelIsOption
    <3>3. after \in Buses(picker)
      BY <1>2, <3>1, <3>2 DEF Buses
    <3> QED
      BY <1>4, <2>3, <2>5, <3>1, <3>3 DEF known
  <2>4. CASE DOMAIN known # Flags(picker)
    <3>1. after = [cached |-> known, shown |-> b.shown]
      BY <2>1, <2>2, <2>4 DEF Recomputed, KnownEnough
    <3>2. after \in Buses(picker)
      BY <1>1, <1>2, <3>1 DEF Buses
    <3> QED
      BY <1>4, <2>4, <2>5, <3>1, <3>2 DEF known
  <2> QED
    BY <2>3, <2>4
<1> QED
  BY <1>3, <1>4

-----------------------------------------------------------------------------
(* The queue of writes *)

Writes(F) == [key : F, value : BOOLEAN]

\* No property is pending twice.
Distinct(q) == \A i, j \in DOMAIN q : q[i].key = q[j].key => i = j

Queues(F) == {q \in Seq(Writes(F)) : Distinct(q)}

Pending(q) == {q[i] : i \in DOMAIN q}

LEMMA QueuesAre ==
    ASSUME NEW F, NEW q \in Queues(F)
    PROVE  /\ q \in Seq(Writes(F)) /\ Len(q) \in Nat /\ DOMAIN q = 1..Len(q)
           /\ \A i \in 1..Len(q) : q[i] \in Writes(F)
           /\ \A i, j \in 1..Len(q) : q[i].key = q[j].key => i = j
           /\ Pending(q) = {q[i] : i \in 1..Len(q)}
<1>1. q \in Seq(Writes(F)) /\ Distinct(q)
  BY DEF Queues
<1>2. Len(q) \in Nat /\ DOMAIN q = 1..Len(q)
      /\ \A i \in 1..Len(q) : q[i] \in Writes(F)
  BY <1>1
<1> QED
  BY <1>1, <1>2 DEF Distinct, Pending

\* The new write is pending, and so is every other one of another property.
LEMMA EnqueuedIs ==
    ASSUME NEW F, NEW q \in Queues(F), NEW w \in Writes(F)
    PROVE  /\ Enqueued(q, w) \in Queues(F)
           /\ w \in Pending(Enqueued(q, w))
           /\ \A x \in Pending(q) : x.key # w.key => x \in Pending(Enqueued(q, w))
<1> DEFINE n == Len(q)
           r == Enqueued(q, w)
<1>1. /\ q \in Seq(Writes(F)) /\ n \in Nat /\ DOMAIN q = 1..n
      /\ \A i \in 1..n : q[i] \in Writes(F)
      /\ \A i, j \in 1..n : q[i].key = q[j].key => i = j
      /\ Pending(q) = {q[i] : i \in 1..n}
  BY QueuesAre
<1>2. CASE \E i \in 1..n : q[i].key = w.key
  <2>1. r = [i \in 1..n |-> IF q[i].key = w.key THEN w ELSE q[i]]
    BY <1>1, <1>2 DEF Enqueued
  <2>2. PICK k \in 1..n : q[k].key = w.key
    BY <1>2
  <2>3. /\ DOMAIN r = 1..n
        /\ \A i \in 1..n : r[i] = IF q[i].key = w.key THEN w ELSE q[i]
    BY <2>1
  <2>4. r \in [1..n -> Writes(F)]
    BY <1>1, <2>1
  <2>5. r \in Seq(Writes(F))
    BY <1>1, <2>4
  <2> HIDE DEF r
  <2>6. \A i \in 1..n : r[i].key = q[i].key
    BY <2>3
  <2>7. Distinct(r)
    BY <1>1, <2>3, <2>6 DEF Distinct
  <2>8. w \in Pending(r)
    BY <2>2, <2>3 DEF Pending
  <2>9. \A x \in Pending(q) : x.key # w.key => x \in Pending(r)
    BY <1>1, <2>3 DEF Pending
  <2> QED
    BY <2>5, <2>7, <2>8, <2>9 DEF Queues, r
<1>3. CASE ~\E i \in 1..n : q[i].key = w.key
  <2>1. r = Append(q, w)
    BY <1>1, <1>3 DEF Enqueued
  <2>2. /\ r \in Seq(Writes(F)) /\ Len(r) = n + 1 /\ DOMAIN r = 1..(n + 1)
        /\ \A i \in 1..n : r[i] = q[i]
        /\ r[n + 1] = w
    BY <1>1, <2>1
  <2> HIDE DEF r, n
  <2>3. Distinct(r)
    <3>1. \A i \in 1..(n + 1) : i \in 1..n \/ i = n + 1
      BY <1>1
    <3>2. ASSUME NEW i \in 1..(n + 1), NEW j \in 1..(n + 1), r[i].key = r[j].key
          PROVE  i = j
      BY <1>1, <1>3, <2>2, <3>1, <3>2
    <3> QED
      BY <2>2, <3>2 DEF Distinct
  <2>4. n + 1 \in 1..(n + 1) /\ \A i \in 1..n : i \in 1..(n + 1)
    BY <1>1
  <2>5. w \in Pending(r)
    BY <2>2, <2>4 DEF Pending
  <2>6. \A x \in Pending(q) : x \in Pending(r)
    BY <1>1, <2>2, <2>4 DEF Pending
  <2> QED
    BY <2>2, <2>3, <2>5, <2>6 DEF Queues, r
<1> QED
  BY <1>2, <1>3

\* What is left of the queue when its oldest write has been taken.
LEMMA TailIs ==
    ASSUME NEW F, NEW q \in Queues(F), q # <<>>
    PROVE  /\ Tail(q) \in Queues(F)
           /\ Head(q) \in Pending(q) /\ Head(q) \in Writes(F)
           /\ \A x \in Pending(Tail(q)) : x \in Pending(q) /\ x.key # Head(q).key
           /\ \A x \in Pending(q) : x = Head(q) \/ x \in Pending(Tail(q))
<1> DEFINE n == Len(q)
           r == Tail(q)
<1>1. /\ q \in Seq(Writes(F)) /\ n \in Nat /\ n # 0
      /\ \A i \in 1..n : q[i] \in Writes(F)
      /\ \A i, j \in 1..n : q[i].key = q[j].key => i = j
      /\ Pending(q) = {q[i] : i \in 1..n}
  BY QueuesAre
<1>2. /\ r \in Seq(Writes(F)) /\ Len(r) = n - 1 /\ DOMAIN r = 1..(n - 1)
      /\ \A i \in 1..(n - 1) : r[i] = q[i + 1]
      /\ Head(q) = q[1]
  BY <1>1
<1> HIDE DEF r, n
<1>3. /\ 1 \in 1..n /\ \A i \in 1..(n - 1) : i + 1 \in 1..n /\ i + 1 # 1
      /\ \A i \in 1..n : i = 1 \/ (i - 1 \in 1..(n - 1) /\ (i - 1) + 1 = i)
      /\ \A i, j \in 1..(n - 1) : i + 1 = j + 1 => i = j
  BY <1>1
<1>4. Distinct(r)
  <2>1. ASSUME NEW i \in 1..(n - 1), NEW j \in 1..(n - 1), r[i].key = r[j].key
        PROVE  i = j
    <3>1. i + 1 \in 1..n /\ j + 1 \in 1..n /\ q[i + 1].key = q[j + 1].key
      BY <1>2, <1>3, <2>1
    <3>2. i + 1 = j + 1
      BY <1>1, <3>1
    <3> QED
      BY <1>3, <3>2
  <2> QED
    BY <1>2, <2>1 DEF Distinct
<1>5. Head(q) \in Pending(q) /\ Head(q) \in Writes(F)
  BY <1>1, <1>2, <1>3
<1>6. ASSUME NEW x \in Pending(r) PROVE x \in Pending(q) /\ x.key # Head(q).key
  <2>1. PICK i \in 1..(n - 1) : x = q[i + 1]
    BY <1>2 DEF Pending
  <2> QED
    BY <1>1, <1>2, <1>3, <2>1
<1>7. ASSUME NEW x \in Pending(q) PROVE x = Head(q) \/ x \in Pending(r)
  <2>1. PICK i \in 1..n : x = q[i]
    BY <1>1
  <2>2. CASE i = 1
    BY <1>2, <2>1, <2>2
  <2>3. CASE i # 1
    <3>1. i - 1 \in 1..(n - 1) /\ (i - 1) + 1 = i
      BY <1>3, <2>3
    <3>2. r[i - 1] = x
      BY <1>2, <2>1, <3>1
    <3> QED
      BY <1>2, <3>1, <3>2 DEF Pending
  <2> QED
    BY <2>2, <2>3
<1> QED
  BY <1>2, <1>4, <1>5, <1>6, <1>7 DEF Queues, r

\* There is room for each property once.
LEMMA QueueIsSmall ==
    ASSUME NEW F, IsFiniteSet(F), NEW q \in Queues(F)
    PROVE  Len(q) <= Cardinality(F)
<1> DEFINE f == [i \in 1..Len(q) |-> q[i].key]
<1>1. /\ Len(q) \in Nat /\ \A i \in 1..Len(q) : q[i].key \in F
      /\ \A i, j \in 1..Len(q) : q[i].key = q[j].key => i = j
  BY QueuesAre DEF Writes
<1>2. f \in Injection(1..Len(q), F)
  BY <1>1 DEF Injection, IsInjective
<1>3. Cardinality(1..Len(q)) <= Cardinality(F)
  <2> HIDE DEF f
  <2> QED
    BY <1>2, FS_Injection
<1>4. Cardinality(1..Len(q)) = Len(q)
  <2>1. 1 \in Int /\ Len(q) \in Int
    BY <1>1
  <2>2. Cardinality(1..Len(q)) = IF 1 > Len(q) THEN 0 ELSE Len(q) - 1 + 1
    BY <2>1, FS_Interval
  <2> QED
    BY <1>1, <2>2
<1> QED
  BY <1>3, <1>4

\* The loop over the writes of an option.
LEMMA QueueingIs ==
    ASSUME NEW F, NEW q \in Queues(F), NEW writes \in Seq(Writes(F))
    PROVE  /\ \A n \in 0..Len(writes) : Queueing(q, writes)[n] \in Queues(F)
           /\ Queueing(q, writes)[0] = q
           /\ \A n \in 1..Len(writes) :
                Queueing(q, writes)[n] = Enqueued(Queueing(q, writes)[n - 1], writes[n])
<1> DEFINE N == Len(writes)
           Is(f) == f = [n \in 0..N |->
                            IF n = 0 THEN q ELSE Enqueued(f[n - 1], writes[n])]
           step == [a \in (1..N) \X Queues(F) |-> Enqueued(a[2], writes[a[1]])]
<1>1. N \in Nat /\ \A n \in 1..N : writes[n] \in Writes(F)
  OBVIOUS
<1> HIDE DEF N
<1>2. step \in [(1..N) \X Queues(F) -> Queues(F)]
  BY <1>1, EnqueuedIs
<1>3. PICK f \in [0..N -> Queues(F)] : Steps(f, N, q, step)
  <2> HIDE DEF step
  <2> QED
    BY <1>1, <1>2, RecursionUpTo, Zenon
<1>4. f[0] = q /\ \A n \in 1..N : f[n] = Enqueued(f[n - 1], writes[n])
  <2>1. \A n \in 1..N : n - 1 \in 0..N
    BY <1>1
  <2> QED
    BY <1>3, <2>1 DEF Steps
<1>5. Is(f)
  <2> HIDE DEF step
  <2>1. f = [n \in 0..N |-> f[n]]
    BY <1>3
  <2>2. \A n \in 0..N : n = 0 \/ n \in 1..N
    BY <1>1
  <2>3. \A n \in 0..N : f[n] = IF n = 0 THEN q ELSE Enqueued(f[n - 1], writes[n])
    BY <1>4, <2>2
  <2> QED
    BY <2>1, <2>3, Zenon
<1>6. Queueing(q, writes) = CHOOSE g : Is(g)
  BY Zenon DEF Queueing, N
<1> DEFINE after == Queueing(q, writes)
<1>7. Is(after)
  BY <1>5, <1>6, Zenon
<1>8. /\ 0 \in 0..N /\ \A n \in 1..N : n \in 0..N /\ n # 0 /\ n - 1 \in 0..N
      /\ \A n \in 0..N : n = 0 \/ n \in 1..N
  BY <1>1
<1> HIDE DEF step, after
<1>9. after[0] = q /\ \A n \in 1..N : after[n] = Enqueued(after[n - 1], writes[n])
  BY <1>7, <1>8
<1>10. \A n \in 0..N : after[n] \in Queues(F)
  <2> DEFINE T == {n \in 0..N : after[n] \in Queues(F)}
  <2>1. 0 \in T
    BY <1>8, <1>9
  <2>2. ASSUME NEW n \in 1..N, n - 1 \in T PROVE n \in T
    BY <1>1, <1>8, <1>9, <2>2, EnqueuedIs
  <2> HIDE DEF T
  <2>3. \A n \in 0..N : n \in T
    BY <1>1, <2>1, <2>2, InductionUpTo
  <2> QED
    BY <2>3 DEF T
<1> QED
  BY <1>9, <1>10 DEF N, after

\* Once they are all queued each of them is pending, whatever was before.
LEMMA AllQueued ==
    ASSUME NEW F, NEW q \in Queues(F), NEW writes \in Seq(Writes(F)),
           \A i, j \in 1..Len(writes) : writes[i].key = writes[j].key => i = j
    PROVE  /\ Queueing(q, writes)[Len(writes)] \in Queues(F)
           /\ \A i \in 1..Len(writes) :
                writes[i] \in Pending(Queueing(q, writes)[Len(writes)])
<1> DEFINE N == Len(writes)
           after == Queueing(q, writes)
           T == {n \in 0..N : \A i \in 1..n : writes[i] \in Pending(after[n])}
<1>1. /\ N \in Nat /\ \A n \in 1..N : writes[n] \in Writes(F)
      /\ \A i, j \in 1..N : writes[i].key = writes[j].key => i = j
  OBVIOUS
<1>2. /\ \A n \in 0..N : after[n] \in Queues(F)
      /\ \A n \in 1..N : after[n] = Enqueued(after[n - 1], writes[n])
  BY QueueingIs
<1> HIDE DEF N, after
<1>3. 0 \in T
  BY <1>1
<1>4. ASSUME NEW n \in 1..N, n - 1 \in T PROVE n \in T
  <2>1. /\ n \in 0..N /\ n - 1 \in 0..N
        /\ \A i \in 1..n : i \in 1..N /\ (i = n \/ i \in 1..(n - 1))
    BY <1>1
  <2>2. after[n - 1] \in Queues(F) /\ after[n] = Enqueued(after[n - 1], writes[n])
        /\ writes[n] \in Writes(F)
    BY <1>1, <1>2, <2>1
  <2>3. /\ writes[n] \in Pending(after[n])
        /\ \A x \in Pending(after[n - 1]) :
              x.key # writes[n].key => x \in Pending(after[n])
    BY <2>2, EnqueuedIs
  <2>4. ASSUME NEW i \in 1..n, i # n PROVE writes[i] \in Pending(after[n])
    <3>1. writes[i] \in Pending(after[n - 1])
      BY <1>4, <2>1, <2>4
    <3>2. writes[i].key # writes[n].key
      BY <1>1, <2>1, <2>4
    <3> QED
      BY <2>3, <3>1, <3>2
  <2> QED
    BY <2>1, <2>3, <2>4
<1>5. \A n \in 0..N : n \in T
  <2> HIDE DEF T
  <2> QED
    BY <1>1, <1>3, <1>4, InductionUpTo
<1>6. N \in 0..N
  BY <1>1
<1> QED
  BY <1>2, <1>5, <1>6 DEF N, after

\* What is pending after a pick is the option, and nothing else.
LEMMA PickQueues ==
    ASSUME picker \in Tables, NEW q \in Queues(Flags(picker)),
           NEW option \in Options(picker)
    PROVE  LET after == Queueing(q, WritesFor(option))[Len(WriteOrder[picker])]
           IN  /\ after \in Queues(Flags(picker))
               /\ \A flag \in Flags(picker) : \E x \in Pending(after) : x.key = flag
               /\ \A x \in Pending(after) : x.value = Image(picker, option)[x.key]
<1> DEFINE F == Flags(picker)
           order == WriteOrder[picker]
           writes == WritesFor(option)
           N == Len(order)
           after == Queueing(q, writes)[N]
<1>1. /\ order \in Seq(F) /\ N \in Nat /\ DOMAIN order = 1..N
      /\ F = {order[i] : i \in 1..N}
      /\ \A i, j \in 1..N : order[i] = order[j] => i = j
  <2>1. /\ order \in Seq(F) /\ N \in Nat
        /\ F = {order[i] : i \in 1..N}
        /\ \A i, j \in 1..N : order[i] = order[j] => i = j
    BY WriteOrderIs, Zenon
  <2> HIDE DEF order, F
  <2>2. DOMAIN order = 1..N
    BY <2>1
  <2> QED
    BY <2>1, <2>2
<1>2. /\ writes = [i \in 1..N |-> [key |-> order[i],
                                   value |-> order[i] \in FlagsOf[picker][option]]]
  BY <1>1 DEF WritesFor
<1> HIDE DEF order, F
<1>3. \A i \in 1..N : order[i] \in F /\ (order[i] \in FlagsOf[picker][option]) \in BOOLEAN
  BY <1>1
<1>4. writes \in [1..N -> Writes(F)]
  BY <1>2, <1>3 DEF Writes
<1>5. writes \in Seq(Writes(F)) /\ Len(writes) = N
  BY <1>1, <1>4
<1>6. \A i \in 1..N :
        writes[i].key = order[i]
        /\ writes[i].value = (order[i] \in FlagsOf[picker][option])
  BY <1>2
<1> HIDE DEF writes, N
<1>7. \A i, j \in 1..N : writes[i].key = writes[j].key => i = j
  BY <1>1, <1>6
<1>8. after \in Queues(F) /\ \A i \in 1..N : writes[i] \in Pending(after)
  <2>1. /\ Queueing(q, writes)[Len(writes)] \in Queues(F)
        /\ \A i \in 1..Len(writes) :
              writes[i] \in Pending(Queueing(q, writes)[Len(writes)])
    <3>1. \A i, j \in 1..Len(writes) : writes[i].key = writes[j].key => i = j
      BY <1>5, <1>7
    <3>2. q \in Queues(F)
      BY DEF F
    <3> QED
      BY <1>5, <3>1, <3>2, AllQueued
  <2> QED
    BY <1>5, <2>1
<1> HIDE DEF after
<1>9. \A flag \in F : \E x \in Pending(after) : x.key = flag
  BY <1>1, <1>6, <1>8
<1>10. ASSUME NEW x \in Pending(after) PROVE x.value = Image(picker, option)[x.key]
  <2>1. /\ \A i \in 1..Len(after) : after[i] \in Writes(F)
        /\ \A i, j \in 1..Len(after) : after[i].key = after[j].key => i = j
        /\ Pending(after) = {after[i] : i \in 1..Len(after)}
    BY <1>8, QueuesAre
  <2>2. PICK i \in 1..Len(after) : x = after[i]
    BY <2>1
  <2>3. x.key \in F
    BY <2>1, <2>2 DEF Writes
  <2>4. PICK k \in 1..N : x.key = order[k]
    BY <1>1, <2>3
  <2>5. PICK j \in 1..Len(after) : writes[k] = after[j]
    BY <1>8, <2>1
  <2>6. x = writes[k]
    BY <1>6, <2>1, <2>2, <2>4, <2>5
  <2>7. Image(picker, option)[x.key] = (x.key \in FlagsOf[picker][option])
    BY <2>3, ImageIs DEF F
  <2> QED
    BY <1>6, <2>4, <2>6, <2>7
<1> QED
  BY <1>8, <1>9, <1>10 DEF after, F, N, writes, order

-----------------------------------------------------------------------------
(* The messages under way *)

Reports(F) == [shape : Shapes, data : Knowledge(F)]

LEMMA ExtractDataIs ==
    ASSUME NEW F, NEW message \in Reports(F)
    PROVE  ExtractData(message) \in Knowledge(F)
BY NoKnowledge DEF Reports, ExtractData

\* The last word on each flag, of the messages ms or else of the cache, is what
\* the appliance `app` has.
Agree(F, ms, cached, app) ==
    \A flag \in F :
        /\ \A i \in DOMAIN ms :
              /\ flag \in DOMAIN ExtractData(ms[i])
              /\ \A j \in DOMAIN ms : j > i => flag \notin DOMAIN ExtractData(ms[j])
              => ExtractData(ms[i])[flag] = app[flag]
        /\ flag \in DOMAIN cached
              /\ (\A i \in DOMAIN ms : flag \notin DOMAIN ExtractData(ms[i]))
              => cached[flag] = app[flag]

LEMMA ReportsAddUpIs ==
    ReportsAddUp <=> (~gap => Agree(Flags(picker), messages, bus.cached, appliance))
BY DEF ReportsAddUp, Agree

\* The oldest message moves into the cache.
LEMMA AgreeTail ==
    ASSUME NEW F, NEW ms \in Seq(Reports(F)), ms # <<>>,
           NEW cached \in Knowledge(F), NEW app, Agree(F, ms, cached, app)
    PROVE  Agree(F, Tail(ms), Kept(cached, ExtractData(Head(ms))), app)
<1> DEFINE n == Len(ms)
           rest == Tail(ms)
           first == ExtractData(Head(ms))
           kept == Kept(cached, first)
           Tells(i, flag) == flag \in DOMAIN ExtractData(ms[i])
<1>1. n \in Nat /\ n # 0 /\ DOMAIN ms = 1..n
  OBVIOUS
<1>2. /\ DOMAIN rest = 1..(n - 1) /\ \A i \in 1..(n - 1) : rest[i] = ms[i + 1]
      /\ Head(ms) = ms[1] /\ ms[1] \in Reports(F)
  BY <1>1
<1>3. /\ DOMAIN kept = DOMAIN cached \cup DOMAIN first
      /\ \A flag \in DOMAIN cached \cup DOMAIN first :
            kept[flag] = IF flag \in DOMAIN first THEN first[flag] ELSE cached[flag]
      /\ first = ExtractData(ms[1])
  <2>1. /\ first \in Knowledge(F) /\ cached \in Knowledge(F)
        /\ first = ExtractData(ms[1])
    BY <1>2, ExtractDataIs
  <2> HIDE DEF first, kept, rest, n, Tells
  <2>2. /\ DOMAIN Kept(cached, first) = DOMAIN cached \cup DOMAIN first
        /\ \A flag \in DOMAIN cached \cup DOMAIN first :
              Kept(cached, first)[flag] =
                  IF flag \in DOMAIN first THEN first[flag] ELSE cached[flag]
    BY DEF Kept
  <2> QED
    BY <2>1, <2>2, Zenon DEF kept
<1> HIDE DEF n, rest, first, kept
<1>4. /\ 1 \in 1..n /\ \A i \in 1..(n - 1) : i + 1 \in 1..n /\ i + 1 > 1
      /\ \A i \in 1..n : i = 1 \/ (i - 1 \in 1..(n - 1) /\ (i - 1) + 1 = i)
      /\ \A i, j \in 1..(n - 1) : j > i <=> j + 1 > i + 1
      /\ \A i \in 1..n : i \in Nat
      /\ \A i \in 1..(n - 1) : i \in Nat
  BY <1>1
<1>5. ASSUME NEW flag \in F, NEW i \in 1..(n - 1),
             flag \in DOMAIN ExtractData(rest[i]),
             \A j \in 1..(n - 1) : j > i => flag \notin DOMAIN ExtractData(rest[j])
      PROVE  ExtractData(rest[i])[flag] = app[flag]
  <2>1. rest[i] = ms[i + 1] /\ i + 1 \in 1..n
    BY <1>2, <1>4
  <2>2. ASSUME NEW j \in 1..n, j > i + 1 PROVE flag \notin DOMAIN ExtractData(ms[j])
    <3>1. j - 1 \in 1..(n - 1) /\ (j - 1) + 1 = j /\ j - 1 > i
      BY <1>1, <2>2
    <3>2. rest[j - 1] = ms[j]
      BY <1>2, <3>1
    <3> QED
      BY <1>5, <3>1, <3>2
  <2> QED
    BY <1>1, <1>5, <2>1, <2>2 DEF Agree
<1>6. ASSUME NEW flag \in F, flag \in DOMAIN kept,
             \A i \in 1..(n - 1) : flag \notin DOMAIN ExtractData(rest[i])
      PROVE  kept[flag] = app[flag]
  <2>1. ASSUME NEW i \in 1..n, i > 1 PROVE ~Tells(i, flag)
    <3>1. i - 1 \in 1..(n - 1) /\ (i - 1) + 1 = i
      BY <1>1, <2>1
    <3>2. rest[i - 1] = ms[i]
      BY <1>2, <3>1
    <3> QED
      BY <1>6, <3>1, <3>2
  <2>2. CASE flag \in DOMAIN first
    <3>1. first[flag] = app[flag]
      BY <1>1, <1>3, <1>4, <2>1, <2>2 DEF Agree
    <3> QED
      BY <1>3, <2>2, <3>1
  <2>3. CASE flag \notin DOMAIN first
    <3>1. \A i \in 1..n : flag \notin DOMAIN ExtractData(ms[i])
      BY <1>3, <1>4, <2>1, <2>3
    <3>2. flag \in DOMAIN cached /\ kept[flag] = cached[flag]
      BY <1>3, <1>6, <2>3
    <3> QED
      BY <1>1, <3>1, <3>2 DEF Agree
  <2> QED
    BY <2>2, <2>3
<1>7. Agree(F, rest, kept, app)
  BY <1>2, <1>5, <1>6 DEF Agree
<1> QED
  BY <1>7 DEF rest, kept, first

\* A message that tells what changed, or everything.
LEMMA AgreeAppend ==
    ASSUME NEW F, NEW ms \in Seq(Reports(F)), NEW cached, NEW app, NEW after,
           NEW message \in Reports(F),
           \A flag \in F :
             \/ /\ flag \in DOMAIN ExtractData(message)
                /\ ExtractData(message)[flag] = after[flag]
             \/ /\ flag \notin DOMAIN ExtractData(message)
                /\ after[flag] = app[flag]
                /\ Agree(F, ms, cached, app)
    PROVE  Agree(F, Append(ms, message), cached, after)
<1> DEFINE n == Len(ms)
           all == Append(ms, message)
<1>1. n \in Nat /\ DOMAIN ms = 1..n
  OBVIOUS
<1>2. /\ DOMAIN all = 1..(n + 1) /\ \A i \in 1..n : all[i] = ms[i]
      /\ all[n + 1] = message
  BY <1>1
<1> HIDE DEF n, all
<1>3. /\ \A i \in 1..(n + 1) : i = n + 1 \/ i \in 1..n
      /\ \A i \in 1..n : i \in 1..(n + 1) /\ n + 1 > i
      /\ n + 1 \in 1..(n + 1)
  BY <1>1
<1>4. ASSUME NEW flag \in F, NEW i \in 1..(n + 1),
             flag \in DOMAIN ExtractData(all[i]),
             \A j \in 1..(n + 1) : j > i => flag \notin DOMAIN ExtractData(all[j])
      PROVE  ExtractData(all[i])[flag] = after[flag]
  <2>1. CASE i = n + 1
    BY <1>2, <1>4, <2>1
  <2>2. CASE i \in 1..n
    <3>1. flag \notin DOMAIN ExtractData(message)
      BY <1>2, <1>3, <1>4, <2>2
    <3>2. after[flag] = app[flag] /\ Agree(F, ms, cached, app)
      BY <3>1
    <3>3. \A j \in 1..n : j > i => flag \notin DOMAIN ExtractData(ms[j])
      BY <1>2, <1>3, <1>4
    <3>4. all[i] = ms[i]
      BY <1>2, <2>2
    <3> QED
      BY <1>1, <1>4, <2>2, <3>2, <3>3, <3>4 DEF Agree
  <2> QED
    BY <1>3, <2>1, <2>2
<1>5. ASSUME NEW flag \in F, flag \in DOMAIN cached,
             \A i \in 1..(n + 1) : flag \notin DOMAIN ExtractData(all[i])
      PROVE  cached[flag] = after[flag]
  <2>1. flag \notin DOMAIN ExtractData(message)
    BY <1>2, <1>3, <1>5
  <2>2. after[flag] = app[flag] /\ Agree(F, ms, cached, app)
    BY <2>1
  <2>3. \A i \in 1..n : flag \notin DOMAIN ExtractData(ms[i])
    BY <1>2, <1>3, <1>5
  <2> QED
    BY <1>1, <1>5, <2>2, <2>3 DEF Agree
<1>6. Agree(F, all, cached, after)
  BY <1>2, <1>4, <1>5 DEF Agree
<1> QED
  BY <1>6 DEF all

LEMMA ChangedIs ==
    ASSUME NEW F, NEW before \in [F -> BOOLEAN], NEW after \in [F -> BOOLEAN]
    PROVE  /\ Changed(before, after) \in Knowledge(F)
           /\ \A flag \in F :
                \/ /\ flag \in DOMAIN Changed(before, after)
                   /\ Changed(before, after)[flag] = after[flag]
                \/ /\ flag \notin DOMAIN Changed(before, after)
                   /\ after[flag] = before[flag]
<1> DEFINE keys == {key \in F : after[key] # before[key]}
           changed == Changed(before, after)
<1>1. changed = [key \in keys |-> after[key]]
  BY DEF Changed
<1>2. changed \in [keys -> BOOLEAN] /\ keys \in SUBSET F
  BY <1>1
<1>3. changed \in Knowledge(F)
  BY <1>2, IsKnowledge
<1>4. DOMAIN changed = keys /\ \A flag \in keys : changed[flag] = after[flag]
  BY <1>1
<1> HIDE DEF changed
<1>5. \A flag \in F :
        \/ flag \in DOMAIN changed /\ changed[flag] = after[flag]
        \/ flag \notin DOMAIN changed /\ after[flag] = before[flag]
  BY <1>4
<1> QED
  BY <1>3, <1>5 DEF changed

-----------------------------------------------------------------------------
(* The inductive invariant *)

FridgeTypes ==
    /\ picker \in Pickers
    /\ appliance \in [Flags(picker) -> BOOLEAN]
    /\ ready \in BOOLEAN
    /\ messages \in Seq(Reports(Flags(picker)))
    /\ Len(messages) <= MaxInFlight
    /\ queue \in Queues(Flags(picker))
    /\ bus \in Buses(picker)
    /\ chosen \in Options(picker) \cup {NoChoice}
    /\ gap \in BOOLEAN
    /\ picks \in 0..MaxPicks
    /\ upsets \in 0..MaxUpsets

\* LastChoiceWins while writes are pending: those that are carry the choice, and
\* what none of them is about is as it was chosen already.
ChoiceHolds ==
    chosen # NoChoice =>
        /\ \A x \in Pending(queue) : x.value = Image(picker, chosen)[x.key]
        /\ \A flag \in Flags(picker) :
              (\A x \in Pending(queue) : x.key # flag) =>
                  appliance[flag] = Image(picker, chosen)[flag]

AddsUp == ~gap => Agree(Flags(picker), messages, bus.cached, appliance)

FridgeInv == FridgeTypes /\ ChoiceHolds /\ AddsUp /\ NoGuessedLabel

LEMMA PickersAreTables ==
    ASSUME FridgeTypes
    PROVE  picker \in Tables /\ IsFiniteSet(Flags(picker))
           /\ Cardinality(Flags(picker)) <= MaxPending
<1>1. picker \in Pickers /\ picker \in Tables
  BY PickerAssumption DEF FridgeTypes, Tables
<1> QED
  BY <1>1, PickerAssumption, WriteOrderIs, Zenon

\* However the appliance comes by its new values, its message says so, or the
\* gap does.
LEMMA Becomes ==
    ASSUME FridgeTypes, AddsUp, NEW after \in [Flags(picker) -> BOOLEAN],
           ApplianceBecomes(after)
    PROVE  /\ appliance' = after
           /\ messages' \in Seq(Reports(Flags(picker)))
           /\ Len(messages') <= MaxInFlight
           /\ gap' \in BOOLEAN
           /\ ~gap' => Agree(Flags(picker), messages', bus.cached, after)
<1> DEFINE F == Flags(picker)
           message == [shape |-> "props", data |-> Changed(appliance, after)]
<1>1. /\ appliance \in [F -> BOOLEAN] /\ messages \in Seq(Reports(F))
      /\ Len(messages) <= MaxInFlight /\ gap \in BOOLEAN
      /\ after \in [F -> BOOLEAN]
  BY DEF FridgeTypes
<1>2. ~gap => Agree(F, messages, bus.cached, appliance)
  BY DEF AddsUp
<1>3. appliance' = after
  BY DEF ApplianceBecomes
<1>4. CASE after = appliance
  BY <1>1, <1>2, <1>3, <1>4 DEF ApplianceBecomes
<1>5. CASE after # appliance /\ ~ready
  BY <1>1, <1>3, <1>5 DEF ApplianceBecomes
<1>6. CASE after # appliance /\ ready
  <2>1. /\ Len(messages) < MaxInFlight /\ messages' = Append(messages, message)
        /\ gap' = gap
    BY <1>6 DEF ApplianceBecomes
  <2>2. /\ Changed(appliance, after) \in Knowledge(F)
        /\ \A flag \in F :
             \/ /\ flag \in DOMAIN Changed(appliance, after)
                /\ Changed(appliance, after)[flag] = after[flag]
             \/ /\ flag \notin DOMAIN Changed(appliance, after)
                /\ after[flag] = appliance[flag]
    <3> HIDE DEF F
    <3> QED
      BY <1>1, ChangedIs
  <2>3. message \in Reports(F) /\ ExtractData(message) = Changed(appliance, after)
    BY <2>2 DEF Reports, Shapes, ExtractData
  <2> HIDE DEF F, message
  <2>4. ASSUME ~gap
        PROVE  Agree(F, Append(messages, message), bus.cached, after)
    <3>1. \A flag \in F :
             \/ /\ flag \in DOMAIN ExtractData(message)
                /\ ExtractData(message)[flag] = after[flag]
             \/ /\ flag \notin DOMAIN ExtractData(message)
                /\ after[flag] = appliance[flag]
                /\ Agree(F, messages, bus.cached, appliance)
      BY <1>2, <2>2, <2>3, <2>4
    <3> QED
      BY <1>1, <2>3, <3>1, AgreeAppend
  <2>5. /\ Append(messages, message) \in Seq(Reports(F))
        /\ Len(Append(messages, message)) = Len(messages) + 1
    BY <1>1, <2>3
  <2>6. Len(messages) \in Nat /\ MaxInFlight \in Nat
    BY <1>1, LinkAssumption
  <2> QED
    BY <1>1, <1>3, <2>1, <2>4, <2>5, <2>6 DEF F
<1> QED
  BY <1>1, <1>4, <1>5, <1>6 DEF FridgeTypes

LEMMA InitFridge == Init => FridgeInv
<1> SUFFICES ASSUME Init PROVE FridgeInv
  OBVIOUS
<1> DEFINE F == Flags(picker)
<1>1. /\ picker \in Pickers /\ ready = FALSE /\ messages = <<>> /\ queue = <<>>
      /\ gap = TRUE /\ upsets = 0 /\ chosen = NoChoice /\ picks = 0
      /\ bus = [cached |-> <<>>, shown |-> NoLabel]
  BY DEF Init, CarrierInit
<1>2. picker \in Tables
  BY <1>1, PickerAssumption DEF Tables
<1>3. appliance \in [F -> BOOLEAN]
  <2>1. PICK option \in Options(picker) : appliance = Image(picker, option)
    BY DEF Init
  <2> QED
    BY <1>2, <2>1, ImageIs
<1>4. bus \in Buses(picker)
  <2>1. <<>> \in Knowledge(F)
    BY NoKnowledge
  <2> QED
    BY <1>1, <2>1 DEF Buses
<1>5. queue \in Queues(F)
  <2>1. queue \in Seq(Writes(F))
    BY <1>1
  <2>2. DOMAIN queue = {}
    BY <1>1
  <2> QED
    BY <2>1, <2>2 DEF Queues, Distinct
<1>6. messages \in Seq(Reports(F)) /\ Len(messages) <= MaxInFlight
  BY <1>1, LinkAssumption
<1>7. FridgeTypes
  <2>1. MaxPicks \in Nat /\ MaxUpsets \in Nat
    BY PickerAssumption, LinkAssumption
  <2>2. 0 \in 0..MaxPicks /\ 0 \in 0..MaxUpsets
    BY <2>1
  <2> QED
    BY <1>1, <1>3, <1>4, <1>5, <1>6, <2>2 DEF FridgeTypes
<1>8. ChoiceHolds /\ AddsUp
  BY <1>1 DEF ChoiceHolds, AddsUp
<1>9. NoGuessedLabel
  BY <1>1 DEF NoGuessedLabel
<1> QED
  BY <1>7, <1>8, <1>9 DEF FridgeInv

\* The message is out of the way, and the select knows what it said.
LEMMA DispatchStep ==
    ASSUME FridgeInv, ParseAndDispatch PROVE FridgeInv'
<1> DEFINE F == Flags(picker)
           data == ExtractData(Head(messages))
<1>1. /\ messages # <<>> /\ messages' = Tail(messages)
      /\ bus' = Dispatched(bus, data)
      /\ UNCHANGED <<picker, chosen, picks, appliance, ready, queue, gap, upsets>>
  BY DEF ParseAndDispatch, TakeMessage
<1>2. /\ messages \in Seq(Reports(F)) /\ bus \in Buses(picker)
      /\ Len(messages) <= MaxInFlight /\ bus.cached \in Knowledge(F)
  BY DEF FridgeInv, FridgeTypes, Buses
<1>3. picker \in Tables
  BY PickersAreTables DEF FridgeInv
<1>4. /\ Head(messages) \in Reports(F) /\ Tail(messages) \in Seq(Reports(F))
      /\ Len(Tail(messages)) = Len(messages) - 1 /\ Len(messages) \in Nat
  BY <1>1, <1>2
<1>5. data \in Knowledge(F)
  BY <1>4, ExtractDataIs
<1> HIDE DEF data
<1> DEFINE known == Kept(bus.cached, data)
<1>6. /\ bus' \in Buses(picker) /\ bus'.cached = known
      /\ DOMAIN known = F /\ DOMAIN data # {} => bus'.shown = Label(picker, known)
      /\ DOMAIN known # F \/ DOMAIN data = {} => bus'.shown = bus.shown
      /\ DOMAIN data = {} => bus' = bus
      /\ DOMAIN bus.cached \subseteq DOMAIN known
  BY <1>1, <1>2, <1>3, <1>5, DispatchedIs
<1>7. DOMAIN known \subseteq F
  <2>1. known \in Knowledge(F)
    BY <1>2, <1>5, KeptIs
  <2> HIDE DEF known, F
  <2> QED
    BY <2>1, KnowledgeIs
<1> HIDE DEF known, F
<1>8. FridgeTypes'
  <2>1. Len(messages') <= MaxInFlight
    BY <1>1, <1>2, <1>4, LinkAssumption
  <2> QED
    BY <1>1, <1>4, <1>6, <2>1 DEF FridgeInv, FridgeTypes, F
<1>9. ChoiceHolds'
  BY <1>1 DEF FridgeInv, ChoiceHolds
<1>10. AddsUp'
  <2>1. ASSUME ~gap PROVE Agree(F, Tail(messages), known, appliance)
    <3>1. Agree(F, messages, bus.cached, appliance)
      BY <2>1 DEF FridgeInv, AddsUp, F
    <3> QED
      BY <1>1, <1>2, <3>1, AgreeTail DEF known, data
  <2> QED
    BY <1>1, <1>6, <2>1 DEF AddsUp, F
<1>11. NoGuessedLabel'
  <2>1. ASSUME bus'.shown # NoLabel, picks = 0
        PROVE  DOMAIN known = F /\ bus'.shown = Label(picker, known)
    <3>1. CASE DOMAIN known = F /\ DOMAIN data # {}
      BY <1>6, <3>1
    <3>2. CASE DOMAIN known # F \/ DOMAIN data = {}
      <4>1. DOMAIN bus.cached = F /\ bus.shown = Label(picker, bus.cached)
        BY <1>6, <2>1, <3>2 DEF FridgeInv, NoGuessedLabel, F
      <4>2. DOMAIN known = F
        BY <1>6, <1>7, <4>1
      <4> QED
        BY <1>6, <3>2, <4>1, <4>2
    <3> QED
      BY <3>1, <3>2
  <2> QED
    BY <1>1, <1>6, <2>1 DEF NoGuessedLabel, F
<1> QED
  BY <1>8, <1>9, <1>10, <1>11 DEF FridgeInv

\* After a pick every flag of the select is pending, with the option's value.
LEMMA PickStep ==
    ASSUME FridgeInv, NEW option \in Options(picker), Pick(option)
    PROVE  FridgeInv'
<1>1. picker \in Tables
  BY PickersAreTables DEF FridgeInv
<1> DEFINE F == Flags(picker)
<1>2. /\ picks < MaxPicks /\ picks' = picks + 1 /\ chosen' = option
      /\ bus' = [bus EXCEPT !.shown = option]
      /\ queue' = Queueing(queue, WritesFor(option))[Len(WriteOrder[picker])]
      /\ UNCHANGED <<picker, appliance, ready, messages, gap, upsets>>
  BY DEF Pick
<1>3. /\ queue' \in Queues(F)
      /\ \A flag \in F : \E x \in Pending(queue') : x.key = flag
      /\ \A x \in Pending(queue') : x.value = Image(picker, option)[x.key]
  <2>1. queue \in Queues(F)
    BY DEF FridgeInv, FridgeTypes
  <2> QED
    BY <1>1, <1>2, <2>1, PickQueues
<1>4. bus' \in Buses(picker) /\ bus'.cached = bus.cached
  <2>1. bus \in Buses(picker)
    BY DEF FridgeInv, FridgeTypes
  <2> QED
    BY <1>2, <2>1 DEF Buses
<1>5. picks' \in 0..MaxPicks /\ picks' # 0
  <2>1. picks \in 0..MaxPicks /\ MaxPicks \in Nat
    BY PickerAssumption DEF FridgeInv, FridgeTypes
  <2> QED
    BY <1>2, <2>1
<1>6. FridgeTypes'
  BY <1>2, <1>3, <1>4, <1>5 DEF FridgeInv, FridgeTypes
<1>7. ChoiceHolds'
  BY <1>2, <1>3 DEF ChoiceHolds
<1>8. AddsUp'
  BY <1>2, <1>4 DEF FridgeInv, AddsUp
<1>9. NoGuessedLabel'
  BY <1>5 DEF NoGuessedLabel
<1> QED
  BY <1>6, <1>7, <1>8, <1>9 DEF FridgeInv

\* The pick a write belongs to is still in force: the write makes its flag what
\* was chosen, and the flags that are left are pending or right.
LEMMA WriteStep ==
    ASSUME FridgeInv, WriteApplied PROVE FridgeInv'
<1> DEFINE F == Flags(picker)
           first == Head(queue)
           after == [appliance EXCEPT ![first.key] = first.value]
<1>1. /\ queue # <<>> /\ queue' = Tail(queue) /\ ApplianceBecomes(after)
      /\ UNCHANGED <<ready, upsets, picker, bus, chosen, picks>>
  BY DEF WriteApplied, SendWrite, TakeWrite
<1>2. /\ queue \in Queues(F) /\ appliance \in [F -> BOOLEAN] /\ FridgeTypes
      /\ AddsUp
  BY DEF FridgeInv, FridgeTypes
<1>3. /\ Tail(queue) \in Queues(F)
      /\ first \in Pending(queue) /\ first \in Writes(F)
      /\ \A x \in Pending(Tail(queue)) :
            x \in Pending(queue) /\ x.key # first.key
      /\ \A x \in Pending(queue) : x = first \/ x \in Pending(Tail(queue))
  BY <1>1, <1>2, TailIs, Zenon
<1>4. /\ first.key \in F /\ first.value \in BOOLEAN
  BY <1>3 DEF Writes
<1> HIDE DEF first
<1>5. /\ after \in [F -> BOOLEAN]
      /\ \A flag \in F :
           after[flag] = IF flag = first.key THEN first.value ELSE appliance[flag]
  BY <1>2, <1>4
<1> HIDE DEF after
<1>6. /\ appliance' = after
      /\ messages' \in Seq(Reports(F))
      /\ Len(messages') <= MaxInFlight
      /\ gap' \in BOOLEAN
      /\ ~gap' => Agree(F, messages', bus.cached, after)
  BY <1>1, <1>2, <1>5, Becomes
<1>7. FridgeTypes'
  BY <1>1, <1>2, <1>3, <1>5, <1>6 DEF FridgeTypes
<1>8. ChoiceHolds'
  <2>1. ASSUME chosen # NoChoice
        PROVE  /\ \A x \in Pending(Tail(queue)) :
                     x.value = Image(picker, chosen)[x.key]
               /\ \A flag \in F :
                     (\A x \in Pending(Tail(queue)) : x.key # flag) =>
                        after[flag] = Image(picker, chosen)[flag]
    <3>1. /\ \A x \in Pending(queue) : x.value = Image(picker, chosen)[x.key]
          /\ \A flag \in F :
                (\A x \in Pending(queue) : x.key # flag) =>
                    appliance[flag] = Image(picker, chosen)[flag]
      BY <2>1 DEF FridgeInv, ChoiceHolds
    <3>2. ASSUME NEW flag \in F, \A x \in Pending(Tail(queue)) : x.key # flag
          PROVE  after[flag] = Image(picker, chosen)[flag]
      <4>1. CASE flag = first.key
        BY <1>3, <1>5, <3>1, <4>1
      <4>2. CASE flag # first.key
        <5>1. \A x \in Pending(queue) : x.key # flag
          BY <1>3, <3>2, <4>2
        <5> QED
          BY <1>5, <3>1, <4>2, <5>1
      <4> QED
        BY <4>1, <4>2
    <3> QED
      BY <1>3, <3>1, <3>2
  <2> QED
    BY <1>1, <1>6, <2>1 DEF ChoiceHolds
<1>9. AddsUp'
  BY <1>1, <1>6 DEF AddsUp
<1>10. NoGuessedLabel'
  BY <1>1 DEF FridgeInv, NoGuessedLabel
<1> QED
  BY <1>7, <1>8, <1>9, <1>10 DEF FridgeInv

LEMMA PanelStep ==
    ASSUME FridgeInv, NEW option \in Options(picker), PanelPick(option)
    PROVE  FridgeInv'
<1> DEFINE F == Flags(picker)
           after == Image(picker, option)
<1>1. /\ upsets < MaxUpsets /\ upsets' = upsets + 1 /\ ApplianceBecomes(after)
      /\ chosen' = NoChoice
      /\ UNCHANGED <<ready, queue, picker, bus, picks>>
  BY DEF PanelPick, OperateAppliance, Upset
<1>2. FridgeTypes /\ AddsUp /\ upsets \in 0..MaxUpsets /\ MaxUpsets \in Nat
  BY LinkAssumption DEF FridgeInv, FridgeTypes
<1>3. after \in [F -> BOOLEAN]
  BY <1>2, PickersAreTables, ImageIs
<1> HIDE DEF after
<1>4. /\ appliance' = after
      /\ messages' \in Seq(Reports(F))
      /\ Len(messages') <= MaxInFlight
      /\ gap' \in BOOLEAN
      /\ ~gap' => Agree(F, messages', bus.cached, after)
  BY <1>1, <1>2, <1>3, Becomes
<1>5. upsets' \in 0..MaxUpsets
  BY <1>1, <1>2
<1>6. FridgeTypes'
  BY <1>1, <1>2, <1>3, <1>4, <1>5 DEF FridgeTypes
<1>7. ChoiceHolds'
  BY <1>1 DEF ChoiceHolds
<1>8. AddsUp'
  BY <1>1, <1>4 DEF AddsUp
<1>9. NoGuessedLabel'
  BY <1>1 DEF FridgeInv, NoGuessedLabel
<1> QED
  BY <1>6, <1>7, <1>8, <1>9 DEF FridgeInv

\* An answer to a poll tells every flag.
LEMMA AnswerStep ==
    ASSUME FridgeInv, PollAnswered PROVE FridgeInv'
<1> DEFINE F == Flags(picker)
           message == [shape |-> "resp", data |-> appliance]
<1>1. /\ Len(messages) < MaxInFlight
      /\ messages' = Append(messages, message) /\ gap' = FALSE
      /\ UNCHANGED <<appliance, ready, queue, upsets, picker, bus, chosen, picks>>
  BY DEF PollAnswered, AnswerPoll, PollGoesOut
<1>2. /\ FridgeTypes /\ appliance \in [F -> BOOLEAN]
      /\ messages \in Seq(Reports(F)) /\ MaxInFlight \in Nat
      /\ Len(messages) \in Nat
  BY LinkAssumption DEF FridgeInv, FridgeTypes
<1>3. /\ appliance \in Knowledge(F) /\ DOMAIN appliance = F
  <2>1. F \in SUBSET F
    OBVIOUS
  <2> HIDE DEF F
  <2> QED
    BY <1>2, <2>1, IsKnowledge
<1>4. message \in Reports(F) /\ ExtractData(message) = appliance
  BY <1>3 DEF Reports, Shapes, ExtractData
<1> HIDE DEF message
<1>5. /\ Append(messages, message) \in Seq(Reports(F))
      /\ Len(Append(messages, message)) = Len(messages) + 1
  BY <1>2, <1>4
<1>6. Agree(F, Append(messages, message), bus.cached, appliance)
  <2>1. \A flag \in F :
          /\ flag \in DOMAIN ExtractData(message)
          /\ ExtractData(message)[flag] = appliance[flag]
    BY <1>3, <1>4
  <2> HIDE DEF F
  <2> QED
    BY <1>2, <1>4, <2>1, AgreeAppend
<1>7. FridgeTypes'
  <2>1. messages' \in Seq(Reports(F)) /\ Len(messages') <= MaxInFlight
    BY <1>1, <1>2, <1>5
  <2> QED
    BY <1>1, <1>2, <2>1 DEF FridgeTypes
<1>8. ChoiceHolds'
  BY <1>1 DEF FridgeInv, ChoiceHolds
<1>9. AddsUp'
  BY <1>1, <1>6 DEF AddsUp
<1>10. NoGuessedLabel'
  BY <1>1 DEF FridgeInv, NoGuessedLabel
<1> QED
  BY <1>7, <1>8, <1>9, <1>10 DEF FridgeInv

\* A rejected poll tells nothing.
LEMMA RejectStep ==
    ASSUME FridgeInv, PollRejected PROVE FridgeInv'
<1> DEFINE F == Flags(picker)
           message == [shape |-> "rejected", data |-> <<>>]
<1>1. /\ Len(messages) < MaxInFlight /\ upsets < MaxUpsets
      /\ messages' = Append(messages, message) /\ upsets' = upsets + 1
      /\ UNCHANGED <<appliance, ready, queue, gap, picker, bus, chosen, picks>>
  BY DEF PollRejected, RejectPoll, PollGoesOut, Upset
<1>2. /\ FridgeTypes /\ upsets \in 0..MaxUpsets
      /\ messages \in Seq(Reports(F)) /\ MaxInFlight \in Nat
      /\ Len(messages) \in Nat /\ MaxUpsets \in Nat
  BY LinkAssumption DEF FridgeInv, FridgeTypes
<1>3. message \in Reports(F) /\ DOMAIN ExtractData(message) = {}
  <2>1. <<>> \in Knowledge(F) /\ DOMAIN <<>> = {}
    BY NoKnowledge
  <2>2. ExtractData(message) = <<>>
    BY DEF ExtractData
  <2> QED
    BY <2>1, <2>2 DEF Reports, Shapes
<1> HIDE DEF message
<1>4. /\ Append(messages, message) \in Seq(Reports(F))
      /\ Len(Append(messages, message)) = Len(messages) + 1
  BY <1>2, <1>3
<1>5. ASSUME ~gap PROVE Agree(F, Append(messages, message), bus.cached, appliance)
  <2>1. Agree(F, messages, bus.cached, appliance)
    BY <1>5 DEF FridgeInv, AddsUp
  <2>2. \A flag \in F : /\ flag \notin DOMAIN ExtractData(message)
                       /\ appliance[flag] = appliance[flag]
                       /\ Agree(F, messages, bus.cached, appliance)
    BY <1>3, <2>1
  <2> HIDE DEF F
  <2> QED
    BY <1>2, <1>3, <2>2, AgreeAppend
<1>6. upsets' \in 0..MaxUpsets
  BY <1>1, <1>2
<1>7. FridgeTypes'
  <2>1. messages' \in Seq(Reports(F)) /\ Len(messages') <= MaxInFlight
    BY <1>1, <1>2, <1>4
  <2> QED
    BY <1>1, <1>2, <1>6, <2>1 DEF FridgeTypes
<1>8. ChoiceHolds'
  BY <1>1 DEF FridgeInv, ChoiceHolds
<1>9. AddsUp'
  BY <1>1, <1>5 DEF AddsUp
<1>10. NoGuessedLabel'
  BY <1>1 DEF FridgeInv, NoGuessedLabel
<1> QED
  BY <1>7, <1>8, <1>9, <1>10 DEF FridgeInv

\* A write that is lost or dropped undoes the pick; nothing else moves.
LEMMA WriteFails ==
    ASSUME FridgeInv, queue # <<>>, queue' = Tail(queue), chosen' = NoChoice,
           upsets' \in 0..MaxUpsets,
           UNCHANGED <<appliance, ready, messages, gap, picker, bus, picks>>
    PROVE  FridgeInv'
<1>1. FridgeTypes'
  <2>1. queue \in Queues(Flags(picker))
    BY DEF FridgeInv, FridgeTypes
  <2>2. Tail(queue) \in Queues(Flags(picker))
    BY <2>1, TailIs, Zenon
  <2> QED
    BY <2>2 DEF FridgeInv, FridgeTypes
<1>2. ChoiceHolds' /\ AddsUp' /\ NoGuessedLabel'
  BY DEF FridgeInv, ChoiceHolds, AddsUp, NoGuessedLabel
<1> QED
  BY <1>1, <1>2 DEF FridgeInv

LEMMA FailStep ==
    ASSUME FridgeInv, WriteIgnored \/ WriteDropped PROVE FridgeInv'
<1>1. upsets \in 0..MaxUpsets /\ MaxUpsets \in Nat
  BY LinkAssumption DEF FridgeInv, FridgeTypes
<1>2. /\ queue # <<>> /\ queue' = Tail(queue) /\ chosen' = NoChoice
      /\ upsets' \in 0..MaxUpsets
      /\ UNCHANGED <<appliance, ready, messages, gap, picker, bus, picks>>
  <2>1. CASE WriteIgnored
    BY <1>1, <2>1 DEF WriteIgnored, LoseWrite, TakeWrite, Upset
  <2>2. CASE WriteDropped
    BY <1>1, <2>2 DEF WriteDropped, DropWrite, TakeWrite
  <2> QED
    BY <2>1, <2>2
<1> QED
  BY <1>2, WriteFails

\* What is lost on the way is owned up to by the gap.
LEMMA LossStep ==
    ASSUME FridgeInv, MessageLost \/ Disconnected PROVE FridgeInv'
<1> DEFINE F == Flags(picker)
<1>1. /\ upsets \in 0..MaxUpsets /\ MaxUpsets \in Nat /\ MaxInFlight \in Nat
      /\ messages \in Seq(Reports(F)) /\ Len(messages) <= MaxInFlight
      /\ queue \in Queues(F)
  BY LinkAssumption DEF FridgeInv, FridgeTypes
<1>2. CASE MessageLost
  <2>1. /\ messages # <<>> /\ messages' = Tail(messages) /\ gap' = TRUE
        /\ upsets < MaxUpsets /\ upsets' = upsets + 1
        /\ UNCHANGED <<appliance, ready, queue, picker, bus, chosen, picks>>
    BY <1>2 DEF MessageLost, LoseMessage, Upset
  <2>2. messages' \in Seq(Reports(F)) /\ Len(messages') <= MaxInFlight
    BY <1>1, <2>1
  <2>3. upsets' \in 0..MaxUpsets
    BY <1>1, <2>1
  <2>4. FridgeTypes'
    BY <2>1, <2>2, <2>3 DEF FridgeInv, FridgeTypes
  <2>5. ChoiceHolds' /\ AddsUp' /\ NoGuessedLabel'
    BY <2>1 DEF FridgeInv, ChoiceHolds, AddsUp, NoGuessedLabel
  <2> QED
    BY <2>4, <2>5 DEF FridgeInv
<1>3. CASE Disconnected
  <2>1. /\ messages' = <<>> /\ queue' = <<>> /\ gap' = TRUE /\ ready' = FALSE
        /\ upsets < MaxUpsets /\ upsets' = upsets + 1
        /\ chosen' = IF queue = <<>> THEN chosen ELSE NoChoice
        /\ UNCHANGED <<appliance, picker, bus, picks>>
    BY <1>3 DEF Disconnected, LoseLink, Upset
  <2>2. messages' \in Seq(Reports(F)) /\ Len(messages') <= MaxInFlight
    BY <1>1, <2>1
  <2>3. upsets' \in 0..MaxUpsets
    BY <1>1, <2>1
  <2>4. queue' \in Queues(F)
    <3>1. queue' \in Seq(Writes(F)) /\ DOMAIN queue' = {}
      BY <2>1
    <3> QED
      BY <3>1 DEF Queues, Distinct
  <2>5. FridgeTypes'
    BY <2>1, <2>2, <2>3, <2>4 DEF FridgeInv, FridgeTypes
  <2>6. ChoiceHolds'
    <3>1. CASE queue = <<>>
      BY <2>1, <3>1 DEF FridgeInv, ChoiceHolds
    <3>2. CASE queue # <<>>
      BY <2>1, <3>2 DEF ChoiceHolds
    <3> QED
      BY <3>1, <3>2
  <2>7. AddsUp' /\ NoGuessedLabel'
    BY <2>1 DEF FridgeInv, AddsUp, NoGuessedLabel
  <2> QED
    BY <2>5, <2>6, <2>7 DEF FridgeInv
<1> QED
  BY <1>2, <1>3

LEMMA ReadyStep ==
    ASSUME FridgeInv, ChannelReady PROVE FridgeInv'
<1>1. /\ ready' = TRUE
      /\ UNCHANGED <<appliance, messages, queue, gap, upsets, picker, bus, chosen,
                      picks>>
  BY DEF ChannelReady, BecomeReady
<1>2. FridgeTypes'
  BY <1>1 DEF FridgeInv, FridgeTypes
<1>3. ChoiceHolds' /\ AddsUp' /\ NoGuessedLabel'
  BY <1>1 DEF FridgeInv, ChoiceHolds, AddsUp, NoGuessedLabel
<1> QED
  BY <1>2, <1>3 DEF FridgeInv

LEMMA FridgeStep == FridgeInv /\ [Next]_vars => FridgeInv'
<1> SUFFICES ASSUME FridgeInv, [Next]_vars PROVE FridgeInv'
  OBVIOUS
<1>1. CASE UNCHANGED vars
  <2>1. UNCHANGED <<appliance, ready, messages, queue, gap, upsets, picker, bus,
                    chosen, picks>>
    BY <1>1 DEF vars, carrierVars
  <2>2. FridgeTypes'
    BY <2>1 DEF FridgeInv, FridgeTypes
  <2>3. ChoiceHolds' /\ AddsUp' /\ NoGuessedLabel'
    BY <2>1 DEF FridgeInv, ChoiceHolds, AddsUp, NoGuessedLabel
  <2> QED
    BY <2>2, <2>3 DEF FridgeInv
<1>2. CASE ParseAndDispatch
  BY <1>2, DispatchStep
<1>3. ASSUME NEW option \in Options(picker), Pick(option) PROVE FridgeInv'
  BY <1>3, PickStep
<1>4. CASE WriteApplied
  BY <1>4, WriteStep
<1>5. CASE WriteIgnored \/ WriteDropped
  BY <1>5, FailStep
<1>6. ASSUME NEW option \in Options(picker), PanelPick(option) PROVE FridgeInv'
  BY <1>6, PanelStep
<1>7. CASE ChannelReady
  BY <1>7, ReadyStep
<1>8. CASE PollAnswered
  BY <1>8, AnswerStep
<1>9. CASE PollRejected
  BY <1>9, RejectStep
<1>10. CASE MessageLost \/ Disconnected
  BY <1>10, LossStep
<1> QED
  BY <1>1, <1>2, <1>3, <1>4, <1>5, <1>6, <1>7, <1>8, <1>9, <1>10 DEF Next

THEOREM FridgeInvariant == Spec => []FridgeInv
<1>1. Init => FridgeInv
  BY InitFridge
<1>2. FridgeInv /\ [Next]_vars => FridgeInv'
  BY FridgeStep
<1> QED
  BY <1>1, <1>2, PTL DEF Spec

-----------------------------------------------------------------------------
(* What it implies *)

\* Every variable of the grouped selects keeps its type; the queue never holds
\* more writes than the select has flags, for any number of picks.
THEOREM FridgeTypeCorrect == Spec => []TypeOK
<1>1. FridgeInv => TypeOK
  <2> SUFFICES ASSUME FridgeInv PROVE TypeOK
    OBVIOUS
  <2> DEFINE F == Flags(picker)
  <2>1. FridgeTypes
    BY DEF FridgeInv
  <2>2. IsFiniteSet(F) /\ queue \in Queues(F)
    BY <2>1, PickersAreTables DEF FridgeTypes
  <2>3. Len(queue) <= Cardinality(F)
    <3> HIDE DEF F
    <3> QED
      BY <2>2, QueueIsSmall
  <2>4. queue \in Seq([key : F, value : BOOLEAN])
    BY <2>2 DEF Queues, Writes
  <2>5. ASSUME NEW known \in Knowledge(F) PROVE KnowsFlags(known)
    BY KnowledgeIs DEF KnowsFlags
  <2>6. KnowsFlags(bus.cached) /\ bus.shown \in Options(picker) \cup {NoLabel}
    <3>1. bus.cached \in Knowledge(F) /\ bus.shown \in Options(picker) \cup {NoLabel}
      BY <2>1 DEF FridgeTypes, Buses
    <3> QED
      BY <2>5, <3>1
  <2>7. \A i \in DOMAIN messages :
          messages[i].shape \in Shapes /\ KnowsFlags(messages[i].data)
    <3>1. \A i \in DOMAIN messages : messages[i] \in Reports(F)
      BY <2>1 DEF FridgeTypes
    <3>2. \A i \in DOMAIN messages :
            messages[i].shape \in Shapes /\ messages[i].data \in Knowledge(F)
      BY <3>1 DEF Reports
    <3> QED
      BY <2>5, <3>2
  <2> QED
    BY <2>1, <2>3, <2>4, <2>6, <2>7 DEF FridgeTypes, TypeOK
<1> QED
  BY <1>1, FridgeInvariant, PTL

\* Picks that overlap resolve to the last one, whatever the number of picks and
\* however far the writes of the earlier ones had come.
THEOREM FridgeLastChoiceWins == Spec => []LastChoiceWins
<1>1. FridgeInv => LastChoiceWins
  <2> SUFFICES ASSUME FridgeInv, chosen # NoChoice, queue = <<>>
               PROVE  appliance = Image(picker, chosen)
    BY DEF LastChoiceWins
  <2>1. /\ appliance \in [Flags(picker) -> BOOLEAN]
        /\ chosen \in Options(picker) /\ FridgeTypes
    BY DEF FridgeInv, FridgeTypes
  <2>2. Pending(queue) = {}
    BY DEF Pending
  <2>3. \A flag \in Flags(picker) :
          appliance[flag] = Image(picker, chosen)[flag]
    BY <2>2 DEF FridgeInv, ChoiceHolds
  <2>4. Image(picker, chosen) \in [Flags(picker) -> BOOLEAN]
    BY <2>1, PickersAreTables, ImageIs
  <2> QED
    BY <2>1, <2>3, <2>4
<1> QED
  BY <1>1, FridgeInvariant, PTL

\* The cache and the messages under way add up to the appliance's flags, for any
\* number of messages, unless something is known to be missing.
THEOREM FridgeReportsAddUp == Spec => []ReportsAddUp
<1>1. FridgeInv => ReportsAddUp
  BY ReportsAddUpIs DEF FridgeInv, AddsUp
<1> QED
  BY <1>1, FridgeInvariant, PTL

\* No label is shown that was neither picked nor told in full.
THEOREM FridgeNoGuessedLabel == Spec => []NoGuessedLabel
<1>1. FridgeInv => NoGuessedLabel
  BY DEF FridgeInv
<1> QED
  BY <1>1, FridgeInvariant, PTL

=============================================================================
