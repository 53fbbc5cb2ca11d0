-------------------------- MODULE WriteQueueProofs ---------------------------
(***************************************************************************)
(* Theorems about WriteQueue, for every number of properties, every limit, *)
(* spacing and width of the clock, and however late the loop is: the       *)
(* invariants, and that the queue implements PacedWrites.                  *)
(***************************************************************************)
EXTENDS WriteQueue, FiniteSetTheorems, TLAPS

-----------------------------------------------------------------------------
(* Arithmetic: the time elapsed by a clock that wraps around *)

LEMMA DivisionWithRemainder ==
  ASSUME NEW M \in Nat \ {0}, NEW a \in Int
  PROVE  /\ a \div M \in Int
         /\ a % M \in 0..(M - 1)
         /\ a = (M * (a \div M)) + (a % M)
OBVIOUS

LEMMA RemainderIsUnique ==
  ASSUME NEW M \in Nat \ {0}, NEW a \in Int, NEW q \in Int, NEW r \in 0..(M - 1),
         a = M * q + r
  PROVE  a % M = r
<1>1. /\ a \div M \in Int
      /\ a % M \in 0..(M - 1)
      /\ a = (M * (a \div M)) + (a % M)
  BY DivisionWithRemainder
<1>2. M * ((a \div M) - q) = r - (a % M)
  BY <1>1
<1>3. (a \div M) - q = 0
  <2> DEFINE k == (a \div M) - q
  <2>1. k \in Int /\ M * k > 0 - M /\ M * k < M
    BY <1>1, <1>2
  <2>2. ASSUME k >= 1 PROVE FALSE
    <3>1. M * k >= M
      BY <2>1, <2>2
    <3> QED
      BY <3>1, <2>1
  <2>3. ASSUME k <= 0 - 1 PROVE FALSE
    <3>1. M * k <= 0 - M
      BY <2>1, <2>3
    <3> QED
      BY <3>1, <2>1
  <2> HIDE DEF k
  <2>4. k = 0
    BY <2>1, <2>2, <2>3
  <2> QED
    BY <2>4 DEF k
<1> QED
  BY <1>1, <1>2, <1>3

\* The clock never shows more time than has elapsed.
LEMMA ElapsedAtMost ==
  ASSUME NEW M \in Nat \ {0}, NEW a \in Nat, NEW b \in Nat, b <= a
  PROVE  ((a % M) - (b % M)) % M \in 0..(a - b)
<1> DEFINE x == (a % M) - (b % M)
<1>1. /\ a % M \in 0..(M - 1)
      /\ b % M \in 0..(M - 1)
  OBVIOUS
<1>2. x % M \in 0..(M - 1)
  BY <1>1
<1>3. CASE a - b >= M
  BY <1>3, <1>2
<1>4. CASE a - b < M
  <2>1. PICK q \in Int : a - b = M * q + x
    <3>1. /\ a \div M \in Int
          /\ a = (M * (a \div M)) + (a % M)
      BY DivisionWithRemainder
    <3>2. /\ b \div M \in Int
          /\ b = (M * (b \div M)) + (b % M)
      BY DivisionWithRemainder
    <3> WITNESS (a \div M) - (b \div M) \in Int
    <3> QED
      BY <3>1, <3>2, <1>1
  <2>2. x = M * (0 - q) + (a - b)
    BY <2>1, <1>1
  <2>3. x % M = a - b
    <3>1. /\ x \in Int
          /\ 0 - q \in Int
          /\ a - b \in 0..(M - 1)
      BY <1>4, <1>1
    <3> HIDE DEF x
    <3> QED
      BY <3>1, <2>2, RemainderIsUnique
  <2> QED
    BY <2>3
<1> QED
  BY <1>3, <1>4, <1>1

LEMMA OneSlotMore ==
  ASSUME NEW a \in Nat, NEW b \in Nat, a < b, NEW u \in Nat
  PROVE  a * u + u <= b * u
<1>1. b - a - 1 \in Nat
  OBVIOUS
<1>2. (b - a - 1) * u >= 0
  BY <1>1
<1> QED
  BY <1>2

LEMMA NowMsType ==
  ASSUME now \in Nat
  PROVE  NowMs \in 0..(Modulus - 1) /\ Modulus \in Nat \ {0}
BY QueueAssumption DEF NowMs

\* schedule_drain_ waits at most kSpacingMs, ...
LEMMA DelayType ==
  ASSUME now \in Nat, NEW written \in BOOLEAN, NEW last \in Int
  PROVE  Delay(written, last) \in 0..Spacing
<1> DEFINE elapsed == (NowMs - last) % Modulus
<1>1. elapsed \in 0..(Modulus - 1)
  BY NowMsType
<1>2. Delay(written, last)
        = IF written /\ elapsed < Spacing THEN Spacing - elapsed ELSE 0
  BY DEF Delay
<1> HIDE DEF elapsed
<1> QED
  BY <1>1, <1>2, QueueAssumption

\* ... and until that long after the last write, whatever the clock shows.
LEMMA DelayIsEnough ==
  ASSUME now \in Nat, NEW at \in Nat, at <= now
  PROVE  now + Delay(TRUE, at % Modulus) >= at + Spacing
<1> DEFINE elapsed == (NowMs - (at % Modulus)) % Modulus
<1>1. elapsed \in 0..(now - at)
  <2>1. Modulus \in Nat \ {0}
    BY QueueAssumption
  <2>2. ((now % Modulus) - (at % Modulus)) % Modulus \in 0..(now - at)
    BY <2>1, ElapsedAtMost
  <2> QED
    BY <2>2 DEF NowMs
<1> DEFINE delay == Delay(TRUE, at % Modulus)
<1>2. delay = IF elapsed < Spacing THEN Spacing - elapsed ELSE 0
  BY DEF Delay
<1> HIDE DEF elapsed, delay
<1>3. now + delay >= at + Spacing
  BY <1>1, <1>2, QueueAssumption
<1> QED
  BY <1>3 DEF delay

-----------------------------------------------------------------------------
(* The inductive invariant.  A write is in time because of where it stands *)
(* and of when the timer is due: each write ahead of it takes a slot.      *)

Slot == Spacing + MaxLate

Distinct ==
    \A i, j \in DOMAIN queue : queue[i].key = queue[j].key => i = j

InOrder ==
    /\ \A i \in DOMAIN queue : queue[i].since <= now
    /\ \A i, j \in DOMAIN queue : i < j => queue[i].since <= queue[j].since

\* The timestamp is the last write's, and the timer keeps its distance to it.
Stamped ==
    /\ ~haveWritten => sent = {}
    /\ \A last \in sent :
        /\ last.at <= now
        /\ lastWriteMs = last.at % Modulus
        /\ drainScheduled => drainAt >= last.at + Spacing

TimerIsNear ==
    drainScheduled => drainAt <= now + Spacing /\ now <= drainAt + MaxLate

InTime ==
    \A i \in DOMAIN queue :
        drainAt + MaxLate + (i - 1) * Slot
            <= queue[i].since + MaxPending * Slot

QueueInv ==
    /\ TypeOK
    /\ Distinct
    /\ InOrder
    /\ PendingIsScheduled
    /\ Stamped
    /\ TimerIsNear
    /\ InTime

LEMMA EntriesAre ==
  ASSUME TypeOK
  PROVE  /\ queue \in Seq(Entries)
         /\ Len(queue) \in Nat
         /\ DOMAIN queue = 1..Len(queue)
         /\ \A i \in DOMAIN queue :
                /\ queue[i] \in Entries
                /\ queue[i].since \in Nat
<1>1. queue \in Seq(Entries)
  BY DEF TypeOK
<1>2. \A i \in DOMAIN queue : queue[i] \in Entries
  BY <1>1
<1> QED
  BY <1>1, <1>2 DEF Entries

LEMMA QueueInit == Init => QueueInv
<1> SUFFICES ASSUME Init
             PROVE  QueueInv
  OBVIOUS
<1>1. TypeOK
  <2>1. /\ queue \in Seq(Entries)
        /\ Len(queue) = 0
    BY DEF Init
  <2>2. drainScheduled \in BOOLEAN /\ haveWritten \in BOOLEAN
    BY DEF Init
  <2> QED
    BY <2>1, <2>2, QueueAssumption DEF Init, TypeOK
<1> QED
  BY <1>1 DEF Init, QueueInv, Distinct, InOrder, PendingIsScheduled, Stamped,
     TimerIsNear, InTime

\* What schedule_drain_ does to the timer.
LEMMA DrainScheduled ==
  ASSUME TypeOK, NEW pending, NEW scheduled \in BOOLEAN,
         NEW written \in BOOLEAN, NEW last \in Int,
         ScheduleDrain(pending, scheduled, written, last)
  PROVE  /\ drainScheduled' \in BOOLEAN
         /\ drainAt' \in Nat
         /\ pending # <<>> => drainScheduled'
         /\ scheduled \/ pending = <<>>
               => drainScheduled' = scheduled /\ drainAt' = drainAt
         /\ ~scheduled /\ pending # <<>>
               => drainAt' = now + Delay(written, last)
<1>1. now \in Nat /\ drainAt \in Nat
  BY DEF TypeOK
<1> DEFINE delay == Delay(written, last)
<1>2. delay \in Nat
  BY <1>1, DelayType, QueueAssumption
<1>3. CASE scheduled \/ pending = <<>>
  BY <1>1, <1>3 DEF ScheduleDrain
<1>4. CASE ~(scheduled \/ pending = <<>>)
  <2>1. /\ drainScheduled' = TRUE
        /\ drainAt' = now + delay
    BY <1>4 DEF ScheduleDrain
  <2> HIDE DEF delay
  <2>2. drainAt' \in Nat
    BY <1>1, <1>2, <2>1
  <2> QED
    BY <1>4, <2>1, <2>2 DEF delay
<1> QED
  BY <1>3, <1>4

\* A write joins the queue, at the back.
LEMMA JoinStep ==
  ASSUME QueueInv, NEW key \in Keys, NEW value \in Values,
         AppendWrite(key, value),
         wanted' = [wanted EXCEPT ![key] = value],
         UNCHANGED <<now, lastWriteMs, haveWritten, sent>>
  PROVE  QueueInv'
<1> DEFINE entry == [key |-> key, value |-> value, since |-> now]
<1>1. /\ now \in Nat
      /\ queue \in Seq(Entries)
      /\ drainAt \in Nat
      /\ drainScheduled \in BOOLEAN
      /\ haveWritten \in BOOLEAN
      /\ lastWriteMs \in Int
  BY QueueAssumption DEF QueueInv, TypeOK
<1>2. /\ queue' = Append(queue, entry)
      /\ entry \in Entries
      /\ Len(queue) < MaxPending
      /\ \A i \in DOMAIN queue : queue[i].key # key
      /\ ScheduleDrain(queue', drainScheduled, haveWritten, lastWriteMs)
  BY <1>1 DEF AppendWrite, IsPending, Entries
<1> HIDE DEF entry
<1>3. /\ queue' \in Seq(Entries)
      /\ Len(queue') = Len(queue) + 1
      /\ Len(queue) \in Nat
      /\ DOMAIN queue = 1..Len(queue)
      /\ DOMAIN queue' = 1..(Len(queue) + 1)
      /\ \A i \in 1..Len(queue) : queue'[i] = queue[i]
      /\ queue'[Len(queue) + 1] = entry
      /\ queue' # <<>>
  BY <1>1, <1>2
<1>4. /\ drainScheduled'
      /\ drainAt' \in Nat
      /\ drainScheduled => drainAt' = drainAt
      /\ ~drainScheduled => drainAt' = now + Delay(haveWritten, lastWriteMs)
  BY <1>1, <1>2, <1>3, DrainScheduled DEF QueueInv
<1>5. ~drainScheduled => queue = <<>>
  BY DEF QueueInv, PendingIsScheduled
<1>6. Delay(haveWritten, lastWriteMs) \in 0..Spacing
  BY <1>1, DelayType
<1>7. TypeOK'
  BY <1>1, <1>2, <1>3, <1>4, QueueAssumption DEF QueueInv, TypeOK
<1>8. Distinct'
  BY <1>2, <1>3 DEF QueueInv, Distinct, entry
<1>9. InOrder'
  BY <1>1, <1>2, <1>3 DEF QueueInv, InOrder, entry, TypeOK, Entries
<1>10. Stamped'
  <2> SUFFICES ASSUME NEW last \in sent
               PROVE  drainAt' >= last.at + Spacing
    BY DEF QueueInv, Stamped
  <2>1. /\ last.at \in Nat
        /\ last.at <= now
        /\ lastWriteMs = last.at % Modulus
        /\ haveWritten
        /\ drainScheduled => drainAt >= last.at + Spacing
    BY DEF QueueInv, Stamped, TypeOK, Writes
  <2>2. now + Delay(TRUE, last.at % Modulus) >= last.at + Spacing
    BY <1>1, <2>1, DelayIsEnough
  <2> QED
    BY <1>1, <1>4, <2>1, <2>2
<1>11. TimerIsNear'
  <2>1. CASE drainScheduled
    BY <2>1, <1>4 DEF QueueInv, TimerIsNear
  <2>2. CASE ~drainScheduled
    <3> DEFINE delay == Delay(haveWritten, lastWriteMs)
    <3>1. drainAt' = now + delay /\ delay \in 0..Spacing
      BY <2>2, <1>4, <1>6
    <3> HIDE DEF delay
    <3> QED
      BY <3>1, <1>1, QueueAssumption DEF TimerIsNear
  <2> QED
    BY <2>1, <2>2
<1>12. InTime'
  <2> SUFFICES ASSUME NEW i \in 1..(Len(queue) + 1)
               PROVE  drainAt' + MaxLate + (i - 1) * Slot
                         <= queue'[i].since + MaxPending * Slot
    BY <1>3 DEF InTime
  <2>1. CASE i \in 1..Len(queue)
    <3>1. drainScheduled
      BY <2>1, <1>3, <1>5
    <3> QED
      BY <3>1, <2>1, <1>3, <1>4 DEF QueueInv, InTime
  <2>2. CASE i = Len(queue) + 1
    <3>1. drainAt' <= now + Spacing
      BY <1>4, <1>11 DEF TimerIsNear
    <3>2. Slot \in Nat /\ Slot = Spacing + MaxLate
      BY QueueAssumption DEF Slot
    <3>3. Len(queue) * Slot + Slot <= MaxPending * Slot
      BY <1>2, <1>3, <3>2, OneSlotMore, QueueAssumption
    <3>4. queue'[i].since = now
      BY <2>2, <1>3 DEF entry
    <3> QED
      BY <3>1, <3>2, <3>3, <3>4, <2>2, <1>1, <1>3, <1>4, QueueAssumption
  <2> QED
    BY <2>1, <2>2, <1>3
<1> QED
  BY <1>4, <1>7, <1>8, <1>9, <1>10, <1>11, <1>12
     DEF QueueInv, PendingIsScheduled

\* A newer value takes the place of the one that is pending.
LEMMA CoalesceStep ==
  ASSUME QueueInv, NEW key \in Keys, NEW value \in Values,
         Coalesce(key, value),
         wanted' = [wanted EXCEPT ![key] = value],
         UNCHANGED <<now, lastWriteMs, haveWritten, sent>>
  PROVE  QueueInv'
<1>1. PICK i \in DOMAIN queue :
        /\ queue[i].key = key
        /\ queue' = [queue EXCEPT ![i].value = value]
        /\ UNCHANGED <<drainScheduled, drainAt>>
  BY DEF Coalesce
<1>2. /\ queue \in Seq(Entries)
      /\ queue' \in Seq(Entries)
      /\ Len(queue') = Len(queue)
      /\ DOMAIN queue' = DOMAIN queue
      /\ DOMAIN queue = 1..Len(queue)
  <2>1. /\ queue \in Seq(Entries)
        /\ DOMAIN queue = 1..Len(queue)
        /\ queue[i] \in Entries
    BY EntriesAre DEF QueueInv
  <2>2. [queue[i] EXCEPT !.value = value] \in Entries
    BY <2>1 DEF Entries
  <2> QED
    BY <1>1, <2>1, <2>2
<1>3. \A k \in DOMAIN queue :
        queue'[k].key = queue[k].key /\ queue'[k].since = queue[k].since
  BY <1>1, <1>2 DEF Entries
<1>4. TypeOK'
  BY <1>1, <1>2 DEF QueueInv, TypeOK
<1>5. Distinct' /\ InOrder' /\ InTime'
  BY <1>1, <1>2, <1>3 DEF QueueInv, Distinct, InOrder, InTime
<1>6. PendingIsScheduled' /\ Stamped' /\ TimerIsNear'
  BY <1>1, <1>2 DEF QueueInv, PendingIsScheduled, Stamped, TimerIsNear
<1> QED
  BY <1>4, <1>5, <1>6 DEF QueueInv

\* The queue is emptied; a drain that is scheduled remains.
LEMMA ClearStep ==
  ASSUME QueueInv, Clear
  PROVE  QueueInv'
<1>1. queue' \in Seq(Entries) /\ Len(queue') = 0 /\ DOMAIN queue' = {}
  BY DEF Clear
<1>2. TypeOK'
  BY <1>1, QueueAssumption DEF Clear, QueueInv, TypeOK
<1> QED
  BY <1>1, <1>2 DEF Clear, QueueInv, Distinct, InOrder, PendingIsScheduled,
     Stamped, TimerIsNear, InTime

\* The timer goes off in vain, ...
LEMMA DrainNothingStep ==
  ASSUME QueueInv, queue = <<>>, drainScheduled' = FALSE,
         UNCHANGED <<now, queue, drainAt, lastWriteMs, haveWritten, wanted,
                     sent>>
  PROVE  QueueInv'
<1>1. TypeOK'
  BY DEF QueueInv, TypeOK
<1> QED
  BY <1>1 DEF QueueInv, Distinct, InOrder, PendingIsScheduled, Stamped,
     TimerIsNear, InTime

\* ... or it sends the write that is due.
LEMMA DrainStep ==
  ASSUME QueueInv, Drain, queue # <<>>
  PROVE  QueueInv'
<1> DEFINE write == [key   |-> Head(queue).key,
                     value |-> Head(queue).value, at |-> now]
<1>1. /\ now \in Nat
      /\ queue \in Seq(Entries)
      /\ Len(queue) \in Nat \ {0}
      /\ drainAt \in Nat
      /\ drainScheduled
      /\ now >= drainAt
      /\ drainAt <= now + Spacing
      /\ now <= drainAt + MaxLate
  BY DEF QueueInv, TypeOK, Drain, TimerIsNear
<1>2. /\ queue' = Tail(queue)
      /\ lastWriteMs' = NowMs
      /\ haveWritten' = TRUE
      /\ sent' = {write}
      /\ ScheduleDrain(queue', FALSE, TRUE, NowMs)
      /\ UNCHANGED <<now, wanted>>
  BY DEF Drain
<1>3. /\ queue' \in Seq(Entries)
      /\ Len(queue') = Len(queue) - 1
      /\ DOMAIN queue = 1..Len(queue)
      /\ DOMAIN queue' = 1..(Len(queue) - 1)
      /\ \A i \in 1..(Len(queue) - 1) : queue'[i] = queue[i + 1]
      /\ Head(queue) = queue[1] /\ Head(queue) \in Entries
  BY <1>1, <1>2
<1>4. NowMs \in 0..(Modulus - 1)
  BY <1>1, NowMsType
<1>5. /\ drainScheduled' \in BOOLEAN
      /\ drainAt' \in Nat
      /\ queue' # <<>> => drainScheduled'
      /\ queue' = <<>> => ~drainScheduled' /\ drainAt' = drainAt
      /\ queue' # <<>> => drainAt' = now + Delay(TRUE, NowMs)
  <2>1. TypeOK /\ FALSE \in BOOLEAN /\ TRUE \in BOOLEAN /\ NowMs \in Int
    BY <1>4 DEF QueueInv
  <2>2. ScheduleDrain(queue', FALSE, TRUE, NowMs)
    BY <1>2
  <2>3. /\ drainScheduled' \in BOOLEAN
        /\ drainAt' \in Nat
        /\ queue' # <<>> => drainScheduled'
        /\ FALSE \/ queue' = <<>>
              => drainScheduled' = FALSE /\ drainAt' = drainAt
        /\ ~FALSE /\ queue' # <<>>
              => drainAt' = now + Delay(TRUE, NowMs)
    BY <2>1, <2>2, DrainScheduled, Zenon
  <2> QED
    BY <2>3, Zenon
<1>6. Delay(TRUE, NowMs) = Spacing
  <2>1. (NowMs - NowMs) % Modulus = 0
    BY <1>4, QueueAssumption
  <2> QED
    BY <2>1, QueueAssumption DEF Delay
<1>7. queue' # <<>> => drainAt' = now + Spacing
  BY <1>5, <1>6
<1>8. write \in Writes
  BY <1>1, <1>3 DEF Writes, Entries
<1>9. TypeOK'
  <2>1. Len(queue') <= MaxPending
    BY <1>1, <1>3, QueueAssumption DEF QueueInv, TypeOK
  <2> QED
    BY <1>2, <1>3, <1>4, <1>5, <1>8, <2>1 DEF QueueInv, TypeOK
<1>10. Distinct'
  <2> SUFFICES ASSUME NEW i \in 1..(Len(queue) - 1),
                      NEW j \in 1..(Len(queue) - 1),
                      queue'[i].key = queue'[j].key
               PROVE  i = j
    BY <1>3 DEF Distinct
  <2>1. i + 1 \in DOMAIN queue /\ j + 1 \in DOMAIN queue
    BY <1>1, <1>3
  <2>2. queue[i + 1].key = queue[j + 1].key
    BY <1>3
  <2>3. i + 1 = j + 1
    BY <2>1, <2>2 DEF QueueInv, Distinct
  <2> QED
    BY <2>3
<1>11. InOrder'
  BY <1>1, <1>2, <1>3 DEF QueueInv, InOrder
<1>12. Stamped'
  <2>1. /\ haveWritten' = TRUE
        /\ \A last \in sent' : last.at = now
        /\ now' = now
        /\ lastWriteMs' = now % Modulus
    BY <1>2 DEF NowMs
  <2>2. drainScheduled' => drainAt' = now + Spacing
    BY <1>5, <1>7
  <2> QED
    BY <1>1, <2>1, <2>2, QueueAssumption DEF Stamped
<1>13. TimerIsNear'
  <2>1. drainScheduled' => drainAt' = now + Spacing
    BY <1>5, <1>7
  <2> QED
    BY <1>1, <1>2, <2>1, QueueAssumption DEF TimerIsNear
<1>14. InTime'
  <2> SUFFICES ASSUME NEW i \in 1..(Len(queue) - 1)
               PROVE  drainAt' + MaxLate + (i - 1) * Slot
                         <= queue'[i].since + MaxPending * Slot
    BY <1>3 DEF InTime
  <2>1. drainAt' = now + Spacing
    BY <1>1, <1>3, <1>7
  <2>2. /\ Slot \in Nat
        /\ Slot = Spacing + MaxLate
    BY QueueAssumption DEF Slot
  <2>3. i + 1 \in DOMAIN queue
    BY <1>1, <1>3
  <2>4. drainAt + MaxLate + i * Slot <= queue[i + 1].since + MaxPending * Slot
    <3>1. (i + 1) - 1 = i
      OBVIOUS
    <3> QED
      BY <2>3, <3>1 DEF QueueInv, InTime
  <2>5. (i - 1) * Slot + Slot = i * Slot
    BY <1>1, <2>2
  <2>6. queue'[i].since = queue[i + 1].since
    BY <1>3
  <2>7. queue[i + 1].since \in Nat
    BY <2>3, EntriesAre DEF QueueInv
  <2> DEFINE ahead == (i - 1) * Slot
             here  == i * Slot
             all   == MaxPending * Slot
  <2>8. ahead \in Int /\ here \in Int /\ all \in Int /\ ahead + Slot = here
    BY <2>2, <2>5, QueueAssumption
  <2>9. drainAt + MaxLate + here <= queue[i + 1].since + all
    BY <2>4
  <2> HIDE DEF write, ahead, here, all
  <2>10. drainAt' + MaxLate + ahead <= queue'[i].since + all
    BY <1>1, <2>1, <2>2, <2>6, <2>7, <2>8, <2>9, QueueAssumption
  <2> QED
    BY <2>10 DEF ahead, all
<1> QED
  BY <1>5, <1>9, <1>10, <1>11, <1>12, <1>13, <1>14
     DEF QueueInv, PendingIsScheduled

\* Time passes, but not past the timer.
LEMMA TickStep ==
  ASSUME QueueInv, Tick
  PROVE  QueueInv'
<1>1. /\ now \in Nat
      /\ now' = now + 1
      /\ drainAt \in Nat
      /\ drainScheduled => now < drainAt + MaxLate
      /\ UNCHANGED <<queue, drainScheduled, drainAt, lastWriteMs, haveWritten,
                     wanted, sent>>
  BY DEF Tick, QueueInv, TypeOK
<1>2. TypeOK'
  BY <1>1 DEF QueueInv, TypeOK
<1>3. InOrder'
  <2>1. \A i \in DOMAIN queue : queue[i].since \in Nat
    BY EntriesAre DEF QueueInv
  <2> QED
    BY <1>1, <2>1 DEF QueueInv, InOrder
<1>4. Stamped'
  <2>1. \A last \in sent : last.at \in Nat
    BY DEF QueueInv, TypeOK, Writes
  <2> QED
    BY <1>1, <2>1 DEF QueueInv, Stamped
<1>5. TimerIsNear'
  BY <1>1, QueueAssumption DEF QueueInv, TimerIsNear
<1> QED
  BY <1>1, <1>2, <1>3, <1>4, <1>5
     DEF QueueInv, Distinct, PendingIsScheduled, InTime

LEMMA QueueStep ==
  ASSUME QueueInv, [Next]_queueVars
  PROVE  QueueInv'
<1>1. CASE \E key \in Keys, value \in Values : Enqueue(key, value)
  BY <1>1, JoinStep, CoalesceStep DEF Enqueue
<1>2. CASE Clear
  BY <1>2, ClearStep
<1>3. CASE Drain
  <2>1. CASE queue = <<>>
    BY <1>3, <2>1, DrainNothingStep DEF Drain
  <2>2. CASE queue # <<>>
    BY <1>3, <2>2, DrainStep
  <2> QED
    BY <2>1, <2>2
<1>4. CASE Tick
  BY <1>4, TickStep
<1>5. CASE UNCHANGED queueVars
  BY <1>5 DEF queueVars, QueueInv, TypeOK, Distinct, InOrder,
     PendingIsScheduled, Stamped, TimerIsNear, InTime
<1> QED
  BY <1>1, <1>2, <1>3, <1>4, <1>5 DEF Next, EnqueueDropped

LEMMA QueueInvariant == Spec => []QueueInv
<1>1. Init => QueueInv
  BY QueueInit
<1>2. QueueInv /\ [Next]_queueVars => QueueInv'
  BY QueueStep
<1> QED
  BY <1>1, <1>2, PTL DEF Spec

-----------------------------------------------------------------------------
(* What follows from it *)

\* The queue, its timer and its timestamps keep to their types; in particular
\* the queue never holds more than kMaxPending writes.
THEOREM QueueTypeCorrect == Spec => []TypeOK
<1>1. QueueInv => TypeOK
  BY DEF QueueInv
<1> QED
  BY <1>1, QueueInvariant, PTL

\* Whenever drain_ may run, the last write is kSpacingMs ago, across clear() and
\* across the rollover of millis().
THEOREM PacingHolds == Spec => []WritesArePaced
<1>1. QueueInv => WritesArePaced
  <2> SUFFICES ASSUME QueueInv, drainScheduled, now >= drainAt,
                      NEW last \in sent
               PROVE  now >= last.at + Spacing
    BY DEF WritesArePaced
  <2>1. now \in Nat /\ drainAt \in Nat /\ last.at \in Nat
    BY DEF QueueInv, TypeOK, Writes
  <2>2. drainAt >= last.at + Spacing
    BY DEF QueueInv, Stamped
  <2> QED
    BY <2>1, <2>2, QueueAssumption
<1> QED
  BY <1>1, QueueInvariant, PTL

\* A write that is pending always has a timer that will send it.
THEOREM NothingIsStranded == Spec => []PendingIsScheduled
<1>1. QueueInv => PendingIsScheduled
  BY DEF QueueInv
<1> QED
  BY <1>1, QueueInvariant, PTL

\* When the timer is due, and how late that may be for the write at place i.
LEMMA DueInTime ==
  ASSUME QueueInv, NEW i \in DOMAIN queue
  PROVE  /\ drainScheduled
         /\ now <= drainAt + MaxLate
         /\ drainAt + MaxLate
                <= queue[i].since + (MaxPending - i + 1) * Slot
         /\ (MaxPending - i + 1) * Slot <= MaxPending * Slot
<1>1. /\ DOMAIN queue = 1..Len(queue)
      /\ Len(queue) \in Nat
      /\ queue[i].since \in Nat
  BY EntriesAre DEF QueueInv
<1>2. i \in Nat \ {0} /\ i <= MaxPending /\ queue # <<>>
  BY <1>1, QueueAssumption DEF QueueInv, TypeOK
<1>3. drainScheduled
  BY <1>2 DEF QueueInv, PendingIsScheduled
<1>4. now <= drainAt + MaxLate
  BY <1>3 DEF QueueInv, TimerIsNear
<1>5. Slot \in Nat
  BY QueueAssumption DEF Slot
<1>6. drainAt + MaxLate + (i - 1) * Slot <= queue[i].since + MaxPending * Slot
  BY DEF QueueInv, InTime
<1>7. (i - 1) * Slot + (MaxPending - i + 1) * Slot = MaxPending * Slot
  BY <1>2, <1>5, QueueAssumption
<1>8. (i - 1) * Slot \in Nat
  BY <1>2, <1>5
<1>9. (MaxPending - i + 1) * Slot \in Int /\ MaxPending * Slot \in Int
  BY <1>2, <1>5, QueueAssumption
<1>10. drainAt \in Nat
  BY DEF QueueInv, TypeOK
<1> DEFINE ahead == (i - 1) * Slot
           left  == (MaxPending - i + 1) * Slot
           all   == MaxPending * Slot
<1>11. /\ ahead \in Nat /\ left \in Int /\ all \in Int
       /\ ahead + left = all
       /\ drainAt + MaxLate + ahead <= queue[i].since + all
  BY <1>6, <1>7, <1>8, <1>9
<1> HIDE DEF ahead, left, all
<1>12. drainAt + MaxLate <= queue[i].since + left /\ left <= all
  BY <1>1, <1>10, <1>11, QueueAssumption
<1> QED
  BY <1>3, <1>4, <1>12 DEF left, all

\* No write waits longer than the writes before it and its own take, with the
\* delay of the loop added to each.
THEOREM WritesAreInTime == Spec => []NoWriteIsOverdue
<1>1. QueueInv => NoWriteIsOverdue
  <2> SUFFICES ASSUME QueueInv, NEW i \in DOMAIN queue
               PROVE  now - queue[i].since <= (MaxPending - i + 1) * Slot
    BY DEF NoWriteIsOverdue, Slot
  <2>1. /\ now \in Nat
        /\ drainAt \in Nat
        /\ queue[i].since \in Nat
    BY EntriesAre DEF QueueInv, TypeOK
  <2>2. i \in Nat
    BY EntriesAre DEF QueueInv
  <2> DEFINE left == (MaxPending - i + 1) * Slot
  <2>3. left \in Int
    BY <2>2, QueueAssumption DEF Slot
  <2>4. /\ now <= drainAt + MaxLate
        /\ drainAt + MaxLate <= queue[i].since + left
    BY DueInTime
  <2> HIDE DEF left
  <2>5. now - queue[i].since <= left
    BY <2>1, <2>3, <2>4, QueueAssumption
  <2> QED
    BY <2>5 DEF left
<1> QED
  BY <1>1, QueueInvariant, PTL

-----------------------------------------------------------------------------
(* The queue implements PacedWrites: every step maps to one step there, or *)
(* to none.                                                                *)

Pending == {queue[i] : i \in DOMAIN queue}

LEMMA RefinesInit == Init => Paced!PacedInit
BY DEF Init, Paced!PacedInit

LEMMA PendingIsSmall ==
  ASSUME TypeOK
  PROVE  Cardinality(Pending) \in Nat /\ Cardinality(Pending) <= Len(queue)
<1>1. /\ Len(queue) \in Nat
      /\ DOMAIN queue = 1..Len(queue)
  BY EntriesAre
<1> DEFINE f == [i \in 1..Len(queue) |-> queue[i]]
<1>2. f \in Surjection(1..Len(queue), Pending)
  BY <1>1 DEF Surjection, Pending
<1>3. ExistsSurjection(1..Len(queue), Pending)
  BY <1>2 DEF ExistsSurjection
<1>4. Cardinality(Pending) <= Len(queue)
  BY <1>1, <1>3, FS_SurjCardinalityBound
<1>5. IsFiniteSet(1..Len(queue))
  BY <1>1, FS_Interval
<1>6. IsFiniteSet(Pending)
  BY <1>2, <1>5, FS_Surjection
<1> QED
  BY <1>4, <1>6, FS_CardinalityType

LEMMA RefinesJoin ==
  ASSUME QueueInv, NEW key \in Keys, NEW value \in Values,
         AppendWrite(key, value), UNCHANGED now
  PROVE  Paced!Join(key, value)
<1> DEFINE entry == [key |-> key, value |-> value, since |-> now]
<1>1. /\ queue \in Seq(Entries)
      /\ Len(queue) \in Nat
      /\ DOMAIN queue = 1..Len(queue)
  BY EntriesAre DEF QueueInv
<1>2. /\ queue' = Append(queue, entry)
      /\ Len(queue) < MaxPending
      /\ \A i \in DOMAIN queue : queue[i].key # key
  BY DEF AppendWrite, IsPending
<1>3. Cardinality(Pending) < MaxPending
  BY <1>1, <1>2, PendingIsSmall, QueueAssumption DEF QueueInv
<1>4. Pending' = Pending \cup {entry}
  <2> HIDE DEF entry
  <2>1. /\ DOMAIN queue' = 1..(Len(queue) + 1)
        /\ \A i \in 1..Len(queue) : queue'[i] = queue[i]
        /\ queue'[Len(queue) + 1] = entry
    BY <1>1, <1>2
  <2> QED
    BY <1>1, <2>1 DEF Pending
<1>5. Paced!Cardinality(Pending) = Cardinality(Pending)
  BY DEF Paced!Cardinality, Cardinality
<1> QED
  BY <1>2, <1>3, <1>4, <1>5 DEF Paced!Join, Pending

LEMMA RefinesReplace ==
  ASSUME QueueInv, NEW key \in Keys, NEW value \in Values,
         Coalesce(key, value)
  PROVE  \E write \in Pending :
            /\ write.key = key
            /\ Pending' = (Pending \ {write})
                            \cup {[write EXCEPT !.value = value]}
<1>1. PICK i \in DOMAIN queue :
        /\ queue[i].key = key
        /\ queue' = [queue EXCEPT ![i].value = value]
  BY DEF Coalesce
<1> DEFINE new == [queue[i] EXCEPT !.value = value]
<1>2. queue' = [queue EXCEPT ![i] = new]
  BY <1>1
<1>3. \A j \in DOMAIN queue : j # i => queue[j] # queue[i]
  BY DEF QueueInv, Distinct
<1>4. /\ DOMAIN queue' = DOMAIN queue
      /\ queue'[i] = new
      /\ \A j \in DOMAIN queue : j # i => queue'[j] = queue[j]
  BY <1>2, EntriesAre DEF QueueInv
<1> HIDE DEF new
<1>5. Pending' = (Pending \ {queue[i]}) \cup {new}
  BY <1>1, <1>3, <1>4 DEF Pending
<1>6. queue[i] \in Pending
  BY DEF Pending
<1> QED
  BY <1>1, <1>5, <1>6 DEF new

LEMMA RefinesSend ==
  ASSUME QueueInv, Drain, queue # <<>>
  PROVE  Paced!PacedNext
<1>1. /\ queue \in Seq(Entries)
      /\ Len(queue) \in Nat \ {0}
      /\ DOMAIN queue = 1..Len(queue)
  BY EntriesAre DEF QueueInv
<1>2. /\ queue' = Tail(queue)
      /\ Head(queue) = queue[1]
      /\ now >= drainAt
      /\ drainScheduled
      /\ UNCHANGED <<now, wanted>>
      /\ sent' = {[key |-> queue[1].key, value |-> queue[1].value, at |-> now]}
  <2>1. Head(queue) = queue[1]
    BY <1>1
  <2> QED
    BY <2>1, Zenon DEF Drain
<1>3. queue[1] \in Pending
  BY <1>1 DEF Pending
<1>4. \A other \in Pending : queue[1].since <= other.since
  <2> SUFFICES ASSUME NEW j \in DOMAIN queue
               PROVE  queue[1].since <= queue[j].since
    BY DEF Pending
  <2>1. queue[j].since \in Nat
    BY EntriesAre DEF QueueInv
  <2>2. CASE j = 1
    BY <2>1, <2>2
  <2>3. CASE j # 1
    BY <1>1, <2>3 DEF QueueInv, InOrder
  <2> QED
    BY <2>2, <2>3
<1>5. \A last \in sent : now >= last.at + Spacing
  <2>1. now \in Nat /\ drainAt \in Nat
    BY DEF QueueInv, TypeOK
  <2>2. \A last \in sent : last.at \in Nat /\ drainAt >= last.at + Spacing
    BY <1>2 DEF QueueInv, TypeOK, Writes, Stamped
  <2> QED
    BY <1>2, <2>1, <2>2, QueueAssumption
<1>6. Pending' = Pending \ {queue[1]}
  <2>1. /\ DOMAIN queue' = 1..(Len(queue) - 1)
        /\ \A i \in 1..(Len(queue) - 1) : queue'[i] = queue[i + 1]
    BY <1>1, <1>2
  <2>2. \A i \in DOMAIN queue : i # 1 => queue[i] # queue[1]
    BY <1>1 DEF QueueInv, Distinct
  <2>3. ASSUME NEW x \in Pending'
        PROVE  x \in Pending \ {queue[1]}
    <3>1. PICK i \in 1..(Len(queue) - 1) : x = queue[i + 1]
      BY <2>1 DEF Pending
    <3>2. i + 1 \in DOMAIN queue /\ i + 1 # 1
      BY <1>1
    <3> QED
      BY <3>1, <3>2, <2>2 DEF Pending
  <2>4. ASSUME NEW x \in Pending \ {queue[1]}
        PROVE  x \in Pending'
    <3>1. PICK i \in DOMAIN queue : x = queue[i]
      BY DEF Pending
    <3>2. i - 1 \in 1..(Len(queue) - 1) /\ (i - 1) + 1 = i
      BY <1>1, <3>1
    <3>3. i - 1 \in DOMAIN queue' /\ queue'[i - 1] = x
      BY <2>1, <3>1, <3>2
    <3> QED
      BY <3>3 DEF Pending
  <2> QED
    BY <2>3, <2>4
<1>7. PICK first \in Pending : first = queue[1]
  BY <1>3
<1>8. Paced!Send(first)
  BY <1>2, <1>4, <1>5, <1>6, <1>7 DEF Paced!Send, Pending
<1> QED
  BY <1>8 DEF Paced!PacedNext, Pending

LEMMA RefinesPass ==
  ASSUME QueueInv, Tick
  PROVE  Paced!Pass
<1>1. \A write \in Pending : now < write.since + MaxPending * Slot
  <2> SUFFICES ASSUME NEW i \in DOMAIN queue
               PROVE  now < queue[i].since + MaxPending * Slot
    BY DEF Pending
  <2> DEFINE left == (MaxPending - i + 1) * Slot
             all  == MaxPending * Slot
  <2>1. /\ drainScheduled
        /\ drainAt + MaxLate <= queue[i].since + left
        /\ left <= all
    BY DueInTime
  <2>2. now < drainAt + MaxLate
    BY <2>1 DEF Tick
  <2>3. /\ now \in Nat /\ drainAt \in Nat
        /\ queue[i].since \in Nat
        /\ i \in Nat
    BY EntriesAre DEF QueueInv, TypeOK
  <2>4. left \in Int /\ all \in Int
    BY <2>3, QueueAssumption DEF Slot
  <2> HIDE DEF left, all
  <2>5. now < queue[i].since + all
    BY <2>1, <2>2, <2>3, <2>4, QueueAssumption
  <2> QED
    BY <2>5 DEF all
<1> QED
  BY <1>1 DEF Tick, Paced!Pass, Pending, Slot

LEMMA RefinesStep ==
  ASSUME QueueInv, [Next]_queueVars
  PROVE  [Paced!PacedNext]_(Paced!pacedVars)
<1>1. CASE \E key \in Keys, value \in Values : Enqueue(key, value)
  <2>1. PICK key \in Keys, value \in Values : Enqueue(key, value)
    BY <1>1
  <2>2. Paced!Ask(key, value)
    <3>1. CASE Coalesce(key, value)
      BY <2>1, <3>1, RefinesReplace DEF Enqueue, Paced!Ask, Paced!Replace,
         Pending
    <3>2. CASE AppendWrite(key, value)
      BY <2>1, <3>2, RefinesJoin DEF Enqueue, Paced!Ask
    <3> QED
      BY <2>1, <3>1, <3>2 DEF Enqueue
  <2> QED
    BY <2>2 DEF Paced!PacedNext
<1>2. CASE Clear
  BY <1>2 DEF Clear, Paced!PacedNext, Paced!Forget
<1>3. CASE Drain
  <2>1. CASE queue = <<>>
    BY <1>3, <2>1 DEF Drain, Paced!pacedVars
  <2>2. CASE queue # <<>>
    BY <1>3, <2>2, RefinesSend
  <2> QED
    BY <2>1, <2>2
<1>4. CASE Tick
  BY <1>4, RefinesPass DEF Paced!PacedNext
<1>5. CASE UNCHANGED queueVars
  BY <1>5 DEF queueVars, Paced!pacedVars
<1> QED
  BY <1>1, <1>2, <1>3, <1>4, <1>5 DEF Next, EnqueueDropped

\* Every behaviour of the queue is one of PacedWrites.
THEOREM QueueImplementsPacedWrites == Spec => ImplementsPacedWrites
<1>1. Init => Paced!PacedInit
  BY RefinesInit
<1>2. QueueInv /\ [Next]_queueVars => [Paced!PacedNext]_(Paced!pacedVars)
  BY RefinesStep
<1> QED
  BY <1>1, <1>2, QueueInvariant, PTL
     DEF Spec, ImplementsPacedWrites, Paced!PacedSpec

=============================================================================
