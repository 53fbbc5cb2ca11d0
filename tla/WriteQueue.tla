------------------------------ MODULE WriteQueue -----------------------------
(***************************************************************************)
(* WriteQueue (write_queue.h): the paced queue of the property writes Home *)
(* Assistant asks for, with the clear() of ApplianceBase on a disconnect.  *)
(*                                                                         *)
(* Time is explicit: one step of `now` is one millisecond of the code.     *)
(* The code reads it as a uint32_t, so it sees `now` modulo 2^32.          *)
(***************************************************************************)
EXTENDS Integers, Sequences

CONSTANTS
    Keys,           \* the property names
    Values,         \* what may be written to one
    MaxPending,     \* kMaxPending (16)
    Spacing,        \* kSpacingMs (750)
    Modulus,        \* 2^32
    MaxLate,        \* bound on how late the loop runs a timeout
    MaxNow          \* bound on the time explored

ASSUME QueueAssumption ==
    /\ MaxPending \in Nat \ {0}
    /\ Spacing \in Nat \ {0}
    /\ Modulus \in Nat
    /\ Spacing < Modulus
    /\ MaxLate \in Nat
    /\ MaxNow \in Nat

VARIABLES
    now,            \* the time
    queue,          \* queue_; `since` is history: when the key was queued
    drainScheduled, \* drain_scheduled_
    drainAt,        \* when the timeout "subzero_write_queue" is due
    lastWriteMs,    \* last_write_ms_
    haveWritten,    \* have_written_
    wanted,         \* history: the newest value accepted, per key
    sent            \* history: the last write sent, in a set, and its time

queueVars == <<now, queue, drainScheduled, drainAt, lastWriteMs, haveWritten,
               wanted, sent>>

Entries == [key : Keys, value : Values, since : Nat]
Writes == [key : Keys, value : Values, at : Nat]

TypeOK ==
    /\ now \in Nat
    /\ queue \in Seq(Entries)
    /\ Len(queue) <= MaxPending
    /\ drainScheduled \in BOOLEAN
    /\ drainAt \in Nat
    /\ lastWriteMs \in 0..(Modulus - 1)
    /\ haveWritten \in BOOLEAN
    /\ wanted \in [Keys -> Values]
    /\ sent \in SUBSET Writes

Init ==
    /\ now = 0
    /\ queue = <<>>
    /\ drainScheduled = FALSE
    /\ drainAt = 0
    /\ lastWriteMs = 0
    /\ haveWritten = FALSE
    /\ wanted \in [Keys -> Values]
    /\ sent = {}

-----------------------------------------------------------------------------
\* now_ms()
NowMs == now % Modulus

\* Mutated schedule_drain_: every write goes out at once.
DelayNone(written, last) == 0

\* schedule_drain_'s delay; the subtraction is unsigned.
Delay(written, last) ==
    LET elapsed == (NowMs - last) % Modulus
    IN  IF written /\ elapsed < Spacing THEN Spacing - elapsed ELSE 0

\* Mutated schedule_drain_: after a write nothing is scheduled.
ScheduleDrainFirstOnly(pending, scheduled, written, last) ==
    IF scheduled \/ pending = <<>> \/ written
    THEN /\ drainScheduled' = scheduled
         /\ UNCHANGED drainAt
    ELSE /\ drainScheduled' = TRUE
         /\ drainAt' = now

\* schedule_drain_, for the queue `pending` and the state of the last write.
ScheduleDrain(pending, scheduled, written, last) ==
    IF scheduled \/ pending = <<>>
    THEN /\ drainScheduled' = scheduled
         /\ UNCHANGED drainAt
    ELSE /\ drainScheduled' = TRUE
         /\ drainAt' = now + Delay(written, last)

\* Mutated enqueue: the entry keeps its old value; the entry loses its place.
CoalesceIgnored(key, value) ==
    /\ \E i \in DOMAIN queue : queue[i].key = key
    /\ UNCHANGED <<queue, drainScheduled, drainAt>>
CoalesceAtTheBack(key, value) ==
    \E i \in DOMAIN queue :
        /\ queue[i].key = key
        /\ queue' = SubSeq(queue, 1, i - 1) \o SubSeq(queue, i + 1, Len(queue))
                      \o <<[queue[i] EXCEPT !.value = value]>>
        /\ UNCHANGED <<drainScheduled, drainAt>>

\* enqueue, kCoalesced: the entry keeps its place.
Coalesce(key, value) ==
    \E i \in DOMAIN queue :
        /\ queue[i].key = key
        /\ queue' = [queue EXCEPT ![i].value = value]
        /\ UNCHANGED <<drainScheduled, drainAt>>

IsPending(key) == \E i \in DOMAIN queue : queue[i].key = key

\* Mutated enqueue: no limit.
AppendUnbounded(key, value) ==
    /\ ~IsPending(key)
    /\ queue' = Append(queue, [key |-> key, value |-> value, since |-> now])
    /\ ScheduleDrain(queue', drainScheduled, haveWritten, lastWriteMs)

\* enqueue, kQueued
AppendWrite(key, value) ==
    /\ ~IsPending(key)
    /\ Len(queue) < MaxPending
    /\ queue' = Append(queue, [key |-> key, value |-> value, since |-> now])
    /\ ScheduleDrain(queue', drainScheduled, haveWritten, lastWriteMs)

\* enqueue
Enqueue(key, value) ==
    /\ Coalesce(key, value) \/ AppendWrite(key, value)
    /\ wanted' = [wanted EXCEPT ![key] = value]
    /\ UNCHANGED <<now, lastWriteMs, haveWritten, sent>>

\* enqueue, kDropped: the write never takes place.
EnqueueDropped(key) ==
    /\ ~IsPending(key)
    /\ Len(queue) >= MaxPending
    /\ UNCHANGED queueVars

\* clear, on a DISCONNECT event: a scheduled drain stays scheduled.
Clear ==
    /\ queue' = <<>>
    /\ UNCHANGED <<now, drainScheduled, drainAt, lastWriteMs, haveWritten,
                   wanted, sent>>

\* drain_
Drain ==
    /\ drainScheduled
    /\ now >= drainAt
    /\ \/ /\ queue = <<>>
          /\ drainScheduled' = FALSE
          /\ UNCHANGED <<queue, drainAt, lastWriteMs, haveWritten, sent>>
       \/ /\ queue # <<>>
          /\ queue' = Tail(queue)
          /\ lastWriteMs' = NowMs
          /\ haveWritten' = TRUE
          /\ sent' = {[key   |-> Head(queue).key,
                       value |-> Head(queue).value, at |-> now]}
          /\ ScheduleDrain(queue', FALSE, TRUE, NowMs)
    /\ UNCHANGED <<now, wanted>>

\* A pending timeout is run at most MaxLate after it is due.
Tick ==
    /\ now < MaxNow
    /\ drainScheduled => now < drainAt + MaxLate
    /\ now' = now + 1
    /\ UNCHANGED <<queue, drainScheduled, drainAt, lastWriteMs, haveWritten,
                   wanted, sent>>

Next ==
    \/ \E key \in Keys, value \in Values : Enqueue(key, value)
    \/ \E key \in Keys : EnqueueDropped(key)
    \/ Clear
    \/ Drain
    \/ Tick

Spec == Init /\ [][Next]_queueVars

-----------------------------------------------------------------------------
(* Properties *)

\* No write reaches the appliance sooner than kSpacingMs after the one before,
\* whatever empties the queue in between, and across the rollover of millis().
WritesArePaced ==
    drainScheduled /\ now >= drainAt =>
        \A last \in sent : now >= last.at + Spacing

\* A queue with something in it has a drain scheduled: the timer clear() leaves
\* behind, or its absence, never strands a later write.
PendingIsScheduled == queue # <<>> => drainScheduled

\* A pending write is at most kMaxPending spacings old (write_queue.h says so),
\* and a slow loop adds only its own delay to each: neither a leftover timer nor
\* a rollover holds it back any longer.
NoWriteIsOverdue ==
    \A i \in DOMAIN queue :
        now - queue[i].since <= (MaxPending - i + 1) * (Spacing + MaxLate)

Paced == INSTANCE PacedWrites
            WITH pending  <- {queue[i] : i \in DOMAIN queue},
                 Patience <- MaxPending * (Spacing + MaxLate)

\* Timer, timestamps modulo 2^32 and deque together keep the promise of
\* PacedWrites: whatever is asked for, whenever the link is lost and however
\* late the loop is, the writes that go out are the newest ones, in the order
\* asked for, spaced, and in time.
ImplementsPacedWrites == Paced!PacedSpec

=============================================================================
