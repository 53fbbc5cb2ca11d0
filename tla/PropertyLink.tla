---------------------------- MODULE PropertyLink -----------------------------
(***************************************************************************)
(* What carries an appliance's properties to the entities of Home          *)
(* Assistant and back: the messages on D6 one way (protocol.cpp), the      *)
(* write queue the other (write_queue.h), on a channel that comes and      *)
(* goes.  The queue's time is in WriteQueue, the channel's own states are  *)
(* in SubzeroHub; here the channel is ready or it is not.                  *)
(***************************************************************************)
EXTENDS Integers, Sequences, FiniteSets, SequencesExt

CONSTANTS
    MaxInFlight,    \* bound on the messages under way on D6
    MaxUpsets       \* bound on the faults and the choices at the appliance

ASSUME LinkAssumption ==
    /\ MaxInFlight \in Nat \ {0}
    /\ MaxUpsets \in Nat

VARIABLES
    appliance,      \* the appliance's own properties
    ready,          \* connected, D5 known, pin_confirmed_
    messages,       \* what the appliance has sent on D6, not yet dispatched
    queue,          \* the WriteQueue's pending writes
    gap,            \* history: something went unreported since the last dump
    upsets          \* what is used up of MaxUpsets

carrierVars == <<appliance, ready, messages, queue, gap, upsets>>

\* A message: an answer to a poll, an answer with a status other than 0, or
\* some changed properties.  A bare dump is a push with all of them.
Shapes == {"resp", "rejected", "props"}

CarrierInit ==
    /\ ready = FALSE
    /\ messages = <<>>
    /\ queue = <<>>
    /\ gap = TRUE
    /\ upsets = 0

\* extract_data: a rejected message has no data.
ExtractData(message) ==
    IF message.shape = "rejected" THEN <<>> ELSE message.data

-----------------------------------------------------------------------------
(* To the appliance *)

\* Mutated enqueue: nothing is coalesced; a pending write keeps its value.
EnqueuedTwice(pending, write) == Append(pending, write)
EnqueuedIfNew(pending, write) ==
    IF \E i \in DOMAIN pending : pending[i].key = write.key
    THEN pending
    ELSE Append(pending, write)

\* WriteQueue::enqueue: a pending write of the property is replaced, in place.
Enqueued(pending, write) ==
    IF \E i \in DOMAIN pending : pending[i].key = write.key
    THEN [i \in DOMAIN pending |->
            IF pending[i].key = write.key THEN write ELSE pending[i]]
    ELSE Append(pending, write)

Changed(before, after) ==
    LET keys == {key \in DOMAIN before : after[key] # before[key]}
    IN  [key \in keys |-> after[key]]

\* The appliance takes on new values and tells what changed, if anybody listens.
ApplianceBecomes(after) ==
    /\ appliance' = after
    /\ IF after = appliance
       THEN UNCHANGED <<messages, gap>>
       ELSE IF ready
       THEN /\ Len(messages) < MaxInFlight
            /\ messages' = Append(messages,
                    [shape |-> "props", data |-> Changed(appliance, after)])
            /\ UNCHANGED gap
       ELSE /\ gap' = TRUE
            /\ UNCHANGED messages

\* One of the bounded number of faults and choices at the appliance.
Upset ==
    /\ upsets < MaxUpsets
    /\ upsets' = upsets + 1

\* WriteQueue::drain_ and SubzeroHub::write_set_property_: the oldest write is
\* sent on a ready channel, and dropped on one that is not.
TakeWrite(channel) ==
    /\ queue # <<>>
    /\ ready = channel
    /\ queue' = Tail(queue)

\* The write reaches the appliance, which becomes `after`.
SendWrite(after) ==
    /\ TakeWrite(TRUE)
    /\ ApplianceBecomes(after)
    /\ UNCHANGED <<ready, upsets>>

\* The write is lost or the appliance ignores it.
LoseWrite ==
    /\ TakeWrite(TRUE)
    /\ Upset
    /\ UNCHANGED <<appliance, ready, messages>>

\* write_set_property_ drops the write, since the channel is not ready.
DropWrite ==
    /\ TakeWrite(FALSE)
    /\ UNCHANGED <<appliance, ready, messages, gap, upsets>>

\* Somebody operates the appliance itself.
OperateAppliance(after) ==
    /\ Upset
    /\ ApplianceBecomes(after)
    /\ UNCHANGED <<ready, queue>>

-----------------------------------------------------------------------------
(* From the appliance *)

\* The oldest message is taken to be dispatched.
TakeMessage ==
    /\ messages # <<>>
    /\ messages' = Tail(messages)
    /\ UNCHANGED <<appliance, ready, queue, gap, upsets>>

\* A message is lost, or does not survive reassembly.
LoseMessage ==
    /\ messages # <<>>
    /\ Upset
    /\ messages' = Tail(messages)
    /\ gap' = TRUE
    /\ UNCHANGED <<appliance, ready, queue>>

\* The hub connects, unlocks and subscribes.
BecomeReady ==
    /\ ~ready
    /\ ready' = TRUE
    /\ UNCHANGED <<appliance, messages, queue, gap, upsets>>

\* The polls are 60 s apart, so the answer to the one before has come or never
\* will.
PollGoesOut ==
    /\ ready
    /\ Len(messages) < MaxInFlight
    /\ \A i \in DOMAIN messages : messages[i].shape = "props"

\* A poll is answered with the whole state.
AnswerPoll ==
    /\ PollGoesOut
    /\ messages' = Append(messages, [shape |-> "resp", data |-> appliance])
    /\ gap' = FALSE
    /\ UNCHANGED <<appliance, ready, queue, upsets>>

\* A poll is answered with a status other than 0.
RejectPoll ==
    /\ PollGoesOut
    /\ Upset
    /\ messages' = Append(messages, [shape |-> "rejected", data |-> <<>>])
    /\ UNCHANGED <<appliance, ready, queue, gap>>

\* What is under way is lost, and clear() empties the queue.
LoseLink ==
    /\ Upset
    /\ ready' = FALSE
    /\ messages' = <<>>
    /\ queue' = <<>>
    /\ gap' = TRUE
    /\ UNCHANGED appliance

=============================================================================
