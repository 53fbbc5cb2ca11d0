----------------------------- MODULE DataChannel -----------------------------
(***************************************************************************)
(* The D6 data channel: MessageBuffer (buffer.h), which cuts the byte      *)
(* stream of the appliance into JSON objects by counting braces, with the  *)
(* handlers of SubzeroHub that feed and flush it, and the appliance at the *)
(* other end.                                                              *)
(*                                                                         *)
(* A byte is an opening brace, a closing brace or any other.  A            *)
(* notification carries a few bytes of the stream, with no regard to where *)
(* a message ends.                                                         *)
(***************************************************************************)
EXTENDS Naturals, Sequences, SequencesExt

CONSTANTS
    Messages,       \* the messages of the appliance, each one balanced object
    MaxBytes,       \* kMaxBytes (4096): beyond it feed() starts over
    MaxFragment,    \* bytes of the longest notification
    Noise,          \* the corrupt notifications considered
    MaxFaults,      \* bound on losses, corruptions and resubscriptions
    PollsMidMessage \* whether a poll tick may fall between two fragments

Bytes == {"open", "close", "other"}

ASSUME ChannelAssumption ==
    /\ MaxBytes \in Nat
    /\ MaxFragment \in Nat \ {0}
    /\ MaxFaults \in Nat
    /\ PollsMidMessage \in BOOLEAN
    /\ Messages \subseteq Seq(Bytes)
    /\ Noise \subseteq Seq(Bytes)
    \* kMaxBytes leaves room for the longest poll response.
    /\ \A m \in Messages : Len(m) <= MaxBytes
    /\ \A data \in Noise : Len(data) <= MaxFragment

VARIABLES
    buffer,         \* json_buf_: its bytes, the brace depth of these, and one
                    \* past the brace that completed a message (0: none yet)
    lastPollBytes,  \* last_poll_buf_bytes_
    sending,        \* what the appliance has still to send of its message
    sent,           \* what it has sent of it
    faults,         \* how many faults happened
    handed,         \* history: the bytes the last notification was cut from
    output          \* history: the messages it completed

channelVars ==
    <<buffer, lastPollBytes, sending, sent, faults, handed, output>>

EmptyBuffer == [bytes |-> <<>>, depth |-> 0, end |-> 0]

Init ==
    /\ buffer = EmptyBuffer
    /\ lastPollBytes = 0
    /\ sending = <<>>
    /\ sent = <<>>
    /\ faults = 0
    /\ handed = <<>>
    /\ output = <<>>

-----------------------------------------------------------------------------
(* MessageBuffer *)

\* Mutated feed: the depth wraps below 0 (9 stands for the wrapped value).
FedByteUnclamped(b, byte) ==
    LET bytes == Append(b.bytes, byte)
        opens == b.end = 0 /\ byte = "open"
        closes == b.end = 0 /\ byte = "close"
    IN  [bytes |-> bytes,
         depth |-> IF opens THEN b.depth + 1
                   ELSE IF closes THEN (IF b.depth = 0 THEN 9 ELSE b.depth - 1)
                   ELSE b.depth,
         end   |-> IF closes /\ b.depth = 1 THEN Len(bytes) ELSE b.end]

\* The body of feed()'s loop; consume() counts its tail the same way.  Once a
\* message is complete no brace counts any more.
FedByte(b, byte) ==
    LET bytes == Append(b.bytes, byte)
        opens == b.end = 0 /\ byte = "open"
        closes == b.end = 0 /\ byte = "close" /\ b.depth > 0
    IN  [bytes |-> bytes,
         depth |-> IF opens THEN b.depth + 1
                   ELSE IF closes THEN b.depth - 1
                   ELSE b.depth,
         end   |-> IF closes /\ b.depth = 1 THEN Len(bytes) ELSE b.end]

\* Mutated feed: the size is never looked at.
RoomMadeNever(b) == b

\* feed() starts over when the buffer was over capacity before this append.
RoomMade(b) == IF Len(b.bytes) > MaxBytes THEN EmptyBuffer ELSE b

\* The loop of feed(), byte by byte.
Loop(b, data) ==
    LET after[n \in 0..Len(data)] ==
          IF n = 0 THEN b ELSE FedByte(after[n - 1], data[n])
    IN  after

\* feed
Feed(b, data) == Loop(RoomMade(b), data)[Len(data)]

\* message_in_place, of a complete message: leading garbage goes.
MessageInPlace(b) ==
    LET start == SelectInSeq(b.bytes, LAMBDA byte : byte = "open")
    IN  [b EXCEPT !.bytes = SubSeq(@, start, Len(@)), !.end = @ - start + 1]

\* Mutated consume: the start of the next message is lost with this one.
ConsumeAll(b) == EmptyBuffer

\* consume, of a complete message: what follows it starts the next one.
Consume(b) ==
    LET tail == SubSeq(b.bytes, b.end + 1, Len(b.bytes))
    IN  Loop(EmptyBuffer, tail)[Len(tail)]

\* The body of process_message_complete_'s loop: one message is cut off.
Cut(before) ==
    LET message == MessageInPlace(before.rest)
        text == SubSeq(message.bytes, 1, message.end)
    IN  IF before.rest.end = 0 THEN before
        ELSE [rest |-> Consume(message),
              messages |-> Append(before.messages, text)]

Cuts(b) ==
    LET after[n \in 0..Len(b.bytes)] ==
          IF n = 0 THEN [rest |-> b, messages |-> <<>>] ELSE Cut(after[n - 1])
    IN  after

\* process_message_complete_: the messages a buffer holds, and what stays.
Processed(b) == Cuts(b)[Len(b.bytes)]

\* handle_d6_notify
HandleD6Notify(data) ==
    LET processed == Processed(Feed(buffer, data))
    IN  /\ buffer' = processed.rest
        /\ output' = processed.messages
        /\ handed' = RoomMade(buffer).bytes \o data
        /\ UNCHANGED lastPollBytes

-----------------------------------------------------------------------------
(* The appliance and its notifications *)

\* The stream goes on with the message under way, then with another one.
\* `next` are the bytes that follow those the appliance has begun to send.
Advances(count, next) ==
    LET stream == sending \o next
        cut == count - Len(sending)
    IN  /\ count <= Len(stream)
        /\ next # <<>> => count > Len(sending)
        /\ sending' = SubSeq(stream, count + 1, Len(stream))
        /\ sent' = IF sending' = <<>> THEN <<>>
                   ELSE IF next = <<>> THEN sent \o SubSeq(sending, 1, count)
                   ELSE SubSeq(next, 1, cut)

\* A notification of `count` bytes.
Notified(count, next) ==
    /\ Advances(count, next)
    /\ HandleD6Notify(SubSeq(sending \o next, 1, count))
    /\ UNCHANGED faults

Notification ==
    \E count \in 1..MaxFragment, next \in Messages \cup {<<>>} :
        Notified(count, next)

Faulty ==
    /\ faults < MaxFaults
    /\ faults' = faults + 1

\* A notification does not arrive.
NotificationLost ==
    /\ Faulty
    /\ \E count \in 1..MaxFragment, next \in Messages \cup {<<>>} :
          Advances(count, next)
    /\ handed' = <<>>
    /\ output' = <<>>
    /\ UNCHANGED <<buffer, lastPollBytes>>

\* Corrupt bytes arrive, between those of the stream.
NoiseArrives ==
    /\ Faulty
    /\ \E data \in Noise : HandleD6Notify(data)
    /\ UNCHANGED <<sending, sent>>

\* The handlers that clear json_buf_ while the stream goes on: a subscribe that
\* is run again, Connect and Reset Pairing on a live link.
BufferCleared ==
    /\ buffer' = EmptyBuffer
    /\ handed' = <<>>
    /\ output' = <<>>
    /\ UNCHANGED lastPollBytes

Resubscribed ==
    /\ Faulty
    /\ BufferCleared
    /\ UNCHANGED <<sending, sent>>

\* handle_disconnected: the rest of the message never comes.
Disconnected ==
    /\ Faulty
    /\ BufferCleared
    /\ sending' = <<>>
    /\ sent' = <<>>

\* The fragments of a message come within milliseconds: a tick that falls
\* between two of them comes right after the first.
PollMayFall == sending = <<>> \/ (PollsMidMessage /\ handed # <<>>)

\* Mutated do_periodic_poll: the size of the last tick is not remembered.
PollTickForgetful ==
    /\ PollMayFall
    /\ handed' = <<>>
    /\ output' = <<>>
    /\ UNCHANGED <<buffer, lastPollBytes, sending, sent, faults>>

\* do_periodic_poll's flush of a buffer that did not change size since the
\* previous tick.
PollTick ==
    /\ PollMayFall
    /\ buffer' = IF Len(buffer.bytes) \in {lastPollBytes} \ {0}
                 THEN EmptyBuffer ELSE buffer
    /\ lastPollBytes' = Len(buffer'.bytes)
    /\ handed' = <<>>
    /\ output' = <<>>
    /\ UNCHANGED <<sending, sent, faults>>

Next ==
    \/ Notification
    \/ NotificationLost
    \/ NoiseArrives
    \/ Resubscribed
    \/ Disconnected
    \/ PollTick

\* The interval of the poll is run for ever, and the appliance finishes a
\* message it has begun.  (It need not begin another one.)
Fairness ==
    /\ WF_channelVars(PollTick)
    /\ []<>(sending = <<>>)

Spec == Init /\ [][Next]_channelVars /\ Fairness

-----------------------------------------------------------------------------
(* What cutting a byte stream into objects means, for the whole stream *)

\* Stray closing braces are ignored.
DepthAfter(depth, byte) ==
    IF byte = "open" THEN depth + 1
    ELSE IF byte = "close" /\ depth > 0 THEN depth - 1
    ELSE depth

\* The brace depth after each byte.
Depths(stream) ==
    LET depth[n \in 0..Len(stream)] ==
          IF n = 0 THEN 0 ELSE DepthAfter(depth[n - 1], stream[n])
    IN  depth

ObjectEnds(stream) ==
    {n \in 1..Len(stream) : stream[n] = "close" /\ Depths(stream)[n - 1] = 1}

ObjectStarts(stream) ==
    {n \in 1..Len(stream) : stream[n] = "open" /\ Depths(stream)[n - 1] = 0}

\* The object that ends at `end`, from the last place where one starts.
ObjectAt(stream, end) ==
    SubSeq(stream, Max({n \in ObjectStarts(stream) : n < end}), end)

\* The objects among the first bytes of the stream, for each number of bytes.
ObjectsAmong(stream) ==
    LET among[n \in 0..Len(stream)] ==
          IF n = 0 THEN <<>>
          ELSE IF n \in ObjectEnds(stream)
          THEN Append(among[n - 1], ObjectAt(stream, n))
          ELSE among[n - 1]
    IN  among
Objects(stream) == ObjectsAmong(stream)[Len(stream)]

Remainder(stream) ==
    SubSeq(stream, Max(ObjectEnds(stream) \cup {0}) + 1, Len(stream))

\* Each message of the appliance is one object, which its last byte completes.
ASSUME MessagesAreObjects ==
    \A m \in Messages : ObjectEnds(m) = {Len(m)}

-----------------------------------------------------------------------------
(* Properties *)

\* A buffer at rest holds no complete message, counts the braces of its bytes,
\* and never outgrows kMaxBytes by more than the one notification that is fed
\* before the cap is looked at.
BufferAtRest ==
    /\ buffer.end = 0
    /\ buffer.depth = Depths(buffer.bytes)[Len(buffer.bytes)]
    /\ Len(buffer.bytes) <= MaxBytes + MaxFragment
    /\ lastPollBytes \in 0..(MaxBytes + MaxFragment)

\* Whatever the fragments: handle_d6_notify parses exactly the objects of the
\* bytes it has, in their order, and keeps exactly what follows the last one.
ObjectsComeOut ==
    handed # <<>> =>
        /\ output = Objects(handed)
        /\ buffer.bytes = Remainder(handed)

\* As long as nothing goes wrong no byte of a message is lost: what is buffered
\* is what the appliance has sent of the message under way.
FaultFreeIsLossless == faults = 0 => buffer.bytes = sent

\* After the last fault the buffer finds back to the boundaries of the messages
\* and stays there, whether the appliance goes on talking or falls silent.
BufferRecovers == <>[](buffer.bytes = sent)

=============================================================================
