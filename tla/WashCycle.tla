------------------------------ MODULE WashCycle ------------------------------
(***************************************************************************)
(* What Home Assistant is told of a dishwasher's cycle: the end time, of   *)
(* which only material revisions are published, and the minutes that       *)
(* remain, which are derived from it (parse_dishwasher_in_place,           *)
(* minutes_between and end_time_revision_is_material in protocol.cpp,      *)
(* dispatch_dishwasher in dispatch.h, DishwasherBus in dispatch_esphome.h).*)
(*                                                                         *)
(* A time is a number of minutes since the start of some month.  The code  *)
(* sees its month and year and, within the month, day, hour and minute.    *)
(***************************************************************************)
EXTENDS Integers, Sequences

CONSTANTS
    MonthMinutes,   \* the length of a month
    Jitter,         \* kEndTimeJitterMinutes (5)
    MaxCycle,       \* bound on the length of a cycle
    MaxNow,         \* bound on the time explored
    MaxCycles,      \* bound on the number of cycles
    MaxRevisions,   \* bound on the number of new estimates
    MaxFaults,      \* bound on the number of faults
    MaxInFlight     \* bound on the messages under way on D6

ASSUME WashAssumption ==
    /\ MonthMinutes \in Nat \ {0}
    /\ Jitter \in Nat
    /\ MaxCycle \in Nat \ {0}
    /\ MaxNow \in Nat
    /\ MaxCycles \in Nat
    /\ MaxRevisions \in Nat
    /\ MaxFaults \in Nat
    /\ MaxInFlight \in Nat \ {0}

VARIABLES
    now,            \* the appliance's clock
    washCycleOn,    \* the appliance's wash_cycle_on
    endTime,        \* its wash_cycle_end_time, or NoTime
    messages,       \* what it has sent on D6, not yet dispatched
    lastPublished,  \* DishwasherBus: last_published_end_time_
    shownEnd,       \* the state of the end time entity
    remaining,      \* the state of the remaining time entity
    told,           \* history: what the messages dispatched so far said
    cycles, revisions, faults   \* what is used up of the bounds

applianceVars == <<now, washCycleOn, endTime>>
busVars == <<lastPublished, shownEnd, remaining, told>>
bounds == <<cycles, revisions, faults>>
vars == <<applianceVars, messages, busVars, bounds>>

NoTime == -1
Unknown == -1       \* an entity that has no state yet
MaxTime == MaxNow + MaxCycle + MaxRevisions
Times == 0..MaxTime
MaybeTime == Times \cup {NoTime}

\* A message: an answer to a poll, a push or a bare dump of the whole state.
\* What it does not carry is {} for wash_cycle_on, NoTime for the end.  `at` is
\* its clock, "timestamp" or, in an answer, "time"; a bare dump has none.
Messages == [shape : {"resp", "props", "bare"},
             on    : {{}, {TRUE}, {FALSE}},
             end   : MaybeTime,
             at    : MaybeTime]

TypeOK ==
    /\ now \in 0..MaxNow
    /\ washCycleOn \in BOOLEAN
    /\ endTime \in MaybeTime
    /\ Len(messages) <= MaxInFlight
    /\ \A i \in DOMAIN messages : messages[i] \in Messages
    /\ lastPublished \in MaybeTime
    /\ shownEnd \in MaybeTime
    /\ remaining \in 0..MaxTime \cup {Unknown}
    /\ told \in [on : BOOLEAN, end : MaybeTime, at : MaybeTime,
                 lastEnd : MaybeTime]
    /\ revisions \in 0..MaxRevisions

Init ==
    /\ now = 0
    /\ washCycleOn = FALSE
    /\ endTime = NoTime
    /\ messages = <<>>
    /\ lastPublished = NoTime
    /\ shownEnd = NoTime
    /\ remaining = Unknown
    /\ told = [on |-> FALSE, end |-> NoTime, at |-> NoTime, lastEnd |-> NoTime]
    /\ cycles = 0
    /\ revisions = 0
    /\ faults = 0

-----------------------------------------------------------------------------
(* Arithmetic on times *)

Month(t) == t \div MonthMinutes

\* end_time_to_day_minutes: day of the month, hour and minute as minutes.
DayMinutes(t) == t % MonthMinutes

Distance(s, t) == IF s > t THEN s - t ELSE t - s

\* end_time_revision_is_material
RevisionIsMaterial(last, candidate) ==
    \/ last = NoTime
    \/ /\ last # candidate
       /\ Distance(DayMinutes(last), DayMinutes(candidate)) >= Jitter

\* Mutated minutes_between: a cycle that overruns is not clamped to 0.
MinutesUnclamped(from, end) ==
    IF Month(from) # Month(end) THEN Unknown ELSE end - from

\* minutes_between; nullopt is Unknown.
MinutesBetween(from, end) ==
    IF Month(from) # Month(end)
    THEN Unknown
    ELSE IF DayMinutes(end) < DayMinutes(from)
    THEN 0
    ELSE DayMinutes(end) - DayMinutes(from)

-----------------------------------------------------------------------------
(* From a message to the entities *)

\* wash_time_remaining_min of parse_dishwasher_in_place
WashTimeRemaining(message) ==
    IF message.end # NoTime /\ message.at # NoTime
    THEN MinutesBetween(message.at, message.end)
    ELSE Unknown

\* Mutated publish_wash_cycle_end_time: compares with the last value seen.
PublishEndTimeSinceSeen(end) ==
    IF end = NoTime
    THEN UNCHANGED <<lastPublished, shownEnd>>
    ELSE /\ lastPublished' = end
         /\ shownEnd' = IF RevisionIsMaterial(lastPublished, end)
                        THEN end ELSE shownEnd

\* publish_wash_cycle_end_time
PublishEndTime(end) ==
    IF end # NoTime /\ RevisionIsMaterial(lastPublished, end)
    THEN /\ lastPublished' = end
         /\ shownEnd' = end
    ELSE UNCHANGED <<lastPublished, shownEnd>>

\* Mutated dispatch_dishwasher: an answer to a poll does not clear the time; a
\* message that does not say that a cycle runs does.
CycleOverInPush(message) == FALSE \in message.on /\ message.shape # "resp"
CycleOverUnlessOn(message) == TRUE \notin message.on

\* s.wash_cycle_on && !*s.wash_cycle_on
CycleOver(message) == FALSE \in message.on

\* publish_wash_time_remaining, then clear_wash_time_remaining_if_running
PublishRemaining(message) ==
    LET derived == WashTimeRemaining(message)
        published == IF derived = Unknown THEN remaining ELSE derived
    IN  remaining' = IF CycleOver(message) /\ published > 0
                     THEN 0 ELSE published

\* History.  A cycle that is over takes what was said of its end with it.
Told(message) ==
    LET ends == message.end # NoTime /\ message.at # NoTime
        over == FALSE \in message.on
    IN  told' = [on  |-> ~over /\ (told.on \/ TRUE \in message.on),
                 end |-> IF over THEN NoTime
                         ELSE IF ends THEN message.end ELSE told.end,
                 at  |-> IF over THEN NoTime
                         ELSE IF ends THEN message.at ELSE told.at,
                 lastEnd |-> IF message.end # NoTime
                             THEN message.end ELSE told.lastEnd]

\* DishwasherHub::parse_and_dispatch_, dispatch_dishwasher
ParseAndDispatch ==
    /\ messages # <<>>
    /\ messages' = Tail(messages)
    /\ PublishEndTime(Head(messages).end)
    /\ PublishRemaining(Head(messages))
    /\ Told(Head(messages))
    /\ UNCHANGED <<applianceVars, bounds>>

-----------------------------------------------------------------------------
(* The appliance and the link *)

Send(message) ==
    /\ Len(messages) < MaxInFlight
    /\ messages' = Append(messages, message)

Push(on, end) == [shape |-> "props", on |-> on, end |-> end, at |-> now]

StartCycle(minutes) ==
    /\ ~washCycleOn
    /\ cycles < MaxCycles
    /\ cycles' = cycles + 1
    /\ washCycleOn' = TRUE
    /\ endTime' = now + minutes
    /\ Send(Push({TRUE}, now + minutes))
    /\ UNCHANGED <<now, busVars, revisions, faults>>

\* A new estimate.  It comes with a push or waits for the next poll.
ReviseEndTime(estimate) ==
    /\ washCycleOn
    /\ revisions < MaxRevisions
    /\ revisions' = revisions + 1
    /\ estimate >= now
    /\ endTime' = estimate
    /\ \/ Send(Push({}, estimate))
       \/ UNCHANGED messages
    /\ UNCHANGED <<now, washCycleOn, busVars, cycles, faults>>

\* The cycle is over, or called off; the end time may stay as it was.
FinishCycle ==
    /\ washCycleOn
    /\ washCycleOn' = FALSE
    /\ endTime' \in {endTime, NoTime}
    /\ Send(Push({FALSE}, NoTime))
    /\ UNCHANGED <<now, busVars, bounds>>

Tick ==
    /\ now < MaxNow
    /\ now' = now + 1
    /\ UNCHANGED <<washCycleOn, endTime, messages, busVars, bounds>>

\* A poll is answered, or a bare dump sent: the whole state, an end time that is
\* null being none.  They are far apart, so one at most is under way.
StateSent(shape, at) ==
    /\ \A i \in DOMAIN messages : messages[i].shape = "props"
    /\ Send([shape |-> shape, on |-> {washCycleOn}, end |-> endTime, at |-> at])
    /\ UNCHANGED <<applianceVars, busVars, bounds>>
PollAnswered == StateSent("resp", now)
BareStateSent == StateSent("bare", NoTime)

\* A message is lost, rejected, or does not survive reassembly.
MessageLost ==
    /\ messages # <<>>
    /\ faults < MaxFaults
    /\ faults' = faults + 1
    /\ messages' = Tail(messages)
    /\ UNCHANGED <<applianceVars, busVars, cycles, revisions>>

Next ==
    \/ ParseAndDispatch
    \/ \E minutes \in 1..MaxCycle : StartCycle(minutes)
    \/ \E estimate \in {endTime - 1, endTime + 1} : ReviseEndTime(estimate)
    \/ FinishCycle
    \/ Tick
    \/ PollAnswered
    \/ BareStateSent
    \/ MessageLost

\* Messages are handled, polls go on, a cycle comes to its end.
Fairness ==
    /\ WF_vars(ParseAndDispatch)
    /\ WF_vars(PollAnswered)
    /\ WF_vars(FinishCycle)

Spec == Init /\ [][Next]_vars /\ Fairness

-----------------------------------------------------------------------------
(* Properties *)

\* Drift in small steps is not hidden for ever: within a month, the end time on
\* display is never as much as kEndTimeJitterMinutes away from the last one
\* reported.  That is why the code compares with the last published value.
EndTimeIsCurrent ==
    /\ told.lastEnd # NoTime => shownEnd # NoTime
    /\ told.lastEnd # NoTime /\ Month(shownEnd) = Month(told.lastEnd)
         => \/ shownEnd = told.lastEnd
            \/ Distance(shownEnd, told.lastEnd) < Jitter

\* While a cycle runs and ends in the month in which it was last reported, the
\* time on display is the time that remained at that report, whichever messages
\* without an end time or a clock came in between.
CountdownIsCurrent ==
    told.on /\ told.end # NoTime /\ Month(told.end) = Month(told.at) =>
        remaining = IF told.end < told.at THEN 0 ELSE told.end - told.at

\* The remaining time never says that a cycle is over, when the last report of
\* this cycle puts its end in the future.  minutes_between's comment promises
\* "unknown" instead of "the false 0" for a cycle that spans the end of a month.
NoFalseZero ==
    told.on /\ told.end # NoTime /\ told.end > told.at => remaining # 0

\* When the dishwasher has stopped, the countdown stops too, whichever message
\* about it is lost.
CountdownEnds == <>[](remaining \in {0, Unknown})

=============================================================================
