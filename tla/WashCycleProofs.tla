---------------------------- MODULE WashCycleProofs ---------------------------
(***************************************************************************)
(* The end time on display stays within the jitter threshold of what was   *)
(* reported, and the countdown is what was reported, for every length of a *)
(* month, threshold and bound.                                             *)
(***************************************************************************)
EXTENDS WashCycle, TLAPS

MaybeNat == Nat \cup {NoTime}
Reports == [shape : {"resp", "props", "bare"}, on : {{}, {TRUE}, {FALSE}},
            end : MaybeNat, at : MaybeNat]

\* The types the argument needs.
TimesOK ==
    /\ now \in Nat
    /\ washCycleOn \in BOOLEAN
    /\ endTime \in MaybeNat
    /\ messages \in Seq(Reports)
    /\ lastPublished \in MaybeNat
    /\ told.lastEnd \in MaybeNat

\* What makes the property inductive: the value compared with is the value on
\* display, and the threshold is kept on the day's minutes, in whatever month.
WithinJitter ==
    /\ shownEnd = lastPublished
    /\ told.lastEnd # NoTime =>
        /\ lastPublished # NoTime
        /\ \/ lastPublished = told.lastEnd
           \/ Distance(DayMinutes(lastPublished), DayMinutes(told.lastEnd))
                < Jitter

EndTimeInv == TimesOK /\ WithinJitter

\* Within a month, times are as far apart as their minutes of the month.
LEMMA SameMonthDistance ==
    ASSUME NEW s \in Nat, NEW t \in Nat, Month(s) = Month(t)
    PROVE  Distance(s, t) = Distance(DayMinutes(s), DayMinutes(t))
<1>1. MonthMinutes \in Nat \ {0}
  BY WashAssumption
<1>2. /\ s = MonthMinutes * (s \div MonthMinutes) + (s % MonthMinutes)
      /\ t = MonthMinutes * (t \div MonthMinutes) + (t % MonthMinutes)
      /\ s \div MonthMinutes \in Int /\ t \div MonthMinutes \in Int
      /\ s % MonthMinutes \in Int /\ t % MonthMinutes \in Int
  BY <1>1, SMT
<1>3. s \div MonthMinutes = t \div MonthMinutes
  BY DEF Month
<1>4. s - t = (s % MonthMinutes) - (t % MonthMinutes)
  <2> DEFINE start == MonthMinutes * (s \div MonthMinutes)
  <2>1. start \in Int
    BY <1>1, <1>2
  <2>2. s = start + (s % MonthMinutes) /\ t = start + (t % MonthMinutes)
    BY <1>2, <1>3
  <2> HIDE DEF start
  <2> QED
    BY <2>1, <2>2, <1>2
<1> QED
  BY <1>2, <1>4 DEF Distance, DayMinutes

\* Nothing is on display at boot, and nothing was reported.
LEMMA EndTimeInit == Init => EndTimeInv
<1> SUFFICES ASSUME Init PROVE EndTimeInv
  OBVIOUS
<1>1. messages \in Seq(Reports)
  BY DEF Init
<1>2. told.lastEnd = NoTime
  BY Zenon DEF Init
<1>3. NoTime \in MaybeNat /\ 0 \in Nat
  BY DEF MaybeNat
<1> QED
  BY <1>1, <1>2, <1>3 DEF Init, EndTimeInv, TimesOK, WithinJitter

\* Whatever is sent is well-typed and leaves the entities alone.
LEMMA SendTypes ==
    ASSUME TimesOK, NEW m \in Reports, Send(m)
    PROVE  messages' \in Seq(Reports)
BY DEF TimesOK, Send

\* Every message and every step of the appliance keeps the invariant.
LEMMA EndTimeStep == EndTimeInv /\ [Next]_vars => EndTimeInv'
<1> SUFFICES ASSUME EndTimeInv, [Next]_vars PROVE EndTimeInv'
  OBVIOUS
<1> USE DEF EndTimeInv
<1>a. ASSUME UNCHANGED busVars, TimesOK' PROVE EndTimeInv'
  BY <1>a DEF busVars, WithinJitter, Distance, DayMinutes
<1>b. NoTime \notin Nat /\ MaybeNat = Nat \cup {NoTime}
  BY DEF NoTime, MaybeNat
<1>1. CASE ParseAndDispatch
  <2> DEFINE m == Head(messages)
  <2>1. m \in Reports /\ messages' \in Seq(Reports)
    BY <1>1 DEF ParseAndDispatch, TimesOK
  <2>2. m.end \in MaybeNat /\ PublishEndTime(m.end) /\ Told(m)
    BY <1>1, <2>1 DEF ParseAndDispatch, Reports
  <2>3. told'.lastEnd = IF m.end # NoTime THEN m.end ELSE told.lastEnd
    BY <2>2 DEF Told
  <2>4. UNCHANGED applianceVars
    BY <1>1 DEF ParseAndDispatch
  <2> HIDE DEF m
  <2>5. CASE m.end = NoTime
    BY <2>1, <2>2, <2>3, <2>4, <2>5
       DEF PublishEndTime, TimesOK, WithinJitter, applianceVars, Distance,
           DayMinutes
  <2>6. CASE m.end # NoTime /\ RevisionIsMaterial(lastPublished, m.end)
    BY <2>1, <2>2, <2>3, <2>4, <2>6
       DEF PublishEndTime, TimesOK, WithinJitter, applianceVars
  <2>7. CASE m.end # NoTime /\ ~RevisionIsMaterial(lastPublished, m.end)
    <3>1. UNCHANGED <<lastPublished, shownEnd>> /\ told'.lastEnd = m.end
      BY <2>2, <2>3, <2>7 DEF PublishEndTime
    <3>2. lastPublished # NoTime /\ lastPublished \in Nat /\ m.end \in Nat
      BY <2>2, <2>7, <1>b DEF RevisionIsMaterial, TimesOK
    <3>3. \/ lastPublished = m.end
          \/ ~(Distance(DayMinutes(lastPublished), DayMinutes(m.end)) >= Jitter)
      BY <2>7 DEF RevisionIsMaterial
    <3>4. Distance(DayMinutes(lastPublished), DayMinutes(m.end)) \in Int
      BY <3>2, WashAssumption DEF Distance, DayMinutes
    <3>5. \/ lastPublished = m.end
          \/ Distance(DayMinutes(lastPublished), DayMinutes(m.end)) < Jitter
      BY <3>3, <3>4, WashAssumption
    <3> QED
      BY <3>1, <3>2, <3>5, <2>1, <2>2, <2>4, <1>b
         DEF TimesOK, WithinJitter, applianceVars, Distance, DayMinutes
  <2> QED
    BY <2>5, <2>6, <2>7
<1>2. ASSUME NEW minutes \in 1..MaxCycle, StartCycle(minutes) PROVE EndTimeInv'
  <2>1. minutes \in Nat /\ now + minutes \in MaybeNat /\ now \in MaybeNat
    BY WashAssumption DEF TimesOK, MaybeNat
  <2>2. Push({TRUE}, now + minutes) \in Reports
    BY <2>1 DEF Push, Reports
  <2> QED
    BY <1>2, <1>a, <2>1, <2>2, SendTypes DEF StartCycle, TimesOK, busVars
<1>3. ASSUME NEW estimate \in {endTime - 1, endTime + 1},
             ReviseEndTime(estimate)
      PROVE  EndTimeInv'
  <2>1. estimate \in MaybeNat /\ now \in MaybeNat
    BY <1>3 DEF TimesOK, MaybeNat, NoTime, ReviseEndTime
  <2>2. Push({}, estimate) \in Reports
    BY <2>1 DEF Push, Reports
  <2>3. messages' \in Seq(Reports)
    BY <1>3, <2>2, SendTypes DEF ReviseEndTime, TimesOK
  <2> QED
    BY <1>3, <1>a, <2>1, <2>3 DEF ReviseEndTime, TimesOK, busVars
<1>4. CASE FinishCycle
  <2>1. Push({FALSE}, NoTime) \in Reports
    BY DEF Push, Reports, MaybeNat, TimesOK
  <2> QED
    BY <1>4, <1>a, <2>1, <1>b, SendTypes DEF FinishCycle, TimesOK, busVars
<1>5. CASE Tick
  BY <1>5, <1>a DEF Tick, TimesOK, busVars
<1>6. ASSUME NEW shape \in {"resp", "bare"}, NEW at \in MaybeNat,
             StateSent(shape, at)
      PROVE  EndTimeInv'
  <2>1. {washCycleOn} \in {{}, {TRUE}, {FALSE}}
    BY DEF TimesOK
  <2> DEFINE m == [shape |-> shape, on |-> {washCycleOn}, end |-> endTime,
                   at |-> at]
  <2>2. m \in Reports
    BY <2>1 DEF TimesOK, Reports
  <2>3. Send(m) /\ UNCHANGED <<applianceVars, busVars>>
    BY <1>6 DEF StateSent
  <2> HIDE DEF m
  <2>4. messages' \in Seq(Reports)
    BY <2>2, <2>3, SendTypes
  <2> QED
    BY <2>3, <2>4, <1>a DEF TimesOK, busVars, applianceVars
<1>7. CASE MessageLost
  <2>1. messages # <<>> /\ messages' = Tail(messages)
        /\ UNCHANGED <<applianceVars, busVars>>
    BY <1>7 DEF MessageLost
  <2>2. messages' \in Seq(Reports)
    BY <2>1 DEF TimesOK
  <2> QED
    BY <2>1, <2>2, <1>a DEF TimesOK, busVars, applianceVars
<1>8. CASE UNCHANGED vars
  BY <1>8, <1>a DEF vars, TimesOK, busVars, applianceVars
<1>9. CASE PollAnswered
  BY <1>6, <1>9 DEF PollAnswered, TimesOK, MaybeNat
<1>10. CASE BareStateSent
  BY <1>6, <1>10 DEF BareStateSent, MaybeNat
<1> QED
  BY <1>1, <1>2, <1>3, <1>4, <1>5, <1>7, <1>8, <1>9, <1>10 DEF Next

LEMMA EndTimeInvariant == Spec => []EndTimeInv
BY EndTimeInit, EndTimeStep, PTL DEF Spec

\* The end time on display is current: since revisions are held against the last
\* value published, however many small ones there are, it stays within the
\* threshold of the last one reported (publish_wash_cycle_end_time and
\* end_time_revision_is_material).
THEOREM EndTimeStaysCurrent == Spec => []EndTimeIsCurrent
<1>1. EndTimeInv => EndTimeIsCurrent
  <2> SUFFICES ASSUME EndTimeInv, told.lastEnd # NoTime,
                      Month(shownEnd) = Month(told.lastEnd),
                      shownEnd # told.lastEnd
               PROVE  Distance(shownEnd, told.lastEnd) < Jitter
    BY DEF EndTimeIsCurrent, EndTimeInv, WithinJitter
  <2>1. shownEnd \in Nat /\ told.lastEnd \in Nat
    BY DEF EndTimeInv, WithinJitter, TimesOK, MaybeNat
  <2> QED
    BY <2>1, SameMonthDistance DEF EndTimeInv, WithinJitter
<1> QED
  BY <1>1, EndTimeInvariant, PTL

-----------------------------------------------------------------------------
(* The countdown *)

\* Within a month minutes_between is the time left, or 0 when it is over.
LEMMA MinutesAreTimeLeft ==
    ASSUME NEW from \in Nat, NEW end \in Nat, Month(from) = Month(end)
    PROVE  MinutesBetween(from, end) = IF end < from THEN 0 ELSE end - from
<1>1. MonthMinutes \in Nat \ {0}
  BY WashAssumption
<1>2. /\ from = MonthMinutes * (from \div MonthMinutes) + (from % MonthMinutes)
      /\ end = MonthMinutes * (end \div MonthMinutes) + (end % MonthMinutes)
      /\ from \div MonthMinutes \in Int /\ end \div MonthMinutes \in Int
      /\ from % MonthMinutes \in Int /\ end % MonthMinutes \in Int
  BY <1>1, SMT
<1>3. from \div MonthMinutes = end \div MonthMinutes
  BY DEF Month
<1>4. end - from = (end % MonthMinutes) - (from % MonthMinutes)
  <2> DEFINE start == MonthMinutes * (from \div MonthMinutes)
  <2>1. start \in Int
    BY <1>1, <1>2
  <2>2. from = start + (from % MonthMinutes) /\ end = start + (end % MonthMinutes)
    BY <1>2, <1>3
  <2> HIDE DEF start
  <2> QED
    BY <2>1, <2>2, <1>2
<1> QED
  BY <1>2, <1>4 DEF MinutesBetween, DayMinutes

\* A cycle that is over takes its end with it, so the property need not speak of
\* the cycle.
CountdownInv ==
    /\ told.end \in MaybeNat
    /\ told.at \in MaybeNat
    /\ told.end # NoTime => told.at # NoTime
    /\ told.end # NoTime /\ Month(told.end) = Month(told.at) =>
         remaining = IF told.end < told.at THEN 0 ELSE told.end - told.at

LEMMA CountdownStep ==
    TimesOK /\ CountdownInv /\ [Next]_vars => CountdownInv'
<1> SUFFICES ASSUME TimesOK, CountdownInv, [Next]_vars PROVE CountdownInv'
  OBVIOUS
<1>1. CASE ParseAndDispatch
  <2> DEFINE m == Head(messages)
             ends == m.end # NoTime /\ m.at # NoTime
             over == FALSE \in m.on
  <2>1. m \in Reports
    BY <1>1 DEF ParseAndDispatch, TimesOK
  <2>2. /\ m.end \in MaybeNat /\ m.at \in MaybeNat
        /\ PublishRemaining(m) /\ Told(m)
    BY <1>1, <2>1 DEF ParseAndDispatch, Reports
  <2>3. /\ told'.end = IF over THEN NoTime ELSE IF ends THEN m.end ELSE told.end
        /\ told'.at = IF over THEN NoTime ELSE IF ends THEN m.at ELSE told.at
    BY <2>2 DEF Told
  <2> HIDE DEF m
  <2>4. CASE over
    BY <2>3, <2>4 DEF CountdownInv, MaybeNat
  <2>5. CASE ~over /\ ~ends
    <3>1. remaining' = remaining
      BY <2>2, <2>5 DEF PublishRemaining, WashTimeRemaining, CycleOver
    <3> QED
      BY <2>3, <2>5, <3>1 DEF CountdownInv, Month
  <2>6. CASE ~over /\ ends
    <3>1. m.end \in Nat /\ m.at \in Nat
      BY <2>2, <2>6 DEF MaybeNat
    <3>2. told'.end = m.end /\ told'.at = m.at
      BY <2>3, <2>6
    <3>3. ASSUME Month(m.end) = Month(m.at)
          PROVE  remaining' = IF m.end < m.at THEN 0 ELSE m.end - m.at
      <4>1. WashTimeRemaining(m) = IF m.end < m.at THEN 0 ELSE m.end - m.at
        BY <2>6, <3>1, <3>3, MinutesAreTimeLeft DEF WashTimeRemaining
      <4>2. WashTimeRemaining(m) # Unknown
        BY <3>1, <4>1 DEF Unknown
      <4>3. remaining' = WashTimeRemaining(m)
        BY <2>2, <2>6, <4>2 DEF PublishRemaining, CycleOver
      <4> QED
        BY <4>1, <4>3
    <3> QED
      BY <2>2, <2>6, <3>2, <3>3 DEF CountdownInv, Month
  <2> QED
    BY <2>4, <2>5, <2>6
<1>2. CASE UNCHANGED busVars
  BY <1>2 DEF CountdownInv, busVars, Month
<1>3. ParseAndDispatch \/ UNCHANGED busVars
  BY DEF Next, StartCycle, ReviseEndTime, FinishCycle, Tick, PollAnswered,
     BareStateSent, StateSent, MessageLost, vars, busVars
<1> QED
  BY <1>1, <1>2, <1>3

\* The remaining time on display is what remained at the last report that allowed
\* to compute it, whatever messages without an end time or a clock came since.
THEOREM CountdownStaysCurrent == Spec => []CountdownIsCurrent
<1>1. Init => CountdownInv
  <2> SUFFICES ASSUME Init PROVE CountdownInv
    OBVIOUS
  <2>1. told.end = NoTime /\ told.at = NoTime
    BY Zenon DEF Init
  <2> QED
    BY <2>1 DEF CountdownInv, MaybeNat
<1>2. EndTimeInv => TimesOK
  BY DEF EndTimeInv
<1>3. CountdownInv => CountdownIsCurrent
  BY DEF CountdownInv, CountdownIsCurrent
<1> QED
  BY <1>1, <1>2, <1>3, CountdownStep, EndTimeInvariant, PTL DEF Spec

-----------------------------------------------------------------------------
(* Types *)

\* What makes TypeOK inductive: only a revision moves the end of a cycle past
\* the longest one, and there are so many of them.
TypeInv ==
    /\ TypeOK
    /\ messages \in Seq(Messages)
    /\ endTime <= MaxNow + MaxCycle + revisions

\* Minutes of the month are no more than the time itself.
LEMMA DayMinutesAreFew ==
    ASSUME NEW t \in Nat
    PROVE  DayMinutes(t) \in 0..t
<1>1. MonthMinutes \in Nat \ {0}
  BY WashAssumption
<1>2. /\ t % MonthMinutes \in 0..(MonthMinutes - 1)
      /\ t \div MonthMinutes \in Nat
      /\ t = MonthMinutes * (t \div MonthMinutes) + (t % MonthMinutes)
  BY <1>1, SMT
<1>3. MonthMinutes * (t \div MonthMinutes) \in Nat
  <2> HIDE DEF DayMinutes
  <2>1. \A q \in Nat : MonthMinutes * q \in Nat
    BY <1>1
  <2> QED
    BY <1>2, <2>1
<1>4. \A r \in Nat, p \in Nat : t = p + r => r \in 0..t
  OBVIOUS
<1>5. t % MonthMinutes \in Nat
  BY <1>1, <1>2
<1> QED
  BY <1>2, <1>3, <1>4, <1>5 DEF DayMinutes

\* minutes_between is never more than its end.
LEMMA MinutesAreFew ==
    ASSUME NEW from \in Times, NEW end \in Times
    PROVE  MinutesBetween(from, end) \in 0..MaxTime \cup {Unknown}
<1>1. MaxTime \in Nat
  BY WashAssumption DEF MaxTime
<1>2. from \in Nat /\ end \in 0..MaxTime
  BY <1>1 DEF Times
<1>3. DayMinutes(from) \in 0..from /\ DayMinutes(end) \in 0..end
  BY <1>1, <1>2, DayMinutesAreFew
<1> QED
  BY <1>1, <1>2, <1>3 DEF MinutesBetween

LEMMA TypeInit == Init => TypeInv
<1> SUFFICES ASSUME Init PROVE TypeInv
  OBVIOUS
<1>1. /\ MaxNow \in Nat /\ MaxCycle \in Nat /\ MaxRevisions \in Nat
      /\ MaxInFlight \in Nat /\ MaxTime \in Nat
  BY WashAssumption DEF MaxTime
<1>2. told \in [on : BOOLEAN, end : MaybeTime, at : MaybeTime,
                lastEnd : MaybeTime]
  BY Zenon DEF Init, MaybeTime
<1>3. /\ messages \in Seq(Messages) /\ Len(messages) = 0
      /\ \A i \in DOMAIN messages : messages[i] \in Messages
  BY DEF Init
<1>4. NoTime \in MaybeTime /\ Unknown \in 0..MaxTime \cup {Unknown}
  BY DEF MaybeTime
<1>5. /\ now = 0 /\ washCycleOn = FALSE /\ endTime = -1 /\ endTime = NoTime
      /\ lastPublished = NoTime /\ shownEnd = NoTime /\ remaining = Unknown
      /\ revisions = 0
  BY DEF Init, NoTime
<1>6. TypeOK
  <2>1. now \in 0..MaxNow /\ revisions \in 0..MaxRevisions
    BY <1>1, <1>5
  <2>2. /\ washCycleOn \in BOOLEAN /\ endTime \in MaybeTime
        /\ lastPublished \in MaybeTime /\ shownEnd \in MaybeTime
        /\ remaining \in 0..MaxTime \cup {Unknown}
    BY <1>4, <1>5
  <2>3. Len(messages) <= MaxInFlight
    BY <1>1, <1>3
  <2> QED
    BY <1>2, <1>3, <2>1, <2>2, <2>3 DEF TypeOK
<1> QED
  BY <1>1, <1>3, <1>5, <1>6 DEF TypeInv

\* What is sent is one more message, well-typed and within the bound.
LEMMA SendMore ==
    ASSUME TypeInv, NEW m \in Messages, Send(m)
    PROVE  /\ messages' \in Seq(Messages)
           /\ Len(messages') <= MaxInFlight
           /\ \A i \in DOMAIN messages' : messages'[i] \in Messages
<1>1. messages' \in Seq(Messages) /\ Len(messages') = Len(messages) + 1
  BY DEF TypeInv, Send
<1>2. Len(messages) \in Nat /\ Len(messages) < MaxInFlight
  BY DEF TypeInv, Send
<1> QED
  BY <1>1, <1>2, WashAssumption

\* The appliance and the link keep the types.
LEMMA TypeStep == TypeInv /\ [Next]_vars => TypeInv'
<1> SUFFICES ASSUME TypeInv, [Next]_vars PROVE TypeInv'
  OBVIOUS
<1>0. /\ MaxNow \in Nat /\ MaxCycle \in Nat \ {0} /\ MaxRevisions \in Nat
      /\ MaxInFlight \in Nat \ {0} /\ MaxTime = MaxNow + MaxCycle + MaxRevisions
      /\ MaxTime \in Nat
  BY WashAssumption DEF MaxTime
<1>a. /\ now \in 0..MaxNow /\ endTime \in MaybeTime /\ revisions \in 0..MaxRevisions
      /\ messages \in Seq(Messages) /\ Len(messages) \in Nat
      /\ Len(messages) <= MaxInFlight /\ washCycleOn \in BOOLEAN
      /\ endTime <= MaxNow + MaxCycle + revisions
  BY DEF TypeInv, TypeOK
<1>b. MaybeTime = 0..MaxTime \cup {-1} /\ NoTime = -1 /\ now \in MaybeTime
  BY <1>0, <1>a DEF MaybeTime, Times, NoTime
<1>c. ASSUME messages # <<>>, messages' = Tail(messages)
      PROVE  /\ messages' \in Seq(Messages)
             /\ Len(messages') <= MaxInFlight
             /\ \A i \in DOMAIN messages' : messages'[i] \in Messages
  <2>1. messages' \in Seq(Messages) /\ Len(messages') = Len(messages) - 1
    BY <1>a, <1>c
  <2> QED
    BY <2>1, <1>a, <1>0
<1>d. ASSUME UNCHANGED busVars,
             now' \in 0..MaxNow, washCycleOn' \in BOOLEAN, endTime' \in MaybeTime,
             revisions' \in 0..MaxRevisions,
             endTime' <= MaxNow + MaxCycle + revisions',
             messages' \in Seq(Messages), Len(messages') <= MaxInFlight,
             \A i \in DOMAIN messages' : messages'[i] \in Messages
      PROVE  TypeInv'
  BY <1>d DEF TypeInv, TypeOK, busVars, MaybeTime, Times, MaxTime
<1>1. CASE ParseAndDispatch
  <2> DEFINE m == Head(messages)
  <2>1. m \in Messages /\ messages # <<>> /\ messages' = Tail(messages)
        /\ UNCHANGED <<applianceVars, bounds>>
        /\ PublishEndTime(m.end) /\ PublishRemaining(m) /\ Told(m)
    BY <1>1, <1>a DEF ParseAndDispatch
  <2> HIDE DEF m
  <2>2. m.end \in MaybeTime /\ m.at \in MaybeTime /\ NoTime \in MaybeTime
    BY <2>1 DEF Messages, MaybeTime
  <2>3. lastPublished' \in MaybeTime /\ shownEnd' \in MaybeTime
    BY <2>1, <2>2 DEF PublishEndTime, TypeInv, TypeOK
  <2>4. WashTimeRemaining(m) \in 0..MaxTime \cup {Unknown}
    <3>1. CASE m.end # NoTime /\ m.at # NoTime
      BY <3>1, <2>2, MinutesAreFew DEF WashTimeRemaining, MaybeTime
    <3>2. CASE ~(m.end # NoTime /\ m.at # NoTime)
      BY <3>2 DEF WashTimeRemaining
    <3> QED
      BY <3>1, <3>2
  <2>5. remaining' \in 0..MaxTime \cup {Unknown}
    BY <2>1, <2>4, <1>0 DEF PublishRemaining, TypeInv, TypeOK
  <2>6. told' \in [on : BOOLEAN, end : MaybeTime, at : MaybeTime,
                   lastEnd : MaybeTime]
    <3>1. told \in [on : BOOLEAN, end : MaybeTime, at : MaybeTime,
                    lastEnd : MaybeTime]
      BY DEF TypeInv, TypeOK
    <3> DEFINE over == FALSE \in m.on
               ends == m.end # NoTime /\ m.at # NoTime
               on == ~over /\ (told.on \/ TRUE \in m.on)
               end == IF over THEN NoTime ELSE IF ends THEN m.end ELSE told.end
               at == IF over THEN NoTime ELSE IF ends THEN m.at ELSE told.at
               lastEnd == IF m.end # NoTime THEN m.end ELSE told.lastEnd
    <3>2. end \in MaybeTime /\ at \in MaybeTime /\ lastEnd \in MaybeTime
      BY <2>2, <3>1
    <3>3. on \in BOOLEAN
      BY Zenon
    <3>4. told' = [on |-> on, end |-> end, at |-> at, lastEnd |-> lastEnd]
      BY <2>1, Zenon DEF Told
    <3> HIDE DEF on, end, at, lastEnd
    <3> QED
      BY <3>2, <3>3, <3>4
  <2>7. /\ messages' \in Seq(Messages) /\ Len(messages') <= MaxInFlight
        /\ \A i \in DOMAIN messages' : messages'[i] \in Messages
    BY <1>c, <2>1
  <2>8. UNCHANGED <<now, washCycleOn, endTime, revisions>>
    BY <2>1 DEF applianceVars, bounds
  <2>9. TypeOK'
    BY <2>3, <2>5, <2>6, <2>7, <2>8, <1>a DEF TypeOK, MaybeTime, Times, MaxTime
  <2> QED
    BY <2>7, <2>8, <2>9, <1>a DEF TypeInv
<1>2. ASSUME NEW minutes \in 1..MaxCycle, StartCycle(minutes) PROVE TypeInv'
  <2>1. now + minutes \in MaybeTime /\ now + minutes <= MaxNow + MaxCycle + revisions
    BY <1>0, <1>a, <1>b
  <2>2. Push({TRUE}, now + minutes) \in Messages
    BY <2>1, <1>b DEF Push, Messages
  <2> QED
    BY <1>2, <1>a, <1>d, <2>1, <2>2, SendMore DEF StartCycle
<1>3. ASSUME NEW estimate \in {endTime - 1, endTime + 1}, ReviseEndTime(estimate)
      PROVE  TypeInv'
  <2>1. /\ UNCHANGED <<now, washCycleOn, busVars>> /\ estimate >= now
        /\ endTime' = estimate /\ revisions' = revisions + 1
        /\ revisions < MaxRevisions
    BY <1>3 DEF ReviseEndTime
  <2>2. /\ estimate \in MaybeTime /\ estimate <= MaxNow + MaxCycle + revisions'
        /\ revisions' \in 0..MaxRevisions
    BY <1>0, <1>a, <1>b, <2>1
  <2>3. Push({}, estimate) \in Messages
    BY <2>2, <1>b DEF Push, Messages
  <2>4. /\ messages' \in Seq(Messages) /\ Len(messages') <= MaxInFlight
        /\ \A i \in DOMAIN messages' : messages'[i] \in Messages
    <3>1. CASE UNCHANGED messages
      BY <3>1, <1>a
    <3>2. CASE Send(Push({}, estimate))
      BY <3>2, <2>3, SendMore
    <3> QED
      BY <3>1, <3>2, <1>3 DEF ReviseEndTime
  <2> QED
    BY <1>a, <1>d, <2>1, <2>2, <2>4
<1>4. CASE FinishCycle
  <2>1. endTime' \in MaybeTime /\ endTime' <= MaxNow + MaxCycle + revisions
    BY <1>4, <1>0, <1>a, <1>b DEF FinishCycle
  <2>2. Push({FALSE}, NoTime) \in Messages
    BY <1>b DEF Push, Messages
  <2> QED
    BY <1>4, <1>a, <1>d, <2>1, <2>2, SendMore DEF FinishCycle, bounds
<1>5. CASE Tick
  BY <1>5, <1>0, <1>a, <1>d DEF Tick, bounds
<1>6. ASSUME NEW shape \in {"resp", "bare"}, NEW at \in MaybeTime,
             StateSent(shape, at)
      PROVE  TypeInv'
  <2> DEFINE m == [shape |-> shape, on |-> {washCycleOn}, end |-> endTime,
                   at |-> at]
  <2>1. {washCycleOn} \in {{}, {TRUE}, {FALSE}}
    BY <1>a
  <2>2. m \in Messages
    BY <2>1, <1>a DEF Messages
  <2>3. Send(m) /\ UNCHANGED <<applianceVars, busVars, bounds>>
    BY <1>6 DEF StateSent
  <2> HIDE DEF m
  <2> QED
    BY <2>2, <2>3, <1>a, <1>d, SendMore DEF applianceVars, bounds
<1>7. CASE PollAnswered
  BY <1>6, <1>7, <1>b DEF PollAnswered
<1>8. CASE BareStateSent
  BY <1>6, <1>8, <1>b DEF BareStateSent
<1>9. CASE MessageLost
  BY <1>9, <1>a, <1>c, <1>d DEF MessageLost, applianceVars
<1>10. CASE UNCHANGED vars
  BY <1>10, <1>a, <1>d DEF vars, applianceVars, bounds, TypeInv, TypeOK
<1> QED
  BY <1>1, <1>2, <1>3, <1>4, <1>5, <1>7, <1>8, <1>9, <1>10 DEF Next

\* Whatever the appliance reports and the link loses, the entities hold times
\* the appliance can have meant, and no more messages are under way than fit.
THEOREM WashTypeCorrect == Spec => []TypeOK
<1>1. TypeInv => TypeOK
  BY DEF TypeInv
<1> QED
  BY <1>1, TypeInit, TypeStep, PTL DEF Spec

=============================================================================
