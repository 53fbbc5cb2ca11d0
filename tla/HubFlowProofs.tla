---------------------------- MODULE HubFlowProofs ----------------------------
(***************************************************************************)
(* Theorems about SubzeroHub's flows: the ladders of timeouts after a      *)
(* connection, the flags that mark them, the retries between them, and     *)
(* what Status says of the link meanwhile.                                 *)
(***************************************************************************)
EXTENDS SubzeroHubProofs

-----------------------------------------------------------------------------
(* A flag and its timers *)

\* The steps of the cold ladder that look for D5.  Two of them leave the flag
\* post_bond_running_ set and arm nothing when D5 is known already.
LateTimers ==
    {"post_bond_search", "post_bond_poll_1", "post_bond_poll_2",
     "post_bond_poll_3"}

\* FlagHasTimer is not inductive, for those two steps.  What rules them out: the
\* cold ladder is one chain with one timer at a time, nobody else finds handles
\* while it looks for D5, since the other flows run with D5 known, and it is not
\* started a second time.
FlowInv ==
    /\ FlagHasTimer
    /\ link # "closing" =>
        /\ timers \cap PostBondTimers # {} => "post_bond" \in running /\ phase = 1
        /\ \A s, t \in timers \cap PostBondTimers : s = t
        /\ timers \cap (SubscribeTimers \cup FastReconnectTimers) # {}
             => "D5" \in handles
        /\ timers \cap LateTimers # {} => "D5" \notin handles

LEMMA FlowStep ==
  ASSUME TypeOK, ColdInv, FlowInv, [Next]_vars
  PROVE  FlowInv'
<1> USE PollTimers DEF TypeOK, FlagsOK, SetsOK, CountersOK, ColdInv, FlowInv,
        FlagHasTimer, Flows, LateTimers,
        LadderTimers, HandlesCached, WriteFails, RefusalCounts, LinkStates,
        Connected, HasConnection, Cancellable, PostBondTimers, SubscribeTimers,
        FastReconnectTimers, linkVars, ladderVars, pinVars, strikeVars,
        writeVars, statusVars
<1>1. CASE ConnectionEvent
  <2>1. CASE Dial
    BY <2>1 DEF Dial, Dialled
  <2>2. CASE ServicesFound
    BY <2>2 DEF ServicesFound, HandleConnected, StartPostBond, PublishStatus,
       PublishProgress
  <2>3. CASE SearchFailed
    BY <2>3 DEF SearchFailed, HandleDisconnected, CountDrop, AnnounceDrop,
       ConsumedIntent, WithoutTimeouts, NoteBondFailure, StruckOut
  <2>4. CASE ConnectionLost
    BY <2>4 DEF ConnectionLost, ConnectionGone, HandleDisconnected, CountDrop,
       AnnounceDrop, ConsumedIntent, WithoutTimeouts, NoteBondFailure,
       StruckOut
  <2> QED
    BY <1>1, <2>1, <2>2, <2>3, <2>4 DEF ConnectionEvent
<1>2. CASE SecurityEvent
  <2>1. CASE AuthSucceeded
    BY <2>1 DEF AuthSucceeded, StartSubscribe, PublishStatus
  <2>2. CASE AuthFailed
    BY <2>2 DEF AuthFailed, PairingRefused, NoteBondFailure, StruckOut,
       UpdatedHandles, Snapshots, PublishStatus, WithoutTimeouts, HungUp
  <2>3. CASE AuthRateLimited
    BY <2>3 DEF AuthRateLimited, PairingRefused, NoteBondFailure, StruckOut,
       UpdatedHandles, Snapshots, PublishStatus, WithoutTimeouts, HungUp,
       HungUpByDisabling, NextBackoff
  <2>4. CASE \/ Reencrypted
            \/ PasskeyRequested
    BY <2>4 DEF Reencrypted, PasskeyRequested
  <2> QED
    BY <1>2, <2>1, <2>2, <2>3, <2>4 DEF SecurityEvent
<1>3. CASE DataEvent
  <2>1. CASE WriteRejectedUnencrypted
    BY <2>1 DEF WriteRejectedUnencrypted, PublishStatus, HungUp
  <2>2. CASE WriteFailed
    BY <2>2 DEF WriteFailed, PublishStatus, HungUp
  <2>3. ASSUME NEW pin \in Pins,
              PollResponseReceived(pin)
       PROVE  FlowInv'
    BY <2>3 DEF PollResponseReceived
  <2>4. CASE LackingProperties
    BY <2>4 DEF LackingProperties, PublishStatus
  <2>5. CASE \/ PushReceived
            \/ PairingRevoked
    BY <2>5 DEF PushReceived, PairingRevoked
  <2> QED
    BY <1>3, <2>1, <2>2, <2>3, <2>4, <2>5 DEF DataEvent
<1>4. CASE PostBondStep
  <2>1. ASSUME NEW snapshot \in Snapshots,
              PostBondInitial(snapshot)
       PROVE  FlowInv'
    BY <2>1 DEF PostBondInitial, Fires, UpdatedHandles, Snapshots,
       EncryptionRequested, PublishStatus
  <2>2. CASE PostBondPostEncryption
    BY <2>2 DEF PostBondPostEncryption, Fires, StartSubscribe, PublishStatus
  <2>3. CASE PostBondTriggerSearch
    BY <2>3 DEF PostBondTriggerSearch, Fires, Noting
  <2>4. ASSUME NEW attempt \in PollAttempts, NEW snapshot \in Snapshots,
              PostBondPollAttempt(attempt, snapshot)
       PROVE  FlowInv'
    <3>1. /\ attempt[1] \in LateTimers
          /\ attempt[2] \in PostBondTimers
          /\ attempt[2] \in LateTimers \/ attempt[2] = "post_bond_giveup"
      BY DEF PollAttempts
    <3>2. CASE "D5" \in handles
      BY <2>4, <3>1, <3>2 DEF PostBondPollAttempt, Fires
    <3>3. CASE "D5" \in snapshot /\ "D5" \notin handles
      BY <2>4, <3>1, <3>3 DEF PostBondPollAttempt, UpdatedHandles,
         StartSubscribe
    <3>4. CASE "D5" \notin snapshot /\ "D5" \notin handles
      BY <2>4, <3>1, <3>4 DEF PostBondPollAttempt, Fires, UpdatedHandles,
         HungUp
    <3> QED
      BY <3>2, <3>3, <3>4
  <2>5. CASE PostBondGiveup
    BY <2>5 DEF PostBondGiveup, Fires
  <2> QED
    BY <1>4, <2>1, <2>2, <2>3, <2>4, <2>5 DEF PostBondStep
<1>5. CASE SubscribeStep
  <2>1. CASE SubscribeUnlock
    BY <2>1 DEF SubscribeUnlock, Fires, PublishStatus, PublishProgress,
       UnlockCmdUsed, ChannelsUnlocked, Noting
  <2>2. ASSUME NEW snapshot \in Snapshots,
              SubscribeInitialGet(snapshot)
       PROVE  FlowInv'
    BY <2>2 DEF SubscribeInitialGet, Fires, UpdatedHandles, Snapshots,
       StartPolling, RediscoverD6, ParkWithoutD6, PublishStatus, Noting, HungUp
  <2>3. CASE FastReconnectEncrypt
    BY <2>3 DEF FastReconnectEncrypt, Fires, EncryptionRequested
  <2>4. CASE FastReconnectSubscribe
    BY <2>4 DEF FastReconnectSubscribe, StartSubscribe, PublishStatus
  <2>5. CASE EncryptionRetry
    BY <2>5 DEF EncryptionRetry, Fires, StartSubscribe, PublishStatus,
       EncryptionRequested
  <2> QED
    BY <1>5, <2>1, <2>2, <2>3, <2>4, <2>5 DEF SubscribeStep
<1>6. CASE OtherTimer
  <2>1. CASE VerbFallbackRetry
    BY <2>1 DEF VerbFallbackRetry, Fires, Noting, PublishStatus
  <2>2. CASE SubmitPinPoll
    BY <2>2 DEF SubmitPinPoll, Fires, Noting
  <2>3. CASE SessionRefresh
    BY <2>3 DEF SessionRefresh, Fires, HungUp
  <2>4. CASE SessionRefreshQuietExpired
    BY <2>4 DEF SessionRefreshQuietExpired, Fires, PublishStatus
  <2>5. CASE PairingBackoffOver
    BY <2>5 DEF PairingBackoffOver, Fires, PublishProgress, PublishStatus
  <2> QED
    BY <1>6, <2>1, <2>2, <2>3, <2>4, <2>5 DEF OtherTimer
<1>7. CASE PeriodicPollRefused
  BY <1>7 DEF PeriodicPollRefused, UnlockCmdUsed, PublishStatus, HungUp
<1>8. CASE PeriodicPoll
  BY <1>8 DEF PeriodicPoll
<1>9. CASE UserStep
  <2>1. CASE PressConnect
    BY <2>1 DEF PressConnect, ForgetSession, CancelPairingBackoff,
       WithoutTimeouts, Dialled
  <2>2. CASE PressDisconnect
    BY <2>2 DEF PressDisconnect, HungUp
  <2>3. CASE PressSubmitPin
    BY <2>3 DEF PressSubmitPin, UnlockCmdUsed, Noting, PublishStatus
  <2>4. CASE PressLogDebugInfo
    BY <2>4 DEF PressLogDebugInfo, PublishStatus, HungUp
  <2>5. CASE PressResetPairing
    BY <2>5 DEF PressResetPairing, ForgetSession, CancelPairingBackoff,
       WithoutTimeouts, PublishStatus, HungUp
  <2>6. ASSUME NEW pin \in Pins,
              SetStoredPin(pin)
       PROVE  FlowInv'
    BY <2>6 DEF SetStoredPin
  <2>7. CASE \/ PressStartPairing
            \/ PressPoll
            \/ WriteSetProperty
    BY <2>7 DEF PressStartPairing, PressPoll, WriteSetProperty
  <2> QED
    BY <1>9, <2>1, <2>2, <2>3, <2>4, <2>5, <2>6, <2>7 DEF UserStep
<1>10. CASE UNCHANGED vars
  BY <1>10 DEF vars
<1> QED
  BY <1>1, <1>2, <1>3, <1>4, <1>5, <1>6, <1>7, <1>8, <1>9, <1>10 DEF Next

LEMMA FlowInvariant == Spec => []FlowInv
<1>1. Init => FlowInv
  BY DEF Init, LinkInit, FlowInv, FlagHasTimer
<1>2. TypeOK /\ ColdInv /\ FlowInv /\ [Next]_vars => FlowInv'
  BY FlowStep
<1> QED
  BY <1>1, <1>2, TypeCorrect, ColdInvariant, PTL DEF Spec

\* A flow's flag blocks do_periodic_poll; on a live or opening link it never
\* stands without a timer that ends the flow and clears it, whatever events,
\* failures and buttons meet.
THEOREM FlagsHaveTimers == Spec => []FlagHasTimer
<1>1. FlowInv => FlagHasTimer
  BY DEF FlowInv
<1> QED
  BY <1>1, FlowInvariant, PTL

-----------------------------------------------------------------------------
(* Strikes *)

\* No strike is charged to a connection before it ends, and a refusal charges one
\* only with the intent that keeps its DISCONNECT from charging another.
StrikeInv ==
    /\ link \in {"opening", "up"} => strikes = 0
    /\ link = "closing" => strikes = 0 \/ intentional
    /\ strikes <= 1

LEMMA StrikeStep ==
  ASSUME "search_fail" \notin Inputs, TypeOK, HoldInv, StrikeInv, [Next]_vars
  PROVE  StrikeInv'
<1> USE PollTimers DEF TypeOK, FlagsOK, SetsOK, CountersOK, HoldInv, StrikeInv,
        LadderTimers, HandlesCached, WriteFails, RefusalCounts, LinkStates,
        Connected, HasConnection, Cancellable, PostBondTimers, SubscribeTimers,
        FastReconnectTimers, linkVars, ladderVars, pinVars, strikeVars,
        writeVars, statusVars
<1>1. CASE ConnectionEvent
  <2>1. CASE Dial
    BY <2>1 DEF Dial, Dialled
  <2>2. CASE ServicesFound
    BY <2>2 DEF ServicesFound, HandleConnected, StartPostBond, PublishStatus,
       PublishProgress
  <2>3. CASE SearchFailed
    BY <2>3 DEF SearchFailed, HandleDisconnected, CountDrop, AnnounceDrop,
       ConsumedIntent, WithoutTimeouts, NoteBondFailure, StruckOut
  <2>4. CASE ConnectionLost
    BY <2>4 DEF ConnectionLost, ConnectionGone, HandleDisconnected, CountDrop,
       AnnounceDrop, ConsumedIntent, WithoutTimeouts, NoteBondFailure,
       StruckOut
  <2> QED
    BY <1>1, <2>1, <2>2, <2>3, <2>4 DEF ConnectionEvent
<1>2. CASE SecurityEvent
  <2>1. CASE AuthSucceeded
    BY <2>1 DEF AuthSucceeded, StartSubscribe, PublishStatus
  <2>2. CASE AuthFailed
    BY <2>2 DEF AuthFailed, PairingRefused, NoteBondFailure, StruckOut,
       UpdatedHandles, Snapshots, PublishStatus, WithoutTimeouts, HungUp
  <2>3. CASE AuthRateLimited
    BY <2>3 DEF AuthRateLimited, PairingRefused, NoteBondFailure, StruckOut,
       UpdatedHandles, Snapshots, PublishStatus, WithoutTimeouts, HungUp,
       HungUpByDisabling, NextBackoff
  <2>4. CASE \/ Reencrypted
            \/ PasskeyRequested
    BY <2>4 DEF Reencrypted, PasskeyRequested
  <2> QED
    BY <1>2, <2>1, <2>2, <2>3, <2>4 DEF SecurityEvent
<1>3. CASE DataEvent
  <2>1. CASE WriteRejectedUnencrypted
    BY <2>1 DEF WriteRejectedUnencrypted, PublishStatus, HungUp
  <2>2. CASE WriteFailed
    BY <2>2 DEF WriteFailed, PublishStatus, HungUp
  <2>3. ASSUME NEW pin \in Pins,
              PollResponseReceived(pin)
       PROVE  StrikeInv'
    BY <2>3 DEF PollResponseReceived
  <2>4. CASE LackingProperties
    BY <2>4 DEF LackingProperties, PublishStatus
  <2>5. CASE \/ PushReceived
            \/ PairingRevoked
    BY <2>5 DEF PushReceived, PairingRevoked
  <2> QED
    BY <1>3, <2>1, <2>2, <2>3, <2>4, <2>5 DEF DataEvent
<1>4. CASE PostBondStep
  <2>1. ASSUME NEW snapshot \in Snapshots,
              PostBondInitial(snapshot)
       PROVE  StrikeInv'
    BY <2>1 DEF PostBondInitial, Fires, UpdatedHandles, Snapshots,
       EncryptionRequested, PublishStatus
  <2>2. CASE PostBondPostEncryption
    BY <2>2 DEF PostBondPostEncryption, Fires, StartSubscribe, PublishStatus
  <2>3. CASE PostBondTriggerSearch
    BY <2>3 DEF PostBondTriggerSearch, Fires, Noting
  <2>4. ASSUME NEW attempt \in PollAttempts, NEW snapshot \in Snapshots,
              PostBondPollAttempt(attempt, snapshot)
       PROVE  StrikeInv'
    BY <2>4 DEF PostBondPollAttempt, Fires, UpdatedHandles, Snapshots,
       StartSubscribe, PublishStatus, HungUp
  <2>5. CASE PostBondGiveup
    BY <2>5 DEF PostBondGiveup, Fires
  <2> QED
    BY <1>4, <2>1, <2>2, <2>3, <2>4, <2>5 DEF PostBondStep
<1>5. CASE SubscribeStep
  <2>1. CASE SubscribeUnlock
    BY <2>1 DEF SubscribeUnlock, Fires, PublishStatus, PublishProgress,
       UnlockCmdUsed, ChannelsUnlocked, Noting
  <2>2. ASSUME NEW snapshot \in Snapshots,
              SubscribeInitialGet(snapshot)
       PROVE  StrikeInv'
    BY <2>2 DEF SubscribeInitialGet, Fires, UpdatedHandles, Snapshots,
       StartPolling, RediscoverD6, ParkWithoutD6, PublishStatus, Noting, HungUp
  <2>3. CASE FastReconnectEncrypt
    BY <2>3 DEF FastReconnectEncrypt, Fires, EncryptionRequested
  <2>4. CASE FastReconnectSubscribe
    BY <2>4 DEF FastReconnectSubscribe, StartSubscribe, PublishStatus
  <2>5. CASE EncryptionRetry
    BY <2>5 DEF EncryptionRetry, Fires, StartSubscribe, PublishStatus,
       EncryptionRequested
  <2> QED
    BY <1>5, <2>1, <2>2, <2>3, <2>4, <2>5 DEF SubscribeStep
<1>6. CASE OtherTimer
  <2>1. CASE VerbFallbackRetry
    BY <2>1 DEF VerbFallbackRetry, Fires, Noting, PublishStatus
  <2>2. CASE SubmitPinPoll
    BY <2>2 DEF SubmitPinPoll, Fires, Noting
  <2>3. CASE SessionRefresh
    BY <2>3 DEF SessionRefresh, Fires, HungUp
  <2>4. CASE SessionRefreshQuietExpired
    BY <2>4 DEF SessionRefreshQuietExpired, Fires, PublishStatus
  <2>5. CASE PairingBackoffOver
    BY <2>5 DEF PairingBackoffOver, Fires, PublishProgress, PublishStatus
  <2> QED
    BY <1>6, <2>1, <2>2, <2>3, <2>4, <2>5 DEF OtherTimer
<1>7. CASE PeriodicPollRefused
  BY <1>7 DEF PeriodicPollRefused, UnlockCmdUsed, PublishStatus, HungUp
<1>8. CASE PeriodicPoll
  BY <1>8 DEF PeriodicPoll
<1>9. CASE UserStep
  <2>1. CASE PressConnect
    BY <2>1 DEF PressConnect, ForgetSession, CancelPairingBackoff,
       WithoutTimeouts, Dialled
  <2>2. CASE PressDisconnect
    BY <2>2 DEF PressDisconnect, HungUp
  <2>3. CASE PressSubmitPin
    BY <2>3 DEF PressSubmitPin, UnlockCmdUsed, Noting, PublishStatus
  <2>4. CASE PressLogDebugInfo
    BY <2>4 DEF PressLogDebugInfo, PublishStatus, HungUp
  <2>5. CASE PressResetPairing
    BY <2>5 DEF PressResetPairing, ForgetSession, CancelPairingBackoff,
       WithoutTimeouts, PublishStatus, HungUp
  <2>6. ASSUME NEW pin \in Pins,
              SetStoredPin(pin)
       PROVE  StrikeInv'
    BY <2>6 DEF SetStoredPin
  <2>7. CASE \/ PressStartPairing
            \/ PressPoll
            \/ WriteSetProperty
    BY <2>7 DEF PressStartPairing, PressPoll, WriteSetProperty
  <2> QED
    BY <1>9, <2>1, <2>2, <2>3, <2>4, <2>5, <2>6, <2>7 DEF UserStep
<1>10. CASE UNCHANGED vars
  BY <1>10 DEF vars
<1> QED
  BY <1>1, <1>2, <1>3, <1>4, <1>5, <1>6, <1>7, <1>8, <1>9, <1>10 DEF Next

LEMMA StrikeInvariant ==
  ASSUME "search_fail" \notin Inputs
  PROVE  Spec => []StrikeInv
<1>1. Init => StrikeInv
  BY DEF Init, LinkInit, StrikeInv
<1>2. TypeOK /\ HoldInv /\ StrikeInv /\ [Next]_vars => StrikeInv'
  BY StrikeStep
<1> QED
  BY <1>1, <1>2, TypeCorrect, HoldInvariant, PTL DEF Spec

\* A failed attempt is one strike against the bond, whatever comes first of the
\* refused pairing, the hang-up it causes and the late verdict, for any input but
\* a failed service discovery.
THEOREM OneStrikeIsCharged ==
  ASSUME "search_fail" \notin Inputs
  PROVE  Spec => []OneStrikePerAttempt
<1>1. StrikeInv => OneStrikePerAttempt
  BY DEF StrikeInv, OneStrikePerAttempt
<1> QED
  BY <1>1, StrikeInvariant, PTL

\* The drop of a bonded session always counts against the bond, as long as the
\* user leaves it to the hub to hang up and service discovery does not fail.
THEOREM GenuineDropsCount ==
  ASSUME NoUserHangUp, "search_fail" \notin Inputs
  PROVE  Spec => GenuineDropCounts
<1>1. StrikeInv /\ IntentIsConsumed /\ [Next]_vars
        => [link = "up" /\ link' = "down" /\ HandlesCached
              => strikes' # strikes]_vars
  <2> SUFFICES ASSUME StrikeInv, IntentIsConsumed, [Next]_vars,
                      link = "up", link' = "down", HandlesCached
               PROVE  strikes' # strikes
    OBVIOUS
  <2>1. ConnectionLost
    BY OnlyLossEndsConnection
  <2>2. strikes = 0 /\ ~intentional
    BY DEF StrikeInv, IntentIsConsumed
  <2> QED
    BY <2>1, <2>2 DEF ConnectionLost, HandleDisconnected, CountDrop,
       NoteBondFailure
<1> QED
  BY <1>1, StrikeInvariant, IntentIsAlwaysConsumed, PTL
     DEF Spec, GenuineDropCounts

-----------------------------------------------------------------------------
(* Supervision of a live link *)

\* What the hub is not told from outside.
Unaided == Inputs \cap {"connect", "reset", "set_pin", "search_fail"} = {}

\* D6, if it is known, was registered, or was found after the subscribe.
HeardIfKnown == "D6" \in handles => session \cap {"registered", "late"} # {}

\* LiveLinkIsSupervised, UnlockedSessionIsRefreshed and IdleLinkIsUnlocked in one,
\* since one step of the subscribe ladder establishes all three.  Added is what
\* the ladder has done by the time of each of its steps, that no discovery brings
\* a D6 into a subscribe that is under way, and that without a PIN nothing is
\* unlocked, so that no answer brings one.
SupervisedInv ==
    /\ pinConfirmed
    /\ storedPin = NoPin => session \cap {"unlocked", "heard"} = {}
    /\ link = "up" =>
        /\ "post_bond_giveup" \notin timers
        /\ "post_bond_initial" \in timers => "D5" \notin handles
        /\ timers \cap SubscribeTimers # {} => HeardIfKnown
        /\ "subscribe_get" \in timers => "control" \in session
        /\ storedPin # NoPin /\ running = {}
             => /\ "session_refresh" \in timers
                /\ "D5" \in handles => "control" \in session
                /\ HeardIfKnown

LEMMA SupervisedStep ==
  ASSUME Unaided, TypeOK, HoldInv, ColdInv, FlowInv, SupervisedInv, [Next]_vars
  PROVE  SupervisedInv'
<1> USE HubAssumption, PollTimers DEF HubAssumption, Unaided, TypeOK, FlagsOK,
        SetsOK, CountersOK, HoldInv, ColdInv, FlowInv, SupervisedInv,
        HeardIfKnown, MaybePins, LadderTimers, HandlesCached, WriteFails,
        RefusalCounts, LinkStates, Connected, HasConnection, Cancellable,
        PostBondTimers, SubscribeTimers, FastReconnectTimers, linkVars,
        ladderVars, pinVars, strikeVars, writeVars, statusVars
<1>1. CASE ConnectionEvent
  <2>1. CASE Dial
    BY <2>1 DEF Dial, Dialled
  <2>2. CASE ServicesFound
    BY <2>2 DEF ServicesFound, HandleConnected, StartPostBond, PublishStatus,
       PublishProgress
  <2>3. CASE SearchFailed
    BY <2>3 DEF SearchFailed, HandleDisconnected, CountDrop, AnnounceDrop,
       ConsumedIntent, WithoutTimeouts, NoteBondFailure, StruckOut
  <2>4. CASE ConnectionLost
    BY <2>4 DEF ConnectionLost, ConnectionGone, HandleDisconnected, CountDrop,
       AnnounceDrop, ConsumedIntent, WithoutTimeouts, NoteBondFailure,
       StruckOut
  <2> QED
    BY <1>1, <2>1, <2>2, <2>3, <2>4 DEF ConnectionEvent
<1>2. CASE SecurityEvent
  <2>1. CASE AuthSucceeded
    BY <2>1 DEF AuthSucceeded, StartSubscribe, Subscribed, PublishStatus
  <2>2. CASE AuthFailed
    BY <2>2 DEF AuthFailed, PairingRefused, NoteBondFailure, StruckOut,
       UpdatedHandles, Snapshots, PublishStatus, WithoutTimeouts, HungUp
  <2>3. CASE AuthRateLimited
    BY <2>3 DEF AuthRateLimited, PairingRefused, NoteBondFailure, StruckOut,
       UpdatedHandles, Snapshots, PublishStatus, WithoutTimeouts, HungUp,
       HungUpByDisabling, NextBackoff
  <2>4. CASE \/ Reencrypted
            \/ PasskeyRequested
    BY <2>4 DEF Reencrypted, PasskeyRequested
  <2> QED
    BY <1>2, <2>1, <2>2, <2>3, <2>4 DEF SecurityEvent
<1>3. CASE DataEvent
  <2>1. CASE WriteRejectedUnencrypted
    BY <2>1 DEF WriteRejectedUnencrypted, PublishStatus, HungUp
  <2>2. CASE WriteFailed
    BY <2>2 DEF WriteFailed, PublishStatus, HungUp
  <2>3. ASSUME NEW pin \in Pins,
              PollResponseReceived(pin)
       PROVE  SupervisedInv'
    BY <2>3 DEF PollResponseReceived, MessageParsed, PublishStatus
  <2>4. CASE LackingProperties
    BY <2>4 DEF LackingProperties, PublishStatus
  <2>5. CASE \/ PushReceived
            \/ PairingRevoked
    BY <2>5 DEF PushReceived, MessageParsed, PairingRevoked, PublishStatus
  <2> QED
    BY <1>3, <2>1, <2>2, <2>3, <2>4, <2>5 DEF DataEvent
<1>4. CASE PostBondStep
  <2>1. ASSUME NEW snapshot \in Snapshots,
              PostBondInitial(snapshot)
       PROVE  SupervisedInv'
    BY <2>1 DEF PostBondInitial, Fires, UpdatedHandles, Snapshots,
       EncryptionRequested, PublishStatus
  <2>2. CASE PostBondPostEncryption
    BY <2>2 DEF PostBondPostEncryption, Fires, StartSubscribe, Subscribed,
       PublishStatus
  <2>3. CASE PostBondTriggerSearch
    BY <2>3 DEF PostBondTriggerSearch, Fires, Noting
  <2>4. ASSUME NEW attempt \in PollAttempts, NEW snapshot \in Snapshots,
              PostBondPollAttempt(attempt, snapshot)
       PROVE  SupervisedInv'
    BY <2>4 DEF PostBondPollAttempt, Fires, UpdatedHandles, Snapshots,
       StartSubscribe, Subscribed, PublishStatus, HungUp
  <2>5. CASE PostBondGiveup
    BY <2>5 DEF PostBondGiveup, Fires
  <2> QED
    BY <1>4, <2>1, <2>2, <2>3, <2>4, <2>5 DEF PostBondStep
<1>5. CASE SubscribeStep
  <2>1. CASE SubscribeUnlock
    BY <2>1 DEF SubscribeUnlock, Fires, PublishStatus, PublishProgress,
       UnlockCmdUsed, ChannelsUnlocked, Noting
  <2>2. ASSUME NEW snapshot \in Snapshots,
              SubscribeInitialGet(snapshot)
       PROVE  SupervisedInv'
    BY <2>2 DEF SubscribeInitialGet, Fires, UpdatedHandles, Snapshots,
       StartPolling, FoundLate, RediscoverD6, ParkWithoutD6, PublishStatus,
       Noting, HungUp
  <2>3. CASE FastReconnectEncrypt
    BY <2>3 DEF FastReconnectEncrypt, Fires, EncryptionRequested
  <2>4. CASE FastReconnectSubscribe
    BY <2>4 DEF FastReconnectSubscribe, StartSubscribe, Subscribed, PublishStatus
  <2>5. CASE EncryptionRetry
    BY <2>5 DEF EncryptionRetry, Fires, StartSubscribe, Subscribed, PublishStatus,
       EncryptionRequested
  <2> QED
    BY <1>5, <2>1, <2>2, <2>3, <2>4, <2>5 DEF SubscribeStep
<1>6. CASE OtherTimer
  <2>1. CASE VerbFallbackRetry
    BY <2>1 DEF VerbFallbackRetry, Fires, Noting, PublishStatus
  <2>2. CASE SubmitPinPoll
    BY <2>2 DEF SubmitPinPoll, Fires, Noting
  <2>3. CASE SessionRefresh
    BY <2>3 DEF SessionRefresh, Fires, HungUp
  <2>4. CASE SessionRefreshQuietExpired
    BY <2>4 DEF SessionRefreshQuietExpired, Fires, PublishStatus
  <2>5. CASE PairingBackoffOver
    BY <2>5 DEF PairingBackoffOver, Fires, PublishProgress, PublishStatus
  <2> QED
    BY <1>6, <2>1, <2>2, <2>3, <2>4, <2>5 DEF OtherTimer
<1>7. CASE PeriodicPollRefused
  BY <1>7 DEF PeriodicPollRefused, UnlockCmdUsed, PublishStatus, HungUp
<1>8. CASE PeriodicPoll
  BY <1>8 DEF PeriodicPoll, D6UnlockWritten, Noting
<1>9. CASE UserStep
  <2>1. CASE PressConnect
    BY <2>1 DEF PressConnect, ForgetSession, CancelPairingBackoff,
       WithoutTimeouts, Dialled
  <2>2. CASE PressDisconnect
    BY <2>2 DEF PressDisconnect, HungUp
  <2>3. CASE PressSubmitPin
    BY <2>3 DEF PressSubmitPin, UnlockCmdUsed, Noting, PublishStatus
  <2>4. CASE PressLogDebugInfo
    BY <2>4 DEF PressLogDebugInfo, PublishStatus, HungUp
  <2>5. CASE PressResetPairing
    BY <2>5 DEF PressResetPairing, ForgetSession, CancelPairingBackoff,
       WithoutTimeouts, PublishStatus, HungUp
  <2>6. ASSUME NEW pin \in Pins,
              SetStoredPin(pin)
       PROVE  SupervisedInv'
    BY <2>6 DEF SetStoredPin
  <2>7. CASE \/ PressStartPairing
            \/ PressPoll
            \/ WriteSetProperty
    BY <2>7 DEF PressStartPairing, PressPoll, WriteSetProperty,
       D6UnlockWritten, Noting
  <2> QED
    BY <1>9, <2>1, <2>2, <2>3, <2>4, <2>5, <2>6, <2>7 DEF UserStep
<1>10. CASE UNCHANGED vars
  BY <1>10 DEF vars
<1> QED
  BY <1>1, <1>2, <1>3, <1>4, <1>5, <1>6, <1>7, <1>8, <1>9, <1>10 DEF Next

LEMMA SupervisedInvariant ==
  ASSUME Unaided
  PROVE  Spec => []SupervisedInv
<1>1. Init => SupervisedInv
  BY DEF Init, LinkInit, SupervisedInv, HeardIfKnown
<1>2. TypeOK /\ HoldInv /\ ColdInv /\ FlowInv /\ SupervisedInv /\ [Next]_vars
        => SupervisedInv'
  BY SupervisedStep
<1> QED
  BY <1>1, <1>2, TypeCorrect, HoldInvariant, ColdInvariant, FlowInvariant, PTL
     DEF Spec

\* A live link with a PIN is never left alone.
THEOREM LiveLinksAreSupervised ==
  ASSUME Unaided
  PROVE  Spec => []LiveLinkIsSupervised
<1>1. SupervisedInv => LiveLinkIsSupervised
  BY DEF SupervisedInv, LiveLinkIsSupervised
<1> QED
  BY <1>1, SupervisedInvariant, PTL

\* A session in which the appliance has answered gets its refresh.
THEOREM UnlockedSessionsAreRefreshed ==
  ASSUME Unaided
  PROVE  Spec => []UnlockedSessionIsRefreshed
<1>1. SupervisedInv => UnlockedSessionIsRefreshed
  BY DEF SupervisedInv, UnlockedSessionIsRefreshed
<1> QED
  BY <1>1, SupervisedInvariant, PTL

\* A hub with no flow under way has unlocked the control channel, and D6, if it is
\* known, is registered or was found by the re-read after the subscribe
\* (subscribe_initial_get_), whatever retries and refusals led there.
THEOREM IdleLinksAreUnlocked ==
  ASSUME Unaided
  PROVE  Spec => []IdleLinkIsUnlocked
<1>1. SupervisedInv => IdleLinkIsUnlocked
  BY DEF SupervisedInv, HeardIfKnown, IdleLinkIsUnlocked
<1> QED
  BY <1>1, SupervisedInvariant, PTL

-----------------------------------------------------------------------------
(* What Status says of the link *)

\* The hub hangs up by itself only, and no streak of failed writes takes its handles.
Undisturbed ==
    Inputs \cap {"connect", "disconnect", "log_debug", "reset", "write_fail"} = {}

\* Whoever waits for the session refresh has found D6 or has given it up.
RefreshInv ==
    link # "closing" /\ "session_refresh" \in timers
        => "D6" \in handles \/ d6MissingStreak >= MaxD6RediscoverAttempts

\* PollingStatusIsCurrent is not inductive: handle_disconnected leaves Status alone
\* after an intended hang-up without handles.  A ladder that is still running
\* while the refresh hangs up may say "Connected and polling." once more; but it
\* runs with D5 known, and what makes a hub forget its handles for want of D6
\* does not happen to one that had its refresh armed.
PollingInv ==
    /\ PollingStatusIsCurrent
    /\ status = "polling" /\ intentional => HandlesCached \/ quiet
    /\ link = "closing" /\ intentional /\ timers \cap LadderTimers # {}
        => /\ phase = 1
           /\ timers \cap (SubscribeTimers \cup FastReconnectTimers) # {}
                => "D5" \in handles
           /\ "D6" \in handles \/ d6MissingStreak >= MaxD6RediscoverAttempts

LEMMA RefreshStep ==
  ASSUME TypeOK, ColdInv, RefreshInv, [Next]_vars
  PROVE  RefreshInv'
<1> USE HubAssumption, PollTimers DEF HubAssumption, TypeOK, FlagsOK,
        SetsOK, CountersOK, ColdInv, RefreshInv, MaybePins,
        LadderTimers, HandlesCached, WriteFails, RefusalCounts, LinkStates,
        Connected, HasConnection, Cancellable, PostBondTimers, SubscribeTimers,
        FastReconnectTimers, linkVars, ladderVars, pinVars, strikeVars,
        writeVars, statusVars
<1>1. CASE ConnectionEvent
  <2>1. CASE Dial
    BY <2>1 DEF Dial, Dialled
  <2>2. CASE ServicesFound
    BY <2>2 DEF ServicesFound, HandleConnected, StartPostBond, PublishStatus,
       PublishProgress
  <2>3. CASE SearchFailed
    BY <2>3 DEF SearchFailed, HandleDisconnected, CountDrop, AnnounceDrop,
       ConsumedIntent, WithoutTimeouts, NoteBondFailure, StruckOut
  <2>4. CASE ConnectionLost
    BY <2>4 DEF ConnectionLost, ConnectionGone, HandleDisconnected, CountDrop,
       AnnounceDrop, ConsumedIntent, WithoutTimeouts, NoteBondFailure,
       StruckOut
  <2> QED
    BY <1>1, <2>1, <2>2, <2>3, <2>4 DEF ConnectionEvent
<1>2. CASE SecurityEvent
  <2>1. CASE AuthSucceeded
    BY <2>1 DEF AuthSucceeded, StartSubscribe, PublishStatus
  <2>2. CASE AuthFailed
    BY <2>2 DEF AuthFailed, PairingRefused, NoteBondFailure, StruckOut,
       UpdatedHandles, Snapshots, PublishStatus, WithoutTimeouts, HungUp
  <2>3. CASE AuthRateLimited
    BY <2>3 DEF AuthRateLimited, PairingRefused, NoteBondFailure, StruckOut,
       UpdatedHandles, Snapshots, PublishStatus, WithoutTimeouts, HungUp,
       HungUpByDisabling, NextBackoff
  <2>4. CASE \/ Reencrypted
            \/ PasskeyRequested
    BY <2>4 DEF Reencrypted, PasskeyRequested
  <2> QED
    BY <1>2, <2>1, <2>2, <2>3, <2>4 DEF SecurityEvent
<1>3. CASE DataEvent
  <2>1. CASE WriteRejectedUnencrypted
    BY <2>1 DEF WriteRejectedUnencrypted, PublishStatus, HungUp
  <2>2. CASE WriteFailed
    BY <2>2 DEF WriteFailed, PublishStatus, HungUp
  <2>3. ASSUME NEW pin \in Pins,
              PollResponseReceived(pin)
       PROVE  RefreshInv'
    BY <2>3 DEF PollResponseReceived, MessageParsed, PublishStatus
  <2>4. CASE LackingProperties
    BY <2>4 DEF LackingProperties, PublishStatus
  <2>5. CASE \/ PushReceived
            \/ PairingRevoked
    BY <2>5 DEF PushReceived, MessageParsed, PairingRevoked, PublishStatus
  <2> QED
    BY <1>3, <2>1, <2>2, <2>3, <2>4, <2>5 DEF DataEvent
<1>4. CASE PostBondStep
  <2>1. ASSUME NEW snapshot \in Snapshots,
              PostBondInitial(snapshot)
       PROVE  RefreshInv'
    BY <2>1 DEF PostBondInitial, Fires, UpdatedHandles, Snapshots,
       EncryptionRequested, PublishStatus
  <2>2. CASE PostBondPostEncryption
    BY <2>2 DEF PostBondPostEncryption, Fires, StartSubscribe, PublishStatus
  <2>3. CASE PostBondTriggerSearch
    BY <2>3 DEF PostBondTriggerSearch, Fires, Noting
  <2>4. ASSUME NEW attempt \in PollAttempts, NEW snapshot \in Snapshots,
              PostBondPollAttempt(attempt, snapshot)
       PROVE  RefreshInv'
    BY <2>4 DEF PostBondPollAttempt, Fires, UpdatedHandles, Snapshots,
       StartSubscribe, PublishStatus, HungUp
  <2>5. CASE PostBondGiveup
    BY <2>5 DEF PostBondGiveup, Fires
  <2> QED
    BY <1>4, <2>1, <2>2, <2>3, <2>4, <2>5 DEF PostBondStep
<1>5. CASE SubscribeStep
  <2>1. CASE SubscribeUnlock
    BY <2>1 DEF SubscribeUnlock, Fires, PublishStatus, PublishProgress,
       UnlockCmdUsed, ChannelsUnlocked, Noting
  <2>2. ASSUME NEW snapshot \in Snapshots,
              SubscribeInitialGet(snapshot)
       PROVE  RefreshInv'
    BY <2>2 DEF SubscribeInitialGet, Fires, UpdatedHandles, Snapshots,
       StartPolling, RediscoverD6, ParkWithoutD6, PublishStatus, Noting, HungUp
  <2>3. CASE FastReconnectEncrypt
    BY <2>3 DEF FastReconnectEncrypt, Fires, EncryptionRequested
  <2>4. CASE FastReconnectSubscribe
    BY <2>4 DEF FastReconnectSubscribe, StartSubscribe, PublishStatus
  <2>5. CASE EncryptionRetry
    BY <2>5 DEF EncryptionRetry, Fires, StartSubscribe, PublishStatus,
       EncryptionRequested
  <2> QED
    BY <1>5, <2>1, <2>2, <2>3, <2>4, <2>5 DEF SubscribeStep
<1>6. CASE OtherTimer
  <2>1. CASE VerbFallbackRetry
    BY <2>1 DEF VerbFallbackRetry, Fires, Noting, PublishStatus
  <2>2. CASE SubmitPinPoll
    BY <2>2 DEF SubmitPinPoll, Fires, Noting
  <2>3. CASE SessionRefresh
    BY <2>3 DEF SessionRefresh, Fires, HungUp
  <2>4. CASE SessionRefreshQuietExpired
    BY <2>4 DEF SessionRefreshQuietExpired, Fires, PublishStatus
  <2>5. CASE PairingBackoffOver
    BY <2>5 DEF PairingBackoffOver, Fires, PublishProgress, PublishStatus
  <2> QED
    BY <1>6, <2>1, <2>2, <2>3, <2>4, <2>5 DEF OtherTimer
<1>7. CASE PeriodicPollRefused
  BY <1>7 DEF PeriodicPollRefused, UnlockCmdUsed, PublishStatus, HungUp
<1>8. CASE PeriodicPoll
  BY <1>8 DEF PeriodicPoll, D6UnlockWritten, Noting
<1>9. CASE UserStep
  <2>1. CASE PressConnect
    BY <2>1 DEF PressConnect, ForgetSession, CancelPairingBackoff,
       WithoutTimeouts, Dialled
  <2>2. CASE PressDisconnect
    BY <2>2 DEF PressDisconnect, HungUp
  <2>3. CASE PressSubmitPin
    BY <2>3 DEF PressSubmitPin, UnlockCmdUsed, Noting, PublishStatus
  <2>4. CASE PressLogDebugInfo
    BY <2>4 DEF PressLogDebugInfo, PublishStatus, HungUp
  <2>5. CASE PressResetPairing
    BY <2>5 DEF PressResetPairing, ForgetSession, CancelPairingBackoff,
       WithoutTimeouts, PublishStatus, HungUp
  <2>6. ASSUME NEW pin \in Pins,
              SetStoredPin(pin)
       PROVE  RefreshInv'
    BY <2>6 DEF SetStoredPin
  <2>7. CASE \/ PressStartPairing
            \/ PressPoll
            \/ WriteSetProperty
    BY <2>7 DEF PressStartPairing, PressPoll, WriteSetProperty,
       D6UnlockWritten, Noting
  <2> QED
    BY <1>9, <2>1, <2>2, <2>3, <2>4, <2>5, <2>6, <2>7 DEF UserStep
<1>10. CASE UNCHANGED vars
  BY <1>10 DEF vars
<1> QED
  BY <1>1, <1>2, <1>3, <1>4, <1>5, <1>6, <1>7, <1>8, <1>9, <1>10 DEF Next

LEMMA RefreshInvariant == Spec => []RefreshInv
<1>1. Init => RefreshInv
  BY DEF Init, LinkInit, RefreshInv
<1>2. TypeOK /\ ColdInv /\ RefreshInv /\ [Next]_vars => RefreshInv'
  BY RefreshStep
<1> QED
  BY <1>1, <1>2, TypeCorrect, ColdInvariant, PTL DEF Spec

LEMMA PollingStep ==
  ASSUME Undisturbed, TypeOK, HoldInv, ColdInv, FlowInv, IntentInv, RefreshInv,
         PollingInv, [Next]_vars
  PROVE  PollingInv'
<1> USE HubAssumption, PollTimers DEF HubAssumption, Undisturbed, TypeOK, FlagsOK,
        SetsOK, CountersOK, HoldInv, ColdInv, FlowInv, IntentInv, RefreshInv, PollingInv,
        PollingStatusIsCurrent, MaybePins,
        LadderTimers, HandlesCached, WriteFails, RefusalCounts, LinkStates,
        Connected, HasConnection, Cancellable, PostBondTimers, SubscribeTimers,
        FastReconnectTimers, linkVars, ladderVars, pinVars, strikeVars,
        writeVars, statusVars
<1>1. CASE ConnectionEvent
  <2>1. CASE Dial
    BY <2>1 DEF Dial, Dialled
  <2>2. CASE ServicesFound
    BY <2>2 DEF ServicesFound, HandleConnected, StartPostBond, PublishStatus,
       PublishProgress
  <2>3. CASE SearchFailed
    BY <2>3 DEF SearchFailed, HandleDisconnected, CountDrop, AnnounceDrop,
       ConsumedIntent, WithoutTimeouts, NoteBondFailure, StruckOut
  <2>4. CASE ConnectionLost
    BY <2>4 DEF ConnectionLost, ConnectionGone, HandleDisconnected, CountDrop,
       AnnounceDrop, ConsumedIntent, WithoutTimeouts, NoteBondFailure,
       StruckOut
  <2> QED
    BY <1>1, <2>1, <2>2, <2>3, <2>4 DEF ConnectionEvent
<1>2. CASE SecurityEvent
  <2>1. CASE AuthSucceeded
    BY <2>1 DEF AuthSucceeded, StartSubscribe, PublishStatus
  <2>2. CASE AuthFailed
    BY <2>2 DEF AuthFailed, PairingRefused, NoteBondFailure, StruckOut,
       UpdatedHandles, Snapshots, PublishStatus, WithoutTimeouts, HungUp
  <2>3. CASE AuthRateLimited
    BY <2>3 DEF AuthRateLimited, PairingRefused, NoteBondFailure, StruckOut,
       UpdatedHandles, Snapshots, PublishStatus, WithoutTimeouts, HungUp,
       HungUpByDisabling, NextBackoff
  <2>4. CASE Reencrypted
    BY <2>4 DEF Reencrypted
  <2>5. CASE PasskeyRequested
    BY <2>5 DEF PasskeyRequested, PublishStatus
  <2> QED
    BY <1>2, <2>1, <2>2, <2>3, <2>4, <2>5 DEF SecurityEvent
<1>3. CASE DataEvent
  <2>1. CASE WriteRejectedUnencrypted
    BY <2>1 DEF WriteRejectedUnencrypted, PublishStatus, HungUp
  <2>2. CASE WriteFailed
    BY <2>2 DEF WriteFailed, PublishStatus, HungUp
  <2>3. ASSUME NEW pin \in Pins,
              PollResponseReceived(pin)
       PROVE  PollingInv'
    BY <2>3 DEF PollResponseReceived, MessageParsed, PublishStatus
  <2>4. CASE LackingProperties
    BY <2>4 DEF LackingProperties, PublishStatus
  <2>5. CASE \/ PushReceived
            \/ PairingRevoked
    BY <2>5 DEF PushReceived, MessageParsed, PairingRevoked, PublishStatus
  <2> QED
    BY <1>3, <2>1, <2>2, <2>3, <2>4, <2>5 DEF DataEvent
<1>4. CASE PostBondStep
  <2>1. ASSUME NEW snapshot \in Snapshots,
              PostBondInitial(snapshot)
       PROVE  PollingInv'
    BY <2>1 DEF PostBondInitial, Fires, UpdatedHandles, Snapshots,
       EncryptionRequested, PublishStatus
  <2>2. CASE PostBondPostEncryption
    BY <2>2 DEF PostBondPostEncryption, Fires, StartSubscribe, PublishStatus
  <2>3. CASE PostBondTriggerSearch
    BY <2>3 DEF PostBondTriggerSearch, Fires, Noting
  <2>4. ASSUME NEW attempt \in PollAttempts, NEW snapshot \in Snapshots,
              PostBondPollAttempt(attempt, snapshot)
       PROVE  PollingInv'
    BY <2>4 DEF PostBondPollAttempt, Fires, UpdatedHandles, Snapshots,
       StartSubscribe, PublishStatus, HungUp
  <2>5. CASE PostBondGiveup
    BY <2>5 DEF PostBondGiveup, Fires
  <2> QED
    BY <1>4, <2>1, <2>2, <2>3, <2>4, <2>5 DEF PostBondStep
<1>5. CASE SubscribeStep
  <2>1. CASE SubscribeUnlock
    BY <2>1 DEF SubscribeUnlock, Fires, PublishStatus, PublishProgress,
       UnlockCmdUsed, ChannelsUnlocked, Noting
  <2>2. ASSUME NEW snapshot \in Snapshots,
              SubscribeInitialGet(snapshot)
       PROVE  PollingInv'
    BY <2>2 DEF SubscribeInitialGet, Fires, UpdatedHandles, Snapshots,
       StartPolling, RediscoverD6, ParkWithoutD6, PublishStatus, Noting, HungUp
  <2>3. CASE FastReconnectEncrypt
    BY <2>3 DEF FastReconnectEncrypt, Fires, EncryptionRequested
  <2>4. CASE FastReconnectSubscribe
    BY <2>4 DEF FastReconnectSubscribe, StartSubscribe, PublishStatus
  <2>5. CASE EncryptionRetry
    BY <2>5 DEF EncryptionRetry, Fires, StartSubscribe, PublishStatus,
       EncryptionRequested
  <2> QED
    BY <1>5, <2>1, <2>2, <2>3, <2>4, <2>5 DEF SubscribeStep
<1>6. CASE OtherTimer
  <2>1. CASE VerbFallbackRetry
    BY <2>1 DEF VerbFallbackRetry, Fires, Noting, PublishStatus
  <2>2. CASE SubmitPinPoll
    BY <2>2 DEF SubmitPinPoll, Fires, Noting
  <2>3. CASE SessionRefresh
    BY <2>3 DEF SessionRefresh, Fires, HungUp
  <2>4. CASE SessionRefreshQuietExpired
    BY <2>4 DEF SessionRefreshQuietExpired, Fires, PublishStatus
  <2>5. CASE PairingBackoffOver
    BY <2>5 DEF PairingBackoffOver, Fires, PublishProgress, PublishStatus
  <2> QED
    BY <1>6, <2>1, <2>2, <2>3, <2>4, <2>5 DEF OtherTimer
<1>7. CASE PeriodicPollRefused
  BY <1>7 DEF PeriodicPollRefused, UnlockCmdUsed, PublishStatus, HungUp
<1>8. CASE PeriodicPoll
  BY <1>8 DEF PeriodicPoll, D6UnlockWritten, Noting
<1>9. CASE UserStep
  <2>1. CASE PressConnect
    BY <2>1 DEF PressConnect, ForgetSession, CancelPairingBackoff,
       WithoutTimeouts, Dialled
  <2>2. CASE PressDisconnect
    BY <2>2 DEF PressDisconnect, HungUp
  <2>3. CASE PressSubmitPin
    BY <2>3 DEF PressSubmitPin, UnlockCmdUsed, Noting, PublishStatus
  <2>4. CASE PressLogDebugInfo
    BY <2>4 DEF PressLogDebugInfo, PublishStatus, HungUp
  <2>5. CASE PressResetPairing
    BY <2>5 DEF PressResetPairing, ForgetSession, CancelPairingBackoff,
       WithoutTimeouts, PublishStatus, HungUp
  <2>6. ASSUME NEW pin \in Pins,
              SetStoredPin(pin)
       PROVE  PollingInv'
    BY <2>6 DEF SetStoredPin
  <2>7. CASE \/ PressStartPairing
            \/ PressPoll
            \/ WriteSetProperty
    BY <2>7 DEF PressStartPairing, PressPoll, WriteSetProperty,
       D6UnlockWritten, Noting, PublishStatus
  <2> QED
    BY <1>9, <2>1, <2>2, <2>3, <2>4, <2>5, <2>6, <2>7 DEF UserStep
<1>10. CASE UNCHANGED vars
  BY <1>10 DEF vars
<1> QED
  BY <1>1, <1>2, <1>3, <1>4, <1>5, <1>6, <1>7, <1>8, <1>9, <1>10 DEF Next

\* "Connected and polling." is said of a live link, or of one that the session
\* refresh has just dropped, behind the mute, to open it again.
THEOREM PollingStatusStaysCurrent ==
  ASSUME Undisturbed
  PROVE  Spec => []PollingStatusIsCurrent
<1>1. Init => PollingInv
  BY DEF Init, LinkInit, PollingInv, PollingStatusIsCurrent
<1>2. TypeOK /\ HoldInv /\ ColdInv /\ FlowInv /\ IntentInv /\ RefreshInv
        /\ PollingInv /\ [Next]_vars => PollingInv'
  BY PollingStep
<1>3. NoUserHangUp
  BY DEF Undisturbed, NoUserHangUp
<1>4. PollingInv => PollingStatusIsCurrent
  BY DEF PollingInv
<1> QED
  BY <1>1, <1>2, <1>3, <1>4, TypeCorrect, HoldInvariant, ColdInvariant,
     FlowInvariant, IntentInvariant, RefreshInvariant, PTL DEF Spec

=============================================================================
