-------------------------- MODULE SubzeroHubProofs ---------------------------
(***************************************************************************)
(* Theorems about SubzeroHub: for every value of its constants, and for    *)
(* every order of events, timers and buttons.                              *)
(*                                                                         *)
(* For each invariant a lemma says that one step of the hub preserves it,  *)
(* with a step of the proof for every action that touches its variables    *)
(* and one for all the others; the theorem follows by temporal logic.      *)
(***************************************************************************)
EXTENDS SubzeroHub, TLAPS

-----------------------------------------------------------------------------
(* The names of the timers *)

LEMMA KnownTimers ==
  {"post_bond_initial", "post_bond_post_enc", "post_bond_search",
   "post_bond_poll_1", "post_bond_poll_2", "post_bond_poll_3",
   "post_bond_giveup", "subscribe_unlock", "subscribe_get", "fast_reconnect",
   "fast_reconnect_subscribe", "submit_pin_poll", "verb_fallback_retry",
   "session_refresh", "encryption_retry", "pairing_backoff",
   "session_refresh_quiet"} \subseteq TimerNames
  BY DEF TimerNames, Cancellable, PostBondTimers, SubscribeTimers,
         FastReconnectTimers

LEMMA PollTimers ==
  ASSUME NEW attempt \in PollAttempts
  PROVE  /\ attempt[1] \in PostBondTimers /\ attempt[1] \in TimerNames
         /\ attempt[2] \in PostBondTimers /\ attempt[2] \in TimerNames
  BY DEF PollAttempts, PostBondTimers, TimerNames, Cancellable

-----------------------------------------------------------------------------
(* Types.  The Boolean variables, the sets and texts, and the counters are *)
(* each inductive on their own.                                            *)

LEMMA FlagsStep ==
  ASSUME FlagsOK, [Next]_vars
  PROVE  FlagsOK'
<1> USE DEF FlagsOK, linkVars, ladderVars, pinVars, strikeVars, writeVars,
        statusVars
<1>1. CASE ConnectionEvent
  <2>1. CASE ServicesFound
    BY <2>1, Zenon DEF ServicesFound, HandleConnected, StartPostBond,
       PublishStatus, PublishProgress
  <2>2. CASE SearchFailed
    BY <2>2, Zenon DEF SearchFailed, HandleDisconnected, CountDrop,
       AnnounceDrop, ConsumedIntent, WithoutTimeouts, NoteBondFailure,
       StruckOut
  <2>3. CASE ConnectionLost
    BY <2>3, Zenon DEF ConnectionLost, ConnectionGone, HandleDisconnected,
       CountDrop, AnnounceDrop, ConsumedIntent, WithoutTimeouts,
       NoteBondFailure, StruckOut
  <2>4. CASE Dial
    BY <2>4, Zenon DEF Dial
  <2> QED
    BY <1>1, <2>1, <2>2, <2>3, <2>4 DEF ConnectionEvent
<1>2. CASE SecurityEvent
  <2>1. CASE AuthSucceeded
    BY <2>1, Zenon DEF AuthSucceeded, StartSubscribe, PublishStatus
  <2>2. CASE AuthFailed
    BY <2>2, Zenon DEF AuthFailed, PairingRefused, NoteBondFailure, StruckOut,
       UpdatedHandles, Snapshots, PublishStatus, WithoutTimeouts, HungUp
  <2>3. CASE AuthRateLimited
    BY <2>3, Zenon DEF AuthRateLimited, PairingRefused, NoteBondFailure,
       StruckOut, UpdatedHandles, Snapshots, PublishStatus, WithoutTimeouts,
       HungUp, HungUpByDisabling, NextBackoff
  <2>4. CASE PasskeyRequested
    BY <2>4, Zenon DEF PasskeyRequested, PublishStatus
  <2>5. CASE Reencrypted
    BY <2>5, Zenon DEF Reencrypted
  <2> QED
    BY <1>2, <2>1, <2>2, <2>3, <2>4, <2>5 DEF SecurityEvent
<1>3. CASE DataEvent
  <2>1. CASE WriteRejectedUnencrypted
    BY <2>1, Zenon DEF WriteRejectedUnencrypted, PublishStatus, HungUp
  <2>2. CASE WriteFailed
    BY <2>2, Zenon DEF WriteFailed, PublishStatus, HungUp
  <2>3. ASSUME NEW pin \in Pins,
              PollResponseReceived(pin)
       PROVE  FlagsOK'
    BY <2>3, Zenon DEF PollResponseReceived, MessageParsed, PublishStatus
  <2>4. CASE PairingRevoked
    BY <2>4, Zenon DEF PairingRevoked, PublishStatus
  <2>5. CASE LackingProperties
    BY <2>5, Zenon DEF LackingProperties, PublishStatus
  <2>6. CASE PushReceived
    BY <2>6, Zenon DEF PushReceived
  <2> QED
    BY <1>3, <2>1, <2>2, <2>3, <2>4, <2>5, <2>6 DEF DataEvent
<1>4. CASE PostBondStep
  <2>1. ASSUME NEW snapshot \in Snapshots,
              PostBondInitial(snapshot)
       PROVE  FlagsOK'
    BY <2>1, Zenon DEF PostBondInitial, Fires, UpdatedHandles, Snapshots,
       EncryptionRequested, PublishStatus
  <2>2. CASE PostBondPostEncryption
    BY <2>2, Zenon DEF PostBondPostEncryption, Fires, StartSubscribe,
       PublishStatus
  <2>3. ASSUME NEW attempt \in PollAttempts, NEW snapshot \in Snapshots,
              PostBondPollAttempt(attempt, snapshot)
       PROVE  FlagsOK'
    BY <2>3, Zenon DEF PostBondPollAttempt, Fires, UpdatedHandles, Snapshots,
       StartSubscribe, PublishStatus, HungUp
  <2>4. CASE \/ PostBondTriggerSearch
            \/ PostBondGiveup
    BY <2>4, Zenon DEF PostBondTriggerSearch, PostBondGiveup
  <2> QED
    BY <1>4, <2>1, <2>2, <2>3, <2>4 DEF PostBondStep
<1>5. CASE SubscribeStep
  <2>1. CASE SubscribeUnlock
    BY <2>1, Zenon DEF SubscribeUnlock, Fires, PublishStatus, PublishProgress,
       UnlockCmdUsed, ChannelsUnlocked, Noting
  <2>2. ASSUME NEW snapshot \in Snapshots,
              SubscribeInitialGet(snapshot)
       PROVE  FlagsOK'
    BY <2>2, Zenon DEF SubscribeInitialGet, Fires, UpdatedHandles, Snapshots,
       StartPolling, RediscoverD6, ParkWithoutD6, PublishStatus, Noting, HungUp
  <2>3. CASE FastReconnectSubscribe
    BY <2>3, Zenon DEF FastReconnectSubscribe, StartSubscribe, PublishStatus
  <2>4. CASE EncryptionRetry
    BY <2>4, Zenon DEF EncryptionRetry, Fires, StartSubscribe, PublishStatus,
       EncryptionRequested
  <2>5. CASE FastReconnectEncrypt
    BY <2>5, Zenon DEF FastReconnectEncrypt
  <2> QED
    BY <1>5, <2>1, <2>2, <2>3, <2>4, <2>5 DEF SubscribeStep
<1>6. CASE OtherTimer
  <2>1. CASE VerbFallbackRetry
    BY <2>1, Zenon DEF VerbFallbackRetry, Fires, Noting, PublishStatus
  <2>2. CASE SessionRefresh
    BY <2>2, Zenon DEF SessionRefresh, Fires, HungUp
  <2>3. CASE SessionRefreshQuietExpired
    BY <2>3, Zenon DEF SessionRefreshQuietExpired, Fires, PublishStatus
  <2>4. CASE PairingBackoffOver
    BY <2>4, Zenon DEF PairingBackoffOver, Fires, PublishProgress,
       PublishStatus
  <2>5. CASE SubmitPinPoll
    BY <2>5, Zenon DEF SubmitPinPoll
  <2> QED
    BY <1>6, <2>1, <2>2, <2>3, <2>4, <2>5 DEF OtherTimer
<1>7. CASE PeriodicPollRefused
  BY <1>7, Zenon DEF PeriodicPollRefused, UnlockCmdUsed, PublishStatus, HungUp
<1>8. CASE PeriodicPoll
  BY <1>8, Zenon DEF PeriodicPoll
<1>9. CASE UserStep
  <2>1. CASE PressConnect
    BY <2>1, Zenon DEF PressConnect, ForgetSession, CancelPairingBackoff,
       WithoutTimeouts, Dialled
  <2>2. CASE PressDisconnect
    BY <2>2, Zenon DEF PressDisconnect, HungUp
  <2>3. CASE PressStartPairing
    BY <2>3, Zenon DEF PressStartPairing, Noting, PublishStatus
  <2>4. CASE PressSubmitPin
    BY <2>4, Zenon DEF PressSubmitPin, UnlockCmdUsed, Noting, PublishStatus
  <2>5. CASE PressPoll
    BY <2>5, Zenon DEF PressPoll, UnlockCmdUsed, D6UnlockWritten, Noting,
       PublishStatus
  <2>6. CASE PressLogDebugInfo
    BY <2>6, Zenon DEF PressLogDebugInfo, PublishStatus, HungUp
  <2>7. CASE PressResetPairing
    BY <2>7, Zenon DEF PressResetPairing, ForgetSession, CancelPairingBackoff,
       WithoutTimeouts, PublishStatus, HungUp
  <2>8. ASSUME NEW pin \in Pins,
              SetStoredPin(pin)
       PROVE  FlagsOK'
    BY <2>8, Zenon DEF SetStoredPin
  <2>9. CASE WriteSetProperty
    BY <2>9, Zenon DEF WriteSetProperty
  <2> QED
    BY <1>9, <2>1, <2>2, <2>3, <2>4, <2>5, <2>6, <2>7, <2>8, <2>9 DEF UserStep
<1>10. CASE UNCHANGED vars
  BY <1>10, Zenon DEF vars
<1> QED
  BY <1>1, <1>2, <1>3, <1>4, <1>5, <1>6, <1>7, <1>8, <1>9, <1>10 DEF Next

LEMMA SetsStep ==
  ASSUME SetsOK, [Next]_vars
  PROVE  SetsOK'
<1> USE KnownTimers, PollTimers DEF SetsOK, LinkStates, SessionFacts, Chars,
        Flows, MaybePins, Statuses, linkVars, ladderVars, pinVars, strikeVars,
        writeVars, statusVars
<1>1. CASE ConnectionEvent
  <2>1. CASE Dial
    BY <2>1 DEF Dial, Dialled
  <2>2. CASE ServicesFound
    BY <2>2 DEF ServicesFound, HandleConnected, StartPostBond, PublishStatus,
       PublishProgress
  <2>3. CASE SearchFailed
    BY <2>3 DEF SearchFailed, HandleDisconnected, CountDrop, AnnounceDrop,
       ConsumedIntent, WithoutTimeouts, NoteBondFailure, StruckOut
  <2>4. CASE ConnectionLost
    BY <2>4 DEF ConnectionLost, ConnectionGone, HandleDisconnected, CountDrop,
       AnnounceDrop, ConsumedIntent, WithoutTimeouts, NoteBondFailure,
       StruckOut
  <2> QED
    BY <1>1, <2>1, <2>2, <2>3, <2>4 DEF ConnectionEvent
<1>2. CASE SecurityEvent
  <2>1. CASE Reencrypted
    BY <2>1 DEF Reencrypted
  <2>2. CASE AuthSucceeded
    BY <2>2 DEF AuthSucceeded, StartSubscribe, Subscribed, PublishStatus
  <2>3. CASE AuthFailed
    BY <2>3 DEF AuthFailed, PairingRefused, NoteBondFailure, StruckOut,
       UpdatedHandles, Snapshots, PublishStatus, WithoutTimeouts, HungUp
  <2>4. CASE AuthRateLimited
    BY <2>4 DEF AuthRateLimited, PairingRefused, NoteBondFailure, StruckOut,
       UpdatedHandles, Snapshots, PublishStatus, WithoutTimeouts, HungUp,
       HungUpByDisabling, NextBackoff
  <2>5. CASE PasskeyRequested
    BY <2>5 DEF PasskeyRequested, PublishStatus
  <2> QED
    BY <1>2, <2>1, <2>2, <2>3, <2>4, <2>5 DEF SecurityEvent
<1>3. CASE DataEvent
  <2>1. CASE WriteRejectedUnencrypted
    BY <2>1 DEF WriteRejectedUnencrypted, PublishStatus, HungUp
  <2>2. CASE WriteFailed
    BY <2>2 DEF WriteFailed, PublishStatus, HungUp
  <2>3. CASE PushReceived
    BY <2>3 DEF PushReceived, MessageParsed
  <2>4. ASSUME NEW pin \in Pins,
              PollResponseReceived(pin)
       PROVE  SetsOK'
    BY <2>4 DEF PollResponseReceived, MessageParsed, PublishStatus
  <2>5. CASE PairingRevoked
    BY <2>5 DEF PairingRevoked, PublishStatus
  <2>6. CASE LackingProperties
    BY <2>6 DEF LackingProperties, PublishStatus
  <2> QED
    BY <1>3, <2>1, <2>2, <2>3, <2>4, <2>5, <2>6 DEF DataEvent
<1>4. CASE PostBondStep
  <2>1. ASSUME NEW snapshot \in Snapshots,
              PostBondInitial(snapshot)
       PROVE  SetsOK'
    BY <2>1 DEF PostBondInitial, Fires, UpdatedHandles, Snapshots,
       EncryptionRequested, PublishStatus
  <2>2. CASE PostBondPostEncryption
    BY <2>2 DEF PostBondPostEncryption, Fires, StartSubscribe, Subscribed,
       PublishStatus
  <2>3. CASE PostBondTriggerSearch
    BY <2>3 DEF PostBondTriggerSearch, Fires, Noting
  <2>4. ASSUME NEW attempt \in PollAttempts, NEW snapshot \in Snapshots,
              PostBondPollAttempt(attempt, snapshot)
       PROVE  SetsOK'
    BY <2>4 DEF PostBondPollAttempt, Fires, UpdatedHandles, Snapshots,
       StartSubscribe, Subscribed, PublishStatus, HungUp
  <2>5. CASE PostBondGiveup
    BY <2>5 DEF PostBondGiveup, Fires
  <2> QED
    BY <1>4, <2>1, <2>2, <2>3, <2>4, <2>5 DEF PostBondStep
<1>5. CASE SubscribeStep
  <2>1. CASE SubscribeUnlock
    BY <2>1 DEF SubscribeUnlock, Fires, PublishStatus, PublishProgress,
       UnlockCmdUsed, ChannelsUnlocked, Noting
  <2>2. ASSUME NEW snapshot \in Snapshots,
              SubscribeInitialGet(snapshot)
       PROVE  SetsOK'
    BY <2>2 DEF SubscribeInitialGet, Fires, UpdatedHandles, Snapshots,
       StartPolling, FoundLate, RediscoverD6, ParkWithoutD6, PublishStatus,
       Noting, HungUp
  <2>3. CASE FastReconnectEncrypt
    BY <2>3 DEF FastReconnectEncrypt, Fires, EncryptionRequested
  <2>4. CASE FastReconnectSubscribe
    BY <2>4 DEF FastReconnectSubscribe, StartSubscribe, Subscribed, PublishStatus
  <2>5. CASE EncryptionRetry
    BY <2>5 DEF EncryptionRetry, Fires, StartSubscribe, Subscribed, PublishStatus,
       EncryptionRequested
  <2> QED
    BY <1>5, <2>1, <2>2, <2>3, <2>4, <2>5 DEF SubscribeStep
<1>6. CASE OtherTimer
  <2>1. CASE VerbFallbackRetry
    BY <2>1 DEF VerbFallbackRetry, Fires, Noting, PublishStatus
  <2>2. CASE SubmitPinPoll
    BY <2>2 DEF SubmitPinPoll, Fires, Noting
  <2>3. CASE SessionRefresh
    BY <2>3 DEF SessionRefresh, Fires, HungUp
  <2>4. CASE SessionRefreshQuietExpired
    BY <2>4 DEF SessionRefreshQuietExpired, Fires, PublishStatus
  <2>5. CASE PairingBackoffOver
    BY <2>5 DEF PairingBackoffOver, Fires, PublishProgress, PublishStatus
  <2> QED
    BY <1>6, <2>1, <2>2, <2>3, <2>4, <2>5 DEF OtherTimer
<1>7. CASE PeriodicPoll
  BY <1>7 DEF PeriodicPoll, UnlockCmdUsed, D6UnlockWritten, Noting
<1>8. CASE PeriodicPollRefused
  BY <1>8 DEF PeriodicPollRefused, UnlockCmdUsed, PublishStatus, HungUp
<1>9. CASE UserStep
  <2>1. CASE PressConnect
    BY <2>1 DEF PressConnect, ForgetSession, CancelPairingBackoff,
       WithoutTimeouts, Dialled
  <2>2. CASE PressDisconnect
    BY <2>2 DEF PressDisconnect, HungUp
  <2>3. CASE PressStartPairing
    BY <2>3 DEF PressStartPairing, Noting, PublishStatus
  <2>4. CASE PressSubmitPin
    BY <2>4 DEF PressSubmitPin, UnlockCmdUsed, Noting, PublishStatus
  <2>5. CASE PressPoll
    BY <2>5 DEF PressPoll, UnlockCmdUsed, D6UnlockWritten, Noting,
       PublishStatus
  <2>6. CASE PressLogDebugInfo
    BY <2>6 DEF PressLogDebugInfo, PublishStatus, HungUp
  <2>7. CASE PressResetPairing
    BY <2>7 DEF PressResetPairing, ForgetSession, CancelPairingBackoff,
       WithoutTimeouts, PublishStatus, HungUp
  <2>8. ASSUME NEW pin \in Pins,
              SetStoredPin(pin)
       PROVE  SetsOK'
    BY <2>8 DEF SetStoredPin
  <2>9. CASE WriteSetProperty
    BY <2>9 DEF WriteSetProperty, Noting
  <2> QED
    BY <1>9, <2>1, <2>2, <2>3, <2>4, <2>5, <2>6, <2>7, <2>8, <2>9 DEF UserStep
<1>10. CASE UNCHANGED vars
  BY <1>10 DEF vars
<1> QED
  BY <1>1, <1>2, <1>3, <1>4, <1>5, <1>6, <1>7, <1>8, <1>9, <1>10 DEF Next

LEMMA CountersStep ==
  ASSUME CountersOK, [Next]_vars
  PROVE  CountersOK'
<1> USE HubAssumption DEF HubAssumption, CountersOK, linkVars, ladderVars,
        pinVars, strikeVars, writeVars, statusVars
<1>1. CASE ConnectionEvent
  <2>1. CASE Dial
    BY <2>1 DEF Dial, Dialled
  <2>2. CASE ServicesFound
    BY <2>2 DEF ServicesFound, HandleConnected, StartPostBond, PublishStatus,
       PublishProgress
  <2>3. CASE SearchFailed
    BY <2>3 DEF SearchFailed, HandleDisconnected, CountDrop, AnnounceDrop,
       ConsumedIntent, WithoutTimeouts, NoteBondFailure, StruckOut
  <2>4. CASE ConnectionLost
    BY <2>4 DEF ConnectionLost, ConnectionGone, HandleDisconnected, CountDrop,
       AnnounceDrop, ConsumedIntent, WithoutTimeouts, NoteBondFailure,
       StruckOut
  <2> QED
    BY <1>1, <2>1, <2>2, <2>3, <2>4 DEF ConnectionEvent
<1>2. CASE SecurityEvent
  <2>1. CASE AuthSucceeded
    BY <2>1 DEF AuthSucceeded, StartSubscribe, PublishStatus
  <2>2. CASE AuthFailed
    BY <2>2 DEF AuthFailed, PairingRefused, NoteBondFailure, StruckOut,
       UpdatedHandles, Snapshots, PublishStatus, WithoutTimeouts, HungUp
  <2>3. CASE AuthRateLimited
    BY <2>3 DEF AuthRateLimited, PairingRefused, NoteBondFailure, StruckOut,
       UpdatedHandles, Snapshots, PublishStatus, WithoutTimeouts, HungUp,
       HungUpByDisabling, NextBackoff
  <2>4. CASE \/ Reencrypted
            \/ PasskeyRequested
    BY <2>4 DEF Reencrypted, PasskeyRequested
  <2> QED
    BY <1>2, <2>1, <2>2, <2>3, <2>4 DEF SecurityEvent
<1>3. CASE DataEvent
  <2>1. CASE WriteRejectedUnencrypted
    BY <2>1 DEF WriteRejectedUnencrypted, PublishStatus, HungUp
  <2>2. CASE WriteFailed
    BY <2>2 DEF WriteFailed, PublishStatus, HungUp
  <2>3. CASE PushReceived
    BY <2>3 DEF PushReceived, MessageParsed
  <2>4. ASSUME NEW pin \in Pins,
              PollResponseReceived(pin)
       PROVE  CountersOK'
    BY <2>4 DEF PollResponseReceived, MessageParsed, PublishStatus
  <2>5. CASE \/ PairingRevoked
            \/ LackingProperties
    BY <2>5 DEF PairingRevoked, LackingProperties
  <2> QED
    BY <1>3, <2>1, <2>2, <2>3, <2>4, <2>5 DEF DataEvent
<1>4. CASE PostBondStep
  <2>1. ASSUME NEW snapshot \in Snapshots,
              PostBondInitial(snapshot)
       PROVE  CountersOK'
    BY <2>1 DEF PostBondInitial
  <2>2. ASSUME NEW attempt \in PollAttempts, NEW snapshot \in Snapshots,
              PostBondPollAttempt(attempt, snapshot)
       PROVE  CountersOK'
    BY <2>2 DEF PostBondPollAttempt, Fires, UpdatedHandles, Snapshots,
       StartSubscribe, PublishStatus, HungUp
  <2>3. CASE \/ PostBondPostEncryption
            \/ PostBondTriggerSearch
            \/ PostBondGiveup
    BY <2>3 DEF PostBondPostEncryption, PostBondTriggerSearch, PostBondGiveup
  <2> QED
    BY <1>4, <2>1, <2>2, <2>3 DEF PostBondStep
<1>5. CASE SubscribeStep
  <2>1. ASSUME NEW snapshot \in Snapshots,
              SubscribeInitialGet(snapshot)
       PROVE  CountersOK'
    BY <2>1 DEF SubscribeInitialGet, Fires, UpdatedHandles, Snapshots,
       StartPolling, RediscoverD6, ParkWithoutD6, PublishStatus, Noting, HungUp
  <2>2. CASE \/ SubscribeUnlock
            \/ FastReconnectEncrypt
            \/ FastReconnectSubscribe
            \/ EncryptionRetry
    BY <2>2 DEF SubscribeUnlock, FastReconnectEncrypt, FastReconnectSubscribe,
       EncryptionRetry
  <2> QED
    BY <1>5, <2>1, <2>2 DEF SubscribeStep
<1>6. CASE OtherTimer
  BY <1>6 DEF OtherTimer, VerbFallbackRetry, SubmitPinPoll, SessionRefresh,
     SessionRefreshQuietExpired, PairingBackoffOver
<1>7. CASE PeriodicPoll \/ PeriodicPollRefused
  BY <1>7 DEF PeriodicPoll, PeriodicPollRefused
<1>8. CASE UserStep
  <2>1. CASE PressConnect
    BY <2>1 DEF PressConnect, ForgetSession, CancelPairingBackoff,
       WithoutTimeouts, Dialled
  <2>2. CASE PressResetPairing
    BY <2>2 DEF PressResetPairing, ForgetSession, CancelPairingBackoff,
       WithoutTimeouts, PublishStatus, HungUp
  <2>3. ASSUME NEW pin \in Pins,
              SetStoredPin(pin)
       PROVE  CountersOK'
    BY <2>3 DEF SetStoredPin
  <2>4. CASE \/ PressDisconnect
            \/ PressStartPairing
            \/ PressSubmitPin
            \/ PressPoll
            \/ PressLogDebugInfo
            \/ WriteSetProperty
    BY <2>4 DEF PressDisconnect, PressStartPairing, PressSubmitPin, PressPoll,
       PressLogDebugInfo, WriteSetProperty
  <2> QED
    BY <1>8, <2>1, <2>2, <2>3, <2>4 DEF UserStep
<1>9. CASE UNCHANGED vars
  BY <1>9 DEF vars
<1> QED
  BY <1>1, <1>2, <1>3, <1>4, <1>5, <1>6, <1>7, <1>8, <1>9 DEF Next

LEMMA TypeStep ==
  ASSUME TypeOK, [Next]_vars
  PROVE  TypeOK'
  BY FlagsStep, SetsStep, CountersStep DEF TypeOK

\* Every variable keeps its type, and every counter of hub.cpp stays below the
\* threshold that resets it: a strike count, a write failure streak, a retry
\* count or a back-off beyond its limit is never stored.
THEOREM TypeCorrect == Spec => []TypeOK
<1>1. Init => TypeOK
  <2> SUFFICES ASSUME Init PROVE TypeOK
    OBVIOUS
  <2>1. FlagsOK
    BY Zenon DEF Init, LinkInit, FlagsOK
  <2>2. SetsOK
    BY DEF Init, LinkInit, SetsOK, LinkStates, Statuses, MaybePins
  <2>3. CountersOK
    BY HubAssumption DEF Init, CountersOK, HubAssumption
  <2> QED
    BY <2>1, <2>2, <2>3 DEF TypeOK
<1>2. TypeOK /\ [Next]_vars => TypeOK'
  BY TypeStep
<1> QED
  BY <1>1, <1>2, PTL DEF Spec

-----------------------------------------------------------------------------
(* The encryption retry *)

LEMMA RetryStep ==
  ASSUME FlagsOK, RetryFlagMatchesTimer, [Next]_vars
  PROVE  RetryFlagMatchesTimer'
<1> USE PollTimers DEF FlagsOK, RetryFlagMatchesTimer, Cancellable,
        PostBondTimers, SubscribeTimers, FastReconnectTimers, linkVars,
        ladderVars, pinVars, strikeVars, writeVars, statusVars
<1>1. CASE ConnectionEvent
  <2>1. CASE ServicesFound
    BY <2>1 DEF ServicesFound, HandleConnected, StartPostBond, PublishStatus,
       PublishProgress
  <2>2. CASE SearchFailed
    BY <2>2 DEF SearchFailed, HandleDisconnected, CountDrop, AnnounceDrop,
       ConsumedIntent, WithoutTimeouts, NoteBondFailure, StruckOut
  <2>3. CASE ConnectionLost
    BY <2>3 DEF ConnectionLost, ConnectionGone, HandleDisconnected, CountDrop,
       AnnounceDrop, ConsumedIntent, WithoutTimeouts, NoteBondFailure,
       StruckOut
  <2>4. CASE Dial
    BY <2>4 DEF Dial
  <2> QED
    BY <1>1, <2>1, <2>2, <2>3, <2>4 DEF ConnectionEvent
<1>2. CASE SecurityEvent
  <2>1. CASE AuthSucceeded
    BY <2>1 DEF AuthSucceeded, StartSubscribe, PublishStatus
  <2>2. CASE AuthFailed
    BY <2>2 DEF AuthFailed, PairingRefused, NoteBondFailure, StruckOut,
       UpdatedHandles, Snapshots, PublishStatus, WithoutTimeouts, HungUp
  <2>3. CASE AuthRateLimited
    BY <2>3 DEF AuthRateLimited, PairingRefused, NoteBondFailure, StruckOut,
       UpdatedHandles, Snapshots, PublishStatus, WithoutTimeouts, HungUp,
       HungUpByDisabling, NextBackoff
  <2>4. CASE \/ Reencrypted
            \/ PasskeyRequested
    BY <2>4 DEF Reencrypted, PasskeyRequested
  <2> QED
    BY <1>2, <2>1, <2>2, <2>3, <2>4 DEF SecurityEvent
<1>3. CASE DataEvent
  <2>1. CASE WriteRejectedUnencrypted
    BY <2>1 DEF WriteRejectedUnencrypted, PublishStatus, HungUp
  <2>2. ASSUME NEW pin \in Pins,
              PollResponseReceived(pin)
       PROVE  RetryFlagMatchesTimer'
    BY <2>2 DEF PollResponseReceived
  <2>3. CASE LackingProperties
    BY <2>3 DEF LackingProperties, PublishStatus
  <2>4. CASE \/ WriteFailed
            \/ PushReceived
            \/ PairingRevoked
    BY <2>4 DEF WriteFailed, PushReceived, PairingRevoked
  <2> QED
    BY <1>3, <2>1, <2>2, <2>3, <2>4 DEF DataEvent
<1>4. CASE PostBondStep
  <2>1. ASSUME NEW snapshot \in Snapshots,
              PostBondInitial(snapshot)
       PROVE  RetryFlagMatchesTimer'
    BY <2>1 DEF PostBondInitial, Fires, UpdatedHandles, Snapshots,
       EncryptionRequested, PublishStatus
  <2>2. CASE PostBondPostEncryption
    BY <2>2 DEF PostBondPostEncryption, Fires, StartSubscribe, PublishStatus
  <2>3. CASE PostBondTriggerSearch
    BY <2>3 DEF PostBondTriggerSearch, Fires, Noting
  <2>4. ASSUME NEW attempt \in PollAttempts, NEW snapshot \in Snapshots,
              PostBondPollAttempt(attempt, snapshot)
       PROVE  RetryFlagMatchesTimer'
    BY <2>4 DEF PostBondPollAttempt, Fires, UpdatedHandles, Snapshots,
       StartSubscribe, PublishStatus, HungUp
  <2>5. CASE PostBondGiveup
    BY <2>5 DEF PostBondGiveup, Fires
  <2> QED
    BY <1>4, <2>1, <2>2, <2>3, <2>4, <2>5 DEF PostBondStep
<1>5. CASE SubscribeStep
  <2>1. CASE SubscribeUnlock
    BY <2>1 DEF SubscribeUnlock, Fires, PublishStatus, PublishProgress,
       UnlockCmdUsed, ChannelsUnlocked, Noting
  <2>2. ASSUME NEW snapshot \in Snapshots,
              SubscribeInitialGet(snapshot)
       PROVE  RetryFlagMatchesTimer'
    BY <2>2 DEF SubscribeInitialGet, Fires, UpdatedHandles, Snapshots,
       StartPolling, RediscoverD6, ParkWithoutD6, PublishStatus, Noting, HungUp
  <2>3. CASE FastReconnectEncrypt
    BY <2>3 DEF FastReconnectEncrypt, Fires, EncryptionRequested
  <2>4. CASE FastReconnectSubscribe
    BY <2>4 DEF FastReconnectSubscribe, StartSubscribe, PublishStatus
  <2>5. CASE EncryptionRetry
    BY <2>5 DEF EncryptionRetry, Fires, StartSubscribe, PublishStatus,
       EncryptionRequested
  <2> QED
    BY <1>5, <2>1, <2>2, <2>3, <2>4, <2>5 DEF SubscribeStep
<1>6. CASE OtherTimer
  <2>1. CASE VerbFallbackRetry
    BY <2>1 DEF VerbFallbackRetry, Fires, Noting, PublishStatus
  <2>2. CASE SubmitPinPoll
    BY <2>2 DEF SubmitPinPoll, Fires, Noting
  <2>3. CASE SessionRefresh
    BY <2>3 DEF SessionRefresh, Fires, HungUp
  <2>4. CASE SessionRefreshQuietExpired
    BY <2>4 DEF SessionRefreshQuietExpired, Fires, PublishStatus
  <2>5. CASE PairingBackoffOver
    BY <2>5 DEF PairingBackoffOver, Fires, PublishProgress, PublishStatus
  <2> QED
    BY <1>6, <2>1, <2>2, <2>3, <2>4, <2>5 DEF OtherTimer
<1>7. CASE PeriodicPoll \/ PeriodicPollRefused
  BY <1>7 DEF PeriodicPoll, PeriodicPollRefused
<1>8. CASE UserStep
  <2>1. CASE PressConnect
    BY <2>1 DEF PressConnect, ForgetSession, CancelPairingBackoff,
       WithoutTimeouts, Dialled
  <2>2. CASE PressSubmitPin
    BY <2>2 DEF PressSubmitPin, UnlockCmdUsed, Noting, PublishStatus
  <2>3. CASE PressResetPairing
    BY <2>3 DEF PressResetPairing, ForgetSession, CancelPairingBackoff,
       WithoutTimeouts, PublishStatus, HungUp
  <2>4. ASSUME NEW pin \in Pins,
              SetStoredPin(pin)
       PROVE  RetryFlagMatchesTimer'
    BY <2>4 DEF SetStoredPin
  <2>5. CASE \/ PressDisconnect
            \/ PressStartPairing
            \/ PressPoll
            \/ PressLogDebugInfo
            \/ WriteSetProperty
    BY <2>5 DEF PressDisconnect, PressStartPairing, PressPoll,
       PressLogDebugInfo, WriteSetProperty
  <2> QED
    BY <1>8, <2>1, <2>2, <2>3, <2>4, <2>5 DEF UserStep
<1>9. CASE UNCHANGED vars
  BY <1>9 DEF vars
<1> QED
  BY <1>1, <1>2, <1>3, <1>4, <1>5, <1>6, <1>7, <1>8, <1>9 DEF Next

\* enc_retry_pending_ is set exactly while the retry's timer is pending: no
\* handler, of those that cancel the timer, set it again or clear the flag,
\* forgets the other half, so handle_write_failed is never deaf for good.
THEOREM RetryFlagIsExact == Spec => []RetryFlagMatchesTimer
<1>1. Init => RetryFlagMatchesTimer
  BY DEF Init, RetryFlagMatchesTimer
<1>2. TypeOK /\ RetryFlagMatchesTimer /\ [Next]_vars => RetryFlagMatchesTimer'
  BY RetryStep DEF TypeOK
<1> QED
  BY <1>1, <1>2, TypeCorrect, PTL DEF Spec

-----------------------------------------------------------------------------
(* The mute of the session refresh *)

LEMMA MuteStep ==
  ASSUME FlagsOK, MuteHasWatchdog, [Next]_vars
  PROVE  MuteHasWatchdog'
<1> USE PollTimers DEF FlagsOK, MuteHasWatchdog, Cancellable, PostBondTimers,
        SubscribeTimers, FastReconnectTimers, linkVars, ladderVars, pinVars,
        strikeVars, writeVars, statusVars
<1>1. CASE ConnectionEvent
  <2>1. CASE ServicesFound
    BY <2>1 DEF ServicesFound, HandleConnected, StartPostBond, PublishStatus,
       PublishProgress
  <2>2. CASE SearchFailed
    BY <2>2 DEF SearchFailed, HandleDisconnected, CountDrop, AnnounceDrop,
       ConsumedIntent, WithoutTimeouts, NoteBondFailure, StruckOut
  <2>3. CASE ConnectionLost
    BY <2>3 DEF ConnectionLost, ConnectionGone, HandleDisconnected, CountDrop,
       AnnounceDrop, ConsumedIntent, WithoutTimeouts, NoteBondFailure,
       StruckOut
  <2>4. CASE Dial
    BY <2>4 DEF Dial
  <2> QED
    BY <1>1, <2>1, <2>2, <2>3, <2>4 DEF ConnectionEvent
<1>2. CASE SecurityEvent
  <2>1. CASE AuthSucceeded
    BY <2>1 DEF AuthSucceeded, StartSubscribe, PublishStatus
  <2>2. CASE AuthFailed
    BY <2>2 DEF AuthFailed, PairingRefused, NoteBondFailure, StruckOut,
       UpdatedHandles, Snapshots, PublishStatus, WithoutTimeouts, HungUp
  <2>3. CASE AuthRateLimited
    BY <2>3 DEF AuthRateLimited, PairingRefused, NoteBondFailure, StruckOut,
       UpdatedHandles, Snapshots, PublishStatus, WithoutTimeouts, HungUp,
       HungUpByDisabling, NextBackoff
  <2>4. CASE PasskeyRequested
    BY <2>4 DEF PasskeyRequested, PublishStatus
  <2>5. CASE Reencrypted
    BY <2>5 DEF Reencrypted
  <2> QED
    BY <1>2, <2>1, <2>2, <2>3, <2>4, <2>5 DEF SecurityEvent
<1>3. CASE DataEvent
  <2>1. CASE WriteRejectedUnencrypted
    BY <2>1 DEF WriteRejectedUnencrypted, PublishStatus, HungUp
  <2>2. CASE WriteFailed
    BY <2>2 DEF WriteFailed, PublishStatus, HungUp
  <2>3. ASSUME NEW pin \in Pins,
              PollResponseReceived(pin)
       PROVE  MuteHasWatchdog'
    BY <2>3 DEF PollResponseReceived, MessageParsed, PublishStatus
  <2>4. CASE PairingRevoked
    BY <2>4 DEF PairingRevoked, PublishStatus
  <2>5. CASE LackingProperties
    BY <2>5 DEF LackingProperties, PublishStatus
  <2>6. CASE PushReceived
    BY <2>6 DEF PushReceived
  <2> QED
    BY <1>3, <2>1, <2>2, <2>3, <2>4, <2>5, <2>6 DEF DataEvent
<1>4. CASE PostBondStep
  <2>1. ASSUME NEW snapshot \in Snapshots,
              PostBondInitial(snapshot)
       PROVE  MuteHasWatchdog'
    BY <2>1 DEF PostBondInitial, Fires, UpdatedHandles, Snapshots,
       EncryptionRequested, PublishStatus
  <2>2. CASE PostBondPostEncryption
    BY <2>2 DEF PostBondPostEncryption, Fires, StartSubscribe, PublishStatus
  <2>3. CASE PostBondTriggerSearch
    BY <2>3 DEF PostBondTriggerSearch, Fires, Noting
  <2>4. ASSUME NEW attempt \in PollAttempts, NEW snapshot \in Snapshots,
              PostBondPollAttempt(attempt, snapshot)
       PROVE  MuteHasWatchdog'
    BY <2>4 DEF PostBondPollAttempt, Fires, UpdatedHandles, Snapshots,
       StartSubscribe, PublishStatus, HungUp
  <2>5. CASE PostBondGiveup
    BY <2>5 DEF PostBondGiveup, Fires
  <2> QED
    BY <1>4, <2>1, <2>2, <2>3, <2>4, <2>5 DEF PostBondStep
<1>5. CASE SubscribeStep
  <2>1. CASE SubscribeUnlock
    BY <2>1 DEF SubscribeUnlock, Fires, PublishStatus, PublishProgress,
       UnlockCmdUsed, ChannelsUnlocked, Noting
  <2>2. ASSUME NEW snapshot \in Snapshots,
              SubscribeInitialGet(snapshot)
       PROVE  MuteHasWatchdog'
    BY <2>2 DEF SubscribeInitialGet, Fires, UpdatedHandles, Snapshots,
       StartPolling, RediscoverD6, ParkWithoutD6, PublishStatus, Noting, HungUp
  <2>3. CASE FastReconnectEncrypt
    BY <2>3 DEF FastReconnectEncrypt, Fires, EncryptionRequested
  <2>4. CASE FastReconnectSubscribe
    BY <2>4 DEF FastReconnectSubscribe, StartSubscribe, PublishStatus
  <2>5. CASE EncryptionRetry
    BY <2>5 DEF EncryptionRetry, Fires, StartSubscribe, PublishStatus,
       EncryptionRequested
  <2> QED
    BY <1>5, <2>1, <2>2, <2>3, <2>4, <2>5 DEF SubscribeStep
<1>6. CASE OtherTimer
  <2>1. CASE VerbFallbackRetry
    BY <2>1 DEF VerbFallbackRetry, Fires, Noting, PublishStatus
  <2>2. CASE SubmitPinPoll
    BY <2>2 DEF SubmitPinPoll, Fires, Noting
  <2>3. CASE SessionRefresh
    BY <2>3 DEF SessionRefresh, Fires, HungUp
  <2>4. CASE SessionRefreshQuietExpired
    BY <2>4 DEF SessionRefreshQuietExpired, Fires, PublishStatus
  <2>5. CASE PairingBackoffOver
    BY <2>5 DEF PairingBackoffOver, Fires, PublishProgress, PublishStatus
  <2> QED
    BY <1>6, <2>1, <2>2, <2>3, <2>4, <2>5 DEF OtherTimer
<1>7. CASE PeriodicPollRefused
  BY <1>7 DEF PeriodicPollRefused, UnlockCmdUsed, PublishStatus, HungUp
<1>8. CASE PeriodicPoll
  BY <1>8 DEF PeriodicPoll
<1>9. CASE UserStep
  <2>1. CASE PressConnect
    BY <2>1 DEF PressConnect, ForgetSession, CancelPairingBackoff,
       WithoutTimeouts, Dialled
  <2>2. CASE PressStartPairing
    BY <2>2 DEF PressStartPairing, Noting, PublishStatus
  <2>3. CASE PressSubmitPin
    BY <2>3 DEF PressSubmitPin, UnlockCmdUsed, Noting, PublishStatus
  <2>4. CASE PressPoll
    BY <2>4 DEF PressPoll, UnlockCmdUsed, D6UnlockWritten, Noting,
       PublishStatus
  <2>5. CASE PressLogDebugInfo
    BY <2>5 DEF PressLogDebugInfo, PublishStatus, HungUp
  <2>6. CASE PressResetPairing
    BY <2>6 DEF PressResetPairing, ForgetSession, CancelPairingBackoff,
       WithoutTimeouts, PublishStatus, HungUp
  <2>7. ASSUME NEW pin \in Pins,
              SetStoredPin(pin)
       PROVE  MuteHasWatchdog'
    BY <2>7 DEF SetStoredPin
  <2>8. CASE \/ PressDisconnect
            \/ WriteSetProperty
    BY <2>8 DEF PressDisconnect, WriteSetProperty
  <2> QED
    BY <1>9, <2>1, <2>2, <2>3, <2>4, <2>5, <2>6, <2>7, <2>8 DEF UserStep
<1>10. CASE UNCHANGED vars
  BY <1>10 DEF vars
<1> QED
  BY <1>1, <1>2, <1>3, <1>4, <1>5, <1>6, <1>7, <1>8, <1>9, <1>10 DEF Next

\* The progress texts are muted only while the watchdog is pending that ends
\* the mute, whatever disconnects, resets and late events happen meanwhile.
THEOREM MuteEnds == Spec => []MuteHasWatchdog
<1>1. Init => MuteHasWatchdog
  BY DEF Init, MuteHasWatchdog
<1>2. TypeOK /\ MuteHasWatchdog /\ [Next]_vars => MuteHasWatchdog'
  BY MuteStep DEF TypeOK
<1> QED
  BY <1>1, <1>2, TypeCorrect, PTL DEF Spec

-----------------------------------------------------------------------------
(* The cached unlock command *)

LEMMA UnlockStep ==
  ASSUME UnlockCommandIsCurrent, [Next]_vars
  PROVE  UnlockCommandIsCurrent'
<1> USE DEF UnlockCommandIsCurrent, UnlockCmdUsed, linkVars, ladderVars,
        pinVars, strikeVars, writeVars, statusVars
<1>1. CASE ConnectionEvent
  BY <1>1 DEF ConnectionEvent, Dial, ServicesFound, SearchFailed,
     ConnectionLost
<1>2. CASE SecurityEvent
  BY <1>2 DEF SecurityEvent, Reencrypted, AuthSucceeded, AuthFailed,
     AuthRateLimited, PasskeyRequested
<1>3. CASE DataEvent
  <2>1. ASSUME NEW pin \in Pins,
              PollResponseReceived(pin)
       PROVE  UnlockCommandIsCurrent'
    BY <2>1 DEF PollResponseReceived, MessageParsed, PublishStatus
  <2>2. CASE \/ WriteRejectedUnencrypted
            \/ WriteFailed
            \/ PushReceived
            \/ PairingRevoked
            \/ LackingProperties
    BY <2>2 DEF WriteRejectedUnencrypted, WriteFailed, PushReceived,
       PairingRevoked, LackingProperties
  <2> QED
    BY <1>3, <2>1, <2>2 DEF DataEvent
<1>4. CASE PostBondStep
  BY <1>4 DEF PostBondStep, PostBondInitial, PostBondPostEncryption,
     PostBondTriggerSearch, PostBondPollAttempt, PostBondGiveup
<1>5. CASE SubscribeStep
  <2>1. CASE SubscribeUnlock
    BY <2>1 DEF SubscribeUnlock, Fires, PublishStatus, PublishProgress,
       UnlockCmdUsed, ChannelsUnlocked, Noting
  <2>2. ASSUME NEW snapshot \in Snapshots,
              SubscribeInitialGet(snapshot)
       PROVE  UnlockCommandIsCurrent'
    BY <2>2 DEF SubscribeInitialGet
  <2>3. CASE \/ FastReconnectEncrypt
            \/ FastReconnectSubscribe
            \/ EncryptionRetry
    BY <2>3 DEF FastReconnectEncrypt, FastReconnectSubscribe, EncryptionRetry
  <2> QED
    BY <1>5, <2>1, <2>2, <2>3 DEF SubscribeStep
<1>6. CASE OtherTimer
  BY <1>6 DEF OtherTimer, VerbFallbackRetry, SubmitPinPoll, SessionRefresh,
     SessionRefreshQuietExpired, PairingBackoffOver
<1>7. CASE PeriodicPoll
  BY <1>7 DEF PeriodicPoll, UnlockCmdUsed, D6UnlockWritten, Noting
<1>8. CASE PeriodicPollRefused
  BY <1>8 DEF PeriodicPollRefused, UnlockCmdUsed, PublishStatus, HungUp
<1>9. CASE UserStep
  <2>1. CASE PressSubmitPin
    BY <2>1 DEF PressSubmitPin, UnlockCmdUsed, Noting, PublishStatus
  <2>2. CASE PressPoll
    BY <2>2 DEF PressPoll, UnlockCmdUsed, D6UnlockWritten, Noting,
       PublishStatus
  <2>3. ASSUME NEW pin \in Pins,
              SetStoredPin(pin)
       PROVE  UnlockCommandIsCurrent'
    BY <2>3 DEF SetStoredPin
  <2>4. CASE \/ PressConnect
            \/ PressDisconnect
            \/ PressStartPairing
            \/ PressLogDebugInfo
            \/ PressResetPairing
            \/ WriteSetProperty
    BY <2>4 DEF PressConnect, PressDisconnect, PressStartPairing,
       PressLogDebugInfo, PressResetPairing, WriteSetProperty
  <2> QED
    BY <1>9, <2>1, <2>2, <2>3, <2>4 DEF UserStep
<1>10. CASE UNCHANGED vars
  BY <1>10 DEF vars
<1> QED
  BY <1>1, <1>2, <1>3, <1>4, <1>5, <1>6, <1>7, <1>8, <1>9, <1>10 DEF Next

\* No unlock command built for a replaced PIN is ever written: every way the
\* PIN changes empties the cache.
THEOREM UnlockCommandIsNeverStale == Spec => []UnlockCommandIsCurrent
<1>1. Init => UnlockCommandIsCurrent
  BY DEF Init, UnlockCommandIsCurrent
<1>2. UnlockCommandIsCurrent /\ [Next]_vars => UnlockCommandIsCurrent'
  BY UnlockStep
<1> QED
  BY <1>1, <1>2, PTL DEF Spec

-----------------------------------------------------------------------------
(* The pairing back-off *)

\* HoldHasTimer is not inductive: Connect and Reset Pairing cancel the timer and
\* enable the client again only if pairing_backoff_ms_ is not 0, and a good
\* message or a completed pairing sets that to 0.  Neither can happen while the
\* client is disabled, because then the link is going down and not encrypted.
HoldInv ==
    ~enabled => /\ "pairing_backoff" \in timers
                /\ pairingBackoff # 0
                /\ link \in {"down", "closing"}
                /\ "encrypted" \notin session

LEMMA HoldStep ==
  ASSUME TypeOK, HoldInv, [Next]_vars
  PROVE  HoldInv'
<1> USE HubAssumption, PollTimers DEF HubAssumption, TypeOK, FlagsOK, SetsOK,
        CountersOK, HoldInv, LinkStates, PairingCanFail, DataArrives,
        Connected, HasConnection, Cancellable, PostBondTimers, SubscribeTimers,
        FastReconnectTimers, linkVars, ladderVars, pinVars, strikeVars,
        writeVars, statusVars
<1>1. CASE ConnectionEvent
  <2>1. CASE Dial
    BY <2>1 DEF Dial, Dialled
  <2>2. CASE ServicesFound
    BY <2>2 DEF ServicesFound, HandleConnected, StartPostBond, PublishStatus,
       PublishProgress
  <2>3. CASE SearchFailed
    BY <2>3 DEF SearchFailed, HandleDisconnected, CountDrop, AnnounceDrop,
       ConsumedIntent, WithoutTimeouts, NoteBondFailure, StruckOut
  <2>4. CASE ConnectionLost
    BY <2>4 DEF ConnectionLost, ConnectionGone, HandleDisconnected, CountDrop,
       AnnounceDrop, ConsumedIntent, WithoutTimeouts, NoteBondFailure,
       StruckOut
  <2> QED
    BY <1>1, <2>1, <2>2, <2>3, <2>4 DEF ConnectionEvent
<1>2. CASE SecurityEvent
  <2>1. CASE Reencrypted
    BY <2>1 DEF Reencrypted
  <2>2. CASE AuthSucceeded
    BY <2>2 DEF AuthSucceeded, StartSubscribe, Subscribed, PublishStatus
  <2>3. CASE AuthFailed
    BY <2>3 DEF AuthFailed, PairingRefused, NoteBondFailure, StruckOut,
       UpdatedHandles, Snapshots, PublishStatus, WithoutTimeouts, HungUp
  <2>4. CASE AuthRateLimited
    BY <2>4 DEF AuthRateLimited, PairingRefused, NoteBondFailure, StruckOut,
       UpdatedHandles, Snapshots, PublishStatus, WithoutTimeouts, HungUp,
       HungUpByDisabling, NextBackoff
  <2>5. CASE PasskeyRequested
    BY <2>5 DEF PasskeyRequested
  <2> QED
    BY <1>2, <2>1, <2>2, <2>3, <2>4, <2>5 DEF SecurityEvent
<1>3. CASE DataEvent
  <2>1. CASE WriteRejectedUnencrypted
    BY <2>1 DEF WriteRejectedUnencrypted, PublishStatus, HungUp
  <2>2. CASE WriteFailed
    BY <2>2 DEF WriteFailed, PublishStatus, HungUp
  <2>3. CASE PushReceived
    BY <2>3 DEF PushReceived, MessageParsed
  <2>4. ASSUME NEW pin \in Pins,
              PollResponseReceived(pin)
       PROVE  HoldInv'
    BY <2>4 DEF PollResponseReceived, MessageParsed, PublishStatus
  <2>5. CASE LackingProperties
    BY <2>5 DEF LackingProperties, PublishStatus
  <2>6. CASE PairingRevoked
    BY <2>6 DEF PairingRevoked
  <2> QED
    BY <1>3, <2>1, <2>2, <2>3, <2>4, <2>5, <2>6 DEF DataEvent
<1>4. CASE PostBondStep
  <2>1. ASSUME NEW snapshot \in Snapshots,
              PostBondInitial(snapshot)
       PROVE  HoldInv'
    BY <2>1 DEF PostBondInitial, Fires, UpdatedHandles, Snapshots,
       EncryptionRequested, PublishStatus
  <2>2. CASE PostBondPostEncryption
    BY <2>2 DEF PostBondPostEncryption, Fires, StartSubscribe, Subscribed,
       PublishStatus
  <2>3. CASE PostBondTriggerSearch
    BY <2>3 DEF PostBondTriggerSearch, Fires, Noting
  <2>4. ASSUME NEW attempt \in PollAttempts, NEW snapshot \in Snapshots,
              PostBondPollAttempt(attempt, snapshot)
       PROVE  HoldInv'
    BY <2>4 DEF PostBondPollAttempt, Fires, UpdatedHandles, Snapshots,
       StartSubscribe, Subscribed, PublishStatus, HungUp
  <2>5. CASE PostBondGiveup
    BY <2>5 DEF PostBondGiveup, Fires
  <2> QED
    BY <1>4, <2>1, <2>2, <2>3, <2>4, <2>5 DEF PostBondStep
<1>5. CASE SubscribeStep
  <2>1. CASE SubscribeUnlock
    BY <2>1 DEF SubscribeUnlock, Fires, PublishStatus, PublishProgress,
       UnlockCmdUsed, ChannelsUnlocked, Noting
  <2>2. ASSUME NEW snapshot \in Snapshots,
              SubscribeInitialGet(snapshot)
       PROVE  HoldInv'
    BY <2>2 DEF SubscribeInitialGet, Fires, UpdatedHandles, Snapshots,
       StartPolling, FoundLate, RediscoverD6, ParkWithoutD6, PublishStatus,
       Noting, HungUp
  <2>3. CASE FastReconnectEncrypt
    BY <2>3 DEF FastReconnectEncrypt, Fires, EncryptionRequested
  <2>4. CASE FastReconnectSubscribe
    BY <2>4 DEF FastReconnectSubscribe, StartSubscribe, Subscribed, PublishStatus
  <2>5. CASE EncryptionRetry
    BY <2>5 DEF EncryptionRetry, Fires, StartSubscribe, Subscribed, PublishStatus,
       EncryptionRequested
  <2> QED
    BY <1>5, <2>1, <2>2, <2>3, <2>4, <2>5 DEF SubscribeStep
<1>6. CASE OtherTimer
  <2>1. CASE VerbFallbackRetry
    BY <2>1 DEF VerbFallbackRetry, Fires, Noting, PublishStatus
  <2>2. CASE SubmitPinPoll
    BY <2>2 DEF SubmitPinPoll, Fires, Noting
  <2>3. CASE SessionRefresh
    BY <2>3 DEF SessionRefresh, Fires, HungUp
  <2>4. CASE SessionRefreshQuietExpired
    BY <2>4 DEF SessionRefreshQuietExpired, Fires, PublishStatus
  <2>5. CASE PairingBackoffOver
    BY <2>5 DEF PairingBackoffOver, Fires, PublishProgress, PublishStatus
  <2> QED
    BY <1>6, <2>1, <2>2, <2>3, <2>4, <2>5 DEF OtherTimer
<1>7. CASE PeriodicPoll
  BY <1>7 DEF PeriodicPoll, UnlockCmdUsed, D6UnlockWritten, Noting
<1>8. CASE PeriodicPollRefused
  BY <1>8 DEF PeriodicPollRefused, UnlockCmdUsed, PublishStatus, HungUp
<1>9. CASE UserStep
  <2>1. CASE PressConnect
    BY <2>1 DEF PressConnect, ForgetSession, CancelPairingBackoff,
       WithoutTimeouts, Dialled
  <2>2. CASE PressDisconnect
    BY <2>2 DEF PressDisconnect, HungUp
  <2>3. CASE PressStartPairing
    BY <2>3 DEF PressStartPairing, Noting, PublishStatus
  <2>4. CASE PressSubmitPin
    BY <2>4 DEF PressSubmitPin, UnlockCmdUsed, Noting, PublishStatus
  <2>5. CASE PressPoll
    BY <2>5 DEF PressPoll, UnlockCmdUsed, D6UnlockWritten, Noting,
       PublishStatus
  <2>6. CASE PressLogDebugInfo
    BY <2>6 DEF PressLogDebugInfo, PublishStatus, HungUp
  <2>7. CASE PressResetPairing
    BY <2>7 DEF PressResetPairing, ForgetSession, CancelPairingBackoff,
       WithoutTimeouts, PublishStatus, HungUp
  <2>8. ASSUME NEW pin \in Pins,
              SetStoredPin(pin)
       PROVE  HoldInv'
    BY <2>8 DEF SetStoredPin
  <2>9. CASE WriteSetProperty
    BY <2>9 DEF WriteSetProperty, Noting
  <2> QED
    BY <1>9, <2>1, <2>2, <2>3, <2>4, <2>5, <2>6, <2>7, <2>8, <2>9 DEF UserStep
<1>10. CASE UNCHANGED vars
  BY <1>10 DEF vars
<1> QED
  BY <1>1, <1>2, <1>3, <1>4, <1>5, <1>6, <1>7, <1>8, <1>9, <1>10 DEF Next

LEMMA HoldInvariant == Spec => []HoldInv
<1>1. Init => HoldInv
  BY DEF Init, LinkInit, HoldInv
<1>2. TypeOK /\ HoldInv /\ [Next]_vars => HoldInv'
  BY HoldStep
<1> QED
  BY <1>1, <1>2, TypeCorrect, PTL DEF Spec

\* A client that start_pairing_backoff_ disabled has a timer pending that
\* enables it again: no order of events, timers and buttons leaves it off.
THEOREM ClientIsEnabledAgain == Spec => []HoldHasTimer
<1>1. HoldInv => HoldHasTimer
  BY DEF HoldInv, HoldHasTimer
<1> QED
  BY <1>1, HoldInvariant, PTL

-----------------------------------------------------------------------------
(* The instruction of Reset Pairing *)

\* While the instruction stands the hub has nothing cached, no step of a cold
\* ladder is pending, and a hang-up under way is one that was asked for.
ResetInv ==
    status = "reset" => /\ phase = 0
                        /\ handles = {}
                        /\ timers \cap PostBondTimers = {}
                        /\ link = "closing" => intentional

LEMMA ResetStep ==
  ASSUME TypeOK, ResetInv, [Next]_vars
  PROVE  ResetInv'
<1> USE PollTimers DEF TypeOK, FlagsOK, SetsOK, CountersOK, ResetInv,
        HandlesCached, LinkStates, Cancellable, PostBondTimers,
        SubscribeTimers, FastReconnectTimers, linkVars, ladderVars, pinVars,
        strikeVars, writeVars, statusVars
<1>1. CASE ConnectionEvent
  <2>1. CASE Dial
    BY <2>1 DEF Dial, Dialled
  <2>2. CASE ServicesFound
    BY <2>2 DEF ServicesFound, HandleConnected, StartPostBond, PublishStatus,
       PublishProgress
  <2>3. CASE SearchFailed
    BY <2>3 DEF SearchFailed, HandleDisconnected, CountDrop, AnnounceDrop,
       ConsumedIntent, WithoutTimeouts, NoteBondFailure, StruckOut
  <2>4. CASE ConnectionLost
    BY <2>4 DEF ConnectionLost, ConnectionGone, HandleDisconnected, CountDrop,
       AnnounceDrop, ConsumedIntent, WithoutTimeouts, NoteBondFailure,
       StruckOut
  <2> QED
    BY <1>1, <2>1, <2>2, <2>3, <2>4 DEF ConnectionEvent
<1>2. CASE SecurityEvent
  <2>1. CASE AuthSucceeded
    BY <2>1 DEF AuthSucceeded, StartSubscribe, PublishStatus
  <2>2. CASE AuthFailed
    BY <2>2 DEF AuthFailed, PairingRefused, NoteBondFailure, StruckOut,
       UpdatedHandles, Snapshots, PublishStatus, WithoutTimeouts, HungUp
  <2>3. CASE AuthRateLimited
    BY <2>3 DEF AuthRateLimited, PairingRefused, NoteBondFailure, StruckOut,
       UpdatedHandles, Snapshots, PublishStatus, WithoutTimeouts, HungUp,
       HungUpByDisabling, NextBackoff
  <2>4. CASE PasskeyRequested
    BY <2>4 DEF PasskeyRequested, PublishStatus
  <2>5. CASE Reencrypted
    BY <2>5 DEF Reencrypted
  <2> QED
    BY <1>2, <2>1, <2>2, <2>3, <2>4, <2>5 DEF SecurityEvent
<1>3. CASE DataEvent
  <2>1. CASE WriteRejectedUnencrypted
    BY <2>1 DEF WriteRejectedUnencrypted, PublishStatus, HungUp
  <2>2. CASE WriteFailed
    BY <2>2 DEF WriteFailed, PublishStatus, HungUp
  <2>3. ASSUME NEW pin \in Pins,
              PollResponseReceived(pin)
       PROVE  ResetInv'
    BY <2>3 DEF PollResponseReceived, MessageParsed, PublishStatus
  <2>4. CASE PairingRevoked
    BY <2>4 DEF PairingRevoked, PublishStatus
  <2>5. CASE LackingProperties
    BY <2>5 DEF LackingProperties, PublishStatus
  <2>6. CASE PushReceived
    BY <2>6 DEF PushReceived
  <2> QED
    BY <1>3, <2>1, <2>2, <2>3, <2>4, <2>5, <2>6 DEF DataEvent
<1>4. CASE PostBondStep
  <2>1. ASSUME NEW snapshot \in Snapshots,
              PostBondInitial(snapshot)
       PROVE  ResetInv'
    BY <2>1 DEF PostBondInitial, Fires, UpdatedHandles, Snapshots,
       EncryptionRequested, PublishStatus
  <2>2. CASE PostBondPostEncryption
    BY <2>2 DEF PostBondPostEncryption, Fires, StartSubscribe, PublishStatus
  <2>3. CASE PostBondTriggerSearch
    BY <2>3 DEF PostBondTriggerSearch, Fires, Noting
  <2>4. ASSUME NEW attempt \in PollAttempts, NEW snapshot \in Snapshots,
              PostBondPollAttempt(attempt, snapshot)
       PROVE  ResetInv'
    BY <2>4 DEF PostBondPollAttempt, Fires, UpdatedHandles, Snapshots,
       StartSubscribe, PublishStatus, HungUp
  <2>5. CASE PostBondGiveup
    BY <2>5 DEF PostBondGiveup, Fires
  <2> QED
    BY <1>4, <2>1, <2>2, <2>3, <2>4, <2>5 DEF PostBondStep
<1>5. CASE SubscribeStep
  <2>1. CASE SubscribeUnlock
    BY <2>1 DEF SubscribeUnlock, Fires, PublishStatus, PublishProgress,
       UnlockCmdUsed, ChannelsUnlocked, Noting
  <2>2. ASSUME NEW snapshot \in Snapshots,
              SubscribeInitialGet(snapshot)
       PROVE  ResetInv'
    BY <2>2 DEF SubscribeInitialGet, Fires, UpdatedHandles, Snapshots,
       StartPolling, RediscoverD6, ParkWithoutD6, PublishStatus, Noting, HungUp
  <2>3. CASE FastReconnectEncrypt
    BY <2>3 DEF FastReconnectEncrypt, Fires, EncryptionRequested
  <2>4. CASE FastReconnectSubscribe
    BY <2>4 DEF FastReconnectSubscribe, StartSubscribe, PublishStatus
  <2>5. CASE EncryptionRetry
    BY <2>5 DEF EncryptionRetry, Fires, StartSubscribe, PublishStatus,
       EncryptionRequested
  <2> QED
    BY <1>5, <2>1, <2>2, <2>3, <2>4, <2>5 DEF SubscribeStep
<1>6. CASE OtherTimer
  <2>1. CASE VerbFallbackRetry
    BY <2>1 DEF VerbFallbackRetry, Fires, Noting, PublishStatus
  <2>2. CASE SubmitPinPoll
    BY <2>2 DEF SubmitPinPoll, Fires, Noting
  <2>3. CASE SessionRefresh
    BY <2>3 DEF SessionRefresh, Fires, HungUp
  <2>4. CASE SessionRefreshQuietExpired
    BY <2>4 DEF SessionRefreshQuietExpired, Fires, PublishStatus
  <2>5. CASE PairingBackoffOver
    BY <2>5 DEF PairingBackoffOver, Fires, PublishProgress, PublishStatus
  <2> QED
    BY <1>6, <2>1, <2>2, <2>3, <2>4, <2>5 DEF OtherTimer
<1>7. CASE PeriodicPollRefused
  BY <1>7 DEF PeriodicPollRefused, UnlockCmdUsed, PublishStatus, HungUp
<1>8. CASE PeriodicPoll
  BY <1>8 DEF PeriodicPoll
<1>9. CASE UserStep
  <2>1. CASE PressConnect
    BY <2>1 DEF PressConnect, ForgetSession, CancelPairingBackoff,
       WithoutTimeouts, Dialled
  <2>2. CASE PressDisconnect
    BY <2>2 DEF PressDisconnect, HungUp
  <2>3. CASE PressStartPairing
    BY <2>3 DEF PressStartPairing, Noting, PublishStatus
  <2>4. CASE PressSubmitPin
    BY <2>4 DEF PressSubmitPin, UnlockCmdUsed, Noting, PublishStatus
  <2>5. CASE PressPoll
    BY <2>5 DEF PressPoll, UnlockCmdUsed, D6UnlockWritten, Noting,
       PublishStatus
  <2>6. CASE PressLogDebugInfo
    BY <2>6 DEF PressLogDebugInfo, PublishStatus, HungUp
  <2>7. CASE PressResetPairing
    BY <2>7 DEF PressResetPairing, ForgetSession, CancelPairingBackoff,
       WithoutTimeouts, PublishStatus, HungUp
  <2>8. ASSUME NEW pin \in Pins,
              SetStoredPin(pin)
       PROVE  ResetInv'
    BY <2>8 DEF SetStoredPin
  <2>9. CASE WriteSetProperty
    BY <2>9 DEF WriteSetProperty
  <2> QED
    BY <1>9, <2>1, <2>2, <2>3, <2>4, <2>5, <2>6, <2>7, <2>8, <2>9 DEF UserStep
<1>10. CASE UNCHANGED vars
  BY <1>10 DEF vars
<1> QED
  BY <1>1, <1>2, <1>3, <1>4, <1>5, <1>6, <1>7, <1>8, <1>9, <1>10 DEF Next

LEMMA ResetInvariant == Spec => []ResetInv
<1>1. Init => ResetInv
  BY DEF Init, LinkInit, ResetInv
<1>2. TypeOK /\ ResetInv /\ [Next]_vars => ResetInv'
  BY ResetStep
<1> QED
  BY <1>1, <1>2, TypeCorrect, PTL DEF Spec

\* Of all actions only the end of a connection takes the link down.
LEMMA OnlyLossEndsConnection ==
  ASSUME [Next]_vars, link # "down", link' = "down"
  PROVE  ConnectionLost
<1> USE DEF linkVars, ladderVars, pinVars, strikeVars, writeVars, statusVars,
        Dialled, HungUp, HungUpByDisabling
<1>1. CASE ConnectionEvent
  <2>1. CASE Dial
    BY <2>1 DEF Dial, Dialled
  <2>2. CASE ServicesFound
    BY <2>2 DEF ServicesFound, HandleConnected, StartPostBond, PublishStatus,
       PublishProgress
  <2>3. CASE SearchFailed
    BY <2>3 DEF SearchFailed, HandleDisconnected, CountDrop, AnnounceDrop,
       ConsumedIntent, WithoutTimeouts, NoteBondFailure, StruckOut
  <2>4. CASE ConnectionLost
    BY <2>4 DEF ConnectionLost, ConnectionGone, HandleDisconnected, CountDrop,
       AnnounceDrop, ConsumedIntent, WithoutTimeouts, NoteBondFailure,
       StruckOut
  <2> QED
    BY <1>1, <2>1, <2>2, <2>3, <2>4 DEF ConnectionEvent
<1>2. CASE SecurityEvent
  <2>1. CASE AuthFailed
    BY <2>1 DEF AuthFailed, PairingRefused, NoteBondFailure, StruckOut,
       UpdatedHandles, Snapshots, PublishStatus, WithoutTimeouts, HungUp
  <2>2. CASE AuthRateLimited
    BY <2>2 DEF AuthRateLimited, PairingRefused, NoteBondFailure, StruckOut,
       UpdatedHandles, Snapshots, PublishStatus, WithoutTimeouts, HungUp,
       HungUpByDisabling, NextBackoff
  <2>3. CASE \/ Reencrypted
            \/ AuthSucceeded
            \/ PasskeyRequested
    BY <2>3 DEF Reencrypted, AuthSucceeded, PasskeyRequested
  <2> QED
    BY <1>2, <2>1, <2>2, <2>3 DEF SecurityEvent
<1>3. CASE DataEvent
  <2>1. CASE WriteRejectedUnencrypted
    BY <2>1 DEF WriteRejectedUnencrypted, PublishStatus, HungUp
  <2>2. CASE WriteFailed
    BY <2>2 DEF WriteFailed, PublishStatus, HungUp
  <2>3. ASSUME NEW pin \in Pins,
              PollResponseReceived(pin)
       PROVE  ConnectionLost
    BY <2>3 DEF PollResponseReceived
  <2>4. CASE \/ PushReceived
            \/ PairingRevoked
            \/ LackingProperties
    BY <2>4 DEF PushReceived, PairingRevoked, LackingProperties
  <2> QED
    BY <1>3, <2>1, <2>2, <2>3, <2>4 DEF DataEvent
<1>4. CASE PostBondStep
  <2>1. ASSUME NEW snapshot \in Snapshots,
              PostBondInitial(snapshot)
       PROVE  ConnectionLost
    BY <2>1 DEF PostBondInitial
  <2>2. ASSUME NEW attempt \in PollAttempts, NEW snapshot \in Snapshots,
              PostBondPollAttempt(attempt, snapshot)
       PROVE  ConnectionLost
    BY <2>2 DEF PostBondPollAttempt, Fires, UpdatedHandles, Snapshots,
       StartSubscribe, PublishStatus, HungUp
  <2>3. CASE \/ PostBondPostEncryption
            \/ PostBondTriggerSearch
            \/ PostBondGiveup
    BY <2>3 DEF PostBondPostEncryption, PostBondTriggerSearch, PostBondGiveup
  <2> QED
    BY <1>4, <2>1, <2>2, <2>3 DEF PostBondStep
<1>5. CASE SubscribeStep
  <2>1. ASSUME NEW snapshot \in Snapshots,
              SubscribeInitialGet(snapshot)
       PROVE  ConnectionLost
    BY <2>1 DEF SubscribeInitialGet, Fires, UpdatedHandles, Snapshots,
       StartPolling, RediscoverD6, ParkWithoutD6, PublishStatus, Noting, HungUp
  <2>2. CASE \/ SubscribeUnlock
            \/ FastReconnectEncrypt
            \/ FastReconnectSubscribe
            \/ EncryptionRetry
    BY <2>2 DEF SubscribeUnlock, FastReconnectEncrypt, FastReconnectSubscribe,
       EncryptionRetry
  <2> QED
    BY <1>5, <2>1, <2>2 DEF SubscribeStep
<1>6. CASE OtherTimer
  <2>1. CASE SessionRefresh
    BY <2>1 DEF SessionRefresh, Fires, HungUp
  <2>2. CASE \/ VerbFallbackRetry
            \/ SubmitPinPoll
            \/ SessionRefreshQuietExpired
            \/ PairingBackoffOver
    BY <2>2 DEF VerbFallbackRetry, SubmitPinPoll, SessionRefreshQuietExpired,
       PairingBackoffOver
  <2> QED
    BY <1>6, <2>1, <2>2 DEF OtherTimer
<1>7. CASE PeriodicPollRefused
  BY <1>7 DEF PeriodicPollRefused, UnlockCmdUsed, PublishStatus, HungUp
<1>8. CASE PeriodicPoll
  BY <1>8 DEF PeriodicPoll
<1>9. CASE UserStep
  <2>1. CASE PressConnect
    BY <2>1 DEF PressConnect, ForgetSession, CancelPairingBackoff,
       WithoutTimeouts, Dialled
  <2>2. CASE PressDisconnect
    BY <2>2 DEF PressDisconnect, HungUp
  <2>3. CASE PressLogDebugInfo
    BY <2>3 DEF PressLogDebugInfo, PublishStatus, HungUp
  <2>4. CASE PressResetPairing
    BY <2>4 DEF PressResetPairing, ForgetSession, CancelPairingBackoff,
       WithoutTimeouts, PublishStatus, HungUp
  <2>5. ASSUME NEW pin \in Pins,
              SetStoredPin(pin)
       PROVE  ConnectionLost
    BY <2>5 DEF SetStoredPin
  <2>6. CASE \/ PressStartPairing
            \/ PressSubmitPin
            \/ PressPoll
            \/ WriteSetProperty
    BY <2>6 DEF PressStartPairing, PressSubmitPin, PressPoll, WriteSetProperty
  <2> QED
    BY <1>9, <2>1, <2>2, <2>3, <2>4, <2>5, <2>6 DEF UserStep
<1>10. CASE UNCHANGED vars
  BY <1>10 DEF vars
<1> QED
  BY <1>1, <1>2, <1>3, <1>4, <1>5, <1>6, <1>7, <1>8, <1>9, <1>10 DEF Next

\* "Power-cycle appliance, then press Connect." is never replaced by the
\* "Disconnected" of the hang-up that Reset Pairing itself causes.
THEOREM InstructionSurvives == Spec => ResetInstructionSurvives
<1>1. TypeOK /\ ResetInv /\ [Next]_vars
        => [status = "reset" /\ link = "closing" /\ link' = "down"
              => status' = "reset"]_vars
  <2> SUFFICES ASSUME ResetInv, [Next]_vars,
                      status = "reset", link = "closing", link' = "down"
               PROVE  status' = "reset"
    OBVIOUS
  <2>1. ConnectionLost
    BY OnlyLossEndsConnection
  <2>2. intentional /\ ~HandlesCached
    BY DEF ResetInv, HandlesCached
  <2> QED
    BY <2>1, <2>2 DEF ConnectionLost, HandleDisconnected, AnnounceDrop
<1> QED
  BY <1>1, TypeCorrect, ResetInvariant, PTL DEF Spec, ResetInstructionSurvives

-----------------------------------------------------------------------------
(* A discovery from scratch *)

LadderTimers == PostBondTimers \cup SubscribeTimers \cup FastReconnectTimers

\* No step of a ladder outlives its connection or the loss of the handles, or it
\* would bring handles back into a hub that starts from scratch.
ColdInv ==
    /\ link # "closing" /\ phase = 0
         => handles = {} /\ timers \cap LadderTimers = {}
    /\ link \in {"down", "opening"} => timers \cap LadderTimers = {}

LEMMA ColdStep ==
  ASSUME TypeOK, HoldInv, ColdInv, [Next]_vars
  PROVE  ColdInv'
<1> USE PollTimers DEF TypeOK, FlagsOK, SetsOK, CountersOK, HoldInv, ColdInv,
        LadderTimers, HandlesCached, WriteFails, RefusalCounts, LinkStates,
        Connected, HasConnection, Cancellable, PostBondTimers, SubscribeTimers,
        FastReconnectTimers, linkVars, ladderVars, pinVars, strikeVars,
        writeVars, statusVars
<1>1. CASE ConnectionEvent
  <2>1. CASE Dial
    BY <2>1 DEF Dial, Dialled
  <2>2. CASE ServicesFound
    BY <2>2 DEF ServicesFound, HandleConnected, StartPostBond, PublishStatus,
       PublishProgress
  <2>3. CASE SearchFailed
    BY <2>3 DEF SearchFailed, HandleDisconnected, CountDrop, AnnounceDrop,
       ConsumedIntent, WithoutTimeouts, NoteBondFailure, StruckOut
  <2>4. CASE ConnectionLost
    BY <2>4 DEF ConnectionLost, ConnectionGone, HandleDisconnected, CountDrop,
       AnnounceDrop, ConsumedIntent, WithoutTimeouts, NoteBondFailure,
       StruckOut
  <2> QED
    BY <1>1, <2>1, <2>2, <2>3, <2>4 DEF ConnectionEvent
<1>2. CASE SecurityEvent
  <2>1. CASE AuthSucceeded
    BY <2>1 DEF AuthSucceeded, StartSubscribe, PublishStatus
  <2>2. CASE AuthFailed
    BY <2>2 DEF AuthFailed, PairingRefused, NoteBondFailure, StruckOut,
       UpdatedHandles, Snapshots, PublishStatus, WithoutTimeouts, HungUp
  <2>3. CASE AuthRateLimited
    BY <2>3 DEF AuthRateLimited, PairingRefused, NoteBondFailure, StruckOut,
       UpdatedHandles, Snapshots, PublishStatus, WithoutTimeouts, HungUp,
       HungUpByDisabling, NextBackoff
  <2>4. CASE \/ Reencrypted
            \/ PasskeyRequested
    BY <2>4 DEF Reencrypted, PasskeyRequested
  <2> QED
    BY <1>2, <2>1, <2>2, <2>3, <2>4 DEF SecurityEvent
<1>3. CASE DataEvent
  <2>1. CASE WriteRejectedUnencrypted
    BY <2>1 DEF WriteRejectedUnencrypted, PublishStatus, HungUp
  <2>2. CASE WriteFailed
    BY <2>2 DEF WriteFailed, PublishStatus, HungUp
  <2>3. ASSUME NEW pin \in Pins,
              PollResponseReceived(pin)
       PROVE  ColdInv'
    BY <2>3 DEF PollResponseReceived
  <2>4. CASE LackingProperties
    BY <2>4 DEF LackingProperties, PublishStatus
  <2>5. CASE \/ PushReceived
            \/ PairingRevoked
    BY <2>5 DEF PushReceived, PairingRevoked
  <2> QED
    BY <1>3, <2>1, <2>2, <2>3, <2>4, <2>5 DEF DataEvent
<1>4. CASE PostBondStep
  <2>1. ASSUME NEW snapshot \in Snapshots,
              PostBondInitial(snapshot)
       PROVE  ColdInv'
    BY <2>1 DEF PostBondInitial, Fires, UpdatedHandles, Snapshots,
       EncryptionRequested, PublishStatus
  <2>2. CASE PostBondPostEncryption
    BY <2>2 DEF PostBondPostEncryption, Fires, StartSubscribe, PublishStatus
  <2>3. CASE PostBondTriggerSearch
    BY <2>3 DEF PostBondTriggerSearch, Fires, Noting
  <2>4. ASSUME NEW attempt \in PollAttempts, NEW snapshot \in Snapshots,
              PostBondPollAttempt(attempt, snapshot)
       PROVE  ColdInv'
    BY <2>4 DEF PostBondPollAttempt, Fires, UpdatedHandles, Snapshots,
       StartSubscribe, PublishStatus, HungUp
  <2>5. CASE PostBondGiveup
    BY <2>5 DEF PostBondGiveup, Fires
  <2> QED
    BY <1>4, <2>1, <2>2, <2>3, <2>4, <2>5 DEF PostBondStep
<1>5. CASE SubscribeStep
  <2>1. CASE SubscribeUnlock
    BY <2>1 DEF SubscribeUnlock, Fires, PublishStatus, PublishProgress,
       UnlockCmdUsed, ChannelsUnlocked, Noting
  <2>2. ASSUME NEW snapshot \in Snapshots,
              SubscribeInitialGet(snapshot)
       PROVE  ColdInv'
    BY <2>2 DEF SubscribeInitialGet, Fires, UpdatedHandles, Snapshots,
       StartPolling, RediscoverD6, ParkWithoutD6, PublishStatus, Noting, HungUp
  <2>3. CASE FastReconnectEncrypt
    BY <2>3 DEF FastReconnectEncrypt, Fires, EncryptionRequested
  <2>4. CASE FastReconnectSubscribe
    BY <2>4 DEF FastReconnectSubscribe, StartSubscribe, PublishStatus
  <2>5. CASE EncryptionRetry
    BY <2>5 DEF EncryptionRetry, Fires, StartSubscribe, PublishStatus,
       EncryptionRequested
  <2> QED
    BY <1>5, <2>1, <2>2, <2>3, <2>4, <2>5 DEF SubscribeStep
<1>6. CASE OtherTimer
  <2>1. CASE VerbFallbackRetry
    BY <2>1 DEF VerbFallbackRetry, Fires, Noting, PublishStatus
  <2>2. CASE SubmitPinPoll
    BY <2>2 DEF SubmitPinPoll, Fires, Noting
  <2>3. CASE SessionRefresh
    BY <2>3 DEF SessionRefresh, Fires, HungUp
  <2>4. CASE SessionRefreshQuietExpired
    BY <2>4 DEF SessionRefreshQuietExpired, Fires, PublishStatus
  <2>5. CASE PairingBackoffOver
    BY <2>5 DEF PairingBackoffOver, Fires, PublishProgress, PublishStatus
  <2> QED
    BY <1>6, <2>1, <2>2, <2>3, <2>4, <2>5 DEF OtherTimer
<1>7. CASE PeriodicPollRefused
  BY <1>7 DEF PeriodicPollRefused, UnlockCmdUsed, PublishStatus, HungUp
<1>8. CASE PeriodicPoll
  BY <1>8 DEF PeriodicPoll
<1>9. CASE UserStep
  <2>1. CASE PressConnect
    BY <2>1 DEF PressConnect, ForgetSession, CancelPairingBackoff,
       WithoutTimeouts, Dialled
  <2>2. CASE PressDisconnect
    BY <2>2 DEF PressDisconnect, HungUp
  <2>3. CASE PressSubmitPin
    BY <2>3 DEF PressSubmitPin, UnlockCmdUsed, Noting, PublishStatus
  <2>4. CASE PressLogDebugInfo
    BY <2>4 DEF PressLogDebugInfo, PublishStatus, HungUp
  <2>5. CASE PressResetPairing
    BY <2>5 DEF PressResetPairing, ForgetSession, CancelPairingBackoff,
       WithoutTimeouts, PublishStatus, HungUp
  <2>6. ASSUME NEW pin \in Pins,
              SetStoredPin(pin)
       PROVE  ColdInv'
    BY <2>6 DEF SetStoredPin
  <2>7. CASE \/ PressStartPairing
            \/ PressPoll
            \/ WriteSetProperty
    BY <2>7 DEF PressStartPairing, PressPoll, WriteSetProperty
  <2> QED
    BY <1>9, <2>1, <2>2, <2>3, <2>4, <2>5, <2>6, <2>7 DEF UserStep
<1>10. CASE UNCHANGED vars
  BY <1>10 DEF vars
<1> QED
  BY <1>1, <1>2, <1>3, <1>4, <1>5, <1>6, <1>7, <1>8, <1>9, <1>10 DEF Next

LEMMA ColdInvariant == Spec => []ColdInv
<1>1. Init => ColdInv
  BY DEF Init, LinkInit, ColdInv
<1>2. TypeOK /\ HoldInv /\ ColdInv /\ [Next]_vars => ColdInv'
  BY ColdStep
<1> QED
  BY <1>1, <1>2, TypeCorrect, HoldInvariant, PTL DEF Spec

\* update_handles_from_db_ never replaces a known handle; a hub that discovers
\* from scratch (phase 0) never holds one of an earlier GATT layout.
THEOREM ColdDiscoveryIsClean == Spec => []ColdDiscoveryStartsClean
<1>1. ColdInv => ColdDiscoveryStartsClean
  BY DEF ColdInv, ColdDiscoveryStartsClean
<1> QED
  BY <1>1, ColdInvariant, PTL

-----------------------------------------------------------------------------
(* The intent of a hang-up *)

\* A user who hangs up while there is no connection leaves the flag set
\* (press_disconnect); without these three buttons it is never left.
NoUserHangUp == Inputs \cap {"disconnect", "log_debug", "reset"} = {}

\* Stronger than IntentIsConsumed: the flag does not wait in an idle hub either.
IntentInv == link # "closing" => ~intentional

LEMMA IntentStep ==
  ASSUME NoUserHangUp, TypeOK, HoldInv, IntentInv, [Next]_vars
  PROVE  IntentInv'
<1> USE DEF TypeOK, FlagsOK, SetsOK, CountersOK, HoldInv, IntentInv,
        NoUserHangUp, LinkStates, Connected, HasConnection, linkVars,
        ladderVars, pinVars, strikeVars, writeVars, statusVars
<1>1. CASE ConnectionEvent
  <2>1. CASE Dial
    BY <2>1 DEF Dial, Dialled
  <2>2. CASE ServicesFound
    BY <2>2 DEF ServicesFound, HandleConnected, StartPostBond, PublishStatus,
       PublishProgress
  <2>3. CASE SearchFailed
    BY <2>3 DEF SearchFailed, HandleDisconnected, CountDrop, AnnounceDrop,
       ConsumedIntent, WithoutTimeouts, NoteBondFailure, StruckOut
  <2>4. CASE ConnectionLost
    BY <2>4 DEF ConnectionLost, ConnectionGone, HandleDisconnected, CountDrop,
       AnnounceDrop, ConsumedIntent, WithoutTimeouts, NoteBondFailure,
       StruckOut
  <2> QED
    BY <1>1, <2>1, <2>2, <2>3, <2>4 DEF ConnectionEvent
<1>2. CASE SecurityEvent
  <2>1. CASE AuthFailed
    BY <2>1 DEF AuthFailed, PairingRefused, NoteBondFailure, StruckOut,
       UpdatedHandles, Snapshots, PublishStatus, WithoutTimeouts, HungUp
  <2>2. CASE AuthRateLimited
    BY <2>2 DEF AuthRateLimited, PairingRefused, NoteBondFailure, StruckOut,
       UpdatedHandles, Snapshots, PublishStatus, WithoutTimeouts, HungUp,
       HungUpByDisabling, NextBackoff
  <2>3. CASE \/ Reencrypted
            \/ AuthSucceeded
            \/ PasskeyRequested
    BY <2>3 DEF Reencrypted, AuthSucceeded, PasskeyRequested
  <2> QED
    BY <1>2, <2>1, <2>2, <2>3 DEF SecurityEvent
<1>3. CASE DataEvent
  <2>1. CASE WriteRejectedUnencrypted
    BY <2>1 DEF WriteRejectedUnencrypted, PublishStatus, HungUp
  <2>2. CASE WriteFailed
    BY <2>2 DEF WriteFailed, PublishStatus, HungUp
  <2>3. ASSUME NEW pin \in Pins,
              PollResponseReceived(pin)
       PROVE  IntentInv'
    BY <2>3 DEF PollResponseReceived
  <2>4. CASE \/ PushReceived
            \/ PairingRevoked
            \/ LackingProperties
    BY <2>4 DEF PushReceived, PairingRevoked, LackingProperties
  <2> QED
    BY <1>3, <2>1, <2>2, <2>3, <2>4 DEF DataEvent
<1>4. CASE PostBondStep
  <2>1. ASSUME NEW snapshot \in Snapshots,
              PostBondInitial(snapshot)
       PROVE  IntentInv'
    BY <2>1 DEF PostBondInitial
  <2>2. ASSUME NEW attempt \in PollAttempts, NEW snapshot \in Snapshots,
              PostBondPollAttempt(attempt, snapshot)
       PROVE  IntentInv'
    BY <2>2 DEF PostBondPollAttempt, Fires, UpdatedHandles, Snapshots,
       StartSubscribe, PublishStatus, HungUp
  <2>3. CASE \/ PostBondPostEncryption
            \/ PostBondTriggerSearch
            \/ PostBondGiveup
    BY <2>3 DEF PostBondPostEncryption, PostBondTriggerSearch, PostBondGiveup
  <2> QED
    BY <1>4, <2>1, <2>2, <2>3 DEF PostBondStep
<1>5. CASE SubscribeStep
  <2>1. ASSUME NEW snapshot \in Snapshots,
              SubscribeInitialGet(snapshot)
       PROVE  IntentInv'
    BY <2>1 DEF SubscribeInitialGet, Fires, UpdatedHandles, Snapshots,
       StartPolling, RediscoverD6, ParkWithoutD6, PublishStatus, Noting, HungUp
  <2>2. CASE \/ SubscribeUnlock
            \/ FastReconnectEncrypt
            \/ FastReconnectSubscribe
            \/ EncryptionRetry
    BY <2>2 DEF SubscribeUnlock, FastReconnectEncrypt, FastReconnectSubscribe,
       EncryptionRetry
  <2> QED
    BY <1>5, <2>1, <2>2 DEF SubscribeStep
<1>6. CASE OtherTimer
  <2>1. CASE SessionRefresh
    BY <2>1 DEF SessionRefresh, Fires, HungUp
  <2>2. CASE \/ VerbFallbackRetry
            \/ SubmitPinPoll
            \/ SessionRefreshQuietExpired
            \/ PairingBackoffOver
    BY <2>2 DEF VerbFallbackRetry, SubmitPinPoll, SessionRefreshQuietExpired,
       PairingBackoffOver
  <2> QED
    BY <1>6, <2>1, <2>2 DEF OtherTimer
<1>7. CASE PeriodicPollRefused
  BY <1>7 DEF PeriodicPollRefused, UnlockCmdUsed, PublishStatus, HungUp
<1>8. CASE PeriodicPoll
  BY <1>8 DEF PeriodicPoll
<1>9. CASE UserStep
  <2>1. CASE PressConnect
    BY <2>1 DEF PressConnect, ForgetSession, CancelPairingBackoff,
       WithoutTimeouts, Dialled
  <2>2. CASE PressDisconnect
    BY <2>2 DEF PressDisconnect, HungUp
  <2>3. CASE PressLogDebugInfo
    BY <2>3 DEF PressLogDebugInfo, PublishStatus, HungUp
  <2>4. CASE PressResetPairing
    BY <2>4 DEF PressResetPairing, ForgetSession, CancelPairingBackoff,
       WithoutTimeouts, PublishStatus, HungUp
  <2>5. ASSUME NEW pin \in Pins,
              SetStoredPin(pin)
       PROVE  IntentInv'
    BY <2>5 DEF SetStoredPin
  <2>6. CASE \/ PressStartPairing
            \/ PressSubmitPin
            \/ PressPoll
            \/ WriteSetProperty
    BY <2>6 DEF PressStartPairing, PressSubmitPin, PressPoll, WriteSetProperty
  <2> QED
    BY <1>9, <2>1, <2>2, <2>3, <2>4, <2>5, <2>6 DEF UserStep
<1>10. CASE UNCHANGED vars
  BY <1>10 DEF vars
<1> QED
  BY <1>1, <1>2, <1>3, <1>4, <1>5, <1>6, <1>7, <1>8, <1>9, <1>10 DEF Next

LEMMA IntentInvariant ==
  ASSUME NoUserHangUp
  PROVE  Spec => []IntentInv
<1>1. Init => IntentInv
  BY DEF Init, IntentInv
<1>2. TypeOK /\ HoldInv /\ IntentInv /\ [Next]_vars => IntentInv'
  BY IntentStep
<1> QED
  BY <1>1, <1>2, TypeCorrect, HoldInvariant, PTL DEF Spec

\* As long as only the hub hangs up, intentional_disconnect_ is set exactly for
\* the DISCONNECT that answers it, and no later drop is taken for wanted.
THEOREM IntentIsAlwaysConsumed ==
  ASSUME NoUserHangUp
  PROVE  Spec => []IntentIsConsumed
<1>1. IntentInv => IntentIsConsumed
  BY DEF IntentInv, IntentIsConsumed
<1> QED
  BY <1>1, IntentInvariant, PTL

-----------------------------------------------------------------------------
(* The loss of the bond *)

LEMMA LossStep ==
  ASSUME TypeOK, "repeated" \notin Inputs, bond, ~bond', [Next]_vars
  PROVE  status' \in {"bond_cleared", "reset"}
<1> USE DEF TypeOK, FlagsOK, SetsOK, CountersOK, RefusalCounts, HandlesCached,
        linkVars, ladderVars, pinVars, strikeVars, writeVars, statusVars
<1>1. CASE ConnectionEvent
  <2>1. CASE SearchFailed
    BY <2>1 DEF SearchFailed, HandleDisconnected, CountDrop, AnnounceDrop,
       ConsumedIntent, WithoutTimeouts, NoteBondFailure, StruckOut
  <2>2. CASE ConnectionLost
    BY <2>2 DEF ConnectionLost, ConnectionGone, HandleDisconnected, CountDrop,
       AnnounceDrop, ConsumedIntent, WithoutTimeouts, NoteBondFailure,
       StruckOut
  <2>3. CASE \/ Dial
            \/ ServicesFound
    BY <2>3 DEF Dial, ServicesFound
  <2> QED
    BY <1>1, <2>1, <2>2, <2>3 DEF ConnectionEvent
<1>2. CASE SecurityEvent
  <2>1. CASE AuthSucceeded
    BY <2>1 DEF AuthSucceeded, StartSubscribe, PublishStatus
  <2>2. CASE AuthFailed
    <3>1. phase = 1 /\ phase' = 0
      BY <2>2 DEF AuthFailed, PairingRefused, RefusalCounts, NoteBondFailure
    <3>2. phase' < phase
      BY <3>1, SMT
    <3> QED
      BY <2>2, <3>2 DEF AuthFailed, PublishStatus
  <2>3. CASE AuthRateLimited
    BY <2>3 DEF AuthRateLimited, PairingRefused, NoteBondFailure, StruckOut,
       UpdatedHandles, Snapshots, PublishStatus, WithoutTimeouts, HungUp,
       HungUpByDisabling, NextBackoff
  <2>4. CASE \/ Reencrypted
            \/ PasskeyRequested
    BY <2>4 DEF Reencrypted, PasskeyRequested
  <2> QED
    BY <1>2, <2>1, <2>2, <2>3, <2>4 DEF SecurityEvent
<1>3. CASE DataEvent
  BY <1>3 DEF DataEvent, WriteRejectedUnencrypted, WriteFailed, PushReceived,
     PollResponseReceived, PairingRevoked, LackingProperties
<1>4. CASE PostBondStep
  BY <1>4 DEF PostBondStep, PostBondInitial, PostBondPostEncryption,
     PostBondTriggerSearch, PostBondPollAttempt, PostBondGiveup
<1>5. CASE SubscribeStep
  BY <1>5 DEF SubscribeStep, SubscribeUnlock, SubscribeInitialGet,
     FastReconnectEncrypt, FastReconnectSubscribe, EncryptionRetry
<1>6. CASE OtherTimer
  BY <1>6 DEF OtherTimer, VerbFallbackRetry, SubmitPinPoll, SessionRefresh,
     SessionRefreshQuietExpired, PairingBackoffOver
<1>7. CASE PeriodicPoll \/ PeriodicPollRefused
  BY <1>7 DEF PeriodicPoll, PeriodicPollRefused
<1>8. CASE UserStep
  <2>1. CASE PressResetPairing
    BY <2>1 DEF PressResetPairing, ForgetSession, CancelPairingBackoff,
       WithoutTimeouts, PublishStatus, HungUp
  <2>2. ASSUME NEW pin \in Pins,
              SetStoredPin(pin)
       PROVE  status' \in {"bond_cleared", "reset"}
    BY <2>2 DEF SetStoredPin
  <2>3. CASE \/ PressConnect
            \/ PressDisconnect
            \/ PressStartPairing
            \/ PressSubmitPin
            \/ PressPoll
            \/ PressLogDebugInfo
            \/ WriteSetProperty
    BY <2>3 DEF PressConnect, PressDisconnect, PressStartPairing,
       PressSubmitPin, PressPoll, PressLogDebugInfo, WriteSetProperty
  <2> QED
    BY <1>8, <2>1, <2>2, <2>3 DEF UserStep
<1>9. CASE UNCHANGED vars
  BY <1>9 DEF vars
<1> QED
  BY <1>1, <1>2, <1>3, <1>4, <1>5, <1>6, <1>7, <1>8, <1>9 DEF Next

\* Whatever clears the bond also says so in Status, in the same handler, but for
\* the refusal that starts a pairing back-off, whose own text comes last.
THEOREM BondLossIsHeard ==
  ASSUME "repeated" \notin Inputs
  PROVE  Spec => BondLossIsAnnounced
<1>1. TypeOK /\ [Next]_vars
        => [bond /\ ~bond' => status' \in {"bond_cleared", "reset"}]_vars
  BY LossStep
<1> QED
  BY <1>1, TypeCorrect, PTL DEF Spec, BondLossIsAnnounced

=============================================================================
