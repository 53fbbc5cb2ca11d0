----------------------------- MODULE HubRecovery -----------------------------
(***************************************************************************)
(* SubzeroHub with an environment that misbehaves a bounded number of      *)
(* times and then works: does the hub get its data back, with no help from *)
(* the user?  A failed service discovery is not among the faults: it leaves*)
(* a live link that the hub takes for a dead one (see the README).         *)
(***************************************************************************)
EXTENDS SubzeroHub

CONSTANT MaxFaults      \* bound on the faults of one behaviour

VARIABLE faults         \* how many happened

recoveryVars == <<vars, faults>>

AllChars == {"D5", "D6"}

Fault ==
    \/ link # "closing" /\ ConnectionLost
    \/ AuthFailed
    \/ AuthRateLimited
    \/ WriteRejectedUnencrypted
    \/ WriteFailed
    \/ PairingRevoked
    \/ LackingProperties
    \/ PeriodicPollRefused
    \/ \E snapshot \in Snapshots \ {AllChars} :
          \/ PostBondInitial(snapshot)
          \/ \E attempt \in PollAttempts :
                PostBondPollAttempt(attempt, snapshot)
          \/ SubscribeInitialGet(snapshot)

HangUpCompletes == link = "closing" /\ ConnectionLost

Answered == PushReceived \/ \E pin \in Pins : PollResponseReceived(pin)

Secured == Reencrypted \/ AuthSucceeded

Polled == \E attempt \in PollAttempts : PostBondPollAttempt(attempt, AllChars)

Working ==
    \/ Dial
    \/ ServicesFound
    \/ HangUpCompletes
    \/ Secured
    \/ PasskeyRequested
    \/ Answered
    \/ PostBondInitial(AllChars)
    \/ PostBondPostEncryption
    \/ PostBondTriggerSearch
    \/ Polled
    \/ PostBondGiveup
    \/ SubscribeUnlock
    \/ SubscribeInitialGet(AllChars)
    \/ FastReconnectEncrypt
    \/ FastReconnectSubscribe
    \/ EncryptionRetry
    \/ OtherTimer
    \/ PeriodicPoll

RecoveryInit == Init /\ faults = 0

RecoveryNext ==
    \/ Working /\ UNCHANGED faults
    \/ /\ faults < MaxFaults
       /\ faults' = faults + 1
       /\ Fault

Without(A) == A /\ UNCHANGED faults

\* The scheduler runs every timeout that is not cancelled, and the interval of
\* the poll.
TimersAreRun ==
    /\ WF_recoveryVars(Without(PostBondInitial(AllChars)))
    /\ WF_recoveryVars(Without(PostBondPostEncryption))
    /\ WF_recoveryVars(Without(PostBondTriggerSearch))
    /\ WF_recoveryVars(Without(Polled))
    /\ WF_recoveryVars(Without(PostBondGiveup))
    /\ WF_recoveryVars(Without(SubscribeUnlock))
    /\ WF_recoveryVars(Without(SubscribeInitialGet(AllChars)))
    /\ WF_recoveryVars(Without(FastReconnectEncrypt))
    /\ WF_recoveryVars(Without(FastReconnectSubscribe))
    /\ WF_recoveryVars(Without(EncryptionRetry))
    /\ WF_recoveryVars(Without(SessionRefresh))
    /\ WF_recoveryVars(Without(PairingBackoffOver))
    /\ WF_recoveryVars(Without(VerbFallbackRetry))
    /\ WF_recoveryVars(Without(SubmitPinPoll))
    /\ WF_recoveryVars(Without(PeriodicPoll))

\* The client dials while it is enabled; every connection that is opened is
\* discovered and every hang-up completes.
ClientWorks ==
    /\ WF_recoveryVars(Without(Dial))
    /\ WF_recoveryVars(Without(ServicesFound))
    /\ WF_recoveryVars(Without(HangUpCompletes))

\* A session lasts 18 minutes and encryption and answers take seconds, so they
\* are not for ever overtaken by the session refresh.
ApplianceAnswers ==
    /\ SF_recoveryVars(Without(Secured))
    /\ SF_recoveryVars(Without(Answered))

RecoverySpec ==
    /\ RecoveryInit
    /\ [][RecoveryNext]_recoveryVars
    /\ TimersAreRun
    /\ ClientWorks
    /\ ApplianceAnswers

\* With a PIN stored, the appliance's state is read again and again: no fault,
\* and no order of faults, leaves the hub stuck.
DataKeepsComing == storedPin # NoPin => []<>("heard" \in session)

=============================================================================
