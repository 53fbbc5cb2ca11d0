----------------------------- MODULE HubRepairing ----------------------------
(***************************************************************************)
(* HubRecovery with a user who resets the pairing a bounded number of      *)
(* times and presses "Submit PIN & Unlock" again and again.                *)
(***************************************************************************)
EXTENDS HubRecovery

RepairingNext ==
    \/ /\ Working \/ PressSubmitPin
       /\ UNCHANGED faults
    \/ /\ faults < MaxFaults
       /\ faults' = faults + 1
       /\ PressResetPairing

\* The user presses on until it works; the rest as in HubRecovery.
UserPersists == WF_recoveryVars(Without(PressSubmitPin))

RepairingSpec ==
    /\ RecoveryInit
    /\ [][RepairingNext]_recoveryVars
    /\ TimersAreRun
    /\ ClientWorks
    /\ ApplianceAnswers
    /\ UserPersists

=============================================================================
