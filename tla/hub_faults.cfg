SPECIFICATION Spec
CONSTANTS
  Pins = {p1, p2}
  NoPin = NoPin
  StaleBondsThreshold = 3
  WriteFailStreakThreshold = 3
  PairingBackoffInitial = 60
  PairingBackoffMax = 300
  MaxEncryptionRetries = 2
  MaxD6RediscoverAttempts = 2
  Inputs = {"drop", "auth_fail", "repeated", "security", "truncated",
            "poll_refused", "revoked", "lacking"}
INVARIANTS TypeOK FlagHasTimer RetryFlagMatchesTimer MuteHasWatchdog HoldHasTimer
           IdleLinkIsUnlocked
           OneStrikePerAttempt IntentIsConsumed LiveLinkIsSupervised
           ColdDiscoveryStartsClean UnlockedSessionIsRefreshed
           PollingStatusIsCurrent
PROPERTIES GenuineDropCounts
