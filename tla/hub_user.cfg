SPECIFICATION Spec
CONSTANTS
  Pins = {p1, p2}
  NoPin = NoPin
  StaleBondsThreshold = 3
  WriteFailStreakThreshold = 2
  PairingBackoffInitial = 60
  PairingBackoffMax = 60
  MaxEncryptionRetries = 1
  MaxD6RediscoverAttempts = 1
  Inputs = {"drop", "search_fail", "auth_fail", "security", "write_fail",
            "connect", "disconnect", "start_pairing", "submit_pin", "poll",
            "log_debug", "reset", "set_pin", "set_property"}
INVARIANTS UnlockCommandIsCurrent
PROPERTIES BondLossIsAnnounced ResetInstructionSurvives
