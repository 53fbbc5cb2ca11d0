SPECIFICATION RecoverySpec
CONSTANTS
  Pins = {p1}
  NoPin = NoPin
  Inputs = {"drop","auth_fail","repeated","security","truncated","write_fail","poll_refused","revoked","lacking"}
  StaleBondsThreshold = 3
  MaxEncryptionRetries = 1
  WriteFailStreakThreshold = 2
  MaxD6RediscoverAttempts = 1
  PairingBackoffInitial = 60
  PairingBackoffMax = 60
  MaxFaults = 4
PROPERTIES DataKeepsComing
