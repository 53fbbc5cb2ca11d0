SPECIFICATION RepairingSpec
CONSTANTS
  Pins = {p1}
  NoPin = NoPin
  Inputs = {"reset", "submit_pin"}
  StaleBondsThreshold = 3
  MaxEncryptionRetries = 1
  WriteFailStreakThreshold = 2
  MaxD6RediscoverAttempts = 1
  PairingBackoffInitial = 60
  PairingBackoffMax = 60
  MaxFaults = 2
PROPERTIES DataKeepsComing
