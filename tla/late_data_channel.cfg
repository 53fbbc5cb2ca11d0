SPECIFICATION Spec
CONSTANTS
  Pins = {p1}
  NoPin = NoPin
  StaleBondsThreshold = 3
  WriteFailStreakThreshold = 3
  PairingBackoffInitial = 60
  PairingBackoffMax = 60
  MaxEncryptionRetries = 1
  MaxD6RediscoverAttempts = 1
  Inputs = {"truncated"}
PROPERTIES PolledChannelIsHeard
