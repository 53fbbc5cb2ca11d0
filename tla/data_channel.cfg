SPECIFICATION Spec
CONSTANTS
  Messages <- SomeMessages
  Noise <- SomeNoise
  MaxBytes = 8
  MaxFragment = 4
  MaxFaults = 2
  PollsMidMessage = FALSE
INVARIANTS BufferAtRest ObjectsComeOut FaultFreeIsLossless
PROPERTIES BufferRecovers
