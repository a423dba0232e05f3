SPECIFICATION Spec
CONSTANTS
  ArmOnThreshold = 750
  ArmOffThreshold = 250
  ThrottleArmMax = 50
  RequireRelease = TRUE
  FailsafeTimeout = 1
  ClockModulus = 5
  ArmValues = {250, 251, 750}
  ThrottleValues = {50, 51}
  FramesPerPoll = 2
  MaxStall = 3
INVARIANT ReleaseAfterLostFrame
