SPECIFICATION FairSpec
CONSTANTS
  BufferSize = 4
  CountModulus = 8
  ErrorWindows = {"init"}
  MaxBytes = 4
  MaxErrors = 1
PROPERTY ReceptionRecovers
CHECK_DEADLOCK FALSE
