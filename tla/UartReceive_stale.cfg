SPECIFICATION Spec
CONSTANTS
  BufferSize = 4
  CountModulus = 8
  ErrorWindows = {}
  MaxBytes = 6
  MaxErrors = 1
PROPERTY NoStaleBytes
