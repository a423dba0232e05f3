SPECIFICATION FairSpec
CONSTANTS
  BufferSize = 4
  CountModulus = 8
  ErrorWindows = {}
  MaxBytes = 10
  MaxErrors = 2
INVARIANTS TypeOK PublishedWasWritten DueWritten
PROPERTIES ReadsNextByte BytesReachProtocol ReceptionRecovers
