SPECIFICATION Spec
CONSTANTS
  MessageTypes = {"DATA"}
  MaxRetries = 0
  SeqModulus = 8
  InitialSequence = 1
  CountModulus = 256
  EventCapacity = 2
  RestartNodes = {"initiator"}
  MaxExchanges = 2
  MaxFaults = 0
  MaxJunk = 0
  MaxRestarts = 1
PROPERTY OnlyDuplicatesSuppressed
